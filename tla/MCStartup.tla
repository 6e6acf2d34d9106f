------------------------------ MODULE MCStartup ------------------------------
(***************************************************************************)
(* Configurations with two clients, whose names and common names may clash *)
(* or be reserved or blank, or with one permission, or with a telemetry    *)
(* section.                                                                *)
(***************************************************************************)
EXTENDS Startup, TLC

MCLabelKeys   == {"team"}
MCLabelValues == {"a"}

Labels == {Nil, <<>>, [team |-> "a"]}
Lists  == {Nil, <<>>, <<"replicas">>, <<"replicas", "replicas">>, <<"replicas", "container.image">>, <<"name">>}
Keys   == (Resources \cup {"*", "volume"}) \X (Actions \cup {"*", "prune"})

\* Every permission under every key, for a client that is alone.
Single ==
  {[unidentified |-> "deny", telemetry |-> Nil,
    clients |-> "c" :> [cn |-> "cn", permissions |-> key :> [selector |-> s, request |-> r, mutation |-> m]]] :
     key \in Keys, s \in Labels, r \in Labels, m \in Lists}

\* Two clients with any names and common names.
Pairs ==
  {[unidentified |-> u, telemetry |-> Nil,
    clients |-> (n[1] :> [cn |-> cn[1], permissions |-> <<>>] @@ n[2] :> [cn |-> cn[2], permissions |-> <<>>])] :
     u \in {"allow", "deny", ""},
     n \in {"c", "d", "internal", " "} \X {"c", "d"},
     cn \in {"cn", "dn", ""} \X {"cn", "dn"}}

\* No client, and a telemetry section.
Telemetries ==
  {[unidentified |-> "deny", telemetry |-> t, clients |-> <<>>] :
     t \in [service : {"", "edge"}, reserved : BOOLEAN, ratio : {Nil, Invalid, 0, 100, 101},
            interval : {Nil, Invalid, 0, 5}, traces : BOOLEAN, metrics : BOOLEAN,
            protocol : {"", "grpc", "http", "udp"}, endpoint : {"", "ok", "bad"}, headers : {"", "bad"}]}

MCConfigs == Single \cup Pairs \cup Telemetries
=============================================================================
