------------------------------ MODULE MCObjects ------------------------------
(***************************************************************************)
(* Secrets that are created, inspected, deleted and replaced under the     *)
(* same name while requests that refer to them, by identifier or by name,  *)
(* are being judged; requests without, or with a broken, identity.         *)
(***************************************************************************)
EXTENDS DockAuthz, TLC

MCApiVersions == {"v1.41"}
MCIds         == {"id1", "id2"}
MCNames       == {"key"}
MCIdentifiers == MCIds \cup MCNames \cup {"create"}
MCLabelKeys   == {"team"}
MCLabelValues == {"a", "b"}
MCValues      == {"x", "token"}
MCToken       == "token"

Team(t) == [team |-> t]
Unconstrained == [selector |-> Nil, request |-> Nil, mutation |-> Nil]
Selected(t)   == [Unconstrained EXCEPT !.selector = Team(t)]

\* rotator replaces the secrets of team a; it may list everything there is.
MCConfig ==
  [unidentified |-> "allow",
   clients |-> [
     rotator |-> [cn |-> "rotator.example",
                  permissions |-> << "secret", "delete">> :> Selected("a")
                               @@ << "secret", "create">> :> [Unconstrained EXCEPT !.request = Team("a")]
                               @@ << "*", "inspect">> :> Selected("a")
                               @@ << "node", "inspect">> :> Selected("a")
                               @@ << "node", "*">> :> Unconstrained
                               @@ << "*", "list">> :> Unconstrained]]]

Secret(t) == [name |-> "key", labels |-> Team(t), container |-> Nil, replicated |-> Nil, modes |-> NoModes, rest |-> "x"]

MCInitialObjects == "id1" :> [resource |-> "secret", spec |-> Secret("a")]
MCPool == {[resource |-> "secret", spec |-> Secret(t)] : t \in {"a", "b"}}

Nobody  == [method |-> "", user |-> "", peers |-> <<>>]
Rotator == [method |-> "TLS", user |-> "rotator.example", peers |-> <<"rotator.example">>]
NoBody  == [strict |-> FALSE, spec |-> Nil]
NoHeaders == [internal |-> <<>>, registryAuth |-> Nil]
Request(method, segments, auth, body) ==
  [method |-> method, uri |-> [clean |-> TRUE, segments |-> segments, query |-> NoQuery],
   headers |-> NoHeaders, auth |-> auth, body |-> body]
Create(body) == Request("POST", <<"secrets", "create">>, Rotator, body)

MCRequests ==
  {Request("DELETE", <<"secrets", "id1">>, Rotator, NoBody),
   Request("DELETE", <<"secrets", "key">>, Rotator, NoBody),
   Create([strict |-> TRUE, spec |-> Secret("a")]),
   Create([strict |-> TRUE, spec |-> Secret("b")]),
   Create([strict |-> FALSE, spec |-> Secret("b")]),
   [Request("GET", <<"v1.41", "secrets", "id2">>, Rotator, NoBody) EXCEPT !.uri.query.other = <<"x">>],
   Request("GET", <<"nodes", "id1">>, Rotator, NoBody),
   Request("GET", <<"secrets", "create">>, Rotator, NoBody),
   Request("GET", <<"nodes">>, Rotator, NoBody),
   [Request("GET", <<"secrets">>, Rotator, NoBody) EXCEPT !.uri.clean = FALSE],
   Request("GET", <<"secrets">>, Nobody, NoBody),
   Request("GET", <<"secrets">>, [Rotator EXCEPT !.user = "other.example"], NoBody),
   Request("GET", <<"secrets">>, [Rotator EXCEPT !.peers = <<>>], NoBody),
   [Request("GET", <<"secrets", "id2">>, Rotator, NoBody) EXCEPT !.headers.internal = <<"token", "x">>]}

\* Enough for liveness: a delete and an inspect that need lookups, one that ends with
\* the third candidate, and one that is decided at once.
MCFewRequests ==
  {Request("DELETE", <<"secrets", "id1">>, Rotator, NoBody),
   Request("GET", <<"nodes", "id1">>, Rotator, NoBody),
   Create([strict |-> TRUE, spec |-> Secret("a")]),
   Request("GET", <<"secrets">>, Nobody, NoBody)}

Symmetry == Permutations(Slots)
=============================================================================
