------------------------------ MODULE MCUpdate ------------------------------
(***************************************************************************)
(* Concurrent updates of one service by a constrained client, an           *)
(* administrator and another manager.                                      *)
(***************************************************************************)
EXTENDS DockAuthz, TLC

MCApiVersions == {"v1.41"}
MCIds         == {"id1"}
MCNames       == {"web"}
MCIdentifiers == MCIds \cup MCNames \cup {"create"}
MCLabelKeys   == {"team"}
MCLabelValues == {"a", "b"}
MCValues      == {"x", "y", "token"}
MCToken       == "token"

Team(t) == [team |-> t]
Unconstrained == [selector |-> Nil, request |-> Nil, mutation |-> Nil]

\* scaler: services of team a may be scaled; services of team b may be rewritten
\* if they stay with team b.
MCConfig ==
  [unidentified |-> "deny",
   clients |-> [
     scaler |-> [cn |-> "scaler.example",
                   permissions |-> << "service", "update">> :>
                                      [selector |-> Team("a"), request |-> Nil, mutation |-> <<"replicas">>]
                                @@ << "*", "update">> :>
                                      [selector |-> Team("b"), request |-> Team("b"), mutation |-> Nil]],
     admin    |-> [cn |-> "admin.example", permissions |-> << "*", "*">> :> Unconstrained]]]

Base == [name |-> "web", labels |-> Team("a"),
         container |-> [image |-> "x", secrets |-> "x", rest |-> "x"],
         replicated |-> [replicas |-> "x"], modes |-> NoModes, rest |-> "x"]
Scaled == [Base EXCEPT !.replicated.replicas = "y"]
OtherTeam == [Base EXCEPT !.labels = Team("b")]

MCInitialObjects == "id1" :> [resource |-> "service", spec |-> Base]
MCPool == {[resource |-> "service", spec |-> spec] : spec \in {Base, OtherTeam}}

TLS(cn) == [method |-> "TLS", user |-> cn, peers |-> <<cn>>]
Update(cn, ref, query, auth, body) ==
  [method |-> "POST", uri |-> [clean |-> TRUE, segments |-> <<"v1.41", "services", ref, "update">>, query |-> query],
   headers |-> [internal |-> <<>>, registryAuth |-> auth], auth |-> TLS(cn), body |-> body]
Get(cn, segments) ==
  [method |-> "GET", uri |-> [clean |-> TRUE, segments |-> segments, query |-> NoQuery],
   headers |-> [internal |-> <<>>, registryAuth |-> Nil], auth |-> TLS(cn), body |-> [strict |-> FALSE, spec |-> Nil]]
Strict(spec) == [strict |-> TRUE, spec |-> spec]
At(v) == [NoQuery EXCEPT !.version = <<v>>]

MCRequests ==
  {Update("scaler.example", "id1", At(v), Nil, Strict(spec)) : v \in 1..2, spec \in {Scaled, OtherTeam}}
  \cup {Update("scaler.example", "web", At(1), Nil, Strict(Scaled)),
        Update("scaler.example", "id1", At(4), Nil, Strict(Scaled)),
        Update("scaler.example", "id1", NoQuery, Nil, Strict(Scaled)),
        Update("scaler.example", "id1", At(2), "y", Strict(Scaled)),
        Update("scaler.example", "id1", [At(3) EXCEPT !.rollback = <<"previous">>], Nil, Strict(Scaled)),
        Update("scaler.example", "id1", [At(2) EXCEPT !.registryAuthFrom = <<"previous-spec">>], Nil, Strict(Scaled)),
        Update("scaler.example", "id1", [At(2) EXCEPT !.registryAuthFrom = <<"spec">>], Nil, [strict |-> FALSE, spec |-> Scaled]),
        Update("admin.example", "web", [At(2) EXCEPT !.rollback = <<"previous">>], Nil, [strict |-> FALSE, spec |-> Nil]),
        Update("admin.example", "id1", At(1), "y", Strict(Base)),
        Get("admin.example", <<"services", "id1">>),
        [Get("scaler.example", <<"services", "id1">>) EXCEPT !.headers.internal = <<"x", "token">>]}

Symmetry == Permutations(Slots)
=============================================================================
