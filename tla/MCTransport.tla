----------------------------- MODULE MCTransport -----------------------------
(***************************************************************************)
(* Two envelopes of clients and the lookups they bring about: well formed  *)
(* ones of a client with and without permissions, of nobody and of a bad   *)
(* identity, and ones with a defect each.                                  *)
(***************************************************************************)
EXTENDS Transport, TLC

MCIdentifiers == {"id1"}
MCValues      == {"x", "token"}
MCToken       == "token"
MCLabels      == [team |-> "a"]
MCLabelKeys   == {"team"}
MCLabelValues == {"a"}

Granting(p) == <<"secret", "inspect">> :> p

MCConfig ==
  [unidentified |-> "allow",
   clients |-> [reader |-> [cn |-> "reader.example",
                            permissions |-> Granting([selector |-> MCLabels, request |-> Nil, mutation |-> Nil])]]]

Certificate(cn) == [bytes |-> TRUE, block |-> "CERTIFICATE", rest |-> FALSE, cert |-> cn]

Request == [method  |-> "GET",
            uri     |-> [clean |-> TRUE, segments |-> <<"secrets", "id1">>, query |-> NoQuery],
            headers |-> [internal |-> <<>>, registryAuth |-> Nil],
            auth    |-> [method |-> "TLS", user |-> "", peers |-> <<>>],
            body    |-> [strict |-> FALSE, spec |-> Nil]]

Reader == [verb |-> "POST", path |-> "AuthZReq", wire |-> "object", trailing |-> FALSE,
           request |-> Request, peers |-> <<Certificate("reader.example")>>, trace |-> 0, inner |-> 0]
Local  == [Reader EXCEPT !.request.auth.method = "", !.peers = <<>>]

MCEnvelopes ==
  {Reader, Local,
   [Reader EXCEPT !.trace = 1, !.inner = 2],
   [Local EXCEPT !.inner = 1],
   [Reader EXCEPT !.request.uri.clean = FALSE],
   [Reader EXCEPT !.peers = <<Certificate("other.example"), Certificate("reader.example")>>],
   [Reader EXCEPT !.request.headers.internal = <<"x">>],
   [Local EXCEPT !.peers = <<Certificate("reader.example")>>],
   [Local EXCEPT !.peers = <<[Certificate("reader.example") EXCEPT !.bytes = FALSE]>>],
   [Local EXCEPT !.peers = <<[Certificate("reader.example") EXCEPT !.block = ""]>>],
   [Local EXCEPT !.peers = <<[Certificate("reader.example") EXCEPT !.rest = TRUE]>>],
   [Local EXCEPT !.peers = <<Certificate(Nil)>>],
   [Reader EXCEPT !.peers = <<Certificate("reader.example"), Certificate("a"), Certificate("b")>>],
   [Local EXCEPT !.request.method = ""],
   [Local EXCEPT !.request.uri = Nil],
   [Local EXCEPT !.wire = "invalid"], [Local EXCEPT !.wire = "null"], [Local EXCEPT !.trailing = TRUE],
   [Local EXCEPT !.verb = "GET"],
   [Local EXCEPT !.path = "AuthZRes", !.request.method = ""]}

Symmetry == Permutations(Slots)
=============================================================================
