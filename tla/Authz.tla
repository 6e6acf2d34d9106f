-------------------------------- MODULE Authz --------------------------------
(***************************************************************************)
(* internal/authz, internal/identity and dockerapi.Token: everything       *)
(* Plugin.Authorize decides without looking at Docker's state, and the     *)
(* list of permissions it hands to the evaluator otherwise.                *)
(*                                                                         *)
(* A request is [method, uri, headers, auth, body].  headers.internal is   *)
(* the list of values of all spellings of the internal token's header, in  *)
(* an arbitrary order; auth is the authentication context Docker supplies: *)
(* its method, its user and the common names of the peer certificates,     *)
(* a nil certificate being Nil.                                            *)
(***************************************************************************)
EXTENDS Config

CONSTANTS
  ServedConfig, \* the configuration the plugin was started with
  Token         \* the per-process value of dockerapi.Token

\* authz.New refuses any other configuration.
ASSUME ServedConfigAssumption == ValidConfig(ServedConfig) /\ Nil \notin DOMAIN ServedConfig.clients
ASSUME TokenAssumption == Token \in Values

Auths == [method : STRING, user : STRING, peers : Seq(STRING \cup {Nil})]
URIs  == [clean : BOOLEAN, segments : Seq(STRING),
          query : [version : Seq(Int), registryAuthFrom : Seq(STRING),
                   rollback : Seq(STRING), other : Seq(STRING)]]
RequestType == [method : STRING, uri : URIs, headers : Headers, auth : Auths, body : Bodies]

Op(r) == Resolve(r.method, r.uri)

\* Token.Check: is the header there, and is it there once and right.
Present(headers) == headers.internal # <<>>
Valid(headers)   == Len(headers.internal) = 1 /\ headers.internal[1] = Token

\* The authenticated common name, "" without authentication, Nil for an error.
CommonName(auth) ==
  IF auth.method = "" /\ auth.user = "" /\ auth.peers = <<>> THEN ""
  ELSE IF /\ auth.method = "TLS" /\ auth.peers # <<>>
          /\ auth.peers[1] \notin {Nil, ""}
          /\ auth.user \in {"", auth.peers[1]}
       THEN auth.peers[1]
       ELSE Nil

\* The entry of Plugin.clients for a common name, Nil when there is none.
ClientFor(cn) ==
  LET found == {name \in DOMAIN ServedConfig.clients : ServedConfig.clients[name].cn = cn}
  IN  IF found = {} THEN Nil ELSE CHOOSE name \in found : TRUE

\* The client name in audit records and metrics.
Attribution(r) ==
  LET cn == CommonName(r.auth)
  IN  IF Present(r.headers) THEN "internal"
      ELSE IF cn = "" THEN "unidentified"
      ELSE IF cn = Nil \/ ClientFor(cn) = Nil THEN "unknown"
      ELSE ClientFor(cn)

Configured(name) == name \in DOMAIN ServedConfig.clients

Granted(name) == ServedConfig.clients[name].permissions

\* The client holds an unconditional "*" / "*".
Administrator(name) ==
  /\ Configured(name)
  /\ <<"*", "*">> \in DOMAIN Granted(name)
  /\ Unconditional(Granted(name)[<<"*", "*">>])

\* The branch for requests that carry the internal header.
InternalAllowed(r) ==
  /\ Valid(r.headers)
  /\ Op(r) # Unknown
  /\ Op(r).action = "inspect"
  /\ Op(r).query = NoQuery

\* Whether Authorize comes to call Evaluate.
Evaluated(r) ==
  /\ Configured(Attribution(r))
  /\ ~Administrator(Attribution(r))
  /\ Op(r) # Unknown

\* Whether Authorize allows the request without calling Evaluate.
Immediate(r) ==
  LET name == Attribution(r)
  IN  IF name = "internal" THEN InternalAllowed(r)
      ELSE IF name = "unidentified" THEN ServedConfig.unidentified = "allow"
      ELSE Administrator(name)

\* The order in which Authorize looks for permissions that match an operation.
Candidates(op) ==
  << <<op.resource, op.action>>, <<op.resource, "*">>, <<"*", op.action>>, <<"*", "*">> >>

\* The permissions that match, in that order; Nil where there is none.
Matching(r) ==
  LET granted == Granted(Attribution(r))
      key     == Candidates(Op(r))
  IN  [i \in 1..4 |-> IF key[i] \in DOMAIN granted THEN granted[key[i]] ELSE Nil]

\* The request that dockerapi.Client.Inspect sends over Docker's Unix socket, as
\* Docker presents it to the plugin: nobody is authenticated there.
InspectRequest(op) ==
  [method  |-> "GET",
   uri     |-> InspectURI(op),
   headers |-> [internal |-> <<Token>>, registryAuth |-> Nil],
   auth    |-> [method |-> "", user |-> "", peers |-> <<>>],
   body    |-> [strict |-> FALSE, spec |-> Nil]]
=============================================================================
