------------------------------ MODULE Transport ------------------------------
(***************************************************************************)
(* From the envelope that Docker posts to the response it gets: ServeHTTP  *)
(* checks the envelope, Authorize decides, and its deferred function tells *)
(* metrics and audit log, while a lookup makes the daemon post an envelope *)
(* of its own.  What Evaluate finds is left open here; DockAuthz has it.   *)
(*                                                                         *)
(* An envelope is [verb, path, wire, trailing, request, peers, trace,      *)
(* inner]:                                                                 *)
(*   wire  - "object", "null", or "invalid": what d.Decode refuses, too    *)
(*           large a body, no JSON, an unknown field, a value of the wrong *)
(*           type;                                                         *)
(*   peers - the entries for the peer certificates, [bytes, block, rest,   *)
(*           cert]: is it a JSON string of bytes or null; the type of its  *)
(*           first PEM block, "" without one; is there something after it; *)
(*           the common name in the certificate, Nil if it does not parse; *)
(*   trace - the trace in the HTTP headers of the envelope, and inner the  *)
(*           one in RequestHeaders; 0 stands for none.                     *)
(* request is a request as in Authz, with no peers and Nil for no URI.     *)
(*                                                                         *)
(* A slot holds one call of ServeHTTP.  Its pc is                          *)
(*   idle, http, authorize  - before ServeHTTP, Authorize                  *)
(*   lookup, waiting        - in Inspect, before and while the daemon asks *)
(*   record                 - in the deferred function of Authorize        *)
(*   respond                - in ServeHTTP, with the response.             *)
(***************************************************************************)
EXTENDS Authz, FiniteSets

CONSTANTS
  Slots,
  Envelopes,    \* what Docker may post for clients
  MaxPeers,     \* peer certificates in an envelope; the code has 16
  Tracing,      \* whether traces are enabled in the configuration
  MaxPosts,     \* bound: envelopes of clients
  MaxLookups    \* bound: lookups

ASSUME TransportAssumption ==
  /\ MaxPeers \in Nat /\ MaxPosts \in Nat /\ MaxLookups \in Nat
  /\ Tracing \in BOOLEAN
  /\ Nil \notin Slots

PeerEntries == [bytes : BOOLEAN, block : STRING, rest : BOOLEAN, cert : STRING \cup {Nil}]
Posted == [method : STRING, uri : URIs \cup {Nil}, headers : Headers, auth : Auths, body : Bodies]

ASSUME EnvelopesAssumption ==
  Envelopes \subseteq [verb : STRING, path : STRING, wire : {"object", "null", "invalid"}, trailing : BOOLEAN,
                      request : Posted, peers : Seq(PeerEntries), trace : Nat, inner : Nat]

VARIABLES
  pc, env,
  call,    \* history variable: the call, [post, lookup]: a client's envelope (0) or the one for a lookup of it
  rq,      \* the request Authorize gets
  span,    \* the trace of the span dockauthz.authorize
  lookup,  \* history variable: the number of the lookup that Evaluate is at, or was at last
  result,  \* [allow, error]: policy.Result
  todo,    \* what the deferred function has yet to tell
  told,    \* the counters and the audit log: [call, what], what has been told and for which call,
           \* a lookup being told of under the name of its own envelope
  posts,   \* number of clients' envelopes so far
  lookups, \* number of lookups so far
  askedBy, \* history variable: the slot whose lookup, still waiting, this envelope is for
  consent, \* whether the envelope of a slot's lookup has been answered with allow
  answers  \* history variable: [call, request, allow], what Docker has been answered by Authorize

input == <<env, call, rq, span>>
vars == <<pc, env, call, rq, span, lookup, result, todo, told, posts, lookups, askedBy, consent, answers>>

Init ==
  /\ pc = [s \in Slots |-> "idle"]
  /\ env = [s \in Slots |-> Nil] /\ call = [s \in Slots |-> Nil] /\ rq = [s \in Slots |-> Nil]
  /\ span = [s \in Slots |-> 0] /\ lookup = [s \in Slots |-> 0]
  /\ result = [s \in Slots |-> Nil]
  /\ todo = [s \in Slots |-> <<>>]
  /\ told = {} /\ answers = {}
  /\ posts = 0 /\ lookups = 0
  /\ askedBy = [s \in Slots |-> Nil] /\ consent = [s \in Slots |-> FALSE]

-----------------------------------------------------------------------------
(* ServeHTTP *)

Usable(peer) == peer.bytes /\ peer.block = "CERTIFICATE" /\ ~peer.rest /\ peer.cert # Nil

\* Mutated form: an entry that is no certificate is left out.
CertificatesAnyway(peers) ==
  LET good == SelectSeq(peers, Usable) IN [i \in DOMAIN good |-> good[i].cert]

\* The common names of the certificates; Nil when one entry is not usable.
Certificates(peers) ==
  IF \A i \in DOMAIN peers : Usable(peers[i]) THEN [i \in DOMAIN peers |-> peers[i].cert] ELSE Nil

\* The whole envelope is refused.
Malformed(e) ==
  \/ e.wire # "object" \/ e.trailing
  \/ Len(e.peers) > MaxPeers
  \/ e.path = "AuthZReq" /\ (e.request.method = "" \/ e.request.uri = Nil)
  \/ Certificates(e.peers) = Nil

Routed(e) == e.verb = "POST" /\ e.path \in {"AuthZReq", "AuthZRes"}

\* A refusal and the answer to AuthZRes are known at once; neither is counted or logged.
ServeHTTP(s) ==
  /\ pc[s] = "http"
  /\ LET e == env[s]
         direct(allow) == /\ pc' = [pc EXCEPT ![s] = "respond"]
                          /\ result' = [result EXCEPT ![s] = [allow |-> allow, error |-> ""]]
                          /\ UNCHANGED rq
     IN  \/ ~Routed(e) /\ direct(FALSE)
         \/ Routed(e) /\ Malformed(e) /\ direct(FALSE)
         \/ Routed(e) /\ ~Malformed(e) /\ e.path = "AuthZRes" /\ direct(TRUE)
         \/ /\ Routed(e) /\ ~Malformed(e) /\ e.path = "AuthZReq"
            /\ pc' = [pc EXCEPT ![s] = "authorize"]
            /\ rq' = [rq EXCEPT ![s] = [e.request EXCEPT !.auth.peers = Certificates(e.peers)]]
            /\ UNCHANGED result
  /\ UNCHANGED <<env, call, span, lookup, todo, told, posts, lookups, askedBy, consent, answers>>

-----------------------------------------------------------------------------
(* Authorize *)

\* The trace that a span without a parent begins.
OwnTrace(c) == IF c.lookup = 0 THEN 2 * c.post + 100 ELSE 2 * c.lookup + 101

\* The trace of the new span: that of the envelope's headers, else that of the client's
\* headers, else one of its own (spans that are not exported begin none).
SpanTrace(outer, inner, own) ==
  IF outer # 0 THEN outer ELSE IF inner # 0 THEN inner ELSE IF Tracing THEN own ELSE 0

\* The result where Evaluate is not called.
Early(r) ==
  [allow |-> Immediate(r),
   error |-> IF Immediate(r) THEN ""
             ELSE IF Present(r.headers) THEN "internal"
             ELSE IF CommonName(r.auth) = Nil THEN "policy"
             ELSE IF Configured(Attribution(r)) THEN "resolver"
             ELSE ""]

\* The results of Evaluate, with or without lookups that failed.
Verdicts(failed) ==
  {[allow |-> TRUE, error |-> ""]} \cup
  {[allow |-> FALSE, error |-> error] :
     error \in {"", "policy", "mutation"} \cup (IF failed THEN {"docker_lookup"} ELSE {})}

Decision(res) == IF res.allow THEN "allow" ELSE "deny"

Identity(r) == IF Present(r.headers) \/ CommonName(r.auth) = Nil THEN "" ELSE CommonName(r.auth)

\* The audit record.
LogRecord(r, res, trace) ==
  [kind |-> "log", client |-> Attribution(r), identity |-> Identity(r),
   resource |-> Op(r).resource, id |-> Op(r).id, action |-> Op(r).action,
   decision |-> Decision(res), trace |-> trace]

Counted(r, res) ==
  [kind |-> "decision", client |-> Attribution(r), resource |-> Op(r).resource,
   action |-> Op(r).action, decision |-> Decision(res)]

\* Mutated forms: the deferred call has its arguments from before the decision; what
\* carries the token is counted by the internal counter alone.
TellsEarly(r, res, trace) ==
  LET denied == [allow |-> FALSE, error |-> ""]
  IN  << Counted(r, denied), LogRecord(r, denied, trace) >>
TellsInternalApart(r, res, trace) ==
  IF Present(r.headers) THEN << [kind |-> "internal", decision |-> Decision(res)], LogRecord(r, res, trace) >>
  ELSE << Counted(r, res), LogRecord(r, res, trace) >>

\* What the deferred function of Authorize tells, in its order.
Tells(r, res, trace) ==
  << Counted(r, res) >>
  \o (IF res.error # "" THEN << [kind |-> "error", type |-> res.error] >> ELSE <<>>)
  \o (IF Present(r.headers) THEN << [kind |-> "internal", decision |-> Decision(res)] >> ELSE <<>>)
  \o << LogRecord(r, res, trace) >>

\* Authorize has its result.
Decide(s, res, trace) ==
  /\ pc' = [pc EXCEPT ![s] = "record"]
  /\ result' = [result EXCEPT ![s] = res]
  /\ todo' = [todo EXCEPT ![s] = Tells(rq[s], res, trace)]
  /\ UNCHANGED <<lookup, lookups>>

\* Evaluate comes to a permission that needs the object, and calls Inspect.
BeginLookup(s) ==
  /\ lookups < MaxLookups
  /\ pc' = [pc EXCEPT ![s] = "lookup"]
  /\ lookups' = lookups + 1
  /\ lookup' = [lookup EXCEPT ![s] = lookups']
  /\ UNCHANGED <<result, todo>>

\* Up to the result, or into Inspect.
Authorize(s) ==
  /\ pc[s] = "authorize"
  /\ LET trace == SpanTrace(env[s].trace, env[s].inner, OwnTrace(call[s]))
     IN  /\ span' = [span EXCEPT ![s] = trace]
         /\ \/ ~Evaluated(rq[s]) /\ Decide(s, Early(rq[s]), trace)
            \/ Evaluated(rq[s]) /\ \E res \in Verdicts(FALSE) : Decide(s, res, trace)
            \/ Evaluated(rq[s]) /\ Op(rq[s]).id # "" /\ BeginLookup(s)
  /\ UNCHANGED <<env, call, rq, told, posts, askedBy, consent, answers>>

\* One call of the observer or the logger.
Tell(s) ==
  /\ pc[s] = "record" /\ todo[s] # <<>>
  /\ told' = told \cup {[call |-> call[s], what |-> Head(todo[s])]}
  /\ todo' = [todo EXCEPT ![s] = Tail(@)]
  /\ UNCHANGED <<pc, input, lookup, result, posts, lookups, askedBy, consent, answers>>

\* The deferred function is through, and Authorize returns.
Authorized(s) == pc[s] = "record" /\ todo[s] = <<>>

Finish(s) ==
  /\ pc' = [pc EXCEPT ![s] = "idle"]
  /\ env' = [env EXCEPT ![s] = Nil] /\ call' = [call EXCEPT ![s] = Nil]
  /\ rq' = [rq EXCEPT ![s] = Nil]
  /\ span' = [span EXCEPT ![s] = 0] /\ lookup' = [lookup EXCEPT ![s] = 0]
  /\ result' = [result EXCEPT ![s] = Nil]
  /\ todo' = [todo EXCEPT ![s] = <<>>]
  /\ askedBy' = [askedBy EXCEPT ![s] = Nil]

\* The response is written.
Respond(s) ==
  /\ \/ pc[s] = "respond" /\ UNCHANGED answers
     \/ /\ Authorized(s)
        /\ answers' = answers \cup {[call |-> call[s], request |-> rq[s], allow |-> result[s].allow]}
  /\ consent' = IF askedBy[s] = Nil THEN consent ELSE [consent EXCEPT ![askedBy[s]] = result[s].allow]
  /\ Finish(s)
  /\ UNCHANGED <<told, posts, lookups>>

-----------------------------------------------------------------------------
(* Docker (external) and Inspect *)

Post(s) ==
  /\ pc[s] = "idle" /\ posts < MaxPosts
  /\ \E e \in Envelopes : env' = [env EXCEPT ![s] = e]
  /\ call' = [call EXCEPT ![s] = [post |-> posts, lookup |-> 0]]
  /\ pc' = [pc EXCEPT ![s] = "http"]
  /\ posts' = posts + 1
  /\ UNCHANGED <<rq, span, lookup, result, todo, told, lookups, askedBy, consent, answers>>

\* Mutated form: the span's context is not passed on.
InjectedNothing(trace) == 0

\* The trace in the headers of the plugin's own inspect.
Injected(trace) == trace

\* The name of the envelope for the lookup that slot s is at.
Callee(s) == [post |-> call[s].post, lookup |-> lookup[s]]

\* Docker receives the inspect that slot s sends, and posts it to the plugin, by itself
\* without a trace or, if it is traced too, with the one it has received.
Callback(s, t) ==
  /\ pc[s] = "lookup" /\ pc[t] = "idle"
  /\ \E outer \in {0, Injected(span[s])} :
       env' = [env EXCEPT ![t] =
                 [verb |-> "POST", path |-> "AuthZReq", wire |-> "object", trailing |-> FALSE,
                  request |-> InspectRequest(Op(rq[s])), peers |-> <<>>,
                  trace |-> outer, inner |-> Injected(span[s])]]
  /\ call' = [call EXCEPT ![t] = Callee(s)]
  /\ pc' = [pc EXCEPT ![s] = "waiting", ![t] = "http"]
  /\ askedBy' = [askedBy EXCEPT ![t] = s]
  /\ UNCHANGED <<rq, span, lookup, result, todo, told, posts, lookups, consent, answers>>

\* Inspect returns, with the daemon's reply if it has the plugin's consent, or with an
\* error, which may come at any time; its own deferred function counts it.  Evaluate has
\* its result then, or goes on to another permission that needs the object.
EndLookup(s) ==
  /\ pc[s] \in {"lookup", "waiting"}
  /\ \E ok \in {FALSE, consent[s]} :
       /\ told' = told \cup {[call |-> Callee(s), what |-> [kind |-> "lookup", resource |-> Op(rq[s]).resource, ok |-> ok]]}
       /\ \/ \E res \in Verdicts(~ok) : Decide(s, res, span[s])
          \/ BeginLookup(s)
  /\ askedBy' = [t \in Slots |-> IF askedBy[t] = s THEN Nil ELSE askedBy[t]]
  /\ consent' = [consent EXCEPT ![s] = FALSE]
  /\ UNCHANGED <<input, posts, answers>>

Next ==
  \E s \in Slots :
    \/ Post(s) \/ ServeHTTP(s) \/ Authorize(s) \/ Tell(s) \/ Respond(s) \/ EndLookup(s)
    \/ \E t \in Slots : Callback(s, t)

Spec == Init /\ [][Next]_vars

-----------------------------------------------------------------------------

\* A call that is told of as unidentified, and so judged by authentication.unidentified
\* alone, came in an envelope without any hint of authentication: not with peers that were
\* dropped for being malformed (ServeHTTP), nor with a part of what TLS leaves
\* (CommonName).
NeverAnonymous ==
  \A s \in Slots : \A i \in DOMAIN todo[s] :
    todo[s][i].kind = "log" /\ todo[s][i].client = "unidentified" =>
      /\ env[s].peers = <<>> /\ env[s].request.auth.method = "" /\ env[s].request.auth.user = ""
      /\ ~Present(env[s].request.headers)

\* Docker never acts on a decision of Authorize that the audit log does not have, from the
\* same call and with the same client, object and outcome: the deferred function of Authorize
\* is through before ServeHTTP writes the response, whatever other calls do in between.  What
\* ServeHTTP answers by itself is not recorded at all and not among the answers here: the
\* denial of an envelope that is malformed or not routed, and the consent to AuthZRes.
AuditedFirst ==
  \A a \in answers : \E m \in told :
    /\ m.call = a.call /\ m.what.kind = "log"
    /\ m.what.client = Attribution(a.request)
    /\ LET op == Op(a.request)
       IN  <<m.what.resource, m.what.action, m.what.id>> = <<op.resource, op.action, op.id>>
    /\ m.what.decision = IF a.allow THEN "allow" ELSE "deny"

\* The value of the counter of what satisfies P.
Count(P(_)) == Cardinality({m \in told : P(m.what)})

\* At every moment the counters can be reconciled: no more lookups have succeeded than
\* token-bearing requests were allowed, and each of these is a decision as well (the order
\* of Decision and Internal, and of both before the response that lets a lookup succeed).
CountersReconcile ==
  /\ Count(LAMBDA m : m.kind = "lookup" /\ m.ok) <= Count(LAMBDA m : m.kind = "internal" /\ m.decision = "allow")
  /\ \A d \in {"allow", "deny"} :
       Count(LAMBDA m : m.kind = "internal" /\ m.decision = d) <=
         Count(LAMBDA m : m.kind = "decision" /\ m.client = "internal" /\ m.decision = d)

\* The envelope of a lookup is judged under the trace of the call the lookup is for, so the
\* two audit records can be correlated (Inject in Inspect, Extract in Authorize).
CallbackTraced ==
  \A t \in Slots : askedBy[t] # Nil /\ pc[t] = "record" => span[t] = span[askedBy[t]]
=============================================================================
