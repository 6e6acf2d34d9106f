--------------------------- MODULE TransportProofs ---------------------------
(***************************************************************************)
(* Proofs about Transport for any number of slots and envelopes, any       *)
(* configuration and whatever Evaluate finds.                              *)
(***************************************************************************)
EXTENDS Transport, FiniteSetTheorems, SequenceTheorems, TLAPS

-----------------------------------------------------------------------------
(* The inductive invariant *)

States  == {"idle", "http", "authorize", "lookup", "waiting", "record", "respond"}
Calls   == [post : Nat, lookup : Nat]
Looking == {"lookup", "waiting"}

\* The message that the call has been allowed for its token.
Allowed(c) == [call |-> c, what |-> [kind |-> "internal", decision |-> "allow"]]

Form ==
  /\ pc \in [Slots -> States]
  /\ DOMAIN env = Slots /\ DOMAIN call = Slots /\ DOMAIN rq = Slots /\ DOMAIN span = Slots
  /\ DOMAIN result = Slots /\ DOMAIN todo = Slots /\ DOMAIN lookup = Slots
  /\ askedBy \in [Slots -> Slots \cup {Nil}]
  /\ DOMAIN consent = Slots
  /\ posts \in Nat /\ lookups \in Nat
  /\ IsFiniteSet(told)

\* What Authorize gets of an envelope.
Read(e, q) ==
  /\ q.headers = e.request.headers
  /\ q.auth.method = e.request.auth.method /\ q.auth.user = e.request.auth.user
  /\ q.auth.peers = <<>> => e.peers = <<>>

Legible(e) ==
  Certificates(e.peers) # Nil => Read(e, [e.request EXCEPT !.auth.peers = Certificates(e.peers)])

\* A slot by itself.
Sound(s) ==
  /\ pc[s] # "idle" => /\ call[s] \in Calls /\ call[s].post < posts
                       /\ Legible(env[s])
                       /\ call[s].lookup # 0 => env[s].path = "AuthZReq" /\ Present(env[s].request.headers)
  /\ pc[s] \in {"authorize", "lookup", "waiting", "record"} => Read(env[s], rq[s])
  /\ pc[s] \in Looking => /\ call[s].lookup = 0 /\ lookup[s] \in Nat /\ lookup[s] # 0
                          /\ Tracing => span[s] # 0
  /\ pc[s] = "respond" => (result[s].allow => env[s].path = "AuthZRes")
  /\ pc[s] # "record" => todo[s] = <<>>

SoundInv == \A s \in Slots : Sound(s)

\* Calls have names of their own, and so have lookups: a lookup under way has not been told
\* of, and before the daemon has posted its envelope there is no call of its number.
Named(s) ==
  /\ pc[s] # "idle" => /\ call[s].lookup <= lookups
                       /\ \A t \in Slots \ {s} : pc[t] # "idle" => call[t] # call[s]
  /\ pc[s] \in Looking => /\ lookup[s] <= lookups
                          /\ \A t \in Slots \ {s} : pc[t] \in Looking => lookup[t] # lookup[s]
                          /\ \A m \in told : m.what.kind = "lookup" => m.call.lookup # lookup[s]
  /\ pc[s] = "lookup" => \A t \in Slots : pc[t] # "idle" => call[t].lookup # lookup[s]

NamedInv == \A s \in Slots : Named(s)

\* The call that is for a lookup of s, which waits.
Asked(t, s) ==
  /\ pc[s] = "waiting" /\ pc[t] # "idle"
  /\ call[t] = Callee(s)
  /\ env[t].trace \in {0, span[s]} /\ env[t].inner = span[s]
  /\ pc[t] = "record" => span[t] = span[s]

AskedInv == \A t, s \in Slots : askedBy[t] = s => Asked(t, s)

\* A lookup has the plugin's consent only when that has been counted.
Consented(s) == consent[s] => pc[s] = "waiting" /\ Allowed(Callee(s)) \in told

ConsentInv == \A s \in Slots : Consented(s)

\* What the deferred function has yet to tell is the rest of what it tells.
Telling(s) ==
  pc[s] = "record" =>
    LET T == Tells(rq[s], result[s], span[s])
    IN  \E k \in 0..Len(T) :
          /\ todo[s] = SubSeq(T, k + 1, Len(T))
          /\ \A n \in 1..k : [call |-> call[s], what |-> T[n]] \in told

TellingInv == \A s \in Slots : Telling(s)

\* What has been told: a lookup is told of once, and has succeeded only after its own
\* envelope was allowed; an internal request is a decision first.
ToldInv ==
  \A m \in told :
    /\ m.call \in Calls /\ m.call.post < posts /\ m.call.lookup <= lookups
    /\ m.what.kind = "internal" =>
         /\ m = [call |-> m.call, what |-> [kind |-> "internal", decision |-> m.what.decision]]
         /\ \E n \in told : /\ n.call = m.call /\ n.what.kind = "decision"
                            /\ n.what.client = "internal" /\ n.what.decision = m.what.decision
    /\ m.what.kind = "lookup" =>
         /\ m.what.ok => Allowed(m.call) \in told
         /\ \A n \in told : n.what.kind = "lookup" /\ n.call = m.call => n = m

IInv == Form /\ SoundInv /\ NamedInv /\ AskedInv /\ ConsentInv /\ TellingInv /\ ToldInv /\ AuditedFirst

-----------------------------------------------------------------------------
(* Requests and messages *)

\* ServeHTTP leaves the headers, and no peer out.
LEMMA EnvelopeRead ==
  ASSUME NEW e \in Envelopes
  PROVE  Legible(e)
  <1>1. e.request \in Posted /\ e.peers \in Seq(PeerEntries)
    BY EnvelopesAssumption
  <1>2. e.request.auth \in Auths
    BY <1>1 DEF Posted
  <1> SUFFICES ASSUME Certificates(e.peers) # Nil
               PROVE  Read(e, [e.request EXCEPT !.auth.peers = Certificates(e.peers)])
    BY DEF Legible
  <1> DEFINE C == Certificates(e.peers)
             q == [e.request EXCEPT !.auth.peers = C]
  <1>3. C = <<>> => e.peers = <<>>
    <2>1. C = [n \in DOMAIN e.peers |-> e.peers[n].cert]
      BY DEF Certificates
    <2>2. DOMAIN C = DOMAIN e.peers
      BY <2>1
    <2>3. C = <<>> => DOMAIN e.peers = {}
      BY <2>2
    <2>4. DOMAIN e.peers = 1..Len(e.peers) /\ Len(e.peers) \in Nat
      BY <1>1
    <2>5. DOMAIN e.peers = {} => Len(e.peers) = 0
      <3>1. \A n \in Nat : n # 0 => 1 \in 1..n
        OBVIOUS
      <3>2. QED
        BY <2>4, <3>1
    <2>6. QED
      BY <1>1, <2>3, <2>5, EmptySeq
  <1> HIDE DEF C
  <1>4. /\ q.headers = e.request.headers /\ q.auth.method = e.request.auth.method
        /\ q.auth.user = e.request.auth.user /\ q.auth.peers = C
    BY <1>1, <1>2 DEF Posted, Auths
  <1>5. QED
    BY <1>3, <1>4 DEF Read, C

\* A request that carries the header of the token is nobody's but the plugin's own.
LEMMA InternalRequest ==
  ASSUME NEW r, Present(r.headers)
  PROVE  Attribution(r) = "internal" /\ ~Evaluated(r)
  <1>1. Attribution(r) = "internal"
    BY DEF Attribution
  <1>2. "internal" \notin DOMAIN ServedConfig.clients
    BY ServedConfigAssumption DEF ValidConfig, ValidNames, Reserved
  <1>3. QED
    BY <1>1, <1>2 DEF Evaluated, Configured

\* Who is unidentified has shown nothing at all.
LEMMA UnidentifiedRequest ==
  ASSUME NEW r, Attribution(r) = "unidentified"
  PROVE  ~Present(r.headers) /\ r.auth.method = "" /\ r.auth.user = "" /\ r.auth.peers = <<>>
  <1>1. ~Present(r.headers)
    BY DEF Attribution
  <1>2. "unidentified" \notin DOMAIN ServedConfig.clients /\ Nil # ""
    BY ServedConfigAssumption, PolicyAssumption DEF ValidConfig, ValidNames, Reserved
  <1>3. \A cn : ClientFor(cn) = Nil \/ ClientFor(cn) \in DOMAIN ServedConfig.clients
    BY DEF ClientFor
  <1>4. CommonName(r.auth) = ""
    BY <1>1, <1>2, <1>3 DEF Attribution
  <1>5. QED
    BY <1>1, <1>2, <1>4 DEF CommonName

\* A sequence with one more element.
LEMMA OneMore ==
  ASSUME NEW S, NEW s \in Seq(S), NEW e \in S, NEW t \in Seq(S), Len(t) = Len(s) + 1,
         \A n \in 1..Len(s) : t[n] = s[n], t[Len(s) + 1] = e
  PROVE  s \o <<e>> = t
  <1>1. s \o <<e>> = Append(s, e)
    BY AppendIsConcat
  <1>2. /\ Append(s, e) \in Seq(S) /\ Len(Append(s, e)) = Len(s) + 1 /\ Len(s) \in Nat
        /\ \A n \in 1..Len(s) : Append(s, e)[n] = s[n]
        /\ Append(s, e)[Len(s) + 1] = e
    BY AppendProperties, LenProperties
  <1>3. \A n \in 1..(Len(s) + 1) : n \in 1..Len(s) \/ n = Len(s) + 1
    BY <1>2
  <1>4. \A n \in 1..(Len(s) + 1) : Append(s, e)[n] = t[n]
    BY <1>2, <1>3
  <1>5. Append(s, e) = t
    BY <1>2, <1>4, SeqEqual
  <1>6. QED
    BY <1>1, <1>5

\* One more message after one or two.
LEMMA Appended ==
  ASSUME NEW a, NEW b, NEW d
  PROVE  /\ <<a>> \o <<d>> = <<a, d>>
         /\ <<a, b>> \o <<d>> = <<a, b, d>>
  <1> DEFINE S == {a, b, d}
  <1>1. <<a>> \o <<d>> = <<a, d>>
    <2>1. <<a>> \in Seq(S) /\ <<a, d>> \in Seq(S) /\ d \in S /\ Len(<<a>>) = 1 /\ Len(<<a, d>>) = 2
      OBVIOUS
    <2>2. <<a, d>>[Len(<<a>>) + 1] = d
      BY <2>1
    <2>3. \A n \in 1..Len(<<a>>) : <<a, d>>[n] = <<a>>[n]
      BY <2>1
    <2>4. Len(<<a, d>>) = Len(<<a>>) + 1
      BY <2>1
    <2>5. QED
      BY <2>1, <2>2, <2>3, <2>4, OneMore, Zenon
  <1>2. <<a, b>> \o <<d>> = <<a, b, d>>
    <2>1. <<a, b>> \in Seq(S) /\ <<a, b, d>> \in Seq(S) /\ d \in S /\ Len(<<a, b>>) = 2 /\ Len(<<a, b, d>>) = 3
      OBVIOUS
    <2>2. <<a, b, d>>[Len(<<a, b>>) + 1] = d
      BY <2>1
    <2>3. \A n \in 1..Len(<<a, b>>) : <<a, b, d>>[n] = <<a, b>>[n]
      BY <2>1
    <2>4. Len(<<a, b, d>>) = Len(<<a, b>>) + 1
      BY <2>1
    <2>5. QED
      BY <2>1, <2>2, <2>3, <2>4, OneMore, Zenon
  <1>3. QED
    BY <1>1, <1>2

\* Sequences put together of single messages.
LEMMA Joined ==
  ASSUME NEW a, NEW b, NEW c, NEW d
  PROVE  /\ <<a>> \o <<>> \o <<>> \o <<d>> = <<a, d>>
         /\ <<a>> \o <<b>> \o <<>> \o <<d>> = <<a, b, d>>
         /\ <<a>> \o <<>> \o <<c>> \o <<d>> = <<a, c, d>>
  <1>1. <<a>> \o <<>> = <<a>> /\ <<a, b>> \o <<>> = <<a, b>>
    OBVIOUS
  <1>2. <<a>> \o <<d>> = <<a, d>> /\ <<a>> \o <<b>> = <<a, b>> /\ <<a>> \o <<c>> = <<a, c>>
    BY Appended, Zenon
  <1>3. <<a, b>> \o <<d>> = <<a, b, d>> /\ <<a, c>> \o <<d>> = <<a, c, d>> /\ <<a, b>> \o <<c>> = <<a, b, c>>
    BY Appended, Zenon
  <1>4. QED
    BY <1>1, <1>2, <1>3

LEMMA JoinedFour ==
  ASSUME NEW a, NEW b, NEW c, NEW d
  PROVE  <<a>> \o <<b>> \o <<c>> \o <<d>> = <<a, b, c, d>>
  <1> DEFINE S == {a, b, c, d}
  <1>1. <<a>> \o <<b>> = <<a, b>>
    BY Appended, Zenon
  <1>2. <<a, b>> \o <<c>> = <<a, b, c>>
    BY Appended, Zenon
  <1>3. <<a, b, c>> \o <<d>> = <<a, b, c, d>>
    <2>1. <<a, b, c>> \in Seq(S) /\ <<a, b, c, d>> \in Seq(S) /\ d \in S /\ Len(<<a, b, c>>) = 3 /\ Len(<<a, b, c, d>>) = 4
      OBVIOUS
    <2>2. <<a, b, c, d>>[Len(<<a, b, c>>) + 1] = d
      BY <2>1
    <2>3. \A n \in 1..Len(<<a, b, c>>) : <<a, b, c, d>>[n] = <<a, b, c>>[n]
      BY <2>1
    <2>4. Len(<<a, b, c, d>>) = Len(<<a, b, c>>) + 1
      BY <2>1
    <2>5. QED
      BY <2>1, <2>2, <2>3, <2>4, OneMore, Zenon
  <1>4. QED
    BY <1>1, <1>2, <1>3

\* The decision first, the audit record last, and that the token was there in between.
Ordered(T, r, res, trace) ==
  /\ \E S : T \in Seq(S)
  /\ Len(T) \in Nat /\ Len(T) >= 2
  /\ T[1] = Counted(r, res) /\ T[Len(T)] = LogRecord(r, res, trace)
  /\ \A n \in 1..Len(T) :
       /\ T[n].kind \in {"decision", "error", "internal", "log"}
       /\ T[n].kind = "log" => T[n] = LogRecord(r, res, trace)
       /\ T[n].kind = "internal" =>
            n > 1 /\ Present(r.headers) /\ T[n] = [kind |-> "internal", decision |-> Decision(res)]
  /\ Present(r.headers) => \E n \in 1..Len(T) : T[n] = [kind |-> "internal", decision |-> Decision(res)]

\* What the deferred function tells.
LEMMA TellsForm ==
  ASSUME NEW r, NEW res, NEW trace
  PROVE  Ordered(Tells(r, res, trace), r, res, trace)
  <1> DEFINE a == Counted(r, res)
             b == [kind |-> "error", type |-> res.error]
             c == [kind |-> "internal", decision |-> Decision(res)]
             d == LogRecord(r, res, trace)
             T == Tells(r, res, trace)
  <1>1. a.kind = "decision" /\ b.kind = "error" /\ c.kind = "internal" /\ d.kind = "log"
    BY DEF Counted, LogRecord
  <1>2. T = <<a>> \o (IF res.error # "" THEN <<b>> ELSE <<>>) \o (IF Present(r.headers) THEN <<c>> ELSE <<>>) \o <<d>>
    BY DEF Tells
  <1> HIDE DEF a, b, c, d, T
  <1>3. \/ T = <<a, d>> /\ ~Present(r.headers)
        \/ T = <<a, b, d>> /\ ~Present(r.headers)
        \/ T = <<a, c, d>> /\ Present(r.headers)
        \/ T = <<a, b, c, d>> /\ Present(r.headers)
    <2>1. CASE res.error = "" /\ ~Present(r.headers)
      <3>1. T = <<a>> \o <<>> \o <<>> \o <<d>>
        BY <1>2, <2>1
      <3>2. QED
        BY <2>1, <3>1, Joined
    <2>2. CASE res.error # "" /\ ~Present(r.headers)
      <3>1. T = <<a>> \o <<b>> \o <<>> \o <<d>>
        BY <1>2, <2>2
      <3>2. QED
        BY <2>2, <3>1, Joined
    <2>3. CASE res.error = "" /\ Present(r.headers)
      <3>1. T = <<a>> \o <<>> \o <<c>> \o <<d>>
        BY <1>2, <2>3
      <3>2. QED
        BY <2>3, <3>1, Joined
    <2>4. CASE res.error # "" /\ Present(r.headers)
      <3>1. T = <<a>> \o <<b>> \o <<c>> \o <<d>>
        BY <1>2, <2>4
      <3>2. <<a>> \o <<b>> \o <<c>> \o <<d>> = <<a, b, c, d>>
        BY JoinedFour
      <3>3. QED
        BY <2>4, <3>1, <3>2
    <2>5. QED
      BY <2>1, <2>2, <2>3, <2>4
  <1>4. \E S : T \in Seq(S)
    <2>1. /\ <<a, d>> \in Seq({a, b, c, d}) /\ <<a, b, d>> \in Seq({a, b, c, d})
          /\ <<a, c, d>> \in Seq({a, b, c, d}) /\ <<a, b, c, d>> \in Seq({a, b, c, d})
      OBVIOUS
    <2>2. T \in Seq({a, b, c, d})
      BY <1>3, <2>1
    <2>3. QED
      BY <2>2
  <1>5. Ordered(T, r, res, trace)
    <2>1. CASE T = <<a, d>> /\ ~Present(r.headers)
      BY <1>1, <1>4, <2>1 DEF Ordered, a, c, d
    <2>2. CASE T = <<a, b, d>> /\ ~Present(r.headers)
      BY <1>1, <1>4, <2>2 DEF Ordered, a, c, d
    <2>3. CASE T = <<a, c, d>> /\ Present(r.headers)
      BY <1>1, <1>4, <2>3 DEF Ordered, a, c, d
    <2>4. CASE T = <<a, b, c, d>> /\ Present(r.headers)
      BY <1>1, <1>4, <2>4 DEF Ordered, a, c, d
    <2>5. QED
      BY <1>3, <2>1, <2>2, <2>3, <2>4
  <1>6. QED
    BY <1>5 DEF T

LEMMA RecordTold ==
  ASSUME NEW r, NEW res, NEW trace, NEW T, T = Tells(r, res, trace)
  PROVE  Len(T) \in 1..Len(T) /\ T[Len(T)] = LogRecord(r, res, trace)
  <1>1. Len(T) \in Nat /\ Len(T) >= 2 /\ T[Len(T)] = LogRecord(r, res, trace)
    BY TellsForm DEF Ordered
  <1>2. QED
    BY <1>1

LEMMA InternalTold ==
  ASSUME NEW r, NEW res, NEW trace, NEW T, T = Tells(r, res, trace), Present(r.headers)
  PROVE  \E n \in 1..Len(T) : T[n] = [kind |-> "internal", decision |-> Decision(res)]
  <1>1. Ordered(T, r, res, trace)
    BY TellsForm
  <1>2. QED
    BY <1>1 DEF Ordered

-----------------------------------------------------------------------------
(* What a step of one slot leaves alone *)

\* The slot does not move.
Same(t) ==
  /\ pc'[t] = pc[t] /\ env'[t] = env[t] /\ call'[t] = call[t] /\ rq'[t] = rq[t]
  /\ span'[t] = span[t] /\ lookup'[t] = lookup[t] /\ result'[t] = result[t] /\ todo'[t] = todo[t]

\* Slots that do not move stay sound, and what they have told stays told.
LEMMA OthersKeep ==
  ASSUME SoundInv, TellingInv, NEW t \in Slots, Same(t),
         told \subseteq told', posts \in Nat, posts' \in Nat, posts <= posts'
  PROVE  Sound(t)' /\ Telling(t)'
  <1>1. Sound(t) /\ Telling(t) /\ Same(t)
    BY DEF SoundInv, TellingInv
  <1>2. Sound(t)'
    <2>1. call[t] \in Calls /\ call[t].post < posts => call[t].post < posts'
      BY DEF Calls
    <2>2. QED
      BY <1>1, <2>1 DEF Sound, Same
  <1>3. Telling(t)'
    BY <1>1 DEF Telling, Same
  <1>4. QED
    BY <1>2, <1>3

LEMMA SlotStep ==
  ASSUME SoundInv, TellingInv, NEW s \in Slots, \A t \in Slots \ {s} : Same(t),
         told \subseteq told', posts \in Nat, posts' \in Nat, posts <= posts', Sound(s)', Telling(s)'
  PROVE  SoundInv' /\ TellingInv'
  <1>1. \A t \in Slots \ {s} : Sound(t)' /\ Telling(t)'
    BY OthersKeep
  <1>2. \A t \in Slots : Sound(t)' /\ Telling(t)'
    BY <1>1
  <1>3. QED
    BY <1>2 DEF SoundInv, TellingInv

\* Names stay what they are in a step that begins neither a call nor a lookup, and tells of
\* a lookup only when that ends.
Continues(s) ==
  /\ lookups' = lookups
  /\ \A u \in Slots : /\ pc'[u] # "idle" => pc[u] # "idle" /\ call'[u] = call[u]
                      /\ pc'[u] \in Looking => pc'[u] = pc[u] /\ lookup'[u] = lookup[u]
  /\ \A m \in told' : \/ m \in told \/ m.what.kind # "lookup"
                      \/ m.call.lookup = lookup[s] /\ pc[s] \in Looking /\ pc'[s] \notin Looking

LEMMA NamesKept ==
  ASSUME NamedInv, NEW s \in Slots, Continues(s)
  PROVE  NamedInv'
  <1> USE DEF Continues
  <1> SUFFICES ASSUME NEW u \in Slots PROVE Named(u)'
    BY DEF NamedInv
  <1>1. Named(u)
    BY DEF NamedInv
  <1>2. pc'[u] # "idle" => /\ call'[u].lookup <= lookups'
                           /\ \A t \in Slots \ {u} : pc'[t] # "idle" => call'[t] # call'[u]
    BY <1>1 DEF Named
  <1>3. ASSUME pc'[u] \in Looking
        PROVE  /\ lookup'[u] <= lookups'
               /\ \A t \in Slots \ {u} : pc'[t] \in Looking => lookup'[t] # lookup'[u]
               /\ \A m \in told' : m.what.kind = "lookup" => m.call.lookup # lookup'[u]
    <2>1. pc[u] \in Looking /\ lookup'[u] = lookup[u]
      BY <1>3
    <2>2. lookup'[u] <= lookups' /\ \A t \in Slots \ {u} : pc'[t] \in Looking => lookup'[t] # lookup'[u]
      BY <1>1, <2>1 DEF Named
    <2>3. ASSUME NEW m \in told', m.what.kind = "lookup" PROVE m.call.lookup # lookup'[u]
      <3>1. CASE m \in told
        BY <1>1, <2>1, <2>3, <3>1 DEF Named
      <3>2. CASE m.call.lookup = lookup[s] /\ pc[s] \in Looking /\ pc'[s] \notin Looking
        BY <1>1, <1>3, <2>1, <3>2 DEF Named
      <3>3. QED
        BY <2>3, <3>1, <3>2
    <2>4. QED
      BY <2>2, <2>3
  <1>4. pc'[u] = "lookup" => \A t \in Slots : pc'[t] # "idle" => call'[t].lookup # lookup'[u]
    BY <1>1 DEF Named, Looking
  <1>5. QED
    BY <1>2, <1>3, <1>4 DEF Named

\* Call c begins in slot t, with a name that nobody has.
Begins(t, c) ==
  /\ pc'[t] = "http" /\ call'[t] = c /\ told' = told /\ lookups' = lookups /\ c.lookup <= lookups
  /\ \A u \in Slots \ {t} : /\ pc'[u] # "idle" => pc[u] # "idle" /\ call'[u] = call[u] /\ call[u] # c
                            /\ pc'[u] \in Looking => pc[u] \in Looking /\ lookup'[u] = lookup[u]
                            /\ pc'[u] = "lookup" => pc[u] = "lookup" /\ c.lookup # lookup[u]

LEMMA NewName ==
  ASSUME NamedInv, NEW t \in Slots, NEW c, Begins(t, c)
  PROVE  NamedInv'
  <1> USE DEF Begins
  <1> SUFFICES ASSUME NEW u \in Slots PROVE Named(u)'
    BY DEF NamedInv
  <1>1. CASE u = t
    BY <1>1 DEF Named, Looking
  <1>2. CASE u # t
    <2>1. Named(u) /\ u \in Slots \ {t}
      BY <1>2 DEF NamedInv
    <2>2. pc'[u] # "idle" => /\ call'[u].lookup <= lookups'
                             /\ \A v \in Slots \ {u} : pc'[v] # "idle" => call'[v] # call'[u]
      BY <2>1 DEF Named
    <2>3. pc'[u] \in Looking =>
            /\ lookup'[u] <= lookups'
            /\ \A v \in Slots \ {u} : pc'[v] \in Looking => lookup'[v] # lookup'[u]
            /\ \A m \in told' : m.what.kind = "lookup" => m.call.lookup # lookup'[u]
      BY <2>1 DEF Named, Looking
    <2>4. pc'[u] = "lookup" => \A v \in Slots : pc'[v] # "idle" => call'[v].lookup # lookup'[u]
      BY <2>1 DEF Named, Looking
    <2>5. QED
      BY <2>2, <2>3, <2>4 DEF Named
  <1>3. QED
    BY <1>1, <1>2

\* Evaluate of slot s calls Inspect, perhaps after a lookup that it tells of.
LEMMA NewLookup ==
  ASSUME Form, SoundInv, NamedInv, ToldInv, NEW s \in Slots, BeginLookup(s), call' = call, pc[s] # "idle",
         \A m \in told' : m \in told \/ (m.call.lookup = lookup[s] /\ pc[s] \in Looking)
  PROVE  NamedInv'
  <1>1. /\ pc' = [pc EXCEPT ![s] = "lookup"] /\ lookup' = [lookup EXCEPT ![s] = lookups + 1]
        /\ lookups' = lookups + 1 /\ lookups \in Nat
    BY DEF BeginLookup, Form
  <1>2. /\ pc'[s] = "lookup" /\ lookup'[s] = lookups'
        /\ \A t \in Slots \ {s} : pc'[t] = pc[t] /\ lookup'[t] = lookup[t]
    BY <1>1 DEF Form
  <1>3. \A t \in Slots : pc[t] # "idle" => /\ call[t].lookup \in Nat /\ call[t].lookup <= lookups
                                           /\ call[t].lookup # lookups'
    BY <1>1 DEF SoundInv, Sound, Calls, NamedInv, Named
  <1>4. \A t \in Slots : pc[t] \in Looking => /\ lookup[t] \in Nat /\ lookup[t] <= lookups
                                              /\ lookup[t] # lookups'
    BY <1>1 DEF SoundInv, Sound, NamedInv, Named
  <1>5. \A m \in told' : m.call.lookup # lookups'
    <2>1. \A m \in told : m.call.lookup \in Nat /\ m.call.lookup <= lookups
      BY DEF ToldInv, Calls
    <2>2. QED
      BY <1>1, <1>4, <2>1
  <1>6. \A t \in Slots : pc'[t] # "idle" => pc[t] # "idle"
    BY <1>2
  <1> SUFFICES ASSUME NEW u \in Slots PROVE Named(u)'
    BY DEF NamedInv
  <1>7. Named(u)
    BY DEF NamedInv
  <1>8. pc'[u] # "idle" => /\ call'[u].lookup <= lookups'
                           /\ \A t \in Slots \ {u} : pc'[t] # "idle" => call'[t] # call'[u]
    BY <1>1, <1>3, <1>6, <1>7 DEF Named
  <1>9. CASE u = s
    BY <1>2, <1>3, <1>4, <1>5, <1>6, <1>8, <1>9, <1>1 DEF Named
  <1>10. CASE u # s
    <2>1. pc'[u] = pc[u] /\ lookup'[u] = lookup[u]
      BY <1>2, <1>10
    <2>2. pc'[u] \in Looking => lookup'[u] <= lookups'
      BY <1>1, <1>4, <2>1
    <2>3. pc'[u] \in Looking => \A t \in Slots \ {u} : pc'[t] \in Looking => lookup'[t] # lookup'[u]
      BY <1>2, <1>4, <1>7, <2>1 DEF Named
    <2>4. pc'[u] \in Looking => \A m \in told' : m.what.kind = "lookup" => m.call.lookup # lookup'[u]
      BY <1>7, <1>10, <2>1 DEF Named
    <2>5. pc'[u] = "lookup" => \A t \in Slots : pc'[t] # "idle" => call'[t].lookup # lookup'[u]
      BY <1>6, <1>7, <2>1 DEF Named
    <2>6. QED
      BY <1>8, <2>2, <2>3, <2>4, <2>5 DEF Named
  <1>11. QED
    BY <1>9, <1>10

\* Whose lookup a call is for stays known, as long as the lookup waits.
LEMMA AskedKept ==
  ASSUME AskedInv,
         \A t, s \in Slots : askedBy'[t] = s =>
            /\ askedBy[t] = s
            /\ Asked(t, s) => /\ pc'[s] = "waiting" /\ pc'[t] # "idle"
                              /\ call'[t] = call[t] /\ call'[s] = call[s] /\ env'[t] = env[t]
                              /\ span'[s] = span[s] /\ lookup'[s] = lookup[s]
                              /\ pc'[t] = "record" => span'[t] = span[s]
  PROVE  AskedInv'
  <1> SUFFICES ASSUME NEW t \in Slots, NEW s \in Slots, askedBy'[t] = s PROVE Asked(t, s)'
    BY DEF AskedInv
  <1>1. askedBy[t] = s /\ Asked(t, s)
    BY DEF AskedInv
  <1>2. QED
    BY <1>1 DEF Asked, Callee

LEMMA ConsentKept ==
  ASSUME ConsentInv, told \subseteq told',
         \A s \in Slots : consent'[s] =>
           consent[s] /\ (pc[s] = "waiting" => pc'[s] = "waiting" /\ call'[s] = call[s] /\ lookup'[s] = lookup[s])
  PROVE  ConsentInv'
  <1> SUFFICES ASSUME NEW s \in Slots, consent'[s] PROVE pc'[s] = "waiting" /\ Allowed(Callee(s)') \in told'
    BY DEF ConsentInv, Consented, Callee, Allowed
  <1>1. consent[s] /\ Consented(s)
    BY DEF ConsentInv
  <1>2. pc[s] = "waiting" /\ Allowed(Callee(s)) \in told
    BY <1>1 DEF Consented
  <1>3. Callee(s)' = Callee(s)
    BY <1>2 DEF Callee
  <1>4. QED
    BY <1>2, <1>3

\* Nothing is told and nothing is answered.
LEMMA Quiet ==
  ASSUME ToldInv, AuditedFirst, UNCHANGED <<told, answers>>, posts \in Nat, posts' \in Nat, posts <= posts',
         lookups \in Nat, lookups' \in Nat, lookups <= lookups'
  PROVE  ToldInv' /\ AuditedFirst'
  <1>1. AuditedFirst'
    BY DEF AuditedFirst
  <1>2. ToldInv'
    <2> SUFFICES ASSUME NEW m \in told
                 PROVE  /\ m.call \in Calls /\ m.call.post < posts' /\ m.call.lookup <= lookups'
                        /\ m.what.kind = "internal" =>
                             /\ m = [call |-> m.call, what |-> [kind |-> "internal", decision |-> m.what.decision]]
                             /\ \E n \in told : /\ n.call = m.call /\ n.what.kind = "decision"
                                                /\ n.what.client = "internal" /\ n.what.decision = m.what.decision
                        /\ m.what.kind = "lookup" =>
                             /\ m.what.ok => Allowed(m.call) \in told
                             /\ \A n \in told : n.what.kind = "lookup" /\ n.call = m.call => n = m
      BY DEF ToldInv
    <2>1. m.call \in Calls /\ m.call.post < posts /\ m.call.lookup <= lookups
      BY DEF ToldInv
    <2>2. m.call.post < posts' /\ m.call.lookup <= lookups'
      BY <2>1 DEF Calls
    <2>3. QED
      BY <2>1, <2>2 DEF ToldInv
  <1>3. QED
    BY <1>1, <1>2

-----------------------------------------------------------------------------
(* The steps *)

LEMMA PostKeeps ==
  ASSUME IInv, NEW s \in Slots, Post(s)
  PROVE  IInv'
  <1>1. Form /\ SoundInv /\ NamedInv /\ AskedInv /\ ConsentInv /\ TellingInv /\ ToldInv /\ AuditedFirst
    BY DEF IInv
  <1>2. PICK e \in Envelopes : env' = [env EXCEPT ![s] = e]
    BY DEF Post
  <1> PICK c : c = [post |-> posts, lookup |-> 0]
    OBVIOUS
  <1>3. /\ pc[s] = "idle" /\ posts' = posts + 1 /\ posts \in Nat
        /\ call' = [call EXCEPT ![s] = c] /\ pc' = [pc EXCEPT ![s] = "http"]
        /\ UNCHANGED <<rq, span, lookup, result, todo, told, lookups, askedBy, consent, answers>>
    BY <1>1 DEF Post, Form
  <1>4. posts' \in Nat /\ posts <= posts' /\ posts < posts' /\ lookups \in Nat /\ lookups <= lookups
    BY <1>1, <1>3 DEF Form
  <1>5. Form'
    BY <1>1, <1>2, <1>3, <1>4 DEF Form, States
  <1>6. pc'[s] = "http" /\ env'[s] = e /\ call'[s] = c /\ todo'[s] = <<>>
    BY <1>1, <1>2, <1>3 DEF Form, SoundInv, Sound
  <1>7. \A t \in Slots \ {s} : Same(t)
    BY <1>1, <1>2, <1>3 DEF Form, Same
  <1>8. SoundInv' /\ TellingInv'
    <2>1. Sound(s)'
      <3>1. Legible(e)
        BY EnvelopeRead
      <3>2. c \in Calls /\ c.post < posts' /\ c.lookup = 0
        BY <1>3, <1>4 DEF Calls
      <3>3. QED
        BY <1>6, <3>1, <3>2 DEF Sound, Looking
    <2>2. Telling(s)'
      BY <1>6 DEF Telling
    <2>3. told \subseteq told'
      BY <1>3
    <2>4. QED
      BY <1>1, <1>3, <1>4, <1>7, <2>1, <2>2, <2>3, SlotStep
  <1>9. NamedInv'
    <2>1. \A u \in Slots \ {s} : pc'[u] = pc[u] /\ call'[u] = call[u] /\ lookup'[u] = lookup[u]
      BY <1>7 DEF Same
    <2>2. c.post = posts /\ c.lookup = 0
      OBVIOUS
    <2>3. \A u \in Slots : pc[u] # "idle" => call[u] # c
      BY <1>1, <1>3, <2>2 DEF SoundInv, Sound, Calls
    <2>4. \A u \in Slots : pc[u] = "lookup" => lookup[u] # 0
      BY <1>1 DEF SoundInv, Sound, Looking
    <2>5. Begins(s, c)
      BY <1>3, <1>4, <1>6, <2>1, <2>2, <2>3, <2>4 DEF Begins
    <2>6. QED
      BY <1>1, <2>5, NewName
  <1>10. AskedInv'
    <2>1. \A t, u \in Slots : askedBy'[t] = u =>
            /\ askedBy[t] = u
            /\ Asked(t, u) => /\ pc'[u] = "waiting" /\ pc'[t] # "idle"
                              /\ call'[t] = call[t] /\ call'[u] = call[u] /\ env'[t] = env[t]
                              /\ span'[u] = span[u] /\ lookup'[u] = lookup[u]
                              /\ pc'[t] = "record" => span'[t] = span[u]
      BY <1>3, <1>7 DEF Asked, Same
    <2>2. QED
      BY <1>1, <2>1, AskedKept
  <1>11. ConsentInv'
    BY <1>1, <1>3, <1>7, ConsentKept DEF Same
  <1>12. ToldInv' /\ AuditedFirst'
    BY <1>1, <1>3, <1>4, Quiet
  <1>13. QED
    BY <1>5, <1>8, <1>9, <1>10, <1>11, <1>12 DEF IInv

LEMMA ServeKeeps ==
  ASSUME IInv, NEW s \in Slots, ServeHTTP(s)
  PROVE  IInv'
  <1>1. Form /\ SoundInv /\ NamedInv /\ AskedInv /\ ConsentInv /\ TellingInv /\ ToldInv /\ AuditedFirst
    BY DEF IInv
  <1>2. pc[s] = "http" /\ UNCHANGED <<env, call, span, lookup, todo, told, posts, lookups, askedBy, consent, answers>>
    BY DEF ServeHTTP
  <1>3. \/ /\ pc' = [pc EXCEPT ![s] = "respond"] /\ UNCHANGED rq
           /\ \/ result' = [result EXCEPT ![s] = [allow |-> FALSE, error |-> ""]]
              \/ /\ result' = [result EXCEPT ![s] = [allow |-> TRUE, error |-> ""]]
                 /\ env[s].path = "AuthZRes"
        \/ /\ pc' = [pc EXCEPT ![s] = "authorize"] /\ UNCHANGED result
           /\ rq' = [rq EXCEPT ![s] = [env[s].request EXCEPT !.auth.peers = Certificates(env[s].peers)]]
           /\ Certificates(env[s].peers) # Nil
    BY DEF ServeHTTP, Malformed
  <1>4. /\ posts \in Nat /\ posts <= posts' /\ posts' \in Nat
        /\ lookups \in Nat /\ lookups <= lookups' /\ lookups' \in Nat
    BY <1>1, <1>2 DEF Form
  <1>5. Form'
    BY <1>1, <1>2, <1>3 DEF Form, States
  <1>6. pc'[s] \in {"respond", "authorize"} /\ todo'[s] = <<>>
    BY <1>1, <1>2, <1>3 DEF Form, SoundInv, Sound
  <1>7. \A t \in Slots \ {s} : Same(t)
    BY <1>1, <1>2, <1>3 DEF Form, Same
  <1>8. SoundInv' /\ TellingInv'
    <2>1. Sound(s)'
      <3>1. /\ call[s] \in Calls /\ call[s].post < posts /\ Legible(env[s])
            /\ call[s].lookup # 0 => env[s].path = "AuthZReq" /\ Present(env[s].request.headers)
        BY <1>1, <1>2 DEF SoundInv, Sound
      <3>2. pc'[s] = "respond" => (result'[s].allow => env[s].path = "AuthZRes")
        <4> SUFFICES ASSUME pc'[s] = "respond" PROVE result'[s].allow => env[s].path = "AuthZRes"
          OBVIOUS
        <4>1. DOMAIN result = Slots /\ pc' # [pc EXCEPT ![s] = "authorize"]
          BY <1>1 DEF Form
        <4>2. CASE result' = [result EXCEPT ![s] = [allow |-> FALSE, error |-> ""]]
          <5>1. result'[s].allow = FALSE
            BY <4>1, <4>2
          <5>2. QED
            BY <5>1
        <4>3. CASE env[s].path = "AuthZRes"
          BY <4>3
        <4>4. QED
          BY <1>3, <4>1, <4>2, <4>3
      <3>3. pc'[s] = "authorize" => Read(env[s], rq'[s])
        <4> SUFFICES ASSUME pc'[s] = "authorize" PROVE Read(env[s], rq'[s])
          OBVIOUS
        <4>1. DOMAIN rq = Slots /\ pc' # [pc EXCEPT ![s] = "respond"]
          BY <1>1 DEF Form
        <4>2. /\ rq'[s] = [env[s].request EXCEPT !.auth.peers = Certificates(env[s].peers)]
              /\ Certificates(env[s].peers) # Nil
          BY <1>3, <4>1
        <4>3. QED
          BY <3>1, <4>2 DEF Legible
      <3>4. QED
        BY <1>2, <1>6, <3>1, <3>2, <3>3 DEF Sound, Looking
    <2>2. Telling(s)'
      BY <1>6 DEF Telling
    <2>3. told \subseteq told'
      BY <1>2
    <2>4. QED
      BY <1>1, <1>4, <1>7, <2>1, <2>2, <2>3, SlotStep
  <1>9. NamedInv'
    <2>1. Continues(s)
      BY <1>2, <1>6, <1>7 DEF Continues, Same, Looking
    <2>2. QED
      BY <1>1, <2>1, NamesKept
  <1>10. AskedInv'
    <2>1. \A t, u \in Slots : askedBy'[t] = u =>
            /\ askedBy[t] = u
            /\ Asked(t, u) => /\ pc'[u] = "waiting" /\ pc'[t] # "idle"
                              /\ call'[t] = call[t] /\ call'[u] = call[u] /\ env'[t] = env[t]
                              /\ span'[u] = span[u] /\ lookup'[u] = lookup[u]
                              /\ pc'[t] = "record" => span'[t] = span[u]
      BY <1>2, <1>6, <1>7 DEF Asked, Same
    <2>2. QED
      BY <1>1, <2>1, AskedKept
  <1>11. ConsentInv'
    BY <1>1, <1>2, <1>7, ConsentKept DEF Same
  <1>12. ToldInv' /\ AuditedFirst'
    BY <1>1, <1>2, <1>4, Quiet
  <1>13. QED
    BY <1>5, <1>8, <1>9, <1>10, <1>11, <1>12 DEF IInv

\* The deferred function has everything to tell when the decision is made.
LEMMA DecideTells ==
  ASSUME Form, NEW s \in Slots, NEW res, NEW trace, Decide(s, res, trace), rq' = rq, span'[s] = trace
  PROVE  Telling(s)'
  <1> DEFINE T == Tells(rq[s], res, trace)
  <1>1. pc'[s] = "record" /\ result'[s] = res /\ todo'[s] = T
    BY DEF Form, Decide
  <1>2. PICK S : T \in Seq(S)
    BY TellsForm DEF Ordered
  <1>3. T = SubSeq(T, 1, Len(T)) /\ Len(T) \in Nat
    BY <1>2, SubSeqFull
  <1> HIDE DEF T
  <1>4. 0 \in 0..Len(T) /\ T = SubSeq(T, 0 + 1, Len(T)) /\ \A n \in 1..0 : [call |-> call'[s], what |-> T[n]] \in told'
    BY <1>3
  <1>5. \E k \in 0..Len(T) : /\ T = SubSeq(T, k + 1, Len(T))
                             /\ \A n \in 1..k : [call |-> call'[s], what |-> T[n]] \in told'
    BY <1>4
  <1>6. Tells(rq'[s], result'[s], span'[s]) = T
    BY <1>1 DEF T
  <1>7. QED
    BY <1>1, <1>5, <1>6 DEF Telling

LEMMA TraceBegun ==
  ASSUME NEW outer, NEW inner, NEW own
  PROVE  /\ Tracing /\ own # 0 => SpanTrace(outer, inner, own) # 0
         /\ outer \in {0, inner} /\ (Tracing => inner # 0) => SpanTrace(outer, inner, own) = inner
  BY TransportAssumption DEF SpanTrace

LEMMA AuthorizeKeeps ==
  ASSUME IInv, NEW s \in Slots, Authorize(s)
  PROVE  IInv'
  <1>1. Form /\ SoundInv /\ NamedInv /\ AskedInv /\ ConsentInv /\ TellingInv /\ ToldInv /\ AuditedFirst
    BY DEF IInv
  <1> PICK trace : trace = SpanTrace(env[s].trace, env[s].inner, OwnTrace(call[s]))
    OBVIOUS
  <1>2. /\ pc[s] = "authorize" /\ span' = [span EXCEPT ![s] = trace]
        /\ UNCHANGED <<env, call, rq, told, posts, askedBy, consent, answers>>
    BY DEF Authorize
  <1>3. \/ \E res : Decide(s, res, trace)
        \/ Evaluated(rq[s]) /\ BeginLookup(s)
    BY DEF Authorize
  <1>4. /\ posts \in Nat /\ posts <= posts' /\ posts' \in Nat /\ span'[s] = trace
        /\ lookups \in Nat /\ lookups <= lookups' /\ lookups' \in Nat
    BY <1>1, <1>2, <1>3 DEF Form, Decide, BeginLookup
  <1>5. /\ call[s] \in Calls /\ call[s].post < posts /\ Legible(env[s])
        /\ call[s].lookup # 0 => env[s].path = "AuthZReq" /\ Present(env[s].request.headers)
        /\ Read(env[s], rq[s]) /\ todo[s] = <<>>
    BY <1>1, <1>2 DEF SoundInv, Sound
  <1>6. Tracing => trace # 0
    <2>1. OwnTrace(call[s]) # 0
      BY <1>5 DEF Calls, OwnTrace
    <2>2. QED
      BY <2>1, TraceBegun
  <1>7. \/ pc'[s] = "record" /\ Telling(s)'
        \/ pc'[s] = "lookup" /\ call[s].lookup = 0 /\ todo'[s] = <<>> /\ lookup'[s] \in Nat /\ lookup'[s] # 0
    <2>1. CASE \E res : Decide(s, res, trace)
      <3>1. PICK res : Decide(s, res, trace)
        BY <2>1
      <3>2. rq' = rq
        BY <1>2
      <3>3. Telling(s)'
        BY <1>1, <1>4, <3>1, <3>2, DecideTells
      <3>4. pc'[s] = "record"
        BY <1>1, <3>1 DEF Decide, Form
      <3>5. QED
        BY <3>3, <3>4
    <2>2. CASE Evaluated(rq[s]) /\ BeginLookup(s)
      <3>1. ~Present(rq[s].headers)
        BY <2>2, InternalRequest
      <3>2. call[s].lookup = 0
        BY <1>5, <3>1 DEF Read
      <3>3. QED
        BY <1>1, <1>5, <2>2, <3>2 DEF Form, BeginLookup
    <2>3. QED
      BY <1>3, <2>1, <2>2
  <1>8. Form' /\ \A t \in Slots \ {s} : Same(t)
    <2>1. CASE \E res : Decide(s, res, trace)
      BY <1>1, <1>2, <2>1 DEF Form, States, Same, Decide
    <2>2. CASE Evaluated(rq[s]) /\ BeginLookup(s)
      BY <1>1, <1>2, <2>2 DEF Form, States, Same, BeginLookup
    <2>3. QED
      BY <1>3, <2>1, <2>2
  <1>9. SoundInv' /\ TellingInv'
    <2>1. Sound(s)'
      BY <1>2, <1>4, <1>5, <1>6, <1>7 DEF Sound, Looking
    <2>2. Telling(s)'
      BY <1>7 DEF Telling
    <2>3. told \subseteq told'
      BY <1>2
    <2>4. QED
      BY <1>1, <1>4, <1>8, <2>1, <2>2, <2>3, SlotStep
  <1>10. NamedInv'
    <2>1. CASE \E res : Decide(s, res, trace)
      <3>1. pc'[s] = "record" /\ lookups' = lookups /\ lookup' = lookup
        BY <1>1, <2>1 DEF Decide, Form
      <3>2. Continues(s)
        BY <1>2, <1>8, <3>1 DEF Continues, Same, Looking
      <3>3. QED
        BY <1>1, <3>2, NamesKept
    <2>2. CASE Evaluated(rq[s]) /\ BeginLookup(s)
      BY <1>1, <1>2, <2>2, NewLookup
    <2>3. QED
      BY <1>3, <2>1, <2>2
  <1>11. AskedInv'
    <2> SUFFICES ASSUME NEW t \in Slots, NEW u \in Slots, askedBy'[t] = u, Asked(t, u)
                 PROVE  /\ askedBy[t] = u
                        /\ pc'[u] = "waiting" /\ pc'[t] # "idle"
                        /\ call'[t] = call[t] /\ call'[u] = call[u] /\ env'[t] = env[t]
                        /\ span'[u] = span[u] /\ lookup'[u] = lookup[u]
                        /\ pc'[t] = "record" => span'[t] = span[u]
      BY <1>1, <1>2, AskedKept
    <2>1. u # s /\ Same(u) /\ pc[u] = "waiting" /\ (Tracing => span[u] # 0)
      BY <1>1, <1>2, <1>8 DEF Asked, SoundInv, Sound, Looking
    <2>2. CASE t = s
      <3>1. trace = span[u]
        BY <2>1, <2>2, TraceBegun DEF Asked
      <3>2. QED
        BY <1>2, <1>4, <1>7, <2>1, <2>2, <3>1 DEF Same
    <2>3. CASE t # s
      BY <1>2, <1>8, <2>1, <2>3 DEF Asked, Same
    <2>4. QED
      BY <2>2, <2>3
  <1>12. ConsentInv'
    BY <1>1, <1>2, <1>8, ConsentKept DEF Same
  <1>13. ToldInv' /\ AuditedFirst'
    BY <1>1, <1>2, <1>4, Quiet
  <1>14. QED
    BY <1>8, <1>9, <1>10, <1>11, <1>12, <1>13 DEF IInv

\* The deferred function tells its messages in their order.
LEMMA TellsNext ==
  ASSUME Form, NEW s \in Slots, Telling(s), Tell(s)
  PROVE  LET T == Tells(rq[s], result[s], span[s])
         IN  \E j \in 1..Len(T) :
               /\ told' = told \cup {[call |-> call[s], what |-> T[j]]}
               /\ todo'[s] = SubSeq(T, j + 1, Len(T))
               /\ \A n \in 1..(j - 1) : [call |-> call[s], what |-> T[n]] \in told
  <1> PICK T : T = Tells(rq[s], result[s], span[s])
    OBVIOUS
  <1>1. PICK k \in 0..Len(T) : /\ todo[s] = SubSeq(T, k + 1, Len(T))
                               /\ \A n \in 1..k : [call |-> call[s], what |-> T[n]] \in told
    BY DEF Tell, Telling
  <1>2. Len(T) \in Nat /\ \E S : T \in Seq(S)
    BY TellsForm DEF Ordered
  <1>3. PICK S : T \in Seq(S)
    BY <1>2
  <1>4. todo[s] # <<>> /\ told' = told \cup {[call |-> call[s], what |-> Head(todo[s])]} /\ todo'[s] = Tail(todo[s])
    BY DEF Tell, Form
  <1>5. k # Len(T)
    <2>1. Len(T) + 1 \in Int /\ Len(T) \in Int /\ Len(T) < Len(T) + 1
      BY <1>2
    <2>2. SubSeq(T, Len(T) + 1, Len(T)) = <<>>
      BY <2>1, SubSeqEmpty
    <2>3. QED
      BY <1>1, <1>4, <2>2
  <1>6. k + 1 \in 1..Len(T) /\ Len(T) \in (k + 1)..Len(T) /\ (k + 1) - 1 = k
    BY <1>2, <1>5
  <1>7. Head(todo[s]) = T[k + 1] /\ Tail(todo[s]) = SubSeq(T, (k + 1) + 1, Len(T))
    BY <1>1, <1>3, <1>6, HeadTailOfSubSeq
  <1>8. \E j \in 1..Len(T) :
          /\ told' = told \cup {[call |-> call[s], what |-> T[j]]}
          /\ todo'[s] = SubSeq(T, j + 1, Len(T))
          /\ \A n \in 1..(j - 1) : [call |-> call[s], what |-> T[n]] \in told
    BY <1>1, <1>4, <1>6, <1>7
  <1>9. QED
    BY <1>8

LEMMA TellKeeps ==
  ASSUME IInv, NEW s \in Slots, Tell(s)
  PROVE  IInv'
  <1>1. Form /\ SoundInv /\ NamedInv /\ AskedInv /\ ConsentInv /\ TellingInv /\ ToldInv /\ AuditedFirst
    BY DEF IInv
  <1>2. /\ pc[s] = "record" /\ todo' = [todo EXCEPT ![s] = Tail(@)]
        /\ UNCHANGED <<pc, env, call, rq, span, lookup, result, posts, lookups, askedBy, consent, answers>>
    BY DEF Tell, input
  <1> PICK T : T = Tells(rq[s], result[s], span[s])
    OBVIOUS
  <1>3. PICK j \in 1..Len(T) :
          /\ told' = told \cup {[call |-> call[s], what |-> T[j]]}
          /\ todo'[s] = SubSeq(T, j + 1, Len(T))
          /\ \A n \in 1..(j - 1) : [call |-> call[s], what |-> T[n]] \in told
    BY <1>1, TellsNext DEF TellingInv
  <1> PICK new : new = [call |-> call[s], what |-> T[j]]
    OBVIOUS
  <1>4. told' = told \cup {new} /\ told \subseteq told' /\ new.call = call[s] /\ new.what = T[j]
    BY <1>3
  <1>5. /\ Len(T) \in Nat
        /\ T[1] = Counted(rq[s], result[s])
        /\ T[j].kind \in {"decision", "error", "internal", "log"}
        /\ T[j].kind = "internal" => /\ j > 1 /\ Present(rq[s].headers)
                                     /\ T[j] = [kind |-> "internal", decision |-> Decision(result[s])]
    BY TellsForm DEF Ordered
  <1>6. posts \in Nat /\ posts <= posts' /\ posts' \in Nat
    BY <1>1, <1>2 DEF Form
  <1>7. Form'
    <2>1. IsFiniteSet(told')
      BY <1>1, <1>4, FS_AddElement DEF Form
    <2>2. QED
      BY <1>1, <1>2, <2>1 DEF Form
  <1>8. \A t \in Slots \ {s} : Same(t)
    BY <1>1, <1>2 DEF Form, Same
  <1>9. SoundInv' /\ TellingInv'
    <2>1. Sound(s)'
      BY <1>1, <1>2 DEF SoundInv, Sound
    <2>2. Telling(s)'
      <3>1. T = Tells(rq'[s], result'[s], span'[s])
        BY <1>2
      <3>2. j \in 0..Len(T) /\ \A n \in 1..j : n = j \/ n \in 1..(j - 1)
        BY <1>5
      <3>3. \A n \in 1..j : [call |-> call'[s], what |-> T[n]] \in told'
        BY <1>2, <1>3, <3>2
      <3>4. QED
        BY <1>3, <3>1, <3>2, <3>3 DEF Telling
    <2>3. QED
      BY <1>1, <1>4, <1>6, <1>8, <2>1, <2>2, SlotStep
  <1>10. NamedInv'
    <2>1. Continues(s)
      BY <1>2, <1>4, <1>5 DEF Continues
    <2>2. QED
      BY <1>1, <2>1, NamesKept
  <1>11. AskedInv'
    <2>1. \A t, u \in Slots : askedBy'[t] = u =>
            /\ askedBy[t] = u
            /\ Asked(t, u) => /\ pc'[u] = "waiting" /\ pc'[t] # "idle"
                              /\ call'[t] = call[t] /\ call'[u] = call[u] /\ env'[t] = env[t]
                              /\ span'[u] = span[u] /\ lookup'[u] = lookup[u]
                              /\ pc'[t] = "record" => span'[t] = span[u]
      BY <1>2 DEF Asked
    <2>2. QED
      BY <1>1, <2>1, AskedKept
  <1>12. ConsentInv'
    BY <1>1, <1>2, <1>4, ConsentKept
  <1>13. ToldInv'
    <2>1. new.call \in Calls /\ new.call.post < posts /\ new.call.lookup <= lookups
      BY <1>1, <1>2, <1>4 DEF SoundInv, Sound, NamedInv, Named
    <2>2. new.what.kind # "lookup"
      BY <1>4, <1>5
    <2>3. new.what.kind = "internal" =>
            /\ new = [call |-> new.call, what |-> [kind |-> "internal", decision |-> new.what.decision]]
            /\ \E n \in told : /\ n.call = new.call /\ n.what.kind = "decision"
                               /\ n.what.client = "internal" /\ n.what.decision = new.what.decision
      <3> SUFFICES ASSUME T[j].kind = "internal"
                   PROVE  /\ new = [call |-> new.call, what |-> [kind |-> "internal", decision |-> new.what.decision]]
                          /\ \E n \in told : /\ n.call = new.call /\ n.what.kind = "decision"
                                             /\ n.what.client = "internal" /\ n.what.decision = new.what.decision
        BY <1>4
      <3>1. /\ 1 \in 1..(j - 1) /\ Attribution(rq[s]) = "internal"
            /\ T[j] = [kind |-> "internal", decision |-> Decision(result[s])]
        BY <1>5, InternalRequest
      <3>2. new = [call |-> new.call, what |-> [kind |-> "internal", decision |-> new.what.decision]]
        BY <1>4, <3>1
      <3> PICK n : n = [call |-> call[s], what |-> T[1]]
        OBVIOUS
      <3>3. n \in told
        BY <1>3, <3>1
      <3>4. n.call = new.call /\ n.what = Counted(rq[s], result[s])
        BY <1>4, <1>5
      <3>5. /\ n.what.kind = "decision" /\ n.what.client = "internal"
            /\ n.what.decision = new.what.decision
        BY <1>4, <3>1, <3>4 DEF Counted
      <3>6. QED
        BY <3>2, <3>3, <3>4, <3>5
    <2>4. QED
      BY <1>1, <1>2, <1>4, <2>1, <2>2, <2>3 DEF ToldInv
  <1>14. AuditedFirst'
    BY <1>1, <1>2, <1>4 DEF AuditedFirst
  <1>15. QED
    BY <1>7, <1>9, <1>10, <1>11, <1>12, <1>13, <1>14 DEF IInv

\* When Authorize returns, everything has been told.
LEMMA AllTold ==
  ASSUME NEW s \in Slots, Telling(s), Authorized(s)
  PROVE  LET T == Tells(rq[s], result[s], span[s])
         IN  \A n \in 1..Len(T) : [call |-> call[s], what |-> T[n]] \in told
  <1> PICK T : T = Tells(rq[s], result[s], span[s])
    OBVIOUS
  <1>1. PICK k \in 0..Len(T) : /\ todo[s] = SubSeq(T, k + 1, Len(T))
                               /\ \A n \in 1..k : [call |-> call[s], what |-> T[n]] \in told
    BY DEF Authorized, Telling
  <1>2. Len(T) \in Nat /\ \E S : T \in Seq(S)
    BY TellsForm DEF Ordered
  <1>3. PICK S : T \in Seq(S)
    BY <1>2
  <1>4. k = Len(T)
    <2> SUFFICES ASSUME k # Len(T) PROVE FALSE
      OBVIOUS
    <2>1. k + 1 \in Int /\ Len(T) \in Int /\ k + 1 <= Len(T) /\ Len(T) - (k + 1) + 1 # 0
      BY <1>2
    <2>2. \A i \in (k + 1)..Len(T) : T[i] \in S
      <3>1. \A i \in (k + 1)..Len(T) : i \in 1..Len(T)
        BY <1>2
      <3>2. QED
        BY <1>3, <3>1, ElementOfSeq
    <2>3. Len(SubSeq(T, k + 1, Len(T))) = Len(T) - (k + 1) + 1
      BY <2>1, <2>2, SubSeqProperties
    <2>4. Len(todo[s]) = 0
      BY DEF Authorized
    <2>5. QED
      BY <1>1, <2>1, <2>3, <2>4
  <1>5. QED
    BY <1>1, <1>4

\* A call that is for a lookup is allowed only when that has been counted.
LEMMA AllowedTold ==
  ASSUME IInv, NEW s \in Slots, pc[s] = "respond" \/ Authorized(s), call[s].lookup # 0, result[s].allow
  PROVE  Allowed(call[s]) \in told
  <1>1. Sound(s) /\ Telling(s)
    BY DEF IInv, SoundInv, TellingInv
  <1>2. pc[s] # "idle" /\ env[s].path = "AuthZReq" /\ Present(env[s].request.headers)
    BY <1>1 DEF Sound, Authorized
  <1>3. Authorized(s)
    BY <1>1, <1>2 DEF Sound
  <1>4. Read(env[s], rq[s])
    BY <1>1, <1>3 DEF Sound, Authorized
  <1>5. Present(rq[s].headers)
    BY <1>2, <1>4 DEF Read
  <1> PICK T : T = Tells(rq[s], result[s], span[s])
    OBVIOUS
  <1>6. \A n \in 1..Len(T) : [call |-> call[s], what |-> T[n]] \in told
    BY <1>1, <1>3, AllTold
  <1>7. PICK n \in 1..Len(T) : T[n] = [kind |-> "internal", decision |-> Decision(result[s])]
    BY <1>5, InternalTold
  <1>8. QED
    BY <1>6, <1>7 DEF Decision, Allowed

LEMMA RespondKeeps ==
  ASSUME IInv, NEW s \in Slots, Respond(s)
  PROVE  IInv'
  <1>1. Form /\ SoundInv /\ NamedInv /\ AskedInv /\ ConsentInv /\ TellingInv /\ ToldInv /\ AuditedFirst
    BY DEF IInv
  <1>2. /\ Finish(s) /\ UNCHANGED <<told, posts, lookups>>
        /\ consent' = IF askedBy[s] = Nil THEN consent ELSE [consent EXCEPT ![askedBy[s]] = result[s].allow]
    BY DEF Respond
  <1>3. \/ pc[s] = "respond" /\ answers' = answers
        \/ /\ Authorized(s)
           /\ answers' = answers \cup {[call |-> call[s], request |-> rq[s], allow |-> result[s].allow]}
    BY DEF Respond
  <1>4. pc[s] \in {"respond", "record"}
    BY <1>3 DEF Authorized
  <1>5. posts \in Nat /\ posts <= posts' /\ posts' \in Nat /\ told \subseteq told'
    BY <1>1, <1>2 DEF Form
  <1>6. Form'
    <2>1. DOMAIN consent' = Slots
      BY <1>1, <1>2 DEF Form
    <2>2. IsFiniteSet(told')
      BY <1>1, <1>2 DEF Form
    <2>3. QED
      BY <1>1, <1>2, <2>1, <2>2 DEF Form, Finish, States
  <1>7. pc'[s] = "idle" /\ todo'[s] = <<>> /\ askedBy'[s] = Nil
    BY <1>1, <1>2 DEF Form, Finish
  <1>8. \A t \in Slots \ {s} : Same(t) /\ askedBy'[t] = askedBy[t]
    BY <1>1, <1>2 DEF Form, Same, Finish
  <1>9. SoundInv' /\ TellingInv'
    <2>1. Sound(s)'
      BY <1>7 DEF Sound, Looking
    <2>2. Telling(s)'
      BY <1>7 DEF Telling
    <2>3. QED
      BY <1>1, <1>5, <1>8, <2>1, <2>2, SlotStep
  <1>10. NamedInv'
    <2>1. Continues(s)
      BY <1>2, <1>7, <1>8 DEF Continues, Same, Looking
    <2>2. QED
      BY <1>1, <2>1, NamesKept
  <1>11. AskedInv'
    <2> SUFFICES ASSUME NEW t \in Slots, NEW u \in Slots, askedBy'[t] = u
                 PROVE  /\ askedBy[t] = u
                        /\ Asked(t, u) => /\ pc'[u] = "waiting" /\ pc'[t] # "idle"
                                          /\ call'[t] = call[t] /\ call'[u] = call[u] /\ env'[t] = env[t]
                                          /\ span'[u] = span[u] /\ lookup'[u] = lookup[u]
                                          /\ pc'[t] = "record" => span'[t] = span[u]
      BY <1>1, AskedKept
    <2>1. t # s
      BY <1>7, TransportAssumption
    <2>2. Asked(t, u) => u # s
      BY <1>4 DEF Asked
    <2>3. QED
      BY <1>8, <2>1, <2>2 DEF Asked, Same
  <1>12. ConsentInv'
    <2>1. CASE askedBy[s] = Nil
      <3>1. consent' = consent
        BY <1>2, <2>1
      <3>2. \A u \in Slots : pc[u] = "waiting" => pc'[u] = "waiting" /\ call'[u] = call[u] /\ lookup'[u] = lookup[u]
        BY <1>4, <1>8 DEF Same
      <3>3. QED
        BY <1>1, <1>5, <3>1, <3>2, ConsentKept
    <2>2. CASE askedBy[s] # Nil
      <3>1. PICK u \in Slots : u = askedBy[s]
        BY <1>1, <2>2 DEF Form
      <3>2. Asked(s, u) /\ consent' = [consent EXCEPT ![u] = result[s].allow]
        BY <1>1, <1>2, <2>2, <3>1 DEF AskedInv
      <3>3. u # s /\ Same(u) /\ pc[u] = "waiting" /\ call[s] = Callee(u)
        BY <1>4, <1>8, <3>2 DEF Asked
      <3>4. call[s].lookup # 0
        BY <1>1, <3>3 DEF Callee, SoundInv, Sound, Looking
      <3>5. result[s].allow => Allowed(Callee(u)) \in told
        BY <1>3, <3>3, <3>4, AllowedTold
      <3>6. Consented(u)'
        <4>1. consent'[u] = result[s].allow
          BY <1>1, <3>2 DEF Form
        <4>2. pc'[u] = "waiting" /\ Callee(u)' = Callee(u)
          BY <3>3 DEF Same, Callee
        <4>3. consent'[u] => Allowed(Callee(u)') \in told'
          BY <1>5, <3>5, <4>1, <4>2
        <4>4. QED
          BY <4>2, <4>3 DEF Consented, Allowed
      <3>7. \A v \in Slots \ {u} : Consented(v)'
        <4> SUFFICES ASSUME NEW v \in Slots \ {u}, consent'[v]
                     PROVE  pc'[v] = "waiting" /\ Allowed(Callee(v)') \in told'
          BY DEF Consented, Allowed
        <4>1. consent'[v] = consent[v] /\ Consented(v)
          BY <1>1, <3>2 DEF Form, ConsentInv
        <4>2. pc[v] = "waiting" /\ Allowed(Callee(v)) \in told
          BY <4>1 DEF Consented
        <4>3. v # s
          BY <1>4, <4>2
        <4>4. Callee(v)' = Callee(v)
          BY <1>8, <4>3 DEF Same, Callee
        <4>5. QED
          BY <1>5, <1>8, <4>2, <4>3, <4>4 DEF Same
      <3>8. QED
        BY <3>6, <3>7 DEF ConsentInv
    <2>3. QED
      BY <2>1, <2>2
  <1>13. ToldInv'
    BY <1>1, <1>2 DEF ToldInv
  <1>14. AuditedFirst'
    <2>1. CASE answers' = answers
      BY <1>1, <1>2, <2>1 DEF AuditedFirst
    <2>2. CASE /\ Authorized(s)
               /\ answers' = answers \cup {[call |-> call[s], request |-> rq[s], allow |-> result[s].allow]}
      <3> PICK a : a = [call |-> call[s], request |-> rq[s], allow |-> result[s].allow]
        OBVIOUS
      <3> PICK T : T = Tells(rq[s], result[s], span[s])
        OBVIOUS
      <3>1. \A n \in 1..Len(T) : [call |-> call[s], what |-> T[n]] \in told
        BY <1>1, <2>2, AllTold DEF TellingInv
      <3>2. Len(T) \in 1..Len(T) /\ T[Len(T)] = LogRecord(rq[s], result[s], span[s])
        BY RecordTold
      <3> PICK m : m = [call |-> call[s], what |-> LogRecord(rq[s], result[s], span[s])]
        OBVIOUS
      <3>3. m \in told
        BY <3>1, <3>2
      <3>4. m.call = call[s] /\ m.what = LogRecord(rq[s], result[s], span[s])
        OBVIOUS
      <3>5. a.call = call[s] /\ a.request = rq[s] /\ a.allow = result[s].allow
        OBVIOUS
      <3>6. /\ m.call = a.call /\ m.what.kind = "log"
            /\ m.what.client = Attribution(a.request)
            /\ LET op == Op(a.request)
               IN  <<m.what.resource, m.what.action, m.what.id>> = <<op.resource, op.action, op.id>>
            /\ m.what.decision = IF a.allow THEN "allow" ELSE "deny"
        BY <3>4, <3>5 DEF LogRecord, Decision
      <3>7. answers' = answers \cup {a}
        BY <2>2
      <3>8. QED
        BY <1>1, <1>2, <3>3, <3>6, <3>7 DEF AuditedFirst
    <2>3. QED
      BY <1>3, <2>1, <2>2
  <1>15. QED
    BY <1>6, <1>9, <1>10, <1>11, <1>12, <1>13, <1>14 DEF IInv

LEMMA EndLookupKeeps ==
  ASSUME IInv, NEW s \in Slots, EndLookup(s)
  PROVE  IInv'
  <1>1. Form /\ SoundInv /\ NamedInv /\ AskedInv /\ ConsentInv /\ TellingInv /\ ToldInv /\ AuditedFirst
    BY DEF IInv
  <1>2. /\ pc[s] \in {"lookup", "waiting"}
        /\ askedBy' = [t \in Slots |-> IF askedBy[t] = s THEN Nil ELSE askedBy[t]]
        /\ consent' = [consent EXCEPT ![s] = FALSE]
        /\ UNCHANGED <<env, call, rq, span, posts, answers>>
    BY DEF EndLookup, input
  <1> PICK trace : trace = span[s]
    OBVIOUS
  <1>0. PICK ok \in {FALSE, consent[s]} :
          /\ told' = told \cup {[call |-> Callee(s), what |-> [kind |-> "lookup", resource |-> Op(rq[s]).resource, ok |-> ok]]}
          /\ (\E res : Decide(s, res, trace)) \/ BeginLookup(s)
    BY DEF EndLookup
  <1> PICK new : new = [call |-> Callee(s), what |-> [kind |-> "lookup", resource |-> Op(rq[s]).resource, ok |-> ok]]
    OBVIOUS
  <1>3. (\E res : Decide(s, res, trace)) \/ BeginLookup(s)
    BY <1>0
  <1>4. /\ told' = told \cup {new} /\ told \subseteq told'
        /\ new.call = Callee(s) /\ new.what.kind = "lookup" /\ new.what.ok = ok
    BY <1>0
  <1>5. /\ posts \in Nat /\ posts <= posts' /\ posts' \in Nat
        /\ lookups \in Nat /\ lookups <= lookups' /\ lookups' \in Nat
    BY <1>1, <1>2, <1>3 DEF Form, Decide, BeginLookup
  <1>6. Form' /\ \A t \in Slots \ {s} : Same(t)
    <2>1. IsFiniteSet(told')
      BY <1>1, <1>4, FS_AddElement DEF Form
    <2>2. askedBy' \in [Slots -> Slots \cup {Nil}]
      BY <1>1, <1>2 DEF Form
    <2>3. CASE \E res : Decide(s, res, trace)
      BY <1>1, <1>2, <1>5, <2>1, <2>2, <2>3 DEF Form, Decide, States, Same
    <2>4. CASE BeginLookup(s)
      BY <1>1, <1>2, <1>5, <2>1, <2>2, <2>4 DEF Form, BeginLookup, States, Same
    <2>5. QED
      BY <1>3, <2>3, <2>4
  <1>7. /\ call[s] \in Calls /\ call[s].post < posts /\ Legible(env[s]) /\ call[s].lookup = 0
        /\ Read(env[s], rq[s]) /\ lookup[s] \in Nat /\ lookup[s] <= lookups /\ todo[s] = <<>>
        /\ Tracing => span[s] # 0
    BY <1>1, <1>2 DEF SoundInv, Sound, Looking, NamedInv, Named
  <1>8. Callee(s) \in Calls /\ Callee(s).post < posts /\ Callee(s).lookup = lookup[s]
    BY <1>7 DEF Callee, Calls
  <1>9. \/ pc'[s] = "record" /\ Telling(s)' /\ lookup' = lookup /\ lookups' = lookups
        \/ pc'[s] = "lookup" /\ todo'[s] = <<>> /\ lookup'[s] \in Nat /\ lookup'[s] # 0
    <2>1. CASE \E res : Decide(s, res, trace)
      <3>1. PICK res : Decide(s, res, trace)
        BY <2>1
      <3>2. rq' = rq /\ span'[s] = trace
        BY <1>2
      <3>3. Telling(s)'
        BY <1>1, <3>1, <3>2, DecideTells
      <3>4. pc'[s] = "record" /\ lookup' = lookup /\ lookups' = lookups
        BY <1>1, <3>1 DEF Decide, Form
      <3>5. QED
        BY <3>3, <3>4
    <2>2. CASE BeginLookup(s)
      BY <1>1, <1>5, <1>7, <2>2 DEF BeginLookup, Form
    <2>3. QED
      BY <1>3, <2>1, <2>2
  <1>10. SoundInv' /\ TellingInv'
    <2>1. Sound(s)'
      BY <1>2, <1>7, <1>9 DEF Sound, Looking
    <2>2. Telling(s)'
      BY <1>9 DEF Telling
    <2>3. QED
      BY <1>1, <1>4, <1>5, <1>6, <2>1, <2>2, SlotStep
  <1>11. NamedInv'
    <2>1. CASE pc'[s] = "record" /\ lookup' = lookup /\ lookups' = lookups
      <3>1. Continues(s)
        BY <1>2, <1>4, <1>6, <1>8, <2>1 DEF Continues, Same, Looking
      <3>2. QED
        BY <1>1, <3>1, NamesKept
    <2>2. CASE BeginLookup(s)
      <3>1. pc[s] # "idle" /\ \A m \in told' : m \in told \/ (m.call.lookup = lookup[s] /\ pc[s] \in Looking)
        BY <1>2, <1>4, <1>8 DEF Looking
      <3>2. QED
        BY <1>1, <1>2, <2>2, <3>1, NewLookup
    <2>3. \A res : Decide(s, res, trace) => pc'[s] = "record" /\ lookup' = lookup /\ lookups' = lookups
      BY <1>1 DEF Decide, Form
    <2>4. QED
      BY <1>3, <2>1, <2>2, <2>3
  <1>12. AskedInv'
    <2> SUFFICES ASSUME NEW t \in Slots, NEW u \in Slots, askedBy'[t] = u
                 PROVE  /\ askedBy[t] = u
                        /\ Asked(t, u) => /\ pc'[u] = "waiting" /\ pc'[t] # "idle"
                                          /\ call'[t] = call[t] /\ call'[u] = call[u] /\ env'[t] = env[t]
                                          /\ span'[u] = span[u] /\ lookup'[u] = lookup[u]
                                          /\ pc'[t] = "record" => span'[t] = span[u]
      BY <1>1, AskedKept
    <2>1. askedBy[t] = u /\ u # s
      BY <1>2, TransportAssumption
    <2>2. Asked(t, u) => t # s
      <3>1. Asked(t, u) => call[t].lookup = lookup[u] /\ lookup[u] # 0
        BY <1>1 DEF Asked, Callee, SoundInv, Sound, Looking
      <3>2. QED
        BY <1>7, <3>1
    <2>3. QED
      BY <1>6, <2>1, <2>2 DEF Asked, Same
  <1>13. ConsentInv'
    <2>1. \A u \in Slots : consent'[u] => u # s /\ consent[u]
      <3>1. consent'[s] = FALSE /\ \A u \in Slots \ {s} : consent'[u] = consent[u]
        BY <1>1, <1>2 DEF Form
      <3>2. QED
        BY <3>1
    <2>2. QED
      BY <1>1, <1>4, <1>6, <2>1, ConsentKept DEF Same
  <1>14. ToldInv'
    <2>1. \A m \in told : m.what.kind = "lookup" => m.call # new.call
      BY <1>1, <1>2, <1>4, <1>8 DEF NamedInv, Named, Looking
    <2>2. ok => Allowed(new.call) \in told
      <3>1. consent[s] => Allowed(Callee(s)) \in told
        BY <1>1 DEF ConsentInv, Consented
      <3>2. QED
        BY <1>0, <1>4, <3>1
    <2>3. \A m \in told' : /\ m.call \in Calls /\ m.call.post < posts' /\ m.call.lookup <= lookups'
      <3>1. \A m \in told' : m.call \in Calls /\ m.call.post < posts /\ m.call.lookup <= lookups
        BY <1>1, <1>4, <1>7, <1>8 DEF ToldInv
      <3>2. QED
        BY <1>2, <1>5, <3>1 DEF Calls
    <2>4. \A m \in told' : m.what.kind = "internal" =>
            /\ m = [call |-> m.call, what |-> [kind |-> "internal", decision |-> m.what.decision]]
            /\ \E n \in told' : /\ n.call = m.call /\ n.what.kind = "decision"
                                /\ n.what.client = "internal" /\ n.what.decision = m.what.decision
      BY <1>1, <1>4 DEF ToldInv
    <2>5. \A m \in told' : m.what.kind = "lookup" =>
            /\ m.what.ok => Allowed(m.call) \in told'
            /\ \A n \in told' : n.what.kind = "lookup" /\ n.call = m.call => n = m
      BY <1>1, <1>4, <2>1, <2>2 DEF ToldInv
    <2>6. QED
      BY <2>3, <2>4, <2>5 DEF ToldInv, Allowed
  <1>15. AuditedFirst'
    BY <1>1, <1>2, <1>4 DEF AuditedFirst
  <1>16. QED
    BY <1>6, <1>10, <1>11, <1>12, <1>13, <1>14, <1>15 DEF IInv

\* The plugin's own inspect carries the token, and no peer.
LEMMA InspectRead ==
  ASSUME NEW op, NEW e, e.request = InspectRequest(op), e.peers = <<>>
  PROVE  Legible(e) /\ Present(e.request.headers)
  <1> DEFINE h == [internal |-> <<Token>>, registryAuth |-> Nil]
             u == InspectURI(op)
             b == [strict |-> FALSE, spec |-> Nil]
             A == [method : {""}, user : {""}, peers : {<<>>}]
             R == [method : {"GET"}, uri : {u}, headers : {h}, auth : A, body : {b}]
             C == Certificates(e.peers)
             q == [e.request EXCEPT !.auth.peers = C]
  <1>1. h.internal = <<Token>> /\ <<Token>> # <<>>
    <2>1. Len(<<Token>>) = 1 /\ Len(<<>>) = 0
      OBVIOUS
    <2>2. <<Token>> # <<>>
      BY <2>1
    <2>3. QED
      BY <2>2
  <1>2. e.request = [method |-> "GET", uri |-> u, headers |-> h,
                     auth |-> [method |-> "", user |-> "", peers |-> <<>>], body |-> b]
    BY DEF InspectRequest
  <1> HIDE DEF h, u, b, C
  <1> PICK a : a = [method |-> "", user |-> "", peers |-> <<>>]
    OBVIOUS
  <1>3. a \in A
    OBVIOUS
  <1> HIDE DEF A
  <1>4. e.request \in R /\ e.request.headers = h /\ e.request.auth \in A
    <2>1. e.request = [method |-> "GET", uri |-> u, headers |-> h, auth |-> a, body |-> b]
      BY <1>2, Zenon
    <2>2. [method |-> "GET", uri |-> u, headers |-> h, auth |-> a, body |-> b] \in R
      BY <1>3
    <2>3. [method |-> "GET", uri |-> u, headers |-> h, auth |-> a, body |-> b].headers = h
      OBVIOUS
    <2>4. [method |-> "GET", uri |-> u, headers |-> h, auth |-> a, body |-> b].auth = a
      OBVIOUS
    <2>5. QED
      BY <1>3, <2>1, <2>2, <2>3, <2>4, Zenon
  <1>5. Present(e.request.headers)
    BY <1>1, <1>4 DEF Present
  <1>6. /\ q.headers = e.request.headers /\ q.auth.method = e.request.auth.method
        /\ q.auth.user = e.request.auth.user
    BY <1>4 DEF A
  <1>7. QED
    BY <1>5, <1>6 DEF Legible, Read, C

LEMMA CallbackKeeps ==
  ASSUME IInv, NEW s \in Slots, NEW t \in Slots, Callback(s, t)
  PROVE  IInv'
  <1>1. Form /\ SoundInv /\ NamedInv /\ AskedInv /\ ConsentInv /\ TellingInv /\ ToldInv /\ AuditedFirst
    BY DEF IInv
  <1> PICK outer \in {0, span[s]} :
        env' = [env EXCEPT ![t] = [verb |-> "POST", path |-> "AuthZReq", wire |-> "object", trailing |-> FALSE,
                                   request |-> InspectRequest(Op(rq[s])), peers |-> <<>>,
                                   trace |-> outer, inner |-> span[s]]]
    BY DEF Callback, Injected
  <1> PICK e : e = [verb |-> "POST", path |-> "AuthZReq", wire |-> "object", trailing |-> FALSE,
                    request |-> InspectRequest(Op(rq[s])), peers |-> <<>>,
                    trace |-> outer, inner |-> span[s]]
    OBVIOUS
  <1> PICK c : c = Callee(s)
    OBVIOUS
  <1>2. /\ pc[s] = "lookup" /\ pc[t] = "idle" /\ env' = [env EXCEPT ![t] = e]
        /\ call' = [call EXCEPT ![t] = c]
        /\ pc' = [pc EXCEPT ![s] = "waiting", ![t] = "http"]
        /\ askedBy' = [askedBy EXCEPT ![t] = s]
        /\ UNCHANGED <<rq, span, lookup, result, todo, told, posts, lookups, consent, answers>>
    BY DEF Callback, Injected
  <1>3. /\ posts \in Nat /\ posts <= posts' /\ posts' \in Nat /\ told \subseteq told' /\ s # t
        /\ lookups \in Nat /\ lookups <= lookups' /\ lookups' \in Nat
    BY <1>1, <1>2 DEF Form
  <1>4. Form'
    BY <1>1, <1>2 DEF Form, States
  <1>5. /\ pc'[s] = "waiting" /\ env'[s] = env[s] /\ call'[s] = call[s]
        /\ pc'[t] = "http" /\ env'[t] = e /\ call'[t] = c /\ askedBy'[t] = s
        /\ \A u \in Slots \ {t} : askedBy'[u] = askedBy[u]
    BY <1>1, <1>2, <1>3 DEF Form
  <1>6. \A u \in Slots \ {s, t} : Same(u)
    BY <1>1, <1>2 DEF Form, Same
  <1>7. /\ call[s].lookup = 0 /\ lookup[s] \in Nat /\ lookup[s] # 0 /\ lookup[s] <= lookups
        /\ c \in Calls /\ c.post = call[s].post /\ c.post < posts /\ c.lookup = lookup[s]
    <2>1. /\ call[s] \in Calls /\ call[s].post < posts /\ call[s].lookup = 0
          /\ lookup[s] \in Nat /\ lookup[s] # 0 /\ lookup[s] <= lookups
      BY <1>1, <1>2 DEF SoundInv, Sound, NamedInv, Named, Looking
    <2>2. QED
      BY <2>1 DEF Calls, Callee
  <1>8. SoundInv' /\ TellingInv'
    <2>1. Sound(s)'
      BY <1>1, <1>2, <1>5 DEF SoundInv, Sound, Looking
    <2>2. Sound(t)'
      <3>1. e.path = "AuthZReq" /\ e.request = InspectRequest(Op(rq[s])) /\ e.peers = <<>>
        OBVIOUS
      <3>2. Legible(e) /\ Present(e.request.headers)
        BY <3>1, InspectRead
      <3>3. todo'[t] = <<>>
        BY <1>1, <1>2 DEF SoundInv, Sound
      <3>4. QED
        BY <1>2, <1>5, <1>7, <3>1, <3>2, <3>3 DEF Sound, Looking
    <2>3. Telling(s)' /\ Telling(t)'
      BY <1>5 DEF Telling
    <2>4. \A u \in Slots \ {s, t} : Sound(u)' /\ Telling(u)'
      BY <1>1, <1>3, <1>6, OthersKeep
    <2>5. \A u \in Slots : Sound(u)' /\ Telling(u)'
      BY <2>1, <2>2, <2>3, <2>4
    <2>6. QED
      BY <2>5 DEF SoundInv, TellingInv
  <1>9. NamedInv'
    <2>1. \A u \in Slots : pc[u] # "idle" => call[u] # c
      BY <1>1, <1>2, <1>7 DEF NamedInv, Named
    <2>2. \A u \in Slots \ {s} : pc[u] = "lookup" => c.lookup # lookup[u]
      BY <1>1, <1>2, <1>7 DEF NamedInv, Named, Looking
    <2>3. \A u \in Slots \ {s, t} : pc'[u] = pc[u] /\ call'[u] = call[u] /\ lookup'[u] = lookup[u]
      BY <1>6 DEF Same
    <2>4. ASSUME NEW u \in Slots \ {t}
          PROVE  /\ pc'[u] # "idle" => pc[u] # "idle" /\ call'[u] = call[u] /\ call[u] # c
                 /\ pc'[u] \in Looking => pc[u] \in Looking /\ lookup'[u] = lookup[u]
                 /\ pc'[u] = "lookup" => pc[u] = "lookup" /\ c.lookup # lookup[u]
      <3>1. CASE u = s
        BY <1>2, <1>5, <2>1, <3>1 DEF Looking
      <3>2. CASE u # s
        BY <2>1, <2>2, <2>3, <3>2
      <3>3. QED
        BY <3>1, <3>2
    <2>5. Begins(t, c)
      BY <1>2, <1>5, <1>7, <2>4 DEF Begins
    <2>6. QED
      BY <1>1, <2>5, NewName
  <1>10. AskedInv'
    <2>1. Asked(t, s)'
      <3>1. e.trace \in {0, span[s]} /\ e.inner = span[s]
        OBVIOUS
      <3>2. call'[t] = Callee(s)' /\ span' = span
        BY <1>2, <1>5 DEF Callee
      <3>3. QED
        BY <1>5, <3>1, <3>2 DEF Asked, Callee
    <2>2. \A v, u \in Slots : v # t /\ askedBy'[v] = u => Asked(v, u)'
      <3> SUFFICES ASSUME NEW v \in Slots, NEW u \in Slots, v # t, askedBy'[v] = u PROVE Asked(v, u)'
        OBVIOUS
      <3>1. Asked(v, u)
        BY <1>1, <1>5 DEF AskedInv
      <3>0. call[v].lookup = lookup[u] /\ lookup[u] # 0
        BY <1>1, <3>1 DEF Asked, Callee, SoundInv, Sound, Looking
      <3>2. u \notin {s, t} /\ v # s
        BY <1>2, <1>7, <3>0, <3>1 DEF Asked
      <3>3. Same(u) /\ Same(v)
        BY <1>6, <3>2
      <3>4. QED
        BY <3>1, <3>3 DEF Asked, Same, Callee
    <2>3. QED
      BY <1>5, <2>1, <2>2 DEF AskedInv
  <1>11. ConsentInv'
    <2>1. \A u \in Slots : pc[u] = "waiting" => pc'[u] = "waiting" /\ call'[u] = call[u] /\ lookup'[u] = lookup[u]
      BY <1>2, <1>6 DEF Same
    <2>2. QED
      BY <1>1, <1>2, <1>3, <2>1, ConsentKept
  <1>12. ToldInv' /\ AuditedFirst'
    BY <1>1, <1>2, <1>3, Quiet
  <1>13. QED
    BY <1>4, <1>8, <1>9, <1>10, <1>11, <1>12 DEF IInv

LEMMA InitIInv == Init => IInv
  <1> SUFFICES ASSUME Init PROVE IInv
    OBVIOUS
  <1>1. Form
    BY FS_EmptySet DEF Init, Form, States
  <1>2. SoundInv /\ TellingInv
    BY DEF Init, SoundInv, Sound, TellingInv, Telling, Looking
  <1>3. NamedInv
    BY DEF Init, NamedInv, Named, Looking
  <1>4. AskedInv /\ ConsentInv
    BY TransportAssumption DEF Init, AskedInv, ConsentInv, Consented
  <1>5. ToldInv /\ AuditedFirst
    BY DEF Init, ToldInv, AuditedFirst
  <1>6. QED
    BY <1>1, <1>2, <1>3, <1>4, <1>5 DEF IInv

LEMMA NextIInv == IInv /\ [Next]_vars => IInv'
  <1> SUFFICES ASSUME IInv, [Next]_vars PROVE IInv'
    OBVIOUS
  <1>1. CASE UNCHANGED vars
    <2>1. UNCHANGED <<pc, env, call, rq, span, lookup, result, todo, told, posts, lookups, askedBy, consent, answers>>
      BY <1>1 DEF vars
    <2>2. Form' /\ ToldInv' /\ AuditedFirst'
      BY <2>1 DEF IInv, Form, ToldInv, AuditedFirst
    <2>3. SoundInv'
      BY <2>1 DEF IInv, SoundInv, Sound
    <2>4. TellingInv'
      BY <2>1 DEF IInv, TellingInv, Telling
    <2>5. NamedInv'
      BY <2>1 DEF IInv, NamedInv, Named
    <2>6. AskedInv'
      BY <2>1 DEF IInv, AskedInv, Asked, Callee
    <2>7. ConsentInv'
      BY <2>1 DEF IInv, ConsentInv, Consented, Callee, Allowed
    <2>8. QED
      BY <2>2, <2>3, <2>4, <2>5, <2>6, <2>7 DEF IInv
  <1>2. CASE Next
    <2>1. PICK s \in Slots : \/ Post(s) \/ ServeHTTP(s) \/ Authorize(s) \/ Tell(s) \/ Respond(s) \/ EndLookup(s)
                             \/ \E t \in Slots : Callback(s, t)
      BY <1>2 DEF Next
    <2>2. QED
      BY <2>1, PostKeeps, ServeKeeps, AuthorizeKeeps, TellKeeps, RespondKeeps, EndLookupKeeps, CallbackKeeps
  <1>3. QED
    BY <1>1, <1>2

LEMMA Invariant == Spec => []IInv
  BY InitIInv, NextIInv, PTL DEF Spec

-----------------------------------------------------------------------------
(* The theorems *)

LEMMA Judged == IInv => NeverAnonymous
  <1> SUFFICES ASSUME IInv, NEW s \in Slots, NEW i \in DOMAIN todo[s],
                      todo[s][i].kind = "log", todo[s][i].client = "unidentified"
               PROVE  /\ env[s].peers = <<>> /\ env[s].request.auth.method = "" /\ env[s].request.auth.user = ""
                      /\ ~Present(env[s].request.headers)
    BY DEF NeverAnonymous
  <1>1. Sound(s) /\ Telling(s)
    BY DEF IInv, SoundInv, TellingInv
  <1>2. pc[s] = "record"
    <2>1. todo[s] # <<>>
      OBVIOUS
    <2>2. QED
      BY <1>1, <2>1 DEF Sound
  <1> PICK T : T = Tells(rq[s], result[s], span[s])
    OBVIOUS
  <1>3. PICK k \in 0..Len(T) : todo[s] = SubSeq(T, k + 1, Len(T))
    BY <1>1, <1>2 DEF Telling
  <1>4. Ordered(T, rq[s], result[s], span[s])
    BY TellsForm
  <1>5. PICK S : T \in Seq(S)
    BY <1>4 DEF Ordered
  <1>6. Len(T) \in Nat
    BY <1>5
  <1>7. \E n \in 1..Len(T) : todo[s][i] = T[n]
    <2>1. k + 1 \in Int /\ Len(T) \in Int /\ \A n \in (k + 1)..Len(T) : n \in 1..Len(T)
      BY <1>6
    <2>2. \A n \in (k + 1)..Len(T) : T[n] \in S
      BY <1>5, <2>1, ElementOfSeq
    <2>3. /\ todo[s] \in Seq(S)
          /\ Len(todo[s]) = IF k + 1 <= Len(T) THEN Len(T) - (k + 1) + 1 ELSE 0
          /\ \A n \in 1..(Len(T) - (k + 1) + 1) : todo[s][n] = T[(k + 1) + n - 1]
      BY <1>3, <2>1, <2>2, SubSeqProperties
    <2>4. i \in 1..Len(todo[s])
      BY <2>3
    <2>5. i \in 1..(Len(T) - (k + 1) + 1) /\ (k + 1) + i - 1 \in 1..Len(T)
      BY <1>6, <2>3, <2>4
    <2>6. QED
      BY <2>3, <2>5
  <1>8. todo[s][i] = LogRecord(rq[s], result[s], span[s])
    BY <1>4, <1>7 DEF Ordered
  <1>9. Attribution(rq[s]) = "unidentified"
    BY <1>8 DEF LogRecord
  <1>10. ~Present(rq[s].headers) /\ rq[s].auth.method = "" /\ rq[s].auth.user = "" /\ rq[s].auth.peers = <<>>
    BY <1>9, UnidentifiedRequest
  <1>11. Read(env[s], rq[s])
    BY <1>1, <1>2 DEF Sound
  <1>12. QED
    BY <1>10, <1>11 DEF Read

\* Every lookup that succeeded has an internal request that was allowed, and no two the same.
LEMMA LookupsCounted ==
  ASSUME IInv
  PROVE  Count(LAMBDA m : m.kind = "lookup" /\ m.ok) <= Count(LAMBDA m : m.kind = "internal" /\ m.decision = "allow")
  <1> DEFINE L == {m \in told : m.what.kind = "lookup" /\ m.what.ok}
             A == {m \in told : m.what.kind = "internal" /\ m.what.decision = "allow"}
             f == [m \in L |-> Allowed(m.call)]
  <1>1. ToldInv /\ IsFiniteSet(told)
    BY DEF IInv, Form
  <1>2. f \in [L -> A]
    <2> SUFFICES ASSUME NEW m \in L PROVE Allowed(m.call) \in A
      OBVIOUS
    <2>1. Allowed(m.call) \in told
      BY <1>1 DEF ToldInv
    <2>2. \A c : Allowed(c).what.kind = "internal" /\ Allowed(c).what.decision = "allow"
      BY DEF Allowed
    <2>3. QED
      BY <2>1, <2>2
  <1>3. \A m, n \in L : f[m] = f[n] => m = n
    <2> SUFFICES ASSUME NEW m \in L, NEW n \in L, Allowed(m.call) = Allowed(n.call) PROVE m = n
      OBVIOUS
    <2>1. \A c : Allowed(c).call = c
      BY DEF Allowed
    <2>2. m.call = n.call
      BY <2>1
    <2>3. QED
      BY <1>1, <2>2 DEF ToldInv
  <1>4. f \in Injection(L, A)
    BY <1>2, <1>3 DEF Injection, IsInjective
  <1>5. IsFiniteSet(A)
    BY <1>1, FS_Subset
  <1>6. Cardinality(L) <= Cardinality(A)
    BY <1>4, <1>5, FS_Injection
  <1>7. QED
    BY <1>6 DEF Count

\* Every internal request has a decision of its own.
LEMMA InternalsCounted ==
  ASSUME IInv, NEW d
  PROVE  Count(LAMBDA m : m.kind = "internal" /\ m.decision = d) <=
           Count(LAMBDA m : m.kind = "decision" /\ m.client = "internal" /\ m.decision = d)
  <1> DEFINE N == {m \in told : m.what.kind = "internal" /\ m.what.decision = d}
             D == {m \in told : m.what.kind = "decision" /\ m.what.client = "internal" /\ m.what.decision = d}
             f == [m \in N |-> CHOOSE n \in D : n.call = m.call]
  <1>1. ToldInv /\ IsFiniteSet(told)
    BY DEF IInv, Form
  <1>2. \A m \in N : \E n \in D : n.call = m.call
    BY <1>1 DEF ToldInv
  <1>3. \A m \in N : m = [call |-> m.call, what |-> [kind |-> "internal", decision |-> d]]
    BY <1>1 DEF ToldInv
  <1>4. IsFiniteSet(D)
    BY <1>1, FS_Subset
  <1>5. \A m \in N : f[m] \in D /\ f[m].call = m.call
    <2> HIDE DEF N, D
    <2>1. QED
      BY <1>2
  <1>6. f \in [N -> D]
    BY <1>5
  <1>7. \A m, n \in N : f[m] = f[n] => m = n
    <2> HIDE DEF f, N
    <2>1. QED
      BY <1>3, <1>5
  <1>8. f \in Injection(N, D)
    BY <1>6, <1>7 DEF Injection, IsInjective
  <1>9. Cardinality(N) <= Cardinality(D)
    BY <1>4, <1>8, FS_Injection
  <1>10. QED
    BY <1>9 DEF Count

\* For any envelopes and configuration: a call that the audit log calls unidentified came
\* without peers, method, user or token, so ServeHTTP has dropped nothing of them.
THEOREM NobodyIsAnonymous == Spec => []NeverAnonymous
  BY Invariant, Judged, PTL

\* However calls interleave, Docker is answered only what the audit log has already, from
\* that very call (the deferred function of Authorize, and ServeHTTP after it).
THEOREM DecisionsAreAudited == Spec => []AuditedFirst
  <1>1. IInv => AuditedFirst
    BY DEF IInv
  <1>2. QED
    BY <1>1, Invariant, PTL

\* With any number of lookups under way: the envelope of a lookup is judged under the trace
\* of the call that the lookup is for.
THEOREM CallbacksAreTraced == Spec => []CallbackTraced
  <1>1. IInv => CallbackTraced
    BY DEF IInv, Form, AskedInv, Asked, CallbackTraced
  <1>2. QED
    BY <1>1, Invariant, PTL

\* At every moment and with any number of calls: no more lookups have succeeded than
\* internal requests were allowed, and each of these has been counted as a decision.
THEOREM CountersAgree == Spec => []CountersReconcile
  <1>1. IInv => CountersReconcile
    BY LookupsCounted, InternalsCounted DEF CountersReconcile, Count
  <1>2. QED
    BY <1>1, Invariant, PTL
=============================================================================
