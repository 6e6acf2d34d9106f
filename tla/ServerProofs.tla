---------------------------- MODULE ServerProofs ----------------------------
(***************************************************************************)
(* Proofs about PluginServer for any number of concurrent requests and     *)
(* lookups and for all timeouts: an orderly end of ServeUnix leaves no     *)
(* request unanswered and no decision unexported, and Shutdown runs out of *)
(* time only for a request that has begun a second lookup.                 *)
(***************************************************************************)
EXTENDS PluginServer, TLAPS

AllIdle == \A s \in Slots : ~Busy(s)
Over    == {"returned", "flushed", "exited"}

\* A readiness request reaches a handler only through the helper's socket, so whoever holds
\* the server's handle knows that the helper has been set up.
Opened ==
  /\ helper \in {"setup", "open", "failed", "closed"}
  /\ probes > 0 \/ ready \/ server => helper # "setup"

\* The loop is for the handle, and ServeUnix serves with it.
Held ==
  /\ phase \in {"starting", "probing"} => ~server
  /\ phase = "serving" => server

\* Shutdown has closed the listener for good.
Listener == phase \in {"draining", "waiting"} => Done

\* ServeUnix waits for done when nothing is in progress any more.
Settled == phase = "waiting" => AllIdle

\* The result is there when ServeUnix has returned; nil with the handle means drained.
Result ==
  /\ phase \notin Over => result = "none"
  /\ phase \in Over /\ server /\ result = "nil" => AllIdle /\ Done
  /\ phase \in {"flushed", "exited"} /\ server /\ result = "nil" => ~unsaved

IInv == Opened /\ Held /\ Listener /\ Settled /\ Result

\* The start: no handle and no result.
LEMMA ServerInit == Init => IInv
  BY DEF Init, IInv, Opened, Held, Listener, Settled, Result, AllIdle, Over, Busy, Done

\* A handler takes no step where there is no request, and a closed listener accepts none.
LEMMA HandlerStep ==
  ASSUME IInv, NEW s \in Slots, NEW t \in Slots, Accept(s) \/ Callback(s, t) \/ Handle(s)
  PROVE  IInv'
<1> USE DEF IInv
<1>1. UNCHANGED <<phase, server, result, helper, ready, probes>>
  BY DEF Accept, Callback, Handle, BeginLookup, EndLookup, Decide, Answer, loop
<1>2. Busy(s) \/ ~Done
  BY DEF Accept, Callback, Handle, BeginLookup, EndLookup, Decide, Answer, Busy, Done
<1>3. phase # "waiting" /\ ~(phase \in Over /\ server /\ result = "nil")
  BY <1>2 DEF Settled, Listener, Result, AllIdle
<1> QED
  BY <1>1, <1>3 DEF Opened, Held, Listener, Settled, Result, Done, Over

\* The steps of ServeUnix and run.
LEMMA LoopStep ==
  ASSUME IInv, Loop \/ SignalInLoop \/ StartupTimesOut
  PROVE  IInv'
<1> USE DEF IInv
<1>1. CASE HelperEnds
  BY <1>1 DEF HelperEnds, Return, handlers, Opened, Held, Listener, Settled, Result, AllIdle, Over, Busy, Done
<1>2. CASE Probe
  BY <1>2 DEF Probe, handlers, Opened, Held, Listener, Settled, Result, AllIdle, Over, Busy, Done
<1>3. CASE ProbeFails
  BY <1>3 DEF ProbeFails, handlers, Opened, Held, Listener, Settled, Result, AllIdle, Over, Busy, Done
<1>4. CASE Receive
  BY <1>4 DEF Receive, handlers, Opened, Held, Listener, Settled, Result, AllIdle, Over, Busy, Done
<1>5. CASE Drain
  <2>1. server => helper \in {"open", "failed", "closed"}
    BY DEF Opened
  <2>2. server
    BY <1>5 DEF Drain, Held
  <2> QED
    BY <1>5, <2>1, <2>2 DEF Drain, handlers, Opened, Held, Listener, Settled, Result, AllIdle, Over, Busy, Done
<1>6. CASE Drained
  BY <1>6 DEF Drained, Quiet, handlers, Opened, Held, Listener, Settled, Result, AllIdle, Over, Busy, Done
<1>7. CASE DrainTimesOut
  BY <1>7 DEF DrainTimesOut, Return, handlers, Opened, Held, Listener, Settled, Result, AllIdle, Over, Busy, Done
<1>8. CASE Closed
  BY <1>8 DEF Closed, Return, handlers, Opened, Held, Listener, Settled, Result, AllIdle, Over, Busy, Done
<1>9. CASE Flush
  BY <1>9 DEF Flush, Opened, Held, Listener, Settled, Result, AllIdle, Over, Busy, Done
<1>10. CASE Exit
  BY <1>10 DEF Exit, handlers, Opened, Held, Listener, Settled, Result, AllIdle, Over, Busy, Done
<1>11. CASE SignalInLoop
  BY <1>11 DEF SignalInLoop, Return, handlers, Opened, Held, Listener, Settled, Result, AllIdle, Over, Busy, Done
<1>12. CASE StartupTimesOut
  BY <1>12 DEF StartupTimesOut, Return, handlers, Opened, Held, Listener, Settled, Result, AllIdle, Over, Busy, Done
<1> QED
  BY <1>1, <1>2, <1>3, <1>4, <1>5, <1>6, <1>7, <1>8, <1>9, <1>10, <1>11, <1>12 DEF Loop

\* Every step; the surroundings only open a socket or let the helper fail.
LEMMA ServerNext == IInv /\ [Next]_vars => IInv'
<1> SUFFICES ASSUME IInv, [Next]_vars PROVE IInv'
  OBVIOUS
<1> USE DEF IInv
<1>1. ASSUME NEW s \in Slots, NEW t \in Slots, Accept(s) \/ Callback(s, t) \/ Handle(s) PROVE IInv'
  BY <1>1, HandlerStep
<1>2. CASE Loop \/ SignalInLoop \/ StartupTimesOut
  BY <1>2, LoopStep
<1>3. CASE Signal
  BY <1>3 DEF Signal, handlers, Opened, Held, Listener, Settled, Result, AllIdle, Over, Busy, Done
<1>4. CASE HelperMoves
  BY <1>4 DEF HelperMoves, handlers, Opened, Held, Listener, Settled, Result, AllIdle, Over, Busy, Done
<1>5. CASE Tick
  BY <1>5 DEF Tick, loop, Opened, Held, Listener, Settled, Result, AllIdle, Over, Busy, Done
<1>6. CASE ServeReady
  BY <1>6 DEF ServeReady, handlers, Opened, Held, Listener, Settled, Result, AllIdle, Over, Busy, Done
<1>7. CASE UNCHANGED vars
  BY <1>7 DEF vars, loop, handlers, Opened, Held, Listener, Settled, Result, AllIdle, Over, Busy, Done
<1> QED
  BY <1>1, <1>2, <1>3, <1>4, <1>5, <1>6, <1>7 DEF Next

\* When ServeUnix returns nil after it had the handle, every request that was accepted has
\* been answered and its decision exported, whatever the number of requests and lookups,
\* the timeouts, and the moment of the signal.
THEOREM OrderlyEnd == Spec => []DrainedBeforeFlush
<1>1. IInv => DrainedBeforeFlush
  BY DEF IInv, Result, AllIdle, Over, DrainedBeforeFlush
<1> QED BY <1>1, ServerInit, ServerNext, PTL DEF Spec

-----------------------------------------------------------------------------
(* Types *)

\* The bounds and the timeouts, one by one.
LEMMA Numbers ==
  /\ MaxLookups \in Nat /\ MaxRequests \in Nat /\ MaxProbes \in Nat
  /\ StartupTimeout \in Nat /\ ProbeTimeout \in Nat /\ LookupTimeout \in Nat /\ ShutdownTimeout \in Nat
  BY TimesAssumption

\* The start: no request and a full startup timer.
LEMMA TypedInit == Init => TypeOK
<1> SUFFICES ASSUME Init PROVE TypeOK
  OBVIOUS
<1>1. timer \in [startup : 0..StartupTimeout, probe : 0..ProbeTimeout, drain : 0..ShutdownTimeout]
  BY Numbers DEF Init
<1>2. ASSUME NEW s \in Slots PROVE left[s] + used[s] <= MaxLookups
  <2>1. left[s] = 0 /\ used[s] = 0
    BY DEF Init
  <2> QED BY <2>1, Numbers
<1>3. /\ left \in [Slots -> 0..MaxLookups] /\ used \in [Slots -> 0..MaxLookups] /\ wait \in [Slots -> 0..LookupTimeout]
      /\ probes \in 0..MaxProbes /\ accepted \in 0..MaxRequests
  BY Numbers DEF Init
<1> QED BY <1>1, <1>2, <1>3 DEF Init, TypeOK, Phases

\* The handlers count what they accept and look up.
LEMMA TypedHandler ==
  ASSUME TypeOK, NEW s \in Slots, NEW u \in Slots, Accept(s) \/ Callback(s, u) \/ Handle(s)
  PROVE  TypeOK'
<1>f. /\ left \in [Slots -> 0..MaxLookups] /\ used \in [Slots -> 0..MaxLookups] /\ wait \in [Slots -> 0..LookupTimeout]
      /\ \A t \in Slots : left[t] + used[t] <= MaxLookups
  BY DEF TypeOK
<1>s. /\ left[s] \in 0..MaxLookups /\ used[s] \in 0..MaxLookups
      /\ left[s] + used[s] <= MaxLookups
  BY DEF TypeOK
<1>1. CASE Accept(s)
  <2>1. PICK n \in 0..MaxLookups : left' = [left EXCEPT ![s] = n]
    BY <1>1 DEF Accept
  <2>2. left' \in [Slots -> 0..MaxLookups] /\ used' \in [Slots -> 0..MaxLookups]
    BY <1>1, <1>f, <2>1, Numbers DEF Accept
  <2>3. \A t \in Slots : left'[t] + used'[t] <= MaxLookups
    BY <1>1, <1>f, <2>1, Numbers DEF Accept
  <2>4. accepted' \in 0..MaxRequests
    <3>1. accepted \in 0..MaxRequests
      BY DEF TypeOK
    <3> QED BY <1>1, <3>1, Numbers DEF Accept
  <2>5. UNCHANGED <<phase, server, result, helper, ready, signalled, timer, wait, asking, unsaved, probes>>
    BY <1>1 DEF Accept, loop
  <2>6. st' \in [Slots -> {"idle", "judging", "lookup", "reading", "decided"}]
    BY <1>1 DEF Accept, TypeOK
  <2> QED BY <2>2, <2>3, <2>4, <2>5, <2>6 DEF TypeOK
<1>2. CASE BeginLookup(s)
  <2>1. left' \in [Slots -> 0..MaxLookups] /\ used' \in [Slots -> 0..MaxLookups]
    BY <1>2, <1>f, <1>s, Numbers DEF BeginLookup, NeededAfter
  <2>2. \A t \in Slots : left'[t] + used'[t] <= MaxLookups
    BY <1>2, <1>f, <1>s, Numbers DEF BeginLookup, NeededAfter
  <2>3. wait' \in [Slots -> 0..LookupTimeout]
    BY <1>2, <1>f, Numbers DEF BeginLookup
  <2>4. st' \in [Slots -> {"idle", "judging", "lookup", "reading", "decided"}]
    BY <1>2 DEF BeginLookup, TypeOK
  <2>5. UNCHANGED <<phase, server, result, helper, ready, signalled, timer, asking, accepted, unsaved, probes>>
    BY <1>2 DEF BeginLookup, loop
  <2> QED BY <2>1, <2>2, <2>3, <2>4, <2>5 DEF TypeOK
<1>3. CASE Callback(s, u)
  <2>1. left' \in [Slots -> 0..MaxLookups] /\ used' \in [Slots -> 0..MaxLookups]
    BY <1>3, <1>f, Numbers DEF Callback
  <2>2. \A t \in Slots : left'[t] + used'[t] <= MaxLookups
    BY <1>3, <1>f, Numbers DEF Callback
  <2>3. asking' \subseteq Slots \X Slots
    <3>1. asking \subseteq Slots \X Slots
      BY DEF TypeOK
    <3>2. asking' = asking \cup {<<s, u>>}
      BY <1>3 DEF Callback
    <3> QED BY <3>1, <3>2
  <2>4. st' \in [Slots -> {"idle", "judging", "lookup", "reading", "decided"}]
    BY <1>3 DEF Callback, TypeOK
  <2>5. UNCHANGED <<phase, server, result, helper, ready, signalled, timer, wait, accepted, unsaved, probes>>
    BY <1>3 DEF Callback, loop
  <2> QED BY <2>1, <2>2, <2>3, <2>4, <2>5 DEF TypeOK
<1>4. CASE EndLookup(s)
  <2>1. left' = left \/ left' = [left EXCEPT ![s] = 0]
    BY <1>4 DEF EndLookup
  <2>2. left' \in [Slots -> 0..MaxLookups] /\ wait' \in [Slots -> 0..LookupTimeout]
    BY <1>4, <1>f, <2>1, Numbers DEF EndLookup
  <2>3. used' = used /\ \A t \in Slots : left'[t] + used'[t] <= MaxLookups
    BY <1>4, <1>f, <1>s, <2>1, Numbers DEF EndLookup
  <2> QED BY <1>4, <2>2, <2>3 DEF EndLookup, TypeOK, loop
<1>5. CASE Decide(s)
  BY <1>5 DEF Decide, TypeOK, loop
<1>6. CASE Answer(s)
  BY <1>6 DEF Answer, TypeOK, loop
<1> QED BY <1>1, <1>2, <1>3, <1>4, <1>5, <1>6 DEF Handle

\* Every step keeps the types.
LEMMA TypedNext == TypeOK /\ [Next]_vars => TypeOK'
<1> SUFFICES ASSUME TypeOK, [Next]_vars PROVE TypeOK'
  OBVIOUS
<1>f. probes \in 0..MaxProbes /\ wait \in [Slots -> 0..LookupTimeout]
  BY DEF TypeOK
<1>r. timer \in [startup : 0..StartupTimeout, probe : 0..ProbeTimeout, drain : 0..ShutdownTimeout]
  BY DEF TypeOK
<1>1. ASSUME NEW s \in Slots, NEW t \in Slots, Accept(s) \/ Callback(s, t) \/ Handle(s) PROVE TypeOK'
  BY <1>1, TypedHandler
<1>3. ASSUME UNCHANGED <<handlers, probes>>, phase' \in Phases, server' \in BOOLEAN, ready' \in BOOLEAN,
             signalled' \in BOOLEAN, helper' \in {"setup", "open", "failed", "closed"},
             result' \in {"none", "nil", "error", "startup timed out", "shutdown timed out"},
             timer' \in [startup : 0..StartupTimeout, probe : 0..ProbeTimeout, drain : 0..ShutdownTimeout]
      PROVE  TypeOK'
  BY <1>3 DEF TypeOK, handlers
<1>4. CASE Signal \/ HelperMoves
  BY <1>3, <1>4 DEF Signal, HelperMoves, TypeOK
<1>5. CASE HelperEnds \/ SignalInLoop \/ StartupTimesOut \/ ProbeFails \/ Drained \/ DrainTimesOut \/ Closed \/ Exit
  BY <1>3, <1>5 DEF HelperEnds, SignalInLoop, StartupTimesOut, ProbeFails, Drained, DrainTimesOut, Closed, Exit,
                          Return, TypeOK, Phases
<1>6. CASE Receive \/ Drain
  <2>1. timer' \in [startup : 0..StartupTimeout, probe : 0..ProbeTimeout, drain : 0..ShutdownTimeout]
    <3>1. timer' = [timer EXCEPT !.startup = 0, !.probe = 0] \/ timer' = [timer EXCEPT !.drain = ShutdownTimeout]
      BY <1>6 DEF Receive, Drain
    <3>2. 0 \in 0..StartupTimeout /\ 0 \in 0..ProbeTimeout /\ ShutdownTimeout \in 0..ShutdownTimeout
      BY Numbers
    <3> QED BY <1>r, <3>1, <3>2
  <2> QED BY <1>3, <1>6, <2>1 DEF Receive, Drain, TypeOK, Phases
<1>7. CASE Probe
  <2>1. timer' \in [startup : 0..StartupTimeout, probe : 0..ProbeTimeout, drain : 0..ShutdownTimeout]
    BY <1>7, <1>r, Numbers DEF Probe
  <2>2. probes' \in 0..MaxProbes
    BY <1>7, <1>f, Numbers DEF Probe
  <2> QED BY <1>7, <2>1, <2>2 DEF Probe, TypeOK, handlers, Phases
<1>8. CASE ServeReady
  <2>1. probes' \in 0..MaxProbes
    BY <1>8, <1>f, Numbers DEF ServeReady
  <2> QED BY <1>8, <2>1 DEF ServeReady, TypeOK, handlers, Phases
<1>9. CASE Flush
  BY <1>9 DEF Flush, TypeOK, Phases
<1>10. CASE Tick
  <2>1. \A m \in Nat : \A n \in 0..m : Decrease(n) \in 0..m
    BY DEF Decrease
  <2>2. wait' \in [Slots -> 0..LookupTimeout]
    BY <1>10, <1>f, <2>1, Numbers DEF Tick
  <2>3. timer' \in [startup : 0..StartupTimeout, probe : 0..ProbeTimeout, drain : 0..ShutdownTimeout]
    <3>1. timer' = [startup |-> Decrease(timer.startup), probe |-> Decrease(timer.probe), drain |-> Decrease(timer.drain)]
      BY <1>10, <1>r DEF Tick
    <3>2. /\ Decrease(timer.startup) \in 0..StartupTimeout /\ Decrease(timer.probe) \in 0..ProbeTimeout
          /\ Decrease(timer.drain) \in 0..ShutdownTimeout
      BY <1>r, <2>1, Numbers
    <3> QED BY <3>1, <3>2
  <2> QED BY <1>10, <2>2, <2>3 DEF Tick, TypeOK, loop
<1>11. CASE UNCHANGED vars
  BY <1>3, <1>11 DEF vars, loop, TypeOK
<1> QED
  BY <1>1, <1>4, <1>5, <1>6, <1>7, <1>8, <1>9, <1>10, <1>11 DEF Next, Loop

\* The timers of ServeUnix and the counters of the handlers stay within their bounds.
THEOREM TypeCorrect == Spec => []TypeOK
  BY TypedInit, TypedNext, PTL DEF Spec

\* The daemon asks about lookups in progress, about each once.
Asks ==
  /\ \A s, t \in Slots : <<s, t>> \in asking => st[s] = "lookup"
  /\ \A s, t, u \in Slots : <<s, t>> \in asking /\ <<s, u>> \in asking => t = u

\* Only the handlers ask and answer.
LEMMA AsksNext == TypeOK /\ Asks /\ [Next]_vars => Asks'
<1> SUFFICES ASSUME TypeOK, Asks, [Next]_vars PROVE Asks'
  OBVIOUS
<1>t. st \in [Slots -> {"idle", "judging", "lookup", "reading", "decided"}] /\ asking \subseteq Slots \X Slots
  BY DEF TypeOK
<1>1. ASSUME NEW s \in Slots, Accept(s) \/ BeginLookup(s) \/ Decide(s) PROVE Asks'
  <2>1. asking' = asking /\ st[s] # "lookup" /\ \A t \in Slots \ {s} : st'[t] = st[t]
    BY <1>1, <1>t DEF Accept, BeginLookup, Decide, Busy
  <2> QED BY <2>1 DEF Asks
<1>2. ASSUME NEW s \in Slots, NEW u \in Slots, Callback(s, u) PROVE Asks'
  <2>1. /\ st[s] = "lookup" /\ st[u] = "idle" /\ \A t \in Slots : <<s, t>> \notin asking
        /\ \A t \in Slots \ {u} : st'[t] = st[t]
        /\ \A t, v \in Slots : <<t, v>> \in asking' <=> <<t, v>> \in asking \/ (t = s /\ v = u)
    BY <1>2, <1>t DEF Callback, Busy
  <2> QED BY <2>1 DEF Asks
<1>3. ASSUME NEW s \in Slots, EndLookup(s) PROVE Asks'
  <2>1. /\ \A t \in Slots \ {s} : st'[t] = st[t]
        /\ \A t, v \in Slots : <<t, v>> \in asking' <=> <<t, v>> \in asking /\ t # s
    BY <1>3, <1>t DEF EndLookup
  <2> QED BY <2>1 DEF Asks
<1>4. ASSUME NEW s \in Slots, Answer(s) PROVE Asks'
  <2>1. /\ st[s] = "decided"
        /\ \A t \in Slots \ {s} : <<t, s>> \notin asking => st'[t] = st[t]
        /\ \A t, v \in Slots : <<t, v>> \in asking' <=> <<t, v>> \in asking /\ v # s
    BY <1>4, <1>t DEF Answer
  <2> QED BY <2>1 DEF Asks
<1>5. ASSUME UNCHANGED <<st, asking>> PROVE Asks'
  BY <1>5 DEF Asks
<1>6. CASE Signal \/ HelperMoves \/ Tick \/ ServeReady \/ UNCHANGED vars
  BY <1>5, <1>6 DEF Signal, HelperMoves, Tick, ServeReady, handlers, vars
<1>7. CASE Loop \/ SignalInLoop \/ StartupTimesOut
  BY <1>5, <1>7 DEF Loop, HelperEnds, Probe, ProbeFails, Receive, Drain, Drained, DrainTimesOut, Closed, Flush, Exit,
                    SignalInLoop, StartupTimesOut, handlers
<1> QED BY <1>1, <1>2, <1>3, <1>4, <1>6, <1>7 DEF Next, Handle

-----------------------------------------------------------------------------
(* Time *)

\* A lookup in progress is one its slot has counted.  While ServeUnix drains, a slot that has
\* not come to its second lookup is ahead of the deadline by what Shutdown has more than a
\* lookup; once less than that is left, some slot has come to its second lookup.
InTime ==
  /\ \A s \in Slots : st[s] \in {"lookup", "reading"} => used[s] >= 1
  /\ phase = "draining" =>
       /\ \A s \in Slots :
            /\ st[s] = "judging" /\ used[s] = 0 => timer.drain = ShutdownTimeout
            /\ st[s] \in {"lookup", "reading"} /\ used[s] <= 1 =>
                 wait[s] + ShutdownTimeout <= timer.drain + LookupTimeout
       /\ timer.drain + LookupTimeout < ShutdownTimeout => \E s \in Slots : used[s] >= 2

\* What the timers and counters of a state are, for the arithmetic.
LEMMA Clocks ==
  ASSUME TypeOK
  PROVE  /\ timer.drain \in Nat /\ DOMAIN timer = {"startup", "probe", "drain"}
         /\ \A s \in Slots : used[s] \in Nat /\ wait[s] \in Nat /\ wait[s] <= LookupTimeout
         /\ st \in [Slots -> {"idle", "judging", "lookup", "reading", "decided"}]
<1>1. timer.drain \in 0..ShutdownTimeout /\ DOMAIN timer = {"startup", "probe", "drain"}
  BY DEF TypeOK
<1>2. \A s \in Slots : used[s] \in 0..MaxLookups /\ wait[s] \in 0..LookupTimeout
  BY DEF TypeOK
<1>3. st \in [Slots -> {"idle", "judging", "lookup", "reading", "decided"}]
  BY DEF TypeOK
<1> QED BY <1>1, <1>2, <1>3, Numbers

\* A step of one slot keeps InTime if it leaves the others and the timer alone, keeps the
\* slot's own share, and does not forget its lookups while ServeUnix drains.
LEMMA InTimeSlot ==
  ASSUME TypeOK, InTime, NEW s \in Slots, UNCHANGED <<phase, timer>>,
         \A t \in Slots \ {s} : st'[t] = st[t] /\ used'[t] = used[t] /\ wait'[t] = wait[t],
         st'[s] \in {"lookup", "reading"} => used'[s] >= 1,
         phase = "draining" => used'[s] >= used[s],
         phase = "draining" /\ st'[s] = "judging" /\ used'[s] = 0 => timer.drain = ShutdownTimeout,
         phase = "draining" /\ st'[s] \in {"lookup", "reading"} /\ used'[s] <= 1 =>
           wait'[s] + ShutdownTimeout <= timer.drain + LookupTimeout,
         used'[s] \in Nat
  PROVE  InTime'
<1>1. \A t \in Slots : t = s \/ t \in Slots \ {s}
  OBVIOUS
<1>2. \A t \in Slots : st'[t] \in {"lookup", "reading"} => used'[t] >= 1
  BY <1>1 DEF InTime
<1>3. ASSUME phase = "draining", NEW t \in Slots
      PROVE  /\ st'[t] = "judging" /\ used'[t] = 0 => timer.drain = ShutdownTimeout
             /\ st'[t] \in {"lookup", "reading"} /\ used'[t] <= 1 =>
                  wait'[t] + ShutdownTimeout <= timer.drain + LookupTimeout
  BY <1>1, <1>3 DEF InTime
<1>4. ASSUME phase = "draining", timer.drain + LookupTimeout < ShutdownTimeout
      PROVE  \E t \in Slots : used'[t] >= 2
  <2>1. PICK t \in Slots : used[t] >= 2
    BY <1>4 DEF InTime
  <2>2. used'[t] >= used[t] /\ used'[t] \in Nat /\ used[t] \in Nat
    BY <1>1, <1>4, Clocks
  <2> QED BY <2>1, <2>2
<1> QED BY <1>2, <1>3, <1>4 DEF InTime

\* So does one that only ends requests and lets lookups go on.
LEMMA InTimeKept ==
  ASSUME InTime, UNCHANGED <<phase, timer, used, wait>>,
         \A t \in Slots : st'[t] \in {st[t], "decided", "idle"} \/ (st[t] = "lookup" /\ st'[t] = "reading")
  PROVE  InTime'
  BY DEF InTime

\* The handlers keep InTime.
LEMMA InTimeHandler ==
  ASSUME TypeOK, IInv, Asks, InTime, NEW s \in Slots, NEW u \in Slots, Accept(s) \/ Callback(s, u) \/ Handle(s)
  PROVE  InTime'
<1>a. used \in [Slots -> 0..MaxLookups] /\ wait \in [Slots -> 0..LookupTimeout]
  BY DEF TypeOK
<1>c. /\ timer.drain \in Nat
      /\ \A t \in Slots : used[t] \in Nat /\ wait[t] \in Nat /\ wait[t] <= LookupTimeout
      /\ st \in [Slots -> {"idle", "judging", "lookup", "reading", "decided"}]
  BY Clocks
<1>i. /\ st[s] \in {"lookup", "reading"} => used[s] >= 1
      /\ phase = "draining" /\ st[s] = "judging" /\ used[s] = 0 => timer.drain = ShutdownTimeout
      /\ phase = "draining" /\ st[s] \in {"lookup", "reading"} /\ used[s] <= 1 =>
           wait[s] + ShutdownTimeout <= timer.drain + LookupTimeout
  BY DEF InTime
<1>u. UNCHANGED <<phase, timer>>
  BY DEF Accept, Callback, Handle, BeginLookup, EndLookup, Decide, Answer, loop
<1>1. CASE Accept(s)
  <2>1. phase # "draining"
    BY <1>1 DEF Accept, IInv, Listener, Done
  <2>2. /\ \A t \in Slots \ {s} : st'[t] = st[t] /\ used'[t] = used[t] /\ wait'[t] = wait[t]
        /\ st'[s] = "judging" /\ used'[s] = 0
    BY <1>1, <1>a, <1>c DEF Accept
  <2> QED BY <1>u, <2>1, <2>2, InTimeSlot
<1>2. CASE BeginLookup(s)
  <2>1. /\ \A t \in Slots \ {s} : st'[t] = st[t] /\ used'[t] = used[t] /\ wait'[t] = wait[t]
        /\ st'[s] = "lookup" /\ used'[s] = used[s] + 1 /\ wait'[s] = LookupTimeout /\ st[s] = "judging"
    BY <1>2, <1>a, <1>c DEF BeginLookup
  <2>2. phase = "draining" /\ used'[s] <= 1 => wait'[s] + ShutdownTimeout <= timer.drain + LookupTimeout
    BY <1>c, <1>i, <2>1, Numbers
  <2>3. used'[s] >= 1 /\ used'[s] >= used[s] /\ used'[s] \in Nat /\ used'[s] # 0
    BY <1>c, <2>1
  <2> QED BY <1>u, <2>1, <2>2, <2>3, InTimeSlot
<1>3. CASE Callback(s, u)
  <2>1. phase # "draining"
    BY <1>3 DEF Callback, IInv, Listener, Done
  <2>2. /\ \A t \in Slots \ {u} : st'[t] = st[t] /\ used'[t] = used[t] /\ wait'[t] = wait[t]
        /\ st'[u] = "judging" /\ used'[u] = 0
    BY <1>3, <1>a, <1>c DEF Callback
  <2> QED BY <1>u, <2>1, <2>2, InTimeSlot
<1>4. CASE EndLookup(s)
  <2>1. /\ \A t \in Slots \ {s} : st'[t] = st[t] /\ used'[t] = used[t] /\ wait'[t] = wait[t]
        /\ st'[s] = "judging" /\ used'[s] = used[s] /\ st[s] \in {"lookup", "reading"}
    BY <1>4, <1>a, <1>c DEF EndLookup
  <2>2. used[s] >= used[s] /\ used[s] # 0 /\ used[s] \in Nat
    BY <1>c, <1>i, <2>1
  <2> QED BY <1>u, <2>1, <2>2, InTimeSlot
<1>5. CASE Decide(s)
  <2>1. UNCHANGED <<used, wait>> /\ \A t \in Slots : st'[t] = st[t] \/ st'[t] = "decided"
    BY <1>5, <1>c DEF Decide
  <2>2. \A t \in Slots : st'[t] \in {st[t], "decided", "idle"} \/ (st[t] = "lookup" /\ st'[t] = "reading")
    BY <2>1
  <2>3. UNCHANGED <<phase, timer, used, wait>>
    BY <1>u, <2>1
  <2> QED BY <2>2, <2>3, InTimeKept
<1>6. CASE Answer(s)
  <2>1. /\ UNCHANGED <<used, wait>>
        /\ \A t \in Slots : st'[t] \in {st[t], "idle"} \/ (st'[t] = "reading" /\ <<t, s>> \in asking)
    BY <1>6 DEF Answer
  <2>2. \A t \in Slots : <<t, s>> \in asking => st[t] = "lookup"
    BY DEF Asks
  <2>3. \A t \in Slots : st'[t] \in {st[t], "decided", "idle"} \/ (st[t] = "lookup" /\ st'[t] = "reading")
    BY <2>1, <2>2
  <2>4. UNCHANGED <<phase, timer, used, wait>>
    BY <1>u, <2>1
  <2> QED BY <2>3, <2>4, InTimeKept
<1> QED BY <1>1, <1>2, <1>3, <1>4, <1>5, <1>6 DEF Handle

\* Time only passes while a handler waits, and every one that waits comes closer to its own
\* deadline as Shutdown comes to its.
LEMMA InTimeTick ==
  ASSUME TypeOK, InTime, Tick
  PROVE  InTime'
<1>c. /\ timer.drain \in Nat /\ DOMAIN timer = {"startup", "probe", "drain"}
      /\ \A s \in Slots : used[s] \in Nat /\ wait[s] \in Nat /\ wait[s] <= LookupTimeout
      /\ st \in [Slots -> {"idle", "judging", "lookup", "reading", "decided"}]
  BY Clocks
<1>1. UNCHANGED <<phase, st, used>> /\ Idle
  BY DEF Tick, loop
<1>2. \A s \in Slots : wait'[s] = Decrease(wait[s])
  BY DEF Tick
<1>3. timer'.drain = Decrease(timer.drain)
  BY <1>c DEF Tick
<1>4. \A s \in Slots : st[s] \notin {"judging", "decided"} /\ (st[s] \in {"lookup", "reading"} => wait[s] > 0)
  BY <1>1 DEF Idle
<1>5. ASSUME phase = "draining"
      PROVE  timer.drain > 0 /\ \E s \in Slots : st[s] \in {"lookup", "reading"}
  <2>1. timer.drain > 0 /\ ~Quiet
    BY <1>1, <1>5 DEF Idle
  <2>2. ~(probes > 0)
    BY <1>1, <1>5 DEF Idle, CanOffer
  <2>3. probes = 0
    <3>1. probes \in 0..MaxProbes
      BY DEF TypeOK
    <3> QED BY <2>2, <3>1, Numbers
  <2>4. \E s \in Slots : st[s] # "idle"
    BY <2>1, <2>3 DEF Quiet, Busy
  <2> QED BY <1>4, <1>c, <2>1, <2>4
<1>6. ASSUME phase = "draining", NEW s \in Slots, st[s] \in {"lookup", "reading"}, used[s] <= 1
      PROVE  /\ wait'[s] + ShutdownTimeout <= timer'.drain + LookupTimeout
             /\ ~(timer'.drain + LookupTimeout < ShutdownTimeout)
  <2>1. wait[s] + ShutdownTimeout <= timer.drain + LookupTimeout
    BY <1>6 DEF InTime
  <2>2. wait[s] > 0 /\ timer.drain > 0
    BY <1>4, <1>5, <1>6
  <2>3. wait'[s] = wait[s] - 1 /\ timer'.drain = timer.drain - 1
    BY <1>2, <1>3, <2>2 DEF Decrease
  <2> QED BY <1>c, <2>1, <2>2, <2>3, Numbers
<1>7. ASSUME phase = "draining", timer'.drain + LookupTimeout < ShutdownTimeout
      PROVE  \E s \in Slots : used[s] >= 2
  <2>1. PICK s \in Slots : st[s] \in {"lookup", "reading"}
    BY <1>5, <1>7
  <2>2. ~(used[s] <= 1)
    BY <1>6, <1>7, <2>1
  <2> QED BY <1>c, <2>2
<1>8. \A s \in Slots : st[s] \in {"lookup", "reading"} => used[s] >= 1
  BY DEF InTime
<1> QED BY <1>1, <1>4, <1>6, <1>7, <1>8 DEF InTime

\* Shutdown starts with all its time, and every lookup has at most its own.
LEMMA InTimeDrain ==
  ASSUME TypeOK, InTime, Drain
  PROVE  InTime'
<1>1. timer'.drain = ShutdownTimeout
  BY DEF Drain, TypeOK
<1>2. UNCHANGED <<st, used, wait>>
  BY DEF Drain, handlers
<1>3. ASSUME NEW s \in Slots PROVE wait[s] + ShutdownTimeout <= ShutdownTimeout + LookupTimeout
  <2>1. wait[s] \in Nat /\ wait[s] <= LookupTimeout
    BY Clocks
  <2> QED BY <2>1, Numbers
<1>4. ~(ShutdownTimeout + LookupTimeout < ShutdownTimeout)
  BY Numbers
<1>5. \A s \in Slots : st[s] \in {"lookup", "reading"} => used[s] >= 1
  BY DEF InTime
<1> QED BY <1>1, <1>2, <1>3, <1>4, <1>5 DEF InTime

\* Every step keeps InTime.
LEMMA InTimeNext == TypeOK /\ IInv /\ Asks /\ InTime /\ [Next]_vars => InTime'
<1> SUFFICES ASSUME TypeOK, IInv, Asks, InTime, [Next]_vars PROVE InTime'
  OBVIOUS
<1>1. ASSUME NEW s \in Slots, NEW t \in Slots, Accept(s) \/ Callback(s, t) \/ Handle(s) PROVE InTime'
  BY <1>1, InTimeHandler
<1>2. CASE Tick
  BY <1>2, InTimeTick
<1>3. CASE Drain
  BY <1>3, InTimeDrain
<1>4. ASSUME UNCHANGED <<st, used, wait>>, phase' # "draining" PROVE InTime'
  BY <1>4 DEF InTime
<1>5. ASSUME UNCHANGED <<st, used, wait, phase, timer>> PROVE InTime'
  BY <1>5 DEF InTime
<1>6. CASE Signal \/ HelperMoves \/ UNCHANGED vars
  BY <1>5, <1>6 DEF Signal, HelperMoves, handlers, vars, loop
<1>7. CASE ServeReady
  BY <1>4, <1>5, <1>7 DEF ServeReady, handlers
<1>8. CASE HelperEnds \/ SignalInLoop \/ StartupTimesOut \/ DrainTimesOut \/ Closed
  BY <1>4, <1>8 DEF HelperEnds, SignalInLoop, StartupTimesOut, DrainTimesOut, Closed, Return, handlers
<1>9. CASE Probe \/ ProbeFails \/ Receive \/ Drained \/ Flush \/ Exit
  BY <1>4, <1>9 DEF Probe, ProbeFails, Receive, Drained, Flush, Exit, handlers
<1> QED BY <1>1, <1>2, <1>3, <1>6, <1>7, <1>8, <1>9 DEF Next, Loop

\* A lookup is over before Shutdown gives up.
LEMMA LookupShorter == 0 + LookupTimeout < ShutdownTimeout
  BY TimesAssumption

\* Only DrainTimesOut gives up on Shutdown, and by then some slot has come to its second
\* lookup.
LEMMA OnlyTwoLookups ==
  ASSUME TypeOK, InTime, [Next]_vars, result # "shutdown timed out", result' = "shutdown timed out"
  PROVE  \E s \in Slots : used[s] >= 2
<1>1. DrainTimesOut
  <2>1. \A s, t \in Slots : Accept(s) \/ Callback(s, t) \/ Handle(s) => result' = result
    BY DEF Accept, Callback, Handle, BeginLookup, EndLookup, Decide, Answer, loop
  <2>2. Signal \/ HelperMoves \/ Tick \/ ServeReady \/ UNCHANGED vars => result' = result
    BY DEF Signal, HelperMoves, Tick, ServeReady, vars, loop
  <2>3. Probe \/ ProbeFails \/ Receive \/ Drain \/ Drained \/ Flush \/ Exit => result' = result
    BY DEF Probe, ProbeFails, Receive, Drain, Drained, Flush, Exit
  <2>4. HelperEnds \/ SignalInLoop \/ StartupTimesOut \/ Closed => result' \in {"nil", "error", "startup timed out"}
    BY DEF HelperEnds, SignalInLoop, StartupTimesOut, Closed, Return
  <2> QED BY <2>1, <2>2, <2>3, <2>4 DEF Next, Loop
<1>2. phase = "draining" /\ timer.drain = 0
  BY <1>1 DEF DrainTimesOut
<1>3. timer.drain + LookupTimeout < ShutdownTimeout
  BY <1>2, LookupShorter, Zenon
<1> QED BY <1>2, <1>3 DEF InTime

\* Shutdown's ten seconds run out only for a request that has begun a second lookup: neither
\* the callbacks that the closed listener cuts off nor forgotten readiness requests make
\* it fail, whatever the number of requests and whenever the signal comes (ServeUnix,
\* Inspect's LookupTimeout).
THEOREM DrainsInTime == Spec => DrainInTime
<1>1. Init => Asks /\ InTime
  BY DEF Init, Asks, InTime
<1>2. TypeOK /\ InTime /\ [Next]_vars =>
        [result # "shutdown timed out" /\ result' = "shutdown timed out" => \E s \in Slots : used[s] >= 2]_vars
  BY OnlyTwoLookups
<1> QED
  BY <1>1, <1>2, TypedInit, TypedNext, ServerInit, ServerNext, AsksNext, InTimeNext, PTL DEF Spec, DrainInTime
=============================================================================
