---------------------------- MODULE LimiterProofs ----------------------------
(***************************************************************************)
(* The rate limit of the error handler for any number of handlers, any     *)
(* interval and a clock that may be set back at will.                      *)
(***************************************************************************)
EXTENDS ErrorLimiter, TLAPS

\* A line that is written, or that a handler has won the right to write, is no younger
\* than last; and a handler about to swap has seen a last that its reading is due after.
Bounds ==
  /\ \A j \in 1..Len(log) : log[j] <= last
  /\ \A h \in Handlers : pc[h] = "log" => now[h] <= last
  /\ \A h \in Handlers : pc[h] = "swap" => now[h] - previous[h] >= Interval

\* Lines still to be written count like those that are.
PendingApart ==
  /\ \A j \in 1..Len(log) : \A h \in Handlers : pc[h] = "log" => Apart(log[j], now[h])
  /\ \A g, h \in Handlers : g # h /\ pc[g] = "log" /\ pc[h] = "log" => Apart(now[g], now[h])

IInv == TypeOK /\ Bounds /\ LinesApart /\ PendingApart

LEMMA InitIInv == Init => IInv
  BY LimiterAssumption DEF Init, IInv, TypeOK, Bounds, LinesApart, PendingApart

\* A handler that returns without having written leaves the invariant alone.
LEMMA ReturnIInv ==
  ASSUME IInv, NEW h \in Handlers, Return(h), UNCHANGED <<last, log>>, clock' = clock
  PROVE  IInv'
  BY LimiterAssumption DEF IInv, TypeOK, Bounds, LinesApart, PendingApart, Return

LEMMA WriteIInv == ASSUME IInv, NEW h \in Handlers, Write(h) PROVE IInv'
<1>1. TypeOK'
  BY LimiterAssumption DEF IInv, TypeOK, Write, Return
<1>2. /\ Len(log') = Len(log) + 1
      /\ \A j \in 1..Len(log) : log'[j] = log[j]
      /\ log'[Len(log) + 1] = now[h]
  BY DEF IInv, TypeOK, Write, Return
<1>3. /\ last' = last /\ pc[h] = "log"
      /\ \A g \in Handlers : pc'[g] = "log" => g # h /\ pc[g] = "log" /\ now'[g] = now[g]
      /\ \A g \in Handlers : pc'[g] = "swap" =>
           pc[g] = "swap" /\ now'[g] = now[g] /\ previous'[g] = previous[g]
  BY DEF IInv, TypeOK, Write, Return
<1>4. \A j \in 1..Len(log') : j \in 1..Len(log) \/ j = Len(log) + 1
  BY <1>2 DEF IInv, TypeOK
<1>5. Bounds'
  BY <1>2, <1>3, <1>4 DEF IInv, Bounds
<1>6. \A t, u \in Nat : Apart(t, u) = Apart(u, t)
  BY LimiterAssumption DEF Apart
<1>7. LinesApart'
  <2> SUFFICES ASSUME NEW j \in 1..Len(log'), NEW k \in 1..Len(log'), j # k
               PROVE  Apart(log'[j], log'[k])
    BY DEF LinesApart, Apart
  <2>1. CASE j \in 1..Len(log) /\ k \in 1..Len(log)
    BY <1>2, <2>1 DEF IInv, LinesApart
  <2>2. CASE j \in 1..Len(log) /\ k = Len(log) + 1
    BY <1>2, <1>3, <2>2 DEF IInv, PendingApart
  <2>3. CASE j = Len(log) + 1 /\ k \in 1..Len(log)
    <3>1. Apart(log[k], now[h]) /\ log[k] \in Nat /\ now[h] \in Nat
      BY <1>3, <2>3 DEF IInv, PendingApart, TypeOK
    <3> QED BY <1>2, <1>6, <2>3, <3>1
  <2> QED BY <1>4, <2>1, <2>2, <2>3
<1>8. PendingApart'
  <2>1. ASSUME NEW j \in 1..Len(log'), NEW g \in Handlers, pc'[g] = "log"
        PROVE  Apart(log'[j], now'[g])
    BY <1>2, <1>3, <1>4, <2>1 DEF IInv, PendingApart
  <2>2. ASSUME NEW f \in Handlers, NEW g \in Handlers, f # g, pc'[f] = "log", pc'[g] = "log"
        PROVE  Apart(now'[f], now'[g])
    BY <1>3, <2>2 DEF IInv, PendingApart
  <2> QED BY <2>1, <2>2 DEF PendingApart, Apart
<1> QED BY <1>1, <1>5, <1>7, <1>8 DEF IInv

\* The swap: last has not moved since it was loaded, and everything is bounded by it.
LEMMA SwapIInv == ASSUME IInv, NEW h \in Handlers, CompareAndSwap(h) PROVE IInv'
<1>1. CASE ~Swaps(h)
  BY <1>1, ReturnIInv DEF CompareAndSwap
<1>2. CASE Swaps(h)
  <2>1. /\ pc[h] = "swap" /\ last = previous[h] /\ last' = now[h]
        /\ pc' = [pc EXCEPT ![h] = "log"]
        /\ UNCHANGED <<now, previous, clock, log>>
    BY <1>2 DEF CompareAndSwap, Swaps
  <2>2. now[h] >= last + Interval /\ now[h] \in Nat /\ last \in Nat
    BY <2>1, LimiterAssumption DEF IInv, TypeOK, Bounds
  <2>3. TypeOK'
    BY <2>1, <2>2 DEF IInv, TypeOK
  <2>4. Bounds'
    BY <2>1, <2>2, LimiterAssumption DEF IInv, TypeOK, Bounds
  <2>5. LinesApart'
    BY <2>1 DEF IInv, LinesApart, Apart
  <2>6. \A t \in Nat : t <= last => Apart(t, now[h]) /\ Apart(now[h], t)
    BY <2>2, LimiterAssumption DEF Apart
  <2>7. \A g \in Handlers : pc'[g] = "log" => g = h \/ pc[g] = "log"
    BY <2>1 DEF IInv, TypeOK
  <2>8. ASSUME NEW j \in 1..Len(log), NEW g \in Handlers, pc'[g] = "log"
        PROVE  Apart(log[j], now[g])
    BY <2>6, <2>7, <2>8 DEF IInv, TypeOK, Bounds, PendingApart
  <2>9. ASSUME NEW f \in Handlers, NEW g \in Handlers, f # g, pc'[f] = "log", pc'[g] = "log"
        PROVE  Apart(now[f], now[g])
    BY <2>6, <2>7, <2>9 DEF IInv, TypeOK, Bounds, PendingApart
  <2>10. PendingApart'
    BY <2>1, <2>8, <2>9 DEF PendingApart, Apart
  <2> QED BY <2>3, <2>4, <2>5, <2>10 DEF IInv
<1> QED BY <1>1, <1>2

LEMMA NextIInv == IInv /\ [Next]_vars => IInv'
<1> SUFFICES ASSUME IInv, [Next]_vars PROVE IInv'
  OBVIOUS
<1>1. CASE UNCHANGED vars
  BY <1>1 DEF vars, IInv, TypeOK, Bounds, LinesApart, PendingApart, Apart
<1>2. CASE Tick \/ SetBack
  <2>1. clock' \in Nat
    BY <1>2, LimiterAssumption DEF Tick, SetBack, IInv, TypeOK
  <2>2. UNCHANGED <<last, pc, now, previous, log>>
    BY <1>2 DEF Tick, SetBack
  <2> QED BY <2>1, <2>2 DEF IInv, TypeOK, Bounds, LinesApart, PendingApart, Apart
<1>3. ASSUME NEW h \in Handlers, Report(h) PROVE IInv'
  BY <1>3 DEF Report, IInv, TypeOK, Bounds, LinesApart, PendingApart, Apart
<1>4. ASSUME NEW h \in Handlers, Load(h) PROVE IInv'
  <2>1. CASE ~Due(h)
    BY <1>4, <2>1, ReturnIInv DEF Load
  <2>2. CASE Due(h)
    BY <1>4, <2>2, LimiterAssumption
       DEF Load, Due, IInv, TypeOK, Bounds, LinesApart, PendingApart, Apart
  <2> QED BY <2>1, <2>2
<1> QED BY <1>1, <1>2, <1>3, <1>4, SwapIInv, WriteIInv DEF Next, Step

\* No two lines of the error handler stand for errors less than an interval apart, for any
\* number of racing handlers and any behaviour of the clock (otel.SetErrorHandler in Setup).
THEOREM RateLimited == Spec => []LinesApart
<1>1. IInv => LinesApart
  BY DEF IInv
<1> QED BY InitIInv, NextIInv, <1>1, PTL DEF Spec
=============================================================================
