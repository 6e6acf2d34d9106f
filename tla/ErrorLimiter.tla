---------------------------- MODULE ErrorLimiter ----------------------------
(***************************************************************************)
(* The error handler that telemetry.Setup installs: exporters report their *)
(* errors to it from goroutines of their own, and it logs at most one line *)
(* per interval.  It reads the clock, loads last, and swaps last; any      *)
(* number of other handlers may run in between, and the wall clock may be  *)
(* set back.                                                               *)
(***************************************************************************)
EXTENDS Integers, Sequences, FiniteSets

CONSTANTS
  Handlers, \* goroutines that may report an error at the same time
  Interval, \* otelErrorLogInterval
  MaxClock  \* bound: the clock stops here

ASSUME LimiterAssumption == Interval \in Nat \ {0} /\ MaxClock \in Nat

VARIABLES
  clock,         \* the wall clock, in seconds
  last,          \* the atomic variable
  pc,            \* per handler: idle, load, swap, log
  now, previous, \* per handler: its local variables
  log            \* the lines written, each the value of now it stands for

vars == <<clock, last, pc, now, previous, log>>

\* A handler's clock reading and what it loaded are times (otel.SetErrorHandler).
TypeOK ==
  /\ clock \in Nat
  /\ last \in Nat
  /\ pc \in [Handlers -> {"idle", "load", "swap", "log"}]
  /\ now \in [Handlers -> Nat]
  /\ previous \in [Handlers -> Nat]
  /\ log \in Seq(Nat)

\* Unix time is further from 0 than the interval.
Init ==
  /\ clock = Interval
  /\ last = 0
  /\ pc = [h \in Handlers |-> "idle"]
  /\ now = [h \in Handlers |-> 0]
  /\ previous = [h \in Handlers |-> 0]
  /\ log = <<>>

Tick ==
  /\ clock < MaxClock
  /\ clock' = clock + 1
  /\ UNCHANGED <<last, pc, now, previous, log>>

SetBack ==
  /\ clock' \in Interval..(clock - 1)
  /\ UNCHANGED <<last, pc, now, previous, log>>

\* An exporter fails, and the handler reads the clock.
Report(h) ==
  /\ pc[h] = "idle"
  /\ pc' = [pc EXCEPT ![h] = "load"]
  /\ now' = [now EXCEPT ![h] = clock]
  /\ UNCHANGED <<clock, last, previous, log>>

\* Mutated form: only an error in the very second is reported.
DueExactly(h) == now[h] - last = Interval

Due(h) == now[h] - last >= Interval

\* The handler returns.
Return(h) ==
  /\ pc' = [pc EXCEPT ![h] = "idle"]
  /\ now' = [now EXCEPT ![h] = 0]
  /\ previous' = [previous EXCEPT ![h] = 0]

\* It loads last and compares.
Load(h) ==
  /\ pc[h] = "load"
  /\ \/ /\ Due(h)
        /\ pc' = [pc EXCEPT ![h] = "swap"]
        /\ previous' = [previous EXCEPT ![h] = last]
        /\ UNCHANGED now
     \/ ~Due(h) /\ Return(h)
  /\ UNCHANGED <<clock, last, log>>

\* Mutated form: last is stored, whatever it has become.
SwapsAlways(h) == TRUE

Swaps(h) == last = previous[h]

\* CompareAndSwap.
CompareAndSwap(h) ==
  /\ pc[h] = "swap"
  /\ \/ /\ Swaps(h)
        /\ last' = now[h]
        /\ pc' = [pc EXCEPT ![h] = "log"]
        /\ UNCHANGED <<now, previous>>
     \/ ~Swaps(h) /\ Return(h) /\ UNCHANGED last
  /\ UNCHANGED <<clock, log>>

\* The line is written.
Write(h) ==
  /\ pc[h] = "log"
  /\ log' = Append(log, now[h])
  /\ Return(h)
  /\ UNCHANGED <<clock, last>>

Step(h) == Load(h) \/ CompareAndSwap(h) \/ Write(h)

Next == Tick \/ SetBack \/ \E h \in Handlers : Report(h) \/ Step(h)

\* A goroutine that has called the handler runs on.
Spec == Init /\ [][Next]_vars /\ \A h \in Handlers : WF_vars(Step(h))

-----------------------------------------------------------------------------

Apart(t, u) == t - u >= Interval \/ u - t >= Interval

\* However handlers interleave and whatever the clock does, no two lines stand for errors
\* less than an interval apart (the Load and CompareAndSwap in Setup; docs/telemetry.md:
\* "at most once per minute per process").
LinesApart ==
  \A j, k \in 1..Len(log) : j # k => Apart(log[j], log[k])

Writing == {h \in Handlers : pc[h] = "log"}

\* Handlers that race do not silence one another: where an error is due when its handler
\* looks at last, a further line is written, by this handler or by the one that beat it.
DueErrorReported ==
  \A h \in Handlers : \A n \in 0..MaxClock :
    pc[h] = "load" /\ now[h] - last >= Interval /\ Len(log) + Cardinality(Writing) = n
      ~> Len(log) > n
=============================================================================
