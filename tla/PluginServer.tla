---------------------------- MODULE PluginServer ----------------------------
(***************************************************************************)
(* The life of the serving process: transport.ServeUnix from the start of  *)
(* the helper's HTTP server, whose handle it gets by a readiness request   *)
(* to itself, to the drained server; the handlers of Docker's callbacks,   *)
(* with the lookups they make; telemetry shut down last, by run; and a     *)
(* signal that may come at any moment.                                     *)
(*                                                                         *)
(* phase is where ServeUnix, then run, is:                                 *)
(*   starting, probing  - in the loop; waiting there for the answer to the *)
(*                        readiness request                                *)
(*   serving            - in the final select                              *)
(*   draining, waiting  - in Shutdown; receiving from done                 *)
(*   returned, flushed, exited - run shuts telemetry down and returns.     *)
(* Time passes by Tick, in units all timeouts are multiples of; what is    *)
(* only computed takes none.                                               *)
(***************************************************************************)
EXTENDS Naturals

CONSTANTS
  Slots,           \* Docker's callbacks in progress at the same time
  MaxLookups,      \* bound: lookups one request may need; the code has up to four
  MaxRequests,     \* bound: requests that Docker sends
  MaxProbes,       \* bound: readiness requests in progress
  StartupTimeout, ProbeTimeout, LookupTimeout, ShutdownTimeout

\* A lookup has five seconds, Shutdown has ten.
ASSUME TimesAssumption ==
  /\ {MaxLookups, MaxRequests, MaxProbes} \subseteq Nat
  /\ {StartupTimeout, ProbeTimeout, LookupTimeout, ShutdownTimeout} \subseteq Nat
  /\ LookupTimeout < ShutdownTimeout

VARIABLES
  phase,     \* see above
  server,    \* whether ServeUnix has the handle of the HTTP server
  result,    \* what ServeUnix has returned: nil, or why it gave up
  helper,    \* the helper: setup, open; failed and closed mean that done is filled
  ready,     \* whether the channel ready is filled
  signalled, \* whether ctx is done
  timer,     \* what is left of the time for startup, probe or drain
  st,        \* per slot: idle, judging, lookup, reading, decided
  left,      \* per slot: lookups its request may still need
  used,      \* per slot: lookups its last request has begun
  wait,      \* per slot: time left for the lookup in progress
  probes,    \* handlers of readiness requests in progress
  asking,    \* <<s, t>>: slot t has the plugin's own inspect for the lookup of slot s
  accepted,  \* number of requests so far
  unsaved    \* whether a decision is recorded that telemetry has not been made to export

loop     == <<phase, server, result, helper, ready, signalled>>
handlers == <<st, left, used, wait, asking, accepted, unsaved>>
vars     == <<loop, timer, handlers, probes>>

Phases == {"starting", "probing", "serving", "draining", "waiting", "returned", "flushed", "exited"}

\* The timers run for no longer than their timeouts, and no slot begins more lookups than
\* its request needs (ServeUnix, Evaluate).
TypeOK ==
  /\ phase \in Phases
  /\ server \in BOOLEAN /\ ready \in BOOLEAN /\ signalled \in BOOLEAN
  /\ result \in {"none", "nil", "error", "startup timed out", "shutdown timed out"}
  /\ helper \in {"setup", "open", "failed", "closed"}
  /\ timer \in [startup : 0..StartupTimeout, probe : 0..ProbeTimeout, drain : 0..ShutdownTimeout]
  /\ st \in [Slots -> {"idle", "judging", "lookup", "reading", "decided"}]
  /\ left \in [Slots -> 0..MaxLookups] /\ used \in [Slots -> 0..MaxLookups]
  /\ \A s \in Slots : left[s] + used[s] <= MaxLookups
  /\ wait \in [Slots -> 0..LookupTimeout]
  /\ probes \in 0..MaxProbes
  /\ asking \subseteq Slots \X Slots /\ accepted \in 0..MaxRequests /\ unsaved \in BOOLEAN

Init ==
  /\ phase = "starting" /\ server = FALSE /\ result = "none"
  /\ helper = "setup" /\ ready = FALSE /\ signalled = FALSE
  /\ timer = [startup |-> StartupTimeout, probe |-> 0, drain |-> 0]
  /\ st = [s \in Slots |-> "idle"]
  /\ left = [s \in Slots |-> 0] /\ used = [s \in Slots |-> 0] /\ wait = [s \in Slots |-> 0]
  /\ probes = 0 /\ asking = {} /\ accepted = 0 /\ unsaved = FALSE

Busy(s) == st[s] # "idle"
Done    == helper \in {"failed", "closed"}
Alive   == phase # "exited"

-----------------------------------------------------------------------------
(* Surroundings *)

\* SIGTERM or SIGINT, for which NotifyContext cancels ctx.
Signal ==
  /\ Alive /\ ~signalled
  /\ signalled' = TRUE
  /\ UNCHANGED <<phase, server, result, helper, ready, timer, handlers, probes>>

\* The helper creates the socket and serves, cannot, or fails later on.
HelperMoves ==
  /\ Alive
  /\ \/ helper = "setup" /\ helper' \in {"open", "failed"}
     \/ helper = "open" /\ helper' = "failed"
  /\ UNCHANGED <<phase, server, result, ready, signalled, timer, handlers, probes>>

\* Mutated form: the send to ready has no default.
CanOfferBlocking == ~ready

\* The select around the send to ready has a default: it never waits.
CanOffer == TRUE

Quiet == probes = 0 /\ \A s \in Slots : ~Busy(s)

\* Nobody has something to do at this moment: handlers wait for the daemon, ServeUnix for
\* an event.  Only the answer to a readiness request may be late while ServeUnix waits
\* for it.
Idle ==
  /\ \A s \in Slots : st[s] \in {"lookup", "reading"} => wait[s] > 0
  /\ \A s \in Slots : st[s] \notin {"judging", "decided"}
  /\ phase = "starting" => timer.startup > 0 /\ ~signalled /\ ~ready /\ ~Done
  /\ phase = "probing"  => timer.probe > 0 /\ ~signalled
  /\ phase = "serving"  => ~signalled /\ ~Done
  /\ phase = "draining" => timer.drain > 0 /\ ~Quiet
  /\ probes > 0 => phase = "probing" \/ ~CanOffer

Decrease(n) == IF n > 0 THEN n - 1 ELSE 0

Tick ==
  /\ Alive /\ Idle
  /\ timer' = [clock \in DOMAIN timer |-> Decrease(timer[clock])]
  /\ wait' = [s \in Slots |-> Decrease(wait[s])]
  /\ UNCHANGED <<loop, st, left, used, asking, accepted, unsaved, probes>>

-----------------------------------------------------------------------------
(* Handlers.  They run on goroutines of their own until the process exits.   *)

\* A request of Docker's arrives while the listener is open: a client's, or the plugin's own
\* inspect when its lookup has been given up before the daemon asks.
Accept(s) ==
  /\ Alive /\ helper = "open" /\ accepted < MaxRequests
  /\ ~Busy(s)
  /\ st' = [st EXCEPT ![s] = "judging"]
  /\ \E n \in 0..MaxLookups : left' = [left EXCEPT ![s] = n]
  /\ used' = [used EXCEPT ![s] = 0]
  /\ accepted' = accepted + 1
  /\ UNCHANGED <<loop, timer, wait, asking, unsaved, probes>>

\* Mutated form: the permission whose lookup failed is tried again.
NeededAfterRetry(n) == n

\* No permission is tried twice.
NeededAfter(n) == n - 1

\* Evaluate comes to a permission with a constraint on the object.
BeginLookup(s) ==
  /\ Alive /\ st[s] = "judging" /\ left[s] > 0
  /\ st' = [st EXCEPT ![s] = "lookup"]
  /\ left' = [left EXCEPT ![s] = NeededAfter(@)]
  /\ used' = [used EXCEPT ![s] = @ + 1]
  /\ wait' = [wait EXCEPT ![s] = LookupTimeout]
  /\ UNCHANGED <<loop, timer, asking, accepted, unsaved, probes>>

\* The daemon asks the plugin about the lookup, on a connection of its own: with the
\* listener closed it cannot.  The inspect is a request like any other, but needs no lookup.
Callback(s, t) ==
  /\ Alive /\ st[s] = "lookup" /\ helper = "open"
  /\ ~Busy(t) /\ \A u \in Slots : <<s, u>> \notin asking
  /\ st' = [st EXCEPT ![t] = "judging"]
  /\ left' = [left EXCEPT ![t] = 0]
  /\ used' = [used EXCEPT ![t] = 0]
  /\ asking' = asking \cup {<<s, t>>}
  /\ UNCHANGED <<loop, timer, wait, accepted, unsaved, probes>>

\* The lookup ends, with the daemon's answer if it has the plugin's consent, by an error
\* of the daemon or by the timeout; the request may then be decided.  A handler that is
\* still at the plugin's own inspect knows nothing of that.
EndLookup(s) ==
  /\ Alive /\ st[s] \in {"lookup", "reading"}
  /\ st' = [st EXCEPT ![s] = "judging"]
  /\ wait' = [wait EXCEPT ![s] = 0]
  /\ \/ UNCHANGED left
     \/ st[s] = "reading" /\ left' = [left EXCEPT ![s] = 0]
  /\ asking' = {pair \in asking : pair[1] # s}
  /\ UNCHANGED <<loop, timer, used, accepted, unsaved, probes>>

\* Authorize decides; its deferred function records the decision.
Decide(s) ==
  /\ Alive /\ st[s] = "judging" /\ left[s] = 0
  /\ st' = [st EXCEPT ![s] = "decided"]
  /\ unsaved' = TRUE
  /\ UNCHANGED <<loop, timer, left, used, wait, asking, accepted, probes>>

\* ServeHTTP writes the response; with the plugin's consent the daemon goes on to read.
Answer(s) ==
  /\ Alive /\ st[s] = "decided"
  /\ st' = [t \in Slots |-> IF t = s THEN "idle" ELSE IF <<t, s>> \in asking THEN "reading" ELSE st[t]]
  /\ asking' = {pair \in asking : pair[2] # s}
  /\ UNCHANGED <<loop, timer, left, used, wait, accepted, unsaved, probes>>

Handle(s) == BeginLookup(s) \/ EndLookup(s) \/ Decide(s) \/ Answer(s)

\* A readiness request is answered, the one ServeUnix waits for or one it has given up.
ServeReady ==
  /\ Alive /\ probes > 0 /\ CanOffer
  /\ probes' = probes - 1
  /\ ready' = TRUE
  /\ \/ phase = "probing" /\ phase' = "starting"
     \/ (probes > 1 \/ phase # "probing") /\ UNCHANGED phase
  /\ UNCHANGED <<server, result, helper, signalled, timer, handlers>>

-----------------------------------------------------------------------------
(* ServeUnix *)

Return(why) == phase' = "returned" /\ result' = why

\* done, in the loop and in the final select.
HelperEnds ==
  /\ phase \in {"starting", "serving"} /\ Done
  /\ Return("error")
  /\ UNCHANGED <<server, helper, ready, signalled, timer, handlers, probes>>

\* ctx.Done in the loop.
SignalInLoop ==
  /\ phase = "starting" /\ signalled
  /\ Return("nil")
  /\ UNCHANGED <<server, helper, ready, signalled, timer, handlers, probes>>

\* Mutated form: the deadline is for a socket that is there.
StartupTimesOutOnceOpen ==
  /\ phase = "starting" /\ timer.startup = 0 /\ helper = "open"
  /\ Return("startup timed out")
  /\ UNCHANGED <<server, helper, ready, signalled, timer, handlers, probes>>

StartupTimesOut ==
  /\ phase = "starting" /\ timer.startup = 0
  /\ Return("startup timed out")
  /\ UNCHANGED <<server, helper, ready, signalled, timer, handlers, probes>>

\* tick: the readiness request is sent, if there is a socket to send it to.
Probe ==
  /\ phase = "starting" /\ helper = "open" /\ probes < MaxProbes
  /\ phase' = "probing"
  /\ probes' = probes + 1
  /\ timer' = [timer EXCEPT !.probe = ProbeTimeout]
  /\ UNCHANGED <<server, result, helper, ready, signalled, handlers>>

\* It times out, or ctx is cancelled; its handler knows nothing of that.
ProbeFails ==
  /\ phase = "probing" /\ (timer.probe = 0 \/ signalled)
  /\ phase' = "starting"
  /\ UNCHANGED <<server, result, helper, ready, signalled, timer, handlers, probes>>

\* The loop ends with the server's handle; nobody waits for its timers any more.
Receive ==
  /\ phase = "starting" /\ ready
  /\ ready' = FALSE
  /\ server' = TRUE
  /\ phase' = "serving"
  /\ timer' = [timer EXCEPT !.startup = 0, !.probe = 0]
  /\ UNCHANGED <<result, helper, signalled, handlers, probes>>

\* Mutated forms: done is received from before Shutdown is called; the listener is closed
\* and nothing waited for.
DrainAfterDone ==
  /\ phase = "serving" /\ signalled
  /\ phase' = "waiting"
  /\ UNCHANGED <<server, result, helper, ready, signalled, timer, handlers, probes>>
DrainNothing ==
  /\ phase = "serving" /\ signalled
  /\ phase' = "waiting"
  /\ helper' = IF helper = "open" THEN "closed" ELSE helper
  /\ UNCHANGED <<server, result, ready, signalled, timer, handlers, probes>>

\* ctx.Done in the final select: Shutdown closes the listener, and the helper returns.
Drain ==
  /\ phase = "serving" /\ signalled
  /\ phase' = "draining"
  /\ helper' = IF helper = "open" THEN "closed" ELSE helper
  /\ timer' = [timer EXCEPT !.drain = ShutdownTimeout]
  /\ UNCHANGED <<server, result, ready, signalled, handlers, probes>>

\* Shutdown finds no connection active.
Drained ==
  /\ phase = "draining" /\ Quiet
  /\ phase' = "waiting"
  /\ UNCHANGED <<server, result, helper, ready, signalled, timer, handlers, probes>>

DrainTimesOut ==
  /\ phase = "draining" /\ timer.drain = 0
  /\ Return("shutdown timed out")
  /\ UNCHANGED <<server, helper, ready, signalled, timer, handlers, probes>>

\* done once more: ErrServerClosed becomes nil.
Closed ==
  /\ phase = "waiting" /\ Done
  /\ Return(IF helper = "closed" THEN "nil" ELSE "error")
  /\ UNCHANGED <<server, helper, ready, signalled, timer, handlers, probes>>

-----------------------------------------------------------------------------
(* run *)

\* The deferred Shutdown of telemetry exports what has been recorded.
Flush ==
  /\ phase = "returned"
  /\ phase' = "flushed"
  /\ unsaved' = FALSE
  /\ UNCHANGED <<server, result, helper, ready, signalled, timer, st, left, used, wait, asking, accepted, probes>>

\* main returns or calls Exit: all goroutines end.
Exit ==
  /\ phase = "flushed"
  /\ phase' = "exited"
  /\ UNCHANGED <<server, result, helper, ready, signalled, timer, handlers, probes>>

Loop == HelperEnds \/ Probe \/ ProbeFails \/ Receive \/ Drain \/ Drained \/ DrainTimesOut \/ Closed \/ Flush \/ Exit

Next ==
  \/ Signal \/ HelperMoves \/ Tick \/ ServeReady \/ Loop \/ SignalInLoop \/ StartupTimesOut
  \/ \E s \in Slots : Accept(s) \/ Handle(s) \/ \E t \in Slots : Callback(s, t)

\* Goroutines are scheduled and time passes; nothing is assumed of Docker, of the helper's
\* start and of the signal.  select chooses at random among what is ready: a case that is
\* ready again and again is chosen in the end.
Fairness ==
  /\ WF_vars(Tick) /\ WF_vars(ServeReady) /\ WF_vars(Loop)
  /\ SF_vars(Receive) /\ SF_vars(SignalInLoop) /\ SF_vars(StartupTimesOut)
  /\ \A s \in Slots : WF_vars(Handle(s))

Spec == Init /\ [][Next]_vars /\ Fairness

-----------------------------------------------------------------------------

\* When ServeUnix ends in good order after it had the server's handle, every request that
\* was accepted has been answered and its decision exported, the plugin's own inspects
\* included: nothing is recorded after telemetry is shut down (the order of Shutdown, <-done
\* and the deferred tel.Shutdown).
DrainedBeforeFlush ==
  server /\ result = "nil" /\ phase \in {"flushed", "exited"} =>
    ~unsaved /\ \A s \in Slots : ~Busy(s)

\* Draining does not fail for want of the callbacks that a closed listener cuts off, nor for
\* a readiness request nobody reads the channel for: only a request that came to its second
\* lookup can last for the ten seconds (LookupTimeout against serveShutdownTimout; the
\* default in ServeHTTP's select).
DrainInTime ==
  [][result # "shutdown timed out" /\ result' = "shutdown timed out" =>
       \E s \in Slots : used[s] >= 2]_vars

\* A signal ends the process, wherever ServeUnix is and whatever the handlers wait for.
SignalEndsProcess == signalled ~> phase = "exited"

\* The loop comes to an end, even if the helper never gets its socket (startupTimeout).
StartupEnds == <>(phase \notin {"starting", "probing"})

\* What ServeUnix's comment and docs/telemetry.md say of a signal: active requests are
\* drained before telemetry is flushed.  Not so while the loop has no handle yet.
SignalDrains ==
  result = "nil" /\ phase = "exited" => ~unsaved /\ \A s \in Slots : ~Busy(s)
=============================================================================
