# A TLA+ specification of dockauthz

dockauthz is an authorization plugin of the Docker daemon. Before the daemon
carries out an API request it asks the plugin; the plugin decides from the
client's certificate, the operation and a YAML policy. A permission of that
policy may be constrained by the labels of the object in question, by the labels
in the request, and by the fields of a service spec that an update changes. To
judge such a permission the plugin inspects the object through the daemon, which
in turn asks the plugin about that inspect.

The question that runs through this project is therefore: the plugin looks at
one moment, the daemon acts at another, and much happens in between. Is what the
daemon then does what the policy permits?

## The system

| Component (source) | State it keeps | Operations | Talks to | What makes it correct |
|---|---|---|---|---|
| Resolver (`internal/operation`) | none | `Resolve`, `Supports` | called by `Authorize` and by `Inspect` on its own path | one operation stands for one request; unknown is refused |
| Plugin (`internal/authz`) | `clients` by common name, set up once | `New`, `AuthZReq`/`Authorize`, `AuthZRes` | daemon (HTTP callbacks, one goroutine each), evaluator | only identified clients, by their permissions; its own inspects pass |
| Identity (`internal/identity`) | none | `CommonName` | `Authorize` | an incomplete context is never anonymous |
| Evaluator (`internal/policy`) | none | `Evaluate`, `permission`, `safeUpdate` | Docker client | one complete permission grants; its snapshot is of the object acted upon |
| Mutation (`internal/mutation`) | none | `Validate` and a generated comparison | evaluator | nothing outside the list changes |
| Docker client (`internal/dockerapi`) | token, connections | `Inspect`, `Token.Check` | daemon, over its Unix socket | ends within `LookupTimeout`; returns what the daemon has |
| Configuration (`internal/config`) | none after start | `Load`, `Parse`, `Validate` | `run`, `New` | accepted policies are unambiguous and have no dead permissions |
| Transport (`internal/transport`) | the HTTP server, a readiness channel | `ServeHTTP`, `ServeUnix` | daemon, `run` | malformed envelopes are denied; requests are drained at shutdown |
| Process (`cmd/dockauthz`) | | `run` | all | starts only with a valid policy; ends on a signal |
| Telemetry, audit (`internal/telemetry`, `internal/audit`) | exporters, counters, a rate limiter | `Setup`, `Shutdown`, `Observer`, the error handler | all | every answer of `Authorize` is on record before it is given; the error log is bounded |
| PKI (`internal/pki`, `cmd/dockauthz-cert`) | files | `Generate`, `loadCA`, `writeBundle` | file system | a bundle appears as a whole or not at all, and verifies |
| Equality generator (`internal/mutation/generate`) | function names, the text written | `equal` | Go's type checker, at build time | ends; compares everything |

What is hard here: requests are judged concurrently while other requests and
other Swarm managers change the objects; a lookup may fail or time out at any
point; names may be rebound; the daemon and the plugin call each other
recursively; a permission is judged by a snapshot that is old when the verdict
falls. Around that core: a signal may come at any moment of start, service and
shutdown; handlers race for the clock of the error log; runs of the certificate
generator share directories and may fail or be killed between any two files. `PROJECT.json` lists these hazards with their lines under "hazards".

## Modules

| Module | Stands for |
|---|---|
| `Operation` | `operation.go`; the path `Inspect` builds; `Render`, the reference that `Resolve` is compared with |
| `Policy` | `policy.go`'s `permission`, `mutation.go`, the generated comparison, `decode.go` |
| `Config` | `Config.Validate` |
| `Authz` | `Authorize` up to the call of `Evaluate`, `CommonName`, `Token.Check` |
| `DockAuthz` | plugin, evaluator and client as concurrent steps, with the daemon |
| `ReferenceMonitor` | abstract specification: every action on an object is permitted when it happens |
| `Startup` | `run` up to `ServeUnix`, `Load`, `Telemetry.Validate`, `telemetry.Setup`, `New` |
| `MutationChain` | a client's successive updates under one mutation permission |
| `Resolver` | a request and the lookup made of it |
| `Transport` | `ServeHTTP` and what `Authorize` tells metrics and audit log, with the envelopes of the plugin's own lookups |
| `PluginServer` | `ServeUnix` and the end of `run`: readiness, callbacks in flight, signal, drain, flush, exit |
| `ErrorLimiter` | the error handler that `telemetry.Setup` installs |
| `PkiBundle` | concurrent runs of `pki.Generate` with failures and kills |
| `EqualityGenerator` | `generate/main.go`: the recursion over the types and the templates |
| `GeneratedEquality` | the functions it writes at work: what a call of one gives, for TLC |
| `MC*` | instances for TLC |
| `MutationProofs`, `MutationChainProofs`, `DockAuthzProofs`, `StartupProofs`, `LimiterProofs`, `ServerProofs`, `TransportProofs`, `PkiProofs` | theorems |

`Operation`, `Policy`, `Config` and `Authz` are pure: operators that take what
the functions of the source take. They extend one another in that order, and
`DockAuthz` puts them to work.

### DockAuthz

A *slot* is a request that the daemon is handling. Its `pc` follows the code:
`authorize` (the daemon has called the plugin), `evaluate` (the loop of
`Evaluate` is at the `k`-th of the four places in which `Authorize` looks for a
permission), `lookup` (`Inspect` has sent its request), `reading` (the plugin has
allowed that request in its token branch), `answered` (`Inspect` has returned
`snap`), `allow` and `deny`. `Authorize`, `Evaluate`, `Callback`, `LookupFails`,
`Read` and `Judge` are the steps of the plugin; between any two of them other
slots and `Elsewhere` (another manager, the orchestrator) may act.

The daemon is not part of the repository. It is modelled from what the code
relies on:

- an object has an identifier that is never used again, a name that is unique
  among the existing objects of its kind, and a version, the Raft index of its
  last change, which only grows;
- a request may give the full identifier or a name; abbreviated identifiers
  behave like names. No object is named like an identifier, not even like that of an
  object that has been deleted (`DockAssumption`). Docker's identifiers are 25 random
  characters, but Docker does not itself refuse such a name, and a delete, which carries
  no version, would then meet another object than the one inspected;
- an update is refused unless its version is the current one; `rollback` puts
  the previous spec in place of the body; `registryAuthFrom=previous-spec` takes
  the credentials of the previous spec; `X-Registry-Auth` replaces them;
- it reads the body as `encoding/json` does with the same types. Whether the
  plugin's strict decoder accepts the body, or Docker has forwarded one at all,
  is a Boolean of the request;
- a client does not know the token (`RequestsAssumption`).

URIs are abstracted to whether the lexical checks pass, the path's segments and
the lists of values per query key. A spec keeps name, labels, container (or nil)
with image and secrets, replicated mode (or nil) and the other modes: global and global
job as there or not, the numbers of a replicated job as one value. Everything else is one
value, in the container, in the task and in the spec each. The functions that the
generated comparison calls for those fields are not written out; that they compare them
exactly is the subject of `EqualityGenerator`.

### ReferenceMonitor

Its variables are the objects without versions, the labels each object has ever
had, and who did what last. `MayCreate`, `MayUpdate` and `MayUse`, which
`DockAuthz` defines, say what the policy means for objects rather than requests:

- a create needs one permission whose request constraint the new labels satisfy;
- an update needs *one* permission whose selector matches the labels before, whose
  request constraint matches the labels after, and whose list names every leaf
  that changes (new credentials count as part of the image);
- a delete or an inspect needs a permission whose selector matches labels that
  the object has had at some time. More cannot be had: Docker takes no version
  there, as `docs/configuration.md` says.

`last` names the client that the authentication context speaks of, worked out by
`Principal` independently of `CommonName` and of the client table.

### Transport

A slot is one call of `ServeHTTP`. An envelope is kept as what the checks tell
apart: whether it decodes, what follows it, its method and URI, and for each peer
certificate whether it is bytes, which PEM block it holds, what follows the block
and whether it parses. `Authorize` is reduced to attribution, trace and outcome;
what `Evaluate` finds is left open, since `DockAuthz` has it. The deferred function
of `Authorize` is a list `todo` worked off call by call, so that other calls may
come between two counters. `Callback` makes the daemon post the envelope of a
lookup into another slot. A request makes as many lookups as `Evaluate` meets
permissions that need the object; the envelope of one that has timed out may still be
under way when the next is made.

`ServeHTTP` itself answers some envelopes, without calling `Authorize`: malformed and
unrouted ones and those for `AuthZRes` (`server.go:54-100`). These answers leave no audit
record and no count; `AuditedFirst` and `CountersReconcile` are about what `Authorize`
answers.

An envelope carries two traces, the one in its own HTTP headers and the one in
`RequestHeaders`, where the plugin's inspect puts that of its span. The daemon posts
the envelope of a lookup with no trace of its own or with the one that it has received
from the plugin. The history
variable `call` names a call of `ServeHTTP` by the client's envelope and by the number
of the lookup that it is for, 0 if it is that envelope itself. What is `told` to counters and audit
log, and what Docker is answered (`answers`), are sets of records that bear the name
of the call, that of its own envelope in the case of a lookup: `AuditedFirst` asks for the record of the very call that is answered, and
a counter's value is the number of records of its kind.

### PluginServer

`phase` follows `ServeUnix` (`starting`, `probing`, `serving`, `draining`,
`waiting`) and `run` (`returned`, `flushed`, `exited`). The helper's HTTP server is
external: it opens its socket, or fails, before or after. Time passes by `Tick`,
in units that all timeouts are multiples of, and only while everybody waits:
computation takes no time compared with seconds. The one exception is the answer to
a readiness request, which may come after `ServeUnix` has given it up; its handler
then still runs. `Flush` stands for a `Shutdown` of telemetry that exports what has
been recorded; that an export may fail is outside of the model.

The plugin's decision on its own inspect is a callback like any other: `Callback` gives
it a slot of its own, it is recorded, and the drain waits for it. `asking` says which
slot's lookup it belongs to; if that lookup is given up first, the callback goes on by
itself. With the two slots of the `server` run one such callback happens at a time; the
proofs have any number. `DrainInTime` says of a drain that runs out of time that some
request went into a second lookup, not that this request is still there: `Shutdown`
polls, and may find its time over just after the last request has ended.

### ErrorLimiter

Each handler reads the clock, loads `last`, and swaps it, in three steps. The clock
goes on and is set back at any time, but stays further from zero than the interval.

### PkiBundle

A run goes through `Generate` and `writeBundle` file by file: `Lstat` of every name,
reading the CA certificate, reading its key, staging, publishing by link or rename,
roll-back by name, removal of the temporary files. `Fault` counts I/O errors; `Kill`
ends a run without its deferred calls. A certificate is its key, its issuer's key,
whether it is a CA, and the time it is valid for; a file also has its mode,
whether it is complete, and, for the properties, the run that wrote it. Which DNS
names `validDNS` accepts is a set; the command line (`cli.go`) is reduced to the
options it yields. The paths of `--ca-cert` and `--ca-key` are free in the code; the
model keeps the directory of each, so that certificate and key may come from different
places.

`OthersPreserved`, `BundleVerifies` and `SomeRunSucceeds` leave out directories into which
a run with `--force` writes (`Unforced`): such a run replaces files one by one, which
`docs/certificates.md` says is no transaction. In particular, when a run with `--force`
renames its file over one that another run has published, and that run then rolls back,
the roll-back, which goes by name (`pki.go:274-277`), removes the new file.
`PublishedWhole` and the part of `FailureLeavesNothing` about temporary files hold there
too. `PublishedWhole` is about the files that a run has written: what lies in the
directories before may have any mode and may be incomplete.

### EqualityGenerator

`equal` recurses over Go types; `stack` holds its activations. A schema gives each
type its kind and the types it is made of. `Tests` and `CallsMade` are the template of a
kind: what a function tests itself, and which calls it makes. `Equal`, in
`GeneratedEquality`, follows these calls by recursion, and is compared with equality of
values; the proofs instead speak of any relation `E` that obeys the templates (`Answers`).
Import aliases, the schema guards and writing the file are left out.

## Runs

| Run | Shows | Bounds |
|---|---|---|
| `update` | `TypeOK`, `SnapshotsSound`, `MediatesEveryOperation` for concurrent service updates | 2 slots, 1 service, Raft index 3, 15 requests, among them every option of the update call, by name and by identifier, and an inspect with the token header twice, once right |
| `objects` | `OwnInspectAllowed`, `DenialExhaustive`, `MediatesEveryOperation` for secrets and nodes | 2 slots, 2 identifiers with one name, Raft index 3, 14 requests, with all kinds of broken identities and an inspect with the token header twice, once right |
| `answered` | `EveryRequestAnswered` | 2 slots, 4 requests, Raft index 2 |
| `startup` | `TypeOK`, `EveryClientReachable`, `EveryPermissionUsable`, `ExportersUsable` | every constraint under every key; two clients with all clashes of names; every combination of telemetry settings |
| `mutation` | `ConfinedToList`, `ValidateExact` | two values per leaf, all nil pointers, no other mode, global, and two replicated jobs, all lists of one or two fields |
| `resolver` | `ResolvedUniquely`, `LookupOnTarget` | all paths of up to 4 of 8 segments, 4 methods, 2 queries |
| `transport` | `NeverAnonymous`, `AuditedFirst`, `CountersReconcile`, `CallbackTraced` | 3 slots, 2 envelopes of clients out of 20, 2 lookups, of one of them or of both, with their envelopes |
| `server` | `TypeOK`, `DrainedBeforeFlush`, `DrainInTime`, `SignalEndsProcess`, `StartupEnds` | 2 slots, 2 requests of up to 2 lookups, 2 readiness requests; a unit of time is 5 seconds |
| `drain` | a violation of `SignalDrains`, see Findings | as `server` |
| `limiter` | `LinesApart`, `DueErrorReported` | 3 handlers, interval 2, clock up to 5 |
| `pki` | `TypeOK`, `PublishedWhole`, `FailureLeavesNothing`, `BundleVerifies`, `SomeRunSucceeds`, `OthersPreserved` | 3 runs, 3 directories, one fault or kill |
| `equality` | `ComparesExactly`, `CallsResolved`, `GeneratorEnds` | all 221 schemas of a struct and two further types, values up to depth 2 |

Why these bounds suffice to see the interesting cases: a race needs one request
being judged and one that changes the object, hence two slots, plus `Elsewhere`
for the third party; a rebound name needs two identifiers; a stale version needs
one write, a version that is right again for the wrong reason needs two. The
bound `MaxIndex` stops new writes from being submitted, never one under way, so no
behaviour is cut in the middle of a request. The slots are symmetric; the liveness
run uses no symmetry. `MaxUint64` is 3 in the runs, so that versions that
`ParseUint` refuses occur. In `pki`, two runs compete and a third rotates the CA or
competes as well; one fault is enough to see every error path, since a publication
also fails without a fault when a file is in the way, and the roll-back may then meet
the fault. In `server`, one unit for a lookup
and two for the drain keep the proportion of `LookupTimeout` to
`serveShutdownTimout`, which `DrainInTime` is about; a request of two lookups is
the shortest that may exhaust the bound. In `equality` three types suffice for
sharing, for recursion and for both at once. Runs whose actors come to an end do
not check deadlock: a process that has failed or exited, a client with nothing left
to send, a generator that has written its file.

Every property has a mutant in `PROJECT.json`: a definition changed the way a
plausible bug would change the code (operators with the comment "Mutated form"),
under which TLC finds the property violated.

### Fairness

`Spec` asks for weak fairness of `Handle(s)` for each slot: the plugin serves
each callback on a goroutine of its own, a lookup ends within `LookupTimeout`, and
the daemon goes on with the requests it has. Nothing is assumed of clients
(`Submit`) and other managers (`Elsewhere`). Safety is checked and proved without
fairness (`SafetySpec`).

`PluginServer` asks for weak fairness of the goroutines (`Loop`, `ServeReady`,
`Handle(s)`) and of time, and for strong fairness of three cases of the `select` in
`ServeUnix`: the handle, the signal and the deadline. Go chooses at random among the
cases that are ready; while a readiness request is out the loop is not at its `select`,
so these cases are ready again and again rather than all the time. Nothing is assumed
of the daemon, of the helper and of the signal. `ErrorLimiter` asks that a handler
that has been called runs on, `EqualityGenerator` that the program runs.

### Findings

`drain`: a signal that comes after the helper has opened its socket and before
`ServeUnix` has received the server's handle ends the process without `Shutdown`.
Requests that are accepted before `ServeUnix` returns, or until the process is gone, since
nothing closes the listener, are cut off, and a decision recorded after telemetry was
shut down is not exported. The comment above `ServeUnix` and `docs/telemetry.md`
promise a drain on every SIGTERM or SIGINT. `server` shows that from the handle on
they are right (`DrainedBeforeFlush`), and that the process ends either way.

## Proofs

TLAPS checks the following for every value of the constants. Each module of proofs
belongs to the module it extends.

| Theorem | States | For |
|---|---|---|
| `DockAuthzProofs!Mediates` | `MediatesEveryOperation`, the refinement | every policy, set of requests and objects, any number of slots and any bound |
| `SnapshotsAreSound`, `OwnInspectsAllowed`, `DenialsAreExhaustive`, `TypeCorrect` | the invariants of `update` and `objects` | the same |
| `RequestsResolveUniquely`, `LookupsStayOnTarget` | `ResolvedUniquely`, `LookupOnTarget` | any methods, path segments and queries |
| `ResolvesUniquely` | `Render(Resolve(method, uri)) = <<method, uri>>` for what `Resolve` accepts | every method and URI |
| `MutationProofs!ValidateSound`, `ValidateComplete` | `mutation.Validate` accepts what changes only listed leaves of structs that are there, and nothing else | all specs, bodies and lists |
| `MutationChainProofs!StaysConfined`, `ValidatesExactly` | `ConfinedToList`, `ValidateExact` | any chain of updates |
| `CallsAreResolved` | `CallsResolved` | every schema, with shared and recursive types |
| `ComparesValuesExactly` | `ComparesAllValues`: the functions that are written take two values for equal if and only if they are | every schema, values of any finite size |
| `StartupProofs!ClientsReachable`, `PermissionsUsable`, `ExportersAreUsable`, `TypeCorrect` | `EveryClientReachable`, `EveryPermissionUsable`, `ExportersUsable`, `TypeOK` | every configuration, every order of the loops over maps |
| `LimiterProofs!RateLimited` | `LinesApart` | any number of handlers, any interval, any movement of the clock |
| `ServerProofs!OrderlyEnd`, `DrainsInTime`, `TypeCorrect` | `DrainedBeforeFlush`, `DrainInTime`, `TypeOK` | any number of callbacks, and all timeouts with `LookupTimeout` below `ShutdownTimeout` |
| `TransportProofs!NobodyIsAnonymous`, `DecisionsAreAudited`, `CountersAgree`, `CallbacksAreTraced` | `NeverAnonymous`, `AuditedFirst`, `CountersReconcile`, `CallbackTraced` | any number of calls, any envelopes, whatever `Evaluate` finds |
| `PkiProofs!PublishedIsWhole`, `FailureLeaves`, `BundlesVerify`, `OthersArePreserved`, `OneSucceeds`, `TypeCorrect` | `PublishedWhole`, `FailureLeavesNothing`, `BundleVerifies`, `OthersPreserved`, `SomeRunSucceeds`, `TypeOK` | any number of runs and directories, any options, any number of faults and kills |

### Assumptions

They are the named `ASSUME`s of the modules, and TLC evaluates all of them in the runs:

- the policy that is served passed `Config.Validate` (`ServedConfigAssumption`, which
  `New` enforces); `StartupProofs` does not assume it but shows what it gives;
- a list of mutation fields is not empty and has known fields only
  (`ListsAssumption`, which `Config.Validate` enforces as well);
- the daemon's guarantees of the section on `DockAuthz` (`DockAssumption`,
  `RequestsAssumption`);
- a lookup times out before the drain does (`TimesAssumption`: 5 and 10 seconds in
  the code);
- a file that is there before the first run of the certificate generator holds what its
  name says, a key or a certificate, if it can be read at all (`FilesAssumption`);
- what Go's type checker gives: every type that is referred to exists, and a pointer, a
  slice, a map and an array have one element type (`SchemasAssumption`);
- what constants are: configurations, envelopes, options, numbers
  (`ConfigsAssumption`, `EnvelopesAssumption`, `PkiAssumption` and others).

### The reference monitor

`MediatesEveryOperation` is not inductive: that a verdict is still right when the
request is executed depends on how it was reached. `IInv` adds

- `CursorInv`: a slot at work is one `Authorize` has handed to `Evaluate`, and a
  lookup is under way only for a permission that needs one;
- `VerdictInv`: an allowed slot was allowed at once, or `permission` holds of the
  permission its cursor is on and the snapshot it still has;
- `StoreInv`: no object's version is ahead of the Raft index, and its labels are
  in its history;
- `SnapshotInv`: a snapshot is of an identifier, and no younger than the index;
- `SnapshotsSound`: a snapshot whose version is still the object's version shows
  the object as it is.

The last is kept by writes because a write gives a version greater than any
snapshot's. The refinement then goes: an allowed request is justified by a
permission of the client that Docker vouches for (`AllowedIsJustified`); the
snapshot it was judged by is of the object that the daemon acts upon, because a
full identifier was demanded (`TargetIsSnapshot`); for an update the daemon's own
version check makes the snapshot current, `safeUpdate` makes the body the new spec,
and `ValidateSound` bounds the change (`UpdatePermitted`).

`DenialsAreExhaustive` needs to know of a slot that is still at work that every
permission behind its cursor has refused (`Exhausted`).

### The other invariants

- `ClientsReachable`: the phases after `load` have a configuration that passed
  `ValidNames`, and every client the loop in `New` has been through is in its place;
  a later turn cannot take that place, common names being unique. `PermissionsUsable`
  is the rest of `Validate` put together, constraint by constraint.
- `ExportersAreUsable`: what is exported rests on a section that has its defaults, has
  passed `Validate` and enables the signal (`Exported`).
- `RateLimited`: a handler about to write has already put its time into `last`, so
  lines that are still to be written count like those that are (`PendingApart`); none
  of them is younger than `last`, and a handler about to swap is due after the value
  it loaded (`Bounds`). `CompareAndSwap` succeeds only if that value still stands.
- `OrderlyEnd`: once the handle was received and `ServeUnix` is past its drain without an
  error, the listener is closed, so nobody can enter, and all slots are idle, so
  nothing is recorded; the result nil together with the handle is only reached so.
- `DrainsInTime`: while the drain lasts, a slot that is still in its first lookup has
  waited in it at least as long as the drain (`InTime`), so its timeout comes first.
  The daemon asks only about lookups in progress, and about each once (`Asks`), so the
  answer to such a callback moves one lookup on and no other.
- `ValidatesExactly`: `ValidateSound` and `ValidateWithin` give one direction,
  `ValidateComplete` the other.
- `TransportProofs`: calls have names of their own, and so have lookups: one that is
  under way has not been told of, and before `Callback` there is no envelope for it
  (`NamedInv`); what the deferred function has yet to tell is a rest of
  what it tells, and the part before it has been told (`TellingInv`). So an answer
  finds its record. The envelope of a lookup that still waits has the trace of that
  lookup (`AskedInv`). A lookup has consent only when its envelope has been counted as
  allowed (`ConsentInv`, `ToldInv`); the counters then agree because lookups map one to
  one into allowed internal requests, and these into decisions.
- `PkiProofs`: a run's place in the code fixes what it has staged and published
  (`RunInv`); a file that names a run is a file of that run's bundle (`OwnInv`). The
  roll-back goes by name, so that it removes only the run's own files rests on
  `HeldInv`: a place that a run without `--force` has published to and not taken back is
  held by no other such run, since a link fails where there is a file. `LeftInv` follows
  the roll-back.
- `OneSucceeds` needs to know who gives way to whom (`RaceInv`). A run that finds a file
  before it has published anything gives way to one that goes on. A run that already
  has files finds either `ca.pem`, or a key that another run is about to take back; in
  both cases some run has `ca.pem` (`Blocked`), and the order of the files in
  `Generate` leaves nothing after `ca.pem` that another bundle also contains.

- `LookupsStayOnTarget`: the operation at hand is what `Resolve` makes of the request at
  hand, and an operation without options on an identifier once `Inspect` was called
  (`ResolverInv`); the path `Inspect` builds of an operation with an identifier resolves
  to the inspect of it (`LookupResolves`).
- `CallsAreResolved`: the numbers in `names` are distinct and below the next one
  (`NamesInv`); a type in `names` is in exactly one place, on the stack or among the
  written functions (`PlaceInv`); a call that is noted, in a written function
  (`FunctionsInv`) or in one on the stack (`StackInv`), has the number of the type that
  is wanted there, and each activation waits for the type of the next. When the stack is
  empty again, everything with a number is written.
- `ComparesValuesExactly` takes a set of values with all their parts, each deeper than its
  parts (`FiniteValues`: values that were decoded from JSON have no cycles), and what the
  functions answer for them (`Answers`). If an answer is wrong, some answer is wrong for
  a value of least depth, since the natural numbers are well-founded; the callees are
  right about its parts, and `TemplateExact` shows, kind by kind, that the template is
  then right about the value.

### Only model-checked

- `EveryRequestAnswered`, `SignalEndsProcess`, `StartupEnds`, `DueErrorReported` and
  `GeneratorEnds`: liveness under fairness is beyond the prover.
- `ComparesExactly`, as stated with the recursive operator `Equal` on the values that
  `ValuesOf` enumerates. Its content is proved, for all values: `ComparesValuesExactly`.

## Not modelled

- YAML parsing (`validateNode`, `validateScalarTypes`) other than as a way for
  `Load` to fail, the spelling rules of `validDNS`, endpoints and headers, and the
  parsing of JSON, PEM and X.509: conversions of the libraries or character rules,
  each kept as its outcome.
- The exporters of telemetry, their queues and their failures; histograms and spans
  other than the trace they belong to. They never influence a decision.
- The generator's import aliases, schema guards and output file, and the flags of
  `dockauthz-cert`.
- The generated mock reader, which only tests use.
