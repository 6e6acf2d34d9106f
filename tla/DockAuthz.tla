------------------------------ MODULE DockAuthz ------------------------------
(***************************************************************************)
(* The plugin at work: a Docker daemon (external) handles client requests  *)
(* concurrently and asks the plugin about each.  To judge a constrained    *)
(* permission the plugin sends the daemon an inspect of its own, which the *)
(* daemon in turn presents to the plugin; meanwhile other requests and     *)
(* other Swarm managers change the objects.                                *)
(*                                                                         *)
(* Requests in flight sit in slots.  A slot's pc is                        *)
(*   idle      - no request                                                *)
(*   authorize - the daemon has called AuthZReq                            *)
(*   evaluate  - Evaluate is at the k-th candidate permission              *)
(*   lookup    - Inspect has sent its request to the daemon                *)
(*   reading   - the daemon has the plugin's consent to that inspect       *)
(*   answered  - the daemon has replied with snap                          *)
(*   allow, deny - Authorize has returned; an allowed request keeps the    *)
(*     k and snap it was allowed by, k = 0 if no permission was evaluated. *)
(* Docker's version of an object is the Raft index of its last change.     *)
(***************************************************************************)
EXTENDS Authz

CONSTANTS
  Slots,          \* requests the daemon handles at the same time
  Ids,            \* full identifiers of Docker objects; never reused
  Requests,       \* the requests clients may send
  InitialObjects, \* from some of the Ids to [resource, spec]
  Pool,           \* objects [resource, spec] that other managers may write
  MaxIndex        \* bound: nobody starts a write from this Raft index on

\* No object is named like an identifier, past or present.  Docker draws identifiers at random
\* and refuses no such name itself; a delete carries no version, and one by the identifier of
\* an object that is gone would then meet an object of that name, which nobody has judged.
ASSUME DockAssumption ==
  /\ Ids \subseteq STRING
  /\ Names \cap Ids = {}
  /\ MaxIndex \in Nat
  /\ Nil \notin Slots \cup Ids
ASSUME ObjectsAssumption ==
  /\ Pool \subseteq [resource : Resources, spec : Specs]
  /\ DOMAIN InitialObjects \subseteq Ids
  /\ \A id \in DOMAIN InitialObjects : InitialObjects[id] \in [resource : Resources, spec : Specs]
\* A client does not know the token, which is 256 bits of randomness.
ASSUME RequestsAssumption ==
  /\ Requests \subseteq RequestType
  /\ Nil \notin Requests
  /\ \A r \in Requests : r.headers.internal # <<Token>>

VARIABLES
  store,   \* store[id]: the object, or Nil when it does not exist
  index,   \* the Raft index of the last change
  pc, rq, k, snap, \* per slot: see above; rq is the client's request
  past,    \* history variable: past[id] is the set of label maps id has had
  last     \* history variable: who did what last, as in ReferenceMonitor

daemon == <<store, index, past, last>>
slots  == <<pc, rq, k, snap>>
vars   == <<store, index, pc, rq, k, snap, past, last>>

Versions == [spec : Specs, auth : Values \cup {Nil}]
Objects  == [resource : Resources, version : Nat, spec : Specs, auth : Values \cup {Nil},
             prev : Versions \cup {Nil}]
Visibles == [resource : Resources, spec : Specs, auth : Values \cup {Nil}]  \* what matters of an object
Events   == [client   : DOMAIN ServedConfig.clients \cup {"unidentified", "unknown", ""},
             resource : Resources \cup {"unknown", ""},
             action   : Actions \cup {"unknown", ""},
             id       : Ids \cup {""}]
PCs      == {"idle", "authorize", "evaluate", "lookup", "reading", "answered", "allow", "deny"}

ASSUME NilAssumption == Nil \notin Objects /\ Nil \notin Visibles

\* Every slot holds a request while it is busy, the cursor stays on Evaluate's list, and
\* what Inspect returned has the shape the policy expects (policy.Evaluate, Inspect).
TypeOK ==
  /\ store \in [Ids -> Objects \cup {Nil}]
  /\ index \in Nat
  /\ pc \in [Slots -> PCs]
  /\ rq \in [Slots -> Requests \cup {Nil}]
  /\ k \in [Slots -> 0..5]
  /\ snap \in [Slots -> Snapshots \cup {Nil}]
  /\ past \in [Ids -> SUBSET LabelMaps]
  /\ last \in Events \cup {Nil}
  /\ \A s \in Slots : pc[s] # "idle" => rq[s] # Nil

Init ==
  /\ store = [id \in Ids |->
                IF id \in DOMAIN InitialObjects
                THEN [resource |-> InitialObjects[id].resource, version |-> 1,
                      spec |-> InitialObjects[id].spec, auth |-> Nil, prev |-> Nil]
                ELSE Nil]
  /\ index = 1
  /\ pc = [s \in Slots |-> "idle"]
  /\ rq = [s \in Slots |-> Nil]
  /\ k = [s \in Slots |-> 0]
  /\ snap = [s \in Slots |-> Nil]
  /\ past = [id \in Ids |-> IF store[id] = Nil THEN {} ELSE {store[id].spec.labels}]
  /\ last = Nil

-----------------------------------------------------------------------------
(* The plugin *)

\* The operation of each request, and for those that Evaluate sees the permissions
\* it is given.  Neither depends on Docker's state.
OpOf       == [r \in Requests |-> Op(r)]
MatchingOf == [r \in {q \in Requests : Evaluated(q)} |-> Matching(r)]

\* The daemon receives a request and calls the plugin.
Submit(s) ==
  /\ pc[s] = "idle"
  /\ \E r \in Requests :
       /\ OpOf[r].action \in {"create", "update", "delete"} => index < MaxIndex
       /\ rq' = [rq EXCEPT ![s] = r]
  /\ pc' = [pc EXCEPT ![s] = "authorize"]
  /\ UNCHANGED <<k, snap, daemon>>

\* Plugin.Authorize up to its call of Evaluate.
Authorize(s) ==
  /\ pc[s] = "authorize"
  /\ \/ /\ Evaluated(rq[s])
        /\ pc' = [pc EXCEPT ![s] = "evaluate"]
        /\ k' = [k EXCEPT ![s] = 1]
     \/ /\ ~Evaluated(rq[s])
        /\ pc' = [pc EXCEPT ![s] = IF Immediate(rq[s]) THEN "allow" ELSE "deny"]
        /\ UNCHANGED k
  /\ UNCHANGED <<rq, snap, daemon>>

\* Mutated form: the first matching permission decides.
TryNextUnlessMatched(s) ==
  /\ pc' = [pc EXCEPT ![s] = "evaluate"]
  /\ k' = [k EXCEPT ![s] = IF MatchingOf[rq[s]][@] # Nil THEN 5 ELSE @ + 1]
  /\ snap' = [snap EXCEPT ![s] = Nil]

\* The k-th candidate does not grant the request: go on with the next one.
TryNext(s) ==
  /\ pc' = [pc EXCEPT ![s] = "evaluate"]
  /\ k' = [k EXCEPT ![s] = @ + 1]
  /\ snap' = [snap EXCEPT ![s] = Nil]

\* The candidate that Evaluate is at, judged by what Inspect has returned.
Grants(s) ==
  permission(MatchingOf[rq[s]][k[s]], OpOf[rq[s]], rq[s].body, rq[s].headers, snap[s])

\* Evaluate moves on: to the end of the list, past a candidate that does not
\* exist, to a verdict that needs no state, or into Inspect.
Evaluate(s) ==
  /\ pc[s] = "evaluate"
  /\ \/ /\ k[s] = 5
        /\ pc' = [pc EXCEPT ![s] = "deny"]
        /\ UNCHANGED <<k, snap>>
     \/ /\ k[s] < 5 /\ MatchingOf[rq[s]][k[s]] = Nil
        /\ TryNext(s)
     \/ /\ k[s] < 5 /\ MatchingOf[rq[s]][k[s]] # Nil
        /\ NeedsState(MatchingOf[rq[s]][k[s]], OpOf[rq[s]], rq[s].headers)
        /\ pc' = [pc EXCEPT ![s] = "lookup"]
        /\ UNCHANGED <<k, snap>>
     \/ /\ k[s] < 5 /\ MatchingOf[rq[s]][k[s]] # Nil
        /\ ~NeedsState(MatchingOf[rq[s]][k[s]], OpOf[rq[s]], rq[s].headers)
        /\ IF Grants(s)
           THEN pc' = [pc EXCEPT ![s] = "allow"] /\ UNCHANGED <<k, snap>>
           ELSE TryNext(s)
  /\ UNCHANGED <<rq, daemon>>

\* The daemon presents the plugin's own inspect to the plugin, whose Authorize
\* answers from the token branch.
Callback(s) ==
  /\ pc[s] = "lookup"
  /\ IF Immediate(InspectRequest(OpOf[rq[s]]))
     THEN pc' = [pc EXCEPT ![s] = "reading"] /\ UNCHANGED <<k, snap>>
     ELSE TryNext(s)
  /\ UNCHANGED <<rq, daemon>>

\* Mutated form: a failed lookup is tried again.
LookupFailsAgain(s) ==
  /\ pc[s] \in {"lookup", "reading"}
  /\ pc' = [pc EXCEPT ![s] = "lookup"]
  /\ UNCHANGED <<k, snap, rq, daemon>>

\* Inspect fails: no connection, a timeout, a status other than 200 (there may be
\* no such object), a response too large or not understood.
LookupFails(s) ==
  /\ pc[s] \in {"lookup", "reading"}
  /\ TryNext(s)
  /\ UNCHANGED <<rq, daemon>>

\* Evaluate looks at the snapshot.
Judge(s) ==
  /\ pc[s] = "answered"
  /\ IF Grants(s)
     THEN pc' = [pc EXCEPT ![s] = "allow"] /\ UNCHANGED <<k, snap>>
     ELSE TryNext(s)
  /\ UNCHANGED <<rq, daemon>>

-----------------------------------------------------------------------------
(* The daemon (external): what it does with a request, as far as the code in *)
(* src/ relies on it.                                                        *)

\* A reference is a full identifier, or else the name of an object.
Found(resource, ref) ==
  {id \in Ids : /\ store[id] # Nil
                /\ store[id].resource = resource
                /\ id = ref \/ store[id].spec.name = ref}

Fresh == {id \in Ids : past[id] = {}}

NameFree(resource, name) == Found(resource, name) = {}

\* Mutated forms: the spec is decoded from the whole reply, or the labels are taken
\* from the previous spec in the reply.
ReadWholeReply(s) ==
  /\ pc[s] = "reading"
  /\ \E id \in Found(OpOf[rq[s]].resource, OpOf[rq[s]].id) :
       snap' = [snap EXCEPT ![s] =
                  [id |-> id, version |-> store[id].version, labels |-> store[id].spec.labels, spec |-> store[id]]]
  /\ pc' = [pc EXCEPT ![s] = "answered"]
  /\ UNCHANGED <<rq, k, daemon>>
ReadPreviousLabels(s) ==
  /\ pc[s] = "reading"
  /\ \E id \in Found(OpOf[rq[s]].resource, OpOf[rq[s]].id) :
       snap' = [snap EXCEPT ![s] =
                  [id |-> id, version |-> store[id].version,
                   labels |-> IF store[id].prev = Nil THEN store[id].spec.labels ELSE store[id].prev.spec.labels,
                   spec |-> IF store[id].resource = "service" THEN store[id].spec ELSE Nil]]
  /\ pc' = [pc EXCEPT ![s] = "answered"]
  /\ UNCHANGED <<rq, k, daemon>>

\* The daemon's reply to Inspect, and what Inspect takes from it.
Read(s) ==
  /\ pc[s] = "reading"
  /\ \E id \in Found(OpOf[rq[s]].resource, OpOf[rq[s]].id) :
       snap' = [snap EXCEPT ![s] =
                  [id      |-> id,
                   version |-> store[id].version,
                   labels  |-> store[id].spec.labels,
                   spec    |-> IF store[id].resource = "service" THEN store[id].spec ELSE Nil]]
  /\ pc' = [pc EXCEPT ![s] = "answered"]
  /\ UNCHANGED <<rq, k, daemon>>

\* The slot's request is over.
Finish(s) ==
  /\ pc' = [pc EXCEPT ![s] = "idle"]
  /\ rq' = [rq EXCEPT ![s] = Nil]
  /\ k' = [k EXCEPT ![s] = 0]
  /\ snap' = [snap EXCEPT ![s] = Nil]

\* Object id is written, or removed when object is Nil.
Write(id, object) ==
  /\ store' = [store EXCEPT ![id] = object]
  /\ index' = index + 1
  /\ past' = [past EXCEPT ![id] = @ \cup (IF object = Nil THEN {} ELSE {object.spec.labels})]

\* Whom Docker vouches for, told from the authentication context alone: nobody only
\* when nothing in it speaks of authentication, a client when all of it speaks of him.
Principal(auth) ==
  LET fits(name) == LET cn == ServedConfig.clients[name].cn
                    IN  auth.method = "TLS" /\ auth.user \in {"", cn} /\ auth.peers # <<>> /\ auth.peers[1] = cn
  IN  IF auth.method = "" /\ auth.user = "" /\ auth.peers = <<>> THEN "unidentified"
      ELSE IF \E name \in DOMAIN ServedConfig.clients : fits(name)
           THEN CHOOSE name \in DOMAIN ServedConfig.clients : fits(name)
           ELSE "unknown"

Log(r, resource, action, id) ==
  last' = [client |-> Principal(r.auth), resource |-> resource, action |-> action, id |-> id]

\* The version of a service that an update with these options leads to; Nil when
\* the daemon refuses it.  A rollback ignores the body.
Updated(old, r) ==
  LET query == OpOf[r].query
      auth  == IF r.headers.registryAuth # Nil THEN r.headers.registryAuth
               ELSE IF query.registryAuthFrom # <<>> /\ Head(query.registryAuthFrom) = "previous-spec"
                    THEN old.prev.auth ELSE old.auth
      previous == \/ query.rollback # <<>>
                  \/ query.registryAuthFrom # <<>> /\ Head(query.registryAuthFrom) = "previous-spec"
  IN  IF previous /\ old.prev = Nil THEN Nil
      ELSE IF query.rollback # <<>> THEN old.prev
      ELSE IF r.body.spec = Nil THEN Nil
      ELSE [spec |-> r.body.spec, auth |-> auth]

ExecuteUpdate(s) ==
  LET op == OpOf[rq[s]]
  IN  /\ pc[s] = "allow"
      /\ IsServiceUpdate(op)
      /\ op.query.version # <<>>
      /\ \E id \in Found("service", op.id) :
           LET old == store[id]
               new == Updated(old, rq[s])
           IN  /\ Head(op.query.version) = old.version
               /\ new # Nil
               /\ new.spec.name = old.spec.name
               /\ Write(id, [resource |-> "service", version |-> index + 1, spec |-> new.spec,
                             auth |-> new.auth, prev |-> [spec |-> old.spec, auth |-> old.auth]])
               /\ Log(rq[s], "service", "update", id)
      /\ Finish(s)

ExecuteCreate(s) ==
  LET op == OpOf[rq[s]]
  IN  /\ pc[s] = "allow"
      /\ op.action = "create"
      /\ rq[s].body.spec # Nil
      /\ NameFree(op.resource, rq[s].body.spec.name)
      /\ \E id \in Fresh :
           /\ Write(id, [resource |-> op.resource, version |-> index + 1, spec |-> rq[s].body.spec,
                         auth |-> rq[s].headers.registryAuth, prev |-> Nil])
           /\ Log(rq[s], op.resource, "create", id)
      /\ Finish(s)

ExecuteDelete(s) ==
  LET op == OpOf[rq[s]]
  IN  /\ pc[s] = "allow"
      /\ op.action = "delete"
      /\ \E id \in Found(op.resource, op.id) :
           Write(id, Nil) /\ Log(rq[s], op.resource, "delete", id)
      /\ Finish(s)

ExecuteInspect(s) ==
  LET op == OpOf[rq[s]]
  IN  /\ pc[s] = "allow"
      /\ op.action = "inspect"
      /\ \E id \in Found(op.resource, op.id) : Log(rq[s], op.resource, "inspect", id)
      /\ Finish(s)
      /\ UNCHANGED <<store, index, past>>

\* Lists, and endpoints of Docker that the resolver does not know; the latter leave
\* the modelled objects alone here, for what they change is what Elsewhere does.
ExecuteOther(s) ==
  LET op == OpOf[rq[s]]
  IN  /\ pc[s] = "allow"
      /\ op.action \in {"list", "unknown"}
      /\ Log(rq[s], op.resource, op.action, "")
      /\ Finish(s)
      /\ UNCHANGED <<store, index, past>>

\* The request is denied, or the daemon itself does not carry it out.
Refuse(s) ==
  /\ pc[s] \in {"allow", "deny"}
  /\ Finish(s)
  /\ UNCHANGED daemon

\* Another manager, which asks another plugin or none, or the orchestrator.
Elsewhere ==
  /\ index < MaxIndex
  /\ \E id \in Ids :
       \/ store[id] # Nil /\ Write(id, Nil)
       \/ /\ store[id] # Nil
          /\ \E o \in Pool :
               /\ o.resource = store[id].resource /\ o.spec.name = store[id].spec.name
               /\ Write(id, [resource |-> o.resource, version |-> index + 1, spec |-> o.spec,
                             auth |-> store[id].auth, prev |-> [spec |-> store[id].spec, auth |-> store[id].auth]])
       \/ /\ id \in Fresh
          /\ \E o \in Pool :
               /\ NameFree(o.resource, o.spec.name)
               /\ Write(id, [resource |-> o.resource, version |-> index + 1, spec |-> o.spec,
                             auth |-> Nil, prev |-> Nil])
  /\ last' = [client |-> "", resource |-> "", action |-> "", id |-> ""]
  /\ UNCHANGED slots

Execute(s) ==
  ExecuteUpdate(s) \/ ExecuteCreate(s) \/ ExecuteDelete(s) \/ ExecuteInspect(s) \/ ExecuteOther(s)

\* What the plugin and the daemon do about a request once it is there.
Handle(s) ==
  \/ Authorize(s) \/ Evaluate(s) \/ Callback(s) \/ Read(s) \/ LookupFails(s) \/ Judge(s)
  \/ Execute(s) \/ Refuse(s)

Next == Elsewhere \/ \E s \in Slots : Submit(s) \/ Handle(s)

\* The plugin serves every callback on a goroutine of its own and each lookup ends
\* within LookupTimeout; the daemon goes on with the requests it has.
Fairness == \A s \in Slots : WF_vars(Handle(s))

SafetySpec == Init /\ [][Next]_vars
Spec == SafetySpec /\ Fairness

-----------------------------------------------------------------------------
(* What the policy means, said of objects rather than of requests *)

Privileged(client) ==
  \/ Administrator(client)
  \/ client = "unidentified" /\ ServedConfig.unidentified = "allow"

PermissionsFor(client, resource, action) ==
  IF Configured(client)
  THEN {Granted(client)[key] : key \in DOMAIN Granted(client) \cap ({resource, "*"} \X {action, "*"})}
  ELSE {}

MayCreate(client, new) ==
  \/ Privileged(client)
  \/ \E p \in PermissionsFor(client, new.resource, "create") :
       p.request # Nil => matches(new.spec.labels, p.request)

\* One single permission covers the labels before and after, every leaf of the spec
\* that changes, and the registry credentials, which count as part of the image.
MayUpdate(client, old, new) ==
  \/ Privileged(client)
  \/ \E p \in PermissionsFor(client, old.resource, "update") :
       /\ p.selector # Nil => matches(old.spec.labels, p.selector)
       /\ p.request # Nil => matches(new.spec.labels, p.request)
       /\ p.mutation # Nil =>
            /\ Changed(old.spec, new.spec) \subseteq Fields(p.mutation)
            /\ new.auth # old.auth => "container.image" \in Fields(p.mutation)

MayUse(client, resource, action, seen) ==
  \/ Privileged(client)
  \/ \E p \in PermissionsFor(client, resource, action) :
       p.selector # Nil => \E labels \in seen : matches(labels, p.selector)

\* The objects as ReferenceMonitor sees them: without versions.
Visible == [id \in Ids |->
              IF store[id] = Nil THEN Nil
              ELSE [resource |-> store[id].resource, spec |-> store[id].spec, auth |-> store[id].auth]]

Monitor == INSTANCE ReferenceMonitor
             WITH objects <- Visible,
                  Clients <- DOMAIN ServedConfig.clients \cup {"unidentified"}

\* Plugin and daemon together are a reference monitor: between the inspect a decision
\* rests on and the execution of the request, nothing can change that would make the
\* decision wrong (policy.permission, Authorize).
MediatesEveryOperation == Monitor!Spec

\* As long as the version a snapshot shows is the current one, the snapshot shows the
\* object as it is; and its labels are labels the object really had (Inspect, and the
\* version comparison in permission).
SnapshotsSound ==
  \A s \in Slots : snap[s] # Nil =>
    /\ snap[s].labels \in past[snap[s].id]
    /\ LET object == store[snap[s].id]
       IN  object # Nil /\ object.version = snap[s].version =>
             snap[s].labels = object.spec.labels /\ snap[s].spec \in {object.spec, Nil}

\* The plugin never denies the inspect it sends itself: whatever operation it looks up,
\* the path that Inspect builds resolves back to an inspect the token branch allows.
OwnInspectAllowed ==
  \A s \in Slots : pc[s] = "lookup" => Immediate(InspectRequest(OpOf[rq[s]]))

\* A denial has tried every matching permission: none that needs no state of Docker
\* would have granted the request (the loop in Evaluate).
DenialExhaustive ==
  \A s \in Slots : pc[s] = "deny" /\ Evaluated(rq[s]) =>
    \A i \in 1..4 : MatchingOf[rq[s]][i] # Nil =>
      ~permission(MatchingOf[rq[s]][i], OpOf[rq[s]], rq[s].body, rq[s].headers, Nil)

\* Every request is answered in the end, the lookups of the plugin notwithstanding
\* (LookupTimeout, and the finite list of permissions in Evaluate).
EveryRequestAnswered == \A s \in Slots : pc[s] # "idle" ~> pc[s] = "idle"
=============================================================================
