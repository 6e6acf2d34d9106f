--------------------------- MODULE DockAuthzProofs ---------------------------
(***************************************************************************)
(* Proofs about DockAuthz for every configuration, every set of requests   *)
(* and objects, and any number of requests in flight.                      *)
(***************************************************************************)
EXTENDS DockAuthz, Resolver, MutationProofs

-----------------------------------------------------------------------------
(* The inductive invariant *)

Working == {"evaluate", "lookup", "reading", "answered"}

\* Evaluate only runs for requests that are not decided at once, and its cursor is on
\* a permission that needs Docker's state whenever a lookup is under way.
CursorInv ==
  \A s \in Slots :
    /\ pc[s] \in Working => Evaluated(rq[s]) /\ k[s] \in 1..5
    /\ pc[s] \in Working \ {"evaluate"} =>
         /\ k[s] \in 1..4
         /\ MatchingOf[rq[s]][k[s]] # Nil
         /\ NeedsState(MatchingOf[rq[s]][k[s]], OpOf[rq[s]], rq[s].headers)

\* An allowed request was allowed at once, or by the permission the cursor is on and
\* the snapshot the slot still holds.
VerdictInv ==
  \A s \in Slots : pc[s] = "allow" =>
    \/ ~Evaluated(rq[s]) /\ Immediate(rq[s])
    \/ /\ Evaluated(rq[s])
       /\ k[s] \in 1..4
       /\ MatchingOf[rq[s]][k[s]] # Nil
       /\ Grants(s)

\* Docker's versions never run ahead of the Raft index, and the history is complete.
StoreInv ==
  \A id \in Ids : store[id] # Nil =>
    store[id].version <= index /\ store[id].spec.labels \in past[id]

\* Snapshots are of existing identifiers and of the past.
SnapshotInv ==
  \A s \in Slots : snap[s] # Nil => snap[s].id \in Ids /\ snap[s].version <= index

IInv == TypeOK /\ CursorInv /\ VerdictInv /\ StoreInv /\ SnapshotInv /\ SnapshotsSound

-----------------------------------------------------------------------------
(* Types *)

\* What the requests, and the parts of an object, are.
LEMMA RequestTypes ==
  ASSUME NEW r \in Requests
  PROVE  /\ r.body.spec \in Specs \cup {Nil}
         /\ r.headers.registryAuth \in Values \cup {Nil}
         /\ OpOf[r] = Op(r)
  BY RequestsAssumption DEF RequestType, Bodies, Headers, OpOf

\* The labels of a spec are a label map.
LEMMA SpecLabels ==
  ASSUME NEW spec \in Specs
  PROVE  spec.labels \in LabelMaps
  BY DEF Specs

\* What Unknown says of resource and action.
LEMMA UnknownFields == Unknown.resource = "unknown" /\ Unknown.action = "unknown"
  BY DEF Unknown

\* Resolve yields one of the operations that are implemented, with an identifier where
\* the operation is about one object, or Unknown.
LEMMA ResolveTypes ==
  ASSUME NEW method, NEW uri, Resolve(method, uri) # Unknown
  PROVE  /\ Resolve(method, uri).resource \in Resources
         /\ Resolve(method, uri).action \in Actions
         /\ Supports(Resolve(method, uri).resource, Resolve(method, uri).action)
         /\ \/ Resolve(method, uri).action \in {"list", "create"}
            \/ Resolve(method, uri).id \in Identifiers
  <1> DEFINE parts    == Parts(uri)
             resource == {r \in Resources : parts # <<>> /\ Plural[r] = parts[1]}
             route    == Route(method, parts)
             ok(r)    == /\ Supports(r, route[1])
                         /\ route[1] \in {"list", "create"} \/ route[2] \in Identifiers
             chosen   == CHOOSE r \in resource : ok(r)
  <1>1. \E r \in resource : ok(r)
    BY DEF Resolve
  <1>2. chosen \in resource /\ ok(chosen)
    BY <1>1
  <1>3. Resolve(method, uri) = [resource |-> chosen, action |-> route[1], id |-> route[2],
                                version |-> Version(uri), query |-> uri.query]
    BY DEF Resolve
  <1> HIDE DEF route, parts
  <1>4. QED
    BY <1>2, <1>3 DEF Supports, Actions

-----------------------------------------------------------------------------
(* The invariant is inductive *)

\* The invariant holds before the first request.
LEMMA InitIInv == Init => IInv
  <1> SUFFICES ASSUME Init PROVE IInv
    OBVIOUS
  <1>1. ASSUME NEW id \in DOMAIN InitialObjects
        PROVE  InitialObjects[id].resource \in Resources /\ InitialObjects[id].spec \in Specs
    BY <1>1, ObjectsAssumption
  <1>2. store \in [Ids -> Objects \cup {Nil}]
    BY <1>1 DEF Init, Objects, Versions
  <1>3. \A id \in Ids : store[id] # Nil => store[id].version = 1 /\ store[id].spec \in Specs
    BY <1>1 DEF Init
  <1>4. past \in [Ids -> SUBSET LabelMaps]
    BY <1>3, SpecLabels DEF Init
  <1>5. TypeOK
    BY <1>2, <1>4 DEF Init, TypeOK, PCs
  <1>6. CursorInv /\ VerdictInv /\ SnapshotInv /\ SnapshotsSound
    BY DEF Init, CursorInv, VerdictInv, SnapshotInv, SnapshotsSound, Working
  <1>7. StoreInv
    BY <1>3 DEF Init, StoreInv
  <1>8. QED
    BY <1>5, <1>6, <1>7 DEF IInv

\* A step that leaves the daemon's state alone and gives slot s a state that satisfies
\* its share of the invariant.
LEMMA SlotStep ==
  ASSUME IInv, NEW s \in Slots,
         UNCHANGED daemon,
         NEW p \in PCs, NEW q \in Requests \cup {Nil}, NEW n \in 0..5, NEW sn \in Snapshots \cup {Nil},
         pc' = [pc EXCEPT ![s] = p], rq' = [rq EXCEPT ![s] = q],
         k' = [k EXCEPT ![s] = n], snap' = [snap EXCEPT ![s] = sn],
         p # "idle" => q # Nil,
         p \in Working => Evaluated(q) /\ n \in 1..5,
         p \in Working \ {"evaluate"} =>
           /\ n \in 1..4
           /\ MatchingOf[q][n] # Nil
           /\ NeedsState(MatchingOf[q][n], OpOf[q], q.headers),
         p = "allow" =>
           \/ ~Evaluated(q) /\ Immediate(q)
           \/ /\ Evaluated(q) /\ n \in 1..4 /\ MatchingOf[q][n] # Nil
              /\ permission(MatchingOf[q][n], OpOf[q], q.body, q.headers, sn),
         sn # Nil =>
           /\ sn.id \in Ids /\ sn.version <= index
           /\ sn.labels \in past[sn.id]
           /\ store[sn.id] # Nil /\ store[sn.id].version = sn.version =>
                sn.labels = store[sn.id].spec.labels /\ sn.spec \in {store[sn.id].spec, Nil}
  PROVE  IInv'
  <1> USE DEF IInv
  <1>1. TypeOK'
    BY DEF TypeOK, daemon
  <1>2. CursorInv'
    BY DEF TypeOK, CursorInv
  <1>3. VerdictInv'
    BY DEF TypeOK, VerdictInv, Grants
  <1>4. StoreInv'
    BY DEF StoreInv, daemon
  <1>5. SnapshotInv' /\ SnapshotsSound'
    BY DEF TypeOK, SnapshotInv, SnapshotsSound, daemon
  <1>6. QED
    BY <1>1, <1>2, <1>3, <1>4, <1>5

\* A slot that is done satisfies its share of the invariant.
LEMMA FinishStep ==
  ASSUME TypeOK, CursorInv, VerdictInv, NEW s \in Slots, Finish(s)
  PROVE  /\ pc' \in [Slots -> PCs] /\ rq' \in [Slots -> Requests \cup {Nil}]
         /\ k' \in [Slots -> 0..5] /\ snap' \in [Slots -> Snapshots \cup {Nil}]
         /\ \A t \in Slots : pc'[t] # "idle" => rq'[t] # Nil
         /\ CursorInv' /\ VerdictInv'
         /\ \A t \in Slots : snap'[t] # Nil => snap'[t] = snap[t]
  <1>1. /\ pc' \in [Slots -> PCs] /\ rq' \in [Slots -> Requests \cup {Nil}]
        /\ k' \in [Slots -> 0..5] /\ snap' \in [Slots -> Snapshots \cup {Nil}]
        /\ \A t \in Slots : pc'[t] # "idle" => rq'[t] # Nil
        /\ \A t \in Slots : snap'[t] # Nil => snap'[t] = snap[t]
    BY DEF TypeOK, Finish, PCs
  <1>2. CursorInv'
    BY DEF TypeOK, CursorInv, Finish, Working
  <1>3. VerdictInv'
    BY DEF TypeOK, VerdictInv, Finish, Grants
  <1>4. QED
    BY <1>1, <1>2, <1>3

\* A write to the store outdates every snapshot of the object.
LEMMA WriteStep ==
  ASSUME TypeOK, StoreInv, SnapshotInv, SnapshotsSound,
         NEW id \in Ids, NEW object \in Objects \cup {Nil}, Write(id, object),
         object # Nil => object.version = index + 1,
         \A t \in Slots : snap'[t] # Nil => snap'[t] = snap[t]
  PROVE  /\ store' \in [Ids -> Objects \cup {Nil}] /\ index' \in Nat
         /\ past' \in [Ids -> SUBSET LabelMaps]
         /\ StoreInv' /\ SnapshotInv' /\ SnapshotsSound'
  <1>1. object # Nil => object.spec.labels \in LabelMaps
    BY SpecLabels DEF Objects
  <1>2. /\ store' \in [Ids -> Objects \cup {Nil}] /\ index' \in Nat
        /\ past' \in [Ids -> SUBSET LabelMaps]
    BY <1>1 DEF TypeOK, Write
  <1>3. \A i \in Ids : store[i] # Nil => store[i].version \in Nat
    BY DEF TypeOK, Objects
  <1>4. \A t \in Slots : snap[t] # Nil => snap[t].version \in Nat
    BY DEF TypeOK, Snapshots
  <1>5. StoreInv'
    BY <1>3 DEF TypeOK, StoreInv, Write
  <1>6. SnapshotInv'
    BY <1>4 DEF TypeOK, SnapshotInv, Write
  <1>7. SnapshotsSound'
    BY <1>4 DEF TypeOK, SnapshotInv, SnapshotsSound, Write
  <1>8. QED
    BY <1>2, <1>5, <1>6, <1>7

\* What Evaluate is given for a request is what Matching computes.
LEMMA MatchingTypes ==
  ASSUME NEW r \in Requests, Evaluated(r)
  PROVE  MatchingOf[r] = Matching(r)
  BY DEF MatchingOf

\* A version of a service as the daemon keeps it.
LEMMA UpdatedType ==
  ASSUME NEW old \in Objects, NEW r \in Requests, Updated(old, r) # Nil
  PROVE  Updated(old, r) \in Versions
  <1>1. old.spec \in Specs /\ old.auth \in Values \cup {Nil} /\ old.prev \in Versions \cup {Nil}
    BY DEF Objects
  <1>2. old.prev # Nil => old.prev.auth \in Values \cup {Nil}
    BY <1>1 DEF Versions
  <1>3. r.body.spec \in Specs \cup {Nil} /\ r.headers.registryAuth \in Values \cup {Nil}
    BY RequestTypes
  <1>4. QED
    BY <1>1, <1>2, <1>3 DEF Updated, Versions

\* Whoever Docker vouches for has a name.
LEMMA PrincipalType ==
  ASSUME NEW auth
  PROVE  Principal(auth) \in DOMAIN ServedConfig.clients \cup {"unidentified", "unknown"}
  BY DEF Principal

\* Every action of the plugin and of the daemon keeps the invariant.
LEMMA NextIInv == IInv /\ [Next]_vars => IInv'
  <1> SUFFICES ASSUME IInv, [Next]_vars PROVE IInv'
    OBVIOUS
  <1>t. TypeOK /\ CursorInv /\ VerdictInv /\ StoreInv /\ SnapshotInv /\ SnapshotsSound
    BY DEF IInv
  <1>s. ASSUME NEW s \in Slots
        PROVE  /\ pc[s] \in PCs /\ rq[s] \in Requests \cup {Nil} /\ k[s] \in 0..5
               /\ snap[s] \in Snapshots \cup {Nil}
               /\ pc = [pc EXCEPT ![s] = @] /\ rq = [rq EXCEPT ![s] = @]
               /\ k = [k EXCEPT ![s] = @] /\ snap = [snap EXCEPT ![s] = @]
               /\ pc[s] # "idle" => rq[s] \in Requests
               /\ snap[s] # Nil =>
                    /\ snap[s].id \in Ids /\ snap[s].version <= index
                    /\ snap[s].labels \in past[snap[s].id]
                    /\ store[snap[s].id] # Nil /\ store[snap[s].id].version = snap[s].version =>
                         snap[s].labels = store[snap[s].id].spec.labels /\ snap[s].spec \in {store[snap[s].id].spec, Nil}
    BY <1>t DEF TypeOK, SnapshotInv, SnapshotsSound
  <1>1. ASSUME NEW s \in Slots, Submit(s) PROVE IInv'
    <2>1. PICK r \in Requests : rq' = [rq EXCEPT ![s] = r]
      BY <1>1 DEF Submit
    <2>2. UNCHANGED daemon /\ pc' = [pc EXCEPT ![s] = "authorize"]
          /\ k' = [k EXCEPT ![s] = k[s]] /\ snap' = [snap EXCEPT ![s] = snap[s]]
      BY <1>1, <1>s DEF Submit
    <2>3. r # Nil
      BY RequestsAssumption
    <2>4. QED
      BY <1>s, <2>1, <2>2, <2>3, SlotStep DEF PCs, Working
  <1>2. ASSUME NEW s \in Slots, Authorize(s) PROVE IInv'
    <2>1. /\ UNCHANGED daemon /\ rq' = [rq EXCEPT ![s] = rq[s]] /\ snap' = [snap EXCEPT ![s] = snap[s]]
          /\ rq[s] \in Requests /\ rq[s] # Nil
      BY <1>2, <1>s, RequestsAssumption DEF Authorize
    <2>a. snap[s] \in Snapshots \cup {Nil} /\ k[s] \in 0..5
          /\ (snap[s] # Nil =>
                /\ snap[s].id \in Ids /\ snap[s].version <= index
                /\ snap[s].labels \in past[snap[s].id]
                /\ store[snap[s].id] # Nil /\ store[snap[s].id].version = snap[s].version =>
                     snap[s].labels = store[snap[s].id].spec.labels /\ snap[s].spec \in {store[snap[s].id].spec, Nil})
      BY <1>s
    <2>2. CASE Evaluated(rq[s])
      <3>1. pc' = [pc EXCEPT ![s] = "evaluate"] /\ k' = [k EXCEPT ![s] = 1]
        BY <1>2, <2>2 DEF Authorize
      <3>2. 1 \in 0..5 /\ 1 \in 1..5 /\ "evaluate" \in PCs /\ "evaluate" \notin Working \ {"evaluate"}
        BY DEF PCs
      <3>3. QED
        BY <2>1, <2>a, <2>2, <3>1, <3>2, SlotStep
    <2>3. CASE ~Evaluated(rq[s])
      <3>1. PICK p \in {"allow", "deny"} :
              /\ p = "allow" => Immediate(rq[s])
              /\ pc' = [pc EXCEPT ![s] = p] /\ k' = [k EXCEPT ![s] = k[s]]
        BY <1>2, <1>s, <2>3 DEF Authorize
      <3>2. QED
        BY <1>s, <2>1, <2>3, <3>1, SlotStep DEF PCs, Working
    <2>4. QED
      BY <2>2, <2>3
  <1>w. ASSUME NEW s \in Slots, pc[s] \in Working
        PROVE  /\ Evaluated(rq[s]) /\ k[s] \in 1..5 /\ rq[s] \in Requests /\ rq[s] # Nil
               /\ pc[s] # "evaluate" => /\ k[s] \in 1..4
                                       /\ MatchingOf[rq[s]][k[s]] # Nil
                                       /\ NeedsState(MatchingOf[rq[s]][k[s]], OpOf[rq[s]], rq[s].headers)
    BY <1>t, <1>s, <1>w, RequestsAssumption DEF CursorInv, Working
  <1>n. ASSUME NEW s \in Slots, pc[s] \in Working, k[s] < 5, TryNext(s), UNCHANGED <<rq, daemon>>
        PROVE  IInv'
    <2>1. pc' = [pc EXCEPT ![s] = "evaluate"] /\ k' = [k EXCEPT ![s] = k[s] + 1]
          /\ snap' = [snap EXCEPT ![s] = Nil] /\ rq' = [rq EXCEPT ![s] = rq[s]] /\ UNCHANGED daemon
      BY <1>n, <1>s DEF TryNext
    <2>2. k[s] + 1 \in 1..5 /\ k[s] + 1 \in 0..5
      BY <1>n, <1>w
    <2>3. QED
      BY <1>s, <1>n, <1>w, <2>1, <2>2, SlotStep DEF PCs, Working
  <1>m. ASSUME NEW s \in Slots, pc[s] \in Working, NEW p \in PCs, pc' = [pc EXCEPT ![s] = p],
               p # "evaluate", UNCHANGED <<k, snap, rq, daemon>>,
               p \in Working \cup {"allow"} => k[s] \in 1..4 /\ MatchingOf[rq[s]][k[s]] # Nil,
               p \in Working => NeedsState(MatchingOf[rq[s]][k[s]], OpOf[rq[s]], rq[s].headers),
               p = "allow" => Grants(s)
        PROVE  IInv'
    <2>1. /\ rq' = [rq EXCEPT ![s] = rq[s]] /\ k' = [k EXCEPT ![s] = k[s]]
          /\ snap' = [snap EXCEPT ![s] = snap[s]] /\ UNCHANGED daemon
      BY <1>m, <1>s
    <2>a. snap[s] \in Snapshots \cup {Nil} /\ k[s] \in 0..5
          /\ (snap[s] # Nil =>
                /\ snap[s].id \in Ids /\ snap[s].version <= index
                /\ snap[s].labels \in past[snap[s].id]
                /\ store[snap[s].id] # Nil /\ store[snap[s].id].version = snap[s].version =>
                     snap[s].labels = store[snap[s].id].spec.labels /\ snap[s].spec \in {store[snap[s].id].spec, Nil})
      BY <1>s
    <2>b. rq[s] \in Requests /\ rq[s] # Nil /\ Evaluated(rq[s]) /\ k[s] \in 1..5
      BY <1>m, <1>w
    <2>c. p = "allow" => permission(MatchingOf[rq[s]][k[s]], OpOf[rq[s]], rq[s].body, rq[s].headers, snap[s])
      BY <1>m DEF Grants
    <2>d. /\ p # "idle" => rq[s] # Nil
          /\ p \in Working => Evaluated(rq[s]) /\ k[s] \in 1..5
          /\ p \in Working \ {"evaluate"} =>
               /\ k[s] \in 1..4
               /\ MatchingOf[rq[s]][k[s]] # Nil
               /\ NeedsState(MatchingOf[rq[s]][k[s]], OpOf[rq[s]], rq[s].headers)
          /\ p = "allow" =>
               \/ ~Evaluated(rq[s]) /\ Immediate(rq[s])
               \/ /\ Evaluated(rq[s]) /\ k[s] \in 1..4 /\ MatchingOf[rq[s]][k[s]] # Nil
                  /\ permission(MatchingOf[rq[s]][k[s]], OpOf[rq[s]], rq[s].body, rq[s].headers, snap[s])
      BY <1>m, <2>b, <2>c
    <2>e. rq[s] \in Requests \cup {Nil} /\ pc' = [pc EXCEPT ![s] = p]
      BY <1>m, <2>b
    <2>2. QED
      BY <2>a, <2>d, <2>e, <2>1, SlotStep
  <1>3. ASSUME NEW s \in Slots, Evaluate(s) PROVE IInv'
    <2>1. pc[s] \in Working /\ UNCHANGED <<rq, daemon>>
      BY <1>3 DEF Evaluate, Working
    <2>2. CASE pc' = [pc EXCEPT ![s] = "deny"] /\ UNCHANGED <<k, snap>>
      BY <1>m, <2>1, <2>2 DEF PCs, Working
    <2>3. CASE k[s] < 5 /\ TryNext(s)
      BY <1>n, <2>1, <2>3
    <2>4. CASE /\ k[s] < 5 /\ MatchingOf[rq[s]][k[s]] # Nil
               /\ NeedsState(MatchingOf[rq[s]][k[s]], OpOf[rq[s]], rq[s].headers)
               /\ pc' = [pc EXCEPT ![s] = "lookup"] /\ UNCHANGED <<k, snap>>
      <3>1. k[s] \in 1..4
        BY <1>w, <2>1, <2>4
      <3>2. QED
        BY <1>m, <2>1, <2>4, <3>1 DEF PCs
    <2>5. CASE /\ k[s] < 5 /\ MatchingOf[rq[s]][k[s]] # Nil /\ Grants(s)
               /\ pc' = [pc EXCEPT ![s] = "allow"] /\ UNCHANGED <<k, snap>>
      <3>1. k[s] \in 1..4
        BY <1>w, <2>1, <2>5
      <3>2. QED
        BY <1>m, <2>1, <2>5, <3>1 DEF PCs, Working
    <2>6. QED
      BY <1>3, <2>2, <2>3, <2>4, <2>5 DEF Evaluate
  <1>4. ASSUME NEW s \in Slots, Callback(s) PROVE IInv'
    <2>1. pc[s] \in Working /\ pc[s] # "evaluate" /\ UNCHANGED <<rq, daemon>>
      BY <1>4 DEF Callback, Working
    <2>2. CASE pc' = [pc EXCEPT ![s] = "reading"] /\ UNCHANGED <<k, snap>>
      BY <1>m, <1>w, <2>1, <2>2 DEF PCs, Working
    <2>3. CASE TryNext(s)
      BY <1>n, <1>w, <2>1, <2>3
    <2>4. QED
      BY <1>4, <2>2, <2>3 DEF Callback
  <1>5. ASSUME NEW s \in Slots, LookupFails(s) PROVE IInv'
    <2>1. pc[s] \in Working /\ pc[s] # "evaluate" /\ UNCHANGED <<rq, daemon>> /\ TryNext(s)
      BY <1>5 DEF LookupFails, Working
    <2>2. QED
      BY <1>n, <1>w, <2>1
  <1>6. ASSUME NEW s \in Slots, Judge(s) PROVE IInv'
    <2>1. pc[s] \in Working /\ pc[s] # "evaluate" /\ UNCHANGED <<rq, daemon>>
      BY <1>6 DEF Judge, Working
    <2>2. CASE Grants(s) /\ pc' = [pc EXCEPT ![s] = "allow"] /\ UNCHANGED <<k, snap>>
      BY <1>m, <1>w, <2>1, <2>2 DEF PCs, Working
    <2>3. CASE TryNext(s)
      BY <1>n, <1>w, <2>1, <2>3
    <2>4. QED
      BY <1>6, <2>2, <2>3 DEF Judge
  <1>7. ASSUME NEW s \in Slots, Read(s) PROVE IInv'
    <2>1. pc[s] \in Working /\ pc[s] # "evaluate"
      BY <1>7 DEF Read, Working
    <2>2. PICK id \in Found(OpOf[rq[s]].resource, OpOf[rq[s]].id) :
            snap' = [snap EXCEPT ![s] =
                       [id |-> id, version |-> store[id].version, labels |-> store[id].spec.labels,
                        spec |-> IF store[id].resource = "service" THEN store[id].spec ELSE Nil]]
      BY <1>7 DEF Read
    <2> DEFINE sn == [id |-> id, version |-> store[id].version, labels |-> store[id].spec.labels,
                      spec |-> IF store[id].resource = "service" THEN store[id].spec ELSE Nil]
    <2>3. id \in Ids /\ store[id] \in Objects /\ store[id] # Nil
      BY <1>t, <2>2 DEF Found, TypeOK
    <2>4. sn \in Snapshots
      BY <2>3, SpecLabels, DockAssumption DEF Snapshots, Objects
    <2>5. /\ sn.id \in Ids /\ sn.version <= index /\ sn.labels \in past[sn.id]
          /\ sn.labels = store[sn.id].spec.labels /\ sn.spec \in {store[sn.id].spec, Nil}
      BY <1>t, <2>3 DEF StoreInv
    <2>6. /\ pc' = [pc EXCEPT ![s] = "answered"] /\ rq' = [rq EXCEPT ![s] = rq[s]]
          /\ k' = [k EXCEPT ![s] = k[s]] /\ UNCHANGED daemon
      BY <1>7, <1>s DEF Read
    <2> HIDE DEF sn
    <2>7. snap' = [snap EXCEPT ![s] = sn]
      BY <2>2 DEF sn
    <2>8. QED
      BY <1>s, <1>w, <2>1, <2>4, <2>5, <2>6, <2>7, SlotStep DEF PCs, Working
  <1>8. ASSUME NEW s \in Slots, Refuse(s) PROVE IInv'
    <2>1. TypeOK'
      BY <1>8, <1>t, FinishStep DEF Refuse, TypeOK, daemon
    <2>2. StoreInv' /\ SnapshotInv' /\ SnapshotsSound'
      BY <1>8, <1>t, FinishStep DEF Refuse, StoreInv, SnapshotInv, SnapshotsSound, daemon
    <2>3. QED
      BY <1>8, <1>t, <2>1, <2>2, FinishStep DEF Refuse, IInv
  <1>f. ASSUME NEW s \in Slots, Finish(s), NEW id \in Ids, NEW object \in Objects \cup {Nil},
               Write(id, object), object # Nil => object.version = index + 1, last' \in Events \cup {Nil}
        PROVE  IInv'
    <2>1. CursorInv' /\ VerdictInv' /\ \A t \in Slots : snap'[t] # Nil => snap'[t] = snap[t]
      BY <1>f, <1>t, FinishStep
    <2>2. StoreInv' /\ SnapshotInv' /\ SnapshotsSound'
      BY <1>f, <1>t, <2>1, WriteStep
    <2>3. TypeOK'
      BY <1>f, <1>t, <2>1, FinishStep, WriteStep DEF TypeOK
    <2>4. QED
      BY <2>1, <2>2, <2>3 DEF IInv
  <1>e. ASSUME NEW r \in Requests, NEW resource \in Resources \cup {"unknown"},
               NEW action \in Actions \cup {"unknown"}, NEW id \in Ids \cup {""},
               Log(r, resource, action, id)
        PROVE  last' \in Events
    <2>1. Principal(r.auth) \in DOMAIN ServedConfig.clients \cup {"unidentified", "unknown"}
      BY PrincipalType
    <2>2. QED
      BY <1>e, <2>1 DEF Log, Events
  <1>a. ASSUME NEW s \in Slots, pc[s] = "allow"
        PROVE  /\ rq[s] \in Requests
               /\ OpOf[rq[s]].resource \in Resources \cup {"unknown"}
               /\ OpOf[rq[s]].action \in Actions \cup {"unknown"}
               /\ OpOf[rq[s]].action # "unknown" => OpOf[rq[s]].resource \in Resources
    <2>1. rq[s] \in Requests
      BY <1>a, <1>s
    <2>2. OpOf[rq[s]] = Resolve(rq[s].method, rq[s].uri)
      BY <2>1, RequestTypes DEF Op
    <2>3. CASE OpOf[rq[s]] = Unknown
      <3>1. OpOf[rq[s]].resource = "unknown" /\ OpOf[rq[s]].action = "unknown"
        BY <2>3, UnknownFields
      <3>2. QED
        BY <2>1, <3>1
    <2>4. CASE OpOf[rq[s]] # Unknown
      <3>1. OpOf[rq[s]].resource \in Resources /\ OpOf[rq[s]].action \in Actions
        BY <2>2, <2>4, ResolveTypes
      <3>2. QED
        BY <2>1, <3>1
    <2>5. QED
      BY <2>3, <2>4
  <1>9. ASSUME NEW s \in Slots, ExecuteUpdate(s) PROVE IInv'
    <2> DEFINE op == OpOf[rq[s]]
    <2>1. PICK id \in Found("service", op.id) :
            LET old == store[id]
                new == Updated(old, rq[s])
            IN  /\ new # Nil
                /\ Write(id, [resource |-> "service", version |-> index + 1, spec |-> new.spec,
                             auth |-> new.auth, prev |-> [spec |-> old.spec, auth |-> old.auth]])
                /\ Log(rq[s], "service", "update", id)
      BY <1>9 DEF ExecuteUpdate
    <2>2. id \in Ids /\ store[id] \in Objects
      BY <1>t DEF Found, TypeOK
    <2>3. rq[s] \in Requests /\ Finish(s)
      BY <1>9, <1>a DEF ExecuteUpdate
    <2>4. Updated(store[id], rq[s]) \in Versions
      BY <2>1, <2>2, <2>3, UpdatedType
    <2>5. [resource |-> "service", version |-> index + 1, spec |-> Updated(store[id], rq[s]).spec,
           auth |-> Updated(store[id], rq[s]).auth, prev |-> [spec |-> store[id].spec, auth |-> store[id].auth]] \in Objects
      BY <1>t, <2>2, <2>4 DEF TypeOK, Objects, Versions, Resources
    <2>6. last' \in Events
      BY <1>e, <2>1, <2>2, <2>3 DEF Resources, Actions
    <2>7. QED
      BY <1>f, <2>1, <2>2, <2>3, <2>5, <2>6
  <1>10. ASSUME NEW s \in Slots, ExecuteCreate(s) PROVE IInv'
    <2> DEFINE op == OpOf[rq[s]]
               object == [resource |-> op.resource, version |-> index + 1, spec |-> rq[s].body.spec,
                          auth |-> rq[s].headers.registryAuth, prev |-> Nil]
    <2>1. PICK id \in Fresh : Write(id, object) /\ Log(rq[s], op.resource, "create", id)
      BY <1>10 DEF ExecuteCreate
    <2>2. id \in Ids
      BY DEF Fresh
    <2>3. rq[s] \in Requests /\ Finish(s) /\ op.resource \in Resources /\ op.action = "create" /\ rq[s].body.spec # Nil
      BY <1>10, <1>a DEF ExecuteCreate
    <2>5. object \in Objects
      BY <1>t, <2>3, RequestTypes DEF TypeOK, Objects
    <2>6. last' \in Events
      BY <1>e, <2>1, <2>2, <2>3 DEF Actions
    <2>7. QED
      BY <1>f, <2>1, <2>2, <2>3, <2>5, <2>6
  <1>11. ASSUME NEW s \in Slots, ExecuteDelete(s) PROVE IInv'
    <2> DEFINE op == OpOf[rq[s]]
    <2>1. PICK id \in Found(op.resource, op.id) : Write(id, Nil) /\ Log(rq[s], op.resource, "delete", id)
      BY <1>11 DEF ExecuteDelete
    <2>2. id \in Ids
      BY DEF Found
    <2>3. rq[s] \in Requests /\ Finish(s) /\ op.resource \in Resources
      BY <1>11, <1>a DEF ExecuteDelete
    <2>4. last' \in Events
      BY <1>e, <2>1, <2>2, <2>3 DEF Actions
    <2>5. QED
      BY <1>f, <2>1, <2>2, <2>3, <2>4
  <1>g. ASSUME NEW s \in Slots, Finish(s), UNCHANGED <<store, index, past>>, last' \in Events
        PROVE  IInv'
    <2>1. TypeOK'
      BY <1>g, <1>t, FinishStep DEF TypeOK
    <2>2. StoreInv' /\ SnapshotInv' /\ SnapshotsSound'
      BY <1>g, <1>t, FinishStep DEF StoreInv, SnapshotInv, SnapshotsSound
    <2>3. QED
      BY <1>g, <1>t, <2>1, <2>2, FinishStep DEF IInv
  <1>12. ASSUME NEW s \in Slots, ExecuteInspect(s) PROVE IInv'
    <2> DEFINE op == OpOf[rq[s]]
    <2>1. PICK id \in Found(op.resource, op.id) : Log(rq[s], op.resource, "inspect", id)
      BY <1>12 DEF ExecuteInspect
    <2>2. id \in Ids /\ rq[s] \in Requests /\ op.resource \in Resources
      BY <1>12, <1>a DEF Found, ExecuteInspect
    <2>3. last' \in Events
      BY <1>e, <2>1, <2>2 DEF Actions
    <2>4. QED
      BY <1>g, <1>12, <2>3 DEF ExecuteInspect
  <1>13. ASSUME NEW s \in Slots, ExecuteOther(s) PROVE IInv'
    <2> DEFINE op == OpOf[rq[s]]
    <2>1. rq[s] \in Requests /\ op.resource \in Resources \cup {"unknown"} /\ op.action \in Actions \cup {"unknown"}
      BY <1>13, <1>a DEF ExecuteOther
    <2>2. last' \in Events
      BY <1>e, <1>13, <2>1 DEF ExecuteOther
    <2>3. QED
      BY <1>g, <1>13, <2>2 DEF ExecuteOther
  <1>14. ASSUME Elsewhere PROVE IInv'
    <2>1. ASSUME NEW id \in Ids, NEW object \in Objects \cup {Nil}, Write(id, object),
                 object # Nil => object.version = index + 1
          PROVE  IInv'
      <3>1. UNCHANGED slots /\ last' \in Events
        BY <1>14 DEF Elsewhere, Events
      <3>2. CursorInv' /\ VerdictInv' /\ \A t \in Slots : snap'[t] # Nil => snap'[t] = snap[t]
        BY <1>t, <3>1 DEF slots, CursorInv, VerdictInv, Grants
      <3>3. StoreInv' /\ SnapshotInv' /\ SnapshotsSound'
        BY <1>t, <2>1, <3>2, WriteStep
      <3>4. TypeOK'
        BY <1>t, <2>1, <3>1, <3>2, WriteStep DEF TypeOK, slots
      <3>5. QED
        BY <3>2, <3>3, <3>4 DEF IInv
    <2>2. ASSUME NEW o \in Pool
          PROVE  o.resource \in Resources /\ o.spec \in Specs
      BY ObjectsAssumption
    <2>3. ASSUME NEW id \in Ids, NEW o \in Pool, store[id] # Nil,
                 Write(id, [resource |-> o.resource, version |-> index + 1, spec |-> o.spec,
                            auth |-> store[id].auth, prev |-> [spec |-> store[id].spec, auth |-> store[id].auth]])
          PROVE  IInv'
      <3>1. store[id] \in Objects
        BY <1>t, <2>3 DEF TypeOK
      <3>2. [resource |-> o.resource, version |-> index + 1, spec |-> o.spec,
             auth |-> store[id].auth, prev |-> [spec |-> store[id].spec, auth |-> store[id].auth]] \in Objects
        BY <1>t, <2>2, <3>1 DEF Objects, Versions, TypeOK
      <3>3. QED
        BY <2>1, <2>3, <3>2
    <2>4. ASSUME NEW id \in Ids, NEW o \in Pool,
                 Write(id, [resource |-> o.resource, version |-> index + 1, spec |-> o.spec,
                            auth |-> Nil, prev |-> Nil])
          PROVE  IInv'
      <3>1. [resource |-> o.resource, version |-> index + 1, spec |-> o.spec,
             auth |-> Nil, prev |-> Nil] \in Objects
        BY <1>t, <2>2 DEF Objects, TypeOK
      <3>2. QED
        BY <2>1, <2>4, <3>1
    <2>5. QED
      BY <1>14, <2>1, <2>3, <2>4 DEF Elsewhere
  <1>15. CASE UNCHANGED vars
    BY <1>15, <1>t DEF vars, IInv, TypeOK, CursorInv, VerdictInv, Grants, StoreInv, SnapshotInv, SnapshotsSound
  <1>20. QED
    BY <1>1, <1>2, <1>3, <1>4, <1>5, <1>6, <1>7, <1>8, <1>9, <1>10, <1>11, <1>12, <1>13, <1>14, <1>15
       DEF Next, Handle, Execute

\* The inductive invariant holds in every reachable state.
THEOREM Invariant == SafetySpec => []IInv
  BY InitIInv, NextIInv, PTL DEF SafetySpec

\* Whatever requests arrive and in whatever order, the plugin's and the daemon's
\* variables keep their types; in particular the cursor of Evaluate never runs off its
\* list of four candidates.
THEOREM TypeCorrect == SafetySpec => []TypeOK
  <1>1. IInv => TypeOK
    BY DEF IInv
  <1>2. QED
    BY <1>1, Invariant, PTL

\* A snapshot whose version is current shows the object as it is (dockerapi.Inspect
\* and the version comparison in permission).
THEOREM SnapshotsAreSound == SafetySpec => []SnapshotsSound
  <1>1. IInv => SnapshotsSound
    BY DEF IInv
  <1>2. QED
    BY <1>1, Invariant, PTL

-----------------------------------------------------------------------------
(* Denials *)

\* The i-th candidate for request r does not exist or does not grant r by itself.
Refused(r, i) ==
  MatchingOf[r][i] # Nil => ~permission(MatchingOf[r][i], OpOf[r], r.body, r.headers, Nil)

\* The cursor has left no candidate behind that grants the request by itself, and a
\* denial comes after the last of them.
Exhausted ==
  \A s \in Slots :
    /\ pc[s] \in Working => \A i \in 1..4 : i < k[s] => Refused(rq[s], i)
    /\ pc[s] = "deny" /\ Evaluated(rq[s]) => \A i \in 1..4 : Refused(rq[s], i)

\* A permission that needs Docker's state grants nothing without it, and what one that
\* does not says is the same whatever the snapshot.
LEMMA PermissionWithoutState ==
  ASSUME NEW p, NEW op, NEW body, NEW headers, NEW state
  PROVE  /\ NeedsState(p, op, headers) => ~permission(p, op, body, headers, Nil)
         /\ ~NeedsState(p, op, headers) =>
              (permission(p, op, body, headers, state) <=> permission(p, op, body, headers, Nil))
  <1> DEFINE looks == p.selector # Nil \/ p.mutation # Nil
             safe  == IsServiceUpdate(op) => safeUpdate(op, p, headers)
  <1>1. NeedsState(p, op, headers) <=> ~Unconditional(p) /\ safe /\ looks
    BY DEF NeedsState
  <1>2. CASE Unconditional(p)
    BY <1>1, <1>2 DEF permission
  <1>3. CASE ~Unconditional(p) /\ looks
    BY <1>1, <1>3 DEF permission
  <1>4. CASE ~Unconditional(p) /\ ~looks
    BY <1>1, <1>4 DEF permission
  <1>5. QED
    BY <1>2, <1>3, <1>4

\* A step that moves slot s alone, to a place where it has its share of Exhausted.
LEMMA ExhaustedStep ==
  ASSUME TypeOK, Exhausted, NEW s \in Slots, NEW p, NEW n,
         pc' = [pc EXCEPT ![s] = p], k' = [k EXCEPT ![s] = n], UNCHANGED rq,
         p \in Working => \A i \in 1..4 : i < n => Refused(rq[s], i),
         p = "deny" /\ Evaluated(rq[s]) => \A i \in 1..4 : Refused(rq[s], i)
  PROVE  Exhausted'
  <1> SUFFICES ASSUME NEW t \in Slots
               PROVE  /\ pc'[t] \in Working => \A i \in 1..4 : i < k'[t] => Refused(rq[t], i)
                      /\ pc'[t] = "deny" /\ Evaluated(rq[t]) => \A i \in 1..4 : Refused(rq[t], i)
    BY DEF Exhausted, Refused
  <1>1. CASE t = s
    BY <1>1 DEF TypeOK
  <1>2. CASE t # s
    <2>1. pc'[t] = pc[t] /\ k'[t] = k[t]
      BY <1>2 DEF TypeOK
    <2>2. QED
      BY <2>1 DEF Exhausted
  <1>3. QED
    BY <1>1, <1>2

\* A slot that is emptied has no share in Exhausted.
LEMMA ExhaustedFinish ==
  ASSUME TypeOK, Exhausted, NEW s \in Slots, Finish(s)
  PROVE  Exhausted'
  <1> SUFFICES ASSUME NEW t \in Slots
               PROVE  /\ pc'[t] \in Working => \A i \in 1..4 : i < k'[t] => Refused(rq'[t], i)
                      /\ pc'[t] = "deny" /\ Evaluated(rq'[t]) => \A i \in 1..4 : Refused(rq'[t], i)
    BY DEF Exhausted, Refused
  <1>1. CASE t = s
    BY <1>1 DEF TypeOK, Finish, Working
  <1>2. CASE t # s
    <2>1. pc'[t] = pc[t] /\ k'[t] = k[t] /\ rq'[t] = rq[t]
      BY <1>2 DEF TypeOK, Finish
    <2>2. QED
      BY <2>1 DEF Exhausted
  <1>3. QED
    BY <1>1, <1>2

\* Every step of plugin and daemon keeps Exhausted.
LEMMA NextExhausted == IInv /\ Exhausted /\ [Next]_vars => Exhausted'
  <1> SUFFICES ASSUME IInv, Exhausted, [Next]_vars PROVE Exhausted'
    OBVIOUS
  <1>t. TypeOK
    BY DEF IInv
  <1>s. ASSUME NEW s \in Slots
        PROVE  /\ pc = [pc EXCEPT ![s] = @] /\ k = [k EXCEPT ![s] = k[s]] /\ k[s] \in 0..5
               /\ pc[s] \in Working =>
                    /\ k[s] \in 1..5
                    /\ \A i \in 1..4 : i < k[s] => Refused(rq[s], i)
               /\ pc[s] \in Working \ {"evaluate"} =>
                    /\ k[s] \in 1..4
                    /\ NeedsState(MatchingOf[rq[s]][k[s]], OpOf[rq[s]], rq[s].headers)
    BY <1>t DEF TypeOK, IInv, CursorInv, Exhausted
  \* The cursor moves on past a candidate that does not grant the request by itself.
  <1>n. ASSUME NEW s \in Slots, pc[s] \in Working, k[s] # 5, Refused(rq[s], k[s]), TryNext(s), UNCHANGED rq
        PROVE  Exhausted'
    <2>1. k[s] \in 1..4
      BY <1>n, <1>s
    <2>2. pc' = [pc EXCEPT ![s] = "evaluate"] /\ k' = [k EXCEPT ![s] = k[s] + 1]
      BY <1>n DEF TryNext
    <2>3. ASSUME NEW i \in 1..4, i < k[s] + 1 PROVE Refused(rq[s], i)
      <3>1. CASE i = k[s]
        BY <1>n, <3>1
      <3>2. CASE i < k[s]
        BY <1>n, <1>s, <3>2
      <3>3. QED
        BY <2>1, <2>3, <3>1, <3>2
    <2>4. QED
      BY <1>n, <1>t, <2>2, <2>3, ExhaustedStep
  \* The slot goes on at the same candidate.
  <1>m. ASSUME NEW s \in Slots, NEW p, p # "deny", pc[s] \in Working,
               pc' = [pc EXCEPT ![s] = p], UNCHANGED <<k, rq>>
        PROVE  Exhausted'
    <2>1. k' = [k EXCEPT ![s] = k[s]]
      BY <1>m, <1>s
    <2>2. \A i \in 1..4 : i < k[s] => Refused(rq[s], i)
      BY <1>m, <1>s
    <2>3. QED
      BY <1>m, <1>t, <2>1, <2>2, ExhaustedStep
  \* A candidate under lookup does not grant the request by itself.
  <1>l. ASSUME NEW s \in Slots, pc[s] \in Working \ {"evaluate"}
        PROVE  pc[s] \in Working /\ k[s] # 5 /\ Refused(rq[s], k[s])
    <2>1. pc[s] \in Working /\ k[s] # 5
      BY <1>l, <1>s
    <2>2. NeedsState(MatchingOf[rq[s]][k[s]], OpOf[rq[s]], rq[s].headers)
      BY <1>l, <1>s
    <2>3. QED
      BY <2>1, <2>2, PermissionWithoutState DEF Refused
  <1>1. ASSUME NEW s \in Slots, Submit(s) PROVE Exhausted'
    <2> SUFFICES ASSUME NEW t \in Slots
                 PROVE  /\ pc'[t] \in Working => \A i \in 1..4 : i < k'[t] => Refused(rq'[t], i)
                        /\ pc'[t] = "deny" /\ Evaluated(rq'[t]) => \A i \in 1..4 : Refused(rq'[t], i)
      BY DEF Exhausted, Refused
    <2>1. CASE t = s
      BY <1>1, <1>t, <2>1 DEF TypeOK, Submit, Working
    <2>2. CASE t # s
      <3>1. pc'[t] = pc[t] /\ k'[t] = k[t] /\ rq'[t] = rq[t]
        BY <1>1, <1>t, <2>2 DEF TypeOK, Submit
      <3>2. QED
        BY <3>1 DEF Exhausted
    <2>3. QED
      BY <2>1, <2>2
  <1>2. ASSUME NEW s \in Slots, Authorize(s) PROVE Exhausted'
    <2>1. CASE Evaluated(rq[s])
      <3>1. pc' = [pc EXCEPT ![s] = "evaluate"] /\ k' = [k EXCEPT ![s] = 1] /\ UNCHANGED rq
        BY <1>2, <2>1 DEF Authorize
      <3>2. \A i \in 1..4 : ~(i < 1)
        OBVIOUS
      <3>3. QED
        BY <1>t, <3>1, <3>2, ExhaustedStep
    <2>2. CASE ~Evaluated(rq[s])
      <3>1. PICK p \in {"allow", "deny"} : pc' = [pc EXCEPT ![s] = p]
        BY <1>2, <2>2 DEF Authorize
      <3>2. UNCHANGED rq /\ k' = [k EXCEPT ![s] = k[s]] /\ p \notin Working
        BY <1>2, <1>s, <2>2 DEF Authorize, Working
      <3>3. QED
        BY <1>t, <2>2, <3>1, <3>2, ExhaustedStep
    <2>3. QED
      BY <2>1, <2>2
  <1>3. ASSUME NEW s \in Slots, Evaluate(s) PROVE Exhausted'
    <2>1. pc[s] = "evaluate" /\ pc[s] \in Working /\ UNCHANGED rq
      BY <1>3 DEF Evaluate, Working
    <2>2. CASE k[s] = 5 /\ pc' = [pc EXCEPT ![s] = "deny"] /\ UNCHANGED <<k, snap>>
      <3>1. \A i \in 1..4 : Refused(rq[s], i)
        BY <1>s, <2>1, <2>2
      <3>2. k' = [k EXCEPT ![s] = k[s]]
        BY <1>s, <2>2
      <3>3. QED
        BY <1>t, <2>1, <2>2, <3>1, <3>2, ExhaustedStep
    <2>3. CASE k[s] < 5 /\ MatchingOf[rq[s]][k[s]] = Nil /\ TryNext(s)
      BY <1>n, <2>1, <2>3 DEF Refused
    <2>4. CASE pc' = [pc EXCEPT ![s] = "lookup"] /\ UNCHANGED <<k, snap>>
      BY <1>m, <2>1, <2>4
    <2>5. CASE /\ k[s] < 5
               /\ ~NeedsState(MatchingOf[rq[s]][k[s]], OpOf[rq[s]], rq[s].headers)
               /\ ~Grants(s) /\ TryNext(s)
      <3>1. Refused(rq[s], k[s])
        BY <2>5, PermissionWithoutState DEF Refused, Grants
      <3>2. QED
        BY <1>n, <2>1, <2>5, <3>1
    <2>6. CASE pc' = [pc EXCEPT ![s] = "allow"] /\ UNCHANGED <<k, snap>>
      BY <1>m, <2>1, <2>6
    <2>7. QED
      BY <1>3, <2>2, <2>3, <2>4, <2>5, <2>6 DEF Evaluate
  <1>4. ASSUME NEW s \in Slots, Callback(s) \/ LookupFails(s) \/ Judge(s) \/ Read(s) PROVE Exhausted'
    <2>1. pc[s] \in Working \ {"evaluate"} /\ UNCHANGED rq
      BY <1>4 DEF Callback, LookupFails, Judge, Read, Working
    <2>2. \/ TryNext(s)
          \/ \E p \in {"reading", "allow", "answered"} : pc' = [pc EXCEPT ![s] = p] /\ UNCHANGED k
      BY <1>4 DEF Callback, LookupFails, Judge, Read
    <2>3. QED
      BY <1>l, <1>m, <1>n, <2>1, <2>2
  <1>5. ASSUME NEW s \in Slots, Execute(s) \/ Refuse(s) PROVE Exhausted'
    <2>1. Finish(s)
      BY <1>5 DEF Execute, Refuse, ExecuteUpdate, ExecuteCreate, ExecuteDelete, ExecuteInspect, ExecuteOther
    <2>2. QED
      BY <1>t, <2>1, ExhaustedFinish
  <1>6. CASE UNCHANGED slots
    BY <1>6 DEF Exhausted, Refused, slots
  <1>7. ASSUME Elsewhere \/ UNCHANGED vars PROVE UNCHANGED slots
    BY <1>7 DEF Elsewhere, vars, slots
  <1>8. QED
    BY <1>1, <1>2, <1>3, <1>4, <1>5, <1>6, <1>7 DEF Next, Handle

\* A denied request has been tried against every permission that matches it: the loop in
\* Evaluate skips none, whatever failed lookups and refused callbacks it meets on the way.
THEOREM DenialsAreExhaustive == SafetySpec => []DenialExhaustive
  <1>1. Init => Exhausted
    BY DEF Init, Exhausted, Working
  <1>2. Exhausted => DenialExhaustive
    BY DEF Exhausted, DenialExhaustive, Refused
  <1>3. QED
    BY <1>1, <1>2, NextExhausted, Invariant, PTL DEF SafetySpec

-----------------------------------------------------------------------------
(* The plugin's own inspects *)

\* A permission of a valid configuration that makes the plugin look at Docker's state
\* is for an operation on one existing object (Config.Validate).
LEMMA LookupOperation ==
  ASSUME NEW r \in Requests, Evaluated(r), NEW i \in 1..4, MatchingOf[r][i] # Nil,
         MatchingOf[r][i].selector # Nil \/ MatchingOf[r][i].mutation # Nil
  PROVE  OpOf[r].action \in {"inspect", "update", "delete"}
  <1> DEFINE op == Op(r)
             name == Attribution(r)
             granted == Granted(name)
             key == Candidates(op)[i]
             p == MatchingOf[r][i]
  <1>1. key \in DOMAIN granted /\ p = granted[key]
    <2>1. p = Matching(r)[i]
      BY MatchingTypes
    <2>2. Matching(r)[i] = IF key \in DOMAIN granted THEN granted[key] ELSE Nil
      BY DEF Matching
    <2>3. QED
      BY <2>1, <2>2
  <1>2. name \in DOMAIN ServedConfig.clients
    BY DEF Evaluated, Configured
  <1>3. ValidPermission(key[1], key[2], p)
    BY <1>1, <1>2, ServedConfigAssumption DEF ValidConfig, Granted
  <1>4. key[2] \in {op.action, "*"}
    BY DEF Candidates
  <1>5. ~Unconditional(p)
    BY DEF Unconditional
  <1>6. key[2] = op.action /\ Applies(key[1], op.action, p)
    BY <1>3, <1>4, <1>5 DEF ValidPermission
  <1> HIDE DEF key, p, op
  <1>7. op.action \in {"inspect", "update", "delete"}
    BY <1>6 DEF Applies, p
  <1>8. QED
    BY <1>7, RequestTypes DEF op

\* Heads and tails of short paths.
LEMMA ShortPaths ==
  ASSUME NEW a, NEW b, NEW c
  PROVE  /\ <<a, b>> # <<>> /\ <<a, b, c>> # <<>>
         /\ Head(<<a, b>>) = a /\ Head(<<a, b, c>>) = a
         /\ Tail(<<a, b, c>>) = <<b, c>>
         /\ Len(<<b, c>>) = 2
  <1>1. <<a, b>> # <<>> /\ <<a, b, c>> # <<>> /\ Len(<<b, c>>) = 2
    OBVIOUS
  <1>2. Head(<<a, b>>) = a /\ Head(<<a, b, c>>) = a
    OBVIOUS
  <1>3. Tail(<<a, b, c>>) = <<b, c>>
    OBVIOUS
  <1>4. QED
    BY <1>1, <1>2, <1>3

\* A path is its segments.
LEMMA PathSegments ==
  ASSUME NEW S, NEW s \in Seq(S)
  PROVE  /\ Len(s) = 1 => s = <<s[1]>>
         /\ Len(s) = 2 => s = <<s[1], s[2]>>
         /\ Len(s) = 3 => s = <<s[1], s[2], s[3]>>
         /\ <<>> \o s = s
         /\ s # <<>> => Tail(s) \in Seq(S) /\ <<Head(s)>> \o Tail(s) = s
  <1>1. Len(s) = 1 => s = <<s[1]>>
    OBVIOUS
  <1>2. Len(s) = 2 => s = <<s[1], s[2]>>
    OBVIOUS
  <1>3. Len(s) = 3 => s = <<s[1], s[2], s[3]>>
    OBVIOUS
  <1>4. <<>> \o s = s
    OBVIOUS
  <1>5. s # <<>> => Tail(s) \in Seq(S) /\ <<Head(s)>> \o Tail(s) = s
    OBVIOUS
  <1>6. QED
    BY <1>1, <1>2, <1>3, <1>4, <1>5

\* The URIs with the segments of S and the queries of Q.
URIsOver(S, Q) == [clean : BOOLEAN, segments : Seq(S), query : Q]

\* Whatever Resolve accepts stands for one request only, for path segments of any kind: no
\* two different requests are judged as the same operation.
THEOREM ResolvesUniquely ==
  ASSUME NEW S, NEW Q, NEW method, NEW uri \in URIsOver(S, Q), Resolve(method, uri) # Unknown
  PROVE  Render(Resolve(method, uri)) = <<method, uri>>
  <1> DEFINE segs     == uri.segments
             parts    == Parts(uri)
             resource == {r \in Resources : parts # <<>> /\ Plural[r] = parts[1]}
             route    == Route(method, parts)
             ok(r)    == /\ Supports(r, route[1])
                         /\ route[1] \in {"list", "create"} \/ route[2] \in Identifiers
             chosen   == CHOOSE r \in resource : ok(r)
             version  == Version(uri)
             op == Resolve(method, uri)
  <1>1. uri.clean /\ Len(parts) \in 1..3 /\ \E r \in resource : ok(r)
    BY DEF Resolve
  <1>2. chosen \in resource /\ ok(chosen)
    BY <1>1
  <1>3. op = [resource |-> chosen, action |-> route[1], id |-> route[2], version |-> version, query |-> uri.query]
    BY DEF Resolve
  <1>4. segs \in Seq(S) /\ uri = [clean |-> TRUE, segments |-> segs, query |-> uri.query]
    BY <1>1 DEF URIsOver
  <1>5. /\ version = "" => parts = segs
        /\ version # "" => segs # <<>> /\ version = Head(segs) /\ parts = Tail(segs)
    BY DEF Version, Parts
  <1>6. parts \in Seq(S)
    <2> HIDE DEF segs, parts, version
    <2>1. QED
      BY <1>4, <1>5, PathSegments
  <1>7. Plural[chosen] = parts[1] /\ route[1] \in Actions
    <2>1. Plural[chosen] = parts[1] /\ Supports(chosen, route[1])
      BY <1>2
    <2> HIDE DEF chosen, route
    <2>2. QED
      BY <2>1 DEF Supports, Actions
  <1>8. \/ Len(parts) = 1 /\ method = "GET" /\ route = <<"list", "">>
        \/ Len(parts) = 2 /\ parts[2] = "create" /\ method = "POST" /\ route = <<"create", "">>
        \/ Len(parts) = 2 /\ method = "GET" /\ route = <<"inspect", parts[2]>>
        \/ Len(parts) = 2 /\ method = "DELETE" /\ route = <<"delete", parts[2]>>
        \/ Len(parts) = 3 /\ parts[3] = "update" /\ method = "POST" /\ route = <<"update", parts[2]>>
    BY <1>7 DEF Route, Actions
  <1> HIDE DEF segs, parts, resource, route, chosen, version, op
  <1> DEFINE prefix == IF version = "" THEN <<>> ELSE <<version>>
             path   == CASE route[1] = "list"   -> <<parts[1]>>
                         [] route[1] = "create" -> <<parts[1], "create">>
                         [] route[1] = "update" -> <<parts[1], route[2], "update">>
                         [] OTHER               -> <<parts[1], route[2]>>
             verb   == CASE route[1] \in {"create", "update"} -> "POST"
                         [] route[1] = "delete" -> "DELETE"
                         [] OTHER -> "GET"
  <1>9. Render(op) = <<verb, [clean |-> TRUE, segments |-> prefix \o path, query |-> uri.query]>>
    BY <1>3, <1>7 DEF Render
  <1>10. verb = method /\ path = parts
    <2>1. CASE Len(parts) = 1 /\ method = "GET" /\ route = <<"list", "">>
      BY <1>6, <2>1, PathSegments
    <2>2. CASE Len(parts) = 2 /\ parts[2] = "create" /\ method = "POST" /\ route = <<"create", "">>
      BY <1>6, <2>2, PathSegments
    <2>3. CASE Len(parts) = 2 /\ method = "GET" /\ route = <<"inspect", parts[2]>>
      BY <1>6, <2>3, PathSegments
    <2>4. CASE Len(parts) = 2 /\ method = "DELETE" /\ route = <<"delete", parts[2]>>
      BY <1>6, <2>4, PathSegments
    <2>5. CASE Len(parts) = 3 /\ parts[3] = "update" /\ method = "POST" /\ route = <<"update", parts[2]>>
      BY <1>6, <2>5, PathSegments
    <2>6. QED
      BY <1>8, <2>1, <2>2, <2>3, <2>4, <2>5
  <1> HIDE DEF path, verb
  <1>11. prefix \o parts = segs
    <2>1. CASE version = ""
      BY <1>4, <1>5, <2>1, PathSegments
    <2>2. CASE version # ""
      BY <1>4, <1>5, <2>2, PathSegments
    <2>3. QED
      BY <2>1, <2>2
  <1>12. Render(op) = <<method, [clean |-> TRUE, segments |-> segs, query |-> uri.query]>>
    BY <1>9, <1>10, <1>11
  <1>13. QED
    BY <1>4, <1>12, Zenon DEF op

\* The path of a lookup resolves to an inspect of the same object (Resolve and the path
\* that dockerapi.Client.Inspect builds).
LEMMA LookupResolves ==
  ASSUME NEW method, NEW uri, NEW op, op = Resolve(method, uri), op # Unknown, op.id \in Identifiers
  PROVE  Resolve("GET", InspectURI(op)) =
           [resource |-> op.resource, action |-> "inspect", id |-> op.id,
            version |-> op.version, query |-> NoQuery]
  <1> DEFINE plural == Plural[op.resource]
             u == InspectURI(op)
  <1>1. op.resource \in Resources
    BY ResolveTypes
  <1>2. op.version \in ApiVersions \cup {""}
    BY DEF Resolve, Version
  <1>3. plural \notin ApiVersions
    BY <1>1, SegmentAssumption
  <1>4. u.clean = TRUE /\ u.query = NoQuery
    BY DEF InspectURI
  <1>5. Version(u) = op.version /\ Parts(u) = <<plural, op.id>>
    <2> HIDE DEF u, plural
    <2>1. CASE op.version = ""
      <3>1. u.segments = <<plural, op.id>>
        BY <2>1 DEF InspectURI, u, plural
      <3>2. u.segments # <<>> /\ Head(u.segments) = plural
        BY <3>1, ShortPaths
      <3>3. Version(u) = ""
        BY <3>2, <1>3 DEF Version
      <3>4. QED
        BY <2>1, <3>1, <3>3 DEF Parts
    <2>2. CASE op.version # ""
      <3>1. u.segments = <<op.version, plural, op.id>>
        BY <2>2 DEF InspectURI, u, plural
      <3>2. u.segments # <<>> /\ Head(u.segments) = op.version /\ Tail(u.segments) = <<plural, op.id>>
        BY <3>1, ShortPaths
      <3>3. Version(u) = op.version
        BY <2>2, <3>2, <1>2 DEF Version
      <3>4. QED
        BY <2>2, <3>2, <3>3 DEF Parts
    <2>3. QED
      BY <2>1, <2>2
  <1>6. Route("GET", <<plural, op.id>>) = <<"inspect", op.id>>
    BY DEF Route
  <1>7. \A a, b \in Resources : Plural[a] = Plural[b] => a = b
    BY DEF Plural, Resources
  <1>8. Supports(op.resource, "inspect")
    BY <1>1 DEF Supports, Resources, Actions
  <1> HIDE DEF plural, u
  <1>9. \A r \in Resources : Plural[r] = plural <=> r = op.resource
    BY <1>1, <1>7 DEF plural
  <1> DEFINE parts == <<plural, op.id>>
             found == {r \in Resources : parts # <<>> /\ Plural[r] = parts[1]}
             route == Route("GET", parts)
             ok(r) == /\ Supports(r, route[1])
                      /\ route[1] \in {"list", "create"} \/ route[2] \in Identifiers
  <1>10. found = {op.resource}
    BY <1>1, <1>9, ShortPaths
  <1>11. route[1] = "inspect" /\ route[2] = op.id
    BY <1>6
  <1> HIDE DEF found, route
  <1>12. \E r \in found : ok(r)
    BY <1>8, <1>10, <1>11
  <1>13. (CHOOSE r \in found : ok(r)) = op.resource
    BY <1>10, <1>12
  <1>14. Len(parts) \in 1..3
    BY ShortPaths
  <1>15. Resolve("GET", u) =
           [resource |-> CHOOSE r \in found : ok(r), action |-> route[1], id |-> route[2],
            version |-> Version(u), query |-> u.query]
    BY <1>4, <1>5, <1>12, <1>14 DEF Resolve, found, route
  <1>16. QED
    BY <1>4, <1>5, <1>11, <1>13, <1>15 DEF u

\* The inspect that the plugin sends for a permission with a state constraint is never
\* denied by the plugin itself (Config.Validate, Inspect, Resolve, Authorize).
THEOREM OwnInspectsAllowed == SafetySpec => []OwnInspectAllowed
  <1>1. ASSUME IInv PROVE OwnInspectAllowed
    <2> SUFFICES ASSUME NEW s \in Slots, pc[s] = "lookup"
                 PROVE  Immediate(InspectRequest(OpOf[rq[s]]))
      BY DEF OwnInspectAllowed
    <2> DEFINE r == rq[s]
               op == OpOf[r]
               own == InspectRequest(op)
    <2>1. /\ r \in Requests /\ Evaluated(r) /\ k[s] \in 1..4
          /\ MatchingOf[r][k[s]] # Nil /\ NeedsState(MatchingOf[r][k[s]], op, r.headers)
      BY <1>1 DEF IInv, TypeOK, CursorInv, Working
    <2>2. op.action \in {"inspect", "update", "delete"}
      BY <2>1, LookupOperation DEF NeedsState
    <2>3. op = Resolve(r.method, r.uri) /\ op # Unknown
      BY <2>1, RequestTypes DEF Op, Evaluated
    <2> HIDE DEF op, r
    <2>4. op.id \in Identifiers
      BY <2>2, <2>3, ResolveTypes
    <2>5. Op(own) = [resource |-> op.resource, action |-> "inspect", id |-> op.id,
                     version |-> op.version, query |-> NoQuery]
      BY <2>3, <2>4, LookupResolves DEF InspectRequest, Op
    <2>6. Op(own) # Unknown /\ Op(own).action = "inspect" /\ Op(own).query = NoQuery
      BY <2>5, UnknownFields
    <2>7. own.headers.internal = <<Token>>
      BY DEF InspectRequest
    <2> HIDE DEF own
    <2>8. Present(own.headers) /\ Valid(own.headers)
      BY <2>7 DEF Present, Valid
    <2>9. Immediate(own)
      BY <2>6, <2>8 DEF Immediate, Attribution, InternalAllowed
    <2>10. QED
      BY <2>9 DEF own, op, r
  <1>2. QED
    BY <1>1, Invariant, PTL

-----------------------------------------------------------------------------
(* A request and the lookup made of it *)

\* The segments of requests and of lookups.
AnySegment == Segments \cup ApiVersions \cup Identifiers \cup {Plural[resource] : resource \in Resources}

AnyPath == URIsOver(AnySegment, Queries \cup {NoQuery})

\* The inspect of the object that an operation is about.
InspectOf(o) ==
  [resource |-> o.resource, action |-> "inspect", id |-> o.id, version |-> o.version, query |-> NoQuery]

\* The operation is the one of the request, and a lookup's is an inspect.
ResolverInv ==
  /\ received = <<received[1], received[2]>> /\ received[2] \in AnyPath
  /\ resolved = Resolve(received[1], received[2])
  /\ ownLookup => resolved = InspectOf(resolved)

\* An operation with an ID is one that is known, and the ID is an identifier: a create
\* and a list have none.
LEMMA ResolvedID ==
  ASSUME NEW method, NEW uri, Resolve(method, uri).id # ""
  PROVE  /\ Resolve(method, uri) # Unknown
         /\ Resolve(method, uri).id \in Identifiers
         /\ Resolve(method, uri).version \in ApiVersions \cup {""}
  <1> DEFINE route == Route(method, Parts(uri))
  <1>0. Unknown.id = ""
    BY DEF Unknown
  <1>1. Resolve(method, uri) # Unknown
    BY <1>0, Zenon
  <1>2. Resolve(method, uri).action = route[1] /\ Resolve(method, uri).id = route[2]
    BY <1>1 DEF Resolve
  <1>3. route[1] \in {"list", "create"} => route[2] = ""
    BY DEF Route
  <1>4. Resolve(method, uri).version \in ApiVersions \cup {""}
    BY <1>1 DEF Resolve, Version
  <1> HIDE DEF route
  <1>5. QED
    BY <1>1, <1>2, <1>3, <1>4, ResolveTypes

\* A path of segments.
LEMMA PathOf ==
  ASSUME NEW S, NEW a \in S, NEW b \in S
  PROVE  <<a, b>> \in Seq(S) /\ \A c \in S : <<c, a, b>> \in Seq(S)
  OBVIOUS

\* The path of a lookup is made of known segments.
LEMMA LookupPath ==
  ASSUME NEW o, o.resource \in Resources, o.id \in Identifiers, o.version \in ApiVersions \cup {""}
  PROVE  InspectURI(o) \in AnyPath
  <1> DEFINE plural == Plural[o.resource]
             segs == IF o.version = "" THEN <<plural, o.id>> ELSE <<o.version, plural, o.id>>
  <1>1. plural \in AnySegment /\ o.id \in AnySegment
    BY DEF AnySegment
  <1>2. o.version # "" => o.version \in AnySegment
    BY DEF AnySegment
  <1> HIDE DEF plural
  <1>3. segs \in Seq(AnySegment)
    <2>1. CASE o.version = ""
      <3>1. segs = <<plural, o.id>>
        BY <2>1
      <3> HIDE DEF segs
      <3>2. QED
        BY <1>1, <3>1, PathOf
    <2>2. CASE o.version # ""
      <3>1. segs = <<o.version, plural, o.id>>
        BY <2>2
      <3> HIDE DEF segs
      <3>2. QED
        BY <1>1, <1>2, <2>2, <3>1, PathOf
    <2>3. QED
      BY <2>1, <2>2
  <1>4. InspectURI(o) = [clean |-> TRUE, segments |-> segs, query |-> NoQuery]
    BY DEF InspectURI, plural
  <1> HIDE DEF segs
  <1>5. \A Q, query : query \in Q =>
          [clean |-> TRUE, segments |-> segs, query |-> query] \in URIsOver(AnySegment, Q)
    BY <1>3 DEF URIsOver
  <1>6. QED
    BY <1>4, <1>5 DEF AnyPath

\* What a step of Inspect does to the request.
LEMMA InspectStep ==
  ASSUME ResolverInv, Inspect
  PROVE  /\ resolved' = InspectOf(resolved)
         /\ received' = <<"GET", InspectURI(resolved)>>
         /\ InspectURI(resolved) \in AnyPath
  <1>1. /\ resolved # Unknown /\ resolved.id \in Identifiers
        /\ resolved.version \in ApiVersions \cup {""}
    BY ResolvedID DEF ResolverInv, Inspect
  <1>2. resolved.resource \in Resources
    BY <1>1, ResolveTypes DEF ResolverInv
  <1>3. resolved' = InspectOf(resolved)
    BY <1>1, LookupResolves DEF ResolverInv, Inspect, InspectOf
  <1>4. QED
    BY <1>1, <1>2, <1>3, LookupPath DEF Inspect

\* The operation always is the one of the request that came in last.
LEMMA ResolverInvariant == ResolverSpec => []ResolverInv
  <1>1. ResolverInit => ResolverInv
    <2> SUFFICES ASSUME ResolverInit PROVE ResolverInv
      OBVIOUS
    <2>1. received = <<received[1], received[2]>> /\ received[2] \in Paths
      BY DEF ResolverInit
    <2>2. \A n \in 1..4 : [1..n -> Segments] \subseteq Seq(AnySegment)
      <3>1. Segments \subseteq AnySegment
        BY DEF AnySegment
      <3>2. SUFFICES ASSUME NEW n \in 1..4, NEW f \in [1..n -> Segments] PROVE f \in Seq(AnySegment)
        OBVIOUS
      <3>3. n \in Nat /\ f \in [1..n -> AnySegment]
        BY <3>1
      <3>4. QED
        BY <3>3
    <2>3. received[2] \in AnyPath
      BY <2>1, <2>2 DEF Paths, AnyPath, URIsOver
    <2>4. QED
      BY <2>1, <2>3 DEF ResolverInit, ResolverInv
  <1>2. ResolverInv /\ [Inspect]_resolverVars => ResolverInv'
    <2> SUFFICES ASSUME ResolverInv, [Inspect]_resolverVars PROVE ResolverInv'
      OBVIOUS
    <2>1. CASE Inspect
      <3>1. /\ received'[1] = "GET" /\ received'[2] = InspectURI(resolved)
            /\ received' = <<received'[1], received'[2]>> /\ received'[2] \in AnyPath
        BY <2>1, InspectStep
      <3>2. resolved' = Resolve(received'[1], received'[2])
        BY <2>1, <3>1 DEF Inspect
      <3>3. resolved' = InspectOf(resolved')
        BY <2>1, InspectStep DEF InspectOf
      <3>4. QED
        BY <3>1, <3>2, <3>3 DEF ResolverInv, AnyPath, AnySegment, URIsOver
    <2>2. CASE UNCHANGED resolverVars
      BY <2>2 DEF resolverVars, ResolverInv
    <2>3. QED
      BY <2>1, <2>2
  <1>3. QED
    BY <1>1, <1>2, PTL DEF ResolverSpec

\* A request that is accepted, a lookup of the plugin's own included, is the only one that
\* stands for the operation that Resolve makes of it.
THEOREM RequestsResolveUniquely == ResolverSpec => []ResolvedUniquely
  <1>1. ResolverInv => ResolvedUniquely
    <2> SUFFICES ASSUME ResolverInv, resolved # Unknown PROVE Render(resolved) = received
      BY DEF ResolvedUniquely
    <2>1. /\ received[2] \in URIsOver(AnySegment, Queries \cup {NoQuery})
          /\ resolved = Resolve(received[1], received[2])
          /\ Resolve(received[1], received[2]) # Unknown
      BY DEF ResolverInv, AnyPath
    <2>2. Render(Resolve(received[1], received[2])) = <<received[1], received[2]>>
      <3>1. \A method : \A uri \in URIsOver(AnySegment, Queries \cup {NoQuery}) :
              Resolve(method, uri) # Unknown => Render(Resolve(method, uri)) = <<method, uri>>
        BY ResolvesUniquely
      <3>2. QED
        BY <2>1, <3>1
    <2>3. QED
      BY <2>1, <2>2 DEF ResolverInv
  <1>2. QED
    BY <1>1, ResolverInvariant, PTL

\* Inspect asks for the object of the operation it is called for, under its API version
\* and without options, and what the daemon's callback makes of it is stable.
THEOREM LookupsStayOnTarget == ResolverSpec => LookupOnTarget
  <1>1. ASSUME ResolverInv, Inspect
        PROVE  /\ resolved'.resource = resolved.resource /\ resolved'.id = resolved.id
               /\ resolved'.version = resolved.version /\ resolved'.action = "inspect"
               /\ resolved'.query = NoQuery
               /\ ownLookup => resolved' = resolved
    BY <1>1, InspectStep DEF InspectOf, ResolverInv
  <1>2. QED
    BY <1>1, ResolverInvariant, PTL DEF ResolverSpec, LookupOnTarget

-----------------------------------------------------------------------------
(* Who is acting, and by which permission *)

\* Reserved names are not names of clients, and a common name is that of one client.
LEMMA ClientNames ==
  /\ \A name \in DOMAIN ServedConfig.clients : name \notin {"unknown", "unidentified", "internal"}
  /\ \A a, b \in DOMAIN ServedConfig.clients :
       ServedConfig.clients[a].cn = ServedConfig.clients[b].cn => a = b
  BY ServedConfigAssumption DEF ValidConfig, ValidNames, Reserved

\* Attribution agrees with the identity Docker vouches for, whenever it names a client
\* or nobody (identity.CommonName and the lookup in Plugin.clients).
LEMMA AttributionIsPrincipal ==
  ASSUME NEW r, Configured(Attribution(r)) \/ Attribution(r) = "unidentified"
  PROVE  Principal(r.auth) = Attribution(r)
  <1> DEFINE auth == r.auth
             cn == CommonName(auth)
  <1>1. CASE Attribution(r) = "unidentified"
    <2>1. cn = ""
      BY <1>1, ClientNames, ServedConfigAssumption DEF Attribution, ClientFor
    <2>2. auth.method = "" /\ auth.user = "" /\ auth.peers = <<>>
      BY <2>1, PolicyAssumption DEF CommonName
    <2>3. QED
      BY <1>1, <2>2 DEF Principal
  <1>2. CASE Configured(Attribution(r))
    <2> DEFINE name == Attribution(r)
    <2>1. /\ name \in DOMAIN ServedConfig.clients
          /\ name \notin {"unknown", "unidentified", "internal"}
      BY <1>2, ClientNames DEF Configured
    <2>2. cn # "" /\ cn # Nil /\ ClientFor(cn) # Nil /\ name = ClientFor(cn)
      BY <2>1 DEF Attribution
    <2>3. ServedConfig.clients[name].cn = cn
      BY <2>2 DEF ClientFor
    <2>4. /\ auth.method = "TLS" /\ auth.peers # <<>> /\ auth.peers[1] = cn
          /\ auth.user \in {"", cn}
          /\ ~(auth.method = "" /\ auth.user = "" /\ auth.peers = <<>>)
      BY <2>2 DEF CommonName
    <2> HIDE DEF cn, name
    <2> DEFINE fits(n) == /\ auth.method = "TLS" /\ auth.user \in {"", ServedConfig.clients[n].cn}
                          /\ auth.peers # <<>> /\ auth.peers[1] = ServedConfig.clients[n].cn
    <2>5. fits(name)
      BY <2>3, <2>4
    <2>6. \A n \in DOMAIN ServedConfig.clients : fits(n) => n = name
      BY <2>1, <2>3, <2>4, ClientNames
    <2>7. (CHOOSE n \in DOMAIN ServedConfig.clients : fits(n)) = name
      BY <2>1, <2>5, <2>6
    <2>8. QED
      BY <2>1, <2>4, <2>5, <2>7 DEF Principal, name
  <1>3. QED
    BY <1>1, <1>2

\* Whoever has a request allowed is a client or nobody; he may do everything, or one of
\* his permissions that match the operation has been judged to hold.
Justified(client, r, state) ==
  \/ Privileged(client)
  \/ /\ Op(r) # Unknown
     /\ \E i \in 1..4 :
          /\ MatchingOf[r][i] # Nil /\ Evaluated(r)
          /\ MatchingOf[r][i] \in PermissionsFor(client, Op(r).resource, Op(r).action)
          /\ permission(MatchingOf[r][i], Op(r), r.body, r.headers, state)

\* An allowed request is justified by the slot that holds it.
LEMMA AllowedIsJustified ==
  ASSUME IInv, NEW s \in Slots, pc[s] = "allow"
  PROVE  /\ rq[s] \in Requests /\ OpOf[rq[s]] = Op(rq[s])
         /\ Principal(rq[s].auth) \in DOMAIN ServedConfig.clients \cup {"unidentified"}
         /\ Justified(Principal(rq[s].auth), rq[s], snap[s])
  <1> DEFINE r == rq[s]
             name == Attribution(r)
  <1>1. r \in Requests /\ OpOf[r] = Op(r)
    BY RequestTypes DEF IInv, TypeOK
  <1>2. CASE ~Evaluated(r) /\ Immediate(r)
    <2>1. name # "internal"
      <3> SUFFICES ASSUME name = "internal" PROVE FALSE
        OBVIOUS
      <3>1. Len(r.headers.internal) = 1 /\ r.headers.internal[1] = Token
        BY <1>2 DEF Immediate, InternalAllowed, Valid
      <3>2. r.headers.internal \in Seq(Values)
        BY <1>1, RequestsAssumption DEF RequestType, Headers
      <3>3. r.headers.internal = <<Token>>
        BY <3>1, <3>2
      <3>4. QED
        BY <1>1, <3>3, RequestsAssumption
    <2>2. CASE name = "unidentified"
      <3>1. Privileged(name)
        BY <1>2, <2>2 DEF Immediate, Privileged
      <3>2. QED
        BY <1>1, <2>2, <3>1, AttributionIsPrincipal DEF Justified
    <2>3. CASE name # "unidentified"
      <3>1. Administrator(name)
        BY <1>2, <2>1, <2>3 DEF Immediate
      <3>2. QED
        BY <1>1, <3>1, AttributionIsPrincipal DEF Justified, Privileged, Administrator, Configured
    <2>4. QED
      BY <2>2, <2>3
  <1>3. CASE Evaluated(r) /\ k[s] \in 1..4 /\ MatchingOf[r][k[s]] # Nil /\ Grants(s)
    <2>1. Configured(name) /\ Op(r) # Unknown
      BY <1>3 DEF Evaluated
    <2>2. MatchingOf[r][k[s]] \in PermissionsFor(name, Op(r).resource, Op(r).action)
      <3> DEFINE key == Candidates(Op(r))[k[s]]
      <3>1. MatchingOf[r][k[s]] = IF key \in DOMAIN Granted(name) THEN Granted(name)[key] ELSE Nil
        BY <1>1, <1>3, MatchingTypes DEF Matching
      <3>2. key \in {Op(r).resource, "*"} \X {Op(r).action, "*"}
        BY <1>3 DEF Candidates
      <3>3. QED
        BY <1>3, <2>1, <3>1, <3>2 DEF PermissionsFor
    <2>3. permission(MatchingOf[r][k[s]], Op(r), r.body, r.headers, snap[s])
      BY <1>1, <1>3 DEF Grants
    <2>4. Principal(r.auth) = name /\ name \in DOMAIN ServedConfig.clients
      BY <2>1, AttributionIsPrincipal DEF Configured
    <2>5. QED
      BY <1>1, <1>3, <2>1, <2>2, <2>3, <2>4 DEF Justified
  <1>4. QED
    BY <1>2, <1>3 DEF IInv, VerdictInv

-----------------------------------------------------------------------------
(* What a justified request may do is what the policy permits *)

\* A snapshot that a permission accepts is of the object the daemon will act upon.
LEMMA TargetIsSnapshot ==
  ASSUME IInv, NEW s \in Slots, snap[s] # Nil, NEW op, snap[s].id = op.id,
         NEW resource, NEW id \in Found(resource, op.id)
  PROVE  id = snap[s].id
  <1>1. snap[s].id \in Ids
    BY DEF IInv, SnapshotInv
  <1>2. id \in Ids /\ store[id] # Nil /\ (id = op.id \/ store[id].spec.name = op.id)
    BY DEF Found
  <1>3. store[id].spec.name \in Names
    BY <1>2 DEF IInv, TypeOK, Objects, Specs
  <1>4. QED
    BY <1>1, <1>2, <1>3, DockAssumption

\* Deletes and inspects: the labels the permission was judged by are labels the object
\* has had.
LEMMA UsePermitted ==
  ASSUME IInv, NEW s \in Slots, pc[s] = "allow",
         NEW resource, resource = Op(rq[s]).resource,
         NEW id \in Found(resource, Op(rq[s]).id)
  PROVE  MayUse(Principal(rq[s].auth), resource, Op(rq[s]).action, past[id])
  <1> DEFINE r == rq[s]
             client == Principal(r.auth)
  <1>1. Justified(client, r, snap[s])
    BY AllowedIsJustified
  <1>2. CASE Privileged(client)
    BY <1>2 DEF MayUse
  <1>3. CASE ~Privileged(client)
    <2>1. PICK p \in PermissionsFor(client, resource, Op(r).action) :
            permission(p, Op(r), r.body, r.headers, snap[s])
      BY <1>1, <1>3 DEF Justified
    <2>2. p.selector # Nil => \E labels \in past[id] : matches(labels, p.selector)
      <3> SUFFICES ASSUME p.selector # Nil PROVE \E labels \in past[id] : matches(labels, p.selector)
        OBVIOUS
      <3>1. snap[s] # Nil /\ snap[s].id = Op(r).id /\ matches(snap[s].labels, p.selector)
        BY <2>1 DEF permission, Unconditional, StateAccepted
      <3>2. id = snap[s].id
        BY <3>1, TargetIsSnapshot
      <3>3. snap[s].labels \in past[id]
        BY <3>1, <3>2 DEF IInv, SnapshotsSound
      <3>4. QED
        BY <3>1, <3>3
    <2>3. QED
      BY <2>1, <2>2 DEF MayUse
  <1>4. QED
    BY <1>2, <1>3

\* Lists and unknown endpoints.
LEMMA OtherPermitted ==
  ASSUME IInv, NEW s \in Slots, pc[s] = "allow", Op(rq[s]).action \in {"list", "unknown"}
  PROVE  MayUse(Principal(rq[s].auth), Op(rq[s]).resource, Op(rq[s]).action, {})
  <1> DEFINE r == rq[s]
             client == Principal(r.auth)
  <1>1. Justified(client, r, snap[s]) /\ r \in Requests /\ OpOf[r] = Op(r)
    BY AllowedIsJustified
  <1>2. CASE Privileged(client)
    BY <1>2 DEF MayUse
  <1>3. CASE ~Privileged(client)
    <2>1. PICK i \in 1..4 :
            /\ MatchingOf[r][i] # Nil /\ Evaluated(r)
            /\ MatchingOf[r][i] \in PermissionsFor(client, Op(r).resource, Op(r).action)
      BY <1>1, <1>3 DEF Justified
    <2>2. MatchingOf[r][i].selector = Nil
      BY <1>1, <2>1, LookupOperation
    <2>3. QED
      BY <2>1, <2>2 DEF MayUse
  <1>4. QED
    BY <1>2, <1>3

\* Creates: the labels judged are the labels of the object made.
LEMMA CreatePermitted ==
  ASSUME IInv, NEW s \in Slots, pc[s] = "allow", Op(rq[s]).action = "create",
         NEW new, new.resource = Op(rq[s]).resource, new.spec = rq[s].body.spec
  PROVE  MayCreate(Principal(rq[s].auth), new)
  <1> DEFINE r == rq[s]
             client == Principal(r.auth)
  <1>1. Justified(client, r, snap[s])
    BY AllowedIsJustified
  <1>2. CASE Privileged(client)
    BY <1>2 DEF MayCreate
  <1>3. CASE ~Privileged(client)
    <2>1. PICK p \in PermissionsFor(client, new.resource, "create") :
            permission(p, Op(r), r.body, r.headers, snap[s])
      BY <1>1, <1>3 DEF Justified
    <2>2. p.request # Nil => matches(new.spec.labels, p.request)
      BY <2>1 DEF permission, Unconditional, RequestHolds, Decode
    <2>3. QED
      BY <2>1, <2>2 DEF MayCreate
  <1>4. QED
    BY <1>2, <1>3

\* Updates: the version links the inspected object to the one that is updated, and no
\* option puts anything but the judged body in its place.
LEMMA UpdatePermitted ==
  ASSUME IInv, NEW s \in Slots, pc[s] = "allow", IsServiceUpdate(Op(rq[s])),
         NEW id \in Found("service", Op(rq[s]).id),
         Head(Op(rq[s]).query.version) = store[id].version,
         NEW new, new = Updated(store[id], rq[s]), new # Nil,
         NEW before, before.resource = "service", before.spec = store[id].spec, before.auth = store[id].auth,
         NEW after, after.spec = new.spec, after.auth = new.auth
  PROVE  MayUpdate(Principal(rq[s].auth), before, after)
  <1> DEFINE r == rq[s]
             op == Op(r)
             client == Principal(r.auth)
             old == store[id]
  <1>1. Justified(client, r, snap[s]) /\ r \in Requests /\ OpOf[r] = op
    BY AllowedIsJustified
  <1>2. CASE Privileged(client)
    BY <1>2 DEF MayUpdate
  <1>3. CASE ~Privileged(client)
    <2>1. PICK p \in PermissionsFor(client, "service", "update") :
            permission(p, op, r.body, r.headers, snap[s])
      BY <1>1, <1>3 DEF Justified, IsServiceUpdate
    <2>2. CASE Unconditional(p)
      BY <2>1, <2>2 DEF MayUpdate, Unconditional
    <2>3. CASE ~Unconditional(p)
      <3>1. safeUpdate(op, p, r.headers)
        BY <2>1, <2>3 DEF permission
      <3>2. op.query.rollback = <<>> /\ op.query.registryAuthFrom \in {<<>>, <<"spec">>}
        BY <3>1 DEF safeUpdate
      <3>3. op.query.registryAuthFrom # <<>> => Head(op.query.registryAuthFrom) # "previous-spec"
        BY <3>2
      <3>4. /\ r.body.spec # Nil /\ new.spec = r.body.spec
            /\ new.auth = IF r.headers.registryAuth # Nil THEN r.headers.registryAuth ELSE old.auth
        BY <1>1, <3>2, <3>3 DEF Updated
      <3>5. p.request # Nil => matches(new.spec.labels, p.request)
        BY <2>1, <2>3, <3>4 DEF permission, RequestHolds, Decode
      <3>6. p.selector # Nil \/ p.mutation # Nil =>
              snap[s] # Nil /\ snap[s].labels = old.spec.labels /\ snap[s].spec \in {old.spec, Nil}
        <4> SUFFICES ASSUME p.selector # Nil \/ p.mutation # Nil
                     PROVE  snap[s] # Nil /\ snap[s].labels = old.spec.labels /\ snap[s].spec \in {old.spec, Nil}
          OBVIOUS
        <4>1. /\ snap[s] # Nil /\ snap[s].id = op.id
              /\ op.query.version[1] = snap[s].version
          BY <2>1, <2>3 DEF permission, StateAccepted
        <4>2. id = snap[s].id /\ old # Nil
          BY <4>1, TargetIsSnapshot DEF Found
        <4>3. Head(op.query.version) = op.query.version[1]
          OBVIOUS
        <4>4. QED
          BY <4>1, <4>2, <4>3 DEF IInv, SnapshotsSound
      <3>7. p.selector # Nil => matches(old.spec.labels, p.selector)
        BY <2>1, <2>3, <3>6 DEF permission
      <3>8. p.mutation # Nil =>
              /\ Changed(old.spec, new.spec) \subseteq Fields(p.mutation)
              /\ new.auth # old.auth => "container.image" \in Fields(p.mutation)
        <4> SUFFICES ASSUME p.mutation # Nil
                     PROVE  /\ Changed(old.spec, new.spec) \subseteq Fields(p.mutation)
                            /\ new.auth # old.auth => "container.image" \in Fields(p.mutation)
          OBVIOUS
        <4>1. Validate(old.spec, r.body, p.mutation)
          BY <2>1, <2>3, <3>6 DEF permission
        <4>2. old.spec \in Specs /\ r.body \in Bodies
          BY <1>1, RequestsAssumption DEF IInv, TypeOK, Objects, Found, RequestType
        <4>3. Changed(old.spec, r.body.spec) \subseteq Fields(p.mutation)
          BY <4>1, <4>2, ValidateSound
        <4>4. new.auth # old.auth => "container.image" \in Fields(p.mutation)
          BY <3>1, <3>4 DEF safeUpdate
        <4>5. QED
          BY <3>4, <4>3, <4>4
      <3>9. QED
        BY <2>1, <3>5, <3>7, <3>8 DEF MayUpdate
    <2>4. QED
      BY <2>2, <2>3
  <1>4. QED
    BY <1>2, <1>3

-----------------------------------------------------------------------------
(* Refinement *)

\* The visible side of a write.
LEMMA VisibleWrite ==
  ASSUME IInv, NEW id \in Ids, NEW object \in Objects \cup {Nil}, Write(id, object)
  PROVE  /\ Visible'[id] = IF object = Nil THEN Nil
                           ELSE [resource |-> object.resource, spec |-> object.spec, auth |-> object.auth]
         /\ Monitor!Only(id)
         /\ Visible[id] = Nil <=> store[id] = Nil
         /\ Visible'[id] = Nil <=> object = Nil
  <1> DEFINE v(o) == [resource |-> o.resource, spec |-> o.spec, auth |-> o.auth]
  <1>1. store \in [Ids -> Objects \cup {Nil}] /\ store' = [store EXCEPT ![id] = object]
    BY DEF IInv, TypeOK, Write
  <1>2. \A o \in Objects : v(o) # Nil /\ v(o).spec = o.spec
    <2> TAKE o \in Objects
    <2>1. v(o) \in Visibles
      BY DEF Objects, Visibles
    <2>2. QED
      BY <2>1, NilAssumption
  <1>3. Visible'[id] = IF object = Nil THEN Nil ELSE v(object)
    BY <1>1 DEF Visible
  <1>4. Visible' = [Visible EXCEPT ![id] = Visible'[id]]
    BY <1>1 DEF Visible
  <1>5. Monitor!LabelsOf(Visible'[id]) = IF object = Nil THEN {} ELSE {object.spec.labels}
    BY <1>2, <1>3 DEF Monitor!LabelsOf
  <1>6. Monitor!Only(id)
    BY <1>4, <1>5 DEF Monitor!Only, Write
  <1>7. Visible[id] = Nil <=> store[id] = Nil
    BY <1>1, <1>2 DEF Visible
  <1>8. QED
    BY <1>2, <1>3, <1>6, <1>7

\* The visible side of an object that exists.
LEMMA VisibleObject ==
  ASSUME IInv, NEW id \in Ids, store[id] # Nil
  PROVE  /\ Visible[id] = [resource |-> store[id].resource, spec |-> store[id].spec, auth |-> store[id].auth]
         /\ Visible[id] # Nil
         /\ Visible[id].resource = store[id].resource
         /\ Visible[id].spec = store[id].spec
         /\ Visible[id].auth = store[id].auth
  <1>1. Visible[id] = [resource |-> store[id].resource, spec |-> store[id].spec, auth |-> store[id].auth]
    BY DEF Visible
  <1>2. store[id] \in Objects
    BY DEF IInv, TypeOK
  <1>3. Visible[id] \in Visibles
    BY <1>1, <1>2 DEF Objects, Visibles
  <1>4. QED
    BY <1>1, <1>3, NilAssumption

\* An allowed request is of a known kind.
LEMMA AllowedTypes ==
  ASSUME IInv, NEW s \in Slots, pc[s] = "allow"
  PROVE  /\ Op(rq[s]).resource \in Resources \cup {"unknown"}
         /\ Op(rq[s]).action \in Actions \cup {"unknown"}
         /\ Op(rq[s]).action # "unknown" => Op(rq[s]).resource \in Resources
  <1> DEFINE op == Op(rq[s])
  <1>1. op = Resolve(rq[s].method, rq[s].uri)
    BY DEF Op
  <1>2. CASE op = Unknown
    <2>1. op.resource = "unknown" /\ op.action = "unknown"
      BY <1>2, UnknownFields
    <2>2. QED
      BY <2>1
  <1>3. CASE op # Unknown
    <2>1. op.resource \in Resources /\ op.action \in Actions
      BY <1>1, <1>3, ResolveTypes
    <2>2. QED
      BY <2>1
  <1>4. QED
    BY <1>2, <1>3

Acting == DOMAIN ServedConfig.clients \cup {"unidentified"}

\* An update that the daemon carries out is one the monitor permits.
LEMMA UpdateRefines ==
  ASSUME IInv, NEW s \in Slots, ExecuteUpdate(s)
  PROVE  \E client \in Acting, id \in Ids : Monitor!Update(client, id)
  <1> DEFINE op == Op(rq[s])
             client == Principal(rq[s].auth)
  <1>1. /\ pc[s] = "allow" /\ IsServiceUpdate(OpOf[rq[s]])
    BY DEF ExecuteUpdate
  <1>2. OpOf[rq[s]] = op /\ client \in Acting /\ rq[s] \in Requests
    BY <1>1, AllowedIsJustified DEF Acting
  <1>3. PICK id \in Found("service", op.id) :
          LET old == store[id]
              new == Updated(old, rq[s])
          IN  /\ Head(op.query.version) = old.version
              /\ new # Nil
              /\ Write(id, [resource |-> "service", version |-> index + 1, spec |-> new.spec,
                            auth |-> new.auth, prev |-> [spec |-> old.spec, auth |-> old.auth]])
              /\ Log(rq[s], "service", "update", id)
    BY <1>2 DEF ExecuteUpdate
  <1> DEFINE old == store[id]
             new == Updated(old, rq[s])
             object == [resource |-> "service", version |-> index + 1, spec |-> new.spec,
                        auth |-> new.auth, prev |-> [spec |-> old.spec, auth |-> old.auth]]
  <1>4. id \in Ids /\ old # Nil /\ old \in Objects /\ old.resource = "service"
    BY DEF Found, IInv, TypeOK
  <1>5. new \in Versions
    BY <1>2, <1>3, <1>4, UpdatedType
  <1>6. object \in Objects /\ object # Nil
    <2>1. new.spec \in Specs /\ new.auth \in Values \cup {Nil}
      BY <1>5 DEF Versions
    <2> HIDE DEF new
    <2>2. object \in Objects
      BY <1>4, <2>1 DEF IInv, TypeOK, Objects, Versions, Resources
    <2>3. QED
      BY <2>2, NilAssumption
  <1>7. /\ Visible[id] # Nil /\ Visible[id].resource = "service"
        /\ Visible[id].spec = old.spec /\ Visible[id].auth = old.auth
    BY <1>4, VisibleObject
  <1>8. Write(id, object)
    BY <1>3
  <1>9. /\ Visible'[id] = [resource |-> object.resource, spec |-> object.spec, auth |-> object.auth]
        /\ Monitor!Only(id) /\ Visible'[id] # Nil
    <2> HIDE DEF object
    <2>1. QED
      BY <1>4, <1>6, <1>8, VisibleWrite
  <1>10. /\ Visible'[id].resource = "service" /\ Visible'[id].spec = new.spec
         /\ Visible'[id].auth = new.auth
    BY <1>9
  <1>11. MayUpdate(client, Visible[id], Visible'[id])
    <2>1. IsServiceUpdate(op) /\ Head(op.query.version) = old.version /\ new # Nil
      BY <1>1, <1>2, <1>3
    <2> DEFINE before == Visible[id]
               after  == Visible'[id]
    <2>2. before.resource = "service" /\ before.spec = old.spec /\ before.auth = old.auth
      BY <1>7
    <2>3. after.spec = new.spec /\ after.auth = new.auth
      BY <1>10
    <2> HIDE DEF before, after, new
    <2>4. MayUpdate(client, before, after)
      BY <1>1, <2>1, <2>2, <2>3, UpdatePermitted DEF new
    <2>5. QED
      BY <2>4 DEF before, after
  <1>12. last' = [client |-> client, resource |-> "service", action |-> "update", id |-> id]
    BY <1>3 DEF Log
  <1>13. Monitor!Update(client, id)
    BY <1>7, <1>9, <1>10, <1>11, <1>12 DEF Monitor!Update, Monitor!By
  <1>14. QED
    BY <1>2, <1>4, <1>13

\* So is a create; the identifier is a new one.
LEMMA CreateRefines ==
  ASSUME IInv, NEW s \in Slots, ExecuteCreate(s)
  PROVE  \E client \in Acting, id \in Ids : Monitor!Create(client, id)
  <1> DEFINE op == Op(rq[s])
             client == Principal(rq[s].auth)
             object == [resource |-> op.resource, version |-> index + 1, spec |-> rq[s].body.spec,
                        auth |-> rq[s].headers.registryAuth, prev |-> Nil]
  <1>1. pc[s] = "allow"
    BY DEF ExecuteCreate
  <1>2. OpOf[rq[s]] = op /\ client \in Acting /\ rq[s] \in Requests
    BY <1>1, AllowedIsJustified DEF Acting
  <1>3. op.action = "create" /\ rq[s].body.spec # Nil
    BY <1>2 DEF ExecuteCreate
  <1>4. PICK id \in Fresh : Write(id, object) /\ Log(rq[s], op.resource, "create", id)
    BY <1>2 DEF ExecuteCreate
  <1>5. id \in Ids /\ past[id] = {}
    BY DEF Fresh
  <1>6. object \in Objects /\ object # Nil
    <2>1. op.resource \in Resources
      BY <1>1, <1>3, AllowedTypes
    <2>2. rq[s].body.spec \in Specs /\ rq[s].headers.registryAuth \in Values \cup {Nil}
      BY <1>2, <1>3, RequestTypes
    <2> HIDE DEF op
    <2>3. object \in Objects
      BY <2>1, <2>2 DEF IInv, TypeOK, Objects
    <2>4. QED
      BY <2>3, NilAssumption
  <1>7. /\ Visible'[id] = [resource |-> object.resource, spec |-> object.spec, auth |-> object.auth]
        /\ Monitor!Only(id) /\ Visible'[id] # Nil
    <2> HIDE DEF object
    <2>1. QED
      BY <1>4, <1>5, <1>6, VisibleWrite
  <1>8. Visible'[id].resource = op.resource /\ Visible'[id].spec = rq[s].body.spec
    BY <1>7
  <1>9. MayCreate(client, Visible'[id])
    <2> DEFINE new == Visible'[id]
    <2>1. new.resource = op.resource /\ new.spec = rq[s].body.spec
      BY <1>8
    <2> HIDE DEF new
    <2>2. MayCreate(client, new)
      BY <1>1, <1>3, <2>1, CreatePermitted
    <2>3. QED
      BY <2>2 DEF new
  <1>10. last' = [client |-> client, resource |-> op.resource, action |-> "create", id |-> id]
    BY <1>4 DEF Log
  <1>11. Monitor!Create(client, id)
    BY <1>5, <1>7, <1>8, <1>9, <1>10 DEF Monitor!Create, Monitor!By
  <1>12. QED
    BY <1>2, <1>5, <1>11

\* So is a delete.
LEMMA DeleteRefines ==
  ASSUME IInv, NEW s \in Slots, ExecuteDelete(s)
  PROVE  \E client \in Acting, id \in Ids : Monitor!Delete(client, id)
  <1> DEFINE op == Op(rq[s])
             client == Principal(rq[s].auth)
  <1>1. pc[s] = "allow"
    BY DEF ExecuteDelete
  <1>2. OpOf[rq[s]] = op /\ client \in Acting
    BY <1>1, AllowedIsJustified DEF Acting
  <1>3. PICK id \in Found(op.resource, op.id) : Write(id, Nil) /\ Log(rq[s], op.resource, "delete", id)
    BY <1>2 DEF ExecuteDelete
  <1>4. op.action = "delete"
    BY <1>2 DEF ExecuteDelete
  <1>5. id \in Ids /\ store[id] # Nil /\ store[id].resource = op.resource
    BY DEF Found
  <1>6. Visible[id] # Nil /\ Visible[id].resource = op.resource
    BY <1>5, VisibleObject
  <1>7. Monitor!Only(id) /\ Visible'[id] = Nil
    BY <1>3, <1>5, VisibleWrite
  <1>8. MayUse(client, op.resource, "delete", past[id])
    BY <1>1, <1>4, UsePermitted
  <1>9. last' = [client |-> client, resource |-> op.resource, action |-> "delete", id |-> id]
    BY <1>3 DEF Log
  <1>10. Monitor!Delete(client, id)
    BY <1>6, <1>7, <1>8, <1>9 DEF Monitor!Delete, Monitor!By
  <1>11. QED
    BY <1>2, <1>5, <1>10

\* So is an inspect.
LEMMA InspectRefines ==
  ASSUME IInv, NEW s \in Slots, ExecuteInspect(s)
  PROVE  \E client \in Acting, id \in Ids : Monitor!Inspect(client, id)
  <1> DEFINE op == Op(rq[s])
             client == Principal(rq[s].auth)
  <1>1. pc[s] = "allow"
    BY DEF ExecuteInspect
  <1>2. OpOf[rq[s]] = op /\ client \in Acting
    BY <1>1, AllowedIsJustified DEF Acting
  <1>3. PICK id \in Found(op.resource, op.id) : Log(rq[s], op.resource, "inspect", id)
    BY <1>2 DEF ExecuteInspect
  <1>4. op.action = "inspect" /\ UNCHANGED <<store, past>>
    BY <1>2 DEF ExecuteInspect
  <1>5. id \in Ids /\ store[id] # Nil /\ store[id].resource = op.resource
    BY DEF Found
  <1>6. Visible[id] # Nil /\ Visible[id].resource = op.resource
    BY <1>5, VisibleObject
  <1>7. Visible' = Visible /\ past' = past
    BY <1>4 DEF Visible
  <1>8. MayUse(client, op.resource, "inspect", past[id])
    BY <1>1, <1>4, UsePermitted
  <1>9. last' = [client |-> client, resource |-> op.resource, action |-> "inspect", id |-> id]
    BY <1>3 DEF Log
  <1>10. Monitor!Inspect(client, id)
    BY <1>6, <1>7, <1>8, <1>9 DEF Monitor!Inspect, Monitor!By
  <1>11. QED
    BY <1>2, <1>5, <1>10

\* So is an operation on no particular object.
LEMMA OtherRefines ==
  ASSUME IInv, NEW s \in Slots, ExecuteOther(s)
  PROVE  \E client \in Acting, resource \in Resources \cup {"unknown"}, action \in Actions \cup {"unknown"} :
           Monitor!Other(client, resource, action)
  <1> DEFINE op == Op(rq[s])
             client == Principal(rq[s].auth)
  <1>1. pc[s] = "allow"
    BY DEF ExecuteOther
  <1>2. OpOf[rq[s]] = op /\ client \in Acting
    BY <1>1, AllowedIsJustified DEF Acting
  <1>3. /\ op.action \in {"list", "unknown"} /\ UNCHANGED <<store, past>>
        /\ Log(rq[s], op.resource, op.action, "")
    BY <1>2 DEF ExecuteOther
  <1>4. op.resource \in Resources \cup {"unknown"} /\ op.action \in Actions \cup {"unknown"}
    BY <1>1, AllowedTypes
  <1>5. MayUse(client, op.resource, op.action, {})
    BY <1>1, <1>3, OtherPermitted
  <1>6. Visible' = Visible /\ past' = past
    BY <1>3 DEF Visible
  <1>7. last' = [client |-> client, resource |-> op.resource, action |-> op.action, id |-> ""]
    BY <1>3 DEF Log
  <1>8. Monitor!Other(client, op.resource, op.action)
    BY <1>5, <1>6, <1>7 DEF Monitor!Other, Monitor!By
  <1>9. QED
    BY <1>2, <1>4, <1>8

\* What happens elsewhere is what the monitor allows others: anything, but for the
\* reuse of an identifier.
LEMMA ElsewhereRefines ==
  ASSUME IInv, Elsewhere
  PROVE  \E id \in Ids : Monitor!Elsewhere(id)
  <1>1. PICK id \in Ids :
          \E object \in Objects \cup {Nil} :
            /\ Write(id, object)
            /\ store[id] # Nil \/ id \in Fresh
    <2>1. PICK id \in Ids :
            \/ store[id] # Nil /\ Write(id, Nil)
            \/ /\ store[id] # Nil
               /\ \E o \in Pool :
                    Write(id, [resource |-> o.resource, version |-> index + 1, spec |-> o.spec,
                               auth |-> store[id].auth, prev |-> [spec |-> store[id].spec, auth |-> store[id].auth]])
            \/ /\ id \in Fresh
               /\ \E o \in Pool :
                    Write(id, [resource |-> o.resource, version |-> index + 1, spec |-> o.spec,
                               auth |-> Nil, prev |-> Nil])
      BY DEF Elsewhere
    <2>2. \A o \in Pool : o.resource \in Resources /\ o.spec \in Specs
      BY ObjectsAssumption
    <2>3. index + 1 \in Nat
      BY DEF IInv, TypeOK
    <2>4. \A o \in Pool : [resource |-> o.resource, version |-> index + 1, spec |-> o.spec,
                           auth |-> Nil, prev |-> Nil] \in Objects
      BY <2>2, <2>3 DEF Objects
    <2>5. store[id] # Nil =>
            \A o \in Pool : [resource |-> o.resource, version |-> index + 1, spec |-> o.spec, auth |-> store[id].auth,
                             prev |-> [spec |-> store[id].spec, auth |-> store[id].auth]] \in Objects
      <3>1. store[id] # Nil => store[id].spec \in Specs /\ store[id].auth \in Values \cup {Nil}
        BY DEF IInv, TypeOK, Objects
      <3>2. QED
        BY <2>2, <2>3, <3>1 DEF Objects, Versions
    <2>6. QED
      BY <2>1, <2>4, <2>5
  <1>2. Monitor!Only(id) /\ (Visible[id] = Nil <=> store[id] = Nil)
    BY <1>1, VisibleWrite
  <1>3. ~(Visible[id] = Nil /\ past[id] # {})
    BY <1>1, <1>2 DEF Fresh
  <1>4. last' = [client |-> "", resource |-> "", action |-> "", id |-> ""]
    BY DEF Elsewhere
  <1>5. Monitor!Elsewhere(id)
    BY <1>2, <1>3, <1>4 DEF Monitor!Elsewhere, Monitor!By, Monitor!Others
  <1>6. QED
    BY <1>5

\* Every step of plugin and daemon is a step of the monitor, or invisible to it.
LEMMA StepRefines ==
  IInv /\ [Next]_vars => [Monitor!Next]_<<Visible, past, last>>
  <1> SUFFICES ASSUME IInv, [Next]_vars PROVE [Monitor!Next]_<<Visible, past, last>>
    OBVIOUS
  <1>1. ASSUME UNCHANGED <<store, past, last>> PROVE UNCHANGED <<Visible, past, last>>
    BY <1>1 DEF Visible
  <1>2. ASSUME NEW s \in Slots,
               Submit(s) \/ Authorize(s) \/ Evaluate(s) \/ Callback(s) \/ Read(s)
                 \/ LookupFails(s) \/ Judge(s) \/ Refuse(s)
        PROVE  UNCHANGED <<store, past, last>>
    BY <1>2 DEF Submit, Authorize, Evaluate, Callback, Read, LookupFails, Judge, Refuse, daemon
  <1>3. ASSUME NEW s \in Slots, Execute(s) PROVE Monitor!Next
    <2>1. CASE ExecuteUpdate(s)
      BY <2>1, UpdateRefines DEF Monitor!Next, Acting
    <2>2. CASE ExecuteCreate(s)
      BY <2>2, CreateRefines DEF Monitor!Next, Acting
    <2>3. CASE ExecuteDelete(s)
      BY <2>3, DeleteRefines DEF Monitor!Next, Acting
    <2>4. CASE ExecuteInspect(s)
      BY <2>4, InspectRefines DEF Monitor!Next, Acting
    <2>5. CASE ExecuteOther(s)
      BY <2>5, OtherRefines DEF Monitor!Next, Acting
    <2>6. QED
      BY <1>3, <2>1, <2>2, <2>3, <2>4, <2>5 DEF Execute
  <1>4. CASE Elsewhere
    BY <1>4, ElsewhereRefines DEF Monitor!Next
  <1>5. CASE UNCHANGED vars
    BY <1>1, <1>5 DEF vars
  <1>6. CASE \E s \in Slots : Submit(s) \/ Handle(s)
    <2>1. PICK s \in Slots : Submit(s) \/ Handle(s)
      BY <1>6
    <2>2. QED
      BY <1>1, <1>2, <1>3, <2>1 DEF Handle
  <1>7. QED
    BY <1>4, <1>5, <1>6 DEF Next

\* Plugin and daemon implement the reference monitor: whatever is done to an object is
\* permitted when it happens, in spite of the time between inspect, verdict and
\* execution (Authorize, Evaluate, permission, safeUpdate, Validate).
THEOREM Mediates == SafetySpec => MediatesEveryOperation
  <1>1. Init => Monitor!Init
    <2> SUFFICES ASSUME Init PROVE Monitor!Init
      OBVIOUS
    <2>1. IInv
      BY InitIInv
    <2>2. \A id \in Ids : Monitor!LabelsOf(Visible[id]) = IF store[id] = Nil THEN {} ELSE {store[id].spec.labels}
      <3> TAKE id \in Ids
      <3>1. CASE store[id] = Nil
        BY <3>1 DEF Visible, Monitor!LabelsOf
      <3>2. CASE store[id] # Nil
        BY <2>1, <3>2, VisibleObject DEF Monitor!LabelsOf
      <3>3. QED
        BY <3>1, <3>2
    <2>3. past = [id \in Ids |-> IF store[id] = Nil THEN {} ELSE {store[id].spec.labels}] /\ last = Nil
      BY DEF Init
    <2>4. QED
      BY <2>2, <2>3 DEF Monitor!Init
  <1>2. QED
    BY <1>1, StepRefines, Invariant, PTL DEF SafetySpec, MediatesEveryOperation, Monitor!Spec
=============================================================================
