------------------------------- MODULE Policy -------------------------------
(***************************************************************************)
(* internal/policy, internal/mutation and internal/specjson: what one      *)
(* permission of the configuration demands of one request, given the       *)
(* snapshot of the target that dockerapi.Client.Inspect returned.          *)
(*                                                                         *)
(* A spec keeps the parts of a ServiceSpec that the code treats apart: the *)
(* labels, the container (a pointer, so possibly Nil), its image and its   *)
(* secrets, the replicated mode (a pointer) and the other modes; all the   *)
(* rest of the two structs is one opaque value.  The spec of a secret,     *)
(* a task or a node is a spec without container and modes.                 *)
(***************************************************************************)
EXTENDS Operation

CONSTANTS
  Nil,          \* a Go nil pointer, an absent value, the error of a call
  Names,        \* names of services, secrets and nodes
  LabelKeys, LabelValues,
  Values,       \* opaque data: images, secret lists, credentials, the rest
  MaxUint64     \* the largest version strconv.ParseUint accepts

ASSUME PolicyAssumption ==
  /\ MaxUint64 \in Nat
  /\ Nil \notin Values /\ Nil # ""

LabelMaps  == UNION {[keys -> LabelValues] : keys \in SUBSET LabelKeys}
Containers == [image : Values, secrets : Values, rest : Values]

\* The modes beside the replicated one.  GlobalService and GlobalJob have no fields; what a
\* ReplicatedJob says of its completions is one value, Nil where there is no such mode.
Modes   == [global : BOOLEAN, replicatedJob : Values \cup {Nil}, globalJob : BOOLEAN]
NoModes == [global |-> FALSE, replicatedJob |-> Nil, globalJob |-> FALSE]

Specs == [name       : Names,
          labels     : LabelMaps,
          container  : Containers \cup {Nil},
          replicated : [replicas : Values] \cup {Nil},
          modes      : Modes,
          rest       : Values]

\* A body is what Docker forwards: the spec that the daemon will read from it
\* and whether the strict decoder accepts it (Docker may also forward nothing).
Bodies    == [strict : BOOLEAN, spec : Specs \cup {Nil}]
Headers   == [internal : Seq(Values), registryAuth : Values \cup {Nil}]
Snapshots == [id : STRING, version : Nat, labels : LabelMaps, spec : Specs \cup {Nil}]

MutationFields == {"container.secrets", "container.image", "replicas"}

Unconditional(p) == p.selector = Nil /\ p.request = Nil /\ p.mutation = Nil

Fields(only) == {only[i] : i \in DOMAIN only}

matches(actual, required) ==
  \A key \in DOMAIN required : key \in DOMAIN actual /\ actual[key] = required[key]

-----------------------------------------------------------------------------
(* specjson.Decode and mutation.Validate *)

\* The typed spec in a request body, Nil when the strict decoder rejects it.
Decode(body) == IF body.strict THEN body.spec ELSE Nil

\* Mutated form: a replaced container is not noticed when only its image may change.
RestoreWholeContainer(current, next, fields) ==
  [next EXCEPT !.container  = IF fields \cap {"container.image"} # {} THEN current.container ELSE @,
               !.replicated = IF "replicas" \in fields THEN current.replicated ELSE @]

\* The requested container, and the requested spec, with every permitted subtree put
\* back to its current value.
RestoreContainer(before, after, fields) ==
  IF fields \cap {"container.secrets", "container.image"} = {} THEN after
  ELSE [secrets |-> IF "container.secrets" \in fields THEN before.secrets ELSE after.secrets,
        image   |-> IF "container.image" \in fields THEN before.image ELSE after.image,
        rest    |-> after.rest]

Restore(current, next, fields) ==
  [next EXCEPT !.container  = RestoreContainer(current.container, @, fields),
               !.replicated = IF "replicas" \in fields THEN [replicas |-> current.replicated.replicas] ELSE @]

\* The generated comparison, struct by struct; a pointer is equal to nil or to what it
\* points at.  Where equal6, equal4 and equal0 compare the other fields one by one, rest is
\* one value; EqualityGenerator has the functions they call for that.
equalContainerRest(a, b) == a.rest = b.rest
equal6(a, b)   == a.image = b.image /\ a.secrets = b.secrets /\ equalContainerRest(a, b)
equal5(a, b)   == IF a = Nil \/ b = Nil THEN a = b ELSE equal6(a, b)
equalTaskRest(a, b) == a.rest = b.rest
equal4(a, b)   == equal5(a.container, b.container) /\ equalTaskRest(a, b)
equal131(a, b) == IF a = Nil \/ b = Nil THEN a = b ELSE a.replicas = b.replicas

\* Mutated form: the generator has left out the modes other than the replicated one.
equal130ReplicatedOnly(a, b) == equal131(a.replicated, b.replicated)

equal130(a, b) == equal131(a.replicated, b.replicated) /\ a.modes = b.modes
equal1(a, b)   == a.name = b.name /\ a.labels = b.labels
equalSpec(a, b) == equal1(a, b) /\ equal4(a, b) /\ equal130(a, b)

\* The order of the loop over the fields does not matter: they restore disjoint
\* subtrees, and each early return is the same refusal.
Validate(current, body, only) ==
  LET next   == Decode(body)
      fields == Fields(only)
  IN  /\ next # Nil
      /\ fields # {}
      /\ fields \subseteq MutationFields
      /\ fields \cap {"container.secrets", "container.image"} # {} =>
           current.container # Nil /\ next.container # Nil
      /\ "replicas" \in fields =>
           /\ current.replicated # Nil /\ next.replicated # Nil
           /\ current.modes = NoModes /\ next.modes = NoModes
      /\ equalSpec(current, Restore(current, next, fields))

\* Reference: the leaves of a spec, and those in which two specs differ.
Leaves(spec) ==
  [leaf \in MutationFields \cup {"name", "labels", "container", "container.rest", "mode", "modes", "rest"} |->
     CASE leaf = "container.image"   -> IF spec.container = Nil THEN Nil ELSE spec.container.image
       [] leaf = "container.secrets" -> IF spec.container = Nil THEN Nil ELSE spec.container.secrets
       [] leaf = "container.rest"    -> IF spec.container = Nil THEN Nil ELSE spec.container.rest
       [] leaf = "container"         -> spec.container = Nil
       [] leaf = "replicas"          -> IF spec.replicated = Nil THEN Nil ELSE spec.replicated.replicas
       [] leaf = "mode"              -> spec.replicated = Nil
       [] leaf = "modes"             -> spec.modes
       [] leaf = "name"              -> spec.name
       [] leaf = "labels"            -> spec.labels
       [] leaf = "rest"              -> spec.rest]

Changed(before, after) ==
  {leaf \in DOMAIN Leaves(before) : Leaves(before)[leaf] # Leaves(after)[leaf]}

-----------------------------------------------------------------------------
(* policy.Evaluator.permission *)

IsServiceUpdate(op) == op.resource = "service" /\ op.action = "update"

\* Mutated form: options that replace the body or the credentials are let through.
UpdateWithAnyOption(op, p, headers) == Len(op.query.version) = 1 /\ op.query.version[1] # NotNumeric

safeUpdate(op, p, headers) ==
  /\ Len(op.query.version) = 1
  /\ op.query.version[1] # NotNumeric
  /\ op.query.rollback = <<>> /\ op.query.other = <<>>
  /\ op.query.registryAuthFrom \in {<<>>, <<"spec">>}
  /\ p.mutation # Nil /\ "container.image" \notin Fields(p.mutation) => headers.registryAuth = Nil

\* Whether permission() calls Inspect.
NeedsState(p, op, headers) ==
  /\ ~Unconditional(p)
  /\ IsServiceUpdate(op) => safeUpdate(op, p, headers)
  /\ p.selector # Nil \/ p.mutation # Nil

\* Mutated form: the name that led to the object is not compared with its ID.
StateAcceptedByName(op, state) ==
  IsServiceUpdate(op) => op.query.version[1] \in 0..MaxUint64 /\ op.query.version[1] = state.version

\* The snapshot is of the very object, and for an update of the very version, that
\* the daemon will act upon.
StateAccepted(op, state) ==
  /\ state.id = op.id
  /\ IsServiceUpdate(op) => /\ op.query.version[1] \in 0..MaxUint64
                            /\ op.query.version[1] = state.version

\* The labels the request gives the resource satisfy the request constraint.
RequestHolds(p, op, body) ==
  /\ op.resource \in {"service", "secret"}
  /\ Decode(body) # Nil
  /\ matches(Decode(body).labels, p.request)

\* Whether one permission, complete and by itself, grants the operation.  state is
\* the result of Inspect: Nil when the lookup failed or was not needed.
permission(p, op, body, headers, state) ==
  \/ Unconditional(p)
  \/ /\ ~Unconditional(p)
     /\ IsServiceUpdate(op) => safeUpdate(op, p, headers)
     /\ p.selector # Nil \/ p.mutation # Nil => state # Nil /\ StateAccepted(op, state)
     /\ p.selector # Nil => matches(state.labels, p.selector)
     /\ p.request # Nil => RequestHolds(p, op, body)
     /\ p.mutation # Nil => state.spec # Nil /\ Validate(state.spec, body, p.mutation)
=============================================================================
