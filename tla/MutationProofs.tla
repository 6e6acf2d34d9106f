--------------------------- MODULE MutationProofs ---------------------------
(***************************************************************************)
(* What mutation.Validate guarantees, for specs and lists of any kind.     *)
(***************************************************************************)
EXTENDS Policy, TLAPS

\* A Nil pointer is not a pointer to something.
LEMMA LeavesOf ==
  ASSUME NEW spec
  PROVE  /\ DOMAIN Leaves(spec) = MutationFields \cup {"name", "labels", "container", "container.rest", "mode", "modes", "rest"}
         /\ Leaves(spec)["name"] = spec.name /\ Leaves(spec)["labels"] = spec.labels
         /\ Leaves(spec)["modes"] = spec.modes /\ Leaves(spec)["rest"] = spec.rest
         /\ Leaves(spec)["container"] = (spec.container = Nil)
         /\ Leaves(spec)["mode"] = (spec.replicated = Nil)
         /\ Leaves(spec)["container.image"] = IF spec.container = Nil THEN Nil ELSE spec.container.image
         /\ Leaves(spec)["container.secrets"] = IF spec.container = Nil THEN Nil ELSE spec.container.secrets
         /\ Leaves(spec)["container.rest"] = IF spec.container = Nil THEN Nil ELSE spec.container.rest
         /\ Leaves(spec)["replicas"] = IF spec.replicated = Nil THEN Nil ELSE spec.replicated.replicas
  BY DEF Leaves, MutationFields

\* An update that Validate accepts changes only leaves of the spec that the list names
\* (the comparison of the restored request with the current spec).
THEOREM ValidateSound ==
  ASSUME NEW current \in Specs, NEW body \in Bodies, NEW only,
         Validate(current, body, only)
  PROVE  /\ body.strict /\ body.spec \in Specs
         /\ Changed(current, body.spec) \subseteq Fields(only)
  <1> DEFINE next == body.spec
             fields == Fields(only)
             restored == Restore(current, next, fields)
  <1>1. body.strict /\ next \in Specs /\ Decode(body) = next
    BY DEF Validate, Decode, Bodies
  <1>e. equalSpec(current, restored)
    BY <1>1 DEF Validate
  <1>3. restored.name = next.name /\ restored.labels = next.labels
        /\ restored.modes = next.modes /\ restored.rest = next.rest
    BY <1>1 DEF Restore, Specs
  <1>4. restored.container = RestoreContainer(current.container, next.container, fields)
    BY <1>1 DEF Restore, Specs
  <1>5. restored.replicated = IF "replicas" \in fields THEN [replicas |-> current.replicated.replicas] ELSE next.replicated
    BY <1>1 DEF Restore, Specs
  <1>v. /\ fields \cap {"container.secrets", "container.image"} # {} =>
             current.container # Nil /\ next.container # Nil
        /\ "replicas" \in fields => current.replicated # Nil /\ next.replicated # Nil
    BY <1>1 DEF Validate
  <1> HIDE DEF restored, fields, next
  <1>2. /\ current.name = restored.name /\ current.labels = restored.labels
        /\ current.modes = restored.modes /\ current.rest = restored.rest
        /\ IF current.container = Nil \/ restored.container = Nil
           THEN current.container = restored.container
           ELSE /\ current.container.image = restored.container.image
                /\ current.container.secrets = restored.container.secrets
                /\ current.container.rest = restored.container.rest
        /\ IF current.replicated = Nil \/ restored.replicated = Nil
           THEN current.replicated = restored.replicated
           ELSE current.replicated.replicas = restored.replicated.replicas
    BY <1>e DEF equalSpec, equal1, equal4, equal5, equal6, equal130, equal131, equalContainerRest, equalTaskRest
  <1>6. (current.container = Nil) = (next.container = Nil)
    BY <1>2, <1>4, <1>v DEF RestoreContainer
  <1>7. (current.replicated = Nil) = (next.replicated = Nil)
    BY <1>2, <1>5, <1>v
  <1>8. current.container # Nil =>
          /\ "container.image" \in fields \/ current.container.image = next.container.image
          /\ "container.secrets" \in fields \/ current.container.secrets = next.container.secrets
          /\ current.container.rest = next.container.rest
    <2>1. CASE fields \cap {"container.secrets", "container.image"} = {}
      BY <1>2, <1>4, <2>1 DEF RestoreContainer
    <2>2. CASE fields \cap {"container.secrets", "container.image"} # {}
      <3>1. restored.container =
              [secrets |-> IF "container.secrets" \in fields THEN current.container.secrets ELSE next.container.secrets,
               image   |-> IF "container.image" \in fields THEN current.container.image ELSE next.container.image,
               rest    |-> next.container.rest]
        BY <1>4, <2>2 DEF RestoreContainer
      <3>2. QED
        BY <1>2, <3>1
    <2>3. QED
      BY <2>1, <2>2
  <1>9. current.replicated # Nil => "replicas" \in fields \/ current.replicated.replicas = next.replicated.replicas
    BY <1>2, <1>5
  <1>10. \A leaf \in DOMAIN Leaves(current) : Leaves(current)[leaf] # Leaves(next)[leaf] => leaf \in fields
    BY <1>2, <1>3, <1>6, <1>7, <1>8, <1>9, LeavesOf DEF MutationFields
  <1>11. QED
    BY <1>1, <1>10 DEF Changed, fields, next

\* What the fields of a list demand of the two specs beyond being there: they are part of
\* structs that both specs have.
Within(current, next, fields) ==
  /\ \A field \in fields \cap {"container.image", "container.secrets"} :
       Leaves(current)[field] # Nil /\ Leaves(next)[field] # Nil
  /\ "replicas" \in fields =>
       Leaves(current)["replicas"] # Nil /\ Leaves(next)["replicas"] # Nil /\ current.modes = NoModes

\* Validate accepts no update outside these structs.
LEMMA ValidateWithin ==
  ASSUME NEW current \in Specs, NEW body \in Bodies, NEW only,
         Validate(current, body, only)
  PROVE  Within(current, body.spec, Fields(only))
  <1> DEFINE next == body.spec
             fields == Fields(only)
  <1>1. next \in Specs /\ Decode(body) = next
    BY DEF Validate, Decode, Bodies
  <1>2. /\ fields \cap {"container.secrets", "container.image"} # {} =>
             current.container # Nil /\ next.container # Nil
        /\ "replicas" \in fields => current.replicated # Nil /\ next.replicated # Nil /\ current.modes = NoModes
    BY <1>1 DEF Validate
  <1> HIDE DEF fields, next
  <1>3. \A spec \in Specs :
          /\ spec.container # Nil => spec.container.image # Nil /\ spec.container.secrets # Nil
          /\ spec.replicated # Nil => spec.replicated.replicas # Nil
    BY PolicyAssumption DEF Specs, Containers
  <1>4. \A spec \in Specs :
          /\ spec.container # Nil => Leaves(spec)["container.image"] # Nil /\ Leaves(spec)["container.secrets"] # Nil
          /\ spec.replicated # Nil => Leaves(spec)["replicas"] # Nil
    BY <1>3, LeavesOf
  <1>5. \A field \in fields \cap {"container.image", "container.secrets"} :
          Leaves(current)[field] # Nil /\ Leaves(next)[field] # Nil
    BY <1>1, <1>2, <1>4
  <1>6. QED
    BY <1>1, <1>2, <1>4, <1>5 DEF Within, fields, next

\* And it accepts every other one: an update of the named leaves alone, in structs that both
\* specs have, is not refused (the comparison after the restoration sees no difference).
THEOREM ValidateComplete ==
  ASSUME NEW current \in Specs, NEW body \in Bodies, NEW only,
         body.strict, body.spec # Nil,
         Fields(only) # {}, Fields(only) \subseteq MutationFields,
         Changed(current, body.spec) \subseteq Fields(only),
         Within(current, body.spec, Fields(only))
  PROVE  Validate(current, body, only)
  <1> DEFINE next == body.spec
             fields == Fields(only)
             restored == Restore(current, next, fields)
  <1>1. next \in Specs /\ Decode(body) = next /\ next # Nil
    BY DEF Decode, Bodies
  <1>2. restored.name = next.name /\ restored.labels = next.labels
        /\ restored.modes = next.modes /\ restored.rest = next.rest
    BY <1>1 DEF Restore, Specs
  <1>3. restored.container = RestoreContainer(current.container, next.container, fields)
    BY <1>1 DEF Restore, Specs
  <1>4. restored.replicated = IF "replicas" \in fields THEN [replicas |-> current.replicated.replicas] ELSE next.replicated
    BY <1>1 DEF Restore, Specs
  <1>5. \A leaf \in MutationFields \cup {"name", "labels", "container", "container.rest", "mode", "modes", "rest"} :
          leaf \notin fields => Leaves(current)[leaf] = Leaves(next)[leaf]
    BY LeavesOf DEF Changed
  <1>6. fields \subseteq MutationFields /\ fields # {} /\ Within(current, next, fields)
    OBVIOUS
  <1> HIDE DEF restored, fields, next
  <1>7. /\ Leaves(current)["name"] = Leaves(next)["name"]
        /\ Leaves(current)["labels"] = Leaves(next)["labels"]
        /\ Leaves(current)["container"] = Leaves(next)["container"]
        /\ Leaves(current)["container.rest"] = Leaves(next)["container.rest"]
        /\ Leaves(current)["mode"] = Leaves(next)["mode"]
        /\ Leaves(current)["modes"] = Leaves(next)["modes"]
        /\ Leaves(current)["rest"] = Leaves(next)["rest"]
    BY <1>5, <1>6 DEF MutationFields
  <1>8. /\ "container.image" \notin fields => Leaves(current)["container.image"] = Leaves(next)["container.image"]
        /\ "container.secrets" \notin fields => Leaves(current)["container.secrets"] = Leaves(next)["container.secrets"]
        /\ "replicas" \notin fields => Leaves(current)["replicas"] = Leaves(next)["replicas"]
    BY <1>5 DEF MutationFields
  <1>9. /\ current.name = next.name /\ current.labels = next.labels /\ current.modes = next.modes
        /\ current.rest = next.rest
        /\ (current.container = Nil) = (next.container = Nil)
        /\ (current.replicated = Nil) = (next.replicated = Nil)
        /\ current.container # Nil => current.container.rest = next.container.rest
    BY <1>7, LeavesOf
  <1>10. /\ current.container # Nil /\ "container.image" \notin fields => current.container.image = next.container.image
         /\ current.container # Nil /\ "container.secrets" \notin fields => current.container.secrets = next.container.secrets
         /\ current.replicated # Nil /\ "replicas" \notin fields => current.replicated.replicas = next.replicated.replicas
    BY <1>8, <1>9, LeavesOf
  <1>11. /\ fields \cap {"container.secrets", "container.image"} # {} =>
              current.container # Nil /\ next.container # Nil
         /\ "replicas" \in fields =>
              current.replicated # Nil /\ next.replicated # Nil /\ current.modes = NoModes /\ next.modes = NoModes
    BY <1>6, <1>9, LeavesOf DEF Within
  <1>12. equalSpec(current, restored)
    <2>1. equal1(current, restored) /\ equalTaskRest(current, restored) /\ current.modes = restored.modes
      BY <1>2, <1>9 DEF equal1, equalTaskRest
    <2>2. current.container # Nil => restored.container = current.container
      <3> SUFFICES ASSUME current.container # Nil PROVE restored.container = current.container
        OBVIOUS
      <3>1. current.container \in Containers /\ next.container \in Containers
        BY <1>1, <1>9 DEF Specs
      <3>2. CASE fields \cap {"container.secrets", "container.image"} = {}
        <4>1. /\ restored.container = next.container
              /\ current.container.image = next.container.image
              /\ current.container.secrets = next.container.secrets
              /\ current.container.rest = next.container.rest
          BY <1>3, <1>9, <1>10, <3>2 DEF RestoreContainer
        <4>2. QED
          BY <3>1, <4>1 DEF Containers
      <3>3. CASE fields \cap {"container.secrets", "container.image"} # {}
        <4>1. restored.container =
                [secrets |-> IF "container.secrets" \in fields THEN current.container.secrets ELSE next.container.secrets,
                 image   |-> IF "container.image" \in fields THEN current.container.image ELSE next.container.image,
                 rest    |-> next.container.rest]
          BY <1>3, <3>3 DEF RestoreContainer
        <4>2. restored.container =
                [secrets |-> current.container.secrets, image |-> current.container.image, rest |-> current.container.rest]
          BY <1>9, <1>10, <4>1
        <4>3. QED
          BY <3>1, <4>2 DEF Containers
      <3>4. QED
        BY <3>2, <3>3
    <2>3. equal5(current.container, restored.container)
      <3>1. CASE current.container = Nil
        BY <1>3, <1>9, <1>11, <3>1 DEF RestoreContainer, equal5
      <3>2. CASE current.container # Nil
        BY <2>2, <3>2 DEF equal5, equal6, equalContainerRest
      <3>3. QED
        BY <3>1, <3>2
    <2>4. equal131(current.replicated, restored.replicated)
      <3>1. CASE current.replicated = Nil
        BY <1>4, <1>9, <1>11, <3>1 DEF equal131
      <3>2. CASE current.replicated # Nil
        <4>1. current.replicated \in [replicas : Values] /\ next.replicated \in [replicas : Values]
          BY <1>1, <1>9, <3>2 DEF Specs
        <4>2. restored.replicated = current.replicated
          BY <1>4, <1>10, <3>2, <4>1
        <4>3. QED
          BY <4>2 DEF equal131
      <3>3. QED
        BY <3>1, <3>2
    <2>5. QED
      BY <2>1, <2>3, <2>4 DEF equalSpec, equal4, equal130
  <1>13. QED
    BY <1>1, <1>6, <1>11, <1>12 DEF Validate, restored, fields, next
=============================================================================
