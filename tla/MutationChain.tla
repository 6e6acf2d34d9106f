---------------------------- MODULE MutationChain ----------------------------
(***************************************************************************)
(* internal/mutation over time: a client that holds one mutation           *)
(* permission sends update after update, each judged by Validate against   *)
(* what the one before left, while nobody else touches the service.        *)
(***************************************************************************)
EXTENDS Policy

CONSTANTS
  Bodies0,   \* the bodies the client may send
  Lists      \* the lists mutation.only that Config.Validate accepts

ASSUME ChainAssumption == \A body \in Bodies0 : body \in Bodies /\ body.spec # Nil

ASSUME ListsAssumption ==
  \A list \in Lists : Fields(list) # {} /\ Fields(list) \subseteq MutationFields

VARIABLES
  only,     \* the client's list
  spec,     \* the service's current spec
  origin    \* history variable: the spec when the client began

vars == <<only, spec, origin>>

TypeOK == /\ only \in Lists
          /\ spec \in Specs
          /\ origin \in Specs

Init ==
  /\ only \in Lists
  /\ spec \in {body.spec : body \in Bodies0}
  /\ origin = spec

Apply(body) ==
  /\ Validate(spec, body, only)
  /\ spec' = body.spec
  /\ UNCHANGED <<only, origin>>

Next == \E body \in Bodies0 : Apply(body)

Spec == Init /\ [][Next]_vars

-----------------------------------------------------------------------------

\* However many updates it takes, the client changes nothing but the fields of its
\* list; in particular no update puts the service where a later one, still within the
\* list, could change more (mutation.Validate).
ConfinedToList == Changed(origin, spec) \subseteq Fields(only)

\* Validate accepts exactly the bodies that decode, change nothing outside the list
\* and keep, on both sides, the structs that the fields of the list are part of.
ValidateExact ==
  \A body \in Bodies0 :
    Validate(spec, body, only) <=>
      /\ body.strict
      /\ Changed(spec, body.spec) \subseteq Fields(only)
      /\ \A field \in Fields(only) \cap {"container.image", "container.secrets"} :
           Leaves(spec)[field] # Nil /\ Leaves(body.spec)[field] # Nil
      /\ "replicas" \in Fields(only) =>
           Leaves(spec)["replicas"] # Nil /\ Leaves(body.spec)["replicas"] # Nil /\ spec.modes = NoModes
=============================================================================
