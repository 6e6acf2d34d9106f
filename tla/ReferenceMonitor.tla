-------------------------- MODULE ReferenceMonitor --------------------------
(***************************************************************************)
(* What dockauthz promises, without saying how: whatever a client does to  *)
(* Docker's objects is permitted at the moment it happens, as if policy    *)
(* and object were looked at and acted upon in one step.  Three relations  *)
(* say what is permitted:                                                  *)
(*   MayCreate(client, new)      - make this object,                       *)
(*   MayUpdate(client, old, new) - turn this object into that one,         *)
(*   MayUse(client, resource, action, seen) - any other action; seen is    *)
(*     the set of label maps the object in question has ever had.          *)
(* Deletes and inspects are only promised on labels the object had at some *)
(* time: Docker's API does not take a version for them.                    *)
(***************************************************************************)
CONSTANTS
  Ids, Nil,
  Clients,            \* everybody who acts through dockauthz
  Resources, Actions, \* the kinds of objects, and what is done with them
  MayCreate(_, _), MayUpdate(_, _, _), MayUse(_, _, _, _)

VARIABLES
  objects,  \* objects[id]: [resource, spec, auth], or Nil
  past,     \* past[id]: all label maps the object has had; {} before its creation
  last      \* who did what last: [client, resource, action, id], or Nil

Others == ""   \* whoever acts through another Swarm manager

LabelsOf(object) == IF object = Nil THEN {} ELSE {object.spec.labels}

Init ==
  /\ past = [id \in Ids |-> LabelsOf(objects[id])]
  /\ last = Nil

\* Only id changes, and the history keeps up.
Only(id) ==
  /\ objects' = [objects EXCEPT ![id] = objects'[id]]
  /\ past' = [past EXCEPT ![id] = @ \cup LabelsOf(objects'[id])]

By(client, resource, action, id) ==
  last' = [client |-> client, resource |-> resource, action |-> action, id |-> id]

Create(client, id) ==
  /\ past[id] = {} /\ objects'[id] # Nil
  /\ MayCreate(client, objects'[id])
  /\ Only(id)
  /\ By(client, objects'[id].resource, "create", id)

Update(client, id) ==
  /\ objects[id] # Nil /\ objects'[id] # Nil
  /\ objects'[id].resource = objects[id].resource
  /\ MayUpdate(client, objects[id], objects'[id])
  /\ Only(id)
  /\ By(client, objects[id].resource, "update", id)

Delete(client, id) ==
  /\ objects[id] # Nil /\ objects'[id] = Nil
  /\ MayUse(client, objects[id].resource, "delete", past[id])
  /\ Only(id)
  /\ By(client, objects[id].resource, "delete", id)

Inspect(client, id) ==
  /\ objects[id] # Nil
  /\ MayUse(client, objects[id].resource, "inspect", past[id])
  /\ UNCHANGED <<objects, past>>
  /\ By(client, objects[id].resource, "inspect", id)

\* Operations on no particular object: lists, and endpoints of Docker other than
\* the ones dockauthz knows.
Other(client, resource, action) ==
  /\ MayUse(client, resource, action, {})
  /\ UNCHANGED <<objects, past>>
  /\ By(client, resource, action, "")

\* Identifiers are never used again.
Elsewhere(id) ==
  /\ objects[id] = Nil /\ past[id] # {} => objects'[id] = Nil
  /\ Only(id)
  /\ By(Others, "", "", "")

Next ==
  \/ \E id \in Ids : Elsewhere(id)
  \/ \E client \in Clients, id \in Ids :
       Create(client, id) \/ Update(client, id) \/ Delete(client, id) \/ Inspect(client, id)
  \/ \E client \in Clients, resource \in Resources \cup {"unknown"}, action \in Actions \cup {"unknown"} :
       Other(client, resource, action)

Spec == Init /\ [][Next]_<<objects, past, last>>
=============================================================================
