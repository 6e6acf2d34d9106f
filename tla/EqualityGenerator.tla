-------------------------- MODULE EqualityGenerator --------------------------
(***************************************************************************)
(* internal/mutation/generate: the program that writes equal_generated.go, *)
(* one comparison function per type that a ServiceSpec is made of.         *)
(*                                                                         *)
(* A schema maps every type to [kind, elems]: the kinds of go/types, netip *)
(* for the named types of net/netip, other for what the generator does not *)
(* know; elems are the element type of a pointer, slice, map or array, or  *)
(* the types of a struct's fields, Private for a field not exported.       *)
(* equal is recursive: stack holds a frame [type, calls] for each of its   *)
(* activations, calls being the functions that its body calls so far.      *)
(***************************************************************************)
EXTENDS Naturals, Sequences, FiniteSets

CONSTANTS
  Schemas,   \* the schemas to generate for; each has the type Root
  Root, Private,
  MaxStack   \* bound: activations of equal at the same time

Kinds == {"basic", "netip", "pointer", "slice", "map", "array", "struct", "other"}

\* What go/types gives: every type that is referred to exists, and a pointer, a slice, a
\* map and an array have one element type.
ASSUME SchemasAssumption ==
  /\ MaxStack \in Nat
  /\ \A s \in Schemas :
       /\ Root \in DOMAIN s /\ Root # Private /\ Private \notin DOMAIN s
       /\ s \in [DOMAIN s -> [kind : Kinds, elems : Seq(DOMAIN s \cup {Private})]]
       /\ \A t \in DOMAIN s :
            /\ s[t].kind \in {"pointer", "slice", "map", "array"} => Len(s[t].elems) = 1
            /\ s[t].kind = "basic" => s[t].elems = <<>>

VARIABLES
  schema,
  names,     \* generator.names: from the types met so far to function numbers
  functions, \* generator.body: the functions written, each [name, type, calls]
  stack,
  outcome    \* running, written, or panic

generatorVars == <<schema, names, functions, stack, outcome>>

GeneratorInit ==
  /\ schema \in Schemas
  /\ names = [t \in {} |-> 0]
  /\ functions = <<>>
  /\ stack = <<>>
  /\ outcome = "running"

Kind(t) == schema[t].kind
Top     == stack[Len(stack)]
Below   == SubSeq(stack, 1, Len(stack) - 1)

\* The types that a function for t calls functions for; values of net/netip are compared
\* as they are, and for an unknown type there is none.
Elems(t) == IF Kind(t) \in {"netip", "other"} THEN <<>> ELSE schema[t].elems

\* The body of the function at the top is complete.
AtEnd == stack # <<>> /\ Len(Top.calls) = Len(Elems(Top.type))

\* The type that equal is called for next, by main at first.
Wanted == IF stack = <<>> THEN Root ELSE Elems(Top.type)[Len(Top.calls) + 1]

Calling(frame, name) == [frame EXCEPT !.calls = Append(@, name)]

\* Mutated form: the function is entered in names once it has been written.
KnownOnceWritten(t) == \E i \in DOMAIN functions : functions[i].type = t

\* The lookup in names, which has a type from the moment its function is begun.
Known(t) == t \in DOMAIN names

\* Mutated form: functions are numbered as they are written.
NumberWritten == Len(functions)

\* The number of the next function.
Number == Cardinality(DOMAIN names)

Enter ==
  /\ outcome = "running" /\ Len(stack) < MaxStack
  /\ ~AtEnd /\ Wanted # Private /\ ~Known(Wanted)
  /\ names' = [t \in DOMAIN names \cup {Wanted} |-> IF t = Wanted THEN Number ELSE names[t]]
  /\ stack' = Append(stack, [type |-> Wanted, calls |-> <<>>])
  /\ UNCHANGED <<schema, functions, outcome>>

\* equal returns at once: there is a function, or there will be.
Reuse ==
  /\ outcome = "running"
  /\ ~AtEnd /\ Wanted # Private /\ Known(Wanted)
  /\ stack' = Append(Below, Calling(Top, names[Wanted]))
  /\ UNCHANGED <<schema, names, functions, outcome>>

\* A private field, or a type without a template.
Panic ==
  /\ outcome = "running" /\ stack # <<>>
  /\ Kind(Top.type) = "other" \/ (~AtEnd /\ Wanted = Private)
  /\ outcome' = "panic"
  /\ UNCHANGED <<schema, names, functions, stack>>

\* The function is written, and the caller of equal goes on; main writes the file.
Return ==
  /\ outcome = "running" /\ AtEnd /\ Kind(Top.type) # "other"
  /\ functions' = Append(functions, [name |-> names[Top.type], type |-> Top.type, calls |-> Top.calls])
  /\ IF Below = <<>>
     THEN stack' = <<>> /\ outcome' = "written"
     ELSE /\ stack' = [Below EXCEPT ![Len(Below)] = Calling(@, names[Top.type])]
          /\ UNCHANGED outcome
  /\ UNCHANGED <<schema, names>>

GeneratorNext == Enter \/ Reuse \/ Panic \/ Return
GeneratorSafety == GeneratorInit /\ [][GeneratorNext]_generatorVars
GeneratorSpec == GeneratorSafety /\ WF_generatorVars(GeneratorNext)

-----------------------------------------------------------------------------
(* The functions that are written, by the template of their kind.  A value   *)
(* is 0 or 1 for a basic type, <<>> (nil) or <<v>> for a pointer, [nil,      *)
(* items] for a slice or a map, a tuple for an array or a struct.            *)

\* Mutated form: nil and empty are the same.
SameSizeOnly(a, b) == Cardinality(DOMAIN a.items) = Cardinality(DOMAIN b.items)

\* The first line of the templates for slices and maps.
SameSize(a, b) == a.nil = b.nil /\ Cardinality(DOMAIN a.items) = Cardinality(DOMAIN b.items)

\* The tests that a function of the given kind makes itself.
Tests(kind, a, b) ==
  CASE kind \in {"basic", "netip"} -> a = b
    [] kind = "pointer" -> a = <<>> \/ b = <<>> => a = b
    [] kind \in {"slice", "map"} -> SameSize(a, b) /\ DOMAIN a.items \subseteq DOMAIN b.items
    [] OTHER -> TRUE

\* The calls <<name, v, w>> that it makes where its own tests succeed; it answers TRUE if
\* all of them do.
CallsMade(kind, calls, a, b) ==
  CASE kind \in {"pointer", "array"} -> {<<calls[1], a[k], b[k]>> : k \in DOMAIN a}
    [] kind \in {"slice", "map"} -> {<<calls[1], a.items[k], b.items[k]>> : k \in DOMAIN a.items}
    [] kind = "struct" -> {<<calls[k], a[k], b[k]>> : k \in DOMAIN calls}
    [] OTHER -> {}

-----------------------------------------------------------------------------

\* There is one function of that name, and it is for type t.
WrittenOnceFor(name, t) ==
  \E j \in DOMAIN functions :
    /\ functions[j].name = name /\ functions[j].type = t
    /\ \A other \in DOMAIN functions : functions[other].name = name => other = j

\* Every function that is called, by main's last line or by another function, is written,
\* once, and for the type it is called with, also where types are shared or refer to each
\* other (names has them before their bodies).
CallsResolved ==
  outcome = "written" =>
    /\ WrittenOnceFor(names[Root], Root)
    /\ \A i \in DOMAIN functions : \A k \in DOMAIN functions[i].calls :
         WrittenOnceFor(functions[i].calls[k], schema[functions[i].type].elems[k])

\* The generator comes to an end, with a file or with a panic, for recursive types too.
GeneratorEnds == <>(outcome # "running")
=============================================================================
