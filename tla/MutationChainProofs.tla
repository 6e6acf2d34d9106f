------------------------- MODULE MutationChainProofs -------------------------
(***************************************************************************)
(* A client with a mutation permission stays within its list for ever, and *)
(* the comparison that this rests on is exact: what the generator writes   *)
(* for a type tells any two values of it apart, for every schema.          *)
(***************************************************************************)
EXTENDS MutationChain, MutationProofs, EqualityGenerator,
        FiniteSetTheorems, SequenceTheorems, WellFoundedInduction

-----------------------------------------------------------------------------
(* Chains of updates *)

\* Leaves that two updates leave alone are left alone by both together.
LEMMA ChangedTransitive ==
  ASSUME NEW a, NEW b, NEW c, NEW F, Changed(a, b) \subseteq F, Changed(b, c) \subseteq F
  PROVE  Changed(a, c) \subseteq F
  BY LeavesOf DEF Changed

\* A client that may change the fields of a list changes nothing else, however many
\* updates it sends (mutation.Validate, applied again and again).
THEOREM StaysConfined == Spec => []ConfinedToList
  <1> DEFINE Inv == TypeOK /\ ConfinedToList
  <1>1. Init => Inv
    BY ChainAssumption DEF Init, TypeOK, ConfinedToList, Changed, Bodies
  <1>2. Inv /\ [Next]_vars => Inv'
    <2> SUFFICES ASSUME Inv, [Next]_vars PROVE Inv'
      OBVIOUS
    <2>1. ASSUME NEW body \in Bodies0, Apply(body) PROVE Inv'
      <3>1. body.spec \in Specs /\ Changed(spec, body.spec) \subseteq Fields(only)
        BY <2>1, ChainAssumption, ValidateSound DEF Apply, TypeOK
      <3>2. Changed(origin, body.spec) \subseteq Fields(only)
        BY <3>1, ChangedTransitive DEF ConfinedToList
      <3>3. QED
        BY <2>1, <3>1, <3>2 DEF Apply, TypeOK, ConfinedToList
    <2>2. CASE UNCHANGED vars
      BY <2>2 DEF vars, TypeOK, ConfinedToList
    <2>3. QED
      BY <2>1, <2>2 DEF Next
  <1>3. QED
    BY <1>1, <1>2, PTL DEF Spec

\* For specs, lists and bodies of any kind: Validate accepts exactly what it should, so a
\* refusal is always for a change outside the list or a struct that is missing.
THEOREM ValidatesExactly == Spec => []ValidateExact
  <1>1. Init => TypeOK
    BY ChainAssumption DEF Init, TypeOK, Bodies
  <1>2. TypeOK /\ [Next]_vars => TypeOK'
    BY ChainAssumption DEF Next, Apply, TypeOK, Bodies, vars
  <1>3. TypeOK => ValidateExact
    <2> SUFFICES ASSUME TypeOK, NEW body \in Bodies0
                 PROVE  Validate(spec, body, only) <=>
                          /\ body.strict
                          /\ Changed(spec, body.spec) \subseteq Fields(only)
                          /\ Within(spec, body.spec, Fields(only))
      BY DEF ValidateExact, Within
    <2>1. spec \in Specs /\ only \in Lists /\ body \in Bodies /\ body.spec # Nil
      BY ChainAssumption DEF TypeOK
    <2>2. Fields(only) # {} /\ Fields(only) \subseteq MutationFields
      BY <2>1, ListsAssumption
    <2>3. Validate(spec, body, only) => body.strict /\ Changed(spec, body.spec) \subseteq Fields(only)
      BY <2>1, ValidateSound
    <2>4. Validate(spec, body, only) => Within(spec, body.spec, Fields(only))
      BY <2>1, ValidateWithin
    <2>5. /\ body.strict /\ Changed(spec, body.spec) \subseteq Fields(only)
          /\ Within(spec, body.spec, Fields(only))
          => Validate(spec, body, only)
      BY <2>1, <2>2, ValidateComplete
    <2>6. QED
      BY <2>3, <2>4, <2>5
  <1>4. QED
    BY <1>1, <1>2, <1>3, PTL DEF Spec

-----------------------------------------------------------------------------
(* The generator *)

\* Each call so far is of the function for the element type.
CallsOf(f) ==
  /\ f.calls \in Seq(Nat) /\ Len(f.calls) <= Len(Elems(f.type))
  /\ \A i \in 1..Len(f.calls) :
       Elems(f.type)[i] \in DOMAIN names /\ f.calls[i] = names[Elems(f.type)[i]]

\* Types have numbers of their own, below the next one.
NamesInv ==
  /\ schema \in Schemas /\ outcome \in {"running", "written", "panic"}
  /\ IsFiniteSet(DOMAIN names) /\ DOMAIN names \subseteq DOMAIN schema
  /\ names \in [DOMAIN names -> Nat]
  /\ \A t \in DOMAIN names : names[t] < Number
  /\ \A t, u \in DOMAIN names : names[t] = names[u] => t = u

\* A function that is written is complete.
FunctionsInv ==
  /\ functions \in Seq([name : Nat, type : DOMAIN names, calls : Seq(Nat)])
  /\ \A i \in 1..Len(functions) :
       LET f == functions[i] IN
       /\ f.name = names[f.type] /\ Kind(f.type) # "other"
       /\ CallsOf(f) /\ Len(f.calls) = Len(Elems(f.type))

\* Every activation but the last waits for the next one.
StackInv ==
  /\ stack \in Seq([type : DOMAIN names, calls : Seq(Nat)])
  /\ \A i \in 1..Len(stack) : CallsOf(stack[i])
  /\ \A i \in 1..Len(stack) - 1 :
       /\ Len(stack[i].calls) < Len(Elems(stack[i].type))
       /\ Elems(stack[i].type)[Len(stack[i].calls) + 1] = stack[i + 1].type
  /\ stack # <<>> => stack[1].type = Root
  /\ stack = <<>> /\ outcome = "running" => DOMAIN names = {}
  /\ outcome = "written" => stack = <<>> /\ Root \in DOMAIN names

OnStack(t) == \E i \in 1..Len(stack) : stack[i].type = t
IsWritten(t) == \E i \in 1..Len(functions) : functions[i].type = t

\* A type that has a number is at one place: on the stack or among the functions.
PlaceInv ==
  /\ \A t \in DOMAIN names : OnStack(t) \/ IsWritten(t)
  /\ \A t \in DOMAIN names : ~(OnStack(t) /\ IsWritten(t))
  /\ \A i, j \in 1..Len(stack) : stack[i].type = stack[j].type => i = j
  /\ \A i, j \in 1..Len(functions) : functions[i].type = functions[j].type => i = j

GenInv == NamesInv /\ FunctionsInv /\ StackInv /\ PlaceInv

\* The frames and the functions there may be.
Frames == [type : DOMAIN names, calls : Seq(Nat)]

\* What go/types gives of the schema in use.
LEMMA SchemaTypes ==
  ASSUME NamesInv
  PROVE  /\ Root \in DOMAIN schema /\ Root # Private
         /\ \A t \in DOMAIN schema : Elems(t) \in Seq(DOMAIN schema \cup {Private})
         /\ \A t \in DOMAIN schema : Kind(t) \in Kinds
         /\ \A t \in DOMAIN schema :
              Kind(t) \in {"pointer", "slice", "map", "array"} => Len(Elems(t)) = 1
  <1> DEFINE T == DOMAIN schema \cup {Private}
  <1>1. /\ Root \in DOMAIN schema /\ Root # Private
        /\ schema \in [DOMAIN schema -> [kind : Kinds, elems : Seq(T)]]
        /\ \A t \in DOMAIN schema :
             schema[t].kind \in {"pointer", "slice", "map", "array"} => Len(schema[t].elems) = 1
    BY SchemasAssumption DEF NamesInv
  <1>2. <<>> \in Seq(T)
    OBVIOUS
  <1> HIDE DEF T
  <1>3. \A t \in DOMAIN schema : schema[t].kind \in Kinds /\ schema[t].elems \in Seq(T)
    BY <1>1
  <1>4. \A t \in DOMAIN schema : Elems(t) \in Seq(T)
    BY <1>2, <1>3 DEF Elems
  <1>5. \A t \in DOMAIN schema : Kind(t) \in Kinds
    BY <1>3 DEF Kind
  <1>6. \A t \in DOMAIN schema : Kind(t) \in {"pointer", "slice", "map", "array"} => Len(Elems(t)) = 1
    BY <1>1 DEF Elems, Kind
  <1>7. QED
    BY <1>1, <1>4, <1>5, <1>6 DEF T

\* The frame at the top, and the type that its function asks for next.
LEMMA TopFrame ==
  ASSUME GenInv, stack # <<>>
  PROVE  /\ Len(stack) \in Nat \ {0} /\ Top = stack[Len(stack)] /\ Top \in Frames
         /\ Top.type \in DOMAIN names /\ Top.calls \in Seq(Nat) /\ CallsOf(Top)
         /\ Elems(Top.type) \in Seq(DOMAIN schema \cup {Private})
         /\ ~AtEnd => /\ Len(Top.calls) < Len(Elems(Top.type))
                      /\ Wanted = Elems(Top.type)[Len(Top.calls) + 1]
                      /\ Wanted # Private => Wanted \in DOMAIN schema
  <1>1. stack \in Seq(Frames) /\ \A i \in 1..Len(stack) : CallsOf(stack[i])
    BY DEF GenInv, StackInv, Frames
  <1> HIDE DEF Frames
  <1>2. Len(stack) \in Nat \ {0} /\ Top \in Frames /\ CallsOf(Top)
    BY <1>1 DEF Top
  <1>3. Top.type \in DOMAIN names /\ Top.calls \in Seq(Nat)
    BY <1>2 DEF Frames
  <1>4. Elems(Top.type) \in Seq(DOMAIN schema \cup {Private})
    BY <1>3, SchemaTypes DEF GenInv, NamesInv
  <1>5. ASSUME ~AtEnd
        PROVE  /\ Len(Top.calls) < Len(Elems(Top.type))
               /\ Wanted = Elems(Top.type)[Len(Top.calls) + 1]
    <2>1. Len(Top.calls) <= Len(Elems(Top.type)) /\ Len(Top.calls) # Len(Elems(Top.type))
      BY <1>2, <1>5 DEF AtEnd, CallsOf
    <2>2. QED
      BY <1>3, <1>4, <2>1 DEF Wanted
  <1>6. ~AtEnd /\ Wanted # Private => Wanted \in DOMAIN schema
    BY <1>3, <1>4, <1>5
  <1>7. QED
    BY <1>2, <1>3, <1>4, <1>5, <1>6 DEF Top

\* The type that equal is entered for is one of the schema.
LEMMA WantedType ==
  ASSUME GenInv, ~AtEnd, Wanted # Private
  PROVE  Wanted \in DOMAIN schema
  <1>1. CASE stack = <<>>
    BY <1>1, SchemaTypes DEF Wanted, GenInv
  <1>2. QED
    BY <1>1, TopFrame

\* A new number is greater than all others.
LEMMA EnterNames ==
  ASSUME GenInv, Enter
  PROVE  /\ NamesInv'
         /\ Wanted \in DOMAIN names' /\ Wanted \notin DOMAIN names
         /\ DOMAIN names' = DOMAIN names \cup {Wanted}
         /\ \A t \in DOMAIN names : names'[t] = names[t]
  <1> DEFINE w == Wanted
             n == Cardinality(DOMAIN names)
  <1>1. w \in DOMAIN schema /\ w \notin DOMAIN names
    BY WantedType DEF Enter, Known
  <1>2. IsFiniteSet(DOMAIN names) /\ n \in Nat
    BY FS_CardinalityType DEF GenInv, NamesInv
  <1>3. IsFiniteSet(DOMAIN names \cup {w}) /\ Cardinality(DOMAIN names \cup {w}) = n + 1
    BY <1>1, <1>2, FS_AddElement
  <1>4. names' = [t \in DOMAIN names \cup {w} |-> IF t = w THEN n ELSE names[t]]
    BY DEF Enter, Number
  <1> HIDE DEF w, n
  <1>5. DOMAIN names' = DOMAIN names \cup {w}
    BY <1>4
  <1>6. names'[w] = n /\ \A t \in DOMAIN names : names'[t] = names[t]
    BY <1>1, <1>4
  <1>7. names \in [DOMAIN names -> Nat] /\ \A t \in DOMAIN names : names[t] < n
    BY DEF GenInv, NamesInv, Number, n
  <1>8. names' \in [DOMAIN names' -> Nat]
    BY <1>2, <1>4, <1>5, <1>7
  <1>9. \A t \in DOMAIN names' : names'[t] < n + 1
    BY <1>2, <1>5, <1>6, <1>7
  <1>10. \A t, u \in DOMAIN names' : names'[t] = names'[u] => t = u
    <2>1. \A t, u \in DOMAIN names : names[t] = names[u] => t = u
      BY DEF GenInv, NamesInv
    <2>2. QED
      BY <1>2, <1>5, <1>6, <1>7, <2>1
  <1>11. /\ schema' \in Schemas /\ outcome' \in {"running", "written", "panic"}
         /\ DOMAIN names' \subseteq DOMAIN schema'
    BY <1>1, <1>5 DEF Enter, GenInv, NamesInv
  <1>12. NamesInv'
    BY <1>3, <1>5, <1>8, <1>9, <1>10, <1>11 DEF NamesInv, Number
  <1>13. QED
    BY <1>1, <1>5, <1>6, <1>12 DEF w

\* Calls stay right when names grows.
LEMMA CallsPersist ==
  ASSUME DOMAIN names \subseteq DOMAIN names', \A t \in DOMAIN names : names'[t] = names[t],
         schema' = schema, NEW f, CallsOf(f)
  PROVE  /\ f.calls \in Seq(Nat) /\ Len(f.calls) <= Len(Elems(f.type))
         /\ \A i \in 1..Len(f.calls) :
              Elems(f.type)[i] \in DOMAIN names' /\ f.calls[i] = names'[Elems(f.type)[i]]
  BY DEF CallsOf

\* What is left alone by a step that adds a number at most.
LEMMA FunctionsKept ==
  ASSUME FunctionsInv, DOMAIN names \subseteq DOMAIN names', \A t \in DOMAIN names : names'[t] = names[t],
         schema' = schema, functions' = functions
  PROVE  FunctionsInv'
  <1> DEFINE F(m) == [name : Nat, type : DOMAIN m, calls : Seq(Nat)]
  <1>1. functions \in Seq(F(names'))
    <2>1. functions \in Seq(F(names)) /\ F(names) \subseteq F(names')
      BY DEF FunctionsInv
    <2> HIDE DEF F
    <2>2. QED
      BY <2>1
  <1>2. ASSUME NEW i \in 1..Len(functions)
        PROVE  LET f == functions[i] IN
               /\ f.name = names'[f.type] /\ Kind(f.type) # "other"
               /\ f.calls \in Seq(Nat) /\ Len(f.calls) = Len(Elems(f.type))
               /\ \A j \in 1..Len(f.calls) :
                    Elems(f.type)[j] \in DOMAIN names' /\ f.calls[j] = names'[Elems(f.type)[j]]
    <2> DEFINE f == functions[i]
    <2>1. f.type \in DOMAIN names
      <3>1. functions \in Seq(F(names))
        BY DEF FunctionsInv
      <3>2. f \in F(names)
        <4> HIDE DEF F
        <4>1. QED
          BY <3>1
      <3>3. QED
        BY <3>2
    <2>2. f.name = names[f.type] /\ Kind(f.type) # "other" /\ CallsOf(f) /\ Len(f.calls) = Len(Elems(f.type))
      BY DEF FunctionsInv
    <2> HIDE DEF f
    <2>3. QED
      BY <2>1, <2>2, CallsPersist DEF f
  <1>3. QED
    BY <1>1, <1>2 DEF FunctionsInv, CallsOf, Elems, Kind

\* A new activation is for the type that the one below asked for.
LEMMA EnterStack ==
  ASSUME GenInv, Enter
  PROVE  StackInv'
  <1> DEFINE w == Wanted
             fresh == [type |-> w, calls |-> <<>>]
             n == Len(stack)
             G == [type : DOMAIN names', calls : Seq(Nat)]
  <1>1. /\ DOMAIN names' = DOMAIN names \cup {w} /\ w \in DOMAIN names' /\ w \in DOMAIN schema
        /\ \A t \in DOMAIN names : names'[t] = names[t]
        /\ schema' = schema
    BY EnterNames, WantedType DEF Enter
  <1>2. stack \in Seq(Frames)
    BY DEF GenInv, StackInv, Frames
  <1>3. Frames \subseteq G /\ fresh \in G
    BY <1>1 DEF Frames
  <1> HIDE DEF G, Frames
  <1>4. stack \in Seq(G) /\ n \in Nat
    BY <1>2, <1>3
  <1>5. stack' = Append(stack, fresh)
    BY DEF Enter
  <1> HIDE DEF fresh
  <1>6. stack' \in Seq(G) /\ Len(stack') = n + 1 /\ stack'[n + 1] = fresh /\ \A i \in 1..n : stack'[i] = stack[i]
    BY <1>3, <1>4, <1>5
  <1>7. fresh.type = w /\ fresh.calls = <<>>
    BY DEF fresh
  <1> HIDE DEF n
  <1>8. ASSUME NEW i \in 1..Len(stack')
        PROVE  CallsOf(stack[i])'
    <2>1. CASE i = n + 1
      <3>1. stack'[i].type = w /\ stack'[i].calls = <<>>
        BY <1>6, <1>7, <2>1
      <3>2. Elems(w) \in Seq(DOMAIN schema \cup {Private})
        BY <1>1, SchemaTypes DEF GenInv
      <3>3. Len(Elems(w)) \in Nat /\ Len(<<>>) = 0 /\ <<>> \in Seq(Nat)
        BY <3>2
      <3>4. QED
        BY <1>1, <3>1, <3>3 DEF CallsOf, Elems, Kind
    <2>2. CASE i # n + 1
      <3>1. i \in 1..n /\ stack'[i] = stack[i]
        BY <1>4, <1>6, <2>2
      <3>2. CallsOf(stack[i])
        BY <3>1 DEF GenInv, StackInv, n
      <3>3. QED
        BY <1>1, <3>1, <3>2, CallsPersist DEF CallsOf, Elems, Kind
    <2>3. QED
      BY <2>1, <2>2
  <1>9. ASSUME NEW i \in 1..Len(stack') - 1
        PROVE  /\ Len(stack'[i].calls) < Len(Elems(stack'[i].type))
               /\ Elems(stack'[i].type)[Len(stack'[i].calls) + 1] = stack'[i + 1].type
    <2>1. i \in 1..n /\ stack'[i] = stack[i]
      BY <1>4, <1>6
    <2>2. CASE i = n
      <3>1. stack # <<>>
        BY <1>4, <2>1, <2>2 DEF n
      <3>2. /\ Len(Top.calls) < Len(Elems(Top.type)) /\ w = Elems(Top.type)[Len(Top.calls) + 1]
            /\ Top = stack[i]
        BY <2>2, <3>1, TopFrame DEF Enter, n
      <3>3. QED
        BY <1>6, <1>7, <2>1, <2>2, <3>2
    <2>3. CASE i # n
      <3>1. i \in 1..n - 1 /\ i + 1 \in 1..n
        BY <1>4, <2>1, <2>3
      <3>2. QED
        BY <1>6, <2>1, <3>1 DEF GenInv, StackInv, n
    <2>4. QED
      BY <2>2, <2>3
  <1>10. stack'[1].type = Root
    <2>1. CASE n = 0
      <3>1. stack = <<>>
        BY <1>4, <2>1 DEF n
      <3>2. w = Root
        BY <3>1 DEF Wanted
      <3>3. QED
        BY <1>6, <1>7, <2>1, <3>2
    <2>2. CASE n # 0
      <3>1. stack # <<>> /\ 1 \in 1..n
        BY <1>4, <2>2 DEF n
      <3>2. QED
        BY <1>6, <3>1 DEF GenInv, StackInv
    <2>3. QED
      BY <2>1, <2>2
  <1>11. stack' # <<>>
    BY <1>4, <1>6
  <1>12. outcome' = "running"
    BY DEF Enter
  <1>13. QED
    BY <1>1, <1>6, <1>8, <1>9, <1>10, <1>11, <1>12 DEF StackInv, G, Elems, Kind

\* The new type is on the stack, and nowhere else.
LEMMA EnterPlace ==
  ASSUME GenInv, Enter
  PROVE  PlaceInv'
  <1> DEFINE w == Wanted
             n == Len(stack)
  <1>1. /\ DOMAIN names' = DOMAIN names \cup {w} /\ w \notin DOMAIN names
        /\ functions' = functions
    BY EnterNames DEF Enter
  <1>2. stack \in Seq(Frames) /\ stack' = Append(stack, [type |-> w, calls |-> <<>>])
    BY DEF GenInv, StackInv, Enter, Frames
  <1>3. /\ n \in Nat /\ Len(stack') = n + 1 /\ stack'[n + 1].type = w
        /\ \A i \in 1..n : stack'[i] = stack[i] /\ stack[i].type \in DOMAIN names
    <2> HIDE DEF w, Frames
    <2>1. n \in Nat /\ Len(stack') = n + 1 /\ stack'[n + 1] = [type |-> w, calls |-> <<>>]
      BY <1>2
    <2>2. \A i \in 1..n : stack'[i] = stack[i] /\ stack[i] \in Frames
      BY <1>2
    <2>3. QED
      BY <2>1, <2>2 DEF Frames
  <1>4. \A i \in 1..Len(functions) : functions[i].type \in DOMAIN names
    <2> DEFINE F == [name : Nat, type : DOMAIN names, calls : Seq(Nat)]
    <2>1. functions \in Seq(F)
      BY DEF GenInv, FunctionsInv
    <2> HIDE DEF F
    <2>2. \A i \in 1..Len(functions) : functions[i] \in F
      BY <2>1
    <2>3. QED
      BY <2>2 DEF F
  <1> HIDE DEF w, n
  <1>5. \A t \in DOMAIN names : OnStack(t)' <=> OnStack(t)
    <2> SUFFICES ASSUME NEW t \in DOMAIN names PROVE OnStack(t)' <=> OnStack(t)
      OBVIOUS
    <2>1. OnStack(t) => OnStack(t)'
      BY <1>3 DEF OnStack, n
    <2>2. OnStack(t)' => OnStack(t)
      BY <1>1, <1>3 DEF OnStack, n
    <2>3. QED
      BY <2>1, <2>2
  <1>6. (\E i \in 1..Len(stack') : stack'[i].type = w) /\ ~IsWritten(w)
    BY <1>1, <1>3, <1>4 DEF IsWritten
  <1>7. \A t : IsWritten(t)' <=> IsWritten(t)
    BY <1>1 DEF IsWritten
  <1>8. \A i, j \in 1..Len(stack') : stack'[i].type = stack'[j].type => i = j
    <2>1. \A i, j \in 1..n : stack[i].type = stack[j].type => i = j
      BY DEF GenInv, PlaceInv, n
    <2>2. QED
      BY <1>1, <1>3, <2>1
  <1>9. (\A t \in DOMAIN names : OnStack(t) \/ IsWritten(t)) /\ (\A t \in DOMAIN names : ~(OnStack(t) /\ IsWritten(t)))
    BY DEF GenInv, PlaceInv
  <1>10. \A t \in DOMAIN names' : (OnStack(t)' \/ IsWritten(t)') /\ ~(OnStack(t)' /\ IsWritten(t)')
    <2> SUFFICES ASSUME NEW t \in DOMAIN names'
                 PROVE  (OnStack(t)' \/ IsWritten(t)') /\ ~(OnStack(t)' /\ IsWritten(t)')
      OBVIOUS
    <2>1. CASE t = w
      <3>1. OnStack(t)' /\ ~IsWritten(t)
        BY <1>6, <2>1 DEF OnStack, IsWritten
      <3>2. QED
        BY <3>1, <1>7
    <2>2. CASE t # w
      BY <1>1, <1>5, <1>7, <1>9, <2>2
    <2>3. QED
      BY <2>1, <2>2
  <1>11. QED
    BY <1>1, <1>8, <1>10 DEF GenInv, PlaceInv

\* A new function is begun.
LEMMA EnterStep ==
  ASSUME GenInv, Enter
  PROVE  GenInv'
  <1>1. FunctionsInv'
    BY EnterNames, FunctionsKept DEF GenInv, Enter
  <1>2. QED
    BY <1>1, EnterNames, EnterStack, EnterPlace DEF GenInv

\* A call of the function for the next element type is added to the n-th activation, and
\* what was above it is gone.
LEMMA CallAdded ==
  ASSUME GenInv, NEW n \in 1..Len(stack), NEW t \in DOMAIN names,
         Len(stack[n].calls) < Len(Elems(stack[n].type)),
         t = Elems(stack[n].type)[Len(stack[n].calls) + 1],
         schema' = schema, names' = names, outcome' = "running",
         stack' \in Seq(Frames), Len(stack') = n, \A i \in 1..n - 1 : stack'[i] = stack[i],
         stack'[n] = [type |-> stack[n].type, calls |-> Append(stack[n].calls, names[t])]
  PROVE  StackInv'
  <1> DEFINE f == stack[n]
             g == stack'[n]
  <1>1. stack \in Seq(Frames) /\ Len(stack) \in Nat
    BY DEF GenInv, StackInv, Frames
  <1>2. n \in Nat /\ f \in Frames /\ \A i \in 1..n : i \in 1..Len(stack)
    <2> HIDE DEF Frames
    <2>1. QED
      BY <1>1
  <1>3. f.type \in DOMAIN names /\ f.calls \in Seq(Nat) /\ names[t] \in Nat
    BY <1>2 DEF Frames, GenInv, NamesInv
  <1>4. CallsOf(f)
    BY <1>2 DEF GenInv, StackInv
  <1>5. Elems(f.type) \in Seq(DOMAIN schema \cup {Private})
    BY <1>3, SchemaTypes DEF GenInv, NamesInv
  <1> HIDE DEF f
  <1>6. g.type = f.type /\ g.calls = Append(f.calls, names[t])
    BY DEF f
  <1> HIDE DEF g
  <1>7. /\ Len(f.calls) \in Nat /\ g.calls \in Seq(Nat) /\ Len(g.calls) = Len(f.calls) + 1
        /\ g.calls[Len(f.calls) + 1] = names[t] /\ \A i \in 1..Len(f.calls) : g.calls[i] = f.calls[i]
    BY <1>3, <1>6
  <1>8. /\ Len(g.calls) <= Len(Elems(g.type))
        /\ \A i \in 1..Len(g.calls) : Elems(g.type)[i] \in DOMAIN names /\ g.calls[i] = names[Elems(g.type)[i]]
    <2>1. Len(f.calls) < Len(Elems(f.type)) /\ t = Elems(f.type)[Len(f.calls) + 1]
      BY DEF f
    <2>2. \A i \in 1..Len(f.calls) : Elems(f.type)[i] \in DOMAIN names /\ f.calls[i] = names[Elems(f.type)[i]]
      BY <1>4 DEF CallsOf
    <2>3. Len(Elems(f.type)) \in Nat
      BY <1>5
    <2>4. Len(g.calls) <= Len(Elems(g.type))
      BY <1>6, <1>7, <2>1, <2>3
    <2>5. ASSUME NEW i \in 1..Len(g.calls)
          PROVE  Elems(f.type)[i] \in DOMAIN names /\ g.calls[i] = names[Elems(f.type)[i]]
      <3>1. CASE i = Len(f.calls) + 1
        BY <1>7, <2>1, <3>1
      <3>2. CASE i # Len(f.calls) + 1
        <4>1. i \in 1..Len(f.calls)
          BY <1>7, <3>2
        <4>2. QED
          BY <1>7, <2>2, <4>1
      <3>3. QED
        BY <3>1, <3>2
    <2>6. QED
      BY <1>6, <2>4, <2>5
  <1>9. ASSUME NEW i \in 1..n PROVE CallsOf(stack[i])'
    <2>1. CASE i = n
      BY <1>7, <1>8, <2>1 DEF CallsOf, g, Elems, Kind
    <2>2. CASE i # n
      <3>1. i \in 1..n - 1 /\ i \in 1..Len(stack)
        BY <1>2, <2>2
      <3>a. stack'[i] = stack[i] /\ CallsOf(stack[i])
        BY <3>1 DEF GenInv, StackInv
      <3>2. QED
        BY <3>a DEF CallsOf, Elems, Kind
    <2>3. QED
      BY <2>1, <2>2
  <1>10. ASSUME NEW i \in 1..n - 1
         PROVE  /\ Len(stack'[i].calls) < Len(Elems(stack'[i].type))
                /\ Elems(stack'[i].type)[Len(stack'[i].calls) + 1] = stack'[i + 1].type
    <2>1. i \in 1..Len(stack) - 1 /\ stack'[i] = stack[i]
      BY <1>1, <1>2
    <2>2. /\ Len(stack[i].calls) < Len(Elems(stack[i].type))
          /\ Elems(stack[i].type)[Len(stack[i].calls) + 1] = stack[i + 1].type
      BY <2>1 DEF GenInv, StackInv
    <2>3. stack'[i + 1].type = stack[i + 1].type
      <3>1. CASE i + 1 = n
        BY <1>6, <3>1 DEF f, g
      <3>2. CASE i + 1 # n
        <4>1. i + 1 \in 1..n - 1
          BY <1>2, <3>2
        <4>2. QED
          BY <4>1
      <3>3. QED
        BY <3>1, <3>2
    <2>4. QED
      BY <2>1, <2>2, <2>3
  <1>a. stack' # <<>>
    <2> HIDE DEF Frames
    <2>1. QED
      BY <1>2
  <1>11. stack'[1].type = Root /\ stack' # <<>>
    <2>1. stack[1].type = Root
      <3>1. stack # <<>>
        BY <1>1, <1>2
      <3>2. QED
        BY <3>1 DEF GenInv, StackInv
    <2>2. CASE n = 1
      <3>1. stack'[1].type = stack[1].type
        BY <1>6, <2>2 DEF f, g
      <3>2. QED
        BY <2>1, <3>1, <1>a
    <2>3. CASE n # 1
      <3>1. 1 \in 1..n - 1
        BY <1>2, <2>3
      <3>2. QED
        BY <2>1, <3>1, <1>a
    <2>4. QED
      BY <2>2, <2>3
  <1>12. stack' \in Seq([type : DOMAIN names', calls : Seq(Nat)])
    BY DEF Frames
  <1>13. QED
    BY <1>9, <1>10, <1>11, <1>12 DEF StackInv, Elems, Kind

\* The last activation of the stack, and the stack below it.
LEMMA Shorter ==
  ASSUME NEW S, NEW s \in Seq(S), s # <<>>, NEW x \in S
  PROVE  LET b == SubSeq(s, 1, Len(s) - 1)
             r == Append(b, x)
         IN  /\ b \in Seq(S) /\ Len(b) = Len(s) - 1 /\ Len(s) \in Nat \ {0}
             /\ \A i \in 1..Len(s) - 1 : b[i] = s[i]
             /\ r \in Seq(S) /\ Len(r) = Len(s) /\ r[Len(s)] = x
             /\ \A i \in 1..Len(s) - 1 : r[i] = s[i]
  <1> DEFINE b == SubSeq(s, 1, Len(s) - 1)
  <1>1. Len(s) \in Nat \ {0}
    OBVIOUS
  <1>2. b \in Seq(S) /\ Len(b) = Len(s) - 1 /\ \A i \in 1..Len(s) - 1 : b[i] = s[i]
    <2> DEFINE m == Len(s) - 1
    <2>1. m \in Int /\ 1 \in Int /\ \A i \in 1..m : s[i] \in S
      BY <1>1
    <2>2. /\ SubSeq(s, 1, m) \in Seq(S) /\ Len(SubSeq(s, 1, m)) = IF 1 <= m THEN m - 1 + 1 ELSE 0
          /\ \A i \in 1..m - 1 + 1 : SubSeq(s, 1, m)[i] = s[1 + i - 1]
      <3> HIDE DEF m
      <3>1. QED
        BY <2>1, SubSeqProperties
    <2>3. /\ b \in Seq(S) /\ Len(b) = IF 1 <= m THEN m - 1 + 1 ELSE 0
          /\ \A i \in 1..m - 1 + 1 : b[i] = s[1 + i - 1]
      BY <2>2
    <2>4. m \in Nat /\ \A i \in 1..m : i \in 1..m - 1 + 1 /\ 1 + i - 1 = i
      BY <1>1
    <2> HIDE DEF b, m
    <2>5. Len(b) = m /\ \A i \in 1..m : b[i] = s[i]
      BY <2>3, <2>4
    <2>6. QED
      BY <2>3, <2>5 DEF m
  <1> HIDE DEF b
  <1>3. /\ Append(b, x) \in Seq(S) /\ Len(Append(b, x)) = Len(b) + 1 /\ Append(b, x)[Len(b) + 1] = x
        /\ \A i \in 1..Len(b) : Append(b, x)[i] = b[i]
    BY <1>2
  <1>4. Len(b) + 1 = Len(s)
    BY <1>1, <1>2
  <1>5. QED
    BY <1>1, <1>2, <1>3, <1>4 DEF b

\* Where the types of the activations and of the functions are.
LEMMA TypesNamed ==
  ASSUME GenInv
  PROVE  /\ \A i \in 1..Len(stack) : stack[i].type \in DOMAIN names
         /\ \A i \in 1..Len(functions) : functions[i].type \in DOMAIN names
  <1> DEFINE F == [name : Nat, type : DOMAIN names, calls : Seq(Nat)]
  <1>1. functions \in Seq(F) /\ stack \in Seq(Frames)
    BY DEF GenInv, FunctionsInv, StackInv, Frames
  <1> HIDE DEF F, Frames
  <1>2. /\ \A i \in 1..Len(functions) : functions[i] \in F
        /\ \A i \in 1..Len(stack) : stack[i] \in Frames
    BY <1>1
  <1>3. QED
    BY <1>2 DEF F, Frames

\* A frame with a call added.
LEMMA FrameCalling ==
  ASSUME NEW f \in Frames, NEW c \in Nat
  PROVE  /\ Calling(f, c) = [type |-> f.type, calls |-> Append(f.calls, c)]
         /\ [type |-> f.type, calls |-> Append(f.calls, c)] \in Frames
  <1>1. f.type \in DOMAIN names /\ f.calls \in Seq(Nat)
    BY DEF Frames
  <1>2. Append(f.calls, c) \in Seq(Nat)
    BY <1>1
  <1>3. Calling(f, c) = [type |-> f.type, calls |-> Append(f.calls, c)]
    <2>1. \A b : [f EXCEPT !.calls = b] = [type |-> f.type, calls |-> b]
      BY DEF Frames
    <2>2. QED
      BY <2>1, Zenon DEF Calling
  <1>4. QED
    BY <1>1, <1>2, <1>3 DEF Frames

\* equal returns the name of a function that there is or will be.
LEMMA ReuseStep ==
  ASSUME GenInv, Reuse
  PROVE  GenInv'
  <1> DEFINE n == Len(stack)
             t == Wanted
             g == [type |-> Top.type, calls |-> Append(Top.calls, names[t])]
  <1>1. stack # <<>>
    BY DEF GenInv, StackInv, Reuse, Known
  <1>2. /\ n \in Nat \ {0} /\ Top = stack[n] /\ Top \in Frames /\ Top.calls \in Seq(Nat)
        /\ Len(Top.calls) < Len(Elems(Top.type)) /\ t = Elems(Top.type)[Len(Top.calls) + 1]
    BY <1>1, TopFrame DEF Reuse
  <1>3. t \in DOMAIN names /\ names[t] \in Nat
    BY DEF Reuse, Known, GenInv, NamesInv
  <1>4. Calling(Top, names[t]) = g /\ g \in Frames
    BY <1>2, <1>3, FrameCalling
  <1>5. stack' = Append(SubSeq(stack, 1, n - 1), g)
    BY <1>4 DEF Reuse, Below
  <1>6. stack \in Seq(Frames)
    BY DEF GenInv, StackInv, Frames
  <1>7. /\ stack' \in Seq(Frames) /\ Len(stack') = n /\ stack'[n] = g
        /\ \A i \in 1..n - 1 : stack'[i] = stack[i]
    <2> HIDE DEF g
    <2>1. QED
      BY <1>1, <1>4, <1>5, <1>6, Shorter
  <1>8. schema' = schema /\ names' = names /\ outcome' = outcome /\ outcome = "running" /\ functions' = functions
    BY DEF Reuse
  <1>9. StackInv'
    <2>1. n \in 1..Len(stack)
      BY <1>2
    <2>2. stack'[n] = [type |-> stack[n].type, calls |-> Append(stack[n].calls, names[t])]
      BY <1>2, <1>7
    <2> HIDE DEF n, t, g
    <2>3. QED
      BY <1>2, <1>3, <1>7, <1>8, <2>1, <2>2, CallAdded
  <1>10. \A i \in 1..n : stack'[i].type = stack[i].type
    <2>1. stack'[n].type = stack[n].type
      BY <1>2, <1>7
    <2>2. \A i \in 1..n : i = n \/ i \in 1..n - 1
      BY <1>2
    <2>3. QED
      BY <1>7, <2>1, <2>2
  <1> HIDE DEF n, t, g
  <1>11. PlaceInv'
    BY <1>7, <1>8, <1>10 DEF GenInv, PlaceInv, OnStack, IsWritten, n
  <1>12. FunctionsInv'
    BY <1>8, FunctionsKept DEF GenInv
  <1>13. NamesInv'
    BY <1>8 DEF GenInv, NamesInv, Number
  <1>14. QED
    BY <1>9, <1>11, <1>12, <1>13 DEF GenInv

\* The program ends without a file.
LEMMA PanicStep ==
  ASSUME GenInv, Panic
  PROVE  GenInv'
  <1>1. schema' = schema /\ names' = names /\ functions' = functions /\ stack' = stack /\ outcome' = "panic" /\ stack # <<>>
    BY DEF Panic
  <1>2. NamesInv'
    BY <1>1 DEF GenInv, NamesInv, Number
  <1>3. FunctionsInv'
    BY <1>1, FunctionsKept DEF GenInv
  <1>4. StackInv'
    BY <1>1 DEF GenInv, StackInv, CallsOf, Elems, Kind
  <1>5. PlaceInv'
    BY <1>1 DEF GenInv, PlaceInv, OnStack, IsWritten
  <1>6. QED
    BY <1>2, <1>3, <1>4, <1>5 DEF GenInv

\* The function of the last activation is written: its type changes places.
LEMMA ReturnPlace ==
  ASSUME GenInv, stack # <<>>, NEW f, f.type = Top.type,
         functions' = Append(functions, f), names' = names,
         stack' \in Seq(Frames), Len(stack') = Len(stack) - 1,
         \A i \in 1..Len(stack) - 1 : stack'[i].type = stack[i].type
  PROVE  PlaceInv'
  <1> DEFINE n == Len(stack)
             m == Len(functions)
             F == [name : Nat, type : DOMAIN names, calls : Seq(Nat)]
  <1>1. n \in Nat \ {0} /\ f.type = stack[n].type /\ f.type \in DOMAIN names
    BY TopFrame
  <1>2. functions \in Seq(F)
    BY DEF GenInv, FunctionsInv
  <1> HIDE DEF F
  <1>3. m \in Nat /\ Len(functions') = m + 1 /\ functions'[m + 1] = f /\ \A i \in 1..m : functions'[i] = functions[i]
    BY <1>2
  <1> HIDE DEF n, m
  <1>4. /\ \A t \in DOMAIN names : OnStack(t) \/ IsWritten(t)
        /\ \A t \in DOMAIN names : ~(OnStack(t) /\ IsWritten(t))
        /\ \A i, j \in 1..n : stack[i].type = stack[j].type => i = j
        /\ \A i, j \in 1..m : functions[i].type = functions[j].type => i = j
    BY DEF GenInv, PlaceInv, n, m
  <1>5. \A t : OnStack(t)' <=> OnStack(t) /\ t # f.type
    <2> SUFFICES ASSUME NEW t PROVE OnStack(t)' <=> OnStack(t) /\ t # f.type
      OBVIOUS
    <2>1. ASSUME OnStack(t)' PROVE OnStack(t) /\ t # f.type
      <3>1. PICK i \in 1..n - 1 : stack[i].type = t
        BY <1>1, <2>1 DEF OnStack, n
      <3>2. i \in 1..n /\ n \in 1..n /\ i # n
        BY <1>1, <3>1
      <3>3. QED
        BY <1>1, <1>4, <3>1, <3>2 DEF OnStack, n
    <2>2. ASSUME OnStack(t), t # f.type PROVE OnStack(t)'
      <3>1. PICK i \in 1..n : stack[i].type = t
        BY <2>2 DEF OnStack, n
      <3>2. i \in 1..n - 1
        BY <1>1, <2>2, <3>1
      <3>3. QED
        BY <3>1, <3>2 DEF OnStack, n
    <2>3. QED
      BY <2>1, <2>2
  <1>6. \A t : IsWritten(t)' <=> IsWritten(t) \/ t = f.type
    <2> SUFFICES ASSUME NEW t PROVE IsWritten(t)' <=> IsWritten(t) \/ t = f.type
      OBVIOUS
    <2>1. ASSUME IsWritten(t)' PROVE IsWritten(t) \/ t = f.type
      <3>1. PICK i \in 1..m + 1 : functions'[i].type = t
        BY <1>3, <2>1 DEF IsWritten
      <3>2. CASE i = m + 1
        BY <1>3, <3>1, <3>2
      <3>3. CASE i # m + 1
        <4>1. i \in 1..m
          BY <1>3, <3>3
        <4>2. QED
          BY <1>3, <3>1, <4>1 DEF IsWritten, m
      <3>4. QED
        BY <3>2, <3>3
    <2>2. ASSUME IsWritten(t) PROVE IsWritten(t)'
      <3>1. PICK i \in 1..m : functions[i].type = t
        BY <2>2 DEF IsWritten, m
      <3>2. i \in 1..m + 1 /\ functions'[i].type = t
        BY <1>3, <3>1
      <3>3. QED
        BY <1>3, <3>2 DEF IsWritten
    <2>3. ASSUME t = f.type PROVE IsWritten(t)'
      BY <1>3, <2>3 DEF IsWritten
    <2>4. QED
      BY <2>1, <2>2, <2>3
  <1>7. OnStack(f.type)
    BY <1>1 DEF OnStack, n
  <1>8. \A t \in DOMAIN names : (OnStack(t)' \/ IsWritten(t)') /\ ~(OnStack(t)' /\ IsWritten(t)')
    BY <1>4, <1>5, <1>6
  <1>9. \A i, j \in 1..Len(stack') : stack'[i].type = stack'[j].type => i = j
    <2>1. Len(stack') = n - 1 /\ \A i \in 1..n - 1 : i \in 1..n /\ stack'[i].type = stack[i].type
      BY <1>1 DEF n
    <2>2. QED
      BY <1>4, <2>1
  <1>10. ASSUME NEW i \in 1..m, functions[i].type = f.type PROVE FALSE
    <2>1. IsWritten(f.type)
      BY <1>10 DEF IsWritten, m
    <2>2. QED
      BY <1>1, <1>4, <1>7, <2>1
  <1>11. \A i, j \in 1..Len(functions') : functions'[i].type = functions'[j].type => i = j
    <2>1. \A i \in 1..m + 1 : i = m + 1 \/ i \in 1..m
      BY <1>3
    <2>2. QED
      BY <1>3, <1>4, <1>10, <2>1
  <1>12. QED
    BY <1>8, <1>9, <1>11 DEF PlaceInv

\* The function of the last activation is complete.
LEMMA ReturnFunctions ==
  ASSUME GenInv, Return
  PROVE  FunctionsInv'
  <1> DEFINE f == [name |-> names[Top.type], type |-> Top.type, calls |-> Top.calls]
             m == Len(functions)
             F == [name : Nat, type : DOMAIN names, calls : Seq(Nat)]
  <1>1. stack # <<>> /\ Len(Top.calls) = Len(Elems(Top.type)) /\ Kind(Top.type) # "other"
    BY DEF Return, AtEnd
  <1>2. Top.type \in DOMAIN names /\ Top.calls \in Seq(Nat) /\ CallsOf(Top)
    BY <1>1, TopFrame
  <1>3. f \in F
    BY <1>2 DEF GenInv, NamesInv
  <1>4. functions \in Seq(F)
    BY DEF GenInv, FunctionsInv
  <1>5. functions' = Append(functions, f) /\ names' = names /\ schema' = schema
    BY DEF Return
  <1>6. f.name = names[f.type] /\ f.type = Top.type /\ f.calls = Top.calls
    OBVIOUS
  <1> HIDE DEF F, f
  <1>7. /\ m \in Nat /\ functions' \in Seq(F) /\ Len(functions') = m + 1 /\ functions'[m + 1] = f
        /\ \A i \in 1..m : functions'[i] = functions[i]
    BY <1>3, <1>4, <1>5
  <1> HIDE DEF m
  <1>8. CallsOf(f) /\ Len(f.calls) = Len(Elems(f.type)) /\ Kind(f.type) # "other"
    BY <1>1, <1>2, <1>6 DEF CallsOf
  <1>9. ASSUME NEW i \in 1..m + 1
        PROVE  LET g == functions'[i] IN
               /\ g.name = names[g.type] /\ Kind(g.type) # "other"
               /\ g.calls \in Seq(Nat) /\ Len(g.calls) = Len(Elems(g.type))
               /\ \A j \in 1..Len(g.calls) :
                    Elems(g.type)[j] \in DOMAIN names /\ g.calls[j] = names[Elems(g.type)[j]]
    <2>1. CASE i = m + 1
      BY <1>6, <1>7, <1>8, <2>1 DEF CallsOf
    <2>2. CASE i # m + 1
      <3>1. i \in 1..m
        BY <1>7, <2>2
      <3>2. QED
        <4> DEFINE g == functions[i]
        <4>1. /\ g.name = names[g.type] /\ Kind(g.type) # "other"
              /\ CallsOf(g) /\ Len(g.calls) = Len(Elems(g.type))
          BY <3>1 DEF GenInv, FunctionsInv, m
        <4>2. functions'[i] = g
          BY <1>7, <3>1
        <4> HIDE DEF g
        <4>3. QED
          BY <4>1, <4>2 DEF CallsOf
    <2>3. QED
      BY <2>1, <2>2
  <1>10. functions' \in Seq([name : Nat, type : DOMAIN names', calls : Seq(Nat)])
    BY <1>5, <1>7 DEF F
  <1>11. ASSUME NEW i \in 1..Len(functions')
         PROVE  LET g == functions'[i] IN
                /\ g.name = names'[g.type] /\ schema'[g.type].kind # "other"
                /\ CallsOf(functions[i])' /\ (Len(functions[i].calls) = Len(Elems(functions[i].type)))'
    <2> DEFINE g == functions'[i]
    <2>1. /\ g.name = names[g.type] /\ Kind(g.type) # "other"
          /\ g.calls \in Seq(Nat) /\ Len(g.calls) = Len(Elems(g.type))
          /\ \A j \in 1..Len(g.calls) :
               Elems(g.type)[j] \in DOMAIN names /\ g.calls[j] = names[Elems(g.type)[j]]
      BY <1>7, <1>9
    <2>2. CallsOf(functions[i])' <=>
            /\ g.calls \in Seq(Nat) /\ Len(g.calls) <= Len(Elems(g.type))
            /\ \A j \in 1..Len(g.calls) :
                 Elems(g.type)[j] \in DOMAIN names /\ g.calls[j] = names[Elems(g.type)[j]]
      BY <1>5 DEF CallsOf, Elems, Kind
    <2>3. (Len(functions[i].calls) = Len(Elems(functions[i].type)))' <=> Len(g.calls) = Len(Elems(g.type))
      BY <1>5 DEF Elems, Kind
    <2>4. schema'[g.type].kind = Kind(g.type) /\ names' = names
      BY <1>5 DEF Kind
    <2> HIDE DEF g
    <2>5. Len(g.calls) <= Len(Elems(g.type))
      BY <2>1
    <2>6. QED
      BY <2>1, <2>2, <2>3, <2>4, <2>5 DEF g
  <1>12. QED
    BY <1>5, <1>7, <1>10, <1>11 DEF FunctionsInv, CallsOf, Elems, Kind

\* The caller of equal goes on with the name of the function that has been written.
LEMMA ReturnCaller ==
  ASSUME GenInv, Return, Below # <<>>
  PROVE  /\ StackInv'
         /\ stack' \in Seq(Frames) /\ Len(stack') = Len(stack) - 1
         /\ \A i \in 1..Len(stack) - 1 : stack'[i].type = stack[i].type
         /\ outcome' = "running"
  <1> DEFINE n == Len(stack) - 1
             t == Top.type
             g == [type |-> stack[n].type, calls |-> Append(stack[n].calls, names[t])]
  <1>1. stack # <<>> /\ stack \in Seq(Frames)
    BY DEF Return, AtEnd, GenInv, StackInv, Frames
  <1>2. /\ Below \in Seq(Frames) /\ Len(Below) = n /\ Len(stack) \in Nat \ {0}
        /\ \A i \in 1..n : Below[i] = stack[i]
    <2> HIDE DEF Frames
    <2>1. PICK x \in Frames : TRUE
      BY <1>1
    <2>2. QED
      BY <1>1, <2>1, Shorter DEF Below
  <1>3. n \in Nat \ {0} /\ n \in 1..Len(stack) - 1 /\ n \in 1..Len(stack) /\ n + 1 = Len(stack)
    <2> HIDE DEF Frames
    <2>1. n # 0
      BY <1>2
    <2>2. QED
      BY <1>2, <2>1
  <1>4. t \in DOMAIN names /\ names[t] \in Nat /\ t = stack[n + 1].type
    BY <1>1, <1>3, TopFrame DEF GenInv, NamesInv
  <1>5. Len(stack[n].calls) < Len(Elems(stack[n].type)) /\ t = Elems(stack[n].type)[Len(stack[n].calls) + 1]
    BY <1>3, <1>4 DEF GenInv, StackInv
  <1>6. stack' = [Below EXCEPT ![n] = Calling(Below[n], names[t])] /\ outcome' = "running"
    BY <1>2 DEF Return
  <1>7. Below[n] = stack[n] /\ stack[n] \in Frames
    <2> HIDE DEF Frames
    <2>1. QED
      BY <1>1, <1>2, <1>3
  <1>8. Calling(Below[n], names[t]) = g /\ g \in Frames
    BY <1>4, <1>7, FrameCalling
  <1> HIDE DEF n, t, g, Frames
  <1>9. /\ stack' \in Seq(Frames) /\ Len(stack') = n /\ stack'[n] = g
        /\ \A i \in 1..n - 1 : stack'[i] = stack[i]
    <2>1. stack' = [Below EXCEPT ![n] = g]
      BY <1>6, <1>8
    <2>2. Below \in [1..n -> Frames]
      BY <1>2, <1>3
    <2>3. stack' \in [1..n -> Frames]
      BY <1>8, <2>1, <2>2
    <2>4. stack' \in Seq(Frames) /\ Len(stack') = n
      BY <1>3, <2>3
    <2>5. stack'[n] = g /\ \A i \in 1..n - 1 : stack'[i] = Below[i]
      BY <1>3, <2>1, <2>2
    <2>6. \A i \in 1..n - 1 : i \in 1..n
      BY <1>3
    <2>7. QED
      BY <1>2, <2>4, <2>5, <2>6
  <1>10. schema' = schema /\ names' = names
    BY DEF Return
  <1>11. stack'[n] = [type |-> stack[n].type, calls |-> Append(stack[n].calls, names[t])]
    BY <1>9 DEF g
  <1>12. StackInv'
    BY <1>3, <1>4, <1>5, <1>6, <1>9, <1>10, <1>11, CallAdded
  <1>13. stack'[n].type = stack[n].type
    BY <1>11
  <1>14. \A i \in 1..n : i = n \/ i \in 1..n - 1
    BY <1>3
  <1>15. QED
    BY <1>6, <1>9, <1>12, <1>13, <1>14 DEF n

\* A function is written; without a caller the file is.
LEMMA ReturnStep ==
  ASSUME GenInv, Return
  PROVE  GenInv'
  <1> DEFINE f == [name |-> names[Top.type], type |-> Top.type, calls |-> Top.calls]
  <1>1. stack # <<>> /\ f.type = Top.type /\ functions' = Append(functions, f) /\ names' = names /\ schema' = schema
    BY DEF Return, AtEnd
  <1> HIDE DEF f
  <1>2. CASE Below # <<>>
    <2>1. StackInv' /\ PlaceInv' /\ outcome' = "running"
      BY <1>1, <1>2, ReturnCaller, ReturnPlace
    <2>2. NamesInv'
      BY <1>1, <2>1 DEF GenInv, NamesInv, Number
    <2>3. QED
      BY <2>1, <2>2, ReturnFunctions DEF GenInv
  <1>3. CASE Below = <<>>
    <2>1. stack' = <<>> /\ outcome' = "written"
      BY <1>3 DEF Return
    <2>2. Len(stack) = 1
      <3>1. stack \in Seq(Frames)
        BY DEF GenInv, StackInv, Frames
      <3> HIDE DEF Frames
      <3>2. PICK x \in Frames : TRUE
        BY <1>1, <3>1
      <3>3. Len(Below) = Len(stack) - 1 /\ Len(stack) \in Nat
        BY <1>1, <3>1, <3>2, Shorter DEF Below
      <3>4. QED
        BY <1>3, <3>3
    <2>3. Root \in DOMAIN names
      <3>1. stack[1].type = Root
        BY <1>1 DEF GenInv, StackInv
      <3>2. QED
        BY <2>2, <3>1, TypesNamed
    <2>4. StackInv'
      <3>1. Len(stack') = 0 /\ stack' \in Seq([type : DOMAIN names', calls : Seq(Nat)])
        BY <2>1
      <3>2. QED
        BY <1>1, <2>1, <2>3, <3>1 DEF StackInv
    <2>5. PlaceInv'
      <3>1. Len(stack') = Len(stack) - 1 /\ stack' \in Seq(Frames)
        BY <2>1, <2>2
      <3>2. \A i \in 1..Len(stack) - 1 : stack'[i].type = stack[i].type
        BY <2>2
      <3>3. QED
        BY <1>1, <3>1, <3>2, ReturnPlace
    <2>6. NamesInv'
      BY <1>1, <2>1 DEF GenInv, NamesInv, Number
    <2>7. QED
      BY <2>4, <2>5, <2>6, ReturnFunctions DEF GenInv
  <1>4. QED
    BY <1>2, <1>3

\* The invariant of the generator.
LEMMA GeneratorInvariant == GeneratorSpec => []GenInv
  <1>1. GeneratorInit => GenInv
    <2> SUFFICES ASSUME GeneratorInit PROVE GenInv
      OBVIOUS
    <2>1. DOMAIN names = {} /\ names \in [DOMAIN names -> Nat]
      BY DEF GeneratorInit
    <2>2. NamesInv
      BY <2>1, FS_EmptySet DEF GeneratorInit, NamesInv
    <2>3. FunctionsInv
      BY DEF GeneratorInit, FunctionsInv
    <2>4. StackInv
      BY <2>1 DEF GeneratorInit, StackInv
    <2>5. PlaceInv
      BY <2>1 DEF GeneratorInit, PlaceInv
    <2>6. QED
      BY <2>2, <2>3, <2>4, <2>5 DEF GenInv
  <1>2. GenInv /\ [GeneratorNext]_generatorVars => GenInv'
    <2>1. ASSUME GenInv, UNCHANGED generatorVars PROVE GenInv'
      <3>1. schema' = schema /\ names' = names /\ functions' = functions /\ stack' = stack /\ outcome' = outcome
        BY <2>1 DEF generatorVars
      <3>2. NamesInv'
        BY <2>1, <3>1 DEF GenInv, NamesInv, Number
      <3>3. FunctionsInv'
        BY <2>1, <3>1, FunctionsKept DEF GenInv
      <3>4. StackInv'
        BY <2>1, <3>1 DEF GenInv, StackInv, CallsOf, Elems, Kind
      <3>5. PlaceInv'
        BY <2>1, <3>1 DEF GenInv, PlaceInv, OnStack, IsWritten
      <3>6. QED
        BY <3>2, <3>3, <3>4, <3>5 DEF GenInv
    <2>2. QED
      BY <2>1, EnterStep, ReuseStep, PanicStep, ReturnStep DEF GeneratorNext
  <1>3. QED
    BY <1>1, <1>2, PTL DEF GeneratorSpec, GeneratorSafety

\* Once there is a file, every type that has a number has one function, of that number.
LEMMA WrittenFunctions ==
  ASSUME GenInv, outcome = "written", NEW t \in DOMAIN names
  PROVE  WrittenOnceFor(names[t], t)
  <1>1. stack = <<>>
    BY DEF GenInv, StackInv
  <1>2. ~OnStack(t)
    BY <1>1 DEF OnStack
  <1>3. PICK j \in 1..Len(functions) : functions[j].type = t
    BY <1>2 DEF GenInv, PlaceInv, IsWritten
  <1>4. \A i \in 1..Len(functions) : functions[i].name = names[functions[i].type]
    BY DEF GenInv, FunctionsInv
  <1>5. \A i \in 1..Len(functions) : functions[i].type \in DOMAIN names
    BY TypesNamed
  <1>6. ASSUME NEW i \in 1..Len(functions), functions[i].name = names[t] PROVE i = j
    <2>1. functions[i].type = t
      BY <1>4, <1>5, <1>6 DEF GenInv, NamesInv
    <2>2. QED
      BY <1>3, <2>1 DEF GenInv, PlaceInv
  <1>7. DOMAIN functions = 1..Len(functions)
    BY DEF GenInv, FunctionsInv
  <1>8. QED
    BY <1>3, <1>4, <1>6, <1>7 DEF WrittenOnceFor

\* For every schema, with types that are shared or refer to each other: every function
\* that is called is written, once, and for the type it is called with (generator.equal).
THEOREM CallsAreResolved == GeneratorSpec => []CallsResolved
  <1>1. ASSUME GenInv, outcome = "written" PROVE CallsResolved
    <2>1. WrittenOnceFor(names[Root], Root)
      BY <1>1, WrittenFunctions DEF GenInv, StackInv
    <2>2. ASSUME NEW i \in DOMAIN functions, NEW n \in DOMAIN functions[i].calls
          PROVE  WrittenOnceFor(functions[i].calls[n], schema[functions[i].type].elems[n])
      <3> DEFINE f == functions[i]
      <3>1. i \in 1..Len(functions)
        BY <1>1 DEF GenInv, FunctionsInv
      <3>2. CallsOf(f)
        BY <1>1, <3>1 DEF GenInv, FunctionsInv
      <3>3. f.calls \in Seq(Nat) /\ Len(f.calls) = Len(Elems(f.type))
        BY <1>1, <3>1, <3>2 DEF GenInv, FunctionsInv, CallsOf
      <3> HIDE DEF f
      <3>4. n \in 1..Len(f.calls)
        BY <3>3 DEF f
      <3>5. Elems(f.type)[n] \in DOMAIN names /\ f.calls[n] = names[Elems(f.type)[n]]
        BY <3>2, <3>4 DEF CallsOf
      <3>6. Elems(f.type) = schema[f.type].elems
        BY <3>3, <3>4 DEF Elems
      <3>7. QED
        BY <1>1, <3>5, <3>6, WrittenFunctions DEF f
    <2>3. QED
      BY <2>1, <2>2 DEF CallsResolved
  <1>2. GenInv => CallsResolved
    BY <1>1 DEF CallsResolved
  <1>3. QED
    BY <1>2, GeneratorInvariant, PTL

-----------------------------------------------------------------------------
(* What the functions compare, for values of any size *)

\* The parts of a value of type t, each with its type.
Members(t, v) ==
  CASE Kind(t) \in {"slice", "map"} -> {<<Elems(t)[1], v.items[i]>> : i \in DOMAIN v.items}
    [] Kind(t) \in {"pointer", "array"} -> {<<Elems(t)[1], v[i]>> : i \in DOMAIN v}
    [] Kind(t) = "struct" -> {<<Elems(t)[i], v[i]>> : i \in DOMAIN v}
    [] OTHER -> {}

\* A value looks as its type demands.
Shaped(t, v) ==
  /\ Kind(t) = "pointer" => v = <<>> \/ v = <<v[1]>>
  /\ Kind(t) \in {"slice", "map"} =>
       /\ v = [nil |-> v.nil, items |-> v.items]
       /\ IsFiniteSet(DOMAIN v.items) /\ v.items = [i \in DOMAIN v.items |-> v.items[i]]
  /\ Kind(t) = "array" => v = [i \in DOMAIN v |-> v[i]]
  /\ Kind(t) = "struct" => v = [i \in DOMAIN Elems(t) |-> v[i]]

\* W is a set of pairs <<type, value>> that has the parts of all its values.  Values may be
\* of any size, but are finite: each is deeper than its parts.  All values of an array type
\* have the same length.
FiniteValues(W, depth) ==
  /\ depth \in [W -> Nat]
  /\ \A t, v : <<t, v>> \in W =>
       /\ Shaped(t, v)
       /\ \A m \in Members(t, v) : m \in W /\ depth[m] < depth[<<t, v>>]
       /\ Kind(t) = "array" => \A w : <<t, w>> \in W => DOMAIN w = DOMAIN v

\* The answer of a template whose callees answer by E.
Answer(E, kind, calls, a, b) == Tests(kind, a, b) /\ CallsMade(kind, calls, a, b) \subseteq E

\* E is what the functions answer: <<n, a, b>> is in E if function n takes a and b for
\* equal, which it does exactly when its template says so of its callees' answers.
Answers(E, W) ==
  \A i \in DOMAIN functions : \A a, b :
    LET f == functions[i] IN
    <<f.type, a>> \in W /\ <<f.type, b>> \in W =>
      (<<f.name, a, b>> \in E <=> Answer(E, Kind(f.type), f.calls, a, b))

\* What is written for a type tells two values of it apart exactly when they differ.
ComparesAllValues ==
  outcome = "written" =>
    \A W, depth, E : FiniteValues(W, depth) /\ Answers(E, W) =>
      \A t \in DOMAIN names : \A a, b :
        <<t, a>> \in W /\ <<t, b>> \in W => (<<names[t], a, b>> \in E <=> a = b)

\* The first line of the templates for slices and maps, with the loop that follows it, says
\* whether two maps have the same keys.
LEMMA SameKeys ==
  ASSUME NEW S, NEW T, IsFiniteSet(S), IsFiniteSet(T), Cardinality(S) = Cardinality(T), S \subseteq T
  PROVE  S = T
  BY FS_Subset

\* The functions for the parts of a are right about them.
PartsRight(E, W, t, a) ==
  \A u, v, w : <<u, v>> \in Members(t, a) /\ u \in DOMAIN names /\ <<u, w>> \in W =>
    (<<names[u], v, w>> \in E <=> v = w)

\* A function is right about two values if its callees are right about their parts.
LEMMA TemplateExact ==
  ASSUME GenInv, NEW W, NEW depth, FiniteValues(W, depth), NEW E, NEW t, NEW a, NEW b,
         NEW i \in 1..Len(functions), functions[i].type = t, <<t, a>> \in W, <<t, b>> \in W,
         PartsRight(E, W, t, a)
  PROVE  Answer(E, Kind(t), functions[i].calls, a, b) <=> a = b
  <1> DEFINE calls == functions[i].calls
  <1>0. SUFFICES Answer(E, Kind(t), calls, a, b) <=> a = b
    OBVIOUS
  <1> DEFINE e == Elems(t)[1]
             c == calls[1]
  <1>1. t \in DOMAIN names /\ t \in DOMAIN schema
    BY TypesNamed DEF GenInv, NamesInv
  <1>2. CallsOf(functions[i]) /\ Len(calls) = Len(Elems(t)) /\ Kind(t) # "other"
    BY DEF GenInv, FunctionsInv
  <1>3. /\ calls \in Seq(Nat)
        /\ \A n \in 1..Len(calls) : Elems(t)[n] \in DOMAIN names /\ calls[n] = names[Elems(t)[n]]
    BY <1>2 DEF CallsOf
  <1> HIDE DEF calls
  <1>4. Elems(t) \in Seq(DOMAIN schema \cup {Private}) /\ Kind(t) \in Kinds
    BY <1>1, SchemaTypes DEF GenInv
  <1>5. DOMAIN calls = 1..Len(calls) /\ DOMAIN Elems(t) = 1..Len(calls)
    BY <1>2, <1>3, <1>4
  <1>6. Kind(t) \in {"pointer", "slice", "map", "array"} => e \in DOMAIN names /\ c = names[e]
    <2>1. Kind(t) \in {"pointer", "slice", "map", "array"} => Len(calls) = 1
      BY <1>1, <1>2, SchemaTypes DEF GenInv
    <2>2. QED
      BY <1>3, <2>1
  <1>7. /\ Shaped(t, a) /\ Shaped(t, b)
        /\ \A m \in Members(t, b) : m \in W
        /\ Kind(t) = "array" => DOMAIN a = DOMAIN b
    BY DEF FiniteValues
  <1> HIDE DEF e, c
  <1> USE DEF PartsRight
  <1>8. CASE Kind(t) \in {"basic", "netip"}
    BY <1>8 DEF Answer, Tests, CallsMade
  <1>9. CASE Kind(t) = "pointer"
    <2>1. (a = <<>> \/ a = <<a[1]>>) /\ (b = <<>> \/ b = <<b[1]>>)
      BY <1>7, <1>9 DEF Shaped
    <2>2. Answer(E, Kind(t), calls, a, b) <=>
            IF a = <<>> \/ b = <<>> THEN a = b ELSE <<c, a[1], b[1]>> \in E
      <3>1. a # <<>> => DOMAIN a = {1}
        BY <2>1
      <3>2. Answer(E, Kind(t), calls, a, b) <=>
              (a = <<>> \/ b = <<>> => a = b) /\ \A k \in DOMAIN a : <<c, a[k], b[k]>> \in E
        BY <1>9 DEF Answer, Tests, CallsMade, c
      <3>3. QED
        BY <3>1, <3>2
    <2>3. ASSUME a # <<>>, b # <<>> PROVE <<c, a[1], b[1]>> \in E <=> a = b
      <3>1. 1 \in DOMAIN a /\ 1 \in DOMAIN b
        BY <2>1, <2>3
      <3>2. <<e, a[1]>> \in Members(t, a) /\ <<e, b[1]>> \in W
        BY <1>7, <1>9, <3>1 DEF Members, e
      <3>3. <<c, a[1], b[1]>> \in E <=> a[1] = b[1]
        BY <1>6, <1>9, <3>2
      <3>4. a[1] = b[1] <=> a = b
        BY <2>1, <2>3
      <3>5. QED
        BY <3>3, <3>4
    <2>4. QED
      BY <2>2, <2>3
  <1>10. CASE Kind(t) \in {"slice", "map"}
    <2> DEFINE p == a.items
               q == b.items
    <2>1. /\ a = [nil |-> a.nil, items |-> p] /\ IsFiniteSet(DOMAIN p) /\ p = [x \in DOMAIN p |-> p[x]]
          /\ b = [nil |-> b.nil, items |-> q] /\ IsFiniteSet(DOMAIN q) /\ q = [x \in DOMAIN q |-> q[x]]
      BY <1>7, <1>10 DEF Shaped
    <2>2. Answer(E, Kind(t), calls, a, b) <=>
            /\ a.nil = b.nil /\ Cardinality(DOMAIN p) = Cardinality(DOMAIN q)
            /\ \A x \in DOMAIN p : x \in DOMAIN q /\ <<c, p[x], q[x]>> \in E
      <3>1. Tests(Kind(t), a, b) <=>
              /\ a.nil = b.nil /\ Cardinality(DOMAIN p) = Cardinality(DOMAIN q)
              /\ DOMAIN p \subseteq DOMAIN q
        BY <1>10 DEF Tests, SameSize
      <3>2. CallsMade(Kind(t), calls, a, b) = {<<c, p[x], q[x]>> : x \in DOMAIN p}
        BY <1>10 DEF CallsMade, c
      <3> HIDE DEF p, q
      <3>3. CallsMade(Kind(t), calls, a, b) \subseteq E <=> \A x \in DOMAIN p : <<c, p[x], q[x]>> \in E
        BY <3>2
      <3>4. QED
        BY <3>1, <3>3 DEF Answer
    <2>3. \A x \in DOMAIN p : x \in DOMAIN q => (<<c, p[x], q[x]>> \in E <=> p[x] = q[x])
      <3> SUFFICES ASSUME NEW x \in DOMAIN p, x \in DOMAIN q PROVE <<c, p[x], q[x]>> \in E <=> p[x] = q[x]
        OBVIOUS
      <3>1. <<e, p[x]>> \in Members(t, a) /\ <<e, q[x]>> \in W
        BY <1>7, <1>10 DEF Members, e
      <3>2. QED
        BY <1>6, <1>10, <3>1
    <2> HIDE DEF p, q
    <2>4. ASSUME a = b
          PROVE  /\ a.nil = b.nil /\ Cardinality(DOMAIN p) = Cardinality(DOMAIN q)
                 /\ \A x \in DOMAIN p : x \in DOMAIN q /\ <<c, p[x], q[x]>> \in E
      <3>1. p = q
        BY <2>4 DEF p, q
      <3>2. QED
        BY <2>3, <2>4, <3>1
    <2>5. ASSUME /\ a.nil = b.nil /\ Cardinality(DOMAIN p) = Cardinality(DOMAIN q)
                 /\ \A x \in DOMAIN p : x \in DOMAIN q /\ <<c, p[x], q[x]>> \in E
          PROVE  a = b
      <3>1. DOMAIN p = DOMAIN q
        BY <2>1, <2>5, SameKeys
      <3>2. \A x \in DOMAIN p : p[x] = q[x]
        BY <2>3, <2>5
      <3>3. p = q
        BY <2>1, <3>1, <3>2
      <3>4. QED
        BY <2>1, <2>5, <3>3
    <2>6. QED
      BY <2>2, <2>4, <2>5
  <1>11. CASE Kind(t) = "array"
    <2>1. a = [x \in DOMAIN a |-> a[x]] /\ b = [x \in DOMAIN b |-> b[x]] /\ DOMAIN a = DOMAIN b
      BY <1>7, <1>11 DEF Shaped
    <2>2. Answer(E, Kind(t), calls, a, b) <=>
            \A x \in DOMAIN a : <<c, a[x], b[x]>> \in E
      BY <1>11 DEF Answer, Tests, CallsMade, c
    <2>3. ASSUME NEW x \in DOMAIN a PROVE <<c, a[x], b[x]>> \in E <=> a[x] = b[x]
      <3>1. <<e, a[x]>> \in Members(t, a) /\ <<e, b[x]>> \in W
        BY <1>7, <1>11, <2>1 DEF Members, e
      <3>2. QED
        BY <1>6, <1>11, <3>1
    <2>4. QED
      BY <2>1, <2>2, <2>3
  <1>12. CASE Kind(t) = "struct"
    <2>1. a = [x \in 1..Len(calls) |-> a[x]] /\ b = [x \in 1..Len(calls) |-> b[x]]
      BY <1>5, <1>7, <1>12 DEF Shaped
    <2>2. Answer(E, Kind(t), calls, a, b) <=>
            \A x \in 1..Len(calls) : <<calls[x], a[x], b[x]>> \in E
      BY <1>5, <1>12 DEF Answer, Tests, CallsMade
    <2>3. ASSUME NEW x \in 1..Len(calls) PROVE <<calls[x], a[x], b[x]>> \in E <=> a[x] = b[x]
      <3>1. x \in DOMAIN a /\ x \in DOMAIN b
        BY <2>1
      <3>2. <<Elems(t)[x], a[x]>> \in Members(t, a) /\ <<Elems(t)[x], b[x]>> \in W
        BY <1>7, <1>12, <3>1 DEF Members
      <3>3. QED
        BY <1>3, <3>2
    <2>4. (\A x \in 1..Len(calls) : a[x] = b[x]) <=> a = b
      <3>1. ASSUME \A x \in 1..Len(calls) : a[x] = b[x] PROVE a = b
        <4>1. [x \in 1..Len(calls) |-> a[x]] = [x \in 1..Len(calls) |-> b[x]]
          BY <3>1
        <4>2. QED
          BY <2>1, <4>1, Zenon
      <3>2. QED
        BY <3>1
    <2>5. QED
      BY <2>2, <2>3, <2>4
  <1>13. QED
    BY <1>2, <1>4, <1>8, <1>9, <1>10, <1>11, <1>12 DEF Kinds

\* A set of numbers has a least one.
LEMMA LeastNumber ==
  ASSUME NEW T, T \subseteq Nat, T # {}
  PROVE  \E m \in T : \A n \in T : m <= n
  <1>1. PICK m \in T : \A n \in T : <<n, m>> \notin OpToRel(<, Nat)
    BY WFMin, NatLessThanWellFounded, Zenon
  <1>2. \A n \in T : ~(n < m)
    BY <1>1, Zenon DEF OpToRel
  <1>3. QED
    BY <1>2

\* What the generator writes for a type compares values of it exactly, whatever types it is
\* made of and however large the values are: two values that any function takes for equal
\* are equal, a nil and an empty slice or map being different (generator.equal, equalSpec).
\* By induction over the depth of a value: one of least depth that is compared wrongly
\* would have been compared by its template, whose callees are right about its parts.
THEOREM ComparesValuesExactly == GeneratorSpec => []ComparesAllValues
  <1>1. ASSUME GenInv PROVE ComparesAllValues
    <2> SUFFICES ASSUME outcome = "written", NEW W, NEW depth, NEW E, FiniteValues(W, depth), Answers(E, W)
                 PROVE  \A t \in DOMAIN names : \A a, b :
                          <<t, a>> \in W /\ <<t, b>> \in W => (<<names[t], a, b>> \in E <=> a = b)
      BY DEF ComparesAllValues
    <2> DEFINE Right(t, a) == \A b : <<t, b>> \in W => (<<names[t], a, b>> \in E <=> a = b)
               Wrong == {x \in W : \E t \in DOMAIN names : \E a : x = <<t, a>> /\ ~Right(t, a)}
               Depths == {depth[x] : x \in Wrong}
    <2>1. ASSUME Wrong # {} PROVE FALSE
      <3>1. depth \in [W -> Nat]
        BY DEF FiniteValues
      <3>2. Wrong \subseteq W
        OBVIOUS
      <3> HIDE DEF Wrong
      <3>3. Depths \subseteq Nat /\ Depths # {}
        BY <2>1, <3>1, <3>2
      <3>4. PICK least \in Depths : \A n \in Depths : least <= n
        BY <3>3, LeastNumber
      <3>5. PICK x \in Wrong : depth[x] = least
        OBVIOUS
      <3>5a. PICK t \in DOMAIN names : \E a : x = <<t, a>> /\ ~Right(t, a)
        BY DEF Wrong
      <3>6. PICK a : x = <<t, a>> /\ ~Right(t, a)
        BY <3>5a
      <3>7. PICK b : <<t, b>> \in W /\ ~(<<names[t], a, b>> \in E <=> a = b)
        BY <3>6
      <3>8. <<t, a>> \in W
        BY <3>2, <3>6
      <3>9. ASSUME NEW u, NEW v, NEW w, <<u, v>> \in Members(t, a), u \in DOMAIN names, <<u, w>> \in W
            PROVE  <<names[u], v, w>> \in E <=> v = w
        <4>1. <<u, v>> \in W /\ depth[<<u, v>>] < depth[<<t, a>>]
          BY <3>8, <3>9 DEF FiniteValues
        <4>2. <<u, v>> \notin Wrong
          <5> SUFFICES ASSUME <<u, v>> \in Wrong PROVE FALSE
            OBVIOUS
          <5>1. depth[<<u, v>>] \in Depths /\ depth[<<t, a>>] = least
            BY <3>5, <3>6
          <5>2. least <= depth[<<u, v>>] /\ depth[<<u, v>>] \in Nat /\ least \in Nat
            BY <3>3, <3>4, <5>1
          <5>3. QED
            BY <4>1, <5>1, <5>2
        <4>3. Right(u, v)
          BY <3>9, <4>1, <4>2 DEF Wrong
        <4>4. QED
          BY <3>9, <4>3
      <3>10. WrittenOnceFor(names[t], t)
        BY <1>1, WrittenFunctions
      <3>11. DOMAIN functions = 1..Len(functions)
        BY <1>1 DEF GenInv, FunctionsInv
      <3>12. PICK i \in 1..Len(functions) : functions[i].name = names[t] /\ functions[i].type = t
        BY <3>10, <3>11 DEF WrittenOnceFor
      <3> DEFINE says == Answer(E, Kind(t), functions[i].calls, a, b)
      <3>13. <<names[t], a, b>> \in E <=> says
        BY <3>7, <3>8, <3>11, <3>12 DEF Answers
      <3>14. says <=> a = b
        <4>1. PartsRight(E, W, t, a)
          BY <3>9 DEF PartsRight
        <4>2. t = functions[i].type /\ <<t, b>> \in W
          BY <3>7, <3>12
        <4>3. QED
          BY <1>1, <3>8, <4>1, <4>2, TemplateExact
      <3>15. QED
        BY <3>7, <3>13, <3>14
    <2>2. QED
      BY <2>1
  <1>2. QED
    BY <1>1, GeneratorInvariant, PTL
=============================================================================
