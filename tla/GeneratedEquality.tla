-------------------------- MODULE GeneratedEquality --------------------------
(***************************************************************************)
(* The functions of equal_generated.go at work: what calling one of them   *)
(* with two values gives, and the values of a type to call it with.        *)
(***************************************************************************)
EXTENDS EqualityGenerator

CONSTANT MaxDepth   \* bound: pointers, slices and maps within each other in a value

RECURSIVE Equal(_, _, _)
Equal(name, a, b) ==
  LET i == CHOOSE j \in DOMAIN functions : functions[j].name = name
      kind == Kind(functions[i].type)
  IN  /\ Tests(kind, a, b)
      /\ \A c \in CallsMade(kind, functions[i].calls, a, b) : Equal(c[1], c[2], c[3])

Some(S) == CHOOSE v \in S : TRUE

\* Pairs with any value of S or T in one place and a fixed one in the other.
Pairs(S, T) == {<<v, Some(T)>> : v \in S} \cup {<<Some(S), w>> : w \in T}

\* Values of type t with pointers, slices and maps nested up to depth.
RECURSIVE ValuesOf(_, _)
ValuesOf(t, depth) ==
  LET elems == schema[t].elems
      of(i, d) == ValuesOf(elems[i], d)
      inner == IF depth = 0 THEN {} ELSE of(1, depth - 1)
      empty == [nil : {TRUE, FALSE}, items : {<<>>}]
  IN  CASE Kind(t) \in {"basic", "netip"} -> {0, 1}
        [] Kind(t) = "pointer" -> {<<>>} \cup {<<v>> : v \in inner}
        [] Kind(t) = "slice" -> empty \cup [nil : {FALSE}, items : {<<v>> : v \in inner}]
        [] Kind(t) = "map" -> empty \cup [nil : {FALSE}, items : UNION {[{k} -> inner] : k \in {1, 2}}]
        [] Kind(t) = "array" -> Pairs(of(1, depth), of(1, depth))
        [] Kind(t) = "struct" /\ Len(elems) = 0 -> {<<>>}
        [] Kind(t) = "struct" /\ Len(elems) = 1 -> {<<v>> : v \in of(1, depth)}
        [] Kind(t) = "struct" /\ Len(elems) = 2 -> Pairs(of(1, depth), of(2, depth))

-----------------------------------------------------------------------------

\* What is written for a type tells two values of it apart whenever they differ anywhere
\* below, a nil and an empty slice or map included, and takes equal ones for equal: an
\* update that mutation.Validate accepts has changed nothing but the fields it restored.
ComparesExactly ==
  outcome = "written" =>
    \A t \in DOMAIN names : \A a, b \in ValuesOf(t, MaxDepth) : Equal(names[t], a, b) <=> a = b
=============================================================================
