----------------------------- MODULE MCEquality -----------------------------
(***************************************************************************)
(* All schemas of a root struct with fields of the types A and B, where A  *)
(* and B are of any kind and may refer to each other, to themselves and to *)
(* the root as far as Go allows: an array or a struct does not contain     *)
(* itself.                                                                 *)
(***************************************************************************)
EXTENDS GeneratedEquality

Type(kind, elems) == [kind |-> kind, elems |-> elems]

Leaves  == {Type(kind, <<>>) : kind \in {"basic", "netip", "other", "struct"}}
Links   == {Type(kind, <<t>>) : kind \in {"pointer", "slice", "map"}, t \in {"root", "A", "B"}}
Inlines == {Type(kind, <<"B">>) : kind \in {"array", "struct"}}
             \cup {Type("struct", <<"B", t>>) : t \in {"B", "private"}}

MCSchemas ==
  {[t \in {"root", "A", "B"} |-> IF t = "root" THEN Type("struct", <<"A", "B">>) ELSE IF t = "A" THEN a ELSE b] :
     a \in Leaves \cup Links \cup Inlines, b \in Leaves \cup Links}
=============================================================================
