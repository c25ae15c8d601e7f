------------------------------ MODULE Scalars -------------------------------
(***************************************************************************)
(* The walk of internal/valuesample over a response body: its scalars with  *)
(* their paths, in the order they are filed.  Documents are as in Extract;  *)
(* a scalar is the value filed for it.                                      *)
(***************************************************************************)
EXTENDS Integers, Sequences, SequencesExt

CONSTANTS
    Names,       \* field names, in lexicographic order
    MaxDepth     \* levels walked

\* A step into an array.
Elem == "[]"

\* Every scalar below v, found at path p.  A body that is a scalar has no path
\* to file it under.
RECURSIVE Scalars(_, _)
Scalars(v, p) ==
    CASE Len(p) >= MaxDepth -> << >>
      [] Len(p) < MaxDepth /\ v.kind = "object" ->
           FoldLeft(LAMBDA acc, n :
                        IF n \in DOMAIN v.fields
                        THEN acc \o Scalars(v.fields[n], Append(p, n)) ELSE acc,
                    << >>, Names)
      [] Len(p) < MaxDepth /\ v.kind = "array" ->
           FoldLeft(LAMBDA acc, e : acc \o Scalars(e, Append(p, Elem)), << >>, v.elems)
      [] OTHER -> IF p = << >> THEN << >> ELSE <<<<p, v>>>>

\* What Observe files of an endpoint's body.
Walk(endpoint, doc) ==
    LET found == Scalars(doc, << >>)
    IN [i \in DOMAIN found |-> <<<<endpoint, found[i][1]>>, found[i][2]>>]
=============================================================================
