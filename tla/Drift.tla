------------------------------- MODULE Drift --------------------------------
(***************************************************************************)
(* internal/eval: what changed between two specifications (diff.go), the     *)
(* traffic each of them stands for (generate.go) and the score of a list of  *)
(* findings (score.go).                                                      *)
(*                                                                          *)
(* A node is a response's schema: its type, whether it is nullable, its      *)
(* enum, properties and required names, the set of its item schemas (one or  *)
(* none), and whether the loader stopped there.  Paths are sequences, as in  *)
(* Extract.  A specification is a function from endpoints to nodes.          *)
(***************************************************************************)
EXTENDS Integers, Sequences, FiniteSets

CONSTANTS
    StringPool,    \* the strings generated where no enum constrains them
    ArrayLen       \* GenConfig.ArrayLen

Elem == "[]"

Kinds == {"field_removed", "type_changed", "nullability_introduced",
          "enum_value_added", "field_added"}

Change(p, kind) == [path |-> p, kind |-> kind]

\* addedEnumValues: an enum that appears or disappears has no new value.
AddedEnumValues(a, b) == IF a.enum = {} \/ b.enum = {} THEN {} ELSE b.enum \ a.enum

\* addSubtree: the same change for a path and for every path beneath it.
RECURSIVE Subtree(_, _, _)
Subtree(p, n, kind) ==
    {Change(p, kind)} \cup
    CASE n.truncated -> {}
      [] ~n.truncated /\ n.type = "object" ->
           UNION {Subtree(Append(p, x), n.properties[x], kind) : x \in DOMAIN n.properties}
      [] ~n.truncated /\ n.type = "array" ->
           UNION {Subtree(Append(p, Elem), i, kind) : i \in n.items}
      [] OTHER -> {}

\* walk at the path itself: what the two nodes say of it.
Here(p, a, b) ==
    (IF ~a.nullable /\ b.nullable THEN {Change(p, "nullability_introduced")} ELSE {})
    \cup (IF AddedEnumValues(a, b) # {} THEN {Change(p, "enum_value_added")} ELSE {})

\* walk and walkObject.
RECURSIVE Walk(_, _, _)
Walk(p, a, b) ==
    LET was == DOMAIN a.properties
        is == DOMAIN b.properties
        removed == UNION {Subtree(Append(p, x), a.properties[x], "field_removed") : x \in was \ is}
        optional == {Change(Append(p, x), "field_removed") :
                       x \in {y \in was \cap is : y \in a.required /\ y \notin b.required}}
        kept == UNION {Walk(Append(p, x), a.properties[x], b.properties[x]) : x \in was \cap is}
        added == UNION {Subtree(Append(p, x), b.properties[x], "field_added") : x \in is \ was}
    IN CASE a.truncated \/ b.truncated -> {}
         [] ~a.truncated /\ ~b.truncated /\ a.type # b.type -> {Change(p, "type_changed")}
         [] OTHER ->
              Here(p, a, b) \cup
              CASE a.type = "object" -> removed \cup optional \cup kept \cup added
                [] a.type = "array" ->
                     UNION {Walk(Append(p, Elem), i, j) : i \in a.items, j \in b.items}
                [] OTHER -> {}

\* The endpoints both specifications define: only these are compared, so an
\* endpoint that goes away changes nothing.
ComparableEndpoints(v1, v2) == DOMAIN v1 \cap DOMAIN v2

\* The identities of the changes between two specifications.
Diff(v1, v2) ==
    UNION {{[endpoint |-> e, path |-> c.path, kind |-> c.kind] : c \in Walk(<< >>, v1[e], v2[e])} :
             e \in ComparableEndpoints(v1, v2)}

\* watch's breakingKinds, the ones reported by default.
BreakingKinds == {"field_removed", "type_changed", "nullability_introduced"}
-----------------------------------------------------------------------------
\* The bodies the generator may produce for a node, with the rates of
\* DefaultGenConfig: a required property always, another one or not, a nullable
\* value null or not.  A node that is missing is null, and none
\* lies as deep as MaxSchemaDepth.
RECURSIVE Bodies(_)
Bodies(n) ==
    LET Items == IF n.items = {} THEN {[kind |-> "null"]} ELSE UNION {Bodies(i) : i \in n.items}
        Named(x) == Bodies(n.properties[x])
        Objects(D) == {f \in [D -> UNION {Named(x) : x \in D}] : \A x \in D : f[x] \in Named(x)}
        present == {D \in SUBSET DOMAIN n.properties : n.required \cap DOMAIN n.properties \subseteq D}
    IN (IF n.nullable THEN {[kind |-> "null"]} ELSE {}) \cup
       CASE n.type = "object" -> {[kind |-> "object", fields |-> f] : f \in UNION {Objects(D) : D \in present}}
         [] n.type = "array" -> {[kind |-> "array", elems |-> s] : s \in [1 .. ArrayLen -> Items]}
         [] n.type = "boolean" -> {[kind |-> "bool"]}
         [] n.type = "integer" -> {[kind |-> "int"]}
         [] n.type = "number" -> {[kind |-> "float"]}
         [] OTHER -> {[kind |-> "string", text |-> t] :
                        t \in IF n.enum = {} THEN StringPool ELSE n.enum}
-----------------------------------------------------------------------------
\* Score: the identities of the findings against those of the truth, in all
\* and for each kind claimed or missed.
Tally(findings, truth) ==
    [truePositives |-> Cardinality(findings \cap truth),
     falsePositives |-> Cardinality(findings \ truth),
     falseNegatives |-> Cardinality(truth \ findings)]

OfKind(S, kind) == {c \in S : c.kind = kind}

Score(findings, truth) ==
    [totals |-> Tally(findings, truth),
     byKind |-> [k \in Kinds |-> Tally(OfKind(findings, k), OfKind(truth, k))]]
=============================================================================
