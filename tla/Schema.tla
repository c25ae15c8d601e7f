------------------------------- MODULE Schema -------------------------------
(***************************************************************************)
(* internal/schema: what a schema counts, and how two schemas merge.        *)
(*                                                                          *)
(* A path is the sequence of steps the source splits its string into:       *)
(* Elem for a step into an array, Wild for one into a map-shaped            *)
(* object, any other for what stands between two dots.  That is a key of    *)
(* the body, unless the key itself holds dots (see Extract.Join).  Strings  *)
(* are numbered in lexicographic order.  A map from kinds or strings to     *)
(* counts is a function that is 0 where the map has no entry.  A nil schema *)
(* merges as New does.                                                      *)
(***************************************************************************)
EXTENDS Integers, Sequences, FiniteSets

CONSTANTS
    Name,                 \* the steps that are names: keys, or parts of keys with dots
    Text,                 \* string values
    MaxEnumCardinality    \* distinct strings kept per field

ASSUME TextAssumption == Text \subseteq Nat
ASSUME CardinalityAssumption == MaxEnumCardinality \in Nat

Kind == {"null", "bool", "int", "float", "string", "array", "object"}

Elem == "[]"
Wild == "{*}"

\* The path that counts the responses which lost paths to MaxFields.
OverflowPath == <<"{overflow}">>

Path == Seq(Name \cup {Elem, Wild, "{overflow}"}) \ {<< >>}

\* ParentPath: a path of one name has no parent, while the elements of a root
\* array have the root itself, which is no entry of Fields.  A root key with a
\* dot is a path of two steps, and so has one.
HasParent(p) == Len(p) > 1 \/ p = <<Elem>>
Parent(p) == SubSeq(p, 1, Len(p) - 1)

Support(m) == {v \in Text : m[v] # 0}

Strings == {m \in [Text -> Nat] : IsFiniteSet(Support(m))}

FieldStats == [seen : Nat, present : Nat, null : Nat, kinds : [Kind -> Nat],
               strings : Strings, overflow : BOOLEAN]

\* The schemas: Fields is a map from finitely many paths to stats.
IsSchema(s) ==
    /\ DOMAIN s = {"samples", "fields"}
    /\ s = [samples |-> s.samples, fields |-> s.fields]
    /\ s.samples \in Nat
    /\ DOMAIN s.fields \subseteq Path /\ IsFiniteSet(DOMAIN s.fields)
    /\ s.fields \in [DOMAIN s.fields -> FieldStats]

New == [samples |-> 0, fields |-> << >>]
-----------------------------------------------------------------------------
\* OpportunityCount: how many of s's responses could have carried p.
OpportunityCount(s, p) ==
    IF ~HasParent(p) THEN s.samples
    ELSE IF Parent(p) \in DOMAIN s.fields THEN s.fields[Parent(p)].present
    ELSE 0

Plus(m, n) == [x \in DOMAIN m |-> m[x] + n[x]]

\* Defective variants, for checking that the properties can fail: a value set
\* never cut short; the other side's opportunities left out.
KeptWhole(m) == m

PresentSideOnly(f, absent, p) == f

\* mergeStringValues keeps the lexicographically smallest values.
Smaller(S, v) == {w \in S : w < v}
Capped(m) ==
    [v \in Text |-> IF Cardinality(Smaller(Support(m), v)) < MaxEnumCardinality
                    THEN m[v] ELSE 0]
TooMany(m) == Cardinality(Support(m)) > MaxEnumCardinality

MergeStats(f, g) ==
    [seen |-> f.seen + g.seen,
     present |-> f.present + g.present,
     null |-> f.null + g.null,
     kinds |-> Plus(f.kinds, g.kinds),
     strings |-> Capped(Plus(f.strings, g.strings)),
     overflow |-> f.overflow \/ g.overflow \/ TooMany(Plus(f.strings, g.strings))]

\* withAbsentSide: the responses of the side without the path could each have
\* carried it.
WithAbsentSide(f, absent, p) ==
    [f EXCEPT !.seen = f.seen + OpportunityCount(absent, p)]

MergeField(a, b, p) ==
    IF p \in DOMAIN a.fields /\ p \in DOMAIN b.fields
    THEN MergeStats(a.fields[p], b.fields[p])
    ELSE IF p \in DOMAIN a.fields THEN WithAbsentSide(a.fields[p], b, p)
    ELSE WithAbsentSide(b.fields[p], a, p)

Merge(a, b) ==
    [samples |-> a.samples + b.samples,
     fields |-> [p \in DOMAIN a.fields \cup DOMAIN b.fields |-> MergeField(a, b, p)]]
-----------------------------------------------------------------------------
\* Seen >= Present >= ExplicitNull for every field (internal/schema/README.md,
\* invariant 5).
CountsOrdered(s) ==
    \A p \in DOMAIN s.fields :
        s.fields[p].seen >= s.fields[p].present
            /\ s.fields[p].present >= s.fields[p].null

\* No value set is larger than the cap.
SetsCapped(s) ==
    \A p \in DOMAIN s.fields :
        Cardinality(Support(s.fields[p].strings)) <= MaxEnumCardinality

\* Every path's container is an entry of its own, the root apart, and a
\* field's Seen is the number of responses in which its container was present
\* (the comment on FieldStats.Seen).  The elements of a root array are the
\* exception: nothing records that the root was an array.
ContainersKept(s) ==
    \A p \in DOMAIN s.fields : Len(p) > 1 => Parent(p) \in DOMAIN s.fields

SeenIsOpportunity(s) ==
    \A p \in DOMAIN s.fields \ {<<Elem>>} :
        s.fields[p].seen = OpportunityCount(s, p)
=============================================================================
