---------------------------- MODULE DetectionProofs ----------------------------
(***************************************************************************)
(* From merged counters to findings, for any bodies, windows and caps.      *)
(*                                                                          *)
(* First what merging does to any two or three schemas, however many paths  *)
(* and strings they hold and whatever the cap on value sets.  The store     *)
(* merges partial schemas in whatever grouping buckets and windows give it, *)
(* so every one of these facts is one it relies on (internal/schema,        *)
(* merge.go).  Then that merging adds up what the operands count, so that   *)
(* buckets and windows count the responses filed; what the cut on false     *)
(* discoveries leaves; and that findings are borne out by responses.        *)
(***************************************************************************)
EXTENDS PlainBodies, FiniteSetTheorems, FunctionTheorems, TLAPS

(***************************************************************************)
(* Counts: adding them, and the strings that have one.                      *)
(***************************************************************************)

\* Adding the counts of two value sets gives a value set, whose strings are
\* those of either.
LEMMA PlusStrings ==
    ASSUME NEW m \in Strings, NEW n \in Strings
    PROVE  /\ Plus(m, n) \in Strings
           /\ Support(Plus(m, n)) = Support(m) \cup Support(n)
<1>1. /\ m \in [Text -> Nat] /\ IsFiniteSet(Support(m))
      /\ n \in [Text -> Nat] /\ IsFiniteSet(Support(n))
  BY DEF Strings
<1>2. Plus(m, n) \in [Text -> Nat] /\ \A v \in Text : Plus(m, n)[v] = m[v] + n[v]
  BY <1>1 DEF Plus
<1>3. Support(Plus(m, n)) = Support(m) \cup Support(n)
  BY <1>1, <1>2 DEF Support
<1>4. IsFiniteSet(Support(m) \cup Support(n))
  BY <1>1, FS_Union
<1> QED
  BY <1>2, <1>3, <1>4 DEF Strings

\* Adding up counts of strings commutes ...
LEMMA PlusStringsCommutes ==
    ASSUME NEW m \in Strings, NEW n \in Strings
    PROVE  Plus(m, n) = Plus(n, m)
BY DEF Strings, Plus

\* ... and associates, ...
LEMMA PlusStringsAssociates ==
    ASSUME NEW l \in Strings, NEW m \in Strings, NEW n \in Strings
    PROVE  Plus(Plus(l, m), n) = Plus(l, Plus(m, n))
BY DEF Strings, Plus

\* ... as adding up counts of kinds does.
LEMMA PlusKinds ==
    ASSUME NEW l \in [Kind -> Nat], NEW m \in [Kind -> Nat], NEW n \in [Kind -> Nat]
    PROVE  /\ Plus(l, m) \in [Kind -> Nat]
           /\ Plus(l, m) = Plus(m, l)
           /\ Plus(Plus(l, m), n) = Plus(l, Plus(m, n))
BY DEF Plus

-----------------------------------------------------------------------------
(***************************************************************************)
(* The cap on value sets: cutting a set early loses nothing that a later    *)
(* cut would have kept.                                                     *)
(***************************************************************************)

\* Strings smaller than a string are finitely many of a finite set, and fewer
\* of a smaller set.
LEMMA SmallerFinite ==
    ASSUME NEW S, NEW T, IsFiniteSet(S), T \subseteq S, NEW v
    PROVE  /\ IsFiniteSet(Smaller(T, v)) /\ IsFiniteSet(Smaller(S, v))
           /\ Cardinality(Smaller(T, v)) \in Nat /\ Cardinality(Smaller(S, v)) \in Nat
           /\ Cardinality(Smaller(T, v)) <= Cardinality(Smaller(S, v))
<1>1. Smaller(S, v) \in SUBSET S /\ Smaller(T, v) \in SUBSET Smaller(S, v)
  BY DEF Smaller
<1>2. IsFiniteSet(Smaller(S, v))
  BY <1>1, FS_Subset
<1>3. IsFiniteSet(Smaller(T, v)) /\ Cardinality(Smaller(T, v)) <= Cardinality(Smaller(S, v))
  BY <1>1, <1>2, FS_Subset
<1> QED
  BY <1>2, <1>3, FS_CardinalityType

\* What the cut keeps: the strings with fewer than the cap before them.
LEMMA CappedStrings ==
    ASSUME NEW m \in Strings
    PROVE  /\ Capped(m) \in Strings
           /\ Support(Capped(m)) =
                {v \in Support(m) : Cardinality(Smaller(Support(m), v)) < MaxEnumCardinality}
<1>1. m \in [Text -> Nat] /\ IsFiniteSet(Support(m))
  BY DEF Strings
<1>2. /\ Capped(m) \in [Text -> Nat]
      /\ \A v \in Text : Capped(m)[v] =
            IF Cardinality(Smaller(Support(m), v)) < MaxEnumCardinality THEN m[v] ELSE 0
  BY <1>1 DEF Capped
<1>3. Support(Capped(m)) =
        {v \in Support(m) : Cardinality(Smaller(Support(m), v)) < MaxEnumCardinality}
  BY <1>1, <1>2 DEF Support
<1>4. Support(Capped(m)) \in SUBSET Support(m)
  BY <1>3
<1>5. IsFiniteSet(Support(Capped(m)))
  BY <1>1, <1>4, FS_Subset
<1> QED
  BY <1>2, <1>3, <1>5 DEF Strings

\* A set of naturals that is not empty has a least element.
LEMMA LeastNatural ==
    ASSUME NEW T, T \subseteq Nat, T # {}
    PROVE  \E x \in T : \A y \in T : x <= y
<1>1. \E x \in T : \A y \in T : ~ (<<y, x>> \in OpToRel(<, Nat))
  BY NatLessThanWellFounded, WFMin, Zenon
<1>2. PICK x \in T : \A y \in T : ~ (<<y, x>> \in OpToRel(<, Nat))
  BY <1>1
<1>3. ASSUME NEW y \in T PROVE x <= y
  <2>1. x \in Nat /\ y \in Nat
    BY <1>2
  <2>2. ~ (y < x)
    BY <2>1, <1>2, <1>3 DEF OpToRel
  <2> QED
    BY <2>1, <2>2
<1> QED
  BY <1>2, <1>3

\* With at least MaxEnumCardinality strings below v in either set, there are as
\* many below v once the first set is cut: below the least string cut there are
\* already that many.
LEMMA StillTooMany ==
    ASSUME NEW m \in Strings, NEW c \in Strings, NEW v \in Text,
           Cardinality(Smaller(Support(m) \cup Support(c), v)) >= MaxEnumCardinality
    PROVE  Cardinality(Smaller(Support(Capped(m)) \cup Support(c), v)) >= MaxEnumCardinality
<1> DEFINE M == Support(m)
           K == Support(Capped(m))
           C == Support(c)
           Cut == {w \in M : w < v /\ w \notin K}
<1>1. /\ M \subseteq Text /\ C \subseteq Text /\ Text \subseteq Nat
      /\ IsFiniteSet(M) /\ IsFiniteSet(C)
  BY TextAssumption DEF Strings, Support
<1>2. K = {w \in M : Cardinality(Smaller(M, w)) < MaxEnumCardinality}
  BY CappedStrings
<1>3. IsFiniteSet(K) /\ IsFiniteSet(K \cup C)
  <2>1. K \in SUBSET M
    BY <1>2
  <2>2. IsFiniteSet(K)
    BY <2>1, <1>1, FS_Subset
  <2> QED
    BY <2>2, <1>1, FS_Union
<1>4. CASE Cut = {}
  <2>1. Smaller(K \cup C, v) = Smaller(M \cup C, v)
    BY <1>2, <1>4 DEF Smaller
  <2> QED
    BY <2>1
<1>5. CASE Cut # {}
  <2>1. Cut \subseteq Nat
    BY <1>1
  <2>2. PICK w \in Cut : \A u \in Cut : w <= u
    BY <2>1, <1>5, LeastNatural
  <2>3. w \in M /\ w \in Nat /\ w < v /\ w \notin K /\ v \in Nat
    BY <1>1, <2>2
  <2>4. Smaller(K, w) = Smaller(M, w)
    <3>1. ASSUME NEW u \in M, u < w PROVE u \in K
      <4>1. u \in Nat /\ u < v
        BY <1>1, <2>3, <3>1
      <4>2. u \notin Cut
        BY <2>2, <2>3, <3>1, <4>1
      <4> QED
        BY <4>1, <4>2
    <3>2. K \subseteq M
      BY <1>2
    <3> QED
      BY <3>1, <3>2 DEF Smaller
  <2>5. Cardinality(Smaller(M, w)) \in Nat
    BY <1>1, SmallerFinite
  <2>6. Cardinality(Smaller(M, w)) >= MaxEnumCardinality
    BY <1>2, <2>3, <2>5, CardinalityAssumption
  <2>7. Smaller(K, w) \in SUBSET Smaller(K \cup C, v)
    <3>1. K \cup C \subseteq Nat
      BY <1>1, <1>2
    <3> QED
      BY <2>3, <3>1 DEF Smaller
  <2>8. IsFiniteSet(Smaller(K \cup C, v)) /\ Cardinality(Smaller(K \cup C, v)) \in Nat
    BY <1>3, SmallerFinite
  <2>9. Cardinality(Smaller(K, w)) <= Cardinality(Smaller(K \cup C, v))
    BY <2>7, <2>8, FS_Subset
  <2> QED
    BY <2>4, <2>5, <2>6, <2>8, <2>9, CardinalityAssumption
<1> QED
  BY <1>4, <1>5

\* Cutting a value set before adding to it changes nothing of the set cut
\* afterwards, counts included.
LEMMA CutEarly ==
    ASSUME NEW m \in Strings, NEW c \in Strings
    PROVE  Capped(Plus(Capped(m), c)) = Capped(Plus(m, c))
<1> DEFINE S == Support(m) \cup Support(c)
           R == Support(Capped(m)) \cup Support(c)
<1>1. /\ Capped(m) \in Strings
      /\ Support(Capped(m)) \subseteq Support(m)
  BY CappedStrings
<1>2. /\ m \in [Text -> Nat] /\ c \in [Text -> Nat] /\ Capped(m) \in [Text -> Nat]
      /\ IsFiniteSet(Support(m)) /\ IsFiniteSet(Support(c))
  BY <1>1 DEF Strings
<1>3. IsFiniteSet(S) /\ R \subseteq S /\ Support(m) \subseteq S
  BY <1>1, <1>2, FS_Union
<1>4. /\ Support(Plus(m, c)) = S /\ Support(Plus(Capped(m), c)) = R
  BY <1>1, PlusStrings
<1>5. ASSUME NEW v \in Text
      PROVE  Capped(Plus(Capped(m), c))[v] = Capped(Plus(m, c))[v]
  <2>1. /\ Capped(Plus(m, c))[v] =
             IF Cardinality(Smaller(S, v)) < MaxEnumCardinality THEN m[v] + c[v] ELSE 0
        /\ Capped(Plus(Capped(m), c))[v] =
             IF Cardinality(Smaller(R, v)) < MaxEnumCardinality
             THEN Capped(m)[v] + c[v] ELSE 0
    <3>1. Plus(m, c)[v] = m[v] + c[v] /\ Plus(Capped(m), c)[v] = Capped(m)[v] + c[v]
      BY <1>2 DEF Plus
    <3>2. \A n : Capped(n)[v] =
             IF Cardinality(Smaller(Support(n), v)) < MaxEnumCardinality THEN n[v] ELSE 0
      BY Zenon DEF Capped
    <3> QED
      BY <1>4, <3>1, <3>2
  <2>2. /\ Cardinality(Smaller(S, v)) \in Nat /\ Cardinality(Smaller(R, v)) \in Nat
        /\ Cardinality(Smaller(R, v)) <= Cardinality(Smaller(S, v))
    BY <1>3, SmallerFinite
  <2>3. CASE Cardinality(Smaller(S, v)) < MaxEnumCardinality
    <3>1. Cardinality(Smaller(R, v)) < MaxEnumCardinality
      BY <2>2, <2>3, CardinalityAssumption
    <3>2. Cardinality(Smaller(Support(m), v)) < MaxEnumCardinality
      <4>1. /\ Cardinality(Smaller(Support(m), v)) \in Nat
            /\ Cardinality(Smaller(Support(m), v)) <= Cardinality(Smaller(S, v))
        BY <1>3, SmallerFinite
      <4> QED
        BY <2>2, <2>3, <4>1, CardinalityAssumption
    <3>3. Capped(m)[v] = m[v]
      BY <3>2, Zenon DEF Capped
    <3> QED
      BY <2>1, <2>3, <3>1, <3>3
  <2>4. CASE ~(Cardinality(Smaller(S, v)) < MaxEnumCardinality)
    <3>1. Cardinality(Smaller(S, v)) >= MaxEnumCardinality
      BY <2>2, <2>4, CardinalityAssumption
    <3>2. Cardinality(Smaller(R, v)) >= MaxEnumCardinality
      BY <3>1, StillTooMany
    <3>3. ~(Cardinality(Smaller(R, v)) < MaxEnumCardinality)
      BY <2>2, <3>2, CardinalityAssumption
    <3> QED
      BY <2>1, <2>4, <3>3
  <2> QED
    BY <2>3, <2>4
<1>6. \A n : Capped(n) = [v \in Text |-> Capped(n)[v]]
  BY Zenon DEF Capped
<1> QED
  BY <1>5, <1>6, Zenon

\* A set that is not too large is left whole.
LEMMA NothingCut ==
    ASSUME NEW m \in Strings, ~TooMany(m)
    PROVE  Capped(m) = m
<1>1. m \in [Text -> Nat] /\ IsFiniteSet(Support(m)) /\ Text \subseteq Nat
  BY TextAssumption DEF Strings
<1>2. ASSUME NEW v \in Support(m)
      PROVE  Cardinality(Smaller(Support(m), v)) < MaxEnumCardinality
  <2>1. Smaller(Support(m), v) \in SUBSET Support(m) /\ v \notin Smaller(Support(m), v)
    BY <1>1, <1>2 DEF Smaller, Support
  <2>2. /\ Cardinality(Smaller(Support(m), v)) <= Cardinality(Support(m))
        /\ Cardinality(Smaller(Support(m), v)) # Cardinality(Support(m))
    BY <1>1, <1>2, <2>1, FS_Subset
  <2>3. Cardinality(Support(m)) \in Nat /\ Cardinality(Support(m)) <= MaxEnumCardinality
    BY <1>1, FS_CardinalityType, CardinalityAssumption DEF TooMany
  <2>4. Cardinality(Smaller(Support(m), v)) \in Nat
    BY <1>1, SmallerFinite
  <2> QED
    BY <2>2, <2>3, <2>4, CardinalityAssumption
<1> QED
  BY <1>1, <1>2 DEF Capped, Support

\* The mark of a partial set does not depend on when a set was cut.
LEMMA MarkEarly ==
    ASSUME NEW m \in Strings, NEW c \in Strings
    PROVE  TooMany(m) \/ TooMany(Plus(Capped(m), c)) <=> TooMany(Plus(m, c))
<1>1. /\ Capped(m) \in Strings /\ Plus(m, c) \in Strings
      /\ Support(Capped(m)) \subseteq Support(m)
      /\ Support(Plus(m, c)) = Support(m) \cup Support(c)
  BY CappedStrings, PlusStrings
<1>2. Support(Plus(Capped(m), c)) = Support(Capped(m)) \cup Support(c)
  BY <1>1, PlusStrings
<1>3. IsFiniteSet(Support(Plus(m, c)))
  BY <1>1 DEF Strings
<1>4. /\ Cardinality(Support(m)) <= Cardinality(Support(Plus(m, c)))
      /\ Cardinality(Support(Plus(Capped(m), c))) <= Cardinality(Support(Plus(m, c)))
      /\ IsFiniteSet(Support(m)) /\ IsFiniteSet(Support(Plus(Capped(m), c)))
  <2>1. /\ Support(m) \in SUBSET Support(Plus(m, c))
        /\ Support(Plus(Capped(m), c)) \in SUBSET Support(Plus(m, c))
    BY <1>1, <1>2
  <2> QED
    BY <1>3, <2>1, FS_Subset
<1>5. /\ Cardinality(Support(m)) \in Nat
      /\ Cardinality(Support(Plus(m, c))) \in Nat
      /\ Cardinality(Support(Plus(Capped(m), c))) \in Nat
  BY <1>3, <1>4, FS_CardinalityType
<1>6. TooMany(m) \/ TooMany(Plus(Capped(m), c)) => TooMany(Plus(m, c))
  BY <1>4, <1>5, CardinalityAssumption DEF TooMany
<1>7. ~TooMany(m) => Plus(Capped(m), c) = Plus(m, c)
  BY NothingCut
<1> QED
  BY <1>6, <1>7

-----------------------------------------------------------------------------
(***************************************************************************)
(* Stats of one path.                                                       *)
(***************************************************************************)

\* Two fields merge to one, ...
LEMMA MergeStatsTyped ==
    ASSUME NEW f \in FieldStats, NEW g \in FieldStats
    PROVE  MergeStats(f, g) \in FieldStats
<1>1. Plus(f.kinds, g.kinds) \in [Kind -> Nat]
  BY PlusKinds DEF FieldStats
<1>2. Capped(Plus(f.strings, g.strings)) \in Strings
  BY PlusStrings, CappedStrings DEF FieldStats
<1>3. TooMany(Plus(f.strings, g.strings)) \in BOOLEAN
  BY DEF TooMany
<1> QED
  BY <1>1, <1>2, <1>3 DEF FieldStats, MergeStats

\* ... in either order ...
LEMMA MergeStatsCommutes ==
    ASSUME NEW f \in FieldStats, NEW g \in FieldStats
    PROVE  MergeStats(f, g) = MergeStats(g, f)
<1>1. Plus(f.kinds, g.kinds) = Plus(g.kinds, f.kinds)
  BY PlusKinds DEF FieldStats
<1>2. Plus(f.strings, g.strings) = Plus(g.strings, f.strings)
  BY PlusStringsCommutes DEF FieldStats
<1>3. f.seen + g.seen = g.seen + f.seen
  BY DEF FieldStats
<1>4. f.present + g.present = g.present + f.present
  BY DEF FieldStats
<1>5. f.null + g.null = g.null + f.null
  BY DEF FieldStats
<1>6. (f.overflow \/ g.overflow \/ TooMany(Plus(g.strings, f.strings)))
        = (g.overflow \/ f.overflow \/ TooMany(Plus(g.strings, f.strings)))
  BY DEF FieldStats, TooMany
<1> QED
  BY <1>1, <1>2, <1>3, <1>4, <1>5, <1>6 DEF MergeStats

\* The strings and the mark of the merge of three, whichever two go first.
LEMMA ThreeSets ==
    ASSUME NEW l \in Strings, NEW m \in Strings, NEW n \in Strings
    PROVE  /\ Capped(Plus(Capped(Plus(l, m)), n)) = Capped(Plus(l, Capped(Plus(m, n))))
           /\ TooMany(Plus(l, m)) \/ TooMany(Plus(Capped(Plus(l, m)), n))
                <=> TooMany(Plus(m, n)) \/ TooMany(Plus(l, Capped(Plus(m, n))))
<1>1. Plus(l, m) \in Strings /\ Plus(m, n) \in Strings
  BY PlusStrings
<1>2. Capped(Plus(m, n)) \in Strings
  BY <1>1, CappedStrings
<1>3. /\ Plus(l, Capped(Plus(m, n))) = Plus(Capped(Plus(m, n)), l)
      /\ Plus(Plus(l, m), n) = Plus(Plus(m, n), l)
  BY <1>1, <1>2, PlusStringsCommutes, PlusStringsAssociates
<1>4. /\ Capped(Plus(Capped(Plus(l, m)), n)) = Capped(Plus(Plus(l, m), n))
      /\ Capped(Plus(Capped(Plus(m, n)), l)) = Capped(Plus(Plus(m, n), l))
  BY <1>1, CutEarly
<1>5. /\ TooMany(Plus(l, m)) \/ TooMany(Plus(Capped(Plus(l, m)), n))
           <=> TooMany(Plus(Plus(l, m), n))
      /\ TooMany(Plus(m, n)) \/ TooMany(Plus(Capped(Plus(m, n)), l))
           <=> TooMany(Plus(Plus(m, n), l))
  BY <1>1, MarkEarly
<1> QED
  BY <1>3, <1>4, <1>5

\* ... and any grouping.
LEMMA MergeStatsAssociates ==
    ASSUME NEW f \in FieldStats, NEW g \in FieldStats, NEW h \in FieldStats
    PROVE  MergeStats(MergeStats(f, g), h) = MergeStats(f, MergeStats(g, h))
<1> DEFINE L == MergeStats(MergeStats(f, g), h)
           R == MergeStats(f, MergeStats(g, h))
<1>1. L.seen = R.seen /\ L.present = R.present /\ L.null = R.null
  BY DEF FieldStats, MergeStats
<1>2. L.kinds = R.kinds
  BY PlusKinds DEF FieldStats, MergeStats
<1>3. f.strings \in Strings /\ g.strings \in Strings /\ h.strings \in Strings
  BY DEF FieldStats
<1>4. L.strings = R.strings
  BY <1>3, ThreeSets DEF MergeStats
<1>5. L.overflow = R.overflow
  <2>1. L.overflow =
          (f.overflow \/ g.overflow \/ TooMany(Plus(f.strings, g.strings)) \/ h.overflow
             \/ TooMany(Plus(Capped(Plus(f.strings, g.strings)), h.strings)))
    BY Zenon DEF MergeStats
  <2>2. R.overflow =
          (f.overflow \/ (g.overflow \/ h.overflow \/ TooMany(Plus(g.strings, h.strings)))
             \/ TooMany(Plus(f.strings, Capped(Plus(g.strings, h.strings)))))
    BY Zenon DEF MergeStats
  <2>3. /\ f.overflow \in BOOLEAN /\ g.overflow \in BOOLEAN /\ h.overflow \in BOOLEAN
    BY DEF FieldStats
  <2>4. L.overflow <=> R.overflow
    BY <1>3, <2>1, <2>2, <2>3, ThreeSets, Zenon
  <2>5. L.overflow \in BOOLEAN /\ R.overflow \in BOOLEAN
    BY MergeStatsTyped DEF FieldStats
  <2> QED
    BY <2>4, <2>5
<1>6. /\ L = [seen |-> L.seen, present |-> L.present, null |-> L.null, kinds |-> L.kinds,
              strings |-> L.strings, overflow |-> L.overflow]
      /\ R = [seen |-> R.seen, present |-> R.present, null |-> R.null, kinds |-> R.kinds,
              strings |-> R.strings, overflow |-> R.overflow]
  BY DEF MergeStats
<1> QED
  BY <1>1, <1>2, <1>4, <1>5, <1>6

-----------------------------------------------------------------------------
(***************************************************************************)
(* Schemas.                                                                 *)
(***************************************************************************)

\* A schema's fields are fields.
LEMMA FieldTyped ==
    ASSUME NEW s, IsSchema(s), NEW p \in DOMAIN s.fields
    PROVE  s.fields[p] \in FieldStats
BY DEF IsSchema

\* Opportunities are counted.
LEMMA OpportunityTyped ==
    ASSUME NEW s, IsSchema(s), NEW p
    PROVE  OpportunityCount(s, p) \in Nat
<1>1. s.samples \in Nat
  BY DEF IsSchema
<1>2. \A q \in DOMAIN s.fields : s.fields[q].present \in Nat
  BY FieldTyped DEF FieldStats
<1> QED
  BY <1>1, <1>2 DEF OpportunityCount

\* A side without the path adds to its opportunities and to nothing else.
LEMMA WithAbsentSideTyped ==
    ASSUME NEW f \in FieldStats, NEW s, IsSchema(s), NEW p
    PROVE  /\ WithAbsentSide(f, s, p) \in FieldStats
           /\ WithAbsentSide(f, s, p).seen = f.seen + OpportunityCount(s, p)
           /\ WithAbsentSide(f, s, p).present = f.present
           /\ WithAbsentSide(f, s, p).null = f.null
           /\ WithAbsentSide(f, s, p).kinds = f.kinds
           /\ WithAbsentSide(f, s, p).strings = f.strings
           /\ WithAbsentSide(f, s, p).overflow = f.overflow
BY OpportunityTyped DEF FieldStats, WithAbsentSide

\* Two stats that agree on every counter are the same.
LEMMA SameStats ==
    ASSUME NEW f \in FieldStats, NEW g \in FieldStats,
           f.seen = g.seen, f.present = g.present, f.null = g.null,
           f.kinds = g.kinds, f.strings = g.strings, f.overflow = g.overflow
    PROVE  f = g
BY DEF FieldStats

\* A path of a merged schema has a field.
LEMMA MergeFieldTyped ==
    ASSUME NEW a, IsSchema(a), NEW b, IsSchema(b),
           NEW p \in DOMAIN a.fields \cup DOMAIN b.fields
    PROVE  MergeField(a, b, p) \in FieldStats
BY FieldTyped, MergeStatsTyped, WithAbsentSideTyped DEF MergeField

\* The parts of a merged schema.
LEMMA MergeParts ==
    ASSUME NEW a, NEW b
    PROVE  /\ Merge(a, b).samples = a.samples + b.samples
           /\ DOMAIN Merge(a, b).fields = DOMAIN a.fields \cup DOMAIN b.fields
           /\ \A p \in DOMAIN a.fields \cup DOMAIN b.fields :
                 Merge(a, b).fields[p] = MergeField(a, b, p)
BY DEF Merge

\* Merging two schemas gives a schema: every counter is a count and every path
\* of either is kept (merge.go, Merge).
THEOREM MergeTyped ==
    ASSUME NEW a, IsSchema(a), NEW b, IsSchema(b)
    PROVE  IsSchema(Merge(a, b))
<1> DEFINE s == Merge(a, b)
<1>1. DOMAIN s = {"samples", "fields"} /\ s = [samples |-> s.samples, fields |-> s.fields]
  BY DEF Merge
<1>2. s.samples \in Nat
  BY MergeParts DEF IsSchema
<1>3. DOMAIN s.fields \subseteq Path /\ IsFiniteSet(DOMAIN s.fields)
  <2>1. /\ DOMAIN a.fields \subseteq Path /\ IsFiniteSet(DOMAIN a.fields)
        /\ DOMAIN b.fields \subseteq Path /\ IsFiniteSet(DOMAIN b.fields)
    BY DEF IsSchema
  <2>2. DOMAIN s.fields = DOMAIN a.fields \cup DOMAIN b.fields
    BY MergeParts
  <2>3. IsFiniteSet(DOMAIN a.fields \cup DOMAIN b.fields)
    BY <2>1, FS_Union
  <2> QED
    BY <2>1, <2>2, <2>3, Zenon
<1>4. s.fields \in [DOMAIN s.fields -> FieldStats]
  <2>1. s.fields = [p \in DOMAIN a.fields \cup DOMAIN b.fields |-> MergeField(a, b, p)]
    BY DEF Merge
  <2>2. DOMAIN s.fields = DOMAIN a.fields \cup DOMAIN b.fields
    BY MergeParts
  <2> QED
    BY <2>1, <2>2, MergeFieldTyped
<1> QED
  BY <1>1, <1>2, <1>3, <1>4, Zenon DEF IsSchema

\* The order of the operands makes no difference: the store may merge a bucket
\* into a window or the window into the bucket (merge.go, Merge).
THEOREM MergeCommutes ==
    ASSUME NEW a, IsSchema(a), NEW b, IsSchema(b)
    PROVE  Merge(a, b) = Merge(b, a)
<1>1. a.samples + b.samples = b.samples + a.samples
  BY DEF IsSchema
<1>2. ASSUME NEW p \in DOMAIN a.fields \cup DOMAIN b.fields
      PROVE  MergeField(a, b, p) = MergeField(b, a, p)
  <2>1. p \in DOMAIN a.fields /\ p \in DOMAIN b.fields
          => MergeStats(a.fields[p], b.fields[p]) = MergeStats(b.fields[p], a.fields[p])
    BY FieldTyped, MergeStatsCommutes
  <2> QED
    BY <1>2, <2>1 DEF MergeField
<1>3. DOMAIN a.fields \cup DOMAIN b.fields = DOMAIN b.fields \cup DOMAIN a.fields
  OBVIOUS
<1> QED
  BY <1>1, <1>2, <1>3 DEF Merge

\* The opportunities of a path add up, whether or not the operands hold it or
\* its container: this is what lets withAbsentSide read them from the operand.
LEMMA OpportunitiesAdd ==
    ASSUME NEW a, IsSchema(a), NEW b, IsSchema(b), NEW p
    PROVE  OpportunityCount(Merge(a, b), p) = OpportunityCount(a, p) + OpportunityCount(b, p)
<1> DEFINE q == Parent(p)
<1>1. CASE ~HasParent(p)
  BY <1>1, MergeParts DEF OpportunityCount
<1>2. CASE HasParent(p)
  <2>1. q \in DOMAIN a.fields => a.fields[q] \in FieldStats
    BY FieldTyped
  <2>2. q \in DOMAIN b.fields => b.fields[q] \in FieldStats
    BY FieldTyped
  <2>3. CASE q \in DOMAIN a.fields /\ q \in DOMAIN b.fields
    <3>1. Merge(a, b).fields[q] = MergeStats(a.fields[q], b.fields[q])
      BY <2>3, MergeParts DEF MergeField
    <3>2. Merge(a, b).fields[q].present = a.fields[q].present + b.fields[q].present
      BY <3>1 DEF MergeStats
    <3> QED
      BY <1>2, <2>3, <3>2, MergeParts DEF OpportunityCount
  <2>4. CASE q \in DOMAIN a.fields /\ q \notin DOMAIN b.fields
    <3>1. Merge(a, b).fields[q] = WithAbsentSide(a.fields[q], b, q)
      BY <2>4, MergeParts DEF MergeField
    <3>2. Merge(a, b).fields[q].present = a.fields[q].present
      BY <2>1, <2>4, <3>1, WithAbsentSideTyped
    <3>3. a.fields[q].present \in Nat
      BY <2>1, <2>4 DEF FieldStats
    <3> QED
      BY <1>2, <2>4, <3>2, <3>3, MergeParts DEF OpportunityCount
  <2>5. CASE q \notin DOMAIN a.fields /\ q \in DOMAIN b.fields
    <3>1. Merge(a, b).fields[q] = WithAbsentSide(b.fields[q], a, q)
      BY <2>5, MergeParts DEF MergeField
    <3>2. Merge(a, b).fields[q].present = b.fields[q].present
      BY <2>2, <2>5, <3>1, WithAbsentSideTyped
    <3>3. b.fields[q].present \in Nat
      BY <2>2, <2>5 DEF FieldStats
    <3> QED
      BY <1>2, <2>5, <3>2, <3>3, MergeParts DEF OpportunityCount
  <2>6. CASE q \notin DOMAIN a.fields /\ q \notin DOMAIN b.fields
    BY <1>2, <2>6, MergeParts DEF OpportunityCount
  <2> QED
    BY <2>3, <2>4, <2>5, <2>6
<1> QED
  BY <1>1, <1>2

\* How a path counted on one side, and absent from the other, merges with a
\* third side.
LEMMA AbsentThenMerged ==
    ASSUME NEW f \in FieldStats, NEW g \in FieldStats, NEW s, IsSchema(s), NEW p
    PROVE  MergeStats(WithAbsentSide(f, s, p), g) = MergeStats(f, WithAbsentSide(g, s, p))
<1> DEFINE L == MergeStats(WithAbsentSide(f, s, p), g)
           R == MergeStats(f, WithAbsentSide(g, s, p))
<1>1. WithAbsentSide(f, s, p) \in FieldStats /\ WithAbsentSide(g, s, p) \in FieldStats
  BY WithAbsentSideTyped
<1>2. L \in FieldStats /\ R \in FieldStats
  BY <1>1, MergeStatsTyped
<1>3. OpportunityCount(s, p) \in Nat /\ f.seen \in Nat /\ g.seen \in Nat
  BY OpportunityTyped DEF FieldStats
<1>4. L.seen = R.seen
  BY <1>3, WithAbsentSideTyped DEF MergeStats
<1>5. /\ L.present = R.present /\ L.null = R.null /\ L.kinds = R.kinds
      /\ L.strings = R.strings /\ L.overflow = R.overflow
  BY WithAbsentSideTyped DEF MergeStats
<1> QED
  BY <1>2, <1>4, <1>5, SameStats

\* It is the same whether a side without the path comes before a merge or
\* after.
LEMMA MergedThenAbsent ==
    ASSUME NEW f \in FieldStats, NEW g \in FieldStats, NEW s, IsSchema(s), NEW p
    PROVE  WithAbsentSide(MergeStats(f, g), s, p) = MergeStats(f, WithAbsentSide(g, s, p))
<1> DEFINE L == WithAbsentSide(MergeStats(f, g), s, p)
           R == MergeStats(f, WithAbsentSide(g, s, p))
<1>1. MergeStats(f, g) \in FieldStats /\ WithAbsentSide(g, s, p) \in FieldStats
  BY MergeStatsTyped, WithAbsentSideTyped
<1>2. L \in FieldStats /\ R \in FieldStats
  BY <1>1, MergeStatsTyped, WithAbsentSideTyped
<1>3. OpportunityCount(s, p) \in Nat /\ f.seen \in Nat /\ g.seen \in Nat
  BY OpportunityTyped DEF FieldStats
<1>4. L.seen = MergeStats(f, g).seen + OpportunityCount(s, p)
  BY <1>1, WithAbsentSideTyped
<1>5. L.seen = R.seen
  BY <1>3, <1>4, WithAbsentSideTyped DEF MergeStats
<1>6. /\ L.present = MergeStats(f, g).present /\ L.null = MergeStats(f, g).null
      /\ L.kinds = MergeStats(f, g).kinds /\ L.strings = MergeStats(f, g).strings
      /\ L.overflow = MergeStats(f, g).overflow
  BY <1>1, WithAbsentSideTyped
<1>7. /\ L.present = R.present /\ L.null = R.null /\ L.kinds = R.kinds
      /\ L.strings = R.strings /\ L.overflow = R.overflow
  BY <1>6, WithAbsentSideTyped DEF MergeStats
<1> QED
  BY <1>2, <1>5, <1>7, SameStats

\* The responses of two schemas without the path count together as one such.
LEMMA TwiceAbsent ==
    ASSUME NEW f \in FieldStats, NEW s, IsSchema(s), NEW t, IsSchema(t), NEW p
    PROVE  /\ WithAbsentSide(WithAbsentSide(f, s, p), t, p) = WithAbsentSide(f, Merge(s, t), p)
           /\ WithAbsentSide(WithAbsentSide(f, s, p), t, p)
                = WithAbsentSide(WithAbsentSide(f, t, p), s, p)
<1> DEFINE L == WithAbsentSide(WithAbsentSide(f, s, p), t, p)
           M == WithAbsentSide(WithAbsentSide(f, t, p), s, p)
           R == WithAbsentSide(f, Merge(s, t), p)
<1>1. IsSchema(Merge(s, t))
  BY MergeTyped
<1>2. /\ WithAbsentSide(f, s, p) \in FieldStats /\ WithAbsentSide(f, t, p) \in FieldStats
      /\ L \in FieldStats /\ M \in FieldStats /\ R \in FieldStats
  BY <1>1, WithAbsentSideTyped
<1>3. /\ OpportunityCount(s, p) \in Nat /\ OpportunityCount(t, p) \in Nat /\ f.seen \in Nat
      /\ OpportunityCount(Merge(s, t), p) = OpportunityCount(s, p) + OpportunityCount(t, p)
  BY OpportunityTyped, OpportunitiesAdd DEF FieldStats
<1>4. /\ L.seen = (f.seen + OpportunityCount(s, p)) + OpportunityCount(t, p)
      /\ M.seen = (f.seen + OpportunityCount(t, p)) + OpportunityCount(s, p)
      /\ R.seen = f.seen + OpportunityCount(Merge(s, t), p)
  BY <1>1, <1>2, WithAbsentSideTyped
<1>5. L.seen = R.seen /\ L.seen = M.seen
  BY <1>3, <1>4
<1>6. /\ L.present = R.present /\ L.null = R.null /\ L.kinds = R.kinds
      /\ L.strings = R.strings /\ L.overflow = R.overflow
      /\ L.present = M.present /\ L.null = M.null /\ L.kinds = M.kinds
      /\ L.strings = M.strings /\ L.overflow = M.overflow
  BY <1>1, <1>2, WithAbsentSideTyped
<1>7. L = R
  BY <1>2, <1>5, <1>6, SameStats
<1>8. L = M
  BY <1>2, <1>5, <1>6, SameStats
<1> QED
  BY <1>7, <1>8

\* The grouping of the operands makes no difference: a window merged from the
\* ring's buckets says the same however its bodies were spread over them
\* (merge.go, Merge and absentSeen; schema/README.md, invariant 2).
THEOREM MergeAssociates ==
    ASSUME NEW a, IsSchema(a), NEW b, IsSchema(b), NEW c, IsSchema(c)
    PROVE  Merge(Merge(a, b), c) = Merge(a, Merge(b, c))
<1> DEFINE AB == Merge(a, b)
           BC == Merge(b, c)
           A == DOMAIN a.fields
           B == DOMAIN b.fields
           C == DOMAIN c.fields
<1>1. IsSchema(AB) /\ IsSchema(BC)
  BY MergeTyped
<1>2. AB.samples + c.samples = a.samples + BC.samples
  BY MergeParts DEF IsSchema
<1>3. DOMAIN AB.fields = A \cup B /\ DOMAIN BC.fields = B \cup C
  BY MergeParts
<1>4. ASSUME NEW p \in A \cup B \cup C
      PROVE  MergeField(AB, c, p) = MergeField(a, BC, p)
  <2> DEFINE f == a.fields[p]
             g == b.fields[p]
             h == c.fields[p]
  <2>1. /\ p \in A => f \in FieldStats
        /\ p \in B => g \in FieldStats
        /\ p \in C => h \in FieldStats
    BY FieldTyped
  <2>2. /\ p \in A \cup B => AB.fields[p] = MergeField(a, b, p)
        /\ p \in B \cup C => BC.fields[p] = MergeField(b, c, p)
    BY MergeParts
  <2>3. CASE p \in A /\ p \in B /\ p \in C
    <3>1. /\ MergeField(AB, c, p) = MergeStats(MergeStats(f, g), h)
          /\ MergeField(a, BC, p) = MergeStats(f, MergeStats(g, h))
      BY <1>3, <2>2, <2>3 DEF MergeField
    <3> QED
      BY <2>1, <2>3, <3>1, MergeStatsAssociates
  <2>4. CASE p \in A /\ p \in B /\ p \notin C
    <3>1. /\ MergeField(AB, c, p) = WithAbsentSide(MergeStats(f, g), c, p)
          /\ MergeField(a, BC, p) = MergeStats(f, WithAbsentSide(g, c, p))
      BY <1>3, <2>2, <2>4 DEF MergeField
    <3> QED
      BY <2>1, <2>4, <3>1, MergedThenAbsent
  <2>5. CASE p \in A /\ p \notin B /\ p \in C
    <3>1. /\ MergeField(AB, c, p) = MergeStats(WithAbsentSide(f, b, p), h)
          /\ MergeField(a, BC, p) = MergeStats(f, WithAbsentSide(h, b, p))
      BY <1>3, <2>2, <2>5 DEF MergeField
    <3> QED
      BY <2>1, <2>5, <3>1, AbsentThenMerged
  <2>6. CASE p \notin A /\ p \in B /\ p \in C
    <3>1. /\ MergeField(AB, c, p) = MergeStats(WithAbsentSide(g, a, p), h)
          /\ MergeField(a, BC, p) = WithAbsentSide(MergeStats(g, h), a, p)
      BY <1>3, <2>2, <2>6 DEF MergeField
    <3> QED
      BY <2>1, <2>6, <3>1, AbsentThenMerged, MergedThenAbsent
  <2>7. CASE p \in A /\ p \notin B /\ p \notin C
    <3>1. /\ MergeField(AB, c, p) = WithAbsentSide(WithAbsentSide(f, b, p), c, p)
          /\ MergeField(a, BC, p) = WithAbsentSide(f, BC, p)
      BY <1>3, <2>2, <2>7 DEF MergeField
    <3> QED
      BY <2>1, <2>7, <3>1, TwiceAbsent
  <2>8. CASE p \notin A /\ p \in B /\ p \notin C
    <3>1. /\ MergeField(AB, c, p) = WithAbsentSide(WithAbsentSide(g, a, p), c, p)
          /\ MergeField(a, BC, p) = WithAbsentSide(WithAbsentSide(g, c, p), a, p)
      BY <1>3, <2>2, <2>8 DEF MergeField
    <3> QED
      BY <2>1, <2>8, <3>1, TwiceAbsent
  <2>9. CASE p \notin A /\ p \notin B /\ p \in C
    <3>1. /\ MergeField(AB, c, p) = WithAbsentSide(h, AB, p)
          /\ MergeField(a, BC, p) = WithAbsentSide(WithAbsentSide(h, b, p), a, p)
      BY <1>3, <2>2, <2>9 DEF MergeField
    <3> QED
      BY <2>1, <2>9, <3>1, TwiceAbsent
  <2> QED
    BY <1>4, <2>3, <2>4, <2>5, <2>6, <2>7, <2>8, <2>9
<1>5. (A \cup B) \cup C = A \cup (B \cup C)
  OBVIOUS
<1>6. Merge(AB, c).fields = [p \in A \cup B \cup C |-> MergeField(AB, c, p)]
  BY <1>3 DEF Merge
<1>7. Merge(a, BC).fields = [p \in A \cup B \cup C |-> MergeField(a, BC, p)]
  BY <1>3, <1>5 DEF Merge
<1>8. Merge(AB, c).fields = Merge(a, BC).fields
  BY <1>4, <1>6, <1>7, Zenon
<1>9. \A x, y : Merge(x, y) = [samples |-> Merge(x, y).samples, fields |-> Merge(x, y).fields]
  BY DEF Merge
<1> QED
  BY <1>2, <1>8, <1>9, MergeParts

\* Merging with a schema of nothing changes nothing: a nil operand, which Merge
\* reads as an empty schema, is safe (merge.go, Merge).
THEOREM MergeIdentity ==
    ASSUME NEW s, IsSchema(s)
    PROVE  Merge(s, New) = s /\ Merge(New, s) = s
<1>1. IsSchema(New) /\ DOMAIN New.fields = {} /\ New.samples = 0
  BY FS_EmptySet DEF IsSchema, New
<1>2. ASSUME NEW p PROVE OpportunityCount(New, p) = 0
  BY <1>1 DEF OpportunityCount
<1>3. ASSUME NEW p \in DOMAIN s.fields
      PROVE  MergeField(s, New, p) = s.fields[p]
  <2>1. s.fields[p] \in FieldStats
    BY FieldTyped
  <2>2. MergeField(s, New, p) = WithAbsentSide(s.fields[p], New, p)
    BY <1>1, <1>3 DEF MergeField
  <2> QED
    BY <1>1, <1>2, <2>1, <2>2, WithAbsentSideTyped, SameStats DEF FieldStats
<1>4. s.fields = [p \in DOMAIN s.fields |-> s.fields[p]]
  BY DEF IsSchema
<1>5. Merge(s, New).fields = [p \in DOMAIN s.fields |-> MergeField(s, New, p)]
  BY <1>1 DEF Merge
<1>6. Merge(s, New).fields = s.fields
  BY <1>3, <1>4, <1>5, Zenon
<1>7. Merge(s, New).samples = s.samples
  BY <1>1, MergeParts DEF IsSchema
<1>8. /\ Merge(s, New) = [samples |-> Merge(s, New).samples, fields |-> Merge(s, New).fields]
      /\ s = [samples |-> s.samples, fields |-> s.fields]
  BY DEF Merge, IsSchema
<1> QED
  BY <1>1, <1>6, <1>7, <1>8, MergeCommutes

\* Seen >= Present >= ExplicitNull survives merging, on both sides' paths and
\* on those of one side (schema/README.md, invariant 5).
THEOREM MergeKeepsCountsOrdered ==
    ASSUME NEW a, IsSchema(a), CountsOrdered(a), NEW b, IsSchema(b), CountsOrdered(b)
    PROVE  CountsOrdered(Merge(a, b))
<1> SUFFICES ASSUME NEW p \in DOMAIN a.fields \cup DOMAIN b.fields
             PROVE  /\ MergeField(a, b, p).seen >= MergeField(a, b, p).present
                    /\ MergeField(a, b, p).present >= MergeField(a, b, p).null
  BY MergeParts DEF CountsOrdered
<1>1. /\ p \in DOMAIN a.fields =>
            /\ a.fields[p] \in FieldStats
            /\ a.fields[p].seen \in Nat /\ a.fields[p].present \in Nat /\ a.fields[p].null \in Nat
            /\ a.fields[p].seen >= a.fields[p].present /\ a.fields[p].present >= a.fields[p].null
      /\ p \in DOMAIN b.fields =>
            /\ b.fields[p] \in FieldStats
            /\ b.fields[p].seen \in Nat /\ b.fields[p].present \in Nat /\ b.fields[p].null \in Nat
            /\ b.fields[p].seen >= b.fields[p].present /\ b.fields[p].present >= b.fields[p].null
  BY FieldTyped DEF CountsOrdered, FieldStats
<1>2. CASE p \in DOMAIN a.fields /\ p \in DOMAIN b.fields
  <2>1. MergeField(a, b, p) = MergeStats(a.fields[p], b.fields[p])
    BY <1>2 DEF MergeField
  <2> QED
    BY <1>1, <1>2, <2>1 DEF MergeStats
<1>3. CASE p \in DOMAIN a.fields /\ p \notin DOMAIN b.fields
  <2>1. MergeField(a, b, p) = WithAbsentSide(a.fields[p], b, p)
    BY <1>3 DEF MergeField
  <2> QED
    BY <1>1, <1>3, <2>1, WithAbsentSideTyped, OpportunityTyped
<1>4. CASE p \notin DOMAIN a.fields /\ p \in DOMAIN b.fields
  <2>1. MergeField(a, b, p) = WithAbsentSide(b.fields[p], a, p)
    BY <1>4 DEF MergeField
  <2> QED
    BY <1>1, <1>4, <2>1, WithAbsentSideTyped, OpportunityTyped
<1> QED
  BY <1>2, <1>3, <1>4

\* If each operand's Seen of every path is the number of its responses that
\* held the path's container, so is the merge's: no opportunity is lost or
\* counted twice for a path that one operand lacks (schema.go, FieldStats.Seen;
\* merge.go, withAbsentSide).
THEOREM MergeKeepsOpportunities ==
    ASSUME NEW a, IsSchema(a), SeenIsOpportunity(a), NEW b, IsSchema(b), SeenIsOpportunity(b)
    PROVE  SeenIsOpportunity(Merge(a, b))
<1> SUFFICES ASSUME NEW p \in (DOMAIN a.fields \cup DOMAIN b.fields) \ {<<Elem>>}
             PROVE  MergeField(a, b, p).seen
                      = OpportunityCount(a, p) + OpportunityCount(b, p)
  BY MergeParts, OpportunitiesAdd DEF SeenIsOpportunity
<1>1. /\ p \in DOMAIN a.fields =>
            a.fields[p] \in FieldStats /\ a.fields[p].seen = OpportunityCount(a, p)
      /\ p \in DOMAIN b.fields =>
            b.fields[p] \in FieldStats /\ b.fields[p].seen = OpportunityCount(b, p)
  BY FieldTyped DEF SeenIsOpportunity
<1>2. OpportunityCount(a, p) \in Nat /\ OpportunityCount(b, p) \in Nat
  BY OpportunityTyped
<1>3. CASE p \in DOMAIN a.fields /\ p \in DOMAIN b.fields
  BY <1>1, <1>3 DEF MergeField, MergeStats
<1>4. CASE p \in DOMAIN a.fields /\ p \notin DOMAIN b.fields
  <2>1. MergeField(a, b, p) = WithAbsentSide(a.fields[p], b, p)
    BY <1>4 DEF MergeField
  <2> QED
    BY <1>1, <1>4, <2>1, WithAbsentSideTyped
<1>5. CASE p \notin DOMAIN a.fields /\ p \in DOMAIN b.fields
  <2>1. MergeField(a, b, p) = WithAbsentSide(b.fields[p], a, p)
    BY <1>5 DEF MergeField
  <2> QED
    BY <1>1, <1>2, <1>5, <2>1, WithAbsentSideTyped
<1> QED
  BY <1>3, <1>4, <1>5
-----------------------------------------------------------------------------
\* A finite set of naturals that is not empty has a greatest element: the one
\* with the most others below it.
LEMMA GreatestNatural ==
    ASSUME NEW S, S \subseteq Nat, IsFiniteSet(S), S # {}
    PROVE  \E v \in S : \A w \in S : w <= v
<1> DEFINE N == Cardinality(S)
           Below(v) == Cardinality(Smaller(S, v))
           T == {N - Below(v) : v \in S}
<1>1. N \in Nat
  BY FS_CardinalityType
<1>2. ASSUME NEW v \in S PROVE Below(v) \in Nat /\ Below(v) <= N
  <2>1. Smaller(S, v) \in SUBSET S
    BY DEF Smaller
  <2> QED
    BY <2>1, FS_Subset, FS_CardinalityType
<1>3. T \subseteq Nat /\ T # {}
  <2>1. ASSUME NEW v \in S PROVE N - Below(v) \in Nat
    <3> HIDE DEF N, Below
    <3> QED
      BY <1>1, <1>2
  <2> HIDE DEF N, Below
  <2> QED
    BY <2>1
<1>4. PICK x \in T : \A y \in T : x <= y
  BY <1>3, LeastNatural, Zenon
<1>5. PICK v \in S : x = N - Below(v)
  BY <1>4
<1>6. ASSUME NEW w \in S PROVE w <= v
  <2>1. Below(w) <= Below(v)
    <3>1. N - Below(v) <= N - Below(w)
      BY <1>4, <1>5, <1>6
    <3> QED
      BY <1>1, <1>2, <1>6, <3>1
  <2>2. ASSUME v < w PROVE FALSE
    <3>1. /\ Smaller(S, v) \in SUBSET Smaller(S, w)
          /\ v \in Smaller(S, w) /\ v \notin Smaller(S, v)
      <4>1. v \in S /\ w \in S /\ v \in Nat /\ w \in Nat
        BY <1>5, <1>6
      <4>2. ASSUME NEW u \in S, u < v PROVE u < w
        <5>1. u \in Nat
          BY <4>2
        <5> QED
          BY <2>2, <4>1, <4>2, <5>1
      <4>3. ~(v < v)
        BY <4>1
      <4> HIDE DEF N, Below, T
      <4> QED
        BY <2>2, <4>1, <4>2, <4>3, Zenon DEF Smaller
    <3>2. IsFiniteSet(Smaller(S, w))
      BY SmallerFinite
    <3>3. Below(v) <= Below(w) /\ Below(v) # Below(w)
      BY <3>1, <3>2, FS_Subset
    <3> QED
      BY <1>2, <1>6, <2>1, <3>3
  <2> QED
    BY <1>6, <2>2
<1> QED
  BY <1>6

\* A cut value set holds at most MaxEnumCardinality strings.
LEMMA CutFits ==
    ASSUME NEW m \in Strings
    PROVE  Cardinality(Support(Capped(m))) <= MaxEnumCardinality
<1> DEFINE K == Support(Capped(m))
<1>1. /\ Capped(m) \in Strings
      /\ K = {v \in Support(m) : Cardinality(Smaller(Support(m), v)) < MaxEnumCardinality}
  BY CappedStrings
<1>2. IsFiniteSet(K) /\ IsFiniteSet(Support(m)) /\ K \subseteq Nat /\ K \subseteq Support(m)
  BY <1>1, TextAssumption DEF Strings, Support
<1>3. CASE K = {}
  BY <1>3, FS_EmptySet, CardinalityAssumption
<1>4. CASE K # {}
  <2>1. PICK v \in K : \A w \in K : w <= v
    BY <1>2, <1>4, GreatestNatural
  <2>2. K \ {v} = Smaller(K, v)
    BY <1>2, <2>1 DEF Smaller
  <2>3. Cardinality(K) \in Nat /\ Cardinality(Smaller(K, v)) = Cardinality(K) - 1
    BY <1>2, <2>1, <2>2, FS_RemoveElement, FS_CardinalityType
  <2>4. /\ Cardinality(Smaller(K, v)) <= Cardinality(Smaller(Support(m), v))
        /\ Cardinality(Smaller(Support(m), v)) \in Nat
    BY <1>2, SmallerFinite
  <2>5. Cardinality(Smaller(Support(m), v)) < MaxEnumCardinality
    BY <1>1, <2>1
  <2> QED
    BY <2>3, <2>4, <2>5, CardinalityAssumption
<1> QED
  BY <1>3, <1>4

\* The cap on distinct strings holds in a merge if it holds in the operands,
\* however often a set is cut on the way (merge.go, mergeStringValues).
THEOREM MergeKeepsSetsCapped ==
    ASSUME NEW a, IsSchema(a), SetsCapped(a), NEW b, IsSchema(b), SetsCapped(b)
    PROVE  SetsCapped(Merge(a, b))
<1> SUFFICES ASSUME NEW p \in DOMAIN a.fields \cup DOMAIN b.fields
             PROVE  Cardinality(Support(MergeField(a, b, p).strings)) <= MaxEnumCardinality
  BY MergeParts DEF SetsCapped
<1>1. CASE p \in DOMAIN a.fields /\ p \in DOMAIN b.fields
  <2>1. a.fields[p].strings \in Strings /\ b.fields[p].strings \in Strings
    BY <1>1, FieldTyped DEF FieldStats
  <2>2. MergeField(a, b, p).strings = Capped(Plus(a.fields[p].strings, b.fields[p].strings))
    BY <1>1 DEF MergeField, MergeStats
  <2> QED
    BY <2>1, <2>2, PlusStrings, CutFits
<1>2. CASE p \in DOMAIN a.fields /\ p \notin DOMAIN b.fields
  <2>1. MergeField(a, b, p).strings = a.fields[p].strings
    BY <1>2, FieldTyped, WithAbsentSideTyped DEF MergeField
  <2> QED
    BY <1>2, <2>1 DEF SetsCapped
<1>3. CASE p \notin DOMAIN a.fields /\ p \in DOMAIN b.fields
  <2>1. MergeField(a, b, p).strings = b.fields[p].strings
    BY <1>3, FieldTyped, WithAbsentSideTyped DEF MergeField
  <2> QED
    BY <1>3, <2>1 DEF SetsCapped
<1> QED
  BY <1>1, <1>2, <1>3

-----------------------------------------------------------------------------
(***************************************************************************)
(* What filings of bodies say, and what a merged schema says of them.       *)
(***************************************************************************)

\* What a body holds, and where.
LEMMA HeldFacts ==
    ASSUME NEW d \in Body, NEW p
    PROVE  /\ \A k : HoldsKind(d, p, k) <=> <<p, k>> \in Document[d].kinds
           /\ \A t : HoldsString(d, p, t) <=> <<p, t>> \in Document[d].texts
           /\ Carries(d, p) <=> \E k \in Kind : HoldsKind(d, p, k)
           /\ \A t : HoldsString(d, p, t) => Carries(d, p)
           /\ Carries(d, p) => p \in Reached
<1>1. ASSUME NEW k, HoldsKind(d, p, k)
      PROVE  <<p, k>> \in Document[d].kinds
  <2>1. PICK c \in Body : <<d, p, k>> \in {<<c, x[1], x[2]>> : x \in Document[c].kinds}
    BY <1>1 DEF HoldsKind, KindsHeld
  <2>2. PICK x \in Document[c].kinds : d = c /\ p = x[1] /\ k = x[2]
    BY <2>1
  <2>3. x = <<x[1], x[2]>>
    BY HeldAssumption
  <2> QED
    BY <2>2, <2>3
<1>2. ASSUME NEW k, <<p, k>> \in Document[d].kinds
      PROVE  HoldsKind(d, p, k) /\ k \in Kind
  <2>1. <<p, k>> \in Path \X Kind
    BY <1>2, HeldAssumption
  <2>2. <<d, p, k>> \in {<<d, x[1], x[2]>> : x \in Document[d].kinds}
    BY <1>2
  <2> QED
    BY <2>1, <2>2 DEF HoldsKind, KindsHeld
<1>3. ASSUME NEW t, HoldsString(d, p, t)
      PROVE  <<p, t>> \in Document[d].texts
  <2>1. PICK c \in Body : <<d, p, t>> \in {<<c, x[1], x[2]>> : x \in Document[c].texts}
    BY <1>3 DEF HoldsString, TextsHeld
  <2>2. PICK x \in Document[c].texts : d = c /\ p = x[1] /\ t = x[2]
    BY <2>1
  <2>3. x = <<x[1], x[2]>>
    BY HeldAssumption
  <2> QED
    BY <2>2, <2>3
<1>4. ASSUME NEW t, <<p, t>> \in Document[d].texts
      PROVE  HoldsString(d, p, t) /\ HoldsKind(d, p, "string")
  <2>1. <<p, "string">> \in Document[d].kinds
    BY <1>4, HeldAssumption
  <2>2. <<d, p, t>> \in {<<d, x[1], x[2]>> : x \in Document[d].texts}
    BY <1>4
  <2> QED
    BY <1>2, <2>1, <2>2 DEF HoldsString, TextsHeld
<1>5. ASSUME Carries(d, p)
      PROVE  \E k \in Kind : HoldsKind(d, p, k)
  <2>1. PICK y \in KindsHeld : <<d, p>> = <<y[1], y[2]>>
    BY <1>5 DEF Carries, Carried
  <2>2. PICK c \in Body : y \in {<<c, x[1], x[2]>> : x \in Document[c].kinds}
    BY DEF KindsHeld
  <2>3. PICK x \in Document[c].kinds : y = <<c, x[1], x[2]>>
    BY <2>2
  <2>4. HoldsKind(d, p, x[2])
    BY <2>1, <2>3 DEF HoldsKind
  <2> QED
    BY <1>1, <1>2, <2>4
<1>6. ASSUME NEW k, HoldsKind(d, p, k)
      PROVE  Carries(d, p) /\ p \in Reached
  <2>1. <<d, p, k>> \in KindsHeld
    BY <1>6 DEF HoldsKind
  <2> QED
    BY <2>1 DEF Carries, Carried, Reached
<1>7. \A t : HoldsString(d, p, t) => HoldsKind(d, p, "string")
  BY <1>3, <1>4
<1> QED
  BY <1>1, <1>2, <1>3, <1>4, <1>5, <1>6, <1>7

\* A path that is reached is a path, and neither the marker's nor below it.
LEMMA ReachedPaths ==
    ASSUME NEW p \in Reached
    PROVE  p \in Path /\ p # OverflowPath /\ Parent(p) # OverflowPath
<1>1. PICK d \in Body : \E x \in Document[d].kinds : p = x[1]
  <2>1. PICK y \in KindsHeld : p = y[2]
    BY DEF Reached
  <2>2. PICK d \in Body : y \in {<<d, x[1], x[2]>> : x \in Document[d].kinds}
    BY DEF KindsHeld
  <2> QED
    BY <2>1, <2>2
<1> QED
  BY <1>1, HeldAssumption

\* Filings told apart add up, whatever is counted.
LEMMA CountsAdd ==
    ASSUME NEW I, IsFiniteSet(I), NEW J, IsFiniteSet(J), I \cap J = {}, NEW S
    PROVE  /\ Count(I, S) \in Nat /\ Count(J, S) \in Nat
           /\ Count(I \cup J, S) = Count(I, S) + Count(J, S)
<1> DEFINE In(K) == {i \in K : i.body \in S}
<1>1. In(I) \in SUBSET I /\ In(J) \in SUBSET J
  OBVIOUS
<1>2. IsFiniteSet(In(I)) /\ IsFiniteSet(In(J))
  BY <1>1, FS_Subset
<1>3. In(I \cup J) = In(I) \cup In(J) /\ In(I) \cap In(J) = {}
  OBVIOUS
<1>4. Count(I, S) = Cardinality(In(I)) /\ Count(J, S) = Cardinality(In(J))
        /\ Count(I \cup J, S) = Cardinality(In(I \cup J))
  BY DEF Count
<1> HIDE DEF In
<1>5. Cardinality(In(I)) \in Nat /\ Cardinality(In(J)) \in Nat
  BY <1>2, FS_CardinalityType
<1>6. Cardinality(In(I) \cap In(J)) = 0
  BY <1>3, FS_EmptySet, Zenon
<1>7. Cardinality(In(I) \cup In(J)) = Cardinality(In(I)) + Cardinality(In(J)) - Cardinality(In(I) \cap In(J))
  BY <1>2, FS_Union
<1>8. Cardinality(In(I \cup J)) = Cardinality(In(I) \cup In(J))
  BY <1>3, Zenon
<1> QED
  BY <1>4, <1>5, <1>6, <1>7, <1>8

\* So do counters of them, ...
LEMMA CountersAdd ==
    ASSUME NEW I, IsFiniteSet(I), NEW J, IsFiniteSet(J), I \cap J = {}, NEW S,
           NEW n \in Nat, Counted(n, I, S), NEW m \in Nat, Counted(m, J, S)
    PROVE  Counted(n + m, I \cup J, S)
<1>1. Lossless(I \cup J) <=> Lossless(I) /\ Lossless(J)
  BY DEF Lossless
<1>2. n <= Count(I, S) /\ m <= Count(J, S)
  BY CountsAdd DEF Counted
<1>3. Lossless(I) /\ Lossless(J) => n = Count(I, S) /\ m = Count(J, S)
  BY DEF Counted
<1>4. /\ Count(I, S) \in Nat /\ Count(J, S) \in Nat
      /\ Count(I \cup J, S) = Count(I, S) + Count(J, S)
  BY CountsAdd
<1>5. n + m <= Count(I, S) + Count(J, S)
  BY <1>2, <1>4
<1> QED
  BY <1>1, <1>3, <1>4, <1>5, Zenon DEF Counted

\* ... and a counter of what none of them is stays at nothing.
LEMMA NoneCounted ==
    ASSUME NEW I, IsFiniteSet(I), NEW S, Lossless(I) => \A i \in I : i.body \notin S
    PROVE  Counted(0, I, S)
<1>1. Count(I, S) \in Nat
  BY FS_EmptySet, CountsAdd
<1>2. ASSUME Lossless(I) PROVE Count(I, S) = 0
  <2>1. {i \in I : i.body \in S} = {}
    BY <1>2
  <2> QED
    BY <2>1, FS_EmptySet, Zenon DEF Count
<1> QED
  BY <1>1, <1>2 DEF Counted

\* Something is counted exactly when it is there.
LEMMA CountedIfThere ==
    ASSUME NEW I, IsFiniteSet(I), NEW S
    PROVE  Count(I, S) = 0 <=> \A i \in I : i.body \notin S
<1> DEFINE T == {i \in I : i.body \in S}
<1>1. T \in SUBSET I
  OBVIOUS
<1>2. IsFiniteSet(T)
  BY <1>1, FS_Subset
<1>3. Cardinality(T) = 0 <=> T = {}
  <2> HIDE DEF T
  <2> QED
    BY <1>2, FS_EmptySet
<1> QED
  BY <1>3 DEF Count

\* Finitely many filings of bodies, which hold finitely many strings at a path.
Filings(I) ==
    /\ IsFiniteSet(I)
    /\ \A i \in I : i.body \in Body
    /\ \A p : IsFiniteSet(Distinct(I, p))

\* The strings of two sets of filings are those of either.
LEMMA FilingsAdd ==
    ASSUME NEW I, Filings(I), NEW J, Filings(J)
    PROVE  /\ Filings(I \cup J)
           /\ \A p : Distinct(I \cup J, p) = Distinct(I, p) \cup Distinct(J, p)
<1>1. \A p : Distinct(I \cup J, p) = Distinct(I, p) \cup Distinct(J, p)
  BY DEF Distinct
<1>2. IsFiniteSet(I \cup J)
  BY FS_Union DEF Filings
<1>3. ASSUME NEW p PROVE IsFiniteSet(Distinct(I \cup J, p))
  <2>1. IsFiniteSet(Distinct(I, p) \cup Distinct(J, p))
    BY FS_Union DEF Filings
  <2> QED
    BY <1>1, <2>1
<1> QED
  BY <1>1, <1>2, <1>3 DEF Filings

\* A string set that is complete holds the strings of the filings.
LEMMA StringsHeld ==
    ASSUME NEW I, Filings(I), Lossless(I), NEW p, NEW f \in FieldStats,
           FieldCounts(f, I, p), ~f.overflow
    PROVE  Support(f.strings) = Distinct(I, p)
<1>1. ASSUME NEW t \in Text
      PROVE  f.strings[t] = 0 <=> \A i \in I : ~HoldsString(i.body, p, t)
  <2> DEFINE S == {d \in Body : HoldsString(d, p, t)}
  <2>1. f.strings[t] = Count(I, S)
    BY DEF FieldCounts, Counted
  <2>2. Count(I, S) = 0 <=> \A i \in I : i.body \notin S
    <3> HIDE DEF S
    <3> QED
      BY CountedIfThere DEF Filings
  <2> QED
    BY <2>1, <2>2 DEF Filings
<1> QED
  BY <1>1 DEF Support, Distinct

\* The field of a path that both sides hold.
LEMMA FieldOfBoth ==
    ASSUME NEW I, Filings(I), NEW J, Filings(J), I \cap J = {}, NEW p,
           NEW f \in FieldStats, FieldCounts(f, I, p),
           NEW g \in FieldStats, FieldCounts(g, J, p)
    PROVE  FieldCounts(MergeStats(f, g), I \cup J, p)
<1> DEFINE h == MergeStats(f, g)
           both == Plus(f.strings, g.strings)
<1>1. IsFiniteSet(I) /\ IsFiniteSet(J)
  BY DEF Filings
<1>2. /\ f.seen \in Nat /\ f.present \in Nat /\ f.null \in Nat
      /\ f.kinds \in [Kind -> Nat] /\ f.strings \in Strings /\ f.overflow \in BOOLEAN
      /\ g.seen \in Nat /\ g.present \in Nat /\ g.null \in Nat
      /\ g.kinds \in [Kind -> Nat] /\ g.strings \in Strings /\ g.overflow \in BOOLEAN
  BY DEF FieldStats
<1>3. /\ h.seen = f.seen + g.seen /\ h.present = f.present + g.present
      /\ h.null = f.null + g.null
      /\ \A k \in Kind : h.kinds[k] = f.kinds[k] + g.kinds[k]
      /\ h.strings = Capped(both)
      /\ h.overflow = (f.overflow \/ g.overflow \/ TooMany(both))
  BY <1>2 DEF MergeStats, Plus
<1>4. Counted(h.seen, I \cup J, {d \in Body : CouldCarry(d, p)})
  BY <1>1, <1>2, <1>3, CountersAdd DEF FieldCounts
<1>5. Counted(h.present, I \cup J, {d \in Body : Carries(d, p)})
  BY <1>1, <1>2, <1>3, CountersAdd DEF FieldCounts
<1>6. Counted(h.null, I \cup J, {d \in Body : HoldsKind(d, p, "null")})
  BY <1>1, <1>2, <1>3, CountersAdd DEF FieldCounts
<1>7. ASSUME NEW k \in Kind
      PROVE  Counted(h.kinds[k], I \cup J, {d \in Body : HoldsKind(d, p, k)})
  <2> DEFINE S == {d \in Body : HoldsKind(d, p, k)}
  <2>1. Counted(f.kinds[k], I, S) /\ Counted(g.kinds[k], J, S)
    BY DEF FieldCounts
  <2>2. f.kinds[k] \in Nat /\ g.kinds[k] \in Nat
    BY <1>2
  <2> HIDE DEF S
  <2>3. Counted(f.kinds[k] + g.kinds[k], I \cup J, S)
    BY <1>1, <2>1, <2>2, CountersAdd
  <2> QED
    BY <1>3, <2>3 DEF S
<1>8. both \in Strings /\ Support(both) = Support(f.strings) \cup Support(g.strings)
  BY <1>2, PlusStrings
<1>9. ASSUME ~h.overflow, NEW t \in Text
      PROVE  Counted(h.strings[t], I \cup J, {d \in Body : HoldsString(d, p, t)})
  <2> DEFINE S == {d \in Body : HoldsString(d, p, t)}
  <2>1. ~f.overflow /\ ~g.overflow /\ h.strings = both
    BY <1>3, <1>8, <1>9, NothingCut
  <2>2. Counted(f.strings[t], I, S) /\ Counted(g.strings[t], J, S)
    BY <2>1 DEF FieldCounts
  <2>3. /\ f.strings[t] \in Nat /\ g.strings[t] \in Nat
        /\ h.strings[t] = f.strings[t] + g.strings[t]
    BY <1>2, <2>1 DEF Strings, Plus
  <2> HIDE DEF S
  <2>4. Counted(f.strings[t] + g.strings[t], I \cup J, S)
    BY <1>1, <2>2, <2>3, CountersAdd
  <2> QED
    BY <2>3, <2>4 DEF S
<1>10. ASSUME Lossless(I \cup J)
       PROVE  h.overflow <=> Cardinality(Distinct(I \cup J, p)) > MaxEnumCardinality
  <2> DEFINE A == Distinct(I, p)
             B == Distinct(J, p)
  <2>1. Distinct(I \cup J, p) = A \cup B
    BY FilingsAdd
  <2>2. Lossless(I) /\ Lossless(J)
    BY <1>10 DEF Lossless
  <2>3. /\ f.overflow <=> Cardinality(A) > MaxEnumCardinality
        /\ g.overflow <=> Cardinality(B) > MaxEnumCardinality
    BY <2>2 DEF FieldCounts
  <2>4. IsFiniteSet(A) /\ IsFiniteSet(B) /\ IsFiniteSet(A \cup B)
    <3>1. IsFiniteSet(A) /\ IsFiniteSet(B)
      BY DEF Filings
    <3> HIDE DEF A, B
    <3> QED
      BY <3>1, FS_Union
  <2>5. CASE f.overflow \/ g.overflow
    <3>1. A \in SUBSET (A \cup B) /\ B \in SUBSET (A \cup B)
      OBVIOUS
    <3> HIDE DEF A, B
    <3>2. /\ Cardinality(A) <= Cardinality(A \cup B) /\ Cardinality(B) <= Cardinality(A \cup B)
          /\ Cardinality(A) \in Nat /\ Cardinality(B) \in Nat /\ Cardinality(A \cup B) \in Nat
      BY <2>4, <3>1, FS_Subset, FS_CardinalityType
    <3>3. Cardinality(A \cup B) > MaxEnumCardinality
      BY <2>3, <2>5, <3>2, CardinalityAssumption
    <3> QED
      BY <1>3, <2>1, <2>5, <3>3
  <2>6. CASE ~f.overflow /\ ~g.overflow
    <3>1. Support(f.strings) = A /\ Support(g.strings) = B
      BY <2>2, <2>6, StringsHeld
    <3>2. Support(both) = A \cup B
      BY <1>8, <3>1
    <3> HIDE DEF A, B, both
    <3>3. Cardinality(Support(both)) = Cardinality(A \cup B)
      BY <3>2
    <3> QED
      BY <1>3, <2>1, <2>6, <3>3 DEF TooMany
  <2> QED
    BY <2>5, <2>6, <1>2
<1> HIDE DEF h
<1> QED
  BY <1>4, <1>5, <1>6, <1>7, <1>9, <1>10 DEF FieldCounts, h

\* What a schema says of some filings, typed and bounded.
Holds(s, I) == Filings(I) /\ IsSchema(s) /\ SetsCapped(s) /\ Counts(s, I)

\* A path no field is kept of was carried by none of the bodies, unless paths
\* were lost.
LEMMA AbsentPath ==
    ASSUME NEW s, NEW I, Holds(s, I), Lossless(I), NEW p, p \notin DOMAIN s.fields,
           NEW i \in I
    PROVE  ~Carries(i.body, p)
<1>1. Carries(i.body, p) => p \in Reached
  BY HeldFacts DEF Holds, Filings
<1> QED
  BY <1>1 DEF Holds, Counts

\* The opportunities read off a schema that lacks the path are those of the
\* filings.
LEMMA OpportunityCounted ==
    ASSUME NEW s, NEW I, Holds(s, I), NEW p \in Reached, p \notin DOMAIN s.fields
    PROVE  Counted(OpportunityCount(s, p), I, {d \in Body : CouldCarry(d, p)})
<1> DEFINE S == {d \in Body : CouldCarry(d, p)}
           q == Parent(p)
<1>1. IsFiniteSet(I) /\ \A i \in I : i.body \in Body
  BY DEF Holds, Filings
<1>2. CASE ~HasParent(p)
  <2>1. OpportunityCount(s, p) = Cardinality(I)
    BY <1>2 DEF OpportunityCount, Holds, Counts
  <2>2. \A i \in I : i.body \in S
    BY <1>1, <1>2 DEF CouldCarry, HasParent
  <2> HIDE DEF S
  <2>3. {i \in I : i.body \in S} = I
    BY <2>2
  <2>4. Count(I, S) = Cardinality(I)
    BY <2>3, Zenon DEF Count
  <2>5. Cardinality(I) \in Nat
    BY <1>1, FS_CardinalityType
  <2> QED
    BY <2>1, <2>4, <2>5 DEF Counted, S
<1>3. CASE HasParent(p) /\ q \in DOMAIN s.fields
  <2>1. Len(p) > 1
    <3>1. q \in Path
      BY <1>3 DEF Holds, IsSchema
    <3>2. ~(Len(p) > 1) => p = <<Elem>>
      BY <1>3 DEF HasParent
    <3>3. p = <<Elem>> => q = SubSeq(<<Elem>>, 1, 0)
      BY DEF Parent
    <3>4. SubSeq(<<Elem>>, 1, 0) = << >>
      OBVIOUS
    <3> QED
      BY <3>1, <3>2, <3>3, <3>4 DEF Path
  <2>2. q # OverflowPath
    BY ReachedPaths
  <2>3. FieldCounts(s.fields[q], I, q)
    BY <1>3, <2>2 DEF Holds, Counts
  <2>4. OpportunityCount(s, p) = s.fields[q].present
    BY <1>3 DEF OpportunityCount
  <2>5. S = {d \in Body : Carries(d, q)}
    BY <2>1 DEF CouldCarry
  <2> QED
    BY <2>3, <2>4, <2>5 DEF FieldCounts
<1>4. CASE HasParent(p) /\ q \notin DOMAIN s.fields
  <2>1. OpportunityCount(s, p) = 0
    BY <1>4 DEF OpportunityCount
  <2>2. ASSUME Lossless(I), NEW i \in I PROVE i.body \notin S
    <3>1. ~Carries(i.body, p) /\ ~Carries(i.body, q)
      BY <1>4, <2>2, AbsentPath
    <3> QED
      BY <1>4, <3>1 DEF CouldCarry
  <2> HIDE DEF S
  <2>3. Counted(0, I, S)
    BY <1>1, <2>2, NoneCounted
  <2> QED
    BY <2>1, <2>3 DEF S
<1> QED
  BY <1>2, <1>3, <1>4

\* The field of a path that one side holds.
LEMMA FieldOfOne ==
    ASSUME NEW I, Filings(I), NEW J, I \cap J = {}, NEW p \in Reached,
           NEW f \in FieldStats, FieldCounts(f, I, p),
           NEW s, Holds(s, J), p \notin DOMAIN s.fields
    PROVE  FieldCounts(WithAbsentSide(f, s, p), I \cup J, p)
<1> DEFINE h == WithAbsentSide(f, s, p)
           n == OpportunityCount(s, p)
<1>1. /\ IsFiniteSet(I) /\ IsFiniteSet(J) /\ Filings(J)
      /\ IsSchema(s) /\ n \in Nat
  BY OpportunityTyped DEF Filings, Holds
<1>2. /\ f.seen \in Nat /\ f.present \in Nat /\ f.null \in Nat
      /\ f.kinds \in [Kind -> Nat] /\ f.strings \in Strings /\ f.overflow \in BOOLEAN
  BY DEF FieldStats
<1>3. /\ h.seen = f.seen + n /\ h.present = f.present /\ h.null = f.null
      /\ h.kinds = f.kinds /\ h.strings = f.strings /\ h.overflow = f.overflow
  BY <1>1, WithAbsentSideTyped
<1> HIDE DEF h, n
<1>4. ASSUME NEW S, Lossless(J) => \A i \in J : i.body \notin S,
             NEW m \in Nat, Counted(m, I, S)
      PROVE  Counted(m, I \cup J, S)
  <2>1. Counted(0, J, S)
    BY <1>1, <1>4, NoneCounted
  <2>2. Counted(m + 0, I \cup J, S)
    BY <1>1, <1>4, <2>1, CountersAdd
  <2> QED
    BY <2>2
<1>5. ASSUME Lossless(J), NEW i \in J
      PROVE  /\ i.body \in Body /\ ~Carries(i.body, p)
             /\ \A k : ~HoldsKind(i.body, p, k)
             /\ \A t : ~HoldsString(i.body, p, t)
  <2>1. i.body \in Body /\ ~Carries(i.body, p)
    BY <1>1, <1>5, AbsentPath DEF Filings
  <2>2. ASSUME NEW k, HoldsKind(i.body, p, k) PROVE FALSE
    <3>1. <<p, k>> \in Path \X Kind
      BY <2>1, <2>2, HeldFacts, HeldAssumption
    <3> QED
      BY <2>1, <2>2, <3>1, HeldFacts
  <2> QED
    BY <2>1, <2>2, HeldFacts
<1>6. Counted(h.seen, I \cup J, {d \in Body : CouldCarry(d, p)})
  <2>1. Counted(n, J, {d \in Body : CouldCarry(d, p)})
    BY OpportunityCounted DEF n
  <2> QED
    BY <1>1, <1>2, <1>3, <2>1, CountersAdd DEF FieldCounts
<1>7. Counted(h.present, I \cup J, {d \in Body : Carries(d, p)})
  BY <1>2, <1>3, <1>4, <1>5 DEF FieldCounts
<1>8. Counted(h.null, I \cup J, {d \in Body : HoldsKind(d, p, "null")})
  BY <1>2, <1>3, <1>4, <1>5 DEF FieldCounts
<1>9. ASSUME NEW k \in Kind
      PROVE  Counted(h.kinds[k], I \cup J, {d \in Body : HoldsKind(d, p, k)})
  BY <1>2, <1>3, <1>4, <1>5 DEF FieldCounts
<1>10. ASSUME ~h.overflow, NEW t \in Text
       PROVE  Counted(h.strings[t], I \cup J, {d \in Body : HoldsString(d, p, t)})
  <2>1. f.strings[t] \in Nat
    BY <1>2 DEF Strings
  <2> QED
    BY <1>3, <1>4, <1>5, <1>10, <2>1 DEF FieldCounts
<1>11. ASSUME Lossless(I \cup J)
       PROVE  h.overflow <=> Cardinality(Distinct(I \cup J, p)) > MaxEnumCardinality
  <2>1. Lossless(I) /\ Lossless(J)
    BY <1>11 DEF Lossless
  <2>2. Distinct(J, p) = {}
    BY <1>5, <2>1 DEF Distinct
  <2>3. Distinct(I \cup J, p) = Distinct(I, p)
    BY <2>2 DEF Distinct
  <2>4. f.overflow <=> Cardinality(Distinct(I, p)) > MaxEnumCardinality
    BY <2>1 DEF FieldCounts
  <2> QED
    BY <1>3, <2>3, <2>4, Zenon
<1> QED
  BY <1>6, <1>7, <1>8, <1>9, <1>10, <1>11 DEF FieldCounts, h

\* Two schemas merged count what they counted apart: every field, with the
\* opportunities of the side without it, the marker of lost paths, and the
\* responses themselves (merge.go, Merge).
THEOREM MergeCounts ==
    ASSUME NEW a, NEW I, Holds(a, I), NEW b, NEW J, Holds(b, J), I \cap J = {}
    PROVE  Holds(Merge(a, b), I \cup J)
<1> DEFINE s == Merge(a, b)
           K == I \cup J
<1>1. /\ Filings(I) /\ IsSchema(a) /\ SetsCapped(a)
      /\ Filings(J) /\ IsSchema(b) /\ SetsCapped(b)
      /\ IsFiniteSet(I) /\ IsFiniteSet(J)
  BY DEF Holds, Filings
<1>2. Filings(K) /\ IsSchema(s) /\ SetsCapped(s)
  BY <1>1, FilingsAdd, MergeTyped, MergeKeepsSetsCapped
<1>3. /\ s.samples = a.samples + b.samples
      /\ DOMAIN s.fields = DOMAIN a.fields \cup DOMAIN b.fields
      /\ \A p \in DOMAIN s.fields : s.fields[p] = MergeField(a, b, p)
  BY MergeParts
<1> HIDE DEF s
<1>4. s.samples = Cardinality(K)
  <2>1. Cardinality(I) \in Nat /\ Cardinality(J) \in Nat
    BY <1>1, FS_CardinalityType
  <2>2. Cardinality(I \cup J) = Cardinality(I) + Cardinality(J) - Cardinality(I \cap J)
    BY <1>1, FS_Union
  <2>3. Cardinality(I \cap J) = 0
    BY FS_EmptySet, Zenon
  <2>4. a.samples = Cardinality(I) /\ b.samples = Cardinality(J)
    BY DEF Holds, Counts
  <2> QED
    BY <1>3, <2>1, <2>2, <2>3, <2>4
<1>5. CountsOrdered(s) /\ SeenIsOpportunity(s)
  BY <1>1, MergeKeepsCountsOrdered, MergeKeepsOpportunities DEF Holds, Counts, s
<1>6. ContainersKept(s)
  BY <1>3 DEF Holds, Counts, ContainersKept
<1>7. DOMAIN s.fields \subseteq Reached \cup {OverflowPath}
  BY <1>3 DEF Holds, Counts
<1>8. Lossless(K) <=> Lossless(I) /\ Lossless(J)
  BY DEF Lossless
<1>9. Lossless(K) => DOMAIN s.fields = {p \in Reached : \E i \in K : Carries(i.body, p)}
  <2> SUFFICES ASSUME Lossless(K)
               PROVE  DOMAIN s.fields = {p \in Reached : \E i \in K : Carries(i.body, p)}
    OBVIOUS
  <2>1. /\ DOMAIN a.fields = {p \in Reached : \E i \in I : Carries(i.body, p)}
        /\ DOMAIN b.fields = {p \in Reached : \E i \in J : Carries(i.body, p)}
    BY <1>8 DEF Holds, Counts
  <2> QED
    BY <1>3, <2>1
<1>10. OverflowPath \in DOMAIN s.fields <=> ~Lossless(K)
  BY <1>3, <1>8 DEF Holds, Counts
<1>11. ~Lossless(K) => s.fields[OverflowPath].present = Count(K, Losers)
  <2> SUFFICES ASSUME ~Lossless(K)
               PROVE  s.fields[OverflowPath].present = Count(K, Losers)
    OBVIOUS
  <2>1. /\ Count(I, Losers) \in Nat /\ Count(J, Losers) \in Nat
        /\ Count(K, Losers) = Count(I, Losers) + Count(J, Losers)
    BY <1>1, CountsAdd
  <2>2. /\ Lossless(I) => Count(I, Losers) = 0
        /\ Lossless(J) => Count(J, Losers) = 0
    BY <1>1, CountedIfThere DEF Lossless
  <2>3. /\ OverflowPath \in DOMAIN a.fields <=> ~Lossless(I)
        /\ OverflowPath \in DOMAIN b.fields <=> ~Lossless(J)
        /\ ~Lossless(I) => a.fields[OverflowPath].present = Count(I, Losers)
        /\ ~Lossless(J) => b.fields[OverflowPath].present = Count(J, Losers)
    BY DEF Holds, Counts
  <2>4. s.fields[OverflowPath] = MergeField(a, b, OverflowPath)
    BY <1>3, <1>10
  <2>5. CASE ~Lossless(I) /\ ~Lossless(J)
    BY <2>1, <2>3, <2>4, <2>5 DEF MergeField, MergeStats
  <2>6. CASE ~Lossless(I) /\ Lossless(J)
    <3>1. MergeField(a, b, OverflowPath) = WithAbsentSide(a.fields[OverflowPath], b, OverflowPath)
      BY <2>3, <2>6 DEF MergeField
    <3>2. WithAbsentSide(a.fields[OverflowPath], b, OverflowPath).present
            = a.fields[OverflowPath].present
      BY <1>1, <2>3, <2>6, FieldTyped, WithAbsentSideTyped
    <3> QED
      BY <2>1, <2>2, <2>3, <2>4, <2>6, <3>1, <3>2
  <2>7. CASE Lossless(I) /\ ~Lossless(J)
    <3>1. MergeField(a, b, OverflowPath) = WithAbsentSide(b.fields[OverflowPath], a, OverflowPath)
      BY <2>3, <2>7 DEF MergeField
    <3>2. WithAbsentSide(b.fields[OverflowPath], a, OverflowPath).present
            = b.fields[OverflowPath].present
      BY <1>1, <2>3, <2>7, FieldTyped, WithAbsentSideTyped
    <3> QED
      BY <2>1, <2>2, <2>3, <2>4, <2>7, <3>1, <3>2
  <2> QED
    BY <1>8, <2>5, <2>6, <2>7
<1>12. ASSUME NEW p \in DOMAIN s.fields \ {OverflowPath}
       PROVE  FieldCounts(s.fields[p], K, p)
  <2>1. p \in Reached /\ s.fields[p] = MergeField(a, b, p)
    BY <1>3, <1>7
  <2>2. /\ p \in DOMAIN a.fields =>
              a.fields[p] \in FieldStats /\ FieldCounts(a.fields[p], I, p)
        /\ p \in DOMAIN b.fields =>
              b.fields[p] \in FieldStats /\ FieldCounts(b.fields[p], J, p)
    BY <1>1, FieldTyped DEF Holds, Counts
  <2>3. CASE p \in DOMAIN a.fields /\ p \in DOMAIN b.fields
    BY <1>1, <2>1, <2>2, <2>3, FieldOfBoth DEF MergeField
  <2>4. CASE p \in DOMAIN a.fields /\ p \notin DOMAIN b.fields
    <3>1. FieldCounts(WithAbsentSide(a.fields[p], b, p), K, p)
      BY <1>1, <2>1, <2>2, <2>4, FieldOfOne
    <3> QED
      BY <2>1, <2>4, <3>1 DEF MergeField
  <2>5. CASE p \notin DOMAIN a.fields /\ p \in DOMAIN b.fields
    <3>1. FieldCounts(WithAbsentSide(b.fields[p], a, p), J \cup I, p)
      BY <1>1, <2>1, <2>2, <2>5, FieldOfOne
    <3>2. J \cup I = K
      OBVIOUS
    <3> QED
      BY <2>1, <2>5, <3>1, <3>2, Zenon DEF MergeField
  <2> QED
    BY <1>3, <2>3, <2>4, <2>5
<1> QED
  BY <1>2, <1>4, <1>5, <1>6, <1>7, <1>9, <1>10, <1>11, <1>12 DEF Holds, Counts, s
-----------------------------------------------------------------------------
(***************************************************************************)
(* The buckets, and the windows merged from them.                           *)
(***************************************************************************)

\* What a bucket or a window says of the filings it is about.
Tells(s, I) == IF I = {} THEN s = NoSchema ELSE Holds(s, I)

\* Every bucket counts what was filed in it.
Inv ==
    /\ filed \subseteq Filing /\ IsFiniteSet(filed)
    /\ \A i \in filed : i.nth <= Times(i.bucket, i.body)
    /\ DOMAIN bucket = Bucket
    /\ \A b \in Bucket : Tells(bucket[b], FiledIn({b}))

\* No schema is what a bucket without one is said to hold.
LEMMA SchemaThere ==
    ASSUME NEW s, IsSchema(s)
    PROVE  s # NoSchema
<1>1. "none" \in DOMAIN NoSchema
  BY DEF NoSchema
<1>2. "none" \notin DOMAIN s
  BY DEF IsSchema
<1> QED
  BY <1>1, <1>2

\* Nothing filed is nothing counted.
LEMMA NothingFiled ==
    Counts(NoSchema, {})
<1>1. Lossless({}) /\ Cardinality({}) = 0
  BY FS_EmptySet DEF Lossless
<1>2. NoSchema.samples = 0 /\ DOMAIN NoSchema.fields = {}
  BY DEF NoSchema
<1> QED
  BY <1>1, <1>2 DEF Counts, CountsOrdered, ContainersKept, SeenIsOpportunity

\* A schema filed on top of what is there counts both.
LEMMA FiledTells ==
    ASSUME NEW held, NEW I, Tells(held, I), NEW s, NEW J, Holds(s, J), I \cap J = {}
    PROVE  Holds(Filed(held, s), I \cup J)
<1>1. CASE I = {}
  <2>1. I \cup J = J /\ Filed(held, s) = s
    BY <1>1 DEF Tells, Filed
  <2> QED
    BY <2>1
<1>2. CASE I # {}
  <2>1. Holds(held, I)
    BY <1>2 DEF Tells
  <2>2. Filed(held, s) = Merge(held, s)
    BY <2>1, SchemaThere DEF Filed, Holds
  <2> QED
    BY <2>1, <2>2, MergeCounts
<1> QED
  BY <1>1, <1>2

\* What Extract makes of one body counts that body.
LEMMA OneHeld ==
    ASSUME NEW i \in Filing
    PROVE  Holds(SchemaOf[i.body], {i})
<1>1. i.body \in Body
  BY DEF Filing
<1>2. ASSUME NEW p PROVE IsFiniteSet(Distinct({i}, p))
  <2> DEFINE D == Distinct({i}, p)
             T == Document[i.body].texts
             f == [t \in D |-> <<p, t>>]
  <2>1. IsFiniteSet(T)
    BY <1>1, HeldAssumption
  <2>2. \A t \in D : <<p, t>> \in T
    BY <1>1, HeldFacts DEF Distinct
  <2>3. f \in [D -> T] /\ \A t, u \in D : f[t] = f[u] => t = u
    BY <2>2
  <2> HIDE DEF D, T, f
  <2>4. f \in Injection(D, T)
    BY <2>3, Fun_IsInj
  <2>5. IsFiniteSet(D)
    BY <2>1, <2>4, FS_Injection
  <2> QED
    BY <2>5 DEF D
<1>3. Filings({i})
  BY <1>1, <1>2, FS_Singleton DEF Filings
<1> QED
  BY <1>3, ExtractAssumption DEF Holds

\* Nothing is filed at first.
LEMMA InitInv ==
    Init => Inv
<1> SUFFICES ASSUME Init PROVE Inv
  OBVIOUS
<1>1. filed = {} /\ bucket = [b \in Bucket |-> NoSchema]
  BY DEF Init
<1>2. \A b \in Bucket : FiledIn({b}) = {}
  BY <1>1 DEF FiledIn
<1> QED
  BY <1>1, <1>2, FS_EmptySet DEF Inv, Tells

\* Filing one more body keeps every bucket's count of what was filed in it.
LEMMA AddInv ==
    ASSUME Inv, NEW b \in Bucket, NEW d \in Body, Add(b, d)
    PROVE  Inv'
<1> DEFINE n == Times(b, d)
           new == [bucket |-> b, body |-> d, nth |-> n + 1]
           same(x, c) == {i \in filed : i.bucket = x /\ i.body = c}
<1>1. /\ filed \subseteq Filing /\ IsFiniteSet(filed) /\ DOMAIN bucket = Bucket
      /\ \A i \in filed : i.nth <= Times(i.bucket, i.body)
      /\ \A x \in Bucket : Tells(bucket[x], FiledIn({x}))
  BY DEF Inv
<1>2. /\ Cardinality(filed) < MaxFiled
      /\ bucket' = [bucket EXCEPT ![b] = Filed(bucket[b], SchemaOf[d])]
      /\ filed' = filed \cup {new}
  BY DEF Add
<1>3. \A x, c : /\ Times(x, c) = Cardinality(same(x, c)) /\ IsFiniteSet(same(x, c))
                /\ Times(x, c) \in Nat /\ Times(x, c) <= Cardinality(filed)
  <2> TAKE x, c
  <2>1. same(x, c) \in SUBSET filed /\ Times(x, c) = Cardinality(same(x, c))
    BY DEF Times
  <2> HIDE DEF same
  <2> QED
    BY <1>1, <2>1, FS_Subset, FS_CardinalityType
<1>4. n \in Nat /\ n + 1 \in 1 .. MaxFiled
  <2>1. Cardinality(filed) \in Nat /\ MaxFiled \in Nat
    BY <1>1, FS_CardinalityType, WindowAssumption
  <2>2. n \in Nat /\ n <= Cardinality(filed)
    <3> HIDE DEF n, same
    <3>1. n = Times(b, d)
      BY DEF n
    <3> QED
      BY <1>3, <3>1
  <2> HIDE DEF n
  <2> QED
    BY <1>2, <2>1, <2>2
<1>5. new \in Filing
  <2> HIDE DEF n
  <2> QED
    BY <1>4 DEF Filing
<1>6. new \notin filed
  <2>1. new.bucket = b /\ new.body = d /\ new.nth = n + 1
    OBVIOUS
  <2> HIDE DEF n, new
  <2>2. ~(n + 1 <= n)
    BY <1>4
  <2> QED
    BY <1>1, <2>1, <2>2 DEF n
<1>7. filed' \subseteq Filing /\ IsFiniteSet(filed')
  <2> HIDE DEF new
  <2> QED
    BY <1>1, <1>2, <1>5, FS_AddElement
<1>8. ASSUME NEW i \in filed' PROVE i.nth <= Times(i.bucket, i.body)'
  <2>1. \A x, c : Times(x, c)' = Cardinality({j \in filed' : j.bucket = x /\ j.body = c})
    BY DEF Times
  <2>2. CASE i = new
    <3>1. {j \in filed' : j.bucket = b /\ j.body = d} = same(b, d) \cup {new}
      BY <1>2
    <3>2. new \notin same(b, d)
      BY <1>6
    <3>3. i.nth = n + 1 /\ i.bucket = b /\ i.body = d /\ n = Cardinality(same(b, d))
      BY <1>3, <2>2
    <3>4. IsFiniteSet(same(b, d))
      BY <1>3
    <3> HIDE DEF same, new, n
    <3>5. Cardinality(same(b, d) \cup {new}) = n + 1
      BY <3>2, <3>3, <3>4, FS_AddElement
    <3>6. Times(b, d)' = n + 1
      BY <2>1, <3>1, <3>5, Zenon
    <3>7. n + 1 <= n + 1
      BY <1>4
    <3> QED
      BY <3>3, <3>6, <3>7, Zenon
  <2>3. CASE i \in filed
    <3> DEFINE after == {j \in filed' : j.bucket = i.bucket /\ j.body = i.body}
    <3>1. same(i.bucket, i.body) \in SUBSET after /\ after \in SUBSET filed'
      BY <1>2
    <3>2. Times(i.bucket, i.body)' = Cardinality(after)
      BY <2>1
    <3>3. /\ Times(i.bucket, i.body) = Cardinality(same(i.bucket, i.body))
          /\ Times(i.bucket, i.body) \in Nat /\ i.nth <= Times(i.bucket, i.body)
      <4>1. i.nth <= Times(i.bucket, i.body)
        BY <1>1, <2>3
      <4> HIDE DEF same
      <4> QED
        BY <1>3, <4>1, Zenon
    <3>4. i.nth \in Nat
      BY <1>1, <2>3 DEF Filing
    <3> HIDE DEF same, after
    <3>5. IsFiniteSet(after)
      BY <1>7, <3>1, FS_Subset
    <3>6. Cardinality(same(i.bucket, i.body)) <= Cardinality(after) /\ Cardinality(after) \in Nat
      BY <3>1, <3>5, FS_Subset, FS_CardinalityType
    <3>7. i.nth <= Cardinality(after)
      BY <3>3, <3>4, <3>6
    <3> QED
      BY <3>2, <3>7, Zenon
  <2> QED
    BY <1>2, <2>2, <2>3
<1>9. ASSUME NEW x \in Bucket PROVE Tells(bucket[x], FiledIn({x}))'
  <2>1. FiledIn({x})' = {i \in filed' : i.bucket \in {x}}
    BY DEF FiledIn
  <2>2. CASE x = b
    <3>1. FiledIn({x})' = FiledIn({x}) \cup {new} /\ FiledIn({x}) \cap {new} = {}
      BY <1>2, <1>6, <2>1, <2>2 DEF FiledIn
    <3>2. bucket'[x] = Filed(bucket[x], SchemaOf[d])
      BY <1>1, <1>2, <2>2
    <3>3. new.body = d
      OBVIOUS
    <3> HIDE DEF new
    <3>4. Holds(SchemaOf[d], {new})
      BY <1>5, <3>3, OneHeld
    <3>5. Holds(bucket'[x], FiledIn({x}) \cup {new})
      <4>1. Tells(bucket[x], FiledIn({x}))
        BY <1>1
      <4>2. Holds(Filed(bucket[x], SchemaOf[d]), FiledIn({x}) \cup {new})
        BY <3>1, <3>4, <4>1, FiledTells
      <4> QED
        BY <3>2, <4>2
    <3>6. FiledIn({x}) \cup {new} # {}
      OBVIOUS
    <3>7. Tells(bucket'[x], FiledIn({x}) \cup {new})
      BY <3>5, <3>6 DEF Tells
    <3>8. Tells(bucket'[x], FiledIn({x})')
      BY <3>1, <3>7, Zenon
    <3> QED
      BY <3>8
  <2>3. CASE x # b
    <3>1. FiledIn({x})' = FiledIn({x})
      BY <1>2, <2>1, <2>3 DEF FiledIn
    <3>2. bucket'[x] = bucket[x]
      BY <1>1, <1>2, <2>3
    <3>3. Tells(bucket'[x], FiledIn({x})')
      BY <1>1, <3>1, <3>2, Zenon
    <3> QED
      BY <3>3
  <2> QED
    BY <2>2, <2>3
<1>10. DOMAIN bucket' = Bucket
  BY <1>1, <1>2
<1> QED
  BY <1>7, <1>8, <1>9, <1>10 DEF Inv

\* What holds at first and after each step holds all the way.
LEMMA Reaches ==
    ASSUME NEW n \in Nat, NEW S, 0 \in S, \A m \in 1 .. n : m - 1 \in S => m \in S
    PROVE  \A m \in 0 .. n : m \in S
<1> DEFINE Missed == {m \in 0 .. n : m \notin S}
<1> SUFFICES ASSUME Missed # {}
             PROVE  FALSE
  OBVIOUS
<1>1. PICK m \in Missed : \A l \in Missed : m <= l
  <2>1. Missed \subseteq Nat
    OBVIOUS
  <2> HIDE DEF Missed
  <2> QED
    BY <2>1, LeastNatural
<1>2. m \in 1 .. n /\ m - 1 \in 0 .. n /\ m - 1 \notin Missed
  BY <1>1
<1> QED
  BY <1>1, <1>2

\* One more bucket on top of what the buckets before it come to.
Onto(W, held, n) ==
    IF n \in W /\ bucket[n] # NoSchema THEN Filed(held, bucket[n]) ELSE held

\* f is what the buckets of W come to, up to the n-th.
Upto(W, n, f) ==
    f = [m \in 0 .. n |-> IF m = 0 THEN NoSchema ELSE Onto(W, f[m - 1], m)]

\* A window is merged bucket by bucket.
LEMMA WindowMade ==
    ASSUME NEW W
    PROVE  \E f : /\ Window(W) = f[Latest] /\ f[0] = NoSchema
                  /\ \A n \in 1 .. Latest : f[n] = Onto(W, f[n - 1], n)
<1> DEFINE Has == {n \in Nat : \E f : Upto(W, n, f)}
<1>1. 0 \in Has
  <2> DEFINE g == [m \in 0 .. 0 |-> NoSchema]
  <2>1. g = [m \in 0 .. 0 |-> IF m = 0 THEN NoSchema ELSE Onto(W, g[m - 1], m)]
    OBVIOUS
  <2>2. Upto(W, 0, g)
    BY <2>1 DEF Upto
  <2> QED
    BY <2>2
<1>2. ASSUME NEW n \in Nat, n \in Has
      PROVE  n + 1 \in Has
  <2>1. PICK f : Upto(W, n, f)
    BY <1>2
  <2> DEFINE g == [m \in 0 .. n + 1 |-> IF m = n + 1 THEN Onto(W, f[n], n + 1) ELSE f[m]]
  <2>2. \A m \in 0 .. n : f[m] = IF m = 0 THEN NoSchema ELSE Onto(W, f[m - 1], m)
    BY <2>1 DEF Upto
  <2>3. \A m \in 0 .. n : g[m] = f[m]
    OBVIOUS
  <2>4. g[n + 1] = Onto(W, g[n], n + 1)
    OBVIOUS
  <2>5. \A m \in 0 .. n + 1 : g[m] = IF m = 0 THEN NoSchema ELSE Onto(W, g[m - 1], m)
    <3> TAKE m \in 0 .. n + 1
    <3> HIDE DEF g
    <3>1. CASE m = n + 1
      <4>1. m - 1 = n /\ m # 0
        BY <3>1
      <4> QED
        BY <2>4, <3>1, <4>1
    <3>2. CASE m \in 0 .. n
      <4>1. m = 0 \/ m - 1 \in 0 .. n
        BY <3>2
      <4> QED
        BY <2>2, <2>3, <3>2, <4>1
    <3> QED
      BY <3>1, <3>2
  <2>6. g = [m \in 0 .. n + 1 |-> IF m = 0 THEN NoSchema ELSE Onto(W, g[m - 1], m)]
    <3>1. g = [m \in 0 .. n + 1 |-> g[m]]
      OBVIOUS
    <3> HIDE DEF g
    <3> QED
      BY <2>5, <3>1
  <2>7. Upto(W, n + 1, g)
    <3> HIDE DEF g
    <3> QED
      BY <2>6 DEF Upto
  <2> QED
    BY <2>7
<1>3. Latest \in Has
  <2> HIDE DEF Has
  <2>1. \A m \in 1 .. Latest : m - 1 \in Has => m \in Has
    <3> TAKE m \in 1 .. Latest
    <3>1. m - 1 \in Nat /\ (m - 1) + 1 = m
      BY WindowAssumption
    <3> QED
      BY <1>2, <3>1
  <2>2. \A m \in 0 .. Latest : m \in Has
    BY <1>1, <2>1, WindowAssumption, Reaches
  <2> QED
    BY <2>2, WindowAssumption
<1> DEFINE made == CHOOSE f : Upto(W, Latest, f)
<1>4. Upto(W, Latest, made)
  <2>1. \E f : Upto(W, Latest, f)
    BY <1>3
  <2> QED
    BY <2>1
<1>5. Window(W) = made[Latest]
  BY DEF Window, Upto, Onto
<1> HIDE DEF made
<1>6. /\ made[0] = NoSchema
      /\ \A n \in 1 .. Latest : made[n] = Onto(W, made[n - 1], n)
  BY <1>4, WindowAssumption DEF Upto
<1> QED
  BY <1>5, <1>6

\* A window counts what was filed in its buckets.
LEMMA WindowTells ==
    ASSUME Inv, NEW W, W \subseteq Bucket
    PROVE  Tells(Window(W), FiledIn(W))
<1> DEFINE Below(n) == {i \in filed : i.bucket \in W /\ i.bucket \in 1 .. n}
<1>1. PICK f : /\ Window(W) = f[Latest] /\ f[0] = NoSchema
               /\ \A n \in 1 .. Latest : f[n] = Onto(W, f[n - 1], n)
  BY WindowMade
<1> DEFINE Good == {n \in 0 .. Latest : Tells(f[n], Below(n))}
<1>2. W \subseteq 1 .. Latest /\ Latest \in Nat
  BY WindowAssumption DEF Bucket
<1>3. 0 \in Good
  <2>1. Below(0) = {}
    BY <1>2
  <2> QED
    BY <1>1, <1>2, <2>1 DEF Tells
<1>4. ASSUME NEW n \in 1 .. Latest, n - 1 \in Good
      PROVE  n \in Good
  <2>1. Tells(f[n - 1], Below(n - 1)) /\ f[n] = Onto(W, f[n - 1], n)
    BY <1>1, <1>4
  <2>2. CASE n \in W
    <3>1. Below(n) = Below(n - 1) \cup FiledIn({n}) /\ Below(n - 1) \cap FiledIn({n}) = {}
      BY <1>2, <2>2 DEF FiledIn
    <3>2. Tells(bucket[n], FiledIn({n}))
      BY <2>2 DEF Inv
    <3>3. CASE FiledIn({n}) = {}
      <4>1. bucket[n] = NoSchema
        BY <3>2, <3>3 DEF Tells
      <4>2. Below(n) = Below(n - 1) /\ f[n] = f[n - 1]
        BY <2>1, <3>1, <3>3, <4>1 DEF Onto
      <4>3. Tells(f[n], Below(n))
        BY <2>1, <4>2, Zenon
      <4> QED
        BY <4>3
    <3>4. CASE FiledIn({n}) # {}
      <4>1. Holds(bucket[n], FiledIn({n}))
        BY <3>2, <3>4 DEF Tells
      <4>2. bucket[n] # NoSchema
        BY <4>1, SchemaThere DEF Holds
      <4>3. f[n] = Filed(f[n - 1], bucket[n])
        BY <2>1, <2>2, <4>2 DEF Onto
      <4> HIDE DEF Below
      <4>4. Holds(Filed(f[n - 1], bucket[n]), Below(n - 1) \cup FiledIn({n}))
        BY <2>1, <3>1, <4>1, FiledTells
      <4>5. Below(n) # {} /\ Holds(f[n], Below(n))
        BY <3>1, <3>4, <4>3, <4>4, Zenon
      <4>6. Tells(f[n], Below(n))
        BY <4>5 DEF Tells
      <4> QED
        BY <4>6
    <3> QED
      BY <3>3, <3>4
  <2>3. CASE n \notin W
    <3>1. Below(n) = Below(n - 1)
      BY <1>2, <2>3
    <3>2. f[n] = f[n - 1]
      BY <2>1, <2>3 DEF Onto
    <3>3. Tells(f[n], Below(n))
      BY <2>1, <3>1, <3>2, Zenon
    <3> QED
      BY <3>3
  <2> QED
    BY <2>2, <2>3
<1>5. Latest \in Good
  <2> HIDE DEF Good
  <2>1. \A n \in 0 .. Latest : n \in Good
    BY <1>2, <1>3, <1>4, Reaches
  <2> QED
    BY <1>2, <2>1
<1>6. Below(Latest) = FiledIn(W)
  BY <1>2 DEF FiledIn
<1>7. Tells(f[Latest], Below(Latest))
  BY <1>5
<1> QED
  BY <1>1, <1>6, <1>7, Zenon

\* The invariant makes both windows count what was filed in them.
LEMMA InvCounts ==
    ASSUME Inv
    PROVE  CountsResponses
<1>1. \A W : Tells(Window(W), FiledIn(W)) => Counts(Window(W), FiledIn(W))
  BY NothingFiled DEF Tells, Holds
<1> QED
  BY <1>1, WindowTells DEF CountsResponses, Bucket

\* Every step is of Add or none.
LEMMA NextInv ==
    ASSUME Inv, [Next]_vars
    PROVE  Inv'
<1>1. CASE Next
  BY <1>1, AddInv DEF Next
<1>2. CASE UNCHANGED vars
  BY <1>2 DEF vars, Inv, Times, FiledIn
<1> QED
  BY <1>1, <1>2

\* Every bucket holds a schema, with value sets within the cap, and what is
\* filed are filings (store.go, Add; merge.go).
THEOREM TypeCorrect == Spec => []TypeOK
<1>1. Inv => TypeOK
  BY DEF Inv, TypeOK, Tells, Holds
<1> QED
  BY <1>1, InitInv, NextInv, PTL DEF Spec

\* A window's schema counts responses: each counter is the number of bodies
\* filed in the window's buckets that hold what it counts, wherever and in
\* whatever order they were filed (store.go, Window; merge.go, Merge).
THEOREM CountsResponsesHolds == Spec => []CountsResponses
BY InitInv, NextInv, InvCounts, PTL DEF Spec
-----------------------------------------------------------------------------
(***************************************************************************)
(* The hypotheses put forward: finitely many, each of counts.               *)
(***************************************************************************)

\* Products of counts, and what may be cancelled from them.
LEMMA Products ==
    ASSUME NEW x \in Nat, NEW y \in Nat
    PROVE  x * y \in Nat /\ (x # 0 /\ y # 0 => x * y # 0)
OBVIOUS

LEMMA Scaled ==
    ASSUME NEW x \in Nat, NEW y \in Nat, NEW z \in Nat, x <= y
    PROVE  x * z <= y * z /\ z * x <= z * y
OBVIOUS

LEMMA Cancelled ==
    ASSUME NEW x \in Int, NEW y \in Int, NEW z \in Nat \ {0}, x * z <= y * z
    PROVE  x <= y
OBVIOUS

\* A hypothesis about a path: two rates, each a pair of counts.
IsHypothesis(h) ==
    /\ h = Hypothesis(h.path, h.kind, h.baseX, h.baseN, h.currX, h.currN)
    /\ h.baseX \in Nat /\ h.baseN \in Nat /\ h.currX \in Nat /\ h.currN \in Nat

\* A hypothesis of counts is one.
LEMMA HypothesisMade ==
    ASSUME NEW p, NEW kind, NEW baseX \in Nat, NEW baseN \in Nat,
           NEW currX \in Nat, NEW currN \in Nat
    PROVE  LET h == Hypothesis(p, kind, baseX, baseN, currX, currN)
           IN /\ IsHypothesis(h) /\ h.path = p /\ h.kind = kind
              /\ h.baseX = baseX /\ h.baseN = baseN /\ h.currX = currX /\ h.currN = currN
BY DEF Hypothesis, IsHypothesis

\* A field that counts in order has natural shares.
LEMMA FieldShares ==
    ASSUME NEW s, IsSchema(s), CountsOrdered(s), NEW p \in DOMAIN s.fields
    PROVE  /\ s.fields[p].seen \in Nat /\ s.fields[p].present \in Nat
           /\ s.fields[p].null \in Nat
           /\ s.fields[p].present <= s.fields[p].seen
           /\ s.fields[p].null <= s.fields[p].present
           /\ s.fields[p].present - s.fields[p].null \in Nat
           /\ \A k \in Kind : s.fields[p].kinds[k] \in Nat
           /\ \A t \in Text : s.fields[p].strings[t] \in Nat
<1>1. s.fields[p] \in FieldStats
  BY FieldTyped
<1>2. /\ s.fields[p].seen \in Nat /\ s.fields[p].present \in Nat /\ s.fields[p].null \in Nat
      /\ \A k \in Kind : s.fields[p].kinds[k] \in Nat
      /\ \A t \in Text : s.fields[p].strings[t] \in Nat
  BY <1>1 DEF FieldStats, Strings
<1> QED
  BY <1>2 DEF CountsOrdered

\* A set of no two elements is finite.
LEMMA AtMostOne ==
    ASSUME NEW S, \A x, y \in S : x = y
    PROVE  IsFiniteSet(S)
<1>1. S = {} \/ \E x : S = {x}
  OBVIOUS
<1> QED
  BY <1>1, FS_EmptySet, FS_Singleton

\* What is put forward about a path.
LEMMA HypothesesTyped ==
    ASSUME NEW base, IsSchema(base), CountsOrdered(base),
           NEW curr, IsSchema(curr), CountsOrdered(curr),
           NEW p \in DOMAIN base.fields \cup DOMAIN curr.fields
    PROVE  /\ IsFiniteSet(HypothesesFor(p, base, curr))
           /\ \A h \in HypothesesFor(p, base, curr) : IsHypothesis(h) /\ h.path = p
<1> DEFINE fb == base.fields[p]
           fc == curr.fields[p]
<1>1. \A q : /\ Opportunity(base, q) \in Nat /\ Opportunity(curr, q) \in Nat
  <2>1. base.samples \in Nat /\ curr.samples \in Nat
    BY DEF IsSchema
  <2> QED
    BY <2>1, OpportunityTyped DEF Opportunity
<1>2. CASE p \notin DOMAIN base.fields
  <2>1. fc.present \in Nat /\ fc.seen \in Nat
    BY <1>2, FieldShares
  <2> HIDE DEF fc
  <2>2. HypothesesFor(p, base, curr)
          = {Hypothesis(p, "FieldAdded", 0, Opportunity(base, p), fc.present, fc.seen)}
    BY <1>2 DEF HypothesesFor, fc
  <2> DEFINE only == Hypothesis(p, "FieldAdded", 0, Opportunity(base, p), fc.present, fc.seen)
  <2>3. IsHypothesis(only) /\ only.path = p
    BY <1>1, <2>1, HypothesisMade
  <2> HIDE DEF only
  <2> QED
    BY <2>2, <2>3, AtMostOne DEF only
<1>3. CASE p \in DOMAIN base.fields /\ p \notin DOMAIN curr.fields
  <2>1. fb.present \in Nat /\ fb.seen \in Nat
    BY <1>3, FieldShares
  <2> HIDE DEF fb
  <2>2. HypothesesFor(p, base, curr)
          = {Hypothesis(p, "FieldRemoved", fb.present, fb.seen, 0, Opportunity(curr, p))}
    BY <1>3 DEF HypothesesFor, fb
  <2> DEFINE only == Hypothesis(p, "FieldRemoved", fb.present, fb.seen, 0, Opportunity(curr, p))
  <2>3. IsHypothesis(only) /\ only.path = p
    BY <1>1, <2>1, HypothesisMade
  <2> HIDE DEF only
  <2> QED
    BY <2>2, <2>3, AtMostOne DEF only
<1>4. CASE p \in DOMAIN base.fields /\ p \in DOMAIN curr.fields
  <2>1. /\ fb.seen \in Nat /\ fb.present \in Nat /\ fb.null \in Nat
        /\ fb.present - fb.null \in Nat /\ \A k \in Kind : fb.kinds[k] \in Nat
        /\ fc.seen \in Nat /\ fc.present \in Nat /\ fc.null \in Nat
        /\ fc.present - fc.null \in Nat /\ \A k \in Kind : fc.kinds[k] \in Nat
        /\ \A t \in Text : fc.strings[t] \in Nat
    BY <1>4, FieldShares
  <2>2. HypothesesFor(p, base, curr)
          = PresenceHypotheses(p, fb, fc) \cup NullHypotheses(p, fb, fc)
              \cup TypeHypotheses(p, fb, fc) \cup EnumHypotheses(p, fb, fc)
    BY <1>4 DEF HypothesesFor
  <2> HIDE DEF fb, fc
  <2>3. /\ IsFiniteSet(PresenceHypotheses(p, fb, fc))
        /\ \A h \in PresenceHypotheses(p, fb, fc) : IsHypothesis(h) /\ h.path = p
    <3>1. \A x, y \in PresenceHypotheses(p, fb, fc) : x = y
      BY DEF PresenceHypotheses
    <3> QED
      BY <2>1, <3>1, AtMostOne DEF PresenceHypotheses, IsHypothesis, Hypothesis
  <2>4. /\ IsFiniteSet(NullHypotheses(p, fb, fc))
        /\ \A h \in NullHypotheses(p, fb, fc) : IsHypothesis(h) /\ h.path = p
    <3>1. \A x, y \in NullHypotheses(p, fb, fc) : x = y
      BY DEF NullHypotheses
    <3> QED
      BY <2>1, <3>1, AtMostOne DEF NullHypotheses, IsHypothesis, Hypothesis
  <2>5. /\ IsFiniteSet(TypeHypotheses(p, fb, fc))
        /\ \A h \in TypeHypotheses(p, fb, fc) : IsHypothesis(h) /\ h.path = p
    <3> DEFINE baseN == fb.present - fb.null
               currN == fc.present - fc.null
               kinds == {i \in 2 .. 7 : fb.kinds[KindOrder[i]] + fc.kinds[KindOrder[i]] > 0}
               Of(i) == Hypothesis(p, "TypeChanged",
                                   fb.kinds[KindOrder[i]], baseN, fc.kinds[KindOrder[i]], currN)
               Moved(i) == Size(Difference(Of(i)).num)
               best == {i \in kinds : /\ Moved(i) > 0
                                      /\ \A j \in kinds : Moved(j) <= Moved(i)
                                      /\ \A j \in kinds : j < i => Moved(j) < Moved(i)}
    <3>1. TypeHypotheses(p, fb, fc) \subseteq {Of(i) : i \in best}
      BY DEF TypeHypotheses
    <3>2. \A i \in 2 .. 7 : KindOrder[i] \in Kind
      BY DEF KindOrder, Kind
    <3>3. \A i \in kinds : /\ fb.kinds[KindOrder[i]] \in Nat /\ fc.kinds[KindOrder[i]] \in Nat
                           /\ i \in Nat
      BY <2>1, <3>2
    <3>4. \A i \in kinds : IsHypothesis(Of(i)) /\ Of(i).path = p
      <4> HIDE DEF kinds
      <4> QED
        BY <2>1, <3>3 DEF IsHypothesis, Hypothesis
    <3>5. \A h : IsHypothesis(h) => Size(Difference(h).num) \in Int
      BY DEF IsHypothesis, Difference, Size
    <3>6. \A i \in kinds : Moved(i) \in Int
      <4> HIDE DEF Of, kinds
      <4> QED
        BY <3>4, <3>5
    <3>7. \A i, j \in best : i = j
      <4> HIDE DEF kinds, Moved
      <4> TAKE i, j \in best
      <4>1. i \in Nat /\ j \in Nat /\ Moved(i) \in Int /\ Moved(j) \in Int
        BY <3>3, <3>6
      <4>2. /\ Moved(j) <= Moved(i) /\ Moved(i) <= Moved(j)
            /\ j < i => Moved(j) < Moved(i)
            /\ i < j => Moved(i) < Moved(j)
        OBVIOUS
      <4> QED
        BY <4>1, <4>2
    <3>8. \A x, y \in TypeHypotheses(p, fb, fc) : x = y
      <4> HIDE DEF best, Of
      <4> QED
        BY <3>1, <3>7
    <3>9. \A i \in best : i \in kinds
      OBVIOUS
    <3> HIDE DEF best, Of, kinds
    <3> QED
      BY <3>1, <3>4, <3>8, <3>9, AtMostOne
  <2>6. /\ IsFiniteSet(EnumHypotheses(p, fb, fc))
        /\ \A h \in EnumHypotheses(p, fb, fc) : IsHypothesis(h) /\ h.path = p
    <3> DEFINE new == Support(fc.strings) \ Support(fb.strings)
               best == {v \in new :
                          /\ \A w \in new : fc.strings[w] <= fc.strings[v]
                          /\ \A w \in new : w < v => fc.strings[w] < fc.strings[v]}
               Of(v) == Hypothesis(p, "EnumValueAdded", 0, fb.present, fc.strings[v], fc.present)
    <3>1. EnumHypotheses(p, fb, fc) \subseteq {Of(v) : v \in best}
      BY DEF EnumHypotheses
    <3>2. \A v \in new : v \in Text /\ v \in Nat /\ fc.strings[v] \in Nat
      BY <2>1, TextAssumption DEF Support
    <3>3. \A v, w \in best : v = w
      <4> HIDE DEF new
      <4> TAKE v, w \in best
      <4>1. v \in Nat /\ w \in Nat /\ fc.strings[v] \in Nat /\ fc.strings[w] \in Nat
        BY <3>2
      <4>2. /\ fc.strings[w] <= fc.strings[v] /\ fc.strings[v] <= fc.strings[w]
            /\ w < v => fc.strings[w] < fc.strings[v]
            /\ v < w => fc.strings[v] < fc.strings[w]
        OBVIOUS
      <4> QED
        BY <4>1, <4>2
    <3>4. \A v \in best : IsHypothesis(Of(v)) /\ Of(v).path = p
      <4>1. \A v \in best : fc.strings[v] \in Nat
        BY <3>2
      <4> HIDE DEF best
      <4> QED
        BY <2>1, <4>1 DEF IsHypothesis, Hypothesis
    <3> HIDE DEF best, Of
    <3>5. \A x, y \in EnumHypotheses(p, fb, fc) : x = y
      BY <3>1, <3>3
    <3> QED
      BY <3>1, <3>4, <3>5, AtMostOne
  <2>7. IsFiniteSet(HypothesesFor(p, base, curr))
    BY <2>2, <2>3, <2>4, <2>5, <2>6, FS_Union
  <2> QED
    BY <2>2, <2>3, <2>4, <2>5, <2>6, <2>7
<1> QED
  BY <1>2, <1>3, <1>4

\* What is tested.
LEMMA TestedTyped ==
    ASSUME NEW base, IsSchema(base), CountsOrdered(base),
           NEW curr, IsSchema(curr), CountsOrdered(curr)
    PROVE  /\ IsFiniteSet(Tested(base, curr))
           /\ \A h \in Tested(base, curr) :
                 /\ IsHypothesis(h)
                 /\ h.path \in DOMAIN base.fields \cup DOMAIN curr.fields
                 /\ h \in HypothesesFor(h.path, base, curr)
<1> DEFINE P == DOMAIN base.fields \cup DOMAIN curr.fields
           All == {HypothesesFor(p, base, curr) : p \in P}
<1>1. IsFiniteSet(P)
  BY FS_Union DEF IsSchema
<1>2. \A p \in P : /\ IsFiniteSet(HypothesesFor(p, base, curr))
                   /\ \A h \in HypothesesFor(p, base, curr) : IsHypothesis(h) /\ h.path = p
  BY HypothesesTyped
<1>3. IsFiniteSet(All)
  <2> DEFINE f == [p \in P |-> HypothesesFor(p, base, curr)]
  <2>1. f \in [P -> All] /\ \A S \in All : \E p \in P : f[p] = S
    OBVIOUS
  <2> HIDE DEF P, All, f
  <2>2. f \in Surjection(P, All)
    BY <2>1, Fun_IsSurj
  <2> QED
    BY <1>1, <2>2, FS_Surjection
<1>4. IsFiniteSet(UNION All)
  <2>1. \A S \in All : IsFiniteSet(S)
    BY <1>2
  <2> HIDE DEF All
  <2> QED
    BY <1>3, <2>1, FS_UNION
<1>5. Tested(base, curr) \in SUBSET (UNION All)
  BY DEF Tested
<1>6. IsFiniteSet(Tested(base, curr))
  <2> HIDE DEF All
  <2> QED
    BY <1>4, <1>5, FS_Subset
<1>7. \A h \in UNION All : \E p \in P : h \in HypothesesFor(p, base, curr)
  OBVIOUS
<1> HIDE DEF P, All
<1>8. \A h \in Tested(base, curr) :
          IsHypothesis(h) /\ h.path \in P /\ h \in HypothesesFor(h.path, base, curr)
  BY <1>2, <1>5, <1>7
<1> QED
  BY <1>6, <1>8 DEF P
-----------------------------------------------------------------------------
(***************************************************************************)
(* Ranking the hypotheses, and which of them survive.                       *)
(***************************************************************************)

\* A p-value that is a number is told by a fraction.
LEMMA StatisticTyped ==
    ASSUME NEW h, IsHypothesis(h), ~Undefined(h)
    PROVE  Statistic(h).num \in Nat /\ Statistic(h).den \in Nat \ {0}
<1> DEFINE n == h.baseN + h.currN
           x == h.baseX + h.currX
           d == h.currX * h.baseN - h.baseX * h.currN
<1>1. h.baseX \in Nat /\ h.baseN \in Nat /\ h.currX \in Nat /\ h.currN \in Nat
  BY DEF IsHypothesis
<1>2. n \in Nat /\ x \in Nat /\ d \in Int
  BY <1>1
<1>3. CASE h.baseN = 0 \/ h.currN = 0 \/ x = 0 \/ x = n
  BY <1>3 DEF Statistic
<1>4. CASE ~(h.baseN = 0 \/ h.currN = 0 \/ x = 0 \/ x = n)
  <2>1. Statistic(h).num = d * d * n /\ Statistic(h).den = h.baseN * h.currN * x * (n - x)
    BY <1>4 DEF Statistic
  <2>2. x <= n
    BY <1>1, <1>4 DEF Undefined
  <2> HIDE DEF n, x, d
  <2>3. n - x \in Nat /\ n - x # 0
    BY <1>2, <1>4, <2>2
  <2>4. d * d \in Nat
    BY <1>2
  <2>5. d * d * n \in Nat
    BY <1>2, <2>4
  <2>6. h.baseN * h.currN \in Nat /\ h.baseN * h.currN # 0
    BY <1>1, <1>4, Products
  <2>7. h.baseN * h.currN * x \in Nat /\ h.baseN * h.currN * x # 0
    BY <1>2, <1>4, <2>6, Products
  <2>8. h.baseN * h.currN * x * (n - x) \in Nat /\ h.baseN * h.currN * x * (n - x) # 0
    BY <2>3, <2>7, Products
  <2> QED
    BY <2>1, <2>5, <2>8
<1> QED
  BY <1>3, <1>4

\* Fractions compare transitively.
LEMMA FractionsOrdered ==
    ASSUME NEW a \in Nat, NEW b \in Nat \ {0}, NEW c \in Nat, NEW d \in Nat \ {0},
           NEW e \in Nat, NEW f \in Nat \ {0}, e * d <= c * f, c * b <= a * d
    PROVE  e * b <= a * f
<1>1. e * d \in Nat /\ c * f \in Nat /\ c * b \in Nat /\ a * d \in Nat /\ e * b \in Nat /\ a * f \in Nat
  BY Products
<1>2. (e * d) * b <= (c * f) * b
  BY <1>1, Scaled
<1>3. (c * b) * f <= (a * d) * f
  BY <1>1, Scaled
<1>4. /\ (e * d) * b = (e * b) * d /\ (c * f) * b = (c * b) * f
      /\ (a * d) * f = (a * f) * d
  OBVIOUS
<1>5. (e * b) * d <= (a * f) * d
  <2>1. (e * b) * d \in Nat /\ (c * b) * f \in Nat /\ (a * f) * d \in Nat
    BY <1>1, Products
  <2> QED
    BY <1>2, <1>3, <1>4, <2>1
<1> QED
  BY <1>1, <1>5, Cancelled

\* If g does not come before h, nor h before k, then g does not before k.
LEMMA NotBefore ==
    ASSUME NEW g, IsHypothesis(g), ~Undefined(g), NEW h, IsHypothesis(h), ~Undefined(h),
           NEW k, IsHypothesis(k), ~Undefined(k), ~Before(g, h), ~Before(h, k)
    PROVE  ~Before(g, k)
<1> DEFINE G == Statistic(g)
           H == Statistic(h)
           K == Statistic(k)
<1>1. /\ G.num \in Nat /\ G.den \in Nat \ {0} /\ H.num \in Nat /\ H.den \in Nat \ {0}
      /\ K.num \in Nat /\ K.den \in Nat \ {0}
  BY StatisticTyped
<1>2. /\ ~(G.num * H.den > H.num * G.den) /\ ~(H.num * K.den > K.num * H.den)
      /\ Before(g, k) <=> G.num * K.den > K.num * G.den
  BY DEF Before
<1> HIDE DEF G, H, K
<1>3. /\ G.num * H.den \in Nat /\ H.num * G.den \in Nat /\ H.num * K.den \in Nat
      /\ K.num * H.den \in Nat /\ G.num * K.den \in Nat /\ K.num * G.den \in Nat
  BY <1>1, Products
<1>4. G.num * H.den <= H.num * G.den /\ H.num * K.den <= K.num * H.den
  BY <1>2, <1>3
<1>5. G.num * K.den <= K.num * G.den
  BY <1>1, <1>4, FractionsOrdered
<1> QED
  BY <1>2, <1>3, <1>5

\* Of finitely many hypotheses one is to be ranked first.
LEMMA ForemostThere ==
    ASSUME NEW S, IsFiniteSet(S), S # {}, \A h \in S : IsHypothesis(h)
    PROVE  /\ Foremost(S) \in S
           /\ \A g \in S : Undefined(g) \/ Undefined(Foremost(S)) \/ ~Before(g, Foremost(S))
<1> DEFINE First(h) == \A g \in S : Undefined(g) \/ Undefined(h) \/ ~Before(g, h)
<1>1. \E h \in S : First(h)
  <2>1. CASE \E h \in S : Undefined(h)
    BY <2>1
  <2>2. CASE \A h \in S : ~Undefined(h)
    <3> DEFINE Above(h) == {g \in S : Before(g, h)}
               Sizes == {Cardinality(Above(h)) : h \in S}
    <3>1. \A h \in S : /\ Above(h) \in SUBSET S /\ IsFiniteSet(Above(h))
                       /\ Cardinality(Above(h)) \in Nat
      <4> TAKE h \in S
      <4>1. Above(h) \in SUBSET S
        OBVIOUS
      <4> HIDE DEF Above
      <4> QED
        BY <4>1, FS_Subset, FS_CardinalityType
    <3>2. PICK n \in Sizes : \A m \in Sizes : n <= m
      <4>1. Sizes \subseteq Nat /\ Sizes # {}
        BY <3>1
      <4> HIDE DEF Sizes
      <4> QED
        BY <4>1, LeastNatural
    <3>3. PICK h \in S : n = Cardinality(Above(h))
      OBVIOUS
    <3>4. ASSUME NEW g \in S, Before(g, h) PROVE FALSE
      <4>1. Above(g) \in SUBSET Above(h)
        <5> SUFFICES ASSUME NEW k \in S, Before(k, g) PROVE Before(k, h)
          OBVIOUS
        <5>1. ~Before(h, g)
          <6>1. /\ Statistic(g).num \in Nat /\ Statistic(g).den \in Nat
                /\ Statistic(h).num \in Nat /\ Statistic(h).den \in Nat
            BY <2>2, StatisticTyped
          <6>2. Statistic(g).num * Statistic(h).den \in Nat /\ Statistic(h).num * Statistic(g).den \in Nat
            BY <6>1, Products
          <6> QED
            BY <3>4, <6>2 DEF Before
        <5>2. ~Before(k, h) => ~Before(k, g)
          BY <2>2, <5>1, NotBefore
        <5> QED
          BY <5>2
      <4>2. g \in Above(h) /\ g \notin Above(g)
        <5>1. Statistic(g).num \in Nat /\ Statistic(g).den \in Nat
          BY <2>2, StatisticTyped
        <5>2. Statistic(g).num * Statistic(g).den \in Nat
          BY <5>1, Products
        <5>3. ~Before(g, g)
          BY <5>2 DEF Before
        <5> QED
          BY <3>4, <5>3
      <4>3. Cardinality(Above(g)) \in Sizes
        OBVIOUS
      <4>4. n <= Cardinality(Above(g)) /\ n \in Nat /\ Cardinality(Above(g)) \in Nat
        BY <3>1, <3>2, <3>3, <4>3
      <4> HIDE DEF Above, Sizes
      <4>5. Cardinality(Above(g)) <= Cardinality(Above(h))
        BY <3>1, <4>1, FS_Subset
      <4>6. Cardinality(Above(g)) = Cardinality(Above(h))
        BY <3>3, <4>4, <4>5
      <4>7. Above(g) = Above(h)
        BY <3>1, <4>1, <4>6, FS_Subset
      <4> QED
        BY <4>2, <4>7
    <3> QED
      BY <3>4
  <2> QED
    BY <2>1, <2>2
<1>2. Foremost(S) = CHOOSE h \in S : First(h)
  BY DEF Foremost
<1> HIDE DEF First
<1>3. Foremost(S) \in S /\ First(Foremost(S))
  BY <1>1, <1>2
<1> QED
  BY <1>3 DEF First

\* f is the ranking of T, up to n.
RanksTo(T, n, f) ==
    f = [m \in 0 .. n |->
           IF m = 0 THEN << >>
           ELSE Append(f[m - 1], Foremost(T \ {f[m - 1][i] : i \in 1 .. m - 1}))]

\* Ranked is made step by step.
LEMMA RankedMade ==
    ASSUME NEW T, Cardinality(T) \in Nat
    PROVE  \E f : /\ Ranked(T) = f[Cardinality(T)] /\ f[0] = << >>
                  /\ \A n \in 1 .. Cardinality(T) :
                        f[n] = Append(f[n - 1], Foremost(T \ {f[n - 1][i] : i \in 1 .. n - 1}))
<1> DEFINE M == Cardinality(T)
           Next1(above, n) == Append(above, Foremost(T \ {above[i] : i \in 1 .. n - 1}))
           Has == {n \in Nat : \E f : RanksTo(T, n, f)}
<1>1. 0 \in Has
  <2> DEFINE g == [m \in 0 .. 0 |-> << >>]
  <2>1. g = [m \in 0 .. 0 |-> IF m = 0 THEN << >> ELSE Next1(g[m - 1], m)]
    <3> HIDE DEF Next1
    <3> QED
      OBVIOUS
  <2>2. RanksTo(T, 0, g)
    BY <2>1 DEF RanksTo
  <2> QED
    BY <2>2
<1>2. ASSUME NEW n \in Nat, n \in Has
      PROVE  n + 1 \in Has
  <2>1. PICK f : RanksTo(T, n, f)
    BY <1>2
  <2>2. f = [m \in 0 .. n |-> IF m = 0 THEN << >> ELSE Next1(f[m - 1], m)]
    BY <2>1 DEF RanksTo
  <2> DEFINE g == [m \in 0 .. n + 1 |-> IF m = n + 1 THEN Next1(f[n], n + 1) ELSE f[m]]
  <2> HIDE DEF Next1
  <2>3. \A m \in 0 .. n : f[m] = IF m = 0 THEN << >> ELSE Next1(f[m - 1], m)
    BY <2>2
  <2>4. \A m \in 0 .. n : g[m] = f[m]
    OBVIOUS
  <2>5. g[n + 1] = Next1(g[n], n + 1)
    OBVIOUS
  <2>6. g = [m \in 0 .. n + 1 |-> g[m]]
    OBVIOUS
  <2> HIDE DEF g
  <2>7. \A m \in 0 .. n + 1 : g[m] = IF m = 0 THEN << >> ELSE Next1(g[m - 1], m)
    <3> TAKE m \in 0 .. n + 1
    <3>1. CASE m = n + 1
      <4>1. m - 1 = n /\ m # 0
        BY <3>1
      <4> QED
        BY <2>5, <3>1, <4>1
    <3>2. CASE m \in 0 .. n
      <4>1. m = 0 \/ m - 1 \in 0 .. n
        BY <3>2
      <4> QED
        BY <2>3, <2>4, <3>2, <4>1
    <3> QED
      BY <3>1, <3>2
  <2>8. g = [m \in 0 .. n + 1 |-> IF m = 0 THEN << >> ELSE Next1(g[m - 1], m)]
    BY <2>6, <2>7
  <2>9. RanksTo(T, n + 1, g)
    BY <2>8 DEF RanksTo, Next1
  <2> QED
    BY <2>9
<1>3. M \in Has
  <2> HIDE DEF Has
  <2>1. \A m \in 1 .. M : m - 1 \in Has => m \in Has
    <3> TAKE m \in 1 .. M
    <3>1. m - 1 \in Nat /\ (m - 1) + 1 = m
      OBVIOUS
    <3> QED
      BY <1>2, <3>1
  <2>2. \A m \in 0 .. M : m \in Has
    BY <1>1, <2>1, Reaches
  <2> QED
    BY <2>2
<1> DEFINE made == CHOOSE f : RanksTo(T, M, f)
<1>4. RanksTo(T, M, made)
  <2>1. \E f : RanksTo(T, M, f)
    BY <1>3
  <2> QED
    BY <2>1
<1>5. Ranked(T) = made[M]
  BY DEF Ranked, RanksTo
<1> HIDE DEF made
<1>6. made = [m \in 0 .. M |-> IF m = 0 THEN << >> ELSE Next1(made[m - 1], m)]
  BY <1>4 DEF RanksTo
<1>7. made[0] = << >> /\ \A n \in 1 .. M : made[n] = Next1(made[n - 1], n)
  <2> HIDE DEF Next1
  <2> QED
    BY <1>6
<1> QED
  BY <1>5, <1>7

\* The i-th of r is none of those before it, and nothing but them is to come
\* before it.
RankedAt(T, r, i) ==
    /\ r[i] \in T /\ \A l \in 1 .. i - 1 : r[l] # r[i]
    /\ \A g \in T : \/ \E l \in 1 .. i - 1 : g = r[l]
                    \/ Undefined(g) \/ Undefined(r[i]) \/ ~Before(g, r[i])

\* Hypotheses that are told apart are as many as their ranks.
LEMMA RanksCounted ==
    ASSUME NEW r, NEW j \in Nat, \A i \in 1 .. j : \A l \in 1 .. i - 1 : r[l] # r[i]
    PROVE  LET S == {r[i] : i \in 1 .. j} IN IsFiniteSet(S) /\ Cardinality(S) = j
<1> DEFINE S == {r[i] : i \in 1 .. j}
           f == [i \in 1 .. j |-> r[i]]
<1>1. f \in [1 .. j -> S] /\ \A x \in S : \E i \in 1 .. j : f[i] = x
  OBVIOUS
<1>2. \A i, l \in 1 .. j : f[i] = f[l] => i = l
  <2> TAKE i, l \in 1 .. j
  <2>1. i < l => i \in 1 .. l - 1
    OBVIOUS
  <2>2. l < i => l \in 1 .. i - 1
    OBVIOUS
  <2>3. i < l \/ l < i \/ i = l
    OBVIOUS
  <2> QED
    BY <2>1, <2>2, <2>3
<1> HIDE DEF S, f
<1>3. f \in Bijection(1 .. j, S)
  BY <1>1, <1>2, Fun_IsBij
<1>4. ExistsBijection(1 .. j, S)
  BY <1>3 DEF ExistsBijection
<1>5. IsFiniteSet(S) /\ Cardinality(S) = j
  BY <1>4, FS_NatBijection, FS_CountingElements
<1> QED
  BY <1>5 DEF S

\* The ranking is of all hypotheses, each once, by their p-values.
LEMMA RankedAll ==
    ASSUME NEW T, IsFiniteSet(T), \A h \in T : IsHypothesis(h)
    PROVE  /\ Cardinality(T) \in Nat
           /\ \A i \in 1 .. Cardinality(T) : RankedAt(T, Ranked(T), i)
<1> DEFINE M == Cardinality(T)
<1>1. M \in Nat
  BY FS_CardinalityType
<1>2. PICK f : /\ Ranked(T) = f[M] /\ f[0] = << >>
               /\ \A n \in 1 .. M :
                     f[n] = Append(f[n - 1], Foremost(T \ {f[n - 1][i] : i \in 1 .. n - 1}))
  BY <1>1, RankedMade
<1> DEFINE Good == {n \in 0 .. M : /\ f[n] \in Seq(T) /\ Len(f[n]) = n
                                   /\ \A i \in 1 .. n : RankedAt(T, f[n], i)}
<1>3. 0 \in Good
  <2>1. << >> \in Seq(T) /\ Len(<< >>) = 0
    OBVIOUS
  <2>2. \A i \in 1 .. 0 : RankedAt(T, f[0], i)
    OBVIOUS
  <2>3. f[0] \in Seq(T) /\ Len(f[0]) = 0
    BY <1>2, <2>1, Zenon
  <2>4. 0 \in 0 .. M
    BY <1>1
  <2> QED
    BY <2>2, <2>3, <2>4
<1>4. ASSUME NEW n \in 1 .. M, n - 1 \in Good
      PROVE  n \in Good
  <2> DEFINE r == f[n - 1]
             S == {r[i] : i \in 1 .. n - 1}
             next == Foremost(T \ S)
  <2>1. /\ r \in Seq(T) /\ Len(r) = n - 1 /\ n - 1 \in Nat /\ n - 1 < M
        /\ \A i \in 1 .. n - 1 : RankedAt(T, r, i)
    BY <1>1, <1>4
  <2>2. f[n] = Append(r, next)
    BY <1>2, <1>4
  <2>3. IsFiniteSet(S) /\ Cardinality(S) = n - 1
    <3>1. \A i \in 1 .. n - 1 : \A l \in 1 .. i - 1 : r[l] # r[i]
      BY <2>1 DEF RankedAt
    <3> HIDE DEF r
    <3> QED
      BY <2>1, <3>1, RanksCounted
  <2> HIDE DEF r
  <2>4. T \ S # {}
    <3> SUFFICES ASSUME T \in SUBSET S PROVE FALSE
      OBVIOUS
    <3> HIDE DEF S
    <3>1. Cardinality(T) <= Cardinality(S)
      BY <2>3, FS_Subset
    <3> QED
      BY <1>1, <2>1, <2>3, <3>1
  <2>5. IsFiniteSet(T \ S)
    <3> HIDE DEF S
    <3> QED
      BY FS_Difference
  <2>6. /\ next \in T \ S
        /\ \A g \in T \ S : Undefined(g) \/ Undefined(next) \/ ~Before(g, next)
    <3> HIDE DEF S
    <3>1. \A h \in T \ S : IsHypothesis(h)
      OBVIOUS
    <3> QED
      BY <2>4, <2>5, <3>1, ForemostThere
  <2> HIDE DEF next
  <2>7. /\ f[n] \in Seq(T) /\ Len(f[n]) = n /\ f[n][n] = next
        /\ \A i \in 1 .. n - 1 : f[n][i] = r[i]
    BY <1>1, <2>1, <2>2, <2>6
  <2>8. ASSUME NEW i \in 1 .. n PROVE RankedAt(T, f[n], i)
    <3>1. CASE i = n
      <4>1. S = {f[n][l] : l \in 1 .. n - 1}
        BY <2>7
      <4> QED
        BY <2>6, <2>7, <3>1 DEF RankedAt
    <3>2. CASE i \in 1 .. n - 1
      <4>1. \A l \in 1 .. i - 1 : l \in 1 .. n - 1
        BY <1>1, <3>2
      <4> QED
        BY <2>1, <2>7, <3>2, <4>1 DEF RankedAt
    <3> QED
      BY <3>1, <3>2
  <2> QED
    BY <1>1, <2>7, <2>8
<1>5. M \in Good
  <2> HIDE DEF Good
  <2>1. \A n \in 0 .. M : n \in Good
    BY <1>1, <1>3, <1>4, Reaches
  <2> QED
    BY <1>1, <2>1
<1> QED
  BY <1>1, <1>2, <1>5

\* What survives was tested.
LEMMA SurvivorsTested ==
    ASSUME NEW T, IsFiniteSet(T), \A h \in T : IsHypothesis(h)
    PROVE  Survivors(T) \subseteq T
BY RankedAll DEF Survivors, RankedAt

\* A p-value no larger passes where a larger one does.
LEMMA PassesToo ==
    ASSUME NEW g, IsHypothesis(g), ~Undefined(g), NEW h, IsHypothesis(h), ~Undefined(h),
           ~Before(h, g), NEW m, NEW i, Critical[m][i] \in Nat, Passes(Statistic(h), i, m)
    PROVE  Passes(Statistic(g), i, m)
<1> DEFINE G == Statistic(g)
           H == Statistic(h)
           c == Critical[m][i]
<1>1. /\ G.num \in Nat /\ G.den \in Nat \ {0} /\ H.num \in Nat /\ H.den \in Nat \ {0}
      /\ c \in Nat
  BY StatisticTyped
<1>2. ~(H.num * G.den > G.num * H.den) /\ 100 * H.num >= c * H.den
  BY DEF Before, Passes
<1>3. Passes(G, i, m) <=> 100 * G.num >= c * G.den
  BY DEF Passes
<1> HIDE DEF G, H, c
<1>4. /\ H.num * G.den \in Nat /\ G.num * H.den \in Nat
      /\ c * H.den \in Nat /\ c * G.den \in Nat /\ 100 * G.num \in Nat /\ 100 * H.num \in Nat
  BY <1>1, Products
<1>5. (c * H.den) * 1 <= (100 * H.num) * 1 /\ H.num * G.den <= G.num * H.den
  BY <1>2, <1>4
<1>6. c * H.den <= 100 * H.num
  BY <1>4, <1>5
<1>7. (c * H.den) * G.den <= (100 * H.num) * G.den
  BY <1>1, <1>4, <1>6, Scaled
<1>8. 100 * (H.num * G.den) <= 100 * (G.num * H.den)
  BY <1>4, <1>5, Scaled
<1>9. /\ (c * H.den) * G.den = (c * G.den) * H.den
      /\ (100 * H.num) * G.den = 100 * (H.num * G.den)
      /\ 100 * (G.num * H.den) = (100 * G.num) * H.den
  BY <1>1
<1>10. (c * G.den) * H.den <= (100 * G.num) * H.den
  <2>1. /\ (c * G.den) * H.den \in Nat /\ 100 * (H.num * G.den) \in Nat
        /\ (100 * G.num) * H.den \in Nat
    BY <1>1, <1>4, Products
  <2> QED
    BY <1>7, <1>8, <1>9, <2>1
<1>11. c * G.den <= 100 * G.num
  BY <1>1, <1>4, <1>10, Cancelled
<1> QED
  BY <1>3, <1>4, <1>11 DEF G, c

\* What passes at a rank passes at a later one.
LEMMA PassesLater ==
    ASSUME NEW g, IsHypothesis(g), ~Undefined(g), NEW m, NEW i, NEW j,
           Critical[m][i] \in Nat, Critical[m][j] \in Nat, Critical[m][j] <= Critical[m][i],
           Passes(Statistic(g), i, m)
    PROVE  Passes(Statistic(g), j, m)
<1> DEFINE G == Statistic(g)
           c == Critical[m][i]
           d == Critical[m][j]
<1>1. G.num \in Nat /\ G.den \in Nat /\ c \in Nat /\ d \in Nat /\ d <= c
  BY StatisticTyped
<1>2. 100 * G.num >= c * G.den /\ (Passes(G, j, m) <=> 100 * G.num >= d * G.den)
  BY DEF Passes
<1> HIDE DEF G, c, d
<1>3. d * G.den <= c * G.den /\ d * G.den \in Nat /\ c * G.den \in Nat /\ 100 * G.num \in Nat
  BY <1>1, Scaled, Products
<1> QED
  BY <1>2, <1>3 DEF G, d

\* Where every p-value is a number, the survivors are the largest set of
\* hypotheses that may be rejected together.
LEMMA LargestSurvive ==
    ASSUME NEW T, IsFiniteSet(T), \A h \in T : IsHypothesis(h) /\ ~Undefined(h),
           T # {} => Cardinality(T) \in DOMAIN Critical
    PROVE  Survivors(T)
             = UNION {U \in SUBSET T :
                        \A h \in U : Passes(Statistic(h), Cardinality(U), Cardinality(T))}
<1> DEFINE M == Cardinality(T)
           R == Ranked(T)
           All(U) == \A h \in U : Passes(Statistic(h), Cardinality(U), M)
           Passing(j) == ~Undefined(R[j]) /\ Passes(Statistic(R[j]), j, M)
<1>1. M \in Nat /\ \A i \in 1 .. M : RankedAt(T, R, i)
  BY RankedAll
<1>2. Survivors(T) = {R[i] : i \in {i \in 1 .. M : \E j \in i .. M : Passing(j)}}
  BY DEF Survivors
<1> DEFINE Top(j) == {R[i] : i \in 1 .. j}
<1>3. ASSUME NEW j \in 0 .. M
      PROVE  IsFiniteSet(Top(j)) /\ Cardinality(Top(j)) = j /\ Top(j) \in SUBSET T
  <2>1. j \in Nat /\ \A i \in 1 .. j : i \in 1 .. M
    BY <1>1
  <2>2. \A i \in 1 .. j : \A l \in 1 .. i - 1 : R[l] # R[i]
    BY <1>1, <2>1 DEF RankedAt
  <2>3. Top(j) \in SUBSET T
    BY <1>1, <2>1 DEF RankedAt
  <2> HIDE DEF R
  <2> QED
    BY <2>1, <2>2, <2>3, RanksCounted
<1>4. Top(M) = T
  <2>1. IsFiniteSet(Top(M)) /\ Cardinality(Top(M)) = M /\ Top(M) \in SUBSET T
    BY <1>1, <1>3
  <2> HIDE DEF Top
  <2> QED
    BY <2>1, FS_Subset
<1>5. ASSUME NEW i \in 1 .. M, NEW j \in 1 .. M
      PROVE  /\ Critical[M][j] \in Nat
             /\ i <= j => Critical[M][j] <= Critical[M][i]
  <2>1. T # {}
    BY FS_EmptySet, <1>1
  <2>2. i <= j => i \in 1 .. j
    OBVIOUS
  <2> QED
    BY <2>1, <2>2, CriticalAssumption
<1> HIDE DEF R, Top
<1>6. ASSUME NEW h \in Survivors(T)
      PROVE  \E U \in SUBSET T : All(U) /\ h \in U
  <2>1. PICK i \in 1 .. M : h = R[i] /\ \E j \in i .. M : Passing(j)
    BY <1>2
  <2>2. PICK j \in i .. M : Passing(j)
    BY <2>1
  <2>3. j \in 1 .. M /\ i \in 1 .. j /\ j \in 0 .. M
    BY <1>1
  <2>4. IsFiniteSet(Top(j)) /\ Cardinality(Top(j)) = j /\ Top(j) \in SUBSET T
    BY <1>3, <2>3
  <2>5. h \in Top(j)
    BY <2>1, <2>3 DEF Top
  <2>6. ASSUME NEW g \in Top(j) PROVE Passes(Statistic(g), j, M)
    <3>1. PICK l \in 1 .. j : g = R[l]
      BY <2>6 DEF Top
    <3>2. g \in T /\ R[j] \in T /\ l \in 1 .. M
      BY <1>1, <2>3, <2>4 DEF RankedAt
    <3>3. CASE l = j
      BY <2>2, <3>1, <3>3
    <3>4. CASE l # j
      <4>1. \A k \in 1 .. l - 1 : k \in 1 .. j - 1
        BY <2>3
      <4>2. ~Before(R[j], g)
        BY <1>1, <2>3, <3>1, <3>2, <4>1 DEF RankedAt
      <4>3. Critical[M][j] \in Nat
        BY <1>5, <2>3
      <4> QED
        BY <2>2, <3>2, <4>2, <4>3, PassesToo
    <3> QED
      BY <3>3, <3>4
  <2>7. All(Top(j))
    BY <2>4, <2>6
  <2> QED
    BY <2>4, <2>5, <2>7
<1>7. ASSUME NEW U \in SUBSET T, All(U), NEW h \in U
      PROVE  h \in Survivors(T)
  <2> DEFINE I == {i \in 1 .. M : R[i] \in U}
             k == Cardinality(U)
  <2>1. PICK i \in 1 .. M : h = R[i]
    BY <1>4 DEF Top
  <2>2. PICK j \in I : \A l \in I : l <= j
    <3>1. I \in SUBSET (1 .. M) /\ i \in I /\ I \subseteq Nat
      BY <2>1
    <3>2. IsFiniteSet(1 .. M)
      BY <1>1, FS_Interval
    <3> HIDE DEF I
    <3>3. IsFiniteSet(I) /\ I # {}
      BY <3>1, <3>2, FS_Subset
    <3> QED
      BY <3>1, <3>3, GreatestNatural
  <2>3. i <= j /\ j \in 1 .. M /\ j \in i .. M /\ j \in 0 .. M
    BY <1>1, <2>1, <2>2
  <2>4. U \in SUBSET Top(j)
    <3> SUFFICES ASSUME NEW g \in U PROVE g \in Top(j)
      OBVIOUS
    <3>1. PICK l \in 1 .. M : g = R[l]
      BY <1>4 DEF Top
    <3>2. l \in 1 .. j
      BY <2>2, <2>3, <3>1
    <3> QED
      BY <3>1, <3>2 DEF Top
  <2>5. IsFiniteSet(U) /\ k \in Nat /\ k <= j /\ k # 0
    <3>1. IsFiniteSet(Top(j)) /\ Cardinality(Top(j)) = j
      BY <1>3, <2>3
    <3>2. IsFiniteSet(U)
      BY <2>4, <3>1, FS_Subset
    <3> QED
      BY <2>4, <3>1, <3>2, FS_Subset, FS_CardinalityType, FS_EmptySet
  <2>6. k \in 1 .. M
    BY <1>1, <2>3, <2>5
  <2>7. R[j] \in U /\ R[j] \in T
    OBVIOUS
  <2>8. Passes(Statistic(R[j]), k, M)
    BY <1>7, <2>7
  <2>9. /\ Critical[M][k] \in Nat /\ Critical[M][j] \in Nat
        /\ Critical[M][j] <= Critical[M][k]
    BY <1>5, <2>3, <2>5, <2>6
  <2> HIDE DEF k, I
  <2>10. Passes(Statistic(R[j]), j, M)
    BY <2>7, <2>8, <2>9, PassesLater
  <2> QED
    BY <1>2, <2>1, <2>3, <2>7, <2>10
<1> QED
  BY <1>6, <1>7

\* A hypothesis that passes at the strictest rank survives wherever it is
\* ranked, and whatever the others are.
LEMMA StrictestSurvives ==
    ASSUME NEW T, IsFiniteSet(T), \A g \in T : IsHypothesis(g),
           Cardinality(T) \in DOMAIN Critical,
           NEW h \in T, ~Undefined(h), Passes(Statistic(h), 1, Cardinality(T))
    PROVE  h \in Survivors(T)
<1> DEFINE M == Cardinality(T)
           R == Ranked(T)
           Passing(j) == ~Undefined(R[j]) /\ Passes(Statistic(R[j]), j, M)
           Top == {R[i] : i \in 1 .. M}
<1>1. M \in Nat /\ \A i \in 1 .. M : RankedAt(T, R, i)
  BY RankedAll
<1>2. Survivors(T) = {R[i] : i \in {i \in 1 .. M : \E j \in i .. M : Passing(j)}}
  BY DEF Survivors
<1> HIDE DEF R
<1>3. Top = T
  <2>1. \A i \in 1 .. M : R[i] \in T /\ \A l \in 1 .. i - 1 : R[l] # R[i]
    BY <1>1 DEF RankedAt
  <2>2. IsFiniteSet(Top) /\ Cardinality(Top) = M
    BY <1>1, <2>1, RanksCounted
  <2>3. Top \in SUBSET T
    BY <2>1
  <2> HIDE DEF Top
  <2> QED
    BY <2>2, <2>3, FS_Subset
<1>4. PICK i \in 1 .. M : h = R[i]
  BY <1>3
<1>5. Critical[M][1] \in Nat /\ Critical[M][i] \in Nat /\ Critical[M][i] <= Critical[M][1]
  <2>1. 1 \in 1 .. M /\ 1 \in 1 .. i
    BY <1>1
  <2> QED
    BY <2>1, CriticalAssumption
<1>6. Passes(Statistic(h), i, M)
  BY <1>5, PassesLater
<1>7. Passing(i) /\ i \in i .. M
  BY <1>1, <1>4, <1>6
<1> QED
  BY <1>2, <1>4, <1>7

\* Where all of one side's responses carry a path and none of the other's, the
\* change is as large as can be and the square of the statistic is the number
\* of responses.
LEMMA WhollyGone ==
    ASSUME NEW h, IsHypothesis(h), h.baseX = h.baseN, h.baseN # 0, h.currX = 0, h.currN # 0
    PROVE  /\ BigEnough(h) /\ ~Undefined(h)
           /\ \A m, i : Critical[m][i] \in Nat /\ 100 * (h.baseN + h.currN) >= Critical[m][i]
                          => Passes(Statistic(h), i, m)
<1> DEFINE b == h.baseN
           c == h.currN
           n == b + c
           q == b * c
<1>1. b \in Nat \ {0} /\ c \in Nat \ {0} /\ h.baseX = b /\ h.currX = 0
  BY DEF IsHypothesis
<1>2. q \in Nat \ {0} /\ n \in Nat \ {0}
  BY <1>1, Products
<1>3. BigEnough(h)
  <2>1. Difference(h) = [num |-> 0 * b - b * c, den |-> b * c]
    BY <1>1 DEF Difference
  <2>2. Difference(h).num = -q /\ Difference(h).den = q
    BY <1>1, <2>1
  <2> HIDE DEF q
  <2>3. Size(Difference(h).num) = q
    BY <1>2, <2>2 DEF Size
  <2>4. MinEffectSize * q <= 100 * q
    BY <1>2, GateAssumption, Scaled
  <2>5. MinEffectSize * q \in Nat /\ 100 * q \in Nat
    BY <1>2, GateAssumption, Products
  <2> QED
    BY <2>2, <2>3, <2>4, <2>5 DEF BigEnough
<1>4. ~Undefined(h)
  BY <1>1 DEF Undefined
<1>5. Statistic(h).num = (q * q) * n /\ Statistic(h).den = q * q
  <2>1. h.baseX + h.currX = b /\ b # 0 /\ b # n /\ n - b = c
    BY <1>1
  <2>2. 0 * b - b * c = -q /\ (-q) * (-q) = q * q
    BY <1>1, <1>2
  <2>3. /\ Statistic(h).num = (0 * b - b * c) * (0 * b - b * c) * n
        /\ Statistic(h).den = b * c * b * (n - b)
    BY <1>1, <2>1 DEF Statistic
  <2>4. b * c * b * c = q * q
    BY <1>1
  <2> QED
    BY <2>1, <2>2, <2>3, <2>4
<1>6. ASSUME NEW m, NEW i, Critical[m][i] \in Nat, 100 * n >= Critical[m][i]
      PROVE  Passes(Statistic(h), i, m)
  <2> DEFINE k == Critical[m][i]
             s == q * q
  <2>1. s \in Nat /\ k \in Nat /\ 100 * n \in Nat /\ k <= 100 * n
    BY <1>2, <1>6, Products
  <2>2. Statistic(h).num = s * n /\ Statistic(h).den = s
    BY <1>5
  <2> HIDE DEF k, s, n
  <2>3. k * s <= (100 * n) * s
    BY <2>1, Scaled
  <2>4. (100 * n) * s = 100 * (s * n) /\ k * s \in Nat /\ (100 * n) * s \in Nat
    BY <1>2, <2>1, Products
  <2>5. 100 * (s * n) >= k * s
    BY <2>3, <2>4
  <2> QED
    BY <2>2, <2>5 DEF Passes, k
<1> QED
  BY <1>3, <1>4, <1>6
-----------------------------------------------------------------------------
(***************************************************************************)
(* What a finding claims of the responses.                                  *)
(***************************************************************************)

\* A rate that falls is not all of the current window.
LEMMA FallsFrom ==
    ASSUME NEW h, IsHypothesis(h), h.baseX <= h.baseN, Falls(h), h.currN # 0
    PROVE  h.currX # h.currN
<1> SUFFICES ASSUME h.currX = h.currN PROVE FALSE
  OBVIOUS
<1>1. h.baseX \in Nat /\ h.baseN \in Nat /\ h.currX \in Nat /\ h.currN \in Nat
  BY DEF IsHypothesis
<1>2. CASE h.baseN = 0
  <2>1. Difference(h).num = h.currX * 1 - 0
    BY <1>2 DEF Difference
  <2> QED
    BY <1>1, <2>1 DEF Falls
<1>3. CASE h.baseN # 0
  <2>1. Difference(h).num = h.currX * h.baseN - h.baseX * h.currN
    BY <1>3 DEF Difference
  <2>2. h.baseX * h.currN <= h.baseN * h.currN
    BY <1>1, Scaled
  <2>3. h.baseX * h.currN \in Nat /\ h.baseN * h.currN \in Nat
    BY <1>1, Products
  <2>4. h.currX * h.baseN = h.baseN * h.currN
    BY <1>1
  <2> QED
    BY <2>1, <2>2, <2>3, <2>4 DEF Falls
<1> QED
  BY <1>2, <1>3

\* A rate that rises is more than nothing, and was not all of the baseline.
LEMMA RisesTo ==
    ASSUME NEW h, IsHypothesis(h), h.currX <= h.currN, Rises(h)
    PROVE  h.currX # 0 /\ (h.baseN # 0 => h.baseX # h.baseN)
<1>1. h.baseX \in Nat /\ h.baseN \in Nat /\ h.currX \in Nat /\ h.currN \in Nat
  BY DEF IsHypothesis
<1> DEFINE b == IF h.baseN = 0 THEN 0 ELSE h.baseX * (IF h.currN = 0 THEN 1 ELSE h.currN)
           c == IF h.currN = 0 THEN 0 ELSE h.currX * (IF h.baseN = 0 THEN 1 ELSE h.baseN)
<1>2. c - b > 0
  BY DEF Rises, Difference
<1>3. b \in Nat /\ c \in Nat
  BY <1>1, Products
<1>4. h.currX # 0
  <2> SUFFICES ASSUME h.currX = 0 PROVE FALSE
    OBVIOUS
  <2>1. c = 0
    BY <1>1
  <2> HIDE DEF b, c
  <2> QED
    BY <1>2, <1>3, <2>1
<1>5. ASSUME h.baseN # 0, h.baseX = h.baseN PROVE FALSE
  <2>1. h.currN # 0
    BY <1>1, <1>4
  <2>2. c = h.currX * h.baseN /\ b = h.baseX * h.currN
    BY <1>5, <2>1
  <2>3. h.currX * h.baseN <= h.currN * h.baseN /\ h.currN * h.baseN = h.baseX * h.currN
    BY <1>1, <1>5, Scaled
  <2>4. c <= b
    BY <2>2, <2>3
  <2> HIDE DEF b, c
  <2> QED
    BY <1>2, <1>3, <2>4
<1> QED
  BY <1>4, <1>5

\* Counting bodies of a smaller set gives no more.
LEMMA CountsWithin ==
    ASSUME NEW I, IsFiniteSet(I), NEW S, NEW R, \A i \in I : i.body \in S => i.body \in R
    PROVE  Count(I, S) <= Count(I, R)
<1> DEFINE A == {i \in I : i.body \in S}
           B == {i \in I : i.body \in R}
<1>1. A \in SUBSET B /\ B \in SUBSET I
  OBVIOUS
<1>2. Count(I, S) = Cardinality(A) /\ Count(I, R) = Cardinality(B)
  BY DEF Count
<1> HIDE DEF A, B
<1>3. IsFiniteSet(B)
  BY <1>1, FS_Subset
<1>4. Cardinality(A) <= Cardinality(B)
  BY <1>1, <1>3, FS_Subset
<1> QED
  BY <1>2, <1>4, Zenon

\* Bodies of one set or another, never both, are counted apart.
LEMMA CountsSplit ==
    ASSUME NEW I, IsFiniteSet(I), NEW S, NEW R, \A i \in I : ~(i.body \in S /\ i.body \in R),
           NEW Q, \A i \in I : i.body \in Q <=> i.body \in S \/ i.body \in R
    PROVE  Count(I, Q) = Count(I, S) + Count(I, R)
<1> DEFINE A == {i \in I : i.body \in S}
           B == {i \in I : i.body \in R}
           C == {i \in I : i.body \in Q}
<1>1. A \in SUBSET I /\ B \in SUBSET I /\ C = A \cup B /\ A \cap B = {}
  OBVIOUS
<1>2. /\ Count(I, S) = Cardinality(A) /\ Count(I, R) = Cardinality(B)
      /\ Count(I, Q) = Cardinality(C)
  BY DEF Count
<1> HIDE DEF A, B, C
<1>3. IsFiniteSet(A) /\ IsFiniteSet(B)
  BY <1>1, FS_Subset
<1>4. /\ Cardinality(A) \in Nat /\ Cardinality(B) \in Nat
      /\ Cardinality(A \cup B) = Cardinality(A) + Cardinality(B) - Cardinality(A \cap B)
  BY <1>3, FS_CardinalityType, FS_Union
<1>5. Cardinality(A \cap B) = 0
  BY <1>1, FS_EmptySet, Zenon
<1>6. Cardinality(C) = Cardinality(A \cup B)
  BY <1>1, Zenon
<1> QED
  BY <1>2, <1>4, <1>5, <1>6

\* The bodies that could carry a path, that do, and that hold a kind at it.
Able(p) == {d \in Body : CouldCarry(d, p)}
Bearers(p) == {d \in Body : Carries(d, p)}
Holders(p, k) == {d \in Body : HoldsKind(d, p, k)}

\* What a field of a window without lost paths says, counter by counter.
LEMMA FieldSays ==
    ASSUME NEW s, NEW I, Holds(s, I), Lossless(I), NEW p \in DOMAIN s.fields
    PROVE  /\ p \in Reached
           /\ s.fields[p] \in FieldStats /\ FieldCounts(s.fields[p], I, p)
           /\ s.fields[p].seen = Count(I, Able(p))
           /\ s.fields[p].present = Count(I, Bearers(p))
           /\ s.fields[p].null = Count(I, Holders(p, "null"))
           /\ \A k \in Kind : s.fields[p].kinds[k] = Count(I, Holders(p, k))
           /\ s.fields[p].present # 0
           /\ \E i \in I : i.body \in Body /\ Carries(i.body, p)
<1>1. p # OverflowPath /\ p \in Reached /\ \E i \in I : Carries(i.body, p)
  BY DEF Holds, Counts
<1>2. FieldCounts(s.fields[p], I, p) /\ s.fields[p] \in FieldStats
  BY <1>1, FieldTyped DEF Holds, Counts
<1>3. PICK i \in I : Carries(i.body, p)
  BY <1>1
<1>4. IsFiniteSet(I) /\ i.body \in Body
  BY DEF Holds, Filings
<1>5. Count(I, Bearers(p)) # 0
  <2>1. i.body \in Bearers(p)
    BY <1>3, <1>4 DEF Bearers
  <2> QED
    BY <1>4, <2>1, CountedIfThere
<1>6. /\ s.fields[p].seen = Count(I, Able(p))
      /\ s.fields[p].present = Count(I, Bearers(p))
      /\ s.fields[p].null = Count(I, Holders(p, "null"))
      /\ \A k \in Kind : s.fields[p].kinds[k] = Count(I, Holders(p, k))
  BY <1>2 DEF FieldCounts, Counted, Able, Bearers, Holders
<1> QED
  BY <1>1, <1>2, <1>3, <1>4, <1>5, <1>6

\* A path both windows hold that falls is missing from a current response.
LEMMA RemovedBorneOut ==
    ASSUME NEW a, NEW A, Holds(a, A), Lossless(A), NEW c, NEW C, Holds(c, C), Lossless(C),
           NEW p \in DOMAIN a.fields, p \in DOMAIN c.fields,
           NEW h \in PresenceHypotheses(p, a.fields[p], c.fields[p])
    PROVE  BorneOut(h, A, C)
<1> DEFINE fb == a.fields[p]
           fc == c.fields[p]
           S == Bearers(p)
<1>1. /\ h = Hypothesis(p, "FieldRemoved", fb.present, fb.seen, fc.present, fc.seen)
      /\ Falls(h)
  BY DEF PresenceHypotheses
<1>2. /\ fb.present \in Nat /\ fb.seen \in Nat /\ fb.present <= fb.seen
      /\ fc.present \in Nat /\ fc.seen \in Nat /\ fc.present <= fc.seen
  BY FieldShares DEF Holds, Counts
<1>3. fc.present # 0 /\ fc.present = Count(C, S) /\ fc.seen = Count(C, Able(p))
  BY FieldSays
<1>4. \E i \in A : Carries(i.body, p)
  BY FieldSays
<1>5. IsFiniteSet(C) /\ \A i \in C : i.body \in Body
  BY DEF Holds, Filings
<1> HIDE DEF fb, fc
<1>6. /\ IsHypothesis(h) /\ h.path = p /\ h.kind = "FieldRemoved"
      /\ h.baseX = fb.present /\ h.baseN = fb.seen /\ h.currX = fc.present /\ h.currN = fc.seen
  BY <1>1, <1>2, HypothesisMade
<1>7. fc.present # fc.seen
  <2>1. fc.seen # 0
    BY <1>2, <1>3
  <2> QED
    BY <1>1, <1>2, <1>6, <2>1, FallsFrom
<1>8. \E i \in C : ~Carries(i.body, p)
  <2> SUFFICES ASSUME \A i \in C : Carries(i.body, p) PROVE FALSE
    OBVIOUS
  <2>1. \A i \in C : i.body \in Able(p) => i.body \in S
    BY <1>5 DEF Bearers
  <2>2. Count(C, Able(p)) <= Count(C, S)
    BY <1>5, <2>1, CountsWithin
  <2> QED
    BY <1>2, <1>3, <1>7, <2>2
<1> QED
  BY <1>4, <1>6, <1>8 DEF BorneOut

\* A null whose share rises is in a current response, and was not all there was.
LEMMA NullBorneOut ==
    ASSUME NEW a, NEW A, Holds(a, A), Lossless(A), NEW c, NEW C, Holds(c, C), Lossless(C),
           NEW p \in DOMAIN a.fields, p \in DOMAIN c.fields,
           NEW h \in NullHypotheses(p, a.fields[p], c.fields[p])
    PROVE  BorneOut(h, A, C)
<1> DEFINE fb == a.fields[p]
           fc == c.fields[p]
           S == Bearers(p)
           N == Holders(p, "null")
<1>1. /\ h = Hypothesis(p, "NullabilityIntroduced", fb.null, fb.present, fc.null, fc.present)
      /\ Rises(h)
  BY DEF NullHypotheses
<1>2. /\ fb.present \in Nat /\ fb.null \in Nat
      /\ fc.present \in Nat /\ fc.null \in Nat /\ fc.null <= fc.present
      /\ fb.null <= fb.present
  BY FieldShares DEF Holds, Counts
<1>3. /\ fb.present # 0 /\ fb.present = Count(A, S) /\ fb.null = Count(A, N)
      /\ fc.null = Count(C, N)
  BY FieldSays
<1>4. /\ IsFiniteSet(A) /\ \A i \in A : i.body \in Body
      /\ IsFiniteSet(C) /\ \A i \in C : i.body \in Body
  BY DEF Holds, Filings
<1> HIDE DEF fb, fc
<1>5. /\ IsHypothesis(h) /\ h.path = p /\ h.kind = "NullabilityIntroduced"
      /\ h.baseX = fb.null /\ h.baseN = fb.present /\ h.currX = fc.null /\ h.currN = fc.present
  BY <1>1, <1>2, HypothesisMade
<1>6. fc.null # 0 /\ fb.null # fb.present
  BY <1>1, <1>2, <1>3, <1>5, RisesTo
<1>7. \E i \in C : HoldsKind(i.body, p, "null")
  <2>1. ~(\A i \in C : i.body \notin N)
    <3> HIDE DEF N
    <3> QED
      BY <1>3, <1>4, <1>6, CountedIfThere
  <2> QED
    BY <2>1 DEF Holders
<1>8. \E i \in A : Carries(i.body, p) /\ ~HoldsKind(i.body, p, "null")
  <2> SUFFICES ASSUME \A i \in A : Carries(i.body, p) => HoldsKind(i.body, p, "null") PROVE FALSE
    OBVIOUS
  <2>1. \A i \in A : i.body \in S => i.body \in N
    BY <1>4 DEF Bearers, Holders
  <2> HIDE DEF S, N
  <2>2. Count(A, S) <= Count(A, N)
    BY <1>4, <2>1, CountsWithin
  <2> QED
    BY <1>2, <1>3, <1>6, <2>2
<1> QED
  BY <1>5, <1>7, <1>8 DEF BorneOut

\* A kind whose share moved among the values did so among the responses.
LEMMA TypeBorneOut ==
    ASSUME NEW a, NEW A, Holds(a, A), Lossless(A), NEW c, NEW C, Holds(c, C), Lossless(C),
           NEW p \in DOMAIN a.fields, p \in DOMAIN c.fields,
           NEW h \in TypeHypotheses(p, a.fields[p], c.fields[p])
    PROVE  BorneOut(h, A, C)
<1> DEFINE fb == a.fields[p]
           fc == c.fields[p]
           baseN == fb.present - fb.null
           currN == fc.present - fc.null
           Of(i) == Hypothesis(p, "TypeChanged",
                               fb.kinds[KindOrder[i]], baseN, fc.kinds[KindOrder[i]], currN)
           S == Bearers(p)
           N == Holders(p, "null")
           V == {d \in Body : HoldsValue(d, p)}
           With(k) == Holders(p, k)
<1>1. baseN # 0 /\ currN # 0 /\ \E i \in 2 .. 7 : h = Of(i) /\ Size(Difference(Of(i)).num) > 0
  BY DEF TypeHypotheses
<1>2. PICK i \in 2 .. 7 : h = Of(i) /\ Size(Difference(Of(i)).num) > 0
  BY <1>1
<1> DEFINE k == KindOrder[i]
<1>3. k \in Kind
  BY DEF KindOrder, Kind
<1>4. /\ baseN \in Nat /\ currN \in Nat /\ fb.kinds[k] \in Nat /\ fc.kinds[k] \in Nat
      /\ fb.present \in Nat /\ fb.null \in Nat /\ fc.present \in Nat /\ fc.null \in Nat
  BY <1>3, FieldShares DEF Holds, Counts
<1>5. /\ fb.present = Count(A, S) /\ fb.null = Count(A, N) /\ fb.kinds[k] = Count(A, With(k))
      /\ fc.present = Count(C, S) /\ fc.null = Count(C, N) /\ fc.kinds[k] = Count(C, With(k))
  BY <1>3, FieldSays
<1>6. /\ IsFiniteSet(A) /\ \A j \in A : j.body \in Body
      /\ IsFiniteSet(C) /\ \A j \in C : j.body \in Body
  BY DEF Holds, Filings
<1> HIDE DEF fb, fc, k
<1>7. h = Hypothesis(p, "TypeChanged", fb.kinds[k], baseN, fc.kinds[k], currN)
  BY <1>2 DEF k
<1> HIDE DEF Of
<1>8. /\ IsHypothesis(h) /\ h.path = p /\ h.kind = "TypeChanged"
      /\ h.baseX = fb.kinds[k] /\ h.baseN = baseN /\ h.currX = fc.kinds[k] /\ h.currN = currN
  <2> HIDE DEF baseN, currN
  <2> QED
    BY <1>4, <1>7, HypothesisMade
<1>9. fc.kinds[k] * baseN - fb.kinds[k] * currN # 0
  <2> HIDE DEF baseN, currN
  <2>1. Difference(h).num = fc.kinds[k] * baseN - fb.kinds[k] * currN
    BY <1>1, <1>8 DEF Difference
  <2>2. Size(Difference(h).num) > 0
    BY <1>2
  <2> QED
    BY <2>1, <2>2 DEF Size
<1>10. ASSUME \A j \in A \cup C : ~(HoldsKind(j.body, p, "null") /\ HoldsValue(j.body, p))
       PROVE  Count(A, With(k)) * Count(C, V) # Count(C, With(k)) * Count(A, V)
  <2>1. \A d \in Body : Carries(d, p) <=> HoldsKind(d, p, "null") \/ HoldsValue(d, p)
    <3> TAKE d \in Body
    <3>1. Carries(d, p) <=> \E x \in Kind : HoldsKind(d, p, x)
      BY HeldFacts
    <3>2. "null" \in Kind
      BY DEF Kind
    <3> QED
      BY <3>1, <3>2 DEF HoldsValue
  <2>2. \A j \in A \cup C : /\ j.body \in S <=> j.body \in N \/ j.body \in V
                            /\ ~(j.body \in N /\ j.body \in V)
    BY <1>6, <1>10, <2>1 DEF Bearers, Holders
  <2>3. /\ Count(A, N) \in Nat /\ Count(A, V) \in Nat /\ Count(C, N) \in Nat /\ Count(C, V) \in Nat
        /\ Count(A, With(k)) \in Nat /\ Count(C, With(k)) \in Nat
    BY <1>6, FS_EmptySet, CountsAdd
  <2> HIDE DEF S, N, V, With
  <2>4. Count(A, S) = Count(A, N) + Count(A, V)
    BY <1>6, <2>2, CountsSplit
  <2>5. Count(C, S) = Count(C, N) + Count(C, V)
    BY <1>6, <2>2, CountsSplit
  <2>6. baseN = Count(A, V) /\ currN = Count(C, V)
    BY <1>5, <2>3, <2>4, <2>5
  <2>7. Count(C, With(k)) * Count(A, V) - Count(A, With(k)) * Count(C, V) # 0
    BY <1>5, <1>9, <2>6, Zenon
  <2>8. /\ Count(C, With(k)) * Count(A, V) \in Nat
        /\ Count(A, With(k)) * Count(C, V) \in Nat
    BY <2>3, Products
  <2> QED
    BY <2>7, <2>8
<1> QED
  BY <1>3, <1>8, <1>10 DEF BorneOut, Holders

\* A new string is one no baseline response held.
LEMMA EnumBorneOut ==
    ASSUME NEW a, NEW A, Holds(a, A), Lossless(A), NEW c, NEW C, Holds(c, C), Lossless(C),
           NEW p \in DOMAIN a.fields, p \in DOMAIN c.fields,
           NEW h \in EnumHypotheses(p, a.fields[p], c.fields[p])
    PROVE  BorneOut(h, A, C)
<1> DEFINE fb == a.fields[p]
           fc == c.fields[p]
<1>1. /\ ~fb.overflow /\ ~fc.overflow
      /\ \E v \in Support(fc.strings) \ Support(fb.strings) :
            h = Hypothesis(p, "EnumValueAdded", 0, fb.present, fc.strings[v], fc.present)
  BY DEF EnumHypotheses, EnumComparable
<1>2. /\ fb \in FieldStats /\ FieldCounts(fb, A, p)
      /\ fc \in FieldStats /\ FieldCounts(fc, C, p)
  BY FieldSays
<1> HIDE DEF fb, fc
<1>3. Support(fb.strings) = Distinct(A, p) /\ Support(fc.strings) = Distinct(C, p)
  BY <1>1, <1>2, StringsHeld DEF Holds
<1>4. h.path = p /\ h.kind = "EnumValueAdded"
  BY <1>1 DEF Hypothesis
<1>5. ~(Distinct(C, p) \subseteq Distinct(A, p))
  BY <1>1, <1>3
<1> QED
  BY <1>4, <1>5 DEF BorneOut

\* Whatever is put forward of two windows that lost no paths.
LEMMA HypothesisBorneOut ==
    ASSUME NEW a, NEW A, Holds(a, A), Lossless(A), A # {},
           NEW c, NEW C, Holds(c, C), Lossless(C), C # {},
           NEW p \in DOMAIN a.fields \cup DOMAIN c.fields, NEW h \in HypothesesFor(p, a, c)
    PROVE  BorneOut(h, A, C)
<1>1. /\ DOMAIN a.fields = {q \in Reached : \E i \in A : Carries(i.body, q)}
      /\ DOMAIN c.fields = {q \in Reached : \E i \in C : Carries(i.body, q)}
  BY DEF Holds, Counts
<1>2. CASE p \notin DOMAIN a.fields
  <2>1. h.path = p /\ h.kind = "FieldAdded"
    BY <1>2 DEF HypothesesFor, Hypothesis
  <2>2. p \in DOMAIN c.fields
    BY <1>2
  <2>3. \A i \in A : ~Carries(i.body, p)
    BY <1>2, AbsentPath
  <2>4. \E i \in C : Carries(i.body, p)
    BY <1>1, <2>2
  <2> QED
    BY <2>1, <2>3, <2>4 DEF BorneOut
<1>3. CASE p \in DOMAIN a.fields /\ p \notin DOMAIN c.fields
  <2>1. h.path = p /\ h.kind = "FieldRemoved"
    BY <1>3 DEF HypothesesFor, Hypothesis
  <2>2. \A i \in C : ~Carries(i.body, p)
    BY <1>3, AbsentPath
  <2>3. \E i \in A : Carries(i.body, p)
    BY <1>1, <1>3
  <2> QED
    BY <2>1, <2>2, <2>3 DEF BorneOut
<1>4. CASE p \in DOMAIN a.fields /\ p \in DOMAIN c.fields
  <2>1. h \in PresenceHypotheses(p, a.fields[p], c.fields[p])
              \cup NullHypotheses(p, a.fields[p], c.fields[p])
              \cup TypeHypotheses(p, a.fields[p], c.fields[p])
              \cup EnumHypotheses(p, a.fields[p], c.fields[p])
    BY <1>4 DEF HypothesesFor
  <2> QED
    BY <1>4, <2>1, RemovedBorneOut, NullBorneOut, TypeBorneOut, EnumBorneOut
<1> QED
  BY <1>2, <1>3, <1>4

\* Two windows that hold something hold what was filed in them.
LEMMA WindowsHold ==
    ASSUME Inv, HasBoth
    PROVE  /\ Holds(Window(Baseline), FiledIn(Baseline)) /\ FiledIn(Baseline) # {}
           /\ Holds(Window(Current), FiledIn(Current)) /\ FiledIn(Current) # {}
<1>1. Tells(Window(Baseline), FiledIn(Baseline)) /\ Tells(Window(Current), FiledIn(Current))
  BY WindowTells DEF Bucket
<1> QED
  BY <1>1 DEF HasBoth, Tells

\* A finding is borne out by the responses filed (decide.go, Detect).
LEMMA InvFindings ==
    ASSUME Inv
    PROVE  FindingsReal
<1> SUFFICES ASSUME HasBoth, Lossless(filed),
                    NEW h \in Detect(Window(Baseline), Window(Current))
             PROVE  BorneOut(h, FiledIn(Baseline), FiledIn(Current))
  BY DEF FindingsReal
<1> DEFINE a == Window(Baseline)
           c == Window(Current)
<1>1. /\ Holds(a, FiledIn(Baseline)) /\ FiledIn(Baseline) # {}
      /\ Holds(c, FiledIn(Current)) /\ FiledIn(Current) # {}
  BY WindowsHold
<1>2. Lossless(FiledIn(Baseline)) /\ Lossless(FiledIn(Current))
  BY DEF Lossless, FiledIn
<1> HIDE DEF a, c
<1>3. IsSchema(a) /\ CountsOrdered(a) /\ IsSchema(c) /\ CountsOrdered(c)
  BY <1>1 DEF Holds, Counts
<1>4. h \in Tested(a, c)
  BY <1>3, TestedTyped, SurvivorsTested DEF Detect, a, c
<1>5. /\ h.path \in DOMAIN a.fields \cup DOMAIN c.fields
      /\ h \in HypothesesFor(h.path, a, c)
  BY <1>3, <1>4, TestedTyped
<1> QED
  BY <1>1, <1>2, <1>5, HypothesisBorneOut

\* As many findings are reported as may be, and no more: with p-values that are
\* numbers, the survivors are the largest set all of which pass at its size.
LEMMA InvLargest ==
    ASSUME Inv, HasBoth =>
             LET tested == Tested(Window(Baseline), Window(Current))
             IN tested # {} => Cardinality(tested) \in DOMAIN Critical
    PROVE  SurvivorsLargest
<1> DEFINE T == IF HasBoth THEN Tested(Window(Baseline), Window(Current)) ELSE {}
<1> SUFFICES ASSUME \A h \in T : ~Undefined(h)
             PROVE  Survivors(T)
                      = UNION {U \in SUBSET T :
                                 \A h \in U : Passes(Statistic(h), Cardinality(U), Cardinality(T))}
  BY DEF SurvivorsLargest
<1>1. IsFiniteSet(T) /\ \A h \in T : IsHypothesis(h)
  <2>1. CASE HasBoth
    BY <2>1, WindowsHold, TestedTyped DEF Holds, Counts
  <2>2. CASE ~HasBoth
    BY <2>2, FS_EmptySet
  <2> QED
    BY <2>1, <2>2
<1>2. T # {} => Cardinality(T) \in DOMAIN Critical
  OBVIOUS
<1> HIDE DEF T
<1> QED
  BY <1>1, <1>2, LargestSurvive

\* A path all baseline responses with its container carried, and no current one
\* does: the comparison of the chances it had is put forward, and is tested.
LEMMA RemovalTested ==
    ASSUME NEW a, NEW A, Holds(a, A), Lossless(A), NEW c, NEW C, Holds(c, C), Lossless(C),
           a.samples >= MinSamples, c.samples >= MinSamples,
           NEW p \in Reached, \E i \in A : Carries(i.body, p),
           \A i \in A : CouldCarry(i.body, p) => Carries(i.body, p),
           \A i \in C : ~Carries(i.body, p)
    PROVE  \E h \in Tested(a, c) :
              /\ IsHypothesis(h) /\ h.path = p /\ h.kind = "FieldRemoved"
              /\ h.baseX = h.baseN /\ h.baseN # 0 /\ h.baseN = Chances(A, p)
              /\ h.currX = 0 /\ h.currN # 0 /\ h.currN = Chances(C, p)
<1> DEFINE f == a.fields[p]
           n == Opportunity(c, p)
           h == Hypothesis(p, "FieldRemoved", f.present, f.seen, 0, n)
<1>1. p \in DOMAIN a.fields /\ p \notin DOMAIN c.fields
  BY DEF Holds, Counts
<1>2. /\ f.present \in Nat /\ f.seen \in Nat /\ f.present <= f.seen
      /\ f.present # 0 /\ f.present = Count(A, Bearers(p)) /\ f.seen = Count(A, Able(p))
  <2>1. IsSchema(a) /\ CountsOrdered(a)
    BY DEF Holds, Counts
  <2> QED
    BY <1>1, <2>1, FieldShares, FieldSays
<1>3. f.present = f.seen
  <2>1. IsFiniteSet(A) /\ \A i \in A : i.body \in Body
    BY DEF Holds, Filings
  <2>2. \A i \in A : i.body \in Able(p) => i.body \in Bearers(p)
    BY <2>1 DEF Able, Bearers
  <2>3. Count(A, Able(p)) <= Count(A, Bearers(p))
    BY <2>1, <2>2, CountsWithin
  <2> QED
    BY <1>2, <2>3
<1>4. f.seen = Chances(A, p)
  BY <1>2, <1>3 DEF Chances, Able
<1>5. OpportunityCount(c, p) = Count(C, Able(p)) /\ c.samples = Cardinality(C)
  BY <1>1, OpportunityCounted DEF Counted, Able, Holds, Counts
<1>6. n = Chances(C, p)
  BY <1>5 DEF Chances, Opportunity, Able
<1>7. n \in Nat /\ n # 0
  <2>1. c.samples \in Nat /\ c.samples # 0
    BY GateAssumption DEF Holds, IsSchema
  <2>2. OpportunityCount(c, p) \in Nat
    BY OpportunityTyped DEF Holds
  <2> QED
    BY <2>1, <2>2 DEF Opportunity
<1>8. h \in HypothesesFor(p, a, c)
  BY <1>1 DEF HypothesesFor
<1> HIDE DEF f, n
<1>9. /\ IsHypothesis(h) /\ h.path = p /\ h.kind = "FieldRemoved"
      /\ h.baseX = f.present /\ h.baseN = f.seen /\ h.currX = 0 /\ h.currN = n
  BY <1>2, <1>7, HypothesisMade
<1> HIDE DEF h
<1>10. BigEnough(h)
  BY <1>2, <1>3, <1>7, <1>9, WhollyGone
<1>11. ~(a.samples < MinSamples \/ c.samples < MinSamples)
  BY GateAssumption DEF Holds, IsSchema
<1>12. h \in Tested(a, c)
  BY <1>1, <1>8, <1>10, <1>11 DEF Tested
<1> QED
  BY <1>2, <1>3, <1>4, <1>6, <1>7, <1>9, <1>12

\* What is gone for good is reported, with enough responses to tell.
LEMMA InvRemoval ==
    ASSUME Inv, HasBoth => Cardinality(Tested(Window(Baseline), Window(Current)))
                             \in DOMAIN Critical \cup {0}
    PROVE  NoRemovalMissed
<1> DEFINE a == Window(Baseline)
           c == Window(Current)
           A == FiledIn(Baseline)
           C == FiledIn(Current)
           T == Tested(a, c)
<1> SUFFICES ASSUME HasBoth, Lossless(filed),
                    Cardinality(A) >= MinSamples, Cardinality(C) >= MinSamples,
                    NEW p \in Reached, \E i \in A : Carries(i.body, p),
                    \A i \in A : CouldCarry(i.body, p) => Carries(i.body, p),
                    \A i \in C : ~Carries(i.body, p),
                    100 * (Chances(A, p) + Chances(C, p)) >= Critical[Cardinality(T)][1]
             PROVE  \E h \in Detect(a, c) : h.path = p /\ h.kind = "FieldRemoved"
  BY DEF NoRemovalMissed
<1>1. Holds(a, A) /\ Holds(c, C)
  BY WindowsHold
<1>2. Lossless(A) /\ Lossless(C)
  BY DEF Lossless, FiledIn
<1>3. a.samples >= MinSamples /\ c.samples >= MinSamples
  BY <1>1 DEF Holds, Counts
<1>4. Cardinality(T) \in DOMAIN Critical \cup {0}
  OBVIOUS
<1> HIDE DEF a, c, A, C
<1>5. PICK h \in T :
        /\ IsHypothesis(h) /\ h.path = p /\ h.kind = "FieldRemoved"
        /\ h.baseX = h.baseN /\ h.baseN # 0 /\ h.baseN = Chances(A, p)
        /\ h.currX = 0 /\ h.currN # 0 /\ h.currN = Chances(C, p)
  BY <1>1, <1>2, <1>3, RemovalTested
<1>6. IsFiniteSet(T) /\ \A g \in T : IsHypothesis(g)
  BY <1>1, TestedTyped DEF Holds, Counts
<1> DEFINE m == Cardinality(T)
<1> HIDE DEF T
<1>7. m \in Nat /\ m # 0
  BY <1>5, <1>6, FS_CardinalityType, FS_EmptySet
<1>8. m \in DOMAIN Critical
  BY <1>4, <1>7
<1>9. Critical[m][1] \in Nat
  <2>1. 1 \in 1 .. m
    BY <1>7
  <2> QED
    BY <1>8, <2>1, CriticalAssumption
<1>10. ~Undefined(h) /\ Passes(Statistic(h), 1, m)
  BY <1>5, <1>9, WhollyGone
<1>11. h \in Survivors(T)
  BY <1>5, <1>6, <1>8, <1>10, StrictestSurvives
<1> QED
  BY <1>5, <1>11 DEF Detect, T

\* Where no response lost paths, every finding is about the responses: what it
\* says went missing, came or moved in share did so among the bodies filed, for
\* any traffic and any set of bodies (decide.go, Detect).
THEOREM FindingsRealHolds == Spec => []FindingsReal
BY InitInv, NextInv, InvFindings, PTL DEF Spec

\* Benjamini-Hochberg rejects the largest set it may, whenever the table of
\* critical values reaches the number of hypotheses tested (decide.go,
\* benjaminiHochberg).
THEOREM SurvivorsLargestHolds ==
    Spec => []((HasBoth =>
                  LET tested == Tested(Window(Baseline), Window(Current))
                  IN tested # {} => Cardinality(tested) \in DOMAIN Critical)
                => SurvivorsLargest)
BY InitInv, NextInv, InvLargest, PTL DEF Spec

\* A path all baseline responses with its container carried and no current one
\* carries is found, its container gone or not, once its chances are as many as
\* the strictest rank asks for (decide.go, opportunity and benjaminiHochberg).
THEOREM NoRemovalMissedHolds ==
    Spec => []((HasBoth => Cardinality(Tested(Window(Baseline), Window(Current)))
                             \in DOMAIN Critical \cup {0})
                => NoRemovalMissed)
BY InitInv, NextInv, InvRemoval, PTL DEF Spec

=============================================================================
