------------------------------- MODULE Detect -------------------------------
(***************************************************************************)
(* internal/detect/decide.go: which changes between two windows are         *)
(* reported.  A rate is a pair of counts and rates are compared by cross    *)
(* multiplication.  The p-value of the two-sided z-test falls as the square *)
(* of its statistic grows; that square is a fraction of the four counts and *)
(* stands for the p-value.                                                  *)
(***************************************************************************)
EXTENDS Schema

CONSTANTS
    MinSamples,      \* Config.MinSamples
    MinEffectSize,   \* Config.MinEffectSize, in hundredths
    Critical         \* Critical[m][i]: the square of the statistic, in
                     \* hundredths, whose p-value is i/m of Config.FDRAlpha

ASSUME GateAssumption == MinSamples \in Nat \ {0} /\ MinEffectSize \in 0 .. 100

\* The higher the rank, the larger the p-value that passes.
ASSUME CriticalAssumption ==
    \A m \in DOMAIN Critical : \A i \in 1 .. m :
        Critical[m][i] \in Nat /\ \A j \in 1 .. i : Critical[m][i] <= Critical[m][j]

\* "" is the first string in lexicographic order.
EmptyText == 0

KindOrder == <<"null", "bool", "int", "float", "string", "array", "object">>

\* Defective variant, for checking that the properties can fail: no chances for
\* a path whose container is gone.
ContainersOnly(s, p) == OpportunityCount(s, p)

\* opportunity: as OpportunityCount, and every response where no response of
\* the window held the container.
Opportunity(s, p) ==
    IF OpportunityCount(s, p) > 0 THEN OpportunityCount(s, p) ELSE s.samples

Hypothesis(p, kind, baseX, baseN, currX, currN) ==
    [path |-> p, kind |-> kind,
     baseX |-> baseX, baseN |-> baseN, currX |-> currX, currN |-> currN]

\* The difference of the two rates, as a fraction; a rate over nothing is 0.
Difference(h) ==
    LET b == IF h.baseN = 0 THEN 0 ELSE h.baseX * (IF h.currN = 0 THEN 1 ELSE h.currN)
        c == IF h.currN = 0 THEN 0 ELSE h.currX * (IF h.baseN = 0 THEN 1 ELSE h.baseN)
    IN [num |-> c - b,
        den |-> (IF h.baseN = 0 THEN 1 ELSE h.baseN) * (IF h.currN = 0 THEN 1 ELSE h.currN)]

Size(n) == IF n < 0 THEN -n ELSE n

Falls(h) == Difference(h).num < 0
Rises(h) == Difference(h).num > 0

\* Gate 2.
BigEnough(h) == 100 * Size(Difference(h).num) >= MinEffectSize * Difference(h).den

\* The presence of a path both windows hold: only a drop is put forward.
PresenceHypotheses(p, fb, fc) ==
    {h \in {Hypothesis(p, "FieldRemoved", fb.present, fb.seen, fc.present, fc.seen)} :
        Falls(h)}

NullHypotheses(p, fb, fc) ==
    {h \in {Hypothesis(p, "NullabilityIntroduced",
                       fb.null, fb.present, fc.null, fc.present)} : Rises(h)}

\* Defective variants, for checking that the properties can fail: value sets
\* compared although one of them is partial; the largest p-value ranked first.
EnumAlways(fb, fc) == Support(fb.strings) # {}

\* typeHypothesis: of the kinds but null, the one whose share moved most.  (A
\* tie goes to the first here; rounding decides it in the source, where the
\* two statistics are then the same.)
TypeHypotheses(p, fb, fc) ==
    LET baseN == fb.present - fb.null
        currN == fc.present - fc.null
        kinds == {i \in 2 .. 7 : fb.kinds[KindOrder[i]] + fc.kinds[KindOrder[i]] > 0}
        Of(i) == Hypothesis(p, "TypeChanged",
                            fb.kinds[KindOrder[i]], baseN, fc.kinds[KindOrder[i]], currN)
        Moved(i) == Size(Difference(Of(i)).num)
        best == {i \in kinds : /\ Moved(i) > 0
                               /\ \A j \in kinds : Moved(j) <= Moved(i)
                               /\ \A j \in kinds : j < i => Moved(j) < Moved(i)}
    IN IF baseN = 0 \/ currN = 0 THEN {} ELSE {Of(i) : i \in best}

\* Whether the two value sets can be compared at all.
EnumComparable(fb, fc) ==
    /\ ~fb.overflow /\ ~fc.overflow
    /\ Support(fb.strings) # {}

\* enumHypothesis: the commonest of the new strings, the first of them in
\* lexicographic order; none if that is the empty string.
EnumHypotheses(p, fb, fc) ==
    LET new == Support(fc.strings) \ Support(fb.strings)
        best == {v \in new :
                   /\ \A w \in new : fc.strings[w] <= fc.strings[v]
                   /\ \A w \in new : w < v => fc.strings[w] < fc.strings[v]}
    IN IF EnumComparable(fb, fc)
       THEN {Hypothesis(p, "EnumValueAdded", 0, fb.present, fc.strings[v], fc.present) :
               v \in best \ {EmptyText}}
       ELSE {}

HypothesesFor(p, base, curr) ==
    IF p \notin DOMAIN base.fields
    THEN LET f == curr.fields[p]
         IN {Hypothesis(p, "FieldAdded", 0, Opportunity(base, p), f.present, f.seen)}
    ELSE IF p \notin DOMAIN curr.fields
    THEN LET f == base.fields[p]
         IN {Hypothesis(p, "FieldRemoved", f.present, f.seen, 0, Opportunity(curr, p))}
    ELSE LET fb == base.fields[p]
             fc == curr.fields[p]
         IN PresenceHypotheses(p, fb, fc) \cup NullHypotheses(p, fb, fc)
              \cup TypeHypotheses(p, fb, fc) \cup EnumHypotheses(p, fb, fc)

\* Gates 1 and 2.
Tested(base, curr) ==
    IF base.samples < MinSamples \/ curr.samples < MinSamples THEN {}
    ELSE {h \in UNION {HypothesesFor(p, base, curr) :
                         p \in DOMAIN base.fields \cup DOMAIN curr.fields} : BigEnough(h)}

\* The source works the test out in floating point.  With more successes than
\* trials between the two windows the standard error is the root of a negative
\* number and the p-value no number, which no comparison holds of.
Undefined(h) == h.baseN > 0 /\ h.currN > 0 /\ h.baseX + h.currX > h.baseN + h.currN

\* twoProportionP.  The statistic is 0, the p-value 1, where it has nothing to
\* go by.
Statistic(h) ==
    LET n == h.baseN + h.currN
        x == h.baseX + h.currX
        d == h.currX * h.baseN - h.baseX * h.currN
    IN IF h.baseN = 0 \/ h.currN = 0 \/ x = 0 \/ x = n THEN [num |-> 0, den |-> 1]
       ELSE [num |-> d * d * n, den |-> h.baseN * h.currN * x * (n - x)]

Passes(z, i, m) == 100 * z.num >= Critical[m][i] * z.den

Before(g, h) == Statistic(g).num * Statistic(h).den > Statistic(h).num * Statistic(g).den

\* One of the hypotheses in S to rank next: nothing in S comes before it.  No
\* comparison holds of a p-value that is no number, so one of those may.
Foremost(S) ==
    CHOOSE h \in S : \A g \in S : Undefined(g) \/ Undefined(h) \/ ~Before(g, h)

\* benjaminiHochberg.  A cut never falls between equal p-values, so which of
\* two equals comes first makes no difference.
Ranked(tested) ==
    LET ranked[n \in 0 .. Cardinality(tested)] ==
            IF n = 0 THEN << >>
            ELSE LET above == ranked[n - 1]
                 IN Append(above, Foremost(tested \ {above[i] : i \in 1 .. n - 1}))
    IN ranked[Cardinality(tested)]

\* All up to the last rank that passes.
Survivors(tested) ==
    LET m == Cardinality(tested)
        sorted == Ranked(tested)
        Passing(i) == ~Undefined(sorted[i]) /\ Passes(Statistic(sorted[i]), i, m)
    IN {sorted[i] : i \in {i \in 1 .. m : \E j \in i .. m : Passing(j)}}

Detect(base, curr) == Survivors(Tested(base, curr))
=============================================================================
