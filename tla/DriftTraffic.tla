---------------------------- MODULE DriftTraffic ----------------------------
(***************************************************************************)
(* What Drift's list of changes claims, against the traffic the generator    *)
(* makes of both specifications and the paths Extract finds in it.  Over     *)
(* the nodes in Node TLC compares every pair.  The harness scores the        *)
(* detector by this agreement: a claim no traffic bears out is a change      *)
(* missed, and a path that comes or goes unclaimed a false alarm.  A key is  *)
(* one step of a path here: none of these holds a dot.                       *)
(***************************************************************************)
EXTENDS Extract

CONSTANTS
    Node,         \* response schemas, whole and small enough for every path
    StringPool,   \* see Drift
    ArrayLen

Truth == INSTANCE Drift

\* The traffic of every node, the paths found in it and the values it holds,
\* each worked out once.
Traffic == [n \in Node |-> Truth!Bodies(n)]
Paths == [n \in Node |-> UNION {DOMAIN Extract(body).fields : body \in Traffic[n]}]
HeldBy == [n \in Node |-> UNION {Held(body) : body \in Traffic[n]}]

\* The values the bodies hold at a path.
ValuesAt(n, p) == {x[2] : x \in {y \in HeldBy[n] : y[1] = p}}

\* Every object that could hold the last step of p does.
Always(n, p) ==
    \A v \in ValuesAt(n, Front(p)) : v.kind = "object" => Last(p) \in DOMAIN v.fields

Nulls(S) == {v \in S : v.kind = "null"}
Texts(S) == {v.text : v \in {w \in S : w.kind = "string"}}

Claimed(a, b, kind) == {c.path : c \in Truth!OfKind(Truth!Walk(<< >>, a, b), kind)}

\* The type of a value at p changes nowhere on the way.
SameTypes(a, b) == Claimed(a, b, "type_changed") = {}

\* A path is claimed as added exactly when only the newer traffic has it, and
\* as removed exactly when the newer traffic has lost it or is the first to
\* leave it out (diff.go, the comments on Diff, walkObject and addSubtree).
PresenceClaims ==
    \A a, b \in Node : SameTypes(a, b) =>
        /\ Claimed(a, b, "field_added") = Paths[b] \ Paths[a]
        /\ Claimed(a, b, "field_removed") =
             {p \in Paths[a] : \/ p \notin Paths[b]
                               \/ Last(p) # Elem /\ Always(a, p) /\ ~Always(b, p)}

\* A path is claimed to have become nullable exactly when nulls are found
\* there in the newer traffic only, and the root, which has no path to find it
\* at, included (diff.go: walk; the comment on NullRate in generate.go).
NullClaims ==
    \A a, b \in Node : SameTypes(a, b) =>
        \A p \in (Paths[a] \cap Paths[b]) \cup {<< >>} :
            p \in Claimed(a, b, "nullability_introduced")
              <=> Nulls(ValuesAt(a, p)) = {} /\ Nulls(ValuesAt(b, p)) # {}

\* Where a type is claimed to change, no value but null is of a kind both
\* sides hold there, and where an enum is claimed to have grown, the newer
\* traffic holds a text the older one does not (walk, addedEnumValues).
ValueClaims ==
    \A a, b \in Node :
        /\ \A p \in Claimed(a, b, "type_changed") :
              {v.kind : v \in ValuesAt(a, p)} \cap {v.kind : v \in ValuesAt(b, p)}
                \subseteq {"null"}
        /\ \A p \in Claimed(a, b, "enum_value_added") :
              ~(Texts(ValuesAt(b, p)) \subseteq Texts(ValuesAt(a, p)))

\* A perfect list of findings scores no mistake, and for any list the kinds'
\* tallies add up to the totals (score.go).
Summed(score, part) == FoldSet(LAMBDA k, s : s + score.byKind[k][part], 0, Truth!Kinds)

ScoresAddUp ==
    \A a, b \in Node :
        LET truth == Truth!Walk(<< >>, a, b)
            other == Truth!Walk(<< >>, b, a)
        IN /\ Truth!Score(truth, truth).totals =
                [truePositives |-> Cardinality(truth), falsePositives |-> 0, falseNegatives |-> 0]
           /\ LET score == Truth!Score(other, truth)
              IN \A part \in DOMAIN score.totals : Summed(score, part) = score.totals[part]

ASSUME PresenceAgrees == PresenceClaims
ASSUME NullsAgree == NullClaims
ASSUME ValuesAgree == ValueClaims
ASSUME ScoreAgrees == ScoresAddUp
=============================================================================
