---------------------------- MODULE ValueSample -----------------------------
(***************************************************************************)
(* internal/valuesample and its use by the analyzer: the consumer files the *)
(* values of response bodies while the evaluator compares each path's       *)
(* values of this period with those of the period before, rotates the       *)
(* periods and publishes the paths worth a model's opinion.                 *)
(*                                                                          *)
(* Every operation of the store holds its mutex, so the evaluator's pass is *)
(* a step per path, a rotation and a publication, with bodies filed in      *)
(* between.  A value is a record: its kind, the size of a number, the       *)
(* format of a string.  It is kept with the period it was filed in, which   *)
(* the source does not keep, for stating properties.  Algorithm R replaces  *)
(* a value or not, at random: both are possible as soon as a reservoir is   *)
(* full, so the count of values seen is left out, like the other counters.  *)
(***************************************************************************)
EXTENDS Integers, Sequences, FiniteSets

CONSTANTS
    Path,          \* pairs of an endpoint and a path (valuesample.Key)
    Value,         \* scalar values
    Body,          \* bodies: the sequences of <<path, value>> a walk files
    MaxPaths,      \* Config.MaxPaths
    MaxPerPath,    \* Config.MaxPerPath
    MinValues,     \* fewest values to compare, 4 in the source
    MaxPeriods     \* bound on the periods

ASSUME BodyAssumption == Body \subseteq Seq(Path \X Value)
ASSUME LimitAssumption == {MaxPaths, MaxPerPath, MinValues, MaxPeriods} \subseteq Nat \ {0}

VARIABLES
    paths,        \* path -> its two reservoirs, for the paths sampled
    period,       \* the rotations so far
    stage,        \* the evaluator: "idle", "select" or "publish"
    todo,         \* the paths it has still to examine
    out,          \* the candidates it has found
    candidates    \* the candidates published last

vars == <<paths, period, stage, todo, out, candidates>>

Kept == [value : Value, filed : Nat]

Reason == {"magnitude", "format", "form"}

Candidate == [path : Path, baseline : Seq(Kept), current : Seq(Kept), reason : Reason]

\* Memory is bounded: no more paths than the cap and no reservoir beyond its
\* size, however much traffic goes past (valuesample.go, Limits).
TypeOK ==
    /\ DOMAIN paths \subseteq Path /\ Cardinality(DOMAIN paths) <= MaxPaths
    /\ \A k \in DOMAIN paths : \A side \in {paths[k].baseline, paths[k].current} :
          side \in Seq(Kept) /\ Len(side) <= MaxPerPath
    /\ period \in Nat
    /\ stage \in {"idle", "select", "publish"}
    /\ todo \subseteq Path
    /\ out \subseteq Candidate /\ candidates \subseteq Candidate
-----------------------------------------------------------------------------
(***************************************************************************)
(* DetectShift.                                                             *)
(***************************************************************************)
Numeric == {"int", "float"}

\* Sizes are absolute values.
ASSUME SizeAssumption == \A v \in Value : v.kind \in Numeric => v.size \in Nat

\* How many of vs are in S.
Among(vs, S) == Cardinality({i \in DOMAIN vs : vs[i].value \in S})

OfKinds(kinds) == {v \in Value : v.kind \in kinds}

\* medianAbs: the element at half the length of the sorted sizes, as a set
\* that is empty when too few are numbers.
Median(vs) ==
    LET n == Among(vs, OfKinds(Numeric))
        UpTo(v) == Among(vs, {w \in OfKinds(Numeric) : w.size <= v.size})
        Under(v) == Among(vs, {w \in OfKinds(Numeric) : w.size < v.size})
    IN IF n < MinValues THEN {}
       ELSE {v.size : v \in {v \in OfKinds(Numeric) :
                               Under(v) <= n \div 2 /\ n \div 2 < UpTo(v)}}

\* Defective variants, for checking that the properties can fail: any two
\* medians taken for a move; paths kept when nothing arrives; a baseline kept
\* for as long as nothing replaces it; reservoirs that grow.
AlwaysFar(b, c) == TRUE

FarApart(b, c) == b > 0 /\ c > 0 /\ (c >= 2 * b \/ 2 * c <= b)

\* dominantFormat: the format of four strings in five, none if there is none.
DominantFormat(vs) ==
    {f \in {v.format : v \in OfKinds({"string"})} :
        LET strings == Among(vs, OfKinds({"string"}))
            inFormat == Among(vs, {v \in OfKinds({"string"}) : v.format = f})
        IN strings > 0 /\ 10 * inFormat >= 8 * strings}

\* dominantKind: one of the commonest kinds, whichever the map's iteration
\* comes to first.
DominantKinds(vs) ==
    {k \in {v.kind : v \in Value} :
        \A v \in Value : Among(vs, OfKinds({v.kind})) <= Among(vs, OfKinds({k}))}

\* The shifts DetectShift may report, "none" for nil.
Shifts(base, curr) ==
    IF Len(base) < MinValues \/ Len(curr) < MinValues THEN {"none"}
    ELSE IF \E b \in Median(base), c \in Median(curr) : FarApart(b, c) THEN {"magnitude"}
    ELSE IF \E f \in DominantFormat(base), g \in DominantFormat(curr) : f # g THEN {"format"}
    ELSE {IF j = k THEN "none" ELSE "form" :
            j \in DominantKinds(base), k \in DominantKinds(curr)}
-----------------------------------------------------------------------------
Init ==
    /\ paths = << >>
    /\ period = 0
    /\ stage = "idle"
    /\ todo = {}
    /\ out = {}
    /\ candidates = {}

GrowsOn(values, v) == {Append(values, v)}

\* reservoir.offer: what the reservoir may hold afterwards.
Offered(values, v) ==
    IF Len(values) < MaxPerPath THEN {Append(values, v)}
    ELSE {values} \cup {[values EXCEPT ![j] = v] : j \in DOMAIN values}

\* Store.offer: what paths may be after a value; beyond the cap it is dropped.
Offer(held, k, v) ==
    IF k \in DOMAIN held
    THEN {[held EXCEPT ![k].current = r] : r \in Offered(held[k].current, v)}
    ELSE IF Cardinality(DOMAIN held) >= MaxPaths THEN {held}
    ELSE {[q \in DOMAIN held \cup {k} |->
              IF q = k THEN [baseline |-> << >>, current |-> r] ELSE held[q]] :
            r \in Offered(<< >>, v)}

\* What paths may be after the first n values of a body.
Filed(body) ==
    LET may[n \in 0 .. Len(body)] ==
          IF n = 0 THEN {paths}
          ELSE UNION {Offer(held, body[n][1], [value |-> body[n][2], filed |-> period]) :
                        held \in may[n - 1]}
    IN may

\* Observe, for a body drawn by the sample rate that parses: a walk of it
\* under one hold of the mutex.  Any other body changes counters alone.
Observe(body) ==
    /\ paths' \in Filed(body)[Len(body)]
    /\ UNCHANGED <<period, stage, todo, out, candidates>>

\* selectCandidates: the paths held when it starts.
Select ==
    /\ stage = "idle" /\ period < MaxPeriods
    /\ stage' = "select"
    /\ todo' = DOMAIN paths
    /\ out' = {}
    /\ UNCHANGED <<paths, period, candidates>>

\* Samples and DetectShift of one of them, in the order of a map's iteration.
\* A path once listed is still there: only Rotate forgets one.
Examine(k) ==
    /\ stage = "select" /\ k \in todo
    /\ todo' = todo \ {k}
    /\ \E shift \in Shifts(paths[k].baseline, paths[k].current) :
         out' = out \cup {c \in {[path |-> k, baseline |-> paths[k].baseline,
                                  current |-> paths[k].current, reason |-> shift]} :
                            c.reason # "none"}
    /\ UNCHANGED <<paths, period, stage, candidates>>

KeptForGood(held) ==
    [k \in DOMAIN held |-> [baseline |-> held[k].current, current |-> << >>]]

KeptUntilReplaced(held) ==
    [k \in DOMAIN held |->
        [baseline |-> IF held[k].current = << >> THEN held[k].baseline ELSE held[k].current,
         current |-> << >>]]

\* Rotate: a path of which nothing arrived this period is forgotten, with what
\* it had in the baseline.
Rotated(held) ==
    [k \in {k \in DOMAIN held : held[k].current # << >>} |->
        [baseline |-> held[k].current, current |-> << >>]]

Rotate ==
    /\ stage = "select" /\ todo = {}
    /\ paths' = Rotated(paths)
    /\ period' = period + 1
    /\ stage' = "publish"
    /\ UNCHANGED <<todo, out, candidates>>

Publish ==
    /\ stage = "publish"
    /\ candidates' = out
    /\ stage' = "idle"
    /\ UNCHANGED <<paths, period, todo, out>>

Next ==
    \/ \E body \in Body : Observe(body)
    \/ Select
    \/ \E k \in todo : Examine(k)
    \/ Rotate
    \/ Publish

Spec == Init /\ [][Next]_vars
-----------------------------------------------------------------------------
FiledIn(vs, p) == \A i \in DOMAIN vs : vs[i].filed = p

\* The two sides of every path are this period and the one before it and never
\* an older one, whatever arrives while the evaluator is at work (Rotate's
\* comment: "the two sides line up").
PeriodsApart ==
    \A k \in DOMAIN paths :
        FiledIn(paths[k].current, period) /\ FiledIn(paths[k].baseline, period - 1)

\* A path takes up one of MaxPaths places only while there is something to
\* compare: one that has stopped appearing gives way to new ones (Rotate).
RoomFreed ==
    \A k \in DOMAIN paths : paths[k].current # << >> \/ paths[k].baseline # << >>

SameValues(vs, ws) == \A v \in Value : Among(vs, {v}) = Among(ws, {v})

Tied(vs) == Cardinality(DominantKinds(vs)) > 1

\* Everything in one list of candidates compares the same two periods, each
\* with enough values, and they differ, unless the kinds of one are tied: then
\* dominantKind may return another kind for each, against the comment on
\* DetectShift ("returns nil when they did not" differ).
Grounded(list, p) ==
    \A c \in list :
        /\ FiledIn(c.baseline, p - 1) /\ FiledIn(c.current, p)
        /\ Len(c.baseline) >= MinValues /\ Len(c.current) >= MinValues
        /\ SameValues(c.baseline, c.current) => Tied(c.current)

\* The candidates published, and those being collected, are of the last period
\* judged, though bodies are filed between the paths examined and before the
\* rotation (analyze.go, selectCandidates).
CandidatesGrounded ==
    /\ Grounded(out, IF stage = "select" THEN period ELSE period - 1)
    /\ Grounded(candidates, IF stage = "publish" THEN period - 2 ELSE period - 1)
=============================================================================
