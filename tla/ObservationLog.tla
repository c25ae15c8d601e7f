--------------------------- MODULE ObservationLog ---------------------------
(***************************************************************************)
(* What internal/store promises, without rings, slots or counters: a log of *)
(* observations, each filed under the bucket that contains its time.  An    *)
(* observation leaves the log in two ways only: its endpoint is forgotten   *)
(* because the store is full, or its bucket gives way to another bucket of  *)
(* its endpoint a whole number of ring turns away.                          *)
(***************************************************************************)
EXTENDS Naturals, FiniteSets

CONSTANTS
    Key,              \* endpoints
    Times,            \* times an observation may carry
    Duration,         \* width of a bucket
    Buckets,          \* ring depth
    MaxEndpoints,     \* cap on endpoints
    MaxLiveBuckets    \* cap on non-empty buckets

VARIABLE log          \* the observations held: records [key, at]

BucketOf(t) == t \div Duration

\* Two buckets that cannot be held at once.
Collide(b, c) == b # c /\ b % Buckets = c % Buckets

Keys == {o.key : o \in log}
Cells == {<<o.key, BucketOf(o.at)>> : o \in log}

Full == Cardinality(Keys) >= MaxEndpoints \/ Cardinality(Cells) > MaxLiveBuckets

Init == log = {}

Record(k, t) ==
    log' = {o \in log : ~(o.key = k /\ Collide(BucketOf(o.at), BucketOf(t)))}
             \cup {[key |-> k, at |-> t]}

Forget(k) ==
    /\ Full
    /\ log' = {o \in log : o.key # k}

Next ==
    \/ \E k \in Key, t \in Times : Record(k, t)
    \/ \E k \in Key : Forget(k)

Spec == Init /\ [][Next]_log
=============================================================================
