------------------------------ MODULE Analyzer ------------------------------
(***************************************************************************)
(* cmd/apidrift/analyze.go: evaluate, on its ticker, while the consumer      *)
(* files samples in the store it reads.                                      *)
(*                                                                          *)
(* The store and the tracker are what they promise (ObservationLog, which    *)
(* Store implements, and Persistence, which Tracker implements); each holds  *)
(* its mutex for one call, so an evaluation is a step per call with samples  *)
(* filed and endpoints evicted in between.  The findings of an endpoint are  *)
(* one finding, and Detect makes it or not: module Detect says when.         *)
(* Counters, the order of a report and its severities are left out, and the  *)
(* candidates are in ValueSample.                                            *)
(***************************************************************************)
EXTENDS Integers, Sequences, FiniteSets

CONSTANTS
    Key,              \* endpoints
    Times,            \* times of observations
    LastTime,         \* bound on the clock
    Duration,         \* store.Config.BucketDuration
    Buckets,          \* store.Config.Buckets
    MaxEndpoints,     \* store.Config.MaxEndpoints
    MaxLiveBuckets,   \* store.Config.MaxLiveBuckets
    CurrentFor,       \* width of the current window, and the ticker's period
    BaselineFor,      \* width of the baseline window
    FirstTick,        \* time of the ticker's first tick
    PersistWindows,   \* detect.Config.PersistWindows
    MaxTracked,       \* detect.MaxTrackedFindings
    MaxHeld           \* bound on the observations held at once

ASSUME WidthAssumption == {Duration, CurrentFor, BaselineFor, FirstTick} \subseteq Nat \ {0}
ASSUME TimeAssumption == Times \subseteq Nat /\ LastTime \in Nat \ {0}
ASSUME PersistAssumption == PersistWindows \in Nat \ {0}

VARIABLES
    clock,     \* the time
    tick,      \* the tick waiting in the ticker's channel, 0 for none
    log,       \* the store's contents
    history,   \* the tracker: findings kept per window, ...
    emitted,   \* ... and what its latest call returned
    stage,     \* the evaluator: "waiting", "scan", "current" or "report"
    pass,      \* evaluate's locals
    latest,    \* the findings of the report published last
    seen,      \* history: the findings of each finished evaluation
    judged     \* history: the buckets compared as current, with the endpoint
               \* and the time of the evaluation

tracker == <<history, emitted>>
vars == <<clock, tick, log, tracker, stage, pass, latest, seen, judged>>

Store == INSTANCE ObservationLog
Tracker == INSTANCE Persistence WITH Finding <- Key

\* now, the endpoints still to look at, the one in hand and its baseline, the
\* endpoints compared, those with a finding, those whose comparison failed;
\* and, for stating properties, the endpoints that have had data on both sides
\* ever since the evaluation began.
NoPass == [now |-> 0, todo |-> {}, inHand |-> {}, base |-> {}, compared |-> {},
           found |-> {}, failed |-> {}, steady |-> {}]

TypeOK ==
    /\ clock \in 1 .. LastTime /\ tick \in 0 .. LastTime
    /\ log \subseteq [key : Key, at : Times]
    /\ history \in Seq(SUBSET Key) /\ emitted \subseteq Key
    /\ stage \in {"waiting", "scan", "current", "report"}
    /\ pass.now \in 0 .. LastTime /\ pass.base \subseteq [key : Key, at : Times]
    /\ \A S \in {pass.todo, pass.compared, pass.failed, pass.steady} : S \subseteq Key
    /\ pass.found \subseteq pass.compared /\ pass.compared \cap pass.failed = {}
    /\ pass.inHand \subseteq pass.todo /\ Cardinality(pass.inHand) <= 1
    /\ latest \subseteq Key
    /\ seen \in Seq(SUBSET Key)
    /\ judged \subseteq [key : Key, bucket : Nat, now : 1 .. LastTime]

Init ==
    /\ clock = 1 /\ tick = 0
    /\ Store!Init /\ Tracker!Init
    /\ stage = "waiting" /\ pass = NoPass
    /\ latest = {}
    /\ seen = << >> /\ judged = {}
-----------------------------------------------------------------------------
\* The observations Window returns for k, of a store that holds held: those of
\* the buckets that start in [from, to).
Window(held, k, from, to) ==
    {o \in held : LET start == Store!BucketOf(o.at) * Duration
                  IN o.key = k /\ from <= start /\ start < to}

\* Defective variants of the definitions below, for checking that the
\* properties can fail: a current window widened to whole buckets, a tracker
\* that is told of windows with findings only, a scan that ends at the first
\* failure, one that tries again.
CurrentFromRounded(now) == ((now - CurrentFor) \div Duration) * Duration
ToldWhenFound ==
    \/ pass.found # {} /\ Tracker!Window(pass.found, {})
    \/ pass.found = {} /\ UNCHANGED tracker
NoneAfter(k) == {}
TriedAgain(k) == pass.todo

\* The two windows: the current one ends at now, the baseline where it starts.
CurrentFrom(now) == now - CurrentFor
BaselineFrom(now) == CurrentFrom(now) - BaselineFor

BaselineSide(held, k, now) == Window(held, k, BaselineFrom(now), CurrentFrom(now))
CurrentSide(held, k, now) == Window(held, k, CurrentFrom(now), now)

HasBoth(held, k, now) == BaselineSide(held, k, now) # {} /\ CurrentSide(held, k, now) # {}

\* Time passes; the ticker's channel holds one tick and drops the next.
Advance ==
    /\ clock < LastTime
    /\ clock' = clock + 1
    /\ tick' = IF tick = 0 /\ clock' >= FirstTick /\ (clock' - FirstTick) % CurrentFor = 0
               THEN clock' ELSE tick
    /\ UNCHANGED <<log, tracker, stage, pass, latest, seen, judged>>

\* The store has changed: which endpoints still have data on both sides.
StoreChanged ==
    /\ pass' = [pass EXCEPT !.steady = {k \in @ : HasBoth(log', k, pass.now)}]
    /\ UNCHANGED <<clock, tick, tracker, stage, latest, seen, judged>>

\* The consumer files a sample observed at t; samples may reach it late, and
\* in any order.  One that is discarded on the way leaves nothing.
File(k, t) ==
    /\ t <= clock
    /\ Cardinality(log) < MaxHeld
    /\ Store!Record(k, t)
    /\ StoreChanged

\* The store evicts an endpoint.
Evict(k) ==
    /\ Store!Forget(k)
    /\ StoreChanged

\* runEvaluator receives a tick, and evaluate takes the endpoints from Keys.
Begin ==
    /\ stage = "waiting" /\ tick # 0
    /\ tick' = 0
    /\ stage' = "scan"
    /\ pass' = [NoPass EXCEPT !.now = tick, !.todo = Store!Keys,
                              !.steady = {k \in Store!Keys : HasBoth(log, k, tick)}]
    /\ UNCHANGED <<clock, log, tracker, latest, seen, judged>>

\* safeWindows reads the baseline of the next endpoint, in the order of a map.
ReadBaseline(k) ==
    /\ stage = "scan" /\ k \in pass.todo
    /\ stage' = "current"
    /\ pass' = [pass EXCEPT !.inHand = {k}, !.base = BaselineSide(log, k, pass.now)]
    /\ UNCHANGED <<clock, tick, log, tracker, latest, seen, judged>>

\* The loop goes on without k.
Without(k) == pass.todo \ {k}

NextEndpoint == stage' = "scan" /\ UNCHANGED <<clock, tick, log, tracker, latest, seen>>

\* safeWindows reads the current side, and one of the two has no data.
Skip(k) ==
    /\ stage = "current" /\ k \in pass.inHand
    /\ pass.base = {} \/ CurrentSide(log, k, pass.now) = {}
    /\ pass' = [pass EXCEPT !.todo = @ \ {k}, !.inHand = {}, !.base = {}]
    /\ NextEndpoint /\ UNCHANGED judged

\* Both have, and Detect returns: with a finding or with none.
Compare(k, drifted) ==
    /\ stage = "current" /\ k \in pass.inHand
    /\ pass.base # {} /\ CurrentSide(log, k, pass.now) # {}
    /\ pass' = [pass EXCEPT !.todo = @ \ {k}, !.inHand = {}, !.base = {},
                            !.compared = @ \cup {k},
                            !.found = @ \cup IF drifted THEN {k} ELSE {}]
    /\ judged' = judged \cup
         {[key |-> k, bucket |-> Store!BucketOf(o.at), now |-> pass.now] :
             o \in CurrentSide(log, k, pass.now)}
    /\ NextEndpoint

\* A panic in the merge of a window or in Detect, contained: the endpoint is
\* counted as failed and the loop goes on.
FailEndpoint(k) ==
    /\ stage = "current" /\ k \in pass.inHand
    /\ pass' = [pass EXCEPT !.todo = Without(k), !.inHand = {}, !.base = {},
                            !.failed = @ \cup {k}]
    /\ NextEndpoint /\ UNCHANGED judged

\* One call of the tracker per evaluation, over every endpoint's findings.
Track == \E lost \in SUBSET pass.found : Tracker!Window(pass.found, lost)

ObserveFindings ==
    /\ stage = "scan" /\ pass.todo = {}
    /\ Track
    /\ stage' = "report"
    /\ UNCHANGED <<clock, tick, log, pass, latest, seen, judged>>

\* Of the findings, those the tracker returned.
Persisted == pass.found \cap emitted

\* report.Build groups them by endpoint, and leaves out endpoints with none.
Groups == {k \in pass.compared : k \in Persisted}

\* The report is built and swapped in.
Publish ==
    /\ stage = "report"
    /\ latest' = Groups
    /\ seen' = Append(seen, pass.found)
    /\ stage' = "waiting" /\ pass' = NoPass
    /\ UNCHANGED <<clock, tick, log, tracker, judged>>

Next ==
    \/ Advance
    \/ \E k \in Key : \/ \E t \in Times : File(k, t)
                      \/ Evict(k) \/ ReadBaseline(k) \/ Skip(k) \/ FailEndpoint(k)
                      \/ \E drifted \in BOOLEAN : Compare(k, drifted)
    \/ Begin \/ ObserveFindings \/ Publish

Spec == Init /\ [][Next]_vars
-----------------------------------------------------------------------------
\* A finding is published only if every one of the last PersistWindows
\* evaluations compared the endpoint and made it, evaluations that found
\* nothing, skipped the endpoint or failed at it included in the count
\* (evaluate's comment on the tracker, DECISIONS.md on persistence).
PublishedPersisted ==
    stage = "waiting" => \A k \in latest :
        /\ PersistWindows <= Len(seen)
        /\ \A i \in 0 .. PersistWindows - 1 : k \in seen[Len(seen) - i]

\* No bucket is compared as current in two evaluations, however late a tick is
\* served and however late samples come: the windows a finding must survive
\* share no response, which is why surviving them means something.
OnceCurrent ==
    \A x, y \in judged : x.key = y.key /\ x.bucket = y.bucket => x.now = y.now

\* An endpoint that had data on both sides from the first to the last step of
\* an evaluation is compared for its report or counted there as failed, whatever
\* was filed, evicted or failed meanwhile: a silent report never means that
\* something was overlooked (evaluate's comment on failed).
NothingOverlooked ==
    stage = "report" => pass.steady \subseteq pass.compared \cup pass.failed
=============================================================================
