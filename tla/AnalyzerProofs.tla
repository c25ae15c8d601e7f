--------------------------- MODULE AnalyzerProofs ---------------------------
(***************************************************************************)
(* Proofs about Analyzer, for every set of endpoints, every stream of late    *)
(* and early samples, and every width of the windows and of the buckets.      *)
(***************************************************************************)
EXTENDS Analyzer, FiniteSetTheorems, TLAPS

Observations == [key : Key, at : Times]

\* evaluate's locals, as a record.
PassOK ==
    pass \in [now : 0 .. LastTime, todo : SUBSET Key, inHand : SUBSET Key,
              base : SUBSET Observations, compared : SUBSET Key, found : SUBSET Key,
              failed : SUBSET Key, steady : SUBSET Key]

\* A pass is under way or there is none; what is compared or failed is not
\* looked at again.
StageOK ==
    /\ stage = "waiting" => pass = NoPass
    /\ stage # "waiting" => pass.now # 0
    /\ stage = "scan" => pass.inHand = {}
    /\ stage = "report" => pass.todo = {}
    /\ pass.todo \cap (pass.compared \cup pass.failed) = {}

\* The times of evaluations are those of the ticker, late though they may be
\* served.
Tick(t) == t >= FirstTick /\ (t - FirstTick) % CurrentFor = 0

TicksOK ==
    /\ tick # 0 => Tick(tick)
    /\ pass.now # 0 => Tick(pass.now)

\* What was compared as current lay in the current window of its evaluation.
JudgedOK ==
    \A x \in judged :
        /\ Tick(x.now)
        /\ CurrentFrom(x.now) <= x.bucket * Duration /\ x.bucket * Duration < x.now

\* The tracker was told of each evaluation once, of its findings and no others.
ToldOK ==
    /\ Len(history) = IF stage = "report" THEN Len(seen) + 1 ELSE Len(seen)
    /\ \A i \in 1 .. Len(seen) : history[i] \subseteq seen[i]
    /\ stage = "report" =>
          /\ history[Len(history)] \subseteq pass.found
          /\ \A k \in emitted : Tracker!Survived(k, history)

\* The report published last is of findings that survived.
LatestOK ==
    \A k \in latest :
        /\ PersistWindows <= Len(seen)
        /\ \A i \in 0 .. PersistWindows - 1 : k \in seen[Len(seen) - i]

\* An endpoint with data on both sides all along is still to be looked at, or
\* was; while it is in hand its baseline is not empty.
SteadyOK ==
    /\ pass.steady \subseteq pass.todo \cup pass.compared \cup pass.failed
    /\ \A k \in pass.steady : HasBoth(log, k, pass.now)
    /\ pass.steady \cap pass.inHand # {} => pass.base # {}

Inv ==
    /\ TypeOK /\ PassOK /\ StageOK
    /\ TicksOK /\ JudgedOK
    /\ ToldOK /\ LatestOK
    /\ SteadyOK
-----------------------------------------------------------------------------
\* A multiple of c is c times its quotient.
LEMMA Multiple ==
    ASSUME NEW a \in Nat, NEW c \in Nat \ {0}, a % c = 0
    PROVE  a \div c \in Nat /\ a = c * (a \div c)
<1>1. a = c * (a \div c) + (a % c) /\ a \div c \in Nat
  OBVIOUS
<1> QED
  BY <1>1

\* A quotient is a natural number.
LEMMA Quotient == \A a \in Nat, c \in Nat \ {0} : a \div c \in Nat
OBVIOUS

\* Two multiples of c are c apart.
LEMMA MultiplesApart ==
    ASSUME NEW m \in Nat, NEW n \in Nat, NEW c \in Nat \ {0}, m < n
    PROVE  c * m + c <= c * n
OBVIOUS

\* Two times of the ticker are a current window apart.
LEMMA TicksApart ==
    ASSUME NEW s \in Nat, NEW t \in Nat, Tick(s), Tick(t), s < t
    PROVE  s <= CurrentFrom(t)
<1>1. /\ CurrentFor \in Nat \ {0} /\ FirstTick \in Nat
      /\ s - FirstTick \in Nat /\ t - FirstTick \in Nat
      /\ (s - FirstTick) % CurrentFor = 0 /\ (t - FirstTick) % CurrentFor = 0
  BY WidthAssumption DEF Tick
<1>2. PICK m \in Nat : s - FirstTick = CurrentFor * m
  BY <1>1, Multiple
<1>3. PICK n \in Nat : t - FirstTick = CurrentFor * n
  BY <1>1, Multiple
<1>4. m < n
  BY <1>1, <1>2, <1>3
<1>5. CurrentFor * m + CurrentFor <= CurrentFor * n
  BY <1>1, <1>4, MultiplesApart
<1>6. (s - FirstTick) + CurrentFor <= t - FirstTick
  BY <1>2, <1>3, <1>5
<1> QED
  BY <1>1, <1>6 DEF CurrentFrom

\* A bucket lies in one current window of the ticker at most.
LEMMA OneWindow ==
    ASSUME NEW s \in Nat, NEW t \in Nat, Tick(s), Tick(t), NEW start \in Nat,
           CurrentFrom(s) <= start, start < s, CurrentFrom(t) <= start, start < t
    PROVE  s = t
<1>1. CASE s < t
  BY <1>1, TicksApart, WidthAssumption DEF CurrentFrom
<1>2. CASE t < s
  BY <1>2, TicksApart, WidthAssumption DEF CurrentFrom
<1> QED
  BY <1>1, <1>2
-----------------------------------------------------------------------------
\* The locals of no evaluation.
LEMMA NoPassTyped ==
    /\ NoPass \in [now : 0 .. LastTime, todo : SUBSET Key, inHand : SUBSET Key,
                   base : SUBSET Observations, compared : SUBSET Key, found : SUBSET Key,
                   failed : SUBSET Key, steady : SUBSET Key]
    /\ NoPass.now = 0
    /\ \A S \in {NoPass.todo, NoPass.inHand, NoPass.base, NoPass.compared, NoPass.found,
                 NoPass.failed, NoPass.steady} : S = {}
BY TimeAssumption DEF NoPass

\* What TypeOK says of the pass, put as one would use it.
PassTypes(p) ==
    /\ p.found \subseteq p.compared /\ p.compared \cap p.failed = {}
    /\ p.inHand \subseteq p.todo /\ Cardinality(p.inHand) <= 1

\* The state apart from the pass keeps its types.
RestOK ==
    /\ clock \in 1 .. LastTime /\ tick \in 0 .. LastTime
    /\ log \subseteq Observations
    /\ history \in Seq(SUBSET Key) /\ emitted \subseteq Key
    /\ stage \in {"waiting", "scan", "current", "report"}
    /\ latest \subseteq Key
    /\ seen \in Seq(SUBSET Key)
    /\ judged \subseteq [key : Key, bucket : Nat, now : 1 .. LastTime]

\* What TypeOK says is the types of the pass and those of the rest.
LEMMA TypesParted ==
    /\ PassOK => (TypeOK <=> RestOK /\ PassTypes(pass))
    /\ PassOK' => (TypeOK' <=> RestOK' /\ PassTypes(pass)')
BY DEF PassOK, TypeOK, RestOK, PassTypes, Observations

\* The invariant holds at the start.
LEMMA InitInv == Init => Inv
<1> SUFFICES ASSUME Init PROVE Inv
  OBVIOUS
<1>1. PassOK
  BY NoPassTyped DEF Init, PassOK
<1>2. RestOK
  BY TimeAssumption DEF Init, Store!Init, Tracker!Init, RestOK
<1>3. PassTypes(pass)
  <2>1. Cardinality(pass.inHand) = 0
    BY NoPassTyped, FS_EmptySet DEF Init
  <2> QED
    BY <2>1, NoPassTyped DEF Init, PassTypes
<1>4. TypeOK
  BY <1>1, <1>2, <1>3, TypesParted
<1>5. StageOK /\ SteadyOK
  BY NoPassTyped DEF Init, StageOK, SteadyOK
<1>6. TicksOK /\ JudgedOK
  BY NoPassTyped DEF Init, TicksOK, JudgedOK
<1>7. ToldOK /\ LatestOK
  BY DEF Init, Tracker!Init, ToldOK, LatestOK
<1> QED
  BY <1>1, <1>4, <1>5, <1>6, <1>7 DEF Inv

\* Time passes.
LEMMA AdvanceInv ==
    ASSUME Inv, Advance
    PROVE  Inv'
<1>1. UNCHANGED <<log, history, emitted, stage, pass, latest, seen, judged>>
  BY DEF Advance, tracker
<1>2. clock' \in 1 .. LastTime
  BY TimeAssumption DEF Advance, Inv, TypeOK
<1>3. tick' = tick \/ (tick' = clock' /\ Tick(clock'))
  BY <1>2 DEF Advance, Tick
<1>4. RestOK'
  BY <1>1, <1>2, <1>3, TypesParted DEF Inv, RestOK
<1>5. PassOK' /\ PassTypes(pass)'
  BY <1>1, TypesParted DEF Inv, PassOK, PassTypes
<1>6. TypeOK'
  BY <1>4, <1>5, TypesParted
<1>7. StageOK' /\ TicksOK' /\ JudgedOK'
  BY <1>1, <1>3 DEF Inv, StageOK, TicksOK, JudgedOK, Tick
<1>8. ToldOK' /\ LatestOK' /\ SteadyOK'
  BY <1>1 DEF Inv, ToldOK, LatestOK, SteadyOK, Tracker!Survived
<1> QED
  BY <1>5, <1>6, <1>7, <1>8 DEF Inv

\* The store changes under an evaluation: whoever loses a side is no longer
\* steady.
LEMMA StoreInv ==
    ASSUME Inv, NEW k \in Key, (\E t \in Times : File(k, t)) \/ Evict(k)
    PROVE  Inv'
<1>1. /\ UNCHANGED <<clock, tick, history, emitted, stage, latest, seen, judged>>
      /\ pass' = [pass EXCEPT !.steady = {j \in @ : HasBoth(log', j, pass.now)}]
  BY DEF File, Evict, StoreChanged, tracker
<1>2. log' \subseteq Observations
  <2>1. log \subseteq Observations
    BY DEF Inv, TypeOK, Observations
  <2>2. CASE Evict(k)
    BY <2>1, <2>2 DEF Evict, Store!Forget
  <2>3. ASSUME NEW t \in Times, File(k, t)
        PROVE  log' \subseteq Observations
    BY <2>1, <2>3 DEF File, Store!Record, Observations
  <2> QED
    BY <2>2, <2>3
<1>3. /\ pass' \in [now : 0 .. LastTime, todo : SUBSET Key, inHand : SUBSET Key,
                    base : SUBSET Observations, compared : SUBSET Key, found : SUBSET Key,
                    failed : SUBSET Key, steady : SUBSET Key]
      /\ pass'.now = pass.now /\ pass'.todo = pass.todo /\ pass'.inHand = pass.inHand
      /\ pass'.base = pass.base /\ pass'.compared = pass.compared
      /\ pass'.found = pass.found /\ pass'.failed = pass.failed
      /\ pass'.steady = {j \in pass.steady : HasBoth(log', j, pass.now)}
  BY <1>1 DEF Inv, PassOK
<1>4. PassOK'
  BY <1>3 DEF PassOK
<1>5. RestOK' /\ PassTypes(pass)'
  BY <1>1, <1>2, <1>3, TypesParted DEF Inv, RestOK, PassTypes
<1>6. TypeOK'
  BY <1>4, <1>5, TypesParted
<1>7. StageOK'
  <2>1. stage = "waiting" => pass' = pass
    <3>1. ASSUME stage = "waiting" PROVE pass' = pass
      <4>1. pass.steady = {} /\ pass'.steady = {}
        BY <1>3, <3>1, NoPassTyped DEF Inv, StageOK
      <4> QED
        BY <1>3, <4>1 DEF Inv, PassOK
    <3> QED
      BY <3>1
  <2> QED
    BY <1>1, <1>3, <2>1 DEF Inv, StageOK
<1>8. TicksOK' /\ JudgedOK'
  BY <1>1, <1>3 DEF Inv, TicksOK, JudgedOK, Tick
<1>9. ToldOK' /\ LatestOK'
  BY <1>1, <1>3 DEF Inv, ToldOK, LatestOK, Tracker!Survived
<1>10. SteadyOK'
  BY <1>3 DEF Inv, SteadyOK
<1> QED
  BY <1>4, <1>6, <1>7, <1>8, <1>9, <1>10 DEF Inv

\* A tick is served, though it may have waited.
LEMMA BeginInv ==
    ASSUME Inv, Begin
    PROVE  Inv'
<1>1. /\ stage = "waiting" /\ tick # 0 /\ tick' = 0 /\ stage' = "scan"
      /\ UNCHANGED <<clock, log, history, emitted, latest, seen, judged>>
  BY DEF Begin, tracker
<1>2. Store!Keys \subseteq Key /\ tick \in 0 .. LastTime
  BY DEF Inv, TypeOK, Store!Keys
<1>3. /\ pass' \in [now : 0 .. LastTime, todo : SUBSET Key, inHand : SUBSET Key,
                    base : SUBSET Observations, compared : SUBSET Key, found : SUBSET Key,
                    failed : SUBSET Key, steady : SUBSET Key]
      /\ pass'.now = tick /\ pass'.todo = Store!Keys
      /\ pass'.steady = {j \in Store!Keys : HasBoth(log, j, tick)}
      /\ \A S \in {pass'.inHand, pass'.base, pass'.compared, pass'.found, pass'.failed} : S = {}
  BY <1>2 DEF Begin, NoPass
<1>4. PassOK'
  BY <1>3 DEF PassOK
<1>5. RestOK'
  BY <1>1, TimeAssumption, TypesParted DEF Inv, RestOK
<1>6. PassTypes(pass)'
  <2>1. Cardinality(pass'.inHand) = 0
    BY <1>3, FS_EmptySet
  <2> QED
    BY <1>3, <2>1 DEF PassTypes
<1>7. TypeOK'
  BY <1>4, <1>5, <1>6, TypesParted
<1>8. StageOK' /\ TicksOK' /\ JudgedOK'
  BY <1>1, <1>3 DEF Inv, StageOK, TicksOK, JudgedOK, Tick
<1>9. ToldOK' /\ LatestOK'
  BY <1>1 DEF Inv, ToldOK, LatestOK
<1>10. SteadyOK'
  BY <1>1, <1>3 DEF SteadyOK
<1> QED
  BY <1>4, <1>7, <1>8, <1>9, <1>10 DEF Inv

\* The baseline of the next endpoint: not empty, if it is steady.
LEMMA ReadBaselineInv ==
    ASSUME Inv, NEW k \in Key, ReadBaseline(k)
    PROVE  Inv'
<1>1. /\ stage = "scan" /\ stage' = "current" /\ k \in pass.todo
      /\ UNCHANGED <<clock, tick, log, history, emitted, latest, seen, judged>>
  BY DEF ReadBaseline, tracker
<1>2. BaselineSide(log, k, pass.now) \subseteq Observations
  BY DEF Inv, TypeOK, BaselineSide, Window, Observations
<1>3. /\ pass' \in [now : 0 .. LastTime, todo : SUBSET Key, inHand : SUBSET Key,
                    base : SUBSET Observations, compared : SUBSET Key, found : SUBSET Key,
                    failed : SUBSET Key, steady : SUBSET Key]
      /\ pass'.now = pass.now /\ pass'.todo = pass.todo /\ pass'.inHand = {k}
      /\ pass'.base = BaselineSide(log, k, pass.now) /\ pass'.compared = pass.compared
      /\ pass'.found = pass.found /\ pass'.failed = pass.failed
      /\ pass'.steady = pass.steady
  BY <1>2 DEF ReadBaseline, Inv, PassOK
<1>4. PassOK'
  BY <1>3 DEF PassOK
<1>5. RestOK'
  BY <1>1, TypesParted DEF Inv, RestOK
<1>6. PassTypes(pass)'
  <2>1. Cardinality(pass'.inHand) = 1
    BY <1>3, FS_Singleton
  <2> QED
    BY <1>1, <1>3, <2>1, TypesParted DEF Inv, PassTypes
<1>7. TypeOK'
  BY <1>4, <1>5, <1>6, TypesParted
<1>8. StageOK' /\ TicksOK' /\ JudgedOK'
  BY <1>1, <1>3 DEF Inv, StageOK, TicksOK, JudgedOK, Tick
<1>9. ToldOK' /\ LatestOK'
  BY <1>1 DEF Inv, ToldOK, LatestOK
<1>10. SteadyOK'
  BY <1>1, <1>3 DEF Inv, SteadyOK, HasBoth
<1> QED
  BY <1>4, <1>7, <1>8, <1>9, <1>10 DEF Inv

\* The pass after the endpoint in hand, which joins some of the three sets.
Settles(k, compared, found, failed) ==
    /\ pass' \in [now : 0 .. LastTime, todo : SUBSET Key, inHand : SUBSET Key,
                  base : SUBSET Observations, compared : SUBSET Key, found : SUBSET Key,
                  failed : SUBSET Key, steady : SUBSET Key]
    /\ pass'.now = pass.now /\ pass'.todo = pass.todo \ {k} /\ pass'.inHand = {}
    /\ pass'.base = {} /\ pass'.compared = pass.compared \cup compared
    /\ pass'.found = pass.found \cup found /\ pass'.failed = pass.failed \cup failed
    /\ pass'.steady = pass.steady

\* The endpoint in hand is done with: skipped, which no steady one is,
\* compared, or failed.
LEMMA SettledInv ==
    ASSUME Inv, NEW k \in Key, NEW C \in SUBSET {k}, NEW F \in SUBSET {k},
           NEW L \in SUBSET {k},
           Skip(k) \/ FailEndpoint(k) \/ \E drifted \in BOOLEAN : Compare(k, drifted),
           Settles(k, C, F, L), F \subseteq C, C \cap L = {},
           C \cup L = {} => pass.base = {} \/ CurrentSide(log, k, pass.now) = {}
    PROVE  Inv'
<1>1. /\ stage = "current" /\ stage' = "scan" /\ k \in pass.inHand
      /\ UNCHANGED <<clock, tick, log, history, emitted, latest, seen>>
  BY DEF Skip, FailEndpoint, Compare, NextEndpoint, tracker
<1>2. C \cap L = {} /\ F \subseteq C
  OBVIOUS
<1>3. Settles(k, C, F, L)
  OBVIOUS
<1> USE DEF Settles
<1>4. PassOK'
  BY <1>3 DEF PassOK
<1>5. \/ judged' = judged
      \/ judged' = judged \cup
           {[key |-> k, bucket |-> Store!BucketOf(o.at), now |-> pass.now] :
               o \in CurrentSide(log, k, pass.now)}
  BY DEF Skip, FailEndpoint, Compare
<1>6. \A x \in judged' \ judged :
         /\ x \in [key : Key, bucket : Nat, now : 1 .. LastTime]
         /\ x.now = pass.now
         /\ CurrentFrom(x.now) <= x.bucket * Duration /\ x.bucket * Duration < x.now
  <2> SUFFICES ASSUME NEW o \in CurrentSide(log, k, pass.now)
               PROVE  /\ Store!BucketOf(o.at) \in Nat /\ pass.now \in 1 .. LastTime
                      /\ CurrentFrom(pass.now) <= Store!BucketOf(o.at) * Duration
                      /\ Store!BucketOf(o.at) * Duration < pass.now
    BY <1>5
  <2>1. pass.now \in 1 .. LastTime
    BY <1>1, TimeAssumption DEF Inv, PassOK, StageOK
  <2>2. Store!BucketOf(o.at) \in Nat
    <3>1. o.at \in Nat /\ Duration \in Nat \ {0}
      BY TimeAssumption, WidthAssumption DEF Inv, TypeOK, CurrentSide, Window
    <3> QED
      BY <3>1, Zenon, Quotient DEF Store!BucketOf
  <2> QED
    BY <2>1, <2>2 DEF CurrentSide, Window
<1>7. RestOK'
  BY <1>1, <1>6, TypesParted DEF Inv, RestOK
<1>8. PassTypes(pass)'
  <2>1. Cardinality(pass'.inHand) = 0
    BY <1>3, FS_EmptySet
  <2>2. k \notin pass.compared /\ k \notin pass.failed
    BY <1>1, TypesParted DEF Inv, StageOK, PassTypes
  <2> QED
    BY <1>2, <1>3, <2>1, <2>2, TypesParted DEF Inv, PassTypes
<1>9. TypeOK'
  BY <1>4, <1>7, <1>8, TypesParted
<1>10. StageOK' /\ TicksOK'
  BY <1>1, <1>2, <1>3 DEF Inv, StageOK, TicksOK, Tick
<1>11. JudgedOK'
  BY <1>1, <1>6 DEF Inv, JudgedOK, TicksOK, StageOK, Tick
<1>12. ToldOK' /\ LatestOK'
  BY <1>1 DEF Inv, ToldOK, LatestOK
<1>13. SteadyOK'
  <2>1. k \in pass.steady => C \cup L # {}
    BY <1>1 DEF Inv, SteadyOK, HasBoth
  <2> QED
    BY <1>1, <1>3, <2>1 DEF Inv, SteadyOK
<1> QED
  BY <1>4, <1>9, <1>10, <1>11, <1>12, <1>13 DEF Inv

\* An endpoint in hand is compared, has no data, or fails.
LEMMA DoneWithInv ==
    ASSUME Inv, NEW k \in Key,
           Skip(k) \/ FailEndpoint(k) \/ \E drifted \in BOOLEAN : Compare(k, drifted)
    PROVE  Inv'
<1>1. {} \in SUBSET {k} /\ {k} \in SUBSET {k}
  OBVIOUS
<1>2. CASE Skip(k)
  <2>1. Settles(k, {}, {}, {})
    BY <1>2 DEF Settles, Skip, Inv, PassOK
  <2>2. pass.base = {} \/ CurrentSide(log, k, pass.now) = {}
    BY <1>2 DEF Skip
  <2> QED
    BY <1>1, <1>2, <2>1, <2>2, SettledInv
<1>3. CASE FailEndpoint(k)
  <2>1. Settles(k, {}, {}, {k})
    BY <1>3 DEF Settles, FailEndpoint, Without, Inv, PassOK
  <2> QED
    BY <1>1, <1>3, <2>1, SettledInv
<1>4. ASSUME NEW drifted \in BOOLEAN, Compare(k, drifted)
      PROVE  Inv'
  <2>1. CASE drifted
    <3>1. Settles(k, {k}, {k}, {})
      BY <1>4, <2>1 DEF Settles, Compare, Inv, PassOK
    <3> QED
      BY <1>1, <1>4, <3>1, SettledInv
  <2>2. CASE ~drifted
    <3>1. Settles(k, {k}, {}, {})
      BY <1>4, <2>2 DEF Settles, Compare, Inv, PassOK
    <3> QED
      BY <1>1, <1>4, <3>1, SettledInv
  <2> QED
    BY <2>1, <2>2
<1> QED
  BY <1>2, <1>3, <1>4

\* The tracker is told of the evaluation.
LEMMA ObserveFindingsInv ==
    ASSUME Inv, ObserveFindings
    PROVE  Inv'
<1>1. /\ stage = "scan" /\ pass.todo = {} /\ stage' = "report"
      /\ UNCHANGED <<clock, tick, log, pass, latest, seen, judged>>
  BY DEF ObserveFindings
<1>2. PICK lost \in SUBSET pass.found :
         /\ history' = Append(history, pass.found \ lost)
         /\ emitted' = {f \in pass.found \ lost : Tracker!Survived(f, history')}
  BY DEF ObserveFindings, Track, Tracker!Window
<1>3. pass.found \in SUBSET Key /\ history \in Seq(SUBSET Key) /\ seen \in Seq(SUBSET Key)
  BY DEF Inv, PassOK, TypeOK
<1>4. /\ history' \in Seq(SUBSET Key) /\ Len(history') = Len(history) + 1
      /\ Len(history) = Len(seen) /\ Len(seen) \in Nat
      /\ \A i \in 1 .. Len(history) : history'[i] = history[i]
      /\ history'[Len(history) + 1] = pass.found \ lost
  BY <1>1, <1>2, <1>3 DEF Inv, ToldOK
<1>5. PassOK' /\ PassTypes(pass)'
  BY <1>1, TypesParted DEF Inv, PassOK, PassTypes
<1>6. RestOK'
  BY <1>1, <1>2, <1>3, <1>4, TypesParted DEF Inv, RestOK
<1>7. TypeOK'
  BY <1>5, <1>6, TypesParted
<1>8. StageOK' /\ TicksOK' /\ JudgedOK' /\ LatestOK' /\ SteadyOK'
  BY <1>1 DEF Inv, StageOK, TicksOK, JudgedOK, Tick, LatestOK, SteadyOK
<1>9. ToldOK'
  BY <1>1, <1>2, <1>4 DEF Inv, ToldOK
<1> QED
  BY <1>5, <1>7, <1>8, <1>9 DEF Inv

\* The report: of findings the tracker let through, so of findings made in
\* each of the last evaluations.
LEMMA PublishInv ==
    ASSUME Inv, Publish
    PROVE  Inv'
<1>1. /\ stage = "report" /\ stage' = "waiting" /\ pass' = NoPass
      /\ latest' = Groups /\ seen' = Append(seen, pass.found)
      /\ UNCHANGED <<clock, tick, log, history, emitted, judged>>
  BY DEF Publish, tracker
<1>2. pass.found \in SUBSET Key /\ history \in Seq(SUBSET Key) /\ seen \in Seq(SUBSET Key)
  BY DEF Inv, PassOK, TypeOK
<1>3. /\ seen' \in Seq(SUBSET Key) /\ Len(seen') = Len(seen) + 1
      /\ Len(history) = Len(seen') /\ Len(seen) \in Nat
      /\ \A i \in 1 .. Len(seen) : seen'[i] = seen[i]
      /\ seen'[Len(seen')] = pass.found
  BY <1>1, <1>2 DEF Inv, ToldOK
<1>4. \A i \in 1 .. Len(seen') : history[i] \subseteq seen'[i]
  BY <1>1, <1>3 DEF Inv, ToldOK
<1>5. PassOK' /\ PassTypes(pass)'
  <2>1. Cardinality(NoPass.inHand) = 0
    BY NoPassTyped, FS_EmptySet
  <2> QED
    BY <1>1, <2>1, NoPassTyped DEF PassOK, PassTypes
<1>6. RestOK'
  <2>1. Groups \subseteq Key
    BY DEF Groups, Inv, PassOK
  <2> QED
    BY <1>1, <1>3, <2>1, TypesParted DEF Inv, RestOK
<1>7. TypeOK'
  BY <1>5, <1>6, TypesParted
<1>8. StageOK' /\ TicksOK' /\ JudgedOK' /\ SteadyOK'
  BY <1>1, NoPassTyped DEF Inv, StageOK, TicksOK, JudgedOK, Tick, SteadyOK
<1>9. ToldOK'
  BY <1>1, <1>3, <1>4 DEF ToldOK
<1>10. LatestOK'
  <2> SUFFICES ASSUME NEW k \in Groups
               PROVE  /\ PersistWindows <= Len(seen')
                      /\ \A i \in 0 .. PersistWindows - 1 : k \in seen'[Len(seen') - i]
    BY <1>1 DEF LatestOK
  <2>1. Tracker!Survived(k, history)
    BY <1>1 DEF Groups, Persisted, Inv, ToldOK
  <2>2. /\ PersistWindows <= Len(seen')
        /\ \A i \in 0 .. PersistWindows - 1 : k \in history[Len(seen') - i]
    BY <1>3, <2>1 DEF Tracker!Survived
  <2>3. \A i \in 0 .. PersistWindows - 1 : Len(seen') - i \in 1 .. Len(seen')
    BY <1>3, <2>2, PersistAssumption
  <2> QED
    BY <1>4, <2>2, <2>3
<1> QED
  BY <1>5, <1>7, <1>8, <1>9, <1>10 DEF Inv

\* Nothing happens.
LEMMA StutterInv ==
    ASSUME Inv, UNCHANGED vars
    PROVE  Inv'
<1>1. UNCHANGED <<clock, tick, log, history, emitted, stage, pass, latest, seen, judged>>
  BY DEF vars, tracker
<1>2. PassOK' /\ RestOK' /\ PassTypes(pass)'
  BY <1>1, TypesParted DEF Inv, PassOK, RestOK, PassTypes
<1>3. TypeOK'
  BY <1>2, TypesParted
<1>4. StageOK' /\ TicksOK' /\ JudgedOK' /\ LatestOK' /\ SteadyOK' /\ ToldOK'
  BY <1>1 DEF Inv, StageOK, TicksOK, JudgedOK, Tick, LatestOK, SteadyOK, ToldOK
<1> QED
  BY <1>2, <1>3, <1>4 DEF Inv

\* Every step keeps the invariant, ...
LEMMA StepInv == Inv /\ [Next]_vars => Inv'
BY AdvanceInv, StoreInv, BeginInv, ReadBaselineInv, DoneWithInv, ObserveFindingsInv,
   PublishInv, StutterInv
   DEF Next

\* ... so it always holds.
LEMMA InvHolds == Spec => []Inv
BY InitInv, StepInv, PTL DEF Spec
-----------------------------------------------------------------------------
\* For every set of endpoints and every width, the evaluator's locals and the
\* histories keep their types: no endpoint is both compared and failed.
THEOREM TypeCorrect == Spec => []TypeOK
<1>1. Inv => TypeOK
  BY DEF Inv
<1> QED
  BY <1>1, InvHolds, PTL

\* For every number of windows to survive and every cap on the map of streaks:
\* what is published was found in each of the last evaluations, those that
\* failed or skipped the endpoint included in the count (PublishedPersisted;
\* evaluate, DECISIONS.md on persistence).
THEOREM PublishedPersistedHolds == Spec => []PublishedPersisted
<1>1. Inv => PublishedPersisted
  BY DEF Inv, LatestOK, PublishedPersisted
<1> QED
  BY <1>1, InvHolds, PTL

\* For every width of buckets and windows, aligned or not, and however late
\* ticks are served: no bucket is current in two evaluations (OnceCurrent; the
\* windows of evaluate and its ticker).
THEOREM OnceCurrentHolds == Spec => []OnceCurrent
<1>1. Inv => OnceCurrent
  <2> SUFFICES ASSUME Inv, NEW u \in judged, NEW v \in judged, u.bucket = v.bucket
               PROVE  u.now = v.now
    BY DEF OnceCurrent
  <2>1. /\ u.now \in Nat /\ v.now \in Nat /\ u.bucket \in Nat /\ Duration \in Nat
        /\ Tick(u.now) /\ Tick(v.now)
        /\ CurrentFrom(u.now) <= u.bucket * Duration /\ u.bucket * Duration < u.now
        /\ CurrentFrom(v.now) <= u.bucket * Duration /\ u.bucket * Duration < v.now
    BY WidthAssumption, TimeAssumption DEF Inv, JudgedOK, TypeOK
  <2>2. u.bucket * Duration \in Nat
    BY <2>1
  <2> QED
    BY <2>1, <2>2, OneWindow
<1> QED
  BY <1>1, InvHolds, PTL

\* Whatever is filed, evicted or fails during an evaluation, of any number of
\* endpoints: one that had data on both sides throughout is compared, or
\* counted as failed (NothingOverlooked; evaluate's comment on failed).
THEOREM NothingOverlookedHolds == Spec => []NothingOverlooked
<1>1. Inv => NothingOverlooked
  BY DEF Inv, SteadyOK, StageOK, NothingOverlooked
<1> QED
  BY <1>1, InvHolds, PTL
=============================================================================
