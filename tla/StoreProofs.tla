---------------------------- MODULE StoreProofs ----------------------------
(***************************************************************************)
(* For every number of endpoints, every ring depth and every cap: the       *)
(* store's counters are exact, its caps hold, its windows are honest, its   *)
(* freshest endpoint survives, and it implements ObservationLog.            *)
(***************************************************************************)
EXTENDS Store, FiniteSetTheorems, TLAPS

\* The slots of k's ring that hold a bucket, and the cells of one endpoint.
LiveSlots(k) == {i \in Slot : rings[k].buckets[i] # {}}

Finite == IsFiniteSet(DOMAIN rings)

\* Where Add stands agrees with what it has done.
PhaseOK ==
    /\ phase = "file" => adding.key \in DOMAIN rings
    /\ phase = "room" => adding.key \notin DOMAIN rings
    /\ phase \in {"room", "file"} => adding.at <= newest
    /\ phase = "idle" => live <= MaxLiveBuckets

\* No ring is empty, but the one NewRing has just made.
NoneEmpty ==
    \A k \in DOMAIN rings :
        \/ LiveSlots(k) # {}
        \/ phase = "file" /\ k = adding.key

WrittenInPast == \A k \in DOMAIN rings : rings[k].lastWrite <= newest

RoomyCaps == MaxEndpoints >= 2 /\ MaxLiveBuckets >= Buckets

Fresh(k) == rings[k].lastWrite = newest

\* Some endpoint is fresh, or the observation being added will make one so.
FreshInv ==
    RoomyCaps /\ newest # 0 =>
        \/ \E k \in DOMAIN rings : Fresh(k)
        \/ phase \in {"room", "file"} /\ adding.at = newest

Inv ==
    /\ TypeOK
    /\ Finite
    /\ Cardinality(DOMAIN rings) <= MaxEndpoints
    /\ CountsExact
    /\ WindowExact
    /\ PhaseOK
    /\ NoneEmpty
    /\ WrittenInPast
    /\ FreshInv
-----------------------------------------------------------------------------
\* Ordinals of buckets are naturals and slots are in range.
LEMMA BucketTypes ==
    /\ \A t \in Times : BucketStart(t) \in Nat
    /\ \A b \in Nat : SlotFor(b) \in Slot
    /\ Retention \in Nat /\ IsFiniteSet(Slot)
<1>1. \A t \in Times : BucketStart(t) \in Nat
  BY TimesAssumption, ShapeAssumption DEF BucketStart
<1>2. \A b \in Nat : SlotFor(b) \in Slot
  BY ShapeAssumption DEF SlotFor, Slot
<1>3. Retention \in Nat
  BY ShapeAssumption DEF Retention
<1>4. IsFiniteSet(Slot)
  BY ShapeAssumption, FS_Interval DEF Slot
<1> QED
  BY <1>1, <1>2, <1>3, <1>4

\* Filing keeps the types, ...
LEMMA FileType ==
    ASSUME TypeOK, phase = "file", adding.key \in DOMAIN rings, File
    PROVE  TypeOK'
<1> PICK k, t : k = adding.key /\ t = adding.at
  OBVIOUS
<1> PICK r, start : r = rings[k] /\ start = BucketStart(t)
  OBVIOUS
<1> PICK i : i = SlotFor(start)
  OBVIOUS
<1>1. k \in Key /\ t \in Times /\ r \in Ring /\ start \in Nat /\ i \in Slot
  BY BucketTypes DEF TypeOK
<1>2. Gain(r, start) \in Int
  BY DEF Gain
<1>3. Kept(r, start) \subseteq Times
  BY <1>1 DEF Kept, Ring
<1>4. [buckets |-> [r.buckets EXCEPT ![i] = Kept(r, start) \cup {t}],
       starts |-> [r.starts EXCEPT ![i] = start],
       lastWrite |-> Later(r.lastWrite, t),
       live |-> r.live + Gain(r, start)] \in Ring
  BY <1>1, <1>2, <1>3, TimesAssumption DEF Ring, Later
<1>5. rings' \in [DOMAIN rings -> Ring] /\ DOMAIN rings' = DOMAIN rings
  BY <1>1, <1>4 DEF File, TypeOK
<1> QED
  BY <1>1, <1>2, <1>5 DEF File, TypeOK

\* ... as an eviction does, ...
LEMMA EvictType ==
    ASSUME TypeOK, NEW v \in DOMAIN rings, Evict(v),
           UNCHANGED <<newest, phase, adding, answer>>
    PROVE  TypeOK'
<1>1. rings[v].live \in Int
  BY DEF TypeOK, Ring
<1> QED
  BY <1>1 DEF Evict, TypeOK

\* ... and every step.
LEMMA TypeInductive ==
    ASSUME TypeOK, phase = "file" => adding.key \in DOMAIN rings, [Next]_vars
    PROVE  TypeOK'
<1>1. ASSUME NEW t \in Times, RefuseStale(t) PROVE TypeOK'
  BY <1>1 DEF RefuseStale, TypeOK
<1>2. ASSUME NEW k \in Key, NEW t \in Times, BeginAdd(k, t) PROVE TypeOK'
  BY <1>2, TimesAssumption DEF BeginAdd, TypeOK, Later
<1>3. ASSUME NEW v \in DOMAIN rings, EvictForRoom(v) \/ EvictForBudget(v) PROVE TypeOK'
  BY <1>3, EvictType DEF EvictForRoom, EvictForBudget
<1>4. CASE NewRing
  <2>1. EmptyRing \in Ring
    BY DEF EmptyRing, Ring
  <2>2. DOMAIN rings' \subseteq Key /\ rings' \in [DOMAIN rings' -> Ring]
    BY <1>4, <2>1 DEF NewRing, TypeOK
  <2> QED
    BY <1>4, <2>2 DEF NewRing, TypeOK
<1>5. CASE File
  BY <1>5, FileType DEF File
<1>6. CASE EndAdd
  BY <1>6 DEF EndAdd, TypeOK
<1>7. CASE UNCHANGED vars
  BY <1>7 DEF vars, TypeOK
<1> QED
  BY <1>1, <1>2, <1>3, <1>4, <1>5, <1>6, <1>7 DEF Next

-----------------------------------------------------------------------------
\* The cells of a store with finitely many endpoints are finitely many.
LEMMA CellsFinite ==
    ASSUME Finite
    PROVE  IsFiniteSet(LiveCells) /\ Cardinality(LiveCells) \in Nat
<1>1. IsFiniteSet((DOMAIN rings) \X Slot)
  BY FS_Product, BucketTypes DEF Finite
<1>2. LiveCells \in SUBSET ((DOMAIN rings) \X Slot)
  BY DEF LiveCells
<1>3. IsFiniteSet(LiveCells)
  BY <1>1, <1>2, FS_Subset
<1> QED
  BY <1>3, FS_CardinalityType

\* Pairing a set with one endpoint does not change its size.
LEMMA PairedSize ==
    ASSUME NEW S, IsFiniteSet(S), NEW k
    PROVE  IsFiniteSet({k} \X S) /\ Cardinality({k} \X S) = Cardinality(S)
<1> DEFINE f == [i \in S |-> <<k, i>>]
<1>1. f \in Bijection(S, {k} \X S)
  <2>1. f \in [S -> {k} \X S] /\ \A i \in S : f[i] = <<k, i>>
    OBVIOUS
  <2>2. f \in Injection(S, {k} \X S)
    BY <2>1 DEF Injection, IsInjective
  <2>3. f \in Surjection(S, {k} \X S)
    BY <2>1 DEF Surjection
  <2> QED
    BY <2>2, <2>3 DEF Bijection
<1>2. ExistsBijection(S, {k} \X S)
  BY <1>1 DEF ExistsBijection
<1> QED
  BY <1>2, FS_Bijection

\* The live slots of a ring can be counted.
LEMMA SlotsFinite ==
    ASSUME NEW k
    PROVE  IsFiniteSet(LiveSlots(k)) /\ Cardinality(LiveSlots(k)) \in Nat
<1>1. LiveSlots(k) \in SUBSET Slot
  BY DEF LiveSlots
<1>2. IsFiniteSet(LiveSlots(k))
  BY <1>1, BucketTypes, FS_Subset
<1> QED
  BY <1>2, FS_CardinalityType

\* Evicting an endpoint takes exactly its own cells away.
LEMMA EvictCells ==
    ASSUME TypeOK, Finite, NEW v \in DOMAIN rings, Evict(v)
    PROVE  /\ Finite'
           /\ Cardinality(DOMAIN rings)' <= Cardinality(DOMAIN rings)
           /\ Cardinality(LiveCells)' = Cardinality(LiveCells) - Cardinality(LiveSlots(v))
           /\ \A k \in DOMAIN rings' : k # v /\ k \in DOMAIN rings /\ rings'[k] = rings[k]
<1>1. DOMAIN rings' = DOMAIN rings \ {v}
      /\ \A k \in DOMAIN rings' : rings'[k] = rings[k]
  BY DEF Evict
<1>2. Finite' /\ Cardinality(DOMAIN rings') <= Cardinality(DOMAIN rings)
  BY <1>1, FS_Subset DEF Finite
<1>3. LiveCells' = LiveCells \ ({v} \X LiveSlots(v))
  BY <1>1 DEF LiveCells, LiveSlots
<1>4. LiveCells \cap ({v} \X LiveSlots(v)) = {v} \X LiveSlots(v)
  BY DEF LiveCells, LiveSlots
<1>5. Cardinality(LiveCells') = Cardinality(LiveCells) - Cardinality({v} \X LiveSlots(v))
  <2> DEFINE C == {v} \X LiveSlots(v)
  <2>1. IsFiniteSet(LiveCells)
    BY CellsFinite
  <2> HIDE DEF C
  <2>2. Cardinality(LiveCells \ C) = Cardinality(LiveCells) - Cardinality(LiveCells \cap C)
    BY <2>1, FS_Difference
  <2>3. Cardinality(LiveCells') = Cardinality(LiveCells) - Cardinality(C)
    BY <2>2, <1>3, <1>4 DEF C
  <2> QED
    BY <2>3 DEF C
<1>6. Cardinality({v} \X LiveSlots(v)) = Cardinality(LiveSlots(v))
  BY SlotsFinite, PairedSize
<1> QED
  BY <1>1, <1>2, <1>5, <1>6
-----------------------------------------------------------------------------
\* The invariant holds at the start.
LEMMA InitInv == Init => Inv
<1> SUFFICES ASSUME Init PROVE Inv
  OBVIOUS
<1>1. TypeOK
  BY DEF Init, TypeOK
<1>2. DOMAIN rings = {}
  BY DEF Init
<1>3. Finite /\ Cardinality(DOMAIN rings) = 0 /\ Cardinality({}) = 0
  BY <1>2, FS_EmptySet DEF Finite
<1>4. LiveCells = {}
  BY <1>2 DEF LiveCells
<1>5. CountsExact
  BY <1>2, <1>3, <1>4 DEF CountsExact, Init
<1> QED
  BY <1>1, <1>2, <1>3, <1>5, CapAssumption
     DEF Inv, Init, WindowExact, PhaseOK, NoneEmpty, WrittenInPast, FreshInv

\* Steps that leave the rings alone.
LEMMA SameRings ==
    ASSUME Inv, TypeOK', rings' = rings, live' = live
    PROVE  /\ Finite' /\ Cardinality(DOMAIN rings)' <= MaxEndpoints
           /\ CountsExact' /\ WindowExact'
           /\ \A k \in DOMAIN rings : LiveSlots(k)' = LiveSlots(k)
<1> USE DEF Inv
<1>1. LiveCells' = LiveCells
  BY DEF LiveCells
<1> QED
  BY <1>1 DEF Finite, CountsExact, WindowExact, LiveSlots

\* The steps of Add, one by one: a stale observation is refused, ...
LEMMA RefuseInv ==
    ASSUME Inv, NEW t \in Times, RefuseStale(t)
    PROVE  Inv'
<1> USE DEF Inv
<1>1. TypeOK'
  BY DEF RefuseStale, TypeOK
<1>2. rings' = rings /\ live' = live /\ newest' = newest /\ phase' = phase /\ adding' = adding
  BY DEF RefuseStale
<1>3. PhaseOK' /\ NoneEmpty' /\ WrittenInPast' /\ FreshInv'
  BY <1>2 DEF PhaseOK, NoneEmpty, WrittenInPast, FreshInv, Fresh, LiveSlots
<1> QED
  BY <1>1, <1>2, <1>3, SameRings

\* ... a call begins, ...
LEMMA BeginInv ==
    ASSUME Inv, NEW k \in Key, NEW t \in Times, BeginAdd(k, t)
    PROVE  Inv'
<1> USE DEF Inv
<1>1. /\ rings' = rings /\ live' = live /\ phase = "idle" /\ newest' = Later(newest, t)
      /\ adding'.key = k /\ adding'.at = t
      /\ phase' = IF k \in DOMAIN rings THEN "file" ELSE "room"
  BY DEF BeginAdd
<1>2. TypeOK'
  BY TimesAssumption DEF BeginAdd, TypeOK, Later
<1>3. /\ newest \in Nat /\ newest' \in Nat /\ t \in Nat
      /\ newest <= newest' /\ t <= newest' /\ (newest' = newest \/ newest' = t)
  BY <1>1, TimesAssumption DEF TypeOK, Later
<1>4. PhaseOK' /\ NoneEmpty'
  BY <1>1, <1>3 DEF PhaseOK, NoneEmpty, LiveSlots
<1>5. WrittenInPast'
  BY <1>1, <1>3 DEF WrittenInPast, TypeOK, Ring
<1>6. FreshInv'
  BY <1>1, <1>3 DEF FreshInv, Fresh
<1> QED
  BY <1>1, <1>2, <1>4, <1>5, <1>6, SameRings

\* ... a call returns, ...
LEMMA EndInv ==
    ASSUME Inv, EndAdd
    PROVE  Inv'
<1> USE DEF Inv
<1>1. /\ rings' = rings /\ live' = live /\ phase = "budget" /\ newest' = newest
      /\ phase' = "idle" /\ adding' = adding
      /\ live <= MaxLiveBuckets \/ DOMAIN rings = {}
  BY DEF EndAdd
<1>2. TypeOK'
  BY DEF EndAdd, TypeOK
<1>3. live <= MaxLiveBuckets
  <2>1. ASSUME DOMAIN rings = {} PROVE live = 0
    <3>1. LiveCells = {}
      BY <2>1 DEF LiveCells
    <3> QED
      BY <3>1, FS_EmptySet DEF CountsExact
  <2> QED
    BY <2>1, <1>1, CapAssumption
<1>4. PhaseOK' /\ NoneEmpty' /\ WrittenInPast' /\ FreshInv'
  BY <1>1, <1>3 DEF PhaseOK, NoneEmpty, WrittenInPast, FreshInv, Fresh, LiveSlots
<1> QED
  BY <1>1, <1>2, <1>4, SameRings

\* Evicting the coldest of several endpoints leaves a fresh one if there was one.
LEMMA FreshSurvives ==
    ASSUME Inv, NEW v \in DOMAIN rings, Victim(v), NEW w \in DOMAIN rings, w # v,
           \E k \in DOMAIN rings : Fresh(k)
    PROVE  \E k \in DOMAIN rings \ {v} : Fresh(k)
<1>1. PICK k \in DOMAIN rings : Fresh(k)
  OBVIOUS
<1>2. CASE k # v
  BY <1>1, <1>2
<1>3. CASE k = v
  <2>1. /\ rings[v].lastWrite \in Nat /\ rings[w].lastWrite \in Nat /\ newest \in Nat
        /\ rings[w].lastWrite <= newest /\ rings[v].lastWrite = newest
    BY <1>1, <1>3 DEF Inv, TypeOK, Ring, WrittenInPast, Fresh
  <2>2. ~AgedOut(v)
    BY <2>1, BucketTypes DEF AgedOut
  <2>3. rings[v].lastWrite <= rings[w].lastWrite
    BY <2>2 DEF Victim
  <2> QED
    BY <2>1, <2>3 DEF Fresh
<1> QED
  BY <1>2, <1>3

\* With roomy caps, an eviction always has another endpoint to spare.
LEMMA AnotherEndpoint ==
    ASSUME Inv, RoomyCaps, NEW v \in DOMAIN rings,
           EvictForRoom(v) \/ EvictForBudget(v)
    PROVE  \E w \in DOMAIN rings : w # v
<1> SUFFICES ASSUME DOMAIN rings = {v} PROVE FALSE
  OBVIOUS
<1>1. Cardinality(DOMAIN rings) = 1
  BY FS_Singleton
<1>2. CASE EvictForRoom(v)
  BY <1>1, <1>2, CapAssumption DEF EvictForRoom, Room, RoomyCaps
<1>3. CASE EvictForBudget(v)
  <2> DEFINE C == {v} \X Slot
  <2>1. IsFiniteSet(C) /\ Cardinality(C) = Cardinality(Slot)
    BY PairedSize, BucketTypes
  <2>2. Cardinality(Slot) = Buckets
    BY FS_Interval, ShapeAssumption DEF Slot
  <2>3. LiveCells \in SUBSET C
    BY DEF LiveCells
  <2>4. Cardinality(LiveCells) <= Cardinality(C)
    BY <2>1, <2>3, FS_Subset
  <2>5. Cardinality(LiveCells) > MaxLiveBuckets /\ MaxLiveBuckets >= Buckets
    BY <1>3 DEF EvictForBudget, RoomyCaps, Inv, CountsExact
  <2>6. Cardinality(LiveCells) \in Nat
    BY CellsFinite DEF Inv
  <2> QED
    BY <2>1, <2>2, <2>4, <2>5, <2>6, ShapeAssumption, CapAssumption
<1> QED
  BY <1>2, <1>3

\* ... an endpoint is evicted, ...
LEMMA EvictInv ==
    ASSUME Inv, NEW v \in DOMAIN rings, EvictForRoom(v) \/ EvictForBudget(v)
    PROVE  Inv'
<1>1. /\ newest' = newest /\ phase' = phase /\ adding' = adding /\ answer' = answer
      /\ phase \in {"room", "budget"} /\ Victim(v) /\ Evict(v)
  BY DEF EvictForRoom, EvictForBudget
<1>2. TypeOK'
  BY <1>1, EvictType DEF Inv
<1>3. /\ Finite'
      /\ Cardinality(DOMAIN rings)' <= Cardinality(DOMAIN rings)
      /\ Cardinality(LiveCells)' = Cardinality(LiveCells) - Cardinality(LiveSlots(v))
      /\ \A k \in DOMAIN rings' : k # v /\ k \in DOMAIN rings /\ rings'[k] = rings[k]
  BY <1>1, EvictCells DEF Inv
<1>4. Cardinality(DOMAIN rings') <= MaxEndpoints
  BY <1>3, FS_CardinalityType, CapAssumption DEF Inv, Finite
<1>5. CountsExact'
  <2>1. rings[v].live = Cardinality(LiveSlots(v)) /\ live = Cardinality(LiveCells)
    BY DEF Inv, CountsExact, LiveSlots
  <2>2. live' = Cardinality(LiveCells)'
    BY <1>1, <1>3, <2>1 DEF Evict
  <2> QED
    BY <2>2, <1>3 DEF Inv, CountsExact
<1>6. WindowExact' /\ PhaseOK' /\ WrittenInPast'
  BY <1>1, <1>3 DEF Inv, WindowExact, PhaseOK, WrittenInPast
<1>7. NoneEmpty'
  BY <1>1, <1>3 DEF Inv, NoneEmpty, LiveSlots
<1>8. FreshInv'
  <2> SUFFICES ASSUME RoomyCaps, newest # 0, \E k \in DOMAIN rings : Fresh(k)
               PROVE  \E k \in DOMAIN rings' : Fresh(k)'
    BY <1>1 DEF Inv, FreshInv, RoomyCaps
  <2>1. PICK w \in DOMAIN rings : w # v
    BY AnotherEndpoint
  <2>2. PICK k \in DOMAIN rings \ {v} : Fresh(k)
    BY <2>1, <1>1, FreshSurvives
  <2>3. k \in DOMAIN rings' /\ rings'[k] = rings[k]
    BY <2>2, <1>1 DEF Evict
  <2> QED
    BY <2>2, <2>3, <1>1 DEF Fresh
<1> QED
  BY <1>2, <1>3, <1>4, <1>5, <1>6, <1>7, <1>8 DEF Inv

\* ... a ring is made, ...
LEMMA NewRingInv ==
    ASSUME Inv, NewRing
    PROVE  Inv'
<1> USE DEF Inv
<1> PICK k : k = adding.key
  OBVIOUS
<1>1. /\ newest' = newest /\ live' = live /\ adding' = adding /\ phase = "room"
      /\ phase' = "file" /\ Room /\ k \in Key /\ k \notin DOMAIN rings
      /\ DOMAIN rings' = DOMAIN rings \cup {k} /\ rings'[k] = EmptyRing
      /\ \A j \in DOMAIN rings : rings'[j] = rings[j]
  BY DEF NewRing, TypeOK, PhaseOK
<1>2. TypeOK'
  BY TypeInductive DEF Next, PhaseOK
<1>3. Finite' /\ Cardinality(DOMAIN rings)' <= MaxEndpoints
  <2>1. /\ Cardinality(DOMAIN rings) < MaxEndpoints
        /\ Cardinality(DOMAIN rings) \in Nat
    BY <1>1, FS_CardinalityType DEF Room, Finite
  <2>2. /\ IsFiniteSet(DOMAIN rings')
        /\ Cardinality(DOMAIN rings') = Cardinality(DOMAIN rings) + 1
    BY <1>1, FS_AddElement DEF Finite
  <2> QED
    BY <2>1, <2>2, CapAssumption DEF Finite
<1>4. \A i \in Slot : rings'[k].buckets[i] = {}
  BY <1>1 DEF EmptyRing
<1>5. CountsExact'
  <2>1. LiveCells' = LiveCells
    BY <1>1, <1>4 DEF LiveCells
  <2>2. {i \in Slot : rings'[k].buckets[i] # {}} = {} /\ rings'[k].live = 0
    BY <1>1, <1>4 DEF EmptyRing
  <2>3. rings'[k].live = Cardinality({i \in Slot : rings'[k].buckets[i] # {}})
    BY <2>2, FS_EmptySet
  <2>4. \A j \in DOMAIN rings :
           rings'[j].live = Cardinality({i \in Slot : rings'[j].buckets[i] # {}})
    BY <1>1 DEF CountsExact
  <2> QED
    BY <2>1, <2>3, <2>4, <1>1 DEF CountsExact
<1>6. WindowExact' /\ PhaseOK' /\ FreshInv'
  BY <1>1, <1>4 DEF WindowExact, PhaseOK, FreshInv, Fresh
<1>7. NoneEmpty' /\ WrittenInPast'
  BY <1>1 DEF NoneEmpty, WrittenInPast, LiveSlots, EmptyRing, TypeOK
<1> QED
  BY <1>2, <1>3, <1>5, <1>6, <1>7

\* What File does to the one ring and the one slot it touches.
LEMMA FileEffect ==
    ASSUME Inv, File, NEW k, k = adding.key, NEW start, start = BucketStart(adding.at),
           NEW i, i = SlotFor(start)
    PROVE  /\ k \in DOMAIN rings /\ DOMAIN rings' = DOMAIN rings
           /\ start \in Nat /\ i \in Slot
           /\ \A j \in DOMAIN rings : j # k => rings'[j] = rings[j]
           /\ \A j \in Slot : j # i =>
                 /\ rings'[k].buckets[j] = rings[k].buckets[j]
                 /\ rings'[k].starts[j] = rings[k].starts[j]
           /\ rings'[k].buckets[i] = Kept(rings[k], start) \cup {adding.at}
           /\ rings'[k].starts[i] = start
           /\ rings'[k].lastWrite = Later(rings[k].lastWrite, adding.at)
           /\ rings'[k].live = rings[k].live + Gain(rings[k], start)
           /\ live' = live + Gain(rings[k], start)
           /\ Gain(rings[k], start) = IF rings[k].buckets[i] = {} THEN 1 ELSE 0
<1>1. k \in DOMAIN rings /\ start \in Nat /\ i \in Slot /\ rings[k] \in Ring
  BY BucketTypes DEF Inv, TypeOK, PhaseOK, File
<1>2. DOMAIN rings' = DOMAIN rings /\ \A j \in DOMAIN rings : j # k => rings'[j] = rings[j]
  BY DEF File
<1>3. rings'[k] =
        [buckets |-> [rings[k].buckets EXCEPT ![i] = Kept(rings[k], start) \cup {adding.at}],
         starts |-> [rings[k].starts EXCEPT ![i] = start],
         lastWrite |-> Later(rings[k].lastWrite, adding.at),
         live |-> rings[k].live + Gain(rings[k], start)]
      /\ live' = live + Gain(rings[k], start)
  BY <1>1 DEF File
<1>4. Gain(rings[k], start) = IF rings[k].buckets[i] = {} THEN 1 ELSE 0
  BY DEF Gain, Kept, Rotates
<1>5. /\ rings[k].buckets \in [Slot -> SUBSET Times] /\ rings[k].starts \in [Slot -> Nat]
  BY <1>1 DEF Ring
<1>6. /\ \A j \in Slot : j # i =>
                 /\ rings'[k].buckets[j] = rings[k].buckets[j]
                 /\ rings'[k].starts[j] = rings[k].starts[j]
      /\ rings'[k].buckets[i] = Kept(rings[k], start) \cup {adding.at}
      /\ rings'[k].starts[i] = start
  BY <1>1, <1>3, <1>5
<1>7. /\ rings'[k].lastWrite = Later(rings[k].lastWrite, adding.at)
      /\ rings'[k].live = rings[k].live + Gain(rings[k], start)
  BY <1>3
<1> QED
  BY <1>1, <1>2, <1>3, <1>4, <1>6, <1>7

\* ... the observation is filed, by rotation or by merge, ...
LEMMA FileInv ==
    ASSUME Inv, File
    PROVE  Inv'
<1> PICK k : k = adding.key
  OBVIOUS
<1> PICK start : start = BucketStart(adding.at)
  OBVIOUS
<1> PICK i : i = SlotFor(start)
  OBVIOUS
<1>0. /\ k \in DOMAIN rings /\ DOMAIN rings' = DOMAIN rings
      /\ start \in Nat /\ i \in Slot
      /\ \A j \in DOMAIN rings : j # k => rings'[j] = rings[j]
      /\ \A j \in Slot : j # i =>
            /\ rings'[k].buckets[j] = rings[k].buckets[j]
            /\ rings'[k].starts[j] = rings[k].starts[j]
      /\ rings'[k].buckets[i] = Kept(rings[k], start) \cup {adding.at}
      /\ rings'[k].starts[i] = start
      /\ rings'[k].lastWrite = Later(rings[k].lastWrite, adding.at)
      /\ rings'[k].live = rings[k].live + Gain(rings[k], start)
      /\ live' = live + Gain(rings[k], start)
      /\ Gain(rings[k], start) = IF rings[k].buckets[i] = {} THEN 1 ELSE 0
  BY FileEffect
<1>1. /\ newest' = newest /\ adding' = adding /\ phase = "file" /\ phase' = "budget"
      /\ adding.at <= newest /\ adding.at \in Nat /\ newest \in Nat
      /\ rings[k] \in Ring
  BY <1>0, TimesAssumption DEF File, Inv, TypeOK, PhaseOK
<1>2. TypeOK'
  BY TypeInductive DEF Next, Inv, PhaseOK
<1>3. Finite' /\ Cardinality(DOMAIN rings)' <= MaxEndpoints
  BY <1>0 DEF Inv, Finite
<1>4. CountsExact'
  <2>1. LiveCells' = LiveCells \cup {<<k, i>>}
    BY <1>0 DEF LiveCells
  <2>2. <<k, i>> \in LiveCells <=> rings[k].buckets[i] # {}
    BY <1>0 DEF LiveCells
  <2>3. Cardinality(LiveCells') =
          IF <<k, i>> \in LiveCells THEN Cardinality(LiveCells) ELSE Cardinality(LiveCells) + 1
    BY <2>1, CellsFinite, FS_AddElement DEF Inv
  <2>4. live' = Cardinality(LiveCells')
    BY <2>2, <2>3, <1>0, CellsFinite DEF Inv, CountsExact
  <2>5. LiveSlots(k)' = LiveSlots(k) \cup {i}
    BY <1>0 DEF LiveSlots
  <2>6. Cardinality(LiveSlots(k)') =
          IF i \in LiveSlots(k) THEN Cardinality(LiveSlots(k)) ELSE Cardinality(LiveSlots(k)) + 1
    BY <2>5, SlotsFinite, FS_AddElement
  <2>7. i \in LiveSlots(k) <=> rings[k].buckets[i] # {}
    BY <1>0 DEF LiveSlots
  <2>8. rings'[k].live = Cardinality(LiveSlots(k)')
    <3>1. rings[k].live = Cardinality(LiveSlots(k))
      BY <1>0 DEF Inv, CountsExact, LiveSlots
    <3>2. rings'[k].live = rings[k].live + IF rings[k].buckets[i] = {} THEN 1 ELSE 0
      BY <1>0
    <3> QED
      BY <2>6, <2>7, <3>1, <3>2, SlotsFinite
  <2>9. ASSUME NEW j \in DOMAIN rings', j # k
        PROVE  rings'[j].live = Cardinality({s \in Slot : rings'[j].buckets[s] # {}})
    <3>1. j \in DOMAIN rings /\ rings'[j] = rings[j]
      BY <2>9, <1>0
    <3>2. rings[j].live = Cardinality({s \in Slot : rings[j].buckets[s] # {}})
      BY <3>1 DEF Inv, CountsExact
    <3> QED
      BY <3>1, <3>2
  <2> QED
    BY <2>4, <2>8, <2>9, <1>0 DEF CountsExact, LiveSlots
<1>5. WindowExact'
  <2> SUFFICES ASSUME NEW j \in DOMAIN rings', NEW s \in Slot, NEW t \in rings'[j].buckets[s]
               PROVE  BucketStart(t) = rings'[j].starts[s] /\ SlotFor(BucketStart(t)) = s
    BY DEF WindowExact
  <2>1. CASE j # k \/ s # i
    BY <2>1, <1>0 DEF Inv, WindowExact
  <2>2. CASE j = k /\ s = i /\ t = adding.at
    BY <2>2, <1>0
  <2>3. CASE j = k /\ s = i /\ t # adding.at
    <3>1. t \in rings[k].buckets[i] /\ rings[k].starts[i] = start
      BY <2>3, <1>0 DEF Kept, Rotates
    <3> QED
      BY <2>3, <3>1, <1>0 DEF Inv, WindowExact
  <2> QED
    BY <2>1, <2>2, <2>3
<1>6. PhaseOK'
  BY <1>1 DEF PhaseOK
<1>7. NoneEmpty'
  BY <1>0, <1>1 DEF Inv, NoneEmpty, LiveSlots
<1>8. rings'[k].lastWrite <= newest /\ (Fresh(k) \/ adding.at = newest => rings'[k].lastWrite = newest)
  BY <1>0, <1>1 DEF Inv, WrittenInPast, Fresh, Later, Ring
<1>9. WrittenInPast' /\ FreshInv'
  BY <1>0, <1>1, <1>8 DEF Inv, WrittenInPast, FreshInv, Fresh, RoomyCaps
<1> QED
  BY <1>2, <1>3, <1>4, <1>5, <1>6, <1>7, <1>9 DEF Inv

\* ... or nothing happens.
LEMMA StutterInv ==
    ASSUME Inv, UNCHANGED vars
    PROVE  Inv'
<1>1. TypeOK'
  BY DEF Inv, vars, TypeOK
<1>2. PhaseOK' /\ NoneEmpty' /\ WrittenInPast' /\ FreshInv'
  BY DEF Inv, vars, PhaseOK, NoneEmpty, WrittenInPast, FreshInv, Fresh, LiveSlots
<1> QED
  BY <1>1, <1>2, SameRings DEF Inv, vars

\* The invariant always holds.
THEOREM InvHolds == Spec => []Inv
<1>1. Inv /\ [Next]_vars => Inv'
  BY RefuseInv, BeginInv, EvictInv, NewRingInv, FileInv, EndInv, StutterInv DEF Next
<1> QED
  BY InitInv, <1>1, PTL DEF Spec

\* Every variable keeps its type.
THEOREM TypeCorrect == Spec => []TypeOK
<1>1. Inv => TypeOK
  BY DEF Inv
<1> QED
  BY InvHolds, <1>1, PTL

\* The counters that enforce the budget equal what the rings hold.
THEOREM CountsExactHolds == Spec => []CountsExact
<1>1. Inv => CountsExact
  BY DEF Inv
<1> QED
  BY InvHolds, <1>1, PTL

\* Both caps hold, whatever their values.
THEOREM WithinCapsHolds == Spec => []WithinCaps
<1>1. Inv => WithinCaps
  BY DEF Inv, WithinCaps, CountsExact, PhaseOK
<1> QED
  BY InvHolds, <1>1, PTL

\* A slot holds observations of the bucket it says it holds.
THEOREM WindowExactHolds == Spec => []WindowExact
<1>1. Inv => WindowExact
  BY DEF Inv
<1> QED
  BY InvHolds, <1>1, PTL

\* The freshest endpoint outlives every eviction when the caps are roomy.
THEOREM FreshestKeptHolds == Spec => []FreshestKept
<1>1. Inv => FreshestKept
  BY DEF Inv, FreshestKept, FreshInv, RoomyCaps, Fresh
<1> QED
  BY InvHolds, <1>1, PTL
-----------------------------------------------------------------------------
\* The observations that rings r hold.
HeldIn(r) == {o \in {[key |-> k, at |-> t] : k \in DOMAIN r, t \in Times} :
                \E i \in Slot : o.at \in r[o.key].buckets[i]}

\* What the rings hold, as a set of observations.
LEMMA HeldIs ==
    ASSUME NEW r
    PROVE  /\ \A k, t : [key |-> k, at |-> t] \in HeldIn(r)
                <=> /\ k \in DOMAIN r /\ t \in Times
                    /\ \E i \in Slot : t \in r[k].buckets[i]
           /\ \A o \in HeldIn(r) : o = [key |-> o.key, at |-> o.at]
<1> DEFINE S == {[key |-> k, at |-> t] : k \in DOMAIN r, t \in Times}
<1>1. \A o \in S : o = [key |-> o.key, at |-> o.at] /\ o.key \in DOMAIN r /\ o.at \in Times
  OBVIOUS
<1>2. ASSUME NEW k \in DOMAIN r, NEW t \in Times
      PROVE  [key |-> k, at |-> t] \in S
  OBVIOUS
<1> HIDE DEF S
<1>3. HeldIn(r) = {o \in S : \E i \in Slot : o.at \in r[o.key].buckets[i]}
  BY DEF HeldIn, S
<1>4. ASSUME NEW k, NEW t
      PROVE  [key |-> k, at |-> t] \in HeldIn(r)
             <=> /\ k \in DOMAIN r /\ t \in Times
                 /\ \E i \in Slot : t \in r[k].buckets[i]
  <2> PICK o : o = [key |-> k, at |-> t]
    OBVIOUS
  <2>1. o.key = k /\ o.at = t
    OBVIOUS
  <2>2. o \in S <=> k \in DOMAIN r /\ t \in Times
    BY <1>1, <1>2, <2>1
  <2> QED
    BY <1>3, <2>1, <2>2
<1> QED
  BY <1>1, <1>3, <1>4

\* What is left of one endpoint's observations when another is filed.
LEMMA FileKeeps ==
    ASSUME Inv, File, NEW k, k = adding.key, NEW t, t = adding.at, NEW u \in Times
    PROVE  (\E j \in Slot : u \in rings'[k].buckets[j])
             <=> \/ u = t
                 \/ /\ \E j \in Slot : u \in rings[k].buckets[j]
                    /\ ~Log!Collide(BucketStart(u), BucketStart(t))
<1> PICK start : start = BucketStart(t)
  OBVIOUS
<1> PICK i : i = SlotFor(start)
  OBVIOUS
<1>1. /\ k \in DOMAIN rings /\ i \in Slot
      /\ \A j \in Slot : j # i => rings'[k].buckets[j] = rings[k].buckets[j]
      /\ rings'[k].buckets[i] = Kept(rings[k], start) \cup {t}
  BY FileEffect
<1>2. \A j \in Slot : u \in rings[k].buckets[j] =>
         BucketStart(u) = rings[k].starts[j] /\ SlotFor(BucketStart(u)) = j
  BY <1>1 DEF Inv, WindowExact
<1>3. \A j \in Slot : u \in rings[k].buckets[j] /\ j # i
         => ~Log!Collide(BucketStart(u), start)
  BY <1>2 DEF Log!Collide, SlotFor
<1>4. u \in rings[k].buckets[i] =>
         (u \in Kept(rings[k], start) <=> ~Log!Collide(BucketStart(u), start))
  BY <1>1, <1>2 DEF Log!Collide, SlotFor, Kept, Rotates
<1>5. u \in Kept(rings[k], start) => u \in rings[k].buckets[i]
  BY DEF Kept
<1> QED
  BY <1>1, <1>2, <1>3, <1>4, <1>5

\* Filing an observation records it, and drops what its slot held of a bucket
\* that is another one.
LEMMA FileRecords ==
    ASSUME Inv, File, NEW k, k = adding.key, NEW t, t = adding.at
    PROVE  Log!Record(k, t)
<1>1. /\ k \in DOMAIN rings /\ DOMAIN rings' = DOMAIN rings /\ t \in Times
      /\ \A j \in DOMAIN rings : j # k => rings'[j] = rings[j]
  BY FileEffect DEF Inv, TypeOK
<1> DEFINE Stays(o) == ~(o.key = k /\ Log!Collide(BucketStart(o.at), BucketStart(t)))
<1> DEFINE after == {o \in HeldIn(rings) : Stays(o)} \cup {[key |-> k, at |-> t]}
<1>2. ASSUME NEW m, NEW u
      PROVE  [key |-> m, at |-> u] \in HeldIn(rings') <=> [key |-> m, at |-> u] \in after
  <2> PICK o : o = [key |-> m, at |-> u]
    OBVIOUS
  <2>1. o \in HeldIn(rings') <=> /\ m \in DOMAIN rings' /\ u \in Times
                           /\ \E j \in Slot : u \in rings'[m].buckets[j]
    BY HeldIs
  <2>2. o \in HeldIn(rings) <=> /\ m \in DOMAIN rings /\ u \in Times
                          /\ \E j \in Slot : u \in rings[m].buckets[j]
    BY HeldIs
  <2>3. o \in after <=> \/ o \in HeldIn(rings) /\ ~(m = k /\ Log!Collide(BucketStart(u), BucketStart(t)))
                        \/ m = k /\ u = t
    OBVIOUS
  <2>4. CASE m # k
    BY <2>1, <2>2, <2>3, <2>4, <1>1
  <2>5. CASE m = k
    BY <2>1, <2>2, <2>3, <2>5, <1>1, FileKeeps
  <2> QED
    BY <2>4, <2>5
<1>3. \A o \in HeldIn(rings') : o = [key |-> o.key, at |-> o.at]
  BY HeldIs
<1>4. \A o \in after : o = [key |-> o.key, at |-> o.at]
  BY HeldIs
<1>5. HeldIn(rings') = after
  <2> HIDE DEF after
  <2> QED
    BY <1>2, <1>3, <1>4
<1> QED
  BY <1>5 DEF Log!Record, Log!BucketOf, BucketStart, HeldIn, Held

\* An eviction forgets every observation of one endpoint.
LEMMA EvictForgets ==
    ASSUME NEW v \in DOMAIN rings, Evict(v)
    PROVE  HeldIn(rings') = {o \in HeldIn(rings) : o.key # v}
<1>1. /\ DOMAIN rings' = DOMAIN rings \ {v}
      /\ \A k \in DOMAIN rings' : rings'[k] = rings[k]
  BY DEF Evict
<1>2. ASSUME NEW k, NEW t
      PROVE  [key |-> k, at |-> t] \in HeldIn(rings')
               <=> [key |-> k, at |-> t] \in HeldIn(rings) /\ k # v
  BY <1>1, HeldIs
<1> QED
  BY <1>2, HeldIs

\* Every endpoint that can be evicted holds an observation.
LEMMA KeysHeld ==
    ASSUME Inv, phase # "file"
    PROVE  {o.key : o \in HeldIn(rings)} = DOMAIN rings
<1>1. ASSUME NEW o \in HeldIn(rings) PROVE o.key \in DOMAIN rings
  BY DEF HeldIn
<1>2. ASSUME NEW k \in DOMAIN rings PROVE \E o \in HeldIn(rings) : o.key = k
  <2>1. PICK i \in Slot : rings[k].buckets[i] # {}
    BY DEF Inv, NoneEmpty, LiveSlots
  <2>2. PICK t : t \in rings[k].buckets[i]
    BY <2>1
  <2>3. t \in Times
    BY <2>2 DEF Inv, TypeOK, Ring
  <2>4. [key |-> k, at |-> t] \in HeldIn(rings)
    BY <2>2, <2>3, HeldIs
  <2> QED
    BY <2>4
<1> QED
  BY <1>1, <1>2

\* The live cells of the rings are the buckets of the log, one for one.
LEMMA CellsHeld ==
    ASSUME Inv
    PROVE  Cardinality({<<o.key, BucketStart(o.at)>> : o \in HeldIn(rings)})
             = Cardinality(LiveCells)
<1> DEFINE C == {<<o.key, BucketStart(o.at)>> : o \in HeldIn(rings)}
<1> DEFINE g == [c \in LiveCells |-> <<c[1], rings[c[1]].starts[c[2]]>>]
<1>1. \A c \in LiveCells : /\ c = <<c[1], c[2]>> /\ c[1] \in DOMAIN rings /\ c[2] \in Slot
                           /\ rings[c[1]].buckets[c[2]] # {}
  BY DEF LiveCells
<1>2. ASSUME NEW c \in LiveCells
      PROVE  g[c] \in C /\ SlotFor(g[c][2]) = c[2] /\ g[c][1] = c[1]
  <2>1. PICK t : t \in rings[c[1]].buckets[c[2]]
    BY <1>1
  <2>2. t \in Times
    BY <1>1, <2>1 DEF Inv, TypeOK, Ring
  <2>3. BucketStart(t) = rings[c[1]].starts[c[2]] /\ SlotFor(BucketStart(t)) = c[2]
    BY <1>1, <2>1 DEF Inv, WindowExact
  <2>4. [key |-> c[1], at |-> t] \in HeldIn(rings)
    BY <1>1, <2>1, <2>2, HeldIs
  <2> QED
    BY <2>3, <2>4
<1>3. ASSUME NEW d \in C PROVE \E c \in LiveCells : g[c] = d
  <2>1. PICK o \in HeldIn(rings) : d = <<o.key, BucketStart(o.at)>>
    OBVIOUS
  <2>2. o.key \in DOMAIN rings /\ \E i \in Slot : o.at \in rings[o.key].buckets[i]
    BY DEF HeldIn
  <2>3. PICK i \in Slot : o.at \in rings[o.key].buckets[i]
    BY <2>2
  <2>4. <<o.key, i>> \in LiveCells
    BY <2>2, <2>3 DEF LiveCells
  <2>5. BucketStart(o.at) = rings[o.key].starts[i]
    BY <2>2, <2>3 DEF Inv, WindowExact
  <2>6. g[<<o.key, i>>] = d
    BY <2>1, <2>4, <2>5
  <2> QED
    BY <2>4, <2>6
<1>4. g \in [LiveCells -> C] /\ DOMAIN g = LiveCells
  BY <1>2
<1> HIDE DEF g, C
<1>5. g \in Injection(LiveCells, C)
  <2>1. ASSUME NEW c \in LiveCells, NEW d \in LiveCells, g[c] = g[d] PROVE c = d
    BY <1>1, <1>2, <2>1
  <2> QED
    BY <2>1, <1>4 DEF Injection, IsInjective
<1>6. g \in Surjection(LiveCells, C)
  BY <1>3, <1>4 DEF Surjection
<1>7. ExistsBijection(LiveCells, C)
  BY <1>5, <1>6 DEF Bijection, ExistsBijection
<1>8. IsFiniteSet(LiveCells)
  BY CellsFinite DEF Inv
<1>9. Cardinality(C) = Cardinality(LiveCells)
  BY <1>7, <1>8, FS_Bijection
<1> QED
  BY <1>9 DEF C

\* An eviction is the log forgetting an endpoint.
LEMMA EvictIsForget ==
    ASSUME Inv, NEW v \in DOMAIN rings, EvictForRoom(v) \/ EvictForBudget(v)
    PROVE  Log!Forget(v)
<1>1. Log!Full
  <2>1. CASE EvictForRoom(v)
    <3>1. Log!Keys = DOMAIN rings
      BY <2>1, KeysHeld DEF Log!Keys, EvictForRoom, HeldIn, Held
    <3>2. Cardinality(Log!Keys) >= MaxEndpoints
      BY <2>1, <3>1, FS_CardinalityType, CapAssumption DEF EvictForRoom, Room, Inv, Finite
    <3>3. Log!Cardinality(Log!Keys) = Cardinality(Log!Keys)
      BY Zenon DEF Log!Cardinality, Cardinality
    <3> QED
      BY <3>2, <3>3 DEF Log!Full
  <2>2. CASE EvictForBudget(v)
    <3>1. Log!Cells = {<<o.key, BucketStart(o.at)>> : o \in HeldIn(rings)}
      BY DEF Log!Cells, Log!BucketOf, BucketStart, HeldIn, Held
    <3>2. Cardinality(Log!Cells) > MaxLiveBuckets
      BY <2>2, <3>1, CellsHeld DEF EvictForBudget, Inv, CountsExact
    <3>3. Log!Cardinality(Log!Cells) = Cardinality(Log!Cells)
      BY Zenon DEF Log!Cardinality, Cardinality
    <3> QED
      BY <3>2, <3>3 DEF Log!Full
  <2> QED
    BY <2>1, <2>2
<1>2. HeldIn(rings') = {o \in HeldIn(rings) : o.key # v}
  BY EvictForgets DEF EvictForRoom, EvictForBudget
<1> QED
  BY <1>1, <1>2 DEF Log!Forget, HeldIn, Held

\* A ring just made holds nothing.
LEMMA NewRingStutters ==
    ASSUME Inv, NewRing
    PROVE  HeldIn(rings') = HeldIn(rings)
<1>1. /\ DOMAIN rings' = DOMAIN rings \cup {adding.key} /\ adding.key \notin DOMAIN rings
      /\ \A k \in DOMAIN rings : rings'[k] = rings[k]
      /\ \A i \in Slot : rings'[adding.key].buckets[i] = {}
  BY DEF NewRing, Inv, PhaseOK, EmptyRing
<1>2. ASSUME NEW k, NEW t
      PROVE  [key |-> k, at |-> t] \in HeldIn(rings') <=> [key |-> k, at |-> t] \in HeldIn(rings)
  BY <1>1, HeldIs
<1>3. \A o \in HeldIn(rings') : o = [key |-> o.key, at |-> o.at]
  BY HeldIs
<1>4. \A o \in HeldIn(rings) : o = [key |-> o.key, at |-> o.at]
  BY HeldIs
<1> QED
  BY <1>2, <1>3, <1>4

\* The store implements the log of observations: it forgets an endpoint only
\* when full, and drops a bucket only for one that takes its slot.
THEOREM Implements == Spec => ImplementsLog
<1>1. Init => Log!Init
  BY DEF Init, Log!Init, Held
<1>2. ASSUME Inv, [Next]_vars
      PROVE  [Log!Next]_(HeldIn(rings))
  <2>0. HeldIn(rings)' = HeldIn(rings')
    BY DEF HeldIn
  <2>1. CASE rings' = rings
    BY <2>0, <2>1
  <2>2. CASE NewRing
    BY <1>2, <2>0, <2>2, NewRingStutters
  <2>3. CASE File
    <3>1. PICK k \in Key, t \in Times : k = adding.key /\ t = adding.at
      BY <1>2 DEF Inv, TypeOK
    <3>2. Log!Record(k, t)
      BY <1>2, <2>3, <3>1, FileRecords
    <3> QED
      BY <3>2 DEF Log!Next
  <2>4. ASSUME NEW v \in DOMAIN rings, EvictForRoom(v) \/ EvictForBudget(v)
        PROVE  Log!Next
    <3>1. v \in Key
      BY <1>2 DEF Inv, TypeOK
    <3>2. Log!Forget(v)
      BY <1>2, <2>4, EvictIsForget
    <3> QED
      BY <3>1, <3>2 DEF Log!Next
  <2> QED
    BY <1>2, <2>1, <2>2, <2>3, <2>4
       DEF Next, vars, RefuseStale, BeginAdd, EndAdd
<1>3. Inv /\ [Next]_vars => [Log!Next]_(HeldIn(rings))
  BY <1>2
<1> QED
  BY <1>1, <1>3, InvHolds, PTL DEF Spec, ImplementsLog, Log!Spec, HeldIn, Held
=============================================================================
