------------------------------- MODULE Store -------------------------------
(***************************************************************************)
(* internal/store/store.go: a ring of schema buckets per endpoint, within a *)
(* budget of endpoints and of non-empty buckets.                            *)
(*                                                                          *)
(* Times are positive naturals and 0 is Go's zero time.  A schema is the    *)
(* set of times of the observations merged into it, the empty set standing  *)
(* for a nil bucket; a bucket's start is kept as its ordinal, the start     *)
(* divided by Duration.  Add holds the mutex from entry to return; its      *)
(* eviction loops are modelled one eviction per step, phase telling where   *)
(* in Add the holder stands, and nothing else runs while phase # "idle".    *)
(***************************************************************************)
EXTENDS Integers, FiniteSets

CONSTANTS
    Key,              \* endpoint keys
    Times,            \* times an observation may carry
    Duration,         \* Config.BucketDuration
    Buckets,          \* Config.Buckets
    MaxEndpoints,     \* Config.MaxEndpoints
    MaxLiveBuckets    \* Config.MaxLiveBuckets

ASSUME TimesAssumption == Times \subseteq Nat \ {0}
ASSUME ShapeAssumption == Duration \in Nat \ {0} /\ Buckets \in Nat \ {0}
ASSUME CapAssumption == MaxEndpoints \in Nat \ {0} /\ MaxLiveBuckets \in Nat \ {0}

VARIABLES
    rings,     \* endpoint -> ring, for the endpoints tracked
    live,      \* the store's count of non-nil buckets
    newest,    \* newest time accepted, 0 before the first
    phase,     \* "idle", or where Add stands: "room", "file", "budget"
    adding,    \* Add's arguments: [key, at]
    answer     \* what the latest Add returned; TRUE before the first

vars == <<rings, live, newest, phase, adding, answer>>

Slot == 0 .. Buckets - 1

Ring == [buckets : [Slot -> SUBSET Times], starts : [Slot -> Nat],
         lastWrite : Nat, live : Int]

TypeOK ==
    /\ DOMAIN rings \subseteq Key
    /\ rings \in [DOMAIN rings -> Ring]
    /\ live \in Int
    /\ newest \in Nat
    /\ phase \in {"idle", "room", "file", "budget"}
    /\ adding \in [key : Key, at : Times]
    /\ answer \in BOOLEAN
-----------------------------------------------------------------------------
\* Store.Retention.
Retention == Buckets * Duration

\* bucketStart, as an ordinal, and slotFor of such an ordinal.
BucketStart(t) == t \div Duration
SlotFor(start) == start % Buckets

Later(s, t) == IF s < t THEN t ELSE s

Init ==
    /\ rings = << >>
    /\ live = 0
    /\ newest = 0
    /\ phase = "idle"
    /\ adding \in [key : Key, at : Times]
    /\ answer = TRUE

\* Older than retention, measured against the newest observation accepted.
Stale(t) == newest # 0 /\ t < newest - Retention

\* A stale observation is refused: only a counter changes.
RefuseStale(t) ==
    /\ phase = "idle"
    /\ Stale(t)
    /\ answer' = FALSE
    /\ UNCHANGED <<rings, live, newest, phase, adding>>

\* Add, up to the point where the endpoint's ring is looked up.
BeginAdd(k, t) ==
    /\ phase = "idle"
    /\ ~Stale(t)
    /\ newest' = Later(newest, t)
    /\ phase' = IF k \in DOMAIN rings THEN "file" ELSE "room"
    /\ adding' = [key |-> k, at |-> t]
    /\ UNCHANGED <<rings, live, answer>>

AgedOut(k) == newest # 0 /\ rings[k].lastWrite < newest - Retention

\* Defective variants of the definitions below, for checking that the
\* properties can fail: the warmest endpoint evicted for the coldest, an
\* eviction that forgets the count, room for one endpoint too many, a ring one
\* slot short, a slot that is never recycled, a merge that starts afresh.
WarmestVictim(v) ==
    \A k \in DOMAIN rings : rings[k].lastWrite <= rings[v].lastWrite

EvictUncounted(v) ==
    /\ rings' = [k \in DOMAIN rings \ {v} |-> rings[k]]
    /\ UNCHANGED live

RoomForOneMore == Cardinality(DOMAIN rings) <= MaxEndpoints

ShortRing == [buckets |-> [i \in 1 .. Buckets - 1 |-> {}],
              starts |-> [i \in 1 .. Buckets - 1 |-> 0],
              lastWrite |-> 0, live |-> 0]

NeverRotates(r, start) == FALSE

KeptNothing(r, start) == {}

\* evictColdestLocked takes the first aged-out endpoint its iteration meets,
\* map order being arbitrary, and otherwise one with the oldest last write.
Victim(v) ==
    \/ AgedOut(v)
    \/ /\ \A k \in DOMAIN rings : ~AgedOut(k)
       /\ \A k \in DOMAIN rings : rings[v].lastWrite <= rings[k].lastWrite

Evict(v) ==
    /\ rings' = [k \in DOMAIN rings \ {v} |-> rings[k]]
    /\ live' = live - rings[v].live

\* evictForRoomLocked's loop condition, negated.
Room == Cardinality(DOMAIN rings) < MaxEndpoints

EvictForRoom(v) ==
    /\ phase = "room" /\ ~Room
    /\ Victim(v)
    /\ Evict(v)
    /\ UNCHANGED <<newest, phase, adding, answer>>

\* A ring just made: every slot nil.
EmptyRing == [buckets |-> [i \in Slot |-> {}], starts |-> [i \in Slot |-> 0],
              lastWrite |-> 0, live |-> 0]

NewRing ==
    /\ phase = "room" /\ Room
    /\ rings' = [k \in DOMAIN rings \cup {adding.key} |->
                   IF k = adding.key THEN EmptyRing ELSE rings[k]]
    /\ phase' = "file"
    /\ UNCHANGED <<live, newest, adding, answer>>

\* The slot holds another bucket: the ring has come round to it.
Rotates(r, start) ==
    r.buckets[SlotFor(start)] # {} /\ r.starts[SlotFor(start)] # start

\* What the slot contributes to the bucket the observation goes to.
Kept(r, start) == IF Rotates(r, start) THEN {} ELSE r.buckets[SlotFor(start)]

\* What the two counters gain: less one for a bucket rotated out, one more
\* for a slot that is then nil and takes a clone.
Gain(r, start) == (IF Kept(r, start) = {} THEN 1 ELSE 0)
                    - (IF Rotates(r, start) THEN 1 ELSE 0)

\* Rotate, clone or merge, and stamp the ring.
File ==
    /\ phase = "file"
    /\ LET k == adding.key
           r == rings[k]
           start == BucketStart(adding.at)
           i == SlotFor(start)
       IN /\ rings' = [rings EXCEPT ![k] =
                [buckets |-> [r.buckets EXCEPT ![i] = Kept(r, start) \cup {adding.at}],
                 starts |-> [r.starts EXCEPT ![i] = start],
                 lastWrite |-> Later(r.lastWrite, adding.at),
                 live |-> r.live + Gain(r, start)]]
          /\ live' = live + Gain(r, start)
    /\ phase' = "budget"
    /\ UNCHANGED <<newest, adding, answer>>

EvictForBudget(v) ==
    /\ phase = "budget" /\ live > MaxLiveBuckets
    /\ Victim(v)
    /\ Evict(v)
    /\ UNCHANGED <<newest, phase, adding, answer>>

\* The budget is met, or there is nothing left to evict: Add returns.
EndAdd ==
    /\ phase = "budget"
    /\ live <= MaxLiveBuckets \/ DOMAIN rings = {}
    /\ phase' = "idle"
    /\ answer' = TRUE
    /\ UNCHANGED <<rings, live, newest, adding>>

Next ==
    \/ \E t \in Times : RefuseStale(t)
    \/ \E k \in Key, t \in Times : BeginAdd(k, t)
    \/ \E v \in DOMAIN rings : EvictForRoom(v)
    \/ NewRing
    \/ File
    \/ \E v \in DOMAIN rings : EvictForBudget(v)
    \/ EndAdd

Spec == Init /\ [][Next]_vars
-----------------------------------------------------------------------------
\* Window: the observations merged from k's buckets that start in [from, to).
Window(k, from, to) ==
    IF k \notin DOMAIN rings THEN {}
    ELSE UNION {rings[k].buckets[i] : i \in {j \in Slot :
                  /\ from <= rings[k].starts[j] * Duration
                  /\ rings[k].starts[j] * Duration < to}}

\* The non-nil buckets, as pairs of an endpoint and a slot.
LiveCells == {c \in (DOMAIN rings) \X Slot : rings[c[1]].buckets[c[2]] # {}}

\* The counters the budget is enforced with never drift from what the rings
\* hold, through any mix of rotations, evictions and merges: a drift would
\* make the budget evict too much or grow without bound (store.go: live).
CountsExact ==
    /\ live = Cardinality(LiveCells)
    /\ \A k \in DOMAIN rings :
          rings[k].live = Cardinality({i \in Slot : rings[k].buckets[i] # {}})

\* Between calls the store is within both of its caps, and no step inside Add
\* tracks more endpoints than MaxEndpoints (store.go, Config).
WithinCaps ==
    /\ Cardinality(DOMAIN rings) <= MaxEndpoints
    /\ phase = "idle" => Cardinality(LiveCells) <= MaxLiveBuckets

\* A window query returns the observations of the buckets asked for and of no
\* other, whatever the ring has been through: a slot's recorded start is the
\* start of every observation merged into it (slotFor's comment).
WindowExact ==
    \A k \in DOMAIN rings : \A i \in Slot : \A t \in rings[k].buckets[i] :
        BucketStart(t) = rings[k].starts[i] /\ SlotFor(BucketStart(t)) = i

\* The endpoint that made the newest observation is still there when Add
\* returns, as long as the caps hold two endpoints and one full ring: shedding
\* the coldest never costs the store its freshest history.
FreshestKept ==
    MaxEndpoints >= 2 /\ MaxLiveBuckets >= Buckets
        /\ phase = "idle" /\ newest # 0
      => \E k \in DOMAIN rings : rings[k].lastWrite = newest

\* What the rings hold is an ObservationLog: Add records its observation, and
\* nothing else is lost but evicted endpoints and colliding buckets.
Held == {[key |-> k, at |-> t] : k \in DOMAIN rings, t \in Times}
Log == INSTANCE ObservationLog
         WITH log <- {o \in Held : \E i \in Slot : o.at \in rings[o.key].buckets[i]}
ImplementsLog == Log!Spec
=============================================================================
