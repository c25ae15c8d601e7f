------------------------- MODULE ValueSampleProofs --------------------------
(***************************************************************************)
(* What the value sampler and the evaluator's pass over it keep true for    *)
(* any paths, values and bodies, caps and reservoir sizes.                  *)
(***************************************************************************)
EXTENDS ValueSample, FiniteSetTheorems, WellFoundedInduction, TLAPS

(***************************************************************************)
(* The inductive invariant.                                                 *)
(***************************************************************************)

\* What a side of a path may be that was filed in period p.
Reservoir(p) == {side \in Seq(Kept) : Len(side) <= MaxPerPath /\ FiledIn(side, p)}

\* The paths sampled: a bounded map, each path with its two sides of the two
\* latest periods, not both of them empty.
Sampled(held) ==
    /\ DOMAIN held \subseteq Path
    /\ IsFiniteSet(DOMAIN held) /\ Cardinality(DOMAIN held) <= MaxPaths
    /\ held \in [DOMAIN held -> [baseline : Reservoir(period - 1), current : Reservoir(period)]]
    /\ \A k \in DOMAIN held : held[k].current # << >> \/ held[k].baseline # << >>

\* During a pass the paths still to examine are sampled.
TodoOK == todo \subseteq Path /\ (stage = "select" => todo \subseteq DOMAIN paths)

Inv ==
    /\ period \in Nat
    /\ stage \in {"idle", "select", "publish"}
    /\ Sampled(paths)
    /\ TodoOK
    /\ out \subseteq Candidate /\ candidates \subseteq Candidate
    /\ CandidatesGrounded

\* The constants, one by one.
LEMMA Limits ==
    /\ MaxPaths \in Nat /\ MaxPaths > 0
    /\ MaxPerPath \in Nat /\ MaxPerPath > 0
    /\ MinValues \in Nat /\ MinValues > 0
BY LimitAssumption

-----------------------------------------------------------------------------
(***************************************************************************)
(* Filing values.                                                           *)
(***************************************************************************)

\* Offering a value of this period leaves a reservoir of this period, never
\* an empty one.
LEMMA OfferedFits ==
    ASSUME period \in Nat, NEW side \in Reservoir(period), NEW v \in Kept, v.filed = period,
           NEW left \in Offered(side, v)
    PROVE  left \in Reservoir(period) /\ left # << >>
<1>1. /\ side \in Seq(Kept) /\ Len(side) \in Nat /\ Len(side) <= MaxPerPath
      /\ \A i \in 1 .. Len(side) : side[i].filed = period
  BY DEF Reservoir, FiledIn
<1>2. CASE Len(side) < MaxPerPath
  <2>1. left = Append(side, v)
    BY <1>2 DEF Offered
  <2>2. /\ left \in Seq(Kept) /\ Len(left) = Len(side) + 1
        /\ \A i \in 1 .. Len(left) : left[i] = IF i = Len(side) + 1 THEN v ELSE side[i]
    BY <1>1, <2>1
  <2>3. Len(left) <= MaxPerPath
    BY <1>1, <1>2, <2>2, Limits
  <2>4. \A i \in 1 .. Len(left) : left[i].filed = period
    BY <1>1, <2>2
  <2>5. DOMAIN left = 1 .. Len(left) /\ left # << >>
    BY <1>1, <2>2
  <2> QED
    BY <2>2, <2>3, <2>4, <2>5 DEF Reservoir, FiledIn
<1>3. CASE ~(Len(side) < MaxPerPath)
  <2>1. side # << >>
    BY <1>1, <1>3, Limits
  <2>2. CASE left = side
    BY <2>1, <2>2
  <2>3. CASE left # side
    <3>1. PICK j \in DOMAIN side : left = [side EXCEPT ![j] = v]
      BY <1>3, <2>3 DEF Offered
    <3>2. /\ left \in Seq(Kept) /\ Len(left) = Len(side) /\ DOMAIN left = 1 .. Len(side)
          /\ \A i \in 1 .. Len(side) : left[i] = IF i = j THEN v ELSE side[i]
      BY <1>1, <3>1
    <3>3. \A i \in 1 .. Len(side) : left[i].filed = period
      BY <1>1, <3>2
    <3> QED
      BY <1>1, <2>1, <3>2, <3>3 DEF Reservoir, FiledIn
  <2> QED
    BY <2>2, <2>3
<1> QED
  BY <1>2, <1>3

\* An empty reservoir is one of any period.
LEMMA EmptyReservoir ==
    ASSUME NEW p PROVE << >> \in Reservoir(p)
BY Limits DEF Reservoir, FiledIn

\* Filing a value keeps the map as it should be, and forgets no path.
LEMMA OfferKeeps ==
    ASSUME period \in Nat, NEW held, Sampled(held), NEW k \in Path,
           NEW v \in Kept, v.filed = period, NEW left \in Offer(held, k, v)
    PROVE  Sampled(left) /\ DOMAIN held \subseteq DOMAIN left
<1> DEFINE Sides == [baseline : Reservoir(period - 1), current : Reservoir(period)]
<1>1. held \in [DOMAIN held -> Sides] /\ IsFiniteSet(DOMAIN held)
  BY DEF Sampled
<1>2. CASE k \in DOMAIN held
  <2>1. PICK r \in Offered(held[k].current, v) : left = [held EXCEPT ![k].current = r]
    BY <1>2 DEF Offer
  <2>2. held[k] \in Sides /\ held[k].current \in Reservoir(period)
    BY <1>1, <1>2
  <2>3. r \in Reservoir(period) /\ r # << >>
    BY <2>1, <2>2, OfferedFits
  <2>4. /\ DOMAIN left = DOMAIN held
        /\ left[k] = [held[k] EXCEPT !.current = r]
        /\ \A q \in DOMAIN held \ {k} : left[q] = held[q]
    BY <1>1, <1>2, <2>1
  <2>5. left[k] \in Sides /\ left[k].current = r
    BY <2>2, <2>3, <2>4
  <2>6. left \in [DOMAIN left -> Sides]
    BY <1>1, <2>1, <2>4, <2>5
  <2> QED
    BY <2>3, <2>4, <2>5, <2>6 DEF Sampled
<1>3. CASE k \notin DOMAIN held /\ Cardinality(DOMAIN held) >= MaxPaths
  BY <1>3 DEF Offer
<1>4. CASE k \notin DOMAIN held /\ ~(Cardinality(DOMAIN held) >= MaxPaths)
  <2>1. PICK r \in Offered(<< >>, v) :
          left = [q \in DOMAIN held \cup {k} |->
                    IF q = k THEN [baseline |-> << >>, current |-> r] ELSE held[q]]
    BY <1>4 DEF Offer
  <2>2. r \in Reservoir(period) /\ r # << >>
    BY <2>1, OfferedFits, EmptyReservoir
  <2>3. /\ DOMAIN left = DOMAIN held \cup {k}
        /\ left[k] = [baseline |-> << >>, current |-> r]
        /\ \A q \in DOMAIN held : left[q] = held[q]
    BY <1>4, <2>1
  <2>4. left[k] \in Sides /\ left[k].current # << >>
    BY <2>2, <2>3, EmptyReservoir
  <2>5. left \in [DOMAIN left -> Sides]
    BY <1>1, <2>1, <2>3, <2>4
  <2>6. /\ IsFiniteSet(DOMAIN left)
        /\ Cardinality(DOMAIN left) = Cardinality(DOMAIN held) + 1
        /\ Cardinality(DOMAIN held) \in Nat
    BY <1>1, <1>4, <2>3, FS_AddElement, FS_CardinalityType
  <2>7. Cardinality(DOMAIN left) <= MaxPaths
    BY <1>4, <2>6, Limits
  <2> QED
    BY <2>3, <2>4, <2>5, <2>6, <2>7 DEF Sampled
<1> QED
  BY <1>2, <1>3, <1>4

\* A set of naturals that is not empty has a least element.
LEMMA LeastNatural ==
    ASSUME NEW T, T \subseteq Nat, T # {}
    PROVE  \E x \in T : \A y \in T : x <= y
<1>1. \E x \in T : \A y \in T : ~ (<<y, x>> \in OpToRel(<, Nat))
  BY NatLessThanWellFounded, WFMin, Zenon
<1>2. PICK x \in T : \A y \in T : ~ (<<y, x>> \in OpToRel(<, Nat))
  BY <1>1
<1>3. ASSUME NEW y \in T PROVE x <= y
  <2>1. x \in Nat /\ y \in Nat
    BY <1>2
  <2>2. ~ (y < x)
    BY <2>1, <1>2, <1>3 DEF OpToRel
  <2> QED
    BY <2>1, <2>2
<1> QED
  BY <1>2, <1>3

\* A set of naturals with 0 and with the successor of each of its elements
\* below n reaches n.
LEMMA Reaches ==
    ASSUME NEW n \in Nat, NEW S, 0 \in S, \A m \in 0 .. n - 1 : m \in S => m + 1 \in S
    PROVE  \A m \in 0 .. n : m \in S
<1> DEFINE Missed == {m \in 0 .. n : m \notin S}
<1> SUFFICES ASSUME Missed # {}
             PROVE  FALSE
  OBVIOUS
<1>1. PICK m \in Missed : \A l \in Missed : m <= l
  <2>1. Missed \subseteq Nat
    OBVIOUS
  <2> HIDE DEF Missed
  <2> QED
    BY <2>1, LeastNatural
<1>2. m \in 1 .. n /\ m - 1 \in 0 .. n - 1 /\ m - 1 \notin Missed /\ (m - 1) + 1 = m
  BY <1>1
<1> QED
  BY <1>1, <1>2

\* One value of a body on top of what the values before it may have left.
Onward(may, body, n) ==
    UNION {Offer(held, body[n][1], [value |-> body[n][2], filed |-> period]) : held \in may}

\* may is what a body's first values may leave, up to the n-th.
After(body, n, may) ==
    may = [m \in 0 .. n |-> IF m = 0 THEN {paths} ELSE Onward(may[m - 1], body, m)]

\* Filed is such a function: there is one for every number of values.
LEMMA FiledIsAfter ==
    ASSUME NEW body, Len(body) \in Nat
    PROVE  After(body, Len(body), Filed(body))
<1> DEFINE Has == {n \in Nat : \E may : After(body, n, may)}
<1>1. 0 \in Has
  <2> DEFINE g == [m \in 0 .. 0 |-> {paths}]
  <2>1. g = [m \in 0 .. 0 |-> IF m = 0 THEN {paths} ELSE Onward(g[m - 1], body, m)]
    OBVIOUS
  <2>2. After(body, 0, g)
    BY <2>1 DEF After
  <2> QED
    BY <2>2
<1>2. ASSUME NEW n \in Nat, n \in Has
      PROVE  n + 1 \in Has
  <2>1. PICK f : After(body, n, f)
    BY <1>2
  <2> DEFINE g == [m \in 0 .. n + 1 |->
                     IF m = n + 1 THEN Onward(f[n], body, n + 1) ELSE f[m]]
  <2>2. \A m \in 0 .. n : f[m] = IF m = 0 THEN {paths} ELSE Onward(f[m - 1], body, m)
    BY <2>1 DEF After
  <2>3. \A m \in 0 .. n : g[m] = f[m]
    OBVIOUS
  <2>4. g[n + 1] = Onward(g[n], body, n + 1)
    OBVIOUS
  <2>5. \A m \in 0 .. n + 1 : g[m] = IF m = 0 THEN {paths} ELSE Onward(g[m - 1], body, m)
    <3> TAKE m \in 0 .. n + 1
    <3> HIDE DEF g
    <3>1. CASE m = n + 1
      <4>1. m - 1 = n /\ m # 0
        BY <3>1
      <4> QED
        BY <3>1, <4>1, <2>4
    <3>2. CASE m = 0
      BY <3>2, <2>2, <2>3
    <3>3. CASE m # n + 1 /\ m # 0
      <4>1. m \in 0 .. n /\ m - 1 \in 0 .. n
        BY <3>3
      <4> QED
        BY <4>1, <3>3, <2>2, <2>3
    <3> QED
      BY <3>1, <3>2, <3>3
  <2>6. g = [m \in 0 .. n + 1 |-> g[m]]
    OBVIOUS
  <2> HIDE DEF g
  <2>7. After(body, n + 1, g)
    BY <2>5, <2>6 DEF After
  <2> QED
    BY <2>7
<1>3. Len(body) \in Has
  <2> HIDE DEF Has
  <2>1. \A m \in 0 .. Len(body) - 1 : m \in Has => m + 1 \in Has
    BY <1>2
  <2>2. \A m \in 0 .. Len(body) : m \in Has
    BY <1>1, <2>1, Reaches
  <2> QED
    BY <2>2
<1>4. \E may : After(body, Len(body), may)
  BY <1>3
<1>5. Filed(body) = CHOOSE may : After(body, Len(body), may)
  BY DEF Filed, After, Onward
<1> QED
  BY <1>4, <1>5

\* Whatever a whole body leaves is as it should be, and no path is forgotten.
LEMMA FiledKeeps ==
    ASSUME Inv, NEW body \in Body, NEW left \in Filed(body)[Len(body)]
    PROVE  Sampled(left) /\ DOMAIN paths \subseteq DOMAIN left
<1> DEFINE A == Filed(body)
           L == Len(body)
           Good == {n \in 0 .. L : \A held \in A[n] :
                      Sampled(held) /\ DOMAIN paths \subseteq DOMAIN held}
<1>1. /\ body \in Seq(Path \X Value) /\ L \in Nat
      /\ \A n \in 1 .. L : body[n][1] \in Path /\ body[n][2] \in Value
  BY BodyAssumption
<1>2. A[0] = {paths} /\ \A n \in 1 .. L : A[n] = Onward(A[n - 1], body, n)
  BY <1>1, FiledIsAfter DEF After
<1>3. period \in Nat /\ Sampled(paths)
  BY DEF Inv
<1> HIDE DEF A, L
<1>4. 0 \in Good
  BY <1>1, <1>2, <1>3
<1>5. ASSUME NEW n \in 0 .. L - 1, n \in Good
      PROVE  n + 1 \in Good
  <2>1. n + 1 \in 1 .. L /\ n + 1 \in 0 .. L /\ (n + 1) - 1 = n
    BY <1>1
  <2> DEFINE v == [value |-> body[n + 1][2], filed |-> period]
  <2>2. v \in Kept /\ v.filed = period
    BY <1>1, <1>3, <2>1 DEF Kept
  <2>3. ASSUME NEW held \in A[n + 1]
        PROVE  Sampled(held) /\ DOMAIN paths \subseteq DOMAIN held
    <3>1. PICK before \in A[n] : held \in Offer(before, body[n + 1][1], v)
      BY <1>2, <2>1, <2>3 DEF Onward
    <3>2. Sampled(before) /\ DOMAIN paths \subseteq DOMAIN before
      BY <1>5
    <3> HIDE DEF v
    <3> QED
      BY <1>1, <1>3, <2>1, <2>2, <3>1, <3>2, OfferKeeps
  <2> QED
    BY <2>1, <2>3
<1>6. L \in Good
  <2> HIDE DEF Good
  <2>1. \A n \in 0 .. L - 1 : n \in Good => n + 1 \in Good
    BY <1>5
  <2>2. \A n \in 0 .. L : n \in Good
    BY <1>1, <1>4, <2>1, Reaches
  <2> QED
    BY <1>1, <2>2
<1> QED
  BY <1>6 DEF A, L

-----------------------------------------------------------------------------
(***************************************************************************)
(* Counting values: what two samples with the same counts have in common.   *)
(***************************************************************************)

\* Where the values of a sample are in S.
Places(vs, S) == {i \in DOMAIN vs : vs[i].value \in S}

\* Counts are naturals, and grow with the set counted.
LEMMA AmongGrows ==
    ASSUME NEW vs \in Seq(Kept), NEW S, NEW T, S \subseteq T
    PROVE  /\ Among(vs, S) \in Nat /\ Among(vs, T) \in Nat
           /\ Among(vs, S) <= Among(vs, T)
           /\ IsFiniteSet(Places(vs, T))
<1>1. IsFiniteSet(DOMAIN vs)
  <2>1. DOMAIN vs = 1 .. Len(vs) /\ Len(vs) \in Nat
    OBVIOUS
  <2> QED
    BY <2>1, FS_Interval
<1>2. Places(vs, T) \in SUBSET DOMAIN vs /\ Places(vs, S) \in SUBSET Places(vs, T)
  BY DEF Places
<1>3. IsFiniteSet(Places(vs, T))
  BY <1>1, <1>2, FS_Subset
<1>4. /\ IsFiniteSet(Places(vs, S))
      /\ Cardinality(Places(vs, S)) <= Cardinality(Places(vs, T))
  BY <1>2, <1>3, FS_Subset
<1> QED
  BY <1>3, <1>4, FS_CardinalityType DEF Among, Places

\* Counts of sets apart add up.
LEMMA AmongAdds ==
    ASSUME NEW vs \in Seq(Kept), NEW S, NEW T, S \cap T = {}
    PROVE  Among(vs, S \cup T) = Among(vs, S) + Among(vs, T)
<1>1. IsFiniteSet(Places(vs, S)) /\ IsFiniteSet(Places(vs, T))
  BY AmongGrows
<1>2. Places(vs, S \cup T) = Places(vs, S) \cup Places(vs, T)
  BY DEF Places
<1>3. Places(vs, S) \cap Places(vs, T) = {}
  BY DEF Places
<1>4. Cardinality({}) = 0
  BY FS_EmptySet
<1>5. Cardinality(Places(vs, S) \cup Places(vs, T))
        = Cardinality(Places(vs, S)) + Cardinality(Places(vs, T))
          - Cardinality(Places(vs, S) \cap Places(vs, T))
  BY <1>1, FS_Union
<1>6. Cardinality(Places(vs, S)) \in Nat /\ Cardinality(Places(vs, T)) \in Nat
  BY <1>1, FS_CardinalityType
<1>7. \A X : Among(vs, X) = Cardinality(Places(vs, X))
  BY DEF Among, Places
<1>8. Cardinality(Places(vs, S) \cap Places(vs, T)) = 0
  BY <1>3, <1>4, Zenon
<1>9. Cardinality(Places(vs, S) \cup Places(vs, T))
        = Cardinality(Places(vs, S)) + Cardinality(Places(vs, T))
  BY <1>5, <1>6, <1>8
<1>10. Cardinality(Places(vs, S \cup T))
         = Cardinality(Places(vs, S)) + Cardinality(Places(vs, T))
  BY <1>2, <1>9, Zenon
<1> QED
  BY <1>7, <1>10

\* A value is among others only where a sample holds it.
LEMMA AmongSome ==
    ASSUME NEW vs \in Seq(Kept), NEW S, Among(vs, S) > 0
    PROVE  \E i \in DOMAIN vs : vs[i].value \in S
<1>1. Places(vs, S) = {} => Cardinality(Places(vs, S)) = 0
  BY FS_EmptySet
<1>2. Places(vs, S) # {}
  BY <1>1 DEF Among, Places
<1> QED
  BY <1>2 DEF Places

\* Samples that hold every single value equally often hold every set of values
\* equally often: a smallest finite set they differ on could do without one of
\* its values.
LEMMA SameFinite ==
    ASSUME NEW vs \in Seq(Kept), NEW ws \in Seq(Kept), SameValues(vs, ws),
           NEW S \in SUBSET Value, IsFiniteSet(S)
    PROVE  Among(vs, S) = Among(ws, S)
<1> DEFINE Differ == {T \in SUBSET S : Among(vs, T) # Among(ws, T)}
           Sizes == {Cardinality(T) : T \in Differ}
<1> SUFFICES ASSUME Differ # {}
             PROVE  FALSE
  OBVIOUS
<1>1. \A T \in Differ : IsFiniteSet(T) /\ Cardinality(T) \in Nat
  BY FS_Subset, FS_CardinalityType
<1>2. Sizes \subseteq Nat /\ Sizes # {}
  BY <1>1
<1>3. PICK n \in Sizes : \A m \in Sizes : n <= m
  <2> HIDE DEF Sizes
  <2> QED
    BY <1>2, LeastNatural
<1>4. PICK T \in Differ : n = Cardinality(T)
  BY <1>3
<1>5. T # {}
  <2>1. Among(vs, {}) = 0 /\ Among(ws, {}) = 0
    BY FS_EmptySet DEF Among
  <2> QED
    BY <1>4, <2>1
<1>6. PICK v : v \in T
  BY <1>5
<1>7. IsFiniteSet(T) /\ Cardinality(T \ {v}) = Cardinality(T) - 1 /\ Cardinality(T) \in Nat
  BY <1>1, <1>4, <1>6, FS_RemoveElement
<1>8. T \ {v} \notin Differ
  <2>1. ASSUME T \ {v} \in Differ PROVE FALSE
    <3>1. Cardinality(T \ {v}) \in Sizes
      BY <2>1
    <3>2. n <= Cardinality(T \ {v})
      BY <1>3, <3>1
    <3> QED
      BY <1>4, <1>7, <3>2
  <2> QED
    BY <2>1
<1>9. Among(vs, T \ {v}) = Among(ws, T \ {v})
  BY <1>4, <1>8
<1>10. Among(vs, {v}) = Among(ws, {v})
  BY <1>4, <1>6 DEF SameValues
<1>11. T = (T \ {v}) \cup {v} /\ (T \ {v}) \cap {v} = {}
  BY <1>6
<1>12. /\ Among(vs, T) = Among(vs, T \ {v}) + Among(vs, {v})
       /\ Among(ws, T) = Among(ws, T \ {v}) + Among(ws, {v})
  BY <1>11, AmongAdds
<1> QED
  BY <1>4, <1>9, <1>10, <1>12

\* ... and so of an infinite one, of which a sample holds finitely many.
LEMMA SameCounts ==
    ASSUME NEW vs \in Seq(Kept), NEW ws \in Seq(Kept), SameValues(vs, ws),
           NEW S \in SUBSET Value
    PROVE  Among(vs, S) = Among(ws, S)
<1> DEFINE Held == {vs[i].value : i \in DOMAIN vs} \cup {ws[i].value : i \in DOMAIN ws}
<1>1. IsFiniteSet(Held)
  <2>1. /\ DOMAIN vs = 1 .. Len(vs) /\ Len(vs) \in Nat
        /\ DOMAIN ws = 1 .. Len(ws) /\ Len(ws) \in Nat
    OBVIOUS
  <2>2. IsFiniteSet(DOMAIN vs) /\ IsFiniteSet(DOMAIN ws)
    BY <2>1, FS_Interval
  <2>3. /\ IsFiniteSet({vs[i].value : i \in DOMAIN vs})
        /\ IsFiniteSet({ws[i].value : i \in DOMAIN ws})
    <3> DEFINE F == [i \in DOMAIN vs |-> vs[i].value]
               G == [i \in DOMAIN ws |-> ws[i].value]
               B == {vs[i].value : i \in DOMAIN vs}
               C == {ws[i].value : i \in DOMAIN ws}
    <3>1. F \in Surjection(DOMAIN vs, B) /\ G \in Surjection(DOMAIN ws, C)
      BY DEF Surjection
    <3> HIDE DEF F, G, B, C
    <3>2. IsFiniteSet(B) /\ IsFiniteSet(C)
      BY <2>2, <3>1, FS_Surjection
    <3> QED
      BY <3>2 DEF B, C
  <2> QED
    BY <2>3, FS_Union
<1>2. /\ Places(vs, S) = Places(vs, S \cap Held)
      /\ Places(ws, S) = Places(ws, S \cap Held)
  BY DEF Places
<1>3. IsFiniteSet(S \cap Held)
  <2>1. S \cap Held \in SUBSET Held
    OBVIOUS
  <2> HIDE DEF Held
  <2> QED
    BY <1>1, <2>1, FS_Subset
<1>4. S \cap Held \in SUBSET Value
  OBVIOUS
<1> HIDE DEF Held
<1>5. Among(vs, S \cap Held) = Among(ws, S \cap Held)
  BY <1>3, <1>4, SameFinite
<1> QED
  BY <1>2, <1>5 DEF Among, Places

\* A sample has one median at most, and it is a natural.
LEMMA OneMedian ==
    ASSUME NEW vs \in Seq(Kept), NEW a \in Median(vs), NEW b \in Median(vs)
    PROVE  a \in Nat /\ a = b
<1> DEFINE N == OfKinds(Numeric)
           half == Among(vs, N) \div 2
           UpTo(v) == Among(vs, {w \in N : w.size <= v.size})
           Under(v) == Among(vs, {w \in N : w.size < v.size})
<1>1. /\ \E v \in N : a = v.size /\ Under(v) <= half /\ half < UpTo(v)
      /\ \E v \in N : b = v.size /\ Under(v) <= half /\ half < UpTo(v)
  BY DEF Median
<1>2. \A v \in N : v.size \in Nat
  BY SizeAssumption DEF OfKinds
<1>3. half \in Nat
  BY AmongGrows
<1>4. \A v \in N : UpTo(v) \in Nat /\ Under(v) \in Nat
  BY AmongGrows
<1>5. ASSUME NEW v \in N, NEW w \in N, v.size < w.size
      PROVE  UpTo(v) <= Under(w)
  <2>1. {x \in N : x.size <= v.size} \subseteq {x \in N : x.size < w.size}
    <3>1. \A x \in N : x.size <= v.size => x.size < w.size
      BY <1>2, <1>5
    <3> QED
      BY <3>1
  <2> QED
    BY <2>1, AmongGrows
<1> HIDE DEF N, half, UpTo, Under
<1>6. PICK v \in N : a = v.size /\ Under(v) <= half /\ half < UpTo(v)
  BY <1>1
<1>7. PICK w \in N : b = w.size /\ Under(w) <= half /\ half < UpTo(w)
  BY <1>1
<1>8. /\ ~(UpTo(v) <= Under(w)) /\ ~(UpTo(w) <= Under(v))
  BY <1>3, <1>4, <1>6, <1>7
<1>9. ~(v.size < w.size) /\ ~(w.size < v.size)
  BY <1>5, <1>8
<1> QED
  BY <1>2, <1>6, <1>7, <1>9

\* Four strings in five have one format at most.
LEMMA OneFormat ==
    ASSUME NEW vs \in Seq(Kept), NEW f \in DominantFormat(vs), NEW g \in DominantFormat(vs)
    PROVE  f = g
<1> DEFINE Str == OfKinds({"string"})
           In(h) == {v \in Str : v.format = h}
<1>1. /\ Among(vs, Str) > 0
      /\ 10 * Among(vs, In(f)) >= 8 * Among(vs, Str)
      /\ 10 * Among(vs, In(g)) >= 8 * Among(vs, Str)
  BY DEF DominantFormat
<1>2. ASSUME f # g PROVE FALSE
  <2>1. In(f) \cap In(g) = {} /\ In(f) \cup In(g) \subseteq Str
    BY <1>2
  <2> HIDE DEF In, Str
  <2>2. /\ Among(vs, In(f)) + Among(vs, In(g)) <= Among(vs, Str)
        /\ Among(vs, In(f)) \in Nat /\ Among(vs, In(g)) \in Nat /\ Among(vs, Str) \in Nat
    <3>1. Among(vs, In(f) \cup In(g)) = Among(vs, In(f)) + Among(vs, In(g))
      BY <2>1, AmongAdds
    <3>2. Among(vs, In(f) \cup In(g)) <= Among(vs, Str)
      BY <2>1, AmongGrows
    <3> QED
      BY <3>1, <3>2, AmongGrows
  <2> QED
    BY <1>1, <2>2
<1> QED
  BY <1>2

\* A sample that is not empty has finitely many kinds that are commonest.
LEMMA FewDominant ==
    ASSUME NEW vs \in Seq(Kept), vs # << >>
    PROVE  IsFiniteSet(DominantKinds(vs))
<1> DEFINE Met == {vs[i].value.kind : i \in DOMAIN vs}
<1>1. IsFiniteSet(Met)
  <2> DEFINE F == [i \in DOMAIN vs |-> vs[i].value.kind]
  <2>1. DOMAIN vs = 1 .. Len(vs) /\ Len(vs) \in Nat
    OBVIOUS
  <2>2. IsFiniteSet(DOMAIN vs)
    BY <2>1, FS_Interval
  <2>3. F \in Surjection(DOMAIN vs, Met)
    BY DEF Surjection
  <2> HIDE DEF F, Met
  <2> QED
    BY <2>2, <2>3, FS_Surjection
<1>2. ASSUME NEW k \in DominantKinds(vs) PROVE k \in Met
  <2>1. vs[1] \in Kept /\ 1 \in DOMAIN vs
    BY Limits
  <2>2. vs[1].value \in Value /\ vs[1].value \in OfKinds({vs[1].value.kind})
    BY <2>1 DEF Kept, OfKinds
  <2>3. Among(vs, OfKinds({vs[1].value.kind})) <= Among(vs, OfKinds({k}))
    BY <1>2, <2>2 DEF DominantKinds
  <2>4. Among(vs, {vs[1].value}) <= Among(vs, OfKinds({vs[1].value.kind}))
    BY <2>2, AmongGrows
  <2>5. Among(vs, {vs[1].value}) > 0
    <3>1. 1 \in Places(vs, {vs[1].value})
      BY <2>1 DEF Places
    <3>2. IsFiniteSet(Places(vs, {vs[1].value}))
      BY AmongGrows
    <3>3. /\ Cardinality(Places(vs, {vs[1].value})) \in Nat
          /\ Cardinality(Places(vs, {vs[1].value})) = 0 <=> Places(vs, {vs[1].value}) = {}
      BY <3>2, FS_CardinalityType, FS_EmptySet
    <3> QED
      BY <3>1, <3>3 DEF Among, Places
  <2>6. Among(vs, OfKinds({k})) > 0
    BY <2>3, <2>4, <2>5, AmongGrows
  <2>7. PICK i \in DOMAIN vs : vs[i].value \in OfKinds({k})
    BY <2>6, AmongSome
  <2> QED
    BY <2>7 DEF OfKinds
<1>3. DominantKinds(vs) \in SUBSET Met
  BY <1>2
<1> HIDE DEF Met
<1> QED
  BY <1>1, <1>3, FS_Subset

\* The shifts there are.
LEMMA ShiftsTyped ==
    ASSUME NEW base, NEW curr, NEW shift \in Shifts(base, curr)
    PROVE  shift \in {"none"} \cup Reason
<1> DEFINE Short == Len(base) < MinValues \/ Len(curr) < MinValues
           Moved == \E b \in Median(base), c \in Median(curr) : FarApart(b, c)
           Restyled == \E f \in DominantFormat(base), g \in DominantFormat(curr) : f # g
           J == DominantKinds(base)
           K == DominantKinds(curr)
<1>1. shift \in IF Short THEN {"none"} ELSE IF Moved THEN {"magnitude"}
                ELSE IF Restyled THEN {"format"}
                ELSE {IF j = k THEN "none" ELSE "form" : j \in J, k \in K}
  BY DEF Shifts
<1> HIDE DEF Short, Moved, Restyled, J, K
<1>2. ASSUME NEW s \in {IF j = k THEN "none" ELSE "form" : j \in J, k \in K}
      PROVE  s \in {"none", "form"}
  <2>1. PICK j \in J, k \in K : s = IF j = k THEN "none" ELSE "form"
    BY <1>2
  <2> QED
    BY <2>1
<1> QED
  BY <1>1, <1>2 DEF Reason

\* Samples with the same counts differ in nothing DetectShift looks at, unless
\* kinds are tied.
LEMMA SameIsNoShift ==
    ASSUME NEW base \in Seq(Kept), NEW curr \in Seq(Kept), SameValues(base, curr),
           NEW shift \in Shifts(base, curr), shift # "none"
    PROVE  Tied(curr)
<1>1. \A S \in SUBSET Value : Among(base, S) = Among(curr, S)
  BY SameCounts
<1>2. \A kinds : OfKinds(kinds) \in SUBSET Value
  BY DEF OfKinds
<1>3. Median(base) = Median(curr)
  <2>1. Among(base, OfKinds(Numeric)) = Among(curr, OfKinds(Numeric))
    BY <1>1, <1>2
  <2>2. ASSUME NEW v
        PROVE  /\ Among(base, {w \in OfKinds(Numeric) : w.size <= v.size})
                     = Among(curr, {w \in OfKinds(Numeric) : w.size <= v.size})
               /\ Among(base, {w \in OfKinds(Numeric) : w.size < v.size})
                     = Among(curr, {w \in OfKinds(Numeric) : w.size < v.size})
    BY <1>1, <1>2
  <2> QED
    BY <2>1, <2>2 DEF Median
<1>4. DominantFormat(base) = DominantFormat(curr)
  <2>1. Among(base, OfKinds({"string"})) = Among(curr, OfKinds({"string"}))
    BY <1>1, <1>2
  <2>2. ASSUME NEW f
        PROVE  Among(base, {v \in OfKinds({"string"}) : v.format = f})
                 = Among(curr, {v \in OfKinds({"string"}) : v.format = f})
    BY <1>1, <1>2
  <2> QED
    BY <2>1, <2>2 DEF DominantFormat
<1>5. DominantKinds(base) = DominantKinds(curr)
  <2>1. \A k : Among(base, OfKinds({k})) = Among(curr, OfKinds({k}))
    BY <1>1, <1>2
  <2>2. ASSUME NEW k
        PROVE  (\A v \in Value : Among(base, OfKinds({v.kind})) <= Among(base, OfKinds({k})))
                 <=> (\A v \in Value : Among(curr, OfKinds({v.kind})) <= Among(curr, OfKinds({k})))
    <3>1. ASSUME NEW v \in Value
          PROVE  (Among(base, OfKinds({v.kind})) <= Among(base, OfKinds({k})))
                   <=> (Among(curr, OfKinds({v.kind})) <= Among(curr, OfKinds({k})))
      <4>1. /\ Among(base, OfKinds({v.kind})) = Among(curr, OfKinds({v.kind}))
            /\ Among(base, OfKinds({k})) = Among(curr, OfKinds({k}))
        BY <2>1, Zenon
      <4> QED
        BY <4>1, Zenon
    <3> QED
      BY <3>1, Zenon
  <2> QED
    BY <2>2, Zenon DEF DominantKinds
<1>6. ~ \E b \in Median(base), c \in Median(curr) : FarApart(b, c)
  <2>1. ASSUME NEW b \in Median(base), NEW c \in Median(curr) PROVE ~FarApart(b, c)
    <3>1. b \in Nat /\ b = c
      BY <1>3, OneMedian
    <3> QED
      BY <3>1 DEF FarApart
  <2> QED
    BY <2>1
<1>7. ~ \E f \in DominantFormat(base), g \in DominantFormat(curr) : f # g
  BY <1>4, OneFormat
<1>8. /\ ~(Len(base) < MinValues \/ Len(curr) < MinValues)
      /\ shift \in {IF j = k THEN "none" ELSE "form" :
                      j \in DominantKinds(base), k \in DominantKinds(curr)}
  BY <1>6, <1>7 DEF Shifts
<1>9. PICK j \in DominantKinds(curr), k \in DominantKinds(curr) : j # k
  BY <1>5, <1>8
<1>10. IsFiniteSet(DominantKinds(curr))
  <2>1. curr # << >>
    BY <1>8, Limits
  <2> QED
    BY <2>1, FewDominant
<1>11. Cardinality(DominantKinds(curr)) > 1
  <2>1. {j, k} \in SUBSET DominantKinds(curr)
    BY <1>9
  <2>2. Cardinality({j, k}) = 2
    <3>1. IsFiniteSet({j}) /\ Cardinality({j}) = 1
      BY FS_Singleton
    <3>2. {j, k} = {j} \cup {k} /\ k \notin {j}
      BY <1>9
    <3> QED
      <4>1. Cardinality({j} \cup {k}) = Cardinality({j}) + 1
        BY <3>1, <3>2, FS_AddElement
      <4>2. Cardinality({j, k}) = Cardinality({j} \cup {k})
        BY <3>2, Zenon
      <4> QED
        BY <3>1, <4>1, <4>2
  <2>3. Cardinality({j, k}) <= Cardinality(DominantKinds(curr))
    BY <1>10, <2>1, FS_Subset
  <2> QED
    BY <1>10, <2>2, <2>3, FS_CardinalityType
<1> QED
  BY <1>11 DEF Tied

-----------------------------------------------------------------------------
(***************************************************************************)
(* The steps.                                                               *)
(***************************************************************************)

\* The invariant contains the properties.
LEMMA InvGives ==
    ASSUME Inv PROVE TypeOK /\ PeriodsApart /\ RoomFreed /\ CandidatesGrounded
<1>1. /\ DOMAIN paths \subseteq Path /\ Cardinality(DOMAIN paths) <= MaxPaths
      /\ paths \in [DOMAIN paths -> [baseline : Reservoir(period - 1),
                                     current : Reservoir(period)]]
      /\ \A k \in DOMAIN paths : paths[k].current # << >> \/ paths[k].baseline # << >>
  BY DEF Inv, Sampled
<1>2. ASSUME NEW k \in DOMAIN paths
      PROVE  /\ paths[k].baseline \in Reservoir(period - 1)
             /\ paths[k].current \in Reservoir(period)
  BY <1>1
<1>3. TypeOK
  BY <1>1, <1>2 DEF Inv, TodoOK, TypeOK, Reservoir
<1>4. PeriodsApart
  BY <1>2 DEF PeriodsApart, Reservoir
<1>5. RoomFreed
  BY <1>1 DEF RoomFreed
<1> QED
  BY <1>3, <1>4, <1>5 DEF Inv

\* Nothing is sampled, nothing found, at first.
LEMMA InitInv == Init => Inv
<1> SUFFICES ASSUME Init PROVE Inv
  OBVIOUS
<1>1. DOMAIN paths = {} /\ IsFiniteSet({}) /\ Cardinality({}) = 0
  BY FS_EmptySet DEF Init
<1>2. Sampled(paths)
  BY <1>1, Limits DEF Init, Sampled
<1>3. CandidatesGrounded
  BY DEF Init, CandidatesGrounded, Grounded
<1> QED
  BY <1>2, <1>3 DEF Init, Inv, TodoOK

\* A body filed, at whatever moment of a pass.
LEMMA ObserveInv ==
    ASSUME Inv, NEW body \in Body, Observe(body) PROVE Inv'
<1>1. /\ paths' \in Filed(body)[Len(body)]
      /\ period' = period /\ stage' = stage /\ todo' = todo
      /\ out' = out /\ candidates' = candidates
  BY DEF Observe
<1>2. Sampled(paths') /\ DOMAIN paths \subseteq DOMAIN paths'
  BY <1>1, FiledKeeps
<1>3. Sampled(paths)'
  BY <1>1, <1>2 DEF Sampled
<1>4. TodoOK'
  BY <1>1, <1>2 DEF Inv, TodoOK
<1>5. CandidatesGrounded'
  BY <1>1 DEF Inv, CandidatesGrounded
<1> QED
  BY <1>1, <1>3, <1>4, <1>5 DEF Inv

\* A pass begins with the paths sampled and an empty list.
LEMMA SelectInv == ASSUME Inv, Select PROVE Inv'
<1>1. /\ stage = "idle" /\ stage' = "select" /\ todo' = DOMAIN paths /\ out' = {}
      /\ paths' = paths /\ period' = period /\ candidates' = candidates
  BY DEF Select
<1>2. Sampled(paths)'
  BY <1>1 DEF Inv, Sampled
<1>3. TodoOK'
  BY <1>1 DEF Inv, TodoOK, Sampled
<1>4. CandidatesGrounded'
  BY <1>1 DEF Inv, CandidatesGrounded, Grounded
<1> QED
  BY <1>1, <1>2, <1>3, <1>4 DEF Inv

\* What an examination adds compares this period with the one before.
LEMMA ExamineInv ==
    ASSUME Inv, NEW k \in todo, Examine(k) PROVE Inv'
<1> DEFINE base == paths[k].baseline
           curr == paths[k].current
<1>1. /\ stage = "select" /\ stage' = stage /\ todo' = todo \ {k}
      /\ paths' = paths /\ period' = period /\ candidates' = candidates
  BY DEF Examine
<1>2. PICK shift \in Shifts(base, curr) :
        out' = out \cup {c \in {[path |-> k, baseline |-> base, current |-> curr,
                                reason |-> shift]} : c.reason # "none"}
  BY DEF Examine
<1>3. k \in DOMAIN paths /\ k \in Path
  BY <1>1 DEF Inv, TodoOK
<1>4. base \in Reservoir(period - 1) /\ curr \in Reservoir(period)
  BY <1>3 DEF Inv, Sampled
<1>5. /\ base \in Seq(Kept) /\ FiledIn(base, period - 1)
      /\ curr \in Seq(Kept) /\ FiledIn(curr, period)
  BY <1>4 DEF Reservoir
<1> HIDE DEF base, curr
<1>6. shift \in {"none"} \cup Reason
  BY ShiftsTyped
<1>7. ASSUME NEW c \in out', c \notin out
      PROVE  /\ c = [path |-> k, baseline |-> base, current |-> curr, reason |-> shift]
             /\ shift # "none"
  BY <1>2, <1>7
<1>8. out' \subseteq Candidate
  <2>1. ASSUME NEW c \in out', c \notin out PROVE c \in Candidate
    BY <1>3, <1>5, <1>6, <1>7, <2>1 DEF Candidate
  <2> QED
    BY <2>1 DEF Inv
<1>9. shift # "none" => Len(base) >= MinValues /\ Len(curr) >= MinValues
  <2>1. Len(base) \in Nat /\ Len(curr) \in Nat
    BY <1>5
  <2>2. Len(base) < MinValues \/ Len(curr) < MinValues => shift = "none"
    BY DEF Shifts
  <2> QED
    BY <2>1, <2>2, Limits
<1>10. Grounded(out', period)
  <2>1. Grounded(out, period)
    BY <1>1 DEF Inv, CandidatesGrounded
  <2>2. ASSUME NEW c \in out', c \notin out
        PROVE  /\ FiledIn(c.baseline, period - 1) /\ FiledIn(c.current, period)
               /\ Len(c.baseline) >= MinValues /\ Len(c.current) >= MinValues
               /\ SameValues(c.baseline, c.current) => Tied(c.current)
    <3>1. c.baseline = base /\ c.current = curr /\ shift # "none"
      BY <1>7, <2>2
    <3> QED
      BY <3>1, <1>5, <1>9, SameIsNoShift
  <2> QED
    BY <2>1, <2>2 DEF Grounded
<1>11. CandidatesGrounded'
  BY <1>1, <1>10 DEF Inv, CandidatesGrounded
<1>12. Sampled(paths)'
  BY <1>1 DEF Inv, Sampled
<1>13. TodoOK'
  BY <1>1 DEF Inv, TodoOK
<1> QED
  BY <1>1, <1>8, <1>11, <1>12, <1>13 DEF Inv

\* A rotation makes this period's side the one before, and both lists a period
\* older.
LEMMA RotateInv == ASSUME Inv, Rotate PROVE Inv'
<1>1. /\ stage = "select" /\ stage' = "publish" /\ todo = {} /\ todo' = todo
      /\ paths' = Rotated(paths) /\ period' = period + 1
      /\ out' = out /\ candidates' = candidates /\ period \in Nat
  BY DEF Rotate, Inv
<1> DEFINE left == Rotated(paths)
<1>2. /\ DOMAIN left = {k \in DOMAIN paths : paths[k].current # << >>}
      /\ \A k \in DOMAIN left : left[k] = [baseline |-> paths[k].current, current |-> << >>]
      /\ left = [k \in DOMAIN left |-> left[k]]
  BY DEF Rotated
<1>3. DOMAIN left \in SUBSET DOMAIN paths
  BY <1>2
<1>4. /\ IsFiniteSet(DOMAIN paths) /\ Cardinality(DOMAIN paths) <= MaxPaths
      /\ DOMAIN paths \subseteq Path
      /\ \A k \in DOMAIN paths : paths[k].current \in Reservoir(period)
  BY DEF Inv, Sampled
<1> HIDE DEF left
<1>5. IsFiniteSet(DOMAIN left) /\ Cardinality(DOMAIN left) <= MaxPaths
  <2>1. /\ IsFiniteSet(DOMAIN left) /\ Cardinality(DOMAIN left) <= Cardinality(DOMAIN paths)
        /\ Cardinality(DOMAIN left) \in Nat /\ Cardinality(DOMAIN paths) \in Nat
    BY <1>3, <1>4, FS_Subset, FS_CardinalityType
  <2> QED
    BY <2>1, <1>4, Limits
<1>6. ASSUME NEW k \in DOMAIN left
      PROVE  /\ left[k] \in [baseline : Reservoir(period), current : Reservoir(period + 1)]
             /\ left[k].baseline # << >>
  <2>1. k \in DOMAIN paths /\ paths[k].current # << >>
    BY <1>2, <1>6
  <2>2. paths[k].current \in Reservoir(period) /\ << >> \in Reservoir(period + 1)
    BY <2>1, <1>4, EmptyReservoir
  <2>3. left[k] = [baseline |-> paths[k].current, current |-> << >>]
    BY <1>2, <1>6
  <2> QED
    BY <2>1, <2>2, <2>3
<1>7. Sampled(paths)'
  <2>1. period' - 1 = period /\ period' = period + 1
    BY <1>1
  <2>2. left \in [DOMAIN left -> [baseline : Reservoir(period' - 1), current : Reservoir(period')]]
    BY <1>2, <1>6, <2>1
  <2>3. paths' = left
    BY <1>1 DEF left
  <2> QED
    BY <1>3, <1>4, <1>5, <1>6, <2>2, <2>3 DEF Sampled
<1>8. TodoOK'
  BY <1>1 DEF Inv, TodoOK
<1>9. CandidatesGrounded'
  <2>1. Grounded(out, period) /\ Grounded(candidates, period - 1)
    BY <1>1 DEF Inv, CandidatesGrounded
  <2>2. period' - 1 = period /\ period' - 2 = period - 1
    BY <1>1
  <2> QED
    BY <1>1, <2>1, <2>2 DEF CandidatesGrounded
<1> QED
  BY <1>1, <1>7, <1>8, <1>9 DEF Inv

\* The list found becomes the list published.
LEMMA PublishInv == ASSUME Inv, Publish PROVE Inv'
<1>1. /\ stage = "publish" /\ stage' = "idle" /\ candidates' = out
      /\ paths' = paths /\ period' = period /\ todo' = todo /\ out' = out
  BY DEF Publish
<1>2. Sampled(paths)'
  BY <1>1 DEF Inv, Sampled
<1>3. TodoOK'
  BY <1>1 DEF Inv, TodoOK
<1>4. CandidatesGrounded'
  BY <1>1 DEF Inv, CandidatesGrounded
<1> QED
  BY <1>1, <1>2, <1>3, <1>4 DEF Inv

\* Every step keeps the invariant.
LEMMA NextInv == ASSUME Inv, [Next]_vars PROVE Inv'
<1>1. CASE \E body \in Body : Observe(body)
  BY <1>1, ObserveInv
<1>2. CASE Select
  BY <1>2, SelectInv
<1>3. CASE \E k \in todo : Examine(k)
  BY <1>3, ExamineInv
<1>4. CASE Rotate
  BY <1>4, RotateInv
<1>5. CASE Publish
  BY <1>5, PublishInv
<1>6. CASE UNCHANGED vars
  BY <1>6 DEF vars, Inv, Sampled, TodoOK, CandidatesGrounded
<1> QED
  BY <1>1, <1>2, <1>3, <1>4, <1>5, <1>6 DEF Next

\* The invariant holds throughout.
LEMMA Invariance == Spec => []Inv
<1>1. Inv /\ [Next]_vars => Inv'
  BY NextInv
<1> QED
  BY <1>1, InitInv, PTL DEF Spec

\* No more paths than the cap and no reservoir beyond its size, however much
\* traffic goes past (valuesample.go, Limits).
THEOREM TypeCorrect == Spec => []TypeOK
<1>1. Inv => TypeOK
  BY InvGives
<1> QED
  BY <1>1, Invariance, PTL

\* The two sides of every path are this period and the one before it, whatever
\* arrives during the evaluator's pass (valuesample.go, Rotate).
THEOREM PeriodsApartHolds == Spec => []PeriodsApart
<1>1. Inv => PeriodsApart
  BY InvGives
<1> QED
  BY <1>1, Invariance, PTL

\* A path takes up a place only while there is something to compare
\* (valuesample.go, Rotate).
THEOREM RoomFreedHolds == Spec => []RoomFreed
<1>1. Inv => RoomFreed
  BY InvGives
<1> QED
  BY <1>1, Invariance, PTL

\* What is published compares the last period judged with the one before, with
\* enough values on both sides, which differ unless kinds are tied (analyze.go,
\* selectCandidates; valuesample.go, DetectShift).
THEOREM CandidatesGroundedHolds == Spec => []CandidatesGrounded
<1>1. Inv => CandidatesGrounded
  BY InvGives
<1> QED
  BY <1>1, Invariance, PTL
=============================================================================
