--------------------------- MODULE TrackerProofs ---------------------------
(***************************************************************************)
(* For every set of findings, every persistence and every capacity: the     *)
(* tracker is well typed, bounded, never early, and implements Persistence. *)
(***************************************************************************)
EXTENDS Tracker, FiniteSetTheorems, TLAPS

LatestKept == IF kept = << >> THEN {} ELSE kept[Len(kept)]

\* The findings the loop has handled so far.
Done == {batch[i] : i \in 1 .. next - 1}

\* f belongs to the last n windows of h and not to the one before them.
RunOf(f, n, h) ==
    /\ n \in 0 .. Len(h)
    /\ \A k \in 0 .. n - 1 : f \in h[Len(h) - k]
    /\ n < Len(h) => f \notin h[Len(h) - n]

\* f has been counted in the window Observe is working on.
Counted(f) == phase = "loop" /\ streaks[f].lastWindow = window

\* How much of f's streak lies in finished windows.
Past(f) == IF Counted(f) THEN streaks[f].count - 1 ELSE streaks[f].count

Bounded ==
    /\ IsFiniteSet(DOMAIN streaks)
    /\ Cardinality(DOMAIN streaks) <= MaxTracked

HistoryOK ==
    /\ Len(reported) = Len(kept)
    /\ window = IF phase = "idle" THEN Len(kept) ELSE Len(kept) + 1
    /\ \A i \in 1 .. Len(kept) : kept[i] \subseteq reported[i]

\* A streak is the run of windows that ends now; what it was before this
\* window is a run of the finished ones.
StreaksOK ==
    \A f \in DOMAIN streaks :
        /\ \/ streaks[f].lastWindow = window
           \/ phase = "loop" /\ streaks[f].lastWindow + 1 = window
        /\ RunOf(f, Past(f), kept)

BetweenCalls == phase = "idle" => DOMAIN streaks = LatestKept

InsideLoop ==
    phase = "loop" =>
        /\ LatestKept \subseteq DOMAIN streaks
        /\ DOMAIN streaks \subseteq LatestKept \cup Done
        /\ \A f \in DOMAIN streaks : Counted(f) <=> f \in Done
        /\ (\E f \in Done : f \notin DOMAIN streaks)
              => Cardinality(DOMAIN streaks) >= MaxTracked
        /\ Members(out) = {f \in DOMAIN streaks :
                             Counted(f) /\ Qualifies(streaks[f].count)}

ReturnedOK == Members(returned) = {f \in LatestKept : Promise!Survived(f, kept)}

Inv ==
    /\ TypeOK
    /\ Bounded
    /\ HistoryOK
    /\ StreaksOK
    /\ BetweenCalls
    /\ InsideLoop
    /\ ReturnedOK

-----------------------------------------------------------------------------
\* Every value keeps its type, for every number of windows and every cap.
THEOREM TypeCorrect == Spec => []TypeOK
<1>1. Init => TypeOK
  BY DEF Init, TypeOK
<1>2. TypeOK /\ [Next]_vars => TypeOK'
  <2> SUFFICES ASSUME TypeOK, [Next]_vars PROVE TypeOK'
    OBVIOUS
  <2>1. CASE \E findings \in Batches : Begin(findings)
    BY <2>1, BatchAssumption DEF TypeOK, Begin
  <2>2. CASE SkipFinding
    BY <2>2 DEF TypeOK, SkipFinding
  <2>3. CASE CountFinding
    <3> DEFINE f == batch[next]
    <3>1. f \in Finding
      BY <2>3 DEF CountFinding, TypeOK
    <3>2. [count |-> Count(f), lastWindow |-> window] \in Streak
      BY <3>1 DEF TypeOK, Streak, Count, Followed
    <3>3. DOMAIN streaks' \subseteq Finding /\ streaks' \in [DOMAIN streaks' -> Streak]
      BY <2>3, <3>1, <3>2 DEF CountFinding, TypeOK
    <3>4. out' \in Seq(Finding)
      BY <2>3, <3>1 DEF CountFinding, TypeOK
    <3> QED
      BY <2>3, <3>3, <3>4 DEF CountFinding, TypeOK
  <2>4. CASE Return
    BY <2>4 DEF TypeOK, Return, Current, Members
  <2>5. CASE UNCHANGED vars
    BY <2>5 DEF TypeOK, vars
  <2> QED
    BY <2>1, <2>2, <2>3, <2>4, <2>5 DEF Next
<1> QED
  BY <1>1, <1>2, PTL DEF Spec

-----------------------------------------------------------------------------
\* Appending a window extends the runs of its members by one.
LEMMA RunExtends ==
    ASSUME NEW h \in Seq(SUBSET Finding), NEW S \in SUBSET Finding,
           NEW f \in S, NEW n, RunOf(f, n, h)
    PROVE  RunOf(f, n + 1, Append(h, S))
<1> DEFINE hh == Append(h, S)
<1>1. /\ Len(hh) = Len(h) + 1 /\ Len(h) \in Nat
      /\ hh[Len(hh)] = S
      /\ \A i \in 1 .. Len(h) : hh[i] = h[i]
  OBVIOUS
<1>2. n \in Nat /\ n <= Len(h)
  BY <1>1 DEF RunOf
<1> HIDE DEF hh
<1>3. \A k \in 0 .. (n + 1) - 1 : f \in hh[Len(hh) - k]
  <2> SUFFICES ASSUME NEW k \in 0 .. n PROVE f \in hh[Len(hh) - k]
    BY <1>2
  <2>1. CASE k = 0
    BY <2>1, <1>1
  <2>2. CASE k # 0
    <3>1. /\ k - 1 \in 0 .. n - 1
          /\ Len(hh) - k = Len(h) - (k - 1)
          /\ Len(h) - (k - 1) \in 1 .. Len(h)
      BY <2>2, <1>1, <1>2
    <3>2. f \in h[Len(h) - (k - 1)]
      BY <3>1 DEF RunOf
    <3> QED
      BY <3>1, <3>2, <1>1
  <2> QED
    BY <2>1, <2>2
<1>4. n + 1 < Len(hh) => f \notin hh[Len(hh) - (n + 1)]
  <2> SUFFICES ASSUME n < Len(h) PROVE f \notin hh[Len(h) - n]
    BY <1>1, <1>2
  <2>1. Len(h) - n \in 1 .. Len(h)
    BY <1>1, <1>2
  <2> QED
    BY <2>1, <1>1 DEF RunOf
<1>5. n + 1 \in 0 .. Len(hh)
  BY <1>1, <1>2
<1>6. RunOf(f, n + 1, hh)
  BY <1>3, <1>4, <1>5 DEF RunOf
<1> QED
  BY <1>6 DEF hh

\* The window appended to a history is its latest.
LEMMA LatestAppended ==
    ASSUME NEW h \in Seq(SUBSET Finding), NEW S \in SUBSET Finding
    PROVE  Append(h, S) # << >> /\ Append(h, S)[Len(Append(h, S))] = S
OBVIOUS

\* A run of at least PersistWindows windows is what surviving means.
LEMMA RunSurvives ==
    ASSUME NEW h \in Seq(SUBSET Finding), NEW f, NEW n, RunOf(f, n, h)
    PROVE  n >= PersistWindows <=> Promise!Survived(f, h)
BY PersistAssumption DEF RunOf, Promise!Survived

\* The distinct members of a finite batch are finitely many.
LEMMA MembersFinite ==
    ASSUME NEW s \in Seq(Finding)
    PROVE  IsFiniteSet(Members(s))
<1>1. s \in Surjection(1 .. Len(s), Members(s))
  BY DEF Surjection, Members
<1>2. IsFiniteSet(1 .. Len(s))
  BY FS_Interval
<1> QED
  BY <1>1, <1>2, FS_Surjection

\* The invariant holds at the start.
LEMMA InitInv == Init => Inv
<1> SUFFICES ASSUME Init PROVE Inv
  OBVIOUS
<1>1. TypeOK
  BY DEF Init, TypeOK
<1>2. Bounded
  BY FS_EmptySet, CapacityAssumption DEF Init, Bounded
<1> QED
  BY <1>1, <1>2 DEF Init, Inv, HistoryOK, StreaksOK, BetweenCalls, InsideLoop,
                    ReturnedOK, LatestKept, Members

\* The steps of Observe, one by one: a call begins, ...
LEMMA BeginInv ==
    ASSUME Inv, NEW findings \in Batches, Begin(findings)
    PROVE  Inv'
<1> USE DEF Inv, Begin
<1>1. TypeOK'
  BY BatchAssumption DEF TypeOK
<1>2. Bounded' /\ HistoryOK' /\ ReturnedOK'
  BY DEF Bounded, HistoryOK, ReturnedOK, LatestKept, Members, TypeOK
<1>3. StreaksOK'
  BY DEF StreaksOK, Past, Counted, HistoryOK, TypeOK
<1>4. InsideLoop' /\ BetweenCalls'
  BY DEF InsideLoop, BetweenCalls, StreaksOK, Counted, Done, Members, LatestKept,
         HistoryOK, TypeOK, Streak
<1> QED
  BY <1>1, <1>2, <1>3, <1>4

\* ... a finding is dropped, ...
LEMMA SkipInv ==
    ASSUME Inv, SkipFinding
    PROVE  Inv'
<1> USE DEF Inv, SkipFinding
<1> DEFINE f == batch[next]
<1>1. TypeOK'
  BY DEF TypeOK
<1>2. Bounded' /\ HistoryOK' /\ ReturnedOK' /\ StreaksOK' /\ BetweenCalls'
  BY DEF Bounded, HistoryOK, ReturnedOK, StreaksOK, Past, Counted, BetweenCalls,
         LatestKept, Members
<1>3. Done' = Done \cup {f}
  BY DEF Done, TypeOK
<1>4. InsideLoop'
  BY <1>3 DEF InsideLoop, NoRoom, Followed, Counted, LatestKept, Members
<1> QED
  BY <1>1, <1>2, <1>4

\* ... a finding is counted, ...
LEMMA CountInv ==
    ASSUME Inv, CountFinding
    PROVE  Inv'
<1> USE DEF Inv
<1> PICK f : f = batch[next]
  OBVIOUS
<1>0. /\ phase = "loop" /\ phase' = "loop" /\ window' = window /\ kept' = kept
      /\ batch' = batch /\ next' = next + 1 /\ ~NoRoom(f) /\ f \in Finding
      /\ window \in Nat /\ next \in 1 .. Len(batch)
  BY DEF CountFinding, TypeOK
<1>1. TypeOK'
  <2>1. [count |-> Count(f), lastWindow |-> window] \in Streak
    BY <1>0 DEF TypeOK, Streak, Count, Followed
  <2>2. DOMAIN streaks' \subseteq Finding /\ streaks' \in [DOMAIN streaks' -> Streak]
    BY <1>0, <2>1 DEF CountFinding, TypeOK
  <2>3. out' \in Seq(Finding)
    BY <1>0 DEF CountFinding, TypeOK
  <2> QED
    BY <2>2, <2>3 DEF CountFinding, TypeOK
<1>2. /\ DOMAIN streaks' = DOMAIN streaks \cup {f}
      /\ streaks'[f] = [count |-> Count(f), lastWindow |-> window]
      /\ \A g \in DOMAIN streaks \ {f} : streaks'[g] = streaks[g]
  BY DEF CountFinding
<1>3. Bounded'
  <2>1. CASE f \in DOMAIN streaks
    <3>1. DOMAIN streaks' = DOMAIN streaks
      BY <2>1, <1>2
    <3> QED
      BY <3>1 DEF Bounded
  <2>2. CASE f \notin DOMAIN streaks
    <3>1. /\ Cardinality(DOMAIN streaks) \in Nat
          /\ Cardinality(DOMAIN streaks) < MaxTracked
      BY <2>2, <1>0, FS_CardinalityType, CapacityAssumption
         DEF NoRoom, Followed, Bounded
    <3>2. /\ IsFiniteSet(DOMAIN streaks \cup {f})
          /\ Cardinality(DOMAIN streaks \cup {f}) = Cardinality(DOMAIN streaks) + 1
      BY <2>2, FS_AddElement DEF Bounded
    <3> QED
      BY <3>1, <3>2, <1>2, CapacityAssumption DEF Bounded
  <2> QED
    BY <2>1, <2>2
<1>4. HistoryOK' /\ ReturnedOK' /\ BetweenCalls'
  BY <1>0 DEF CountFinding, HistoryOK, ReturnedOK, BetweenCalls, LatestKept, Members
<1>5. LatestKept' = LatestKept
  BY <1>0 DEF LatestKept
<1>6. StreaksOK'
  <2> SUFFICES ASSUME NEW g \in DOMAIN streaks'
               PROVE  /\ \/ streaks'[g].lastWindow = window
                         \/ streaks'[g].lastWindow + 1 = window
                      /\ RunOf(g, Past(g)', kept)
    BY <1>0 DEF StreaksOK
  <2>1. CASE g # f
    BY <2>1, <1>0, <1>2 DEF StreaksOK, Past, Counted
  <2>2. CASE g = f /\ f \in DOMAIN streaks
    <3>1. Past(f)' = Past(f)
      <4>1. streaks[f].count \in Nat /\ streaks[f].lastWindow \in Nat
        BY <2>2 DEF TypeOK, Streak
      <4>2. Past(f)' = Count(f) - 1
        BY <1>0, <1>2 DEF Past, Counted
      <4>3. CASE streaks[f].lastWindow = window
        BY <4>1, <4>2, <4>3, <2>2, <1>0 DEF Past, Counted, Count, Followed
      <4>4. CASE streaks[f].lastWindow # window /\ streaks[f].lastWindow + 1 = window
        BY <4>1, <4>2, <4>4, <2>2, <1>0 DEF Past, Counted, Count, Followed
      <4> QED
        BY <4>3, <4>4, <2>2 DEF StreaksOK
    <3> QED
      BY <2>2, <3>1, <1>2, <1>0 DEF StreaksOK
  <2>3. CASE g = f /\ f \notin DOMAIN streaks
    <3>1. Past(f)' = 0
      BY <2>3, <1>0, <1>2 DEF Past, Counted, Count, Followed
    <3>2. f \notin LatestKept
      BY <2>3, <1>0 DEF InsideLoop
    <3>3. RunOf(f, 0, kept)
      BY <3>2 DEF RunOf, LatestKept, TypeOK
    <3> QED
      BY <2>3, <3>1, <3>3, <1>2
  <2> QED
    BY <2>1, <2>2, <2>3
<1>7. Done' = Done \cup {f}
  BY <1>0 DEF Done
<1>8. InsideLoop'
  <2>1. LatestKept' \subseteq DOMAIN streaks' /\ DOMAIN streaks' \subseteq LatestKept' \cup Done'
    BY <1>0, <1>2, <1>5, <1>7 DEF InsideLoop
  <2>2. \A g \in DOMAIN streaks' : Counted(g)' <=> g \in Done'
    BY <1>0, <1>2, <1>7 DEF InsideLoop, Counted
  <2>3. (\E g \in Done' : g \notin DOMAIN streaks')
           => Cardinality(DOMAIN streaks') >= MaxTracked
    <3> SUFFICES ASSUME NEW g \in Done', g \notin DOMAIN streaks'
                 PROVE  Cardinality(DOMAIN streaks') >= MaxTracked
      OBVIOUS
    <3>1. g \in Done /\ g \notin DOMAIN streaks
      BY <1>2, <1>7
    <3>2. Cardinality(DOMAIN streaks) >= MaxTracked
      BY <3>1, <1>0 DEF InsideLoop
    <3>3. f \in DOMAIN streaks
      BY <3>2, <1>0 DEF NoRoom, Followed
    <3>4. DOMAIN streaks' = DOMAIN streaks
      BY <3>3, <1>2
    <3> QED
      BY <3>2, <3>4
  <2>4. Members(out)' = {g \in DOMAIN streaks' :
                            Counted(g)' /\ Qualifies(streaks'[g].count)}
    <3>1. Members(out)' = IF Qualifies(Count(f)) THEN Members(out) \cup {f} ELSE Members(out)
      <4>1. out \in Seq(Finding) /\ f \in Finding
        BY <1>0 DEF TypeOK
      <4>2. Members(Append(out, f)) = Members(out) \cup {f}
        BY <4>1 DEF Members
      <4>3. out' = IF Qualifies(Count(f)) THEN Append(out, f) ELSE out
        BY DEF CountFinding
      <4> QED
        BY <4>2, <4>3 DEF Members
    <3>2. Counted(f)' /\ streaks'[f].count = Count(f)
      BY <1>0, <1>2 DEF Counted
    <3>3. \A g \in DOMAIN streaks \ {f} :
             (Counted(g)' <=> Counted(g)) /\ streaks'[g].count = streaks[g].count
      BY <1>0, <1>2 DEF Counted
    <3>4. f \in Members(out) => Qualifies(Count(f))
      BY <1>0 DEF InsideLoop, Counted, Count, Followed, Qualifies
    <3> QED
      BY <3>1, <3>2, <3>3, <3>4, <1>2, <1>0 DEF InsideLoop
  <2> QED
    BY <2>1, <2>2, <2>3, <2>4, <1>0 DEF InsideLoop
<1> QED
  BY <1>1, <1>3, <1>4, <1>6, <1>8

\* ... a call returns, ...
LEMMA ReturnInv ==
    ASSUME Inv, Return
    PROVE  Inv'
<1> USE DEF Inv
<1> DEFINE K == {f \in DOMAIN streaks : streaks[f].lastWindow = window}
<1>0. /\ phase = "loop" /\ phase' = "idle" /\ window' = window /\ kept' = Append(kept, K)
      /\ reported' = Append(reported, Members(batch)) /\ returned' = out
      /\ DOMAIN streaks' = K /\ \A f \in K : streaks'[f] = streaks[f]
      /\ next = Len(batch) + 1 /\ K \subseteq Finding /\ Members(batch) \in SUBSET Finding
      /\ kept \in Seq(SUBSET Finding) /\ reported \in Seq(SUBSET Finding)
  BY DEF Return, Current, TypeOK, Members
<1>1. TypeOK'
  BY DEF TypeOK, Return, Current, Members
<1>2. Bounded'
  BY <1>0, FS_Subset, FS_CardinalityType, CapacityAssumption DEF Bounded
<1>3. Members(batch) = Done
  BY <1>0 DEF Members, Done, TypeOK
<1>4. K = DOMAIN streaks \cap Done
  BY <1>0 DEF InsideLoop, Counted
<1>5. LatestKept' = K
  <2>1. kept' # << >> /\ kept'[Len(kept')] = K
    BY <1>0, LatestAppended, Zenon
  <2> QED
    BY <2>1 DEF LatestKept
<1>6. HistoryOK'
  <2>1. /\ Len(kept') = Len(kept) + 1 /\ Len(reported') = Len(reported) + 1
        /\ Len(kept) = Len(reported) /\ window = Len(kept) + 1
    BY <1>0 DEF HistoryOK
  <2>2. ASSUME NEW i \in 1 .. Len(kept') PROVE kept'[i] \subseteq reported'[i]
    <3>1. CASE i = Len(kept')
      BY <3>1, <2>1, <1>0, <1>3, <1>4
    <3>2. CASE i \in 1 .. Len(kept)
      BY <3>2, <2>1, <1>0 DEF HistoryOK
    <3> QED
      BY <3>1, <3>2, <2>1, <1>0
  <2> QED
    BY <2>1, <2>2, <1>0 DEF HistoryOK
<1>7. ASSUME NEW f \in K PROVE RunOf(f, streaks[f].count, kept')
  <2>1. RunOf(f, streaks[f].count - 1, kept) /\ streaks[f].count \in Nat
    BY <1>0 DEF StreaksOK, Past, Counted, TypeOK, Streak
  <2>2. RunOf(f, (streaks[f].count - 1) + 1, Append(kept, K))
    BY <2>1, <1>0, RunExtends, Zenon
  <2> QED
    BY <2>1, <2>2, <1>0
<1>8. StreaksOK'
  BY <1>0, <1>7 DEF StreaksOK, Past, Counted
<1>9. BetweenCalls' /\ InsideLoop'
  BY <1>0, <1>5 DEF BetweenCalls, InsideLoop
<1>10. ReturnedOK'
  <2>1. Members(out) = {f \in K : Qualifies(streaks[f].count)}
    BY <1>0 DEF InsideLoop, Counted
  <2>2. ASSUME NEW f \in K
        PROVE  Qualifies(streaks[f].count) <=> Promise!Survived(f, kept')
    <3>1. kept' \in Seq(SUBSET Finding)
      BY <1>0
    <3> QED
      BY <3>1, <1>7, RunSurvives DEF Qualifies
  <2>3. Members(returned') = Members(out)
    BY <1>0 DEF Members
  <2>4. Members(returned') = {f \in K : Promise!Survived(f, kept')}
    BY <2>1, <2>2, <2>3
  <2> QED
    BY <2>4, <1>5 DEF ReturnedOK, Members
<1> QED
  BY <1>1, <1>2, <1>6, <1>8, <1>9, <1>10

\* ... or nothing happens.
LEMMA StutterInv == Inv /\ UNCHANGED vars => Inv'
<1> SUFFICES ASSUME Inv, UNCHANGED vars PROVE Inv'
  OBVIOUS
<1> USE DEF vars
<1>1. TypeOK' /\ Bounded' /\ HistoryOK'
  BY DEF Inv, TypeOK, Bounded, HistoryOK
<1>2. StreaksOK'
  BY DEF Inv, StreaksOK, Past, Counted
<1>3. InsideLoop' /\ BetweenCalls'
  BY DEF Inv, InsideLoop, BetweenCalls, LatestKept, Done, Counted, Members
<1>4. ReturnedOK'
  BY DEF Inv, ReturnedOK, LatestKept, Members
<1> QED
  BY <1>1, <1>2, <1>3, <1>4 DEF Inv

\* The invariant always holds.
THEOREM InvHolds == Spec => []Inv
<1>1. Inv /\ [Next]_vars => Inv'
  BY BeginInv, SkipInv, CountInv, ReturnInv, StutterInv DEF Next
<1> QED
  BY InitInv, <1>1, PTL DEF Spec

-----------------------------------------------------------------------------
\* No finding is returned before it was reported in PersistWindows windows in
\* a row, for every sequence of windows and every capacity.
THEOREM NeverEarlyHolds == Spec => []NeverEarly
<1>1. Inv => NeverEarly
  <2> SUFFICES ASSUME Inv, phase = "idle", NEW f \in Members(returned)
               PROVE  /\ PersistWindows <= Len(reported)
                      /\ \A k \in 0 .. PersistWindows - 1 :
                            f \in reported[Len(reported) - k]
    BY DEF NeverEarly
  <2>1. Promise!Survived(f, kept)
    BY DEF Inv, ReturnedOK
  <2>2. /\ Len(reported) = Len(kept) /\ Len(kept) \in Nat
        /\ \A i \in 1 .. Len(kept) : kept[i] \subseteq reported[i]
    BY DEF Inv, HistoryOK, TypeOK
  <2>3. \A k \in 0 .. PersistWindows - 1 : Len(kept) - k \in 1 .. Len(kept)
    BY <2>1, <2>2, PersistAssumption DEF Promise!Survived
  <2> QED
    BY <2>1, <2>2, <2>3 DEF Promise!Survived
<1> QED
  BY InvHolds, <1>1, PTL

\* The map of streaks respects its cap at every step, and between calls holds
\* nothing but findings of the window just observed.
THEOREM MemoryBoundedHolds == Spec => []MemoryBounded
<1>1. Inv => MemoryBounded
  <2> SUFFICES ASSUME Inv PROVE MemoryBounded
    OBVIOUS
  <2>1. Cardinality(DOMAIN streaks) <= MaxTracked
    BY DEF Inv, Bounded
  <2>2. ASSUME phase = "idle", reported # << >>
        PROVE  DOMAIN streaks \subseteq reported[Len(reported)]
    <3>1. Len(reported) = Len(kept) /\ Len(kept) \in Nat \ {0} /\ kept # << >>
      BY <2>2 DEF Inv, HistoryOK, TypeOK
    <3>2. DOMAIN streaks = kept[Len(kept)]
      BY <2>2, <3>1 DEF Inv, BetweenCalls, LatestKept
    <3>3. kept[Len(kept)] \subseteq reported[Len(kept)]
      BY <3>1 DEF Inv, HistoryOK
    <3> QED
      BY <3>1, <3>2, <3>3
  <2> QED
    BY <2>1, <2>2 DEF MemoryBounded
<1> QED
  BY InvHolds, <1>1, PTL

\* A finding that was being followed and is reported again is still followed
\* afterwards, however full the map.
THEOREM FollowedNeverDroppedHolds == Spec => FollowedNeverDropped
<1>1. Inv /\ [Next]_vars =>
        [phase = "loop" /\ phase' = "idle" =>
           Members(batch) \cap LatestKept \subseteq DOMAIN streaks']_vars
  <2> SUFFICES ASSUME Inv, Next, phase = "loop", phase' = "idle",
                      NEW f \in Members(batch) \cap LatestKept
               PROVE  f \in DOMAIN streaks'
    BY DEF vars
  <2>1. Return
    BY DEF Next, Begin, SkipFinding, CountFinding
  <2>2. Members(batch) = Done
    BY <2>1 DEF Return, Members, Done, Inv, TypeOK
  <2>3. f \in DOMAIN streaks /\ streaks[f].lastWindow = window
    BY <2>2 DEF Inv, InsideLoop, Counted
  <2> QED
    BY <2>1, <2>3 DEF Return, Current
<1> QED
  BY InvHolds, <1>1, PTL DEF Spec, FollowedNeverDropped, LatestKept

-----------------------------------------------------------------------------
\* A window that loses a finding holds, with the one before, too many for the
\* map.
LEMMA LossMeansOverfull ==
    ASSUME Inv, Return, NEW f \in Members(batch), f \notin DOMAIN streaks
    PROVE  Cardinality(Members(batch) \cup LatestKept) > MaxTracked
<1> USE DEF Inv
<1> DEFINE T == Members(batch) \cup LatestKept
<1>1. Members(batch) = Done /\ phase = "loop"
  BY DEF Return, Members, Done, TypeOK
<1>2. Cardinality(DOMAIN streaks) >= MaxTracked
  BY <1>1 DEF InsideLoop
<1>3. IsFiniteSet(T)
  <2>1. IsFiniteSet(LatestKept)
    BY <1>1, FS_Subset DEF InsideLoop, Bounded
  <2>2. IsFiniteSet(Members(batch))
    BY MembersFinite DEF TypeOK
  <2> QED
    BY <2>1, <2>2, FS_Union
<1>4. DOMAIN streaks \cup {f} \in SUBSET T
  BY <1>1 DEF InsideLoop
<1>5. /\ Cardinality(DOMAIN streaks \cup {f}) = Cardinality(DOMAIN streaks) + 1
      /\ IsFiniteSet(DOMAIN streaks \cup {f})
  BY FS_AddElement DEF Bounded
<1>6. Cardinality(DOMAIN streaks \cup {f}) <= Cardinality(T)
  BY <1>3, <1>4, FS_Subset
<1>7. Cardinality(DOMAIN streaks) \in Nat /\ Cardinality(T) \in Nat
  BY <1>3, FS_CardinalityType DEF Bounded
<1> QED
  BY <1>2, <1>5, <1>6, <1>7, CapacityAssumption

\* The tracker implements the abstract promise: Return is the abstract window,
\* every other step leaves it unchanged.
THEOREM Implements == Spec => ImplementsPersistence
<1>1. Init => Promise!Init
  BY DEF Init, Promise!Init, Members
<1>2. Inv /\ [Next]_vars => [Promise!Next]_(Promise!vars)
  <2> SUFFICES ASSUME Inv, [Next]_vars PROVE [Promise!Next]_(Promise!vars)
    OBVIOUS
  <2>1. CASE Return
    <3> DEFINE S == Members(batch)
               lost == S \ DOMAIN streaks
    <3>1. Inv'
      BY <2>1, ReturnInv
    <3>2. /\ S = Done /\ phase = "loop" /\ S \in SUBSET Finding
      BY <2>1 DEF Return, Members, Done, Inv, TypeOK
    <3>3. S \ lost = {f \in DOMAIN streaks : streaks[f].lastWindow = window}
      BY <3>2 DEF Inv, InsideLoop, Counted
    <3>4. kept' = Append(kept, S \ lost) /\ kept \in Seq(SUBSET Finding)
      BY <2>1, <3>3 DEF Return, Inv, TypeOK
    <3>5. LatestKept' = S \ lost
      <4>1. kept' # << >> /\ kept'[Len(kept')] = S \ lost
        BY <3>2, <3>4
      <4> QED
        BY <4>1 DEF LatestKept
    <3>6. Members(returned)' = {f \in S \ lost : Promise!Survived(f, kept')}
      BY <3>1, <3>5 DEF Inv, ReturnedOK
    <3>7. Promise!Latest(kept) = LatestKept
      BY DEF Promise!Latest, LatestKept
    <3>8. lost \subseteq S \ Promise!Latest(kept)
      BY <3>2, <3>7 DEF Inv, InsideLoop
    <3>9. lost # {} => Cardinality(S \cup Promise!Latest(kept)) > MaxTracked
      BY <2>1, <3>7, LossMeansOverfull
    <3>9a. \A T : Promise!Cardinality(T) = Cardinality(T)
      BY Zenon DEF Promise!Cardinality, Cardinality
    <3>10. Promise!Window(S, lost)
      BY <3>4, <3>6, <3>8, <3>9, <3>9a DEF Promise!Window
    <3>11. lost \in SUBSET S
      OBVIOUS
    <3> QED
      BY <3>2, <3>10, <3>11 DEF Promise!Next
  <2>2. CASE (\E findings \in Batches : Begin(findings)) \/ SkipFinding \/ CountFinding
              \/ UNCHANGED vars
    BY <2>2 DEF Begin, SkipFinding, CountFinding, vars, Promise!vars, Members
  <2> QED
    BY <2>1, <2>2 DEF Next
<1> QED
  BY <1>1, <1>2, InvHolds, PTL DEF Spec, ImplementsPersistence, Promise!Spec
=============================================================================
