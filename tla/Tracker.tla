------------------------------ MODULE Tracker ------------------------------
(***************************************************************************)
(* internal/detect/tracker.go: the Tracker that withholds a finding until   *)
(* it has appeared in PersistWindows consecutive windows.                   *)
(*                                                                          *)
(* Observe runs under the tracker's mutex from its first line to its        *)
(* return, so its loop is modelled one finding per step with the mutex      *)
(* held (phase = "loop") and its return, pruning included, as the step      *)
(* that releases it.  Nothing else touches the streaks in between.          *)
(***************************************************************************)
EXTENDS Naturals, Sequences, FiniteSets

CONSTANTS
    Finding,          \* identities of findings: endpoint, path and kind
    PersistWindows,   \* Config.PersistWindows, after withDefaults
    MaxTracked,       \* MaxTrackedFindings
    Batches,          \* the findings a window may pass to Observe
    MaxWindows        \* bound on the windows explored; the code has none

ASSUME PersistAssumption == PersistWindows \in Nat \ {0}
ASSUME CapacityAssumption == MaxTracked \in Nat
ASSUME BatchAssumption == Batches \subseteq Seq(Finding)
ASSUME BoundAssumption == MaxWindows \in Nat

VARIABLES
    streaks,    \* finding -> [count, lastWindow], for the findings followed
    window,     \* the number of the current window
    phase,      \* "idle", or "loop" while Observe holds the mutex
    batch,      \* Observe's argument
    next,       \* index into batch of the finding the loop handles next
    out,        \* the findings Observe has decided to return so far
    returned,   \* what the latest finished Observe returned
    reported,   \* history: the set of findings passed in each finished window
    kept        \* history: the set of findings followed after each window

vars == <<streaks, window, phase, batch, next, out, returned, reported, kept>>

Streak == [count : Nat \ {0}, lastWindow : Nat]

\* The distinct members of a sequence of findings.
Members(s) == {s[i] : i \in 1 .. Len(s)}

TypeOK ==
    /\ DOMAIN streaks \subseteq Finding
    /\ streaks \in [DOMAIN streaks -> Streak]
    /\ window \in Nat
    /\ phase \in {"idle", "loop"}
    /\ batch \in Seq(Finding)
    /\ next \in 1 .. Len(batch) + 1
    /\ out \in Seq(Finding)
    /\ returned \in Seq(Finding)
    /\ reported \in Seq(SUBSET Finding)
    /\ kept \in Seq(SUBSET Finding)
-----------------------------------------------------------------------------
Init ==
    /\ streaks = << >>
    /\ window = 0
    /\ phase = "idle"
    /\ batch = << >>
    /\ next = 1
    /\ out = << >>
    /\ returned = << >>
    /\ reported = << >>
    /\ kept = << >>

\* The evaluator calls Observe with one window's findings.
Begin(findings) ==
    /\ phase = "idle"
    /\ window < MaxWindows
    /\ window' = window + 1
    /\ phase' = "loop"
    /\ batch' = findings
    /\ next' = 1
    /\ out' = << >>
    /\ UNCHANGED <<streaks, returned, reported, kept>>

\* f has a streak in the map.
Followed(f) == f \in DOMAIN streaks

\* A finding with no streak and no room for one: counted as dropped, skipped.
NoRoom(f) == ~Followed(f) /\ Cardinality(DOMAIN streaks) >= MaxTracked

\* Defective variants of the definitions below, for checking that the
\* properties can fail: a repeat in the same window that counts, a streak that
\* starts at zero, a threshold off by one, and a return that forgets to prune.
CountRepeats(f) ==
    IF ~Followed(f) \/ streaks[f].lastWindow + 1 < window THEN 1
    ELSE streaks[f].count + 1

CountFromZero(f) ==
    IF ~Followed(f) THEN 0
    ELSE IF streaks[f].lastWindow = window THEN streaks[f].count
    ELSE streaks[f].count + 1

QualifiesLate(n) == n > PersistWindows

\* The length of f's streak once this window has been counted: unchanged by
\* a repeat in one window, one longer after the window before, 1 after a gap.
Count(f) ==
    IF ~Followed(f) THEN 1
    ELSE IF streaks[f].lastWindow = window THEN streaks[f].count
    ELSE IF streaks[f].lastWindow + 1 = window THEN streaks[f].count + 1
    ELSE 1

Qualifies(n) == n >= PersistWindows

SkipFinding ==
    /\ phase = "loop" /\ next <= Len(batch)
    /\ NoRoom(batch[next])
    /\ next' = next + 1
    /\ UNCHANGED <<streaks, window, phase, batch, out, returned, reported, kept>>

CountFinding ==
    /\ phase = "loop" /\ next <= Len(batch)
    /\ ~NoRoom(batch[next])
    /\ LET f == batch[next] IN
         /\ streaks' = [g \in DOMAIN streaks \cup {f} |->
                          IF g = f THEN [count |-> Count(f), lastWindow |-> window]
                          ELSE streaks[g]]
         /\ out' = IF Qualifies(Count(f)) THEN Append(out, f) ELSE out
    /\ next' = next + 1
    /\ UNCHANGED <<window, phase, batch, returned, reported, kept>>

NothingPruned == DOMAIN streaks

\* pruneLocked keeps the streaks of the current window only.
Current == {f \in DOMAIN streaks : streaks[f].lastWindow = window}

\* The loop is over: prune, unlock and return.
Return ==
    /\ phase = "loop" /\ next = Len(batch) + 1
    /\ streaks' = [f \in Current |-> streaks[f]]
    /\ phase' = "idle"
    /\ returned' = out
    /\ reported' = Append(reported, Members(batch))
    /\ kept' = Append(kept, {f \in DOMAIN streaks : streaks[f].lastWindow = window})
    /\ UNCHANGED <<window, batch, next, out>>

Next ==
    \/ \E findings \in Batches : Begin(findings)
    \/ SkipFinding
    \/ CountFinding
    \/ Return

Spec == Init /\ [][Next]_vars
-----------------------------------------------------------------------------
\* A finding is never returned early: whatever Observe returns was among the
\* findings of each of the last PersistWindows windows, with no gap, however
\* often one window repeats it (tracker.go, Observe's switch).
NeverEarly ==
    phase = "idle" => \A f \in Members(returned) :
        /\ PersistWindows <= Len(reported)
        /\ \A k \in 0 .. PersistWindows - 1 : f \in reported[Len(reported) - k]

\* The map never outgrows its cap, not even inside Observe, and between calls
\* it holds findings of the last window only: the memory bound that
\* pruneLocked and MaxTrackedFindings exist for.
MemoryBounded ==
    /\ Cardinality(DOMAIN streaks) <= MaxTracked
    /\ phase = "idle" /\ reported # << >> =>
          DOMAIN streaks \subseteq reported[Len(reported)]

\* A finding already being followed keeps its streak whatever else its window
\* holds: the cap, reached by new findings listed before it, costs only new
\* findings (tracker.go, the default branch alone tests the cap).
FollowedNeverDropped ==
    [][phase = "loop" /\ phase' = "idle" =>
          Members(batch) \cap (IF kept = << >> THEN {} ELSE kept[Len(kept)])
             \subseteq DOMAIN streaks']_vars

\* The tracker is the abstract promise: windows are kept sets, and what
\* Observe returns is what survived (the reading of Observe's comment).
Promise == INSTANCE Persistence
             WITH history <- kept, emitted <- Members(returned)
ImplementsPersistence == Promise!Spec
=============================================================================
