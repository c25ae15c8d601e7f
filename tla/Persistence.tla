---------------------------- MODULE Persistence ----------------------------
(***************************************************************************)
(* What internal/detect promises of its Tracker, with none of its          *)
(* bookkeeping: a finding is reported exactly when it was kept in each of   *)
(* the last PersistWindows windows, the current one included.  The only     *)
(* licence is at the capacity: a window that, together with the one before  *)
(* it, holds more than MaxTracked distinct findings may lose some of its    *)
(* new ones, never one that was already being followed.                     *)
(***************************************************************************)
EXTENDS Naturals, Sequences, FiniteSets

CONSTANTS
    Finding,          \* identities of findings (detect.ID)
    PersistWindows,   \* consecutive windows a finding must survive
    MaxTracked        \* capacity of the map of streaks

VARIABLES
    history,   \* the findings kept in each window so far, oldest first
    emitted    \* the findings the latest window reported

vars == <<history, emitted>>

\* The findings of the latest window of h; none before the first one.
Latest(h) == IF h = << >> THEN {} ELSE h[Len(h)]

\* f was kept in each of the last PersistWindows windows of h.
Survived(f, h) ==
    /\ PersistWindows <= Len(h)
    /\ \A k \in 0 .. PersistWindows - 1 : f \in h[Len(h) - k]

Init ==
    /\ history = << >>
    /\ emitted = {}

\* One window with the findings S, of which those in lost find no room.
Window(S, lost) ==
    /\ lost \subseteq S \ Latest(history)
    /\ lost # {} => Cardinality(S \cup Latest(history)) > MaxTracked
    /\ history' = Append(history, S \ lost)
    /\ emitted' = {f \in S \ lost : Survived(f, history')}

Next == \E S \in SUBSET Finding : \E lost \in SUBSET S : Window(S, lost)

Spec == Init /\ [][Next]_vars
=============================================================================
