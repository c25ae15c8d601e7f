----------------------------- MODULE MCTracker -----------------------------
(***************************************************************************)
(* Tracker on three findings, two of which fill the map.                    *)
(***************************************************************************)
EXTENDS Tracker

CONSTANTS a, b, c

MCFinding == {a, b, c}

\* Every window of at most two findings, repeats included, and every order of
\* a window that overfills the map.
MCBatches ==
    UNION {[1 .. n -> MCFinding] : n \in 0 .. 2}
      \cup {s \in [1 .. 3 -> MCFinding] : Members(s) = MCFinding}
=============================================================================
