---------------------------- MODULE BodyOutcome -----------------------------
(***************************************************************************)
(* What teeBody promises the proxy of one response body (internal/proxy/     *)
(* tee.go, the comments on teeBody, newTeeBody and finish): one outcome, of  *)
(* which the body is a whole document or nothing.                            *)
(***************************************************************************)
EXTENDS Naturals, Sequences

CONSTANTS
    MaxBody     \* the cap on the copy

VARIABLES
    length,     \* of the body the upstream sends
    ending,     \* how it ends: "eof" or "error"
    given,      \* how much of it was read
    outcomes    \* what was reported, in order

Init == given = 0 /\ outcomes = << >>

\* The upstream gives more.
Flow(n) ==
    /\ given < n /\ n <= length
    /\ given' = n
    /\ UNCHANGED <<length, ending, outcomes>>

\* The end is claimed only where it was read, the cap only where the body goes
\* beyond it, and a body is handed over when it is all there within the cap.
Report(complete, oversize) ==
    /\ outcomes = << >>
    /\ complete => ending = "eof" /\ given = length
    /\ oversize => given > MaxBody
    /\ complete /\ ~oversize => length <= MaxBody
    /\ outcomes' = <<[body |-> IF complete /\ ~oversize THEN length ELSE 0,
                      complete |-> complete, oversize |-> oversize]>>
    /\ UNCHANGED <<length, ending, given>>

SomeReport == \E complete, oversize \in BOOLEAN : Report(complete, oversize)

Next == (\E n \in 1 .. length : Flow(n)) \/ SomeReport

vars == <<length, ending, given, outcomes>>

\* However the body ends, and if it never does, its outcome is reported.
Spec == Init /\ [][Next]_vars /\ WF_vars(SomeReport)
=============================================================================
