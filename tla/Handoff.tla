------------------------------ MODULE Handoff ------------------------------
(***************************************************************************)
(* What the sample queue promises the pipeline (internal/sample/queue.go,   *)
(* the comments on Queue, Offer, C and Close): a bounded first-in first-out *)
(* hand-off.  It may refuse a sample, which is not a step of this module;   *)
(* what it accepts it keeps, in order, until the consumer has taken it,     *)
(* even past the moment it closes; closed, it accepts nothing.              *)
(***************************************************************************)
EXTENDS Naturals, Sequences

CONSTANTS
    Sample,     \* samples
    Depth       \* the queue's capacity

VARIABLES
    pending,    \* accepted, in order, and not taken
    taken,      \* taken by the consumer, in order
    open        \* accepting samples

Init == pending = << >> /\ taken = << >> /\ open = TRUE

Accept(s) ==
    /\ open
    /\ Len(pending) < Depth
    /\ pending' = Append(pending, s)
    /\ UNCHANGED <<taken, open>>

Take ==
    /\ pending # << >>
    /\ taken' = Append(taken, Head(pending))
    /\ pending' = Tail(pending)
    /\ UNCHANGED open

Close ==
    /\ open' = FALSE
    /\ UNCHANGED <<pending, taken>>

Next == (\E s \in Sample : Accept(s)) \/ Take \/ Close

Spec == Init /\ [][Next]_<<pending, taken, open>> /\ WF_<<pending, taken, open>>(Take)
=============================================================================
