------------------------------ MODULE MCServe ------------------------------
(***************************************************************************)
(* Serve with as many responses as overflow the queue.                      *)
(***************************************************************************)
EXTENDS Serve

CONSTANTS r1, r2, r3

MCPair == {r1, r2}
MCTriple == {r1, r2, r3}
=============================================================================
