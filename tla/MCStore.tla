------------------------------ MODULE MCStore ------------------------------
(***************************************************************************)
(* Store with three endpoints of which two fit, rings of two buckets of two *)
(* time units, and a budget of three live buckets.                          *)
(***************************************************************************)
EXTENDS Store

CONSTANTS x, y, z, LastTime

MCKey == {x, y, z}
MCTimes == 2 .. LastTime
=============================================================================
