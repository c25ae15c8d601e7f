---------------------------- MODULE MCTemplater ----------------------------
(***************************************************************************)
(* Templater with three route names and an identifier, paths of up to three *)
(* segments of which two are looked at, and limits low enough for every one *)
(* of them to be reached.                                                   *)
(***************************************************************************)
EXTENDS Templater

CONSTANTS get, post, a, b, c, n7

MCMethod == {get, post}
MCSegment == {a, b, c, n7}
MCIDShaped == {n7}
MCRequests ==
    {<<get, <<a, b>>>>, <<get, <<a, n7>>>>, <<get, <<n7, a>>>>,
     <<get, <<b, a, a>>>>, <<get, <<c>>>>, <<post, << >>>>}
=============================================================================
