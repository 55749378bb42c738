------------------------------ MODULE MCServer ------------------------------
(***************************************************************************)
(* An instance of Server for TLC, with seconds of three units and integers *)
(* of eleven bits.                                                         *)
(***************************************************************************)
EXTENDS Server

CONSTANTS r1, r2

TwoRequests == {r1, r2}

\* The default, and the least for which the deadline of handleRun leaves the
\* integers while that of Run does not.
SomeTimeouts == {0, 337}
=============================================================================
