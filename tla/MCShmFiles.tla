----------------------------- MODULE MCShmFiles -----------------------------
(***************************************************************************)
(* Instances of ShmFiles for TLC.                                          *)
(***************************************************************************)
EXTENDS ShmFiles, TLC

CONSTANTS r1, r2

TwoRequests == {r1, r2}
OneRequest == {r1}

\* Requests are interchangeable.
Symmetry == Permutations(Requests)
=============================================================================
