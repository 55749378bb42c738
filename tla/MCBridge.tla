------------------------------ MODULE MCBridge ------------------------------
(***************************************************************************)
(* An instance of Bridge for TLC.                                          *)
(***************************************************************************)
EXTENDS Bridge

\* What programs do that use the bridge as bootstrap.py means it, and that may
\* print or pass more than 8 MiB.
WithLargeFrames == {"call", "huge", "denied", "probe", "bad", "oversize"}
=============================================================================
