----------------------------- MODULE MCDispatch -----------------------------
(* Instances of Dispatch for TLC.                                          *)
EXTENDS Dispatch

CONSTANTS r1, r2, j1, j2, w
=============================================================================
