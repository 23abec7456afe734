--------------------------- MODULE MCSubscriptions ---------------------------
(* Instances of Subscriptions for TLC.                                     *)
EXTENDS Subscriptions

CONSTANTS q1, q2, s1, s2
=============================================================================
