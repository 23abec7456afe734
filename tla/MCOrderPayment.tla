---------------------------- MODULE MCOrderPayment ----------------------------
(* Instances of OrderPayment for TLC.                                      *)
EXTENDS OrderPayment

CONSTANTS h1, h2, h3
=============================================================================
