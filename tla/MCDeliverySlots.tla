--------------------------- MODULE MCDeliverySlots ---------------------------
(* Instances of DeliverySlots for TLC.                                     *)
EXTENDS DeliverySlots

CONSTANTS c1, c2, s1, b1
=============================================================================
