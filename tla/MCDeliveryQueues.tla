--------------------------- MODULE MCDeliveryQueues ----------------------------
(* Instances of DeliveryQueues for TLC: one row, of either queue, and two servers. *)
EXTENDS DeliveryQueues

CONSTANTS hook, mail, s1, s2
===============================================================================
