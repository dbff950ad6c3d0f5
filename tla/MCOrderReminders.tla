--------------------------- MODULE MCOrderReminders ---------------------------
(* Instances of OrderReminders for TLC. *)
EXTENDS OrderReminders
===============================================================================
