---------------------------- MODULE MC_Heartbeat ----------------------------
(* Heartbeat for TLC.  Times are in milliseconds scaled down: the sender  *)
(* and the receiver are given the same timeout, as the sender's PERCENTAGE *)
(* (the share of the timeout meant as the beat period) presumes; a usleep  *)
(* may overshoot and a write may take a unit on its way.                   *)
EXTENDS Heartbeat
====
