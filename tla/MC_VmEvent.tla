----------------------------- MODULE MC_VmEvent -----------------------------
(* Model-checking instances of VmEvent: the foreign producers are model   *)
(* values.                                                                 *)
EXTENDS VmEvent

CONSTANTS f1, f2
====
