----------------------------- MODULE MC_Credit2 -----------------------------
(***************************************************************************)
(* Credit2 on two pcpus.  MC_Credit2.cfg, one runqueue, runs three      *)
(* vcpus of two domains at one weight; v3 is pinned to pcpu 1, so the     *)
(* affinity filters of runq_tickle and runq_candidate and the migration   *)
(* resistance all matter.  MC_Credit2_Balance.cfg splits the two pcpus    *)
(* into two runqueues, so that balance_load and vcpu_migrate move vcpus,  *)
(* and runs two vcpus of one domain whose weight dom_cntl changes between *)
(* 1 and 2: a weight-1 vcpu next to a weight-2 one burns two units per    *)
(* unit of time and burns leave a residual.  Credit units are coarse.     *)
(***************************************************************************)
EXTENDS Credit2

CONSTANTS v1, v2, v3   \* vcpu model values

(* v1 and v2 belong to one domain and may run anywhere: no handler tells  *)
(* them apart, so they form a symmetry set.                               *)
MCSymmetry == Permutations({v1, v2})

MCCpus == {0, 1}
MCRunqMap == [c \in MCCpus |-> "rq0"]
MCRunqMapSplit == [c \in MCCpus |-> IF c = 0 THEN "rq0" ELSE "rq1"]
MCDomOf == [v \in Vcpus |-> IF v = v3 THEN "d2" ELSE "d1"]
MCAffinity == [v \in Vcpus |-> IF v = v3 THEN {1} ELSE {0, 1}]
MCIdleCredit == -100
MCCreditFloor == -2
MCCreditFloorNear == -1   \* with CREDIT_INIT = 1: one unit below zero
=============================================================================
