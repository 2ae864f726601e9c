------------------------------ MODULE MC_SchedFP ------------------------------
(* Instances of SchedFP for TLC: dom0 with one vcpu and one or two guest   *)
(* domains, on one pcpu or two.                                            *)
EXTENDS SchedFP

(* dom0's vcpu 1 and two sibling vcpus of guest domain 1.                  *)
MCDomOf == (1 :> 0) @@ (2 :> 1) @@ (3 :> 1)
(* Sibling vcpus 2 and 3 of domain 1 and vcpu 4 of domain 2 (dom0's vcpu  *)
(* 1, if in Vcpus).                                                        *)
MCSiblingDomOf == [v \in Vcpus |-> CASE v = 1 -> 0 [] v \in {2, 3} -> 1 [] v = 4 -> 2]
MCHomeCpu == [v \in Vcpus |-> 0]
MCMasks == {{c} : c \in Cpus}
MCAdjustOps ==
  { [period |-> 3, slice |-> 0, deadline |-> 0, priority |-> 0],
    [period |-> 0, slice |-> 0, deadline |-> 1, priority |-> 0],
    [period |-> 0, slice |-> 0, deadline |-> 0, priority |-> 5] }
(* fp_adjust with a new period only: under RM it moves the deadline too,  *)
(* under DM it leaves it, so all three compare functions see the keys of  *)
(* one domain change while the others stay.                               *)
MCOrderAdjustOps == {[period |-> 3, slice |-> 0, deadline |-> 0, priority |-> 0]}

(* With the strategy fixed at RM (no fp_adjust_global), the priorities   *)
(* and positions are written by the prio handler and read by nothing but   *)
(* that handler, never by compare or do_schedule: states that differ only  *)
(* in them have the same futures, so TLC may identify them.                *)
MCRmView ==
  <<blocked, migrating, affinity, curr, processor, strategy, runq,
    period, deadline, slice, cputime, left, elapsed, todo>>
====
