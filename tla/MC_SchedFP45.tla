----------------------------- MODULE MC_SchedFP45 -----------------------------
(* Instance of SchedFP45 for TLC: dom0 and guest domains with the vcpus   *)
(* DomOf gives, times in 10 us quanta as in MC_SchedFP.                    *)
EXTENDS SchedFP45

MCDomOf2 == (1 :> 1) @@ (2 :> 1) @@ (3 :> 2)
MCDomOfTwo == (1 :> 0) @@ (2 :> 1)
MCHomeCpu == [v \in Vcpus |-> 0]
MCMasks == {{c} : c \in Cpus}
MCMasksWide == {{1}, {0, 1}}
MCAdjustOps ==
  { [period |-> 3, slice |-> 0, deadline |-> 0, priority |-> 0],
    [period |-> 0, slice |-> 0, deadline |-> 1, priority |-> 0],
    [period |-> 0, slice |-> 0, deadline |-> 0, priority |-> 5] }
====
