------------------------------ MODULE SchedFP45 ------------------------------
(***************************************************************************)
(* The Xen 4.5 release of the fixed-priority scheduler                     *)
(* (src/xen-4.5.0/xen/common/sched_fp.c), as the changes against the 4.7   *)
(* release modelled in SchedFP.  The run queue, its compare functions, the *)
(* prio handlers, update_queue, sleep and the parameter writes of          *)
(* fp_adjust are the same code in both releases and are taken from         *)
(* SchedFP.  What differs:                                                 *)
(*  - fp_sched_set_vm_prio has no early return for dom0: dom0's vcpus get  *)
(*    fpd->priority and are re-inserted like any other, and under RM and   *)
(*    DM a vcpu is re-inserted before the prio handler runs;               *)
(*  - fp_adjust recomputes the priorities of its own domain only, and      *)
(*    fp_adjust_global those of every domain, dom0 included;               *)
(*  - fp_pick_cpu picks by vcpu_id, ignoring v->processor;                 *)
(*  - an `awake' flag, set by wake and cleared by sleep, that do_schedule  *)
(*    requires besides vcpu_runnable.                                      *)
(* The softirq that 4.5's wake raises only when the woken vcpu compares    *)
(* ahead of the current one is not modelled, as in SchedFP do_schedule may *)
(* run at any time (its timer fires every microsecond in 4.5).             *)
(***************************************************************************)
EXTENDS SchedFP

VARIABLE awake   \* the vcpus with fpv->awake = 1

vars45 == <<vars, awake>>

Init45 == Init /\ awake = {}

(* The vcpu_id of v: its index among the vcpus of its domain.              *)
VcpuId(v) == SelectInSeq(VcpuOrder(DomVcpus(DomOf[v])), LAMBDA u : u = v) - 1

(* Variant: awake is set only when the vcpu is inserted, after the early  *)
(* returns.                                                                *)
Wake45AfterReturns(v) ==
  /\ Wake(v)
  /\ awake' = IF v \notin migrating /\ runq' # runq THEN awake \cup {v} ELSE awake

(* fp_vcpu_wake (4.5): awake is set before any of the early returns.       *)
Wake45(v) ==
  /\ Wake(v)
  /\ awake' = IF v \notin migrating THEN awake \cup {v} ELSE awake

(* fp_sleep (4.5): awake is cleared.                                        *)
Sleep45(v) ==
  /\ Sleep(v)
  /\ awake' = awake \ {v}

(* vcpu_block (the generic scheduler): the running vcpu blocks itself and *)
(* the schedule softirq is raised; no scheduler hook runs, so awake stays  *)
(* set and the vcpu stays queued, and fp_do_schedule's vcpu_runnable test  *)
(* is what passes it over.                                                 *)
Block45(v) ==
  /\ Running(v)
  /\ ~blocked[v]
  /\ blocked' = [blocked EXCEPT ![v] = TRUE]
  /\ UNCHANGED <<migrating, affinity, curr, processor, strategy, runq, position,
                 priority, period, deadline, slice, cputime, left, elapsed,
                 dprio, todo, awake>>

(* fp_do_schedule (4.5): the pick also requires the awake flag.            *)
DoSchedule45(c, tasklet) ==
  LET cur == curr[c]
      ct == IF cur = Idle THEN cputime ELSE [cputime EXCEPT ![cur] = @ + elapsed[c]]
      r == Replenish(runq[c], ct)
      i == SelectInSeq(runq[c], LAMBDA u : Runnable(u) /\ u \in awake
                                           /\ r.cputime[u] < slice[u])
  IN /\ curr' = [curr EXCEPT ![c] = IF tasklet \/ i = 0 THEN Idle ELSE runq[c][i]]
     /\ cputime' = r.cputime
     /\ left' = r.left
     /\ elapsed' = [elapsed EXCEPT ![c] = 0]
     /\ UNCHANGED <<blocked, migrating, affinity, processor, strategy, runq,
                    position, priority, period, deadline, slice, dprio, todo, awake>>

(* fp_pick_cpu (4.5): cpumask_cycle(vcpu_id % weight - 1, online          *)
(* affinity), whatever v->processor is.                                    *)
PickCpu45(v, mask) ==
  LET online == mask \cap Cpus
  IN Cycle((VcpuId(v) % Cardinality(online)) - 1, online)

SetAffinity45(v, m) ==
  /\ SetAffinity(v, m)
  /\ awake' = awake \ {v}

(* vcpu_migrate with the 4.5 pick_cpu, then vcpu_wake.                     *)
Migrate45(v) ==
  LET c == PickCpu45(v, affinity[v])
  IN /\ v \in migrating
     /\ ~Running(v)
     /\ processor' = [processor EXCEPT ![v] = c]
     /\ migrating' = migrating \ {v}
     /\ IF ~blocked[v] THEN FpWake(v, c) /\ awake' = awake \cup {v}
        ELSE UNCHANGED <<runq, position, priority, dprio, awake>>
     /\ UNCHANGED <<blocked, affinity, curr, strategy, period, deadline, slice,
                    cputime, left, elapsed, todo>>

-----------------------------------------------------------------------------
(* Control operations (4.5)                                                *)

(* Variant: dom0 is left out, as in the 4.7 release.                       *)
VmPrioCallsSkipDom0(d, prio) ==
  IF d = Dom0 THEN <<>>
  ELSE [i \in 1..Cardinality(DomVcpus(d)) |-> [vc |-> VcpuOrder(DomVcpus(d))[i], prio |-> prio]]

(* fp_sched_set_vm_prio(d, prio), one entry per vcpu, dom0 included.       *)
VmPrioCalls45(d, prio) ==
  [i \in 1..Cardinality(DomVcpus(d)) |-> [vc |-> VcpuOrder(DomVcpus(d))[i], prio |-> prio]]

(* fp_adjust (4.5): the parameter writes, then fp_sched_set_vm_prio for d  *)
(* alone; for dom0 that call first sets fpd->priority to VM_DOM0_PRIO.     *)
Adjust45(d, op) ==
  /\ todo = <<>>
  /\ AdjustParams(d, op)
  /\ dprio' = IF d = Dom0 THEN [dprio EXCEPT ![Dom0] = VM_DOM0_PRIO] ELSE dprio
  /\ todo' = VmPrioCalls45(d, IF op.priority > 0 THEN op.priority ELSE dprio[d])
  /\ UNCHANGED <<blocked, migrating, affinity, curr, processor, strategy,
                 runq, position, priority, cputime, left, elapsed, awake>>

(* fp_adjust_global (4.5): fp_sched_set or fp_sched_get, then              *)
(* fp_sched_set_vm_prio for every domain (for_each_domain), dom0 included. *)
AdjustGlobal45(get, s) ==
  /\ todo = <<>>
  /\ strategy' = IF ~get /\ s \in {RM, DM, FP} THEN s ELSE strategy
  /\ dprio' = [dprio EXCEPT ![Dom0] = VM_DOM0_PRIO]
  /\ todo' = FoldLeft(LAMBDA acc, d : acc \o VmPrioCalls45(d, dprio[d]), <<>>,
                      SortSeq(SetToSeq(Doms), <))
  /\ UNCHANGED <<blocked, migrating, affinity, curr, processor, runq, position,
                 priority, period, deadline, slice, cputime, left, elapsed, awake>>

(* Variant: the vcpu is inserted without __remove_from_queue first.        *)
VmPrioStep45NoUnlink ==
  LET e == Head(todo)
      v == e.vc
      c == processor[v]
      p == PrioHandler(DomOf[v], e.prio, position)
      q == RunqInsert(runq[c], v, strategy, period, deadline, priority)
  IN /\ todo # <<>>
     /\ dprio' = [dprio EXCEPT ![DomOf[v]] = p]
     /\ priority' = [u \in Vcpus |-> IF DomOf[u] = DomOf[v] THEN p ELSE priority[u]]
     /\ runq' = [runq EXCEPT ![c] = q]
     /\ position' = Renumber(position, q)
     /\ todo' = Tail(todo)
     /\ UNCHANGED <<blocked, migrating, affinity, curr, processor, strategy,
                    period, deadline, slice, cputime, left, elapsed, awake>>

(* One iteration of the 4.5 vcpu loop: a dom0 vcpu takes fpd->priority;    *)
(* under RM and DM the vcpu is re-inserted and then the prio handler runs, *)
(* under FP the other way round.                                           *)
VmPrioStep45 ==
  LET e == Head(todo)
      v == e.vc
      d == DomOf[v]
      c == processor[v]
      prio0 == IF d = Dom0 THEN [priority EXCEPT ![v] = dprio[d]] ELSE priority
      Reinsert(pr) == RunqInsert(Unlink(runq, v)[c], v, strategy, period, deadline, pr)
      WithPrio(p) == [u \in Vcpus |-> IF DomOf[u] = d THEN p ELSE prio0[u]]
      pFP == PrioHandler(d, e.prio, position)
      q == IF strategy = FP THEN Reinsert(WithPrio(pFP)) ELSE Reinsert(prio0)
      p == IF strategy = FP THEN pFP ELSE PrioHandler(d, e.prio, Renumber(position, q))
  IN /\ todo # <<>>
     /\ dprio' = [dprio EXCEPT ![d] = p]
     /\ priority' = WithPrio(p)
     /\ runq' = [Unlink(runq, v) EXCEPT ![c] = q]
     /\ position' = Renumber(position, q)
     /\ todo' = Tail(todo)
     /\ UNCHANGED <<blocked, migrating, affinity, curr, processor, strategy,
                    period, deadline, slice, cputime, left, elapsed, awake>>

-----------------------------------------------------------------------------
SchedNext45 ==
  \/ \E v \in Vcpus : Wake45(v) \/ Sleep45(v) \/ Block45(v)
  \/ \E c \in Cpus, t \in BOOLEAN : DoSchedule45(c, t)

AffinityNext45 ==
  \/ \E v \in Vcpus, m \in Masks : SetAffinity45(v, m)
  \/ \E v \in Vcpus : Migrate45(v)

(* Strategy switches and the scheduling events, with no time passing and *)
(* fixed affinities.                                                       *)
StrategyNext45 ==
  \/ SchedNext45
  \/ \E s \in StrategyOps : AdjustGlobal45(FALSE, s)
  \/ AdjustGlobal45(TRUE, RM)
  \/ VmPrioStep45
StrategySpec45 == Init45 /\ [][StrategyNext45]_vars45

(* Affinity changes and migration under the 4.5 pick_cpu, with no time   *)
(* passing and no control operation.                                       *)
MigrateNext45 == SchedNext45 \/ AffinityNext45
MigrateSpec45 == Init45 /\ [][MigrateNext45]_vars45

(* Strategy switches and affinity changes together: migration under the *)
(* 4.5 pick_cpu while sched_fp_adjust_global re-sorts the queues.         *)
StrategyMigrateNext45 == StrategyNext45 \/ AffinityNext45
StrategyMigrateSpec45 == Init45 /\ [][StrategyMigrateNext45]_vars45

(* The same with fp_adjust.                                                *)
AdjustNext45 == StrategyNext45 \/ \E d \in Doms, op \in AdjustOps : Adjust45(d, op)
AdjustSpec45 == Init45 /\ [][AdjustNext45]_vars45
-----------------------------------------------------------------------------
(* Properties                                                              *)

TypeOK45 == TypeOK /\ awake \subseteq Vcpus

(* Every runnable vcpu has fpv->awake set, so 4.5's fp_do_schedule, which *)
(* tests the flag besides vcpu_runnable, never passes over a runnable     *)
(* vcpu for it: fp_vcpu_wake sets it before its early returns (a vcpu     *)
(* slept while current and woken again is still queued), vcpu_migrate    *)
(* wakes the vcpu it moved, and only a vcpu that is not runnable (slept,  *)
(* blocked, or migrating after an affinity change) can have it cleared.   *)
RunnableIsAwake ==
  \A v \in Vcpus : Runnable(v) => v \in awake
====
