------------------------------- MODULE SchedFP -------------------------------
(***************************************************************************)
(* The fixed-priority scheduler of xen/common/sched_fp.c (Xen 4.7): one    *)
(* run queue per pcpu kept sorted by the compare function of the current   *)
(* strategy (rate-monotonic, deadline-monotonic or fixed priority), the    *)
(* per-vcpu budget (cputime against slice, replenished once per period)    *)
(* and the handlers the generic scheduler calls: wake, sleep, do_schedule  *)
(* and pick_cpu, together with the control operations fp_adjust (domctl)   *)
(* and fp_adjust_global (sysctl).                                          *)
(*                                                                         *)
(* wake, sleep and do_schedule run under the schedule lock of the vcpu's   *)
(* pcpu and are one step each.  fp_adjust and fp_adjust_global take no     *)
(* scheduler lock: they walk every domain and, for each vcpu, recompute    *)
(* the priority and re-insert the vcpu in its run queue                    *)
(* (fp_sched_set_vm_prio).  They are modelled as a first step that writes  *)
(* the parameters and the strategy and queues the per-vcpu work in `todo', *)
(* followed by one step per vcpu, so that the other handlers interleave.   *)
(*                                                                         *)
(* Time advances in quanta of at least the 10 us timer that every          *)
(* do_schedule arms; the instance fixes the quantum through the times.     *)
(* `left[v]' is period_next - now, saturated at -1 (the only thing         *)
(* update_queue asks of it is whether now > period_next); `elapsed[c]' is  *)
(* now - last_time_scheduled of the vcpu current on c, which do_schedule   *)
(* on c set when it picked it.                                             *)
(***************************************************************************)
EXTENDS Integers, Sequences, FiniteSets, SequencesExt

CONSTANTS
  Cpus,        \* pcpu ids, a set of naturals (cpumask order matters)
  Vcpus,       \* the non-idle vcpus, naturals (for_each_vcpu order)
  Doms,        \* domain ids, naturals (for_each_domain order)
  Dom0,        \* the control domain, domain_id 0
  DomOf,       \* vc->domain: [Vcpus -> Doms]
  HomeCpu,     \* vc->processor when the vcpu was created: [Vcpus -> Cpus]
  Masks,       \* hard affinities the toolstack may set
  AdjustOps,   \* op->u.fp of fp_adjust putinfo: [period, slice, deadline,
               \* priority], 0 = not given, times already scaled to quanta
  StrategyOps, \* schedule->strategy values of fp_adjust_global putinfo
  DOM0_SLICE, DOM0_PERIOD,          \* VM_DOM0_SLICE, VM_DOM0_PERIOD
  STANDARD_SLICE, STANDARD_PERIOD,  \* VM_STANDARD_SLICE, VM_STANDARD_PERIOD
  Idle         \* the idle vcpu of a pcpu

ASSUME Cpus \subseteq Nat /\ Vcpus \subseteq Nat /\ Doms \subseteq Nat
ASSUME Dom0 = 0 /\ Dom0 \in Doms /\ DomOf \in [Vcpus -> Doms]
ASSUME HomeCpu \in [Vcpus -> Cpus]
ASSUME \A m \in Masks : m # {} /\ m \subseteq Cpus
ASSUME \A op \in AdjustOps : \A f \in {"period", "slice", "deadline", "priority"} :
         op[f] \in Nat

RM == 0                \* rate-monotonic
DM == 1                \* deadline-monotonic
FP == 2                \* fixed-priority
VM_DOM0_PRIO == 1000
VM_IDLE_PRIO == 0

VARIABLES
  (* framework state (xen/common/schedule.c, not in this repository)       *)
  blocked,    \* the vcpu is blocked or paused (vcpu_runnable is false)
  migrating,  \* vcpus with _VPF_migrating set by vcpu_set_affinity
  affinity,   \* v->cpu_hard_affinity
  curr,       \* per_cpu(schedule_data, c).curr: a vcpu or Idle
  processor,  \* v->processor
  (* struct fpsched_private                                                *)
  strategy,
  (* struct fp_cpu: the run queue of each pcpu                             *)
  runq,
  (* struct fp_vcpu                                                        *)
  position, priority, period, deadline, slice, cputime, left,
  (* now - last_time_scheduled of the vcpu running on each pcpu            *)
  elapsed,
  (* struct fp_dom                                                         *)
  dprio,
  (* fp_sched_set_vm_prio calls still due of an adjust in progress         *)
  todo

vars == <<blocked, migrating, affinity, curr, processor, strategy, runq,
          position, priority, period, deadline, slice, cputime, left,
          elapsed, dprio, todo>>

Runnable(v) == ~blocked[v] /\ v \notin migrating
Running(v) == \E c \in Cpus : curr[c] = v
IsCurrent(v) == curr[processor[v]] = v
DomVcpus(d) == {v \in Vcpus : DomOf[v] = d}

(* __vcpu_on_q: the vcpu's queue element is linked into some run queue.   *)
OnQ(v) == \E c \in Cpus : Contains(runq[c], v)

-----------------------------------------------------------------------------
(* Run queue order                                                         *)

(* __runq_rm_compare, __runq_dm_compare, __runq_fp_compare, selected by    *)
(* prv->config->compare for strategy s.                                    *)
Compare(s, a, b, per, dl, prio) ==
  CASE s = RM -> per[a] <= per[b]
    [] s = DM -> dl[a] <= dl[b]
    [] s = FP -> prio[a] >= prio[b]

(* Variant: the compare scan dropped, every vcpu queued at the tail.      *)
RunqInsertTail(q, v, s, per, dl, prio) == Append(q, v)

(* __runq_insert: v goes before the first entry it compares true against,  *)
(* and every entry of the queue is renumbered from 0.                      *)
RunqInsert(q, v, s, per, dl, prio) ==
  LET i == SelectInSeq(q, LAMBDA u : Compare(s, v, u, per, dl, prio))
  IN IF i = 0 THEN Append(q, v) ELSE InsertAt(q, i, v)

(* Variant: the queue renumbered from 1 instead of 0.                     *)
RenumberFromOne(pos, q) ==
  [u \in Vcpus |-> IF Contains(q, u) THEN SelectInSeq(q, LAMBDA x : x = u) ELSE pos[u]]

Renumber(pos, q) ==
  [u \in Vcpus |-> IF Contains(q, u) THEN SelectInSeq(q, LAMBDA x : x = u) - 1 ELSE pos[u]]

(* Variant: the list_del_init of __remove_from_queue dropped.           *)
UnlinkNone(rq, v) == rq

(* __runq_remove / __remove_from_queue: list_del_init on whichever queue   *)
(* the element is linked into.                                             *)
Unlink(rq, v) == [c \in Cpus |-> Remove(rq[c], v)]

(* prv->config->prio_handler(dom, prio): __fp_prio_handler takes prio;    *)
(* __rm_prio_handler and __dm_prio_handler give dom0 VM_DOM0_PRIO and any  *)
(* other domain 1000 - (sum of its vcpus' positions) / count - 1.  Every   *)
(* vcpu of the domain and the domain itself get the result.                *)
PrioHandler(d, prio, pos) ==
  IF strategy = FP THEN prio
  ELSE IF d = Dom0 THEN VM_DOM0_PRIO
  ELSE VM_DOM0_PRIO - MapThenSumSet(LAMBDA u : pos[u], DomVcpus(d))
                        \div Cardinality(DomVcpus(d)) - 1

SetDomPrio(d, p) ==
  /\ dprio' = [dprio EXCEPT ![d] = p]
  /\ priority' = [u \in Vcpus |-> IF DomOf[u] = d THEN p ELSE priority[u]]

(* cpumask_cycle(n, m): the first cpu of m after n, wrapping around.       *)
Cycle(n, m) ==
  IF \E c \in m : c > n THEN Min({c \in m : c > n}) ELSE Min(m)

(* fp_pick_cpu: stay on v->processor if it is in the online affinity,      *)
(* else the next cpu of that mask (one cpupool holding every pcpu).        *)
PickCpu(v, mask) ==
  LET online == mask \cap Cpus
  IN IF processor[v] \in online THEN processor[v] ELSE Cycle(processor[v], online)

(* The order of for_each_domain and for_each_vcpu: by domain, then vcpu.   *)
VcpuOrder(S) ==
  SortSeq(SetToSeq(S), LAMBDA a, b : DomOf[a] < DomOf[b] \/ (DomOf[a] = DomOf[b] /\ a < b))

-----------------------------------------------------------------------------
(* Initial state: fp_init (strategy RM), fp_init_domain and fp_alloc_vdata *)
(* (dom0 gets VM_DOM0_PRIO and the dom0 slice and period, every other      *)
(* domain priority 0 from the memset and the standard ones), every vcpu    *)
(* created paused at time 0, so period_next = now + period and no queue    *)
(* holds a vcpu (fp_insert_vcpu inserts only runnable vcpus).              *)
InitPrio(v) == IF DomOf[v] = Dom0 THEN VM_DOM0_PRIO ELSE 0
InitPeriod(v) == IF DomOf[v] = Dom0 THEN DOM0_PERIOD ELSE STANDARD_PERIOD

Init ==
  /\ blocked = [v \in Vcpus |-> TRUE]
  /\ migrating = {}
  /\ affinity = [v \in Vcpus |-> Cpus]
  /\ curr = [c \in Cpus |-> Idle]
  /\ processor = HomeCpu
  /\ strategy = RM
  /\ runq = [c \in Cpus |-> <<>>]
  /\ position = [v \in Vcpus |-> 0]
  /\ priority = [v \in Vcpus |-> InitPrio(v)]
  /\ period = [v \in Vcpus |-> InitPeriod(v)]
  /\ deadline = [v \in Vcpus |-> InitPeriod(v)]
  /\ slice = [v \in Vcpus |-> IF DomOf[v] = Dom0 THEN DOM0_SLICE ELSE STANDARD_SLICE]
  /\ cputime = [v \in Vcpus |-> 0]
  /\ left = [v \in Vcpus |-> InitPeriod(v)]
  /\ elapsed = [c \in Cpus |-> 0]
  /\ dprio = [d \in Doms |-> IF d = Dom0 THEN VM_DOM0_PRIO ELSE 0]
  /\ todo = <<>>

-----------------------------------------------------------------------------
(* Handlers                                                                *)

(* Variant: wake tests only the queue of c, not whether the element is   *)
(* linked anywhere.                                                        *)
FpWakeOwnQueue(v, c) ==
  IF curr[c] = v \/ Contains(runq[c], v)
  THEN UNCHANGED <<runq, position, priority, dprio>>
  ELSE LET q == RunqInsert(runq[c], v, strategy, period, deadline, priority)
           pos == Renumber(position, q)
       IN /\ runq' = [runq EXCEPT ![c] = q]
          /\ position' = pos
          /\ SetDomPrio(DomOf[v], PrioHandler(DomOf[v], priority[v], pos))

(* fp_vcpu_wake after vcpu_wake found v runnable, c being v->processor:    *)
(* nothing if v is current on c or already linked into a queue; else insert it into the     *)
(* queue of v->processor, run the prio handler with its own priority and   *)
(* raise the schedule softirq.                                             *)
FpWake(v, c) ==
  IF curr[c] = v \/ OnQ(v)
  THEN UNCHANGED <<runq, position, priority, dprio>>
  ELSE LET q == RunqInsert(runq[c], v, strategy, period, deadline, priority)
           pos == Renumber(position, q)
       IN /\ runq' = [runq EXCEPT ![c] = q]
          /\ position' = pos
          /\ SetDomPrio(DomOf[v], PrioHandler(DomOf[v], priority[v], pos))

(* fp_sleep: a vcpu current on its pcpu only gets the softirq raised and   *)
(* stays in its queue; any other queued vcpu is unlinked.                  *)
FpSleep(v) ==
  /\ runq' = IF IsCurrent(v) THEN runq ELSE Unlink(runq, v)
  /\ UNCHANGED <<position, priority, dprio>>

(* vcpu_wake: the vcpu unblocks and, if nothing else keeps it from         *)
(* running, the scheduler's wake hook runs.                                *)
Wake(v) ==
  /\ blocked' = [blocked EXCEPT ![v] = FALSE]
  /\ IF v \notin migrating THEN FpWake(v, processor[v])
     ELSE UNCHANGED <<runq, position, priority, dprio>>
  /\ UNCHANGED <<migrating, affinity, curr, processor, strategy, period,
                 deadline, slice, cputime, left, elapsed, todo>>

(* vcpu_sleep_nosync: the vcpu blocks or is paused; the sleep hook runs.   *)
Sleep(v) ==
  /\ blocked' = [blocked EXCEPT ![v] = TRUE]
  /\ FpSleep(v)
  /\ UNCHANGED <<migrating, affinity, curr, processor, strategy, period,
                 deadline, slice, cputime, left, elapsed, todo>>

(* Variant: update_queue starts the next period without resetting cputime. *)
ReplenishKeepCputime(q, ct) ==
  [cputime |-> ct,
   left    |-> [v \in Vcpus |-> IF Contains(q, v) /\ left[v] < 0 THEN period[v] ELSE left[v]]]

(* update_queue: every vcpu of the queue whose period has passed gets its  *)
(* cputime reset and its next period started.                              *)
Replenish(q, ct) ==
  [cputime |-> [v \in Vcpus |-> IF Contains(q, v) /\ left[v] < 0 THEN 0 ELSE ct[v]],
   left    |-> [v \in Vcpus |-> IF Contains(q, v) /\ left[v] < 0 THEN period[v] ELSE left[v]]]

(* fp_do_schedule on pcpu c: charge the current vcpu the time it ran,      *)
(* replenish the queue, and pick the first queued vcpu that is runnable    *)
(* and has budget left (it stays in the queue), or idle, which tasklet     *)
(* work forces.  The framework then switches to the pick.                  *)
DoSchedule(c, tasklet) ==
  LET cur == curr[c]
      ct == IF cur = Idle THEN cputime ELSE [cputime EXCEPT ![cur] = @ + elapsed[c]]
      r == Replenish(runq[c], ct)
      i == SelectInSeq(runq[c], LAMBDA u : Runnable(u) /\ r.cputime[u] < slice[u])
  IN /\ curr' = [curr EXCEPT ![c] = IF tasklet \/ i = 0 THEN Idle ELSE runq[c][i]]
     /\ cputime' = r.cputime
     /\ left' = r.left
     /\ elapsed' = [elapsed EXCEPT ![c] = 0]
     /\ UNCHANGED <<blocked, migrating, affinity, processor, strategy, runq,
                    position, priority, period, deadline, slice, dprio, todo>>

(* One quantum passes: every pcpu has run do_schedule in the previous     *)
(* quantum (its timer is re-armed 10 us ahead, within any quantum).        *)
Tick ==
  /\ \A c \in Cpus : elapsed[c] = 0
  /\ elapsed' = [c \in Cpus |-> 1]
  /\ left' = [v \in Vcpus |-> IF left[v] >= 0 THEN left[v] - 1 ELSE -1]
  /\ UNCHANGED <<blocked, migrating, affinity, curr, processor, strategy, runq,
                 position, priority, period, deadline, slice, cputime, dprio, todo>>

(* vcpu_set_affinity: set the hard affinity and _VPF_migrating under the   *)
(* schedule lock, then vcpu_sleep_nosync, which runs the sleep hook.       *)
SetAffinity(v, m) ==
  /\ v \notin migrating
  /\ affinity' = [affinity EXCEPT ![v] = m]
  /\ migrating' = migrating \cup {v}
  /\ FpSleep(v)
  /\ UNCHANGED <<blocked, curr, processor, strategy, period, deadline, slice,
                 cputime, left, elapsed, todo>>

(* vcpu_migrate, once the vcpu is no longer running: processor becomes    *)
(* pick_cpu's choice, _VPF_migrating is cleared and vcpu_wake runs.        *)
Migrate(v) ==
  /\ v \in migrating
  /\ ~Running(v)
  /\ processor' = [processor EXCEPT ![v] = PickCpu(v, affinity[v])]
  /\ migrating' = migrating \ {v}
  /\ IF ~blocked[v] THEN FpWake(v, PickCpu(v, affinity[v])) ELSE UNCHANGED <<runq, position, priority, dprio>>
  /\ UNCHANGED <<blocked, affinity, curr, strategy, period, deadline, slice,
                 cputime, left, elapsed, todo>>

-----------------------------------------------------------------------------
(* Control operations                                                      *)

(* The fp_sched_set_vm_prio(d, prio) calls of one adjust, flattened to     *)
(* one entry per vcpu.  For dom0 the call only sets fpd->priority to       *)
(* VM_DOM0_PRIO and returns, so dom0's vcpus are never re-inserted.        *)
VmPrioCalls(d, prio) ==
  IF d = Dom0 THEN <<>>
  ELSE [i \in 1..Cardinality(DomVcpus(d)) |->
          [vc |-> VcpuOrder(DomVcpus(d))[i], prio |-> prio]]

(* The calls for every domain but `skip', in for_each_domain order, each   *)
(* with its own fpd->priority.                                             *)
OtherVmPrioCalls(skip) ==
  LET ds == SortSeq(SetToSeq(Doms \ {skip}), <)
  IN FoldLeft(LAMBDA acc, d : acc \o VmPrioCalls(d, dprio[d]), <<>>, ds)

(* The parameter writes of fp_adjust putinfo for domain d: a given period *)
(* sets the period of d's vcpus (and the deadline under RM), a given       *)
(* deadline and slice likewise.                                            *)
AdjustParams(d, op) ==
  LET ds == DomVcpus(d)
      Set(f, x) == [v \in Vcpus |-> IF v \in ds THEN x ELSE f[v]]
      dl1 == IF op.period > 0 /\ strategy = RM THEN Set(deadline, op.period) ELSE deadline
  IN /\ period' = IF op.period > 0 THEN Set(period, op.period) ELSE period
     /\ deadline' = IF op.deadline > 0 THEN Set(dl1, op.deadline) ELSE dl1
     /\ slice' = IF op.slice > 0 THEN Set(slice, op.slice) ELSE slice

(* fp_adjust putinfo: the parameter writes, then fp_sched_set_vm_prio for *)
(* d with the given priority or its own, and for every other domain with   *)
(* its own.                                                                *)
Adjust(d, op) ==
  /\ todo = <<>>
  /\ AdjustParams(d, op)
  /\ dprio' = [dprio EXCEPT ![Dom0] = VM_DOM0_PRIO]
  /\ todo' = VmPrioCalls(d, IF op.priority > 0 THEN op.priority ELSE dprio[d])
               \o OtherVmPrioCalls(d)
  /\ UNCHANGED <<blocked, migrating, affinity, curr, processor, strategy,
                 runq, position, priority, cputime, left, elapsed>>

(* fp_adjust_global: putinfo runs fp_sched_set, which adopts a strategy    *)
(* in 0..2 and rejects any other; getinfo (get = TRUE) changes nothing.    *)
(* Either way fp_sched_set_vm_prio then runs for every domain.             *)
AdjustGlobal(get, s) ==
  /\ todo = <<>>
  /\ strategy' = IF ~get /\ s \in {RM, DM, FP} THEN s ELSE strategy
  /\ dprio' = [dprio EXCEPT ![Dom0] = VM_DOM0_PRIO]
  /\ todo' = OtherVmPrioCalls(-1)
  /\ UNCHANGED <<blocked, migrating, affinity, curr, processor, runq, position,
                 priority, period, deadline, slice, cputime, left, elapsed>>

(* One iteration of fp_sched_set_vm_prio's vcpu loop: the prio handler     *)
(* for v's domain, then fp_reinsertsort_vcpu, which unlinks v and inserts  *)
(* it into the queue of v->processor whether or not it is runnable.        *)
VmPrioStep ==
  LET e == Head(todo)
      v == e.vc
      d == DomOf[v]
      p == PrioHandler(d, e.prio, position)
      prio == [u \in Vcpus |-> IF DomOf[u] = d THEN p ELSE priority[u]]
      c == processor[v]
      q == RunqInsert(Unlink(runq, v)[c], v, strategy, period, deadline, prio)
  IN /\ todo # <<>>
     /\ dprio' = [dprio EXCEPT ![d] = p]
     /\ priority' = prio
     /\ runq' = [Unlink(runq, v) EXCEPT ![c] = q]
     /\ position' = Renumber(position, q)
     /\ todo' = Tail(todo)
     /\ UNCHANGED <<blocked, migrating, affinity, curr, processor, strategy,
                    period, deadline, slice, cputime, left, elapsed>>

-----------------------------------------------------------------------------
SchedNext ==
  \/ \E v \in Vcpus : Wake(v) \/ Sleep(v)
  \/ \E c \in Cpus, t \in BOOLEAN : DoSchedule(c, t)
  \/ Tick

AffinityNext ==
  \/ \E v \in Vcpus, m \in Masks : SetAffinity(v, m)
  \/ \E v \in Vcpus : Migrate(v)

CntlNext ==
  \/ \E d \in Doms, op \in AdjustOps : Adjust(d, op)
  \/ \E s \in StrategyOps : AdjustGlobal(FALSE, s)
  \/ AdjustGlobal(TRUE, RM)
  \/ VmPrioStep

Next == SchedNext \/ AffinityNext \/ CntlNext

Spec == Init /\ [][Next]_vars

(* Every handler of one pcpu but the passing of time: the run queue order *)
(* depends on parameters, strategy and events, never on the clock.        *)
OrderNext == (SchedNext /\ ~Tick) \/ CntlNext
OrderSpec == Init /\ [][OrderNext]_vars

(* Scheduling events and affinity changes, with no time passing.           *)
MigrateNext == (SchedNext /\ ~Tick) \/ AffinityNext
MigrateSpec == Init /\ [][MigrateNext]_vars

(* Scheduling with time but fixed parameters and affinities and no        *)
(* tasklet work.  Time passes (the timer interrupt keeps coming) and every *)
(* pcpu keeps running do_schedule (the timer re-armed 10 us ahead by every *)
(* call).                                                                  *)
TimeNext ==
  \/ \E v \in Vcpus : Wake(v) \/ Sleep(v)
  \/ \E c \in Cpus : DoSchedule(c, FALSE)
  \/ Tick
TimeSpec ==
  /\ Init /\ [][TimeNext]_vars
  /\ WF_vars(Tick)
  /\ \A c \in Cpus : WF_vars(DoSchedule(c, FALSE))

-----------------------------------------------------------------------------
(* Properties                                                              *)

MaxTime == 1 + Max({DOM0_PERIOD, STANDARD_PERIOD, DOM0_SLICE, STANDARD_SLICE}
                     \cup {op.period : op \in AdjustOps} \cup {op.slice : op \in AdjustOps}
                     \cup {op.deadline : op \in AdjustOps})

TypeOK ==
  /\ blocked \in [Vcpus -> BOOLEAN]
  /\ migrating \subseteq Vcpus
  /\ affinity \in [Vcpus -> SUBSET Cpus]
  /\ curr \in [Cpus -> Vcpus \cup {Idle}]
  /\ processor \in [Vcpus -> Cpus]
  /\ strategy \in {RM, DM, FP}
  /\ \A c \in Cpus : runq[c] \in Seq(Vcpus) /\ IsInjective(runq[c])
  /\ position \in [Vcpus -> 0..Cardinality(Vcpus) - 1]
  /\ period \in [Vcpus -> 1..MaxTime] /\ deadline \in [Vcpus -> 1..MaxTime]
  /\ slice \in [Vcpus -> 1..MaxTime]
  /\ cputime \in [Vcpus -> 0..MaxTime]
  /\ left \in [Vcpus -> -1..MaxTime]
  /\ elapsed \in [Cpus -> 0..1]
  /\ todo \in Seq([vc : Vcpus, prio : Int])

(* Once no adjust is in progress, every run queue is in the order of the   *)
(* current strategy's compare function, whatever strategy switches,        *)
(* parameter changes, wakes and migrations happened meanwhile: the order   *)
(* do_schedule relies on to run the highest-priority vcpu with budget.     *)
(* fp_sched_set_vm_prio never re-inserts dom0's vcpus, and fp_adjust       *)
(* changes parameters before the re-insertions it queues.                  *)
RunqSorted ==
  todo = <<>> =>
    \A c \in Cpus : \A i \in 1..Len(runq[c]) - 1 :
      Compare(strategy, runq[c][i], runq[c][i + 1], period, deadline, priority)

(* The same order restricted to the guests' vcpus, the ones              *)
(* fp_sched_set_vm_prio does re-insert: with dom0's vcpus left out, every  *)
(* queue is sorted once the adjust's re-insertions are done.               *)
GuestsSorted ==
  todo = <<>> =>
    \A c \in Cpus :
      LET g == SelectSeq(runq[c], LAMBDA u : DomOf[u] # Dom0)
      IN \A i \in 1..Len(g) - 1 :
           Compare(strategy, g[i], g[i + 1], period, deadline, priority)

(* No vcpu is current on two pcpus at once: the generic scheduler asserts *)
(* !next->is_running before switching to the vcpu do_schedule returns.    *)
(* A vcpu left in one pcpu's queue and another's processor can be slept   *)
(* (fp_sleep checks curr of its processor, not of the pcpu running it) *)
(* and woken into a second queue.                                          *)
SingleExecution ==
  \A c, d \in Cpus : c # d /\ curr[c] \in Vcpus => curr[c] # curr[d]

(* A vcpu is linked into at most one run queue: a queue element is one   *)
(* list_head, and fp_vcpu_wake inserts only a vcpu that __vcpu_on_q finds  *)
(* on no queue, even after vcpu_migrate changed its processor.             *)
QueuedOnce ==
  \A v \in Vcpus : \A c, d \in Cpus : Contains(runq[c], v) /\ Contains(runq[d], v) => c = d

(* Every vcpu that stays runnable eventually runs: on a pcpu whose vcpus' *)
(* slices fit in a period, the budgets update_queue resets once per        *)
(* period (when now > period_next) leave room for the lowest-priority      *)
(* vcpu of the queue, however the others sleep, wake and block.            *)
EventuallyRuns ==
  \A v \in Vcpus : Runnable(v) ~> (Running(v) \/ ~Runnable(v))
====
