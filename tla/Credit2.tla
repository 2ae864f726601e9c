------------------------------- MODULE Credit2 -------------------------------
(***************************************************************************)
(* The Credit2 scheduler of xen/common/sched_credit2.c (Xen 4.7): the      *)
(* per-runqueue state (ordered runq, idle and tickled masks, instantaneous *)
(* load, max_weight cache), the per-vcpu scheduling state (credit,         *)
(* residual, start time, flags) and the handlers the generic scheduler     *)
(* calls: wake, sleep, do_schedule, context_saved and the weight update of *)
(* dom_cntl.  Every handler runs under the lock of one runqueue, so each   *)
(* is one atomic step; the interleaving is between handlers of different   *)
(* pcpus.  dom_cntl takes the runqueue locks one vcpu at a time and is     *)
(* therefore one step per vcpu.  With several runqueues, a credit reset    *)
(* in do_schedule ends with balance_load, which moves idle or queued vcpus *)
(* between runqueues at once and asks running ones to migrate; the         *)
(* framework's vcpu_migrate, run after their context is saved, moves them  *)
(* through choose_cpu and csched2_vcpu_migrate.                            *)
(*                                                                         *)
(* Time is kept per vcpu as `elapsed', the value of now - start_time, so   *)
(* that burn_credits converts exactly the time a vcpu ran since its start  *)
(* time was last set.  The decaying load averages are abstracted (see      *)
(* Credit2Load); the instantaneous load counter rqd->load is kept.         *)
(***************************************************************************)
EXTENDS Integers, Sequences, FiniteSets, SequencesExt

CONSTANTS
  Cpus,          \* pcpu ids, a set of naturals (cpumask order matters)
  Vcpus,         \* the non-idle vcpus
  Doms,          \* the domains owning them
  Rqs,           \* runqueue ids
  RunqMap,       \* prv->runq_map: [Cpus -> Rqs], fixed by init_pdata
  DomOf,         \* svc->sdom: [Vcpus -> Doms]
  Affinity,      \* vc->cpu_hard_affinity: [Vcpus -> SUBSET Cpus]
  Weights,       \* the weights dom_cntl may set (op->u.credit2.weight != 0)
  DEFAULT_WEIGHT,        \* CSCHED2_DEFAULT_WEIGHT
  CREDIT_INIT,           \* CSCHED2_CREDIT_INIT
  CARRYOVER_MAX,         \* CSCHED2_CARRYOVER_MAX
  MIGRATE_RESIST,        \* CSCHED2_MIGRATE_RESIST
  MIGRATE_COMPENSATION,  \* CSCHED2_MIGRATE_COMPENSATION
  IDLE_CREDIT,           \* CSCHED2_IDLE_CREDIT
  MaxElapsed,    \* bound: time units a vcpu may run between two burns
  CreditFloor,   \* bound: lowest credit time may drive a vcpu to
  CreditCeil,    \* bound: highest credit migration compensation may reach
  Idle,          \* the idle vcpu of a pcpu
  None           \* no vcpu

ASSUME Cpus \subseteq Nat /\ Cpus # {}
ASSUME RunqMap \in [Cpus -> Rqs]
ASSUME DomOf \in [Vcpus -> Doms]
ASSUME \A v \in Vcpus : Affinity[v] # {} /\ Affinity[v] \subseteq Cpus
ASSUME Weights \subseteq Nat \ {0} /\ DEFAULT_WEIGHT \in Weights
ASSUME CARRYOVER_MAX >= 0 /\ CREDIT_INIT > 0
ASSUME IDLE_CREDIT < CreditFloor /\ CreditFloor < 0 /\ CreditCeil > CREDIT_INIT

NoCpu == -1            \* ipid == -1 in runq_tickle
CREDIT_RESET == 0      \* CSCHED2_CREDIT_RESET

VARIABLES
  (* framework state (xen/common/schedule.c, not in this repository)       *)
  runnable,   \* vcpu_runnable(v)
  curr,       \* curr_on_cpu(c): a vcpu or Idle
  saving,     \* the prev vcpu whose context_saved is still due on c, or None
  pending,    \* pcpus with SCHEDULE_SOFTIRQ raised
  (* struct csched2_vcpu                                                  *)
  processor,  \* vc->processor
  rqdOf,      \* svc->rqd
  credit, residual, elapsed, weight,
  scheduled,  \* CSFLAG_scheduled
  delayed,    \* CSFLAG_delayed_runq_add
  migrateRqd, \* svc->migrate_rqd while CSFLAG_runq_migrate_request is set, else None
  migrating,  \* the vcpus with _VPF_migrating in pause_flags (framework)
  (* struct csched2_dom and the dom_cntl loop in progress                 *)
  dweight, adjusting,
  (* struct csched2_runqueue_data                                         *)
  runq, maxWeight, idle, tickled, load

vcpuVars == <<processor, rqdOf, credit, residual, elapsed, weight, scheduled, delayed,
              migrateRqd, migrating>>
rqVars == <<runq, maxWeight, idle, tickled, load>>
vars == <<runnable, curr, saving, pending, dweight, adjusting, processor, rqdOf,
          credit, residual, elapsed, weight, scheduled, delayed, migrateRqd, migrating,
          runq, maxWeight, idle, tickled, load>>

Active(r) == {c \in Cpus : RunqMap[c] = r}
RQD(c) == RunqMap[c]
OnRunq(v) == Contains(runq[rqdOf[v]], v)
CreditOf(cr, v) == IF v = Idle THEN IDLE_CREDIT ELSE cr[v]
IsCurrent(v) == curr[processor[v]] = v
(* vcpu_runnable(v): not blocked and no pause flag, _VPF_migrating included. *)
Runnable(v) == runnable[v] /\ v \notin migrating
MinOf(S) == CHOOSE x \in S : \A y \in S : x <= y
MaxOf(S) == CHOOSE x \in S : \A y \in S : x >= y

-----------------------------------------------------------------------------
(* Credit accounting                                                       *)

(* The fields of the scheduler state that a handler changes in several    *)
(* steps, as one record: a handler applies its steps to it in the order   *)
(* of the code and commits the result.                                     *)
Cur == [runq |-> runq, load |-> load, credit |-> credit, residual |-> residual,
        elapsed |-> elapsed, tickled |-> tickled, pending |-> pending,
        processor |-> processor, rqdOf |-> rqdOf, maxWeight |-> maxWeight,
        migrateRqd |-> migrateRqd, migrating |-> migrating]

Commit(s) ==
  /\ runq' = s.runq /\ load' = s.load
  /\ credit' = s.credit /\ residual' = s.residual /\ elapsed' = s.elapsed
  /\ tickled' = s.tickled /\ pending' = s.pending
  /\ processor' = s.processor /\ rqdOf' = s.rqdOf /\ maxWeight' = s.maxWeight
  /\ migrateRqd' = s.migrateRqd /\ migrating' = s.migrating

(* t2c_update as called by burn_credits: the credit a vcpu burns for the   *)
(* time it ran, scaled by max_weight / weight, with the remainder kept in  *)
(* residual.  burn_credits does nothing unless delta > 0.                  *)
BurnValIn(s, v) == s.elapsed[v] * s.maxWeight[s.rqdOf[v]] + s.residual[v]
BurnedCreditIn(s, v) ==
  IF s.elapsed[v] > 0 THEN s.credit[v] - BurnValIn(s, v) \div weight[v] ELSE s.credit[v]
BurnedResidualIn(s, v) ==
  IF s.elapsed[v] > 0 THEN BurnValIn(s, v) % weight[v] ELSE s.residual[v]

(* Variant: start_time left where it was after the burn, so the same     *)
(* time is burned again at the next burn.                                  *)
BurnInKeepStart(s, S) ==
  [s EXCEPT !.credit = [v \in Vcpus |-> IF v \in S THEN BurnedCreditIn(s, v) ELSE @[v]],
            !.residual = [v \in Vcpus |-> IF v \in S THEN BurnedResidualIn(s, v) ELSE @[v]]]

(* burn_credits applied to every vcpu of S (the idle vcpu is skipped).     *)
BurnIn(s, S) ==
  [s EXCEPT !.credit = [v \in Vcpus |-> IF v \in S THEN BurnedCreditIn(s, v) ELSE @[v]],
            !.residual = [v \in Vcpus |-> IF v \in S THEN BurnedResidualIn(s, v) ELSE @[v]],
            !.elapsed = [v \in Vcpus |-> IF v \in S THEN 0 ELSE @[v]]]

(* reset_credit: every vcpu assigned to r gets m * CREDIT_INIT, clipped to *)
(* CREDIT_INIT + CARRYOVER_MAX, and its start time set to now.             *)
(* Variant: a reset that always adds a single CREDIT_INIT.              *)
ResetMultiplierOne(c) == 1
ResetMultiplier(c) ==
  IF c < -CREDIT_INIT THEN 1 + (-c) \div CREDIT_INIT ELSE 1
ResetCredit(cr, r, snext) ==
  LET m == ResetMultiplier(cr[snext])
  IN [v \in Vcpus |-> IF rqdOf[v] = r
                      THEN MinOf({cr[v] + m * CREDIT_INIT, CREDIT_INIT + CARRYOVER_MAX})
                      ELSE cr[v]]

(* Variant: max_weight only ever raised, never recomputed on a decrease. *)
UpdateMaxWeightRaiseOnly(mw, r, new, old, wt, rq) ==
  IF new > mw[r] THEN new ELSE mw[r]

(* update_max_weight(rqd, new_weight, old_weight) on the max_weight       *)
(* cache mw; wt is svc->weight and rq the runqueue whose rqd->svc list     *)
(* holds each vcpu, both after the caller's own update.                    *)
UpdateMaxWeight(mw, r, new, old, wt, rq) ==
  IF new > mw[r] THEN new
  ELSE IF old = mw[r]
       THEN MaxOf({1} \cup {wt[u] : u \in {x \in Vcpus : rq[x] = r}})
       ELSE mw[r]

-----------------------------------------------------------------------------
(* Runqueue ordering and the tickle protocol                               *)

(* Variant: the credit scan dropped, every vcpu queued at the tail.      *)
RunqInsertTail(q, v, cr) == Append(q, v)

(* __runq_insert: before the first entry with strictly lower credit.       *)
RunqInsert(q, v, cr) ==
  LET lower == {i \in 1 .. Len(q) : cr[v] > cr[q[i]]}
  IN IF lower = {} THEN Append(q, v) ELSE InsertAt(q, MinOf(lower), v)

(* cpumask_cycle(cpu, mask): the first pcpu of mask after cpu, wrapping.   *)
Cycle(cpu, mask) ==
  IF \E i \in mask : i > cpu THEN MinOf({i \in mask : i > cpu}) ELSE MinOf(mask)

(* runq_tickle(cpu, new) on state s: the three masks and choices of the    *)
(* handler.  The idle mask is read as it is when the handler starts.       *)
TickleCur(s, cpu, new) ==
  (IF curr[cpu] = Idle THEN IDLE_CREDIT ELSE BurnedCreditIn(s, curr[cpu])) < s.credit[new]
IdleMask(s, cpu, new) == (idle[RQD(cpu)] \ s.tickled[RQD(cpu)]) \cap Affinity[new]
BusyMask(s, cpu, new) ==
  (((Active(RQD(cpu)) \ idle[RQD(cpu)]) \ s.tickled[RQD(cpu)]) \cap Affinity[new]) \ {cpu}
ScansBusy(s, cpu, new) == ~TickleCur(s, cpu, new) /\ IdleMask(s, cpu, new) = {}
Lowest(s, cpu, new) == MinOf({BurnedCreditIn(s, curr[i]) : i \in BusyMask(s, cpu, new)})
TickleTarget(s, cpu, new) ==
  LET im == IdleMask(s, cpu, new)
      bm == BusyMask(s, cpu, new)
      low == Lowest(s, cpu, new)
  IN IF TickleCur(s, cpu, new) THEN cpu
     ELSE IF im # {} THEN Cycle(cpu, im)
     ELSE IF bm = {} \/ low + MIGRATE_RESIST > s.credit[new]
          THEN NoCpu
          ELSE MinOf({i \in bm : BurnedCreditIn(s, curr[i]) = low})
(* The vcpus whose credit runq_tickle burns on the way.                    *)
TickleBurns(s, cpu, new) ==
  ({curr[cpu]} \cup IF ScansBusy(s, cpu, new) THEN {curr[i] : i \in BusyMask(s, cpu, new)} ELSE {})
    \ {Idle}

(* runq_insert and runq_tickle of v on the runqueue of its processor; the  *)
(* burns of runq_tickle are the only credit changes.                       *)
InsertAndTickleIn(s, v) ==
  LET cpu == s.processor[v]
      r   == s.rqdOf[v]
      t   == TickleTarget(s, cpu, v)
      b   == BurnIn(s, TickleBurns(s, cpu, v))
  IN [b EXCEPT !.runq = [@ EXCEPT ![r] = RunqInsert(@, v, s.credit)],
               !.tickled = IF t = NoCpu THEN @ ELSE [@ EXCEPT ![r] = @ \cup {t}],
               !.pending = IF t = NoCpu THEN @ ELSE @ \cup {t}]

(* The same on the current state.  Leaves runq, credit, residual, elapsed, *)
(* tickled and pending primed.                                             *)
InsertAndTickle(v) ==
  \E s \in {InsertAndTickleIn(Cur, v)} :
     /\ runq' = s.runq
     /\ credit' = s.credit /\ residual' = s.residual /\ elapsed' = s.elapsed
     /\ tickled' = s.tickled /\ pending' = s.pending
-----------------------------------------------------------------------------
(* Initial state: csched2_init, init_pdata for every pcpu (all idle), and  *)
(* alloc_vdata + vcpu_insert for every vcpu on the runqueue of its initial *)
(* processor; vcpus are created paused, so none is runnable yet.           *)
InitProcessor == [v \in Vcpus |-> MinOf(Affinity[v])]

Init ==
  /\ runnable = [v \in Vcpus |-> FALSE]
  /\ curr = [c \in Cpus |-> Idle]
  /\ saving = [c \in Cpus |-> None]
  /\ pending = {}
  /\ processor = InitProcessor
  /\ rqdOf = [v \in Vcpus |-> RQD(InitProcessor[v])]
  /\ credit = [v \in Vcpus |-> CREDIT_INIT]
  /\ residual = [v \in Vcpus |-> 0]
  /\ elapsed = [v \in Vcpus |-> 0]
  /\ weight = [v \in Vcpus |-> DEFAULT_WEIGHT]
  /\ scheduled = [v \in Vcpus |-> FALSE]
  /\ delayed = [v \in Vcpus |-> FALSE]
  /\ migrateRqd = [v \in Vcpus |-> None]
  /\ migrating = {}
  /\ dweight = [d \in Doms |-> DEFAULT_WEIGHT]
  /\ adjusting = None
  /\ runq = [r \in Rqs |-> <<>>]
  /\ maxWeight = [r \in Rqs |->
       IF \E v \in Vcpus : rqdOf[v] = r THEN DEFAULT_WEIGHT ELSE 1]
  /\ idle = [r \in Rqs |-> Active(r)]
  /\ tickled = [r \in Rqs |-> {}]
  /\ load = [r \in Rqs |-> 0]

-----------------------------------------------------------------------------
(* Variant: wake without the CSFLAG_scheduled test, queueing a vcpu     *)
(* whose context is still being saved.                                    *)
WakeNoScheduledTest(v) ==
  /\ runnable' = [runnable EXCEPT ![v] = TRUE]
  /\ IF v \in migrating \/ IsCurrent(v) \/ OnRunq(v)
     THEN UNCHANGED <<vcpuVars, rqVars, pending>>
     ELSE /\ load' = [load EXCEPT ![rqdOf[v]] = @ + 1]
          /\ InsertAndTickle(v)
          /\ UNCHANGED <<processor, rqdOf, weight, scheduled, delayed, maxWeight, idle,
                         migrateRqd, migrating>>
  /\ UNCHANGED <<curr, saving, dweight, adjusting>>

(* vcpu_wake: v becomes runnable, and unless _VPF_migrating is set,        *)
(* csched2_vcpu_wake runs.  Nothing to do if v is running or queued; if    *)
(* its context is still being saved it is flagged for a delayed insert;    *)
(* otherwise load +1, insert and tickle.                                   *)
Wake(v) ==
  /\ runnable' = [runnable EXCEPT ![v] = TRUE]
  /\ IF v \in migrating \/ IsCurrent(v) \/ OnRunq(v)
     THEN UNCHANGED <<vcpuVars, rqVars, pending>>
     ELSE IF scheduled[v]
     THEN /\ delayed' = [delayed EXCEPT ![v] = TRUE]
          /\ UNCHANGED <<processor, rqdOf, credit, residual, elapsed, weight,
                         scheduled, migrateRqd, migrating, rqVars, pending>>
     ELSE /\ load' = [load EXCEPT ![rqdOf[v]] = @ + 1]
          /\ InsertAndTickle(v)
          /\ UNCHANGED <<processor, rqdOf, weight, scheduled, delayed, maxWeight, idle,
                         migrateRqd, migrating>>
  /\ UNCHANGED <<curr, saving, dweight, adjusting>>

(* Variant: sleep that drops the load of a queued vcpu but leaves it on  *)
(* the runq (the __runq_remove call missing).                             *)
SleepLeaveQueued(v) ==
  /\ runnable' = [runnable EXCEPT ![v] = FALSE]
  /\ IF IsCurrent(v)
     THEN /\ pending' = pending \cup {processor[v]}
          /\ UNCHANGED <<delayed, load>>
     ELSE IF OnRunq(v)
     THEN /\ load' = [load EXCEPT ![rqdOf[v]] = @ - 1]
          /\ UNCHANGED <<delayed, pending>>
     ELSE /\ delayed' = [delayed EXCEPT ![v] = FALSE]
          /\ UNCHANGED <<load, pending>>
  /\ UNCHANGED <<curr, saving, dweight, adjusting, processor, rqdOf, credit, runq,
                 residual, elapsed, weight, scheduled, maxWeight, idle, tickled,
                 migrateRqd, migrating>>

(* csched2_vcpu_sleep, called by vcpu_sleep_nosync once v is not runnable: *)
(* a running v gets its pcpu rescheduled, a queued one leaves the runq     *)
(* (load -1), a pending delayed insert is cancelled.                       *)
Sleep(v) ==
  /\ runnable' = [runnable EXCEPT ![v] = FALSE]
  /\ IF IsCurrent(v)
     THEN /\ pending' = pending \cup {processor[v]}
          /\ UNCHANGED <<delayed, runq, load>>
     ELSE IF OnRunq(v)
     THEN /\ load' = [load EXCEPT ![rqdOf[v]] = @ - 1]
          /\ runq' = [runq EXCEPT ![rqdOf[v]] = Remove(@, v)]
          /\ UNCHANGED <<delayed, pending>>
     ELSE /\ delayed' = [delayed EXCEPT ![v] = FALSE]
          /\ UNCHANGED <<runq, load, pending>>
  /\ UNCHANGED <<curr, saving, dweight, adjusting, processor, rqdOf, credit,
                 residual, elapsed, weight, scheduled, maxWeight, idle, tickled,
                 migrateRqd, migrating>>

(* Time passes on pcpu c while a vcpu runs there (now - start_time grows). *)
(* The bound CreditFloor is kept against the largest burn the time may     *)
(* cost, since a weight change can rescale it before it is burned.         *)
Tick(c) ==
  LET v == curr[c] IN
  /\ v # Idle
  /\ elapsed[v] < MaxElapsed
  /\ credit[v] - ((elapsed[v] + 1) * MaxOf(Weights) + residual[v]) \div MinOf(Weights)
       >= CreditFloor
  /\ elapsed' = [elapsed EXCEPT ![v] = @ + 1]
  /\ UNCHANGED <<runnable, curr, saving, pending, dweight, adjusting, processor,
                 rqdOf, credit, residual, weight, scheduled, delayed, migrateRqd,
                 migrating, rqVars>>
-----------------------------------------------------------------------------
(* runq_candidate: default to scurr if runnable, else idle; take the first *)
(* runq entry allowed on cpu and not resisted (a vcpu last run elsewhere   *)
(* must beat the default by MIGRATE_RESIST), if its credit is higher.      *)
Candidate(r, scurr, cpu, cr) ==
  LET dflt == IF scurr # Idle /\ Runnable(scurr) THEN scurr ELSE Idle
      dcr  == CreditOf(cr, dflt)
      Ok(u) == /\ cpu \in Affinity[u]
               /\ ~(processor[u] # cpu /\ dcr + MIGRATE_RESIST > cr[u])
      oks  == {i \in 1 .. Len(runq[r]) : Ok(runq[r][i])}
      first == runq[r][MinOf(oks)]
  IN IF oks # {} /\ cr[first] > dcr THEN first ELSE dflt

(* Variants of migrate: one that moves a queued vcpu without moving its    *)
(* share of the load, and one that changes the runqueue but not the pcpu.  *)
MigrateInKeepLoad(s, sch, v, trqd, c) ==
  IF sch[v]
  THEN [s EXCEPT !.migrateRqd[v] = trqd, !.migrating = @ \cup {v}]
  ELSE LET old == s.rqdOf[v]
           onq == Contains(s.runq[old], v)
           rq  == [s.rqdOf EXCEPT ![v] = trqd]
           mw  == [s.maxWeight EXCEPT
                     ![old] = UpdateMaxWeight(s.maxWeight, old, 0, weight[v], weight, rq)]
           s1  == [s EXCEPT !.runq = IF onq THEN [@ EXCEPT ![old] = Remove(@, v)] ELSE @,
                            !.rqdOf = rq, !.processor[v] = c,
                            !.maxWeight = [mw EXCEPT
                               ![trqd] = UpdateMaxWeight(mw, trqd, weight[v], 0, weight, rq)]]
       IN IF onq THEN InsertAndTickleIn(s1, v) ELSE s1
MigrateInKeepProcessor(s, sch, v, trqd, c) ==
  IF sch[v]
  THEN [s EXCEPT !.migrateRqd[v] = trqd, !.migrating = @ \cup {v}]
  ELSE LET old == s.rqdOf[v]
           onq == Contains(s.runq[old], v)
           rq  == [s.rqdOf EXCEPT ![v] = trqd]
           mw  == [s.maxWeight EXCEPT
                     ![old] = UpdateMaxWeight(s.maxWeight, old, 0, weight[v], weight, rq)]
           s1  == [s EXCEPT !.runq = IF onq THEN [@ EXCEPT ![old] = Remove(@, v)] ELSE @,
                            !.load = IF onq THEN [@ EXCEPT ![old] = @ - 1, ![trqd] = @ + 1] ELSE @,
                            !.rqdOf = rq,
                            !.maxWeight = [mw EXCEPT
                               ![trqd] = UpdateMaxWeight(mw, trqd, weight[v], 0, weight, rq)]]
       IN IF onq THEN InsertAndTickleIn(s1, v) ELSE s1

(* migrate(svc, trqd) on state s, sch being the CSFLAG_scheduled flags: a  *)
(* vcpu that is scheduled is only asked to move (migrate_rqd, the request  *)
(* flag and _VPF_migrating); any other is taken off its runq if queued     *)
(* (load -1), deassigned, given the pcpu c of its hard affinity in trqd    *)
(* (cpumask_any), assigned to trqd and, if it was queued, counted there    *)
(* (load +1), inserted and tickled.  __runq_deassign and __runq_assign     *)
(* each update the max_weight of their runqueue.                           *)
MigrateIn(s, sch, v, trqd, c) ==
  IF sch[v]
  THEN [s EXCEPT !.migrateRqd[v] = trqd, !.migrating = @ \cup {v}]
  ELSE LET old == s.rqdOf[v]
           onq == Contains(s.runq[old], v)
           rq  == [s.rqdOf EXCEPT ![v] = trqd]
           mw  == [s.maxWeight EXCEPT
                     ![old] = UpdateMaxWeight(s.maxWeight, old, 0, weight[v], weight, rq)]
           s1  == [s EXCEPT
                     !.runq = IF onq THEN [@ EXCEPT ![old] = Remove(@, v)] ELSE @,
                     !.load = IF onq THEN [@ EXCEPT ![old] = @ - 1, ![trqd] = @ + 1] ELSE @,
                     !.rqdOf = rq,
                     !.processor[v] = c,
                     !.maxWeight = [mw EXCEPT
                        ![trqd] = UpdateMaxWeight(mw, trqd, weight[v], 0, weight, rq)]]
       IN IF onq THEN InsertAndTickleIn(s1, v) ELSE s1

(* vcpu_is_migrateable(svc, rqd) on state s.                               *)
Migrateable(s, v, r) == s.migrateRqd[v] = None /\ Affinity[v] \cap Active(r) # {}

(* The states balance_load(cpu) may leave from state s.  It may move       *)
(* nothing: the private lock or the other runqueue's lock is taken, or     *)
(* the loads are within tolerance.  The private lock is dropped before the *)
(* moves, so a dom_cntl may be part-way through its vcpus when they are    *)
(* made: its per-vcpu steps take the runqueue locks balance_load holds,    *)
(* and fall before or after the moves.  Otherwise it pushes a migrateable vcpu of cpu's runqueue    *)
(* to another runqueue, pulls one from there, or swaps the two, push       *)
(* first.  Which runqueue and which move are chosen by the decaying load   *)
(* averages, which are not modelled: any of them may be taken.             *)
BalanceLoad(s, sch, cpu) ==
  LET l == RQD(cpu)
      Moves(o) ==
        {m \in [push : Vcpus \cup {None}, pull : Vcpus \cup {None}, pc : Cpus, qc : Cpus] :
           /\ m.push # None \/ m.pull # None
           /\ m.push # None => /\ s.rqdOf[m.push] = l /\ Migrateable(s, m.push, o)
                               /\ m.pc \in Affinity[m.push] \cap Active(o)
           /\ m.pull # None => /\ s.rqdOf[m.pull] = o /\ Migrateable(s, m.pull, l)
                               /\ m.qc \in Affinity[m.pull] \cap Active(l)}
      Pushed(m, o) == IF m.push = None THEN s ELSE MigrateIn(s, sch, m.push, o, m.pc)
      Moved(m, o) == IF m.pull = None THEN Pushed(m, o)
                     ELSE MigrateIn(Pushed(m, o), sch, m.pull, l, m.qc)
  IN {s} \cup UNION {{Moved(m, o) : m \in Moves(o)} : o \in {x \in Rqs \ {l} : Active(x) # {}}}

(* csched2_schedule on pcpu `cpu', followed by the framework's context     *)
(* switch to the vcpu it returns.  The framework runs it when the slice    *)
(* timer of a busy pcpu fires or SCHEDULE_SOFTIRQ is pending, never while  *)
(* the previous context_saved on this pcpu is outstanding.  With tasklet   *)
(* work the idle vcpu is chosen and the tasklet's end reschedules.  The    *)
(* steps run in the order of the code: tickled bit cleared, burn, choice,  *)
(* delayed add of scurr, snext off the runq and scheduled, on a reset      *)
(* reset_credit then balance_load, then start time and migration credit.   *)
Schedule(cpu, tasklet) ==
  LET r       == RQD(cpu)
      scurr   == curr[cpu]
  IN
  /\ saving[cpu] = None
  /\ scurr # Idle \/ cpu \in pending
  /\ \E b \in {BurnIn(Cur, {scurr} \ {Idle})} :
     \E snext \in {IF tasklet THEN Idle ELSE Candidate(r, scurr, cpu, b.credit)} :
     LET switch  == snext # scurr
         reset   == snext # Idle /\ b.credit[snext] <= CREDIT_RESET
         sch     == IF snext # Idle /\ switch THEN [scheduled EXCEPT ![snext] = TRUE] ELSE scheduled
         s0      == [Cur EXCEPT
                       !.tickled[r] = @ \ {cpu},
                       !.pending = @ \ {cpu},
                       !.credit = IF reset THEN ResetCredit(b.credit, r, snext) ELSE b.credit,
                       !.residual = b.residual,
                       !.elapsed = IF reset THEN [v \in Vcpus |-> IF rqdOf[v] = r THEN 0 ELSE b.elapsed[v]]
                                   ELSE b.elapsed,
                       !.runq = IF snext # Idle /\ switch THEN [@ EXCEPT ![r] = Remove(@, snext)] ELSE @]
         Finish(s) ==
           LET migrate == snext # Idle /\ s.processor[snext] # cpu
           IN [s EXCEPT !.credit = IF migrate THEN [@ EXCEPT ![snext] = @ + MIGRATE_COMPENSATION] ELSE @,
                        !.elapsed = IF snext # Idle THEN [@ EXCEPT ![snext] = 0] ELSE @,
                        !.processor = IF migrate THEN [@ EXCEPT ![snext] = cpu] ELSE @,
                        !.pending = IF tasklet THEN @ \cup {cpu} ELSE @]
     IN
     /\ \E s \in {Finish(x) : x \in IF reset THEN BalanceLoad(s0, sch, cpu) ELSE {s0}} : Commit(s)
     /\ delayed' = IF switch /\ scurr # Idle /\ Runnable(scurr)
                   THEN [delayed EXCEPT ![scurr] = TRUE] ELSE delayed
     /\ scheduled' = sch
     /\ idle' = [idle EXCEPT ![r] = IF snext = Idle THEN @ \cup {cpu} ELSE @ \ {cpu}]
     /\ curr' = [curr EXCEPT ![cpu] = snext]
     /\ saving' = IF switch /\ scurr # Idle THEN [saving EXCEPT ![cpu] = scurr] ELSE saving
  /\ \A v \in Vcpus : credit'[v] <= CreditCeil
  /\ UNCHANGED <<runnable, dweight, adjusting, weight>>

(* Variants: context_saved that does not clear CSFLAG_delayed_runq_add,  *)
(* and one that forgets the load -1 of a vcpu not requeued.               *)
ContextSavedKeepDelayed(cpu) ==
  LET v == saving[cpu] IN
  /\ v # None
  /\ scheduled' = [scheduled EXCEPT ![v] = FALSE]
  /\ IF delayed[v] /\ Runnable(v)
     THEN InsertAndTickle(v) /\ UNCHANGED load
     ELSE /\ load' = [load EXCEPT ![rqdOf[v]] = @ - 1]
          /\ UNCHANGED <<runq, credit, residual, elapsed, tickled, pending>>
  /\ saving' = [saving EXCEPT ![cpu] = None]
  /\ UNCHANGED <<runnable, curr, dweight, adjusting, processor, rqdOf, weight,
                 maxWeight, idle, delayed, migrateRqd, migrating>>
ContextSavedKeepLoad(cpu) ==
  LET v == saving[cpu] IN
  /\ v # None
  /\ scheduled' = [scheduled EXCEPT ![v] = FALSE]
  /\ delayed' = [delayed EXCEPT ![v] = FALSE]
  /\ IF delayed[v] /\ Runnable(v)
     THEN InsertAndTickle(v)
     ELSE UNCHANGED <<runq, credit, residual, elapsed, tickled, pending>>
  /\ saving' = [saving EXCEPT ![cpu] = None]
  /\ UNCHANGED <<runnable, curr, dweight, adjusting, processor, rqdOf, weight,
                 maxWeight, idle, load, migrateRqd, migrating>>

(* csched2_context_saved for the vcpu pcpu `cpu' switched away from: it    *)
(* may be queued again; a delayed insert is done (and tickled) if it is    *)
(* still runnable, otherwise it stops counting in the runqueue load.       *)
ContextSaved(cpu) ==
  LET v == saving[cpu] IN
  /\ v # None
  /\ scheduled' = [scheduled EXCEPT ![v] = FALSE]
  /\ delayed' = [delayed EXCEPT ![v] = FALSE]
  /\ IF delayed[v] /\ Runnable(v)
     THEN /\ InsertAndTickle(v)
          /\ UNCHANGED load
     ELSE /\ load' = [load EXCEPT ![rqdOf[v]] = @ - 1]
          /\ UNCHANGED <<runq, credit, residual, elapsed, tickled, pending>>
  /\ saving' = [saving EXCEPT ![cpu] = None]
  /\ UNCHANGED <<runnable, curr, dweight, adjusting, processor, rqdOf, weight,
                 maxWeight, idle, migrateRqd, migrating>>

(* get_fallback_cpu: v's processor if its hard affinity allows it, else   *)
(* the first pcpu of the affinity in its runqueue, else of the affinity.   *)
GetFallbackCpu(v) ==
  IF processor[v] \in Affinity[v] THEN processor[v]
  ELSE IF Affinity[v] \cap Active(rqdOf[v]) # {} THEN MinOf(Affinity[v] \cap Active(rqdOf[v]))
  ELSE MinOf(Affinity[v])

(* The pcpus choose_cpu (csched2_cpu_pick) may return for v: the fallback  *)
(* when the private lock is taken (always while dom_cntl holds it); with a *)
(* migrate request, any pcpu of the affinity in the requested runqueue;    *)
(* otherwise any pcpu of the affinity in a runqueue of least average load  *)
(* (not modelled), or the fallback if every other runqueue lock is taken.  *)
ChooseCpu(v) ==
  LET asked == IF migrateRqd[v] = None THEN {} ELSE Affinity[v] \cap Active(migrateRqd[v])
  IN {GetFallbackCpu(v)} \cup
     IF adjusting # None THEN {} ELSE IF asked # {} THEN asked ELSE Affinity[v]

(* Variant: vcpu_migrate without the closing vcpu_wake.                    *)
VcpuMigrateNoWake(v) ==
  /\ v \in migrating
  /\ ~scheduled[v]
  /\ \E nc \in ChooseCpu(v), c \in Cpus :
       LET trqd == RQD(nc)
           s0 == [Cur EXCEPT !.migrateRqd[v] = None, !.migrating = @ \ {v}]
       IN /\ IF trqd # rqdOf[v] THEN c \in Affinity[v] \cap Active(trqd) ELSE c = nc
          /\ Commit(IF trqd # rqdOf[v] THEN MigrateIn(s0, scheduled, v, trqd, c)
                    ELSE [s0 EXCEPT !.processor[v] = nc])
  /\ UNCHANGED <<runnable, curr, saving, dweight, adjusting, weight, scheduled, delayed, idle>>

(* The framework's vcpu_migrate, which its context_saved calls after the    *)
(* scheduler's for a vcpu with _VPF_migrating: csched2_cpu_pick (clearing  *)
(* the migrate request), _VPF_migrating cleared, csched2_vcpu_migrate      *)
(* (migrate to the new pcpu's runqueue if it is another, else just the new *)
(* processor), and vcpu_wake.  It takes the locks of the old and new pcpu  *)
(* after context_saved dropped its own, so other handlers run in between:  *)
(* it is a step of its own, enabled once the context is saved.  The wake   *)
(* after the unlock is folded in: a wake or sleep in between ends in the   *)
(* same state.                                                              *)
VcpuMigrate(v) ==
  /\ v \in migrating
  /\ ~scheduled[v]
  /\ \E nc \in ChooseCpu(v), c \in Cpus :
       LET trqd == RQD(nc)
           s0 == [Cur EXCEPT !.migrateRqd[v] = None, !.migrating = @ \ {v}]
           s1 == IF trqd # rqdOf[v] THEN MigrateIn(s0, scheduled, v, trqd, c)
                 ELSE [s0 EXCEPT !.processor[v] = nc]
           s2 == IF runnable[v]
                 THEN InsertAndTickleIn([s1 EXCEPT !.load[s1.rqdOf[v]] = @ + 1], v)
                 ELSE s1
       IN /\ IF trqd # rqdOf[v] THEN c \in Affinity[v] \cap Active(trqd) ELSE c = nc
          /\ Commit(s2)
  /\ UNCHANGED <<runnable, curr, saving, dweight, adjusting, weight, scheduled, delayed, idle>>

-----------------------------------------------------------------------------
(* csched2_dom_cntl(putinfo) with a weight w: under the private lock, set  *)
(* the domain weight, then for each vcpu, under its runqueue lock, copy    *)
(* the weight and update max_weight.  The locks of the runqueues are       *)
(* released between vcpus, so each vcpu is a step of its own.              *)
AdjustWeight(d, w) ==
  /\ adjusting = None
  /\ dweight' = [dweight EXCEPT ![d] = w]
  /\ adjusting' = IF \E v \in Vcpus : DomOf[v] = d
                  THEN [dom |-> d, old |-> dweight[d], todo |-> {v \in Vcpus : DomOf[v] = d}]
                  ELSE None
  /\ UNCHANGED <<runnable, curr, saving, pending, vcpuVars, rqVars>>

AdjustVcpu(v) ==
  /\ adjusting # None
  /\ v \in adjusting.todo
  /\ weight' = [weight EXCEPT ![v] = dweight[adjusting.dom]]
  /\ maxWeight' = [maxWeight EXCEPT ![rqdOf[v]] =
        UpdateMaxWeight(maxWeight, rqdOf[v], dweight[adjusting.dom], adjusting.old,
                        weight', rqdOf)]
  /\ adjusting' = IF adjusting.todo = {v} THEN None
                  ELSE [adjusting EXCEPT !.todo = @ \ {v}]
  /\ UNCHANGED <<runnable, curr, saving, pending, dweight, processor, rqdOf, credit,
                 residual, elapsed, scheduled, delayed, migrateRqd, migrating, runq,
                 idle, tickled, load>>

-----------------------------------------------------------------------------
(* The scheduling handlers, and the toolstack's weight changes.           *)
SchedNext ==
  \/ \E v \in Vcpus : Wake(v) \/ Sleep(v)
  \/ \E c \in Cpus : Tick(c) \/ ContextSaved(c)
  \/ \E v \in Vcpus : VcpuMigrate(v)
  \/ \E c \in Cpus, t \in BOOLEAN : Schedule(c, t)
CntlNext ==
  \/ \E d \in Doms, w \in Weights : AdjustWeight(d, w)
  \/ \E v \in Vcpus : AdjustVcpu(v)

Next == SchedNext \/ CntlNext

Spec == Init /\ [][Next]_vars
(* The scheduler alone, with every weight at DEFAULT_WEIGHT for good.     *)
SchedSpec == Init /\ [][SchedNext]_vars
-----------------------------------------------------------------------------
(* Properties                                                              *)

TypeOK ==
  /\ runnable \in [Vcpus -> BOOLEAN]
  /\ curr \in [Cpus -> Vcpus \cup {Idle}]
  /\ saving \in [Cpus -> Vcpus \cup {None}]
  /\ pending \subseteq Cpus
  /\ processor \in [Vcpus -> Cpus] /\ rqdOf \in [Vcpus -> Rqs]
  /\ credit \in [Vcpus -> CreditFloor..CreditCeil]
  /\ \A v \in Vcpus : residual[v] \in 0..(MaxOf(Weights) - 1)
  /\ elapsed \in [Vcpus -> 0..MaxElapsed]
  /\ weight \in [Vcpus -> Weights] /\ dweight \in [Doms -> Weights]
  /\ scheduled \in [Vcpus -> BOOLEAN] /\ delayed \in [Vcpus -> BOOLEAN]
  /\ migrateRqd \in [Vcpus -> Rqs \cup {None}] /\ migrating \subseteq Vcpus
  /\ runq \in [Rqs -> Seq(Vcpus)]
  /\ maxWeight \in [Rqs -> Nat \ {0}]
  /\ idle \in [Rqs -> SUBSET Cpus] /\ tickled \in [Rqs -> SUBSET Cpus]
  /\ load \in [Rqs -> Int]

BeingSaved(v) == \E c \in Cpus : saving[c] = v

(* The runq holds exactly the vcpus that are runnable and neither running  *)
(* nor being switched away from (CSFLAG_scheduled clear), each once, on    *)
(* the runqueue it is assigned to: wake, sleep, do_schedule and            *)
(* context_saved keep __vcpu_on_runq in step with vcpu_runnable and the    *)
(* scheduled flag however their calls interleave, and balance_load and     *)
(* vcpu_migrate move a queued vcpu from one runq to the other.             *)
RunqMembership ==
  /\ \A r \in Rqs : \A i, j \in 1..Len(runq[r]) :
        i # j => runq[r][i] # runq[r][j]
  /\ \A v \in Vcpus : \A r \in Rqs :
        Contains(runq[r], v) => rqdOf[v] = r
  /\ \A v \in Vcpus : OnRunq(v) <=> (Runnable(v) /\ ~scheduled[v])

(* A vcpu whose context is still being saved gets back on the runq at     *)
(* context_saved whenever it is runnable then: CSFLAG_delayed_runq_add is  *)
(* set (by do_schedule or by a wake that found CSFLAG_scheduled) on every  *)
(* such vcpu that is runnable, only on one that is not blocked (a sleep    *)
(* clears it), and never on a running vcpu.  A vcpu asked to migrate      *)
(* meanwhile is not runnable and is requeued by vcpu_migrate instead.  A   *)
(* wake lost in this window would leave a runnable vcpu off every runq.    *)
DelayedRequeue ==
  \A v \in Vcpus :
    /\ scheduled[v] <=> (IsCurrent(v) \/ BeingSaved(v))
    /\ BeingSaved(v) /\ ~IsCurrent(v) => /\ Runnable(v) => delayed[v]
                                         /\ delayed[v] => runnable[v]
    /\ IsCurrent(v) => ~delayed[v]

(* A vcpu is always assigned to the runqueue of its processor: the        *)
(* BUG_ONs of csched2_vcpu_sleep, csched2_vcpu_wake, context_saved,        *)
(* runq_insert and dom_cntl, which do_schedule's move to another pcpu,     *)
(* migrate's choice of pcpu and csched2_vcpu_migrate must all respect.     *)
ProcessorInRunqueue == \A v \in Vcpus : rqdOf[v] = RQD(processor[v])

(* No vcpu executes on two pcpus, nor is picked while its old pcpu is      *)
(* still saving its context (the is_running BUG() in csched2_schedule).    *)
SingleExecution ==
  \A v \in Vcpus :
    /\ \A c, d \in Cpus : curr[c] = v /\ curr[d] = v => c = d
    /\ ~(BeingSaved(v) /\ \E c \in Cpus : curr[c] = v)

(* The runq is sorted by non-increasing credit: inserts keep it so, and    *)
(* reset_credit, which never re-sorts, shifts every queued vcpu by the     *)
(* same m * CREDIT_INIT before clipping.                                   *)
RunqSorted ==
  \A r \in Rqs : \A i \in 1..(Len(runq[r]) - 1) :
    credit[runq[r][i]] >= credit[runq[r][i + 1]]

(* rqd->load counts the vcpus of the runqueue that are queued, running or *)
(* being switched away from: the +1 of wake and the -1 of sleep and of     *)
(* context_saved balance over every interleaving of the handlers.          *)
Counted(r) ==
  {v \in Vcpus : rqdOf[v] = r /\ (OnRunq(v) \/ IsCurrent(v) \/ BeingSaved(v))}
LoadCount == \A r \in Rqs : load[r] = Cardinality(Counted(r))

(* max_weight is the largest weight of a vcpu assigned to the runqueue (1 *)
(* if none), also between the per-vcpu steps of a weight change, so that  *)
(* t2c_update never scales by a stale maximum.                             *)
MaxWeightExact ==
  \A r \in Rqs :
    maxWeight[r] = MaxOf({1} \cup {weight[v] : v \in {u \in Vcpus : rqdOf[u] = r}})

(* When a pcpu could run a queued vcpu and sits idle, a reschedule is     *)
(* pending on some pcpu of the runqueue that may run it: runq_tickle       *)
(* never leaves a runnable vcpu waiting beside an idle pcpu nobody woke.   *)
IdleNotOverlooked ==
  \A r \in Rqs : \A v \in Vcpus :
    (Contains(runq[r], v)
       /\ \E c \in Active(r) \cap Affinity[v] : curr[c] = Idle /\ saving[c] = None)
    => \E c \in Active(r) \cap Affinity[v] : c \in pending

(* A vcpu is never started by do_schedule with negative credit: when the  *)
(* chosen vcpu is at or below CREDIT_RESET, reset_credit's multiplier     *)
(* lifts it back into the black however far below -CREDIT_INIT it fell.   *)
StartsInTheBlack ==
  [][\A c \in Cpus :
       curr'[c] # Idle /\ credit'[curr'[c]] < 0 => ~\E t \in BOOLEAN : Schedule(c, t)]_vars
=============================================================================
