# TLA+ models of the cps-xen scheduler and tools

This directory holds TLA+ models of the code under `src/`. The TLC configurations
check them. `PROJECT.json` lists every component, run, mutant, mapped
definition, finding and hazard.

## 1. The system

The repository carries a few modified or added files of several Xen
releases. They form four separate parts that do not share state.

| Part | Source | What it does |
|---|---|---|
| Credit2 scheduler | `xen-4.7.0/xen/common/sched_credit2.c` | The SMP credit scheduler: one runqueue per group of pcpus, credit accounting, wake/tickle, the per-pcpu scheduling decision, load tracking and balancing, and pcpu topology. |
| Fixed-priority scheduler | `xen-4.7.0/.../sched_fp.c`, an older copy in 4.5.0, and the libxc wrapper `xen-4.1.4/tools/libxc/xc_fp.c` | An RM/DM/FP real-time scheduler with per-vcpu budgets. |
| vm_event ring | `xen-4.7.0/xen/common/vm_event.c` | A shared request/response ring between a guest and a monitor. Ring slots are reserved, and a guest vcpu is paused when the ring is full. |
| Remus heartbeat | `cpsremus_heartbeat_send.c` (4.5.0), `cpsremus_heartbeat_rcv.c` (4.7.0, 4.10.0) | The primary prints a beat periodically. The backup fails over when `select` times out. |

Also present, and not modelled: `viridian.c`, `xen-livepatch.c`,
`dt-uart.c` and the headers (see section 6).

### 1.1 Credit2: state, operations, interactions

Credit2 keeps its state at three levels:

- **Per runqueue** (`struct csched2_runqueue_data`):
  - `runq`, sorted by credit;
  - `svc`, the assigned vcpus;
  - the `active`, `idle` and `tickled` masks;
  - `max_weight`;
  - the instantaneous `load`, and the `avgload`/`b_avgload` averages.
- **Per vcpu** (`struct csched2_vcpu`):
  - `credit`, `residual`, `start_time` and `weight`;
  - `rqd`, `migrate_rqd`;
  - the flags `scheduled`, `delayed_runq_add` and `runq_migrate_request`.
- **Per domain**: `weight`.

The private structure holds `runq_map` and `active_queues` under `prv->lock`.

The operations are the hooks the generic scheduler (`schedule.c`, not in this
repository) calls:

- `vcpu_wake`, `vcpu_sleep`, `context_saved`;
- `do_schedule`, which calls `runq_candidate`, `burn_credits`, `reset_credit` and `balance_load`;
- `cpu_pick` and `choose_cpu`, `vcpu_migrate` and `migrate`;
- `dom_cntl`;
- `vcpu_insert` and `vcpu_remove`;
- `init_pdata`, `deinit_pdata` and `switch_sched`.

How they interact:

- Every hook runs under the lock of the runqueue of the pcpu it concerns. The pcpus run their hooks concurrently, so the interleavings are between the hooks of different pcpus.
- A wake queues the vcpu and tickles a pcpu: it sets the pcpu's tickled bit and raises a `SCHEDULE_SOFTIRQ` on it.
- A pcpu running do_schedule may pick a vcpu that another pcpu has just switched away from. The `scheduled` flag, held until `context_saved`, prevents this. A wake in that window sets `delayed_runq_add`, and `context_saved` honours it.
- `dom_cntl` holds `prv->lock`. It then takes each runqueue lock in turn, one vcpu at a time.
- `balance_load` and `choose_cpu` take locks with trylocks and give up on contention.

The hard behaviours are:

- the wake / do_schedule / context_saved window;
- tickles racing with wakes onto the same pcpu;
- credit arithmetic at the reset boundary;
- weight changes interleaved with scheduling;
- trylock failures in balancing, and migration requests completed later.

The properties the source and `spec.md` state:

- the runq is sorted;
- the runq holds exactly the runnable, unscheduled vcpus;
- no vcpu runs on two pcpus, or is picked while it is still running (`BUG()` in do_schedule);
- the load counter is exact;
- `max_weight` is the maximum weight;
- a vcpu's processor belongs to its runqueue (the `BUG_ON`s of sleep, wake, context_saved and runq_insert);
- a reset brings the chosen vcpu back into the black;
- an idle pcpu is favoured by tickling (spec §4.3);
- the balancer converges (spec §8).

### 1.2 The fixed-priority scheduler: state, operations, interactions

`sched_fp.c` keeps one sorted run queue per pcpu, a doubly linked list of
`fp_vcpu`s. The sort key comes from the global strategy:

- RM sorts by period;
- DM sorts by deadline;
- FP sorts by priority, descending.

Every vcpu carries a period, deadline, slice, priority, `cputime`,
`period_next` and its `position` in the queue.

- `fp_vcpu_wake` inserts a vcpu in order and runs the strategy's prio
  handler. Under RM/DM the handler sets the domain's priority from the mean
  position of its vcpus.
- `fp_sleep` unlinks the vcpu, unless it is current, in which case it only
  raises the softirq.
- `fp_do_schedule` charges the current vcpu's time and runs `update_queue`,
  which gives back `cputime` once `period_next` has passed. It then picks the
  first queued vcpu that is runnable and within its slice, and re-arms itself
  after 10 us.
- `fp_adjust` (domctl) writes a domain's parameters. `fp_adjust_global`
  (sysctl) switches the strategy through `fp_sched_set`. Both then call
  `fp_sched_set_vm_prio` for the domains, which re-inserts each vcpu and
  re-runs the handler. Neither takes a lock, so the scheduling hooks on every
  pcpu run between the re-insertions.
- `fp_pick_cpu` chooses the pcpu for `vcpu_migrate` after an affinity change.

4.5 differs:

- `fp_adjust` re-sorts only its own domain;
- `fp_adjust_global` re-sorts dom0 too, and `fp_sched_set_vm_prio` re-inserts
  dom0's vcpus;
- under RM/DM a vcpu is re-inserted before the handler runs;
- `pick_cpu` chooses by `vcpu_id`;
- an `awake` flag is set by wake, cleared by sleep, and tested by do_schedule.

### 1.3 The vm_event ring: state, operations, interactions

`vm_event.c` connects a target domain to a helper in another domain
through one shared page. The page is a ring of request and response slots.
Each `vm_event_domain` holds:

- the ring page and the front ring (`req_prod_pvt`, `rsp_cons`);
- `target_producers` and `foreign_producers`, the slots already claimed;
- `blocked`, the number of vcpus paused by `vm_event_mark_and_pause`;
- `last_vcpu_wake_up`;
- the wait queue `wq`.

Each vcpu has a pause flag and a `vm_event_pause_count`.

- A target vcpu that traps (`vm_event_monitor_traps`) claims a slot. If the
  ring is full it sleeps on `wq` and retries until a slot is free. It then
  puts its request, pausing itself first when the event is synchronous.
  `put_request` releases the claim, kicks the waiters, and flags and pauses
  the vcpu if fewer slots are free than the domain has vcpus.
- Foreign producers (other domains, for paging and sharing) claim without
  waiting. They put without pausing, or cancel.
- The helper answers every request in its slot. `vm_event_resume` takes
  the answers one by one. Each `get_response` kicks the waiters, and a
  response flagged `VCPU_PAUSED` unpauses its vcpu.
- `vm_event_wake` wakes up to `avail` waiters from the wait queue. When the
  queue is empty it unpauses flagged vcpus instead, round-robin, while fewer
  vcpus are online than slots are free.
- The domctl enables the ring, disables it (under `domain_pause` of the
  target), or resumes.

Every function runs under the ring lock. The vcpus of the target and of
other domains, the helper and the domctl run concurrently.

## 2. Modules and how they map to the code

### `Credit2.tla`: the Credit2 core, balancing and migration

**State.** The VARIABLES mirror the structures above:

- `processor`, `rqdOf`, `credit`, `residual`, `weight`, `scheduled` and `delayed` are the per-vcpu state;
- `runq`, `maxWeight`, `idle`, `tickled` and `load` are the per-runqueue state;
- `dweight` is the domain weight;
- `adjusting` is a `dom_cntl` loop in progress;
- `migrateRqd` is `migrate_rqd` while `runq_migrate_request` is set (else `None`).

Five variables stand for the generic scheduler's state:

- `runnable` is the vcpu's own runnability and `migrating` is `_VPF_migrating`; `Runnable(v)` (`vcpu_runnable`) is both together;
- `curr` is `curr_on_cpu`;
- `saving` is the vcpu whose `context_saved` is still due on a pcpu;
- `pending` is the set of pcpus with `SCHEDULE_SOFTIRQ` raised.

Time is `elapsed[v] = now - start_time`.

**Actions.** Each action models a whole hook under its lock:

- `Wake` is `csched2_vcpu_wake`, including `runq_insert` and `runq_tickle` (`InsertAndTickle`).
- `Sleep` is `csched2_vcpu_sleep`.
- `Schedule(cpu, tasklet)` is `csched2_schedule`:
  - burn, `runq_candidate`, delayed flag, runq removal, reset, idle mask;
  - on a reset, `reset_credit` then `balance_load`;
  - migration compensation;
  - followed by the framework's context switch.
- `VcpuMigrate` is the framework's `vcpu_migrate` for a vcpu whose move `migrate` left pending: `csched2_cpu_pick` (`ChooseCpu`), `_VPF_migrating` cleared, `csched2_vcpu_migrate`, and the closing wake.
- `ContextSaved` is `csched2_context_saved`.
- `AdjustWeight` and `AdjustVcpu` are `csched2_dom_cntl`: one step under `prv->lock`, then one step per vcpu under its runqueue lock.
- `Tick` lets time pass on a busy pcpu.

**Operators.** The pure helpers are operators. The steps of a handler
that call one another (`do_schedule` calling `balance_load` calling
`migrate` calling `runq_insert` and `runq_tickle`) are operators from a
record of the state (`Cur`) to a record, and `Commit` makes the result the
next state:

- `RunqInsert` (`__runq_insert`);
- `BurnIn` (`burn_credits`, `t2c_update`);
- `MigrateIn` (`migrate`, with `__runq_deassign`/`__runq_assign`), `Migrateable` (`vcpu_is_migrateable`);
- `BalanceLoad` (`balance_load`): the set of states it may leave;
- `ChooseCpu` (`choose_cpu`) and `GetFallbackCpu` (`get_fallback_cpu`);
- `ResetCredit` and `ResetMultiplier` (`reset_credit`);
- `UpdateMaxWeight`;
- `Candidate` (`runq_candidate`);
- `TickleTarget` (the three steps of `runq_tickle`).

**Spec definitions.**

- `Spec` includes the weight changes.
- `SchedSpec` is the scheduler alone, with every weight at its default.

**Abstractions.**

- Only the instantaneous `rqd->load` is kept. The decayed averages feed only the balancer and `choose_cpu`.
- Credit units are small integers. `CREDIT_INIT` is a handful of units, not 10 ms in ns.
- The idle vcpu's credit is `IDLE_CREDIT`, below any reachable credit.
- `balance_load` picks its runqueue and its push, pull or swap by the decaying load averages, which are not modelled: `BalanceLoad` may take any eligible move, or none (a failed trylock, or loads within tolerance). It drops the private lock before its moves (`sched_credit2.c:1393`), so moves interleave with a `dom_cntl` that is part-way through its vcpus; each of the two takes the runqueue locks the other needs per vcpu. Balancer convergence (spec §8) is not checked, since it depends on the load averages.
- `choose_cpu` returns the fallback when the private trylock fails (always while `dom_cntl` holds it), a pcpu of the requested runqueue, or any pcpu of the affinity (the choice by load average). `cpumask_any` is any member.
- `vcpu_migrate` takes the old and new pcpu locks after `context_saved` dropped its own, so it is a step of its own.
- The per-vcpu loop of `dom_cntl` takes the vcpus in any order. The code takes them in vcpu-id order, so the model allows more orders than the code.

`Schedule` and `InsertAndTickle` bind the burned state, the chosen vcpu
and the handler's resulting record with `\E x \in {e}`. TLC then computes
each of them once per step: with coverage on, it re-evaluates a LET
definition at every use.

### `MC_Credit2.tla`

`MC_Credit2.tla` gives the constants:

- two pcpus on one runqueue (`MCRunqMap`), or on two (`MCRunqMapSplit`);
- vcpus as model values;
- `v3` pinned to pcpu 1;
- a symmetry set over `v1` and `v2`, which no definition tells apart.

### `SchedFP.tla`: sched_fp.c of 4.7

The state is:

- the generic scheduler's view: `blocked`, `migrating`, `affinity`, `curr`
  and `processor`, with `Runnable(v)` = not blocked and not migrating;
- the scheduler's per-vcpu fields;
- `runq`, a sequence per pcpu;
- `strategy`, and `dprio`, the domains' priorities;
- time: `left` = `period_next - now` in quanta (10 us or more, fixed by the
  instance's times), saturated at -1, and
  `elapsed[c]`, the time since pcpu c last scheduled (0 or 1);
- `todo`, the `fp_sched_set_vm_prio` calls an adjust still has to make, one
  record per vcpu.

The actions and the code they model:

| Action | Code |
|---|---|
| `Wake`/`FpWake` | `vcpu_wake` → `fp_vcpu_wake`: early returns if current or on any queue; `__runq_insert`, renumbering and the prio handler |
| `Sleep`/`FpSleep` | `vcpu_sleep_nosync` → `fp_sleep` |
| `DoSchedule(c, tasklet)` | `fp_do_schedule` with `update_queue` (`Replenish`) |
| `Tick` | the passing of one quantum; it requires every pcpu to have scheduled since the last one |
| `SetAffinity`, `Migrate` | `vcpu_set_affinity` (migrating flag, sleep hook), and `vcpu_migrate` with `fp_pick_cpu` and the wake hook |
| `Adjust(d, op)` | `fp_adjust`: the parameter writes (`AdjustParams`), then the calls for d and for every other domain, queued in `todo` |
| `AdjustGlobal(get, s)` | `fp_adjust_global` with `fp_sched_set` (an invalid strategy is refused, and the re-sort still runs) |
| `VmPrioStep` | one vcpu of `fp_sched_set_vm_prio`: prio handler, then `fp_reinsertsort_vcpu` |

The two adjusts are atomic in their parameter writes. Their re-insertions
are separate steps, and one adjust runs at a time (`todo = <<>>` guards
them). Scheduling hooks interleave freely with those steps, as the missing
lock allows.

`OrderSpec`, `MigrateSpec` and `TimeSpec` are sub-specifications. Each
leaves out the actions its question does not need, so that the state space
stays within reach:

- `OrderSpec` has no time and no affinity;
- `MigrateSpec` has no time and no control;
- `TimeSpec` has no control and no affinity.

### `SchedFP45.tla`: sched_fp.c of 4.5

It extends `SchedFP` with the variable `awake` and redefines what 4.5 does
differently (section 1.2): `Wake45`, `Sleep45`, `DoSchedule45`,
`Block45` (the generic `vcpu_block`, which runs no hook and so leaves
`awake` set),
`PickCpu45`/`Migrate45`, `Adjust45`, `AdjustGlobal45` and `VmPrioStep45`.
Under RM/DM, `VmPrioStep45` re-inserts with the old priorities and then runs
the handler on the new positions. Under FP it runs the handler first.

The sub-specifications are:

- `StrategySpec45`: scheduling and `fp_adjust_global`;
- `MigrateSpec45`: scheduling and affinity changes;
- `StrategyMigrateSpec45`: both together, the spec the 4.5 run checks on
  two pcpus;
- `AdjustSpec45`: `StrategySpec45` plus `fp_adjust`.

### `MC_SchedFP.tla`, `MC_SchedFP45.tla`

The instances use:

- for the order and migration runs, period 2 and slice 1 for every vcpu
  (no time passes in them, so the values only order the vcpus);
- for `fp_time`, the code's defaults (`sched_fp.c:64-69`) in 100 us
  quanta: slice 5 of period 10 for guests, 9 of 10 for dom0;
- adjust operations for period 3, deadline 1 and priority 5
  (`MCOrderAdjustOps`, for `fp_order`, is period 3 alone);
- masks of one pcpu each.

Where an instance leaves dom0's vcpu out of `Vcpus`, it models the
behaviours in which that vcpu stays paused: it is then on no queue, since
only wake inserts a dom0 vcpu (`fp_sched_set_vm_prio` returns before
re-inserting it).

`MCRmView` drops `position`, `priority` and `dprio`. It is used only where
the strategy stays RM, the runs without `fp_adjust_global`. There those
fields are written by the handler and read by nothing but the handler, so
states that differ only in them have the same futures.

### `VmEvent.tla`: vm_event.c of 4.7

**State.**

- `ring`: the ring page exists.
- `req` and `rsp`: the slots in use. Together they are the
  `req_prod_pvt - rsp_cons` slots that `RING_FREE_REQUESTS` counts. `req`
  holds the requests the helper has not taken; `rsp` holds its answers, not
  yet taken by Xen.
- `tprod`, `fprod`, `blocked`, `last` and `wq`: the fields of
  `vm_event_domain`.
- `flag` and `pcount`: each vcpu's pause flag and `vm_event_pause_count`.
- `pc` and `fpc`: where each target and foreign vcpu is in its trap.

**Actions.** Each action is one function, or one locked step of a function:

- `ClaimSlot`, `WaitCheck` and `WaitRetry`: the claim, the wait_event
  re-check with the vcpu linked on `wq`, and the retry after a wake.
- `PutRequest`: the synchronous pause, the put, the release with its wake,
  and mark_and_pause.
- `CancelSlot`.
- `ForeignClaim`, `ForeignPut` and `ForeignCancel`.
- `Resume`: one `get_response` with its wake, and the unpause.
- `Disable` and `Enable`.

`HelperRespond` is the environment. The helper is not part of this
repository, and is modelled as answering in order and echoing
`VCPU_PAUSED`. `Wake`, `WakeQueued`, `WakeBlocked` and the recursive
`WakeBlockedLoop` translate the wake functions. The loop is the `for`
loop over vcpu ids, starting after `last_vcpu_wake_up`.

**Sub-specifications.**

- `Spec`: everything but the domctl.
- `ControlSpec`: adds disable and enable.
- `ControlFairSpec`: `ControlSpec` with the fairness of the steps a vcpu
  takes inside the hypervisor and of the helper (see Fairness below).

### `VmEventSlots.tla`: the abstract reservation ring

A producer reserves a slot while the used and reserved slots leave one
free. It puts exactly one request with its reservation, or gives the
reservation back. Requests complete in the order they were put. When the
ring is torn down (`Discard`) the requests in it are dropped and the
reservations outstanding stay with their holders.

`VmEvent` maps onto it as follows:

- `used` is `rsp \o req`;
- `reserved` is `tprod + fprod`;
- `holders` are the target vcpus and foreign producers between their
  claim and their put.

The property `SlotsRefined` is `Slots!Spec`.

### `MC_VmEvent.tla`

Declares the foreign vcpus `f1` and `f2` as model values (the run uses `f1`). The cfgs choose
`N`, `RING_SIZE` and `Foreign`.

### `Heartbeat.tla`: the Remus heartbeat (sender 4.5, receivers 4.7 and 4.10)

The sender runs on the primary. Its stdout reaches the receiver on the
backup as stdin, through ssh. Time is discrete: one unit is a millisecond,
`UNITS` in both programs. `Tick` advances every timer by one unit, and only
when no step is due at the current instant. Steps due at the same instant
interleave in any order, as the two hosts do.

**State.**

- `primary`: up, crashed (silent, no EOF) or exited (EOF after what was written).
- `sPc` and `sLeft`: the sender loop, and the time left in `usleep`.
- `net`: writes in flight through ssh, each with its remaining delay and
  whether it is the end of the stream.
- `buf` and `eof`: what the receiver's stdin has readable.
- `rPc` and `rLeft`: the receiver loop (select due, in select, returned),
  and the time left of the select timeout.
- `sig`, `fifo` and `arp`: the signal sent to `remus_pid`, whether
  `/tmp/cpsremus_fifo` still exists, and whether the gratuitous ARPs went out.

**Actions.**

- `SndWrite`: one pass of the sender loop. `fprintf`/`fflush` put `h\n` on
  the stream with a delay up to `Latency`. Then `usleep(timeout*UNITS)`
  sleeps the timeout plus an overshoot up to `Overshoot`. The period
  computed at line 19 is not used, as in the code.
- `SndWake`: the sleep ends.
- `RcvSelect`: select is called. It returns 1 at once when stdin is
  readable; `RcvReadIn` then reads one byte, or 0 at end of stream, which
  ends the do-while loop. Otherwise the receiver waits `ReceiverTimeout`.
- `RcvWake`: data arrives during the wait.
- `SelectTimeout`: select returns 0. The 4.7 receiver sends `SIGUSR1`
  (`RcvTimeout47`). The 4.10 receiver sends `SIGTERM` to ssh and removes the
  fifo (`RcvTimeout410`), and returns before the ARPs.
- End of stream: 4.7 sends `SIGTERM` (`RcvEof47`). 4.10 also removes the
  fifo and calls `libxl_device_nic_list` with the global `ctx`, which is
  never allocated (`RcvEof410`). Whether the ARPs go out is a free choice.
- `Crash`, `Exit` and `Deliver` are the environment: the primary's faults
  and the ssh stream, which keeps the order of writes.

`Init` is the state after both programs' start-up. The receiver has read
the pids from the fifo; `parse_pids` only decides which process is signalled.

### `MC_Heartbeat.tla`

Extends `Heartbeat`. Its cfg gives both programs the same timeout.

## 3. Runs

### 3.1 Credit2

| Run | Config | Checks | Result |
|---|---|---|---|
| `credit2_core` | `MC_Credit2.cfg` | TypeOK, RunqMembership, DelayedRequeue, SingleExecution, RunqSorted, LoadCount, StartsInTheBlack | pass: 420,130 distinct states, about 2.5 min with coverage |
| `credit2_balance` | `MC_Credit2_Balance.cfg` | MaxWeightExact, RunqSorted, LoadCount, RunqMembership, ProcessorInRunqueue | pass: 256,366 distinct states, under 1 min |
| `credit2_idle_tickle` | `MC_Credit2_Tickle.cfg` | IdleNotOverlooked | violation in 3 steps (finding below) |

What the properties say:

- **RunqMembership**: the runq holds each runnable, unscheduled vcpu exactly once, on its own runqueue, and nothing else.
- **DelayedRequeue**:
  - `scheduled` holds exactly while a vcpu runs or is being saved;
  - a vcpu being saved and no longer current carries the delayed flag if it is runnable (and not migrating), and only if it is runnable;
  - a running vcpu never carries the flag.
- **SingleExecution**: a vcpu never runs on two pcpus, and is never picked while its old pcpu still saves it.
- **LoadCount**: `load` equals the number of queued, running or being-saved vcpus.
- **RunqSorted**: the runq is ordered by credit. This must survive reset clipping and migration compensation.
- **StartsInTheBlack** (an action property): do_schedule never starts a vcpu with negative credit.
- **MaxWeightExact**: `max_weight` equals the largest assigned weight after every step of a weight change and every migration.
- **ProcessorInRunqueue**: every vcpu's `processor` is a pcpu of the runqueue it is assigned to, whatever the balancer, a pending migrate request, `choose_cpu`'s fallback and the wakes and sleeps in between do. The code asserts this with `BUG_ON` in sleep, wake, context_saved, runq_insert and dom_cntl.

**Finding (credit2_idle_tickle).** Step (a) of `runq_tickle` targets the
waking vcpu's own pcpu whenever that pcpu's current vcpu has lower credit. The idle vcpu
always has lower credit. So two vcpus waking onto the same idle pcpu both tickle that
pcpu, and the other idle pcpu stays asleep. The second vcpu then waits until a busy pcpu's
slice ends. Spec §4.3 says tickling favours an idle, not-yet-tickled pcpu.

**Bounds.**

- Two pcpus are the fewest that allow interleaving and migration.
- Three vcpus allow two queued beside a running one. The pinned one exercises the affinity and resistance filters.
- Credits with `CREDIT_INIT = 1` and a floor of −2 reach both sides of the reset boundary (m = 1 at −1, m = 3 at −2).
- `CreditCeil = 3` is a named bound on credit, a cut of the state space and not code: `Schedule` takes no step that would raise a credit above it. Credit has no upper bound in the code, because the +1 migration compensation (`sched_credit2.c:1905`) can repeat with no burn in between. At 3 a compensated vcpu can stand one above the reset clip of `CREDIT_INIT + CARRYOVER_MAX`, the case `RunqSorted` and `StartsInTheBlack` must handle; a second compensation is cut off. TypeOK's upper bound on credit holds by this guard.
- `MaxElapsed = 1` bounds unburned time. The floor is kept against the largest possible burn, so a weight change cannot push credit below it.
- The balance run splits the two pcpus into two runqueues, the fewest that let `balance_load` and `migrate` move a vcpu. Two vcpus of one domain, free to run anywhere, give a push, a pull and a swap. Weights {1, 2} make burns leave a residual and a migration change `max_weight`. `CREDIT_INIT = 1` and a floor of −1 keep resets, and so balancing, frequent while the run stays under the time limit.

**Mutants.** Each property has a mutant, a plausible bug that TLC finds under
the run's own cfg:

- a burn that does not restart the start time;
- a sleep that leaves the vcpu queued;
- a context_saved that keeps the delayed flag, or forgets the load −1;
- a wake without the `scheduled` test;
- tail insertion;
- a reset multiplier of 1;
- a `max_weight` that is never recomputed downwards;
- a `migrate` that does not move the load, or does not move `processor`;
- a `vcpu_migrate` without its closing wake.

**Fairness.** There is none yet, and no liveness property is checked. The
slice timer and the softirq give do_schedule weak fairness on every busy
pcpu. Without a model of
time, eventual service would only hold under assumptions the code does not
make.

**Deadlock.** It is checked. Every state can take a step: a vcpu can always
wake or sleep.

### 3.2 The fixed-priority scheduler

| Run | Config | Checks | Result |
|---|---|---|---|
| `fp_order` | `MC_SchedFP.cfg` | TypeOK, GuestsSorted | pass: 895,608 distinct states, about 3 min with coverage |
| `fp_dom0_order` | `MC_SchedFP_Dom0.cfg` | RunqSorted | violation in 6 states |
| `fp_migrate_double_run` | `MC_SchedFP_Migrate.cfg` | SingleExecution | violation in 10 states |
| `fp_time` | `MC_SchedFP_Time.cfg` | EventuallyRuns | pass: 154,200 distinct states, about 1.5 min |
| `fp45_strategy_affinity` | `MC_SchedFP45_Affinity.cfg` | TypeOK45, RunqSorted, QueuedOnce, RunnableIsAwake | pass: 229,526 distinct states, about 30 s |
| `fp45_adjust_guests` | `MC_SchedFP45_Adjust.cfg` | GuestsSorted | violation in 7 states |

What the properties say:

- **RunqSorted**, **GuestsSorted**: once no re-insertion is pending, every
  queue is in the order of the current compare. GuestsSorted restricts this
  to the guests' vcpus.
- **QueuedOnce**: no vcpu is on two queues.
- **SingleExecution**: no vcpu is current on two pcpus.
- **RunnableIsAwake** (4.5): every runnable vcpu has the awake flag, so
  `fp_do_schedule` never passes one over for it. The converse does not hold
  and is not claimed: `vcpu_block` leaves the flag set on a blocked vcpu,
  which the `vcpu_runnable` test then skips.
- **EventuallyRuns**: a vcpu that stays runnable runs, on a pcpu whose
  vcpus' slices fit in a period.

**Findings.**

1. *dom0 out of order (4.7, `sched_fp.c:472`).* `fp_sched_set_vm_prio`
   returns early for dom0, so dom0 is never re-sorted. The guests are
   re-sorted around it, after a period change or a switch from RM to FP.
2. *A vcpu run twice after an affinity change (4.7, `sched_fp.c:802`).*
   - `fp_sleep` leaves a current vcpu on the old pcpu's queue.
   - After `vcpu_migrate`, `fp_vcpu_wake` returns early because the vcpu is
     on a queue, so the old pcpu keeps running it outside its affinity.
   - A sleep tested against the new pcpu unlinks it, and a wake queues it on
     the new pcpu. Both pcpus now run it.
3. *4.5 fp_adjust unsorts the guests (4.5, `sched_fp.c:824`).*
   - Only the adjusted domain is re-inserted, one vcpu at a time, against a
     sibling that is still in its old place.
   - With two vcpus in domain 1 and a period change, both vcpus land ahead
     of domain 2's shorter period.
   - 4.7 repairs this by re-inserting every other domain afterwards.

   Both releases keep guest order in `fp_order` and `fp45_strategy_affinity`, even
   with wakes landing between the re-insertions.

**Bounds.**

- One pcpu suffices for order. `fp_order` has guest domain 1 with the
  sibling vcpus 2 and 3 and guest domain 2 with vcpu 4, so an adjust of
  domain 1 re-inserts a vcpu against its sibling and then the other
  domain, with wakes, sleeps and schedules in between. dom0's vcpu is left
  out (see above): GuestsSorted ignores it, and with it the run takes over
  10 minutes. `fp_dom0_order` has dom0's vcpu and two sibling guest vcpus.
- Two pcpus are the least that let a vcpu change queue.
  `fp45_strategy_affinity` (`StrategyMigrateSpec45`: strategy switches,
  prio-handler steps and affinity changes together) uses two vcpus, one of
  dom0 and one guest, and the masks {1} and {0, 1}. Every vcpu starts on
  pcpu 0, and in the wide mask pick_cpu's choice by `vcpu_id` differs
  between the vcpus. A third vcpu puts this beyond the time limit.
- The 4.7 `SetAffinity` is checked through `SetAffinity45`, which calls
  it; the 4.7 `Migrate` is exercised by `fp_migrate_double_run`.
- In 4.5 the migration trace of finding 2 exists as well: the vcpu left
  on the old pcpu's queue runs there outside its new affinity.
- `fp_time` checks the pcpu of the two sibling guests with the default
  slice 500 us of period 1000 us, in 100 us quanta. `TimeSpec` has no
  affinity change and each pcpu schedules its own queue only, so the pcpus
  of a machine are independent and one is checked alone. The guests' two
  slices (10 quanta) fit in the 11 quanta between replenishments (the
  replenishment needs `now > period_next`); at 10 us quanta they fit in
  100 of 101, so the coarser quantum does not create the room. dom0's
  default 900 us on the same pcpu would not fit: a fixed-priority
  scheduler then starves the last vcpu, which is not a fault of the code,
  so no run places dom0 with the guests.
- The adjust values 3 and 1 move a domain to either side of the others.

**Fairness.** `TimeSpec` assumes weak fairness of `Tick` and of every
pcpu's `DoSchedule(c, FALSE)`. The 10 us timer (`ret.time`,
`sched_fp.c:983`) re-arms do_schedule on every pcpu, and time passes. It
assumes no tasklet work, which could otherwise hold a pcpu idle forever.

**Deadlock.** It is checked. A vcpu can always wake or sleep.

**Mutants.**

- `fp_order`: an unlink that removes nothing; tail insertion.
- `fp_time`: `update_queue` not resetting cputime.
- `fp45_strategy_affinity`: a re-insert without `__remove_from_queue`;
  tail insertion; a wake that tests only its own queue; awake set after the
  early returns.

### 3.3 The vm_event ring

| Run | Config | Checks | Result |
|---|---|---|---|
| `vm_event_ring` | `MC_VmEvent.cfg` | TypeOK, ReservationsFit, BlockedCount, SlotsRefined, VcpuProgressOnceQuiet | pass: 67,848 distinct states, under a minute |
| `vm_event_disable_race` | `MC_VmEvent_DisableRace.cfg` | NoRequestWithoutRing | violation in 3 steps |

What the properties say:

- **ReservationsFit**: the used slots plus the claimed ones never exceed
  the ring. So the put after every claim finds a slot (the `ASSERT` in
  `put_request`), and `vm_event_ring_available` never trips its `BUG_ON`.
- **BlockedCount**: `ved->blocked` equals the number of flagged vcpus. This
  is the `ASSERT` in `wake_blocked`. It must survive mark_and_pause, the
  round-robin wake, disable and re-enable.
- **VcpuProgress**: every vcpu that traps is eventually running again. Its
  wait for a slot ends, its flag is cleared, and its synchronous pause is
  released.
- **VcpuProgressOnceQuiet**: VcpuProgress in every behaviour in which the
  ring stays enabled and, from some point on, no foreign producer claims
  and no vcpu cancels. Everything else (traps, puts, the helper, resume)
  goes on. It is checked with the safety properties on the same run,
  under `ControlFairSpec`.
- **SlotsRefined**: the ring implements `VmEventSlots`. Each put spends the
  putter's own reservation, the counters match the claims held, and
  requests are consumed in order.
- **NoRequestWithoutRing**: nothing is put on a ring that has been
  destroyed.

**Findings.**

4. *A foreign put after disable (`vm_event.c:296`).*
   - `vm_event_disable` excludes only the target's vcpus (`domain_pause`).
   - A foreign producer that claimed a slot before the disable still runs
     `put_request`. `put_request` does not check `ring_page`, and writes
     through the stale front ring.

**A vcpu paused on an empty ring (`vm_event.c:163`).** `put_request`
flags the vcpu whenever fewer slots than vcpus are free, and `wake_blocked`
unpauses one only while fewer vcpus are online than slots are free. With 3
vcpus and 2 slots the last flagged vcpu stays paused on an empty ring until
another vcpu traps. This is the design (a vcpu is flagged only when the
ring may not take one event from each vcpu), so the progress property is checked for
`N <= RING_SIZE` and the case is recorded as a hazard.

**A disable leaves vcpus paused (`vm_event.c:232`).** `vm_event_disable`
frees the ring with the synchronous requests in it. The vcpus those
requests paused through `vm_event_vcpu_pause` are never unpaused, since no
response for them can come. This is why the progress property assumes
`[]ring`: TLC finds the vcpu stuck as soon as disable is allowed with a
request outstanding. It is recorded as a partial-failure hazard.

**Bounds.**

- `vm_event_ring` runs `ControlSpec` (every trap, foreign and helper step,
  plus enable and disable) and its fairness, with 3 vcpus, 3 slots and one foreign producer, so:
  - the ring can be full of claims from both kinds of producer;
  - the wait queue can hold several vcpus;
  - `wake_blocked` can stop part-way round its loop (it stops once the
    online vcpus reach the free slots, which claims outstanding make fewer
    than 3);
  - disable can meet claims of foreign producers still outstanding;
  - every put flags its vcpu (`N = RING_SIZE`), the case where progress
    depends on `wake_blocked`.

  A second foreign producer gives 252,234 states and a liveness check of
  about three minutes; it reaches no case one producer does not.
- The state is finite without further bounds:
  - each vcpu has at most one event in flight;
  - the ring bounds the queues.

**Fairness.** `ControlFairSpec` assumes weak fairness of the steps a vcpu takes
inside the hypervisor: the wait-queue re-check and retry, and the put.
Once in the hypervisor a vcpu runs to the end, and a woken vcpu is runnable.
It also assumes weak fairness of the helper's answer and of `Resume`, which
the event-channel notification triggers. Nothing obliges a guest to trap,
or a foreign domain to claim, nor the toolstack to disable or enable.

The progress property holds once foreign claims and target cancels stop.
Without that premise TLC finds starvation: the other producers take every
freed slot. That needs an unbounded stream of claims, and it is inherent
in the design, since a foreign claim never waits (hazard at
`vm_event.c:449`).

**Deadlock.** It is checked. A vcpu can always trap, or the helper or
resume can act.

**Mutants.**

- `vm_event_ring`:
  - a `finish_wait` that leaves the vcpu linked on the queue;
  - an `avail` that ignores the reservations;
  - a `wake_blocked` that does not decrement `blocked`;
  - a `cancel_slot` that does not release the slot (SlotsRefined);
  - `wake_blocked` stopping one vcpu early (VcpuProgressOnceQuiet).

### 3.4 The Remus heartbeat

| Run | Config | Checks | Result |
|---|---|---|---|
| `heartbeat_false_failover` | `MC_Heartbeat.cfg` | NoFalseFailover | violation in 9 states |

- **NoFalseFailover**: the receiver signals `remus_pid` only after the
  primary has crashed or exited.

**Finding (`cpsremus_heartbeat_send.c:24`).** `PERCENTAGE` is documented as
"percentage of timeout to be used as period for heartbeat signal". Line 19
computes that period, but the loop sleeps `usleep(timeout*UNITS)`.

- Both programs are given the same timeout, as `PERCENTAGE` presumes.
- The next beat is then due at the very instant the receiver's select
  expires.
- TLC's trace has no overshoot and no latency:
  - the first beat is read (`h`, `\n`);
  - select waits 2 units;
  - the sender wakes at the same instant as the timeout, and the timeout
    is taken first;
  - the 4.7 receiver sends `SIGUSR1` (failover) while the primary is alive.
- Any `usleep` overshoot or ssh delay makes the failover certain.

**Bounds.**

- Both timeouts are 2, the overshoot is 1, and the latency is 1. Two units
  let the receiver read a whole beat before it waits.
- The deadlock check is off: the receiver returns after a failover, and
  the model then stops with it.
- The 4.10 receiver is selected by `Version = "4.10"`. It has the same race,
  with `SIGTERM` to ssh in place of `SIGUSR1`.

## 4. Plan for the remaining work

In order:

1. **Credit2 balancing and migration**, done in `Credit2` (`credit2_balance`) except for what needs the load averages:
   - the balancer strictly reduces the imbalance (with Credit2Load).

   Liveness: a queued vcpu is eventually run, under weak fairness of do_schedule on busy pcpus and of softirqs.
2. **Credit2Load.** The fixed-point decayed averages of `__update_runq_load` and `__update_svc_load`, with 64-bit wrap, checked against a reference formula over bounded inputs.
3. **CreditMath.** `t2c_update`/`c2t`, round-trip within a residual unit (spec §8), and the clamp of `csched2_runtime`, checked against reference definitions.
4. **An abstract runqueue.** A set of runnable vcpus with one running vcpu per pcpu. `Credit2` is shown to refine it through INSTANCE ... WITH.
5. **Credit2Topology.** `init_pdata`/`deinit_pdata`, `cpu_to_runqueue`, activate/deactivate of runqueues, and vcpus whose migration target disappears.
6. **SchedFP**, done for both releases, except the hooks listed in section 6. Still open: the three unlocked stores of `fp_sched_set`, and an abstract priority queue that `SchedFP` refines.
7. **VmEvent**, done (sections 1.3, 2 and 3.3), except `vm_event_cleanup` and the payload handlers (section 6).
8. **Heartbeat**, done (`Heartbeat.tla`, sections 2 and 3.4). Still open: a passing run where the sender beats at the period it computes, which needs a run of its own.

## 5. Hazards

`PROJECT.json` lists the hazards at their source lines, with the properties
that cover them. Those not yet covered note the module planned for them.

## 6. Not modelled

- `viridian.c` (MSR emulation of per-domain pages);
- `xen-livepatch.c` (a command-line tool);
- `dt-uart.c` (boot-time parsing);
- `xc_fp.c` (hypercall marshalling);
- the headers;
- in the heartbeat programs: the argument checks, `mkfifo`/`open` of the fifo, `parse_pids`, and the logging (they run once, before the loops, and only fix which process is signalled);
- in `vm_event.c`: `vm_event_cleanup` at domain destruction (the domain is already paused and dying), the failure paths of `vm_event_enable` (page mapping and event channel allocation), the XSM and domctl argument checks, and the payload handlers of `vm_event_resume` (register writes, mem_access, paging, altp2m, single-step), which act on guest state the ring does not depend on;
- in `sched_fp.c`: `fp_insert_vcpu`, `fp_vcpu_remove`, `fp_switch_sched`, the alloc/free/init hooks beyond the initial state (every vcpu exists from the start), the statistics fields, `fp_get_wcload_on_cpu`, the heap leak of the adjusts, and list-level races of the unlocked re-insertions (section 5).

None of them has concurrent or long-lived state that a model checker would add to what a test shows.
