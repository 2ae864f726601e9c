------------------------------- MODULE VmEvent -------------------------------
(***************************************************************************)
(* The vm_event ring of one target domain (src/xen-4.7.0/xen/common/       *)
(* vm_event.c): the shared request/response ring between Xen and a helper  *)
(* in another domain, the slot reservations of target and foreign          *)
(* producers, the last-chance wait queue of target vcpus that found no     *)
(* slot, and the `blocked' vcpus paused on their way out of                *)
(* vm_event_put_request when the ring is nearly full.                      *)
(*                                                                         *)
(* Every function that takes the ring lock is one atomic action.  A target *)
(* vcpu's trip through vm_event_monitor_traps is split where another       *)
(* actor can act in between: the claim, the re-check of a vcpu on the wait *)
(* queue, and the put.  The ring itself is two queues: requests the helper *)
(* has not yet answered, and responses Xen has not yet consumed; together  *)
(* they are the req_prod_pvt - rsp_cons slots RING_FREE_REQUESTS counts as  *)
(* used.  Requests are records of a vcpu and the VCPU_PAUSED flag; the      *)
(* register contents and the reason are left out.                          *)
(***************************************************************************)
EXTENDS Integers, Sequences, FiniteSets, SequencesExt

CONSTANTS
  N,          \* d->max_vcpus of the target domain
  RING_SIZE,  \* the number of slots of the ring page
  Foreign     \* vcpus of other domains that put requests (mem_paging, mem_sharing)

ASSUME N \in Nat \ {0} /\ RING_SIZE \in Nat \ {0}

Vcpus == 0 .. N - 1

VARIABLES
  ring,     \* ved->ring_page # NULL
  req,      \* requests put and not yet taken by the helper
  rsp,      \* responses of the helper not yet taken by vm_event_get_response
  tprod,    \* ved->target_producers: slots claimed by target vcpus
  fprod,    \* ved->foreign_producers: slots claimed by foreign vcpus
  blocked,  \* ved->blocked
  flag,     \* the target vcpus with ved->pause_flag set in pause_flags
  wq,       \* ved->wq: the vcpus linked on the wait queue, in list order
  last,     \* ved->last_vcpu_wake_up
  pc,       \* where each target vcpu is in vm_event_monitor_traps
  pcount,   \* v->vm_event_pause_count
  fpc       \* whether each foreign vcpu holds a claimed slot

vars == <<ring, req, rsp, tprod, fprod, blocked, flag, wq, last, pc, pcount, fpc>>

Init ==
  /\ ring = TRUE
  /\ req = <<>>
  /\ rsp = <<>>
  /\ tprod = 0
  /\ fprod = 0
  /\ blocked = 0
  /\ flag = {}
  /\ wq = <<>>
  /\ last = 0
  /\ pc = [v \in Vcpus |-> "run"]
  /\ pcount = [v \in Vcpus |-> 0]
  /\ fpc = [f \in Foreign |-> "idle"]

-----------------------------------------------------------------------------
(* Ring accounting and the wake-ups                                        *)

(* Variant: only RING_FREE_REQUESTS, the reservations not subtracted.     *)
AvailableFree(rq, rs, tp, fp) == RING_SIZE - (Len(rq) + Len(rs))

(* vm_event_ring_available: RING_FREE_REQUESTS less the claimed slots.     *)
Available(rq, rs, tp, fp) == RING_SIZE - (Len(rq) + Len(rs)) - tp - fp

Avail == Available(req, rsp, tprod, fprod)

(* A vcpu is kept from running by vm_event: flagged blocked, or paused for *)
(* a synchronous event.                                                    *)
Runnable(v) == v \notin flag /\ pcount[v] = 0

Unlinked(v) == SelectSeq(wq, LAMBDA u : u # v)

(* The for loop of vm_event_wake_blocked, from vcpu i on, j vcpus scanned. *)
RECURSIVE WakeBlockedLoop(_, _, _, _)
WakeBlockedLoop(i, j, avail, s) ==
  IF j >= N \/ s.blocked = 0 \/ s.online >= avail THEN s
  ELSE WakeBlockedLoop(i + 1, j + 1, avail,
         IF i % N \in s.flag
         THEN [s EXCEPT !.flag = @ \ {i % N}, !.online = @ + 1,
                        !.blocked = @ - 1, !.last = i % N]
         ELSE s)

(* Variant: the unpaused vcpus are not taken off ved->blocked.           *)
WakeBlockedNoCount(avail) ==
  IF avail <= 0 \/ blocked = 0
  THEN [wq |-> wq, flag |-> flag, blocked |-> blocked, last |-> last]
  ELSE LET s == WakeBlockedLoop(last + 1, 0, avail,
                  [flag |-> flag, blocked |-> blocked,
                   online |-> N - Cardinality(flag), last |-> last])
       IN [wq |-> wq, flag |-> s.flag, blocked |-> blocked, last |-> s.last]

(* Variant: the loop stops one vcpu early (online + 1 >= avail_req).      *)
WakeBlockedOffByOne(avail) ==
  IF avail <= 0 \/ blocked = 0
  THEN [wq |-> wq, flag |-> flag, blocked |-> blocked, last |-> last]
  ELSE LET s == WakeBlockedLoop(last + 1, 0, avail - 1,
                  [flag |-> flag, blocked |-> blocked,
                   online |-> N - Cardinality(flag), last |-> last])
       IN [wq |-> wq, flag |-> s.flag, blocked |-> s.blocked, last |-> s.last]

(* vm_event_wake_blocked: unpause flagged vcpus, round-robin after the last *)
(* one woken, while fewer vcpus are online than there are free slots.      *)
WakeBlocked(avail) ==
  IF avail <= 0 \/ blocked = 0
  THEN [wq |-> wq, flag |-> flag, blocked |-> blocked, last |-> last]
  ELSE LET s == WakeBlockedLoop(last + 1, 0, avail,
                  [flag |-> flag, blocked |-> blocked,
                   online |-> N - Cardinality(flag), last |-> last])
       IN [wq |-> wq, flag |-> s.flag, blocked |-> s.blocked, last |-> s.last]

(* vm_event_wake_queued: wake_up_nr(&ved->wq, avail) unlinks and unpauses  *)
(* the first avail waiters.                                                *)
WakeQueued(avail) ==
  [wq |-> IF avail > 0
          THEN SubSeq(wq, IF avail < Len(wq) THEN avail + 1 ELSE Len(wq) + 1, Len(wq))
          ELSE wq,
   flag |-> flag, blocked |-> blocked, last |-> last]

(* vm_event_wake: the wait queue first, the blocked vcpus only when it is  *)
(* empty.                                                                  *)
Wake(avail) == IF wq # <<>> THEN WakeQueued(avail) ELSE WakeBlocked(avail)

SetWake(w) == wq' = w.wq /\ flag' = w.flag /\ blocked' = w.blocked /\ last' = w.last

(* vm_event_vcpu_unpause: the pause count is never taken below zero.       *)
VcpuUnpause(v) == IF pcount[v] = 0 THEN pcount ELSE [pcount EXCEPT ![v] = @ - 1]

-----------------------------------------------------------------------------
(* Target vcpus: vm_event_monitor_traps                                    *)

(* vm_event_claim_slot from a target vcpu (allow_sleep): the first         *)
(* vm_event_grab_slot of wait_event, and if the ring is full               *)
(* prepare_to_wait links the vcpu on ved->wq and pauses it.  With no ring  *)
(* the trap returns at once and nothing changes.                           *)
ClaimSlot(v) ==
  /\ pc[v] = "run"
  /\ Runnable(v)
  /\ ring
  /\ IF Avail > 0
     THEN tprod' = tprod + 1 /\ pc' = [pc EXCEPT ![v] = "claimed"] /\ UNCHANGED wq
     ELSE wq' = Append(wq, v) /\ pc' = [pc EXCEPT ![v] = "check"] /\ UNCHANGED tprod
  /\ UNCHANGED <<ring, req, rsp, fprod, blocked, flag, last, pcount, fpc>>

(* Variant: the vcpu that got its slot is left linked on the wait queue.  *)
WaitCheckNoUnlink(v) ==
  /\ pc[v] = "check"
  /\ \/ /\ ~ring
        /\ wq' = Unlinked(v)
        /\ pc' = [pc EXCEPT ![v] = "run"]
        /\ UNCHANGED tprod
     \/ /\ ring /\ Avail > 0
        /\ tprod' = tprod + 1
        /\ pc' = [pc EXCEPT ![v] = "claimed"]
        /\ UNCHANGED wq
     \/ /\ ring /\ Avail <= 0
        /\ pc' = [pc EXCEPT ![v] = "wait"]
        /\ UNCHANGED <<tprod, wq>>
  /\ UNCHANGED <<ring, req, rsp, fprod, blocked, flag, last, pcount, fpc>>

(* The condition of wait_event evaluated with the vcpu linked: grab_slot   *)
(* succeeds (finish_wait unlinks it), finds no ring (-ENOSYS ends the      *)
(* wait, and the trap), or fails and the vcpu sleeps in wait() until       *)
(* wake_up_nr unlinks it.                                                  *)
WaitCheck(v) ==
  /\ pc[v] = "check"
  /\ \/ /\ ~ring
        /\ wq' = Unlinked(v)
        /\ pc' = [pc EXCEPT ![v] = "run"]
        /\ UNCHANGED tprod
     \/ /\ ring /\ Avail > 0
        /\ tprod' = tprod + 1
        /\ wq' = Unlinked(v)
        /\ pc' = [pc EXCEPT ![v] = "claimed"]
     \/ /\ ring /\ Avail <= 0
        /\ pc' = [pc EXCEPT ![v] = "wait"]
        /\ UNCHANGED <<tprod, wq>>
  /\ UNCHANGED <<ring, req, rsp, fprod, blocked, flag, last, pcount, fpc>>

(* A vcpu woken from wait() (no longer linked) goes round the wait_event   *)
(* loop: prepare_to_wait links it at the tail again.                       *)
WaitRetry(v) ==
  /\ pc[v] = "wait"
  /\ v \notin Range(wq)
  /\ wq' = Append(wq, v)
  /\ pc' = [pc EXCEPT ![v] = "check"]
  /\ UNCHANGED <<ring, req, rsp, tprod, fprod, blocked, flag, last, pcount, fpc>>

(* vm_event_mark_and_pause: test_and_set of the pause flag.                *)
MarkAndPause(w, v) ==
  IF v \in w.flag THEN w ELSE [w EXCEPT !.flag = @ \cup {v}, !.blocked = @ + 1]

(* The rest of vm_event_monitor_traps: a synchronous event pauses the vcpu *)
(* (vm_event_vcpu_pause); vm_event_put_request copies the request, releases *)
(* the slot (vm_event_release_slot, which kicks the waiters), and then      *)
(* flags and pauses the vcpu if fewer slots are left than the domain has    *)
(* vcpus.                                                                   *)
PutRequest(v, sync) ==
  LET rq == Append(req, [vc |-> v, sync |-> sync])
      av == Available(rq, rsp, tprod - 1, fprod)
      w == Wake(av)
  IN /\ pc[v] = "claimed"
     /\ req' = rq
     /\ tprod' = tprod - 1
     /\ SetWake(IF av < N THEN MarkAndPause(w, v) ELSE w)
     /\ pcount' = IF sync THEN [pcount EXCEPT ![v] = @ + 1] ELSE pcount
     /\ pc' = [pc EXCEPT ![v] = "run"]
     /\ UNCHANGED <<ring, rsp, fprod, fpc>>

(* Variant: vm_event_cancel_slot that does not give the slot back.        *)
CancelSlotLeak(v) ==
  /\ pc[v] = "claimed"
  /\ SetWake(Wake(Available(req, rsp, tprod - 1, fprod)))
  /\ pc' = [pc EXCEPT ![v] = "run"]
  /\ UNCHANGED <<ring, req, rsp, tprod, fprod, pcount, fpc>>

(* vm_event_cancel_slot from a target vcpu: the claimed slot is released.  *)
CancelSlot(v) ==
  /\ pc[v] = "claimed"
  /\ tprod' = tprod - 1
  /\ SetWake(Wake(Available(req, rsp, tprod - 1, fprod)))
  /\ pc' = [pc EXCEPT ![v] = "run"]
  /\ UNCHANGED <<ring, req, rsp, fprod, pcount, fpc>>

-----------------------------------------------------------------------------
(* Foreign producers: vm_event_grab_slot(ved, 1), put and cancel           *)

ForeignClaim(f) ==
  /\ fpc[f] = "idle"
  /\ ring
  /\ Avail > 0
  /\ fprod' = fprod + 1
  /\ fpc' = [fpc EXCEPT ![f] = "claimed"]
  /\ UNCHANGED <<ring, req, rsp, tprod, blocked, flag, wq, last, pc, pcount>>

(* vm_event_put_request from another domain: VM_EVENT_FLAG_FOREIGN, no     *)
(* pause of the caller, and no check that the ring is still there.         *)
ForeignPut(f) ==
  LET rq == Append(req, [vc |-> f, sync |-> FALSE])
  IN /\ fpc[f] = "claimed"
     /\ req' = rq
     /\ fprod' = fprod - 1
     /\ SetWake(Wake(Available(rq, rsp, tprod, fprod - 1)))
     /\ fpc' = [fpc EXCEPT ![f] = "idle"]
     /\ UNCHANGED <<ring, rsp, tprod, pc, pcount>>

ForeignCancel(f) ==
  /\ fpc[f] = "claimed"
  /\ fprod' = fprod - 1
  /\ SetWake(Wake(Available(req, rsp, tprod, fprod - 1)))
  /\ fpc' = [fpc EXCEPT ![f] = "idle"]
  /\ UNCHANGED <<ring, req, rsp, tprod, pc, pcount>>

-----------------------------------------------------------------------------
(* The helper and vm_event_resume                                          *)

(* The helper (not part of this repository) takes the oldest request and  *)
(* answers it in the same slot, echoing VM_EVENT_FLAG_VCPU_PAUSED.        *)
HelperRespond ==
  /\ ring
  /\ req # <<>>
  /\ req' = Tail(req)
  /\ rsp' = Append(rsp, [vc |-> Head(req).vc, paused |-> Head(req).sync])
  /\ UNCHANGED <<ring, tprod, fprod, blocked, flag, wq, last, pc, pcount, fpc>>

(* One iteration of vm_event_resume: vm_event_get_response takes the      *)
(* oldest response and kicks the waiters under the ring lock; a response  *)
(* for a valid vcpu id with VCPU_PAUSED then unpauses that vcpu.          *)
Resume ==
  LET r == Head(rsp)
  IN /\ ring
     /\ rsp # <<>>
     /\ rsp' = Tail(rsp)
     /\ SetWake(Wake(Available(req, Tail(rsp), tprod, fprod)))
     /\ pcount' = IF r.paused /\ r.vc \in Vcpus THEN VcpuUnpause(r.vc) ELSE pcount
     /\ UNCHANGED <<ring, req, tprod, fprod, pc, fpc>>

-----------------------------------------------------------------------------
(* The domctl: XEN_VM_EVENT_ENABLE and XEN_VM_EVENT_DISABLE               *)

(* vm_event_disable under domain_pause(d): no target vcpu is inside the   *)
(* hypervisor between its claim and its put; with vcpus on the wait queue *)
(* it returns -EBUSY, else every flagged vcpu is unpaused and the ring     *)
(* page destroyed.  The producer counts and the vm_event pause counts are  *)
(* left as they are.                                                       *)
Disable ==
  /\ ring
  /\ \A v \in Vcpus : pc[v] \in {"run", "wait"}
  /\ wq = <<>>
  /\ ring' = FALSE
  /\ req' = <<>>
  /\ rsp' = <<>>
  /\ flag' = {}
  /\ blocked' = blocked - Cardinality(flag)
  /\ UNCHANGED <<tprod, fprod, wq, last, pc, pcount, fpc>>

(* vm_event_enable: a fresh ring (FRONT_RING_INIT), ved->blocked = 0 and   *)
(* an empty wait queue (init_waitqueue_head).                              *)
Enable ==
  /\ ~ring
  /\ ring' = TRUE
  /\ req' = <<>>
  /\ rsp' = <<>>
  /\ blocked' = 0
  /\ wq' = <<>>
  /\ UNCHANGED <<tprod, fprod, flag, last, pc, pcount, fpc>>

-----------------------------------------------------------------------------
TargetNext(v) ==
  \/ ClaimSlot(v)
  \/ WaitCheck(v)
  \/ WaitRetry(v)
  \/ \E sync \in BOOLEAN : PutRequest(v, sync)
  \/ CancelSlot(v)

ForeignNext(f) == ForeignClaim(f) \/ ForeignPut(f) \/ ForeignCancel(f)

Next ==
  \/ \E v \in Vcpus : TargetNext(v)
  \/ \E f \in Foreign : ForeignNext(f)
  \/ HelperRespond
  \/ Resume

Spec == Init /\ [][Next]_vars

(* The same with the ring disabled and enabled again by the toolstack.     *)
ControlNext == Next \/ Disable \/ Enable
ControlSpec == Init /\ [][ControlNext]_vars

(* A vcpu inside the hypervisor runs on (its wait-queue retries, its put   *)
(* once it holds a slot); the helper answers and Xen consumes the answers  *)
(* once notified.  The guest is never obliged to trap, nor a foreign       *)
(* domain to claim.                                                        *)
Fairness ==
  /\ \A v \in Vcpus : /\ WF_vars(WaitCheck(v))
                      /\ WF_vars(WaitRetry(v))
                      /\ WF_vars(\E sync \in BOOLEAN : PutRequest(v, sync))
  /\ \A f \in Foreign : WF_vars(ForeignPut(f) \/ ForeignCancel(f))
  /\ WF_vars(HelperRespond)
  /\ WF_vars(Resume)

(* Every handler, under Fairness: the toolstack, foreign domains and the *)
(* paging paths are not obliged to act, nor to stop acting.              *)
ControlFairSpec == Init /\ [][ControlNext]_vars /\ Fairness

(* The steps of other parties that take a target vcpu's slot away from   *)
(* it: a foreign claim and a cancelled claim.                              *)
Interference ==
  \/ \E f \in Foreign : ForeignClaim(f)
  \/ \E v \in Vcpus : CancelSlot(v)

-----------------------------------------------------------------------------
(* Properties                                                              *)

TypeOK ==
  /\ ring \in BOOLEAN
  /\ req \in Seq([vc : Vcpus \cup Foreign, sync : BOOLEAN])
  /\ rsp \in Seq([vc : Vcpus \cup Foreign, paused : BOOLEAN])
  /\ tprod \in 0 .. N
  /\ fprod \in 0 .. Cardinality(Foreign)
  /\ flag \subseteq Vcpus
  /\ blocked \in Nat
  /\ IsInjective(wq) /\ Range(wq) \subseteq Vcpus
  /\ last \in Vcpus
  /\ pc \in [Vcpus -> {"run", "check", "wait", "claimed"}]
  /\ pcount \in [Vcpus -> 0 .. 1]
  /\ fpc \in [Foreign -> {"idle", "claimed"}]

(* The reservations: the slots in use and the slots claimed by target and  *)
(* foreign producers never exceed the ring, so the put that follows every  *)
(* claim finds a free slot (ASSERT(free_req > 0) in vm_event_put_request)  *)
(* and vm_event_ring_available never goes negative (its BUG_ON).           *)
ReservationsFit ==
  ring => Len(req) + Len(rsp) + tprod + fprod <= RING_SIZE

(* ved->blocked counts exactly the vcpus whose pause flag is set, as the   *)
(* ASSERT(online == d->max_vcpus - ved->blocked) of vm_event_wake_blocked  *)
(* requires, through mark_and_pause, the round-robin wake, disable and a   *)
(* later enable.                                                           *)
BlockedCount == blocked = Cardinality(flag)

(* Every target vcpu that traps into vm_event comes out again and runs:    *)
(* a vcpu waiting for a slot gets one (no lost wake-up on the wait queue), *)
(* a vcpu flagged on its way out of put_request is unpaused by             *)
(* wake_blocked, and a vcpu paused for a synchronous event is unpaused by  *)
(* the response.                                                           *)
VcpuProgress ==
  \A v \in Vcpus : ~(pc[v] = "run" /\ Runnable(v)) ~> (pc[v] = "run" /\ Runnable(v))

(* Every target vcpu that traps comes out again and runs, as in          *)
(* VcpuProgress, in every behaviour without vm_event_disable in which      *)
(* foreign claims and cancelled claims eventually stop: whatever they did  *)
(* before, the wait queue, mark_and_pause and wake_blocked leave no vcpu   *)
(* behind.  (A disable discards the synchronous requests on the ring, and  *)
(* the vcpus they paused stay paused: vm_event_disable unpauses only the   *)
(* vcpus flagged by mark_and_pause.)                                       *)
VcpuProgressOnceQuiet ==
  ([]ring /\ <>[][~Interference]_vars) => VcpuProgress

(* A request is only ever put on a ring that exists: once                  *)
(* vm_event_disable has destroyed the ring page nothing is written to it.  *)
NoRequestWithoutRing == ~ring => req = <<>>

(* The ring implements VmEventSlots: the oldest responses and then the     *)
(* oldest requests are the slots in use, the producer counters are the     *)
(* reservations, and the vcpus between claim and put hold them.  The       *)
(* helper's answer, every failed claim or wait-queue step and enable are   *)
(* stuttering steps of the abstract ring, and disable discards the ring.  *)
Slots == INSTANCE VmEventSlots
           WITH Producers <- Vcpus \cup Foreign,
                used <- [i \in 1 .. Len(rsp \o req) |-> (rsp \o req)[i].vc],
                reserved <- tprod + fprod,
                holders <- {v \in Vcpus : pc[v] = "claimed"} \cup
                           {f \in Foreign : fpc[f] = "claimed"}

(* The reservation protocol as code implements it, across every           *)
(* interleaving of target vcpus, foreign producers, the helper and         *)
(* vm_event_resume: a put always spends its producer's own reservation,    *)
(* the counters never drift from the claims held, and the requests are     *)
(* consumed in the order they were put.                                    *)
SlotsRefined == Slots!Spec
====
