---------------------------- MODULE VmEventSlots ----------------------------
(***************************************************************************)
(* What the vm_event ring promises its producers, without the ring: a     *)
(* producer reserves a slot while the slots in use and the slots reserved  *)
(* leave one free, puts exactly one request with the slot it reserved (or  *)
(* gives the reservation back), and the requests are completed in the      *)
(* order they were put, unless the ring is torn down and its requests     *)
(* dropped.  VmEvent is shown to implement it.                             *)
(***************************************************************************)
EXTENDS Naturals, Sequences

CONSTANTS
  RING_SIZE,  \* the number of slots
  Producers   \* everyone who may put a request

VARIABLES
  used,      \* the producers of the requests put and not yet completed, oldest first
  reserved,  \* the number of slots reserved
  holders    \* the producers holding a reservation

slotVars == <<used, reserved, holders>>

Init ==
  /\ used = <<>>
  /\ reserved = 0
  /\ holders = {}

Reserve(p) ==
  /\ p \notin holders
  /\ Len(used) + reserved < RING_SIZE
  /\ reserved' = reserved + 1
  /\ holders' = holders \cup {p}
  /\ UNCHANGED used

Put(p) ==
  /\ p \in holders
  /\ used' = Append(used, p)
  /\ reserved' = reserved - 1
  /\ holders' = holders \ {p}

Cancel(p) ==
  /\ p \in holders
  /\ reserved' = reserved - 1
  /\ holders' = holders \ {p}
  /\ UNCHANGED used

Complete ==
  /\ used # <<>>
  /\ used' = Tail(used)
  /\ UNCHANGED <<reserved, holders>>

(* The ring is torn down: the requests in it are dropped, the             *)
(* reservations outstanding stay with their holders.                      *)
Discard ==
  /\ used' = <<>>
  /\ UNCHANGED <<reserved, holders>>

Next ==
  \/ \E p \in Producers : Reserve(p) \/ Put(p) \/ Cancel(p)
  \/ Complete
  \/ Discard

Spec == Init /\ [][Next]_slotVars
====
