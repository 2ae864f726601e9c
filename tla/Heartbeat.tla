----------------------------- MODULE Heartbeat -----------------------------
(***************************************************************************)
(* The Remus heartbeat of CPS-Remus: cpsremus_heartbeat_send on the        *)
(* primary writes "h\n" to its stdout and sleeps, in a loop; the stream    *)
(* reaches cpsremus_heartbeat_rcv on the backup as its stdin (over ssh).   *)
(* The receiver selects on stdin with a timeout, reads one byte per        *)
(* wake-up, and fails over when select times out or stdin ends.            *)
(*                                                                         *)
(* Time is discrete (one unit is a millisecond, UNITS in both programs).   *)
(* Every timer counts down in Tick, which only happens when nothing is due *)
(* at the current instant; steps due at the same instant interleave in any *)
(* order, as the two hosts and the kernel's select do.                     *)
(***************************************************************************)
EXTENDS Naturals, Sequences

CONSTANTS
  SenderTimeout,     \* argv[1] of the sender (milliseconds)
  ReceiverTimeout,   \* argv[1] of the receiver (milliseconds)
  Overshoot,    \* bound: how much longer than asked a usleep may sleep
  Latency,      \* bound: delay of a write on its way through ssh
  Version       \* the receiver's release: "4.7" or "4.10"

ASSUME SenderTimeout \in Nat \ {0} /\ ReceiverTimeout \in Nat \ {0}
ASSUME Overshoot \in Nat /\ Latency \in Nat /\ Version \in {"4.7", "4.10"}

VARIABLES
  primary,  \* "up", "crashed" (host gone, stream silent) or "exited" (EOF)
  sPc,      \* sender: "write" (fprintf/fflush due) or "sleep"
  sLeft,    \* sender: time left in usleep
  net,      \* writes in flight, oldest first: [left |-> delay, eof |-> BOOLEAN]
  buf,      \* bytes readable on the receiver's stdin
  eof,      \* end of file readable on the receiver's stdin
  rPc,      \* receiver: "select" (call due), "wait" (in select) or "done"
  rLeft,    \* receiver: time left of the select timeout
  sig,      \* the signal sent to remus_pid, or "none"
  fifo,     \* /tmp/cpsremus_fifo still exists
  arp       \* gratuitous ARPs were sent for the domain's nics

vars == <<primary, sPc, sLeft, net, buf, eof, rPc, rLeft, sig, fifo, arp>>

-----------------------------------------------------------------------------
(* Both loops have started: the receiver has read the pids from the fifo   *)
(* and is about to select, the sender is about to write its first beat.    *)
Init ==
  /\ primary = "up"
  /\ sPc = "write"
  /\ sLeft = 0
  /\ net = <<>>
  /\ buf = 0
  /\ eof = FALSE
  /\ rPc = "select"
  /\ rLeft = 0
  /\ sig = "none"
  /\ fifo = TRUE
  /\ arp = FALSE

(* One pass of the sender loop: fprintf(stdout, "h\n") and fflush put both *)
(* bytes on the stream in one write, then usleep(timeout * UNITS), which   *)
(* sleeps at least as long as asked.  The computed period is not used.     *)
SndWrite ==
  /\ primary = "up" /\ sPc = "write"
  /\ \E d \in 0 .. Latency, o \in 0 .. Overshoot :
       /\ net' = Append(net, [left |-> d, eof |-> FALSE])
       /\ sPc' = "sleep"
       /\ sLeft' = SenderTimeout + o
  /\ UNCHANGED <<primary, buf, eof, rPc, rLeft, sig, fifo, arp>>

SndWake ==
  /\ primary = "up" /\ sPc = "sleep" /\ sLeft = 0
  /\ sPc' = "write"
  /\ UNCHANGED <<primary, sLeft, net, buf, eof, rPc, rLeft, sig, fifo, arp>>

(* Faults of the primary: its host stops (nothing more arrives, no EOF),   *)
(* or the sender dies and ssh closes the stream after what was written.    *)
Crash ==
  /\ primary = "up"
  /\ primary' = "crashed"
  /\ UNCHANGED <<sPc, sLeft, net, buf, eof, rPc, rLeft, sig, fifo, arp>>

Exit ==
  /\ primary = "up"
  /\ primary' = "exited"
  /\ \E d \in 0 .. Latency : net' = Append(net, [left |-> d, eof |-> TRUE])
  /\ UNCHANGED <<sPc, sLeft, buf, eof, rPc, rLeft, sig, fifo, arp>>

(* The oldest write in flight arrives; the stream keeps its order.         *)
Deliver ==
  /\ net # <<>> /\ Head(net).left = 0
  /\ IF Head(net).eof THEN eof' = TRUE /\ UNCHANGED buf
                      ELSE buf' = buf + 2 /\ UNCHANGED eof
  /\ net' = Tail(net)
  /\ UNCHANGED <<primary, sPc, sLeft, rPc, rLeft, sig, fifo, arp>>

-----------------------------------------------------------------------------
(* The receiver loop.  select(1, &rdfs, NULL, NULL, &tv) with tv set to    *)
(* timeout: it returns at once when stdin is readable, else it waits.      *)
Readable == buf > 0 \/ eof

(* select returned 1: read(0, &hb, 1) takes one byte, or returns 0 at the  *)
(* end of the stream, which ends the do-while loop.                        *)
RcvReadIn == IF buf > 0 THEN buf' = buf - 1 /\ rPc' = "select"
                        ELSE rPc' = "done" /\ UNCHANGED buf

(* 4.7: after the loop, kill(remus_pid, SIGTERM).                          *)
RcvEof47 ==
  /\ sig' = "SIGTERM"
  /\ UNCHANGED <<fifo, arp>>

(* 4.10: after the loop, kill(remus_pid, SIGTERM), remove the fifo, then   *)
(* libxl_device_nic_list(ctx, ...) with the global ctx, which is never    *)
(* allocated and so NULL: the ARPs are sent or the call fails.             *)
RcvEof410 ==
  /\ sig' = "SIGTERM"
  /\ fifo' = FALSE
  /\ arp' \in BOOLEAN

RcvSelect ==
  /\ rPc = "select"
  /\ IF Readable
     THEN /\ RcvReadIn
          /\ IF buf = 0 THEN IF Version = "4.7" THEN RcvEof47 ELSE RcvEof410
                        ELSE UNCHANGED <<sig, fifo, arp>>
          /\ UNCHANGED rLeft
     ELSE /\ rPc' = "wait" /\ rLeft' = ReceiverTimeout
          /\ UNCHANGED <<buf, sig, fifo, arp>>
  /\ UNCHANGED <<primary, sPc, sLeft, net, eof>>

(* Data arrived while select waited: it returns 1 and the byte is read.    *)
RcvWake ==
  /\ rPc = "wait" /\ Readable
  /\ RcvReadIn
  /\ IF buf = 0 THEN IF Version = "4.7" THEN RcvEof47 ELSE RcvEof410
                ELSE UNCHANGED <<sig, fifo, arp>>
  /\ UNCHANGED <<primary, sPc, sLeft, net, eof, rLeft>>

(* select returned 0: 4.7 sends SIGUSR1 to the save helper and returns;    *)
(* 4.10 sends SIGTERM to the ssh process, removes the fifo and returns     *)
(* before the gratuitous ARPs.                                             *)
RcvTimeout47 ==
  /\ sig' = "SIGUSR1"
  /\ UNCHANGED <<fifo, arp>>
RcvTimeout410 ==
  /\ sig' = "SIGTERM"
  /\ fifo' = FALSE
  /\ UNCHANGED arp

SelectTimeout ==
  /\ rPc = "wait" /\ rLeft = 0 /\ ~Readable
  /\ rPc' = "done"
  /\ IF Version = "4.7" THEN RcvTimeout47 ELSE RcvTimeout410
  /\ UNCHANGED <<primary, sPc, sLeft, net, buf, eof, rLeft>>

-----------------------------------------------------------------------------
(* One time unit passes, when no step is due at the current instant.       *)
Due ==
  \/ primary = "up" /\ (sPc = "write" \/ sLeft = 0)
  \/ net # <<>> /\ Head(net).left = 0
  \/ rPc = "select"
  \/ rPc = "wait" /\ (Readable \/ rLeft = 0)

Dec(n) == IF n > 0 THEN n - 1 ELSE 0

Tick ==
  /\ ~Due
  /\ rPc # "done"
  /\ sLeft' = Dec(sLeft)
  /\ net' = [i \in DOMAIN net |-> [net[i] EXCEPT !.left = Dec(@)]]
  /\ rLeft' = Dec(rLeft)
  /\ UNCHANGED <<primary, sPc, buf, eof, rPc, sig, fifo, arp>>

Next ==
  \/ SndWrite \/ SndWake \/ Crash \/ Exit \/ Deliver
  \/ RcvSelect \/ RcvWake \/ SelectTimeout
  \/ Tick

Spec == Init /\ [][Next]_vars

-----------------------------------------------------------------------------
(* Properties                                                              *)

TypeOK ==
  /\ primary \in {"up", "crashed", "exited"}
  /\ sPc \in {"write", "sleep"} /\ sLeft \in 0 .. SenderTimeout + Overshoot
  /\ net \in Seq([left : 0 .. Latency, eof : BOOLEAN])
  /\ buf \in Nat /\ eof \in BOOLEAN
  /\ rPc \in {"select", "wait", "done"} /\ rLeft \in 0 .. ReceiverTimeout
  /\ sig \in {"none", "SIGUSR1", "SIGTERM"} /\ fifo \in BOOLEAN /\ arp \in BOOLEAN

(* The receiver fails over only when the primary has failed: as long as   *)
(* the sender keeps beating, no timeout of select and no end of the       *)
(* stream makes the receiver signal remus_pid.                             *)
NoFalseFailover == sig # "none" => primary # "up"
====
