------------------------------ MODULE RtpFifo ------------------------------
(***************************************************************************)
(* What the RTP queue promises its callers: a bounded FIFO of packets.     *)
(* A packet is the heap copy that holds it and the size recorded for it.   *)
(* The queue is filled by enqueueRtp, emptied from the other end by        *)
(* dequeueRtp or by a discard, and replaced by an empty one when the       *)
(* controller is destroyed.  RtpQueue is shown to implement this module.   *)
(***************************************************************************)
EXTENDS Integers, Sequences

CONSTANTS Capacity,     \* the most packets the queue holds
          Packet        \* the packets, [size, packet]

VARIABLES fifo,         \* the packets waiting, the oldest first
          sent          \* the packets handed to the transmitter, latest only

vars == <<fifo, sent>>

Nothing == <<>>

Init == fifo = <<>> /\ sent = Nothing

(* A packet enters at the back, only while there is room for it. *)
Put(p) == /\ Len(fifo) < Capacity
          /\ fifo' = Append(fifo, p)
          /\ sent' = sent

(* The oldest packet leaves for the network. *)
Take == /\ fifo # <<>>
        /\ sent' = <<Head(fifo)>>
        /\ fifo' = Tail(fifo)

(* A transmitter that finds nothing to send is told so. *)
TakeNothing == /\ fifo = <<>>
               /\ sent' = Nothing
               /\ fifo' = fifo

(* The oldest packet is discarded. *)
Discard == /\ fifo # <<>>
           /\ fifo' = Tail(fifo)
           /\ sent' = sent

(* The queue goes away with the controller, and what it held with it. *)
Reset == fifo' = <<>> /\ sent' = Nothing

Next == (\E p \in Packet : Put(p)) \/ Take \/ TakeNothing \/ Discard \/ Reset

Spec == Init /\ [][Next]_vars
=============================================================================
