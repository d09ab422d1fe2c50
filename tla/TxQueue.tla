--------------------------------- MODULE TxQueue --------------------------------
(* What a transmit ring promises the network stack: a packet that was accepted  *)
(* is let go of once, in the order of acceptance, and only after the hardware   *)
(* has sent it - or with all others, when the device goes down.                 *)
EXTENDS Naturals, Sequences

CONSTANT Source

VARIABLES
  queue,   \* the packets that are in, by where they come from
  sent     \* how many of them the hardware has sent

Init == queue = <<>> /\ sent = 0

Accept ==
  /\ \E d \in Source : queue' = Append(queue, d)
  /\ UNCHANGED sent

Send == sent < Len(queue) /\ sent' = sent + 1 /\ UNCHANGED queue

Release == sent > 0 /\ queue' = Tail(queue) /\ sent' = sent - 1

Discard == queue' = <<>> /\ sent' = 0

Next == Accept \/ Send \/ Release \/ Discard

Safe == Init /\ [][Next]_<<queue, sent>>

Spec == Safe /\ WF_<<queue, sent>>(Release)
=================================================================================
