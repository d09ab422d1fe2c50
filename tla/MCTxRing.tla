-------------------------------- MODULE MCTxRing --------------------------------
(* The ring as the stack sees it, and the instances TLC checks. *)
EXTENDS TxRing, Sequences, TLC

Filled == Dist(After(last_free, 1), next_free)

(* The packets between two descriptors, in the order of the ring.               *)
Packets(from, n) ==
  SelectSeq([k \in 1 .. n |-> buf[After(from, k)]], LAMBDA b : b \notin {"none", "frag"})

Queue == INSTANCE TxQueue WITH
  Source <- Devs,
  queue  <- IF Live THEN Packets(last_free, Filled) ELSE <<>>,
  sent   <- IF Live THEN Len(Packets(last_free, Ahead(drx))) ELSE 0

(* Whatever the devices, the poll and the hardware do at the same time, the     *)
(* ring is a queue: no packet is lost, freed twice, freed before it was sent or *)
(* overtaken, and one that was sent is freed in the end.                        *)
IsTxQueue == Queue!Spec

Symmetry == Permutations(Devs)
=================================================================================
