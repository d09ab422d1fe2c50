------------------------------- MODULE DipFilter -------------------------------
(* The destination filter of the packet classification engine (pce/dipfilter.c): *)
(* packets to the addresses in it are handed to the classifier.  An address has  *)
(* one entry, which counts its users.  The functions hold dip_hw.lock from their *)
(* first line to their last, so a call is one step.                              *)
EXTENDS Naturals

CONSTANT Addresses   \* the local addresses of the tunnels

VARIABLES
  refs,     \* the users of each address' entry; 0: it has none
  dipLock   \* a call has returned and left dip_hw.lock locked

filter == <<refs, dipLock>>

InitFilter == refs = [a \in Addresses |-> 0] /\ dipLock = FALSE

(* mtk_pce_dipfilter_entry_add, and when it fails: the table is full or cannot   *)
(* be written                                                                    *)
AddEntry(a) ==
  /\ ~dipLock
  /\ refs' = [refs EXCEPT ![a] = @ + 1]
  /\ UNCHANGED dipLock

AddFails(a) == ~dipLock /\ refs[a] = 0 /\ UNCHANGED filter

FaultyDelEntry(a) ==
  /\ ~dipLock
  /\ refs' = [refs EXCEPT ![a] = IF @ = 0 THEN 0 ELSE @ - 1]
  /\ dipLock' = (refs[a] = 1)

(* mtk_pce_dipfilter_entry_del.  While the entry has other users it returns from *)
(* between spin_lock_irqsave and the label unlock.                               *)
DelEntry(a) ==
  /\ ~dipLock
  /\ refs' = [refs EXCEPT ![a] = IF @ = 0 THEN 0 ELSE @ - 1]
  /\ dipLock' = (refs[a] > 1)

(* When the entry, which has no other user, cannot be written it returns from     *)
(* there too; the address keeps its place in dip_tbl.                             *)
DelFails(a) ==
  /\ ~dipLock /\ refs[a] = 1
  /\ refs' = [refs EXCEPT ![a] = 0]
  /\ dipLock' = TRUE
================================================================================
