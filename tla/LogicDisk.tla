------------------------------- MODULE LogicDisk --------------------------------
(***************************************************************************)
(* What the mapped-block layer promises its user (UBI or a raw MTD user):  *)
(* an array of logical blocks.  A call works on one block; whatever fails  *)
(* underneath, and wherever the power is cut, no other block changes, and  *)
(* what a call reported done stays.                                        *)
(***************************************************************************)
CONSTANTS
  LogicBlock,   \* the addresses
  Content,      \* what a block can read as
  Nobody        \* no call in progress

VARIABLES
  disk,         \* what each block reads as
  busy,         \* the block and the wanted content of the call in progress
  res,          \* the result of the last call
  ready         \* the disk has been formatted

diskVars == <<disk, busy, res, ready>>

Init == ready = FALSE /\ busy = Nobody /\ disk \in [LogicBlock -> Content]

KeptIn(S) == \A x \in S : disk'[x] = disk[x]

(* Calls that change nothing, and power cycles between two calls.           *)
Idle == busy = Nobody /\ UNCHANGED <<disk, busy, ready>>

Begin ==
  /\ busy = Nobody
  /\ busy' \in [lb : LogicBlock, want : Content]
  /\ UNCHANGED <<disk, ready>>

Work ==
  /\ busy # Nobody
  /\ UNCHANGED <<busy, ready>>
  /\ KeptIn(LogicBlock \ {busy.lb})

Done ==
  /\ busy # Nobody /\ busy' = Nobody
  /\ res' = "ok"
  /\ disk' = [disk EXCEPT ![busy.lb] = busy.want]
  /\ UNCHANGED ready

(* The call failed or the power was cut.                                    *)
Broken ==
  /\ busy # Nobody /\ busy' = Nobody
  /\ res' # "ok"
  /\ KeptIn(LogicBlock \ {busy.lb})
  /\ UNCHANGED ready

(* Before the first format, and when the format was lost: KeepsFormat of    *)
(* MCNmbm says when that cannot happen.                                     *)
Unformatted == (~ready \/ ~ready') /\ busy' = Nobody

Next == Unformatted \/ (ready /\ (Idle \/ Begin \/ Work \/ Done \/ Broken))

Spec == Init /\ [][Next]_diskVars
=================================================================================
