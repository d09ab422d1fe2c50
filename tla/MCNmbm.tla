--------------------------------- MODULE MCNmbm ---------------------------------
(***************************************************************************)
(* The properties of the mapped-block layer, and the instances TLC checks. *)
(***************************************************************************)
EXTENDS Nmbm

(* The table nmbm_load_info_table would keep, as a set of at most one.      *)
Stored ==
  UNION {{Kept(m, sig) : m \in MainFound(sig)} : sig \in FoundSig}

Attached == pc \notin {"off", "failed"}

(* The mapping and the states in force, now or after the next attach.       *)
InForce ==
  IF Attached THEN [mapping |-> block_mapping, state |-> block_state]
  ELSE LET kept == Stored
       IN IF kept = {} THEN [mapping |-> NoMapping, state |-> AllGood]
          ELSE flash[CHOOSE b \in kept : TRUE]

UserData == {Blank} \cup {Data(v) : v \in Values}

(* The next attach comes across the bad mark of pb and records it.          *)
MarkFound(pb) ==
  \E sig \in FoundSig :
    \E m \in MainFound(sig) : LoadedState(m, sig, {})[pb] = "bad"

(* What the logical blocks read as.                                         *)
View ==
  LET t == InForce
  IN [lb \in LogicBlocks |->
        LET pb == t.mapping[lb]
        IN IF pb = Unmapped THEN Junk
           ELSE IF \/ t.state[pb] = "bad" \/ flash[pb] \notin UserData
                   \/ ~Attached /\ pb \in marked /\ pb >= MgmtStart /\ MarkFound(pb)
                THEN Junk
                ELSE flash[pb]]

InProgress == op.kind \in {"erase", "write", "markbad"}

NoCall == [lb |-> -1, want |-> Junk]

Disk == INSTANCE LogicDisk WITH
  LogicBlock <- LogicBlocks,
  Content    <- UserData \cup {Junk},
  Nobody     <- NoCall,
  disk       <- View,
  busy       <- IF InProgress THEN [lb |-> op.lb, want |-> op.val] ELSE NoCall,
  ready      <- formatted

(* Implementation: the layer is a logical disk.  A remap, a table update,   *)
(* a failing block and a power cut in the middle of either never change     *)
(* what another logical block reads as, and a call that returned 0 lasts.   *)
IsLogicDisk == Disk!Spec

(* With spare blocks left for every fault and power cut, the format is      *)
(* never lost: some table survives a power cut at any point of any update.  *)
KeepsFormat == [][formatted => formatted']_formatted

---------------------------------------------------------------------------------
(* What comments of the code say and the code does not do.                  *)

(* nmbm_update_info_table "will try to update info table repeatedly until   *)
(* no new bad block found during updating": the states in force are stored. *)
BadBlocksStored ==
  Between /\ ~protected /\ caller = "update" =>
    \E b \in Stored : \A c \in Blocks :
      block_state[c] = "bad" => flash[b].state[c] = "bad"

(* nmbm_erase_logic_block: "Mark logic block unusable, and update info      *)
(* table".                                                                  *)
UnmappingStored ==
  Between /\ ~protected =>
    \E b \in Stored : \A lb \in LogicBlocks :
      block_mapping[lb] = Unmapped => flash[b].mapping[lb] = Unmapped

(* nmbm_try_load_info_table: "Only mark bad in memory".  Without a fault no *)
(* table on the chip calls a block bad.                                     *)
TornOnlyInMemory ==
  faults = 0 /\ marked = {} =>
    \A b \in Blocks : flash[b].kind = "table" =>
      \A c \in Blocks : flash[b].state[c] = "good"
=================================================================================
