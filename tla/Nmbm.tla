---------------------------------- MODULE Nmbm ----------------------------------
(***************************************************************************)
(* The NAND mapped-block management layer (drivers/mtd/nmbm/nmbm-core.c):  *)
(* logical blocks are remapped from bad physical blocks to a pool at the   *)
(* top of the chip, and the block states and the mapping are persisted in  *)
(* a main and a backup info table.                                         *)
(*                                                                         *)
(*   0 .. MgmtStart-1   data area                                          *)
(*   MgmtStart ..       main table, its spares, backup table, and from     *)
(*                      mapping_blocks_ba to mapping_blocks_top_ba the     *)
(*                      unmapped pool; mapped pool blocks lie above        *)
(*   signature_ba       signature, near the top of the chip                *)
(*                                                                         *)
(* One step is one operation on the flash (erase, program or bad-mark of a *)
(* block) or the RAM-only code between two of them, so power may be lost   *)
(* between, and in the middle of, any two operations on the flash.  A      *)
(* block is one unit of data, and an info table takes one block.           *)
(*                                                                         *)
(* An operator "Faulty..." is the definition after it with a mistake; the  *)
(* specification does not use it.                                          *)
(***************************************************************************)
EXTENDS Integers, FiniteSets

CONSTANTS
  BlockCount,   \* physical blocks of the chip (block_count)
  MgmtStart,    \* first block of the management area (mgmt_start_ba)
  SpareBlocks,  \* blocks reserved behind a table (info_table_spare_blocks)
  CreateFlags,  \* NMBM_F_CREATE ("forced-create" of the devicetree) at an attach:
                \* the boot loader's attach and the kernel's may differ
  FactoryBad,   \* blocks marked bad before the first attach
  Weak,         \* blocks whose erase, program or bad-mark may fail
  Values,       \* what the user writes to a block
  Calls,        \* the entry points the user calls
  MaxCalls,     \* bound: calls of the user
  MaxFaults,    \* bound: failing operations on the flash
  MaxBoots      \* bound: attaches

Blocks == 0 .. BlockCount - 1
LogicBlocks == 0 .. MgmtStart - 1
Unmapped == -1

ASSUME ChipAssumption ==
  /\ BlockCount \in Nat /\ MgmtStart \in Nat /\ SpareBlocks \in Nat
  /\ 0 < MgmtStart /\ MgmtStart < BlockCount
  /\ CreateFlags \subseteq BOOLEAN
  /\ FactoryBad \subseteq Blocks /\ Weak \subseteq Blocks

ASSUME BoundAssumption ==
  /\ MaxCalls \in Nat /\ MaxFaults \in Nat /\ MaxBoots \in Nat
  /\ Calls \subseteq {"read", "write", "erase", "markbad", "detach"}

VARIABLES
  (* the chip *)
  flash, marked,
  (* struct nmbm_instance *)
  block_state, block_mapping, data_block_count, main_table_ba,
  backup_table_ba, mapping_blocks_ba, mapping_blocks_top_ba, signature_ba,
  write_count, info_table_cache, changed, protected,
  (* the call in progress *)
  pc,          \* the next step
  w,           \* the running nmbm_write_mgmt_range, _signature or _erase_range
  caller,      \* whom the running table procedure returns to
  ret,         \* whom the running nmbm_update_info_table returns to
  op, res,     \* the user's call and the result of the last one
  (* history and bounds *)
  formatted, calls, faults, boots

chip    == <<flash, marked>>
regions == <<main_table_ba, backup_table_ba, mapping_blocks_ba>>
tables  == <<block_mapping, data_block_count, mapping_blocks_top_ba,
             signature_ba, write_count, info_table_cache>>
bounds  == <<calls, boots>>
control == <<caller, ret, op, res, formatted>>
vars    == <<chip, block_state, changed, protected, regions, tables, pc, w,
             control, faults, bounds>>

---------------------------------------------------------------------------------
(* What a physical block can hold, and its state in the RAM table.          *)

BlockStates == {"good", "need_remap", "bad"}

Mappings == [LogicBlocks -> Blocks \cup {Unmapped}]
Tables   == [kind : {"table"}, count : Nat, state : [Blocks -> BlockStates],
             mapping : Mappings]
Blank    == [kind |-> "blank"]
Junk     == [kind |-> "junk"]
Sig      == [kind |-> "sig"]
Data(v)  == [kind |-> "data", val |-> v]
Contents == {Blank, Junk, Sig} \cup {Data(v) : v \in Values} \cup Tables

NoJob == [mode |-> "none", from |-> 0, ba |-> 0, lim |-> 0, then |-> "none",
          ok |-> FALSE]
NoOp  == [kind |-> "none", lb |-> 0, pb |-> 0, val |-> Blank]

MayFail(b) == b \in Weak /\ faults < MaxFaults

---------------------------------------------------------------------------------
(* nmbm_block_walk: from b, skip n good blocks and stop at the next one.    *)
(* The result is a set of at most one block; it is empty for "false".       *)

Smaller(a, b) == IF a < b THEN a ELSE b

Good(b) == block_state[b] = "good"

WalkAsc(ba, n, limit) ==
  {b \in Blocks :
     /\ ba <= b /\ b < Smaller(limit, BlockCount - 1) /\ Good(b)
     /\ Cardinality({c \in ba .. b - 1 : Good(c)}) = n}

WalkDesc(ba, n, limit) ==
  {b \in Blocks :
     /\ limit < b /\ b <= ba /\ Good(b)
     /\ Cardinality({c \in b + 1 .. ba : Good(c)}) = n}

(* nmbm_try_reserve_blocks: as many spare blocks as the limit leaves.       *)
Reserve(ba, limit) ==
  {b \in Blocks : \E n \in 0 .. SpareBlocks :
     /\ b \in WalkAsc(ba, n, limit)
     /\ \A m \in n + 1 .. SpareBlocks : WalkAsc(ba, m, limit) = {}}

---------------------------------------------------------------------------------
(* nmbm_write_mgmt_range, nmbm_write_signature and nmbm_erase_range share   *)
(* one loop: skip the blocks that are not good, record the ones found       *)
(* marked, erase (and program) the next; w is the loop's state.             *)

Ahead(job) == IF job.mode = "sig" THEN job.lim + 1 .. job.ba
                                  ELSE job.ba .. job.lim - 1
Passed(job, b) == IF job.mode = "sig" THEN b + 1 .. job.ba
                                      ELSE job.ba .. b - 1

(* nmbm_check_bad_phys_block of the good blocks of S the loop goes past.    *)
FoundMarked(s, S) == {b \in S : s[b] = "good" /\ b \in marked}
Record(s, S) == [b \in Blocks |-> IF b \in FoundMarked(s, S) THEN "bad" ELSE s[b]]

(* Move job on to the next usable block, or to the end of its range;        *)
(* s and c are the state table and its change flag at this point.           *)
Seek(job, s, c) ==
  LET usable(b) == s[b] = "good" /\ b \notin marked
  IN \/ \E b \in Ahead(job) :
          /\ usable(b) /\ \A a \in Passed(job, b) : ~usable(a)
          /\ w' = [job EXCEPT !.ba = b]
          /\ pc' = "erase"
          /\ block_state' = Record(s, Passed(job, b))
          /\ changed' = (c \/ FoundMarked(s, Passed(job, b)) # {})
     \/ /\ \A b \in Ahead(job) : ~usable(b)
        /\ w' = [job EXCEPT !.ok = (job.mode = "range")]
        /\ pc' = "ret"
        /\ block_state' = Record(s, Ahead(job))
        /\ changed' = (c \/ FoundMarked(s, Ahead(job)) # {})

Job(mode, lo, hi, then) == [mode |-> mode, from |-> lo, ba |-> lo, lim |-> hi,
                            then |-> then, ok |-> FALSE]

(* nmbm_write_info_table of the cache, and nmbm_erase_range.                *)
WriteTable(lo, hi, then, c) == Seek(Job("table", lo, hi, then), block_state, c)
EraseRange(lo, hi, then, c) == Seek(Job("range", lo, hi, then), block_state, c)

NextBlock(job) == [job EXCEPT !.ba = IF job.mode = "sig" THEN job.ba - 1
                                                         ELSE job.ba + 1]

EraseOk ==
  /\ pc = "erase"
  /\ flash' = [flash EXCEPT ![w.ba] = Blank]
  /\ \/ /\ w.mode = "range"
        /\ Seek(NextBlock(w), block_state, changed)
     \/ /\ w.mode # "range"
        /\ pc' = "prog"
        /\ UNCHANGED <<w, block_state, changed>>
  /\ UNCHANGED <<marked, protected, regions, tables, control, faults, bounds>>

EraseFail ==
  /\ pc = "erase" /\ MayFail(w.ba)
  /\ flash' \in {flash, [flash EXCEPT ![w.ba] = Junk]}
  /\ pc' = "mark"
  /\ faults' = faults + 1
  /\ UNCHANGED <<marked, block_state, changed, protected, regions, tables, w,
                 control, bounds>>

ProgramOk ==
  /\ pc = "prog"
  /\ flash' = [flash EXCEPT ![w.ba] = IF w.mode = "sig" THEN Sig
                                                        ELSE info_table_cache]
  /\ w' = [w EXCEPT !.ok = TRUE]
  /\ pc' = "ret"
  /\ UNCHANGED <<marked, block_state, changed, protected, regions, tables,
                 control, faults, bounds>>

(* A page could not be written, or did not read back as written.            *)
ProgramFail ==
  /\ pc = "prog" /\ MayFail(w.ba)
  /\ flash' = [flash EXCEPT ![w.ba] = Junk]
  /\ pc' = "mark"
  /\ faults' = faults + 1
  /\ UNCHANGED <<marked, block_state, changed, protected, regions, tables, w,
                 control, bounds>>

(* nmbm_mark_phys_bad_block; its result is ignored everywhere.              *)
MarkPhys(b) ==
  \/ marked' = marked \cup {b} /\ UNCHANGED faults
  \/ MayFail(b) /\ UNCHANGED marked /\ faults' = faults + 1

SetBad(s, b) == [s EXCEPT ![b] = "bad"]

MarkBlock ==
  /\ pc = "mark"
  /\ MarkPhys(w.ba)
  /\ Seek(NextBlock(w), SetBad(block_state, w.ba), TRUE)
  /\ UNCHANGED <<flash, protected, regions, tables, control, bounds>>

---------------------------------------------------------------------------------
(* The table procedures.  Each is entered with its first WriteTable, goes   *)
(* on in the actions guarded by w.then when that loop is over, and leaves   *)
(* to its caller.                                                           *)

Returned(then) == pc = "ret" /\ w.then = then

Leave(ok) == pc' = "leave" /\ w' = [w EXCEPT !.ok = ok]

(* nmbm_rescue_single_info_table, up to its first write: a second table in  *)
(* front of the only one, in block ba; s and c as for Seek.                 *)
FaultyRescueOverTable(ba, s, c) == Seek(Job("table", MgmtStart, ba + 1, "front"), s, c)
RescueSingle(ba, s, c) == Seek(Job("table", MgmtStart, ba, "front"), s, c)

(* The frame of every step that runs in RAM only.                           *)
RamStep == UNCHANGED <<chip, faults, bounds>>

(* nmbm_rebuild_info_table, up to the write of the main table.              *)
Rebuild(c) ==
  /\ main_table_ba' = 0 /\ backup_table_ba' = 0
  /\ mapping_blocks_ba' = mapping_blocks_top_ba
  /\ WriteTable(MgmtStart, mapping_blocks_top_ba, "rebuild_main", c)

RebuildMain ==
  /\ Returned("rebuild_main")
  /\ \/ /\ ~w.ok
        /\ protected' = TRUE
        /\ Leave(FALSE)
        /\ UNCHANGED <<block_state, changed, regions>>
     \/ /\ w.ok
        /\ main_table_ba' = w.ba
        /\ mapping_blocks_ba' = w.ba + 1
        /\ LET next == Reserve(w.ba + 1, mapping_blocks_top_ba - 1)
           IN \/ /\ next = {}
                 /\ Leave(TRUE)
                 /\ changed' = FALSE
                 /\ UNCHANGED block_state
              \/ \E nba \in next :
                   WriteTable(nba, mapping_blocks_top_ba, "rebuild_backup", FALSE)
        /\ UNCHANGED <<backup_table_ba, protected>>
  /\ UNCHANGED <<tables, control>> /\ RamStep

RebuildBackup ==
  /\ Returned("rebuild_backup")
  /\ \/ /\ ~w.ok
        /\ Leave(TRUE)
        /\ UNCHANGED <<block_state, changed, regions>>
     \/ /\ w.ok
        /\ backup_table_ba' = w.ba
        /\ mapping_blocks_ba' = w.ba + 1
        /\ EraseRange(mapping_blocks_ba, w.ba, "cleaned", changed)
        /\ UNCHANGED main_table_ba
  /\ UNCHANGED <<protected, tables, control>> /\ RamStep

(* The spare blocks behind the main table are clean: true to the caller.    *)
Cleaned ==
  /\ Returned("cleaned")
  /\ Leave(TRUE)
  /\ UNCHANGED <<block_state, changed, protected, regions, tables, control>>
  /\ RamStep

---------------------------------------------------------------------------------
(* nmbm_rescue_single_info_table goes on: the second table is in front of   *)
(* the only one, or behind it.                                              *)

RescueFront ==
  /\ Returned("front")
  /\ \/ /\ w.ok
        /\ backup_table_ba' = main_table_ba
        /\ main_table_ba' = w.ba
        /\ EraseRange(w.ba + 1, main_table_ba, "cleaned", FALSE)
     \/ /\ ~w.ok
        /\ LET spare == Reserve(mapping_blocks_ba, mapping_blocks_top_ba - 1)
           IN \/ /\ spare = {}
                 /\ Leave(FALSE)
                 /\ UNCHANGED <<block_state, changed>>
              \/ \E wba \in spare :
                   WriteTable(wba, mapping_blocks_top_ba, "behind", changed)
        /\ UNCHANGED <<main_table_ba, backup_table_ba>>
  /\ UNCHANGED <<mapping_blocks_ba, protected, tables, control>> /\ RamStep

RescueBehind ==
  /\ Returned("behind")
  /\ \/ /\ w.ok
        /\ EraseRange(mapping_blocks_ba, w.ba, "behind_cleaned", changed)
     \/ /\ ~w.ok /\ w.from > mapping_blocks_ba
        /\ WriteTable(w.from - 1, mapping_blocks_top_ba, "behind", changed)
     \/ /\ ~w.ok /\ w.from <= mapping_blocks_ba
        /\ Leave(FALSE)
        /\ UNCHANGED <<block_state, changed>>
  /\ UNCHANGED <<regions, protected, tables, control>> /\ RamStep

RescueBehindCleaned ==
  /\ Returned("behind_cleaned")
  /\ backup_table_ba' = w.lim
  /\ mapping_blocks_ba' = w.lim + 1
  /\ changed' = FALSE
  /\ Leave(TRUE)
  /\ UNCHANGED <<block_state, main_table_ba, protected, tables, control>>
  /\ RamStep

(* nmbm_update_single_info_table: bring the older of two tables up to date. *)
UpdateMain ==
  /\ Returned("update_main")
  /\ \/ /\ w.ok
        /\ main_table_ba' = w.ba
        /\ changed' = FALSE
        /\ Leave(TRUE)
        /\ UNCHANGED <<block_state, backup_table_ba>>
     \/ /\ ~w.ok
        /\ main_table_ba' = backup_table_ba
        /\ backup_table_ba' = 0
        /\ RescueSingle(backup_table_ba, block_state, changed)
  /\ UNCHANGED <<mapping_blocks_ba, protected, tables, control>> /\ RamStep

UpdateBackup ==
  /\ Returned("update_backup")
  /\ \/ /\ w.ok
        /\ backup_table_ba' = w.ba
        /\ mapping_blocks_ba' = w.ba + 1
        /\ changed' = FALSE
        /\ Leave(TRUE)
     \/ /\ ~w.ok
        /\ mapping_blocks_ba' = backup_table_ba
        /\ backup_table_ba' = 0
        /\ Leave(FALSE)
        /\ UNCHANGED changed
  /\ UNCHANGED <<block_state, main_table_ba, protected, tables, control>>
  /\ RamStep

---------------------------------------------------------------------------------
(* nmbm_update_info_table and nmbm_update_info_table_once.                  *)

(* nmbm_generate_info_table_cache when something changed.                   *)
FaultyStaleMapping(s, m, n) ==
  [kind |-> "table", count |-> n, state |-> s, mapping |-> info_table_cache.mapping]
FaultyStaleCount(s, m, n) ==
  [kind |-> "table", count |-> info_table_cache.count, state |-> s, mapping |-> m]
InfoTable(s, m, n) ==
  [kind |-> "table", count |-> n, state |-> s, mapping |-> m]

Return(ok) ==
  /\ w' = [w EXCEPT !.ok = ok]
  /\ \/ /\ ret \in {"ok", "err"}
        /\ pc' = "idle" /\ res' = ret /\ op' = NoOp
     \/ /\ ret \notin {"ok", "err"}
        /\ pc' = ret
        /\ UNCHANGED <<res, op>>
  /\ UNCHANGED <<caller, ret, formatted>>

UpdateOver ==
  /\ pc = "update"
  /\ protected \/ ~changed
  /\ Return(TRUE)
  /\ UNCHANGED <<block_state, changed, protected, regions, tables>> /\ RamStep

(* Write the main table below limit; the region above it is settled.        *)
WriteMain(limit, backup, mapping_ba, c) ==
  /\ backup_table_ba' = backup
  /\ mapping_blocks_ba' = mapping_ba
  /\ WriteTable(main_table_ba, limit, "once_main", c)
  /\ UNCHANGED main_table_ba

(* The main table exists whenever an update runs (MainTableExists), so the  *)
(* "goto rebuild_tables" of a missing main table has no step here.          *)
UpdateOnce ==
  /\ pc = "update" /\ ~protected /\ changed
  /\ caller' = "update"
  /\ write_count' = write_count + 1
  /\ info_table_cache' = InfoTable(block_state, block_mapping, write_count + 1)
  /\ \/ /\ backup_table_ba # 0
        /\ WriteTable(backup_table_ba, mapping_blocks_top_ba, "once_backup", changed)
        /\ UNCHANGED regions
     \/ /\ backup_table_ba = 0
        /\ WriteMain(mapping_blocks_top_ba, 0, mapping_blocks_ba, changed)
  /\ UNCHANGED <<protected, block_mapping, data_block_count, signature_ba,
                 mapping_blocks_top_ba, ret, op, res, formatted>>
  /\ RamStep

(* The backup table was written, or lost with every block up to the top;    *)
(* the main table is next.                                                  *)
FaultyBackupStays ==
  /\ Returned("once_backup")
  /\ \/ w.ok /\ WriteMain(w.ba, w.ba, w.ba + 1, FALSE)
     \/ ~w.ok /\ WriteMain(mapping_blocks_top_ba, backup_table_ba, backup_table_ba, changed)
  /\ UNCHANGED <<protected, tables, control>> /\ RamStep

OnceBackup ==
  /\ Returned("once_backup")
  /\ \/ w.ok /\ WriteMain(w.ba, w.ba, w.ba + 1, FALSE)
     \/ ~w.ok /\ WriteMain(mapping_blocks_top_ba, 0, backup_table_ba, changed)
  /\ UNCHANGED <<protected, tables, control>> /\ RamStep

(* The backup table becomes the only one.                                   *)
FaultyBackupSwapped ==
  /\ main_table_ba' = 0
  /\ backup_table_ba' = 0
  /\ Leave(TRUE)
  /\ UNCHANGED <<mapping_blocks_ba, block_state, changed>>

BackupTakesOver ==
  /\ main_table_ba' = backup_table_ba
  /\ backup_table_ba' = 0
  /\ Leave(TRUE)
  /\ UNCHANGED <<mapping_blocks_ba, block_state, changed>>

(* nmbm_rescue_main_info_table: a temporary table in the pool, then a new   *)
(* main table below it.  The new main table always ends at or below the     *)
(* temporary one, its limit, so the code's last part is never reached.      *)
RescueMain ==
  LET spare == Reserve(mapping_blocks_ba, mapping_blocks_top_ba - 1)
  IN \/ spare = {} /\ BackupTakesOver
     \/ \E wba \in spare :
          /\ WriteTable(wba, mapping_blocks_top_ba, "temporary", changed)
          /\ UNCHANGED regions

RescueTemporary ==
  /\ Returned("temporary")
  /\ \/ /\ w.ok
        /\ mapping_blocks_ba' = w.ba + 1
        /\ WriteTable(MgmtStart, w.ba, "new_main", changed)
        /\ UNCHANGED <<main_table_ba, backup_table_ba>>
     \/ /\ ~w.ok /\ w.from > mapping_blocks_ba
        /\ WriteTable(w.from - 1, mapping_blocks_top_ba, "temporary", changed)
        /\ UNCHANGED regions
     \/ /\ ~w.ok /\ w.from <= mapping_blocks_ba
        /\ BackupTakesOver
  /\ UNCHANGED <<protected, tables, control>> /\ RamStep

RescueNewMain ==
  /\ Returned("new_main")
  /\ main_table_ba' = IF w.ok THEN w.ba ELSE w.lim
  /\ backup_table_ba' = IF w.ok THEN w.lim ELSE 0
  /\ changed' = FALSE
  /\ Leave(TRUE)
  /\ UNCHANGED <<block_state, mapping_blocks_ba, protected, tables, control>>
  /\ RamStep

OnceMain ==
  /\ Returned("once_main")
  /\ \/ /\ w.ok
        /\ main_table_ba' = w.ba
        /\ mapping_blocks_ba' = IF backup_table_ba = 0 THEN w.ba + 1
                                                       ELSE mapping_blocks_ba
        /\ changed' = FALSE
        /\ Leave(TRUE)
        /\ UNCHANGED <<block_state, backup_table_ba>>
     \/ ~w.ok /\ backup_table_ba = 0 /\ Rebuild(changed)
     \/ ~w.ok /\ backup_table_ba # 0 /\ RescueMain
  /\ UNCHANGED <<protected, tables, control>> /\ RamStep

---------------------------------------------------------------------------------
(* nmbm_map_block, called from an erase and from the creation of the        *)
(* tables.                                                                  *)

PoolEmpty == mapping_blocks_ba = mapping_blocks_top_ba
FaultyLowestFree == WalkAsc(mapping_blocks_ba, 0, mapping_blocks_top_ba)
Candidates == WalkDesc(mapping_blocks_top_ba, 0, mapping_blocks_ba)

FaultyTopStays(lb, pb) ==
  /\ block_mapping' = [block_mapping EXCEPT ![lb] = pb]
  /\ changed' = TRUE
  /\ UNCHANGED mapping_blocks_top_ba

Map(lb, pb) ==
  /\ block_mapping' = [block_mapping EXCEPT ![lb] = pb]
  /\ mapping_blocks_top_ba' = mapping_blocks_top_ba - 1
  /\ changed' = TRUE

Update(back) == pc' = "update" /\ ret' = back

(* No good block is left in the pool: the tables are updated before the     *)
(* pool is closed in PoolClosed.                                            *)
PoolUsedUp ==
  /\ ~PoolEmpty /\ Candidates = {}
  /\ Update("pool_closed")
  /\ UNCHANGED <<block_state, changed, tables>>

(* What the state of the old block becomes after either outcome.            *)
Retired(s, pb) == IF s[pb] = "need_remap" THEN s ELSE SetBad(s, pb)

MapForErase ==
  /\ pc = "map" /\ op.kind = "erase"
  /\ \/ /\ PoolEmpty
        /\ pc' = "map_failed"
        /\ UNCHANGED <<block_state, changed, tables, ret>>
     \/ PoolUsedUp
     \/ /\ ~PoolEmpty
        /\ \E pb \in Candidates : Map(op.lb, pb)
        /\ block_state' = Retired(block_state, op.pb)
        /\ Update("retry")
        /\ UNCHANGED <<data_block_count, signature_ba, write_count,
                       info_table_cache>>
  /\ UNCHANGED <<protected, regions, w, caller, op, res, formatted>> /\ RamStep

FaultyMapRetries ==
  /\ pc = "map_failed"
  /\ block_state' = Retired(block_state, op.pb)
  /\ changed' = (changed \/ block_state' # block_state)
  /\ Update("retry")
  /\ UNCHANGED <<protected, regions, tables, w, caller, op, res, formatted>>
  /\ RamStep

MapFailed ==
  /\ pc = "map_failed"
  /\ block_mapping' = [block_mapping EXCEPT ![op.lb] = Unmapped]
  /\ block_state' = Retired(block_state, op.pb)
  /\ changed' = (changed \/ block_state' # block_state)
  /\ Update("err")
  /\ UNCHANGED <<protected, regions, data_block_count, mapping_blocks_top_ba,
                 signature_ba, write_count, info_table_cache, w, caller, op,
                 res, formatted>>
  /\ RamStep

PoolClosed ==
  /\ pc = "pool_closed"
  /\ mapping_blocks_top_ba' = mapping_blocks_ba
  /\ \/ op.kind = "erase" /\ pc' = "map_failed" /\ UNCHANGED ret
     \/ op.kind = "attach" /\ Update("created")
  /\ UNCHANGED <<block_state, changed, protected, regions, block_mapping,
                 data_block_count, signature_ba, write_count, info_table_cache,
                 w, caller, op, res, formatted>>
  /\ RamStep

---------------------------------------------------------------------------------
(* nmbm_attach.  What it finds on the chip is a function of the flash and   *)
(* of the torn blocks whose read fails with an ECC error (Ecc): these are   *)
(* recorded bad in RAM, the others just hold no table.                      *)

Torn == {b \in Blocks : flash[b] = Junk}
Least(S) == {b \in S : \A a \in S : b <= a}

(* nmbm_find_signature: the highest block that holds one.                   *)
SigBlocks == {b \in Blocks : b >= MgmtStart - 1 /\ b \notin marked /\ flash[b] = Sig}
FoundSig == {b \in SigBlocks : \A a \in SigBlocks : a <= b}

(* nmbm_check_info_table of the table in block b, read while RAM holds s.   *)
Consistent(b, sig) ==
  /\ flash[b].state[b] = "good"
  /\ \A lb \in LogicBlocks :
       flash[b].mapping[lb] \notin MgmtStart .. b /\ flash[b].mapping[lb] # sig

(* nmbm_search_info_table from ba: the blocks where it would succeed, the   *)
(* first one, and the unreadable blocks it passes before that.              *)
SearchRange(ba, sig) == {b \in Blocks : ba <= b /\ b < sig - 1}
Hits(ba, sig, s) ==
  {b \in SearchRange(ba, sig) : /\ s[b] = "good" /\ b \notin marked
                               /\ flash[b].kind = "table" /\ Consistent(b, sig)}
First(ba, sig, s) == Least(Hits(ba, sig, s))
Unreadable(ba, sig, s, Ecc) ==
  LET hit == First(ba, sig, s)
  IN {b \in SearchRange(ba, sig) \cap (marked \cup Ecc) :
        s[b] = "good" /\ \A h \in hit : b < h}

AllGood == [b \in Blocks |-> "good"]
AsBad(s, S) == [b \in Blocks |-> IF b \in S THEN "bad" ELSE s[b]]

(* The table found first and, if there is one behind it, the second:        *)
(* nmbm_load_info_table keeps the one with the higher write count.          *)
MainFound(sig) == First(MgmtStart, sig, AllGood)
BackupFound(m, sig) == First(m + 1, sig, flash[m].state)
Kept(m, sig) ==
  LET newer == {b \in BackupFound(m, sig) : flash[b].count > flash[m].count}
  IN IF newer = {} THEN m ELSE CHOOSE b \in newer : TRUE

(* The block states that come with it.                                      *)
LoadedState(m, sig, Ecc) ==
  IF Kept(m, sig) = m
  THEN AsBad(flash[m].state, Unreadable(m + 1, sig, flash[m].state, Ecc))
  ELSE flash[Kept(m, sig)].state

(* The next attach will find a signature and a table.                       *)
HoldsTable == \E sig \in FoundSig : MainFound(sig) # {}

(* The top of the pool: just below the lowest block mapped above table b.   *)
Top(b, sig) ==
  LET mapped == {flash[b].mapping[lb] : lb \in LogicBlocks}
  IN {t \in Blocks : t + 1 \in Least((mapped \cap (b + 1 .. sig - 1)) \cup {sig})}

LoadTable(m, sig, Ecc) ==
  LET k      == Kept(m, sig)
      table  == flash[k]
      backup == BackupFound(m, sig)
      bad1   == Unreadable(MgmtStart, sig, AllGood, Ecc)
      bad2   == Unreadable(m + 1, sig, flash[m].state, Ecc)
      found  == bad1 \cup bad2 # {}
      state  == LoadedState(m, sig, Ecc)
      mapped == {lb \in LogicBlocks : table.mapping[lb] # Unmapped}
      count  == IF found THEN table.count + 1 ELSE table.count
  IN /\ block_mapping' = table.mapping
     /\ data_block_count' \in
          {lb + 1 : lb \in {l \in mapped : \A x \in mapped : x <= l}}
          \cup (IF mapped = {} THEN {MgmtStart} ELSE {})
     /\ mapping_blocks_top_ba' \in Top(k, sig)
     /\ main_table_ba' = m
     /\ write_count' = count
     /\ info_table_cache' = InfoTable(state, table.mapping, count)
     /\ caller' = "load"
     /\ \/ /\ backup = {}
           /\ backup_table_ba' = 0
           /\ mapping_blocks_ba' = m + 1
           /\ RescueSingle(m, state, found)
        \/ \E b \in backup :
             /\ backup_table_ba' = b
             /\ mapping_blocks_ba' = b + 1
             /\ \/ /\ flash[b].count = flash[m].count
                   /\ block_state' = state /\ changed' = found
                   /\ Leave(TRUE)
                \/ /\ flash[b].count > flash[m].count
                   /\ Seek(Job("table", m, b, "update_main"), state, TRUE)
                \/ /\ flash[b].count < flash[m].count
                   /\ \E t \in Top(k, sig) :
                        Seek(Job("table", b, t, "update_backup"), state, TRUE)

(* nmbm_scan_badblocks and nmbm_build_mapping_table after the state s.      *)
Scanned(s) == AsBad(s, marked)
FaultyAllGoodBlocks(s) == {pb \in Blocks : s[pb] # "bad"}
DataBlocks(s) == {pb \in LogicBlocks : s[pb] # "bad"}
Nth(s, lb) == {pb \in DataBlocks(s) :
                 Cardinality({q \in DataBlocks(s) : q < pb}) = lb}
BuildMapping(s) ==
  [lb \in LogicBlocks |-> IF Nth(s, lb) = {} THEN Unmapped
                          ELSE CHOOSE pb \in Nth(s, lb) : TRUE]

Format(s) ==
  /\ block_mapping' = BuildMapping(Scanned(s))
  /\ data_block_count' = Cardinality(DataBlocks(Scanned(s)))
  /\ write_count' = 0
  /\ main_table_ba' = 0 /\ backup_table_ba' = 0
  /\ mapping_blocks_ba' = 0 /\ mapping_blocks_top_ba' = 0
  /\ caller' = "create"

StartAttach ==
  /\ pc = "off" /\ boots < MaxBoots
  /\ boots' = boots + 1
  /\ op' = [NoOp EXCEPT !.kind = "attach"]
  /\ res' = "none"
  /\ UNCHANGED <<chip, protected, ret, formatted, calls, faults>>

(* nmbm_create_new, up to the write of the signature.                       *)
CreateNew ==
  /\ StartAttach
  /\ FoundSig = {} /\ TRUE \in CreateFlags
  /\ Format(AllGood)
  /\ Seek([Job("sig", MgmtStart, MgmtStart, "sig") EXCEPT !.ba = BlockCount - 1],
          Scanned(AllGood), marked # {})
  /\ UNCHANGED <<signature_ba, info_table_cache>>

(* nmbm_load_existing: with a table, and with none.                         *)
LoadExisting ==
  /\ StartAttach
  /\ \E sig \in FoundSig, Ecc \in SUBSET Torn :
       /\ signature_ba' = sig
       /\ \E m \in MainFound(sig) : LoadTable(m, sig, Ecc)

CreateExisting ==
  /\ StartAttach
  /\ TRUE \in CreateFlags
  /\ \E sig \in FoundSig, Ecc \in SUBSET Torn :
       LET bad == Unreadable(MgmtStart, sig, AllGood, Ecc)
       IN /\ MainFound(sig) = {}
          /\ signature_ba' = sig
          /\ Format(AsBad(AllGood, bad))
          /\ block_state' = Scanned(AsBad(AllGood, bad))
          /\ changed' = (bad \cup marked # {})
          /\ pc' = "create"
  /\ UNCHANGED <<info_table_cache, w>>

(* Without NMBM_F_CREATE there is nothing to attach to.                     *)
AttachFails ==
  /\ StartAttach
  /\ FALSE \in CreateFlags /\ ~HoldsTable
  /\ pc' = "failed"
  /\ UNCHANGED <<block_state, changed, regions, tables, w, caller>>

SigWritten ==
  /\ Returned("sig")
  /\ \/ w.ok /\ signature_ba' = w.ba /\ pc' = "create"
     \/ ~w.ok /\ pc' = "failed" /\ UNCHANGED signature_ba
  /\ UNCHANGED <<block_state, changed, protected, regions, block_mapping,
                 data_block_count, mapping_blocks_top_ba, write_count,
                 info_table_cache, w, control>>
  /\ RamStep

(* nmbm_create_info_table, up to the first table.                           *)
FaultyPoolTop == WalkDesc(signature_ba, 0, MgmtStart)
PoolTop == WalkDesc(signature_ba, 1, MgmtStart)

CreateTables ==
  /\ pc = "create"
  /\ LET top == PoolTop
     IN \/ /\ top = {}
           /\ pc' = "failed"
           /\ UNCHANGED <<block_state, changed, regions, w, write_count,
                          info_table_cache, mapping_blocks_top_ba>>
        \/ \E t \in top :
             LET count == IF changed THEN write_count + 1 ELSE write_count
             IN /\ mapping_blocks_top_ba' = t
                /\ write_count' = count
                /\ info_table_cache' = InfoTable(block_state, block_mapping, count)
                /\ main_table_ba' = 0 /\ backup_table_ba' = 0
                /\ mapping_blocks_ba' = t
                /\ WriteTable(MgmtStart, t, "rebuild_main", changed)
  /\ UNCHANGED <<protected, block_mapping, data_block_count, signature_ba, control>>
  /\ RamStep

(* The remaps of the bad blocks at the end of the data area.                *)
RemapTail ==
  /\ pc = "remap"
  /\ \/ /\ data_block_count < MgmtStart /\ ~PoolEmpty
        /\ \E pb \in Candidates : Map(data_block_count, pb)
        /\ data_block_count' = data_block_count + 1
        /\ UNCHANGED <<block_state, signature_ba, write_count, info_table_cache,
                       pc, ret>>
     \/ data_block_count < MgmtStart /\ PoolUsedUp
     \/ /\ data_block_count = MgmtStart \/ PoolEmpty
        /\ Update("created")
        /\ UNCHANGED <<block_state, changed, tables>>
  /\ UNCHANGED <<protected, regions, w, caller, op, res, formatted>> /\ RamStep

Ready ==
  /\ pc' = "idle" /\ op' = NoOp /\ formatted' = TRUE
  /\ UNCHANGED <<caller, ret, res>>

Created ==
  /\ pc = "created"
  /\ \/ w.ok /\ Ready
     \/ ~w.ok /\ pc' = "failed" /\ UNCHANGED control
  /\ UNCHANGED <<block_state, changed, protected, regions, tables, w>> /\ RamStep

(* The end of a table procedure, for each caller.                           *)
LeaveUpdate ==
  /\ pc = "leave" /\ caller = "update"
  /\ \/ w.ok /\ pc' = "update" /\ UNCHANGED <<w, control>>
     \/ ~w.ok /\ Return(FALSE)
  /\ UNCHANGED <<block_state, changed, protected, regions, tables>> /\ RamStep

LeaveLoad ==
  /\ pc = "leave" /\ caller = "load"
  /\ protected' = (protected \/ PoolEmpty \/ ~w.ok)
  /\ Ready
  /\ UNCHANGED <<block_state, changed, regions, tables, w>> /\ RamStep

LeaveCreate ==
  /\ pc = "leave" /\ caller = "create"
  /\ pc' = IF w.ok THEN "remap" ELSE "failed"
  /\ UNCHANGED <<block_state, changed, protected, regions, tables, w, control>>
  /\ RamStep

---------------------------------------------------------------------------------
(* The user's calls, one at a time: nmbm-mtd.c holds the device for each.   *)

CanCall(kind) == pc = "idle" /\ kind \in Calls /\ calls < MaxCalls
Readable(lb) == block_mapping[lb] # Unmapped /\ block_state[block_mapping[lb]] # "bad"

(* The checks at the entry points: nothing but the result changes.          *)
Refusal(kind, lb) ==
  CASE protected                                   -> "rofs"
    [] ~protected /\ lb >= data_block_count         -> "inval"
    [] ~protected /\ lb < data_block_count /\ (
         IF kind \in {"read", "write"} THEN ~Readable(lb)
                                       ELSE block_mapping[lb] = Unmapped) -> "err"
    [] OTHER                                       -> "none"

Refuse(kind, lb) ==
  /\ CanCall(kind) /\ Refusal(kind, lb) # "none"
  /\ calls' = calls + 1
  /\ res' = IF kind = "markbad" /\ Refusal(kind, lb) = "err" THEN "ok"
                                                           ELSE Refusal(kind, lb)
  /\ UNCHANGED <<chip, block_state, changed, protected, regions, tables, pc, w,
                 caller, ret, op, formatted, faults, boots>>

(* nmbm_read_logic_page.                                                    *)
Read(lb) ==
  /\ CanCall("read") /\ Refusal("read", lb) = "none"
  /\ calls' = calls + 1
  /\ res' = "ok"
  /\ UNCHANGED <<chip, block_state, changed, protected, regions, tables, pc, w,
                 caller, ret, op, formatted, faults, boots>>

Begin(kind, lb, val, first) ==
  /\ CanCall(kind) /\ Refusal(kind, lb) = "none"
  /\ calls' = calls + 1
  /\ op' = [kind |-> kind, lb |-> lb, pb |-> block_mapping[lb], val |-> val]
  /\ res' = "none"
  /\ pc' = first
  /\ UNCHANGED <<chip, block_state, changed, protected, regions, tables, w,
                 caller, ret, formatted, faults, boots>>

BeginErase(lb) == Begin("erase", lb, Blank, "retry")

(* A block is written once after it was erased, as NAND demands.            *)
BeginWrite(lb, v) ==
  /\ Readable(lb) /\ flash[block_mapping[lb]] = Blank
  /\ Begin("write", lb, Data(v), "user_prog")

BeginMarkBad(lb) == Begin("markbad", lb, Junk, "unmap")

(* nmbm_erase_logic_block: is the block it is mapped to (still) usable?     *)
EraseRetry ==
  /\ pc = "retry"
  /\ LET pb == block_mapping[op.lb]
     IN /\ op' = [op EXCEPT !.pb = pb]
        /\ \/ /\ block_state[pb] # "good"
              /\ pc' = "map"
              /\ UNCHANGED <<block_state, changed>>
           \/ /\ Good(pb) /\ pb \in marked
              /\ pc' = "map"
              /\ block_state' = SetBad(block_state, pb) /\ changed' = TRUE
           \/ /\ Good(pb) /\ pb \notin marked
              /\ pc' = "user_erase"
              /\ UNCHANGED <<block_state, changed>>
  /\ UNCHANGED <<protected, regions, tables, w, caller, ret, res, formatted>>
  /\ RamStep

Finish(result) == pc' = "idle" /\ op' = NoOp /\ res' = result

UserEraseOk ==
  /\ pc = "user_erase"
  /\ flash' = [flash EXCEPT ![op.pb] = Blank]
  /\ Finish("ok")
  /\ UNCHANGED <<marked, block_state, changed, protected, regions, tables, w,
                 caller, ret, formatted, faults, bounds>>

UserEraseFail ==
  /\ pc = "user_erase" /\ MayFail(op.pb)
  /\ flash' \in {flash, [flash EXCEPT ![op.pb] = Junk]}
  /\ pc' = "user_mark"
  /\ faults' = faults + 1
  /\ UNCHANGED <<marked, block_state, changed, protected, regions, tables, w,
                 control, bounds>>

UserMark ==
  /\ pc = "user_mark"
  /\ MarkPhys(op.pb)
  /\ block_state' = SetBad(block_state, op.pb) /\ changed' = TRUE
  /\ IF op.kind = "erase" THEN pc' = "map" /\ UNCHANGED ret ELSE Update("ok")
  /\ UNCHANGED <<flash, protected, regions, tables, w, caller, op, res, formatted,
                 bounds>>

(* nmbm_write_logic_page and nmbm_panic_write_logic_page.                   *)
UserProgramOk ==
  /\ pc = "user_prog"
  /\ flash' = [flash EXCEPT ![op.pb] = op.val]
  /\ Finish("ok")
  /\ UNCHANGED <<marked, block_state, changed, protected, regions, tables, w,
                 caller, ret, formatted, faults, bounds>>

UserProgramFail ==
  /\ pc = "user_prog" /\ MayFail(op.pb)
  /\ flash' = [flash EXCEPT ![op.pb] = Junk]
  /\ faults' = faults + 1
  /\ block_state' = [block_state EXCEPT ![op.pb] = "need_remap"]
  /\ changed' = (changed \/ block_state' # block_state)
  /\ Update("err")
  /\ UNCHANGED <<marked, protected, regions, tables, w, caller, op, res,
                 formatted, bounds>>

(* nmbm_mark_bad_block.                                                     *)
Unmap ==
  /\ pc = "unmap"
  /\ block_mapping' = [block_mapping EXCEPT ![op.lb] = Unmapped]
  /\ pc' = "user_mark"
  /\ UNCHANGED <<block_state, changed, protected, regions, data_block_count,
                 mapping_blocks_top_ba, signature_ba, write_count,
                 info_table_cache, w, control>>
  /\ RamStep

(* nmbm_detach.                                                             *)
Detach ==
  /\ CanCall("detach")
  /\ calls' = calls + 1
  /\ op' = [NoOp EXCEPT !.kind = "detach"]
  /\ res' = "none"
  /\ Update("detached")
  /\ UNCHANGED <<chip, block_state, changed, protected, regions, tables, w,
                 caller, formatted, faults, boots>>

---------------------------------------------------------------------------------
(* Power.                                                                   *)

NoMapping == [lb \in LogicBlocks |-> Unmapped]
NoTable == [kind |-> "table", count |-> 0, state |-> AllGood, mapping |-> NoMapping]

(* The instance in RAM is gone.                                             *)
PowerOff ==
  /\ block_state' = AllGood /\ block_mapping' = NoMapping
  /\ data_block_count' = 0 /\ main_table_ba' = 0 /\ backup_table_ba' = 0
  /\ mapping_blocks_ba' = 0 /\ mapping_blocks_top_ba' = 0 /\ signature_ba' = 0
  /\ write_count' = 0 /\ info_table_cache' = NoTable
  /\ changed' = FALSE /\ protected' = FALSE
  /\ pc' = "off" /\ w' = NoJob /\ caller' = "none" /\ ret' = "none"
  /\ op' = NoOp /\ res' = "none"

Detached ==
  /\ pc = "detached"
  /\ PowerOff
  /\ UNCHANGED <<chip, formatted, faults, bounds>>

(* What a block can hold when power is lost while it is worked on.          *)
Interrupted ==
  CASE pc = "erase"      -> [ba |-> w.ba, left |-> {flash[w.ba], Blank, Junk}]
    [] pc = "prog"       -> [ba |-> w.ba, left |-> {flash[w.ba], Junk} \cup
                               (IF w.mode = "sig" THEN {Sig} ELSE {})]
    [] pc = "user_erase" -> [ba |-> op.pb, left |-> {flash[op.pb], Blank, Junk}]
    [] pc = "user_prog"  -> [ba |-> op.pb, left |-> {flash[op.pb], Junk}]
    [] OTHER             -> [ba |-> 0, left |-> {flash[0]}]

PowerCut ==
  /\ pc # "off" /\ boots < MaxBoots
  /\ \E c \in Interrupted.left : flash' = [flash EXCEPT ![Interrupted.ba] = c]
  /\ marked' = marked
  /\ formatted' = (formatted /\ HoldsTable')
  /\ PowerOff
  /\ UNCHANGED <<faults, bounds>>

Init ==
  /\ flash = [b \in Blocks |-> Blank]
  /\ marked = FactoryBad
  /\ block_state = AllGood /\ block_mapping = NoMapping
  /\ data_block_count = 0 /\ main_table_ba = 0 /\ backup_table_ba = 0
  /\ mapping_blocks_ba = 0 /\ mapping_blocks_top_ba = 0 /\ signature_ba = 0
  /\ write_count = 0 /\ info_table_cache = NoTable
  /\ changed = FALSE /\ protected = FALSE
  /\ pc = "off" /\ w = NoJob /\ caller = "none" /\ ret = "none"
  /\ op = NoOp /\ res = "none"
  /\ formatted = FALSE
  /\ calls = 0 /\ faults = 0 /\ boots = 0

Driver ==
  \/ EraseOk \/ EraseFail \/ ProgramOk \/ ProgramFail \/ MarkBlock
  \/ RebuildMain \/ RebuildBackup \/ Cleaned
  \/ RescueFront \/ RescueBehind \/ RescueBehindCleaned
  \/ UpdateMain \/ UpdateBackup
  \/ UpdateOver \/ UpdateOnce \/ OnceBackup \/ OnceMain
  \/ RescueTemporary \/ RescueNewMain
  \/ MapForErase \/ MapFailed \/ PoolClosed
  \/ SigWritten \/ CreateTables \/ RemapTail \/ Created
  \/ LeaveUpdate \/ LeaveLoad \/ LeaveCreate
  \/ EraseRetry \/ UserEraseOk \/ UserEraseFail \/ UserMark
  \/ UserProgramOk \/ UserProgramFail \/ Unmap \/ Detached

Attach == CreateNew \/ LoadExisting \/ CreateExisting \/ AttachFails

User ==
  \/ \E lb \in LogicBlocks :
       \/ \E kind \in {"read", "write", "erase", "markbad"} : Refuse(kind, lb)
       \/ Read(lb) \/ BeginErase(lb) \/ BeginMarkBad(lb)
       \/ \E v \in Values : BeginWrite(lb, v)
  \/ Detach

Next == Driver \/ Attach \/ User \/ PowerCut

Spec == Init /\ [][Next]_vars

(* The driver's code runs on in the thread of the call.                     *)
FairSpec == Spec /\ WF_vars(Driver)

---------------------------------------------------------------------------------
Steps == {"off", "failed", "idle", "erase", "prog", "mark", "ret", "leave",
          "update", "map", "map_failed", "pool_closed", "create", "remap",
          "created", "retry", "user_erase", "user_mark", "user_prog", "unmap",
          "detached"}
Continuations == {"none", "sig", "rebuild_main", "rebuild_backup", "cleaned",
                  "front", "behind", "behind_cleaned", "update_main",
                  "update_backup", "once_backup", "once_main", "temporary",
                  "new_main"}
Jobs == [mode : {"none", "sig", "table", "range"}, from : Nat, ba : Int,
         lim : Nat, then : Continuations, ok : BOOLEAN]
Returns == {"none", "ok", "err", "retry", "pool_closed", "created", "detached"}
Kinds   == {"none", "attach", "erase", "write", "markbad", "detach"}

(* Type invariant: the values each variable can hold, and that a block the  *)
(* loops of nmbm_write_mgmt_range, nmbm_write_signature and nmbm_erase_range *)
(* work on is one of the range they were given.                             *)
TypeOK ==
  /\ flash \in [Blocks -> Contents] /\ marked \subseteq Blocks
  /\ block_state \in [Blocks -> BlockStates]
  /\ block_mapping \in Mappings
  /\ data_block_count \in 0 .. MgmtStart
  /\ main_table_ba \in Nat /\ backup_table_ba \in Nat
  /\ mapping_blocks_ba \in Nat /\ mapping_blocks_top_ba \in Nat
  /\ signature_ba \in Blocks
  /\ write_count \in Nat
  /\ info_table_cache \in Tables
  /\ changed \in BOOLEAN /\ protected \in BOOLEAN /\ formatted \in BOOLEAN
  /\ pc \in Steps
  /\ w \in Jobs
  /\ pc \in {"erase", "prog", "mark"} => w.ba \in Ahead(w) /\ w.ba \in Blocks
  /\ caller \in {"none", "load", "create", "update"}
  /\ ret \in Returns
  /\ op \in [kind : Kinds, lb : LogicBlocks, pb : Blocks,
             val : {Blank, Junk} \cup {Data(v) : v \in Values}]
  /\ res \in {"none", "ok", "err", "rofs", "inval"}
  /\ calls \in Nat /\ faults \in Nat /\ boots \in Nat

Between == pc = "idle"   \* no call in progress

(* MainTableExists: nmbm_update_info_table_once never takes its goto        *)
(* rebuild_tables for want of a main table.                                 *)
MainTableExists == pc = "update" /\ ~protected => main_table_ba # 0

(* No two logical blocks share a physical block ("Map a bad block to a      *)
(* unused spare block", nmbm_map_block).                                    *)
NoSharedBlock ==
  \A a, b \in LogicBlocks : a # b /\ block_mapping[a] # Unmapped
                              => block_mapping[a] # block_mapping[b]

(* Writing or cleaning the info tables (nmbm_write_mgmt_range,              *)
(* nmbm_erase_range) never touches a block that a logical block is mapped   *)
(* to, wherever the tables have moved to.                                   *)
TablesSpareData ==
  [][w.mode \in {"table", "range"} /\ pc \in {"erase", "prog", "mark"}
       => \A lb \in LogicBlocks :
            w.ba # block_mapping[lb] ]_chip

(* Once the layer has found or written its signature, no operation changes  *)
(* that block: a remapped block, a table or a cleaned range never reaches   *)
(* it, so the next attach finds the layer again.                            *)
SignatureKept ==
  [][signature_ba # 0 => flash'[signature_ba] = flash[signature_ba] ]_vars

(* Every call, and every attach, returns however many operations on the     *)
(* flash fail: the retry loops of nmbm_erase_logic_block and                *)
(* nmbm_update_info_table, and the searches for another block, run out.     *)
Settled == pc \in {"idle", "failed", "off"}
EveryCallReturns == []<>Settled

---------------------------------------------------------------------------------
(* The inductive invariant behind SignatureKept and MainTableExists, in     *)
(* parts.                                                                   *)

Working == pc \in {"erase", "prog", "mark", "ret"}
TableSteps == Continuations \ {"none", "sig", "cleaned", "behind_cleaned"}
RangeSteps == {"cleaned", "behind_cleaned"}
InArea(ba) == MgmtStart <= ba /\ ba < signature_ba

(* The signature lies in the management area, and nothing else looks like it. *)
SignaturePlace ==
  /\ \A b \in Blocks : flash[b] = Sig => MgmtStart < b
  /\ signature_ba # 0 => MgmtStart < signature_ba

(* Where the instance in RAM points to, once the signature is known.        *)
Area ==
  signature_ba # 0 =>
    /\ main_table_ba # 0 => InArea(main_table_ba)
    /\ backup_table_ba # 0 => InArea(backup_table_ba)
    /\ pc \notin {"create", "failed"} =>
         InArea(mapping_blocks_ba) /\ InArea(mapping_blocks_top_ba)
    /\ \A lb \in LogicBlocks : block_mapping[lb] # signature_ba
    /\ op.pb # signature_ba

(* Before that: no tables, and the mapping built in the data area.          *)
NoArea ==
  signature_ba = 0 =>
    /\ pc \in {"off", "failed"} \/ (Working /\ w.mode = "sig")
    /\ main_table_ba = 0 /\ backup_table_ba = 0
    /\ mapping_blocks_ba = 0 /\ mapping_blocks_top_ba = 0
    /\ \A lb \in LogicBlocks : block_mapping[lb] < MgmtStart
    /\ op.pb = 0

(* A running loop stays in the area, below the signature.                   *)
Confined(job) ==
  \/ /\ job.mode = "sig" /\ job.then = "sig" /\ signature_ba = 0
     /\ job.lim = MgmtStart /\ job.ba < BlockCount
  \/ /\ \/ job.mode = "table" /\ job.then \in TableSteps
        \/ job.mode = "range" /\ job.then \in RangeSteps
     /\ MgmtStart <= job.from /\ MgmtStart <= job.ba
     /\ job.lim < signature_ba

(* What the code behind a loop relies on.                                   *)
Work ==
  Working =>
    /\ Confined(w)
    /\ pc = "ret" /\ w.ok /\ w.mode # "range" => w.ba \in Ahead(w)
    /\ w.then \in {"new_main", "behind_cleaned"} =>
         MgmtStart <= w.lim /\ w.lim + 1 < signature_ba
    /\ w.then \in {"once_backup", "temporary", "update_main", "update_backup"}
         => backup_table_ba # 0
    /\ w.then = "once_backup" => main_table_ba # 0

(* There is a main table, but for the rebuild of the tables.                *)
MainThere ==
  \/ main_table_ba # 0 \/ protected
  \/ pc \in {"off", "failed", "create"}
  \/ Working /\ w.then \in {"sig", "rebuild_main"}

Off == pc = "off" => signature_ba = 0 /\ ~protected

(* A running nmbm_update_info_table knows where to go back to, and the erase *)
(* that it goes back to has a block to retry with.                          *)
UpdateRunning == pc = "update" \/ (caller = "update" /\ (Working \/ pc = "leave"))
UpdateReturns ==
  /\ UpdateRunning => ret # "none"
  /\ pc = "retry" \/ (UpdateRunning /\ ret = "retry")
       => block_mapping[op.lb] # Unmapped
  /\ pc = "create" \/ (Working /\ w.then = "sig") => caller = "create"

IInv == /\ TypeOK /\ SignaturePlace /\ Area /\ NoArea /\ Work /\ MainThere /\ Off
        /\ UpdateReturns

---------------------------------------------------------------------------------
(* NoSharedBlock and TablesSpareData, and what they need.  Neither is true  *)
(* of every behaviour: nmbm_map_block lowers mapping_blocks_top_ba by one   *)
(* although it may have gone past bad blocks, and an attach may take two    *)
(* different tables with one write count for copies of each other.          *)

(* The pool is bad nowhere above the block a remap takes.                   *)
RemapTakesTop ==
  pc \in {"map", "remap"} /\ ~PoolEmpty => Candidates \subseteq {mapping_blocks_top_ba}

(* Two tables an attach could load that carry the same write count hold the *)
(* same mapping: nmbm_load_info_table tells them apart by the count only.   *)
CountIdentifies ==
  \A sig \in FoundSig :
    \A a, b \in Hits(MgmtStart, sig, AllGood) :
      flash[a].count = flash[b].count => flash[a].mapping = flash[b].mapping

OneToOne(m) ==
  \A a, b \in LogicBlocks : a # b /\ m[a] # Unmapped => m[a] # m[b]

(* No block is mapped into the management area up to top.                   *)
ClearTo(m, top) == \A lb \in LogicBlocks : m[lb] \notin MgmtStart .. top

(* When a table was written there was still a block between it and the ones *)
(* that are mapped.                                                         *)
TablesAside ==
  \A b \in Blocks : flash[b].kind = "table" =>
    OneToOne(flash[b].mapping) /\ ClearTo(flash[b].mapping, b + 1)

MappedAside ==
  /\ OneToOne(block_mapping)
  /\ ClearTo(block_mapping, mapping_blocks_top_ba)
  /\ pc = "create" => ClearTo(block_mapping, BlockCount)

(* An attach whose backup table lies where the main one has mapped blocks:  *)
(* it fails to bring the backup up to date, and protects the device.        *)
Doomed ==
  \/ /\ caller = "load" /\ ~w.ok
     /\ pc = "leave" \/ (pc = "ret" /\ w.then = "update_backup")
  \/ protected /\ (pc \in {"idle", "detached"} \/ (pc = "update" /\ ret = "detached"))

(* The main table, the backup table, the pool and its top, in this order.   *)
RegionsInOrder ==
  /\ main_table_ba <= mapping_blocks_ba /\ backup_table_ba <= mapping_blocks_ba
  /\ backup_table_ba # 0 => main_table_ba <= backup_table_ba
  /\ mapping_blocks_ba <= mapping_blocks_top_ba \/ Doomed

(* What a loop writes to lies below the mapped blocks, and what it writes   *)
(* is the mapping in force; where its continuation takes it to.             *)
LoopAside ==
  Working /\ w.mode # "sig" =>
    /\ w.from <= w.ba
    /\ w.lim <= mapping_blocks_top_ba
    /\ pc = "prog" => w.mode = "table"
    /\ w.mode = "table" => info_table_cache.mapping = block_mapping
    /\ w.then \in {"behind", "temporary", "rebuild_backup"} => mapping_blocks_ba <= w.from
    /\ w.then = "behind_cleaned" =>
         mapping_blocks_ba <= w.lim /\ w.lim < mapping_blocks_top_ba
    /\ w.then \in {"once_backup", "update_backup"} => backup_table_ba <= w.from
    /\ w.then = "update_main" => w.lim <= backup_table_ba
    /\ w.then = "once_main" => backup_table_ba = 0 \/ w.lim <= backup_table_ba
    /\ w.then = "new_main" => w.lim < mapping_blocks_ba
    /\ w.then = "front" => w.lim <= main_table_ba
    /\ w.then = "rebuild_main" => backup_table_ba = 0

AsideInv == IInv /\ TablesAside /\ MappedAside /\ RegionsInOrder /\ LoopAside

---------------------------------------------------------------------------------
(* TablesCurrent, and what it needs.                                        *)

(* The table in block b gives the mapping in force back.                    *)
HoldsMapping(b) ==
  /\ flash[b].kind = "table" /\ b \notin marked
  /\ \A lb \in LogicBlocks :
       block_mapping[lb] # Unmapped => flash[b].mapping[lb] = block_mapping[lb]

TablesHold ==
  HoldsMapping(main_table_ba) /\ (backup_table_ba # 0 => HoldsMapping(backup_table_ba))

(* Between calls either table on record would do: the layer survives the    *)
(* loss of one of them.                                                     *)
TablesCurrent == Between /\ ~protected => TablesHold

(* No table lies in the pool, and no two are in one block.                  *)
TablesApart ==
  /\ main_table_ba # 0 => main_table_ba < mapping_blocks_ba
  /\ backup_table_ba # 0 =>
       main_table_ba < backup_table_ba /\ backup_table_ba < mapping_blocks_ba

(* The block of a call is not one that may hold a table.                    *)
OpAside ==
  pc \in {"user_erase", "user_mark", "user_prog", "unmap"} =>
    op.pb \notin MgmtStart .. mapping_blocks_top_ba

(* While no table procedure runs the tables are right, or a remap has made  *)
(* them out of date and is followed by an update.                           *)
Rests == {"idle", "retry", "map", "map_failed", "pool_closed", "user_erase", "user_mark",
          "user_prog", "unmap", "created", "detached", "remap", "update"}
RestTables ==
  pc \in Rests => \/ protected \/ TablesHold
                  \/ changed /\ pc \in {"remap", "update"}

(* The tables that the continuation of a loop puts or leaves on record.     *)
Relied ==
  CASE w.then \in {"rebuild_backup", "front", "behind", "update_backup"} -> {main_table_ba}
    [] w.then = "cleaned" -> {main_table_ba, backup_table_ba}
    [] w.then = "once_main" -> {backup_table_ba} \ {0}
    [] w.then \in {"temporary", "update_main"} -> {backup_table_ba}
    [] w.then = "new_main" -> {w.lim}
    [] w.then = "behind_cleaned" -> {main_table_ba, w.lim}
    [] OTHER -> {}

(* The loop does not work on them, and what it has written is good itself.  *)
LoopTables ==
  Working /\ w.mode # "sig" =>
    /\ \A b \in Relied : b \in Blocks /\ HoldsMapping(b) /\ b \notin w.from .. w.lim - 1
    /\ pc \in {"erase", "prog"} => w.ba \notin marked
    /\ pc = "ret" /\ w.ok /\ w.mode = "table" => HoldsMapping(w.ba)
    /\ w.then \in {"front", "behind", "behind_cleaned", "update_main", "update_backup"}
         => caller = "load"
    /\ w.then \in {"rebuild_backup", "front", "behind"} => backup_table_ba = 0

(* A procedure that succeeds leaves right tables; an update never fails but *)
(* by protecting the device.                                                *)
LeaveTables ==
  pc = "leave" => IF w.ok THEN TablesHold ELSE protected \/ caller # "update"

(* CurrentInv: the tables a procedure counts on give the mapping in force   *)
(* back and no loop works on them; a procedure that ends leaves such tables *)
(* on record, or protects the device, and no call of the user reaches them. *)
CurrentInv ==
  AsideInv /\ TablesApart /\ OpAside /\ RestTables /\ LoopTables /\ LeaveTables

---------------------------------------------------------------------------------
(* LastTableErasedOnlyAlone, and what it needs.                             *)

(* While the layer has two tables no single operation on the flash takes    *)
(* the last one away (the order nmbm_update_info_table_once works in).      *)
LastTableErasedOnlyAlone ==
  [][formatted /\ HoldsTable /\ ~HoldsTable' => backup_table_ba = 0]_chip

(* The next attach finds the signature that is in RAM.  While the signature *)
(* is written there is no other, and no table.                              *)
SignatureFound ==
  /\ signature_ba # 0 => FoundSig = {signature_ba}
  /\ Working /\ w.mode = "sig" =>
       /\ \A b \in Blocks : flash[b].kind # "table"
       /\ SigBlocks = IF pc = "ret" /\ w.ok THEN {w.ba} ELSE {}
       /\ pc \in {"erase", "prog"} => w.ba \notin marked

(* nmbm_check_info_table accepts every table there is, but for its place.   *)
TablesFindable ==
  \A b \in Blocks : flash[b].kind = "table" =>
    /\ flash[b].state[b] = "good"
    /\ FoundSig # {}
    /\ \A sig \in FoundSig, lb \in LogicBlocks : flash[b].mapping[lb] # sig

(* A loop works on a good block, and the table it writes calls it good.     *)
LoopOnGood ==
  Working =>
    /\ pc \in {"erase", "prog"} => Good(w.ba)
    /\ w.mode = "table" =>
         \A b \in Blocks : Good(b) => info_table_cache.state[b] = "good"

(* An update that has not begun, or has lost the backup table, starts from  *)
(* tables that can be read, out of date or not.                             *)
IsTable(b) == flash[b].kind = "table" /\ b \notin marked
UpdateHasTables ==
  /\ pc \in {"remap", "update"} /\ ~protected =>
       IsTable(main_table_ba) /\ (backup_table_ba # 0 => IsTable(backup_table_ba))
  /\ Working /\ w.then = "once_backup" => IsTable(main_table_ba) /\ main_table_ba < w.from

(* No table procedure runs on a protected device, and one that is protected *)
(* with two tables accepts nothing but a detach.                            *)
ProtectedRests ==
  protected =>
    /\ ~Working /\ pc # "create"
    /\ backup_table_ba # 0 =>
         pc \in {"idle", "detached"} \/ (pc = "update" /\ ret = "detached")

(* FindInv: the tables the layer counts on are those an attach would find.  *)
FindInv ==
  CurrentInv /\ SignatureFound /\ TablesFindable /\ LoopOnGood /\ UpdateHasTables
    /\ ProtectedRests

=================================================================================
