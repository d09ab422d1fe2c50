------------------------------- MODULE NmbmProofs -------------------------------
(***************************************************************************)
(* What holds of the mapped-block layer for every chip, every set of       *)
(* failing blocks and any number of calls, faults and power cuts: the types *)
(* are right, the signature is never overwritten, and an update always has *)
(* a main table to start from.  And what holds as long as the pool is bad   *)
(* only below the block a remap takes and the write count identifies a      *)
(* mapping: no block is shared, the tables stay off the data, the tables on *)
(* record hold the mapping in force, the next attach finds them, and the    *)
(* last one is erased only when there is no other.                          *)
(***************************************************************************)
EXTENDS Nmbm, FiniteSetTheorems, WellFoundedInduction, TLAPS

---------------------------------------------------------------------------------
(* The walks over the state table and the searches stay in their range.     *)

(* nmbm_block_walk_asc finds a block of [ba, limit).                        *)
LEMMA WalkAscRange ==
  ASSUME NEW ba \in Int, NEW n \in Int, NEW limit \in Int,
         NEW b \in WalkAsc(ba, n, limit)
  PROVE  b \in Blocks /\ ba <= b /\ b < limit
  BY ChipAssumption DEF WalkAsc, Smaller, Blocks

(* nmbm_block_walk_desc finds a block of (limit, ba].                       *)
LEMMA WalkDescRange ==
  ASSUME NEW ba \in Int, NEW n \in Int, NEW limit \in Int,
         NEW b \in WalkDesc(ba, n, limit)
  PROVE  b \in Blocks /\ limit < b /\ b <= ba
  BY ChipAssumption DEF WalkDesc, Blocks

(* nmbm_try_reserve_blocks finds a block of [ba, limit).                    *)
LEMMA ReserveRange ==
  ASSUME NEW ba \in Int, NEW limit \in Int, NEW b \in Reserve(ba, limit)
  PROVE  b \in Blocks /\ ba <= b /\ b < limit
  <1>1. PICK n \in 0 .. SpareBlocks : b \in WalkAsc(ba, n, limit)
    BY DEF Reserve
  <1>2. n \in Int
    BY <1>1, ChipAssumption
  <1> QED
    BY <1>1, <1>2, WalkAscRange

(* The pool of a new chip ends below the signature.                         *)
LEMMA PoolTopRange ==
  ASSUME signature_ba \in Blocks, NEW t \in PoolTop
  PROVE  t \in Blocks /\ MgmtStart < t /\ t < signature_ba
  <1>1. signature_ba \in Int /\ MgmtStart \in Int
    BY ChipAssumption DEF Blocks
  <1>2. t \in Blocks /\ MgmtStart < t /\ t <= signature_ba
    BY <1>1, WalkDescRange DEF PoolTop
  <1>3. t # signature_ba
    <2>1. SUFFICES ASSUME t = signature_ba PROVE FALSE
      OBVIOUS
    <2>2. {c \in t + 1 .. signature_ba : Good(c)} = {}
      BY <2>1, <1>1
    <2>3. Cardinality({c \in t + 1 .. signature_ba : Good(c)}) = 1
      BY DEF PoolTop, WalkDesc
    <2> QED
      BY <2>2, <2>3, FS_EmptySet
  <1> QED
    BY <1>1, <1>2, <1>3 DEF Blocks

(* What a search finds is a table in the area that fits the signature.      *)
LEMMA HitsRange ==
  ASSUME NEW ba \in Int, NEW sig \in Blocks, NEW s,
         NEW b \in Hits(ba, sig, s), flash \in [Blocks -> Contents]
  PROVE  /\ b \in Blocks /\ ba <= b /\ b + 1 < sig
         /\ flash[b] \in Tables
         /\ \A lb \in LogicBlocks : flash[b].mapping[lb] # sig
  <1>1. b \in Blocks /\ ba <= b /\ b < sig - 1 /\ flash[b].kind = "table"
        /\ Consistent(b, sig)
    BY DEF Hits, SearchRange
  <1>2. flash[b] \in Contents
    BY <1>1
  <1>3. flash[b] \in Tables
    BY <1>1, <1>2 DEF Contents, Blank, Junk, Sig, Data
  <1> QED
    BY <1>1, <1>3 DEF Consistent, Blocks

(* The pool that goes with the kept table ends in the area.                 *)
LEMMA TopRange ==
  ASSUME NEW k \in Blocks, NEW sig \in Blocks, k < sig, NEW t \in Top(k, sig)
  PROVE  t \in Blocks /\ k <= t /\ t < sig
  BY ChipAssumption DEF Top, Least, Blocks

---------------------------------------------------------------------------------
(* The loop over the blocks of a range.                                     *)

States == [Blocks -> BlockStates]

(* Confined, for the signature known after the step.                        *)
ConfinedTo(job, sig) ==
  \/ /\ job.mode = "sig" /\ job.then = "sig" /\ sig = 0
     /\ job.lim = MgmtStart /\ job.ba < BlockCount
  \/ /\ \/ job.mode = "table" /\ job.then \in TableSteps
        \/ job.mode = "range" /\ job.then \in RangeSteps
     /\ MgmtStart <= job.from /\ MgmtStart <= job.ba
     /\ job.lim < sig

(* The blocks in front of a confined loop are blocks of the chip, above the *)
(* start of the management area and, but for the signature's own loop,      *)
(* below the signature.                                                     *)
LEMMA AheadRange ==
  ASSUME NEW job \in Jobs, NEW sig \in Blocks, ConfinedTo(job, sig),
         NEW b \in Ahead(job)
  PROVE  /\ b \in Blocks /\ MgmtStart <= b
         /\ job.mode = "sig" => MgmtStart < b
         /\ job.mode # "sig" => b < job.lim
  BY ChipAssumption DEF ConfinedTo, Ahead, Jobs, Blocks

(* Seek keeps the job and stops at a block ahead, or at the end.            *)
LEMMA SeekStep ==
  ASSUME NEW job \in Jobs, NEW sig \in Blocks, ConfinedTo(job, sig),
         NEW s \in States, NEW c \in BOOLEAN, marked \subseteq Blocks,
         Seek(job, s, c)
  PROVE  /\ w' \in Jobs /\ ConfinedTo(w', sig)
         /\ w'.then = job.then /\ w'.lim = job.lim /\ w'.mode = job.mode
         /\ pc' \in {"erase", "ret"}
         /\ pc' = "erase" => w'.ba \in Ahead(w') /\ w'.ba \in Blocks
         /\ pc' = "ret" /\ w'.ok => w'.mode = "range"
         /\ block_state' \in States /\ changed' \in BOOLEAN
  <1>1. ASSUME NEW S PROVE Record(s, S) \in States
    BY DEF Record, States, BlockStates
  <1>2. CASE \E b \in Ahead(job) :
               /\ w' = [job EXCEPT !.ba = b]
               /\ pc' = "erase"
               /\ block_state' = Record(s, Passed(job, b))
               /\ changed' = (c \/ FoundMarked(s, Passed(job, b)) # {})
    <2>1. PICK b \in Ahead(job) :
               /\ w' = [job EXCEPT !.ba = b]
               /\ pc' = "erase"
               /\ block_state' = Record(s, Passed(job, b))
               /\ changed' = (c \/ FoundMarked(s, Passed(job, b)) # {})
      BY <1>2
    <2>2. /\ b \in Blocks /\ MgmtStart <= b
          /\ job.mode = "sig" => MgmtStart < b
          /\ job.mode # "sig" => b < job.lim
      BY AheadRange
    <2>3. b \in Int /\ b < BlockCount
      BY <2>2, ChipAssumption DEF Blocks
    <2>4. w' \in Jobs
      BY <2>1, <2>3 DEF Jobs
    <2>5. /\ w'.ba = b /\ w'.then = job.then /\ w'.lim = job.lim
          /\ w'.mode = job.mode /\ w'.from = job.from
      BY <2>1 DEF Jobs
    <2>6. ConfinedTo(w', sig)
      BY <2>2, <2>3, <2>5 DEF ConfinedTo
    <2>7. b \in Ahead(w')
      BY <2>2, <2>3, <2>5, ChipAssumption DEF Ahead
    <2> QED
      BY <1>1, <2>1, <2>2, <2>4, <2>5, <2>6, <2>7
  <1>3. CASE /\ w' = [job EXCEPT !.ok = (job.mode = "range")]
             /\ pc' = "ret"
             /\ block_state' = Record(s, Ahead(job))
             /\ changed' = (c \/ FoundMarked(s, Ahead(job)) # {})
    <2>1. w' \in Jobs
      BY <1>3 DEF Jobs
    <2>2. /\ w'.ba = job.ba /\ w'.then = job.then /\ w'.lim = job.lim
          /\ w'.mode = job.mode /\ w'.from = job.from
          /\ w'.ok = (job.mode = "range")
      BY <1>3 DEF Jobs
    <2>3. ConfinedTo(w', sig)
      BY <2>2 DEF ConfinedTo
    <2> QED
      BY <1>1, <1>3, <2>1, <2>2, <2>3
  <1> QED
    BY <1>2, <1>3 DEF Seek

(* A loop that starts in the area.                                          *)
LEMMA JobStarts ==
  ASSUME NEW sig \in Blocks, NEW lo \in Int, MgmtStart <= lo,
         NEW hi \in Nat, hi < sig, NEW mode, NEW then,
         \/ mode = "table" /\ then \in TableSteps
         \/ mode = "range" /\ then \in RangeSteps
  PROVE  /\ Job(mode, lo, hi, then) \in Jobs
         /\ ConfinedTo(Job(mode, lo, hi, then), sig)
         /\ Job(mode, lo, hi, then).then = then
         /\ Job(mode, lo, hi, then).mode = mode
         /\ Job(mode, lo, hi, then).lim = hi
  <1>1. lo \in Nat
    BY ChipAssumption
  <1> QED
    BY <1>1 DEF Job, Jobs, ConfinedTo, TableSteps, RangeSteps, Continuations

(* A job for a table or a clean-up, entered in the area.                    *)
LEMMA StartJob ==
  ASSUME NEW sig \in Blocks, sig = signature_ba',
         NEW lo \in Int, MgmtStart <= lo, NEW hi \in Nat, hi < sig,
         NEW mode, NEW then,
         \/ mode = "table" /\ then \in TableSteps
         \/ mode = "range" /\ then \in RangeSteps,
         NEW s \in States, NEW c \in BOOLEAN, marked \subseteq Blocks,
         Seek(Job(mode, lo, hi, then), s, c)
  PROVE  /\ w' \in Jobs /\ Confined(w)'
         /\ w'.then = then /\ w'.lim = hi /\ w'.mode = mode
         /\ pc' \in {"erase", "ret"}
         /\ pc' = "erase" => w'.ba \in Ahead(w)' /\ w'.ba \in Blocks
         /\ pc' = "ret" /\ w'.ok => w'.mode = "range"
         /\ block_state' \in States /\ changed' \in BOOLEAN
  <1> DEFINE job == Job(mode, lo, hi, then)
  <1>1. job \in Jobs /\ ConfinedTo(job, sig) /\ job.then = then
        /\ job.mode = mode /\ job.lim = hi
    BY JobStarts
  <1> HIDE DEF job
  <1>2. Seek(job, s, c)
    BY DEF job
  <1>3. /\ w' \in Jobs /\ ConfinedTo(w', sig)
        /\ w'.then = job.then /\ w'.lim = job.lim /\ w'.mode = job.mode
        /\ pc' \in {"erase", "ret"}
        /\ pc' = "erase" => w'.ba \in Ahead(w') /\ w'.ba \in Blocks
        /\ pc' = "ret" /\ w'.ok => w'.mode = "range"
        /\ block_state' \in States /\ changed' \in BOOLEAN
    BY <1>1, <1>2, SeekStep
  <1>4. Confined(w)'
    BY <1>3 DEF Confined, ConfinedTo
  <1>5. Ahead(w') = Ahead(w)'
    BY DEF Ahead
  <1> QED
    BY <1>1, <1>3, <1>4, <1>5

(* The loop goes on with the next block.                                    *)
LEMMA NextJob ==
  ASSUME IInv, pc \in {"erase", "mark"}, signature_ba' = signature_ba,
         NEW s \in States, NEW c \in BOOLEAN, Seek(NextBlock(w), s, c)
  PROVE  /\ w' \in Jobs /\ Confined(w)'
         /\ w'.then = w.then /\ w'.lim = w.lim /\ w'.mode = w.mode
         /\ pc' \in {"erase", "ret"}
         /\ pc' = "erase" => w'.ba \in Ahead(w)' /\ w'.ba \in Blocks
         /\ pc' = "ret" /\ w'.ok => w'.mode = "range"
         /\ block_state' \in States /\ changed' \in BOOLEAN
  <1> DEFINE job == NextBlock(w)
  <1>1. w \in Jobs /\ w.ba \in Blocks /\ Confined(w) /\ signature_ba \in Blocks
        /\ marked \subseteq Blocks
    BY DEF IInv, TypeOK, Work, Working
  <1>2. /\ job \in Jobs
        /\ job.then = w.then /\ job.lim = w.lim /\ job.mode = w.mode
        /\ job.from = w.from
        /\ job.ba = IF w.mode = "sig" THEN w.ba - 1 ELSE w.ba + 1
    <2>1. w.ba - 1 \in Int /\ w.ba + 1 \in Int
      BY <1>1 DEF Blocks
    <2> QED
      BY <1>1, <2>1 DEF NextBlock, Jobs
  <1>3. ConfinedTo(job, signature_ba)
    BY <1>1, <1>2, ChipAssumption DEF Confined, ConfinedTo, Blocks
  <1> HIDE DEF job
  <1>4. Seek(job, s, c)
    BY DEF job
  <1>5. /\ w' \in Jobs /\ ConfinedTo(w', signature_ba)
        /\ w'.then = job.then /\ w'.lim = job.lim /\ w'.mode = job.mode
        /\ pc' \in {"erase", "ret"}
        /\ pc' = "erase" => w'.ba \in Ahead(w') /\ w'.ba \in Blocks
        /\ pc' = "ret" /\ w'.ok => w'.mode = "range"
        /\ block_state' \in States /\ changed' \in BOOLEAN
    BY <1>1, <1>2, <1>3, <1>4, SeekStep
  <1>6. Confined(w)'
    BY <1>5 DEF Confined, ConfinedTo
  <1>7. Ahead(w') = Ahead(w)'
    BY DEF Ahead
  <1> QED
    BY <1>2, <1>5, <1>6, <1>7

---------------------------------------------------------------------------------
(* The operations on the flash preserve the invariant.                      *)

(* The variables that no step of a loop changes.                            *)
Frame == <<protected, regions, tables, control, bounds>>

(* A step that leaves everything but the loop and the flash alone.          *)
LEMMA LoopFrame ==
  ASSUME IInv, UNCHANGED Frame, Working, pc' \in {"erase", "prog", "mark", "ret"},
         w'.then = w.then, w'.lim = w.lim, w'.mode = w.mode, Confined(w)',
         pc' = "ret" /\ w'.ok /\ w'.mode # "range" => w'.ba \in Ahead(w)'
  PROVE  Area' /\ NoArea' /\ Work' /\ MainThere' /\ Off' /\ UpdateReturns'
  BY DEF IInv, Frame, regions, tables, control, Area, NoArea, Work, MainThere,
         Off, UpdateReturns, UpdateRunning, InArea, Working

LEMMA LoopTypes ==
  ASSUME IInv, UNCHANGED Frame, pc' \in {"erase", "prog", "mark", "ret"},
         w' \in Jobs, flash' \in [Blocks -> Contents], marked' \subseteq Blocks,
         block_state' \in States, changed' \in BOOLEAN, faults' \in Nat,
         pc' # "ret" => w'.ba \in Ahead(w)' /\ w'.ba \in Blocks
  PROVE  TypeOK'
  BY DEF IInv, Frame, regions, tables, control, bounds, TypeOK, States, Steps

LEMMA EraseOkInv == IInv /\ EraseOk => IInv'
  <1> SUFFICES ASSUME IInv, EraseOk PROVE IInv'
    OBVIOUS
  <1>1. w \in Jobs /\ w.ba \in Ahead(w) /\ w.ba \in Blocks /\ Confined(w) /\ Working
        /\ UNCHANGED Frame /\ faults' \in Nat /\ marked' \subseteq Blocks
        /\ block_state \in States /\ changed \in BOOLEAN /\ signature_ba' = signature_ba
    BY DEF IInv, TypeOK, EraseOk, Work, Working, Frame, States, tables
  <1>2. flash' \in [Blocks -> Contents] /\ SignaturePlace'
    BY <1>1 DEF IInv, SignaturePlace, EraseOk, TypeOK, Blank, Sig, Contents
  <1>3. CASE Seek(NextBlock(w), block_state, changed)
    BY <1>1, <1>2, <1>3, NextJob, LoopTypes, LoopFrame DEF EraseOk, IInv
  <1>4. CASE pc' = "prog" /\ UNCHANGED <<w, block_state, changed>>
    <2>1. Confined(w)' /\ Ahead(w)' = Ahead(w)
      BY <1>1, <1>4 DEF Confined, Ahead
    <2> QED
      BY <1>1, <1>2, <1>4, <2>1, LoopTypes, LoopFrame DEF IInv
  <1> QED
    BY <1>3, <1>4 DEF EraseOk

LEMMA LoopFailInv == IInv /\ (EraseFail \/ ProgramFail) => IInv'
  <1> SUFFICES ASSUME IInv, EraseFail \/ ProgramFail PROVE IInv'
    OBVIOUS
  <1>1. /\ w \in Jobs /\ w.ba \in Ahead(w) /\ w.ba \in Blocks /\ Confined(w)
        /\ Working /\ pc' = "mark" /\ UNCHANGED Frame /\ faults' \in Nat
        /\ UNCHANGED <<marked, block_state, changed, w>>
        /\ marked \subseteq Blocks /\ block_state \in States /\ changed \in BOOLEAN
    BY DEF IInv, TypeOK, EraseFail, ProgramFail, Work, Working, Frame, States
  <1>2. flash' \in [Blocks -> Contents] /\ SignaturePlace'
    BY <1>1
       DEF IInv, SignaturePlace, EraseFail, ProgramFail, TypeOK, Junk, Sig,
           Contents, tables
  <1>3. Confined(w)' /\ Ahead(w)' = Ahead(w)
    BY <1>1 DEF Confined, Frame, tables
  <1> QED
    BY <1>1, <1>2, <1>3, LoopTypes, LoopFrame DEF IInv

LEMMA ProgramOkInv == IInv /\ ProgramOk => IInv'
  <1> SUFFICES ASSUME IInv, ProgramOk PROVE IInv'
    OBVIOUS
  <1>1. /\ w \in Jobs /\ w.ba \in Ahead(w) /\ w.ba \in Blocks /\ Confined(w)
        /\ Working /\ pc' = "ret" /\ UNCHANGED Frame /\ faults' \in Nat
        /\ UNCHANGED <<marked, block_state, changed>> /\ w' = [w EXCEPT !.ok = TRUE]
        /\ marked \subseteq Blocks /\ block_state \in States /\ changed \in BOOLEAN
    BY DEF IInv, TypeOK, ProgramOk, Work, Working, Frame, States
  <1>2. /\ w' \in Jobs /\ w'.then = w.then /\ w'.lim = w.lim /\ w'.mode = w.mode
        /\ w'.ba = w.ba /\ w'.from = w.from
    BY <1>1 DEF Jobs
  <1>3. w.mode = "sig" => MgmtStart < w.ba
    BY <1>1, ChipAssumption DEF Confined, Ahead
  <1>4. flash' \in [Blocks -> Contents]
    BY <1>1 DEF IInv, ProgramOk, TypeOK, Contents
  <1>5. SignaturePlace'
    BY <1>1, <1>3
       DEF IInv, SignaturePlace, ProgramOk, TypeOK, Sig, Tables, tables
  <1>6. Confined(w)' /\ Ahead(w)' = Ahead(w)
    BY <1>1, <1>2 DEF Confined, Ahead, Frame, tables
  <1> QED
    BY <1>1, <1>2, <1>4, <1>5, <1>6, LoopTypes, LoopFrame DEF IInv

LEMMA MarkBlockInv == IInv /\ MarkBlock => IInv'
  <1> SUFFICES ASSUME IInv, MarkBlock PROVE IInv'
    OBVIOUS
  <1>1. /\ w.ba \in Blocks /\ Working /\ UNCHANGED Frame /\ UNCHANGED flash
        /\ block_state \in States /\ signature_ba' = signature_ba
        /\ flash \in [Blocks -> Contents]
    BY DEF IInv, TypeOK, MarkBlock, Working, Frame, States, tables
  <1>2. marked' \subseteq Blocks /\ faults' \in Nat
    BY <1>1 DEF IInv, TypeOK, MarkBlock, MarkPhys
  <1>3. SetBad(block_state, w.ba) \in States
    BY <1>1 DEF SetBad, States, BlockStates
  <1>4. SignaturePlace'
    BY <1>1 DEF IInv, SignaturePlace
  <1> QED
    BY <1>1, <1>2, <1>3, <1>4, NextJob, LoopTypes, LoopFrame DEF MarkBlock, IInv

---------------------------------------------------------------------------------
(* The table procedures: each step ends in a new loop or in Leave.          *)

(* What StartJob gives: a loop was entered.                                 *)
Entered(then, hi) ==
  /\ w' \in Jobs /\ Confined(w)' /\ w'.then = then /\ w'.lim = hi
  /\ pc' \in {"erase", "ret"}
  /\ pc' = "erase" => w'.ba \in Ahead(w)' /\ w'.ba \in Blocks
  /\ pc' = "ret" /\ w'.ok => w'.mode = "range"
  /\ block_state' \in States /\ changed' \in BOOLEAN

Usable == marked \subseteq Blocks /\ block_state \in States /\ signature_ba \in Blocks

LEMMA TableStarts ==
  ASSUME Usable, signature_ba' = signature_ba, NEW lo \in Int, MgmtStart <= lo,
         NEW hi \in Nat, hi < signature_ba, NEW then \in TableSteps,
         NEW c \in BOOLEAN, WriteTable(lo, hi, then, c)
  PROVE  Entered(then, hi)
  BY StartJob DEF WriteTable, Entered, Usable

LEMMA RangeStarts ==
  ASSUME Usable, signature_ba' = signature_ba, NEW lo \in Int, MgmtStart <= lo,
         NEW hi \in Nat, hi < signature_ba, NEW then \in RangeSteps,
         NEW c \in BOOLEAN, EraseRange(lo, hi, then, c)
  PROVE  Entered(then, hi)
  BY StartJob DEF EraseRange, Entered, Usable

LEMMA RescueStarts ==
  ASSUME Usable, signature_ba' = signature_ba, NEW ba \in Nat, ba < signature_ba,
         NEW s \in States, NEW c \in BOOLEAN, RescueSingle(ba, s, c)
  PROVE  Entered("front", ba)
  <1>1. MgmtStart \in Int /\ MgmtStart <= MgmtStart /\ "front" \in TableSteps
    BY ChipAssumption DEF TableSteps, Continuations
  <1> QED
    BY <1>1, StartJob DEF RescueSingle, Entered, Usable

(* The tables and the mapped pool lie in the area.                          *)
RegionsFit ==
  /\ main_table_ba \in Nat /\ (main_table_ba # 0 => InArea(main_table_ba))
  /\ backup_table_ba \in Nat /\ (backup_table_ba # 0 => InArea(backup_table_ba))
  /\ mapping_blocks_ba \in Nat /\ InArea(mapping_blocks_ba)

(* What a table procedure leaves alone, or sets to a value of its type.     *)
TableFrame ==
  /\ RamStep
  /\ UNCHANGED <<block_mapping, data_block_count, mapping_blocks_top_ba,
                 signature_ba, ret, op, res, formatted>>
  /\ write_count' \in Nat /\ info_table_cache' \in Tables
  /\ caller' \in {"none", "load", "create", "update"}
  /\ caller' = "update" => UpdateRunning

(* What a table procedure relies on when a loop of its own is over.         *)
LEMMA AtReturn ==
  ASSUME IInv, pc = "ret", w.then \in Continuations \ {"none", "sig"}
  PROVE  /\ Usable /\ RegionsFit /\ signature_ba # 0 /\ w \in Jobs
         /\ InArea(mapping_blocks_top_ba) /\ mapping_blocks_top_ba \in Nat
         /\ w.lim < signature_ba /\ MgmtStart <= w.from /\ signature_ba \in Nat
         /\ w.then \in TableSteps => w.mode = "table"
         /\ w.ok /\ w.mode = "table" =>
              /\ MgmtStart <= w.ba /\ w.ba \in Nat
              /\ w.ba < w.lim /\ w.ba + 1 < signature_ba /\ w.ba < signature_ba
         /\ changed \in BOOLEAN /\ 0 < MgmtStart /\ MgmtStart \in Nat
         /\ MainThere /\ Work
  <1>1. w \in Jobs /\ Confined(w) /\ w.then # "sig"
    BY DEF IInv, TypeOK, Work, Working
  <1>2. /\ \/ w.mode = "table" /\ w.then \in TableSteps
           \/ w.mode = "range" /\ w.then \in RangeSteps
        /\ MgmtStart <= w.from /\ MgmtStart <= w.ba /\ w.lim < signature_ba
    BY <1>1 DEF Confined
  <1>3. signature_ba # 0
    BY <1>1, <1>2 DEF Jobs
  <1>4. Usable /\ RegionsFit /\ InArea(mapping_blocks_top_ba)
        /\ mapping_blocks_top_ba \in Nat /\ changed \in BOOLEAN /\ signature_ba \in Nat
    BY <1>3 DEF IInv, TypeOK, Usable, RegionsFit, Area, States, Blocks
  <1>5. w.then \in TableSteps => w.mode = "table"
    BY <1>2 DEF TableSteps, RangeSteps
  <1>6. w.ok /\ w.mode = "table" =>
          w.ba \in Nat /\ w.ba < w.lim /\ w.ba + 1 < signature_ba
          /\ w.ba < signature_ba
    <2>1. w.ok /\ w.mode = "table" => w.ba \in Ahead(w)
      BY DEF IInv, Work, Working
    <2> QED
      BY <1>1, <1>2, <2>1, <1>4, ChipAssumption DEF Ahead, Jobs
  <1> QED
    BY <1>1, <1>2, <1>3, <1>4, <1>5, <1>6, ChipAssumption DEF IInv

LEMMA FrameKept ==
  ASSUME IInv, pc = "ret", RamStep, UNCHANGED <<tables, control>>
  PROVE  TableFrame
  BY DEF IInv, TypeOK, tables, control, TableFrame, UpdateRunning, Working

(* A step into another loop.                                                *)
LEMMA EnterStep ==
  ASSUME IInv, TableFrame, UNCHANGED protected, pc \notin {"create", "failed", "off"},
         signature_ba # 0, RegionsFit', NEW then \in Continuations \ {"sig"}, NEW hi,
         Entered(then, hi),
         main_table_ba' # 0 \/ protected \/ then = "rebuild_main",
         then \in {"new_main", "behind_cleaned"} =>
           MgmtStart <= hi /\ hi + 1 < signature_ba,
         then \in {"once_backup", "temporary", "update_main", "update_backup"}
           => backup_table_ba' # 0,
         then = "once_backup" => main_table_ba' # 0
  PROVE  IInv'
  <1>1. TypeOK'
    BY DEF IInv, TypeOK, TableFrame, RamStep, chip, bounds, RegionsFit, Entered,
           States, Steps
  <1>2. SignaturePlace' /\ NoArea' /\ Off' /\ UpdateReturns'
    BY DEF IInv, SignaturePlace, TableFrame, RamStep, chip, NoArea, Off,
           UpdateReturns, UpdateRunning, Entered
  <1>3. Area'
    BY DEF IInv, Area, TableFrame, RegionsFit, InArea
  <1>4. Work' /\ MainThere'
    BY DEF Work, MainThere, Working, Entered, TableFrame
  <1> QED
    BY <1>1, <1>2, <1>3, <1>4 DEF IInv

(* A step to the end of the procedure.                                      *)
LEMMA LeaveStep ==
  ASSUME IInv, TableFrame, pc \notin {"create", "failed", "off"}, signature_ba # 0,
         RegionsFit', protected' \in BOOLEAN, block_state' \in States,
         changed' \in BOOLEAN, NEW ok \in BOOLEAN, Leave(ok),
         main_table_ba' # 0 \/ protected'
  PROVE  IInv'
  <1>1. TypeOK'
    BY DEF IInv, TypeOK, TableFrame, RamStep, chip, bounds, RegionsFit, Leave,
           States, Steps, Jobs
  <1>2. SignaturePlace' /\ NoArea' /\ Off' /\ UpdateReturns'
    BY DEF IInv, SignaturePlace, TableFrame, RamStep, chip, NoArea, Off,
           UpdateReturns, UpdateRunning, Working, Leave
  <1>3. Area'
    BY DEF IInv, Area, TableFrame, RegionsFit, InArea
  <1>4. Work' /\ MainThere'
    BY DEF Work, MainThere, Working, Leave
  <1> QED
    BY <1>1, <1>2, <1>3, <1>4 DEF IInv

LEMMA RebuildMainInv == IInv /\ RebuildMain => IInv'
  <1> SUFFICES ASSUME IInv, RebuildMain PROVE IInv'
    OBVIOUS
  <1> USE DEF TableSteps, RangeSteps, Continuations
  <1>1. pc = "ret" /\ w.then = "rebuild_main"
    BY DEF RebuildMain, Returned
  <1>2. /\ Usable /\ RegionsFit /\ signature_ba # 0 /\ w \in Jobs
        /\ InArea(mapping_blocks_top_ba) /\ mapping_blocks_top_ba \in Nat
        /\ w.ok => /\ MgmtStart <= w.ba /\ w.ba \in Nat
                   /\ w.ba + 1 < signature_ba /\ w.ba < signature_ba
        /\ signature_ba \in Nat
        /\ 0 < MgmtStart /\ MgmtStart \in Nat /\ changed \in BOOLEAN
    BY <1>1, AtReturn
  <1>3. TableFrame /\ signature_ba' = signature_ba
    BY <1>1, FrameKept DEF RebuildMain, TableFrame
  <1>4. CASE /\ ~w.ok /\ protected' = TRUE /\ Leave(FALSE)
             /\ UNCHANGED <<block_state, changed, regions>>
    <2>1. RegionsFit'
      BY <1>2, <1>3, <1>4 DEF regions, RegionsFit, InArea
    <2> QED
      BY <1>1, <1>2, <1>3, <1>4, <2>1, LeaveStep DEF Usable
  <1>5. CASE w.ok
    <2>1. /\ main_table_ba' = w.ba /\ mapping_blocks_ba' = w.ba + 1
          /\ UNCHANGED <<backup_table_ba, protected>>
      BY <1>5 DEF RebuildMain
    <2>2. RegionsFit' /\ main_table_ba' # 0 /\ protected' \in BOOLEAN
      BY <1>2, <1>3, <1>5, <2>1 DEF RegionsFit, InArea, IInv, TypeOK
    <2>3. CASE Leave(TRUE) /\ changed' = FALSE /\ UNCHANGED block_state
      BY <1>1, <1>2, <1>3, <2>2, <2>3, LeaveStep DEF Usable
    <2>4. CASE \E nba \in Reserve(w.ba + 1, mapping_blocks_top_ba - 1) :
                 WriteTable(nba, mapping_blocks_top_ba, "rebuild_backup", FALSE)
      <3>1. PICK nba \in Reserve(w.ba + 1, mapping_blocks_top_ba - 1) :
                 WriteTable(nba, mapping_blocks_top_ba, "rebuild_backup", FALSE)
        BY <2>4
      <3>2. nba \in Blocks /\ w.ba + 1 <= nba
        BY <1>2, <1>5, ReserveRange
      <3>3. nba \in Int /\ MgmtStart <= nba
        BY <1>2, <1>5, <3>2 DEF Blocks
      <3>4. Entered("rebuild_backup", mapping_blocks_top_ba)
        BY <1>2, <1>3, <3>1, <3>3, TableStarts DEF InArea
      <3> QED
        BY <1>1, <1>2, <1>3, <2>1, <2>2, <3>4, EnterStep
    <2> QED
      BY <1>5, <2>3, <2>4 DEF RebuildMain
  <1> QED
    BY <1>4, <1>5 DEF RebuildMain

LEMMA RebuildBackupInv == IInv /\ RebuildBackup => IInv'
  <1> SUFFICES ASSUME IInv, RebuildBackup PROVE IInv'
    OBVIOUS
  <1> USE DEF TableSteps, RangeSteps, Continuations
  <1>1. pc = "ret" /\ w.then = "rebuild_backup"
    BY DEF RebuildBackup, Returned
  <1>2. /\ Usable /\ RegionsFit /\ signature_ba # 0 /\ w \in Jobs
        /\ w.ok => /\ MgmtStart <= w.ba /\ w.ba \in Nat
                   /\ w.ba + 1 < signature_ba /\ w.ba < signature_ba
        /\ signature_ba \in Nat
        /\ 0 < MgmtStart /\ MgmtStart \in Nat /\ changed \in BOOLEAN /\ MainThere
    BY <1>1, AtReturn
  <1>3. TableFrame /\ signature_ba' = signature_ba /\ protected' = protected
        /\ protected \in BOOLEAN
    BY <1>1, FrameKept DEF RebuildBackup, TableFrame, IInv, TypeOK
  <1>4. main_table_ba # 0 \/ protected
    BY <1>1, <1>2 DEF MainThere, Working
  <1>5. CASE ~w.ok /\ Leave(TRUE) /\ UNCHANGED <<block_state, changed, regions>>
    <2>1. RegionsFit'
      BY <1>2, <1>3, <1>5 DEF regions, RegionsFit, InArea
    <2> QED
      BY <1>1, <1>2, <1>3, <1>4, <1>5, <2>1, LeaveStep DEF Usable, regions
  <1>6. CASE /\ w.ok /\ backup_table_ba' = w.ba /\ mapping_blocks_ba' = w.ba + 1
             /\ EraseRange(mapping_blocks_ba, w.ba, "cleaned", changed)
             /\ UNCHANGED main_table_ba
    <2>1. RegionsFit'
      BY <1>2, <1>3, <1>6 DEF RegionsFit, InArea
    <2>2. Entered("cleaned", w.ba)
      BY <1>2, <1>3, <1>6, RangeStarts DEF RegionsFit, InArea
    <2> QED
      BY <1>1, <1>2, <1>3, <1>4, <1>6, <2>1, <2>2, EnterStep
  <1> QED
    BY <1>5, <1>6 DEF RebuildBackup

LEMMA CleanedInv == IInv /\ Cleaned => IInv'
  <1> SUFFICES ASSUME IInv, Cleaned PROVE IInv'
    OBVIOUS
  <1> USE DEF TableSteps, RangeSteps, Continuations
  <1>1. pc = "ret" /\ w.then = "cleaned"
    BY DEF Cleaned, Returned
  <1>2. Usable /\ RegionsFit /\ signature_ba # 0 /\ changed \in BOOLEAN /\ MainThere
    BY <1>1, AtReturn
  <1>3. TableFrame /\ signature_ba' = signature_ba /\ protected' = protected
        /\ protected \in BOOLEAN
    BY <1>1, FrameKept DEF Cleaned, TableFrame, IInv, TypeOK
  <1>4. RegionsFit' /\ (main_table_ba' # 0 \/ protected')
    BY <1>1, <1>2, <1>3 DEF Cleaned, regions, RegionsFit, InArea, MainThere
  <1> QED
    BY <1>1, <1>2, <1>3, <1>4, LeaveStep DEF Usable, Cleaned

LEMMA RescueFrontInv == IInv /\ RescueFront => IInv'
  <1> SUFFICES ASSUME IInv, RescueFront PROVE IInv'
    OBVIOUS
  <1> USE DEF TableSteps, RangeSteps, Continuations
  <1>1. pc = "ret" /\ w.then = "front"
    BY DEF RescueFront, Returned
  <1>2. /\ Usable /\ RegionsFit /\ signature_ba # 0 /\ w \in Jobs
        /\ InArea(mapping_blocks_top_ba) /\ mapping_blocks_top_ba \in Nat
        /\ w.ok => /\ MgmtStart <= w.ba /\ w.ba \in Nat
                   /\ w.ba + 1 < signature_ba /\ w.ba < signature_ba
        /\ signature_ba \in Nat
        /\ 0 < MgmtStart /\ MgmtStart \in Nat /\ changed \in BOOLEAN /\ MainThere
    BY <1>1, AtReturn
  <1>3. TableFrame /\ signature_ba' = signature_ba /\ protected' = protected
        /\ protected \in BOOLEAN /\ mapping_blocks_ba' = mapping_blocks_ba
    BY <1>1, FrameKept DEF RescueFront, TableFrame, IInv, TypeOK
  <1>4. main_table_ba # 0 \/ protected
    BY <1>1, <1>2 DEF MainThere, Working
  <1>5. CASE /\ w.ok /\ backup_table_ba' = main_table_ba /\ main_table_ba' = w.ba
             /\ EraseRange(w.ba + 1, main_table_ba, "cleaned", FALSE)
    <2>1. RegionsFit' /\ main_table_ba' # 0
      BY <1>2, <1>3, <1>5 DEF RegionsFit, InArea
    <2>2. /\ main_table_ba \in Nat /\ main_table_ba < signature_ba
          /\ w.ba + 1 \in Int /\ MgmtStart <= w.ba + 1
      BY <1>2, <1>5 DEF RegionsFit, InArea
    <2>3. Entered("cleaned", main_table_ba)
      BY <1>2, <1>3, <1>5, <2>2, RangeStarts
    <2> QED
      BY <1>1, <1>2, <1>3, <2>1, <2>3, EnterStep
  <1>6. CASE ~w.ok /\ UNCHANGED <<main_table_ba, backup_table_ba>>
    <2>1. RegionsFit'
      BY <1>2, <1>3, <1>6 DEF RegionsFit, InArea
    <2>2. CASE Leave(FALSE) /\ UNCHANGED <<block_state, changed>>
      BY <1>1, <1>2, <1>3, <1>4, <1>6, <2>1, <2>2, LeaveStep DEF Usable
    <2>3. CASE \E wba \in Reserve(mapping_blocks_ba, mapping_blocks_top_ba - 1) :
                 WriteTable(wba, mapping_blocks_top_ba, "behind", changed)
      <3>1. PICK wba \in Reserve(mapping_blocks_ba, mapping_blocks_top_ba - 1) :
                 WriteTable(wba, mapping_blocks_top_ba, "behind", changed)
        BY <2>3
      <3>2. wba \in Blocks /\ mapping_blocks_ba <= wba
        BY <1>2, ReserveRange DEF RegionsFit
      <3>3. wba \in Int /\ MgmtStart <= wba
        BY <1>2, <3>2 DEF Blocks, RegionsFit, InArea
      <3>4. Entered("behind", mapping_blocks_top_ba)
        BY <1>2, <1>3, <3>1, <3>3, TableStarts DEF InArea
      <3> QED
        BY <1>1, <1>2, <1>3, <1>4, <1>6, <2>1, <3>4, EnterStep
    <2> QED
      BY <1>6, <2>2, <2>3 DEF RescueFront
  <1> QED
    BY <1>5, <1>6 DEF RescueFront

LEMMA RescueBehindInv == IInv /\ RescueBehind => IInv'
  <1> SUFFICES ASSUME IInv, RescueBehind PROVE IInv'
    OBVIOUS
  <1> USE DEF TableSteps, RangeSteps, Continuations
  <1>1. pc = "ret" /\ w.then = "behind"
    BY DEF RescueBehind, Returned
  <1>2. /\ Usable /\ RegionsFit /\ signature_ba # 0 /\ w \in Jobs
        /\ InArea(mapping_blocks_top_ba) /\ mapping_blocks_top_ba \in Nat
        /\ w.ok => /\ MgmtStart <= w.ba /\ w.ba \in Nat
                   /\ w.ba + 1 < signature_ba /\ w.ba < signature_ba
        /\ signature_ba \in Nat
        /\ 0 < MgmtStart /\ MgmtStart \in Nat /\ changed \in BOOLEAN /\ MainThere
    BY <1>1, AtReturn
  <1>3. TableFrame /\ signature_ba' = signature_ba /\ protected' = protected
        /\ protected \in BOOLEAN
    BY <1>1, FrameKept DEF RescueBehind, TableFrame, IInv, TypeOK
  <1>4. (main_table_ba' # 0 \/ protected') /\ RegionsFit'
    BY <1>1, <1>2, <1>3 DEF MainThere, RescueBehind, regions, RegionsFit, InArea
  <1>5. CASE w.ok /\ EraseRange(mapping_blocks_ba, w.ba, "behind_cleaned", changed)
    <2>1. Entered("behind_cleaned", w.ba)
      BY <1>2, <1>3, <1>5, RangeStarts DEF RegionsFit, InArea
    <2> QED
      BY <1>1, <1>2, <1>3, <1>4, <1>5, <2>1, EnterStep
  <1>6. CASE /\ w.from > mapping_blocks_ba
             /\ WriteTable(w.from - 1, mapping_blocks_top_ba, "behind", changed)
    <2>1. w.from - 1 \in Int /\ MgmtStart <= w.from - 1
      BY <1>2, <1>6 DEF RegionsFit, InArea, Jobs
    <2>2. Entered("behind", mapping_blocks_top_ba)
      BY <1>2, <1>3, <1>6, <2>1, TableStarts DEF InArea
    <2> QED
      BY <1>1, <1>2, <1>3, <1>4, <2>2, EnterStep
  <1>7. CASE Leave(FALSE) /\ UNCHANGED <<block_state, changed>>
    BY <1>1, <1>2, <1>3, <1>4, <1>7, LeaveStep DEF Usable
  <1> QED
    BY <1>5, <1>6, <1>7 DEF RescueBehind

LEMMA RescueBehindCleanedInv == IInv /\ RescueBehindCleaned => IInv'
  <1> SUFFICES ASSUME IInv, RescueBehindCleaned PROVE IInv'
    OBVIOUS
  <1> USE DEF TableSteps, RangeSteps, Continuations
  <1>1. pc = "ret" /\ w.then = "behind_cleaned"
    BY DEF RescueBehindCleaned, Returned
  <1>2. /\ Usable /\ RegionsFit /\ signature_ba # 0 /\ w \in Jobs
        /\ 0 < MgmtStart /\ MgmtStart \in Nat /\ MainThere /\ Work
    BY <1>1, AtReturn
  <1>3. TableFrame /\ signature_ba' = signature_ba /\ protected' = protected
        /\ protected \in BOOLEAN
    BY <1>1, FrameKept DEF RescueBehindCleaned, TableFrame, IInv, TypeOK
  <1>4. MgmtStart <= w.lim /\ w.lim + 1 < signature_ba /\ w.lim \in Nat
    BY <1>1, <1>2 DEF Work, Working, Jobs
  <1>5. RegionsFit' /\ (main_table_ba' # 0 \/ protected')
    BY <1>1, <1>2, <1>3, <1>4
       DEF RescueBehindCleaned, RegionsFit, InArea, MainThere, Usable, Blocks
  <1> QED
    BY <1>1, <1>2, <1>3, <1>5, LeaveStep DEF Usable, RescueBehindCleaned

LEMMA UpdateMainInv == IInv /\ UpdateMain => IInv'
  <1> SUFFICES ASSUME IInv, UpdateMain PROVE IInv'
    OBVIOUS
  <1> USE DEF TableSteps, RangeSteps, Continuations
  <1>1. pc = "ret" /\ w.then = "update_main"
    BY DEF UpdateMain, Returned
  <1>2. /\ Usable /\ RegionsFit /\ signature_ba # 0 /\ w \in Jobs
        /\ InArea(mapping_blocks_top_ba) /\ mapping_blocks_top_ba \in Nat
        /\ w.ok => /\ MgmtStart <= w.ba /\ w.ba \in Nat /\ w.ba < w.lim
                   /\ w.ba + 1 < signature_ba /\ w.ba < signature_ba
        /\ signature_ba \in Nat /\ w.lim \in Nat /\ w.lim < signature_ba
        /\ 0 < MgmtStart /\ MgmtStart \in Nat /\ changed \in BOOLEAN /\ MainThere
        /\ Work
    BY <1>1, AtReturn DEF Jobs
  <1>3. TableFrame /\ signature_ba' = signature_ba /\ protected' = protected
        /\ protected \in BOOLEAN
    BY <1>1, FrameKept DEF UpdateMain, TableFrame, IInv, TypeOK
  <1>4. backup_table_ba # 0 /\ (main_table_ba # 0 \/ protected)
    BY <1>1, <1>2 DEF Work, Working, MainThere
  <1>5. CASE /\ w.ok /\ main_table_ba' = w.ba /\ changed' = FALSE /\ Leave(TRUE)
             /\ UNCHANGED <<block_state, backup_table_ba>>
    <2>1. RegionsFit' /\ main_table_ba' # 0
      BY <1>2, <1>3, <1>5 DEF UpdateMain, RegionsFit, InArea
    <2> QED
      BY <1>1, <1>2, <1>3, <1>5, <2>1, LeaveStep DEF Usable
  <1>6. CASE /\ main_table_ba' = backup_table_ba /\ backup_table_ba' = 0
             /\ RescueSingle(backup_table_ba, block_state, changed)
    <2>1. RegionsFit' /\ main_table_ba' # 0
      BY <1>2, <1>3, <1>4, <1>6 DEF UpdateMain, RegionsFit, InArea
    <2>2. Entered("front", backup_table_ba)
      BY <1>2, <1>3, <1>4, <1>6, RescueStarts DEF RegionsFit, InArea, Usable
    <2> QED
      BY <1>1, <1>2, <1>3, <2>1, <2>2, EnterStep
  <1> QED
    BY <1>5, <1>6 DEF UpdateMain

LEMMA UpdateBackupInv == IInv /\ UpdateBackup => IInv'
  <1> SUFFICES ASSUME IInv, UpdateBackup PROVE IInv'
    OBVIOUS
  <1> USE DEF TableSteps, RangeSteps, Continuations
  <1>1. pc = "ret" /\ w.then = "update_backup"
    BY DEF UpdateBackup, Returned
  <1>2. /\ Usable /\ RegionsFit /\ signature_ba # 0 /\ w \in Jobs
        /\ InArea(mapping_blocks_top_ba) /\ mapping_blocks_top_ba \in Nat
        /\ w.ok => /\ MgmtStart <= w.ba /\ w.ba \in Nat /\ w.ba < w.lim
                   /\ w.ba + 1 < signature_ba /\ w.ba < signature_ba
        /\ signature_ba \in Nat /\ w.lim \in Nat /\ w.lim < signature_ba
        /\ 0 < MgmtStart /\ MgmtStart \in Nat /\ changed \in BOOLEAN /\ MainThere
        /\ Work
    BY <1>1, AtReturn DEF Jobs
  <1>3. TableFrame /\ signature_ba' = signature_ba /\ protected' = protected
        /\ protected \in BOOLEAN
    BY <1>1, FrameKept DEF UpdateBackup, TableFrame, IInv, TypeOK
  <1>4. backup_table_ba # 0 /\ (main_table_ba # 0 \/ protected)
    BY <1>1, <1>2 DEF Work, Working, MainThere
  <1>5. RegionsFit' /\ (main_table_ba' # 0 \/ protected')
    <2>1. CASE w.ok /\ backup_table_ba' = w.ba /\ mapping_blocks_ba' = w.ba + 1
      BY <1>2, <1>3, <1>4, <2>1 DEF UpdateBackup, RegionsFit, InArea
    <2>2. CASE mapping_blocks_ba' = backup_table_ba /\ backup_table_ba' = 0
      BY <1>2, <1>3, <1>4, <2>2 DEF UpdateBackup, RegionsFit, InArea
    <2> QED
      BY <2>1, <2>2 DEF UpdateBackup
  <1> QED
    BY <1>1, <1>2, <1>3, <1>5, LeaveStep DEF Usable, UpdateBackup

(* WriteMain and BackupTakesOver, which several steps end in.               *)
LEMMA WriteMainInv ==
  ASSUME IInv, TableFrame, UNCHANGED protected, Usable, RegionsFit, signature_ba # 0,
         pc \notin {"create", "failed", "off"}, signature_ba \in Nat,
         0 < MgmtStart, MgmtStart \in Nat, main_table_ba # 0,
         NEW limit \in Nat, limit < signature_ba,
         NEW backup \in Nat, backup # 0 => InArea(backup),
         NEW mapping_ba \in Nat, InArea(mapping_ba), NEW c \in BOOLEAN,
         WriteMain(limit, backup, mapping_ba, c)
  PROVE  IInv'
  <1>1. signature_ba' = signature_ba
    BY DEF TableFrame
  <1>2. RegionsFit' /\ main_table_ba' # 0
    BY <1>1 DEF WriteMain, RegionsFit, InArea
  <1>3. "once_main" \in TableSteps
    BY DEF TableSteps, Continuations
  <1>4. Entered("once_main", limit)
    BY <1>1, <1>3, TableStarts DEF WriteMain, RegionsFit, InArea
  <1> QED
    BY <1>1, <1>2, <1>3, <1>4, EnterStep DEF TableSteps

LEMMA BackupTakesOverInv ==
  ASSUME IInv, TableFrame, UNCHANGED protected, Usable, RegionsFit, signature_ba # 0,
         pc \notin {"create", "failed", "off"}, backup_table_ba # 0, BackupTakesOver
  PROVE  IInv'
  <1>1. RegionsFit' /\ main_table_ba' # 0
    BY DEF BackupTakesOver, RegionsFit, InArea, TableFrame
  <1> QED
    BY <1>1, LeaveStep DEF BackupTakesOver, Usable, IInv, TypeOK

LEMMA OnceBackupInv == IInv /\ OnceBackup => IInv'
  <1> SUFFICES ASSUME IInv, OnceBackup PROVE IInv'
    OBVIOUS
  <1> USE DEF TableSteps, RangeSteps, Continuations
  <1>1. pc = "ret" /\ w.then = "once_backup"
    BY DEF OnceBackup, Returned
  <1>2. /\ Usable /\ RegionsFit /\ signature_ba # 0 /\ w \in Jobs
        /\ InArea(mapping_blocks_top_ba) /\ mapping_blocks_top_ba \in Nat
        /\ w.ok => /\ MgmtStart <= w.ba /\ w.ba \in Nat /\ w.ba < w.lim
                   /\ w.ba + 1 < signature_ba /\ w.ba < signature_ba
        /\ signature_ba \in Nat /\ w.lim \in Nat /\ w.lim < signature_ba
        /\ 0 < MgmtStart /\ MgmtStart \in Nat /\ changed \in BOOLEAN /\ MainThere
        /\ Work
    BY <1>1, AtReturn DEF Jobs
  <1>3. TableFrame /\ signature_ba' = signature_ba /\ protected' = protected
        /\ protected \in BOOLEAN
    BY <1>1, FrameKept DEF OnceBackup, TableFrame, IInv, TypeOK
  <1>4. main_table_ba # 0 /\ backup_table_ba # 0
    BY <1>1, <1>2 DEF Work, Working
  <1>5. CASE w.ok /\ WriteMain(w.ba, w.ba, w.ba + 1, FALSE)
    <2>1. /\ w.ba + 1 \in Nat /\ InArea(w.ba + 1) /\ InArea(w.ba) /\ w.ba \in Nat
          /\ w.ba < signature_ba /\ FALSE \in BOOLEAN
      BY <1>2, <1>5 DEF InArea
    <2> QED
      BY <1>1, <1>2, <1>3, <1>4, <1>5, <2>1, WriteMainInv
  <1>6. CASE WriteMain(mapping_blocks_top_ba, 0, backup_table_ba, changed)
    BY <1>1, <1>2, <1>3, <1>4, <1>6, WriteMainInv DEF InArea, RegionsFit
  <1> QED
    BY <1>5, <1>6 DEF OnceBackup

LEMMA RescueTemporaryInv == IInv /\ RescueTemporary => IInv'
  <1> SUFFICES ASSUME IInv, RescueTemporary PROVE IInv'
    OBVIOUS
  <1> USE DEF TableSteps, RangeSteps, Continuations
  <1>1. pc = "ret" /\ w.then = "temporary"
    BY DEF RescueTemporary, Returned
  <1>2. /\ Usable /\ RegionsFit /\ signature_ba # 0 /\ w \in Jobs
        /\ InArea(mapping_blocks_top_ba) /\ mapping_blocks_top_ba \in Nat
        /\ w.ok => /\ MgmtStart <= w.ba /\ w.ba \in Nat /\ w.ba < w.lim
                   /\ w.ba + 1 < signature_ba /\ w.ba < signature_ba
        /\ signature_ba \in Nat /\ w.lim \in Nat /\ w.lim < signature_ba
        /\ 0 < MgmtStart /\ MgmtStart \in Nat /\ changed \in BOOLEAN /\ MainThere
        /\ Work
    BY <1>1, AtReturn DEF Jobs
  <1>3. TableFrame /\ signature_ba' = signature_ba /\ protected' = protected
        /\ protected \in BOOLEAN
    BY <1>1, FrameKept DEF RescueTemporary, TableFrame, IInv, TypeOK
  <1>4. backup_table_ba # 0 /\ (main_table_ba # 0 \/ protected)
    BY <1>1, <1>2 DEF Work, Working, MainThere
  <1>5. CASE /\ w.ok /\ mapping_blocks_ba' = w.ba + 1
             /\ WriteTable(MgmtStart, w.ba, "new_main", changed)
             /\ UNCHANGED <<main_table_ba, backup_table_ba>>
    <2>1. RegionsFit'
      BY <1>2, <1>3, <1>5 DEF RegionsFit, InArea
    <2>2. Entered("new_main", w.ba)
      BY <1>2, <1>3, <1>5, TableStarts
    <2> QED
      BY <1>1, <1>2, <1>3, <1>4, <1>5, <2>1, <2>2, EnterStep
  <1>6. CASE /\ w.from > mapping_blocks_ba
             /\ WriteTable(w.from - 1, mapping_blocks_top_ba, "temporary", changed)
             /\ UNCHANGED regions
    <2>1. RegionsFit'
      BY <1>2, <1>3, <1>6 DEF RegionsFit, InArea, regions
    <2>2. w.from - 1 \in Int /\ MgmtStart <= w.from - 1
      BY <1>2, <1>6 DEF RegionsFit, InArea, Jobs
    <2>3. Entered("temporary", mapping_blocks_top_ba)
      BY <1>2, <1>3, <1>6, <2>2, TableStarts DEF InArea
    <2> QED
      BY <1>1, <1>2, <1>3, <1>4, <1>6, <2>1, <2>3, EnterStep DEF regions
  <1>7. CASE BackupTakesOver
    BY <1>1, <1>2, <1>3, <1>4, <1>7, BackupTakesOverInv
  <1> QED
    BY <1>5, <1>6, <1>7 DEF RescueTemporary

LEMMA RescueNewMainInv == IInv /\ RescueNewMain => IInv'
  <1> SUFFICES ASSUME IInv, RescueNewMain PROVE IInv'
    OBVIOUS
  <1> USE DEF TableSteps, RangeSteps, Continuations
  <1>1. pc = "ret" /\ w.then = "new_main"
    BY DEF RescueNewMain, Returned
  <1>2. /\ Usable /\ RegionsFit /\ signature_ba # 0 /\ w \in Jobs
        /\ InArea(mapping_blocks_top_ba) /\ mapping_blocks_top_ba \in Nat
        /\ w.ok => /\ MgmtStart <= w.ba /\ w.ba \in Nat /\ w.ba < w.lim
                   /\ w.ba + 1 < signature_ba /\ w.ba < signature_ba
        /\ signature_ba \in Nat /\ w.lim \in Nat /\ w.lim < signature_ba
        /\ 0 < MgmtStart /\ MgmtStart \in Nat /\ changed \in BOOLEAN /\ MainThere
        /\ Work
    BY <1>1, AtReturn DEF Jobs
  <1>3. TableFrame /\ signature_ba' = signature_ba /\ protected' = protected
        /\ protected \in BOOLEAN
    BY <1>1, FrameKept DEF RescueNewMain, TableFrame, IInv, TypeOK
  <1>4. MgmtStart <= w.lim /\ w.lim + 1 < signature_ba
    BY <1>1, <1>2 DEF Work, Working
  <1>5. RegionsFit' /\ main_table_ba' # 0
    BY <1>2, <1>3, <1>4 DEF RescueNewMain, RegionsFit, InArea
  <1> QED
    BY <1>1, <1>2, <1>3, <1>5, LeaveStep DEF Usable, RescueNewMain

LEMMA OnceMainInv == IInv /\ OnceMain => IInv'
  <1> SUFFICES ASSUME IInv, OnceMain PROVE IInv'
    OBVIOUS
  <1> USE DEF TableSteps, RangeSteps, Continuations
  <1>1. pc = "ret" /\ w.then = "once_main"
    BY DEF OnceMain, Returned
  <1>2. /\ Usable /\ RegionsFit /\ signature_ba # 0 /\ w \in Jobs
        /\ InArea(mapping_blocks_top_ba) /\ mapping_blocks_top_ba \in Nat
        /\ w.ok => /\ MgmtStart <= w.ba /\ w.ba \in Nat /\ w.ba < w.lim
                   /\ w.ba + 1 < signature_ba /\ w.ba < signature_ba
        /\ signature_ba \in Nat /\ w.lim \in Nat /\ w.lim < signature_ba
        /\ 0 < MgmtStart /\ MgmtStart \in Nat /\ changed \in BOOLEAN /\ MainThere
        /\ Work
    BY <1>1, AtReturn DEF Jobs
  <1>3. TableFrame /\ signature_ba' = signature_ba /\ protected' = protected
        /\ protected \in BOOLEAN
    BY <1>1, FrameKept DEF OnceMain, TableFrame, IInv, TypeOK
  <1>4. main_table_ba # 0 \/ protected
    BY <1>1, <1>2 DEF MainThere, Working
  <1>5. CASE /\ w.ok /\ main_table_ba' = w.ba
             /\ mapping_blocks_ba' = IF backup_table_ba = 0 THEN w.ba + 1
                                                            ELSE mapping_blocks_ba
             /\ changed' = FALSE /\ Leave(TRUE)
             /\ UNCHANGED <<block_state, backup_table_ba>>
    <2>1. RegionsFit' /\ main_table_ba' # 0
      BY <1>2, <1>3, <1>5 DEF RegionsFit, InArea
    <2> QED
      BY <1>1, <1>2, <1>3, <1>5, <2>1, LeaveStep DEF Usable
  <1>6. CASE Rebuild(changed)
    <2>1. RegionsFit'
      BY <1>2, <1>3, <1>6 DEF Rebuild, RegionsFit, InArea
    <2>2. Entered("rebuild_main", mapping_blocks_top_ba)
      BY <1>2, <1>3, <1>6, TableStarts DEF Rebuild, InArea
    <2> QED
      BY <1>1, <1>2, <1>3, <2>1, <2>2, EnterStep
  <1>7. CASE backup_table_ba # 0 /\ RescueMain
    <2>1. CASE BackupTakesOver
      BY <1>1, <1>2, <1>3, <1>7, <2>1, BackupTakesOverInv
    <2>2. CASE \E wba \in Reserve(mapping_blocks_ba, mapping_blocks_top_ba - 1) :
                 /\ WriteTable(wba, mapping_blocks_top_ba, "temporary", changed)
                 /\ UNCHANGED regions
      <3>1. PICK wba \in Reserve(mapping_blocks_ba, mapping_blocks_top_ba - 1) :
                 /\ WriteTable(wba, mapping_blocks_top_ba, "temporary", changed)
                 /\ UNCHANGED regions
        BY <2>2
      <3>2. wba \in Blocks /\ mapping_blocks_ba <= wba
        BY <1>2, ReserveRange DEF RegionsFit
      <3>3. wba \in Int /\ MgmtStart <= wba
        BY <1>2, <3>2 DEF Blocks, RegionsFit, InArea
      <3>4. Entered("temporary", mapping_blocks_top_ba)
        BY <1>2, <1>3, <3>1, <3>3, TableStarts DEF InArea
      <3>5. RegionsFit'
        BY <1>2, <1>3, <3>1 DEF RegionsFit, InArea, regions
      <3> QED
        BY <1>1, <1>2, <1>3, <1>4, <1>7, <3>1, <3>4, <3>5, EnterStep DEF regions
    <2> QED
      BY <1>7, <2>1, <2>2 DEF RescueMain
  <1> QED
    BY <1>5, <1>6, <1>7 DEF OnceMain

LEMMA UpdateOnceInv == IInv /\ UpdateOnce => IInv'
  <1> SUFFICES ASSUME IInv, UpdateOnce PROVE IInv'
    OBVIOUS
  <1> USE DEF TableSteps, RangeSteps, Continuations
  <1>1. pc = "update" /\ ~protected /\ changed /\ signature_ba \in Blocks
        /\ main_table_ba # 0
    BY DEF UpdateOnce, IInv, MainThere, Working, TypeOK
  <1>2. signature_ba # 0
    BY <1>1 DEF IInv, NoArea
  <1>3. /\ Usable /\ RegionsFit /\ signature_ba \in Nat
        /\ InArea(mapping_blocks_top_ba) /\ mapping_blocks_top_ba \in Nat
        /\ 0 < MgmtStart /\ MgmtStart \in Nat /\ changed \in BOOLEAN
    BY <1>1, <1>2, ChipAssumption
       DEF IInv, TypeOK, Usable, RegionsFit, Area, States, Blocks
  <1>4. InfoTable(block_state, block_mapping, write_count + 1) \in Tables
        /\ write_count + 1 \in Nat
    BY DEF IInv, TypeOK, InfoTable, Tables
  <1>5. TableFrame /\ signature_ba' = signature_ba /\ UNCHANGED protected
    BY <1>1, <1>4 DEF UpdateOnce, TableFrame, UpdateRunning
  <1>6. CASE /\ backup_table_ba # 0
             /\ WriteTable(backup_table_ba, mapping_blocks_top_ba, "once_backup", changed)
             /\ UNCHANGED regions
    <2>1. RegionsFit'
      BY <1>3, <1>5, <1>6 DEF RegionsFit, InArea, regions
    <2>2. Entered("once_backup", mapping_blocks_top_ba)
      BY <1>3, <1>5, <1>6, TableStarts DEF InArea, RegionsFit
    <2> QED
      BY <1>1, <1>2, <1>3, <1>5, <1>6, <2>1, <2>2, EnterStep DEF regions
  <1>7. CASE WriteMain(mapping_blocks_top_ba, 0, mapping_blocks_ba, changed)
    BY <1>1, <1>2, <1>3, <1>5, <1>7, WriteMainInv DEF InArea, RegionsFit
  <1> QED
    BY <1>6, <1>7 DEF UpdateOnce

---------------------------------------------------------------------------------
(* The steps between the loops.                                             *)

(* TypeOK in four parts.                                                    *)
ChipTyped ==
  /\ flash \in [Blocks -> Contents] /\ marked \subseteq Blocks /\ faults \in Nat
RamTyped ==
  /\ block_state \in [Blocks -> BlockStates] /\ block_mapping \in Mappings
  /\ data_block_count \in 0 .. MgmtStart
  /\ main_table_ba \in Nat /\ backup_table_ba \in Nat
  /\ mapping_blocks_ba \in Nat /\ mapping_blocks_top_ba \in Nat
  /\ signature_ba \in Blocks /\ write_count \in Nat /\ info_table_cache \in Tables
  /\ changed \in BOOLEAN /\ protected \in BOOLEAN
LoopTyped ==
  /\ w \in Jobs
  /\ pc \in {"erase", "prog", "mark"} => w.ba \in Ahead(w) /\ w.ba \in Blocks
Ops == [kind : Kinds, lb : LogicBlocks, pb : Blocks,
        val : {Blank, Junk} \cup {Data(v) : v \in Values}]
CallTyped ==
  /\ pc \in Steps /\ caller \in {"none", "load", "create", "update"}
  /\ ret \in Returns /\ op \in Ops
  /\ res \in {"none", "ok", "err", "rofs", "inval"} /\ formatted \in BOOLEAN
  /\ calls \in Nat /\ boots \in Nat

LEMMA TypeParts == TypeOK <=> ChipTyped /\ RamTyped /\ LoopTyped /\ CallTyped
  BY DEF TypeOK, ChipTyped, RamTyped, LoopTyped, CallTyped, Ops

LEMMA TypePartsAfter == TypeOK' <=> ChipTyped' /\ RamTyped' /\ LoopTyped' /\ CallTyped'
  BY DEF TypeOK, ChipTyped, RamTyped, LoopTyped, CallTyped, Ops

(* No call in progress is a call like the others.                           *)
LEMMA NoOpTyped == NoOp \in Ops /\ NoOp.pb = 0
  BY ChipAssumption DEF NoOp, Ops, Kinds, LogicBlocks, Blocks

(* Nothing but a signature looks like one.                                  *)
LEMMA NotSig ==
  Blank # Sig /\ Junk # Sig /\ (\A v \in Values : Data(v) # Sig)
  /\ \A t \in Tables : t # Sig
  BY DEF Blank, Junk, Sig, Data, Tables

(* Outside the loops and the attach, the signature is known.                *)
LEMMA Known ==
  ASSUME IInv, pc \notin {"off", "failed", "erase", "prog", "mark", "ret"}
  PROVE  /\ signature_ba # 0 /\ signature_ba \in Nat /\ 0 < MgmtStart
         /\ MgmtStart \in Nat /\ (pc # "create" => main_table_ba # 0 \/ protected)
         /\ (pc # "create" => InArea(mapping_blocks_ba) /\ InArea(mapping_blocks_top_ba))
         /\ block_state \in States
  <1>1. signature_ba # 0 /\ ~Working /\ signature_ba \in Blocks
    BY DEF IInv, NoArea, Working, TypeOK
  <1> QED
    BY <1>1, ChipAssumption DEF IInv, MainThere, Area, TypeOK, Blocks, States

(* The steps between the loops of a call, or of an attach with its tables.  *)
InOperation ==
  pc \notin {"off", "failed", "create", "erase", "prog", "mark", "ret"}

LEMMA InOperationFacts ==
  ASSUME IInv, InOperation
  PROVE  /\ ChipTyped /\ RamTyped /\ LoopTyped /\ CallTyped
         /\ signature_ba # 0 /\ signature_ba \in Nat /\ MgmtStart \in Nat
         /\ InArea(mapping_blocks_ba) /\ InArea(mapping_blocks_top_ba)
         /\ \A lb \in LogicBlocks : block_mapping[lb] # signature_ba
         /\ op.pb # signature_ba /\ SignaturePlace /\ UpdateReturns
  BY Known, TypeParts DEF InOperation, IInv, Area

(* Such a step keeps the regions and the signature, and the rest of the     *)
(* instance in range.                                                       *)
LEMMA CalmStep ==
  ASSUME IInv, InOperation, ChipTyped', RamTyped', LoopTyped', CallTyped',
         SignaturePlace', UpdateReturns',
         pc' \notin {"off", "create", "erase", "prog", "mark", "ret"},
         UNCHANGED <<regions, signature_ba>>, protected => protected',
         InArea(mapping_blocks_top_ba'), op'.pb # signature_ba,
         \A lb \in LogicBlocks : block_mapping'[lb] # signature_ba
  PROVE  IInv'
  <1>1. signature_ba # 0 /\ (main_table_ba # 0 \/ protected)
        /\ InArea(mapping_blocks_ba)
    BY Known DEF InOperation
  <1>2. Area'
    BY <1>1 DEF IInv, Area, regions, InArea
  <1>3. NoArea' /\ Work' /\ MainThere' /\ Off'
    BY <1>1 DEF NoArea, Work, MainThere, Off, Working, regions
  <1> QED
    BY <1>2, <1>3, TypePartsAfter DEF IInv

LEMMA UpdateOverInv == IInv /\ UpdateOver => IInv'
  <1> SUFFICES ASSUME IInv, UpdateOver PROVE IInv'
    OBVIOUS
  <1>1. InOperation
    BY DEF UpdateOver, InOperation
  <1>2. /\ ChipTyped /\ RamTyped /\ LoopTyped /\ CallTyped
        /\ signature_ba # 0 /\ signature_ba \in Nat /\ MgmtStart \in Nat
        /\ InArea(mapping_blocks_ba) /\ InArea(mapping_blocks_top_ba)
        /\ \A lb \in LogicBlocks : block_mapping[lb] # signature_ba
        /\ op.pb # signature_ba /\ SignaturePlace /\ UpdateReturns
    BY <1>1, InOperationFacts
  <1>3. ChipTyped'
    BY <1>2 DEF UpdateOver, RamStep, chip, ChipTyped
  <1>4. SignaturePlace'
    BY <1>2, NotSig DEF UpdateOver, RamStep, chip, tables, SignaturePlace
  <1>5. RamTyped'
    BY <1>2 DEF UpdateOver, RamTyped, regions, tables
  <1>6. CallTyped' /\ LoopTyped'
    <2>1. CallTyped'
      BY <1>2, NoOpTyped
         DEF UpdateOver, Return, CallTyped, Steps, Returns, bounds, RamStep,
             UpdateReturns, UpdateRunning
    <2>2. LoopTyped'
      BY <1>2 DEF UpdateOver, Return, CallTyped, LoopTyped, Returns, Jobs
    <2> QED
      BY <2>1, <2>2
  <1>7. /\ pc' \notin {"off", "create", "erase", "prog", "mark", "ret"}
        /\ UNCHANGED <<regions, signature_ba>> /\ (protected => protected')
        /\ InArea(mapping_blocks_top_ba') /\ op'.pb # signature_ba
        /\ \A lb \in LogicBlocks : block_mapping'[lb] # signature_ba
    BY <1>2, NoOpTyped DEF UpdateOver, Return, CallTyped, tables, Returns
  <1>8. UpdateReturns'
    BY <1>2
       DEF UpdateOver, Return, UpdateReturns, UpdateRunning, Working, CallTyped,
           Returns, tables
  <1> QED
    BY <1>1, <1>3, <1>4, <1>5, <1>6, <1>7, <1>8, CalmStep

LEMMA LeaveUpdateInv == IInv /\ LeaveUpdate => IInv'
  <1> SUFFICES ASSUME IInv, LeaveUpdate PROVE IInv'
    OBVIOUS
  <1>1. InOperation
    BY DEF LeaveUpdate, InOperation
  <1>2. /\ ChipTyped /\ RamTyped /\ LoopTyped /\ CallTyped
        /\ signature_ba # 0 /\ signature_ba \in Nat /\ MgmtStart \in Nat
        /\ InArea(mapping_blocks_ba) /\ InArea(mapping_blocks_top_ba)
        /\ \A lb \in LogicBlocks : block_mapping[lb] # signature_ba
        /\ op.pb # signature_ba /\ SignaturePlace /\ UpdateReturns
    BY <1>1, InOperationFacts
  <1>3. ChipTyped'
    BY <1>2 DEF LeaveUpdate, RamStep, chip, ChipTyped
  <1>4. SignaturePlace'
    BY <1>2, NotSig DEF LeaveUpdate, RamStep, chip, tables, SignaturePlace
  <1>5. RamTyped'
    BY <1>2 DEF LeaveUpdate, RamTyped, regions, tables
  <1>6. CallTyped' /\ LoopTyped'
    <2>1. CallTyped'
      BY <1>2, NoOpTyped
         DEF LeaveUpdate, Return, CallTyped, Steps, Returns, control, bounds,
             RamStep, UpdateReturns, UpdateRunning
    <2>2. LoopTyped'
      BY <1>2 DEF LeaveUpdate, Return, CallTyped, LoopTyped, Returns, Jobs
    <2> QED
      BY <2>1, <2>2
  <1>7. /\ pc' \notin {"off", "create", "erase", "prog", "mark", "ret"}
        /\ UNCHANGED <<regions, signature_ba>> /\ (protected => protected')
        /\ InArea(mapping_blocks_top_ba') /\ op'.pb # signature_ba
        /\ \A lb \in LogicBlocks : block_mapping'[lb] # signature_ba
    BY <1>2, NoOpTyped
       DEF LeaveUpdate, Return, CallTyped, tables, control, Returns
  <1>8. UpdateReturns'
    BY <1>2
       DEF LeaveUpdate, Return, UpdateReturns, UpdateRunning, Working,
           CallTyped, Returns, tables, control
  <1> QED
    BY <1>1, <1>3, <1>4, <1>5, <1>6, <1>7, <1>8, CalmStep

LEMMA LeaveLoadInv == IInv /\ LeaveLoad => IInv'
  <1> SUFFICES ASSUME IInv, LeaveLoad PROVE IInv'
    OBVIOUS
  <1>1. InOperation
    BY DEF LeaveLoad, InOperation
  <1>2. /\ ChipTyped /\ RamTyped /\ LoopTyped /\ CallTyped
        /\ signature_ba # 0 /\ signature_ba \in Nat /\ MgmtStart \in Nat
        /\ InArea(mapping_blocks_ba) /\ InArea(mapping_blocks_top_ba)
        /\ \A lb \in LogicBlocks : block_mapping[lb] # signature_ba
        /\ op.pb # signature_ba /\ SignaturePlace /\ UpdateReturns
    BY <1>1, InOperationFacts
  <1>3. ChipTyped'
    BY <1>2 DEF LeaveLoad, RamStep, chip, ChipTyped
  <1>4. SignaturePlace'
    BY <1>2, NotSig DEF LeaveLoad, RamStep, chip, tables, SignaturePlace
  <1>5. RamTyped'
    BY <1>2 DEF LeaveLoad, RamTyped, regions, tables
  <1>6. CallTyped' /\ LoopTyped'
    <2>1. CallTyped'
      BY <1>2, NoOpTyped DEF LeaveLoad, Ready, CallTyped, Steps, bounds, RamStep
    <2>2. LoopTyped'
      BY <1>2 DEF LeaveLoad, Ready, LoopTyped
    <2> QED
      BY <2>1, <2>2
  <1>7. /\ pc' \notin {"off", "create", "erase", "prog", "mark", "ret"}
        /\ UNCHANGED <<regions, signature_ba>> /\ (protected => protected')
        /\ InArea(mapping_blocks_top_ba') /\ op'.pb # signature_ba
        /\ \A lb \in LogicBlocks : block_mapping'[lb] # signature_ba
    BY <1>2, NoOpTyped DEF LeaveLoad, Ready, tables
  <1>8. UpdateReturns'
    BY <1>2 DEF LeaveLoad, Ready, UpdateReturns, UpdateRunning, Working
  <1> QED
    BY <1>1, <1>3, <1>4, <1>5, <1>6, <1>7, <1>8, CalmStep

LEMMA LeaveCreateInv == IInv /\ LeaveCreate => IInv'
  <1> SUFFICES ASSUME IInv, LeaveCreate PROVE IInv'
    OBVIOUS
  <1>1. InOperation
    BY DEF LeaveCreate, InOperation
  <1>2. /\ ChipTyped /\ RamTyped /\ LoopTyped /\ CallTyped
        /\ signature_ba # 0 /\ signature_ba \in Nat /\ MgmtStart \in Nat
        /\ InArea(mapping_blocks_ba) /\ InArea(mapping_blocks_top_ba)
        /\ \A lb \in LogicBlocks : block_mapping[lb] # signature_ba
        /\ op.pb # signature_ba /\ SignaturePlace /\ UpdateReturns
    BY <1>1, InOperationFacts
  <1>3. ChipTyped'
    BY <1>2 DEF LeaveCreate, RamStep, chip, ChipTyped
  <1>4. SignaturePlace'
    BY <1>2, NotSig DEF LeaveCreate, RamStep, chip, tables, SignaturePlace
  <1>5. RamTyped'
    BY <1>2 DEF LeaveCreate, RamTyped, regions, tables
  <1>6. CallTyped' /\ LoopTyped'
    <2>1. CallTyped'
      BY <1>2, NoOpTyped
         DEF LeaveCreate, CallTyped, Steps, control, bounds, RamStep
    <2>2. LoopTyped'
      BY <1>2 DEF LeaveCreate, LoopTyped
    <2> QED
      BY <2>1, <2>2
  <1>7. /\ pc' \notin {"off", "create", "erase", "prog", "mark", "ret"}
        /\ UNCHANGED <<regions, signature_ba>> /\ (protected => protected')
        /\ InArea(mapping_blocks_top_ba') /\ op'.pb # signature_ba
        /\ \A lb \in LogicBlocks : block_mapping'[lb] # signature_ba
    BY <1>2, NoOpTyped DEF LeaveCreate, tables, control
  <1>8. UpdateReturns'
    BY <1>2 DEF LeaveCreate, UpdateReturns, UpdateRunning, control
  <1> QED
    BY <1>1, <1>3, <1>4, <1>5, <1>6, <1>7, <1>8, CalmStep

LEMMA CreatedInv == IInv /\ Created => IInv'
  <1> SUFFICES ASSUME IInv, Created PROVE IInv'
    OBVIOUS
  <1>1. InOperation
    BY DEF Created, InOperation
  <1>2. /\ ChipTyped /\ RamTyped /\ LoopTyped /\ CallTyped
        /\ signature_ba # 0 /\ signature_ba \in Nat /\ MgmtStart \in Nat
        /\ InArea(mapping_blocks_ba) /\ InArea(mapping_blocks_top_ba)
        /\ \A lb \in LogicBlocks : block_mapping[lb] # signature_ba
        /\ op.pb # signature_ba /\ SignaturePlace /\ UpdateReturns
    BY <1>1, InOperationFacts
  <1>3. ChipTyped'
    BY <1>2 DEF Created, RamStep, chip, ChipTyped
  <1>4. SignaturePlace'
    BY <1>2, NotSig DEF Created, RamStep, chip, tables, SignaturePlace
  <1>5. RamTyped'
    BY <1>2 DEF Created, RamTyped, regions, tables
  <1>6. CallTyped' /\ LoopTyped'
    <2>1. CallTyped'
      BY <1>2, NoOpTyped
         DEF Created, Ready, CallTyped, Steps, control, bounds, RamStep
    <2>2. LoopTyped'
      BY <1>2 DEF Created, Ready, LoopTyped
    <2> QED
      BY <2>1, <2>2
  <1>7. /\ pc' \notin {"off", "create", "erase", "prog", "mark", "ret"}
        /\ UNCHANGED <<regions, signature_ba>> /\ (protected => protected')
        /\ InArea(mapping_blocks_top_ba') /\ op'.pb # signature_ba
        /\ \A lb \in LogicBlocks : block_mapping'[lb] # signature_ba
    BY <1>2, NoOpTyped DEF Created, Ready, tables, control
  <1>8. UpdateReturns'
    BY <1>2 DEF Created, Ready, UpdateReturns, UpdateRunning, Working
  <1> QED
    BY <1>1, <1>3, <1>4, <1>5, <1>6, <1>7, <1>8, CalmStep

LEMMA MapFailedInv == IInv /\ MapFailed => IInv'
  <1> SUFFICES ASSUME IInv, MapFailed PROVE IInv'
    OBVIOUS
  <1>1. InOperation
    BY DEF MapFailed, InOperation
  <1>2. /\ ChipTyped /\ RamTyped /\ LoopTyped /\ CallTyped
        /\ signature_ba # 0 /\ signature_ba \in Nat /\ MgmtStart \in Nat
        /\ InArea(mapping_blocks_ba) /\ InArea(mapping_blocks_top_ba)
        /\ \A lb \in LogicBlocks : block_mapping[lb] # signature_ba
        /\ op.pb # signature_ba /\ SignaturePlace /\ UpdateReturns
    BY <1>1, InOperationFacts
  <1>3. ChipTyped'
    BY <1>2 DEF MapFailed, RamStep, chip, ChipTyped
  <1>4. SignaturePlace'
    BY <1>2, NotSig DEF MapFailed, RamStep, chip, SignaturePlace
  <1>5. RamTyped'
    BY <1>2
       DEF MapFailed, Retired, Mappings, SetBad, BlockStates, RamTyped, regions
  <1>6. CallTyped' /\ LoopTyped'
    <2>1. CallTyped'
      BY <1>2, NoOpTyped
         DEF MapFailed, Update, CallTyped, Steps, Returns, bounds, RamStep
    <2>2. LoopTyped'
      BY <1>2 DEF MapFailed, Update, LoopTyped
    <2> QED
      BY <2>1, <2>2
  <1>7. /\ pc' \notin {"off", "create", "erase", "prog", "mark", "ret"}
        /\ UNCHANGED <<regions, signature_ba>> /\ (protected => protected')
        /\ InArea(mapping_blocks_top_ba') /\ op'.pb # signature_ba
        /\ \A lb \in LogicBlocks : block_mapping'[lb] # signature_ba
    BY <1>2, NoOpTyped DEF MapFailed, Unmapped, Update
  <1>8. UpdateReturns'
    BY <1>2 DEF MapFailed, Update, UpdateReturns, Working
  <1> QED
    BY <1>1, <1>3, <1>4, <1>5, <1>6, <1>7, <1>8, CalmStep

LEMMA PoolClosedInv == IInv /\ PoolClosed => IInv'
  <1> SUFFICES ASSUME IInv, PoolClosed PROVE IInv'
    OBVIOUS
  <1>1. InOperation
    BY DEF PoolClosed, InOperation
  <1>2. /\ ChipTyped /\ RamTyped /\ LoopTyped /\ CallTyped
        /\ signature_ba # 0 /\ signature_ba \in Nat /\ MgmtStart \in Nat
        /\ InArea(mapping_blocks_ba) /\ InArea(mapping_blocks_top_ba)
        /\ \A lb \in LogicBlocks : block_mapping[lb] # signature_ba
        /\ op.pb # signature_ba /\ SignaturePlace /\ UpdateReturns
    BY <1>1, InOperationFacts
  <1>3. ChipTyped'
    BY <1>2 DEF PoolClosed, RamStep, chip, ChipTyped
  <1>4. SignaturePlace'
    BY <1>2, NotSig DEF PoolClosed, RamStep, chip, SignaturePlace
  <1>5. RamTyped'
    BY <1>2 DEF PoolClosed, RamTyped, regions
  <1>6. CallTyped' /\ LoopTyped'
    <2>1. CallTyped'
      BY <1>2, NoOpTyped
         DEF PoolClosed, Update, CallTyped, Steps, Returns, bounds, RamStep
    <2>2. LoopTyped'
      BY <1>2 DEF PoolClosed, Update, LoopTyped
    <2> QED
      BY <2>1, <2>2
  <1>7. /\ pc' \notin {"off", "create", "erase", "prog", "mark", "ret"}
        /\ UNCHANGED <<regions, signature_ba>> /\ (protected => protected')
        /\ InArea(mapping_blocks_top_ba') /\ op'.pb # signature_ba
        /\ \A lb \in LogicBlocks : block_mapping'[lb] # signature_ba
    BY <1>2, NoOpTyped DEF PoolClosed, Update
  <1>8. UpdateReturns'
    BY <1>2 DEF PoolClosed, Update, UpdateReturns, UpdateRunning, Working
  <1> QED
    BY <1>1, <1>3, <1>4, <1>5, <1>6, <1>7, <1>8, CalmStep

LEMMA EraseRetryInv == IInv /\ EraseRetry => IInv'
  <1> SUFFICES ASSUME IInv, EraseRetry PROVE IInv'
    OBVIOUS
  <1>1. InOperation
    BY DEF EraseRetry, InOperation
  <1>2. /\ ChipTyped /\ RamTyped /\ LoopTyped /\ CallTyped
        /\ signature_ba # 0 /\ signature_ba \in Nat /\ MgmtStart \in Nat
        /\ InArea(mapping_blocks_ba) /\ InArea(mapping_blocks_top_ba)
        /\ \A lb \in LogicBlocks : block_mapping[lb] # signature_ba
        /\ op.pb # signature_ba /\ SignaturePlace /\ UpdateReturns
    BY <1>1, InOperationFacts
  <1>3. ChipTyped'
    BY <1>2 DEF EraseRetry, RamStep, chip, ChipTyped
  <1>4. SignaturePlace'
    BY <1>2, NotSig DEF EraseRetry, RamStep, chip, tables, SignaturePlace
  <1>5. RamTyped'
    BY <1>2 DEF EraseRetry, SetBad, BlockStates, RamTyped, regions, tables
  <1>6. CallTyped' /\ LoopTyped'
    <2>1. CallTyped'
      BY <1>2, NoOpTyped
         DEF EraseRetry, RamTyped, Mappings, CallTyped, Steps, Ops, bounds,
             RamStep, UpdateReturns
    <2>2. LoopTyped'
      BY <1>2 DEF EraseRetry, LoopTyped
    <2> QED
      BY <2>1, <2>2
  <1>7. /\ pc' \notin {"off", "create", "erase", "prog", "mark", "ret"}
        /\ UNCHANGED <<regions, signature_ba>> /\ (protected => protected')
        /\ InArea(mapping_blocks_top_ba') /\ op'.pb # signature_ba
        /\ \A lb \in LogicBlocks : block_mapping'[lb] # signature_ba
    BY <1>2, NoOpTyped DEF EraseRetry, CallTyped, Ops, tables
  <1>8. UpdateReturns'
    BY <1>2 DEF EraseRetry, UpdateReturns, UpdateRunning, Working
  <1> QED
    BY <1>1, <1>3, <1>4, <1>5, <1>6, <1>7, <1>8, CalmStep

LEMMA UserMarkInv == IInv /\ UserMark => IInv'
  <1> SUFFICES ASSUME IInv, UserMark PROVE IInv'
    OBVIOUS
  <1>1. InOperation
    BY DEF UserMark, InOperation
  <1>2. /\ ChipTyped /\ RamTyped /\ LoopTyped /\ CallTyped
        /\ signature_ba # 0 /\ signature_ba \in Nat /\ MgmtStart \in Nat
        /\ InArea(mapping_blocks_ba) /\ InArea(mapping_blocks_top_ba)
        /\ \A lb \in LogicBlocks : block_mapping[lb] # signature_ba
        /\ op.pb # signature_ba /\ SignaturePlace /\ UpdateReturns
    BY <1>1, InOperationFacts
  <1>3. ChipTyped'
    BY <1>2 DEF UserMark, MarkPhys, CallTyped, Ops, ChipTyped
  <1>4. SignaturePlace'
    BY <1>2, NotSig DEF UserMark, tables, SignaturePlace
  <1>5. RamTyped'
    BY <1>2 DEF UserMark, SetBad, BlockStates, RamTyped, regions, tables
  <1>6. CallTyped' /\ LoopTyped'
    <2>1. CallTyped'
      BY <1>2, NoOpTyped DEF UserMark, Update, CallTyped, Steps, Returns, bounds
    <2>2. LoopTyped'
      BY <1>2 DEF UserMark, Update, LoopTyped
    <2> QED
      BY <2>1, <2>2
  <1>7. /\ pc' \notin {"off", "create", "erase", "prog", "mark", "ret"}
        /\ UNCHANGED <<regions, signature_ba>> /\ (protected => protected')
        /\ InArea(mapping_blocks_top_ba') /\ op'.pb # signature_ba
        /\ \A lb \in LogicBlocks : block_mapping'[lb] # signature_ba
    BY <1>2, NoOpTyped DEF UserMark, Update, tables
  <1>8. UpdateReturns'
    BY <1>2 DEF UserMark, Update, UpdateReturns, UpdateRunning, Working
  <1> QED
    BY <1>1, <1>3, <1>4, <1>5, <1>6, <1>7, <1>8, CalmStep

LEMMA UserProgramFailInv == IInv /\ UserProgramFail => IInv'
  <1> SUFFICES ASSUME IInv, UserProgramFail PROVE IInv'
    OBVIOUS
  <1>1. InOperation
    BY DEF UserProgramFail, InOperation
  <1>2. /\ ChipTyped /\ RamTyped /\ LoopTyped /\ CallTyped
        /\ signature_ba # 0 /\ signature_ba \in Nat /\ MgmtStart \in Nat
        /\ InArea(mapping_blocks_ba) /\ InArea(mapping_blocks_top_ba)
        /\ \A lb \in LogicBlocks : block_mapping[lb] # signature_ba
        /\ op.pb # signature_ba /\ SignaturePlace /\ UpdateReturns
    BY <1>1, InOperationFacts
  <1>3. ChipTyped'
    BY <1>2 DEF UserProgramFail, Contents, CallTyped, Ops, ChipTyped
  <1>4. SignaturePlace'
    BY <1>2, NotSig DEF UserProgramFail, tables, SignaturePlace
  <1>5. RamTyped'
    BY <1>2 DEF UserProgramFail, BlockStates, RamTyped, regions, tables
  <1>6. CallTyped' /\ LoopTyped'
    <2>1. CallTyped'
      BY <1>2, NoOpTyped
         DEF UserProgramFail, Update, CallTyped, Steps, Returns, bounds
    <2>2. LoopTyped'
      BY <1>2 DEF UserProgramFail, Update, LoopTyped
    <2> QED
      BY <2>1, <2>2
  <1>7. /\ pc' \notin {"off", "create", "erase", "prog", "mark", "ret"}
        /\ UNCHANGED <<regions, signature_ba>> /\ (protected => protected')
        /\ InArea(mapping_blocks_top_ba') /\ op'.pb # signature_ba
        /\ \A lb \in LogicBlocks : block_mapping'[lb] # signature_ba
    BY <1>2, NoOpTyped DEF UserProgramFail, Update, tables
  <1>8. UpdateReturns'
    BY <1>2 DEF UserProgramFail, Update, UpdateReturns, Working
  <1> QED
    BY <1>1, <1>3, <1>4, <1>5, <1>6, <1>7, <1>8, CalmStep

LEMMA UserEraseOkInv == IInv /\ UserEraseOk => IInv'
  <1> SUFFICES ASSUME IInv, UserEraseOk PROVE IInv'
    OBVIOUS
  <1>1. InOperation
    BY DEF UserEraseOk, InOperation
  <1>2. /\ ChipTyped /\ RamTyped /\ LoopTyped /\ CallTyped
        /\ signature_ba # 0 /\ signature_ba \in Nat /\ MgmtStart \in Nat
        /\ InArea(mapping_blocks_ba) /\ InArea(mapping_blocks_top_ba)
        /\ \A lb \in LogicBlocks : block_mapping[lb] # signature_ba
        /\ op.pb # signature_ba /\ SignaturePlace /\ UpdateReturns
    BY <1>1, InOperationFacts
  <1>3. ChipTyped'
    BY <1>2 DEF UserEraseOk, Contents, ChipTyped
  <1>4. SignaturePlace'
    BY <1>2, NotSig DEF UserEraseOk, tables, SignaturePlace
  <1>5. RamTyped'
    BY <1>2 DEF UserEraseOk, RamTyped, regions, tables
  <1>6. CallTyped' /\ LoopTyped'
    <2>1. CallTyped'
      BY <1>2, NoOpTyped DEF UserEraseOk, Finish, CallTyped, Steps, bounds
    <2>2. LoopTyped'
      BY <1>2 DEF UserEraseOk, Finish, LoopTyped
    <2> QED
      BY <2>1, <2>2
  <1>7. /\ pc' \notin {"off", "create", "erase", "prog", "mark", "ret"}
        /\ UNCHANGED <<regions, signature_ba>> /\ (protected => protected')
        /\ InArea(mapping_blocks_top_ba') /\ op'.pb # signature_ba
        /\ \A lb \in LogicBlocks : block_mapping'[lb] # signature_ba
    BY <1>2, NoOpTyped DEF UserEraseOk, Finish, tables
  <1>8. UpdateReturns'
    BY <1>2 DEF UserEraseOk, Finish, UpdateReturns, UpdateRunning, Working
  <1> QED
    BY <1>1, <1>3, <1>4, <1>5, <1>6, <1>7, <1>8, CalmStep

LEMMA UserEraseFailInv == IInv /\ UserEraseFail => IInv'
  <1> SUFFICES ASSUME IInv, UserEraseFail PROVE IInv'
    OBVIOUS
  <1>1. InOperation
    BY DEF UserEraseFail, InOperation
  <1>2. /\ ChipTyped /\ RamTyped /\ LoopTyped /\ CallTyped
        /\ signature_ba # 0 /\ signature_ba \in Nat /\ MgmtStart \in Nat
        /\ InArea(mapping_blocks_ba) /\ InArea(mapping_blocks_top_ba)
        /\ \A lb \in LogicBlocks : block_mapping[lb] # signature_ba
        /\ op.pb # signature_ba /\ SignaturePlace /\ UpdateReturns
    BY <1>1, InOperationFacts
  <1>3. ChipTyped'
    BY <1>2 DEF UserEraseFail, Contents, ChipTyped
  <1>4. SignaturePlace'
    BY <1>2, NotSig DEF UserEraseFail, tables, SignaturePlace, ChipTyped
  <1>5. RamTyped'
    BY <1>2 DEF UserEraseFail, RamTyped, regions, tables
  <1>6. CallTyped' /\ LoopTyped'
    <2>1. CallTyped'
      BY <1>2, NoOpTyped DEF UserEraseFail, CallTyped, Steps, control, bounds
    <2>2. LoopTyped'
      BY <1>2 DEF UserEraseFail, LoopTyped
    <2> QED
      BY <2>1, <2>2
  <1>7. /\ pc' \notin {"off", "create", "erase", "prog", "mark", "ret"}
        /\ UNCHANGED <<regions, signature_ba>> /\ (protected => protected')
        /\ InArea(mapping_blocks_top_ba') /\ op'.pb # signature_ba
        /\ \A lb \in LogicBlocks : block_mapping'[lb] # signature_ba
    BY <1>2, NoOpTyped DEF UserEraseFail, tables, control
  <1>8. UpdateReturns'
    BY <1>2 DEF UserEraseFail, UpdateReturns, UpdateRunning, Working
  <1> QED
    BY <1>1, <1>3, <1>4, <1>5, <1>6, <1>7, <1>8, CalmStep

LEMMA UserProgramOkInv == IInv /\ UserProgramOk => IInv'
  <1> SUFFICES ASSUME IInv, UserProgramOk PROVE IInv'
    OBVIOUS
  <1>1. InOperation
    BY DEF UserProgramOk, InOperation
  <1>2. /\ ChipTyped /\ RamTyped /\ LoopTyped /\ CallTyped
        /\ signature_ba # 0 /\ signature_ba \in Nat /\ MgmtStart \in Nat
        /\ InArea(mapping_blocks_ba) /\ InArea(mapping_blocks_top_ba)
        /\ \A lb \in LogicBlocks : block_mapping[lb] # signature_ba
        /\ op.pb # signature_ba /\ SignaturePlace /\ UpdateReturns
    BY <1>1, InOperationFacts
  <1>3. ChipTyped'
    BY <1>2 DEF UserProgramOk, Contents, CallTyped, Ops, ChipTyped
  <1>4. SignaturePlace'
    BY <1>2, NotSig DEF UserProgramOk, CallTyped, Ops, tables, SignaturePlace
  <1>5. RamTyped'
    BY <1>2 DEF UserProgramOk, RamTyped, regions, tables
  <1>6. CallTyped' /\ LoopTyped'
    <2>1. CallTyped'
      BY <1>2, NoOpTyped DEF UserProgramOk, Finish, CallTyped, Steps, bounds
    <2>2. LoopTyped'
      BY <1>2 DEF UserProgramOk, Finish, LoopTyped
    <2> QED
      BY <2>1, <2>2
  <1>7. /\ pc' \notin {"off", "create", "erase", "prog", "mark", "ret"}
        /\ UNCHANGED <<regions, signature_ba>> /\ (protected => protected')
        /\ InArea(mapping_blocks_top_ba') /\ op'.pb # signature_ba
        /\ \A lb \in LogicBlocks : block_mapping'[lb] # signature_ba
    BY <1>2, NoOpTyped DEF UserProgramOk, Finish, tables
  <1>8. UpdateReturns'
    BY <1>2 DEF UserProgramOk, Finish, UpdateReturns, UpdateRunning, Working
  <1> QED
    BY <1>1, <1>3, <1>4, <1>5, <1>6, <1>7, <1>8, CalmStep

LEMMA UnmapInv == IInv /\ Unmap => IInv'
  <1> SUFFICES ASSUME IInv, Unmap PROVE IInv'
    OBVIOUS
  <1>1. InOperation
    BY DEF Unmap, InOperation
  <1>2. /\ ChipTyped /\ RamTyped /\ LoopTyped /\ CallTyped
        /\ signature_ba # 0 /\ signature_ba \in Nat /\ MgmtStart \in Nat
        /\ InArea(mapping_blocks_ba) /\ InArea(mapping_blocks_top_ba)
        /\ \A lb \in LogicBlocks : block_mapping[lb] # signature_ba
        /\ op.pb # signature_ba /\ SignaturePlace /\ UpdateReturns
    BY <1>1, InOperationFacts
  <1>3. ChipTyped'
    BY <1>2 DEF Unmap, RamStep, chip, ChipTyped
  <1>4. SignaturePlace'
    BY <1>2, NotSig DEF Unmap, RamStep, chip, SignaturePlace
  <1>5. RamTyped'
    BY <1>2 DEF Unmap, Mappings, RamTyped, regions
  <1>6. CallTyped' /\ LoopTyped'
    <2>1. CallTyped'
      BY <1>2, NoOpTyped DEF Unmap, CallTyped, Steps, control, bounds, RamStep
    <2>2. LoopTyped'
      BY <1>2 DEF Unmap, LoopTyped
    <2> QED
      BY <2>1, <2>2
  <1>7. /\ pc' \notin {"off", "create", "erase", "prog", "mark", "ret"}
        /\ UNCHANGED <<regions, signature_ba>> /\ (protected => protected')
        /\ InArea(mapping_blocks_top_ba') /\ op'.pb # signature_ba
        /\ \A lb \in LogicBlocks : block_mapping'[lb] # signature_ba
    BY <1>2, NoOpTyped DEF Unmap, Unmapped, control
  <1>8. UpdateReturns'
    BY <1>2 DEF Unmap, UpdateReturns, UpdateRunning, Working
  <1> QED
    BY <1>1, <1>3, <1>4, <1>5, <1>6, <1>7, <1>8, CalmStep

LEMMA DetachInv == IInv /\ Detach => IInv'
  <1> SUFFICES ASSUME IInv, Detach PROVE IInv'
    OBVIOUS
  <1>1. InOperation
    BY DEF Detach, CanCall, InOperation
  <1>2. /\ ChipTyped /\ RamTyped /\ LoopTyped /\ CallTyped
        /\ signature_ba # 0 /\ signature_ba \in Nat /\ MgmtStart \in Nat
        /\ InArea(mapping_blocks_ba) /\ InArea(mapping_blocks_top_ba)
        /\ \A lb \in LogicBlocks : block_mapping[lb] # signature_ba
        /\ op.pb # signature_ba /\ SignaturePlace /\ UpdateReturns
    BY <1>1, InOperationFacts
  <1>3. ChipTyped'
    BY <1>2 DEF Detach, chip, ChipTyped
  <1>4. SignaturePlace'
    BY <1>2, NotSig DEF Detach, tables, chip, SignaturePlace
  <1>5. RamTyped'
    BY <1>2 DEF Detach, RamTyped, regions, tables
  <1>6. CallTyped' /\ LoopTyped'
    <2>1. CallTyped'
      BY <1>2, NoOpTyped
         DEF Detach, Update, CallTyped, Steps, Returns, Kinds, Ops
    <2>2. LoopTyped'
      BY <1>2 DEF Detach, Update, LoopTyped
    <2> QED
      BY <2>1, <2>2
  <1>7. /\ pc' \notin {"off", "create", "erase", "prog", "mark", "ret"}
        /\ UNCHANGED <<regions, signature_ba>> /\ (protected => protected')
        /\ InArea(mapping_blocks_top_ba') /\ op'.pb # signature_ba
        /\ \A lb \in LogicBlocks : block_mapping'[lb] # signature_ba
    BY <1>2, NoOpTyped DEF Detach, Update, tables
  <1>8. UpdateReturns'
    BY <1>2 DEF Detach, Update, UpdateReturns, Working
  <1> QED
    BY <1>1, <1>3, <1>4, <1>5, <1>6, <1>7, <1>8, CalmStep

---------------------------------------------------------------------------------
(* nmbm_map_block hands out blocks of the pool, below the signature.        *)

LEMMA CandidateRange ==
  ASSUME IInv, InOperation, NEW pb \in Candidates
  PROVE  /\ pb \in Blocks /\ MgmtStart <= pb /\ pb < signature_ba
         /\ MgmtStart <= mapping_blocks_top_ba - 1
         /\ mapping_blocks_top_ba - 1 < signature_ba
         /\ mapping_blocks_top_ba - 1 \in Nat
  <1>1. /\ signature_ba \in Nat /\ MgmtStart \in Nat
        /\ InArea(mapping_blocks_ba) /\ InArea(mapping_blocks_top_ba)
        /\ mapping_blocks_ba \in Nat /\ mapping_blocks_top_ba \in Nat
    BY InOperationFacts DEF RamTyped
  <1>2. pb \in Blocks /\ mapping_blocks_ba < pb /\ pb <= mapping_blocks_top_ba
    BY <1>1, WalkDescRange DEF Candidates
  <1> QED
    BY <1>1, <1>2 DEF InArea, Blocks

(* A block is mapped, and everything else of nmbm_map_block's step is calm. *)
LEMMA MapStep ==
  ASSUME IInv, InOperation,
         NEW lb \in LogicBlocks, NEW pb \in Candidates, Map(lb, pb)
  PROVE  /\ block_mapping' \in Mappings /\ changed' \in BOOLEAN
         /\ mapping_blocks_top_ba' \in Nat /\ InArea(mapping_blocks_top_ba')
         /\ \A x \in LogicBlocks : block_mapping'[x] # signature_ba
         /\ block_mapping'[lb] # Unmapped
         /\ \A x \in LogicBlocks : block_mapping[x] # Unmapped => block_mapping'[x] # Unmapped
  <1>1. /\ pb \in Blocks /\ pb < signature_ba
        /\ MgmtStart <= mapping_blocks_top_ba - 1
        /\ mapping_blocks_top_ba - 1 < signature_ba
        /\ mapping_blocks_top_ba - 1 \in Nat
    BY CandidateRange
  <1>2. signature_ba # 0 /\ block_mapping \in Mappings
        /\ \A x \in LogicBlocks : block_mapping[x] # signature_ba
    BY InOperationFacts DEF RamTyped
  <1>3. pb # signature_ba /\ pb # Unmapped
    BY <1>1, <1>2, InOperationFacts DEF Blocks, Unmapped
  <1> QED
    BY <1>1, <1>2, <1>3 DEF Map, Mappings, InArea

LEMMA MapForEraseInv == IInv /\ MapForErase => IInv'
  <1> SUFFICES ASSUME IInv, MapForErase PROVE IInv'
    OBVIOUS
  <1>1. InOperation
    BY DEF MapForErase, InOperation
  <1>2. /\ ChipTyped /\ RamTyped /\ LoopTyped /\ CallTyped
        /\ signature_ba # 0 /\ signature_ba \in Nat /\ MgmtStart \in Nat
        /\ InArea(mapping_blocks_ba) /\ InArea(mapping_blocks_top_ba)
        /\ \A lb \in LogicBlocks : block_mapping[lb] # signature_ba
        /\ op.pb # signature_ba /\ op.lb \in LogicBlocks
        /\ SignaturePlace /\ UpdateReturns
    BY <1>1, InOperationFacts DEF CallTyped, Ops
  <1>3. ChipTyped' /\ SignaturePlace'
    BY <1>2
       DEF MapForErase, ChipTyped, RamStep, chip, SignaturePlace, PoolUsedUp,
           tables
  <1>4. CASE \/ /\ pc' = "map_failed" /\ UNCHANGED <<block_state, changed, tables, ret>>
             \/ PoolUsedUp
    <2>1. RamTyped'
      BY <1>2, <1>4 DEF MapForErase, PoolUsedUp, tables, regions, RamTyped
    <2>2. CallTyped' /\ LoopTyped' /\ UpdateReturns'
      BY <1>2, <1>4
         DEF MapForErase, PoolUsedUp, Update, CallTyped, LoopTyped, Steps,
             Returns, RamStep, bounds, UpdateReturns, UpdateRunning, Working
    <2>3. /\ pc' \in {"map_failed", "update"} /\ UNCHANGED <<regions, signature_ba>>
          /\ UNCHANGED <<mapping_blocks_top_ba, block_mapping, protected, op>>
      BY <1>4 DEF MapForErase, PoolUsedUp, Update, tables
    <2> QED
      BY <1>1, <1>2, <1>3, <2>1, <2>2, <2>3, CalmStep
  <1>5. CASE /\ \E pb \in Candidates : Map(op.lb, pb)
             /\ block_state' = Retired(block_state, op.pb)
             /\ Update("retry")
             /\ UNCHANGED <<data_block_count, signature_ba, write_count,
                            info_table_cache>>
    <2>1. /\ block_mapping' \in Mappings /\ changed' \in BOOLEAN
          /\ mapping_blocks_top_ba' \in Nat /\ InArea(mapping_blocks_top_ba')
          /\ \A x \in LogicBlocks : block_mapping'[x] # signature_ba
          /\ block_mapping'[op.lb] # Unmapped
      BY <1>1, <1>2, <1>5, MapStep
    <2>2. RamTyped'
      BY <1>2, <1>5, <2>1
         DEF MapForErase, regions, RamTyped, Retired, SetBad, BlockStates
    <2>3. CallTyped' /\ LoopTyped' /\ UpdateReturns'
      BY <1>2, <1>5, <2>1
         DEF MapForErase, Update, CallTyped, LoopTyped, Steps, Returns, RamStep,
             bounds, UpdateReturns, Working
    <2>4. /\ pc' = "update" /\ UNCHANGED <<regions, signature_ba, protected, op>>
      BY <1>5 DEF MapForErase, Update
    <2> QED
      BY <1>1, <1>2, <1>3, <2>1, <2>2, <2>3, <2>4, CalmStep
  <1> QED
    BY <1>4, <1>5 DEF MapForErase

LEMMA RemapTailInv == IInv /\ RemapTail => IInv'
  <1> SUFFICES ASSUME IInv, RemapTail PROVE IInv'
    OBVIOUS
  <1>1. InOperation /\ pc = "remap"
    BY DEF RemapTail, InOperation
  <1>2. /\ ChipTyped /\ RamTyped /\ LoopTyped /\ CallTyped
        /\ signature_ba # 0 /\ signature_ba \in Nat /\ MgmtStart \in Nat
        /\ InArea(mapping_blocks_ba) /\ InArea(mapping_blocks_top_ba)
        /\ \A lb \in LogicBlocks : block_mapping[lb] # signature_ba
        /\ op.pb # signature_ba /\ op.lb \in LogicBlocks
        /\ SignaturePlace /\ UpdateReturns
    BY <1>1, InOperationFacts DEF CallTyped, Ops
  <1>3. ChipTyped' /\ SignaturePlace'
    BY <1>2
       DEF RemapTail, ChipTyped, RamStep, chip, SignaturePlace, PoolUsedUp,
           tables
  <1>4. CASE PoolUsedUp \/ (Update("created") /\ UNCHANGED <<block_state, changed, tables>>)
    <2>1. RamTyped'
      BY <1>2, <1>4 DEF RemapTail, PoolUsedUp, tables, regions, RamTyped
    <2>2. CallTyped' /\ LoopTyped' /\ UpdateReturns'
      BY <1>1, <1>2, <1>4
         DEF RemapTail, PoolUsedUp, Update, CallTyped, LoopTyped, Steps,
             Returns, RamStep, bounds, UpdateReturns, Working
    <2>3. /\ pc' = "update" /\ UNCHANGED <<regions, signature_ba>>
          /\ UNCHANGED <<mapping_blocks_top_ba, block_mapping, protected, op>>
      BY <1>4 DEF RemapTail, PoolUsedUp, Update, tables
    <2> QED
      BY <1>1, <1>2, <1>3, <2>1, <2>2, <2>3, CalmStep
  <1>5. CASE /\ data_block_count < MgmtStart
             /\ \E pb \in Candidates : Map(data_block_count, pb)
             /\ data_block_count' = data_block_count + 1
             /\ UNCHANGED <<block_state, signature_ba, write_count, info_table_cache,
                            pc, ret>>
    <2>1. data_block_count \in LogicBlocks
      BY <1>2, <1>5 DEF RamTyped, LogicBlocks
    <2>2. /\ block_mapping' \in Mappings /\ changed' \in BOOLEAN
          /\ mapping_blocks_top_ba' \in Nat /\ InArea(mapping_blocks_top_ba')
          /\ \A x \in LogicBlocks : block_mapping'[x] # signature_ba
          /\ \A x \in LogicBlocks : block_mapping[x] # Unmapped => block_mapping'[x] # Unmapped
      BY <1>1, <1>5, <2>1, MapStep
    <2>3. RamTyped'
      BY <1>2, <1>5, <2>2 DEF RemapTail, regions, RamTyped
    <2>4. CallTyped' /\ LoopTyped' /\ UpdateReturns'
      BY <1>1, <1>2, <1>5, <2>2
         DEF RemapTail, CallTyped, LoopTyped, RamStep, bounds, UpdateReturns,
             UpdateRunning, Working
    <2>5. /\ pc' = "remap" /\ UNCHANGED <<regions, signature_ba, protected, op>>
      BY <1>1, <1>5 DEF RemapTail
    <2> QED
      BY <1>1, <1>2, <1>3, <2>2, <2>3, <2>4, <2>5, CalmStep
  <1> QED
    BY <1>4, <1>5 DEF RemapTail

---------------------------------------------------------------------------------
(* The user's calls.                                                        *)

LEMMA AnsweredInv ==
  ASSUME IInv, NEW lb \in LogicBlocks, NEW kind,
         Refuse(kind, lb) \/ Read(lb)
  PROVE  IInv'
  <1>1. /\ pc = "idle" /\ calls' = calls + 1
        /\ res' \in {"ok", "rofs", "inval", "err"}
        /\ UNCHANGED <<chip, block_state, changed, protected, regions, tables, pc, w,
                       caller, ret, op, formatted, faults, boots>>
    BY DEF Refuse, Read, CanCall, Refusal
  <1>2. InOperation
    BY <1>1 DEF InOperation
  <1>3. /\ ChipTyped' /\ RamTyped' /\ LoopTyped' /\ CallTyped'
        /\ SignaturePlace' /\ UpdateReturns'
    BY <1>1, <1>2, InOperationFacts
       DEF ChipTyped, RamTyped, LoopTyped, CallTyped, SignaturePlace,
           UpdateReturns, UpdateRunning, Working, chip, regions, tables
  <1>4. /\ InArea(mapping_blocks_top_ba') /\ op'.pb # signature_ba
        /\ \A x \in LogicBlocks : block_mapping'[x] # signature_ba
    BY <1>1, <1>2, InOperationFacts DEF tables, InArea
  <1> QED
    BY <1>1, <1>2, <1>3, <1>4, CalmStep DEF tables

LEMMA BeginInv ==
  ASSUME IInv, NEW lb \in LogicBlocks, NEW kind \in {"erase", "write", "markbad"},
         NEW val \in {Blank, Junk} \cup {Data(v) : v \in Values},
         NEW first \in {"retry", "user_prog", "unmap"}, Begin(kind, lb, val, first)
  PROVE  IInv'
  <1>1. /\ pc = "idle" /\ pc' = first /\ calls' = calls + 1 /\ res' = "none"
        /\ op' = [kind |-> kind, lb |-> lb, pb |-> block_mapping[lb], val |-> val]
        /\ UNCHANGED <<chip, block_state, changed, protected, regions, tables, w,
                       caller, ret, formatted, faults, boots>>
    BY DEF Begin, CanCall
  <1>2. block_mapping[lb] \in Blocks
    <2>1. Refusal(kind, lb) = "none"
      BY DEF Begin
    <2>2. lb \in Int /\ data_block_count \in Int
      BY ChipAssumption DEF IInv, TypeOK, LogicBlocks
    <2>3. block_mapping[lb] # Unmapped
      BY <2>1, <2>2 DEF Refusal, Readable
    <2> QED
      BY <2>3 DEF IInv, TypeOK, Mappings
  <1>3. InOperation
    BY <1>1 DEF InOperation
  <1>4. op' \in Ops /\ op'.pb # signature_ba /\ op'.lb = lb
    BY <1>1, <1>2, <1>3, InOperationFacts DEF Ops, Kinds
  <1>5. /\ ChipTyped' /\ RamTyped' /\ LoopTyped' /\ CallTyped' /\ SignaturePlace'
    BY <1>1, <1>3, <1>4, InOperationFacts
       DEF ChipTyped, RamTyped, LoopTyped, CallTyped, SignaturePlace, chip,
           regions, tables, Steps
  <1>6. UpdateReturns'
    BY <1>1, <1>2, <1>4, ChipAssumption
       DEF UpdateReturns, UpdateRunning, Working, tables, Unmapped, Blocks
  <1>7. /\ InArea(mapping_blocks_top_ba')
        /\ \A x \in LogicBlocks : block_mapping'[x] # signature_ba
    BY <1>1, <1>3, InOperationFacts DEF tables, InArea
  <1> QED
    BY <1>1, <1>3, <1>4, <1>5, <1>6, <1>7, CalmStep DEF tables

LEMMA UserInv == IInv /\ User => IInv'
  <1> SUFFICES ASSUME IInv, User PROVE IInv'
    OBVIOUS
  <1>1. CASE Detach
    BY <1>1, DetachInv
  <1>2. ASSUME NEW lb \in LogicBlocks,
               \/ \E kind \in {"read", "write", "erase", "markbad"} : Refuse(kind, lb)
               \/ Read(lb) \/ BeginErase(lb) \/ BeginMarkBad(lb)
               \/ \E v \in Values : BeginWrite(lb, v)
        PROVE  IInv'
    BY <1>2, AnsweredInv, BeginInv DEF BeginErase, BeginMarkBad, BeginWrite
  <1> QED
    BY <1>1, <1>2 DEF User

---------------------------------------------------------------------------------
(* Power: what the power cut leaves, and the instance gone.                 *)

LEMMA OffTyped ==
  ASSUME PowerOff
  PROVE  RamTyped' /\ LoopTyped'
  <1>1. AllGood \in [Blocks -> BlockStates] /\ NoMapping \in Mappings
        /\ NoTable \in Tables /\ 0 \in Blocks /\ 0 \in 0 .. MgmtStart
    BY ChipAssumption
       DEF AllGood, NoMapping, NoTable, Tables, Mappings, BlockStates, Blocks
  <1>2. NoJob \in Jobs
    BY DEF NoJob, Jobs, Continuations
  <1> QED
    BY <1>1, <1>2 DEF PowerOff, RamTyped, LoopTyped

LEMMA PowerOffInv ==
  ASSUME IInv, PowerOff, flash' \in [Blocks -> Contents], SignaturePlace',
         marked' = marked, faults' = faults, calls' = calls, boots' = boots,
         formatted' \in BOOLEAN
  PROVE  IInv'
  <1>1. TypeOK'
    BY OffTyped, NoOpTyped, TypePartsAfter
       DEF PowerOff, IInv, TypeOK, ChipTyped, CallTyped, Steps, Returns
  <1>2. \A lb \in LogicBlocks : NoMapping[lb] = Unmapped
    BY DEF NoMapping
  <1>3. NoArea'
    BY <1>2, NoOpTyped, ChipAssumption DEF PowerOff, NoArea, Unmapped
  <1>4. Area' /\ Work' /\ MainThere' /\ Off' /\ UpdateReturns'
    BY DEF PowerOff, Area, Work, MainThere, Off, UpdateReturns, UpdateRunning,
           Working
  <1> QED
    BY <1>1, <1>3, <1>4 DEF IInv

LEMMA DetachedInv == IInv /\ Detached => IInv'
  <1> SUFFICES ASSUME IInv, Detached PROVE IInv'
    OBVIOUS
  <1>1. PowerOff /\ UNCHANGED <<flash, marked, formatted, faults, calls, boots>>
    BY DEF Detached, chip, bounds
  <1>2. SignaturePlace'
    BY <1>1 DEF IInv, SignaturePlace, PowerOff
  <1> QED
    BY <1>1, <1>2, PowerOffInv DEF IInv, TypeOK

(* A block that was being programmed with the signature may hold it.        *)
LEMMA PowerCutInv == IInv /\ PowerCut => IInv'
  <1> SUFFICES ASSUME IInv, PowerCut PROVE IInv'
    OBVIOUS
  <1>1. PICK c \in Interrupted.left : flash' = [flash EXCEPT ![Interrupted.ba] = c]
    BY DEF PowerCut
  <1>2. /\ Interrupted.ba \in Blocks
        /\ Interrupted.left \subseteq {flash[Interrupted.ba], Blank, Junk, Sig}
        /\ Sig \in Interrupted.left =>
             flash[Interrupted.ba] = Sig \/ MgmtStart < Interrupted.ba
    <2>1. op.pb \in Blocks /\ 0 \in Blocks
      BY ChipAssumption DEF IInv, TypeOK, Blocks
    <2>2. CASE pc = "erase"
      BY <2>2, NotSig DEF Interrupted, IInv, TypeOK
    <2>3. CASE pc = "prog"
      <3>1. w.ba \in Blocks /\ w.ba \in Ahead(w) /\ Confined(w) /\ w \in Jobs
        BY <2>3 DEF IInv, TypeOK, Work, Working
      <3>2. w.mode = "sig" => MgmtStart < w.ba
        BY <3>1, ChipAssumption DEF Confined, Ahead
      <3> QED
        BY <2>3, <3>1, <3>2, NotSig DEF Interrupted
    <2>4. CASE pc = "user_erase"
      BY <2>1, <2>4, NotSig DEF Interrupted
    <2>5. CASE pc = "user_prog"
      BY <2>1, <2>5, NotSig DEF Interrupted
    <2>6. CASE pc \notin {"erase", "prog", "user_erase", "user_prog"}
      BY <2>1, <2>6 DEF Interrupted
    <2> QED
      BY <2>2, <2>3, <2>4, <2>5, <2>6
  <1>3. flash' \in [Blocks -> Contents]
    BY <1>1, <1>2 DEF IInv, TypeOK, Contents
  <1>4. SignaturePlace'
    BY <1>1, <1>2 DEF IInv, SignaturePlace, PowerCut, PowerOff
  <1> QED
    BY <1>3, <1>4, PowerOffInv DEF PowerCut, bounds

---------------------------------------------------------------------------------
(* nmbm_attach: creating the tables.                                        *)

LEMMA SigWrittenInv == IInv /\ SigWritten => IInv'
  <1> SUFFICES ASSUME IInv, SigWritten PROVE IInv'
    OBVIOUS
  <1>1. pc = "ret" /\ w.then = "sig" /\ w \in Jobs /\ Confined(w)
    BY DEF SigWritten, Returned, IInv, TypeOK, Work, Working
  <1>2. w.mode = "sig" /\ signature_ba = 0 /\ w.lim = MgmtStart /\ w.ba < BlockCount
    BY <1>1 DEF Confined, TableSteps, RangeSteps
  <1>3. /\ main_table_ba = 0 /\ backup_table_ba = 0
        /\ mapping_blocks_ba = 0 /\ mapping_blocks_top_ba = 0
        /\ \A lb \in LogicBlocks : block_mapping[lb] < MgmtStart
        /\ op.pb = 0
    BY <1>2 DEF IInv, NoArea
  <1>4. pc' \in {"create", "failed"} /\ ~protected' = ~protected
        /\ UNCHANGED <<chip, regions, block_mapping, mapping_blocks_top_ba, op, w,
                       caller, ret>>
    BY DEF SigWritten, RamStep, control
  <1>5. \/ pc' = "failed" /\ signature_ba' = 0
        \/ signature_ba' = w.ba /\ MgmtStart < w.ba /\ w.ba \in Blocks
    <2>1. w.ok => w.ba \in Ahead(w)
      BY <1>1, <1>2 DEF IInv, Work, Working
    <2> QED
      BY <1>1, <1>2, <2>1, ChipAssumption DEF SigWritten, Ahead, Blocks
  <1>6. TypeOK'
    <2>1. 0 \in Blocks
      BY ChipAssumption DEF Blocks
    <2> QED
      BY <1>4, <1>5, <2>1
         DEF SigWritten, IInv, TypeOK, RamStep, chip, regions, control, bounds,
             Steps
  <1>7. SignaturePlace' /\ Area'
    BY <1>3, <1>4, <1>5, ChipAssumption
       DEF IInv, SignaturePlace, Area, chip, regions, Blocks
  <1>8. NoArea'
    BY <1>3, <1>4, <1>5, ChipAssumption DEF NoArea, regions
  <1>9. Work' /\ MainThere' /\ Off' /\ UpdateReturns'
    BY <1>1, <1>4
       DEF IInv, Work, MainThere, Off, UpdateReturns, UpdateRunning, Working
  <1> QED
    BY <1>6, <1>7, <1>8, <1>9 DEF IInv

LEMMA CreateTablesInv == IInv /\ CreateTables => IInv'
  <1> SUFFICES ASSUME IInv, CreateTables PROVE IInv'
    OBVIOUS
  <1>1. pc = "create" /\ signature_ba # 0 /\ signature_ba \in Blocks
        /\ signature_ba' = signature_ba /\ Usable
        /\ protected' = protected /\ UNCHANGED control
        /\ UNCHANGED <<block_mapping, data_block_count>>
        /\ RamStep
    BY Known DEF CreateTables, IInv, TypeOK, Usable
  <1>2. /\ main_table_ba # 0 => InArea(main_table_ba)
        /\ backup_table_ba # 0 => InArea(backup_table_ba)
        /\ \A lb \in LogicBlocks : block_mapping[lb] # signature_ba
        /\ op.pb # signature_ba
    BY <1>1 DEF IInv, Area
  <1>3. CASE /\ pc' = "failed"
             /\ UNCHANGED <<block_state, changed, regions, w, write_count,
                            info_table_cache, mapping_blocks_top_ba>>
    <2>1. TypeOK' /\ SignaturePlace'
      BY <1>1, <1>3
         DEF IInv, TypeOK, RamStep, chip, regions, control, bounds, Steps,
             SignaturePlace
    <2>2. Area'
      BY <1>1, <1>2, <1>3 DEF Area, regions, control, InArea
    <2>3. NoArea' /\ Work' /\ MainThere' /\ Off' /\ UpdateReturns'
      BY <1>1, <1>3
         DEF NoArea, Work, MainThere, Off, UpdateReturns, UpdateRunning, Working
    <2> QED
      BY <2>1, <2>2, <2>3 DEF IInv
  <1>4. ASSUME NEW t \in PoolTop, NEW count \in Nat,
               /\ mapping_blocks_top_ba' = t
               /\ write_count' = count
               /\ info_table_cache' = InfoTable(block_state, block_mapping, count)
               /\ main_table_ba' = 0 /\ backup_table_ba' = 0
               /\ mapping_blocks_ba' = t
               /\ WriteTable(MgmtStart, t, "rebuild_main", changed)
        PROVE  IInv'
    <2>1. t \in Nat /\ MgmtStart < t /\ t < signature_ba /\ MgmtStart \in Nat
          /\ "rebuild_main" \in TableSteps /\ changed \in BOOLEAN
      BY <1>1, PoolTopRange, ChipAssumption
         DEF Blocks, TableSteps, Continuations, IInv, TypeOK
    <2>2. Entered("rebuild_main", t)
      BY <1>1, <1>4, <2>1, TableStarts
    <2>3. TypeOK'
      <3>1. InfoTable(block_state, block_mapping, count) \in Tables
        BY DEF IInv, TypeOK, InfoTable, Tables
      <3> QED
        BY <1>1, <1>4, <2>1, <2>2, <3>1
           DEF IInv, TypeOK, RamStep, chip, control, bounds, Steps, Entered,
               States
    <2>4. SignaturePlace' /\ Area'
      BY <1>1, <1>2, <1>4, <2>1, <2>2
         DEF IInv, SignaturePlace, Area, RamStep, chip, control, InArea
    <2>5. NoArea' /\ Work' /\ MainThere' /\ Off'
      BY <1>1, <1>4, <2>1, <2>2
         DEF NoArea, Work, MainThere, Off, Working, Entered
    <2>6. UpdateReturns'
      BY <1>1, <1>4, <2>1, <2>2
         DEF UpdateReturns, UpdateRunning, Entered, IInv, control
    <2> QED
      BY <2>3, <2>4, <2>5, <2>6 DEF IInv
  <1>5. (IF changed THEN write_count + 1 ELSE write_count) \in Nat
    BY DEF IInv, TypeOK
  <1> QED
    BY <1>3, <1>4, <1>5 DEF CreateTables

---------------------------------------------------------------------------------
(* nmbm_attach: what is found on the chip.                                  *)

LEMMA FoundSigRange ==
  ASSUME IInv, NEW sig \in FoundSig
  PROVE  sig \in Blocks /\ MgmtStart < sig /\ sig # 0 /\ sig \in Nat
  BY ChipAssumption DEF FoundSig, SigBlocks, IInv, SignaturePlace, Blocks

LEMMA AsBadType ==
  ASSUME NEW s \in States, NEW S
  PROVE  AsBad(s, S) \in States
  BY DEF AsBad, States, BlockStates

LEMMA AllGoodType == AllGood \in States
  BY DEF AllGood, States, BlockStates

LEMMA DataBlocksCount ==
  ASSUME NEW s
  PROVE  Cardinality(DataBlocks(s)) \in 0 .. MgmtStart
  <1>1. DataBlocks(s) \subseteq 0 .. MgmtStart - 1
    BY DEF DataBlocks, LogicBlocks
  <1>2. IsFiniteSet(0 .. MgmtStart - 1) /\ Cardinality(0 .. MgmtStart - 1) = MgmtStart
    BY FS_Interval, ChipAssumption
  <1>3. IsFiniteSet(DataBlocks(s)) /\ Cardinality(DataBlocks(s)) <= MgmtStart
    BY <1>1, <1>2, FS_Subset
  <1> QED
    BY <1>3, FS_CardinalityType, ChipAssumption

(* The mapping of a new chip stays in the data area.                        *)
LEMMA BuildMappingRange ==
  ASSUME NEW s
  PROVE  /\ BuildMapping(s) \in Mappings
         /\ \A lb \in LogicBlocks : BuildMapping(s)[lb] < MgmtStart
  <1>1. ASSUME NEW lb \in LogicBlocks
        PROVE  BuildMapping(s)[lb] \in LogicBlocks \cup {Unmapped}
    BY DEF BuildMapping, Nth, DataBlocks
  <1>2. LogicBlocks \subseteq Blocks
    BY ChipAssumption DEF LogicBlocks, Blocks
  <1>3. BuildMapping(s) \in [LogicBlocks -> LogicBlocks \cup {Unmapped}]
    <2> DEFINE value(lb) == IF Nth(s, lb) = {} THEN Unmapped
                            ELSE CHOOSE pb \in Nth(s, lb) : TRUE
    <2>1. BuildMapping(s) = [lb \in LogicBlocks |-> value(lb)]
      BY DEF BuildMapping
    <2>2. \A lb \in LogicBlocks : value(lb) \in LogicBlocks \cup {Unmapped}
      BY <1>1, <2>1
    <2> HIDE DEF value
    <2> QED
      BY <2>1, <2>2
  <1>4. BuildMapping(s) \in Mappings
    BY <1>2, <1>3 DEF Mappings
  <1>5. \A x \in LogicBlocks \cup {Unmapped} : x < MgmtStart
    BY ChipAssumption DEF LogicBlocks, Unmapped
  <1> QED
    BY <1>3, <1>4, <1>5

(* What every attach starts from, and what its call looks like.             *)
LEMMA AttachStarts ==
  ASSUME IInv, StartAttach
  PROVE  /\ pc = "off" /\ signature_ba = 0 /\ protected' = FALSE
         /\ op' \in Ops /\ op'.pb = 0 /\ res' = "none"
         /\ ChipTyped' /\ UNCHANGED <<flash, marked, ret, formatted>>
         /\ calls' \in Nat /\ boots' \in Nat /\ formatted' \in BOOLEAN /\ ret' \in Returns
         /\ marked \subseteq Blocks /\ flash \in [Blocks -> Contents]
         /\ 0 \in Blocks /\ 0 < MgmtStart /\ MgmtStart \in Nat
  <1>1. /\ pc = "off" /\ op' = [NoOp EXCEPT !.kind = "attach"] /\ res' = "none"
        /\ boots' = boots + 1
        /\ UNCHANGED <<flash, marked, protected, ret, formatted, calls, faults>>
    BY DEF StartAttach, chip
  <1>2. op' \in Ops /\ op'.pb = 0
    BY <1>1, NoOpTyped DEF Ops, Kinds
  <1>3. signature_ba = 0 /\ protected' = FALSE /\ ChipTyped'
        /\ calls' \in Nat /\ boots' \in Nat /\ formatted' \in BOOLEAN /\ ret' \in Returns
        /\ marked \subseteq Blocks /\ flash \in [Blocks -> Contents]
    BY <1>1 DEF IInv, Off, TypeOK, ChipTyped
  <1> QED
    BY <1>1, <1>2, <1>3, ChipAssumption DEF Blocks

LEMMA AttachFailsInv == IInv /\ AttachFails => IInv'
  <1> SUFFICES ASSUME IInv, AttachFails PROVE IInv'
    OBVIOUS
  <1>1. /\ pc = "off" /\ signature_ba = 0 /\ protected' = FALSE
        /\ op' \in Ops /\ op'.pb = 0 /\ res' = "none"
        /\ ChipTyped' /\ UNCHANGED <<flash, marked, ret, formatted>>
        /\ calls' \in Nat /\ boots' \in Nat /\ formatted' \in BOOLEAN /\ ret' \in Returns
        /\ pc' = "failed"
        /\ UNCHANGED <<block_state, changed, regions, tables, w, caller>>
    BY AttachStarts DEF AttachFails
  <1>2. RamTyped' /\ LoopTyped' /\ CallTyped'
    BY <1>1
       DEF IInv, TypeOK, RamTyped, LoopTyped, CallTyped, regions, tables, Steps
  <1>3. SignaturePlace' /\ Area' /\ NoArea'
    BY <1>1 DEF IInv, SignaturePlace, Area, NoArea, regions, tables
  <1>4. Work' /\ MainThere' /\ Off' /\ UpdateReturns'
    BY <1>1 DEF Work, MainThere, Off, UpdateReturns, UpdateRunning, Working
  <1> QED
    BY <1>1, <1>2, <1>3, <1>4, TypePartsAfter DEF IInv

LEMMA CreateExistingInv == IInv /\ CreateExisting => IInv'
  <1> SUFFICES ASSUME IInv, CreateExisting PROVE IInv'
    OBVIOUS
  <1>1. /\ pc = "off" /\ signature_ba = 0 /\ protected' = FALSE
        /\ op' \in Ops /\ op'.pb = 0 /\ res' = "none"
        /\ ChipTyped' /\ UNCHANGED <<flash, marked, ret, formatted>>
        /\ calls' \in Nat /\ boots' \in Nat /\ formatted' \in BOOLEAN /\ ret' \in Returns
        /\ 0 < MgmtStart /\ MgmtStart \in Nat
    BY AttachStarts DEF CreateExisting
  <1>2a. PICK sig \in FoundSig :
           \E bad : /\ signature_ba' = sig
                   /\ Format(AsBad(AllGood, bad))
                   /\ block_state' = Scanned(AsBad(AllGood, bad))
                   /\ changed' \in BOOLEAN
                   /\ pc' = "create"
    BY DEF CreateExisting
  <1>2. PICK bad : /\ signature_ba' = sig
                   /\ Format(AsBad(AllGood, bad))
                   /\ block_state' = Scanned(AsBad(AllGood, bad))
                   /\ changed' \in BOOLEAN
                   /\ pc' = "create"
    BY <1>2a
  <1>3. sig \in Blocks /\ MgmtStart < sig /\ sig # 0 /\ sig \in Nat
    BY FoundSigRange
  <1>4. block_state' \in States
    BY <1>2, AllGoodType, AsBadType DEF Scanned
  <1>5. /\ block_mapping' \in Mappings /\ data_block_count' \in 0 .. MgmtStart
        /\ \A lb \in LogicBlocks : block_mapping'[lb] < MgmtStart
        /\ write_count' = 0 /\ main_table_ba' = 0 /\ backup_table_ba' = 0
        /\ mapping_blocks_ba' = 0 /\ mapping_blocks_top_ba' = 0
        /\ caller' = "create"
    BY <1>2, BuildMappingRange, DataBlocksCount DEF Format
  <1>6. UNCHANGED <<info_table_cache, w>>
    BY DEF CreateExisting
  <1>7. RamTyped' /\ LoopTyped' /\ CallTyped'
    BY <1>1, <1>2, <1>3, <1>4, <1>5, <1>6
       DEF IInv, TypeOK, RamTyped, LoopTyped, CallTyped, States, Steps
  <1>8. \A lb \in LogicBlocks : block_mapping'[lb] # sig
    BY <1>1, <1>3, <1>5
  <1>9. SignaturePlace' /\ Area' /\ NoArea'
    BY <1>1, <1>2, <1>3, <1>5, <1>8 DEF IInv, SignaturePlace, Area, NoArea
  <1>10. Work' /\ MainThere' /\ Off' /\ UpdateReturns'
    BY <1>2, <1>5
       DEF Work, MainThere, Off, UpdateReturns, UpdateRunning, Working
  <1> QED
    BY <1>1, <1>7, <1>9, <1>10, TypePartsAfter DEF IInv

LEMMA CreateNewInv == IInv /\ CreateNew => IInv'
  <1> SUFFICES ASSUME IInv, CreateNew PROVE IInv'
    OBVIOUS
  <1> DEFINE job == [Job("sig", MgmtStart, MgmtStart, "sig") EXCEPT !.ba = BlockCount - 1]
  <1>1. /\ pc = "off" /\ signature_ba = 0 /\ protected' = FALSE
        /\ op' \in Ops /\ op'.pb = 0 /\ res' = "none"
        /\ ChipTyped' /\ UNCHANGED <<flash, marked, ret, formatted>>
        /\ calls' \in Nat /\ boots' \in Nat /\ formatted' \in BOOLEAN /\ ret' \in Returns
        /\ marked \subseteq Blocks /\ 0 \in Blocks /\ 0 < MgmtStart /\ MgmtStart \in Nat
    BY AttachStarts DEF CreateNew
  <1>2. /\ Format(AllGood) /\ Seek(job, Scanned(AllGood), marked # {})
        /\ UNCHANGED <<signature_ba, info_table_cache>>
    BY DEF CreateNew
  <1>3. /\ job \in Jobs /\ ConfinedTo(job, 0) /\ job.then = "sig" /\ job.lim = MgmtStart
        /\ job.mode = "sig"
    <2> DEFINE old == Job("sig", MgmtStart, MgmtStart, "sig")
    <2>1. /\ old \in Jobs /\ old.then = "sig" /\ old.lim = MgmtStart
          /\ old.mode = "sig"
      BY ChipAssumption DEF Job, Jobs, Continuations
    <2> HIDE DEF old
    <2>2. BlockCount - 1 \in Int /\ BlockCount - 1 < BlockCount
      BY ChipAssumption
    <2>3. job = [old EXCEPT !.ba = BlockCount - 1]
      BY DEF old
    <2> HIDE DEF job
    <2> QED
      BY <2>1, <2>2, <2>3 DEF Jobs, ConfinedTo
  <1>4. Scanned(AllGood) \in States
    BY AllGoodType, AsBadType DEF Scanned
  <1> HIDE DEF job
  <1>5. /\ w' \in Jobs /\ ConfinedTo(w', 0) /\ w'.then = "sig" /\ w'.mode = "sig"
        /\ pc' \in {"erase", "ret"}
        /\ pc' = "erase" => w'.ba \in Ahead(w') /\ w'.ba \in Blocks
        /\ pc' = "ret" /\ w'.ok => w'.mode = "range"
        /\ block_state' \in States /\ changed' \in BOOLEAN
    BY <1>1, <1>2, <1>3, <1>4, SeekStep
  <1>6. /\ block_mapping' \in Mappings /\ data_block_count' \in 0 .. MgmtStart
        /\ \A lb \in LogicBlocks : block_mapping'[lb] < MgmtStart
        /\ write_count' = 0 /\ main_table_ba' = 0 /\ backup_table_ba' = 0
        /\ mapping_blocks_ba' = 0 /\ mapping_blocks_top_ba' = 0
        /\ caller' = "create"
    BY <1>2, BuildMappingRange, DataBlocksCount DEF Format
  <1>7. Ahead(w)' = Ahead(w')
    BY DEF Ahead
  <1>8. RamTyped' /\ LoopTyped' /\ CallTyped'
    BY <1>1, <1>2, <1>5, <1>6, <1>7
       DEF IInv, TypeOK, RamTyped, LoopTyped, CallTyped, States, Steps
  <1>9. SignaturePlace' /\ Area' /\ NoArea'
    BY <1>1, <1>2, <1>5, <1>6 DEF IInv, SignaturePlace, Area, NoArea, Working
  <1>10. Work'
    <2>1. Confined(w)'
      BY <1>1, <1>2, <1>5 DEF Confined, ConfinedTo
    <2> QED
      BY <1>5, <2>1 DEF Work, Working
  <1>11. MainThere' /\ Off' /\ UpdateReturns'
    BY <1>5, <1>6 DEF MainThere, Off, UpdateReturns, UpdateRunning, Working
  <1> QED
    BY <1>1, <1>8, <1>9, <1>10, <1>11, TypePartsAfter DEF IInv

(* The tables nmbm_load_info_table finds and keeps.                         *)
LEMMA FoundRange ==
  ASSUME flash \in [Blocks -> Contents], NEW sig \in Blocks, NEW m \in MainFound(sig)
  PROVE  /\ m \in Blocks /\ MgmtStart <= m /\ m + 1 < sig /\ flash[m] \in Tables
         /\ \A b \in BackupFound(m, sig) : b \in Blocks /\ m < b /\ b + 1 < sig
         /\ Kept(m, sig) \in Blocks /\ m <= Kept(m, sig) /\ Kept(m, sig) + 1 < sig
         /\ flash[Kept(m, sig)] \in Tables
         /\ \A lb \in LogicBlocks : flash[Kept(m, sig)].mapping[lb] # sig
  <1>1. /\ m \in Blocks /\ MgmtStart <= m /\ m + 1 < sig /\ flash[m] \in Tables
        /\ \A lb \in LogicBlocks : flash[m].mapping[lb] # sig
    <2>1. m \in Hits(MgmtStart, sig, AllGood)
      BY DEF MainFound, First, Least
    <2> QED
      BY <2>1, HitsRange, ChipAssumption
  <1>2. ASSUME NEW b \in BackupFound(m, sig)
        PROVE  /\ b \in Blocks /\ m < b /\ b + 1 < sig /\ flash[b] \in Tables
               /\ \A lb \in LogicBlocks : flash[b].mapping[lb] # sig
    <2>1. b \in Hits(m + 1, sig, flash[m].state)
      BY DEF BackupFound, First, Least
    <2>2. m + 1 \in Int
      BY <1>1 DEF Blocks
    <2>3. b \in Blocks /\ m + 1 <= b
      BY <2>1, <2>2, HitsRange
    <2> QED
      BY <1>1, <2>1, <2>2, <2>3, HitsRange DEF Blocks
  <1>3. Kept(m, sig) = m \/ Kept(m, sig) \in BackupFound(m, sig)
    BY DEF Kept
  <1>4. m <= m
    BY <1>1 DEF Blocks
  <1>5. CASE Kept(m, sig) = m
    BY <1>1, <1>2, <1>4, <1>5
  <1>6. CASE Kept(m, sig) \in BackupFound(m, sig)
    BY <1>1, <1>2, <1>6 DEF Blocks
  <1> QED
    BY <1>3, <1>5, <1>6

LEMMA LoadedStateType ==
  ASSUME NEW m, NEW sig, NEW Ecc,
         flash[m] \in Tables, flash[Kept(m, sig)] \in Tables
  PROVE  LoadedState(m, sig, Ecc) \in States
  BY AsBadType DEF LoadedState, Tables, States

(* What every attach that finds a table leaves in RAM.                      *)
LEMMA LoadStep ==
  ASSUME IInv, StartAttach, NEW sig \in FoundSig, NEW m \in MainFound(sig),
         signature_ba' = sig, main_table_ba' = m, caller' = "load",
         block_mapping' = flash[Kept(m, sig)].mapping,
         data_block_count' \in 0 .. MgmtStart, write_count' \in Nat,
         info_table_cache' \in Tables, mapping_blocks_top_ba' \in Top(Kept(m, sig), sig),
         NEW backup \in Nat, backup_table_ba' = backup, backup # 0 => m < backup,
         mapping_blocks_ba' = (IF backup = 0 THEN m ELSE backup) + 1,
         mapping_blocks_ba' < sig,
         block_state' \in States, changed' \in BOOLEAN, LoopTyped', Work',
         pc' \in {"erase", "ret", "leave"}, pc' # "leave" => w'.then \in TableSteps
  PROVE  IInv'
  <1>1. /\ pc = "off" /\ protected' = FALSE
        /\ op' \in Ops /\ op'.pb = 0 /\ res' = "none"
        /\ ChipTyped' /\ UNCHANGED <<flash, marked, ret, formatted>>
        /\ calls' \in Nat /\ boots' \in Nat /\ formatted' \in BOOLEAN /\ ret' \in Returns
        /\ flash \in [Blocks -> Contents] /\ 0 < MgmtStart /\ MgmtStart \in Nat
    BY AttachStarts
  <1>2. sig \in Blocks /\ MgmtStart < sig /\ sig # 0 /\ sig \in Nat
    BY FoundSigRange
  <1>3. /\ m \in Blocks /\ MgmtStart <= m /\ m + 1 < sig /\ m \in Nat
        /\ Kept(m, sig) \in Blocks /\ m <= Kept(m, sig) /\ Kept(m, sig) < sig
        /\ flash[Kept(m, sig)] \in Tables
        /\ \A lb \in LogicBlocks : flash[Kept(m, sig)].mapping[lb] # sig
    BY <1>1, <1>2, FoundRange DEF Blocks
  <1>4. /\ mapping_blocks_top_ba' \in Nat /\ MgmtStart <= mapping_blocks_top_ba'
        /\ mapping_blocks_top_ba' < sig
    BY <1>1, <1>2, <1>3, TopRange DEF Blocks
  <1>5. /\ mapping_blocks_ba' \in Nat /\ MgmtStart <= mapping_blocks_ba'
        /\ backup # 0 => MgmtStart <= backup /\ backup < sig
    BY <1>1, <1>2, <1>3
  <1>6. RamTyped'
    BY <1>1, <1>2, <1>3, <1>4, <1>5 DEF RamTyped, States, Tables
  <1>7. CallTyped'
    BY <1>1 DEF CallTyped, Steps
  <1>8. SignaturePlace' /\ Area'
    BY <1>1, <1>2, <1>3, <1>4, <1>5 DEF IInv, SignaturePlace, Area, InArea
  <1>9. NoArea' /\ MainThere' /\ Off'
    BY <1>1, <1>2, <1>3 DEF NoArea, MainThere, Off
  <1>10. UpdateReturns'
    BY DEF UpdateReturns, UpdateRunning, Working, TableSteps
  <1> QED
    BY <1>1, <1>6, <1>7, <1>8, <1>9, <1>10, TypePartsAfter DEF IInv

LEMMA LoadStarts ==
  ASSUME NEW sig \in Blocks, signature_ba' = sig, marked \subseteq Blocks,
         NEW lo \in Nat, MgmtStart <= lo, NEW hi \in Nat, hi < sig,
         NEW then \in TableSteps, NEW s \in States,
         Seek(Job("table", lo, hi, then), s, TRUE)
  PROVE  Entered(then, hi)
  <1>1. lo \in Int
    OBVIOUS
  <1> QED
    BY <1>1, StartJob DEF Entered

LEMMA LoadExistingInv == IInv /\ LoadExisting => IInv'
  <1> SUFFICES ASSUME IInv, LoadExisting PROVE IInv'
    OBVIOUS
  <1>1. PICK sig \in FoundSig, Ecc \in SUBSET Torn :
          /\ signature_ba' = sig
          /\ \E m \in MainFound(sig) : LoadTable(m, sig, Ecc)
    BY DEF LoadExisting
  <1>2. PICK m \in MainFound(sig) : LoadTable(m, sig, Ecc)
    BY <1>1
  <1> DEFINE k      == Kept(m, sig)
             backup == BackupFound(m, sig)
             bad1   == Unreadable(MgmtStart, sig, AllGood, Ecc)
             bad2   == Unreadable(m + 1, sig, flash[m].state, Ecc)
             found  == bad1 \cup bad2 # {}
             state  == LoadedState(m, sig, Ecc)
             mapped == {lb \in LogicBlocks : flash[k].mapping[lb] # Unmapped}
             count  == IF found THEN flash[k].count + 1 ELSE flash[k].count
  <1>3. /\ StartAttach
        /\ block_mapping' = flash[k].mapping
        /\ data_block_count' \in
             {lb + 1 : lb \in {l \in mapped : \A x \in mapped : x <= l}}
             \cup (IF mapped = {} THEN {MgmtStart} ELSE {})
        /\ mapping_blocks_top_ba' \in Top(k, sig)
        /\ main_table_ba' = m
        /\ write_count' = count
        /\ info_table_cache' = InfoTable(state, flash[k].mapping, count)
        /\ caller' = "load"
    BY <1>2 DEF LoadExisting, LoadTable
  <1>4. /\ pc = "off" /\ marked \subseteq Blocks /\ flash \in [Blocks -> Contents]
        /\ 0 < MgmtStart /\ MgmtStart \in Nat
    BY <1>3, AttachStarts
  <1>5. sig \in Blocks /\ MgmtStart < sig /\ sig # 0 /\ sig \in Nat
    BY FoundSigRange
  <1>6. /\ m \in Nat /\ MgmtStart <= m /\ m + 1 < sig /\ m < sig /\ flash[m] \in Tables
        /\ \A b \in backup : b \in Blocks /\ m < b /\ b + 1 < sig
        /\ k \in Blocks /\ k < sig /\ flash[k] \in Tables
    BY <1>4, <1>5, FoundRange DEF Blocks
  <1>7. state \in States
    BY <1>6, LoadedStateType
  <1>8. \A t \in Top(k, sig) : t \in Nat /\ t < sig
    BY <1>5, <1>6, TopRange DEF Blocks
  <1>9. data_block_count' \in 0 .. MgmtStart
    BY <1>3, <1>4 DEF LogicBlocks
  <1> HIDE DEF mapped
  <1>10. write_count' \in Nat /\ info_table_cache' \in Tables
    <2>1. count \in Nat
      BY <1>6 DEF Tables
    <2> HIDE DEF count, state, found
    <2> QED
      BY <1>3, <1>6, <1>7, <2>1 DEF InfoTable, Tables, States
  <1>11. found \in BOOLEAN /\ TRUE \in BOOLEAN
    OBVIOUS
  <1>12. \/ /\ backup = {} /\ backup_table_ba' = 0 /\ mapping_blocks_ba' = m + 1
            /\ RescueSingle(m, state, found)
         \/ \E b \in backup :
              /\ backup_table_ba' = b /\ mapping_blocks_ba' = b + 1
              /\ \/ block_state' = state /\ changed' = found /\ Leave(TRUE)
                 \/ Seek(Job("table", m, b, "update_main"), state, TRUE)
                 \/ \E t \in Top(k, sig) :
                      Seek(Job("table", b, t, "update_backup"), state, TRUE)
    BY <1>2 DEF LoadTable
  <1> HIDE DEF k, backup, found, state, count
  <1> USE DEF TableSteps, RangeSteps, Continuations
  <1>13. CASE /\ backup_table_ba' = 0 /\ mapping_blocks_ba' = m + 1
              /\ RescueSingle(m, state, found)
    <2>1. Entered("front", m)
      BY <1>1, <1>4, <1>5, <1>6, <1>7, <1>11, <1>13, StartJob
         DEF RescueSingle, Entered
    <2>2. LoopTyped' /\ Work' /\ block_state' \in States /\ changed' \in BOOLEAN
      BY <2>1 DEF Entered, LoopTyped, Work
    <2>3. mapping_blocks_ba' = (IF 0 = 0 THEN m ELSE 0) + 1 /\ mapping_blocks_ba' < sig
      BY <1>6, <1>13
    <2> QED
      BY <1>1, <1>3, <1>9, <1>10, <1>13, <2>1, <2>2, <2>3, LoadStep
         DEF Entered, k
  <1>14. ASSUME NEW b \in backup, backup_table_ba' = b, mapping_blocks_ba' = b + 1,
                \/ block_state' = state /\ changed' = found /\ Leave(TRUE)
                \/ Seek(Job("table", m, b, "update_main"), state, TRUE)
                \/ \E t \in Top(k, sig) :
                     Seek(Job("table", b, t, "update_backup"), state, TRUE)
         PROVE  IInv'
    <2>1. /\ b \in Nat /\ m < b /\ b + 1 < sig /\ b < sig /\ b # 0 /\ MgmtStart <= b
          /\ mapping_blocks_ba' = (IF b = 0 THEN m ELSE b) + 1 /\ mapping_blocks_ba' < sig
      BY <1>4, <1>5, <1>6, <1>14 DEF Blocks
    <2>2. SUFFICES /\ LoopTyped' /\ Work' /\ block_state' \in States
                   /\ changed' \in BOOLEAN /\ pc' \in {"erase", "ret", "leave"}
                   /\ pc' # "leave" => w'.then \in TableSteps
      BY <1>1, <1>3, <1>9, <1>10, <1>14, <2>1, LoadStep DEF k
    <2>3. CASE block_state' = state /\ changed' = found /\ Leave(TRUE)
      BY <1>7, <1>11, <2>3
         DEF Leave, LoopTyped, Work, Working, IInv, TypeOK, Jobs
    <2>4. CASE Seek(Job("table", m, b, "update_main"), state, TRUE)
      <3>1. Entered("update_main", b)
        BY <1>1, <1>4, <1>5, <1>6, <1>7, <2>1, <2>4, LoadStarts
      <3> QED
        BY <1>14, <2>1, <3>1 DEF Entered, LoopTyped, Work
    <2>5. CASE \E t \in Top(k, sig) :
                 Seek(Job("table", b, t, "update_backup"), state, TRUE)
      <3>1. PICK t \in Top(k, sig) :
                 Seek(Job("table", b, t, "update_backup"), state, TRUE)
        BY <2>5
      <3>2. Entered("update_backup", t)
        BY <1>1, <1>4, <1>5, <1>7, <1>8, <2>1, <3>1, LoadStarts
      <3> QED
        BY <1>14, <2>1, <3>2 DEF Entered, LoopTyped, Work
    <2> QED
      BY <1>14, <2>3, <2>4, <2>5
  <1> QED
    BY <1>12, <1>13, <1>14

---------------------------------------------------------------------------------
(* The invariant, and the theorems.                                         *)

LEMMA InitInv == Init => IInv
  <1> SUFFICES ASSUME Init PROVE IInv
    OBVIOUS
  <1>1. AllGood \in [Blocks -> BlockStates] /\ NoMapping \in Mappings
        /\ NoTable \in Tables /\ NoJob \in Jobs
        /\ \A lb \in LogicBlocks : NoMapping[lb] = -1
    BY DEF AllGood, NoMapping, NoTable, NoJob, Tables, Mappings, Unmapped,
           BlockStates, Jobs, Continuations
  <1>2. 0 \in Blocks /\ 0 \in 0 .. MgmtStart /\ FactoryBad \subseteq Blocks
    BY ChipAssumption DEF Blocks
  <1>3. ChipTyped /\ RamTyped /\ LoopTyped /\ CallTyped
    BY <1>1, <1>2, NoOpTyped
       DEF Init, ChipTyped, RamTyped, LoopTyped, CallTyped, Contents, Steps,
           Returns
  <1>4. SignaturePlace
    BY NotSig DEF Init, SignaturePlace
  <1>5. NoArea
    BY <1>1, NoOpTyped, ChipAssumption DEF Init, NoArea
  <1>6. Area /\ Work /\ MainThere /\ Off /\ UpdateReturns
    BY DEF Init, Area, Work, MainThere, Off, UpdateReturns, UpdateRunning,
           Working
  <1> QED
    BY <1>3, <1>4, <1>5, <1>6, TypeParts DEF IInv

LEMMA StutterInv == IInv /\ UNCHANGED vars => IInv'
  <1> SUFFICES ASSUME IInv, UNCHANGED vars PROVE IInv'
    OBVIOUS
  <1> USE DEF vars, chip, regions, tables, control, bounds
  <1>1. ChipTyped' /\ RamTyped' /\ LoopTyped' /\ CallTyped'
    BY TypeParts DEF IInv, ChipTyped, RamTyped, LoopTyped, CallTyped
  <1>2. SignaturePlace' /\ Area' /\ NoArea'
    BY DEF IInv, SignaturePlace, Area, NoArea, InArea, Working
  <1>3. Work' /\ MainThere'
    BY DEF IInv, Work, MainThere, Working, Confined
  <1>4. Off' /\ UpdateReturns'
    BY DEF IInv, Off, UpdateReturns, UpdateRunning, Working
  <1> QED
    BY <1>1, <1>2, <1>3, <1>4, TypePartsAfter DEF IInv

LEMMA StepInv == IInv /\ [Next]_vars => IInv'
  <1> SUFFICES ASSUME IInv, [Next]_vars PROVE IInv'
    OBVIOUS
  <1>1. CASE Attach
    BY <1>1, CreateNewInv, LoadExistingInv, CreateExistingInv, AttachFailsInv
       DEF Attach
  <1>2. CASE User
    BY <1>2, UserInv
  <1>3. CASE PowerCut
    BY <1>3, PowerCutInv
  <1>4. CASE Driver
    <2>1. CASE EraseOk \/ EraseFail \/ ProgramOk \/ ProgramFail \/ MarkBlock
      BY <2>1, EraseOkInv, LoopFailInv, ProgramOkInv, MarkBlockInv
    <2>2. CASE RebuildMain \/ RebuildBackup \/ Cleaned
      BY <2>2, RebuildMainInv, RebuildBackupInv, CleanedInv
    <2>3. CASE RescueFront \/ RescueBehind \/ RescueBehindCleaned
      BY <2>3, RescueFrontInv, RescueBehindInv, RescueBehindCleanedInv
    <2>4. CASE UpdateMain \/ UpdateBackup \/ UpdateOver \/ UpdateOnce
      BY <2>4, UpdateMainInv, UpdateBackupInv, UpdateOverInv, UpdateOnceInv
    <2>5. CASE OnceBackup \/ OnceMain \/ RescueTemporary \/ RescueNewMain
      BY <2>5, OnceBackupInv, OnceMainInv, RescueTemporaryInv, RescueNewMainInv
    <2>6. CASE MapForErase \/ MapFailed \/ PoolClosed
      BY <2>6, MapForEraseInv, MapFailedInv, PoolClosedInv
    <2>7. CASE SigWritten \/ CreateTables \/ RemapTail \/ Created
      BY <2>7, SigWrittenInv, CreateTablesInv, RemapTailInv, CreatedInv
    <2>8. CASE LeaveUpdate \/ LeaveLoad \/ LeaveCreate
      BY <2>8, LeaveUpdateInv, LeaveLoadInv, LeaveCreateInv
    <2>9. CASE EraseRetry \/ UserEraseOk \/ UserEraseFail \/ UserMark
      BY <2>9, EraseRetryInv, UserEraseOkInv, UserEraseFailInv, UserMarkInv
    <2>10. CASE UserProgramOk \/ UserProgramFail \/ Unmap \/ Detached
      BY <2>10, UserProgramOkInv, UserProgramFailInv, UnmapInv, DetachedInv
    <2> QED
      BY <1>4, <2>1, <2>2, <2>3, <2>4, <2>5, <2>6, <2>7, <2>8, <2>9, <2>10
         DEF Driver
  <1>5. CASE UNCHANGED vars
    BY <1>5, StutterInv
  <1> QED
    BY <1>1, <1>2, <1>3, <1>4, <1>5 DEF Next

(* The inductive invariant holds for every chip, every set of failing       *)
(* blocks and every number of calls, faults and attaches.                   *)
THEOREM Invariant == Spec => []IInv
  BY InitInv, StepInv, PTL DEF Spec

(* Types are right, and every block the loops of nmbm_write_mgmt_range,     *)
(* nmbm_write_signature and nmbm_erase_range work on is a block of the      *)
(* range they were given.                                                   *)
THEOREM TypesRight == Spec => []TypeOK
  <1>1. IInv => TypeOK
    BY DEF IInv
  <1> QED
    BY <1>1, Invariant, PTL

(* nmbm_update_info_table_once always finds a main table: its branch for a  *)
(* missing one ("goto rebuild_tables") is dead code.                        *)
THEOREM UpdateHasMainTable == Spec => []MainTableExists
  <1>1. IInv => MainTableExists
    BY DEF IInv, MainThere, MainTableExists, Working
  <1> QED
    BY <1>1, Invariant, PTL

(* A step of an attached instance never changes the signature's block:      *)
(* every write goes to a running loop's block or to the block of a call.    *)
LEMMA SignatureStep ==
  IInv /\ [Next]_vars => (signature_ba # 0 => flash'[signature_ba] = flash[signature_ba])
  <1> SUFFICES ASSUME IInv, [Next]_vars, signature_ba # 0
               PROVE  flash'[signature_ba] = flash[signature_ba]
    OBVIOUS
  <1>1. Working /\ pc # "ret" => w.ba # signature_ba
    <2>1. SUFFICES ASSUME Working, pc # "ret" PROVE w.ba # signature_ba
      OBVIOUS
    <2>2. /\ Confined(w) /\ w \in Jobs /\ w.ba \in Ahead(w) /\ w.ba \in Blocks
          /\ signature_ba \in Blocks
      BY <2>1 DEF IInv, TypeOK, Work, Working
    <2> QED
      BY <2>2, AheadRange DEF Confined, ConfinedTo, Jobs
  <1>2. op.pb # signature_ba /\ flash \in [Blocks -> Contents]
    BY DEF IInv, Area, TypeOK
  <1>3. \/ UNCHANGED flash
        \/ \E c, b : flash' = [flash EXCEPT ![b] = c] /\ b # signature_ba
    <2>1. CASE EraseOk \/ EraseFail \/ ProgramOk \/ ProgramFail
      BY <1>1, <2>1 DEF EraseOk, EraseFail, ProgramOk, ProgramFail, Working
    <2>2. CASE UserEraseOk \/ UserEraseFail \/ UserProgramOk \/ UserProgramFail
      BY <1>2, <2>2
         DEF UserEraseOk, UserEraseFail, UserProgramOk, UserProgramFail
    <2>3. CASE PowerCut
      <3>1. PICK c \in Interrupted.left : flash' = [flash EXCEPT ![Interrupted.ba] = c]
        BY <2>3 DEF PowerCut
      <3>2. CASE pc \in {"erase", "prog", "user_erase", "user_prog"}
        <4>1. Interrupted.ba # signature_ba
          BY <1>1, <1>2, <3>2 DEF Interrupted, Working
        <4> QED
          BY <3>1, <4>1
      <3>3. CASE pc \notin {"erase", "prog", "user_erase", "user_prog"}
        BY <1>2, <3>1, <3>3 DEF Interrupted
      <3> QED
        BY <3>2, <3>3
    <2>4. CASE MarkBlock \/ UserMark \/ Detached \/ User \/ Attach \/ UNCHANGED vars
      BY <2>4
         DEF MarkBlock, UserMark, Detached, User, Attach, vars, chip, Refuse,
             Read, BeginErase, BeginWrite, BeginMarkBad, Begin, Detach,
             CreateNew, LoadExisting, CreateExisting, AttachFails, StartAttach
    <2>5. CASE RebuildMain \/ RebuildBackup \/ Cleaned \/ RescueFront \/ RescueBehind
               \/ RescueBehindCleaned \/ UpdateMain \/ UpdateBackup \/ UpdateOver
               \/ UpdateOnce \/ OnceBackup \/ OnceMain \/ RescueTemporary
               \/ RescueNewMain
      BY <2>5
         DEF RamStep, chip, RebuildMain, RebuildBackup, Cleaned, RescueFront,
             RescueBehind, RescueBehindCleaned, UpdateMain, UpdateBackup,
             UpdateOver, UpdateOnce, OnceBackup, OnceMain, RescueTemporary,
             RescueNewMain
    <2>6. CASE MapForErase \/ MapFailed \/ PoolClosed \/ SigWritten \/ CreateTables
               \/ RemapTail \/ Created \/ LeaveUpdate \/ LeaveLoad \/ LeaveCreate
               \/ EraseRetry \/ Unmap
      BY <2>6
         DEF RamStep, chip, MapForErase, MapFailed, PoolClosed, SigWritten,
             CreateTables, RemapTail, Created, LeaveUpdate, LeaveLoad,
             LeaveCreate, EraseRetry, Unmap
    <2> QED
      BY <2>1, <2>2, <2>3, <2>4, <2>5, <2>6 DEF Next, Driver
  <1> QED
    BY <1>2, <1>3 DEF IInv, TypeOK

(* The signature is found again by every later attach: no remap, table      *)
(* update, clean-up, fault or power cut ever reaches its block.             *)
THEOREM SignatureIsKept == Spec => SignatureKept
  BY Invariant, SignatureStep, PTL DEF Spec, SignatureKept

---------------------------------------------------------------------------------
(* The tables stay clear of the mapped blocks.                              *)

(* What AsideInv says beyond IInv.                                          *)
Aside == TablesAside /\ MappedAside /\ RegionsInOrder /\ LoopAside

(* RegionsInOrder, where the attach has not failed.                         *)
InOrder ==
  /\ main_table_ba <= mapping_blocks_ba /\ backup_table_ba <= mapping_blocks_ba
  /\ backup_table_ba # 0 => main_table_ba <= backup_table_ba
  /\ mapping_blocks_ba <= mapping_blocks_top_ba

(* The variables Aside speaks of are numbers, before and after each step.   *)
LEMMA AsideTypes ==
  ASSUME IInv
  PROVE  /\ main_table_ba \in Nat /\ backup_table_ba \in Nat
         /\ mapping_blocks_ba \in Nat /\ mapping_blocks_top_ba \in Nat
         /\ flash \in [Blocks -> Contents] /\ block_mapping \in Mappings
         /\ w \in Jobs /\ MgmtStart \in Nat /\ 0 < MgmtStart
  BY ChipAssumption DEF IInv, TypeOK

(* A loop of the tables was entered, or has gone on.                        *)
Runs(mode, then, lo, hi) ==
  /\ w'.mode = mode /\ w'.then = then /\ w'.from = lo /\ w'.lim = hi
  /\ w'.ba \in Int /\ lo <= w'.ba
  /\ pc' \in {"erase", "ret"}

(* A loop upwards keeps its bounds and does not go back.                    *)
LEMMA SeekPlace ==
  ASSUME NEW job \in Jobs, job.mode # "sig", job.from <= job.ba,
         NEW s, NEW c, Seek(job, s, c)
  PROVE  Runs(job.mode, job.then, job.from, job.lim)
  <1>1. CASE \E b \in Ahead(job) : w' = [job EXCEPT !.ba = b] /\ pc' = "erase"
    <2>1. PICK b \in Ahead(job) : w' = [job EXCEPT !.ba = b] /\ pc' = "erase"
      BY <1>1
    <2>2. b \in Int /\ job.ba <= b
      BY DEF Ahead, Jobs
    <2>3. /\ w'.mode = job.mode /\ w'.then = job.then /\ w'.from = job.from
          /\ w'.lim = job.lim /\ w'.ba = b
      BY <2>1 DEF Jobs
    <2> QED
      BY <2>1, <2>2, <2>3 DEF Runs, Jobs
  <1>2. CASE w' = [job EXCEPT !.ok = (job.mode = "range")] /\ pc' = "ret"
    <2>1. /\ w'.mode = job.mode /\ w'.then = job.then /\ w'.from = job.from
          /\ w'.lim = job.lim /\ w'.ba = job.ba
      BY <1>2 DEF Jobs
    <2> QED
      BY <1>2, <2>1 DEF Runs, Jobs
  <1> QED
    BY <1>1, <1>2 DEF Seek

(* A job starts with the bounds it is given.                                *)
LEMMA JobRuns ==
  ASSUME NEW lo \in Nat, NEW hi \in Nat, NEW mode \in {"table", "range"},
         NEW then \in Continuations, NEW s, NEW c,
         Seek(Job(mode, lo, hi, then), s, c)
  PROVE  Runs(mode, then, lo, hi)
  <1> DEFINE job == Job(mode, lo, hi, then)
  <1>1. /\ job \in Jobs /\ job.mode = mode /\ job.then = then /\ job.from = lo
        /\ job.ba = lo /\ job.lim = hi
    BY DEF Job, Jobs
  <1>2. Seek(job, s, c)
    OBVIOUS
  <1> HIDE DEF job
  <1> QED
    BY <1>1, <1>2, SeekPlace

LEMMA TableRuns ==
  ASSUME NEW lo \in Nat, NEW hi \in Nat, NEW then \in Continuations, NEW c,
         WriteTable(lo, hi, then, c)
  PROVE  Runs("table", then, lo, hi)
  BY JobRuns DEF WriteTable

LEMMA RangeRuns ==
  ASSUME NEW lo \in Nat, NEW hi \in Nat, NEW then \in Continuations, NEW c,
         EraseRange(lo, hi, then, c)
  PROVE  Runs("range", then, lo, hi)
  BY JobRuns DEF EraseRange

LEMMA RescueRuns ==
  ASSUME NEW ba \in Nat, NEW s, NEW c, RescueSingle(ba, s, c)
  PROVE  Runs("table", "front", MgmtStart, ba)
  <1>1. MgmtStart \in Nat /\ "front" \in Continuations
    BY ChipAssumption DEF Continuations
  <1> QED
    BY <1>1, JobRuns DEF RescueSingle

(* A step that writes no table and maps no block.                           *)
LEMMA MappingKept ==
  ASSUME AsideInv, UNCHANGED <<block_mapping, mapping_blocks_top_ba>>,
         pc' = "create" => ClearTo(block_mapping, BlockCount)
  PROVE  MappedAside'
  BY DEF AsideInv, MappedAside, OneToOne, ClearTo

LEMMA TablesKept ==
  ASSUME AsideInv, UNCHANGED flash
  PROVE  TablesAside'
  BY DEF AsideInv, TablesAside, OneToOne, ClearTo

(* A block gets what is no table.                                           *)
LEMMA BlockOverwritten ==
  ASSUME AsideInv, NEW b \in Blocks, NEW c, c.kind # "table" \/ c = flash[b],
         flash' = [flash EXCEPT ![b] = c]
  PROVE  TablesAside'
  <1>1. flash \in [Blocks -> Contents]
    BY AsideTypes DEF AsideInv
  <1>2. ASSUME NEW a \in Blocks, flash'[a].kind = "table"
        PROVE  flash'[a] = flash[a]
    BY <1>1, <1>2
  <1> QED
    BY <1>2 DEF AsideInv, TablesAside, OneToOne, ClearTo

---------------------------------------------------------------------------------
(* The loop goes on.                                                        *)

(* A step of a loop that keeps its bounds and its block, or goes upwards.   *)
LEMMA LoopKept ==
  ASSUME AsideInv, UNCHANGED Frame, pc \in {"erase", "prog", "mark"},
         pc' \in {"erase", "prog", "mark", "ret"},
         w'.mode = w.mode, w'.then = w.then, w'.from = w.from, w'.lim = w.lim,
         w.mode # "sig" => w.from <= w'.ba,
         w.mode = "range" => pc' # "prog"
  PROVE  MappedAside' /\ RegionsInOrder' /\ LoopAside'
  <1>1. UNCHANGED <<regions, block_mapping, mapping_blocks_top_ba, info_table_cache>>
    BY DEF Frame, tables
  <1>2. MappedAside'
    BY <1>1, MappingKept
  <1>3. RegionsInOrder'
    BY <1>1 DEF AsideInv, RegionsInOrder, Doomed, regions
  <1>4. LoopAside'
    BY <1>1 DEF AsideInv, IInv, Work, Confined, LoopAside, Working, regions
  <1> QED
    BY <1>2, <1>3, <1>4

(* The next block of a loop, or its end.                                    *)
LEMMA NextKept ==
  ASSUME AsideInv, UNCHANGED Frame, pc \in {"erase", "mark"},
         NEW s \in States, NEW c \in BOOLEAN, Seek(NextBlock(w), s, c)
  PROVE  MappedAside' /\ RegionsInOrder' /\ LoopAside'
  <1> DEFINE job == NextBlock(w)
  <1>1. IInv /\ signature_ba' = signature_ba
    BY DEF AsideInv, Frame, tables
  <1>2. w \in Jobs /\ w.ba \in Int
    BY <1>1 DEF IInv, TypeOK, Jobs
  <1>3. CASE w.mode # "sig"
    <2>1. /\ job \in Jobs /\ job.mode = w.mode /\ job.then = w.then
          /\ job.from = w.from /\ job.lim = w.lim /\ job.ba = w.ba + 1
      BY <1>2, <1>3 DEF NextBlock, Jobs
    <2>2. w.from <= w.ba
      BY <1>3 DEF AsideInv, LoopAside, Working
    <2>3. job.from <= job.ba
      BY <1>2, <2>1, <2>2 DEF Jobs
    <2>4. Seek(job, s, c)
      OBVIOUS
    <2> HIDE DEF job
    <2>5. Runs(w.mode, w.then, w.from, w.lim)
      BY <1>3, <2>1, <2>3, <2>4, SeekPlace
    <2> QED
      BY <2>5, LoopKept DEF Runs
  <1>4. CASE w.mode = "sig"
    <2>1. /\ w'.mode = "sig" /\ pc' \in {"erase", "ret"}
      BY <1>1, <1>4, NextJob
    <2>2. UNCHANGED <<regions, block_mapping, mapping_blocks_top_ba>>
      BY DEF Frame, tables
    <2> QED
      BY <2>1, <2>2, MappingKept
         DEF AsideInv, LoopAside, RegionsInOrder, Doomed, regions
  <1> QED
    BY <1>3, <1>4

LEMMA EraseOkAside == AsideInv /\ EraseOk => Aside'
  <1> SUFFICES ASSUME AsideInv, EraseOk PROVE Aside'
    OBVIOUS
  <1>1. /\ pc = "erase" /\ UNCHANGED Frame /\ w \in Jobs /\ w.ba \in Blocks
        /\ block_state \in States /\ changed \in BOOLEAN
        /\ flash' = [flash EXCEPT ![w.ba] = Blank]
    BY DEF AsideInv, IInv, TypeOK, EraseOk, Frame, States
  <1>2. TablesAside'
    BY <1>1, BlockOverwritten DEF Blank
  <1>3. CASE Seek(NextBlock(w), block_state, changed)
    BY <1>1, <1>2, <1>3, NextKept DEF Aside
  <1>4. CASE pc' = "prog" /\ UNCHANGED w
    <2>1. w.mode # "sig" => w.from <= w.ba
      BY <1>1 DEF AsideInv, LoopAside, Working
    <2>2. w.mode # "range"
      BY <1>4 DEF EraseOk, Seek
    <2> QED
      BY <1>1, <1>2, <1>4, <2>1, <2>2, LoopKept DEF Aside
  <1> QED
    BY <1>3, <1>4 DEF EraseOk

LEMMA LoopFailAside == AsideInv /\ (EraseFail \/ ProgramFail) => Aside'
  <1> SUFFICES ASSUME AsideInv, EraseFail \/ ProgramFail PROVE Aside'
    OBVIOUS
  <1>1. /\ pc \in {"erase", "prog"} /\ UNCHANGED Frame /\ w.ba \in Blocks
        /\ pc' = "mark" /\ UNCHANGED w
        /\ flash' = flash \/ flash' = [flash EXCEPT ![w.ba] = Junk]
    BY DEF AsideInv, IInv, TypeOK, EraseFail, ProgramFail, Frame
  <1>2. TablesAside'
    BY <1>1, BlockOverwritten, TablesKept DEF Junk
  <1>3. w.mode # "sig" => w.from <= w.ba
    BY <1>1 DEF AsideInv, LoopAside, Working
  <1> QED
    BY <1>1, <1>2, <1>3, LoopKept DEF Aside

LEMMA MarkBlockAside == AsideInv /\ MarkBlock => Aside'
  <1> SUFFICES ASSUME AsideInv, MarkBlock PROVE Aside'
    OBVIOUS
  <1>1. /\ pc = "mark" /\ UNCHANGED Frame /\ UNCHANGED flash /\ w.ba \in Blocks
        /\ block_state \in States
    BY DEF AsideInv, IInv, TypeOK, MarkBlock, Frame, States
  <1>2. SetBad(block_state, w.ba) \in States
    BY <1>1 DEF SetBad, States, BlockStates
  <1>3. Seek(NextBlock(w), SetBad(block_state, w.ba), TRUE)
    BY DEF MarkBlock
  <1> QED
    BY <1>1, <1>2, <1>3, NextKept, TablesKept DEF Aside

(* What is written is the mapping in force, below every mapped block.       *)
LEMMA ProgramOkAside == AsideInv /\ ProgramOk => Aside'
  <1> SUFFICES ASSUME AsideInv, ProgramOk PROVE Aside'
    OBVIOUS
  <1>1. /\ pc = "prog" /\ UNCHANGED Frame /\ w \in Jobs /\ w.ba \in Blocks
        /\ w.ba \in Ahead(w) /\ Confined(w)
        /\ w' = [w EXCEPT !.ok = TRUE] /\ pc' = "ret"
        /\ flash \in [Blocks -> Contents] /\ mapping_blocks_top_ba \in Nat
    BY DEF AsideInv, IInv, TypeOK, ProgramOk, Frame, Work, Working
  <1>2. /\ w'.mode = w.mode /\ w'.then = w.then /\ w'.from = w.from
        /\ w'.lim = w.lim /\ w'.ba = w.ba
    BY <1>1 DEF Jobs
  <1>3. w.mode # "sig" => w.from <= w.ba
    BY <1>1 DEF AsideInv, LoopAside, Working
  <1>4. MappedAside' /\ RegionsInOrder' /\ LoopAside'
    BY <1>1, <1>2, <1>3, LoopKept
  <1>5. CASE w.mode = "sig"
    BY <1>1, <1>4, <1>5, BlockOverwritten DEF Aside, ProgramOk, Sig
  <1>6. CASE w.mode # "sig"
    <2>1. w.mode = "table"
      BY <1>1, <1>6 DEF AsideInv, LoopAside, Working
    <2>2. info_table_cache.mapping = block_mapping /\ w.lim <= mapping_blocks_top_ba
      BY <1>1, <2>1 DEF AsideInv, LoopAside, Working
    <2>3. w.ba + 1 <= mapping_blocks_top_ba
      BY <1>1, <2>1, <2>2 DEF Ahead, Jobs, Blocks
    <2>4. OneToOne(block_mapping) /\ ClearTo(block_mapping, w.ba + 1)
      BY <1>1, <2>3, ChipAssumption DEF AsideInv, MappedAside, ClearTo, Blocks
    <2>5. flash' = [flash EXCEPT ![w.ba] = info_table_cache]
      BY <1>6 DEF ProgramOk
    <2>6. ASSUME NEW b \in Blocks, flash'[b].kind = "table"
          PROVE  OneToOne(flash'[b].mapping) /\ ClearTo(flash'[b].mapping, b + 1)
      <3>1. CASE b = w.ba
        BY <1>1, <2>2, <2>4, <2>5, <3>1
      <3>2. CASE b # w.ba
        BY <1>1, <2>5, <2>6, <3>2 DEF AsideInv, TablesAside
      <3> QED
        BY <3>1, <3>2
    <2>7. TablesAside'
      BY <2>6 DEF TablesAside, OneToOne, ClearTo
    <2> QED
      BY <1>4, <2>7 DEF Aside
  <1> QED
    BY <1>5, <1>6


---------------------------------------------------------------------------------
(* The table procedures, when a loop of theirs is over.                     *)

(* What a continuation may rely on.                                         *)
LEMMA AtReturnAside ==
  ASSUME AsideInv, pc = "ret", w.then \in Continuations \ {"none", "sig"}
  PROVE  /\ main_table_ba \in Nat /\ backup_table_ba \in Nat
         /\ mapping_blocks_ba \in Nat /\ mapping_blocks_top_ba \in Nat
         /\ MgmtStart \in Nat /\ w.lim \in Nat /\ w.from \in Nat
         /\ main_table_ba <= mapping_blocks_ba /\ backup_table_ba <= mapping_blocks_ba
         /\ backup_table_ba # 0 => main_table_ba <= backup_table_ba
         /\ w.then # "update_backup" => InOrder
         /\ w.lim <= mapping_blocks_top_ba
         /\ w.then \in TableSteps =>
              /\ info_table_cache.mapping = block_mapping
              /\ w.ok => /\ w.ba \in Nat /\ w.from <= w.ba /\ w.ba < w.lim
                         /\ MgmtStart <= w.ba
  <1>1. /\ main_table_ba \in Nat /\ backup_table_ba \in Nat
        /\ mapping_blocks_ba \in Nat /\ mapping_blocks_top_ba \in Nat
        /\ MgmtStart \in Nat /\ w \in Jobs
    BY AsideTypes DEF AsideInv
  <1>2. /\ w.then \in TableSteps => w.mode = "table"
        /\ w.ok /\ w.mode = "table" => w.ba \in Nat /\ w.ba < w.lim /\ MgmtStart <= w.ba
    BY AtReturn DEF AsideInv
  <1>3. w.mode # "sig"
    BY DEF AsideInv, IInv, Work, Working, Confined
  <1>4. /\ w.from <= w.ba /\ w.lim <= mapping_blocks_top_ba
        /\ w.mode = "table" => info_table_cache.mapping = block_mapping
    BY <1>3 DEF AsideInv, LoopAside, Working
  <1>5. /\ main_table_ba <= mapping_blocks_ba /\ backup_table_ba <= mapping_blocks_ba
        /\ backup_table_ba # 0 => main_table_ba <= backup_table_ba
        /\ w.then # "update_backup" => InOrder
    BY DEF AsideInv, RegionsInOrder, Doomed, InOrder
  <1> QED
    BY <1>1, <1>2, <1>4, <1>5 DEF Jobs

(* A step of a table procedure touches neither the chip nor the mapping.    *)
LEMMA ProcedureKeeps ==
  ASSUME AsideInv, RamStep, UNCHANGED tables, pc' # "create"
  PROVE  TablesAside' /\ MappedAside'
  BY TablesKept, MappingKept DEF RamStep, chip, tables

(* A procedure that ends.                                                   *)
LEMMA LeaveAside ==
  ASSUME AsideInv, RamStep, UNCHANGED tables, NEW ok \in BOOLEAN, Leave(ok), InOrder'
  PROVE  Aside'
  <1>1. pc' = "leave"
    BY DEF Leave
  <1>2. RegionsInOrder' /\ LoopAside'
    BY <1>1 DEF RegionsInOrder, InOrder, LoopAside, Working
  <1> QED
    BY <1>1, <1>2, ProcedureKeeps DEF Aside

(* A procedure that enters its next loop.                                   *)
LEMMA EnterAside ==
  ASSUME AsideInv, RamStep, UNCHANGED tables, InOrder', NEW mode \in {"table", "range"},
         NEW then, NEW lo \in Nat, NEW hi \in Nat, Runs(mode, then, lo, hi),
         hi <= mapping_blocks_top_ba,
         mode = "table" => info_table_cache.mapping = block_mapping,
         then \in {"behind", "temporary", "rebuild_backup"} => mapping_blocks_ba' <= lo,
         then = "behind_cleaned" =>
           mapping_blocks_ba' <= hi /\ hi < mapping_blocks_top_ba,
         then \in {"once_backup", "update_backup"} => backup_table_ba' <= lo,
         then = "update_main" => hi <= backup_table_ba',
         then = "once_main" => backup_table_ba' = 0 \/ hi <= backup_table_ba',
         then = "new_main" => hi < mapping_blocks_ba',
         then = "front" => hi <= main_table_ba',
         then = "rebuild_main" => backup_table_ba' = 0
  PROVE  Aside'
  <1>1. pc' \in {"erase", "ret"}
    BY DEF Runs
  <1>2. RegionsInOrder'
    BY DEF RegionsInOrder, InOrder
  <1>3. LoopAside'
    BY <1>1 DEF LoopAside, Runs, tables
  <1> QED
    BY <1>1, <1>2, <1>3, ProcedureKeeps DEF Aside

LEMMA RebuildMainAside == AsideInv /\ RebuildMain => Aside'
  <1> SUFFICES ASSUME AsideInv, RebuildMain PROVE Aside'
    OBVIOUS
  <1> USE DEF TableSteps, RangeSteps, Continuations
  <1>1. pc = "ret" /\ w.then = "rebuild_main"
    BY DEF RebuildMain, Returned
  <1>2. /\ InOrder /\ MgmtStart \in Nat /\ main_table_ba \in Nat
        /\ mapping_blocks_ba \in Nat /\ mapping_blocks_top_ba \in Nat
        /\ w.lim \in Nat /\ w.lim <= mapping_blocks_top_ba
        /\ info_table_cache.mapping = block_mapping
        /\ w.ok => w.ba \in Nat /\ w.ba < w.lim
    BY <1>1, AtReturnAside
  <1>3. backup_table_ba = 0
    BY <1>1, AtReturn DEF AsideInv, LoopAside, Working
  <1>4. RamStep /\ UNCHANGED tables
    BY DEF RebuildMain
  <1>5. CASE ~w.ok /\ Leave(FALSE) /\ UNCHANGED regions
    <2>1. InOrder'
      BY <1>2, <1>4, <1>5 DEF InOrder, regions, tables
    <2> QED
      BY <1>4, <1>5, <2>1, LeaveAside
  <1>6. CASE w.ok
    <2>1. main_table_ba' = w.ba /\ mapping_blocks_ba' = w.ba + 1
          /\ backup_table_ba' = backup_table_ba
      BY <1>6 DEF RebuildMain
    <2>2. InOrder'
      BY <1>2, <1>3, <1>4, <1>6, <2>1 DEF InOrder, tables
    <2>3. CASE Leave(TRUE)
      BY <1>4, <2>2, <2>3, LeaveAside
    <2>4. CASE \E nba \in Reserve(w.ba + 1, mapping_blocks_top_ba - 1) :
                 WriteTable(nba, mapping_blocks_top_ba, "rebuild_backup", FALSE)
      <3>1. PICK nba \in Reserve(w.ba + 1, mapping_blocks_top_ba - 1) :
                 WriteTable(nba, mapping_blocks_top_ba, "rebuild_backup", FALSE)
        BY <2>4
      <3>2. nba \in Nat /\ w.ba + 1 <= nba
        BY <1>2, <1>6, ReserveRange DEF Blocks
      <3>3. Runs("table", "rebuild_backup", nba, mapping_blocks_top_ba)
        BY <1>2, <3>1, <3>2, TableRuns
      <3> QED
        BY <1>2, <1>4, <2>1, <2>2, <3>2, <3>3, EnterAside
    <2> QED
      BY <1>6, <2>3, <2>4 DEF RebuildMain
  <1> QED
    BY <1>5, <1>6 DEF RebuildMain

LEMMA RebuildBackupAside == AsideInv /\ RebuildBackup => Aside'
  <1> SUFFICES ASSUME AsideInv, RebuildBackup PROVE Aside'
    OBVIOUS
  <1> USE DEF TableSteps, RangeSteps, Continuations
  <1>1. pc = "ret" /\ w.then = "rebuild_backup"
    BY DEF RebuildBackup, Returned
  <1>2. /\ InOrder /\ main_table_ba \in Nat
        /\ mapping_blocks_ba \in Nat /\ mapping_blocks_top_ba \in Nat
        /\ w.from \in Nat /\ w.lim \in Nat /\ w.lim <= mapping_blocks_top_ba
        /\ w.ok => w.ba \in Nat /\ w.from <= w.ba /\ w.ba < w.lim
    BY <1>1, AtReturnAside
  <1>3. mapping_blocks_ba <= w.from
    BY <1>1, AtReturn DEF AsideInv, LoopAside, Working
  <1>4. RamStep /\ UNCHANGED tables
    BY DEF RebuildBackup
  <1>5. CASE ~w.ok /\ Leave(TRUE) /\ UNCHANGED regions
    <2>1. InOrder'
      BY <1>2, <1>4, <1>5 DEF InOrder, regions, tables
    <2> QED
      BY <1>4, <1>5, <2>1, LeaveAside
  <1>6. CASE w.ok
    <2>1. /\ backup_table_ba' = w.ba /\ mapping_blocks_ba' = w.ba + 1
          /\ main_table_ba' = main_table_ba
          /\ EraseRange(mapping_blocks_ba, w.ba, "cleaned", changed)
      BY <1>6 DEF RebuildBackup
    <2>2. InOrder'
      BY <1>2, <1>3, <1>4, <1>6, <2>1 DEF InOrder, tables
    <2>3. Runs("range", "cleaned", mapping_blocks_ba, w.ba)
      BY <1>2, <1>6, <2>1, RangeRuns
    <2> QED
      BY <1>2, <1>4, <1>6, <2>2, <2>3, EnterAside
  <1> QED
    BY <1>5, <1>6 DEF RebuildBackup

LEMMA CleanedAside == AsideInv /\ Cleaned => Aside'
  <1> SUFFICES ASSUME AsideInv, Cleaned PROVE Aside'
    OBVIOUS
  <1>1. pc = "ret" /\ w.then = "cleaned" /\ RamStep /\ UNCHANGED <<tables, regions>>
        /\ Leave(TRUE)
    BY DEF Cleaned, Returned
  <1>2. InOrder
    BY <1>1, AtReturnAside DEF Continuations
  <1>3. InOrder'
    BY <1>1, <1>2 DEF InOrder, regions, tables
  <1> QED
    BY <1>1, <1>3, LeaveAside


LEMMA RescueFrontAside == AsideInv /\ RescueFront => Aside'
  <1> SUFFICES ASSUME AsideInv, RescueFront PROVE Aside'
    OBVIOUS
  <1> USE DEF TableSteps, RangeSteps, Continuations
  <1>1. pc = "ret" /\ w.then = "front"
    BY DEF RescueFront, Returned
  <1>2. /\ InOrder /\ main_table_ba \in Nat
        /\ mapping_blocks_ba \in Nat /\ mapping_blocks_top_ba \in Nat
        /\ w.lim \in Nat /\ w.lim <= mapping_blocks_top_ba
        /\ info_table_cache.mapping = block_mapping
        /\ w.ok => w.ba \in Nat /\ w.ba < w.lim
    BY <1>1, AtReturnAside
  <1>3. w.lim <= main_table_ba
    BY <1>1, AtReturn DEF AsideInv, LoopAside, Working
  <1>4. RamStep /\ UNCHANGED <<tables, mapping_blocks_ba>>
    BY DEF RescueFront
  <1>5. CASE w.ok
    <2>1. /\ backup_table_ba' = main_table_ba /\ main_table_ba' = w.ba
          /\ EraseRange(w.ba + 1, main_table_ba, "cleaned", FALSE)
      BY <1>5 DEF RescueFront
    <2>2. InOrder'
      BY <1>2, <1>3, <1>4, <1>5, <2>1 DEF InOrder, tables
    <2>3. w.ba + 1 \in Nat /\ main_table_ba <= mapping_blocks_top_ba
      BY <1>2, <1>5 DEF InOrder
    <2>4. Runs("range", "cleaned", w.ba + 1, main_table_ba)
      BY <1>2, <2>1, <2>3, RangeRuns
    <2> QED
      BY <1>2, <1>4, <2>2, <2>3, <2>4, EnterAside
  <1>6. CASE ~w.ok
    <2>1. UNCHANGED <<main_table_ba, backup_table_ba>>
      BY <1>6 DEF RescueFront
    <2>2. InOrder'
      BY <1>2, <1>4, <2>1 DEF InOrder, tables
    <2>3. CASE Leave(FALSE)
      BY <1>4, <2>2, <2>3, LeaveAside
    <2>4. CASE \E wba \in Reserve(mapping_blocks_ba, mapping_blocks_top_ba - 1) :
                 WriteTable(wba, mapping_blocks_top_ba, "behind", changed)
      <3>1. PICK wba \in Reserve(mapping_blocks_ba, mapping_blocks_top_ba - 1) :
                 WriteTable(wba, mapping_blocks_top_ba, "behind", changed)
        BY <2>4
      <3>2. wba \in Nat /\ mapping_blocks_ba <= wba
        BY <1>2, ReserveRange DEF Blocks
      <3>3. Runs("table", "behind", wba, mapping_blocks_top_ba)
        BY <1>2, <3>1, <3>2, TableRuns
      <3> QED
        BY <1>2, <1>4, <2>1, <2>2, <3>2, <3>3, EnterAside
    <2> QED
      BY <1>6, <2>3, <2>4 DEF RescueFront
  <1> QED
    BY <1>5, <1>6

LEMMA RescueBehindAside == AsideInv /\ RescueBehind => Aside'
  <1> SUFFICES ASSUME AsideInv, RescueBehind PROVE Aside'
    OBVIOUS
  <1> USE DEF TableSteps, RangeSteps, Continuations
  <1>1. pc = "ret" /\ w.then = "behind"
    BY DEF RescueBehind, Returned
  <1>2. /\ InOrder /\ w.from \in Nat
        /\ mapping_blocks_ba \in Nat /\ mapping_blocks_top_ba \in Nat
        /\ w.lim \in Nat /\ w.lim <= mapping_blocks_top_ba
        /\ info_table_cache.mapping = block_mapping
        /\ w.ok => w.ba \in Nat /\ w.ba < w.lim /\ w.from <= w.ba
    BY <1>1, AtReturnAside
  <1>3. mapping_blocks_ba <= w.from
    BY <1>1, AtReturn DEF AsideInv, LoopAside, Working
  <1>4. RamStep /\ UNCHANGED <<tables, regions>>
    BY DEF RescueBehind
  <1>5. InOrder'
    BY <1>2, <1>4 DEF InOrder, tables, regions
  <1>6. CASE w.ok /\ EraseRange(mapping_blocks_ba, w.ba, "behind_cleaned", changed)
    <2>1. Runs("range", "behind_cleaned", mapping_blocks_ba, w.ba)
      BY <1>2, <1>6, RangeRuns
    <2> QED
      BY <1>2, <1>3, <1>4, <1>5, <1>6, <2>1, EnterAside DEF regions
  <1>7. CASE /\ w.from > mapping_blocks_ba
             /\ WriteTable(w.from - 1, mapping_blocks_top_ba, "behind", changed)
    <2>1. w.from - 1 \in Nat
      BY <1>2, <1>7
    <2>2. Runs("table", "behind", w.from - 1, mapping_blocks_top_ba)
      BY <1>2, <1>7, <2>1, TableRuns
    <2> QED
      BY <1>2, <1>4, <1>5, <1>7, <2>1, <2>2, EnterAside DEF regions
  <1>8. CASE Leave(FALSE)
    BY <1>4, <1>5, <1>8, LeaveAside
  <1> QED
    BY <1>6, <1>7, <1>8 DEF RescueBehind

LEMMA RescueBehindCleanedAside == AsideInv /\ RescueBehindCleaned => Aside'
  <1> SUFFICES ASSUME AsideInv, RescueBehindCleaned PROVE Aside'
    OBVIOUS
  <1> USE DEF TableSteps, RangeSteps, Continuations
  <1>1. pc = "ret" /\ w.then = "behind_cleaned"
    BY DEF RescueBehindCleaned, Returned
  <1>2. /\ InOrder /\ w.lim \in Nat /\ main_table_ba \in Nat
        /\ mapping_blocks_ba \in Nat /\ mapping_blocks_top_ba \in Nat
    BY <1>1, AtReturnAside
  <1>3. mapping_blocks_ba <= w.lim /\ w.lim < mapping_blocks_top_ba
    BY <1>1, AtReturn DEF AsideInv, IInv, Work, Confined, LoopAside, Working
  <1>4. /\ RamStep /\ UNCHANGED <<tables, main_table_ba>> /\ Leave(TRUE)
        /\ backup_table_ba' = w.lim /\ mapping_blocks_ba' = w.lim + 1
    BY DEF RescueBehindCleaned
  <1>5. InOrder'
    BY <1>2, <1>3, <1>4 DEF InOrder, tables
  <1> QED
    BY <1>4, <1>5, LeaveAside

LEMMA UpdateMainAside == AsideInv /\ UpdateMain => Aside'
  <1> SUFFICES ASSUME AsideInv, UpdateMain PROVE Aside'
    OBVIOUS
  <1> USE DEF TableSteps, RangeSteps, Continuations
  <1>1. pc = "ret" /\ w.then = "update_main"
    BY DEF UpdateMain, Returned
  <1>2. /\ InOrder /\ w.lim \in Nat /\ backup_table_ba \in Nat /\ MgmtStart \in Nat
        /\ mapping_blocks_ba \in Nat /\ mapping_blocks_top_ba \in Nat
        /\ info_table_cache.mapping = block_mapping
        /\ w.ok => w.ba \in Nat /\ w.ba < w.lim
    BY <1>1, AtReturnAside
  <1>3. w.lim <= backup_table_ba
    BY <1>1, AtReturn DEF AsideInv, LoopAside, Working
  <1>4. RamStep /\ UNCHANGED <<tables, mapping_blocks_ba>>
    BY DEF UpdateMain
  <1>5. CASE w.ok
    <2>1. main_table_ba' = w.ba /\ backup_table_ba' = backup_table_ba /\ Leave(TRUE)
      BY <1>5 DEF UpdateMain
    <2>2. InOrder'
      BY <1>2, <1>3, <1>4, <1>5, <2>1 DEF InOrder, tables
    <2> QED
      BY <1>4, <2>1, <2>2, LeaveAside
  <1>6. CASE ~w.ok
    <2>1. /\ main_table_ba' = backup_table_ba /\ backup_table_ba' = 0
          /\ RescueSingle(backup_table_ba, block_state, changed)
      BY <1>6 DEF UpdateMain
    <2>2. InOrder'
      BY <1>2, <1>4, <2>1 DEF InOrder, tables
    <2>3. Runs("table", "front", MgmtStart, backup_table_ba)
      BY <1>2, <2>1, RescueRuns
    <2>4. backup_table_ba <= mapping_blocks_top_ba
      BY <1>2 DEF InOrder
    <2> QED
      BY <1>2, <1>4, <2>1, <2>2, <2>3, <2>4, EnterAside
  <1> QED
    BY <1>5, <1>6

(* The one place where the pool may begin above its top: the attach fails.  *)
LEMMA UpdateBackupAside == AsideInv /\ UpdateBackup => Aside'
  <1> SUFFICES ASSUME AsideInv, UpdateBackup PROVE Aside'
    OBVIOUS
  <1> USE DEF TableSteps, RangeSteps, Continuations
  <1>1. pc = "ret" /\ w.then = "update_backup"
    BY DEF UpdateBackup, Returned
  <1>2. /\ main_table_ba \in Nat /\ backup_table_ba \in Nat /\ w.from \in Nat
        /\ mapping_blocks_ba \in Nat /\ mapping_blocks_top_ba \in Nat /\ w \in Jobs
        /\ w.lim \in Nat /\ w.lim <= mapping_blocks_top_ba
        /\ main_table_ba <= mapping_blocks_ba /\ backup_table_ba <= mapping_blocks_ba
        /\ backup_table_ba # 0 => main_table_ba <= backup_table_ba
        /\ w.ok => w.ba \in Nat /\ w.ba < w.lim /\ w.from <= w.ba
    BY <1>1, AtReturnAside, AtReturn DEF AsideInv
  <1>3. backup_table_ba <= w.from /\ backup_table_ba # 0
    BY <1>1, AtReturn DEF AsideInv, IInv, Work, LoopAside, Working
  <1>4. RamStep /\ UNCHANGED <<tables, main_table_ba, caller>>
    BY DEF UpdateBackup, control
  <1>5. CASE w.ok
    <2>1. backup_table_ba' = w.ba /\ mapping_blocks_ba' = w.ba + 1 /\ Leave(TRUE)
      BY <1>5 DEF UpdateBackup
    <2>2. InOrder'
      BY <1>2, <1>3, <1>4, <1>5, <2>1 DEF InOrder, tables
    <2> QED
      BY <1>4, <2>1, <2>2, LeaveAside
  <1>6. CASE ~w.ok
    <2>1. backup_table_ba' = 0 /\ mapping_blocks_ba' = backup_table_ba /\ Leave(FALSE)
      BY <1>6 DEF UpdateBackup
    <2>2. pc' = "leave" /\ w'.ok = FALSE
      BY <1>2, <2>1 DEF Leave, Jobs
    <2>3. mapping_blocks_ba <= mapping_blocks_top_ba \/ caller = "load"
      BY <1>1 DEF AsideInv, RegionsInOrder, Doomed
    <2>4. RegionsInOrder'
      BY <1>2, <1>3, <1>4, <2>1, <2>2, <2>3 DEF RegionsInOrder, Doomed, tables
    <2>5. LoopAside'
      BY <2>2 DEF LoopAside, Working
    <2> QED
      BY <1>4, <2>2, <2>4, <2>5, ProcedureKeeps DEF Aside
  <1> QED
    BY <1>5, <1>6


LEMMA OnceBackupAside == AsideInv /\ OnceBackup => Aside'
  <1> SUFFICES ASSUME AsideInv, OnceBackup PROVE Aside'
    OBVIOUS
  <1> USE DEF TableSteps, RangeSteps, Continuations
  <1>1. pc = "ret" /\ w.then = "once_backup"
    BY DEF OnceBackup, Returned
  <1>2. /\ InOrder /\ main_table_ba \in Nat /\ backup_table_ba \in Nat
        /\ mapping_blocks_ba \in Nat /\ mapping_blocks_top_ba \in Nat /\ w.from \in Nat
        /\ w.lim \in Nat /\ w.lim <= mapping_blocks_top_ba
        /\ info_table_cache.mapping = block_mapping
        /\ w.ok => w.ba \in Nat /\ w.ba < w.lim /\ w.from <= w.ba
    BY <1>1, AtReturnAside
  <1>3. backup_table_ba <= w.from /\ backup_table_ba # 0
    BY <1>1, AtReturn DEF AsideInv, IInv, Work, LoopAside, Working
  <1>4. RamStep /\ UNCHANGED tables
    BY DEF OnceBackup
  <1>5. CASE w.ok /\ WriteMain(w.ba, w.ba, w.ba + 1, FALSE)
    <2>1. /\ main_table_ba' = main_table_ba /\ backup_table_ba' = w.ba
          /\ mapping_blocks_ba' = w.ba + 1
          /\ WriteTable(main_table_ba, w.ba, "once_main", FALSE)
      BY <1>5 DEF WriteMain
    <2>2. InOrder'
      BY <1>2, <1>3, <1>4, <1>5, <2>1 DEF InOrder, tables
    <2>3. Runs("table", "once_main", main_table_ba, w.ba)
      BY <1>2, <1>5, <2>1, TableRuns
    <2> QED
      BY <1>2, <1>4, <1>5, <2>1, <2>2, <2>3, EnterAside
  <1>6. CASE WriteMain(mapping_blocks_top_ba, 0, backup_table_ba, changed)
    <2>1. /\ main_table_ba' = main_table_ba /\ backup_table_ba' = 0
          /\ mapping_blocks_ba' = backup_table_ba
          /\ WriteTable(main_table_ba, mapping_blocks_top_ba, "once_main", changed)
      BY <1>6 DEF WriteMain
    <2>2. InOrder'
      BY <1>2, <1>3, <1>4, <2>1 DEF InOrder, tables
    <2>3. Runs("table", "once_main", main_table_ba, mapping_blocks_top_ba)
      BY <1>2, <2>1, TableRuns
    <2> QED
      BY <1>2, <1>4, <2>1, <2>2, <2>3, EnterAside
  <1> QED
    BY <1>5, <1>6 DEF OnceBackup

(* The backup table becomes the only one.                                   *)
LEMMA TakeOverAside ==
  ASSUME AsideInv, InOrder, RamStep, UNCHANGED tables, BackupTakesOver
  PROVE  Aside'
  <1>1. InOrder'
    BY AsideTypes DEF AsideInv, BackupTakesOver, InOrder, tables
  <1> QED
    BY <1>1, LeaveAside DEF BackupTakesOver

LEMMA RescueTemporaryAside == AsideInv /\ RescueTemporary => Aside'
  <1> SUFFICES ASSUME AsideInv, RescueTemporary PROVE Aside'
    OBVIOUS
  <1> USE DEF TableSteps, RangeSteps, Continuations
  <1>1. pc = "ret" /\ w.then = "temporary"
    BY DEF RescueTemporary, Returned
  <1>2. /\ InOrder /\ main_table_ba \in Nat /\ backup_table_ba \in Nat
        /\ mapping_blocks_ba \in Nat /\ mapping_blocks_top_ba \in Nat /\ w.from \in Nat
        /\ w.lim \in Nat /\ w.lim <= mapping_blocks_top_ba /\ MgmtStart \in Nat
        /\ info_table_cache.mapping = block_mapping
        /\ w.ok => w.ba \in Nat /\ w.ba < w.lim /\ w.from <= w.ba
    BY <1>1, AtReturnAside
  <1>3. mapping_blocks_ba <= w.from
    BY <1>1, AtReturn DEF AsideInv, LoopAside, Working
  <1>4. RamStep /\ UNCHANGED tables
    BY DEF RescueTemporary
  <1>5. CASE w.ok
    <2>1. /\ mapping_blocks_ba' = w.ba + 1
          /\ UNCHANGED <<main_table_ba, backup_table_ba>>
          /\ WriteTable(MgmtStart, w.ba, "new_main", changed)
      BY <1>5 DEF RescueTemporary
    <2>2. InOrder'
      BY <1>2, <1>3, <1>4, <1>5, <2>1 DEF InOrder, tables
    <2>3. Runs("table", "new_main", MgmtStart, w.ba)
      BY <1>2, <1>5, <2>1, TableRuns
    <2> QED
      BY <1>2, <1>4, <1>5, <2>1, <2>2, <2>3, EnterAside
  <1>6. CASE /\ w.from > mapping_blocks_ba
             /\ WriteTable(w.from - 1, mapping_blocks_top_ba, "temporary", changed)
             /\ UNCHANGED regions
    <2>1. InOrder' /\ mapping_blocks_ba' = mapping_blocks_ba
      BY <1>2, <1>4, <1>6 DEF InOrder, tables, regions
    <2>2. w.from - 1 \in Nat /\ mapping_blocks_ba <= w.from - 1
      BY <1>2, <1>6
    <2>3. Runs("table", "temporary", w.from - 1, mapping_blocks_top_ba)
      BY <1>2, <1>6, <2>2, TableRuns
    <2> QED
      BY <1>2, <1>4, <2>1, <2>2, <2>3, EnterAside
  <1>7. CASE BackupTakesOver
    BY <1>2, <1>4, <1>7, TakeOverAside
  <1> QED
    BY <1>5, <1>6, <1>7 DEF RescueTemporary

LEMMA RescueNewMainAside == AsideInv /\ RescueNewMain => Aside'
  <1> SUFFICES ASSUME AsideInv, RescueNewMain PROVE Aside'
    OBVIOUS
  <1> USE DEF TableSteps, RangeSteps, Continuations
  <1>1. pc = "ret" /\ w.then = "new_main"
    BY DEF RescueNewMain, Returned
  <1>2. /\ InOrder /\ w.lim \in Nat
        /\ mapping_blocks_ba \in Nat /\ mapping_blocks_top_ba \in Nat
        /\ w.ok => w.ba \in Nat /\ w.ba < w.lim
    BY <1>1, AtReturnAside
  <1>3. w.lim < mapping_blocks_ba
    BY <1>1, AtReturn DEF AsideInv, IInv, Work, Confined, LoopAside, Working
  <1>4. /\ RamStep /\ UNCHANGED <<tables, mapping_blocks_ba>> /\ Leave(TRUE)
        /\ main_table_ba' = IF w.ok THEN w.ba ELSE w.lim
        /\ backup_table_ba' = IF w.ok THEN w.lim ELSE 0
    BY DEF RescueNewMain
  <1>5. InOrder'
    BY <1>2, <1>3, <1>4 DEF InOrder, tables
  <1> QED
    BY <1>4, <1>5, LeaveAside

LEMMA OnceMainAside == AsideInv /\ OnceMain => Aside'
  <1> SUFFICES ASSUME AsideInv, OnceMain PROVE Aside'
    OBVIOUS
  <1> USE DEF TableSteps, RangeSteps, Continuations
  <1>1. pc = "ret" /\ w.then = "once_main"
    BY DEF OnceMain, Returned
  <1>2. /\ InOrder /\ main_table_ba \in Nat /\ backup_table_ba \in Nat
        /\ mapping_blocks_ba \in Nat /\ mapping_blocks_top_ba \in Nat
        /\ w.lim \in Nat /\ w.lim <= mapping_blocks_top_ba /\ MgmtStart \in Nat
        /\ info_table_cache.mapping = block_mapping
        /\ w.ok => w.ba \in Nat /\ w.ba < w.lim
    BY <1>1, AtReturnAside
  <1>3. backup_table_ba = 0 \/ w.lim <= backup_table_ba
    BY <1>1, AtReturn DEF AsideInv, LoopAside, Working
  <1>4. RamStep /\ UNCHANGED tables
    BY DEF OnceMain
  <1>5. CASE w.ok
    <2>1. /\ main_table_ba' = w.ba /\ backup_table_ba' = backup_table_ba /\ Leave(TRUE)
          /\ mapping_blocks_ba' = IF backup_table_ba = 0 THEN w.ba + 1
                                                         ELSE mapping_blocks_ba
      BY <1>5 DEF OnceMain
    <2>2. InOrder'
      BY <1>2, <1>3, <1>4, <1>5, <2>1 DEF InOrder, tables
    <2> QED
      BY <1>4, <2>1, <2>2, LeaveAside
  <1>6. CASE Rebuild(changed)
    <2>1. /\ main_table_ba' = 0 /\ backup_table_ba' = 0
          /\ mapping_blocks_ba' = mapping_blocks_top_ba
          /\ WriteTable(MgmtStart, mapping_blocks_top_ba, "rebuild_main", changed)
      BY <1>6 DEF Rebuild
    <2>2. InOrder'
      BY <1>2, <1>4, <2>1 DEF InOrder, tables
    <2>3. Runs("table", "rebuild_main", MgmtStart, mapping_blocks_top_ba)
      BY <1>2, <2>1, TableRuns
    <2> QED
      BY <1>2, <1>4, <2>1, <2>2, <2>3, EnterAside
  <1>7. CASE RescueMain
    <2>1. CASE BackupTakesOver
      BY <1>2, <1>4, <2>1, TakeOverAside
    <2>2. CASE \E wba \in Reserve(mapping_blocks_ba, mapping_blocks_top_ba - 1) :
                 /\ WriteTable(wba, mapping_blocks_top_ba, "temporary", changed)
                 /\ UNCHANGED regions
      <3>1. PICK wba \in Reserve(mapping_blocks_ba, mapping_blocks_top_ba - 1) :
                 /\ WriteTable(wba, mapping_blocks_top_ba, "temporary", changed)
                 /\ UNCHANGED regions
        BY <2>2
      <3>2. wba \in Nat /\ mapping_blocks_ba <= wba
        BY <1>2, ReserveRange DEF Blocks
      <3>3. InOrder' /\ mapping_blocks_ba' = mapping_blocks_ba
        BY <1>2, <1>4, <3>1 DEF InOrder, tables, regions
      <3>4. Runs("table", "temporary", wba, mapping_blocks_top_ba)
        BY <1>2, <3>1, <3>2, TableRuns
      <3> QED
        BY <1>2, <1>4, <3>2, <3>3, <3>4, EnterAside
    <2> QED
      BY <1>7, <2>1, <2>2 DEF RescueMain
  <1> QED
    BY <1>5, <1>6, <1>7 DEF OnceMain

(* A new round of the tables: the cache takes the mapping in force.         *)
LEMMA UpdateOnceAside == AsideInv /\ UpdateOnce => Aside'
  <1> SUFFICES ASSUME AsideInv, UpdateOnce PROVE Aside'
    OBVIOUS
  <1> USE DEF Continuations
  <1>1. /\ pc = "update" /\ ~protected /\ RamStep
        /\ UNCHANGED <<block_mapping, mapping_blocks_top_ba>>
        /\ info_table_cache' = InfoTable(block_state, block_mapping, write_count + 1)
    BY DEF UpdateOnce
  <1>2. /\ main_table_ba \in Nat /\ backup_table_ba \in Nat
        /\ mapping_blocks_ba \in Nat /\ mapping_blocks_top_ba \in Nat
    BY AsideTypes DEF AsideInv
  <1>3. InOrder
    BY <1>1 DEF AsideInv, RegionsInOrder, Doomed, InOrder
  <1>4. info_table_cache'.mapping = block_mapping'
    BY <1>1 DEF InfoTable
  <1>5. CASE /\ backup_table_ba # 0
             /\ WriteTable(backup_table_ba, mapping_blocks_top_ba, "once_backup", changed)
             /\ UNCHANGED regions
    <2>1. Runs("table", "once_backup", backup_table_ba, mapping_blocks_top_ba)
      BY <1>2, <1>5, TableRuns
    <2>2. RegionsInOrder' /\ LoopAside'
      BY <1>1, <1>2, <1>3, <1>4, <1>5, <2>1
         DEF RegionsInOrder, InOrder, LoopAside, Runs, regions
    <2>3. pc' # "create"
      BY <2>1 DEF Runs
    <2> QED
      BY <1>1, <2>2, <2>3, TablesKept, MappingKept DEF Aside, RamStep, chip
  <1>6. CASE /\ backup_table_ba = 0
             /\ WriteMain(mapping_blocks_top_ba, 0, mapping_blocks_ba, changed)
    <2>1. /\ main_table_ba' = main_table_ba /\ backup_table_ba' = 0
          /\ mapping_blocks_ba' = mapping_blocks_ba
          /\ WriteTable(main_table_ba, mapping_blocks_top_ba, "once_main", changed)
      BY <1>6 DEF WriteMain
    <2>2. Runs("table", "once_main", main_table_ba, mapping_blocks_top_ba)
      BY <1>2, <2>1, TableRuns
    <2>3. RegionsInOrder' /\ LoopAside'
      BY <1>1, <1>2, <1>3, <1>4, <2>1, <2>2 DEF RegionsInOrder, InOrder, LoopAside, Runs
    <2>4. pc' # "create"
      BY <2>2 DEF Runs
    <2> QED
      BY <1>1, <2>3, <2>4, TablesKept, MappingKept DEF Aside, RamStep, chip
  <1> QED
    BY <1>5, <1>6 DEF UpdateOnce


---------------------------------------------------------------------------------
(* Steps in which no loop runs.                                             *)

(* Neither the mapping nor the place of a table changes.                    *)
LEMMA CalmRest ==
  ASSUME AsideInv, UNCHANGED <<block_mapping, mapping_blocks_top_ba, regions>>,
         pc' \notin {"erase", "prog", "mark", "ret"},
         pc' = "create" => ClearTo(block_mapping, BlockCount),
         Doomed => Doomed'
  PROVE  MappedAside' /\ RegionsInOrder' /\ LoopAside'
  <1>1. RegionsInOrder'
    BY DEF AsideInv, RegionsInOrder, regions
  <1>2. LoopAside'
    BY DEF LoopAside, Working
  <1> QED
    BY <1>1, <1>2, MappingKept

(* Nor does anything on the chip.                                           *)
LEMMA CalmAside ==
  ASSUME AsideInv, UNCHANGED <<flash, block_mapping, mapping_blocks_top_ba, regions>>,
         pc' \notin {"erase", "prog", "mark", "ret"},
         pc' = "create" => ClearTo(block_mapping, BlockCount),
         Doomed => Doomed'
  PROVE  Aside'
  BY CalmRest, TablesKept DEF Aside

(* An attach that failed halfway stays out of use.                          *)
LEMMA LeaveLoadAside == AsideInv /\ LeaveLoad => Aside'
  <1> SUFFICES ASSUME AsideInv, LeaveLoad PROVE Aside'
    OBVIOUS
  <1>1. /\ UNCHANGED <<flash, block_mapping, mapping_blocks_top_ba, regions>>
        /\ pc' = "idle"
    BY DEF LeaveLoad, RamStep, chip, tables, Ready
  <1>2. Doomed => Doomed'
    <2>1. Doomed => protected' = TRUE
      BY DEF LeaveLoad, Doomed
    <2> QED
      BY <1>1, <2>1 DEF Doomed
  <1> QED
    BY <1>1, <1>2, CalmAside

LEMMA UpdateOverAside == AsideInv /\ UpdateOver => Aside'
  <1> SUFFICES ASSUME AsideInv, UpdateOver PROVE Aside'
    OBVIOUS
  <1>1. /\ pc = "update" /\ Return(TRUE) /\ UNCHANGED protected
        /\ UNCHANGED <<flash, block_mapping, mapping_blocks_top_ba, regions>>
    BY DEF UpdateOver, RamStep, chip, tables
  <1>2. ret \in Returns
    BY DEF AsideInv, IInv, TypeOK
  <1>3. pc' \notin {"erase", "prog", "mark", "ret", "create"}
    BY <1>1, <1>2 DEF Return, Returns
  <1>4. Doomed => Doomed'
    BY <1>1 DEF Doomed, Return
  <1> QED
    BY <1>1, <1>3, <1>4, CalmAside

LEMMA LeaveUpdateAside == AsideInv /\ (LeaveUpdate \/ LeaveCreate) => Aside'
  <1> SUFFICES ASSUME AsideInv, LeaveUpdate \/ LeaveCreate PROVE Aside'
    OBVIOUS
  <1>1. /\ pc = "leave" /\ caller # "load"
        /\ UNCHANGED <<flash, block_mapping, mapping_blocks_top_ba, regions>>
    BY DEF LeaveUpdate, LeaveCreate, RamStep, chip, tables
  <1>2. ret \in Returns
    BY DEF AsideInv, IInv, TypeOK
  <1>3. pc' \notin {"erase", "prog", "mark", "ret", "create"}
    BY <1>2 DEF LeaveUpdate, LeaveCreate, Return, Returns
  <1>4. ~Doomed
    BY <1>1 DEF Doomed
  <1> QED
    BY <1>1, <1>3, <1>4, CalmAside

LEMMA RamAside == AsideInv /\ (Created \/ EraseRetry \/ UserMark \/ AttachFails) => Aside'
  <1> SUFFICES ASSUME AsideInv, Created \/ EraseRetry \/ UserMark \/ AttachFails PROVE Aside'
    OBVIOUS
  <1>1. pc \in {"created", "retry", "user_mark", "off"}
    BY DEF Created, EraseRetry, UserMark, AttachFails, StartAttach
  <1>2. UNCHANGED <<flash, block_mapping, mapping_blocks_top_ba, regions>>
    BY DEF Created, EraseRetry, UserMark, AttachFails, StartAttach, RamStep, chip, tables
  <1>3. pc' \in {"idle", "failed", "map", "user_erase", "update"}
    BY DEF Created, Ready, EraseRetry, UserMark, Update, AttachFails
  <1>4. ~Doomed
    BY <1>1 DEF Doomed
  <1> QED
    BY <1>2, <1>3, <1>4, CalmAside

(* The mapping that was built for the new signature is in the data area.    *)
LEMMA SigWrittenAside == AsideInv /\ SigWritten => Aside'
  <1> SUFFICES ASSUME AsideInv, SigWritten PROVE Aside'
    OBVIOUS
  <1>1. /\ pc = "ret" /\ w.then = "sig" /\ pc' \in {"create", "failed"}
        /\ UNCHANGED <<flash, block_mapping, mapping_blocks_top_ba, regions>>
    BY DEF SigWritten, Returned, RamStep, chip
  <1>2. signature_ba = 0
    BY <1>1 DEF AsideInv, IInv, Work, Working, Confined, TableSteps, RangeSteps
  <1>3. ClearTo(block_mapping, BlockCount)
    <2>1. \A lb \in LogicBlocks : block_mapping[lb] < MgmtStart
      BY <1>2 DEF AsideInv, IInv, NoArea
    <2>2. block_mapping \in Mappings /\ MgmtStart \in Nat
      BY AsideTypes DEF AsideInv
    <2> QED
      BY <2>1, <2>2, ChipAssumption DEF ClearTo, Mappings, Blocks, Unmapped
  <1>4. ~Doomed
    BY <1>1 DEF Doomed
  <1> QED
    BY <1>1, <1>3, <1>4, CalmAside

(* The user's calls: a protected device refuses all but the detach.         *)
LEMMA UserAside == AsideInv /\ User => Aside'
  <1> SUFFICES ASSUME AsideInv, User PROVE Aside'
    OBVIOUS
  <1>1. ASSUME NEW kind, NEW lb, Refuse(kind, lb) PROVE Aside'
    <2>1. /\ pc = "idle" /\ UNCHANGED <<pc, protected>>
          /\ UNCHANGED <<flash, block_mapping, mapping_blocks_top_ba, regions>>
      BY <1>1 DEF Refuse, CanCall, chip, tables
    <2>2. Doomed => Doomed'
      BY <2>1 DEF Doomed
    <2> QED
      BY <2>1, <2>2, CalmAside
  <1>2. ASSUME NEW lb, Read(lb) PROVE Aside'
    <2>1. /\ pc = "idle" /\ UNCHANGED <<pc, protected>>
          /\ UNCHANGED <<flash, block_mapping, mapping_blocks_top_ba, regions>>
      BY <1>2 DEF Read, CanCall, chip, tables
    <2>2. Doomed => Doomed'
      BY <2>1 DEF Doomed
    <2> QED
      BY <2>1, <2>2, CalmAside
  <1>3. ASSUME NEW kind, NEW lb, NEW val,
               NEW first \in {"retry", "user_prog", "unmap"}, Begin(kind, lb, val, first)
        PROVE  Aside'
    <2>1. /\ pc = "idle" /\ pc' = first /\ Refusal(kind, lb) = "none"
          /\ UNCHANGED <<flash, block_mapping, mapping_blocks_top_ba, regions>>
      BY <1>3 DEF Begin, CanCall, chip, tables
    <2>2. ~protected
      BY <2>1 DEF Refusal
    <2>3. ~Doomed
      BY <2>1, <2>2 DEF Doomed
    <2> QED
      BY <2>1, <2>3, CalmAside
  <1>4. CASE Detach
    <2>1. /\ pc = "idle" /\ pc' = "update" /\ ret' = "detached" /\ UNCHANGED protected
          /\ UNCHANGED <<flash, block_mapping, mapping_blocks_top_ba, regions>>
      BY <1>4 DEF Detach, CanCall, Update, chip, tables
    <2>2. Doomed => Doomed'
      BY <2>1 DEF Doomed
    <2> QED
      BY <2>1, <2>2, CalmAside
  <1> QED
    BY <1>1, <1>2, <1>3, <1>4 DEF User, BeginErase, BeginWrite, BeginMarkBad

(* What a user leaves in a block is no table.                               *)
LEMMA UserFlashAside ==
  AsideInv /\ (UserEraseOk \/ UserEraseFail \/ UserProgramOk \/ UserProgramFail) => Aside'
  <1> SUFFICES ASSUME AsideInv,
                      UserEraseOk \/ UserEraseFail \/ UserProgramOk \/ UserProgramFail
               PROVE  Aside'
    OBVIOUS
  <1>1. pc \in {"user_erase", "user_prog"} /\ op.pb \in Blocks /\ op.val.kind # "table"
    BY DEF AsideInv, IInv, TypeOK, UserEraseOk, UserEraseFail, UserProgramOk,
           UserProgramFail, Blank, Junk, Data
  <1>2. UNCHANGED <<block_mapping, mapping_blocks_top_ba, regions>>
    BY DEF UserEraseOk, UserEraseFail, UserProgramOk, UserProgramFail, tables
  <1>3. pc' \in {"idle", "user_mark", "update"}
    BY DEF UserEraseOk, UserEraseFail, UserProgramOk, UserProgramFail, Finish, Update
  <1>4. ~Doomed
    BY <1>1 DEF Doomed
  <1>5. MappedAside' /\ RegionsInOrder' /\ LoopAside'
    BY <1>2, <1>3, <1>4, CalmRest
  <1>6. TablesAside'
    <2>1. CASE UNCHANGED flash
      BY <2>1, TablesKept
    <2>2. CASE flash' = [flash EXCEPT ![op.pb] = Blank]
      BY <1>1, <2>2, BlockOverwritten DEF Blank
    <2>3. CASE flash' = [flash EXCEPT ![op.pb] = Junk]
      BY <1>1, <2>3, BlockOverwritten DEF Junk
    <2>4. CASE flash' = [flash EXCEPT ![op.pb] = op.val]
      BY <1>1, <2>4, BlockOverwritten
    <2> QED
      BY <2>1, <2>2, <2>3, <2>4
         DEF UserEraseOk, UserEraseFail, UserProgramOk, UserProgramFail
  <1> QED
    BY <1>5, <1>6 DEF Aside


---------------------------------------------------------------------------------
(* nmbm_map_block, and the mapping that is taken away.                      *)

(* A remap takes the block at the top of the pool, which nobody is mapped   *)
(* to, and leaves it above the pool.                                        *)
LEMMA MapAside ==
  ASSUME AsideInv, RemapTakesTop, pc \in {"map", "remap"}, ~PoolEmpty,
         NEW lb \in LogicBlocks, NEW pb \in Candidates, Map(lb, pb), UNCHANGED regions
  PROVE  /\ OneToOne(block_mapping') /\ ClearTo(block_mapping', mapping_blocks_top_ba')
         /\ InOrder'
  <1>1. /\ main_table_ba \in Nat /\ backup_table_ba \in Nat
        /\ mapping_blocks_ba \in Nat /\ mapping_blocks_top_ba \in Nat
        /\ block_mapping \in Mappings /\ MgmtStart \in Nat
    BY AsideTypes DEF AsideInv
  <1>2. InOrder
    BY DEF AsideInv, RegionsInOrder, Doomed, InOrder
  <1>3. pb = mapping_blocks_top_ba /\ mapping_blocks_ba < pb
    <2>1. mapping_blocks_ba < pb
      BY <1>1, WalkDescRange DEF Candidates
    <2> QED
      BY <2>1 DEF RemapTakesTop
  <1>4. MgmtStart <= mapping_blocks_top_ba
    <2>1. InOperation
      BY DEF InOperation
    <2> QED
      BY <2>1, InOperationFacts DEF AsideInv, InArea
  <1>5. /\ block_mapping' = [block_mapping EXCEPT ![lb] = pb]
        /\ mapping_blocks_top_ba' = mapping_blocks_top_ba - 1
    BY DEF Map
  <1>6. \A x \in LogicBlocks :
          block_mapping'[x] = IF x = lb THEN mapping_blocks_top_ba ELSE block_mapping[x]
    BY <1>1, <1>3, <1>5 DEF Mappings
  <1>7. OneToOne(block_mapping) /\ ClearTo(block_mapping, mapping_blocks_top_ba)
    BY DEF AsideInv, MappedAside
  <1>8. OneToOne(block_mapping')
    BY <1>1, <1>4, <1>6, <1>7 DEF OneToOne, ClearTo
  <1>9. ClearTo(block_mapping', mapping_blocks_top_ba')
    <2>1. \A x \in LogicBlocks : block_mapping[x] \in Int
      BY <1>1, ChipAssumption DEF Mappings, Blocks, Unmapped
    <2> QED
      BY <1>1, <1>5, <1>6, <1>7, <2>1 DEF ClearTo
  <1>10. InOrder'
    BY <1>1, <1>2, <1>3, <1>5 DEF InOrder, regions
  <1> QED
    BY <1>8, <1>9, <1>10

(* A call that only goes on with the mapping as it is.                      *)
LEMMA PoolUsedUpAside ==
  ASSUME AsideInv, pc \in {"map", "remap"}, pc' \in {"map_failed", "update", "remap"},
         RamStep, UNCHANGED <<block_mapping, mapping_blocks_top_ba, regions>>
  PROVE  Aside'
  <1>1. ~Doomed
    BY DEF Doomed
  <1> QED
    BY <1>1, CalmAside DEF RamStep, chip

LEMMA MapForEraseAside == AsideInv /\ RemapTakesTop /\ MapForErase => Aside'
  <1> SUFFICES ASSUME AsideInv, RemapTakesTop, MapForErase PROVE Aside'
    OBVIOUS
  <1>1. pc = "map" /\ RamStep /\ UNCHANGED regions /\ op.lb \in LogicBlocks
    BY DEF MapForErase, AsideInv, IInv, TypeOK
  <1>2. CASE \/ pc' = "map_failed" /\ UNCHANGED tables
             \/ PoolUsedUp
    BY <1>1, <1>2, PoolUsedUpAside DEF PoolUsedUp, Update, tables
  <1>3. CASE ~PoolEmpty /\ (\E pb \in Candidates : Map(op.lb, pb)) /\ Update("retry")
    <2>1. /\ OneToOne(block_mapping') /\ ClearTo(block_mapping', mapping_blocks_top_ba')
          /\ InOrder'
      BY <1>1, <1>3, MapAside
    <2>2. pc' = "update"
      BY <1>3 DEF Update
    <2>3. MappedAside'
      BY <2>1, <2>2 DEF MappedAside, OneToOne, ClearTo
    <2>4. RegionsInOrder' /\ LoopAside'
      BY <2>1, <2>2 DEF RegionsInOrder, InOrder, LoopAside, Working
    <2> QED
      BY <1>1, <2>3, <2>4, TablesKept DEF Aside, RamStep, chip
  <1> QED
    BY <1>2, <1>3 DEF MapForErase

LEMMA RemapTailAside == AsideInv /\ RemapTakesTop /\ RemapTail => Aside'
  <1> SUFFICES ASSUME AsideInv, RemapTakesTop, RemapTail PROVE Aside'
    OBVIOUS
  <1>1. pc = "remap" /\ RamStep /\ UNCHANGED regions
    BY DEF RemapTail
  <1>2. CASE PoolUsedUp \/ (Update("created") /\ UNCHANGED tables)
    BY <1>1, <1>2, PoolUsedUpAside DEF PoolUsedUp, Update, tables
  <1>3. CASE /\ data_block_count < MgmtStart /\ ~PoolEmpty /\ UNCHANGED pc
             /\ \E pb \in Candidates : Map(data_block_count, pb)
    <2>1. data_block_count \in LogicBlocks
      BY <1>3, ChipAssumption DEF AsideInv, IInv, TypeOK, LogicBlocks
    <2>2. /\ OneToOne(block_mapping') /\ ClearTo(block_mapping', mapping_blocks_top_ba')
          /\ InOrder'
      BY <1>1, <1>3, <2>1, MapAside
    <2>3. pc' = "remap"
      BY <1>1, <1>3
    <2>4. MappedAside'
      BY <2>2, <2>3 DEF MappedAside, OneToOne, ClearTo
    <2>5. RegionsInOrder' /\ LoopAside'
      BY <2>2, <2>3 DEF RegionsInOrder, InOrder, LoopAside, Working
    <2> QED
      BY <1>1, <2>4, <2>5, TablesKept DEF Aside, RamStep, chip
  <1> QED
    BY <1>2, <1>3 DEF RemapTail

(* The mapping that is taken away from a block.                             *)
LEMMA UnmapsAside == AsideInv /\ (MapFailed \/ Unmap) => Aside'
  <1> SUFFICES ASSUME AsideInv, MapFailed \/ Unmap PROVE Aside'
    OBVIOUS
  <1>1. /\ pc \in {"map_failed", "unmap"} /\ pc' \in {"update", "user_mark"} /\ RamStep
        /\ UNCHANGED regions /\ mapping_blocks_top_ba' = mapping_blocks_top_ba
        /\ block_mapping' = [block_mapping EXCEPT ![op.lb] = Unmapped]
    BY DEF MapFailed, Unmap, Update
  <1>2. block_mapping \in Mappings /\ MgmtStart \in Nat
    BY AsideTypes DEF AsideInv
  <1>3. \A x \in LogicBlocks : block_mapping'[x] \in {Unmapped, block_mapping[x]}
    BY <1>1, <1>2 DEF Mappings
  <1>4. OneToOne(block_mapping) /\ ClearTo(block_mapping, mapping_blocks_top_ba)
    BY DEF AsideInv, MappedAside
  <1>5. OneToOne(block_mapping')
    BY <1>3, <1>4 DEF OneToOne
  <1>6. ClearTo(block_mapping', mapping_blocks_top_ba')
    BY <1>1, <1>2, <1>3, <1>4 DEF ClearTo, Unmapped
  <1>7. MappedAside'
    BY <1>1, <1>5, <1>6 DEF MappedAside, OneToOne, ClearTo
  <1>8. RegionsInOrder' /\ LoopAside'
    BY <1>1 DEF AsideInv, RegionsInOrder, Doomed, LoopAside, Working, regions
  <1> QED
    BY <1>1, <1>7, <1>8, TablesKept DEF Aside, RamStep, chip

(* The pool is closed: its top comes down to its first block.               *)
LEMMA PoolClosedAside == AsideInv /\ PoolClosed => Aside'
  <1> SUFFICES ASSUME AsideInv, PoolClosed PROVE Aside'
    OBVIOUS
  <1>1. /\ pc = "pool_closed" /\ pc' \in {"map_failed", "update"} /\ RamStep
        /\ UNCHANGED <<regions, block_mapping>>
        /\ mapping_blocks_top_ba' = mapping_blocks_ba
    BY DEF PoolClosed, Update
  <1>2. /\ mapping_blocks_ba \in Nat /\ mapping_blocks_top_ba \in Nat
        /\ block_mapping \in Mappings /\ MgmtStart \in Nat
        /\ main_table_ba \in Nat /\ backup_table_ba \in Nat
    BY AsideTypes DEF AsideInv
  <1>3. InOrder
    BY <1>1 DEF AsideInv, RegionsInOrder, Doomed, InOrder
  <1>4. OneToOne(block_mapping) /\ ClearTo(block_mapping, mapping_blocks_top_ba)
    BY DEF AsideInv, MappedAside
  <1>5. ClearTo(block_mapping, mapping_blocks_ba)
    <2>1. \A x \in LogicBlocks : block_mapping[x] \in Int
      BY <1>2, ChipAssumption DEF Mappings, Blocks, Unmapped
    <2> QED
      BY <1>2, <1>3, <1>4, <2>1 DEF ClearTo, InOrder
  <1>6. MappedAside'
    BY <1>1, <1>4, <1>5 DEF MappedAside, OneToOne, ClearTo
  <1>7. RegionsInOrder' /\ LoopAside'
    BY <1>1, <1>2, <1>3 DEF RegionsInOrder, InOrder, LoopAside, Working, regions
  <1> QED
    BY <1>1, <1>6, <1>7, TablesKept DEF Aside, RamStep, chip

---------------------------------------------------------------------------------
(* Power, and the attach.                                                   *)

(* Nothing is mapped in an instance that is gone.                           *)
LEMMA PowerOffAside ==
  ASSUME AsideInv, PowerOff
  PROVE  MappedAside' /\ RegionsInOrder' /\ LoopAside'
  <1>1. \A lb \in LogicBlocks : block_mapping'[lb] = Unmapped
    BY DEF PowerOff, NoMapping
  <1>2. MgmtStart \in Nat /\ 0 < MgmtStart
    BY ChipAssumption
  <1>3. MappedAside'
    BY <1>1, <1>2 DEF PowerOff, MappedAside, OneToOne, ClearTo, Unmapped
  <1> QED
    BY <1>3 DEF PowerOff, RegionsInOrder, LoopAside, Working

LEMMA DetachedAside == AsideInv /\ Detached => Aside'
  BY PowerOffAside, TablesKept DEF Detached, chip, Aside

(* A power cut leaves what was there, or no table.                          *)
LEMMA PowerCutAside == AsideInv /\ PowerCut => Aside'
  <1> SUFFICES ASSUME AsideInv, PowerCut PROVE Aside'
    OBVIOUS
  <1>1. PICK c \in Interrupted.left : flash' = [flash EXCEPT ![Interrupted.ba] = c]
    BY DEF PowerCut
  <1>2. w.ba \in Blocks \/ pc \notin {"erase", "prog"}
    BY DEF AsideInv, IInv, TypeOK
  <1>3. op.pb \in Blocks /\ 0 \in Blocks
    BY ChipAssumption DEF AsideInv, IInv, TypeOK, Blocks
  <1>4. /\ Interrupted.ba \in Blocks
        /\ Interrupted.left \subseteq {flash[Interrupted.ba], Blank, Junk, Sig}
    <2>1. CASE pc = "erase"
      BY <1>2, <2>1 DEF Interrupted
    <2>2. CASE pc = "prog"
      BY <1>2, <2>2 DEF Interrupted
    <2>3. CASE pc = "user_erase"
      BY <1>3, <2>3 DEF Interrupted
    <2>4. CASE pc = "user_prog"
      BY <1>3, <2>4 DEF Interrupted
    <2>5. CASE pc \notin {"erase", "prog", "user_erase", "user_prog"}
      BY <1>3, <2>5 DEF Interrupted
    <2> QED
      BY <2>1, <2>2, <2>3, <2>4, <2>5
  <1>5. c.kind # "table" \/ c = flash[Interrupted.ba]
    BY <1>1, <1>4 DEF Blank, Junk, Sig
  <1>6. TablesAside'
    BY <1>1, <1>4, <1>5, BlockOverwritten
  <1> QED
    BY <1>6, PowerOffAside DEF PowerCut, Aside

(* The mapping that is built for a new chip.                                *)
LEMMA BuiltOneToOne ==
  ASSUME NEW s
  PROVE  OneToOne(BuildMapping(s))
  <1> DEFINE value(lb) == IF Nth(s, lb) = {} THEN Unmapped
                          ELSE CHOOSE pb \in Nth(s, lb) : TRUE
  <1>1. \A lb \in LogicBlocks : BuildMapping(s)[lb] = value(lb)
    BY DEF BuildMapping
  <1>2. ASSUME NEW a \in LogicBlocks, value(a) # Unmapped
        PROVE  value(a) \in Nth(s, a)
    BY <1>2
  <1>3. ASSUME NEW a, NEW b, NEW p \in Nth(s, a), p \in Nth(s, b)
        PROVE  a = b
    BY <1>3 DEF Nth
  <1> HIDE DEF value
  <1> QED
    BY <1>1, <1>2, <1>3 DEF OneToOne

(* A mapping into the data area is clear of every table.                    *)
LEMMA DataClear ==
  ASSUME NEW m \in Mappings, \A lb \in LogicBlocks : m[lb] < MgmtStart,
         NEW top \in Int
  PROVE  ClearTo(m, top)
  BY ChipAssumption DEF ClearTo, Mappings, Blocks, Unmapped

LEMMA FormatAside ==
  ASSUME NEW s, Format(s)
  PROVE  /\ OneToOne(block_mapping') /\ ClearTo(block_mapping', mapping_blocks_top_ba')
         /\ ClearTo(block_mapping', BlockCount) /\ InOrder'
         /\ caller' = "create"
  <1>1. /\ block_mapping' = BuildMapping(Scanned(s)) /\ caller' = "create"
        /\ main_table_ba' = 0 /\ backup_table_ba' = 0
        /\ mapping_blocks_ba' = 0 /\ mapping_blocks_top_ba' = 0
    BY DEF Format
  <1>2. /\ BuildMapping(Scanned(s)) \in Mappings
        /\ \A lb \in LogicBlocks : BuildMapping(Scanned(s))[lb] < MgmtStart
    BY BuildMappingRange
  <1>3. BlockCount \in Int /\ 0 \in Int
    BY ChipAssumption
  <1>4. ClearTo(BuildMapping(Scanned(s)), BlockCount)
        /\ ClearTo(BuildMapping(Scanned(s)), 0)
    BY <1>2, <1>3, DataClear
  <1>5. OneToOne(BuildMapping(Scanned(s)))
    BY BuiltOneToOne
  <1>6. InOrder'
    BY <1>1 DEF InOrder
  <1> QED
    BY <1>1, <1>4, <1>5, <1>6

LEMMA CreateNewAside == AsideInv /\ CreateNew => Aside'
  <1> SUFFICES ASSUME AsideInv, CreateNew PROVE Aside'
    OBVIOUS
  <1> DEFINE job == [Job("sig", MgmtStart, MgmtStart, "sig") EXCEPT !.ba = BlockCount - 1]
  <1>1. /\ Format(AllGood) /\ Seek(job, Scanned(AllGood), marked # {})
        /\ UNCHANGED flash
    BY DEF CreateNew, StartAttach, chip
  <1>2. w'.mode = "sig" /\ pc' \in {"erase", "ret"}
    <2>1. \/ \E b \in Ahead(job) : w' = [job EXCEPT !.ba = b] /\ pc' = "erase"
          \/ \E ok \in BOOLEAN : w' = [job EXCEPT !.ok = ok] /\ pc' = "ret"
      <3>1. (job.mode = "range") \in BOOLEAN
        OBVIOUS
      <3> HIDE DEF job
      <3> QED
        BY <1>1, <3>1 DEF Seek
    <2> QED
      BY <2>1 DEF Job
  <1>3. MappedAside'
    BY <1>1, <1>2, FormatAside DEF MappedAside, OneToOne, ClearTo
  <1>4. RegionsInOrder' /\ LoopAside'
    BY <1>1, <1>2, FormatAside DEF RegionsInOrder, InOrder, LoopAside
  <1> QED
    BY <1>1, <1>3, <1>4, TablesKept DEF Aside

LEMMA CreateExistingAside == AsideInv /\ CreateExisting => Aside'
  <1> SUFFICES ASSUME AsideInv, CreateExisting PROVE Aside'
    OBVIOUS
  <1>1. PICK s : Format(s) /\ pc' = "create" /\ UNCHANGED flash
    BY DEF CreateExisting, StartAttach, chip
  <1>2. MappedAside'
    BY <1>1, FormatAside DEF MappedAside, OneToOne, ClearTo
  <1>3. RegionsInOrder' /\ LoopAside'
    BY <1>1, FormatAside DEF RegionsInOrder, InOrder, LoopAside, Working
  <1> QED
    BY <1>1, <1>2, <1>3, TablesKept DEF Aside

LEMMA CreateTablesAside == AsideInv /\ CreateTables => Aside'
  <1> SUFFICES ASSUME AsideInv, CreateTables PROVE Aside'
    OBVIOUS
  <1>1. pc = "create" /\ RamStep /\ UNCHANGED block_mapping /\ signature_ba \in Blocks
    BY DEF CreateTables, AsideInv, IInv, TypeOK
  <1>2. OneToOne(block_mapping) /\ ClearTo(block_mapping, BlockCount)
    BY <1>1 DEF AsideInv, MappedAside
  <1>3. CASE pc' = "failed" /\ UNCHANGED <<regions, mapping_blocks_top_ba>>
    <2>1. ~Doomed
      BY <1>1 DEF Doomed
    <2> QED
      BY <1>1, <1>3, <2>1, CalmAside DEF RamStep, chip
  <1>4. ASSUME NEW t \in PoolTop, NEW count,
               /\ mapping_blocks_top_ba' = t
               /\ info_table_cache' = InfoTable(block_state, block_mapping, count)
               /\ main_table_ba' = 0 /\ backup_table_ba' = 0
               /\ mapping_blocks_ba' = t
               /\ WriteTable(MgmtStart, t, "rebuild_main", changed)
        PROVE  Aside'
    <2>1. t \in Nat /\ t < BlockCount /\ MgmtStart \in Nat /\ BlockCount \in Nat
          /\ "rebuild_main" \in Continuations
      BY <1>1, PoolTopRange, ChipAssumption DEF Blocks, Continuations
    <2>2. Runs("table", "rebuild_main", MgmtStart, t)
      BY <1>4, <2>1, TableRuns
    <2>3. ClearTo(block_mapping, t)
      BY <1>2, <2>1 DEF ClearTo
    <2>4. MappedAside'
      BY <1>1, <1>2, <1>4, <2>2, <2>3 DEF MappedAside, OneToOne, ClearTo, Runs
    <2>5. RegionsInOrder'
      BY <1>4, <2>1 DEF RegionsInOrder
    <2>6. info_table_cache'.mapping = block_mapping'
      BY <1>1, <1>4 DEF InfoTable
    <2>7. LoopAside'
      BY <1>4, <2>1, <2>2, <2>6 DEF LoopAside, Runs
    <2> QED
      BY <1>1, <2>4, <2>5, <2>7, TablesKept DEF Aside, RamStep, chip
  <1> QED
    BY <1>3, <1>4 DEF CreateTables

---------------------------------------------------------------------------------
(* The attach that finds a table.                                           *)

(* The top of the pool is above each block that the mapping is clear of.    *)
LEMMA TopAside ==
  ASSUME NEW sig \in Blocks, NEW k \in Blocks, MgmtStart <= k,
         NEW c \in Blocks, k <= c, c + 1 < sig, flash[k] \in Tables,
         \A lb \in LogicBlocks : flash[k].mapping[lb] # sig,
         ClearTo(flash[k].mapping, c + 1), NEW t \in Top(k, sig)
  PROVE  t \in Nat /\ c + 1 <= t /\ ClearTo(flash[k].mapping, t)
  <1> DEFINE mapped == {flash[k].mapping[lb] : lb \in LogicBlocks}
             S == (mapped \cap (k + 1 .. sig - 1)) \cup {sig}
  <1>1. t \in Blocks /\ t + 1 \in S /\ \A x \in S : t + 1 <= x
    BY DEF Top, Least
  <1>2. /\ MgmtStart \in Nat /\ k \in Int /\ c \in Int /\ sig \in Int /\ t \in Nat
    BY <1>1, ChipAssumption DEF Blocks
  <1>3. c + 1 <= t
    <2>1. CASE t + 1 = sig
      BY <1>2, <2>1
    <2>2. CASE t + 1 \in mapped /\ k + 1 <= t + 1
      <3>1. t + 1 \notin MgmtStart .. c + 1
        BY <2>2 DEF ClearTo
      <3> QED
        BY <1>2, <2>2, <3>1
    <2> QED
      BY <1>1, <1>2, <2>1, <2>2
  <1>4. ASSUME NEW lb \in LogicBlocks, flash[k].mapping[lb] \in MgmtStart .. t
        PROVE  FALSE
    <2>1. flash[k].mapping[lb] \notin MgmtStart .. c + 1 /\ flash[k].mapping[lb] # sig
      BY DEF ClearTo
    <2>2. t < sig
      BY <1>1, <1>2
    <2>3. flash[k].mapping[lb] \in k + 1 .. sig - 1
      BY <1>2, <1>4, <2>1, <2>2
    <2>4. t + 1 <= flash[k].mapping[lb]
      BY <1>1, <2>3
    <2> QED
      BY <1>2, <1>4, <2>4
  <1> QED
    BY <1>2, <1>3, <1>4 DEF ClearTo

(* The pool has one top.                                                    *)
LEMMA OneTop ==
  ASSUME NEW k, NEW sig, NEW t \in Top(k, sig), NEW u \in Top(k, sig)
  PROVE  t = u
  <1>1. t \in Int /\ u \in Int
    BY DEF Top, Blocks
  <1>2. t + 1 <= u + 1 /\ u + 1 <= t + 1
    BY DEF Top, Least
  <1> QED
    BY <1>1, <1>2

(* A loop over no block ends at once, with nothing written.                 *)
LEMMA SeekNothing ==
  ASSUME NEW job \in Jobs, Ahead(job) = {}, job.mode = "table", NEW s, NEW c,
         Seek(job, s, c)
  PROVE  pc' = "ret" /\ w'.then = job.then /\ ~w'.ok
  <1>1. w' = [job EXCEPT !.ok = (job.mode = "range")] /\ pc' = "ret"
    BY DEF Seek
  <1> QED
    BY <1>1 DEF Jobs

(* What every attach that finds a table leaves in RAM.                      *)
LEMMA LoadAside ==
  ASSUME AsideInv, UNCHANGED flash, NEW k \in Blocks, flash[k].kind = "table",
         block_mapping' = flash[k].mapping,
         info_table_cache'.mapping = flash[k].mapping,
         NEW t \in Nat, mapping_blocks_top_ba' = t, ClearTo(flash[k].mapping, t),
         NEW m \in Nat, NEW backup \in Nat, NEW ba \in Nat,
         main_table_ba' = m, backup_table_ba' = backup, mapping_blocks_ba' = ba,
         m <= ba, backup <= ba, backup # 0 => m <= backup, ba <= t \/ Doomed',
         NEW then \in {"front", "update_main", "update_backup"}, NEW lo \in Nat,
         NEW hi \in Nat, pc' = "leave" \/ Runs("table", then, lo, hi),
         then = "front" => hi <= m, then = "update_main" => hi <= backup,
         then = "update_backup" => backup <= lo, hi <= t
  PROVE  Aside'
  <1>1. OneToOne(flash[k].mapping)
    BY DEF AsideInv, TablesAside
  <1>2. pc' \in {"leave", "erase", "ret"}
    BY DEF Runs
  <1>3. MappedAside'
    BY <1>1, <1>2 DEF MappedAside, OneToOne, ClearTo
  <1>4. RegionsInOrder'
    BY DEF RegionsInOrder
  <1>5. CASE pc' = "leave"
    BY <1>3, <1>4, <1>5, TablesKept DEF Aside, LoopAside, Working
  <1>6. CASE Runs("table", then, lo, hi)
    <2>1. LoopAside'
      BY <1>2, <1>6 DEF LoopAside, Runs
    <2> QED
      BY <1>3, <1>4, <2>1, TablesKept DEF Aside
  <1> QED
    BY <1>5, <1>6

(* The same when the attach is over with that.                              *)
LEMMA LoadedAside ==
  ASSUME AsideInv, UNCHANGED flash, NEW k \in Blocks, flash[k].kind = "table",
         block_mapping' = flash[k].mapping,
         NEW t \in Nat, mapping_blocks_top_ba' = t, ClearTo(flash[k].mapping, t),
         NEW m \in Nat, NEW backup \in Nat, NEW ba \in Nat,
         main_table_ba' = m, backup_table_ba' = backup, mapping_blocks_ba' = ba,
         m <= ba, backup <= ba, backup # 0 => m <= backup, ba <= t \/ Doomed',
         pc' = "leave"
  PROVE  Aside'
  <1>1. OneToOne(flash[k].mapping)
    BY DEF AsideInv, TablesAside
  <1>2. MappedAside'
    BY <1>1 DEF MappedAside, OneToOne, ClearTo
  <1>3. RegionsInOrder'
    BY DEF RegionsInOrder
  <1> QED
    BY <1>2, <1>3, TablesKept DEF Aside, LoopAside, Working

(* The backup table is found behind the main one, and is the only one.      *)
LEMMA BackupAside ==
  ASSUME flash \in [Blocks -> Contents], NEW sig \in Blocks, NEW m \in MainFound(sig),
         NEW b \in BackupFound(m, sig)
  PROVE  /\ m \in Hits(MgmtStart, sig, AllGood) /\ b \in Hits(MgmtStart, sig, AllGood)
         /\ BackupFound(m, sig) = {b}
         /\ b \in Nat /\ m < b /\ b + 1 < sig /\ flash[b] \in Tables
         /\ \A lb \in LogicBlocks : flash[b].mapping[lb] # sig
  <1>1. m \in Hits(MgmtStart, sig, AllGood)
    BY DEF MainFound, First, Least
  <1>2. m \in Nat /\ MgmtStart <= m /\ MgmtStart \in Nat
    BY FoundRange, ChipAssumption DEF Blocks
  <1>3. b \in Hits(m + 1, sig, flash[m].state) /\ m + 1 \in Int
    BY <1>2 DEF BackupFound, First, Least
  <1>4. /\ b \in Nat /\ m < b /\ b + 1 < sig /\ flash[b] \in Tables
        /\ \A lb \in LogicBlocks : flash[b].mapping[lb] # sig
    BY <1>2, <1>3, HitsRange DEF Blocks
  <1>5. b \in Hits(MgmtStart, sig, AllGood)
    BY <1>2, <1>3, <1>4 DEF Hits, SearchRange, AllGood
  <1>6. ASSUME NEW a \in BackupFound(m, sig) PROVE a = b
    <2>1. a <= b /\ b <= a
      BY DEF BackupFound, First, Least
    <2>2. a \in Int /\ b \in Int
      BY DEF BackupFound, First, Least, Hits, SearchRange, Blocks
    <2> QED
      BY <2>1, <2>2
  <1> QED
    BY <1>1, <1>4, <1>5, <1>6

LEMMA LoadExistingAside == AsideInv /\ CountIdentifies /\ LoadExisting => Aside'
  <1> SUFFICES ASSUME AsideInv, CountIdentifies, LoadExisting PROVE Aside'
    OBVIOUS
  <1>1. PICK sig \in FoundSig, Ecc \in SUBSET Torn :
          \E m \in MainFound(sig) : LoadTable(m, sig, Ecc)
    BY DEF LoadExisting
  <1>2. PICK m \in MainFound(sig) : LoadTable(m, sig, Ecc)
    BY <1>1
  <1> DEFINE k      == Kept(m, sig)
             backup == BackupFound(m, sig)
             state  == LoadedState(m, sig, Ecc)
  <1>3. /\ UNCHANGED flash /\ block_mapping' = flash[k].mapping
        /\ mapping_blocks_top_ba' \in Top(k, sig) /\ main_table_ba' = m
        /\ info_table_cache'.mapping = flash[k].mapping /\ caller' = "load"
    BY <1>2 DEF LoadExisting, StartAttach, chip, LoadTable, InfoTable
  <1>4. flash \in [Blocks -> Contents] /\ MgmtStart \in Nat
    BY AsideTypes DEF AsideInv
  <1>5. sig \in Blocks /\ sig \in Nat
    BY FoundSigRange DEF AsideInv
  <1>6. /\ m \in Blocks /\ m \in Nat /\ MgmtStart <= m /\ m + 1 < sig
        /\ flash[m] \in Tables
        /\ k \in Blocks /\ m <= k /\ k + 1 < sig /\ k \in Nat /\ MgmtStart <= k
        /\ flash[k] \in Tables /\ flash[k].kind = "table"
        /\ \A lb \in LogicBlocks : flash[k].mapping[lb] # sig
    BY <1>4, <1>5, FoundRange DEF Blocks, Tables
  <1>7. ClearTo(flash[k].mapping, k + 1)
    BY <1>6 DEF AsideInv, TablesAside
  <1>8. PICK t \in Top(k, sig) : mapping_blocks_top_ba' = t
    BY <1>3
  <1>9. t \in Nat /\ k + 1 <= t /\ ClearTo(flash[k].mapping, t)
    BY <1>5, <1>6, <1>7, TopAside
  <1>10. Kept(m, sig) = m \/ Kept(m, sig) \in {b \in backup : flash[b].count > flash[m].count}
    BY DEF Kept
  <1>11. \/ /\ backup = {} /\ backup_table_ba' = 0 /\ mapping_blocks_ba' = m + 1
            /\ \E c : RescueSingle(m, state, c)
         \/ \E b \in backup :
              /\ backup_table_ba' = b /\ mapping_blocks_ba' = b + 1
              /\ \/ flash[b].count = flash[m].count /\ Leave(TRUE)
                 \/ /\ flash[b].count > flash[m].count
                    /\ Seek(Job("table", m, b, "update_main"), state, TRUE)
                 \/ /\ flash[b].count < flash[m].count
                    /\ \E u \in Top(k, sig) :
                         Seek(Job("table", b, u, "update_backup"), state, TRUE)
    BY <1>2 DEF LoadTable
  <1> HIDE DEF k, backup, state
  <1> USE DEF Continuations
  <1>12. CASE /\ backup = {} /\ backup_table_ba' = 0 /\ mapping_blocks_ba' = m + 1
              /\ \E c : RescueSingle(m, state, c)
    <2>1. Runs("table", "front", MgmtStart, m)
      BY <1>6, <1>12, RescueRuns
    <2>2. m + 1 \in Nat /\ 0 \in Nat /\ m <= m + 1 /\ 0 <= m + 1 /\ m + 1 <= t /\ m <= m
      BY <1>6, <1>9
    <2> QED
      BY <1>3, <1>4, <1>6, <1>8, <1>9, <1>12, <2>1, <2>2, LoadAside
  <1>13. ASSUME NEW b \in backup, backup_table_ba' = b, mapping_blocks_ba' = b + 1,
                \/ flash[b].count = flash[m].count /\ Leave(TRUE)
                \/ /\ flash[b].count > flash[m].count
                   /\ Seek(Job("table", m, b, "update_main"), state, TRUE)
                \/ /\ flash[b].count < flash[m].count
                   /\ \E u \in Top(k, sig) :
                        Seek(Job("table", b, u, "update_backup"), state, TRUE)
         PROVE  Aside'
    <2>1. /\ b \in Nat /\ m < b /\ b + 1 < sig /\ b \in Blocks
          /\ flash[b] \in Tables /\ flash[b].kind = "table"
          /\ b \in Hits(MgmtStart, sig, AllGood) /\ m \in Hits(MgmtStart, sig, AllGood)
          /\ backup = {b} /\ flash[b].count \in Nat /\ flash[m].count \in Nat
      <3>1. /\ b \in Nat /\ m < b /\ b + 1 < sig /\ flash[b] \in Tables
            /\ b \in Hits(MgmtStart, sig, AllGood) /\ m \in Hits(MgmtStart, sig, AllGood)
            /\ backup = {b}
        BY <1>4, <1>5, BackupAside DEF backup
      <3>2. b \in Blocks
        BY <3>1 DEF Hits, SearchRange
      <3>3. flash[b].kind = "table" /\ flash[b].count \in Nat /\ flash[m].count \in Nat
        BY <1>6, <3>1 DEF Tables
      <3> QED
        BY <3>1, <3>2, <3>3
    <2>2. /\ b + 1 \in Nat /\ m <= b + 1 /\ b <= b + 1 /\ m <= b /\ b <= b
      BY <1>6, <2>1
    <2>3. CASE flash[b].count = flash[m].count /\ Leave(TRUE)
      <3>1. k = m
        BY <1>10, <2>1, <2>3 DEF k
      <3>2. flash[k].mapping = flash[b].mapping
        BY <2>1, <2>3, <3>1 DEF CountIdentifies
      <3>3. ClearTo(flash[k].mapping, b + 1)
        BY <2>1, <3>2 DEF AsideInv, TablesAside
      <3>4. b + 1 <= t
        BY <1>5, <1>6, <2>1, <3>1, <3>3, TopAside
      <3>5. pc' = "leave"
        BY <2>3 DEF Leave
      <3> QED
        BY <1>3, <1>6, <1>8, <1>9, <1>13, <2>1, <2>2, <3>4, <3>5, LoadedAside
    <2>4. CASE /\ flash[b].count > flash[m].count
               /\ Seek(Job("table", m, b, "update_main"), state, TRUE)
      <3>1. k = b
        <4>1. {x \in backup : flash[x].count > flash[m].count} = {b}
          BY <2>1, <2>4
        <4>2. {b} # {} /\ (CHOOSE x \in {b} : TRUE) = b
          OBVIOUS
        <4> QED
          BY <4>1, <4>2 DEF k, Kept, backup
      <3>2. Runs("table", "update_main", m, b)
        BY <1>6, <2>1, <2>4, JobRuns
      <3>3. b + 1 <= t /\ b <= t
        BY <1>6, <1>9, <3>1
      <3> QED
        BY <1>3, <1>6, <1>8, <1>9, <1>13, <2>1, <2>2, <3>2, <3>3, LoadAside
    <2>5. CASE /\ flash[b].count < flash[m].count
               /\ \E u \in Top(k, sig) :
                    Seek(Job("table", b, u, "update_backup"), state, TRUE)
      <3>1. Seek(Job("table", b, t, "update_backup"), state, TRUE)
        BY <2>5, OneTop
      <3>2. Runs("table", "update_backup", b, t)
        BY <1>9, <2>1, <3>1, JobRuns
      <3>3. b + 1 <= t \/ Doomed'
        <4>1. SUFFICES ASSUME ~(b + 1 <= t) PROVE Doomed'
          OBVIOUS
        <4> DEFINE job == Job("table", b, t, "update_backup")
        <4>2. /\ job \in Jobs /\ job.mode = "table" /\ job.then = "update_backup"
              /\ Ahead(job) = {}
          BY <1>9, <2>1, <4>1 DEF Job, Jobs, Ahead
        <4>3. pc' = "ret" /\ w'.then = "update_backup" /\ ~w'.ok
          <5> HIDE DEF job
          <5>1. Seek(job, state, TRUE)
            BY <3>1 DEF job
          <5> QED
            BY <4>2, <5>1, SeekNothing
        <4> QED
          BY <1>3, <4>3 DEF Doomed
      <3>4. t <= t
        BY <1>9
      <3> QED
        BY <1>3, <1>6, <1>8, <1>9, <1>13, <2>1, <2>2, <3>2, <3>3, <3>4, LoadAside
    <2> QED
      BY <1>13, <2>3, <2>4, <2>5
  <1> QED
    BY <1>11, <1>12, <1>13

---------------------------------------------------------------------------------
(* AsideInv, and the theorems.                                              *)

LEMMA InitAside == Init => AsideInv
  <1> SUFFICES ASSUME Init PROVE AsideInv
    OBVIOUS
  <1>1. TablesAside
    BY DEF Init, TablesAside, Blank
  <1>2. MappedAside
    <2>1. \A lb \in LogicBlocks : block_mapping[lb] = Unmapped
      BY DEF Init, NoMapping
    <2> QED
      BY <2>1, ChipAssumption DEF Init, MappedAside, OneToOne, ClearTo, Unmapped
  <1>3. RegionsInOrder /\ LoopAside
    BY DEF Init, RegionsInOrder, LoopAside, Working
  <1> QED
    BY <1>1, <1>2, <1>3, InitInv DEF AsideInv

LEMMA StutterAside == AsideInv /\ UNCHANGED vars => Aside'
  <1> SUFFICES ASSUME AsideInv, UNCHANGED vars PROVE Aside'
    OBVIOUS
  <1> USE DEF vars, chip, regions, tables, control
  <1>1. TablesAside' /\ MappedAside'
    BY TablesKept, MappingKept DEF AsideInv, MappedAside
  <1>2. RegionsInOrder' /\ LoopAside'
    BY DEF AsideInv, RegionsInOrder, Doomed, LoopAside, Working
  <1> QED
    BY <1>1, <1>2 DEF Aside

LEMMA StepAside ==
  AsideInv /\ RemapTakesTop /\ CountIdentifies /\ [Next]_vars => AsideInv'
  <1> SUFFICES ASSUME AsideInv, RemapTakesTop, CountIdentifies, [Next]_vars
               PROVE  Aside'
    BY StepInv DEF AsideInv, Aside
  <1>1. CASE Attach
    BY <1>1, CreateNewAside, LoadExistingAside, CreateExistingAside, RamAside DEF Attach
  <1>2. CASE User
    BY <1>2, UserAside
  <1>3. CASE PowerCut
    BY <1>3, PowerCutAside
  <1>4. CASE Driver
    <2>1. CASE EraseOk \/ EraseFail \/ ProgramOk \/ ProgramFail \/ MarkBlock
      BY <2>1, EraseOkAside, LoopFailAside, ProgramOkAside, MarkBlockAside
    <2>2. CASE RebuildMain \/ RebuildBackup \/ Cleaned
      BY <2>2, RebuildMainAside, RebuildBackupAside, CleanedAside
    <2>3. CASE RescueFront \/ RescueBehind \/ RescueBehindCleaned
      BY <2>3, RescueFrontAside, RescueBehindAside, RescueBehindCleanedAside
    <2>4. CASE UpdateMain \/ UpdateBackup \/ UpdateOver \/ UpdateOnce
      BY <2>4, UpdateMainAside, UpdateBackupAside, UpdateOverAside, UpdateOnceAside
    <2>5. CASE OnceBackup \/ OnceMain \/ RescueTemporary \/ RescueNewMain
      BY <2>5, OnceBackupAside, OnceMainAside, RescueTemporaryAside, RescueNewMainAside
    <2>6. CASE MapForErase \/ MapFailed \/ PoolClosed
      BY <2>6, MapForEraseAside, UnmapsAside, PoolClosedAside
    <2>7. CASE SigWritten \/ CreateTables \/ RemapTail \/ Created
      BY <2>7, SigWrittenAside, CreateTablesAside, RemapTailAside, RamAside
    <2>8. CASE LeaveUpdate \/ LeaveLoad \/ LeaveCreate
      BY <2>8, LeaveUpdateAside, LeaveLoadAside
    <2>9. CASE EraseRetry \/ UserEraseOk \/ UserEraseFail \/ UserMark
      BY <2>9, RamAside, UserFlashAside
    <2>10. CASE UserProgramOk \/ UserProgramFail \/ Unmap \/ Detached
      BY <2>10, UserFlashAside, UnmapsAside, DetachedAside
    <2> QED
      BY <1>4, <2>1, <2>2, <2>3, <2>4, <2>5, <2>6, <2>7, <2>8, <2>9, <2>10
         DEF Driver
  <1>5. CASE UNCHANGED vars
    BY <1>5, StutterAside
  <1> QED
    BY <1>1, <1>2, <1>3, <1>4, <1>5 DEF Next

(* On a chip whose pool is bad only below the blocks already mapped, and    *)
(* whose attaches never meet two different tables with one write count, the *)
(* regions of the management area stay in order below the mapped blocks.    *)
THEOREM AsideInvariance ==
  Spec /\ [](RemapTakesTop /\ CountIdentifies) => []AsideInv
  BY InitAside, StepAside, PTL DEF Spec

(* nmbm_map_block never maps two logical blocks to one physical block, on   *)
(* the condition of AsideInvariance: not in this instance, and not after a  *)
(* power cut and an attach with the tables it finds.                        *)
THEOREM BlocksStayUnshared ==
  Spec /\ [](RemapTakesTop /\ CountIdentifies) => []NoSharedBlock
  <1>1. AsideInv => NoSharedBlock
    BY DEF AsideInv, MappedAside, OneToOne, NoSharedBlock
  <1> QED
    BY <1>1, AsideInvariance, PTL

(* nmbm_write_mgmt_range and nmbm_erase_range never touch a block that a    *)
(* logical block is mapped to, on the same condition.                       *)
THEOREM TablesStayOffData ==
  Spec /\ [](RemapTakesTop /\ CountIdentifies) => TablesSpareData
  <1>1. ASSUME AsideInv, w.mode \in {"table", "range"}, pc \in {"erase", "prog", "mark"},
               NEW lb \in LogicBlocks
        PROVE  w.ba # block_mapping[lb]
    <2>1. /\ w \in Jobs /\ MgmtStart \in Nat /\ mapping_blocks_top_ba \in Nat
      BY <1>1, AsideTypes DEF AsideInv
    <2>2. w.ba \in Ahead(w) /\ w.mode # "sig"
      BY <1>1 DEF AsideInv, IInv, TypeOK
    <2>3. MgmtStart <= w.ba
      BY <1>1, <2>2 DEF AsideInv, IInv, Work, Working, Confined
    <2>4. w.lim <= mapping_blocks_top_ba
      BY <1>1, <2>2 DEF AsideInv, LoopAside, Working
    <2>5. w.ba \in Int /\ w.ba < w.lim /\ w.lim \in Nat
      BY <2>1, <2>2 DEF Ahead, Jobs
    <2>6. w.ba \in MgmtStart .. mapping_blocks_top_ba
      BY <2>1, <2>3, <2>4, <2>5
    <2> QED
      BY <1>1, <2>6 DEF AsideInv, MappedAside, ClearTo
  <1>2. AsideInv =>
          (w.mode \in {"table", "range"} /\ pc \in {"erase", "prog", "mark"}
             => \A lb \in LogicBlocks : w.ba # block_mapping[lb])
    BY <1>1
  <1> QED
    BY <1>2, AsideInvariance, PTL DEF TablesSpareData

---------------------------------------------------------------------------------
(* The tables on record stay current.                                       *)

(* What CurrentInv says beyond AsideInv.                                    *)
Current == TablesApart /\ OpAside /\ RestTables /\ LoopTables /\ LeaveTables

(* HoldsMapping, after a step.                                              *)
HeldAfter(b) ==
  /\ flash'[b].kind = "table" /\ b \notin marked'
  /\ \A lb \in LogicBlocks :
       block_mapping'[lb] # Unmapped => flash'[b].mapping[lb] = block_mapping'[lb]

(* A table that is left alone still holds the mapping, and one of which     *)
(* some blocks are taken away.                                              *)
LEMMA HeldKept ==
  ASSUME NEW b, HoldsMapping(b), flash'[b] = flash[b], b \notin marked',
         \A lb \in LogicBlocks : block_mapping'[lb] \in {Unmapped, block_mapping[lb]}
  PROVE  HeldAfter(b)
  BY DEF HoldsMapping, HeldAfter

(* A step that neither writes nor remaps.                                   *)
LEMMA HeldStill ==
  ASSUME UNCHANGED <<flash, marked, block_mapping>>, NEW b, HoldsMapping(b)
  PROVE  HeldAfter(b)
  BY DEF HoldsMapping, HeldAfter

LEMMA TablesHoldAfter ==
  ASSUME HeldAfter(main_table_ba'), backup_table_ba' # 0 => HeldAfter(backup_table_ba')
  PROVE  TablesHold'
  BY DEF TablesHold, HoldsMapping, HeldAfter

LEMMA LoopTablesAfter ==
  ASSUME \A b \in Relied' :
           b \in Blocks /\ HeldAfter(b) /\ b \notin w'.from .. w'.lim - 1,
         pc' \in {"erase", "prog"} => w'.ba \notin marked',
         pc' = "ret" /\ w'.ok /\ w'.mode = "table" => HeldAfter(w'.ba),
         w'.then \in {"front", "behind", "behind_cleaned", "update_main", "update_backup"}
           => caller' = "load",
         w'.then \in {"rebuild_backup", "front", "behind"} => backup_table_ba' = 0
  PROVE  LoopTables'
  <1>1. ASSUME NEW b \in Relied'
        PROVE  (b \in Blocks /\ HoldsMapping(b) /\ b \notin w.from .. w.lim - 1)'
    BY <1>1 DEF HoldsMapping, HeldAfter
  <1>2. pc' = "ret" /\ w'.ok /\ w'.mode = "table" => HoldsMapping(w.ba)'
    BY DEF HoldsMapping, HeldAfter
  <1> QED
    BY <1>1, <1>2 DEF LoopTables

(* A procedure that ends leaves right tables, unless it failed.             *)
LEMMA LeavesTables ==
  ASSUME UNCHANGED <<flash, marked, block_mapping>>, w \in Jobs, NEW ok \in BOOLEAN,
         Leave(ok), TablesApart',
         ok => /\ HoldsMapping(main_table_ba')
               /\ backup_table_ba' # 0 => HoldsMapping(backup_table_ba'),
         ~ok => protected' \/ caller' # "update"
  PROVE  Current'
  <1>1. pc' = "leave" /\ w'.ok = ok
    BY DEF Leave, Jobs
  <1>2. ok => TablesHold'
    BY HeldStill, TablesHoldAfter
  <1>3. LeaveTables'
    BY <1>1, <1>2 DEF LeaveTables
  <1> QED
    BY <1>1, <1>3 DEF Current, OpAside, RestTables, Rests, LoopTables, Working

(* A loop of the tables that was just entered: a table is yet to be written. *)
Begins(mode, then, lo, hi) ==
  /\ Runs(mode, then, lo, hi)
  /\ pc' = "erase" => w'.ba \notin marked
  /\ pc' = "ret" /\ w'.ok => mode = "range"

LEMMA SeekBegins ==
  ASSUME NEW job \in Jobs, NEW s, NEW c, Seek(job, s, c)
  PROVE  /\ pc' = "erase" => w'.ba \notin marked /\ w'.ba \in Ahead(job)
         /\ pc' = "ret" /\ w'.ok => job.mode = "range"
  BY DEF Seek, Jobs

LEMMA SeekTableBegins ==
  ASSUME NEW lo \in Nat, NEW hi \in Nat, NEW then \in Continuations, NEW s, NEW c,
         Seek(Job("table", lo, hi, then), s, c)
  PROVE  Begins("table", then, lo, hi)
  <1>1. Runs("table", then, lo, hi)
    BY JobRuns
  <1> DEFINE job == Job("table", lo, hi, then)
  <1>2. job \in Jobs /\ job.mode = "table"
    BY DEF Job, Jobs
  <1>3. Seek(job, s, c)
    OBVIOUS
  <1> HIDE DEF job
  <1>4. /\ pc' = "erase" => w'.ba \notin marked
        /\ pc' = "ret" /\ w'.ok => job.mode = "range"
    BY <1>2, <1>3, SeekBegins
  <1> QED
    BY <1>1, <1>2, <1>4 DEF Begins

LEMMA TableBegins ==
  ASSUME NEW lo \in Nat, NEW hi \in Nat, NEW then \in Continuations, NEW c,
         WriteTable(lo, hi, then, c)
  PROVE  Begins("table", then, lo, hi)
  BY SeekTableBegins DEF WriteTable

LEMMA RangeBegins ==
  ASSUME NEW lo \in Nat, NEW hi \in Nat, NEW then \in Continuations, NEW c,
         EraseRange(lo, hi, then, c)
  PROVE  Begins("range", then, lo, hi)
  <1>1. Runs("range", then, lo, hi)
    BY RangeRuns
  <1> DEFINE job == Job("range", lo, hi, then)
  <1>2. job \in Jobs
    BY DEF Job, Jobs
  <1>3. Seek(job, block_state, c)
    BY DEF EraseRange
  <1> HIDE DEF job
  <1>4. pc' = "erase" => w'.ba \notin marked
    BY <1>2, <1>3, SeekBegins
  <1> QED
    BY <1>1, <1>4 DEF Begins

LEMMA RescueBegins ==
  ASSUME NEW ba \in Nat, NEW s, NEW c, RescueSingle(ba, s, c)
  PROVE  Begins("table", "front", MgmtStart, ba)
  <1>1. MgmtStart \in Nat /\ "front" \in Continuations
    BY ChipAssumption DEF Continuations
  <1> QED
    BY <1>1, SeekTableBegins DEF RescueSingle

(* A loop from lo to hi does not touch the tables it relies on.             *)
Spares(lo, hi) ==
  \A b \in Relied' : b \in Blocks /\ HoldsMapping(b) /\ b \notin lo .. hi - 1

(* A procedure that enters its next loop.                                   *)
LEMMA EntersTables ==
  ASSUME UNCHANGED <<flash, marked, block_mapping>>, TablesApart',
         NEW mode \in {"table", "range"}, NEW then, NEW lo \in Nat, NEW hi \in Nat,
         Begins(mode, then, lo, hi), Spares(lo, hi),
         then \in {"front", "behind", "behind_cleaned", "update_main", "update_backup"}
           => caller' = "load",
         then \in {"rebuild_backup", "front", "behind"} => backup_table_ba' = 0
  PROVE  Current'
  <1>1. /\ w'.mode = mode /\ w'.then = then /\ w'.from = lo /\ w'.lim = hi
        /\ pc' \in {"erase", "ret"} /\ (pc' = "erase" => w'.ba \notin marked')
        /\ (pc' = "ret" /\ w'.ok => mode = "range")
    BY DEF Begins, Runs
  <1>2. LoopTables'
    BY <1>1, HeldStill, LoopTablesAfter DEF Spares
  <1> QED
    BY <1>1, <1>2 DEF Current, OpAside, RestTables, Rests, LeaveTables

---------------------------------------------------------------------------------
(* The table procedures: what each leaves on record holds the mapping.      *)

LEMMA AtReturnTables ==
  ASSUME CurrentInv, pc = "ret", w.then \in Continuations \ {"none", "sig"}
  PROVE  /\ AsideInv /\ w \in Jobs /\ TablesApart
         /\ MgmtStart <= mapping_blocks_ba /\ 0 < MgmtStart
         /\ w.ok /\ w.then \in TableSteps => HoldsMapping(w.ba) /\ w.ba \in Blocks
         /\ \A b \in Relied : b \in Blocks /\ HoldsMapping(b) /\ b \in Nat
         /\ w.then \in {"front", "behind", "behind_cleaned", "update_main", "update_backup"}
              => caller = "load"
         /\ w.then \in {"rebuild_backup", "front", "behind"} => backup_table_ba = 0
  <1>1. AsideInv /\ IInv /\ TablesApart
    BY DEF CurrentInv, AsideInv
  <1>2. /\ w \in Jobs /\ RegionsFit /\ 0 < MgmtStart /\ w.lim < signature_ba
        /\ w.then \in TableSteps => w.mode = "table"
        /\ w.ok /\ w.mode = "table" => MgmtStart <= w.ba /\ w.ba \in Nat /\ w.ba < w.lim
    BY <1>1, AtReturn
  <1>3. w.mode # "sig"
    BY DEF CurrentInv, AsideInv, IInv, Work, Working, Confined
  <1>4. /\ \A b \in Relied : b \in Blocks /\ HoldsMapping(b)
        /\ w.ok /\ w.mode = "table" => HoldsMapping(w.ba)
        /\ w.then \in {"front", "behind", "behind_cleaned", "update_main", "update_backup"}
             => caller = "load"
        /\ w.then \in {"rebuild_backup", "front", "behind"} => backup_table_ba = 0
    BY <1>3 DEF CurrentInv, LoopTables, Working
  <1>5. signature_ba \in Blocks
    BY <1>1 DEF IInv, TypeOK
  <1>6. w.ok /\ w.mode = "table" => w.ba \in Blocks
    BY <1>2, <1>5, ChipAssumption DEF Blocks, Jobs
  <1>7. MgmtStart <= mapping_blocks_ba
    BY <1>2 DEF RegionsFit, InArea
  <1> QED
    BY <1>1, <1>2, <1>4, <1>6, <1>7 DEF Blocks

LEMMA RebuildMainTables == CurrentInv /\ RebuildMain => Current'
  <1> SUFFICES ASSUME CurrentInv, RebuildMain PROVE Current'
    OBVIOUS
  <1> USE DEF TableSteps, RangeSteps, Continuations
  <1>1. pc = "ret" /\ w.then = "rebuild_main"
    BY DEF RebuildMain, Returned
  <1>2. /\ AsideInv /\ w \in Jobs /\ TablesApart
        /\ w.ok => HoldsMapping(w.ba) /\ w.ba \in Blocks
    BY <1>1, AtReturnTables
  <1>3. mapping_blocks_top_ba \in Nat /\ (w.ok => w.ba \in Nat)
    BY <1>1, <1>2, AtReturnAside
  <1>4. backup_table_ba = 0
    BY <1>1, <1>2, AtReturn DEF AsideInv, LoopAside, Working
  <1>5. UNCHANGED <<flash, marked, block_mapping>>
    BY DEF RebuildMain, RamStep, chip, tables
  <1>6. CASE ~w.ok /\ Leave(FALSE) /\ protected' = TRUE /\ UNCHANGED regions
    <2>1. TablesApart'
      BY <1>2, <1>6 DEF TablesApart, regions
    <2> QED
      BY <1>2, <1>5, <1>6, <2>1, LeavesTables
  <1>7. CASE w.ok
    <2>1. main_table_ba' = w.ba /\ mapping_blocks_ba' = w.ba + 1
          /\ backup_table_ba' = backup_table_ba
      BY <1>7 DEF RebuildMain
    <2>2. TablesApart'
      BY <1>3, <1>4, <1>7, <2>1 DEF TablesApart
    <2>3. CASE Leave(TRUE)
      BY <1>2, <1>4, <1>5, <1>7, <2>1, <2>2, <2>3, LeavesTables
    <2>4. CASE \E nba \in Reserve(w.ba + 1, mapping_blocks_top_ba - 1) :
                 WriteTable(nba, mapping_blocks_top_ba, "rebuild_backup", FALSE)
      <3>1. PICK nba \in Reserve(w.ba + 1, mapping_blocks_top_ba - 1) :
                 WriteTable(nba, mapping_blocks_top_ba, "rebuild_backup", FALSE)
        BY <2>4
      <3>2. nba \in Nat /\ w.ba + 1 <= nba
        BY <1>3, <1>7, ReserveRange DEF Blocks
      <3>3. Begins("table", "rebuild_backup", nba, mapping_blocks_top_ba)
        BY <1>3, <3>1, <3>2, TableBegins
      <3>4. Relied' \subseteq {w.ba}
        BY <2>1, <3>3 DEF Relied, Begins, Runs
      <3>5. Spares(nba, mapping_blocks_top_ba)
        BY <1>2, <1>3, <1>7, <3>2, <3>4 DEF Spares
      <3> QED
        BY <1>3, <1>4, <1>5, <2>1, <2>2, <3>2, <3>3, <3>5, EntersTables
    <2> QED
      BY <1>7, <2>3, <2>4 DEF RebuildMain
  <1> QED
    BY <1>6, <1>7 DEF RebuildMain

LEMMA RebuildBackupTables == CurrentInv /\ RebuildBackup => Current'
  <1> SUFFICES ASSUME CurrentInv, RebuildBackup PROVE Current'
    OBVIOUS
  <1> USE DEF TableSteps, RangeSteps, Continuations
  <1>1. pc = "ret" /\ w.then = "rebuild_backup"
    BY DEF RebuildBackup, Returned
  <1>2. /\ AsideInv /\ w \in Jobs /\ TablesApart /\ backup_table_ba = 0
        /\ MgmtStart <= mapping_blocks_ba /\ 0 < MgmtStart
        /\ w.ok => HoldsMapping(w.ba) /\ w.ba \in Blocks
        /\ \A b \in Relied : b \in Blocks /\ HoldsMapping(b) /\ b \in Nat
    BY <1>1, AtReturnTables
  <1>3. /\ mapping_blocks_ba \in Nat /\ main_table_ba \in Nat
        /\ MgmtStart \in Nat /\ w.from \in Nat
        /\ w.ok => w.ba \in Nat /\ w.from <= w.ba
    BY <1>1, <1>2, AtReturnAside
  <1>4. mapping_blocks_ba <= w.from
    BY <1>1, <1>2, AtReturn DEF AsideInv, LoopAside, Working
  <1>5. main_table_ba \in Blocks /\ HoldsMapping(main_table_ba)
    BY <1>1, <1>2 DEF Relied
  <1>6. UNCHANGED <<flash, marked, block_mapping>>
    BY DEF RebuildBackup, RamStep, chip, tables
  <1>7. CASE ~w.ok /\ Leave(TRUE) /\ UNCHANGED regions
    <2>1. TablesApart'
      BY <1>2, <1>7 DEF TablesApart, regions
    <2> QED
      BY <1>2, <1>5, <1>6, <1>7, <2>1, LeavesTables DEF regions
  <1>8. CASE w.ok
    <2>1. /\ backup_table_ba' = w.ba /\ mapping_blocks_ba' = w.ba + 1
          /\ main_table_ba' = main_table_ba
          /\ EraseRange(mapping_blocks_ba, w.ba, "cleaned", changed)
      BY <1>8 DEF RebuildBackup
    <2>2. main_table_ba < mapping_blocks_ba
      BY <1>2, <1>3 DEF TablesApart
    <2>3. TablesApart'
      BY <1>3, <1>4, <1>8, <2>1, <2>2 DEF TablesApart
    <2>4. Begins("range", "cleaned", mapping_blocks_ba, w.ba)
      BY <1>3, <1>8, <2>1, RangeBegins
    <2>5. Relied' \subseteq {main_table_ba, w.ba}
      BY <2>1, <2>4 DEF Relied, Begins, Runs
    <2>6. Spares(mapping_blocks_ba, w.ba)
      BY <1>2, <1>3, <1>5, <1>8, <2>2, <2>5 DEF Spares
    <2> QED
      BY <1>3, <1>6, <1>8, <2>3, <2>4, <2>6, EntersTables
  <1> QED
    BY <1>7, <1>8 DEF RebuildBackup

LEMMA CleanedTables == CurrentInv /\ Cleaned => Current'
  <1> SUFFICES ASSUME CurrentInv, Cleaned PROVE Current'
    OBVIOUS
  <1>1. /\ pc = "ret" /\ w.then = "cleaned" /\ Leave(TRUE)
        /\ UNCHANGED <<flash, marked, block_mapping, regions>>
    BY DEF Cleaned, Returned, RamStep, chip, tables
  <1>2. /\ w \in Jobs /\ TablesApart
        /\ \A b \in Relied : HoldsMapping(b)
    BY <1>1, AtReturnTables DEF Continuations
  <1>3. HoldsMapping(main_table_ba) /\ HoldsMapping(backup_table_ba)
    BY <1>1, <1>2 DEF Relied
  <1>4. TablesApart'
    BY <1>1, <1>2 DEF TablesApart, regions
  <1> QED
    BY <1>1, <1>2, <1>3, <1>4, LeavesTables DEF regions

LEMMA RescueFrontTables == CurrentInv /\ RescueFront => Current'
  <1> SUFFICES ASSUME CurrentInv, RescueFront PROVE Current'
    OBVIOUS
  <1> USE DEF TableSteps, RangeSteps, Continuations
  <1>1. pc = "ret" /\ w.then = "front"
    BY DEF RescueFront, Returned
  <1>2. /\ AsideInv /\ w \in Jobs /\ TablesApart /\ backup_table_ba = 0
        /\ MgmtStart <= mapping_blocks_ba /\ 0 < MgmtStart /\ caller = "load"
        /\ w.ok => HoldsMapping(w.ba) /\ w.ba \in Blocks
        /\ \A b \in Relied : b \in Blocks /\ HoldsMapping(b) /\ b \in Nat
    BY <1>1, AtReturnTables
  <1>3. /\ mapping_blocks_ba \in Nat /\ main_table_ba \in Nat /\ MgmtStart \in Nat
        /\ mapping_blocks_top_ba \in Nat
        /\ w.ok => w.ba \in Nat /\ w.ba < w.lim
    BY <1>1, <1>2, AtReturnAside
  <1>4. w.lim <= main_table_ba /\ w.lim \in Int
    BY <1>1, <1>2, AtReturn DEF AsideInv, LoopAside, Working, Jobs
  <1>5. main_table_ba \in Blocks /\ HoldsMapping(main_table_ba)
    BY <1>1, <1>2 DEF Relied
  <1>6. main_table_ba < mapping_blocks_ba
    BY <1>2, <1>3 DEF TablesApart
  <1>7. /\ UNCHANGED <<flash, marked, block_mapping, mapping_blocks_ba, protected>>
        /\ caller' = caller
    BY DEF RescueFront, RamStep, chip, tables, control
  <1>8. CASE w.ok
    <2>1. /\ backup_table_ba' = main_table_ba /\ main_table_ba' = w.ba
          /\ EraseRange(w.ba + 1, main_table_ba, "cleaned", FALSE)
      BY <1>8 DEF RescueFront
    <2>2. TablesApart'
      BY <1>3, <1>4, <1>6, <1>7, <1>8, <2>1 DEF TablesApart
    <2>3. w.ba + 1 \in Nat
      BY <1>3, <1>8
    <2>4. Begins("range", "cleaned", w.ba + 1, main_table_ba)
      BY <1>3, <2>1, <2>3, RangeBegins
    <2>5. Relied' \subseteq {main_table_ba, w.ba}
      BY <2>1, <2>4 DEF Relied, Begins, Runs
    <2>6. Spares(w.ba + 1, main_table_ba)
      BY <1>2, <1>3, <1>5, <1>8, <2>5 DEF Spares
    <2> QED
      BY <1>3, <1>7, <2>2, <2>3, <2>4, <2>6, EntersTables
  <1>9. CASE ~w.ok
    <2>1. UNCHANGED <<main_table_ba, backup_table_ba>>
      BY <1>9 DEF RescueFront
    <2>2. TablesApart'
      BY <1>2, <1>7, <2>1 DEF TablesApart
    <2>3. CASE Leave(FALSE)
      BY <1>2, <1>7, <2>2, <2>3, LeavesTables
    <2>4. CASE \E wba \in Reserve(mapping_blocks_ba, mapping_blocks_top_ba - 1) :
                 WriteTable(wba, mapping_blocks_top_ba, "behind", changed)
      <3>1. PICK wba \in Reserve(mapping_blocks_ba, mapping_blocks_top_ba - 1) :
                 WriteTable(wba, mapping_blocks_top_ba, "behind", changed)
        BY <2>4
      <3>2. wba \in Nat /\ mapping_blocks_ba <= wba
        BY <1>3, ReserveRange DEF Blocks
      <3>3. Begins("table", "behind", wba, mapping_blocks_top_ba)
        BY <1>3, <3>1, <3>2, TableBegins
      <3>4. Relied' \subseteq {main_table_ba}
        BY <2>1, <3>3 DEF Relied, Begins, Runs
      <3>5. Spares(wba, mapping_blocks_top_ba)
        BY <1>3, <1>5, <1>6, <3>2, <3>4 DEF Spares
      <3> QED
        BY <1>2, <1>3, <1>7, <2>1, <2>2, <3>2, <3>3, <3>5, EntersTables
    <2> QED
      BY <1>9, <2>3, <2>4 DEF RescueFront
  <1> QED
    BY <1>8, <1>9

LEMMA RescueBehindTables == CurrentInv /\ RescueBehind => Current'
  <1> SUFFICES ASSUME CurrentInv, RescueBehind PROVE Current'
    OBVIOUS
  <1> USE DEF TableSteps, RangeSteps, Continuations
  <1>1. pc = "ret" /\ w.then = "behind"
    BY DEF RescueBehind, Returned
  <1>2. /\ AsideInv /\ w \in Jobs /\ TablesApart /\ backup_table_ba = 0
        /\ MgmtStart <= mapping_blocks_ba /\ 0 < MgmtStart /\ caller = "load"
        /\ w.ok => HoldsMapping(w.ba) /\ w.ba \in Blocks
        /\ \A b \in Relied : b \in Blocks /\ HoldsMapping(b) /\ b \in Nat
    BY <1>1, AtReturnTables
  <1>3. /\ mapping_blocks_ba \in Nat /\ main_table_ba \in Nat /\ MgmtStart \in Nat
        /\ mapping_blocks_top_ba \in Nat /\ w.from \in Nat
        /\ w.ok => w.ba \in Nat
    BY <1>1, <1>2, AtReturnAside
  <1>4. mapping_blocks_ba <= w.from
    BY <1>1, <1>2, AtReturn DEF AsideInv, LoopAside, Working
  <1>5. main_table_ba \in Blocks /\ HoldsMapping(main_table_ba)
    BY <1>1, <1>2 DEF Relied
  <1>6. main_table_ba < mapping_blocks_ba
    BY <1>2, <1>3 DEF TablesApart
  <1>7. /\ UNCHANGED <<flash, marked, block_mapping, regions, protected>>
        /\ caller' = caller
    BY DEF RescueBehind, RamStep, chip, tables, control
  <1>8. TablesApart' /\ main_table_ba' = main_table_ba
        /\ backup_table_ba' = backup_table_ba
    BY <1>2, <1>7 DEF TablesApart, regions
  <1>9. CASE w.ok /\ EraseRange(mapping_blocks_ba, w.ba, "behind_cleaned", changed)
    <2>1. Begins("range", "behind_cleaned", mapping_blocks_ba, w.ba)
      BY <1>3, <1>9, RangeBegins
    <2>2. Relied' \subseteq {main_table_ba, w.ba}
      BY <1>8, <2>1 DEF Relied, Begins, Runs
    <2>3. Spares(mapping_blocks_ba, w.ba)
      BY <1>2, <1>3, <1>5, <1>6, <1>9, <2>2 DEF Spares
    <2> QED
      BY <1>2, <1>3, <1>7, <1>8, <1>9, <2>1, <2>3, EntersTables
  <1>10. CASE /\ w.from > mapping_blocks_ba
              /\ WriteTable(w.from - 1, mapping_blocks_top_ba, "behind", changed)
    <2>1. w.from - 1 \in Nat /\ mapping_blocks_ba <= w.from - 1
      BY <1>3, <1>10
    <2>2. Begins("table", "behind", w.from - 1, mapping_blocks_top_ba)
      BY <1>3, <1>10, <2>1, TableBegins
    <2>3. Relied' \subseteq {main_table_ba}
      BY <1>8, <2>2 DEF Relied, Begins, Runs
    <2>4. Spares(w.from - 1, mapping_blocks_top_ba)
      BY <1>3, <1>5, <1>6, <2>1, <2>3 DEF Spares
    <2> QED
      BY <1>2, <1>3, <1>7, <1>8, <2>1, <2>2, <2>4, EntersTables
  <1>11. CASE Leave(FALSE)
    BY <1>2, <1>7, <1>8, <1>11, LeavesTables
  <1> QED
    BY <1>9, <1>10, <1>11 DEF RescueBehind

LEMMA RescueBehindCleanedTables == CurrentInv /\ RescueBehindCleaned => Current'
  <1> SUFFICES ASSUME CurrentInv, RescueBehindCleaned PROVE Current'
    OBVIOUS
  <1> USE DEF TableSteps, RangeSteps, Continuations
  <1>1. pc = "ret" /\ w.then = "behind_cleaned"
    BY DEF RescueBehindCleaned, Returned
  <1>2. /\ AsideInv /\ w \in Jobs /\ TablesApart
        /\ MgmtStart <= mapping_blocks_ba /\ 0 < MgmtStart
        /\ \A b \in Relied : b \in Blocks /\ HoldsMapping(b) /\ b \in Nat
    BY <1>1, AtReturnTables
  <1>3. /\ mapping_blocks_ba \in Nat /\ main_table_ba \in Nat /\ MgmtStart \in Nat
        /\ w.lim \in Nat
    BY <1>1, <1>2, AtReturnAside
  <1>4. mapping_blocks_ba <= w.lim
    BY <1>1, <1>2, AtReturn DEF AsideInv, IInv, Work, Confined, LoopAside, Working
  <1>5. HoldsMapping(main_table_ba) /\ HoldsMapping(w.lim)
    BY <1>1, <1>2 DEF Relied
  <1>6. /\ UNCHANGED <<flash, marked, block_mapping, main_table_ba>> /\ Leave(TRUE)
        /\ backup_table_ba' = w.lim /\ mapping_blocks_ba' = w.lim + 1
    BY DEF RescueBehindCleaned, RamStep, chip, tables
  <1>7. TablesApart'
    BY <1>2, <1>3, <1>4, <1>6 DEF TablesApart
  <1> QED
    BY <1>2, <1>5, <1>6, <1>7, LeavesTables

LEMMA UpdateMainTables == CurrentInv /\ UpdateMain => Current'
  <1> SUFFICES ASSUME CurrentInv, UpdateMain PROVE Current'
    OBVIOUS
  <1> USE DEF TableSteps, RangeSteps, Continuations
  <1>1. pc = "ret" /\ w.then = "update_main"
    BY DEF UpdateMain, Returned
  <1>2. /\ AsideInv /\ w \in Jobs /\ TablesApart /\ caller = "load"
        /\ MgmtStart <= mapping_blocks_ba /\ 0 < MgmtStart
        /\ w.ok => HoldsMapping(w.ba) /\ w.ba \in Blocks
        /\ \A b \in Relied : b \in Blocks /\ HoldsMapping(b) /\ b \in Nat
    BY <1>1, AtReturnTables
  <1>3. /\ mapping_blocks_ba \in Nat /\ backup_table_ba \in Nat /\ MgmtStart \in Nat
        /\ w.lim \in Nat
        /\ w.ok => w.ba \in Nat /\ w.ba < w.lim
    BY <1>1, <1>2, AtReturnAside
  <1>4. w.lim <= backup_table_ba /\ backup_table_ba # 0
    BY <1>1, <1>2, AtReturn DEF AsideInv, IInv, Work, LoopAside, Working
  <1>5. backup_table_ba \in Blocks /\ HoldsMapping(backup_table_ba)
        /\ backup_table_ba < mapping_blocks_ba
    BY <1>1, <1>2, <1>4 DEF Relied, TablesApart
  <1>6. /\ UNCHANGED <<flash, marked, block_mapping, mapping_blocks_ba>>
        /\ caller' = caller
    BY DEF UpdateMain, RamStep, chip, tables, control
  <1>7. CASE w.ok
    <2>1. main_table_ba' = w.ba /\ backup_table_ba' = backup_table_ba /\ Leave(TRUE)
      BY <1>7 DEF UpdateMain
    <2>2. TablesApart'
      BY <1>3, <1>4, <1>5, <1>6, <1>7, <2>1 DEF TablesApart
    <2> QED
      BY <1>2, <1>5, <1>6, <1>7, <2>1, <2>2, LeavesTables
  <1>8. CASE ~w.ok
    <2>1. /\ main_table_ba' = backup_table_ba /\ backup_table_ba' = 0
          /\ RescueSingle(backup_table_ba, block_state, changed)
      BY <1>8 DEF UpdateMain
    <2>2. TablesApart'
      BY <1>5, <1>6, <2>1 DEF TablesApart
    <2>3. Begins("table", "front", MgmtStart, backup_table_ba)
      BY <1>3, <2>1, RescueBegins
    <2>4. Relied' \subseteq {backup_table_ba}
      BY <2>1, <2>3 DEF Relied, Begins, Runs
    <2>5. Spares(MgmtStart, backup_table_ba)
      BY <1>3, <1>5, <2>4 DEF Spares
    <2> QED
      BY <1>2, <1>3, <1>6, <2>1, <2>2, <2>3, <2>5, EntersTables
  <1> QED
    BY <1>7, <1>8

LEMMA UpdateBackupTables == CurrentInv /\ UpdateBackup => Current'
  <1> SUFFICES ASSUME CurrentInv, UpdateBackup PROVE Current'
    OBVIOUS
  <1> USE DEF TableSteps, RangeSteps, Continuations
  <1>1. pc = "ret" /\ w.then = "update_backup"
    BY DEF UpdateBackup, Returned
  <1>2. /\ AsideInv /\ w \in Jobs /\ TablesApart /\ caller = "load"
        /\ w.ok => HoldsMapping(w.ba) /\ w.ba \in Blocks
        /\ \A b \in Relied : b \in Blocks /\ HoldsMapping(b) /\ b \in Nat
    BY <1>1, AtReturnTables
  <1>3. /\ mapping_blocks_ba \in Nat /\ backup_table_ba \in Nat /\ main_table_ba \in Nat
        /\ w.from \in Nat
        /\ w.ok => w.ba \in Nat /\ w.from <= w.ba
    BY <1>1, <1>2, AtReturnAside
  <1>4. backup_table_ba <= w.from /\ backup_table_ba # 0
    BY <1>1, <1>2, AtReturn DEF AsideInv, IInv, Work, LoopAside, Working
  <1>5. HoldsMapping(main_table_ba) /\ main_table_ba < backup_table_ba
    BY <1>1, <1>2, <1>4 DEF Relied, TablesApart
  <1>6. /\ UNCHANGED <<flash, marked, block_mapping, main_table_ba>>
        /\ caller' = caller
    BY DEF UpdateBackup, RamStep, chip, tables, control
  <1>7. CASE w.ok
    <2>1. backup_table_ba' = w.ba /\ mapping_blocks_ba' = w.ba + 1 /\ Leave(TRUE)
      BY <1>7 DEF UpdateBackup
    <2>2. TablesApart'
      BY <1>3, <1>4, <1>5, <1>6, <1>7, <2>1 DEF TablesApart
    <2> QED
      BY <1>2, <1>5, <1>6, <1>7, <2>1, <2>2, LeavesTables
  <1>8. CASE ~w.ok
    <2>1. backup_table_ba' = 0 /\ mapping_blocks_ba' = backup_table_ba /\ Leave(FALSE)
      BY <1>8 DEF UpdateBackup
    <2>2. TablesApart'
      BY <1>5, <1>6, <2>1 DEF TablesApart
    <2> QED
      BY <1>2, <1>6, <2>1, <2>2, LeavesTables
  <1> QED
    BY <1>7, <1>8

LEMMA OnceBackupTables == CurrentInv /\ OnceBackup => Current'
  <1> SUFFICES ASSUME CurrentInv, OnceBackup PROVE Current'
    OBVIOUS
  <1> USE DEF TableSteps, RangeSteps, Continuations
  <1>1. pc = "ret" /\ w.then = "once_backup"
    BY DEF OnceBackup, Returned
  <1>2. /\ AsideInv /\ w \in Jobs /\ TablesApart
        /\ w.ok => HoldsMapping(w.ba) /\ w.ba \in Blocks
    BY <1>1, AtReturnTables
  <1>3. /\ backup_table_ba \in Nat /\ main_table_ba \in Nat
        /\ mapping_blocks_top_ba \in Nat /\ w.from \in Nat
        /\ w.ok => w.ba \in Nat /\ w.from <= w.ba
    BY <1>1, <1>2, AtReturnAside
  <1>4. backup_table_ba <= w.from /\ backup_table_ba # 0
    BY <1>1, <1>2, AtReturn DEF AsideInv, IInv, Work, LoopAside, Working
  <1>5. main_table_ba < backup_table_ba
    BY <1>2, <1>4 DEF TablesApart
  <1>6. UNCHANGED <<flash, marked, block_mapping>>
    BY DEF OnceBackup, RamStep, chip, tables
  <1>7. CASE w.ok /\ WriteMain(w.ba, w.ba, w.ba + 1, FALSE)
    <2>1. /\ main_table_ba' = main_table_ba /\ backup_table_ba' = w.ba
          /\ mapping_blocks_ba' = w.ba + 1
          /\ WriteTable(main_table_ba, w.ba, "once_main", FALSE)
      BY <1>7 DEF WriteMain
    <2>2. TablesApart'
      BY <1>3, <1>4, <1>5, <1>7, <2>1 DEF TablesApart
    <2>3. Begins("table", "once_main", main_table_ba, w.ba)
      BY <1>3, <1>7, <2>1, TableBegins
    <2>4. Relied' \subseteq {w.ba}
      BY <2>1, <2>3 DEF Relied, Begins, Runs
    <2>5. Spares(main_table_ba, w.ba)
      BY <1>2, <1>3, <1>7, <2>4 DEF Spares
    <2> QED
      BY <1>3, <1>6, <1>7, <2>2, <2>3, <2>5, EntersTables
  <1>8. CASE ~w.ok /\ WriteMain(mapping_blocks_top_ba, 0, backup_table_ba, changed)
    <2>1. /\ main_table_ba' = main_table_ba /\ backup_table_ba' = 0
          /\ mapping_blocks_ba' = backup_table_ba
          /\ WriteTable(main_table_ba, mapping_blocks_top_ba, "once_main", changed)
      BY <1>8 DEF WriteMain
    <2>2. TablesApart'
      BY <1>5, <2>1 DEF TablesApart
    <2>3. Begins("table", "once_main", main_table_ba, mapping_blocks_top_ba)
      BY <1>3, <2>1, TableBegins
    <2>4. Relied' = {}
      BY <2>1, <2>3 DEF Relied, Begins, Runs
    <2>5. Spares(main_table_ba, mapping_blocks_top_ba)
      BY <2>4 DEF Spares
    <2> QED
      BY <1>3, <1>6, <2>2, <2>3, <2>5, EntersTables
  <1> QED
    BY <1>7, <1>8 DEF OnceBackup

(* The only table left is the backup table.                                 *)
LEMMA TakeOverTables ==
  ASSUME CurrentInv, w \in Jobs, UNCHANGED <<flash, marked, block_mapping>>,
         TablesApart, backup_table_ba # 0, HoldsMapping(backup_table_ba), BackupTakesOver
  PROVE  Current'
  <1>1. /\ main_table_ba' = backup_table_ba /\ backup_table_ba' = 0
        /\ mapping_blocks_ba' = mapping_blocks_ba /\ Leave(TRUE)
    BY DEF BackupTakesOver
  <1>2. TablesApart'
    BY <1>1 DEF TablesApart
  <1> QED
    BY <1>1, <1>2, LeavesTables

(* A temporary table is written behind the backup table.                    *)
LEMMA TemporaryTables ==
  ASSUME UNCHANGED <<flash, marked, block_mapping, regions>>, TablesApart,
         backup_table_ba # 0, backup_table_ba \in Blocks, HoldsMapping(backup_table_ba),
         backup_table_ba \in Nat, mapping_blocks_ba \in Nat,
         mapping_blocks_top_ba \in Nat, NEW lo \in Nat, mapping_blocks_ba <= lo,
         NEW c, WriteTable(lo, mapping_blocks_top_ba, "temporary", c)
  PROVE  Current'
  <1>1. Begins("table", "temporary", lo, mapping_blocks_top_ba)
    BY TableBegins DEF Continuations
  <1>2. TablesApart' /\ backup_table_ba' = backup_table_ba
    BY DEF TablesApart, regions
  <1>3. Relied' \subseteq {backup_table_ba}
    BY <1>1, <1>2 DEF Relied, Begins, Runs
  <1>4. backup_table_ba < mapping_blocks_ba
    BY DEF TablesApart
  <1>5. Spares(lo, mapping_blocks_top_ba)
    BY <1>3, <1>4 DEF Spares
  <1> QED
    BY <1>1, <1>2, <1>5, EntersTables

LEMMA RescueTemporaryTables == CurrentInv /\ RescueTemporary => Current'
  <1> SUFFICES ASSUME CurrentInv, RescueTemporary PROVE Current'
    OBVIOUS
  <1> USE DEF TableSteps, RangeSteps, Continuations
  <1>1. pc = "ret" /\ w.then = "temporary"
    BY DEF RescueTemporary, Returned
  <1>2. /\ AsideInv /\ w \in Jobs /\ TablesApart
        /\ MgmtStart <= mapping_blocks_ba /\ 0 < MgmtStart
        /\ w.ok => HoldsMapping(w.ba) /\ w.ba \in Blocks
        /\ \A b \in Relied : b \in Blocks /\ HoldsMapping(b) /\ b \in Nat
    BY <1>1, AtReturnTables
  <1>3. /\ mapping_blocks_ba \in Nat /\ backup_table_ba \in Nat /\ main_table_ba \in Nat
        /\ MgmtStart \in Nat /\ mapping_blocks_top_ba \in Nat /\ w.from \in Nat
        /\ w.ok => w.ba \in Nat /\ w.from <= w.ba
    BY <1>1, <1>2, AtReturnAside
  <1>4. mapping_blocks_ba <= w.from /\ backup_table_ba # 0
    BY <1>1, <1>2, AtReturn DEF AsideInv, IInv, Work, LoopAside, Working
  <1>5. backup_table_ba \in Blocks /\ HoldsMapping(backup_table_ba)
    BY <1>1, <1>2 DEF Relied
  <1>6. UNCHANGED <<flash, marked, block_mapping>>
    BY DEF RescueTemporary, RamStep, chip, tables
  <1>7. CASE /\ w.ok /\ mapping_blocks_ba' = w.ba + 1
             /\ WriteTable(MgmtStart, w.ba, "new_main", changed)
             /\ UNCHANGED <<main_table_ba, backup_table_ba>>
    <2>1. TablesApart'
      BY <1>2, <1>3, <1>4, <1>7 DEF TablesApart
    <2>2. Begins("table", "new_main", MgmtStart, w.ba)
      BY <1>3, <1>7, TableBegins
    <2>3. Relied' \subseteq {w.ba}
      BY <2>2 DEF Relied, Begins, Runs
    <2>4. Spares(MgmtStart, w.ba)
      BY <1>2, <1>3, <1>7, <2>3 DEF Spares
    <2> QED
      BY <1>3, <1>6, <1>7, <2>1, <2>2, <2>4, EntersTables
  <1>8. CASE /\ w.from > mapping_blocks_ba /\ UNCHANGED regions
             /\ WriteTable(w.from - 1, mapping_blocks_top_ba, "temporary", changed)
    <2>1. w.from - 1 \in Nat /\ mapping_blocks_ba <= w.from - 1
      BY <1>3, <1>8
    <2> QED
      BY <1>2, <1>3, <1>4, <1>5, <1>6, <1>8, <2>1, TemporaryTables
  <1>9. CASE BackupTakesOver
    BY <1>2, <1>4, <1>5, <1>6, <1>9, TakeOverTables
  <1> QED
    BY <1>7, <1>8, <1>9 DEF RescueTemporary

LEMMA RescueNewMainTables == CurrentInv /\ RescueNewMain => Current'
  <1> SUFFICES ASSUME CurrentInv, RescueNewMain PROVE Current'
    OBVIOUS
  <1> USE DEF TableSteps, RangeSteps, Continuations
  <1>1. pc = "ret" /\ w.then = "new_main"
    BY DEF RescueNewMain, Returned
  <1>2. /\ AsideInv /\ w \in Jobs
        /\ w.ok => HoldsMapping(w.ba) /\ w.ba \in Blocks
        /\ \A b \in Relied : b \in Blocks /\ HoldsMapping(b) /\ b \in Nat
    BY <1>1, AtReturnTables
  <1>3. /\ mapping_blocks_ba \in Nat /\ w.lim \in Nat
        /\ w.ok => w.ba \in Nat /\ w.ba < w.lim
    BY <1>1, <1>2, AtReturnAside
  <1>4. w.lim < mapping_blocks_ba
    BY <1>1, <1>2, AtReturn DEF AsideInv, IInv, Work, Confined, LoopAside, Working
  <1>5. HoldsMapping(w.lim)
    BY <1>1, <1>2 DEF Relied
  <1>6. /\ UNCHANGED <<flash, marked, block_mapping, mapping_blocks_ba>> /\ Leave(TRUE)
        /\ main_table_ba' = IF w.ok THEN w.ba ELSE w.lim
        /\ backup_table_ba' = IF w.ok THEN w.lim ELSE 0
    BY DEF RescueNewMain, RamStep, chip, tables
  <1>7. TablesApart'
    BY <1>3, <1>4, <1>6 DEF TablesApart
  <1> QED
    BY <1>2, <1>5, <1>6, <1>7, LeavesTables

LEMMA OnceMainTables == CurrentInv /\ OnceMain => Current'
  <1> SUFFICES ASSUME CurrentInv, OnceMain PROVE Current'
    OBVIOUS
  <1> USE DEF TableSteps, RangeSteps, Continuations
  <1>1. pc = "ret" /\ w.then = "once_main"
    BY DEF OnceMain, Returned
  <1>2. /\ AsideInv /\ w \in Jobs /\ TablesApart
        /\ w.ok => HoldsMapping(w.ba) /\ w.ba \in Blocks
        /\ \A b \in Relied : b \in Blocks /\ HoldsMapping(b) /\ b \in Nat
    BY <1>1, AtReturnTables
  <1>3. /\ mapping_blocks_ba \in Nat /\ backup_table_ba \in Nat /\ main_table_ba \in Nat
        /\ MgmtStart \in Nat /\ mapping_blocks_top_ba \in Nat /\ w.lim \in Nat
        /\ w.ok => w.ba \in Nat /\ w.ba < w.lim
    BY <1>1, <1>2, AtReturnAside
  <1>4. backup_table_ba = 0 \/ w.lim <= backup_table_ba
    BY <1>1, <1>2, AtReturn DEF AsideInv, LoopAside, Working
  <1>5. backup_table_ba # 0 =>
          backup_table_ba \in Blocks /\ HoldsMapping(backup_table_ba)
    BY <1>1, <1>2 DEF Relied
  <1>6. UNCHANGED <<flash, marked, block_mapping>>
    BY DEF OnceMain, RamStep, chip, tables
  <1>7. CASE w.ok
    <2>1. /\ main_table_ba' = w.ba /\ backup_table_ba' = backup_table_ba /\ Leave(TRUE)
          /\ mapping_blocks_ba' = IF backup_table_ba = 0 THEN w.ba + 1
                                                         ELSE mapping_blocks_ba
      BY <1>7 DEF OnceMain
    <2>2. TablesApart'
      BY <1>2, <1>3, <1>4, <1>7, <2>1 DEF TablesApart
    <2> QED
      BY <1>2, <1>5, <1>6, <1>7, <2>1, <2>2, LeavesTables
  <1>8. CASE Rebuild(changed)
    <2>1. /\ main_table_ba' = 0 /\ backup_table_ba' = 0
          /\ WriteTable(MgmtStart, mapping_blocks_top_ba, "rebuild_main", changed)
      BY <1>8 DEF Rebuild
    <2>2. TablesApart'
      BY <2>1 DEF TablesApart
    <2>3. Begins("table", "rebuild_main", MgmtStart, mapping_blocks_top_ba)
      BY <1>3, <2>1, TableBegins
    <2>4. Spares(MgmtStart, mapping_blocks_top_ba)
      BY <2>3 DEF Spares, Relied, Begins, Runs
    <2> QED
      BY <1>3, <1>6, <2>2, <2>3, <2>4, EntersTables
  <1>9. CASE backup_table_ba # 0 /\ RescueMain
    <2>1. CASE BackupTakesOver
      BY <1>2, <1>5, <1>6, <1>9, <2>1, TakeOverTables
    <2>2. CASE \E wba \in Reserve(mapping_blocks_ba, mapping_blocks_top_ba - 1) :
                 /\ WriteTable(wba, mapping_blocks_top_ba, "temporary", changed)
                 /\ UNCHANGED regions
      <3>1. PICK wba \in Reserve(mapping_blocks_ba, mapping_blocks_top_ba - 1) :
                 /\ WriteTable(wba, mapping_blocks_top_ba, "temporary", changed)
                 /\ UNCHANGED regions
        BY <2>2
      <3>2. wba \in Nat /\ mapping_blocks_ba <= wba
        BY <1>3, ReserveRange DEF Blocks
      <3> QED
        BY <1>2, <1>3, <1>5, <1>6, <1>9, <3>1, <3>2, TemporaryTables
    <2> QED
      BY <1>9, <2>1, <2>2 DEF RescueMain
  <1> QED
    BY <1>7, <1>8, <1>9 DEF OnceMain

(* A new round: nothing on record is relied on yet.                         *)
LEMMA UpdateOnceTables == CurrentInv /\ UpdateOnce => Current'
  <1> SUFFICES ASSUME CurrentInv, UpdateOnce PROVE Current'
    OBVIOUS
  <1> USE DEF Continuations
  <1>1. UNCHANGED <<flash, marked, block_mapping>>
    BY DEF UpdateOnce, RamStep, chip
  <1>2. /\ main_table_ba \in Nat /\ backup_table_ba \in Nat
        /\ mapping_blocks_top_ba \in Nat /\ TablesApart
    BY AsideTypes DEF CurrentInv, AsideInv
  <1>3. CASE /\ WriteTable(backup_table_ba, mapping_blocks_top_ba, "once_backup", changed)
             /\ UNCHANGED regions
    <2>1. Begins("table", "once_backup", backup_table_ba, mapping_blocks_top_ba)
      BY <1>2, <1>3, TableBegins
    <2>2. TablesApart'
      BY <1>2, <1>3 DEF TablesApart, regions
    <2>3. Spares(backup_table_ba, mapping_blocks_top_ba)
      BY <2>1 DEF Spares, Relied, Begins, Runs
    <2> QED
      BY <1>1, <1>2, <2>1, <2>2, <2>3, EntersTables
  <1>4. CASE /\ backup_table_ba = 0
             /\ WriteMain(mapping_blocks_top_ba, 0, mapping_blocks_ba, changed)
    <2>1. /\ main_table_ba' = main_table_ba /\ backup_table_ba' = 0
          /\ mapping_blocks_ba' = mapping_blocks_ba
          /\ WriteTable(main_table_ba, mapping_blocks_top_ba, "once_main", changed)
      BY <1>4 DEF WriteMain
    <2>2. TablesApart'
      BY <1>2, <2>1 DEF TablesApart
    <2>3. Begins("table", "once_main", main_table_ba, mapping_blocks_top_ba)
      BY <1>2, <2>1, TableBegins
    <2>4. Spares(main_table_ba, mapping_blocks_top_ba)
      BY <2>1, <2>3 DEF Spares, Relied, Begins, Runs
    <2> QED
      BY <1>1, <1>2, <2>2, <2>3, <2>4, EntersTables
  <1> QED
    BY <1>3, <1>4 DEF UpdateOnce

LEMMA CreateTablesTables == CurrentInv /\ CreateTables => Current'
  <1> SUFFICES ASSUME CurrentInv, CreateTables PROVE Current'
    OBVIOUS
  <1>1. UNCHANGED <<flash, marked, block_mapping>> /\ signature_ba \in Blocks
    BY DEF CreateTables, RamStep, chip, CurrentInv, AsideInv, IInv, TypeOK
  <1>2. CASE pc' = "failed" /\ UNCHANGED regions
    <2>1. TablesApart'
      BY <1>2 DEF CurrentInv, TablesApart, regions
    <2> QED
      BY <1>2, <2>1 DEF Current, OpAside, RestTables, Rests, LoopTables, Working,
                        LeaveTables
  <1>3. ASSUME NEW t \in PoolTop, main_table_ba' = 0, backup_table_ba' = 0,
               WriteTable(MgmtStart, t, "rebuild_main", changed)
        PROVE  Current'
    <2>1. t \in Nat /\ MgmtStart \in Nat /\ "rebuild_main" \in Continuations
      BY <1>1, PoolTopRange, ChipAssumption DEF Blocks, Continuations
    <2>2. Begins("table", "rebuild_main", MgmtStart, t)
      BY <1>3, <2>1, TableBegins
    <2>3. TablesApart'
      BY <1>3 DEF TablesApart
    <2>4. Spares(MgmtStart, t)
      BY <2>2 DEF Spares, Relied, Begins, Runs
    <2> QED
      BY <1>1, <2>1, <2>2, <2>3, <2>4, EntersTables
  <1> QED
    BY <1>2, <1>3 DEF CreateTables

---------------------------------------------------------------------------------
(* The loop goes on: it changes no table that it relies on.                 *)

LEMMA LoopKeepsTables ==
  ASSUME CurrentInv, pc \in {"erase", "prog", "mark"}, UNCHANGED Frame,
         pc' \in {"erase", "prog", "mark", "ret"},
         w'.mode = w.mode, w'.then = w.then, w'.from = w.from, w'.lim = w.lim,
         \A b \in Blocks \ {w.ba} : flash'[b] = flash[b],
         marked' \subseteq marked \cup {w.ba},
         w.mode # "sig" =>
           /\ pc' \in {"erase", "prog"} => w'.ba \notin marked'
           /\ pc' = "ret" /\ w'.ok /\ w.mode = "table" => HeldAfter(w'.ba)
  PROVE  Current'
  <1>1. /\ UNCHANGED <<regions, main_table_ba, backup_table_ba, block_mapping>>
        /\ caller' = caller
    BY DEF Frame, tables, regions, control
  <1>2. TablesApart'
    BY <1>1 DEF CurrentInv, TablesApart, regions
  <1>3. LoopTables'
    <2>1. CASE w.mode = "sig"
      BY <2>1 DEF LoopTables
    <2>2. CASE w.mode # "sig"
      <3>1. /\ \A b \in Relied : b \in Blocks /\ HoldsMapping(b)
                                 /\ b \notin w.from .. w.lim - 1
            /\ w.then \in {"front", "behind", "behind_cleaned", "update_main",
                           "update_backup"} => caller = "load"
            /\ w.then \in {"rebuild_backup", "front", "behind"} => backup_table_ba = 0
        BY <2>2 DEF CurrentInv, LoopTables, Working
      <3>2. w.ba \in w.from .. w.lim - 1
        <4>1. w \in Jobs /\ w.ba \in Ahead(w) /\ w.from <= w.ba
          BY <2>2 DEF CurrentInv, AsideInv, IInv, TypeOK, LoopAside, Working
        <4> QED
          BY <2>2, <4>1 DEF Ahead, Jobs
      <3>3. Relied' = Relied
        BY <1>1 DEF Relied
      <3>4. ASSUME NEW b \in Relied PROVE HeldAfter(b)
        <4>1. b \in Blocks \ {w.ba} /\ HoldsMapping(b)
          BY <3>1, <3>2
        <4> QED
          BY <1>1, <4>1 DEF HoldsMapping, HeldAfter
      <3> QED
        BY <1>1, <2>2, <3>1, <3>3, <3>4, LoopTablesAfter
    <2> QED
      BY <2>1, <2>2
  <1> QED
    BY <1>2, <1>3 DEF Current, OpAside, RestTables, Rests, LeaveTables

(* The next block of a loop.                                                *)
LEMMA NextKeepsTables ==
  ASSUME CurrentInv, pc \in {"erase", "mark"}, UNCHANGED Frame,
         \A b \in Blocks \ {w.ba} : flash'[b] = flash[b],
         marked' \subseteq marked \cup {w.ba},
         NEW s \in States, NEW c \in BOOLEAN, Seek(NextBlock(w), s, c)
  PROVE  Current'
  <1> DEFINE job == NextBlock(w)
  <1>1. w \in Jobs /\ w.ba \in Int
    BY AsideTypes DEF CurrentInv, AsideInv, Jobs
  <1>2. /\ job \in Jobs /\ job.mode = w.mode /\ job.then = w.then
        /\ job.from = w.from /\ job.lim = w.lim
        /\ w.mode # "sig" => job.ba = w.ba + 1
    BY <1>1 DEF NextBlock, Jobs
  <1>3. Seek(job, s, c)
    OBVIOUS
  <1>4. /\ pc' = "erase" => w'.ba \notin marked /\ w'.ba \in Ahead(job)
        /\ pc' = "ret" /\ w'.ok => job.mode = "range"
    <2> HIDE DEF job
    <2> QED
      BY <1>2, <1>3, SeekBegins
  <1>5. /\ w'.mode = w.mode /\ w'.then = w.then /\ w'.from = w.from /\ w'.lim = w.lim
        /\ pc' \in {"erase", "ret"}
    <2>1. \/ \E b : w' = [job EXCEPT !.ba = b] /\ pc' = "erase"
          \/ \E ok : w' = [job EXCEPT !.ok = ok] /\ pc' = "ret"
      BY <1>3 DEF Seek
    <2> HIDE DEF job
    <2> QED
      BY <1>2, <2>1 DEF Jobs
  <1>6. w.mode # "sig" /\ pc' = "erase" => w'.ba \notin marked'
    <2>1. w.mode # "sig" => w.ba \notin Ahead(job)
      BY <1>1, <1>2 DEF Ahead, Jobs
    <2> QED
      BY <1>4, <2>1
  <1> HIDE DEF job
  <1> QED
    BY <1>2, <1>4, <1>5, <1>6, LoopKeepsTables

LEMMA EraseOkTables == CurrentInv /\ EraseOk => Current'
  <1> SUFFICES ASSUME CurrentInv, EraseOk PROVE Current'
    OBVIOUS
  <1>1. /\ pc = "erase" /\ UNCHANGED Frame /\ w \in Jobs
        /\ block_state \in States /\ changed \in BOOLEAN
        /\ flash \in [Blocks -> Contents]
        /\ flash' = [flash EXCEPT ![w.ba] = Blank] /\ UNCHANGED marked
    BY DEF CurrentInv, AsideInv, IInv, TypeOK, EraseOk, Frame, States
  <1>2. \A b \in Blocks \ {w.ba} : flash'[b] = flash[b]
    BY <1>1
  <1>3. CASE Seek(NextBlock(w), block_state, changed)
    BY <1>1, <1>2, <1>3, NextKeepsTables
  <1>4. CASE pc' = "prog" /\ UNCHANGED w
    <2>1. w.mode # "sig" => w.ba \notin marked
      BY <1>1 DEF CurrentInv, LoopTables, Working
    <2> QED
      BY <1>1, <1>2, <1>4, <2>1, LoopKeepsTables
  <1> QED
    BY <1>3, <1>4 DEF EraseOk

LEMMA LoopFailTables == CurrentInv /\ (EraseFail \/ ProgramFail) => Current'
  <1> SUFFICES ASSUME CurrentInv, EraseFail \/ ProgramFail PROVE Current'
    OBVIOUS
  <1>1. /\ pc \in {"erase", "prog"} /\ UNCHANGED Frame /\ UNCHANGED <<w, marked>>
        /\ pc' = "mark" /\ flash \in [Blocks -> Contents]
        /\ flash' = flash \/ flash' = [flash EXCEPT ![w.ba] = Junk]
    BY DEF CurrentInv, AsideInv, IInv, TypeOK, EraseFail, ProgramFail, Frame
  <1>2. \A b \in Blocks \ {w.ba} : flash'[b] = flash[b]
    BY <1>1
  <1> QED
    BY <1>1, <1>2, LoopKeepsTables

LEMMA MarkBlockTables == CurrentInv /\ MarkBlock => Current'
  <1> SUFFICES ASSUME CurrentInv, MarkBlock PROVE Current'
    OBVIOUS
  <1>1. /\ pc = "mark" /\ UNCHANGED Frame /\ UNCHANGED flash /\ block_state \in States
        /\ marked' \subseteq marked \cup {w.ba}
        /\ Seek(NextBlock(w), SetBad(block_state, w.ba), TRUE)
    BY DEF CurrentInv, AsideInv, IInv, TypeOK, MarkBlock, MarkPhys, Frame, States
  <1>2. SetBad(block_state, w.ba) \in States
    BY <1>1 DEF SetBad, States, BlockStates
  <1> QED
    BY <1>1, <1>2, NextKeepsTables

(* The table that was written holds the mapping in force.                   *)
LEMMA ProgramOkTables == CurrentInv /\ ProgramOk => Current'
  <1> SUFFICES ASSUME CurrentInv, ProgramOk PROVE Current'
    OBVIOUS
  <1>1. /\ pc = "prog" /\ UNCHANGED Frame /\ w \in Jobs /\ w.ba \in Blocks
        /\ w' = [w EXCEPT !.ok = TRUE] /\ pc' = "ret" /\ UNCHANGED marked
        /\ flash \in [Blocks -> Contents]
    BY DEF CurrentInv, AsideInv, IInv, TypeOK, ProgramOk, Frame
  <1>2. /\ w'.mode = w.mode /\ w'.then = w.then /\ w'.from = w.from
        /\ w'.lim = w.lim /\ w'.ba = w.ba
    BY <1>1 DEF Jobs
  <1>3. \A b \in Blocks \ {w.ba} : flash'[b] = flash[b]
    BY <1>1 DEF ProgramOk
  <1>4. w.mode = "table" => HeldAfter(w.ba)
    <2>1. SUFFICES ASSUME w.mode = "table" PROVE HeldAfter(w.ba)
      OBVIOUS
    <2>2. info_table_cache.mapping = block_mapping
      BY <1>1, <2>1 DEF CurrentInv, AsideInv, LoopAside, Working
    <2>3. w.ba \notin marked
      BY <1>1, <2>1 DEF CurrentInv, LoopTables, Working
    <2>4. info_table_cache \in Tables
      BY DEF CurrentInv, AsideInv, IInv, TypeOK
    <2>5. flash' = [flash EXCEPT ![w.ba] = info_table_cache]
      BY <2>1 DEF ProgramOk
    <2>6. flash'[w.ba] = info_table_cache /\ UNCHANGED block_mapping
      BY <1>1, <2>5 DEF Frame, tables
    <2> QED
      BY <1>1, <2>2, <2>3, <2>4, <2>6 DEF HeldAfter, Tables
  <1> QED
    BY <1>1, <1>2, <1>3, <1>4, LoopKeepsTables

---------------------------------------------------------------------------------
(* Steps in which no loop runs.                                             *)

LEMMA RestsCurrent ==
  ASSUME TablesApart', OpAside', RestTables',
         pc' \notin {"erase", "prog", "mark", "ret", "leave"}
  PROVE  Current'
  BY DEF Current, LoopTables, Working, LeaveTables

LEMMA ApartKept ==
  ASSUME CurrentInv, UNCHANGED regions
  PROVE  TablesApart'
  BY DEF CurrentInv, TablesApart, regions

(* The tables hold as long as they are left alone.                          *)
LEMMA HoldStill ==
  ASSUME UNCHANGED <<flash, marked, regions>>, TablesHold,
         \A lb \in LogicBlocks : block_mapping'[lb] \in {Unmapped, block_mapping[lb]}
  PROVE  TablesHold'
  <1>1. main_table_ba' = main_table_ba /\ backup_table_ba' = backup_table_ba
    BY DEF regions
  <1>2. ASSUME NEW b, HoldsMapping(b) PROVE HeldAfter(b)
    BY <1>2, HeldKept DEF HoldsMapping
  <1> QED
    BY <1>1, <1>2, TablesHoldAfter DEF TablesHold

(* A step that goes on in RAM, in no call that works on a block.            *)
LEMMA CalmTables ==
  ASSUME CurrentInv, UNCHANGED <<flash, marked, block_mapping, regions>>,
         pc' \notin {"erase", "prog", "mark", "ret", "leave"},
         pc' \notin {"user_erase", "user_mark", "user_prog", "unmap"},
         pc' \in Rests => protected' \/ TablesHold
  PROVE  Current'
  <1>1. TablesHold => TablesHold'
    BY HoldStill
  <1>2. TablesApart' /\ OpAside' /\ RestTables'
    BY <1>1, ApartKept DEF OpAside, RestTables
  <1> QED
    BY <1>2, RestsCurrent

LEMMA LeaveLoadTables == CurrentInv /\ LeaveLoad => Current'
  <1> SUFFICES ASSUME CurrentInv, LeaveLoad PROVE Current'
    OBVIOUS
  <1>1. /\ UNCHANGED <<flash, marked, block_mapping, regions>> /\ pc' = "idle"
    BY DEF LeaveLoad, RamStep, chip, tables, Ready
  <1>2. protected' \/ TablesHold
    BY DEF LeaveLoad, CurrentInv, LeaveTables
  <1> QED
    BY <1>1, <1>2, CalmTables

LEMMA UpdateOverTables == CurrentInv /\ UpdateOver => Current'
  <1> SUFFICES ASSUME CurrentInv, UpdateOver PROVE Current'
    OBVIOUS
  <1>1. /\ pc = "update" /\ Return(TRUE) /\ UNCHANGED protected /\ (protected \/ ~changed)
        /\ UNCHANGED <<flash, marked, block_mapping, regions>>
    BY DEF UpdateOver, RamStep, chip, tables
  <1>2. ret \in Returns
    BY DEF CurrentInv, AsideInv, IInv, TypeOK
  <1>3. pc' \notin {"erase", "prog", "mark", "ret", "leave"}
        /\ pc' \notin {"user_erase", "user_mark", "user_prog", "unmap"}
    BY <1>1, <1>2 DEF Return, Returns
  <1>4. protected \/ TablesHold
    BY <1>1 DEF CurrentInv, RestTables, Rests
  <1> QED
    BY <1>1, <1>3, <1>4, CalmTables

LEMMA LeaveUpdateTables == CurrentInv /\ (LeaveUpdate \/ LeaveCreate) => Current'
  <1> SUFFICES ASSUME CurrentInv, LeaveUpdate \/ LeaveCreate PROVE Current'
    OBVIOUS
  <1>1. /\ pc = "leave" /\ UNCHANGED protected
        /\ UNCHANGED <<flash, marked, block_mapping, regions>>
    BY DEF LeaveUpdate, LeaveCreate, RamStep, chip, tables
  <1>2. ret \in Returns
    BY DEF CurrentInv, AsideInv, IInv, TypeOK
  <1>3. pc' \notin {"erase", "prog", "mark", "ret", "leave"}
        /\ pc' \notin {"user_erase", "user_mark", "user_prog", "unmap"}
    BY <1>2 DEF LeaveUpdate, LeaveCreate, Return, Returns
  <1>4. IF w.ok THEN TablesHold ELSE protected \/ caller # "update"
    BY <1>1 DEF CurrentInv, LeaveTables
  <1>5. pc' \in Rests => protected' \/ TablesHold
    BY <1>1, <1>4 DEF LeaveUpdate, LeaveCreate, Rests
  <1> QED
    BY <1>1, <1>3, <1>5, CalmTables

LEMMA CreatedTables == CurrentInv /\ (Created \/ AttachFails \/ SigWritten) => Current'
  <1> SUFFICES ASSUME CurrentInv, Created \/ AttachFails \/ SigWritten PROVE Current'
    OBVIOUS
  <1>1. UNCHANGED <<flash, marked, block_mapping, regions, protected>>
    BY DEF Created, AttachFails, StartAttach, SigWritten, RamStep, chip, tables
  <1>2. CASE pc = "created" /\ pc' \in {"idle", "failed"}
    <2>1. protected \/ TablesHold
      BY <1>2 DEF CurrentInv, RestTables, Rests
    <2> QED
      BY <1>1, <1>2, <2>1, CalmTables
  <1>3. CASE pc' \in {"create", "failed"}
    BY <1>1, <1>3, CalmTables DEF Rests
  <1> QED
    BY <1>2, <1>3 DEF Created, Ready, AttachFails, SigWritten

LEMMA MapFailedTables == CurrentInv /\ (MapFailed \/ Unmap) => Current'
  <1> SUFFICES ASSUME CurrentInv, MapFailed \/ Unmap PROVE Current'
    OBVIOUS
  <1>1. /\ pc \in {"map_failed", "unmap"} /\ pc' \in {"update", "user_mark"}
        /\ pc' = "user_mark" => pc = "unmap"
        /\ UNCHANGED <<flash, marked, regions, protected, op, mapping_blocks_top_ba>>
        /\ block_mapping' = [block_mapping EXCEPT ![op.lb] = Unmapped]
    BY DEF MapFailed, Unmap, Update, RamStep, chip, control
  <1>2. block_mapping \in Mappings
    BY AsideTypes DEF CurrentInv, AsideInv
  <1>3. \A lb \in LogicBlocks : block_mapping'[lb] \in {Unmapped, block_mapping[lb]}
    BY <1>1, <1>2 DEF Mappings
  <1>4. protected \/ TablesHold
    BY <1>1 DEF CurrentInv, RestTables, Rests
  <1>5. RestTables'
    BY <1>1, <1>3, <1>4, HoldStill DEF RestTables
  <1>6. OpAside'
    BY <1>1 DEF CurrentInv, OpAside
  <1> QED
    BY <1>1, <1>5, <1>6, ApartKept, RestsCurrent

LEMMA PoolClosedTables == CurrentInv /\ PoolClosed => Current'
  <1> SUFFICES ASSUME CurrentInv, PoolClosed PROVE Current'
    OBVIOUS
  <1>1. /\ pc = "pool_closed" /\ pc' \in {"map_failed", "update"}
        /\ UNCHANGED <<flash, marked, block_mapping, regions, protected>>
    BY DEF PoolClosed, Update, RamStep, chip
  <1>2. protected \/ TablesHold
    BY <1>1 DEF CurrentInv, RestTables, Rests
  <1> QED
    BY <1>1, <1>2, CalmTables

(* A remap leaves the tables out of date, and is followed by an update.     *)
LEMMA MapTables == CurrentInv /\ (MapForErase \/ RemapTail) => Current'
  <1> SUFFICES ASSUME CurrentInv, MapForErase \/ RemapTail PROVE Current'
    OBVIOUS
  <1>1. /\ pc \in {"map", "remap"} /\ UNCHANGED <<flash, marked, regions, protected>>
        /\ pc' \in {"map_failed", "update", "remap"}
    BY DEF MapForErase, RemapTail, PoolUsedUp, Update, RamStep, chip
  <1>2. OpAside' /\ TablesApart'
    BY <1>1, ApartKept DEF OpAside
  <1>3. CASE changed' = TRUE /\ pc' \in {"update", "remap"}
    <2>1. RestTables'
      BY <1>3 DEF RestTables
    <2> QED
      BY <1>1, <1>2, <2>1, RestsCurrent
  <1>4. CASE UNCHANGED <<block_mapping, changed>> /\ (pc' = "map_failed" => pc = "map")
    <2>1. TablesHold => TablesHold'
      BY <1>1, <1>4, HoldStill
    <2>2. protected \/ TablesHold \/ (changed /\ pc = "remap")
      BY <1>1 DEF CurrentInv, RestTables, Rests
    <2>3. RestTables'
      BY <1>1, <1>4, <2>1, <2>2 DEF RestTables
    <2> QED
      BY <1>1, <1>2, <2>3, RestsCurrent
  <1>5. CASE MapForErase
    BY <1>3, <1>4, <1>5 DEF MapForErase, Map, PoolUsedUp, Update, tables
  <1>6. CASE RemapTail
    BY <1>3, <1>4, <1>6 DEF RemapTail, Map, PoolUsedUp, Update, tables
  <1> QED
    BY <1>5, <1>6

---------------------------------------------------------------------------------
(* The user's calls: the block of a call holds no table on record.          *)

(* A block that a logical block is mapped to is not one of the tables'.     *)
LEMMA MappedNotTable ==
  ASSUME CurrentInv, NEW lb \in LogicBlocks
  PROVE  block_mapping[lb] \notin MgmtStart .. mapping_blocks_top_ba
  BY DEF CurrentInv, AsideInv, MappedAside, ClearTo

LEMMA EraseRetryTables == CurrentInv /\ EraseRetry => Current'
  <1> SUFFICES ASSUME CurrentInv, EraseRetry PROVE Current'
    OBVIOUS
  <1>1. /\ pc = "retry" /\ pc' \in {"map", "user_erase"}
        /\ UNCHANGED <<flash, marked, block_mapping, regions, protected>>
        /\ mapping_blocks_top_ba' = mapping_blocks_top_ba
        /\ op' = [op EXCEPT !.pb = block_mapping[op.lb]]
    BY DEF EraseRetry, RamStep, chip, tables
  <1>2. op.lb \in LogicBlocks /\ op'.pb = block_mapping[op.lb]
    BY <1>1 DEF CurrentInv, AsideInv, IInv, TypeOK
  <1>3. OpAside'
    BY <1>1, <1>2, MappedNotTable DEF OpAside
  <1>4. protected \/ TablesHold
    BY <1>1 DEF CurrentInv, RestTables, Rests
  <1>5. RestTables'
    BY <1>1, <1>4, HoldStill DEF RestTables
  <1> QED
    BY <1>1, <1>3, <1>5, ApartKept, RestsCurrent

(* A call that starts on a device in use.                                   *)
LEMMA BeginTables ==
  ASSUME CurrentInv, NEW kind, NEW lb \in LogicBlocks, NEW val,
         NEW first \in {"retry", "user_prog", "unmap"}, Begin(kind, lb, val, first)
  PROVE  Current'
  <1>1. /\ pc = "idle" /\ pc' = first /\ op'.pb = block_mapping[lb]
        /\ UNCHANGED <<flash, marked, block_mapping, regions, protected>>
        /\ mapping_blocks_top_ba' = mapping_blocks_top_ba
    BY DEF Begin, CanCall, chip, tables
  <1>2. OpAside'
    BY <1>1, MappedNotTable DEF OpAside
  <1>3. protected \/ TablesHold
    BY <1>1 DEF CurrentInv, RestTables, Rests
  <1>4. RestTables'
    BY <1>1, <1>3, HoldStill DEF RestTables
  <1> QED
    BY <1>1, <1>2, <1>4, ApartKept, RestsCurrent

LEMMA UserTables == CurrentInv /\ User => Current'
  <1> SUFFICES ASSUME CurrentInv, User PROVE Current'
    OBVIOUS
  <1>1. ASSUME pc = "idle", pc' \in {"idle", "update"},
               UNCHANGED <<flash, marked, block_mapping, regions, protected>>
        PROVE  Current'
    <2>1. protected \/ TablesHold
      BY <1>1 DEF CurrentInv, RestTables, Rests
    <2> QED
      BY <1>1, <2>1, CalmTables
  <1>2. ASSUME NEW kind, NEW lb, Refuse(kind, lb) PROVE Current'
    BY <1>1, <1>2 DEF Refuse, CanCall, chip, tables
  <1>3. ASSUME NEW lb, Read(lb) PROVE Current'
    BY <1>1, <1>3 DEF Read, CanCall, chip, tables
  <1>4. CASE Detach
    BY <1>1, <1>4 DEF Detach, CanCall, Update, chip, tables
  <1> QED
    BY <1>2, <1>3, <1>4, BeginTables DEF User, BeginErase, BeginWrite, BeginMarkBad

(* The block a call works on is not one of the tables'.                     *)
LEMMA UserSpares ==
  ASSUME CurrentInv, pc \in {"user_erase", "user_mark", "user_prog"}, ~protected
  PROVE  /\ TablesHold /\ main_table_ba \in Blocks \ {op.pb}
         /\ backup_table_ba # 0 => backup_table_ba \in Blocks \ {op.pb}
  <1>1. TablesHold
    BY DEF CurrentInv, RestTables, Rests
  <1>2. /\ main_table_ba \in Nat /\ backup_table_ba \in Nat
        /\ mapping_blocks_ba \in Nat /\ mapping_blocks_top_ba \in Nat
        /\ MgmtStart \in Nat /\ signature_ba \in Blocks
    BY AsideTypes DEF CurrentInv, AsideInv, IInv, TypeOK
  <1>3. InOrder
    BY DEF CurrentInv, AsideInv, RegionsInOrder, Doomed, InOrder
  <1>4. main_table_ba # 0 /\ signature_ba # 0
    BY Known DEF CurrentInv, AsideInv
  <1>5. InArea(main_table_ba) /\ (backup_table_ba # 0 => InArea(backup_table_ba))
    BY <1>4 DEF CurrentInv, AsideInv, IInv, Area
  <1>6. op.pb \notin MgmtStart .. mapping_blocks_top_ba
    BY DEF CurrentInv, OpAside
  <1>7. /\ main_table_ba \in Blocks \ {op.pb}
        /\ backup_table_ba # 0 => backup_table_ba \in Blocks \ {op.pb}
    BY <1>2, <1>3, <1>5, <1>6, ChipAssumption DEF InArea, InOrder, Blocks
  <1> QED
    BY <1>1, <1>7

(* The user's operation on the flash, and the bad mark after it.            *)
LEMMA UserWorkTables ==
  ASSUME CurrentInv, pc \in {"user_erase", "user_mark", "user_prog"},
         UNCHANGED <<block_mapping, mapping_blocks_top_ba, regions, protected>>,
         \A b \in Blocks \ {op.pb} : flash'[b] = flash[b],
         marked' \subseteq marked \cup {op.pb},
         pc' \in {"idle", "user_mark", "update", "map"},
         pc' = "user_mark" => op' = op
  PROVE  Current'
  <1>1. main_table_ba' = main_table_ba /\ backup_table_ba' = backup_table_ba
    BY DEF regions
  <1>2. op.pb \notin MgmtStart .. mapping_blocks_top_ba
    BY DEF CurrentInv, OpAside
  <1>3. OpAside'
    BY <1>2 DEF OpAside
  <1>4. CASE protected
    BY <1>3, <1>4, ApartKept, RestsCurrent DEF RestTables
  <1>5. CASE ~protected
    <2>1. /\ TablesHold /\ main_table_ba \in Blocks \ {op.pb}
          /\ backup_table_ba # 0 => backup_table_ba \in Blocks \ {op.pb}
      BY <1>5, UserSpares
    <2>2. HeldAfter(main_table_ba)
      BY <2>1 DEF TablesHold, HoldsMapping, HeldAfter
    <2>3. backup_table_ba # 0 => HeldAfter(backup_table_ba)
      BY <2>1 DEF TablesHold, HoldsMapping, HeldAfter
    <2>4. TablesHold'
      BY <1>1, <2>2, <2>3, TablesHoldAfter
    <2> QED
      BY <1>3, <2>4, ApartKept, RestsCurrent DEF RestTables
  <1> QED
    BY <1>4, <1>5

LEMMA UserFlashTables ==
  CurrentInv /\ (UserEraseOk \/ UserEraseFail \/ UserProgramOk \/ UserProgramFail) => Current'
  <1> SUFFICES ASSUME CurrentInv,
                      UserEraseOk \/ UserEraseFail \/ UserProgramOk \/ UserProgramFail
               PROVE  Current'
    OBVIOUS
  <1>1. /\ pc \in {"user_erase", "user_prog"} /\ UNCHANGED marked
        /\ UNCHANGED <<block_mapping, mapping_blocks_top_ba, regions, protected>>
    BY DEF UserEraseOk, UserEraseFail, UserProgramOk, UserProgramFail, tables
  <1>2. pc' \in {"idle", "user_mark", "update"} /\ (pc' = "user_mark" => op' = op)
    BY DEF UserEraseOk, UserEraseFail, UserProgramOk, UserProgramFail, Finish, Update,
           control
  <1>3. flash \in [Blocks -> Contents]
    BY AsideTypes DEF CurrentInv, AsideInv
  <1>4. \A b \in Blocks \ {op.pb} : flash'[b] = flash[b]
    <2>1. CASE UNCHANGED flash
      BY <2>1
    <2>2. CASE \E c : flash' = [flash EXCEPT ![op.pb] = c]
      BY <1>3, <2>2
    <2> QED
      BY <2>1, <2>2 DEF UserEraseOk, UserEraseFail, UserProgramOk, UserProgramFail
  <1> QED
    BY <1>1, <1>2, <1>4, UserWorkTables

LEMMA UserMarkTables == CurrentInv /\ UserMark => Current'
  <1> SUFFICES ASSUME CurrentInv, UserMark PROVE Current'
    OBVIOUS
  <1>1. /\ pc = "user_mark" /\ UNCHANGED flash /\ pc' \in {"map", "update"}
        /\ marked' \subseteq marked \cup {op.pb}
        /\ UNCHANGED <<block_mapping, mapping_blocks_top_ba, regions, protected>>
    BY DEF UserMark, MarkPhys, Update, tables
  <1> QED
    BY <1>1, UserWorkTables

---------------------------------------------------------------------------------
(* Power, and the attach.                                                   *)

LEMMA PowerTables == CurrentInv /\ (Detached \/ PowerCut) => Current'
  <1> SUFFICES ASSUME CurrentInv, Detached \/ PowerCut PROVE Current'
    OBVIOUS
  <1>1. main_table_ba' = 0 /\ backup_table_ba' = 0 /\ pc' = "off"
    BY DEF Detached, PowerCut, PowerOff
  <1> QED
    BY <1>1, RestsCurrent DEF TablesApart, OpAside, RestTables, Rests

LEMMA CreateTablesNone == CurrentInv /\ (CreateNew \/ CreateExisting) => Current'
  <1> SUFFICES ASSUME CurrentInv, CreateNew \/ CreateExisting PROVE Current'
    OBVIOUS
  <1>1. main_table_ba' = 0 /\ backup_table_ba' = 0
    BY DEF CreateNew, CreateExisting, Format
  <1>2. TablesApart'
    BY <1>1 DEF TablesApart
  <1>3. CASE pc' = "create"
    BY <1>2, <1>3, RestsCurrent DEF OpAside, RestTables, Rests
  <1>4. CASE CreateNew
    <2> DEFINE job == [Job("sig", MgmtStart, MgmtStart, "sig") EXCEPT !.ba = BlockCount - 1]
    <2>1. w'.mode = "sig" /\ pc' \in {"erase", "ret"}
      <3>1. Seek(job, Scanned(AllGood), marked # {})
        BY <1>4 DEF CreateNew
      <3>2. \/ \E b : w' = [job EXCEPT !.ba = b] /\ pc' = "erase"
            \/ \E ok : w' = [job EXCEPT !.ok = ok] /\ pc' = "ret"
        <4> HIDE DEF job
        <4> QED
          BY <3>1 DEF Seek
      <3> QED
        BY <3>2 DEF Job
    <2> QED
      BY <1>2, <2>1 DEF Current, OpAside, RestTables, Rests, LoopTables, LeaveTables
  <1> QED
    BY <1>3, <1>4 DEF CreateExisting

(* What the attach finds holds the mapping it loads: the newer of two       *)
(* tables does, and two with one write count both do.                       *)
LEMMA LoadExistingTables == CurrentInv /\ CountIdentifies /\ LoadExisting => Current'
  <1> SUFFICES ASSUME CurrentInv, CountIdentifies, LoadExisting PROVE Current'
    OBVIOUS
  <1>1. PICK sig \in FoundSig, Ecc \in SUBSET Torn :
          \E m \in MainFound(sig) : LoadTable(m, sig, Ecc)
    BY DEF LoadExisting
  <1>2. PICK m \in MainFound(sig) : LoadTable(m, sig, Ecc)
    BY <1>1
  <1> DEFINE k      == Kept(m, sig)
             backup == BackupFound(m, sig)
             state  == LoadedState(m, sig, Ecc)
  <1>3. /\ UNCHANGED <<flash, marked>> /\ block_mapping' = flash[k].mapping
        /\ mapping_blocks_top_ba' \in Top(k, sig) /\ main_table_ba' = m
        /\ caller' = "load"
    BY <1>2 DEF LoadExisting, StartAttach, chip, LoadTable
  <1>4. flash \in [Blocks -> Contents] /\ MgmtStart \in Nat
    BY AsideTypes DEF CurrentInv, AsideInv
  <1>5. sig \in Blocks /\ sig \in Nat
    BY FoundSigRange DEF CurrentInv, AsideInv
  <1>6. /\ m \in Blocks /\ m \in Nat
        /\ flash[m] \in Tables /\ flash[m].kind = "table"
    BY <1>4, <1>5, FoundRange DEF Blocks, Tables
  <1>7. m \in Hits(MgmtStart, sig, AllGood) /\ m \notin marked
    BY DEF MainFound, First, Least, Hits
  <1>8. Kept(m, sig) = m \/ Kept(m, sig) \in {b \in backup : flash[b].count > flash[m].count}
    BY DEF Kept
  <1>9. \/ /\ backup = {} /\ backup_table_ba' = 0 /\ mapping_blocks_ba' = m + 1
           /\ \E c : RescueSingle(m, state, c)
        \/ \E b \in backup :
             /\ backup_table_ba' = b /\ mapping_blocks_ba' = b + 1
             /\ \/ flash[b].count = flash[m].count /\ Leave(TRUE)
                \/ /\ flash[b].count > flash[m].count
                   /\ Seek(Job("table", m, b, "update_main"), state, TRUE)
                \/ /\ flash[b].count < flash[m].count
                   /\ \E u \in Top(k, sig) :
                        Seek(Job("table", b, u, "update_backup"), state, TRUE)
    BY <1>2 DEF LoadTable
  <1>10. ASSUME NEW b, flash[b].kind = "table", b \notin marked,
                flash[b].mapping = flash[k].mapping
         PROVE  HeldAfter(b)
    BY <1>3, <1>10 DEF HeldAfter
  <1> HIDE DEF k, backup, state
  <1> USE DEF Continuations
  <1>11. ASSUME NEW then \in {"front", "update_main", "update_backup"},
                NEW lo, NEW hi, Begins("table", then, lo, hi), NEW r, Relied' \subseteq {r},
                r \in Blocks, HeldAfter(r), r \notin lo .. hi - 1,
                then = "front" => backup_table_ba' = 0, TablesApart'
         PROVE  Current'
    <2>1. /\ w'.mode = "table" /\ w'.then = then /\ w'.from = lo /\ w'.lim = hi
          /\ pc' \in {"erase", "ret"} /\ (pc' = "erase" => w'.ba \notin marked')
          /\ (pc' = "ret" => ~w'.ok)
      BY <1>3, <1>11 DEF Begins, Runs
    <2>2. LoopTables'
      BY <1>3, <1>11, <2>1, LoopTablesAfter
    <2> QED
      BY <1>11, <2>1, <2>2 DEF Current, OpAside, RestTables, Rests, LeaveTables
  <1>12. CASE /\ backup = {} /\ backup_table_ba' = 0 /\ mapping_blocks_ba' = m + 1
              /\ \E c : RescueSingle(m, state, c)
    <2>1. k = m
      BY <1>8, <1>12 DEF k
    <2>2. Begins("table", "front", MgmtStart, m)
      BY <1>6, <1>12, RescueBegins
    <2>3. TablesApart'
      BY <1>3, <1>6, <1>12 DEF TablesApart
    <2>4. Relied' \subseteq {m} /\ m \notin MgmtStart .. m - 1
      BY <1>3, <1>4, <1>6, <2>2 DEF Relied, Begins, Runs
    <2>5. HeldAfter(m)
      BY <1>6, <1>7, <1>10, <2>1
    <2> QED
      BY <1>6, <1>11, <1>12, <2>2, <2>3, <2>4, <2>5
  <1>13. ASSUME NEW b \in backup, backup_table_ba' = b, mapping_blocks_ba' = b + 1,
                \/ flash[b].count = flash[m].count /\ Leave(TRUE)
                \/ /\ flash[b].count > flash[m].count
                   /\ Seek(Job("table", m, b, "update_main"), state, TRUE)
                \/ /\ flash[b].count < flash[m].count
                   /\ \E u \in Top(k, sig) :
                        Seek(Job("table", b, u, "update_backup"), state, TRUE)
         PROVE  Current'
    <2>1. /\ b \in Nat /\ m < b /\ b \in Blocks /\ b \notin marked
          /\ flash[b].kind = "table" /\ b \in Hits(MgmtStart, sig, AllGood)
          /\ backup = {b} /\ flash[b].count \in Nat /\ flash[m].count \in Nat
      <3>1. /\ b \in Nat /\ m < b /\ b + 1 < sig /\ flash[b] \in Tables
            /\ b \in Hits(MgmtStart, sig, AllGood) /\ backup = {b}
        BY <1>4, <1>5, BackupAside DEF backup
      <3>2. b \in Blocks /\ b \notin marked
        BY <3>1 DEF Hits, SearchRange
      <3>3. flash[b].kind = "table" /\ flash[b].count \in Nat /\ flash[m].count \in Nat
        BY <1>6, <3>1 DEF Tables
      <3> QED
        BY <3>1, <3>2, <3>3
    <2>2. TablesApart'
      BY <1>3, <1>6, <1>13, <2>1 DEF TablesApart
    <2>3. CASE flash[b].count = flash[m].count /\ Leave(TRUE)
      <3>1. k = m
        BY <1>8, <2>1, <2>3 DEF k
      <3>2. flash[m].mapping = flash[b].mapping
        BY <1>7, <2>1, <2>3 DEF CountIdentifies
      <3>3. HeldAfter(m) /\ HeldAfter(b)
        BY <1>6, <1>7, <1>10, <2>1, <3>1, <3>2
      <3>4. TablesHold'
        BY <1>3, <1>13, <3>3, TablesHoldAfter
      <3>5. pc' = "leave" /\ w'.ok = TRUE
        BY <2>3, AsideTypes DEF Leave, Jobs, CurrentInv, AsideInv
      <3> QED
        BY <2>2, <3>4, <3>5
           DEF Current, OpAside, RestTables, Rests, LoopTables, Working, LeaveTables
    <2>4. CASE /\ flash[b].count > flash[m].count
               /\ Seek(Job("table", m, b, "update_main"), state, TRUE)
      <3>1. k = b
        <4>1. {x \in backup : flash[x].count > flash[m].count} = {b}
          BY <2>1, <2>4
        <4>2. {b} # {} /\ (CHOOSE x \in {b} : TRUE) = b
          OBVIOUS
        <4> QED
          BY <4>1, <4>2 DEF k, Kept, backup
      <3>2. Begins("table", "update_main", m, b)
        BY <1>6, <2>1, <2>4, SeekTableBegins
      <3>3. Relied' \subseteq {b} /\ b \notin m .. b - 1
        BY <1>6, <1>13, <2>1, <3>2 DEF Relied, Begins, Runs
      <3>4. HeldAfter(b)
        BY <1>10, <2>1, <3>1
      <3> QED
        BY <1>11, <2>1, <2>2, <3>2, <3>3, <3>4
    <2>5. CASE /\ flash[b].count < flash[m].count
               /\ \E u \in Top(k, sig) :
                    Seek(Job("table", b, u, "update_backup"), state, TRUE)
      <3>1. PICK u \in Top(k, sig) : Seek(Job("table", b, u, "update_backup"), state, TRUE)
        BY <2>5
      <3>2. u \in Nat
        BY DEF Top, Blocks
      <3>3. Begins("table", "update_backup", b, u)
        BY <2>1, <3>1, <3>2, SeekTableBegins
      <3>4. k = m
        BY <1>8, <2>1, <2>5 DEF k
      <3>5. Relied' \subseteq {m} /\ m \notin b .. u - 1
        BY <1>3, <1>6, <2>1, <3>2, <3>3 DEF Relied, Begins, Runs
      <3>6. HeldAfter(m)
        BY <1>6, <1>7, <1>10, <3>4
      <3> QED
        BY <1>6, <1>11, <2>2, <3>3, <3>5, <3>6
    <2> QED
      BY <1>13, <2>3, <2>4, <2>5
  <1> QED
    BY <1>9, <1>12, <1>13

---------------------------------------------------------------------------------
(* CurrentInv, and the theorems.                                            *)

LEMMA InitTables == Init => CurrentInv
  <1> SUFFICES ASSUME Init PROVE CurrentInv
    OBVIOUS
  <1>1. TablesApart /\ OpAside /\ RestTables /\ LoopTables /\ LeaveTables
    BY DEF Init, TablesApart, OpAside, RestTables, Rests, LoopTables, Working, LeaveTables
  <1> QED
    BY <1>1, InitAside DEF CurrentInv

LEMMA StutterTables == CurrentInv /\ UNCHANGED vars => Current'
  <1> SUFFICES ASSUME CurrentInv, UNCHANGED vars PROVE Current'
    OBVIOUS
  <1> USE DEF vars, chip, regions, tables, control, CurrentInv
  <1>1. TablesApart' /\ OpAside'
    BY DEF TablesApart, OpAside
  <1>2. RestTables' /\ LeaveTables'
    BY DEF RestTables, Rests, LeaveTables, TablesHold, HoldsMapping
  <1>3. LoopTables'
    <2>1. Relied' = Relied
      BY DEF Relied
    <2> QED
      BY <2>1 DEF LoopTables, Working, HoldsMapping
  <1> QED
    BY <1>1, <1>2, <1>3 DEF Current

LEMMA StepTables ==
  CurrentInv /\ RemapTakesTop /\ CountIdentifies /\ [Next]_vars => CurrentInv'
  <1> SUFFICES ASSUME CurrentInv, RemapTakesTop, CountIdentifies, [Next]_vars
               PROVE  Current'
    BY StepAside DEF CurrentInv, Current
  <1>1. CASE Attach
    BY <1>1, CreateTablesNone, LoadExistingTables, CreatedTables DEF Attach
  <1>2. CASE User
    BY <1>2, UserTables
  <1>3. CASE PowerCut
    BY <1>3, PowerTables
  <1>4. CASE Driver
    <2>1. CASE EraseOk \/ EraseFail \/ ProgramOk \/ ProgramFail \/ MarkBlock
      BY <2>1, EraseOkTables, LoopFailTables, ProgramOkTables, MarkBlockTables
    <2>2. CASE RebuildMain \/ RebuildBackup \/ Cleaned
      BY <2>2, RebuildMainTables, RebuildBackupTables, CleanedTables
    <2>3. CASE RescueFront \/ RescueBehind \/ RescueBehindCleaned
      BY <2>3, RescueFrontTables, RescueBehindTables, RescueBehindCleanedTables
    <2>4. CASE UpdateMain \/ UpdateBackup \/ UpdateOver \/ UpdateOnce
      BY <2>4, UpdateMainTables, UpdateBackupTables, UpdateOverTables, UpdateOnceTables
    <2>5. CASE OnceBackup \/ OnceMain \/ RescueTemporary \/ RescueNewMain
      BY <2>5, OnceBackupTables, OnceMainTables, RescueTemporaryTables, RescueNewMainTables
    <2>6. CASE MapForErase \/ MapFailed \/ PoolClosed
      BY <2>6, MapTables, MapFailedTables, PoolClosedTables
    <2>7. CASE SigWritten \/ CreateTables \/ RemapTail \/ Created
      BY <2>7, CreatedTables, CreateTablesTables, MapTables
    <2>8. CASE LeaveUpdate \/ LeaveLoad \/ LeaveCreate
      BY <2>8, LeaveUpdateTables, LeaveLoadTables
    <2>9. CASE EraseRetry \/ UserEraseOk \/ UserEraseFail \/ UserMark
      BY <2>9, EraseRetryTables, UserFlashTables, UserMarkTables
    <2>10. CASE UserProgramOk \/ UserProgramFail \/ Unmap \/ Detached
      BY <2>10, UserFlashTables, MapFailedTables, PowerTables
    <2> QED
      BY <1>4, <2>1, <2>2, <2>3, <2>4, <2>5, <2>6, <2>7, <2>8, <2>9, <2>10
         DEF Driver
  <1>5. CASE UNCHANGED vars
    BY <1>5, StutterTables
  <1> QED
    BY <1>1, <1>2, <1>3, <1>4, <1>5 DEF Next

(* On the condition of AsideInvariance, the procedures of nmbm-core.c that  *)
(* write, rescue and rebuild the info tables never lose the table they fall *)
(* back on, and leave right tables behind.                                  *)
THEOREM CurrentInvariance ==
  Spec /\ [](RemapTakesTop /\ CountIdentifies) => []CurrentInv
  BY InitTables, StepTables, PTL DEF Spec

(* Between two calls the main table, and the backup table if there is one,  *)
(* both hold the mapping in force, unless the device is protected: however  *)
(* often nmbm_update_info_table and nmbm_load_info_table were interrupted   *)
(* by failing blocks and power cuts.  On the condition of AsideInvariance.  *)
THEOREM TablesStayCurrent ==
  Spec /\ [](RemapTakesTop /\ CountIdentifies) => []TablesCurrent
  <1>1. CurrentInv => TablesCurrent
    BY DEF CurrentInv, RestTables, Rests, TablesCurrent, Between
  <1> QED
    BY <1>1, CurrentInvariance, PTL

---------------------------------------------------------------------------------
(* The layer finds its tables again.                                        *)

(* What FindInv says beyond CurrentInv.                                     *)
Find == SignatureFound /\ TablesFindable /\ LoopOnGood /\ UpdateHasTables /\ ProtectedRests

(* A nonempty set of block numbers has a least and a highest element.       *)
LEMMA LeastExists ==
  ASSUME NEW S, S \subseteq Blocks, S # {}
  PROVE  Least(S) # {}
  <1>1. S \subseteq Nat
    BY ChipAssumption DEF Blocks
  <1>2. PICK x \in S : \A y \in S : ~(<<y, x>> \in OpToRel(<, Nat))
    BY <1>1, WFMin, NatLessThanWellFounded, Zenon
  <1>3. \A y \in S : y \in Nat /\ x \in Nat /\ ~(y < x)
    BY <1>1, <1>2 DEF OpToRel
  <1>4. x \in Least(S)
    BY <1>3 DEF Least
  <1> QED
    BY <1>4

LEMMA HighestExists ==
  ASSUME NEW S, S \subseteq Blocks, S # {}
  PROVE  \E b \in S : \A a \in S : a <= b
  <1> DEFINE T == {BlockCount - 1 - b : b \in S}
  <1>1. T \subseteq Blocks /\ T # {}
    <2>1. ASSUME NEW b \in S PROVE BlockCount - 1 - b \in Blocks
      BY ChipAssumption DEF Blocks
    <2>2. PICK b \in S : TRUE
      OBVIOUS
    <2> QED
      BY <2>1, <2>2
  <1>2. PICK x \in Least(T) : TRUE
    BY <1>1, LeastExists
  <1>3. PICK b \in S : x = BlockCount - 1 - b
    BY <1>2 DEF Least
  <1>4. ASSUME NEW a \in S PROVE a <= b
    <2>1. BlockCount - 1 - b <= BlockCount - 1 - a
      BY <1>2, <1>3 DEF Least
    <2> QED
      BY <2>1, ChipAssumption DEF Blocks
  <1> QED
    BY <1>4

(* nmbm_find_signature finds one if there is one.                           *)
LEMMA SignatureExists == SigBlocks # {} => FoundSig # {}
  BY HighestExists DEF FoundSig, SigBlocks

(* nmbm_find_signature: once the highest is known, losing others does not   *)
(* matter.                                                                  *)
LEMMA SignatureLeft ==
  ASSUME NEW sig, FoundSig = {sig}, sig \in SigBlocks', SigBlocks' \subseteq SigBlocks
  PROVE  FoundSig' = {sig}
  <1>1. SigBlocks \subseteq Int
    BY ChipAssumption DEF SigBlocks, Blocks
  <1>2. sig \in SigBlocks /\ \A a \in SigBlocks : a <= sig
    BY DEF FoundSig
  <1>3. ASSUME NEW b \in SigBlocks', \A a \in SigBlocks' : a <= b PROVE b = sig
    BY <1>1, <1>2, <1>3
  <1> QED
    BY <1>2, <1>3 DEF FoundSig

LEMMA OneSignature ==
  ASSUME NEW a \in FoundSig, NEW b \in FoundSig
  PROVE  a = b
  <1>1. a \in Int /\ b \in Int /\ a <= b /\ b <= a
    BY ChipAssumption DEF FoundSig, SigBlocks, Blocks
  <1> QED
    BY <1>1

(* A step that neither touches the chip nor learns of another signature.    *)
LEMMA ChipStill ==
  ASSUME FindInv, UNCHANGED <<flash, marked, signature_ba>>,
         ~(pc' \in {"erase", "prog", "mark", "ret"} /\ w'.mode = "sig")
  PROVE  SignatureFound' /\ TablesFindable'
  <1>1. FoundSig' = FoundSig
    BY DEF FoundSig, SigBlocks
  <1>2. SignatureFound'
    BY <1>1 DEF FindInv, SignatureFound, Working
  <1>3. TablesFindable'
    BY <1>1 DEF FindInv, TablesFindable
  <1> QED
    BY <1>2, <1>3

---------------------------------------------------------------------------------
(* The table procedures.                                                    *)

(* The first step of a loop over blocks whose states were s.                *)
Sought(mode, then, lo, s) ==
  /\ w'.mode = mode /\ w'.then = then /\ w'.from = lo
  /\ pc' \in {"erase", "ret"}
  /\ pc' = "erase" /\ w'.ba \in Blocks => block_state'[w'.ba] = "good"
  /\ \A b \in Blocks : block_state'[b] = "good" => s[b] = "good"

LEMMA SeekGood ==
  ASSUME NEW job, NEW s, NEW c, Seek(job, s, c), job \in Jobs
  PROVE  Sought(job.mode, job.then, job.from, s)
  <1>1. \A S : \A b \in Blocks : Record(s, S)[b] = "good" => s[b] = "good"
    BY DEF Record
  <1>2. CASE \E b \in Ahead(job) :
               /\ s[b] = "good" /\ b \notin marked
               /\ w' = [job EXCEPT !.ba = b]
               /\ pc' = "erase"
               /\ block_state' = Record(s, Passed(job, b))
    <2>1. PICK b \in Ahead(job) :
               /\ s[b] = "good" /\ b \notin marked
               /\ w' = [job EXCEPT !.ba = b]
               /\ pc' = "erase"
               /\ block_state' = Record(s, Passed(job, b))
      BY <1>2
    <2>2. w'.mode = job.mode /\ w'.then = job.then /\ w'.from = job.from /\ w'.ba = b
      BY <2>1 DEF Jobs
    <2>3. b \in Blocks => block_state'[b] = "good"
      BY <2>1 DEF Record, FoundMarked
    <2> QED
      BY <1>1, <2>1, <2>2, <2>3 DEF Sought
  <1>3. CASE /\ w' = [job EXCEPT !.ok = (job.mode = "range")]
             /\ pc' = "ret"
             /\ block_state' = Record(s, Ahead(job))
    <2>1. w'.mode = job.mode /\ w'.then = job.then /\ w'.from = job.from
      BY <1>3 DEF Jobs
    <2> QED
      BY <1>1, <1>3, <2>1 DEF Sought
  <1> QED
    BY <1>2, <1>3 DEF Seek

LEMMA JobSought ==
  ASSUME NEW mode \in {"table", "range"}, NEW lo \in Nat, NEW hi \in Nat,
         NEW then \in Continuations, NEW s, NEW c, Seek(Job(mode, lo, hi, then), s, c)
  PROVE  Sought(mode, then, lo, s)
  <1> DEFINE job == Job(mode, lo, hi, then)
  <1>1. job \in Jobs /\ job.mode = mode /\ job.then = then /\ job.from = lo
    BY DEF Job, Jobs
  <1>2. Seek(job, s, c)
    OBVIOUS
  <1> HIDE DEF job
  <1> QED
    BY <1>1, <1>2, SeekGood

LEMMA TableSought ==
  ASSUME NEW lo \in Nat, NEW hi \in Nat, NEW then \in Continuations, NEW c,
         WriteTable(lo, hi, then, c)
  PROVE  Sought("table", then, lo, block_state)
  BY JobSought DEF WriteTable

LEMMA RangeSought ==
  ASSUME NEW lo \in Nat, NEW hi \in Nat, NEW then \in Continuations, NEW c,
         EraseRange(lo, hi, then, c)
  PROVE  Sought("range", then, lo, block_state)
  BY JobSought DEF EraseRange

LEMMA RescueSought ==
  ASSUME NEW ba \in Nat, NEW s, NEW c, RescueSingle(ba, s, c)
  PROVE  Sought("table", "front", MgmtStart, s)
  <1>1. MgmtStart \in Nat /\ "front" \in Continuations
    BY ChipAssumption DEF Continuations
  <1> QED
    BY <1>1, JobSought DEF RescueSingle

(* A procedure writes and erases blocks that are good, and the states it    *)
(* writes call them good.                                                   *)
LEMMA LoopEntered ==
  ASSUME CurrentInv', NEW mode, NEW then, NEW lo, NEW s, Sought(mode, then, lo, s),
         mode = "table" =>
           \A b \in Blocks : s[b] = "good" => info_table_cache'.state[b] = "good"
  PROVE  LoopOnGood'
  <1>1. pc' = "erase" => w'.ba \in Blocks
    BY DEF CurrentInv, AsideInv, IInv, TypeOK
  <1> QED
    BY <1>1 DEF Sought, LoopOnGood, Good

(* What every table procedure does when one of its loops is over.           *)
ProcedureFrame == UNCHANGED <<flash, marked, signature_ba, info_table_cache>>
Continues ==
  /\ pc' = "leave" \/ \E mode \in {"table", "range"} : \E then, lo :
                        /\ Sought(mode, then, lo, block_state) /\ then # "once_backup"
                        /\ mode = "table" => w.then \in TableSteps
  /\ protected' => protected \/ (pc' = "leave" /\ backup_table_ba' = 0)

LEMMA ProcedureFind ==
  ASSUME FindInv, CurrentInv', pc = "ret", w.then \in Continuations \ {"none", "sig"},
         ProcedureFrame, Continues
  PROVE  Find'
  <1>1. ~protected
    BY DEF FindInv, ProtectedRests, Working
  <1>2. ProtectedRests'
    BY <1>1 DEF Continues, ProtectedRests, Working
  <1>3. CASE pc' = "leave"
    BY <1>2, <1>3, ChipStill
       DEF Find, ProcedureFrame, LoopOnGood, UpdateHasTables, Working
  <1>4. CASE pc' # "leave"
    <2>1. PICK mode, then, lo :
            /\ mode \in {"table", "range"}
            /\ Sought(mode, then, lo, block_state) /\ then # "once_backup"
            /\ mode = "table" => w.then \in TableSteps
      BY <1>4 DEF Continues
    <2>2. w.then \in TableSteps => w.mode = "table"
      BY AtReturn DEF FindInv, CurrentInv, AsideInv
    <2>3. LoopOnGood'
      <3>1. mode = "table" => \A b \in Blocks : Good(b) => info_table_cache.state[b] = "good"
        BY <2>1, <2>2 DEF FindInv, LoopOnGood, Working
      <3> QED
        BY <2>1, <3>1, LoopEntered DEF ProcedureFrame, Good
    <2>4. SignatureFound' /\ TablesFindable'
      BY <2>1, ChipStill DEF Sought, ProcedureFrame
    <2>5. UpdateHasTables'
      BY <2>1 DEF Sought, UpdateHasTables
    <2> QED
      BY <1>2, <2>3, <2>4, <2>5 DEF Find
  <1> QED
    BY <1>3, <1>4

(* A loop over [lo, hi) that a procedure goes on with.                      *)
LEMMA ContinuesWith ==
  ASSUME NEW mode \in {"table", "range"}, NEW then \in Continuations \ {"once_backup"},
         NEW lo \in Nat, NEW hi \in Nat, NEW c,
         \/ mode = "table" /\ w.then \in TableSteps /\ WriteTable(lo, hi, then, c)
         \/ mode = "range" /\ EraseRange(lo, hi, then, c),
         protected' = protected
  PROVE  Continues
  BY TableSought, RangeSought DEF Continues

LEMMA ContinuesAway ==
  ASSUME NEW ok, Leave(ok), protected' => protected \/ backup_table_ba' = 0
  PROVE  Continues
  BY DEF Continues, Leave

(* Where a procedure is when one of its loops is over.                      *)
LEMMA AtReturnFind ==
  ASSUME FindInv, pc = "ret", w.then \in Continuations \ {"none", "sig"}
  PROVE  /\ main_table_ba \in Nat /\ backup_table_ba \in Nat
         /\ mapping_blocks_ba \in Nat /\ mapping_blocks_top_ba \in Nat
         /\ MgmtStart \in Nat /\ w.lim \in Nat /\ w.from \in Nat
         /\ w.ok /\ w.then \in TableSteps => w.ba \in Nat
         /\ w.then = "rebuild_main" => backup_table_ba = 0
         /\ \A lo \in Nat, hi \in Int : \A b \in Reserve(lo, hi) : b \in Nat /\ lo <= b
  <1>1. AsideInv
    BY DEF FindInv, CurrentInv
  <1>2. w.then = "rebuild_main" => backup_table_ba = 0
    BY <1>1, AtReturn DEF AsideInv, LoopAside, Working, TableSteps, Continuations
  <1>3. \A lo \in Nat, hi \in Int : \A b \in Reserve(lo, hi) : b \in Nat /\ lo <= b
    BY ReserveRange DEF Blocks
  <1> QED
    BY <1>1, <1>2, <1>3, AtReturnAside

LEMMA RebuildFind ==
  FindInv /\ CurrentInv' /\ (RebuildMain \/ RebuildBackup \/ Cleaned) => Find'
  <1> SUFFICES ASSUME FindInv, CurrentInv', RebuildMain \/ RebuildBackup \/ Cleaned
               PROVE  Find'
    OBVIOUS
  <1> USE DEF TableSteps, RangeSteps, Continuations
  <1>1. /\ pc = "ret" /\ w.then \in {"rebuild_main", "rebuild_backup", "cleaned"}
        /\ ProcedureFrame
    BY DEF RebuildMain, RebuildBackup, Cleaned, Returned, ProcedureFrame, RamStep, chip,
           tables
  <1> SUFFICES Continues
    BY <1>1, ProcedureFind
  <1>2. CASE RebuildMain
    <2>1. w.then = "rebuild_main"
      BY <1>2 DEF RebuildMain, Returned
    <2>2. CASE \E ok : Leave(ok) /\ backup_table_ba' = backup_table_ba
      BY <1>1, <2>1, <2>2, AtReturnFind, ContinuesAway
    <2>3. CASE /\ w.ok /\ protected' = protected
               /\ \E nba \in Reserve(w.ba + 1, mapping_blocks_top_ba - 1) :
                    WriteTable(nba, mapping_blocks_top_ba, "rebuild_backup", FALSE)
      <3>1. PICK nba \in Reserve(w.ba + 1, mapping_blocks_top_ba - 1) :
              WriteTable(nba, mapping_blocks_top_ba, "rebuild_backup", FALSE)
        BY <2>3
      <3>2. nba \in Nat /\ mapping_blocks_top_ba \in Nat
        BY <1>1, <2>1, <2>3, AtReturnFind
      <3> QED
        BY <2>1, <2>3, <3>1, <3>2, ContinuesWith
    <2> QED
      BY <1>2, <2>2, <2>3 DEF RebuildMain, regions
  <1>3. CASE RebuildBackup
    <2>1. w.then = "rebuild_backup" /\ protected' = protected
      BY <1>3 DEF RebuildBackup, Returned
    <2>2. CASE Leave(TRUE)
      BY <2>1, <2>2, ContinuesAway
    <2>3. CASE w.ok /\ EraseRange(mapping_blocks_ba, w.ba, "cleaned", changed)
      BY <1>1, <2>1, <2>3, AtReturnFind, ContinuesWith
    <2> QED
      BY <1>3, <2>2, <2>3 DEF RebuildBackup
  <1>4. CASE Cleaned
    BY <1>1, <1>4, ContinuesAway DEF Cleaned
  <1> QED
    BY <1>2, <1>3, <1>4

LEMMA RescueSingleFind ==
  FindInv /\ CurrentInv' /\ (RescueFront \/ RescueBehind \/ RescueBehindCleaned) => Find'
  <1> SUFFICES ASSUME FindInv, CurrentInv',
                      RescueFront \/ RescueBehind \/ RescueBehindCleaned
               PROVE  Find'
    OBVIOUS
  <1> USE DEF TableSteps, RangeSteps, Continuations
  <1>1. /\ pc = "ret" /\ w.then \in {"front", "behind", "behind_cleaned"}
        /\ ProcedureFrame /\ protected' = protected
    BY DEF RescueFront, RescueBehind, RescueBehindCleaned, Returned, ProcedureFrame,
           RamStep, chip, tables
  <1> SUFFICES Continues
    BY <1>1, ProcedureFind
  <1>2. \A ok : Leave(ok) => Continues
    BY <1>1, ContinuesAway
  <1>3. CASE RescueFront
    <2>1. w.then = "front"
      BY <1>3 DEF RescueFront, Returned
    <2>2. CASE w.ok /\ EraseRange(w.ba + 1, main_table_ba, "cleaned", FALSE)
      <3>1. w.ba + 1 \in Nat /\ main_table_ba \in Nat
        BY <1>1, <2>1, <2>2, AtReturnFind
      <3> QED
        BY <1>1, <2>2, <3>1, ContinuesWith
    <2>3. CASE \E wba \in Reserve(mapping_blocks_ba, mapping_blocks_top_ba - 1) :
                 WriteTable(wba, mapping_blocks_top_ba, "behind", changed)
      <3>1. PICK wba \in Reserve(mapping_blocks_ba, mapping_blocks_top_ba - 1) :
              WriteTable(wba, mapping_blocks_top_ba, "behind", changed)
        BY <2>3
      <3>2. wba \in Nat /\ mapping_blocks_top_ba \in Nat
        BY <1>1, AtReturnFind
      <3> QED
        BY <1>1, <2>1, <3>1, <3>2, ContinuesWith
    <2> QED
      BY <1>1, <1>2, <1>3, <2>2, <2>3 DEF RescueFront
  <1>4. CASE RescueBehind
    <2>1. w.then = "behind"
      BY <1>4 DEF RescueBehind, Returned
    <2>2. CASE w.ok /\ EraseRange(mapping_blocks_ba, w.ba, "behind_cleaned", changed)
      BY <1>1, <2>1, <2>2, AtReturnFind, ContinuesWith
    <2>3. CASE /\ w.from > mapping_blocks_ba
               /\ WriteTable(w.from - 1, mapping_blocks_top_ba, "behind", changed)
      BY <1>1, <2>1, <2>3, AtReturnFind, ContinuesWith
    <2> QED
      BY <1>1, <1>2, <1>4, <2>2, <2>3 DEF RescueBehind
  <1>5. CASE RescueBehindCleaned
    BY <1>1, <1>2, <1>5 DEF RescueBehindCleaned
  <1> QED
    BY <1>3, <1>4, <1>5

LEMMA UpdateSingleFind == FindInv /\ CurrentInv' /\ (UpdateMain \/ UpdateBackup) => Find'
  <1> SUFFICES ASSUME FindInv, CurrentInv', UpdateMain \/ UpdateBackup PROVE Find'
    OBVIOUS
  <1> USE DEF TableSteps, RangeSteps, Continuations
  <1>1. /\ pc = "ret" /\ w.then \in {"update_main", "update_backup"}
        /\ ProcedureFrame /\ protected' = protected
    BY DEF UpdateMain, UpdateBackup, Returned, ProcedureFrame, RamStep, chip, tables
  <1> SUFFICES Continues
    BY <1>1, ProcedureFind
  <1>2. \A ok : Leave(ok) => Continues
    BY <1>1, ContinuesAway
  <1>3. CASE RescueSingle(backup_table_ba, block_state, changed)
    <2>1. backup_table_ba \in Nat
      BY <1>1, AtReturnFind
    <2>2. Sought("table", "front", MgmtStart, block_state)
      BY <1>3, <2>1, RescueSought
    <2> QED
      BY <1>1, <2>2 DEF Continues
  <1> QED
    BY <1>1, <1>2, <1>3 DEF UpdateMain, UpdateBackup

LEMMA OnceBackupFind == FindInv /\ CurrentInv' /\ OnceBackup => Find'
  <1> SUFFICES ASSUME FindInv, CurrentInv', OnceBackup PROVE Find'
    OBVIOUS
  <1> USE DEF TableSteps, RangeSteps, Continuations
  <1>1. pc = "ret" /\ w.then = "once_backup" /\ ProcedureFrame /\ protected' = protected
    BY DEF OnceBackup, Returned, ProcedureFrame, RamStep, chip, tables
  <1>2. main_table_ba \in Nat /\ mapping_blocks_top_ba \in Nat /\ (w.ok => w.ba \in Nat)
    BY <1>1, AtReturnFind
  <1>3. CASE w.ok /\ WriteTable(main_table_ba, w.ba, "once_main", FALSE)
    BY <1>1, <1>2, <1>3, ContinuesWith, ProcedureFind
  <1>4. CASE WriteTable(main_table_ba, mapping_blocks_top_ba, "once_main", changed)
    BY <1>1, <1>2, <1>4, ContinuesWith, ProcedureFind
  <1> QED
    BY <1>3, <1>4 DEF OnceBackup, WriteMain

LEMMA RescueMainFind ==
  FindInv /\ CurrentInv' /\ (RescueTemporary \/ RescueNewMain) => Find'
  <1> SUFFICES ASSUME FindInv, CurrentInv', RescueTemporary \/ RescueNewMain PROVE Find'
    OBVIOUS
  <1> USE DEF TableSteps, RangeSteps, Continuations
  <1>1. /\ pc = "ret" /\ w.then \in {"temporary", "new_main"}
        /\ ProcedureFrame /\ protected' = protected
    BY DEF RescueTemporary, RescueNewMain, Returned, ProcedureFrame, RamStep, chip, tables
  <1> SUFFICES Continues
    BY <1>1, ProcedureFind
  <1>2. \A ok : Leave(ok) => Continues
    BY <1>1, ContinuesAway
  <1>3. CASE RescueTemporary
    <2>1. w.then = "temporary"
      BY <1>3 DEF RescueTemporary, Returned
    <2>2. CASE w.ok /\ WriteTable(MgmtStart, w.ba, "new_main", changed)
      BY <1>1, <2>1, <2>2, AtReturnFind, ContinuesWith
    <2>3. CASE /\ w.from > mapping_blocks_ba
               /\ WriteTable(w.from - 1, mapping_blocks_top_ba, "temporary", changed)
      BY <1>1, <2>1, <2>3, AtReturnFind, ContinuesWith
    <2> QED
      BY <1>2, <1>3, <2>2, <2>3 DEF RescueTemporary, BackupTakesOver
  <1>4. CASE RescueNewMain
    BY <1>2, <1>4 DEF RescueNewMain
  <1> QED
    BY <1>3, <1>4

LEMMA OnceMainFind == FindInv /\ CurrentInv' /\ OnceMain => Find'
  <1> SUFFICES ASSUME FindInv, CurrentInv', OnceMain PROVE Find'
    OBVIOUS
  <1> USE DEF TableSteps, RangeSteps, Continuations
  <1>1. pc = "ret" /\ w.then = "once_main" /\ ProcedureFrame /\ protected' = protected
    BY DEF OnceMain, Returned, ProcedureFrame, RamStep, chip, tables
  <1> SUFFICES Continues
    BY <1>1, ProcedureFind
  <1>2. CASE Leave(TRUE)
    BY <1>1, <1>2, ContinuesAway
  <1>3. mapping_blocks_top_ba \in Nat /\ MgmtStart \in Nat
    BY <1>1, AtReturnFind
  <1>4. CASE Rebuild(changed)
    BY <1>1, <1>3, <1>4, ContinuesWith DEF Rebuild
  <1>5. CASE \E wba \in Reserve(mapping_blocks_ba, mapping_blocks_top_ba - 1) :
               WriteTable(wba, mapping_blocks_top_ba, "temporary", changed)
    <2>1. PICK wba \in Reserve(mapping_blocks_ba, mapping_blocks_top_ba - 1) :
            WriteTable(wba, mapping_blocks_top_ba, "temporary", changed)
      BY <1>5
    <2>2. wba \in Nat
      BY <1>1, AtReturnFind
    <2> QED
      BY <1>1, <1>3, <2>1, <2>2, ContinuesWith
  <1> QED
    BY <1>2, <1>4, <1>5 DEF OnceMain, RescueMain, BackupTakesOver

(* nmbm_update_info_table_once and nmbm_create_info_table fill the table    *)
(* that they write in from the block states.                                *)
LEMMA UpdateOnceFind == FindInv /\ CurrentInv' /\ UpdateOnce => Find'
  <1> SUFFICES ASSUME FindInv, CurrentInv', UpdateOnce PROVE Find'
    OBVIOUS
  <1> USE DEF TableSteps, RangeSteps, Continuations
  <1>1. /\ pc = "update" /\ ~protected /\ UNCHANGED <<flash, marked, signature_ba>>
        /\ protected' = protected /\ info_table_cache'.state = block_state
    BY DEF UpdateOnce, RamStep, chip, InfoTable
  <1>2. /\ main_table_ba \in Nat /\ backup_table_ba \in Nat /\ mapping_blocks_top_ba \in Nat
        /\ backup_table_ba # 0 => main_table_ba < backup_table_ba
    BY DEF FindInv, CurrentInv, AsideInv, IInv, TypeOK, TablesApart
  <1>3. IsTable(main_table_ba)
    BY <1>1 DEF FindInv, UpdateHasTables
  <1>4. \E then \in {"once_backup", "once_main"} : \E lo :
          /\ Sought("table", then, lo, block_state)
          /\ then = "once_backup" => main_table_ba < lo /\ main_table_ba' = main_table_ba
    <2>1. CASE /\ backup_table_ba # 0 /\ UNCHANGED regions
               /\ WriteTable(backup_table_ba, mapping_blocks_top_ba, "once_backup", changed)
      BY <1>2, <2>1, TableSought DEF regions
    <2>2. CASE WriteTable(main_table_ba, mapping_blocks_top_ba, "once_main", changed)
      BY <1>2, <2>2, TableSought
    <2> QED
      BY <2>1, <2>2 DEF UpdateOnce, WriteMain
  <1>5. PICK then, lo :
          /\ then \in {"once_backup", "once_main"}
          /\ Sought("table", then, lo, block_state)
          /\ then = "once_backup" => main_table_ba < lo /\ main_table_ba' = main_table_ba
    BY <1>4
  <1>6. LoopOnGood'
    BY <1>1, <1>5, LoopEntered
  <1>7. SignatureFound' /\ TablesFindable'
    BY <1>1, <1>5, ChipStill DEF Sought
  <1>8. UpdateHasTables'
    BY <1>1, <1>3, <1>5 DEF Sought, UpdateHasTables, IsTable
  <1>9. ProtectedRests'
    BY <1>1 DEF ProtectedRests
  <1> QED
    BY <1>6, <1>7, <1>8, <1>9 DEF Find

LEMMA CreateTablesFind == FindInv /\ CurrentInv' /\ CreateTables => Find'
  <1> SUFFICES ASSUME FindInv, CurrentInv', CreateTables PROVE Find'
    OBVIOUS
  <1> USE DEF TableSteps, RangeSteps, Continuations
  <1>1. /\ pc = "create" /\ UNCHANGED <<flash, marked, signature_ba, protected>>
    BY DEF CreateTables, RamStep, chip
  <1>2. ProtectedRests'
    BY <1>1 DEF FindInv, ProtectedRests
  <1>3. CASE pc' = "failed"
    BY <1>1, <1>2, <1>3, ChipStill DEF Find, LoopOnGood, UpdateHasTables, Working
  <1>4. CASE \E t \in PoolTop :
               /\ info_table_cache'.state = block_state
               /\ WriteTable(MgmtStart, t, "rebuild_main", changed)
    <2>1. PICK t \in PoolTop : /\ info_table_cache'.state = block_state
                               /\ WriteTable(MgmtStart, t, "rebuild_main", changed)
      BY <1>4
    <2>2. t \in Nat /\ MgmtStart \in Nat
      BY PoolTopRange, ChipAssumption DEF FindInv, CurrentInv, AsideInv, IInv, TypeOK, Blocks
    <2>3. Sought("table", "rebuild_main", MgmtStart, block_state)
      BY <2>1, <2>2, TableSought
    <2>4. LoopOnGood'
      BY <2>1, <2>3, LoopEntered
    <2>5. SignatureFound' /\ TablesFindable'
      BY <1>1, <2>3, ChipStill DEF Sought
    <2>6. UpdateHasTables'
      BY <2>3 DEF Sought, UpdateHasTables
    <2> QED
      BY <1>2, <2>4, <2>5, <2>6 DEF Find
  <1> QED
    BY <1>3, <1>4 DEF CreateTables, InfoTable

---------------------------------------------------------------------------------
(* Steps in RAM in which no loop runs.                                      *)

(* The tables an update starts from are those that were there before.       *)
LEMMA CalmFind ==
  ASSUME FindInv, UNCHANGED <<flash, marked, signature_ba, regions>>,
         pc' \notin {"erase", "prog", "mark", "ret", "create"},
         pc' \in {"remap", "update"} /\ ~protected' =>
           ~protected /\ (pc \in Rests \/ (pc = "leave" /\ w.ok)),
         protected' /\ backup_table_ba # 0 =>
           pc' \in {"idle", "detached"} \/ (pc' = "update" /\ ret' = "detached")
  PROVE  Find'
  <1>1. SignatureFound' /\ TablesFindable' /\ LoopOnGood'
    BY ChipStill DEF LoopOnGood, Working
  <1>2. main_table_ba' = main_table_ba /\ backup_table_ba' = backup_table_ba
    BY DEF regions
  <1>3. ProtectedRests'
    BY <1>2 DEF ProtectedRests, Working
  <1>4. UpdateHasTables'
    <2>1. SUFFICES ASSUME pc' \in {"remap", "update"}, ~protected'
                   PROVE  /\ IsTable(main_table_ba)
                          /\ backup_table_ba # 0 => IsTable(backup_table_ba)
      BY <1>2 DEF UpdateHasTables, IsTable, Working
    <2>2. CASE TablesHold
      BY <2>2 DEF TablesHold, HoldsMapping, IsTable
    <2>3. CASE ~TablesHold
      <3>1. pc \in {"remap", "update"} /\ ~protected
        BY <2>1, <2>3 DEF FindInv, CurrentInv, RestTables, LeaveTables
      <3> QED
        BY <3>1 DEF FindInv, UpdateHasTables
    <2> QED
      BY <2>2, <2>3
  <1> QED
    BY <1>1, <1>3, <1>4 DEF Find

(* A device that goes on is not protected with two tables.                  *)
LEMMA GoesOn ==
  ASSUME FindInv, pc \notin {"idle", "detached", "update"}
  PROVE  protected => backup_table_ba = 0
  BY DEF FindInv, ProtectedRests

LEMMA UpdateOverFind == FindInv /\ UpdateOver => Find'
  <1> SUFFICES ASSUME FindInv, UpdateOver PROVE Find'
    OBVIOUS
  <1>1. /\ pc = "update" /\ Return(TRUE) /\ UNCHANGED protected
        /\ UNCHANGED <<flash, marked, signature_ba, regions>>
    BY DEF UpdateOver, RamStep, chip, tables
  <1>2. ret \in Returns
    BY DEF FindInv, CurrentInv, AsideInv, IInv, TypeOK
  <1>3. /\ pc' \notin {"erase", "prog", "mark", "ret", "create", "remap", "update"}
        /\ ret = "detached" => pc' = "detached"
    BY <1>1, <1>2 DEF Return, Returns
  <1>4. protected /\ backup_table_ba # 0 => ret = "detached"
    BY <1>1 DEF FindInv, ProtectedRests
  <1> QED
    BY <1>1, <1>3, <1>4, CalmFind

LEMMA LeaveFind == FindInv /\ (LeaveUpdate \/ LeaveLoad \/ LeaveCreate) => Find'
  <1> SUFFICES ASSUME FindInv, LeaveUpdate \/ LeaveLoad \/ LeaveCreate PROVE Find'
    OBVIOUS
  <1>1. pc = "leave" /\ UNCHANGED <<flash, marked, signature_ba, regions>>
    BY DEF LeaveUpdate, LeaveLoad, LeaveCreate, RamStep, chip, tables
  <1>2. protected => backup_table_ba = 0
    BY <1>1, GoesOn
  <1>3. CASE LeaveLoad
    <2>1. pc' = "idle"
      BY <1>3 DEF LeaveLoad, Ready
    <2> QED
      BY <1>1, <2>1, CalmFind
  <1>4. CASE LeaveUpdate \/ LeaveCreate
    <2>1. ret \in Returns
      BY DEF FindInv, CurrentInv, AsideInv, IInv, TypeOK
    <2>2. /\ pc' \notin {"erase", "prog", "mark", "ret", "create"}
          /\ pc' \in {"remap", "update"} => w.ok
          /\ protected' = protected
      BY <1>4, <2>1 DEF LeaveUpdate, LeaveCreate, Return, Returns
    <2> QED
      BY <1>1, <1>2, <2>2, CalmFind
  <1> QED
    BY <1>3, <1>4

LEMMA CallGoesOnFind ==
  FindInv /\ (MapForErase \/ MapFailed \/ PoolClosed \/ RemapTail \/ EraseRetry \/ Unmap)
    => Find'
  <1> SUFFICES ASSUME FindInv, MapForErase \/ MapFailed \/ PoolClosed \/ RemapTail
                                 \/ EraseRetry \/ Unmap
               PROVE  Find'
    OBVIOUS
  <1>1. pc \in {"map", "map_failed", "pool_closed", "remap", "retry", "unmap"}
    BY DEF MapForErase, MapFailed, PoolClosed, RemapTail, EraseRetry, Unmap
  <1>2. pc' \in {"map_failed", "update", "remap", "map", "user_erase", "user_mark"}
    BY <1>1 DEF MapForErase, MapFailed, PoolClosed, RemapTail, EraseRetry, Unmap, Update,
                PoolUsedUp
  <1>3. UNCHANGED <<flash, marked, signature_ba, regions, protected>>
    BY DEF MapForErase, MapFailed, PoolClosed, RemapTail, EraseRetry, Unmap, Map,
           PoolUsedUp, RamStep, chip, tables
  <1>4. protected => backup_table_ba = 0
    BY <1>1, GoesOn
  <1>5. pc \in Rests
    BY <1>1 DEF Rests
  <1> QED
    BY <1>2, <1>3, <1>4, <1>5, CalmFind

LEMMA CreatedFind == FindInv /\ (Created \/ AttachFails) => Find'
  <1> SUFFICES ASSUME FindInv, Created \/ AttachFails PROVE Find'
    OBVIOUS
  <1>1. /\ pc \in {"created", "off"} /\ pc' \in {"idle", "failed"}
        /\ UNCHANGED <<flash, marked, signature_ba, regions, protected>>
    BY DEF Created, Ready, AttachFails, StartAttach, RamStep, chip, tables
  <1>2. protected => backup_table_ba = 0
    BY <1>1, GoesOn
  <1> QED
    BY <1>1, <1>2, CalmFind

LEMMA UserFind == FindInv /\ User => Find'
  <1> SUFFICES ASSUME FindInv, User PROVE Find'
    OBVIOUS
  <1>1. pc = "idle" /\ UNCHANGED <<flash, marked, signature_ba, regions, protected>>
    BY DEF User, Refuse, Read, BeginErase, BeginMarkBad, BeginWrite, Begin, Detach, CanCall,
           chip, tables
  <1>2. \/ pc' = "idle"
        \/ pc' = "update" /\ ret' = "detached"
        \/ pc' \in {"retry", "user_prog", "unmap"} /\ ~protected
    <2>1. ASSUME NEW kind, NEW lb, NEW val, NEW first \in {"retry", "user_prog", "unmap"},
                 Begin(kind, lb, val, first)
          PROVE  pc' \in {"retry", "user_prog", "unmap"} /\ ~protected
      BY <2>1 DEF Begin, Refusal
    <2>2. CASE Detach
      BY <2>2 DEF Detach, Update
    <2>3. CASE \E lb \in LogicBlocks : \/ \E kind \in {"read", "write", "erase", "markbad"} :
                                            Refuse(kind, lb)
                                       \/ Read(lb)
      BY <1>1, <2>3 DEF Refuse, Read
    <2>4. CASE \E lb \in LogicBlocks : \/ BeginErase(lb) \/ BeginMarkBad(lb)
                                       \/ \E v \in Values : BeginWrite(lb, v)
      BY <2>1, <2>4 DEF BeginErase, BeginMarkBad, BeginWrite
    <2> QED
      BY <2>2, <2>3, <2>4 DEF User
  <1>3. pc \in Rests
    BY <1>1 DEF Rests
  <1> QED
    BY <1>1, <1>2, <1>3, CalmFind

(* An attach that creates the tables anew: after a signature that it found, *)
(* and after one that it wrote.                                             *)
LEMMA SignatureKnownFind == FindInv /\ (CreateExisting \/ SigWritten) => Find'
  <1> SUFFICES ASSUME FindInv, CreateExisting \/ SigWritten PROVE Find'
    OBVIOUS
  <1>1. UNCHANGED <<flash, marked, protected>> /\ pc' \in {"create", "failed"}
    BY DEF CreateExisting, SigWritten, StartAttach, RamStep, chip
  <1>2. FoundSig' = FoundSig
    BY <1>1 DEF FoundSig, SigBlocks
  <1>3. ~protected
    <2>1. CASE pc = "off"
      BY <2>1 DEF FindInv, CurrentInv, AsideInv, IInv, Off
    <2>2. CASE pc = "ret"
      BY <2>2 DEF FindInv, ProtectedRests, Working
    <2> QED
      BY <2>1, <2>2 DEF CreateExisting, StartAttach, SigWritten, Returned
  <1>4. TablesFindable' /\ LoopOnGood' /\ UpdateHasTables' /\ ProtectedRests'
    BY <1>1, <1>2, <1>3
       DEF FindInv, TablesFindable, LoopOnGood, UpdateHasTables, ProtectedRests, Working
  <1>5. SignatureFound'
    <2>1. CASE signature_ba' \in FoundSig
      <3>1. FoundSig = {signature_ba'}
        BY <2>1, OneSignature
      <3> QED
        BY <1>1, <1>2, <3>1 DEF SignatureFound, Working
    <2>2. CASE SigWritten /\ w.ok /\ signature_ba' = w.ba
      <3>1. SigBlocks = {w.ba}
        <4>1. pc = "ret" /\ w.then = "sig"
          BY <2>2 DEF SigWritten, Returned
        <4>2. w.mode = "sig"
          BY <4>1 DEF FindInv, CurrentInv, AsideInv, IInv, Work, Working, Confined, TableSteps,
                      RangeSteps
        <4> QED
          BY <2>2, <4>1, <4>2 DEF FindInv, SignatureFound, Working
      <3>2. w.ba \in Int
        BY DEF FindInv, CurrentInv, AsideInv, IInv, TypeOK, Jobs
      <3>3. FoundSig = {w.ba}
        BY <3>1, <3>2 DEF FoundSig
      <3> QED
        BY <2>2, <3>3, <2>1
    <2>3. CASE signature_ba' = signature_ba
      BY <1>1, <1>2, <2>3 DEF FindInv, SignatureFound, Working
    <2> QED
      BY <2>1, <2>2, <2>3 DEF CreateExisting, SigWritten
  <1> QED
    BY <1>4, <1>5 DEF Find

---------------------------------------------------------------------------------
(* The operations on the flash: the block worked on holds neither the       *)
(* signature nor, afterwards, a table that an attach would not find.        *)

(* A step that changes one block.                                           *)
Touches(x) ==
  /\ \A b \in Blocks \ {x} : flash'[b] = flash[b]
  /\ marked \subseteq marked' /\ marked' \subseteq marked \cup {x}
  /\ flash'[x] = Sig => flash[x] = Sig

Findable(t, b, sig) ==
  t.state[b] = "good" /\ \A lb \in LogicBlocks : t.mapping[lb] # sig

LEMMA TouchFind ==
  ASSUME FindInv, signature_ba # 0, NEW x \in Blocks \ {signature_ba}, Touches(x),
         flash'[x].kind = "table" =>
           flash'[x] = flash[x] \/ Findable(flash'[x], x, signature_ba)
  PROVE  FoundSig' = {signature_ba} /\ TablesFindable'
  <1>1. FoundSig = {signature_ba} /\ signature_ba \in Blocks
    BY DEF FindInv, SignatureFound, CurrentInv, AsideInv, IInv, TypeOK
  <1>2. signature_ba \in SigBlocks
    BY <1>1 DEF FoundSig
  <1>3. SigBlocks' \subseteq SigBlocks
    BY DEF SigBlocks, Touches
  <1>4. signature_ba \in SigBlocks'
    BY <1>1, <1>2 DEF SigBlocks, Touches
  <1>5. FoundSig' = {signature_ba}
    BY <1>1, <1>3, <1>4, SignatureLeft
  <1>6. ASSUME NEW b \in Blocks, flash'[b].kind = "table"
        PROVE  Findable(flash'[b], b, signature_ba)
    <2>1. CASE flash'[b] = flash[b]
      BY <1>1, <1>6, <2>1 DEF FindInv, TablesFindable, Findable
    <2>2. CASE flash'[b] # flash[b]
      BY <1>6, <2>2 DEF Touches
    <2> QED
      BY <2>1, <2>2
  <1> QED
    BY <1>5, <1>6 DEF TablesFindable, Findable

(* The block of a loop, before and after the signature is known.            *)
LEMMA LoopBlock ==
  ASSUME FindInv, pc \in {"erase", "prog", "mark"}
  PROVE  /\ w \in Jobs /\ w.ba \in Blocks /\ MgmtStart <= w.ba /\ ~protected
         /\ flash \in [Blocks -> Contents] /\ marked \subseteq Blocks
         /\ w.mode \in {"table", "range", "sig"}
         /\ w.mode # "sig" => signature_ba # 0 /\ w.ba \in Blocks \ {signature_ba}
                              /\ w.ba \in w.from .. w.lim - 1
         /\ w.mode = "sig" => signature_ba = 0 /\ w.then = "sig"
                              /\ (\A b \in Blocks : flash[b].kind # "table")
                              /\ SigBlocks = {}
  <1>1. /\ w \in Jobs /\ w.ba \in Blocks /\ w.ba \in Ahead(w) /\ Confined(w)
        /\ signature_ba \in Blocks
        /\ flash \in [Blocks -> Contents] /\ marked \subseteq Blocks
    BY DEF FindInv, CurrentInv, AsideInv, IInv, TypeOK, Work, Working
  <1>2. ~protected
    BY DEF FindInv, ProtectedRests, Working
  <1>3. CASE w.mode = "sig"
    <2>1. /\ signature_ba = 0 /\ w.then = "sig" /\ w.lim = MgmtStart
      BY <1>1, <1>3 DEF Confined, TableSteps, RangeSteps
    <2>2. (\A b \in Blocks : flash[b].kind # "table") /\ SigBlocks = {}
      BY <1>3 DEF FindInv, SignatureFound, Working
    <2>3. MgmtStart <= w.ba
      BY <1>1, <1>3, <2>1, ChipAssumption DEF Ahead, Jobs
    <2> QED
      BY <1>1, <1>2, <1>3, <2>1, <2>2, <2>3
  <1>4. CASE w.mode # "sig"
    <2>1. /\ w.mode \in {"table", "range"} /\ MgmtStart <= w.ba /\ w.lim < signature_ba
      BY <1>1, <1>4 DEF Confined
    <2>2. w.ba < w.lim /\ w.lim \in Nat /\ w.from \in Nat /\ w.ba \in Int
      BY <1>1, <1>4 DEF Ahead, Jobs
    <2>3. w.from <= w.ba
      BY <1>4 DEF FindInv, CurrentInv, AsideInv, LoopAside, Working
    <2>4. signature_ba \in Nat /\ MgmtStart \in Nat
      BY <1>1, ChipAssumption DEF Blocks
    <2> QED
      BY <1>1, <1>2, <1>4, <2>1, <2>2, <2>3, <2>4
  <1> QED
    BY <1>3, <1>4

(* While the signature is written there is no other, and no table.          *)
SigAfter ==
  /\ flash'[w.ba].kind # "table"
  /\ pc' \in {"erase", "prog"} => w'.ba \notin marked'
  /\ IF pc' = "ret" /\ w'.ok
     THEN w'.ba = w.ba /\ w.ba \notin marked' /\ flash'[w.ba] = Sig
     ELSE flash'[w.ba] = Sig => flash[w.ba] = Sig

LEMMA SigLoopFind ==
  ASSUME FindInv, pc \in {"erase", "prog", "mark"}, w.mode = "sig", UNCHANGED signature_ba,
         \A b \in Blocks \ {w.ba} : flash'[b] = flash[b], marked \subseteq marked', SigAfter
  PROVE  SignatureFound' /\ TablesFindable'
  <1>1. /\ signature_ba = 0 /\ (\A b \in Blocks : flash[b].kind # "table")
        /\ SigBlocks = {} /\ w.ba \in Blocks /\ MgmtStart <= w.ba
    BY LoopBlock
  <1>2. \A b \in Blocks : flash'[b].kind # "table"
    BY <1>1 DEF SigAfter
  <1>3. SigBlocks' = IF pc' = "ret" /\ w'.ok THEN {w'.ba} ELSE {}
    <2>1. ASSUME NEW b \in SigBlocks' PROVE pc' = "ret" /\ w'.ok /\ b = w'.ba
      <3>1. b \notin SigBlocks
        BY <1>1
      <3>2. flash[b] # Sig
        BY <2>1, <3>1 DEF SigBlocks
      <3> QED
        BY <2>1, <3>2 DEF SigBlocks, SigAfter
    <2>2. pc' = "ret" /\ w'.ok => w'.ba \in SigBlocks'
      BY <1>1, ChipAssumption DEF SigBlocks, SigAfter, Blocks
    <2> QED
      BY <2>1, <2>2
  <1>4. SignatureFound'
    BY <1>1, <1>2, <1>3 DEF SignatureFound, SigAfter
  <1>5. TablesFindable'
    BY <1>2 DEF TablesFindable
  <1> QED
    BY <1>4, <1>5

LEMMA LoopFind ==
  ASSUME FindInv, pc \in {"erase", "prog", "mark"}, UNCHANGED Frame, LoopOnGood',
         pc' \in {"erase", "prog", "mark", "ret"},
         w'.mode = w.mode, w'.then = w.then, w'.from = w.from,
         \A b \in Blocks \ {w.ba} : flash'[b] = flash[b],
         marked \subseteq marked', marked' \subseteq marked \cup {w.ba},
         w.mode = "sig" => SigAfter,
         w.mode # "sig" =>
           /\ flash'[w.ba] = Sig => flash[w.ba] = Sig
           /\ flash'[w.ba].kind = "table" =>
                flash'[w.ba] = flash[w.ba] \/ Findable(flash'[w.ba], w.ba, signature_ba)
  PROVE  Find'
  <1>1. UNCHANGED <<signature_ba, main_table_ba, protected>>
    BY DEF Frame, tables, regions
  <1>2. ProtectedRests'
    BY <1>1, LoopBlock DEF ProtectedRests
  <1>3. UpdateHasTables'
    <2>1. SUFFICES ASSUME w.then = "once_backup"
                   PROVE  IsTable(main_table_ba)' /\ main_table_ba < w.from
      BY <1>1 DEF UpdateHasTables
    <2>2. IsTable(main_table_ba) /\ main_table_ba < w.from
      BY <2>1 DEF FindInv, UpdateHasTables, Working
    <2>3. w.mode # "sig"
      BY <2>1, LoopBlock
    <2>4. main_table_ba \in Nat /\ main_table_ba < w.ba /\ w.ba \in Blocks
      BY <2>2, <2>3, LoopBlock DEF FindInv, CurrentInv, AsideInv, IInv, TypeOK, Jobs
    <2>5. main_table_ba \in Blocks \ {w.ba}
      BY <2>4, ChipAssumption DEF Blocks
    <2> QED
      BY <1>1, <2>2, <2>5 DEF IsTable
  <1>4. SignatureFound' /\ TablesFindable'
    <2>1. CASE w.mode = "sig"
      BY <1>1, <2>1, SigLoopFind
    <2>2. CASE w.mode # "sig"
      <3>1. w.ba \in Blocks \ {signature_ba} /\ signature_ba # 0 /\ Touches(w.ba)
        BY <2>2, LoopBlock DEF Touches
      <3>2. FoundSig' = {signature_ba} /\ TablesFindable'
        BY <2>2, <3>1, TouchFind
      <3> QED
        BY <1>1, <2>2, <3>2 DEF SignatureFound
    <2> QED
      BY <2>1, <2>2
  <1> QED
    BY <1>2, <1>3, <1>4 DEF Find

(* The next block of a loop: a good one that is not marked.                 *)
LEMMA NextFind ==
  ASSUME FindInv, CurrentInv', pc \in {"erase", "mark"}, UNCHANGED Frame,
         \A b \in Blocks \ {w.ba} : flash'[b] = flash[b],
         marked \subseteq marked', marked' \subseteq marked \cup {w.ba},
         NEW s \in States, \A b \in Blocks : s[b] = "good" => Good(b),
         NEW c \in BOOLEAN, Seek(NextBlock(w), s, c),
         flash'[w.ba] = flash[w.ba] \/ flash'[w.ba] = Blank
  PROVE  Find'
  <1> DEFINE job == NextBlock(w)
  <1>1. w \in Jobs /\ w.ba \in Int /\ w.ba \in Blocks /\ w.mode \in {"table", "range", "sig"}
    BY LoopBlock DEF Jobs
  <1>2. /\ job \in Jobs /\ job.mode = w.mode /\ job.then = w.then
        /\ job.from = w.from /\ w.ba \notin Ahead(job)
    <2>1. w.ba - 1 \in Int /\ w.ba + 1 \in Int
      BY <1>1
    <2>2. /\ job \in Jobs /\ job.mode = w.mode /\ job.then = w.then
          /\ job.from = w.from
          /\ job.ba = IF w.mode = "sig" THEN w.ba - 1 ELSE w.ba + 1
      BY <1>1, <2>1 DEF NextBlock, Jobs
    <2> QED
      BY <1>1, <2>2 DEF Ahead, Jobs
  <1>3. Seek(job, s, c)
    OBVIOUS
  <1> HIDE DEF job
  <1>4. /\ pc' = "erase" => w'.ba \notin marked /\ w'.ba \in Ahead(job)
        /\ pc' = "ret" /\ w'.ok => job.mode = "range"
    BY <1>2, <1>3, SeekBegins
  <1>5. Sought(w.mode, w.then, w.from, s)
    BY <1>2, <1>3, SeekGood
  <1>6. UNCHANGED info_table_cache
    BY DEF Frame, tables
  <1>7. LoopOnGood'
    <2>1. w.mode = "table" =>
            \A b \in Blocks : s[b] = "good" => info_table_cache'.state[b] = "good"
      BY <1>6 DEF FindInv, LoopOnGood, Working
    <2> QED
      BY <1>5, <2>1, LoopEntered
  <1>8. /\ flash'[w.ba] = Sig => flash[w.ba] = Sig
        /\ flash'[w.ba].kind = "table" => flash'[w.ba] = flash[w.ba]
    BY NotSig DEF Blank
  <1>9. w.mode = "sig" => SigAfter
    <2>1. SUFFICES ASSUME w.mode = "sig" PROVE SigAfter
      OBVIOUS
    <2>2. flash[w.ba].kind # "table"
      BY <1>1, <2>1, LoopBlock
    <2>3. w'.ba \notin marked' \/ pc' # "erase"
      BY <1>2, <1>4
    <2> QED
      BY <1>2, <1>4, <1>5, <1>8, <2>1, <2>2, <2>3 DEF SigAfter, Sought
  <1>10. /\ pc' \in {"erase", "ret"}
         /\ w'.mode = w.mode /\ w'.then = w.then /\ w'.from = w.from
    BY <1>5 DEF Sought
  <1> QED
    BY <1>7, <1>8, <1>9, <1>10, LoopFind

LEMMA EraseOkFind == FindInv /\ CurrentInv' /\ EraseOk => Find'
  <1> SUFFICES ASSUME FindInv, CurrentInv', EraseOk PROVE Find'
    OBVIOUS
  <1>1. /\ pc = "erase" /\ UNCHANGED Frame /\ UNCHANGED marked
        /\ block_state \in States /\ changed \in BOOLEAN
        /\ flash \in [Blocks -> Contents] /\ w.ba \in Blocks
        /\ flash' = [flash EXCEPT ![w.ba] = Blank]
    BY DEF FindInv, CurrentInv, AsideInv, IInv, TypeOK, EraseOk, Frame, States
  <1>2. (\A b \in Blocks \ {w.ba} : flash'[b] = flash[b]) /\ flash'[w.ba] = Blank
    BY <1>1
  <1>3. CASE Seek(NextBlock(w), block_state, changed)
    BY <1>1, <1>2, <1>3, NextFind DEF Good
  <1>4. CASE pc' = "prog" /\ UNCHANGED <<w, block_state>>
    <2>1. LoopOnGood'
      BY <1>1, <1>4 DEF FindInv, LoopOnGood, Working, Good, Frame, tables
    <2>2. Blank # Sig /\ Blank.kind # "table"
      BY NotSig DEF Blank
    <2>3. w.mode = "sig" => w.ba \notin marked
      BY <1>1 DEF FindInv, SignatureFound, Working
    <2>4. w.mode = "sig" => SigAfter
      BY <1>1, <1>2, <1>4, <2>2, <2>3 DEF SigAfter
    <2> QED
      BY <1>1, <1>2, <1>4, <2>1, <2>2, <2>4, LoopFind
  <1> QED
    BY <1>3, <1>4 DEF EraseOk

LEMMA LoopFailFind == FindInv /\ (EraseFail \/ ProgramFail) => Find'
  <1> SUFFICES ASSUME FindInv, EraseFail \/ ProgramFail PROVE Find'
    OBVIOUS
  <1>1. /\ pc \in {"erase", "prog"} /\ UNCHANGED Frame /\ UNCHANGED <<w, marked, block_state>>
        /\ pc' = "mark" /\ flash \in [Blocks -> Contents] /\ w.ba \in Blocks
        /\ flash' = flash \/ flash' = [flash EXCEPT ![w.ba] = Junk]
    BY DEF FindInv, CurrentInv, AsideInv, IInv, TypeOK, EraseFail, ProgramFail, Frame
  <1>2. /\ \A b \in Blocks \ {w.ba} : flash'[b] = flash[b]
        /\ flash'[w.ba] = flash[w.ba] \/ flash'[w.ba] = Junk
    BY <1>1
  <1>3. LoopOnGood'
    BY <1>1 DEF FindInv, LoopOnGood, Working, Good, Frame, tables
  <1>4. Junk # Sig /\ Junk.kind # "table"
    BY NotSig DEF Junk
  <1>5. w.mode = "sig" => SigAfter
    <2>1. w.mode = "sig" => flash[w.ba].kind # "table"
      BY <1>1, LoopBlock
    <2> QED
      BY <1>1, <1>2, <1>4, <2>1 DEF SigAfter
  <1> QED
    BY <1>1, <1>2, <1>3, <1>4, <1>5, LoopFind

LEMMA MarkBlockFind == FindInv /\ CurrentInv' /\ MarkBlock => Find'
  <1> SUFFICES ASSUME FindInv, CurrentInv', MarkBlock PROVE Find'
    OBVIOUS
  <1>1. /\ pc = "mark" /\ UNCHANGED Frame /\ UNCHANGED flash /\ block_state \in States
        /\ marked \subseteq marked' /\ marked' \subseteq marked \cup {w.ba}
        /\ Seek(NextBlock(w), SetBad(block_state, w.ba), TRUE)
    BY DEF FindInv, CurrentInv, AsideInv, IInv, TypeOK, MarkBlock, MarkPhys, Frame, States
  <1> DEFINE s == SetBad(block_state, w.ba)
  <1>2. s \in States /\ \A b \in Blocks : s[b] = "good" => Good(b)
    BY <1>1 DEF SetBad, States, BlockStates, Good
  <1>3. Seek(NextBlock(w), s, TRUE)
    BY <1>1
  <1> HIDE DEF s
  <1> QED
    BY <1>1, <1>2, <1>3, NextFind

(* The table that was written calls its own block good, and maps nothing to *)
(* the signature's.                                                         *)
LEMMA ProgramOkFind == FindInv /\ ProgramOk => Find'
  <1> SUFFICES ASSUME FindInv, ProgramOk PROVE Find'
    OBVIOUS
  <1>1. /\ pc = "prog" /\ UNCHANGED Frame /\ UNCHANGED <<marked, block_state>>
        /\ w \in Jobs /\ w.ba \in Blocks /\ flash \in [Blocks -> Contents]
        /\ w' = [w EXCEPT !.ok = TRUE] /\ pc' = "ret"
        /\ info_table_cache \in Tables
    BY DEF FindInv, CurrentInv, AsideInv, IInv, TypeOK, ProgramOk, Frame
  <1>2. /\ w'.mode = w.mode /\ w'.then = w.then /\ w'.from = w.from /\ w'.ba = w.ba
        /\ w'.ok
    BY <1>1 DEF Jobs
  <1>3. /\ \A b \in Blocks \ {w.ba} : flash'[b] = flash[b]
        /\ flash'[w.ba] = IF w.mode = "sig" THEN Sig ELSE info_table_cache
    BY <1>1 DEF ProgramOk
  <1>4. LoopOnGood'
    BY <1>1, <1>2 DEF FindInv, LoopOnGood, Working, Good, Frame, tables
  <1>5. w.mode = "sig" => SigAfter
    <2>1. w.mode = "sig" => w.ba \notin marked
      BY <1>1 DEF FindInv, SignatureFound, Working
    <2>2. Sig.kind # "table"
      BY DEF Sig
    <2> QED
      BY <1>1, <1>2, <1>3, <2>1, <2>2 DEF SigAfter
  <1>6. w.mode # "sig" => Findable(info_table_cache, w.ba, signature_ba)
    <2>1. SUFFICES ASSUME w.mode # "sig"
                   PROVE  Findable(info_table_cache, w.ba, signature_ba)
      OBVIOUS
    <2>2. w.mode = "table" /\ info_table_cache.mapping = block_mapping
      BY <1>1, <2>1 DEF FindInv, CurrentInv, AsideInv, LoopAside, Working
    <2>3. info_table_cache.state[w.ba] = "good"
      BY <1>1, <2>2 DEF FindInv, LoopOnGood, Working
    <2>4. signature_ba # 0
      BY <1>1, <2>1, LoopBlock
    <2>5. \A lb \in LogicBlocks : block_mapping[lb] # signature_ba
      BY <2>4 DEF FindInv, CurrentInv, AsideInv, IInv, Area
    <2> QED
      BY <2>2, <2>3, <2>5 DEF Findable
  <1>7. w.mode # "sig" => flash'[w.ba] # Sig
    BY <1>1, <1>3, NotSig
  <1> QED
    BY <1>1, <1>2, <1>3, <1>4, <1>5, <1>6, <1>7, LoopFind

---------------------------------------------------------------------------------
(* The user's operation on the flash, power, and the attach.                *)

LEMMA UserWorkFind ==
  ASSUME FindInv, pc \in {"user_erase", "user_mark", "user_prog"},
         UNCHANGED <<signature_ba, regions, protected>>, Touches(op.pb),
         flash'[op.pb].kind = "table" => flash'[op.pb] = flash[op.pb],
         pc' \in {"idle", "user_mark", "update", "map"}
  PROVE  Find'
  <1>1. /\ main_table_ba' = main_table_ba /\ backup_table_ba' = backup_table_ba
        /\ signature_ba' = signature_ba /\ protected' = protected
    BY DEF regions
  <1>2. signature_ba # 0 /\ op.pb \in Blocks \ {signature_ba}
    <2>1. InOperation /\ IInv
      BY DEF InOperation, FindInv, CurrentInv, AsideInv
    <2> QED
      BY <2>1, InOperationFacts DEF CallTyped, Ops
  <1>3. FoundSig' = {signature_ba} /\ TablesFindable'
    BY <1>2, TouchFind
  <1>4. SignatureFound' /\ LoopOnGood'
    BY <1>1, <1>3 DEF SignatureFound, LoopOnGood, Working
  <1>5. ProtectedRests'
    BY <1>1, GoesOn DEF ProtectedRests, Working
  <1>6. UpdateHasTables'
    <2>1. SUFFICES ASSUME ~protected
                   PROVE  /\ IsTable(main_table_ba)'
                          /\ backup_table_ba # 0 => IsTable(backup_table_ba)'
      BY <1>1 DEF UpdateHasTables, Working
    <2>2. /\ TablesHold /\ main_table_ba \in Blocks \ {op.pb}
          /\ backup_table_ba # 0 => backup_table_ba \in Blocks \ {op.pb}
      BY <2>1, UserSpares DEF FindInv
    <2>3. IsTable(main_table_ba)'
      BY <1>1, <2>2 DEF TablesHold, HoldsMapping, IsTable, Touches
    <2>4. backup_table_ba # 0 => IsTable(backup_table_ba)'
      BY <1>1, <2>2 DEF TablesHold, HoldsMapping, IsTable, Touches
    <2> QED
      BY <2>3, <2>4
  <1> QED
    BY <1>3, <1>4, <1>5, <1>6 DEF Find

LEMMA UserFlashFind ==
  FindInv /\ (UserEraseOk \/ UserEraseFail \/ UserProgramOk \/ UserProgramFail) => Find'
  <1> SUFFICES ASSUME FindInv,
                      UserEraseOk \/ UserEraseFail \/ UserProgramOk \/ UserProgramFail
               PROVE  Find'
    OBVIOUS
  <1>1. /\ pc \in {"user_erase", "user_prog"} /\ UNCHANGED marked
        /\ UNCHANGED <<signature_ba, regions, protected>>
        /\ pc' \in {"idle", "user_mark", "update"}
    BY DEF UserEraseOk, UserEraseFail, UserProgramOk, UserProgramFail, Finish, Update,
           tables
  <1>2. /\ flash \in [Blocks -> Contents] /\ op.pb \in Blocks
        /\ op.val \in {Blank, Junk} \cup {Data(v) : v \in Values}
    BY DEF FindInv, CurrentInv, AsideInv, IInv, TypeOK
  <1>3. /\ \A b \in Blocks \ {op.pb} : flash'[b] = flash[b]
        /\ flash'[op.pb] \in {flash[op.pb], Blank, Junk, op.val}
    BY <1>2 DEF UserEraseOk, UserEraseFail, UserProgramOk, UserProgramFail
  <1>4. Blank.kind # "table" /\ Junk.kind # "table" /\ op.val.kind # "table"
    BY <1>2 DEF Blank, Junk, Data
  <1>5. Blank # Sig /\ Junk # Sig /\ op.val # Sig
    BY <1>2, NotSig
  <1>6. Touches(op.pb)
    BY <1>1, <1>3, <1>5 DEF Touches
  <1> QED
    BY <1>1, <1>3, <1>4, <1>6, UserWorkFind

LEMMA UserMarkFind == FindInv /\ UserMark => Find'
  <1> SUFFICES ASSUME FindInv, UserMark PROVE Find'
    OBVIOUS
  <1>1. /\ pc = "user_mark" /\ UNCHANGED flash /\ pc' \in {"map", "update"}
        /\ marked \subseteq marked' /\ marked' \subseteq marked \cup {op.pb}
        /\ UNCHANGED <<signature_ba, regions, protected>>
    BY DEF UserMark, MarkPhys, Update, tables
  <1>2. Touches(op.pb)
    BY <1>1 DEF Touches
  <1> QED
    BY <1>1, <1>2, UserWorkFind

(* The power fails while a block is worked on.                              *)
LEMMA CutTouches ==
  ASSUME FindInv, PowerCut
  PROVE  \/ UNCHANGED <<flash, marked>>
         \/ /\ pc \in {"erase", "prog", "user_erase", "user_prog"}
            /\ \E x \in Blocks :
                 /\ x = IF pc \in {"erase", "prog"} THEN w.ba ELSE op.pb
                 /\ \A b \in Blocks \ {x} : flash'[b] = flash[b]
                 /\ flash'[x].kind = "table" => flash'[x] = flash[x]
                 /\ signature_ba # 0 => x # signature_ba /\ Touches(x)
  <1>1. PICK c \in Interrupted.left : flash' = [flash EXCEPT ![Interrupted.ba] = c]
    BY DEF PowerCut
  <1>2. UNCHANGED marked /\ flash \in [Blocks -> Contents] /\ 0 \in Blocks /\ op.pb \in Blocks
    BY ChipAssumption DEF PowerCut, FindInv, CurrentInv, AsideInv, IInv, TypeOK, Blocks
  <1>3. Blank.kind # "table" /\ Junk.kind # "table" /\ Sig.kind # "table"
        /\ Blank # Sig /\ Junk # Sig
    BY NotSig DEF Blank, Junk, Sig
  <1>4. CASE pc \in {"erase", "prog"}
    <2>1. /\ Interrupted.ba = w.ba
          /\ Interrupted.left \subseteq {flash[w.ba], Blank, Junk, Sig}
          /\ w.mode # "sig" => Interrupted.left \subseteq {flash[w.ba], Blank, Junk}
      BY <1>4 DEF Interrupted
    <2>2. /\ w.ba \in Blocks /\ (w.mode # "sig" => w.ba # signature_ba)
          /\ (signature_ba # 0 => w.mode # "sig")
      BY <1>4, LoopBlock
    <2>3. /\ \A b \in Blocks \ {w.ba} : flash'[b] = flash[b]
          /\ flash'[w.ba] = c
      BY <1>1, <1>2, <2>1, <2>2
    <2>4. signature_ba # 0 => Touches(w.ba)
      BY <1>2, <1>3, <2>1, <2>2, <2>3 DEF Touches
    <2>5. flash'[w.ba].kind = "table" => flash'[w.ba] = flash[w.ba]
      BY <1>3, <2>1, <2>3
    <2> QED
      BY <1>4, <2>2, <2>3, <2>4, <2>5
  <1>5. CASE pc \in {"user_erase", "user_prog"}
    <2>1. /\ Interrupted.ba = op.pb
          /\ Interrupted.left \subseteq {flash[op.pb], Blank, Junk}
      BY <1>5 DEF Interrupted
    <2>2. /\ \A b \in Blocks \ {op.pb} : flash'[b] = flash[b]
          /\ flash'[op.pb] = c
      BY <1>1, <1>2, <2>1
    <2>3. signature_ba # 0 => op.pb # signature_ba
      BY DEF FindInv, CurrentInv, AsideInv, IInv, Area
    <2>4. Touches(op.pb)
      BY <1>2, <1>3, <2>1, <2>2 DEF Touches
    <2>5. flash'[op.pb].kind = "table" => flash'[op.pb] = flash[op.pb]
      BY <1>3, <2>1, <2>2
    <2> QED
      BY <1>2, <1>5, <2>2, <2>3, <2>4, <2>5
  <1>6. CASE pc \notin {"erase", "prog", "user_erase", "user_prog"}
    <2>1. Interrupted.ba = 0 /\ Interrupted.left = {flash[0]}
      BY <1>6 DEF Interrupted
    <2> QED
      BY <1>1, <1>2, <2>1
  <1> QED
    BY <1>4, <1>5, <1>6

LEMMA PowerFind == FindInv /\ (Detached \/ PowerCut) => Find'
  <1> SUFFICES ASSUME FindInv, Detached \/ PowerCut PROVE Find'
    OBVIOUS
  <1>1. signature_ba' = 0 /\ pc' = "off" /\ protected' = FALSE
    BY DEF Detached, PowerCut, PowerOff
  <1>2. SignatureFound' /\ LoopOnGood' /\ UpdateHasTables' /\ ProtectedRests'
    BY <1>1 DEF SignatureFound, LoopOnGood, UpdateHasTables, ProtectedRests, Working
  <1>3. TablesFindable'
    <2>1. CASE UNCHANGED <<flash, marked>>
      <3>1. FoundSig' = FoundSig
        BY <2>1 DEF FoundSig, SigBlocks
      <3> QED
        BY <2>1, <3>1 DEF FindInv, TablesFindable
    <2>2. CASE PowerCut /\ ~UNCHANGED <<flash, marked>>
      <3>1. PICK x \in Blocks :
              /\ x = IF pc \in {"erase", "prog"} THEN w.ba ELSE op.pb
              /\ \A b \in Blocks \ {x} : flash'[b] = flash[b]
              /\ flash'[x].kind = "table" => flash'[x] = flash[x]
              /\ signature_ba # 0 => x # signature_ba /\ Touches(x)
        BY <2>2, CutTouches
      <3>2. CASE signature_ba # 0
        BY <3>1, <3>2, TouchFind
      <3>3. CASE signature_ba = 0
        <4>1. pc \in {"erase", "prog"} /\ w.mode = "sig"
          <5>1. pc \in {"erase", "prog", "user_erase", "user_prog"}
            BY <2>2, CutTouches
          <5> QED
            BY <3>3, <5>1 DEF FindInv, CurrentInv, AsideInv, IInv, NoArea, Working
        <4>2. \A b \in Blocks : flash[b].kind # "table"
          BY <4>1, LoopBlock
        <4>3. \A b \in Blocks : flash'[b].kind # "table"
          BY <3>1, <4>2
        <4> QED
          BY <4>3 DEF TablesFindable
      <3> QED
        BY <3>2, <3>3
    <2> QED
      BY <2>1, <2>2 DEF Detached, chip
  <1> QED
    BY <1>2, <1>3 DEF Find

(* The signature is written to a chip that has none, and no table either.   *)
LEMMA CreateNewFind == FindInv /\ CurrentInv' /\ CreateNew => Find'
  <1> SUFFICES ASSUME FindInv, CurrentInv', CreateNew PROVE Find'
    OBVIOUS
  <1>1. /\ pc = "off" /\ UNCHANGED <<flash, marked, signature_ba, protected>>
        /\ FoundSig = {}
    BY DEF CreateNew, StartAttach, chip
  <1>2. signature_ba' = 0 /\ ~protected'
    BY <1>1 DEF FindInv, CurrentInv, AsideInv, IInv, Off
  <1>3. SigBlocks' = {}
    BY <1>1, SignatureExists DEF SigBlocks
  <1>4. \A b \in Blocks : flash'[b].kind # "table"
    BY <1>1 DEF FindInv, TablesFindable
  <1> DEFINE job == [Job("sig", MgmtStart, MgmtStart, "sig") EXCEPT !.ba = BlockCount - 1]
  <1>5. job \in Jobs /\ job.mode = "sig" /\ job.then = "sig"
    <2> DEFINE old == Job("sig", MgmtStart, MgmtStart, "sig")
    <2>1. old \in Jobs /\ old.then = "sig" /\ old.mode = "sig"
      BY ChipAssumption DEF Job, Jobs, Continuations
    <2> HIDE DEF old
    <2>2. BlockCount - 1 \in Int
      BY ChipAssumption
    <2>3. job = [old EXCEPT !.ba = BlockCount - 1]
      BY DEF old
    <2> HIDE DEF job
    <2> QED
      BY <2>1, <2>2, <2>3 DEF Jobs
  <1>6. Seek(job, Scanned(AllGood), marked # {})
    BY DEF CreateNew
  <1> HIDE DEF job
  <1>7. /\ pc' = "erase" => w'.ba \notin marked
        /\ pc' = "ret" => ~w'.ok
    BY <1>5, <1>6, SeekBegins
  <1>8. Sought("sig", "sig", job.from, Scanned(AllGood))
    BY <1>5, <1>6, SeekGood
  <1>9. LoopOnGood'
    BY <1>8, LoopEntered
  <1>10. SignatureFound'
    BY <1>1, <1>2, <1>3, <1>4, <1>7, <1>8 DEF SignatureFound, Sought
  <1>11. TablesFindable' /\ UpdateHasTables' /\ ProtectedRests'
    BY <1>2, <1>4, <1>8 DEF TablesFindable, UpdateHasTables, ProtectedRests, Sought
  <1> QED
    BY <1>9, <1>10, <1>11 DEF Find

(* The table an attach writes in holds the block states that it loaded.     *)
LEMMA LoadExistingFind == FindInv /\ CurrentInv' /\ LoadExisting => Find'
  <1> SUFFICES ASSUME FindInv, CurrentInv', LoadExisting PROVE Find'
    OBVIOUS
  <1>1. PICK sig \in FoundSig, Ecc \in SUBSET Torn :
          signature_ba' = sig /\ \E m \in MainFound(sig) : LoadTable(m, sig, Ecc)
    BY DEF LoadExisting
  <1>2. PICK m \in MainFound(sig) : LoadTable(m, sig, Ecc)
    BY <1>1
  <1> DEFINE state == LoadedState(m, sig, Ecc)
  <1>3. /\ UNCHANGED <<flash, marked, protected>> /\ pc = "off"
        /\ info_table_cache'.state = state
    BY <1>2 DEF LoadExisting, StartAttach, chip, LoadTable, InfoTable
  <1>4. ~protected'
    BY <1>3 DEF FindInv, CurrentInv, AsideInv, IInv, Off
  <1>5. FoundSig' = {signature_ba'}
    <2>1. FoundSig' = FoundSig
      BY <1>3 DEF FoundSig, SigBlocks
    <2> QED
      BY <1>1, <2>1, OneSignature
  <1>6. TablesFindable'
    <2>1. FoundSig' = FoundSig
      BY <1>3 DEF FoundSig, SigBlocks
    <2> QED
      BY <1>3, <2>1 DEF FindInv, TablesFindable
  <1>7. ProtectedRests'
    BY <1>4 DEF ProtectedRests
  <1>8. \/ pc' = "leave"
        \/ \E then \in {"front", "update_main", "update_backup"} : \E lo :
             Sought("table", then, lo, state)
    <2>1. /\ m \in Nat /\ \A b \in BackupFound(m, sig) : b \in Nat
          /\ \A k \in Blocks : \A u \in Top(k, sig) : u \in Nat
      <3>1. sig \in Blocks /\ flash \in [Blocks -> Contents]
        BY FoundSigRange DEF FindInv, CurrentInv, AsideInv, IInv, TypeOK
      <3> QED
        BY <3>1, FoundRange DEF Top, Blocks
    <2>2. Kept(m, sig) \in Blocks
      BY FoundSigRange, FoundRange DEF FindInv, CurrentInv, AsideInv, IInv, TypeOK
    <2>3. \/ \E c : RescueSingle(m, state, c)
          \/ \E b \in BackupFound(m, sig) :
               \/ Leave(TRUE)
               \/ Seek(Job("table", m, b, "update_main"), state, TRUE)
               \/ \E u \in Top(Kept(m, sig), sig) :
                    Seek(Job("table", b, u, "update_backup"), state, TRUE)
      BY <1>2 DEF LoadTable
    <2> HIDE DEF state
    <2>4. ASSUME NEW c, RescueSingle(m, state, c)
          PROVE  Sought("table", "front", MgmtStart, state)
      BY <2>1, <2>4, RescueSought
    <2>5. ASSUME NEW b \in BackupFound(m, sig),
                 Seek(Job("table", m, b, "update_main"), state, TRUE)
          PROVE  Sought("table", "update_main", m, state)
      BY <2>1, <2>5, JobSought DEF Continuations
    <2>6. ASSUME NEW b \in BackupFound(m, sig), NEW u \in Top(Kept(m, sig), sig),
                 Seek(Job("table", b, u, "update_backup"), state, TRUE)
          PROVE  Sought("table", "update_backup", b, state)
      BY <2>1, <2>2, <2>6, JobSought DEF Continuations
    <2>7. ASSUME Leave(TRUE) PROVE pc' = "leave"
      BY <2>7 DEF Leave
    <2> QED
      BY <2>3, <2>4, <2>5, <2>6, <2>7
  <1> HIDE DEF state
  <1>9. SignatureFound' /\ UpdateHasTables'
    BY <1>5, <1>8 DEF SignatureFound, UpdateHasTables, Sought, Working
  <1>10. LoopOnGood'
    <2>1. CASE pc' = "leave"
      BY <2>1 DEF LoopOnGood, Working
    <2>2. CASE pc' # "leave"
      <3>1. PICK then, lo : Sought("table", then, lo, state)
        BY <1>8, <2>2
      <3> QED
        BY <1>3, <3>1, LoopEntered
    <2> QED
      BY <2>1, <2>2
  <1> QED
    BY <1>6, <1>7, <1>9, <1>10 DEF Find

---------------------------------------------------------------------------------
(* FindInv, and the theorems.                                               *)

LEMMA InitFind == Init => FindInv
  <1> SUFFICES ASSUME Init PROVE FindInv
    OBVIOUS
  <1>1. SignatureFound /\ LoopOnGood /\ UpdateHasTables /\ ProtectedRests
    BY DEF Init, SignatureFound, LoopOnGood, UpdateHasTables, ProtectedRests, Working
  <1>2. TablesFindable
    BY DEF Init, TablesFindable, Blank
  <1> QED
    BY <1>1, <1>2, InitTables DEF FindInv

LEMMA StutterFind == FindInv /\ UNCHANGED vars => Find'
  <1> SUFFICES ASSUME FindInv, UNCHANGED vars PROVE Find'
    OBVIOUS
  <1> USE DEF vars, chip, regions, tables, control, FindInv
  <1>1. FoundSig' = FoundSig /\ SigBlocks' = SigBlocks
    BY DEF FoundSig, SigBlocks
  <1>2. SignatureFound' /\ TablesFindable'
    BY <1>1 DEF SignatureFound, TablesFindable, Working
  <1>3. LoopOnGood' /\ UpdateHasTables' /\ ProtectedRests'
    BY DEF LoopOnGood, UpdateHasTables, ProtectedRests, Working, Good, IsTable
  <1> QED
    BY <1>2, <1>3 DEF Find

LEMMA StepFind ==
  FindInv /\ RemapTakesTop /\ CountIdentifies /\ [Next]_vars => FindInv'
  <1> SUFFICES ASSUME FindInv, CurrentInv', [Next]_vars
               PROVE  Find'
    BY StepTables DEF FindInv, Find
  <1>1. CASE Attach
    BY <1>1, CreateNewFind, LoadExistingFind, SignatureKnownFind, CreatedFind DEF Attach
  <1>2. CASE User
    BY <1>2, UserFind
  <1>3. CASE PowerCut
    BY <1>3, PowerFind
  <1>4. CASE Driver
    <2>1. CASE EraseOk \/ EraseFail \/ ProgramOk \/ ProgramFail \/ MarkBlock
      BY <2>1, EraseOkFind, LoopFailFind, ProgramOkFind, MarkBlockFind
    <2>2. CASE RebuildMain \/ RebuildBackup \/ Cleaned
      BY <2>2, RebuildFind
    <2>3. CASE RescueFront \/ RescueBehind \/ RescueBehindCleaned
      BY <2>3, RescueSingleFind
    <2>4. CASE UpdateMain \/ UpdateBackup \/ UpdateOver \/ UpdateOnce
      BY <2>4, UpdateSingleFind, UpdateOverFind, UpdateOnceFind
    <2>5. CASE OnceBackup \/ OnceMain \/ RescueTemporary \/ RescueNewMain
      BY <2>5, OnceBackupFind, OnceMainFind, RescueMainFind
    <2>6. CASE MapForErase \/ MapFailed \/ PoolClosed
      BY <2>6, CallGoesOnFind
    <2>7. CASE SigWritten \/ CreateTables \/ RemapTail \/ Created
      BY <2>7, SignatureKnownFind, CreateTablesFind, CallGoesOnFind, CreatedFind
    <2>8. CASE LeaveUpdate \/ LeaveLoad \/ LeaveCreate
      BY <2>8, LeaveFind
    <2>9. CASE EraseRetry \/ UserEraseOk \/ UserEraseFail \/ UserMark
      BY <2>9, CallGoesOnFind, UserFlashFind, UserMarkFind
    <2>10. CASE UserProgramOk \/ UserProgramFail \/ Unmap \/ Detached
      BY <2>10, UserFlashFind, CallGoesOnFind, PowerFind
    <2> QED
      BY <1>4, <2>1, <2>2, <2>3, <2>4, <2>5, <2>6, <2>7, <2>8, <2>9, <2>10
         DEF Driver
  <1>5. CASE UNCHANGED vars
    BY <1>5, StutterFind
  <1> QED
    BY <1>1, <1>2, <1>3, <1>4, <1>5 DEF Next

(* An attach finds a signature and a table, and the layer finds both again: *)
(* on the condition of AsideInvariance the tables it counts on are there    *)
(* for the next attach as well.                                             *)
THEOREM FindInvariance ==
  Spec /\ [](RemapTakesTop /\ CountIdentifies) => []FindInv
  BY InitFind, StepFind, PTL DEF Spec

---------------------------------------------------------------------------------
(* The last table is erased only when it is alone.                          *)

(* A table other than the one in block x, if there is one.                  *)
Spare(x) ==
  \E b \in Blocks \ {x} : IsTable(b) /\ MgmtStart <= b /\ b + 1 < signature_ba

(* What a block of the chip may become while all others stay.               *)
OnlyAt(x) ==
  /\ \A b \in Blocks \ {x} : flash'[b] = flash[b]
  /\ marked' \subseteq marked \cup {x}

(* The tables on record lie below the pool, and that below the signature.   *)
LEMMA OnRecord ==
  ASSUME FindInv, signature_ba # 0, pc \notin {"create", "failed"},
         NEW b, b \in {main_table_ba, backup_table_ba}, b # 0
  PROVE  b \in Nat /\ MgmtStart <= b /\ b + 1 < signature_ba
  <1>1. /\ main_table_ba \in Nat /\ backup_table_ba \in Nat
        /\ mapping_blocks_ba \in Nat /\ MgmtStart \in Nat /\ signature_ba \in Nat
    BY AsideTypes, ChipAssumption
       DEF FindInv, CurrentInv, AsideInv, IInv, TypeOK, Blocks
  <1>2. InArea(b) /\ InArea(mapping_blocks_ba)
    BY DEF FindInv, CurrentInv, AsideInv, IInv, Area
  <1>3. b < mapping_blocks_ba
    BY <1>1 DEF FindInv, CurrentInv, TablesApart
  <1> QED
    BY <1>1, <1>2, <1>3 DEF InArea

(* A loop that runs while there are two tables spares the one it relies on, *)
(* or the main table of an update that is to replace both.                  *)
LEMMA LoopSpares ==
  ASSUME FindInv, pc \in {"erase", "prog", "mark"}, backup_table_ba # 0
  PROVE  Spare(w.ba)
  <1>1. /\ w \in Jobs /\ w.ba \in Blocks /\ ~protected
        /\ signature_ba # 0 /\ w.mode # "sig" /\ w.ba \in w.from .. w.lim - 1
    <2>1. signature_ba # 0
      BY DEF FindInv, CurrentInv, AsideInv, IInv, NoArea
    <2> QED
      BY <2>1, LoopBlock
  <1>2. \A b \in Relied : b \in Blocks /\ IsTable(b) /\ b # w.ba
    BY <1>1 DEF FindInv, CurrentInv, LoopTables, Working, HoldsMapping, IsTable
  <1>3. \A b \in {main_table_ba, backup_table_ba} :
          b # 0 => MgmtStart <= b /\ b + 1 < signature_ba
    BY <1>1, OnRecord
  <1>4. /\ w.then \in {"new_main", "behind_cleaned"} =>
             MgmtStart <= w.lim /\ w.lim + 1 < signature_ba
        /\ w.then \in TableSteps \cup RangeSteps
    BY <1>1 DEF FindInv, CurrentInv, AsideInv, IInv, Work, Confined, Working
  <1>5. w.then \notin {"rebuild_main", "rebuild_backup", "front", "behind"}
    BY <1>1 DEF FindInv, CurrentInv, AsideInv, LoopAside, LoopTables, Working
  <1>6. w.then # "rebuild_main" => main_table_ba # 0
    BY <1>1, <1>4
       DEF FindInv, CurrentInv, AsideInv, IInv, MainThere, TableSteps, RangeSteps
  <1>7. CASE w.then \in {"cleaned", "behind_cleaned", "update_backup"}
    <2>1. main_table_ba \in Relied
      BY <1>7 DEF Relied
    <2> QED
      BY <1>2, <1>3, <1>5, <1>6, <2>1 DEF Spare
  <1>8. CASE w.then \in {"once_main", "temporary", "update_main"}
    <2>1. backup_table_ba \in Relied
      BY <1>8 DEF Relied
    <2> QED
      BY <1>2, <1>3, <2>1 DEF Spare
  <1>9. CASE w.then = "new_main"
    <2>1. w.lim \in Relied
      BY <1>9 DEF Relied
    <2> QED
      BY <1>2, <1>4, <1>9, <2>1 DEF Spare
  <1>10. CASE w.then = "once_backup"
    <2>1. IsTable(main_table_ba) /\ main_table_ba < w.from
      BY <1>10 DEF FindInv, UpdateHasTables, Working
    <2>2. /\ main_table_ba \in Nat /\ w.from \in Nat /\ w.ba \in Int
          /\ signature_ba \in Blocks
      BY <1>1, AsideTypes DEF FindInv, CurrentInv, AsideInv, IInv, TypeOK, Jobs
    <2>3. main_table_ba \in Blocks \ {w.ba}
      BY <1>1, <1>3, <1>6, <1>10, <2>1, <2>2, ChipAssumption DEF Blocks
    <2> QED
      BY <1>3, <1>6, <1>10, <2>1, <2>3 DEF Spare
  <1> QED
    BY <1>4, <1>5, <1>7, <1>8, <1>9, <1>10
       DEF TableSteps, RangeSteps, Continuations

(* A call of the user never works on the main table.                        *)
LEMMA CallSpares ==
  ASSUME FindInv, pc \in {"user_erase", "user_mark", "user_prog"}, backup_table_ba # 0
  PROVE  Spare(op.pb) /\ signature_ba # 0
  <1>1. ~protected
    BY DEF FindInv, ProtectedRests
  <1>2. /\ main_table_ba \in Blocks \ {op.pb} /\ IsTable(main_table_ba)
    BY <1>1, UserSpares DEF FindInv, TablesHold, HoldsMapping, IsTable
  <1>3. signature_ba # 0 /\ main_table_ba # 0
    BY <1>1, Known DEF FindInv, CurrentInv, AsideInv
  <1> QED
    BY <1>2, <1>3, OnRecord DEF Spare

(* The attach finds what was spared.                                        *)
LEMMA SpareFound ==
  ASSUME FindInv, CurrentInv', FoundSig' = {signature_ba}, TablesFindable',
         NEW x, Spare(x), OnlyAt(x)
  PROVE  HoldsTable'
  <1>1. PICK b \in Blocks \ {x} : IsTable(b) /\ MgmtStart <= b /\ b + 1 < signature_ba
    BY DEF Spare
  <1>2. flash'[b].kind = "table" /\ b \notin marked'
    BY <1>1 DEF OnlyAt, IsTable
  <1>3. /\ b \in Nat /\ MgmtStart \in Nat /\ signature_ba \in Nat
    BY <1>1, ChipAssumption DEF FindInv, CurrentInv, AsideInv, IInv, TypeOK, Blocks
  <1>4. \A lb \in LogicBlocks :
          flash'[b].mapping[lb] \notin MgmtStart .. b /\ flash'[b].mapping[lb] # signature_ba
    <2>1. ClearTo(flash'[b].mapping, b + 1)
      BY <1>1, <1>2 DEF CurrentInv, AsideInv, TablesAside
    <2>2. \A lb \in LogicBlocks : flash'[b].mapping[lb] \notin MgmtStart .. b
      BY <1>3, <2>1 DEF ClearTo
    <2> QED
      BY <1>1, <1>2, <2>2 DEF TablesFindable
  <1>5. flash'[b].state[b] = "good"
    BY <1>1, <1>2 DEF TablesFindable
  <1>6. ASSUME NEW sig, sig = signature_ba PROVE MainFound(sig)' # {}
    <2>1. b \in SearchRange(MgmtStart, sig)
      BY <1>1, <1>3, <1>6 DEF SearchRange
    <2>2. b \in Hits(MgmtStart, sig, AllGood)'
      BY <1>1, <1>2, <1>4, <1>5, <1>6, <2>1 DEF Hits, Consistent, AllGood, SearchRange
    <2>3. Hits(MgmtStart, sig, AllGood)' \subseteq Blocks
      BY DEF Hits, SearchRange
    <2> DEFINE S == Hits(MgmtStart, sig, AllGood)'
    <2>4. S # {} /\ S \subseteq Blocks
      BY <2>2, <2>3
    <2>5. MainFound(sig)' = Least(S)
      BY DEF MainFound, First
    <2> HIDE DEF S
    <2> QED
      BY <2>4, <2>5, LeastExists
  <1> QED
    BY <1>6 DEF HoldsTable

(* A step that takes the last table away takes the only one.                *)
LEMMA LastTableStep ==
  ASSUME FindInv, FindInv', [Next]_vars, formatted, HoldsTable, ~HoldsTable'
  PROVE  backup_table_ba = 0
  <1> SUFFICES ASSUME backup_table_ba # 0 PROVE FALSE
    OBVIOUS
  <1>1. ~UNCHANGED <<flash, marked>>
    <2>1. SUFFICES ASSUME UNCHANGED <<flash, marked>> PROVE HoldsTable' = HoldsTable
      OBVIOUS
    <2>2. FoundSig' = FoundSig
      BY <2>1 DEF FoundSig, SigBlocks
    <2>3. ASSUME NEW sig PROVE MainFound(sig)' = MainFound(sig)
      BY <2>1 DEF MainFound, First, Least, Hits, Consistent
    <2> QED
      BY <2>2, <2>3 DEF HoldsTable
  <1>2. signature_ba # 0 /\ flash \in [Blocks -> Contents]
    BY DEF FindInv, CurrentInv, AsideInv, IInv, NoArea, TypeOK
  <1>3. ASSUME signature_ba' = signature_ba, NEW x, Spare(x), OnlyAt(x) PROVE FALSE
    <2>1. FoundSig' = {signature_ba} /\ TablesFindable'
      BY <1>2, <1>3 DEF FindInv, SignatureFound
    <2> QED
      BY <1>3, <2>1, SpareFound DEF FindInv
  <1>4. CASE EraseOk \/ EraseFail \/ ProgramOk \/ ProgramFail \/ MarkBlock
    <2>1. pc \in {"erase", "prog", "mark"} /\ signature_ba' = signature_ba
      BY <1>4 DEF EraseOk, EraseFail, ProgramOk, ProgramFail, MarkBlock,
             regions, tables
    <2>2. OnlyAt(w.ba)
      BY <1>2, <1>4
         DEF EraseOk, EraseFail, ProgramOk, ProgramFail, MarkBlock, MarkPhys, OnlyAt
    <2> QED
      BY <1>3, <2>1, <2>2, LoopSpares
  <1>5. CASE UserEraseOk \/ UserEraseFail \/ UserMark \/ UserProgramOk \/ UserProgramFail
    <2>1. /\ pc \in {"user_erase", "user_mark", "user_prog"}
          /\ signature_ba' = signature_ba
      BY <1>5
         DEF UserEraseOk, UserEraseFail, UserMark, UserProgramOk, UserProgramFail,
             Update, Finish, tables
    <2>2. OnlyAt(op.pb)
      BY <1>2, <1>5
         DEF UserEraseOk, UserEraseFail, UserMark, UserProgramOk, UserProgramFail,
             MarkPhys, OnlyAt
    <2> QED
      BY <1>3, <2>1, <2>2, CallSpares
  <1>6. CASE PowerCut
    <2>1. PICK x \in Blocks :
            /\ pc \in {"erase", "prog", "user_erase", "user_prog"}
            /\ x = IF pc \in {"erase", "prog"} THEN w.ba ELSE op.pb
            /\ \A b \in Blocks \ {x} : flash'[b] = flash[b]
            /\ flash'[x].kind = "table" => flash'[x] = flash[x]
            /\ x # signature_ba /\ Touches(x)
      BY <1>1, <1>2, <1>6, CutTouches
    <2>2. FoundSig' = {signature_ba} /\ TablesFindable'
      BY <1>2, <2>1, TouchFind
    <2>3. Spare(x)
      BY <2>1, LoopSpares, CallSpares
    <2>4. OnlyAt(x)
      BY <2>1 DEF Touches, OnlyAt
    <2> QED
      BY <2>2, <2>3, <2>4, SpareFound DEF FindInv
  <1>7. CASE Attach \/ User \/ Detached \/ UNCHANGED vars
    BY <1>1, <1>7
       DEF Attach, User, Detached, vars, chip, Refuse, Read, BeginErase, BeginWrite,
           BeginMarkBad, Begin, Detach, CreateNew, LoadExisting, CreateExisting,
           AttachFails, StartAttach
  <1>8. CASE RebuildMain \/ RebuildBackup \/ Cleaned \/ RescueFront \/ RescueBehind
             \/ RescueBehindCleaned \/ UpdateMain \/ UpdateBackup \/ UpdateOver
             \/ UpdateOnce \/ OnceBackup \/ OnceMain \/ RescueTemporary
             \/ RescueNewMain
    BY <1>1, <1>8
       DEF RamStep, chip, RebuildMain, RebuildBackup, Cleaned, RescueFront,
           RescueBehind, RescueBehindCleaned, UpdateMain, UpdateBackup, UpdateOver,
           UpdateOnce, OnceBackup, OnceMain, RescueTemporary, RescueNewMain
  <1>9. CASE MapForErase \/ MapFailed \/ PoolClosed \/ SigWritten \/ CreateTables
             \/ RemapTail \/ Created \/ LeaveUpdate \/ LeaveLoad \/ LeaveCreate
             \/ EraseRetry \/ Unmap
    BY <1>1, <1>9
       DEF RamStep, chip, MapForErase, MapFailed, PoolClosed, SigWritten,
           CreateTables, RemapTail, Created, LeaveUpdate, LeaveLoad, LeaveCreate,
           EraseRetry, Unmap
  <1> QED
    BY <1>4, <1>5, <1>6, <1>7, <1>8, <1>9 DEF Next, Driver

(* nmbm_update_info_table_once, nmbm_load_info_table and the rescue: while  *)
(* the layer has two tables no erase, program, mark or power cut, of its    *)
(* own loops or of a call, takes the last table away that an attach would   *)
(* find.  On the condition of AsideInvariance.                              *)
THEOREM LastTableIsErasedAlone ==
  Spec /\ [](RemapTakesTop /\ CountIdentifies) => LastTableErasedOnlyAlone
  <1>1. FindInv /\ FindInv' /\ [Next]_vars
          => (formatted /\ HoldsTable /\ ~HoldsTable' => backup_table_ba = 0)
    BY LastTableStep
  <1> QED
    BY <1>1, FindInvariance, PTL DEF Spec, LastTableErasedOnlyAlone

=================================================================================
