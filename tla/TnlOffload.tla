------------------------------ MODULE TnlOffload ------------------------------
(* The tunnel table of TOPS (tnl_offload.c).  Packets of a tunnel, changes of its *)
(* neighbour's address and the end of its device change the driver's copy of a    *)
(* row, the cache, and submit the row.  One thread takes the rows submitted, sets *)
(* up the packet classification engine and copies them to the cores' memory,      *)
(* while the cores are stalled (TopsFreeze).  When the cores are reset the rows   *)
(* are lost, and submitted again once the cores are back.                         *)
(*                                                                                *)
(* The code relies on some things not to happen at certain times.  Each of them   *)
(* has a name, and happens only in behaviours whose disorder holds it; each       *)
(* property names the disorders it does not survive.                              *)
EXTENDS DipFilter, FiniteSets

CONSTANTS
  Slots,      \* the rows: tnl_infos
  Tunnels,    \* what tells tunnels apart in tnl_info_match; each has its device
  Macs,       \* the neighbours' addresses
  Local,      \* the local address of each tunnel
  Nobody,
  MaxFaults,  \* bound on how often the machine fails or is reset
  Circumstances   \* the disorders of the behaviours looked at

(* "flight": the cores are reset while the thread works on rows, or it takes rows *)
(*           or rows are submitted in the middle of the flush                     *)
(* "end":    a device ends while its row is being written or the cores are out of *)
(*           service, or they fail while a row is being deleted, or the row       *)
(*           deleted is still used, or others have the local address too          *)
(* "encap":  packets are sent through a tunnel that has not received any          *)
(* "pce":    the packet classification engine or the DMA refuses                  *)
(* "mac":    packets show a change of address before the L2 update does           *)
(* "late":   a row is submitted while the cores are not alive, after a test of    *)
(*           mtk_tops_mcu_alive or without one, or while the recovery stops them  *)
Disorders == {"flight", "end", "encap", "pce", "mac", "late"}

ASSUME SetsAssumption ==
  /\ IsFiniteSet(Slots) /\ IsFiniteSet(Tunnels)
  /\ Nobody \notin Slots \cup Tunnels \cup Macs
ASSUME LocalAssumption == Local \in [Tunnels -> Addresses]
ASSUME BoundsAssumption == MaxFaults \in Nat /\ Circumstances \subseteq SUBSET Disorders

VARIABLES
  \* the rows
  used,      \* tnl_used, and the rows in the hash table
  status,    \* the bits of status
  cache, params,
  dev,       \* the device whose packets a row decapsulates
  tcls,      \* the rows that use the classifier entry of their type
  \* the lists
  submitted, pending,   \* the rows on tnl_sync_submit and tnl_sync_pending
  toSync,    \* has_tnl_to_sync
  \* the thread
  pc,        \* where it is
  node,      \* the entry its walk of the pending list goes to next; Nobody: the head
  row,       \* the row it works on, and what it does: event and setup_pce
  \* the cores
  mcu,       \* "up", "frozen", "stopping", "stopped", "off", "booted" or "starting"
  alive,     \* mtk_tops_mcu_alive
  broken,    \* it has failed or is to be reset, and has not been stopped yet
  table,     \* external: the rows in the cores' memory
  known,     \* external: the rows the firmware was told of
  faults,
  todo,      \* the rows that the flush, or the recovery, has not come to
  zeroed,    \* the row whose params the flush has zeroed and whose lock it takes next
  disorder   \* what may happen besides; it stays as it is

rows == <<used, status, cache, params, dev, tcls>>
lists == <<submitted, pending, toSync>>
thread == <<pc, node, row>>
cores == <<mcu, alive, broken, table, known, faults>>
sweep == <<todo, zeroed>>
others == <<filter, sweep, disorder>>
vars == <<rows, lists, thread, cores, others>>

Unless(d, condition) == d \in disorder \/ condition

NoParams == [tunnel |-> Nobody, mac |-> Nobody, flag |-> {}]
NoRow == [slot |-> Nobody, event |-> "none", pce |-> FALSE]

Init ==
  /\ used = {} /\ tcls = {}
  /\ status = [s \in Slots |-> {"UNINIT"}]
  /\ cache = [s \in Slots |-> NoParams]
  /\ params = [s \in Slots |-> NoParams]
  /\ dev = [s \in Slots |-> Nobody]
  /\ submitted = {} /\ pending = {} /\ toSync = FALSE
  /\ pc = "sleep" /\ node = Nobody /\ row = NoRow
  /\ mcu = "booted" /\ alive = TRUE /\ broken = FALSE
  /\ table = [s \in Slots |-> NoParams] /\ known = {} /\ faults = 0
  /\ todo = {} /\ zeroed = Nobody /\ disorder \in Circumstances
  /\ InitFilter

--------------------------------------------------------------------------------
(* Submitting rows                                                              *)

(* tnl_info_submit_no_tnl_lock: the row goes to the tail of the list and the    *)
(* thread is woken if the cores are alive.  A row that is on a list already     *)
(* ties the lists together, and the thread goes astray in them.                 *)
Enlist(s) ==
  /\ submitted' = submitted \cup {s}
  /\ toSync' = TRUE
  /\ pc' = IF s \in submitted \cup pending THEN "astray"
           ELSE IF pc = "sleep" /\ alive THEN "check" ELSE pc
  /\ UNCHANGED <<pending, node, row>>

Queued(bits) == (bits \cup {"QUEUED"}) \ {"UPDATED"}

FaultySubmit(s, bits) ==
  /\ status' = [status EXCEPT ![s] = Queued(bits)]
  /\ Enlist(s)

(* mtk_tops_tnl_info_submit_no_tnl_lock, for a row with these status bits       *)
Submit(s, bits) ==
  IF "QUEUED" \in bits
    THEN status' = [status EXCEPT ![s] = bits] /\ UNCHANGED <<lists, thread>>
    ELSE status' = [status EXCEPT ![s] = Queued(bits)] /\ Enlist(s)

Ending == \E s \in used : "DELETING" \in status[s]
EndsNot(s) == "DELETING" \notin status[s]

--------------------------------------------------------------------------------
(* What the network does                                                        *)

(* mtk_tops_tnl_info_setup, for a packet of tunnel t in the row s               *)
Setup(s, bits, flag, t, dir, mac) ==
  /\ cache' = [cache EXCEPT
                 ![s] = [tunnel |-> t, mac |-> mac, flag |-> flag \cup {dir}]]
  /\ dev' = IF dir = "decap" THEN [dev EXCEPT ![s] = t] ELSE dev
  /\ IF dir \in flag
       THEN status' = [status EXCEPT ![s] = bits] /\ UNCHANGED <<lists, thread>>
       ELSE Submit(s, bits)
  /\ UNCHANGED <<tcls, cores, others>>

(* mtk_tops_mcu_alive at the head of mtk_tops_tnl_{decap,encap}_offload         *)
Serves == Unless("late", alive /\ mcu \notin {"stopping", "stopped"})

(* The flush and the recovery hold tbl_lock from their first row to their last.  *)
(* A row is found by its packet or device, taken and freed under that lock.     *)
TableFree == mcu \notin {"stopping", "starting"}

Offloads(s, dir) ==
  /\ Serves
  /\ Unless("encap", dir = "encap" => "decap" \in params[s].flag)

(* mtk_tops_tnl_offload: mtk_tops_tnl_info_find finds the tunnel's row          *)
Packet(t, dir, mac) ==
  \E s \in used :
    /\ TableFree /\ cache[s].tunnel = t /\ Offloads(s, dir)
    /\ Unless("end", EndsNot(s))
    /\ Unless("mac", mac = cache[s].mac)
    /\ Setup(s, status[s], cache[s].flag, t, dir, mac)
    /\ UNCHANGED <<used, params>>

(* The same, when there is none: mtk_tops_tnl_info_alloc_no_lock takes a row.   *)
FirstPacket(t, dir, mac) ==
  /\ TableFree /\ \A s \in used : cache[s].tunnel # t
  /\ \E s \in Slots \ used :
       /\ Serves /\ Unless("encap", dir = "decap")
       /\ "INIT" \notin status[s]
       /\ used' = used \cup {s}
       /\ params' = [params EXCEPT ![s] = NoParams]
       /\ Setup(s, {"INIT"}, {}, t, dir, mac)

(* mtk_tops_tnl_l2_update: the row comes from the index in the packet, and only  *)
(* its own lock is taken.  One that passed the test of mtk_tops_mcu_alive before *)
(* the reset comes in a flush during which the cores seem to be alive.           *)
L2Update(s, mac) ==
  /\ IF mcu = "stopping" THEN Unless("flight", FALSE) /\ alive ELSE Serves
  /\ s \in used /\ Unless("end", EndsNot(s))
  /\ cache' = [cache EXCEPT ![s].mac = mac]
  /\ Submit(s, status[s])
  /\ UNCHANGED <<used, params, dev, tcls, cores, others>>

(* mtk_tops_tnl_offload_netdev_down                                             *)
NetdevDown(t) ==
  \E s \in used :
    /\ TableFree /\ dev[s] = t /\ Serves
    /\ Unless("end",
         /\ status[s] = {"UPDATED"} /\ ~broken /\ mcu \in {"up", "frozen"}
         /\ cache[s].tunnel = t /\ refs[Local[t]] = 1 /\ pc # "dip")
    /\ Submit(s, status[s] \cup {"DELETING"})
    /\ UNCHANGED <<used, cache, params, dev, tcls, cores, others>>

Network ==
  \/ \E t \in Tunnels, dir \in {"decap", "encap"}, mac \in Macs :
       Packet(t, dir, mac) \/ FirstPacket(t, dir, mac)
  \/ \E s \in Slots, mac \in Macs : L2Update(s, mac)
  \/ \E t \in Tunnels : NetdevDown(t)

--------------------------------------------------------------------------------
(* The thread (tnl_sync_task)                                                   *)

At(place) == pc = place

(* Back at the head of its loop the thread has no row in hand.                   *)
GoesTo(place) ==
  /\ pc' = place /\ UNCHANGED node
  /\ row' = IF place = "walk" THEN NoRow ELSE row

Heads(R) == IF R = {} THEN {Nobody} ELSE R

(* wait_event_interruptible, then mtk_tops_tnl_sync_get_pending_queue           *)
Check ==
  /\ At("check") /\ Unless("flight", mcu # "stopping")
  /\ IF toSync /\ alive
       THEN /\ submitted' = pending /\ pending' = submitted /\ toSync' = FALSE
            /\ pc' = "walk" /\ node' \in Heads(submitted) /\ UNCHANGED row
       ELSE GoesTo("sleep") /\ UNCHANGED lists
  /\ UNCHANGED <<rows, cores, others>>

(* mtk_tops_tnl_sync_queue_proc.  The loop has loaded the entry after the one   *)
(* it works on before it does; the order of a list is not told apart.           *)
WalkEnds ==
  /\ At("walk") /\ node = Nobody
  /\ pc' = "check" /\ row' = NoRow /\ UNCHANGED node
  /\ UNCHANGED <<rows, lists, cores, others>>

(* A flush has taken the entry off the list: it leads to itself, or to the      *)
(* entries of the other list, and the loop does not end.  So does one that the  *)
(* flush took off while its neighbour was, and that is still led to.            *)
GoesAstray ==
  /\ At("walk") /\ node \in Slots
  /\ \/ node \notin pending
     \/ Unless("flight", FALSE) /\ "QUEUED" \notin status[node]
  /\ GoesTo("astray")
  /\ UNCHANGED <<rows, lists, cores, others>>

Leaves(place) ==
  /\ At("walk") /\ node \in pending
  /\ pending' = pending \ {node} /\ node' \in Heads(pending')
  /\ pc' = place

(* The update is on the fly: queued to the next round.  In fact an update that  *)
(* failed has left the bit behind.                                              *)
PutOff ==
  /\ At("walk") /\ node \in Slots /\ "UPDATING" \in status[node]
  /\ Leaves("walk")
  /\ submitted' = submitted \cup {node} /\ toSync' = TRUE
  /\ UNCHANGED <<rows, row, cores, others>>

Passes ==
  /\ At("walk") /\ node \in Slots /\ status[node] \cap {"UPDATING", "QUEUED"} = {}
  /\ Leaves("walk")
  /\ UNCHANGED <<rows, submitted, toSync, row, cores, others>>

EventOf(bits) ==
  IF "INIT" \in bits THEN "NEW" ELSE IF "DELETING" \in bits THEN "DEL" ELSE "UPDATE"

(* tnl_info_sta_updating_no_tnl_lock                                            *)
Updating(bits) == (bits \cup {"UPDATING"}) \ {"QUEUED", "UPDATED"}

FaultyBeginsToReceive(s) == "INIT" \in status[s] /\ "decap" \in cache[s].flag

(* is_decap: the packet classification engine is yet to be set up for the row   *)
BeginsToReceive(s) == "decap" \in cache[s].flag \ params[s].flag

(* The flush zeroes params without the lock of the row: also between the test of *)
(* is_decap and the copy, or while the row is copied, which then has the rest or *)
(* the flags of the one and not of the other.                                    *)
ZeroedMeanwhile ==
  /\ mcu = "stopping" /\ node \in todo /\ zeroed = Nobody
  /\ Unless("flight", FALSE)
  /\ todo' = todo \ {node} /\ zeroed' = node

PartlyZeroed(p) ==
  {p, NoParams, [p EXCEPT !.flag = {}], [NoParams EXCEPT !.flag = p.flag]}

TakeRow ==
  /\ At("walk") /\ node \in Slots
  /\ "UPDATING" \notin status[node] /\ "QUEUED" \in status[node]
  /\ LET event == EventOf(status[node])
         decap == BeginsToReceive(node)
     IN /\ row' = [slot |-> node, event |-> event, pce |-> decap]
        /\ Leaves(IF event = "DEL" THEN "undip" ELSE IF decap THEN "cls" ELSE "ask")
  /\ \/ params' = [params EXCEPT ![node] = cache[node]] /\ UNCHANGED sweep
     \/ /\ ZeroedMeanwhile
        /\ \E p \in PartlyZeroed(cache[node]) : params' = [params EXCEPT ![node] = p]
  /\ status' = [status EXCEPT ![node] = Updating(@)]
  /\ UNCHANGED <<used, cache, dev, tcls, submitted, toSync, cores, filter, disorder>>

(* mtk_tops_tnl_info_cls_setup                                                  *)
SetUpCls ==
  /\ At("cls")
  /\ \/ tcls' = tcls \cup {row.slot} /\ GoesTo("ask")
     \/ Unless("pce", FALSE) /\ GoesTo("walk") /\ UNCHANGED tcls
  /\ UNCHANGED <<used, status, cache, params, dev, lists, cores, others>>

Fails == IF row.event = "DEL" THEN "walk" ELSE "undo"

(* mtk_tops_tnl_sync_dma_prepare, for an update, and mtk_tops_mcu_stall: unless *)
(* the machine has failed it waits for the lock, and is let in while the cores  *)
(* are in service.                                                              *)
Ask ==
  /\ At("ask")
  /\ \/ GoesTo("wait")
     \/ ~alive /\ GoesTo(Fails)
     \/ Unless("pce", FALSE) /\ row.event # "DEL" /\ GoesTo("undo")
  /\ UNCHANGED <<rows, lists, cores, others>>

Granted ==
  /\ At("wait") /\ mcu = "up" /\ ~broken
  /\ mcu' = "frozen"
  /\ GoesTo(IF row.event = "DEL" THEN "thaw" ELSE "transfer")
  /\ UNCHANGED <<rows, lists, alive, broken, table, known, faults, others>>

Refused ==
  /\ At("wait") /\ broken /\ GoesTo(Fails)
  /\ UNCHANGED <<rows, lists, cores, others>>

(* mtk_tops_tnl_sync_dma_start, as the callback                                 *)
Transfer ==
  /\ At("transfer")
  /\ table' = [table EXCEPT ![row.slot] = params[row.slot]]
  /\ GoesTo("thaw")
  /\ UNCHANGED <<rows, lists, mcu, alive, broken, known, faults, others>>

(* The cores run again; they act on the event they were stalled with.           *)
Thaw ==
  /\ At("thaw") /\ mcu' = "up"
  /\ IF broken THEN UNCHANGED known /\ GoesTo(Fails)
     ELSE CASE row.event = "NEW" -> known' = known \cup {row.slot} /\ GoesTo("synced")
            [] row.event = "DEL" -> known' = known \ {row.slot} /\ GoesTo("clear")
            [] OTHER             -> UNCHANGED known /\ GoesTo("synced")
  /\ UNCHANGED <<rows, lists, alive, broken, table, faults, others>>

FaultyUpdated(bits) == (bits \ {"UPDATING", "INIT", "QUEUED"}) \cup {"UPDATED"}

(* tnl_info_sta_updated_no_tnl_lock                                             *)
Updated(bits) == (bits \ {"UPDATING", "INIT"}) \cup {"UPDATED"}

Synced ==
  /\ At("synced")
  /\ status' = [status EXCEPT ![row.slot] = Updated(@)]
  /\ GoesTo(IF row.pce THEN "dip" ELSE "walk")
  /\ UNCHANGED <<used, cache, params, dev, tcls, lists, cores, others>>

(* The local address of the row.  One that was flushed meanwhile has address 0,  *)
(* which no tunnel has.                                                          *)
HasAddress == params[row.slot].tunnel # Nobody
Address == Local[params[row.slot].tunnel]

(* mtk_tops_tnl_info_dipfilter_setup                                            *)
SetUpDip ==
  /\ At("dip")
  /\ \/ HasAddress /\ AddEntry(Address)
     \/ HasAddress /\ Unless("pce", FALSE) /\ AddFails(Address)
     \/ ~HasAddress /\ UNCHANGED filter
  /\ GoesTo("walk")
  /\ UNCHANGED <<rows, lists, cores, sweep, disorder>>

(* mtk_tops_tnl_info_cls_tear_down after an update that failed: the row may     *)
(* have no classifier entry, and tnl_info->tcls is followed all the same.       *)
Undo ==
  /\ At("undo")
  /\ tcls' = tcls \ {row.slot}
  /\ GoesTo(IF row.slot \in tcls THEN "walk" ELSE "oops")
  /\ UNCHANGED <<used, status, cache, params, dev, lists, cores, others>>

(* mtk_tops_tnl_sync_param_delete: the filter first, then the cores are told.   *)
(* When the filter cannot be written they are not told, and the row stays.      *)
TearDownDip ==
  /\ At("undip")
  /\ \/ HasAddress /\ DelEntry(Address) /\ GoesTo("ask")
     \/ ~HasAddress /\ UNCHANGED filter /\ GoesTo("ask")
     \/ HasAddress /\ Unless("pce", FALSE) /\ DelFails(Address) /\ GoesTo("walk")
  /\ UNCHANGED <<rows, lists, cores, sweep, disorder>>

(* The copies are zeroed without the lock of the row.                           *)
ClearRow ==
  /\ At("clear")
  /\ cache' = [cache EXCEPT ![row.slot] = NoParams]
  /\ params' = [params EXCEPT ![row.slot] = NoParams]
  /\ GoesTo("erase") \/ (Unless("pce", FALSE) /\ GoesTo("walk"))
  /\ UNCHANGED <<used, status, dev, tcls, lists, cores, others>>

(* The row is erased in the cores' memory, while they run.                      *)
EraseRow ==
  /\ At("erase")
  /\ table' = [table EXCEPT ![row.slot] = params[row.slot]]
  /\ GoesTo("free")
  /\ UNCHANGED <<rows, lists, mcu, alive, broken, known, faults, others>>

(* mtk_tops_tnl_info_cls_tear_down and mtk_tops_tnl_info_free                   *)
Free ==
  /\ At("free") /\ TableFree
  /\ IF row.slot \in tcls
       THEN /\ tcls' = tcls \ {row.slot}
            /\ used' = used \ {row.slot}
            /\ status' = [status EXCEPT ![row.slot] = {"UNINIT"}]
            /\ GoesTo("walk")
       ELSE GoesTo("oops") /\ UNCHANGED <<tcls, used, status>>
  /\ UNCHANGED <<cache, params, dev, lists, cores, others>>

Thread ==
  \/ Check \/ WalkEnds \/ GoesAstray \/ PutOff \/ Passes \/ TakeRow \/ SetUpCls
  \/ Ask \/ Granted \/ Refused \/ Transfer \/ Thaw \/ Synced \/ SetUpDip
  \/ Undo \/ TearDownDip \/ ClearRow \/ EraseRow \/ Free

--------------------------------------------------------------------------------
(* The cores, as the tunnel table meets them.  Of their state machine (TopsMcu) *)
(* only the steps remain that TopsFreeze has, and what mtk_tops_mcu_alive says. *)

Quiet == pc \in {"sleep", "check"} \/ (pc \in {"walk", "undo"} /\ node = Nobody)

(* A transition fails or times out, or a reset is asked for.                    *)
Breaks ==
  /\ faults < MaxFaults /\ mcu \in {"up", "frozen", "booted", "starting"} /\ ~broken
  /\ Unless("end", ~Ending)
  /\ broken' = TRUE /\ alive' = FALSE /\ faults' = faults + 1
  /\ UNCHANGED <<rows, lists, thread, mcu, table, known, others>>

(* netstop_enter, which begins with mtk_tops_tnl_offload_flush.  The recover     *)
(* work clears state_trans_fail before, so that until shutdown_enter the cores  *)
(* may seem to be alive.                                                        *)
GoDown ==
  /\ broken /\ mcu \in {"up", "booted"} /\ Unless("flight", Quiet)
  /\ mcu' = IF used = {} THEN "stopped" ELSE "stopping"
  /\ todo' = used /\ broken' = FALSE /\ alive' \in BOOLEAN
  /\ UNCHANGED <<rows, lists, thread, table, known, faults, filter, zeroed, disorder>>

(* The flush, row by row: the copy is zeroed first, without the lock of the row. *)
FlushParams ==
  /\ mcu = "stopping" /\ zeroed = Nobody
  /\ \E s \in todo :
       /\ params' = [params EXCEPT ![s] = NoParams]
       /\ zeroed' = s /\ todo' = todo \ {s}
  /\ UNCHANGED <<used, status, cache, dev, tcls, lists, thread, cores, filter, disorder>>

(* Then, under that lock, the row is taken off its list.  tnl_sync_lock is not   *)
(* taken: the thread may be taking off a row of the same list, and an L2 update *)
(* may be putting one on it.  Of a list changed twice at once rows are lost, or *)
(* the row is still led to.                                                     *)
Torn(list, changes) ==
  {list \ {zeroed}} \cup
    (IF zeroed \in list /\ changes /\ Unless("flight", FALSE) THEN SUBSET list ELSE {})

SubmitsOther == alive /\ \E s \in used \ {zeroed} : "QUEUED" \notin status[s]
TakesOther == pc = "walk" /\ node \in pending \ {zeroed}

FaultyFlushRow ==
  /\ mcu = "stopping" /\ zeroed # Nobody /\ zeroed' = Nobody
  /\ mcu' = IF todo = {} THEN "stopped" ELSE mcu
  /\ submitted' = submitted \ {zeroed} /\ pending' = pending \ {zeroed}
  /\ UNCHANGED <<rows, toSync, thread, alive, broken, table, known, faults>>
  /\ UNCHANGED <<filter, todo, disorder>>

FlushRow ==
  /\ mcu = "stopping" /\ zeroed # Nobody /\ zeroed' = Nobody
  /\ mcu' = IF todo = {} THEN "stopped" ELSE mcu
  /\ status' = [status EXCEPT ![zeroed] = {"INIT"}]
  /\ submitted' \in Torn(submitted, SubmitsOther) /\ pending' \in Torn(pending, TakesOther)
  /\ UNCHANGED <<used, cache, params, dev, tcls, toSync, thread>>
  /\ UNCHANGED <<alive, broken, table, known, faults, filter, todo, disorder>>

(* shutdown_enter: the cores lose what they have in memory.                     *)
PowerOff ==
  /\ mcu = "stopped" /\ Unless("flight", Quiet \/ pc = "wait")
  /\ mcu' = "off" /\ alive' = FALSE
  /\ table' = [s \in Slots |-> NoParams] /\ known' = {}
  /\ UNCHANGED <<rows, lists, thread, broken, faults, others>>

(* init_enter_complete_cb                                                       *)
Boots ==
  /\ mcu = "off" /\ mcu' = "booted" /\ alive' = TRUE
  /\ UNCHANGED <<rows, lists, thread, broken, table, known, faults, others>>

(* init_leave: mtk_tops_tnl_offload_recover submits every row.                  *)
ComeUp ==
  /\ mcu = "booted" /\ ~broken
  /\ mcu' = IF used = {} THEN "up" ELSE "starting"
  /\ todo' = used
  /\ UNCHANGED <<rows, lists, thread, alive, broken, table, known, faults, filter>>
  /\ UNCHANGED <<zeroed, disorder>>

RecoverRow ==
  /\ mcu = "starting"
  /\ \E s \in todo : Submit(s, status[s]) /\ todo' = todo \ {s}
  /\ mcu' = IF todo' = {} THEN "up" ELSE mcu
  /\ UNCHANGED <<used, cache, params, dev, tcls, alive, broken, table, known, faults>>
  /\ UNCHANGED <<filter, zeroed, disorder>>

Recovery ==
  \/ GoDown \/ FlushParams \/ FlushRow \/ PowerOff \/ Boots \/ ComeUp \/ RecoverRow

Next == Network \/ Thread \/ Breaks \/ Recovery

Spec == Init /\ [][Next]_vars

(* The kernel runs the thread, and the control thread of the machine, which     *)
(* waits for nothing the thread does once this has been refused or has thawed.  *)
(* Nothing is asked of the behaviours with a disorder.                          *)
FairSpec ==
  /\ Spec
  /\ WF_vars(disorder = {} /\ Thread)
  /\ WF_vars(disorder = {} /\ Recovery)

--------------------------------------------------------------------------------
Bits == {"UNINIT", "INIT", "QUEUED", "UPDATING", "UPDATED", "DELETING"}
Params == [tunnel : Tunnels \cup {Nobody}, mac : Macs \cup {Nobody},
           flag : SUBSET {"decap", "encap"}]
Places == {"sleep", "check", "walk", "cls", "ask", "wait", "transfer", "thaw",
           "synced", "dip", "undo", "undip", "clear", "erase", "free", "astray", "oops"}

(* What the fields of a row, the lists and the thread can hold.                 *)
TypeOK ==
  /\ used \subseteq Slots /\ tcls \subseteq Slots
  /\ status \in [Slots -> SUBSET Bits]
  /\ cache \in [Slots -> Params] /\ params \in [Slots -> Params]
  /\ dev \in [Slots -> Tunnels \cup {Nobody}]
  /\ submitted \subseteq Slots /\ pending \subseteq Slots /\ toSync \in BOOLEAN
  /\ pc \in Places /\ node \in Slots \cup {Nobody}
  /\ row \in [slot : Slots \cup {Nobody}, event : {"none", "NEW", "DEL", "UPDATE"},
              pce : BOOLEAN]
  /\ mcu \in {"up", "frozen", "stopping", "stopped", "off", "booted", "starting"}
  /\ todo \subseteq Slots /\ zeroed \in Slots \cup {Nobody}
  /\ alive \in BOOLEAN /\ broken \in BOOLEAN
  /\ table \in [Slots -> Params] /\ known \subseteq Slots /\ faults \in 0 .. MaxFaults
  /\ refs \in [Addresses -> Nat] /\ dipLock \in BOOLEAN

Spared(D) == disorder \cap D = {}

(* A row is QUEUED exactly while it is on one of the two lists, and on one of   *)
(* them only; a row that was freed is on none.  list_add_tail of a row that is  *)
(* on a list already would tie the lists together.                              *)
QueuedIsListed ==
  Spared({"end"}) =>
    /\ \A s \in Slots : "QUEUED" \in status[s] => s \in used
    /\ Spared({"flight"}) =>
         /\ submitted \cap pending = {}
         /\ \A s \in Slots : s \in submitted \cup pending <=> "QUEUED" \in status[s]

(* What the thread works on is a row, and the one it deletes is left alone: it   *)
(* is not queued again and the cores stay in service until it is free.          *)
InHand == {"cls", "ask", "wait", "transfer", "thaw", "synced", "dip", "undo",
           "undip", "clear", "erase", "free"}
Deletes == {"undip", "clear", "erase", "free"}

RowInHand ==
  /\ pc \in InHand => row.slot \in Slots
  /\ pc \in Deletes => row.event = "DEL"
  /\ pc \in {"cls", "transfer"} => row.event # "DEL"

DeletionIsAlone ==
  Spared({"end"}) =>
    /\ Ending => ~broken /\ mcu \in {"up", "frozen"}
    /\ pc \in Deletes \cup {"ask", "wait", "thaw"} /\ row.event = "DEL" =>
         /\ row.slot \in used
         /\ "DELETING" \in status[row.slot] /\ "QUEUED" \notin status[row.slot]

(* The flush and the recovery come to rows in use, which are not freed meanwhile. *)
(* While the cores are flushed the thread takes none of them.                  *)
SweepFacts ==
  /\ todo \subseteq used
  /\ todo # {} => mcu \in {"stopping", "starting"}
  /\ zeroed # Nobody => mcu = "stopping" /\ zeroed \in used \ todo
  /\ Spared({"flight"}) /\ mcu = "stopping" =>
       /\ pc \in {"sleep", "check"} \/ (pc \in {"walk", "undo", "oops"} /\ node = Nobody)
       /\ zeroed # Nobody => params[zeroed] = NoParams
  /\ pc \in {"transfer", "thaw"} => mcu = "frozen"

IInv == TypeOK /\ RowInHand /\ QueuedIsListed /\ DeletionIsAlone /\ SweepFacts

(* The thread neither runs off the lists nor follows a null pointer, and        *)
(* dip_hw.lock, which it would wait for in vain, is free between the calls of   *)
(* the filter, as long as the engine takes what is written to it.               *)
ThreadStaysOnList ==
  Spared({"flight", "end", "encap"}) => pc \notin {"astray", "oops"}

ThreadIsSafe == ThreadStaysOnList /\ (Spared({"end", "pce"}) => ~dipLock)

(* Why it is.  The entry it goes to next stays on its list.                      *)
NodeIsPending ==
  Spared({"flight", "end"}) =>
    /\ pc # "astray"
    /\ node = Nobody \/ node \in pending
    /\ pc \in {"sleep", "check"} => node = Nobody

(* The row in hand stays in use.  Until it is UPDATED its device does not end.  *)
Writes == {"cls", "ask", "wait", "transfer", "thaw", "synced", "undo"}

RowIsKept ==
  Spared({"end"}) =>
    /\ pc \in InHand => row.slot \in used
    /\ pc \in {"synced", "dip", "undo"} => row.event # "DEL"
    /\ pc \in Writes /\ row.event # "DEL" => status[row.slot] \cap {"UPDATED", "DELETING"} = {}
    /\ pc = "dip" => "DELETING" \notin status[row.slot]
    /\ \A s \in Slots : "DELETING" \in status[s] => "INIT" \notin status[s]

(* A row that is written or deleted has its classifier entry: each row receives, *)
(* and between two writes its copy says so only with the entry.                 *)
Receives(p) == "decap" \in p.flag

RowHasClassifier ==
  Spared({"flight", "end", "encap"}) =>
    /\ pc # "oops"
    /\ pc \in InHand \ {"cls", "dip"} => row.slot \in tcls
    /\ pc \in InHand \ {"dip", "undo"} => "UPDATING" \in status[row.slot]
    /\ pc \in Writes \ {"undo"} /\ row.event # "DEL" => Receives(params[row.slot])
    /\ pc = "undo" => "UPDATING" \in status[row.slot] \/ ~Receives(params[row.slot])
    /\ \A s \in used :
         /\ "DELETING" \in status[s] => s \in tcls
         /\ "DELETING" \in status[s] \/ Receives(cache[s])
         /\ "UPDATING" \notin status[s] =>
              /\ Receives(params[s]) => s \in tcls
              /\ "UPDATED" \in status[s] /\ s # zeroed => Receives(params[s])

(* The entry in the filter of the row to be deleted has no other user, if no    *)
(* two tunnels have the same local address.                                     *)
OwnAddresses == \A t, u \in Tunnels : Local[t] = Local[u] => t = u

FilterIsFree ==
  Spared({"end"}) /\ OwnAddresses =>
    /\ Spared({"pce"}) => ~dipLock
    /\ \A s, r \in used : cache[s].tunnel = cache[r].tunnel /\ cache[s].tunnel # Nobody => s = r
    /\ pc \in InHand => params[row.slot].tunnel \in {Nobody, cache[row.slot].tunnel}
    /\ \A s \in used :
         "DELETING" \in status[s] /\ ("QUEUED" \in status[s] \/ (pc = "undip" /\ row.slot = s)) =>
           cache[s].tunnel \in Tunnels /\ refs[Local[cache[s].tunnel]] <= 1

SafeInv == IInv /\ NodeIsPending /\ RowIsKept /\ RowHasClassifier /\ FilterIsFree

(* The cores' copy of a row in use is the driver's, and the firmware was told   *)
(* of the row, once it is UPDATED and nothing of it is queued; a row that is    *)
(* not used is empty there.                                                     *)
IsSynced(s) == "UPDATED" \in status[s] /\ "QUEUED" \notin status[s]

TableIsCurrent ==
  Spared({"flight", "mac"}) /\ mcu \in {"up", "frozen"} /\ ~broken =>
    \A s \in Slots :
      /\ s \in used /\ IsSynced(s) => table[s] = cache[s] /\ s \in known
      /\ s \notin used => table[s] = NoParams /\ s \notin known

(* Why it is.  A row that is UPDATED was written since the cores last went down *)
(* and since its copy last changed; the row in hand is not UPDATED before.      *)
BitsAgree ==
  /\ pc \in InHand => row.slot \in used
  /\ pc \in InHand \ {"dip"} => "UPDATED" \notin status[row.slot]
  /\ \A s \in Slots :
       /\ "QUEUED" \in status[s] => s \in used
       /\ "INIT" \in status[s] => "UPDATED" \notin status[s]
       /\ s \notin used => "UPDATED" \notin status[s]

Settled == {"sleep", "check", "walk", "cls", "ask", "wait", "undo", "dip", "undip", "astray", "oops"}

CoresHaveNothing ==
  /\ mcu = "stopping" => \A s \in used \ todo : s = zeroed \/ "INIT" \in status[s]
  /\ mcu \in {"stopped", "off", "booted", "starting"} =>
       /\ \A s \in used : "INIT" \in status[s]
       /\ pc \in Settled
       /\ pc \in {"cls", "ask", "wait"} => row.event = "NEW"
  /\ mcu \in {"off", "booted", "starting"} => known = {}

RowIsWritten ==
  /\ pc \in {"transfer", "thaw"} => mcu = "frozen"
  /\ pc \in {"synced", "undo"} => row.event # "DEL"
  /\ pc \in InHand /\ row.event = "DEL" =>
       "DELETING" \in status[row.slot] /\ "INIT" \notin status[row.slot]
  /\ pc \in Writes \ {"undo"} /\ row.event # "DEL" =>
       "QUEUED" \in status[row.slot] \/ params[row.slot] = cache[row.slot]
  /\ pc \in {"thaw", "synced"} /\ row.event # "DEL" => table[row.slot] = params[row.slot]
  /\ pc \in Writes \ {"undo"} /\ row.event \notin {"NEW", "DEL"} => row.slot \in known
  /\ pc = "synced" => row.slot \in known
  /\ pc \in {"clear", "erase", "free"} => row.slot \notin known
  /\ pc \in {"erase", "free"} => params[row.slot] = NoParams
  /\ pc = "free" => table[row.slot] = NoParams

TableFollows ==
  \A s \in Slots :
    /\ s \notin used => table[s] = NoParams /\ s \notin known
    /\ s \in used /\ status[s] \cap {"INIT", "DELETING"} = {} => s \in known
    /\ IsSynced(s) => table[s] = cache[s] /\ s \in known

TableInv ==
  /\ IInv /\ BitsAgree
  /\ Spared({"flight", "mac"}) => CoresHaveNothing /\ RowIsWritten /\ TableFollows

(* Packets of a row that receives are handed to the cores: the row has its      *)
(* classifier entry and its local address is in the filter.                     *)
PacketsAreSteered ==
  Spared({"end", "pce", "flight"}) /\ ~broken =>
    \A s \in used :
      /\ IsSynced(s) /\ "decap" \in params[s].flag
      /\ ~(pc = "dip" /\ row.slot = s)
      => s \in tcls /\ refs[Local[params[s].tunnel]] > 0

(* Why they are.  A row's copy names its tunnel once it receives, and no entry  *)
(* is taken away but that of the row being deleted.                             *)
IsSteered(s) == Receives(params[s]) => s \in tcls /\ refs[Local[params[s].tunnel]] > 0

RowsAreSteered ==
  /\ pc = "cls" => row.pce
  /\ pc \in Writes /\ row.event # "DEL" =>
       "UPDATING" \in status[row.slot] \/ ~Receives(params[row.slot])
  /\ pc \in InHand \ {"dip"} /\ row.event = "DEL" => "UPDATING" \in status[row.slot]
  /\ pc \in Writes \ {"cls", "undo"} /\ row.event # "DEL" =>
       (row.pce => row.slot \in tcls) /\ (row.pce \/ IsSteered(row.slot))
  /\ pc = "dip" => row.slot \in tcls
  /\ \A s \in used :
       /\ "UPDATED" \in status[s] => "UPDATING" \notin status[s]
       /\ params[s].tunnel \in {Nobody, cache[s].tunnel}
       /\ params[s].tunnel = Nobody => ~Receives(params[s])
       /\ cache[s].tunnel = Nobody => ~Receives(cache[s])
       /\ "UPDATING" \notin status[s] => IsSteered(s) \/ (pc = "dip" /\ row.slot = s)

SteerInv == SafeInv /\ (Spared({"end", "pce", "flight"}) /\ OwnAddresses => RowsAreSteered)

(* A row that is submitted reaches the cores, or is freed.                      *)
SubmittedIsSynced ==
  \A s \in Slots :
    disorder = {} /\ "QUEUED" \in status[s] ~>
      "UPDATED" \in status[s] \/ s \notin used
================================================================================
