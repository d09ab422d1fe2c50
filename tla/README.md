# A verification development for the KS-AP627 (MT7981) firmware tree

The repository is an OpenWrt 21.02 tree with MediaTek's feed for Wi-Fi routers
(MT7981, MT7986, MT7988).  Most of its 10 625 files are upstream OpenWrt,
vendor kits, patches and other boards.  This directory holds TLA+ models of the
program logic that is the tree's own, TLC configurations that check them, and
proofs for TLAPS.

So far it covers **NMBM**, the NAND mapped-block management layer that stands
between the flash chip and everything the device stores (boot environment,
calibration data, UBI), and the lock that its MTD driver puts around it; the
**reset of the Ethernet frame engine** ("SER"): the work that does it, the
handshake with the Wi-Fi drivers, and the monitor that finds the hangs; the
**state machine of the TOPS cores**, the network processors that take tunnels
off the CPU; the **tunnel table** those cores work from, which the driver keeps
in step with its own copy; and the **transmit ring** of the Ethernet driver,
filled, emptied, stopped and freed by four contexts.

## 1. Inventory

| component | state it keeps | operations | what is hard |
|---|---|---|---|
| **NMBM core** `target/linux/generic/files-5.4/drivers/mtd/nmbm/nmbm-core.c` | RAM: block states, logical-to-physical mapping, addresses of two info tables, bounds of the unmapped pool, change counters, `protected`. Flash: signature, main and backup table, bad marks | attach (find, load, repair or create), erase with remap, write, panic write, read, mark bad, detach | power cuts between and inside flash operations, any flash operation failing, the pool running out, two tables that disagree |
| **NMBM mtd glue** `nmbm-mtd.c` | `state`, wait queue, page cache | get/release the device, six entry points, shutdown, panic write, probe, remove | threads racing for the device, sleeping and waking, shutdown, panic |
| **mtk_eth SER reset** `mtk_eth_reset.c`, `mtk_pending_work`, `mtk_open`, `mtk_stop` | `mtk_rest_cnt`, `mtk_wifi_num`, `mtk_stop_fail`, `wait_ser_done`, `mtk_reset_flag`, `reset_lock`, `force`, `dma_refcnt`, counters of the monitors | reset work, notifier handshake with the Wi-Fi drivers, hang monitors, debugfs, open and stop | a completion left over from a wait that timed out, chips that come or go during a wait, the flag that a round reads three times and clears after it let the next request in, users of the rings that a round counts but nobody opened |
| **mtk_eth transmit ring** `mtk_eth_soc.c` | `tx_buf`, `next_free`, `last_free`, `free_count`, the pointers of the hardware, interrupt status and mask, stopped queues, queue limits (BQL), `dma_refcnt` | `mtk_start_xmit`, interrupt, NAPI poll, open, stop, the stop and open of a reset | one ring for all devices; the poll runs without the lock that the sender holds; queues stop and wake on a count both change; a batch cut short leaves the doorbell unrung |
| mtk_eth receive rings, LRO, PHY, statistics | RX rings | poll, open, stop | one context per ring |
| mtk_hnat `mtk_hnat/` | PPE flow table (in hardware), device lists | bind, age, roam, reset hooks | stale flows after a reset |
| **tops MCU** `package/kernel/tops/src/mcu.c` | current and next state, `pending_act` bits, `ctrl_done` bits, `in_reset`, `in_recover`, `state_trans_fail` | control thread, bring-up, stall, reset, recover, shutdown | time-out racing the last answer, acts taken in bit order, recovery while a new request arrives |
| tops mailbox, TDMA, watchdog `mbox.c tdma.c wdt.c` | a message per mailbox, TDMA on or off, hung cores | send, receive interrupt, enable and disable, watchdog interrupt | a sender spins on a full mailbox; late answers |
| **tops tunnel offload** `tnl_offload.c`, with the protocols' `*_data.c` | per row: status bits, the driver's copy (`cache`), what is sent (`tnl_params`), device, classifier entry; the lists of rows to submit and being written; `has_tnl_to_sync` | packets in both directions, change of a neighbour's address, end of a device, the thread that writes the table, flush and recovery at a reset | rows change while they are written; a reset empties the list the thread walks; an update that fails half-way; a deletion that nothing may overtake |
| tops services `ser.c hpdma.c trm.c net-event.c hwspinlock.c` | the pending SER command, dump buffers, DMA channels | SER events, dumps | callers of the MCU machine from several contexts |
| **pce** destination filter `package/kernel/pce/src/dipfilter.c` | users of each address' entry, `dip_hw.lock` | add, delete | the entry is shared by all tunnels with that address |
| pce, the other tables; crypto-eip | classification tables; vendor kit | table programming | - |
| mtk-snand | controller registers | page read/write, erase | its results are NMBM's flash operations |
| mtdsplit, mtd tool, sysupgrade scripts | images and partitions | parse, write, replace the root file system | power cut during an upgrade |
| gpio-button-hotplug | per-button seen state, work | interrupt, debounce, event | interrupt against work |
| swconfig, switch and PHY drivers, clock, pinctrl, thermal, PCIe, USB | registers | register sequences | - |
| luci-app-mtk, wificonf, Wi-Fi profiles, hostapd glue, network scripts, base files | text configuration | read, write, apply | drivers and daemons that are not in the tree |
| build system, host tools, autobuild overlays, other targets | - | build time | - |

How they interact: the kernel's MTD core calls the entry points of
`nmbm-mtd.c`, which takes the device, calls `nmbm-core.c`, which calls back
through `struct nmbm_lower_device` into `mtk-snand` (read, program, erase,
is-bad, mark-bad).  UBI, the boot environment and the `mtd` tool are the users
above.  The Ethernet reset talks to the Wi-Fi drivers, `mtk_hnat` and `tops`
through netdevice notifier events and a completion; `tops` talks to its cores
through mailboxes.  The reset's work stops and opens the devices on the transmit
ring while the stack goes on calling `mtk_start_xmit`.

What makes each of the bold components correct:

* NMBM: a logical block reads as what was last written to it and reported
  done, whatever fails and wherever the power is cut; the format is never lost;
  no two logical blocks share a physical one; the tables never overwrite data
  or the signature; every call ends; one call at a time is inside.
* SER reset: the frame engine is reset only after every chip stopped or the
  wait timed out; the answer that ends a wait belongs to that reset; one reset
  at a time; traffic resumes afterwards.
* tops MCU: while the tunnel table is written no core runs and the network
  neither stops nor starts; power is cut only without traffic; a request returns
  success only if the cores were started; after a failure the machine is
  recovered; every request ends and gives the lock back; shutdown ends.
* tops tunnel offload: a row is on a list exactly while it is marked as queued;
  the thread stays on its list and follows no null pointer; once a row counts as
  updated the cores have the driver's copy of it, and packets of a tunnel that
  receives are steered to them; what was submitted is written; the filter's lock
  is free between its calls.
* transmit ring: a packet that was accepted is let go of once, in order, and
  after it was sent; a free descriptor is never filled twice; the queue limits
  stay balanced; a queue that was stopped is woken.

The full list of hazards, each with its line, is in `PROJECT.json`.

## 2. Plan

Done:

1. `Nmbm`, `LogicDisk`, `MCNmbm`, `NmbmProofs`: the core.
2. `NmbmMtd`, `NmbmMtdProofs`: the lock around it.
3. `EthReset`, `ResetRound`, `EthResetProofs`: the reset of the frame engine;
   `DmaMonitor`, `MCDmaMonitor`: what asks for it.

4. `TopsMcu`, `TopsFreeze`, `TopsStall`, `MCTopsMcu`, `TopsMcuProofs`,
   `TopsFreezeProofs`, `TopsStallProofs`: the state machine of the TOPS cores.
5. `TxRing`, `TxQueue`, `MCTxRing`, `TxRingProofs`: the transmit ring.
6. `TnlOffload`, `DipFilter`, `MCTnlOffload`, `TnlOffloadProofs`: the tunnel table.

Next, in this order:

7. `TopsSer` (`ser.c`, `net-event.c`): the slot for one recovery command with
   its priorities, and the completion `wait_fe_reset_done`, composed with
   `EthReset` and `TopsMcu`.  A reset that `mtk_tops_mcu_reset` refuses with
   `-EBUSY` runs no callback, so the completion that the end of the round counts
   is still there when the next round waits for it.
8. Extensions of `Nmbm`: tables of two blocks, the panic write that interrupts
   an update, the device size over reboots (`data_block_count` is recomputed at
   each attach, 2017); a proof of the step simulation of `LogicDisk` for
   fault-free steps.
9. `ButtonHotplug` (debounce), `Sysupgrade` (UBI volume replacement over
   `LogicDisk`).
10. Proofs: the step simulation of `LogicDisk` of item 8; an invariant from which
    `CountIdentifies` follows when one operation may fail.

## 3. Modules

### Nmbm

Models `nmbm-core.c`.  The variables carry the names of `struct nmbm_instance`;
`changed` stands for "`block_state_changed` or `block_mapping_changed` is not
0", the only thing the code asks of these two counters.  `flash` and `marked`
are the chip: what each block holds and which blocks carry a bad mark.

*Granularity.*  One step is one flash operation on a block (erase, program,
bad-mark) or the code in RAM between two of them.  `PowerCut` is enabled
everywhere, leaves the block that was being worked on in any state it can be in
(old, blank, junk; for a signature, whose pages are copies, also complete) and
clears RAM.  An operation on a block in `Weak` may fail at any time, up to
`MaxFaults` times.

*The shared loop.*  `nmbm_write_mgmt_range`, `nmbm_write_signature` and
`nmbm_erase_range` all walk over a range, skip the blocks that are not good,
record the ones found marked, and erase (and program) the next; on failure they
mark the block and go on.  The record `w` is that loop: its mode, where it
started, where it is, its limit, its result, and `then`, the code to go on with
(the return address).  `Seek` moves it to the next block or ends it.  The table
procedures are the actions guarded by `Returned(...)`:

| function | actions |
|---|---|
| `nmbm_rebuild_info_table` | `Rebuild`, `RebuildMain`, `RebuildBackup`, `Cleaned` |
| `nmbm_rescue_single_info_table` | `RescueSingle`, `RescueFront`, `RescueBehind`, `RescueBehindCleaned`, `Cleaned` |
| `nmbm_update_single_info_table` | `LoadTable` (last disjuncts), `UpdateMain`, `UpdateBackup` |
| `nmbm_rescue_main_info_table` | `RescueMain`, `RescueTemporary`, `RescueNewMain`, `BackupTakesOver` |
| `nmbm_update_info_table(_once)` | `UpdateOver`, `UpdateOnce`, `OnceBackup`, `OnceMain`, `LeaveUpdate` |
| `nmbm_map_block` | `Map`, `PoolUsedUp`, `PoolClosed`, inside `MapForErase` and `RemapTail` |
| `nmbm_attach` and below | `CreateNew`, `LoadExisting`, `CreateExisting`, `AttachFails`, `SigWritten`, `CreateTables`, `RemapTail`, `Created`, `LeaveLoad`, `LeaveCreate` |
| `nmbm_erase_logic_block` | `BeginErase`, `EraseRetry`, `UserErase*`, `UserMark`, `MapForErase`, `MapFailed` |
| `nmbm_write_logic_page`, `nmbm_panic_write_logic_page` | `BeginWrite`, `UserProgram*` |
| `nmbm_mark_bad_block`, `nmbm_detach` | `BeginMarkBad`, `Unmap`, `UserMark`; `Detach`, `Detached` |

*Attach* reads only, up to its first write, so what it finds is a function of
the flash: `FoundSig`, `MainFound`, `BackupFound`, `Kept`, `LoadedState`.  A
block torn by a power cut may or may not fail its read with an ECC error; the
choice is the set `Ecc`, and the code records such a block as bad.

*Left out or simplified.*  A block is one unit of data and an info table takes
one block (on the boards in question a table of 1024 blocks takes about 8 KiB
of a 128 KiB block).  A user writes a block once after erasing it.  An erase of
several blocks is several calls, as `nmbm_erase_block_range` makes them under
one lock.  Bit flips corrected by ECC, the out-of-band modes, logging and the
version and geometry checks of an attach are not modelled, nor is
`NMBM_F_READ_ONLY`, which nothing in the tree's kernel sets.  The last part of
`nmbm_rescue_main_info_table` (from line 1439) cannot be reached, because the
new main table is written below the temporary one; a missing main table cannot
be met in `nmbm_update_info_table_once`, which `MainTableExists` states and
`UpdateHasMainTable` proves.

Operators whose name begins with `Faulty` are variants of the definition that
follows them, with one plausible mistake each.  No specification uses them:
they serve to see that each property can fail.

### LogicDisk and MCNmbm

`LogicDisk` is what the user is promised: an array of blocks; a call works on
one block; a call that returns 0 has done its work; nothing else ever changes.
`MCNmbm` holds the refinement mapping (`View`: what each logical block reads
as, through the mapping and states in RAM while attached, and through the table
that the next attach would load while not) and the properties that look at the
flash.

### NmbmMtd

Models the locking in `nmbm-mtd.c` for any set of threads.  A critical section
of `nm->lock` is a step; between a waiter's `add_wait_queue` and its
`schedule()` others may run.  What the core does between `nmbm_get_device` and
`nmbm_release_device` is one stretch inside which the thread is in `Inside`;
`OneAtATime` is what entitles `Nmbm` to model one call at a time.

### EthReset and ResetRound

`EthReset` models `mtk_pending_work` and everything that shares state with it.
`work` says how far the work is; the other variables have the names of the code
(`flag` is `mtk_reset_flag`, `done` the completions in `wait_ser_done`).

| code | actions |
|---|---|
| `mtk_pending_work`, before it takes rtnl | `Start`, `Check`, `NothingToDo` |
| announcement (under rtnl) and wait (without) | `Announce`, `Answered`, `TimesOut` |
| stop, hardware reset, open | `StopMonitor`, `StopDevice`, `HwInit`, `OpenDevice` |
| end: events, lock and timer; flag and `MTK_RESETTING` | `EndRound`, `Clear` |
| `mtk_dma_monitor` | `MonitorFinds` (the test), `MonitorRequests` (the flag and the work) |
| `mtk_eth_netdevice_event` | `Answer`, `AnswerFail`, `Online`, `Offline` |
| `mtk_tx_timeout`, debugfs, `mtk_mac_config` | `TxTimeout`, `DebugSwitch`, `DebugReset`, `DebugStop`, `LinkChange`, `LinkForces` |
| `mtk_handle_fe_irq` | `FeIrq` |
| `mtk_open`, `mtk_stop` by users | `IfUp`, `IfDown` |

*Granularity.*  A step ends where another context can see the difference: the
monitor between its test of the lock and its write of the flag, the link change
between its test of `MTK_RESETTING` and its request, the work between freeing
the lock and clearing the flag.  Freeing the lock and arming the monitor (4189-4193)
are one step: only the work itself arms or stops the timer, so whatever another
context does in between it may as well do after.  Under rtnl the notifier calls and the users
are kept out; `RtnlFree` is that lock.

*External.*  A chip answers once for each time it was told, at any time or
never; it comes and goes.  A hang (`hang`) is of WDMA ("reset") or of another
engine ("stop"), as the monitors name it.  A hardware reset ends it, with one
exception the code makes: WDMA is reset by the frame engine on NETSYS_V3 only,
and only if the flag says `MTK_FE_START_RESET`; on NETSYS_V2 the Wi-Fi driver
that was told so resets it (`WdmaIsIn`).  `refcount_dec_and_test` leaves zero
at zero (`CONFIG_REFCOUNT_FULL`).  A PHY that is attached cannot be attached
again (`phylink_of_phy_connect`); a fixed link has none.

*History.*  `asked`, `announced`, `ended` and `disturbed` record what the
properties compare; only `WdmaIsIn` reads one of them, to say which event the
Wi-Fi drivers got.

`ResetRound` is what the rest of the system may rely on: a round is announced,
the engine is reset once, traffic resumes; chips present at the announcement
are held until the end; none comes or goes during the reset.

### DmaMonitor and MCDmaMonitor

One `Tick` is one run of the timer's handler: the monitors look in their order,
the first one that reports ends the run, and each counts up or clears.  An
engine is a pointer and a bit "blocked" (busy, and its queues do not move).
`Count` keeps the one place where the code's branches differ.  `MCDmaMonitor`
holds the sequences of monitors a configuration cannot write.

### TopsMcu, TopsFreeze, TopsStall and MCTopsMcu

`TopsMcu` models `mcu.c`, with what it needs of `mbox.c`, `tdma.c` and `wdt.c`.
The variables carry the names of `struct npu` (`cur`, `next`, `pend` for
`pending_act`, `done`/`doneBit` for the cores' bits of `ctrl_done` and its top
bit, `fail` for `state_trans_fail`, `shuting` for `shuting_down`, `owner` for
`mcu_ctrl_lock`).  `ctrl` says where the control thread is in a transition, and
`pc` where each user of the machine is.

| code | actions |
|---|---|
| `mcu_ctrl_task`, `mcu_ctrl_pop_pending_act`, the `*_trans` functions | `Take`, `Failed`; the table `Trans` |
| `mtk_tops_mcu_state_transition` and `*_leave` | `Leave`, `LeaveInit`, `LeaveWithCommand` |
| `*_enter` | `EnterShutdown`, `EnterInit`, `EnterInitUnpowered`, `EnterFreerun`, `EnterStall`, `EnterNetstop`, `EnterReset`, `EnterResetSilently`, `EnterAbnormal` |
| `mcu_state_wait_complete`, `init_enter_complete_cb`, `mcu_state_trans_end` | `Completes`, `WaitFails`, `TimerStops` |
| `mtk_tops_mcu_state_trans_timeout` | `TimesOut` |
| `mtk_tops_ap_recv_*_mbox_msg` | `Receive` |
| `mtk_tops_mcu_wait_done` | `WaitOver`, `WaitFailed`, `StaysAsleep` |
| `mtk_tops_mcu_cold_boot` | `BootAsks`, `BootEnds`, `BootFails` |
| `mtk_tops_mcu_stall` | `StallCalled`, `StallAsks`, `StallGranted`, `StallEnds`, `StallServed`, `StallFails` |
| `mtk_tops_mcu_reset` | `ResetCalled`, `ResetAsks`, `ResetGranted`, `ResetRestarts`, `ResetServed`, `ResetFails` |
| `mtk_tops_mcu_recover_work` | `RecoverRuns`, `RecoverAsks`, `RecoverClears`, `RecoverEnds`, `RecoverRetries`, `RecoverWakes` |
| `mtk_tops_mcu_shutdown`, `mtk_tops_mcu_tear_down` | `RemoveCalled`, `RemoveAsks`, `RemoveEnds`, `ThreadStops` |

*Granularity.*  The control thread, the users, the timer, each core and each
interrupt are processes.  A transition is three or more steps: it is taken, the
old state is left, the new one entered, and each may wait in between.  A user's
wait begins with a look at its condition (`WaitsAt`), and is looked at again
after each wake-up: a condition that was true and is false again when the waiter
looks is missed, as in the code.  A sender spins on a full mailbox, so a step
that sends waits for `MailboxesFree`.  `init_leave` looks at the result of
`mtk_pce_enable` (580-584), which is 0 in every case (`pce/src/netsys.c` 224-233), so
`LeaveInit` has no failing branch.

*External.*  A core boots, obeys, refuses a command (`"wrong"`), hangs while it
still empties its mailbox (`"mute"`) or not even that (`"deaf"`); the clocks or
the firmware may fail to start (`"clock"`, `"firmware"`).  The cores' firmware is
not in the repository: `AnswerTo` and `ModeAfter` are what `mcu.c` expects of it.

*Three switches* name what scheduling a run assumes.  `Punctual`: the transition
timer (`MCU_STATE_TRANS_TIMEOUT`) fires only when an awaited answer never comes;
without it, it may fire at any time.  `Overlap`: one client asks while the other
is being served.  `Prompt`: a thread whose condition is true goes on before
anything new happens, and the recovery's second of sleep is long enough for the
machine to come to rest.  Safety is checked without `Prompt` and with `Overlap`;
liveness needs `Prompt` and holds without `Overlap` only: the next section lists
what happens otherwise.

`TopsFreeze` is what the writer of the tunnel table is promised: it is let in
while the cores are in service, and until it leaves the network is neither
stopped nor started.  `TopsStall` adds no behaviour: it holds the two invariants
that say why this promise is kept, `FreezeInv` for the network and `StallInv` for
the cores (section 6).

### TxRing, TxQueue and MCTxRing

`TxRing` models the QDMA ring of `mtk_eth_soc.c` with the names of `struct
mtk_tx_ring`; a descriptor is its index, and what is known of it is its `tx_buf`:
empty, the first of a packet of some device, or a further fragment.

| code | actions |
|---|---|
| `mtk_start_xmit` | `StartXmit` (the test), `Busy`, `DropInReset`; `Map`, `MapFails`; `Compare`, `Stop` |
| the interrupt and `mtk_napi_tx` | `Irq`, `Clear`, `End` |
| `mtk_poll_tx_qdma`, `mtk_poll_tx` | `Look`, `Reap`, `Complete`, `CompareToWake`, `Wake` |
| `mtk_stop`, `mtk_open` | `StopDevice`, `FreeRing`, `OpenDevice`, called from `IfDown`, `IfUp` and the reset |
| `mtk_pending_work` | `ResetBegins`, `ResetStops`, `ResetOpens`, `ResetEnds` |

*Granularity.*  `page_lock` keeps senders apart, so one is in `xmit` at a time.
The poll does not take that lock: each descriptor it gives back is a step, and so
are its test of `free_count` and the wake-up that follows, and the sender's test
and its `netif_stop_queue`.  Under rtnl a device is stopped or opened in one
step; the last stop waits for the poll (`napi_disable`) before the ring is freed.

*External.*  The hardware sends packets in the order of the ring up to the
doorbell `ctx_ptr` and gives back whole packets.  The stack hands over batches
(`netdev_xmit_more`) and goes on with one until it is over or the queue stops;
when `netif_xmit_stopped` is true is left open (`Map`).

`TxQueue` is a queue: accept, send, release in order, discard all; `MCTxRing` maps
the ring to it (the packets between `last_free` and `next_free`).

### TnlOffload, DipFilter and MCTnlOffload

`TnlOffload` models `tnl_offload.c` for one type of tunnel, with the names of
`struct tops_tnl_info`; a row is an element of `Slots` and what tells two tunnels
apart (addresses, ports, session) is an element of `Tunnels`.  `DipFilter` is the
part of `dipfilter.c` that the tunnels share.

| code | actions |
|---|---|
| `mtk_tops_tnl_decap_offload`, `mtk_tops_tnl_encap_offload`, `mtk_tops_tnl_offload`, `mtk_tops_tnl_info_setup` | `Packet`, `FirstPacket` (which takes a row) |
| `mtk_tops_tnl_l2_update` | `L2Update` |
| `mtk_tops_tnl_offload_netdev_down` | `NetdevDown` |
| `mtk_tops_tnl_info_submit_no_tnl_lock` | `Submit` and `Enlist`, called from the above and from `RecoverRow` |
| `tnl_sync_task`, `mtk_tops_tnl_sync_get_pending_queue`, `mtk_tops_tnl_sync_queue_proc` | `Check`, `WalkEnds`, `GoesAstray`, `PutOff`, `Passes`, `TakeRow` |
| `mtk_tops_tnl_sync_param_new`, `mtk_tops_tnl_sync_param_update` | `SetUpCls`, `Ask`, `Granted` or `Refused`, `Transfer`, `Thaw`, `Synced`, `SetUpDip`, `Undo` |
| `mtk_tops_tnl_sync_param_delete` | `TearDownDip`, `Ask`, `Granted` or `Refused`, `Thaw`, `ClearRow`, `EraseRow`, `Free` |
| `mtk_tops_tnl_offload_flush`, in `netstop_enter` | `GoDown`, then per row `FlushParams` (the `memset`) and `FlushRow` (under the row's lock) |
| `shutdown_enter`, `init_enter_complete_cb` | `PowerOff`, `Boots` |
| `mtk_tops_tnl_offload_recover`, in `init_leave` | `ComeUp`, then per row `RecoverRow` |
| `mtk_pce_dipfilter_entry_add`, `_del` | `AddEntry`, `AddFails`, `DelEntry`, `DelFails` |

*Granularity.*  A packet, an L2 update and the end of a device work on a row under
its lock and are one step; a packet and a device find their row under `tbl_lock`, and
a row is taken and freed under it.  The flush and the recovery hold `tbl_lock` from
the first row to the last (`mcu` is "stopping" or "starting", `TableFree` is false),
but neither the thread's walk nor an L2 update asks for it: they go on between two
rows.  Within a row the flush zeroes `tnl_params` (1549) before it takes the lock
(1554), so that is a step of its own; `zeroed` is the row in between and `todo` the
rows to come.  The thread takes the lock of a row when it takes the row (`TakeRow`)
and when it marks one as updated (`Synced`); between two such places it works on the
row without it, and each call it makes is a step.  Two things it does there can
overlap with the flush without any lock in common: its copy of the row with the
`memset`, which `ZeroedMeanwhile` and `PartlyZeroed` let fall before, into and after it, and its
deletion from the pending list with the flush's (1557, no `tnl_sync_lock`), as can
the `list_add_tail` of an L2 update: of a list changed from two sides any part may
remain (`Torn`), and an entry taken off may still be led to (`GoesAstray`).
The order of a list is left open: the thread may find any entry first.  The walk
loads the entry after the one it works on in advance (`node`), as
`list_for_each_entry_safe` does.

*External.*  `table` is the cores' memory and `known` the rows the firmware was
told of.  Of the machine of the cores only the steps of `TopsFreeze` remain -
they are frozen for the thread, fail, are flushed, powered off, booted and put
into service - and what `mtk_tops_mcu_alive` says at each.  While they are stopping
it may say either, since the recover work clears `state_trans_fail` first; an L2
update in flight during a flush passed that test, so it comes where it says they live.

*Disorders.*  The code relies on several things not to happen at certain times,
and what goes wrong is different for each.  Each has a name in `Disorders`; a
behaviour picks the ones that may happen in it (`disorder`, which never changes),
and a guard `Unless(d, c)` asks for `c` in every other behaviour.  A property
says which disorders it does not survive (`Spared`), and is checked under all the
others.  The table after the runs says what each breaks.

## 4. Runs

| run | instance | what it shows |
|---|---|---|
| `full` | 8 blocks, 2 logical, all weak, 3 calls, 2 faults, 2 boots | The pool holds two to three spare blocks, so two remaps or one table move exhaust it. No block is shared (`NoSharedBlock`), between calls both tables hold the mapping in force (`TablesCurrent`), an update never lacks a main table (`MainTableExists`), the last readable table is only erased when there is just one (`LastTableErasedOnlyAlone`), and every attach and call ends (`EveryCallReturns`) |
| `crash` | 12 blocks, 2 logical, all but one weak, 2 calls, 2 faults, 3 boots | Room for two tables with their spares for every fault and cut of the run: the layer implements `LogicDisk` (`IsLogicDisk`), the format is never lost (`KeepsFormat`), and no table write or clean-up touches a mapped block (`TablesSpareData`) |
| `factory_bad` | 10 blocks, 3 logical, one factory-bad, attaches with and without `forced-create`, 2 calls, 1 fault, 3 boots | Equal write counts mean equal mappings (`CountIdentifies`), the signature stays (`SignatureKept`), and the inductive invariants of the proofs hold (`FindInv`, which contains `CurrentInv`, `AsideInv`, `IInv` and `TypeOK`) |
| `device` | 2 users, 2 reboot notifiers, 2 pages | One call at a time is inside the core (`OneAtATime`), a suspended device stays so (`SuspendIsFinal`), and of the threads that wait one gets the device (`SomebodyGetsIt`) |
| `eth_wifi` | 2 chips with hot-plug, NETSYS_V3, monitor, debugfs, opens that fail | the engine is reset only after the chips are quiet (`ChipsAreQuiet`), a hang of WDMA is announced as one (`WdmaIsReset`), every behaviour is one of `ResetRound` (`IsRound`), and the inductive invariant `IInv` with types and countdown |
| `eth_recovers` | 1 chip, 2 devices (one with a PHY), NETSYS_V2 (the SoC of this board), users, transmit time-outs, link changes and latched faults between the monitor's requests | every round ends (`IsFairRound`), a hang is recovered while the monitor is on (`HangIsRecovered`), and outside the reset a device that is up has its rings (`UpIsServed`) |
| `dma_monitor` | 2 WDMA engines and QDMA TX, 2 pointer values | a hang is reported whatever the other engines do (`HangIsSeen`), and one of WDMA as a reset (`WdmaComesFirst`) |
| `tops_mcu` | 2 cores, both clients at once, all five kinds of fault, one fault | `IInv`; no core runs while the table is written (`StalledInCallback`); power is cut and RESET entered without traffic only (`PowerCutIsQuiet`); `IsFreeze` |
| `tops_recovers` | 2 cores, both clients one after the other, removal, two faults (`"mute"`, `"wrong"`, `"firmware"`) | `FailureIsRecovered`, `LockIsReleased`, `SuccessMeansAlive`, `RemovalEnds` |
| `tunnels` | 2 rows, 2 tunnels with addresses of their own, packets both ways, devices that end, one failure with a flush and a recovery row by row; without disorder and with each of five by itself; 3.4 million states | the lists are whole (`QueuedIsListed`), the thread is safe (`ThreadIsSafe`), the cores' table is the driver's (`TableIsCurrent`), packets are steered (`PacketsAreSteered`), and what was submitted is written (`SubmittedIsSynced`) |
| `tx_ring` | 2 devices, 5 descriptors, packets of 1 or 2, batches of 2, a budget of 1, users, resets | `IInv`; `BqlBalanced`; the ring is a `TxQueue` and what was sent is given back (`IsTxQueue`); `StoppedIsWoken` |

In the NMBM runs deadlock is not checked: a run ends when its calls and boots
are used up, and after a shutdown or a panic everything is meant to stand
still.  In the TOPS runs and in `tunnels` it is not either: without faults and calls left the
machine rests.  In the others it is.

*Bounds.*  `MaxCalls`, `MaxFaults` and `MaxBoots` bound the length of a
history.  Two faults are what it takes to hit a table and its replacement, or
an erase and the table update it leads to; three boots allow a cut during
normal work and another during the repair at the next attach.  With two
logical blocks one can be damaged by work on the other.  The chips are as small
as the layout allows, so that running out of spares, meeting the mapped blocks
and falling back to one table happen in every run.

In `EthReset`, `MaxForce` bounds the counter `force` (2 is the value that
switches the monitor off by accident), `MaxDone` the completions that pile up
and `MaxOwed` the answers one chip owes: two of each are a late answer and the
one it is mistaken for.  Two chips are the fewest between which a countdown can
be out of step; two devices share the rings as on this board.  The theorems do
not depend on any of these.

In `TopsMcu`, `MaxFaults` is 1 with every fault at every moment, and 2 where the
recovery itself is to fail.  Two cores are the fewest of which one answers and
the other does not; `tops_mcu` uses that they are alike (`Symmetry`), the run
with liveness does not.  In `TxRing` five descriptors leave three for packets: two
packets of two do not fit, the threshold of one stops the queue after the first
of them or the second small one, and the pointers go around the ring every three packets.  In `TnlOffload` two rows are the
fewest of which one is written while the other is queued, deleted or taken by
another tunnel; one failure lets a reset fall between any two steps.  A
second address (`"mac"`) is left to `TnlMacs.cfg`, which checks the four
invariants and the three they are proved from (`SafeInv`, `TableInv`, `SteerInv`;
each contains `IInv`) with two addresses.  The real values
(2048 descriptors, threshold 17) are covered by the theorems.

`NmbmReturns.cfg` keeps the extreme of `EveryCallReturns`: 7 blocks, 1 logical, and
14 faults, so that every block can fail its erase and its bad-mark.

*What the bounds say about the properties.*  `KeepsFormat` is checked with
spare blocks for every fault and cut: on a full chip with one table left, that
table is rewritten in place and a cut there loses it (so `full` checks
`LastTableErasedOnlyAlone` instead).  `CountIdentifies` is checked with one
fault: with more, a third table left behind by a failed rescue can carry an
equal count.  `NoSharedBlock` holds as long as no block of the unmapped pool is
bad before it is used: see the next section.

### Where the code differs from what it says

The run `bad_pool` looks for a violation and finds one.  `.cfg` files of the same
kind for the other divergences, which `PROJECT.json` does not list as runs, are
kept beside it: `tlc -config <file> <module>` (module `MCNmbm`, `EthReset`,
`MCDmaMonitor`, `MCTopsMcu`, `MCTnlOffload` or `MCTxRing`, after the file's name) finds each
violated.

| run or file | property | the comment | what the code does |
|---|---|---|---|
| run `bad_pool` | `NoSharedBlock` | `nmbm_map_block`: "Map a bad block to a unused spare block" (1619) | After stepping over a bad pool block, `mapping_blocks_top_ba--` (1643) leaves the boundary at or above the block just taken; the next remap takes it again |
| `EthDmaDown.cfg` | `DmaIsShutDown` | `mtk_pending_work`: "stop all devices to make sure that dma is properly shut down" (4142) | Rounds count devices that are down; after the user opens one, the next round cannot bring the count to zero and resets the hardware with the rings running |
| `DmaQdmaRx.cfg` | `HangIsSeen` | `net-event.c` 64-66: an abnormal QDMA is detected | `err_cnt_qrx` is cleared by the else of its own limit (385) and never reaches 3 |
| `NmbmBadBlocks.cfg` | `BadBlocksStored` | "repeatedly until no new bad block found during updating" (1597) | `nmbm_mark_tables_clean` clears what was found during the write |
| `NmbmTorn.cfg` | `TornOnlyInMemory` | "Only mark bad in memory" (1881) | The mark is counted as a change and stored with the next table |
| `NmbmUnmapping.cfg` | `UnmappingStored` | "Mark logic block unusable, and update info table" (2479) | Setting the mapping to -1 is not counted as a change; if nothing else changed, no table is written |
| `EthLastUser.cfg` | `UpIsServed` | `mtk_stop`: "only shutdown DMA if this is the last user" (3690) | A device that fails to open in a round is closed without having been counted, and takes away the count of the other one |
| `EthStopLost.cfg` | `OthersAreStopped` | `net-event.c` 64-66: an abnormal QDMA, ADMA or TDMA is announced as `MTK_FE_STOP_TRAFFIC` | A request between `atomic_dec(&reset_lock)` (4189) and `mtk_reset_flag = 0` (4196) loses its kind and is announced as `MTK_FE_START_RESET` |
| `EthEnds.cfg` | `EndAsDocumented` | `net-event.c` 68-70: WDMA ends with `MTK_FE_START_TRAFFIC`, the others with `MTK_FE_RESET_DONE` | The reverse (4175-4182) |
| `TopsUnlocked.cfg` | `ActsUnderLock` | `mcu_ctrl_task`: "mcu_ctrl_lock must be held before mcu_ctrl_task start" (950-957) | A user lets go of the lock when `INIT_DONE` has come; the act FREERUN that `init_enter_complete_cb` issues is taken after that |
| `TxFull.cfg` | `NeverFullWhenAwake` | "Tx Ring full when queue awake!" is reported as an error (2096) | A second device on the ring, or a packet that needs exactly the descriptors left (`<=` in 2093), makes it an ordinary event |
| `TnlLock.cfg` | `ThreadIsSafe` | `mtk_pce_dipfilter_entry_del`: "dipfilter descriptor is still in use" (`dipfilter.c` 190) is an ordinary return | It returns with `dip_hw.lock` held; two tunnels from one local address are enough, and so is one tunnel after a reset, whose entry is counted once more |

By reading only: "set the chip to read-only" (`nmbm-core.c` 2060) refuses reads as
well (2647); "tnl update is on the fly" (`tnl_offload.c` 1387) is said of a row
whose update failed and left `UPDATING` set, which the thread puts off for ever;
"there shouldn't be any other reference to tnl_info right now" (1234) is not so
while a packet can still find the row; `mtk_tops_tnl_decap_offloadable` returns
`-EAGAIN`, which is true, from a function of type `bool` (992); `list_add_tail` has
its arguments swapped where a classifier entry joins the list of its type (414), so
that a second entry displaces the first; a packet that `skb_put_padto` could not
pad has been freed by it, and `mtk_start_xmit` frees it again (`mtk_eth_soc.c` 1895
and 2129; `MapFails` is the drop).

What each disorder of the tunnel table breaks, each found by TLC with that
disorder alone:

| disorder | what happens | broken by it |
|---|---|---|
| `"flight"` | The cores are reset while the thread works, or it takes rows, or rows are submitted, in the middle of the flush. The flush takes the entry the thread goes to next off its list (the thread goes astray), the two change the list at once, the copy that the thread has just made is zeroed, or the status of the row in hand is overwritten: a row counts as written that the reset has emptied | `QueuedIsListed`, `ThreadIsSafe`, `TableIsCurrent`, `PacketsAreSteered` |
| `"end"` | A device ends while its row is being written or out of service, or the cores fail during a deletion: the row is queued a second time, is freed while it is on a list, or its entry in the filter is deleted twice | `QueuedIsListed`, `ThreadIsSafe`, `PacketsAreSteered` |
| `"encap"` | A tunnel sends first. Its row has no classifier entry; an update that fails follows the null `tcls` (359) | `ThreadIsSafe` |
| `"pce"` | The engine or the DMA refuses. The row is submitted as far as the cores go, but packets are not steered, and `UPDATING` stays behind; a filter entry that cannot be deleted leaves `dip_hw.lock` held | `PacketsAreSteered`, `ThreadIsSafe` |
| `"mac"` | Packets show a neighbour's new address before the L2 update does: `cache` is changed without a submission | `TableIsCurrent` |
| `"late"` | A row is submitted while the cores are stopped: none of the four invariants is broken by it | - |

`SubmittedIsSynced` is stated for behaviours without disorder.

Under `"flight"` two races of the flush with the thread matter most, since no lock is
held by both sides and a comment promises the opposite (1550: "make tnl_info status to
TNL_INIT state so that it can be added to TOPS again").  TLC finds each when
`"flight"` is taken out of the property's `Spared`:

* *The copy* (`PacketsAreSteered`, 22 states with lists that stay whole).  The thread
  holds a row's lock; the flush zeroes the copy (1549) and waits for the lock (1554);
  the thread fills the copy again (1410), with `TNL_DECAP_ENABLE`, and lets go; the
  flush sets the status back to INIT, but the copy stays.  The update in the thread's
  hand fails, for the cores are down, and its classifier entry is undone.  When the
  recovery submits the row, `is_decap` is false, because the copy has the flag already:
  the row is written to the cores and becomes UPDATED, and neither the classifier nor
  the filter has an entry for it.
* *The list* (`QueuedIsListed`, 8 states).  Two rows are queued when the flush deletes
  one of them (1557) while the thread deletes its neighbour (1389, 1402, 1413) or an L2
  update appends: a row that is QUEUED may be on no list, and one that is not may
  still be led to.

`mtk_pce_dipfilter_entry_del` also keeps `dip_hw.lock` when `mtk_pce_fe_mem_msg_send`
fails (`dipfilter.c` 198-202, `DelFails`); `mtk_tops_tnl_sync_param_delete` then returns
before the cores are told (1256-1261), and the next call of the filter spins for ever.

The following contradict no text, but a user of the code should know them:

* `TopsItself.cfg` (`NoFailureByItself`): a STALL requested while the FREERUN of
  the bring-up is still pending is popped first (lower bit), INIT has no
  transition for it, and a healthy machine fails and goes through a recovery.
* `TopsTwice.cfg` (`LockIsReleased`): with two requests failing one after the
  other the recover work runs a second time on a machine that is up.  It issues
  no act, returns at once on the old `INIT_DONE`, and leaves `in_recover` set: the
  next reset goes to ABNORMAL instead of RESET, and its caller waits for
  `ASSERT_RESET_DONE` for ever, with the lock.
* `TopsRemoval.cfg` (`RemovalEnds`): `shuting_down` is set while a reset is
  running; the SHUTDOWN of that reset takes it for the removal's, does not go on
  to INIT, and both the reset and the removal wait for ever.
* Without `Prompt` the callback of a reset can be overtaken by the recovery;
  when the clocks fail after a message to TDMA was left in a mailbox, or a core
  is deaf, the control thread spins in `mbox_send_msg`.
* `TxAnnounced.cfg` (`PacketsAreAnnounced`): when the last packet of a batch is
  dropped or refused, or stops the queue, the packets before it are not announced
  to the hardware until somebody sends the next packet.
* `TxWoken.cfg` (`QueueIsWoken`): if the poll gives all packets back between the
  sender's test (2118) and `netif_stop_queue` (2119), or only unannounced packets
  are left, nothing wakes the queue until another device's traffic or the
  transmit time-out does.  `StoppedIsWoken` states what is left of the promise.

One more, of `EthReset`: with `NetsysV3 = TRUE` in
`EthRecovers.cfg` TLC finds a hang of WDMA that survives every round, because
each time the monitor, armed to fire at once, asks again before the work clears
the flag; the next round announces a reset but, with the flag at 0, leaves WDMA
out of the warm reset.

The first three of the table are errors in the code, and so are those of
`EthLastUser.cfg`, `TopsTwice.cfg`, `TopsRemoval.cfg` and `TnlLock.cfg`, the first
three disorders of the tunnel table and the lock kept under the fourth.
`bad_pool` needs a factory-bad block (or one marked
later) among the spares, which a chip is entitled to have.

## 5. Fairness

`FairSpec` of `Nmbm` is weak fairness of `Driver`, the driver's own steps:
once called, the code runs on in the caller's thread and nothing in it waits
for anybody.  Attaches, calls and power cuts are not fair.
`FairSpec` of `NmbmMtd` is weak fairness of each thread's own steps (a runnable
kernel thread gets the CPU, a call inside the core ends - which is
`EveryCallReturns`) and of the panic path.  It does not promise that a given
waiter gets the device: `wake_up` wakes all, and one of them may lose every
race.  `SomebodyGetsIt` is what the code guarantees.  `NmbmPanic.cfg` checks that a
panic gets its record written (`PanicGoesThrough`).

`FairSpec` of `EthReset` is weak fairness of the work (a scheduled work runs,
its waits are bounded by their time-out, and rtnl is given back by whoever
holds it) and of the monitor (an armed timer fires and re-arms itself).  Chips,
users and engines are not fair.  `TimesOut` waits for a running handler of the
monitor, which is microseconds against 3000 jiffies.  In `DmaMonitor` the timer
is fair.

`FairSpec` of `TopsMcu`: the control thread runs, healthy cores boot, obey and
answer, a mute core empties its mailbox, interrupts are delivered, and the timer
fires when an answer is never going to come (weak fairness).  The users are
strongly fair: `mcu_ctrl_lock` is a kernel mutex, whose waiters are queued, so
that a user whose turn comes again and again gets it.  Nothing makes a client
call, and no core is obliged to fail.

`FairSpec` of `TnlOffload`: the thread runs, and so does the control thread that
carries a reset through (weak fairness); neither waits for the other without an
end, because a stall is refused once the machine has failed.  Nothing makes a
packet arrive, a device end or the cores fail, and nothing is asked of behaviours with
a disorder.

`FairSpec` of `TxRing`: the sender, the stack inside a batch, the hardware, the
interrupt, the poll and whoever holds rtnl go on (weak fairness).  That the
stack starts a packet is not fair, nor that a user or a reset acts.

## 6. Proofs

`NmbmProofs` proves for every chip size, every place of the management area,
every set of weak and factory-bad blocks and any number of calls, faults and
boots (assumptions: `ChipAssumption`, i.e. `0 < MgmtStart < BlockCount`, and
`BoundAssumption`, that the bounds are naturals):

* `Invariant`: `Spec => []IInv`;
* `TypesRight`: `Spec => []TypeOK`;
* `UpdateHasMainTable`: `Spec => []MainTableExists`;
* `SignatureIsKept`: `Spec => SignatureKept`;
* `AsideInvariance`: `Spec /\ [](RemapTakesTop /\ CountIdentifies) => []AsideInv`, and
  under the same two hypotheses `BlocksStayUnshared` (`[]NoSharedBlock`) and
  `TablesStayOffData` (`TablesSpareData`);
* `CurrentInvariance`: under them `[]CurrentInv`, and from it `TablesStayCurrent`
  (`[]TablesCurrent`);
* `FindInvariance`: under them `[]FindInv`, and from it `LastTableIsErasedAlone`
  (`LastTableErasedOnlyAlone`).

*Why `IInv`.*  That the signature survives is not inductive: one has to know
that a running loop (`w`) ends below the signature (`Work`), that the bounds it
was started with - the tables, the pool and its top - lie in the management
area below the signature (`Area`), and that no logical block and no call in
progress works on that block (`Area` again).  These in turn are only true once
the signature is known; before that there are no tables and the mapping is in
the data area (`NoArea`, `Off`).  `SignaturePlace` says that what looks like a
signature lies in the management area, so that the next attach starts from the
same facts.  `MainThere` and the parts of `Work` about the continuations say
which table still exists in the middle of each table procedure; `UpdateReturns`
says where a running update goes back to.

*Layout.*  Facts about the helpers (`WalkAsc`, `WalkDesc`, `Reserve`, `Seek`,
`Top`, `Kept`) come first, as lemmas cited by name; then one lemma per action,
each with one step per conjunct of `IInv` the action can disturb; then a section
combines them over `Next` and draws the first four theorems.  The rest of the
module does the same three times more: for `AsideInv`, whose lemmas have the names of
the actions with `Aside` behind them, for what `CurrentInv` adds to it, with `Tables`
behind them, and for what `FindInv` adds to that, with `Find` behind them.

*Why `AsideInv`.*  `NoSharedBlock` and `TablesSpareData` are about RAM, but an attach
takes the mapping from the flash and computes the top of the pool from it, so the
tables there have to be known to be good: `TablesAside` says that the mapping in
every table is one-to-one and leaves at least the table's own block and the next
one free.  `MappedAside` is the same of the mapping in force and the top of the
pool, `RegionsInOrder` puts main table, backup table, pool and top in this order,
and `LoopAside` follows the bounds of the running loop, which writes a table of
the mapping in force, through each procedure.  One attach leaves the regions out
of order: when the backup table is older than the main one and lies where the
main one's mapping has blocks by now.  `Doomed` says that it then finds no block
to write the backup to, fails and protects the device, so that nothing but a
detach is accepted.

*Why `CurrentInv`.*  `TablesCurrent` speaks of the moments between two calls only, and
what is true in between has to be said of each procedure.  `Relied` names, for each
continuation of a loop, the tables the procedure puts or leaves on record:
`LoopTables` says that they hold the mapping in force and lie outside the range of the
loop, which therefore can erase anything it meets, and that the table the loop has
written holds it too.  `LeaveTables` says what a procedure leaves: right tables if it
succeeded, and an update that failed has protected the device.  `RestTables` is the
state while none runs: the tables are right, or a remap has put them out of date, and
then it has set `changed` and an update follows before the call returns.  `TablesApart`
keeps a new table from lying on the one relied on, and `OpAside` the user's erase,
write and mark from reaching either.  `CountIdentifies` is needed where an attach
takes two tables of one count for copies (`LoadExisting`): it puts both on record
without comparing them.

*Why `FindInv`.*  `LastTableErasedOnlyAlone` is about `HoldsTable`, what the next
attach would find, and `CurrentInv` about the instance in RAM.  Between the two lies
the search: `nmbm_find_signature` takes the highest signature, and
`nmbm_check_info_table` refuses a table that calls its own block bad or maps a block
to the signature, to itself or to one in front of it.  `SignatureFound` says that the
signature found is the one in RAM, and that there is none, and no table, while it is
written; `TablesFindable` that the check accepts every table there is (with
`TablesAside`, which is about its place).  A new table calls its own block good
because the loop that writes it only works on good blocks (`LoopOnGood`).
`UpdateHasTables` covers the one loop that relies on a table out of date: the first
write of an update, over the backup table, when the main one still holds the mapping
before the remap.  `ProtectedRests` excludes a protected device, whose tables need not
be right: no loop and no call works there any more.  The action property then takes
one case for each step that touches the chip: with two tables on record the loop
spares the one it relies on (`LoopSpares`), a call spares the main one (`CallSpares`),
and what is spared is found (`SpareFound`), also when the power fails in the middle.

*Why the hypotheses.*  Without `RemapTakesTop` the statements are false of the code:
a remap that goes past a bad block of the pool lowers the top by one only, and the
next one takes the same block (run `bad_pool`).  The hypothesis says that the pool is
good where remaps take from it, not that blocks do not fail: the chip may have any
number of bad blocks below that, and any operation on any weak block may fail.
Without `CountIdentifies` an attach may take a table in front of which blocks were
mapped since for an equal copy of a newer one, and put the pool there.  The step
(`StepAside`) needs the two in the state before it only, `RemapTakesTop` for the
two remaps and `CountIdentifies` for `LoadExisting`.  In the instances of
`factory_bad` and `crash` both always hold; the first checks `FindInv` itself.

`NmbmMtdProofs` proves `OneCallAtATime`, `NobodySleepsOverAFreeDevice` and
`SuspendedForGood` for any number of threads, from the invariant
`DeviceInvariant` (assumption `ThreadAssumption`).

`EthResetProofs` proves for any finite set of chips, any number of devices and
any bounds (assumptions `ChipsAssumption`, `MacsAssumption`,
`FlagsAssumption`, `BoundsAssumption`):

* `Invariance`: `Spec => []IInv`, and from it `TypeCorrect`,
  `CountdownIsInStep` and `MonitorAlwaysComesBack`;
* `WdmaIsAlwaysReset`: `Spec => WdmaIsReset`;
* `ChipsAlwaysQuiet`: `Spec => []ChipsAreQuiet`;
* `UpAlwaysServed`: if `~OpenMayFail`, `Spec => []UpIsServed`;
* `ImplementsRound`: `Spec => IsRound`, the refinement of `ResetRound`.

`IInv` adds to types and countdown three facts: the lock and the timer follow
the place of the work (`LockAndTimer`), a chip that is told is on line
(`HeldOnline`, so that an arrival does not change who is held), and the flag
says "stop" only if somebody other than WDMA's monitor asked (`FlagAsAsked`).
The requests are treated once, by what they leave alone (`RequestsFrame`); the
work, the chips and the users have one lemma each, one step per action.

*Why `QuietInv`.*  `IInv` says how far the countdown is, not what it means: a
completion could be left from an earlier round, and end the wait of this one.
`QuietInv` says that as long as nothing disturbed a wait there is none
(`NothingLeftOver` outside of a wait), and that during the wait either everybody
has answered and the one completion is there (`AllAnswered`), or there is none
and the countdown is the number of chips that owe their one answer
(`CountsDown`).  The step from one to the other is where cardinalities are
needed: the countdown reaches zero exactly when the last chip answers.

*Why `ServedInv`.*  `mtk_open` and `mtk_stop` count the users of the rings, and a
round goes through all devices although only those that were up counted.  The
rings run while there is a user (`RingsByUsers`), there are at least as many as
devices up (`UpAreUsers`), and a round takes every PHY off before it opens the
devices again, so that no open finds its PHY attached and fails (`RoundDetaches`).
The hypothesis `~OpenMayFail` cannot be dropped: `EthLastUser.cfg` shows the
behaviour without it.  Both were checked first with the instances of
`EthWifi.cfg` and `EthRecovers.cfg`.

`TopsMcuProofs` proves for any finite set of cores, any clients, any kinds and
number of faults, and any of the scheduling switches (assumptions
`CoresAssumption`, `ClientsAssumption`, `FaultsAssumption`,
`SwitchesAssumption`):

* `Invariance`: `Spec => []IInv`;
* `LockIsHeld`: `Spec => []LockHeld`;
* `PowerIsCutQuietly`: `Spec => PowerCutIsQuiet`.

*Why this `IInv`.*  That power is cut without traffic needs to know that RESET,
ABNORMAL and SHUTDOWN are only entered from NETSTOP or from each other
(`QuietStates`, `ControlInOrder`), and this that the follow-up act NETSTOP issues is taken before
any other (`FollowUpComesFirst`): while the acts ABNORMAL or RESET are pending
the machine stands in NETSTOP, and they have the lowest bits of `pending_act`.
`LockHeld` says who owns `mcu_ctrl_lock`.  One lemma per action, grouped by who
takes it.

`TopsFreezeProofs` and `TopsStallProofs` prove, from the same assumptions and as
long as the driver is not removed (`~MayRemove`):

* `StallInvariance`: `Spec => []FreezeInv`;
* `ImplementsFreeze`: `Spec => IsFreeze`, the refinement of `TopsFreeze`;
* `CoresStayStalled`: `Spec => []StalledInCallback`.

*The argument.*  A stall is only asked for with `mcu_ctrl_lock` held, and is
granted when `STALL_DONE` stands in `msg1` and no fault is noted.  `FreezeInv` says that
at that moment nothing is pending but STALL and FREERUN (`FrozenInService`):
whoever could ask for a stop needs the lock, so a stop could only be left over
from an earlier request, and an earlier STALL would have been popped before the FREERUN
that makes it possible (`NoStallLeftBehind`, from the order of the bits).
`ResetIsNoted` ties RESET to `in_reset`, and this to a user that holds the lock or
a fault that is noted.  `StallInv` follows the cores: one that has answered is `Settled`,
with no command in its mailbox and no answer on its way.  After a bring-up all of
them are (`StartedIsSettled`), or the power went off again and only old `INIT_DONE`
answers are left; `StallExchange` counts the answers of a stall, `ResumeExchange` those of
its end; `TakenAsAsked` says that an act is taken for the request that issued it,
so that the command the cores get is the one in `msg1`.  After a fault none of
this holds any more, but then the lock is still the caller's, nothing is sent, and who was
stalled stays so (`StallHolds`).  The steps of a removal are not
covered: it gives the lock back when `bring_up_done` is cleared, not when an answer
has come, and what is pending then is not what `FreezeInv` counts on.  With a removal
`StalledInCallback` is only model-checked (one core, one fault, `"mute"` or
`"firmware"`).
`TopsStall.cfg` checks `IInv`, `FreezeInv` and `StallInv` on one core with two faults
of any kind and a timer that may fire at any time.

`TxRingProofs` proves for any devices, ring size above 2, threshold, packet size,
budget and length of batch (assumptions `DevsAssumption`, `RingAssumption`):

* `Invariance`: `Spec => []IInv`;
* `PacketFits`: `Spec => []RoomForPacket`, that `mtk_tx_map` never comes to
  `last_free` nor to a descriptor that holds a buffer, so its two tests for that
  are never true;
* `BqlStaysBalanced`: `Spec => []BqlBalanced`.

*Why this `IInv`.*  The ring is circular, so order is measured by the distance from
`last_free` (`Ahead`): given back, sent, announced, filled follow each other
(`PointersInOrder`), exactly the descriptors between the ends hold buffers
(`BuffersInRing`), and `free_count` is the distance that is left.  That a packet
being mapped still has its room (`RingInUse`) needs that the poll only gives
descriptors back, and that no ring is freed under a sender (`DevicesCounted`: the
devices the stack may call are the ones `dma_refcnt` counts, but for a reset,
which `MTK_RESETTING` announces).  Lemmas on `After` and `Dist` come first.

*Why `BqlInv`.*  What the stack counts for a device is compared with the number of
its descriptors, which changes by one when a packet is filled or given back
(two lemmas on cardinalities) and drops to none when the ring goes away: then
nothing may be owed (`bql` is 0 without a ring), and no completions may wait in a
poll that is not running (`done`).

`TnlOffloadProofs` proves for any finite set of rows and of tunnels, any local
addresses, any number of failures and any disorders (assumptions
`SetsAssumption`, `LocalAssumption`, `BoundsAssumption`):

* `Invariance`: `Spec => []IInv`;
* `TypeCorrect`: `Spec => []TypeOK`;
* `RowsStayOnOneList`: `Spec => []QueuedIsListed`, whose part about the lists is of
  behaviours without `"flight"` and `"end"`;
* `ThreadNeverStrays`: `Spec => []ThreadStaysOnList`, and with `OwnAddresses`
  `ThreadStaysSafe`: `Spec => []ThreadIsSafe`, whose part about the lock is of
  behaviours without `"end"` and `"pce"`;
* `TableStaysCurrent`: `Spec => []TableIsCurrent`;
* `PacketsStaySteered`: with `OwnAddresses`, `Spec => []PacketsAreSteered`, of
  behaviours without `"end"`, `"pce"` and `"flight"`.

Without `"flight"` a reset begins while the thread has no row in hand, and from then
until the cores are flushed the thread takes none; rows are still flushed and
submitted again one at a time, beside packets, L2 updates and the thread.

*Why this `IInv`.*  A row leaves the table only in `Free`, and `QueuedIsListed` asks
that it is on no list then.  That needs to know which row the thread has in hand
and what it does with it (`RowInHand`), and that a row marked for deletion is left
alone until it is free (`DeletionIsAlone`): it is in use, is not queued again, and
the cores stay in service, so that neither the flush nor the recovery touches it.
`SweepFacts` says the same from the other side: the rows that the flush or the
recovery has yet to come to are in use, the row between its `memset` and its lock is
one it has been at, and without `"flight"` nobody has filled its copy again.
Lemmas on `Submit` and `Enlist` come first, then one lemma per group of actions.

Three invariants on top of it, each with the disorders under which it holds, and
each with one lemma per group of actions again:

* `SafeInv`, for the thread.  The entry it goes to next stays on the list of the
  walk (`NodeIsPending`), the row in hand stays in use and its device does not end
  before it is UPDATED (`RowIsKept`), a row that was told to receive has its classifier entry
  (`RowHasClassifier`), and the filter's entry of a row to be deleted has no other
  user (`FilterIsFree`).  The last needs that no two tunnels have one local
  address, `OwnAddresses`; `TnlLock.cfg` shows what happens when they do.
* `TableInv`, for the cores.  A transfer writes a copy taken earlier; that it does not
  count as current when the row changed meanwhile rests on the bits: QUEUED is set
  by every change and cleared only when a copy is taken (`BitsAgree`,
  `RowIsWritten`).  Cores that were off have nothing (`CoresHaveNothing`), and the
  rows are all queued again before they are in service.
* `SteerInv`, for the packets: a row is UPDATING while a change of it is on its way,
  and any other row that receives has both of its entries, but for the one whose
  filter entry is just being written (`RowsAreSteered`).

Model-checked only:

* `NoSharedBlock`, `TablesSpareData`, `TablesCurrent` and `LastTableErasedOnlyAlone`
  without the two hypotheses: the first three are no theorems of `Spec` alone, the last
  is not proved without them.  Bad blocks in the pool break `RemapTakesTop` (`NmbmBadPool.cfg`, where a block is then shared), and two failures
  with a power cut between them leave two different tables with one `write_count`,
  which breaks `CountIdentifies`.  The run `full` reaches both, and checks
  `NoSharedBlock`, `TablesCurrent` and `LastTableErasedOnlyAlone` all the same: none of
  them fails in its small pool.
* `CountIdentifies` where one operation may fail: why one failure is not enough for
  two tables of one count depends on how many failures there have been in the history
  of the flash, which no conjunct of the invariants records.
* The refinement of `LogicDisk`, whose invariant has to describe the data in the
  middle of every procedure.  The two hypotheses do not imply it: when the erase and
  the bad mark of an old table's block both fail, a table can stay behind, and after
  more power cuts an attach may take it, with a mapping that is no longer in force
  (found with 9 blocks, 2 faults and 3 boots).  So it stays a property of instances
  with the faults and cuts of `crash`.
* `DmaMonitor`, both of whose properties are leads-to; `SuccessMeansAlive`, which is
  not true of every value of the constants, also with prompt cores (`Prompt`) and a
  driver that is not removed (`~MayRemove`).
* The refinement of `TxQueue`: the queue of packets is a subsequence of the ring, a
  fact by induction over data.
* All liveness, which is out of the prover's reach.

## 7. Not modelled

Everything marked `not_modelled` in `PROJECT.json`, with the reason there: the
SER slot of the tops subsystem and the upgrade scripts are
planned; drivers that are register sequences, vendored kits, configuration
readers and build-time code are not.
Of `nmbm-mtd.c`, probe, remove and the copying
between page buffers are left out.
Of the Ethernet reset, the register sequences, the PHY configuration around a
round, the event that tells `mtk_hnat` to rebuild its table, and probe and
remove are left out.
Of `tnl_offload.c`, the parsing of packets by protocol, the packet index, the hash, the
registration of types, the flush of the PPE and probe and removal are left out;
of pce, every table but the destination filter.
Of `mcu.c`, the end of `mtk_tops_mcu_reset` with RELEASE_RESET is left out, since
its callers (`ser.c`) only ask for the other two, and so is the probe.  Of the
transmit path, the PDMA variant of MT7628, fragments that need several
descriptors, the value of the queue limit, and devices that users take down in
the middle of a reset (which `EthReset` has) are left out.
Known and not covered by a property: `nmbm_remove` adds the device to
`nmbm_devs` a second time (`nmbm-mtd.c` 793); the device may shrink over a reboot
when the highest logical blocks were unmapped (`nmbm-core.c` 2017); a round
attaches the PHY of a device that is down, whose user then cannot open it
(`mtk_eth_soc.c` 4164).
