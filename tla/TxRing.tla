--------------------------------- MODULE TxRing ---------------------------------
(* The QDMA transmit ring of mtk_eth_soc.c, which all network devices share:    *)
(* mtk_start_xmit fills it under page_lock, the NAPI poll empties it without    *)
(* that lock, the queues of the devices are stopped when it is nearly full and  *)
(* woken when it is not.  The devices go down and up, and a reset of the engine *)
(* stops and opens all of them under the feet of the stack.                     *)
(*                                                                              *)
(* A descriptor is its index in the ring.  The owner bit, which mtk_poll_tx     *)
(* tests in the last descriptor it gave back, is always set there.              *)
EXTENDS Integers, FiniteSets

CONSTANTS
  Devs,       \* the network devices
  Size,       \* MTK_DMA_SIZE
  Thresh,     \* ring->thresh: MAX_SKB_FRAGS
  MaxNeed,    \* bound on the descriptors of a packet
  Budget,     \* the packets a poll may complete
  MaxMore     \* bound on the packets with xmit_more in a row

ASSUME DevsAssumption == Devs # {} /\ IsFiniteSet(Devs) /\ Devs \cap {"none", "frag"} = {}
ASSUME RingAssumption ==
  /\ Size \in Nat /\ Size > 2 /\ Thresh \in Nat
  /\ MaxNeed \in Nat \ {0} /\ Budget \in Nat \ {0}
  /\ MaxMore \in Nat

Slots == 0 .. Size - 1

VARIABLES
  \* struct mtk_tx_ring
  buf,         \* each tx_buf: "none", the device of the packet it starts, or "frag"
  next_free, last_free, free_count,
  \* the registers
  ctx,         \* qdma.ctx_ptr: the hardware sends what comes before it
  drx,         \* qdma.drx_ptr: the last descriptor it is done with
  status, mask, \* MTK_TX_DONE_INT in tx_irq_status and tx_irq_mask
  \* the NAPI poll
  napi,        \* where it is
  dma, budget, \* its locals
  done,        \* the packets of each device it completed
  \* mtk_start_xmit, under page_lock
  xmit,        \* where it is
  xdev, need, more, \* its device, descriptors and xmit_more
  \* the stack
  batch,       \* how many packets of a running batch each device has handed over
  stopped,     \* the devices whose queue is stopped
  bql,         \* the packets of each device that were sent and not completed
  \* who is up
  up,          \* the devices the stack may call
  open,        \* the devices that dma_refcnt counts
  reset,       \* the reset: "no", "stop" or "open"
  closing      \* the last device is being stopped

ring == <<buf, next_free, last_free, free_count>>
regs == <<ctx, drx, status, mask>>
poll == <<napi, dma, budget, done>>
send == <<xmit, xdev, need, more>>
stack == <<batch, stopped, bql>>
devices == <<up, open, reset, closing>>
vars == <<ring, regs, poll, send, stack, devices>>

(* The descriptor n after a, for n at most Size, and how far b is after a.      *)
After(a, n) == IF a + n < Size THEN a + n ELSE a + n - Size
Dist(a, b) == IF b >= a THEN b - a ELSE b + Size - a

Live == open # {} \/ closing

---------------------------------------------------------------------------------
(* mtk_start_xmit                                                               *)

(* The stack calls for a device whose queue is awake, and goes on with a batch. *)
Callable(d) == xmit = "idle" /\ d \in up /\ d \notin stopped

FaultyStartXmit(d) ==
  /\ Callable(d)
  /\ \E n \in 1 .. MaxNeed, m \in BOOLEAN :
       /\ m => batch[d] < MaxMore
       /\ xdev' = d /\ need' = n /\ more' = m
       /\ xmit' = IF free_count <= n THEN "full" ELSE "map"
  /\ UNCHANGED <<ring, regs, poll, stack, devices>>

(* spin_lock(&eth->page_lock), the test of MTK_RESETTING and of free_count      *)
StartXmit(d) ==
  /\ Callable(d) /\ reset = "no"
  /\ \E n \in 1 .. MaxNeed, m \in BOOLEAN :
       /\ m => batch[d] < MaxMore
       /\ xdev' = d /\ need' = n /\ more' = m
       /\ xmit' = IF free_count <= n THEN "full" ELSE "map"
  /\ UNCHANGED <<ring, regs, poll, stack, devices>>

(* MTK_RESETTING: the packet is dropped.                                        *)
DropInReset(d) ==
  /\ Callable(d) /\ reset # "no" /\ batch[d] > 0
  /\ batch' = [batch EXCEPT ![d] = 0]
  /\ UNCHANGED <<ring, regs, poll, send, stopped, bql, devices>>

(* Locals that are dead take a fixed value, here and in the poll.               *)
Somebody == CHOOSE d \in Devs : TRUE

(* The return to the stack, which goes on with its batch if there is more and   *)
(* the queue is awake.                                                          *)
Return(goesOn) ==
  /\ xmit' = "idle" /\ xdev' = Somebody /\ need' = 1 /\ more' = FALSE
  /\ batch' = [batch EXCEPT ![xdev] = IF goesOn THEN @ + 1 ELSE 0]

(* netif_stop_queue(dev)                                                        *)
StopQueue == stopped' = stopped \cup {xdev}

(* "Tx Ring full when queue awake!": NETDEV_TX_BUSY                             *)
Busy ==
  /\ xmit = "full" /\ StopQueue /\ Return(FALSE)
  /\ UNCHANGED <<ring, regs, poll, bql, devices>>

(* mtk_tx_map: the descriptors are filled, the packet is counted by             *)
(* netdev_sent_queue, free_count is taken down, and the hardware is told if no  *)
(* further packet is to come at once.  None is if the count reached the limit   *)
(* that the stack puts on the queue (netif_xmit_stopped): it may be anything.   *)
FaultyMap ==
  /\ xmit = "map" /\ xmit' = "compare" /\ need' = 1
  /\ buf' = [i \in Slots |-> IF i = next_free THEN xdev
                             ELSE IF Dist(next_free, i) < need THEN "frag" ELSE buf[i]]
  /\ next_free' = After(next_free, need) /\ free_count' = free_count - 1
  /\ bql' = [bql EXCEPT ![xdev] = @ + 1]
  /\ more' \in {more, FALSE} /\ ctx' = IF more' THEN ctx ELSE next_free'
  /\ UNCHANGED <<last_free, drx, status, mask, poll, xdev, batch, stopped, devices>>

Map ==
  /\ xmit = "map" /\ xmit' = "compare" /\ need' = 1
  /\ buf' = [i \in Slots |-> IF i = next_free THEN xdev
                             ELSE IF Dist(next_free, i) < need THEN "frag" ELSE buf[i]]
  /\ next_free' = After(next_free, need) /\ free_count' = free_count - need
  /\ bql' = [bql EXCEPT ![xdev] = @ + 1]
  /\ more' \in {more, FALSE} /\ ctx' = IF more' THEN ctx ELSE next_free'
  /\ UNCHANGED <<last_free, drx, status, mask, poll, xdev, batch, stopped, devices>>

(* skb_cow_head, skb_put_padto or a DMA mapping fails: what was filled is        *)
(* unmapped again, the packet is dropped, and the doorbell that the packets     *)
(* before it in the batch left to it is not rung.  The ring does not tell them  *)
(* apart; skb_put_padto has freed the packet that the drop frees again.         *)
MapFails ==
  /\ xmit = "map" /\ Return(more)
  /\ UNCHANGED <<ring, regs, poll, stopped, bql, devices>>

(* free_count against thresh, and netif_stop_queue after it                     *)
Compare ==
  /\ xmit = "compare"
  /\ IF free_count <= Thresh
       THEN xmit' = "stop" /\ UNCHANGED <<xdev, need, more, batch>>
       ELSE Return(more)
  /\ UNCHANGED <<ring, regs, poll, stopped, bql, devices>>

Stop ==
  /\ xmit = "stop" /\ StopQueue /\ Return(FALSE)
  /\ UNCHANGED <<ring, regs, poll, bql, devices>>

XmitRuns == Busy \/ Map \/ MapFails \/ Compare \/ Stop

---------------------------------------------------------------------------------
(* The hardware (external): it sends packet after packet up to ctx_ptr, and     *)
(* gives back all descriptors of a packet at once.                              *)
IsHead(i) == buf[i] \notin {"none", "frag"}

Sends ==
  /\ Live
  /\ \E n \in 1 .. Size :
       /\ n < Dist(drx, ctx)
       /\ LET last == After(drx, n) IN
            /\ \A k \in 2 .. n : ~IsHead(After(drx, k))
            /\ After(last, 1) = ctx \/ IsHead(After(last, 1))
            /\ drx' = last
  /\ status' = TRUE
  /\ UNCHANGED <<ring, ctx, mask, poll, send, stack, devices>>

---------------------------------------------------------------------------------
(* The interrupt and the NAPI poll                                              *)

(* mtk_handle_irq_tx                                                            *)
Irq ==
  /\ status /\ mask /\ napi = "idle"
  /\ mask' = FALSE /\ napi' = "clear"
  /\ UNCHANGED <<ring, ctx, drx, status, dma, budget, done, send, stack,
                 devices>>

(* mtk_napi_tx: the interrupt is acknowledged before the poll looks             *)
Clear ==
  /\ napi = "clear" /\ napi' = "look" /\ status' = FALSE
  /\ UNCHANGED <<ring, ctx, drx, mask, dma, budget, done, send, stack, devices>>

Look ==
  /\ napi = "look" /\ napi' = "reap" /\ dma' = drx
  /\ UNCHANGED <<ring, regs, budget, done, send, stack, devices>>

(* mtk_poll_tx_qdma: one turn of its loop                                       *)
MayReap == last_free # dma /\ budget > 0 /\ buf[After(last_free, 1)] # "none"

Reap ==
  LET next == After(last_free, 1) IN
  /\ napi = "reap" /\ MayReap
  /\ IF IsHead(next)
       THEN budget' = budget - 1 /\ done' = [done EXCEPT ![buf[next]] = @ + 1]
       ELSE UNCHANGED <<budget, done>>
  /\ buf' = [buf EXCEPT ![next] = "none"]
  /\ last_free' = next /\ free_count' = free_count + 1
  /\ UNCHANGED <<next_free, regs, napi, dma, send, stack, devices>>

(* netdev_completed_queue for each device                                       *)
FaultyComplete ==
  /\ napi = "reap" /\ ~MayReap /\ napi' = "compare" /\ status' = FALSE
  /\ bql' = [d \in Devs |-> bql[d] - done[d]] /\ done' = [d \in Devs |-> 0]
  /\ dma' = 0
  /\ UNCHANGED <<ring, ctx, drx, mask, budget, send, batch, stopped, devices>>

Complete ==
  /\ napi = "reap" /\ ~MayReap /\ napi' = "compare"
  /\ bql' = [d \in Devs |-> bql[d] - done[d]] /\ done' = [d \in Devs |-> 0]
  /\ dma' = 0
  /\ UNCHANGED <<ring, regs, budget, send, batch, stopped, devices>>

(* mtk_queue_stopped and free_count, and mtk_wake_queue after it: it wakes the  *)
(* queue of every device.                                                       *)
CompareToWake ==
  /\ napi = "compare"
  /\ napi' = IF stopped # {} /\ free_count > Thresh THEN "wake" ELSE "end"
  /\ UNCHANGED <<ring, regs, dma, budget, done, send, stack, devices>>

FaultyWake ==
  /\ napi = "wake" /\ napi' = "end"
  /\ \E d \in stopped : stopped' = stopped \ {d}
  /\ UNCHANGED <<ring, regs, dma, budget, done, send, batch, bql, devices>>

Wake ==
  /\ napi = "wake" /\ napi' = "end"
  /\ stopped' = {}
  /\ UNCHANGED <<ring, regs, dma, budget, done, send, batch, bql, devices>>

(* The poll goes on if its budget was used up or the hardware has sent more;    *)
(* else napi_complete and mtk_tx_irq_enable.                                    *)
End ==
  /\ napi = "end"
  /\ budget' = Budget
  /\ IF budget = 0 \/ status
       THEN napi' = "clear" /\ UNCHANGED mask
       ELSE napi' = "idle" /\ mask' = TRUE
  /\ UNCHANGED <<ring, ctx, drx, status, dma, done, send, stack, devices>>

Poll == Clear \/ Look \/ Reap \/ Complete \/ CompareToWake \/ Wake \/ End

---------------------------------------------------------------------------------
(* The devices go down and up, all under rtnl                                   *)

(* mtk_stop up to "only shutdown DMA if this is the last user".  netif_tx_disable *)
(* waits for a packet or a batch of the device that is being sent.               *)
StopDevice(d) ==
  /\ d \in open /\ ~closing
  /\ xmit # "idle" => xdev # d
  /\ batch[d] = 0
  /\ stopped' = stopped \cup {d}
  /\ open' = open \ {d}
  /\ closing' = (open' = {}) /\ mask' = (mask /\ open' # {})
  /\ UNCHANGED <<ring, ctx, drx, status, poll, send, batch, bql>>

(* The rest of it, for the last one: napi_disable waits for the poll, then the  *)
(* DMA is stopped and the ring is freed.                                        *)
FaultyFreeRing ==
  /\ closing /\ napi = "idle"
  /\ napi' = "off" /\ closing' = FALSE
  /\ buf' = [i \in Slots |-> "none"]
  /\ UNCHANGED <<next_free, last_free, free_count, regs, dma, budget, done,
                 send, stack, up, open, reset>>

FreeRing ==
  /\ closing /\ napi = "idle"
  /\ napi' = "off" /\ closing' = FALSE
  /\ buf' = [i \in Slots |-> "none"]
  /\ bql' = [d \in Devs |-> 0]
  /\ UNCHANGED <<next_free, last_free, free_count, regs, dma, budget, done,
                 send, batch, stopped, up, open, reset>>

(* mtk_open, with mtk_tx_alloc for the first one                                *)
OpenDevice(d) ==
  /\ d \notin open /\ ~closing /\ open' = open \cup {d}
  /\ stopped' = stopped \ {d}
  /\ IF open = {}
       THEN /\ next_free' = 0 /\ last_free' = Size - 1 /\ free_count' = Size - 2
            /\ ctx' = 0 /\ drx' = Size - 1 /\ mask' = TRUE /\ napi' = "idle"
       ELSE UNCHANGED <<next_free, last_free, free_count, ctx, drx, mask, napi>>
  /\ UNCHANGED <<buf, status, dma, budget, done, send, batch, bql, closing>>

(* The user takes a device down: the stack lets go of it first.                 *)
IfDown(d) ==
  /\ reset = "no" /\ d \in up
  /\ up' = up \ {d} /\ StopDevice(d) /\ UNCHANGED reset

IfUp(d) ==
  /\ reset = "no" /\ d \notin up
  /\ up' = up \cup {d} /\ OpenDevice(d) /\ UNCHANGED reset

(* mtk_pending_work: MTK_RESETTING, then mtk_stop and mtk_open for each device. *)
(* Module EthReset has the round as such, and devices that are down in it.      *)
ResetBegins ==
  /\ reset = "no" /\ ~closing /\ up = Devs /\ reset' = "stop"
  /\ UNCHANGED <<ring, regs, poll, send, stack, up, open, closing>>

ResetStops ==
  /\ reset = "stop" /\ UNCHANGED <<up, reset>>
  /\ \E d \in Devs : StopDevice(d)

ResetOpens ==
  /\ reset = "open" \/ (reset = "stop" /\ ~Live)
  /\ reset' = "open" /\ UNCHANGED up
  /\ \E d \in Devs : OpenDevice(d)

ResetEnds ==
  /\ reset = "open" /\ open = Devs /\ reset' = "no"
  /\ UNCHANGED <<ring, regs, poll, send, stack, up, open, closing>>

Rtnl == FreeRing \/ ResetStops \/ ResetOpens \/ ResetEnds

---------------------------------------------------------------------------------
Init ==
  /\ buf = [i \in Slots |-> "none"]
  /\ next_free = 0 /\ last_free = Size - 1 /\ free_count = Size - 2
  /\ ctx = 0 /\ drx = Size - 1 /\ status = FALSE /\ mask = TRUE
  /\ napi = "idle" /\ dma = 0 /\ budget = Budget
  /\ done = [d \in Devs |-> 0]
  /\ xmit = "idle" /\ xdev = Somebody /\ need = 1 /\ more = FALSE
  /\ batch = [d \in Devs |-> 0] /\ stopped = {}
  /\ bql = [d \in Devs |-> 0]
  /\ up = Devs /\ open = Devs /\ reset = "no" /\ closing = FALSE

Next ==
  \/ \E d \in Devs : StartXmit(d) \/ DropInReset(d) \/ IfDown(d) \/ IfUp(d)
  \/ XmitRuns \/ Sends \/ Irq \/ Poll \/ ResetBegins \/ Rtnl

Spec == Init /\ [][Next]_vars

GoesOn(d) == batch[d] > 0 /\ (StartXmit(d) \/ DropInReset(d))

(* Fairness: a packet that is being sent is sent to its end, the stack goes on  *)
(* with a batch, the hardware sends, the interrupt and the poll run, and so     *)
(* does who holds rtnl.                                                         *)
FairSpec ==
  /\ Spec /\ WF_vars(XmitRuns) /\ \A d \in Devs : WF_vars(GoesOn(d))
  /\ WF_vars(Sends) /\ WF_vars(Irq) /\ WF_vars(Poll) /\ WF_vars(Rtnl)

---------------------------------------------------------------------------------
(* Properties                                                                   *)

(* What the fields of the ring, the registers and the locals can hold.          *)
RingType ==
  /\ buf \in [Slots -> Devs \cup {"none", "frag"}]
  /\ next_free \in Slots /\ last_free \in Slots /\ free_count \in Nat
RegsType ==
  ctx \in Slots /\ drx \in Slots /\ status \in BOOLEAN /\ mask \in BOOLEAN
PollType ==
  /\ napi \in {"off", "idle", "clear", "look", "reap", "compare", "wake", "end"}
  /\ dma \in Slots /\ budget \in 0 .. Budget /\ done \in [Devs -> Nat]
SendType ==
  /\ xmit \in {"idle", "full", "map", "compare", "stop"}
  /\ xdev \in Devs /\ need \in 1 .. MaxNeed /\ more \in BOOLEAN
  /\ batch \in [Devs -> 0 .. MaxMore] /\ (more => batch[xdev] < MaxMore)
StackType == stopped \subseteq Devs /\ bql \in [Devs -> Int]
DevicesType ==
  /\ up \subseteq Devs /\ open \subseteq Devs
  /\ reset \in {"no", "stop", "open"} /\ closing \in BOOLEAN

(* The type invariant                                                           *)
TypeOK == RingType /\ RegsType /\ PollType /\ SendType /\ StackType /\ DevicesType

(* How far a descriptor is from the last one that was given back.               *)
Ahead(i) == Dist(last_free, i)

(* The pointers of the ring follow each other - given back, sent, announced,    *)
(* filled - and free_count is what lies between next_free and last_free.        *)
PointersInOrder ==
  Live =>
    /\ Ahead(drx) < Ahead(ctx) /\ Ahead(ctx) <= Ahead(next_free)
    /\ Ahead(next_free) + free_count = Size - 1
    /\ napi = "reap" => Ahead(dma) <= Ahead(drx)

(* Exactly the descriptors between last_free and next_free hold a buffer: none  *)
(* is forgotten, and none is filled twice.                                      *)
BuffersInRing ==
  \A i \in Slots :
    buf[i] # "none" <=> Live /\ 0 < Ahead(i) /\ Ahead(i) < Ahead(next_free)

(* The ring exists while a packet is put into it, or a poll looks at it.        *)
RingInUse ==
  /\ xmit \in {"map", "compare", "stop", "full"} => xdev \in open
  /\ xmit = "map" => free_count > need
  /\ napi # "off" <=> Live

(* The devices that are up are the ones dma_refcnt counts, but for the time of  *)
(* a reset.                                                                     *)
DevicesCounted ==
  /\ reset = "no" => up = open
  /\ reset # "no" => up = Devs
  /\ closing => open = {}

IInv ==
  TypeOK /\ PointersInOrder /\ BuffersInRing /\ RingInUse /\ DevicesCounted

(* mtk_tx_map never runs into last_free: the descriptors it fills are free, and *)
(* the ring does not fill up.  (Its own two tests of it are never true.)        *)
RoomForPacket ==
  xmit = "map" =>
    \A k \in 0 .. need - 1 :
      After(next_free, k) # last_free /\ buf[After(next_free, k)] = "none"

(* What netdev_sent_queue counted and netdev_completed_queue did not are the    *)
(* packets of the device in the ring, and the ones the running poll completed:  *)
(* the kernel's limit on a queue never drifts, whoever else uses the ring.      *)
BqlBalanced ==
  Live => \A d \in Devs : bql[d] = Cardinality({i \in Slots : buf[i] = d}) + done[d]

(* What BqlBalanced needs on top of IInv: a ring that does not exist owes the    *)
(* stack nothing, and only a poll at work holds completions back.               *)
BqlInv ==
  /\ BqlBalanced
  /\ ~Live => \A d \in Devs : bql[d] = 0
  /\ napi # "reap" => \A d \in Devs : done[d] = 0

(* A queue that is stopped while announced packets are in the ring is woken as  *)
(* soon as the other devices pause, unless the packets that were not announced  *)
(* fill the ring by themselves.  (Other devices can starve it, and nothing      *)
(* wakes a queue that is stopped when all packets have been given back.)        *)
FilledUnannounced == Size - 2 - Dist(ctx, next_free) <= Thresh
StoppedIsWoken ==
  \A d \in Devs :
    (d \in stopped \cap up /\ ctx # After(last_free, 1))
      ~> (\/ d \notin stopped \cap up \/ FilledUnannounced
          \/ xmit = "map" /\ xdev # d)

(* A queue that is stopped is woken.  The code does not ensure it: between the  *)
(* test of free_count and netif_stop_queue a poll may complete all packets.     *)
QueueIsWoken == \A d \in Devs : d \in stopped \cap up ~> d \notin stopped \cap up

(* What mtk_start_xmit accepted is announced to the hardware.  The code does    *)
(* not ensure it: a batch that is cut short leaves its packets unannounced.     *)
PacketsAreAnnounced == ctx # next_free ~> ctx = next_free

(* "Tx Ring full when queue awake!": mtk_start_xmit reports an error when it    *)
(* finds too little room in the ring.  Devices that share it make it happen.    *)
NeverFullWhenAwake == xmit # "full"
=================================================================================
