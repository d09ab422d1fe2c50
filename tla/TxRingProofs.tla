-------------------------------- MODULE TxRingProofs -----------------------------
(* Proofs about TxRing: the pointers of the ring stay in order, exactly the      *)
(* descriptors between them hold a buffer, mtk_tx_map never runs into last_free, *)
(* and the counts of the byte queue limits are those of the packets in the ring -*)
(* for any devices, any size of the ring, any threshold, packets and budget of   *)
(* any size, and with no assumption on who runs when.                            *)
EXTENDS TxRing, FiniteSetTheorems, TLAPS

---------------------------------------------------------------------------------
(* The ring as numbers                                                          *)

LEMMA SizeFacts ==
  /\ Size \in Nat /\ Size > 2 /\ Thresh \in Nat /\ MaxMore \in Nat
  /\ MaxNeed \in Nat /\ MaxNeed > 0 /\ Budget \in Nat /\ Budget > 0
BY RingAssumption

LEMMA SomebodyIsADevice ==
  /\ Somebody \in Devs /\ "none" \notin Devs /\ "frag" \notin Devs
BY DevsAssumption DEF Somebody

LEMMA DistRange ==
  ASSUME NEW a \in Slots, NEW b \in Slots
  PROVE  /\ Dist(a, b) \in Nat /\ Dist(a, b) < Size
         /\ Dist(a, b) = 0 <=> a = b
BY SizeFacts DEF Slots, Dist

(* After(a, n) is n after a.                                                    *)
LEMMA AfterDist ==
  ASSUME NEW a \in Slots, NEW n \in Nat, n < Size
  PROVE  After(a, n) \in Slots /\ Dist(a, After(a, n)) = n
BY SizeFacts DEF Slots, Dist, After

(* Distances from one descriptor, seen from another one that is nearer.         *)
LEMMA DistSeenFrom ==
  ASSUME NEW a \in Slots, NEW b \in Slots, NEW c \in Slots
  PROVE  /\ Dist(a, b) <= Dist(a, c) => Dist(b, c) = Dist(a, c) - Dist(a, b)
         /\ Dist(a, c) < Dist(a, b) => Dist(b, c) = Dist(a, c) - Dist(a, b) + Size
BY SizeFacts DEF Slots, Dist

(* To go further after b is to go further from a.                               *)
LEMMA AfterFurther ==
  ASSUME NEW a \in Slots, NEW b \in Slots, NEW n \in Nat, Dist(a, b) + n < Size
  PROVE  /\ After(b, n) \in Slots
         /\ Dist(a, After(b, n)) = Dist(a, b) + n
BY SizeFacts DEF Slots, Dist, After

(* Seen from the next descriptor, all others are nearer by one.                 *)
LEMMA NextIsNearer ==
  ASSUME NEW a \in Slots, NEW b \in Slots
  PROVE  /\ After(a, 1) \in Slots
         /\ b # a => Dist(After(a, 1), b) = Dist(a, b) - 1
         /\ Dist(After(a, 1), a) = Size - 1
         /\ b = After(a, 1) <=> Dist(a, b) = 1
BY SizeFacts DEF Slots, Dist, After

(* A ring that was just allocated                                               *)
LEMMA NewRing ==
  /\ 0 \in Slots /\ Size - 1 \in Slots /\ Dist(Size - 1, 0) = 1
  /\ Dist(Size - 1, Size - 1) = 0
BY SizeFacts DEF Slots, Dist

---------------------------------------------------------------------------------
(* What the parts of an action do                                               *)

(* mtk_start_xmit returns.                                                      *)
LEMMA ReturnTypes ==
  ASSUME SendType, NEW g \in BOOLEAN, g => batch[xdev] < MaxMore, Return(g)
  PROVE  SendType'
<1>1. batch[xdev] \in 0 .. MaxMore /\ xdev \in Devs
  BY DEF SendType
<1>2. (IF g THEN batch[xdev] + 1 ELSE 0) \in 0 .. MaxMore
  BY <1>1, SizeFacts
<1>3. batch' \in [Devs -> 0 .. MaxMore]
  BY <1>1, <1>2 DEF SendType, Return
<1>4. /\ xmit' = "idle" /\ xdev' = Somebody /\ need' = 1 /\ more' = FALSE
  BY DEF Return
<1>5. 1 \in 1 .. MaxNeed
  BY SizeFacts
<1> QED
  BY <1>3, <1>4, <1>5, SomebodyIsADevice DEF SendType

(* mtk_open allocates the ring for the first device, and finds it allocated for *)
(* any other.                                                                   *)
LEMMA OpenedRing ==
  ASSUME TypeOK, PointersInOrder, BuffersInRing, RingInUse, DevicesCounted,
         NEW d \in Devs, OpenDevice(d), UNCHANGED <<xmit, xdev, need>>
  PROVE  RingType' /\ RegsType' /\ PointersInOrder' /\ BuffersInRing' /\ RingInUse'
<1>1. CASE open = {}
  <2>1. ~Live /\ Live'
    BY <1>1 DEF OpenDevice, Live
  <2>2. /\ next_free' = 0 /\ last_free' = Size - 1 /\ free_count' = Size - 2
        /\ ctx' = 0 /\ drx' = Size - 1 /\ mask' = TRUE /\ napi' = "idle"
        /\ buf' = buf /\ status' = status
    BY <1>1 DEF OpenDevice
  <2>3. RingType' /\ RegsType'
    BY <2>2, NewRing, SizeFacts DEF TypeOK, RingType, RegsType
  <2>4. PointersInOrder'
    BY <2>2, NewRing, SizeFacts DEF PointersInOrder, Ahead
  <2>5. \A i \in Slots : buf[i] = "none"
    BY <2>1 DEF BuffersInRing
  <2>6. \A i \in Slots : ~(0 < Dist(Size - 1, i) /\ Dist(Size - 1, i) < 1)
    BY NewRing, DistRange
  <2>7. BuffersInRing'
    BY <2>2, <2>5, <2>6, NewRing DEF BuffersInRing, Ahead
  <2>8. RingInUse'
    BY <1>1, <2>1, <2>2 DEF RingInUse
  <2> QED
    BY <2>3, <2>4, <2>7, <2>8
<1>2. CASE open # {}
  <2>1. /\ Live /\ Live' /\ open \subseteq open' /\ status' = status /\ buf' = buf
        /\ UNCHANGED <<next_free, last_free, free_count, ctx, drx, mask, napi, dma>>
    BY <1>2 DEF OpenDevice, Live
  <2> QED
    BY <2>1
       DEF TypeOK, RingType, RegsType, PointersInOrder, BuffersInRing,
           RingInUse, Ahead
<1> QED
  BY <1>1, <1>2

(* mtk_tx_map moves next_free on over descriptors that are free.                *)
LEMMA MappedRing ==
  ASSUME TypeOK, PointersInOrder, RingInUse, Map
  PROVE  /\ Live /\ Live' /\ need \in Nat /\ need > 0
         /\ next_free' \in Slots /\ Ahead(next_free)' = Ahead(next_free) + need
         /\ free_count' = free_count - need /\ free_count' \in Nat
         /\ Ahead(next_free) \in Nat
         /\ Ahead(next_free)' + free_count' = Size - 1
<1>1. Live /\ free_count > need /\ Live'
  BY DEF Map, RingInUse, Live, devices
<1>2. /\ need \in Nat /\ need > 0 /\ free_count \in Nat
      /\ next_free \in Slots /\ last_free \in Slots
  BY SizeFacts DEF TypeOK, RingType, SendType
<1>3. /\ Dist(last_free, next_free) \in Nat
      /\ Dist(last_free, next_free) + free_count = Size - 1
  BY <1>1, <1>2, DistRange DEF PointersInOrder, Ahead
<1>4. Dist(last_free, next_free) + need < Size
  BY <1>1, <1>2, <1>3, SizeFacts
<1>5. /\ next_free' = After(next_free, need) /\ last_free' = last_free
      /\ free_count' = free_count - need
  BY DEF Map
<1>6. /\ next_free' \in Slots
      /\ Dist(last_free', next_free') = Dist(last_free, next_free) + need
  BY <1>2, <1>4, <1>5, AfterFurther
<1> QED
  BY <1>1, <1>2, <1>3, <1>5, <1>6, SizeFacts DEF Ahead

(* mtk_poll_tx_qdma gives one descriptor back, one the hardware is done with.   *)
LEMMA ReapedRing ==
  ASSUME TypeOK, PointersInOrder, BuffersInRing, RingInUse, Reap
  PROVE  /\ Live /\ last_free' = After(last_free, 1) /\ last_free' \in Slots
         /\ 1 <= Ahead(dma) /\ Ahead(dma) <= Ahead(drx)
         /\ \A i \in Slots : i # last_free => Ahead(i)' = Dist(last_free, i) - 1
         /\ Ahead(last_free') = 1 /\ Dist(last_free', last_free) = Size - 1
<1>1. Live
  BY DEF Reap, RingInUse
<1>2. last_free \in Slots /\ dma \in Slots /\ drx \in Slots
  BY DEF TypeOK, RingType, RegsType, PollType
<1>3. last_free # dma /\ last_free' = After(last_free, 1)
  BY DEF Reap, MayReap
<1>4. Ahead(dma) <= Ahead(drx)
  BY <1>1 DEF Reap, PointersInOrder
<1>5. Dist(last_free, dma) \in Nat /\ Dist(last_free, dma) # 0
  BY <1>2, <1>3, DistRange
<1>6. 1 <= Ahead(dma)
  BY <1>5 DEF Ahead
<1>7. last_free' \in Slots /\ Dist(last_free, last_free') = 1
  BY <1>2, <1>3, NextIsNearer
<1>8. \A i \in Slots : i # last_free => Ahead(i)' = Dist(last_free, i) - 1
  BY <1>2, <1>3, NextIsNearer DEF Ahead
<1>9. Dist(last_free', last_free) = Size - 1
  BY <1>2, <1>3, NextIsNearer
<1> QED
  BY <1>1, <1>3, <1>4, <1>6, <1>7, <1>8, <1>9 DEF Ahead

---------------------------------------------------------------------------------
(* Types                                                                        *)

(* The fields of the ring keep their types.                                     *)
LEMMA RingTypeStep ==
  ASSUME TypeOK, PointersInOrder, BuffersInRing, RingInUse, DevicesCounted, [Next]_vars
  PROVE  RingType'
<1>1. ASSUME NEW d \in Devs, StartXmit(d) PROVE RingType'
  BY <1>1, SizeFacts, SomebodyIsADevice
     DEF StartXmit, Callable, ring, regs, poll, stack, devices, TypeOK,
         RingType, SendType
<1>2. ASSUME NEW d \in Devs, DropInReset(d) PROVE RingType'
  BY <1>2, SizeFacts, SomebodyIsADevice
     DEF DropInReset, Callable, ring, regs, poll, send, devices, TypeOK,
         RingType, SendType
<1>3. ASSUME NEW d \in Devs, IfDown(d) PROVE RingType'
  BY <1>3, SizeFacts, SomebodyIsADevice
     DEF IfDown, StopDevice, ring, poll, send, TypeOK, RingType, SendType
<1>4. ASSUME NEW d \in Devs, IfUp(d) PROVE RingType'
  <2>1. OpenDevice(d) /\ UNCHANGED <<xmit, xdev, need>>
    BY <1>4 DEF IfUp, OpenDevice, send
  <2> QED
    BY <2>1, OpenedRing
<1>5. CASE Busy
  BY <1>5, SizeFacts, SomebodyIsADevice
     DEF Busy, Return, StopQueue, ring, regs, poll, devices, TypeOK, RingType,
         SendType
<1>6. CASE Map
  <2>1. buf' \in [Slots -> Devs \cup {"none", "frag"}]
    BY <1>6 DEF Map, TypeOK, RingType, SendType
  <2> QED
    BY <1>6, <2>1, MappedRing DEF Map, RingType, TypeOK
<1>7. CASE MapFails
  BY <1>7, SizeFacts, SomebodyIsADevice
     DEF MapFails, Return, ring, regs, poll, devices, TypeOK, RingType, SendType
<1>8. CASE Compare
  BY <1>8, SizeFacts, SomebodyIsADevice
     DEF Compare, Return, ring, regs, poll, devices, TypeOK, RingType, SendType
<1>9. CASE Stop
  BY <1>9, SizeFacts, SomebodyIsADevice
     DEF Stop, Return, StopQueue, ring, regs, poll, devices, TypeOK, RingType,
         SendType
<1>10. CASE Sends
  BY <1>10, SizeFacts, SomebodyIsADevice
     DEF Sends, ring, poll, send, stack, devices, TypeOK, RingType, SendType
<1>11. CASE Irq
  BY <1>11, SizeFacts, SomebodyIsADevice
     DEF Irq, ring, send, stack, devices, TypeOK, RingType, SendType
<1>12. CASE Clear
  BY <1>12, SizeFacts, SomebodyIsADevice
     DEF Clear, ring, send, stack, devices, TypeOK, RingType, SendType
<1>13. CASE Look
  BY <1>13, SizeFacts, SomebodyIsADevice
     DEF Look, ring, regs, send, stack, devices, TypeOK, RingType, SendType
<1>14. CASE Reap
  <2>1. buf' \in [Slots -> Devs \cup {"none", "frag"}]
    BY <1>14 DEF Reap, TypeOK, RingType
  <2>2. free_count' \in Nat /\ next_free' \in Slots
    BY <1>14 DEF Reap, TypeOK, RingType
  <2> QED
    BY <1>14, <2>1, <2>2, ReapedRing DEF RingType
<1>15. CASE Complete
  BY <1>15, SizeFacts, SomebodyIsADevice
     DEF Complete, MayReap, ring, regs, send, devices, TypeOK, RingType,
         SendType
<1>16. CASE CompareToWake
  BY <1>16, SizeFacts, SomebodyIsADevice
     DEF CompareToWake, ring, regs, send, stack, devices, TypeOK, RingType,
         SendType
<1>17. CASE Wake
  BY <1>17, SizeFacts, SomebodyIsADevice
     DEF Wake, ring, regs, send, devices, TypeOK, RingType, SendType
<1>18. CASE End
  BY <1>18, SizeFacts, SomebodyIsADevice
     DEF End, ring, send, stack, devices, TypeOK, RingType, SendType
<1>19. CASE FreeRing
  BY <1>19, SizeFacts, SomebodyIsADevice
     DEF FreeRing, regs, send, TypeOK, RingType, SendType
<1>20. CASE ResetBegins
  BY <1>20, SizeFacts, SomebodyIsADevice
     DEF ResetBegins, ring, regs, poll, send, stack, TypeOK, RingType, SendType
<1>21. CASE ResetStops
  BY <1>21, SizeFacts, SomebodyIsADevice
     DEF ResetStops, StopDevice, ring, poll, send, TypeOK, RingType, SendType
<1>22. CASE ResetOpens
  <2>1. PICK d \in Devs : OpenDevice(d)
    BY <1>22 DEF ResetOpens
  <2>2. UNCHANGED <<xmit, xdev, need>>
    BY <2>1 DEF OpenDevice, send
  <2> QED
    BY <2>1, <2>2, OpenedRing
<1>23. CASE ResetEnds
  BY <1>23, SizeFacts, SomebodyIsADevice
     DEF ResetEnds, ring, regs, poll, send, stack, TypeOK, RingType, SendType
<1>24. CASE UNCHANGED vars
  BY <1>24
     DEF vars, ring, regs, poll, send, stack, devices, TypeOK, RingType,
         SendType
<1> QED
  BY <1>1, <1>2, <1>3, <1>4, <1>5, <1>6, <1>7, <1>8, <1>9, <1>10, <1>11, <1>12,
     <1>13, <1>14, <1>15, <1>16, <1>17, <1>18, <1>19, <1>20, <1>21, <1>22,
     <1>23, <1>24
  DEF Next, XmitRuns, Poll, Rtnl

(* So do the registers,                                                         *)
LEMMA RegsTypeStep ==
  ASSUME TypeOK, PointersInOrder, BuffersInRing, RingInUse, DevicesCounted, [Next]_vars
  PROVE  RegsType'
<1>1. ASSUME NEW d \in Devs, StartXmit(d) PROVE RegsType'
  BY <1>1, SizeFacts
     DEF StartXmit, Callable, ring, regs, poll, stack, devices, TypeOK,
         RegsType, RingType
<1>2. ASSUME NEW d \in Devs, DropInReset(d) PROVE RegsType'
  BY <1>2, SizeFacts
     DEF DropInReset, Callable, ring, regs, poll, send, devices, TypeOK,
         RegsType, RingType
<1>3. ASSUME NEW d \in Devs, IfDown(d) PROVE RegsType'
  BY <1>3, SizeFacts
     DEF IfDown, StopDevice, ring, poll, send, TypeOK, RegsType, RingType
<1>4. ASSUME NEW d \in Devs, IfUp(d) PROVE RegsType'
  <2>1. OpenDevice(d) /\ UNCHANGED <<xmit, xdev, need>>
    BY <1>4 DEF IfUp, OpenDevice, send
  <2> QED
    BY <2>1, OpenedRing
<1>5. CASE Busy
  BY <1>5, SizeFacts
     DEF Busy, Return, StopQueue, ring, regs, poll, devices, TypeOK, RegsType,
         RingType
<1>6. CASE Map
  BY <1>6, MappedRing DEF Map, TypeOK, RegsType
<1>7. CASE MapFails
  BY <1>7, SizeFacts
     DEF MapFails, Return, ring, regs, poll, devices, TypeOK, RegsType, RingType
<1>8. CASE Compare
  BY <1>8, SizeFacts
     DEF Compare, Return, ring, regs, poll, devices, TypeOK, RegsType, RingType
<1>9. CASE Stop
  BY <1>9, SizeFacts
     DEF Stop, Return, StopQueue, ring, regs, poll, devices, TypeOK, RegsType,
         RingType
<1>10. CASE Sends
  <2>1. PICK n \in 1 .. Size : n < Dist(drx, ctx) /\ drx' = After(drx, n)
    BY <1>10 DEF Sends
  <2>2. drx \in Slots /\ ctx \in Slots /\ n \in Nat /\ n < Size
    BY <2>1, SizeFacts, DistRange DEF TypeOK, RegsType
  <2>3. drx' \in Slots
    BY <2>1, <2>2, AfterDist
  <2> QED
    BY <1>10, <2>3 DEF Sends, TypeOK, RegsType
<1>11. CASE Irq
  BY <1>11, SizeFacts
     DEF Irq, ring, send, stack, devices, TypeOK, RegsType, RingType
<1>12. CASE Clear
  BY <1>12, SizeFacts
     DEF Clear, ring, send, stack, devices, TypeOK, RegsType, RingType
<1>13. CASE Look
  BY <1>13, SizeFacts
     DEF Look, ring, regs, send, stack, devices, TypeOK, RegsType, RingType
<1>14. CASE Reap
  BY <1>14, SizeFacts
     DEF Reap, MayReap, regs, send, stack, devices, TypeOK, RegsType, RingType
<1>15. CASE Complete
  BY <1>15, SizeFacts
     DEF Complete, MayReap, ring, regs, send, devices, TypeOK, RegsType,
         RingType
<1>16. CASE CompareToWake
  BY <1>16, SizeFacts
     DEF CompareToWake, ring, regs, send, stack, devices, TypeOK, RegsType,
         RingType
<1>17. CASE Wake
  BY <1>17, SizeFacts
     DEF Wake, ring, regs, send, devices, TypeOK, RegsType, RingType
<1>18. CASE End
  BY <1>18, SizeFacts
     DEF End, ring, send, stack, devices, TypeOK, RegsType, RingType
<1>19. CASE FreeRing
  BY <1>19, SizeFacts DEF FreeRing, regs, send, TypeOK, RegsType, RingType
<1>20. CASE ResetBegins
  BY <1>20, SizeFacts
     DEF ResetBegins, ring, regs, poll, send, stack, TypeOK, RegsType, RingType
<1>21. CASE ResetStops
  BY <1>21, SizeFacts
     DEF ResetStops, StopDevice, ring, poll, send, TypeOK, RegsType, RingType
<1>22. CASE ResetOpens
  <2>1. PICK d \in Devs : OpenDevice(d)
    BY <1>22 DEF ResetOpens
  <2>2. UNCHANGED <<xmit, xdev, need>>
    BY <2>1 DEF OpenDevice, send
  <2> QED
    BY <2>1, <2>2, OpenedRing
<1>23. CASE ResetEnds
  BY <1>23, SizeFacts
     DEF ResetEnds, ring, regs, poll, send, stack, TypeOK, RegsType, RingType
<1>24. CASE UNCHANGED vars
  BY <1>24
     DEF vars, ring, regs, poll, send, stack, devices, TypeOK, RegsType,
         RingType
<1> QED
  BY <1>1, <1>2, <1>3, <1>4, <1>5, <1>6, <1>7, <1>8, <1>9, <1>10, <1>11, <1>12,
     <1>13, <1>14, <1>15, <1>16, <1>17, <1>18, <1>19, <1>20, <1>21, <1>22,
     <1>23, <1>24
  DEF Next, XmitRuns, Poll, Rtnl

(* the locals of the poll,                                                      *)
LEMMA PollTypeStep ==
  ASSUME TypeOK, [Next]_vars
  PROVE  PollType'
<1>1. ASSUME NEW d \in Devs, StartXmit(d) PROVE PollType'
  BY <1>1, SizeFacts, NewRing
     DEF StartXmit, Callable, ring, regs, poll, stack, devices, TypeOK,
         PollType, RegsType, RingType
<1>2. ASSUME NEW d \in Devs, DropInReset(d) PROVE PollType'
  BY <1>2, SizeFacts, NewRing
     DEF DropInReset, Callable, ring, regs, poll, send, devices, TypeOK,
         PollType, RegsType, RingType
<1>3. ASSUME NEW d \in Devs, IfDown(d) PROVE PollType'
  BY <1>3, SizeFacts, NewRing
     DEF IfDown, StopDevice, ring, poll, send, TypeOK, PollType, RegsType,
         RingType
<1>4. ASSUME NEW d \in Devs, IfUp(d) PROVE PollType'
  BY <1>4, SizeFacts, NewRing
     DEF IfUp, OpenDevice, send, TypeOK, PollType, RegsType, RingType
<1>5. CASE Busy
  BY <1>5, SizeFacts, NewRing
     DEF Busy, Return, StopQueue, ring, regs, poll, devices, TypeOK, PollType,
         RegsType, RingType
<1>6. CASE Map
  BY <1>6, SizeFacts, NewRing
     DEF Map, poll, devices, TypeOK, PollType, RegsType, RingType
<1>7. CASE MapFails
  BY <1>7, SizeFacts, NewRing
     DEF MapFails, Return, ring, regs, poll, devices, TypeOK, PollType,
         RegsType, RingType
<1>8. CASE Compare
  BY <1>8, SizeFacts, NewRing
     DEF Compare, Return, ring, regs, poll, devices, TypeOK, PollType, RegsType,
         RingType
<1>9. CASE Stop
  BY <1>9, SizeFacts, NewRing
     DEF Stop, Return, StopQueue, ring, regs, poll, devices, TypeOK, PollType,
         RegsType, RingType
<1>10. CASE Sends
  BY <1>10, SizeFacts, NewRing
     DEF Sends, ring, poll, send, stack, devices, TypeOK, PollType, RegsType,
         RingType
<1>11. CASE Irq
  BY <1>11, SizeFacts, NewRing
     DEF Irq, ring, send, stack, devices, TypeOK, PollType, RegsType, RingType
<1>12. CASE Clear
  BY <1>12, SizeFacts, NewRing
     DEF Clear, ring, send, stack, devices, TypeOK, PollType, RegsType, RingType
<1>13. CASE Look
  BY <1>13, SizeFacts, NewRing
     DEF Look, ring, regs, send, stack, devices, TypeOK, PollType, RegsType,
         RingType
<1>14. CASE Reap
  <2>1. CASE IsHead(After(last_free, 1))
    <3>1. buf[After(last_free, 1)] \in Devs \/ buf[After(last_free, 1)] \notin Devs
      OBVIOUS
    <3>2. done' \in [Devs -> Nat]
      BY <1>14, <2>1, <3>1 DEF Reap, TypeOK, PollType
    <3>3. budget' \in 0 .. Budget
      BY <1>14, <2>1, SizeFacts DEF Reap, MayReap, TypeOK, PollType
    <3> QED
      BY <1>14, <3>2, <3>3 DEF Reap, TypeOK, PollType
  <2>2. CASE ~IsHead(After(last_free, 1))
    BY <1>14, <2>2 DEF Reap, TypeOK, PollType
  <2> QED
    BY <2>1, <2>2
<1>15. CASE Complete
  BY <1>15, SizeFacts, NewRing
     DEF Complete, MayReap, ring, regs, send, devices, TypeOK, PollType,
         RegsType, RingType
<1>16. CASE CompareToWake
  BY <1>16, SizeFacts, NewRing
     DEF CompareToWake, ring, regs, send, stack, devices, TypeOK, PollType,
         RegsType, RingType
<1>17. CASE Wake
  BY <1>17, SizeFacts, NewRing
     DEF Wake, ring, regs, send, devices, TypeOK, PollType, RegsType, RingType
<1>18. CASE End
  BY <1>18, SizeFacts, NewRing
     DEF End, ring, send, stack, devices, TypeOK, PollType, RegsType, RingType
<1>19. CASE FreeRing
  BY <1>19, SizeFacts, NewRing
     DEF FreeRing, regs, send, TypeOK, PollType, RegsType, RingType
<1>20. CASE ResetBegins
  BY <1>20, SizeFacts, NewRing
     DEF ResetBegins, ring, regs, poll, send, stack, TypeOK, PollType, RegsType,
         RingType
<1>21. CASE ResetStops
  BY <1>21, SizeFacts, NewRing
     DEF ResetStops, StopDevice, ring, poll, send, TypeOK, PollType, RegsType,
         RingType
<1>22. CASE ResetOpens
  BY <1>22, SizeFacts, NewRing
     DEF ResetOpens, OpenDevice, send, TypeOK, PollType, RegsType, RingType
<1>23. CASE ResetEnds
  BY <1>23, SizeFacts, NewRing
     DEF ResetEnds, ring, regs, poll, send, stack, TypeOK, PollType, RegsType,
         RingType
<1>24. CASE UNCHANGED vars
  BY <1>24
     DEF vars, ring, regs, poll, send, stack, devices, TypeOK, PollType,
         RegsType, RingType
<1> QED
  BY <1>1, <1>2, <1>3, <1>4, <1>5, <1>6, <1>7, <1>8, <1>9, <1>10, <1>11, <1>12,
     <1>13, <1>14, <1>15, <1>16, <1>17, <1>18, <1>19, <1>20, <1>21, <1>22,
     <1>23, <1>24
  DEF Next, XmitRuns, Poll, Rtnl

(* those of mtk_start_xmit,                                                     *)
LEMMA SendTypeStep ==
  ASSUME TypeOK, [Next]_vars
  PROVE  SendType'
<1>1. ASSUME NEW d \in Devs, StartXmit(d) PROVE SendType'
  BY <1>1, SizeFacts, SomebodyIsADevice
     DEF StartXmit, Callable, ring, regs, poll, stack, devices, TypeOK, SendType
<1>2. ASSUME NEW d \in Devs, DropInReset(d) PROVE SendType'
  BY <1>2, SizeFacts, SomebodyIsADevice
     DEF DropInReset, Callable, ring, regs, poll, send, devices, TypeOK,
         SendType
<1>3. ASSUME NEW d \in Devs, IfDown(d) PROVE SendType'
  BY <1>3, SizeFacts, SomebodyIsADevice
     DEF IfDown, StopDevice, ring, poll, send, TypeOK, SendType
<1>4. ASSUME NEW d \in Devs, IfUp(d) PROVE SendType'
  BY <1>4, SizeFacts, SomebodyIsADevice
     DEF IfUp, OpenDevice, send, TypeOK, SendType
<1>5. CASE Busy
  BY <1>5, ReturnTypes DEF Busy, TypeOK
<1>6. CASE Map
  <2>1. more' \in BOOLEAN /\ (more' => more)
    <3>1. more \in BOOLEAN /\ more' \in {more, FALSE}
      BY <1>6 DEF Map, TypeOK, SendType
    <3>2. CASE more' = more
      BY <3>1, <3>2, Zenon
    <3>3. CASE more' = FALSE
      BY <3>3, Zenon
    <3> QED
      BY <3>1, <3>2, <3>3, Zenon
  <2>2. need' \in 1 .. MaxNeed
    <3>1. need' = 1
      BY <1>6 DEF Map
    <3> QED
      BY <3>1, SizeFacts
  <2> QED
    BY <1>6, <2>1, <2>2 DEF Map, TypeOK, SendType
<1>7. CASE MapFails
  BY <1>7, ReturnTypes DEF MapFails, TypeOK, SendType
<1>8. CASE Compare
  <2>1. CASE free_count <= Thresh
    BY <1>8, <2>1 DEF Compare, TypeOK, SendType
  <2>2. CASE ~(free_count <= Thresh)
    BY <1>8, <2>2, ReturnTypes DEF Compare, TypeOK, SendType
  <2> QED
    BY <2>1, <2>2
<1>9. CASE Stop
  BY <1>9, ReturnTypes DEF Stop, TypeOK
<1>10. CASE Sends
  BY <1>10, SizeFacts, SomebodyIsADevice
     DEF Sends, ring, poll, send, stack, devices, TypeOK, SendType
<1>11. CASE Irq
  BY <1>11, SizeFacts, SomebodyIsADevice
     DEF Irq, ring, send, stack, devices, TypeOK, SendType
<1>12. CASE Clear
  BY <1>12, SizeFacts, SomebodyIsADevice
     DEF Clear, ring, send, stack, devices, TypeOK, SendType
<1>13. CASE Look
  BY <1>13, SizeFacts, SomebodyIsADevice
     DEF Look, ring, regs, send, stack, devices, TypeOK, SendType
<1>14. CASE Reap
  BY <1>14, SizeFacts, SomebodyIsADevice
     DEF Reap, MayReap, regs, send, stack, devices, TypeOK, SendType
<1>15. CASE Complete
  BY <1>15, SizeFacts, SomebodyIsADevice
     DEF Complete, MayReap, ring, regs, send, devices, TypeOK, SendType
<1>16. CASE CompareToWake
  BY <1>16, SizeFacts, SomebodyIsADevice
     DEF CompareToWake, ring, regs, send, stack, devices, TypeOK, SendType
<1>17. CASE Wake
  BY <1>17, SizeFacts, SomebodyIsADevice
     DEF Wake, ring, regs, send, devices, TypeOK, SendType
<1>18. CASE End
  BY <1>18, SizeFacts, SomebodyIsADevice
     DEF End, ring, send, stack, devices, TypeOK, SendType
<1>19. CASE FreeRing
  BY <1>19, SizeFacts, SomebodyIsADevice
     DEF FreeRing, regs, send, TypeOK, SendType
<1>20. CASE ResetBegins
  BY <1>20, SizeFacts, SomebodyIsADevice
     DEF ResetBegins, ring, regs, poll, send, stack, TypeOK, SendType
<1>21. CASE ResetStops
  BY <1>21, SizeFacts, SomebodyIsADevice
     DEF ResetStops, StopDevice, ring, poll, send, TypeOK, SendType
<1>22. CASE ResetOpens
  BY <1>22, SizeFacts, SomebodyIsADevice
     DEF ResetOpens, OpenDevice, send, TypeOK, SendType
<1>23. CASE ResetEnds
  BY <1>23, SizeFacts, SomebodyIsADevice
     DEF ResetEnds, ring, regs, poll, send, stack, TypeOK, SendType
<1>24. CASE UNCHANGED vars
  BY <1>24 DEF vars, ring, regs, poll, send, stack, devices, TypeOK, SendType
<1> QED
  BY <1>1, <1>2, <1>3, <1>4, <1>5, <1>6, <1>7, <1>8, <1>9, <1>10, <1>11, <1>12,
     <1>13, <1>14, <1>15, <1>16, <1>17, <1>18, <1>19, <1>20, <1>21, <1>22,
     <1>23, <1>24
  DEF Next, XmitRuns, Poll, Rtnl

(* the queues,                                                                  *)
LEMMA StackTypeStep ==
  ASSUME TypeOK, [Next]_vars
  PROVE  StackType'
<1>1. ASSUME NEW d \in Devs, StartXmit(d) PROVE StackType'
  BY <1>1
     DEF StartXmit, Callable, ring, regs, poll, stack, devices, TypeOK,
         StackType, SendType, PollType
<1>2. ASSUME NEW d \in Devs, DropInReset(d) PROVE StackType'
  BY <1>2
     DEF DropInReset, Callable, ring, regs, poll, send, devices, TypeOK,
         StackType, SendType, PollType
<1>3. ASSUME NEW d \in Devs, IfDown(d) PROVE StackType'
  BY <1>3
     DEF IfDown, StopDevice, ring, poll, send, TypeOK, StackType, SendType,
         PollType
<1>4. ASSUME NEW d \in Devs, IfUp(d) PROVE StackType'
  BY <1>4 DEF IfUp, OpenDevice, send, TypeOK, StackType, SendType, PollType
<1>5. CASE Busy
  BY <1>5
     DEF Busy, Return, StopQueue, ring, regs, poll, devices, TypeOK, StackType,
         SendType, PollType
<1>6. CASE Map
  BY <1>6 DEF Map, poll, devices, TypeOK, StackType, SendType, PollType
<1>7. CASE MapFails
  BY <1>7
     DEF MapFails, Return, ring, regs, poll, devices, TypeOK, StackType,
         SendType, PollType
<1>8. CASE Compare
  BY <1>8
     DEF Compare, Return, ring, regs, poll, devices, TypeOK, StackType,
         SendType, PollType
<1>9. CASE Stop
  BY <1>9
     DEF Stop, Return, StopQueue, ring, regs, poll, devices, TypeOK, StackType,
         SendType, PollType
<1>10. CASE Sends
  BY <1>10
     DEF Sends, ring, poll, send, stack, devices, TypeOK, StackType, SendType,
         PollType
<1>11. CASE Irq
  BY <1>11
     DEF Irq, ring, send, stack, devices, TypeOK, StackType, SendType, PollType
<1>12. CASE Clear
  BY <1>12
     DEF Clear, ring, send, stack, devices, TypeOK, StackType, SendType,
         PollType
<1>13. CASE Look
  BY <1>13
     DEF Look, ring, regs, send, stack, devices, TypeOK, StackType, SendType,
         PollType
<1>14. CASE Reap
  BY <1>14
     DEF Reap, MayReap, regs, send, stack, devices, TypeOK, StackType, SendType,
         PollType
<1>15. CASE Complete
  BY <1>15
     DEF Complete, MayReap, ring, regs, send, devices, TypeOK, StackType,
         SendType, PollType
<1>16. CASE CompareToWake
  BY <1>16
     DEF CompareToWake, ring, regs, send, stack, devices, TypeOK, StackType,
         SendType, PollType
<1>17. CASE Wake
  BY <1>17
     DEF Wake, ring, regs, send, devices, TypeOK, StackType, SendType, PollType
<1>18. CASE End
  BY <1>18
     DEF End, ring, send, stack, devices, TypeOK, StackType, SendType, PollType
<1>19. CASE FreeRing
  BY <1>19 DEF FreeRing, regs, send, TypeOK, StackType, SendType, PollType
<1>20. CASE ResetBegins
  BY <1>20
     DEF ResetBegins, ring, regs, poll, send, stack, TypeOK, StackType,
         SendType, PollType
<1>21. CASE ResetStops
  BY <1>21
     DEF ResetStops, StopDevice, ring, poll, send, TypeOK, StackType, SendType,
         PollType
<1>22. CASE ResetOpens
  BY <1>22
     DEF ResetOpens, OpenDevice, send, TypeOK, StackType, SendType, PollType
<1>23. CASE ResetEnds
  BY <1>23
     DEF ResetEnds, ring, regs, poll, send, stack, TypeOK, StackType, SendType,
         PollType
<1>24. CASE UNCHANGED vars
  BY <1>24
     DEF vars, ring, regs, poll, send, stack, devices, TypeOK, StackType,
         SendType, PollType
<1> QED
  BY <1>1, <1>2, <1>3, <1>4, <1>5, <1>6, <1>7, <1>8, <1>9, <1>10, <1>11, <1>12,
     <1>13, <1>14, <1>15, <1>16, <1>17, <1>18, <1>19, <1>20, <1>21, <1>22,
     <1>23, <1>24
  DEF Next, XmitRuns, Poll, Rtnl

(* and the devices.                                                             *)
LEMMA DevicesTypeStep ==
  ASSUME TypeOK, [Next]_vars
  PROVE  DevicesType'
<1>1. ASSUME NEW d \in Devs, StartXmit(d) PROVE DevicesType'
  BY <1>1
     DEF StartXmit, Callable, ring, regs, poll, stack, devices, TypeOK,
         DevicesType
<1>2. ASSUME NEW d \in Devs, DropInReset(d) PROVE DevicesType'
  BY <1>2
     DEF DropInReset, Callable, ring, regs, poll, send, devices, TypeOK,
         DevicesType
<1>3. ASSUME NEW d \in Devs, IfDown(d) PROVE DevicesType'
  BY <1>3 DEF IfDown, StopDevice, ring, poll, send, TypeOK, DevicesType
<1>4. ASSUME NEW d \in Devs, IfUp(d) PROVE DevicesType'
  BY <1>4 DEF IfUp, OpenDevice, send, TypeOK, DevicesType
<1>5. CASE Busy
  BY <1>5
     DEF Busy, Return, StopQueue, ring, regs, poll, devices, TypeOK, DevicesType
<1>6. CASE Map
  BY <1>6 DEF Map, poll, devices, TypeOK, DevicesType
<1>7. CASE MapFails
  BY <1>7 DEF MapFails, Return, ring, regs, poll, devices, TypeOK, DevicesType
<1>8. CASE Compare
  BY <1>8 DEF Compare, Return, ring, regs, poll, devices, TypeOK, DevicesType
<1>9. CASE Stop
  BY <1>9
     DEF Stop, Return, StopQueue, ring, regs, poll, devices, TypeOK, DevicesType
<1>10. CASE Sends
  BY <1>10 DEF Sends, ring, poll, send, stack, devices, TypeOK, DevicesType
<1>11. CASE Irq
  BY <1>11 DEF Irq, ring, send, stack, devices, TypeOK, DevicesType
<1>12. CASE Clear
  BY <1>12 DEF Clear, ring, send, stack, devices, TypeOK, DevicesType
<1>13. CASE Look
  BY <1>13 DEF Look, ring, regs, send, stack, devices, TypeOK, DevicesType
<1>14. CASE Reap
  BY <1>14 DEF Reap, MayReap, regs, send, stack, devices, TypeOK, DevicesType
<1>15. CASE Complete
  BY <1>15 DEF Complete, MayReap, ring, regs, send, devices, TypeOK, DevicesType
<1>16. CASE CompareToWake
  BY <1>16
     DEF CompareToWake, ring, regs, send, stack, devices, TypeOK, DevicesType
<1>17. CASE Wake
  BY <1>17 DEF Wake, ring, regs, send, devices, TypeOK, DevicesType
<1>18. CASE End
  BY <1>18 DEF End, ring, send, stack, devices, TypeOK, DevicesType
<1>19. CASE FreeRing
  BY <1>19 DEF FreeRing, regs, send, TypeOK, DevicesType
<1>20. CASE ResetBegins
  BY <1>20 DEF ResetBegins, ring, regs, poll, send, stack, TypeOK, DevicesType
<1>21. CASE ResetStops
  BY <1>21 DEF ResetStops, StopDevice, ring, poll, send, TypeOK, DevicesType
<1>22. CASE ResetOpens
  BY <1>22 DEF ResetOpens, OpenDevice, send, TypeOK, DevicesType
<1>23. CASE ResetEnds
  BY <1>23 DEF ResetEnds, ring, regs, poll, send, stack, TypeOK, DevicesType
<1>24. CASE UNCHANGED vars
  BY <1>24 DEF vars, ring, regs, poll, send, stack, devices, TypeOK, DevicesType
<1> QED
  BY <1>1, <1>2, <1>3, <1>4, <1>5, <1>6, <1>7, <1>8, <1>9, <1>10, <1>11, <1>12,
     <1>13, <1>14, <1>15, <1>16, <1>17, <1>18, <1>19, <1>20, <1>21, <1>22,
     <1>23, <1>24
  DEF Next, XmitRuns, Poll, Rtnl

(* dma_refcnt stays the number of devices that are up, outside a reset.         *)
LEMMA DevicesStep ==
  ASSUME TypeOK, DevicesCounted, [Next]_vars
  PROVE  DevicesCounted'
<1>1. ASSUME NEW d \in Devs, StartXmit(d) PROVE DevicesCounted'
  BY <1>1
     DEF StartXmit, Callable, ring, regs, poll, stack, devices, DevicesCounted,
         TypeOK, DevicesType, Live
<1>2. ASSUME NEW d \in Devs, DropInReset(d) PROVE DevicesCounted'
  BY <1>2
     DEF DropInReset, Callable, ring, regs, poll, send, devices, DevicesCounted,
         TypeOK, DevicesType, Live
<1>3. ASSUME NEW d \in Devs, IfDown(d) PROVE DevicesCounted'
  BY <1>3
     DEF IfDown, StopDevice, ring, poll, send, DevicesCounted, TypeOK,
         DevicesType, Live
<1>4. ASSUME NEW d \in Devs, IfUp(d) PROVE DevicesCounted'
  BY <1>4 DEF IfUp, OpenDevice, send, DevicesCounted, TypeOK, DevicesType, Live
<1>5. CASE Busy
  BY <1>5
     DEF Busy, Return, StopQueue, ring, regs, poll, devices, DevicesCounted,
         TypeOK, DevicesType, Live
<1>6. CASE Map
  BY <1>6 DEF Map, poll, devices, DevicesCounted, TypeOK, DevicesType, Live
<1>7. CASE MapFails
  BY <1>7
     DEF MapFails, Return, ring, regs, poll, devices, DevicesCounted, TypeOK,
         DevicesType, Live
<1>8. CASE Compare
  BY <1>8
     DEF Compare, Return, ring, regs, poll, devices, DevicesCounted, TypeOK,
         DevicesType, Live
<1>9. CASE Stop
  BY <1>9
     DEF Stop, Return, StopQueue, ring, regs, poll, devices, DevicesCounted,
         TypeOK, DevicesType, Live
<1>10. CASE Sends
  BY <1>10
     DEF Sends, ring, poll, send, stack, devices, DevicesCounted, TypeOK,
         DevicesType, Live
<1>11. CASE Irq
  BY <1>11
     DEF Irq, ring, send, stack, devices, DevicesCounted, TypeOK, DevicesType,
         Live
<1>12. CASE Clear
  BY <1>12
     DEF Clear, ring, send, stack, devices, DevicesCounted, TypeOK, DevicesType,
         Live
<1>13. CASE Look
  BY <1>13
     DEF Look, ring, regs, send, stack, devices, DevicesCounted, TypeOK,
         DevicesType, Live
<1>14. CASE Reap
  BY <1>14
     DEF Reap, MayReap, regs, send, stack, devices, DevicesCounted, TypeOK,
         DevicesType, Live
<1>15. CASE Complete
  BY <1>15
     DEF Complete, MayReap, ring, regs, send, devices, DevicesCounted, TypeOK,
         DevicesType, Live
<1>16. CASE CompareToWake
  BY <1>16
     DEF CompareToWake, ring, regs, send, stack, devices, DevicesCounted,
         TypeOK, DevicesType, Live
<1>17. CASE Wake
  BY <1>17
     DEF Wake, ring, regs, send, devices, DevicesCounted, TypeOK, DevicesType,
         Live
<1>18. CASE End
  BY <1>18
     DEF End, ring, send, stack, devices, DevicesCounted, TypeOK, DevicesType,
         Live
<1>19. CASE FreeRing
  BY <1>19 DEF FreeRing, regs, send, DevicesCounted, TypeOK, DevicesType, Live
<1>20. CASE ResetBegins
  BY <1>20
     DEF ResetBegins, ring, regs, poll, send, stack, DevicesCounted, TypeOK,
         DevicesType, Live
<1>21. CASE ResetStops
  BY <1>21
     DEF ResetStops, StopDevice, ring, poll, send, DevicesCounted, TypeOK,
         DevicesType, Live
<1>22. CASE ResetOpens
  BY <1>22
     DEF ResetOpens, OpenDevice, send, DevicesCounted, TypeOK, DevicesType, Live
<1>23. CASE ResetEnds
  BY <1>23
     DEF ResetEnds, ring, regs, poll, send, stack, DevicesCounted, TypeOK,
         DevicesType, Live
<1>24. CASE UNCHANGED vars
  BY <1>24
     DEF vars, ring, regs, poll, send, stack, devices, DevicesCounted, TypeOK,
         DevicesType, Live
<1> QED
  BY <1>1, <1>2, <1>3, <1>4, <1>5, <1>6, <1>7, <1>8, <1>9, <1>10, <1>11, <1>12,
     <1>13, <1>14, <1>15, <1>16, <1>17, <1>18, <1>19, <1>20, <1>21, <1>22,
     <1>23, <1>24
  DEF Next, XmitRuns, Poll, Rtnl

(* The ring exists as long as it is used.                                       *)
LEMMA InUseStep ==
  ASSUME TypeOK, PointersInOrder, BuffersInRing, RingInUse, DevicesCounted, [Next]_vars
  PROVE  RingInUse'
<1>1. ASSUME NEW d \in Devs, StartXmit(d) PROVE RingInUse'
  BY <1>1, SomebodyIsADevice
     DEF StartXmit, Callable, ring, regs, poll, stack, devices, RingInUse,
         DevicesCounted, TypeOK, RingType, DevicesType, SendType, PollType, Live
<1>2. ASSUME NEW d \in Devs, DropInReset(d) PROVE RingInUse'
  BY <1>2, SomebodyIsADevice
     DEF DropInReset, Callable, ring, regs, poll, send, devices, RingInUse,
         DevicesCounted, TypeOK, RingType, DevicesType, SendType, PollType, Live
<1>3. ASSUME NEW d \in Devs, IfDown(d) PROVE RingInUse'
  BY <1>3, SomebodyIsADevice
     DEF IfDown, StopDevice, ring, poll, send, RingInUse, DevicesCounted,
         TypeOK, RingType, DevicesType, SendType, PollType, Live
<1>4. ASSUME NEW d \in Devs, IfUp(d) PROVE RingInUse'
  <2>1. OpenDevice(d) /\ UNCHANGED <<xmit, xdev, need>>
    BY <1>4 DEF IfUp, OpenDevice, send
  <2> QED
    BY <2>1, OpenedRing
<1>5. CASE Busy
  BY <1>5, SomebodyIsADevice
     DEF Busy, Return, StopQueue, ring, regs, poll, devices, RingInUse,
         DevicesCounted, TypeOK, RingType, DevicesType, SendType, PollType, Live
<1>6. CASE Map
  BY <1>6, SomebodyIsADevice
     DEF Map, poll, devices, RingInUse, DevicesCounted, TypeOK, RingType,
         DevicesType, SendType, PollType, Live
<1>7. CASE MapFails
  BY <1>7, SomebodyIsADevice
     DEF MapFails, Return, ring, regs, poll, devices, RingInUse, DevicesCounted,
         TypeOK, RingType, DevicesType, SendType, PollType, Live
<1>8. CASE Compare
  BY <1>8, SomebodyIsADevice
     DEF Compare, Return, ring, regs, poll, devices, RingInUse, DevicesCounted,
         TypeOK, RingType, DevicesType, SendType, PollType, Live
<1>9. CASE Stop
  BY <1>9, SomebodyIsADevice
     DEF Stop, Return, StopQueue, ring, regs, poll, devices, RingInUse,
         DevicesCounted, TypeOK, RingType, DevicesType, SendType, PollType, Live
<1>10. CASE Sends
  BY <1>10, SomebodyIsADevice
     DEF Sends, ring, poll, send, stack, devices, RingInUse, DevicesCounted,
         TypeOK, RingType, DevicesType, SendType, PollType, Live
<1>11. CASE Irq
  BY <1>11, SomebodyIsADevice
     DEF Irq, ring, send, stack, devices, RingInUse, DevicesCounted, TypeOK,
         RingType, DevicesType, SendType, PollType, Live
<1>12. CASE Clear
  BY <1>12, SomebodyIsADevice
     DEF Clear, ring, send, stack, devices, RingInUse, DevicesCounted, TypeOK,
         RingType, DevicesType, SendType, PollType, Live
<1>13. CASE Look
  BY <1>13, SomebodyIsADevice
     DEF Look, ring, regs, send, stack, devices, RingInUse, DevicesCounted,
         TypeOK, RingType, DevicesType, SendType, PollType, Live
<1>14. CASE Reap
  BY <1>14, SomebodyIsADevice
     DEF Reap, MayReap, regs, send, stack, devices, RingInUse, DevicesCounted,
         TypeOK, RingType, DevicesType, SendType, PollType, Live
<1>15. CASE Complete
  BY <1>15, SomebodyIsADevice
     DEF Complete, MayReap, ring, regs, send, devices, RingInUse,
         DevicesCounted, TypeOK, RingType, DevicesType, SendType, PollType, Live
<1>16. CASE CompareToWake
  BY <1>16, SomebodyIsADevice
     DEF CompareToWake, ring, regs, send, stack, devices, RingInUse,
         DevicesCounted, TypeOK, RingType, DevicesType, SendType, PollType, Live
<1>17. CASE Wake
  BY <1>17, SomebodyIsADevice
     DEF Wake, ring, regs, send, devices, RingInUse, DevicesCounted, TypeOK,
         RingType, DevicesType, SendType, PollType, Live
<1>18. CASE End
  BY <1>18, SomebodyIsADevice
     DEF End, ring, send, stack, devices, RingInUse, DevicesCounted, TypeOK,
         RingType, DevicesType, SendType, PollType, Live
<1>19. CASE FreeRing
  BY <1>19, SomebodyIsADevice
     DEF FreeRing, regs, send, RingInUse, DevicesCounted, TypeOK, RingType,
         DevicesType, SendType, PollType, Live
<1>20. CASE ResetBegins
  BY <1>20, SomebodyIsADevice
     DEF ResetBegins, ring, regs, poll, send, stack, RingInUse, DevicesCounted,
         TypeOK, RingType, DevicesType, SendType, PollType, Live
<1>21. CASE ResetStops
  BY <1>21, SomebodyIsADevice
     DEF ResetStops, StopDevice, ring, poll, send, RingInUse, DevicesCounted,
         TypeOK, RingType, DevicesType, SendType, PollType, Live
<1>22. CASE ResetOpens
  <2>1. PICK d \in Devs : OpenDevice(d)
    BY <1>22 DEF ResetOpens
  <2>2. UNCHANGED <<xmit, xdev, need>>
    BY <2>1 DEF OpenDevice, send
  <2> QED
    BY <2>1, <2>2, OpenedRing
<1>23. CASE ResetEnds
  BY <1>23, SomebodyIsADevice
     DEF ResetEnds, ring, regs, poll, send, stack, RingInUse, DevicesCounted,
         TypeOK, RingType, DevicesType, SendType, PollType, Live
<1>24. CASE UNCHANGED vars
  BY <1>24
     DEF vars, ring, regs, poll, send, stack, devices, RingInUse,
         DevicesCounted, TypeOK, RingType, DevicesType, SendType, PollType, Live
<1> QED
  BY <1>1, <1>2, <1>3, <1>4, <1>5, <1>6, <1>7, <1>8, <1>9, <1>10, <1>11, <1>12,
     <1>13, <1>14, <1>15, <1>16, <1>17, <1>18, <1>19, <1>20, <1>21, <1>22,
     <1>23, <1>24
  DEF Next, XmitRuns, Poll, Rtnl

(* The pointers stay in order: mtk_tx_map moves next_free and ctx_ptr, the      *)
(* hardware drx_ptr, and the poll last_free.                                    *)
LEMMA PointersStep ==
  ASSUME TypeOK, PointersInOrder, BuffersInRing, RingInUse, DevicesCounted, [Next]_vars
  PROVE  PointersInOrder'
<1>1. ASSUME NEW d \in Devs, StartXmit(d) PROVE PointersInOrder'
  BY <1>1
     DEF StartXmit, Callable, ring, regs, poll, stack, devices, PointersInOrder,
         RingInUse, Ahead, Live
<1>2. ASSUME NEW d \in Devs, DropInReset(d) PROVE PointersInOrder'
  BY <1>2
     DEF DropInReset, Callable, ring, regs, poll, send, devices,
         PointersInOrder, RingInUse, Ahead, Live
<1>3. ASSUME NEW d \in Devs, IfDown(d) PROVE PointersInOrder'
  BY <1>3
     DEF IfDown, StopDevice, ring, poll, send, PointersInOrder, RingInUse,
         Ahead, Live
<1>4. ASSUME NEW d \in Devs, IfUp(d) PROVE PointersInOrder'
  <2>1. OpenDevice(d) /\ UNCHANGED <<xmit, xdev, need>>
    BY <1>4 DEF IfUp, OpenDevice, send
  <2> QED
    BY <2>1, OpenedRing
<1>5. CASE Busy
  BY <1>5
     DEF Busy, Return, StopQueue, ring, regs, poll, devices, PointersInOrder,
         RingInUse, Ahead, Live
<1>6. CASE Map
  <2>1. /\ Ahead(next_free)' = Ahead(next_free) + need /\ need \in Nat /\ Live
        /\ Ahead(next_free) \in Nat /\ Ahead(next_free)' + free_count' = Size - 1
    BY <1>6, MappedRing
  <2>2. UNCHANGED <<last_free, drx, napi, dma>> /\ ctx' \in {ctx, next_free'}
    BY <1>6 DEF Map, poll
  <2>3. /\ Ahead(drx)' = Ahead(drx) /\ Ahead(dma)' = Ahead(dma)
        /\ (ctx' = ctx => Ahead(ctx)' = Ahead(ctx))
    BY <2>2 DEF Ahead
  <2>4. Ahead(drx) \in Nat /\ Ahead(ctx) \in Nat
    BY DistRange DEF TypeOK, RingType, RegsType, Ahead
  <2>5. Ahead(drx)' < Ahead(ctx)' /\ Ahead(ctx)' <= Ahead(next_free)'
    BY <2>1, <2>2, <2>3, <2>4 DEF PointersInOrder
  <2> QED
    BY <2>1, <2>2, <2>3, <2>5 DEF PointersInOrder
<1>7. CASE MapFails
  BY <1>7
     DEF MapFails, Return, ring, regs, poll, devices, PointersInOrder,
         RingInUse, Ahead, Live
<1>8. CASE Compare
  BY <1>8
     DEF Compare, Return, ring, regs, poll, devices, PointersInOrder, RingInUse,
         Ahead, Live
<1>9. CASE Stop
  BY <1>9
     DEF Stop, Return, StopQueue, ring, regs, poll, devices, PointersInOrder,
         RingInUse, Ahead, Live
<1>10. CASE Sends
  <2>1. PICK n \in 1 .. Size : n < Dist(drx, ctx) /\ drx' = After(drx, n)
    BY <1>10 DEF Sends
  <2>2. drx \in Slots /\ ctx \in Slots /\ n \in Nat /\ last_free \in Slots /\ Live
    BY <1>10, <2>1, SizeFacts DEF Sends, TypeOK, RegsType, RingType
  <2>3. Dist(drx, ctx) = Ahead(ctx) - Ahead(drx)
    BY <2>2, DistRange, DistSeenFrom DEF PointersInOrder, Ahead
  <2>4. Ahead(drx) \in Nat /\ Ahead(ctx) \in Nat /\ Ahead(ctx) < Size
    BY <2>2, DistRange DEF Ahead
  <2>5. Ahead(drx) + n < Ahead(ctx) /\ Ahead(drx) + n < Size
    BY <2>1, <2>2, <2>3, <2>4, SizeFacts
  <2>6. UNCHANGED <<last_free, next_free, free_count, ctx, napi, dma, open, closing>>
    BY <1>10 DEF Sends, ring, poll, devices
  <2>7. Ahead(drx)' = Ahead(drx) + n
    BY <2>1, <2>2, <2>5, <2>6, AfterFurther DEF Ahead
  <2>8. napi = "reap" => Ahead(dma) <= Ahead(drx) + n
    <3>1. Ahead(dma) \in Nat
      BY <2>2, DistRange DEF TypeOK, PollType, Ahead
    <3> QED
      BY <2>2, <2>4, <3>1 DEF PointersInOrder
  <2>9. /\ Ahead(ctx)' = Ahead(ctx) /\ Ahead(next_free)' = Ahead(next_free)
        /\ Ahead(dma)' = Ahead(dma)
    BY <2>6 DEF Ahead
  <2> QED
    BY <2>2, <2>5, <2>6, <2>7, <2>8, <2>9 DEF PointersInOrder
<1>11. CASE Irq
  BY <1>11
     DEF Irq, ring, send, stack, devices, PointersInOrder, RingInUse, Ahead,
         Live
<1>12. CASE Clear
  BY <1>12
     DEF Clear, ring, send, stack, devices, PointersInOrder, RingInUse, Ahead,
         Live
<1>13. CASE Look
  <2>1. Ahead(drx) \in Nat
    BY DistRange DEF TypeOK, RingType, RegsType, Ahead
  <2> QED
    BY <1>13, <2>1 DEF Look, ring, regs, devices, PointersInOrder, Ahead, Live
<1>14. CASE Reap
  <2>1. /\ Live /\ 1 <= Ahead(dma) /\ Ahead(dma) <= Ahead(drx)
        /\ \A i \in Slots : i # last_free => Ahead(i)' = Dist(last_free, i) - 1
    BY <1>14, ReapedRing
  <2>2. UNCHANGED <<next_free, ctx, drx, dma>> /\ free_count' = free_count + 1
    BY <1>14 DEF Reap, regs
  <2>3. /\ next_free \in Slots /\ last_free \in Slots /\ ctx \in Slots
        /\ drx \in Slots /\ dma \in Slots /\ free_count \in Nat
    BY DEF TypeOK, RingType, RegsType, PollType
  <2>4. \A i \in Slots : Ahead(i) \in Nat /\ (Ahead(i) # 0 => i # last_free)
    BY <2>3, DistRange DEF Ahead
  <2>5. /\ Ahead(drx) < Ahead(ctx) /\ Ahead(ctx) <= Ahead(next_free)
        /\ Ahead(next_free) + free_count = Size - 1
    BY <2>1 DEF PointersInOrder
  <2>6. drx # last_free /\ ctx # last_free /\ next_free # last_free /\ dma # last_free
    BY <2>1, <2>3, <2>4, <2>5
  <2>7. \A i \in Slots : i # last_free => Ahead(i)' = Ahead(i) - 1
    BY <2>1 DEF Ahead
  <2>8. /\ Ahead(drx)' = Ahead(drx) - 1 /\ Ahead(ctx)' = Ahead(ctx) - 1
        /\ Ahead(next_free)' = Ahead(next_free) - 1 /\ Ahead(dma)' = Ahead(dma) - 1
    BY <2>1, <2>2, <2>3, <2>6 DEF Ahead
  <2>9. /\ Ahead(drx)' < Ahead(ctx)' /\ Ahead(ctx)' <= Ahead(next_free)'
        /\ Ahead(next_free)' + free_count' = Size - 1 /\ Ahead(dma)' <= Ahead(drx)'
    BY <2>1, <2>2, <2>3, <2>4, <2>5, <2>8, SizeFacts
  <2> QED
    BY <2>9 DEF PointersInOrder
<1>15. CASE Complete
  BY <1>15
     DEF Complete, MayReap, ring, regs, send, devices, PointersInOrder,
         RingInUse, Ahead, Live
<1>16. CASE CompareToWake
  BY <1>16
     DEF CompareToWake, ring, regs, send, stack, devices, PointersInOrder,
         RingInUse, Ahead, Live
<1>17. CASE Wake
  BY <1>17
     DEF Wake, ring, regs, send, devices, PointersInOrder, RingInUse, Ahead,
         Live
<1>18. CASE End
  BY <1>18
     DEF End, ring, send, stack, devices, PointersInOrder, RingInUse, Ahead,
         Live
<1>19. CASE FreeRing
  BY <1>19 DEF FreeRing, regs, send, PointersInOrder, RingInUse, Ahead, Live
<1>20. CASE ResetBegins
  BY <1>20
     DEF ResetBegins, ring, regs, poll, send, stack, PointersInOrder, RingInUse,
         Ahead, Live
<1>21. CASE ResetStops
  BY <1>21
     DEF ResetStops, StopDevice, ring, poll, send, PointersInOrder, RingInUse,
         Ahead, Live
<1>22. CASE ResetOpens
  <2>1. PICK d \in Devs : OpenDevice(d)
    BY <1>22 DEF ResetOpens
  <2>2. UNCHANGED <<xmit, xdev, need>>
    BY <2>1 DEF OpenDevice, send
  <2> QED
    BY <2>1, <2>2, OpenedRing
<1>23. CASE ResetEnds
  BY <1>23
     DEF ResetEnds, ring, regs, poll, send, stack, PointersInOrder, RingInUse,
         Ahead, Live
<1>24. CASE UNCHANGED vars
  BY <1>24
     DEF vars, ring, regs, poll, send, stack, devices, PointersInOrder,
         RingInUse, Ahead, Live
<1> QED
  BY <1>1, <1>2, <1>3, <1>4, <1>5, <1>6, <1>7, <1>8, <1>9, <1>10, <1>11, <1>12,
     <1>13, <1>14, <1>15, <1>16, <1>17, <1>18, <1>19, <1>20, <1>21, <1>22,
     <1>23, <1>24
  DEF Next, XmitRuns, Poll, Rtnl

(* The buffers stay the descriptors between last_free and next_free.            *)
LEMMA BuffersStep ==
  ASSUME TypeOK, PointersInOrder, BuffersInRing, RingInUse, DevicesCounted, [Next]_vars
  PROVE  BuffersInRing'
<1>1. ASSUME NEW d \in Devs, StartXmit(d) PROVE BuffersInRing'
  BY <1>1
     DEF StartXmit, Callable, ring, regs, poll, stack, devices, BuffersInRing,
         RingInUse, Ahead, Live
<1>2. ASSUME NEW d \in Devs, DropInReset(d) PROVE BuffersInRing'
  BY <1>2
     DEF DropInReset, Callable, ring, regs, poll, send, devices, BuffersInRing,
         RingInUse, Ahead, Live
<1>3. ASSUME NEW d \in Devs, IfDown(d) PROVE BuffersInRing'
  BY <1>3
     DEF IfDown, StopDevice, ring, poll, send, BuffersInRing, RingInUse, Ahead,
         Live
<1>4. ASSUME NEW d \in Devs, IfUp(d) PROVE BuffersInRing'
  <2>1. OpenDevice(d) /\ UNCHANGED <<xmit, xdev, need>>
    BY <1>4 DEF IfUp, OpenDevice, send
  <2> QED
    BY <2>1, OpenedRing
<1>5. CASE Busy
  BY <1>5
     DEF Busy, Return, StopQueue, ring, regs, poll, devices, BuffersInRing,
         RingInUse, Ahead, Live
<1>6. CASE Map
  <2> USE <1>6
  <2>1. /\ Ahead(next_free)' = Ahead(next_free) + need /\ need \in Nat /\ need > 0
        /\ Live /\ Live'
        /\ Ahead(next_free) \in Nat
    BY MappedRing
  <2>2. last_free' = last_free /\ next_free \in Slots /\ last_free \in Slots
    BY DEF Map, TypeOK, RingType
  <2>3. ASSUME NEW i \in Slots
         PROVE  buf'[i] # "none" <=> 0 < Ahead(i) /\ Ahead(i) < Ahead(next_free)'
    <3>1. /\ Ahead(i) \in Nat /\ Ahead(i) < Size /\ Ahead(next_free) < Size
          /\ (Ahead(i) = Ahead(next_free) => i = next_free)
      <4>1. Ahead(i) = Ahead(next_free) => Dist(i, next_free) = 0
        <5>1. Dist(last_free, i) \in Nat /\ Dist(last_free, next_free) \in Nat
          BY <2>2, DistRange
        <5>2. Dist(last_free, i) <= Dist(last_free, next_free) =>
                Dist(i, next_free) = Dist(last_free, next_free) - Dist(last_free, i)
          BY <2>2, DistSeenFrom
        <5> QED
          BY <5>1, <5>2 DEF Ahead
      <4> QED
        BY <2>2, <4>1, DistRange DEF Ahead
    <3>2. Ahead(next_free) <= Ahead(i) =>
            Dist(next_free, i) = Ahead(i) - Ahead(next_free)
      BY <2>2, DistSeenFrom DEF Ahead
    <3>3. Ahead(i) < Ahead(next_free) =>
            Dist(next_free, i) = Ahead(i) - Ahead(next_free) + Size
      BY <2>2, DistSeenFrom DEF Ahead
    <3>4. Ahead(next_free) + need < Size
      BY <2>1, MappedRing, SizeFacts DEF TypeOK, RingType
    <3>5. i = next_free \/ Dist(next_free, i) < need <=>
            Ahead(next_free) <= Ahead(i) /\ Ahead(i) < Ahead(next_free) + need
      <4>1. Dist(next_free, i) \in Nat /\ (i = next_free => Dist(next_free, i) = 0)
        BY <2>2, DistRange
      <4> QED
        BY <2>1, <3>1, <3>2, <3>3, <3>4, <4>1, SizeFacts
    <3>6. buf'[i] = IF i = next_free THEN xdev
                   ELSE IF Dist(next_free, i) < need THEN "frag" ELSE buf[i]
      BY DEF Map
    <3>7. xdev # "none"
      BY SomebodyIsADevice DEF TypeOK, SendType
    <3>8. buf[i] # "none" <=> 0 < Ahead(i) /\ Ahead(i) < Ahead(next_free)
      BY <2>1 DEF BuffersInRing
    <3>9. Ahead(next_free) > 0
      BY <2>1, DistRange DEF PointersInOrder, Ahead, TypeOK, RingType, RegsType
    <3>10. CASE i = next_free \/ Dist(next_free, i) < need
      BY <2>1, <3>1, <3>5, <3>6, <3>7, <3>9, <3>10
    <3>11. CASE ~(i = next_free \/ Dist(next_free, i) < need)
      BY <2>1, <3>1, <3>5, <3>6, <3>8, <3>11
    <3> QED
      BY <3>10, <3>11
  <2>4. \A i \in Slots : Ahead(i)' = Ahead(i)
    BY <2>2 DEF Ahead
  <2> QED
    BY <2>1, <2>3, <2>4 DEF BuffersInRing
<1>7. CASE MapFails
  BY <1>7
     DEF MapFails, Return, ring, regs, poll, devices, BuffersInRing, RingInUse,
         Ahead, Live
<1>8. CASE Compare
  BY <1>8
     DEF Compare, Return, ring, regs, poll, devices, BuffersInRing, RingInUse,
         Ahead, Live
<1>9. CASE Stop
  BY <1>9
     DEF Stop, Return, StopQueue, ring, regs, poll, devices, BuffersInRing,
         RingInUse, Ahead, Live
<1>10. CASE Sends
  BY <1>10
     DEF Sends, ring, poll, send, stack, devices, BuffersInRing, RingInUse,
         Ahead, Live
<1>11. CASE Irq
  BY <1>11
     DEF Irq, ring, send, stack, devices, BuffersInRing, RingInUse, Ahead, Live
<1>12. CASE Clear
  BY <1>12
     DEF Clear, ring, send, stack, devices, BuffersInRing, RingInUse, Ahead,
         Live
<1>13. CASE Look
  BY <1>13
     DEF Look, ring, regs, send, stack, devices, BuffersInRing, RingInUse,
         Ahead, Live
<1>14. CASE Reap
  <2>1. /\ Live /\ 1 <= Ahead(dma) /\ Ahead(dma) <= Ahead(drx)
        /\ last_free' = After(last_free, 1)
        /\ \A i \in Slots : i # last_free => Ahead(i)' = Dist(last_free, i) - 1
        /\ last_free' \in Slots /\ Dist(last_free', last_free) = Size - 1
    BY <1>14, ReapedRing
  <2>2. /\ next_free' = next_free /\ Live'
        /\ buf \in [Slots -> Devs \cup {"none", "frag"}]
        /\ next_free \in Slots /\ last_free \in Slots /\ buf' = [buf EXCEPT ![last_free'] = "none"]
    BY <1>14, <2>1 DEF Reap, devices, Live, TypeOK, RingType
  <2>3. Ahead(next_free) \in Nat /\ Ahead(next_free) > 1 /\ Ahead(next_free) < Size
    <3>1. /\ Ahead(drx) \in Nat /\ Ahead(ctx) \in Nat /\ Ahead(next_free) \in Nat
          /\ Ahead(dma) \in Nat /\ Ahead(next_free) < Size
      BY DistRange DEF TypeOK, RingType, RegsType, PollType, Ahead
    <3> QED
      BY <2>1, <3>1 DEF PointersInOrder
  <2>4. Ahead(next_free)' = Ahead(next_free) - 1
    <3>1. next_free # last_free
      BY <2>2, <2>3, DistRange DEF Ahead
    <3> QED
      BY <2>1, <2>2, <3>1 DEF Ahead
  <2>5. ASSUME NEW i \in Slots
         PROVE  buf'[i] # "none" <=> 0 < Ahead(i)' /\ Ahead(i)' < Ahead(next_free)'
    <3>1. /\ Dist(last_free, i) \in Nat
          /\ (Dist(last_free, i) = 0 <=> last_free = i)
          /\ (i = last_free' <=> Dist(last_free, i) = 1)
      BY <2>1, <2>2, DistRange, NextIsNearer
    <3>2. buf[i] # "none" <=>
            0 < Dist(last_free, i) /\ Dist(last_free, i) < Ahead(next_free)
      BY <2>1 DEF BuffersInRing, Ahead
    <3>3. CASE i = last_free
      <4>1. Ahead(i)' = Size - 1 /\ buf[i] = "none" /\ buf'[i] = "none"
        <5>1. Ahead(i)' = Size - 1
          BY <2>1, <3>3 DEF Ahead
        <5>2. buf[i] = "none"
          BY <3>1, <3>2, <3>3
        <5>3. i # last_free'
          BY <3>1, <3>3
        <5> QED
          BY <2>2, <5>1, <5>2, <5>3
      <4> QED
        BY <2>3, <2>4, <4>1, SizeFacts
    <3>4. CASE i = last_free'
      <4>1. Ahead(i)' = 0 /\ buf'[i] = "none"
        BY <2>1, <2>2, <3>1, <3>4, SizeFacts DEF Ahead
      <4> QED
        BY <4>1
    <3>5. CASE i # last_free /\ i # last_free'
      <4>1. /\ Ahead(i)' = Dist(last_free, i) - 1 /\ buf'[i] = buf[i]
            /\ Dist(last_free, i) > 1
        BY <2>1, <2>2, <3>1, <3>5
      <4> QED
        BY <2>3, <2>4, <3>1, <3>2, <4>1
    <3> QED
      BY <3>3, <3>4, <3>5
  <2> QED
    BY <2>2, <2>5 DEF BuffersInRing
<1>15. CASE Complete
  BY <1>15
     DEF Complete, MayReap, ring, regs, send, devices, BuffersInRing, RingInUse,
         Ahead, Live
<1>16. CASE CompareToWake
  BY <1>16
     DEF CompareToWake, ring, regs, send, stack, devices, BuffersInRing,
         RingInUse, Ahead, Live
<1>17. CASE Wake
  BY <1>17
     DEF Wake, ring, regs, send, devices, BuffersInRing, RingInUse, Ahead, Live
<1>18. CASE End
  BY <1>18
     DEF End, ring, send, stack, devices, BuffersInRing, RingInUse, Ahead, Live
<1>19. CASE FreeRing
  BY <1>19 DEF FreeRing, BuffersInRing, Live, DevicesCounted
<1>20. CASE ResetBegins
  BY <1>20
     DEF ResetBegins, ring, regs, poll, send, stack, BuffersInRing, RingInUse,
         Ahead, Live
<1>21. CASE ResetStops
  BY <1>21
     DEF ResetStops, StopDevice, ring, poll, send, BuffersInRing, RingInUse,
         Ahead, Live
<1>22. CASE ResetOpens
  <2>1. PICK d \in Devs : OpenDevice(d)
    BY <1>22 DEF ResetOpens
  <2>2. UNCHANGED <<xmit, xdev, need>>
    BY <2>1 DEF OpenDevice, send
  <2> QED
    BY <2>1, <2>2, OpenedRing
<1>23. CASE ResetEnds
  BY <1>23
     DEF ResetEnds, ring, regs, poll, send, stack, BuffersInRing, RingInUse,
         Ahead, Live
<1>24. CASE UNCHANGED vars
  BY <1>24
     DEF vars, ring, regs, poll, send, stack, devices, BuffersInRing, RingInUse,
         Ahead, Live
<1> QED
  BY <1>1, <1>2, <1>3, <1>4, <1>5, <1>6, <1>7, <1>8, <1>9, <1>10, <1>11, <1>12,
     <1>13, <1>14, <1>15, <1>16, <1>17, <1>18, <1>19, <1>20, <1>21, <1>22,
     <1>23, <1>24
  DEF Next, XmitRuns, Poll, Rtnl

---------------------------------------------------------------------------------
(* The invariant                                                                *)

LEMMA Initial == Init => IInv
<1> SUFFICES ASSUME Init PROVE IInv
  OBVIOUS
<1>1. TypeOK
  <2>1. RingType
    BY SizeFacts, NewRing DEF Init, RingType
  <2>2. RegsType
    BY NewRing DEF Init, RegsType
  <2>3. PollType
    BY SizeFacts, NewRing DEF Init, PollType
  <2>4. SendType
    <3>1. 1 \in 1 .. MaxNeed /\ 0 \in 0 .. MaxMore
      BY SizeFacts
    <3>2. batch \in [Devs -> 0 .. MaxMore]
      BY <3>1 DEF Init
    <3> QED
      BY <3>1, <3>2, SomebodyIsADevice DEF Init, SendType
  <2>5. StackType
    BY DEF Init, StackType
  <2>6. DevicesType
    BY DEF Init, DevicesType
  <2> QED
    BY <2>1, <2>2, <2>3, <2>4, <2>5, <2>6 DEF TypeOK
<1>2. Live /\ ~closing
  BY DevsAssumption DEF Init, Live
<1>3. PointersInOrder
  BY NewRing, SizeFacts DEF Init, PointersInOrder, Ahead
<1>4. BuffersInRing
  <2>1. \A i \in Slots : ~(0 < Dist(Size - 1, i) /\ Dist(Size - 1, i) < 1)
    BY NewRing, DistRange
  <2> QED
    BY <2>1, NewRing DEF Init, BuffersInRing, Ahead
<1>5. RingInUse
  BY <1>2 DEF Init, RingInUse
<1>6. DevicesCounted
  BY DEF Init, DevicesCounted
<1> QED
  BY <1>1, <1>3, <1>4, <1>5, <1>6 DEF IInv

LEMMA Inductive == IInv /\ [Next]_vars => IInv'
<1> SUFFICES ASSUME IInv, [Next]_vars PROVE IInv'
  OBVIOUS
<1> USE DEF IInv
<1>1. TypeOK'
  BY RingTypeStep, RegsTypeStep, PollTypeStep, SendTypeStep, StackTypeStep,
     DevicesTypeStep
  DEF TypeOK
<1>2. PointersInOrder'
  BY PointersStep
<1>3. BuffersInRing'
  BY BuffersStep
<1>4. RingInUse'
  BY InUseStep
<1>5. DevicesCounted'
  BY DevicesStep
<1> QED
  BY <1>1, <1>2, <1>3, <1>4, <1>5

(* Whatever the devices, the poll, the hardware and a reset do, the pointers of *)
(* the ring are in order, free_count is what lies between them, and exactly the *)
(* descriptors between last_free and next_free hold a buffer.                   *)
THEOREM Invariance == Spec => []IInv
<1>1. Init => IInv
  BY Initial
<1>2. IInv /\ [Next]_vars => IInv'
  BY Inductive
<1> QED
  BY <1>1, <1>2, PTL DEF Spec

(* A packet that passed the test of free_count finds its descriptors free.       *)
LEMMA RoomIsThere == IInv => RoomForPacket
<1> SUFFICES ASSUME IInv, xmit = "map", NEW k \in 0 .. need - 1
             PROVE  After(next_free, k) # last_free /\ buf[After(next_free, k)] = "none"
  BY DEF RoomForPacket
<1>1. Live /\ free_count > need
  BY DEF IInv, RingInUse, Live
<1>2. /\ next_free \in Slots /\ last_free \in Slots /\ free_count \in Nat
      /\ need \in Nat /\ need > 0 /\ k \in Nat /\ k < need
  BY SizeFacts DEF IInv, TypeOK, RingType, SendType
<1>3. /\ Dist(last_free, next_free) \in Nat
      /\ Dist(last_free, next_free) + free_count = Size - 1
  BY <1>1, <1>2, DistRange DEF IInv, PointersInOrder, Ahead
<1>4. Dist(last_free, next_free) > 0
  <2>1. /\ Dist(last_free, drx) \in Nat /\ Dist(last_free, ctx) \in Nat
        /\ Dist(last_free, drx) < Dist(last_free, ctx)
        /\ Dist(last_free, ctx) <= Dist(last_free, next_free)
    BY <1>1, <1>2, DistRange
       DEF IInv, TypeOK, RegsType, PointersInOrder, Ahead
  <2> QED
    BY <1>3, <2>1
<1>5. Dist(last_free, next_free) + k < Size
  BY <1>1, <1>2, <1>3, SizeFacts
<1>6. /\ After(next_free, k) \in Slots
      /\ Dist(last_free, After(next_free, k)) = Dist(last_free, next_free) + k
  BY <1>2, <1>5, AfterFurther
<1>7. Dist(last_free, After(next_free, k)) > 0
  BY <1>2, <1>3, <1>4, <1>6
<1>8. After(next_free, k) # last_free
  BY <1>2, <1>6, <1>7, DistRange
<1>9. ~(Dist(last_free, After(next_free, k)) < Dist(last_free, next_free))
  BY <1>2, <1>3, <1>6
<1>10. buf[After(next_free, k)] = "none"
  BY <1>6, <1>9 DEF IInv, BuffersInRing, Ahead
<1> QED
  BY <1>8, <1>10

(* mtk_tx_map finds room for its packet: the test of free_count in              *)
(* mtk_start_xmit is enough, although a poll runs beside it without page_lock,  *)
(* and the two tests for last_free in mtk_tx_map are never true.                *)
THEOREM PacketFits == Spec => []RoomForPacket
  BY RoomIsThere, Invariance, PTL

---------------------------------------------------------------------------------
(* Byte queue limits                                                            *)

(* The descriptors that start a packet of d.                                    *)
PacketsOf(d) == {i \in Slots : buf[i] = d}

LEMMA PacketsAreFinite ==
  ASSUME NEW d
  PROVE  IsFiniteSet(PacketsOf(d)) /\ Cardinality(PacketsOf(d)) \in Nat
<1>1. IsFiniteSet(Slots)
  BY SizeFacts, FS_Interval DEF Slots
<1>2. PacketsOf(d) \subseteq Slots
  BY DEF PacketsOf
<1> QED
  BY <1>1, <1>2, FS_Subset, FS_CardinalityType

(* What sends, completes and frees nothing.                                     *)
LEMMA BqlKept ==
  ASSUME BqlInv, UNCHANGED <<buf, bql, done>>, Live' <=> Live,
         napi' # "reap" => napi # "reap"
  PROVE  BqlInv'
<1>1. BqlBalanced'
  BY DEF BqlInv, BqlBalanced
<1> QED
  BY <1>1 DEF BqlInv

(* Going the distance from a to b after a leads to b.                           *)
LEMMA AfterTheDistance ==
  ASSUME NEW a \in Slots, NEW b \in Slots
  PROVE  After(a, Dist(a, b)) = b /\ After(a, 0) = a
BY SizeFacts DEF Slots, Dist, After

(* mtk_tx_map puts one packet of its device into the ring and overwrites none.  *)
LEMMA MapBalances == ASSUME IInv, BqlInv, Map PROVE BqlInv'
<1>0. /\ TypeOK /\ RingInUse /\ xmit = "map" /\ RoomForPacket
      /\ UNCHANGED <<napi, done, open, closing>>
  BY RoomIsThere DEF IInv, Map, poll, devices
<1>1. /\ next_free \in Slots /\ xdev \in Devs /\ need \in Nat /\ need > 0
      /\ bql \in [Devs -> Int] /\ done \in [Devs -> Nat]
  BY <1>0, SizeFacts DEF TypeOK, RingType, SendType, StackType, PollType
<1>2. Live /\ Live'
  BY <1>0 DEF RingInUse, Live
<1>3. \A i \in Slots : Dist(next_free, i) < need => buf[i] = "none"
  <2> SUFFICES ASSUME NEW i \in Slots, Dist(next_free, i) < need PROVE buf[i] = "none"
    OBVIOUS
  <2>1. Dist(next_free, i) \in 0 .. need - 1
    BY <1>1, DistRange
  <2> QED
    BY <1>0, <1>1, <2>1, AfterTheDistance DEF RoomForPacket
<1>4. Dist(next_free, next_free) = 0 /\ buf[next_free] = "none"
  BY <1>1, <1>3, DistRange
<1>5. buf' = [i \in Slots |-> IF i = next_free THEN xdev
                             ELSE IF Dist(next_free, i) < need THEN "frag" ELSE buf[i]]
  BY DEF Map
<1>6. ASSUME NEW d \in Devs
      PROVE  PacketsOf(d)' = IF d = xdev THEN PacketsOf(d) \cup {next_free}
                             ELSE PacketsOf(d)
  BY <1>1, <1>3, <1>4, <1>5, SomebodyIsADevice DEF PacketsOf
<1>7. \A d \in Devs : bql'[d] = IF d = xdev THEN bql[d] + 1 ELSE bql[d]
  BY <1>1 DEF Map
<1>8. ASSUME NEW d \in Devs
      PROVE  bql'[d] = Cardinality(PacketsOf(d)') + done'[d]
  <2>1. bql[d] = Cardinality(PacketsOf(d)) + done[d]
    BY <1>2 DEF BqlInv, BqlBalanced, PacketsOf
  <2>2. CASE d = xdev
    <3>1. next_free \notin PacketsOf(d)
      BY <1>4, SomebodyIsADevice DEF PacketsOf
    <3>2. Cardinality(PacketsOf(d)') = Cardinality(PacketsOf(d)) + 1
      BY <1>6, <2>2, <3>1, PacketsAreFinite, FS_AddElement
    <3> QED
      BY <1>0, <1>1, <1>7, <2>1, <2>2, <3>2, PacketsAreFinite
  <2>3. CASE d # xdev
    BY <1>0, <1>6, <1>7, <2>1, <2>3
  <2> QED
    BY <2>2, <2>3
<1>9. BqlBalanced'
  BY <1>8 DEF BqlBalanced, PacketsOf
<1>10. napi' # "reap" => \A d \in Devs : done'[d] = 0
  BY <1>0 DEF BqlInv
<1> QED
  BY <1>2, <1>9, <1>10 DEF BqlInv

(* mtk_poll_tx_qdma takes a packet out of the ring where it counts it.          *)
LEMMA ReapBalances == ASSUME IInv, BqlInv, Reap PROVE BqlInv'
<1> DEFINE next == After(last_free, 1)
<1>0. /\ TypeOK /\ RingInUse /\ napi = "reap" /\ buf' = [buf EXCEPT ![next] = "none"]
      /\ buf[next] # "none" /\ UNCHANGED <<napi, bql, open, closing>>
  BY DEF IInv, Reap, MayReap, stack, devices
<1>1. /\ next \in Slots /\ buf \in [Slots -> Devs \cup {"none", "frag"}]
      /\ bql \in [Devs -> Int] /\ done \in [Devs -> Nat]
  BY <1>0, NextIsNearer DEF TypeOK, RingType, StackType, PollType
<1>2. Live /\ Live'
  BY <1>0 DEF RingInUse, Live
<1>3. \A d \in Devs : done'[d] = IF buf[next] = d THEN done[d] + 1 ELSE done[d]
  BY <1>1, SomebodyIsADevice DEF Reap, IsHead
<1>4. ASSUME NEW d \in Devs PROVE PacketsOf(d)' = PacketsOf(d) \ {next}
  BY <1>0, <1>1, SomebodyIsADevice DEF PacketsOf
<1>5. ASSUME NEW d \in Devs
      PROVE  bql'[d] = Cardinality(PacketsOf(d)') + done'[d]
  <2>1. bql[d] = Cardinality(PacketsOf(d)) + done[d]
    BY <1>2 DEF BqlInv, BqlBalanced, PacketsOf
  <2>2. Cardinality(PacketsOf(d)')
          = IF buf[next] = d THEN Cardinality(PacketsOf(d)) - 1
            ELSE Cardinality(PacketsOf(d))
    <3>1. next \in PacketsOf(d) <=> buf[next] = d
      BY <1>1 DEF PacketsOf
    <3> QED
      BY <1>4, <3>1, PacketsAreFinite, FS_RemoveElement
  <2> QED
    BY <1>0, <1>1, <1>3, <2>1, <2>2, PacketsAreFinite
<1>6. BqlBalanced'
  BY <1>5 DEF BqlBalanced, PacketsOf
<1> QED
  BY <1>0, <1>2, <1>6 DEF BqlInv

(* netdev_completed_queue tells the stack what the poll counted.                *)
LEMMA CompleteBalances == ASSUME IInv, BqlInv, Complete PROVE BqlInv'
<1>0. /\ TypeOK /\ RingInUse /\ napi = "reap" /\ napi' = "compare"
      /\ bql' = [d \in Devs |-> bql[d] - done[d]] /\ done' = [d \in Devs |-> 0]
      /\ UNCHANGED <<buf, open, closing>>
  BY DEF IInv, Complete, ring, devices
<1>1. Live /\ Live'
  BY <1>0 DEF RingInUse, Live
<1>2. ASSUME NEW d \in Devs
      PROVE  bql'[d] = Cardinality({i \in Slots : buf'[i] = d}) + done'[d]
  <2>1. bql[d] = Cardinality(PacketsOf(d)) + done[d]
    BY <1>1 DEF BqlInv, BqlBalanced, PacketsOf
  <2>2. done[d] \in Nat /\ Cardinality(PacketsOf(d)) \in Nat
    BY <1>0, PacketsAreFinite DEF TypeOK, PollType
  <2>3. {i \in Slots : buf'[i] = d} = PacketsOf(d)
    BY <1>0 DEF PacketsOf
  <2> QED
    BY <1>0, <2>1, <2>2, <2>3
<1>3. BqlBalanced'
  BY <1>2 DEF BqlBalanced
<1> QED
  BY <1>0, <1>1, <1>3 DEF BqlInv

(* The last device goes: netdev_reset_queue.                                    *)
LEMMA FreeBalances == ASSUME IInv, BqlInv, FreeRing PROVE BqlInv'
<1>1. open = {} /\ open' = open /\ ~closing'
  BY DEF IInv, DevicesCounted, FreeRing
<1>2. ~Live'
  BY <1>1 DEF Live
<1>3. \A d \in Devs : bql'[d] = 0 /\ done'[d] = 0
  BY DEF FreeRing, BqlInv
<1> QED
  BY <1>2, <1>3 DEF BqlInv, BqlBalanced

(* The first device comes: the ring is empty and nothing is counted.            *)
LEMMA OpenBalances ==
  ASSUME IInv, BqlInv, NEW d \in Devs, OpenDevice(d) PROVE BqlInv'
<1>0. /\ RingInUse /\ BuffersInRing
      /\ UNCHANGED <<buf, bql, done, closing>> /\ ~closing /\ open' = open \cup {d}
  BY DEF IInv, OpenDevice
<1>1. Live'
  BY <1>0 DEF Live
<1>2. CASE Live
  <2>1. napi' = napi
    BY <1>0, <1>2 DEF OpenDevice, Live
  <2> QED
    BY <1>0, <1>1, <1>2, <2>1, BqlKept
<1>3. CASE ~Live
  <2>1. \A e \in Devs : bql[e] = 0 /\ done[e] = 0
    BY <1>0, <1>3 DEF BqlInv, RingInUse
  <2>2. \A e \in Devs : PacketsOf(e) = {}
    BY <1>0, <1>3, SomebodyIsADevice DEF BuffersInRing, PacketsOf
  <2>3. \A e \in Devs : bql[e] = Cardinality(PacketsOf(e)) + done[e]
    BY <2>1, <2>2, FS_EmptySet
  <2>4. BqlBalanced'
    BY <1>0, <2>3 DEF BqlBalanced, PacketsOf
  <2> QED
    BY <1>0, <1>1, <2>1, <2>4 DEF BqlInv
<1> QED
  BY <1>2, <1>3

LEMMA BqlStep == ASSUME IInv, BqlInv, [Next]_vars PROVE BqlInv'
<1> USE DEF ring, regs, poll, send, stack, devices
<1>1. CASE Map
  BY <1>1, MapBalances
<1>2. CASE Reap
  BY <1>2, ReapBalances
<1>3. CASE Complete
  BY <1>3, CompleteBalances
<1>4. CASE FreeRing
  BY <1>4, FreeBalances
<1>5. CASE ResetOpens \/ \E d \in Devs : IfUp(d)
  BY <1>5, OpenBalances DEF ResetOpens, IfUp
<1>6. CASE ResetStops \/ \E d \in Devs : IfDown(d)
  <2>1. PICK d \in Devs : StopDevice(d)
    BY <1>6 DEF ResetStops, IfDown
  <2>2. Live /\ Live'
    BY <2>1 DEF StopDevice, Live
  <2> QED
    BY <2>1, <2>2, BqlKept DEF StopDevice
<1>7. CASE \/ \E d \in Devs : StartXmit(d) \/ DropInReset(d)
           \/ Busy \/ MapFails \/ Compare \/ Stop \/ Sends
           \/ ResetBegins \/ ResetEnds \/ UNCHANGED vars
  <2>1. UNCHANGED <<buf, bql, done, napi, open, closing>>
    BY <1>7 DEF StartXmit, DropInReset, Busy, MapFails, Compare, Stop, StopQueue,
                Return, Sends, ResetBegins, ResetEnds, vars
  <2> QED
    BY <2>1, BqlKept DEF Live
<1>8. CASE Irq \/ Clear \/ Look \/ CompareToWake \/ Wake \/ End
  <2>1. UNCHANGED <<buf, bql, done, open, closing>> /\ napi # "reap"
    BY <1>8 DEF Irq, Clear, Look, CompareToWake, Wake, End
  <2> QED
    BY <2>1, BqlKept DEF Live
<1> QED
  BY <1>1, <1>2, <1>3, <1>4, <1>5, <1>6, <1>7, <1>8 DEF Next, XmitRuns, Poll, Rtnl

LEMMA BqlAtFirst == Init => BqlInv
<1> SUFFICES ASSUME Init PROVE BqlInv
  OBVIOUS
<1>1. /\ buf = [i \in Slots |-> "none"] /\ bql = [d \in Devs |-> 0]
      /\ done = [d \in Devs |-> 0]
  BY DEF Init
<1>2. ASSUME NEW d \in Devs PROVE {i \in Slots : buf[i] = d} = {}
  BY <1>1, SomebodyIsADevice
<1>3. BqlBalanced
  BY <1>1, <1>2, FS_EmptySet DEF BqlBalanced
<1> QED
  BY <1>1, <1>3 DEF BqlInv

(* The counts of netdev_sent_queue and netdev_completed_queue stay in step for  *)
(* any number of devices, ring size and budget: through polls that end in the   *)
(* middle of a packet, failed mappings, and the close of the last device, which *)
(* throws away what is in the ring.                                             *)
THEOREM BqlStaysBalanced == Spec => []BqlBalanced
<1>1. Init => BqlInv
  BY BqlAtFirst
<1>2. IInv /\ BqlInv /\ [Next]_vars => BqlInv'
  BY BqlStep
<1>3. BqlInv => BqlBalanced
  BY DEF BqlInv
<1> QED
  BY <1>1, <1>2, <1>3, Invariance, PTL DEF Spec

=================================================================================
