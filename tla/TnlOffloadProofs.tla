---------------------------- MODULE TnlOffloadProofs ----------------------------
(* Proofs about TnlOffload for any number of rows, tunnels, addresses and        *)
(* failures, each with every disorder but the ones its property names: a row is  *)
(* on one list and only while it is QUEUED (IInv), the thread stays on its list  *)
(* (SafeInv), the cores have the rows as the driver has them (TableInv), and the *)
(* packets of a row reach the cores (SteerInv).                                  *)
EXTENDS TnlOffload, TLAPS

(* The row in hand is the same, or the thread is done with it.                   *)
RowStays == row' = row \/ (pc' = "walk" /\ row' = NoRow)

(* A deletion, from the tear-down of the filter to the row that is free          *)
Deletion == pc \in Deletes \cup {"ask", "wait", "thaw"} /\ row.event = "DEL"

(* What the steps of the rows keep; SweepFacts is kept apart.                     *)
Core == TypeOK /\ RowInHand /\ QueuedIsListed /\ DeletionIsAlone

(* The entry a loop goes to is a row, or the head of the list.                   *)
LEMMA HeadsAreEntries ==
  ASSUME NEW R \in SUBSET Slots, NEW n \in Heads(R)
  PROVE  n \in Slots \cup {Nobody}
BY DEF Heads

(* What the functions tnl_info_sta_* do to the bits of a row                     *)
LEMMA BitsOfARow ==
  ASSUME NEW bits \in SUBSET Bits
  PROVE  /\ Queued(bits) \in SUBSET Bits
         /\ "QUEUED" \in Queued(bits)
         /\ "DELETING" \in Queued(bits) <=> "DELETING" \in bits
         /\ Updating(bits) \in SUBSET Bits
         /\ "QUEUED" \notin Updating(bits)
         /\ "DELETING" \in Updating(bits) <=> "DELETING" \in bits
         /\ Updated(bits) \in SUBSET Bits
         /\ "QUEUED" \in Updated(bits) <=> "QUEUED" \in bits
         /\ "DELETING" \in Updated(bits) <=> "DELETING" \in bits
BY DEF Queued, Updating, Updated, Bits

(* The row in hand, and what is left of it when the thread is done with it, are  *)
(* of the type of a row.                                                         *)
LEMMA RowIsARow ==
  ASSUME TypeOK, RowStays
  PROVE  row' \in [slot : Slots \cup {Nobody}, event : {"none", "NEW", "DEL", "UPDATE"},
                   pce : BOOLEAN]
<1>1. NoRow \in [slot : Slots \cup {Nobody}, event : {"none", "NEW", "DEL", "UPDATE"},
                pce : BOOLEAN]
  BY DEF NoRow
<1> QED
  BY <1>1 DEF TypeOK, RowStays

---------------------------------------------------------------------------------
(* Submitting a row                                                             *)

(* The list of submitted rows grows by the one enlisted, the other list stays.   *)
LEMMA EnlistFacts ==
  ASSUME TypeOK, NEW s \in Slots, Enlist(s)
  PROVE  /\ submitted' = submitted \cup {s} /\ pending' = pending
         /\ node' = node /\ row' = row
         /\ toSync' \in BOOLEAN
         /\ pc' = pc \/ pc' \in {"astray", "check"}
BY DEF Enlist, TypeOK

(* A row that is submitted is QUEUED and on the list; DELETING is left as it is. *)
LEMMA SubmitFacts ==
  ASSUME TypeOK, NEW s \in Slots, NEW bits \in SUBSET Bits, Submit(s, bits)
  PROVE  /\ status' \in [Slots -> SUBSET Bits]
         /\ \A r \in Slots \ {s} : status'[r] = status[r]
         /\ "QUEUED" \in status'[s]
         /\ "DELETING" \in status'[s] <=> "DELETING" \in bits
         /\ submitted' = IF "QUEUED" \in bits THEN submitted ELSE submitted \cup {s}
         /\ pending' = pending /\ node' = node /\ row' = row
         /\ toSync' \in BOOLEAN
         /\ pc' = pc \/ pc' \in {"astray", "check"}
<1>0. status \in [Slots -> SUBSET Bits]
  BY DEF TypeOK
<1>1. CASE "QUEUED" \in bits
  <2>1. status' = [status EXCEPT ![s] = bits] /\ UNCHANGED <<lists, thread>>
    BY <1>1 DEF Submit
  <2>2. toSync \in BOOLEAN
    BY DEF TypeOK
  <2> QED
    BY <1>0, <1>1, <2>1, <2>2 DEF lists, thread
<1>2. CASE "QUEUED" \notin bits
  <2>1. status' = [status EXCEPT ![s] = Queued(bits)] /\ Enlist(s)
    BY <1>2 DEF Submit
  <2> QED
    BY <1>0, <1>2, <2>1, EnlistFacts, BitsOfARow
<1> QED
  BY <1>1, <1>2

(* A row may be submitted if its bits say whether it is listed, and if it is not *)
(* the one that is being deleted.                                                *)
MaySubmit(s, bits) ==
  Spared({"end"}) =>
    /\ Spared({"flight"}) => ("QUEUED" \in bits <=> s \in submitted \cup pending)
    /\ "DELETING" \in bits => ~broken /\ mcu \in {"up", "frozen"}
    /\ Deletion => row.slot # s

(* Submitting such a row keeps the invariant.                                    *)
LEMMA SubmitKeeps ==
  ASSUME IInv, NEW s \in Slots, NEW bits \in SUBSET Bits, Submit(s, bits),
         used' = used \cup {s},
         UNCHANGED <<disorder, broken, mcu>>, MaySubmit(s, bits)
  PROVE  RowInHand' /\ QueuedIsListed' /\ DeletionIsAlone'
<1>1. /\ status' \in [Slots -> SUBSET Bits]
      /\ \A r \in Slots \ {s} : status'[r] = status[r]
      /\ "QUEUED" \in status'[s]
      /\ "DELETING" \in status'[s] <=> "DELETING" \in bits
      /\ submitted' = IF "QUEUED" \in bits THEN submitted ELSE submitted \cup {s}
      /\ pending' = pending /\ node' = node /\ row' = row
      /\ pc' = pc \/ pc' \in {"astray", "check"}
  BY SubmitFacts DEF IInv
<1>2. used \subseteq Slots /\ submitted \subseteq Slots /\ pending \subseteq Slots
  BY DEF IInv, TypeOK
<1>3. RowInHand'
  BY <1>1 DEF IInv, RowInHand, InHand, Deletes
<1>4. /\ Spared({"end"})' <=> Spared({"end"})
      /\ Spared({"flight"})' <=> Spared({"flight"})
  BY DEF Spared
<1>5. QueuedIsListed'
  BY <1>1, <1>2, <1>4 DEF IInv, QueuedIsListed, MaySubmit
<1>6. ASSUME Spared({"end"}), Ending'
      PROVE  ~broken' /\ mcu' \in {"up", "frozen"}
  <2>1. PICK r \in used' : "DELETING" \in status'[r]
    BY <1>6 DEF Ending
  <2>2. CASE r = s
    BY <1>1, <1>6, <2>1, <2>2 DEF MaySubmit
  <2>3. CASE r # s
    <3>1. r \in used /\ "DELETING" \in status[r]
      BY <1>1, <1>2, <2>1, <2>3
    <3> QED
      BY <1>6, <3>1 DEF IInv, DeletionIsAlone, Ending
  <2> QED
    BY <2>2, <2>3
<1>7. ASSUME Spared({"end"}), Deletion'
      PROVE  /\ row'.slot \in used'
             /\ "DELETING" \in status'[row'.slot] /\ "QUEUED" \notin status'[row'.slot]
  <2>1. Deletion /\ row'.slot = row.slot
    BY <1>1, <1>7 DEF Deletion, Deletes
  <2>2. /\ row.slot \in used /\ row.slot # s
        /\ "DELETING" \in status[row.slot] /\ "QUEUED" \notin status[row.slot]
    BY <1>7, <2>1 DEF IInv, DeletionIsAlone, Deletion, MaySubmit
  <2> QED
    BY <1>1, <1>2, <2>1, <2>2
<1>8. DeletionIsAlone'
  BY <1>4, <1>6, <1>7 DEF DeletionIsAlone, Deletion
<1> QED
  BY <1>3, <1>5, <1>8

---------------------------------------------------------------------------------
(* The network                                                                  *)

(* Setup leaves the row as it is when its direction is offloaded already.       *)
LEMMA SetupKeeps ==
  ASSUME IInv, NEW s \in Slots, NEW bits \in SUBSET Bits,
         NEW flag \in SUBSET {"decap", "encap"}, NEW t \in Tunnels,
         NEW dir \in {"decap", "encap"}, NEW mac \in Macs,
         Setup(s, bits, flag, t, dir, mac),
         used' = used \cup {s},
         params' \in [Slots -> Params],
         flag = {} \/ bits = status[s], MaySubmit(s, bits)
  PROVE  Core'
<1>1. /\ cache' \in [Slots -> Params] /\ dev' \in [Slots -> Tunnels \cup {Nobody}]
      /\ UNCHANGED <<tcls, cores, others>>
  BY DEF Setup, IInv, TypeOK, Params
<1>2. CASE dir \in flag
  <2>1. status' = [status EXCEPT ![s] = bits] /\ UNCHANGED <<lists, thread>>
    BY <1>2 DEF Setup
  <2>2. status' = status
    BY <1>2, <2>1 DEF IInv, TypeOK
  <2>3. used' \subseteq Slots
    BY DEF IInv, TypeOK
  <2>4. TypeOK'
    BY <1>1, <2>1, <2>2, <2>3
       DEF IInv, TypeOK, lists, thread, cores, others, sweep, filter
  <2>5. RowInHand' /\ QueuedIsListed'
    BY <1>1, <1>2, <2>1, <2>2
       DEF IInv, RowInHand, QueuedIsListed, Spared, lists, thread, others
  <2>6. DeletionIsAlone'
    <3> SUFFICES ASSUME Spared({"end"}), Spared({"end"})'
                 PROVE  DeletionIsAlone'
      BY <1>1 DEF DeletionIsAlone, Spared, others
    <3>1. UNCHANGED <<status, pc, row, broken, mcu>>
      BY <1>1, <2>1, <2>2 DEF lists, thread, cores
    <3>2. Ending' => ~broken /\ mcu \in {"up", "frozen"}
      <4>1. "DELETING" \in status[s] => ~broken /\ mcu \in {"up", "frozen"}
        BY <1>2 DEF MaySubmit
      <4> QED
        BY <3>1, <4>1 DEF IInv, DeletionIsAlone, Ending
    <3> QED
      BY <3>1, <3>2 DEF IInv, DeletionIsAlone
  <2> QED
    BY <2>4, <2>5, <2>6 DEF Core
<1>3. CASE dir \notin flag
  <2>1. Submit(s, bits)
    BY <1>3 DEF Setup
  <2>2. RowInHand' /\ QueuedIsListed' /\ DeletionIsAlone'
    BY <1>1, <2>1, SubmitKeeps DEF cores, others
  <2>3. /\ status' \in [Slots -> SUBSET Bits] /\ submitted' \subseteq Slots
        /\ pending' = pending /\ node' = node /\ row' = row /\ toSync' \in BOOLEAN
        /\ pc' \in Places
    BY <2>1, SubmitFacts DEF IInv, TypeOK, Places
  <2>4. used' \subseteq Slots
    BY DEF IInv, TypeOK
  <2>5. TypeOK'
    BY <1>1, <2>3, <2>4 DEF IInv, TypeOK, cores, others, sweep, filter
  <2> QED
    BY <2>2, <2>5 DEF Core
<1> QED
  BY <1>2, <1>3

(* Packets, L2 updates and the end of a device keep the invariant.               *)
LEMMA NetworkStep ==
  ASSUME IInv, Network
  PROVE  Core'
<1>1. ASSUME NEW t \in Tunnels, NEW dir \in {"decap", "encap"}, NEW mac \in Macs,
             Packet(t, dir, mac)
      PROVE  Core'
  <2>1. PICK s \in used :
          /\ Unless("end", EndsNot(s))
          /\ Setup(s, status[s], cache[s].flag, t, dir, mac)
          /\ UNCHANGED <<used, params>>
    BY <1>1 DEF Packet
  <2>2. /\ s \in Slots /\ status[s] \in SUBSET Bits
        /\ cache[s].flag \in SUBSET {"decap", "encap"} /\ params' \in [Slots -> Params]
    BY <2>1 DEF IInv, TypeOK, Params
  <2>3. MaySubmit(s, status[s])
    <3> SUFFICES ASSUME Spared({"end"})
                 PROVE  /\ Spared({"flight"}) =>
                             ("QUEUED" \in status[s] <=> s \in submitted \cup pending)
                        /\ "DELETING" \in status[s] => ~broken /\ mcu \in {"up", "frozen"}
                        /\ Deletion => row.slot # s
      BY DEF MaySubmit
    <3>1. "DELETING" \notin status[s]
      BY <2>1 DEF Unless, Spared, EndsNot
    <3> QED
      BY <2>2, <3>1 DEF IInv, QueuedIsListed, DeletionIsAlone, Deletion
  <2> QED
    BY <2>1, <2>2, <2>3, SetupKeeps
<1>2. ASSUME NEW t \in Tunnels, NEW dir \in {"decap", "encap"}, NEW mac \in Macs,
             FirstPacket(t, dir, mac)
      PROVE  Core'
  <2>1. PICK s \in Slots \ used :
          /\ used' = used \cup {s}
          /\ params' = [params EXCEPT ![s] = NoParams]
          /\ Setup(s, {"INIT"}, {}, t, dir, mac)
    BY <1>2 DEF FirstPacket
  <2>2. {"INIT"} \in SUBSET Bits /\ params' \in [Slots -> Params]
    BY <2>1 DEF IInv, TypeOK, Params, NoParams, Bits
  <2>3. MaySubmit(s, {"INIT"})
    BY <2>1 DEF IInv, QueuedIsListed, DeletionIsAlone, Deletion, MaySubmit
  <2>4. PICK bits \in SUBSET Bits, flag \in SUBSET {"decap", "encap"} :
          bits = {"INIT"} /\ flag = {}
    BY <2>2
  <2>5. /\ s \in Slots /\ used' = used \cup {s}
        /\ Setup(s, bits, flag, t, dir, mac)
        /\ flag = {} \/ bits = status[s]
        /\ MaySubmit(s, bits)
    BY <2>1, <2>3, <2>4
  <2> QED
    BY <2>2, <2>5, SetupKeeps
<1>3. ASSUME NEW s \in Slots, NEW mac \in Macs, L2Update(s, mac)
      PROVE  Core'
  <2>1. /\ s \in used /\ Unless("end", EndsNot(s))
        /\ cache' = [cache EXCEPT ![s].mac = mac]
        /\ Submit(s, status[s])
        /\ UNCHANGED <<used, params, dev, tcls, cores, others>>
    BY <1>3 DEF L2Update
  <2>2. status[s] \in SUBSET Bits /\ cache' \in [Slots -> Params]
    <3>1. status[s] \in SUBSET Bits /\ cache[s] \in Params
      BY <2>1 DEF IInv, TypeOK
    <3>2. [cache[s] EXCEPT !.mac = mac] \in Params
      BY <3>1 DEF Params
    <3> QED
      BY <2>1, <3>1, <3>2 DEF IInv, TypeOK
  <2>3. MaySubmit(s, status[s])
    <3> SUFFICES ASSUME Spared({"end"})
                 PROVE  /\ Spared({"flight"}) =>
                             ("QUEUED" \in status[s] <=> s \in submitted \cup pending)
                        /\ "DELETING" \in status[s] => ~broken /\ mcu \in {"up", "frozen"}
                        /\ Deletion => row.slot # s
      BY DEF MaySubmit
    <3>1. "DELETING" \notin status[s]
      BY <2>1 DEF Unless, Spared, EndsNot
    <3> QED
      BY <3>1 DEF IInv, QueuedIsListed, DeletionIsAlone, Deletion
  <2>4. RowInHand' /\ QueuedIsListed' /\ DeletionIsAlone'
    BY <2>1, <2>2, <2>3, SubmitKeeps DEF cores, others
  <2>5. /\ status' \in [Slots -> SUBSET Bits] /\ submitted' \subseteq Slots
        /\ pending' = pending /\ node' = node /\ row' = row /\ toSync' \in BOOLEAN
        /\ pc' \in Places
    BY <2>1, <2>2, SubmitFacts DEF IInv, TypeOK, Places
  <2>6. TypeOK'
    BY <2>1, <2>2, <2>5 DEF IInv, TypeOK, cores, others, sweep, filter
  <2> QED
    BY <2>4, <2>6 DEF Core
<1>4. ASSUME NEW t \in Tunnels, NetdevDown(t)
      PROVE  Core'
  <2>1. PICK s \in used :
          /\ Unless("end",
               /\ status[s] = {"UPDATED"} /\ ~broken /\ mcu \in {"up", "frozen"}
               /\ cache[s].tunnel = t /\ refs[Local[t]] = 1 /\ pc # "dip")
          /\ Submit(s, status[s] \cup {"DELETING"})
          /\ UNCHANGED <<used, cache, params, dev, tcls, cores, others>>
    BY <1>4 DEF NetdevDown
  <2>2. s \in Slots /\ status[s] \cup {"DELETING"} \in SUBSET Bits
    BY <2>1 DEF IInv, TypeOK, Bits
  <2>3. MaySubmit(s, status[s] \cup {"DELETING"})
    <3> SUFFICES ASSUME Spared({"end"})
                 PROVE  /\ Spared({"flight"}) =>
                             ("QUEUED" \in (status[s] \cup {"DELETING"}) <=>
                                s \in submitted \cup pending)
                        /\ "DELETING" \in (status[s] \cup {"DELETING"}) => ~broken /\ mcu \in {"up", "frozen"}
                        /\ Deletion => row.slot # s
      BY DEF MaySubmit
    <3>1. status[s] = {"UPDATED"} /\ ~broken /\ mcu \in {"up", "frozen"}
      BY <2>1 DEF Unless, Spared
    <3> QED
      BY <2>2, <3>1 DEF IInv, QueuedIsListed, DeletionIsAlone, Deletion
  <2>4. RowInHand' /\ QueuedIsListed' /\ DeletionIsAlone'
    BY <2>1, <2>2, <2>3, SubmitKeeps DEF cores, others
  <2>5. /\ status' \in [Slots -> SUBSET Bits] /\ submitted' \subseteq Slots
        /\ pending' = pending /\ node' = node /\ row' = row /\ toSync' \in BOOLEAN
        /\ pc' \in Places
    BY <2>1, <2>2, SubmitFacts DEF IInv, TypeOK, Places
  <2>6. TypeOK'
    BY <2>1, <2>5 DEF IInv, TypeOK, cores, others, sweep, filter
  <2> QED
    BY <2>4, <2>6 DEF Core
<1> QED
  BY <1>1, <1>2, <1>3, <1>4 DEF Network

---------------------------------------------------------------------------------
(* The thread                                                                   *)

(* A step that leaves the rows in use, their bits and the lists as they are      *)
LEMMA ThreadFrame ==
  ASSUME IInv, UNCHANGED <<status, used, submitted, pending, disorder, broken>>,
         row' = row \/ pc' \notin InHand,
         mcu' = mcu \/ mcu' \in {"up", "frozen"},
         pc' \in InHand => pc \in InHand, pc' \in Deletes => row.event = "DEL",
         pc' \in {"cls", "transfer"} => row.event # "DEL",
         Deletion' => Deletion
  PROVE  RowInHand' /\ QueuedIsListed' /\ DeletionIsAlone'
<1>1. RowInHand' /\ QueuedIsListed'
  BY DEF IInv, RowInHand, QueuedIsListed, Spared, InHand, Deletes
<1>2. DeletionIsAlone'
  <2>1. Spared({"end"})' => Spared({"end"}) /\ DeletionIsAlone
    BY DEF IInv, Spared
  <2>2. Ending' => Ending
    BY DEF Ending
  <2>3. Spared({"end"})' /\ Ending' => ~broken' /\ mcu' \in {"up", "frozen"}
    BY <2>1, <2>2 DEF DeletionIsAlone
  <2>4. Deletion' => Deletion /\ row' = row
    BY DEF Deletion, InHand, Deletes
  <2>5. Spared({"end"})' /\ Deletion' =>
          /\ row'.slot \in used'
          /\ "DELETING" \in status'[row'.slot] /\ "QUEUED" \notin status'[row'.slot]
    BY <2>1, <2>4 DEF DeletionIsAlone, Deletion
  <2> QED
    BY <2>3, <2>5 DEF DeletionIsAlone, Deletion, Deletes
<1> QED
  BY <1>1, <1>2

(* Taking the submitted rows swaps the lists.                                    *)
LEMMA CheckStep ==
  ASSUME IInv, Check
  PROVE  Core'
<1>1. CASE toSync /\ alive
  <2>1. /\ submitted' = pending /\ pending' = submitted /\ toSync' = FALSE
        /\ pc' = "walk" /\ node' \in Heads(submitted) /\ row' = row
        /\ UNCHANGED <<rows, cores, others>>
    BY <1>1 DEF Check
  <2>2. node' \in Slots \cup {Nobody}
    BY <2>1, HeadsAreEntries DEF IInv, TypeOK
  <2>3. TypeOK'
    <3>1. UNCHANGED <<used, status, cache, params, dev, tcls, mcu, alive, broken, table,
                      known, faults, refs, dipLock, todo, zeroed>>
      BY <2>1 DEF rows, cores, others, sweep, filter
    <3>2. pc' \in Places
      BY <2>1 DEF Places
    <3>3. submitted' \subseteq Slots /\ pending' \subseteq Slots /\ toSync' \in BOOLEAN
      BY <2>1 DEF IInv, TypeOK
    <3> QED
      BY <2>1, <2>2, <3>1, <3>2, <3>3 DEF IInv, TypeOK
  <2>q. QueuedIsListed'
    <3>1. /\ submitted' \cup pending' = submitted \cup pending
          /\ submitted' \cap pending' = submitted \cap pending
      BY <2>1
    <3>2. UNCHANGED <<used, status, disorder>> /\ QueuedIsListed
      BY <2>1 DEF IInv, rows, others
    <3> QED
      BY <3>1, <3>2 DEF QueuedIsListed, Spared
  <2>4. RowInHand' /\ QueuedIsListed'
    BY <2>1, <2>q DEF RowInHand, InHand, Deletes
  <2>5. DeletionIsAlone'
    BY <2>1 DEF IInv, DeletionIsAlone, Deletes, Ending, Spared, rows, cores, others
  <2> QED
    BY <2>3, <2>4, <2>5 DEF Core
<1>2. CASE ~(toSync /\ alive)
  <2>1. pc' = "sleep" /\ UNCHANGED <<node, row, lists, rows, cores, others>>
    BY <1>2 DEF Check, GoesTo
  <2>2. TypeOK'
    BY <2>1 DEF IInv, TypeOK, Places, rows, lists, cores, others, sweep, filter
  <2>3. RowInHand' /\ QueuedIsListed' /\ DeletionIsAlone'
    BY <2>1, ThreadFrame DEF rows, lists, cores, others, InHand, Deletes, Deletion
  <2> QED
    BY <2>2, <2>3 DEF Core
<1> QED
  BY <1>1, <1>2

(* The entries the walk does not work on: it goes on, or goes astray.            *)
LEMMA WalkStep ==
  ASSUME IInv, WalkEnds \/ GoesAstray \/ PutOff \/ Passes
  PROVE  Core'
<1>1. CASE WalkEnds \/ GoesAstray
  <2>1. /\ pc' \in {"check", "astray"} /\ row' \in {row, NoRow}
        /\ UNCHANGED <<node, rows, lists, cores, others>>
    BY <1>1 DEF WalkEnds, GoesAstray, GoesTo
  <2>2. row' \in [slot : Slots \cup {Nobody}, event : {"none", "NEW", "DEL", "UPDATE"},
                 pce : BOOLEAN]
    <3>1. NoRow \in [slot : Slots \cup {Nobody}, event : {"none", "NEW", "DEL", "UPDATE"},
                    pce : BOOLEAN]
      BY DEF NoRow
    <3> QED
      BY <2>1, <3>1 DEF IInv, TypeOK
  <2>3. TypeOK'
    BY <2>2, <2>1 DEF IInv, TypeOK, Places, rows, lists, cores, others, sweep, filter
  <2>4. RowInHand' /\ QueuedIsListed' /\ DeletionIsAlone'
    BY <2>1, ThreadFrame DEF rows, lists, cores, others, InHand, Deletes, Deletion
  <2> QED
    BY <2>3, <2>4 DEF Core
<1>2. CASE PutOff \/ Passes
  <2>1. /\ node \in Slots /\ node \in pending
        /\ pending' = pending \ {node} /\ node' \in Heads(pending')
        /\ pc' = "walk" /\ toSync' \in BOOLEAN
        /\ \/ submitted' = submitted \cup {node}
           \/ submitted' = submitted /\ "QUEUED" \notin status[node]
        /\ UNCHANGED <<rows, row, cores, others>>
    BY <1>2 DEF PutOff, Passes, Leaves, IInv, TypeOK
  <2>2. pending' \in SUBSET Slots /\ submitted' \subseteq Slots
    BY <2>1 DEF IInv, TypeOK
  <2>3. node' \in Slots \cup {Nobody}
    BY <2>1, <2>2, HeadsAreEntries
  <2>4. TypeOK'
    BY <2>1, <2>2, <2>3 DEF IInv, TypeOK, Places, rows, cores, others, sweep, filter
  <2>5. RowInHand' /\ QueuedIsListed'
    BY <2>1 DEF IInv, RowInHand, InHand, Deletes, QueuedIsListed, Spared, rows, others
  <2>6. DeletionIsAlone'
    BY <2>1 DEF IInv, DeletionIsAlone, Deletes, Ending, Spared, rows, cores, others
  <2> QED
    BY <2>4, <2>5, <2>6 DEF Core
<1> QED
  BY <1>1, <1>2

(* The thread copies the row, or what the flush leaves of the copy.              *)
LEMMA TakenParams ==
  ASSUME TypeOK, TakeRow
  PROVE  /\ params' \in [Slots -> Params]
         /\ todo' \subseteq Slots /\ zeroed' \in Slots \cup {Nobody}
<1>1. /\ node \in Slots /\ cache \in [Slots -> Params] /\ params \in [Slots -> Params]
      /\ todo \subseteq Slots /\ zeroed \in Slots \cup {Nobody}
  BY DEF TakeRow, TypeOK
<1>2. CASE params' = [params EXCEPT ![node] = cache[node]] /\ UNCHANGED sweep
  BY <1>1, <1>2 DEF sweep
<1>3. CASE ZeroedMeanwhile /\ \E p \in PartlyZeroed(cache[node]) :
             params' = [params EXCEPT ![node] = p]
  <2>1. PICK p \in PartlyZeroed(cache[node]) : params' = [params EXCEPT ![node] = p]
    BY <1>3
  <2>2. p \in Params
    BY <1>1, <2>1 DEF PartlyZeroed, NoParams, Params
  <2> QED
    BY <1>1, <1>3, <2>1, <2>2 DEF ZeroedMeanwhile
<1> QED
  BY <1>2, <1>3 DEF TakeRow

(* The row the thread takes leaves its list and is QUEUED no longer.             *)
LEMMA TakeRowStep ==
  ASSUME IInv, TakeRow
  PROVE  Core'
<1> DEFINE event == EventOf(status[node])
           decap == BeginsToReceive(node)
<1>1. /\ event \in {"NEW", "DEL", "UPDATE"} /\ decap \in BOOLEAN
      /\ event = "DEL" => "DELETING" \in status[node]
      /\ row' = [slot |-> node, event |-> event, pce |-> decap]
      /\ Leaves(IF event = "DEL" THEN "undip" ELSE IF decap THEN "cls" ELSE "ask")
  <2>1. event \in {"NEW", "DEL", "UPDATE"} /\ (event = "DEL" => "DELETING" \in status[node])
    BY DEF EventOf
  <2>2. decap \in BOOLEAN
    BY DEF BeginsToReceive
  <2> QED
    BY <2>1, <2>2 DEF TakeRow
<1>2. /\ node \in Slots /\ "QUEUED" \in status[node]
      /\ node \in pending /\ pending' = pending \ {node} /\ node' \in Heads(pending')
      /\ pc' = IF event = "DEL" THEN "undip" ELSE IF decap THEN "cls" ELSE "ask"
      /\ status' = [status EXCEPT ![node] = Updating(status[node])]
      /\ UNCHANGED <<used, cache, dev, tcls, submitted, toSync, cores, filter, disorder>>
  BY <1>1 DEF TakeRow, Leaves
<1>2a. /\ params' \in [Slots -> Params]
      /\ todo' \subseteq Slots /\ zeroed' \in Slots \cup {Nobody}
  BY <1>2, TakenParams DEF IInv
<1> HIDE DEF event, decap
<1>3. /\ status[node] \in SUBSET Bits /\ status'[node] = Updating(status[node])
      /\ status' \in [Slots -> SUBSET Bits]
      /\ \A r \in Slots \ {node} : status'[r] = status[r]
  BY <1>2, BitsOfARow DEF IInv, TypeOK
<1>4. pending' \in SUBSET Slots /\ node' \in Slots \cup {Nobody}
  BY <1>2, HeadsAreEntries DEF IInv, TypeOK
<1>5. TypeOK'
  BY <1>1, <1>2, <1>2a, <1>3, <1>4 DEF IInv, TypeOK, Places, cores, filter
<1>6. RowInHand'
  BY <1>1, <1>2 DEF RowInHand, InHand, Deletes
<1>7. "QUEUED" \notin status'[node]
      /\ ("DELETING" \in status'[node] <=> "DELETING" \in status[node])
  BY <1>3, BitsOfARow
<1>8. used \subseteq Slots /\ submitted \subseteq Slots /\ pending \subseteq Slots
  BY DEF IInv, TypeOK
<1>9. QueuedIsListed'
  BY <1>2, <1>3, <1>7, <1>8 DEF IInv, QueuedIsListed, Spared
<1>10. ASSUME Spared({"end"})
       PROVE  /\ Ending' => ~broken' /\ mcu' \in {"up", "frozen"}
              /\ event = "DEL" => node \in used /\ "DELETING" \in status'[node]
  <2>1. node \in used
    BY <1>2, <1>10 DEF IInv, QueuedIsListed
  <2>2. Ending' => Ending
    BY <1>2, <1>3, <1>7, <1>8 DEF Ending
  <2> QED
    BY <1>1, <1>2, <1>7, <1>10, <2>1, <2>2 DEF IInv, DeletionIsAlone, cores
<1>11. DeletionIsAlone'
  BY <1>1, <1>2, <1>7, <1>10 DEF DeletionIsAlone, Spared
<1> QED
  BY <1>5, <1>6, <1>9, <1>11 DEF Core

(* The calls of the filter keep the types of its state.                          *)
LEMMA FilterCalls ==
  ASSUME TypeOK, NEW a \in Addresses,
         AddEntry(a) \/ AddFails(a) \/ DelEntry(a) \/ DelFails(a)
  PROVE  refs' \in [Addresses -> Nat] /\ dipLock' \in BOOLEAN
<1>1. refs \in [Addresses -> Nat] /\ dipLock \in BOOLEAN
  BY DEF TypeOK
<1>2. CASE AddEntry(a)
  BY <1>1, <1>2 DEF AddEntry
<1>3. CASE AddFails(a)
  BY <1>1, <1>3 DEF AddFails, filter
<1>4. CASE DelEntry(a)
  <2>1. refs' \in [Addresses -> Nat]
    BY <1>1, <1>4 DEF DelEntry
  <2>2. dipLock' = (refs[a] > 1)
    BY <1>4 DEF DelEntry
  <2> QED
    BY <2>1, <2>2
<1>5. CASE DelFails(a)
  BY <1>1, <1>5 DEF DelFails
<1> QED
  BY <1>2, <1>3, <1>4, <1>5

(* They are made for the local address of the row's tunnel, if it has one.       *)
LEMMA FilterStep ==
  ASSUME IInv, SetUpDip \/ TearDownDip
  PROVE  /\ refs' \in [Addresses -> Nat] /\ dipLock' \in BOOLEAN
         /\ disorder' = disorder
<1>1. HasAddress => Address \in Addresses
  <2>1. row.slot \in Slots
    BY DEF IInv, RowInHand, InHand, SetUpDip, TearDownDip, At
  <2>2. params[row.slot] \in Params
    BY <2>1 DEF IInv, TypeOK
  <2> QED
    BY <2>2, LocalAssumption DEF Params, HasAddress, Address
<1>2. disorder' = disorder
  BY DEF SetUpDip, TearDownDip
<1>3. CASE UNCHANGED filter
  BY <1>2, <1>3 DEF filter, IInv, TypeOK
<1>4. CASE ~UNCHANGED filter
  <2>1. /\ HasAddress
        /\ \/ AddEntry(Address) \/ AddFails(Address)
           \/ DelEntry(Address) \/ DelFails(Address)
    BY <1>4 DEF SetUpDip, TearDownDip
  <2>2. PICK a \in Addresses : AddEntry(a) \/ AddFails(a) \/ DelEntry(a) \/ DelFails(a)
    BY <1>1, <2>1
  <2> QED
    BY <1>2, <2>2, FilterCalls DEF IInv
<1> QED
  BY <1>3, <1>4

(* What the thread does with a row before and after it asks the cores            *)
LEMMA EngineStep ==
  ASSUME IInv, SetUpCls \/ SetUpDip \/ Undo \/ TearDownDip \/ ClearRow \/ EraseRow
  PROVE  Core'
<1>1. row.slot \in Slots
  BY DEF IInv, RowInHand, InHand, SetUpCls, SetUpDip, Undo, TearDownDip, ClearRow,
         EraseRow, At
<1>2. /\ UNCHANGED <<status, used, lists, dev, todo, zeroed, disorder, node>>
      /\ RowStays
      /\ UNCHANGED <<mcu, alive, broken, known, faults>>
  BY FilterStep
     DEF RowStays, SetUpCls, SetUpDip, Undo, TearDownDip, ClearRow, EraseRow, GoesTo, rows,
         cores, others, sweep
<1>3. /\ pc' \in {"ask", "walk", "oops", "erase", "free"}
      /\ pc' = "ask" => pc \in {"cls", "undip"}
      /\ pc' \in {"erase", "free"} => pc \in {"clear", "erase"}
      /\ pc \in {"cls", "dip", "undo", "undip", "clear", "erase"}
  BY DEF SetUpCls, SetUpDip, Undo, TearDownDip, ClearRow, EraseRow, GoesTo, At
<1>4. /\ pc' \in InHand => pc \in InHand
      /\ pc' \in Deletes => row.event = "DEL"
      /\ pc' \in {"cls", "transfer"} => row.event # "DEL"
      /\ Deletion' => Deletion
  BY <1>2, <1>3 DEF RowStays, IInv, RowInHand, InHand, Deletes, Deletion
<1>5. RowInHand' /\ QueuedIsListed' /\ DeletionIsAlone'
  BY <1>2, <1>4, ThreadFrame DEF RowStays, InHand, lists
<1>6. refs' \in [Addresses -> Nat] /\ dipLock' \in BOOLEAN
  <2>1. CASE SetUpDip \/ TearDownDip
    BY <2>1, FilterStep
  <2>2. CASE SetUpCls \/ Undo \/ ClearRow \/ EraseRow
    BY <2>2 DEF SetUpCls, Undo, ClearRow, EraseRow, others, filter, IInv, TypeOK
  <2> QED
    BY <2>1, <2>2
<1>7. tcls' \subseteq Slots /\ cache' \in [Slots -> Params]
      /\ params' \in [Slots -> Params] /\ table' \in [Slots -> Params]
  <2>1. CASE SetUpCls \/ Undo
    BY <1>1, <2>1 DEF SetUpCls, Undo, cores, IInv, TypeOK
  <2>2. CASE SetUpDip \/ TearDownDip
    BY <2>2 DEF SetUpDip, TearDownDip, rows, cores, IInv, TypeOK
  <2>3. CASE ClearRow
    <3>1. NoParams \in Params
      BY DEF NoParams, Params
    <3> QED
      BY <2>3, <3>1 DEF ClearRow, cores, IInv, TypeOK
  <2>4. CASE EraseRow
    BY <1>1, <2>4 DEF EraseRow, rows, IInv, TypeOK
  <2> QED
    BY <2>1, <2>2, <2>3, <2>4
<1>8. TypeOK'
  BY <1>2, <1>3, <1>6, <1>7, RowIsARow DEF IInv, TypeOK, Places, lists
<1> QED
  BY <1>5, <1>8 DEF Core

(* The stall: from the question to the cores' answer                             *)
LEMMA StallStep ==
  ASSUME IInv, Ask \/ Granted \/ Refused \/ Transfer \/ Thaw
  PROVE  Core'
<1>1. row.slot \in Slots /\ pc \in {"ask", "wait", "transfer", "thaw"}
  BY DEF IInv, RowInHand, InHand, Ask, Granted, Refused, Transfer, Thaw, At
<1>2. /\ UNCHANGED <<rows, lists, alive, broken, faults, others, node>>
      /\ RowStays
      /\ mcu' = mcu \/ mcu' \in {"up", "frozen"}
  BY DEF RowStays, Ask, Granted, Refused, Transfer, Thaw, GoesTo, cores
<1>3. /\ pc' \in {"wait", "walk", "undo", "transfer", "thaw", "synced", "clear"}
      /\ pc' = "transfer" => row.event # "DEL"
      /\ pc' = "thaw" => (pc = "wait" /\ row.event = "DEL") \/ pc = "transfer"
      /\ pc' = "clear" => pc = "thaw" /\ row.event = "DEL"
      /\ pc' = "wait" => pc = "ask"
  BY DEF Ask, Granted, Refused, Transfer, Thaw, GoesTo, At, Fails
<1>4. /\ pc' \in InHand => pc \in InHand
      /\ pc' \in Deletes => row.event = "DEL"
      /\ pc' \in {"cls", "transfer"} => row.event # "DEL"
      /\ Deletion' => Deletion
  BY <1>1, <1>2, <1>3 DEF RowStays, IInv, RowInHand, InHand, Deletes, Deletion
<1>5. RowInHand' /\ QueuedIsListed' /\ DeletionIsAlone'
  BY <1>2, <1>4, ThreadFrame DEF RowStays, InHand, rows, lists, others
<1>6. table' \in [Slots -> Params] /\ known' \subseteq Slots
  <2>1. CASE Transfer
    BY <1>1, <2>1 DEF Transfer, IInv, TypeOK
  <2>2. CASE Thaw
    BY <1>1, <2>2 DEF Thaw, IInv, TypeOK
  <2>3. CASE Ask \/ Granted \/ Refused
    BY <2>3 DEF Ask, Granted, Refused, cores, IInv, TypeOK
  <2> QED
    BY <2>1, <2>2, <2>3
<1>7. TypeOK'
  BY <1>2, <1>3, <1>6, RowIsARow DEF IInv, TypeOK, Places, rows, lists, others, sweep, filter
<1> QED
  BY <1>5, <1>7 DEF Core

(* A row that was synced keeps the bit QUEUED if it was submitted meanwhile.     *)
LEMMA SyncedStep ==
  ASSUME IInv, Synced
  PROVE  Core'
<1>1. /\ pc = "synced" /\ row.slot \in Slots /\ pc' \in {"dip", "walk"}
      /\ status' = [status EXCEPT ![row.slot] = Updated(status[row.slot])]
      /\ UNCHANGED <<used, cache, params, dev, tcls, lists, cores, others, node>>
      /\ RowStays
  BY DEF RowStays, IInv, RowInHand, InHand, Synced, At, GoesTo
<1>2. /\ status[row.slot] \in SUBSET Bits /\ status' \in [Slots -> SUBSET Bits]
      /\ \A s \in Slots : /\ "QUEUED" \in status'[s] <=> "QUEUED" \in status[s]
                          /\ "DELETING" \in status'[s] <=> "DELETING" \in status[s]
  BY <1>1, BitsOfARow DEF IInv, TypeOK
<1>3. used \subseteq Slots /\ submitted \subseteq Slots /\ pending \subseteq Slots
  BY DEF IInv, TypeOK
<1>4. TypeOK'
  BY <1>1, <1>2, RowIsARow DEF IInv, TypeOK, Places, lists, cores, others, sweep, filter
<1>5. RowInHand' /\ QueuedIsListed'
  BY <1>1, <1>2, <1>3
     DEF RowStays, IInv, RowInHand, InHand, Deletes, QueuedIsListed, Spared, lists, others
<1>6. Ending' => Ending
  BY <1>1, <1>2, <1>3 DEF Ending
<1>7. DeletionIsAlone'
  BY <1>1, <1>6 DEF IInv, DeletionIsAlone, Deletes, Spared, cores, others
<1> QED
  BY <1>4, <1>5, <1>7 DEF Core

(* The row that is free is on no list, since nobody has queued it meanwhile.     *)
LEMMA FreeStep ==
  ASSUME IInv, Free
  PROVE  Core'
<1>1. /\ pc = "free" /\ row.slot \in Slots /\ row.event = "DEL"
      /\ UNCHANGED <<cache, params, dev, lists, cores, others, node>>
      /\ RowStays
      /\ pc' \in {"walk", "oops"}
  BY DEF RowStays, IInv, RowInHand, InHand, Deletes, Free, At, GoesTo
<1>2. \/ UNCHANGED <<tcls, used, status>>
      \/ /\ tcls' = tcls \ {row.slot} /\ used' = used \ {row.slot}
         /\ status' = [status EXCEPT ![row.slot] = {"UNINIT"}]
  BY DEF Free
<1>3. TypeOK'
  <2>1. /\ status' \in [Slots -> SUBSET Bits] /\ tcls' \subseteq Slots
        /\ used' \subseteq Slots
    BY <1>1, <1>2 DEF IInv, TypeOK, Bits
  <2> QED
    BY <1>1, <2>1, RowIsARow DEF IInv, TypeOK, Places, lists, cores, others, sweep, filter
<1>4. used \subseteq Slots /\ submitted \subseteq Slots /\ pending \subseteq Slots
      /\ status \in [Slots -> SUBSET Bits]
  BY DEF IInv, TypeOK
<1>5. RowInHand'
  BY <1>1 DEF RowInHand, InHand, Deletes
<1>6. QueuedIsListed'
  <2> SUFFICES ASSUME Spared({"end"})
               PROVE  QueuedIsListed'
    BY <1>1 DEF QueuedIsListed, Spared, others
  <2>1. "QUEUED" \notin status[row.slot]
    BY <1>1 DEF IInv, DeletionIsAlone, Deletes
  <2>2. Spared({"flight"}) => row.slot \notin submitted \cup pending
    BY <1>1, <2>1 DEF IInv, QueuedIsListed
  <2>3. Spared({"flight"})' <=> Spared({"flight"})
    BY <1>1 DEF Spared, others
  <2> QED
    BY <1>1, <1>2, <1>4, <2>1, <2>2, <2>3 DEF IInv, QueuedIsListed, lists
<1>7. Ending' => Ending
  BY <1>1, <1>2, <1>4 DEF Ending
<1>8. DeletionIsAlone'
  BY <1>1, <1>7 DEF IInv, DeletionIsAlone, Deletes, Spared, cores, others
<1> QED
  BY <1>3, <1>5, <1>6, <1>8 DEF Core

(* Every step of tnl_sync_task keeps the invariant.                              *)
LEMMA ThreadStep ==
  ASSUME IInv, Thread
  PROVE  Core'
BY CheckStep, WalkStep, TakeRowStep, EngineStep, StallStep, SyncedStep, FreeStep
   DEF Thread

--------------------------------------------------------------------------------
(* The machine                                                                  *)

(* Before the cores go down, while they are down and until they are up again no  *)
(* row ends, so that the thread deletes none.                                   *)
LEMMA NoneEnds ==
  ASSUME IInv, Spared({"end"}), broken \/ mcu \notin {"up", "frozen"}
  PROVE  ~Ending /\ ~Deletion
BY DEF IInv, DeletionIsAlone, Deletion, Ending

(* A failure and the reset of the cores leave the lists alone.                   *)
LEMMA BreaksStep ==
  ASSUME IInv, Breaks \/ PowerOff \/ Boots
  PROVE  Core'
<1>1. /\ UNCHANGED <<rows, lists, thread, others>>
      /\ alive' \in BOOLEAN /\ broken' \in BOOLEAN
      /\ mcu' = mcu \/ mcu' \in {"off", "booted"}
  BY DEF Breaks, PowerOff, Boots, IInv, TypeOK
<1>2. faults' \in 0 .. MaxFaults
  BY BoundsAssumption DEF Breaks, PowerOff, Boots, IInv, TypeOK
<1>3. table' \in [Slots -> Params] /\ known' \subseteq Slots
  <2>1. NoParams \in Params
    BY DEF NoParams, Params
  <2>2. UNCHANGED <<table, known>> \/ (table' = [s \in Slots |-> NoParams] /\ known' = {})
    BY DEF Breaks, PowerOff, Boots
  <2> QED
    BY <2>1, <2>2 DEF IInv, TypeOK
<1>4. TypeOK'
  BY <1>1, <1>2, <1>3 DEF IInv, TypeOK, rows, lists, thread, others, sweep, filter
<1>5. RowInHand' /\ QueuedIsListed'
  BY <1>1 DEF IInv, RowInHand, QueuedIsListed, Spared, rows, lists, thread, others
<1>6. DeletionIsAlone'
  <2> SUFFICES ASSUME Spared({"end"})
               PROVE  DeletionIsAlone'
    BY <1>1 DEF DeletionIsAlone, Spared, others
  <2>1. ~Ending /\ ~Deletion
    <3>1. CASE Breaks
      <4>1. ~Ending
        BY <3>1 DEF Breaks, Unless, Spared
      <4> QED
        BY <4>1 DEF IInv, DeletionIsAlone, Deletion, Ending
    <3>2. CASE PowerOff \/ Boots
      BY <3>2, NoneEnds DEF PowerOff, Boots
    <3> QED
      BY <3>1, <3>2
  <2> QED
    BY <1>1, <2>1 DEF DeletionIsAlone, Deletion, Ending, rows, thread
<1> QED
  BY <1>4, <1>5, <1>6 DEF Core

(* The flush and the recovery begin with all rows in use, which stay as they are. *)
LEMMA GoDownStep ==
  ASSUME IInv, GoDown \/ ComeUp
  PROVE  Core'
<1>1. /\ broken \/ mcu = "booted"
      /\ mcu' \in {"stopping", "stopped", "starting", "up"} /\ broken' \in BOOLEAN
      /\ alive' \in BOOLEAN /\ todo' = used
      /\ UNCHANGED <<rows, lists, thread, table, known, faults, filter, zeroed, disorder>>
  BY DEF GoDown, ComeUp, IInv, TypeOK
<1>2. TypeOK'
  BY <1>1 DEF IInv, TypeOK, rows, lists, thread, filter
<1>3. RowInHand' /\ QueuedIsListed'
  BY <1>1 DEF IInv, RowInHand, QueuedIsListed, Spared, rows, lists, thread
<1>4. DeletionIsAlone'
  <2> SUFFICES ASSUME Spared({"end"})
               PROVE  DeletionIsAlone'
    BY <1>1 DEF DeletionIsAlone, Spared
  <2>1. ~Ending /\ ~Deletion
    BY <1>1, NoneEnds
  <2> QED
    BY <1>1, <2>1 DEF DeletionIsAlone, Deletion, Ending, rows, thread
<1> QED
  BY <1>2, <1>3, <1>4 DEF Core

(* The copy of a row is zeroed; its bits stay.                                   *)
LEMMA FlushParamsStep ==
  ASSUME IInv, FlushParams
  PROVE  Core'
<1>1. PICK s \in todo : params' = [params EXCEPT ![s] = NoParams] /\ zeroed' = s /\ todo' = todo \ {s}
  BY DEF FlushParams
<1>2. UNCHANGED <<used, status, cache, dev, tcls, lists, thread, cores, filter, disorder>>
  BY DEF FlushParams
<1>3. NoParams \in Params /\ s \in Slots
  BY DEF NoParams, Params, IInv, TypeOK
<1>4. TypeOK'
  BY <1>1, <1>2, <1>3 DEF IInv, TypeOK, lists, thread, cores, filter
<1>5. RowInHand' /\ QueuedIsListed' /\ DeletionIsAlone'
  BY <1>2
     DEF IInv, RowInHand, QueuedIsListed, DeletionIsAlone, Ending, Spared, lists, thread, cores
<1> QED
  BY <1>4, <1>5 DEF Core

(* A list that the flush alone changes loses the row, and no other row.          *)
LEMMA TornLists ==
  ASSUME NEW list, NEW changes
  PROVE  /\ \A rest \in Torn(list, changes) : rest \subseteq list
         /\ Spared({"flight"}) => Torn(list, changes) = {list \ {zeroed}}
BY DEF Torn, Unless, Spared

(* The row is taken off its list and its bits are cleared.                       *)
LEMMA FlushRowStep ==
  ASSUME IInv, FlushRow
  PROVE  Core'
<1>1. /\ mcu = "stopping" /\ zeroed # Nobody /\ zeroed' = Nobody
      /\ mcu' \in {"stopping", "stopped"}
      /\ status' = [status EXCEPT ![zeroed] = {"INIT"}]
      /\ submitted' \subseteq submitted /\ pending' \subseteq pending
      /\ Spared({"flight"}) => submitted' = submitted \ {zeroed} /\ pending' = pending \ {zeroed}
      /\ UNCHANGED <<used, cache, params, dev, tcls, toSync, thread>>
      /\ UNCHANGED <<alive, broken, table, known, faults, filter, todo, disorder>>
  BY TornLists DEF FlushRow
<1>2. PICK fresh \in SUBSET Bits : fresh = {"INIT"}
  BY DEF Bits
<1>3. /\ zeroed \in Slots /\ status' \in [Slots -> SUBSET Bits]
      /\ status'[zeroed] = {"INIT"} /\ \A s \in Slots \ {zeroed} : status'[s] = status[s]
  <2>1. zeroed \in Slots /\ status \in [Slots -> SUBSET Bits]
    BY <1>1 DEF IInv, TypeOK
  <2>2. status' = [status EXCEPT ![zeroed] = fresh]
    BY <1>1, <1>2
  <2> QED
    BY <1>2, <2>1, <2>2
<1>4. TypeOK'
  BY <1>1, <1>3 DEF IInv, TypeOK, thread, filter
<1>5. RowInHand'
  BY <1>1 DEF IInv, RowInHand, thread
<1>6. QueuedIsListed'
  BY <1>1, <1>3 DEF IInv, QueuedIsListed, Spared
<1>7. ASSUME Spared({"end"})
      PROVE  ~Ending' /\ ~Deletion'
  <2>1. ~Ending /\ ~Deletion
    BY <1>1, <1>7, NoneEnds
  <2>2. used \subseteq Slots
    BY DEF IInv, TypeOK
  <2> QED
    BY <1>1, <1>3, <2>1, <2>2 DEF Ending, Deletion, thread
<1>8. DeletionIsAlone'
  BY <1>1, <1>7 DEF DeletionIsAlone, Deletion, Spared
<1> QED
  BY <1>4, <1>5, <1>6, <1>8 DEF Core

(* mtk_tops_tnl_offload_recover submits a row that is not submitted yet.         *)
LEMMA RecoverRowStep ==
  ASSUME IInv, RecoverRow
  PROVE  Core'
<1>1. PICK s \in todo : Submit(s, status[s]) /\ todo' = todo \ {s}
  BY DEF RecoverRow
<1>2. /\ mcu = "starting" /\ mcu' \in {"starting", "up"}
      /\ UNCHANGED <<used, cache, params, dev, tcls, alive, broken, table, known, faults>>
      /\ UNCHANGED <<filter, zeroed, disorder>>
  BY DEF RecoverRow
<1>3. s \in used /\ s \in Slots /\ status[s] \in SUBSET Bits /\ used' = used \cup {s}
  BY <1>1, <1>2 DEF IInv, SweepFacts, TypeOK
<1>4. /\ status' \in [Slots -> SUBSET Bits]
      /\ \A r \in Slots \ {s} : status'[r] = status[r]
      /\ "QUEUED" \in status'[s] /\ ("DELETING" \in status'[s] <=> "DELETING" \in status[s])
      /\ submitted' = IF "QUEUED" \in status[s] THEN submitted ELSE submitted \cup {s}
      /\ pending' = pending /\ node' = node /\ row' = row /\ toSync' \in BOOLEAN
      /\ pc' = pc \/ pc' \in {"astray", "check"}
  BY <1>1, <1>3, SubmitFacts DEF IInv
<1>5. used \subseteq Slots /\ submitted \subseteq Slots /\ pending \subseteq Slots
  BY DEF IInv, TypeOK
<1>6. TypeOK'
  BY <1>1, <1>2, <1>3, <1>4 DEF IInv, TypeOK, Places, filter
<1>7. RowInHand'
  BY <1>4 DEF IInv, RowInHand, InHand, Deletes
<1>8. QueuedIsListed'
  <2>1. /\ Spared({"end"})' <=> Spared({"end"})
        /\ Spared({"flight"})' <=> Spared({"flight"})
    BY <1>2 DEF Spared
  <2> QED
    BY <1>2, <1>3, <1>4, <1>5, <2>1 DEF IInv, QueuedIsListed
<1>9. ASSUME Spared({"end"})
      PROVE  ~Ending' /\ ~Deletion'
  <2>1. ~Ending /\ ~Deletion
    BY <1>2, <1>9, NoneEnds
  <2> QED
    BY <1>2, <1>3, <1>4, <1>5, <2>1 DEF Ending, Deletion, Deletes
<1>10. DeletionIsAlone'
  BY <1>2, <1>9 DEF DeletionIsAlone, Deletion, Spared
<1> QED
  BY <1>6, <1>7, <1>8, <1>10 DEF Core

--------------------------------------------------------------------------------
(* The flush and the recovery, row by row                                       *)

(* The steps that leave the rows in use and the sweep alone keep SweepFacts, if  *)
(* the thread works on no row while the cores are flushed.                       *)
LEMMA SweepFrame ==
  ASSUME SweepFacts, UNCHANGED <<todo, zeroed, disorder, mcu>>,
         used \subseteq used' \/ mcu \notin {"stopping", "starting"},
         Spared({"flight"}) /\ mcu = "stopping" =>
           /\ UNCHANGED params
           /\ \/ pc' = pc /\ node' = node
              \/ pc' \in {"sleep", "check"}
              \/ pc' \in {"walk", "oops"} /\ node' = Nobody,
         pc' \in {"transfer", "thaw"} => mcu = "frozen"
  PROVE  SweepFacts'
<1>1. Spared({"flight"})' <=> Spared({"flight"})
  BY DEF Spared
<1> QED
  BY <1>1 DEF SweepFacts

(* The network takes rows and wakes the thread; while the cores are flushed only *)
(* an L2 update submits one.                                                     *)
LEMMA NetworkSweeps ==
  ASSUME IInv, Network
  PROVE  SweepFacts'
<1>1. ASSUME NEW s \in Slots, NEW bits \in SUBSET Bits,
             Submit(s, bits) \/ UNCHANGED <<lists, thread>>
      PROVE  (pc' = pc \/ pc' \in {"astray", "check"}) /\ node' = node
  BY <1>1, SubmitFacts DEF IInv, thread
<1>2. /\ (pc' = pc \/ pc' \in {"astray", "check"}) /\ node' = node
      /\ used \subseteq used' /\ UNCHANGED <<cores, others>>
      /\ Spared({"flight"}) => mcu # "stopping"
  <2>0. /\ used \subseteq Slots /\ status \in [Slots -> SUBSET Bits] /\ {"INIT"} \in SUBSET Bits
    BY DEF IInv, TypeOK, Bits
  <2>1. CASE \E t \in Tunnels, dir \in {"decap", "encap"}, mac \in Macs : Packet(t, dir, mac)
    <3>1. PICK t \in Tunnels, dir \in {"decap", "encap"}, mac \in Macs, s \in used :
            /\ TableFree /\ Setup(s, status[s], cache[s].flag, t, dir, mac)
            /\ UNCHANGED <<used, params>>
      BY <2>1 DEF Packet
    <3>2. PICK bits \in SUBSET Bits : bits = status[s]
      BY <2>0, <3>1
    <3>3. Submit(s, bits) \/ UNCHANGED <<lists, thread>>
      BY <3>1, <3>2 DEF Setup
    <3> QED
      BY <1>1, <2>0, <3>1, <3>3 DEF TableFree, Setup
  <2>2. CASE \E t \in Tunnels, dir \in {"decap", "encap"}, mac \in Macs :
               FirstPacket(t, dir, mac)
    <3>1. PICK t \in Tunnels, dir \in {"decap", "encap"}, mac \in Macs, s \in Slots \ used :
            used' = used \cup {s} /\ Setup(s, {"INIT"}, {}, t, dir, mac)
      BY <2>2 DEF FirstPacket
    <3>2. PICK bits \in SUBSET Bits : bits = {"INIT"}
      BY <2>0
    <3>3. Submit(s, bits) \/ UNCHANGED <<lists, thread>>
      BY <3>1, <3>2 DEF Setup
    <3> QED
      BY <1>1, <2>0, <2>2, <3>1, <3>3 DEF FirstPacket, TableFree, Setup
  <2>3. CASE \E s \in Slots, mac \in Macs : L2Update(s, mac)
    <3>1. PICK s \in Slots, mac \in Macs : L2Update(s, mac)
      BY <2>3
    <3>2. status[s] \in SUBSET Bits /\ Submit(s, status[s])
      BY <2>0, <3>1 DEF L2Update
    <3> QED
      BY <1>1, <3>1, <3>2 DEF L2Update, Unless, Spared
  <2>4. CASE \E t \in Tunnels : NetdevDown(t)
    <3>1. PICK t \in Tunnels, s \in used :
            /\ TableFree /\ Submit(s, status[s] \cup {"DELETING"})
            /\ UNCHANGED <<used, cores, others>>
      BY <2>4 DEF NetdevDown
    <3>2. s \in Slots /\ status[s] \cup {"DELETING"} \in SUBSET Bits
      BY <2>0, <3>1 DEF Bits
    <3> QED
      BY <1>1, <3>1, <3>2 DEF TableFree
  <2> QED
    BY <2>1, <2>2, <2>3, <2>4 DEF Network
<1>3. pc' \in {"transfer", "thaw"} => mcu = "frozen"
  BY <1>2 DEF IInv, SweepFacts
<1> QED
  BY <1>2, <1>3, SweepFrame DEF IInv, cores, others, sweep

(* The thread takes no row then, unless it does so in the middle of the flush.   *)
LEMMA ThreadSweeps ==
  ASSUME IInv, Thread
  PROVE  SweepFacts'
<1>0. /\ Spared({"flight"}) /\ mcu = "stopping" =>
           pc \in {"sleep", "check"} \/ (pc \in {"walk", "undo", "oops"} /\ node = Nobody)
      /\ pc \in {"transfer", "thaw"} => mcu = "frozen"
      /\ todo # {} \/ zeroed # Nobody => mcu \in {"stopping", "starting"}
  BY DEF IInv, SweepFacts
<1>1. CASE TakeRow
  <2>1. /\ pc = "walk" /\ node \in Slots /\ pc' \in {"undip", "cls", "ask"}
        /\ UNCHANGED <<used, mcu, disorder>>
        /\ \/ UNCHANGED <<todo, zeroed>>
           \/ /\ mcu = "stopping" /\ node \in todo /\ zeroed = Nobody
              /\ todo' = todo \ {node} /\ zeroed' = node
    BY <1>1 DEF TakeRow, At, Leaves, ZeroedMeanwhile, sweep, cores
  <2>2. ~(Spared({"flight"})' /\ mcu = "stopping")
    BY <1>0, <2>1, SetsAssumption DEF Spared
  <2> QED
    BY <2>1, <2>2 DEF IInv, SweepFacts
<1>2. CASE Granted \/ Thaw
  <2>1. /\ mcu \in {"up", "frozen"} /\ mcu' \in {"up", "frozen"}
        /\ pc' \in {"transfer", "thaw"} => mcu' = "frozen"
        /\ UNCHANGED <<used, todo, zeroed, disorder>>
    BY <1>0, <1>2 DEF Granted, Thaw, At, GoesTo, Fails, rows, others, sweep
  <2> QED
    BY <2>1 DEF IInv, SweepFacts
<1>3. CASE Free
  <2>1. /\ mcu \notin {"stopping", "starting"} /\ pc' \in {"walk", "oops"}
        /\ UNCHANGED <<mcu, todo, zeroed, disorder>>
    BY <1>3 DEF Free, TableFree, GoesTo, cores, others, sweep
  <2> QED
    BY <2>1, SweepFrame DEF IInv
<1>4. CASE Check \/ WalkEnds \/ GoesAstray \/ PutOff \/ Passes \/ Undo
  <2>1. /\ UNCHANGED <<used, params, mcu, todo, zeroed, disorder>>
        /\ pc' \in {"sleep", "walk", "check", "astray", "oops"}
    BY <1>4 DEF Check, WalkEnds, GoesAstray, PutOff, Passes, Undo, GoesTo, Leaves, rows, cores,
                others, sweep
  <2>2. Spared({"flight"}) /\ mcu = "stopping" =>
          pc' \in {"sleep", "check"} \/ (pc' \in {"walk", "oops"} /\ node' = Nobody)
    BY <1>0, <1>4, SetsAssumption
       DEF Check, WalkEnds, GoesAstray, PutOff, Passes, Undo, At, GoesTo, Leaves, Unless, Spared
  <2> QED
    BY <2>1, <2>2, SweepFrame DEF IInv
<1>5. CASE \/ SetUpCls \/ Ask \/ Refused \/ Transfer \/ Synced \/ SetUpDip
           \/ TearDownDip \/ ClearRow \/ EraseRow
  <2>1. /\ UNCHANGED <<used, mcu, todo, zeroed, disorder>>
        /\ pc \in InHand \ {"undo"} /\ (pc' = "thaw" => pc = "transfer") /\ pc' # "transfer"
    <3>1. CASE SetUpCls \/ Ask \/ Refused \/ Transfer \/ Synced
      BY <3>1 DEF SetUpCls, Ask, Refused, Transfer, Synced, At, GoesTo, Fails, InHand, rows,
                  cores, others, sweep
    <3>2. CASE SetUpDip \/ TearDownDip \/ ClearRow \/ EraseRow
      BY <3>2 DEF SetUpDip, TearDownDip, ClearRow, EraseRow, At, GoesTo, InHand, rows, cores,
                  others, sweep
    <3> QED
      BY <1>5, <3>1, <3>2
  <2>2. ~(Spared({"flight"}) /\ mcu = "stopping")
    BY <1>0, <2>1 DEF InHand
  <2> QED
    BY <1>0, <2>1, <2>2, SweepFrame DEF IInv
<1> QED
  BY <1>1, <1>2, <1>3, <1>4, <1>5 DEF Thread

(* The machine begins a sweep with the rows in use, and comes to one at a time.  *)
LEMMA RecoverySweeps ==
  ASSUME IInv, Breaks \/ Recovery
  PROVE  SweepFacts'
<1>0. used \subseteq Slots /\ disorder' = disorder /\ (Spared({"flight"})' <=> Spared({"flight"}))
  <2>1. disorder' = disorder
    BY DEF Breaks, Recovery, GoDown, FlushParams, FlushRow, PowerOff, Boots, ComeUp, RecoverRow,
           others
  <2> QED
    BY <2>1 DEF IInv, TypeOK, Spared
<1>1. CASE Breaks \/ PowerOff \/ Boots
  <2>1. /\ UNCHANGED <<used, params, todo, zeroed, pc, node>>
        /\ mcu' = mcu \/ (mcu \in {"stopped", "off"} /\ mcu' \in {"off", "booted"})
    BY <1>1 DEF Breaks, PowerOff, Boots, rows, thread, others, sweep
  <2> QED
    BY <1>0, <2>1 DEF IInv, SweepFacts
<1>2. CASE GoDown
  <2>1. /\ mcu \in {"up", "booted"} /\ todo' = used
        /\ mcu' = IF used = {} THEN "stopped" ELSE "stopping"
        /\ UNCHANGED <<used, zeroed, pc, node>>
        /\ Spared({"flight"}) => Quiet
    BY <1>2 DEF GoDown, Unless, Spared, rows, thread
  <2> QED
    BY <1>0, <2>1 DEF IInv, SweepFacts, Quiet
<1>3. CASE FlushParams
  <2>1. PICK s \in todo :
          params' = [params EXCEPT ![s] = NoParams] /\ zeroed' = s /\ todo' = todo \ {s}
    BY <1>3 DEF FlushParams
  <2>2. s \in used /\ params'[s] = NoParams
    BY <1>0, <2>1 DEF IInv, SweepFacts, TypeOK
  <2>3. mcu = "stopping" /\ UNCHANGED <<used, mcu, pc, node>>
    BY <1>3 DEF FlushParams, thread, cores
  <2> QED
    BY <1>0, <2>1, <2>2, <2>3 DEF IInv, SweepFacts
<1>4. CASE FlushRow
  BY <1>0, <1>4 DEF IInv, SweepFacts, FlushRow, thread
<1>5. CASE ComeUp
  <2>1. /\ mcu = "booted" /\ todo' = used /\ UNCHANGED <<used, zeroed, pc>>
        /\ mcu' = IF used = {} THEN "up" ELSE "starting"
    BY <1>5 DEF ComeUp, rows, thread
  <2> QED
    BY <1>0, <2>1 DEF IInv, SweepFacts
<1>6. CASE RecoverRow
  <2>1. PICK s \in todo : Submit(s, status[s]) /\ todo' = todo \ {s}
    BY <1>6 DEF RecoverRow
  <2>2. status[s] \in SUBSET Bits /\ s \in Slots
    BY <1>0, <2>1 DEF IInv, SweepFacts, TypeOK
  <2>3. pc' = pc \/ pc' \in {"astray", "check"}
    BY <2>1, <2>2, SubmitFacts DEF IInv
  <2>4. /\ mcu = "starting" /\ mcu' = IF todo' = {} THEN "up" ELSE mcu
        /\ UNCHANGED <<used, zeroed>>
    BY <1>6 DEF RecoverRow
  <2> QED
    BY <1>0, <2>1, <2>3, <2>4 DEF IInv, SweepFacts
<1> QED
  BY <1>1, <1>2, <1>3, <1>4, <1>5, <1>6 DEF Recovery

--------------------------------------------------------------------------------
(* The machine and the thread begin with no row.                                *)
LEMMA Initial ==
  ASSUME Init
  PROVE  IInv
<1>1. NoParams \in Params /\ {"UNINIT"} \in SUBSET Bits
  BY DEF NoParams, Params, Bits
<1>2. PICK bits \in SUBSET Bits : bits = {"UNINIT"}
  BY <1>1
<1>3. status = [s \in Slots |-> bits]
  BY <1>2 DEF Init
<1>4. TypeOK
  <2>1. /\ status \in [Slots -> SUBSET Bits]
        /\ cache \in [Slots -> Params] /\ params \in [Slots -> Params]
        /\ table \in [Slots -> Params] /\ dev \in [Slots -> Tunnels \cup {Nobody}]
    BY <1>1, <1>3 DEF Init
  <2>2. /\ used \subseteq Slots /\ tcls \subseteq Slots /\ known \subseteq Slots
        /\ submitted \subseteq Slots /\ pending \subseteq Slots
        /\ toSync \in BOOLEAN /\ alive \in BOOLEAN /\ broken \in BOOLEAN
        /\ mcu \in {"up", "frozen", "stopping", "stopped", "off", "booted", "starting"}
        /\ todo \subseteq Slots /\ zeroed \in Slots \cup {Nobody}
    BY DEF Init
  <2>3. /\ pc \in Places /\ node \in Slots \cup {Nobody}
        /\ row \in [slot : Slots \cup {Nobody}, event : {"none", "NEW", "DEL", "UPDATE"},
                    pce : BOOLEAN]
    BY DEF Init, Places, NoRow
  <2>4. faults \in 0 .. MaxFaults
    BY BoundsAssumption DEF Init
  <2>5. refs \in [Addresses -> Nat] /\ dipLock \in BOOLEAN
    BY DEF Init, InitFilter
  <2> QED
    BY <2>1, <2>2, <2>3, <2>4, <2>5 DEF TypeOK
<1>5. RowInHand /\ QueuedIsListed /\ DeletionIsAlone
  BY <1>2, <1>3
     DEF Init, RowInHand, InHand, Deletes, QueuedIsListed, DeletionIsAlone, Ending, NoRow
<1>6. SweepFacts
  BY DEF Init, SweepFacts
<1> QED
  BY <1>4, <1>5, <1>6 DEF IInv

(* Every step keeps the invariant.                                               *)
LEMMA Step ==
  ASSUME IInv, [Next]_vars
  PROVE  IInv'
<1>1. CASE Next
  <2>1. Core'
    BY <1>1, NetworkStep, ThreadStep, BreaksStep, GoDownStep, FlushParamsStep, FlushRowStep,
       RecoverRowStep
       DEF Next, Recovery
  <2>2. SweepFacts'
    BY <1>1, NetworkSweeps, ThreadSweeps, RecoverySweeps DEF Next
  <2> QED
    BY <2>1, <2>2 DEF IInv, Core
<1>2. CASE UNCHANGED vars
  <2>1. UNCHANGED <<rows, lists, thread, cores, others>>
    BY <1>2 DEF vars
  <2>2. TypeOK'
    BY <2>1 DEF IInv, TypeOK, rows, lists, thread, cores, others, sweep, filter
  <2>3. RowInHand' /\ QueuedIsListed' /\ DeletionIsAlone'
    BY <2>1
       DEF IInv, RowInHand, QueuedIsListed, DeletionIsAlone, Ending, Spared, rows,
           lists, thread, cores, others
  <2>4. SweepFacts'
    BY <2>1 DEF IInv, SweepFacts, Spared, rows, thread, cores, others, sweep
  <2> QED
    BY <2>2, <2>3, <2>4 DEF IInv
<1> QED
  BY <1>1, <1>2

(* The inductive invariant of tnl_sync_task, the network's calls, the flush row   *)
(* by row and the recovery.  Its parts name the disorders they do not survive:   *)
(* the lists may be torn and a row taken half zeroed in the middle of a flush.   *)
THEOREM Invariance == Spec => []IInv
<1>1. Init => IInv
  BY Initial
<1>2. IInv /\ [Next]_vars => IInv'
  BY Step
<1> QED
  BY <1>1, <1>2, PTL DEF Spec

(* The fields of the rows, the lists and the thread hold what they are meant to, *)
(* for every disorder.                                                          *)
THEOREM TypeCorrect == Spec => []TypeOK
<1>1. IInv => TypeOK
  BY DEF IInv
<1> QED
  BY <1>1, Invariance, PTL

(* Unless devices end at the wrong time only rows in use are QUEUED.  A row is on *)
(* one list at most, and exactly while it is QUEUED, if besides no row is taken  *)
(* or submitted in the middle of the flush, which takes rows off the lists with  *)
(* none of their locks but the row's: mtk_tops_tnl_info_submit_no_tnl_lock, the  *)
(* thread's walk, mtk_tops_tnl_offload_flush and mtk_tops_tnl_offload_recover    *)
(* keep the bit and the lists together.                                         *)
THEOREM RowsStayOnOneList == Spec => []QueuedIsListed
<1>1. IInv => QueuedIsListed
  BY DEF IInv
<1> QED
  BY <1>1, Invariance, PTL

--------------------------------------------------------------------------------
(* Why the thread is safe                                                       *)

(* What SafeInv adds to IInv                                                    *)
Safe == NodeIsPending /\ RowIsKept /\ RowHasClassifier /\ FilterIsFree

(* A claim that spares more disorders is made in fewer behaviours.              *)
LEMMA SparedMore ==
  /\ Spared({"flight", "end", "encap"}) => Spared({"flight", "end"}) /\ Spared({"encap"})
  /\ Spared({"flight", "end"}) => Spared({"flight"}) /\ Spared({"end"})
  /\ Spared({"end", "pce"}) => Spared({"end"}) /\ Spared({"pce"})
BY DEF Spared

(* The disorders of a behaviour are the same in all its states.                 *)
LEMMA NetworkKeepsDisorder ==
  ASSUME Network PROVE disorder' = disorder
<1>1. CASE \E t \in Tunnels, dir \in {"decap", "encap"}, mac \in Macs : Packet(t, dir, mac)
  BY <1>1 DEF Packet, Setup, others
<1>2. CASE \E t \in Tunnels, dir \in {"decap", "encap"}, mac \in Macs :
             FirstPacket(t, dir, mac)
  BY <1>2 DEF FirstPacket, Setup, others
<1>3. CASE \E s \in Slots, mac \in Macs : L2Update(s, mac)
  BY <1>3 DEF L2Update, others
<1>4. CASE \E t \in Tunnels : NetdevDown(t)
  BY <1>4 DEF NetdevDown, others
<1> QED
  BY <1>1, <1>2, <1>3, <1>4 DEF Network

LEMMA DisorderIsKept ==
  ASSUME [Next]_vars PROVE disorder' = disorder
<1>1. CASE Thread
  <2>1. CASE Check \/ WalkEnds \/ GoesAstray \/ PutOff \/ Passes \/ TakeRow \/ SetUpCls
    BY <2>1 DEF Check, WalkEnds, GoesAstray, PutOff, Passes, TakeRow, SetUpCls, others
  <2>2. CASE Ask \/ Granted \/ Refused \/ Transfer \/ Thaw \/ Synced \/ SetUpDip
    BY <2>2 DEF Ask, Granted, Refused, Transfer, Thaw, Synced, SetUpDip, others
  <2>3. CASE Undo \/ TearDownDip \/ ClearRow \/ EraseRow \/ Free
    BY <2>3 DEF Undo, TearDownDip, ClearRow, EraseRow, Free, others
  <2> QED
    BY <1>1, <2>1, <2>2, <2>3 DEF Thread
<1>2. CASE Breaks \/ Recovery
  BY <1>2 DEF Breaks, Recovery, GoDown, FlushParams, FlushRow, PowerOff, Boots, ComeUp,
              RecoverRow, others
<1>3. CASE UNCHANGED vars
  BY <1>3 DEF vars, others
<1> QED
  BY <1>1, <1>2, <1>3, NetworkKeepsDisorder DEF Next

(* So a disorder that a claim spares is spared in all of them.                  *)
LEMMA SparedStill ==
  ASSUME disorder' = disorder
  PROVE  /\ Spared({"end"})' <=> Spared({"end"})
         /\ Spared({"pce"})' <=> Spared({"pce"})
         /\ Spared({"flight"})' <=> Spared({"flight"})
         /\ Spared({"flight", "end"})' <=> Spared({"flight", "end"})
         /\ Spared({"flight", "end", "encap"})' <=> Spared({"flight", "end", "encap"})
BY DEF Spared

(* A step that leaves the rows and the filter alone, and the row in hand in hand *)
LEMMA HandFrame ==
  ASSUME SafeInv, UNCHANGED <<used, status, cache, params, tcls, refs, dipLock>>,
         UNCHANGED <<zeroed, disorder>>, row' = row \/ pc' \notin InHand,
         \/ pc' = pc
         \/ pc' \in {"sleep", "check", "walk", "astray"}
         \/ /\ pc \in InHand \ {"dip", "undo"} /\ pc' \in InHand \ {"dip", "undip", "cls"}
            /\ pc = "cls" => row.slot \in tcls
            /\ pc' \in {"synced", "undo"} => row.event # "DEL"
            /\ row.event # "DEL" => pc \in Writes
  PROVE  RowIsKept' /\ RowHasClassifier' /\ FilterIsFree'
<1>1. RowIsKept'
  BY SparedStill DEF SafeInv, RowIsKept, InHand, Writes
<1>2. RowHasClassifier'
  BY SparedStill DEF SafeInv, RowHasClassifier, InHand, Writes
<1>3. FilterIsFree'
  BY SparedStill DEF SafeInv, FilterIsFree, InHand
<1> QED
  BY <1>1, <1>2, <1>3

(* The walk: the entry it goes to next is the head or an entry of its list.     *)
LEMMA WalkSafe ==
  ASSUME SafeInv, Check \/ WalkEnds \/ GoesAstray \/ PutOff \/ Passes
  PROVE  Safe'
<1>1. UNCHANGED <<rows, others>> /\ pc' \in {"sleep", "check", "walk", "astray"}
  BY DEF Check, WalkEnds, GoesAstray, PutOff, Passes, GoesTo, Leaves
<1>2. RowIsKept' /\ RowHasClassifier' /\ FilterIsFree'
  BY <1>1, HandFrame DEF rows, others, sweep, filter, InHand
<1>3. NodeIsPending'
  <2> SUFFICES ASSUME Spared({"flight", "end"})
               PROVE  NodeIsPending'
    BY <1>1, SparedStill DEF NodeIsPending, others
  <2>1. node = Nobody \/ node \in pending
    BY DEF SafeInv, NodeIsPending
  <2>2. CASE Check
    BY <2>2 DEF SafeInv, NodeIsPending, Check, GoesTo, At, Heads, lists
  <2>3. CASE WalkEnds \/ GoesAstray
    BY <2>1, <2>3, SetsAssumption
       DEF NodeIsPending, WalkEnds, GoesAstray, GoesTo, Unless, Spared
  <2>4. CASE PutOff \/ Passes
    BY <2>4 DEF NodeIsPending, PutOff, Passes, Leaves, Heads
  <2> QED
    BY <2>2, <2>3, <2>4
<1> QED
  BY <1>2, <1>3 DEF Safe

(* The stall leaves the rows alone; only a row that is written goes to synced or *)
(* has its classifier entry undone.                                             *)
LEMMA StallSafe ==
  ASSUME SafeInv, Ask \/ Granted \/ Refused \/ Transfer \/ Thaw
  PROVE  Safe'
<1>1. /\ UNCHANGED <<rows, lists, others, node>>
      /\ RowStays
      /\ pc \in {"ask", "wait", "transfer", "thaw"}
      /\ pc' \in {"wait", "walk", "undo", "transfer", "thaw", "synced", "clear"}
      /\ pc' \in {"undo", "synced"} => row.event # "DEL"
  BY DEF RowStays, Ask, Granted, Refused, Transfer, Thaw, GoesTo, At, Fails
<1>2. RowIsKept' /\ RowHasClassifier' /\ FilterIsFree'
  BY <1>1, HandFrame DEF RowStays, rows, others, sweep, filter, InHand, Writes
<1>3. NodeIsPending'
  BY <1>1, SparedStill DEF SafeInv, NodeIsPending, lists, others
<1> QED
  BY <1>2, <1>3 DEF Safe

(* The row that is set up gets its classifier entry, or is left UPDATING.       *)
LEMMA SetUpClsSafe ==
  ASSUME SafeInv, SetUpCls
  PROVE  Safe'
<1>1. /\ UNCHANGED <<used, status, cache, params, lists, others, node>>
      /\ RowStays
      /\ pc = "cls" /\ row.slot \in Slots /\ row.event # "DEL"
      /\ \/ tcls' = tcls \cup {row.slot} /\ pc' = "ask"
         \/ tcls' = tcls /\ pc' = "walk"
  BY DEF RowStays, SafeInv, IInv, RowInHand, InHand, SetUpCls, At, GoesTo
<1>2. RowIsKept'
  BY <1>1, SparedStill DEF RowStays, SafeInv, RowIsKept, InHand, Writes, others
<1>3. RowHasClassifier'
  BY <1>1, SparedStill DEF RowStays, SafeInv, RowHasClassifier, InHand, Writes, others, sweep
<1>4. FilterIsFree' /\ NodeIsPending'
  BY <1>1, SparedStill
     DEF RowStays, SafeInv, FilterIsFree, NodeIsPending, InHand, others, lists, filter
<1> QED
  BY <1>2, <1>3, <1>4 DEF Safe

(* A row that failed to be written gives its classifier entry back.             *)
LEMMA UndoSafe ==
  ASSUME SafeInv, Undo
  PROVE  Safe'
<1>1. /\ UNCHANGED <<used, status, cache, params, lists, others, node>>
      /\ RowStays
      /\ pc = "undo" /\ row.slot \in Slots /\ tcls' = tcls \ {row.slot}
      /\ pc' = IF row.slot \in tcls THEN "walk" ELSE "oops"
  BY DEF RowStays, SafeInv, IInv, RowInHand, InHand, Undo, At, GoesTo
<1>2. RowIsKept' /\ FilterIsFree' /\ NodeIsPending'
  BY <1>1, SparedStill
     DEF SafeInv, RowIsKept, FilterIsFree, NodeIsPending, InHand, Writes, others, lists, filter
<1>3. RowHasClassifier'
  <2> SUFFICES ASSUME Spared({"flight", "end", "encap"})
               PROVE  RowHasClassifier'
    BY <1>1, SparedStill DEF RowHasClassifier, others, sweep
  <2>1. row.slot \in tcls
    BY <1>1 DEF SafeInv, RowHasClassifier, InHand
  <2>2. "UPDATED" \notin status[row.slot] /\ "DELETING" \notin status[row.slot]
    BY <1>1, SparedMore DEF SafeInv, RowIsKept, Writes
  <2>3. "UPDATING" \in status[row.slot] \/ ~Receives(params[row.slot])
    BY <1>1 DEF SafeInv, RowHasClassifier
  <2> QED
    BY <1>1, <2>1, <2>2, <2>3
       DEF SafeInv, RowHasClassifier, InHand, Writes, others, sweep
<1> QED
  BY <1>2, <1>3 DEF Safe

(* The row that was written is UPDATED; it receives and has its entry.          *)
LEMMA SyncedSafe ==
  ASSUME SafeInv, Synced
  PROVE  Safe'
<1>1. /\ pc = "synced" /\ row.slot \in Slots /\ pc' \in {"dip", "walk"}
      /\ status' = [status EXCEPT ![row.slot] = Updated(status[row.slot])]
      /\ UNCHANGED <<used, cache, params, tcls, lists, others, node>>
      /\ RowStays
  BY DEF RowStays, SafeInv, IInv, RowInHand, InHand, Synced, At, GoesTo
<1>2. /\ \A s \in Slots \ {row.slot} : status'[s] = status[s]
      /\ "DELETING" \in status'[row.slot] <=> "DELETING" \in status[row.slot]
      /\ "QUEUED" \in status'[row.slot] <=> "QUEUED" \in status[row.slot]
      /\ "INIT" \notin status'[row.slot]
  BY <1>1 DEF Updated, SafeInv, IInv, TypeOK
<1>3. RowIsKept'
  BY <1>1, <1>2, SparedStill DEF RowStays, SafeInv, RowIsKept, InHand, Writes, others
<1>4. RowHasClassifier'
  <2> SUFFICES ASSUME Spared({"flight", "end", "encap"})
               PROVE  RowHasClassifier'
    BY <1>1, SparedStill DEF RowHasClassifier, others, sweep
  <2>1. row.slot \in tcls /\ Receives(params[row.slot])
    BY <1>1, SparedMore DEF SafeInv, RowHasClassifier, RowIsKept, InHand, Writes
  <2>2. used \subseteq Slots
    BY DEF SafeInv, IInv, TypeOK
  <2> QED
    <3>1. \A s \in used :
            /\ "DELETING" \in status'[s] => s \in tcls
            /\ "DELETING" \in status'[s] \/ Receives(cache[s])
            /\ "UPDATING" \notin status'[s] =>
                 /\ Receives(params[s]) => s \in tcls
                 /\ "UPDATED" \in status'[s] /\ s # zeroed => Receives(params[s])
      BY <1>1, <1>2, <2>1, <2>2 DEF SafeInv, RowHasClassifier
    <3>2. pc' \notin InHand \ {"dip"} /\ pc' \notin Writes /\ pc' \notin {"undo", "oops"}
      BY <1>1 DEF InHand, Writes
    <3> QED
      BY <1>1, <3>1, <3>2 DEF RowHasClassifier, InHand, Writes, others, sweep
<1>5. FilterIsFree'
  <2>1. used \subseteq Slots
    BY DEF SafeInv, IInv, TypeOK
  <2> QED
    BY <1>1, <1>2, <2>1, SparedStill DEF RowStays, SafeInv, FilterIsFree, InHand, others, sweep, filter
<1>6. NodeIsPending'
  BY <1>1, SparedStill DEF SafeInv, NodeIsPending, lists, others
<1> QED
  BY <1>3, <1>4, <1>5, <1>6 DEF Safe

(* The row being deleted is zeroed in the driver's copies; DELETING says so.    *)
LEMMA ClearRowSafe ==
  ASSUME SafeInv, ClearRow
  PROVE  Safe'
<1>1. /\ pc = "clear" /\ row.slot \in Slots /\ row.event = "DEL"
      /\ pc' \in {"erase", "walk"}
      /\ cache' = [cache EXCEPT ![row.slot] = NoParams]
      /\ params' = [params EXCEPT ![row.slot] = NoParams]
      /\ UNCHANGED <<used, status, tcls, lists, others, node>>
      /\ RowStays
  BY DEF RowStays, SafeInv, IInv, RowInHand, InHand, Deletes, ClearRow, At, GoesTo
<1>2. /\ cache \in [Slots -> Params] /\ params \in [Slots -> Params] /\ used \subseteq Slots
  BY DEF SafeInv, IInv, TypeOK
<1>3. /\ \A s \in Slots \ {row.slot} : cache'[s] = cache[s] /\ params'[s] = params[s]
      /\ cache'[row.slot] = NoParams /\ params'[row.slot] = NoParams
  BY <1>1, <1>2
<1>4. NoParams.tunnel = Nobody
  BY DEF NoParams
<1>5. RowIsKept' /\ NodeIsPending'
  BY <1>1, SparedStill
     DEF RowStays, SafeInv, RowIsKept, NodeIsPending, InHand, Writes, others, lists
<1>6. RowHasClassifier'
  <2> SUFFICES ASSUME Spared({"flight", "end", "encap"})
               PROVE  RowHasClassifier'
    BY <1>1, SparedStill DEF RowHasClassifier, others, sweep
  <2>1. "DELETING" \in status[row.slot]
    BY <1>1, SparedMore DEF SafeInv, IInv, DeletionIsAlone, Deletes
  <2>2. "UPDATING" \in status[row.slot] /\ row.slot \in tcls
    BY <1>1 DEF SafeInv, RowHasClassifier, InHand
  <2> QED
    BY <1>1, <1>2, <1>3, <2>1, <2>2
       DEF RowStays, SafeInv, RowHasClassifier, InHand, Writes, others, sweep
<1>7. FilterIsFree'
  <2> SUFFICES ASSUME Spared({"end"}), OwnAddresses
               PROVE  FilterIsFree'
    BY <1>1, SparedStill DEF FilterIsFree, others
  <2>1. "QUEUED" \notin status[row.slot]
    BY <1>1 DEF SafeInv, IInv, DeletionIsAlone, Deletes
  <2>2. Spared({"pce"}) => ~dipLock'
    BY <1>1 DEF SafeInv, FilterIsFree, others, sweep, filter
  <2>3. \A s, r \in used' : cache'[s].tunnel = cache'[r].tunnel /\ cache'[s].tunnel # Nobody => s = r
    BY <1>1, <1>2, <1>3, <1>4 DEF SafeInv, FilterIsFree
  <2>4. \A s \in used' :
          "DELETING" \in status'[s] /\ ("QUEUED" \in status'[s] \/ (pc' = "undip" /\ row'.slot = s)) =>
            cache'[s].tunnel \in Tunnels /\ refs'[Local[cache'[s].tunnel]] <= 1
    BY <1>1, <1>2, <1>3, <2>1 DEF SafeInv, FilterIsFree, others, sweep, filter
  <2> QED
    BY <1>1, <1>3, <1>4, <2>2, <2>3, <2>4, SparedStill
       DEF RowStays, FilterIsFree, InHand, others
<1> QED
  BY <1>5, <1>6, <1>7 DEF Safe

(* Its row in the cores' memory is nothing the thread looks at.                  *)
LEMMA EraseRowSafe ==
  ASSUME SafeInv, EraseRow
  PROVE  Safe'
<1>1. /\ UNCHANGED <<rows, lists, others, row, node>>
      /\ pc = "erase" /\ pc' = "free" /\ row.event = "DEL"
  BY DEF SafeInv, IInv, RowInHand, Deletes, EraseRow, At, GoesTo
<1>2. RowIsKept' /\ RowHasClassifier' /\ FilterIsFree'
  BY <1>1, SparedStill
     DEF SafeInv, RowIsKept, RowHasClassifier, FilterIsFree, InHand, Writes, rows, others, sweep, filter
<1>3. NodeIsPending'
  BY <1>1, SparedStill DEF SafeInv, NodeIsPending, lists, others
<1> QED
  BY <1>2, <1>3 DEF Safe

(* The row that is deleted still has the classifier entry it gives back.        *)
LEMMA FreeSafe ==
  ASSUME SafeInv, Free
  PROVE  Safe'
<1>1. /\ pc = "free" /\ row.slot \in Slots
      /\ UNCHANGED <<cache, params, lists, others, node>>
      /\ RowStays
      /\ \/ /\ row.slot \in tcls /\ pc' = "walk"
            /\ tcls' = tcls \ {row.slot} /\ used' = used \ {row.slot}
            /\ status' = [status EXCEPT ![row.slot] = {"UNINIT"}]
         \/ row.slot \notin tcls /\ pc' = "oops" /\ UNCHANGED <<tcls, used, status>>
  BY DEF RowStays, SafeInv, IInv, RowInHand, InHand, Deletes, Free, At, GoesTo
<1>2. used \subseteq Slots /\ status \in [Slots -> SUBSET Bits]
  BY DEF SafeInv, IInv, TypeOK
<1>3. \A s \in Slots \ {row.slot} : status'[s] = status[s]
  BY <1>1, <1>2
<1>4. RowIsKept'
  BY <1>1, <1>2, SparedStill DEF SafeInv, RowIsKept, InHand, Writes, others
<1>5. NodeIsPending'
  BY <1>1, SparedStill DEF SafeInv, NodeIsPending, others, lists
<1>6. RowHasClassifier'
  <2> SUFFICES ASSUME Spared({"flight", "end", "encap"})
               PROVE  RowHasClassifier'
    BY <1>1, SparedStill DEF RowHasClassifier, others, sweep
  <2>1. row.slot \in tcls
    BY <1>1 DEF SafeInv, RowHasClassifier, InHand
  <2> QED
    BY <1>1, <1>2, <1>3, <2>1
       DEF SafeInv, RowHasClassifier, InHand, Writes, others, sweep
<1>7. FilterIsFree'
  BY <1>1, <1>2, <1>3, SparedStill DEF SafeInv, FilterIsFree, InHand, others, sweep, filter
<1> QED
  BY <1>4, <1>5, <1>6, <1>7 DEF Safe

(* What is left of the copy is of the row's tunnel; all is when no flush comes    *)
(* between.                                                                      *)
LEMMA TakenRow ==
  ASSUME TypeOK, TakeRow
  PROVE  /\ \A s \in Slots \ {node} : params'[s] = params[s]
         /\ params'[node].tunnel \in {Nobody, cache[node].tunnel}
         /\ Spared({"flight"}) => params'[node] = cache[node] /\ UNCHANGED sweep
<1>1. node \in Slots /\ cache \in [Slots -> Params] /\ params \in [Slots -> Params]
  BY DEF TakeRow, TypeOK
<1>2. CASE params' = [params EXCEPT ![node] = cache[node]] /\ UNCHANGED sweep
  BY <1>1, <1>2
<1>3. CASE ZeroedMeanwhile /\ \E p \in PartlyZeroed(cache[node]) :
             params' = [params EXCEPT ![node] = p]
  <2>1. PICK p \in PartlyZeroed(cache[node]) : params' = [params EXCEPT ![node] = p]
    BY <1>3
  <2>2. p.tunnel \in {Nobody, cache[node].tunnel}
    BY <1>1, <2>1 DEF PartlyZeroed, NoParams, Params
  <2>3. ~Spared({"flight"})
    BY <1>3 DEF ZeroedMeanwhile, Unless, Spared
  <2> QED
    BY <1>1, <2>1, <2>2, <2>3
<1> QED
  BY <1>2, <1>3 DEF TakeRow

(* The row that is taken to be written has its entry, or is about to get it; the *)
(* one to be deleted has it since it was UPDATED.                               *)
LEMMA TakeRowSafe ==
  ASSUME SafeInv, TakeRow
  PROVE  Safe'
<1> DEFINE event == EventOf(status[node])
           decap == BeginsToReceive(node)
<1>1. /\ node \in Slots /\ node \in pending
      /\ "QUEUED" \in status[node] /\ "UPDATING" \notin status[node]
      /\ pending' = pending \ {node} /\ node' \in Heads(pending')
      /\ row'.slot = node /\ row'.event = event
      /\ pc' = IF event = "DEL" THEN "undip" ELSE IF decap THEN "cls" ELSE "ask"
      /\ status' = [status EXCEPT ![node] = Updating(status[node])]
      /\ UNCHANGED <<used, cache, tcls, refs, dipLock, disorder>>
  BY DEF TakeRow, Leaves, filter
<1>2. /\ event = "DEL" => "DELETING" \in status[node]
      /\ event # "DEL" => "INIT" \in status[node] \/ "DELETING" \notin status[node]
  BY DEF EventOf
<1>3. decap <=> Receives(cache[node]) /\ ~Receives(params[node])
  BY DEF BeginsToReceive, Receives
<1> HIDE DEF event, decap
<1>4. /\ used \subseteq Slots /\ status \in [Slots -> SUBSET Bits]
      /\ cache \in [Slots -> Params] /\ params \in [Slots -> Params]
  BY DEF SafeInv, IInv, TypeOK
<1>5. /\ \A s \in Slots \ {node} : status'[s] = status[s] /\ params'[s] = params[s]
      /\ status'[node] = Updating(status[node])
      /\ params'[node].tunnel \in {Nobody, cache[node].tunnel}
      /\ Spared({"flight"}) => params'[node] = cache[node] /\ zeroed' = zeroed
  BY <1>1, <1>4, TakenRow DEF SafeInv, IInv, sweep
<1>6. /\ "QUEUED" \notin status'[node] /\ "UPDATED" \notin status'[node]
      /\ "UPDATING" \in status'[node]
      /\ "DELETING" \in status'[node] <=> "DELETING" \in status[node]
      /\ "INIT" \in status'[node] <=> "INIT" \in status[node]
  BY <1>5 DEF Updating
<1>7. NodeIsPending'
  BY <1>1, SparedStill DEF SafeInv, NodeIsPending, Heads
<1>8. Spared({"end"}) => node \in used /\ (event # "DEL" => "DELETING" \notin status[node])
  BY <1>1, <1>2 DEF SafeInv, IInv, QueuedIsListed, RowIsKept
<1>9. RowIsKept'
  BY <1>1, <1>4, <1>5, <1>6, <1>8, SparedStill DEF SafeInv, RowIsKept, InHand, Writes
<1>10. RowHasClassifier'
  <2> SUFFICES ASSUME Spared({"flight", "end", "encap"})
               PROVE  RowHasClassifier'
    BY <1>1, SparedStill DEF RowHasClassifier
  <2>1. /\ node \in used /\ (event # "DEL" => Receives(cache[node]))
        /\ "DELETING" \in status[node] => node \in tcls
        /\ Receives(params[node]) => node \in tcls
    BY <1>1, <1>8, SparedMore DEF SafeInv, RowHasClassifier
  <2>2. \A s \in used :
          /\ "DELETING" \in status'[s] => s \in tcls
          /\ "DELETING" \in status'[s] \/ Receives(cache[s])
          /\ "UPDATING" \notin status'[s] =>
               /\ Receives(params'[s]) => s \in tcls
               /\ "UPDATED" \in status'[s] /\ s # zeroed' => Receives(params'[s])
    BY <1>4, <1>5, <1>6, <2>1, SparedMore DEF SafeInv, RowHasClassifier
  <2>3. pc' # "cls" => node \in tcls
    BY <1>1, <1>2, <1>3, <2>1
  <2> QED
    BY <1>1, <1>5, <1>6, <2>1, <2>2, <2>3, SparedMore DEF RowHasClassifier, Writes
<1>11. FilterIsFree'
  <2> SUFFICES ASSUME Spared({"end"}), OwnAddresses
               PROVE  FilterIsFree'
    BY <1>1, SparedStill DEF FilterIsFree
  <2>1. \A s \in used :
          "DELETING" \in status'[s] /\ ("QUEUED" \in status'[s] \/ (pc' = "undip" /\ node = s)) =>
            cache[s].tunnel \in Tunnels /\ refs[Local[cache[s].tunnel]] <= 1
    <3> TAKE s \in used
    <3>1. CASE s = node
      BY <1>1, <1>6, <3>1 DEF SafeInv, FilterIsFree
    <3>2. CASE s # node
      BY <1>4, <1>5, <3>2 DEF SafeInv, FilterIsFree
    <3> QED
      BY <3>1, <3>2
  <2> QED
    BY <1>1, <1>5, <2>1, SparedStill DEF SafeInv, FilterIsFree
<1> QED
  BY <1>7, <1>9, <1>10, <1>11 DEF Safe

(* A row's address joins the filter: another one that ends has another address. *)
LEMMA SetUpDipSafe ==
  ASSUME SafeInv, SetUpDip
  PROVE  Safe'
<1>1. /\ UNCHANGED <<rows, lists, sweep, disorder, node>>
      /\ RowStays
      /\ pc = "dip" /\ pc' = "walk" /\ row.slot \in Slots
      /\ UNCHANGED filter \/ (HasAddress /\ AddEntry(Address))
  BY DEF RowStays, SafeInv, IInv, RowInHand, InHand, SetUpDip, At, GoesTo, AddFails
<1>2. RowIsKept' /\ RowHasClassifier' /\ NodeIsPending'
  BY <1>1, SparedStill
     DEF SafeInv, RowIsKept, RowHasClassifier, NodeIsPending, InHand, Writes, rows, lists, sweep
<1>3. CASE UNCHANGED filter
  BY <1>1, <1>2, <1>3, SparedStill DEF SafeInv, Safe, FilterIsFree, InHand, rows, filter
<1>4. CASE HasAddress /\ AddEntry(Address)
  <2> SUFFICES ASSUME Spared({"end"}), OwnAddresses
               PROVE  FilterIsFree'
    BY <1>1, <1>2, SparedStill DEF FilterIsFree, Safe
  <2>1. /\ row.slot \in used /\ "DELETING" \notin status[row.slot]
        /\ params[row.slot].tunnel = cache[row.slot].tunnel
        /\ cache[row.slot].tunnel # Nobody
    BY <1>1, <1>4 DEF SafeInv, RowIsKept, FilterIsFree, InHand, HasAddress
  <2>2. cache[row.slot].tunnel \in Tunnels
    BY <1>1, <2>1 DEF SafeInv, IInv, TypeOK, Params
  <2>3. /\ refs' = [refs EXCEPT ![Local[cache[row.slot].tunnel]] = @ + 1]
        /\ ~dipLock /\ dipLock' = dipLock
    BY <1>4, <2>1 DEF AddEntry, Address
  <2>4. refs \in [Addresses -> Nat] /\ Local \in [Tunnels -> Addresses]
    BY LocalAssumption DEF SafeInv, IInv, TypeOK
  <2>5. ASSUME NEW s \in used, "DELETING" \in status[s], "QUEUED" \in status[s]
        PROVE  cache[s].tunnel \in Tunnels /\ refs'[Local[cache[s].tunnel]] <= 1
    <3>1. cache[s].tunnel \in Tunnels /\ refs[Local[cache[s].tunnel]] <= 1
      BY <2>5 DEF SafeInv, FilterIsFree
    <3>2. s # row.slot
      BY <2>1, <2>5
    <3>3. cache[s].tunnel # cache[row.slot].tunnel
      BY <2>1, <3>2 DEF SafeInv, FilterIsFree
    <3>4. Local[cache[s].tunnel] # Local[cache[row.slot].tunnel]
      BY <2>2, <3>1, <3>3 DEF OwnAddresses
    <3> QED
      BY <2>2, <2>3, <2>4, <3>1, <3>4
  <2> QED
    BY <1>1, <2>3, <2>5, SparedStill DEF SafeInv, FilterIsFree, InHand, rows
<1> QED
  BY <1>1, <1>3, <1>4

(* The address of the row being deleted had no other user, so the filter does   *)
(* not return early with its lock held, unless the engine refuses.              *)
LEMMA TearDownDipSafe ==
  ASSUME SafeInv, TearDownDip
  PROVE  Safe'
<1>1. /\ UNCHANGED <<rows, lists, sweep, disorder, node>>
      /\ RowStays
      /\ pc = "undip" /\ pc' \in {"ask", "walk"} /\ row.slot \in Slots /\ row.event = "DEL"
      /\ \/ UNCHANGED filter
         \/ HasAddress /\ (DelEntry(Address) \/ DelFails(Address))
      /\ Spared({"pce"}) => UNCHANGED filter \/ (HasAddress /\ DelEntry(Address))
  BY DEF RowStays, SafeInv, IInv, RowInHand, InHand, Deletes, TearDownDip, At, GoesTo, Unless, Spared
<1>2. RowIsKept' /\ RowHasClassifier' /\ NodeIsPending'
  BY <1>1, SparedStill
     DEF RowStays, SafeInv, RowIsKept, RowHasClassifier, NodeIsPending, InHand, Writes, rows, lists, sweep
<1>3. CASE UNCHANGED filter
  BY <1>1, <1>2, <1>3, SparedStill DEF RowStays, SafeInv, Safe, FilterIsFree, InHand, rows, filter
<1>4. CASE ~UNCHANGED filter
  <2> SUFFICES ASSUME Spared({"end"}), OwnAddresses
               PROVE  FilterIsFree'
    BY <1>1, <1>2, SparedStill DEF FilterIsFree, Safe
  <2>1. row.slot \in used /\ "DELETING" \in status[row.slot]
    BY <1>1 DEF SafeInv, IInv, DeletionIsAlone, Deletes
  <2>2. /\ cache[row.slot].tunnel \in Tunnels
        /\ refs[Local[cache[row.slot].tunnel]] <= 1
        /\ params[row.slot].tunnel = cache[row.slot].tunnel
    BY <1>1, <1>4, <2>1 DEF SafeInv, FilterIsFree, InHand, HasAddress
  <2>3. PICK a \in Addresses : a = Local[cache[row.slot].tunnel]
    BY <2>2, LocalAssumption
  <2>4. refs \in [Addresses -> Nat] /\ Local \in [Tunnels -> Addresses]
    BY LocalAssumption DEF SafeInv, IInv, TypeOK
  <2>5. /\ refs' = [refs EXCEPT ![a] = IF refs[a] = 0 THEN 0 ELSE refs[a] - 1]
        /\ Spared({"pce"}) => dipLock' = (refs[a] > 1)
    <3>1. Address = a /\ (DelEntry(a) \/ DelFails(a)) /\ (Spared({"pce"}) => DelEntry(a))
      BY <1>1, <1>4, <2>2, <2>3 DEF Address
    <3>2. DelEntry(a) => refs' = [refs EXCEPT ![a] = IF refs[a] = 0 THEN 0 ELSE refs[a] - 1]
      BY <2>3, <2>4 DEF DelEntry
    <3>3. DelFails(a) => refs' = [refs EXCEPT ![a] = IF refs[a] = 0 THEN 0 ELSE refs[a] - 1]
      BY <2>3, <2>4 DEF DelFails
    <3>4. Spared({"pce"}) => dipLock' = (refs[a] > 1)
      BY <3>1 DEF DelEntry
    <3> QED
      BY <3>1, <3>2, <3>3, <3>4
  <2>6. Spared({"pce"}) => ~dipLock'
    <3>1. ~(refs[a] > 1)
      BY <2>2, <2>3, <2>4
    <3> QED
      BY <2>5, <3>1
  <2>7. \A b \in Addresses : refs'[b] <= refs[b]
    BY <2>3, <2>5, <2>4
  <2>8. ASSUME NEW s \in used, "DELETING" \in status[s], "QUEUED" \in status[s]
        PROVE  cache[s].tunnel \in Tunnels /\ refs'[Local[cache[s].tunnel]] <= 1
    <3>1. cache[s].tunnel \in Tunnels /\ refs[Local[cache[s].tunnel]] <= 1
      BY <2>8 DEF SafeInv, FilterIsFree
    <3>2. refs'[Local[cache[s].tunnel]] <= refs[Local[cache[s].tunnel]]
      BY <2>4, <2>7, <3>1
    <3>3. refs'[Local[cache[s].tunnel]] \in Nat
      BY <2>3, <2>5, <2>4, <3>1
    <3> QED
      BY <2>4, <3>1, <3>2, <3>3
  <2> QED
    BY <1>1, <2>6, <2>8, SparedStill DEF RowStays, SafeInv, FilterIsFree, InHand, rows
<1> QED
  BY <1>1, <1>3, <1>4

(* Every step of tnl_sync_task keeps it safe.                                    *)
LEMMA ThreadSafe ==
  ASSUME SafeInv, Thread
  PROVE  Safe'
BY WalkSafe, TakeRowSafe, SetUpClsSafe, StallSafe, SyncedSafe, SetUpDipSafe, UndoSafe,
   TearDownDipSafe, ClearRowSafe, EraseRowSafe, FreeSafe
   DEF Thread

(* The thread is woken at most; a row put on a list it was not off, after a flush *)
(* that tore the lists, leads it astray.                                         *)
Wakes ==
  \/ pc' = pc \/ (pc = "sleep" /\ pc' = "check")
  \/ ~Spared({"flight"}) /\ pc' = "astray"

(* What the network and the recovery do to one row: the others stay as they are. *)
Touches(s) ==
  /\ UNCHANGED <<pending, node, row, tcls, refs, dipLock, zeroed, disorder>>
  /\ Wakes
  /\ used' = used \cup {s}
  /\ \A r \in Slots \ {s} :
       status'[r] = status[r] /\ cache'[r] = cache[r] /\ params'[r] = params[r]

(* The row is submitted, or left as it is; it goes on receiving if it does.     *)
Changes(s) ==
  /\ s \in used /\ "DELETING" \notin status[s]
  /\ status'[s] = status[s] \/ status'[s] = Queued(status[s])
  /\ params'[s] = params[s] /\ cache'[s].tunnel = cache[s].tunnel
  /\ Receives(cache[s]) => Receives(cache'[s])
  /\ cache[s].tunnel = Nobody /\ Receives(cache'[s]) => Receives(cache[s])

(* The row is taken for a tunnel that had none.                                 *)
IsTaken(s) ==
  /\ s \notin used /\ status'[s] = Queued({"INIT"})
  /\ params'[s] = NoParams
  /\ cache'[s].tunnel \in Tunnels
  /\ \A r \in used : cache[r].tunnel # cache'[s].tunnel
  /\ Spared({"encap"}) => Receives(cache'[s])

(* The row is to be deleted; it was UPDATED, and its address has no other user. *)
Ends(s) ==
  /\ s \in used /\ status[s] = {"UPDATED"} /\ status'[s] = Queued({"UPDATED", "DELETING"})
  /\ params'[s] = params[s] /\ cache'[s] = cache[s]
  /\ cache[s].tunnel \in Tunnels /\ refs[Local[cache[s].tunnel]] = 1
  /\ pc # "dip" /\ zeroed # s

(* A row that is submitted is on no list, so that the lists are not tied up.    *)
LEMMA SubmitIsSafe ==
  ASSUME TypeOK, NEW s \in Slots, NEW bits \in SUBSET Bits, Submit(s, bits),
         Spared({"flight"}) => "QUEUED" \in bits \/ s \notin submitted \cup pending
  PROVE  /\ status' = [status EXCEPT ![s] = bits] \/ status' = [status EXCEPT ![s] = Queued(bits)]
         /\ "QUEUED" \notin bits => status' = [status EXCEPT ![s] = Queued(bits)]
         /\ UNCHANGED <<pending, node, row>>
         /\ Wakes
<1>1. CASE "QUEUED" \in bits
  BY <1>1 DEF Submit, Wakes, lists, thread
<1>2. CASE "QUEUED" \notin bits
  BY <1>2 DEF Submit, Enlist, Wakes
<1> QED
  BY <1>1, <1>2

(* mtk_tops_tnl_offload, for a row that was found and one that was taken: a      *)
(* packet adds its direction to the flags.                                      *)
LEMMA SetupIsSafe ==
  ASSUME TypeOK, NEW s \in Slots, NEW bits \in SUBSET Bits, NEW flag, NEW t, NEW dir, NEW mac,
         Setup(s, bits, flag, t, dir, mac),
         Spared({"flight"}) => "QUEUED" \in bits \/ s \notin submitted \cup pending
  PROVE  /\ status' = [status EXCEPT ![s] = bits] \/ status' = [status EXCEPT ![s] = Queued(bits)]
         /\ dir \notin flag /\ "QUEUED" \notin bits => status' = [status EXCEPT ![s] = Queued(bits)]
         /\ UNCHANGED <<pending, node, row, tcls, others>>
         /\ Wakes
         /\ \A r \in Slots \ {s} : cache'[r] = cache[r]
         /\ cache'[s].tunnel = t /\ cache'[s].flag = flag \cup {dir}
<1>1. cache' = [cache EXCEPT ![s] = [tunnel |-> t, mac |-> mac, flag |-> flag \cup {dir}]]
      /\ UNCHANGED <<tcls, others>>
  BY DEF Setup
<1>2. CASE dir \in flag
  BY <1>1, <1>2 DEF Setup, Wakes, lists, thread, TypeOK
<1>3. CASE dir \notin flag
  <2>1. Submit(s, bits)
    BY <1>3 DEF Setup
  <2> QED
    BY <1>1, <1>3, <2>1, SubmitIsSafe DEF TypeOK
<1> QED
  BY <1>2, <1>3

(* Every call of the network does one of the three things to one row.           *)
LEMMA NetworkTouches ==
  ASSUME SafeInv, Network, Spared({"end"})
  PROVE  \E s \in Slots : Touches(s) /\ (Changes(s) \/ IsTaken(s) \/ Ends(s))
<1>0. /\ used \subseteq Slots /\ status \in [Slots -> SUBSET Bits]
      /\ cache \in [Slots -> Params] /\ params \in [Slots -> Params]
      /\ "end" \notin disorder /\ TypeOK
      /\ mcu \in {"up", "frozen"} => zeroed = Nobody
  BY DEF SafeInv, IInv, TypeOK, Spared, SweepFacts
<1>l. ASSUME NEW s \in Slots
      PROVE  Spared({"flight"}) =>
               /\ "QUEUED" \in status[s] \/ s \notin submitted \cup pending
               /\ s \notin used => s \notin submitted \cup pending
  BY DEF SafeInv, IInv, QueuedIsListed
<1>1. ASSUME NEW t \in Tunnels, NEW dir \in {"decap", "encap"}, NEW mac \in Macs,
             Packet(t, dir, mac)
      PROVE  \E s \in Slots : Touches(s) /\ Changes(s)
  <2>1. PICK s \in used :
          /\ cache[s].tunnel = t /\ Unless("end", EndsNot(s))
          /\ Setup(s, status[s], cache[s].flag, t, dir, mac)
          /\ UNCHANGED <<used, params>>
    BY <1>1 DEF Packet
  <2>2. s \in Slots /\ status[s] \in SUBSET Bits
    BY <1>0, <2>1
  <2>3. /\ status' = [status EXCEPT ![s] = status[s]] \/ status' = [status EXCEPT ![s] = Queued(status[s])]
        /\ UNCHANGED <<pending, node, row, tcls, others>>
        /\ Wakes
        /\ \A r \in Slots \ {s} : cache'[r] = cache[r]
        /\ cache'[s].tunnel = t /\ cache'[s].flag = cache[s].flag \cup {dir}
    BY <1>0, <1>l, <2>1, <2>2, SetupIsSafe
  <2>4. "DELETING" \notin status[s]
    BY <1>0, <2>1 DEF Unless, EndsNot
  <2>5. Touches(s) /\ Changes(s)
    BY <1>0, <2>1, <2>2, <2>3, <2>4, SetsAssumption DEF others, sweep, filter, Touches, Changes, Receives
  <2> QED
    BY <2>2, <2>5
<1>2. ASSUME NEW t \in Tunnels, NEW dir \in {"decap", "encap"}, NEW mac \in Macs,
             FirstPacket(t, dir, mac)
      PROVE  \E s \in Slots : Touches(s) /\ IsTaken(s)
  <2>1. /\ \A r \in used : cache[r].tunnel # t
        /\ Unless("encap", dir = "decap")
    BY <1>2 DEF FirstPacket
  <2>2. PICK s \in Slots \ used :
          /\ used' = used \cup {s}
          /\ params' = [params EXCEPT ![s] = NoParams]
          /\ Setup(s, {"INIT"}, {}, t, dir, mac)
    BY <1>2 DEF FirstPacket
  <2>3. PICK bits \in SUBSET Bits : bits = {"INIT"}
    BY DEF Bits
  <2>4. /\ status' = [status EXCEPT ![s] = Queued(bits)]
        /\ UNCHANGED <<pending, node, row, tcls, others>>
        /\ Wakes
        /\ \A r \in Slots \ {s} : cache'[r] = cache[r]
        /\ cache'[s].tunnel = t /\ cache'[s].flag = {} \cup {dir}
    <3>1. s \in Slots /\ s \notin used /\ Setup(s, bits, {}, t, dir, mac)
      BY <2>2, <2>3
    <3>2. "QUEUED" \notin bits /\ dir \notin {}
      BY <2>3
    <3>3. Spared({"flight"}) => "QUEUED" \in bits \/ s \notin submitted \cup pending
      BY <1>l, <3>1
    <3> QED
      BY <1>0, <3>1, <3>2, <3>3, SetupIsSafe
  <2>5. Touches(s)
    BY <1>0, <2>2, <2>4 DEF others, sweep, filter, Touches
  <2>6. IsTaken(s)
    <3>1. status'[s] = Queued({"INIT"}) /\ params'[s] = NoParams
      BY <1>0, <2>2, <2>3, <2>4
    <3>2. Spared({"encap"}) => dir = "decap"
      BY <2>1 DEF Unless, Spared
    <3> QED
      BY <2>1, <2>2, <2>4, <3>1, <3>2 DEF IsTaken, Receives
  <2> QED
    BY <2>5, <2>6
<1>3. ASSUME NEW s \in Slots, NEW mac \in Macs, L2Update(s, mac)
      PROVE  Touches(s) /\ Changes(s)
  <2>1. /\ s \in used /\ Unless("end", EndsNot(s))
        /\ cache' = [cache EXCEPT ![s].mac = mac]
        /\ Submit(s, status[s])
        /\ UNCHANGED <<used, params, tcls, others>>
    BY <1>3 DEF L2Update
  <2>2. /\ status' = [status EXCEPT ![s] = status[s]] \/ status' = [status EXCEPT ![s] = Queued(status[s])]
        /\ UNCHANGED <<pending, node, row>>
        /\ Wakes
    <3>1. status[s] \in SUBSET Bits
      BY <1>0, <2>1
    <3> QED
      BY <1>0, <1>l, <2>1, <3>1, SubmitIsSafe
  <2>3. cache'[s].tunnel = cache[s].tunnel /\ cache'[s].flag = cache[s].flag
        /\ \A r \in Slots \ {s} : cache'[r] = cache[r]
    BY <1>0, <2>1 DEF Params
  <2>4. "DELETING" \notin status[s]
    BY <1>0, <2>1 DEF Unless, EndsNot
  <2> QED
    BY <1>0, <2>1, <2>2, <2>3, <2>4 DEF others, sweep, filter, Touches, Changes, Receives
<1>4. ASSUME NEW t \in Tunnels, NetdevDown(t)
      PROVE  \E s \in Slots : Touches(s) /\ Ends(s)
  <2>1. PICK s \in used :
          /\ status[s] = {"UPDATED"} /\ cache[s].tunnel = t
          /\ refs[Local[t]] = 1 /\ pc # "dip" /\ mcu \in {"up", "frozen"}
          /\ Submit(s, status[s] \cup {"DELETING"})
          /\ UNCHANGED <<used, cache, params, dev, tcls, cores, others>>
    BY <1>0, <1>4 DEF NetdevDown, Unless
  <2>2. PICK bits \in SUBSET Bits : bits = {"UPDATED", "DELETING"}
    BY DEF Bits
  <2>3. /\ s \in Slots /\ Submit(s, bits) /\ "QUEUED" \notin bits
        /\ Spared({"flight"}) => s \notin submitted \cup pending
    <3>1. status[s] \cup {"DELETING"} = bits
      BY <2>1, <2>2
    <3> QED
      BY <1>0, <1>l, <2>1, <2>2, <3>1
  <2>4. /\ status' = [status EXCEPT ![s] = Queued(bits)]
        /\ UNCHANGED <<pending, node, row>>
        /\ Wakes
    BY <1>0, <2>3, SubmitIsSafe
  <2>5. Touches(s)
    BY <1>0, <2>1, <2>3, <2>4 DEF others, sweep, filter, Touches
  <2>6. Ends(s)
    BY <1>0, <2>1, <2>2, <2>3, <2>4, SetsAssumption DEF Ends
  <2> QED
    BY <2>3, <2>5, <2>6
<1> QED
  BY <1>1, <1>2, <1>3, <1>4 DEF Network

(* A call leaves the row in hand what it has, and ends only rows that are        *)
(* UPDATED, which the row in hand is not.                                       *)
LEMMA TouchIsSafe ==
  ASSUME SafeInv, Spared({"end"}), NEW s \in Slots,
         Touches(s), Changes(s) \/ IsTaken(s) \/ Ends(s)
  PROVE  Safe'
<1>1. disorder' = disorder
  BY DEF Touches
<1>3. /\ UNCHANGED <<pending, node, row, tcls, refs, dipLock, zeroed>>
      /\ pc' = pc \/ (pc = "sleep" /\ pc' = "check") \/ pc' = "astray"
      /\ Spared({"flight"}) => pc' = pc \/ (pc = "sleep" /\ pc' = "check")
      /\ used' = used \cup {s}
      /\ \A r \in Slots \ {s} :
           status'[r] = status[r] /\ cache'[r] = cache[r] /\ params'[r] = params[r]
  BY DEF Touches, Wakes
<1>4. used \subseteq Slots
  BY DEF SafeInv, IInv, TypeOK
<1>5. /\ pc' \in InHand => pc \in InHand /\ pc' = pc /\ row.slot \in used
      /\ pc' \in Writes => pc' \in InHand
      /\ pc' \in {"sleep", "check"} => pc \in {"sleep", "check"}
      /\ pc' \notin {"sleep", "check", "astray"} => pc' = pc
  BY <1>3 DEF SafeInv, RowIsKept, InHand, Writes
<1>6. NodeIsPending'
  BY <1>1, <1>3, <1>5, SparedStill, SparedMore DEF SafeInv, NodeIsPending
<1>7. /\ s \notin used => IsTaken(s)
      /\ s \in used => Changes(s) \/ Ends(s)
  BY DEF Changes, IsTaken, Ends
<1>8. CASE Changes(s)
  <2>1. /\ s \in used /\ used' = used /\ "DELETING" \notin status[s]
        /\ params'[s] = params[s] /\ cache'[s].tunnel = cache[s].tunnel
        /\ Receives(cache[s]) => Receives(cache'[s])
        /\ "DELETING" \notin status'[s]
        /\ "UPDATED" \in status'[s] => "UPDATED" \in status[s]
        /\ "UPDATING" \in status'[s] <=> "UPDATING" \in status[s]
    BY <1>3, <1>8 DEF Changes, Queued
  <2>2. RowIsKept'
    BY <1>1, <1>3, <1>4, <1>5, <2>1, SparedStill DEF SafeInv, RowIsKept, InHand
  <2>3. RowHasClassifier'
    <3> SUFFICES ASSUME Spared({"flight", "end", "encap"})
                 PROVE  RowHasClassifier'
      BY <1>1, SparedStill DEF RowHasClassifier
    <3>1. \A r \in used :
            /\ "DELETING" \in status'[r] => r \in tcls
            /\ "DELETING" \in status'[r] \/ Receives(cache'[r])
            /\ "UPDATING" \notin status'[r] =>
                 /\ Receives(params'[r]) => r \in tcls
                 /\ "UPDATED" \in status'[r] /\ r # zeroed => Receives(params'[r])
      BY <1>3, <1>4, <2>1 DEF SafeInv, RowHasClassifier
    <3>2. row.slot \in used /\ pc' = pc /\ pc \in InHand =>
            /\ "UPDATING" \in status'[row.slot] <=> "UPDATING" \in status[row.slot]
            /\ params'[row.slot] = params[row.slot]
      BY <1>3, <1>4, <2>1
    <3>3. /\ pc' # "oops"
          /\ pc' \in InHand \ {"cls", "dip"} => row.slot \in tcls
          /\ pc' \in InHand \ {"dip", "undo"} => "UPDATING" \in status'[row.slot]
          /\ pc' \in Writes \ {"undo"} /\ row.event # "DEL" => Receives(params'[row.slot])
          /\ pc' = "undo" => "UPDATING" \in status'[row.slot] \/ ~Receives(params'[row.slot])
      BY <1>3, <1>5, <3>2 DEF SafeInv, RowHasClassifier, Writes
    <3> QED
      BY <1>3, <2>1, <3>1, <3>3 DEF RowHasClassifier
  <2>4. FilterIsFree'
    <3>1. \A r \in used : cache'[r].tunnel = cache[r].tunnel
      BY <1>3, <1>4, <2>1
    <3> QED
      BY <1>1, <1>3, <1>4, <1>5, <2>1, <3>1, SparedStill DEF SafeInv, FilterIsFree
  <2> QED
    BY <1>6, <2>2, <2>3, <2>4 DEF Safe
<1>9. CASE IsTaken(s)
  <2>1. /\ s \notin used
        /\ "DELETING" \notin status'[s] /\ "UPDATED" \notin status'[s]
        /\ ~Receives(params'[s])
        /\ \A r \in used : cache[r].tunnel # cache'[s].tunnel
        /\ Spared({"encap"}) => Receives(cache'[s])
    BY <1>9 DEF IsTaken, Queued, Receives, NoParams
  <2>2. pc' \in InHand => row.slot # s
    BY <1>5, <2>1
  <2>3. RowIsKept'
    BY <1>1, <1>3, <1>4, <1>5, <2>1, <2>2, SparedStill DEF SafeInv, RowIsKept, InHand
  <2>4. RowHasClassifier'
    <3> SUFFICES ASSUME Spared({"flight", "end", "encap"})
                 PROVE  RowHasClassifier'
      BY <1>1, SparedStill DEF RowHasClassifier
    <3>1. \A r \in used' :
            /\ "DELETING" \in status'[r] => r \in tcls
            /\ "DELETING" \in status'[r] \/ Receives(cache'[r])
            /\ "UPDATING" \notin status'[r] =>
                 /\ Receives(params'[r]) => r \in tcls
                 /\ "UPDATED" \in status'[r] /\ r # zeroed => Receives(params'[r])
      BY <1>3, <1>4, <2>1, SparedMore DEF SafeInv, RowHasClassifier
    <3>2. pc' \in InHand =>
            status'[row.slot] = status[row.slot] /\ params'[row.slot] = params[row.slot]
      BY <1>3, <1>4, <1>5, <2>2
    <3>3. /\ pc' # "oops"
          /\ pc' \in InHand \ {"cls", "dip"} => row.slot \in tcls
          /\ pc' \in InHand \ {"dip", "undo"} => "UPDATING" \in status'[row.slot]
          /\ pc' \in Writes \ {"undo"} /\ row.event # "DEL" => Receives(params'[row.slot])
          /\ pc' = "undo" => "UPDATING" \in status'[row.slot] \/ ~Receives(params'[row.slot])
      BY <1>3, <1>5, <3>2 DEF SafeInv, RowHasClassifier, Writes
    <3> QED
      BY <1>3, <3>1, <3>3 DEF RowHasClassifier
  <2>5. FilterIsFree'
    <3> SUFFICES ASSUME OwnAddresses
                 PROVE  FilterIsFree'
      BY DEF FilterIsFree
    <3>1. \A r \in used : cache'[r] = cache[r] /\ status'[r] = status[r]
      BY <1>3, <1>4, <2>1
    <3>2. pc' \in InHand =>
            cache'[row.slot] = cache[row.slot] /\ params'[row.slot] = params[row.slot]
      BY <1>3, <1>4, <1>5, <2>2
    <3> QED
      BY <1>1, <1>3, <1>4, <1>5, <2>1, <3>1, <3>2, SparedStill DEF SafeInv, FilterIsFree
  <2> QED
    BY <1>6, <2>3, <2>4, <2>5 DEF Safe
<1>10. CASE Ends(s)
  <2>1. /\ s \in used /\ used' = used /\ status[s] = {"UPDATED"}
        /\ "UPDATING" \notin status'[s] /\ "UPDATED" \notin status'[s]
        /\ "INIT" \notin status'[s]
        /\ params'[s] = params[s] /\ cache'[s] = cache[s]
        /\ cache[s].tunnel \in Tunnels /\ refs[Local[cache[s].tunnel]] = 1 /\ pc # "dip"
        /\ zeroed # s
    BY <1>3, <1>10 DEF Ends, Queued
  <2>2. pc \in Writes /\ row.event # "DEL" => row.slot # s
    BY <2>1 DEF SafeInv, RowIsKept
  <2>3. RowIsKept'
    BY <1>1, <1>3, <1>4, <1>5, <2>1, <2>2, SparedStill DEF SafeInv, RowIsKept, InHand
  <2>4. RowHasClassifier'
    <3> SUFFICES ASSUME Spared({"flight", "end", "encap"})
                 PROVE  RowHasClassifier'
      BY <1>1, SparedStill DEF RowHasClassifier
    <3>1. s \in tcls
      BY <2>1 DEF SafeInv, RowHasClassifier
    <3>2. \A r \in used :
            /\ "DELETING" \in status'[r] => r \in tcls
            /\ "DELETING" \in status'[r] \/ Receives(cache'[r])
            /\ "UPDATING" \notin status'[r] =>
                 /\ Receives(params'[r]) => r \in tcls
                 /\ "UPDATED" \in status'[r] /\ r # zeroed => Receives(params'[r])
      BY <1>3, <1>4, <2>1, <3>1 DEF SafeInv, RowHasClassifier
    <3>3. pc' \in InHand => params'[row.slot] = params[row.slot]
      BY <1>3, <1>4, <1>5, <2>1
    <3>4. pc' \in InHand \ {"dip", "undo"} => row.slot # s
      BY <1>5, <2>1 DEF SafeInv, RowHasClassifier
    <3>5. /\ pc' \in InHand \ {"dip", "undo"} => "UPDATING" \in status'[row.slot]
          /\ pc' = "undo" => row.slot # s
      BY <1>3, <1>4, <1>5, <2>2, <3>4 DEF SafeInv, RowHasClassifier, RowIsKept, Writes
    <3>6. pc' = "undo" => "UPDATING" \in status'[row.slot] \/ ~Receives(params'[row.slot])
      BY <1>3, <1>4, <1>5, <3>3, <3>5 DEF SafeInv, RowHasClassifier, InHand
    <3> QED
      BY <1>3, <1>5, <2>1, <3>2, <3>3, <3>5, <3>6 DEF SafeInv, RowHasClassifier, Writes
  <2>5. FilterIsFree'
    <3>1. \A r \in Slots : cache'[r] = cache[r] /\ params'[r] = params[r]
      BY <1>3, <2>1
    <3> QED
      BY <1>1, <1>3, <1>4, <1>5, <2>1, <3>1, SparedStill DEF SafeInv, FilterIsFree, InHand
  <2> QED
    BY <1>6, <2>3, <2>4, <2>5 DEF Safe
<1> QED
  BY <1>8, <1>9, <1>10

(* What Safe says, it says of behaviours in which no device ends at a wrong time. *)
LEMMA SafeSparesEnd ==
  ASSUME disorder' = disorder, ~Spared({"end"})
  PROVE  Safe'
BY SparedStill, SparedMore
   DEF Safe, NodeIsPending, RowIsKept, RowHasClassifier, FilterIsFree

(* The calls of the network                                                     *)
LEMMA NetworkSafe ==
  ASSUME SafeInv, Network
  PROVE  Safe'
<1>1. CASE Spared({"end"})
  BY <1>1, NetworkTouches, TouchIsSafe
<1>2. CASE ~Spared({"end"})
  BY <1>2, NetworkKeepsDisorder, SafeSparesEnd
<1> QED
  BY <1>1, <1>2

(* A failure and the reset of the cores leave the rows and the thread alone, but *)
(* for the flush and the recovery of the rows.                                   *)
LEMMA BreaksSafe ==
  ASSUME SafeInv, Breaks \/ GoDown \/ PowerOff \/ Boots \/ ComeUp
  PROVE  Safe'
<1>1. UNCHANGED <<rows, lists, thread, filter, zeroed, disorder>>
  BY DEF Breaks, GoDown, PowerOff, Boots, ComeUp, others, sweep
<1>2. RowIsKept' /\ RowHasClassifier' /\ FilterIsFree'
  BY <1>1, HandFrame DEF rows, thread, filter
<1>3. NodeIsPending'
  BY <1>1, SparedStill DEF SafeInv, NodeIsPending, lists, thread
<1> QED
  BY <1>2, <1>3 DEF Safe

(* While the cores are flushed the thread has no row in hand that it writes, or   *)
(* it gives back the classifier entry of the last one.                          *)
LEMMA FlushMeetsNoRow ==
  ASSUME SafeInv, mcu = "stopping"
  PROVE  /\ Spared({"end"}) => \A s \in used : "DELETING" \notin status[s]
         /\ Spared({"flight", "end"}) => node = Nobody
         /\ Spared({"flight", "end", "encap"}) =>
              /\ pc \notin InHand \ {"undo"} /\ pc \notin Writes \ {"undo"}
              /\ pc = "undo" => row.slot \in used /\ row.slot \in tcls
              /\ pc # "oops"
<1>1. Spared({"flight"}) =>
        pc \in {"sleep", "check"} \/ (pc \in {"walk", "undo", "oops"} /\ node = Nobody)
  BY DEF SafeInv, IInv, SweepFacts
<1>2. Spared({"end"}) => \A s \in used : "DELETING" \notin status[s]
  BY DEF SafeInv, IInv, DeletionIsAlone, Ending
<1>3. Spared({"flight", "end"}) => node = Nobody
  BY <1>1, SparedMore DEF SafeInv, NodeIsPending
<1>4. Spared({"flight", "end", "encap"}) =>
        /\ pc \notin InHand \ {"undo"} /\ pc \notin Writes \ {"undo"}
        /\ pc = "undo" => row.slot \in used /\ row.slot \in tcls
        /\ pc # "oops"
  BY <1>1, SparedMore DEF SafeInv, RowHasClassifier, RowIsKept, InHand, Writes
<1> QED
  BY <1>2, <1>3, <1>4

(* The row whose copy is zeroed does not say that it receives.                  *)
LEMMA FlushParamsSafe ==
  ASSUME SafeInv, FlushParams
  PROVE  Safe'
<1>1. /\ mcu = "stopping" /\ zeroed = Nobody
      /\ UNCHANGED <<used, status, cache, tcls, pending, pc, node, row, refs, dipLock, disorder>>
  BY DEF FlushParams, lists, thread, filter
<1>2. PICK s \in todo : params' = [params EXCEPT ![s] = NoParams] /\ zeroed' = s
  BY DEF FlushParams
<1>3. /\ used \subseteq Slots /\ params \in [Slots -> Params] /\ s \in Slots
      /\ NoParams.tunnel = Nobody /\ ~Receives(NoParams)
  BY DEF SafeInv, IInv, TypeOK, NoParams, Receives
<1>4. params'[s] = NoParams /\ \A r \in Slots \ {s} : params'[r] = params[r]
  BY <1>2, <1>3
<1>5. NodeIsPending' /\ RowIsKept'
  BY <1>1, SparedStill DEF SafeInv, NodeIsPending, RowIsKept, InHand, Writes
<1>6. RowHasClassifier'
  <2> SUFFICES ASSUME Spared({"flight", "end", "encap"})
               PROVE  RowHasClassifier'
    BY <1>1, SparedStill DEF RowHasClassifier
  <2>1. pc = "undo" =>
          "UPDATING" \in status'[row.slot] \/ ~Receives(params'[row.slot])
    BY <1>1, <1>3, <1>4, FlushMeetsNoRow DEF SafeInv, RowHasClassifier
  <2>2. \A r \in used :
          /\ "DELETING" \in status'[r] => r \in tcls
          /\ "DELETING" \in status'[r] \/ Receives(cache[r])
          /\ "UPDATING" \notin status'[r] =>
               /\ Receives(params'[r]) => r \in tcls
               /\ "UPDATED" \in status'[r] /\ r # zeroed' => Receives(params'[r])
    BY <1>1, <1>2, <1>3, <1>4, SetsAssumption DEF SafeInv, RowHasClassifier
  <2> QED
    BY <1>1, <2>1, <2>2, FlushMeetsNoRow DEF RowHasClassifier
<1>7. FilterIsFree'
  <2>1. pc \in InHand /\ Spared({"end"}) => row.slot \in used
    BY DEF SafeInv, RowIsKept
  <2> QED
    BY <1>1, <1>3, <1>4, <2>1, SparedStill DEF SafeInv, FilterIsFree
<1> QED
  BY <1>5, <1>6, <1>7 DEF Safe

(* The row is as new; it was not to be deleted, and the thread walks no list.   *)
LEMMA FlushRowSafe ==
  ASSUME SafeInv, FlushRow
  PROVE  Safe'
<1>1. /\ mcu = "stopping" /\ zeroed # Nobody
      /\ UNCHANGED <<used, cache, params, tcls, pc, node, row, refs, dipLock, disorder>>
      /\ status' = [status EXCEPT ![zeroed] = {"INIT"}]
  BY DEF FlushRow, thread, filter
<1>2. PICK fresh \in SUBSET Bits : fresh = {"INIT"}
  BY DEF Bits
<1>3. /\ zeroed \in used /\ used \subseteq Slots /\ status'[zeroed] = {"INIT"}
      /\ \A s \in Slots \ {zeroed} : status'[s] = status[s]
  <2>1. zeroed \in used /\ used \subseteq Slots /\ status \in [Slots -> SUBSET Bits]
    BY <1>1 DEF SafeInv, IInv, SweepFacts, TypeOK
  <2>2. status' = [status EXCEPT ![zeroed] = fresh]
    BY <1>1, <1>2
  <2> QED
    BY <1>2, <2>1, <2>2
<1>4. NodeIsPending'
  BY <1>1, SparedStill, FlushMeetsNoRow DEF SafeInv, NodeIsPending
<1>5. RowIsKept'
  BY <1>1, <1>3, SparedStill DEF SafeInv, RowIsKept, InHand, Writes
<1>6. RowHasClassifier'
  <2> SUFFICES ASSUME Spared({"flight", "end", "encap"})
               PROVE  RowHasClassifier'
    BY <1>1, SparedStill DEF RowHasClassifier
  <2>1. ~Receives(params[zeroed])
    BY <1>1, SparedMore DEF SafeInv, IInv, SweepFacts, NoParams, Receives
  <2>2. \A s \in used : Receives(cache[s])
    BY <1>1, FlushMeetsNoRow, SparedMore DEF SafeInv, RowHasClassifier
  <2>3. pc = "undo" => "UPDATING" \in status'[row.slot] \/ ~Receives(params[row.slot])
    BY <1>1, <1>3, <2>1, FlushMeetsNoRow DEF SafeInv, RowHasClassifier
  <2>4. \A s \in used :
          /\ "DELETING" \notin status'[s]
          /\ "UPDATING" \notin status'[s] =>
               /\ Receives(params[s]) => s \in tcls
               /\ "UPDATED" \in status'[s] => Receives(params[s])
    BY <1>1, <1>3, <2>1, FlushMeetsNoRow, SparedMore DEF SafeInv, RowHasClassifier
  <2> QED
    BY <1>1, <2>2, <2>3, <2>4, FlushMeetsNoRow DEF RowHasClassifier
<1>7. FilterIsFree'
  BY <1>1, <1>3, SparedStill DEF SafeInv, FilterIsFree
<1> QED
  BY <1>4, <1>5, <1>6, <1>7 DEF Safe

(* A row submitted anew is touched like by a call that changes nothing of it.    *)
LEMMA RecoverRowTouches ==
  ASSUME SafeInv, RecoverRow, Spared({"end"})
  PROVE  \E s \in Slots : Touches(s) /\ Changes(s)
<1>1. PICK s \in todo : Submit(s, status[s])
  BY DEF RecoverRow
<1>2. /\ mcu = "starting"
      /\ UNCHANGED <<used, cache, params, tcls, refs, dipLock, zeroed, disorder>>
  BY DEF RecoverRow, filter
<1>3. /\ s \in used /\ s \in Slots /\ status \in [Slots -> SUBSET Bits]
      /\ "DELETING" \notin status[s]
      /\ Spared({"flight"}) => "QUEUED" \in status[s] \/ s \notin submitted \cup pending
  BY <1>1, <1>2
     DEF SafeInv, IInv, SweepFacts, TypeOK, DeletionIsAlone, Ending, QueuedIsListed
<1>4. /\ status' = [status EXCEPT ![s] = status[s]] \/ status' = [status EXCEPT ![s] = Queued(status[s])]
      /\ UNCHANGED <<pending, node, row>> /\ Wakes
  BY <1>1, <1>3, SubmitIsSafe DEF SafeInv, IInv
<1>5. Touches(s) /\ Changes(s)
  BY <1>2, <1>3, <1>4 DEF Touches, Changes
<1> QED
  BY <1>3, <1>5

LEMMA RecoverRowSafe ==
  ASSUME SafeInv, RecoverRow
  PROVE  Safe'
<1>1. CASE Spared({"end"})
  BY <1>1, RecoverRowTouches, TouchIsSafe
<1>2. CASE ~Spared({"end"})
  BY <1>2, SafeSparesEnd DEF RecoverRow
<1> QED
  BY <1>1, <1>2

(* No row is in hand in the beginning, and no address in the filter.            *)
LEMMA SafeInitially ==
  ASSUME Init
  PROVE  SafeInv
<1>1. IInv
  BY Initial
<1>2. \A s \in Slots : "DELETING" \notin status[s]
  BY DEF Init
<1>3. NodeIsPending /\ RowIsKept /\ RowHasClassifier /\ FilterIsFree
  BY <1>2
     DEF Init, InitFilter, NodeIsPending, RowIsKept, RowHasClassifier, FilterIsFree,
         InHand, Writes
<1> QED
  BY <1>1, <1>3 DEF SafeInv

(* Every step keeps the thread safe.                                            *)
LEMMA SafeStep ==
  ASSUME SafeInv, [Next]_vars
  PROVE  SafeInv'
<1>1. IInv'
  BY Step DEF SafeInv
<1>2. CASE Next
  <2>1. Safe'
    BY <1>2, NetworkSafe, ThreadSafe, BreaksSafe, FlushParamsSafe, FlushRowSafe, RecoverRowSafe
       DEF Next, Recovery
  <2> QED
    BY <1>1, <2>1 DEF SafeInv, Safe
<1>3. CASE UNCHANGED vars
  <2>1. UNCHANGED <<rows, lists, thread, others>>
    BY <1>3 DEF vars
  <2>2. RowIsKept' /\ RowHasClassifier' /\ FilterIsFree'
    BY <2>1, HandFrame DEF rows, thread, others, sweep, filter
  <2>3. NodeIsPending'
    BY <2>1, SparedStill DEF SafeInv, NodeIsPending, lists, thread, others
  <2> QED
    BY <1>1, <2>2, <2>3 DEF SafeInv
<1> QED
  BY <1>2, <1>3

(* The invariant behind the thread's safety, for any rows, tunnels, addresses    *)
(* and failures; its parts name the disorders they do not survive, "pce" for     *)
(* dip_hw.lock among them.                                                      *)
THEOREM SafeInvariance == Spec => []SafeInv
<1>1. Init => SafeInv
  BY SafeInitially
<1>2. SafeInv /\ [Next]_vars => SafeInv'
  BY SafeStep
<1> QED
  BY <1>1, <1>2, PTL DEF Spec

(* tnl_sync_task runs neither off its lists nor into a classifier entry that is  *)
(* not there, whatever the addresses.                                           *)
THEOREM ThreadNeverStrays == Spec => []ThreadStaysOnList
<1>1. SafeInv => ThreadStaysOnList
  BY SparedMore DEF SafeInv, NodeIsPending, RowHasClassifier, ThreadStaysOnList
<1> QED
  BY <1>1, SafeInvariance, PTL

(* The same, and mtk_pce_dipfilter_entry_del does not keep dip_hw.lock, if the   *)
(* tunnels have local addresses of their own and the engine takes what is        *)
(* written to it; when it does not, the function returns with the lock held.     *)
THEOREM ThreadStaysSafe ==
  ASSUME OwnAddresses
  PROVE  Spec => []ThreadIsSafe
<1>1. SafeInv => ThreadIsSafe
  BY SparedMore
     DEF SafeInv, NodeIsPending, RowHasClassifier, FilterIsFree, ThreadIsSafe,
         ThreadStaysOnList
<1> QED
  BY <1>1, SafeInvariance, PTL

--------------------------------------------------------------------------------
(* The table follows the driver                                                 *)

(* What TableInv adds to IInv                                                   *)
InOrder == Spared({"flight", "mac"})
Follows == BitsAgree /\ (InOrder => CoresHaveNothing /\ RowIsWritten /\ TableFollows)

(* A step that leaves the rows, the table and the machine alone, and takes the  *)
(* row in hand no further than where nothing new is asked of it                 *)
LEMMA TableFrame ==
  ASSUME TableInv, UNCHANGED <<used, status, cache, params, mcu, table, known, sweep, disorder>>,
         row' = row \/ pc' \notin InHand,
         \/ pc' = pc
         \/ pc' \in {"sleep", "check", "walk", "astray", "oops"}
         \/ pc \in {"cls", "undip"} /\ pc' = "ask"
         \/ pc = "ask" /\ pc' = "wait"
         \/ pc \in InHand \ {"dip"} /\ pc' = "undo" /\ row.event # "DEL"
  PROVE  Follows'
<1>1. BitsAgree'
  BY DEF TableInv, BitsAgree, InHand
<1>2. InOrder' => InOrder
  BY DEF InOrder, Spared
<1>3. ASSUME InOrder
      PROVE  CoresHaveNothing' /\ RowIsWritten' /\ TableFollows'
  <2>1. CoresHaveNothing /\ RowIsWritten /\ TableFollows /\ RowInHand
    BY <1>3 DEF TableInv, IInv, InOrder
  <2>2. TableFollows'
    BY <2>1 DEF TableFollows, IsSynced
  <2>3. CoresHaveNothing'
    <3>1. pc = "undip" => mcu \notin {"stopped", "off", "booted", "starting"}
      BY <2>1 DEF CoresHaveNothing, RowIsWritten, RowInHand, TableInv, BitsAgree, InHand, Deletes
    <3> QED
      BY <2>1, <3>1 DEF CoresHaveNothing, Settled, InHand, sweep
  <2>4. RowIsWritten'
    BY <2>1 DEF RowIsWritten, RowInHand, Deletes, InHand, Writes
  <2> QED
    BY <2>2, <2>3, <2>4
<1> QED
  BY <1>1, <1>2, <1>3 DEF Follows

(* The steps of the thread that neither take a row nor write one                *)
LEMMA LoopFollows ==
  ASSUME TableInv,
         \/ Check \/ WalkEnds \/ GoesAstray \/ PutOff \/ Passes \/ SetUpCls \/ Ask
         \/ Refused \/ SetUpDip \/ Undo \/ TearDownDip
  PROVE  Follows'
<1>1. /\ UNCHANGED <<used, status, cache, params, mcu, table, known, sweep, disorder>>
      /\ row' = row \/ pc' \notin InHand
  BY DEF Check, WalkEnds, GoesAstray, PutOff, Passes, Leaves, SetUpCls, Ask, Refused,
         SetUpDip, Undo, TearDownDip, GoesTo, At, InHand, rows, cores, others
<1>2. \/ pc' \in {"sleep", "check", "walk", "astray", "oops"}
      \/ pc \in {"cls", "undip"} /\ pc' = "ask"
      \/ pc = "ask" /\ pc' = "wait"
      \/ pc \in InHand \ {"dip"} /\ pc' = "undo" /\ row.event # "DEL"
  BY DEF Check, WalkEnds, GoesAstray, PutOff, Passes, Leaves, SetUpCls, Ask, Refused,
         SetUpDip, Undo, TearDownDip, GoesTo, Fails, At, InHand
<1> QED
  BY <1>1, <1>2, TableFrame

(* A row that is taken is the driver's, and the firmware knows it if it is an   *)
(* update.                                                                      *)
LEMMA TakeRowFollows ==
  ASSUME TableInv, TakeRow
  PROVE  Follows'
<1>1. /\ pc = "walk" /\ node \in Slots /\ "QUEUED" \in status[node]
      /\ row' = [slot |-> node, event |-> EventOf(status[node]), pce |-> BeginsToReceive(node)]
      /\ status' = [status EXCEPT ![node] = Updating(@)]
      /\ pc' \in {"undip", "cls", "ask"}
      /\ pc' = "undip" <=> EventOf(status[node]) = "DEL"
      /\ UNCHANGED <<used, cache, mcu, table, known, disorder>>
  BY DEF TakeRow, Leaves, At, cores
<1>2. /\ status \in [Slots -> SUBSET Bits]
      /\ used \subseteq Slots /\ node \in used
  BY <1>1 DEF TableInv, BitsAgree, IInv, TypeOK
<1>3. /\ "UPDATED" \notin status'[node] /\ "QUEUED" \notin status'[node]
      /\ "INIT" \in status'[node] <=> "INIT" \in status[node]
      /\ "DELETING" \in status'[node] <=> "DELETING" \in status[node]
      /\ \A s \in Slots \ {node} : status'[s] = status[s] /\ params'[s] = params[s]
  BY <1>1, <1>2, TakenRow DEF Updating, TableInv, IInv
<1>4. BitsAgree'
  BY <1>1, <1>2, <1>3 DEF TableInv, BitsAgree
<1>5. /\ row'.slot = node
      /\ row'.event = "NEW" <=> "INIT" \in status[node]
      /\ row'.event = "DEL" <=> "INIT" \notin status[node] /\ "DELETING" \in status[node]
  BY <1>1 DEF EventOf
<1>6. ASSUME InOrder'
      PROVE  CoresHaveNothing' /\ RowIsWritten' /\ TableFollows'
  <2>1. CoresHaveNothing /\ RowIsWritten /\ TableFollows /\ Spared({"flight"})
    BY <1>1, <1>6 DEF TableInv, InOrder, Spared
  <2>f. params'[node] = cache[node] /\ mcu # "stopping"
    BY <1>1, <2>1, TakenRow, SetsAssumption DEF TableInv, IInv, SweepFacts
  <2>2. CoresHaveNothing'
    BY <1>1, <1>2, <1>3, <1>5, <2>1, <2>f DEF CoresHaveNothing, Settled
  <2>3. EventOf(status[node]) = row'.event
    BY <1>1
  <2>4. RowIsWritten'
    BY <1>1, <1>2, <1>3, <1>5, <2>1, <2>f, <2>3 DEF RowIsWritten, TableFollows, Writes
  <2>5. TableFollows'
    BY <1>1, <1>2, <1>3, <2>1 DEF TableFollows, IsSynced
  <2> QED
    BY <2>2, <2>4, <2>5
<1> QED
  BY <1>4, <1>6 DEF Follows

(* The cores are stalled, the row is copied, and the cores run again and are    *)
(* told: the steps leave the driver's rows alone.                               *)
LEMMA CopyFollows ==
  ASSUME TableInv, Granted \/ Transfer \/ Thaw
  PROVE  Follows'
<1>1. /\ pc \in {"wait", "transfer", "thaw"} /\ pc' \in {"transfer", "thaw", "synced", "clear", "walk", "undo"}
      /\ UNCHANGED <<used, status, cache, params, disorder>>
      /\ RowStays
  BY DEF RowStays, Granted, Transfer, Thaw, At, GoesTo, Fails, rows, others
<1>2. BitsAgree'
  BY <1>1 DEF RowStays, TableInv, BitsAgree, InHand
<1>3. ASSUME InOrder'
      PROVE  CoresHaveNothing' /\ RowIsWritten' /\ TableFollows'
  <2>1. /\ CoresHaveNothing /\ RowIsWritten /\ TableFollows /\ RowInHand
        /\ mcu # "stopping" /\ row.slot \in used /\ "UPDATED" \notin status[row.slot]
        /\ used \subseteq Slots /\ table \in [Slots -> Params]
    BY <1>1, <1>3 DEF TableInv, IInv, TypeOK, BitsAgree, SweepFacts, InOrder, Spared, InHand
  <2>2. CASE Granted
    <3>1. /\ mcu' = "frozen" /\ UNCHANGED <<table, known>> /\ pc = "wait"
          /\ pc' = IF row.event = "DEL" THEN "thaw" ELSE "transfer"
      BY <2>2 DEF Granted, GoesTo, At
    <3> QED
      BY <1>1, <2>1, <3>1
         DEF RowStays, CoresHaveNothing, RowIsWritten, TableFollows, IsSynced, InHand, Writes
  <2>3. CASE Transfer
    <3>1. /\ pc = "transfer" /\ pc' = "thaw" /\ UNCHANGED <<mcu, known>>
          /\ table' = [table EXCEPT ![row.slot] = params[row.slot]]
      BY <2>3 DEF Transfer, GoesTo, At
    <3>2. /\ table'[row.slot] = params[row.slot]
          /\ \A s \in Slots \ {row.slot} : table'[s] = table[s]
      BY <2>1, <3>1
    <3>3. mcu' = "frozen" /\ row.event # "DEL"
      BY <2>1, <3>1 DEF RowIsWritten, RowInHand
    <3>4. RowIsWritten'
      BY <1>1, <2>1, <3>1, <3>2, <3>3 DEF RowStays, RowIsWritten, InHand, Writes
    <3> QED
      BY <1>1, <2>1, <3>1, <3>2, <3>3, <3>4 DEF CoresHaveNothing, TableFollows, IsSynced
  <2>4. CASE Thaw
    <3>1. pc = "thaw" /\ mcu' = "up" /\ UNCHANGED table
      BY <2>4 DEF Thaw, At
    <3>2. \/ UNCHANGED known /\ pc' = Fails
          \/ row.event = "NEW" /\ known' = known \cup {row.slot} /\ pc' = "synced"
          \/ row.event = "DEL" /\ known' = known \ {row.slot} /\ pc' = "clear"
          \/ row.event \notin {"NEW", "DEL"} /\ UNCHANGED known /\ pc' = "synced"
      BY <2>4 DEF Thaw, GoesTo
    <3>3. /\ row.event = "DEL" => "DELETING" \in status[row.slot] /\ "INIT" \notin status[row.slot]
          /\ row.event # "DEL" => "QUEUED" \in status[row.slot] \/ params[row.slot] = cache[row.slot]
          /\ row.event # "DEL" => table[row.slot] = params[row.slot]
          /\ row.event \notin {"NEW", "DEL"} => row.slot \in known
      BY <2>1, <3>1 DEF RowIsWritten, InHand, Writes
    <3>4. RowIsWritten'
      BY <1>1, <3>1, <3>2, <3>3 DEF RowStays, RowIsWritten, Fails, InHand, Writes
    <3>5. TableFollows'
      BY <1>1, <2>1, <3>1, <3>2, <3>3 DEF TableFollows, IsSynced
    <3> QED
      BY <3>1, <3>4, <3>5 DEF CoresHaveNothing
  <2> QED
    BY <2>2, <2>3, <2>4
<1> QED
  BY <1>2, <1>3 DEF Follows

(* A row that becomes UPDATED was written from the copy it has, or is queued.   *)
LEMMA SyncedFollows ==
  ASSUME TableInv, Synced
  PROVE  Follows'
<1>1. /\ pc = "synced" /\ pc' \in {"dip", "walk"}
      /\ status' = [status EXCEPT ![row.slot] = Updated(@)]
      /\ UNCHANGED <<used, cache, params, mcu, table, known, disorder>>
      /\ RowStays
  BY DEF RowStays, Synced, GoesTo, At, cores, others
<1>2. /\ status \in [Slots -> SUBSET Bits] /\ used \subseteq Slots /\ row.slot \in used
  BY <1>1 DEF TableInv, BitsAgree, IInv, TypeOK, InHand
<1>3. /\ "INIT" \notin status'[row.slot]
      /\ "QUEUED" \in status'[row.slot] <=> "QUEUED" \in status[row.slot]
      /\ "DELETING" \in status'[row.slot] <=> "DELETING" \in status[row.slot]
      /\ \A s \in Slots \ {row.slot} : status'[s] = status[s]
  BY <1>1, <1>2 DEF Updated
<1>4. BitsAgree'
  BY <1>1, <1>2, <1>3 DEF RowStays, TableInv, BitsAgree, InHand
<1>5. ASSUME InOrder'
      PROVE  CoresHaveNothing' /\ RowIsWritten' /\ TableFollows'
  <2>1. /\ CoresHaveNothing /\ RowIsWritten /\ TableFollows
        /\ mcu \notin {"stopping", "stopped", "off", "booted", "starting"}
        /\ row.event # "DEL" /\ row.slot \in known
        /\ "QUEUED" \in status[row.slot] \/ table[row.slot] = cache[row.slot]
    BY <1>1, <1>5
       DEF TableInv, IInv, SweepFacts, CoresHaveNothing, RowIsWritten, Settled, Writes,
           InOrder, Spared
  <2>2. CoresHaveNothing' /\ RowIsWritten'
    BY <1>1, <2>1 DEF RowStays, NoRow, CoresHaveNothing, RowIsWritten, Writes
  <2>3. TableFollows'
    BY <1>1, <1>2, <1>3, <2>1 DEF TableFollows, IsSynced
  <2> QED
    BY <2>2, <2>3
<1> QED
  BY <1>4, <1>5 DEF Follows

(* The row that is deleted is cleared, erased from the cores' memory and freed. *)
LEMMA DeletionFollows ==
  ASSUME TableInv, ClearRow \/ EraseRow \/ Free
  PROVE  Follows'
<1>1. /\ pc \in {"clear", "erase", "free"} /\ pc' \in {"erase", "free", "walk", "oops"}
      /\ UNCHANGED <<mcu, known, disorder>>
      /\ RowStays
  BY DEF RowStays, ClearRow, EraseRow, Free, GoesTo, At, cores, others
<1>2. /\ row.slot \in used /\ used \subseteq Slots /\ "UPDATED" \notin status[row.slot]
      /\ row.event = "DEL"
      /\ status \in [Slots -> SUBSET Bits] /\ cache \in [Slots -> Params]
      /\ params \in [Slots -> Params] /\ table \in [Slots -> Params]
  BY <1>1 DEF TableInv, BitsAgree, IInv, TypeOK, RowInHand, InHand, Deletes
<1>3. /\ used' \subseteq used
      /\ \A s \in Slots \ {row.slot} :
           /\ s \in used' <=> s \in used
           /\ status'[s] = status[s] /\ cache'[s] = cache[s] /\ table'[s] = table[s]
      /\ \/ row.slot \in used' /\ status'[row.slot] = status[row.slot]
         \/ /\ row.slot \notin used' /\ pc = "free" /\ pc' = "walk"
            /\ "UPDATED" \notin status'[row.slot] /\ "QUEUED" \notin status'[row.slot]
  <2>1. CASE ClearRow \/ EraseRow
    BY <1>2, <2>1 DEF ClearRow, EraseRow, rows, cores
  <2>2. CASE Free
    <3>1. PICK bits \in SUBSET Bits : bits = {"UNINIT"}
      BY DEF Bits
    <3>2. /\ UNCHANGED <<cache, table>> /\ pc = "free"
          /\ \/ UNCHANGED <<used, status>>
             \/ /\ used' = used \ {row.slot} /\ pc' = "walk"
                /\ status' = [status EXCEPT ![row.slot] = bits]
      BY <2>2, <3>1 DEF Free, GoesTo, At, cores
    <3> QED
      BY <1>2, <3>1, <3>2
  <2> QED
    BY <2>1, <2>2
<1>4. BitsAgree'
  BY <1>1, <1>2, <1>3 DEF RowStays, TableInv, BitsAgree, InHand
<1>5. ASSUME InOrder'
      PROVE  CoresHaveNothing' /\ RowIsWritten' /\ TableFollows'
  <2>1. CoresHaveNothing /\ RowIsWritten /\ TableFollows /\ mcu # "stopping"
    BY <1>1, <1>5 DEF TableInv, IInv, SweepFacts, InOrder, Spared
  <2>2. /\ mcu \notin {"stopping", "stopped", "off", "booted", "starting"}
        /\ row.slot \notin known
        /\ "DELETING" \in status[row.slot] /\ "INIT" \notin status[row.slot]
        /\ pc \in {"erase", "free"} => params[row.slot] = NoParams
        /\ pc = "free" => table[row.slot] = NoParams
    BY <1>1, <1>2, <2>1 DEF CoresHaveNothing, RowIsWritten, Settled, InHand
  <2>3. CoresHaveNothing'
    BY <1>1, <2>2 DEF CoresHaveNothing
  <2>4. /\ pc' \in {"erase", "free"} => params'[row.slot] = NoParams
        /\ pc' = "free" => table'[row.slot] = NoParams
    BY <1>2, <2>2 DEF ClearRow, EraseRow, Free, GoesTo, At, rows, cores
  <2>5. pc = "free" => table'[row.slot] = NoParams
    BY <2>2 DEF ClearRow, EraseRow, Free, GoesTo, At, rows, cores
  <2>6. pc' \in InHand => status'[row.slot] = status[row.slot]
    BY <1>1, <1>3 DEF InHand
  <2>7. RowIsWritten'
    BY <1>1, <1>2, <2>2, <2>4, <2>6 DEF RowStays, RowIsWritten, Writes, InHand
  <2>8. TableFollows'
    BY <1>1, <1>2, <1>3, <2>1, <2>2, <2>5 DEF TableFollows, IsSynced
  <2> QED
    BY <2>3, <2>7, <2>8
<1> QED
  BY <1>4, <1>5 DEF Follows

(* Every step of the thread                                                     *)
LEMMA ThreadFollows ==
  ASSUME TableInv, Thread
  PROVE  Follows'
BY LoopFollows, TakeRowFollows, CopyFollows, SyncedFollows, DeletionFollows DEF Thread

(* What a call of the network, or the recovery, does to a row: bits that keep a   *)
(* row from being current stay, and its copy changes only if it is QUEUED after. *)
Stays(s) ==
  /\ s \in used /\ params'[s] = params[s]
  /\ "INIT" \in status'[s] <=> "INIT" \in status[s]
  /\ "UPDATED" \in status'[s] => "UPDATED" \in status[s]
  /\ "DELETING" \in status[s] => "DELETING" \in status'[s]
  /\ "QUEUED" \in status[s] => "QUEUED" \in status'[s]
  /\ "QUEUED" \notin status'[s] =>
       status'[s] = status[s] /\ (Spared({"mac"}) => cache'[s] = cache[s])

Begins(s) ==
  s \notin used /\ "INIT" \in status'[s] /\ "QUEUED" \in status'[s] /\ "UPDATED" \notin status'[s]

Calls(s) ==
  /\ UNCHANGED <<row, table, known, zeroed, disorder>>
  /\ pc' = pc \/ pc' \in {"astray", "check"}
  /\ used' = used \cup {s}
  /\ \A r \in Slots \ {s} :
       status'[r] = status[r] /\ cache'[r] = cache[r] /\ params'[r] = params[r]
  /\ Stays(s) \/ Begins(s)

(* What the submission of a row with some bits leaves of them                   *)
LEMMA SubmitCalls ==
  ASSUME TypeOK, NEW s \in Slots, NEW bits \in SUBSET Bits, Submit(s, bits)
  PROVE  /\ row' = row /\ (pc' = pc \/ pc' \in {"astray", "check"})
         /\ \A r \in Slots \ {s} : status'[r] = status[r]
         /\ "QUEUED" \in status'[s]
         /\ "INIT" \in status'[s] <=> "INIT" \in bits
         /\ "DELETING" \in status'[s] <=> "DELETING" \in bits
         /\ "UPDATED" \in status'[s] => "UPDATED" \in bits
<1>1. /\ row' = row /\ (pc' = pc \/ pc' \in {"astray", "check"})
      /\ \A r \in Slots \ {s} : status'[r] = status[r]
      /\ "QUEUED" \in status'[s]
  BY SubmitFacts
<1>2. status' = [status EXCEPT ![s] = bits] \/ status' = [status EXCEPT ![s] = Queued(bits)]
  BY DEF Submit
<1>3. status'[s] = bits \/ status'[s] = Queued(bits)
  BY <1>2 DEF TypeOK
<1> QED
  BY <1>1, <1>3 DEF Queued

(* Every call of the network does one of the two to one row.                    *)
LEMMA NetworkCalls ==
  ASSUME TypeOK, Network
  PROVE  UNCHANGED <<mcu, todo>> /\ \E s \in Slots : Calls(s)
<1>0. /\ used \subseteq Slots /\ status \in [Slots -> SUBSET Bits]
      /\ cache \in [Slots -> Params] /\ params \in [Slots -> Params]
  BY DEF TypeOK
<1>1. ASSUME NEW t \in Tunnels, NEW dir \in {"decap", "encap"}, NEW mac \in Macs,
             Packet(t, dir, mac)
      PROVE  \E s \in Slots : Calls(s)
  <2>1. PICK s \in used :
          /\ cache[s].tunnel = t /\ Unless("mac", mac = cache[s].mac)
          /\ Setup(s, status[s], cache[s].flag, t, dir, mac)
          /\ UNCHANGED <<used, params>>
    BY <1>1 DEF Packet
  <2>2. /\ s \in Slots /\ status[s] \in SUBSET Bits /\ cache[s] \in Params
        /\ used' = used \cup {s}
    BY <1>0, <2>1
  <2>3. /\ cache' = [cache EXCEPT
                      ![s] = [tunnel |-> t, mac |-> mac, flag |-> cache[s].flag \cup {dir}]]
        /\ UNCHANGED <<table, known, zeroed, disorder>>
    BY <2>1 DEF Setup, cores, others, sweep
  <2>4. \A r \in Slots \ {s} : cache'[r] = cache[r] /\ params'[r] = params[r]
    BY <1>0, <2>1, <2>3
  <2>5. CASE dir \in cache[s].flag
    <3>1. status' = status /\ row' = row /\ pc' = pc
      BY <1>0, <2>1, <2>5 DEF Setup, thread
    <3>2. Spared({"mac"}) => cache'[s] = cache[s]
      BY <1>0, <2>1, <2>2, <2>3, <2>5 DEF Spared, Unless, Params
    <3>3. Stays(s)
      BY <2>1, <3>1, <3>2 DEF Stays
    <3> QED
      BY <2>2, <2>3, <2>4, <3>1, <3>3 DEF Calls
  <2>6. CASE dir \notin cache[s].flag
    <3>1. Submit(s, status[s])
      BY <2>1, <2>6 DEF Setup
    <3>2. Stays(s)
      BY <2>1, <2>2, <3>1, SubmitCalls DEF Stays
    <3> QED
      BY <2>2, <2>3, <2>4, <3>1, <3>2, SubmitCalls DEF Calls
  <2> QED
    BY <2>5, <2>6
<1>2. ASSUME NEW t \in Tunnels, NEW dir \in {"decap", "encap"}, NEW mac \in Macs,
             FirstPacket(t, dir, mac)
      PROVE  \E s \in Slots : Calls(s)
  <2>1. PICK s \in Slots \ used :
          /\ used' = used \cup {s}
          /\ params' = [params EXCEPT ![s] = NoParams]
          /\ Setup(s, {"INIT"}, {}, t, dir, mac)
    BY <1>2 DEF FirstPacket
  <2>2. PICK bits \in SUBSET Bits : bits = {"INIT"}
    BY DEF Bits
  <2>3. /\ cache' = [cache EXCEPT ![s] = [tunnel |-> t, mac |-> mac, flag |-> {} \cup {dir}]]
        /\ UNCHANGED <<table, known, zeroed, disorder>>
        /\ Submit(s, bits)
    BY <2>1, <2>2 DEF Setup, cores, others, sweep
  <2>4. \A r \in Slots \ {s} : cache'[r] = cache[r] /\ params'[r] = params[r]
    BY <1>0, <2>1, <2>3
  <2>5. Begins(s)
    BY <2>1, <2>2, <2>3, SubmitCalls DEF Begins
  <2> QED
    BY <2>1, <2>3, <2>4, <2>5, SubmitCalls DEF Calls
<1>3. ASSUME NEW s \in Slots, NEW mac \in Macs, L2Update(s, mac)
      PROVE  Calls(s)
  <2>1. /\ s \in used /\ cache' = [cache EXCEPT ![s].mac = mac]
        /\ Submit(s, status[s])
        /\ UNCHANGED <<used, params, table, known, zeroed, disorder>>
    BY <1>3 DEF L2Update, cores, others, sweep
  <2>2. status[s] \in SUBSET Bits /\ used' = used \cup {s}
    BY <1>0, <2>1
  <2>3. \A r \in Slots \ {s} : cache'[r] = cache[r] /\ params'[r] = params[r]
    BY <1>0, <2>1
  <2>4. Stays(s)
    BY <2>1, <2>2, SubmitCalls DEF Stays
  <2> QED
    BY <2>1, <2>2, <2>3, <2>4, SubmitCalls DEF Calls
<1>4. ASSUME NEW t \in Tunnels, NetdevDown(t)
      PROVE  \E s \in Slots : Calls(s)
  <2>1. PICK s \in used :
          /\ Submit(s, status[s] \cup {"DELETING"})
          /\ UNCHANGED <<used, cache, params, table, known, zeroed, disorder>>
    BY <1>4 DEF NetdevDown, cores, others, sweep
  <2>2. /\ s \in Slots /\ used' = used \cup {s}
        /\ status[s] \cup {"DELETING"} \in SUBSET Bits
    BY <1>0, <2>1 DEF Bits
  <2>3. Stays(s)
    BY <2>1, <2>2, SubmitCalls DEF Stays
  <2> QED
    BY <2>1, <2>2, <2>3, SubmitCalls DEF Calls
<1>5. UNCHANGED <<cores, others>>
  <2>1. ASSUME NEW t \in Tunnels, NEW dir \in {"decap", "encap"}, NEW mac \in Macs,
               Packet(t, dir, mac) \/ FirstPacket(t, dir, mac)
        PROVE  UNCHANGED <<cores, others>>
    BY <2>1 DEF Packet, FirstPacket, Setup
  <2>2. ASSUME NEW s \in Slots, NEW mac \in Macs, L2Update(s, mac)
        PROVE  UNCHANGED <<cores, others>>
    BY <2>2 DEF L2Update
  <2>3. ASSUME NEW t \in Tunnels, NetdevDown(t)
        PROVE  UNCHANGED <<cores, others>>
    BY <2>3 DEF NetdevDown
  <2> QED
    BY <2>1, <2>2, <2>3 DEF Network
<1> QED
  BY <1>1, <1>2, <1>3, <1>4, <1>5 DEF Network, cores, others, sweep

(* A row whose copy changes is QUEUED.  The recovery calls while all are new.   *)
LEMMA CallFollows ==
  ASSUME TableInv, NEW s \in Slots, Calls(s),
         UNCHANGED <<mcu, todo>> \/ (mcu = "starting" /\ mcu' \in {"starting", "up"})
  PROVE  Follows'
<1>2. /\ UNCHANGED <<row, table, known, zeroed, disorder>>
      /\ pc' \in InHand => pc' = pc
      /\ pc' = pc \/ pc' \in {"astray", "check"}
      /\ used' = used \cup {s}
      /\ \A r \in Slots \ {s} :
           status'[r] = status[r] /\ cache'[r] = cache[r] /\ params'[r] = params[r]
  BY DEF Calls, InHand
<1>3. /\ used \subseteq Slots
      /\ pc' \in InHand => row.slot \in used
  BY <1>2 DEF TableInv, IInv, TypeOK, BitsAgree
<1>4. CASE Stays(s)
  <2>1. BitsAgree'
    BY <1>2, <1>3, <1>4 DEF TableInv, BitsAgree, Stays
  <2>2. ASSUME InOrder'
        PROVE  CoresHaveNothing' /\ RowIsWritten' /\ TableFollows'
    <3>1. CoresHaveNothing /\ RowIsWritten /\ TableFollows /\ Spared({"mac"})
      BY <1>2, <2>2 DEF TableInv, InOrder, Spared
    <3>2. CoresHaveNothing'
      BY <1>2, <1>3, <1>4, <3>1 DEF CoresHaveNothing, Settled, Stays
    <3>3. RowIsWritten'
      BY <1>2, <1>3, <1>4, <3>1 DEF RowIsWritten, InHand, Writes, Stays
    <3>4. TableFollows'
      BY <1>2, <1>3, <1>4, <3>1 DEF TableFollows, IsSynced, Stays
    <3> QED
      BY <3>2, <3>3, <3>4
  <2> QED
    BY <2>1, <2>2 DEF Follows
<1>5. CASE Begins(s)
  <2>1. BitsAgree'
    BY <1>2, <1>3, <1>5 DEF TableInv, BitsAgree, Begins
  <2>2. ASSUME InOrder'
        PROVE  CoresHaveNothing' /\ RowIsWritten' /\ TableFollows'
    <3>1. CoresHaveNothing /\ RowIsWritten /\ TableFollows
      BY <1>2, <2>2 DEF TableInv, InOrder, Spared
    <3>2. CoresHaveNothing'
      BY <1>2, <1>3, <1>5, <3>1 DEF CoresHaveNothing, Settled, Begins
    <3>3. RowIsWritten'
      BY <1>2, <1>3, <1>5, <3>1 DEF RowIsWritten, InHand, Writes, Begins
    <3>4. TableFollows'
      BY <1>2, <1>3, <1>5, <3>1 DEF TableFollows, IsSynced, Begins
    <3> QED
      BY <3>2, <3>3, <3>4
  <2> QED
    BY <2>1, <2>2 DEF Follows
<1> QED
  BY <1>4, <1>5 DEF Calls

(* The calls of the network, and the rows that the recovery submits              *)
LEMMA NetworkFollows ==
  ASSUME TableInv, Network \/ RecoverRow
  PROVE  Follows'
<1>1. CASE Network
  BY <1>1, NetworkCalls, CallFollows DEF TableInv, IInv
<1>2. CASE RecoverRow
  <2>1. PICK s \in todo : Submit(s, status[s])
    BY <1>2 DEF RecoverRow
  <2>2. /\ s \in Slots /\ s \in used /\ status[s] \in SUBSET Bits /\ TypeOK
        /\ mcu = "starting" /\ mcu' \in {"starting", "up"}
        /\ UNCHANGED <<used, cache, params, table, known, zeroed, disorder>>
    BY <1>2, <2>1 DEF RecoverRow, TableInv, IInv, TypeOK, SweepFacts
  <2>3. Stays(s)
    BY <2>1, <2>2, SubmitCalls DEF Stays
  <2>4. Calls(s)
    <3>1. /\ row' = row /\ (pc' = pc \/ pc' \in {"astray", "check"})
          /\ \A r \in Slots \ {s} : status'[r] = status[r]
      BY <2>1, <2>2, SubmitCalls
    <3> QED
      BY <2>2, <2>3, <3>1 DEF Calls
  <2> QED
    BY <2>2, <2>4, CallFollows
<1> QED
  BY <1>1, <1>2

(* The cores lose the table only while no row is UPDATED.                       *)
LEMMA BreaksFollows ==
  ASSUME TableInv, Breaks \/ PowerOff \/ Boots
  PROVE  Follows'
<1>1. UNCHANGED <<used, status, cache, params, row, pc, sweep, disorder>>
  BY DEF Breaks, PowerOff, Boots, rows, thread, others
<1>2. CASE Breaks
  BY <1>1, <1>2, TableFrame DEF Breaks
<1>3. BitsAgree'
  BY <1>1 DEF TableInv, BitsAgree
<1>4. ASSUME PowerOff \/ Boots, InOrder'
      PROVE  CoresHaveNothing' /\ RowIsWritten' /\ TableFollows'
  <2>1. CoresHaveNothing /\ RowIsWritten /\ TableFollows /\ BitsAgree
    BY <1>1, <1>4 DEF TableInv, InOrder, Spared
  <2>2. /\ mcu \in {"stopped", "off"} /\ mcu' \in {"off", "booted"}
        /\ \/ mcu = "off" /\ UNCHANGED <<table, known>>
           \/ table' = [s \in Slots |-> NoParams] /\ known' = {}
    BY <1>4 DEF PowerOff, Boots
  <2>3. /\ \A s \in used : "INIT" \in status[s]
        /\ \A s \in Slots : ~IsSynced(s)
    BY <2>1, <2>2 DEF CoresHaveNothing, BitsAgree, IsSynced
  <2>4. CoresHaveNothing'
    BY <1>1, <2>1, <2>2, <2>3 DEF CoresHaveNothing
  <2>5. RowIsWritten'
    BY <1>1, <2>1, <2>2 DEF CoresHaveNothing, RowIsWritten, Settled, Writes
  <2>6. TableFollows'
    BY <1>1, <2>1, <2>2, <2>3 DEF TableFollows, IsSynced
  <2> QED
    BY <2>4, <2>5, <2>6
<1> QED
  BY <1>2, <1>3, <1>4 DEF Follows

(* The flush begins while the thread has no row in hand, and the rows are back    *)
(* once every row in use has been submitted anew, which none of them is before.  *)
LEMMA TurnsFollow ==
  ASSUME TableInv, GoDown \/ ComeUp
  PROVE  Follows'
<1>1. UNCHANGED <<used, status, cache, params, row, pc, table, known, zeroed, disorder>>
  BY DEF GoDown, ComeUp, rows, thread
<1>2. BitsAgree'
  BY <1>1 DEF TableInv, BitsAgree
<1>3. ASSUME InOrder'
      PROVE  CoresHaveNothing' /\ RowIsWritten' /\ TableFollows'
  <2>1. CoresHaveNothing /\ RowIsWritten /\ TableFollows /\ Spared({"flight"})
    BY <1>1, <1>3 DEF TableInv, InOrder, Spared
  <2>2. TableFollows'
    BY <1>1, <2>1 DEF TableFollows, IsSynced
  <2>3. CASE GoDown
    <3>1. /\ pc \in {"sleep", "check", "walk", "undo"} /\ todo' = used
          /\ mcu' = IF used = {} THEN "stopped" ELSE "stopping"
      BY <2>1, <2>3 DEF GoDown, Quiet, Unless, Spared
    <3>2. CoresHaveNothing'
      BY <1>1, <3>1 DEF CoresHaveNothing, Settled
    <3>3. RowIsWritten'
      BY <1>1, <2>1, <3>1 DEF RowIsWritten
    <3> QED
      BY <2>2, <3>2, <3>3
  <2>4. CASE ComeUp
    <3>1. mcu = "booted" /\ mcu' \in {"up", "starting"}
      BY <2>4 DEF ComeUp
    <3>2. CoresHaveNothing'
      BY <1>1, <2>1, <3>1 DEF CoresHaveNothing
    <3>3. RowIsWritten'
      BY <1>1, <2>1, <3>1 DEF CoresHaveNothing, RowIsWritten, Settled
    <3> QED
      BY <2>2, <3>2, <3>3
  <2> QED
    BY <2>3, <2>4
<1> QED
  BY <1>2, <1>3 DEF Follows

(* The flush zeroes the copy of a row while the thread writes none.              *)
LEMMA FlushParamsFollows ==
  ASSUME TableInv, FlushParams
  PROVE  Follows'
<1>1. /\ mcu = "stopping" /\ zeroed = Nobody
      /\ UNCHANGED <<used, status, cache, row, pc, mcu, table, known, disorder>>
  BY DEF FlushParams, thread, cores
<1>2. zeroed' \in todo /\ todo' = todo \ {zeroed'}
  BY DEF FlushParams
<1>3. BitsAgree'
  BY <1>1 DEF TableInv, BitsAgree
<1>4. ASSUME InOrder'
      PROVE  CoresHaveNothing' /\ RowIsWritten' /\ TableFollows'
  <2>1. /\ CoresHaveNothing /\ RowIsWritten /\ TableFollows
        /\ pc \in {"sleep", "check", "walk", "undo", "oops"} /\ used \subseteq Slots
    BY <1>1, <1>4 DEF TableInv, IInv, TypeOK, SweepFacts, InOrder, Spared
  <2>2. CoresHaveNothing'
    BY <1>1, <1>2, <2>1, SetsAssumption DEF CoresHaveNothing
  <2>3. RowIsWritten'
    BY <1>1, <2>1 DEF RowIsWritten, Writes, InHand
  <2>4. TableFollows'
    BY <1>1, <2>1 DEF TableFollows, IsSynced
  <2> QED
    BY <2>2, <2>3, <2>4
<1> QED
  BY <1>3, <1>4 DEF Follows

(* A row that was flushed is a new one; when all were, the cores are stopped.    *)
LEMMA FlushRowFollows ==
  ASSUME TableInv, FlushRow
  PROVE  Follows'
<1>1. /\ mcu = "stopping" /\ mcu' = IF todo = {} THEN "stopped" ELSE "stopping"
      /\ UNCHANGED <<used, cache, params, row, pc, table, known, todo, disorder>>
      /\ status' = [status EXCEPT ![zeroed] = {"INIT"}]
  BY DEF FlushRow, thread
<1>2. /\ status \in [Slots -> SUBSET Bits] /\ used \subseteq Slots
      /\ zeroed \in used /\ zeroed \in Slots
  BY DEF FlushRow, TableInv, IInv, TypeOK, SweepFacts
<1>3. /\ status'[zeroed] = {"INIT"}
      /\ \A s \in Slots \ {zeroed} : status'[s] = status[s]
  BY <1>1, <1>2, Zenon
<1>4. BitsAgree'
  BY <1>1, <1>2, <1>3 DEF TableInv, BitsAgree, InHand
<1>5. ASSUME InOrder'
      PROVE  CoresHaveNothing' /\ RowIsWritten' /\ TableFollows'
  <2>1. /\ CoresHaveNothing /\ RowIsWritten /\ TableFollows
        /\ pc \in {"sleep", "check", "walk", "undo", "oops"}
    BY <1>1, <1>5 DEF TableInv, IInv, SweepFacts, InOrder, Spared
  <2>2. CoresHaveNothing'
    <3>1. \A s \in used \ todo : "INIT" \in status'[s]
      BY <1>1, <1>2, <1>3, <2>1 DEF CoresHaveNothing
    <3> QED
      BY <1>1, <2>1, <3>1 DEF CoresHaveNothing, Settled
  <2>3. RowIsWritten'
    BY <1>1, <2>1 DEF RowIsWritten, Writes, InHand
  <2>4. TableFollows'
    BY <1>1, <1>2, <1>3, <2>1 DEF TableFollows, IsSynced
  <2> QED
    BY <2>2, <2>3, <2>4
<1> QED
  BY <1>4, <1>5 DEF Follows

(* In the beginning no row is in use, and the cores know none.                  *)
LEMMA TableInitially ==
  ASSUME Init
  PROVE  TableInv
<1>1. IInv
  BY Initial
<1>2. \A s \in Slots : {"INIT", "QUEUED", "UPDATED"} \cap status[s] = {}
  BY DEF Init
<1>3. BitsAgree /\ CoresHaveNothing /\ RowIsWritten /\ TableFollows
  BY <1>2
     DEF Init, BitsAgree, CoresHaveNothing, RowIsWritten, TableFollows, IsSynced,
         InHand, Writes, Settled
<1> QED
  BY <1>1, <1>3 DEF TableInv

(* Every step keeps what the cores have and what the driver has together.       *)
LEMMA TableStep ==
  ASSUME TableInv, [Next]_vars
  PROVE  TableInv'
<1>1. IInv'
  BY Step DEF TableInv
<1>2. CASE Next
  <2>1. Follows'
    BY <1>2, NetworkFollows, ThreadFollows, BreaksFollows, TurnsFollow,
       FlushParamsFollows, FlushRowFollows
       DEF Next, Recovery
  <2> QED
    BY <1>1, <2>1 DEF TableInv, Follows, InOrder
<1>3. CASE UNCHANGED vars
  <2>1. UNCHANGED <<used, status, cache, params, row, pc, mcu, table, known, sweep, disorder>>
    BY <1>3 DEF vars, rows, thread, cores, others
  <2>2. Follows'
    BY <2>1, TableFrame
  <2> QED
    BY <1>1, <2>2 DEF TableInv, Follows, InOrder
<1> QED
  BY <1>2, <1>3

(* What ties the cores' table to the driver's rows, for any rows, tunnels,      *)
(* addresses and failures.                                                      *)
THEOREM TableInvariance == Spec => []TableInv
<1>1. Init => TableInv
  BY TableInitially
<1>2. TableInv /\ [Next]_vars => TableInv'
  BY TableStep
<1> QED
  BY <1>1, <1>2, PTL DEF Spec

(* Once a row is UPDATED and nothing of it is queued, the cores' copy is the    *)
(* driver's: mtk_tops_tnl_sync_param_update and mtk_tops_tnl_sync_param_delete, *)
(* the flush and mtk_tops_tnl_offload_recover between them miss no change.       *)
THEOREM TableStaysCurrent == Spec => []TableIsCurrent
<1>1. TableInv => TableIsCurrent
  BY DEF TableInv, TableFollows, TableIsCurrent
<1> QED
  BY <1>1, TableInvariance, PTL

--------------------------------------------------------------------------------
(* Packets are handed to the cores                                              *)

(* In the behaviours RowsAreSteered is about                                    *)
Steers == SafeInv /\ RowsAreSteered /\ Spared({"end", "pce", "flight"}) /\ OwnAddresses

(* What of the other invariants the steps need                                  *)
LEMMA SteersFacts ==
  ASSUME Steers
  PROVE  /\ "pce" \notin disorder /\ Spared({"end"}) /\ Spared({"flight"})
         /\ used \subseteq Slots /\ tcls \subseteq Slots
         /\ status \in [Slots -> SUBSET Bits]
         /\ cache \in [Slots -> Params] /\ params \in [Slots -> Params]
         /\ refs \in [Addresses -> Nat]
         /\ pc \in InHand => row.slot \in used
         /\ pc \in Deletes => row.event = "DEL"
         /\ pc \in {"cls", "transfer", "synced", "dip", "undo"} => row.event # "DEL"
         /\ \A s \in Slots : s \in submitted \cup pending => s \in used
         /\ \A s \in used : Receives(params[s]) =>
              params[s].tunnel \in Tunnels /\ params[s].tunnel = cache[s].tunnel
<1>1. Spared({"end"}) /\ Spared({"flight"}) /\ "pce" \notin disorder
  BY DEF Steers, Spared
<1>2. /\ used \subseteq Slots /\ tcls \subseteq Slots
      /\ status \in [Slots -> SUBSET Bits]
      /\ cache \in [Slots -> Params] /\ params \in [Slots -> Params]
      /\ refs \in [Addresses -> Nat]
  BY DEF Steers, SafeInv, IInv, TypeOK
<1>3. /\ pc \in InHand => row.slot \in used
      /\ pc \in Deletes => row.event = "DEL"
      /\ pc \in {"cls", "transfer", "synced", "dip", "undo"} => row.event # "DEL"
  BY <1>1 DEF Steers, SafeInv, IInv, RowInHand, RowIsKept
<1>4. \A s \in Slots : s \in submitted \cup pending => s \in used
  BY <1>1 DEF Steers, SafeInv, IInv, QueuedIsListed
<1>5. ASSUME NEW s \in used, Receives(params[s])
      PROVE  params[s].tunnel \in Tunnels /\ params[s].tunnel = cache[s].tunnel
  <2>1. params[s].tunnel # Nobody /\ params[s].tunnel \in {Nobody, cache[s].tunnel}
    BY <1>5 DEF Steers, RowsAreSteered
  <2>2. params[s].tunnel \in Tunnels \cup {Nobody}
    BY <1>2, <1>5 DEF Params
  <2> QED
    BY <2>1, <2>2
<1> QED
  BY <1>1, <1>2, <1>3, <1>4, <1>5

(* A step that leaves the rows and the filter alone, and hands no other row on  *)
LEMMA SteerFrame ==
  ASSUME Steers, UNCHANGED <<used, status, cache, params, tcls, refs>>,
         row' = row \/ pc' \notin InHand,
         \/ pc' = pc
         \/ pc # "dip" /\ pc' \notin InHand
         \/ /\ pc \in InHand \ {"cls", "dip"} /\ pc' \in InHand \ {"cls", "dip"}
            /\ row.event # "DEL" => pc \in Writes
            /\ pc' # "undo" /\ row.event # "DEL" => pc # "undo"
  PROVE  RowsAreSteered'
<1>1. RowsAreSteered
  BY DEF Steers
<1>2. \A s \in Slots : IsSteered(s)' <=> IsSteered(s)
  BY DEF IsSteered
<1>3. pc \in InHand => row.slot \in Slots
  BY SteersFacts
<1>4. /\ pc' = "cls" => row'.pce
      /\ pc' \in Writes /\ row'.event # "DEL" =>
           "UPDATING" \in status'[row'.slot] \/ ~Receives(params'[row'.slot])
      /\ pc' \in InHand \ {"dip"} /\ row'.event = "DEL" => "UPDATING" \in status'[row'.slot]
      /\ pc' = "dip" => row'.slot \in tcls'
  BY <1>1 DEF RowsAreSteered, InHand, Writes
<1>5. pc' \in Writes \ {"cls", "undo"} /\ row'.event # "DEL" =>
        (row'.pce => row'.slot \in tcls') /\ (row'.pce \/ IsSteered(row.slot)')
  <2>1. row' = row => (IsSteered(row.slot)' <=> IsSteered(row.slot))
    BY DEF IsSteered
  <2>2. pc' \in Writes => row' = row
    BY DEF Writes, InHand
  <2> QED
    BY <1>1, <2>1, <2>2 DEF RowsAreSteered, InHand, Writes
<1>6. ASSUME NEW s \in used
      PROVE  /\ "UPDATED" \in status'[s] => "UPDATING" \notin status'[s]
             /\ params'[s].tunnel \in {Nobody, cache'[s].tunnel}
             /\ params'[s].tunnel = Nobody => ~Receives(params'[s])
             /\ cache'[s].tunnel = Nobody => ~Receives(cache'[s])
             /\ "UPDATING" \notin status'[s] =>
                  IsSteered(s)' \/ (pc' = "dip" /\ row'.slot = s)
  <2>1. s \in Slots
    BY <1>6, SteersFacts
  <2> QED
    BY <1>1, <1>2, <1>6, <2>1 DEF RowsAreSteered, InHand
<1> QED
  BY <1>4, <1>5, <1>6 DEF RowsAreSteered

(* The steps of the walk, and the copying of a row                              *)
LEMMA WalkSteers ==
  ASSUME Steers,
         \/ Check \/ WalkEnds \/ GoesAstray \/ PutOff \/ Passes
         \/ Ask \/ Granted \/ Refused \/ Transfer \/ Thaw \/ EraseRow
  PROVE  RowsAreSteered'
<1>1. /\ UNCHANGED <<used, status, cache, params, tcls, refs>>
      /\ row' = row \/ pc' \notin InHand
  BY DEF Check, WalkEnds, GoesAstray, PutOff, Passes, Leaves, Ask, Granted, Refused,
         Transfer, Thaw, EraseRow, GoesTo, InHand, rows, others, filter
<1>2. CASE Check \/ WalkEnds \/ GoesAstray \/ PutOff \/ Passes
  <2>1. pc # "dip" /\ pc' \notin InHand
    BY <1>2 DEF Check, WalkEnds, GoesAstray, PutOff, Passes, Leaves, GoesTo, At, InHand
  <2> QED
    BY <1>1, <2>1, SteerFrame
<1>3. CASE Ask \/ Granted \/ Refused \/ Transfer \/ Thaw \/ EraseRow
  <2>1. \/ /\ pc \in {"ask", "wait", "transfer", "thaw"}
           /\ \/ pc' \in {"wait", "thaw", "transfer", "synced", "undo", "walk"}
              \/ pc' = "clear" /\ row.event = "DEL"
        \/ pc = "erase" /\ pc' = "free" /\ row.event = "DEL"
    BY <1>3, SteersFacts
       DEF Ask, Granted, Refused, Transfer, Thaw, EraseRow, GoesTo, Fails, At, Deletes
  <2> QED
    BY <1>1, <2>1, SteerFrame DEF InHand, Writes
<1> QED
  BY <1>2, <1>3

(* A row that is taken and does not begin to receive is steered if it receives. *)
LEMMA TakeRowSteers ==
  ASSUME Steers, TakeRow
  PROVE  RowsAreSteered'
<1>1. /\ pc = "walk" /\ node \in Slots /\ node \in pending
      /\ "UPDATING" \notin status[node] /\ "QUEUED" \in status[node]
      /\ row' = [slot |-> node, event |-> EventOf(status[node]), pce |-> BeginsToReceive(node)]
      /\ status' = [status EXCEPT ![node] = Updating(@)]
      /\ pc' \in {"undip", "cls", "ask"}
      /\ pc' = "cls" => BeginsToReceive(node)
      /\ pc' = "ask" => ~BeginsToReceive(node)
      /\ UNCHANGED <<used, cache, tcls, refs>>
  BY DEF TakeRow, Leaves, At, filter
<1>2. /\ status \in [Slots -> SUBSET Bits]
      /\ used \subseteq Slots /\ node \in used
  BY <1>1, SteersFacts
<1>3. /\ "UPDATED" \notin status'[node] /\ "UPDATING" \in status'[node]
      /\ params'[node] = cache[node]
      /\ \A s \in Slots \ {node} : status'[s] = status[s] /\ params'[s] = params[s]
  <2>1. Spared({"flight"}) /\ TypeOK
    BY SteersFacts DEF Steers, SafeInv, IInv
  <2> QED
    BY <1>1, <1>2, <2>1, TakenRow DEF Updating
<1>4. /\ row'.slot = node /\ row'.pce = BeginsToReceive(node)
  BY <1>1
<1>5. \A s \in used : "UPDATING" \notin status[s] => IsSteered(s)
  BY <1>1 DEF Steers, RowsAreSteered
<1>6. \A s \in Slots \ {node} : IsSteered(s)' <=> IsSteered(s)
  BY <1>1, <1>3 DEF IsSteered
<1>7. ASSUME ~BeginsToReceive(node), Receives(cache[node])
      PROVE  node \in tcls /\ refs[Local[cache[node].tunnel]] > 0
  <2>1. Receives(params[node])
    BY <1>7 DEF BeginsToReceive, Receives
  <2>2. params[node].tunnel = cache[node].tunnel
    BY <1>2, <2>1, SteersFacts
  <2> QED
    BY <1>1, <1>2, <1>5, <2>1, <2>2 DEF IsSteered
<1>8. ASSUME NEW s \in used
      PROVE  /\ "UPDATED" \in status'[s] => "UPDATING" \notin status'[s]
             /\ params'[s].tunnel \in {Nobody, cache'[s].tunnel}
             /\ params'[s].tunnel = Nobody => ~Receives(params'[s])
             /\ cache'[s].tunnel = Nobody => ~Receives(cache'[s])
             /\ "UPDATING" \notin status'[s] => IsSteered(s)'
  <2>1. RowsAreSteered
    BY DEF Steers
  <2>2. CASE s = node
    BY <1>1, <1>3, <2>1, <2>2, <1>8 DEF RowsAreSteered
  <2>3. CASE s # node
    <3>1. s \in Slots \ {node}
      BY <1>2, <1>8, <2>3
    <3> QED
      BY <1>1, <1>3, <1>5, <1>6, <1>8, <2>1, <3>1 DEF RowsAreSteered
  <2> QED
    BY <2>2, <2>3
<1>9. pc' \in Writes \ {"cls"} => ~row'.pce /\ IsSteered(row.slot)'
  BY <1>1, <1>3, <1>4, <1>7 DEF IsSteered, Writes
<1>10. pc' = "cls" => row'.pce
  BY <1>1, <1>4
<1> QED
  BY <1>1, <1>3, <1>4, <1>8, <1>9, <1>10 DEF RowsAreSteered, Writes

(* mtk_tops_tnl_info_cls_setup gives the row its classifier entry, and an       *)
(* update that failed is undone only in a row that does not say it receives, or  *)
(* is written again.                                                            *)
LEMMA ClsSteers ==
  ASSUME Steers, SetUpCls \/ Undo
  PROVE  RowsAreSteered'
<1>1. /\ UNCHANGED <<used, status, cache, params, refs>>
      /\ RowStays
      /\ \/ pc = "cls" /\ pc' = "ask" /\ tcls' = tcls \cup {row.slot}
         \/ /\ pc = "undo" /\ pc' \in {"walk", "oops"} /\ tcls' = tcls \ {row.slot}
  BY SteersFacts DEF RowStays, SetUpCls, Undo, Unless, GoesTo, At, others, filter
<1>2. row.slot \in used /\ used \subseteq Slots /\ row.event # "DEL"
  BY <1>1, SteersFacts DEF InHand
<1>3. RowsAreSteered
  BY DEF Steers
<1>4. \A s \in Slots : IsSteered(s) => IsSteered(s)' \/ (pc = "undo" /\ s = row.slot)
  BY <1>1 DEF IsSteered
<1>5. \A s \in Slots : pc = "undo" /\ s = row.slot => "UPDATING" \in status[s] \/ IsSteered(s)'
  BY <1>1, <1>2, <1>3 DEF RowsAreSteered, IsSteered, Writes
<1>6. ASSUME NEW s \in used
      PROVE  "UPDATING" \notin status'[s] => IsSteered(s)'
  <2>1. s \in Slots /\ ("UPDATING" \notin status[s] => IsSteered(s))
    BY <1>1, <1>2, <1>3, <1>6 DEF RowsAreSteered
  <2> QED
    BY <1>1, <1>4, <1>5, <2>1
<1>7. /\ pc' = "ask" => row.pce
      /\ pc' \in Writes => pc' = "ask" /\ pc = "cls" /\ row.slot \in tcls'
      /\ pc' \in InHand => pc' = "ask"
      /\ pc' \notin {"cls", "dip"}
  BY <1>1, <1>3 DEF RowsAreSteered, Writes, InHand
<1> QED
  BY <1>1, <1>2, <1>3, <1>6, <1>7 DEF RowStays, RowsAreSteered, Writes

(* A row that becomes UPDATED is steered, or will be by the filter.             *)
LEMMA SyncedSteers ==
  ASSUME Steers, Synced
  PROVE  RowsAreSteered'
<1>1. /\ pc = "synced" /\ pc' = (IF row.pce THEN "dip" ELSE "walk")
      /\ status' = [status EXCEPT ![row.slot] = Updated(@)]
      /\ UNCHANGED <<used, cache, params, tcls, refs>>
      /\ RowStays
  BY DEF RowStays, Synced, GoesTo, At, others, filter
<1>2. /\ row.slot \in used /\ used \subseteq Slots /\ row.event # "DEL"
      /\ status \in [Slots -> SUBSET Bits]
  BY <1>1, SteersFacts DEF InHand
<1>3. RowsAreSteered
  BY DEF Steers
<1>4. /\ "UPDATING" \notin status'[row.slot]
      /\ \A s \in Slots \ {row.slot} : status'[s] = status[s]
  BY <1>1, <1>2 DEF Updated
<1>5. \A s \in Slots : IsSteered(s)' <=> IsSteered(s)
  BY <1>1 DEF IsSteered
<1>6. (row.pce => row.slot \in tcls) /\ (row.pce \/ IsSteered(row.slot))
  BY <1>1, <1>2, <1>3 DEF RowsAreSteered, Writes
<1>7. ASSUME NEW s \in used
      PROVE  /\ "UPDATED" \in status'[s] => "UPDATING" \notin status'[s]
             /\ "UPDATING" \notin status'[s] => IsSteered(s)' \/ (pc' = "dip" /\ row.slot = s)
  <2>1. CASE s = row.slot
    BY <1>1, <1>2, <1>4, <1>5, <1>6, <2>1
  <2>2. CASE s # row.slot
    BY <1>1, <1>2, <1>3, <1>4, <1>5, <1>7, <2>2 DEF RowsAreSteered
  <2> QED
    BY <2>1, <2>2
<1> QED
  BY <1>1, <1>2, <1>3, <1>6, <1>7 DEF RowStays, RowsAreSteered, Writes, InHand

(* mtk_tops_tnl_info_dipfilter_setup counts a user for the row's address.       *)
LEMMA SetUpDipSteers ==
  ASSUME Steers, SetUpDip
  PROVE  RowsAreSteered'
<1>1. /\ pc = "dip" /\ pc' = "walk"
      /\ UNCHANGED <<used, status, cache, params, tcls>>
      /\ RowStays
      /\ \/ HasAddress /\ AddEntry(Address)
         \/ ~HasAddress /\ UNCHANGED refs
  BY SteersFacts DEF RowStays, SetUpDip, Unless, GoesTo, At, rows, filter
<1>2. /\ row.slot \in used /\ used \subseteq Slots /\ refs \in [Addresses -> Nat]
      /\ params \in [Slots -> Params] /\ Local \in [Tunnels -> Addresses]
  BY <1>1, SteersFacts, LocalAssumption DEF InHand
<1>3. RowsAreSteered
  BY DEF Steers
<1>4. \A a \in Addresses : refs[a] > 0 => refs'[a] > 0
  <2>1. CASE UNCHANGED refs
    BY <2>1
  <2>2. CASE HasAddress /\ AddEntry(Address)
    <3>1. Address \in Addresses
      BY <1>2, <2>2 DEF HasAddress, Address, Params
    <3>2. refs' = [refs EXCEPT ![Address] = @ + 1]
      BY <2>2 DEF AddEntry
    <3> QED
      BY <1>2, <3>1, <3>2
  <2> QED
    BY <1>1, <2>1, <2>2
<1>5. ASSUME NEW s \in used, IsSteered(s)
      PROVE  IsSteered(s)'
  <2>1. Receives(params[s]) => params[s].tunnel \in Tunnels
    BY <1>5, SteersFacts
  <2>2. Receives(params[s]) => Local[params[s].tunnel] \in Addresses
    BY <1>2, <2>1
  <2> QED
    BY <1>1, <1>4, <1>5, <2>2 DEF IsSteered
<1>6. \A s \in Slots : s = row.slot => IsSteered(s)'
  <2> SUFFICES ASSUME Receives(params[row.slot])
               PROVE  row.slot \in tcls /\ refs'[Local[params[row.slot].tunnel]] > 0
    BY <1>1 DEF IsSteered
  <2>1. row.slot \in tcls
    BY <1>1, <1>3 DEF RowsAreSteered
  <2>2. params[row.slot].tunnel \in Tunnels
    BY <1>2, SteersFacts
  <2>3. HasAddress
    BY <2>2, SetsAssumption DEF HasAddress
  <2>4. Address \in Addresses /\ refs' = [refs EXCEPT ![Address] = @ + 1]
    BY <1>1, <1>2, <2>2, <2>3 DEF Address, AddEntry
  <2> QED
    BY <1>2, <2>1, <2>4 DEF Address
<1>7. ASSUME NEW s \in used
      PROVE  "UPDATING" \notin status'[s] => IsSteered(s)'
  <2>1. s \in Slots /\ pc' # "dip" /\ ("UPDATING" \notin status'[s] /\ s # row.slot => IsSteered(s))
    BY <1>1, <1>2, <1>3, <1>7 DEF RowsAreSteered
  <2> QED
    BY <1>5, <1>6, <1>7, <2>1
<1> QED
  BY <1>1, <1>3, <1>7 DEF RowsAreSteered, Writes, InHand

(* mtk_tops_tnl_info_dipfilter_tear_down takes away the deleted row's address,  *)
(* which no other row has.                                                      *)
LEMMA TearDownDipSteers ==
  ASSUME Steers, TearDownDip
  PROVE  RowsAreSteered'
<1>1. /\ pc = "undip" /\ pc' = "ask"
      /\ UNCHANGED <<used, status, cache, params, row, tcls>>
      /\ \/ HasAddress /\ DelEntry(Address)
         \/ ~HasAddress /\ UNCHANGED refs
  BY SteersFacts DEF TearDownDip, Unless, GoesTo, At, rows, filter
<1>2. /\ row.slot \in used /\ used \subseteq Slots /\ refs \in [Addresses -> Nat]
      /\ params \in [Slots -> Params] /\ Local \in [Tunnels -> Addresses]
      /\ row.event = "DEL" /\ pc \in InHand
  BY <1>1, SteersFacts, LocalAssumption DEF InHand, Deletes
<1>3. RowsAreSteered
  BY DEF Steers
<1>4. "UPDATING" \in status[row.slot]
  BY <1>1, <1>2, <1>3 DEF RowsAreSteered
<1>5. ASSUME NEW s \in used, s # row.slot, IsSteered(s)
      PROVE  IsSteered(s)'
  <2>1. CASE UNCHANGED refs
    BY <1>1, <1>5, <2>1 DEF IsSteered
  <2>2. CASE HasAddress /\ DelEntry(Address)
    <3> SUFFICES ASSUME Receives(params[s])
                 PROVE  s \in tcls /\ refs'[Local[params[s].tunnel]] > 0
      BY <1>1 DEF IsSteered
    <3>1. params[s].tunnel \in Tunnels /\ params[s].tunnel = cache[s].tunnel
      BY <1>5, SteersFacts
    <3>2. /\ params[row.slot].tunnel \in Tunnels
          /\ params[row.slot].tunnel = cache[row.slot].tunnel
      <4>1. params[row.slot].tunnel # Nobody
        BY <2>2 DEF HasAddress
      <4> QED
        BY <1>2, <1>3, <4>1 DEF RowsAreSteered, Params
    <3>3. cache[s].tunnel # cache[row.slot].tunnel
      BY <1>2, <1>5, <3>1, SteersFacts, SetsAssumption DEF Steers, SafeInv, FilterIsFree
    <3>4. Local[params[s].tunnel] # Address
      BY <3>1, <3>2, <3>3 DEF Steers, OwnAddresses, Address
    <3>5. Local[params[s].tunnel] \in Addresses /\ Address \in Addresses
      BY <1>2, <3>1, <3>2 DEF Address
    <3>6. refs' = [refs EXCEPT ![Address] = IF @ = 0 THEN 0 ELSE @ - 1]
      BY <2>2 DEF DelEntry
    <3>7. refs'[Local[params[s].tunnel]] = refs[Local[params[s].tunnel]]
      BY <1>2, <3>4, <3>5, <3>6
    <3> QED
      BY <1>5, <3>7 DEF IsSteered
  <2> QED
    BY <1>1, <2>1, <2>2
<1>6. ASSUME NEW s \in used
      PROVE  "UPDATING" \notin status'[s] => IsSteered(s)'
  BY <1>1, <1>3, <1>4, <1>5, <1>6 DEF RowsAreSteered
<1> QED
  BY <1>1, <1>2, <1>3, <1>4, <1>6 DEF RowsAreSteered, Writes, InHand

(* The copies of a row that is cleared do not say that it receives.             *)
LEMMA ClearRowSteers ==
  ASSUME Steers, ClearRow
  PROVE  RowsAreSteered'
<1>1. /\ pc = "clear" /\ pc' = "erase"
      /\ cache' = [cache EXCEPT ![row.slot] = NoParams]
      /\ params' = [params EXCEPT ![row.slot] = NoParams]
      /\ UNCHANGED <<used, status, row, tcls, refs>>
  BY SteersFacts DEF ClearRow, Unless, GoesTo, At, others, filter
<1>2. /\ row.slot \in used /\ used \subseteq Slots /\ row.event = "DEL"
      /\ cache \in [Slots -> Params] /\ params \in [Slots -> Params]
  BY <1>1, SteersFacts DEF InHand, Deletes
<1>3. RowsAreSteered
  BY DEF Steers
<1>4. "UPDATING" \in status[row.slot]
  BY <1>1, <1>2, <1>3 DEF RowsAreSteered, InHand
<1>5. /\ cache'[row.slot] = NoParams /\ params'[row.slot] = NoParams
      /\ \A s \in Slots \ {row.slot} : cache'[s] = cache[s] /\ params'[s] = params[s]
      /\ NoParams.tunnel = Nobody /\ ~Receives(NoParams)
  BY <1>1, <1>2 DEF NoParams, Receives
<1>6. ASSUME NEW s \in used
      PROVE  /\ params'[s].tunnel \in {Nobody, cache'[s].tunnel}
             /\ params'[s].tunnel = Nobody => ~Receives(params'[s])
             /\ cache'[s].tunnel = Nobody => ~Receives(cache'[s])
             /\ "UPDATING" \notin status'[s] => IsSteered(s)'
  <2>1. CASE s = row.slot
    BY <1>1, <1>4, <1>5, <2>1
  <2>2. CASE s # row.slot
    <3>1. s \in Slots \ {row.slot}
      BY <1>2, <1>6, <2>2
    <3> QED
      BY <1>1, <1>3, <1>5, <1>6, <3>1 DEF RowsAreSteered, IsSteered
  <2> QED
    BY <2>1, <2>2
<1> QED
  BY <1>1, <1>2, <1>3, <1>4, <1>6 DEF RowsAreSteered, Writes, InHand

(* A row that is freed takes its classifier entry with it.                      *)
LEMMA FreeSteers ==
  ASSUME Steers, Free
  PROVE  RowsAreSteered'
<1>1. /\ pc = "free" /\ pc' \in {"walk", "oops"}
      /\ UNCHANGED <<cache, params, refs>>
      /\ RowStays
      /\ \/ UNCHANGED <<used, tcls, status>>
         \/ /\ tcls' = tcls \ {row.slot} /\ used' = used \ {row.slot}
            /\ status' = [status EXCEPT ![row.slot] = {"UNINIT"}]
  BY DEF RowStays, Free, GoesTo, At, others, filter
<1>2. used \subseteq Slots
  BY SteersFacts
<1>3. CASE UNCHANGED <<used, tcls, status>>
  BY <1>1, <1>3, SteerFrame DEF InHand
<1>4. CASE /\ tcls' = tcls \ {row.slot} /\ used' = used \ {row.slot}
           /\ status' = [status EXCEPT ![row.slot] = {"UNINIT"}]
  <2>1. RowsAreSteered
    BY DEF Steers
  <2>2. \A s \in used' : s \in used /\ s # row.slot /\ status'[s] = status[s]
    BY <1>2, <1>4, SteersFacts
  <2>3. \A s \in used' : IsSteered(s) => IsSteered(s)'
    BY <1>1, <1>4, <2>2 DEF IsSteered
  <2> QED
    BY <1>1, <2>1, <2>2, <2>3 DEF RowsAreSteered, InHand, Writes
<1> QED
  BY <1>1, <1>3, <1>4

(* Every step of the thread                                                     *)
LEMMA ThreadSteers ==
  ASSUME Steers, Thread
  PROVE  RowsAreSteered'
BY WalkSteers, TakeRowSteers, ClsSteers, SyncedSteers, SetUpDipSteers, TearDownDipSteers,
   ClearRowSteers, FreeSteers
   DEF Thread

(* A call leaves what a row was written from, and what steers it.                *)
LEMMA TouchSteers ==
  ASSUME Steers, NEW s \in Slots, Touches(s), Changes(s) \/ IsTaken(s) \/ Ends(s)
  PROVE  RowsAreSteered'
<1>1. Spared({"flight"})
  BY SteersFacts
<1>2. /\ UNCHANGED <<row, tcls, refs>>
      /\ pc' \in InHand => pc' = pc
      /\ pc' # pc => pc \notin InHand
      /\ used' = used \cup {s}
      /\ \A r \in Slots \ {s} :
           status'[r] = status[r] /\ cache'[r] = cache[r] /\ params'[r] = params[r]
  BY <1>1 DEF Touches, Wakes, InHand
<1>3. /\ used \subseteq Slots
      /\ pc \in InHand => row.slot \in used
  BY SteersFacts
<1>4. RowsAreSteered
  BY DEF Steers
<1>5. s \in used =>
        /\ params'[s] = params[s] /\ cache'[s].tunnel = cache[s].tunnel
        /\ cache'[s].tunnel = Nobody /\ Receives(cache'[s]) => Receives(cache[s])
        /\ "UPDATING" \in status'[s] <=> "UPDATING" \in status[s]
        /\ "UPDATED" \in status'[s] => "UPDATED" \in status[s]
  <2>1. CASE Changes(s)
    BY <2>1 DEF Changes, Queued
  <2>2. CASE IsTaken(s)
    BY <2>2 DEF IsTaken
  <2>3. CASE Ends(s)
    BY <2>3 DEF Ends, Queued
  <2> QED
    BY <1>1, <2>1, <2>2, <2>3
<1>6. s \notin used =>
        /\ params'[s] = NoParams /\ cache'[s].tunnel \in Tunnels
        /\ "UPDATED" \notin status'[s]
        /\ NoParams.tunnel = Nobody /\ ~Receives(NoParams)
  BY <1>1 DEF Changes, IsTaken, Ends, Queued, NoParams, Receives
<1>7. \A r \in used : /\ params'[r] = params[r]
                      /\ IsSteered(r)' <=> IsSteered(r)
                      /\ "UPDATING" \in status'[r] <=> "UPDATING" \in status[r]
  BY <1>2, <1>3, <1>5 DEF IsSteered
<1>8. ASSUME NEW r \in used'
      PROVE  /\ "UPDATED" \in status'[r] => "UPDATING" \notin status'[r]
             /\ params'[r].tunnel \in {Nobody, cache'[r].tunnel}
             /\ params'[r].tunnel = Nobody => ~Receives(params'[r])
             /\ cache'[r].tunnel = Nobody => ~Receives(cache'[r])
             /\ "UPDATING" \notin status'[r] => IsSteered(r)' \/ (pc' = "dip" /\ row'.slot = r)
  <2>1. CASE r \in used
    <3>1. /\ cache'[r].tunnel = cache[r].tunnel
          /\ cache'[r].tunnel = Nobody /\ Receives(cache'[r]) => Receives(cache[r])
          /\ "UPDATED" \in status'[r] => "UPDATED" \in status[r]
      BY <1>2, <1>3, <1>5, <2>1
    <3>2. pc = "dip" => pc' = "dip"
      BY <1>2 DEF InHand
    <3> QED
      BY <1>2, <1>4, <1>7, <2>1, <3>1, <3>2 DEF RowsAreSteered
  <2>2. CASE r \notin used
    <3>1. r = s
      BY <1>2, <1>8, <2>2
    <3> QED
      BY <1>6, <2>2, <3>1, SetsAssumption DEF IsSteered
  <2> QED
    BY <2>1, <2>2
<1>9. pc' \in InHand => row.slot \in used
  BY <1>2, <1>3
<1>10. /\ pc' = "cls" => row'.pce
       /\ pc' \in Writes /\ row'.event # "DEL" =>
            "UPDATING" \in status'[row'.slot] \/ ~Receives(params'[row'.slot])
       /\ pc' \in InHand \ {"dip"} /\ row'.event = "DEL" => "UPDATING" \in status'[row'.slot]
       /\ pc' = "dip" => row'.slot \in tcls'
  BY <1>2, <1>4, <1>7, <1>9 DEF RowsAreSteered, InHand, Writes
<1>11. pc' \in Writes \ {"cls", "undo"} /\ row'.event # "DEL" =>
         (row'.pce => row'.slot \in tcls') /\ (row'.pce \/ IsSteered(row.slot)')
  <2>1. pc' \in InHand => (IsSteered(row.slot)' <=> IsSteered(row.slot))
    BY <1>2, <1>7, <1>9 DEF IsSteered
  <2> QED
    BY <1>2, <1>4, <2>1 DEF RowsAreSteered, InHand, Writes
<1> QED
  BY <1>8, <1>10, <1>11 DEF RowsAreSteered

(* The calls of the network, and the rows that are submitted anew               *)
LEMMA NetworkSteers ==
  ASSUME Steers, Network \/ RecoverRow
  PROVE  RowsAreSteered'
BY NetworkTouches, RecoverRowTouches, TouchSteers, SteersFacts DEF Steers

(* A row whose copy is zeroed does not say that it receives.  Meanwhile the      *)
(* thread deletes none, and gives back a classifier entry at most.              *)
LEMMA FlushParamsSteers ==
  ASSUME Steers, FlushParams
  PROVE  RowsAreSteered'
<1>1. /\ mcu = "stopping"
      /\ UNCHANGED <<pc, row, used, status, cache, tcls, refs>>
  BY DEF FlushParams, thread, filter
<1>2. PICK s \in todo : params' = [params EXCEPT ![s] = NoParams]
  BY DEF FlushParams
<1>3. /\ pc \notin InHand \ {"undo"}
      /\ used \subseteq Slots /\ (pc \in InHand => row.slot \in used)
      /\ params \in [Slots -> Params] /\ s \in Slots
  BY <1>1, SteersFacts DEF Steers, SafeInv, IInv, SweepFacts, InHand
<1>4. /\ params'[s] = NoParams /\ \A r \in Slots \ {s} : params'[r] = params[r]
      /\ NoParams.tunnel = Nobody /\ ~Receives(NoParams)
  BY <1>2, <1>3 DEF NoParams, Receives
<1>5. RowsAreSteered
  BY DEF Steers
<1>6. \A r \in used : IsSteered(r) => IsSteered(r)'
  BY <1>1, <1>3, <1>4 DEF IsSteered
<1>7. pc = "undo" => row.event # "DEL"
  BY SteersFacts
<1>8. ASSUME NEW r \in used
      PROVE  /\ params'[r].tunnel \in {Nobody, cache[r].tunnel}
             /\ params'[r].tunnel = Nobody => ~Receives(params'[r])
             /\ "UPDATING" \notin status[r] => IsSteered(r)'
  BY <1>3, <1>4, <1>5, <1>6, <1>8 DEF RowsAreSteered, InHand
<1>9. pc = "undo" => "UPDATING" \in status[row.slot] \/ ~Receives(params'[row.slot])
  BY <1>3, <1>4, <1>5, <1>7 DEF RowsAreSteered, Writes, InHand
<1> QED
  BY <1>1, <1>3, <1>5, <1>7, <1>8, <1>9 DEF RowsAreSteered, Writes, InHand

(* A row that is as new was zeroed before, and not written since.               *)
LEMMA FlushRowSteers ==
  ASSUME Steers, FlushRow
  PROVE  RowsAreSteered'
<1>1. /\ mcu = "stopping" /\ zeroed # Nobody
      /\ UNCHANGED <<pc, row, used, cache, params, tcls, refs>>
      /\ status' = [status EXCEPT ![zeroed] = {"INIT"}]
  BY DEF FlushRow, thread, filter
<1>2. /\ pc \notin InHand \ {"undo"}
      /\ used \subseteq Slots /\ (pc \in InHand => row.slot \in used)
      /\ status \in [Slots -> SUBSET Bits] /\ zeroed \in used
      /\ params[zeroed] = NoParams /\ ~Receives(params[zeroed])
  BY <1>1, SteersFacts DEF Steers, SafeInv, IInv, SweepFacts, InHand, NoParams, Receives
<1>3. PICK fresh \in SUBSET Bits : fresh = {"INIT"}
  BY DEF Bits
<1>4. /\ "UPDATED" \notin status'[zeroed]
      /\ \A s \in Slots \ {zeroed} : status'[s] = status[s]
  <2>1. status' = [status EXCEPT ![zeroed] = fresh]
    BY <1>1, <1>3
  <2> QED
    BY <1>2, <1>3, <2>1
<1>5. RowsAreSteered
  BY DEF Steers
<1>6. \A s \in used : IsSteered(s)' <=> IsSteered(s)
  BY <1>1 DEF IsSteered
<1>7. pc = "undo" => row.event # "DEL"
  BY SteersFacts
<1>8. ASSUME NEW s \in used
      PROVE  /\ "UPDATED" \in status'[s] => "UPDATING" \notin status'[s]
             /\ "UPDATING" \notin status'[s] => IsSteered(s)'
  <2>1. CASE s = zeroed
    BY <1>1, <1>2, <1>4, <2>1 DEF IsSteered
  <2>2. CASE s # zeroed
    BY <1>2, <1>4, <1>5, <1>6, <1>8, <2>2 DEF RowsAreSteered, InHand
  <2> QED
    BY <2>1, <2>2
<1>9. pc = "undo" => "UPDATING" \in status'[row.slot] \/ ~Receives(params[row.slot])
  BY <1>2, <1>4, <1>5, <1>7 DEF RowsAreSteered, Writes, InHand
<1> QED
  BY <1>1, <1>2, <1>5, <1>7, <1>8, <1>9 DEF RowsAreSteered, Writes, InHand

(* No row is in use in the beginning.                                           *)
LEMMA SteerInitially ==
  ASSUME Init
  PROVE  SteerInv
<1>1. RowsAreSteered
  BY DEF Init, RowsAreSteered, InHand, Writes
<1> QED
  BY <1>1, SafeInitially DEF SteerInv

(* Every step keeps the rows steered.                                           *)
LEMMA SteerStep ==
  ASSUME SteerInv, [Next]_vars
  PROVE  SteerInv'
<1>1. SafeInv'
  BY SafeStep DEF SteerInv
<1>2. disorder' = disorder
  BY DisorderIsKept
<1>3. ASSUME Spared({"end", "pce", "flight"})', OwnAddresses
      PROVE  RowsAreSteered'
  <2>1. Steers
    BY <1>2, <1>3 DEF SteerInv, Steers, Spared
  <2>2. CASE Breaks \/ GoDown \/ PowerOff \/ Boots \/ ComeUp \/ UNCHANGED vars
    <3>1. UNCHANGED <<used, status, cache, params, row, tcls, refs, pc>>
      BY <2>2
         DEF Breaks, GoDown, PowerOff, Boots, ComeUp, vars, rows, thread, others, filter
    <3> QED
      BY <2>1, <3>1, SteerFrame
  <2> QED
    BY <2>1, <2>2, NetworkSteers, ThreadSteers, FlushParamsSteers, FlushRowSteers
       DEF Next, Recovery
<1> QED
  BY <1>1, <1>3 DEF SteerInv, OwnAddresses

(* What steers packets, for any rows, tunnels, addresses and failures, in        *)
(* behaviours whose resets do not meet the thread at work.                      *)
THEOREM SteerInvariance == Spec => []SteerInv
<1>1. Init => SteerInv
  BY SteerInitially
<1>2. SteerInv /\ [Next]_vars => SteerInv'
  BY SteerStep
<1> QED
  BY <1>1, <1>2, PTL DEF Spec

(* A row that the cores were given to receive with has its classifier entry and *)
(* its address in the filter, if the tunnels have local addresses of their own: *)
(* mtk_tops_tnl_info_cls_setup and mtk_tops_tnl_info_dipfilter_setup have been   *)
(* called for it, and no other row's tear-down took them away.  It says so of   *)
(* resets that begin while the thread has no row in hand, and while no device   *)
(* ends at a wrong time and the engine does not refuse.                         *)
THEOREM PacketsStaySteered ==
  ASSUME OwnAddresses
  PROVE  Spec => []PacketsAreSteered
<1>1. SteerInv => PacketsAreSteered
  <2> SUFFICES ASSUME SteerInv, Spared({"end", "pce", "flight"}), NEW s \in used,
                      IsSynced(s), Receives(params[s]), ~(pc = "dip" /\ row.slot = s)
               PROVE  s \in tcls /\ refs[Local[params[s].tunnel]] > 0
    BY DEF PacketsAreSteered, Receives
  <2> QED
    BY DEF SteerInv, RowsAreSteered, IsSynced, IsSteered
<1> QED
  BY <1>1, SteerInvariance, PTL

================================================================================
