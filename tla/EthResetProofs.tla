----------------------------- MODULE EthResetProofs -----------------------------
(* Theorems about EthReset for any number of chips and devices: the inductive   *)
(* invariant IInv and what follows from it; on top of it, that the chips are    *)
(* quiet when the hardware is reset (QuietInv) and that a device that is up has *)
(* its rings (ServedInv); and the step simulation of ResetRound.                *)
EXTENDS EthReset, FiniteSetTheorems, TLAPS

(* The constants, one fact each.                                                *)
LEMMA ConstantFacts ==
  /\ IsFiniteSet(Chips)
  /\ MacCount \in Nat /\ MacCount > 0 /\ FixedLink \subseteq Macs
  /\ MaxForce \in Nat /\ MaxForce > 0 /\ MaxDone \in Nat /\ MaxDone > 0
  /\ MaxOwed \in Nat /\ MaxOwed > 0
  BY ChipsAssumption, MacsAssumption, BoundsAssumption, SMT DEF Macs

(* What only requests or runs the work leaves the handshake as it is.           *)
LEMMA HandshakeKept ==
  ASSUME IInv, UNCHANGED <<online, told, owed, wifi_num, rest_cnt>>
  PROVE  CountdownInStep' /\ HeldOnline'
<1>1. CountdownInStep'
  BY DEF IInv, CountdownInStep, Owing
<1>2. HeldOnline'
  BY DEF IInv, HeldOnline
<1> QED
  BY <1>1, <1>2

(* The requests touch neither the handshake nor the place of the work, and none *)
(* of them takes the timer.                                                     *)
Requests ==
  \/ \E kind \in Kinds : Hangs(kind)
  \/ MonitorFinds \/ MonitorRequests \/ TxTimeout \/ DebugSwitch \/ DebugReset
  \/ DebugStop \/ LinkChange \/ LinkForces \/ FeFault \/ FeIrq

LEMMA RequestsFrame ==
  ASSUME Requests PROVE UNCHANGED <<round, chips, counts, timer, devices>>
<1> USE DEF round, chips, counts, sources, devices
<1>1. CASE \E kind \in Kinds : Hangs(kind)
  BY <1>1 DEF Hangs
<1>2. CASE MonitorFinds
  BY <1>2 DEF MonitorFinds
<1>3. CASE MonitorRequests
  BY <1>3 DEF MonitorRequests
<1>4. CASE TxTimeout
  BY <1>4 DEF TxTimeout
<1>5. CASE DebugSwitch
  BY <1>5 DEF DebugSwitch
<1>6. CASE DebugReset
  BY <1>6 DEF DebugReset
<1>7. CASE DebugStop
  BY <1>7 DEF DebugStop
<1>8. CASE LinkChange
  BY <1>8 DEF LinkChange
<1>9. CASE LinkForces
  BY <1>9 DEF LinkForces
<1>10. CASE FeFault
  BY <1>10 DEF FeFault
<1>11. CASE FeIrq
  BY <1>11 DEF FeIrq
<1> QED
  BY <1>1, <1>2, <1>3, <1>4, <1>5, <1>6, <1>7, <1>8, <1>9, <1>10, <1>11
     DEF Requests

(* The rest of the type invariant, in the terms of the variables they change.   *)
SourceTypes ==
  /\ queued \in BOOLEAN /\ force \in 0 .. MaxForce /\ flag \in Kinds \cup {"none"}
  /\ hang \in Kinds \cup {"none"} /\ status \in BOOLEAN
  /\ monitor \in Kinds \cup {"none"} /\ link \in BOOLEAN
  /\ asked \subseteq Kinds \cup {"other"} /\ announced \in Kinds \cup {"none"}
  /\ ended \in {"none", "start_traffic", "reset_done"} /\ disturbed \in BOOLEAN

LEMMA RequestsTypes ==
  ASSUME IInv, Requests PROVE SourceTypes' /\ FlagAsAsked'
<1> USE DEF round, chips, counts, sources, devices, history
<1>0. SourceTypes /\ FlagAsAsked
  BY DEF IInv, TypeOK, SourceTypes
<1> USE DEF SourceTypes, FlagAsAsked, Kinds, Request
<1>1. CASE \E kind \in Kinds : Hangs(kind)
  BY <1>0, <1>1 DEF Hangs
<1>2. CASE MonitorFinds
  BY <1>0, <1>2 DEF MonitorFinds
<1>3. CASE MonitorRequests
  BY <1>0, <1>3 DEF MonitorRequests
<1>4. CASE TxTimeout
  BY <1>0, <1>4 DEF TxTimeout
<1>5. CASE DebugSwitch
  BY <1>0, <1>5, ConstantFacts DEF DebugSwitch
<1>6. CASE DebugReset
  BY <1>0, <1>6 DEF DebugReset
<1>7. CASE DebugStop
  BY <1>0, <1>7 DEF DebugStop
<1>8. CASE LinkChange
  BY <1>0, <1>8 DEF LinkChange
<1>9. CASE LinkForces
  <2>1. force \in 0 .. MaxForce /\ force < MaxForce /\ force' = force + 1
    BY <1>0, <1>9 DEF LinkForces
  <2>2. force' \in 0 .. MaxForce
    BY <2>1, ConstantFacts
  <2>3. asked' = asked \cup {"other"} /\ queued' = TRUE
    BY <1>9 DEF LinkForces
  <2> QED
    BY <1>0, <1>9, <2>2, <2>3 DEF LinkForces
<1>10. CASE FeFault
  BY <1>0, <1>10 DEF FeFault
<1>11. CASE FeIrq
  <2>1. status' = FALSE
        /\ UNCHANGED <<queued, force, flag, hang, monitor, link, asked, announced, ended,
                      disturbed>>
    BY <1>11 DEF FeIrq
  <2> QED
    BY <1>0, <2>1
<1> HIDE DEF round, chips, counts, sources, devices, history, SourceTypes, FlagAsAsked,
             Kinds, Request
<1> QED
  BY <1>1, <1>2, <1>3, <1>4, <1>5, <1>6, <1>7, <1>8, <1>9, <1>10, <1>11
     DEF Requests

LEMMA RequestsKeep == ASSUME IInv, Requests PROVE IInv'
<1>1. UNCHANGED <<round, chips, counts, timer, devices>>
  BY RequestsFrame
<1>2. SourceTypes' /\ FlagAsAsked'
  BY RequestsTypes
<1>3. CountdownInStep' /\ HeldOnline'
  BY <1>1, HandshakeKept DEF chips, counts
<1>4. LockAndTimer'
  BY <1>1 DEF IInv, LockAndTimer, round
<1>5. TypeOK'
  BY <1>1, <1>2 DEF IInv, TypeOK, SourceTypes, round, chips, counts, devices
<1> QED
  BY <1>2, <1>3, <1>4, <1>5 DEF IInv

(* Announcing a round, once or for the second time.                             *)
LEMMA TellFacts ==
  ASSUME TypeOK, CountdownInStep, HeldOnline, NEW kind \in Kinds, Tell(kind)
  PROVE  /\ told' \in [Chips -> Kinds \cup {"none", "failed"}]
         /\ owed' \in [Chips -> 0 .. MaxOwed]
         /\ HeldOnline' /\ Owing' \subseteq online
         /\ {c \in Chips : told'[c] # "none"} = online
<1>1. online \subseteq Chips /\ told \in [Chips -> Kinds \cup {"none", "failed"}]
      /\ owed \in [Chips -> 0 .. MaxOwed]
  BY DEF TypeOK
<1>2. told' = [c \in Chips |-> IF c \in online THEN kind ELSE told[c]]
  BY DEF Tell
<1>3. owed' = [c \in Chips |-> IF c \in online /\ owed[c] < MaxOwed
                               THEN owed[c] + 1 ELSE owed[c]]
  BY DEF Tell
<1>4. owed' \in [Chips -> 0 .. MaxOwed]
  BY <1>1, <1>3, ConstantFacts
<1>5. Owing' \subseteq online
  BY <1>1, <1>3, ConstantFacts DEF CountdownInStep, Owing
<1>6. \A c \in Chips : told'[c] # "none" <=> c \in online
  BY <1>1, <1>2 DEF Kinds, HeldOnline
<1>7. HeldOnline'
  BY <1>6 DEF HeldOnline, Tell
<1> QED
  BY <1>1, <1>2, <1>4, <1>5, <1>6, <1>7

(* What mtk_open and mtk_stop make of the rings stays in its range.             *)
RingTypes(r) == r.attached \subseteq Macs /\ r.refcnt \in Nat /\ r.dma \in BOOLEAN

LEMMA StoppedTypes ==
  ASSUME NEW m \in Macs, NEW r, RingTypes(r) PROVE RingTypes(Stopped(m, r))
  BY DEF RingTypes, Stopped

LEMMA OpenedTypes ==
  ASSUME TypeOK, NEW m \in Macs, NEW r PROVE RingTypes(Opened(m, r))
<1>1. attached \subseteq Macs /\ dma_refcnt \in Nat /\ dma \in BOOLEAN
  BY DEF TypeOK
<1>2. Opened(m, r).attached \subseteq Macs
  BY <1>1 DEF Opened
<1>3. Opened(m, r).refcnt \in Nat
  BY <1>1 DEF Opened
<1>4. Opened(m, r).dma \in BOOLEAN
  BY <1>1 DEF Opened
<1> QED
  BY <1>2, <1>3, <1>4 DEF RingTypes

LEMMA RingsTypes == ASSUME TypeOK PROVE RingTypes(Rings)
  BY DEF TypeOK, RingTypes, Rings

LEMMA BecomeTypes ==
  ASSUME NEW r, RingTypes(r), Become(r)
  PROVE  attached' \subseteq Macs /\ dma_refcnt' \in Nat /\ dma' \in BOOLEAN
  BY DEF Become, RingTypes

LEMMA NextMacFacts ==
  ASSUME mac \in Macs, NEW from, NEW to, NextMac(from, to)
  PROVE  mac' \in Macs /\ work' \in {from, to}
  BY ConstantFacts DEF NextMac, Macs

(* The steps of the work; Needed is a guard only.                               *)
LEMMA WorkKeeps == ASSUME IInv, Work PROVE IInv'
<1> USE DEF round, chips, counts, sources, devices, history
<1>0. /\ TypeOK /\ CountdownInStep /\ LockAndTimer /\ HeldOnline /\ FlagAsAsked
      /\ mac \in Macs /\ 1 \in Macs
  BY ConstantFacts DEF IInv, TypeOK, Macs
<1>1. CASE Start
  <2>1. TypeOK'
    <3>1. reset_lock' \in 0 .. 1
      BY <1>0, <1>1 DEF LockAndTimer, Start
    <3>2. queued' = FALSE /\ work' = "check"
      BY <1>1 DEF Start
    <3>3. UNCHANGED <<mac, resetting, force, flag, counts, chips, sources, devices,
                      history>>
      BY <1>1 DEF Start
    <3>4. TypeOK
      BY <1>0
    <3>5. SourceTypes'
      BY <3>2, <3>3, <3>4 DEF TypeOK, SourceTypes
    <3> QED
      BY <3>1, <3>2, <3>3, <3>4, <3>5 DEF TypeOK, SourceTypes
  <2>2. CountdownInStep' /\ HeldOnline'
    BY <1>1, HandshakeKept DEF Start
  <2>3. LockAndTimer'
    BY <1>0, <1>1 DEF LockAndTimer, Start
  <2>4. FlagAsAsked'
    BY <1>0, <1>1 DEF FlagAsAsked, Start
  <2> QED
    BY <2>1, <2>2, <2>3, <2>4 DEF IInv
<1>2. CASE Check
  <2>1. TypeOK'
    BY <1>0, <1>2 DEF TypeOK, Check
  <2>2. CountdownInStep' /\ HeldOnline'
    BY <1>2, HandshakeKept DEF Check
  <2>3. LockAndTimer'
    BY <1>0, <1>2 DEF LockAndTimer, Check
  <2>4. FlagAsAsked'
    BY <1>0, <1>2 DEF FlagAsAsked, Check
  <2> QED
    BY <2>1, <2>2, <2>3, <2>4 DEF IInv
<1>3. CASE NothingToDo
  <2>1. TypeOK'
    <3>1. reset_lock' \in 0 .. 1
      BY <1>0, <1>3 DEF LockAndTimer, NothingToDo
    <3> QED
      BY <1>0, <1>3, <3>1 DEF TypeOK, NothingToDo
  <2>2. CountdownInStep' /\ HeldOnline'
    BY <1>3, HandshakeKept DEF NothingToDo
  <2>3. LockAndTimer'
    BY <1>0, <1>3 DEF LockAndTimer, NothingToDo
  <2>4. FlagAsAsked'
    BY <1>0, <1>3 DEF FlagAsAsked, NothingToDo
  <2> QED
    BY <2>1, <2>2, <2>3, <2>4 DEF IInv
<1>4. CASE Announce
  <2> DEFINE kind == IF flag = "stop" THEN "stop" ELSE "reset"
  <2>0. kind \in Kinds /\ Tell(kind)
    BY <1>4 DEF Announce, Kinds
  <2>1. /\ told' \in [Chips -> Kinds \cup {"none", "failed"}]
        /\ owed' \in [Chips -> 0 .. MaxOwed]
        /\ HeldOnline' /\ Owing' \subseteq online
    BY <1>0, <2>0, TellFacts
  <2>2. online' = online
    BY <2>0 DEF Tell
  <2>3. TypeOK'
    BY <1>0, <1>4, <2>0, <2>1, <2>2 DEF TypeOK, Announce
  <2>4. CountdownInStep'
    BY <1>0, <1>4, <2>1, <2>2 DEF CountdownInStep, Announce
  <2>5. LockAndTimer'
    BY <1>0, <1>4 DEF LockAndTimer, Announce
  <2>6. FlagAsAsked'
    BY <1>4 DEF FlagAsAsked, Announce
  <2> QED
    BY <2>1, <2>3, <2>4, <2>5, <2>6 DEF IInv
<1>5. CASE Answered
  <2>1. TypeOK'
    <3>1. done' \in 0 .. MaxDone
      BY <1>0, <1>5, ConstantFacts DEF TypeOK, Answered
    <3> QED
      BY <1>0, <1>5, <3>1 DEF TypeOK, Answered
  <2>2. CountdownInStep' /\ HeldOnline'
    BY <1>5, HandshakeKept DEF Answered
  <2>3. LockAndTimer'
    BY <1>0, <1>5 DEF LockAndTimer, Answered
  <2>4. FlagAsAsked'
    BY <1>0, <1>5 DEF FlagAsAsked, Answered
  <2> QED
    BY <2>1, <2>2, <2>3, <2>4 DEF IInv
<1>6. CASE TimesOut
  <2>1. CASE work' = "wait_again" /\ Tell("reset")
    <3>1. /\ told' \in [Chips -> Kinds \cup {"none", "failed"}]
          /\ owed' \in [Chips -> 0 .. MaxOwed]
          /\ HeldOnline' /\ Owing' \subseteq online
      BY <1>0, <2>1, TellFacts DEF Kinds
    <3>2. online' = online
      BY <2>1 DEF Tell
    <3>3. disturbed' \in BOOLEAN
      BY <1>6 DEF TimesOut
    <3>4. TypeOK'
      BY <1>0, <1>6, <2>1, <3>1, <3>2, <3>3 DEF TypeOK, TimesOut
    <3>5. CountdownInStep'
      BY <1>0, <1>6, <3>1, <3>2 DEF CountdownInStep, TimesOut
    <3>6. LockAndTimer'
      BY <1>0, <1>6, <2>1 DEF LockAndTimer, TimesOut
    <3>7. FlagAsAsked'
      BY <1>0, <1>6 DEF FlagAsAsked, TimesOut
    <3> QED
      BY <3>1, <3>4, <3>5, <3>6, <3>7 DEF IInv
  <2>2. CASE work' = "timer" /\ UNCHANGED chips
    <3>1. disturbed' \in BOOLEAN
      BY <1>6 DEF TimesOut
    <3>2. TypeOK'
      BY <1>0, <1>6, <2>2, <3>1 DEF TypeOK, TimesOut
    <3>3. CountdownInStep' /\ HeldOnline'
      BY <1>6, <2>2, HandshakeKept DEF TimesOut
    <3>4. LockAndTimer'
      BY <1>0, <1>6, <2>2 DEF LockAndTimer, TimesOut
    <3>5. FlagAsAsked'
      BY <1>0, <1>6 DEF FlagAsAsked, TimesOut
    <3> QED
      BY <3>2, <3>3, <3>4, <3>5 DEF IInv
  <2> QED
    BY <1>6, <2>1, <2>2 DEF TimesOut
<1>7. CASE StopMonitor
  <2>1. TypeOK'
    <3>1. SourceTypes'
      BY <1>0, <1>7 DEF TypeOK, SourceTypes, StopMonitor
    <3>2. /\ mac' = 1 /\ work' = "stop" /\ timer' = FALSE
          /\ UNCHANGED <<resetting, reset_lock, counts, chips, devices>>
      BY <1>7 DEF StopMonitor
    <3> QED
      BY <1>0, <3>1, <3>2 DEF TypeOK, SourceTypes
  <2>2. CountdownInStep' /\ HeldOnline'
    BY <1>7, HandshakeKept DEF StopMonitor
  <2>3. LockAndTimer'
    BY <1>0, <1>7 DEF LockAndTimer, StopMonitor
  <2>4. FlagAsAsked'
    BY <1>0, <1>7 DEF FlagAsAsked, StopMonitor
  <2> QED
    BY <2>1, <2>2, <2>3, <2>4 DEF IInv
<1>8. CASE StopDevice
  <2>1. mac' \in Macs /\ work' \in {"stop", "hw"}
    BY <1>0, <1>8, NextMacFacts DEF StopDevice
  <2>2. attached' \subseteq Macs /\ dma_refcnt' \in Nat /\ dma' \in BOOLEAN
    BY <1>0, <1>8, RingsTypes, StoppedTypes, BecomeTypes DEF StopDevice
  <2>3. TypeOK'
    <3>1. SourceTypes'
      BY <1>0, <1>8 DEF TypeOK, SourceTypes, StopDevice
    <3>2. UNCHANGED <<resetting, reset_lock, counts, chips, sources, up>>
      BY <1>8 DEF StopDevice
    <3> QED
      BY <1>0, <2>1, <2>2, <3>1, <3>2 DEF TypeOK, SourceTypes
  <2>4. CountdownInStep' /\ HeldOnline'
    BY <1>8, HandshakeKept DEF StopDevice
  <2>5. LockAndTimer'
    BY <1>0, <1>8, <2>1 DEF LockAndTimer, StopDevice
  <2>6. FlagAsAsked'
    BY <1>0, <1>8 DEF FlagAsAsked, StopDevice
  <2> QED
    BY <2>3, <2>4, <2>5, <2>6 DEF IInv
<1>9. CASE HwInit
  <2>1. TypeOK'
    <3>1. SourceTypes'
      BY <1>0, <1>9 DEF TypeOK, SourceTypes, HwInit
    <3>2. work' = "open" /\ UNCHANGED <<mac, resetting, reset_lock, counts, chips, timer,
                                       devices>>
      BY <1>9 DEF HwInit
    <3> QED
      BY <1>0, <3>1, <3>2 DEF TypeOK, SourceTypes
  <2>2. CountdownInStep' /\ HeldOnline'
    BY <1>9, HandshakeKept DEF HwInit
  <2>3. LockAndTimer'
    BY <1>0, <1>9 DEF LockAndTimer, HwInit
  <2>4. FlagAsAsked'
    BY <1>0, <1>9 DEF FlagAsAsked, HwInit
  <2> QED
    BY <2>1, <2>2, <2>3, <2>4 DEF IInv
<1>10. CASE OpenDevice
  <2>1. mac' \in Macs /\ work' \in {"open", "notify"}
    BY <1>0, <1>10, NextMacFacts DEF OpenDevice
  <2>2. PICK r \in OpenResults(mac) :
          LET closes == r # "ok" /\ mac \in up
          IN /\ Become(IF closes THEN Stopped(mac, Opened(mac, r))
                      ELSE Opened(mac, r))
             /\ up' = IF closes THEN up \ {mac} ELSE up
    BY <1>10 DEF OpenDevice
  <2>3. RingTypes(Opened(mac, r)) /\ RingTypes(Stopped(mac, Opened(mac, r)))
    BY <1>0, OpenedTypes, StoppedTypes
  <2>4. attached' \subseteq Macs /\ dma_refcnt' \in Nat /\ dma' \in BOOLEAN
    BY <2>2, <2>3, BecomeTypes
  <2>5. up' \subseteq Macs
    BY <1>0, <2>2 DEF TypeOK
  <2>6. TypeOK'
    BY <1>0, <1>10, <2>1, <2>4, <2>5 DEF TypeOK, OpenDevice
  <2>7. CountdownInStep' /\ HeldOnline'
    BY <1>10, HandshakeKept DEF OpenDevice
  <2>8. LockAndTimer'
    BY <1>0, <1>10, <2>1 DEF LockAndTimer, OpenDevice
  <2>9. FlagAsAsked'
    BY <1>0, <1>10 DEF FlagAsAsked, OpenDevice
  <2> QED
    BY <2>6, <2>7, <2>8, <2>9 DEF IInv
<1>11. CASE EndRound
  <2>1. told' = [c \in Chips |-> "none"]
    BY <1>11 DEF EndRound
  <2>2. told' \in [Chips -> Kinds \cup {"none", "failed"}] /\ HeldOnline'
    BY <2>1 DEF HeldOnline
  <2>3. TypeOK'
    BY <1>0, <1>11, <2>2 DEF TypeOK, EndRound, LockAndTimer
  <2>4. CountdownInStep'
    BY <1>0, <1>11 DEF CountdownInStep, Owing, EndRound
  <2>5. LockAndTimer'
    BY <1>0, <1>11 DEF LockAndTimer, EndRound
  <2>6. FlagAsAsked'
    BY <1>0, <1>11 DEF FlagAsAsked, EndRound
  <2> QED
    BY <2>2, <2>3, <2>4, <2>5, <2>6 DEF IInv
<1>12. CASE Clear
  <2>1. TypeOK'
    <3>1. SourceTypes'
      BY <1>0, <1>12 DEF TypeOK, SourceTypes, Clear
    <3>2. work' = "idle" /\ resetting' = FALSE
          /\ UNCHANGED <<mac, reset_lock, counts, chips, timer, devices>>
      BY <1>12 DEF Clear
    <3> QED
      BY <1>0, <3>1, <3>2 DEF TypeOK, SourceTypes
  <2>2. CountdownInStep' /\ HeldOnline'
    BY <1>12, HandshakeKept DEF Clear
  <2>3. LockAndTimer'
    BY <1>0, <1>12 DEF LockAndTimer, Clear
  <2>4. FlagAsAsked'
    BY <1>0, <1>12 DEF FlagAsAsked, Clear
  <2> QED
    BY <2>1, <2>2, <2>3, <2>4 DEF IInv
<1> QED
  BY <1>1, <1>2, <1>3, <1>4, <1>5, <1>6, <1>7, <1>8, <1>9, <1>10, <1>11, <1>12
     DEF Work

(* The Wi-Fi chips: the countdown is only ever stepped or started anew.         *)
LEMMA OwingFacts ==
  ASSUME IInv, NEW c \in Chips, owed[c] > 0
  PROVE  c \in online /\ wifi_num \in Nat \ {0} /\ rest_cnt \in 1 .. wifi_num
<1>1. c \in online
  BY DEF IInv, CountdownInStep, Owing
<1>2. wifi_num \in Nat /\ rest_cnt \in 1 .. wifi_num
  BY <1>1 DEF IInv, TypeOK, CountdownInStep
<1> QED
  BY <1>1, <1>2

LEMMA LessOwed ==
  ASSUME IInv, NEW c \in Chips, owed[c] > 0, owed' = [owed EXCEPT ![c] = @ - 1],
         UNCHANGED online
  PROVE  owed' \in [Chips -> 0 .. MaxOwed] /\ Owing' \subseteq online'
<1>1. owed \in [Chips -> 0 .. MaxOwed] /\ Owing \subseteq online
  BY DEF IInv, TypeOK, CountdownInStep
<1>2. owed' \in [Chips -> 0 .. MaxOwed]
  BY <1>1, ConstantFacts
<1>3. Owing' \subseteq Owing
  BY <1>1 DEF Owing
<1> QED
  BY <1>1, <1>2, <1>3

LEMMA AnswerKeeps == ASSUME IInv, NEW c \in Chips, Answer(c) PROVE IInv'
<1> USE DEF round, sources, devices, history
<1>0. /\ TypeOK /\ CountdownInStep /\ LockAndTimer /\ HeldOnline /\ FlagAsAsked
      /\ owed[c] > 0 /\ UNCHANGED <<online, wifi_num, told>>
      /\ owed' = [owed EXCEPT ![c] = @ - 1]
  BY DEF IInv, Answer
<1>1. c \in online /\ wifi_num \in Nat \ {0} /\ rest_cnt \in 1 .. wifi_num
  BY <1>0, OwingFacts
<1>2. owed' \in [Chips -> 0 .. MaxOwed] /\ Owing' \subseteq online'
  BY <1>0, LessOwed
<1>3. rest_cnt' \in 1 .. wifi_num
  BY <1>1 DEF Answer
<1>4. done' \in 0 .. MaxDone
  BY <1>0, ConstantFacts DEF Answer, TypeOK
<1>5. UNCHANGED <<round, queued, force, flag, stop_fail, sources, devices, history>>
  BY DEF Answer
<1>6. TypeOK'
  BY <1>0, <1>1, <1>2, <1>3, <1>4, <1>5 DEF TypeOK
<1>7. CountdownInStep'
  BY <1>0, <1>1, <1>2, <1>3 DEF CountdownInStep
<1>8. LockAndTimer' /\ HeldOnline' /\ FlagAsAsked'
  BY <1>0, <1>5 DEF LockAndTimer, HeldOnline, FlagAsAsked
<1> QED
  BY <1>6, <1>7, <1>8 DEF IInv

LEMMA AnswerFailKeeps == ASSUME IInv, NEW c \in Chips, AnswerFail(c) PROVE IInv'
<1> USE DEF round, sources, devices
<1>0. /\ TypeOK /\ CountdownInStep /\ LockAndTimer /\ HeldOnline /\ FlagAsAsked
      /\ owed[c] > 0 /\ UNCHANGED <<online, wifi_num>>
      /\ owed' = [owed EXCEPT ![c] = @ - 1]
      /\ told' = [told EXCEPT ![c] = "failed"]
      /\ rest_cnt' = wifi_num
  BY DEF IInv, AnswerFail
<1>1. c \in online /\ wifi_num \in Nat \ {0}
  BY <1>0, OwingFacts
<1>2. owed' \in [Chips -> 0 .. MaxOwed] /\ Owing' \subseteq online'
  BY <1>0, LessOwed
<1>3. told' \in [Chips -> Kinds \cup {"none", "failed"}]
  BY <1>0 DEF TypeOK
<1>4. done' \in 0 .. MaxDone
  BY <1>0, ConstantFacts DEF AnswerFail, TypeOK
<1>5. /\ UNCHANGED <<round, queued, force, sources, devices, asked, announced, ended>>
      /\ flag' = "reset" /\ stop_fail' = TRUE /\ disturbed' = TRUE
  BY DEF AnswerFail
<1>6. TypeOK'
  BY <1>0, <1>1, <1>2, <1>3, <1>4, <1>5 DEF TypeOK, Kinds
<1>7. CountdownInStep'
  BY <1>0, <1>1, <1>2 DEF CountdownInStep
<1>8. HeldOnline'
  BY <1>0, <1>1 DEF HeldOnline, TypeOK
<1>9. LockAndTimer' /\ FlagAsAsked'
  BY <1>0, <1>5 DEF LockAndTimer, FlagAsAsked
<1> QED
  BY <1>6, <1>7, <1>8, <1>9 DEF IInv

LEMMA OnlineKeeps == ASSUME IInv, NEW c \in Chips, Online(c) PROVE IInv'
<1> USE DEF round, sources, devices
<1>0. /\ TypeOK /\ CountdownInStep /\ LockAndTimer /\ HeldOnline /\ FlagAsAsked
      /\ c \notin online /\ online' = online \cup {c}
      /\ wifi_num' = wifi_num + 1 /\ rest_cnt' = wifi_num'
      /\ UNCHANGED <<told, owed>>
  BY DEF IInv, Online
<1>1. IsFiniteSet(online) /\ online \subseteq Chips
  BY <1>0, ConstantFacts, FS_Subset DEF TypeOK
<1>2. Cardinality(online') = wifi_num + 1 /\ wifi_num \in Nat
  BY <1>0, <1>1, FS_AddElement DEF CountdownInStep, TypeOK
<1>3. /\ UNCHANGED <<round, queued, force, flag, stop_fail, done, sources, devices,
                     asked, announced, ended>>
      /\ disturbed' \in BOOLEAN
  BY DEF Online
<1>4. online' \subseteq Chips /\ wifi_num' \in Nat /\ rest_cnt' \in 1 .. wifi_num'
  BY <1>0, <1>1, <1>2
<1>5. TypeOK'
  BY <1>0, <1>3, <1>4 DEF TypeOK
<1>6. Owing' \subseteq online'
  BY <1>0 DEF CountdownInStep, Owing
<1>7. CountdownInStep'
  BY <1>0, <1>2, <1>4, <1>6 DEF CountdownInStep
<1>8. LockAndTimer' /\ HeldOnline' /\ FlagAsAsked'
  BY <1>0, <1>3 DEF LockAndTimer, HeldOnline, FlagAsAsked
<1> QED
  BY <1>5, <1>7, <1>8 DEF IInv

LEMMA OfflineKeeps == ASSUME IInv, NEW c \in Chips, Offline(c) PROVE IInv'
<1> USE DEF round, sources, devices
<1>0. /\ TypeOK /\ CountdownInStep /\ LockAndTimer /\ HeldOnline /\ FlagAsAsked
      /\ c \in online /\ online' = online \ {c}
      /\ wifi_num' = wifi_num - 1 /\ rest_cnt' = wifi_num'
      /\ told' = [told EXCEPT ![c] = "none"] /\ owed' = [owed EXCEPT ![c] = 0]
  BY DEF IInv, Offline
<1>1. IsFiniteSet(online) /\ online \subseteq Chips
  BY <1>0, ConstantFacts, FS_Subset DEF TypeOK
<1>2. Cardinality(online') = wifi_num - 1 /\ IsFiniteSet(online')
  BY <1>0, <1>1, FS_RemoveElement DEF CountdownInStep
<1>3. wifi_num' = Cardinality(online') /\ wifi_num' \in Nat
  BY <1>0, <1>2, FS_CardinalityType
<1>4. rest_cnt' \in (IF online' = {} THEN {0} ELSE 1 .. wifi_num')
  BY <1>0, <1>2, <1>3, FS_EmptySet
<1>5. /\ UNCHANGED <<round, queued, force, flag, stop_fail, done, sources, devices,
                     asked, announced, ended>>
      /\ disturbed' \in BOOLEAN
  BY DEF Offline
<1>6. /\ told' \in [Chips -> Kinds \cup {"none", "failed"}]
      /\ owed' \in [Chips -> 0 .. MaxOwed]
  BY <1>0, ConstantFacts DEF TypeOK
<1>7. TypeOK'
  BY <1>0, <1>3, <1>5, <1>6 DEF TypeOK
<1>8. Owing' \subseteq online' /\ HeldOnline'
  BY <1>0 DEF CountdownInStep, Owing, HeldOnline, TypeOK
<1>9. CountdownInStep'
  BY <1>3, <1>4, <1>8 DEF CountdownInStep
<1>10. LockAndTimer' /\ FlagAsAsked'
  BY <1>0, <1>5 DEF LockAndTimer, FlagAsAsked
<1> QED
  BY <1>7, <1>8, <1>9, <1>10 DEF IInv

(* The users open and close devices.                                            *)
LEMMA UsersKeep ==
  ASSUME IInv, NEW m \in Macs, IfUp(m) \/ IfDown(m) PROVE IInv'
<1> USE DEF round, chips, counts, sources, history
<1>0. TypeOK /\ LockAndTimer /\ FlagAsAsked
  BY DEF IInv
<1>1. UNCHANGED <<round, queued, force, flag, counts, chips, sources, history>>
  BY DEF IfUp, IfDown
<1>2. up' \subseteq Macs /\ \E r : RingTypes(r) /\ Become(r)
  <2>1. CASE IfUp(m)
    <3>1. PICK r \in OpenResults(m) :
            /\ Become(Opened(m, r))
            /\ up' = IF r = "ok" THEN up \cup {m} ELSE up
      BY <2>1 DEF IfUp
    <3> QED
      BY <1>0, <3>1, OpenedTypes DEF TypeOK
  <2>2. CASE IfDown(m)
    BY <1>0, <2>2, RingsTypes, StoppedTypes DEF IfDown, TypeOK
  <2> QED
    BY <2>1, <2>2
<1>3. attached' \subseteq Macs /\ dma_refcnt' \in Nat /\ dma' \in BOOLEAN
  BY <1>2, BecomeTypes
<1>4. TypeOK'
  BY <1>0, <1>1, <1>2, <1>3 DEF TypeOK
<1>5. CountdownInStep' /\ HeldOnline'
  BY <1>1, HandshakeKept
<1>6. LockAndTimer' /\ FlagAsAsked'
  BY <1>0, <1>1 DEF LockAndTimer, FlagAsAsked
<1> QED
  BY <1>4, <1>5, <1>6 DEF IInv

---------------------------------------------------------------------------------
(* The theorems                                                                 *)

LEMMA InitHolds == Init => IInv
<1> SUFFICES ASSUME Init PROVE IInv
  OBVIOUS
<1>1. online \subseteq Chips /\ wifi_num = Cardinality(online) /\ rest_cnt = wifi_num
  BY DEF Init
<1>2. IsFiniteSet(online) /\ wifi_num \in Nat
  BY <1>1, ConstantFacts, FS_Subset, FS_CardinalityType
<1>3. online = {} <=> wifi_num = 0
  BY <1>1, <1>2, FS_EmptySet
<1>4. Macs \subseteq Macs /\ 1 \in Macs /\ MacCount \in Nat
  BY ConstantFacts DEF Macs
<1>5. TypeOK
  <2>1. SourceTypes
    <3>1. /\ queued = FALSE /\ force = 0 /\ flag = "reset" /\ hang = "none"
          /\ status = FALSE /\ monitor = "none" /\ link = FALSE /\ asked = {}
          /\ announced = "none" /\ ended = "none" /\ disturbed = FALSE
      BY DEF Init
    <3>2. 0 \in 0 .. MaxForce
      BY ConstantFacts
    <3> QED
      BY <3>1, <3>2 DEF SourceTypes, Kinds
  <2>2. /\ told \in [Chips -> Kinds \cup {"none", "failed"}]
        /\ owed \in [Chips -> 0 .. MaxOwed]
    BY ConstantFacts DEF Init
  <2>3. /\ mac \in Macs /\ reset_lock \in 0 .. 1 /\ done \in 0 .. MaxDone
        /\ up \subseteq Macs /\ attached \subseteq Macs /\ dma_refcnt \in Nat
    BY <1>4, ConstantFacts DEF Init
  <2>4. /\ work = "idle" /\ resetting = FALSE /\ stop_fail = FALSE
        /\ timer = TRUE /\ dma = TRUE
    BY DEF Init
  <2> QED
    BY <1>1, <1>2, <2>1, <2>2, <2>3, <2>4 DEF TypeOK, SourceTypes
<1>6. CountdownInStep
  BY <1>1, <1>2, <1>3 DEF Init, CountdownInStep, Owing
<1>7. LockAndTimer /\ HeldOnline /\ FlagAsAsked
  BY DEF Init, LockAndTimer, HeldOnline, FlagAsAsked
<1> QED
  BY <1>5, <1>6, <1>7 DEF IInv

LEMMA StutterKeeps == ASSUME IInv, UNCHANGED vars PROVE IInv'
<1> USE DEF vars, round, chips, counts, sources, devices, history
<1>1. TypeOK'
  BY DEF IInv, TypeOK
<1>2. CountdownInStep' /\ HeldOnline'
  BY HandshakeKept
<1>3. LockAndTimer' /\ FlagAsAsked'
  BY DEF IInv, LockAndTimer, FlagAsAsked
<1> QED
  BY <1>1, <1>2, <1>3 DEF IInv

LEMMA StepKeeps == ASSUME IInv, [Next]_vars PROVE IInv'
<1>1. CASE Work
  BY <1>1, WorkKeeps
<1>2. CASE Requests
  BY <1>2, RequestsKeep
<1>3. CASE Wifi
  BY <1>3, AnswerKeeps, AnswerFailKeeps, OnlineKeeps, OfflineKeeps DEF Wifi
<1>4. CASE \E m \in Macs : IfUp(m) \/ IfDown(m)
  BY <1>4, UsersKeep
<1>5. CASE UNCHANGED vars
  BY <1>5, StutterKeeps
<1> QED
  BY <1>1, <1>2, <1>3, <1>4, <1>5 DEF Next, Monitor, Others, Requests

(* IInv is an invariant of the reset, for any set of chips and devices.         *)
THEOREM Invariance == Spec => []IInv
  BY InitHolds, StepKeeps, PTL DEF Spec

(* The shared variables of the reset stay in their ranges: the lock never       *)
(* counts below zero nor above one, however requests and rounds overlap.        *)
THEOREM TypeCorrect == Spec => []TypeOK
<1>1. IInv => TypeOK
  BY DEF IInv
<1> QED
  BY <1>1, Invariance, PTL

(* The countdown of mtk_eth_netdevice_event is in step with the chips on line   *)
(* for any number of them, whatever they answer and whenever they come and go.  *)
THEOREM CountdownIsInStep == Spec => []CountdownInStep
<1>1. IInv => CountdownInStep
  BY DEF IInv
<1> QED
  BY <1>1, Invariance, PTL

(* The monitor is armed whenever the lock is free: no path of mtk_pending_work  *)
(* leaves it switched off, but for the lines between freeing the one and arming *)
(* the other (4189-4193), which are one step.                                   *)
THEOREM MonitorAlwaysComesBack == Spec => []MonitorComesBack
<1>1. IInv => MonitorComesBack
  BY DEF IInv, LockAndTimer, MonitorComesBack
<1> QED
  BY <1>1, Invariance, PTL

(* A hang of the WDMA that nobody else asked about is announced as a reset: the *)
(* flag can say "stop" only if a stop was asked for since the last round.       *)
THEOREM WdmaIsAlwaysReset == Spec => WdmaIsReset
<1> DEFINE A == work = "prepare" /\ work' = "wait" /\ asked = {"reset"}
                  => announced' = "reset"
<1>1. ASSUME IInv, [Next]_vars PROVE A
  <2> SUFFICES ASSUME work = "prepare", work' = "wait", asked = {"reset"}
               PROVE  announced' = "reset"
    OBVIOUS
  <2>1. CASE Work
    <3>1. Announce
      BY <2>1 DEF Work, Start, Check, NothingToDo, Answered, TimesOut, StopMonitor,
                  StopDevice, HwInit, OpenDevice, EndRound, Clear
    <3> QED
      BY <1>1, <3>1 DEF IInv, FlagAsAsked, Announce
  <2>2. CASE Requests
    BY <2>2, RequestsFrame DEF round
  <2>3. CASE Wifi
    BY <2>3 DEF Wifi, Answer, AnswerFail, Online, Offline, round
  <2>4. CASE \E m \in Macs : IfUp(m) \/ IfDown(m)
    BY <2>4 DEF IfUp, IfDown, round
  <2>5. CASE UNCHANGED vars
    BY <2>5 DEF vars, round
  <2> QED
    BY <1>1, <2>1, <2>2, <2>3, <2>4, <2>5 DEF Next, Monitor, Others, Requests
<1>2. IInv /\ [Next]_vars => [A]_vars
  BY <1>1
<1> QED
  BY <1>2, Invariance, PTL DEF Spec, WdmaIsReset

---------------------------------------------------------------------------------
(* The chips are quiet                                                          *)

LEMMA FiniteOwing == ASSUME IInv PROVE IsFiniteSet(Owing) /\ Cardinality(Owing) \in Nat
<1>1. Owing \subseteq Chips
  BY DEF Owing
<1> QED
  BY <1>1, ConstantFacts, FS_Subset, FS_CardinalityType

(* What leaves the chips, the countdown and the place of the work alone.        *)
LEMMA QuietKept ==
  ASSUME QuietInv, UNCHANGED <<work, chips, counts>>, disturbed => disturbed'
  PROVE  QuietInv'
<1> USE DEF chips, counts
<1>1. UNCHANGED <<work, online, told, owed, wifi_num, rest_cnt, stop_fail, done>>
  OBVIOUS
<1>2. Waiting' = Waiting /\ Owing' = Owing
  BY <1>1 DEF Waiting, Owing
<1>3. NothingLeftOver' = NothingLeftOver /\ AllAnswered' = AllAnswered
  BY <1>1, <1>2 DEF NothingLeftOver, AllAnswered
<1>4. CountsDown' = CountsDown
  BY <1>1, <1>2 DEF CountsDown
<1> QED
  BY <1>1, <1>2, <1>3, <1>4 DEF QuietInv

(* No request says that a wait was disturbed.                                   *)
LEMMA RequestsDoNotDisturb == ASSUME Requests PROVE disturbed' = disturbed
  BY DEF Requests, Hangs, MonitorFinds, MonitorRequests, TxTimeout, DebugSwitch,
         DebugReset, DebugStop, LinkChange, LinkForces, FeFault, FeIrq, history

(* The announcement: every chip on line owes one answer, and the countdown is   *)
(* at their number.                                                             *)
LEMMA AnnounceStaysQuiet == ASSUME IInv, QuietInv, Announce PROVE QuietInv'
<1> USE DEF counts
<1> DEFINE kind == IF flag = "stop" THEN "stop" ELSE "reset"
<1> SUFFICES ASSUME ~disturbed PROVE QuietInv'
  BY DEF QuietInv, Announce
<1>0. /\ kind \in Kinds /\ Tell(kind) /\ work = "prepare" /\ work' = "wait"
      /\ UNCHANGED <<wifi_num, rest_cnt, stop_fail, done>>
  BY DEF Announce, Kinds
<1>1. TypeOK /\ CountdownInStep /\ HeldOnline
  BY DEF IInv
<1>2. ~stop_fail /\ NothingLeftOver
  BY <1>0 DEF QuietInv, Waiting
<1>3. {c \in Chips : told'[c] # "none"} = online /\ online' = online
  BY <1>0, <1>1, TellFacts DEF Tell
<1>4. \A c \in Chips : owed[c] = 0
  BY <1>1, <1>2 DEF NothingLeftOver, Owing, TypeOK
<1>5. \A c \in Chips : owed'[c] = IF c \in online THEN 1 ELSE 0
  BY <1>0, <1>4, ConstantFacts DEF Tell
<1>6. Owing' = online
  BY <1>1, <1>5 DEF Owing, TypeOK
<1>7. CountsDown'
  BY <1>0, <1>1, <1>2, <1>5, <1>6 DEF CountsDown, NothingLeftOver, CountdownInStep
<1>8. \A c \in online' : told'[c] # "none"
  BY <1>1, <1>3 DEF TypeOK
<1> QED
  BY <1>0, <1>2, <1>7, <1>8 DEF QuietInv, Waiting

(* The end of the wait: by the completion, or by a time-out, which disturbs it  *)
(* unless there was no chip to wait for.                                        *)
LEMMA WaitEndsQuiet == ASSUME IInv, QuietInv, Answered \/ TimesOut PROVE QuietInv'
<1> USE DEF counts, chips, history
<1>0. SUFFICES ASSUME ~disturbed' PROVE QuietInv'
  BY DEF QuietInv
<1>1. TypeOK /\ CountdownInStep /\ Waiting /\ ~disturbed
  <2>1. Waiting
    BY DEF Answered, TimesOut, Waiting
  <2>2. ~disturbed
    BY <1>0 DEF Answered, TimesOut
  <2> QED
    BY <2>1, <2>2 DEF IInv
<1>2. /\ ~stop_fail /\ (AllAnswered \/ CountsDown)
      /\ \A c \in online : told[c] # "none"
  BY <1>1 DEF QuietInv
<1>3. CASE Answered
  <2>1. AllAnswered
    BY <1>2, <1>3 DEF Answered, CountsDown
  <2>2. /\ done' = 0 /\ work' = "timer"
        /\ UNCHANGED <<online, told, owed, wifi_num, rest_cnt, stop_fail>>
    BY <1>3, <2>1 DEF Answered, AllAnswered
  <2>3. Owing' = Owing
    BY <2>2 DEF Owing
  <2>4. NothingLeftOver'
    BY <2>1, <2>2, <2>3 DEF NothingLeftOver, AllAnswered
  <2> QED
    BY <1>2, <2>2, <2>4 DEF QuietInv, Waiting
<1>4. CASE TimesOut
  <2>1. Owing = {} /\ done = 0
    BY <1>0, <1>4 DEF TimesOut
  <2>2. rest_cnt = Cardinality(Owing) /\ Cardinality(Owing) = 0
    BY <1>2, <2>1, FS_EmptySet DEF AllAnswered, CountsDown
  <2>3. wifi_num = 0
    <3>1. online = {}
      BY <1>1, <2>2 DEF CountdownInStep, TypeOK
    <3> QED
      BY <1>1, <3>1, FS_EmptySet DEF CountdownInStep
  <2>4. /\ work' = "timer"
        /\ UNCHANGED <<online, told, owed, wifi_num, rest_cnt, stop_fail, done>>
    BY <1>2, <1>4 DEF TimesOut
  <2>5. NothingLeftOver'
    BY <2>1, <2>2, <2>3, <2>4 DEF NothingLeftOver, Owing
  <2> QED
    BY <1>2, <2>4, <2>5 DEF QuietInv, Waiting
<1> QED
  BY <1>3, <1>4

(* The other steps of the work neither touch the countdown nor take a chip out  *)
(* of the round before its end.                                                 *)
LEMMA WorkStaysQuiet == ASSUME IInv, QuietInv, Work PROVE QuietInv'
<1> USE DEF counts, chips, history
<1>1. CASE Announce
  BY <1>1, AnnounceStaysQuiet
<1>2. CASE Answered \/ TimesOut
  BY <1>2, WaitEndsQuiet
<1>3. CASE ~Announce /\ ~Answered /\ ~TimesOut
  <2>1. UNCHANGED <<online, owed, wifi_num, rest_cnt, stop_fail, done, disturbed>>
    BY <1>3 DEF Work, Start, Check, NothingToDo, StopMonitor, StopDevice, HwInit,
                OpenDevice, EndRound, Clear
  <2>2. ~Waiting /\ ~Waiting'
    BY <1>3 DEF Work, Start, Check, NothingToDo, StopMonitor, StopDevice, HwInit,
                OpenDevice, EndRound, Clear, NextMac, Waiting
  <2>3. work' \in {"timer", "stop", "hw"}
          => work \in {"timer", "stop", "hw"} /\ told' = told
    BY <1>3 DEF Work, Start, Check, NothingToDo, StopMonitor, StopDevice, HwInit,
                OpenDevice, EndRound, Clear, NextMac
  <2>4. NothingLeftOver' = NothingLeftOver
    BY <2>1 DEF NothingLeftOver, Owing
  <2> QED
    BY <2>1, <2>2, <2>3, <2>4 DEF QuietInv
<1> QED
  BY <1>1, <1>2, <1>3

(* An answer during the wait: one less owes, and the last one completes it.     *)
LEMMA AnswerStaysQuiet ==
  ASSUME IInv, QuietInv, NEW c \in Chips, Answer(c) PROVE QuietInv'
<1> USE DEF round, history
<1> SUFFICES ASSUME ~disturbed PROVE QuietInv'
  BY DEF QuietInv, Answer
<1>0. /\ owed[c] > 0 /\ owed' = [owed EXCEPT ![c] = @ - 1]
      /\ UNCHANGED <<work, wifi_num, stop_fail, online, told>>
  BY DEF Answer
<1>1. /\ owed \in [Chips -> 0 .. MaxOwed] /\ wifi_num \in Nat /\ rest_cnt \in Nat
      /\ done \in Nat
  BY ConstantFacts DEF IInv, TypeOK
<1>2. c \in Owing
  BY <1>0 DEF Owing
<1>3. Waiting /\ CountsDown
  BY <1>2 DEF QuietInv, NothingLeftOver, AllAnswered
<1>4. owed[c] = 1
  BY <1>0, <1>1, <1>3, ConstantFacts DEF CountsDown
<1>5. owed' = [owed EXCEPT ![c] = 0]
  BY <1>0, <1>1, <1>4
<1>6. Owing' = Owing \ {c}
  BY <1>1, <1>5 DEF Owing
<1>7. IsFiniteSet(Owing) /\ Cardinality(Owing') = Cardinality(Owing) - 1
  BY <1>2, <1>6, FiniteOwing, FS_RemoveElement
<1>8. \A d \in Chips : owed'[d] <= 1
  BY <1>1, <1>3, <1>5 DEF CountsDown
<1>9. AllAnswered' \/ CountsDown'
  <2>1. CASE rest_cnt = 1
    <3>1. done' = 1 /\ rest_cnt' = wifi_num
      BY <1>3, <2>1 DEF Answer, CountsDown
    <3>2. IsFiniteSet(Owing')
      BY <1>6, <1>7, FS_RemoveElement
    <3>3. Cardinality(Owing') = 0
      BY <1>3, <1>7, <2>1 DEF CountsDown
    <3>4. Owing' = {}
      BY <3>2, <3>3, FS_EmptySet
    <3> QED
      BY <1>0, <3>1, <3>4 DEF AllAnswered
  <2>2. CASE rest_cnt # 1
    <3>1. done' = done /\ rest_cnt' = rest_cnt - 1
      BY <2>2 DEF Answer
    <3> QED
      BY <1>3, <1>7, <1>8, <3>1 DEF CountsDown
  <2> QED
    BY <2>1, <2>2
<1> QED
  BY <1>0, <1>3, <1>9 DEF QuietInv, Waiting

(* Chips come and go: during a wait that disturbs it, at any other time nothing *)
(* is owed and the countdown is set to the new number.                          *)
LEMMA HotPlugStaysQuiet ==
  ASSUME IInv, QuietInv, NEW c \in Chips, Online(c) \/ Offline(c) PROVE QuietInv'
<1> USE DEF round
<1>0. SUFFICES ASSUME ~disturbed' PROVE QuietInv'
  BY DEF QuietInv
<1>1. /\ ~disturbed /\ ~Waiting /\ work' = work
      /\ work \notin {"timer", "stop", "hw"}
      /\ UNCHANGED <<stop_fail, done>> /\ rest_cnt' = wifi_num'
  BY <1>0 DEF Online, Offline, RtnlFree
<1>2. ~stop_fail /\ NothingLeftOver
  BY <1>1 DEF QuietInv
<1>3. Owing' = {}
  <2>1. owed \in [Chips -> 0 .. MaxOwed] /\ Owing = {}
    BY <1>2 DEF IInv, TypeOK, NothingLeftOver
  <2>2. owed' = owed \/ owed' = [owed EXCEPT ![c] = 0]
    BY DEF Online, Offline
  <2> QED
    BY <2>1, <2>2 DEF Owing
<1>4. NothingLeftOver'
  BY <1>1, <1>2, <1>3 DEF NothingLeftOver
<1> QED
  BY <1>1, <1>2, <1>4 DEF QuietInv, Waiting

LEMMA StepStaysQuiet == ASSUME IInv, QuietInv, [Next]_vars PROVE QuietInv'
<1>1. CASE Work
  BY <1>1, WorkStaysQuiet
<1>2. CASE Requests
  BY <1>2, RequestsFrame, RequestsDoNotDisturb, QuietKept DEF round
<1>3. CASE Wifi
  <2>1. ASSUME NEW c \in Chips, AnswerFail(c) PROVE QuietInv'
    BY <2>1 DEF AnswerFail, QuietInv
  <2> QED
    BY <1>3, <2>1, AnswerStaysQuiet, HotPlugStaysQuiet DEF Wifi
<1>4. CASE \E m \in Macs : IfUp(m) \/ IfDown(m)
  BY <1>4, QuietKept DEF IfUp, IfDown, round, history
<1>5. CASE UNCHANGED vars
  BY <1>5, QuietKept DEF vars, round, history
<1> QED
  BY <1>1, <1>2, <1>3, <1>4, <1>5 DEF Next, Monitor, Others, Requests

LEMMA QuietAtFirst == Init => QuietInv
  BY DEF Init, QuietInv, Waiting, NothingLeftOver, Owing

(* As long as no wait is disturbed, the countdown follows the answers exactly   *)
(* and a round leaves nothing to the next one.                                  *)
THEOREM QuietInvariance == Spec => []QuietInv
  BY QuietAtFirst, StepStaysQuiet, Invariance, PTL DEF Spec

(* For any number of chips: the hardware is reset only when every chip on line  *)
(* was told and has answered, unless a wait timed out, a stop failed or a chip  *)
(* came or went while mtk_pending_work waited.                                  *)
THEOREM ChipsAlwaysQuiet == Spec => []ChipsAreQuiet
<1>1. IInv /\ QuietInv => ChipsAreQuiet
  <2> SUFFICES ASSUME IInv, QuietInv, work \in {"stop", "hw"}, ~disturbed,
                      NEW c \in online
               PROVE  told[c] # "none" /\ owed[c] = 0
    BY DEF ChipsAreQuiet
  <2>1. c \in Chips /\ owed[c] \in Nat
    BY ConstantFacts DEF IInv, TypeOK
  <2>2. told[c] # "none" /\ NothingLeftOver
    BY DEF QuietInv, Waiting
  <2> QED
    BY <2>1, <2>2 DEF NothingLeftOver, Owing
<1> QED
  BY <1>1, Invariance, QuietInvariance, PTL

---------------------------------------------------------------------------------
(* The users of the rings                                                       *)

LEMMA UpIsFinite ==
  ASSUME TypeOK
  PROVE  IsFiniteSet(up) /\ Cardinality(up) \in Nat /\ Cardinality(up) <= MacCount
<1>1. IsFiniteSet(Macs) /\ Cardinality(Macs) = MacCount
  BY ConstantFacts, FS_Interval DEF Macs
<1> QED
  BY <1>1, ConstantFacts, FS_Subset, FS_CardinalityType DEF TypeOK

(* What leaves the rings, the users and the place of the work alone.            *)
LEMMA ServedKept ==
  ASSUME ServedInv, UNCHANGED devices,
         \/ work' = work /\ mac' = mac
         \/ {work, work'} \cap {"stop", "hw", "open"} = {}
  PROVE  ServedInv'
<1> USE DEF devices
<1>1. RingsByUsers'
  BY DEF ServedInv, RingsByUsers
<1>2. UpAreUsers'
  BY DEF ServedInv, UpAreUsers
<1>3. RoundDetaches'
  BY DEF ServedInv, RoundDetaches
<1> QED
  BY <1>1, <1>2, <1>3 DEF ServedInv

(* Taking one user off the count and adding one keep the rings in step with it. *)
LEMMA RingsFollow ==
  ASSUME TypeOK, RingsByUsers, NEW m \in Macs
  PROVE  /\ Become(Stopped(m, Rings)) => RingsByUsers'
         /\ Become(Opened(m, "ok")) => RingsByUsers'
<1>1. dma_refcnt \in Nat /\ dma \in BOOLEAN
  BY DEF TypeOK
<1>2. ASSUME Become(Stopped(m, Rings)) PROVE RingsByUsers'
  <2>1. dma_refcnt' = IF dma_refcnt = 0 THEN 0 ELSE dma_refcnt - 1
    BY <1>2 DEF Become, Stopped, Rings
  <2>2. dma' = (dma /\ dma_refcnt # 1)
    BY <1>2 DEF Become, Stopped, Rings
  <2>3. dma' <=> dma /\ dma_refcnt # 1
    BY <2>2
  <2> QED
    BY <1>1, <2>1, <2>3 DEF RingsByUsers
<1>3. ASSUME Become(Opened(m, "ok")) PROVE RingsByUsers'
  <2>1. dma_refcnt' = dma_refcnt + 1
    BY <1>3 DEF Become, Opened
  <2>2. dma' = (dma \/ dma_refcnt = 0)
    BY <1>3 DEF Become, Opened
  <2>3. dma' <=> dma \/ dma_refcnt = 0
    BY <2>2
  <2> QED
    BY <1>1, <2>1, <2>3 DEF RingsByUsers
<1> QED
  BY <1>2, <1>3

(* Without failures from outside, a device whose PHY is not attached opens.     *)
LEMMA OpensUnlessAttached ==
  ASSUME ~OpenMayFail, NEW m, NEW r \in OpenResults(m)
  PROVE  r = "ok" \/ (r = "no_phy" /\ m \in attached)
  BY DEF OpenResults, Attaches

LEMMA UsersStayServed ==
  ASSUME ~OpenMayFail, IInv, ServedInv, NEW m \in Macs, IfUp(m) \/ IfDown(m)
  PROVE  ServedInv'
<1> USE DEF round
<1>0. /\ TypeOK /\ dma_refcnt \in Nat /\ RingsByUsers
      /\ work' = work /\ work \notin {"stop", "hw", "open"}
  BY DEF IInv, TypeOK, ServedInv, IfUp, IfDown, RtnlFree
<1>1. IsFiniteSet(up) /\ Cardinality(up) \in Nat /\ Cardinality(up) <= dma_refcnt
  BY <1>0, UpIsFinite DEF ServedInv, UpAreUsers
<1>2. CASE IfUp(m)
  <2>1. PICK r \in OpenResults(m) :
          /\ Become(Opened(m, r))
          /\ up' = IF r = "ok" THEN up \cup {m} ELSE up
    BY <1>2 DEF IfUp
  <2>2. CASE r = "ok"
    <3>1. RingsByUsers' /\ dma_refcnt' = dma_refcnt + 1
      BY <1>0, <2>1, <2>2, RingsFollow DEF Become, Opened
    <3>2. m \notin up /\ up' = up \cup {m}
      BY <1>2, <2>1, <2>2 DEF IfUp
    <3>3. Cardinality(up') = Cardinality(up) + 1
      BY <1>1, <3>2, FS_AddElement
    <3> QED
      BY <1>0, <1>1, <3>1, <3>3 DEF ServedInv, UpAreUsers, RoundDetaches
  <2>3. CASE r = "no_phy"
    <3>1. up' = up
      BY <2>1, <2>3
    <3>2. dma_refcnt' = dma_refcnt /\ dma' = dma
      BY <2>1, <2>3 DEF Become, Opened
    <3>3. RingsByUsers'
      BY <1>0, <3>2 DEF RingsByUsers
    <3> QED
      BY <1>0, <1>1, <3>1, <3>2, <3>3 DEF ServedInv, UpAreUsers, RoundDetaches
  <2> QED
    BY <2>1, <2>2, <2>3, OpensUnlessAttached
<1>3. CASE IfDown(m)
  <2>1. m \in up /\ up' = up \ {m} /\ Become(Stopped(m, Rings))
    BY <1>3 DEF IfDown
  <2>2. RingsByUsers'
    BY <1>0, <2>1, RingsFollow
  <2>3. Cardinality(up') = Cardinality(up) - 1
    BY <1>1, <2>1, FS_RemoveElement
  <2>4. dma_refcnt' = IF dma_refcnt = 0 THEN 0 ELSE dma_refcnt - 1
    BY <2>1 DEF Become, Stopped, Rings
  <2>5. Cardinality(up') <= dma_refcnt'
    BY <1>0, <1>1, <2>3, <2>4, UpIsFinite
  <2> QED
    BY <1>0, <2>2, <2>5 DEF ServedInv, UpAreUsers, RoundDetaches
<1> QED
  BY <1>2, <1>3

(* The round takes the devices down one after the other...                      *)
LEMMA StopStaysServed ==
  ASSUME IInv, ServedInv, StopDevice PROVE ServedInv'
<1>0. /\ TypeOK /\ RingsByUsers /\ mac \in Macs /\ attached \subseteq Macs
      /\ work = "stop" /\ Become(Stopped(mac, Rings))
  BY DEF IInv, TypeOK, ServedInv, StopDevice
<1>1. RingsByUsers'
  BY <1>0, RingsFollow
<1>2. attached' = attached \ {mac} /\ \A m \in attached : m >= mac
  BY <1>0 DEF ServedInv, RoundDetaches, Become, Stopped, Rings
<1>3. CASE mac < MacCount
  <2>1. work' = "stop" /\ mac' = mac + 1
    BY <1>3 DEF StopDevice, NextMac
  <2>2. \A m \in attached' : m >= mac'
    BY <1>0, <1>2, <2>1 DEF Macs
  <2> QED
    BY <1>1, <2>1, <2>2 DEF ServedInv, UpAreUsers, RoundDetaches
<1>4. CASE ~(mac < MacCount)
  <2>1. work' = "hw" /\ mac' = 1
    BY <1>4 DEF StopDevice, NextMac
  <2>2. attached' = {}
    BY <1>0, <1>2, <1>4, ConstantFacts DEF Macs
  <2> QED
    BY <1>1, <2>1, <2>2 DEF ServedInv, UpAreUsers, RoundDetaches
<1> QED
  BY <1>3, <1>4

(* ... and opens every one of them again, so that none is without its rings.    *)
LEMMA OpenStaysServed ==
  ASSUME ~OpenMayFail, IInv, ServedInv, OpenDevice PROVE ServedInv'
<1>0. /\ TypeOK /\ RingsByUsers /\ mac \in Macs /\ attached \subseteq Macs
      /\ work = "open" /\ dma_refcnt \in Nat /\ MacCount \in Nat
  BY ConstantFacts DEF IInv, TypeOK, ServedInv, OpenDevice
<1>1. dma_refcnt >= mac - 1 /\ \A m \in attached : m < mac
  BY <1>0 DEF ServedInv, RoundDetaches
<1>2. PICK r \in OpenResults(mac) :
        LET closes == r # "ok" /\ mac \in up
        IN /\ Become(IF closes THEN Stopped(mac, Opened(mac, r)) ELSE Opened(mac, r))
           /\ up' = IF closes THEN up \ {mac} ELSE up
  BY DEF OpenDevice
<1>3. r = "ok"
  <2>1. mac \notin attached
    BY <1>0, <1>1 DEF Macs
  <2> QED
    BY <2>1, OpensUnlessAttached
<1>4. Become(Opened(mac, "ok")) /\ up' = up
  BY <1>2, <1>3
<1>5. RingsByUsers' /\ dma_refcnt' = dma_refcnt + 1 /\ attached' = attached \cup {mac}
  BY <1>0, <1>4, RingsFollow DEF Become, Opened
<1>6. CASE mac < MacCount
  <2>1. work' = "open" /\ mac' = mac + 1
    BY <1>6 DEF OpenDevice, NextMac
  <2>2. dma_refcnt' >= mac' - 1 /\ \A m \in attached' : m < mac'
    BY <1>0, <1>1, <1>5, <2>1 DEF Macs
  <2> QED
    BY <1>5, <2>1, <2>2 DEF ServedInv, UpAreUsers, RoundDetaches
<1>7. CASE ~(mac < MacCount)
  <2>1. work' = "notify"
    BY <1>7 DEF OpenDevice, NextMac
  <2>2. mac = MacCount
    BY <1>0, <1>7 DEF Macs
  <2>3. Cardinality(up') <= dma_refcnt'
    BY <1>0, <1>1, <1>4, <1>5, <2>2, UpIsFinite
  <2> QED
    BY <1>5, <2>1, <2>3 DEF ServedInv, UpAreUsers, RoundDetaches
<1> QED
  BY <1>6, <1>7

LEMMA WorkStaysServed ==
  ASSUME ~OpenMayFail, IInv, ServedInv, Work PROVE ServedInv'
<1> USE DEF sources, counts
<1>0. /\ RingsByUsers /\ UpAreUsers /\ RoundDetaches /\ attached \subseteq Macs
      /\ dma_refcnt \in Nat
  BY DEF ServedInv, IInv, TypeOK
<1>1. CASE \/ Start \/ Check \/ NothingToDo \/ Announce \/ Answered \/ TimesOut
           \/ EndRound \/ Clear
  <2>1. UNCHANGED devices
    BY <1>1 DEF Start, Check, NothingToDo, Announce, Answered, TimesOut, EndRound, Clear
  <2>2. {work, work'} \cap {"stop", "hw", "open"} = {}
    BY <1>1 DEF Start, Check, NothingToDo, Announce, Answered, TimesOut, EndRound, Clear
  <2> QED
    BY <2>1, <2>2, ServedKept
<1>2. CASE StopMonitor
  <2>1. UNCHANGED devices /\ mac' = 1 /\ work' = "stop"
    BY <1>2 DEF StopMonitor
  <2>2. \A m \in attached' : m >= mac'
    BY <1>0, <2>1 DEF Macs, devices
  <2>3. RingsByUsers'
    BY <1>0, <2>1 DEF RingsByUsers, devices
  <2> QED
    BY <2>1, <2>2, <2>3 DEF ServedInv, UpAreUsers, RoundDetaches
<1>3. CASE StopDevice
  BY <1>3, StopStaysServed
<1>4. CASE HwInit
  <2>1. UNCHANGED <<mac, devices>> /\ work = "hw" /\ work' = "open"
    BY <1>4 DEF HwInit
  <2>2. attached' = {} /\ mac' = 1 /\ dma_refcnt' \in Nat
    BY <1>0, <2>1 DEF RoundDetaches, devices
  <2>3. RingsByUsers'
    BY <1>0, <2>1 DEF RingsByUsers, devices
  <2> QED
    BY <2>1, <2>2, <2>3 DEF ServedInv, UpAreUsers, RoundDetaches
<1>5. CASE OpenDevice
  BY <1>5, OpenStaysServed
<1> QED
  BY <1>1, <1>2, <1>3, <1>4, <1>5 DEF Work

LEMMA StepStaysServed ==
  ASSUME ~OpenMayFail, IInv, ServedInv, [Next]_vars PROVE ServedInv'
<1>1. CASE Work
  BY <1>1, WorkStaysServed
<1>2. CASE Requests
  BY <1>2, RequestsFrame, ServedKept DEF round
<1>3. CASE Wifi
  <2>1. UNCHANGED <<round, devices>>
    BY <1>3 DEF Wifi, Answer, AnswerFail, Online, Offline
  <2> QED
    BY <2>1, ServedKept DEF round
<1>4. CASE \E m \in Macs : IfUp(m) \/ IfDown(m)
  BY <1>4, UsersStayServed
<1>5. CASE UNCHANGED vars
  BY <1>5, ServedKept DEF vars, round
<1> QED
  BY <1>1, <1>2, <1>3, <1>4, <1>5 DEF Next, Monitor, Others, Requests

LEMMA ServedAtFirst == Init => ServedInv
<1> SUFFICES ASSUME Init PROVE ServedInv
  OBVIOUS
<1>1. /\ work = "idle" /\ up = 1 .. MacCount /\ dma_refcnt = MacCount /\ dma = TRUE
      /\ MacCount \in Nat /\ MacCount > 0
  BY ConstantFacts DEF Init, Macs
<1>2. Cardinality(up) = MacCount
  BY <1>1, FS_Interval
<1> QED
  BY <1>1, <1>2 DEF ServedInv, RingsByUsers, UpAreUsers, RoundDetaches

(* Every device the users have up is counted as a user of the rings, except in  *)
(* the part of a round that takes them all down and opens them again.           *)
THEOREM ServedInvariance == ASSUME ~OpenMayFail PROVE Spec => []ServedInv
  BY ServedAtFirst, StepStaysServed, Invariance, PTL DEF Spec

(* For any number of devices, opened and closed whenever rtnl is free: one that *)
(* is up has its rings running outside that part of a round, as long as mtk_open*)
(* fails for no reason but a PHY that is attached already.                      *)
THEOREM UpAlwaysServed == ASSUME ~OpenMayFail PROVE Spec => []UpIsServed
<1>1. IInv /\ ServedInv => UpIsServed
  <2> SUFFICES ASSUME IInv, ServedInv, work \notin {"stop", "hw", "open"}, up # {}
               PROVE  dma
    BY DEF UpIsServed
  <2>1. IsFiniteSet(up) /\ Cardinality(up) \in Nat /\ dma_refcnt \in Nat
    BY UpIsFinite DEF IInv, TypeOK
  <2>2. Cardinality(up) # 0
    BY <2>1, FS_EmptySet
  <2>3. Cardinality(up) <= dma_refcnt
    BY DEF ServedInv, UpAreUsers
  <2>4. dma_refcnt > 0
    BY <2>1, <2>2, <2>3
  <2> QED
    BY <2>4 DEF ServedInv, RingsByUsers
<1> QED
  BY <1>1, Invariance, ServedInvariance, PTL

---------------------------------------------------------------------------------
(* The refinement of ResetRound                                                 *)

Held == {c \in Chips : told[c] # "none"}

(* What leaves the place of the work and the chips alone is not seen above.     *)
LEMMA NotSeen ==
  ASSUME Phase' = Phase, UNCHANGED <<online, told>> PROVE UNCHANGED Abstract!vars
  BY DEF Abstract!vars

LEMMA RoundBegins == Init => Abstract!Init
  BY DEF Init, Abstract!Init, Phase

LEMMA WorkRefines ==
  ASSUME IInv, Work PROVE Abstract!Next \/ UNCHANGED Abstract!vars
<1> USE DEF chips
<1>0. TypeOK /\ CountdownInStep /\ HeldOnline
  BY DEF IInv
<1>1. CASE Start \/ Check \/ NothingToDo \/ StopMonitor \/ Answered \/ Clear
  <2>1. Phase' = Phase /\ UNCHANGED <<online, told>>
    BY <1>1 DEF Start, Check, NothingToDo, StopMonitor, Answered, Clear, Phase
  <2> QED
    BY <2>1, NotSeen
<1>2. CASE Announce
  <2>1. PICK kind \in Kinds : Tell(kind)
    BY <1>2 DEF Announce, Kinds
  <2>2. Held' = online /\ online' = online
    BY <1>0, <2>1, TellFacts DEF Held, Tell
  <2>3. Phase = "traffic" /\ Phase' = "announced"
    BY <1>2 DEF Announce, Phase
  <2> QED
    BY <2>2, <2>3 DEF Abstract!Next, Abstract!Announce, Held
<1>3. CASE TimesOut
  <2>1. Phase = "announced" /\ Phase' = "announced"
    BY <1>3 DEF TimesOut, Phase
  <2>2. CASE Tell("reset")
    <3>1. Held' = online /\ online' = online
      BY <1>0, <2>2, TellFacts DEF Held, Tell, Kinds
    <3> QED
      BY <2>1, <3>1 DEF Abstract!Next, Abstract!Announce, Held
  <2>3. CASE UNCHANGED chips
    BY <2>1, <2>3, NotSeen
  <2> QED
    BY <1>3, <2>2, <2>3 DEF TimesOut
<1>4. CASE StopDevice
  <2>1. Phase' = Phase /\ UNCHANGED <<online, told>>
    BY <1>4 DEF StopDevice, NextMac, Phase
  <2> QED
    BY <2>1, NotSeen
<1>5. CASE HwInit
  <2>1. Phase = "announced" /\ Phase' = "reset" /\ UNCHANGED <<online, told>>
    BY <1>5 DEF HwInit, Phase
  <2> QED
    BY <2>1 DEF Abstract!Next, Abstract!Reset
<1>6. CASE OpenDevice
  <2>1. Phase' = Phase /\ UNCHANGED <<online, told>>
    BY <1>6 DEF OpenDevice, NextMac, Phase
  <2> QED
    BY <2>1, NotSeen
<1>7. CASE EndRound
  <2>1. Phase = "reset" /\ Phase' = "traffic" /\ UNCHANGED online
    BY <1>7 DEF EndRound, Phase
  <2>2. Held' = {}
    BY <1>7 DEF EndRound, Held
  <2> QED
    BY <2>1, <2>2 DEF Abstract!Next, Abstract!Resume, Held
<1> QED
  BY <1>1, <1>2, <1>3, <1>4, <1>5, <1>6, <1>7 DEF Work

LEMMA WifiRefines ==
  ASSUME IInv, NEW c \in Chips, Answer(c) \/ AnswerFail(c) \/ Online(c) \/ Offline(c)
  PROVE  Abstract!Next \/ UNCHANGED Abstract!vars
<1> USE DEF round
<1>0. /\ TypeOK /\ CountdownInStep /\ HeldOnline
      /\ told \in [Chips -> Kinds \cup {"none", "failed"}]
  BY DEF IInv, TypeOK
<1>1. Phase' = Phase
  BY DEF Answer, AnswerFail, Online, Offline, Phase
<1>2. CASE Answer(c)
  BY <1>1, <1>2, NotSeen DEF Answer
<1>3. CASE AnswerFail(c)
  <2>1. Held' = Held /\ online' = online
    BY <1>0, <1>3 DEF AnswerFail, Held
  <2> QED
    BY <1>1, <2>1 DEF Abstract!vars, Held
<1>4. CASE Online(c)
  <2>1. Phase # "reset"
    BY <1>4 DEF Online, RtnlFree, Phase
  <2>2. Held' = Held /\ c \notin online /\ online' = online \cup {c}
    BY <1>4 DEF Online, Held
  <2>3. Abstract!Arrive(c)
    BY <1>1, <2>1, <2>2 DEF Abstract!Arrive, Held
  <2> QED
    BY <2>3 DEF Abstract!Next
<1>5. CASE Offline(c)
  <2>1. Phase # "reset"
    BY <1>5 DEF Offline, RtnlFree, Phase
  <2>2. Held' = Held \ {c} /\ c \in online /\ online' = online \ {c}
    BY <1>0, <1>5 DEF Offline, Held
  <2>3. Abstract!Depart(c)
    BY <1>1, <2>1, <2>2 DEF Abstract!Depart, Held
  <2> QED
    BY <2>3 DEF Abstract!Next
<1> QED
  BY <1>2, <1>3, <1>4, <1>5

LEMMA StepRefines == ASSUME IInv, [Next]_vars PROVE [Abstract!Next]_(Abstract!vars)
<1>1. CASE Work
  BY <1>1, WorkRefines
<1>2. CASE Requests
  <2>1. Phase' = Phase /\ UNCHANGED <<online, told>>
    BY <1>2, RequestsFrame DEF round, chips, Phase
  <2> QED
    BY <2>1, NotSeen
<1>3. CASE Wifi
  BY <1>3, WifiRefines DEF Wifi
<1>4. CASE \E m \in Macs : IfUp(m) \/ IfDown(m)
  <2>1. Phase' = Phase /\ UNCHANGED <<online, told>>
    BY <1>4 DEF IfUp, IfDown, round, chips, Phase
  <2> QED
    BY <2>1, NotSeen
<1>5. CASE UNCHANGED vars
  <2>1. Phase' = Phase /\ UNCHANGED <<online, told>>
    BY <1>5 DEF vars, round, chips, Phase
  <2> QED
    BY <2>1, NotSeen
<1> QED
  BY <1>1, <1>2, <1>3, <1>4, <1>5 DEF Next, Monitor, Others, Requests

(* Every round of mtk_pending_work is a round as the rest of the system may     *)
(* rely on: announced, reset once, resumed; a chip on line is held from the     *)
(* announcement to the end, and none comes or goes while the engine is reset.   *)
THEOREM ImplementsRound == Spec => IsRound
  BY RoundBegins, StepRefines, Invariance, PTL DEF Spec, IsRound, Abstract!Safe
=================================================================================
