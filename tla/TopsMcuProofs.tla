------------------------------ MODULE TopsMcuProofs ------------------------------
(* Proofs about TopsMcu: the lock, the order in which the machine goes from     *)
(* state to state, and that the cores are cut off and reset only while no       *)
(* traffic goes to them - for any cores, any clients, any faults and with no    *)
(* assumption on who runs when.                                                 *)
EXTENDS TopsMcu, TLAPS

---------------------------------------------------------------------------------
(* Facts about the constants and the tables                                     *)

LEMMA UserFacts ==
  /\ {"boot", "recover", "remove"} \subseteq Users
  /\ Clients \subseteq Users /\ "none" \notin Users
BY ClientsAssumption DEF Users

(* An act that is taken leads to a state that LeavesFor lists, if it is not     *)
(* ABNORMAL, which - like RESET - is taken in NETSTOP only.                     *)
LEMMA TransFollowsTable ==
  ASSUME NEW s, NEW a, NEW t, <<s, a, t>> \in Trans,
         a \in {"ABNORMAL", "RESET"} => s = "NETSTOP"
  PROVE  /\ s \in States /\ t \in States
         /\ a # "ABNORMAL" => t \in LeavesFor[s]
         /\ a = "ABNORMAL" => t = "ABNORMAL"
BY DEF Trans, LeavesFor, States

LEMMA LeavesForFacts ==
  ASSUME NEW s \in States, NEW t \in LeavesFor[s]
  PROVE  /\ t \in States
         /\ s = "INIT" => t \in {"FREERUN", "NETSTOP"}
         /\ s = "STALL" => t \in {"FREERUN", "NETSTOP"}
         /\ t = "NETSTOP" => s \in {"INIT", "FREERUN", "STALL"}
         /\ t = "RESET" => s = "NETSTOP"
         /\ t = "INIT" => s = "SHUTDOWN"
         /\ t = "ABNORMAL" => s = "RESET"
         /\ t = "SHUTDOWN" => s \in {"NETSTOP", "RESET", "ABNORMAL"}
BY DEF LeavesFor, States

(* A fault stays within the bound on how many there are.                        *)
LEMMA FaultCounted ==
  ASSUME NEW kind, HardwareType, Fault(kind)
  PROVE  faults' \in 0 .. MaxFaults
<1>1. MaxFaults \in Nat /\ faults \in Nat /\ faults < MaxFaults /\ faults' = faults + 1
  BY FaultsAssumption DEF Fault, HardwareType
<1> QED
  BY <1>1

---------------------------------------------------------------------------------
(* What a step that leaves a part of the state alone preserves                  *)

LEMMA MachineFrame == MachineType /\ UNCHANGED machine => MachineType'
BY DEF MachineType, machine

LEMMA RequestFrame == RequestType /\ UNCHANGED request => RequestType'
BY DEF RequestType, request

LEMMA FlagsFrame == FlagsType /\ UNCHANGED flags => FlagsType'
BY DEF FlagsType, flags

LEMMA UsersFrame ==
  UsersType /\ LockHeld /\ UNCHANGED users => UsersType' /\ LockHeld'
BY DEF UsersType, LockHeld, users

LEMMA HardwareFrame == HardwareType /\ UNCHANGED hardware => HardwareType'
BY DEF HardwareType, hardware

(* Who does not move the machine may only add to the acts, and neither ABNORMAL *)
(* nor RESET.                                                                   *)
LEMMA OrderFrame ==
  ASSUME ControlInOrder, FollowUpComesFirst, QuietStates,
         UNCHANGED <<cur, next, ctrl, traffic>>,
         pend' \cap {"ABNORMAL", "RESET"} = pend \cap {"ABNORMAL", "RESET"}
  PROVE  ControlInOrder' /\ FollowUpComesFirst' /\ QuietStates'
<1>1. ControlInOrder'
  BY DEF ControlInOrder
<1>2. FollowUpComesFirst'
  BY DEF FollowUpComesFirst
<1>3. QuietStates'
  BY DEF QuietStates
<1> QED
  BY <1>1, <1>2, <1>3

---------------------------------------------------------------------------------
(* The lock                                                                     *)

LEMMA TakesLock ==
  ASSUME UsersType, LockHeld, NEW u \in Users, NEW p \in Holding,
         owner = "none", owner' = u, pc' = [pc EXCEPT ![u] = p]
  PROVE  LockHeld'
BY UserFacts DEF LockHeld, UsersType, Holding

LEMMA GivesLock ==
  ASSUME UsersType, LockHeld, NEW u \in Users, NEW p, p \notin Holding,
         owner = u, owner' = "none", pc' = [pc EXCEPT ![u] = p]
  PROVE  LockHeld'
BY UserFacts DEF LockHeld, UsersType

LEMMA KeepsLock ==
  ASSUME UsersType, LockHeld, NEW u \in Users, NEW p, p \in Holding <=> pc[u] \in Holding,
         owner' = owner, pc' = [pc EXCEPT ![u] = p]
  PROVE  LockHeld'
BY DEF LockHeld, UsersType

---------------------------------------------------------------------------------
(* The control thread                                                           *)

LEMMA TakeKeeps ==
  ASSUME IInv, Take
  PROVE  IInv'
<1> USE DEF IInv, TypeOK
<1>1. PICK a \in pend :
        /\ \A b \in pend : Bit[a] <= Bit[b]
        /\ pend' = pend \ {a}
        /\ \/ /\ \E s \in States :
                   /\ <<cur, a, s>> \in Trans
                   /\ next' = s
                   /\ \/ a # "ABNORMAL" /\ Moves("leave") /\ UNCHANGED cur
                      \/ a = "ABNORMAL" /\ Moves("enter") /\ cur' = s
              /\ UNCHANGED <<fail, woken>>
           \/ Failed /\ UNCHANGED <<cur, next>>
  BY DEF Take
<1>2. a \in {"ABNORMAL", "RESET"} => cur = "NETSTOP"
  BY DEF FollowUpComesFirst
<1>3. pend' \cap {"ABNORMAL", "RESET"} = {}
  <2>1. pend \cap {"ABNORMAL", "RESET"} # {} => a \in {"ABNORMAL", "RESET"}
    BY <1>1 DEF Bit, MachineType, Acts
  <2> QED
    BY <1>1, <2>1 DEF FollowUpComesFirst
<1>4. ctrl = "idle" /\ UNCHANGED <<request, owner, pc, queued, req, hardware>>
      /\ UNCHANGED <<bringUp, inReset, inRecover, feSer, shuting>>
  BY DEF Take
<1>5. /\ cur' \in States /\ next' \in States
      /\ ctrl' \in {"leave", "enter", "idle"} /\ armed' \in BOOLEAN
      /\ fail' \in BOOLEAN /\ woken' \in BOOLEAN
  BY <1>1 DEF MachineType, FlagsType, UsersType, Failed, Moves
<1>6. MachineType'
  BY <1>1, <1>5 DEF MachineType
<1>7. RequestType' /\ HardwareType'
  BY <1>4, RequestFrame, HardwareFrame
<1>8. FlagsType'
  BY <1>4, <1>5 DEF FlagsType
<1>9. UsersType' /\ LockHeld'
  BY <1>4, <1>5 DEF UsersType, LockHeld
<1>10. ControlInOrder' /\ QuietStates'
  <2>1. CASE Failed /\ UNCHANGED <<cur, next>>
    BY <1>4, <2>1 DEF ControlInOrder, QuietStates, Failed, Moves, hardware
  <2>2. ASSUME NEW s \in States, <<cur, a, s>> \in Trans, next' = s,
               a # "ABNORMAL", Moves("leave"), UNCHANGED cur
        PROVE  ControlInOrder' /\ QuietStates'
    <3>1. s \in LeavesFor[cur]
      BY <1>2, <2>2, TransFollowsTable
    <3> QED
      BY <1>4, <2>2, <3>1 DEF ControlInOrder, QuietStates, Moves, hardware
  <2>3. ASSUME NEW s \in States, <<cur, a, s>> \in Trans, a = "ABNORMAL",
               Moves("enter"), cur' = s
        PROVE  ControlInOrder' /\ QuietStates'
    <3>1. s = "ABNORMAL" /\ cur = "NETSTOP"
      BY <1>2, <2>3, TransFollowsTable
    <3> QED
      BY <1>4, <2>3, <3>1 DEF ControlInOrder, QuietStates, Moves, hardware
  <2> QED
    BY <1>1, <2>1, <2>2, <2>3
<1>11. FollowUpComesFirst'
  BY <1>3 DEF FollowUpComesFirst
<1> QED
  BY <1>6, <1>7, <1>8, <1>9, <1>10, <1>11

LEMMA LeaveKeeps ==
  ASSUME IInv, Leave
  PROVE  IInv'
<1> USE DEF IInv, TypeOK
<1>1. MachineType'
  BY LeavesForFacts DEF Leave, Moves, MachineType, ControlInOrder
<1>2. RequestType'
  BY RequestFrame DEF Leave, Moves, LeavesQuietly
<1>3. FlagsType'
  BY FlagsFrame DEF Leave, Moves, LeavesQuietly
<1>4. UsersType' /\ LockHeld'
  BY UsersFrame DEF Leave, Moves, LeavesQuietly
<1>5. HardwareType'
  BY HardwareFrame DEF Leave, Moves, LeavesQuietly
<1>6. ControlInOrder'
  BY LeavesForFacts
     DEF ControlInOrder, Leave, Moves, LeavesQuietly, MachineType, hardware
<1>7. FollowUpComesFirst'
  BY LeavesForFacts
     DEF FollowUpComesFirst, Leave, Moves, LeavesQuietly, MachineType, hardware
<1>8. QuietStates'
  BY LeavesForFacts
     DEF QuietStates, Leave, Moves, LeavesQuietly, MachineType, ControlInOrder,
         hardware
<1> QED
  BY <1>1, <1>2, <1>3, <1>4, <1>5, <1>6, <1>7, <1>8

LEMMA LeaveInitKeeps ==
  ASSUME IInv, LeaveInit
  PROVE  IInv'
<1> USE DEF IInv, TypeOK
<1>1. MachineType'
  BY LeavesForFacts DEF LeaveInit, Moves, MachineType, ControlInOrder
<1>2. RequestType'
  BY RequestFrame DEF LeaveInit, Moves
<1>3. FlagsType'
  BY FlagsFrame DEF LeaveInit, Moves
<1>4. UsersType' /\ LockHeld'
  BY UsersFrame DEF LeaveInit, Moves
<1>5. HardwareType'
  BY DEF LeaveInit, Moves, HardwareType, Commands, Answers
<1>6. ControlInOrder'
  BY LeavesForFacts DEF ControlInOrder, LeaveInit, Moves, MachineType, hardware
<1>7. FollowUpComesFirst'
  BY LeavesForFacts DEF FollowUpComesFirst, LeaveInit, Moves, MachineType, hardware
<1>8. QuietStates'
  BY LeavesForFacts
     DEF QuietStates, LeaveInit, Moves, MachineType, ControlInOrder, hardware
<1> QED
  BY <1>1, <1>2, <1>3, <1>4, <1>5, <1>6, <1>7, <1>8

LEMMA LeaveWithCommandKeeps ==
  ASSUME IInv, LeaveWithCommand
  PROVE  IInv'
<1> USE DEF IInv, TypeOK
<1>1. MachineType'
  BY DEF LeaveWithCommand, Moves, PrepareAndSend, MachineType, States, Acts
<1>2. RequestType'
  BY DEF LeaveWithCommand, Moves, PrepareAndSend, RequestType, Commands, Answers
<1>3. FlagsType'
  BY FlagsFrame DEF LeaveWithCommand, Moves, PrepareAndSend
<1>4. UsersType' /\ LockHeld'
  BY UsersFrame DEF LeaveWithCommand, Moves, PrepareAndSend
<1>5. HardwareType'
  BY DEF LeaveWithCommand, PrepareAndSend, HardwareType, RequestType
<1>6. ControlInOrder'
  BY DEF ControlInOrder, LeaveWithCommand, Moves, PrepareAndSend, hardware, machine
<1>7. FollowUpComesFirst'
  BY
     DEF FollowUpComesFirst, LeaveWithCommand, Moves, PrepareAndSend, hardware,
         machine
<1>8. QuietStates'
  BY DEF QuietStates, LeaveWithCommand, Moves, PrepareAndSend, hardware, machine
<1> QED
  BY <1>1, <1>2, <1>3, <1>4, <1>5, <1>6, <1>7, <1>8

LEMMA EnterShutdownKeeps ==
  ASSUME IInv, EnterShutdown
  PROVE  IInv'
<1> USE DEF IInv, TypeOK
<1>1. MachineType'
  BY DEF EnterShutdown, Moves, MachineType, States, Acts
<1>2. RequestType'
  BY RequestFrame DEF EnterShutdown, Moves
<1>3. FlagsType'
  BY DEF EnterShutdown, Moves, FlagsType
<1>4. UsersType'
  BY UserFacts DEF EnterShutdown, Moves, UsersType, Holding
<1>5. LockHeld'
  BY DEF LockHeld, EnterShutdown, Moves
<1>6. HardwareType'
  BY DEF EnterShutdown, Moves, HardwareType, Commands, Answers
<1>7. ControlInOrder'
  BY DEF ControlInOrder, EnterShutdown, Moves, hardware, machine
<1>8. FollowUpComesFirst'
  BY DEF FollowUpComesFirst, EnterShutdown, Moves, hardware, machine
<1>9. QuietStates'
  BY DEF QuietStates, EnterShutdown, Moves, hardware, machine
<1> QED
  BY <1>1, <1>2, <1>3, <1>4, <1>5, <1>6, <1>7, <1>8, <1>9

LEMMA EnterInitKeeps ==
  ASSUME IInv, EnterInit
  PROVE  IInv'
<1> USE DEF IInv, TypeOK
<1>1. MachineType'
  BY DEF EnterInit, Moves, Fault, Failed, MachineType, States, Acts
<1>2. RequestType'
  BY DEF EnterInit, Moves, Fault, Failed, RequestType, Commands, Answers
<1>3. FlagsType'
  BY DEF EnterInit, Moves, Fault, Failed, FlagsType
<1>4. UsersType'
  BY UserFacts DEF EnterInit, Moves, Fault, Failed, UsersType, Holding
<1>5. LockHeld'
  BY DEF LockHeld, EnterInit, Moves, Fault, Failed
<1>6. HardwareType'
  <2>1. faults' \in 0 .. MaxFaults
    BY FaultCounted DEF EnterInit, HardwareType
  <2> QED
    BY <2>1 DEF EnterInit, HardwareType
<1>7. ControlInOrder'
  BY DEF ControlInOrder, EnterInit, Moves, Fault, Failed, hardware, machine
<1>8. FollowUpComesFirst'
  BY DEF FollowUpComesFirst, EnterInit, Moves, Fault, Failed, hardware, machine
<1>9. QuietStates'
  BY DEF QuietStates, EnterInit, Moves, Fault, Failed, hardware, machine
<1> QED
  BY <1>1, <1>2, <1>3, <1>4, <1>5, <1>6, <1>7, <1>8, <1>9

LEMMA EnterInitUnpoweredKeeps ==
  ASSUME IInv, EnterInitUnpowered
  PROVE  IInv'
<1> USE DEF IInv, TypeOK
<1>1. MachineType'
  BY DEF EnterInitUnpowered, Moves, Fault, Failed, MachineType, States, Acts
<1>2. RequestType'
  BY RequestFrame DEF EnterInitUnpowered, Moves, Fault, Failed
<1>3. FlagsType'
  BY DEF EnterInitUnpowered, Moves, Fault, Failed, FlagsType
<1>4. UsersType'
  BY UserFacts DEF EnterInitUnpowered, Moves, Fault, Failed, UsersType, Holding
<1>5. LockHeld'
  BY DEF LockHeld, EnterInitUnpowered, Moves, Fault, Failed
<1>6. HardwareType'
  <2>1. faults' \in 0 .. MaxFaults
    BY FaultCounted DEF EnterInitUnpowered
  <2> QED
    BY <2>1 DEF EnterInitUnpowered, HardwareType
<1>7. ControlInOrder'
  BY DEF ControlInOrder, EnterInitUnpowered, Moves, Fault, Failed, hardware, machine
<1>8. FollowUpComesFirst'
  BY
     DEF FollowUpComesFirst, EnterInitUnpowered, Moves, Fault, Failed, hardware,
         machine
<1>9. QuietStates'
  BY DEF QuietStates, EnterInitUnpowered, Moves, Fault, Failed, hardware, machine
<1> QED
  BY <1>1, <1>2, <1>3, <1>4, <1>5, <1>6, <1>7, <1>8, <1>9

LEMMA EnterFreerunKeeps ==
  ASSUME IInv, EnterFreerun
  PROVE  IInv'
<1> USE DEF IInv, TypeOK
<1>1. MachineType'
  BY DEF EnterFreerun, Moves, MachineType, States, Acts
<1>2. RequestType'
  BY RequestFrame DEF EnterFreerun, Moves
<1>3. FlagsType'
  BY FlagsFrame DEF EnterFreerun, Moves
<1>4. UsersType' /\ LockHeld'
  BY UsersFrame DEF EnterFreerun, Moves
<1>5. HardwareType'
  BY HardwareFrame DEF EnterFreerun, Moves
<1>6. ControlInOrder'
  BY DEF ControlInOrder, EnterFreerun, Moves, hardware, machine
<1>7. FollowUpComesFirst'
  BY DEF FollowUpComesFirst, EnterFreerun, Moves, hardware, machine
<1>8. QuietStates'
  BY DEF QuietStates, EnterFreerun, Moves, hardware, machine
<1> QED
  BY <1>1, <1>2, <1>3, <1>4, <1>5, <1>6, <1>7, <1>8

LEMMA EnterStallKeeps ==
  ASSUME IInv, EnterStall
  PROVE  IInv'
<1> USE DEF IInv, TypeOK
<1>1. MachineType'
  BY DEF EnterStall, Moves, PrepareAndSend, MachineType, States, Acts
<1>2. RequestType'
  BY DEF EnterStall, Moves, PrepareAndSend, RequestType, Commands, Answers
<1>3. FlagsType'
  BY FlagsFrame DEF EnterStall, Moves, PrepareAndSend
<1>4. UsersType' /\ LockHeld'
  BY UsersFrame DEF EnterStall, Moves, PrepareAndSend
<1>5. HardwareType'
  BY DEF EnterStall, PrepareAndSend, HardwareType, RequestType
<1>6. ControlInOrder'
  BY DEF ControlInOrder, EnterStall, Moves, PrepareAndSend, hardware, machine
<1>7. FollowUpComesFirst'
  BY DEF FollowUpComesFirst, EnterStall, Moves, PrepareAndSend, hardware, machine
<1>8. QuietStates'
  BY DEF QuietStates, EnterStall, Moves, PrepareAndSend, hardware, machine
<1> QED
  BY <1>1, <1>2, <1>3, <1>4, <1>5, <1>6, <1>7, <1>8

LEMMA EnterNetstopKeeps ==
  ASSUME IInv, EnterNetstop
  PROVE  IInv'
<1> USE DEF IInv, TypeOK
<1>1. MachineType'
  BY DEF EnterNetstop, Moves, MachineType, States, Acts
<1>2. RequestType'
  BY RequestFrame DEF EnterNetstop, Moves
<1>3. FlagsType'
  BY FlagsFrame DEF EnterNetstop, Moves
<1>4. UsersType' /\ LockHeld'
  BY UsersFrame DEF EnterNetstop, Moves
<1>5. HardwareType'
  BY DEF EnterNetstop, Moves, HardwareType, Commands, Answers
<1>6. ControlInOrder'
  BY DEF ControlInOrder, EnterNetstop, Moves, hardware, machine
<1>7. FollowUpComesFirst'
  BY DEF FollowUpComesFirst, EnterNetstop, Moves, hardware, machine
<1>8. QuietStates'
  BY DEF QuietStates, EnterNetstop, Moves, hardware, machine
<1> QED
  BY <1>1, <1>2, <1>3, <1>4, <1>5, <1>6, <1>7, <1>8

LEMMA EnterResetKeeps ==
  ASSUME IInv, EnterReset
  PROVE  IInv'
<1> USE DEF IInv, TypeOK
<1>1. MachineType'
  BY DEF EnterReset, Moves, PrepareAndSend, MachineType, States, Acts
<1>2. RequestType'
  BY DEF EnterReset, Moves, PrepareAndSend, RequestType, Commands, Answers
<1>3. FlagsType'
  BY FlagsFrame DEF EnterReset, Moves, PrepareAndSend
<1>4. UsersType' /\ LockHeld'
  BY UsersFrame DEF EnterReset, Moves, PrepareAndSend
<1>5. HardwareType'
  BY DEF EnterReset, PrepareAndSend, HardwareType, RequestType
<1>6. ControlInOrder'
  BY DEF ControlInOrder, EnterReset, Moves, PrepareAndSend, hardware, machine
<1>7. FollowUpComesFirst'
  BY DEF FollowUpComesFirst, EnterReset, Moves, PrepareAndSend, hardware, machine
<1>8. QuietStates'
  BY DEF QuietStates, EnterReset, Moves, PrepareAndSend, hardware, machine
<1> QED
  BY <1>1, <1>2, <1>3, <1>4, <1>5, <1>6, <1>7, <1>8

LEMMA EnterResetSilentlyKeeps ==
  ASSUME IInv, EnterResetSilently
  PROVE  IInv'
<1> USE DEF IInv, TypeOK
<1>1. MachineType'
  BY DEF EnterResetSilently, Moves, MachineType, States, Acts
<1>2. RequestType'
  BY DEF EnterResetSilently, Moves, RequestType, Commands, Answers
<1>3. FlagsType'
  BY FlagsFrame DEF EnterResetSilently, Moves
<1>4. UsersType' /\ LockHeld'
  BY UsersFrame DEF EnterResetSilently, Moves
<1>5. HardwareType'
  BY HardwareFrame DEF EnterResetSilently, Moves
<1>6. ControlInOrder'
  BY DEF ControlInOrder, EnterResetSilently, Moves, hardware, machine
<1>7. FollowUpComesFirst'
  BY DEF FollowUpComesFirst, EnterResetSilently, Moves, hardware, machine
<1>8. QuietStates'
  BY DEF QuietStates, EnterResetSilently, Moves, hardware, machine
<1> QED
  BY <1>1, <1>2, <1>3, <1>4, <1>5, <1>6, <1>7, <1>8

LEMMA EnterAbnormalKeeps ==
  ASSUME IInv, EnterAbnormal
  PROVE  IInv'
<1> USE DEF IInv, TypeOK
<1>1. MachineType'
  BY DEF EnterAbnormal, Moves, MachineType, States, Acts
<1>2. RequestType'
  BY RequestFrame DEF EnterAbnormal, Moves
<1>3. FlagsType'
  BY FlagsFrame DEF EnterAbnormal, Moves
<1>4. UsersType' /\ LockHeld'
  BY UsersFrame DEF EnterAbnormal, Moves
<1>5. HardwareType'
  BY HardwareFrame DEF EnterAbnormal, Moves
<1>6. ControlInOrder'
  BY DEF ControlInOrder, EnterAbnormal, Moves, hardware, machine
<1>7. FollowUpComesFirst'
  BY DEF FollowUpComesFirst, EnterAbnormal, Moves, hardware, machine
<1>8. QuietStates'
  BY DEF QuietStates, EnterAbnormal, Moves, hardware, machine
<1> QED
  BY <1>1, <1>2, <1>3, <1>4, <1>5, <1>6, <1>7, <1>8

LEMMA CompletesKeeps ==
  ASSUME IInv, Completes
  PROVE  IInv'
<1> USE DEF IInv, TypeOK
<1>1. MachineType'
  BY DEF Completes, Moves, Waiting, MachineType, States, Acts
<1>2. RequestType'
  BY DEF Completes, Moves, Waiting, RequestType, Commands, Answers
<1>3. FlagsType'
  BY DEF Completes, Moves, Waiting, FlagsType
<1>4. UsersType'
  BY UserFacts DEF Completes, Moves, Waiting, UsersType, Holding
<1>5. LockHeld'
  BY DEF LockHeld, Completes, Moves, Waiting
<1>6. HardwareType'
  BY HardwareFrame DEF Completes, Moves, Waiting
<1>7. ControlInOrder'
  BY DEF ControlInOrder, Completes, Moves, Waiting, hardware
<1>8. FollowUpComesFirst'
  BY DEF FollowUpComesFirst, Completes, Moves, Waiting, hardware
<1>9. QuietStates'
  BY DEF QuietStates, ControlInOrder, Completes, Moves, Waiting, hardware
<1> QED
  BY <1>1, <1>2, <1>3, <1>4, <1>5, <1>6, <1>7, <1>8, <1>9

LEMMA WaitFailsKeeps ==
  ASSUME IInv, WaitFails
  PROVE  IInv'
<1> USE DEF IInv, TypeOK
<1>1. MachineType'
  BY DEF WaitFails, Moves, Failed, Waiting, MachineType, States, Acts
<1>2. RequestType'
  BY RequestFrame DEF WaitFails, Moves, Failed, Waiting
<1>3. FlagsType'
  BY DEF WaitFails, Moves, Failed, Waiting, FlagsType
<1>4. UsersType'
  BY UserFacts DEF WaitFails, Moves, Failed, Waiting, UsersType, Holding
<1>5. LockHeld'
  BY DEF LockHeld, WaitFails, Moves, Failed, Waiting
<1>6. HardwareType'
  BY HardwareFrame DEF WaitFails, Moves, Failed, Waiting
<1>7. ControlInOrder'
  BY DEF ControlInOrder, WaitFails, Moves, Failed, Waiting, hardware
<1>8. FollowUpComesFirst'
  BY DEF FollowUpComesFirst, WaitFails, Moves, Failed, Waiting, hardware
<1>9. QuietStates'
  BY DEF QuietStates, ControlInOrder, WaitFails, Moves, Failed, Waiting, hardware
<1> QED
  BY <1>1, <1>2, <1>3, <1>4, <1>5, <1>6, <1>7, <1>8, <1>9

LEMMA TimerStopsKeeps ==
  ASSUME IInv, TimerStops
  PROVE  IInv'
<1> USE DEF IInv, TypeOK
<1>1. MachineType'
  BY LeavesForFacts DEF TimerStops, Moves, MachineType, ControlInOrder
<1>2. RequestType'
  BY RequestFrame DEF TimerStops, Moves
<1>3. FlagsType'
  BY FlagsFrame DEF TimerStops, Moves
<1>4. UsersType' /\ LockHeld'
  BY UsersFrame DEF TimerStops, Moves
<1>5. HardwareType'
  BY HardwareFrame DEF TimerStops, Moves
<1>6. ControlInOrder'
  BY LeavesForFacts DEF ControlInOrder, TimerStops, Moves, MachineType, hardware
<1>7. FollowUpComesFirst'
  BY LeavesForFacts DEF FollowUpComesFirst, TimerStops, Moves, MachineType, hardware
<1>8. QuietStates'
  BY LeavesForFacts
     DEF QuietStates, TimerStops, Moves, MachineType, ControlInOrder, hardware
<1> QED
  BY <1>1, <1>2, <1>3, <1>4, <1>5, <1>6, <1>7, <1>8

LEMMA ControlKeeps == IInv /\ Control => IInv'
BY TakeKeeps, LeaveKeeps, LeaveInitKeeps, LeaveWithCommandKeeps, EnterShutdownKeeps,
   EnterInitKeeps, EnterInitUnpoweredKeeps, EnterFreerunKeeps, EnterStallKeeps,
   EnterNetstopKeeps, EnterResetKeeps, EnterResetSilentlyKeeps, EnterAbnormalKeeps,
   CompletesKeeps, WaitFailsKeeps, TimerStopsKeeps
   DEF Control

LEMMA TimesOutKeeps ==
  ASSUME IInv, TimesOut
  PROVE  IInv'
<1> USE DEF IInv, TypeOK
<1>1. MachineType'
  BY DEF TimesOut, MachineType, States, Acts
<1>2. RequestType'
  BY RequestFrame DEF TimesOut
<1>3. FlagsType'
  BY DEF TimesOut, FlagsType
<1>4. UsersType' /\ LockHeld'
  BY UsersFrame DEF TimesOut
<1>5. HardwareType'
  BY HardwareFrame DEF TimesOut
<1>6. ControlInOrder' /\ FollowUpComesFirst' /\ QuietStates'
  BY OrderFrame DEF TimesOut, machine, hardware
<1> QED
  BY <1>1, <1>2, <1>3, <1>4, <1>5, <1>6

---------------------------------------------------------------------------------
(* The cores and the interrupts                                                 *)

LEMMA CoreBootsKeeps ==
  ASSUME NEW c \in Cores, IInv, CoreBoots(c)
  PROVE  IInv'
<1> USE DEF IInv, TypeOK
<1>1. MachineType'
  BY MachineFrame DEF CoreBoots
<1>2. RequestType'
  BY RequestFrame DEF CoreBoots
<1>3. FlagsType'
  BY FlagsFrame DEF CoreBoots
<1>4. UsersType' /\ LockHeld'
  BY UsersFrame DEF CoreBoots
<1>5. HardwareType'
  BY DEF CoreBoots, HardwareType, Commands, Answers
<1>6. ControlInOrder' /\ FollowUpComesFirst' /\ QuietStates'
  BY OrderFrame DEF CoreBoots, machine, hardware
<1> QED
  BY <1>1, <1>2, <1>3, <1>4, <1>5, <1>6

LEMMA CoreObeysKeeps ==
  ASSUME NEW c \in Cores, IInv, CoreObeys(c)
  PROVE  IInv'
<1> USE DEF IInv, TypeOK
<1>1. MachineType'
  BY MachineFrame DEF CoreObeys, Alive
<1>2. RequestType'
  BY RequestFrame DEF CoreObeys, Alive
<1>3. FlagsType'
  BY FlagsFrame DEF CoreObeys, Alive
<1>4. UsersType' /\ LockHeld'
  BY UsersFrame DEF CoreObeys, Alive
<1>5. HardwareType'
  <2>1. cmd[c] \in Commands => /\ ModeAfter[cmd[c]] \in {"stalled", "run", "reset"}
                               /\ AnswerTo[cmd[c]] \in Answers
    BY DEF Commands, ModeAfter, AnswerTo, Answers
  <2> QED
    BY <2>1 DEF CoreObeys, HardwareType
<1>6. ControlInOrder' /\ FollowUpComesFirst' /\ QuietStates'
  BY OrderFrame DEF CoreObeys, Alive, machine, hardware
<1> QED
  BY <1>1, <1>2, <1>3, <1>4, <1>5, <1>6

LEMMA CoreRefusesKeeps ==
  ASSUME NEW c \in Cores, IInv, CoreRefuses(c)
  PROVE  IInv'
<1> USE DEF IInv, TypeOK
<1>1. MachineType'
  BY MachineFrame DEF CoreRefuses, Alive, Fault
<1>2. RequestType'
  BY RequestFrame DEF CoreRefuses, Alive, Fault
<1>3. FlagsType'
  BY FlagsFrame DEF CoreRefuses, Alive, Fault
<1>4. UsersType' /\ LockHeld'
  BY UsersFrame DEF CoreRefuses, Alive, Fault
<1>5. HardwareType'
  <2>1. faults' \in 0 .. MaxFaults
    BY FaultCounted DEF CoreRefuses
  <2> QED
    BY <2>1 DEF CoreRefuses, HardwareType
<1>6. ControlInOrder' /\ FollowUpComesFirst' /\ QuietStates'
  BY OrderFrame DEF CoreRefuses, Alive, Fault, machine, hardware
<1> QED
  BY <1>1, <1>2, <1>3, <1>4, <1>5, <1>6

LEMMA CoreHangsKeeps ==
  ASSUME NEW c \in Cores, IInv, CoreHangs(c)
  PROVE  IInv'
<1> USE DEF IInv, TypeOK
<1>1. MachineType'
  BY MachineFrame DEF CoreHangs, Alive, Fault
<1>2. RequestType'
  BY RequestFrame DEF CoreHangs, Alive, Fault
<1>3. FlagsType'
  BY FlagsFrame DEF CoreHangs, Alive, Fault
<1>4. UsersType' /\ LockHeld'
  BY UsersFrame DEF CoreHangs, Alive, Fault
<1>5. HardwareType'
  <2>1. faults' \in 0 .. MaxFaults
    BY FaultCounted DEF CoreHangs
  <2> QED
    BY <2>1 DEF CoreHangs, HardwareType
<1>6. ControlInOrder' /\ FollowUpComesFirst' /\ QuietStates'
  BY OrderFrame DEF CoreHangs, Alive, Fault, machine, hardware
<1> QED
  BY <1>1, <1>2, <1>3, <1>4, <1>5, <1>6

LEMMA MuteCoreTakesKeeps ==
  ASSUME NEW c \in Cores, IInv, MuteCoreTakes(c)
  PROVE  IInv'
<1> USE DEF IInv, TypeOK
<1>1. MachineType'
  BY MachineFrame DEF MuteCoreTakes
<1>2. RequestType'
  BY RequestFrame DEF MuteCoreTakes
<1>3. FlagsType'
  BY FlagsFrame DEF MuteCoreTakes
<1>4. UsersType' /\ LockHeld'
  BY UsersFrame DEF MuteCoreTakes
<1>5. HardwareType'
  BY DEF MuteCoreTakes, HardwareType, Commands, Answers
<1>6. ControlInOrder' /\ FollowUpComesFirst' /\ QuietStates'
  BY OrderFrame DEF MuteCoreTakes, machine, hardware
<1> QED
  BY <1>1, <1>2, <1>3, <1>4, <1>5, <1>6

LEMMA ReceiveKeeps ==
  ASSUME NEW c \in Cores, IInv, Receive(c)
  PROVE  IInv'
<1> USE DEF IInv, TypeOK
<1>1. MachineType'
  BY MachineFrame DEF Receive
<1>2. RequestType'
  BY DEF Receive, RequestType, Commands, Answers
<1>3. FlagsType'
  BY DEF Receive, FlagsType
<1>4. UsersType' /\ LockHeld'
  BY UsersFrame DEF Receive
<1>5. HardwareType'
  BY DEF Receive, HardwareType, Commands, Answers
<1>6. ControlInOrder' /\ FollowUpComesFirst' /\ QuietStates'
  BY OrderFrame DEF Receive, machine, hardware
<1> QED
  BY <1>1, <1>2, <1>3, <1>4, <1>5, <1>6

LEMMA CoreStepKeeps ==
  ASSUME IInv, NEW c \in Cores, CoreStep(c)
  PROVE  IInv'
BY CoreBootsKeeps, CoreObeysKeeps, CoreRefusesKeeps, CoreHangsKeeps,
   MuteCoreTakesKeeps,
   ReceiveKeeps
   DEF CoreStep

---------------------------------------------------------------------------------
(* The users                                                                    *)

LEMMA StaysAsleepKeeps ==
  ASSUME IInv, StaysAsleep
  PROVE  IInv'
<1> USE DEF IInv, TypeOK
<1>1. MachineType'
  BY MachineFrame DEF StaysAsleep
<1>2. RequestType'
  BY RequestFrame DEF StaysAsleep
<1>3. FlagsType'
  BY FlagsFrame DEF StaysAsleep
<1>4. UsersType'
  BY UserFacts DEF StaysAsleep, UsersType, Holding
<1>5. LockHeld'
  BY DEF LockHeld, StaysAsleep
<1>6. HardwareType'
  BY HardwareFrame DEF StaysAsleep
<1>7. ControlInOrder' /\ FollowUpComesFirst' /\ QuietStates'
  BY OrderFrame DEF StaysAsleep, machine, hardware
<1> QED
  BY <1>1, <1>2, <1>3, <1>4, <1>5, <1>6, <1>7

LEMMA BootAsksKeeps ==
  ASSUME IInv, BootAsks
  PROVE  IInv'
<1> USE DEF IInv, TypeOK
<1>1. MachineType'
  BY DEF BootAsks, Goes, Lock, WaitsAt, Issue, MachineType, States, Acts
<1>2. RequestType'
  BY RequestFrame DEF BootAsks, Goes, Lock, WaitsAt, Issue
<1>3. FlagsType'
  BY FlagsFrame DEF BootAsks, Goes, Lock, WaitsAt, Issue
<1>4. UsersType'
  BY UserFacts DEF BootAsks, Goes, Lock, WaitsAt, Issue, UsersType, Holding
<1>5. LockHeld'
  BY TakesLock, UserFacts DEF BootAsks, Goes, Lock, WaitsAt, Issue, Holding
<1>6. HardwareType'
  BY HardwareFrame DEF BootAsks, Goes, Lock, WaitsAt, Issue
<1>7. ControlInOrder' /\ FollowUpComesFirst' /\ QuietStates'
  BY OrderFrame DEF BootAsks, Goes, Lock, WaitsAt, Issue, machine, hardware
<1> QED
  BY <1>1, <1>2, <1>3, <1>4, <1>5, <1>6, <1>7

LEMMA BootEndsKeeps ==
  ASSUME IInv, BootEnds
  PROVE  IInv'
<1> USE DEF IInv, TypeOK
<1>1. MachineType'
  BY MachineFrame DEF BootEnds, Goes, Unlock, WaitOver
<1>2. RequestType'
  BY RequestFrame DEF BootEnds, Goes, Unlock, WaitOver
<1>3. FlagsType'
  BY FlagsFrame DEF BootEnds, Goes, Unlock, WaitOver
<1>4. UsersType'
  BY UserFacts DEF BootEnds, Goes, Unlock, WaitOver, UsersType, Holding
<1>5. LockHeld'
  BY GivesLock, UserFacts DEF BootEnds, Goes, Unlock, WaitOver, Holding
<1>6. HardwareType'
  BY HardwareFrame DEF BootEnds, Goes, Unlock, WaitOver
<1>7. ControlInOrder' /\ FollowUpComesFirst' /\ QuietStates'
  BY OrderFrame DEF BootEnds, Goes, Unlock, WaitOver, machine, hardware
<1> QED
  BY <1>1, <1>2, <1>3, <1>4, <1>5, <1>6, <1>7

LEMMA GivesUpKeeps ==
  ASSUME NEW u \in Users, NEW place, IInv, GivesUp(u, place)
  PROVE  IInv'
<1> USE DEF IInv, TypeOK
<1>1. MachineType' /\ RequestType' /\ FlagsType' /\ HardwareType'
  BY MachineFrame, RequestFrame, FlagsFrame, HardwareFrame DEF GivesUp
<1>2. UsersType'
  BY DEF GivesUp, WaitFailed, Unlock, Goes, UsersType
<1>3. LockHeld'
  BY GivesLock DEF GivesUp, WaitFailed, Unlock, Goes, Holding
<1>4. ControlInOrder' /\ FollowUpComesFirst' /\ QuietStates'
  BY OrderFrame DEF GivesUp, machine, hardware
<1> QED
  BY <1>1, <1>2, <1>3, <1>4

LEMMA StallCalledKeeps ==
  ASSUME IInv, StallCalled
  PROVE  IInv'
<1> USE DEF IInv, TypeOK
<1>1. MachineType'
  BY MachineFrame DEF StallCalled, Goes
<1>2. RequestType'
  BY RequestFrame DEF StallCalled, Goes
<1>3. FlagsType'
  BY FlagsFrame DEF StallCalled, Goes
<1>4. UsersType'
  BY UserFacts DEF StallCalled, Goes, UsersType, Holding
<1>5. LockHeld'
  BY KeepsLock, UserFacts DEF StallCalled, Goes, Holding
<1>6. HardwareType'
  BY HardwareFrame DEF StallCalled, Goes
<1>7. ControlInOrder' /\ FollowUpComesFirst' /\ QuietStates'
  BY OrderFrame DEF StallCalled, Goes, machine, hardware
<1> QED
  BY <1>1, <1>2, <1>3, <1>4, <1>5, <1>6, <1>7

LEMMA StallAsksKeeps ==
  ASSUME IInv, StallAsks
  PROVE  IInv'
<1> USE DEF IInv, TypeOK
<1>1. MachineType'
  BY DEF StallAsks, Goes, Lock, WaitsAt, Issue, Prepare, MachineType, States, Acts
<1>2. RequestType'
  BY
     DEF StallAsks, Goes, Lock, WaitsAt, Issue, Prepare, RequestType, Commands,
         Answers
<1>3. FlagsType'
  BY FlagsFrame DEF StallAsks, Goes, Lock, WaitsAt, Issue, Prepare
<1>4. UsersType'
  BY UserFacts
     DEF StallAsks, Goes, Lock, WaitsAt, Issue, Prepare, UsersType, Holding
<1>5. LockHeld'
  BY TakesLock, UserFacts
     DEF StallAsks, Goes, Lock, WaitsAt, Issue, Prepare, Holding
<1>6. HardwareType'
  BY HardwareFrame DEF StallAsks, Goes, Lock, WaitsAt, Issue, Prepare
<1>7. ControlInOrder' /\ FollowUpComesFirst' /\ QuietStates'
  BY OrderFrame
     DEF StallAsks, Goes, Lock, WaitsAt, Issue, Prepare, machine, hardware
<1> QED
  BY <1>1, <1>2, <1>3, <1>4, <1>5, <1>6, <1>7

LEMMA StallGrantedKeeps ==
  ASSUME IInv, StallGranted
  PROVE  IInv'
<1> USE DEF IInv, TypeOK
<1>1. MachineType'
  BY MachineFrame DEF StallGranted, Goes, WaitOver
<1>2. RequestType'
  BY RequestFrame DEF StallGranted, Goes, WaitOver
<1>3. FlagsType'
  BY FlagsFrame DEF StallGranted, Goes, WaitOver
<1>4. UsersType'
  BY UserFacts DEF StallGranted, Goes, WaitOver, UsersType, Holding
<1>5. LockHeld'
  BY KeepsLock, UserFacts DEF StallGranted, Goes, WaitOver, Holding
<1>6. HardwareType'
  BY HardwareFrame DEF StallGranted, Goes, WaitOver
<1>7. ControlInOrder' /\ FollowUpComesFirst' /\ QuietStates'
  BY OrderFrame DEF StallGranted, Goes, WaitOver, machine, hardware
<1> QED
  BY <1>1, <1>2, <1>3, <1>4, <1>5, <1>6, <1>7

LEMMA StallEndsKeeps ==
  ASSUME IInv, StallEnds
  PROVE  IInv'
<1> USE DEF IInv, TypeOK
<1>1. MachineType'
  BY DEF StallEnds, Goes, WaitsAt, Issue, Prepare, MachineType, States, Acts
<1>2. RequestType'
  BY DEF StallEnds, Goes, WaitsAt, Issue, Prepare, RequestType, Commands, Answers
<1>3. FlagsType'
  BY FlagsFrame DEF StallEnds, Goes, WaitsAt, Issue, Prepare
<1>4. UsersType'
  BY UserFacts DEF StallEnds, Goes, WaitsAt, Issue, Prepare, UsersType, Holding
<1>5. LockHeld'
  BY KeepsLock, UserFacts DEF StallEnds, Goes, WaitsAt, Issue, Prepare, Holding
<1>6. HardwareType'
  BY HardwareFrame DEF StallEnds, Goes, WaitsAt, Issue, Prepare
<1>7. ControlInOrder' /\ FollowUpComesFirst' /\ QuietStates'
  BY OrderFrame DEF StallEnds, Goes, WaitsAt, Issue, Prepare, machine, hardware
<1> QED
  BY <1>1, <1>2, <1>3, <1>4, <1>5, <1>6, <1>7

LEMMA StallServedKeeps ==
  ASSUME IInv, StallServed
  PROVE  IInv'
<1> USE DEF IInv, TypeOK
<1>1. MachineType'
  BY MachineFrame DEF StallServed, Goes, Unlock, WaitOver
<1>2. RequestType'
  BY RequestFrame DEF StallServed, Goes, Unlock, WaitOver
<1>3. FlagsType'
  BY FlagsFrame DEF StallServed, Goes, Unlock, WaitOver
<1>4. UsersType'
  BY UserFacts DEF StallServed, Goes, Unlock, WaitOver, UsersType, Holding
<1>5. LockHeld'
  BY GivesLock, UserFacts DEF StallServed, Goes, Unlock, WaitOver, Holding
<1>6. HardwareType'
  BY HardwareFrame DEF StallServed, Goes, Unlock, WaitOver
<1>7. ControlInOrder' /\ FollowUpComesFirst' /\ QuietStates'
  BY OrderFrame DEF StallServed, Goes, Unlock, WaitOver, machine, hardware
<1> QED
  BY <1>1, <1>2, <1>3, <1>4, <1>5, <1>6, <1>7

LEMMA ResetCalledKeeps ==
  ASSUME NEW kind \in {"FE_RESET", "WDT_TIMEOUT"}, NEW S \in SUBSET Cores,
         IInv, ResetCalled(kind, S)
  PROVE  IInv'
<1> USE DEF IInv, TypeOK
<1>1. MachineType'
  BY MachineFrame DEF ResetCalled, Goes
<1>2. RequestType'
  BY RequestFrame DEF ResetCalled, Goes
<1>3. FlagsType'
  BY FlagsFrame DEF ResetCalled, Goes
<1>4. UsersType'
  BY UserFacts DEF ResetCalled, Goes, UsersType, Holding
<1>5. LockHeld'
  BY KeepsLock, UserFacts DEF ResetCalled, Goes, Holding
<1>6. HardwareType'
  BY HardwareFrame DEF ResetCalled, Goes
<1>7. ControlInOrder' /\ FollowUpComesFirst' /\ QuietStates'
  BY OrderFrame DEF ResetCalled, Goes, machine, hardware
<1> QED
  BY <1>1, <1>2, <1>3, <1>4, <1>5, <1>6, <1>7

LEMMA ResetAsksKeeps ==
  ASSUME IInv, ResetAsks
  PROVE  IInv'
<1> USE DEF IInv, TypeOK
<1>1. MachineType'
  BY DEF ResetAsks, Goes, Lock, WaitsAt, Issue, Prepare, MachineType, States, Acts
<1>2. RequestType'
  BY
     DEF ResetAsks, Goes, Lock, WaitsAt, Issue, Prepare, RequestType, Commands,
         Answers
<1>3. FlagsType'
  BY DEF ResetAsks, Goes, Lock, WaitsAt, Issue, Prepare, FlagsType
<1>4. UsersType'
  BY UserFacts
     DEF ResetAsks, Goes, Lock, WaitsAt, Issue, Prepare, UsersType, Holding
<1>5. LockHeld'
  BY TakesLock, UserFacts
     DEF ResetAsks, Goes, Lock, WaitsAt, Issue, Prepare, Holding
<1>6. HardwareType'
  BY HardwareFrame DEF ResetAsks, Goes, Lock, WaitsAt, Issue, Prepare
<1>7. ControlInOrder' /\ FollowUpComesFirst' /\ QuietStates'
  BY OrderFrame
     DEF ResetAsks, Goes, Lock, WaitsAt, Issue, Prepare, machine, hardware
<1> QED
  BY <1>1, <1>2, <1>3, <1>4, <1>5, <1>6, <1>7

LEMMA ResetGrantedKeeps ==
  ASSUME IInv, ResetGranted
  PROVE  IInv'
<1> USE DEF IInv, TypeOK
<1>1. MachineType'
  BY MachineFrame DEF ResetGranted, Goes, WaitOver
<1>2. RequestType'
  BY RequestFrame DEF ResetGranted, Goes, WaitOver
<1>3. FlagsType'
  BY FlagsFrame DEF ResetGranted, Goes, WaitOver
<1>4. UsersType'
  BY UserFacts DEF ResetGranted, Goes, WaitOver, UsersType, Holding
<1>5. LockHeld'
  BY KeepsLock, UserFacts DEF ResetGranted, Goes, WaitOver, Holding
<1>6. HardwareType'
  BY HardwareFrame DEF ResetGranted, Goes, WaitOver
<1>7. ControlInOrder' /\ FollowUpComesFirst' /\ QuietStates'
  BY OrderFrame DEF ResetGranted, Goes, WaitOver, machine, hardware
<1> QED
  BY <1>1, <1>2, <1>3, <1>4, <1>5, <1>6, <1>7

LEMMA ResetRestartsKeeps ==
  ASSUME IInv, ResetRestarts
  PROVE  IInv'
<1> USE DEF IInv, TypeOK
<1>1. MachineType'
  BY DEF ResetRestarts, Goes, WaitsAt, Issue, MachineType, States, Acts
<1>2. RequestType'
  BY RequestFrame DEF ResetRestarts, Goes, WaitsAt, Issue
<1>3. FlagsType'
  BY FlagsFrame DEF ResetRestarts, Goes, WaitsAt, Issue
<1>4. UsersType'
  BY UserFacts DEF ResetRestarts, Goes, WaitsAt, Issue, UsersType, Holding
<1>5. LockHeld'
  BY KeepsLock, UserFacts DEF ResetRestarts, Goes, WaitsAt, Issue, Holding
<1>6. HardwareType'
  BY HardwareFrame DEF ResetRestarts, Goes, WaitsAt, Issue
<1>7. ControlInOrder' /\ FollowUpComesFirst' /\ QuietStates'
  BY OrderFrame DEF ResetRestarts, Goes, WaitsAt, Issue, machine, hardware
<1> QED
  BY <1>1, <1>2, <1>3, <1>4, <1>5, <1>6, <1>7

LEMMA ResetServedKeeps ==
  ASSUME IInv, ResetServed
  PROVE  IInv'
<1> USE DEF IInv, TypeOK
<1>1. MachineType'
  BY MachineFrame DEF ResetServed, Goes, Unlock, WaitOver
<1>2. RequestType'
  BY RequestFrame DEF ResetServed, Goes, Unlock, WaitOver
<1>3. FlagsType'
  BY FlagsFrame DEF ResetServed, Goes, Unlock, WaitOver
<1>4. UsersType'
  BY UserFacts DEF ResetServed, Goes, Unlock, WaitOver, UsersType, Holding
<1>5. LockHeld'
  BY GivesLock, UserFacts DEF ResetServed, Goes, Unlock, WaitOver, Holding
<1>6. HardwareType'
  BY HardwareFrame DEF ResetServed, Goes, Unlock, WaitOver
<1>7. ControlInOrder' /\ FollowUpComesFirst' /\ QuietStates'
  BY OrderFrame DEF ResetServed, Goes, Unlock, WaitOver, machine, hardware
<1> QED
  BY <1>1, <1>2, <1>3, <1>4, <1>5, <1>6, <1>7

LEMMA RecoverRunsKeeps ==
  ASSUME IInv, RecoverRuns
  PROVE  IInv'
<1> USE DEF IInv, TypeOK
<1>1. MachineType'
  BY MachineFrame DEF RecoverRuns, Goes
<1>2. RequestType'
  BY RequestFrame DEF RecoverRuns, Goes
<1>3. FlagsType'
  BY FlagsFrame DEF RecoverRuns, Goes
<1>4. UsersType'
  BY UserFacts DEF RecoverRuns, Goes, UsersType, Holding
<1>5. LockHeld'
  BY KeepsLock, UserFacts DEF RecoverRuns, Goes, Holding
<1>6. HardwareType'
  BY HardwareFrame DEF RecoverRuns, Goes
<1>7. ControlInOrder' /\ FollowUpComesFirst' /\ QuietStates'
  BY OrderFrame DEF RecoverRuns, Goes, machine, hardware
<1> QED
  BY <1>1, <1>2, <1>3, <1>4, <1>5, <1>6, <1>7

LEMMA RecoverAsksKeeps ==
  ASSUME IInv, RecoverAsks
  PROVE  IInv'
<1> USE DEF IInv, TypeOK
<1>1. MachineType'
  BY DEF RecoverAsks, Goes, Lock, MachineType, States, Acts
<1>2. RequestType'
  BY RequestFrame DEF RecoverAsks, Goes, Lock
<1>3. FlagsType'
  BY FlagsFrame DEF RecoverAsks, Goes, Lock
<1>4. UsersType'
  BY UserFacts DEF RecoverAsks, Goes, Lock, UsersType, Holding
<1>5. LockHeld'
  BY TakesLock, UserFacts DEF RecoverAsks, Goes, Lock, Holding
<1>6. HardwareType'
  BY HardwareFrame DEF RecoverAsks, Goes, Lock
<1>7. ControlInOrder' /\ FollowUpComesFirst' /\ QuietStates'
  BY OrderFrame DEF RecoverAsks, Goes, Lock, machine, hardware
<1> QED
  BY <1>1, <1>2, <1>3, <1>4, <1>5, <1>6, <1>7

LEMMA RecoverClearsKeeps ==
  ASSUME IInv, RecoverClears
  PROVE  IInv'
<1> USE DEF IInv, TypeOK
<1>1. MachineType'
  BY MachineFrame DEF RecoverClears, Goes, WaitsAt
<1>2. RequestType'
  BY RequestFrame DEF RecoverClears, Goes, WaitsAt
<1>3. FlagsType'
  BY DEF RecoverClears, Goes, WaitsAt, FlagsType
<1>4. UsersType'
  BY UserFacts DEF RecoverClears, Goes, WaitsAt, UsersType, Holding
<1>5. LockHeld'
  BY KeepsLock, UserFacts DEF RecoverClears, Goes, WaitsAt, Holding
<1>6. HardwareType'
  BY HardwareFrame DEF RecoverClears, Goes, WaitsAt
<1>7. ControlInOrder' /\ FollowUpComesFirst' /\ QuietStates'
  BY OrderFrame DEF RecoverClears, Goes, WaitsAt, machine, hardware
<1> QED
  BY <1>1, <1>2, <1>3, <1>4, <1>5, <1>6, <1>7

LEMMA RecoverEndsKeeps ==
  ASSUME IInv, RecoverEnds
  PROVE  IInv'
<1> USE DEF IInv, TypeOK
<1>1. MachineType'
  BY MachineFrame DEF RecoverEnds, Goes, Unlock, WaitOver
<1>2. RequestType'
  BY RequestFrame DEF RecoverEnds, Goes, Unlock, WaitOver
<1>3. FlagsType'
  BY FlagsFrame DEF RecoverEnds, Goes, Unlock, WaitOver
<1>4. UsersType'
  BY UserFacts DEF RecoverEnds, Goes, Unlock, WaitOver, UsersType, Holding
<1>5. LockHeld'
  BY GivesLock, UserFacts DEF RecoverEnds, Goes, Unlock, WaitOver, Holding
<1>6. HardwareType'
  BY HardwareFrame DEF RecoverEnds, Goes, Unlock, WaitOver
<1>7. ControlInOrder' /\ FollowUpComesFirst' /\ QuietStates'
  BY OrderFrame DEF RecoverEnds, Goes, Unlock, WaitOver, machine, hardware
<1> QED
  BY <1>1, <1>2, <1>3, <1>4, <1>5, <1>6, <1>7

LEMMA RecoverRetriesKeeps ==
  ASSUME IInv, RecoverRetries
  PROVE  IInv'
<1> USE DEF IInv, TypeOK
<1>1. MachineType'
  BY MachineFrame DEF RecoverRetries, WaitFailed, Unlock, Goes
<1>2. RequestType'
  BY RequestFrame DEF RecoverRetries, WaitFailed, Unlock, Goes
<1>3. FlagsType'
  BY DEF RecoverRetries, WaitFailed, Unlock, Goes, FlagsType
<1>4. UsersType'
  BY UserFacts DEF RecoverRetries, WaitFailed, Unlock, Goes, UsersType, Holding
<1>5. LockHeld'
  <2>1. CASE shuting
    BY <2>1, GivesLock, UserFacts DEF RecoverRetries, Unlock, Goes, Holding
  <2>2. CASE ~shuting
    BY <2>2, KeepsLock, UserFacts DEF RecoverRetries, WaitFailed, Goes, Holding
  <2> QED
    BY <2>1, <2>2
<1>6. HardwareType'
  BY HardwareFrame DEF RecoverRetries, WaitFailed, Unlock, Goes
<1>7. ControlInOrder' /\ FollowUpComesFirst' /\ QuietStates'
  BY OrderFrame DEF RecoverRetries, WaitFailed, Unlock, Goes, machine, hardware
<1> QED
  BY <1>1, <1>2, <1>3, <1>4, <1>5, <1>6, <1>7

LEMMA RecoverWakesKeeps ==
  ASSUME IInv, RecoverWakes
  PROVE  IInv'
<1> USE DEF IInv, TypeOK
<1>1. MachineType'
  BY DEF RecoverWakes, Goes, WaitsAt, Issue, MachineType, States, Acts
<1>2. RequestType'
  BY RequestFrame DEF RecoverWakes, Goes, WaitsAt, Issue
<1>3. FlagsType'
  BY FlagsFrame DEF RecoverWakes, Goes, WaitsAt, Issue
<1>4. UsersType'
  BY UserFacts DEF RecoverWakes, Goes, WaitsAt, Issue, UsersType, Holding
<1>5. LockHeld'
  BY KeepsLock, UserFacts DEF RecoverWakes, Goes, WaitsAt, Issue, Holding
<1>6. HardwareType'
  BY HardwareFrame DEF RecoverWakes, Goes, WaitsAt, Issue
<1>7. ControlInOrder' /\ FollowUpComesFirst' /\ QuietStates'
  BY OrderFrame DEF RecoverWakes, Goes, WaitsAt, Issue, machine, hardware
<1> QED
  BY <1>1, <1>2, <1>3, <1>4, <1>5, <1>6, <1>7

LEMMA RemoveCalledKeeps ==
  ASSUME IInv, RemoveCalled
  PROVE  IInv'
<1> USE DEF IInv, TypeOK
<1>1. MachineType'
  BY MachineFrame DEF RemoveCalled, Goes
<1>2. RequestType'
  BY RequestFrame DEF RemoveCalled, Goes
<1>3. FlagsType'
  BY DEF RemoveCalled, Goes, FlagsType
<1>4. UsersType'
  BY UserFacts DEF RemoveCalled, Goes, UsersType, Holding
<1>5. LockHeld'
  BY KeepsLock, UserFacts DEF RemoveCalled, Goes, Holding
<1>6. HardwareType'
  BY HardwareFrame DEF RemoveCalled, Goes
<1>7. ControlInOrder' /\ FollowUpComesFirst' /\ QuietStates'
  BY OrderFrame DEF RemoveCalled, Goes, machine, hardware
<1> QED
  BY <1>1, <1>2, <1>3, <1>4, <1>5, <1>6, <1>7

LEMMA RemoveAsksKeeps ==
  ASSUME IInv, RemoveAsks
  PROVE  IInv'
<1> USE DEF IInv, TypeOK
<1>1. MachineType'
  BY DEF RemoveAsks, Goes, Lock, WaitsAt, Issue, MachineType, States, Acts
<1>2. RequestType'
  BY RequestFrame DEF RemoveAsks, Goes, Lock, WaitsAt, Issue
<1>3. FlagsType'
  BY FlagsFrame DEF RemoveAsks, Goes, Lock, WaitsAt, Issue
<1>4. UsersType'
  BY UserFacts DEF RemoveAsks, Goes, Lock, WaitsAt, Issue, UsersType, Holding
<1>5. LockHeld'
  BY TakesLock, UserFacts DEF RemoveAsks, Goes, Lock, WaitsAt, Issue, Holding
<1>6. HardwareType'
  BY HardwareFrame DEF RemoveAsks, Goes, Lock, WaitsAt, Issue
<1>7. ControlInOrder' /\ FollowUpComesFirst' /\ QuietStates'
  BY OrderFrame DEF RemoveAsks, Goes, Lock, WaitsAt, Issue, machine, hardware
<1> QED
  BY <1>1, <1>2, <1>3, <1>4, <1>5, <1>6, <1>7

LEMMA RemoveEndsKeeps ==
  ASSUME IInv, RemoveEnds
  PROVE  IInv'
<1> USE DEF IInv, TypeOK
<1>1. MachineType'
  BY MachineFrame DEF RemoveEnds, Goes, Unlock
<1>2. RequestType'
  BY RequestFrame DEF RemoveEnds, Goes, Unlock
<1>3. FlagsType'
  BY FlagsFrame DEF RemoveEnds, Goes, Unlock
<1>4. UsersType'
  BY UserFacts DEF RemoveEnds, Goes, Unlock, UsersType, Holding
<1>5. LockHeld'
  BY GivesLock, UserFacts DEF RemoveEnds, Goes, Unlock, Holding
<1>6. HardwareType'
  BY HardwareFrame DEF RemoveEnds, Goes, Unlock
<1>7. ControlInOrder' /\ FollowUpComesFirst' /\ QuietStates'
  BY OrderFrame DEF RemoveEnds, Goes, Unlock, machine, hardware
<1> QED
  BY <1>1, <1>2, <1>3, <1>4, <1>5, <1>6, <1>7

LEMMA ThreadStopsKeeps ==
  ASSUME IInv, ThreadStops
  PROVE  IInv'
<1> USE DEF IInv, TypeOK
<1>1. MachineType'
  BY DEF ThreadStops, Goes, MachineType, States, Acts
<1>2. RequestType'
  BY RequestFrame DEF ThreadStops, Goes
<1>3. FlagsType'
  BY FlagsFrame DEF ThreadStops, Goes
<1>4. UsersType'
  BY UserFacts DEF ThreadStops, Goes, UsersType, Holding
<1>5. LockHeld'
  BY KeepsLock, UserFacts DEF ThreadStops, Goes, Holding
<1>6. HardwareType'
  BY HardwareFrame DEF ThreadStops, Goes
<1>7. ControlInOrder'
  BY DEF ControlInOrder, ThreadStops, Goes, hardware
<1>8. FollowUpComesFirst'
  BY DEF FollowUpComesFirst, ThreadStops, Goes, hardware
<1>9. QuietStates'
  BY DEF QuietStates, ThreadStops, Goes, hardware
<1> QED
  BY <1>1, <1>2, <1>3, <1>4, <1>5, <1>6, <1>7, <1>8, <1>9

LEMMA CallsKeep == IInv /\ Calls => IInv'
BY StallCalledKeeps, ResetCalledKeeps, RemoveCalledKeeps DEF Calls, Hung

LEMMA UserStepsKeep ==
  IInv /\ (BootStep \/ SyncStep \/ SerStep \/ RecoverStep \/ RemoveStep) => IInv'
<1>1. IInv /\ BootStep => IInv'
  BY BootAsksKeeps, BootEndsKeeps, GivesUpKeeps, UserFacts DEF BootStep, BootFails
<1>2. IInv /\ SyncStep => IInv'
  BY StallAsksKeeps, StallGrantedKeeps, StallEndsKeeps, StallServedKeeps,
     GivesUpKeeps,
     UserFacts DEF SyncStep, StallFails
<1>3. IInv /\ SerStep => IInv'
  BY ResetAsksKeeps, ResetGrantedKeeps, ResetRestartsKeeps, ResetServedKeeps,
     GivesUpKeeps, UserFacts DEF SerStep, ResetFails
<1>4. IInv /\ RecoverStep => IInv'
  BY RecoverRunsKeeps, RecoverAsksKeeps, RecoverClearsKeeps, RecoverEndsKeeps,
     RecoverRetriesKeeps, RecoverWakesKeeps DEF RecoverStep
<1>5. IInv /\ RemoveStep => IInv'
  BY RemoveAsksKeeps, RemoveEndsKeeps, ThreadStopsKeeps DEF RemoveStep
<1> QED
  BY <1>1, <1>2, <1>3, <1>4, <1>5

---------------------------------------------------------------------------------
(* The theorems                                                                 *)

LEMMA InitEstablishes == Init => IInv
<1> SUFFICES ASSUME Init PROVE IInv
  OBVIOUS
<1>1. MachineType /\ RequestType /\ FlagsType
  BY DEF Init, MachineType, RequestType, FlagsType, States
<1>2. UsersType /\ LockHeld
  BY UserFacts DEF Init, UsersType, LockHeld, NoReq, Holding
<1>3. HardwareType
  <2>1. faults \in 0 .. MaxFaults
    BY FaultsAssumption DEF Init
  <2> QED
    BY <2>1 DEF Init, HardwareType
<1>4. ControlInOrder /\ FollowUpComesFirst /\ QuietStates
  BY DEF Init, ControlInOrder, FollowUpComesFirst, QuietStates
<1> QED
  BY <1>1, <1>2, <1>3, <1>4 DEF IInv, TypeOK

LEMMA NextKeeps == IInv /\ [Next]_vars => IInv'
<1> SUFFICES ASSUME IInv, [Next]_vars PROVE IInv'
  OBVIOUS
<1>1. CASE Next
  BY <1>1, StaysAsleepKeeps, ControlKeeps, TimesOutKeeps, CoreStepKeeps, CallsKeep,
     UserStepsKeep DEF Next
<1>2. CASE UNCHANGED vars
  <2>1. UNCHANGED <<machine, request, flags, users, hardware>>
    BY <1>2 DEF vars
  <2>2. TypeOK' /\ LockHeld'
    BY <2>1, MachineFrame, RequestFrame, FlagsFrame, UsersFrame, HardwareFrame
       DEF IInv, TypeOK
  <2>3. ControlInOrder' /\ FollowUpComesFirst' /\ QuietStates'
    BY <2>1, OrderFrame DEF IInv, machine, hardware
  <2> QED
    BY <2>2, <2>3 DEF IInv
<1> QED
  BY <1>1, <1>2

(* The invariant of the MCU state machine of mcu.c: types, the lock, the order  *)
(* of its states and acts, and where it sends traffic.                          *)
THEOREM Invariance == Spec => []IInv
<1> QED
  BY InitEstablishes, NextKeeps, PTL DEF Spec

(* mcu_ctrl_lock is held by exactly the user that is between its mutex_lock and *)
(* its mutex_unlock: no error path forgets it.                                  *)
THEOREM LockIsHeld == Spec => []LockHeld
<1>1. IInv => LockHeld
  BY DEF IInv
<1> QED
  BY <1>1, Invariance, PTL

(* Where a step can cut a core off, or lead to RESET.                           *)
LEMMA QuietStep ==
  IInv /\ [Next]_vars =>
    /\ \A c \in Cores : core'[c] = "off" /\ core[c] # "off" => ~traffic
    /\ cur' = "RESET" /\ cur # "RESET" => cur = "NETSTOP" /\ ~traffic
<1> SUFFICES ASSUME IInv, [Next]_vars
             PROVE  /\ \A c \in Cores : core'[c] = "off" /\ core[c] # "off" => ~traffic
                    /\ cur' = "RESET" /\ cur # "RESET" => cur = "NETSTOP" /\ ~traffic
  OBVIOUS
<1> USE DEF IInv, TypeOK
<1>1. CASE Take
  <2>1. core' = core
    BY <1>1 DEF Take, hardware
  <2>2. cur' = "RESET" => cur = "RESET"
    <3>1. ASSUME NEW a \in pend, NEW s, <<cur, a, s>> \in Trans, a = "ABNORMAL"
          PROVE  s = "ABNORMAL"
      BY <3>1, TransFollowsTable DEF FollowUpComesFirst
    <3> QED
      BY <1>1, <3>1 DEF Take, Moves, Failed
  <2> QED
    BY <2>1, <2>2
<1>2. CASE Leave
  BY <1>2, LeavesForFacts
     DEF Leave, hardware, MachineType, ControlInOrder, QuietStates
<1>3. CASE LeaveInit
  BY <1>3, LeavesForFacts DEF LeaveInit, MachineType, ControlInOrder
<1>4. CASE EnterShutdown
  BY <1>4 DEF EnterShutdown, QuietStates
<1>5. CASE EnterInit
  BY <1>5 DEF EnterInit
<1>6. CASE TimerStops
  BY <1>6, LeavesForFacts DEF TimerStops, hardware, MachineType, ControlInOrder
<1>7. CASE Control /\ ~Take /\ ~Leave /\ ~LeaveInit /\ ~EnterShutdown /\ ~EnterInit
           /\ ~TimerStops
  <2>1. core' = core /\ cur' = cur
    BY <1>7
       DEF Control, LeaveWithCommand, EnterInitUnpowered, EnterFreerun, EnterStall,
       EnterNetstop, EnterReset, EnterResetSilently, EnterAbnormal, Completes, WaitFails,
       hardware
  <2> QED
    BY <2>1
<1>8. ASSUME NEW d \in Cores, CoreStep(d)
      PROVE  cur' = cur /\ \A c \in Cores : core'[c] = "off" => core[c] = "off"
  <2>1. cur' = cur
    BY <1>8
       DEF CoreStep, CoreBoots, CoreObeys, CoreRefuses, CoreHangs, MuteCoreTakes,
       Receive, machine
  <2>2. \A c \in Cores : core'[c] = "off" => core[c] = "off"
    <3>1. cmd[d] \in Commands => ModeAfter[cmd[d]] # "off"
      BY DEF Commands, ModeAfter
    <3> QED
      BY <1>8, <3>1 DEF CoreStep, CoreBoots, CoreObeys, CoreRefuses, CoreHangs,
         MuteCoreTakes, Receive, HardwareType
  <2> QED
    BY <2>1, <2>2
<1>9. CASE StaysAsleep \/ TimesOut \/ Calls \/ BootStep \/ SyncStep \/ SerStep
           \/ RecoverStep \/ RemoveStep
  <2>1. CASE StaysAsleep \/ TimesOut \/ Calls
    BY <2>1
       DEF StaysAsleep, TimesOut, Calls, StallCalled, ResetCalled, RemoveCalled,
       machine, hardware
  <2>2. CASE BootStep \/ RemoveStep
    BY <2>2
       DEF BootStep, BootAsks, BootEnds, BootFails, GivesUp, RemoveStep, RemoveAsks,
       RemoveEnds, ThreadStops, Issue, machine, hardware
  <2>3. CASE SyncStep
    BY <2>3
       DEF SyncStep, StallAsks, StallGranted, StallEnds, StallServed, StallFails,
       GivesUp, Issue, machine, hardware
  <2>4. CASE SerStep
    BY <2>4
       DEF SerStep, ResetAsks, ResetGranted, ResetRestarts, ResetServed, ResetFails,
       GivesUp, Issue, machine, hardware
  <2>5. CASE RecoverStep
    BY <2>5 DEF RecoverStep, RecoverRuns, RecoverAsks, RecoverClears, RecoverEnds,
       RecoverRetries, RecoverWakes, Issue, machine, hardware
  <2> QED
    BY <1>9, <2>1, <2>2, <2>3, <2>4, <2>5
<1>10. CASE UNCHANGED vars
  BY <1>10 DEF vars, machine, hardware
<1> QED
  BY <1>1, <1>2, <1>3, <1>4, <1>5, <1>6, <1>7, <1>8, <1>9, <1>10 DEF Next

(* Whatever is pending and whoever gave up: the cores lose power, and the       *)
(* machine enters RESET, only after netstop_enter has turned the traffic away.  *)
THEOREM PowerIsCutQuietly == Spec => PowerCutIsQuiet
<1> QED
  BY Invariance, QuietStep, PTL DEF Spec, PowerCutIsQuiet
=================================================================================
