---------------------------- MODULE TopsFreezeProofs ----------------------------
(* That TopsMcu implements TopsFreeze: the network neither stops nor starts     *)
(* while the thread that writes the tunnel table is let in - for any cores, any *)
(* faults and any timing, as long as the driver is not removed.                 *)
EXTENDS TopsMcuProofs, TopsStall

---------------------------------------------------------------------------------
(* What the parts share                                                         *)

(* What leads to and from the states of a stall or a reset.                     *)
LEMMA TransFacts ==
  ASSUME NEW s, NEW a, NEW t, <<s, a, t>> \in Trans
  PROVE  /\ t = "RESET" => a = "RESET"
         /\ t = "STALL" => a = "STALL" /\ s = "FREERUN"
         /\ t = "FREERUN" => a = "FREERUN"
         /\ a = "STALL" => t = "STALL"
         /\ a = "FREERUN" => t = "FREERUN"
         /\ a = "ABNORMAL" => t = "ABNORMAL"
BY DEF Trans

(* STALL and FREERUN are the acts with the highest numbers.                     *)
LEMMA BitFacts ==
  ASSUME NEW a \in Acts, NEW b \in Acts, Bit[a] <= Bit[b]
  PROVE  /\ a = "STALL" => b \in {"STALL", "FREERUN"}
         /\ a = "FREERUN" => b = "FREERUN"
BY DEF Acts, Bit

(* Steps that touch neither the machine nor the request nor the users: a fault  *)
(* may be noted.                                                                *)
LEMMA FreezeFrame ==
  ASSUME FreezeInv, fail => fail',
         UNCHANGED <<cur, next, ctrl, pend, msg1, doneCmd, inReset, owner, pc, traffic>>
  PROVE  FreezeInv'
<1> USE DEF FreezeInv
<1>1. AwaitsItsAnswer'
  BY DEF AwaitsItsAnswer
<1>2. ResetIsNoted'
  BY DEF ResetIsNoted
<1>3. NoStallLeftBehind'
  BY DEF NoStallLeftBehind, Stalling, Leaving
<1>4. StallIsAlone'
  BY DEF StallIsAlone, StaysInService, Stalling, Leaving
<1>5. FrozenInService'
  BY DEF FrozenInService, StaysInService, Leaving
<1> QED
  BY <1>1, <1>2, <1>3, <1>4, <1>5

---------------------------------------------------------------------------------
(* The control thread                                                           *)

LEMMA TakeFreezes ==
  ASSUME IInv, FreezeInv, Take
  PROVE  FreezeInv'
<1> USE DEF IInv, TypeOK, FreezeInv
<1>1. PICK a \in pend :
        /\ \A b \in pend : Bit[a] <= Bit[b]
        /\ pend' = pend \ {a}
        /\ \/ /\ \E s \in States :
                   /\ <<cur, a, s>> \in Trans
                   /\ next' = s
                   /\ \/ a # "ABNORMAL" /\ Moves("leave") /\ UNCHANGED cur
                      \/ a = "ABNORMAL" /\ Moves("enter") /\ cur' = s
              /\ UNCHANGED <<fail, woken>>
           \/ Failed /\ UNCHANGED <<cur, next>>
  BY DEF Take
<1>2. /\ ctrl = "idle" /\ fail \in BOOLEAN /\ pend \subseteq Acts
      /\ UNCHANGED <<msg1, doneCmd, inReset, owner, pc, traffic>>
  BY DEF Take, request, hardware, FlagsType, MachineType
<1>3. CASE Failed /\ UNCHANGED <<cur, next>>
  <2>1. AwaitsItsAnswer' /\ ResetIsNoted'
    BY <1>1, <1>2, <1>3 DEF AwaitsItsAnswer, ResetIsNoted, Failed, Moves
  <2>2. NoStallLeftBehind' /\ StallIsAlone'
    BY <1>1, <1>2, <1>3
       DEF NoStallLeftBehind, StallIsAlone, Stalling, Leaving, Failed, Moves
  <2>3. FrozenInService'
    BY <1>1, <1>2, <1>3 DEF FrozenInService, StaysInService, Leaving, Failed, Moves
  <2> QED
    BY <2>1, <2>2, <2>3
<1>4. ASSUME NEW s \in States, <<cur, a, s>> \in Trans, next' = s, UNCHANGED fail,
             \/ a # "ABNORMAL" /\ Moves("leave") /\ UNCHANGED cur
             \/ a = "ABNORMAL" /\ Moves("enter") /\ cur' = s
      PROVE  FreezeInv'
  <2>1. /\ s = "RESET" => a = "RESET"
        /\ s = "STALL" => a = "STALL" /\ cur = "FREERUN"
        /\ s = "FREERUN" => a = "FREERUN"
        /\ a = "STALL" => s = "STALL"
        /\ a = "FREERUN" => s = "FREERUN"
        /\ a = "ABNORMAL" => s = "ABNORMAL"
    BY <1>4, TransFacts
  <2>2. /\ a = "STALL" => pend \subseteq {"STALL", "FREERUN"}
        /\ a = "FREERUN" => pend \subseteq {"FREERUN"}
    BY <1>1, <1>2, BitFacts
  <2>3. /\ ctrl' \in {"leave", "enter"}
        /\ ctrl' = "leave" => cur' = cur
        /\ ctrl' = "enter" => cur' = "ABNORMAL" /\ a = "ABNORMAL"
    BY <1>4, <2>1 DEF Moves
  <2>4. AwaitsItsAnswer'
    BY <1>2, <2>3 DEF AwaitsItsAnswer
  <2>5. ResetIsNoted'
    BY <1>1, <1>2, <1>4, <2>1, <2>3 DEF ResetIsNoted
  <2>6. NoStallLeftBehind'
    BY <1>1, <1>2, <1>4, <2>1, <2>2, <2>3 DEF NoStallLeftBehind, Stalling, Leaving
  <2>7. StallIsAlone'
    BY <1>1, <1>2, <1>4, <2>1, <2>2, <2>3
       DEF StallIsAlone, StaysInService, Stalling, Leaving
  <2>8. FrozenInService'
    BY <1>1, <1>2, <1>4, <2>1, <2>2, <2>3
       DEF FrozenInService, StaysInService, Leaving
  <2> QED
    BY <2>4, <2>5, <2>6, <2>7, <2>8
<1> QED
  BY <1>1, <1>3, <1>4

LEMMA LeaveFreezes ==
  ASSUME IInv, FreezeInv, Leave
  PROVE  FreezeInv'
<1> USE DEF IInv, TypeOK, FreezeInv
<1>1. AwaitsItsAnswer'
  BY DEF AwaitsItsAnswer, Leave, LeavesQuietly, Moves, ControlInOrder,
       LeavesFor, MachineType, States, hardware, flags, users, request
<1>2. ResetIsNoted'
  BY DEF ResetIsNoted, Leave, LeavesQuietly, Moves, ControlInOrder, LeavesFor,
       MachineType, States, hardware, flags, users, request
<1>3. NoStallLeftBehind'
  BY DEF NoStallLeftBehind, Stalling, Leaving, Leave, LeavesQuietly, Moves,
       ControlInOrder, LeavesFor, MachineType, States, hardware, flags, users,
       request
<1>4. StallIsAlone'
  BY DEF StallIsAlone, StaysInService, Stalling, Leaving, Leave,
       LeavesQuietly, Moves, ControlInOrder, LeavesFor, MachineType, States,
       hardware, flags, users, request
<1>5. FrozenInService'
  BY DEF FrozenInService, StaysInService, Leaving, Leave, LeavesQuietly,
       Moves, ControlInOrder, LeavesFor, MachineType, States, hardware, flags,
       users, request
<1> QED
  BY <1>1, <1>2, <1>3, <1>4, <1>5

LEMMA LeaveInitFreezes ==
  ASSUME IInv, FreezeInv, LeaveInit
  PROVE  FreezeInv'
<1> USE DEF IInv, TypeOK, FreezeInv
<1>1. AwaitsItsAnswer'
  BY DEF AwaitsItsAnswer, LeaveInit, Moves, ControlInOrder, LeavesFor, flags,
       users, request
<1>2. ResetIsNoted'
  BY DEF ResetIsNoted, LeaveInit, Moves, ControlInOrder, LeavesFor, flags,
       users, request
<1>3. NoStallLeftBehind'
  BY DEF NoStallLeftBehind, Stalling, Leaving, LeaveInit, Moves,
       ControlInOrder, LeavesFor, flags, users, request
<1>4. StallIsAlone'
  BY DEF StallIsAlone, StaysInService, Stalling, Leaving, LeaveInit, Moves,
       ControlInOrder, LeavesFor, flags, users, request
<1>5. FrozenInService'
  BY DEF FrozenInService, StaysInService, Leaving, LeaveInit, Moves,
       ControlInOrder, LeavesFor, flags, users, request
<1> QED
  BY <1>1, <1>2, <1>3, <1>4, <1>5

LEMMA LeaveWithCommandFreezes ==
  ASSUME IInv, FreezeInv, LeaveWithCommand
  PROVE  FreezeInv'
<1> USE DEF IInv, TypeOK, FreezeInv
<1>1. AwaitsItsAnswer'
  BY DEF AwaitsItsAnswer, LeaveWithCommand, LeavesQuietly, PrepareAndSend,
       Moves, ControlInOrder, LeavesFor, flags, users
<1>2. ResetIsNoted'
  BY DEF ResetIsNoted, LeaveWithCommand, LeavesQuietly, PrepareAndSend, Moves,
       ControlInOrder, LeavesFor, flags, users
<1>3. NoStallLeftBehind'
  BY DEF NoStallLeftBehind, Stalling, Leaving, LeaveWithCommand,
       LeavesQuietly, PrepareAndSend, Moves, ControlInOrder, LeavesFor, flags,
       users
<1>4. StallIsAlone'
  BY DEF StallIsAlone, StaysInService, Stalling, Leaving, LeaveWithCommand,
       LeavesQuietly, PrepareAndSend, Moves, ControlInOrder, LeavesFor, flags,
       users
<1>5. FrozenInService'
  BY DEF FrozenInService, StaysInService, Leaving, LeaveWithCommand,
       LeavesQuietly, PrepareAndSend, Moves, ControlInOrder, LeavesFor, flags,
       users
<1> QED
  BY <1>1, <1>2, <1>3, <1>4, <1>5

LEMMA EnterShutdownFreezes ==
  ASSUME IInv, FreezeInv, EnterShutdown
  PROVE  FreezeInv'
<1> USE DEF IInv, TypeOK, FreezeInv
<1>1. AwaitsItsAnswer'
  BY DEF AwaitsItsAnswer, EnterShutdown, Moves, request
<1>2. ResetIsNoted'
  BY DEF ResetIsNoted, EnterShutdown, Moves, request
<1>3. NoStallLeftBehind'
  BY DEF NoStallLeftBehind, Stalling, Leaving, EnterShutdown, Moves, request
<1>4. StallIsAlone'
  BY DEF StallIsAlone, StaysInService, Stalling, Leaving, EnterShutdown,
       Moves, request
<1>5. FrozenInService'
  BY DEF FrozenInService, StaysInService, Leaving, EnterShutdown, Moves,
       request
<1> QED
  BY <1>1, <1>2, <1>3, <1>4, <1>5

LEMMA EnterInitFreezes ==
  ASSUME IInv, FreezeInv, EnterInit
  PROVE  FreezeInv'
<1> USE DEF IInv, TypeOK, FreezeInv
<1>1. AwaitsItsAnswer'
  BY DEF AwaitsItsAnswer, EnterInit, Moves, Failed, Fault, FlagsType
<1>2. ResetIsNoted'
  BY DEF ResetIsNoted, EnterInit, Moves, Failed, Fault, FlagsType
<1>3. NoStallLeftBehind'
  BY DEF NoStallLeftBehind, Stalling, Leaving, EnterInit, Moves, Failed,
       Fault, FlagsType
<1>4. StallIsAlone'
  BY DEF StallIsAlone, StaysInService, Stalling, Leaving, EnterInit, Moves,
       Failed, Fault, FlagsType
<1>5. FrozenInService'
  BY DEF FrozenInService, StaysInService, Leaving, EnterInit, Moves, Failed,
       Fault, FlagsType
<1> QED
  BY <1>1, <1>2, <1>3, <1>4, <1>5

LEMMA EnterInitUnpoweredFreezes ==
  ASSUME IInv, FreezeInv, EnterInitUnpowered
  PROVE  FreezeInv'
<1> USE DEF IInv, TypeOK, FreezeInv
<1>1. AwaitsItsAnswer'
  BY DEF AwaitsItsAnswer, EnterInitUnpowered, Moves, Failed, Fault, request
<1>2. ResetIsNoted'
  BY DEF ResetIsNoted, EnterInitUnpowered, Moves, Failed, Fault, request
<1>3. NoStallLeftBehind'
  BY DEF NoStallLeftBehind, Stalling, Leaving, EnterInitUnpowered, Moves,
       Failed, Fault, request
<1>4. StallIsAlone'
  BY DEF StallIsAlone, StaysInService, Stalling, Leaving, EnterInitUnpowered,
       Moves, Failed, Fault, request
<1>5. FrozenInService'
  BY DEF FrozenInService, StaysInService, Leaving, EnterInitUnpowered, Moves,
       Failed, Fault, request
<1> QED
  BY <1>1, <1>2, <1>3, <1>4, <1>5

LEMMA EnterFreerunFreezes ==
  ASSUME IInv, FreezeInv, EnterFreerun
  PROVE  FreezeInv'
<1> USE DEF IInv, TypeOK, FreezeInv
<1>1. AwaitsItsAnswer'
  BY DEF AwaitsItsAnswer, EnterFreerun, Moves, hardware, flags, users, request
<1>2. ResetIsNoted'
  BY DEF ResetIsNoted, EnterFreerun, Moves, hardware, flags, users, request
<1>3. NoStallLeftBehind'
  BY DEF NoStallLeftBehind, Stalling, Leaving, EnterFreerun, Moves, hardware,
       flags, users, request
<1>4. StallIsAlone'
  BY DEF StallIsAlone, StaysInService, Stalling, Leaving, EnterFreerun, Moves,
       hardware, flags, users, request
<1>5. FrozenInService'
  BY DEF FrozenInService, StaysInService, Leaving, EnterFreerun, Moves,
       hardware, flags, users, request
<1> QED
  BY <1>1, <1>2, <1>3, <1>4, <1>5

LEMMA EnterStallFreezes ==
  ASSUME IInv, FreezeInv, EnterStall
  PROVE  FreezeInv'
<1> USE DEF IInv, TypeOK, FreezeInv
<1>1. AwaitsItsAnswer'
  BY DEF AwaitsItsAnswer, EnterStall, Moves, PrepareAndSend, flags, users
<1>2. ResetIsNoted'
  BY DEF ResetIsNoted, EnterStall, Moves, PrepareAndSend, flags, users
<1>3. NoStallLeftBehind'
  BY DEF NoStallLeftBehind, Stalling, Leaving, EnterStall, Moves,
       PrepareAndSend, flags, users
<1>4. StallIsAlone'
  BY DEF StallIsAlone, StaysInService, Stalling, Leaving, EnterStall, Moves,
       PrepareAndSend, flags, users
<1>5. FrozenInService'
  BY DEF FrozenInService, StaysInService, Leaving, EnterStall, Moves,
       PrepareAndSend, flags, users
<1> QED
  BY <1>1, <1>2, <1>3, <1>4, <1>5

LEMMA EnterNetstopFreezes ==
  ASSUME IInv, FreezeInv, EnterNetstop
  PROVE  FreezeInv'
<1> USE DEF IInv, TypeOK, FreezeInv
<1>1. AwaitsItsAnswer'
  BY DEF AwaitsItsAnswer, EnterNetstop, Moves, flags, users, request
<1>2. ResetIsNoted'
  BY DEF ResetIsNoted, EnterNetstop, Moves, flags, users, request
<1>3. NoStallLeftBehind'
  BY DEF NoStallLeftBehind, Stalling, Leaving, EnterNetstop, Moves, flags,
       users, request
<1>4. StallIsAlone'
  BY DEF StallIsAlone, StaysInService, Stalling, Leaving, EnterNetstop, Moves,
       flags, users, request
<1>5. FrozenInService'
  BY DEF FrozenInService, StaysInService, Leaving, EnterNetstop, Moves, flags,
       users, request
<1> QED
  BY <1>1, <1>2, <1>3, <1>4, <1>5

LEMMA EnterResetFreezes ==
  ASSUME IInv, FreezeInv, EnterReset
  PROVE  FreezeInv'
<1> USE DEF IInv, TypeOK, FreezeInv
<1>1. AwaitsItsAnswer'
  BY DEF AwaitsItsAnswer, EnterReset, Moves, PrepareAndSend, flags, users
<1>2. ResetIsNoted'
  BY DEF ResetIsNoted, EnterReset, Moves, PrepareAndSend, flags, users
<1>3. NoStallLeftBehind'
  BY DEF NoStallLeftBehind, Stalling, Leaving, EnterReset, Moves,
       PrepareAndSend, flags, users
<1>4. StallIsAlone'
  BY DEF StallIsAlone, StaysInService, Stalling, Leaving, EnterReset, Moves,
       PrepareAndSend, flags, users
<1>5. FrozenInService'
  BY DEF FrozenInService, StaysInService, Leaving, EnterReset, Moves,
       PrepareAndSend, flags, users
<1> QED
  BY <1>1, <1>2, <1>3, <1>4, <1>5

LEMMA EnterResetSilentlyFreezes ==
  ASSUME IInv, FreezeInv, EnterResetSilently
  PROVE  FreezeInv'
<1> USE DEF IInv, TypeOK, FreezeInv
<1>1. AwaitsItsAnswer'
  BY DEF AwaitsItsAnswer, EnterResetSilently, Moves, hardware, flags, users
<1>2. ResetIsNoted'
  BY DEF ResetIsNoted, EnterResetSilently, Moves, hardware, flags, users
<1>3. NoStallLeftBehind'
  BY DEF NoStallLeftBehind, Stalling, Leaving, EnterResetSilently, Moves,
       hardware, flags, users
<1>4. StallIsAlone'
  BY DEF StallIsAlone, StaysInService, Stalling, Leaving, EnterResetSilently,
       Moves, hardware, flags, users
<1>5. FrozenInService'
  BY DEF FrozenInService, StaysInService, Leaving, EnterResetSilently, Moves,
       hardware, flags, users
<1> QED
  BY <1>1, <1>2, <1>3, <1>4, <1>5

LEMMA EnterAbnormalFreezes ==
  ASSUME IInv, FreezeInv, EnterAbnormal
  PROVE  FreezeInv'
<1> USE DEF IInv, TypeOK, FreezeInv
<1>1. AwaitsItsAnswer'
  BY DEF AwaitsItsAnswer, EnterAbnormal, Moves, hardware, flags, users,
       request
<1>2. ResetIsNoted'
  BY DEF ResetIsNoted, EnterAbnormal, Moves, hardware, flags, users, request
<1>3. NoStallLeftBehind'
  BY DEF NoStallLeftBehind, Stalling, Leaving, EnterAbnormal, Moves, hardware,
       flags, users, request
<1>4. StallIsAlone'
  BY DEF StallIsAlone, StaysInService, Stalling, Leaving, EnterAbnormal,
       Moves, hardware, flags, users, request
<1>5. FrozenInService'
  BY DEF FrozenInService, StaysInService, Leaving, EnterAbnormal, Moves,
       hardware, flags, users, request
<1> QED
  BY <1>1, <1>2, <1>3, <1>4, <1>5

LEMMA CompletesFreezes ==
  ASSUME IInv, FreezeInv, Completes
  PROVE  FreezeInv'
<1> USE DEF IInv, TypeOK, FreezeInv
<1>1. AwaitsItsAnswer'
  BY UserFacts DEF AwaitsItsAnswer, Completes, Waiting, Moves, ControlInOrder,
       FollowUpComesFirst, ResetIsNoted, LockHeld, Holding, UsersType,
       hardware
<1>2. ResetIsNoted'
  BY UserFacts DEF ResetIsNoted, Completes, Waiting, Moves, ControlInOrder,
       FollowUpComesFirst, AwaitsItsAnswer, LockHeld, Holding, UsersType,
       hardware
<1>3. NoStallLeftBehind'
  BY UserFacts DEF NoStallLeftBehind, Stalling, Leaving, Completes, Waiting,
       Moves, ControlInOrder, FollowUpComesFirst, AwaitsItsAnswer,
       ResetIsNoted, LockHeld, Holding, UsersType, hardware
<1>4. StallIsAlone'
  BY UserFacts DEF StallIsAlone, StaysInService, Stalling, Leaving, Completes,
       Waiting, Moves, ControlInOrder, FollowUpComesFirst, AwaitsItsAnswer,
       ResetIsNoted, LockHeld, Holding, UsersType, hardware
<1>5. FrozenInService'
  <2>1. CASE "sync" \in Clients /\ pc["sync"] = "callback"
    BY <2>1, UserFacts
       DEF FrozenInService, StaysInService, Leaving, Completes, Waiting, Moves,
           ControlInOrder, hardware
  <2>2. CASE "sync" \in Clients /\ pc["sync"] = "stall" /\ ~fail /\ doneCmd = "STALL_DONE"
    <3>1. ctrl = "enterWait" /\ cur = "STALL"
      BY <2>2 DEF Completes, Waiting, AwaitsItsAnswer, ControlInOrder
    <3>2. owner = "sync"
      BY <2>2, UserFacts DEF LockHeld, Holding
    <3>3. traffic /\ StaysInService
      BY <2>2, <3>1, <3>2 DEF ResetIsNoted, StallIsAlone, Stalling
    <3> QED
      BY <2>2, <3>1, <3>3
         DEF FrozenInService, StaysInService, Leaving, Completes, Moves, hardware
  <2> QED
    BY <2>1, <2>2 DEF FrozenInService, Completes
<1> QED
  BY <1>1, <1>2, <1>3, <1>4, <1>5

LEMMA WaitFailsFreezes ==
  ASSUME IInv, FreezeInv, WaitFails
  PROVE  FreezeInv'
<1> USE DEF IInv, TypeOK, FreezeInv
<1>1. AwaitsItsAnswer'
  BY DEF AwaitsItsAnswer, WaitFails, Waiting, Failed, Moves, hardware, request
<1>2. ResetIsNoted'
  BY DEF ResetIsNoted, WaitFails, Waiting, Failed, Moves, hardware, request
<1>3. NoStallLeftBehind'
  BY DEF NoStallLeftBehind, Stalling, Leaving, WaitFails, Waiting, Failed,
       Moves, hardware, request
<1>4. StallIsAlone'
  BY DEF StallIsAlone, StaysInService, Stalling, Leaving, WaitFails, Waiting,
       Failed, Moves, hardware, request
<1>5. FrozenInService'
  BY DEF FrozenInService, StaysInService, Leaving, WaitFails, Waiting, Failed,
       Moves, hardware, request
<1> QED
  BY <1>1, <1>2, <1>3, <1>4, <1>5

LEMMA TimerStopsFreezes ==
  ASSUME IInv, FreezeInv, TimerStops
  PROVE  FreezeInv'
<1> USE DEF IInv, TypeOK, FreezeInv
<1>1. AwaitsItsAnswer'
  BY DEF AwaitsItsAnswer, TimerStops, Moves, ControlInOrder, LeavesFor,
       ResetIsNoted, MachineType, States, hardware, flags, users, request
<1>2. ResetIsNoted'
  <2>1. CASE ctrl = "enterEnd"
    BY <2>1 DEF ResetIsNoted, TimerStops, Moves, hardware, flags, users, request
  <2>2. CASE ctrl = "leaveEnd"
    <3>1. cur' \notin {"RESET", "STALL"} /\ cur \in {"STALL", "RESET"}
      BY <2>2 DEF TimerStops, ControlInOrder, LeavesFor
    <3> QED
      BY <2>2, <3>1
         DEF ResetIsNoted, TimerStops, Moves, hardware, flags, users, request
  <2> QED
    BY <2>1, <2>2 DEF TimerStops
<1>3. NoStallLeftBehind'
  BY DEF NoStallLeftBehind, Stalling, Leaving, TimerStops, Moves,
       ControlInOrder, LeavesFor, AwaitsItsAnswer, ResetIsNoted, MachineType,
       States, hardware, flags, users, request
<1>4. StallIsAlone'
  BY DEF StallIsAlone, StaysInService, Stalling, Leaving, TimerStops, Moves,
       ControlInOrder, LeavesFor, AwaitsItsAnswer, ResetIsNoted, MachineType,
       States, hardware, flags, users, request
<1>5. FrozenInService'
  BY DEF FrozenInService, StaysInService, Leaving, TimerStops, Moves,
       ControlInOrder, LeavesFor, AwaitsItsAnswer, ResetIsNoted, MachineType,
       States, hardware, flags, users, request
<1> QED
  BY <1>1, <1>2, <1>3, <1>4, <1>5

---------------------------------------------------------------------------------
(* The users of the machine: a client is refused, served or gives up           *)

LEMMA StallCalledFreezes ==
  ASSUME IInv, FreezeInv, StallCalled
  PROVE  FreezeInv'
<1> USE DEF IInv, TypeOK, FreezeInv
<1>1. AwaitsItsAnswer'
  BY UserFacts DEF AwaitsItsAnswer, StallCalled, Goes, LockHeld, Holding,
       UsersType, machine, hardware, flags, request
<1>2. ResetIsNoted'
  BY UserFacts DEF ResetIsNoted, StallCalled, Goes, LockHeld, Holding,
       UsersType, machine, hardware, flags, request
<1>3. NoStallLeftBehind'
  BY UserFacts DEF NoStallLeftBehind, Stalling, Leaving, StallCalled, Goes,
       LockHeld, Holding, UsersType, machine, hardware, flags, request
<1>4. StallIsAlone'
  BY UserFacts DEF StallIsAlone, StaysInService, Stalling, Leaving,
       StallCalled, Goes, LockHeld, Holding, UsersType, machine, hardware,
       flags, request
<1>5. FrozenInService'
  BY UserFacts DEF FrozenInService, StaysInService, Leaving, StallCalled,
       Goes, LockHeld, Holding, UsersType, machine, hardware, flags, request
<1> QED
  BY <1>1, <1>2, <1>3, <1>4, <1>5

LEMMA BootAsksFreezes ==
  ASSUME IInv, FreezeInv, BootAsks
  PROVE  FreezeInv'
<1> USE DEF IInv, TypeOK, FreezeInv
<1>1. AwaitsItsAnswer'
  BY UserFacts DEF AwaitsItsAnswer, BootAsks, Issue, WaitsAt, Goes, Lock,
       LockHeld, Holding, UsersType, hardware, flags, request
<1>2. ResetIsNoted'
  BY UserFacts DEF ResetIsNoted, BootAsks, Issue, WaitsAt, Goes, Lock,
       LockHeld, Holding, UsersType, hardware, flags, request
<1>3. NoStallLeftBehind'
  BY UserFacts DEF NoStallLeftBehind, Stalling, Leaving, BootAsks, Issue,
       WaitsAt, Goes, Lock, LockHeld, Holding, UsersType, hardware, flags,
       request
<1>4. StallIsAlone'
  BY UserFacts DEF StallIsAlone, StaysInService, Stalling, Leaving, BootAsks,
       Issue, WaitsAt, Goes, Lock, LockHeld, Holding, UsersType, hardware,
       flags, request
<1>5. FrozenInService'
  BY UserFacts DEF FrozenInService, StaysInService, Leaving, BootAsks, Issue,
       WaitsAt, Goes, Lock, LockHeld, Holding, UsersType, hardware, flags,
       request
<1> QED
  BY <1>1, <1>2, <1>3, <1>4, <1>5

LEMMA BootEndsFreezes ==
  ASSUME IInv, FreezeInv, BootEnds
  PROVE  FreezeInv'
<1> USE DEF IInv, TypeOK, FreezeInv
<1>1. AwaitsItsAnswer'
  BY UserFacts DEF AwaitsItsAnswer, BootEnds, Goes, Unlock, WaitOver, Awaited,
       IsComplete, LockHeld, Holding, UsersType, machine, hardware, flags,
       request, NoStallLeftBehind
<1>2. ResetIsNoted'
  BY UserFacts DEF ResetIsNoted, BootEnds, Goes, Unlock, WaitOver, Awaited,
       IsComplete, LockHeld, Holding, UsersType, machine, hardware, flags,
       request, NoStallLeftBehind
<1>3. NoStallLeftBehind'
  BY UserFacts DEF NoStallLeftBehind, Stalling, Leaving, BootEnds, Goes,
       Unlock, WaitOver, Awaited, IsComplete, LockHeld, Holding, UsersType,
       machine, hardware, flags, request
<1>4. StallIsAlone'
  BY UserFacts DEF StallIsAlone, StaysInService, Stalling, Leaving, BootEnds,
       Goes, Unlock, WaitOver, Awaited, IsComplete, LockHeld, Holding,
       UsersType, machine, hardware, flags, request, NoStallLeftBehind
<1>5. FrozenInService'
  BY UserFacts DEF FrozenInService, StaysInService, Leaving, BootEnds, Goes,
       Unlock, WaitOver, Awaited, IsComplete, LockHeld, Holding, UsersType,
       machine, hardware, flags, request, NoStallLeftBehind
<1> QED
  BY <1>1, <1>2, <1>3, <1>4, <1>5

LEMMA BootFailsFreezes ==
  ASSUME IInv, FreezeInv, BootFails
  PROVE  FreezeInv'
<1> USE DEF IInv, TypeOK, FreezeInv
<1>1. AwaitsItsAnswer'
  BY UserFacts DEF AwaitsItsAnswer, BootFails, Goes, Unlock, WaitFailed,
       GivesUp, LockHeld, Holding, UsersType, machine, hardware, flags,
       request
<1>2. ResetIsNoted'
  BY UserFacts DEF ResetIsNoted, BootFails, Goes, Unlock, WaitFailed, GivesUp,
       LockHeld, Holding, UsersType, machine, hardware, flags, request
<1>3. NoStallLeftBehind'
  BY UserFacts DEF NoStallLeftBehind, Stalling, Leaving, BootFails, Goes,
       Unlock, WaitFailed, GivesUp, LockHeld, Holding, UsersType, machine,
       hardware, flags, request
<1>4. StallIsAlone'
  BY UserFacts DEF StallIsAlone, StaysInService, Stalling, Leaving, BootFails,
       Goes, Unlock, WaitFailed, GivesUp, LockHeld, Holding, UsersType,
       machine, hardware, flags, request
<1>5. FrozenInService'
  BY UserFacts DEF FrozenInService, StaysInService, Leaving, BootFails, Goes,
       Unlock, WaitFailed, GivesUp, LockHeld, Holding, UsersType, machine,
       hardware, flags, request
<1> QED
  BY <1>1, <1>2, <1>3, <1>4, <1>5

LEMMA StallAsksFreezes ==
  ASSUME IInv, FreezeInv, StallAsks
  PROVE  FreezeInv'
<1> USE DEF IInv, TypeOK, FreezeInv
<1>1. AwaitsItsAnswer'
  BY UserFacts DEF AwaitsItsAnswer, StallAsks, Issue, WaitsAt, Goes, Lock,
       Prepare, LockHeld, Holding, UsersType, hardware, flags
<1>2. ResetIsNoted'
  BY UserFacts DEF ResetIsNoted, StallAsks, Issue, WaitsAt, Goes, Lock,
       Prepare, LockHeld, Holding, UsersType, hardware, flags
<1>3. NoStallLeftBehind'
  BY UserFacts DEF NoStallLeftBehind, Stalling, Leaving, StallAsks, Issue,
       WaitsAt, Goes, Lock, Prepare, LockHeld, Holding, UsersType, hardware,
       flags
<1>4. StallIsAlone'
  BY UserFacts DEF StallIsAlone, StaysInService, Stalling, Leaving, StallAsks,
       Issue, WaitsAt, Goes, Lock, Prepare, LockHeld, Holding, UsersType,
       hardware, flags
<1>5. FrozenInService'
  BY UserFacts DEF FrozenInService, StaysInService, Leaving, StallAsks, Issue,
       WaitsAt, Goes, Lock, Prepare, LockHeld, Holding, UsersType, hardware,
       flags
<1> QED
  BY <1>1, <1>2, <1>3, <1>4, <1>5

LEMMA StallGrantedFreezes ==
  ASSUME IInv, FreezeInv, StallGranted
  PROVE  FreezeInv'
<1> USE DEF IInv, TypeOK, FreezeInv
<1>1. AwaitsItsAnswer'
  BY UserFacts DEF AwaitsItsAnswer, StallGranted, Goes, WaitOver, Awaited,
       IsComplete, LockHeld, Holding, UsersType, machine, hardware, flags,
       request
<1>2. ResetIsNoted'
  BY UserFacts DEF ResetIsNoted, StallGranted, Goes, WaitOver, Awaited,
       IsComplete, LockHeld, Holding, UsersType, machine, hardware, flags,
       request
<1>3. NoStallLeftBehind'
  BY UserFacts DEF NoStallLeftBehind, Stalling, Leaving, StallGranted, Goes,
       WaitOver, Awaited, IsComplete, LockHeld, Holding, UsersType, machine,
       hardware, flags, request
<1>4. StallIsAlone'
  BY UserFacts DEF StallIsAlone, StaysInService, Stalling, Leaving,
       StallGranted, Goes, WaitOver, Awaited, IsComplete, LockHeld, Holding,
       UsersType, machine, hardware, flags, request
<1>5. FrozenInService'
  BY UserFacts DEF FrozenInService, StaysInService, Leaving, StallGranted,
       Goes, WaitOver, Awaited, IsComplete, LockHeld, Holding, UsersType,
       machine, hardware, flags, request
<1> QED
  BY <1>1, <1>2, <1>3, <1>4, <1>5

LEMMA StallEndsFreezes ==
  ASSUME IInv, FreezeInv, StallEnds
  PROVE  FreezeInv'
<1> USE DEF IInv, TypeOK, FreezeInv
<1>1. AwaitsItsAnswer'
  BY UserFacts DEF AwaitsItsAnswer, StallEnds, Issue, WaitsAt, Goes, Prepare,
       LockHeld, Holding, UsersType, hardware, flags
<1>2. ResetIsNoted'
  BY UserFacts DEF ResetIsNoted, StallEnds, Issue, WaitsAt, Goes, Prepare,
       LockHeld, Holding, UsersType, hardware, flags
<1>3. NoStallLeftBehind'
  BY UserFacts DEF NoStallLeftBehind, Stalling, Leaving, StallEnds, Issue,
       WaitsAt, Goes, Prepare, LockHeld, Holding, UsersType, hardware, flags
<1>4. StallIsAlone'
  BY UserFacts DEF StallIsAlone, StaysInService, Stalling, Leaving, StallEnds,
       Issue, WaitsAt, Goes, Prepare, LockHeld, Holding, UsersType, hardware,
       flags
<1>5. FrozenInService'
  BY UserFacts DEF FrozenInService, StaysInService, Leaving, StallEnds, Issue,
       WaitsAt, Goes, Prepare, LockHeld, Holding, UsersType, hardware, flags
<1> QED
  BY <1>1, <1>2, <1>3, <1>4, <1>5

LEMMA StallServedFreezes ==
  ASSUME IInv, FreezeInv, StallServed
  PROVE  FreezeInv'
<1> USE DEF IInv, TypeOK, FreezeInv
<1>1. AwaitsItsAnswer'
  BY UserFacts DEF AwaitsItsAnswer, StallServed, Goes, Unlock, WaitOver,
       Awaited, IsComplete, LockHeld, Holding, UsersType, machine, hardware,
       flags, request
<1>2. ResetIsNoted'
  BY UserFacts DEF ResetIsNoted, StallServed, Goes, Unlock, WaitOver, Awaited,
       IsComplete, LockHeld, Holding, UsersType, machine, hardware, flags,
       request
<1>3. NoStallLeftBehind'
  BY UserFacts DEF NoStallLeftBehind, Stalling, Leaving, StallServed, Goes,
       Unlock, WaitOver, Awaited, IsComplete, LockHeld, Holding, UsersType,
       machine, hardware, flags, request
<1>4. StallIsAlone'
  BY UserFacts DEF StallIsAlone, StaysInService, Stalling, Leaving,
       StallServed, Goes, Unlock, WaitOver, Awaited, IsComplete, LockHeld,
       Holding, UsersType, machine, hardware, flags, request
<1>5. FrozenInService'
  BY UserFacts DEF FrozenInService, StaysInService, Leaving, StallServed,
       Goes, Unlock, WaitOver, Awaited, IsComplete, LockHeld, Holding,
       UsersType, machine, hardware, flags, request
<1> QED
  BY <1>1, <1>2, <1>3, <1>4, <1>5

LEMMA StallFailsFreezes ==
  ASSUME IInv, FreezeInv, StallFails
  PROVE  FreezeInv'
<1> USE DEF IInv, TypeOK, FreezeInv
<1>1. AwaitsItsAnswer'
  BY UserFacts DEF AwaitsItsAnswer, StallFails, Goes, Unlock, WaitFailed,
       GivesUp, LockHeld, Holding, UsersType, machine, hardware, flags,
       request
<1>2. ResetIsNoted'
  BY UserFacts DEF ResetIsNoted, StallFails, Goes, Unlock, WaitFailed,
       GivesUp, LockHeld, Holding, UsersType, machine, hardware, flags,
       request
<1>3. NoStallLeftBehind'
  BY UserFacts DEF NoStallLeftBehind, Stalling, Leaving, StallFails, Goes,
       Unlock, WaitFailed, GivesUp, LockHeld, Holding, UsersType, machine,
       hardware, flags, request
<1>4. StallIsAlone'
  BY UserFacts DEF StallIsAlone, StaysInService, Stalling, Leaving,
       StallFails, Goes, Unlock, WaitFailed, GivesUp, LockHeld, Holding,
       UsersType, machine, hardware, flags, request
<1>5. FrozenInService'
  BY UserFacts DEF FrozenInService, StaysInService, Leaving, StallFails, Goes,
       Unlock, WaitFailed, GivesUp, LockHeld, Holding, UsersType, machine,
       hardware, flags, request
<1> QED
  BY <1>1, <1>2, <1>3, <1>4, <1>5

LEMMA ResetAsksFreezes ==
  ASSUME IInv, FreezeInv, ResetAsks
  PROVE  FreezeInv'
<1> USE DEF IInv, TypeOK, FreezeInv
<1>1. AwaitsItsAnswer'
  BY UserFacts DEF AwaitsItsAnswer, ResetAsks, Issue, WaitsAt, Goes, Lock,
       Prepare, LockHeld, Holding, UsersType, hardware
<1>2. ResetIsNoted'
  BY UserFacts DEF ResetIsNoted, ResetAsks, Issue, WaitsAt, Goes, Lock,
       Prepare, LockHeld, Holding, UsersType, hardware
<1>3. NoStallLeftBehind'
  BY UserFacts DEF NoStallLeftBehind, Stalling, Leaving, ResetAsks, Issue,
       WaitsAt, Goes, Lock, Prepare, LockHeld, Holding, UsersType, hardware
<1>4. StallIsAlone'
  BY UserFacts DEF StallIsAlone, StaysInService, Stalling, Leaving, ResetAsks,
       Issue, WaitsAt, Goes, Lock, Prepare, LockHeld, Holding, UsersType,
       hardware
<1>5. FrozenInService'
  BY UserFacts DEF FrozenInService, StaysInService, Leaving, ResetAsks, Issue,
       WaitsAt, Goes, Lock, Prepare, LockHeld, Holding, UsersType, hardware
<1> QED
  BY <1>1, <1>2, <1>3, <1>4, <1>5

LEMMA ResetGrantedFreezes ==
  ASSUME IInv, FreezeInv, ResetGranted
  PROVE  FreezeInv'
<1> USE DEF IInv, TypeOK, FreezeInv
<1>1. AwaitsItsAnswer'
  BY UserFacts DEF AwaitsItsAnswer, ResetGranted, Goes, WaitOver, Awaited,
       IsComplete, LockHeld, Holding, UsersType, machine, hardware, flags,
       request
<1>2. ResetIsNoted'
  BY UserFacts DEF ResetIsNoted, ResetGranted, Goes, WaitOver, Awaited,
       IsComplete, LockHeld, Holding, UsersType, machine, hardware, flags,
       request
<1>3. NoStallLeftBehind'
  BY UserFacts DEF NoStallLeftBehind, Stalling, Leaving, ResetGranted, Goes,
       WaitOver, Awaited, IsComplete, LockHeld, Holding, UsersType, machine,
       hardware, flags, request
<1>4. StallIsAlone'
  BY UserFacts DEF StallIsAlone, StaysInService, Stalling, Leaving,
       ResetGranted, Goes, WaitOver, Awaited, IsComplete, LockHeld, Holding,
       UsersType, machine, hardware, flags, request
<1>5. FrozenInService'
  BY UserFacts DEF FrozenInService, StaysInService, Leaving, ResetGranted,
       Goes, WaitOver, Awaited, IsComplete, LockHeld, Holding, UsersType,
       machine, hardware, flags, request
<1> QED
  BY <1>1, <1>2, <1>3, <1>4, <1>5

LEMMA ResetRestartsFreezes ==
  ASSUME IInv, FreezeInv, ResetRestarts
  PROVE  FreezeInv'
<1> USE DEF IInv, TypeOK, FreezeInv
<1>1. AwaitsItsAnswer'
  BY UserFacts DEF AwaitsItsAnswer, ResetRestarts, Issue, WaitsAt, Goes,
       LockHeld, Holding, UsersType, hardware, flags, request
<1>2. ResetIsNoted'
  BY UserFacts DEF ResetIsNoted, ResetRestarts, Issue, WaitsAt, Goes,
       LockHeld, Holding, UsersType, hardware, flags, request
<1>3. NoStallLeftBehind'
  BY UserFacts DEF NoStallLeftBehind, Stalling, Leaving, ResetRestarts, Issue,
       WaitsAt, Goes, LockHeld, Holding, UsersType, hardware, flags, request
<1>4. StallIsAlone'
  BY UserFacts DEF StallIsAlone, StaysInService, Stalling, Leaving,
       ResetRestarts, Issue, WaitsAt, Goes, LockHeld, Holding, UsersType,
       hardware, flags, request
<1>5. FrozenInService'
  BY UserFacts DEF FrozenInService, StaysInService, Leaving, ResetRestarts,
       Issue, WaitsAt, Goes, LockHeld, Holding, UsersType, hardware, flags,
       request
<1> QED
  BY <1>1, <1>2, <1>3, <1>4, <1>5

LEMMA ResetServedFreezes ==
  ASSUME IInv, FreezeInv, ResetServed
  PROVE  FreezeInv'
<1> USE DEF IInv, TypeOK, FreezeInv
<1>1. AwaitsItsAnswer'
  BY UserFacts DEF AwaitsItsAnswer, ResetServed, Goes, Unlock, WaitOver,
       Awaited, IsComplete, LockHeld, Holding, UsersType, machine, hardware,
       flags, request, NoStallLeftBehind
<1>2. ResetIsNoted'
  BY UserFacts DEF ResetIsNoted, ResetServed, Goes, Unlock, WaitOver, Awaited,
       IsComplete, LockHeld, Holding, UsersType, machine, hardware, flags,
       request, NoStallLeftBehind
<1>3. NoStallLeftBehind'
  BY UserFacts DEF NoStallLeftBehind, Stalling, Leaving, ResetServed, Goes,
       Unlock, WaitOver, Awaited, IsComplete, LockHeld, Holding, UsersType,
       machine, hardware, flags, request
<1>4. StallIsAlone'
  BY UserFacts DEF StallIsAlone, StaysInService, Stalling, Leaving,
       ResetServed, Goes, Unlock, WaitOver, Awaited, IsComplete, LockHeld,
       Holding, UsersType, machine, hardware, flags, request,
       NoStallLeftBehind
<1>5. FrozenInService'
  BY UserFacts DEF FrozenInService, StaysInService, Leaving, ResetServed,
       Goes, Unlock, WaitOver, Awaited, IsComplete, LockHeld, Holding,
       UsersType, machine, hardware, flags, request, NoStallLeftBehind
<1> QED
  BY <1>1, <1>2, <1>3, <1>4, <1>5

LEMMA ResetFailsFreezes ==
  ASSUME IInv, FreezeInv, ResetFails
  PROVE  FreezeInv'
<1> USE DEF IInv, TypeOK, FreezeInv
<1>1. AwaitsItsAnswer'
  BY UserFacts DEF AwaitsItsAnswer, ResetFails, Goes, Unlock, WaitFailed,
       GivesUp, LockHeld, Holding, UsersType, machine, hardware, flags,
       request
<1>2. ResetIsNoted'
  BY UserFacts DEF ResetIsNoted, ResetFails, Goes, Unlock, WaitFailed,
       GivesUp, LockHeld, Holding, UsersType, machine, hardware, flags,
       request
<1>3. NoStallLeftBehind'
  BY UserFacts DEF NoStallLeftBehind, Stalling, Leaving, ResetFails, Goes,
       Unlock, WaitFailed, GivesUp, LockHeld, Holding, UsersType, machine,
       hardware, flags, request
<1>4. StallIsAlone'
  BY UserFacts DEF StallIsAlone, StaysInService, Stalling, Leaving,
       ResetFails, Goes, Unlock, WaitFailed, GivesUp, LockHeld, Holding,
       UsersType, machine, hardware, flags, request
<1>5. FrozenInService'
  BY UserFacts DEF FrozenInService, StaysInService, Leaving, ResetFails, Goes,
       Unlock, WaitFailed, GivesUp, LockHeld, Holding, UsersType, machine,
       hardware, flags, request
<1> QED
  BY <1>1, <1>2, <1>3, <1>4, <1>5

LEMMA RecoverRunsFreezes ==
  ASSUME IInv, FreezeInv, RecoverRuns
  PROVE  FreezeInv'
<1> USE DEF IInv, TypeOK, FreezeInv
<1>1. AwaitsItsAnswer'
  BY UserFacts DEF AwaitsItsAnswer, RecoverRuns, Goes, LockHeld, Holding,
       UsersType, machine, hardware, flags, request
<1>2. ResetIsNoted'
  BY UserFacts DEF ResetIsNoted, RecoverRuns, Goes, LockHeld, Holding,
       UsersType, machine, hardware, flags, request
<1>3. NoStallLeftBehind'
  BY UserFacts DEF NoStallLeftBehind, Stalling, Leaving, RecoverRuns, Goes,
       LockHeld, Holding, UsersType, machine, hardware, flags, request
<1>4. StallIsAlone'
  BY UserFacts DEF StallIsAlone, StaysInService, Stalling, Leaving,
       RecoverRuns, Goes, LockHeld, Holding, UsersType, machine, hardware,
       flags, request
<1>5. FrozenInService'
  BY UserFacts DEF FrozenInService, StaysInService, Leaving, RecoverRuns,
       Goes, LockHeld, Holding, UsersType, machine, hardware, flags, request
<1> QED
  BY <1>1, <1>2, <1>3, <1>4, <1>5

LEMMA RecoverAsksFreezes ==
  ASSUME IInv, FreezeInv, RecoverAsks
  PROVE  FreezeInv'
<1> USE DEF IInv, TypeOK, FreezeInv
<1>1. AwaitsItsAnswer'
  BY UserFacts DEF AwaitsItsAnswer, RecoverAsks, Goes, Lock, LockHeld,
       Holding, UsersType, hardware, flags, request
<1>2. ResetIsNoted'
  BY UserFacts DEF ResetIsNoted, RecoverAsks, Goes, Lock, LockHeld, Holding,
       UsersType, hardware, flags, request
<1>3. NoStallLeftBehind'
  BY UserFacts DEF NoStallLeftBehind, Stalling, Leaving, RecoverAsks, Goes,
       Lock, LockHeld, Holding, UsersType, hardware, flags, request
<1>4. StallIsAlone'
  BY UserFacts DEF StallIsAlone, StaysInService, Stalling, Leaving,
       RecoverAsks, Goes, Lock, LockHeld, Holding, UsersType, hardware, flags,
       request
<1>5. FrozenInService'
  BY UserFacts DEF FrozenInService, StaysInService, Leaving, RecoverAsks,
       Goes, Lock, LockHeld, Holding, UsersType, hardware, flags, request
<1> QED
  BY <1>1, <1>2, <1>3, <1>4, <1>5

LEMMA RecoverClearsFreezes ==
  ASSUME IInv, FreezeInv, RecoverClears
  PROVE  FreezeInv'
<1> USE DEF IInv, TypeOK, FreezeInv
<1>1. AwaitsItsAnswer'
  BY UserFacts DEF AwaitsItsAnswer, RecoverClears, WaitsAt, Goes, LockHeld,
       Holding, UsersType, machine, hardware, request
<1>2. ResetIsNoted'
  BY UserFacts DEF ResetIsNoted, RecoverClears, WaitsAt, Goes, LockHeld,
       Holding, UsersType, machine, hardware, request
<1>3. NoStallLeftBehind'
  BY UserFacts DEF NoStallLeftBehind, Stalling, Leaving, RecoverClears,
       WaitsAt, Goes, LockHeld, Holding, UsersType, machine, hardware, request
<1>4. StallIsAlone'
  BY UserFacts DEF StallIsAlone, StaysInService, Stalling, Leaving,
       RecoverClears, WaitsAt, Goes, LockHeld, Holding, UsersType, machine,
       hardware, request
<1>5. FrozenInService'
  BY UserFacts DEF FrozenInService, StaysInService, Leaving, RecoverClears,
       WaitsAt, Goes, LockHeld, Holding, UsersType, machine, hardware, request
<1> QED
  BY <1>1, <1>2, <1>3, <1>4, <1>5

LEMMA RecoverEndsFreezes ==
  ASSUME IInv, FreezeInv, RecoverEnds
  PROVE  FreezeInv'
<1> USE DEF IInv, TypeOK, FreezeInv
<1>1. AwaitsItsAnswer'
  BY UserFacts DEF AwaitsItsAnswer, RecoverEnds, Goes, Unlock, WaitOver,
       Awaited, IsComplete, LockHeld, Holding, UsersType, machine, hardware,
       flags, request, NoStallLeftBehind
<1>2. ResetIsNoted'
  BY UserFacts DEF ResetIsNoted, RecoverEnds, Goes, Unlock, WaitOver, Awaited,
       IsComplete, LockHeld, Holding, UsersType, machine, hardware, flags,
       request, NoStallLeftBehind
<1>3. NoStallLeftBehind'
  BY UserFacts DEF NoStallLeftBehind, Stalling, Leaving, RecoverEnds, Goes,
       Unlock, WaitOver, Awaited, IsComplete, LockHeld, Holding, UsersType,
       machine, hardware, flags, request
<1>4. StallIsAlone'
  BY UserFacts DEF StallIsAlone, StaysInService, Stalling, Leaving,
       RecoverEnds, Goes, Unlock, WaitOver, Awaited, IsComplete, LockHeld,
       Holding, UsersType, machine, hardware, flags, request,
       NoStallLeftBehind
<1>5. FrozenInService'
  BY UserFacts DEF FrozenInService, StaysInService, Leaving, RecoverEnds,
       Goes, Unlock, WaitOver, Awaited, IsComplete, LockHeld, Holding,
       UsersType, machine, hardware, flags, request, NoStallLeftBehind
<1> QED
  BY <1>1, <1>2, <1>3, <1>4, <1>5

LEMMA RecoverRetriesFreezes ==
  ASSUME IInv, FreezeInv, RecoverRetries
  PROVE  FreezeInv'
<1> USE DEF IInv, TypeOK, FreezeInv
<1>1. AwaitsItsAnswer'
  BY UserFacts DEF AwaitsItsAnswer, RecoverRetries, Goes, Unlock, WaitFailed,
       LockHeld, Holding, UsersType, machine, hardware, request
<1>2. ResetIsNoted'
  BY UserFacts DEF ResetIsNoted, RecoverRetries, Goes, Unlock, WaitFailed,
       LockHeld, Holding, UsersType, machine, hardware, request
<1>3. NoStallLeftBehind'
  BY UserFacts DEF NoStallLeftBehind, Stalling, Leaving, RecoverRetries, Goes,
       Unlock, WaitFailed, LockHeld, Holding, UsersType, machine, hardware,
       request
<1>4. StallIsAlone'
  BY UserFacts DEF StallIsAlone, StaysInService, Stalling, Leaving,
       RecoverRetries, Goes, Unlock, WaitFailed, LockHeld, Holding, UsersType,
       machine, hardware, request
<1>5. FrozenInService'
  BY UserFacts DEF FrozenInService, StaysInService, Leaving, RecoverRetries,
       Goes, Unlock, WaitFailed, LockHeld, Holding, UsersType, machine,
       hardware, request
<1> QED
  BY <1>1, <1>2, <1>3, <1>4, <1>5

LEMMA RecoverWakesFreezes ==
  ASSUME IInv, FreezeInv, RecoverWakes
  PROVE  FreezeInv'
<1> USE DEF IInv, TypeOK, FreezeInv
<1>1. AwaitsItsAnswer'
  BY UserFacts DEF AwaitsItsAnswer, RecoverWakes, Issue, WaitsAt, Goes,
       LockHeld, Holding, UsersType, hardware, flags, request
<1>2. ResetIsNoted'
  BY UserFacts DEF ResetIsNoted, RecoverWakes, Issue, WaitsAt, Goes, LockHeld,
       Holding, UsersType, hardware, flags, request
<1>3. NoStallLeftBehind'
  BY UserFacts DEF NoStallLeftBehind, Stalling, Leaving, RecoverWakes, Issue,
       WaitsAt, Goes, LockHeld, Holding, UsersType, hardware, flags, request
<1>4. StallIsAlone'
  BY UserFacts DEF StallIsAlone, StaysInService, Stalling, Leaving,
       RecoverWakes, Issue, WaitsAt, Goes, LockHeld, Holding, UsersType,
       hardware, flags, request
<1>5. FrozenInService'
  BY UserFacts DEF FrozenInService, StaysInService, Leaving, RecoverWakes,
       Issue, WaitsAt, Goes, LockHeld, Holding, UsersType, hardware, flags,
       request
<1> QED
  BY <1>1, <1>2, <1>3, <1>4, <1>5

LEMMA ResetCalledFreezes ==
  ASSUME IInv, FreezeInv, NEW kind, NEW S, ResetCalled(kind, S)
  PROVE  FreezeInv'
<1> USE DEF IInv, TypeOK, FreezeInv
<1>1. AwaitsItsAnswer'
  BY UserFacts DEF AwaitsItsAnswer, ResetCalled, Goes, LockHeld, Holding,
       UsersType, machine, hardware, flags, request
<1>2. ResetIsNoted'
  BY UserFacts DEF ResetIsNoted, ResetCalled, Goes, LockHeld, Holding,
       UsersType, machine, hardware, flags, request
<1>3. NoStallLeftBehind'
  BY UserFacts DEF NoStallLeftBehind, Stalling, Leaving, ResetCalled, Goes,
       LockHeld, Holding, UsersType, machine, hardware, flags, request
<1>4. StallIsAlone'
  BY UserFacts DEF StallIsAlone, StaysInService, Stalling, Leaving,
       ResetCalled, Goes, LockHeld, Holding, UsersType, machine, hardware,
       flags, request
<1>5. FrozenInService'
  BY UserFacts DEF FrozenInService, StaysInService, Leaving, ResetCalled,
       Goes, LockHeld, Holding, UsersType, machine, hardware, flags, request
<1> QED
  BY <1>1, <1>2, <1>3, <1>4, <1>5

---------------------------------------------------------------------------------
(* Every step                                                                   *)

LEMMA ControlFreezes == IInv /\ FreezeInv /\ Control => FreezeInv'
BY TakeFreezes, LeaveFreezes, LeaveInitFreezes, LeaveWithCommandFreezes,
   EnterShutdownFreezes, EnterInitFreezes, EnterInitUnpoweredFreezes,
   EnterFreerunFreezes, EnterStallFreezes, EnterNetstopFreezes, EnterResetFreezes,
   EnterResetSilentlyFreezes, EnterAbnormalFreezes, CompletesFreezes, WaitFailsFreezes,
   TimerStopsFreezes DEF Control

LEMMA UserStepsFreeze ==
  IInv /\ FreezeInv /\ (BootStep \/ SyncStep \/ SerStep \/ RecoverStep) => FreezeInv'
BY BootAsksFreezes, BootEndsFreezes, BootFailsFreezes, StallAsksFreezes,
   StallGrantedFreezes, StallEndsFreezes, StallServedFreezes, StallFailsFreezes,
   ResetAsksFreezes, ResetGrantedFreezes, ResetRestartsFreezes, ResetServedFreezes,
   ResetFailsFreezes, RecoverRunsFreezes, RecoverAsksFreezes, RecoverClearsFreezes,
   RecoverEndsFreezes, RecoverRetriesFreezes, RecoverWakesFreezes
   DEF BootStep, SyncStep, SerStep, RecoverStep

(* The cores, the timer and a waiter that sleeps on.                            *)
LEMMA OtherStepsFreeze ==
  ASSUME FreezeInv, StaysAsleep \/ TimesOut \/ (\E c \in Cores : CoreStep(c))
  PROVE  FreezeInv'
<1>1. UNCHANGED <<cur, next, ctrl, pend, msg1, doneCmd, inReset, owner, pc, traffic>>
  <2>1. CASE StaysAsleep \/ TimesOut
    BY <2>1 DEF StaysAsleep, TimesOut, machine, request, flags, users, hardware
  <2>2. ASSUME NEW c \in Cores, CoreStep(c)
        PROVE  UNCHANGED <<cur, next, ctrl, pend, msg1, doneCmd, inReset, owner, pc,
                           traffic>>
    BY <2>2
       DEF CoreStep, CoreBoots, CoreObeys, CoreRefuses, CoreHangs, MuteCoreTakes,
       Receive, machine, request, flags, users
  <2> QED
    BY <2>1, <2>2
<1>2. fail => fail'
  BY
     DEF StaysAsleep, TimesOut, CoreStep, CoreBoots, CoreObeys, CoreRefuses,
         CoreHangs,
     MuteCoreTakes, Receive, flags
<1> QED
  BY <1>1, <1>2, FreezeFrame

(* Nobody but RemoveCalled starts a removal.                                    *)
NotRemoved == pc["remove"] = "idle"

LEMMA StaysUnremoved ==
  ASSUME ~MayRemove, IInv, NotRemoved, [Next]_vars
  PROVE  NotRemoved' /\ ~RemoveCalled /\ ~RemoveStep
<1> USE DEF NotRemoved
<1>1. ~RemoveCalled /\ ~RemoveStep
  BY DEF RemoveCalled, RemoveStep, RemoveAsks, RemoveEnds, ThreadStops
<1> SUFFICES pc'["remove"] = pc["remove"]
  BY <1>1
<1>2. "remove" \in Users /\ pc \in [Users -> Holding \cup {"start", "idle", "lock",
                                                          "stop", "gone"}]
  BY UserFacts DEF IInv, TypeOK, UsersType
<1>3. CASE StaysAsleep \/ Control \/ TimesOut \/ UNCHANGED vars
  BY <1>3
     DEF StaysAsleep, TimesOut, Control, Take, Leave, LeaveInit, LeaveWithCommand,
     EnterShutdown, EnterInit, EnterInitUnpowered, EnterFreerun, EnterStall,
     EnterNetstop, EnterReset, EnterResetSilently, EnterAbnormal, Completes, WaitFails,
     TimerStops, users, vars
<1>4. CASE \E c \in Cores : CoreStep(c)
  BY <1>4 DEF CoreStep, CoreBoots, CoreObeys, CoreRefuses, CoreHangs, MuteCoreTakes,
     Receive, users
<1>5. CASE Calls
  BY <1>1, <1>2, <1>5, ClientsAssumption DEF Calls, StallCalled, ResetCalled, Goes
<1>6. CASE BootStep \/ RecoverStep
  BY <1>2, <1>6 DEF BootStep, BootAsks, BootEnds, BootFails, GivesUp, RecoverStep,
     RecoverRuns, RecoverAsks, RecoverClears, RecoverEnds, RecoverRetries, RecoverWakes,
     WaitsAt, Goes
<1>7. CASE SyncStep \/ SerStep
  BY <1>2, <1>7 DEF SyncStep, StallAsks, StallGranted, StallEnds, StallServed,
     StallFails, GivesUp, SerStep, ResetAsks, ResetGranted, ResetRestarts, ResetServed,
     ResetFails, WaitsAt, Goes
<1> QED
  BY <1>1, <1>3, <1>4, <1>5, <1>6, <1>7 DEF Next

LEMMA NextFreezes ==
  ASSUME ~MayRemove, IInv, FreezeInv, NotRemoved, [Next]_vars
  PROVE  FreezeInv'
<1>1. CASE Calls
  BY <1>1, StallCalledFreezes, ResetCalledFreezes, StaysUnremoved DEF Calls
<1>2. CASE UNCHANGED vars
  BY <1>2, FreezeFrame DEF vars, machine, request, flags, users, hardware
<1> QED
  BY <1>1, <1>2, ControlFreezes, UserStepsFreeze, OtherStepsFreeze, StaysUnremoved
     DEF Next

LEMMA InitFreezes == Init => FreezeInv /\ NotRemoved
<1> SUFFICES ASSUME Init PROVE FreezeInv /\ NotRemoved
  OBVIOUS
<1>1. AwaitsItsAnswer /\ ResetIsNoted
  BY DEF Init, AwaitsItsAnswer, ResetIsNoted
<1>2. NoStallLeftBehind /\ StallIsAlone
  BY DEF Init, NoStallLeftBehind, StallIsAlone, Stalling
<1>3. FrozenInService
  BY UserFacts DEF Init, FrozenInService
<1>4. NotRemoved
  BY UserFacts DEF Init, NotRemoved
<1> QED
  BY <1>1, <1>2, <1>3, <1>4 DEF FreezeInv

---------------------------------------------------------------------------------
(* The refinement                                                               *)

(* Only init_leave and netstop_enter turn TDMA on and off, and they are steps   *)
(* of the control thread.                                                       *)
LEMMA TrafficOrUsers ==
  ASSUME [Next]_vars
  PROVE  traffic' = traffic \/ pc' = pc
<1>1. CASE StaysAsleep \/ Control \/ TimesOut \/ UNCHANGED vars
  BY <1>1
     DEF StaysAsleep, TimesOut, Control, Take, Leave, LeaveInit, LeaveWithCommand,
     EnterShutdown, EnterInit, EnterInitUnpowered, EnterFreerun, EnterStall,
     EnterNetstop, EnterReset, EnterResetSilently, EnterAbnormal, Completes, WaitFails,
     TimerStops, users, vars
<1>2. CASE \E c \in Cores : CoreStep(c)
  BY <1>2 DEF CoreStep, CoreBoots, CoreObeys, CoreRefuses, CoreHangs, MuteCoreTakes,
     Receive, users
<1>3. CASE Calls \/ RemoveStep
  BY <1>3 DEF Calls, StallCalled, ResetCalled, RemoveCalled, RemoveStep, RemoveAsks,
     RemoveEnds, ThreadStops, hardware
<1>4. CASE BootStep \/ RecoverStep
  BY <1>4 DEF BootStep, BootAsks, BootEnds, BootFails, GivesUp, RecoverStep,
     RecoverRuns, RecoverAsks, RecoverClears, RecoverEnds, RecoverRetries, RecoverWakes,
     hardware
<1>5. CASE SyncStep \/ SerStep
  BY <1>5 DEF SyncStep, StallAsks, StallGranted, StallEnds, StallServed,
     StallFails, GivesUp, SerStep, ResetAsks, ResetGranted, ResetRestarts, ResetServed,
     ResetFails, hardware
<1> QED
  BY <1>1, <1>2, <1>3, <1>4, <1>5 DEF Next

LEMMA StepRefines ==
  ASSUME IInv, IInv', FreezeInv, FreezeInv', [Next]_vars
  PROVE  [Freeze!Next]_Phase
<1>1. (InCallback => traffic) /\ (InCallback' => traffic')
  BY DEF FreezeInv, FrozenInService, InCallback
<1>2. traffic \in BOOLEAN /\ traffic' \in BOOLEAN
  BY DEF IInv, TypeOK, HardwareType
<1>3. (InCallback' <=> InCallback) \/ traffic' = traffic
  BY TrafficOrUsers DEF InCallback
<1>4. InCallback \in BOOLEAN /\ InCallback' \in BOOLEAN
  BY DEF InCallback
<1> QED
  BY <1>1, <1>2, <1>3, <1>4
     DEF Phase, Freeze!Next, Freeze!ComeUp, Freeze!GoDown, Freeze!Freeze, Freeze!Thaw,
         Freeze!From

LEMMA InitRefines == Init => Freeze!Init
BY UserFacts DEF Init, Freeze!Init, Phase, InCallback

(* The argument behind mtk_tops_mcu_stall, as an invariant: in_reset, the       *)
(* pending acts and the answer that is awaited agree with the state.            *)
THEOREM StallInvariance == ~MayRemove => (Spec => []FreezeInv)
<1> SUFFICES ASSUME ~MayRemove PROVE Spec => []FreezeInv
  OBVIOUS
<1>1. Init => IInv /\ FreezeInv /\ NotRemoved
  BY InitEstablishes, InitFreezes
<1>2. IInv /\ FreezeInv /\ NotRemoved /\ [Next]_vars
        => (IInv /\ FreezeInv /\ NotRemoved)'
  BY NextKeeps, NextFreezes, StaysUnremoved
<1> QED
  BY <1>1, <1>2, PTL DEF Spec

(* mtk_tops_mcu_stall keeps what its callers rely on: TDMA is on when the       *)
(* callback that writes the tunnel table starts, and no recovery, timeout, late *)
(* answer or reset that comes meanwhile turns it off before the callback ends.  *)
THEOREM ImplementsFreeze == ~MayRemove => (Spec => IsFreeze)
<1> SUFFICES ASSUME ~MayRemove PROVE Spec => IsFreeze
  OBVIOUS
<1>1. Spec => []FreezeInv
  BY StallInvariance
<1>2. IInv /\ IInv' /\ FreezeInv /\ FreezeInv' /\ [Next]_vars => [Freeze!Next]_Phase
  BY StepRefines
<1> QED
  BY <1>1, <1>2, InitRefines, Invariance, PTL DEF Spec, IsFreeze, Freeze!Spec
=================================================================================
