---------------------------- MODULE TopsStallProofs -----------------------------
(* That no core runs while the thread that writes the tunnel table is let in -  *)
(* for any cores, any faults and any timing, as long as the driver is not       *)
(* removed.                                                                     *)
EXTENDS TopsFreezeProofs

---------------------------------------------------------------------------------
(* What the parts share                                                         *)

LEMMA CommandFacts ==
  /\ {"STALL", "FREERUN"} \subseteq Commands
  /\ {"none", "NET", "INIT_DONE"} \cap Commands = {} /\ Commands \cap Answers = {}
BY DEF Commands, Answers

(* While a stall is granted its caller holds the lock and the machine is in     *)
(* service, with no act pending that would stop it.                             *)
LEMMA GrantedFacts ==
  ASSUME IInv, FreezeInv, Granted
  PROVE  owner = "sync" /\ NoStop /\ cur \in {"STALL", "FREERUN"}
<1>1. owner = "sync"
  BY UserFacts DEF Granted, IInv, LockHeld, Holding
<1>2. cur \in {"STALL", "FREERUN"} /\ StaysInService
  BY DEF Granted, FreezeInv, FrozenInService
<1> QED
  BY <1>1, <1>2 DEF StaysInService, NoStop

(* Every state but RESET answers NETSTOP with NETSTOP.                          *)
LEMMA NetstopFacts ==
  ASSUME NEW s, NEW t, <<s, "NETSTOP", t>> \in Trans
  PROVE  t = "NETSTOP" \/ (s = "RESET" /\ t = "ABNORMAL")
BY DEF Trans

(* Steps that touch neither the machine nor the request nor the cores: a fault  *)
(* may be noted.                                                                *)
LEMMA StallFrame ==
  ASSUME StallInv, fail => fail',
         UNCHANGED <<cur, next, ctrl, pend, msg1, done, doneBit, owner, pc, core, cmd,
                     ans>>
  PROVE  StallInv'
<1> USE DEF StallInv
<1>1. StartExchange' /\ StartedIsSettled'
  BY DEF StartExchange, StartedIsSettled, BroughtUp, NoStop, Leaving, ToFreerun,
     Settled, PoweredOff, OnlyStarted
<1>2. Undisturbed' => Undisturbed
  BY DEF Undisturbed, BroughtUp, NoStop, Leaving
<1>3. ServiceIsSettled'
  BY <1>2 DEF ServiceIsSettled, Settled, PoweredOff, OnlyStarted
<1>4. StallExchange' /\ ResumeExchange'
  BY <1>2 DEF StallExchange, ResumeExchange, Settled, PoweredOff
<1>5. TakenAsAsked'
  BY <1>2 DEF TakenAsAsked, ToFreerun, Leaving, PoweredOff
<1>6. StallHolds'
  BY <1>2 DEF StallHolds, Granted, Settled
<1> QED
  BY <1>1, <1>3, <1>4, <1>5, <1>6

---------------------------------------------------------------------------------
(* The control thread                                                           *)

LEMMA TakeStalls ==
  ASSUME IInv, FreezeInv, StallInv, Take
  PROVE  StallInv'
<1> USE DEF IInv, TypeOK, FreezeInv, StallInv
<1>1. PICK a \in pend :
        /\ \A b \in pend : Bit[a] <= Bit[b]
        /\ pend' = pend \ {a}
        /\ \/ /\ \E s \in States :
                   /\ <<cur, a, s>> \in Trans
                   /\ next' = s
                   /\ \/ a # "ABNORMAL" /\ Moves("leave") /\ UNCHANGED cur
                      \/ a = "ABNORMAL" /\ Moves("enter") /\ cur' = s
              /\ UNCHANGED <<fail, woken>>
           \/ /\ \A s \in States : <<cur, a, s>> \notin Trans
              /\ Failed /\ UNCHANGED <<cur, next>>
  BY DEF Take
<1>2. /\ ctrl = "idle" /\ fail \in BOOLEAN /\ pend \subseteq Acts /\ cur \in States
      /\ UNCHANGED <<msg1, done, doneBit, owner, pc, core, cmd, ans>>
  BY DEF Take, request, hardware, FlagsType, MachineType
<1>3. CASE /\ \A s \in States : <<cur, a, s>> \notin Trans
           /\ Failed /\ UNCHANGED <<cur, next>>
  <2>1. fail' /\ ctrl' = "idle" /\ UNCHANGED cur
    BY <1>3 DEF Failed, Moves
  <2>2. a = "NETSTOP" => cur \notin {"INIT", "FREERUN", "STALL", "RESET"}
    BY <1>3 DEF Trans, States
  <2>3. StartExchange'
    BY <1>2, <2>1 DEF StartExchange, PoweredOff, BroughtUp, OnlyStarted
  <2>4. StartedIsSettled'
    BY <1>1, <1>2, <2>1, <2>2
       DEF StartedIsSettled, BroughtUp, NoStop, Leaving, ToFreerun, Settled, PoweredOff
  <2>5. ~Undisturbed'
    BY <2>1 DEF Undisturbed
  <2>6. ServiceIsSettled' /\ StallExchange' /\ ResumeExchange' /\ TakenAsAsked'
    BY <2>5 DEF ServiceIsSettled, StallExchange, ResumeExchange, TakenAsAsked
  <2>7. StallHolds'
    BY <1>2, <2>1, <2>5 DEF StallHolds, Granted, Settled
  <2> QED
    BY <2>3, <2>4, <2>6, <2>7
<1>4. ASSUME NEW s \in States, <<cur, a, s>> \in Trans, next' = s, UNCHANGED fail,
             \/ a # "ABNORMAL" /\ Moves("leave") /\ UNCHANGED cur
             \/ a = "ABNORMAL" /\ Moves("enter") /\ cur' = s
      PROVE  StallInv'
  <2>1. /\ s = "STALL" => a = "STALL" /\ cur = "FREERUN"
        /\ s = "FREERUN" => a = "FREERUN"
        /\ a = "STALL" => s = "STALL"
        /\ a = "ABNORMAL" => s = "ABNORMAL"
    BY <1>4, TransFacts
  <2>2. a = "NETSTOP" => s = "NETSTOP" \/ (cur = "RESET" /\ s = "ABNORMAL")
    BY <1>4, NetstopFacts
  <2>3. a = "FREERUN" => pend \subseteq {"FREERUN"}
    BY <1>1, <1>2, BitFacts
  <2>4. \/ a # "ABNORMAL" /\ ctrl' = "leave" /\ cur' = cur
        \/ a = "ABNORMAL" /\ ctrl' = "enter" /\ cur' = "ABNORMAL"
    BY <1>4, <2>1 DEF Moves
  <2>5. NoStop' /\ cur' # "RESET" => NoStop
    BY <1>1, <1>2, <1>4, <2>2, <2>4 DEF NoStop, Leaving
  <2>6. BroughtUp' <=> BroughtUp
    BY <1>2 DEF BroughtUp
  <2>7. Undisturbed' /\ cur' # "RESET" => Undisturbed
    BY <1>2, <1>4, <2>5, <2>6 DEF Undisturbed
  <2>8. StartExchange'
    BY <1>2, <2>4, <2>6 DEF StartExchange, PoweredOff, OnlyStarted
  <2>9. StartedIsSettled'
    BY <1>1, <1>2, <1>4, <2>1, <2>2, <2>3, <2>4, <2>5, <2>6
       DEF StartedIsSettled, NoStop, Leaving, ToFreerun, Settled, PoweredOff
  <2>10. ServiceIsSettled'
    BY <1>2, <2>4, <2>7 DEF ServiceIsSettled, Settled, PoweredOff, OnlyStarted
  <2>11. StallExchange' /\ ResumeExchange'
    BY <2>4 DEF StallExchange, ResumeExchange
  <2>12. TakenAsAsked'
    <3>1. CASE cur' = "RESET"
      BY <1>1, <1>2, <1>4, <2>1, <2>3, <2>4, <3>1
         DEF TakenAsAsked, ToFreerun, Leaving
    <3>2. CASE cur' # "RESET"
      BY <1>1, <1>2, <1>4, <2>1, <2>3, <2>4, <2>7, <3>2
         DEF TakenAsAsked, ToFreerun, Leaving, PoweredOff
    <3> QED
      BY <3>1, <3>2
  <2>13. StallHolds'
    <3> SUFFICES ASSUME Granted PROVE StallHolds'
      BY <1>2, <1>4 DEF StallHolds, Granted
    <3>1. ~Undisturbed
      <4> SUFFICES ASSUME Undisturbed PROVE FALSE
        OBVIOUS
      <4>1. cur = "STALL" /\ msg1 = "STALL_DONE" /\ a \in {"STALL", "FREERUN"}
        BY DEF StallHolds, Granted, FrozenInService, StaysInService, Undisturbed
      <4> QED
        BY <2>1, <4>1 DEF TakenAsAsked
    <3>2. fail'
      BY <1>4, <3>1, GrantedFacts DEF Undisturbed
    <3> QED
      BY <1>2, <3>2 DEF StallHolds, Undisturbed, Settled
  <2> QED
    BY <2>8, <2>9, <2>10, <2>11, <2>12, <2>13
<1> QED
  BY <1>1, <1>3, <1>4

LEMMA LeaveStalls ==
  ASSUME IInv, FreezeInv, StallInv, IInv', FreezeInv', Leave
  PROVE  StallInv'
<1> USE DEF IInv, TypeOK, FreezeInv, StallInv
<1>1. StartExchange'
  BY CommandFacts DEF StartExchange, OnlyStarted, PoweredOff, NoStop, Leaving,
       BroughtUp, Leave, LeavesQuietly, Moves, request, flags, users, hardware,
       ControlInOrder, LeavesFor, MachineType, States
<1>2. StartedIsSettled'
  BY CommandFacts DEF StartedIsSettled, StartExchange, BroughtUp, NoStop, Leaving,
       ToFreerun, Settled, PoweredOff, OnlyStarted, Leave, LeavesQuietly, Moves,
       request, flags, users, hardware, ControlInOrder, LeavesFor, MachineType,
       States, ResetIsNoted
<1>3. ServiceIsSettled'
  BY CommandFacts DEF ServiceIsSettled, Undisturbed, BroughtUp, NoStop, Leaving,
       ToFreerun, Settled, PoweredOff, OnlyStarted, Leave, LeavesQuietly, Moves,
       request, flags, users, hardware, ControlInOrder, LeavesFor, MachineType,
       States, ResetIsNoted, StartExchange
<1>4. StallExchange'
  BY CommandFacts DEF StallExchange, Undisturbed, BroughtUp, NoStop, Leaving,
       Settled, PoweredOff, Commands, Leave, LeavesQuietly, Moves, request, flags,
       users, hardware, ControlInOrder, LeavesFor, MachineType, States
<1>5. ResumeExchange'
  BY CommandFacts DEF ResumeExchange, Undisturbed, BroughtUp, NoStop, Leaving,
       Settled, Commands, Leave, LeavesQuietly, Moves, request, flags, users,
       hardware, ControlInOrder, LeavesFor, MachineType, States, ServiceIsSettled,
       TakenAsAsked
<1>6. TakenAsAsked'
  BY CommandFacts DEF TakenAsAsked, Undisturbed, BroughtUp, NoStop, Leaving,
       ToFreerun, PoweredOff, ResetIsNoted, Leave, LeavesQuietly, Moves, request,
       flags, users, hardware, ControlInOrder, LeavesFor, MachineType, States
<1>7. StallHolds'
  BY CommandFacts, GrantedFacts DEF StallHolds, Undisturbed, BroughtUp, NoStop,
       Leaving, Granted, Settled, Leave, LeavesQuietly, Moves, request, flags,
       users, hardware, ControlInOrder, LeavesFor, MachineType, States
<1> QED
  BY <1>1, <1>2, <1>3, <1>4, <1>5, <1>6, <1>7

LEMMA LeaveInitStalls ==
  ASSUME IInv, FreezeInv, StallInv, IInv', FreezeInv', LeaveInit
  PROVE  StallInv'
<1> USE DEF IInv, TypeOK, FreezeInv, StallInv
<1>1. StartExchange'
  BY CommandFacts DEF StartExchange, OnlyStarted, PoweredOff, NoStop, Leaving,
       BroughtUp, LeaveInit, MailboxesFree, Moves, request, flags, users,
       ControlInOrder, LeavesFor, MachineType, States
<1>2. StartedIsSettled'
  BY CommandFacts DEF StartedIsSettled, StartExchange, BroughtUp, NoStop, Leaving,
       ToFreerun, Settled, PoweredOff, OnlyStarted, LeaveInit, MailboxesFree, Moves,
       request, flags, users, ControlInOrder, LeavesFor, MachineType, States,
       ResetIsNoted
<1>3. ServiceIsSettled'
  BY CommandFacts DEF ServiceIsSettled, Undisturbed, BroughtUp, NoStop, Leaving,
       ToFreerun, Settled, PoweredOff, OnlyStarted, LeaveInit, MailboxesFree, Moves,
       request, flags, users, ControlInOrder, LeavesFor, MachineType, States,
       ResetIsNoted, StartExchange
<1>4. StallExchange'
  BY CommandFacts DEF StallExchange, Undisturbed, BroughtUp, NoStop, Leaving,
       Settled, PoweredOff, Commands, LeaveInit, MailboxesFree, Moves, request,
       flags, users, ControlInOrder, LeavesFor, MachineType, States
<1>5. ResumeExchange'
  BY CommandFacts DEF ResumeExchange, Undisturbed, BroughtUp, NoStop, Leaving,
       Settled, Commands, LeaveInit, MailboxesFree, Moves, request, flags, users,
       ControlInOrder, LeavesFor, MachineType, States, ServiceIsSettled,
       TakenAsAsked
<1>6. TakenAsAsked'
  BY CommandFacts DEF TakenAsAsked, Undisturbed, BroughtUp, NoStop, Leaving,
       ToFreerun, PoweredOff, ResetIsNoted, LeaveInit, MailboxesFree, Moves,
       request, flags, users, ControlInOrder, LeavesFor, MachineType, States
<1>7. StallHolds'
  BY CommandFacts, GrantedFacts DEF StallHolds, Undisturbed, BroughtUp, NoStop,
       Leaving, Granted, Settled, LeaveInit, MailboxesFree, Moves, request, flags,
       users, ControlInOrder, LeavesFor, MachineType, States
<1> QED
  BY <1>1, <1>2, <1>3, <1>4, <1>5, <1>6, <1>7

LEMMA LeaveWithCommandStalls ==
  ASSUME IInv, FreezeInv, StallInv, IInv', FreezeInv', LeaveWithCommand
  PROVE  StallInv'
<1> USE DEF IInv, TypeOK, FreezeInv, StallInv
<1>1. StartExchange'
  BY CommandFacts DEF StartExchange, OnlyStarted, PoweredOff, NoStop, Leaving,
       BroughtUp, LeaveWithCommand, LeavesQuietly, PrepareAndSend, MailboxesFree,
       Moves, flags, users, ControlInOrder, LeavesFor, MachineType, States
<1>2. StartedIsSettled'
  BY CommandFacts DEF StartedIsSettled, StartExchange, BroughtUp, NoStop, Leaving,
       ToFreerun, Settled, PoweredOff, OnlyStarted, LeaveWithCommand, LeavesQuietly,
       PrepareAndSend, MailboxesFree, Moves, flags, users, ControlInOrder,
       LeavesFor, MachineType, States, ResetIsNoted
<1>3. ServiceIsSettled'
  BY CommandFacts DEF ServiceIsSettled, Undisturbed, BroughtUp, NoStop, Leaving,
       ToFreerun, Settled, PoweredOff, OnlyStarted, LeaveWithCommand, LeavesQuietly,
       PrepareAndSend, MailboxesFree, Moves, flags, users, ControlInOrder,
       LeavesFor, MachineType, States, ResetIsNoted, StartExchange
<1>4. StallExchange'
  BY CommandFacts DEF StallExchange, Undisturbed, BroughtUp, NoStop, Leaving,
       Settled, PoweredOff, Commands, LeaveWithCommand, LeavesQuietly,
       PrepareAndSend, MailboxesFree, Moves, flags, users, ControlInOrder,
       LeavesFor, MachineType, States
<1>5. ResumeExchange'
  BY CommandFacts DEF ResumeExchange, Undisturbed, BroughtUp, NoStop, Leaving,
       Settled, Commands, LeaveWithCommand, LeavesQuietly, PrepareAndSend,
       MailboxesFree, Moves, flags, users, ControlInOrder, LeavesFor, MachineType,
       States, ServiceIsSettled, TakenAsAsked
<1>6. TakenAsAsked'
  <2>1. /\ UNCHANGED <<cur, next, pend, msg1, owner, fail, core>>
        /\ ctrl = "leave" /\ ctrl' = "leaveWait" /\ done' \in {done, {}}
        /\ doneBit' => doneBit
    BY DEF LeaveWithCommand, PrepareAndSend, Moves, flags, users
  <2>2. Undisturbed' => Undisturbed
    BY <2>1 DEF Undisturbed, NoStop, Leaving, BroughtUp
  <2>3. /\ (ToFreerun' <=> ToFreerun) /\ (PoweredOff' <=> PoweredOff)
        /\ cur = "STALL" => next = "FREERUN"
    BY <2>1 DEF ToFreerun, Leaving, PoweredOff, LeaveWithCommand, LeavesQuietly,
       ControlInOrder, LeavesFor
  <2> QED
    BY <2>1, <2>2, <2>3 DEF TakenAsAsked
<1>7. StallHolds'
  <2> SUFFICES ASSUME Granted PROVE StallHolds'
    BY DEF StallHolds, Granted, LeaveWithCommand, PrepareAndSend, flags, users
  <2>1. /\ UNCHANGED <<cur, pend, next, msg1, owner, fail, core, ans>> /\ ctrl = "leave"
        /\ \A c \in Cores : cmd'[c] \in {cmd[c], msg1}
    BY DEF LeaveWithCommand, PrepareAndSend, flags, users
  <2>2. fail
    BY <2>1, GrantedFacts DEF StallHolds, Undisturbed
  <2>3. /\ msg1 = "STALL_DONE" /\ msg1 \notin Commands
        /\ \A c \in Cores : Settled(c) /\ core[c] \in {"stalled", "mute", "deaf"}
    BY DEF StallHolds, Commands
  <2> QED
    BY <2>1, <2>2, <2>3 DEF StallHolds, Undisturbed, Settled
<1> QED
  BY <1>1, <1>2, <1>3, <1>4, <1>5, <1>6, <1>7

LEMMA EnterShutdownStalls ==
  ASSUME IInv, FreezeInv, StallInv, IInv', FreezeInv', EnterShutdown
  PROVE  StallInv'
<1> USE DEF IInv, TypeOK, FreezeInv, StallInv
<1>1. StartExchange'
  BY CommandFacts DEF StartExchange, OnlyStarted, PoweredOff, NoStop, Leaving,
       BroughtUp, EnterShutdown, Moves, request, ControlInOrder
<1>2. StartedIsSettled'
  BY CommandFacts DEF StartedIsSettled, StartExchange, BroughtUp, NoStop, Leaving,
       ToFreerun, Settled, PoweredOff, OnlyStarted, EnterShutdown, Moves, request,
       ControlInOrder
<1>3. ServiceIsSettled'
  BY CommandFacts DEF ServiceIsSettled, Undisturbed, BroughtUp, NoStop, Leaving,
       ToFreerun, Settled, PoweredOff, OnlyStarted, EnterShutdown, Moves, request,
       ControlInOrder
<1>4. StallExchange'
  BY CommandFacts DEF StallExchange, Undisturbed, BroughtUp, NoStop, Leaving,
       Settled, PoweredOff, Commands, EnterShutdown, Moves, request, ControlInOrder
<1>5. ResumeExchange'
  BY CommandFacts DEF ResumeExchange, Undisturbed, BroughtUp, NoStop, Leaving,
       Settled, Commands, EnterShutdown, Moves, request, ControlInOrder
<1>6. TakenAsAsked'
  BY CommandFacts DEF TakenAsAsked, Undisturbed, BroughtUp, NoStop, Leaving,
       ToFreerun, PoweredOff, ResetIsNoted, EnterShutdown, Moves, request,
       ControlInOrder
<1>7. StallHolds'
  BY CommandFacts, GrantedFacts DEF StallHolds, Undisturbed, BroughtUp, NoStop,
       Leaving, Granted, Settled, EnterShutdown, Moves, request, ControlInOrder
<1> QED
  BY <1>1, <1>2, <1>3, <1>4, <1>5, <1>6, <1>7

LEMMA EnterInitStalls ==
  ASSUME IInv, FreezeInv, StallInv, IInv', FreezeInv', EnterInit
  PROVE  StallInv'
<1> USE DEF IInv, TypeOK, FreezeInv, StallInv
<1>1. StartExchange'
  BY CommandFacts DEF StartExchange, OnlyStarted, PoweredOff, NoStop, Leaving,
       BroughtUp, EnterInit, Moves, Fault, Failed, ControlInOrder
<1>2. StartedIsSettled'
  BY CommandFacts DEF StartedIsSettled, StartExchange, BroughtUp, NoStop, Leaving,
       ToFreerun, Settled, PoweredOff, OnlyStarted, EnterInit, Moves, Fault, Failed,
       ControlInOrder
<1>3. ServiceIsSettled'
  BY CommandFacts DEF ServiceIsSettled, Undisturbed, BroughtUp, NoStop, Leaving,
       ToFreerun, Settled, PoweredOff, OnlyStarted, EnterInit, Moves, Fault, Failed,
       ControlInOrder
<1>4. StallExchange'
  BY CommandFacts DEF StallExchange, Undisturbed, BroughtUp, NoStop, Leaving,
       Settled, PoweredOff, Commands, EnterInit, Moves, Fault, Failed,
       ControlInOrder
<1>5. ResumeExchange'
  BY CommandFacts DEF ResumeExchange, Undisturbed, BroughtUp, NoStop, Leaving,
       Settled, Commands, EnterInit, Moves, Fault, Failed, ControlInOrder
<1>6. TakenAsAsked'
  BY CommandFacts DEF TakenAsAsked, Undisturbed, BroughtUp, NoStop, Leaving,
       ToFreerun, PoweredOff, ResetIsNoted, EnterInit, Moves, Fault, Failed,
       ControlInOrder
<1>7. StallHolds'
  BY CommandFacts, GrantedFacts DEF StallHolds, Undisturbed, BroughtUp, NoStop,
       Leaving, Granted, Settled, EnterInit, Moves, Fault, Failed, ControlInOrder
<1> QED
  BY <1>1, <1>2, <1>3, <1>4, <1>5, <1>6, <1>7

LEMMA EnterInitUnpoweredStalls ==
  ASSUME IInv, FreezeInv, StallInv, IInv', FreezeInv', EnterInitUnpowered
  PROVE  StallInv'
<1> USE DEF IInv, TypeOK, FreezeInv, StallInv
<1>1. StartExchange'
  BY CommandFacts DEF StartExchange, OnlyStarted, PoweredOff, NoStop, Leaving,
       BroughtUp, EnterInitUnpowered, Fault, Failed, Moves, request, ControlInOrder
<1>2. StartedIsSettled'
  BY CommandFacts DEF StartedIsSettled, StartExchange, BroughtUp, NoStop, Leaving,
       ToFreerun, Settled, PoweredOff, OnlyStarted, EnterInitUnpowered, Fault,
       Failed, Moves, request, ControlInOrder
<1>3. ServiceIsSettled'
  BY CommandFacts DEF ServiceIsSettled, Undisturbed, BroughtUp, NoStop, Leaving,
       ToFreerun, Settled, PoweredOff, OnlyStarted, EnterInitUnpowered, Fault,
       Failed, Moves, request, ControlInOrder
<1>4. StallExchange'
  BY CommandFacts DEF StallExchange, Undisturbed, BroughtUp, NoStop, Leaving,
       Settled, PoweredOff, Commands, EnterInitUnpowered, Fault, Failed, Moves,
       request, ControlInOrder
<1>5. ResumeExchange'
  BY CommandFacts DEF ResumeExchange, Undisturbed, BroughtUp, NoStop, Leaving,
       Settled, Commands, EnterInitUnpowered, Fault, Failed, Moves, request,
       ControlInOrder
<1>6. TakenAsAsked'
  BY CommandFacts DEF TakenAsAsked, Undisturbed, BroughtUp, NoStop, Leaving,
       ToFreerun, PoweredOff, ResetIsNoted, EnterInitUnpowered, Fault, Failed,
       Moves, request, ControlInOrder
<1>7. StallHolds'
  BY CommandFacts, GrantedFacts DEF StallHolds, Undisturbed, BroughtUp, NoStop,
       Leaving, Granted, Settled, EnterInitUnpowered, Fault, Failed, Moves, request,
       ControlInOrder
<1> QED
  BY <1>1, <1>2, <1>3, <1>4, <1>5, <1>6, <1>7

LEMMA EnterFreerunStalls ==
  ASSUME IInv, FreezeInv, StallInv, IInv', FreezeInv', EnterFreerun
  PROVE  StallInv'
<1> USE DEF IInv, TypeOK, FreezeInv, StallInv
<1>1. StartExchange'
  BY CommandFacts DEF StartExchange, OnlyStarted, PoweredOff, NoStop, Leaving,
       BroughtUp, EnterFreerun, Moves, request, flags, users, hardware,
       ControlInOrder
<1>2. StartedIsSettled'
  BY CommandFacts DEF StartedIsSettled, StartExchange, BroughtUp, NoStop, Leaving,
       ToFreerun, Settled, PoweredOff, OnlyStarted, EnterFreerun, Moves, request,
       flags, users, hardware, ControlInOrder
<1>3. ServiceIsSettled'
  BY CommandFacts DEF ServiceIsSettled, Undisturbed, BroughtUp, NoStop, Leaving,
       ToFreerun, Settled, PoweredOff, OnlyStarted, EnterFreerun, Moves, request,
       flags, users, hardware, ControlInOrder
<1>4. StallExchange'
  BY CommandFacts DEF StallExchange, Undisturbed, BroughtUp, NoStop, Leaving,
       Settled, PoweredOff, Commands, EnterFreerun, Moves, request, flags, users,
       hardware, ControlInOrder
<1>5. ResumeExchange'
  BY CommandFacts DEF ResumeExchange, Undisturbed, BroughtUp, NoStop, Leaving,
       Settled, Commands, EnterFreerun, Moves, request, flags, users, hardware,
       ControlInOrder
<1>6. TakenAsAsked'
  BY CommandFacts DEF TakenAsAsked, Undisturbed, BroughtUp, NoStop, Leaving,
       ToFreerun, PoweredOff, ResetIsNoted, EnterFreerun, Moves, request, flags,
       users, hardware, ControlInOrder
<1>7. StallHolds'
  BY CommandFacts, GrantedFacts DEF StallHolds, Undisturbed, BroughtUp, NoStop,
       Leaving, Granted, Settled, EnterFreerun, Moves, request, flags, users,
       hardware, ControlInOrder
<1> QED
  BY <1>1, <1>2, <1>3, <1>4, <1>5, <1>6, <1>7

LEMMA EnterStallStalls ==
  ASSUME IInv, FreezeInv, StallInv, IInv', FreezeInv', EnterStall
  PROVE  StallInv'
<1> USE DEF IInv, TypeOK, FreezeInv, StallInv
<1>1. StartExchange'
  BY CommandFacts DEF StartExchange, OnlyStarted, PoweredOff, NoStop, Leaving,
       BroughtUp, EnterStall, PrepareAndSend, MailboxesFree, Moves, flags, users,
       ControlInOrder
<1>2. StartedIsSettled'
  BY CommandFacts DEF StartedIsSettled, StartExchange, BroughtUp, NoStop, Leaving,
       ToFreerun, Settled, PoweredOff, OnlyStarted, EnterStall, PrepareAndSend,
       MailboxesFree, Moves, flags, users, ControlInOrder
<1>3. ServiceIsSettled'
  BY CommandFacts DEF ServiceIsSettled, Undisturbed, BroughtUp, NoStop, Leaving,
       ToFreerun, Settled, PoweredOff, OnlyStarted, EnterStall, PrepareAndSend,
       MailboxesFree, Moves, flags, users, ControlInOrder
<1>4. StallExchange'
  <2> SUFFICES ASSUME Undisturbed PROVE StallExchange'
    BY
       DEF StallExchange, EnterStall, Undisturbed, NoStop, Leaving, BroughtUp,
           PrepareAndSend, Moves, flags, users
  <2>1. /\ msg1 = "STALL" /\ (done = {} \/ PoweredOff)
        /\ \/ \A c \in Cores : Settled(c)
           \/ PoweredOff /\ \A c \in Cores : OnlyStarted(c)
    BY DEF EnterStall, TakenAsAsked, ServiceIsSettled
  <2>2. /\ done' = (IF done = Cores THEN {} ELSE done)
        /\ cmd' = [c \in Cores |-> IF c \in done' THEN cmd[c] ELSE "STALL"]
        /\ UNCHANGED <<core, ans>>
    BY <2>1 DEF EnterStall, PrepareAndSend
  <2>3. CASE PoweredOff
    BY <2>1, <2>2, <2>3, CoresAssumption
       DEF StallExchange, PoweredOff, Settled, OnlyStarted
  <2>4. CASE ~PoweredOff
    <3>1. done' = {} /\ \A c \in Cores : cmd'[c] = "STALL" /\ ans'[c] = "none" /\ core'[c] # "boot"
      BY <2>1, <2>2, <2>4 DEF Settled
    <3> QED
      BY <3>1, CommandFacts DEF StallExchange
  <2> QED
    BY <2>3, <2>4
<1>5. ResumeExchange'
  BY CommandFacts DEF ResumeExchange, Undisturbed, BroughtUp, NoStop, Leaving,
       Settled, Commands, EnterStall, PrepareAndSend, MailboxesFree, Moves, flags,
       users, ControlInOrder
<1>6. TakenAsAsked'
  BY CommandFacts DEF TakenAsAsked, Undisturbed, BroughtUp, NoStop, Leaving,
       ToFreerun, PoweredOff, ResetIsNoted, EnterStall, PrepareAndSend,
       MailboxesFree, Moves, flags, users, ControlInOrder
<1>7. StallHolds'
  <2> SUFFICES ASSUME Granted PROVE StallHolds'
    BY DEF StallHolds, Granted, EnterStall, PrepareAndSend, flags, users
  <2>1. /\ UNCHANGED <<cur, pend, next, msg1, owner, fail, core, ans>> /\ ctrl = "enter"
        /\ \A c \in Cores : cmd'[c] \in {cmd[c], msg1}
    BY DEF EnterStall, PrepareAndSend, flags, users
  <2>2. fail
    BY <2>1, GrantedFacts DEF StallHolds, Undisturbed
  <2>3. /\ msg1 = "STALL_DONE" /\ msg1 \notin Commands
        /\ \A c \in Cores : Settled(c) /\ core[c] \in {"stalled", "mute", "deaf"}
    BY DEF StallHolds, Commands
  <2> QED
    BY <2>1, <2>2, <2>3 DEF StallHolds, Undisturbed, Settled
<1> QED
  BY <1>1, <1>2, <1>3, <1>4, <1>5, <1>6, <1>7

LEMMA EnterNetstopStalls ==
  ASSUME IInv, FreezeInv, StallInv, IInv', FreezeInv', EnterNetstop
  PROVE  StallInv'
<1> USE DEF IInv, TypeOK, FreezeInv, StallInv
<1>1. StartExchange'
  BY CommandFacts DEF StartExchange, OnlyStarted, PoweredOff, NoStop, Leaving,
       BroughtUp, EnterNetstop, MailboxesFree, Moves, request, flags, users,
       ControlInOrder
<1>2. StartedIsSettled'
  BY CommandFacts DEF StartedIsSettled, StartExchange, BroughtUp, NoStop, Leaving,
       ToFreerun, Settled, PoweredOff, OnlyStarted, EnterNetstop, MailboxesFree,
       Moves, request, flags, users, ControlInOrder
<1>3. ServiceIsSettled'
  BY CommandFacts DEF ServiceIsSettled, Undisturbed, BroughtUp, NoStop, Leaving,
       ToFreerun, Settled, PoweredOff, OnlyStarted, EnterNetstop, MailboxesFree,
       Moves, request, flags, users, ControlInOrder
<1>4. StallExchange'
  BY CommandFacts DEF StallExchange, Undisturbed, BroughtUp, NoStop, Leaving,
       Settled, PoweredOff, Commands, EnterNetstop, MailboxesFree, Moves, request,
       flags, users, ControlInOrder
<1>5. ResumeExchange'
  BY CommandFacts DEF ResumeExchange, Undisturbed, BroughtUp, NoStop, Leaving,
       Settled, Commands, EnterNetstop, MailboxesFree, Moves, request, flags, users,
       ControlInOrder
<1>6. TakenAsAsked'
  BY CommandFacts DEF TakenAsAsked, Undisturbed, BroughtUp, NoStop, Leaving,
       ToFreerun, PoweredOff, ResetIsNoted, EnterNetstop, MailboxesFree, Moves,
       request, flags, users, ControlInOrder
<1>7. StallHolds'
  BY CommandFacts, GrantedFacts DEF StallHolds, Undisturbed, BroughtUp, NoStop,
       Leaving, Granted, Settled, EnterNetstop, MailboxesFree, Moves, request,
       flags, users, ControlInOrder
<1> QED
  BY <1>1, <1>2, <1>3, <1>4, <1>5, <1>6, <1>7

LEMMA EnterResetStalls ==
  ASSUME IInv, FreezeInv, StallInv, IInv', FreezeInv', EnterReset
  PROVE  StallInv'
<1> USE DEF IInv, TypeOK, FreezeInv, StallInv
<1>1. StartExchange'
  BY CommandFacts DEF StartExchange, OnlyStarted, PoweredOff, NoStop, Leaving,
       BroughtUp, EnterReset, PrepareAndSend, MailboxesFree, Moves, flags, users,
       ControlInOrder
<1>2. StartedIsSettled'
  BY CommandFacts DEF StartedIsSettled, StartExchange, BroughtUp, NoStop, Leaving,
       ToFreerun, Settled, PoweredOff, OnlyStarted, EnterReset, PrepareAndSend,
       MailboxesFree, Moves, flags, users, ControlInOrder
<1>3. ServiceIsSettled'
  BY CommandFacts DEF ServiceIsSettled, Undisturbed, BroughtUp, NoStop, Leaving,
       ToFreerun, Settled, PoweredOff, OnlyStarted, EnterReset, PrepareAndSend,
       MailboxesFree, Moves, flags, users, ControlInOrder
<1>4. StallExchange'
  BY CommandFacts DEF StallExchange, Undisturbed, BroughtUp, NoStop, Leaving,
       Settled, PoweredOff, Commands, EnterReset, PrepareAndSend, MailboxesFree,
       Moves, flags, users, ControlInOrder
<1>5. ResumeExchange'
  BY CommandFacts DEF ResumeExchange, Undisturbed, BroughtUp, NoStop, Leaving,
       Settled, Commands, EnterReset, PrepareAndSend, MailboxesFree, Moves, flags,
       users, ControlInOrder
<1>6. TakenAsAsked'
  BY CommandFacts DEF TakenAsAsked, Undisturbed, BroughtUp, NoStop, Leaving,
       ToFreerun, PoweredOff, ResetIsNoted, EnterReset, PrepareAndSend,
       MailboxesFree, Moves, flags, users, ControlInOrder
<1>7. StallHolds'
  BY CommandFacts, GrantedFacts DEF StallHolds, Undisturbed, BroughtUp, NoStop,
       Leaving, Granted, Settled, EnterReset, PrepareAndSend, MailboxesFree, Moves,
       flags, users, ControlInOrder
<1> QED
  BY <1>1, <1>2, <1>3, <1>4, <1>5, <1>6, <1>7

LEMMA EnterResetSilentlyStalls ==
  ASSUME IInv, FreezeInv, StallInv, IInv', FreezeInv', EnterResetSilently
  PROVE  StallInv'
<1> USE DEF IInv, TypeOK, FreezeInv, StallInv
<1>1. StartExchange'
  BY CommandFacts DEF StartExchange, OnlyStarted, PoweredOff, NoStop, Leaving,
       BroughtUp, EnterResetSilently, Moves, flags, users, hardware, ControlInOrder
<1>2. StartedIsSettled'
  BY CommandFacts DEF StartedIsSettled, StartExchange, BroughtUp, NoStop, Leaving,
       ToFreerun, Settled, PoweredOff, OnlyStarted, EnterResetSilently, Moves,
       flags, users, hardware, ControlInOrder
<1>3. ServiceIsSettled'
  BY CommandFacts DEF ServiceIsSettled, Undisturbed, BroughtUp, NoStop, Leaving,
       ToFreerun, Settled, PoweredOff, OnlyStarted, EnterResetSilently, Moves,
       flags, users, hardware, ControlInOrder
<1>4. StallExchange'
  BY CommandFacts DEF StallExchange, Undisturbed, BroughtUp, NoStop, Leaving,
       Settled, PoweredOff, Commands, EnterResetSilently, Moves, flags, users,
       hardware, ControlInOrder
<1>5. ResumeExchange'
  BY CommandFacts DEF ResumeExchange, Undisturbed, BroughtUp, NoStop, Leaving,
       Settled, Commands, EnterResetSilently, Moves, flags, users, hardware,
       ControlInOrder
<1>6. TakenAsAsked'
  BY CommandFacts DEF TakenAsAsked, Undisturbed, BroughtUp, NoStop, Leaving,
       ToFreerun, PoweredOff, ResetIsNoted, EnterResetSilently, Moves, flags, users,
       hardware, ControlInOrder
<1>7. StallHolds'
  BY CommandFacts, GrantedFacts DEF StallHolds, Undisturbed, BroughtUp, NoStop,
       Leaving, Granted, Settled, EnterResetSilently, Moves, flags, users, hardware,
       ControlInOrder
<1> QED
  BY <1>1, <1>2, <1>3, <1>4, <1>5, <1>6, <1>7

LEMMA EnterAbnormalStalls ==
  ASSUME IInv, FreezeInv, StallInv, IInv', FreezeInv', EnterAbnormal
  PROVE  StallInv'
<1> USE DEF IInv, TypeOK, FreezeInv, StallInv
<1>1. StartExchange'
  BY CommandFacts DEF StartExchange, OnlyStarted, PoweredOff, NoStop, Leaving,
       BroughtUp, EnterAbnormal, Moves, request, flags, users, hardware,
       ControlInOrder
<1>2. StartedIsSettled'
  BY CommandFacts DEF StartedIsSettled, StartExchange, BroughtUp, NoStop, Leaving,
       ToFreerun, Settled, PoweredOff, OnlyStarted, EnterAbnormal, Moves, request,
       flags, users, hardware, ControlInOrder
<1>3. ServiceIsSettled'
  BY CommandFacts DEF ServiceIsSettled, Undisturbed, BroughtUp, NoStop, Leaving,
       ToFreerun, Settled, PoweredOff, OnlyStarted, EnterAbnormal, Moves, request,
       flags, users, hardware, ControlInOrder
<1>4. StallExchange'
  BY CommandFacts DEF StallExchange, Undisturbed, BroughtUp, NoStop, Leaving,
       Settled, PoweredOff, Commands, EnterAbnormal, Moves, request, flags, users,
       hardware, ControlInOrder
<1>5. ResumeExchange'
  BY CommandFacts DEF ResumeExchange, Undisturbed, BroughtUp, NoStop, Leaving,
       Settled, Commands, EnterAbnormal, Moves, request, flags, users, hardware,
       ControlInOrder
<1>6. TakenAsAsked'
  BY CommandFacts DEF TakenAsAsked, Undisturbed, BroughtUp, NoStop, Leaving,
       ToFreerun, PoweredOff, ResetIsNoted, EnterAbnormal, Moves, request, flags,
       users, hardware, ControlInOrder
<1>7. StallHolds'
  BY CommandFacts, GrantedFacts DEF StallHolds, Undisturbed, BroughtUp, NoStop,
       Leaving, Granted, Settled, EnterAbnormal, Moves, request, flags, users,
       hardware, ControlInOrder
<1> QED
  BY <1>1, <1>2, <1>3, <1>4, <1>5, <1>6, <1>7

LEMMA CompletesStalls ==
  ASSUME IInv, FreezeInv, StallInv, IInv', FreezeInv', Completes
  PROVE  StallInv'
<1> USE DEF IInv, TypeOK, FreezeInv, StallInv
<1>1. StartExchange'
  BY CommandFacts DEF StartExchange, OnlyStarted, PoweredOff, NoStop, Leaving,
       BroughtUp, Completes, Waiting, Moves, hardware, AwaitsItsAnswer,
       ControlInOrder
<1>2. StartedIsSettled'
  BY CommandFacts DEF StartedIsSettled, StartExchange, BroughtUp, NoStop, Leaving,
       ToFreerun, Settled, PoweredOff, OnlyStarted, Completes, Waiting, Moves,
       hardware, AwaitsItsAnswer, ControlInOrder
<1>3. ServiceIsSettled'
  BY CommandFacts DEF ServiceIsSettled, Undisturbed, BroughtUp, NoStop, Leaving,
       ToFreerun, Settled, PoweredOff, OnlyStarted, Completes, Waiting, Moves,
       hardware, AwaitsItsAnswer, ControlInOrder, StartExchange, StallExchange,
       ResumeExchange
<1>4. StallExchange'
  BY CommandFacts DEF StallExchange, Undisturbed, BroughtUp, NoStop, Leaving,
       Settled, PoweredOff, Commands, Completes, Waiting, Moves, hardware,
       AwaitsItsAnswer, ControlInOrder
<1>5. ResumeExchange'
  BY CommandFacts DEF ResumeExchange, Undisturbed, BroughtUp, NoStop, Leaving,
       Settled, Commands, Completes, Waiting, Moves, hardware, AwaitsItsAnswer,
       ControlInOrder
<1>6. TakenAsAsked'
  BY CommandFacts, CoresAssumption DEF TakenAsAsked, Undisturbed, BroughtUp, NoStop,
       Leaving, ToFreerun, PoweredOff, ResetIsNoted, Completes, Waiting, Moves,
       hardware, AwaitsItsAnswer, ControlInOrder
<1>7. StallHolds'
  <2> SUFFICES ASSUME Granted' PROVE StallHolds'
    BY DEF StallHolds
  <2>1. ~Granted
    <3>1. ASSUME Granted PROVE Undisturbed
      BY <3>1, GrantedFacts DEF Undisturbed, Completes
    <3> QED
      BY <3>1 DEF StallHolds, Completes, Waiting
  <2>2. "sync" \in Clients /\ pc["sync"] = "stall" /\ ~fail /\ doneCmd = "STALL_DONE"
    BY <2>1 DEF Granted, Completes
  <2>3. ctrl = "enterWait" /\ cur = "STALL"
    BY <2>2 DEF Completes, Waiting, AwaitsItsAnswer, ControlInOrder
  <2>4. owner = "sync"
    BY <2>2, UserFacts DEF LockHeld, Holding
  <2>5. Undisturbed
    BY <2>2, <2>3, <2>4
       DEF Undisturbed, NoStop, Leaving, StallIsAlone, StaysInService, Stalling
  <2>6. \A c \in Cores : Settled(c) /\ core[c] \in {"stalled", "mute", "deaf"}
    BY <2>3, <2>5 DEF StallExchange, Completes
  <2> QED
    BY <2>2, <2>3, <2>6 DEF StallHolds, Settled, Completes, Moves, hardware
<1> QED
  BY <1>1, <1>2, <1>3, <1>4, <1>5, <1>6, <1>7

LEMMA WaitFailsStalls ==
  ASSUME IInv, FreezeInv, StallInv, IInv', FreezeInv', WaitFails
  PROVE  StallInv'
<1> USE DEF IInv, TypeOK, FreezeInv, StallInv
<1>1. StartExchange'
  BY CommandFacts DEF StartExchange, OnlyStarted, PoweredOff, NoStop, Leaving,
       BroughtUp, WaitFails, Waiting, Failed, Moves, request, hardware,
       ControlInOrder
<1>2. StartedIsSettled'
  BY CommandFacts DEF StartedIsSettled, StartExchange, BroughtUp, NoStop, Leaving,
       ToFreerun, Settled, PoweredOff, OnlyStarted, WaitFails, Waiting, Failed,
       Moves, request, hardware, ControlInOrder
<1>3. ServiceIsSettled'
  BY CommandFacts DEF ServiceIsSettled, Undisturbed, BroughtUp, NoStop, Leaving,
       ToFreerun, Settled, PoweredOff, OnlyStarted, WaitFails, Waiting, Failed,
       Moves, request, hardware, ControlInOrder
<1>4. StallExchange'
  BY CommandFacts DEF StallExchange, Undisturbed, BroughtUp, NoStop, Leaving,
       Settled, PoweredOff, Commands, WaitFails, Waiting, Failed, Moves, request,
       hardware, ControlInOrder
<1>5. ResumeExchange'
  BY CommandFacts DEF ResumeExchange, Undisturbed, BroughtUp, NoStop, Leaving,
       Settled, Commands, WaitFails, Waiting, Failed, Moves, request, hardware,
       ControlInOrder
<1>6. TakenAsAsked'
  BY CommandFacts DEF TakenAsAsked, Undisturbed, BroughtUp, NoStop, Leaving,
       ToFreerun, PoweredOff, ResetIsNoted, WaitFails, Waiting, Failed, Moves,
       request, hardware, ControlInOrder
<1>7. StallHolds'
  BY CommandFacts, GrantedFacts DEF StallHolds, Undisturbed, BroughtUp, NoStop,
       Leaving, Granted, Settled, WaitFails, Waiting, Failed, Moves, request,
       hardware, ControlInOrder
<1> QED
  BY <1>1, <1>2, <1>3, <1>4, <1>5, <1>6, <1>7

LEMMA TimerStopsStalls ==
  ASSUME IInv, FreezeInv, StallInv, IInv', FreezeInv', TimerStops
  PROVE  StallInv'
<1> USE DEF IInv, TypeOK, FreezeInv, StallInv
<1>1. StartExchange'
  <2>1. /\ \/ ctrl = "leaveEnd" /\ ctrl' = "enter" /\ cur' = next
           \/ ctrl = "enterEnd" /\ ctrl' = "idle" /\ cur' = cur
        /\ UNCHANGED <<next, pend, msg1, done, doneBit, owner, fail, core, cmd, ans>>
    BY DEF TimerStops, Moves, request, flags, users, hardware
  <2>2. /\ ctrl = "leaveEnd" =>
             cur' \in {"FREERUN", "NETSTOP", "SHUTDOWN", "ABNORMAL"} /\ ~BroughtUp
        /\ ctrl = "enterEnd" => cur \in {"INIT", "STALL", "RESET"}
    BY <2>1 DEF ControlInOrder, LeavesFor, AwaitsItsAnswer, BroughtUp
  <2>3. ASSUME ctrl = "leaveEnd" PROVE StartExchange'
    BY <2>1, <2>2, <2>3 DEF StartExchange, BroughtUp
  <2>4. ASSUME ctrl = "enterEnd" PROVE StartExchange'
    BY <2>1, <2>2, <2>4 DEF StartExchange, BroughtUp, OnlyStarted
  <2> QED
    BY <2>1, <2>3, <2>4
<1>2. StartedIsSettled'
  <2>1. /\ \/ ctrl = "leaveEnd" /\ ctrl' = "enter" /\ cur' = next
           \/ ctrl = "enterEnd" /\ ctrl' = "idle" /\ cur' = cur
        /\ UNCHANGED <<next, pend, msg1, done, doneBit, owner, fail, core, cmd, ans>>
    BY DEF TimerStops, Moves, request, flags, users, hardware
  <2>2. /\ ctrl = "leaveEnd" =>
             cur' \in {"FREERUN", "NETSTOP", "SHUTDOWN", "ABNORMAL"} /\ ~BroughtUp
        /\ ctrl = "enterEnd" => cur \in {"INIT", "STALL", "RESET"}
    BY <2>1 DEF ControlInOrder, LeavesFor, AwaitsItsAnswer, BroughtUp
  <2>3. CASE ctrl = "leaveEnd"
    BY <2>1, <2>2, <2>3 DEF StartedIsSettled, BroughtUp
  <2>4. CASE ctrl = "enterEnd"
    BY <2>1, <2>2, <2>4 DEF StartedIsSettled, BroughtUp, NoStop, Leaving, ToFreerun,
       Settled, PoweredOff
  <2> QED
    BY <2>1, <2>3, <2>4
<1>3. ServiceIsSettled'
  BY CommandFacts DEF ServiceIsSettled, Undisturbed, BroughtUp, NoStop, Leaving,
       ToFreerun, Settled, PoweredOff, OnlyStarted, TimerStops, Moves, request,
       flags, users, hardware, ControlInOrder, LeavesFor, MachineType, States,
       ResetIsNoted, StartExchange
<1>4. StallExchange'
  BY CommandFacts DEF StallExchange, Undisturbed, BroughtUp, NoStop, Leaving,
       Settled, PoweredOff, Commands, TimerStops, Moves, request, flags, users,
       hardware, ControlInOrder, LeavesFor, MachineType, States
<1>5. ResumeExchange'
  BY CommandFacts DEF ResumeExchange, Undisturbed, BroughtUp, NoStop, Leaving,
       Settled, Commands, TimerStops, Moves, request, flags, users, hardware,
       ControlInOrder, LeavesFor, MachineType, States, ServiceIsSettled,
       TakenAsAsked
<1>6. TakenAsAsked'
  <2>1. /\ \/ ctrl = "leaveEnd" /\ ctrl' = "enter" /\ cur' = next
           \/ ctrl = "enterEnd" /\ ctrl' = "idle" /\ cur' = cur
        /\ UNCHANGED <<next, pend, msg1, done, doneBit, owner, fail, core, cmd, ans>>
    BY DEF TimerStops, Moves, request, flags, users, hardware
  <2>2. /\ ctrl = "leaveEnd" =>
             cur' \in {"FREERUN", "NETSTOP", "SHUTDOWN", "ABNORMAL"} /\ ~BroughtUp
        /\ ctrl = "enterEnd" => cur \in {"INIT", "STALL", "RESET"}
    BY <2>1 DEF ControlInOrder, LeavesFor, AwaitsItsAnswer, BroughtUp
  <2>3. CASE ctrl = "leaveEnd" /\ next = "FREERUN"
    BY <2>1, <2>2, <2>3
       DEF TakenAsAsked, Undisturbed, NoStop, Leaving, BroughtUp, ToFreerun, PoweredOff
  <2>4. CASE ctrl = "leaveEnd" /\ next # "FREERUN"
    BY <2>1, <2>2, <2>4 DEF TakenAsAsked, ToFreerun, Leaving
  <2>5. CASE ctrl = "enterEnd"
    <3>1. Undisturbed' => Undisturbed
      BY <2>1, <2>5 DEF Undisturbed, NoStop, Leaving, BroughtUp
    <3> QED
      BY <2>1, <2>2, <2>5, <3>1 DEF TakenAsAsked, ToFreerun, Leaving
  <2> QED
    BY <2>1, <2>3, <2>4, <2>5
<1>7. StallHolds'
  BY CommandFacts, GrantedFacts DEF StallHolds, Undisturbed, BroughtUp, NoStop,
       Leaving, Granted, Settled, TimerStops, Moves, request, flags, users,
       hardware, ControlInOrder, LeavesFor, MachineType, States
<1> QED
  BY <1>1, <1>2, <1>3, <1>4, <1>5, <1>6, <1>7

---------------------------------------------------------------------------------
(* The users of the machine                                                     *)

LEMMA StallCalledStalls ==
  ASSUME IInv, FreezeInv, StallInv, IInv', FreezeInv', StallCalled
  PROVE  StallInv'
<1> USE DEF IInv, TypeOK, FreezeInv, StallInv
<1>1. StartExchange'
  BY UserFacts DEF StartExchange, OnlyStarted, PoweredOff, NoStop, Leaving,
       BroughtUp, StallCalled, Goes, machine, request, flags, hardware, LockHeld,
       Holding, UsersType
<1>2. StartedIsSettled'
  BY UserFacts DEF StartedIsSettled, StartExchange, BroughtUp, NoStop, Leaving,
       ToFreerun, Settled, PoweredOff, OnlyStarted, StallCalled, Goes, machine,
       request, flags, hardware, LockHeld, Holding, UsersType
<1>3. ServiceIsSettled'
  BY UserFacts DEF ServiceIsSettled, Undisturbed, BroughtUp, NoStop, Leaving,
       ToFreerun, Settled, PoweredOff, OnlyStarted, StallCalled, Goes, machine,
       request, flags, hardware, LockHeld, Holding, UsersType
<1>4. StallExchange'
  BY UserFacts DEF StallExchange, Undisturbed, BroughtUp, NoStop, Leaving, Settled,
       PoweredOff, Commands, StallCalled, Goes, machine, request, flags, hardware,
       LockHeld, Holding, UsersType
<1>5. ResumeExchange'
  BY UserFacts DEF ResumeExchange, Undisturbed, BroughtUp, NoStop, Leaving, Settled,
       Commands, StallCalled, Goes, machine, request, flags, hardware, LockHeld,
       Holding, UsersType
<1>6. TakenAsAsked'
  BY UserFacts DEF TakenAsAsked, Undisturbed, BroughtUp, NoStop, Leaving, ToFreerun,
       PoweredOff, ResetIsNoted, StallCalled, Goes, machine, request, flags,
       hardware, LockHeld, Holding, UsersType
<1>7. StallHolds'
  BY UserFacts DEF StallHolds, Undisturbed, BroughtUp, NoStop, Leaving, Granted,
       Settled, StallCalled, Goes, machine, request, flags, hardware, LockHeld,
       Holding, UsersType
<1> QED
  BY <1>1, <1>2, <1>3, <1>4, <1>5, <1>6, <1>7

LEMMA BootAsksStalls ==
  ASSUME IInv, FreezeInv, StallInv, IInv', FreezeInv', BootAsks
  PROVE  StallInv'
<1> USE DEF IInv, TypeOK, FreezeInv, StallInv
<1>1. StartExchange'
  BY UserFacts DEF StartExchange, OnlyStarted, PoweredOff, NoStop, Leaving,
       BroughtUp, BootAsks, Lock, Issue, WaitsAt, Goes, request, flags, hardware,
       LockHeld, Holding, UsersType
<1>2. StartedIsSettled'
  BY UserFacts DEF StartedIsSettled, StartExchange, BroughtUp, NoStop, Leaving,
       ToFreerun, Settled, PoweredOff, OnlyStarted, BootAsks, Lock, Issue, WaitsAt,
       Goes, request, flags, hardware, LockHeld, Holding, UsersType
<1>3. ServiceIsSettled'
  BY UserFacts DEF ServiceIsSettled, Undisturbed, BroughtUp, NoStop, Leaving,
       ToFreerun, Settled, PoweredOff, OnlyStarted, BootAsks, Lock, Issue, WaitsAt,
       Goes, request, flags, hardware, LockHeld, Holding, UsersType
<1>4. StallExchange'
  BY UserFacts DEF StallExchange, Undisturbed, BroughtUp, NoStop, Leaving, Settled,
       PoweredOff, Commands, BootAsks, Lock, Issue, WaitsAt, Goes, request, flags,
       hardware, LockHeld, Holding, UsersType
<1>5. ResumeExchange'
  BY UserFacts DEF ResumeExchange, Undisturbed, BroughtUp, NoStop, Leaving, Settled,
       Commands, BootAsks, Lock, Issue, WaitsAt, Goes, request, flags, hardware,
       LockHeld, Holding, UsersType
<1>6. TakenAsAsked'
  BY UserFacts DEF TakenAsAsked, Undisturbed, BroughtUp, NoStop, Leaving, ToFreerun,
       PoweredOff, ResetIsNoted, BootAsks, Lock, Issue, WaitsAt, Goes, request,
       flags, hardware, LockHeld, Holding, UsersType
<1>7. StallHolds'
  BY UserFacts DEF StallHolds, Undisturbed, BroughtUp, NoStop, Leaving, Granted,
       Settled, BootAsks, Lock, Issue, WaitsAt, Goes, request, flags, hardware,
       LockHeld, Holding, UsersType
<1> QED
  BY <1>1, <1>2, <1>3, <1>4, <1>5, <1>6, <1>7

LEMMA BootEndsStalls ==
  ASSUME IInv, FreezeInv, StallInv, IInv', FreezeInv', BootEnds
  PROVE  StallInv'
<1> USE DEF IInv, TypeOK, FreezeInv, StallInv
<1>1. StartExchange'
  BY UserFacts DEF StartExchange, OnlyStarted, PoweredOff, NoStop, Leaving,
       BroughtUp, BootEnds, WaitOver, IsComplete, Awaited, Unlock, Goes, machine,
       request, flags, hardware, LockHeld, Holding, UsersType
<1>2. StartedIsSettled'
  BY UserFacts DEF StartedIsSettled, StartExchange, BroughtUp, NoStop, Leaving,
       ToFreerun, Settled, PoweredOff, OnlyStarted, BootEnds, WaitOver, IsComplete,
       Awaited, Unlock, Goes, machine, request, flags, hardware, LockHeld, Holding,
       UsersType
<1>3. ServiceIsSettled'
  BY UserFacts DEF ServiceIsSettled, Undisturbed, BroughtUp, NoStop, Leaving,
       ToFreerun, Settled, PoweredOff, OnlyStarted, BootEnds, WaitOver, IsComplete,
       Awaited, Unlock, Goes, machine, request, flags, hardware, LockHeld, Holding,
       UsersType
<1>4. StallExchange'
  BY UserFacts DEF StallExchange, Undisturbed, BroughtUp, NoStop, Leaving, Settled,
       PoweredOff, Commands, BootEnds, WaitOver, IsComplete, Awaited, Unlock, Goes,
       machine, request, flags, hardware, LockHeld, Holding, UsersType
<1>5. ResumeExchange'
  BY UserFacts DEF ResumeExchange, Undisturbed, BroughtUp, NoStop, Leaving, Settled,
       Commands, BootEnds, WaitOver, IsComplete, Awaited, Unlock, Goes, machine,
       request, flags, hardware, LockHeld, Holding, UsersType
<1>6. TakenAsAsked'
  BY UserFacts DEF TakenAsAsked, Undisturbed, BroughtUp, NoStop, Leaving, ToFreerun,
       PoweredOff, ResetIsNoted, BootEnds, WaitOver, IsComplete, Awaited, Unlock,
       Goes, machine, request, flags, hardware, LockHeld, Holding, UsersType
<1>7. StallHolds'
  BY UserFacts DEF StallHolds, Undisturbed, BroughtUp, NoStop, Leaving, Granted,
       Settled, BootEnds, WaitOver, IsComplete, Awaited, Unlock, Goes, machine,
       request, flags, hardware, LockHeld, Holding, UsersType
<1> QED
  BY <1>1, <1>2, <1>3, <1>4, <1>5, <1>6, <1>7

LEMMA BootFailsStalls ==
  ASSUME IInv, FreezeInv, StallInv, IInv', FreezeInv', BootFails
  PROVE  StallInv'
<1> USE DEF IInv, TypeOK, FreezeInv, StallInv
<1>1. StartExchange'
  BY UserFacts DEF StartExchange, OnlyStarted, PoweredOff, NoStop, Leaving,
       BroughtUp, BootFails, GivesUp, WaitFailed, Unlock, Goes, machine, request,
       flags, hardware, LockHeld, Holding, UsersType
<1>2. StartedIsSettled'
  BY UserFacts DEF StartedIsSettled, StartExchange, BroughtUp, NoStop, Leaving,
       ToFreerun, Settled, PoweredOff, OnlyStarted, BootFails, GivesUp, WaitFailed,
       Unlock, Goes, machine, request, flags, hardware, LockHeld, Holding, UsersType
<1>3. ServiceIsSettled'
  BY UserFacts DEF ServiceIsSettled, Undisturbed, BroughtUp, NoStop, Leaving,
       ToFreerun, Settled, PoweredOff, OnlyStarted, BootFails, GivesUp, WaitFailed,
       Unlock, Goes, machine, request, flags, hardware, LockHeld, Holding, UsersType
<1>4. StallExchange'
  BY UserFacts DEF StallExchange, Undisturbed, BroughtUp, NoStop, Leaving, Settled,
       PoweredOff, Commands, BootFails, GivesUp, WaitFailed, Unlock, Goes, machine,
       request, flags, hardware, LockHeld, Holding, UsersType
<1>5. ResumeExchange'
  BY UserFacts DEF ResumeExchange, Undisturbed, BroughtUp, NoStop, Leaving, Settled,
       Commands, BootFails, GivesUp, WaitFailed, Unlock, Goes, machine, request,
       flags, hardware, LockHeld, Holding, UsersType
<1>6. TakenAsAsked'
  BY UserFacts DEF TakenAsAsked, Undisturbed, BroughtUp, NoStop, Leaving, ToFreerun,
       PoweredOff, ResetIsNoted, BootFails, GivesUp, WaitFailed, Unlock, Goes,
       machine, request, flags, hardware, LockHeld, Holding, UsersType
<1>7. StallHolds'
  BY UserFacts DEF StallHolds, Undisturbed, BroughtUp, NoStop, Leaving, Granted,
       Settled, BootFails, GivesUp, WaitFailed, Unlock, Goes, machine, request,
       flags, hardware, LockHeld, Holding, UsersType
<1> QED
  BY <1>1, <1>2, <1>3, <1>4, <1>5, <1>6, <1>7

LEMMA StallAsksStalls ==
  ASSUME IInv, FreezeInv, StallInv, IInv', FreezeInv', StallAsks
  PROVE  StallInv'
<1> USE DEF IInv, TypeOK, FreezeInv, StallInv
<1>1. StartExchange'
  BY UserFacts DEF StartExchange, OnlyStarted, PoweredOff, NoStop, Leaving,
       BroughtUp, StallAsks, Lock, Prepare, Issue, WaitsAt, Goes, flags, hardware,
       LockHeld, Holding, UsersType
<1>2. StartedIsSettled'
  BY UserFacts DEF StartedIsSettled, StartExchange, BroughtUp, NoStop, Leaving,
       ToFreerun, Settled, PoweredOff, OnlyStarted, StallAsks, Lock, Prepare, Issue,
       WaitsAt, Goes, flags, hardware, LockHeld, Holding, UsersType
<1>3. ServiceIsSettled'
  BY UserFacts DEF ServiceIsSettled, Undisturbed, BroughtUp, NoStop, Leaving,
       ToFreerun, Settled, PoweredOff, OnlyStarted, StallAsks, Lock, Prepare, Issue,
       WaitsAt, Goes, flags, hardware, LockHeld, Holding, UsersType
<1>4. StallExchange'
  BY UserFacts DEF StallExchange, Undisturbed, BroughtUp, NoStop, Leaving, Settled,
       PoweredOff, Commands, StallAsks, Lock, Prepare, Issue, WaitsAt, Goes, flags,
       hardware, LockHeld, Holding, UsersType
<1>5. ResumeExchange'
  BY UserFacts DEF ResumeExchange, Undisturbed, BroughtUp, NoStop, Leaving, Settled,
       Commands, StallAsks, Lock, Prepare, Issue, WaitsAt, Goes, flags, hardware,
       LockHeld, Holding, UsersType
<1>6. TakenAsAsked'
  BY UserFacts DEF TakenAsAsked, Undisturbed, BroughtUp, NoStop, Leaving, ToFreerun,
       PoweredOff, ResetIsNoted, StallAsks, Lock, Prepare, Issue, WaitsAt, Goes,
       flags, hardware, LockHeld, Holding, UsersType
<1>7. StallHolds'
  BY UserFacts DEF StallHolds, Undisturbed, BroughtUp, NoStop, Leaving, Granted,
       Settled, StallAsks, Lock, Prepare, Issue, WaitsAt, Goes, flags, hardware,
       LockHeld, Holding, UsersType
<1> QED
  BY <1>1, <1>2, <1>3, <1>4, <1>5, <1>6, <1>7

LEMMA StallGrantedStalls ==
  ASSUME IInv, FreezeInv, StallInv, IInv', FreezeInv', StallGranted
  PROVE  StallInv'
<1> USE DEF IInv, TypeOK, FreezeInv, StallInv
<1>1. StartExchange'
  BY UserFacts DEF StartExchange, OnlyStarted, PoweredOff, NoStop, Leaving,
       BroughtUp, StallGranted, WaitOver, IsComplete, Awaited, Goes, machine,
       request, flags, hardware, LockHeld, Holding, UsersType
<1>2. StartedIsSettled'
  BY UserFacts DEF StartedIsSettled, StartExchange, BroughtUp, NoStop, Leaving,
       ToFreerun, Settled, PoweredOff, OnlyStarted, StallGranted, WaitOver,
       IsComplete, Awaited, Goes, machine, request, flags, hardware, LockHeld,
       Holding, UsersType
<1>3. ServiceIsSettled'
  BY UserFacts DEF ServiceIsSettled, Undisturbed, BroughtUp, NoStop, Leaving,
       ToFreerun, Settled, PoweredOff, OnlyStarted, StallGranted, WaitOver,
       IsComplete, Awaited, Goes, machine, request, flags, hardware, LockHeld,
       Holding, UsersType
<1>4. StallExchange'
  BY UserFacts DEF StallExchange, Undisturbed, BroughtUp, NoStop, Leaving, Settled,
       PoweredOff, Commands, StallGranted, WaitOver, IsComplete, Awaited, Goes,
       machine, request, flags, hardware, LockHeld, Holding, UsersType
<1>5. ResumeExchange'
  BY UserFacts DEF ResumeExchange, Undisturbed, BroughtUp, NoStop, Leaving, Settled,
       Commands, StallGranted, WaitOver, IsComplete, Awaited, Goes, machine,
       request, flags, hardware, LockHeld, Holding, UsersType
<1>6. TakenAsAsked'
  BY UserFacts DEF TakenAsAsked, Undisturbed, BroughtUp, NoStop, Leaving, ToFreerun,
       PoweredOff, ResetIsNoted, StallGranted, WaitOver, IsComplete, Awaited, Goes,
       machine, request, flags, hardware, LockHeld, Holding, UsersType
<1>7. StallHolds'
  BY UserFacts DEF StallHolds, Undisturbed, BroughtUp, NoStop, Leaving, Granted,
       Settled, StallGranted, WaitOver, IsComplete, Awaited, Goes, machine, request,
       flags, hardware, LockHeld, Holding, UsersType
<1> QED
  BY <1>1, <1>2, <1>3, <1>4, <1>5, <1>6, <1>7

LEMMA StallEndsStalls ==
  ASSUME IInv, FreezeInv, StallInv, IInv', FreezeInv', StallEnds
  PROVE  StallInv'
<1> USE DEF IInv, TypeOK, FreezeInv, StallInv
<1>1. StartExchange'
  BY UserFacts DEF StartExchange, OnlyStarted, PoweredOff, NoStop, Leaving,
       BroughtUp, StallEnds, Prepare, Issue, WaitsAt, Goes, flags, hardware,
       LockHeld, Holding, UsersType
<1>2. StartedIsSettled'
  BY UserFacts DEF StartedIsSettled, StartExchange, BroughtUp, NoStop, Leaving,
       ToFreerun, Settled, PoweredOff, OnlyStarted, StallEnds, Prepare, Issue,
       WaitsAt, Goes, flags, hardware, LockHeld, Holding, UsersType
<1>3. ServiceIsSettled'
  BY UserFacts DEF ServiceIsSettled, Undisturbed, BroughtUp, NoStop, Leaving,
       ToFreerun, Settled, PoweredOff, OnlyStarted, StallEnds, Prepare, Issue,
       WaitsAt, Goes, flags, hardware, LockHeld, Holding, UsersType
<1>4. StallExchange'
  BY UserFacts DEF StallExchange, Undisturbed, BroughtUp, NoStop, Leaving, Settled,
       PoweredOff, Commands, StallEnds, Prepare, Issue, WaitsAt, Goes, flags,
       hardware, LockHeld, Holding, UsersType
<1>5. ResumeExchange'
  BY UserFacts DEF ResumeExchange, Undisturbed, BroughtUp, NoStop, Leaving, Settled,
       Commands, StallEnds, Prepare, Issue, WaitsAt, Goes, flags, hardware,
       LockHeld, Holding, UsersType
<1>6. TakenAsAsked'
  BY UserFacts, CoresAssumption DEF TakenAsAsked, Undisturbed, BroughtUp, NoStop,
       Leaving, ToFreerun, PoweredOff, ResetIsNoted, StallEnds, Prepare, Issue,
       WaitsAt, Goes, flags, hardware, LockHeld, Holding, UsersType, StallHolds,
       Granted
<1>7. StallHolds'
  BY UserFacts DEF StallHolds, Undisturbed, BroughtUp, NoStop, Leaving, Granted,
       Settled, StallEnds, Prepare, Issue, WaitsAt, Goes, flags, hardware, LockHeld,
       Holding, UsersType
<1> QED
  BY <1>1, <1>2, <1>3, <1>4, <1>5, <1>6, <1>7

LEMMA StallServedStalls ==
  ASSUME IInv, FreezeInv, StallInv, IInv', FreezeInv', StallServed
  PROVE  StallInv'
<1> USE DEF IInv, TypeOK, FreezeInv, StallInv
<1>1. StartExchange'
  BY UserFacts DEF StartExchange, OnlyStarted, PoweredOff, NoStop, Leaving,
       BroughtUp, StallServed, WaitOver, IsComplete, Awaited, Unlock, Goes, machine,
       request, flags, hardware, LockHeld, Holding, UsersType
<1>2. StartedIsSettled'
  BY UserFacts DEF StartedIsSettled, StartExchange, BroughtUp, NoStop, Leaving,
       ToFreerun, Settled, PoweredOff, OnlyStarted, StallServed, WaitOver,
       IsComplete, Awaited, Unlock, Goes, machine, request, flags, hardware,
       LockHeld, Holding, UsersType
<1>3. ServiceIsSettled'
  BY UserFacts DEF ServiceIsSettled, Undisturbed, BroughtUp, NoStop, Leaving,
       ToFreerun, Settled, PoweredOff, OnlyStarted, StallServed, WaitOver,
       IsComplete, Awaited, Unlock, Goes, machine, request, flags, hardware,
       LockHeld, Holding, UsersType
<1>4. StallExchange'
  BY UserFacts DEF StallExchange, Undisturbed, BroughtUp, NoStop, Leaving, Settled,
       PoweredOff, Commands, StallServed, WaitOver, IsComplete, Awaited, Unlock,
       Goes, machine, request, flags, hardware, LockHeld, Holding, UsersType
<1>5. ResumeExchange'
  BY UserFacts DEF ResumeExchange, Undisturbed, BroughtUp, NoStop, Leaving, Settled,
       Commands, StallServed, WaitOver, IsComplete, Awaited, Unlock, Goes, machine,
       request, flags, hardware, LockHeld, Holding, UsersType
<1>6. TakenAsAsked'
  BY UserFacts DEF TakenAsAsked, Undisturbed, BroughtUp, NoStop, Leaving, ToFreerun,
       PoweredOff, ResetIsNoted, StallServed, WaitOver, IsComplete, Awaited, Unlock,
       Goes, machine, request, flags, hardware, LockHeld, Holding, UsersType
<1>7. StallHolds'
  BY UserFacts DEF StallHolds, Undisturbed, BroughtUp, NoStop, Leaving, Granted,
       Settled, StallServed, WaitOver, IsComplete, Awaited, Unlock, Goes, machine,
       request, flags, hardware, LockHeld, Holding, UsersType
<1> QED
  BY <1>1, <1>2, <1>3, <1>4, <1>5, <1>6, <1>7

LEMMA StallFailsStalls ==
  ASSUME IInv, FreezeInv, StallInv, IInv', FreezeInv', StallFails
  PROVE  StallInv'
<1> USE DEF IInv, TypeOK, FreezeInv, StallInv
<1>1. StartExchange'
  BY UserFacts DEF StartExchange, OnlyStarted, PoweredOff, NoStop, Leaving,
       BroughtUp, StallFails, GivesUp, WaitFailed, Unlock, Goes, machine, request,
       flags, hardware, LockHeld, Holding, UsersType
<1>2. StartedIsSettled'
  BY UserFacts DEF StartedIsSettled, StartExchange, BroughtUp, NoStop, Leaving,
       ToFreerun, Settled, PoweredOff, OnlyStarted, StallFails, GivesUp, WaitFailed,
       Unlock, Goes, machine, request, flags, hardware, LockHeld, Holding, UsersType
<1>3. ServiceIsSettled'
  BY UserFacts DEF ServiceIsSettled, Undisturbed, BroughtUp, NoStop, Leaving,
       ToFreerun, Settled, PoweredOff, OnlyStarted, StallFails, GivesUp, WaitFailed,
       Unlock, Goes, machine, request, flags, hardware, LockHeld, Holding, UsersType
<1>4. StallExchange'
  BY UserFacts DEF StallExchange, Undisturbed, BroughtUp, NoStop, Leaving, Settled,
       PoweredOff, Commands, StallFails, GivesUp, WaitFailed, Unlock, Goes, machine,
       request, flags, hardware, LockHeld, Holding, UsersType
<1>5. ResumeExchange'
  BY UserFacts DEF ResumeExchange, Undisturbed, BroughtUp, NoStop, Leaving, Settled,
       Commands, StallFails, GivesUp, WaitFailed, Unlock, Goes, machine, request,
       flags, hardware, LockHeld, Holding, UsersType
<1>6. TakenAsAsked'
  BY UserFacts DEF TakenAsAsked, Undisturbed, BroughtUp, NoStop, Leaving, ToFreerun,
       PoweredOff, ResetIsNoted, StallFails, GivesUp, WaitFailed, Unlock, Goes,
       machine, request, flags, hardware, LockHeld, Holding, UsersType
<1>7. StallHolds'
  BY UserFacts DEF StallHolds, Undisturbed, BroughtUp, NoStop, Leaving, Granted,
       Settled, StallFails, GivesUp, WaitFailed, Unlock, Goes, machine, request,
       flags, hardware, LockHeld, Holding, UsersType
<1> QED
  BY <1>1, <1>2, <1>3, <1>4, <1>5, <1>6, <1>7

LEMMA ResetAsksStalls ==
  ASSUME IInv, FreezeInv, StallInv, IInv', FreezeInv', ResetAsks
  PROVE  StallInv'
<1> USE DEF IInv, TypeOK, FreezeInv, StallInv
<1>1. StartExchange'
  BY UserFacts DEF StartExchange, OnlyStarted, PoweredOff, NoStop, Leaving,
       BroughtUp, ResetAsks, Lock, Prepare, Issue, WaitsAt, Goes, hardware,
       LockHeld, Holding, UsersType
<1>2. StartedIsSettled'
  BY UserFacts DEF StartedIsSettled, StartExchange, BroughtUp, NoStop, Leaving,
       ToFreerun, Settled, PoweredOff, OnlyStarted, ResetAsks, Lock, Prepare, Issue,
       WaitsAt, Goes, hardware, LockHeld, Holding, UsersType
<1>3. ServiceIsSettled'
  BY UserFacts DEF ServiceIsSettled, Undisturbed, BroughtUp, NoStop, Leaving,
       ToFreerun, Settled, PoweredOff, OnlyStarted, ResetAsks, Lock, Prepare, Issue,
       WaitsAt, Goes, hardware, LockHeld, Holding, UsersType
<1>4. StallExchange'
  BY UserFacts DEF StallExchange, Undisturbed, BroughtUp, NoStop, Leaving, Settled,
       PoweredOff, Commands, ResetAsks, Lock, Prepare, Issue, WaitsAt, Goes,
       hardware, LockHeld, Holding, UsersType
<1>5. ResumeExchange'
  BY UserFacts DEF ResumeExchange, Undisturbed, BroughtUp, NoStop, Leaving, Settled,
       Commands, ResetAsks, Lock, Prepare, Issue, WaitsAt, Goes, hardware, LockHeld,
       Holding, UsersType
<1>6. TakenAsAsked'
  BY UserFacts DEF TakenAsAsked, Undisturbed, BroughtUp, NoStop, Leaving, ToFreerun,
       PoweredOff, ResetIsNoted, ResetAsks, Lock, Prepare, Issue, WaitsAt, Goes,
       hardware, LockHeld, Holding, UsersType
<1>7. StallHolds'
  BY UserFacts DEF StallHolds, Undisturbed, BroughtUp, NoStop, Leaving, Granted,
       Settled, ResetAsks, Lock, Prepare, Issue, WaitsAt, Goes, hardware, LockHeld,
       Holding, UsersType
<1> QED
  BY <1>1, <1>2, <1>3, <1>4, <1>5, <1>6, <1>7

LEMMA ResetGrantedStalls ==
  ASSUME IInv, FreezeInv, StallInv, IInv', FreezeInv', ResetGranted
  PROVE  StallInv'
<1> USE DEF IInv, TypeOK, FreezeInv, StallInv
<1>1. StartExchange'
  BY UserFacts DEF StartExchange, OnlyStarted, PoweredOff, NoStop, Leaving,
       BroughtUp, ResetGranted, WaitOver, IsComplete, Awaited, Goes, machine,
       request, flags, hardware, LockHeld, Holding, UsersType
<1>2. StartedIsSettled'
  BY UserFacts DEF StartedIsSettled, StartExchange, BroughtUp, NoStop, Leaving,
       ToFreerun, Settled, PoweredOff, OnlyStarted, ResetGranted, WaitOver,
       IsComplete, Awaited, Goes, machine, request, flags, hardware, LockHeld,
       Holding, UsersType
<1>3. ServiceIsSettled'
  BY UserFacts DEF ServiceIsSettled, Undisturbed, BroughtUp, NoStop, Leaving,
       ToFreerun, Settled, PoweredOff, OnlyStarted, ResetGranted, WaitOver,
       IsComplete, Awaited, Goes, machine, request, flags, hardware, LockHeld,
       Holding, UsersType
<1>4. StallExchange'
  BY UserFacts DEF StallExchange, Undisturbed, BroughtUp, NoStop, Leaving, Settled,
       PoweredOff, Commands, ResetGranted, WaitOver, IsComplete, Awaited, Goes,
       machine, request, flags, hardware, LockHeld, Holding, UsersType
<1>5. ResumeExchange'
  BY UserFacts DEF ResumeExchange, Undisturbed, BroughtUp, NoStop, Leaving, Settled,
       Commands, ResetGranted, WaitOver, IsComplete, Awaited, Goes, machine,
       request, flags, hardware, LockHeld, Holding, UsersType
<1>6. TakenAsAsked'
  BY UserFacts DEF TakenAsAsked, Undisturbed, BroughtUp, NoStop, Leaving, ToFreerun,
       PoweredOff, ResetIsNoted, ResetGranted, WaitOver, IsComplete, Awaited, Goes,
       machine, request, flags, hardware, LockHeld, Holding, UsersType
<1>7. StallHolds'
  BY UserFacts DEF StallHolds, Undisturbed, BroughtUp, NoStop, Leaving, Granted,
       Settled, ResetGranted, WaitOver, IsComplete, Awaited, Goes, machine, request,
       flags, hardware, LockHeld, Holding, UsersType
<1> QED
  BY <1>1, <1>2, <1>3, <1>4, <1>5, <1>6, <1>7

LEMMA ResetRestartsStalls ==
  ASSUME IInv, FreezeInv, StallInv, IInv', FreezeInv', ResetRestarts
  PROVE  StallInv'
<1> USE DEF IInv, TypeOK, FreezeInv, StallInv
<1>1. StartExchange'
  BY UserFacts DEF StartExchange, OnlyStarted, PoweredOff, NoStop, Leaving,
       BroughtUp, ResetRestarts, Issue, WaitsAt, Goes, request, flags, hardware,
       LockHeld, Holding, UsersType
<1>2. StartedIsSettled'
  BY UserFacts DEF StartedIsSettled, StartExchange, BroughtUp, NoStop, Leaving,
       ToFreerun, Settled, PoweredOff, OnlyStarted, ResetRestarts, Issue, WaitsAt,
       Goes, request, flags, hardware, LockHeld, Holding, UsersType
<1>3. ServiceIsSettled'
  BY UserFacts DEF ServiceIsSettled, Undisturbed, BroughtUp, NoStop, Leaving,
       ToFreerun, Settled, PoweredOff, OnlyStarted, ResetRestarts, Issue, WaitsAt,
       Goes, request, flags, hardware, LockHeld, Holding, UsersType
<1>4. StallExchange'
  BY UserFacts DEF StallExchange, Undisturbed, BroughtUp, NoStop, Leaving, Settled,
       PoweredOff, Commands, ResetRestarts, Issue, WaitsAt, Goes, request, flags,
       hardware, LockHeld, Holding, UsersType
<1>5. ResumeExchange'
  BY UserFacts DEF ResumeExchange, Undisturbed, BroughtUp, NoStop, Leaving, Settled,
       Commands, ResetRestarts, Issue, WaitsAt, Goes, request, flags, hardware,
       LockHeld, Holding, UsersType
<1>6. TakenAsAsked'
  BY UserFacts DEF TakenAsAsked, Undisturbed, BroughtUp, NoStop, Leaving, ToFreerun,
       PoweredOff, ResetIsNoted, ResetRestarts, Issue, WaitsAt, Goes, request,
       flags, hardware, LockHeld, Holding, UsersType
<1>7. StallHolds'
  BY UserFacts DEF StallHolds, Undisturbed, BroughtUp, NoStop, Leaving, Granted,
       Settled, ResetRestarts, Issue, WaitsAt, Goes, request, flags, hardware,
       LockHeld, Holding, UsersType
<1> QED
  BY <1>1, <1>2, <1>3, <1>4, <1>5, <1>6, <1>7

LEMMA ResetServedStalls ==
  ASSUME IInv, FreezeInv, StallInv, IInv', FreezeInv', ResetServed
  PROVE  StallInv'
<1> USE DEF IInv, TypeOK, FreezeInv, StallInv
<1>1. StartExchange'
  BY UserFacts DEF StartExchange, OnlyStarted, PoweredOff, NoStop, Leaving,
       BroughtUp, ResetServed, WaitOver, IsComplete, Awaited, Unlock, Goes, machine,
       request, flags, hardware, LockHeld, Holding, UsersType
<1>2. StartedIsSettled'
  BY UserFacts DEF StartedIsSettled, StartExchange, BroughtUp, NoStop, Leaving,
       ToFreerun, Settled, PoweredOff, OnlyStarted, ResetServed, WaitOver,
       IsComplete, Awaited, Unlock, Goes, machine, request, flags, hardware,
       LockHeld, Holding, UsersType
<1>3. ServiceIsSettled'
  BY UserFacts DEF ServiceIsSettled, Undisturbed, BroughtUp, NoStop, Leaving,
       ToFreerun, Settled, PoweredOff, OnlyStarted, ResetServed, WaitOver,
       IsComplete, Awaited, Unlock, Goes, machine, request, flags, hardware,
       LockHeld, Holding, UsersType
<1>4. StallExchange'
  BY UserFacts DEF StallExchange, Undisturbed, BroughtUp, NoStop, Leaving, Settled,
       PoweredOff, Commands, ResetServed, WaitOver, IsComplete, Awaited, Unlock,
       Goes, machine, request, flags, hardware, LockHeld, Holding, UsersType
<1>5. ResumeExchange'
  BY UserFacts DEF ResumeExchange, Undisturbed, BroughtUp, NoStop, Leaving, Settled,
       Commands, ResetServed, WaitOver, IsComplete, Awaited, Unlock, Goes, machine,
       request, flags, hardware, LockHeld, Holding, UsersType
<1>6. TakenAsAsked'
  BY UserFacts DEF TakenAsAsked, Undisturbed, BroughtUp, NoStop, Leaving, ToFreerun,
       PoweredOff, ResetIsNoted, ResetServed, WaitOver, IsComplete, Awaited, Unlock,
       Goes, machine, request, flags, hardware, LockHeld, Holding, UsersType
<1>7. StallHolds'
  BY UserFacts DEF StallHolds, Undisturbed, BroughtUp, NoStop, Leaving, Granted,
       Settled, ResetServed, WaitOver, IsComplete, Awaited, Unlock, Goes, machine,
       request, flags, hardware, LockHeld, Holding, UsersType
<1> QED
  BY <1>1, <1>2, <1>3, <1>4, <1>5, <1>6, <1>7

LEMMA ResetFailsStalls ==
  ASSUME IInv, FreezeInv, StallInv, IInv', FreezeInv', ResetFails
  PROVE  StallInv'
<1> USE DEF IInv, TypeOK, FreezeInv, StallInv
<1>1. StartExchange'
  BY UserFacts DEF StartExchange, OnlyStarted, PoweredOff, NoStop, Leaving,
       BroughtUp, ResetFails, GivesUp, WaitFailed, Unlock, Goes, machine, request,
       flags, hardware, LockHeld, Holding, UsersType
<1>2. StartedIsSettled'
  BY UserFacts DEF StartedIsSettled, StartExchange, BroughtUp, NoStop, Leaving,
       ToFreerun, Settled, PoweredOff, OnlyStarted, ResetFails, GivesUp, WaitFailed,
       Unlock, Goes, machine, request, flags, hardware, LockHeld, Holding, UsersType
<1>3. ServiceIsSettled'
  BY UserFacts DEF ServiceIsSettled, Undisturbed, BroughtUp, NoStop, Leaving,
       ToFreerun, Settled, PoweredOff, OnlyStarted, ResetFails, GivesUp, WaitFailed,
       Unlock, Goes, machine, request, flags, hardware, LockHeld, Holding, UsersType
<1>4. StallExchange'
  BY UserFacts DEF StallExchange, Undisturbed, BroughtUp, NoStop, Leaving, Settled,
       PoweredOff, Commands, ResetFails, GivesUp, WaitFailed, Unlock, Goes, machine,
       request, flags, hardware, LockHeld, Holding, UsersType
<1>5. ResumeExchange'
  BY UserFacts DEF ResumeExchange, Undisturbed, BroughtUp, NoStop, Leaving, Settled,
       Commands, ResetFails, GivesUp, WaitFailed, Unlock, Goes, machine, request,
       flags, hardware, LockHeld, Holding, UsersType
<1>6. TakenAsAsked'
  BY UserFacts DEF TakenAsAsked, Undisturbed, BroughtUp, NoStop, Leaving, ToFreerun,
       PoweredOff, ResetIsNoted, ResetFails, GivesUp, WaitFailed, Unlock, Goes,
       machine, request, flags, hardware, LockHeld, Holding, UsersType
<1>7. StallHolds'
  BY UserFacts DEF StallHolds, Undisturbed, BroughtUp, NoStop, Leaving, Granted,
       Settled, ResetFails, GivesUp, WaitFailed, Unlock, Goes, machine, request,
       flags, hardware, LockHeld, Holding, UsersType
<1> QED
  BY <1>1, <1>2, <1>3, <1>4, <1>5, <1>6, <1>7

LEMMA RecoverRunsStalls ==
  ASSUME IInv, FreezeInv, StallInv, IInv', FreezeInv', RecoverRuns
  PROVE  StallInv'
<1> USE DEF IInv, TypeOK, FreezeInv, StallInv
<1>1. StartExchange'
  BY UserFacts DEF StartExchange, OnlyStarted, PoweredOff, NoStop, Leaving,
       BroughtUp, RecoverRuns, Goes, machine, request, flags, hardware, LockHeld,
       Holding, UsersType
<1>2. StartedIsSettled'
  BY UserFacts DEF StartedIsSettled, StartExchange, BroughtUp, NoStop, Leaving,
       ToFreerun, Settled, PoweredOff, OnlyStarted, RecoverRuns, Goes, machine,
       request, flags, hardware, LockHeld, Holding, UsersType
<1>3. ServiceIsSettled'
  BY UserFacts DEF ServiceIsSettled, Undisturbed, BroughtUp, NoStop, Leaving,
       ToFreerun, Settled, PoweredOff, OnlyStarted, RecoverRuns, Goes, machine,
       request, flags, hardware, LockHeld, Holding, UsersType
<1>4. StallExchange'
  BY UserFacts DEF StallExchange, Undisturbed, BroughtUp, NoStop, Leaving, Settled,
       PoweredOff, Commands, RecoverRuns, Goes, machine, request, flags, hardware,
       LockHeld, Holding, UsersType
<1>5. ResumeExchange'
  BY UserFacts DEF ResumeExchange, Undisturbed, BroughtUp, NoStop, Leaving, Settled,
       Commands, RecoverRuns, Goes, machine, request, flags, hardware, LockHeld,
       Holding, UsersType
<1>6. TakenAsAsked'
  BY UserFacts DEF TakenAsAsked, Undisturbed, BroughtUp, NoStop, Leaving, ToFreerun,
       PoweredOff, ResetIsNoted, RecoverRuns, Goes, machine, request, flags,
       hardware, LockHeld, Holding, UsersType
<1>7. StallHolds'
  BY UserFacts DEF StallHolds, Undisturbed, BroughtUp, NoStop, Leaving, Granted,
       Settled, RecoverRuns, Goes, machine, request, flags, hardware, LockHeld,
       Holding, UsersType
<1> QED
  BY <1>1, <1>2, <1>3, <1>4, <1>5, <1>6, <1>7

LEMMA RecoverAsksStalls ==
  ASSUME IInv, FreezeInv, StallInv, IInv', FreezeInv', RecoverAsks
  PROVE  StallInv'
<1> USE DEF IInv, TypeOK, FreezeInv, StallInv
<1>1. StartExchange'
  BY UserFacts DEF StartExchange, OnlyStarted, PoweredOff, NoStop, Leaving,
       BroughtUp, RecoverAsks, Lock, Goes, request, flags, hardware, LockHeld,
       Holding, UsersType
<1>2. StartedIsSettled'
  BY UserFacts DEF StartedIsSettled, StartExchange, BroughtUp, NoStop, Leaving,
       ToFreerun, Settled, PoweredOff, OnlyStarted, RecoverAsks, Lock, Goes,
       request, flags, hardware, LockHeld, Holding, UsersType
<1>3. ServiceIsSettled'
  BY UserFacts DEF ServiceIsSettled, Undisturbed, BroughtUp, NoStop, Leaving,
       ToFreerun, Settled, PoweredOff, OnlyStarted, RecoverAsks, Lock, Goes,
       request, flags, hardware, LockHeld, Holding, UsersType
<1>4. StallExchange'
  BY UserFacts DEF StallExchange, Undisturbed, BroughtUp, NoStop, Leaving, Settled,
       PoweredOff, Commands, RecoverAsks, Lock, Goes, request, flags, hardware,
       LockHeld, Holding, UsersType
<1>5. ResumeExchange'
  BY UserFacts DEF ResumeExchange, Undisturbed, BroughtUp, NoStop, Leaving, Settled,
       Commands, RecoverAsks, Lock, Goes, request, flags, hardware, LockHeld,
       Holding, UsersType
<1>6. TakenAsAsked'
  BY UserFacts DEF TakenAsAsked, Undisturbed, BroughtUp, NoStop, Leaving, ToFreerun,
       PoweredOff, ResetIsNoted, RecoverAsks, Lock, Goes, request, flags, hardware,
       LockHeld, Holding, UsersType
<1>7. StallHolds'
  BY UserFacts DEF StallHolds, Undisturbed, BroughtUp, NoStop, Leaving, Granted,
       Settled, RecoverAsks, Lock, Goes, request, flags, hardware, LockHeld,
       Holding, UsersType
<1> QED
  BY <1>1, <1>2, <1>3, <1>4, <1>5, <1>6, <1>7

LEMMA RecoverClearsStalls ==
  ASSUME IInv, FreezeInv, StallInv, IInv', FreezeInv', RecoverClears
  PROVE  StallInv'
<1> USE DEF IInv, TypeOK, FreezeInv, StallInv
<1>1. StartExchange'
  BY UserFacts DEF StartExchange, OnlyStarted, PoweredOff, NoStop, Leaving,
       BroughtUp, RecoverClears, WaitsAt, Goes, machine, request, hardware,
       LockHeld, Holding, UsersType
<1>2. StartedIsSettled'
  BY UserFacts DEF StartedIsSettled, StartExchange, BroughtUp, NoStop, Leaving,
       ToFreerun, Settled, PoweredOff, OnlyStarted, RecoverClears, WaitsAt, Goes,
       machine, request, hardware, LockHeld, Holding, UsersType
<1>3. ServiceIsSettled'
  BY UserFacts DEF ServiceIsSettled, Undisturbed, BroughtUp, NoStop, Leaving,
       ToFreerun, Settled, PoweredOff, OnlyStarted, RecoverClears, WaitsAt, Goes,
       machine, request, hardware, LockHeld, Holding, UsersType, StartedIsSettled,
       StartExchange, NoStallLeftBehind, Stalling
<1>4. StallExchange'
  BY UserFacts DEF StallExchange, Undisturbed, BroughtUp, NoStop, Leaving, Settled,
       PoweredOff, Commands, RecoverClears, WaitsAt, Goes, machine, request,
       hardware, LockHeld, Holding, UsersType, StartedIsSettled, StartExchange,
       NoStallLeftBehind, Stalling, OnlyStarted, ToFreerun
<1>5. ResumeExchange'
  BY UserFacts DEF ResumeExchange, Undisturbed, BroughtUp, NoStop, Leaving, Settled,
       Commands, RecoverClears, WaitsAt, Goes, machine, request, hardware, LockHeld,
       Holding, UsersType, StartedIsSettled, StartExchange, NoStallLeftBehind,
       Stalling, OnlyStarted, ToFreerun, PoweredOff
<1>6. TakenAsAsked'
  BY UserFacts DEF TakenAsAsked, Undisturbed, BroughtUp, NoStop, Leaving, ToFreerun,
       PoweredOff, ResetIsNoted, RecoverClears, WaitsAt, Goes, machine, request,
       hardware, LockHeld, Holding, UsersType, StartedIsSettled, StartExchange,
       NoStallLeftBehind, Stalling, OnlyStarted, Settled
<1>7. StallHolds'
  BY UserFacts DEF StallHolds, Undisturbed, BroughtUp, NoStop, Leaving, Granted,
       Settled, RecoverClears, WaitsAt, Goes, machine, request, hardware, LockHeld,
       Holding, UsersType
<1> QED
  BY <1>1, <1>2, <1>3, <1>4, <1>5, <1>6, <1>7

LEMMA RecoverEndsStalls ==
  ASSUME IInv, FreezeInv, StallInv, IInv', FreezeInv', RecoverEnds
  PROVE  StallInv'
<1> USE DEF IInv, TypeOK, FreezeInv, StallInv
<1>1. StartExchange'
  BY UserFacts DEF StartExchange, OnlyStarted, PoweredOff, NoStop, Leaving,
       BroughtUp, RecoverEnds, WaitOver, IsComplete, Awaited, Unlock, Goes, machine,
       request, flags, hardware, LockHeld, Holding, UsersType
<1>2. StartedIsSettled'
  BY UserFacts DEF StartedIsSettled, StartExchange, BroughtUp, NoStop, Leaving,
       ToFreerun, Settled, PoweredOff, OnlyStarted, RecoverEnds, WaitOver,
       IsComplete, Awaited, Unlock, Goes, machine, request, flags, hardware,
       LockHeld, Holding, UsersType
<1>3. ServiceIsSettled'
  BY UserFacts DEF ServiceIsSettled, Undisturbed, BroughtUp, NoStop, Leaving,
       ToFreerun, Settled, PoweredOff, OnlyStarted, RecoverEnds, WaitOver,
       IsComplete, Awaited, Unlock, Goes, machine, request, flags, hardware,
       LockHeld, Holding, UsersType
<1>4. StallExchange'
  BY UserFacts DEF StallExchange, Undisturbed, BroughtUp, NoStop, Leaving, Settled,
       PoweredOff, Commands, RecoverEnds, WaitOver, IsComplete, Awaited, Unlock,
       Goes, machine, request, flags, hardware, LockHeld, Holding, UsersType
<1>5. ResumeExchange'
  BY UserFacts DEF ResumeExchange, Undisturbed, BroughtUp, NoStop, Leaving, Settled,
       Commands, RecoverEnds, WaitOver, IsComplete, Awaited, Unlock, Goes, machine,
       request, flags, hardware, LockHeld, Holding, UsersType
<1>6. TakenAsAsked'
  BY UserFacts DEF TakenAsAsked, Undisturbed, BroughtUp, NoStop, Leaving, ToFreerun,
       PoweredOff, ResetIsNoted, RecoverEnds, WaitOver, IsComplete, Awaited, Unlock,
       Goes, machine, request, flags, hardware, LockHeld, Holding, UsersType
<1>7. StallHolds'
  BY UserFacts DEF StallHolds, Undisturbed, BroughtUp, NoStop, Leaving, Granted,
       Settled, RecoverEnds, WaitOver, IsComplete, Awaited, Unlock, Goes, machine,
       request, flags, hardware, LockHeld, Holding, UsersType
<1> QED
  BY <1>1, <1>2, <1>3, <1>4, <1>5, <1>6, <1>7

LEMMA RecoverRetriesStalls ==
  ASSUME IInv, FreezeInv, StallInv, IInv', FreezeInv', RecoverRetries
  PROVE  StallInv'
<1> USE DEF IInv, TypeOK, FreezeInv, StallInv
<1>1. StartExchange'
  BY UserFacts DEF StartExchange, OnlyStarted, PoweredOff, NoStop, Leaving,
       BroughtUp, RecoverRetries, WaitFailed, Unlock, Goes, machine, request,
       hardware, LockHeld, Holding, UsersType
<1>2. StartedIsSettled'
  BY UserFacts DEF StartedIsSettled, StartExchange, BroughtUp, NoStop, Leaving,
       ToFreerun, Settled, PoweredOff, OnlyStarted, RecoverRetries, WaitFailed,
       Unlock, Goes, machine, request, hardware, LockHeld, Holding, UsersType
<1>3. ServiceIsSettled'
  BY UserFacts DEF ServiceIsSettled, Undisturbed, BroughtUp, NoStop, Leaving,
       ToFreerun, Settled, PoweredOff, OnlyStarted, RecoverRetries, WaitFailed,
       Unlock, Goes, machine, request, hardware, LockHeld, Holding, UsersType,
       StartedIsSettled, StartExchange, NoStallLeftBehind, Stalling
<1>4. StallExchange'
  BY UserFacts DEF StallExchange, Undisturbed, BroughtUp, NoStop, Leaving, Settled,
       PoweredOff, Commands, RecoverRetries, WaitFailed, Unlock, Goes, machine,
       request, hardware, LockHeld, Holding, UsersType, StartedIsSettled,
       StartExchange, NoStallLeftBehind, Stalling, OnlyStarted, ToFreerun
<1>5. ResumeExchange'
  BY UserFacts DEF ResumeExchange, Undisturbed, BroughtUp, NoStop, Leaving, Settled,
       Commands, RecoverRetries, WaitFailed, Unlock, Goes, machine, request,
       hardware, LockHeld, Holding, UsersType, StartedIsSettled, StartExchange,
       NoStallLeftBehind, Stalling, OnlyStarted, ToFreerun, PoweredOff
<1>6. TakenAsAsked'
  BY UserFacts DEF TakenAsAsked, Undisturbed, BroughtUp, NoStop, Leaving, ToFreerun,
       PoweredOff, ResetIsNoted, RecoverRetries, WaitFailed, Unlock, Goes, machine,
       request, hardware, LockHeld, Holding, UsersType, StartedIsSettled,
       StartExchange, NoStallLeftBehind, Stalling, OnlyStarted, Settled
<1>7. StallHolds'
  BY UserFacts DEF StallHolds, Undisturbed, BroughtUp, NoStop, Leaving, Granted,
       Settled, RecoverRetries, WaitFailed, Unlock, Goes, machine, request,
       hardware, LockHeld, Holding, UsersType
<1> QED
  BY <1>1, <1>2, <1>3, <1>4, <1>5, <1>6, <1>7

LEMMA RecoverWakesStalls ==
  ASSUME IInv, FreezeInv, StallInv, IInv', FreezeInv', RecoverWakes
  PROVE  StallInv'
<1> USE DEF IInv, TypeOK, FreezeInv, StallInv
<1>1. StartExchange'
  BY UserFacts DEF StartExchange, OnlyStarted, PoweredOff, NoStop, Leaving,
       BroughtUp, RecoverWakes, Issue, WaitsAt, Goes, request, flags, hardware,
       LockHeld, Holding, UsersType
<1>2. StartedIsSettled'
  BY UserFacts DEF StartedIsSettled, StartExchange, BroughtUp, NoStop, Leaving,
       ToFreerun, Settled, PoweredOff, OnlyStarted, RecoverWakes, Issue, WaitsAt,
       Goes, request, flags, hardware, LockHeld, Holding, UsersType
<1>3. ServiceIsSettled'
  BY UserFacts DEF ServiceIsSettled, Undisturbed, BroughtUp, NoStop, Leaving,
       ToFreerun, Settled, PoweredOff, OnlyStarted, RecoverWakes, Issue, WaitsAt,
       Goes, request, flags, hardware, LockHeld, Holding, UsersType
<1>4. StallExchange'
  BY UserFacts DEF StallExchange, Undisturbed, BroughtUp, NoStop, Leaving, Settled,
       PoweredOff, Commands, RecoverWakes, Issue, WaitsAt, Goes, request, flags,
       hardware, LockHeld, Holding, UsersType
<1>5. ResumeExchange'
  BY UserFacts DEF ResumeExchange, Undisturbed, BroughtUp, NoStop, Leaving, Settled,
       Commands, RecoverWakes, Issue, WaitsAt, Goes, request, flags, hardware,
       LockHeld, Holding, UsersType
<1>6. TakenAsAsked'
  BY UserFacts DEF TakenAsAsked, Undisturbed, BroughtUp, NoStop, Leaving, ToFreerun,
       PoweredOff, ResetIsNoted, RecoverWakes, Issue, WaitsAt, Goes, request, flags,
       hardware, LockHeld, Holding, UsersType
<1>7. StallHolds'
  BY UserFacts DEF StallHolds, Undisturbed, BroughtUp, NoStop, Leaving, Granted,
       Settled, RecoverWakes, Issue, WaitsAt, Goes, request, flags, hardware,
       LockHeld, Holding, UsersType
<1> QED
  BY <1>1, <1>2, <1>3, <1>4, <1>5, <1>6, <1>7

LEMMA ResetCalledStalls ==
  ASSUME IInv, FreezeInv, StallInv, IInv', FreezeInv', NEW kind, NEW S, ResetCalled(kind, S)
  PROVE  StallInv'
<1> USE DEF IInv, TypeOK, FreezeInv, StallInv
<1>1. StartExchange'
  BY UserFacts DEF StartExchange, OnlyStarted, PoweredOff, NoStop, Leaving,
       BroughtUp, ResetCalled, Goes, machine, request, flags, hardware, LockHeld,
       Holding, UsersType
<1>2. StartedIsSettled'
  BY UserFacts DEF StartedIsSettled, StartExchange, BroughtUp, NoStop, Leaving,
       ToFreerun, Settled, PoweredOff, OnlyStarted, ResetCalled, Goes, machine,
       request, flags, hardware, LockHeld, Holding, UsersType
<1>3. ServiceIsSettled'
  BY UserFacts DEF ServiceIsSettled, Undisturbed, BroughtUp, NoStop, Leaving,
       ToFreerun, Settled, PoweredOff, OnlyStarted, ResetCalled, Goes, machine,
       request, flags, hardware, LockHeld, Holding, UsersType
<1>4. StallExchange'
  BY UserFacts DEF StallExchange, Undisturbed, BroughtUp, NoStop, Leaving, Settled,
       PoweredOff, Commands, ResetCalled, Goes, machine, request, flags, hardware,
       LockHeld, Holding, UsersType
<1>5. ResumeExchange'
  BY UserFacts DEF ResumeExchange, Undisturbed, BroughtUp, NoStop, Leaving, Settled,
       Commands, ResetCalled, Goes, machine, request, flags, hardware, LockHeld,
       Holding, UsersType
<1>6. TakenAsAsked'
  BY UserFacts DEF TakenAsAsked, Undisturbed, BroughtUp, NoStop, Leaving, ToFreerun,
       PoweredOff, ResetIsNoted, ResetCalled, Goes, machine, request, flags,
       hardware, LockHeld, Holding, UsersType
<1>7. StallHolds'
  BY UserFacts DEF StallHolds, Undisturbed, BroughtUp, NoStop, Leaving, Granted,
       Settled, ResetCalled, Goes, machine, request, flags, hardware, LockHeld,
       Holding, UsersType
<1> QED
  BY <1>1, <1>2, <1>3, <1>4, <1>5, <1>6, <1>7

---------------------------------------------------------------------------------
(* The cores                                                                    *)

LEMMA CoreBootsStalls ==
  ASSUME IInv, FreezeInv, StallInv, IInv', FreezeInv', NEW c \in Cores, CoreBoots(c)
  PROVE  StallInv'
<1> USE DEF IInv, TypeOK, FreezeInv, StallInv
<1>1. StartExchange'
  BY CommandFacts DEF StartExchange, OnlyStarted, PoweredOff, NoStop, Leaving,
       BroughtUp, CoreBoots, machine, request, flags, users, HardwareType,
       RequestType
<1>2. StartedIsSettled'
  BY CommandFacts DEF StartedIsSettled, StartExchange, BroughtUp, NoStop, Leaving,
       ToFreerun, Settled, PoweredOff, OnlyStarted, CoreBoots, machine, request,
       flags, users, HardwareType, RequestType
<1>3. ServiceIsSettled'
  BY CommandFacts DEF ServiceIsSettled, Undisturbed, BroughtUp, NoStop, Leaving,
       ToFreerun, Settled, PoweredOff, OnlyStarted, CoreBoots, machine, request,
       flags, users, HardwareType, RequestType
<1>4. StallExchange'
  BY CommandFacts DEF StallExchange, Undisturbed, BroughtUp, NoStop, Leaving,
       Settled, PoweredOff, Commands, CoreBoots, machine, request, flags, users,
       HardwareType, RequestType
<1>5. ResumeExchange'
  BY CommandFacts DEF ResumeExchange, Undisturbed, BroughtUp, NoStop, Leaving,
       Settled, Commands, CoreBoots, machine, request, flags, users, HardwareType,
       RequestType
<1>6. TakenAsAsked'
  BY CommandFacts DEF TakenAsAsked, Undisturbed, BroughtUp, NoStop, Leaving,
       ToFreerun, PoweredOff, ResetIsNoted, CoreBoots, machine, request, flags,
       users, HardwareType, RequestType
<1>7. StallHolds'
  BY CommandFacts DEF StallHolds, Undisturbed, BroughtUp, NoStop, Leaving, Granted,
       Settled, CoreBoots, machine, request, flags, users, HardwareType, RequestType
<1> QED
  BY <1>1, <1>2, <1>3, <1>4, <1>5, <1>6, <1>7

LEMMA CoreObeysStalls ==
  ASSUME IInv, FreezeInv, StallInv, IInv', FreezeInv', NEW c \in Cores, CoreObeys(c)
  PROVE  StallInv'
<1> USE DEF IInv, TypeOK, FreezeInv, StallInv
<1>1. StartExchange'
  BY CommandFacts DEF StartExchange, OnlyStarted, PoweredOff, NoStop, Leaving,
       BroughtUp, CoreObeys, Alive, ModeAfter, AnswerTo, machine, request, flags,
       users, HardwareType, RequestType, Commands
<1>2. StartedIsSettled'
  BY CommandFacts DEF StartedIsSettled, StartExchange, BroughtUp, NoStop, Leaving,
       ToFreerun, Settled, PoweredOff, OnlyStarted, CoreObeys, Alive, ModeAfter,
       AnswerTo, machine, request, flags, users, HardwareType, RequestType, Commands
<1>3. ServiceIsSettled'
  BY CommandFacts DEF ServiceIsSettled, Undisturbed, BroughtUp, NoStop, Leaving,
       ToFreerun, Settled, PoweredOff, OnlyStarted, CoreObeys, Alive, ModeAfter,
       AnswerTo, machine, request, flags, users, HardwareType, RequestType, Commands
<1>4. StallExchange'
  BY CommandFacts DEF StallExchange, Undisturbed, BroughtUp, NoStop, Leaving,
       Settled, PoweredOff, Commands, CoreObeys, Alive, ModeAfter, AnswerTo,
       machine, request, flags, users, HardwareType, RequestType
<1>5. ResumeExchange'
  BY CommandFacts DEF ResumeExchange, Undisturbed, BroughtUp, NoStop, Leaving,
       Settled, Commands, CoreObeys, Alive, ModeAfter, AnswerTo, machine, request,
       flags, users, HardwareType, RequestType
<1>6. TakenAsAsked'
  BY CommandFacts DEF TakenAsAsked, Undisturbed, BroughtUp, NoStop, Leaving,
       ToFreerun, PoweredOff, ResetIsNoted, CoreObeys, Alive, ModeAfter, AnswerTo,
       machine, request, flags, users, HardwareType, RequestType, Commands
<1>7. StallHolds'
  BY CommandFacts DEF StallHolds, Undisturbed, BroughtUp, NoStop, Leaving, Granted,
       Settled, CoreObeys, Alive, ModeAfter, AnswerTo, machine, request, flags,
       users, HardwareType, RequestType, Commands
<1> QED
  BY <1>1, <1>2, <1>3, <1>4, <1>5, <1>6, <1>7

LEMMA CoreRefusesStalls ==
  ASSUME IInv, FreezeInv, StallInv, IInv', FreezeInv', NEW c \in Cores, CoreRefuses(c)
  PROVE  StallInv'
<1> USE DEF IInv, TypeOK, FreezeInv, StallInv
<1>1. StartExchange'
  BY CommandFacts DEF StartExchange, OnlyStarted, PoweredOff, NoStop, Leaving,
       BroughtUp, CoreRefuses, Alive, Fault, machine, request, flags, users,
       HardwareType, RequestType
<1>2. StartedIsSettled'
  BY CommandFacts DEF StartedIsSettled, StartExchange, BroughtUp, NoStop, Leaving,
       ToFreerun, Settled, PoweredOff, OnlyStarted, CoreRefuses, Alive, Fault,
       machine, request, flags, users, HardwareType, RequestType
<1>3. ServiceIsSettled'
  BY CommandFacts DEF ServiceIsSettled, Undisturbed, BroughtUp, NoStop, Leaving,
       ToFreerun, Settled, PoweredOff, OnlyStarted, CoreRefuses, Alive, Fault,
       machine, request, flags, users, HardwareType, RequestType
<1>4. StallExchange'
  BY CommandFacts DEF StallExchange, Undisturbed, BroughtUp, NoStop, Leaving,
       Settled, PoweredOff, Commands, CoreRefuses, Alive, Fault, machine, request,
       flags, users, HardwareType, RequestType
<1>5. ResumeExchange'
  BY CommandFacts DEF ResumeExchange, Undisturbed, BroughtUp, NoStop, Leaving,
       Settled, Commands, CoreRefuses, Alive, Fault, machine, request, flags, users,
       HardwareType, RequestType
<1>6. TakenAsAsked'
  BY CommandFacts DEF TakenAsAsked, Undisturbed, BroughtUp, NoStop, Leaving,
       ToFreerun, PoweredOff, ResetIsNoted, CoreRefuses, Alive, Fault, machine,
       request, flags, users, HardwareType, RequestType
<1>7. StallHolds'
  BY CommandFacts DEF StallHolds, Undisturbed, BroughtUp, NoStop, Leaving, Granted,
       Settled, CoreRefuses, Alive, Fault, machine, request, flags, users,
       HardwareType, RequestType
<1> QED
  BY <1>1, <1>2, <1>3, <1>4, <1>5, <1>6, <1>7

LEMMA CoreHangsStalls ==
  ASSUME IInv, FreezeInv, StallInv, IInv', FreezeInv', NEW c \in Cores, CoreHangs(c)
  PROVE  StallInv'
<1> USE DEF IInv, TypeOK, FreezeInv, StallInv
<1>1. StartExchange'
  BY CommandFacts DEF StartExchange, OnlyStarted, PoweredOff, NoStop, Leaving,
       BroughtUp, CoreHangs, Alive, Fault, machine, request, flags, users,
       HardwareType, RequestType
<1>2. StartedIsSettled'
  BY CommandFacts DEF StartedIsSettled, StartExchange, BroughtUp, NoStop, Leaving,
       ToFreerun, Settled, PoweredOff, OnlyStarted, CoreHangs, Alive, Fault,
       machine, request, flags, users, HardwareType, RequestType
<1>3. ServiceIsSettled'
  BY CommandFacts DEF ServiceIsSettled, Undisturbed, BroughtUp, NoStop, Leaving,
       ToFreerun, Settled, PoweredOff, OnlyStarted, CoreHangs, Alive, Fault,
       machine, request, flags, users, HardwareType, RequestType
<1>4. StallExchange'
  BY CommandFacts DEF StallExchange, Undisturbed, BroughtUp, NoStop, Leaving,
       Settled, PoweredOff, Commands, CoreHangs, Alive, Fault, machine, request,
       flags, users, HardwareType, RequestType
<1>5. ResumeExchange'
  BY CommandFacts DEF ResumeExchange, Undisturbed, BroughtUp, NoStop, Leaving,
       Settled, Commands, CoreHangs, Alive, Fault, machine, request, flags, users,
       HardwareType, RequestType
<1>6. TakenAsAsked'
  BY CommandFacts DEF TakenAsAsked, Undisturbed, BroughtUp, NoStop, Leaving,
       ToFreerun, PoweredOff, ResetIsNoted, CoreHangs, Alive, Fault, machine,
       request, flags, users, HardwareType, RequestType
<1>7. StallHolds'
  BY CommandFacts DEF StallHolds, Undisturbed, BroughtUp, NoStop, Leaving, Granted,
       Settled, CoreHangs, Alive, Fault, machine, request, flags, users,
       HardwareType, RequestType
<1> QED
  BY <1>1, <1>2, <1>3, <1>4, <1>5, <1>6, <1>7

LEMMA MuteCoreTakesStalls ==
  ASSUME IInv, FreezeInv, StallInv, IInv', FreezeInv', NEW c \in Cores, MuteCoreTakes(c)
  PROVE  StallInv'
<1> USE DEF IInv, TypeOK, FreezeInv, StallInv
<1>1. StartExchange'
  BY CommandFacts DEF StartExchange, OnlyStarted, PoweredOff, NoStop, Leaving,
       BroughtUp, MuteCoreTakes, machine, request, flags, users, HardwareType,
       RequestType
<1>2. StartedIsSettled'
  BY CommandFacts DEF StartedIsSettled, StartExchange, BroughtUp, NoStop, Leaving,
       ToFreerun, Settled, PoweredOff, OnlyStarted, MuteCoreTakes, machine, request,
       flags, users, HardwareType, RequestType
<1>3. ServiceIsSettled'
  BY CommandFacts DEF ServiceIsSettled, Undisturbed, BroughtUp, NoStop, Leaving,
       ToFreerun, Settled, PoweredOff, OnlyStarted, MuteCoreTakes, machine, request,
       flags, users, HardwareType, RequestType
<1>4. StallExchange'
  BY CommandFacts DEF StallExchange, Undisturbed, BroughtUp, NoStop, Leaving,
       Settled, PoweredOff, Commands, MuteCoreTakes, machine, request, flags, users,
       HardwareType, RequestType
<1>5. ResumeExchange'
  BY CommandFacts DEF ResumeExchange, Undisturbed, BroughtUp, NoStop, Leaving,
       Settled, Commands, MuteCoreTakes, machine, request, flags, users,
       HardwareType, RequestType
<1>6. TakenAsAsked'
  BY CommandFacts DEF TakenAsAsked, Undisturbed, BroughtUp, NoStop, Leaving,
       ToFreerun, PoweredOff, ResetIsNoted, MuteCoreTakes, machine, request, flags,
       users, HardwareType, RequestType
<1>7. StallHolds'
  BY CommandFacts DEF StallHolds, Undisturbed, BroughtUp, NoStop, Leaving, Granted,
       Settled, MuteCoreTakes, machine, request, flags, users, HardwareType,
       RequestType
<1> QED
  BY <1>1, <1>2, <1>3, <1>4, <1>5, <1>6, <1>7

LEMMA ReceiveStalls ==
  ASSUME IInv, FreezeInv, StallInv, IInv', FreezeInv', NEW c \in Cores, Receive(c)
  PROVE  StallInv'
<1> USE DEF IInv, TypeOK, FreezeInv, StallInv
<1>1. StartExchange'
  BY CommandFacts DEF StartExchange, OnlyStarted, PoweredOff, NoStop, Leaving,
       BroughtUp, Receive, machine, users, HardwareType, RequestType
<1>2. StartedIsSettled'
  BY CommandFacts DEF StartedIsSettled, StartExchange, BroughtUp, NoStop, Leaving,
       ToFreerun, Settled, PoweredOff, OnlyStarted, Receive, machine, users,
       HardwareType, RequestType
<1>3. ServiceIsSettled'
  BY CommandFacts DEF ServiceIsSettled, Undisturbed, BroughtUp, NoStop, Leaving,
       ToFreerun, Settled, PoweredOff, OnlyStarted, Receive, machine, users,
       HardwareType, RequestType
<1>4. StallExchange'
  BY CommandFacts DEF StallExchange, Undisturbed, BroughtUp, NoStop, Leaving,
       Settled, PoweredOff, Commands, Receive, machine, users, HardwareType,
       RequestType, AwaitsItsAnswer
<1>5. ResumeExchange'
  BY CommandFacts DEF ResumeExchange, Undisturbed, BroughtUp, NoStop, Leaving,
       Settled, Commands, Receive, machine, users, HardwareType, RequestType
<1>6. TakenAsAsked'
  BY CommandFacts DEF TakenAsAsked, Undisturbed, BroughtUp, NoStop, Leaving,
       ToFreerun, PoweredOff, ResetIsNoted, Receive, machine, users, HardwareType,
       RequestType, ServiceIsSettled, Settled, OnlyStarted, ControlInOrder,
       LeavesFor, MachineType, States
<1>7. StallHolds'
  BY CommandFacts DEF StallHolds, Undisturbed, BroughtUp, NoStop, Leaving, Granted,
       Settled, Receive, machine, users, HardwareType, RequestType
<1> QED
  BY <1>1, <1>2, <1>3, <1>4, <1>5, <1>6, <1>7

---------------------------------------------------------------------------------
(* Every step                                                                   *)

LEMMA ControlStalls ==
  IInv /\ FreezeInv /\ StallInv /\ IInv' /\ FreezeInv' /\ Control => StallInv'
BY TakeStalls, LeaveStalls, LeaveInitStalls, LeaveWithCommandStalls,
   EnterShutdownStalls, EnterInitStalls, EnterInitUnpoweredStalls,
   EnterFreerunStalls, EnterStallStalls, EnterNetstopStalls, EnterResetStalls,
   EnterResetSilentlyStalls, EnterAbnormalStalls, CompletesStalls, WaitFailsStalls,
   TimerStopsStalls DEF Control

LEMMA UserStepsStall ==
  IInv /\ FreezeInv /\ StallInv /\ IInv' /\ FreezeInv'
    /\ (BootStep \/ SyncStep \/ SerStep \/ RecoverStep) => StallInv'
BY BootAsksStalls, BootEndsStalls, BootFailsStalls, StallAsksStalls,
   StallGrantedStalls, StallEndsStalls, StallServedStalls, StallFailsStalls,
   ResetAsksStalls, ResetGrantedStalls, ResetRestartsStalls, ResetServedStalls,
   ResetFailsStalls, RecoverRunsStalls, RecoverAsksStalls, RecoverClearsStalls,
   RecoverEndsStalls, RecoverRetriesStalls, RecoverWakesStalls
   DEF BootStep, SyncStep, SerStep, RecoverStep

LEMMA CoreStepStalls ==
  ASSUME IInv, FreezeInv, StallInv, IInv', FreezeInv', NEW c \in Cores, CoreStep(c)
  PROVE  StallInv'
BY CoreBootsStalls, CoreObeysStalls, CoreRefusesStalls, CoreHangsStalls,
   MuteCoreTakesStalls, ReceiveStalls DEF CoreStep

LEMMA NextStalls ==
  ASSUME ~MayRemove, IInv, FreezeInv, StallInv, IInv', FreezeInv', NotRemoved,
         [Next]_vars
  PROVE  StallInv'
<1>1. CASE Calls
  BY <1>1, StallCalledStalls, ResetCalledStalls, StaysUnremoved DEF Calls
<1>2. CASE StaysAsleep \/ TimesOut \/ UNCHANGED vars
  <2>1. /\ UNCHANGED <<cur, next, ctrl, pend, msg1, done, doneBit, owner, pc, core, cmd,
                       ans>>
        /\ fail => fail'
    BY <1>2
       DEF StaysAsleep, TimesOut, vars, machine, request, flags, users, hardware
  <2> QED
    BY <2>1, StallFrame
<1> QED
  BY <1>1, <1>2, ControlStalls, UserStepsStall, CoreStepStalls, StaysUnremoved
     DEF Next

LEMMA InitStalls == Init => StallInv
<1> SUFFICES ASSUME Init PROVE StallInv
  OBVIOUS
<1>1. cur = "SHUTDOWN" /\ ctrl = "idle" /\ pend = {} /\ msg1 = "none" /\ ~doneBit
  BY DEF Init
<1>2. \A c \in Cores : core[c] = "off"
  BY DEF Init
<1>3. StartExchange /\ StartedIsSettled
  BY <1>1, <1>2 DEF StartExchange, StartedIsSettled, BroughtUp, PoweredOff
<1>4. ServiceIsSettled /\ StallExchange /\ ResumeExchange
  BY <1>1 DEF ServiceIsSettled, StallExchange, ResumeExchange
<1>5. TakenAsAsked
  BY <1>1 DEF TakenAsAsked, ToFreerun, Leaving
<1>6. StallHolds
  BY <1>1, UserFacts DEF Init, StallHolds, Granted
<1> QED
  BY <1>3, <1>4, <1>5, <1>6 DEF StallInv

---------------------------------------------------------------------------------
(* While the callback of mtk_tops_mcu_stall writes the tunnel table, every core *)
(* is stalled or hangs.  Answers that an earlier request left behind, a         *)
(* transition that timed out, a recovery or a reset that comes in between       *)
(* cannot break this.                                                           *)
THEOREM CoresStayStalled == ~MayRemove => (Spec => []StalledInCallback)
<1> SUFFICES ASSUME ~MayRemove PROVE Spec => []StalledInCallback
  OBVIOUS
<1>1. Init => StallInv /\ NotRemoved
  BY InitStalls, InitFreezes
<1>2. StallInv /\ NotRemoved /\ IInv /\ IInv' /\ FreezeInv /\ FreezeInv' /\ [Next]_vars
        => (StallInv /\ NotRemoved)'
  BY NextStalls, StaysUnremoved
<1>3. StallInv => StalledInCallback
  BY DEF StallInv, StallHolds, Granted, StalledInCallback
<1> QED
  BY <1>1, <1>2, <1>3, Invariance, StallInvariance, PTL DEF Spec
=================================================================================
