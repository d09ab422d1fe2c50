------------------------------- MODULE TopsStall --------------------------------
(* Why the callback of mtk_tops_mcu_stall has the machine to itself: what holds *)
(* of the pending acts, the request and the cores from one bring-up to the next *)
(* stop, as long as the driver is not removed.                                  *)
EXTENDS TopsMcu

---------------------------------------------------------------------------------
(* The machine stays in service                                                 *)

(* What a wait is for follows from the state that is entered or left.           *)
AwaitsItsAnswer ==
  /\ ctrl = "enterWait" =>
       doneCmd = CASE cur = "INIT" -> "INIT_DONE"
                   [] cur = "STALL" -> "STALL_DONE"
                   [] OTHER -> "ASSERT_RESET_DONE"
  /\ ctrl = "leaveWait" => doneCmd \in {"FREERUN_DONE", "RELEASE_RESET_DONE"}
  /\ ctrl = "leaveEnd" => msg1 # "INIT_DONE"

(* in_reset is there from a reset's request to the end of the bring-up.  It is  *)
(* the reason for RESET, and for being in service without traffic.              *)
ResetIsNoted ==
  /\ msg1 = "INIT_DONE" => ~inReset
  /\ inReset /\ ~fail => owner \in {"ser", "recover"}
  /\ cur = "RESET" \/ "RESET" \in pend \/ (ctrl = "leave" /\ next = "RESET") => inReset
  /\ cur \in {"FREERUN", "STALL"} /\ ~traffic => inReset

Leaving == ctrl \in {"leave", "leaveWait", "leaveEnd"}
Stalling == cur = "STALL" \/ (ctrl = "leave" /\ next = "STALL")

(* Nothing that is pending or under way takes the machine out of service.       *)
StaysInService ==
  /\ pend \subseteq {"STALL", "FREERUN"}
  /\ Leaving => next \in {"STALL", "FREERUN"}

(* A STALL that an earlier request left behind is never taken: after a bring-up *)
(* it comes before the FREERUN that would make it possible.                     *)
NoStallLeftBehind ==
  msg1 = "INIT_DONE" =>
    /\ ~Stalling
    /\ cur = "FREERUN" \/ (Leaving /\ next = "FREERUN") => "STALL" \notin pend

(* A stall begins when nothing else is pending, and only the holder of the lock *)
(* could add something.                                                         *)
StallIsAlone ==
  owner \in {"none", "sync"} /\ ~fail /\ Stalling => StaysInService

(* From the grant of a stall to the end of the callback the machine is in       *)
(* service.                                                                     *)
FrozenInService ==
  /\ "sync" \in Clients
  /\ \/ pc["sync"] = "callback"
     \/ pc["sync"] = "stall" /\ ~fail /\ msg1 = "STALL_DONE"
  => cur \in {"STALL", "FREERUN"} /\ traffic /\ StaysInService

(* What keeps the network as it is during the callback.                         *)
FreezeInv ==
  /\ AwaitsItsAnswer /\ ResetIsNoted /\ NoStallLeftBehind /\ StallIsAlone
  /\ FrozenInService

---------------------------------------------------------------------------------
(* The cores stay stalled                                                       *)

(* A core that has nothing to answer, and whose answers are all taken.          *)
Settled(c) == core[c] # "boot" /\ cmd[c] \notin Commands /\ ans[c] = "none"

PoweredOff == \A c \in Cores : core[c] = "off"

(* Nothing that a bring-up leaves behind can be taken for another answer.       *)
OnlyStarted(c) == cmd[c] \notin Commands /\ ans[c] \in {"none", "INIT_DONE"}

(* The machine is not about to stop.                                            *)
NoStop == "NETSTOP" \notin pend /\ ~(Leaving /\ next = "NETSTOP")
BroughtUp == msg1 = "INIT_DONE" /\ doneBit
ToFreerun == Leaving /\ next = "FREERUN"

(* No recovery or reset is under way, or its bring-up is over.                  *)
Undisturbed == ~fail /\ NoStop /\ (owner \in {"none", "sync", "boot"} \/ BroughtUp)

Granted ==
  /\ "sync" \in Clients
  /\ \/ pc["sync"] = "callback"
     \/ pc["sync"] = "stall" /\ ~fail /\ msg1 = "STALL_DONE"

(* The power is off until init_enter; a bring-up is over when every core has    *)
(* answered, unless a reset that was asked for meanwhile has counted one.       *)
StartExchange ==
  /\ doneBit => done = Cores
  /\ cur = "SHUTDOWN" /\ ctrl \in {"idle", "leave"} => PoweredOff
  /\ cur = "INIT" /\ ctrl = "enter" => PoweredOff
  /\ cur = "INIT" /\ ctrl = "enterWait" =>
       /\ ~doneBit
       /\ \A c \in Cores : OnlyStarted(c) /\ (core[c] = "boot" => ans[c] = "none")
       /\ NoStop => \A c \in done : core[c] # "boot" /\ ans[c] = "none"
  /\ BroughtUp => \A c \in Cores : OnlyStarted(c)

(* After a bring-up, until the next stop                                        *)
StartedIsSettled ==
  BroughtUp /\ NoStop =>
    /\ (cur = "INIT" /\ ctrl \notin {"enter", "enterWait"}) \/ cur = "FREERUN" =>
         (\A c \in Cores : Settled(c)) \/ PoweredOff
    /\ cur = "FREERUN" \/ ToFreerun => "FREERUN" \notin pend

(* In service the cores have nothing to answer.  They may be off, if the power  *)
(* failed and an act of an earlier bring-up was still pending: then the answers *)
(* can only be those of that bring-up.                                          *)
ServiceIsSettled ==
  Undisturbed =>
    /\ \/ cur = "INIT" /\ ctrl \notin {"enter", "enterWait"}
       \/ cur = "FREERUN"
       \/ cur = "STALL" /\ ctrl = "enter"
       => \/ \A c \in Cores : Settled(c)
          \/ PoweredOff /\ \A c \in Cores : OnlyStarted(c)
    /\ cur = "STALL" /\ ctrl \notin {"enter", "enterWait", "leaveWait"} =>
         \A c \in Cores : Settled(c)

(* stall_enter waits for STALL_DONE: who has answered is stalled and stays so.  *)
StallExchange ==
  Undisturbed /\ cur = "STALL" /\ ctrl = "enterWait" =>
    \/ \A c \in Cores :
         /\ core[c] # "boot"
         /\ cmd[c] \in Commands => cmd[c] = "STALL" /\ ans[c] = "none"
         /\ ans[c] = "STALL_DONE" \/ c \in done =>
              core[c] \in {"stalled", "mute", "deaf"}
         /\ c \in done => Settled(c)
    \/ /\ PoweredOff /\ done # Cores
       /\ \A c \in Cores : ans[c] # "STALL_DONE"

(* stall_leave waits for FREERUN_DONE.                                          *)
ResumeExchange ==
  Undisturbed /\ cur = "STALL" /\ ctrl = "leaveWait" =>
    \A c \in Cores :
      /\ core[c] # "boot"
      /\ cmd[c] \in Commands => ans[c] = "none"
      /\ c \in done => Settled(c)

(* The acts STALL and FREERUN are taken for the request they were issued with,  *)
(* and what the cores are sent is what it asks for.                             *)
TakenAsAsked ==
  Undisturbed =>
    /\ \/ "STALL" \in pend /\ (cur = "FREERUN" \/ ToFreerun)
       \/ ctrl = "leave" /\ next = "STALL"
       \/ ctrl = "enter" /\ cur = "STALL"
       => msg1 = "STALL" /\ owner = "sync" /\ (done = {} \/ PoweredOff)
    /\ cur = "STALL" /\ ctrl = "enterWait" => msg1 = "STALL" /\ owner = "sync"
    /\ cur = "STALL" /\ ("FREERUN" \in pend \/ (ctrl = "leave" /\ next = "FREERUN")) =>
         msg1 = "FREERUN" /\ owner = "sync" /\ done = {}
    /\ cur = "STALL" /\ ctrl = "leaveWait" => msg1 = "FREERUN" /\ owner = "sync"
    /\ cur = "FREERUN" \/ ToFreerun => "FREERUN" \notin pend

(* Once the stall is granted, no core is told anything until its callback is    *)
(* over, not even after a failure.                                              *)
StallHolds ==
  Granted =>
    /\ msg1 = "STALL_DONE"
    /\ Undisturbed => cur = "STALL" /\ ctrl \in {"idle", "enterEnd"}
    /\ \A c \in Cores : Settled(c) /\ core[c] \in {"stalled", "mute", "deaf"}

StallInv ==
  /\ StartExchange /\ StartedIsSettled /\ ServiceIsSettled /\ StallExchange
  /\ ResumeExchange /\ TakenAsAsked /\ StallHolds
=================================================================================
