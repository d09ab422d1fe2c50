-------------------------------- MODULE TopsMcu --------------------------------
(* The state machine that runs the TOPS cores (mcu.c): a control thread takes   *)
(* one pending act after the other and moves the machine; the users of the      *)
(* machine issue acts under mcu_ctrl_lock and wait for the outcome.  The users  *)
(* are the cold boot, the thread that writes the tunnel table ("sync", it       *)
(* stalls the cores), the system error recovery ("ser", it resets them), the    *)
(* recover work and the removal of the driver.  The cores are external: they    *)
(* take a command out of their mailbox, obey it and answer through another.     *)
(*                                                                              *)
(* Only the holder of the lock waits on mcu_ctrl_wait_done, so one bit, woken,  *)
(* stands for that queue.                                                       *)
EXTENDS Naturals, FiniteSets

CONSTANTS
  Cores,       \* the cores of the cluster and the management core
  Clients,     \* a subset of {"sync", "ser"}
  FaultKinds,  \* what may go wrong: a subset of
               \* {"deaf", "mute", "wrong", "clock", "firmware"}
  MaxFaults,   \* bound on how often it does
  Punctual,    \* TRUE: the transition timer expires only when nothing else
               \* is going to happen
  Overlap,     \* TRUE: a client may ask while the other one's request is served
  Prompt,      \* TRUE: a thread that can go on does so before anything new happens
  MayRemove    \* TRUE: the driver may be removed

ASSUME CoresAssumption == IsFiniteSet(Cores) /\ Cores # {}
ASSUME ClientsAssumption == Clients \subseteq {"sync", "ser"}
ASSUME FaultsAssumption ==
  /\ FaultKinds \subseteq {"deaf", "mute", "wrong", "clock", "firmware"}
  /\ MaxFaults \in Nat
ASSUME SwitchesAssumption == {Punctual, Overlap, Prompt, MayRemove} \subseteq BOOLEAN

States == {"SHUTDOWN", "INIT", "FREERUN", "STALL", "NETSTOP", "RESET", "ABNORMAL"}
Acts == {"ABNORMAL", "RESET", "NETSTOP", "SHUTDOWN", "INIT", "STALL", "FREERUN"}
Commands == {"STALL", "FREERUN", "ASSERT_RESET", "RELEASE_RESET"}
Answers == {"INIT_DONE", "STALL_DONE", "FREERUN_DONE", "ASSERT_RESET_DONE",
            "RELEASE_RESET_DONE"}
Users == Clients \cup {"boot", "recover", "remove"}

(* The places of a user between mutex_lock and mutex_unlock                     *)
Holding == {"stall", "assert", "callback", "freerun", "init", "clear", "sleep",
            "shutdown"}

VARIABLES
  \* the machine
  cur, next,   \* cur_state, next_state
  ctrl,        \* where the control thread is
  armed,       \* mcu_ctrl_timer runs
  pend,        \* pending_act
  \* the request
  msg1,        \* ctrl_msg.msg1
  done,        \* the cores' bits of ctrl_done
  doneBit,     \* its most significant bit
  doneCmd,     \* ctrl_done_cmd
  \* flags
  bringUp,     \* mcu_bring_up_done
  fail,        \* state_trans_fail
  inReset, inRecover,
  feSer,       \* netsys_fe_ser
  shuting,     \* shuting_down
  \* the users
  owner,       \* mcu_ctrl_lock
  pc,          \* where each user is
  queued,      \* recover_work is scheduled
  req,         \* the request of "ser": its kind and the cores that timed out
  woken,       \* mcu_ctrl_wait_done: its waiter is about to look at its condition
  \* the hardware
  traffic,     \* TDMA is enabled: packets are sent to the cores
  core,        \* external: what each core does
  cmd,         \* the mailbox from the driver to each core
  ans,         \* the mailbox from each core to the driver
  faults       \* how often something went wrong

machine == <<cur, next, ctrl, armed, pend>>
request == <<msg1, done, doneBit, doneCmd>>
flags == <<bringUp, fail, inReset, inRecover, feSer, shuting>>
users == <<owner, pc, queued, req, woken>>
hardware == <<traffic, core, cmd, ans, faults>>
vars == <<machine, request, flags, users, hardware>>

NoReq == [kind |-> "none", cores |-> {}]

---------------------------------------------------------------------------------
(* What the parts share                                                         *)

(* The *_trans functions: <<state, act, next state>>                            *)
Trans == {
  <<"SHUTDOWN", "INIT", "INIT">>,
  <<"INIT", "FREERUN", "FREERUN">>, <<"INIT", "NETSTOP", "NETSTOP">>,
  <<"FREERUN", "RESET", "RESET">>, <<"FREERUN", "STALL", "STALL">>,
  <<"FREERUN", "NETSTOP", "NETSTOP">>,
  <<"STALL", "RESET", "RESET">>, <<"STALL", "FREERUN", "FREERUN">>,
  <<"STALL", "NETSTOP", "NETSTOP">>,
  <<"NETSTOP", "ABNORMAL", "ABNORMAL">>, <<"NETSTOP", "RESET", "RESET">>,
  <<"NETSTOP", "SHUTDOWN", "SHUTDOWN">>,
  <<"RESET", "FREERUN", "FREERUN">>, <<"RESET", "SHUTDOWN", "SHUTDOWN">>,
  <<"RESET", "NETSTOP", "ABNORMAL">>,
  <<"ABNORMAL", "SHUTDOWN", "SHUTDOWN">> }

(* The numbers of the bits of pending_act                                       *)
Bit == [ABNORMAL |-> 0, RESET |-> 1, NETSTOP |-> 2, SHUTDOWN |-> 3, INIT |-> 4,
        STALL |-> 5, FREERUN |-> 6]

(* mcu_ctrl_is_complete                                                         *)
IsComplete(c) == done = Cores /\ doneBit /\ msg1 = c

(* A message goes out only into an empty mailbox: the sender spins until it is. *)
MailboxesFree(S) == \A c \in S : cmd[c] = "none"

Waiting == ctrl \in {"leaveWait", "enterWait"}
(* An answer the control thread waits for will never come.                      *)
Stuck ==
  /\ Waiting
  /\ \E c \in Cores \ done :
       /\ ans[c] = "none" /\ core[c] # "boot"
       /\ cmd[c] = "none" \/ core[c] = "deaf"

(* The machine has nothing left to do, and nobody is about to look or to go on. *)
MachineRests == ctrl = "idle" /\ pend = {}
UsersRest == ~woken /\ pc["recover"] # "clear"

Fault(kind) ==
  /\ kind \in FaultKinds /\ faults < MaxFaults
  /\ faults' = faults + 1

---------------------------------------------------------------------------------
(* The control thread                                                           *)

(* mcu_state_trans_start and mcu_state_trans_end: the timer is started before a *)
(* state is left and before one is entered, and stopped at the end of both.     *)
Moves(place) ==
  /\ ctrl' = place
  /\ armed' = IF place \in {"leave", "enter"} THEN TRUE
              ELSE IF place = "idle" THEN FALSE ELSE armed

FaultyFailsSilently == fail' = TRUE /\ Moves("idle") /\ UNCHANGED woken

(* mtk_tops_mcu_state_transition fails, and mcu_ctrl_task notes it              *)
Failed == fail' = TRUE /\ Moves("idle") /\ woken' = TRUE

(* mcu_ctrl_pop_pending_act, and the start of the transition                    *)
Take ==
  /\ ctrl = "idle" /\ pend # {}
  /\ Prompt => UsersRest
  /\ \E a \in pend :
       /\ \A b \in pend : Bit[a] <= Bit[b]
       /\ pend' = pend \ {a}
       /\ \/ /\ \E s \in States :
                  /\ <<cur, a, s>> \in Trans
                  /\ next' = s
                  /\ \/ a # "ABNORMAL" /\ Moves("leave") /\ UNCHANGED cur
                     \/ a = "ABNORMAL" /\ Moves("enter") /\ cur' = s
             /\ UNCHANGED <<fail, woken>>
          \/ /\ \A s \in States : <<cur, a, s>> \notin Trans
             /\ Failed /\ UNCHANGED <<cur, next>>
  /\ UNCHANGED <<request, bringUp, inReset, inRecover, feSer, shuting, owner, pc,
                 queued, req, hardware>>

(* mcu_state_prepare_wait and mcu_state_send_cmd                                *)
PrepareAndSend(answer) ==
  LET already == IF done = Cores THEN {} ELSE done IN
  /\ MailboxesFree(Cores \ already)
  /\ doneCmd' = answer /\ done' = already
  /\ doneBit' = (doneBit /\ done # Cores)
  /\ cmd' = [c \in Cores |-> IF c \in already THEN cmd[c] ELSE msg1]
  /\ UNCHANGED msg1

LeavesQuietly ==
  \/ cur \in {"SHUTDOWN", "FREERUN", "NETSTOP", "ABNORMAL"}
  \/ cur = "STALL" /\ next = "NETSTOP"
  \/ cur = "RESET" /\ next \in {"ABNORMAL", "SHUTDOWN"}

Leave ==
  /\ ctrl = "leave" /\ LeavesQuietly
  /\ cur' = next /\ Moves("enter")
  /\ UNCHANGED <<next, pend, request, flags, users, hardware>>

(* init_leave: mtk_tops_tdma_enable tells every core, then the tunnels are      *)
(* submitted again.  mtk_pce_enable, the one call whose result is looked at,    *)
(* returns 0 whatever happens (pce/src/netsys.c 224-233).                       *)
LeaveInit ==
  /\ ctrl = "leave" /\ cur = "INIT"
  /\ MailboxesFree(Cores)
  /\ cmd' = [c \in Cores |-> "NET"] /\ traffic' = TRUE
  /\ cur' = next /\ Moves("enter")
  /\ UNCHANGED <<next, pend, request, flags, users, core, ans, faults>>

(* stall_leave and reset_leave                                                  *)
LeaveWithCommand ==
  /\ ctrl = "leave" /\ cur \in {"STALL", "RESET"} /\ ~LeavesQuietly
  /\ PrepareAndSend(IF cur = "STALL" THEN "FREERUN_DONE" ELSE "RELEASE_RESET_DONE")
  /\ Moves("leaveWait")
  /\ UNCHANGED <<cur, next, pend, flags, users, traffic, core, ans, faults>>

FaultyShutdown ==
  /\ ctrl = "enter" /\ cur = "SHUTDOWN"
  /\ core' = [c \in Cores |-> "off"] /\ bringUp' = FALSE
  /\ shuting' = FALSE
  /\ pend' = IF ~shuting /\ (inRecover \/ inReset) THEN pend \cup {"INIT"} ELSE pend
  /\ Moves("idle")
  /\ UNCHANGED <<cur, next, request, fail, inReset, inRecover, feSer, users, traffic,
                 cmd, ans, faults>>

EnterShutdown ==
  /\ ctrl = "enter" /\ cur = "SHUTDOWN"
  /\ core' = [c \in Cores |-> "off"] /\ bringUp' = FALSE
  /\ shuting' = FALSE /\ woken' = (woken \/ shuting)
  /\ pend' = IF ~shuting /\ (inRecover \/ inReset) THEN pend \cup {"INIT"} ELSE pend
  /\ Moves("idle")
  /\ UNCHANGED <<cur, next, request, fail, inReset, inRecover, feSer, owner, pc,
                 queued, req, traffic, cmd, ans, faults>>

(* init_enter: the power comes on, the mailboxes are emptied, TDMA is reset and *)
(* the firmware of the cores starts                                             *)
EnterInit ==
  /\ ctrl = "enter" /\ cur = "INIT"
  /\ cmd' = [c \in Cores |-> "none"] /\ ans' = [c \in Cores |-> "none"]
  /\ done' = {} /\ doneBit' = FALSE /\ doneCmd' = "INIT_DONE"
  /\ \/ /\ core' = [c \in Cores |-> "boot"] /\ Moves("enterWait")
        /\ UNCHANGED <<fail, faults, woken>>
     \/ Fault("firmware") /\ Failed /\ UNCHANGED core
  /\ UNCHANGED <<cur, next, pend, msg1, bringUp, inReset, inRecover, feSer, shuting,
                 owner, pc, queued, req, traffic>>

EnterInitUnpowered ==
  /\ ctrl = "enter" /\ cur = "INIT"
  /\ Fault("clock") /\ Failed
  /\ UNCHANGED <<cur, next, pend, request, bringUp, inReset, inRecover, feSer,
                 shuting, owner, pc, queued, req, traffic, core, cmd, ans>>

EnterFreerun ==
  /\ ctrl = "enter" /\ cur = "FREERUN" /\ Moves("idle")
  /\ UNCHANGED <<cur, next, pend, request, flags, users, hardware>>

EnterStall ==
  /\ ctrl = "enter" /\ cur = "STALL"
  /\ PrepareAndSend("STALL_DONE") /\ Moves("enterWait")
  /\ UNCHANGED <<cur, next, pend, flags, users, traffic, core, ans, faults>>

FaultyNetstop ==
  /\ ctrl = "enter" /\ cur = "NETSTOP"
  /\ IF bringUp
       THEN MailboxesFree(Cores) /\ cmd' = [c \in Cores |-> "NET"] /\ traffic' = FALSE
       ELSE UNCHANGED <<cmd, traffic>>
  /\ pend' = pend \cup {IF inRecover THEN "ABNORMAL"
                        ELSE IF inReset THEN "RESET" ELSE "SHUTDOWN"}
  /\ Moves("idle")
  /\ UNCHANGED <<cur, next, request, flags, users, core, ans, faults>>

(* netstop_enter: the tunnels are flushed, mtk_tops_tdma_disable tells the      *)
(* cores if they are up, and the next act follows from why the network stops.   *)
EnterNetstop ==
  /\ ctrl = "enter" /\ cur = "NETSTOP"
  /\ IF bringUp
       THEN MailboxesFree(Cores) /\ cmd' = [c \in Cores |-> "NET"]
       ELSE UNCHANGED cmd
  /\ traffic' = FALSE
  /\ pend' = pend \cup {IF inRecover THEN "ABNORMAL"
                        ELSE IF inReset THEN "RESET" ELSE "SHUTDOWN"}
  /\ Moves("idle")
  /\ UNCHANGED <<cur, next, request, flags, users, core, ans, faults>>

EnterReset ==
  /\ ctrl = "enter" /\ cur = "RESET" /\ ~feSer
  /\ PrepareAndSend("ASSERT_RESET_DONE") /\ Moves("enterWait")
  /\ UNCHANGED <<cur, next, pend, flags, users, traffic, core, ans, faults>>

(* the frame engine is being reset: the cores are not told                      *)
EnterResetSilently ==
  /\ ctrl = "enter" /\ cur = "RESET" /\ feSer
  /\ done' = Cores /\ doneBit' = FALSE /\ doneCmd' = "ASSERT_RESET_DONE"
  /\ Moves("enterWait")
  /\ UNCHANGED <<cur, next, pend, msg1, flags, users, hardware>>

EnterAbnormal ==
  /\ ctrl = "enter" /\ cur = "ABNORMAL"
  /\ pend' = pend \cup {"SHUTDOWN"} /\ Moves("idle")
  /\ UNCHANGED <<cur, next, request, flags, users, hardware>>

(* mcu_state_wait_complete, with init_enter_complete_cb                         *)
Completes ==
  /\ Waiting /\ ~fail /\ done = Cores
  /\ msg1' = doneCmd /\ doneBit' = TRUE /\ woken' = TRUE
  /\ Moves(IF ctrl = "leaveWait" THEN "leaveEnd" ELSE "enterEnd")
  /\ IF ctrl = "enterWait" /\ cur = "INIT"
       THEN /\ bringUp' = TRUE /\ inReset' = FALSE /\ inRecover' = FALSE
            /\ feSer' = FALSE /\ pend' = pend \cup {"FREERUN"}
       ELSE UNCHANGED <<bringUp, inReset, inRecover, feSer, pend>>
  /\ UNCHANGED <<cur, next, done, doneCmd, fail, shuting, owner, pc, queued, req,
                 hardware>>

WaitFails ==
  /\ Waiting /\ fail /\ Failed
  /\ UNCHANGED <<cur, next, pend, request, bringUp, inReset, inRecover, feSer,
                 shuting, owner, pc, queued, req, hardware>>

(* mcu_state_trans_end after a wait: the timer stops                            *)
TimerStops ==
  /\ \/ ctrl = "leaveEnd" /\ Moves("enter") /\ cur' = next
     \/ ctrl = "enterEnd" /\ Moves("idle") /\ UNCHANGED cur
  /\ UNCHANGED <<next, pend, request, flags, users, hardware>>

Control ==
  \/ Take \/ Leave \/ LeaveInit \/ LeaveWithCommand
  \/ EnterShutdown \/ EnterInit \/ EnterInitUnpowered \/ EnterFreerun \/ EnterStall
  \/ EnterNetstop \/ EnterReset \/ EnterResetSilently \/ EnterAbnormal
  \/ Completes \/ WaitFails \/ TimerStops

(* mtk_tops_mcu_state_trans_timeout                                             *)
TimesOut ==
  /\ armed /\ (Punctual => Stuck) /\ (Prompt => UsersRest)
  /\ armed' = FALSE /\ fail' = TRUE
  /\ UNCHANGED <<cur, next, ctrl, pend, request, bringUp, inReset, inRecover, feSer, shuting, users,
                 hardware>>

---------------------------------------------------------------------------------
(* The cores and their mailboxes (external), and the interrupt of an answer     *)

AnswerTo == [STALL |-> "STALL_DONE", FREERUN |-> "FREERUN_DONE",
             ASSERT_RESET |-> "ASSERT_RESET_DONE",
             RELEASE_RESET |-> "RELEASE_RESET_DONE"]
ModeAfter == [STALL |-> "stalled", FREERUN |-> "run", ASSERT_RESET |-> "reset",
              RELEASE_RESET |-> "run"]

Alive(c) == core[c] \in {"run", "stalled", "reset"}

CoreBoots(c) ==
  /\ core[c] = "boot" /\ ans[c] = "none"
  /\ core' = [core EXCEPT ![c] = "run"]
  /\ ans' = [ans EXCEPT ![c] = "INIT_DONE"]
  /\ UNCHANGED <<machine, request, flags, users, traffic, cmd, faults>>

(* A core obeys a command, or takes a message that asks for no answer.          *)
CoreObeys(c) ==
  /\ Alive(c) /\ cmd[c] # "none" /\ ans[c] = "none"
  /\ cmd' = [cmd EXCEPT ![c] = "none"]
  /\ IF cmd[c] \in Commands
       THEN /\ core' = [core EXCEPT ![c] = ModeAfter[cmd[c]]]
            /\ ans' = [ans EXCEPT ![c] = AnswerTo[cmd[c]]]
       ELSE UNCHANGED <<core, ans>>
  /\ UNCHANGED <<machine, request, flags, users, traffic, faults>>

CoreRefuses(c) ==
  /\ Alive(c) /\ cmd[c] \in Commands /\ ans[c] = "none" /\ Fault("wrong")
  /\ cmd' = [cmd EXCEPT ![c] = "none"] /\ ans' = [ans EXCEPT ![c] = "ERROR"]
  /\ UNCHANGED <<machine, request, flags, users, traffic, core>>

(* A core hangs: a mute one still empties its mailbox, a deaf one does not.     *)
CoreHangs(c) ==
  /\ Alive(c) \/ core[c] = "boot"
  /\ \E kind \in {"mute", "deaf"} :
       Fault(kind) /\ core' = [core EXCEPT ![c] = kind]
  /\ UNCHANGED <<machine, request, flags, users, traffic, cmd, ans>>

MuteCoreTakes(c) ==
  /\ core[c] = "mute" /\ cmd[c] # "none"
  /\ cmd' = [cmd EXCEPT ![c] = "none"]
  /\ UNCHANGED <<machine, request, flags, users, traffic, core, ans, faults>>

FaultyReceive(c) ==
  /\ ans[c] # "none" /\ (Prompt => UsersRest)
  /\ ans' = [ans EXCEPT ![c] = "none"]
  /\ done' = done \cup {c}
  /\ UNCHANGED <<machine, msg1, doneBit, doneCmd, flags, owner, pc, queued, req, woken,
                 traffic, core, cmd, faults>>

(* mtk_tops_ap_recv_mgmt_mbox_msg, mtk_tops_ap_recv_offload_mbox_msg            *)
Receive(c) ==
  /\ ans[c] # "none" /\ (Prompt => UsersRest)
  /\ ans' = [ans EXCEPT ![c] = "none"]
  /\ IF ans[c] = doneCmd
       THEN done' = done \cup {c} /\ UNCHANGED fail
       ELSE fail' = TRUE /\ UNCHANGED done
  /\ UNCHANGED <<machine, msg1, doneBit, doneCmd, bringUp, inReset, inRecover, feSer,
                 shuting, users, traffic, core, cmd, faults>>

CoreStep(c) ==
  CoreBoots(c) \/ CoreObeys(c) \/ CoreRefuses(c) \/ CoreHangs(c) \/ MuteCoreTakes(c)
    \/ Receive(c)

---------------------------------------------------------------------------------
(* The users of the machine                                                     *)

FaultyLock(u) == owner' = u /\ (Prompt => MachineRests)
Lock(u) == owner = "none" /\ owner' = u /\ (Prompt => MachineRests)
Unlock(u) == owner = u /\ owner' = "none"
Goes(u, to) == pc' = [pc EXCEPT ![u] = to]

(* mcu_ctrl_cmd_prepare for the cores in mask; all of them if it is empty       *)
Prepare(c, mask) ==
  /\ msg1' = c
  /\ IF mask = {} THEN UNCHANGED <<done, doneBit>>
                  ELSE done' = Cores \ mask /\ doneBit' = FALSE
  /\ UNCHANGED doneCmd

Issue(act) == pend' = pend \cup {act} /\ UNCHANGED <<cur, next, ctrl, armed>>

(* mtk_tops_mcu_wait_done: a wait begins with a look at its condition ...        *)
Awaited == [stall |-> "STALL_DONE", freerun |-> "FREERUN_DONE",
            assert |-> "ASSERT_RESET_DONE", init |-> "INIT_DONE"]

WaitsAt(u, place) == Goes(u, place) /\ woken' = TRUE

(* ... goes on sleeping, if there is a waiter at all ...                        *)
StaysAsleep ==
  /\ woken /\ woken' = FALSE
  /\ \A u \in Users :
       /\ pc[u] \in DOMAIN Awaited => ~fail /\ ~IsComplete(Awaited[pc[u]])
       /\ pc[u] = "shutdown" => bringUp \/ shuting
  /\ UNCHANGED <<machine, request, flags, owner, pc, queued, req, hardware>>

FaultyWaitOver(u, place) ==
  /\ pc[u] = place /\ woken /\ ~fail /\ done = Cores
  /\ woken' = FALSE

(* ... and returns 0, or an error                                               *)
WaitOver(u, place) ==
  /\ pc[u] = place /\ woken /\ ~fail /\ IsComplete(Awaited[place])
  /\ woken' = FALSE

WaitFailed(u, place) == pc[u] = place /\ woken /\ fail /\ woken' = FALSE

(* No client has a request that is not over, and the driver is not being removed. *)
Calm == \A u \in Clients \cup {"remove"} : pc[u] = "idle"

(* The check before the lock, in mtk_tops_mcu_stall and mtk_tops_mcu_reset; the *)
(* clients are set up after mtk_tops_mcu_bring_up has returned.                 *)
Accepts == bringUp /\ ~fail /\ pc["boot"] = "idle" /\ (Overlap \/ Calm)

FaultyGivesUp(u, place) ==
  /\ WaitFailed(u, place) /\ Goes(u, "idle") /\ queued' = TRUE
  /\ UNCHANGED <<machine, request, flags, owner, req, hardware>>

(* "goto recover_mcu": the recover work is scheduled, the lock is released.     *)
GivesUp(u, place) ==
  /\ WaitFailed(u, place) /\ Unlock(u) /\ Goes(u, "idle") /\ queued' = TRUE
  /\ UNCHANGED <<machine, request, flags, req, hardware>>

(* mtk_tops_mcu_cold_boot                                                       *)
BootAsks ==
  /\ pc["boot"] = "start" /\ Lock("boot") /\ Issue("INIT") /\ WaitsAt("boot", "init")
  /\ UNCHANGED <<request, flags, queued, req, hardware>>

BootEnds ==
  /\ WaitOver("boot", "init")
  /\ Unlock("boot") /\ Goes("boot", "idle")
  /\ UNCHANGED <<machine, request, flags, queued, req, hardware>>

BootFails == GivesUp("boot", "init")

(* mtk_tops_mcu_stall: called by the thread that writes the tunnel table        *)
StallCalled ==
  /\ "sync" \in Clients /\ pc["sync"] = "idle" /\ Accepts /\ Goes("sync", "lock")
  /\ UNCHANGED <<machine, request, flags, owner, queued, req, woken, hardware>>

StallAsks ==
  /\ "sync" \in Clients /\ pc["sync"] = "lock" /\ Lock("sync")
  /\ Prepare("STALL", Cores) /\ Issue("STALL") /\ WaitsAt("sync", "stall")
  /\ UNCHANGED <<flags, queued, req, hardware>>

StallGranted ==
  /\ "sync" \in Clients /\ WaitOver("sync", "stall")
  /\ Goes("sync", "callback")
  /\ UNCHANGED <<machine, request, flags, owner, queued, req, hardware>>

StallEnds ==
  /\ "sync" \in Clients /\ pc["sync"] = "callback"
  /\ Prepare("FREERUN", Cores) /\ Issue("FREERUN")
  /\ WaitsAt("sync", "freerun")
  /\ UNCHANGED <<flags, owner, queued, req, hardware>>

StallServed ==
  /\ "sync" \in Clients /\ WaitOver("sync", "freerun")
  /\ Unlock("sync") /\ Goes("sync", "idle")
  /\ UNCHANGED <<machine, request, flags, queued, req, hardware>>

StallFails ==
  "sync" \in Clients /\ \E place \in {"stall", "freerun"} : GivesUp("sync", place)

(* mtk_tops_mcu_reset: called by the work of the system error recovery, for a   *)
(* reset of the frame engine or for the cores whose watchdog timed out          *)
ResetCalled(kind, S) ==
  /\ "ser" \in Clients /\ pc["ser"] = "idle" /\ Accepts /\ Goes("ser", "lock")
  /\ req' = [kind |-> kind, cores |-> S]
  /\ UNCHANGED <<machine, request, flags, owner, queued, woken, hardware>>

ResetAsks ==
  /\ "ser" \in Clients /\ pc["ser"] = "lock" /\ Lock("ser")
  /\ inReset' = TRUE /\ feSer' = (feSer \/ req.kind = "FE_RESET")
  /\ Prepare("ASSERT_RESET", IF req.kind = "FE_RESET" THEN {} ELSE Cores \ req.cores)
  /\ Issue("NETSTOP") /\ WaitsAt("ser", "assert")
  /\ UNCHANGED <<bringUp, fail, inRecover, shuting, queued, req, hardware>>

ResetGranted ==
  /\ "ser" \in Clients /\ WaitOver("ser", "assert")
  /\ Goes("ser", "callback")
  /\ UNCHANGED <<machine, request, flags, owner, queued, req, hardware>>

ResetRestarts ==
  /\ "ser" \in Clients /\ pc["ser"] = "callback"
  /\ Issue("SHUTDOWN") /\ WaitsAt("ser", "init")
  /\ UNCHANGED <<request, flags, owner, queued, req, hardware>>

ResetServed ==
  /\ "ser" \in Clients /\ WaitOver("ser", "init")
  /\ Unlock("ser") /\ Goes("ser", "idle")
  /\ UNCHANGED <<machine, request, flags, queued, req, hardware>>

ResetFails ==
  "ser" \in Clients /\ \E place \in {"assert", "init"} : GivesUp("ser", place)

(* mtk_tops_mcu_recover_work                                                    *)
RecoverRuns ==
  /\ queued /\ pc["recover"] = "idle" /\ queued' = FALSE /\ Goes("recover", "lock")
  /\ UNCHANGED <<machine, request, flags, owner, req, woken, hardware>>

RecoverAsks ==
  /\ pc["recover"] = "lock" /\ Lock("recover") /\ Goes("recover", "clear")
  /\ pend' = pend \cup (IF inReset \/ fail THEN {"NETSTOP"}
                        ELSE IF ~bringUp THEN {"INIT"} ELSE {})
  /\ UNCHANGED <<cur, next, ctrl, armed, request, flags, queued, req, woken, hardware>>

RecoverClears ==
  /\ pc["recover"] = "clear" /\ WaitsAt("recover", "init")
  /\ fail' = FALSE /\ inRecover' = TRUE
  /\ UNCHANGED <<machine, request, bringUp, inReset, feSer, shuting, owner, queued,
                 req, hardware>>

RecoverEnds ==
  /\ WaitOver("recover", "init")
  /\ Unlock("recover") /\ Goes("recover", "idle")
  /\ UNCHANGED <<machine, request, flags, queued, req, hardware>>

RecoverRetries ==
  /\ WaitFailed("recover", "init")
  /\ IF shuting
       THEN Unlock("recover") /\ Goes("recover", "idle") /\ UNCHANGED <<bringUp, fail>>
       ELSE /\ bringUp' = FALSE /\ fail' = FALSE
            /\ Goes("recover", "sleep") /\ UNCHANGED owner
  /\ UNCHANGED <<machine, request, inReset, inRecover, feSer, shuting, queued, req,
                 hardware>>

FaultyWakes ==
  /\ pc["recover"] = "sleep" /\ (Prompt => MachineRests) /\ WaitsAt("recover", "init")
  /\ UNCHANGED <<machine, request, flags, owner, queued, req, hardware>>

RecoverWakes ==
  /\ pc["recover"] = "sleep" /\ (Prompt => MachineRests)
  /\ Issue("NETSTOP") /\ WaitsAt("recover", "init")
  /\ UNCHANGED <<request, flags, owner, queued, req, hardware>>

(* mtk_tops_mcu_shutdown, and the kthread_stop of mtk_tops_mcu_tear_down        *)
RemoveCalled ==
  /\ MayRemove /\ pc["remove"] = "idle" /\ pc["boot"] = "idle"
  /\ Overlap \/ (Calm /\ ~queued /\ pc["recover"] = "idle")
  /\ shuting' = TRUE /\ Goes("remove", "lock")
  /\ UNCHANGED <<machine, request, bringUp, fail, inReset, inRecover, feSer, owner,
                 queued, req, woken, hardware>>

RemoveAsks ==
  /\ pc["remove"] = "lock" /\ Lock("remove") /\ Issue("NETSTOP")
  /\ WaitsAt("remove", "shutdown")
  /\ UNCHANGED <<request, flags, queued, req, hardware>>

RemoveEnds ==
  /\ pc["remove"] = "shutdown" /\ woken /\ ~bringUp /\ ~shuting /\ woken' = FALSE
  /\ Unlock("remove") /\ Goes("remove", "stop")
  /\ UNCHANGED <<machine, request, flags, queued, req, hardware>>

ThreadStops ==
  /\ pc["remove"] = "stop" /\ ctrl = "idle"
  /\ ctrl' = "gone" /\ Goes("remove", "gone")
  /\ UNCHANGED <<cur, next, armed, pend, request, flags, owner, queued, req, woken,
                 hardware>>

BootStep == BootAsks \/ BootEnds \/ BootFails
SyncStep == StallAsks \/ StallGranted \/ StallEnds \/ StallServed \/ StallFails
SerStep == ResetAsks \/ ResetGranted \/ ResetRestarts \/ ResetServed \/ ResetFails
RecoverStep ==
  RecoverRuns \/ RecoverAsks \/ RecoverClears \/ RecoverEnds \/ RecoverRetries
    \/ RecoverWakes
RemoveStep == RemoveAsks \/ RemoveEnds \/ ThreadStops

---------------------------------------------------------------------------------
Init ==
  /\ cur = "SHUTDOWN" /\ next = "SHUTDOWN" /\ ctrl = "idle" /\ armed = FALSE /\ pend = {}
  /\ msg1 = "none" /\ done = {} /\ doneBit = FALSE /\ doneCmd = "none"
  /\ bringUp = FALSE /\ fail = FALSE /\ inReset = FALSE /\ inRecover = FALSE
  /\ feSer = FALSE /\ shuting = FALSE
  /\ owner = "none" /\ queued = FALSE /\ req = NoReq /\ woken = FALSE
  /\ pc = [u \in Users |-> IF u = "boot" THEN "start" ELSE "idle"]
  /\ traffic = FALSE /\ faults = 0
  /\ core = [c \in Cores |-> "off"]
  /\ cmd = [c \in Cores |-> "none"] /\ ans = [c \in Cores |-> "none"]

(* The watchdog of a core times out when the core hangs.                        *)
Hung == {c \in Cores : core[c] \in {"mute", "deaf"}}

Calls ==
  \/ StallCalled
  \/ ResetCalled("FE_RESET", {})
  \/ \E S \in SUBSET Hung : S # {} /\ ResetCalled("WDT_TIMEOUT", S)
  \/ RemoveCalled

Next ==
  \/ StaysAsleep \/ Control \/ TimesOut \/ \E c \in Cores : CoreStep(c)
  \/ Calls \/ BootStep \/ SyncStep \/ SerStep \/ RecoverStep \/ RemoveStep

Spec == Init /\ [][Next]_vars

(* Fairness: the kernel's threads and the work run, a running timer expires     *)
(* when it is due, healthy cores obey and interrupts are delivered.  Nothing    *)
(* makes a client call.                                                         *)
Fairness ==
  /\ WF_vars(Control) /\ WF_vars(StaysAsleep) /\ WF_vars(TimesOut /\ Stuck)
  /\ \A c \in Cores :
       WF_vars(CoreBoots(c)) /\ WF_vars(CoreObeys(c)) /\ WF_vars(MuteCoreTakes(c))
         /\ WF_vars(Receive(c))
  /\ WF_vars(BootStep) /\ SF_vars(SyncStep) /\ SF_vars(SerStep)
  /\ SF_vars(RecoverStep) /\ SF_vars(RemoveStep)

FairSpec == Spec /\ Fairness

---------------------------------------------------------------------------------
MachineType ==
  /\ cur \in States /\ next \in States /\ pend \subseteq Acts
  /\ ctrl \in {"idle", "leave", "leaveWait", "leaveEnd", "enter", "enterWait",
               "enterEnd", "gone"}
  /\ armed \in BOOLEAN

RequestType ==
  /\ msg1 \in Commands \cup Answers \cup {"none"} /\ doneCmd \in Answers \cup {"none"}
  /\ done \subseteq Cores /\ doneBit \in BOOLEAN

FlagsType == {bringUp, fail, inReset, inRecover, feSer, shuting} \subseteq BOOLEAN

UsersType ==
  /\ owner \in Users \cup {"none"}
  /\ pc \in [Users -> Holding \cup {"start", "idle", "lock", "stop", "gone"}]
  /\ queued \in BOOLEAN /\ woken \in BOOLEAN
  /\ req \in [kind : {"none", "FE_RESET", "WDT_TIMEOUT"}, cores : SUBSET Cores]

HardwareType ==
  /\ traffic \in BOOLEAN
  /\ core \in [Cores -> {"off", "boot", "run", "stalled", "reset", "mute", "deaf"}]
  /\ cmd \in [Cores -> Commands \cup Answers \cup {"NET", "none"}]
  /\ ans \in [Cores -> Answers \cup {"ERROR", "none"}]
  /\ faults \in 0 .. MaxFaults

(* What the fields of struct npu, the mailboxes and the cores can hold.         *)
TypeOK == MachineType /\ RequestType /\ FlagsType /\ UsersType /\ HardwareType

(* A user that is past its mutex_lock(&npu.mcu_ctrl_lock) and not at its unlock *)
(* is the owner of the lock, and the owner is such a user: no path of           *)
(* mtk_tops_mcu_stall, mtk_tops_mcu_reset, the recover work or the removal      *)
(* leaves the lock behind or goes on without it.                                *)
LockHeld ==
  \A u \in Users : (owner = u) <=> pc[u] \in Holding

(* While the control thread leaves a state, the next one is one of these.       *)
LeavesFor == [
  SHUTDOWN |-> {"INIT"}, INIT |-> {"FREERUN", "NETSTOP"}, FREERUN |-> {"STALL", "NETSTOP"},
  STALL |-> {"FREERUN", "NETSTOP"}, NETSTOP |-> {"RESET", "SHUTDOWN"},
  RESET |-> {"FREERUN", "SHUTDOWN", "ABNORMAL"}, ABNORMAL |-> {"SHUTDOWN"} ]

ControlInOrder ==
  /\ ctrl \in {"leave", "leaveWait", "leaveEnd"} => next \in LeavesFor[cur]
  /\ ctrl \in {"leaveWait", "leaveEnd"} => cur \in {"STALL", "RESET"}
  /\ ctrl \in {"enterWait", "enterEnd"} => cur \in {"INIT", "STALL", "RESET"}

(* ABNORMAL and RESET are asked for by netstop_enter, one of them, and taken    *)
(* before the machine does anything else.                                       *)
FollowUpComesFirst ==
  /\ {"ABNORMAL", "RESET"} \cap pend # {} => cur = "NETSTOP" /\ ctrl \in {"idle", "gone"}
  /\ ~({"ABNORMAL", "RESET"} \subseteq pend)

(* In the states in which the cores are reset, cut off or started, no traffic   *)
(* goes to them; netstop_enter is where it ends.                                *)
QuietStates ==
  /\ cur \in {"SHUTDOWN", "INIT", "ABNORMAL", "RESET"} => ~traffic
  /\ cur = "NETSTOP" /\ ctrl # "enter" => ~traffic

IInv == TypeOK /\ LockHeld /\ ControlInOrder /\ FollowUpComesFirst /\ QuietStates

(* mtk_tops_mcu_stall: while its callback writes the tunnel table no core runs. *)
(* Answers left over from an earlier request that failed, or a callback that    *)
(* the recovery overtakes, would break this.                                    *)
StalledInCallback ==
  "sync" \in Clients /\ pc["sync"] = "callback" =>
    \A c \in Cores : core[c] \in {"stalled", "mute", "deaf"}

(* mcu_power_off: the cores lose power only while no packets are sent to them,  *)
(* and the machine enters RESET only in that state, whatever was pending.       *)
PowerCutIsQuiet ==
  [][/\ \A c \in Cores : core'[c] = "off" /\ core[c] # "off" => ~traffic
     /\ cur' = "RESET" /\ cur # "RESET" => cur = "NETSTOP" /\ ~traffic]_vars

(* The stall as its caller sees it: TDMA is on when the callback starts and     *)
(* nothing turns it off, or on again, until the callback is over.  TopsFreeze   *)
(* has no phase "cut".                                                          *)
InCallback == "sync" \in Clients /\ pc["sync"] = "callback"

Phase ==
  IF InCallback THEN IF traffic THEN "frozen" ELSE "cut"
  ELSE IF traffic THEN "up" ELSE "down"

Freeze == INSTANCE TopsFreeze WITH phase <- Phase
IsFreeze == Freeze!Spec

(* mtk_tops_mcu_reset, mtk_tops_mcu_cold_boot and the recover work wait for     *)
(* INIT_DONE: when they report success the cores have been started.             *)
SuccessMeansAlive ==
  [][\A u \in Users :
       pc[u] = "init" /\ pc'[u] = "idle" /\ ~fail /\ ~shuting =>
         bringUp /\ \A c \in Cores : core[c] \notin {"off", "boot"}]_vars

(* A transition that failed is repaired: the machine is up again and takes      *)
(* requests (mtk_tops_mcu_alive), unless the driver is removed.                 *)
FailureIsRecovered ==
  fail ~> (bringUp /\ ~fail /\ ~inReset) \/ pc["remove"] # "idle"

(* Every request ends, well or badly: mcu_ctrl_lock is given back.              *)
LockIsReleased == (owner # "none") ~> (owner = "none")

(* mtk_tops_mcu_shutdown and mtk_tops_mcu_tear_down return.                     *)
RemovalEnds == (pc["remove"] = "lock") ~> (pc["remove"] = "gone")

(* The comment in mcu_ctrl_task: "mcu_ctrl_lock must be held before             *)
(* mcu_ctrl_task start", which it asserts for every act it takes.  The code     *)
(* does not keep to it: the users let go once INIT_DONE has come, before the    *)
(* act FREERUN is taken.                                                        *)
ActsUnderLock == [][Take => owner # "none"]_vars

(* A state transition fails only if something went wrong.                       *)
NoFailureByItself == fail => faults > 0
=================================================================================
