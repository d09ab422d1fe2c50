-------------------------------- MODULE EthReset --------------------------------
(* The reset of the frame engine in mtk_eth: mtk_pending_work and everything it *)
(* shares with other contexts.  The reset is requested by the DMA monitor (a    *)
(* timer), by a transmit time-out, by debugfs and by a change of the link mode; *)
(* the Wi-Fi drivers are told through netdevice notifiers and answer through    *)
(* mtk_eth_netdevice_event; the users of the network devices open and close     *)
(* them.  The Wi-Fi drivers, the hardware and the users are external.           *)
(*                                                                              *)
(* rtnl is held by the work from the end of its wait to its end, by a notifier  *)
(* call and by an open or close of a device: RtnlFree is the guard of those.    *)
(* What begins with "Faulty" is a plausible mistake in the operator it is named *)
(* after, kept to show that the properties would catch it.                      *)
EXTENDS Integers, FiniteSets

CONSTANTS
  Chips,        \* the Wi-Fi chips
  MacCount,     \* MTK_MAC_COUNT network devices on one DMA ring
  FixedLink,    \* the devices without a PHY of their own ("fixed-link")
  NetsysV3,     \* TRUE on a SoC with MTK_NETSYS_V3
  Triggers,     \* the sources of requests: a subset of
                \* {"monitor", "switch", "debugfs", "timeout", "link", "fault"}
  HotPlug,      \* chips come and go
  UserOps,      \* devices are opened and closed by users
  OpenMayFail,  \* mtk_open fails for reasons outside the driver
  MaxForce,     \* bound on the counter "force"
  MaxDone,      \* bound on the completions left over in wait_ser_done
  MaxOwed       \* bound on the answers one chip owes

Macs == 1 .. MacCount

ASSUME ChipsAssumption == IsFiniteSet(Chips)
ASSUME MacsAssumption == MacCount \in Nat \ {0} /\ FixedLink \subseteq Macs
ASSUME FlagsAssumption == {NetsysV3, HotPlug, UserOps, OpenMayFail} \subseteq BOOLEAN
ASSUME BoundsAssumption == {MaxForce, MaxDone, MaxOwed} \subseteq Nat \ {0}

VARIABLES
  \* the work
  work,         \* how far mtk_pending_work is
  mac,          \* its loop variable i
  queued,       \* the work is scheduled
  resetting,    \* bit MTK_RESETTING
  reset_lock, force,
  flag,         \* mtk_reset_flag: "none" (0), "reset" (MTK_FE_START_RESET) or
                \* "stop" (MTK_FE_STOP_TRAFFIC)
  \* the handshake
  done,         \* completions in wait_ser_done
  wifi_num, rest_cnt, stop_fail,
  online,       \* external: the chips that announced themselves
  told,         \* external: what each chip was told in this round
  owed,         \* external: the answers each chip has still to give
  \* the sources
  hang,         \* hardware: what an engine hangs of, as its monitor names it
  status,       \* hardware: a fault is latched in MTK_FE_INT_STATUS
  timer,        \* mtk_dma_monitor_timer is armed
  monitor,      \* what mtk_dma_monitor found and is about to request
  link,         \* mtk_mac_config is about to force a reset
  \* the devices
  up,           \* the devices users have up (IFF_UP)
  attached,     \* the devices whose PHY is attached
  dma_refcnt,
  dma,          \* the DMA rings are set up and running
  \* history
  asked,        \* what was requested since the last announcement
  announced, ended,  \* the events that began and ended the last round
  disturbed     \* a wait ended without the answers it was for

round == <<work, mac, resetting, reset_lock>>
chips == <<online, told, owed>>
counts == <<wifi_num, rest_cnt, stop_fail, done>>
sources == <<hang, status, timer, monitor, link>>
devices == <<up, attached, dma_refcnt, dma>>
history == <<asked, announced, ended, disturbed>>
vars == <<round, queued, force, flag, counts, chips, sources, devices, history>>

RtnlFree == work \notin {"timer", "stop", "hw", "open", "notify", "clear"}

Kinds == {"reset", "stop"}

---------------------------------------------------------------------------------
(* Requests                                                                     *)

Request(kind) == queued' = TRUE /\ asked' = asked \cup {kind}

(* An engine hangs; one of the monitors of mtk_dma_monitor will see it.         *)
Hangs(kind) ==
  /\ "monitor" \in Triggers /\ hang = "none" /\ hang' = kind
  /\ UNCHANGED <<round, queued, force, flag, counts, chips, status, timer, monitor,
                 link, devices, history>>

MonitorFinds ==
  /\ timer /\ monitor = "none" /\ hang # "none"
  /\ reset_lock = 0 /\ force = 1
  /\ monitor' = hang
  /\ UNCHANGED <<round, queued, force, flag, counts, chips, hang, status, timer,
                 link, devices, history>>

FaultyKeepsFlag ==
  /\ monitor # "none"
  /\ flag' = (IF flag = "none" THEN monitor ELSE flag)
  /\ monitor' = "none" /\ Request(monitor)
  /\ UNCHANGED <<round, force, counts, chips, hang, status, timer, link, devices,
                 announced, ended, disturbed>>

MonitorRequests ==
  /\ monitor # "none"
  /\ flag' = monitor /\ monitor' = "none" /\ Request(monitor)
  /\ UNCHANGED <<round, force, counts, chips, hang, status, timer, link, devices,
                 announced, ended, disturbed>>

(* mtk_tx_timeout, called by the network core for a device that is up           *)
TxTimeout ==
  /\ "timeout" \in Triggers /\ up # {} /\ reset_lock = 0
  /\ Request("other")
  /\ UNCHANGED <<round, force, flag, counts, chips, sources, devices, announced,
                 ended, disturbed>>

(* "echo 0" and "echo 2" of debugfs switch the monitor off and on               *)
DebugSwitch ==
  /\ "switch" \in Triggers /\ force' \in {0, 1}
  /\ UNCHANGED <<round, queued, flag, counts, chips, sources, devices, history>>

(* "echo 1"                                                                     *)
DebugReset ==
  /\ "debugfs" \in Triggers /\ force = 1 /\ Request("other")
  /\ UNCHANGED <<round, force, flag, counts, chips, sources, devices, announced,
                 ended, disturbed>>

(* "echo 3"                                                                     *)
DebugStop ==
  /\ "debugfs" \in Triggers /\ force = 1 /\ flag' = "stop" /\ Request("other")
  /\ UNCHANGED <<round, force, counts, chips, sources, devices, announced, ended,
                 disturbed>>

(* mtk_mac_config: the check of MTK_RESETTING, and the request behind it        *)
LinkChange ==
  /\ "link" \in Triggers /\ ~resetting /\ ~link /\ link' = TRUE
  /\ UNCHANGED <<round, queued, force, flag, counts, chips, hang, status, timer,
                 monitor, devices, history>>

LinkForces ==
  /\ link /\ force < MaxForce /\ force' = force + 1 /\ link' = FALSE
  /\ Request("other")
  /\ UNCHANGED <<round, flag, counts, chips, hang, status, timer, monitor, devices,
                 announced, ended, disturbed>>

(* The frame engine latches a fault; its interrupt handler logs and clears it.  *)
FeFault ==
  /\ "fault" \in Triggers /\ ~status /\ status' = TRUE
  /\ UNCHANGED <<round, queued, force, flag, counts, chips, hang, timer, monitor,
                 link, devices, history>>

(* mtk_prepare_reset_fe masks the interrupt, mtk_hw_init unmasks it.            *)
Masked == work \in {"wait", "wait_again", "timer", "stop", "hw"}

FeIrq ==
  /\ status /\ ~Masked
  /\ status' = FALSE
  /\ UNCHANGED <<round, queued, force, flag, counts, chips, hang, timer, monitor,
                 link, devices, history>>

---------------------------------------------------------------------------------
(* The devices: what mtk_open and mtk_stop on device m make of the rings.  A    *)
(* PHY that is attached cannot be attached again.  refcount_dec_and_test leaves *)
(* a count of zero at zero.                                                     *)

Rings == [attached |-> attached, refcnt |-> dma_refcnt, dma |-> dma]

Become(r) == attached' = r.attached /\ dma_refcnt' = r.refcnt /\ dma' = r.dma

FaultyNotLast(m, r) ==
  [attached |-> r.attached \ {m},
   refcnt |-> IF r.refcnt = 0 THEN 0 ELSE r.refcnt - 1, dma |-> FALSE]

Stopped(m, r) == [attached |-> r.attached \ {m},
                  refcnt |-> IF r.refcnt = 0 THEN 0 ELSE r.refcnt - 1,
                  dma |-> r.dma /\ r.refcnt # 1]

Attaches(m) == m \in FixedLink \/ m \notin attached

(* The outcomes of mtk_open: it cannot connect the PHY, it cannot set up the    *)
(* rings, or it succeeds.                                                       *)
OpenResults(m) ==
  {r \in {"no_phy", "no_dma", "ok"} :
     /\ r = "no_phy" => OpenMayFail \/ ~Attaches(m)
     /\ r = "no_dma" => OpenMayFail /\ Attaches(m) /\ dma_refcnt = 0
     /\ r = "ok" => Attaches(m)}

Opened(m, r) ==
  [attached |-> IF r = "no_phy" THEN attached ELSE attached \cup {m},
   refcnt |-> IF r = "ok" THEN dma_refcnt + 1 ELSE dma_refcnt,
   dma |-> IF r = "ok" THEN dma \/ dma_refcnt = 0 ELSE dma]

IfUp(m) ==
  /\ UserOps /\ RtnlFree /\ m \notin up
  /\ \E r \in OpenResults(m) :
       /\ Become(Opened(m, r))
       /\ up' = IF r = "ok" THEN up \cup {m} ELSE up
  /\ UNCHANGED <<round, queued, force, flag, counts, chips, sources, history>>

IfDown(m) ==
  /\ UserOps /\ RtnlFree /\ m \in up
  /\ Become(Stopped(m, Rings))
  /\ up' = up \ {m}
  /\ UNCHANGED <<round, queued, force, flag, counts, chips, sources, history>>

---------------------------------------------------------------------------------
(* mtk_pending_work                                                             *)

Start ==
  /\ work = "idle" /\ queued
  /\ queued' = FALSE /\ reset_lock' = reset_lock + 1 /\ work' = "check"
  /\ UNCHANGED <<mac, resetting, force, flag, counts, chips, sources, devices,
                 history>>

(* mtk_check_reset_event *)
Needed == status \/ force > 0

Check ==
  /\ work = "check" /\ Needed /\ work' = "prepare"
  /\ UNCHANGED <<mac, resetting, reset_lock, queued, force, flag, counts, chips,
                 sources, devices, history>>

FaultyKeepsLock ==
  /\ work = "check" /\ ~Needed /\ work' = "idle" /\ asked' = {}
  /\ UNCHANGED <<mac, resetting, reset_lock, queued, force, flag, counts, chips,
                 sources, devices, announced, ended, disturbed>>

NothingToDo ==
  /\ work = "check" /\ ~Needed
  /\ reset_lock' = reset_lock - 1 /\ work' = "idle" /\ asked' = {}
  /\ UNCHANGED <<mac, resetting, queued, force, flag, counts, chips, sources,
                 devices, announced, ended, disturbed>>

(* The notifiers are called for the first device only.                          *)
Tell(kind) ==
  /\ told' = [c \in Chips |-> IF c \in online THEN kind ELSE told[c]]
  /\ owed' = [c \in Chips |-> IF c \in online /\ owed[c] < MaxOwed
                              THEN owed[c] + 1 ELSE owed[c]]
  /\ UNCHANGED online

(* Under rtnl: the device is prepared and the Wi-Fi drivers are told; rtnl is   *)
(* given up for the wait.                                                       *)
Announce ==
  LET kind == IF flag = "stop" THEN "stop" ELSE "reset"
  IN /\ work = "prepare"
     /\ resetting' = TRUE /\ Tell(kind) /\ work' = "wait"
     /\ announced' = kind /\ asked' = {}
     /\ UNCHANGED <<mac, reset_lock, queued, force, flag, counts, sources, devices,
                    ended, disturbed>>

Answered ==
  /\ work \in {"wait", "wait_again"} /\ done > 0
  /\ done' = done - 1 /\ work' = "timer"
  /\ UNCHANGED <<mac, resetting, reset_lock, queued, force, flag, wifi_num, rest_cnt,
                 stop_fail, chips, sources, devices, history>>

Owing == {c \in Chips : owed[c] > 0}

FaultyNoTimeOut ==
  /\ work = "wait" /\ done = 0 /\ NetsysV3 /\ stop_fail
  /\ work' = "wait_again" /\ Tell("reset") /\ disturbed' = TRUE
  /\ UNCHANGED <<mac, resetting, reset_lock, queued, force, flag, counts, sources,
                 devices, asked, announced, ended>>

(* 3000 jiffies are longer than a run of the monitor's handler.                 *)
TimesOut ==
  /\ work \in {"wait", "wait_again"} /\ done = 0 /\ monitor = "none"
  /\ IF work = "wait" /\ NetsysV3 /\ stop_fail
     THEN work' = "wait_again" /\ Tell("reset")
     ELSE work' = "timer" /\ UNCHANGED chips
  /\ disturbed' = (disturbed \/ Owing # {})
  /\ UNCHANGED <<mac, resetting, reset_lock, queued, force, flag, counts, sources,
                 devices, asked, announced, ended>>

(* del_timer_sync waits for a monitor that is running.                          *)
StopMonitor ==
  /\ work = "timer" /\ monitor = "none"
  /\ timer' = FALSE /\ mac' = 1 /\ work' = "stop"
  /\ UNCHANGED <<resetting, reset_lock, queued, force, flag, counts, chips, hang,
                 status, monitor, link, devices, history>>

NextMac(from, to) ==
  IF mac < MacCount THEN mac' = mac + 1 /\ work' = from ELSE mac' = 1 /\ work' = to

FaultySkipsFirst ==
  /\ work = "stop" /\ NextMac("stop", "hw")
  /\ Become(IF mac = 1 THEN Rings ELSE [Rings EXCEPT !.refcnt = @ - 1])
  /\ UNCHANGED <<resetting, reset_lock, queued, force, flag, counts, chips, sources,
                 up, history>>

(* Every device is stopped, the ones that are down included.                    *)
StopDevice ==
  /\ work = "stop" /\ NextMac("stop", "hw")
  /\ Become(Stopped(mac, Rings))
  /\ UNCHANGED <<resetting, reset_lock, queued, force, flag, counts, chips, sources,
                 up, history>>

(* The warm reset takes in WDMA by itself on NETSYS_V3 only, and there only if   *)
(* the flag still says so; else the Wi-Fi drivers that were told to reset do it. *)
WdmaIsIn == IF NetsysV3 THEN flag = "reset" ELSE announced = "reset"

FaultyHwInit ==
  /\ work = "hw" /\ work' = "open"
  /\ status' = FALSE /\ hang' = (IF hang = "stop" THEN "none" ELSE hang)
  /\ UNCHANGED <<mac, resetting, reset_lock, queued, force, flag, counts, chips,
                 timer, monitor, link, devices, history>>

(* mtk_hw_init with MTK_TYPE_WARM_RESET                                         *)
HwInit ==
  /\ work = "hw" /\ work' = "open"
  /\ status' = FALSE
  /\ hang' = (IF hang = "reset" /\ ~WdmaIsIn THEN hang ELSE "none")
  /\ UNCHANGED <<mac, resetting, reset_lock, queued, force, flag, counts, chips,
                 timer, monitor, link, devices, history>>

(* A device that cannot be opened again is closed, which stops it once more if  *)
(* it was up.                                                                   *)
OpenDevice ==
  /\ work = "open" /\ NextMac("open", "notify")
  /\ \E r \in OpenResults(mac) :
       LET closes == r # "ok" /\ mac \in up
       IN /\ Become(IF closes THEN Stopped(mac, Opened(mac, r)) ELSE Opened(mac, r))
          /\ up' = IF closes THEN up \ {mac} ELSE up
  /\ UNCHANGED <<resetting, reset_lock, queued, force, flag, counts, chips, sources,
                 history>>

FaultyNoTimer ==
  /\ work = "notify" /\ work' = "clear"
  /\ ended' = (IF flag = "stop" THEN "start_traffic" ELSE "reset_done")
  /\ told' = [c \in Chips |-> "none"] /\ reset_lock' = reset_lock - 1
  /\ UNCHANGED <<mac, resetting, queued, force, flag, counts, online, owed, sources,
                 devices, asked, announced, disturbed>>

FaultyEndsOnlyStop ==
  /\ work = "notify" /\ work' = "clear"
  /\ ended' = (IF flag = "stop" THEN "start_traffic" ELSE "none")
  /\ told' = IF flag = "stop" THEN [c \in Chips |-> "none"] ELSE told
  /\ reset_lock' = reset_lock - 1 /\ timer' = TRUE
  /\ UNCHANGED <<mac, resetting, queued, force, flag, counts, online, owed, hang,
                 status, monitor, link, devices, asked, announced, disturbed>>

(* The lock is free before the monitor is armed: only the work itself, which is  *)
(* between the two, stops the monitor or arms it, and nobody else asks if it is. *)
EndRound ==
  /\ work = "notify" /\ work' = "clear"
  /\ ended' = (IF flag = "stop" THEN "start_traffic" ELSE "reset_done")
  /\ told' = [c \in Chips |-> "none"]
  /\ reset_lock' = reset_lock - 1 /\ timer' = TRUE
  /\ UNCHANGED <<mac, resetting, queued, force, flag, counts, online, owed, hang,
                 status, monitor, link, devices, asked, announced, disturbed>>

Clear ==
  /\ work = "clear" /\ work' = "idle"
  /\ flag' = "none" /\ resetting' = FALSE
  /\ UNCHANGED <<mac, reset_lock, queued, force, counts, chips, sources, devices,
                 history>>

---------------------------------------------------------------------------------
(* mtk_eth_netdevice_event                                                      *)

FaultyFirstAnswer(c) ==
  /\ RtnlFree /\ owed[c] > 0 /\ done < MaxDone
  /\ owed' = [owed EXCEPT ![c] = @ - 1]
  /\ done' = done + 1 /\ rest_cnt' = wifi_num
  /\ UNCHANGED <<round, queued, force, flag, wifi_num, stop_fail, online, told,
                 sources, devices, history>>

(* MTK_WIFI_RESET_DONE and MTK_FE_STOP_TRAFFIC_DONE                             *)
Answer(c) ==
  /\ RtnlFree /\ owed[c] > 0
  /\ owed' = [owed EXCEPT ![c] = @ - 1]
  /\ IF rest_cnt = 1
     THEN done < MaxDone /\ done' = done + 1 /\ rest_cnt' = wifi_num
     ELSE rest_cnt' = rest_cnt - 1 /\ UNCHANGED done
  /\ UNCHANGED <<round, queued, force, flag, wifi_num, stop_fail, online, told,
                 sources, devices, history>>

(* MTK_FE_STOP_TRAFFIC_DONE_FAIL *)
AnswerFail(c) ==
  /\ RtnlFree /\ owed[c] > 0 /\ told[c] = "stop" /\ done < MaxDone
  /\ owed' = [owed EXCEPT ![c] = @ - 1]
  /\ told' = [told EXCEPT ![c] = "failed"]
  /\ stop_fail' = TRUE /\ flag' = "reset"
  /\ done' = done + 1 /\ rest_cnt' = wifi_num /\ disturbed' = TRUE
  /\ UNCHANGED <<round, queued, force, wifi_num, online, sources, devices, asked,
                 announced, ended>>

Waiting == work \in {"wait", "wait_again"}

Online(c) ==
  /\ HotPlug /\ RtnlFree /\ c \notin online
  /\ online' = online \cup {c}
  /\ wifi_num' = wifi_num + 1 /\ rest_cnt' = wifi_num'
  /\ disturbed' = (disturbed \/ Waiting)
  /\ UNCHANGED <<round, queued, force, flag, stop_fail, done, told, owed, sources,
                 devices, asked, announced, ended>>

FaultyGoesUncounted(c) ==
  /\ HotPlug /\ RtnlFree /\ c \in online
  /\ online' = online \ {c}
  /\ told' = [told EXCEPT ![c] = "none"] /\ owed' = [owed EXCEPT ![c] = 0]
  /\ wifi_num' = wifi_num - 1 /\ UNCHANGED rest_cnt
  /\ disturbed' = (disturbed \/ Waiting)
  /\ UNCHANGED <<round, queued, force, flag, stop_fail, done, sources, devices,
                 asked, announced, ended>>

Offline(c) ==
  /\ HotPlug /\ RtnlFree /\ c \in online
  /\ online' = online \ {c}
  /\ told' = [told EXCEPT ![c] = "none"] /\ owed' = [owed EXCEPT ![c] = 0]
  /\ wifi_num' = wifi_num - 1 /\ rest_cnt' = wifi_num'
  /\ disturbed' = (disturbed \/ Waiting)
  /\ UNCHANGED <<round, queued, force, flag, stop_fail, done, sources, devices,
                 asked, announced, ended>>

---------------------------------------------------------------------------------
(* All devices are up when the model starts; without HotPlug so are the chips.  *)
Init ==
  /\ work = "idle" /\ mac = 1 /\ queued = FALSE /\ resetting = FALSE
  /\ reset_lock = 0 /\ force = 0 /\ flag = "reset"
  /\ online = (IF HotPlug THEN {} ELSE Chips)
  /\ wifi_num = Cardinality(online) /\ rest_cnt = wifi_num
  /\ stop_fail = FALSE /\ done = 0
  /\ told = [c \in Chips |-> "none"] /\ owed = [c \in Chips |-> 0]
  /\ hang = "none" /\ status = FALSE /\ timer = TRUE /\ monitor = "none"
  /\ link = FALSE
  /\ up = Macs /\ attached = Macs /\ dma_refcnt = MacCount /\ dma = TRUE
  /\ asked = {} /\ announced = "none" /\ ended = "none" /\ disturbed = FALSE

Work == \/ Start \/ Check \/ NothingToDo \/ Announce \/ Answered \/ TimesOut
        \/ StopMonitor \/ StopDevice \/ HwInit \/ OpenDevice \/ EndRound \/ Clear

Monitor == MonitorFinds \/ MonitorRequests

Wifi == \E c \in Chips : Answer(c) \/ AnswerFail(c) \/ Online(c) \/ Offline(c)

Others == \/ \E kind \in Kinds : Hangs(kind)
          \/ TxTimeout \/ DebugSwitch \/ DebugReset \/ DebugStop
          \/ LinkChange \/ LinkForces \/ FeFault \/ FeIrq
          \/ \E m \in Macs : IfUp(m) \/ IfDown(m)

Next == Work \/ Monitor \/ Wifi \/ Others

Spec == Init /\ [][Next]_vars

(* A work that is scheduled runs, its waits are bounded by their time-out, and  *)
(* a timer that is armed fires.                                                 *)
FairSpec == Spec /\ WF_vars(Work) /\ WF_vars(Monitor)

---------------------------------------------------------------------------------
(* Properties                                                                   *)

(* Type invariant: the shared variables of the reset stay in their ranges.      *)
TypeOK ==
  /\ work \in {"idle", "check", "prepare", "wait", "wait_again", "timer", "stop",
               "hw", "open", "notify", "clear"}
  /\ mac \in Macs /\ queued \in BOOLEAN /\ resetting \in BOOLEAN
  /\ reset_lock \in 0 .. 1 /\ force \in 0 .. MaxForce
  /\ flag \in Kinds \cup {"none"}
  /\ done \in 0 .. MaxDone /\ wifi_num \in Nat /\ rest_cnt \in Nat
  /\ stop_fail \in BOOLEAN
  /\ online \subseteq Chips /\ told \in [Chips -> Kinds \cup {"none", "failed"}]
  /\ owed \in [Chips -> 0 .. MaxOwed]
  /\ hang \in Kinds \cup {"none"} /\ status \in BOOLEAN /\ timer \in BOOLEAN
  /\ monitor \in Kinds \cup {"none"} /\ link \in BOOLEAN
  /\ up \subseteq Macs /\ attached \subseteq Macs
  /\ dma_refcnt \in Nat /\ dma \in BOOLEAN
  /\ asked \subseteq Kinds \cup {"other"}
  /\ announced \in Kinds \cup {"none"}
  /\ ended \in {"none", "start_traffic", "reset_done"} /\ disturbed \in BOOLEAN

(* Whatever comes in between - chips that come and go during a round, answers   *)
(* that are late or fail - the countdown of mtk_eth_netdevice_event can reach   *)
(* zero only by a step from one: it never starts below the answers it needs and *)
(* never passes zero, and only chips that are on line owe an answer.            *)
CountdownInStep ==
  /\ wifi_num = Cardinality(online)
  /\ rest_cnt \in (IF online = {} THEN {0} ELSE 1 .. wifi_num)
  /\ Owing \subseteq online

(* Unless a wait timed out, a stop failed or a chip came or went during a wait, *)
(* the hardware is reset only when every chip that was told has answered.       *)
ChipsAreQuiet ==
  work \in {"stop", "hw"} /\ ~disturbed => \A c \in online : told[c] # "none" /\ owed[c] = 0

(* The lock counts this work only, and while it is free the monitor is armed:   *)
(* no path through the work leaves the monitor switched off.                    *)
MonitorComesBack == reset_lock = 0 => timer

(* A hang of the WDMA that the monitor alone asked to reset is announced to the *)
(* Wi-Fi drivers as MTK_FE_START_RESET, never as a mere stop of the traffic.    *)
WdmaIsReset ==
  [][work = "prepare" /\ work' = "wait" /\ asked = {"reset"} => announced' = "reset"]_vars

(* What net-event.c says of it for the other engines: a hang of QDMA, ADMA or   *)
(* TDMA that the monitor alone asked to reset, and that is still there, is      *)
(* announced as MTK_FE_STOP_TRAFFIC.                                            *)
OthersAreStopped ==
  [][work = "prepare" /\ work' = "wait" /\ asked = {"stop"} /\ hang = "stop"
       => announced' = "stop"]_vars

(* "make sure that dma is properly shut down": the hardware is reset only with  *)
(* the DMA rings down.                                                          *)
DmaIsShutDown == work = "hw" => ~dma

(* "only shutdown DMA if this is the last user": outside the part of a round    *)
(* that stops and starts everything, a device that is up has its rings running. *)
UpIsServed == work \notin {"stop", "hw", "open"} /\ up # {} => dma

(* net-event.c: a reset induced by WDMA ends with MTK_FE_START_TRAFFIC, one     *)
(* induced by the other engines with MTK_FE_RESET_DONE.                         *)
EndAsDocumented ==
  work = "clear" => ended = (IF announced = "reset" THEN "start_traffic" ELSE "reset_done")

(* A round that began ends, whatever the chips do.                              *)
RoundEnds == work # "idle" ~> work = "idle"

(* A hang is recovered as long as the monitor is switched on (force is 1): the  *)
(* request is not lost to a round that is just running, nor to a lock or timer  *)
(* that a round forgot.                                                         *)
HangIsRecovered == hang # "none" /\ force = 1 ~> hang = "none" \/ force # 1

(* The inductive invariant behind the theorems of EthResetProofs: the lock and  *)
(* the timer follow the place the work is at, only chips on line are held, and  *)
(* a stop of the traffic is pending only if somebody else than the WDMA asked.  *)
LockAndTimer ==
  /\ reset_lock = (IF work \in {"idle", "clear"} THEN 0 ELSE 1)
  /\ timer <=> work \notin {"stop", "hw", "open", "notify"}

HeldOnline == \A c \in Chips : told[c] # "none" => c \in online

FlagAsAsked == asked = {"reset"} => flag # "stop"

IInv == TypeOK /\ CountdownInStep /\ LockAndTimer /\ HeldOnline /\ FlagAsAsked

(* What ChipsAreQuiet needs on top of IInv.  As long as nothing disturbed a     *)
(* wait, no answer and no completion is left over from one round to the next;   *)
(* during the wait the countdown is at the number of chips that still owe their *)
(* one answer, and it is completed once they have all given it.                 *)
NothingLeftOver == done = 0 /\ Owing = {} /\ rest_cnt = wifi_num

AllAnswered == done = 1 /\ Owing = {} /\ rest_cnt = wifi_num

CountsDown == done = 0 /\ rest_cnt = Cardinality(Owing) /\ \A c \in Chips : owed[c] <= 1

QuietInv ==
  ~disturbed =>
     /\ ~stop_fail
     /\ IF Waiting THEN AllAnswered \/ CountsDown ELSE NothingLeftOver
     /\ Waiting \/ work \in {"timer", "stop", "hw"} => \A c \in online : told[c] # "none"

(* What UpIsServed needs: the rings run while they have a user, every device    *)
(* that is up is a user except while a round takes them down, no PHY is left    *)
(* attached by that, so that every device can be opened again.                  *)
RingsByUsers == dma <=> dma_refcnt > 0

UpAreUsers == work \notin {"stop", "hw", "open"} => Cardinality(up) <= dma_refcnt

RoundDetaches ==
  /\ work = "stop" => \A m \in attached : m >= mac
  /\ work = "hw" => attached = {} /\ mac = 1
  /\ work = "open" => dma_refcnt >= mac - 1 /\ \A m \in attached : m < mac

ServedInv == RingsByUsers /\ UpAreUsers /\ RoundDetaches

(* The work implements the abstract round.                                      *)
Phase == CASE work \in {"wait", "wait_again", "timer", "stop", "hw"} -> "announced"
           [] work \in {"open", "notify"} -> "reset"
           [] OTHER -> "traffic"

Abstract == INSTANCE ResetRound
  WITH phase <- Phase, present <- online, held <- {c \in Chips : told[c] # "none"}

IsRound == Abstract!Safe
IsFairRound == Abstract!Spec
=================================================================================
