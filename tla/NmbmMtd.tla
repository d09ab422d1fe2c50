-------------------------------- MODULE NmbmMtd --------------------------------
(***************************************************************************)
(* How the threads that use the mapped-block device share it               *)
(* (drivers/mtd/nmbm/nmbm-mtd.c).  Every entry point takes the device with *)
(* nmbm_get_device and gives it back with nmbm_release_device; the reboot  *)
(* notifier takes it for good; the panic path takes nothing.               *)
(*                                                                         *)
(* What nmbm-core.c does between the two is one step here: module Nmbm     *)
(* models it, on the strength of OneAtATime below.  The body of a critical *)
(* section of nm->lock is one step, the sleep behind it another.           *)
(***************************************************************************)
EXTENDS Naturals, FiniteSets

CONSTANTS
  Users,      \* threads in nmbm_mtd_erase, _read_oob, _write_oob, _block_isbad
              \* or _block_markbad
  Rebooters,  \* threads in nmbm_mtd_shutdown
  Pages       \* pages of the record a panic leaves

Threads == Users \cup Rebooters

ASSUME ThreadAssumption == Users \cap Rebooters = {} /\ Pages \in Nat

VARIABLES
  state,      \* nm->state
  wq,         \* the threads in nm->wq
  asleep,     \* the threads in TASK_UNINTERRUPTIBLE
  pc,         \* where each thread is
  want,       \* its new_state
  panic,      \* "no", "writing" in nmbm_mtd_panic_write, or "over"
  left        \* pages the panic has yet to write

vars == <<state, wq, asleep, pc, want, panic, left>>

UserStates == {"FL_READING", "FL_WRITING", "FL_ERASING"}

(* A panic stops the other CPUs and never returns to the thread it hit.     *)
Running == panic = "no"

Enter(t, new_state) ==
  /\ Running /\ pc[t] = "out"
  /\ want' = [want EXCEPT ![t] = new_state]
  /\ pc' = [pc EXCEPT ![t] = "retry"]
  /\ UNCHANGED <<state, wq, asleep, panic, left>>

UserCall(t)     == t \in Users /\ \E s \in UserStates : Enter(t, s)
ShutdownCall(t) == t \in Rebooters /\ Enter(t, "FL_PM_SUSPENDED")

(* nmbm_get_device: one pass through its critical section.                  *)
(* Here and below, an operator "Faulty..." is the next one with a mistake.  *)
FaultySharedRead(t) ==
  /\ state = "FL_READY" \/ (state = "FL_READING" /\ want[t] = "FL_READING")
  /\ state' = want[t]
  /\ pc' = [pc EXCEPT ![t] = "inside"]
  /\ UNCHANGED <<wq, asleep>>

Granted(t) ==
  /\ state = "FL_READY"
  /\ state' = want[t]
  /\ pc' = [pc EXCEPT ![t] = "inside"]
  /\ UNCHANGED <<wq, asleep>>

FaultySteal(t) ==
  /\ state # "FL_READY" /\ want[t] = "FL_PM_SUSPENDED"
  /\ state' = "FL_PM_SUSPENDED"
  /\ pc' = [pc EXCEPT ![t] = "suspended"]
  /\ UNCHANGED <<wq, asleep>>

AlreadySuspended(t) ==
  /\ state = "FL_PM_SUSPENDED" /\ want[t] = "FL_PM_SUSPENDED"
  /\ pc' = [pc EXCEPT ![t] = "suspended"]
  /\ UNCHANGED <<state, wq, asleep>>

MustWait(t) ==
  /\ state # "FL_READY"
  /\ want[t] = "FL_PM_SUSPENDED" => state # "FL_PM_SUSPENDED"
  /\ asleep' = asleep \cup {t}
  /\ wq' = wq \cup {t}
  /\ pc' = [pc EXCEPT ![t] = "schedule"]
  /\ UNCHANGED state

GetDevice(t) ==
  /\ Running /\ pc[t] = "retry"
  /\ Granted(t) \/ AlreadySuspended(t) \/ MustWait(t)
  /\ UNCHANGED <<want, panic, left>>

(* schedule() returns once the thread is running, at once if it was woken   *)
(* before it came to sleep.                                                 *)
Schedule(t) ==
  /\ Running /\ pc[t] = "schedule" /\ t \notin asleep
  /\ wq' = wq \ {t}
  /\ pc' = [pc EXCEPT ![t] = "retry"]
  /\ UNCHANGED <<state, asleep, want, panic, left>>

(* The call is over: nmbm_release_device, whose wake_up wakes every waiter. *)
FaultyWakeOne(t) ==
  /\ Running /\ pc[t] = "inside" /\ t \in Users
  /\ state' = "FL_READY"
  /\ asleep' = IF Cardinality(wq) > 1 THEN asleep ELSE asleep \ wq
  /\ pc' = [pc EXCEPT ![t] = "out"]
  /\ UNCHANGED <<wq, want, panic, left>>

ReleaseDevice(t) ==
  /\ Running /\ pc[t] = "inside" /\ t \in Users
  /\ state' = "FL_READY"
  /\ asleep' = asleep \ wq
  /\ pc' = [pc EXCEPT ![t] = "out"]
  /\ UNCHANGED <<wq, want, panic, left>>

(* The kernel panics, in whatever call.                                     *)
Panic ==
  /\ Running
  /\ panic' = "writing" /\ left' = Pages
  /\ UNCHANGED <<state, wq, asleep, pc, want>>

(* nmbm_mtd_panic_write: page after page, up to the first that fails.       *)
FaultyPanicCount ==
  /\ panic = "writing"
  /\ \/ left' = left - 1 /\ UNCHANGED panic
     \/ panic' = "over" /\ UNCHANGED left
  /\ UNCHANGED <<state, wq, asleep, pc, want>>

FaultyPanicWaits ==
  /\ panic = "writing" /\ state = "FL_READY"
  /\ \/ left > 0 /\ left' = left - 1 /\ UNCHANGED panic
     \/ panic' = "over" /\ UNCHANGED left
  /\ UNCHANGED <<state, wq, asleep, pc, want>>

PanicWrite ==
  /\ panic = "writing"
  /\ \/ left > 0 /\ left' = left - 1 /\ UNCHANGED panic
     \/ panic' = "over" /\ UNCHANGED left
  /\ UNCHANGED <<state, wq, asleep, pc, want>>

Init ==
  /\ state = "FL_READY"
  /\ wq = {} /\ asleep = {}
  /\ pc = [t \in Threads |-> "out"]
  /\ want = [t \in Threads |-> "FL_READING"]
  /\ panic = "no" /\ left = 0

(* What a thread does without being asked to.                               *)
Runs(t) == GetDevice(t) \/ Schedule(t) \/ ReleaseDevice(t)

Next ==
  \/ \E t \in Threads : UserCall(t) \/ ShutdownCall(t) \/ Runs(t)
  \/ Panic \/ PanicWrite

Spec == Init /\ [][Next]_vars

(* Each thread that can run gets to run, and the panic path runs on.        *)
FairSpec == Spec /\ (\A t \in Threads : WF_vars(Runs(t))) /\ WF_vars(PanicWrite)

--------------------------------------------------------------------------------
(* Type invariant.                                                          *)
TypeOK ==
  /\ state \in UserStates \cup {"FL_READY", "FL_PM_SUSPENDED"}
  /\ wq \subseteq Threads /\ asleep \subseteq Threads
  /\ pc \in [Threads -> {"out", "retry", "schedule", "inside", "suspended"}]
  /\ want \in [Threads -> UserStates \cup {"FL_PM_SUSPENDED"}]
  /\ panic \in {"no", "writing", "over"}
  /\ left \in 0 .. Pages

Inside == {t \in Threads : pc[t] = "inside"}

(* At most one thread works on the layer and its page cache at a time, and  *)
(* none does while the device is free: what module Nmbm takes for granted.  *)
OneAtATime ==
  /\ \A t, u \in Inside : t = u
  /\ state = "FL_READY" => Inside = {}

(* A thread never sleeps in nmbm_get_device while the device is free: the   *)
(* wake_up of nmbm_release_device misses nobody, not even a thread between  *)
(* its add_wait_queue and its schedule.                                     *)
NoLostWakeup == state = "FL_READY" => asleep = {}

(* Once nmbm_mtd_shutdown has the device nobody gets it again: no call of   *)
(* the layer is running then, and none starts until the machine reboots.    *)
SuspendIsFinal ==
  [][state = "FL_PM_SUSPENDED" =>
       /\ state' = state
       /\ Inside \subseteq Rebooters
       /\ Inside' = Inside]_vars

(* While threads wait, somebody gets the device, or it was suspended.       *)
(* (Which one is the scheduler's choice: a waiter may lose every race.)     *)
Waiting == \E t \in Threads : pc[t] \in {"retry", "schedule"}
SomebodyGetsIt ==
  (Waiting /\ Inside = {}) ~> (Inside # {} \/ panic # "no" \/ state = "FL_PM_SUSPENDED")

(* A panic leaves its record whoever holds the device: the reason why       *)
(* nmbm_mtd_panic_write does without nmbm_get_device.                       *)
PanicGoesThrough == (panic = "writing") ~> (panic = "over")

--------------------------------------------------------------------------------
(* The inductive invariant behind OneAtATime, NoLostWakeup and              *)
(* SuspendIsFinal: a busy device has exactly one thread inside, and it is   *)
(* there with its new_state; who sleeps is in the queue, on the way to      *)
(* schedule().                                                              *)
IInv ==
  /\ TypeOK
  /\ OneAtATime
  /\ \A t \in Inside : state = want[t]
  /\ state \in UserStates => Inside # {}
  /\ \A t \in Threads :
       /\ pc[t] # "out" => (want[t] = "FL_PM_SUSPENDED" <=> t \in Rebooters)
       /\ pc[t] = "suspended" => state = "FL_PM_SUSPENDED"
  /\ asleep \subseteq wq
  /\ \A t \in wq : pc[t] = "schedule"
  /\ NoLostWakeup
================================================================================
