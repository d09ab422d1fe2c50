----------------------------- MODULE NmbmMtdProofs -----------------------------
(***************************************************************************)
(* Proofs about the sharing of the device (NmbmMtd), for any number of     *)
(* users, reboot notifiers and pages.                                      *)
(***************************************************************************)
EXTENDS NmbmMtd, TLAPS

(* The initial state: the device is free and nobody asks for it.            *)
LEMMA InitIInv == Init => IInv
  BY ThreadAssumption DEF Init, IInv, TypeOK, OneAtATime, NoLostWakeup, Inside,
     Threads, UserStates

(* A call of nmbm_get_device that starts changes nothing of the device.     *)
LEMMA EnterKeeps ==
  ASSUME IInv, NEW t \in Threads,
         UserCall(t) \/ ShutdownCall(t)
  PROVE  IInv'
<1>1. PICK s \in UserStates \cup {"FL_PM_SUSPENDED"} :
        /\ Enter(t, s)
        /\ s = "FL_PM_SUSPENDED" <=> t \in Rebooters
  BY ThreadAssumption DEF UserCall, ShutdownCall, UserStates
<1>2. Inside' = Inside
  BY <1>1 DEF Enter, Inside, IInv, TypeOK
<1>3. TypeOK'
  BY <1>1 DEF Enter, IInv, TypeOK
<1>4. \A u \in Inside : want'[u] = want[u]
  BY <1>1 DEF Enter, Inside, IInv, TypeOK
<1>5. \A u \in Threads :
        /\ pc'[u] # "out" => (want'[u] = "FL_PM_SUSPENDED" <=> u \in Rebooters)
        /\ pc'[u] = "suspended" => state = "FL_PM_SUSPENDED"
  BY <1>1 DEF Enter, IInv, TypeOK
<1>6. \A u \in wq : pc'[u] = "schedule"
  BY <1>1 DEF Enter, IInv, TypeOK
<1>7. state' = state /\ wq' = wq /\ asleep' = asleep
  BY <1>1 DEF Enter
<1> QED
  BY <1>2, <1>3, <1>4, <1>5, <1>6, <1>7 DEF IInv, OneAtATime, NoLostWakeup

(* nmbm_get_device lets a thread in only when nobody is, and sends it to    *)
(* sleep only while somebody is or the device is suspended.                 *)
LEMMA GetDeviceKeeps ==
  ASSUME IInv, NEW t \in Threads, GetDevice(t)
  PROVE  IInv'
<1>1. pc[t] = "retry" /\ t \notin wq /\ t \notin asleep /\ t \notin Inside
  BY DEF GetDevice, IInv, Inside
<1>2. want' = want /\ panic' = panic /\ left' = left
  BY DEF GetDevice
<1>3. CASE Granted(t)
  <2>1. Inside = {} /\ Inside' = {t}
    BY <1>3 DEF Granted, Inside, IInv, OneAtATime, TypeOK
  <2>2. TypeOK'
    BY <1>2, <1>3 DEF Granted, IInv, TypeOK
  <2>3. state' # "FL_READY" /\ asleep' = {} /\ wq' = wq
    BY <1>3 DEF Granted, IInv, TypeOK, NoLostWakeup, UserStates
  <2>4. \A u \in Threads :
          /\ pc'[u] # "out" => (want[u] = "FL_PM_SUSPENDED" <=> u \in Rebooters)
          /\ pc'[u] = "suspended" => state' = "FL_PM_SUSPENDED"
    BY <1>1, <1>3 DEF Granted, IInv, TypeOK
  <2>5. \A u \in wq : pc'[u] = "schedule"
    BY <1>1, <1>3 DEF Granted, IInv, TypeOK
  <2>6. \A u \in Inside' : state' = want'[u]
    BY <1>2, <1>3, <2>1 DEF Granted
  <2> QED
    BY <1>2, <2>1, <2>2, <2>3, <2>4, <2>5, <2>6
    DEF IInv, OneAtATime, NoLostWakeup
<1>4. CASE AlreadySuspended(t)
  <2>1. Inside' = Inside
    BY <1>1, <1>4 DEF AlreadySuspended, Inside, IInv, TypeOK
  <2>2. TypeOK'
    BY <1>2, <1>4 DEF AlreadySuspended, IInv, TypeOK
  <2>3. \A u \in Threads :
          /\ pc'[u] # "out" => (want[u] = "FL_PM_SUSPENDED" <=> u \in Rebooters)
          /\ pc'[u] = "suspended" => state = "FL_PM_SUSPENDED"
    BY <1>1, <1>4 DEF AlreadySuspended, IInv, TypeOK
  <2>4. \A u \in wq : pc'[u] = "schedule"
    BY <1>1, <1>4 DEF AlreadySuspended, IInv, TypeOK
  <2> QED
    BY <1>2, <1>4, <2>1, <2>2, <2>3, <2>4
    DEF IInv, OneAtATime, NoLostWakeup, AlreadySuspended
<1>5. CASE MustWait(t)
  <2>1. Inside' = Inside
    BY <1>1, <1>5 DEF MustWait, Inside, IInv, TypeOK
  <2>2. TypeOK'
    BY <1>2, <1>5 DEF MustWait, IInv, TypeOK
  <2>3. \A u \in Threads :
          /\ pc'[u] # "out" => (want[u] = "FL_PM_SUSPENDED" <=> u \in Rebooters)
          /\ pc'[u] = "suspended" => state = "FL_PM_SUSPENDED"
    BY <1>1, <1>5 DEF MustWait, IInv, TypeOK
  <2>4. \A u \in wq' : pc'[u] = "schedule"
    BY <1>1, <1>5 DEF MustWait, IInv, TypeOK
  <2>5. state' = state /\ state # "FL_READY" /\ asleep' \subseteq wq'
    BY <1>5 DEF MustWait, IInv
  <2> QED
    BY <1>2, <2>1, <2>2, <2>3, <2>4, <2>5 DEF IInv, OneAtATime, NoLostWakeup
<1> QED
  BY <1>3, <1>4, <1>5 DEF GetDevice

(* A thread that wakes up leaves the queue and asks again.                  *)
LEMMA ScheduleKeeps ==
  ASSUME IInv, NEW t \in Threads, Schedule(t)
  PROVE  IInv'
<1>1. Inside' = Inside
  BY DEF Schedule, Inside, IInv, TypeOK
<1>2. TypeOK'
  BY DEF Schedule, IInv, TypeOK
<1>3. \A u \in Threads :
        /\ pc'[u] # "out" => (want[u] = "FL_PM_SUSPENDED" <=> u \in Rebooters)
        /\ pc'[u] = "suspended" => state = "FL_PM_SUSPENDED"
  BY DEF Schedule, IInv, TypeOK
<1>4. \A u \in wq' : pc'[u] = "schedule"
  BY DEF Schedule, IInv, TypeOK
<1>5. asleep' \subseteq wq'
  BY DEF Schedule, IInv
<1>6. state' = state /\ asleep' = asleep /\ want' = want
  BY DEF Schedule
<1> QED
  BY <1>1, <1>2, <1>3, <1>4, <1>5, <1>6 DEF IInv, OneAtATime, NoLostWakeup

(* nmbm_release_device leaves nobody inside and nobody asleep, since all    *)
(* sleepers are in the queue.                                               *)
LEMMA ReleaseKeeps ==
  ASSUME IInv, NEW t \in Threads, ReleaseDevice(t)
  PROVE  IInv'
<1>1. Inside = {t}
  BY DEF ReleaseDevice, IInv, OneAtATime, Inside
<1>2. Inside' = {}
  BY <1>1 DEF ReleaseDevice, Inside, IInv, TypeOK
<1>3. TypeOK'
  BY DEF ReleaseDevice, IInv, TypeOK
<1>4. asleep' = {} /\ state' = "FL_READY" /\ wq' = wq /\ want' = want
  BY DEF ReleaseDevice, IInv
<1>5. state # "FL_PM_SUSPENDED"
  <2>1. t \notin Rebooters /\ pc[t] # "out" /\ state = want[t]
    BY <1>1, ThreadAssumption DEF ReleaseDevice, IInv
  <2> QED
    BY <2>1 DEF IInv
<1>6. \A u \in Threads :
        /\ pc'[u] # "out" => (want[u] = "FL_PM_SUSPENDED" <=> u \in Rebooters)
        /\ pc'[u] # "suspended"
  BY <1>5 DEF ReleaseDevice, IInv, TypeOK
<1>7. \A u \in wq : pc'[u] = "schedule"
  BY DEF ReleaseDevice, IInv, TypeOK
<1> QED
  BY <1>2, <1>3, <1>4, <1>6, <1>7
  DEF IInv, OneAtATime, NoLostWakeup, UserStates

(* A panic touches neither the device nor its queue.                        *)
LEMMA PanicKeeps ==
  ASSUME IInv, Panic \/ PanicWrite \/ UNCHANGED vars
  PROVE  IInv'
<1>1. UNCHANGED <<state, wq, asleep, pc, want>>
  BY DEF Panic, PanicWrite, vars
<1>2. panic' \in {"no", "writing", "over"} /\ left' \in 0 .. Pages
  BY ThreadAssumption DEF Panic, PanicWrite, vars, IInv, TypeOK
<1> QED
  BY <1>1, <1>2 DEF IInv, TypeOK, OneAtATime, NoLostWakeup, Inside

LEMMA NextIInv == IInv /\ [Next]_vars => IInv'
<1> SUFFICES ASSUME IInv, [Next]_vars PROVE IInv'
  OBVIOUS
<1>1. ASSUME NEW t \in Threads, UserCall(t) \/ ShutdownCall(t)
      PROVE  IInv'
  BY <1>1, EnterKeeps
<1>2. ASSUME NEW t \in Threads, Runs(t)
      PROVE  IInv'
  BY <1>2, GetDeviceKeeps, ScheduleKeeps, ReleaseKeeps DEF Runs
<1> QED
  BY <1>1, <1>2, PanicKeeps DEF Next

(* The inductive invariant of the device's sharing holds in every state.    *)
THEOREM DeviceInvariant == Spec => []IInv
<1> QED
  BY InitIInv, NextIInv, PTL DEF Spec

(* At most one thread is between nmbm_get_device and nmbm_release_device,   *)
(* however many use the device.                                             *)
THEOREM OneCallAtATime == Spec => []OneAtATime
<1>1. IInv => OneAtATime
  BY DEF IInv
<1> QED
  BY <1>1, DeviceInvariant, PTL

(* No thread sleeps in nmbm_get_device while the device is free.            *)
THEOREM NobodySleepsOverAFreeDevice == Spec => []NoLostWakeup
<1>1. IInv => NoLostWakeup
  BY DEF IInv
<1> QED
  BY <1>1, DeviceInvariant, PTL

(* After nmbm_mtd_shutdown no call is running and none gets in.             *)
THEOREM SuspendedForGood == Spec => SuspendIsFinal
<1> DEFINE Stays == state = "FL_PM_SUSPENDED" =>
                      /\ state' = state
                      /\ Inside \subseteq Rebooters
                      /\ Inside' = Inside
<1>1. IInv /\ [Next]_vars => [Stays]_vars
  <2> SUFFICES ASSUME IInv, Next, state = "FL_PM_SUSPENDED"
               PROVE  state' = state /\ Inside \subseteq Rebooters
                      /\ Inside' = Inside
    BY DEF vars
  <2>1. Inside \subseteq Rebooters
    <3> SUFFICES ASSUME NEW t \in Inside PROVE t \in Rebooters
      OBVIOUS
    <3>1. t \in Threads /\ pc[t] = "inside" /\ want[t] = "FL_PM_SUSPENDED"
      BY DEF Inside, IInv
    <3> QED
      BY <3>1 DEF IInv
  <2>2. ASSUME NEW t \in Threads, NEW s, Enter(t, s)
        PROVE  state' = state /\ Inside' = Inside
    BY <2>2 DEF Enter, Inside, IInv, TypeOK
  <2>3. ASSUME NEW t \in Threads, GetDevice(t)
        PROVE  state' = state /\ Inside' = Inside
    BY <2>3 DEF GetDevice, Granted, AlreadySuspended, MustWait, Inside, IInv, TypeOK
  <2>4. ASSUME NEW t \in Threads, Schedule(t)
        PROVE  state' = state /\ Inside' = Inside
    BY <2>4 DEF Schedule, Inside, IInv, TypeOK
  <2>5. ASSUME NEW t \in Threads, ReleaseDevice(t)
        PROVE  FALSE
    <3>1. t \in Inside /\ t \in Users
      BY <2>5 DEF ReleaseDevice, Inside
    <3> QED
      BY <3>1, <2>1, ThreadAssumption
  <2>6. ASSUME Panic \/ PanicWrite
        PROVE  state' = state /\ Inside' = Inside
    BY <2>6 DEF Panic, PanicWrite, Inside
  <2>7. ASSUME NEW t \in Threads, UserCall(t) \/ ShutdownCall(t)
        PROVE  state' = state /\ Inside' = Inside
    BY <2>7, <2>2 DEF UserCall, ShutdownCall
  <2>8. ASSUME NEW t \in Threads, Runs(t)
        PROVE  state' = state /\ Inside' = Inside
    BY <2>8, <2>3, <2>4, <2>5 DEF Runs
  <2> QED
    BY <2>1, <2>6, <2>7, <2>8 DEF Next
<1> QED
  BY <1>1, DeviceInvariant, PTL DEF Spec, SuspendIsFinal
================================================================================
