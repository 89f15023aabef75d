--------------------------- MODULE MonitorProofs ---------------------------
(***************************************************************************)
(* Proofs about Monitor, for every number of threads and calls: its types, *)
(* a thread owns the monitor exactly when it has captured it more often    *)
(* than released, waits return no more often than notify was called, both  *)
(* queues keep their order, and the holder of a spin lock can be selected. *)
(*                                                                         *)
(* Ownership speaks of threads between calls. What it needs in the         *)
(* middle of a call is OwnInv, label by label: capture has counted its     *)
(* call before the monitor does, release after it, and wait gives one      *)
(* level back that captureImpl takes again. A step of one thread leaves    *)
(* what the others know alone, because whoever changes the owner either    *)
(* is the owner or has seen, with the spin lock held ever since, that      *)
(* there is none (LockInv, FreeInv). The rest is WholeInv: who sleeps in a *)
(* queue is where it has let go of the spin lock (CallInv), only such a    *)
(* thread is off the scheduler or marked asleep (ScheduleInv, AwakeInv),   *)
(* so that a step in one queue disturbs nobody in the other, and flags     *)
(* that let a waiter out are a pulse nobody has taken (NotifyInv).         *)
(***************************************************************************)
EXTENDS Monitor, TLAPS

\* The types of what the proof is about.
OwnTypeOK ==
  /\ lock \in {0, 1}
  /\ ownerThreadId \in Threads \cup {NoOwner} /\ enterCounter \in Nat
  /\ isMultiPulse \in BOOLEAN /\ isPulseHandled \in BOOLEAN
  /\ mpc \in [Threads -> MonitorLabels]
  /\ depth \in [Threads -> Nat] /\ overLeft \in BOOLEAN /\ pulses \in Int

\* The spin lock: a thread past its capture finds it taken, and is alone there.
LockInv ==
  /\ \A t \in Threads : HoldsLock(t) => lock = 1
  /\ \A t, u \in Threads : HoldsLock(t) /\ HoldsLock(u) => t = u

\* The counter is zero exactly when nobody owns the monitor, and nobody does when a
\* thread is about to become the owner.
FreeInv ==
  /\ ownerThreadId = NoOwner <=> enterCounter = 0
  /\ \A t \in Threads : mpc[t] = "c_own" => ownerThreadId = NoOwner

\* What t knows at each of its labels.
Knows(t) ==
  /\ mpc[t] \in {"run", "unlock", "w_lock", "w_test", "n_lock", "n_pulse", "a_lock", "a_pulse"} =>
       /\ ownerThreadId = t <=> depth[t] > 0
       /\ ownerThreadId = t => enterCounter = depth[t]
  /\ mpc[t] \in {"c_lock", "c_test", "w_sleep", "w_relock", "w_check", "w_mark"} =>
       /\ depth[t] >= 1 /\ (ownerThreadId = t <=> depth[t] > 1)
       /\ ownerThreadId = t => enterCounter = depth[t] - 1
  /\ mpc[t] \in {"c_loop", "c_relock", "c_own"} => depth[t] = 1 /\ ownerThreadId # t
  /\ mpc[t] \in {"r_lock", "r_test"} =>
       /\ ownerThreadId = t => enterCounter = depth[t] + 1
       /\ depth[t] > 0 => ownerThreadId = t
  /\ mpc[t] = "w_leave" =>
       /\ depth[t] >= 1
       /\ ownerThreadId = t => enterCounter = depth[t]
       /\ ownerThreadId # t => depth[t] = 1

OwnInv == ~overLeft => \A t \in Threads : Knows(t)

\* A pulse that nobody has taken is one that notify gave, or the new monitor's flags.
PulseInv ==
  /\ pulses >= IF SleepsOn THEN -1 ELSE 0
  /\ \A t \in Threads : mpc[t] = "w_mark" => ~SleepsOn

IInv == OwnTypeOK /\ LockInv /\ FreeInv /\ OwnInv /\ PulseInv

-----------------------------------------------------------------------------

LEMMA WorkersAreThreads == Workers \subseteq Threads
BY DEF Workers

LEMMA NoOwnerIsNoThread == NoOwner \notin Threads
BY DEF NoOwner, Threads

LEMMA InitInv == Init => IInv
<1> SUFFICES ASSUME Init PROVE IInv
  OBVIOUS
<1>1. OwnTypeOK
  <2>1. /\ lock = 0 /\ ownerThreadId = NoOwner /\ enterCounter = 0
        /\ isMultiPulse = FALSE /\ isPulseHandled = FALSE
        /\ mpc = [t \in Threads |-> "run"]
        /\ depth = [t \in Threads |-> 0] /\ overLeft = FALSE /\ pulses = 0
    BY DEF Init
  <2>2. mpc \in [Threads -> MonitorLabels] /\ depth \in [Threads -> Nat]
    BY <2>1 DEF MonitorLabels
  <2>3. lock \in {0, 1} /\ ownerThreadId \in Threads \cup {NoOwner} /\ enterCounter \in Nat
    BY <2>1
  <2>4. isMultiPulse \in BOOLEAN /\ isPulseHandled \in BOOLEAN /\ overLeft \in BOOLEAN
    BY <2>1
  <2> QED
    BY <2>1, <2>2, <2>3, <2>4 DEF OwnTypeOK
<1>2. LockInv /\ FreeInv
  BY DEF Init, LockInv, HoldsLock, FreeInv
<1>3. OwnInv
  <2>1. ASSUME NEW t \in Threads PROVE Knows(t)
    <3>1. mpc[t] = "run" /\ depth[t] = 0 /\ ownerThreadId # t
      BY NoOwnerIsNoThread DEF Init
    <3> QED
      BY <3>1 DEF Knows
  <2> QED
    BY <2>1 DEF OwnInv
<1>4. PulseInv
  BY DEF Init, PulseInv, SleepsOn
<1> QED
  BY <1>1, <1>2, <1>3, <1>4 DEF IInv

\* A step of t keeps what another thread knows, if it leaves the other's place and
\* depth alone and changes the owner only from t to nobody or from nobody to t.
LEMMA OthersKnow ==
  ASSUME NEW t \in Threads, NEW u \in Threads \ {t}, Knows(u), NoOwner \notin Threads,
         mpc'[u] = mpc[u], depth'[u] = depth[u],
         \/ UNCHANGED ownVars
         \/ ownerThreadId \in {t, NoOwner} /\ ownerThreadId' \in {t, NoOwner}
  PROVE  Knows(u)'
BY DEF Knows, ownVars


\* What the steps of Monitor itself, outside the queues, do to the five variables
\* of the invariant, class by class.
LEMMA CallStep ==
  ASSUME IInv, NEW t \in Threads, Caller(t)
  PROVE  IInv'
<1> USE DEF IInv
<1>1. /\ mpc[t] = "run"
      /\ UNCHANGED <<lock, ownVars, flagVars, overLeft, pulses>>
      /\ \/ Goto(t, "c_lock") /\ depth' = [depth EXCEPT ![t] = @ + 1]
         \/ Goto(t, "r_lock") /\ depth[t] > 0 /\ depth' = [depth EXCEPT ![t] = @ - 1]
         \/ Goto(t, "r_lock") /\ depth[t] = 0 /\ UNCHANGED depth
         \/ (Goto(t, "w_lock") \/ Goto(t, "n_lock") \/ Goto(t, "a_lock")) /\ UNCHANGED depth
  BY DEF Caller, call_capture, call_release, misuse_release, call_wait, call_notify,
         call_notifyAll, Call, At
<1>2. OwnTypeOK'
  BY <1>1 DEF OwnTypeOK, Goto, MonitorLabels, ownVars, flagVars
<1>3. LockInv' /\ FreeInv' /\ PulseInv'
  BY <1>1 DEF LockInv, HoldsLock, FreeInv, PulseInv, SleepsOn, OwnTypeOK, Goto, ownVars,
              flagVars
<1>4. OwnInv'
  <2> SUFFICES ASSUME ~overLeft, NEW u \in Threads PROVE Knows(u)'
    BY <1>1 DEF OwnInv
  <2>1. CASE u = t
    BY <1>1, <2>1 DEF OwnInv, Knows, OwnTypeOK, Goto, ownVars
  <2>2. CASE u # t
    BY <1>1, <2>2, NoOwnerIsNoThread, OthersKnow DEF OwnInv, OwnTypeOK, Goto
  <2> QED
    BY <2>1, <2>2
<1> QED
  BY <1>2, <1>3, <1>4

\* The captures of the spin lock.
LEMMA CaptureStep ==
  ASSUME IInv, NEW t \in Threads,
         \/ c_lock(t) \/ c_relock(t) \/ r_lock(t) \/ w_lock(t) \/ w_relock(t)
         \/ n_lock(t) \/ a_lock(t)
  PROVE  IInv'
<1> USE DEF IInv
<1>1. /\ lock = 0 /\ lock' = 1
      /\ UNCHANGED <<ownVars, flagVars, depth, overLeft, pulses>>
      /\ \/ mpc[t] = "c_lock" /\ Goto(t, "c_test")
         \/ mpc[t] = "c_relock" /\ Goto(t, "c_loop")
         \/ mpc[t] = "r_lock" /\ Goto(t, "r_test")
         \/ mpc[t] = "w_lock" /\ Goto(t, "w_test")
         \/ mpc[t] = "w_relock" /\ Goto(t, "w_check")
         \/ mpc[t] = "n_lock" /\ Goto(t, "n_pulse")
         \/ mpc[t] = "a_lock" /\ Goto(t, "a_pulse")
  BY DEF c_lock, c_relock, r_lock, w_lock, w_relock, n_lock, a_lock, Capture, At, ghostVars
<1>2. OwnTypeOK'
  BY <1>1 DEF OwnTypeOK, Goto, MonitorLabels, ownVars, flagVars
<1>3. LockInv'
  BY <1>1 DEF LockInv, HoldsLock, OwnTypeOK, Goto
<1>4. FreeInv' /\ PulseInv'
  BY <1>1 DEF FreeInv, PulseInv, SleepsOn, OwnTypeOK, Goto, ownVars, flagVars
<1>5. OwnInv'
  <2> SUFFICES ASSUME ~overLeft, NEW u \in Threads PROVE Knows(u)'
    BY <1>1 DEF OwnInv
  <2>1. CASE u = t
    BY <1>1, <2>1 DEF OwnInv, Knows, OwnTypeOK, Goto, ownVars
  <2>2. CASE u # t
    BY <1>1, <2>2, NoOwnerIsNoThread, OthersKnow DEF OwnInv, OwnTypeOK, Goto
  <2> QED
    BY <2>1, <2>2
<1> QED
  BY <1>2, <1>3, <1>4, <1>5

\* The steps with the spin lock in hand that leave the owner, the counter and the
\* flags alone, and keep the lock or let go of it.
LEMMA LookStep ==
  ASSUME IInv, NEW t \in Threads,
         \/ c_other(t) \/ c_block(t) \/ c_free(t) \/ unlock(t) \/ w_test(t) \/ w_sleep(t)
         \/ w_again(t) \/ w_take(t)
  PROVE  IInv'
<1> USE DEF IInv
<1>1. /\ HoldsLock(t)
      /\ UNCHANGED <<ownVars, flagVars, depth, pulses>>
      /\ \/ mpc[t] = "c_test" /\ ownerThreadId # t /\ Goto(t, "c_loop") /\ UNCHANGED lock
         \/ mpc[t] = "c_loop" /\ Goto(t, "c_relock") /\ lock' = 0
         \/ mpc[t] = "c_loop" /\ ownerThreadId = NoOwner /\ Goto(t, "c_own") /\ UNCHANGED lock
         \/ mpc[t] = "unlock" /\ Goto(t, "run") /\ lock' = 0
         \/ mpc[t] = "w_test" /\ ownerThreadId = t /\ Goto(t, "w_leave") /\ UNCHANGED lock
         \/ mpc[t] = "w_test" /\ Goto(t, "unlock") /\ UNCHANGED lock
         \/ mpc[t] = "w_sleep" /\ Goto(t, "w_relock") /\ lock' = 0
         \/ mpc[t] = "w_check" /\ Goto(t, "w_leave") /\ UNCHANGED lock
            /\ (overLeft \/ ownerThreadId = t => overLeft')
         \/ mpc[t] = "w_check" /\ ~SleepsOn /\ Goto(t, "w_mark") /\ UNCHANGED lock
      /\ overLeft => overLeft'
      /\ overLeft' \in BOOLEAN
  <2> USE DEF At, HoldsLock, ghostVars, OwnTypeOK
  <2>1. CASE c_other(t) \/ c_block(t) \/ c_free(t) \/ unlock(t)
    BY <2>1 DEF c_other, c_block, c_free, unlock
  <2>2. CASE w_test(t) \/ w_sleep(t)
    BY <2>2 DEF w_test, w_sleep
  <2>3. CASE w_again(t) \/ w_take(t)
    BY <2>3 DEF w_again, w_take
  <2> QED
    BY <2>1, <2>2, <2>3
<1>2. OwnTypeOK'
  BY <1>1 DEF OwnTypeOK, Goto, MonitorLabels, ownVars, flagVars
<1>3. LockInv'
  BY <1>1 DEF LockInv, HoldsLock, OwnTypeOK, Goto
<1>4. FreeInv' /\ PulseInv'
  BY <1>1 DEF FreeInv, PulseInv, SleepsOn, OwnTypeOK, Goto, ownVars, flagVars
<1>5. OwnInv'
  <2> SUFFICES ASSUME ~overLeft', NEW u \in Threads PROVE Knows(u)'
    BY DEF OwnInv
  <2>1. CASE u = t
    BY <1>1, <2>1 DEF OwnInv, Knows, OwnTypeOK, Goto, ownVars
  <2>2. CASE u # t
    BY <1>1, <2>2, NoOwnerIsNoThread, OthersKnow DEF OwnInv, OwnTypeOK, Goto
  <2> QED
    BY <2>1, <2>2
<1> QED
  BY <1>2, <1>3, <1>4, <1>5

\* The monitor gains its owner, or the owner enters once more.
LEMMA EnterStep ==
  ASSUME IInv, NEW t \in Threads, c_count(t) \/ c_own(t)
  PROVE  IInv'
<1> USE DEF IInv
<1>1. /\ UNCHANGED <<lock, flagVars, depth, overLeft, pulses>>
      /\ Goto(t, "unlock") /\ enterCounter' = enterCounter + 1 /\ ownerThreadId' = t
      /\ \/ mpc[t] = "c_test" /\ ownerThreadId = t
         \/ mpc[t] = "c_own" /\ ownerThreadId = NoOwner
  BY DEF c_count, c_own, At, ghostVars, FreeInv
<1>2. OwnTypeOK'
  BY <1>1 DEF OwnTypeOK, Goto, MonitorLabels, flagVars
<1>3. LockInv'
  BY <1>1 DEF LockInv, HoldsLock, OwnTypeOK, Goto
<1>4. FreeInv'
  <2>1. t # NoOwner /\ enterCounter' # 0
    BY <1>1, NoOwnerIsNoThread DEF OwnTypeOK
  <2>2. \A u \in Threads : mpc'[u] # "c_own"
    BY <1>1 DEF LockInv, HoldsLock, OwnTypeOK, Goto
  <2> QED
    BY <1>1, <2>1, <2>2 DEF FreeInv
<1>5. PulseInv'
  BY <1>1 DEF PulseInv, SleepsOn, OwnTypeOK, Goto, flagVars
<1>6. OwnInv'
  <2> SUFFICES ASSUME ~overLeft, NEW u \in Threads PROVE Knows(u)'
    BY <1>1 DEF OwnInv
  <2>1. CASE u = t
    BY <1>1, <2>1, NoOwnerIsNoThread DEF OwnInv, Knows, FreeInv, OwnTypeOK, Goto
  <2>2. CASE u # t
    BY <1>1, <2>2, NoOwnerIsNoThread, OthersKnow DEF OwnInv, OwnTypeOK, Goto
  <2> QED
    BY <2>1, <2>2
<1> QED
  BY <1>2, <1>3, <1>4, <1>5, <1>6

\* releaseImpl, at both of its places.
LEMMA LeaveStep ==
  ASSUME IInv, NEW t \in Threads, r_leave(t) \/ w_leave(t)
  PROVE  IInv'
<1> USE DEF IInv
<1>1. /\ UNCHANGED <<lock, flagVars, depth, overLeft, pulses>>
      /\ \/ mpc[t] = "r_test" /\ Goto(t, "unlock")
         \/ mpc[t] = "w_leave" /\ Goto(t, "w_sleep")
      /\ \/ ownerThreadId = t /\ enterCounter - 1 = 0
            /\ enterCounter' = enterCounter - 1 /\ ownerThreadId' = NoOwner
         \/ ownerThreadId = t /\ enterCounter - 1 # 0
            /\ enterCounter' = enterCounter - 1 /\ ownerThreadId' = t
         \/ ownerThreadId # t /\ UNCHANGED ownVars
  BY DEF r_leave, w_leave, releaseImpl, LeaveLast, LeaveNested, LeaveStranger, At, ghostVars,
         ownVars
<1>2. OwnTypeOK'
  <2>1. enterCounter' \in Nat
    <3>1. ownerThreadId = t => enterCounter # 0
      BY NoOwnerIsNoThread DEF FreeInv
    <3> QED
      BY <1>1, <3>1 DEF OwnTypeOK, ownVars
  <2> QED
    BY <1>1, <2>1 DEF OwnTypeOK, Goto, MonitorLabels, flagVars, ownVars
<1>3. LockInv'
  BY <1>1 DEF LockInv, HoldsLock, OwnTypeOK, Goto
<1>4. FreeInv'
  <2>1. \A u \in Threads : mpc'[u] # "c_own"
    BY <1>1 DEF LockInv, HoldsLock, OwnTypeOK, Goto
  <2>2. ownerThreadId' = NoOwner <=> enterCounter' = 0
    BY <1>1, NoOwnerIsNoThread DEF FreeInv, OwnTypeOK, ownVars
  <2> QED
    BY <2>1, <2>2 DEF FreeInv
<1>5. PulseInv'
  BY <1>1 DEF PulseInv, SleepsOn, OwnTypeOK, Goto, flagVars
<1>6. OwnInv'
  <2> SUFFICES ASSUME ~overLeft, NEW u \in Threads PROVE Knows(u)'
    BY <1>1 DEF OwnInv
  <2>1. CASE u = t
    BY <1>1, <2>1, NoOwnerIsNoThread DEF OwnInv, Knows, FreeInv, OwnTypeOK, Goto, ownVars
  <2>2. CASE u # t
    BY <1>1, <2>2, NoOwnerIsNoThread, OthersKnow DEF OwnInv, OwnTypeOK, Goto
  <2> QED
    BY <2>1, <2>2
<1> QED
  BY <1>2, <1>3, <1>4, <1>5, <1>6

\* The steps that move the flags.
LEMMA PulseStep ==
  ASSUME IInv, NEW t \in Threads, n_pulse(t) \/ a_pulse(t) \/ w_mark(t)
  PROVE  IInv'
<1> USE DEF IInv
<1>1. /\ UNCHANGED <<lock, ownVars, depth, overLeft>>
      /\ \/ /\ mpc[t] = "n_pulse" /\ Goto(t, "unlock")
            /\ isMultiPulse' = FALSE /\ isPulseHandled' = FALSE /\ pulses' = pulses + 1
         \/ /\ mpc[t] = "a_pulse" /\ Goto(t, "unlock")
            /\ isMultiPulse' = TRUE /\ isPulseHandled' = FALSE /\ pulses' = pulses
         \/ /\ mpc[t] = "w_mark" /\ Goto(t, "c_test")
            /\ isMultiPulse' = isMultiPulse /\ isPulseHandled' = TRUE /\ pulses' = pulses - 1
  BY DEF n_pulse, a_pulse, w_mark, At, ghostVars
<1>2. OwnTypeOK'
  <2>1. isMultiPulse' \in BOOLEAN /\ isPulseHandled' \in BOOLEAN
    BY <1>1, Zenon DEF OwnTypeOK
  <2>2. pulses' \in Int
    <3>1. pulses \in Int /\ pulses' \in {pulses - 1, pulses, pulses + 1}
      BY <1>1, Zenon DEF OwnTypeOK
    <3> QED
      BY <3>1
  <2>3. mpc' \in [Threads -> MonitorLabels]
    BY <1>1 DEF OwnTypeOK, Goto, MonitorLabels
  <2> QED
    BY <1>1, <2>1, <2>2, <2>3 DEF OwnTypeOK, ownVars
<1>3. LockInv'
  BY <1>1 DEF LockInv, HoldsLock, OwnTypeOK, Goto
<1>4. FreeInv'
  BY <1>1 DEF FreeInv, OwnTypeOK, Goto, ownVars
<1>5. PulseInv'
  <2>1. \A u \in Threads : mpc'[u] # "w_mark"
    BY <1>1 DEF LockInv, HoldsLock, OwnTypeOK, Goto
  <2>2. pulses' >= IF SleepsOn' THEN -1 ELSE 0
    BY <1>1 DEF PulseInv, SleepsOn, OwnTypeOK
  <2> QED
    BY <2>1, <2>2 DEF PulseInv
<1>6. OwnInv'
  <2> SUFFICES ASSUME ~overLeft, NEW u \in Threads PROVE Knows(u)'
    BY <1>1 DEF OwnInv
  <2>1. CASE u = t
    BY <1>1, <2>1 DEF OwnInv, Knows, OwnTypeOK, Goto, ownVars
  <2>2. CASE u # t
    BY <1>1, <2>2, NoOwnerIsNoThread, OthersKnow DEF OwnInv, OwnTypeOK, Goto
  <2> QED
    BY <2>1, <2>2
<1> QED
  BY <1>2, <1>3, <1>4, <1>5, <1>6

\* Neither the queues nor the timer touch the monitor's own state.
LEMMA ElsewhereStep ==
  ASSUME IInv, UNCHANGED <<lock, ownVars, flagVars, mpc, depth, overLeft, pulses>>
  PROVE  IInv'
BY DEF IInv, OwnTypeOK, LockInv, HoldsLock, FreeInv, OwnInv, Knows, PulseInv, SleepsOn,
       ownVars, flagVars

LEMMA NextKeepsInv == IInv /\ [Next]_vars => IInv'
<1> SUFFICES ASSUME IInv, [Next]_vars PROVE IInv'
  OBVIOUS
<1>1. ASSUME NEW t \in Workers, Step(t) PROVE IInv'
  <2>1. t \in Threads
    BY WorkersAreThreads
  <2>2. CASE Caller(t)
    BY <2>1, <2>2, CallStep
  <2>3. CASE capture(t)
    BY <2>1, <2>3, CaptureStep, LookStep, EnterStep DEF capture
  <2>4. CASE release(t)
    BY <2>1, <2>4, CaptureStep, LeaveStep DEF release
  <2>5. CASE wait(t)
    BY <2>1, <2>5, CaptureStep, LookStep, LeaveStep, PulseStep DEF wait
  <2>6. CASE notify(t) \/ notifyAll(t)
    BY <2>1, <2>6, CaptureStep, PulseStep DEF notify, notifyAll
  <2>7. CASE InQueues(t)
    BY <2>7, ElsewhereStep DEF InQueues, ghostVars
  <2> QED
    BY <1>1, <2>2, <2>3, <2>4, <2>5, <2>6, <2>7 DEF Step
<1>2. CASE Tick
  BY <1>2, ElsewhereStep DEF Tick, ghostVars
<1>3. CASE UNCHANGED vars
  BY <1>3, ElsewhereStep DEF vars, ghostVars
<1> QED
  BY <1>1, <1>2, <1>3 DEF Next

THEOREM Invariance == Spec => []IInv
BY InitInv, NextKeepsInv, PTL DEF Spec

\* Between calls, a thread owns the monitor exactly when it has captured it more
\* often than released, and the counter is its depth; asleep in wait it owns it only
\* if it was inside twice (captureImpl, releaseImpl and wait of monitor.c).
THEOREM OwnerIsWhoCaptured == Spec => []OwnerMatchesDepth
<1>1. IInv => OwnerMatchesDepth
  BY WorkersAreThreads DEF IInv, OwnInv, Knows, OwnerMatchesDepth
<1> QED
  BY <1>1, Invariance, PTL

\* No two threads are past the capture of the monitor's spin lock.
THEOREM OneThreadInside ==
  Spec => [](\A t, u \in Threads : HoldsLock(t) /\ HoldsLock(u) => t = u)
<1>1. IInv => \A t, u \in Threads : HoldsLock(t) /\ HoldsLock(u) => t = u
  BY DEF IInv, LockInv
<1> QED
  BY <1>1, Invariance, PTL

\* Even when threads outrun their pauses, all waits together return at most once
\* more often than notify was called: the flags of a new monitor let one thread out.
THEOREM OneExitTooMany == Spec => [](pulses >= -1)
<1>1. IInv => pulses >= -1
  BY DEF IInv, PulseInv, OwnTypeOK
<1> QED
  BY <1>1, Invariance, PTL

-----------------------------------------------------------------------------
(* Types, and who can be selected. The queues of Monitor are two instances *)
(* of SleepQueue; the lemmas of SleepQueueProofs reach them through two    *)
(* instances of that module with the same substitutions.                   *)

RQ == INSTANCE SleepQueueProofs
  WITH WakeAll <- FALSE, head <- rhead, tail <- rtail, count <- rcount, qlock <- rlock,
       next <- rnext, qpc <- rpc, target <- rtarget

PQ == INSTANCE SleepQueueProofs
  WITH WakeAll <- FALSE, head <- phead, tail <- ptail, count <- pcount, qlock <- plock,
       next <- pnext, qpc <- ppc, target <- ptarget

\* Where a thread stands in Monitor while it is in a routine of a queue.
CallInv ==
  \A t \in Threads :
     /\ rpc[t] \in ReleaseQueue!WaitLabels => mpc[t] = "c_relock"
     /\ rpc[t] \in ReleaseQueue!WakeLabels => mpc[t] \in {"unlock", "w_sleep"}
     /\ ppc[t] \in ReleaseQueue!WaitLabels => mpc[t] = "w_relock"
     /\ ppc[t] \in ReleaseQueue!WakeLabels => mpc[t] = "unlock"
     /\ rpc[t] = "idle" \/ ppc[t] = "idle"

\* When nobody has outrun a pause, only who waits for its wake-up is off the scheduler.
ScheduleInv ==
  ~overran => \A t \in Threads : ~isUnderSheduling[t] => rpc[t] = "pInt" \/ ppc[t] = "pInt"

\* A slot says asleep only of a thread in the pause of one of the two queues.
InPause(qp, t) == qp[t] \in {"pUnder", "pInt"}

AwakeInv ==
  ~overran =>
    \A t \in Threads : state[t] = "WAITSLEEPJOIN" => InPause(rpc, t) \/ InPause(ppc, t)

\* Nobody has called notify or notifyAll yet: the flags are those of a new monitor,
\* which would let a waiter out, and every waiter is on its way into its pause.
Unnotified ==
  /\ ~isMultiPulse /\ ~isPulseHandled /\ pulses = 0
  /\ \A t \in Threads :
       /\ ppc[t] \notin ReleaseQueue!WakeLabels
       /\ mpc[t] = "w_relock" => /\ ppc[t] \in ReleaseQueue!WaitLabels
                                 /\ ppc[t] = "pInt" => ~isUnderSheduling[t]
       /\ mpc[t] \notin {"w_check", "w_mark"}

\* As long as no thread has outrun its pause, flags that let a waiter out are those of
\* a pulse of notify that nobody has taken.
NotifyInv == ~overran => IF SleepsOn THEN pulses >= 0 ELSE pulses >= 1 \/ Unnotified

WholeInv ==
  /\ IInv /\ TypeOK /\ CallInv /\ ScheduleInv
  /\ RQ!QueueInv /\ PQ!QueueInv /\ AwakeInv /\ NotifyInv

LEMMA SameRelease ==
  /\ RQ!QueueTypeOK <=> ReleaseQueue!QueueTypeOK
  /\ RQ!QueueTypeOK' <=> ReleaseQueue!QueueTypeOK'
  /\ RQ!ThreadsTypeOK <=> ThreadsTypeOK
  /\ RQ!ThreadsTypeOK' <=> ThreadsTypeOK'
  /\ RQ!QueueInit <=> ReleaseQueue!QueueInit
  /\ RQ!Threads = Threads
  /\ RQ!WaitLabels = ReleaseQueue!WaitLabels /\ RQ!WakeLabels = ReleaseQueue!WakeLabels
BY DEF RQ!QueueTypeOK, ReleaseQueue!QueueTypeOK, RQ!Pointers, ReleaseQueue!Pointers,
       RQ!QueueLabels, ReleaseQueue!QueueLabels, RQ!WaitLabels, ReleaseQueue!WaitLabels,
       RQ!WakeLabels, ReleaseQueue!WakeLabels, RQ!PauseLabels, ReleaseQueue!PauseLabels,
       RQ!NoEntry, ReleaseQueue!NoEntry, RQ!WildEntry, ReleaseQueue!WildEntry,
       RQ!NoThread, ReleaseQueue!NoThread, RQ!Threads, ReleaseQueue!Threads, Threads,
       RQ!ThreadsTypeOK, ThreadsTypeOK, RQ!ThreadStates, ThreadStates,
       RQ!QueueInit, ReleaseQueue!QueueInit

LEMMA SamePulse ==
  /\ PQ!QueueTypeOK <=> PulseQueue!QueueTypeOK
  /\ PQ!QueueTypeOK' <=> PulseQueue!QueueTypeOK'
  /\ PQ!ThreadsTypeOK <=> ThreadsTypeOK
  /\ PQ!ThreadsTypeOK' <=> ThreadsTypeOK'
  /\ PQ!QueueInit <=> PulseQueue!QueueInit
  /\ PQ!Threads = Threads
  /\ PQ!WaitLabels = ReleaseQueue!WaitLabels /\ PQ!WakeLabels = ReleaseQueue!WakeLabels
BY DEF PQ!QueueTypeOK, PulseQueue!QueueTypeOK, PQ!Pointers, PulseQueue!Pointers,
       PQ!QueueLabels, PulseQueue!QueueLabels, PQ!WaitLabels, PulseQueue!WaitLabels,
       PQ!WakeLabels, PulseQueue!WakeLabels, PQ!PauseLabels, PulseQueue!PauseLabels,
       ReleaseQueue!WaitLabels, ReleaseQueue!WakeLabels, ReleaseQueue!PauseLabels,
       PQ!NoEntry, PulseQueue!NoEntry, PQ!WildEntry, PulseQueue!WildEntry,
       PQ!NoThread, PulseQueue!NoThread, PQ!Threads, PulseQueue!Threads, Threads,
       PQ!ThreadsTypeOK, ThreadsTypeOK, PQ!ThreadStates, ThreadStates,
       PQ!QueueInit, PulseQueue!QueueInit

LEMMA SameReleaseStep == ASSUME NEW t PROVE RQ!QueueStep(t) <=> ReleaseQueue!QueueStep(t)
BY DEF RQ!QueueStep, ReleaseQueue!QueueStep, RQ!qLock, ReleaseQueue!qLock,
       RQ!qLink, ReleaseQueue!qLink, RQ!qTail, ReleaseQueue!qTail,
       RQ!qUnlock, ReleaseQueue!qUnlock, RQ!pState, ReleaseQueue!pState,
       RQ!pUnder, ReleaseQueue!pUnder, RQ!pInt, ReleaseQueue!pInt,
       RQ!wLock, ReleaseQueue!wLock, RQ!wPop, ReleaseQueue!wPop,
       RQ!wEmpty, ReleaseQueue!wEmpty, RQ!wTest, ReleaseQueue!wTest,
       RQ!wSetState, ReleaseQueue!wSetState, RQ!wSetUnder, ReleaseQueue!wSetUnder,
       RQ!wUnlock, ReleaseQueue!wUnlock, RQ!QAt, ReleaseQueue!QAt,
       RQ!QGoto, ReleaseQueue!QGoto, RQ!Increment, ReleaseQueue!Increment,
       RQ!Decrement, ReleaseQueue!Decrement, RQ!Framed, ReleaseQueue!Framed,
       RQ!Contents, ReleaseQueue!Contents, RQ!AfterWake, ReleaseQueue!AfterWake,
       RQ!Pointers, ReleaseQueue!Pointers, RQ!NoEntry, ReleaseQueue!NoEntry,
       RQ!WildEntry, ReleaseQueue!WildEntry, RQ!NoThread, ReleaseQueue!NoThread,
       RQ!WaitLabels, ReleaseQueue!WaitLabels,
       RQ!PauseLabels, ReleaseQueue!PauseLabels, RQ!Runs, ReleaseQueue!Runs,
       RQ!threadVars, ReleaseQueue!threadVars, RQ!Threads, ReleaseQueue!Threads

LEMMA SamePulseStep == ASSUME NEW t PROVE PQ!QueueStep(t) <=> PulseQueue!QueueStep(t)
BY DEF PQ!QueueStep, PulseQueue!QueueStep, PQ!qLock, PulseQueue!qLock,
       PQ!qLink, PulseQueue!qLink, PQ!qTail, PulseQueue!qTail,
       PQ!qUnlock, PulseQueue!qUnlock, PQ!pState, PulseQueue!pState,
       PQ!pUnder, PulseQueue!pUnder, PQ!pInt, PulseQueue!pInt,
       PQ!wLock, PulseQueue!wLock, PQ!wPop, PulseQueue!wPop,
       PQ!wEmpty, PulseQueue!wEmpty, PQ!wTest, PulseQueue!wTest,
       PQ!wSetState, PulseQueue!wSetState, PQ!wSetUnder, PulseQueue!wSetUnder,
       PQ!wUnlock, PulseQueue!wUnlock, PQ!QAt, PulseQueue!QAt,
       PQ!QGoto, PulseQueue!QGoto, PQ!Increment, PulseQueue!Increment,
       PQ!Decrement, PulseQueue!Decrement, PQ!Framed, PulseQueue!Framed,
       PQ!Contents, PulseQueue!Contents, PQ!AfterWake, PulseQueue!AfterWake,
       PQ!Pointers, PulseQueue!Pointers, PQ!NoEntry, PulseQueue!NoEntry,
       PQ!WildEntry, PulseQueue!WildEntry, PQ!NoThread, PulseQueue!NoThread,
       PQ!WaitLabels, PulseQueue!WaitLabels, PQ!PauseLabels, PulseQueue!PauseLabels,
       PQ!Runs, PulseQueue!Runs, PQ!threadVars, PulseQueue!threadVars,
       PQ!Threads, PulseQueue!Threads

\* What a step in a queue does to the types, to where threads stand in that queue,
\* and to whom the scheduler may select: QueueStepMoves, for either of the queues.
QueueMoves(qp, t) ==
  /\ qp[t] # "idle"
  /\ \A u \in Threads \ {t} : qp'[u] = qp[u]
  /\ qp'[t] \in ReleaseQueue!WaitLabels => qp[t] \in ReleaseQueue!WaitLabels
  /\ qp'[t] \in ReleaseQueue!WakeLabels => qp[t] \in ReleaseQueue!WakeLabels
  /\ overran => overran'
  /\ \A u \in Threads \ {t} : ~isUnderSheduling'[u] => ~isUnderSheduling[u]
  /\ ~overran' /\ ~isUnderSheduling'[t] =>
       qp'[t] = "pInt" \/ (~isUnderSheduling[t] /\ qp[t] # "pInt")

LEMMA ReleaseQueueStep ==
  ASSUME ThreadsTypeOK, ReleaseQueue!QueueTypeOK, NEW t \in Threads, ReleaseQueue!QueueStep(t)
  PROVE  ThreadsTypeOK' /\ ReleaseQueue!QueueTypeOK' /\ QueueMoves(rpc, t)
<1>1. /\ RQ!ThreadsTypeOK /\ RQ!QueueTypeOK
      /\ t \in RQ!Threads /\ RQ!QueueStep(t)
  BY SameRelease, SameReleaseStep
<1>2. RQ!ThreadsTypeOK' /\ RQ!QueueTypeOK'
  BY <1>1, RQ!QueueStepTyped, NumThreadsAssumption, CountRangeAssumption
<1>3. QueueMoves(rpc, t)
  BY <1>1, SameRelease, RQ!QueueStepMoves, NumThreadsAssumption, CountRangeAssumption
     DEF QueueMoves
<1> QED
  BY <1>2, <1>3, SameRelease

LEMMA PulseQueueStep ==
  ASSUME ThreadsTypeOK, PulseQueue!QueueTypeOK, NEW t \in Threads, PulseQueue!QueueStep(t)
  PROVE  ThreadsTypeOK' /\ PulseQueue!QueueTypeOK' /\ QueueMoves(ppc, t)
<1>1. /\ PQ!ThreadsTypeOK /\ PQ!QueueTypeOK
      /\ t \in PQ!Threads /\ PQ!QueueStep(t)
  BY SamePulse, SamePulseStep
<1>2. PQ!ThreadsTypeOK' /\ PQ!QueueTypeOK'
  BY <1>1, PQ!QueueStepTyped, NumThreadsAssumption, CountRangeAssumption
<1>3. QueueMoves(ppc, t)
  BY <1>1, SamePulse, PQ!QueueStepMoves, NumThreadsAssumption, CountRangeAssumption
     DEF QueueMoves
<1> QED
  BY <1>2, <1>3, SamePulse

\* What a step in a queue does to its order and to the slots of the threads.
SlotMoves(qp, t) ==
  ~overran' =>
    \A u \in Threads :
       /\ qp[u] = "idle" =>
            state'[u] = state[u] /\ isUnderSheduling'[u] = isUnderSheduling[u]
       /\ state'[u] = "WAITSLEEPJOIN" /\ ~InPause(qp, u)' =>
            state[u] = "WAITSLEEPJOIN" /\ ~InPause(qp, u)

LEMMA ReleaseQueueOrder ==
  ASSUME ThreadsTypeOK, ReleaseQueue!QueueTypeOK, RQ!QueueInv, NEW t \in Threads,
         ReleaseQueue!QueueStep(t)
  PROVE  RQ!QueueInv' /\ SlotMoves(rpc, t)
<1>1. /\ RQ!ThreadsTypeOK /\ RQ!QueueTypeOK
      /\ t \in RQ!Threads /\ RQ!QueueStep(t) /\ RQ!Threads = Threads
  BY SameRelease, SameReleaseStep
<1>2. RQ!QueueInv'
  BY <1>1, RQ!QueueStepKeepsInv, NumThreadsAssumption, CountRangeAssumption
<1>3. ASSUME ~overran', NEW u \in Threads, rpc[u] = "idle"
      PROVE  state'[u] = state[u] /\ isUnderSheduling'[u] = isUnderSheduling[u]
  BY <1>1, <1>3, RQ!QueueStepTouches, NumThreadsAssumption, CountRangeAssumption
<1>4. ASSUME ~overran', NEW u \in Threads, state'[u] = "WAITSLEEPJOIN",
             rpc'[u] \notin {"pUnder", "pInt"}
      PROVE  state[u] = "WAITSLEEPJOIN" /\ rpc[u] \notin {"pUnder", "pInt"}
  BY <1>1, <1>4, RQ!QueueStepKeepsAwake, NumThreadsAssumption, CountRangeAssumption
<1> QED
  BY <1>2, <1>3, <1>4 DEF SlotMoves, InPause

LEMMA PulseQueueOrder ==
  ASSUME ThreadsTypeOK, PulseQueue!QueueTypeOK, PQ!QueueInv, NEW t \in Threads,
         PulseQueue!QueueStep(t)
  PROVE  PQ!QueueInv' /\ SlotMoves(ppc, t)
<1>1. /\ PQ!ThreadsTypeOK /\ PQ!QueueTypeOK
      /\ t \in PQ!Threads /\ PQ!QueueStep(t) /\ PQ!Threads = Threads
  BY SamePulse, SamePulseStep
<1>2. PQ!QueueInv'
  BY <1>1, PQ!QueueStepKeepsInv, NumThreadsAssumption, CountRangeAssumption
<1>3. ASSUME ~overran', NEW u \in Threads, ppc[u] = "idle"
      PROVE  state'[u] = state[u] /\ isUnderSheduling'[u] = isUnderSheduling[u]
  BY <1>1, <1>3, PQ!QueueStepTouches, NumThreadsAssumption, CountRangeAssumption
<1>4. ASSUME ~overran', NEW u \in Threads, state'[u] = "WAITSLEEPJOIN",
             ppc'[u] \notin {"pUnder", "pInt"}
      PROVE  state[u] = "WAITSLEEPJOIN" /\ ppc[u] \notin {"pUnder", "pInt"}
  BY <1>1, <1>4, PQ!QueueStepKeepsAwake, NumThreadsAssumption, CountRangeAssumption
<1> QED
  BY <1>2, <1>3, <1>4 DEF SlotMoves, InPause

\* WaitStepMoves, for the queue of those who wait for a pulse.
LEMMA PulseWaitStep ==
  ASSUME ThreadsTypeOK, PulseQueue!QueueTypeOK, NEW t \in Threads, PulseQueue!QueueStep(t),
         ppc[t] \in ReleaseQueue!WaitLabels, ~overran'
  PROVE  /\ \A u \in Threads \ {t} : isUnderSheduling'[u] = isUnderSheduling[u]
         /\ \/ ppc'[t] \in ReleaseQueue!WaitLabels
            \/ ppc[t] = "pInt" /\ ppc'[t] = "idle" /\ isUnderSheduling[t]
         /\ ppc'[t] = "pInt" => ~isUnderSheduling'[t]
<1>1. /\ PQ!ThreadsTypeOK /\ PQ!QueueTypeOK
      /\ t \in PQ!Threads /\ PQ!QueueStep(t) /\ PQ!Threads = Threads
      /\ PQ!WaitLabels = ReleaseQueue!WaitLabels
  BY SamePulse, SamePulseStep
<1> QED
  BY <1>1, PQ!WaitStepMoves, NumThreadsAssumption, CountRangeAssumption

\* A step outside a queue keeps its order, if whoever joins it can be selected and is
\* awake, and the slots of those who wait in it are left alone.
MayJoin(qp, u) ==
  \/ qp'[u] = qp[u]
  \/ qp[u] = "idle" /\ qp'[u] = "wLock"
  \/ /\ qp[u] = "idle" /\ qp'[u] = "qLock"
     /\ ~overran' => isUnderSheduling'[u] /\ state'[u] # "WAITSLEEPJOIN"

LEMMA ReleaseQueueAside ==
  ASSUME ReleaseQueue!QueueTypeOK, RQ!QueueInv,
         UNCHANGED <<rhead, rtail, rcount, rlock, rnext, rtarget>>,
         ~overran' => ~overran /\ (~smashed => ~smashed'),
         \A u \in Threads : MayJoin(rpc, u),
         ~overran' => \A u \in Threads : rpc[u] \in ReleaseQueue!WaitLabels =>
            state'[u] = state[u] /\ isUnderSheduling'[u] = isUnderSheduling[u]
  PROVE  RQ!QueueInv'
<1>1. RQ!QueueTypeOK /\ RQ!Threads = Threads /\ RQ!WaitLabels = ReleaseQueue!WaitLabels
  BY SameRelease
<1>2. \A u \in RQ!Threads : RQ!MayEnter(u)
  BY <1>1 DEF MayJoin, RQ!MayEnter
<1> QED
  BY <1>1, <1>2, RQ!OtherStepKeepsInv, NumThreadsAssumption, CountRangeAssumption

LEMMA PulseQueueAside ==
  ASSUME PulseQueue!QueueTypeOK, PQ!QueueInv,
         UNCHANGED <<phead, ptail, pcount, plock, pnext, ptarget>>,
         ~overran' => ~overran /\ (~smashed => ~smashed'),
         \A u \in Threads : MayJoin(ppc, u),
         ~overran' => \A u \in Threads : ppc[u] \in ReleaseQueue!WaitLabels =>
            state'[u] = state[u] /\ isUnderSheduling'[u] = isUnderSheduling[u]
  PROVE  PQ!QueueInv'
<1>1. PQ!QueueTypeOK /\ PQ!Threads = Threads /\ PQ!WaitLabels = ReleaseQueue!WaitLabels
  BY SamePulse
<1>2. \A u \in PQ!Threads : PQ!MayEnter(u)
  BY <1>1 DEF MayJoin, PQ!MayEnter
<1> QED
  BY <1>1, <1>2, PQ!OtherStepKeepsInv, NumThreadsAssumption, CountRangeAssumption

LEMMA InitWhole == Init => WholeInv
<1> SUFFICES ASSUME Init PROVE WholeInv
  OBVIOUS
<1>1. IInv
  BY InitInv
<1>2. ThreadsTypeOK
  BY NumThreadsAssumption DEF Init, ThreadsTypeOK, Threads, MainThread, ThreadStates
<1>3. ReleaseQueue!QueueTypeOK
  BY SameRelease, RQ!QueueInitTyped, NumThreadsAssumption, CountRangeAssumption DEF Init
<1>4. PulseQueue!QueueTypeOK
  BY SamePulse, PQ!QueueInitTyped, NumThreadsAssumption, CountRangeAssumption DEF Init
<1>5. calls \in [Threads -> Nat]
  BY MaxCallsAssumption DEF Init
<1>6. \A t \in Threads : rpc[t] = "idle" /\ ppc[t] = "idle" /\ isUnderSheduling[t]
  BY DEF Init, ReleaseQueue!QueueInit, PulseQueue!QueueInit, ReleaseQueue!Threads,
         PulseQueue!Threads, Threads
<1>7. CallInv /\ ScheduleInv
  BY <1>6 DEF CallInv, ScheduleInv, ReleaseQueue!WaitLabels, ReleaseQueue!WakeLabels,
              ReleaseQueue!PauseLabels
<1>8. RQ!QueueInv
  BY SameRelease, RQ!QueueInitInv, NumThreadsAssumption, CountRangeAssumption DEF Init
<1>9. PQ!QueueInv
  BY SamePulse, PQ!QueueInitInv, NumThreadsAssumption, CountRangeAssumption DEF Init
<1>10. AwakeInv
  BY DEF Init, AwakeInv
<1>11. NotifyInv
  BY <1>6 DEF Init, NotifyInv, SleepsOn, Unnotified, ReleaseQueue!WakeLabels
<1> QED
  BY <1>1, <1>2, <1>3, <1>4, <1>5, <1>7, <1>8, <1>9, <1>10, <1>11
     DEF WholeInv, TypeOK, IInv, OwnTypeOK

\* A step of Monitor outside the queues: at most it enters a routine of one of them.
Enters(t) ==
  \/ UNCHANGED <<rpc, ppc>>
  \/ /\ rpc' = [rpc EXCEPT ![t] = "qLock"] /\ UNCHANGED ppc
     /\ Goto(t, "c_relock")
  \/ /\ rpc' = [rpc EXCEPT ![t] = "wLock"] /\ UNCHANGED ppc
     /\ Goto(t, "unlock") \/ Goto(t, "w_sleep")
  \/ /\ ppc' = [ppc EXCEPT ![t] = "qLock"] /\ UNCHANGED rpc
     /\ Goto(t, "w_relock")
  \/ /\ ppc' = [ppc EXCEPT ![t] = "wLock"] /\ UNCHANGED rpc
     /\ Goto(t, "unlock")

LEMMA OwnStepMoves ==
  ASSUME NEW t \in Threads,
         \/ Caller(t) \/ capture(t) \/ release(t) \/ wait(t) \/ notify(t) \/ notifyAll(t)
  PROVE  /\ rpc[t] = "idle" /\ ppc[t] = "idle"
         /\ UNCHANGED <<threadVars, overran, smashed, rhead, rtail, rcount, rlock, rnext,
                        rtarget, phead, ptail, pcount, plock, pnext, ptarget>>
         /\ Enters(t)
         /\ calls' = calls \/ (calls[t] > 0 /\ calls' = [calls EXCEPT ![t] = @ - 1])
         /\ \E label \in MonitorLabels : Goto(t, label)
<1> USE DEF At, Enters, MonitorLabels, releaseVars, pulseVars, EnterRelease, EnterPulse
<1>1. CASE Caller(t)
  BY <1>1 DEF Caller, call_capture, call_release, misuse_release, call_wait, call_notify,
         call_notifyAll, Call
<1>2. CASE c_lock(t) \/ c_relock(t) \/ r_lock(t) \/ w_lock(t) \/ w_relock(t)
           \/ n_lock(t) \/ a_lock(t)
  BY <1>2 DEF c_lock, c_relock, r_lock, w_lock, w_relock, n_lock, a_lock, Capture
<1>3. CASE c_count(t) \/ c_other(t) \/ c_block(t) \/ c_free(t) \/ c_own(t) \/ unlock(t)
  BY <1>3 DEF c_count, c_other, c_block, c_free, c_own, unlock
<1>4. CASE r_leave(t) \/ w_leave(t)
  BY <1>4 DEF r_leave, w_leave, releaseImpl, LeaveLast, LeaveNested, LeaveStranger
<1>5. CASE w_test(t) \/ w_sleep(t) \/ w_again(t) \/ w_take(t) \/ w_mark(t)
  BY <1>5 DEF w_test, w_sleep, w_again, w_take, w_mark
<1>6. CASE n_pulse(t) \/ a_pulse(t)
  BY <1>6 DEF n_pulse, a_pulse
<1> QED
  BY <1>1, <1>2, <1>3, <1>4, <1>5, <1>6 DEF capture, release, wait, notify, notifyAll

LEMMA OwnStepKeeps ==
  ASSUME WholeInv, IInv', NEW t \in Threads,
         \/ Caller(t) \/ capture(t) \/ release(t) \/ wait(t) \/ notify(t) \/ notifyAll(t)
  PROVE  TypeOK' /\ CallInv' /\ ScheduleInv'
<1>1. /\ rpc[t] = "idle" /\ ppc[t] = "idle"
      /\ UNCHANGED <<threadVars, overran, smashed, rhead, rtail, rcount, rlock, rnext,
                     rtarget, phead, ptail, pcount, plock, pnext, ptarget>>
      /\ Enters(t)
      /\ calls' = calls \/ (calls[t] > 0 /\ calls' = [calls EXCEPT ![t] = @ - 1])
      /\ \E label \in MonitorLabels : Goto(t, label)
  BY OwnStepMoves
<1>2. /\ TypeOK /\ CallInv /\ ScheduleInv /\ ReleaseQueue!QueueTypeOK /\ PulseQueue!QueueTypeOK
      /\ rpc \in [Threads -> ReleaseQueue!QueueLabels]
      /\ ppc \in [Threads -> PulseQueue!QueueLabels]
  BY DEF WholeInv, TypeOK, ReleaseQueue!QueueTypeOK, PulseQueue!QueueTypeOK,
         ReleaseQueue!Threads, PulseQueue!Threads, Threads
<1>3. ThreadsTypeOK'
  BY <1>1, <1>2 DEF TypeOK, ThreadsTypeOK, threadVars
<1>4. rpc' \in [Threads -> ReleaseQueue!QueueLabels]
      /\ ppc' \in [Threads -> PulseQueue!QueueLabels]
  BY <1>1, <1>2
     DEF Enters, ReleaseQueue!QueueLabels, ReleaseQueue!WaitLabels, ReleaseQueue!WakeLabels,
         PulseQueue!QueueLabels, PulseQueue!WaitLabels, PulseQueue!WakeLabels
<1>5. ReleaseQueue!QueueTypeOK' /\ PulseQueue!QueueTypeOK'
  BY <1>1, <1>2, <1>4 DEF ReleaseQueue!QueueTypeOK, PulseQueue!QueueTypeOK,
                          ReleaseQueue!Threads, PulseQueue!Threads, Threads
<1>6. calls' \in [Threads -> Nat]
  BY <1>1, <1>2 DEF TypeOK
<1>7. \A u \in Threads \ {t} : rpc'[u] = rpc[u] /\ ppc'[u] = ppc[u] /\ mpc'[u] = mpc[u]
  BY <1>1, <1>2 DEF TypeOK, Enters, Goto
<1>8. CallInv'
  <2>1. \/ rpc'[t] = "idle" /\ ppc'[t] = "idle"
        \/ rpc'[t] = "qLock" /\ ppc'[t] = "idle" /\ mpc'[t] = "c_relock"
        \/ rpc'[t] = "wLock" /\ ppc'[t] = "idle" /\ mpc'[t] \in {"unlock", "w_sleep"}
        \/ rpc'[t] = "idle" /\ ppc'[t] = "qLock" /\ mpc'[t] = "w_relock"
        \/ rpc'[t] = "idle" /\ ppc'[t] = "wLock" /\ mpc'[t] = "unlock"
    BY <1>1, <1>2 DEF TypeOK, Enters, Goto
  <2> QED
    BY <1>2, <1>7, <2>1 DEF CallInv, ReleaseQueue!WaitLabels, ReleaseQueue!WakeLabels,
                            ReleaseQueue!PauseLabels
<1>9. ScheduleInv'
  <2>1. UNCHANGED <<overran, isUnderSheduling>>
    BY <1>1 DEF threadVars
  <2>2. ~overran => isUnderSheduling[t]
    BY <1>1, <1>2 DEF ScheduleInv
  <2> QED
    BY <1>2, <1>7, <2>1, <2>2 DEF ScheduleInv
<1> QED
  BY <1>3, <1>5, <1>6, <1>8, <1>9 DEF TypeOK, IInv, OwnTypeOK

\* The order of the queues, and who is awake, through a step outside them.
LEMMA OwnStepKeepsOrder ==
  ASSUME WholeInv, NEW t \in Threads,
         \/ Caller(t) \/ capture(t) \/ release(t) \/ wait(t) \/ notify(t) \/ notifyAll(t)
  PROVE  RQ!QueueInv' /\ PQ!QueueInv' /\ AwakeInv'
<1>1. /\ rpc[t] = "idle" /\ ppc[t] = "idle"
      /\ UNCHANGED <<threadVars, overran, smashed, rhead, rtail, rcount, rlock, rnext,
                     rtarget, phead, ptail, pcount, plock, pnext, ptarget>>
      /\ Enters(t)
  BY OwnStepMoves
<1>2. /\ ReleaseQueue!QueueTypeOK /\ PulseQueue!QueueTypeOK
      /\ rpc \in [Threads -> ReleaseQueue!QueueLabels]
      /\ ppc \in [Threads -> PulseQueue!QueueLabels]
  BY DEF WholeInv, TypeOK, ReleaseQueue!QueueTypeOK, PulseQueue!QueueTypeOK,
         ReleaseQueue!Threads, PulseQueue!Threads, Threads
<1>3. UNCHANGED <<isUnderSheduling, state>>
  BY <1>1 DEF threadVars
<1>4. ~overran => isUnderSheduling[t] /\ state[t] # "WAITSLEEPJOIN"
  BY <1>1 DEF WholeInv, ScheduleInv, AwakeInv, InPause
<1>5. \A u \in Threads \ {t} : rpc'[u] = rpc[u] /\ ppc'[u] = ppc[u]
  BY <1>1, <1>2 DEF Enters
<1>6. \A u \in Threads : MayJoin(rpc, u) /\ MayJoin(ppc, u)
  <2>1. MayJoin(rpc, t) /\ MayJoin(ppc, t)
    BY <1>1, <1>2, <1>3, <1>4 DEF Enters, MayJoin
  <2> QED
    BY <1>5, <2>1 DEF MayJoin
<1>7. RQ!QueueInv'
  BY <1>1, <1>2, <1>3, <1>6, ReleaseQueueAside DEF WholeInv
<1>8. PQ!QueueInv'
  BY <1>1, <1>2, <1>3, <1>6, PulseQueueAside DEF WholeInv
<1>9. AwakeInv'
  BY <1>1, <1>3, <1>4, <1>5 DEF WholeInv, AwakeInv, InPause
<1> QED
  BY <1>7, <1>8, <1>9

\* What each step outside the queues does to the flags and to the pulses given and not
\* taken, and where it leaves a thread that waits in the loop of wait.
LEMMA OwnStepPulses ==
  ASSUME NEW t \in Threads,
         \/ Caller(t) \/ capture(t) \/ release(t) \/ wait(t) \/ notify(t) \/ notifyAll(t)
  PROVE  \/ n_pulse(t)
         \/ a_pulse(t)
         \/ w_mark(t)
         \/ /\ UNCHANGED <<flagVars, pulses>>
            /\ \/ \E label \in MonitorLabels \ {"w_relock", "w_check", "w_mark"} :
                    Goto(t, label) /\ UNCHANGED ppc
               \/ Goto(t, "w_relock") /\ ppc' = [ppc EXCEPT ![t] = "qLock"]
               \/ mpc[t] \in {"w_relock", "w_check"}
<1> USE DEF At, MonitorLabels, releaseVars, pulseVars, ghostVars, flagVars, EnterRelease,
            EnterPulse
<1>1. CASE Caller(t)
  BY <1>1 DEF Caller, call_capture, call_release, misuse_release, call_wait, call_notify,
         call_notifyAll, Call
<1>2. CASE c_lock(t) \/ c_relock(t) \/ r_lock(t) \/ w_lock(t) \/ w_relock(t)
           \/ n_lock(t) \/ a_lock(t)
  BY <1>2 DEF c_lock, c_relock, r_lock, w_lock, w_relock, n_lock, a_lock, Capture
<1>3. CASE c_count(t) \/ c_other(t) \/ c_block(t) \/ c_free(t) \/ c_own(t) \/ unlock(t)
  BY <1>3 DEF c_count, c_other, c_block, c_free, c_own, unlock
<1>4. CASE r_leave(t) \/ w_leave(t)
  BY <1>4 DEF r_leave, w_leave, releaseImpl, LeaveLast, LeaveNested, LeaveStranger
<1>5. CASE w_test(t) \/ w_sleep(t) \/ w_again(t) \/ w_take(t)
  BY <1>5 DEF w_test, w_sleep, w_again, w_take
<1> QED
  BY <1>1, <1>2, <1>3, <1>4, <1>5 DEF capture, release, wait, notify, notifyAll

\* No step outside the queues lets a waiter have a pulse that nobody gave.
LEMMA OwnStepKeepsPulses ==
  ASSUME WholeInv, NEW t \in Threads,
         \/ Caller(t) \/ capture(t) \/ release(t) \/ wait(t) \/ notify(t) \/ notifyAll(t)
  PROVE  NotifyInv'
<1>1. rpc[t] = "idle" /\ ppc[t] = "idle" /\ UNCHANGED <<threadVars, overran>>
  BY OwnStepMoves
<1>2. /\ pulses \in Int /\ mpc \in [Threads -> MonitorLabels] /\ NotifyInv /\ PulseInv
      /\ ppc \in [Threads -> PulseQueue!QueueLabels]
      /\ isMultiPulse \in BOOLEAN /\ isPulseHandled \in BOOLEAN
  BY DEF WholeInv, IInv, OwnTypeOK, TypeOK, PulseQueue!QueueTypeOK, PulseQueue!Threads, Threads
<1> SUFFICES ASSUME ~overran
             PROVE  IF SleepsOn' THEN pulses' >= 0 ELSE pulses' >= 1 \/ Unnotified'
  BY <1>1 DEF NotifyInv
<1>3. IF SleepsOn THEN pulses >= 0 ELSE pulses >= 1 \/ Unnotified
  BY <1>2 DEF NotifyInv
<1>4. CASE n_pulse(t)
  <2>1. ~SleepsOn' /\ pulses' = pulses + 1
    BY <1>4 DEF n_pulse, SleepsOn
  <2>2. pulses >= 0
    BY <1>2, <1>3 DEF Unnotified
  <2> QED
    BY <1>2, <2>1, <2>2
<1>5. CASE a_pulse(t)
  <2>1. SleepsOn' /\ pulses' = pulses
    BY <1>5 DEF a_pulse, SleepsOn, ghostVars
  <2>2. pulses >= 0
    BY <1>2, <1>3 DEF Unnotified
  <2> QED
    BY <1>2, <2>1, <2>2
<1>6. CASE w_mark(t)
  <2>1. SleepsOn' /\ pulses' = pulses - 1 /\ mpc[t] = "w_mark"
    BY <1>6, <1>2 DEF w_mark, SleepsOn, At
  <2>2. ~SleepsOn /\ ~Unnotified
    BY <1>2, <2>1 DEF PulseInv, Unnotified
  <2> QED
    BY <1>2, <1>3, <2>1, <2>2
<1>7. CASE /\ UNCHANGED <<flagVars, pulses>>
           /\ \/ \E label \in MonitorLabels \ {"w_relock", "w_check", "w_mark"} :
                   Goto(t, label) /\ UNCHANGED ppc
              \/ Goto(t, "w_relock") /\ ppc' = [ppc EXCEPT ![t] = "qLock"]
              \/ mpc[t] \in {"w_relock", "w_check"}
  <2>1. SleepsOn' = SleepsOn /\ pulses' = pulses
    BY <1>7 DEF SleepsOn, flagVars
  <2>2. ASSUME Unnotified PROVE Unnotified'
    <3>1. mpc[t] \notin {"w_relock", "w_check"}
      BY <1>1, <2>2 DEF Unnotified, ReleaseQueue!WaitLabels, ReleaseQueue!PauseLabels
    <3>2. UNCHANGED <<isMultiPulse, isPulseHandled, pulses, isUnderSheduling>>
      BY <1>1, <1>7 DEF flagVars, threadVars
    <3>3. \A u \in Threads \ {t} : mpc'[u] = mpc[u] /\ ppc'[u] = ppc[u]
      BY <1>7, <3>1, <1>2 DEF Goto
    <3>4. \/ ppc'[t] = "idle" /\ mpc'[t] \notin {"w_relock", "w_check", "w_mark"}
          \/ ppc'[t] = "qLock" /\ mpc'[t] = "w_relock"
      BY <1>1, <1>2, <1>7, <3>1 DEF Goto
    <3> QED
      BY <2>2, <3>2, <3>3, <3>4 DEF Unnotified, ReleaseQueue!WaitLabels,
                                    ReleaseQueue!WakeLabels
  <2> QED
    BY <1>3, <2>1, <2>2
<1> QED
  BY <1>4, <1>5, <1>6, <1>7, OwnStepPulses

LEMMA QueueStepKeeps ==
  ASSUME WholeInv, IInv', NEW t \in Threads, InQueues(t)
  PROVE  TypeOK' /\ CallInv' /\ ScheduleInv'
<1> USE DEF WholeInv
<1>1. UNCHANGED <<mpc, calls>>
  BY DEF InQueues
<1>2. CASE ReleaseQueue!QueueStep(t) /\ UNCHANGED pulseVars
  <2>1. ThreadsTypeOK' /\ ReleaseQueue!QueueTypeOK' /\ QueueMoves(rpc, t)
    BY <1>2, ReleaseQueueStep DEF TypeOK
  <2>2. PulseQueue!QueueTypeOK'
    BY <1>2, <2>1 DEF TypeOK, PulseQueue!QueueTypeOK, ReleaseQueue!QueueTypeOK, pulseVars
  <2>3. ppc' = ppc /\ ppc[t] = "idle"
    BY <1>2, <2>1 DEF CallInv, QueueMoves, pulseVars
  <2>4. CallInv'
    BY <1>1, <2>1, <2>3 DEF CallInv, QueueMoves, ReleaseQueue!WaitLabels,
                            ReleaseQueue!WakeLabels, ReleaseQueue!PauseLabels
  <2>5. ScheduleInv'
    BY <2>1, <2>3 DEF ScheduleInv, QueueMoves
  <2> QED
    BY <1>1, <2>1, <2>2, <2>4, <2>5 DEF TypeOK, IInv, OwnTypeOK
<1>3. CASE PulseQueue!QueueStep(t) /\ UNCHANGED releaseVars
  <2>1. ThreadsTypeOK' /\ PulseQueue!QueueTypeOK' /\ QueueMoves(ppc, t)
    BY <1>3, PulseQueueStep DEF TypeOK
  <2>2. ReleaseQueue!QueueTypeOK'
    BY <1>3, <2>1 DEF TypeOK, PulseQueue!QueueTypeOK, ReleaseQueue!QueueTypeOK, releaseVars
  <2>3. rpc' = rpc /\ rpc[t] = "idle"
    BY <1>3, <2>1 DEF CallInv, QueueMoves, releaseVars
  <2>4. CallInv'
    BY <1>1, <2>1, <2>3 DEF CallInv, QueueMoves, ReleaseQueue!WaitLabels,
                            ReleaseQueue!WakeLabels, ReleaseQueue!PauseLabels
  <2>5. ScheduleInv'
    BY <2>1, <2>3 DEF ScheduleInv, QueueMoves
  <2> QED
    BY <1>1, <2>1, <2>2, <2>4, <2>5 DEF TypeOK, IInv, OwnTypeOK
<1> QED
  BY <1>2, <1>3 DEF InQueues

\* Both queues keep their order through a step in either; who waits in the one is not
\* in the other.
LEMMA QueueStepKeepsOrder ==
  ASSUME WholeInv, NEW t \in Threads, InQueues(t)
  PROVE  RQ!QueueInv' /\ PQ!QueueInv' /\ AwakeInv'
<1>1. /\ ThreadsTypeOK /\ ReleaseQueue!QueueTypeOK /\ PulseQueue!QueueTypeOK
      /\ RQ!QueueInv /\ PQ!QueueInv /\ AwakeInv
  BY DEF WholeInv, TypeOK
<1>2. /\ \A u \in Threads : rpc[u] \in ReleaseQueue!WaitLabels => ppc[u] = "idle"
      /\ \A u \in Threads : ppc[u] \in ReleaseQueue!WaitLabels => rpc[u] = "idle"
  BY DEF WholeInv, CallInv, ReleaseQueue!WaitLabels, ReleaseQueue!PauseLabels
<1>3. CASE ReleaseQueue!QueueStep(t) /\ UNCHANGED pulseVars
  <2>1. RQ!QueueInv' /\ SlotMoves(rpc, t) /\ QueueMoves(rpc, t)
    BY <1>1, <1>3, ReleaseQueueOrder, ReleaseQueueStep
  <2>2. ~overran' => ~overran /\ ~smashed /\ ~smashed'
    BY <1>1, <2>1 DEF QueueMoves, RQ!QueueInv
  <2>3. /\ UNCHANGED <<phead, ptail, pcount, plock, pnext, ptarget>>
        /\ ppc' = ppc
    BY <1>3 DEF pulseVars
  <2>4. \A u \in Threads : MayJoin(ppc, u)
    BY <2>3 DEF MayJoin
  <2>5. PQ!QueueInv'
    BY <1>1, <1>2, <2>1, <2>2, <2>3, <2>4, PulseQueueAside DEF SlotMoves
  <2>6. AwakeInv'
    BY <1>1, <2>1, <2>2, <2>3 DEF AwakeInv, SlotMoves, InPause
  <2> QED
    BY <2>1, <2>5, <2>6
<1>4. CASE PulseQueue!QueueStep(t) /\ UNCHANGED releaseVars
  <2>1. PQ!QueueInv' /\ SlotMoves(ppc, t) /\ QueueMoves(ppc, t)
    BY <1>1, <1>4, PulseQueueOrder, PulseQueueStep
  <2>2. ~overran' => ~overran /\ ~smashed /\ ~smashed'
    BY <1>1, <2>1 DEF QueueMoves, PQ!QueueInv
  <2>3. /\ UNCHANGED <<rhead, rtail, rcount, rlock, rnext, rtarget>>
        /\ rpc' = rpc
    BY <1>4 DEF releaseVars
  <2>4. \A u \in Threads : MayJoin(rpc, u)
    BY <2>3 DEF MayJoin
  <2>5. RQ!QueueInv'
    BY <1>1, <1>2, <2>1, <2>2, <2>3, <2>4, ReleaseQueueAside DEF SlotMoves
  <2>6. AwakeInv'
    BY <1>1, <2>1, <2>2, <2>3 DEF AwakeInv, SlotMoves, InPause
  <2> QED
    BY <2>1, <2>5, <2>6
<1> QED
  BY <1>3, <1>4 DEF InQueues

\* Nor does a step in a queue: before the first notify nobody wakes a waiter, and one
\* that comes back from its pause all the same has outrun it.
LEMMA QueueStepKeepsPulses ==
  ASSUME WholeInv, NEW t \in Threads, InQueues(t)
  PROVE  NotifyInv'
<1>1. UNCHANGED <<isMultiPulse, isPulseHandled, pulses, mpc>>
  BY DEF InQueues, flagVars, ghostVars
<1>2. /\ ThreadsTypeOK /\ ReleaseQueue!QueueTypeOK /\ PulseQueue!QueueTypeOK
      /\ RQ!QueueInv /\ PQ!QueueInv /\ NotifyInv /\ CallInv
  BY DEF WholeInv, TypeOK
<1>3. ASSUME ~overran' PROVE ~overran
  BY <1>2, <1>3, ReleaseQueueStep, PulseQueueStep DEF InQueues, QueueMoves
<1>4. ASSUME ~overran', Unnotified PROVE Unnotified'
  <2>1. CASE ReleaseQueue!QueueStep(t) /\ UNCHANGED pulseVars
    <3>1. SlotMoves(rpc, t) /\ ppc' = ppc
      BY <1>2, <2>1, ReleaseQueueOrder DEF pulseVars
    <3>2. \A u \in Threads : ppc[u] = "pInt" => isUnderSheduling'[u] = isUnderSheduling[u]
      BY <1>2, <1>4, <3>1 DEF CallInv, SlotMoves
    <3> QED
      BY <1>1, <1>4, <3>1, <3>2 DEF Unnotified
  <2>2. CASE PulseQueue!QueueStep(t) /\ UNCHANGED releaseVars
    <3>1. QueueMoves(ppc, t)
      BY <1>2, <2>2, PulseQueueStep
    <3>2. ppc[t] \in ReleaseQueue!WaitLabels
      <4>1. ppc[t] \in {"idle"} \cup ReleaseQueue!WaitLabels \cup ReleaseQueue!WakeLabels
        BY <1>2 DEF PulseQueue!QueueTypeOK, PulseQueue!QueueLabels, PulseQueue!WaitLabels,
                    PulseQueue!WakeLabels, PulseQueue!PauseLabels, ReleaseQueue!WaitLabels,
                    ReleaseQueue!WakeLabels, ReleaseQueue!PauseLabels, PulseQueue!Threads,
                    Threads
      <4> QED
        BY <1>4, <3>1, <4>1 DEF Unnotified, QueueMoves
    <3>3. mpc[t] = "w_relock" /\ (ppc[t] = "pInt" => ~isUnderSheduling[t])
      BY <1>2, <1>4, <3>2 DEF CallInv, Unnotified
    <3>4. /\ \A u \in Threads \ {t} : isUnderSheduling'[u] = isUnderSheduling[u]
          /\ ppc'[t] \in ReleaseQueue!WaitLabels
          /\ ppc'[t] = "pInt" => ~isUnderSheduling'[t]
      BY <1>2, <1>4, <2>2, <3>2, <3>3, PulseWaitStep
    <3>5. ppc'[t] \notin ReleaseQueue!WakeLabels
      BY <3>4 DEF ReleaseQueue!WaitLabels, ReleaseQueue!WakeLabels, ReleaseQueue!PauseLabels
    <3> QED
      BY <1>1, <1>4, <3>1, <3>3, <3>4, <3>5 DEF Unnotified, QueueMoves
  <2> QED
    BY <2>1, <2>2 DEF InQueues
<1> QED
  BY <1>1, <1>2, <1>3, <1>4 DEF NotifyInv, SleepsOn

LEMMA NextKeepsWhole == WholeInv /\ [Next]_vars => WholeInv'
<1> SUFFICES ASSUME WholeInv, [Next]_vars PROVE WholeInv'
  OBVIOUS
<1>1. IInv'
  BY NextKeepsInv DEF WholeInv
<1>2. ASSUME NEW t \in Workers, Step(t) PROVE WholeInv'
  <2>1. t \in Threads
    BY WorkersAreThreads
  <2>2. CASE InQueues(t)
    BY <1>1, <2>1, <2>2, QueueStepKeeps, QueueStepKeepsOrder, QueueStepKeepsPulses DEF WholeInv
  <2>3. CASE \/ Caller(t) \/ capture(t) \/ release(t) \/ wait(t) \/ notify(t)
             \/ notifyAll(t)
    BY <1>1, <2>1, <2>3, OwnStepKeeps, OwnStepKeepsOrder, OwnStepKeepsPulses DEF WholeInv
  <2> QED
    BY <1>2, <2>2, <2>3 DEF Step
<1>3. CASE Tick \/ UNCHANGED vars
  <2>1. /\ UNCHANGED <<isUnderSheduling, state, releaseVars, pulseVars, overran, smashed,
                       mpc, calls>>
        /\ currThreadIndex' \in Threads
    BY <1>3, NumThreadsAssumption
       DEF Tick, vars, threadVars, change_thread, Threads, WholeInv, TypeOK, ThreadsTypeOK
  <2>2. ThreadsTypeOK' /\ ReleaseQueue!QueueTypeOK' /\ PulseQueue!QueueTypeOK'
    BY <2>1 DEF WholeInv, TypeOK, ThreadsTypeOK, ReleaseQueue!QueueTypeOK,
                PulseQueue!QueueTypeOK, releaseVars, pulseVars
  <2>3. CallInv' /\ ScheduleInv' /\ AwakeInv'
    BY <2>1 DEF WholeInv, CallInv, ScheduleInv, AwakeInv, InPause, releaseVars, pulseVars
  <2>4. RQ!QueueInv' /\ PQ!QueueInv'
    <3>1. \A u \in Threads : MayJoin(rpc, u) /\ MayJoin(ppc, u)
      BY <2>1 DEF MayJoin, releaseVars, pulseVars
    <3> QED
      BY <2>1, <3>1, ReleaseQueueAside, PulseQueueAside
         DEF WholeInv, TypeOK, releaseVars, pulseVars
  <2>5. NotifyInv'
    <3>1. UNCHANGED <<isMultiPulse, isPulseHandled, pulses, ppc, mpc, overran,
                      isUnderSheduling>>
      BY <1>3, <2>1 DEF Tick, vars, flagVars, ghostVars, pulseVars
    <3> QED
      BY <3>1 DEF WholeInv, NotifyInv, SleepsOn, Unnotified
  <2> QED
    BY <1>1, <2>1, <2>2, <2>3, <2>4, <2>5 DEF WholeInv, TypeOK, IInv, OwnTypeOK
<1> QED
  BY <1>2, <1>3 DEF Next

THEOREM WholeInvariance == Spec => []WholeInv
BY InitWhole, NextKeepsWhole, PTL DEF Spec

\* Every variable of the monitor and of its two queues keeps to its type, for any
\* number of threads and calls: the counter of entries never falls below zero, and
\* the counts of the queues stay in their range, although threads outrun their pauses.
THEOREM TypeCorrect == Spec => []TypeOK
BY WholeInvariance, PTL DEF WholeInv

\* None of the three spin locks is held by a thread the scheduler cannot select, as
\* long as no thread has outrun its pause: monitor.c lets go of its own lock before
\* each of its two calls of queue_waiting_thread, and wakes with it in hand.
THEOREM HoldersAreSchedulable == Spec => []LockHolderSchedulable
<1>1. WholeInv => LockHolderSchedulable
  BY DEF WholeInv, CallInv, ScheduleInv, LockHolderSchedulable, HoldsLock, HoldsQLock,
         ReleaseQueue!WaitLabels, ReleaseQueue!WakeLabels, ReleaseQueue!PauseLabels
<1> QED
  BY WholeInvariance, <1>1, PTL

\* As long as no thread has outrun its pause, waits return at most as often as notify
\* was called, whatever notifyAll did: the flags that let one out are a pulse nobody
\* has taken (NotifyInv), and the spin lock keeps them so until it is marked taken.
THEOREM WaitsNeedPulses == Spec => []OneExitPerNotify
<1>1. WholeInv => OneExitPerNotify
  BY DEF WholeInv, IInv, PulseInv, OwnTypeOK, NotifyInv, Unnotified, OneExitPerNotify
<1> QED
  BY WholeInvariance, <1>1, PTL

\* Up to the first overrun both queues of the monitor are lists of waiting threads,
\* linked as their counts say, whenever their own lock is free; with the slots shared
\* and each thread on its way through one queue at a time.
THEOREM QueueOrder == Spec => []QueuesInOrder
<1>1. WholeInv => QueuesInOrder
  <2> SUFFICES ASSUME WholeInv PROVE QueuesInOrder
    OBVIOUS
  <2>1. RQ!QueueWellFormed
    BY SameRelease, RQ!OrderedQueue, NumThreadsAssumption, CountRangeAssumption
       DEF WholeInv, TypeOK
  <2>2. PQ!QueueWellFormed
    BY SamePulse, PQ!OrderedQueue, NumThreadsAssumption, CountRangeAssumption
       DEF WholeInv, TypeOK
  <2>3. ReleaseQueue!QueueWellFormed
    BY <2>1 DEF RQ!QueueWellFormed, ReleaseQueue!QueueWellFormed, RQ!Hop, ReleaseQueue!Hop,
                RQ!Linked, ReleaseQueue!Linked, RQ!Framed, ReleaseQueue!Framed,
                RQ!WaitLabels, ReleaseQueue!WaitLabels, RQ!PauseLabels,
                ReleaseQueue!PauseLabels, RQ!NoEntry, ReleaseQueue!NoEntry,
                RQ!Threads, ReleaseQueue!Threads
  <2>4. PulseQueue!QueueWellFormed
    BY <2>2 DEF PQ!QueueWellFormed, PulseQueue!QueueWellFormed, PQ!Hop, PulseQueue!Hop,
                PQ!Linked, PulseQueue!Linked, PQ!Framed, PulseQueue!Framed,
                PQ!WaitLabels, PulseQueue!WaitLabels, PQ!PauseLabels,
                PulseQueue!PauseLabels, PQ!NoEntry, PulseQueue!NoEntry,
                PQ!Threads, PulseQueue!Threads
  <2> QED
    BY <2>3, <2>4 DEF QueuesInOrder
<1> QED
  BY WholeInvariance, <1>1, PTL
=============================================================================
