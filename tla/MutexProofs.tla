---------------------------- MODULE MutexProofs ----------------------------
(***************************************************************************)
(* Proofs about Mutex, for every number of threads and calls: the types,   *)
(* mutual exclusion, what owner and counter say between calls, that the    *)
(* holder of a spin lock can be selected, that the queue of sleepers is in *)
(* order, and the refinement of the abstract reentrant mutex.              *)
(*                                                                         *)
(* The argument is Ownership: the spin lock admits one thread (LockInv),   *)
(* only that thread stores ownerThreadId and enterCounter, and these       *)
(* account for the entries every caller has seen (depth) and for the one   *)
(* its call in progress is about to add or has already taken off.          *)
(***************************************************************************)
EXTENDS Mutex, SleepQueueProofs

\* The spin lock: a thread past its capture finds it taken, and is alone there.
LockInv ==
  /\ \A t \in Threads : HoldsLock(t) => lock = 1
  /\ \A t, u \in Threads : HoldsLock(t) /\ HoldsLock(u) => t = u

\* The owner's entry that enterCounter counts and depth does not: a wait that
\* has yet to return, or a release that has yet to reach the counter.
InCall(t) == mpc[t] \in {"w_unlock", "r_lock", "r_test"}

Ownership ==
  /\ ownerThreadId = NoOwner => enterCounter = 0
  /\ ownerThreadId # NoOwner => enterCounter > 0
  /\ \A t \in Threads : mpc[t] = "w_own" => ownerThreadId = NoOwner
  /\ \A t \in Threads :
        IF ownerThreadId = t
        THEN enterCounter = depth[t] + (IF InCall(t) THEN 1 ELSE 0)
        ELSE depth[t] = 0 /\ mpc[t] # "w_unlock"

\* Where a thread stands in Mutex while it is in a routine of the queue.
CallInv ==
  \A t \in Threads :
     /\ qpc[t] \in WaitLabels => mpc[t] = "w_relock"
     /\ qpc[t] \in WakeLabels => mpc[t] = "r_unlock"

\* Who may be off the scheduler when nobody has outrun a pause.
OffScheduler(t) == qpc[t] = "pInt" \/ (qpc[t] = "idle" /\ mpc[t] \in {"th_stop", "stopped"})

ScheduleInv == ~overran => \A t \in Threads : ~isUnderSheduling[t] => OffScheduler(t)

IInv ==
  TypeOK /\ LockInv /\ Ownership /\ CallInv /\ ScheduleInv /\ QueueInv /\ Awake

-----------------------------------------------------------------------------

LEMMA WorkersAreThreads == Workers \subseteq Threads /\ \A t \in Threads : t \in Int /\ t # NoOwner
BY NumThreadsAssumption DEF Workers, Threads, NoOwner

-----------------------------------------------------------------------------
(* Types.                                                                  *)

LEMMA InitTyped == Init => TypeOK
<1> SUFFICES ASSUME Init PROVE TypeOK
  OBVIOUS
<1>1. ThreadsTypeOK
  BY NumThreadsAssumption DEF Init, ThreadsTypeOK, Threads, MainThread, ThreadStates
<1>2. QueueTypeOK
  BY QueueInitTyped DEF Init
<1> QED
  BY <1>1, <1>2, MaxCallsAssumption DEF Init, TypeOK, MutexLabels

LEMMA QueueKeepsTypes ==
  ASSUME TypeOK, NEW t \in Threads, QueueStep(t), UNCHANGED mutexVars
  PROVE  TypeOK'
BY QueueStepTyped DEF TypeOK, mutexVars

\* enterCounter stays a natural number only because a release that counts is
\* the owner's, and the owner's entries are counted.
LEMMA MutexStepTyped ==
  ASSUME TypeOK, Ownership, NEW t \in Threads, Caller(t) \/ wait(t) \/ release(t)
  PROVE  TypeOK'
<1> USE DEF TypeOK, ThreadsTypeOK, QueueTypeOK, threadVars, queueVars, Goto, At, QAt
<1>0. t # NoOwner /\ t \in Threads \cup {NoOwner}
  BY WorkersAreThreads
<1>1. CASE call_wait(t)
  BY <1>1 DEF call_wait, MutexLabels
<1>2. CASE call_release(t)
  BY <1>2 DEF call_release, MutexLabels
<1>3. CASE misuse_release(t)
  BY <1>3 DEF misuse_release, MutexLabels
<1>4. CASE th_leave(t)
  BY <1>4 DEF th_leave, MutexLabels
<1>5. CASE th_stop(t)
  BY <1>5 DEF th_stop, MutexLabels, ThreadStates
<1>6. CASE w_lock(t)
  BY <1>6 DEF w_lock, MutexLabels
<1>7. CASE w_test(t)
  BY <1>7 DEF w_test, MutexLabels
<1>8. CASE w_block(t)
  BY <1>8 DEF w_block, MutexLabels, QGoto, QueueLabels, WaitLabels
<1>9. CASE w_relock(t)
  BY <1>9 DEF w_relock, MutexLabels
<1>10. CASE w_free(t)
  BY <1>10 DEF w_free, MutexLabels
<1>11. CASE w_own(t)
  BY <1>0, <1>11 DEF w_own, MutexLabels
<1>12. CASE w_unlock(t)
  BY <1>12 DEF w_unlock, MutexLabels
<1>13. CASE r_lock(t)
  BY <1>13 DEF r_lock, MutexLabels
<1>14. CASE r_last(t)
  BY <1>0, <1>14 DEF r_last, MutexLabels, QGoto, QueueLabels, WakeLabels
<1>15. CASE r_nested(t)
  BY <1>0, <1>15 DEF r_nested, MutexLabels, Ownership
<1>16. CASE r_stranger(t)
  BY <1>16 DEF r_stranger, MutexLabels
<1>17. CASE r_unlock(t)
  BY <1>17 DEF r_unlock, MutexLabels
<1> QED
  BY <1>1, <1>2, <1>3, <1>4, <1>5, <1>6, <1>7, <1>8, <1>9, <1>10, <1>11, <1>12, <1>13,
     <1>14, <1>15, <1>16, <1>17
     DEF Caller, wait, release

LEMMA TickTyped == TypeOK /\ Tick => TypeOK'
BY NumThreadsAssumption
   DEF TypeOK, ThreadsTypeOK, QueueTypeOK, Tick, change_thread, queueVars, mutexVars, Threads

-----------------------------------------------------------------------------
(* The spin lock.                                                          *)

LEMMA CallerKeepsLockInv ==
  ASSUME TypeOK, LockInv, NEW t \in Threads, Caller(t)
  PROVE  LockInv'
<1> USE DEF TypeOK, LockInv, HoldsLock, Goto
<1>1. CASE call_wait(t)
  BY <1>1 DEF call_wait
<1>2. CASE call_release(t)
  BY <1>2 DEF call_release
<1>3. CASE misuse_release(t)
  BY <1>3 DEF misuse_release
<1>4. CASE th_leave(t)
  BY <1>4 DEF th_leave
<1>5. CASE th_stop(t)
  BY <1>5 DEF th_stop
<1> QED
  BY <1>1, <1>2, <1>3, <1>4, <1>5 DEF Caller

LEMMA WaitKeepsLockInv ==
  ASSUME TypeOK, LockInv, NEW t \in Threads, wait(t)
  PROVE  LockInv'
<1> USE DEF TypeOK, LockInv, HoldsLock, Goto, At
<1>1. CASE w_lock(t)
  BY <1>1 DEF w_lock
<1>2. CASE w_test(t)
  BY <1>2 DEF w_test
<1>3. CASE w_block(t)
  BY <1>3 DEF w_block
<1>4. CASE w_relock(t)
  BY <1>4 DEF w_relock
<1>5. CASE w_free(t)
  BY <1>5 DEF w_free
<1>6. CASE w_own(t)
  BY <1>6 DEF w_own
<1>7. CASE w_unlock(t)
  BY <1>7 DEF w_unlock
<1> QED
  BY <1>1, <1>2, <1>3, <1>4, <1>5, <1>6, <1>7 DEF wait

LEMMA ReleaseKeepsLockInv ==
  ASSUME TypeOK, LockInv, NEW t \in Threads, release(t)
  PROVE  LockInv'
<1> USE DEF TypeOK, LockInv, HoldsLock, Goto, At
<1>1. CASE r_lock(t)
  BY <1>1 DEF r_lock
<1>2. CASE r_last(t)
  BY <1>2 DEF r_last
<1>3. CASE r_nested(t)
  BY <1>3 DEF r_nested
<1>4. CASE r_stranger(t)
  BY <1>4 DEF r_stranger
<1>5. CASE r_unlock(t)
  BY <1>5 DEF r_unlock
<1> QED
  BY <1>1, <1>2, <1>3, <1>4, <1>5 DEF release

-----------------------------------------------------------------------------
(* Owner, counter and depth.                                               *)

LEMMA CallerKeepsOwnership ==
  ASSUME TypeOK, Ownership, NEW t \in Threads, Caller(t)
  PROVE  Ownership'
<1> USE WorkersAreThreads DEF TypeOK, Ownership, InCall, Goto, At
<1>1. CASE call_wait(t)
  BY <1>1 DEF call_wait, MutexLabels
<1>2. CASE call_release(t)
  BY <1>2 DEF call_release, MutexLabels
<1>3. CASE misuse_release(t)
  BY <1>3 DEF misuse_release, MutexLabels
<1>4. CASE th_leave(t)
  BY <1>4 DEF th_leave, MutexLabels
<1>5. CASE th_stop(t)
  BY <1>5 DEF th_stop, MutexLabels
<1> QED
  BY <1>1, <1>2, <1>3, <1>4, <1>5 DEF Caller

LEMMA WaitKeepsOwnership ==
  ASSUME TypeOK, LockInv, Ownership, NEW t \in Threads, wait(t)
  PROVE  Ownership'
<1> USE WorkersAreThreads DEF TypeOK, Ownership, InCall, Goto, At
<1>1. CASE w_lock(t)
  BY <1>1 DEF w_lock
<1>2. CASE w_test(t)
  BY <1>2 DEF w_test
<1>3. CASE w_block(t)
  BY <1>3 DEF w_block
<1>4. CASE w_relock(t)
  BY <1>4 DEF w_relock
<1>5. CASE w_free(t)
  BY <1>5 DEF w_free
<1>6. CASE w_own(t)
  <2>1. ownerThreadId = NoOwner /\ enterCounter = 0 /\ depth[t] = 0
    BY <1>6 DEF w_own
  <2>2. \A u \in Threads : u # t => mpc[u] # "w_own"
    BY <1>6 DEF w_own, LockInv, HoldsLock
  <2> QED
    BY <1>6, <2>1, <2>2 DEF w_own
<1>7. CASE w_unlock(t)
  BY <1>7 DEF w_unlock
<1> QED
  BY <1>1, <1>2, <1>3, <1>4, <1>5, <1>6, <1>7 DEF wait

LEMMA ReleaseKeepsOwnership ==
  ASSUME TypeOK, Ownership, NEW t \in Threads, release(t)
  PROVE  Ownership'
<1> USE WorkersAreThreads DEF TypeOK, Ownership, InCall, Goto, At
<1>1. CASE r_lock(t)
  BY <1>1 DEF r_lock
<1>2. CASE r_last(t)
  BY <1>2 DEF r_last
<1>3. CASE r_nested(t)
  BY <1>3 DEF r_nested
<1>4. CASE r_stranger(t)
  BY <1>4 DEF r_stranger
<1>5. CASE r_unlock(t)
  BY <1>5 DEF r_unlock
<1> QED
  BY <1>1, <1>2, <1>3, <1>4, <1>5 DEF release

-----------------------------------------------------------------------------
(* Who is off the scheduler.                                               *)

LEMMA QueueStepKeepsCalls ==
  ASSUME TypeOK, CallInv, ScheduleInv, NEW t \in Threads, QueueStep(t), UNCHANGED mutexVars
  PROVE  CallInv' /\ ScheduleInv'
<1>1. CallInv'
  BY QueueStepMoves DEF TypeOK, CallInv, mutexVars
<1>2. ScheduleInv'
  BY QueueStepMoves
     DEF TypeOK, CallInv, ScheduleInv, OffScheduler, mutexVars, WaitLabels, PauseLabels
<1> QED
  BY <1>1, <1>2

LEMMA MutexStepKeepsCalls ==
  ASSUME TypeOK, CallInv, ScheduleInv, NEW t \in Threads, Caller(t) \/ wait(t) \/ release(t)
  PROVE  CallInv' /\ ScheduleInv'
<1> USE DEF TypeOK, QueueTypeOK, ThreadsTypeOK, CallInv, ScheduleInv, OffScheduler, At, QAt,
            QGoto, Goto, WaitLabels, WakeLabels, PauseLabels, queueVars, threadVars
<1>1. CASE Caller(t)
  BY <1>1 DEF Caller, call_wait, call_release, misuse_release, th_leave, th_stop
<1>2. CASE w_block(t)
  BY <1>2 DEF w_block
<1>3. CASE r_last(t)
  BY <1>3 DEF r_last
<1>4. CASE w_lock(t) \/ w_test(t) \/ w_relock(t) \/ w_free(t) \/ w_own(t) \/ w_unlock(t)
  BY <1>4 DEF w_lock, w_test, w_relock, w_free, w_own, w_unlock
<1>5. CASE r_lock(t) \/ r_nested(t) \/ r_stranger(t) \/ r_unlock(t)
  BY <1>5 DEF r_lock, r_nested, r_stranger, r_unlock
<1> QED
  BY <1>1, <1>2, <1>3, <1>4, <1>5 DEF wait, release

-----------------------------------------------------------------------------
(* The queue of sleepers.                                                  *)

LEMMA MutexStepKeepsQueue ==
  ASSUME TypeOK, ScheduleInv, QueueInv, Awake, NEW t \in Threads,
         Caller(t) \/ wait(t) \/ release(t)
  PROVE  QueueInv' /\ Awake'
<1>1. /\ UNCHANGED <<head, tail, count, qlock, next, target, overran, smashed>>
      /\ qpc[t] = "idle"
      /\ \A u \in Threads \ {t} : state'[u] = state[u]
                                /\ isUnderSheduling'[u] = isUnderSheduling[u]
      /\ state'[t] = "WAITSLEEPJOIN" => state[t] = "WAITSLEEPJOIN"
      /\ \/ UNCHANGED qpc
         \/ QGoto(t, "wLock")
         \/ QGoto(t, "qLock") /\ mpc[t] = "w_loop" /\ UNCHANGED threadVars
  <2> USE DEF TypeOK, ThreadsTypeOK, At, QAt, queueVars, threadVars
  <2>1. CASE Caller(t)
    BY <2>1 DEF Caller, call_wait, call_release, misuse_release, th_leave, th_stop
  <2>2. CASE wait(t)
    BY <2>2 DEF wait, w_lock, w_test, w_block, w_relock, w_free, w_own, w_unlock
  <2>3. CASE release(t)
    BY <2>3 DEF release, r_lock, r_last, r_nested, r_stranger, r_unlock
  <2> QED
    BY <2>1, <2>2, <2>3
<1>2. QueueTypeOK /\ qpc \in [Threads -> QueueLabels]
  BY DEF TypeOK, QueueTypeOK
<1>3. ASSUME ~overran, mpc[t] = "w_loop"
      PROVE  isUnderSheduling[t] /\ state[t] # "WAITSLEEPJOIN"
  BY <1>1, <1>3 DEF ScheduleInv, OffScheduler, Awake
<1>4. \A u \in Threads : MayEnter(u)
  BY <1>1, <1>2, <1>3 DEF MayEnter, QGoto, threadVars
<1>5. \A u \in Threads : qpc[u] \in WaitLabels =>
         state'[u] = state[u] /\ isUnderSheduling'[u] = isUnderSheduling[u]
  BY <1>1 DEF WaitLabels, PauseLabels
<1>6. QueueInv'
  BY <1>1, <1>2, <1>4, <1>5, OtherStepKeepsInv
<1>7. Awake'
  BY <1>1, <1>2 DEF Awake, QGoto
<1> QED
  BY <1>6, <1>7

-----------------------------------------------------------------------------
(* The inductive invariant.                                                *)

LEMMA InitInv == Init => IInv
<1> SUFFICES ASSUME Init PROVE IInv
  OBVIOUS
<1>1. TypeOK
  BY InitTyped
<1>2. LockInv /\ Ownership
  BY WorkersAreThreads DEF Init, LockInv, HoldsLock, Ownership, InCall
<1>3. CallInv /\ ScheduleInv
  BY DEF Init, QueueInit, CallInv, ScheduleInv, WaitLabels, WakeLabels, PauseLabels
<1>4. QueueInv
  BY QueueInitInv DEF Init
<1>5. Awake
  BY DEF Init, Awake
<1> QED
  BY <1>1, <1>2, <1>3, <1>4, <1>5 DEF IInv

\* The steps that leave the variables of the mutex alone.
LEMMA MutexVarsUnchanged ==
  ASSUME LockInv, Ownership, UNCHANGED mutexVars
  PROVE  LockInv' /\ Ownership'
BY DEF LockInv, HoldsLock, Ownership, InCall, mutexVars

LEMMA NextKeepsInv == IInv /\ [Next]_vars => IInv'
<1> SUFFICES ASSUME IInv, [Next]_vars PROVE IInv'
  OBVIOUS
<1> USE DEF IInv
<1>1. ASSUME NEW t \in Workers, Caller(t) \/ wait(t) \/ release(t)
      PROVE  IInv'
  <2>1. t \in Threads
    BY WorkersAreThreads
  <2>2. TypeOK'
    BY <1>1, <2>1, MutexStepTyped
  <2>3. CallInv' /\ ScheduleInv'
    BY <1>1, <2>1, MutexStepKeepsCalls
  <2>4. LockInv'
    BY <1>1, <2>1, CallerKeepsLockInv, WaitKeepsLockInv, ReleaseKeepsLockInv
  <2>5. Ownership'
    BY <1>1, <2>1, CallerKeepsOwnership, WaitKeepsOwnership, ReleaseKeepsOwnership
  <2>6. QueueInv' /\ Awake'
    BY <1>1, <2>1, MutexStepKeepsQueue
  <2> QED
    BY <2>2, <2>3, <2>4, <2>5, <2>6
<1>2. ASSUME NEW t \in Workers, QueueStep(t), UNCHANGED mutexVars
      PROVE  IInv'
  <2>1. QueueInv' /\ Awake'
    BY <1>2, WorkersAreThreads, QueueStepKeepsInv, QueueStepAwake DEF TypeOK
  <2> QED
    BY <1>2, <2>1, WorkersAreThreads, QueueKeepsTypes, QueueStepKeepsCalls,
       MutexVarsUnchanged
<1>3. CASE Tick
  <2>1. UNCHANGED <<isUnderSheduling, state, queueVars, mutexVars>>
    BY <1>3 DEF Tick
  <2>2. CallInv' /\ ScheduleInv'
    BY <2>1 DEF CallInv, ScheduleInv, OffScheduler, queueVars, mutexVars
  <2>3. QueueInv' /\ Awake'
    BY <2>1, QueueUntouched DEF TypeOK
  <2> QED
    BY <1>3, <2>1, <2>2, <2>3, TickTyped, MutexVarsUnchanged
<1>4. CASE UNCHANGED vars
  BY <1>4, MutexVarsUnchanged, QueueUntouched
     DEF vars, threadVars, queueVars, mutexVars, TypeOK, ThreadsTypeOK, QueueTypeOK,
         CallInv, ScheduleInv, OffScheduler
<1> QED
  BY <1>1, <1>2, <1>3, <1>4 DEF Next, Step

THEOREM Invariance == Spec => []IInv
BY InitInv, NextKeepsInv, PTL DEF Spec

-----------------------------------------------------------------------------
(* What follows from it.                                                   *)

\* Every variable of the mutex keeps to its type, for any number of threads.
THEOREM TypeCorrect == Spec => []TypeOK
BY Invariance, PTL DEF IInv

\* At most one thread is between a returned wait and its release, although
\* threads outrun their pause and strangers call release.
THEOREM MutexExcludes == Spec => []MutualExclusion
<1>1. IInv => MutualExclusion
  BY WorkersAreThreads DEF IInv, TypeOK, Ownership, MutualExclusion
<1> QED
  BY Invariance, <1>1, PTL

\* Owner and counter are what the callers have seen, whenever they look.
THEOREM OwnerIsWhoEntered == Spec => []OwnerMatchesDepth
<1>1. IInv => OwnerMatchesDepth
  BY WorkersAreThreads DEF IInv, TypeOK, Ownership, InCall, OwnerMatchesDepth
<1> QED
  BY Invariance, <1>1, PTL

\* No spin lock is held by a thread the scheduler cannot select, as long as no
\* thread has outrun its pause.
THEOREM HoldersAreSchedulable == Spec => []LockHolderSchedulable
<1>1. IInv => LockHolderSchedulable
  BY DEF IInv, CallInv, ScheduleInv, OffScheduler, LockHolderSchedulable, HoldsLock,
         HoldsQLock, WaitLabels, WakeLabels, PauseLabels
<1> QED
  BY Invariance, <1>1, PTL

\* While its lock is free the mutex's queue is a list without repetition, from head
\* to tail, as long as count says, of threads that are still in
\* queue_waiting_thread; as long as no thread has outrun its pause.
THEOREM QueueInOrder == Spec => []QueueWellFormed
<1>1. IInv => QueueWellFormed
  BY OrderedQueue DEF IInv, TypeOK
<1> QED
  BY Invariance, <1>1, PTL

-----------------------------------------------------------------------------
(* The refinement.                                                         *)

\* The abstract state, a call for each thread.
CallMap == [t \in Threads |-> CallOf(mpc[t])]

\* A thread that goes from one label to another proceeds from one call to another.
LEMMA CallProceeds ==
  ASSUME TypeOK, NEW t \in Threads, NEW label, Goto(t, label)
  PROVE  CallMap' = [CallMap EXCEPT ![t] = CallOf(label)]
<1>1. mpc' = [mpc EXCEPT ![t] = label] /\ mpc \in [Threads -> MutexLabels]
  BY DEF TypeOK, Goto
<1>2. \A u \in Threads : mpc'[u] = IF u = t THEN label ELSE mpc[u]
  BY <1>1
<1>3. \A u \in Threads : CallOf(mpc'[u]) = IF u = t THEN CallOf(label) ELSE CallOf(mpc[u])
  BY <1>2
<1>4. CallMap' = [u \in Threads |-> CallOf(mpc'[u])]
  BY DEF CallMap
<1> QED
  BY <1>3, <1>4 DEF CallMap

\* A call that goes on without taking effect.
LEMMA CallStands ==
  ASSUME TypeOK, NEW t \in Threads, NEW label, Goto(t, label), CallOf(mpc[t]) = CallOf(label)
  PROVE  CallMap' = CallMap
<1>1. CallMap' = [CallMap EXCEPT ![t] = CallOf(label)] /\ CallMap[t] = CallOf(label)
  BY CallProceeds DEF CallMap
<1> QED
  BY <1>1 DEF CallMap

AbstractVars == <<ownerThreadId, enterCounter, depth, CallMap>>

LEMMA CallerRefines ==
  ASSUME IInv, NEW t \in Threads, Caller(t)
  PROVE  Abstract!Next \/ UNCHANGED AbstractVars
<1> USE DEF IInv, At
<1>1. CASE call_wait(t)
  <2>1. CallMap' = [CallMap EXCEPT ![t] = "wait"] /\ CallMap[t] = "none"
    BY <1>1, CallProceeds DEF call_wait, CallMap, CallOf
  <2>2. Abstract!CallWait(t)
    BY <1>1, <2>1 DEF call_wait, Abstract!CallWait, Abstract!Proceed, CallMap
  <2> QED
    BY <2>2 DEF Abstract!Next
<1>2. CASE call_release(t)
  <2>1. CallMap' = [CallMap EXCEPT ![t] = "release"] /\ CallMap[t] = "none"
    BY <1>2, CallProceeds DEF call_release, CallMap, CallOf
  <2>2. ownerThreadId = t /\ enterCounter = depth[t]
    BY <1>2, WorkersAreThreads DEF call_release, Ownership, InCall, TypeOK
  <2>3. Abstract!CallRelease(t)
    BY <1>2, <2>1, <2>2 DEF call_release, Abstract!CallRelease, Abstract!Proceed, CallMap
  <2> QED
    BY <2>3 DEF Abstract!Next
<1>3. CASE misuse_release(t)
  <2>1. CallMap' = [CallMap EXCEPT ![t] = "release"] /\ CallMap[t] = "none"
    BY <1>3, CallProceeds DEF misuse_release, CallMap, CallOf
  <2>2. ownerThreadId # t /\ depth[t] = 0
    BY <1>3, WorkersAreThreads DEF misuse_release, Ownership, InCall, TypeOK
  <2>3. Abstract!StrayRelease(t)
    BY <1>3, <2>1, <2>2 DEF misuse_release, Abstract!StrayRelease, Abstract!Proceed, CallMap
  <2> QED
    BY <2>3 DEF Abstract!Next
<1>4. CASE th_leave(t)
  BY <1>4, CallStands DEF th_leave, CallOf, AbstractVars
<1>5. CASE th_stop(t)
  BY <1>5, CallStands DEF th_stop, CallOf, AbstractVars
<1> QED
  BY <1>1, <1>2, <1>3, <1>4, <1>5 DEF Caller

\* A wait takes effect at w_test for the owner, and at w_own for the others.
LEMMA WaitRefines ==
  ASSUME IInv, NEW t \in Threads, wait(t)
  PROVE  Abstract!Next \/ UNCHANGED AbstractVars
<1> USE DEF IInv, At
<1>1. ASSUME Goto(t, "w_unlock"), CallOf(mpc[t]) = "wait", ownerThreadId \in {NoOwner, t},
             enterCounter = depth[t], ownerThreadId' = t, enterCounter' = enterCounter + 1,
             UNCHANGED depth
      PROVE  Abstract!Next
  <2>1. CallMap' = [CallMap EXCEPT ![t] = "entered"] /\ CallMap[t] = "wait"
    BY <1>1, CallProceeds DEF CallMap, CallOf
  <2>2. Abstract!Enter(t)
    BY <1>1, <2>1 DEF Abstract!Enter, Abstract!Proceed, CallMap
  <2> QED
    BY <2>2 DEF Abstract!Next
<1>2. CASE w_test(t)
  <2>1. CASE ownerThreadId = t
    <3>1. enterCounter = depth[t]
      <4>1. mpc[t] = "w_test" /\ depth[t] \in Nat
        BY <1>2 DEF w_test, TypeOK
      <4> QED
        BY <2>1, <4>1 DEF Ownership, InCall
    <3> QED
      BY <1>1, <1>2, <2>1, <3>1 DEF w_test, CallOf
  <2>2. CASE ownerThreadId # t
    BY <1>2, <2>2, CallStands DEF w_test, CallOf, AbstractVars
  <2> QED
    BY <2>1, <2>2
<1>3. CASE w_own(t)
  <2>1. ownerThreadId = NoOwner /\ enterCounter = 0 /\ depth[t] = 0
    BY <1>3, WorkersAreThreads DEF w_own, Ownership
  <2> QED
    BY <1>1, <1>3, <2>1 DEF w_own, CallOf
<1>4. CASE w_unlock(t)
  <2>1. CallMap' = [CallMap EXCEPT ![t] = "none"] /\ CallMap[t] = "entered"
    BY <1>4, CallProceeds DEF w_unlock, CallMap, CallOf
  <2>2. ownerThreadId = t /\ enterCounter = depth[t] + 1
    BY <1>4 DEF w_unlock, Ownership, InCall
  <2>3. Abstract!ReturnWait(t)
    BY <1>4, <2>1, <2>2 DEF w_unlock, Abstract!ReturnWait, Abstract!Proceed, CallMap
  <2> QED
    BY <2>3 DEF Abstract!Next
<1>5. CASE w_lock(t) \/ w_relock(t) \/ w_free(t)
  BY <1>5, CallStands DEF w_lock, w_relock, w_free, CallOf, AbstractVars
<1>6. CASE w_block(t)
  BY <1>6, CallStands DEF w_block, CallOf, AbstractVars
<1> QED
  BY <1>2, <1>3, <1>4, <1>5, <1>6 DEF wait

\* A release takes effect at r_test.
LEMMA ReleaseRefines ==
  ASSUME IInv, NEW t \in Threads, release(t)
  PROVE  Abstract!Next \/ UNCHANGED AbstractVars
<1> USE DEF IInv, At
<1>1. ASSUME Goto(t, "r_unlock"), mpc[t] = "r_test"
      PROVE  CallMap' = [CallMap EXCEPT ![t] = "left"] /\ CallMap[t] = "release"
  BY <1>1, CallProceeds DEF CallMap, CallOf
<1>2. ASSUME mpc[t] = "r_test", ownerThreadId = t
      PROVE  enterCounter = depth[t] + 1 /\ depth[t] \in Nat
  BY <1>2 DEF Ownership, InCall, TypeOK
<1>3. CASE r_last(t)
  <2>1. Abstract!Leave(t)
    BY <1>1, <1>2, <1>3 DEF r_last, Abstract!Leave, Abstract!Proceed, CallMap
  <2> QED
    BY <2>1 DEF Abstract!Next
<1>4. CASE r_nested(t)
  <2>1. Abstract!Leave(t)
    BY <1>1, <1>2, <1>4 DEF r_nested, Abstract!Leave, Abstract!Proceed, CallMap
  <2> QED
    BY <2>1 DEF Abstract!Next
<1>5. CASE r_stranger(t)
  <2>1. Abstract!Ignore(t)
    BY <1>1, <1>5 DEF r_stranger, Abstract!Ignore, Abstract!Proceed, CallMap
  <2> QED
    BY <2>1 DEF Abstract!Next
<1>6. CASE r_unlock(t)
  <2>1. CallMap' = [CallMap EXCEPT ![t] = "none"] /\ CallMap[t] = "left"
    BY <1>6, CallProceeds DEF r_unlock, CallMap, CallOf
  <2>2. Abstract!ReturnRelease(t)
    BY <1>6, <2>1 DEF r_unlock, Abstract!ReturnRelease, Abstract!Proceed, CallMap
  <2> QED
    BY <2>2 DEF Abstract!Next
<1>7. CASE r_lock(t)
  BY <1>7, CallStands DEF r_lock, CallOf, AbstractVars
<1> QED
  BY <1>3, <1>4, <1>5, <1>6, <1>7 DEF release

\* Every step of the mutex is one of the abstract mutex, or none.
LEMMA StepRefines == IInv /\ [Next]_vars => [Abstract!Next]_(Abstract!vars)
<1> SUFFICES ASSUME IInv, [Next]_vars
             PROVE  Abstract!Next \/ UNCHANGED AbstractVars
  BY DEF Abstract!vars, AbstractVars, CallMap
<1>1. ASSUME NEW t \in Workers, Caller(t) \/ wait(t) \/ release(t)
      PROVE  Abstract!Next \/ UNCHANGED AbstractVars
  BY <1>1, WorkersAreThreads, CallerRefines, WaitRefines, ReleaseRefines
<1>2. ASSUME UNCHANGED mutexVars PROVE UNCHANGED AbstractVars
  BY <1>2 DEF mutexVars, AbstractVars, CallMap
<1>3. CASE Tick \/ UNCHANGED vars
  BY <1>2, <1>3 DEF Tick, vars
<1> QED
  BY <1>1, <1>2, <1>3 DEF Next, Step

\* wait and release are those of a reentrant mutex that takes effect at once, for
\* every number of threads and calls, overruns and misuse included.
THEOREM MutexImplementsAbstract == Spec => ImplementsAbstractMutex
<1>1. Init => Abstract!Init
  BY DEF Init, Abstract!Init, CallOf
<1> QED
  BY Invariance, StepRefines, <1>1, PTL DEF Spec, ImplementsAbstractMutex, Abstract!Spec

=============================================================================
