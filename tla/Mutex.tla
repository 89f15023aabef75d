------------------------------- MODULE Mutex -------------------------------
(***************************************************************************)
(* mutex.c: a reentrant mutex made of a spin lock, the owner's thread id,  *)
(* a counter of entries and a queue of sleeping threads.                   *)
(*                                                                         *)
(* The main thread idles, as kernel_main does. Every other thread calls    *)
(* wait and release as it likes (a release without being the owner         *)
(* included, if Misuse), and exits once it is outside the mutex.           *)
(***************************************************************************)
EXTENDS SleepQueue

CONSTANTS
  MaxCalls,   \* how many times a thread calls wait, or misuses release
  Misuse      \* whether a thread that is not the owner calls release

ASSUME MaxCallsAssumption == MaxCalls \in Nat
ASSUME MisuseAssumption == Misuse \in BOOLEAN

NoOwner == -1

VARIABLES
  lock,           \* mut->lock: 0 or 1
  ownerThreadId,  \* mut->ownerThreadId
  enterCounter,   \* mut->enterCounter
  mpc,            \* where t is in this module
  calls,          \* calls t may still make
  depth           \* ghost: waits of t that returned, less its releases since

mutexVars == <<lock, ownerThreadId, enterCounter, mpc, calls, depth>>
vars == <<threadVars, queueVars, mutexVars>>

Workers == Threads \ {MainThread}

\* r_unlock serves the release whose wake_queued_thread has returned as well.
MutexLabels == {"run", "w_lock", "w_test", "w_loop", "w_relock", "w_own", "w_unlock",
                "r_lock", "r_test", "r_unlock", "th_stop", "stopped"}

Init ==
  /\ currThreadIndex = MainThread
  /\ isUnderSheduling = [t \in Threads |-> TRUE]
  /\ state = [t \in Threads |-> "RUNNING"]
  /\ QueueInit
  /\ lock = 0 /\ ownerThreadId = NoOwner /\ enterCounter = 0
  /\ mpc = [t \in Threads |-> "run"]
  /\ calls = [t \in Threads |-> MaxCalls]
  /\ depth = [t \in Threads |-> 0]

Goto(t, label) == mpc' = [mpc EXCEPT ![t] = label]

\* t is on the processor, in this module and not in a routine of the queue.
At(t, label) == QAt(t, "idle") /\ mpc[t] = label

-----------------------------------------------------------------------------
(* The callers.                                                            *)

call_wait(t) ==
  /\ At(t, "run") /\ calls[t] > 0
  /\ calls' = [calls EXCEPT ![t] = @ - 1]
  /\ Goto(t, "w_lock")
  /\ UNCHANGED <<threadVars, queueVars, lock, ownerThreadId, enterCounter, depth>>

call_release(t) ==
  /\ At(t, "run") /\ depth[t] > 0
  /\ depth' = [depth EXCEPT ![t] = @ - 1]
  /\ Goto(t, "r_lock")
  /\ UNCHANGED <<threadVars, queueVars, lock, ownerThreadId, enterCounter, calls>>

misuse_release(t) ==
  /\ Misuse
  /\ At(t, "run") /\ depth[t] = 0 /\ calls[t] > 0
  /\ calls' = [calls EXCEPT ![t] = @ - 1]
  /\ Goto(t, "r_lock")
  /\ UNCHANGED <<threadVars, queueVars, lock, ownerThreadId, enterCounter, depth>>

\* th_main_func after startFunc has returned.
th_leave(t) ==
  /\ At(t, "run") /\ depth[t] = 0
  /\ isUnderSheduling' = [isUnderSheduling EXCEPT ![t] = FALSE]
  /\ Goto(t, "th_stop")
  /\ UNCHANGED <<currThreadIndex, state, queueVars, lock, ownerThreadId,
                 enterCounter, calls, depth>>

th_stop(t) ==
  /\ At(t, "th_stop")
  /\ state' = [state EXCEPT ![t] = "STOPPED"]
  /\ Goto(t, "stopped")
  /\ UNCHANGED <<currThreadIndex, isUnderSheduling, queueVars, lock, ownerThreadId,
                 enterCounter, calls, depth>>

-----------------------------------------------------------------------------
(* wait.                                                                   *)

\* Mutant: the spin lock is taken without looking whether it is free.
w_lock_Blind(t) ==
  /\ At(t, "w_lock")
  /\ lock' = 1
  /\ Goto(t, "w_test")
  /\ UNCHANGED <<threadVars, queueVars, ownerThreadId, enterCounter, calls, depth>>

w_lock(t) ==
  /\ At(t, "w_lock") /\ lock = 0
  /\ lock' = 1
  /\ Goto(t, "w_test")
  /\ UNCHANGED <<threadVars, queueVars, ownerThreadId, enterCounter, calls, depth>>

\* The owner only counts its entry.
w_test(t) ==
  /\ At(t, "w_test")
  /\ IF ownerThreadId = t
     THEN enterCounter' = enterCounter + 1 /\ Goto(t, "w_unlock")
     ELSE Goto(t, "w_loop") /\ UNCHANGED enterCounter
  /\ UNCHANGED <<threadVars, queueVars, lock, ownerThreadId, calls, depth>>

\* Mutant: the spin lock is kept while the thread sleeps.
w_block_Locked(t) ==
  /\ At(t, "w_loop") /\ ownerThreadId # NoOwner
  /\ QGoto(t, "qLock")
  /\ Goto(t, "w_loop")
  /\ UNCHANGED <<threadVars, head, tail, count, qlock, next, target, overran, smashed,
                 lock, ownerThreadId, enterCounter, calls, depth>>

\* while (ownerThreadId != -1): unlock, sleep in the queue, lock again.
w_block(t) ==
  /\ At(t, "w_loop") /\ ownerThreadId # NoOwner
  /\ lock' = 0
  /\ QGoto(t, "qLock")
  /\ Goto(t, "w_relock")
  /\ UNCHANGED <<threadVars, head, tail, count, qlock, next, target, overran, smashed,
                 ownerThreadId, enterCounter, calls, depth>>

\* Mutant: if, not while: a thread that has slept does not look at the owner again.
w_relock_NoRetest(t) ==
  /\ At(t, "w_relock") /\ lock = 0
  /\ lock' = 1
  /\ ownerThreadId' = t /\ enterCounter' = enterCounter + 1
  /\ Goto(t, "w_unlock")
  /\ UNCHANGED <<threadVars, queueVars, calls, depth>>

w_relock(t) ==
  /\ At(t, "w_relock") /\ lock = 0
  /\ lock' = 1
  /\ Goto(t, "w_loop")
  /\ UNCHANGED <<threadVars, queueVars, ownerThreadId, enterCounter, calls, depth>>

w_free(t) ==
  /\ At(t, "w_loop") /\ ownerThreadId = NoOwner
  /\ Goto(t, "w_own")
  /\ UNCHANGED <<threadVars, queueVars, lock, ownerThreadId, enterCounter, calls, depth>>

\* The mutex is taken in a step of its own: that it is still free then is the
\* spin lock's doing.
w_own(t) ==
  /\ At(t, "w_own")
  /\ ownerThreadId' = t
  /\ enterCounter' = enterCounter + 1
  /\ Goto(t, "w_unlock")
  /\ UNCHANGED <<threadVars, queueVars, lock, calls, depth>>

w_unlock(t) ==
  /\ At(t, "w_unlock")
  /\ lock' = 0
  /\ depth' = [depth EXCEPT ![t] = @ + 1]
  /\ Goto(t, "run")
  /\ UNCHANGED <<threadVars, queueVars, ownerThreadId, enterCounter, calls>>

-----------------------------------------------------------------------------
(* release.                                                                *)

r_lock(t) ==
  /\ At(t, "r_lock") /\ lock = 0
  /\ lock' = 1
  /\ Goto(t, "r_test")
  /\ UNCHANGED <<threadVars, queueVars, ownerThreadId, enterCounter, calls, depth>>

\* Mutant: the owner gives the mutex up at its first release.
r_last_Any(t) ==
  /\ At(t, "r_test") /\ ownerThreadId = t
  /\ enterCounter' = enterCounter - 1
  /\ ownerThreadId' = NoOwner
  /\ QGoto(t, "wLock")
  /\ Goto(t, "r_unlock")
  /\ UNCHANGED <<threadVars, head, tail, count, qlock, next, target, overran, smashed,
                 lock, calls, depth>>

\* The owner's last release frees the mutex and wakes one sleeper, all of it
\* with the spin lock held.
r_last(t) ==
  /\ At(t, "r_test") /\ ownerThreadId = t /\ enterCounter - 1 = 0
  /\ enterCounter' = enterCounter - 1
  /\ ownerThreadId' = NoOwner
  /\ QGoto(t, "wLock")
  /\ Goto(t, "r_unlock")
  /\ UNCHANGED <<threadVars, head, tail, count, qlock, next, target, overran, smashed,
                 lock, calls, depth>>

\* Mutant: a release counts whoever calls it.
r_nested_Stranger(t) ==
  /\ At(t, "r_test") /\ enterCounter - 1 # 0
  /\ enterCounter' = enterCounter - 1
  /\ Goto(t, "r_unlock")
  /\ UNCHANGED <<threadVars, queueVars, lock, ownerThreadId, calls, depth>>

r_nested(t) ==
  /\ At(t, "r_test") /\ ownerThreadId = t /\ enterCounter - 1 # 0
  /\ enterCounter' = enterCounter - 1
  /\ Goto(t, "r_unlock")
  /\ UNCHANGED <<threadVars, queueVars, lock, ownerThreadId, calls, depth>>

r_stranger(t) ==
  /\ At(t, "r_test") /\ ownerThreadId # t
  /\ Goto(t, "r_unlock")
  /\ UNCHANGED <<threadVars, queueVars, lock, ownerThreadId, enterCounter, calls, depth>>

r_unlock(t) ==
  /\ At(t, "r_unlock")
  /\ lock' = 0
  /\ Goto(t, "run")
  /\ UNCHANGED <<threadVars, queueVars, ownerThreadId, enterCounter, calls, depth>>

-----------------------------------------------------------------------------
Caller(t) == call_wait(t) \/ call_release(t) \/ misuse_release(t) \/ th_leave(t) \/ th_stop(t)

wait(t) ==
  \/ w_lock(t) \/ w_test(t) \/ w_block(t) \/ w_relock(t)
  \/ w_free(t) \/ w_own(t) \/ w_unlock(t)

release(t) == r_lock(t) \/ r_last(t) \/ r_nested(t) \/ r_stranger(t) \/ r_unlock(t)

Step(t) ==
  \/ Caller(t) \/ wait(t) \/ release(t)
  \/ QueueStep(t) /\ UNCHANGED mutexVars

Tick ==
  /\ change_thread(NumThreads)
  /\ UNCHANGED <<isUnderSheduling, state, queueVars, mutexVars>>

Next == Tick \/ \E t \in Workers : Step(t)

Spec == Init /\ [][Next]_vars

\* The timer never stops, and a thread that has the processor again and again
\* with its next step possible takes it: nothing else runs while it has the
\* processor, so a spin lock it finds free stays free until it has captured it.
FairSpec == Spec /\ WF_vars(Tick) /\ \A t \in Workers : SF_vars(Step(t))

-----------------------------------------------------------------------------
(* Properties.                                                             *)

\* Every variable keeps to its type.
TypeOK ==
  /\ ThreadsTypeOK
  /\ QueueTypeOK
  /\ lock \in {0, 1}
  /\ ownerThreadId \in Threads \cup {NoOwner}
  /\ enterCounter \in Nat
  /\ mpc \in [Threads -> MutexLabels]
  /\ calls \in [Threads -> Nat]
  /\ depth \in [Threads -> Nat]

\* Only one thread at a time is between a wait that returned and its release,
\* also when threads outrun their pause and the queue is in disorder, and
\* whatever a thread that is not the owner releases.
MutualExclusion ==
  \A t, u \in Threads : depth[t] > 0 /\ depth[u] > 0 => t = u

\* Between calls, a thread owns the mutex exactly when it has entered it more
\* often than left, and enterCounter says how often: a release frees it at the
\* outermost level, no sooner and no later.
OwnerMatchesDepth ==
  \A t \in Workers :
     mpc[t] = "run" =>
        /\ ownerThreadId = t <=> depth[t] > 0
        /\ ownerThreadId = t => enterCounter = depth[t]

HoldsLock(t)  == mpc[t] \in {"w_test", "w_loop", "w_own", "w_unlock", "r_test", "r_unlock"}
HoldsQLock(t) == qpc[t] \in {"qLink", "qTail", "qUnlock"} \cup (WakeLabels \ {"wLock"})

\* Whoever holds one of the two spin locks can be selected by the scheduler, so
\* a thread spinning on the lock is not spinning for ever.
LockHolderSchedulable ==
  ~overran => \A t \in Threads : HoldsLock(t) \/ HoldsQLock(t) => isUnderSheduling[t]

\* What a thread at a label has called, and whether it has taken effect.
CallOf(label) ==
  IF label \in {"w_lock", "w_test", "w_loop", "w_relock", "w_own"} THEN "wait"
  ELSE IF label = "w_unlock" THEN "entered"
  ELSE IF label \in {"r_lock", "r_test"} THEN "release"
  ELSE IF label = "r_unlock" THEN "left" ELSE "none"

\* wait and release take effect at once, each between its call and its return: at the
\* stores of ownerThreadId and enterCounter, whoever else is in the middle of them,
\* asleep in the queue or returned from it too early, and whoever misuses release.
\* In particular, a mutex taken was free, or its owner's; a wait that returns leaves
\* its caller the owner, one level deeper than it has seen; and a caller's last
\* release, and nothing else, frees it.
Abstract ==
  INSTANCE AbstractMutex WITH
    Thread <- Threads, NoOne <- NoOwner, owner <- ownerThreadId, level <- enterCounter,
    inside <- depth, call <- [t \in Threads |-> CallOf(mpc[t])]

ImplementsAbstractMutex == Abstract!Spec

Spins(t) ==
  \/ qpc[t] \in {"qLock", "wLock"}
  \/ qpc[t] = "idle" /\ mpc[t] \in {"w_lock", "w_relock", "r_lock"}

\* If no thread outruns its pause, every attempt to capture a spin lock succeeds.
SpinningEnds ==
  [](~overran) => \A t \in Workers : Spins(t) ~> ~Spins(t)

\* mutexExample.c, line 33, of the call of wait: "Wait until it is safe to
\* enter." So a thread that calls wait has entered at some later time, since the
\* others leave again; even if no thread outruns its pause.
WaitUntilItIsSafeToEnter ==
  [](~overran) => \A t \in Workers : (mpc[t] = "w_lock") ~> (mpc[t] = "run")
=============================================================================
