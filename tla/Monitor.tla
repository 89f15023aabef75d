------------------------------ MODULE Monitor ------------------------------
(***************************************************************************)
(* monitor.c: a reentrant lock with wait, notify and notifyAll, made of a  *)
(* spin lock, the owner's thread id, a counter of entries, two flags that  *)
(* say what the last pulse was, and two queues of sleeping threads: those  *)
(* who want to enter (threadsQueueRelease) and those who wait for a pulse  *)
(* (threadsQueuePulse). Each queue is an instance of SleepQueue.           *)
(*                                                                         *)
(* The main thread idles. Every other thread calls the five methods as it  *)
(* likes, also those it has no right to: the code does not ask a notifier  *)
(* to own the monitor, and lets a stranger's wait and release return.      *)
(***************************************************************************)
EXTENDS Threads

CONSTANTS
  CountRange,   \* the number of values of a queue's count
  MaxCalls      \* how many calls a thread makes; leaving again is free

ASSUME CountRangeAssumption == CountRange \in Nat /\ CountRange > NumThreads
ASSUME MaxCallsAssumption == MaxCalls \in Nat

NoOwner == -1

VARIABLES
  lock,            \* mon->lock: 0 or 1
  ownerThreadId,   \* mon->ownerThreadId
  enterCounter,    \* mon->enterCounter
  isMultiPulse,    \* mon->isMultiPulse
  isPulseHandled,  \* mon->isPulseHandled
  mpc,             \* where t is in this module
  rhead, rtail, rcount, rlock, rnext, rpc, rtarget,   \* mon->threadsQueueRelease
  phead, ptail, pcount, plock, pnext, ppc, ptarget,   \* mon->threadsQueuePulse
  overran, smashed,   \* ghosts of both queues
  calls,           \* calls t may still make
  depth,           \* ghost: t's calls of capture, less its calls of release since
  overLeft,        \* ghost: a wait has gone round its loop while it still owned
  pulses           \* ghost: the pulses of notify, less the waits that took one

releaseVars == <<rhead, rtail, rcount, rlock, rnext, rpc, rtarget>>
pulseVars   == <<phead, ptail, pcount, plock, pnext, ppc, ptarget>>
ownVars     == <<ownerThreadId, enterCounter>>
flagVars    == <<isMultiPulse, isPulseHandled>>
ghostVars   == <<depth, overLeft, pulses>>
vars == <<threadVars, releaseVars, pulseVars, overran, smashed, lock, ownVars, flagVars,
          mpc, calls, ghostVars>>

ReleaseQueue == INSTANCE SleepQueue
  WITH WakeAll <- FALSE, head <- rhead, tail <- rtail, count <- rcount, qlock <- rlock,
       next <- rnext, qpc <- rpc, target <- rtarget

PulseQueue == INSTANCE SleepQueue
  WITH WakeAll <- FALSE, head <- phead, tail <- ptail, count <- pcount, qlock <- plock,
       next <- pnext, qpc <- ppc, target <- ptarget

Workers == Threads \ {MainThread}

MonitorLabels == {"run", "unlock", "c_lock", "c_test", "c_loop", "c_relock", "c_own",
                  "r_lock", "r_test", "n_lock", "n_pulse", "a_lock", "a_pulse",
                  "w_lock", "w_test", "w_leave", "w_sleep", "w_relock", "w_check", "w_mark"}

Init ==
  /\ currThreadIndex = MainThread
  /\ isUnderSheduling = [t \in Threads |-> TRUE]
  /\ state = [t \in Threads |-> "RUNNING"]
  /\ ReleaseQueue!QueueInit /\ PulseQueue!QueueInit
  /\ lock = 0 /\ ownerThreadId = NoOwner /\ enterCounter = 0
  /\ isMultiPulse = FALSE /\ isPulseHandled = FALSE
  /\ mpc = [t \in Threads |-> "run"]
  /\ calls = [t \in Threads |-> MaxCalls]
  /\ depth = [t \in Threads |-> 0] /\ overLeft = FALSE /\ pulses = 0

Goto(t, label) == mpc' = [mpc EXCEPT ![t] = label]

\* t is on the processor, in this module and not in a routine of a queue.
At(t, label) ==
  /\ Runs(t) /\ ~smashed /\ rpc[t] = "idle" /\ ppc[t] = "idle"
  /\ mpc[t] = label

\* t captures mon->lock at one label and goes on at the other.
Capture(t, from, to) ==
  /\ At(t, from) /\ lock = 0
  /\ lock' = 1
  /\ Goto(t, to)
  /\ UNCHANGED <<threadVars, releaseVars, pulseVars, overran, smashed, ownVars, flagVars,
                 calls, ghostVars>>

\* t enters a routine of one of the queues.
EnterRelease(t, label) ==
  /\ rpc' = [rpc EXCEPT ![t] = label]
  /\ UNCHANGED <<rhead, rtail, rcount, rlock, rnext, rtarget, pulseVars, overran, smashed>>

EnterPulse(t, label) ==
  /\ ppc' = [ppc EXCEPT ![t] = label]
  /\ UNCHANGED <<phead, ptail, pcount, plock, pnext, ptarget, releaseVars, overran, smashed>>

-----------------------------------------------------------------------------
(* The callers.                                                            *)

\* t makes one of its calls, of the method that begins at label.
Call(t, label) ==
  /\ At(t, "run") /\ calls[t] > 0
  /\ calls' = [calls EXCEPT ![t] = @ - 1]
  /\ Goto(t, label)
  /\ UNCHANGED <<threadVars, releaseVars, pulseVars, overran, smashed, lock, ownVars,
                 flagVars, overLeft, pulses>>

call_capture(t) == Call(t, "c_lock") /\ depth' = [depth EXCEPT ![t] = @ + 1]
call_wait(t) == Call(t, "w_lock") /\ UNCHANGED depth
call_notify(t) == Call(t, "n_lock") /\ UNCHANGED depth
call_notifyAll(t) == Call(t, "a_lock") /\ UNCHANGED depth
misuse_release(t) == Call(t, "r_lock") /\ depth[t] = 0 /\ UNCHANGED depth

call_release(t) ==
  /\ At(t, "run") /\ depth[t] > 0
  /\ depth' = [depth EXCEPT ![t] = @ - 1]
  /\ Goto(t, "r_lock")
  /\ UNCHANGED <<threadVars, releaseVars, pulseVars, overran, smashed, lock, ownVars,
                 flagVars, calls, overLeft, pulses>>

-----------------------------------------------------------------------------
(* capture, and captureImpl, in which wait ends as well.                   *)

c_lock(t) == Capture(t, "c_lock", "c_test")

c_count(t) ==
  /\ At(t, "c_test") /\ ownerThreadId = t
  /\ enterCounter' = enterCounter + 1
  /\ Goto(t, "unlock")
  /\ UNCHANGED <<threadVars, releaseVars, pulseVars, overran, smashed, lock, ownerThreadId,
                 flagVars, calls, ghostVars>>

c_other(t) ==
  /\ At(t, "c_test") /\ ownerThreadId # t
  /\ Goto(t, "c_loop")
  /\ UNCHANGED <<threadVars, releaseVars, pulseVars, overran, smashed, lock, ownVars,
                 flagVars, calls, ghostVars>>

\* Mutant: the spin lock is kept while the thread sleeps.
c_block_Locked(t) ==
  /\ At(t, "c_loop") /\ ownerThreadId # NoOwner
  /\ EnterRelease(t, "qLock")
  /\ Goto(t, "c_loop")
  /\ UNCHANGED <<threadVars, lock, ownVars, flagVars, calls, ghostVars>>

\* while (ownerThreadId != -1): unlock, sleep in the queue, lock again.
c_block(t) ==
  /\ At(t, "c_loop") /\ ownerThreadId # NoOwner
  /\ lock' = 0
  /\ EnterRelease(t, "qLock")
  /\ Goto(t, "c_relock")
  /\ UNCHANGED <<threadVars, ownVars, flagVars, calls, ghostVars>>

c_relock(t) == Capture(t, "c_relock", "c_loop")

c_free(t) ==
  /\ At(t, "c_loop") /\ ownerThreadId = NoOwner
  /\ Goto(t, "c_own")
  /\ UNCHANGED <<threadVars, releaseVars, pulseVars, overran, smashed, lock, ownVars,
                 flagVars, calls, ghostVars>>

\* A step of its own: that the monitor is still free is the spin lock's doing.
c_own(t) ==
  /\ At(t, "c_own")
  /\ ownerThreadId' = t
  /\ enterCounter' = enterCounter + 1
  /\ Goto(t, "unlock")
  /\ UNCHANGED <<threadVars, releaseVars, pulseVars, overran, smashed, lock, flagVars,
                 calls, ghostVars>>

\* Every method ends with slockRelease.
unlock(t) ==
  /\ At(t, "unlock")
  /\ lock' = 0
  /\ Goto(t, "run")
  /\ UNCHANGED <<threadVars, releaseVars, pulseVars, overran, smashed, ownVars, flagVars,
                 calls, ghostVars>>

-----------------------------------------------------------------------------
(* releaseImpl: at label from, by release and, in its loop, by wait.       *)

\* The owner leaves for good: the monitor is free and one thread is woken, all
\* with the spin lock held. The thread goes on at label to.
LeaveLast(t, from, to) ==
  /\ At(t, from) /\ ownerThreadId = t /\ enterCounter - 1 = 0
  /\ enterCounter' = enterCounter - 1
  /\ ownerThreadId' = NoOwner
  /\ EnterRelease(t, "wLock")
  /\ Goto(t, to)
  /\ UNCHANGED <<threadVars, lock, flagVars, calls, ghostVars>>

\* Mutant: a release counts whoever calls it.
LeaveNested_Stranger(t, from, to) ==
  /\ At(t, from) /\ enterCounter - 1 # 0
  /\ enterCounter' = enterCounter - 1
  /\ Goto(t, to)
  /\ UNCHANGED <<threadVars, releaseVars, pulseVars, overran, smashed, lock, ownerThreadId,
                 flagVars, calls, ghostVars>>

LeaveNested(t, from, to) ==
  /\ At(t, from) /\ ownerThreadId = t /\ enterCounter - 1 # 0
  /\ enterCounter' = enterCounter - 1
  /\ Goto(t, to)
  /\ UNCHANGED <<threadVars, releaseVars, pulseVars, overran, smashed, lock, ownerThreadId,
                 flagVars, calls, ghostVars>>

LeaveStranger(t, from, to) ==
  /\ At(t, from) /\ ownerThreadId # t
  /\ Goto(t, to)
  /\ UNCHANGED <<threadVars, releaseVars, pulseVars, overran, smashed, lock, ownVars,
                 flagVars, calls, ghostVars>>

\* Mutant: whoever calls, the monitor is free afterwards.
releaseImpl_Anyone(t, from, to) ==
  /\ At(t, from)
  /\ enterCounter' = 0
  /\ ownerThreadId' = NoOwner
  /\ EnterRelease(t, "wLock")
  /\ Goto(t, to)
  /\ UNCHANGED <<threadVars, lock, flagVars, calls, ghostVars>>

releaseImpl(t, from, to) ==
  LeaveLast(t, from, to) \/ LeaveNested(t, from, to) \/ LeaveStranger(t, from, to)

r_lock(t) == Capture(t, "r_lock", "r_test")
r_leave(t) == releaseImpl(t, "r_test", "unlock")

-----------------------------------------------------------------------------
(* wait.                                                                   *)

w_lock(t) == Capture(t, "w_lock", "w_test")

\* Only the owner waits; for another thread the call is over.
w_test(t) ==
  /\ At(t, "w_test")
  /\ Goto(t, IF ownerThreadId = t THEN "w_leave" ELSE "unlock")
  /\ UNCHANGED <<threadVars, releaseVars, pulseVars, overran, smashed, lock, ownVars,
                 flagVars, calls, ghostVars>>

w_leave(t) == releaseImpl(t, "w_leave", "w_sleep")

w_sleep(t) ==
  /\ At(t, "w_sleep")
  /\ lock' = 0
  /\ EnterPulse(t, "qLock")
  /\ Goto(t, "w_relock")
  /\ UNCHANGED <<threadVars, ownVars, flagVars, calls, ghostVars>>

w_relock(t) == Capture(t, "w_relock", "w_check")

\* The condition of the loop: a pulse of notifyAll, or one that another thread has
\* taken, sends a waiter round once more, releaseImpl included.
SleepsOn == isMultiPulse \/ (isPulseHandled /\ ~isMultiPulse)

w_again(t) ==
  /\ At(t, "w_check") /\ SleepsOn
  /\ Goto(t, "w_leave")
  /\ overLeft' = (overLeft \/ ownerThreadId = t)
  /\ UNCHANGED <<threadVars, releaseVars, pulseVars, overran, smashed, lock, ownVars,
                 flagVars, calls, depth, pulses>>

w_take(t) ==
  /\ At(t, "w_check") /\ ~SleepsOn
  /\ Goto(t, "w_mark")
  /\ UNCHANGED <<threadVars, releaseVars, pulseVars, overran, smashed, lock, ownVars,
                 flagVars, calls, ghostVars>>

\* Mutant: the pulse is not marked as taken.
w_mark_Not(t) ==
  /\ At(t, "w_mark")
  /\ pulses' = pulses - 1
  /\ Goto(t, "c_test")
  /\ UNCHANGED <<threadVars, releaseVars, pulseVars, overran, smashed, lock, ownVars,
                 flagVars, calls, depth, overLeft>>

\* The pulse is taken; the thread enters again, by captureImpl.
w_mark(t) ==
  /\ At(t, "w_mark")
  /\ isPulseHandled' = TRUE
  /\ pulses' = pulses - 1
  /\ Goto(t, "c_test")
  /\ UNCHANGED <<threadVars, releaseVars, pulseVars, overran, smashed, lock, ownVars,
                 isMultiPulse, calls, depth, overLeft>>

-----------------------------------------------------------------------------
(* notify and notifyAll; each wakes one thread of threadsQueuePulse.       *)

n_lock(t) == Capture(t, "n_lock", "n_pulse")

n_pulse(t) ==
  /\ At(t, "n_pulse")
  /\ isMultiPulse' = FALSE /\ isPulseHandled' = FALSE
  /\ pulses' = pulses + 1
  /\ EnterPulse(t, "wLock")
  /\ Goto(t, "unlock")
  /\ UNCHANGED <<threadVars, lock, ownVars, calls, depth, overLeft>>

a_lock(t) == Capture(t, "a_lock", "a_pulse")

a_pulse(t) ==
  /\ At(t, "a_pulse")
  /\ isMultiPulse' = TRUE /\ isPulseHandled' = FALSE
  /\ EnterPulse(t, "wLock")
  /\ Goto(t, "unlock")
  /\ UNCHANGED <<threadVars, lock, ownVars, calls, ghostVars>>

-----------------------------------------------------------------------------
Caller(t) ==
  \/ call_capture(t) \/ call_release(t) \/ misuse_release(t) \/ call_wait(t)
  \/ call_notify(t) \/ call_notifyAll(t)

capture(t) ==
  \/ c_lock(t) \/ c_count(t) \/ c_other(t) \/ c_block(t) \/ c_relock(t)
  \/ c_free(t) \/ c_own(t) \/ unlock(t)

release(t) == r_lock(t) \/ r_leave(t)

wait(t) ==
  \/ w_lock(t) \/ w_test(t) \/ w_leave(t) \/ w_sleep(t) \/ w_relock(t)
  \/ w_again(t) \/ w_take(t) \/ w_mark(t)

notify(t) == n_lock(t) \/ n_pulse(t)

notifyAll(t) == a_lock(t) \/ a_pulse(t)

InQueues(t) ==
  /\ \/ ReleaseQueue!QueueStep(t) /\ UNCHANGED pulseVars
     \/ PulseQueue!QueueStep(t) /\ UNCHANGED releaseVars
  /\ UNCHANGED <<lock, ownVars, flagVars, mpc, calls, ghostVars>>

Step(t) ==
  \/ Caller(t) \/ capture(t) \/ release(t) \/ wait(t) \/ notify(t) \/ notifyAll(t)
  \/ InQueues(t)

Tick ==
  /\ change_thread(NumThreads)
  /\ UNCHANGED <<isUnderSheduling, state, releaseVars, pulseVars, overran, smashed, lock,
                 ownVars, flagVars, mpc, calls, ghostVars>>

Next == Tick \/ \E t \in Workers : Step(t)

Spec == Init /\ [][Next]_vars

-----------------------------------------------------------------------------
(* Properties.                                                             *)

\* Every variable keeps to its type.
TypeOK ==
  /\ ThreadsTypeOK
  /\ ReleaseQueue!QueueTypeOK /\ PulseQueue!QueueTypeOK
  /\ lock \in {0, 1}
  /\ ownerThreadId \in Threads \cup {NoOwner} /\ enterCounter \in Nat
  /\ isMultiPulse \in BOOLEAN /\ isPulseHandled \in BOOLEAN
  /\ mpc \in [Threads -> MonitorLabels]
  /\ calls \in [Threads -> Nat] /\ depth \in [Threads -> Nat]
  /\ overLeft \in BOOLEAN /\ pulses \in Int

\* Between calls, a thread owns the monitor exactly when it has captured it more
\* often than released, whatever it has waited for and whoever else has called
\* release or wait without owning; so no two threads own it. Who sleeps in wait has
\* let go of it, unless it was inside twice. It holds until a wait of such a thread
\* goes round its loop: every turn releases once more, and captureImpl takes the
\* monitor back once.
OwnerMatchesDepth ==
  ~overLeft =>
     \A t \in Workers :
        /\ mpc[t] = "run" =>
             /\ ownerThreadId = t <=> depth[t] > 0
             /\ ownerThreadId = t => enterCounter = depth[t]
        /\ mpc[t] = "w_relock" => (ownerThreadId = t <=> depth[t] > 1)

\* Waits do not return more often than notify was called: a pulse is taken once,
\* although every thread that is awake in wait's loop looks for it, and notifyAll,
\* which wakes a waiter, lets nobody out. A thread that outruns its pause finds
\* the flags of a new monitor, and leaves once without a pulse.
OneExitPerNotify == pulses >= IF overran THEN -1 ELSE 0

\* Up to the first overrun both queues are lists of waiting threads whenever their own
\* lock is free, although one method wakes the one queue before it sleeps in the other
\* and both queues' wakers and waiters store to the same slots.
QueuesInOrder == ReleaseQueue!QueueWellFormed /\ PulseQueue!QueueWellFormed

HoldsLock(t) ==
  mpc[t] \in {"unlock", "c_test", "c_loop", "c_own", "r_test", "n_pulse", "a_pulse",
              "w_test", "w_leave", "w_sleep", "w_check", "w_mark"}

HoldsQLock(qp, t) ==
  qp[t] \in {"qLink", "qTail", "qUnlock"} \cup (ReleaseQueue!WakeLabels \ {"wLock"})

\* Whoever holds one of the three spin locks can be selected by the scheduler, also
\* when it spins on a queue's lock with the monitor's own in hand, so nobody spins
\* for ever; as long as no thread outruns its pause.
LockHolderSchedulable ==
  ~overran => \A t \in Threads :
     HoldsLock(t) \/ HoldsQLock(rpc, t) \/ HoldsQLock(ppc, t) => isUnderSheduling[t]
=============================================================================
