----------------------------- MODULE Semaphore -----------------------------
(***************************************************************************)
(* semaphore.c: a counter under a spin lock, and a queue of sleeping       *)
(* threads. The counter starts at max; the routine release counts it down  *)
(* and the routine wait counts it up again, or sleeps when it is at max.   *)
(* The method table names the two the other way round, so a thread that    *)
(* calls sem._->wait runs release: to its callers the object is a          *)
(* semaphore of max - min + 1 permits. When the routine release refuses,   *)
(* it returns with the spin lock taken.                                    *)
(*                                                                         *)
(* The main thread idles. Every other thread calls the two methods as it   *)
(* likes. The queue is instantiated with WakeAll = FALSE.                  *)
(***************************************************************************)
EXTENDS SleepQueue, Functions

CONSTANTS
  MaxCount, MinCount,   \* newSemaphore's arguments max and min
  MaxCalls              \* how many calls a thread makes

ASSUME LimitsAssumption == MaxCount \in Int /\ MinCount \in Int /\ MinCount <= MaxCount
ASSUME MaxCallsAssumption == MaxCalls \in Nat
ASSUME SemaphoreWakesOne == ~WakeAll

VARIABLES
  spinlock,   \* sem->spinlock: 0 or 1
  counter,    \* sem->counter
  spc,        \* where t is in this module
  calls,      \* calls t may still make
  held,       \* ghost: t's calls of the method wait that returned, less those of
              \*        release since; not below 0
  paired      \* ghost: nobody has called the method release without holding

semaphoreVars == <<spinlock, counter, spc, calls, held, paired>>
vars == <<threadVars, queueVars, semaphoreVars>>

Workers == Threads \ {MainThread}

SemaphoreLabels == {"run", "w_lock", "w_test", "w_count", "w_unlock", "w_spin",
                    "r_lock", "r_test", "r_count", "r_unlock", "r_wake"}

Init ==
  /\ currThreadIndex = MainThread
  /\ isUnderSheduling = [t \in Threads |-> TRUE]
  /\ state = [t \in Threads |-> "RUNNING"]
  /\ QueueInit
  /\ spinlock = 0 /\ counter = MaxCount
  /\ spc = [t \in Threads |-> "run"]
  /\ calls = [t \in Threads |-> MaxCalls]
  /\ held = [t \in Threads |-> 0] /\ paired = TRUE

Goto(t, label) == spc' = [spc EXCEPT ![t] = label]

\* t is on the processor, in this module and not in a routine of the queue.
At(t, label) == QAt(t, "idle") /\ spc[t] = label

\* t enters a routine of the queue at its label.
Enter(t, label) ==
  /\ QGoto(t, label)
  /\ UNCHANGED <<head, tail, count, qlock, next, target, overran, smashed>>

-----------------------------------------------------------------------------
(* The callers, through the method table.                                  *)

\* The table's two fields, each with where the routine it points at begins.
semaphoreMethods == [wait |-> "r_lock", release |-> "w_lock"]

Call(t) ==
  /\ At(t, "run") /\ calls[t] > 0
  /\ calls' = [calls EXCEPT ![t] = @ - 1]

call_wait(t) ==
  /\ Call(t)
  /\ Goto(t, semaphoreMethods.wait)
  /\ UNCHANGED <<threadVars, queueVars, spinlock, counter, held, paired>>

call_release(t) ==
  /\ Call(t)
  /\ IF held[t] > 0
     THEN held' = [held EXCEPT ![t] = @ - 1] /\ UNCHANGED paired
     ELSE paired' = FALSE /\ UNCHANGED held
  /\ Goto(t, semaphoreMethods.release)
  /\ UNCHANGED <<threadVars, queueVars, spinlock, counter>>

-----------------------------------------------------------------------------
(* The routine wait.                                                       *)

\* Mutant: the lock is counted, not captured.
w_lock_Counts(t) ==
  /\ At(t, "w_lock")
  /\ spinlock' = spinlock + 1
  /\ Goto(t, "w_test")
  /\ UNCHANGED <<threadVars, queueVars, counter, calls, held, paired>>

w_lock(t) ==
  /\ At(t, "w_lock") /\ spinlock = 0
  /\ spinlock' = 1
  /\ Goto(t, "w_test")
  /\ UNCHANGED <<threadVars, queueVars, counter, calls, held, paired>>

w_test(t) ==
  /\ At(t, "w_test") /\ counter < MaxCount
  /\ Goto(t, "w_count")
  /\ UNCHANGED <<threadVars, queueVars, spinlock, counter, calls, held, paired>>

w_count(t) ==
  /\ At(t, "w_count")
  /\ counter' = counter + 1
  /\ Goto(t, "w_unlock")
  /\ UNCHANGED <<threadVars, queueVars, spinlock, calls, held, paired>>

w_unlock(t) ==
  /\ At(t, "w_unlock")
  /\ spinlock' = 0
  /\ Goto(t, "run")
  /\ UNCHANGED <<threadVars, queueVars, counter, calls, held, paired>>

\* Mutant: off by one, the last unit is not given back.
w_block_Early(t) ==
  /\ At(t, "w_test") /\ ~(counter < MaxCount - 1)
  /\ spinlock' = 0
  /\ Enter(t, "qLock")
  /\ Goto(t, "w_spin")
  /\ UNCHANGED <<threadVars, counter, calls, held, paired>>

\* Nothing to count up: unlock, then sleep in the queue.
w_block(t) ==
  /\ At(t, "w_test") /\ ~(counter < MaxCount)
  /\ spinlock' = 0
  /\ Enter(t, "qLock")
  /\ Goto(t, "w_spin")
  /\ UNCHANGED <<threadVars, counter, calls, held, paired>>

\* Back from the queue the thread looks, without the lock, until somebody has
\* counted down, and returns; it does not count itself up.
w_spin(t) ==
  /\ At(t, "w_spin") /\ counter # MaxCount
  /\ Goto(t, "run")
  /\ UNCHANGED <<threadVars, queueVars, spinlock, counter, calls, held, paired>>

-----------------------------------------------------------------------------
(* The routine release.                                                    *)

\* Mutant: the spin lock is taken without looking whether it is free.
r_lock_Blind(t) ==
  /\ At(t, "r_lock")
  /\ spinlock' = 1
  /\ Goto(t, "r_test")
  /\ UNCHANGED <<threadVars, queueVars, counter, calls, held, paired>>

r_lock(t) ==
  /\ At(t, "r_lock") /\ spinlock = 0
  /\ spinlock' = 1
  /\ Goto(t, "r_test")
  /\ UNCHANGED <<threadVars, queueVars, counter, calls, held, paired>>

\* Refused: the routine returns as it is, and its caller cannot tell.
r_refuse(t) ==
  /\ At(t, "r_test") /\ counter < MinCount
  /\ Goto(t, "run")
  /\ held' = [held EXCEPT ![t] = @ + 1]
  /\ UNCHANGED <<threadVars, queueVars, spinlock, counter, calls, paired>>

\* Mutant: off by one, one unit too many is counted down.
r_test_Late(t) ==
  /\ At(t, "r_test") /\ ~(counter + 1 < MinCount)
  /\ Goto(t, "r_count")
  /\ UNCHANGED <<threadVars, queueVars, spinlock, counter, calls, held, paired>>

r_test(t) ==
  /\ At(t, "r_test") /\ ~(counter < MinCount)
  /\ Goto(t, "r_count")
  /\ UNCHANGED <<threadVars, queueVars, spinlock, counter, calls, held, paired>>

r_count(t) ==
  /\ At(t, "r_count")
  /\ counter' = counter - 1
  /\ Goto(t, "r_unlock")
  /\ UNCHANGED <<threadVars, queueVars, spinlock, calls, held, paired>>

\* Mutant: the lock is kept until after the wake, and forgotten.
r_unlock_Never(t) ==
  /\ At(t, "r_unlock")
  /\ Enter(t, "wLock")
  /\ Goto(t, "r_wake")
  /\ UNCHANGED <<threadVars, spinlock, counter, calls, held, paired>>

\* Unlock, then wake one sleeper: the queue is woken without the spin lock.
r_unlock(t) ==
  /\ At(t, "r_unlock")
  /\ spinlock' = 0
  /\ Enter(t, "wLock")
  /\ Goto(t, "r_wake")
  /\ UNCHANGED <<threadVars, counter, calls, held, paired>>

r_return(t) ==
  /\ At(t, "r_wake")
  /\ Goto(t, "run")
  /\ held' = [held EXCEPT ![t] = @ + 1]
  /\ UNCHANGED <<threadVars, queueVars, spinlock, counter, calls, paired>>

-----------------------------------------------------------------------------
wait(t) ==
  \/ w_lock(t) \/ w_test(t) \/ w_count(t) \/ w_unlock(t) \/ w_block(t) \/ w_spin(t)

release(t) ==
  \/ r_lock(t) \/ r_refuse(t) \/ r_test(t) \/ r_count(t) \/ r_unlock(t) \/ r_return(t)

InQueue(t) == QueueStep(t) /\ UNCHANGED semaphoreVars

Step(t) == call_wait(t) \/ call_release(t) \/ wait(t) \/ release(t) \/ InQueue(t)

Tick ==
  /\ change_thread(NumThreads)
  /\ UNCHANGED <<isUnderSheduling, state, queueVars, semaphoreVars>>

Next == Tick \/ \E t \in Workers : Step(t)

Spec == Init /\ [][Next]_vars

\* The timer never stops, and a thread inside a call goes on when the processor
\* is its own again and again; nobody has to make a call.
FairSpec ==
  /\ Spec
  /\ WF_vars(Tick)
  /\ \A t \in Workers : SF_vars(wait(t) \/ release(t) \/ InQueue(t))

-----------------------------------------------------------------------------
(* Properties.                                                             *)

\* Every variable keeps to its type.
TypeOK ==
  /\ ThreadsTypeOK
  /\ QueueTypeOK
  /\ spinlock \in {0, 1}
  /\ counter \in Int
  /\ spc \in [Threads -> SemaphoreLabels]
  /\ calls \in [Threads -> Nat]
  /\ held \in [Threads -> Nat]
  /\ paired \in BOOLEAN

HoldsLock(t) == spc[t] \in {"w_test", "w_count", "w_unlock", "r_test", "r_count", "r_unlock"}

\* A refusal has left the spin lock taken with nobody inside.
Stuck == spinlock = 1 /\ \A t \in Threads : ~HoldsLock(t)

\* The counter goes one below min, no further, and never above max: what a
\* routine has tested under the lock still holds when it counts.
CounterInRange == counter \in MinCount - 1 .. MaxCount

\* The spin lock is left taken by a refusal and by nothing else; then the counter
\* is below min and stays there, since nobody can get the lock to count it up.
StuckByRefusal == Stuck => counter = MinCount - 1

\* Through the method table, callers who release what they have taken never hold
\* more than the max - min + 1 permits, until one is refused (and cannot tell).
PermitsRespected ==
  paired /\ ~Stuck => SumFunction(held) <= MaxCount - MinCount + 1

\* Such callers never sleep in release, where a sleeper's unit would be lost: who
\* holds a permit finds the counter below max.
PairedReleaseNeverSleeps == paired => \A t \in Threads : spc[t] # "w_spin"

Spins(t) ==
  \/ qpc[t] \in {"qLock", "wLock"}
  \/ qpc[t] = "idle" /\ spc[t] \in {"w_lock", "r_lock"}

\* Until somebody is refused, and if no thread outruns its pause, every attempt
\* to capture a spin lock succeeds.
SpinningEnds ==
  [](~overran /\ ~Stuck) => \A t \in Workers : Spins(t) ~> ~Spins(t)
=============================================================================
