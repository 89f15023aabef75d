------------------------------ MODULE Threads ------------------------------
(***************************************************************************)
(* What every other module of the kernel's threading shares: the thread    *)
(* table of threads.c (the fields the scheduler and the synchronisation    *)
(* objects look at) and change_thread, the context switch that the timer   *)
(* interrupt runs.                                                         *)
(*                                                                         *)
(* There is one processor. Exactly one thread, currThreadIndex, executes;  *)
(* the others are suspended inside the timer's interrupt frame. A thread's *)
(* step is therefore guarded by Runs(t), and the timer may fire between    *)
(* any two steps.                                                          *)
(***************************************************************************)
EXTENDS Integers

CONSTANT NumThreads   \* slots of threads[] a behaviour may use, main's included

ASSUME NumThreadsAssumption == NumThreads \in Nat \ {0}

Threads    == 0 .. NumThreads - 1
MainThread == 0       \* the thread kernel_main runs in: slot 0

\* enum threadState; THREADSTATE_ABORTED is never assigned.
ThreadStates == {"WAITSLEEPJOIN", "RUNNING", "UNSTARTED", "STOPPED"}

VARIABLES
  currThreadIndex,    \* the slot whose context is on the processor
  isUnderSheduling,   \* isUnderSheduling[t]: change_thread may select slot t
  state               \* state[t]: the slot's enum threadState

threadVars == <<currThreadIndex, isUnderSheduling, state>>

ThreadsTypeOK ==
  /\ currThreadIndex \in Threads
  /\ isUnderSheduling \in [Threads -> BOOLEAN]
  /\ state \in [Threads -> ThreadStates]

Runs(t) == currThreadIndex = t

\* The slots that counting upward from slot i, modulo count, meets strictly
\* before it reaches slot n; all the other slots when n is i itself.
Between(i, n, count) ==
  {j \in 0 .. count - 1 : IF i < n THEN i < j /\ j < n ELSE i < j \/ j < n}

\* Mutant: the search starts at slot 0 every time, so the lowest slot wins.
change_thread_FromZero(count) ==
  \E n \in 0 .. count - 1 :
     /\ isUnderSheduling[n]
     /\ \A j \in 0 .. n - 1 : ~isUnderSheduling[j]
     /\ currThreadIndex' = n

\* Mutant: the index counts modulo one more than the slots in use.
change_thread_PastLast(count) ==
  \E n \in 0 .. count :
     /\ isUnderSheduling[n]
     /\ \A j \in Between(currThreadIndex, n, count + 1) : ~isUnderSheduling[j]
     /\ currThreadIndex' = n

\* change_thread: from the current slot the index counts upward modulo count
\* until it meets a slot under scheduling. That slot's saved stack pointer is
\* what the interrupt returns on, so its thread continues where it stopped.
change_thread(count) ==
  \E n \in 0 .. count - 1 :
     /\ isUnderSheduling[n]
     /\ \A j \in Between(currThreadIndex, n, count) : ~isUnderSheduling[j]
     /\ currThreadIndex' = n

\* With no slot under scheduling the loop of change_thread never ends; it runs
\* inside the interrupt gate, so nothing else ever runs again.
NobodySchedulable(count) == \A n \in 0 .. count - 1 : ~isUnderSheduling[n]
=============================================================================
