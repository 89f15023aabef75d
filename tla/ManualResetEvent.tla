-------------------------- MODULE ManualResetEvent --------------------------
(***************************************************************************)
(* manualResetEvent.c: a flag, a spin lock and a queue of sleeping threads.*)
(* set raises the flag and wakes the whole queue; wait joins the queue,    *)
(* whatever the flag says.                                                 *)
(*                                                                         *)
(* Every thread but the main one, which idles, calls set, reset and wait   *)
(* as it likes. The queue is instantiated with WakeAll = TRUE.             *)
(***************************************************************************)
EXTENDS SleepQueue

CONSTANTS
  Signal,     \* newManualResetEvent's argument
  MaxCalls    \* how many calls a thread makes

ASSUME SignalAssumption == Signal \in BOOLEAN
ASSUME MaxCallsAssumption == MaxCalls \in Nat
ASSUME EventWakesAll == WakeAll

VARIABLES
  lock,       \* ev->lock: 0 or 1
  isSet,      \* ev->isSet
  epc,        \* where t is in this module
  calls,      \* calls t may still make
  setSince,   \* ghost: setSince[t]: set has been called since t called wait
  sleepers    \* ghost: who slept in the queue when the set in progress came to it

eventVars == <<lock, isSet, epc, calls, setSince, sleepers>>
vars == <<threadVars, queueVars, eventVars>>

Workers == Threads \ {MainThread}

EventLabels == {"run", "s_lock", "s_set", "s_unlock", "r_lock", "r_clear", "r_unlock", "w_queue"}

\* newManualResetEvent; set and reset, which it calls, find the queue empty.
Init ==
  /\ currThreadIndex = MainThread
  /\ isUnderSheduling = [t \in Threads |-> TRUE]
  /\ state = [t \in Threads |-> "RUNNING"]
  /\ QueueInit
  /\ lock = 0 /\ isSet = Signal
  /\ epc = [t \in Threads |-> "run"]
  /\ calls = [t \in Threads |-> MaxCalls]
  /\ setSince = [t \in Threads |-> FALSE]
  /\ sleepers = {}

Goto(t, label) == epc' = [epc EXCEPT ![t] = label]

\* t is on the processor, in this module and not in a routine of the queue.
At(t, label) == QAt(t, "idle") /\ epc[t] = label

Call(t) ==
  /\ At(t, "run") /\ calls[t] > 0
  /\ calls' = [calls EXCEPT ![t] = @ - 1]

\* t enters a routine of the queue at its label.
Enter(t, label) ==
  /\ QGoto(t, label)
  /\ UNCHANGED <<head, tail, count, qlock, next, target, overran, smashed>>

-----------------------------------------------------------------------------
(* set.                                                                    *)

call_set(t) ==
  /\ Call(t)
  /\ setSince' = [u \in Threads |-> TRUE]
  /\ Goto(t, "s_lock")
  /\ UNCHANGED <<threadVars, queueVars, lock, isSet, sleepers>>

\* Mutant: the lock is counted, not captured.
set_lock_Counts(t) ==
  /\ At(t, "s_lock")
  /\ lock' = lock + 1
  /\ Goto(t, "s_set")
  /\ UNCHANGED <<threadVars, queueVars, isSet, calls, setSince, sleepers>>

set_lock(t) ==
  /\ At(t, "s_lock") /\ lock = 0
  /\ lock' = 1
  /\ Goto(t, "s_set")
  /\ UNCHANGED <<threadVars, queueVars, isSet, calls, setSince, sleepers>>

\* Asleep: linked, and off the scheduler inside the pause.
Asleep(u) == u \in Linked /\ qpc[u] = "pInt" /\ ~isUnderSheduling[u]

\* The flag is raised, then wake_queued_threads is called.
set_isSet(t) ==
  /\ At(t, "s_set")
  /\ isSet' = TRUE
  /\ sleepers' = {u \in Threads : Asleep(u)}
  /\ Enter(t, "wLock")
  /\ Goto(t, "s_unlock")
  /\ UNCHANGED <<threadVars, lock, calls, setSince>>

set_unlock(t) ==
  /\ At(t, "s_unlock")
  /\ lock' = 0
  /\ sleepers' = {}
  /\ Goto(t, "run")
  /\ UNCHANGED <<threadVars, queueVars, isSet, calls, setSince>>

-----------------------------------------------------------------------------
(* reset.                                                                  *)

call_reset(t) ==
  /\ Call(t)
  /\ Goto(t, "r_lock")
  /\ UNCHANGED <<threadVars, queueVars, lock, isSet, setSince, sleepers>>

reset_lock(t) ==
  /\ At(t, "r_lock") /\ lock = 0
  /\ lock' = 1
  /\ Goto(t, "r_clear")
  /\ UNCHANGED <<threadVars, queueVars, isSet, calls, setSince, sleepers>>

reset_clear(t) ==
  /\ At(t, "r_clear")
  /\ isSet' = FALSE
  /\ Goto(t, "r_unlock")
  /\ UNCHANGED <<threadVars, queueVars, lock, calls, setSince, sleepers>>

reset_unlock(t) ==
  /\ At(t, "r_unlock")
  /\ lock' = 0
  /\ Goto(t, "run")
  /\ UNCHANGED <<threadVars, queueVars, isSet, calls, setSince, sleepers>>

-----------------------------------------------------------------------------
(* wait: queue_waiting_thread and nothing else.                            *)

call_wait(t) ==
  /\ Call(t)
  /\ setSince' = [setSince EXCEPT ![t] = FALSE]
  /\ Enter(t, "qLock")
  /\ Goto(t, "w_queue")
  /\ UNCHANGED <<threadVars, lock, isSet, sleepers>>

wait_return(t) ==
  /\ At(t, "w_queue")
  /\ Goto(t, "run")
  /\ UNCHANGED <<threadVars, queueVars, lock, isSet, calls, setSince, sleepers>>

-----------------------------------------------------------------------------
set(t)   == call_set(t) \/ set_lock(t) \/ set_isSet(t) \/ set_unlock(t)
reset(t) == call_reset(t) \/ reset_lock(t) \/ reset_clear(t) \/ reset_unlock(t)
wait(t)  == call_wait(t) \/ wait_return(t)

\* A thread that goes on from its pause is no longer among the sleepers of the set.
InQueue(t) ==
  /\ QueueStep(t)
  /\ sleepers' = IF qpc[t] = "pInt" THEN sleepers \ {t} ELSE sleepers
  /\ UNCHANGED <<lock, isSet, epc, calls, setSince>>

Step(t) == set(t) \/ reset(t) \/ wait(t) \/ InQueue(t)

Tick ==
  /\ change_thread(NumThreads)
  /\ UNCHANGED <<isUnderSheduling, state, queueVars, eventVars>>

Next == Tick \/ \E t \in Workers : Step(t)

Spec == Init /\ [][Next]_vars

-----------------------------------------------------------------------------
(* Properties.                                                             *)

\* Every variable keeps to its type.
TypeOK ==
  /\ ThreadsTypeOK
  /\ QueueTypeOK
  /\ lock \in {0, 1}
  /\ isSet \in BOOLEAN
  /\ epc \in [Threads -> EventLabels]
  /\ calls \in [Threads -> Nat]
  /\ setSince \in [Threads -> BOOLEAN]
  /\ sleepers \subseteq Threads

\* set and reset exclude each other, with the whole wake loop of set inside, and set
\* wakes everyone who sleeps in the queue when it comes to it: when its wake loop is
\* over, the event is still set, and each of them can be selected, or has already
\* gone on, although others have joined the queue meanwhile. (Nothing is said of a
\* thread that was linked but had not yet gone off the scheduler: its entry is taken
\* and lost.)
SetWakesSleepers ==
  \A t \in Threads :
     epc[t] = "s_unlock" =>
       isSet /\ (~overran /\ qpc[t] = "idle" => \A u \in sleepers : isUnderSheduling[u])

\* manualResetEventExample.c, line 36: "Start 3 named threads that block on a
\* ManualResetEvent". So wait returns only when set has been called since.
WaitBlocksUntilSet ==
  [][\A t \in Workers : epc[t] = "w_queue" /\ epc'[t] = "run" => setSince[t]]_vars
=============================================================================
