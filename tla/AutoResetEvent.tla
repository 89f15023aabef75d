--------------------------- MODULE AutoResetEvent ---------------------------
(***************************************************************************)
(* autoResetEvent.c: an event that lets one waiter pass for each set. It   *)
(* is nothing but a spin lock, signal, whose value 0 means "set": set      *)
(* releases the lock, waitOne captures it, reset marks it captured.        *)
(*                                                                         *)
(* Every thread calls set, reset and waitOne as it likes. slockRelease is  *)
(* two steps here, a test and a store: unlike the owner of a lock, the     *)
(* caller of set shares them with other callers of set, reset and waitOne. *)
(*                                                                         *)
(* What every specification has, Init, Next and so on, is named after the  *)
(* event here: ThreadsProofs extends this module and Scheduler.            *)
(***************************************************************************)
EXTENDS Threads

CONSTANTS
  Signal,     \* newAutoResetEvent's argument
  MaxCalls    \* how many calls a thread makes

ASSUME SignalAssumption == Signal \in BOOLEAN
ASSUME MaxCallsAssumption == MaxCalls \in Nat

VARIABLES
  signal,     \* ev->signal.state: 0 or 1
  epc,        \* where t is
  calls,      \* calls t may still make
  sets,       \* ghost: calls of set so far
  passes,     \* ghost: calls of waitOne that have returned
  wasReset    \* ghost: reset has been called

eventVars == <<signal, epc, calls, sets, passes, wasReset>>
allVars == <<threadVars, eventVars>>

EventLabels == {"run", "s_test", "s_store", "w_xchg", "w_spin"}
SetLabels   == {"s_test", "s_store"}
WaitLabels  == {"w_xchg", "w_spin"}

\* newAutoResetEvent: the lock starts free, which set leaves alone.
EventInit ==
  /\ currThreadIndex = MainThread
  /\ isUnderSheduling = [t \in Threads |-> TRUE]
  /\ state = [t \in Threads |-> "RUNNING"]
  /\ signal = IF Signal THEN 0 ELSE 1
  /\ epc = [t \in Threads |-> "run"]
  /\ calls = [t \in Threads |-> MaxCalls]
  /\ sets = 0 /\ passes = 0 /\ wasReset = FALSE

EventGoto(t, label) == epc' = [epc EXCEPT ![t] = label]

EventAt(t, label) == Runs(t) /\ epc[t] = label

Call(t) ==
  /\ EventAt(t, "run") /\ calls[t] > 0
  /\ calls' = [calls EXCEPT ![t] = @ - 1]

-----------------------------------------------------------------------------
call_set(t) ==
  /\ Call(t)
  /\ sets' = sets + 1
  /\ EventGoto(t, "s_test")
  /\ UNCHANGED <<threadVars, signal, passes, wasReset>>

\* slockRelease does nothing to a lock that is free.
set_test(t) ==
  /\ EventAt(t, "s_test")
  /\ IF signal = 1 THEN EventGoto(t, "s_store") ELSE EventGoto(t, "run")
  /\ UNCHANGED <<threadVars, signal, calls, sets, passes, wasReset>>

\* Mutant: the lock's state is counted down, not cleared.
set_store_Decrements(t) ==
  /\ EventAt(t, "s_store")
  /\ signal' = signal - 1
  /\ EventGoto(t, "run")
  /\ UNCHANGED <<threadVars, calls, sets, passes, wasReset>>

set_store(t) ==
  /\ EventAt(t, "s_store")
  /\ signal' = 0
  /\ EventGoto(t, "run")
  /\ UNCHANGED <<threadVars, calls, sets, passes, wasReset>>

reset(t) ==
  /\ Call(t)
  /\ signal' = 1
  /\ wasReset' = TRUE
  /\ UNCHANGED <<threadVars, epc, sets, passes>>

call_wait(t) ==
  /\ Call(t)
  /\ EventGoto(t, "w_xchg")
  /\ UNCHANGED <<threadVars, signal, sets, passes, wasReset>>

\* Mutant: the result of the exchange is not negated.
wait_xchg_Inverted(t) ==
  /\ EventAt(t, "w_xchg")
  /\ signal' = 1
  /\ IF signal = 1
     THEN passes' = passes + 1 /\ EventGoto(t, "run")
     ELSE EventGoto(t, "w_spin") /\ UNCHANGED passes
  /\ UNCHANGED <<threadVars, calls, sets, wasReset>>

\* _spin_try_lock: one exchange. Whoever gets the 0 returns from waitOne.
wait_xchg(t) ==
  /\ EventAt(t, "w_xchg")
  /\ signal' = 1
  /\ IF signal = 0
     THEN passes' = passes + 1 /\ EventGoto(t, "run")
     ELSE EventGoto(t, "w_spin") /\ UNCHANGED passes
  /\ UNCHANGED <<threadVars, calls, sets, wasReset>>

\* Mutant: a waiter that has seen the lock free does not exchange again.
wait_spin_Takes(t) ==
  /\ EventAt(t, "w_spin") /\ signal = 0
  /\ passes' = passes + 1
  /\ EventGoto(t, "run")
  /\ UNCHANGED <<threadVars, signal, calls, sets, wasReset>>

\* slockCapture's inner loop only looks; out of it, the exchange is tried again.
wait_spin(t) ==
  /\ EventAt(t, "w_spin") /\ signal = 0
  /\ EventGoto(t, "w_xchg")
  /\ UNCHANGED <<threadVars, signal, calls, sets, passes, wasReset>>

-----------------------------------------------------------------------------
Step(t) ==
  \/ call_set(t) \/ set_test(t) \/ set_store(t)
  \/ reset(t)
  \/ call_wait(t) \/ wait_xchg(t) \/ wait_spin(t)

EventTick ==
  /\ change_thread(NumThreads)
  /\ UNCHANGED <<isUnderSheduling, state, eventVars>>

EventNext == EventTick \/ \E t \in Threads : Step(t)

EventSpec == EventInit /\ [][EventNext]_allVars

\* A thread inside one of the calls goes on when the processor is its own again
\* and again; nobody has to make a call.
EventFairSpec ==
  /\ EventSpec
  /\ WF_allVars(EventTick)
  /\ \A t \in Threads : SF_allVars(set_test(t) \/ set_store(t) \/ wait_xchg(t) \/ wait_spin(t))

-----------------------------------------------------------------------------
(* Properties.                                                             *)

\* Every variable keeps to its type.
EventTypeOK ==
  /\ ThreadsTypeOK
  /\ signal \in {0, 1}
  /\ epc \in [Threads -> EventLabels]
  /\ calls \in [Threads -> Nat]
  /\ sets \in Nat /\ passes \in Nat
  /\ wasReset \in BOOLEAN

\* A set lets at most one waiter pass, although its test and its store may be
\* interrupted by other sets and by waiters that pass in between: never have more
\* waits returned than sets been called (and one more for an event created set).
AtMostOnePassPerSet == passes <= sets + (IF Signal THEN 1 ELSE 0)

\* A set event lets a waiter pass as soon as there is one, unless it is reset.
SetLetsOnePass ==
  \A n \in 0 .. NumThreads * MaxCalls :
     (signal = 0 /\ passes = n /\ \E t \in Threads : epc[t] \in WaitLabels)
        ~> (passes > n \/ wasReset)
=============================================================================
