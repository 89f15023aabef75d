----------------------- MODULE ManualResetEventProofs -----------------------
(***************************************************************************)
(* Proofs about ManualResetEvent, for every number of threads and calls:   *)
(* the types, and that the event is still set when set has woken its queue *)
(* (the spin lock admits one thread at a time, LockInv, so no reset comes  *)
(* between), overruns included; and up to the first overrun, that the      *)
(* queue is in order and that set wakes everyone who sleeps in it. Of      *)
(* those, WakeLoopInv says how far the wake loop has come: who is not awake*)
(* yet is still linked, or is the thread the waker is working on.          *)
(***************************************************************************)
EXTENDS ManualResetEvent, SleepQueueProofs

HoldsLock(t) == epc[t] \in {"s_set", "s_unlock", "r_clear", "r_unlock"}

\* The spin lock: a thread past its capture finds it taken, and is alone there.
LockInv ==
  /\ \A t \in Threads : HoldsLock(t) => lock = 1
  /\ \A t, u \in Threads : HoldsLock(t) /\ HoldsLock(u) => t = u

\* The event is set while a set wakes the queue.
StillSet == \A t \in Threads : epc[t] = "s_unlock" => isSet

\* Where a thread stands in this module while it is in a routine of the queue.
CallInv ==
  \A t \in Threads :
     /\ qpc[t] \in WaitLabels => epc[t] = "w_queue"
     /\ qpc[t] \in WakeLabels => epc[t] = "s_unlock"

\* Who may be off the scheduler when nobody has outrun a pause.
ScheduleInv == ~overran => \A t \in Threads : ~isUnderSheduling[t] => qpc[t] = "pInt"

\* What t's wake loop has done for the sleeper u, or has yet to do.
OpenFor(t, u) ==
  /\ qpc[u] = "pInt"
  /\ \/ isUnderSheduling[u]
     \/ u \in Linked /\ qpc[t] \in WakeLabels \ {"wUnlock"}
     \/ u = target[t] /\ qpc[t] \in {"wTest", "wSetState", "wSetUnder"}

WakeLoopInv ==
  ~overran => \A t \in Threads : epc[t] = "s_unlock" => \A u \in sleepers : OpenFor(t, u)

IInv ==
  /\ TypeOK /\ LockInv /\ StillSet /\ CallInv /\ ScheduleInv
  /\ QueueInv /\ Awake /\ WakeLoopInv

-----------------------------------------------------------------------------

LEMMA WorkersAreThreads == Workers \subseteq Threads
BY DEF Workers

LEMMA InitInv == Init => IInv
<1> SUFFICES ASSUME Init PROVE IInv
  OBVIOUS
<1>1. ThreadsTypeOK
  BY NumThreadsAssumption DEF Init, ThreadsTypeOK, Threads, MainThread, ThreadStates
<1>2. QueueTypeOK
  BY QueueInitTyped DEF Init
<1>3. epc \in [Threads -> EventLabels] /\ calls \in [Threads -> Nat]
      /\ setSince \in [Threads -> BOOLEAN]
  BY MaxCallsAssumption DEF Init, EventLabels
<1>4. TypeOK
  BY <1>1, <1>2, <1>3, SignalAssumption DEF Init, TypeOK
<1>5. QueueInv /\ Awake
  BY QueueInitInv DEF Init, Awake
<1>6. LockInv /\ StillSet /\ WakeLoopInv
  BY DEF Init, LockInv, HoldsLock, StillSet, WakeLoopInv
<1>7. CallInv /\ ScheduleInv
  BY DEF Init, QueueInit, CallInv, ScheduleInv, WaitLabels, WakeLabels, PauseLabels
<1> QED
  BY <1>4, <1>5, <1>6, <1>7 DEF IInv

\* Any thread's step in the queue leaves a sleeper awake, linked or in hand.
LEMMA InQueueKeepsWakeLoop ==
  ASSUME TypeOK, LockInv, CallInv, QueueInv, WakeLoopInv, NEW w \in Threads, InQueue(w)
  PROVE  WakeLoopInv'
<1> SUFFICES ASSUME ~overran', NEW t \in Threads, epc'[t] = "s_unlock", NEW u \in sleepers'
             PROVE  OpenFor(t, u)'
  BY DEF WakeLoopInv
<1>1. QueueStep(w) /\ epc' = epc /\ ThreadsTypeOK /\ QueueTypeOK /\ ~overran
  BY QueueStepMoves DEF InQueue, TypeOK
<1>2. u \in sleepers /\ u \in Threads /\ (qpc[w] = "pInt" => u # w)
  BY DEF InQueue, TypeOK
<1>3. OpenFor(t, u)
  BY <1>1, <1>2 DEF WakeLoopInv
<1>4. u # w /\ qpc'[u] = "pInt"
  <2>1. u # w
    BY <1>2, <1>3 DEF OpenFor
  <2> QED
    BY <1>1, <1>2, <1>3, <2>1, QueueStepMoves DEF OpenFor
<1>5. CASE isUnderSheduling[u]
  <2>1. isUnderSheduling'[u]
    <3>1. isUnderSheduling'[u] \in BOOLEAN
      BY <1>1, <1>2, QueueStepTyped DEF ThreadsTypeOK
    <3> QED
      BY <1>1, <1>2, <1>4, <1>5, <3>1, QueueStepMoves
  <2> QED
    BY <1>4, <2>1 DEF OpenFor
<1>6. CASE ~isUnderSheduling[u] /\ w # t
  <2>1. qpc[w] \notin WakeLabels
    BY <1>1, <1>6 DEF CallInv, LockInv, HoldsLock
  <2>2. target' = target
    BY <1>1, <2>1
       DEF QueueStep, qLock, qLink, qTail, qUnlock, pState, pUnder, pInt, wLock, wPop, wEmpty,
           wTest, wSetState, wSetUnder, wUnlock, WakeLabels, QAt
  <2>3. qpc'[t] = qpc[t]
    BY <1>1, <1>6, QueueStepMoves
  <2>4. u \in Linked => u \in Linked'
    BY <1>1, <2>1, LinkedUntilTaken DEF wPop, QAt, WakeLabels
  <2> QED
    BY <1>3, <1>4, <1>6, <2>2, <2>3, <2>4 DEF OpenFor
<1>7. CASE ~isUnderSheduling[u] /\ w = t
  <2>0. qpc[t] \in WakeLabels \ {"wUnlock"} /\ qpc \in [Threads -> QueueLabels]
        /\ AfterWake = "wPop"
    BY <1>1, <1>3, <1>7, EventWakesAll DEF OpenFor, WakeLabels, QueueTypeOK, AfterWake
  <2>1. CASE wLock(t)
    <3>1. qpc'[t] = "wPop" /\ u \in Linked
      BY <1>3, <1>7, <2>0, <2>1 DEF wLock, QAt, QGoto, OpenFor
    <3>2. u \in Linked'
      BY <1>1, <1>7, <2>1, <3>1, LinkedUntilTaken DEF wLock, wPop, QAt
    <3> QED
      BY <1>4, <3>1, <3>2 DEF OpenFor, WakeLabels
  <2>2. CASE wPop(t)
    <3>1. u \in Linked
      BY <1>3, <1>7, <2>2 DEF wPop, QAt, OpenFor
    <3>2. state[u] = "WAITSLEEPJOIN"
      BY <1>1, <1>3, <3>1, LinkedWaits DEF Waits, OpenFor
    <3>3. qpc'[t] \in {"wTest", "wPop"}
      BY <2>0, <2>2 DEF wPop, QGoto
    <3>4. u \in Linked' \/ (target'[t] = u /\ qpc'[t] = "wTest")
      BY <1>1, <1>7, <3>1, <3>2, LinkedUntilTaken
    <3> QED
      BY <1>4, <3>3, <3>4 DEF OpenFor, WakeLabels
  <2>3. CASE wEmpty(t)
    <3>1. u \in Linked /\ head = NoEntry
      BY <1>3, <1>7, <2>3 DEF wEmpty, QAt, OpenFor
    <3> QED
      BY <1>1, <3>1, EmptyHead
  <2>4. CASE wTest(t)
    <3>1. CASE u \in Linked
      <4>1. qpc'[t] \in {"wSetState", "wPop"}
        BY <2>0, <2>4 DEF wTest, QGoto
      <4>2. u \in Linked'
        BY <1>1, <1>7, <2>4, <3>1, LinkedUntilTaken DEF wTest, wPop, QAt
      <4> QED
        BY <1>4, <4>1, <4>2 DEF OpenFor, WakeLabels
    <3>2. CASE u = target[t]
      <4>1. qpc'[t] = "wSetState" /\ target' = target
        BY <1>7, <2>0, <2>4, <3>2 DEF wTest, QGoto
      <4> QED
        BY <1>4, <3>2, <4>1 DEF OpenFor
    <3> QED
      BY <1>3, <1>7, <3>1, <3>2 DEF OpenFor
  <2>5. CASE wSetState(t)
    <3>1. qpc'[t] = "wSetUnder" /\ target' = target
      BY <2>0, <2>5 DEF wSetState, QGoto
    <3>2. u \in Linked => u \in Linked'
      BY <1>1, <1>7, <2>5, LinkedUntilTaken DEF wSetState, wPop, QAt
    <3> QED
      BY <1>3, <1>4, <1>7, <3>1, <3>2 DEF OpenFor, WakeLabels
  <2>6. CASE wSetUnder(t)
    <3>1. CASE u \in Linked
      <4>1. qpc'[t] = "wPop"
        BY <2>0, <2>6 DEF wSetUnder, QGoto
      <4>2. u \in Linked'
        BY <1>1, <1>7, <2>6, <3>1, LinkedUntilTaken DEF wSetUnder, wPop, QAt
      <4> QED
        BY <1>4, <4>1, <4>2 DEF OpenFor, WakeLabels
    <3>2. CASE u = target[t]
      <4>1. isUnderSheduling'[u]
        BY <1>1, <1>2, <2>6, <3>2 DEF wSetUnder, ThreadsTypeOK
      <4> QED
        BY <1>4, <4>1 DEF OpenFor
    <3> QED
      BY <1>3, <1>7, <3>1, <3>2 DEF OpenFor
  <2> QED
    BY <1>1, <1>7, <2>0, <2>1, <2>2, <2>3, <2>4, <2>5, <2>6
       DEF QueueStep, QAt, WakeLabels, qLock, qLink, qTail, qUnlock, pState, pUnder, pInt, wUnlock
<1> QED
  BY <1>5, <1>6, <1>7

LEMMA InQueueKeepsInv ==
  ASSUME IInv, NEW t \in Threads, InQueue(t)
  PROVE  IInv'
<1>1. ThreadsTypeOK' /\ QueueTypeOK'
  BY QueueStepTyped DEF IInv, TypeOK, InQueue
<1>2. sleepers' \subseteq Threads
  BY DEF IInv, TypeOK, InQueue
<1>3. UNCHANGED <<lock, isSet, epc, calls, setSince>>
  BY DEF InQueue
<1>4. TypeOK' /\ LockInv' /\ StillSet'
  BY <1>1, <1>2, <1>3 DEF IInv, TypeOK, LockInv, HoldsLock, StillSet
<1>5. CallInv' /\ ScheduleInv'
  <2>1. QueueStep(t) /\ ThreadsTypeOK /\ QueueTypeOK /\ CallInv /\ ScheduleInv
    BY DEF IInv, TypeOK, InQueue
  <2>2. CallInv'
    BY <1>3, <2>1, QueueStepMoves DEF CallInv
  <2>3. ScheduleInv'
    BY <2>1, QueueStepMoves DEF ScheduleInv
  <2> QED
    BY <2>2, <2>3
<1>6. QueueInv' /\ Awake'
  BY QueueStepKeepsInv, QueueStepAwake DEF IInv, TypeOK, InQueue
<1>7. WakeLoopInv'
  BY InQueueKeepsWakeLoop DEF IInv
<1> QED
  BY <1>4, <1>5, <1>6, <1>7 DEF IInv

LEMMA SetTyped ==
  ASSUME TypeOK, NEW t \in Threads, set(t)
  PROVE  TypeOK'
<1> USE DEF TypeOK, ThreadsTypeOK, QueueTypeOK, threadVars, queueVars, Call, At, QAt, Goto,
            EventLabels
<1>1. CASE call_set(t)
  BY <1>1 DEF call_set
<1>2. CASE set_lock(t)
  BY <1>2 DEF set_lock
<1>3. CASE set_isSet(t)
  <2>1. "wLock" \in QueueLabels
    BY DEF QueueLabels, WakeLabels
  <2>2. qpc' \in [Threads -> QueueLabels]
    BY <1>3, <2>1 DEF set_isSet, Enter, QGoto
  <2>3. sleepers' \subseteq Threads
    BY <1>3 DEF set_isSet
  <2>4. epc' \in [Threads -> EventLabels] /\ isSet' \in BOOLEAN
    BY <1>3 DEF set_isSet
  <2>5. ThreadsTypeOK'
    BY <1>3 DEF set_isSet
  <2>6. QueueTypeOK'
    BY <1>3, <2>2 DEF set_isSet, Enter
  <2>7. lock' \in {0, 1} /\ calls' \in [Threads -> Nat] /\ setSince' \in [Threads -> BOOLEAN]
    BY <1>3 DEF set_isSet
  <2> HIDE DEF ThreadsTypeOK, QueueTypeOK, EventLabels
  <2> QED
    BY <2>3, <2>4, <2>5, <2>6, <2>7
<1>4. CASE set_unlock(t)
  BY <1>4 DEF set_unlock
<1> QED
  BY <1>1, <1>2, <1>3, <1>4 DEF set

LEMMA ResetTyped ==
  ASSUME TypeOK, NEW t \in Threads, reset(t)
  PROVE  TypeOK'
<1> USE DEF TypeOK, ThreadsTypeOK, QueueTypeOK, threadVars, queueVars, Call, At, QAt, Goto,
            EventLabels
<1>1. CASE call_reset(t)
  BY <1>1 DEF call_reset
<1>2. CASE reset_lock(t)
  BY <1>2 DEF reset_lock
<1>3. CASE reset_clear(t)
  BY <1>3 DEF reset_clear
<1>4. CASE reset_unlock(t)
  BY <1>4 DEF reset_unlock
<1> QED
  BY <1>1, <1>2, <1>3, <1>4 DEF reset

LEMMA WaitTyped ==
  ASSUME TypeOK, NEW t \in Threads, wait(t)
  PROVE  TypeOK'
<1> USE DEF TypeOK, ThreadsTypeOK, QueueTypeOK, threadVars, queueVars, Call, At, QAt, Goto,
            EventLabels
<1>1. CASE call_wait(t)
  BY <1>1 DEF call_wait, Enter, QGoto, QueueLabels, WaitLabels
<1>2. CASE wait_return(t)
  BY <1>2 DEF wait_return
<1> QED
  BY <1>1, <1>2 DEF wait

\* Only who holds the spin lock stores to the flag or gives the lock back.
LEMMA CallKeepsLock ==
  ASSUME TypeOK, LockInv, StillSet, NEW t \in Threads,
         set(t) \/ reset(t) \/ wait(t)
  PROVE  LockInv' /\ StillSet'
<1>0. epc \in [Threads -> EventLabels] /\ lock \in {0, 1}
  BY DEF TypeOK
<1> USE <1>0 DEF LockInv, HoldsLock, StillSet, Call, At, Goto
<1>1. CASE set(t)
  BY <1>1 DEF set, call_set, set_lock, set_isSet, set_unlock
<1>2. CASE reset(t)
  BY <1>2 DEF reset, call_reset, reset_lock, reset_clear, reset_unlock
<1>3. CASE wait(t)
  BY <1>3 DEF wait, call_wait, wait_return
<1> QED
  BY <1>1, <1>2, <1>3

\* The event's own steps, which move a thread into the queue's routines at most.
LEMMA CallKeepsQueue ==
  ASSUME TypeOK, LockInv, CallInv, ScheduleInv, QueueInv, Awake, WakeLoopInv,
         NEW t \in Threads, set(t) \/ reset(t) \/ wait(t)
  PROVE  CallInv' /\ ScheduleInv' /\ QueueInv' /\ Awake' /\ WakeLoopInv'
<1>1. /\ UNCHANGED <<threadVars, head, tail, count, qlock, next, target, overran, smashed>>
      /\ qpc[t] = "idle"
      /\ \/ UNCHANGED <<qpc, sleepers>> /\ epc[t] # "w_queue" /\ epc[t] # "s_unlock"
                /\ \E l \in EventLabels \ {"w_queue", "s_unlock"} : Goto(t, l)
         \/ UNCHANGED qpc /\ epc[t] = "s_unlock" /\ sleepers' = {} /\ Goto(t, "run")
         \/ UNCHANGED <<qpc, sleepers>> /\ epc[t] = "w_queue" /\ Goto(t, "run")
         \/ QGoto(t, "wLock") /\ Goto(t, "s_unlock") /\ epc[t] = "s_set"
                /\ sleepers' = {u \in Threads : Asleep(u)}
         \/ QGoto(t, "qLock") /\ Goto(t, "w_queue") /\ epc[t] = "run" /\ UNCHANGED sleepers
  <2> USE DEF Call, Enter, At, QAt, queueVars, EventLabels
  <2>1. CASE set(t)
    BY <2>1 DEF set, call_set, set_lock, set_isSet, set_unlock
  <2>2. CASE reset(t)
    BY <2>2 DEF reset, call_reset, reset_lock, reset_clear, reset_unlock
  <2>3. CASE wait(t)
    BY <2>3 DEF wait, call_wait, wait_return
  <2> QED
    BY <2>1, <2>2, <2>3
<1>2. /\ QueueTypeOK /\ qpc \in [Threads -> QueueLabels] /\ epc \in [Threads -> EventLabels]
      /\ UNCHANGED <<isUnderSheduling, state>>
  BY <1>1 DEF TypeOK, QueueTypeOK, threadVars
<1>3. UNCHANGED qpc \/ QGoto(t, "wLock") \/ QGoto(t, "qLock")
  BY <1>1
<1>4. ASSUME ~overran PROVE isUnderSheduling[t] /\ state[t] # "WAITSLEEPJOIN"
  BY <1>1, <1>4 DEF ScheduleInv, Awake
<1>5. QueueInv'
  <2>1. \A u \in Threads : MayEnter(u)
    BY <1>1, <1>2, <1>3, <1>4 DEF MayEnter, QGoto
  <2> QED
    BY <1>1, <1>2, <2>1, OtherStepKeepsInv
<1>6. Awake' /\ ScheduleInv'
  BY <1>1, <1>2, <1>3 DEF Awake, ScheduleInv, QGoto
<1>7. CallInv'
  BY <1>1, <1>2 DEF CallInv, QGoto, Goto, WaitLabels, WakeLabels, PauseLabels
<1>8. WakeLoopInv'
  <2> SUFFICES ASSUME ~overran', NEW s \in Threads, epc'[s] = "s_unlock", NEW u \in sleepers'
               PROVE  OpenFor(s, u)'
    BY DEF WakeLoopInv
  <2>1. Linked' = Linked
    BY <1>1 DEF Linked, Hop
  <2>2. CASE epc[s] = "s_unlock"
    <3>1. s # t
      BY <1>1, <1>2, <2>2 DEF Goto
    <3>2. epc[t] # "s_unlock" /\ epc[t] # "s_set"
      BY <2>2, <3>1 DEF LockInv, HoldsLock
    <3>3. sleepers' = sleepers
      BY <1>1, <3>2
    <3>4. OpenFor(s, u) /\ u # t
      BY <1>1, <2>2, <3>3 DEF WakeLoopInv, OpenFor
    <3>5. qpc'[s] = qpc[s] /\ qpc'[u] = qpc[u]
      <4>1. u \in Threads
        BY <3>3 DEF TypeOK
      <4> QED
        BY <1>2, <1>3, <3>1, <3>4, <4>1 DEF QGoto
    <3> QED
      BY <1>1, <1>2, <2>1, <3>4, <3>5 DEF OpenFor
  <2>3. CASE epc[s] # "s_unlock"
    <3>1. s = t /\ QGoto(t, "wLock") /\ sleepers' = {v \in Threads : Asleep(v)}
      BY <1>1, <1>2, <2>3 DEF Goto, EventLabels
    <3>2. u \in Threads /\ u \in Linked /\ qpc[u] = "pInt" /\ u # t
      BY <1>1, <3>1 DEF Asleep
    <3>3. qpc'[u] = "pInt" /\ qpc'[t] = "wLock"
      BY <1>2, <3>1, <3>2 DEF QGoto
    <3> QED
      BY <2>1, <3>1, <3>2, <3>3 DEF OpenFor, WakeLabels
  <2> QED
    BY <2>2, <2>3
<1> QED
  BY <1>5, <1>6, <1>7, <1>8

LEMMA NextKeepsInv == IInv /\ [Next]_vars => IInv'
<1>1. ASSUME IInv, NEW t \in Workers, Step(t)
      PROVE  IInv'
  <2>1. t \in Threads
    BY WorkersAreThreads
  <2>2. CASE InQueue(t)
    BY <1>1, <2>1, <2>2, InQueueKeepsInv
  <2>3. CASE set(t) \/ reset(t) \/ wait(t)
    <3>1. TypeOK'
      BY <1>1, <2>1, <2>3, SetTyped, ResetTyped, WaitTyped DEF IInv
    <3>2. LockInv' /\ StillSet'
      BY <1>1, <2>1, <2>3, CallKeepsLock DEF IInv
    <3>3. CallInv' /\ ScheduleInv' /\ QueueInv' /\ Awake' /\ WakeLoopInv'
      BY <1>1, <2>1, <2>3, CallKeepsQueue DEF IInv
    <3> QED
      BY <3>1, <3>2, <3>3 DEF IInv
  <2> QED
    BY <1>1, <2>2, <2>3 DEF Step
<1>2. ASSUME IInv, UNCHANGED <<isUnderSheduling, state, queueVars, eventVars>>,
             currThreadIndex' \in Threads
      PROVE  IInv'
  <2>1. TypeOK' /\ LockInv' /\ StillSet'
    BY <1>2 DEF IInv, TypeOK, ThreadsTypeOK, QueueTypeOK, queueVars, eventVars, LockInv,
                HoldsLock, StillSet
  <2>2. CallInv' /\ ScheduleInv' /\ WakeLoopInv'
    <3>1. Linked' = Linked
      BY <1>2 DEF Linked, Hop, queueVars
    <3> QED
      BY <1>2, <3>1 DEF IInv, CallInv, ScheduleInv, WakeLoopInv, OpenFor, queueVars, eventVars
  <2>3. QueueInv' /\ Awake'
    BY <1>2, QueueUntouched DEF IInv, TypeOK
  <2> QED
    BY <2>1, <2>2, <2>3 DEF IInv
<1>3. IInv /\ Tick => IInv'
  BY <1>2 DEF Tick, change_thread, Threads
<1>4. IInv /\ UNCHANGED vars => IInv'
  BY <1>2 DEF vars, threadVars, IInv, TypeOK, ThreadsTypeOK
<1> QED
  BY <1>1, <1>3, <1>4 DEF Next

\* The inductive invariant holds in every state of every behaviour.
THEOREM Invariance == Spec => []IInv
BY InitInv, NextKeepsInv, PTL DEF Spec

\* Every variable keeps to its type; both spin locks are 0 or 1 at all times.
THEOREM TypeCorrect == Spec => []TypeOK
<1>1. IInv => TypeOK
  BY DEF IInv
<1> QED
  BY <1>1, Invariance, PTL

\* While its lock is free the event's queue is a list without repetition, from head to
\* tail, as long as count says, of threads still in queue_waiting_thread, although set
\* empties the whole of it (wake_queued_threads); until a thread outruns its pause.
THEOREM QueueInOrder == Spec => []QueueWellFormed
<1>1. IInv => QueueWellFormed
  BY OrderedQueue DEF IInv, TypeOK
<1> QED
  BY <1>1, Invariance, PTL

\* No reset comes between a set's raising the flag and the end of its wake loop, and when
\* that is over, everyone who slept in the queue when set came to it can be selected
\* again or has gone on (set and reset of manualResetEvent.c).
THEOREM SetWakes == Spec => []SetWakesSleepers
<1>1. IInv => SetWakesSleepers
  <2> SUFFICES ASSUME IInv, NEW t \in Threads, epc[t] = "s_unlock"
               PROVE  isSet /\ (~overran /\ qpc[t] = "idle" =>
                                  \A u \in sleepers : isUnderSheduling[u])
    BY DEF SetWakesSleepers
  <2>1. isSet
    BY DEF IInv, StillSet
  <2>2. ASSUME ~overran, qpc[t] = "idle", NEW u \in sleepers
        PROVE  isUnderSheduling[u]
    <3>1. OpenFor(t, u)
      BY <2>2 DEF IInv, WakeLoopInv
    <3> QED
      BY <2>2, <3>1 DEF OpenFor, WakeLabels
  <2> QED
    BY <2>1, <2>2
<1> QED
  BY <1>1, Invariance, PTL
=============================================================================
