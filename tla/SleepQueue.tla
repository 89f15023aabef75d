----------------------------- MODULE SleepQueue -----------------------------
(***************************************************************************)
(* The queue of sleeping threads that the mutex, the semaphore, the        *)
(* monitor and the manual-reset event of this kernel are built on:         *)
(* queue_waiting_thread, pause_curr_thread, wake_queued_thread,            *)
(* wake_queued_threads and wake_thread of threads.c.                       *)
(*                                                                         *)
(* A synchronisation object EXTENDS this module. It calls a routine by     *)
(* moving qpc[t] from "idle" to the routine's first label, and goes on     *)
(* when qpc[t] is "idle" again.                                            *)
(*                                                                         *)
(* The entry a thread links into the queue is a local variable of          *)
(* queue_waiting_thread, so it is named by its thread, and it exists only  *)
(* while that thread is inside the routine. Once the routine has returned  *)
(* the queue may still point at it; then a read through the pointer finds  *)
(* any contents, and a write through it damages the stack of a running     *)
(* thread: there the model stops ("smashed").                              *)
(***************************************************************************)
EXTENDS Threads

CONSTANTS
  WakeAll,      \* TRUE: the object calls wake_queued_threads; FALSE: wake_queued_thread
  CountRange    \* the number of values of the int q->count, which wraps

ASSUME WakeAllAssumption == WakeAll \in BOOLEAN
ASSUME CountRangeAssumption == CountRange \in Nat /\ CountRange > NumThreads

NoEntry   == -1   \* the null pointer
WildEntry == -2   \* a pointer to nothing in particular
NoThread  == -1   \* a threadId wake_thread rejects

Pointers == Threads \cup {NoEntry, WildEntry}

VARIABLES
  head, tail,   \* q->head, q->tail
  count,        \* q->count
  qlock,        \* q->lock: 0 or 1
  next,         \* next[t]: the field next of t's entry
  qpc,          \* where t is in this module; "idle" when it is not in it
  target,       \* the threadId of the entry t, as a waker, has taken off
  overran,      \* ghost: some thread left pause_curr_thread without being woken
  smashed       \* ghost: a store went through a dangling q->tail

queueVars == <<head, tail, count, qlock, next, qpc, target, overran, smashed>>

PauseLabels == {"pState", "pUnder", "pInt"}
WaitLabels  == {"qLock", "qLink", "qTail", "qUnlock"} \cup PauseLabels
WakeLabels  == {"wLock", "wPop", "wTest", "wSetState", "wSetUnder", "wUnlock"}
QueueLabels == {"idle"} \cup WaitLabels \cup WakeLabels

QueueInit ==
  /\ head = NoEntry /\ tail = NoEntry /\ count = 0
  /\ qlock = 0
  /\ next = [t \in Threads |-> NoEntry]
  /\ qpc = [t \in Threads |-> "idle"]
  /\ target = [t \in Threads |-> NoThread]
  /\ overran = FALSE /\ smashed = FALSE

QueueTypeOK ==
  /\ head \in Pointers /\ tail \in Pointers
  /\ count \in 0 .. CountRange - 1
  /\ qlock \in {0, 1}
  /\ next \in [Threads -> Pointers]
  /\ qpc \in [Threads -> QueueLabels]
  /\ target \in [Threads -> Threads \cup {NoThread}]
  /\ overran \in BOOLEAN /\ smashed \in BOOLEAN

QGoto(t, label) == qpc' = [qpc EXCEPT ![t] = label]

\* t is on the processor, in this module, at label.
QAt(t, label) == Runs(t) /\ ~smashed /\ qpc[t] = label

Increment(c) == IF c = CountRange - 1 THEN 0 ELSE c + 1
Decrement(c) == IF c = 0 THEN CountRange - 1 ELSE c - 1

-----------------------------------------------------------------------------
(* queue_waiting_thread.                                                   *)

qLock(t) ==
  /\ QAt(t, "qLock") /\ qlock = 0
  /\ qlock' = 1
  /\ QGoto(t, "qLink")
  /\ UNCHANGED <<threadVars, head, tail, count, next, target, overran, smashed>>

\* p points into the frame of a thread that is inside queue_waiting_thread.
Framed(p) == p \in Threads /\ qpc[p] \in WaitLabels

\* The entry (threadId t, next null) is appended. When the queue is not empty
\* that is a store to q->tail->next, whatever q->tail points at.
qLink(t) ==
  /\ QAt(t, "qLink")
  /\ IF head = NoEntry
     THEN /\ head' = t
          /\ next' = [next EXCEPT ![t] = NoEntry]
          /\ UNCHANGED smashed
     ELSE /\ IF Framed(tail)
             THEN /\ next' = [next EXCEPT ![t] = NoEntry, ![tail] = t]
                  /\ UNCHANGED smashed
             ELSE /\ next' = [next EXCEPT ![t] = NoEntry]
                  /\ smashed' = TRUE
          /\ UNCHANGED head
  /\ QGoto(t, "qTail")
  /\ UNCHANGED <<threadVars, tail, count, qlock, target, overran>>

\* Mutant: q->tail is set only with the first entry.
qTail_First(t) ==
  /\ QAt(t, "qTail")
  /\ tail' = IF tail = NoEntry THEN t ELSE tail
  /\ count' = Increment(count)
  /\ QGoto(t, "qUnlock")
  /\ UNCHANGED <<threadVars, head, qlock, next, target, overran, smashed>>

qTail(t) ==
  /\ QAt(t, "qTail")
  /\ tail' = t
  /\ count' = Increment(count)
  /\ QGoto(t, "qUnlock")
  /\ UNCHANGED <<threadVars, head, qlock, next, target, overran, smashed>>

qUnlock(t) ==
  /\ QAt(t, "qUnlock")
  /\ qlock' = 0
  /\ QGoto(t, "pState")
  /\ UNCHANGED <<threadVars, head, tail, count, next, target, overran, smashed>>

\* pause_curr_thread, which queue_waiting_thread ends with.
pState(t) ==
  /\ QAt(t, "pState")
  /\ state' = [state EXCEPT ![t] = "WAITSLEEPJOIN"]
  /\ QGoto(t, "pUnder")
  /\ UNCHANGED <<currThreadIndex, isUnderSheduling, head, tail, count, qlock, next,
                 target, overran, smashed>>

pUnder(t) ==
  /\ QAt(t, "pUnder")
  /\ isUnderSheduling' = [isUnderSheduling EXCEPT ![t] = FALSE]
  /\ QGoto(t, "pInt")
  /\ UNCHANGED <<currThreadIndex, state, head, tail, count, qlock, next, target,
                 overran, smashed>>

\* int 3 does not switch threads: if the timer has not, the routine returns here
\* and now, and t runs on although nobody has woken it.
pInt(t) ==
  /\ QAt(t, "pInt")
  /\ overran' = (overran \/ ~isUnderSheduling[t])
  /\ QGoto(t, "idle")
  /\ UNCHANGED <<threadVars, head, tail, count, qlock, next, target, smashed>>

-----------------------------------------------------------------------------
(* wake_queued_thread and wake_queued_threads.                             *)

wLock(t) ==
  /\ QAt(t, "wLock") /\ qlock = 0
  /\ qlock' = 1
  /\ QGoto(t, "wPop")
  /\ UNCHANGED <<threadVars, head, tail, count, next, target, overran, smashed>>

\* What reading the fields (threadId, next) of an entry may find. An entry is
\* filled once its thread has passed qLock; anything else is old stack memory.
Contents(p) ==
  IF Framed(p) /\ qpc[p] # "qLock"
  THEN {<<p, next[p]>>}
  ELSE (Threads \cup {NoThread}) \X Pointers

\* Mutant: the whole queue is not woken, only its head.
AfterWake_Head == "wUnlock"

\* wake_queued_threads goes on to the next entry, wake_queued_thread is done.
AfterWake == IF WakeAll THEN "wPop" ELSE "wUnlock"

\* The head is taken off and wake_thread looks at its thread's slot: in range and
\* waiting? When it is not, the entry is gone all the same and nobody is woken.
wPop(t) ==
  /\ QAt(t, "wPop") /\ head # NoEntry
  /\ \E entry \in Contents(head) :
        LET id == entry[1]
            nx == entry[2]
        IN /\ head' = nx
           /\ tail' = IF nx = NoEntry THEN NoEntry ELSE tail
           /\ IF id \in Threads /\ state[id] = "WAITSLEEPJOIN"
              THEN QGoto(t, "wTest") /\ target' = [target EXCEPT ![t] = id]
              ELSE QGoto(t, AfterWake) /\ UNCHANGED target
  /\ count' = Decrement(count)
  /\ UNCHANGED <<threadVars, qlock, next, overran, smashed>>

\* Mutant: an empty queue makes for an early return, with the lock taken.
wEmpty_Returns(t) ==
  /\ QAt(t, "wPop") /\ head = NoEntry
  /\ QGoto(t, "idle")
  /\ UNCHANGED <<threadVars, head, tail, count, qlock, next, target, overran, smashed>>

wEmpty(t) ==
  /\ QAt(t, "wPop") /\ head = NoEntry
  /\ QGoto(t, "wUnlock")
  /\ UNCHANGED <<threadVars, head, tail, count, qlock, next, target, overran, smashed>>

\* wake_thread's second test; the thread of the slot may have run since the first.
wTest(t) ==
  /\ QAt(t, "wTest")
  /\ IF ~isUnderSheduling[target[t]]
     THEN QGoto(t, "wSetState") /\ UNCHANGED target
     ELSE QGoto(t, AfterWake) /\ target' = [target EXCEPT ![t] = NoThread]
  /\ UNCHANGED <<threadVars, head, tail, count, qlock, next, overran, smashed>>

\* wake_thread's two stores.
wSetState(t) ==
  /\ QAt(t, "wSetState")
  /\ state' = [state EXCEPT ![target[t]] = "RUNNING"]
  /\ QGoto(t, "wSetUnder")
  /\ UNCHANGED <<currThreadIndex, isUnderSheduling, head, tail, count, qlock, next,
                 target, overran, smashed>>

wSetUnder(t) ==
  /\ QAt(t, "wSetUnder")
  /\ isUnderSheduling' = [isUnderSheduling EXCEPT ![target[t]] = TRUE]
  /\ target' = [target EXCEPT ![t] = NoThread]
  /\ QGoto(t, AfterWake)
  /\ UNCHANGED <<currThreadIndex, state, head, tail, count, qlock, next, overran,
                 smashed>>

wUnlock(t) ==
  /\ QAt(t, "wUnlock")
  /\ qlock' = 0
  /\ QGoto(t, "idle")
  /\ UNCHANGED <<threadVars, head, tail, count, next, target, overran, smashed>>

-----------------------------------------------------------------------------
QueueStep(t) ==
  \/ qLock(t) \/ qLink(t) \/ qTail(t) \/ qUnlock(t)
  \/ pState(t) \/ pUnder(t) \/ pInt(t)
  \/ wLock(t) \/ wPop(t) \/ wEmpty(t) \/ wTest(t) \/ wSetState(t) \/ wSetUnder(t) \/ wUnlock(t)

-----------------------------------------------------------------------------
(* What the queue promises as long as no thread outruns its pause.         *)

\* Following k links from head.
Hop[k \in Nat] ==
  IF k = 0 THEN head
  ELSE IF Hop[k - 1] \in Threads THEN next[Hop[k - 1]] ELSE NoEntry

Linked == {Hop[k] : k \in 0 .. NumThreads} \ {NoEntry}

\* While its lock is free the queue is a list without repetition from head to
\* tail, as long as count says, of entries whose frames are still there, and of
\* no thread that could already return from its pause. Appending and taking off
\* keep it so however wakers and waiters are interleaved.
QueueWellFormed ==
  ~overran /\ qlock = 0 =>
     /\ head = NoEntry <=> tail = NoEntry
     /\ \A k \in 0 .. count - 1 : Framed(Hop[k])
     /\ \A j, k \in 0 .. count - 1 : Hop[j] = Hop[k] => j = k
     /\ Hop[count] = NoEntry
     /\ count > 0 => tail = Hop[count - 1]
     /\ \A t \in Linked : qpc[t] = "pInt" => ~isUnderSheduling[t]
=============================================================================
