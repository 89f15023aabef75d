----------------------------- MODULE Scheduler -----------------------------
(***************************************************************************)
(* The thread life cycle of threads.c under the preemptive round-robin     *)
(* scheduler: create_thread, th_main_func, sleep, queue_waiting_thread and *)
(* pause_curr_thread, wake_thread and change_thread, each cut where the    *)
(* timer may interrupt it between two loads or stores of what another      *)
(* thread or the scheduler can change or see.                              *)
(*                                                                         *)
(* Who calls what is left open: any thread may sleep, queue itself and     *)
(* pause, or wake at any time. Two things every caller in the repository   *)
(* respects are kept: only the main thread creates threads, and what       *)
(* wake_thread is called with is read from a queue's entry, which is taken *)
(* off under the queue's lock. The queues themselves are one flag for each *)
(* thread here (SleepQueue has them in full). Once a thread has outrun its *)
(* pause its entry dangles: from then on any of DanglingIds may be read.   *)
(***************************************************************************)
EXTENDS Threads

CONSTANTS
  SleepTimes,    \* the arguments sleep() is called with
  DanglingIds    \* the thread ids a waker may read where an entry has been

ASSUME SleepTimesAssumption == SleepTimes \subseteq Nat
ASSUME DanglingIdsAssumption == DanglingIds \subseteq Threads

VARIABLES
  threading_enabled,
  currThreadsCount,
  pc,       \* where each thread is; its saved context while it is suspended
  mills,    \* sleep's argument (0 outside sleep)
  i,        \* sleep's loop counter (0 outside sleep)
  queued,   \* queued[t]: some queue has an entry that names t (kept until overran)
  target,   \* wake_thread's argument (MainThread outside wake_thread)
  hung,     \* change_thread is spinning on a table with nobody to run
  skipped,  \* ghost: switches to other threads since t became schedulable,
            \*        counted up to NumThreads
  overran   \* ghost: some thread left pause_curr_thread without being woken

vars == <<currThreadIndex, isUnderSheduling, state, threading_enabled,
          currThreadsCount, pc, mills, i, queued, target, hung, skipped, overran>>

\* What only one operation touches, for the UNCHANGED of all the others.
sleepVars  == <<mills, i>>
wakeVars   == <<queued, target>>
bootVars   == <<threading_enabled, currThreadsCount>>
ghostVars  == <<skipped, overran>>

SleepLabels == {"sl_test", "sl_hlt", "sl_halted"}
PauseLabels == {"p_state", "p_under", "p_int"}
WakeLabels  == {"w_test", "w_test_under", "w_state", "w_under"}
BuildLabels == {"none", "slot"}            \* no context to switch to yet
Labels == {"init", "enable", "c_regs", "c_count", "start", "run", "th_stop", "stopped"}
          \cup SleepLabels \cup PauseLabels \cup WakeLabels \cup BuildLabels

Goto(t, label) == pc' = [pc EXCEPT ![t] = label]

\* A step of thread t: t is on the processor and not inside change_thread.
At(t, label) == Runs(t) /\ ~hung /\ pc[t] = label

\* The table as the image's zeroed memory has it: state 0 is WAITSLEEPJOIN.
Init ==
  /\ currThreadIndex = MainThread
  /\ isUnderSheduling = [t \in Threads |-> FALSE]
  /\ state = [t \in Threads |-> "WAITSLEEPJOIN"]
  /\ threading_enabled = FALSE
  /\ currThreadsCount = 1
  /\ pc = [t \in Threads |-> IF t = MainThread THEN "init" ELSE "none"]
  /\ mills = [t \in Threads |-> 0]
  /\ i = [t \in Threads |-> 0]
  /\ queued = [t \in Threads |-> FALSE]
  /\ target = [t \in Threads |-> MainThread]
  /\ hung = FALSE
  /\ skipped = [t \in Threads |-> 0]
  /\ overran = FALSE

-----------------------------------------------------------------------------
(* Start-up and thread creation, by the main thread.                       *)

init_main_thread ==
  /\ At(MainThread, "init")
  /\ isUnderSheduling' = [isUnderSheduling EXCEPT ![MainThread] = TRUE]
  /\ state' = [state EXCEPT ![MainThread] = "RUNNING"]
  /\ Goto(MainThread, "enable")
  /\ UNCHANGED <<currThreadIndex, bootVars, sleepVars, wakeVars, hung, ghostVars>>

threading_start ==
  /\ At(MainThread, "enable")
  /\ threading_enabled' = TRUE
  /\ Goto(MainThread, "run")
  /\ UNCHANGED <<threadVars, currThreadsCount, sleepVars, wakeVars, hung, ghostVars>>

\* Mutant: the count is raised before the frame is built.
create_slot_Published ==
  /\ At(MainThread, "run")
  /\ currThreadsCount < NumThreads
  /\ isUnderSheduling' = [isUnderSheduling EXCEPT ![currThreadsCount] = TRUE]
  /\ state' = [state EXCEPT ![currThreadsCount] = "UNSTARTED"]
  /\ pc' = [pc EXCEPT ![MainThread] = "c_regs", ![currThreadsCount] = "slot"]
  /\ currThreadsCount' = currThreadsCount + 1
  /\ UNCHANGED <<currThreadIndex, threading_enabled, sleepVars, wakeVars, hung, ghostVars>>

\* create_thread fills the slot past the last one in use ...
create_slot ==
  /\ At(MainThread, "run")
  /\ currThreadsCount < NumThreads      \* the bound on creations; the code has none
  /\ isUnderSheduling' = [isUnderSheduling EXCEPT ![currThreadsCount] = TRUE]
  /\ state' = [state EXCEPT ![currThreadsCount] = "UNSTARTED"]
  /\ pc' = [pc EXCEPT ![MainThread] = "c_regs", ![currThreadsCount] = "slot"]
  /\ UNCHANGED <<currThreadIndex, bootVars, sleepVars, wakeVars, hung, ghostVars>>

\* ... builds on its stack the frame the first switch to it returns through ...
create_regs ==
  /\ At(MainThread, "c_regs")
  /\ pc' = [pc EXCEPT ![MainThread] = "c_count", ![currThreadsCount] = "start"]
  /\ UNCHANGED <<threadVars, bootVars, sleepVars, wakeVars, hung, ghostVars>>

\* ... and only then lets change_thread count up to it.
create_count ==
  /\ At(MainThread, "c_count")
  /\ currThreadsCount' = currThreadsCount + 1
  /\ Goto(MainThread, "run")
  /\ UNCHANGED <<threadVars, threading_enabled, sleepVars, wakeVars, hung, ghostVars>>

-----------------------------------------------------------------------------
(* The life of a thread.                                                   *)

\* th_main_func until it calls startFunc.
th_begin(t) ==
  /\ At(t, "start")
  /\ state' = [state EXCEPT ![t] = "RUNNING"]
  /\ Goto(t, "run")
  /\ UNCHANGED <<currThreadIndex, isUnderSheduling, bootVars, sleepVars, wakeVars,
                 hung, ghostVars>>

\* startFunc returned: two stores, then a loop of hlt for ever.
th_leave(t) ==
  /\ At(t, "run") /\ t # MainThread
  /\ isUnderSheduling' = [isUnderSheduling EXCEPT ![t] = FALSE]
  /\ Goto(t, "th_stop")
  /\ skipped' = [skipped EXCEPT ![t] = 0]
  /\ UNCHANGED <<currThreadIndex, state, bootVars, sleepVars, wakeVars, hung, overran>>

th_stop(t) ==
  /\ At(t, "th_stop")
  /\ state' = [state EXCEPT ![t] = "STOPPED"]
  /\ Goto(t, "stopped")
  /\ UNCHANGED <<currThreadIndex, isUnderSheduling, bootVars, sleepVars, wakeVars,
                 hung, ghostVars>>

sleep(t) ==
  /\ At(t, "run")
  /\ \E m \in SleepTimes : mills' = [mills EXCEPT ![t] = m]
  /\ i' = [i EXCEPT ![t] = 0]
  /\ state' = [state EXCEPT ![t] = "WAITSLEEPJOIN"]
  /\ Goto(t, "sl_test")
  /\ UNCHANGED <<currThreadIndex, isUnderSheduling, bootVars, wakeVars, hung, ghostVars>>

\* The bound is divided anew, by the count of the moment, on every turn.
sleep_more(t) ==
  /\ At(t, "sl_test")
  /\ i[t] < mills[t] \div currThreadsCount
  /\ Goto(t, "sl_hlt")
  /\ UNCHANGED <<threadVars, bootVars, sleepVars, wakeVars, hung, ghostVars>>

\* An interrupt that comes before the hlt does not end it.
sleep_hlt(t) ==
  /\ At(t, "sl_hlt")
  /\ Goto(t, "sl_halted")
  /\ UNCHANGED <<threadVars, bootVars, sleepVars, wakeVars, hung, ghostVars>>

sleep_return(t) ==
  /\ At(t, "sl_test")
  /\ ~(i[t] < mills[t] \div currThreadsCount)
  /\ state' = [state EXCEPT ![t] = "RUNNING"]
  /\ mills' = [mills EXCEPT ![t] = 0]
  /\ i' = [i EXCEPT ![t] = 0]
  /\ Goto(t, "run")
  /\ UNCHANGED <<currThreadIndex, isUnderSheduling, bootVars, wakeVars, hung, ghostVars>>

\* queue_waiting_thread up to its call of pause_curr_thread.
queue_waiting_thread(t) ==
  /\ At(t, "run")
  /\ queued' = [queued EXCEPT ![t] = ~overran]
  /\ Goto(t, "p_state")
  /\ UNCHANGED <<threadVars, bootVars, sleepVars, target, hung, ghostVars>>

\* Mutant: the two stores of pause_curr_thread the other way round.
pause_state_UnderFirst(t) ==
  /\ At(t, "p_state")
  /\ isUnderSheduling' = [isUnderSheduling EXCEPT ![t] = FALSE]
  /\ skipped' = [skipped EXCEPT ![t] = 0]
  /\ Goto(t, "p_under")
  /\ UNCHANGED <<currThreadIndex, state, bootVars, sleepVars, wakeVars, hung, overran>>

\* pause_curr_thread: two stores and a breakpoint interrupt.
pause_state(t) ==
  /\ At(t, "p_state")
  /\ state' = [state EXCEPT ![t] = "WAITSLEEPJOIN"]
  /\ Goto(t, "p_under")
  /\ UNCHANGED <<currThreadIndex, isUnderSheduling, bootVars, sleepVars, wakeVars,
                 hung, ghostVars>>

pause_under(t) ==
  /\ At(t, "p_under")
  /\ isUnderSheduling' = [isUnderSheduling EXCEPT ![t] = FALSE]
  /\ skipped' = [skipped EXCEPT ![t] = 0]
  /\ Goto(t, "p_int")
  /\ UNCHANGED <<currThreadIndex, state, bootVars, sleepVars, wakeVars, hung, overran>>

\* int 3 prints a line and comes back: irq_handler switches on int 32 only.
pause_int(t) ==
  /\ At(t, "p_int")
  /\ Goto(t, "run")
  /\ overran' = (overran \/ ~isUnderSheduling[t])
  /\ queued' = [u \in Threads |-> queued[u] /\ ~overran']
  /\ UNCHANGED <<threadVars, bootVars, sleepVars, target, hung, skipped>>

-----------------------------------------------------------------------------
(* wake_thread(id).                                                        *)

\* Mutant: the entry stays in the queue.
wake_thread_KeepsEntry(t) ==
  /\ At(t, "run")
  /\ \E id \in Threads :
        /\ queued[id] \/ (overran /\ id \in DanglingIds)
        /\ target' = [target EXCEPT ![t] = id]
  /\ Goto(t, "w_test")
  /\ UNCHANGED <<threadVars, bootVars, sleepVars, queued, hung, ghostVars>>

\* wake_queued_thread(s) takes an entry off its queue and calls wake_thread.
wake_thread(t) ==
  /\ At(t, "run")
  /\ \E id \in Threads :
        /\ queued[id] \/ (overran /\ id \in DanglingIds)
        /\ queued' = [queued EXCEPT ![id] = FALSE]
        /\ target' = [target EXCEPT ![t] = id]
  /\ Goto(t, "w_test")
  /\ UNCHANGED <<threadVars, bootVars, sleepVars, hung, ghostVars>>

WakeReturns(t) == Goto(t, "run") /\ target' = [target EXCEPT ![t] = MainThread]

\* Its test reads the two fields of the slot one after the other, and the thread
\* of the slot may run in between.
wake_test(t) ==
  /\ At(t, "w_test")
  /\ IF target[t] < currThreadsCount /\ state[target[t]] = "WAITSLEEPJOIN"
     THEN Goto(t, "w_test_under") /\ UNCHANGED target
     ELSE WakeReturns(t)
  /\ UNCHANGED <<threadVars, bootVars, sleepVars, queued, hung, ghostVars>>

\* Mutant: whether the slot is off the scheduler is not asked.
wake_test_under_Skipped(t) ==
  /\ At(t, "w_test_under")
  /\ Goto(t, "w_state") /\ UNCHANGED target
  /\ UNCHANGED <<threadVars, bootVars, sleepVars, queued, hung, ghostVars>>

wake_test_under(t) ==
  /\ At(t, "w_test_under")
  /\ IF ~isUnderSheduling[target[t]]
     THEN Goto(t, "w_state") /\ UNCHANGED target
     ELSE WakeReturns(t)
  /\ UNCHANGED <<threadVars, bootVars, sleepVars, queued, hung, ghostVars>>

wake_state(t) ==
  /\ At(t, "w_state")
  /\ state' = [state EXCEPT ![target[t]] = "RUNNING"]
  /\ Goto(t, "w_under")
  /\ UNCHANGED <<currThreadIndex, isUnderSheduling, bootVars, sleepVars, wakeVars,
                 hung, ghostVars>>

wake_under(t) ==
  /\ At(t, "w_under")
  /\ isUnderSheduling' = [isUnderSheduling EXCEPT ![target[t]] = TRUE]
  /\ WakeReturns(t)
  /\ UNCHANGED <<currThreadIndex, state, bootVars, sleepVars, queued, hung, ghostVars>>

-----------------------------------------------------------------------------
(* Interrupts. Any of them ends the hlt of the thread it interrupts.       *)

\* Mutant: the turn that ended is not counted.
WakeFromHlt_Uncounted ==
  LET t == currThreadIndex IN
  IF pc[t] = "sl_halted" THEN Goto(t, "sl_test") /\ UNCHANGED i ELSE UNCHANGED <<pc, i>>

WakeFromHlt ==
  LET t == currThreadIndex IN
  IF pc[t] = "sl_halted"
  THEN /\ i' = [i EXCEPT ![t] = @ + 1]
       /\ Goto(t, "sl_test")
  ELSE UNCHANGED <<pc, i>>

\* The timer: irq_handler with int_no 32.
Tick ==
  /\ ~hung /\ threading_enabled
  /\ change_thread(currThreadsCount)
  /\ WakeFromHlt
  /\ skipped' = [t \in Threads |->
                   IF t < currThreadsCount /\ isUnderSheduling[t] /\ t # currThreadIndex'
                   THEN IF skipped[t] < NumThreads THEN skipped[t] + 1 ELSE skipped[t]
                   ELSE 0]
  /\ UNCHANGED <<isUnderSheduling, state, bootVars, mills, wakeVars, hung, overran>>

TickHangs ==
  /\ ~hung /\ threading_enabled
  /\ NobodySchedulable(currThreadsCount)
  /\ hung' = TRUE
  /\ UNCHANGED <<threadVars, bootVars, pc, sleepVars, wakeVars, ghostVars>>

\* Any other interrupt (the keyboard's), and the timer before threading_start.
OtherIrq ==
  /\ ~hung
  /\ pc[currThreadIndex] = "sl_halted"
  /\ WakeFromHlt
  /\ UNCHANGED <<threadVars, bootVars, mills, wakeVars, hung, ghostVars>>

-----------------------------------------------------------------------------
Boot == init_main_thread \/ threading_start

Create == create_slot \/ create_regs \/ create_count

ThreadStep(t) ==
  \/ th_begin(t) \/ th_leave(t) \/ th_stop(t)
  \/ sleep(t) \/ sleep_more(t) \/ sleep_hlt(t) \/ sleep_return(t)
  \/ queue_waiting_thread(t) \/ pause_state(t) \/ pause_under(t) \/ pause_int(t)
  \/ wake_thread(t) \/ wake_test(t) \/ wake_test_under(t) \/ wake_state(t) \/ wake_under(t)

Next ==
  \/ Boot \/ Create
  \/ \E t \in Threads : ThreadStep(t)
  \/ Tick \/ TickHangs \/ OtherIrq

\* The timer keeps firing, and a thread that is given a quantum over and over
\* executes an instruction of it in the end (the interrupt returns to the
\* thread before the next one arrives).
Fairness ==
  /\ WF_vars(Tick)
  /\ \A t \in Threads : SF_vars(ThreadStep(t))

Spec == Init /\ [][Next]_vars

FairSpec == Spec /\ Fairness

-----------------------------------------------------------------------------
(* Properties.                                                             *)

\* Every variable keeps to its type, and the thread on the processor is always a
\* slot in use, however the count grows under change_thread.
TypeOK ==
  /\ ThreadsTypeOK
  /\ threading_enabled \in BOOLEAN
  /\ currThreadsCount \in 1 .. NumThreads
  /\ currThreadIndex < currThreadsCount
  /\ pc \in [Threads -> Labels]
  /\ mills \in [Threads -> Nat]
  /\ i \in [Threads -> Nat]
  /\ queued \in [Threads -> BOOLEAN]
  /\ target \in [Threads -> Threads]
  /\ hung \in BOOLEAN
  /\ skipped \in [Threads -> 0 .. NumThreads]
  /\ overran \in BOOLEAN

\* change_thread never switches to a slot create_thread is still filling: its
\* stack pointer and first frame are there before the count lets it be selected,
\* however the timer falls between create_thread's stores.
DispatchedIsBuilt == pc[currThreadIndex] \notin BuildLabels

\* Round robin: while a thread can be selected, fewer switches go to others than
\* there are threads, although slots are added and threads come and go meanwhile.
BoundedBypass == \A t \in Threads : t < currThreadsCount => skipped[t] < currThreadsCount

\* A finished thread stays STOPPED: a waker that was interrupted between its two
\* tests of the slot, or between them and its stores, does not bring it back. It
\* is the entry's being taken off that makes it so, not the tests. (Not so once a
\* thread has outrun its pause: its entry names it when it has moved on.)
StoppedIsFinal ==
  [][~overran => \A t \in Threads : state[t] = "STOPPED" => state'[t] = "STOPPED"]_vars

\* sleep() and a paused thread share the state WAITSLEEPJOIN. No waker takes one
\* for the other: the state of a thread inside sleep() is its own.
SleeperUndisturbed ==
  [][~overran =>
        \A t \in Threads :
           pc[t] \in SleepLabels /\ pc'[t] \in SleepLabels => state'[t] = state[t]]_vars

\* A thread inside pause_curr_thread can be woken as soon as it can no longer be
\* selected: it is marked WAITSLEEPJOIN, unless a waker is between its two stores.
\* What makes it so is the order of the stores in pause_curr_thread and wake_thread.
\* (Not so once a thread has outrun its pause: it may be woken out of one pause
\* when it is already between the two stores of the next.)
PausedIsWakeable ==
  ~overran =>
  \A t \in Threads :
     pc[t] = "p_int" /\ ~isUnderSheduling[t]
        => \/ state[t] = "WAITSLEEPJOIN"
           \/ \E u \in Threads : pc[u] = "w_under" /\ target[u] = t

\* Whoever may be selected is selected in the end, or leaves the scheduler's hands.
EventuallyDispatched ==
  \A t \in Threads :
     (threading_enabled /\ t < currThreadsCount /\ isUnderSheduling[t])
        ~> (currThreadIndex = t \/ ~isUnderSheduling[t])

\* sleep() returns, whatever the other threads do and however their number grows.
SleepEnds ==
  \A t \in Threads :
     (pc[t] \in SleepLabels /\ isUnderSheduling[t]) ~> (pc[t] = "run")
=============================================================================
