--------------------------- MODULE ThreadsProofs ---------------------------
(***************************************************************************)
(* Proofs about the two components that use the thread table and nothing   *)
(* else: Scheduler, for every number of threads and every sleeping time,   *)
(* and AutoResetEvent, for every number of threads and calls.              *)
(*                                                                         *)
(* Three invariants beside the types carry the scheduler's:                *)
(*   BuildInv   which slots have a context, and how far create_thread is;  *)
(*   BypassInv  a thread that waits for the processor has been passed over *)
(*              at most as often as the index has moved towards it;        *)
(*   PauseInv   until a thread outruns its pause, whoever has an entry or  *)
(*              a waker is inside its pause, has only one of them, and is  *)
(*              frozen there while the waker stores to its slot.           *)
(* The event's invariant counts what the sets called so far can still      *)
(* give: a set that is in progress one pass, a set event one pass.         *)
(***************************************************************************)
EXTENDS Scheduler, AutoResetEvent, FiniteSetTheorems, TLAPS

\* Slots in use have a context; the one being created is at the head of the rest.
BuildInv ==
  /\ pc[MainThread] \in {"init", "enable"} => currThreadsCount = 1
  /\ pc[MainThread] = "c_regs" =>
        currThreadsCount < NumThreads /\ pc[currThreadsCount] = "slot"
  /\ pc[MainThread] = "c_count" =>
        currThreadsCount < NumThreads /\ pc[currThreadsCount] = "start"
  /\ \A t \in Threads : t < currThreadsCount => pc[t] \notin BuildLabels
  /\ \A t \in Threads : t >= currThreadsCount => pc[t] \in BuildLabels \cup {"start"}

\* How far the index has to count, modulo count, from slot c to reach slot t.
Distance(c, t, count) == IF c <= t THEN t - c ELSE t - c + count

Hops(c, t) == Distance(c, t, currThreadsCount)

BypassInv ==
  \A t \in Threads :
     IF t < currThreadsCount /\ isUnderSheduling[t] /\ t # currThreadIndex
     THEN skipped[t] + Hops(currThreadIndex, t) <= currThreadsCount
     ELSE skipped[t] = 0

\* A waker that has passed its range test has a slot in use before it.
WakeInv ==
  \A u \in Threads :
     pc[u] \in {"w_test_under", "w_state", "w_under"} => target[u] < currThreadsCount

StoppedInv == \A t \in Threads : state[t] = "STOPPED" => pc[t] = "stopped"

Pausing(t) == pc[t] \in PauseLabels
Waking(u)  == pc[u] \in WakeLabels

PauseInv ==
  ~overran =>
     /\ \A t \in Threads :
           pc[t] \notin {"none", "init", "p_int", "th_stop", "stopped"} => isUnderSheduling[t]
     /\ \A t \in Threads : pc[t] = "p_under" => state[t] = "WAITSLEEPJOIN"
     /\ \A t \in Threads : queued[t] => Pausing(t)
     /\ \A u \in Threads : Waking(u) => Pausing(target[u]) /\ ~queued[target[u]]
     /\ \A u, v \in Threads : Waking(u) /\ Waking(v) /\ target[u] = target[v] => u = v
     /\ \A u \in Threads :
           pc[u] \in {"w_state", "w_under"} =>
              pc[target[u]] = "p_int" /\ ~isUnderSheduling[target[u]]
     /\ \A t \in Threads :
           pc[t] = "p_int" /\ isUnderSheduling[t] =>
              ~queued[t] /\ \A u \in Threads : Waking(u) => target[u] # t

IInv ==
  TypeOK /\ BuildInv /\ BypassInv /\ WakeInv /\ StoppedInv /\ PauseInv /\ PausedIsWakeable

-----------------------------------------------------------------------------

LEMMA ThreadFacts ==
  /\ Threads = 0 .. NumThreads - 1 /\ NumThreads \in Nat /\ NumThreads > 0
  /\ MainThread = 0 /\ MainThread \in Threads
  /\ \A t \in Threads : t \in Nat /\ t < NumThreads
BY NumThreadsAssumption DEF Threads, MainThread


LEMMA LabelFacts ==
  /\ {"init", "enable", "c_regs", "c_count", "start", "run", "p_under", "p_int",
      "th_stop", "stopped", "none", "slot"} \subseteq Labels
  /\ {"sl_test", "sl_hlt", "sl_halted"} \subseteq Labels
  /\ {"p_state", "w_test", "w_test_under", "w_state", "w_under"} \subseteq Labels
  /\ {"WAITSLEEPJOIN", "RUNNING", "UNSTARTED", "STOPPED"} \subseteq ThreadStates
BY DEF Labels, BuildLabels, SleepLabels, PauseLabels, WakeLabels, ThreadStates

LEMMA PcTyped ==
  ASSUME pc \in [Threads -> Labels], NEW t, NEW label \in Labels, Goto(t, label)
  PROVE  pc' \in [Threads -> Labels]
BY DEF Goto

LEMMA ResetTyped ==
  ASSUME skipped \in [Threads -> 0 .. NumThreads], NEW t, skipped' = [skipped EXCEPT ![t] = 0]
  PROVE  skipped' \in [Threads -> 0 .. NumThreads]
<1>1. 0 \in 0 .. NumThreads
  BY NumThreadsAssumption
<1> DEFINE R == 0 .. NumThreads
<1> HIDE DEF R
<1>2. skipped \in [Threads -> R] /\ 0 \in R
  BY <1>1 DEF R
<1>3. skipped' \in [Threads -> R]
  BY <1>2
<1> QED
  BY <1>3 DEF R

LEMMA CountedTyped ==
  ASSUME NEW n \in 0 .. NumThreads
  PROVE  (IF n < NumThreads THEN n + 1 ELSE n) \in 0 .. NumThreads /\ 0 \in 0 .. NumThreads
BY NumThreadsAssumption

LEMMA TurnTyped ==
  ASSUME i \in [Threads -> Nat], NEW t \in Threads, i' = [i EXCEPT ![t] = @ + 1]
  PROVE  i' \in [Threads -> Nat]
OBVIOUS

LEMMA InitInv == Init => IInv
<1> SUFFICES ASSUME Init PROVE IInv
  OBVIOUS
<1>1. TypeOK
  <2>1. ThreadsTypeOK
    BY ThreadFacts, LabelFacts DEF Init, ThreadsTypeOK
  <2>2. pc \in [Threads -> Labels] /\ target \in [Threads -> Threads]
    BY ThreadFacts, LabelFacts DEF Init
  <2>3. skipped \in [Threads -> 0 .. NumThreads] /\ currThreadsCount \in 1 .. NumThreads
    BY ThreadFacts DEF Init
  <2>4. mills \in [Threads -> Nat] /\ i \in [Threads -> Nat]
    BY DEF Init
  <2>5. currThreadIndex < currThreadsCount
    BY ThreadFacts DEF Init
  <2> QED
    BY <2>1, <2>2, <2>3, <2>4, <2>5 DEF Init, TypeOK
<1>2. BuildInv
  BY ThreadFacts DEF Init, BuildInv, BuildLabels
<1>3. BypassInv /\ WakeInv /\ StoppedInv
  BY ThreadFacts DEF Init, BypassInv, WakeInv, StoppedInv
<1>4. PauseInv /\ PausedIsWakeable
  BY ThreadFacts DEF Init, PauseInv, Waking, Pausing, WakeLabels, PausedIsWakeable
<1> QED
  BY <1>1, <1>2, <1>3, <1>4 DEF IInv

-----------------------------------------------------------------------------
(* Types.                                                                  *)

LEMMA BootTyped == TypeOK /\ BuildInv /\ (Boot \/ Create) => TypeOK'
<1> SUFFICES ASSUME TypeOK, BuildInv, Boot \/ Create PROVE TypeOK'
  OBVIOUS
<1> USE ThreadFacts, LabelFacts DEF TypeOK, ThreadsTypeOK, threadVars, bootVars, sleepVars, wakeVars,
                                    ghostVars, Goto, At
<1>1. CASE init_main_thread
  BY <1>1 DEF init_main_thread
<1>2. CASE threading_start
  BY <1>2 DEF threading_start
<1>3. CASE create_slot
  BY <1>3 DEF create_slot
<1>4. CASE create_regs
  BY <1>4 DEF create_regs
<1>5. CASE create_count
  <2>1. currThreadsCount < NumThreads
    BY <1>5 DEF create_count, BuildInv
  <2>2. currThreadsCount' \in 1 .. NumThreads /\ currThreadIndex' < currThreadsCount'
    BY <1>5, <2>1 DEF create_count
  <2>3. pc' \in [Threads -> Labels]
    BY <1>5, PcTyped DEF create_count
  <2> QED
    BY <1>5, <2>2, <2>3 DEF create_count
<1> QED
  BY <1>1, <1>2, <1>3, <1>4, <1>5 DEF Boot, Create

LEMMA ThreadStepTyped ==
  ASSUME TypeOK, NEW t \in Threads, ThreadStep(t)
  PROVE  TypeOK'
<1> USE ThreadFacts, LabelFacts DEF TypeOK, ThreadsTypeOK, threadVars, bootVars, sleepVars, wakeVars,
                                    ghostVars, Goto, At
<1>1. CASE th_begin(t)
  BY <1>1 DEF th_begin
<1>2. CASE th_leave(t)
  BY <1>2, ResetTyped DEF th_leave
<1>3. CASE th_stop(t)
  BY <1>3 DEF th_stop
<1>4. CASE sleep(t)
  <2>1. mills' \in [Threads -> Nat]
    BY <1>4, SleepTimesAssumption DEF sleep
  <2>2. i' \in [Threads -> Nat] /\ pc' \in [Threads -> Labels]
    BY <1>4, PcTyped DEF sleep
  <2> QED
    BY <1>4, <2>1, <2>2 DEF sleep
<1>5. CASE sleep_more(t) \/ sleep_hlt(t)
  <2>1. pc' \in [Threads -> Labels]
    BY <1>5, PcTyped DEF sleep_more, sleep_hlt
  <2> QED
    BY <1>5, <2>1 DEF sleep_more, sleep_hlt
<1>6. CASE sleep_return(t)
  BY <1>6 DEF sleep_return
<1>7. CASE queue_waiting_thread(t)
  BY <1>7 DEF queue_waiting_thread
<1>8. CASE pause_state(t)
  BY <1>8 DEF pause_state
<1>9. CASE pause_under(t)
  BY <1>9, ResetTyped DEF pause_under
<1>10. CASE pause_int(t)
  <2>1. overran' \in BOOLEAN
    BY <1>10 DEF pause_int
  <2>2. queued' \in [Threads -> BOOLEAN]
    BY <1>10, <2>1 DEF pause_int
  <2>3. pc' \in [Threads -> Labels]
    BY <1>10, PcTyped DEF pause_int
  <2> QED
    BY <1>10, <2>1, <2>2, <2>3 DEF pause_int
<1>11. CASE wake_thread(t)
  <2>1. PICK id \in Threads : /\ target' = [target EXCEPT ![t] = id]
                             /\ queued' = [queued EXCEPT ![id] = FALSE]
    BY <1>11 DEF wake_thread
  <2>2. pc' \in [Threads -> Labels]
    BY <1>11, PcTyped DEF wake_thread
  <2> QED
    BY <1>11, <2>1, <2>2 DEF wake_thread
<1>12. CASE wake_test(t) \/ wake_test_under(t)
  <2>1. target' \in [Threads -> Threads]
    BY <1>12 DEF wake_test, wake_test_under, WakeReturns
  <2>2. Goto(t, "w_test_under") \/ Goto(t, "w_state") \/ Goto(t, "run")
    BY <1>12 DEF wake_test, wake_test_under, WakeReturns
  <2>3. pc' \in [Threads -> Labels]
    BY <2>2, PcTyped
  <2> QED
    BY <1>12, <2>1, <2>3 DEF wake_test, wake_test_under
<1>13. CASE wake_state(t)
  BY <1>13 DEF wake_state
<1>14. CASE wake_under(t)
  BY <1>14 DEF wake_under, WakeReturns
<1> QED
  BY <1>1, <1>2, <1>3, <1>4, <1>5, <1>6, <1>7, <1>8, <1>9, <1>10, <1>11, <1>12, <1>13, <1>14
     DEF ThreadStep

LEMMA IrqTyped == TypeOK /\ (Tick \/ TickHangs \/ OtherIrq) => TypeOK'
<1> SUFFICES ASSUME TypeOK, Tick \/ TickHangs \/ OtherIrq PROVE TypeOK'
  OBVIOUS
<1> USE ThreadFacts DEF TypeOK, ThreadsTypeOK, threadVars, bootVars, sleepVars, wakeVars,
                            ghostVars
<1>1. WakeFromHlt => pc' \in [Threads -> Labels] /\ i' \in [Threads -> Nat]
  <2> SUFFICES ASSUME WakeFromHlt PROVE pc' \in [Threads -> Labels] /\ i' \in [Threads -> Nat]
    OBVIOUS
  <2>1. CASE pc[currThreadIndex] = "sl_halted"
    <3>1. Goto(currThreadIndex, "sl_test") /\ i' = [i EXCEPT ![currThreadIndex] = @ + 1]
      BY <2>1 DEF WakeFromHlt
    <3>2. i' \in [Threads -> Nat]
      BY <3>1, TurnTyped
    <3> QED
      BY <3>1, <3>2, LabelFacts, PcTyped
  <2>2. CASE pc[currThreadIndex] # "sl_halted"
    BY <2>2 DEF WakeFromHlt
  <2> QED
    BY <2>1, <2>2
<1>2. CASE Tick
  <2>1. currThreadIndex' \in Threads /\ currThreadIndex' < currThreadsCount
    BY <1>2 DEF Tick, change_thread
  <2>2. skipped' \in [Threads -> 0 .. NumThreads]
    <3>1. ASSUME NEW t \in Threads
          PROVE  /\ (IF skipped[t] < NumThreads THEN skipped[t] + 1 ELSE skipped[t])
                       \in 0 .. NumThreads
                 /\ 0 \in 0 .. NumThreads
      BY <3>1, CountedTyped
    <3> QED
      BY <1>2, <3>1 DEF Tick
  <2> QED
    BY <1>1, <1>2, <2>1, <2>2 DEF Tick
<1>3. CASE TickHangs
  BY <1>3 DEF TickHangs
<1>4. CASE OtherIrq
  BY <1>1, <1>4 DEF OtherIrq
<1> QED
  BY <1>2, <1>3, <1>4

-----------------------------------------------------------------------------
(* What slots have a context.                                              *)

MoveLabels ==
  {"run", "th_stop", "stopped"} \cup SleepLabels \cup PauseLabels \cup WakeLabels

\* A thread's own steps move it among the labels of a running thread.
LEMMA ThreadStepMoves ==
  ASSUME NEW t \in Threads, ThreadStep(t)
  PROVE  /\ t = currThreadIndex
         /\ UNCHANGED bootVars
         /\ \E l \in MoveLabels : Goto(t, l)
<1> USE DEF MoveLabels, SleepLabels, PauseLabels, WakeLabels, At, Runs
<1>1. CASE th_begin(t) \/ th_leave(t) \/ th_stop(t)
  BY <1>1 DEF th_begin, th_leave, th_stop
<1>2. CASE sleep(t) \/ sleep_more(t) \/ sleep_hlt(t) \/ sleep_return(t)
  BY <1>2 DEF sleep, sleep_more, sleep_hlt, sleep_return
<1>3. CASE queue_waiting_thread(t) \/ pause_state(t) \/ pause_under(t) \/ pause_int(t)
  BY <1>3 DEF queue_waiting_thread, pause_state, pause_under, pause_int
<1>4. CASE wake_thread(t) \/ wake_state(t) \/ wake_under(t)
  BY <1>4 DEF wake_thread, wake_state, wake_under, WakeReturns
<1>5. CASE wake_test(t) \/ wake_test_under(t)
  BY <1>5 DEF wake_test, wake_test_under, WakeReturns
<1> QED
  BY <1>1, <1>2, <1>3, <1>4, <1>5 DEF ThreadStep

LEMMA MoveKeepsBuild ==
  ASSUME TypeOK, BuildInv, UNCHANGED bootVars, NEW l \in MoveLabels, Goto(currThreadIndex, l)
  PROVE  BuildInv'
<1>1. currThreadIndex \in Threads /\ currThreadIndex < currThreadsCount
      /\ currThreadsCount' = currThreadsCount /\ currThreadsCount \in 1 .. NumThreads
  BY DEF TypeOK, ThreadsTypeOK, bootVars
<1>2. \A t \in Threads : pc'[t] = IF t = currThreadIndex THEN l ELSE pc[t]
  BY DEF Goto, TypeOK
<1>3. l \notin BuildLabels /\ l \notin {"init", "enable", "c_regs", "c_count"}
  BY DEF MoveLabels, SleepLabels, PauseLabels, WakeLabels, BuildLabels
<1>4. pc'[MainThread] \in {"init", "enable", "c_regs", "c_count"} => pc'[MainThread] = pc[MainThread]
  BY <1>2, <1>3, ThreadFacts
<1>5. currThreadsCount < NumThreads => pc'[currThreadsCount] = pc[currThreadsCount]
  BY <1>1, <1>2, ThreadFacts
<1> QED
  BY <1>1, <1>2, <1>3, <1>4, <1>5, ThreadFacts DEF BuildInv

LEMMA BuildKept == TypeOK /\ BuildInv /\ [Next]_vars => BuildInv'
<1> SUFFICES ASSUME TypeOK, BuildInv, [Next]_vars PROVE BuildInv'
  OBVIOUS
<1>0. /\ pc \in [Threads -> Labels] /\ currThreadsCount \in 1 .. NumThreads
      /\ currThreadIndex \in Threads /\ currThreadIndex < currThreadsCount
  BY DEF TypeOK, ThreadsTypeOK
<1>1. CASE Boot
  BY <1>0, <1>1, ThreadFacts
     DEF Boot, init_main_thread, threading_start, BuildInv, BuildLabels, bootVars, At, Goto
<1>2. CASE create_slot
  <2>1. currThreadsCount \in Threads /\ currThreadsCount # MainThread
    BY <1>0, <1>2, ThreadFacts DEF create_slot
  <2> QED
    BY <1>0, <1>2, <2>1, ThreadFacts DEF create_slot, BuildInv, BuildLabels, bootVars, At
<1>3. CASE create_regs
  <2>1. currThreadsCount \in Threads /\ currThreadsCount # MainThread
    BY <1>0, <1>3, ThreadFacts DEF create_regs, BuildInv, At
  <2> QED
    BY <1>0, <1>3, <2>1, ThreadFacts DEF create_regs, BuildInv, BuildLabels, bootVars, At
<1>4. CASE create_count
  <2>1. currThreadsCount \in Threads /\ currThreadsCount # MainThread
    BY <1>0, <1>4, ThreadFacts DEF create_count, BuildInv, At
  <2> QED
    BY <1>0, <1>4, <2>1, ThreadFacts DEF create_count, BuildInv, BuildLabels, At, Goto
<1>5. ASSUME NEW t \in Threads, ThreadStep(t)
      PROVE  BuildInv'
  BY <1>5, ThreadStepMoves, MoveKeepsBuild
<1>6. ASSUME UNCHANGED <<pc, bootVars>>
      PROVE  BuildInv'
  BY <1>6 DEF BuildInv, bootVars
<1>7. CASE Tick \/ OtherIrq
  <2>1. UNCHANGED bootVars
    BY <1>7 DEF Tick, OtherIrq
  <2>2. UNCHANGED pc \/ Goto(currThreadIndex, "sl_test")
    BY <1>7 DEF Tick, OtherIrq, WakeFromHlt
  <2>3. "sl_test" \in MoveLabels
    BY DEF MoveLabels, SleepLabels
  <2> QED
    BY <1>6, <2>1, <2>2, <2>3, MoveKeepsBuild
<1>8. CASE TickHangs \/ UNCHANGED vars
  BY <1>6, <1>8 DEF TickHangs, vars, bootVars
<1> QED
  BY <1>1, <1>2, <1>3, <1>4, <1>5, <1>7, <1>8 DEF Next, Create

-----------------------------------------------------------------------------
(* Round robin.                                                            *)

LEMMA DistanceBound ==
  ASSUME NEW m \in Nat, NEW c \in 0 .. m - 1, NEW t \in 0 .. m - 1
  PROVE  Distance(c, t, m) \in 0 .. m - 1 /\ (c # t => Distance(c, t, m) > 0)
BY DEF Distance

LEMMA DistanceShrinks ==
  ASSUME NEW m \in Nat, NEW c \in 0 .. m - 1, NEW n \in 0 .. m - 1, NEW t \in 0 .. m - 1,
         t \notin Between(c, n, m), t # n, t # c
  PROVE  Distance(n, t, m) < Distance(c, t, m)
<1>1. ~(IF c < n THEN c < t /\ t < n ELSE c < t \/ t < n)
  BY DEF Between
<1> QED
  BY <1>1 DEF Distance

\* A switch that passes t by brings the index nearer to t, unless it came from t.
LEMMA SwitchApproaches ==
  ASSUME TypeOK, change_thread(currThreadsCount), NEW t \in Threads,
         t < currThreadsCount, isUnderSheduling[t], t # currThreadIndex'
  PROVE  /\ t # currThreadIndex => Hops(currThreadIndex', t) < Hops(currThreadIndex, t)
         /\ Hops(currThreadIndex', t) < currThreadsCount
<1>1. /\ currThreadIndex \in 0 .. currThreadsCount - 1
      /\ currThreadIndex' \in 0 .. currThreadsCount - 1
      /\ t \in 0 .. currThreadsCount - 1 /\ currThreadsCount \in Nat
  BY ThreadFacts DEF TypeOK, ThreadsTypeOK, change_thread
<1>2. t \notin Between(currThreadIndex, currThreadIndex', currThreadsCount)
  BY DEF change_thread
<1>3. Distance(currThreadIndex', t, currThreadsCount) \in 0 .. currThreadsCount - 1
  BY <1>1, DistanceBound
<1>4. t # currThreadIndex =>
         Distance(currThreadIndex', t, currThreadsCount) < Distance(currThreadIndex, t, currThreadsCount)
  BY <1>1, <1>2, DistanceShrinks
<1> QED
  BY <1>1, <1>3, <1>4 DEF Hops

LEMMA TickKeepsBypass == TypeOK /\ BypassInv /\ Tick => BypassInv'
<1> SUFFICES ASSUME TypeOK, BypassInv, Tick, NEW t \in Threads
             PROVE  IF t < currThreadsCount' /\ isUnderSheduling'[t] /\ t # currThreadIndex'
                    THEN skipped'[t] + Hops(currThreadIndex, t)' <= currThreadsCount'
                    ELSE skipped'[t] = 0
  BY DEF BypassInv
<1>1. UNCHANGED <<isUnderSheduling, currThreadsCount>>
  BY DEF Tick, bootVars
<1>2. CASE ~(t < currThreadsCount /\ isUnderSheduling[t] /\ t # currThreadIndex')
  BY <1>1, <1>2 DEF Tick
<1>3. CASE t < currThreadsCount /\ isUnderSheduling[t] /\ t # currThreadIndex'
  <2>0. skipped[t] \in 0 .. NumThreads
    BY DEF TypeOK
  <2>1. skipped[t] \in Int /\ skipped'[t] \in Int /\ skipped'[t] <= skipped[t] + 1
    <3>1. skipped'[t] = IF skipped[t] < NumThreads THEN skipped[t] + 1 ELSE skipped[t]
      BY <1>3 DEF Tick
    <3> QED
      BY <2>0, <3>1, NumThreadsAssumption
  <2>2. /\ t # currThreadIndex => Hops(currThreadIndex', t) < Hops(currThreadIndex, t)
        /\ Hops(currThreadIndex', t) < currThreadsCount
    BY <1>3, SwitchApproaches DEF Tick
  <2>3. IF t = currThreadIndex THEN skipped[t] = 0
        ELSE skipped[t] + Hops(currThreadIndex, t) <= currThreadsCount
    BY <1>3 DEF BypassInv
  <2>4. Hops(currThreadIndex, t)' = Hops(currThreadIndex', t)
    BY <1>1 DEF Hops
  <2>5. Hops(currThreadIndex', t) \in Int /\ Hops(currThreadIndex, t) \in Int
        /\ currThreadsCount \in Int
    BY ThreadFacts DEF Hops, Distance, TypeOK, ThreadsTypeOK, Tick, change_thread
  <2> QED
    BY <1>1, <1>3, <2>1, <2>2, <2>3, <2>4, <2>5
<1> QED
  BY <1>2, <1>3

LEMMA BypassKept == TypeOK /\ BuildInv /\ BypassInv /\ WakeInv /\ [Next]_vars => BypassInv'
<1> SUFFICES ASSUME TypeOK, BuildInv, BypassInv, WakeInv, [Next]_vars PROVE BypassInv'
  OBVIOUS
<1>0. /\ isUnderSheduling \in [Threads -> BOOLEAN]
      /\ currThreadIndex \in Threads /\ currThreadIndex < currThreadsCount
      /\ currThreadsCount \in 1 .. NumThreads
      /\ skipped \in [Threads -> 0 .. NumThreads]
      /\ target \in [Threads -> Threads]
  BY DEF TypeOK, ThreadsTypeOK
<1>1. ASSUME UNCHANGED <<currThreadIndex, isUnderSheduling, currThreadsCount, skipped>>
      PROVE  BypassInv'
  BY <1>1 DEF BypassInv, Hops, Distance
<1>2. CASE init_main_thread
  BY <1>0, <1>2, ThreadFacts
     DEF init_main_thread, At, Runs, BypassInv, Hops, Distance, bootVars, ghostVars
<1>3. CASE create_slot
  <2>1. /\ UNCHANGED <<currThreadIndex, currThreadsCount, skipped>>
        /\ isUnderSheduling' = [isUnderSheduling EXCEPT ![currThreadsCount] = TRUE]
    BY <1>3 DEF create_slot, bootVars, ghostVars
  <2>2. \A t \in Threads : t < currThreadsCount => t # currThreadsCount
    BY <1>0, ThreadFacts
  <2>3. \A t \in Threads : t < currThreadsCount => isUnderSheduling'[t] = isUnderSheduling[t]
    BY <1>0, <2>1, <2>2
  <2> QED
    BY <2>1, <2>3 DEF BypassInv, Hops
<1>4. CASE create_count
  <2>1. currThreadIndex = 0 /\ currThreadsCount' = currThreadsCount + 1
        /\ UNCHANGED <<currThreadIndex, isUnderSheduling, skipped>>
    BY <1>4, ThreadFacts DEF create_count, At, Runs, threadVars, ghostVars
  <2>2. ASSUME NEW t \in Threads
        PROVE  Hops(currThreadIndex, t) = t /\ Hops(currThreadIndex, t)' = t
    BY <2>1, ThreadFacts DEF Hops, Distance
  <2>3. SUFFICES ASSUME NEW t \in Threads
                 PROVE  IF t < currThreadsCount' /\ isUnderSheduling[t] /\ t # currThreadIndex
                        THEN skipped[t] + t <= currThreadsCount'
                        ELSE skipped[t] = 0
    BY <2>1, <2>2 DEF BypassInv
  <2>4. IF t < currThreadsCount /\ isUnderSheduling[t] /\ t # currThreadIndex
        THEN skipped[t] + t <= currThreadsCount
        ELSE skipped[t] = 0
    BY <2>2 DEF BypassInv
  <2>5. skipped[t] \in Int /\ t \in Int /\ currThreadsCount \in Int
    BY <1>0, ThreadFacts
  <2> QED
    BY <2>1, <2>4, <2>5
<1>5. ASSUME NEW t \in Threads, th_leave(t) \/ pause_under(t)
      PROVE  BypassInv'
  <2>1. /\ t = currThreadIndex /\ UNCHANGED <<currThreadIndex, currThreadsCount>>
        /\ isUnderSheduling' = [isUnderSheduling EXCEPT ![t] = FALSE]
        /\ skipped' = [skipped EXCEPT ![t] = 0]
    BY <1>5 DEF th_leave, pause_under, At, Runs, bootVars
  <2> QED
    BY <1>0, <2>1 DEF BypassInv, Hops, Distance
<1>6. ASSUME NEW t \in Threads, wake_under(t)
      PROVE  BypassInv'
  <2>1. /\ UNCHANGED <<currThreadIndex, currThreadsCount, skipped>>
        /\ isUnderSheduling' = [isUnderSheduling EXCEPT ![target[t]] = TRUE]
    BY <1>6 DEF wake_under, bootVars, ghostVars
  <2>2. target[t] \in Threads /\ target[t] < currThreadsCount
    BY <1>0, <1>6 DEF wake_under, At, WakeInv
  <2>3. CASE isUnderSheduling[target[t]]
    <3>1. UNCHANGED isUnderSheduling
      BY <1>0, <2>1, <2>2, <2>3
    <3> QED
      BY <1>1, <2>1, <3>1
  <2>10. SUFFICES ASSUME ~isUnderSheduling[target[t]] PROVE BypassInv'
    BY <2>3
  <2>11. skipped[target[t]] = 0
    BY <2>2, <2>10 DEF BypassInv
  <2>4. Hops(currThreadIndex, target[t]) \in Int
        /\ Hops(currThreadIndex, target[t]) <= currThreadsCount
    <3>1. /\ currThreadsCount \in Nat /\ currThreadIndex \in 0 .. currThreadsCount - 1
          /\ target[t] \in 0 .. currThreadsCount - 1
      BY <1>0, <2>2, ThreadFacts
    <3> QED
      BY <3>1, DistanceBound DEF Hops
  <2>5. ASSUME NEW u \in Threads
        PROVE  Hops(currThreadIndex, u)' = Hops(currThreadIndex, u)
    BY <2>1 DEF Hops
  <2>6. SUFFICES ASSUME NEW u \in Threads
                 PROVE  IF /\ u < currThreadsCount /\ isUnderSheduling'[u]
                           /\ u # currThreadIndex
                        THEN skipped[u] + Hops(currThreadIndex, u) <= currThreadsCount
                        ELSE skipped[u] = 0
    BY <2>1, <2>5 DEF BypassInv
  <2>7. CASE u = target[t]
    BY <1>0, <2>11, <2>4, <2>7
  <2>8. CASE u # target[t]
    BY <1>0, <2>1, <2>8 DEF BypassInv
  <2> QED
    BY <2>7, <2>8
<1>7. ASSUME NEW t \in Threads, ThreadStep(t), ~th_leave(t), ~pause_under(t), ~wake_under(t)
      PROVE  BypassInv'
  <2>1. UNCHANGED <<currThreadIndex, isUnderSheduling, currThreadsCount, skipped>>
    BY <1>7 DEF ThreadStep, th_begin, th_stop, sleep, sleep_more, sleep_hlt, sleep_return,
                queue_waiting_thread, pause_state, pause_int, wake_thread, wake_test,
                wake_test_under, wake_state, threadVars, bootVars, ghostVars
  <2> QED
    BY <1>1, <2>1
<1>8. CASE threading_start \/ create_regs \/ TickHangs \/ OtherIrq \/ UNCHANGED vars
  BY <1>1, <1>8
     DEF threading_start, create_regs, TickHangs, OtherIrq, vars, threadVars, bootVars, ghostVars
<1> QED
  BY <1>2, <1>3, <1>4, <1>5, <1>6, <1>7, <1>8, TickKeepsBypass DEF Next, Boot, Create

-----------------------------------------------------------------------------
(* Wakers.                                                                 *)

\* The thread being created is nobody's target, and no waker is at work before
\* threading_start.
LEMMA NewSlotFacts ==
  ASSUME TypeOK, BuildInv, create_slot
  PROVE  /\ currThreadsCount \in Threads /\ currThreadsCount # MainThread
         /\ pc[currThreadsCount] \in BuildLabels \cup {"start"}
         /\ pc[MainThread] = "run"
         /\ pc' = [pc EXCEPT ![MainThread] = "c_regs", ![currThreadsCount] = "slot"]
         /\ isUnderSheduling' = [isUnderSheduling EXCEPT ![currThreadsCount] = TRUE]
         /\ state' = [state EXCEPT ![currThreadsCount] = "UNSTARTED"]
         /\ UNCHANGED <<currThreadIndex, currThreadsCount, queued, target, overran>>
<1>1. currThreadsCount \in Threads /\ currThreadsCount # MainThread
  BY ThreadFacts DEF create_slot, TypeOK
<1>2. currThreadsCount >= currThreadsCount
  BY ThreadFacts DEF TypeOK
<1> QED
  BY <1>1, <1>2 DEF create_slot, BuildInv, At, bootVars, wakeVars, ghostVars

LEMMA WakeKept == TypeOK /\ BuildInv /\ WakeInv /\ [Next]_vars => WakeInv'
<1> SUFFICES ASSUME TypeOK, BuildInv, WakeInv, [Next]_vars, NEW u \in Threads,
                    pc'[u] \in {"w_test_under", "w_state", "w_under"}
             PROVE  target'[u] < currThreadsCount'
  BY DEF WakeInv
<1>0. /\ pc \in [Threads -> Labels] /\ target \in [Threads -> Threads]
      /\ currThreadsCount \in 1 .. NumThreads /\ target[u] \in Nat
  BY ThreadFacts DEF TypeOK
<1>1. currThreadsCount' = currThreadsCount \/ currThreadsCount' = currThreadsCount + 1
  <2>1. CASE Boot \/ Create
    BY <2>1 DEF Boot, Create, init_main_thread, threading_start, create_slot, create_regs,
                create_count, bootVars
  <2>2. CASE Tick \/ TickHangs \/ OtherIrq \/ UNCHANGED vars
    BY <2>2 DEF Tick, TickHangs, OtherIrq, vars, bootVars
  <2> QED
    BY <2>1, <2>2, ThreadStepMoves DEF Next, bootVars
<1>2. ASSUME target'[u] = target[u], pc[u] \in {"w_test_under", "w_state", "w_under"}
      PROVE  target'[u] < currThreadsCount'
  BY <1>0, <1>1, <1>2 DEF WakeInv
<1>3. CASE Boot \/ create_regs \/ create_count
  BY <1>0, <1>2, <1>3 DEF Boot, init_main_thread, threading_start, create_regs, create_count,
                          Goto, wakeVars
<1>4. CASE create_slot
  BY <1>0, <1>2, <1>4, NewSlotFacts
<1>5. ASSUME NEW t \in Threads, ThreadStep(t)
      PROVE  target'[u] < currThreadsCount'
  <2>1. CASE wake_thread(t)
    <3>1. u # t
      BY <1>0, <2>1 DEF wake_thread, Goto
    <3> QED
      BY <1>0, <1>2, <2>1, <3>1 DEF wake_thread, Goto
  <2>2. CASE wake_test(t)
    BY <1>0, <1>1, <1>2, <2>2 DEF wake_test, WakeReturns, Goto
  <2>3. CASE wake_test_under(t)
    BY <1>0, <1>2, <2>3 DEF wake_test_under, WakeReturns, At, Goto
  <2>4. CASE wake_state(t)
    BY <1>0, <1>2, <2>4 DEF wake_state, At, Goto, wakeVars
  <2>5. CASE wake_under(t)
    BY <1>0, <1>2, <2>5 DEF wake_under, WakeReturns, Goto
  <2>6. ASSUME ~wake_thread(t), ~wake_test(t), ~wake_test_under(t), ~wake_state(t), ~wake_under(t)
        PROVE  target'[u] < currThreadsCount'
    <3>1. UNCHANGED target
      BY <1>5, <2>6 DEF ThreadStep, th_begin, th_leave, th_stop, sleep, sleep_more, sleep_hlt,
                        sleep_return, queue_waiting_thread, pause_state, pause_under,
                        pause_int, wakeVars
    <3>2. \E l \in Labels \ {"w_test_under", "w_state", "w_under"} : Goto(t, l)
      BY <1>5, <2>6, LabelFacts
         DEF ThreadStep, th_begin, th_leave, th_stop, sleep, sleep_more, sleep_hlt,
             sleep_return, queue_waiting_thread, pause_state, pause_under, pause_int
    <3> QED
      BY <1>0, <1>2, <3>1, <3>2 DEF Goto
  <2> QED
    BY <2>1, <2>2, <2>3, <2>4, <2>5, <2>6
<1>6. CASE Tick \/ TickHangs \/ OtherIrq \/ UNCHANGED vars
  BY <1>0, <1>2, <1>6 DEF Tick, TickHangs, OtherIrq, WakeFromHlt, Goto, vars, wakeVars
<1> QED
  BY <1>3, <1>4, <1>5, <1>6 DEF Next, Create

-----------------------------------------------------------------------------
(* Finished, sleeping and paused threads.                                  *)

\* Every store to state[] is the slot's own thread's, a waker's, or create_thread's
\* to a slot without a context.
LEMMA StateStores ==
  ASSUME TypeOK, BuildInv, [Next]_vars, NEW t \in Threads, state'[t] # state[t]
  PROVE  \/ t = currThreadIndex /\ pc[t] \in {"init", "start", "run", "th_stop", "sl_test", "p_state"}
            /\ pc'[t] \in {"enable", "run", "stopped", "sl_test", "p_under"}
            /\ (state'[t] = "STOPPED" => pc'[t] = "stopped")
            /\ (pc'[t] = "sl_test" => pc[t] = "run")
         \/ pc[currThreadIndex] = "w_state" /\ target[currThreadIndex] = t
            /\ state'[t] = "RUNNING"
         \/ pc[t] \in BuildLabels \cup {"start"} /\ pc'[t] = "slot" /\ state'[t] = "UNSTARTED"
<1>0. /\ pc \in [Threads -> Labels] /\ target \in [Threads -> Threads]
      /\ state \in [Threads -> ThreadStates] /\ currThreadIndex \in Threads
  BY DEF TypeOK, ThreadsTypeOK
<1> USE <1>0
<1>1. CASE init_main_thread
  BY <1>1, ThreadFacts DEF init_main_thread, At, Runs, Goto
<1>2. CASE create_slot
  BY <1>2, NewSlotFacts
<1>3. CASE threading_start \/ create_regs \/ create_count
  BY <1>3 DEF threading_start, create_regs, create_count, threadVars
<1>4. ASSUME NEW u \in Threads, ThreadStep(u)
      PROVE  \/ t = u /\ u = currThreadIndex
                /\ pc[t] \in {"start", "run", "th_stop", "sl_test", "p_state"}
                /\ pc'[t] \in {"run", "stopped", "sl_test", "p_under"}
                /\ (state'[t] = "STOPPED" => pc'[t] = "stopped")
                /\ (pc'[t] = "sl_test" => pc[t] = "run")
             \/ u = currThreadIndex /\ pc[u] = "w_state" /\ target[u] = t
                /\ state'[t] = "RUNNING"
  <2>1. CASE th_begin(u)
    BY <2>1 DEF th_begin, At, Runs, Goto
  <2>2. CASE th_stop(u)
    BY <2>2 DEF th_stop, At, Runs, Goto
  <2>3. CASE sleep(u)
    BY <2>3 DEF sleep, At, Runs, Goto
  <2>4. CASE sleep_return(u)
    BY <2>4 DEF sleep_return, At, Runs, Goto
  <2>5. CASE pause_state(u)
    BY <2>5 DEF pause_state, At, Runs, Goto
  <2>6. CASE wake_state(u)
    BY <2>6 DEF wake_state, At, Runs
  <2>7. CASE th_leave(u) \/ sleep_more(u) \/ sleep_hlt(u) \/ queue_waiting_thread(u)
             \/ pause_under(u) \/ pause_int(u)
    BY <2>7 DEF th_leave, sleep_more, sleep_hlt, queue_waiting_thread, pause_under, pause_int,
                threadVars
  <2>8. CASE wake_thread(u) \/ wake_test(u) \/ wake_test_under(u) \/ wake_under(u)
    BY <2>8 DEF wake_thread, wake_test, wake_test_under, wake_under, threadVars
  <2> QED
    BY <1>4, <2>1, <2>2, <2>3, <2>4, <2>5, <2>6, <2>7, <2>8 DEF ThreadStep
<1>5. CASE Tick \/ TickHangs \/ OtherIrq \/ UNCHANGED vars
  BY <1>5 DEF Tick, TickHangs, OtherIrq, vars, threadVars
<1> QED
  BY <1>1, <1>2, <1>3, <1>4, <1>5 DEF Next, Boot, Create

\* A finished thread moves no more.
LEMMA StoppedMovesNot ==
  ASSUME TypeOK, BuildInv, [Next]_vars, NEW t \in Threads, pc[t] = "stopped"
  PROVE  pc'[t] = "stopped"
<1>0. pc \in [Threads -> Labels] /\ currThreadIndex \in Threads
  BY DEF TypeOK, ThreadsTypeOK
<1>1. CASE Boot
  BY <1>0, <1>1 DEF Boot, init_main_thread, threading_start, At, Goto
<1>2. CASE create_slot
  BY <1>0, <1>2, NewSlotFacts DEF BuildLabels
<1>3. CASE create_regs
  BY <1>0, <1>3, ThreadFacts DEF create_regs, At, BuildInv, TypeOK
<1>4. CASE create_count
  BY <1>0, <1>4 DEF create_count, At, Goto
<1>5. ASSUME NEW u \in Threads, ThreadStep(u)
      PROVE  pc'[t] = "stopped"
  <2>1. pc[u] # "stopped"
    BY <1>5 DEF ThreadStep, th_begin, th_leave, th_stop, sleep, sleep_more, sleep_hlt,
                sleep_return, queue_waiting_thread, pause_state, pause_under, pause_int,
                wake_thread, wake_test, wake_test_under, wake_state, wake_under, At
  <2> QED
    BY <1>0, <1>5, <2>1, ThreadStepMoves DEF Goto
<1>6. CASE Tick \/ TickHangs \/ OtherIrq \/ UNCHANGED vars
  BY <1>0, <1>6 DEF Tick, TickHangs, OtherIrq, WakeFromHlt, Goto, vars
<1> QED
  BY <1>1, <1>2, <1>3, <1>4, <1>5, <1>6 DEF Next, Create

LEMMA StoppedKept ==
  TypeOK /\ BuildInv /\ StoppedInv /\ [Next]_vars => StoppedInv'
<1> SUFFICES ASSUME TypeOK, BuildInv, StoppedInv, [Next]_vars,
                    NEW t \in Threads, state'[t] = "STOPPED"
             PROVE  pc'[t] = "stopped"
  BY DEF StoppedInv
<1>1. CASE state[t] = "STOPPED"
  BY <1>1, StoppedMovesNot DEF StoppedInv
<1>2. CASE state[t] # "STOPPED"
  BY <1>2, StateStores
<1> QED
  BY <1>1, <1>2

\* Until a thread outruns its pause, entries and wakers name paused threads only,
\* and each of them once.
LEMMA PausesKept ==
  TypeOK /\ BuildInv /\ PauseInv /\ PausedIsWakeable /\ [Next]_vars
     => PauseInv' /\ PausedIsWakeable'
<1> SUFFICES ASSUME TypeOK, BuildInv, PauseInv, PausedIsWakeable, [Next]_vars, ~overran'
             PROVE  PauseInv' /\ PausedIsWakeable'
  BY DEF PauseInv, PausedIsWakeable
<1>0. /\ pc \in [Threads -> Labels] /\ target \in [Threads -> Threads]
      /\ isUnderSheduling \in [Threads -> BOOLEAN] /\ state \in [Threads -> ThreadStates]
      /\ queued \in [Threads -> BOOLEAN]
      /\ currThreadIndex \in Threads /\ overran \in BOOLEAN
  BY DEF TypeOK, ThreadsTypeOK
<1>00. ~overran
  <2>1. overran => overran'
    BY DEF Next, Boot, Create, ThreadStep, init_main_thread, threading_start, create_slot,
           create_regs, create_count, th_begin, th_leave, th_stop, sleep, sleep_more,
           sleep_hlt, sleep_return, queue_waiting_thread, pause_state, pause_under,
           pause_int, wake_thread, wake_test, wake_test_under, wake_state, wake_under,
           Tick, TickHangs, OtherIrq, vars, ghostVars
  <2> QED
    BY <2>1
<1> USE <1>0, <1>00 DEF PauseInv, PausedIsWakeable, Pausing, Waking, PauseLabels, WakeLabels
\* A step of t outside pauses and wakers that leaves it on the scheduler.
<1>1. ASSUME NEW t \in Threads, NEW l, l \notin PauseLabels, l \notin WakeLabels,
             pc[t] \notin PauseLabels, pc[t] \notin WakeLabels,
             pc' = [pc EXCEPT ![t] = l],
             isUnderSheduling'[t] \/ l \in {"none", "init", "th_stop", "stopped"},
             \A u \in Threads \ {t} : isUnderSheduling'[u] = isUnderSheduling[u],
             \A u \in Threads \ {t} : state'[u] = state[u],
             UNCHANGED <<queued, target>>
      PROVE  PauseInv' /\ PausedIsWakeable'
  BY <1>1
<1>2. CASE Boot \/ create_count
  <2>1. MainThread \in Threads
    BY ThreadFacts
  <2> QED
    BY <1>1, <1>2, <2>1
       DEF Boot, init_main_thread, threading_start, create_count, At, Goto, threadVars, wakeVars
<1>3. CASE create_slot
  <2>1. /\ currThreadsCount \in Threads /\ currThreadsCount # MainThread
        /\ MainThread \in Threads
        /\ pc[currThreadsCount] \notin PauseLabels \cup WakeLabels /\ pc[MainThread] = "run"
        /\ isUnderSheduling[MainThread]
        /\ pc' = [pc EXCEPT ![MainThread] = "c_regs", ![currThreadsCount] = "slot"]
        /\ isUnderSheduling' = [isUnderSheduling EXCEPT ![currThreadsCount] = TRUE]
        /\ state' = [state EXCEPT ![currThreadsCount] = "UNSTARTED"]
        /\ UNCHANGED <<queued, target, overran>>
    BY <1>3, NewSlotFacts, ThreadFacts DEF BuildLabels
  <2>2. \A t \in Threads :
           /\ pc[t] \in PauseLabels \cup WakeLabels => t # currThreadsCount /\ pc'[t] = pc[t]
           /\ pc'[t] \in PauseLabels \cup WakeLabels => t # currThreadsCount /\ pc'[t] = pc[t]
    BY <2>1
  <2>3. \A t \in Threads :
           /\ t # currThreadsCount =>
                 isUnderSheduling'[t] = isUnderSheduling[t] /\ state'[t] = state[t]
           /\ t # currThreadsCount /\ t # MainThread => pc'[t] = pc[t]
    BY ONLY <1>0, <2>1
  <2>6. isUnderSheduling'[currThreadsCount] /\ isUnderSheduling'[MainThread]
    BY <2>1
  <2>4. PauseInv'
    <3>1. /\ \A t \in Threads : Pausing(t)' <=> Pausing(t)
          /\ \A t \in Threads : Waking(t)' <=> Waking(t)
          /\ \A t \in Threads : Pausing(t) \/ Waking(t) =>
                /\ pc'[t] = pc[t] /\ state'[t] = state[t]
                /\ isUnderSheduling'[t] = isUnderSheduling[t]
      BY <2>2, <2>3
    <3>2. \A t \in Threads :
             pc'[t] \notin {"none", "init", "p_int", "th_stop", "stopped"} => isUnderSheduling'[t]
      BY <2>1, <2>3, <2>6
    <3>3. \A u \in Threads :
             pc'[u] \in {"w_state", "w_under"} =>
                pc'[target[u]] = "p_int" /\ ~isUnderSheduling'[target[u]]
      BY <2>1, <2>2, <2>3
    <3> QED
      BY <2>1, <3>1, <3>2, <3>3
  <2>5. PausedIsWakeable'
    BY <2>1, <2>2, <2>3
  <2> QED
    BY <2>4, <2>5
<1>4. CASE create_regs
  <2>1. pc[MainThread] = "c_regs" /\ pc[currThreadsCount] = "slot"
        /\ UNCHANGED <<isUnderSheduling, state, queued, target>>
        /\ pc' = [pc EXCEPT ![MainThread] = "c_count", ![currThreadsCount] = "start"]
    BY <1>4 DEF create_regs, At, BuildInv, threadVars, wakeVars
  <2>2. currThreadsCount \in Threads /\ MainThread \in Threads
    BY <1>4, ThreadFacts DEF create_regs, At, BuildInv, TypeOK
  <2>3. isUnderSheduling[MainThread] /\ isUnderSheduling[currThreadsCount]
    BY <2>1, <2>2
  <2> QED
    BY <2>1, <2>2, <2>3
<1>5. ASSUME NEW t \in Threads, ThreadStep(t)
      PROVE  PauseInv' /\ PausedIsWakeable'
  <2>1. CASE th_begin(t) \/ th_leave(t) \/ th_stop(t) \/ sleep(t) \/ sleep_more(t)
             \/ sleep_hlt(t) \/ sleep_return(t)
    BY <1>1, <2>1 DEF th_begin, th_leave, th_stop, sleep, sleep_more, sleep_hlt, sleep_return,
                      At, Goto, threadVars, wakeVars
  <2>2. CASE queue_waiting_thread(t)
    BY <2>2 DEF queue_waiting_thread, At, Goto, threadVars
  <2>3. CASE pause_state(t)
    BY <2>3 DEF pause_state, At, Goto, wakeVars
  <2>4. CASE pause_under(t)
    BY <2>4 DEF pause_under, At, Goto, wakeVars
  <2>5. CASE pause_int(t)
    <3>1. /\ isUnderSheduling[t] /\ pc[t] = "p_int" /\ pc' = [pc EXCEPT ![t] = "run"]
          /\ UNCHANGED <<isUnderSheduling, state, target>>
      BY <2>5 DEF pause_int, At, Goto, threadVars
    <3>2. queued' = queued
      BY <2>5 DEF pause_int
    <3> QED
      BY <3>1, <3>2
  <2>6. CASE wake_thread(t)
    BY <2>6 DEF wake_thread, At, Goto, threadVars
  <2>7. CASE wake_test(t)
    BY <2>7 DEF wake_test, WakeReturns, At, Goto, threadVars
  <2>8. CASE wake_test_under(t)
    BY <2>8 DEF wake_test_under, WakeReturns, At, Goto, threadVars
  <2>9. CASE wake_state(t)
    BY <2>9 DEF wake_state, At, Goto, wakeVars
  <2>10. CASE wake_under(t)
    BY <2>10 DEF wake_under, WakeReturns, At, Goto
  <2> QED
    BY <1>5, <2>1, <2>2, <2>3, <2>4, <2>5, <2>6, <2>7, <2>8, <2>9, <2>10 DEF ThreadStep
<1>6. CASE Tick \/ TickHangs \/ OtherIrq \/ UNCHANGED vars
  <2>1. /\ UNCHANGED <<isUnderSheduling, state, queued, target>>
        /\ UNCHANGED pc \/ (pc[currThreadIndex] = "sl_halted" /\ Goto(currThreadIndex, "sl_test"))
    BY <1>6 DEF Tick, TickHangs, OtherIrq, WakeFromHlt, vars, threadVars, wakeVars
  <2>2. CASE UNCHANGED pc
    BY <2>1, <2>2
  <2>3. CASE pc[currThreadIndex] = "sl_halted" /\ Goto(currThreadIndex, "sl_test")
    BY <1>1, <2>1, <2>3 DEF Goto
  <2> QED
    BY <2>1, <2>2, <2>3
<1> QED
  BY <1>2, <1>3, <1>4, <1>5, <1>6 DEF Next, Create

-----------------------------------------------------------------------------
(* The theorems.                                                           *)

LEMMA TypesKept == TypeOK /\ BuildInv /\ [Next]_vars => TypeOK'
<1>1. TypeOK /\ UNCHANGED vars => TypeOK'
  BY DEF TypeOK, ThreadsTypeOK, vars
<1> QED
  BY <1>1, BootTyped, ThreadStepTyped, IrqTyped DEF Next

LEMMA NextKeepsInv == IInv /\ [Next]_vars => IInv'
BY TypesKept, BuildKept, BypassKept, WakeKept, StoppedKept, PausesKept DEF IInv

\* The inductive invariant holds in every state of every behaviour.
THEOREM Invariance == Spec => []IInv
BY InitInv, NextKeepsInv, PTL DEF Spec

\* Every variable keeps to its type; the count of threads stays within the table
\* and the thread on the processor is always one in use (create_thread,
\* change_thread).
THEOREM TypeCorrect == Spec => []TypeOK
<1>1. IInv => TypeOK
  BY DEF IInv
<1> QED
  BY <1>1, Invariance, PTL

\* change_thread never switches to a slot create_thread has not finished.
THEOREM OnlyBuiltDispatched == Spec => []DispatchedIsBuilt
<1>1. IInv => DispatchedIsBuilt
  BY DEF IInv, TypeOK, ThreadsTypeOK, BuildInv, DispatchedIsBuilt
<1> QED
  BY <1>1, Invariance, PTL

\* Round robin (change_thread): a thread that can be selected is passed over fewer
\* times than there are threads.
THEOREM BypassBounded == Spec => []BoundedBypass
<1>1. IInv => BoundedBypass
  <2> SUFFICES ASSUME IInv, NEW t \in Threads, t < currThreadsCount
               PROVE  skipped[t] < currThreadsCount
    BY DEF BoundedBypass
  <2>1. /\ skipped[t] \in Nat /\ currThreadsCount \in Nat /\ currThreadsCount > 0
        /\ currThreadIndex \in 0 .. currThreadsCount - 1 /\ t \in 0 .. currThreadsCount - 1
    <3>1. /\ skipped \in [Threads -> 0 .. NumThreads] /\ currThreadsCount \in 1 .. NumThreads
          /\ currThreadIndex \in Threads /\ currThreadIndex < currThreadsCount
      BY DEF IInv, TypeOK, ThreadsTypeOK
    <3>2. skipped[t] \in 0 .. NumThreads
      BY <3>1
    <3> QED
      BY <3>1, <3>2, ThreadFacts
  <2>2. CASE isUnderSheduling[t] /\ t # currThreadIndex
    <3>1. skipped[t] + Hops(currThreadIndex, t) <= currThreadsCount
      BY <2>2 DEF IInv, BypassInv
    <3>2. Hops(currThreadIndex, t) \in Nat /\ Hops(currThreadIndex, t) > 0
      BY <2>1, <2>2, DistanceBound DEF Hops
    <3> QED
      BY <2>1, <3>1, <3>2
  <2>3. CASE ~(isUnderSheduling[t] /\ t # currThreadIndex)
    <3>1. skipped[t] = 0
      BY <2>3 DEF IInv, BypassInv
    <3> QED
      BY <2>1, <3>1
  <2> QED
    BY <2>2, <2>3
<1> QED
  BY <1>1, Invariance, PTL

\* Until some thread outruns its pause, a thread off the scheduler inside
\* pause_curr_thread can be woken, or is being woken.
THEOREM PausedCanBeWoken == Spec => []PausedIsWakeable
<1>1. IInv => PausedIsWakeable
  BY DEF IInv
<1> QED
  BY <1>1, Invariance, PTL

\* The waker's target is frozen in its pause while the waker stores to its slot.
LEMMA WakerStoresToPaused ==
  ASSUME IInv, ~overran, pc[currThreadIndex] = "w_state"
  PROVE  pc[target[currThreadIndex]] = "p_int"
BY DEF IInv, PauseInv, TypeOK, ThreadsTypeOK

\* No interleaving of wake_thread with th_main_func's last stores revives a thread,
\* as long as none has outrun its pause.
THEOREM StoppedForGood == Spec => StoppedIsFinal
<1> DEFINE A == ~overran => \A t \in Threads : state[t] = "STOPPED" => state'[t] = "STOPPED"
<1>1. IInv /\ [Next]_vars => [A]_vars
  <2> SUFFICES ASSUME IInv, [Next]_vars, ~overran, NEW t \in Threads,
                      state[t] = "STOPPED", state'[t] # "STOPPED"
               PROVE  FALSE
    OBVIOUS
  <2>1. pc[t] = "stopped"
    BY DEF IInv, StoppedInv
  <2> QED
    BY <2>1, StateStores, WakerStoresToPaused DEF IInv, BuildLabels
<1>2. Spec => [][A]_vars
  BY <1>1, Invariance, PTL DEF Spec
<1> QED
  BY <1>2 DEF StoppedIsFinal

\* wake_thread stores nothing to the slot of a thread inside sleep(), as long as no
\* thread has outrun its pause.
THEOREM SleepersLeftAlone == Spec => SleeperUndisturbed
<1> DEFINE A == ~overran =>
                   \A t \in Threads :
                      pc[t] \in SleepLabels /\ pc'[t] \in SleepLabels => state'[t] = state[t]
<1>1. IInv /\ [Next]_vars => [A]_vars
  <2> SUFFICES ASSUME IInv, [Next]_vars, ~overran, NEW t \in Threads,
                      pc[t] \in SleepLabels, pc'[t] \in SleepLabels, state'[t] # state[t]
               PROVE  FALSE
    OBVIOUS
  <2> QED
    BY StateStores, WakerStoresToPaused DEF IInv, SleepLabels, BuildLabels
<1>2. Spec => [][A]_vars
  BY <1>1, Invariance, PTL DEF Spec
<1> QED
  BY <1>2 DEF SleeperUndisturbed

-----------------------------------------------------------------------------
(* The auto-reset event.                                                   *)


Setters == {t \in Threads : epc[t] \in SetLabels}

\* One call is paid for at the event's creation if it is created set.
Credit == sets + (IF Signal THEN 1 ELSE 0)

SetsCoverPasses == passes + (1 - signal) + Cardinality(Setters) <= Credit

EventInv == EventTypeOK /\ SetsCoverPasses

-----------------------------------------------------------------------------

LEMMA ThreadSetsFinite ==
  ASSUME NEW S \in SUBSET Threads
  PROVE  IsFiniteSet(S) /\ Cardinality(S) \in Nat
<1>1. IsFiniteSet(Threads)
  BY NumThreadsAssumption, FS_Interval DEF Threads
<1> QED
  BY <1>1, FS_Subset, FS_CardinalityType

LEMMA SettersFinite == IsFiniteSet(Setters) /\ Cardinality(Setters) \in Nat
BY ThreadSetsFinite DEF Setters

\* A thread that starts a set joins the setters, one that ends it leaves them.
LEMMA SettersStep ==
  ASSUME epc \in [Threads -> EventLabels], NEW t \in Threads, NEW l, EventGoto(t, l)
  PROVE  /\ epc[t] \notin SetLabels /\ l \in SetLabels =>
               Cardinality(Setters') = Cardinality(Setters) + 1
         /\ epc[t] \in SetLabels /\ l \notin SetLabels =>
               Cardinality(Setters') = Cardinality(Setters) - 1
         /\ (epc[t] \in SetLabels <=> l \in SetLabels) => Setters' = Setters
<1>1. \A u \in Threads : epc'[u] = IF u = t THEN l ELSE epc[u]
  BY DEF EventGoto
<1>2. CASE epc[t] \notin SetLabels /\ l \in SetLabels
  <2>1. Setters' = Setters \cup {t} /\ t \notin Setters
    BY <1>1, <1>2 DEF Setters
  <2> QED
    BY <1>2, <2>1, SettersFinite, FS_AddElement
<1>3. CASE epc[t] \in SetLabels /\ l \notin SetLabels
  <2>1. Setters' = Setters \ {t} /\ t \in Setters
    BY <1>1, <1>3 DEF Setters
  <2> QED
    BY <1>3, <2>1, SettersFinite, FS_RemoveElement
<1>4. CASE epc[t] \in SetLabels <=> l \in SetLabels
  <2>1. Setters' = Setters
    BY <1>1, <1>4 DEF Setters
  <2> QED
    BY <1>4, <2>1
<1> QED
  BY <1>2, <1>3, <1>4

LEMMA EventInitInv == EventInit => EventInv
<1> SUFFICES ASSUME EventInit PROVE EventInv
  OBVIOUS
<1>1. EventTypeOK
  <2>1. ThreadsTypeOK
    BY NumThreadsAssumption DEF EventInit, ThreadsTypeOK, Threads, MainThread, ThreadStates
  <2>2. epc \in [Threads -> EventLabels] /\ calls \in [Threads -> Nat]
    BY MaxCallsAssumption DEF EventInit, EventLabels
  <2> QED
    BY <2>1, <2>2 DEF EventInit, EventTypeOK
<1>2. Setters = {}
  BY DEF EventInit, Setters, SetLabels
<1>3. Cardinality(Setters) = 0
  BY <1>2, FS_EmptySet
<1> QED
  BY <1>1, <1>3, SignalAssumption DEF EventInit, EventInv, SetsCoverPasses, Credit

LEMMA EventStepKeepsInv ==
  ASSUME EventInv, NEW t \in Threads, Step(t)
  PROVE  EventInv'
<1>0. /\ EventTypeOK /\ SetsCoverPasses
      /\ epc \in [Threads -> EventLabels] /\ signal \in {0, 1} /\ sets \in Nat /\ passes \in Nat
      /\ Cardinality(Setters) \in Nat
  BY SettersFinite DEF EventInv, EventTypeOK
<1>00. Cardinality(Setters') \in Nat
  <2>1. Setters' \in SUBSET Threads
    BY DEF Setters
  <2> QED
    BY <2>1, ThreadSetsFinite
<1> USE <1>0, <1>00 DEF EventInv, EventTypeOK, ThreadsTypeOK, threadVars, SetsCoverPasses,
                        Credit, Call, EventAt, SetLabels, EventLabels
<1>1. CASE call_set(t)
  <2>1. EventGoto(t, "s_test") /\ epc[t] = "run"
    BY <1>1 DEF call_set
  <2>2. Cardinality(Setters') = Cardinality(Setters) + 1
    BY <2>1, SettersStep
  <2>3. EventTypeOK'
    BY <1>1 DEF call_set, EventGoto
  <2> QED
    BY <1>1, <2>2, <2>3, SignalAssumption DEF call_set
<1>2. CASE set_test(t)
  <2>1. epc[t] = "s_test" /\ (EventGoto(t, "s_store") \/ EventGoto(t, "run"))
    BY <1>2 DEF set_test
  <2>2. Cardinality(Setters') <= Cardinality(Setters)
    BY <2>1, SettersStep
  <2>3. EventTypeOK'
    BY <1>2, <2>1 DEF set_test, EventGoto
  <2> QED
    BY <1>2, <2>2, <2>3, SignalAssumption DEF set_test
<1>3. CASE set_store(t)
  <2>1. epc[t] = "s_store" /\ EventGoto(t, "run")
    BY <1>3 DEF set_store
  <2>2. Cardinality(Setters') = Cardinality(Setters) - 1
    BY <2>1, SettersStep
  <2>3. EventTypeOK'
    BY <1>3 DEF set_store, EventGoto
  <2> QED
    BY <1>3, <2>2, <2>3, SignalAssumption DEF set_store
<1>4. CASE reset(t)
  <2>1. Setters' = Setters
    BY <1>4 DEF reset, Setters
  <2>2. EventTypeOK'
    BY <1>4 DEF reset
  <2> QED
    BY <1>4, <2>1, <2>2, SignalAssumption DEF reset
<1>5. CASE call_wait(t)
  <2>1. epc[t] = "run" /\ EventGoto(t, "w_xchg")
    BY <1>5 DEF call_wait
  <2>2. Setters' = Setters
    BY <2>1, SettersStep
  <2>3. EventTypeOK'
    BY <1>5 DEF call_wait, EventGoto
  <2> QED
    BY <1>5, <2>2, <2>3, SignalAssumption DEF call_wait
<1>6. CASE wait_xchg(t)
  <2>1. epc[t] = "w_xchg" /\ (EventGoto(t, "run") \/ EventGoto(t, "w_spin"))
    BY <1>6 DEF wait_xchg
  <2>2. Setters' = Setters
    BY <2>1, SettersStep
  <2>3. EventTypeOK'
    BY <1>6, <2>1 DEF wait_xchg, EventGoto
  <2> QED
    BY <1>6, <2>2, <2>3, SignalAssumption DEF wait_xchg
<1>7. CASE wait_spin(t)
  <2>1. epc[t] = "w_spin" /\ EventGoto(t, "w_xchg")
    BY <1>7 DEF wait_spin
  <2>2. Setters' = Setters
    BY <2>1, SettersStep
  <2>3. EventTypeOK'
    BY <1>7 DEF wait_spin, EventGoto
  <2> QED
    BY <1>7, <2>2, <2>3, SignalAssumption DEF wait_spin
<1> QED
  BY <1>1, <1>2, <1>3, <1>4, <1>5, <1>6, <1>7 DEF Step

LEMMA EventNextKeepsInv == EventInv /\ [EventNext]_allVars => EventInv'
<1>1. ASSUME EventInv, UNCHANGED <<isUnderSheduling, state, eventVars>>, currThreadIndex' \in Threads
      PROVE  EventInv'
  BY <1>1 DEF EventInv, EventTypeOK, ThreadsTypeOK, eventVars, SetsCoverPasses, Credit, Setters
<1>2. EventInv /\ EventTick => EventInv'
  BY <1>1 DEF EventTick, change_thread, Threads
<1>3. EventInv /\ UNCHANGED allVars => EventInv'
  BY <1>1 DEF allVars, threadVars, EventInv, EventTypeOK, ThreadsTypeOK
<1> QED
  BY <1>2, <1>3, EventStepKeepsInv DEF EventNext

\* The inductive invariant holds in every state of every behaviour.
THEOREM EventInvariance == EventSpec => []EventInv
BY EventInitInv, EventNextKeepsInv, PTL DEF EventSpec

\* Every variable keeps to its type; the spin lock of the event is 0 or 1 however
\* the tests and stores of slockRelease overlap.
THEOREM EventTypeCorrect == EventSpec => []EventTypeOK
<1>1. EventInv => EventTypeOK
  BY DEF EventInv
<1> QED
  BY <1>1, EventInvariance, PTL

\* A set lets at most one waiter pass (set, waitOne of autoResetEvent.c).
THEOREM OnePassPerSet == EventSpec => []AtMostOnePassPerSet
<1>1. EventInv => AtMostOnePassPerSet
  <2> SUFFICES ASSUME EventInv PROVE AtMostOnePassPerSet
    OBVIOUS
  <2>1. /\ signal \in {0, 1} /\ sets \in Nat /\ passes \in Nat
        /\ Cardinality(Setters) \in Nat /\ SetsCoverPasses
    BY SettersFinite DEF EventInv, EventTypeOK
  <2> QED
    BY <2>1 DEF SetsCoverPasses, Credit, AtMostOnePassPerSet
<1> QED
  BY <1>1, EventInvariance, PTL
=============================================================================
