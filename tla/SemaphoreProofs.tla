-------------------------- MODULE SemaphoreProofs --------------------------
(***************************************************************************)
(* Proofs about Semaphore, for every number of threads and calls and every *)
(* max and min, overruns included: the types, the range of the counter,    *)
(* that only a refusal leaves the spin lock taken, that no more permits    *)
(* are held than there are, and that who gives one back does not sleep.    *)
(*                                                                         *)
(* The range alone is not inductive: between its test and its count a      *)
(* routine relies on the counter's not having moved (TestedInv), which     *)
(* holds because the spin lock admits one thread at a time (LockInv).      *)
(* Nobody clears a lock that a refusal has left taken, so the counter      *)
(* stays where the refusal found it. The permits are counted by PermitInv: *)
(* what the counter lacks of max is the sum, over the threads, of what     *)
(* each holds or is about to report or to return.                          *)
(***************************************************************************)
EXTENDS Semaphore, SleepQueueProofs

\* The spin lock: a thread past its capture finds it taken, and is alone there.
LockInv ==
  /\ \A t \in Threads : HoldsLock(t) => spinlock = 1
  /\ \A t, u \in Threads : HoldsLock(t) /\ HoldsLock(u) => t = u

\* What a routine has tested holds until it counts.
TestedInv ==
  \A t \in Threads :
    /\ spc[t] = "w_count" => counter < MaxCount
    /\ spc[t] = "r_count" => counter >= MinCount

IInv == TypeOK /\ LockInv /\ TestedInv /\ CounterInRange /\ StuckByRefusal

-----------------------------------------------------------------------------

LEMMA WorkersAreThreads == Workers \subseteq Threads
BY DEF Workers

LEMMA InitInv == Init => IInv
<1> SUFFICES ASSUME Init PROVE IInv
  OBVIOUS
<1>1. ThreadsTypeOK
  BY NumThreadsAssumption DEF Init, ThreadsTypeOK, Threads, MainThread, ThreadStates
<1>2. QueueTypeOK
  BY QueueInitTyped DEF Init
<1>3. spc \in [Threads -> SemaphoreLabels] /\ calls \in [Threads -> Nat]
      /\ held \in [Threads -> Nat]
  BY MaxCallsAssumption DEF Init, SemaphoreLabels
<1>4. TypeOK
  BY <1>1, <1>2, <1>3, LimitsAssumption DEF Init, TypeOK
<1>5. LockInv /\ TestedInv /\ StuckByRefusal
  BY DEF Init, LockInv, TestedInv, HoldsLock, StuckByRefusal, Stuck
<1>6. CounterInRange
  BY LimitsAssumption DEF Init, CounterInRange
<1> QED
  BY <1>4, <1>5, <1>6 DEF IInv

\* Inside the queue nothing of the semaphore's own state changes.
LEMMA InQueueKeepsInv ==
  ASSUME IInv, NEW t \in Threads, InQueue(t)
  PROVE  IInv'
<1>1. ThreadsTypeOK' /\ QueueTypeOK'
  BY QueueStepTyped DEF IInv, TypeOK, InQueue
<1>2. UNCHANGED <<spinlock, counter, spc, calls, held, paired>>
  BY DEF InQueue, semaphoreVars
<1>3. TypeOK'
  BY <1>1, <1>2 DEF IInv, TypeOK
<1> QED
  BY <1>2, <1>3
     DEF IInv, LockInv, TestedInv, HoldsLock, CounterInRange, StuckByRefusal, Stuck

LEMMA EnterTyped ==
  ASSUME QueueTypeOK, NEW t \in Threads, Enter(t, "qLock") \/ Enter(t, "wLock")
  PROVE  QueueTypeOK'
BY DEF Enter, QGoto, QueueTypeOK, QueueLabels, WaitLabels, WakeLabels

LEMMA CallTyped ==
  ASSUME TypeOK, NEW t \in Threads, call_wait(t) \/ call_release(t)
  PROVE  TypeOK'
<1>1. spc' = [spc EXCEPT ![t] = "r_lock"] \/ spc' = [spc EXCEPT ![t] = "w_lock"]
  BY DEF call_wait, call_release, Goto, semaphoreMethods
<1>2. spc' \in [Threads -> SemaphoreLabels]
  BY <1>1 DEF TypeOK, SemaphoreLabels
<1>3. calls' \in [Threads -> Nat]
  <2>1. calls \in [Threads -> Nat] /\ calls[t] > 0 /\ calls' = [calls EXCEPT ![t] = @ - 1]
    BY DEF TypeOK, call_wait, call_release, Call
  <2> QED
    BY <2>1
<1>4. held' \in [Threads -> Nat]
  <2>1. held \in [Threads -> Nat]
    BY DEF TypeOK
  <2>2. \/ held[t] > 0 /\ held' = [held EXCEPT ![t] = @ - 1]
        \/ UNCHANGED held
    BY DEF call_wait, call_release
  <2> QED
    BY <2>1, <2>2
<1>5. paired' \in BOOLEAN
  <2>1. paired' = FALSE \/ UNCHANGED paired
    BY DEF call_wait, call_release
  <2>2. paired \in BOOLEAN
    BY DEF TypeOK
  <2> QED
    BY <2>1, <2>2
<1>6. UNCHANGED <<threadVars, queueVars, spinlock, counter>>
  BY DEF call_wait, call_release
<1> QED
  BY <1>2, <1>3, <1>4, <1>5, <1>6
     DEF TypeOK, ThreadsTypeOK, QueueTypeOK, threadVars, queueVars

LEMMA WaitTyped ==
  ASSUME TypeOK, NEW t \in Threads, wait(t)
  PROVE  TypeOK'
<1> USE DEF TypeOK, At, QAt, Goto, SemaphoreLabels
<1>1. CASE w_lock(t)
  BY <1>1 DEF w_lock, ThreadsTypeOK, QueueTypeOK, threadVars, queueVars
<1>2. CASE w_test(t)
  BY <1>2 DEF w_test, ThreadsTypeOK, QueueTypeOK, threadVars, queueVars
<1>3. CASE w_count(t)
  BY <1>3 DEF w_count, ThreadsTypeOK, QueueTypeOK, threadVars, queueVars
<1>4. CASE w_unlock(t)
  BY <1>4 DEF w_unlock, ThreadsTypeOK, QueueTypeOK, threadVars, queueVars
<1>5. CASE w_block(t)
  <2>1. QueueTypeOK'
    BY <1>5, EnterTyped DEF w_block
  <2>2. ThreadsTypeOK'
    BY <1>5 DEF w_block, ThreadsTypeOK, threadVars
  <2> QED
    BY <1>5, <2>1, <2>2 DEF w_block
<1>6. CASE w_spin(t)
  BY <1>6 DEF w_spin, ThreadsTypeOK, QueueTypeOK, threadVars, queueVars
<1> QED
  BY <1>1, <1>2, <1>3, <1>4, <1>5, <1>6 DEF wait

LEMMA ReleaseTyped ==
  ASSUME TypeOK, NEW t \in Threads, release(t)
  PROVE  TypeOK'
<1> USE DEF TypeOK, At, QAt, Goto, SemaphoreLabels
<1>1. CASE r_lock(t)
  BY <1>1 DEF r_lock, ThreadsTypeOK, QueueTypeOK, threadVars, queueVars
<1>2. CASE r_refuse(t)
  BY <1>2 DEF r_refuse, ThreadsTypeOK, QueueTypeOK, threadVars, queueVars
<1>3. CASE r_test(t)
  BY <1>3 DEF r_test, ThreadsTypeOK, QueueTypeOK, threadVars, queueVars
<1>4. CASE r_count(t)
  BY <1>4 DEF r_count, ThreadsTypeOK, QueueTypeOK, threadVars, queueVars
<1>5. CASE r_unlock(t)
  <2>1. QueueTypeOK'
    BY <1>5, EnterTyped DEF r_unlock
  <2>2. ThreadsTypeOK'
    BY <1>5 DEF r_unlock, ThreadsTypeOK, threadVars
  <2> QED
    BY <1>5, <2>1, <2>2 DEF r_unlock
<1>6. CASE r_return(t)
  BY <1>6 DEF r_return, ThreadsTypeOK, QueueTypeOK, threadVars, queueVars
<1> QED
  BY <1>1, <1>2, <1>3, <1>4, <1>5, <1>6 DEF release

-----------------------------------------------------------------------------
\* The steps of the two routines and of their callers keep the counter's part.
CountInv == LockInv /\ TestedInv /\ CounterInRange /\ StuckByRefusal

LEMMA CallKeepsCount ==
  ASSUME TypeOK, CountInv, NEW t \in Threads, call_wait(t) \/ call_release(t)
  PROVE  CountInv'
<1>1. spc \in [Threads -> SemaphoreLabels]
  BY DEF TypeOK
<1>2. spc[t] = "run" /\ UNCHANGED <<spinlock, counter>>
      /\ (spc' = [spc EXCEPT ![t] = "r_lock"] \/ spc' = [spc EXCEPT ![t] = "w_lock"])
  BY DEF call_wait, call_release, Call, At, Goto, semaphoreMethods
<1> QED
  BY <1>1, <1>2
     DEF CountInv, LockInv, TestedInv, HoldsLock, CounterInRange, StuckByRefusal, Stuck

LEMMA WaitKeepsCount ==
  ASSUME TypeOK, CountInv, NEW t \in Threads, wait(t)
  PROVE  CountInv'
<1>0. spc \in [Threads -> SemaphoreLabels] /\ spinlock \in {0, 1} /\ counter \in Int
  BY DEF TypeOK
<1> USE <1>0, LimitsAssumption
    DEF CountInv, LockInv, TestedInv, HoldsLock, CounterInRange, StuckByRefusal, Stuck,
        At, Goto
<1>1. CASE w_lock(t)
  BY <1>1 DEF w_lock
<1>2. CASE w_test(t)
  BY <1>2 DEF w_test
<1>3. CASE w_count(t)
  BY <1>3 DEF w_count
<1>4. CASE w_unlock(t)
  BY <1>4 DEF w_unlock
<1>5. CASE w_block(t)
  BY <1>5 DEF w_block
<1>6. CASE w_spin(t)
  BY <1>6 DEF w_spin
<1> QED
  BY <1>1, <1>2, <1>3, <1>4, <1>5, <1>6 DEF wait

LEMMA ReleaseKeepsCount ==
  ASSUME TypeOK, CountInv, NEW t \in Threads, release(t)
  PROVE  CountInv'
<1>0. spc \in [Threads -> SemaphoreLabels] /\ spinlock \in {0, 1} /\ counter \in Int
  BY DEF TypeOK
<1> USE <1>0, LimitsAssumption
    DEF CountInv, LockInv, TestedInv, HoldsLock, CounterInRange, StuckByRefusal, Stuck,
        At, Goto
<1>1. CASE r_lock(t)
  BY <1>1 DEF r_lock
<1>2. CASE r_refuse(t)
  BY <1>2 DEF r_refuse
<1>3. CASE r_test(t)
  BY <1>3 DEF r_test
<1>4. CASE r_count(t)
  BY <1>4 DEF r_count
<1>5. CASE r_unlock(t)
  BY <1>5 DEF r_unlock
<1>6. CASE r_return(t)
  BY <1>6 DEF r_return
<1> QED
  BY <1>1, <1>2, <1>3, <1>4, <1>5, <1>6 DEF release

LEMMA NextKeepsInv == IInv /\ [Next]_vars => IInv'
<1>1. ASSUME IInv, NEW t \in Workers, Step(t)
      PROVE  IInv'
  BY <1>1, WorkersAreThreads, InQueueKeepsInv, CallTyped, WaitTyped, ReleaseTyped,
     CallKeepsCount, WaitKeepsCount, ReleaseKeepsCount
     DEF Step, IInv, CountInv
<1>2. ASSUME IInv, UNCHANGED <<isUnderSheduling, state, queueVars, semaphoreVars>>,
             currThreadIndex' \in Threads
      PROVE  IInv'
  BY <1>2 DEF IInv, TypeOK, ThreadsTypeOK, QueueTypeOK, queueVars, semaphoreVars, LockInv,
              TestedInv, HoldsLock, CounterInRange, StuckByRefusal, Stuck
<1>3. IInv /\ Tick => IInv'
  BY <1>2 DEF Tick, change_thread, Threads
<1>4. IInv /\ UNCHANGED vars => IInv'
  BY <1>2 DEF vars, threadVars, IInv, TypeOK, ThreadsTypeOK
<1> QED
  BY <1>1, <1>3, <1>4 DEF Next

\* The inductive invariant holds in every state of every behaviour.
THEOREM Invariance == Spec => []IInv
BY InitInv, NextKeepsInv, PTL DEF Spec

\* Every variable keeps to its type; both spin locks are 0 or 1 at all times.
THEOREM TypeCorrect == Spec => []TypeOK
<1>1. IInv => TypeOK
  BY DEF IInv
<1> QED
  BY <1>1, Invariance, PTL

\* The counter stays between min - 1 and max (wait and release of semaphore.c).
THEOREM CounterBounded == Spec => []CounterInRange
<1>1. IInv => CounterInRange
  BY DEF IInv
<1> QED
  BY <1>1, Invariance, PTL

\* Nothing but a refusal leaves the spin lock taken with nobody inside
\* (the early branch of release, semaphore.c:31-35).
THEOREM OnlyRefusalSticks == Spec => []StuckByRefusal
<1>1. IInv => StuckByRefusal
  BY DEF IInv
<1> QED
  BY <1>1, Invariance, PTL

-----------------------------------------------------------------------------
(* Sums over the threads. SumFunction adds up along a recursion over the   *)
(* subsets of its domain, so what it gives is proved by least              *)
(* counterexamples: a set of subsets has one none of whose elements can be *)
(* left out.                                                               *)

Chosen(S) == CHOOSE x \in S : TRUE

\* Who sums f over every set of threads.
SumsUp(s, f) ==
  /\ s \in [SUBSET Threads -> Int]
  /\ \A S \in SUBSET Threads :
        s[S] = IF S = {} THEN 0 ELSE f[Chosen(S)] + s[S \ {Chosen(S)}]

LEMMA SetsAreFinite ==
  ASSUME NEW S \in SUBSET Threads
  PROVE  /\ Cardinality(S) \in Nat /\ Cardinality(S) <= NumThreads
         /\ Cardinality(S) = 0 => S = {}
         /\ \A x \in S : Cardinality(S \ {x}) = Cardinality(S) - 1
<1>1. IsFiniteSet(Threads) /\ Cardinality(Threads) = NumThreads
  BY NumThreadsAssumption, FS_Interval DEF Threads
<1>2. IsFiniteSet(S) /\ Cardinality(S) <= NumThreads
  BY <1>1, FS_Subset
<1> QED
  BY <1>2, FS_CardinalityType, FS_EmptySet, FS_RemoveElement

LEMMA LeastSet ==
  ASSUME NEW Bad \in SUBSET (SUBSET Threads), Bad # {}
  PROVE  \E S \in Bad : \A x \in S : S \ {x} \notin Bad
<1> DEFINE Sizes == {Cardinality(S) : S \in Bad}
<1>1. Sizes \in SUBSET Nat /\ Sizes # {}
  BY SetsAreFinite
<1>2. PICK m \in Sizes : \A n \in Sizes : m <= n
  <2> HIDE DEF Sizes
  <2> QED BY <1>1, LeastNat
<1>3. PICK S \in Bad : Cardinality(S) = m
  BY <1>2
<1>4. ASSUME NEW x \in S, S \ {x} \in Bad PROVE FALSE
  <2>1. Cardinality(S \ {x}) = m - 1 /\ m \in Nat
    BY <1>3, SetsAreFinite
  <2>2. m <= Cardinality(S \ {x})
    BY <1>2, <1>4
  <2> QED
    BY <2>1, <2>2
<1> QED
  BY <1>4

LEMMA ChosenIn == ASSUME NEW S, S # {} PROVE Chosen(S) \in S
BY DEF Chosen

LEMMA SumExists ==
  ASSUME NEW f \in [Threads -> Int]
  PROVE  \E s : SumsUp(s, f)
<1> DEFINE Small(n) == {S \in SUBSET Threads : Cardinality(S) <= n}
           Sums(s, n) ==
             /\ s \in [Small(n) -> Int]
             /\ \A S \in Small(n) :
                   s[S] = IF S = {} THEN 0 ELSE f[Chosen(S)] + s[S \ {Chosen(S)}]
           Bad == {n \in Nat : ~ \E s : Sums(s, n)}
<1>1. Bad = {}
  <2> SUFFICES ASSUME Bad # {} PROVE FALSE
    OBVIOUS
  <2>1. PICK m \in Bad : \A k \in Bad : m <= k
    <3> Bad \in SUBSET Nat
      OBVIOUS
    <3> HIDE DEF Bad
    <3> QED BY LeastNat
  <2>2. m # 0
    <3>1. \A S \in Small(0) : S = {}
      BY SetsAreFinite
    <3> DEFINE zero == [S \in Small(0) |-> 0]
    <3>2. Sums(zero, 0)
      <4> HIDE DEF Small
      <4> QED BY <3>1
    <3>3. 0 \notin Bad
      <4> HIDE DEF Sums, zero
      <4> QED BY <3>2
    <3> QED
      BY <3>3
  <2>3. m - 1 \in Nat /\ m - 1 \notin Bad
    <3>1. m \in Nat
      OBVIOUS
    <3> HIDE DEF Bad
    <3> QED BY <2>1, <2>2, <3>1
  <2>4. PICK s : Sums(s, m - 1)
    BY <2>3
  <2> DEFINE r == [S \in Small(m) |->
                     IF S = {} THEN 0 ELSE f[Chosen(S)] + s[S \ {Chosen(S)}]]
  <2>5. ASSUME NEW S \in Small(m), S # {}
        PROVE  Chosen(S) \in Threads /\ S \ {Chosen(S)} \in Small(m - 1)
    <3>1. Chosen(S) \in S
      BY <2>5, ChosenIn
    <3>2. Cardinality(S \ {Chosen(S)}) = Cardinality(S) - 1 /\ Cardinality(S) \in Nat
      BY <3>1, SetsAreFinite
    <3> QED
      BY <3>1, <3>2, <2>3
  <2>6. r \in [Small(m) -> Int]
    <3>1. ASSUME NEW S \in Small(m), S # {}
          PROVE  f[Chosen(S)] + s[S \ {Chosen(S)}] \in Int
      <4>1. f[Chosen(S)] \in Int /\ s[S \ {Chosen(S)}] \in Int
        BY <2>4, <2>5, <3>1
      <4> QED
        BY <4>1
    <3> HIDE DEF Small
    <3> QED
      BY <3>1
  <2>7. ASSUME NEW S \in Small(m - 1) PROVE S \in Small(m) /\ r[S] = s[S]
    <3>1. S \in Small(m)
      BY <2>3, <2>7, SetsAreFinite
    <3>2. s[S] = IF S = {} THEN 0 ELSE f[Chosen(S)] + s[S \ {Chosen(S)}]
      BY <2>4
    <3> HIDE DEF Small
    <3> QED
      BY <3>1, <3>2
  <2>8. ASSUME NEW S \in Small(m)
        PROVE  r[S] = IF S = {} THEN 0 ELSE f[Chosen(S)] + r[S \ {Chosen(S)}]
    <3> HIDE DEF Small
    <3>1. S # {} => r[S \ {Chosen(S)}] = s[S \ {Chosen(S)}]
      BY <2>5, <2>7
    <3> QED
      BY <3>1
  <2>9. Sums(r, m)
    <3> HIDE DEF r
    <3> QED BY <2>6, <2>8
  <2> QED
    BY <2>9
<1>2. NumThreads \in Nat /\ Small(NumThreads) = SUBSET Threads
  BY NumThreadsAssumption, SetsAreFinite
<1>3. PICK s : Sums(s, NumThreads)
  BY <1>1, <1>2
<1>4. SumsUp(s, f)
  <2> HIDE DEF Small
  <2> QED BY <1>2, <1>3 DEF SumsUp
<1> QED
  BY <1>4

LEMMA SumIs ==
  ASSUME NEW f \in [Threads -> Int]
  PROVE  \E s : SumsUp(s, f) /\ SumFunction(f) = s[Threads]
<1> DEFINE Rec(s) == s = [S \in SUBSET Threads |->
                            IF S = {} THEN 0 ELSE f[Chosen(S)] + s[S \ {Chosen(S)}]]
           sum == CHOOSE s : Rec(s)
<1>1. SumFunction(f) = sum[Threads]
  <2>1. DOMAIN f = Threads
    OBVIOUS
  <2> QED
    BY <2>1 DEF SumFunction, SumFunctionOnSet, FoldFunctionOnSet, MapThenFoldSet, Chosen
<1>2. PICK s : SumsUp(s, f)
  BY SumExists
<1>3. Rec(s)
  BY <1>2 DEF SumsUp
<1>4. Rec(sum)
  <2> HIDE DEF Rec
  <2> QED BY <1>3
<1>5. \A S \in SUBSET Threads :
        sum[S] = IF S = {} THEN 0 ELSE f[Chosen(S)] + sum[S \ {Chosen(S)}]
  <2> HIDE DEF sum
  <2> QED BY <1>4
<1>6. ASSUME NEW S \in SUBSET Threads PROVE sum[S] \in Int
  <2> HIDE DEF sum
  <2> DEFINE Bad == {R \in SUBSET Threads : sum[R] \notin Int}
  <2>1. ASSUME Bad # {} PROVE FALSE
    <3>1. PICK R \in Bad : \A x \in R : R \ {x} \notin Bad
      <4> HIDE DEF Bad
      <4>1. Bad \in SUBSET (SUBSET Threads)
        BY DEF Bad
      <4> QED BY <2>1, <4>1, LeastSet
    <3>2. R # {}
      <4>1. {} \in SUBSET Threads /\ sum[{}] = 0
        BY <1>5
      <4> QED
        BY <4>1
    <3>3. Chosen(R) \in R /\ R \ {Chosen(R)} \notin Bad
      BY <3>1, <3>2, ChosenIn
    <3>4. f[Chosen(R)] \in Int /\ sum[R \ {Chosen(R)}] \in Int
      BY <3>3
    <3>5. sum[R] = f[Chosen(R)] + sum[R \ {Chosen(R)}]
      BY <1>5, <3>2
    <3> QED
      BY <3>4, <3>5
  <2> QED
    BY <2>1
<1>7. sum \in [SUBSET Threads -> Int]
  <2>1. sum = [S \in SUBSET Threads |-> sum[S]]
    <3> HIDE DEF sum
    <3> QED BY <1>4
  <2> HIDE DEF sum
  <2> QED BY <1>6, <2>1
<1>8. SumsUp(sum, f)
  <2> HIDE DEF sum
  <2> QED BY <1>5, <1>7 DEF SumsUp
<1> QED
  BY <1>1, <1>8

\* The sum of nothing but zeros.
LEMMA SumOfZeros ==
  ASSUME NEW f \in [Threads -> Int], \A t \in Threads : f[t] = 0
  PROVE  SumFunction(f) = 0
<1>1. PICK s : SumsUp(s, f) /\ SumFunction(f) = s[Threads]
  BY SumIs
<1> DEFINE Bad == {S \in SUBSET Threads : s[S] # 0}
<1>2. ASSUME Bad # {} PROVE FALSE
  <2>1. PICK S \in Bad : \A x \in S : S \ {x} \notin Bad
    <3>1. Bad \in SUBSET (SUBSET Threads)
      OBVIOUS
    <3> HIDE DEF Bad
    <3> QED BY <1>2, <3>1, LeastSet
  <2>2. S # {}
    <3>1. {} \in SUBSET Threads /\ s[{}] = 0
      BY <1>1 DEF SumsUp
    <3> QED
      BY <3>1
  <2>3. Chosen(S) \in S /\ s[S \ {Chosen(S)}] = 0
    BY <2>1, <2>2, ChosenIn
  <2> QED
    BY <1>1, <2>2, <2>3 DEF SumsUp
<1> QED
  BY <1>1, <1>2

\* No sum of natural numbers is below one of them.
LEMMA SumAtLeast ==
  ASSUME NEW f \in [Threads -> Nat], NEW t \in Threads
  PROVE  SumFunction(f) \in Int /\ SumFunction(f) >= f[t]
<1>1. PICK s : SumsUp(s, f) /\ SumFunction(f) = s[Threads]
  BY SumIs
<1> DEFINE Bad == {S \in SUBSET Threads : ~(s[S] >= IF t \in S THEN f[t] ELSE 0)}
<1>2. ASSUME Bad # {} PROVE FALSE
  <2>1. PICK S \in Bad : \A x \in S : S \ {x} \notin Bad
    <3>1. Bad \in SUBSET (SUBSET Threads)
      OBVIOUS
    <3> HIDE DEF Bad
    <3> QED BY <1>2, <3>1, LeastSet
  <2>2. S # {}
    <3>1. {} \in SUBSET Threads /\ s[{}] = 0
      BY <1>1 DEF SumsUp
    <3> QED
      BY <3>1
  <2> DEFINE x == Chosen(S)
             R == S \ {x}
  <2>3. x \in S /\ R \in SUBSET Threads /\ s[R] >= IF t \in R THEN f[t] ELSE 0
    BY <2>1, <2>2, ChosenIn
  <2>4. s[S] = f[x] + s[R] /\ s[R] \in Int /\ f[x] \in Nat /\ f[t] \in Nat
    BY <1>1, <2>2, <2>3 DEF SumsUp
  <2>5. t \in S => t = x \/ t \in R
    OBVIOUS
  <2>6. s[S] >= IF t \in S THEN f[t] ELSE 0
    <3> HIDE DEF x, R
    <3> QED BY <2>3, <2>4, <2>5
  <2> QED
    BY <2>6
<1>3. Threads \notin Bad
  BY <1>2
<1> QED
  BY <1>1, <1>3 DEF SumsUp

\* Term by term no smaller, then no smaller altogether.
LEMMA SumMonotone ==
  ASSUME NEW f \in [Threads -> Int], NEW g \in [Threads -> Int],
         \A t \in Threads : f[t] <= g[t]
  PROVE  SumFunction(f) \in Int /\ SumFunction(g) \in Int /\ SumFunction(f) <= SumFunction(g)
<1>1. PICK s : SumsUp(s, f) /\ SumFunction(f) = s[Threads]
  BY SumIs
<1>2. PICK r : SumsUp(r, g) /\ SumFunction(g) = r[Threads]
  BY SumIs
<1> DEFINE Bad == {S \in SUBSET Threads : ~(s[S] <= r[S])}
<1>3. ASSUME Bad # {} PROVE FALSE
  <2>1. PICK S \in Bad : \A x \in S : S \ {x} \notin Bad
    <3>1. Bad \in SUBSET (SUBSET Threads)
      OBVIOUS
    <3> HIDE DEF Bad
    <3> QED BY <1>3, <3>1, LeastSet
  <2>2. S # {}
    <3>1. {} \in SUBSET Threads /\ s[{}] = 0 /\ r[{}] = 0
      BY <1>1, <1>2 DEF SumsUp
    <3> QED
      BY <3>1
  <2> DEFINE x == Chosen(S)
             R == S \ {x}
  <2>3. x \in S /\ R \in SUBSET Threads /\ s[R] <= r[R]
    BY <2>1, <2>2, ChosenIn
  <2>4. /\ s[S] = f[x] + s[R] /\ r[S] = g[x] + r[R]
        /\ s[R] \in Int /\ r[R] \in Int /\ f[x] \in Int /\ g[x] \in Int /\ f[x] <= g[x]
    BY <1>1, <1>2, <2>2, <2>3 DEF SumsUp
  <2>5. s[S] <= r[S]
    <3> HIDE DEF x, R
    <3> QED BY <2>3, <2>4
  <2> QED
    BY <2>5
<1> QED
  BY <1>1, <1>2, <1>3 DEF SumsUp

\* What changes at one thread changes the sum.
LEMMA SumOfChange ==
  ASSUME NEW f \in [Threads -> Int], NEW g \in [Threads -> Int], NEW t \in Threads,
         \A u \in Threads \ {t} : g[u] = f[u]
  PROVE  /\ SumFunction(f) \in Int
         /\ SumFunction(g) = SumFunction(f) + (g[t] - f[t])
<1>1. PICK s : SumsUp(s, f) /\ SumFunction(f) = s[Threads]
  BY SumIs
<1>2. PICK r : SumsUp(r, g) /\ SumFunction(g) = r[Threads]
  BY SumIs
<1> DEFINE d == g[t] - f[t]
           Bad == {S \in SUBSET Threads : r[S] # s[S] + IF t \in S THEN d ELSE 0}
<1>3. ASSUME Bad # {} PROVE FALSE
  <2>1. PICK S \in Bad : \A x \in S : S \ {x} \notin Bad
    <3>1. Bad \in SUBSET (SUBSET Threads)
      OBVIOUS
    <3> HIDE DEF Bad
    <3> QED BY <1>3, <3>1, LeastSet
  <2>2. S # {}
    <3>1. {} \in SUBSET Threads /\ s[{}] = 0 /\ r[{}] = 0
      BY <1>1, <1>2 DEF SumsUp
    <3>2. {} \notin Bad
      BY <3>1
    <3> QED
      BY <3>2
  <2> DEFINE x == Chosen(S)
             R == S \ {x}
  <2>3. x \in S /\ R \in SUBSET Threads /\ r[R] = s[R] + IF t \in R THEN d ELSE 0
    BY <2>1, <2>2, ChosenIn
  <2>4. /\ s[S] = f[x] + s[R] /\ r[S] = g[x] + r[R]
        /\ s[R] \in Int /\ r[R] \in Int /\ f[x] \in Int /\ g[x] \in Int
        /\ x # t => g[x] = f[x]
    BY <1>1, <1>2, <2>2, <2>3 DEF SumsUp
  <2>5. /\ t \in S <=> t = x \/ t \in R
        /\ t = x => t \notin R
    BY <2>3
  <2>6. r[S] = s[S] + IF t \in S THEN d ELSE 0
    <3>1. f[t] \in Int /\ g[t] \in Int
      OBVIOUS
    <3> HIDE DEF x, R
    <3>2. CASE t = x
      BY <2>3, <2>4, <2>5, <3>1, <3>2
    <3>3. CASE t # x
      BY <2>3, <2>4, <2>5, <3>1, <3>3
    <3> QED
      BY <3>2, <3>3
  <2> QED
    BY <2>6
<1> QED
  BY <1>1, <1>2, <1>3 DEF SumsUp

-----------------------------------------------------------------------------
(* The permits. Each is with a thread that holds it, on its way out of the *)
(* routine release, or on its way into the count of the routine wait: the  *)
(* counter lacks exactly these, and one more is held after a refusal. So a *)
(* thread that gives one back finds the counter below max and does not     *)
(* sleep.                                                                  *)

\* The permits t has from the counter, with the one it is about to report or return.
OnTheWay(t) == spc[t] \in {"r_unlock", "r_wake", "w_lock", "w_test", "w_count"}
Due == [t \in Threads |-> held[t] + IF OnTheWay(t) THEN 1 ELSE 0]

PermitInv ==
  paired =>
    /\ SumFunction(Due) = MaxCount - counter + IF Stuck THEN 1 ELSE 0
    /\ PairedReleaseNeverSleeps

LEMMA DueTyped == TypeOK => Due \in [Threads -> Nat] /\ \A t \in Threads : held[t] <= Due[t]
BY DEF TypeOK, Due

LEMMA InitPermits == Init => PermitInv
<1> SUFFICES ASSUME Init PROVE PermitInv
  OBVIOUS
<1>1. Due \in [Threads -> Int] /\ \A t \in Threads : Due[t] = 0 /\ spc[t] # "w_spin"
  BY DEF Init, Due, OnTheWay
<1>2. SumFunction(Due) = 0
  BY <1>1, SumOfZeros
<1>3. ~Stuck /\ counter = MaxCount
  BY DEF Init, Stuck
<1> QED
  BY <1>1, <1>2, <1>3, LimitsAssumption DEF PermitInv, PairedReleaseNeverSleeps

\* The books of a step: what it adds to t's permits it takes off the counter, but for a
\* refusal. Here the spin lock matters: whoever holds it rules out that it is stuck.
LEMMA CallBooks ==
  ASSUME TypeOK, NEW t \in Threads, call_wait(t) \/ call_release(t), paired'
  PROVE  /\ paired /\ spc'[t] # "w_spin" /\ Stuck' = Stuck /\ counter' = counter
         /\ \A u \in Threads \ {t} : held'[u] = held[u] /\ spc'[u] = spc[u]
         /\ held'[t] + (IF OnTheWay(t)' THEN 1 ELSE 0) = held[t] + IF OnTheWay(t) THEN 1 ELSE 0
<1> USE DEF TypeOK, OnTheWay, Stuck, HoldsLock, Call, At, Goto, semaphoreMethods
<1>1. CASE call_wait(t)
  BY <1>1 DEF call_wait
<1>2. CASE call_release(t)
  <2>1. held[t] > 0 /\ held' = [held EXCEPT ![t] = @ - 1] /\ UNCHANGED paired
    BY <1>2 DEF call_release
  <2> QED
    BY <1>2, <2>1 DEF call_release
<1> QED
  BY <1>1, <1>2

LEMMA WaitBooks ==
  ASSUME TypeOK, CountInv, NEW t \in Threads, wait(t)
  PROVE  /\ paired' = paired /\ held' = held
         /\ (Stuck \/ Stuck') => (Stuck /\ Stuck')
         /\ \A u \in Threads \ {t} : spc'[u] = spc[u]
         /\ counter' \in Int
         /\ \/ /\ counter' = counter /\ spc'[t] # "w_spin"
               /\ OnTheWay(t)' <=> OnTheWay(t)
            \/ /\ counter' = counter + 1 /\ spc'[t] # "w_spin"
               /\ OnTheWay(t) /\ ~OnTheWay(t)'
            \/ counter >= MaxCount /\ OnTheWay(t) /\ ~Stuck
            \/ spc[t] = "w_spin"
<1>0. spc \in [Threads -> SemaphoreLabels] /\ spinlock \in {0, 1} /\ counter \in Int
  BY DEF TypeOK
<1> USE <1>0, LimitsAssumption DEF CountInv, LockInv, OnTheWay, Stuck, HoldsLock, At, Goto
<1>1. CASE w_lock(t)
  BY <1>1 DEF w_lock
<1>2. CASE w_test(t)
  BY <1>2 DEF w_test
<1>3. CASE w_count(t)
  BY <1>3 DEF w_count
<1>4. CASE w_unlock(t)
  BY <1>4 DEF w_unlock
<1>5. CASE w_block(t)
  BY <1>5 DEF w_block
<1>6. CASE w_spin(t)
  BY <1>6 DEF w_spin
<1> QED
  BY <1>1, <1>2, <1>3, <1>4, <1>5, <1>6 DEF wait

LEMMA ReleaseBooks ==
  ASSUME TypeOK, CountInv, NEW t \in Threads, release(t)
  PROVE  /\ paired' = paired /\ spc'[t] # "w_spin"
         /\ \A u \in Threads \ {t} : held'[u] = held[u] /\ spc'[u] = spc[u]
         /\ counter' \in Int /\ held'[t] \in Int
         /\ held'[t] + (IF OnTheWay(t)' THEN 1 ELSE 0) + counter' + (IF Stuck THEN 1 ELSE 0)
              = held[t] + (IF OnTheWay(t) THEN 1 ELSE 0) + counter + IF Stuck' THEN 1 ELSE 0
<1>0. spc \in [Threads -> SemaphoreLabels] /\ spinlock \in {0, 1} /\ counter \in Int
      /\ held \in [Threads -> Nat]
  BY DEF TypeOK
<1> USE <1>0 DEF CountInv, LockInv, OnTheWay, Stuck, HoldsLock, At, Goto
<1>1. CASE r_lock(t)
  BY <1>1 DEF r_lock
<1>2. CASE r_refuse(t)
  BY <1>2 DEF r_refuse
<1>3. CASE r_test(t)
  BY <1>3 DEF r_test
<1>4. CASE r_count(t)
  BY <1>4 DEF r_count
<1>5. CASE r_unlock(t)
  BY <1>5 DEF r_unlock
<1>6. CASE r_return(t)
  BY <1>6 DEF r_return
<1> QED
  BY <1>1, <1>2, <1>3, <1>4, <1>5, <1>6 DEF release

\* A step that keeps the books keeps the invariant.
LEMMA BooksKeepPermits ==
  ASSUME TypeOK, TypeOK', PermitInv, paired, NEW t \in Threads, spc'[t] # "w_spin",
         \A u \in Threads \ {t} : held'[u] = held[u] /\ spc'[u] = spc[u],
         held'[t] + (IF OnTheWay(t)' THEN 1 ELSE 0) + counter' + (IF Stuck THEN 1 ELSE 0)
           = held[t] + (IF OnTheWay(t) THEN 1 ELSE 0) + counter + IF Stuck' THEN 1 ELSE 0
  PROVE  PermitInv'
<1>1. Due \in [Threads -> Int] /\ Due' \in [Threads -> Int]
  BY DEF TypeOK, Due
<1>2. \A u \in Threads \ {t} : Due'[u] = Due[u]
  BY DEF Due, OnTheWay
<1>3. /\ SumFunction(Due) \in Int
      /\ SumFunction(Due') = SumFunction(Due) + (Due'[t] - Due[t])
  BY <1>1, <1>2, SumOfChange
<1>4. SumFunction(Due)' = SumFunction(Due')
  BY DEF SumFunction, SumFunctionOnSet, FoldFunctionOnSet, MapThenFoldSet
<1>5. /\ Due'[t] = held'[t] + IF OnTheWay(t)' THEN 1 ELSE 0
      /\ Due[t] = held[t] + IF OnTheWay(t) THEN 1 ELSE 0
  BY DEF Due
<1>6. SumFunction(Due)' = MaxCount - counter' + IF Stuck' THEN 1 ELSE 0
  <2> DEFINE one == IF Stuck THEN 1 ELSE 0
             two == IF Stuck' THEN 1 ELSE 0
  <2>1. SumFunction(Due) = MaxCount - counter + one /\ one \in Int /\ two \in Int
    BY DEF PermitInv
  <2>2. /\ counter \in Int /\ counter' \in Int /\ Due[t] \in Int /\ Due'[t] \in Int
        /\ Due'[t] + counter' + one = Due[t] + counter + two
    BY <1>1, <1>5 DEF TypeOK
  <2>3. SumFunction(Due)' = MaxCount - counter' + two
    <3> HIDE DEF one, two
    <3> QED BY <1>3, <1>4, <2>1, <2>2, LimitsAssumption
  <2> QED
    BY <2>3
<1>7. PairedReleaseNeverSleeps'
  BY DEF PermitInv, PairedReleaseNeverSleeps
<1> QED
  BY <1>6, <1>7 DEF PermitInv

LEMMA StepKeepsPermits ==
  ASSUME IInv, IInv', PermitInv, NEW t \in Threads,
         call_wait(t) \/ call_release(t) \/ wait(t) \/ release(t)
  PROVE  PermitInv'
<1> SUFFICES ASSUME paired' PROVE PermitInv'
  BY DEF PermitInv
<1>0. /\ TypeOK /\ TypeOK' /\ CountInv
      /\ counter \in Int /\ counter' \in Int
      /\ held \in [Threads -> Nat] /\ held' \in [Threads -> Nat]
  BY DEF IInv, TypeOK, CountInv
<1>1. CASE call_wait(t) \/ call_release(t)
  BY <1>0, <1>1, CallBooks, BooksKeepPermits
<1>2. CASE wait(t)
  <2>1. /\ paired /\ held' = held
        /\ (Stuck \/ Stuck') => (Stuck /\ Stuck')
        /\ \A u \in Threads \ {t} : spc'[u] = spc[u]
        /\ \/ /\ counter' = counter /\ spc'[t] # "w_spin"
              /\ OnTheWay(t)' <=> OnTheWay(t)
           \/ /\ counter' = counter + 1 /\ spc'[t] # "w_spin"
              /\ OnTheWay(t) /\ ~OnTheWay(t)'
           \/ counter >= MaxCount /\ OnTheWay(t) /\ ~Stuck
           \/ spc[t] = "w_spin"
    BY <1>0, <1>2, WaitBooks
  <2>2. spc[t] # "w_spin" /\ SumFunction(Due) = MaxCount - counter + IF Stuck THEN 1 ELSE 0
    BY <2>1 DEF PermitInv, PairedReleaseNeverSleeps
  <2>3. ASSUME counter >= MaxCount, OnTheWay(t), ~Stuck PROVE FALSE
    <3>1. SumFunction(Due) >= Due[t] /\ Due[t] >= 1
      BY <1>0, <2>3, DueTyped, SumAtLeast DEF Due
    <3> QED
      BY <1>0, <2>2, <2>3, <3>1, DueTyped, LimitsAssumption
  <2>4. /\ spc'[t] # "w_spin"
        /\ held'[t] + (IF OnTheWay(t)' THEN 1 ELSE 0) + counter' + (IF Stuck THEN 1 ELSE 0)
             = held[t] + (IF OnTheWay(t) THEN 1 ELSE 0) + counter + IF Stuck' THEN 1 ELSE 0
    BY <1>0, <2>1, <2>2, <2>3
  <2> QED
    BY <1>0, <2>1, <2>4, BooksKeepPermits
<1>3. CASE release(t)
  BY <1>0, <1>3, ReleaseBooks, BooksKeepPermits
<1> QED
  BY <1>1, <1>2, <1>3

LEMMA NextKeepsPermits == IInv /\ IInv' /\ PermitInv /\ [Next]_vars => PermitInv'
<1> SUFFICES ASSUME IInv, IInv', PermitInv, [Next]_vars PROVE PermitInv'
  OBVIOUS
<1>1. ASSUME UNCHANGED semaphoreVars PROVE PermitInv'
  <2>1. UNCHANGED <<spinlock, counter, spc, held, paired>>
    BY <1>1 DEF semaphoreVars
  <2>2. Due' = Due /\ Stuck' = Stuck
    BY <2>1 DEF Due, OnTheWay, Stuck, HoldsLock
  <2>3. SumFunction(Due)' = SumFunction(Due)
    BY <2>2 DEF SumFunction, SumFunctionOnSet, FoldFunctionOnSet, MapThenFoldSet
  <2> QED
    BY <2>1, <2>2, <2>3 DEF PermitInv, PairedReleaseNeverSleeps
<1>2. ASSUME NEW t \in Workers, Step(t) PROVE PermitInv'
  BY <1>1, <1>2, WorkersAreThreads, StepKeepsPermits DEF Step, InQueue
<1> QED
  BY <1>1, <1>2 DEF Next, Tick, vars

\* Each permit is held, on its way or with the counter, at all times.
THEOREM PermitsAccounted == Spec => []PermitInv
BY InitInv, NextKeepsInv, InitPermits, NextKeepsPermits, PTL DEF Spec

\* Callers who release only what they have taken hold no more than the max - min + 1
\* permits until one is refused, however their calls are interleaved and although
\* threads outrun their pauses (the routine release behind the method wait).
THEOREM PermitsKept == Spec => []PermitsRespected
<1>1. IInv /\ PermitInv => PermitsRespected
  <2> SUFFICES ASSUME IInv, PermitInv, paired, ~Stuck
               PROVE  SumFunction(held) <= MaxCount - MinCount + 1
    BY DEF PermitsRespected
  <2>1. /\ Due \in [Threads -> Int] /\ held \in [Threads -> Int]
        /\ \A t \in Threads : held[t] <= Due[t]
    BY DueTyped DEF IInv, TypeOK
  <2>2. SumFunction(held) \in Int /\ SumFunction(held) <= SumFunction(Due)
    BY <2>1, SumMonotone
  <2>3. SumFunction(Due) = MaxCount - counter
    BY LimitsAssumption DEF PermitInv, IInv, TypeOK
  <2> QED
    BY <2>2, <2>3, LimitsAssumption DEF IInv, CounterInRange
<1> QED
  BY <1>1, Invariance, PermitsAccounted, PTL

\* Such callers never sleep in the routine wait, where a sleeper's unit would be lost:
\* who gives a permit back finds the counter below max.
THEOREM NoSleepInRelease == Spec => []PairedReleaseNeverSleeps
<1>1. PermitInv => PairedReleaseNeverSleeps
  BY DEF PermitInv, PairedReleaseNeverSleeps
<1> QED
  BY <1>1, PermitsAccounted, PTL
=============================================================================
