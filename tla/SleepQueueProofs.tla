-------------------------- MODULE SleepQueueProofs --------------------------
(***************************************************************************)
(* Lemmas about SleepQueue that the proofs about the objects built on it   *)
(* share: its routines keep to the types of the thread table and of the    *)
(* queue, and move only the thread that runs them.                         *)
(***************************************************************************)
EXTENDS SleepQueue, FiniteSetTheorems, WellFoundedInduction, TLAPS

LEMMA PointerFacts ==
  /\ NoEntry \in Pointers
  /\ NoThread \in Threads \cup {NoThread}
  /\ Threads \subseteq Pointers
BY DEF Pointers

LEMMA CountStep ==
  ASSUME NEW c \in 0 .. CountRange - 1
  PROVE  Increment(c) \in 0 .. CountRange - 1 /\ Decrement(c) \in 0 .. CountRange - 1
BY CountRangeAssumption, NumThreadsAssumption DEF Increment, Decrement

LEMMA ContentsTyped ==
  ASSUME QueueTypeOK, NEW p, NEW entry \in Contents(p)
  PROVE  entry[1] \in Threads \cup {NoThread} /\ entry[2] \in Pointers
BY DEF QueueTypeOK, Contents, Framed

LEMMA QueueInitTyped == QueueInit => QueueTypeOK
<1> SUFFICES ASSUME QueueInit PROVE QueueTypeOK
  OBVIOUS
<1>1. count \in 0 .. CountRange - 1
  BY NumThreadsAssumption, CountRangeAssumption DEF QueueInit
<1>2. next \in [Threads -> Pointers] /\ head \in Pointers /\ tail \in Pointers
  BY PointerFacts DEF QueueInit
<1>3. qpc \in [Threads -> QueueLabels] /\ target \in [Threads -> Threads \cup {NoThread}]
  BY DEF QueueInit, QueueLabels
<1> QED
  BY <1>1, <1>2, <1>3 DEF QueueInit, QueueTypeOK

LEMMA QueueStepTyped ==
  ASSUME ThreadsTypeOK, QueueTypeOK, NEW t \in Threads, QueueStep(t)
  PROVE  ThreadsTypeOK' /\ QueueTypeOK'
<1>0. ThreadsTypeOK /\ QueueTypeOK
  OBVIOUS
<1>2. CASE qLock(t)
  BY <1>0, <1>2
     DEF qLock, QAt, QGoto, ThreadsTypeOK, QueueTypeOK, threadVars, QueueLabels, WaitLabels
<1>3. CASE qLink(t)
  BY <1>0, <1>3, PointerFacts
     DEF qLink, QAt, QGoto, ThreadsTypeOK, QueueTypeOK, threadVars, QueueLabels, WaitLabels
<1>4. CASE qTail(t)
  BY <1>0, <1>4, PointerFacts, CountStep
     DEF qTail, QAt, QGoto, ThreadsTypeOK, QueueTypeOK, threadVars, QueueLabels, WaitLabels
<1>5. CASE qUnlock(t)
  BY <1>0, <1>5
     DEF qUnlock, QAt, QGoto, ThreadsTypeOK, QueueTypeOK, threadVars, QueueLabels,
         WaitLabels, PauseLabels
<1>6. CASE pState(t)
  BY <1>0, <1>6
     DEF pState, QAt, QGoto, ThreadsTypeOK, QueueTypeOK, ThreadStates, QueueLabels,
         WaitLabels, PauseLabels
<1>7. CASE pUnder(t)
  BY <1>0, <1>7
     DEF pUnder, QAt, QGoto, ThreadsTypeOK, QueueTypeOK, QueueLabels, WaitLabels, PauseLabels
<1>8. CASE pInt(t)
  BY <1>0, <1>8 DEF pInt, QAt, QGoto, ThreadsTypeOK, QueueTypeOK, threadVars, QueueLabels
<1>9. CASE wLock(t)
  BY <1>0, <1>9
     DEF wLock, QAt, QGoto, ThreadsTypeOK, QueueTypeOK, threadVars, QueueLabels, WakeLabels
<1>10. CASE wPop(t)
  <2>1. PICK entry \in Contents(head) :
           /\ head' = entry[2]
           /\ tail' = IF entry[2] = NoEntry THEN NoEntry ELSE tail
           /\ IF entry[1] \in Threads /\ state[entry[1]] = "WAITSLEEPJOIN"
              THEN QGoto(t, "wTest") /\ target' = [target EXCEPT ![t] = entry[1]]
              ELSE QGoto(t, AfterWake) /\ UNCHANGED target
    BY <1>10 DEF wPop
  <2>2. entry[1] \in Threads \cup {NoThread} /\ entry[2] \in Pointers
    BY <1>0, <2>1, ContentsTyped
  <2>3. qpc' \in [Threads -> QueueLabels] /\ target' \in [Threads -> Threads \cup {NoThread}]
    BY <1>0, <2>1, <2>2 DEF QueueTypeOK, QGoto, AfterWake, QueueLabels, WakeLabels
  <2> QED
    BY <1>0, <1>10, <2>1, <2>2, <2>3, PointerFacts, CountStep
       DEF wPop, ThreadsTypeOK, QueueTypeOK, threadVars
<1>11. CASE wEmpty(t)
  BY <1>0, <1>11
     DEF wEmpty, QAt, QGoto, ThreadsTypeOK, QueueTypeOK, threadVars, QueueLabels, WakeLabels
<1>12. CASE wSetState(t)
  BY <1>0, <1>12
     DEF wSetState, QAt, QGoto, ThreadsTypeOK, QueueTypeOK, ThreadStates, QueueLabels, WakeLabels
<1>13. CASE wSetUnder(t)
  BY <1>0, <1>13, PointerFacts
     DEF wSetUnder, QAt, QGoto, ThreadsTypeOK, QueueTypeOK, AfterWake, QueueLabels, WakeLabels
<1>14. CASE wUnlock(t)
  BY <1>0, <1>14 DEF wUnlock, QAt, QGoto, ThreadsTypeOK, QueueTypeOK, threadVars, QueueLabels
<1>15. CASE wTest(t)
  <2>1. QGoto(t, "wSetState") \/ QGoto(t, "wPop") \/ QGoto(t, "wUnlock")
    BY <1>15 DEF wTest, AfterWake
  <2>2. qpc' \in [Threads -> QueueLabels]
    BY <1>0, <2>1 DEF QueueTypeOK, QGoto, QueueLabels, WakeLabels
  <2>3. target' \in [Threads -> Threads \cup {NoThread}]
    BY <1>0, <1>15 DEF QueueTypeOK, wTest
  <2> QED
    BY <1>0, <1>15, <2>2, <2>3 DEF wTest, ThreadsTypeOK, QueueTypeOK, threadVars
<1> QED
  BY <1>2, <1>3, <1>4, <1>5, <1>6, <1>7, <1>8, <1>9, <1>10, <1>11, <1>12, <1>13, <1>14, <1>15
     DEF QueueStep

\* A routine keeps to its own labels until it is over, moves nobody else, and takes
\* a thread off the scheduler only to wait for its wake-up at pInt.
LEMMA QueueStepMoves ==
  ASSUME ThreadsTypeOK, QueueTypeOK, NEW t \in Threads, QueueStep(t)
  PROVE  /\ qpc[t] # "idle"
         /\ \A u \in Threads \ {t} : qpc'[u] = qpc[u]
         /\ qpc'[t] \in WaitLabels => qpc[t] \in WaitLabels
         /\ qpc'[t] \in WakeLabels => qpc[t] \in WakeLabels
         /\ overran => overran'
         /\ \A u \in Threads \ {t} : ~isUnderSheduling'[u] => ~isUnderSheduling[u]
         /\ ~overran' /\ ~isUnderSheduling'[t] =>
              qpc'[t] = "pInt" \/ (~isUnderSheduling[t] /\ qpc[t] # "pInt")
<1> USE DEF ThreadsTypeOK, QueueTypeOK, QAt, QGoto, WaitLabels, WakeLabels, PauseLabels,
            QueueLabels, threadVars
<1>1. CASE qLock(t) \/ qTail(t) \/ qUnlock(t)
  BY <1>1 DEF qLock, qTail, qUnlock
<1>2. CASE qLink(t)
  BY <1>2 DEF qLink
<1>3. CASE pState(t) \/ pUnder(t)
  BY <1>3 DEF pState, pUnder
<1>4. CASE pInt(t)
  BY <1>4 DEF pInt
<1>5. CASE wLock(t) \/ wEmpty(t) \/ wUnlock(t)
  BY <1>5 DEF wLock, wEmpty, wUnlock
<1>6. CASE wPop(t)
  <2>1. QGoto(t, "wTest") \/ QGoto(t, "wPop") \/ QGoto(t, "wUnlock")
    BY <1>6 DEF wPop, AfterWake
  <2> QED
    BY <1>6, <2>1 DEF wPop
<1>7. CASE wTest(t)
  <2>1. QGoto(t, "wSetState") \/ QGoto(t, "wPop") \/ QGoto(t, "wUnlock")
    BY <1>7 DEF wTest, AfterWake
  <2> QED
    BY <1>7, <2>1 DEF wTest
<1>8. CASE wSetState(t) \/ wSetUnder(t)
  BY <1>8 DEF wSetState, wSetUnder, AfterWake
<1> QED
  BY <1>1, <1>2, <1>3, <1>4, <1>5, <1>6, <1>7, <1>8 DEF QueueStep

-----------------------------------------------------------------------------
\* A set of natural numbers that is not empty has a least one.
LEMMA LeastNat ==
  ASSUME NEW S \in SUBSET Nat, S # {}
  PROVE  \E m \in S : \A n \in S : m <= n
<1> DEFINE Below == {ss \in Nat \X Nat : ss[1] < ss[2]}
<1>1. IsWellFoundedOn(Below, Nat)
  BY NatLessThanWellFounded DEF OpToRel
<1>2. PICK m \in S : \A n \in S : <<n, m>> \notin Below
  <2> HIDE DEF Below
  <2> QED BY <1>1, WFMin
<1>3. ASSUME NEW n \in S PROVE m <= n
  <2>1. n \in Nat /\ m \in Nat /\ <<n, m>> \notin Below
    BY <1>2
  <2> QED
    BY <2>1
<1> QED
  BY <1>3

\* The first n steps of the iteration of G from v.
IsWalk(w, n, v, G) == w[0] = v /\ \A k \in 0 .. n - 1 : w[k + 1] = G[w[k]]

LEMMA WalkExists ==
  ASSUME NEW V, NEW v \in V, NEW G \in [V -> V], NEW n \in Nat
  PROVE  \E w \in [0 .. n -> V] : IsWalk(w, n, v, G)
<1> DEFINE Bad == {k \in Nat : ~ \E w \in [0 .. k -> V] : IsWalk(w, k, v, G)}
<1> SUFFICES ASSUME Bad # {} PROVE FALSE
  OBVIOUS
<1>1. PICK m \in Bad : \A k \in Bad : m <= k
  <2> Bad \in SUBSET Nat
    OBVIOUS
  <2> HIDE DEF Bad
  <2> QED BY LeastNat
<1>2. m # 0
  <2> DEFINE one == [k \in 0 .. 0 |-> v]
  <2>1. one \in [0 .. 0 -> V] /\ IsWalk(one, 0, v, G)
    BY DEF IsWalk
  <2> QED
    BY <2>1
<1>3. PICK w \in [0 .. m - 1 -> V] : IsWalk(w, m - 1, v, G)
  <2>1. m - 1 \in Nat /\ ~(m <= m - 1)
    BY <1>2
  <2>2. m - 1 \notin Bad
    BY <1>1, <2>1
  <2> QED
    BY <2>1, <2>2
<1> DEFINE x == [k \in 0 .. m |-> IF k = m THEN G[w[m - 1]] ELSE w[k]]
<1>4. x \in [0 .. m -> V]
  <2>1. w[m - 1] \in V
    BY <1>2
  <2>2. ASSUME NEW k \in 0 .. m, k # m PROVE w[k] \in V
    BY <2>2
  <2> QED
    BY <2>1, <2>2
<1>5. IsWalk(x, m, v, G)
  <2>1. x[0] = v
    BY <1>2, <1>3 DEF IsWalk
  <2>2. ASSUME NEW k \in 0 .. m - 1 PROVE x[k + 1] = G[x[k]]
    <3>1. CASE k = m - 1
      BY <3>1
    <3>2. CASE k # m - 1
      <4>1. k \in 0 .. (m - 1) - 1 /\ k \in 0 .. m /\ k + 1 \in 0 .. m /\ k + 1 # m /\ k # m
        BY <3>2
      <4>2. w[k + 1] = G[w[k]]
        BY <1>3, <4>1 DEF IsWalk
      <4> QED
        BY <4>1, <4>2
    <3> QED
      BY <3>1, <3>2
  <2> QED
    BY <2>1, <2>2 DEF IsWalk
<1> QED
  BY <1>4, <1>5

LEMMA WalksAgree ==
  ASSUME NEW v, NEW G, NEW n \in Nat, NEW w, NEW x, IsWalk(w, n, v, G), IsWalk(x, n, v, G)
  PROVE  \A k \in 0 .. n : w[k] = x[k]
<1> DEFINE Bad == {k \in 0 .. n : w[k] # x[k]}
<1> SUFFICES ASSUME Bad # {} PROVE FALSE
  OBVIOUS
<1>1. PICK m \in Bad : \A k \in Bad : m <= k
  <2> Bad \in SUBSET Nat
    OBVIOUS
  <2> HIDE DEF Bad
  <2> QED BY LeastNat
<1>2. m # 0
  BY DEF IsWalk
<1>3. m - 1 \in 0 .. n - 1 /\ ~(m <= m - 1) /\ m - 1 \in 0 .. n /\ (m - 1) + 1 = m
  BY <1>2
<1>4. w[m - 1] = x[m - 1]
  BY <1>1, <1>3
<1>5. w[(m - 1) + 1] = G[w[m - 1]] /\ x[(m - 1) + 1] = G[x[m - 1]]
  BY <1>3 DEF IsWalk
<1> QED
  BY <1>3, <1>4, <1>5

\* A function can be iterated: recursion on the natural numbers.
LEMMA Iteration ==
  ASSUME NEW V, NEW v \in V, NEW G \in [V -> V]
  PROVE  \E f \in [Nat -> V] : f[0] = v /\ \A k \in Nat : f[k + 1] = G[f[k]]
<1> DEFINE W(n) == CHOOSE w : w \in [0 .. n -> V] /\ IsWalk(w, n, v, G)
           f == [n \in Nat |-> W(n)[n]]
<1>1. ASSUME NEW n \in Nat PROVE W(n) \in [0 .. n -> V] /\ IsWalk(W(n), n, v, G)
  BY WalkExists
<1> HIDE DEF W
<1>2. f \in [Nat -> V]
  <2>1. ASSUME NEW n \in Nat PROVE W(n)[n] \in V
    BY <1>1
  <2> QED
    BY <2>1
<1>3. f[0] = v
  BY <1>1 DEF IsWalk
<1>4. ASSUME NEW k \in Nat PROVE f[k + 1] = G[f[k]]
  <2>1. W(k + 1)[k + 1] = G[W(k + 1)[k]] /\ IsWalk(W(k + 1), k, v, G)
    BY <1>1 DEF IsWalk
  <2>2. W(k + 1)[k] = W(k)[k]
    BY <1>1, <2>1, WalksAgree
  <2> QED
    BY <2>1, <2>2
<1> QED
  BY <1>2, <1>3, <1>4

\* What Hop is: the head, then the entry linked to the one before.
LEMMA HopWalks ==
  ASSUME QueueTypeOK
  PROVE  /\ Hop[0] = head
         /\ \A k \in Nat : Hop[k + 1] = IF Hop[k] \in Threads THEN next[Hop[k]] ELSE NoEntry
<1> DEFINE G == [p \in Pointers |-> IF p \in Threads THEN next[p] ELSE NoEntry]
<1>1. G \in [Pointers -> Pointers] /\ head \in Pointers
  BY DEF QueueTypeOK, Pointers
<1>2. PICK f \in [Nat -> Pointers] : f[0] = head /\ \A k \in Nat : f[k + 1] = G[f[k]]
  <2> HIDE DEF G
  <2> QED BY <1>1, Iteration
<1>3. f = [k \in Nat |-> IF k = 0 THEN head
                         ELSE IF f[k - 1] \in Threads THEN next[f[k - 1]] ELSE NoEntry]
  <2>1. ASSUME NEW k \in Nat, k # 0
        PROVE  f[k] = IF f[k - 1] \in Threads THEN next[f[k - 1]] ELSE NoEntry
    <3>1. k - 1 \in Nat /\ (k - 1) + 1 = k
      BY <2>1
    <3>2. f[k] = G[f[k - 1]] /\ f[k - 1] \in Pointers
      BY <1>2, <3>1
    <3> QED
      BY <3>2
  <2> QED
    BY <1>2, <2>1
<1>4. Hop = [k \in Nat |-> IF k = 0 THEN head
                           ELSE IF Hop[k - 1] \in Threads THEN next[Hop[k - 1]] ELSE NoEntry]
  BY <1>3 DEF Hop
<1> QED
  BY <1>4
-----------------------------------------------------------------------------
(* The queue as a list.                                                    *)

\* Between the capture of the queue's lock and its release.
InsideQueue(t) == qpc[t] \in {"qLink", "qTail", "qUnlock"} \cup (WakeLabels \ {"wLock"})

QueueLockInv ==
  /\ \A t \in Threads : InsideQueue(t) => qlock = 1
  /\ \A t, u \in Threads : InsideQueue(t) /\ InsideQueue(u) => t = u

\* A thread on its way into the pause can be selected until the last step of it, and
\* its slot says so; a slot that says asleep is that of a thread in the pause.
PauseInv ==
  \A u \in Threads : qpc[u] \in WaitLabels =>
     /\ qpc[u] # "pInt" => isUnderSheduling[u]
     /\ state[u] = "WAITSLEEPJOIN" =>
          /\ qpc[u] \in {"pUnder", "pInt"}
          /\ qpc[u] = "pInt" => ~isUnderSheduling[u]

\* A thread whose entry is in the list.
Waits(u) ==
  /\ qpc[u] \in {"qTail", "qUnlock"} \cup PauseLabels
  /\ qpc[u] \in {"pUnder", "pInt"} => state[u] = "WAITSLEEPJOIN"

\* The n threads q[0], ..., q[n - 1] are linked in this order, each once.
Chained(n, q) ==
  /\ head = IF n = 0 THEN NoEntry ELSE q[0]
  /\ \A k \in 0 .. n - 1 : next[q[k]] = IF k + 1 < n THEN q[k + 1] ELSE NoEntry
  /\ \A j, k \in 0 .. n - 1 : q[j] = q[k] => j = k

\* tail and count follow a step later: a thread at qTail is linked already.
Linking == \E t \in Threads : qpc[t] = "qTail"
Counted(n) == IF Linking THEN n - 1 ELSE n

Ends(n, q) ==
  /\ \A t \in Threads : qpc[t] = "qTail" => n > 0 /\ q[n - 1] = t
  /\ count = Counted(n)
  /\ tail = IF Counted(n) = 0 THEN NoEntry ELSE q[Counted(n) - 1]

\* Whom a waker has taken off is in the pause, and no longer in the list.
Wakes(t, n, q) ==
  LET u == target[t]
  IN /\ qpc[t] \in {"wTest", "wSetState", "wSetUnder"} =>
          /\ u \in Threads /\ qpc[u] \in {"pUnder", "pInt"}
          /\ qpc[u] = "pInt" => ~isUnderSheduling[u]
          /\ \A k \in 0 .. n - 1 : q[k] # u
     /\ qpc[t] \in {"wSetState", "wSetUnder"} => qpc[u] = "pInt"
     /\ qpc[t] = "wSetUnder" => state[u] # "WAITSLEEPJOIN"

IsList(n, q) ==
  /\ Chained(n, q) /\ Ends(n, q)
  /\ \A k \in 0 .. n - 1 : Waits(q[k])
  /\ \A t \in Threads : Wakes(t, n, q)

Lists(n) == [0 .. n - 1 -> Threads]

ListInv == \E n \in 0 .. NumThreads : \E q \in Lists(n) : IsList(n, q)

\* As long as nobody has outrun a pause.
QueueInv == QueueLockInv /\ (~overran => ~smashed /\ PauseInv /\ ListInv)

-----------------------------------------------------------------------------

LEMMA ThreadsNotNull == \A t \in Threads : t \in Int /\ t # NoEntry /\ t # NoThread
BY NumThreadsAssumption DEF Threads, NoEntry, NoThread

LEMMA QueueInitInv ==
  ASSUME QueueInit
  PROVE  QueueInv
<1>1. QueueLockInv /\ ~overran /\ ~smashed /\ PauseInv
  BY DEF QueueInit, QueueLockInv, InsideQueue, WakeLabels, PauseInv, WaitLabels, PauseLabels
<1> DEFINE q == [k \in 0 .. 0 - 1 |-> MainThread]
<1>2. q \in Lists(0) /\ 0 \in 0 .. NumThreads
  BY NumThreadsAssumption DEF Lists
<1>3. ~Linking
  BY DEF QueueInit, Linking
<1>4. IsList(0, q)
  BY <1>3 DEF QueueInit, IsList, Chained, Ends, Counted, Wakes
<1> QED
  BY <1>1, <1>2, <1>4 DEF QueueInv, ListInv

-----------------------------------------------------------------------------
(* The queue's lock.                                                       *)

LEMMA QueueStepKeepsLock ==
  ASSUME QueueTypeOK, QueueLockInv, NEW t \in Threads, QueueStep(t)
  PROVE  QueueLockInv'
<1> USE DEF QueueTypeOK, QueueLockInv, InsideQueue, QAt, QGoto, WakeLabels
<1>1. CASE qLock(t) \/ qTail(t) \/ qUnlock(t)
  BY <1>1 DEF qLock, qTail, qUnlock
<1>2. CASE qLink(t)
  BY <1>2 DEF qLink
<1>3. CASE pState(t) \/ pUnder(t) \/ pInt(t)
  BY <1>3 DEF pState, pUnder, pInt
<1>4. CASE wLock(t) \/ wEmpty(t) \/ wUnlock(t)
  BY <1>4 DEF wLock, wEmpty, wUnlock
<1>5. CASE wPop(t) \/ wTest(t) \/ wSetState(t) \/ wSetUnder(t)
  <2>1. QGoto(t, "wTest") \/ QGoto(t, "wSetState") \/ QGoto(t, "wSetUnder")
        \/ QGoto(t, "wPop") \/ QGoto(t, "wUnlock")
    BY <1>5 DEF wPop, wTest, wSetState, wSetUnder, AfterWake
  <2>2. UNCHANGED qlock /\ qpc[t] \in WakeLabels \ {"wLock"}
    BY <1>5 DEF wPop, wTest, wSetState, wSetUnder
  <2> QED
    BY <2>1, <2>2
<1> QED
  BY <1>1, <1>2, <1>3, <1>4, <1>5 DEF QueueStep

-----------------------------------------------------------------------------
(* The pause.                                                              *)

LEMMA QueueStepKeepsPause ==
  ASSUME ThreadsTypeOK, QueueTypeOK, PauseInv, ListInv, NEW t \in Threads, QueueStep(t),
         ~overran'
  PROVE  PauseInv'
<1> USE DEF ThreadsTypeOK, QueueTypeOK, PauseInv, QAt, QGoto, WaitLabels, PauseLabels,
            threadVars
<1>1. CASE qLock(t) \/ qTail(t) \/ qUnlock(t)
  BY <1>1 DEF qLock, qTail, qUnlock
<1>2. CASE qLink(t)
  BY <1>2 DEF qLink
<1>3. CASE pState(t) \/ pUnder(t) \/ pInt(t)
  BY <1>3 DEF pState, pUnder, pInt
<1>4. CASE wLock(t) \/ wEmpty(t) \/ wUnlock(t)
  BY <1>4 DEF wLock, wEmpty, wUnlock
<1>5. CASE wPop(t) \/ wTest(t)
  <2>1. QGoto(t, "wTest") \/ QGoto(t, "wSetState") \/ QGoto(t, "wPop") \/ QGoto(t, "wUnlock")
    BY <1>5 DEF wPop, wTest, AfterWake
  <2>2. UNCHANGED threadVars
    BY <1>5 DEF wPop, wTest
  <2> QED
    BY <2>1, <2>2
<1>6. ASSUME qpc[t] \in {"wSetState", "wSetUnder"}
      PROVE  /\ target[t] \in Threads /\ qpc[target[t]] = "pInt"
             /\ qpc[t] = "wSetUnder" => state[target[t]] # "WAITSLEEPJOIN"
  BY <1>6 DEF ListInv, IsList, Wakes
<1>7. CASE wSetState(t)
  BY <1>6, <1>7 DEF wSetState
<1>8. CASE wSetUnder(t)
  <2>1. QGoto(t, "wPop") \/ QGoto(t, "wUnlock")
    BY <1>8 DEF wSetUnder, AfterWake
  <2> QED
    BY <1>6, <1>8, <2>1 DEF wSetUnder
<1> QED
  BY <1>1, <1>2, <1>3, <1>4, <1>5, <1>7, <1>8 DEF QueueStep

-----------------------------------------------------------------------------
(* The list.                                                               *)

\* Two different positions of a list of threads hold different ones: it is not
\* longer than there are threads, and a thread outside it can be added.
LEMMA RoomForOneMore ==
  ASSUME NEW n \in Nat, NEW q \in Lists(n), NEW t \in Threads,
         \A j, k \in 0 .. n - 1 : q[j] = q[k] => j = k,
         \A k \in 0 .. n - 1 : q[k] # t
  PROVE  n + 1 <= NumThreads
<1> DEFINE x == [k \in 0 .. n |-> IF k = n THEN t ELSE q[k]]
<1>1. x \in [0 .. n -> Threads]
  BY DEF Lists
<1>2. ASSUME NEW j \in 0 .. n, NEW k \in 0 .. n, x[j] = x[k] PROVE j = k
  <2>1. CASE j = n \/ k = n
    BY <1>2, <2>1
  <2>2. CASE j # n /\ k # n
    <3>1. j \in 0 .. n - 1 /\ k \in 0 .. n - 1
      BY <2>2
    <3> QED
      BY <1>2, <2>2, <3>1
  <2> QED
    BY <2>1, <2>2
<1>3. IsFiniteSet(0 .. n) /\ Cardinality(0 .. n) = n + 1
  BY FS_Interval
<1>4. IsFiniteSet(Threads) /\ Cardinality(Threads) = NumThreads
  BY FS_Interval, NumThreadsAssumption DEF Threads
<1>5. SUFFICES ASSUME NumThreads < n + 1 PROVE FALSE
  BY NumThreadsAssumption
<1> HIDE DEF x
<1>6. PICK j, k \in 0 .. n : j # k /\ x[j] = x[k]
  BY <1>1, <1>3, <1>4, <1>5, FS_PigeonHole
<1> QED
  BY <1>2, <1>6

\* A step that moves threads and leaves the links alone.
LEMMA SameList ==
  ASSUME NEW n, NEW q, IsList(n, q), UNCHANGED <<head, tail, count, next>>,
         \A u \in Threads : qpc'[u] = "qTail" <=> qpc[u] = "qTail",
         \A k \in 0 .. n - 1 : Waits(q[k])',
         \A u \in Threads : Wakes(u, n, q)'
  PROVE  IsList(n, q)'
<1>1. Linking' = Linking
  BY DEF Linking
<1>2. Chained(n, q)'
  BY DEF IsList, Chained
<1>3. Ends(n, q)'
  BY <1>1 DEF IsList, Ends, Counted
<1> QED
  BY <1>2, <1>3 DEF IsList

LEMMA ListIn ==
  ASSUME NEW n \in 0 .. NumThreads, NEW q \in Lists(n), NEW k \in 0 .. n - 1
  PROVE  q[k] \in Threads
BY DEF Lists

\* The steps of a waiter that has its entry linked, or none, and of a waker between
\* the locks: only its own place changes.
LEMMA OwnStepKeepsList ==
  ASSUME ThreadsTypeOK, QueueTypeOK, PauseInv, NEW n \in 0 .. NumThreads, NEW q \in Lists(n),
         IsList(n, q), NEW t \in Threads, ~overran',
         qLock(t) \/ qUnlock(t) \/ pState(t) \/ pUnder(t) \/ pInt(t)
           \/ wLock(t) \/ wEmpty(t) \/ wUnlock(t)
  PROVE  IsList(n, q)'
<1>1. UNCHANGED <<head, tail, count, next, target>>
  BY DEF qLock, qUnlock, pState, pUnder, pInt, wLock, wEmpty, wUnlock
<1>2. qpc \in [Threads -> QueueLabels] /\ state \in [Threads -> ThreadStates]
      /\ isUnderSheduling \in [Threads -> BOOLEAN]
  BY DEF ThreadsTypeOK, QueueTypeOK
<1>3. \A u \in Threads : qpc'[u] = "qTail" <=> qpc[u] = "qTail"
  BY <1>2 DEF qLock, qUnlock, pState, pUnder, pInt, wLock, wEmpty, wUnlock, QAt, QGoto
<1>4. ASSUME NEW u \in Threads, Waits(u) PROVE Waits(u)'
  <2> USE <1>2, <1>4 DEF Waits, PauseLabels, QAt, QGoto, threadVars
  <2>1. CASE qLock(t) \/ qUnlock(t)
    BY <2>1 DEF qLock, qUnlock
  <2>2. CASE pState(t) \/ pUnder(t)
    BY <2>2 DEF pState, pUnder
  <2>3. CASE pInt(t)
    <3>1. u # t
      BY <2>3 DEF pInt, PauseInv, WaitLabels
    <3> QED
      BY <2>3, <3>1 DEF pInt
  <2>4. CASE wLock(t) \/ wEmpty(t) \/ wUnlock(t)
    BY <2>4 DEF wLock, wEmpty, wUnlock
  <2> QED
    BY <2>1, <2>2, <2>3, <2>4
<1>5. ASSUME NEW w \in Threads PROVE Wakes(w, n, q)'
  <2>1. Wakes(w, n, q)
    BY DEF IsList
  <2> USE <1>1, <1>2, <2>1 DEF Wakes, QAt, QGoto, threadVars
  <2>2. CASE qLock(t) \/ qUnlock(t)
    BY <2>2 DEF qLock, qUnlock
  <2>3. CASE pState(t) \/ pUnder(t)
    BY <2>3 DEF pState, pUnder
  <2>4. CASE pInt(t)
    BY <2>4 DEF pInt
  <2>5. CASE wLock(t) \/ wEmpty(t) \/ wUnlock(t)
    BY <2>5 DEF wLock, wEmpty, wUnlock
  <2> QED
    BY <2>2, <2>3, <2>4, <2>5
<1>6. \A k \in 0 .. n - 1 : Waits(q[k])'
  BY <1>4, ListIn DEF IsList
<1> QED
  BY <1>1, <1>3, <1>5, <1>6, SameList

\* wake_thread: its thread is not in the list.
LEMMA WakeKeepsList ==
  ASSUME ThreadsTypeOK, QueueTypeOK, QueueLockInv, PauseInv,
         NEW n \in 0 .. NumThreads, NEW q \in Lists(n),
         IsList(n, q), NEW t \in Threads, wTest(t) \/ wSetState(t) \/ wSetUnder(t)
  PROVE  IsList(n, q)'
<1>1. UNCHANGED <<head, tail, count, next>>
  BY DEF wTest, wSetState, wSetUnder
<1>2. qpc \in [Threads -> QueueLabels] /\ state \in [Threads -> ThreadStates]
      /\ isUnderSheduling \in [Threads -> BOOLEAN]
      /\ target \in [Threads -> Threads \cup {NoThread}]
  BY DEF ThreadsTypeOK, QueueTypeOK
<1>3. qpc[t] \in {"wTest", "wSetState", "wSetUnder"}
  BY DEF wTest, wSetState, wSetUnder, QAt
<1>4. /\ target[t] \in Threads /\ qpc[target[t]] \in {"pUnder", "pInt"}
      /\ qpc[target[t]] = "pInt" => ~isUnderSheduling[target[t]]
      /\ \A k \in 0 .. n - 1 : q[k] # target[t]
      /\ qpc[t] \in {"wSetState", "wSetUnder"} => qpc[target[t]] = "pInt"
      /\ qpc[t] = "wSetUnder" => state[target[t]] # "WAITSLEEPJOIN"
  BY <1>3 DEF IsList, Wakes
<1>5. \E l \in {"wSetState", "wSetUnder", "wPop", "wUnlock"} : QGoto(t, l)
  BY DEF wTest, wSetState, wSetUnder, AfterWake
<1>6. \A u \in Threads : qpc'[u] = "qTail" <=> qpc[u] = "qTail"
  BY <1>2, <1>3, <1>5 DEF QGoto
<1>7. ASSUME NEW k \in 0 .. n - 1 PROVE Waits(q[k])'
  <2>1. q[k] \in Threads /\ Waits(q[k]) /\ q[k] # target[t] /\ q[k] # t
    BY <1>3, <1>4, ListIn DEF IsList, Waits, PauseLabels
  <2>2. qpc'[q[k]] = qpc[q[k]]
    BY <1>2, <1>5, <2>1 DEF QGoto
  <2>3. state'[q[k]] = state[q[k]]
    BY <1>2, <2>1 DEF wTest, wSetState, wSetUnder, threadVars
  <2> QED
    BY <2>1, <2>2, <2>3 DEF Waits
<1>8. ASSUME NEW w \in Threads, w # t PROVE Wakes(w, n, q)'
  <2>1. qpc[w] \notin {"wTest", "wSetState", "wSetUnder"}
    BY <1>3, <1>8 DEF QueueLockInv, InsideQueue, WakeLabels
  <2>2. qpc'[w] = qpc[w]
    BY <1>2, <1>5, <1>8 DEF QGoto
  <2> QED
    BY <2>1, <2>2 DEF Wakes
<1>9. Wakes(t, n, q)'
  <2>1. CASE wTest(t) /\ isUnderSheduling[target[t]]
    <3>1. qpc'[t] \in {"wPop", "wUnlock"}
      BY <1>2, <2>1 DEF wTest, AfterWake, QGoto
    <3> QED
      BY <3>1 DEF Wakes
  <2>2. CASE wTest(t) /\ ~isUnderSheduling[target[t]]
    <3>1. qpc[target[t]] = "pInt"
      BY <1>4, <2>2 DEF PauseInv, WaitLabels, PauseLabels
    <3> QED
      BY <1>2, <1>3, <1>4, <2>2, <3>1 DEF wTest, QGoto, Wakes, threadVars
  <2>3. CASE wSetState(t)
    <3>1. qpc[t] = "wSetState" /\ qpc'[t] = "wSetUnder" /\ target' = target /\ state'[target[t]] = "RUNNING"
          /\ isUnderSheduling' = isUnderSheduling /\ qpc'[target[t]] = "pInt"
      BY <1>2, <1>3, <1>4, <2>3 DEF wSetState, QAt, QGoto
    <3>2. \A k \in 0 .. n - 1 : q[k] # target'[t]
      BY <1>4, <3>1
    <3>3. qpc'[target'[t]] = "pInt" /\ ~isUnderSheduling'[target'[t]] /\ target'[t] \in Threads
          /\ state'[target'[t]] # "WAITSLEEPJOIN"
      BY <1>3, <1>4, <3>1
    <3> QED
      BY <3>2, <3>3 DEF Wakes
  <2>4. CASE wSetUnder(t)
    <3>1. qpc'[t] \in {"wPop", "wUnlock"}
      BY <1>2, <2>4 DEF wSetUnder, AfterWake, QGoto
    <3> QED
      BY <3>1 DEF Wakes
  <2> QED
    BY <2>1, <2>2, <2>3, <2>4
<1> QED
  BY <1>1, <1>6, <1>7, <1>8, <1>9, SameList

\* Who is at qLink, qTail or wPop is alone inside the queue.
LEMMA AloneInside ==
  ASSUME QueueLockInv, NEW t \in Threads, qpc[t] \in {"qLink", "qTail", "wPop"}
  PROVE  /\ qpc[t] # "qTail" => ~Linking
         /\ \A u \in Threads \ {t} : ~InsideQueue(u)
BY DEF QueueLockInv, InsideQueue, Linking, WakeLabels

\* The entry is appended: head or the last entry's next.
LEMMA qLinkKeepsList ==
  ASSUME ThreadsTypeOK, QueueTypeOK, QueueLockInv,
         NEW n \in 0 .. NumThreads, NEW q \in Lists(n),
         IsList(n, q), NEW t \in Threads, qLink(t)
  PROVE  /\ UNCHANGED smashed
         /\ n + 1 \in 0 .. NumThreads
         /\ \E x \in Lists(n + 1) : IsList(n + 1, x)' /\ \A k \in 0 .. n - 1 : x[k] = q[k]
<1> DEFINE x == [k \in 0 .. n |-> IF k = n THEN t ELSE q[k]]
<1>0. n \in Nat /\ qpc[t] = "qLink" /\ qpc' = [qpc EXCEPT ![t] = "qTail"]
      /\ UNCHANGED <<tail, count, target, isUnderSheduling, state>>
  BY NumThreadsAssumption DEF qLink, QAt, QGoto, threadVars
<1>1. ASSUME NEW k \in 0 .. n - 1
      PROVE  q[k] \in Threads /\ Waits(q[k]) /\ q[k] # t /\ q[k] # NoEntry
  BY <1>0, ListIn, ThreadsNotNull DEF IsList, Waits, PauseLabels
<1>2. n + 1 \in 0 .. NumThreads /\ n + 1 \in Nat
  BY <1>0, <1>1, RoomForOneMore, NumThreadsAssumption DEF IsList, Chained
<1>3. x \in Lists(n + 1)
  BY <1>0, <1>1 DEF Lists
<1>4. /\ x[n] = t
      /\ \A k \in 0 .. n - 1 : x[k] = q[k]
      /\ n > 0 => x[0] = q[0]
  BY <1>0
<1>5. ~Linking /\ Counted(n) = n /\ \A u \in Threads \ {t} : ~InsideQueue(u)
  BY <1>0, AloneInside DEF Counted
<1>6. (head = NoEntry <=> n = 0) /\ (n > 0 => tail = q[n - 1] /\ head = q[0])
  BY <1>0, <1>1, <1>5 DEF IsList, Chained, Ends
<1>7. n > 0 => Framed(tail)
  BY <1>0, <1>1, <1>6 DEF Framed, Waits, WaitLabels
<1>8. UNCHANGED smashed
  BY <1>6, <1>7 DEF qLink
<1>9. /\ head' = IF n = 0 THEN t ELSE head
      /\ next' = IF n = 0 THEN [next EXCEPT ![t] = NoEntry]
                 ELSE [next EXCEPT ![t] = NoEntry, ![q[n - 1]] = t]
  BY <1>6, <1>7 DEF qLink
<1> HIDE DEF x
<1>10. Chained(n + 1, x)'
  <2>1. head' = x[0]
    BY <1>0, <1>4, <1>6, <1>9
  <2>2. ASSUME NEW k \in 0 .. n
        PROVE  next'[x[k]] = IF k + 1 < n + 1 THEN x[k + 1] ELSE NoEntry
    <3>0. next \in [Threads -> Pointers]
      BY DEF QueueTypeOK
    <3>1. CASE k = n
      <4>1. n > 0 => q[n - 1] # t
        BY <1>0, <1>1
      <4> QED
        BY <1>0, <1>4, <1>9, <3>0, <3>1, <4>1
    <3>2. CASE k # n /\ k = n - 1
      <4>1. n > 0 /\ x[k] = q[n - 1] /\ q[n - 1] \in Threads /\ q[n - 1] # t
        BY <1>0, <1>1, <1>4, <3>2
      <4>2. next'[x[k]] = t
        BY <1>9, <3>0, <4>1
      <4>3. k + 1 = n
        BY <1>0, <3>2
      <4> QED
        BY <1>0, <1>4, <4>2, <4>3
    <3>3. CASE k # n /\ k # n - 1
      <4>1. n > 0 /\ k \in 0 .. n - 1 /\ n - 1 \in 0 .. n - 1 /\ k + 1 \in 0 .. n - 1
            /\ k + 1 < n
        BY <1>0, <3>3
      <4>2. q[k] # q[n - 1] /\ q[k] # t /\ q[k] \in Threads
        BY <1>1, <3>3, <4>1 DEF IsList, Chained
      <4>3. next[q[k]] = q[k + 1]
        BY <4>1 DEF IsList, Chained
      <4>4. next'[q[k]] = q[k + 1]
        BY <1>9, <3>0, <4>1, <4>2, <4>3
      <4> QED
        BY <1>4, <4>1, <4>4
    <3> QED
      BY <3>1, <3>2, <3>3
  <2>3. ASSUME NEW j \in 0 .. n, NEW k \in 0 .. n, x[j] = x[k] PROVE j = k
    <3>1. CASE j = n \/ k = n
      BY <1>0, <1>1, <1>4, <2>3, <3>1
    <3>2. CASE j # n /\ k # n
      <4>1. j \in 0 .. n - 1 /\ k \in 0 .. n - 1
        BY <1>0, <3>2
      <4> QED
        BY <1>4, <2>3, <4>1 DEF IsList, Chained
    <3> QED
      BY <3>1, <3>2
  <2>4. (n + 1) - 1 = n /\ n + 1 # 0
    BY <1>0
  <2> QED
    BY <2>1, <2>2, <2>3, <2>4 DEF Chained
<1>11. Ends(n + 1, x)'
  <2>1. Linking' /\ \A u \in Threads : qpc'[u] = "qTail" <=> u = t
    BY <1>0, <1>5 DEF Linking, QueueTypeOK
  <2>2. Counted(n + 1)' = n
    BY <1>0, <2>1 DEF Counted
  <2>3. count = n /\ tail = IF n = 0 THEN NoEntry ELSE q[n - 1]
    BY <1>5 DEF IsList, Ends
  <2>4. (n + 1) - 1 = n /\ n + 1 > 0 /\ (n # 0 => n - 1 \in 0 .. n - 1)
    BY <1>0
  <2> QED
    BY <1>0, <1>4, <2>1, <2>2, <2>3, <2>4 DEF Ends
<1>12. ASSUME NEW k \in 0 .. n PROVE Waits(x[k])'
  <2>1. CASE k = n
    BY <1>0, <1>4, <2>1 DEF Waits, QueueTypeOK
  <2>2. CASE k # n
    <3>1. k \in 0 .. n - 1
      BY <1>0, <2>2
    <3> QED
      BY <1>0, <1>1, <1>4, <3>1 DEF Waits, QueueTypeOK
  <2> QED
    BY <2>1, <2>2
<1>13. ASSUME NEW w \in Threads PROVE Wakes(w, n + 1, x)'
  <2>1. qpc'[w] \notin {"wTest", "wSetState", "wSetUnder"}
    BY <1>0, <1>5 DEF InsideQueue, WakeLabels, QueueTypeOK
  <2> QED
    BY <2>1 DEF Wakes
<1>14. IsList(n + 1, x)'
  <2>1. (n + 1) - 1 = n
    BY <1>0
  <2> QED
    BY <1>10, <1>11, <1>12, <1>13, <2>1 DEF IsList
<1> QED
  BY <1>2, <1>3, <1>4, <1>8, <1>14

\* tail and count catch up with the entry that is linked already.
LEMMA qTailKeepsList ==
  ASSUME ThreadsTypeOK, QueueTypeOK, QueueLockInv,
         NEW n \in 0 .. NumThreads, NEW q \in Lists(n),
         IsList(n, q), NEW t \in Threads, qTail(t)
  PROVE  IsList(n, q)'
<1>0. n \in Nat /\ qpc[t] = "qTail" /\ qpc' = [qpc EXCEPT ![t] = "qUnlock"]
      /\ UNCHANGED <<head, next, target, isUnderSheduling, state>>
  BY NumThreadsAssumption DEF qTail, QAt, QGoto, threadVars
<1>1. Linking /\ n > 0 /\ q[n - 1] = t /\ \A u \in Threads \ {t} : ~InsideQueue(u)
  BY <1>0, AloneInside DEF IsList, Ends, Linking
<1>2. ~Linking' /\ \A u \in Threads : qpc'[u] # "qTail"
  BY <1>0, <1>1 DEF Linking, QueueTypeOK, InsideQueue
<1>3. Counted(n)' = n
  BY <1>0, <1>2 DEF Counted
<1>4. count = n - 1
  BY <1>0, <1>1 DEF IsList, Ends, Counted
<1>5. tail' = t /\ count' = n
  BY <1>0, <1>1, <1>4, NumThreadsAssumption, CountRangeAssumption DEF qTail, Increment
<1>6. Chained(n, q)'
  BY <1>0 DEF IsList, Chained
<1>7. Ends(n, q)'
  BY <1>0, <1>1, <1>2, <1>3, <1>5 DEF Ends
<1>8. ASSUME NEW k \in 0 .. n - 1 PROVE Waits(q[k])'
  BY <1>0, ListIn DEF IsList, Waits, QueueTypeOK
<1>9. ASSUME NEW w \in Threads PROVE Wakes(w, n, q)'
  <2>1. qpc'[w] \notin {"wTest", "wSetState", "wSetUnder"}
    BY <1>0, <1>1 DEF InsideQueue, WakeLabels, QueueTypeOK
  <2> QED
    BY <2>1 DEF Wakes
<1> QED
  BY <1>6, <1>7, <1>8, <1>9 DEF IsList

\* The head is taken off: what is left is a list, and its thread is not in it.
LEMMA wPopKeepsList ==
  ASSUME ThreadsTypeOK, QueueTypeOK, QueueLockInv, PauseInv,
         NEW n \in 0 .. NumThreads, NEW q \in Lists(n),
         IsList(n, q), NEW t \in Threads, wPop(t)
  PROVE  /\ n - 1 \in 0 .. NumThreads
         /\ \E x \in Lists(n - 1) :
               IsList(n - 1, x)' /\ \A k \in 0 .. n - 2 : x[k] = q[k + 1]
         /\ state[q[0]] = "WAITSLEEPJOIN" => target'[t] = q[0] /\ qpc'[t] = "wTest"
<1> DEFINE x == [k \in 0 .. n - 2 |-> q[k + 1]]
<1>0. /\ n \in Nat /\ qpc[t] = "wPop" /\ head # NoEntry
      /\ UNCHANGED <<next, isUnderSheduling, state>>
      /\ count' = Decrement(count)
  BY NumThreadsAssumption DEF wPop, QAt, threadVars
<1>1. ~Linking /\ Counted(n) = n /\ \A u \in Threads \ {t} : ~InsideQueue(u)
  BY <1>0, AloneInside DEF Counted
<1>2. n > 0 /\ head = q[0] /\ 0 \in 0 .. n - 1
  BY <1>0 DEF IsList, Chained
<1>3. ASSUME NEW k \in 0 .. n - 1
      PROVE  q[k] \in Threads /\ Waits(q[k]) /\ q[k] # t /\ q[k] # NoEntry
  BY <1>0, ListIn, ThreadsNotNull DEF IsList, Waits, PauseLabels
<1>4. next[q[0]] = IF n = 1 THEN NoEntry ELSE q[1]
  <2>1. next[q[0]] = IF 0 + 1 < n THEN q[0 + 1] ELSE NoEntry
    BY <1>2 DEF IsList, Chained
  <2> QED
    BY <1>0, <1>2, <2>1
<1>5. Contents(head) = {<<q[0], next[q[0]]>>}
  BY <1>2, <1>3 DEF Contents, Framed, Waits, WaitLabels, PauseLabels
<1>6. /\ head' = next[q[0]]
      /\ tail' = IF next[q[0]] = NoEntry THEN NoEntry ELSE tail
      /\ IF state[q[0]] = "WAITSLEEPJOIN"
         THEN QGoto(t, "wTest") /\ target' = [target EXCEPT ![t] = q[0]]
         ELSE QGoto(t, AfterWake) /\ UNCHANGED target
  <2>1. PICK entry \in Contents(head) :
           /\ head' = entry[2]
           /\ tail' = IF entry[2] = NoEntry THEN NoEntry ELSE tail
           /\ IF entry[1] \in Threads /\ state[entry[1]] = "WAITSLEEPJOIN"
              THEN QGoto(t, "wTest") /\ target' = [target EXCEPT ![t] = entry[1]]
              ELSE QGoto(t, AfterWake) /\ UNCHANGED target
    BY DEF wPop
  <2>2. entry[1] = q[0] /\ entry[2] = next[q[0]]
    BY <1>5
  <2>3. entry[1] \in Threads
    BY <1>2, <1>3, <2>2
  <2> QED
    BY <2>1, <2>2, <2>3
<1>7. qpc \in [Threads -> QueueLabels] /\ target \in [Threads -> Threads \cup {NoThread}]
  BY DEF QueueTypeOK
<1>8. \E l \in {"wTest", "wPop", "wUnlock"} : QGoto(t, l)
  BY <1>6 DEF AfterWake
<1>9. /\ state[q[0]] = "WAITSLEEPJOIN" => qpc'[t] = "wTest" /\ target'[t] = q[0]
      /\ state[q[0]] # "WAITSLEEPJOIN" => qpc'[t] \in {"wPop", "wUnlock"}
  BY <1>6, <1>7 DEF QGoto, AfterWake
<1>10. \A u \in Threads \ {t} : qpc'[u] = qpc[u]
  BY <1>7, <1>8 DEF QGoto
<1>11. n - 1 \in 0 .. NumThreads /\ x \in Lists(n - 1)
  <2>1. \A k \in 0 .. n - 2 : k + 1 \in 0 .. n - 1
    BY <1>0
  <2>2. x \in [0 .. n - 2 -> Threads]
    BY <1>3, <2>1
  <2>3. (n - 1) - 1 = n - 2 /\ n - 1 \in 0 .. NumThreads
    BY <1>0, <1>2, NumThreadsAssumption
  <2> HIDE DEF x
  <2>4. x \in [0 .. (n - 1) - 1 -> Threads]
    BY <2>2, <2>3
  <2> QED
    BY <2>3, <2>4 DEF Lists
<1>12. ASSUME NEW k \in 0 .. n - 2 PROVE x[k] = q[k + 1] /\ k + 1 \in 0 .. n - 1 /\ k + 1 # 0
  BY <1>0
<1> HIDE DEF x
<1>13. Chained(n - 1, x)'
  <2>1. head' = IF n - 1 = 0 THEN NoEntry ELSE x[0]
    <3>1. CASE n = 1
      BY <1>4, <1>6, <3>1
    <3>2. CASE n # 1
      <4>1. 0 \in 0 .. n - 2 /\ n - 1 # 0
        BY <1>0, <1>2, <3>2
      <4>2. x[0] = q[0 + 1]
        BY <1>12, <4>1
      <4> QED
        BY <1>4, <1>6, <3>2, <4>1, <4>2
    <3> QED
      BY <3>1, <3>2
  <2>2. ASSUME NEW k \in 0 .. n - 2
        PROVE  next'[x[k]] = IF k + 1 < n - 1 THEN x[k + 1] ELSE NoEntry
    <3>1. next[q[k + 1]] = IF (k + 1) + 1 < n THEN q[(k + 1) + 1] ELSE NoEntry
      BY <1>12 DEF IsList, Chained
    <3>2. CASE k + 1 < n - 1
      <4>1. k + 1 \in 0 .. n - 2 /\ (k + 1) + 1 < n
        BY <1>0, <3>2
      <4> QED
        BY <1>0, <1>12, <3>1, <3>2, <4>1
    <3>3. CASE ~(k + 1 < n - 1)
      <4>1. ~((k + 1) + 1 < n)
        BY <1>0, <3>3
      <4> QED
        BY <1>0, <1>12, <3>1, <3>3, <4>1
    <3> QED
      BY <3>2, <3>3
  <2>3. ASSUME NEW j \in 0 .. n - 2, NEW k \in 0 .. n - 2, x[j] = x[k] PROVE j = k
    <3>1. q[j + 1] = q[k + 1] /\ j + 1 \in 0 .. n - 1 /\ k + 1 \in 0 .. n - 1
      BY <1>12, <2>3
    <3>2. j + 1 = k + 1
      BY <3>1 DEF IsList, Chained
    <3> QED
      BY <3>2
  <2>4. (n - 1) - 1 = n - 2
    BY <1>0
  <2> QED
    BY <2>1, <2>2, <2>3, <2>4 DEF Chained
<1>14. Ends(n - 1, x)'
  <2>1. ~Linking' /\ \A u \in Threads : qpc'[u] # "qTail"
    BY <1>1, <1>9, <1>10 DEF Linking
  <2>2. Counted(n - 1)' = n - 1
    BY <2>1 DEF Counted
  <2>3. count = n /\ tail = q[n - 1]
    BY <1>1, <1>2 DEF IsList, Ends
  <2>4. count' = n - 1
    BY <1>0, <1>2, <2>3 DEF Decrement
  <2>5. tail' = IF n - 1 = 0 THEN NoEntry ELSE x[(n - 1) - 1]
    <3>1. CASE n = 1
      BY <1>4, <1>6, <3>1
    <3>2. CASE n # 1
      <4>1. n - 2 \in 0 .. n - 2 /\ (n - 2) + 1 = n - 1 /\ n - 1 # 0 /\ (n - 1) - 1 = n - 2
            /\ 1 \in 0 .. n - 1
        BY <1>0, <1>2, <3>2
      <4>2. x[n - 2] = q[n - 1]
        BY <1>12, <4>1
      <4>3. next[q[0]] # NoEntry
        BY <1>3, <1>4, <3>2, <4>1
      <4> QED
        BY <1>6, <2>3, <4>1, <4>2, <4>3
    <3> QED
      BY <3>1, <3>2
  <2> QED
    BY <2>1, <2>2, <2>4, <2>5 DEF Ends
<1>15. ASSUME NEW k \in 0 .. n - 2 PROVE Waits(x[k])'
  BY <1>0, <1>3, <1>10, <1>12 DEF Waits
<1>16. ASSUME NEW w \in Threads PROVE Wakes(w, n - 1, x)'
  <2>1. CASE w # t
    <3>1. qpc'[w] \notin {"wTest", "wSetState", "wSetUnder"}
      BY <1>1, <1>10, <2>1 DEF InsideQueue, WakeLabels
    <3> QED
      BY <3>1 DEF Wakes
  <2>2. CASE w = t /\ state[q[0]] # "WAITSLEEPJOIN"
    <3>1. qpc'[w] \notin {"wTest", "wSetState", "wSetUnder"}
      BY <1>9, <2>2
    <3> QED
      BY <3>1 DEF Wakes
  <2>3. CASE w = t /\ state[q[0]] = "WAITSLEEPJOIN"
    <3>1. qpc'[t] = "wTest" /\ target'[t] = q[0] /\ q[0] \in Threads /\ qpc'[q[0]] = qpc[q[0]]
      BY <1>2, <1>3, <1>9, <1>10, <2>3
    <3>2. qpc[q[0]] \in WaitLabels
      BY <1>2, <1>3 DEF Waits, WaitLabels
    <3>3. qpc[q[0]] \in {"pUnder", "pInt"} /\ (qpc[q[0]] = "pInt" => ~isUnderSheduling[q[0]])
      BY <2>3, <3>1, <3>2 DEF PauseInv
    <3>4. ASSUME NEW k \in 0 .. n - 2 PROVE x[k] # q[0]
      <4>1. q[k + 1] # q[0]
        BY <1>2, <1>12 DEF IsList, Chained
      <4> QED
        BY <1>12, <4>1
    <3>5. (n - 1) - 1 = n - 2
      BY <1>0
    <3> QED
      BY <1>0, <2>3, <3>1, <3>3, <3>4, <3>5 DEF Wakes
  <2> QED
    BY <2>1, <2>2, <2>3
<1>17. IsList(n - 1, x)'
  <2>1. (n - 1) - 1 = n - 2
    BY <1>0
  <2> QED
    BY <1>13, <1>14, <1>15, <1>16, <2>1 DEF IsList
<1> QED
  BY <1>9, <1>11, <1>12, <1>17

\* Every step of the queue's own keeps the queue in order.
LEMMA QueueStepKeepsInv ==
  ASSUME ThreadsTypeOK, QueueTypeOK, QueueInv, NEW t \in Threads, QueueStep(t)
  PROVE  QueueInv'
<1>1. QueueLockInv'
  BY QueueStepKeepsLock DEF QueueInv
<1>2. SUFFICES ASSUME ~overran' PROVE ~smashed' /\ PauseInv' /\ ListInv'
  BY <1>1 DEF QueueInv
<1>3. ~overran
  BY <1>2, QueueStepMoves
<1>4. QueueLockInv /\ ~smashed /\ PauseInv /\ ListInv
  BY <1>3 DEF QueueInv
<1>5. PauseInv'
  BY <1>2, <1>4, QueueStepKeepsPause
<1>6. PICK n \in 0 .. NumThreads : \E q \in Lists(n) : IsList(n, q)
  BY <1>4 DEF ListInv
<1>6q. PICK q \in Lists(n) : IsList(n, q)
  BY <1>6
<1>7. CASE qLink(t)
  <2>1. /\ UNCHANGED smashed
        /\ n + 1 \in 0 .. NumThreads
        /\ \E x \in Lists(n + 1) : IsList(n + 1, x)'
    BY <1>4, <1>6q, <1>7, qLinkKeepsList
  <2> QED
    BY <1>4, <1>5, <2>1 DEF ListInv, Lists
<1>8. CASE qTail(t)
  <2>1. IsList(n, q)'
    BY <1>4, <1>6q, <1>8, qTailKeepsList
  <2>2. UNCHANGED smashed
    BY <1>8 DEF qTail
  <2> QED
    BY <1>4, <1>5, <2>1, <2>2 DEF ListInv, Lists
<1>9. CASE wPop(t)
  <2>1. UNCHANGED smashed
    BY <1>9 DEF wPop
  <2>2. n - 1 \in 0 .. NumThreads /\ \E x \in Lists(n - 1) : IsList(n - 1, x)'
    BY <1>4, <1>6q, <1>9, wPopKeepsList
  <2> QED
    BY <1>4, <1>5, <2>1, <2>2 DEF ListInv, Lists
<1>10. CASE wTest(t) \/ wSetState(t) \/ wSetUnder(t)
  <2>1. IsList(n, q)'
    BY <1>4, <1>6q, <1>10, WakeKeepsList
  <2>2. UNCHANGED smashed
    BY <1>10 DEF wTest, wSetState, wSetUnder
  <2> QED
    BY <1>4, <1>5, <2>1, <2>2 DEF ListInv, Lists
<1>11. CASE qLock(t) \/ qUnlock(t) \/ pState(t) \/ pUnder(t) \/ pInt(t)
              \/ wLock(t) \/ wEmpty(t) \/ wUnlock(t)
  <2>1. IsList(n, q)'
    BY <1>2, <1>4, <1>6q, <1>11, OwnStepKeepsList
  <2>2. UNCHANGED smashed
    BY <1>11 DEF qLock, qUnlock, pState, pUnder, pInt, wLock, wEmpty, wUnlock
  <2> QED
    BY <1>4, <1>5, <2>1, <2>2 DEF ListInv, Lists
<1> QED
  BY <1>7, <1>8, <1>9, <1>10, <1>11 DEF QueueStep

\* A slot says asleep only of a thread in its pause.
Awake ==
  ~overran =>
    \A u \in Threads : state[u] = "WAITSLEEPJOIN" => qpc[u] \in {"pUnder", "pInt"}

\* No step of the queue lets a thread go on whose slot still says asleep.
LEMMA QueueStepKeepsAwake ==
  ASSUME ThreadsTypeOK, QueueTypeOK, QueueInv, NEW t \in Threads, QueueStep(t), ~overran',
         NEW u \in Threads, state'[u] = "WAITSLEEPJOIN", qpc'[u] \notin {"pUnder", "pInt"}
  PROVE  state[u] = "WAITSLEEPJOIN" /\ qpc[u] \notin {"pUnder", "pInt"}
<1>0. PauseInv
  BY QueueStepMoves DEF QueueInv
<1> USE <1>0 DEF ThreadsTypeOK, QueueTypeOK, PauseInv, QAt, QGoto, WaitLabels, PauseLabels,
                 threadVars
<1>1. CASE qLock(t) \/ qTail(t) \/ qUnlock(t)
  BY <1>1 DEF qLock, qTail, qUnlock
<1>2. CASE qLink(t)
  BY <1>2 DEF qLink
<1>3. CASE pState(t) \/ pUnder(t) \/ pInt(t)
  BY <1>3 DEF pState, pUnder, pInt
<1>4. CASE wLock(t) \/ wEmpty(t) \/ wUnlock(t)
  BY <1>4 DEF wLock, wEmpty, wUnlock
<1>5. CASE wPop(t) \/ wTest(t) \/ wSetState(t) \/ wSetUnder(t)
  <2>1. QGoto(t, "wTest") \/ QGoto(t, "wSetState") \/ QGoto(t, "wSetUnder") \/ QGoto(t, "wPop")
        \/ QGoto(t, "wUnlock")
    BY <1>5 DEF wPop, wTest, wSetState, wSetUnder, AfterWake
  <2>2. qpc[t] \in WakeLabels /\ (state'[u] = "WAITSLEEPJOIN" => state[u] = "WAITSLEEPJOIN")
    BY <1>5 DEF wPop, wTest, wSetState, wSetUnder, WakeLabels
  <2> QED
    BY <2>1, <2>2 DEF WakeLabels
<1> QED
  BY <1>1, <1>2, <1>3, <1>4, <1>5 DEF QueueStep

\* A step of the queue leaves the slots alone of all who are not in it.
LEMMA QueueStepTouches ==
  ASSUME ThreadsTypeOK, QueueTypeOK, QueueInv, NEW t \in Threads, QueueStep(t), ~overran',
         NEW u \in Threads, qpc[u] = "idle"
  PROVE  state'[u] = state[u] /\ isUnderSheduling'[u] = isUnderSheduling[u]
<1>1. qpc[t] # "idle" /\ u # t
  BY QueueStepMoves
<1>2. ASSUME qpc[t] \in {"wSetState", "wSetUnder"}
      PROVE  target[t] # u
  BY <1>2, QueueStepMoves DEF QueueInv, ListInv, IsList, Wakes
<1>3. CASE UNCHANGED threadVars
  BY <1>3 DEF threadVars
<1>4. CASE pState(t) \/ pUnder(t)
  BY <1>1, <1>4 DEF pState, pUnder, ThreadsTypeOK
<1>5. CASE wSetState(t) \/ wSetUnder(t)
  BY <1>2, <1>5 DEF wSetState, wSetUnder, ThreadsTypeOK, QAt
<1> QED
  BY <1>3, <1>4, <1>5
     DEF QueueStep, qLock, qLink, qTail, qUnlock, pInt, wLock, wPop, wEmpty, wTest, wUnlock

LEMMA QueueStepAwake ==
  ASSUME ThreadsTypeOK, QueueTypeOK, QueueInv, Awake, NEW t \in Threads, QueueStep(t)
  PROVE  Awake'
BY QueueStepKeepsAwake, QueueStepMoves DEF Awake

\* A step of a thread on its way to sleep leaves the other slots alone; the thread is
\* unselectable when it comes to its int 3, and leaves it only when woken, or outrunning.
LEMMA WaitStepMoves ==
  ASSUME ThreadsTypeOK, QueueTypeOK, NEW t \in Threads, QueueStep(t), qpc[t] \in WaitLabels,
         ~overran'
  PROVE  /\ \A u \in Threads \ {t} : isUnderSheduling'[u] = isUnderSheduling[u]
         /\ qpc'[t] \in WaitLabels \/ (qpc[t] = "pInt" /\ qpc'[t] = "idle" /\ isUnderSheduling[t])
         /\ qpc'[t] = "pInt" => ~isUnderSheduling'[t]
<1> USE DEF ThreadsTypeOK, QueueTypeOK, QAt, QGoto, WaitLabels, PauseLabels, threadVars
<1>1. CASE qLock(t) \/ qTail(t) \/ qUnlock(t)
  BY <1>1 DEF qLock, qTail, qUnlock
<1>2. CASE qLink(t)
  BY <1>2 DEF qLink
<1>3. CASE pState(t) \/ pUnder(t) \/ pInt(t)
  BY <1>3 DEF pState, pUnder, pInt
<1> QED
  BY <1>1, <1>2, <1>3
     DEF QueueStep, wLock, wPop, wEmpty, wTest, wSetState, wSetUnder, wUnlock

\* What a step of the object the queue belongs to, or of another queue, does to a
\* thread: nothing, or it enters a routine of the queue. Nobody joins who cannot be
\* selected, or whose slot says asleep.
MayEnter(u) ==
  \/ qpc'[u] = qpc[u]
  \/ qpc[u] = "idle" /\ qpc'[u] = "wLock"
  \/ /\ qpc[u] = "idle" /\ qpc'[u] = "qLock"
     /\ ~overran' => isUnderSheduling'[u] /\ state'[u] # "WAITSLEEPJOIN"

\* Such a step, which leaves the slots of those who wait alone, keeps the order too.
LEMMA OtherStepKeepsInv ==
  ASSUME QueueTypeOK, QueueInv,
         UNCHANGED <<head, tail, count, qlock, next, target>>,
         ~overran' => ~overran /\ (~smashed => ~smashed'),
         \A u \in Threads : MayEnter(u),
         ~overran' => \A u \in Threads : qpc[u] \in WaitLabels =>
            state'[u] = state[u] /\ isUnderSheduling'[u] = isUnderSheduling[u]
  PROVE  QueueInv'
<1>0. \A u \in Threads :
         \/ qpc'[u] = qpc[u]
         \/ qpc[u] = "idle" /\ qpc'[u] = "wLock"
         \/ /\ qpc[u] = "idle" /\ qpc'[u] = "qLock"
            /\ ~overran' => isUnderSheduling'[u] /\ state'[u] # "WAITSLEEPJOIN"
  BY DEF MayEnter
<1>1. \A u \in Threads : InsideQueue(u)' <=> InsideQueue(u)
  BY <1>0 DEF InsideQueue, WakeLabels
<1>2. QueueLockInv'
  BY <1>1 DEF QueueInv, QueueLockInv
<1>3. SUFFICES ASSUME ~overran' PROVE PauseInv' /\ ListInv' /\ ~smashed'
  BY <1>2 DEF QueueInv
<1>4. PauseInv /\ ListInv /\ ~smashed
  BY <1>3 DEF QueueInv
<1>5. PauseInv'
  BY <1>0, <1>3, <1>4 DEF PauseInv, WaitLabels, PauseLabels
<1>6. PICK n \in 0 .. NumThreads : \E q \in Lists(n) : IsList(n, q)
  BY <1>4 DEF ListInv
<1>6q. PICK q \in Lists(n) : IsList(n, q)
  BY <1>6
<1>7. \A u \in Threads : qpc'[u] = "qTail" <=> qpc[u] = "qTail"
  BY <1>0
<1>8. ASSUME NEW k \in 0 .. n - 1 PROVE Waits(q[k])'
  <2>1. q[k] \in Threads /\ Waits(q[k])
    BY <1>6q, ListIn DEF IsList
  <2>2. qpc'[q[k]] = qpc[q[k]] /\ state'[q[k]] = state[q[k]]
    BY <1>0, <1>3, <2>1 DEF Waits, WaitLabels, PauseLabels
  <2> QED
    BY <2>1, <2>2 DEF Waits
<1>9. ASSUME NEW w \in Threads PROVE Wakes(w, n, q)'
  <2>0. CASE qpc'[w] \notin {"wTest", "wSetState", "wSetUnder"}
    BY <2>0 DEF Wakes
  <2>1. CASE qpc'[w] \in {"wTest", "wSetState", "wSetUnder"}
    <3>1. qpc'[w] = qpc[w] /\ Wakes(w, n, q)
      BY <1>0, <1>6q, <2>1 DEF IsList
    <3>2. target[w] \in Threads /\ qpc[target[w]] \in {"pUnder", "pInt"}
      BY <2>1, <3>1 DEF Wakes
    <3>3. /\ qpc'[target[w]] = qpc[target[w]] /\ state'[target[w]] = state[target[w]]
          /\ isUnderSheduling'[target[w]] = isUnderSheduling[target[w]]
      BY <1>0, <1>3, <3>2 DEF WaitLabels, PauseLabels
    <3> QED
      BY <3>1, <3>3 DEF Wakes
  <2> QED
    BY <2>0, <2>1
<1>10. IsList(n, q)'
  BY <1>6q, <1>7, <1>8, <1>9, SameList
<1> QED
  BY <1>3, <1>4, <1>5, <1>10 DEF ListInv, Lists

\* The steps that leave the queue and the slots alone.
LEMMA QueueUntouched ==
  ASSUME QueueTypeOK, QueueInv, Awake, UNCHANGED <<isUnderSheduling, state, queueVars>>
  PROVE  QueueInv' /\ Awake'
<1>1. UNCHANGED <<head, tail, count, qlock, next, qpc, target, overran, smashed>>
  BY DEF queueVars
<1>2. \A u \in Threads : MayEnter(u)
  BY <1>1 DEF MayEnter
<1>3. QueueInv'
  BY <1>1, <1>2, OtherStepKeepsInv
<1> QED
  BY <1>1, <1>3 DEF Awake

-----------------------------------------------------------------------------
(* What the list says of Hop.                                              *)

\* Following k links leads to q[k], and past the last entry to nothing.
LEMMA HopIsList ==
  ASSUME QueueTypeOK, NEW n \in Nat, NEW q \in Lists(n), Chained(n, q), NEW k \in Nat
  PROVE  Hop[k] = IF k < n THEN q[k] ELSE NoEntry
<1> DEFINE Bad == {j \in Nat : Hop[j] # IF j < n THEN q[j] ELSE NoEntry}
<1> SUFFICES ASSUME Bad # {} PROVE FALSE
  OBVIOUS
<1>1. PICK m \in Bad : \A j \in Bad : m <= j
  <2> Bad \in SUBSET Nat
    OBVIOUS
  <2> HIDE DEF Bad
  <2> QED BY LeastNat
<1>2. m # 0
  <2>1. Hop[0] = IF 0 < n THEN q[0] ELSE NoEntry
    BY HopWalks DEF Chained
  <2> QED
    BY <2>1
<1>3. m - 1 \in Nat /\ ~(m <= m - 1) /\ (m - 1) + 1 = m
  BY <1>2
<1>4. Hop[m - 1] = IF m - 1 < n THEN q[m - 1] ELSE NoEntry
  BY <1>1, <1>3
<1>5. Hop[m] = IF Hop[m - 1] \in Threads THEN next[Hop[m - 1]] ELSE NoEntry
  BY <1>3, HopWalks
<1>6. CASE m - 1 < n
  <2>1. m - 1 \in 0 .. n - 1
    BY <1>3, <1>6
  <2>2. q[m - 1] \in Threads /\ next[q[m - 1]] = IF (m - 1) + 1 < n THEN q[(m - 1) + 1] ELSE NoEntry
    BY <2>1 DEF Chained, Lists
  <2> QED
    BY <1>3, <1>4, <1>5, <1>6, <2>2
<1>7. CASE ~(m - 1 < n)
  <2>1. Hop[m] = NoEntry
    BY <1>4, <1>5, <1>7, ThreadsNotNull
  <2> QED
    BY <1>3, <1>7, <2>1
<1> QED
  BY <1>6, <1>7

\* Who is linked is in the list.
LinkedFact ==
  \A n \in 0 .. NumThreads : \A q \in Lists(n) :
     QueueTypeOK /\ Chained(n, q) => Linked = {q[k] : k \in 0 .. n - 1}

LEMMA LinkedIsList == LinkedFact
<1> SUFFICES ASSUME NEW n \in 0 .. NumThreads, NEW q \in Lists(n), QueueTypeOK, Chained(n, q)
             PROVE  Linked = {q[k] : k \in 0 .. n - 1}
  BY DEF LinkedFact
<1>1. n \in Nat
  BY NumThreadsAssumption
<1>2. ASSUME NEW u \in Linked PROVE u \in {q[k] : k \in 0 .. n - 1}
  <2>1. PICK k \in 0 .. NumThreads : u = Hop[k] /\ u # NoEntry
    BY DEF Linked
  <2>2. k \in Nat
    BY NumThreadsAssumption
  <2>3. k < n /\ u = q[k]
    BY <1>1, <2>1, <2>2, HopIsList
  <2> QED
    BY <1>1, <2>2, <2>3
<1>3. ASSUME NEW k \in 0 .. n - 1 PROVE q[k] \in Linked
  <2>1. k \in Nat /\ k < n /\ k \in 0 .. NumThreads
    BY <1>1, NumThreadsAssumption
  <2>2. q[k] = Hop[k] /\ q[k] # NoEntry
    BY <1>1, <2>1, HopIsList, ListIn, ThreadsNotNull
  <2> QED
    BY <2>1, <2>2 DEF Linked
<1> QED
  BY <1>2, <1>3

\* What is promised of the queue follows.
LEMMA OrderedQueue ==
  ASSUME QueueTypeOK, QueueInv
  PROVE  QueueWellFormed
<1> SUFFICES ASSUME ~overran, qlock = 0
             PROVE  /\ head = NoEntry <=> tail = NoEntry
                    /\ \A k \in 0 .. count - 1 : Framed(Hop[k])
                    /\ \A j, k \in 0 .. count - 1 : Hop[j] = Hop[k] => j = k
                    /\ Hop[count] = NoEntry
                    /\ count > 0 => tail = Hop[count - 1]
                    /\ \A t \in Linked : qpc[t] = "pInt" => ~isUnderSheduling[t]
  BY DEF QueueWellFormed
<1>1. QueueLockInv /\ PauseInv /\ ListInv
  BY DEF QueueInv
<1>2. PICK n \in 0 .. NumThreads : \E q \in Lists(n) : IsList(n, q)
  BY <1>1 DEF ListInv
<1>2q. PICK q \in Lists(n) : IsList(n, q)
  BY <1>2
<1>3. ~Linking
  BY <1>1 DEF QueueLockInv, InsideQueue, Linking
<1>4. n \in Nat /\ count = n /\ tail = IF n = 0 THEN NoEntry ELSE q[n - 1]
  BY <1>2q, <1>3, NumThreadsAssumption DEF IsList, Ends, Counted
<1>5. ASSUME NEW k \in 0 .. n - 1
      PROVE  Hop[k] = q[k] /\ q[k] \in Threads /\ Waits(q[k])
  BY <1>2q, <1>4, HopIsList, ListIn DEF IsList
<1>6. Hop[n] = NoEntry
  BY <1>2q, <1>4, HopIsList DEF IsList
<1>7. head = NoEntry <=> tail = NoEntry
  <2>1. CASE n = 0
    BY <1>2q, <1>4, <2>1 DEF IsList, Chained
  <2>2. CASE n # 0
    <3>1. 0 \in 0 .. n - 1 /\ n - 1 \in 0 .. n - 1
      BY <1>4, <2>2
    <3> QED
      BY <1>2q, <1>4, <1>5, <2>2, <3>1, ThreadsNotNull DEF IsList, Chained
  <2> QED
    BY <2>1, <2>2
<1>8. \A k \in 0 .. n - 1 : Framed(Hop[k])
  BY <1>5 DEF Framed, Waits, WaitLabels
<1>9. \A j, k \in 0 .. n - 1 : Hop[j] = Hop[k] => j = k
  BY <1>2q, <1>5 DEF IsList, Chained
<1>10. ASSUME n > 0 PROVE tail = Hop[n - 1]
  BY <1>4, <1>5, <1>10
<1>11. ASSUME NEW t \in Linked, qpc[t] = "pInt" PROVE ~isUnderSheduling[t]
  <2>1. PICK k \in 0 .. n - 1 : t = q[k]
    BY <1>2q, LinkedIsList DEF LinkedFact, IsList
  <2> QED
    BY <1>1, <1>5, <1>11, <2>1 DEF Waits, PauseInv, WaitLabels, PauseLabels
<1> QED
  BY <1>4, <1>6, <1>7, <1>8, <1>9, <1>10, <1>11

\* A linked thread stays linked until a waker takes its entry off; when its slot says
\* asleep, the waker goes on to wake it.
LEMMA LinkedUntilTaken ==
  ASSUME ThreadsTypeOK, QueueTypeOK, QueueInv, NEW t \in Threads, QueueStep(t), ~overran',
         NEW u \in Linked
  PROVE  \/ u \in Linked'
         \/ wPop(t) /\ (state[u] = "WAITSLEEPJOIN" => target'[t] = u /\ qpc'[t] = "wTest")
<1>1. QueueLockInv /\ PauseInv /\ ListInv
  BY QueueStepMoves DEF QueueInv
<1>2. PICK n \in 0 .. NumThreads : \E q \in Lists(n) : IsList(n, q)
  BY <1>1 DEF ListInv
<1>3. PICK q \in Lists(n) : IsList(n, q)
  BY <1>2
<1>4. n \in Nat /\ QueueTypeOK'
  BY NumThreadsAssumption, QueueStepTyped
<1>5. PICK k \in 0 .. n - 1 : u = q[k]
  BY <1>3, LinkedIsList DEF LinkedFact, IsList
<1>6. ASSUME NEW m \in 0 .. NumThreads, NEW x \in Lists(m), IsList(m, x)'
      PROVE  Linked' = {x[j] : j \in 0 .. m - 1}
  <2>1. Chained(m, x)'
    BY <1>6 DEF IsList
  <2>2. LinkedFact'
    BY LinkedIsList, PTL
  <2> QED
    BY <1>4, <2>1, <2>2 DEF LinkedFact, Lists
<1>7. CASE qLink(t)
  <2>1. n + 1 \in 0 .. NumThreads
        /\ \E x \in Lists(n + 1) : IsList(n + 1, x)' /\ \A j \in 0 .. n - 1 : x[j] = q[j]
    BY <1>1, <1>3, <1>7, qLinkKeepsList
  <2>2. PICK x \in Lists(n + 1) : IsList(n + 1, x)' /\ \A j \in 0 .. n - 1 : x[j] = q[j]
    BY <2>1
  <2>3. k \in 0 .. (n + 1) - 1 /\ u = x[k]
    BY <1>4, <1>5, <2>2
  <2> QED
    BY <1>6, <2>1, <2>2, <2>3
<1>8. CASE wPop(t)
  <2>1. /\ n - 1 \in 0 .. NumThreads
        /\ \E x \in Lists(n - 1) :
               IsList(n - 1, x)' /\ \A j \in 0 .. n - 2 : x[j] = q[j + 1]
        /\ state[q[0]] = "WAITSLEEPJOIN" => target'[t] = q[0] /\ qpc'[t] = "wTest"
    BY <1>1, <1>3, <1>8, wPopKeepsList
  <2>2. CASE k = 0
    BY <1>5, <1>8, <2>1, <2>2
  <2>3. CASE k # 0
    <3>1. PICK x \in Lists(n - 1) : IsList(n - 1, x)' /\ \A j \in 0 .. n - 2 : x[j] = q[j + 1]
      BY <2>1
    <3>2. k - 1 \in 0 .. n - 2 /\ k - 1 \in 0 .. (n - 1) - 1 /\ (k - 1) + 1 = k
      BY <1>4, <2>3
    <3>3. u = x[k - 1]
      BY <1>5, <3>1, <3>2
    <3> QED
      BY <1>6, <2>1, <3>1, <3>2, <3>3
  <2> QED
    BY <2>2, <2>3
<1>9. CASE ~qLink(t) /\ ~wPop(t)
  <2>1. UNCHANGED <<head, next>>
    BY <1>9 DEF QueueStep, qLock, qTail, qUnlock, pState, pUnder, pInt, wLock, wEmpty, wTest,
                wSetState, wSetUnder, wUnlock
  <2> QED
    BY <2>1 DEF Linked, Hop
<1> QED
  BY <1>7, <1>8, <1>9

LEMMA EmptyHead ==
  ASSUME QueueTypeOK, QueueInv, ~overran, head = NoEntry
  PROVE  Linked = {}
<1>1. PICK n \in 0 .. NumThreads : \E q \in Lists(n) : IsList(n, q)
  BY DEF QueueInv, ListInv
<1>2. PICK q \in Lists(n) : IsList(n, q)
  BY <1>1
<1>3. n = 0
  <2>1. n # 0 => 0 \in 0 .. n - 1
    BY NumThreadsAssumption
  <2> QED
    BY <1>2, <2>1, ListIn, ThreadsNotNull DEF IsList, Chained
<1>4. Linked = {q[k] : k \in 0 .. 0 - 1}
  BY <1>2, <1>3, LinkedIsList DEF LinkedFact, IsList
<1>5. 0 .. 0 - 1 = {}
  OBVIOUS
<1> QED
  BY <1>4, <1>5

LEMMA LinkedWaits ==
  ASSUME QueueTypeOK, QueueInv, ~overran, NEW u \in Linked
  PROVE  u \in Threads /\ Waits(u)
<1>1. PICK n \in 0 .. NumThreads : \E q \in Lists(n) : IsList(n, q)
  BY DEF QueueInv, ListInv
<1>2. PICK q \in Lists(n) : IsList(n, q)
  BY <1>1
<1>3. PICK k \in 0 .. n - 1 : u = q[k]
  BY <1>2, LinkedIsList DEF LinkedFact, IsList
<1> QED
  BY <1>2, <1>3, ListIn DEF IsList
=============================================================================
