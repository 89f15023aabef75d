--------------------------- MODULE AbstractMutex ---------------------------
(***************************************************************************)
(* A reentrant mutex whose wait and release take effect at once, at some   *)
(* moment between the call and the return: who owns it, how many levels    *)
(* deep, and what each caller has seen of it. Nothing here says that       *)
(* callers exclude each other; that they do follows from who may enter.    *)
(***************************************************************************)
EXTENDS Naturals

CONSTANTS
  Thread,
  NoOne     \* the owner of a free mutex, not a thread

VARIABLES
  owner,    \* who has the mutex
  level,    \* how many of the owner's entries it has not left
  inside,   \* inside[t]: waits of t that have returned, less its releases since
  call      \* call[t]: what t has called, and whether it has taken effect

vars == <<owner, level, inside, call>>

Init ==
  /\ owner = NoOne /\ level = 0
  /\ inside = [t \in Thread |-> 0]
  /\ call = [t \in Thread |-> "none"]

Proceed(t, from, to) == call[t] = from /\ call' = [call EXCEPT ![t] = to]

CallWait(t) == Proceed(t, "none", "wait") /\ UNCHANGED <<owner, level, inside>>

\* A free mutex has been left as often as entered.
Enter(t) ==
  /\ Proceed(t, "wait", "entered")
  /\ owner \in {NoOne, t} /\ level = inside[t]
  /\ owner' = t /\ level' = level + 1
  /\ UNCHANGED inside

\* When wait returns, the mutex is still the caller's, and this entry its last.
ReturnWait(t) ==
  /\ Proceed(t, "entered", "none")
  /\ owner = t /\ level = inside[t] + 1
  /\ inside' = [inside EXCEPT ![t] = level]
  /\ UNCHANGED <<owner, level>>

CallRelease(t) ==
  /\ Proceed(t, "none", "release")
  /\ owner = t /\ level = inside[t]
  /\ inside' = [inside EXCEPT ![t] = level - 1]
  /\ UNCHANGED <<owner, level>>

\* A release by a thread that has no entry to leave.
StrayRelease(t) ==
  /\ Proceed(t, "none", "release")
  /\ owner # t /\ inside[t] = 0
  /\ UNCHANGED <<owner, level, inside>>

\* The last entry left is the mutex free.
Leave(t) ==
  /\ Proceed(t, "release", "left")
  /\ owner = t /\ level = inside[t] + 1
  /\ level' = inside[t]
  /\ owner' = IF inside[t] = 0 THEN NoOne ELSE t
  /\ UNCHANGED inside

\* A stray release has no effect.
Ignore(t) == Proceed(t, "release", "left") /\ owner # t /\ UNCHANGED <<owner, level, inside>>

ReturnRelease(t) == Proceed(t, "left", "none") /\ UNCHANGED <<owner, level, inside>>

Next ==
  \E t \in Thread :
    \/ CallWait(t) \/ Enter(t) \/ ReturnWait(t)
    \/ CallRelease(t) \/ StrayRelease(t) \/ Leave(t) \/ Ignore(t) \/ ReturnRelease(t)

Spec == Init /\ [][Next]_vars
=============================================================================
