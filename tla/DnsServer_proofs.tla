-------------------------- MODULE DnsServer_proofs --------------------------
(***************************************************************************)
(* Theorems about pdnsd's threads and its cache lock, for every number of  *)
(* queries and server threads, every limit and every SUSP_BASE.            *)
(***************************************************************************)
EXTENDS DnsServer, FiniteSetTheorems, TLAPS

-----------------------------------------------------------------------------
(* Counting.                                                               *)

\* Two sets that differ in at most one element differ in size by what
\* happens to that element.
LEMMA CountChange ==
  ASSUME NEW U, IsFiniteSet(U), NEW u, NEW A \in SUBSET U, NEW B \in SUBSET U,
         \A v \in U \ {u} : v \in A <=> v \in B
  PROVE  /\ Cardinality(A) \in Nat /\ Cardinality(B) \in Nat
         /\ (u \in A <=> u \in B) => Cardinality(B) = Cardinality(A)
         /\ u \notin A /\ u \in B => Cardinality(B) = Cardinality(A) + 1
         /\ u \in A /\ u \notin B => Cardinality(B) = Cardinality(A) - 1
<1>1. IsFiniteSet(A) /\ IsFiniteSet(B)
  BY FS_Subset
<1>2. Cardinality(A) \in Nat /\ Cardinality(B) \in Nat
  BY <1>1, FS_CardinalityType
<1>3. (u \in A <=> u \in B) => A = B
  OBVIOUS
<1>4. u \notin A /\ u \in B => B = A \cup {u}
  OBVIOUS
<1>5. u \in A /\ u \notin B => B = A \ {u}
  OBVIOUS
<1>6. QED BY <1>1, <1>2, <1>3, <1>4, <1>5, FS_AddElement, FS_RemoveElement

\* A count is positive exactly where there is something to count.
LEMMA CountPositive ==
  ASSUME NEW U, IsFiniteSet(U), NEW A \in SUBSET U
  PROVE  /\ Cardinality(A) \in Nat
         /\ Cardinality(A) = 0 <=> A = {}
<1>1. IsFiniteSet(A)
  BY FS_Subset
<1>2. QED BY <1>1, FS_CardinalityType, FS_EmptySet

\* The threads that wait to read, or to write, asleep or woken.
Waiting(kind) == {u \in Users : lk[u] \in kind}
ReadWaits == {"r_sleep", "r_woken"}
WriteWaits == {"w_sleep", "w_woken"}

-----------------------------------------------------------------------------
(* The lock.                                                               *)

\* The counters stand for the threads: readers and writers that hold the
\* lock, and those that wait for it.  A writer holds it alone.
LockInv ==
  /\ LockTypeOK
  /\ LockExact
  /\ \A u, v \in Users : lk[u] = "writing" /\ lk[v] \in {"reading", "writing"} => u = v
  /\ r_pend = Cardinality(Waiting(ReadWaits))
  /\ rw_pend = Cardinality(Waiting(WriteWaits))

\* u changes its place; others are at most woken.
Moves(u) ==
  /\ lk' \in [Users -> LockStates]
  /\ \A v \in Users \ {u} :
        \/ lk'[v] = lk[v]
        \/ lk[v] = "r_sleep" /\ lk'[v] = "r_woken"
        \/ lk[v] = "w_sleep" /\ lk'[v] = "w_woken"

\* A step of u changes the counts by what u itself does.
LEMMA MoveCounts ==
  ASSUME LockTypeOK, NEW u \in Users, Moves(u),
         NEW S \in {{"reading"}, ReadWaits, WriteWaits}
  PROVE  /\ Cardinality(Waiting(S)) \in Nat /\ Cardinality(Waiting(S)') \in Nat
         /\ Waiting(S) = {} <=> Cardinality(Waiting(S)) = 0
         /\ (lk[u] \in S <=> lk'[u] \in S)
               => Cardinality(Waiting(S)') = Cardinality(Waiting(S))
         /\ lk[u] \notin S /\ lk'[u] \in S
               => Cardinality(Waiting(S)') = Cardinality(Waiting(S)) + 1
         /\ lk[u] \in S /\ lk'[u] \notin S
               => Cardinality(Waiting(S)') = Cardinality(Waiting(S)) - 1
<1>1. \A v \in Users \ {u} : v \in Waiting(S) <=> v \in Waiting(S)'
  BY DEF Moves, Waiting, ReadWaits, WriteWaits
<1>2. IsFiniteSet(Users) /\ Waiting(S) \in SUBSET Users /\ Waiting(S)' \in SUBSET Users
  BY LockAssumption DEF Waiting
<1>3. Cardinality(Waiting(S)) \in Nat /\ (Waiting(S) = {} <=> Cardinality(Waiting(S)) = 0)
  BY <1>2, CountPositive
<1>4. (u \in Waiting(S) <=> lk[u] \in S) /\ (u \in Waiting(S)' <=> lk'[u] \in S)
  BY DEF Waiting
<1>5. QED
  BY <1>1, <1>2, <1>3, <1>4, CountChange

\* The three ways a step of the lock moves its threads.
LEMMA MoveMoves ==
  ASSUME LockTypeOK, NEW u \in Users, NEW s \in LockStates, Move(u, s)
  PROVE  Moves(u) /\ lk'[u] = s /\ \A v \in Users \ {u} : lk'[v] = lk[v]
  BY DEF LockTypeOK, Move, Moves

\* Waking a writer moves the caller out and at most one writer on.
LEMMA SignalMoves ==
  ASSUME LockTypeOK, NEW u \in Users, lk[u] # "w_sleep", SignalWriter(u)
  PROVE  /\ Moves(u) /\ lk'[u] = "out"
         /\ At("w_sleep") # {} => At("w_woken")' # {}
         /\ \A v \in Users \ {u} : lk'[v] # lk[v] => lk[v] = "w_sleep" /\ lk'[v] = "w_woken"
<1>1. CASE At("w_sleep") = {}
  BY <1>1 DEF LockTypeOK, SignalWriter, Moves, LockStates, At
<1>2. CASE At("w_sleep") # {}
  <2>1. PICK w \in At("w_sleep") :
          lk' = [[lk EXCEPT ![u] = "out"] EXCEPT ![w] = "w_woken"]
    BY <1>2 DEF SignalWriter
  <2>2. w \in Users /\ lk[w] = "w_sleep" /\ w # u
    BY <2>1 DEF At
  <2>3. QED
    BY <2>1, <2>2 DEF LockTypeOK, Moves, LockStates, At
<1>3. QED BY <1>1, <1>2

\* Waking the readers moves the caller out and every sleeping reader on.
LEMMA WakeMoves ==
  ASSUME LockTypeOK, NEW u \in Users, WakeReaders(u)
  PROVE  /\ Moves(u) /\ lk'[u] = "out"
         /\ \A v \in Users \ {u} :
               lk'[v] = IF lk[v] = "r_sleep" THEN "r_woken" ELSE lk[v]
  BY DEF LockTypeOK, WakeReaders, Moves, LockStates

\* The operations of the lock.
LockOp(u) ==
  \/ lock_cache_r(u) \/ RetryRead(u) \/ lock_cache_rw(u) \/ RetryWrite(u)
  \/ unlock_cache_r(u) \/ unlock_cache_rw(u)
  \/ softlock_cache_r(u) \/ softunlock_cache_r(u)
  \/ softlock_cache_rw(u) \/ softunlock_cache_rw(u)

\* Where an operation takes its thread.
LEMMA OpMoves ==
  ASSUME LockTypeOK, NEW u \in Users, LockOp(u)
  PROVE  Moves(u)
<1> USE DEF LockStates
<1>1. CASE lock_cache_r(u) \/ RetryRead(u)
  BY <1>1, MoveMoves DEF lock_cache_r, RetryRead, WaitToRead
<1>2. CASE lock_cache_rw(u) \/ RetryWrite(u)
  BY <1>2, MoveMoves DEF lock_cache_rw, RetryWrite, WaitToWrite
<1>3. CASE unlock_cache_r(u)
  BY <1>3, MoveMoves, SignalMoves DEF unlock_cache_r
<1>4. CASE unlock_cache_rw(u)
  BY <1>4, WakeMoves, SignalMoves DEF unlock_cache_rw
<1>5. CASE softlock_cache_r(u) \/ softunlock_cache_r(u) \/ softlock_cache_rw(u)
           \/ softunlock_cache_rw(u)
  BY <1>5, MoveMoves DEF softlock_cache_r, softunlock_cache_r,
     softlock_cache_rw, softunlock_cache_rw
<1>6. QED BY <1>1, <1>2, <1>3, <1>4, <1>5 DEF LockOp
Ind(b) == IF b THEN 1 ELSE 0

\* What an operation of u owes the books: each counter follows u, and u takes
\* the lock only where nobody is in its way.
Balanced(u) ==
  /\ cache_r_lock' = cache_r_lock + Ind(lk'[u] = "reading") - Ind(lk[u] = "reading")
  /\ r_pend' = r_pend + Ind(lk'[u] \in ReadWaits) - Ind(lk[u] \in ReadWaits)
  /\ rw_pend' = rw_pend + Ind(lk'[u] \in WriteWaits) - Ind(lk[u] \in WriteWaits)
  /\ cache_w_lock' \in BOOLEAN
  /\ cache_w_lock' <=> (lk'[u] = "writing" \/ (cache_w_lock /\ lk[u] # "writing"))
  /\ lk'[u] = "reading" /\ lk[u] # "reading" => ~cache_w_lock
  /\ lk'[u] = "writing" /\ lk[u] # "writing" => ~cache_w_lock /\ cache_r_lock = 0
  /\ r_susp' \in BOOLEAN

\* Every operation pays what it owes.
LEMMA OpBalanced ==
  ASSUME LockTypeOK, LockExact, NEW u \in Users, LockOp(u)
  PROVE  Balanced(u)
<1> USE DEF Balanced, Ind, ReadWaits, WriteWaits, LockStates
<1>1. /\ cache_w_lock \in BOOLEAN /\ r_susp \in BOOLEAN
      /\ cache_r_lock \in Nat /\ r_pend \in Nat /\ rw_pend \in Nat
  BY DEF LockTypeOK
<1>2. lk[u] = "reading" => cache_r_lock > 0
  <2>1. cache_r_lock = 0 <=> At("reading") = {}
    BY CountPositive, LockAssumption, At("reading") \in SUBSET Users DEF LockExact, At
  <2>2. QED BY <2>1, <1>1 DEF At
<1>3. CASE lock_cache_r(u)
  BY <1>1, <1>3, MoveMoves DEF lock_cache_r, WaitToRead
<1>4. CASE RetryRead(u)
  BY <1>1, <1>4, MoveMoves DEF RetryRead, WaitToRead
<1>5. ASSUME NEW pend \in Nat, WaitToWrite(u, pend), lk[u] \in {"out", "w_woken"},
             pend = rw_pend + Ind(lk[u] = "out")
      PROVE  Balanced(u)
  <2>1. UNCHANGED <<cache_r_lock, r_pend, r_susp>>
    BY <1>5 DEF WaitToWrite
  <2>2. CASE cache_w_lock \/ cache_r_lock > 0
    <3>1. lk'[u] = "w_sleep" /\ rw_pend' = pend /\ cache_w_lock' = cache_w_lock
      BY <1>5, <2>2, MoveMoves DEF WaitToWrite
    <3>2. QED BY <1>1, <1>5, <2>1, <3>1
  <2>3. CASE ~cache_w_lock /\ ~(cache_r_lock > 0)
    <3>1. lk'[u] = "writing" /\ rw_pend' = pend - 1 /\ cache_w_lock' = TRUE
      BY <1>5, <2>3, MoveMoves DEF WaitToWrite
    <3>2. QED BY <1>1, <1>5, <2>1, <2>3, <3>1
  <2>4. QED BY <2>2, <2>3
<1>6. CASE lock_cache_rw(u) \/ RetryWrite(u)
  BY <1>1, <1>5, <1>6 DEF lock_cache_rw, RetryWrite
<1>7. CASE unlock_cache_r(u)
  <2>1. lk[u] = "reading" /\ lk'[u] = "out"
    BY <1>7, MoveMoves, SignalMoves DEF unlock_cache_r
  <2>2. QED BY <1>1, <1>2, <1>7, <2>1 DEF unlock_cache_r
<1>8. CASE unlock_cache_rw(u)
  <2>1. lk[u] = "writing" /\ lk'[u] = "out"
    BY <1>8, WakeMoves, SignalMoves DEF unlock_cache_rw
  <2>2. /\ ~cache_w_lock' /\ cache_w_lock' \in BOOLEAN /\ r_susp' \in BOOLEAN
        /\ UNCHANGED <<cache_r_lock, r_pend, rw_pend>>
    BY <1>8 DEF unlock_cache_rw
  <2>3. QED BY <1>1, <2>1, <2>2
<1>9. CASE softlock_cache_r(u)
  BY <1>1, <1>9, MoveMoves DEF softlock_cache_r
<1>10. CASE softunlock_cache_r(u)
  BY <1>1, <1>2, <1>10, MoveMoves DEF softunlock_cache_r
<1>11. CASE softlock_cache_rw(u)
  <2>1. lk[u] = "out" /\ lk'[u] = "writing" /\ cache_w_lock' = TRUE
    BY <1>11, MoveMoves DEF softlock_cache_rw
  <2>2. QED BY <1>1, <1>11, <2>1 DEF softlock_cache_rw
<1>12. CASE softunlock_cache_rw(u)
  <2>1. lk[u] = "writing" /\ lk'[u] = "out"
    BY <1>12, MoveMoves DEF softunlock_cache_rw
  <2>2. /\ ~cache_w_lock' /\ cache_w_lock' \in BOOLEAN
        /\ UNCHANGED <<cache_r_lock, r_pend, rw_pend, r_susp>>
    BY <1>12 DEF softunlock_cache_rw
  <2>3. QED BY <1>1, <2>1, <2>2
<1>13. QED
  BY <1>3, <1>4, <1>6, <1>7, <1>8, <1>9, <1>10, <1>11, <1>12 DEF LockOp

\* A balanced operation keeps the lock's books and leaves the writer alone.
LEMMA LockStep ==
  ASSUME LockInv, NEW u \in Users, LockOp(u)
  PROVE  LockInv'
<1>1. LockTypeOK /\ Moves(u) /\ Balanced(u)
  BY OpMoves, OpBalanced DEF LockInv
<1>2. lk \in [Users -> LockStates] /\ lk' \in [Users -> LockStates]
  BY <1>1 DEF LockTypeOK, Moves
<1>3. At("reading") = Waiting({"reading"}) /\ At("reading")' = Waiting({"reading"})'
  BY DEF At, Waiting
<1>4. cache_r_lock' = Cardinality(At("reading")') /\ cache_r_lock' \in Nat
  BY <1>1, <1>3, MoveCounts DEF LockInv, LockExact, Balanced, Ind
<1>5. r_pend' = Cardinality(Waiting(ReadWaits)') /\ r_pend' \in Nat
  BY <1>1, MoveCounts DEF LockInv, Balanced, Ind
<1>6. rw_pend' = Cardinality(Waiting(WriteWaits)') /\ rw_pend' \in Nat
  BY <1>1, MoveCounts DEF LockInv, Balanced, Ind
<1>7. cache_r_lock = 0 => \A v \in Users : lk[v] # "reading"
  BY <1>1, <1>3, MoveCounts DEF LockInv, LockExact, At
<1>8. \A v \in Users \ {u}, s \in {"reading", "writing"} : lk'[v] = s <=> lk[v] = s
  BY <1>1 DEF Moves
<1>9. cache_w_lock <=> \E v \in Users : lk[v] = "writing"
  BY DEF LockInv, LockExact, At
<1>10. cache_w_lock' \in BOOLEAN /\ (cache_w_lock' <=> At("writing")' # {})
  <2>1. cache_w_lock' <=> \E v \in Users : lk'[v] = "writing"
    BY <1>1, <1>8, <1>9 DEF Balanced, LockInv
  <2>2. QED BY <1>1, <2>1 DEF At, Balanced
<1>11. ASSUME NEW v \in Users, NEW w \in Users, lk'[v] = "writing",
              lk'[w] \in {"reading", "writing"}
       PROVE  v = w
  BY <1>1, <1>7, <1>8, <1>9, <1>11 DEF Balanced, LockInv
<1>12. QED
  BY <1>1, <1>2, <1>4, <1>5, <1>6, <1>10, <1>11
     DEF LockInv, LockTypeOK, LockExact, Balanced
\* A step of pdnsd is an operation of the lock by one thread, or leaves the
\* lock alone.
LEMMA LockSteps ==
  ASSUME [Next]_vars
  PROVE  (\E u \in Users : LockOp(u)) \/ UNCHANGED lockVars
<1>1. Main \in Users /\ Threads \subseteq Users
  BY ServerAssumption DEF Threads
<1>2. CASE \E s \in Servers : server_thread_accept(s) \/ server_thread_create(s)
  BY <1>2 DEF server_thread_accept, server_thread_create
<1>3. ASSUME NEW t \in Threads, Worker(t)
      PROVE  LockOp(t) \/ UNCHANGED lockVars
  BY <1>3 DEF Worker, answer_thread_start, LookupLock, LookupUnlock, UpdateLock,
     UpdateUnlock, decrease_procs, LockOp
<1>4. CASE MainNext
  BY <1>4, <1>1 DEF MainNext, Signal, SoftLock, SoftLocks, SoftLockFails, SoftMutexFails,
     PurgeDone, SaveDone, Exit, LockOp
<1>5. CASE UNCHANGED vars
  BY <1>5 DEF vars
<1>6. QED BY <1>1, <1>2, <1>3, <1>4, <1>5 DEF Next

\* The lock starts free, with all counters at zero.
LEMMA LockInvInit == Init => LockInv
<1> SUFFICES ASSUME Init PROVE LockInv
  OBVIOUS
<1>1. lk = [u \in Users |-> "out"] /\ LockTypeOK
  BY DEF Init, LockInit, LockTypeOK, LockStates
<1>2. At("reading") = {} /\ At("writing") = {}
  BY <1>1 DEF At
<1>3. Waiting(ReadWaits) = {} /\ Waiting(WriteWaits) = {}
  BY <1>1 DEF Waiting, ReadWaits, WriteWaits
<1>4. QED
  BY <1>1, <1>2, <1>3, FS_EmptySet DEF Init, LockInit, LockInv, LockExact

\* No operation of a thread, the soft locks of the exit included, brings the
\* counters of the lock apart from its holders and waiters.
LEMMA LockInvStep == LockInv /\ [Next]_vars => LockInv'
<1> SUFFICES ASSUME LockInv, [Next]_vars PROVE LockInv'
  OBVIOUS
<1>1. CASE \E u \in Users : LockOp(u)
  BY <1>1, LockStep
<1>2. CASE UNCHANGED lockVars
  BY <1>2 DEF lockVars, LockInv, LockTypeOK, LockExact, At, Waiting
<1>3. QED BY <1>1, <1>2, LockSteps

\* For any number of threads and however the exit's soft locks cut in, the
\* counters of the cache lock stand for its holders.
THEOREM LockExactAlways == Spec => []LockExact
<1>1. LockInv => LockExact
  BY DEF LockInv
<1>2. QED
  BY <1>1, LockInvInit, LockInvStep, PTL DEF Spec

-----------------------------------------------------------------------------
(* The lock implements RWLock.                                             *)

Holds == [u \in Users |-> IF lk[u] = "reading" THEN "read"
                          ELSE IF lk[u] = "writing" THEN "write" ELSE "none"]

\* An operation of the lock takes it, releases it or is invisible.
LEMMA LockMaps ==
  ASSUME LockInv, NEW u \in Users, LockOp(u)
  PROVE  Lock!Next \/ Holds' = Holds
<1>1. Moves(u) /\ Balanced(u) /\ lk \in [Users -> LockStates]
  BY OpMoves, OpBalanced DEF LockInv, LockTypeOK
<1>2. \A v \in Users \ {u} : Holds'[v] = Holds[v]
  BY <1>1 DEF Moves, Holds
<1>3. Holds' = [Holds EXCEPT ![u] = Holds'[u]]
  BY <1>2 DEF Holds
<1>4. /\ cache_w_lock <=> \E v \in Users : lk[v] = "writing"
      /\ cache_r_lock = 0 => \A v \in Users : lk[v] # "reading"
  <2>1. cache_r_lock = 0 <=> At("reading") = {}
    BY CountPositive, LockAssumption, At("reading") \in SUBSET Users
       DEF LockInv, LockExact, At
  <2>2. QED BY <2>1 DEF LockInv, LockExact, At
<1>5. CASE Holds'[u] = Holds[u]
  BY <1>3, <1>5 DEF Holds
<1>6. CASE Holds'[u] = "read" /\ Holds[u] # "read"
  <2>1. ~cache_w_lock
    BY <1>1, <1>6 DEF Balanced, Holds
  <2>2. Lock!Holding("write") = {} /\ Holds[u] = "none"
    BY <2>1, <1>4, <1>6 DEF Lock!Holding, Holds
  <2>3. Lock!ReadLock(u)
    BY <2>2, <1>3, <1>6 DEF Lock!ReadLock, Holds
  <2>4. QED BY <2>3 DEF Lock!Next
<1>7. CASE Holds'[u] = "write" /\ Holds[u] # "write"
  <2>1. ~cache_w_lock /\ cache_r_lock = 0
    BY <1>1, <1>7 DEF Balanced, Holds
  <2>2. Lock!Holding("write") = {} /\ Lock!Holding("read") = {}
    BY <2>1, <1>4 DEF Lock!Holding
  <2>3. Lock!WriteLock(u)
    BY <2>2, <1>3, <1>7 DEF Lock!WriteLock, Holds
  <2>4. QED BY <2>3 DEF Lock!Next
<1>8. CASE Holds'[u] = "none" /\ Holds[u] # "none"
  <2>1. Lock!Unlock(u)
    BY <1>3, <1>8 DEF Lock!Unlock, Holds
  <2>2. QED BY <2>1 DEF Lock!Next
<1>9. Holds'[u] \in {"read", "write", "none"}
  BY DEF Holds
<1>10. QED BY <1>5, <1>6, <1>7, <1>8, <1>9

\* The lock pdnsd builds from a mutex, two condition variables and five
\* counters is a readers-writer lock: nobody changes the cache while another
\* thread reads or changes it, at exit included.
THEOREM LockRefinement == Spec => LockRefined
<1>1. Init => Lock!Init
  BY DEF Init, LockInit, Lock!Init
<1>2. LockInv /\ [Next]_vars => [Lock!Next]_Holds
  <2> SUFFICES ASSUME LockInv, [Next]_vars PROVE Lock!Next \/ Holds' = Holds
    OBVIOUS
  <2>1. CASE \E u \in Users : LockOp(u)
    BY <2>1, LockMaps
  <2>2. CASE UNCHANGED lockVars
    BY <2>2 DEF lockVars, Holds
  <2>3. QED BY <2>1, <2>2, LockSteps
<1>3. QED
  BY <1>1, <1>2, LockInvInit, LockInvStep, PTL DEF Spec, LockRefined, Lock!Spec, Holds
-----------------------------------------------------------------------------
(* Wakeups.                                                                *)

\* Why nobody sleeps on a free lock.  Readers are suspended or asleep only
\* while a writer holds the lock or waits for it; and where the lock is free
\* and no waiting writer has been woken, all waiting readers have been, there
\* are some, and too few writers wait to suspend them again.
WakeInv ==
  main = "sigwait" =>
    /\ r_susp \/ At("r_sleep") # {} => cache_w_lock \/ rw_pend > 0
    /\ Free /\ rw_pend > 0 /\ At("w_woken") = {} =>
          /\ ~r_susp /\ rw_pend <= SUSP_THRESH(r_pend)
          /\ At("r_sleep") = {} /\ At("r_woken") # {}

\* The threshold is a number and grows with the waiting readers.
LEMMA Threshold ==
  ASSUME NEW n \in Nat
  PROVE  /\ SUSP_THRESH(n) \in Nat
         /\ SUSP_THRESH(n) <= SUSP_THRESH(n + 1)
  BY LockAssumption DEF SUSP_THRESH

\* The counters tell whether the lock is free and whether anybody waits.
Tell ==
  /\ Free <=> cache_r_lock = 0 /\ ~cache_w_lock
  /\ rw_pend = 0 <=> At("w_sleep") = {} /\ At("w_woken") = {}
  /\ r_pend = 0 <=> At("r_sleep") = {} /\ At("r_woken") = {}

\* The counters tell what the unlock functions read from them.
LEMMA WhatCountersTell == LockInv => Tell
<1> SUFFICES ASSUME LockInv PROVE Tell
  OBVIOUS
<1>1. cache_r_lock = 0 <=> At("reading") = {}
  BY CountPositive, LockAssumption, At("reading") \in SUBSET Users DEF LockInv, LockExact, At
<1>2. rw_pend = 0 <=> Waiting(WriteWaits) = {}
  BY CountPositive, LockAssumption, Waiting(WriteWaits) \in SUBSET Users DEF LockInv, Waiting
<1>3. r_pend = 0 <=> Waiting(ReadWaits) = {}
  BY CountPositive, LockAssumption, Waiting(ReadWaits) \in SUBSET Users DEF LockInv, Waiting
<1>4. QED
  BY <1>1, <1>2, <1>3
     DEF Tell, LockInv, LockExact, Free, At, Waiting, WriteWaits, ReadWaits

\* What an answer thread does to the lock.
AnswerOp(u) ==
  \/ lock_cache_r(u) \/ RetryRead(u) \/ lock_cache_rw(u) \/ RetryWrite(u)
  \/ unlock_cache_r(u) \/ unlock_cache_rw(u)

\* Before the signal only answer threads use the lock.
LEMMA SigwaitSteps ==
  ASSUME [Next]_vars, main' = "sigwait", main \in MainStates
  PROVE  /\ main = "sigwait"
         /\ (\E u \in Users : AnswerOp(u)) \/ UNCHANGED lockVars
<1>1. Threads \subseteq Users
  BY ServerAssumption DEF Threads
<1>2. CASE \E s \in Servers : server_thread_accept(s) \/ server_thread_create(s)
  BY <1>2 DEF server_thread_accept, server_thread_create
<1>3. ASSUME NEW t \in Threads, Worker(t)
      PROVE  main' = main /\ (AnswerOp(t) \/ UNCHANGED lockVars)
  BY <1>3 DEF Worker, answer_thread_start, LookupLock, LookupUnlock, UpdateLock,
     UpdateUnlock, decrease_procs, AnswerOp, LockOnly
<1>4. CASE MainNext
  BY <1>4 DEF MainNext, Signal, SoftLock, SoftLocks, SoftLockFails, SoftMutexFails,
     PurgeDone, SaveDone, Exit, MainStep, GivesUp, MainStates
<1>5. CASE UNCHANGED vars
  BY <1>5 DEF vars
<1>6. QED BY <1>1, <1>2, <1>3, <1>4, <1>5 DEF Next

\* An answer thread's operation on the lock leaves no sleeper behind.
LEMMA WakeStep ==
  ASSUME LockInv, LockInv', WakeInv, main = "sigwait", NEW u \in Users, AnswerOp(u)
  PROVE  WakeInv'
<1> DEFINE A == r_susp \/ At("r_sleep") # {} => cache_w_lock \/ rw_pend > 0
           B == Free /\ rw_pend > 0 /\ At("w_woken") = {} =>
                  /\ ~r_susp /\ rw_pend <= SUSP_THRESH(r_pend)
                  /\ At("r_sleep") = {} /\ At("r_woken") # {}
<1>1. A /\ B
  BY DEF WakeInv
<1>2. SUFFICES A' /\ B'
  BY DEF WakeInv
<1>3. Tell
  BY WhatCountersTell
<1>4. Tell'
  BY WhatCountersTell, PTL
<1>5. /\ {cache_r_lock, r_pend, rw_pend} \subseteq Nat
      /\ {cache_r_lock', r_pend', rw_pend'} \subseteq Nat
      /\ LockTypeOK
  BY DEF LockInv, LockTypeOK
<1>6. ASSUME NEW pend \in Nat, WaitToRead(u, pend),
             \/ lk[u] = "out" /\ pend = r_pend + 1
             \/ lk[u] = "r_woken" /\ pend = r_pend
      PROVE  A' /\ B'
  <2> DEFINE susp == rw_pend > SUSP_THRESH(pend) \/ r_susp
  <2>1. UNCHANGED <<cache_w_lock, rw_pend>> /\ r_susp' = susp
    BY <1>6 DEF WaitToRead
  <2>2. SUSP_THRESH(r_pend) \in Nat /\ SUSP_THRESH(pend) \in Nat
        /\ SUSP_THRESH(r_pend) <= SUSP_THRESH(pend)
    BY <1>5, <1>6, Threshold
  <2>3. CASE susp \/ cache_w_lock
    <3>1. Move(u, "r_sleep") /\ cache_r_lock' = cache_r_lock
      BY <1>6, <2>3 DEF WaitToRead
    <3>2. At("w_woken")' = At("w_woken")
      BY <1>5, <1>6, <3>1, MoveMoves DEF At, LockStates
    <3>3. cache_w_lock \/ rw_pend > 0
      BY <1>1, <1>5, <2>2, <2>3
    <3>4. ~(Free /\ rw_pend > 0 /\ At("w_woken") = {})
      BY <1>1, <1>3, <1>5, <2>2, <2>3 DEF Tell
    <3>5. Free' <=> Free
      BY <1>3, <1>4, <2>1, <3>1 DEF Tell
    <3>6. QED BY <2>1, <3>2, <3>3, <3>4, <3>5
  <2>4. CASE ~susp /\ ~cache_w_lock
    <3>1. Move(u, "reading") /\ cache_r_lock' = cache_r_lock + 1
      BY <1>6, <2>4 DEF WaitToRead
    <3>2. At("r_sleep")' \subseteq At("r_sleep")
      BY <1>5, <1>6, <3>1, MoveMoves DEF At, LockStates
    <3>3. ~Free'
      BY <1>4, <1>5, <3>1 DEF Tell
    <3>4. ~r_susp'
      BY <1>6, <2>4, Zenon DEF WaitToRead
    <3>5. QED BY <1>1, <2>1, <3>2, <3>3, <3>4
  <2>5. QED BY <2>3, <2>4
<1>7. ASSUME NEW pend \in Nat, WaitToWrite(u, pend),
             \/ lk[u] = "out" /\ pend = rw_pend + 1
             \/ lk[u] = "w_woken" /\ pend = rw_pend
      PROVE  A' /\ B'
  <2>1. CASE cache_w_lock \/ cache_r_lock > 0
    <3>1. rw_pend' = pend /\ UNCHANGED <<cache_w_lock, cache_r_lock>>
      BY <1>7, <2>1 DEF WaitToWrite
    <3>2. pend > 0
      BY <1>3, <1>5, <1>7 DEF Tell, At
    <3>3. ~Free'
      BY <1>4, <1>5, <2>1, <3>1 DEF Tell
    <3>4. QED BY <3>1, <3>2, <3>3
  <2>2. CASE ~(cache_w_lock \/ cache_r_lock > 0)
    <3>1. cache_w_lock'
      BY <1>7, <2>2 DEF WaitToWrite
    <3>2. QED BY <1>4, <3>1 DEF Tell
  <2>3. QED BY <2>1, <2>2
<1>8. CASE unlock_cache_r(u)
  <2>1. UNCHANGED <<cache_w_lock, rw_pend, r_susp>> /\ lk[u] = "reading"
    BY <1>8 DEF unlock_cache_r
  <2>2. CASE cache_r_lock' = 0
    <3>1. SignalWriter(u)
      BY <1>8, <2>2 DEF unlock_cache_r
    <3>2. At("r_sleep")' \subseteq At("r_sleep")
      BY <1>5, <2>1, <3>1, SignalMoves DEF At
    <3>3. At("w_sleep") # {} \/ At("w_woken") # {} => At("w_woken")' # {}
      BY <1>5, <2>1, <3>1, SignalMoves DEF At
    <3>4. rw_pend > 0 => At("w_woken")' # {}
      BY <1>3, <3>3 DEF Tell
    <3>5. QED BY <1>1, <2>1, <3>2, <3>4
  <2>3. CASE cache_r_lock' # 0
    <3>1. Move(u, "out") /\ ~Free'
      BY <1>4, <1>8, <2>3 DEF unlock_cache_r, Tell
    <3>2. At("r_sleep")' \subseteq At("r_sleep")
      BY <1>5, <2>1, <3>1, MoveMoves DEF At, LockStates
    <3>3. QED BY <1>1, <2>1, <3>1, <3>2
  <2>4. QED BY <2>2, <2>3
<1>9. CASE unlock_cache_rw(u)
  <2>1. UNCHANGED <<cache_r_lock, rw_pend, r_pend>> /\ lk[u] = "writing" /\ ~r_susp'
    BY <1>9 DEF unlock_cache_rw
  <2>2. CASE r_pend = 0 \/ rw_pend > SUSP_THRESH(r_pend)
    <3>1. SignalWriter(u)
      BY <1>9, <2>2 DEF unlock_cache_rw
    <3>2. At("r_sleep")' \subseteq At("r_sleep")
      BY <1>5, <2>1, <3>1, SignalMoves DEF At
    <3>3. At("w_sleep") # {} \/ At("w_woken") # {} => At("w_woken")' # {}
      BY <1>5, <2>1, <3>1, SignalMoves DEF At
    <3>4. rw_pend > 0 => At("w_woken")' # {}
      BY <1>3, <3>3 DEF Tell
    <3>5. At("r_sleep") # {} => rw_pend > 0
      BY <1>3, <1>5, <2>2, Threshold DEF Tell
    <3>6. QED BY <2>1, <3>2, <3>4, <3>5
  <2>3. CASE r_pend # 0 /\ ~(rw_pend > SUSP_THRESH(r_pend))
    <3>1. WakeReaders(u)
      BY <1>9, <2>3 DEF unlock_cache_rw
    <3>2. At("r_sleep")' = {}
      BY <1>5, <3>1, WakeMoves DEF At
    <3>3. At("r_woken")' # {}
      BY <1>4, <2>1, <2>3, <3>2 DEF Tell
    <3>4. rw_pend <= SUSP_THRESH(r_pend)
      BY <1>5, <2>3, Threshold
    <3>5. SUSP_THRESH(r_pend)' = SUSP_THRESH(r_pend)
      BY <2>1 DEF SUSP_THRESH
    <3>6. QED BY <2>1, <3>2, <3>3, <3>4, <3>5
  <2>4. QED BY <2>2, <2>3
<1>10. QED
  BY <1>5, <1>6, <1>7, <1>8, <1>9
     DEF AnswerOp, lock_cache_r, RetryRead, lock_cache_rw, RetryWrite

\* Neither does any other step before the exit begins.
LEMMA WakeInvStep == LockInv /\ LockInv' /\ main \in MainStates /\ WakeInv /\ [Next]_vars => WakeInv'
<1> SUFFICES ASSUME LockInv, LockInv', main \in MainStates, WakeInv, [Next]_vars,
                    main' = "sigwait"
             PROVE  WakeInv'
  BY DEF WakeInv
<1>1. CASE \E u \in Users : AnswerOp(u)
  BY <1>1, SigwaitSteps, WakeStep
<1>2. CASE UNCHANGED lockVars
  BY <1>2, SigwaitSteps DEF lockVars, WakeInv, At, Free, SUSP_THRESH
<1>3. QED BY <1>1, <1>2, SigwaitSteps

\* With the counters exact, WakeInv is what NoLostWakeup asks for.
LEMMA WakeInvEnough == LockInv /\ WakeInv => NoLostWakeup
<1> SUFFICES ASSUME LockInv, WakeInv, main = "sigwait"
             PROVE  /\ Free /\ At("r_sleep") \cup At("w_sleep") # {} =>
                          At("r_woken") \cup At("w_woken") # {}
                    /\ r_susp => rw_pend > 0 \/ cache_w_lock
  BY DEF NoLostWakeup
<1>1. Tell /\ rw_pend \in Nat
  BY WhatCountersTell DEF LockInv, LockTypeOK
<1>2. QED BY <1>1 DEF WakeInv, Tell
-----------------------------------------------------------------------------
(* Types and limits.                                                       *)

Creating == {s \in Servers : server[s] = "creating"}

\* The types the lock does not have, and the limits.
ServerInv ==
  /\ at \in [Threads -> ThreadStates]
  /\ server \in [Servers -> {"idle", "creating"}]
  /\ procs \in Nat /\ qprocs \in Nat
  /\ main \in MainStates /\ tries \in 0..(SOFTLOCK_MAXTRIES - 1)
  /\ LimitsExact

\* A thread that goes elsewhere leaves one count and enters another.
LEMMA GotoCounts ==
  ASSUME at \in [Threads -> ThreadStates], NEW t \in Threads, NEW s \in ThreadStates,
         Goto(t, s), NEW S
  PROVE  /\ Cardinality(AtWork(S)) \in Nat
         /\ Cardinality(AtWork(S)') =
              Cardinality(AtWork(S)) + Ind(s \in S) - Ind(at[t] \in S)
<1> DEFINE A == AtWork(S)
           B == AtWork(S)'
<1>1. IsFiniteSet(Threads)
  BY ServerAssumption, FS_Interval DEF Threads
<1>2. A \in SUBSET Threads /\ B \in SUBSET Threads
  BY DEF AtWork
<1>3. at'[t] = s /\ \A v \in Threads \ {t} : at'[v] = at[v]
  BY DEF Goto
<1>4. (t \in A <=> at[t] \in S) /\ (t \in B <=> s \in S)
  BY <1>3 DEF AtWork
<1>5. \A v \in Threads \ {t} : v \in A <=> v \in B
  BY <1>3 DEF AtWork
<1> HIDE DEF A, B
<1>6. /\ Cardinality(A) \in Nat
      /\ (t \in A <=> t \in B) => Cardinality(B) = Cardinality(A)
      /\ t \notin A /\ t \in B => Cardinality(B) = Cardinality(A) + 1
      /\ t \in A /\ t \notin B => Cardinality(B) = Cardinality(A) - 1
  BY <1>1, <1>2, <1>5, CountChange
<1>7. Cardinality(B) = Cardinality(A) + Ind(s \in S) - Ind(at[t] \in S)
  BY <1>4, <1>6 DEF Ind
<1>8. QED BY <1>6, <1>7 DEF A, B

\* A server that begins or ends a thread's creation is counted so.
LEMMA CreatingCounts ==
  ASSUME server \in [Servers -> {"idle", "creating"}], NEW s \in Servers,
         NEW x \in {"idle", "creating"}, server[s] # x,
         server' = [server EXCEPT ![s] = x]
  PROVE  /\ Cardinality(Creating) \in Nat
         /\ x = "creating" => Cardinality(Creating') = Cardinality(Creating) + 1
         /\ x = "idle" => Cardinality(Creating') = Cardinality(Creating) - 1
<1> DEFINE A == Creating
           B == Creating'
<1>1. A \in SUBSET Servers /\ B \in SUBSET Servers
  BY DEF Creating
<1>2. \A v \in Servers \ {s} : v \in A <=> v \in B
  BY DEF Creating
<1>3. (s \in A <=> x = "idle") /\ (s \in B <=> x = "creating")
  BY DEF Creating
<1> HIDE DEF A, B
<1>4. /\ Cardinality(A) \in Nat
      /\ s \notin A /\ s \in B => Cardinality(B) = Cardinality(A) + 1
      /\ s \in A /\ s \notin B => Cardinality(B) = Cardinality(A) - 1
  BY <1>1, <1>2, CountChange, ServerAssumption
<1>5. QED BY <1>3, <1>4 DEF A, B

\* pdnsd starts with no query counted.
LEMMA ServerInvInit == Init => ServerInv
<1> SUFFICES ASSUME Init PROVE ServerInv
  OBVIOUS
<1>1. AtWork(Running) = {} /\ AtWork(Running \cup {"queued"}) = {}
      /\ {s \in Servers : server[s] = "creating"} = {}
  BY DEF Init, AtWork, Running
<1>2. Cardinality({}) = 0
  BY FS_EmptySet
<1>3. procs = 0 /\ qprocs = 0 /\ proc_limit \in Nat /\ procq_limit \in Nat
  BY ServerAssumption DEF Init
<1>4. LimitsExact
  BY <1>1, <1>2, <1>3 DEF LimitsExact
<1>5. QED
  BY <1>4, ServerAssumption DEF Init, ServerInv, ThreadStates, MainStates

\* What the accounting needs of a step, with the two counts as numbers.
LEMMA ServerInvStep == ServerInv /\ [Next]_vars => ServerInv'
<1> SUFFICES ASSUME ServerInv, [Next]_vars PROVE ServerInv'
  OBVIOUS
<1> DEFINE Accepted == Running \cup {"queued"}
           R == Cardinality(AtWork(Running))
           Q == Cardinality(AtWork(Accepted))
           C == Cardinality(Creating)
<1>1. /\ procs = R /\ procs <= proc_limit
      /\ qprocs = Q + C /\ qprocs <= proc_limit + procq_limit
  BY DEF ServerInv, LimitsExact, Creating
<1>2. /\ at \in [Threads -> ThreadStates]
      /\ server \in [Servers -> {"idle", "creating"}]
      /\ procs \in Nat /\ qprocs \in Nat
  BY DEF ServerInv
<1>3. R \in Nat /\ Q \in Nat /\ C \in Nat
  <2>1. IsFiniteSet(Threads)
    BY ServerAssumption, FS_Interval DEF Threads
  <2>2. /\ AtWork(Running) \in SUBSET Threads /\ AtWork(Accepted) \in SUBSET Threads
        /\ Creating \in SUBSET Servers
    BY DEF AtWork, Creating
  <2>3. QED BY <2>1, <2>2, CountPositive, ServerAssumption
<1>4. ASSUME
        /\ at' \in [Threads -> ThreadStates]
        /\ server' \in [Servers -> {"idle", "creating"}]
        /\ procs' \in Nat /\ qprocs' \in Nat
        /\ main' \in MainStates /\ tries' \in 0..(SOFTLOCK_MAXTRIES - 1)
        /\ procs' = R' /\ procs' <= proc_limit
        /\ qprocs' = Q' + C' /\ qprocs' <= proc_limit + procq_limit
      PROVE  ServerInv'
  BY <1>4 DEF ServerInv, LimitsExact, Creating
<1>5. ASSUME UNCHANGED main, UNCHANGED tries
      PROVE  main' \in MainStates /\ tries' \in 0..(SOFTLOCK_MAXTRIES - 1)
  BY <1>5 DEF ServerInv
<1>6. UNCHANGED at => R' = R /\ Q' = Q
  BY DEF AtWork
<1>7. UNCHANGED server => C' = C
  BY DEF Creating
<1>8. ASSUME NEW t \in Threads, NEW s \in ThreadStates, Goto(t, s)
      PROVE  /\ at' \in [Threads -> ThreadStates]
             /\ R' = R + Ind(s \in Running) - Ind(at[t] \in Running)
             /\ Q' = Q + Ind(s \in Accepted) - Ind(at[t] \in Accepted)
  <2>1. at' \in [Threads -> ThreadStates]
    BY <1>2, <1>8 DEF Goto
  <2>2. QED BY <1>2, <1>8, <2>1, GotoCounts
<1> HIDE DEF R, Q, C
<1>9. ASSUME NEW s \in Servers, server_thread_accept(s)
      PROVE  ServerInv'
  <2>1. C' = C + 1 /\ server' \in [Servers -> {"idle", "creating"}]
    BY <1>2, <1>9, CreatingCounts DEF server_thread_accept, C
  <2>2. UNCHANGED <<at, procs, main, tries>>
    BY <1>9 DEF server_thread_accept
  <2>3. qprocs' = qprocs + 1 /\ qprocs < proc_limit + procq_limit
    BY <1>9 DEF server_thread_accept
  <2>4. QED
    BY <1>1, <1>2, <1>3, <1>4, <1>5, <1>6, <2>1, <2>2, <2>3, ServerAssumption
<1>10. ASSUME NEW s \in Servers, server_thread_create(s)
       PROVE  ServerInv'
  <2>1. C' = C - 1 /\ server' \in [Servers -> {"idle", "creating"}]
    BY <1>2, <1>10, CreatingCounts DEF server_thread_create, C
  <2>2. UNCHANGED <<procs, main, tries>>
    BY <1>10 DEF server_thread_create
  <2>3. ASSUME NEW t \in Threads, Fresh(t), Goto(t, "queued"), UNCHANGED qprocs
        PROVE  ServerInv'
    <3>1. at' \in [Threads -> ThreadStates] /\ R' = R /\ Q' = Q + 1
      <4>1. at[t] = "none"
        BY <2>3 DEF Fresh
      <4>2. QED BY <1>3, <1>8, <2>3, <4>1 DEF Ind, Running, ThreadStates
    <3>2. QED
      BY <1>1, <1>2, <1>3, <1>4, <1>5, <2>1, <2>2, <2>3, <3>1, ServerAssumption
  <2>4. CASE qprocs' = qprocs - 1 /\ UNCHANGED at
    <3>1. R' = R /\ Q' = Q /\ at' \in [Threads -> ThreadStates]
      BY <1>2, <1>6, <2>4
    <3>2. C' \in Nat
      <4>1. Creating' \in SUBSET Servers
        BY DEF Creating
      <4>2. QED BY <4>1, CountPositive, ServerAssumption DEF C
    <3>3. QED
      BY <1>1, <1>2, <1>3, <1>4, <1>5, <2>1, <2>2, <2>4, <3>1, <3>2, ServerAssumption
  <2>5. QED BY <1>10, <2>3, <2>4 DEF server_thread_create
<1>11. ASSUME NEW t \in Threads, Worker(t)
       PROVE  ServerInv'
  <2>1. UNCHANGED <<server, main, tries>>
    BY <1>11 DEF Worker, answer_thread_start, LookupLock, LookupUnlock, UpdateLock,
       UpdateUnlock, decrease_procs, LockOnly
  <2>2. CASE answer_thread_start(t)
    <3>1. /\ at' \in [Threads -> ThreadStates] /\ R' = R + 1 /\ Q' = Q
      BY <1>3, <1>8, <2>2 DEF answer_thread_start, Ind, Running, ThreadStates
    <3>2. procs' = procs + 1 /\ procs < proc_limit /\ qprocs' = qprocs
      BY <2>2 DEF answer_thread_start
    <3>3. QED
      BY <1>1, <1>2, <1>3, <1>4, <1>5, <1>7, <2>1, <3>1, <3>2, ServerAssumption
  <2>3. CASE LookupLock(t) \/ UpdateLock(t)
    <3>1. UNCHANGED <<at, procs, qprocs>>
      BY <2>3 DEF LookupLock, UpdateLock, LockOnly
    <3>2. QED
      BY <1>1, <1>2, <1>3, <1>4, <1>5, <1>6, <1>7, <2>1, <3>1
  <2>4. CASE LookupUnlock(t) \/ UpdateUnlock(t)
    <3>1. /\ at' \in [Threads -> ThreadStates] /\ R' = R /\ Q' = Q
      BY <1>3, <1>8, <2>4
         DEF LookupUnlock, UpdateUnlock, Ind, Running, ThreadStates
    <3>2. UNCHANGED <<procs, qprocs>>
      BY <2>4 DEF LookupUnlock, UpdateUnlock
    <3>3. QED
      BY <1>1, <1>2, <1>3, <1>4, <1>5, <1>7, <2>1, <3>1, <3>2
  <2>5. CASE decrease_procs(t)
    <3>1. /\ at' \in [Threads -> ThreadStates] /\ R' = R - 1 /\ Q' = Q - 1
      BY <1>3, <1>8, <2>5 DEF decrease_procs, Ind, Running, ThreadStates
    <3>2. procs' = procs - 1 /\ qprocs' = qprocs - 1
      BY <2>5 DEF decrease_procs
    <3>3. R' \in Nat /\ Q' \in Nat
      <4>1. IsFiniteSet(Threads)
        BY ServerAssumption, FS_Interval DEF Threads
      <4>2. AtWork(Running)' \in SUBSET Threads /\ AtWork(Accepted)' \in SUBSET Threads
        BY DEF AtWork
      <4>3. QED BY <4>1, <4>2, CountPositive DEF R, Q
    <3>4. QED
      BY <1>1, <1>2, <1>3, <1>4, <1>5, <1>7, <2>1, <3>1, <3>2, <3>3, ServerAssumption
  <2>6. QED BY <1>11, <2>2, <2>3, <2>4, <2>5 DEF Worker
<1>12. CASE MainNext
  <2>1. UNCHANGED <<at, server, procs, qprocs>>
    BY <1>12 DEF MainNext, Signal, SoftLock, SoftLocks, SoftLockFails,
       SoftMutexFails, PurgeDone, SaveDone, Exit, MainStep
  <2>2. main' \in MainStates /\ tries' \in 0..(SOFTLOCK_MAXTRIES - 1)
    BY <1>12, ServerAssumption
       DEF ServerInv, MainNext, Signal, SoftLock, SoftLocks, SoftLockFails,
       SoftMutexFails, PurgeDone, SaveDone, Exit, MainStep, GivesUp, MainStates
  <2>3. QED BY <1>1, <1>2, <1>4, <1>6, <1>7, <2>1, <2>2
<1>13. CASE UNCHANGED vars
  BY <1>1, <1>2, <1>4, <1>5, <1>6, <1>7, <1>13 DEF vars
<1>14. QED
  BY <1>9, <1>10, <1>11, <1>12, <1>13 DEF Next

\* Every variable of the server and of its lock keeps its type, the lock's and
\* the servers' counters never going below zero included.
THEOREM ServerTypeCorrect == Spec => []TypeOK
<1>1. LockInv /\ ServerInv => TypeOK
  BY DEF LockInv, ServerInv, TypeOK
<1>2. QED
  BY <1>1, LockInvInit, LockInvStep, ServerInvInit, ServerInvStep, PTL DEF Spec

\* For any limits, any number of servers and of queries: no more than proc_limit
\* threads work, no more than procq_limit others wait, and none that is gone is
\* counted (server_thread_accept, decrease_procs).
THEOREM LimitsAlways == Spec => []LimitsExact
<1>1. ServerInv => LimitsExact
  BY DEF ServerInv
<1>2. QED
  BY <1>1, ServerInvInit, ServerInvStep, PTL DEF Spec

\* For any number of threads, nobody sleeps on a free cache lock with no thread
\* awake to take it, and no suspension of readers outlives the writers that
\* caused it (cache.c unlock_cache_r, unlock_cache_rw).
THEOREM NoLostWakeupAlways == Spec => []NoLostWakeup
<1>1. Init => WakeInv
  BY DEF Init, LockInit, WakeInv, At
<1>2. ServerInv => main \in MainStates
  BY DEF ServerInv
<1>3. QED
  BY <1>1, <1>2, LockInvInit, LockInvStep, ServerInvInit, ServerInvStep, WakeInvStep,
     WakeInvEnough, PTL DEF Spec
=============================================================================
