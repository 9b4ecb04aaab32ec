----------------------------- MODULE CacheLock ------------------------------
(***************************************************************************)
(* The readers-writer lock of pdnsd's cache (cache.c, "Locking functions").*)
(* All its variables are guarded by lock_mutex, so what a thread does      *)
(* between taking the mutex and releasing or waiting is one step.          *)
(*                                                                         *)
(* lk[u] is where thread u stands: "out"; asleep in pthread_cond_wait on   *)
(* r_cond or rw_cond; woken but not yet back under the mutex; or holding   *)
(* the lock.                                                               *)
(***************************************************************************)
EXTENDS Integers, FiniteSets

CONSTANTS
    Users,      \* the threads that use the cache
    SUSP_BASE   \* constant term of SUSP_THRESH, 2 in the code

ASSUME LockAssumption == IsFiniteSet(Users) /\ SUSP_BASE \in Nat

VARIABLES lk, cache_w_lock, cache_r_lock, r_pend, rw_pend, r_susp

lockVars == <<lk, cache_w_lock, cache_r_lock, r_pend, rw_pend, r_susp>>

LockStates == {"out", "r_sleep", "r_woken", "reading",
               "w_sleep", "w_woken", "writing"}

At(s) == {u \in Users : lk[u] = s}

LockTypeOK ==
    /\ lk \in [Users -> LockStates]
    /\ cache_w_lock \in BOOLEAN /\ r_susp \in BOOLEAN
    /\ cache_r_lock \in Nat /\ r_pend \in Nat /\ rw_pend \in Nat

LockInit ==
    /\ lk = [u \in Users |-> "out"]
    /\ cache_w_lock = FALSE /\ r_susp = FALSE
    /\ cache_r_lock = 0 /\ r_pend = 0 /\ rw_pend = 0

SUSP_THRESH(n) == n \div 2 + SUSP_BASE

Move(u, s) == lk' = [lk EXCEPT ![u] = s]
-----------------------------------------------------------------------------
(* The waiting loop of lock_cache_r, with pend readers counted, u included. *)
WaitToRead(u, pend) ==
    LET susp == rw_pend > SUSP_THRESH(pend) \/ r_susp IN
    /\ r_susp' = susp
    /\ IF susp \/ cache_w_lock
       THEN Move(u, "r_sleep") /\ r_pend' = pend /\ UNCHANGED cache_r_lock
       ELSE Move(u, "reading") /\ r_pend' = pend - 1 /\ cache_r_lock' = cache_r_lock + 1
    /\ UNCHANGED <<cache_w_lock, rw_pend>>

lock_cache_r(u) == lk[u] = "out" /\ WaitToRead(u, r_pend + 1)

RetryRead(u) == lk[u] = "r_woken" /\ WaitToRead(u, r_pend)

\* Mutant of WaitToWrite: readers do not keep a writer waiting.
WaitToWriteIgnoresReaders(u, pend) ==
    /\ IF cache_w_lock
       THEN Move(u, "w_sleep") /\ rw_pend' = pend /\ UNCHANGED cache_w_lock
       ELSE Move(u, "writing") /\ rw_pend' = pend - 1 /\ cache_w_lock' = TRUE
    /\ UNCHANGED <<cache_r_lock, r_pend, r_susp>>

(* The waiting loop of lock_cache_rw. *)
WaitToWrite(u, pend) ==
    /\ IF cache_w_lock \/ cache_r_lock > 0
       THEN Move(u, "w_sleep") /\ rw_pend' = pend /\ UNCHANGED cache_w_lock
       ELSE Move(u, "writing") /\ rw_pend' = pend - 1 /\ cache_w_lock' = TRUE
    /\ UNCHANGED <<cache_r_lock, r_pend, r_susp>>

lock_cache_rw(u) == lk[u] = "out" /\ WaitToWrite(u, rw_pend + 1)

RetryWrite(u) == lk[u] = "w_woken" /\ WaitToWrite(u, rw_pend)

(* pthread_cond_signal(&rw_cond) and pthread_cond_broadcast(&r_cond), after *)
(* u has let go of the lock.  A wakeup without a signal, which POSIX       *)
(* allows, would only add one more Retry and is left out.                  *)
SignalWriter(u) ==
    LET out == [lk EXCEPT ![u] = "out"] IN
    IF At("w_sleep") = {} THEN lk' = out
    ELSE \E w \in At("w_sleep") : lk' = [out EXCEPT ![w] = "w_woken"]

WakeReaders(u) ==
    lk' = [v \in Users |-> IF v = u THEN "out"
                           ELSE IF lk[v] = "r_sleep" THEN "r_woken" ELSE lk[v]]

unlock_cache_r(u) ==
    /\ lk[u] = "reading"
    /\ cache_r_lock' = IF cache_r_lock > 0 THEN cache_r_lock - 1 ELSE cache_r_lock
    /\ IF cache_r_lock' = 0 THEN SignalWriter(u) ELSE Move(u, "out")
    /\ UNCHANGED <<cache_w_lock, r_pend, rw_pend, r_susp>>

\* Mutant of unlock_cache_rw: the suspension of readers is not lifted.
unlock_cache_rwKeepsSuspension(u) ==
    /\ lk[u] = "writing"
    /\ cache_w_lock' = FALSE
    /\ IF r_pend = 0 \/ rw_pend > SUSP_THRESH(r_pend)
       THEN SignalWriter(u) ELSE WakeReaders(u)
    /\ UNCHANGED <<cache_r_lock, r_pend, rw_pend, r_susp>>

unlock_cache_rw(u) ==
    /\ lk[u] = "writing"
    /\ cache_w_lock' = FALSE /\ r_susp' = FALSE
    /\ IF r_pend = 0 \/ rw_pend > SUSP_THRESH(r_pend)
       THEN SignalWriter(u) ELSE WakeReaders(u)
    /\ UNCHANGED <<cache_r_lock, r_pend, rw_pend>>
-----------------------------------------------------------------------------
(* One try of the lock at exit, and its release, which wakes nobody. *)
softlock_cache_r(u) ==
    /\ lk[u] = "out" /\ ~cache_w_lock
    /\ Move(u, "reading") /\ cache_r_lock' = cache_r_lock + 1
    /\ UNCHANGED <<cache_w_lock, r_pend, rw_pend, r_susp>>

\* Mutant of softunlock_cache_r: the reader stays counted.
softunlock_cache_rKeepsCount(u) ==
    /\ lk[u] = "reading"
    /\ Move(u, "out")
    /\ UNCHANGED <<cache_r_lock, cache_w_lock, r_pend, rw_pend, r_susp>>

softunlock_cache_r(u) ==
    /\ lk[u] = "reading"
    /\ Move(u, "out")
    /\ cache_r_lock' = IF cache_r_lock > 0 THEN cache_r_lock - 1 ELSE cache_r_lock
    /\ UNCHANGED <<cache_w_lock, r_pend, rw_pend, r_susp>>

softlock_cache_rw(u) ==
    /\ lk[u] = "out" /\ ~cache_w_lock /\ cache_r_lock = 0
    /\ Move(u, "writing") /\ cache_w_lock' = TRUE
    /\ UNCHANGED <<cache_r_lock, r_pend, rw_pend, r_susp>>

softunlock_cache_rw(u) ==
    /\ lk[u] = "writing"
    /\ Move(u, "out") /\ cache_w_lock' = FALSE
    /\ UNCHANGED <<cache_r_lock, r_pend, rw_pend, r_susp>>
-----------------------------------------------------------------------------
(* The lock as its users see it. *)
Lock == INSTANCE RWLock WITH
    holds <- [u \in Users |-> IF lk[u] = "reading" THEN "read"
                              ELSE IF lk[u] = "writing" THEN "write" ELSE "none"]

Free == At("reading") = {} /\ At("writing") = {}
=============================================================================
