----------------------------- MODULE DnsServer ------------------------------
(***************************************************************************)
(* The threads of pdnsd: the UDP and TCP servers that accept queries       *)
(* within a limit and start a thread for each (dns_answer.c), the answer   *)
(* threads that wait for a slot, look the name up and write to the cache   *)
(* (dns_query.c, cache.c), and the main thread, which on a signal saves    *)
(* the cache under the soft locks and exits (main.c).                      *)
(*                                                                         *)
(* A query uses the cache in rounds: a lookup under the read lock, then    *)
(* perhaps a change under the write lock (the purge of lookup_cache or     *)
(* add_cache of an answer).  Here each thread makes one round; to the lock *)
(* a query with several rounds is several threads, and the slot it keeps   *)
(* meanwhile is kept only longer.                                          *)
(***************************************************************************)
EXTENDS CacheLock

CONSTANTS
    N,                  \* bound: queries accepted in one life of pdnsd
    Main,               \* the main thread
    Servers,            \* the two server threads
    proc_limit, procq_limit,
    SOFTLOCK_MAXTRIES

ASSUME ServerAssumption ==
    /\ N \in Nat /\ Main \notin 1..N /\ Users = 1..N \cup {Main}
    /\ IsFiniteSet(Servers)
    /\ proc_limit \in Nat \ {0} /\ procq_limit \in Nat
    /\ SOFTLOCK_MAXTRIES \in Nat \ {0}

Threads == 1..N     \* answer threads, in the order they are created

VARIABLES
    at,         \* where each answer thread is
    server,     \* [Servers -> {"idle", "creating"}]: in pthread_create
    procs, qprocs,
    main,       \* the main thread: waiting for a signal, then exiting
    tries       \* failed tries of the current soft lock

vars == <<lockVars, at, server, procs, qprocs, main, tries>>

ThreadStates == {"none", "queued", "lookup", "update", "answer", "done"}

MainStates == {"sigwait", "purge", "purging", "save", "saving", "destroy",
               "destroying", "exited"}

Running == {"lookup", "update", "answer"}

AtWork(S) == {t \in Threads : at[t] \in S}

Fresh(t) == at[t] = "none" /\ \A u \in 1..(t - 1) : at[u] # "none"

TypeOK ==
    /\ LockTypeOK
    /\ at \in [Threads -> ThreadStates]
    /\ server \in [Servers -> {"idle", "creating"}]
    /\ procs \in Nat /\ qprocs \in Nat
    /\ main \in MainStates /\ tries \in 0..(SOFTLOCK_MAXTRIES - 1)

Init ==
    /\ LockInit
    /\ at = [t \in Threads |-> "none"]
    /\ server = [s \in Servers |-> "idle"]
    /\ procs = 0 /\ qprocs = 0 /\ main = "sigwait" /\ tries = 0

Alive == main # "exited"

Goto(t, s) == at' = [at EXCEPT ![t] = s]
-----------------------------------------------------------------------------
(* A server thread has received a query: it is counted before its thread   *)
(* is created, and dropped when the limit is reached.                      *)
server_thread_accept(s) ==
    /\ Alive /\ server[s] = "idle" /\ AtWork({"none"}) # {}
    /\ qprocs < proc_limit + procq_limit
    /\ qprocs' = qprocs + 1 /\ server' = [server EXCEPT ![s] = "creating"]
    /\ UNCHANGED <<lockVars, at, procs, main, tries>>

\* Mutant of server_thread_create: a thread that was not created stays counted.
server_thread_createLeaks(s) ==
    /\ Alive /\ server[s] = "creating"
    /\ server' = [server EXCEPT ![s] = "idle"]
    /\ \/ /\ \E t \in Threads : Fresh(t) /\ Goto(t, "queued")
          /\ UNCHANGED qprocs
       \/ UNCHANGED <<at, qprocs>>
    /\ UNCHANGED <<lockVars, procs, main, tries>>

(* pthread_create succeeds, or fails and the count is taken back. *)
server_thread_create(s) ==
    /\ Alive /\ server[s] = "creating"
    /\ server' = [server EXCEPT ![s] = "idle"]
    /\ \/ /\ \E t \in Threads : Fresh(t) /\ Goto(t, "queued")
          /\ UNCHANGED qprocs
       \/ qprocs' = qprocs - 1 /\ UNCHANGED at
    /\ UNCHANGED <<lockVars, procs, main, tries>>

(* The new thread polls for a slot. *)
answer_thread_start(t) ==
    /\ Alive /\ at[t] = "queued" /\ procs < proc_limit
    /\ procs' = procs + 1 /\ Goto(t, "lookup")
    /\ UNCHANGED <<lockVars, server, qprocs, main, tries>>

LockOnly == UNCHANGED <<at, server, procs, qprocs, main, tries>>

(* lookup_cache takes the read lock ... *)
LookupLock(t) ==
    /\ Alive /\ at[t] = "lookup"
    /\ lock_cache_r(t) \/ RetryRead(t)
    /\ LockOnly

\* Mutant of LookupUnlock: a lookup that must purge keeps its read lock.
LookupUnlockUpgrades(t) ==
    /\ Alive /\ at[t] = "lookup"
    /\ \/ unlock_cache_r(t) /\ Goto(t, "answer")
       \/ lk[t] = "reading" /\ Goto(t, "update") /\ UNCHANGED lockVars
    /\ UNCHANGED <<server, procs, qprocs, main, tries>>

(* ... and lets it go: the entry must be purged, was not found or must be  *)
(* refreshed (both lead to the write lock), or serves the query.           *)
LookupUnlock(t) ==
    /\ Alive /\ at[t] = "lookup" /\ unlock_cache_r(t)
    /\ Goto(t, "update") \/ Goto(t, "answer")
    /\ UNCHANGED <<server, procs, qprocs, main, tries>>

UpdateLock(t) ==
    /\ Alive /\ at[t] = "update"
    /\ lock_cache_rw(t) \/ RetryWrite(t)
    /\ LockOnly

UpdateUnlock(t) ==
    /\ Alive /\ at[t] = "update" /\ unlock_cache_rw(t)
    /\ Goto(t, "answer")
    /\ UNCHANGED <<server, procs, qprocs, main, tries>>

(* The answer is sent and the thread's cleanup handler gives the slot back. *)
decrease_procs(t) ==
    /\ Alive /\ at[t] = "answer"
    /\ procs' = procs - 1 /\ qprocs' = qprocs - 1 /\ Goto(t, "done")
    /\ UNCHANGED <<lockVars, server, main, tries>>
-----------------------------------------------------------------------------
(* The main thread: write_disk_cache, then destroy_cache, then _exit. *)
MainStep(from, to) ==
    /\ main = from /\ main' = to /\ tries' = 0
    /\ UNCHANGED <<at, server, procs, qprocs>>

Signal == MainStep("sigwait", "purge") /\ UNCHANGED lockVars

SoftLocks(next) ==
    \/ softlock_cache_rw(Main) /\ next = "purging" /\ MainStep("purge", next)
    \/ softlock_cache_r(Main) /\ next = "saving" /\ MainStep("save", next)
    \/ softlock_cache_rw(Main) /\ next = "destroying" /\ MainStep("destroy", next)

SoftLock == \E next \in MainStates : SoftLocks(next)

WouldBlock == \/ main \in {"purge", "destroy"} /\ (cache_w_lock \/ cache_r_lock > 0)
              \/ main = "save" /\ cache_w_lock

GivesUp == IF main = "destroy" THEN "exited" ELSE "destroy"

\* Mutant of SoftLockFails: the tries are not counted.
SoftLockFailsForever ==
    /\ main \in {"purge", "save", "destroy"} /\ WouldBlock
    /\ UNCHANGED vars

(* A try that finds the lock busy; after the last one the caller gives up. *)
SoftLockFails ==
    /\ main \in {"purge", "save", "destroy"} /\ WouldBlock
    /\ UNCHANGED lockVars
    /\ IF tries + 1 < SOFTLOCK_MAXTRIES
       THEN tries' = tries + 1 /\ UNCHANGED <<at, server, procs, qprocs, main>>
       ELSE MainStep(main, GivesUp)

(* softlock_mutex fails: the mutex was busy at every try.  The lock, if    *)
(* held, stays held.                                                       *)
SoftMutexFails ==
    /\ main \in {"purge", "purging", "save", "saving", "destroy"}
    /\ MainStep(main, GivesUp)
    /\ UNCHANGED lockVars

PurgeDone == softunlock_cache_rw(Main) /\ MainStep("purging", "save")

SaveDone == softunlock_cache_r(Main) /\ MainStep("saving", "destroy")

Exit == MainStep("destroying", "exited") /\ UNCHANGED lockVars

MainNext == Signal \/ SoftLock \/ SoftLockFails \/ SoftMutexFails
            \/ PurgeDone \/ SaveDone \/ Exit
-----------------------------------------------------------------------------
Worker(t) == \/ answer_thread_start(t) \/ LookupLock(t) \/ LookupUnlock(t)
             \/ UpdateLock(t) \/ UpdateUnlock(t) \/ decrease_procs(t)

Next == \/ \E s \in Servers : server_thread_accept(s) \/ server_thread_create(s)
        \/ \E t \in Threads : Worker(t)
        \/ MainNext

(* The scheduler runs some answer thread whenever one can run, and the     *)
(* main thread once it has its signal; no signal need ever come.           *)
Fairness == /\ WF_vars(\E t \in Threads : Worker(t))
            /\ WF_vars(SoftLock \/ SoftLockFails \/ PurgeDone \/ SaveDone \/ Exit)

Spec == Init /\ [][Next]_vars /\ Fairness
-----------------------------------------------------------------------------
(* The lock's counters stand for its holders, the main thread that saves   *)
(* the cache at exit included (cache.c locking functions): a count that    *)
(* missed a holder would let a writer in, one too many would keep all      *)
(* writers out.                                                            *)
LockExact ==
    /\ cache_r_lock = Cardinality(At("reading"))
    /\ cache_w_lock <=> At("writing") # {}

(* Nobody sleeps on a free lock: as long as the soft locks of the exit are *)
(* not in play, whenever the lock is free and threads sleep on it, some    *)
(* thread is awake to take it, and readers are only suspended while a      *)
(* writer holds the lock or is coming, whose unlock_cache_rw will lift it. *)
NoLostWakeup ==
    main = "sigwait" =>
        /\ Free /\ At("r_sleep") \cup At("w_sleep") # {} =>
              At("r_woken") \cup At("w_woken") # {}
        /\ r_susp => rw_pend > 0 \/ cache_w_lock

(* The limits hold: at most proc_limit threads work on queries and at most *)
(* procq_limit more are accepted, across both server threads and failed    *)
(* thread creations; nothing stays counted that is gone.                   *)
LimitsExact ==
    /\ procs = Cardinality(AtWork(Running)) /\ procs <= proc_limit
    /\ qprocs = Cardinality(AtWork(Running \cup {"queued"}))
                  + Cardinality({s \in Servers : server[s] = "creating"})
    /\ qprocs <= proc_limit + procq_limit

(* What the detailed lock does is what a readers-writer lock may do: the   *)
(* cache is never changed under a reader or by two threads at once, the    *)
(* purge and the save at exit included.                                    *)
LockRefined == Lock!Spec

(* Every accepted query is answered, unless pdnsd exits first.  Arrivals   *)
(* are finite: under a steady stream of overlapping readers a waiting      *)
(* writer may wait as long as the stream lasts.                            *)
Answered == <>[](AtWork({"none", "done"}) = Threads \/ ~Alive)

(* Once told to, pdnsd exits, whatever its threads hold: the soft locks    *)
(* give up rather than wait (write_disk_cache, destroy_cache).             *)
ExitCompletes == main # "sigwait" ~> main = "exited"
=============================================================================
