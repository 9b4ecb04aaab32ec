----------------------------- MODULE UsageStats -----------------------------
(***************************************************************************)
(* The data-used counter of a profile: mStatsRunnable samples a kernel     *)
(* counter against the base taken when the tunnel came up, the sum with    *)
(* the total loaded from the preferences is persisted every few ticks      *)
(* while the proxy is verified, and once more by stopMe.                   *)
(* The main thread starts, completes and samples; stopMe runs there and on *)
(* binder threads, and only its claim of mRunning is synchronized, so each *)
(* handler is a sequence of steps that the others may come between.        *)
(* rx and tx go through the same assignments, so one counter stands for    *)
(* both.  The process may be killed at any step; commit() has written the  *)
(* preferences by the time it returns.                                     *)
(***************************************************************************)
EXTENDS Naturals

CONSTANTS Profiles,      \* profile names
          NoProfile,     \* null
          Main,          \* the main thread
          BinderThreads, \* threads that run stopMe outside the main thread
          PersistTicks,  \* USAGE_PERSIST_TICKS
          MaxBytes,      \* bound on the traffic
          MaxStarts      \* bound on the connect attempts

ASSUME UsageNamesAssumption ==
  NoProfile \notin Profiles /\ Main \notin BinderThreads
ASSUME UsageBoundsAssumption ==
  PersistTicks \in Nat \ {0} /\ MaxBytes \in Nat /\ MaxStarts \in Nat

Threads == BinderThreads \cup {Main}
ProfileOrNone == Profiles \cup {NoProfile}
Sources == {"tun", "uid", "none"}
NoSave == [name |-> NoProfile, total |-> 0, next |-> "unpost"]

VARIABLES
  mRunning, mTunnelUp, mProxyVerified,
  mProfileName,
  mCumulative,   \* mCumulativeRx, mCumulativeTx
  mReceived,     \* mReceivedBytes, mSentBytes
  mBase,         \* mBaseRx, mBaseTx
  mStatsTick,    \* modulo PersistTicks
  queued,        \* pending posts of mStatsRunnable
  pending,       \* the attempt's completion is still to come
  at,            \* where each thread is in its handler
  save,          \* name and sum of each thread's persistProfileBytes
  sample,        \* the session bytes a tick has computed
  usage,         \* usage_rx_, usage_tx_ preferences of each profile
  tun, uid,      \* bytes of the current tun interface; of the app's uid
  starts,        \* connect attempts
  metered, source,  \* history: profile and counter of the current base
  moved,         \* history: what that counter has grown by, for each profile
  mixed,         \* history: profiles sampled from another counter than their base
  raced          \* history, see Record

flags == <<mRunning, mTunnelUp, mProxyVerified>>
counts == <<mCumulative, mReceived, mBase>>
locals == <<save, sample>>
loop == <<mStatsTick, queued>>
world == <<tun, uid>>
ledger == <<metered, source, moved, mixed>>
vars == <<flags, mProfileName, counts, loop, pending, at, locals, usage, world,
          starts, ledger, raced>>

TypeOK ==
  /\ mRunning \in BOOLEAN /\ mTunnelUp \in BOOLEAN /\ mProxyVerified \in BOOLEAN
  /\ mProfileName \in ProfileOrNone
  /\ mCumulative \in Nat /\ mReceived \in Nat /\ mBase \in Nat
  /\ mStatsTick \in 0..(PersistTicks - 1)
  /\ queued \in Nat /\ pending \in BOOLEAN
  /\ at \in [Threads -> {"idle", "run", "load", "base", "post", "up", "store",
                         "live", "repost", "name", "cumulative", "received",
                         "commit", "unpost", "forget", "halt", "zeroCumulative",
                         "zeroReceived", "zeroBase", "down", "unpost2"}]
  /\ save \in [Threads -> [name : ProfileOrNone, total : Nat,
                           next : {"repost", "unpost"}]]
  /\ sample \in Nat
  /\ usage \in [Profiles -> Nat]
  /\ tun \in Nat /\ uid \in Nat /\ starts \in Nat
  /\ metered \in ProfileOrNone /\ source \in Sources
  /\ moved \in [Profiles -> Nat]
  /\ mixed \subseteq ProfileOrNone
  /\ raced \in BOOLEAN

Init ==
  /\ mRunning = FALSE /\ mTunnelUp = FALSE /\ mProxyVerified = FALSE
  /\ mProfileName = NoProfile
  /\ mCumulative = 0 /\ mReceived = 0 /\ mBase = 0
  /\ mStatsTick = 0 /\ queued = 0 /\ pending = FALSE
  /\ at = [t \in Threads |-> "idle"]
  /\ save = [t \in Threads |-> NoSave]
  /\ sample = 0
  /\ usage = [p \in Profiles |-> 0]
  /\ tun = 0 /\ uid = 0 /\ starts = 0
  /\ metered = NoProfile /\ source = "none"
  /\ moved = [p \in Profiles |-> 0]
  /\ mixed = {}
  /\ raced = FALSE

-----------------------------------------------------------------------------
GoTo(t, from, to) == at[t] = from /\ at' = [at EXCEPT ![t] = to]

\* readUsageBytes: the interface found by its address, else the uid's counter,
\* else null, for which each caller has its default.  Picked at every call.
ReadUsageBytes(s, default) ==
  CASE s = "tun" -> tun [] s = "uid" -> uid [] s = "none" -> default

-----------------------------------------------------------------------------
(* Connect and tunnel up, on the main thread.                              *)

\* onStartCommand names the profile,
StartName(p) ==
  /\ GoTo(Main, "idle", "run")
  /\ ~mRunning
  /\ starts < MaxStarts
  /\ starts' = starts + 1
  /\ mProfileName' = p
  /\ UNCHANGED <<flags, counts, loop, pending, locals, usage, world, ledger>>

\* sets mRunning; configure establishes a fresh interface.
StartRun ==
  /\ GoTo(Main, "run", "idle")
  /\ mRunning' = TRUE
  /\ pending' = TRUE
  /\ tun' = 0
  /\ UNCHANGED <<mTunnelUp, mProxyVerified, mProfileName, counts, loop, locals,
                 usage, uid, starts, ledger>>

\* postStartOnMain of the completed attempt,
PostStart ==
  /\ GoTo(Main, "idle", "load")
  /\ pending /\ mRunning
  /\ pending' = FALSE
  /\ mProxyVerified' = FALSE
  /\ UNCHANGED <<mRunning, mTunnelUp, mProfileName, counts, loop, locals, usage,
                 world, starts, ledger>>

\* Mutant: the stored total is not loaded.
PostStartLoadSkipped ==
  /\ GoTo(Main, "load", "base")
  /\ UNCHANGED <<flags, mProfileName, counts, loop, pending, locals, usage, world,
                 starts, ledger>>

\* loadProfileBytes,
PostStartLoad ==
  /\ GoTo(Main, "load", "base")
  /\ mCumulative' = IF mProfileName = NoProfile THEN mCumulative
                    ELSE usage[mProfileName]
  /\ UNCHANGED <<flags, mProfileName, mReceived, mBase, loop, pending, locals,
                 usage, world, starts, ledger>>

\* the base of the session, from whatever counter is found,
PostStartBase(s) ==
  /\ GoTo(Main, "base", "post")
  /\ mReceived' = 0
  /\ mBase' = ReadUsageBytes(s, 0)
  /\ metered' = mProfileName
  /\ source' = s
  /\ UNCHANGED <<flags, mProfileName, mCumulative, loop, pending, locals, usage,
                 world, starts, moved, mixed>>

\* the stats runnable posted,
PostStartPost ==
  /\ GoTo(Main, "post", "up")
  /\ queued' = queued + 1
  /\ UNCHANGED <<flags, mProfileName, counts, mStatsTick, pending, locals, usage,
                 world, starts, ledger>>

\* and mTunnelUp.
PostStartUp ==
  /\ GoTo(Main, "up", "idle")
  /\ mTunnelUp' = TRUE
  /\ UNCHANGED <<mRunning, mProxyVerified, mProfileName, counts, loop, pending,
                 locals, usage, world, starts, ledger>>

\* applyIpInfo or a strike of the IP check.
SetVerified ==
  /\ at[Main] = "idle"
  /\ mTunnelUp
  /\ mProxyVerified' = ~mProxyVerified
  /\ UNCHANGED <<mRunning, mTunnelUp, mProfileName, counts, loop, pending, at,
                 locals, usage, world, starts, ledger>>

-----------------------------------------------------------------------------
(* mStatsRunnable, on the main thread.                                     *)

\* The growth since the base, at least 0; null keeps the last.
TickSample(s) ==
  /\ GoTo(Main, "idle", "store")
  /\ queued > 0
  /\ queued' = queued - 1
  /\ LET bytes == ReadUsageBytes(s, mBase + mReceived) IN
       sample' = IF bytes > mBase THEN bytes - mBase ELSE 0
  /\ mixed' = IF s \in {source, "none"} THEN mixed ELSE mixed \cup {metered}
  /\ UNCHANGED <<flags, mProfileName, counts, mStatsTick, pending, save, usage,
                 world, starts, metered, source, moved>>

\* The session's bytes and the tick; the loop goes on while the service runs.
TickStore ==
  /\ GoTo(Main, "store", IF mRunning THEN "live" ELSE "idle")
  /\ mReceived' = sample
  /\ sample' = 0
  /\ mStatsTick' = (mStatsTick + 1) % PersistTicks
  /\ UNCHANGED <<flags, mProfileName, mCumulative, mBase, queued, pending, save,
                 usage, world, starts, ledger>>

Due == mProxyVerified /\ mStatsTick = 0

\* A periodic save.
TickSave ==
  /\ Due /\ mProfileName # NoProfile
  /\ GoTo(Main, "live", "cumulative")
  /\ save' = [save EXCEPT ![Main] = [name |-> mProfileName, total |-> 0,
                                     next |-> "repost"]]
  /\ UNCHANGED <<flags, mProfileName, counts, loop, pending, sample, usage, world,
                 starts, ledger>>

\* Nothing to save: not verified, not due or no name.
TickSkip ==
  /\ ~(Due /\ mProfileName # NoProfile)
  /\ GoTo(Main, "live", "repost")
  /\ UNCHANGED <<flags, mProfileName, counts, loop, pending, locals, usage, world,
                 starts, ledger>>

TickRepost ==
  /\ GoTo(Main, "repost", "idle")
  /\ queued' = queued + 1
  /\ UNCHANGED <<flags, mProfileName, counts, mStatsTick, pending, locals, usage,
                 world, starts, ledger>>

-----------------------------------------------------------------------------
(* persistProfileBytes, of a tick or of a stop.                            *)

\* The two terms of the sum are read one after the other,
PersistCumulative(t) ==
  /\ GoTo(t, "cumulative", "received")
  /\ save' = [save EXCEPT ![t].total = mCumulative]
  /\ UNCHANGED <<flags, mProfileName, counts, loop, pending, sample, usage, world,
                 starts, ledger>>

PersistReceived(t) ==
  /\ GoTo(t, "received", "commit")
  /\ save' = [save EXCEPT ![t].total = @ + mReceived]
  /\ UNCHANGED <<flags, mProfileName, counts, loop, pending, sample, usage, world,
                 starts, ledger>>

\* then committed under the name read before.
PersistCommit(t) ==
  /\ GoTo(t, "commit", save[t].next)
  /\ usage' = [usage EXCEPT ![save[t].name] = save[t].total]
  /\ save' = [save EXCEPT ![t] = NoSave]
  /\ UNCHANGED <<flags, mProfileName, counts, loop, pending, sample, world, starts,
                 ledger>>

-----------------------------------------------------------------------------
(* stopMe, on the main thread or on a binder thread.                       *)

\* The claim of a running service.
StopClaim(t) ==
  /\ GoTo(t, "idle", "name")
  /\ mRunning
  /\ mRunning' = FALSE
  /\ UNCHANGED <<mTunnelUp, mProxyVerified, mProfileName, counts, loop, pending,
                 locals, usage, world, starts, ledger>>

\* onDestroy goes on without one.
OnDestroy ==
  /\ GoTo(Main, "idle", "name")
  /\ mRunning' = FALSE
  /\ UNCHANGED <<mTunnelUp, mProxyVerified, mProfileName, counts, loop, pending,
                 locals, usage, world, starts, ledger>>

StopSave(t) ==
  /\ mProfileName # NoProfile
  /\ GoTo(t, "name", "cumulative")
  /\ save' = [save EXCEPT ![t] = [name |-> mProfileName, total |-> 0,
                                  next |-> "unpost"]]
  /\ UNCHANGED <<flags, mProfileName, counts, loop, pending, sample, usage, world,
                 starts, ledger>>

StopNoSave(t) ==
  /\ mProfileName = NoProfile
  /\ GoTo(t, "name", "unpost")
  /\ UNCHANGED <<flags, mProfileName, counts, loop, pending, locals, usage, world,
                 starts, ledger>>

\* removeCallbacks, after the save and again at the end.
StopUnpost(t) ==
  /\ \/ GoTo(t, "unpost", "forget")
     \/ GoTo(t, "unpost2", "idle")
  /\ queued' = 0
  /\ UNCHANGED <<flags, mProfileName, counts, mStatsTick, pending, locals, usage,
                 world, starts, ledger>>

StopForget(t) ==
  /\ GoTo(t, "forget", "halt")
  /\ mProfileName' = NoProfile
  /\ UNCHANGED <<flags, counts, loop, pending, locals, usage, world, starts,
                 ledger>>

StopHalt(t) ==
  /\ GoTo(t, "halt", "zeroCumulative")
  /\ mRunning' = FALSE
  /\ mProxyVerified' = FALSE
  /\ UNCHANGED <<mTunnelUp, mProfileName, counts, loop, pending, locals, usage,
                 world, starts, ledger>>

StopCumulative(t) ==
  /\ GoTo(t, "zeroCumulative", "zeroReceived")
  /\ mCumulative' = 0
  /\ UNCHANGED <<flags, mProfileName, mReceived, mBase, loop, pending, locals,
                 usage, world, starts, ledger>>

\* Mutant: the session's bytes are left.
StopReceivedKeeps(t) ==
  /\ GoTo(t, "zeroReceived", "zeroBase")
  /\ UNCHANGED <<flags, mProfileName, counts, loop, pending, locals, usage, world,
                 starts, ledger>>

StopReceived(t) ==
  /\ GoTo(t, "zeroReceived", "zeroBase")
  /\ mReceived' = 0
  /\ UNCHANGED <<flags, mProfileName, mCumulative, mBase, loop, pending, locals,
                 usage, world, starts, ledger>>

StopBase(t) ==
  /\ GoTo(t, "zeroBase", "down")
  /\ mBase' = 0
  /\ UNCHANGED <<flags, mProfileName, mCumulative, mReceived, loop, pending, locals,
                 usage, world, starts, ledger>>

StopDown(t) ==
  /\ GoTo(t, "down", "unpost2")
  /\ mTunnelUp' = FALSE
  /\ metered' = NoProfile /\ source' = "none"
  /\ UNCHANGED <<mRunning, mProxyVerified, mProfileName, counts, loop, pending,
                 locals, usage, world, starts, moved, mixed>>

-----------------------------------------------------------------------------
\* The process is killed; the system may start it again.
Crash ==
  /\ mRunning' = FALSE /\ mTunnelUp' = FALSE /\ mProxyVerified' = FALSE
  /\ mProfileName' = NoProfile
  /\ mCumulative' = 0 /\ mReceived' = 0 /\ mBase' = 0
  /\ mStatsTick' = 0 /\ queued' = 0 /\ pending' = FALSE
  /\ at' = [t \in Threads |-> "idle"]
  /\ save' = [t \in Threads |-> NoSave] /\ sample' = 0
  /\ metered' = NoProfile /\ source' = "none"
  /\ UNCHANGED <<usage, world, starts, moved, mixed>>

\* What the counter of the current base grows by is moved for its profile.
Moves(counters) ==
  moved' = IF metered # NoProfile /\ source \in counters
           THEN [moved EXCEPT ![metered] = @ + 1] ELSE moved

\* A byte through the interface, which tun2socks carries under the app's uid.
Traffic ==
  /\ mRunning \/ mTunnelUp
  /\ uid < MaxBytes
  /\ tun' = tun + 1 /\ uid' = uid + 1
  /\ Moves({"tun", "uid"})
  /\ UNCHANGED <<flags, mProfileName, counts, loop, pending, at, locals, usage,
                 starts, metered, source, mixed>>

\* A byte of the app itself.
OwnTraffic ==
  /\ uid < MaxBytes
  /\ uid' = uid + 1
  /\ Moves({"uid"})
  /\ UNCHANGED <<flags, mProfileName, counts, loop, pending, at, locals, usage, tun,
                 starts, metered, source, mixed>>

Persist(t) == PersistCumulative(t) \/ PersistReceived(t) \/ PersistCommit(t)

Stop(t) ==
  \/ StopClaim(t) \/ StopSave(t) \/ StopNoSave(t) \/ StopUnpost(t)
  \/ StopForget(t) \/ StopHalt(t) \/ StopCumulative(t) \/ StopReceived(t)
  \/ StopBase(t) \/ StopDown(t)

Step ==
  \/ \E p \in Profiles : StartName(p)
  \/ StartRun \/ PostStart \/ PostStartLoad
  \/ \E s \in Sources : PostStartBase(s) \/ TickSample(s)
  \/ PostStartPost \/ PostStartUp
  \/ SetVerified \/ TickStore \/ TickSave \/ TickSkip \/ TickRepost
  \/ OnDestroy
  \/ \E t \in Threads : Persist(t) \/ Stop(t)
  \/ Crash \/ Traffic \/ OwnTraffic

\* Two threads are inside their handlers.
Overlap ==
  \E t, u \in Threads : t # u /\ at[t] # "idle" /\ at[u] # "idle"

\* raced: the main thread, or another binder thread, once worked on the same
\* fields while a binder thread was inside stopMe.
Record == raced' = (raced \/ Overlap')

Next == Step /\ Record

Spec == Init /\ [][Next]_vars

-----------------------------------------------------------------------------
(* Properties.                                                             *)

\* Nothing is counted twice: over stops on any thread, restarts and kills, what
\* is stored, and what the binder reports (the loaded total plus the session),
\* never exceeds what the kernel counter the sessions were based on grew by while
\* the profile's tunnels were up.  Of a profile whose samples came from another
\* counter than their base (readUsageBytes picks one at each call) nothing is
\* said, nor once a handler has run inside a binder thread's stopMe.
NoDoubleCount ==
  ~raced =>
    /\ \A p \in Profiles \ mixed : usage[p] <= moved[p]
    /\ (mTunnelUp /\ mProfileName \in Profiles \ mixed)
         => mCumulative + mReceived <= moved[mProfileName]

\* While a tunnel is up no save and no stop, on whatever thread, takes anything
\* off a stored total; with the same two exceptions.
UpKeepsUsage ==
  [][(mTunnelUp /\ ~raced')
       => \A p \in Profiles \ mixed' : usage'[p] >= usage[p]]_vars

\* "count stays frozen while connecting" (SocksVpnService.kt:273): nothing is
\* written before the tunnel is up.
FrozenWhileConnecting ==
  [][~mTunnelUp => usage' = usage]_vars

=============================================================================
