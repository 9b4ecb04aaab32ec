-------------------------- MODULE UsageStats_proofs -------------------------
(***************************************************************************)
(* Theorems about UsageStats, for every set of profiles and of binder      *)
(* threads, every save period and any amount of traffic.                   *)
(* The totals' invariant speaks of the one thread that is inside a handler *)
(* as long as none has overlapped another; the types hold regardless.      *)
(***************************************************************************)
EXTENDS UsageStats, TLAPS

-----------------------------------------------------------------------------
(* Types, over any overlap.                                                *)

FlagType ==
  mRunning \in BOOLEAN /\ mTunnelUp \in BOOLEAN /\ mProxyVerified \in BOOLEAN

CountType ==
  /\ mCumulative \in Nat /\ mReceived \in Nat /\ mBase \in Nat
  /\ sample \in Nat /\ tun \in Nat /\ uid \in Nat /\ starts \in Nat
  /\ queued \in Nat
  /\ mStatsTick \in 0..(PersistTicks - 1)

NameType ==
  mProfileName \in ProfileOrNone /\ metered \in ProfileOrNone /\ source \in Sources

Place == {"idle", "run", "load", "base", "post", "up", "store", "live", "repost",
          "name", "cumulative", "received", "commit", "unpost", "forget", "halt",
          "zeroCumulative", "zeroReceived", "zeroBase", "down", "unpost2"}

PlaceType == at \in [Threads -> Place]

SaveType == save \in [Threads -> [name : ProfileOrNone, total : Nat,
                                  next : {"repost", "unpost"}]]

LedgerType ==
  /\ usage \in [Profiles -> Nat] /\ moved \in [Profiles -> Nat]
  /\ mixed \subseteq ProfileOrNone

HistoryType == pending \in BOOLEAN

RacedType == raced \in BOOLEAN

TypeParts ==
  /\ FlagType /\ CountType /\ NameType /\ PlaceType /\ SaveType /\ LedgerType
  /\ HistoryType /\ RacedType

\* The parts are TypeOK.
LEMMA TypePartsAre == TypeOK <=> TypeParts
  BY DEF TypeOK, TypeParts, FlagType, CountType, NameType, Place, PlaceType, SaveType,
         LedgerType, HistoryType, RacedType

-----------------------------------------------------------------------------
(* The invariant of behaviours without an overlap.                         *)

Alone(t) == \A u \in Threads \ {t} : at[u] = "idle"

Saving == {"cumulative", "received", "commit"}
Forgotten == {"halt", "zeroCumulative", "zeroReceived", "zeroBase", "down"}
Unposted == Forgotten \cup {"forget", "unpost2"}

\* A thread at pc, with sv its save, runs stopMe; runs a tick.
Stopping(pc, sv) ==
  \/ pc \in Unposted \cup {"name", "unpost"}
  \/ pc \in Saving /\ sv.next = "unpost"
Ticking(pc, sv) ==
  \/ pc \in {"store", "live", "repost"}
  \/ pc \in Saving /\ sv.next = "repost"

\* A session is being counted: its base is taken and its totals are loaded.
Counting(pc) == mTunnelUp \/ pc \in {"post", "up"}

\* How the flags go with where the busy thread is.
SessionAt(pc, sv) ==
  /\ Stopping(pc, sv) => ~mRunning
  /\ Ticking(pc, sv) => mRunning /\ mTunnelUp
  /\ pc \in {"load", "base", "post", "up"} => mRunning
  /\ pc = "run" => ~mRunning
  /\ pc \in {"run", "load", "base", "post", "up", "unpost2"} => ~mTunnelUp
  /\ mTunnelUp => mRunning \/ Stopping(pc, sv)
  /\ pending => ~Counting(pc) /\ pc \notin {"load", "base"}

QueueAt(pc) ==
  /\ queued > 0 => mTunnelUp \/ pc = "up"
  /\ pc \in Unposted => queued = 0

\* A profile is named while a session is connected, counted or saved.
NameAt(pc) ==
  /\ (mRunning \/ Counting(pc) \/ pc = "run") /\ pc \notin Forgotten
       => mProfileName \in Profiles
  /\ Counting(pc) /\ pc \notin Forgotten => metered = mProfileName
  /\ pc \in Forgotten => mProfileName = NoProfile

\* What is left of the counters outside a session.
ClearAt(pc) ==
  /\ ~Counting(pc) => mReceived = 0
  /\ ~Counting(pc) /\ pc # "base" => mCumulative = 0
  /\ pc \in {"zeroReceived", "zeroBase", "down"} => mCumulative = 0
  /\ pc \in {"zeroBase", "down"} => mReceived = 0
  /\ pc = "base" => mCumulative = usage[mProfileName]

\* The thread saves what the fields hold.
SaveAt(pc, sv) ==
  /\ pc \in Saving => sv.name = mProfileName /\ mProfileName \in Profiles
  /\ pc = "received" => sv.total = mCumulative
  /\ pc = "commit" => sv.total = mCumulative + mReceived

\* The counter the base was read from.
Counter == IF source = "tun" THEN tun ELSE uid

\* NoDoubleCount is not inductive: a sample may add all that the counter has
\* grown by since the base, so it is that amount, not the last sample, that must
\* fit into what the profile has moved.
Fits(n) ==
  /\ mCumulative + n <= moved[mProfileName]
  /\ source # "none" => mBase + n <= Counter

AccountAt(pc) ==
  (Counting(pc) /\ mProfileName \in Profiles \ mixed) =>
    /\ Fits(mReceived)
    /\ source # "none" => mCumulative + Counter <= moved[mProfileName] + mBase
    /\ usage[mProfileName] <= mCumulative + mReceived
    /\ pc = "store" => mReceived <= sample /\ Fits(sample)

StoredFits == \A p \in Profiles \ mixed : usage[p] <= moved[p]

CalmAt(pc, sv) ==
  /\ SessionAt(pc, sv) /\ QueueAt(pc) /\ NameAt(pc) /\ ClearAt(pc)
  /\ SaveAt(pc, sv) /\ AccountAt(pc)

Calm ==
  /\ ~Overlap
  /\ StoredFits
  /\ \A t \in Threads : Alone(t) => CalmAt(at[t], save[t])

\* The main thread is one of the threads.
LEMMA MainIs == Main \in Threads
  BY DEF Threads

\* Every step, of whichever threads in whichever order, keeps the types.
LEMMA TypeStep == TypeParts /\ Next => TypeParts'
<1> SUFFICES ASSUME TypeParts, Next PROVE TypeParts'
  OBVIOUS
<1>t. /\ FlagType /\ CountType /\ NameType /\ PlaceType /\ SaveType /\ LedgerType
      /\ HistoryType
  BY DEF TypeParts
<1>0. RacedType'
  <2>1. raced' = (raced \/ Overlap')
    BY DEF Next, Record
  <2>2. (raced \/ Overlap') \in BOOLEAN
    OBVIOUS
  <2>3. QED BY <2>1, <2>2 DEF RacedType
<1>1. ASSUME NEW p \in Profiles, StartName(p) PROVE TypeParts'
  <2>1. FlagType' /\ SaveType' /\ LedgerType' /\ HistoryType'
    BY <1>t, <1>1 DEF StartName, flags, locals, ledger, FlagType, SaveType,
        LedgerType, HistoryType
  <2>2. CountType'
    BY <1>t, <1>1 DEF StartName, counts, loop, locals, world, CountType
  <2>3. NameType'
    BY <1>t, <1>1 DEF StartName, ledger, NameType, ProfileOrNone
  <2>4. PlaceType'
    BY <1>t, <1>1, MainIs DEF StartName, PlaceType, GoTo, Place
  <2>5. QED BY <1>0, <2>1, <2>2, <2>3, <2>4 DEF TypeParts
<1>2. ASSUME StartRun PROVE TypeParts'
  <2>1. NameType' /\ SaveType' /\ LedgerType'
    BY <1>t, <1>2 DEF StartRun, locals, ledger, NameType, SaveType, LedgerType
  <2>2. FlagType'
    BY <1>t, <1>2 DEF StartRun, FlagType
  <2>3. CountType'
    BY <1>t, <1>2 DEF StartRun, counts, loop, locals, CountType
  <2>4. PlaceType'
    BY <1>t, <1>2, MainIs DEF StartRun, PlaceType, GoTo, Place
  <2>5. HistoryType'
    BY <1>t, <1>2 DEF StartRun, HistoryType
  <2>6. QED BY <1>0, <2>1, <2>2, <2>3, <2>4, <2>5 DEF TypeParts
<1>3. ASSUME PostStart PROVE TypeParts'
  <2>1. CountType' /\ NameType' /\ SaveType' /\ LedgerType'
    BY <1>t, <1>3 DEF PostStart, counts, loop, locals, world, ledger, CountType,
        NameType, SaveType, LedgerType
  <2>2. FlagType'
    BY <1>t, <1>3 DEF PostStart, FlagType
  <2>3. PlaceType'
    BY <1>t, <1>3, MainIs DEF PostStart, PlaceType, GoTo, Place
  <2>4. HistoryType'
    BY <1>t, <1>3 DEF PostStart, HistoryType
  <2>5. QED BY <1>0, <2>1, <2>2, <2>3, <2>4 DEF TypeParts
<1>4. ASSUME PostStartLoad PROVE TypeParts'
  <2>1. FlagType' /\ NameType' /\ SaveType' /\ LedgerType' /\ HistoryType'
    BY <1>t, <1>4 DEF PostStartLoad, flags, locals, ledger, FlagType, NameType,
        SaveType, LedgerType, HistoryType
  <2>2. CountType'
    BY <1>t, <1>4 DEF PostStartLoad, loop, locals, world, CountType, NameType,
        LedgerType, ProfileOrNone
  <2>3. PlaceType'
    BY <1>t, <1>4, MainIs DEF PostStartLoad, PlaceType, GoTo, Place
  <2>4. QED BY <1>0, <2>1, <2>2, <2>3 DEF TypeParts
<1>5. ASSUME NEW s \in Sources, PostStartBase(s) PROVE TypeParts'
  <2>1. FlagType' /\ SaveType' /\ LedgerType' /\ HistoryType'
    BY <1>t, <1>5 DEF PostStartBase, flags, locals, FlagType, SaveType, LedgerType,
        HistoryType
  <2>2. CountType'
    BY <1>t, <1>5 DEF PostStartBase, loop, locals, world, CountType, ReadUsageBytes,
        Sources
  <2>3. NameType'
    BY <1>t, <1>5 DEF PostStartBase, NameType
  <2>4. PlaceType'
    BY <1>t, <1>5, MainIs DEF PostStartBase, PlaceType, GoTo, Place
  <2>5. QED BY <1>0, <2>1, <2>2, <2>3, <2>4 DEF TypeParts
<1>6. ASSUME NEW s \in Sources, TickSample(s) PROVE TypeParts'
  <2>1. FlagType' /\ NameType' /\ SaveType' /\ HistoryType'
    BY <1>t, <1>6 DEF TickSample, flags, FlagType, NameType, SaveType, HistoryType
  <2>2. CountType'
    BY <1>t, <1>6 DEF TickSample, counts, world, CountType, ReadUsageBytes, Sources
  <2>3. PlaceType'
    BY <1>t, <1>6, MainIs DEF TickSample, PlaceType, GoTo, Place
  <2>4. LedgerType'
    BY <1>t, <1>6 DEF TickSample, LedgerType, NameType
  <2>5. QED BY <1>0, <2>1, <2>2, <2>3, <2>4 DEF TypeParts
<1>7. ASSUME PostStartPost PROVE TypeParts'
  <2>1. FlagType' /\ NameType' /\ SaveType' /\ LedgerType' /\ HistoryType'
    BY <1>t, <1>7 DEF PostStartPost, flags, locals, ledger, FlagType, NameType,
        SaveType, LedgerType, HistoryType
  <2>2. CountType'
    BY <1>t, <1>7 DEF PostStartPost, counts, locals, world, CountType
  <2>3. PlaceType'
    BY <1>t, <1>7, MainIs DEF PostStartPost, PlaceType, GoTo, Place
  <2>4. QED BY <1>0, <2>1, <2>2, <2>3 DEF TypeParts
<1>8. ASSUME PostStartUp PROVE TypeParts'
  <2>1. CountType' /\ NameType' /\ SaveType' /\ LedgerType' /\ HistoryType'
    BY <1>t, <1>8 DEF PostStartUp, counts, loop, locals, world, ledger, CountType,
        NameType, SaveType, LedgerType, HistoryType
  <2>2. FlagType'
    BY <1>t, <1>8 DEF PostStartUp, FlagType
  <2>3. PlaceType'
    BY <1>t, <1>8, MainIs DEF PostStartUp, PlaceType, GoTo, Place
  <2>4. QED BY <1>0, <2>1, <2>2, <2>3 DEF TypeParts
<1>9. ASSUME SetVerified PROVE TypeParts'
  <2>1. CountType' /\ NameType' /\ PlaceType' /\ SaveType' /\ LedgerType' /\ HistoryType'
    BY <1>t, <1>9 DEF SetVerified, counts, loop, locals, world, ledger, CountType,
        NameType, PlaceType, SaveType, LedgerType, HistoryType
  <2>2. FlagType'
    BY <1>t, <1>9 DEF SetVerified, FlagType
  <2>3. QED BY <1>0, <2>1, <2>2 DEF TypeParts
<1>10. ASSUME TickStore PROVE TypeParts'
  <2>1. FlagType' /\ NameType' /\ SaveType' /\ LedgerType' /\ HistoryType'
    BY <1>t, <1>10 DEF TickStore, flags, ledger, FlagType, NameType, SaveType,
        LedgerType, HistoryType
  <2>2. CountType'
    BY <1>t, <1>10, UsageBoundsAssumption DEF TickStore, world, CountType
  <2>3. PlaceType'
    BY <1>t, <1>10, MainIs DEF TickStore, PlaceType, GoTo, Place
  <2>4. QED BY <1>0, <2>1, <2>2, <2>3 DEF TypeParts
<1>11. ASSUME TickSave PROVE TypeParts'
  <2>1. FlagType' /\ CountType' /\ NameType' /\ LedgerType' /\ HistoryType'
    BY <1>t, <1>11 DEF TickSave, flags, counts, loop, world, ledger, FlagType,
        CountType, NameType, LedgerType, HistoryType
  <2>2. PlaceType'
    BY <1>t, <1>11, MainIs DEF TickSave, PlaceType, GoTo, Place
  <2>3. SaveType'
    BY <1>t, <1>11 DEF TickSave, SaveType, NameType
  <2>4. QED BY <1>0, <2>1, <2>2, <2>3 DEF TypeParts
<1>12. ASSUME TickSkip PROVE TypeParts'
  <2>1. FlagType' /\ CountType' /\ NameType' /\ SaveType' /\ LedgerType' /\ HistoryType'
    BY <1>t, <1>12 DEF TickSkip, flags, counts, loop, locals, world, ledger,
        FlagType, CountType, NameType, SaveType, LedgerType, HistoryType
  <2>2. PlaceType'
    BY <1>t, <1>12, MainIs DEF TickSkip, PlaceType, GoTo, Place
  <2>3. QED BY <1>0, <2>1, <2>2 DEF TypeParts
<1>13. ASSUME TickRepost PROVE TypeParts'
  <2>1. FlagType' /\ NameType' /\ SaveType' /\ LedgerType' /\ HistoryType'
    BY <1>t, <1>13 DEF TickRepost, flags, locals, ledger, FlagType, NameType,
        SaveType, LedgerType, HistoryType
  <2>2. CountType'
    BY <1>t, <1>13 DEF TickRepost, counts, locals, world, CountType
  <2>3. PlaceType'
    BY <1>t, <1>13, MainIs DEF TickRepost, PlaceType, GoTo, Place
  <2>4. QED BY <1>0, <2>1, <2>2, <2>3 DEF TypeParts
<1>14. ASSUME OnDestroy PROVE TypeParts'
  <2>1. CountType' /\ NameType' /\ SaveType' /\ LedgerType' /\ HistoryType'
    BY <1>t, <1>14 DEF OnDestroy, counts, loop, locals, world, ledger, CountType,
        NameType, SaveType, LedgerType, HistoryType
  <2>2. FlagType'
    BY <1>t, <1>14 DEF OnDestroy, FlagType
  <2>3. PlaceType'
    BY <1>t, <1>14, MainIs DEF OnDestroy, PlaceType, GoTo, Place
  <2>4. QED BY <1>0, <2>1, <2>2, <2>3 DEF TypeParts
<1>15. ASSUME NEW t \in Threads, PersistCumulative(t) PROVE TypeParts'
  <2>1. FlagType' /\ CountType' /\ NameType' /\ LedgerType' /\ HistoryType'
    BY <1>t, <1>15 DEF PersistCumulative, flags, counts, loop, world, ledger,
        FlagType, CountType, NameType, LedgerType, HistoryType
  <2>2. PlaceType'
    BY <1>t, <1>15, MainIs DEF PersistCumulative, PlaceType, GoTo, Place
  <2>3. SaveType'
    BY <1>t, <1>15 DEF PersistCumulative, SaveType, CountType
  <2>4. QED BY <1>0, <2>1, <2>2, <2>3 DEF TypeParts
<1>16. ASSUME NEW t \in Threads, PersistReceived(t) PROVE TypeParts'
  <2>1. FlagType' /\ CountType' /\ NameType' /\ LedgerType' /\ HistoryType'
    BY <1>t, <1>16 DEF PersistReceived, flags, counts, loop, world, ledger, FlagType,
        CountType, NameType, LedgerType, HistoryType
  <2>2. PlaceType'
    BY <1>t, <1>16, MainIs DEF PersistReceived, PlaceType, GoTo, Place
  <2>3. SaveType'
    BY <1>t, <1>16 DEF PersistReceived, SaveType, CountType
  <2>4. QED BY <1>0, <2>1, <2>2, <2>3 DEF TypeParts
<1>17. ASSUME NEW t \in Threads, PersistCommit(t) PROVE TypeParts'
  <2>1. FlagType' /\ CountType' /\ NameType' /\ HistoryType'
    BY <1>t, <1>17 DEF PersistCommit, flags, counts, loop, world, ledger, FlagType,
        CountType, NameType, HistoryType
  <2>2. PlaceType'
    BY <1>t, <1>17, MainIs DEF PersistCommit, PlaceType, GoTo, Place, SaveType
  <2>3. SaveType'
    BY <1>t, <1>17 DEF PersistCommit, SaveType, NoSave, ProfileOrNone
  <2>4. LedgerType'
    BY <1>t, <1>17 DEF PersistCommit, ledger, LedgerType, SaveType
  <2>5. QED BY <1>0, <2>1, <2>2, <2>3, <2>4 DEF TypeParts
<1>18. ASSUME NEW t \in Threads, StopClaim(t) PROVE TypeParts'
  <2>1. CountType' /\ NameType' /\ SaveType' /\ LedgerType' /\ HistoryType'
    BY <1>t, <1>18 DEF StopClaim, counts, loop, locals, world, ledger, CountType,
        NameType, SaveType, LedgerType, HistoryType
  <2>2. FlagType'
    BY <1>t, <1>18 DEF StopClaim, FlagType
  <2>3. PlaceType'
    BY <1>t, <1>18, MainIs DEF StopClaim, PlaceType, GoTo, Place
  <2>4. QED BY <1>0, <2>1, <2>2, <2>3 DEF TypeParts
<1>19. ASSUME NEW t \in Threads, StopSave(t) PROVE TypeParts'
  <2>1. FlagType' /\ CountType' /\ NameType' /\ LedgerType' /\ HistoryType'
    BY <1>t, <1>19 DEF StopSave, flags, counts, loop, world, ledger, FlagType,
        CountType, NameType, LedgerType, HistoryType
  <2>2. PlaceType'
    BY <1>t, <1>19, MainIs DEF StopSave, PlaceType, GoTo, Place
  <2>3. SaveType'
    BY <1>t, <1>19 DEF StopSave, SaveType, NameType
  <2>4. QED BY <1>0, <2>1, <2>2, <2>3 DEF TypeParts
<1>20. ASSUME NEW t \in Threads, StopNoSave(t) PROVE TypeParts'
  <2>1. FlagType' /\ CountType' /\ NameType' /\ SaveType' /\ LedgerType' /\ HistoryType'
    BY <1>t, <1>20 DEF StopNoSave, flags, counts, loop, locals, world, ledger,
        FlagType, CountType, NameType, SaveType, LedgerType, HistoryType
  <2>2. PlaceType'
    BY <1>t, <1>20, MainIs DEF StopNoSave, PlaceType, GoTo, Place
  <2>3. QED BY <1>0, <2>1, <2>2 DEF TypeParts
<1>21. ASSUME NEW t \in Threads, StopUnpost(t) PROVE TypeParts'
  <2>1. FlagType' /\ NameType' /\ SaveType' /\ LedgerType' /\ HistoryType'
    BY <1>t, <1>21 DEF StopUnpost, flags, locals, ledger, FlagType, NameType,
        SaveType, LedgerType, HistoryType
  <2>2. CountType'
    BY <1>t, <1>21 DEF StopUnpost, counts, locals, world, CountType
  <2>3. PlaceType'
    BY <1>t, <1>21, MainIs DEF StopUnpost, PlaceType, GoTo, Place
  <2>4. QED BY <1>0, <2>1, <2>2, <2>3 DEF TypeParts
<1>22. ASSUME NEW t \in Threads, StopForget(t) PROVE TypeParts'
  <2>1. FlagType' /\ CountType' /\ SaveType' /\ LedgerType' /\ HistoryType'
    BY <1>t, <1>22 DEF StopForget, flags, counts, loop, locals, world, ledger,
        FlagType, CountType, SaveType, LedgerType, HistoryType
  <2>2. NameType'
    BY <1>t, <1>22 DEF StopForget, ledger, NameType, ProfileOrNone
  <2>3. PlaceType'
    BY <1>t, <1>22, MainIs DEF StopForget, PlaceType, GoTo, Place
  <2>4. QED BY <1>0, <2>1, <2>2, <2>3 DEF TypeParts
<1>23. ASSUME NEW t \in Threads, StopHalt(t) PROVE TypeParts'
  <2>1. CountType' /\ NameType' /\ SaveType' /\ LedgerType' /\ HistoryType'
    BY <1>t, <1>23 DEF StopHalt, counts, loop, locals, world, ledger, CountType,
        NameType, SaveType, LedgerType, HistoryType
  <2>2. FlagType'
    BY <1>t, <1>23 DEF StopHalt, FlagType
  <2>3. PlaceType'
    BY <1>t, <1>23, MainIs DEF StopHalt, PlaceType, GoTo, Place
  <2>4. QED BY <1>0, <2>1, <2>2, <2>3 DEF TypeParts
<1>24. ASSUME NEW t \in Threads, StopCumulative(t) PROVE TypeParts'
  <2>1. FlagType' /\ NameType' /\ SaveType' /\ LedgerType' /\ HistoryType'
    BY <1>t, <1>24 DEF StopCumulative, flags, locals, ledger, FlagType, NameType,
        SaveType, LedgerType, HistoryType
  <2>2. CountType'
    BY <1>t, <1>24 DEF StopCumulative, loop, locals, world, CountType
  <2>3. PlaceType'
    BY <1>t, <1>24, MainIs DEF StopCumulative, PlaceType, GoTo, Place
  <2>4. QED BY <1>0, <2>1, <2>2, <2>3 DEF TypeParts
<1>25. ASSUME NEW t \in Threads, StopReceived(t) PROVE TypeParts'
  <2>1. FlagType' /\ NameType' /\ SaveType' /\ LedgerType' /\ HistoryType'
    BY <1>t, <1>25 DEF StopReceived, flags, locals, ledger, FlagType, NameType,
        SaveType, LedgerType, HistoryType
  <2>2. CountType'
    BY <1>t, <1>25 DEF StopReceived, loop, locals, world, CountType
  <2>3. PlaceType'
    BY <1>t, <1>25, MainIs DEF StopReceived, PlaceType, GoTo, Place
  <2>4. QED BY <1>0, <2>1, <2>2, <2>3 DEF TypeParts
<1>26. ASSUME NEW t \in Threads, StopBase(t) PROVE TypeParts'
  <2>1. FlagType' /\ NameType' /\ SaveType' /\ LedgerType' /\ HistoryType'
    BY <1>t, <1>26 DEF StopBase, flags, locals, ledger, FlagType, NameType, SaveType,
        LedgerType, HistoryType
  <2>2. CountType'
    BY <1>t, <1>26 DEF StopBase, loop, locals, world, CountType
  <2>3. PlaceType'
    BY <1>t, <1>26, MainIs DEF StopBase, PlaceType, GoTo, Place
  <2>4. QED BY <1>0, <2>1, <2>2, <2>3 DEF TypeParts
<1>27. ASSUME NEW t \in Threads, StopDown(t) PROVE TypeParts'
  <2>1. CountType' /\ SaveType' /\ LedgerType' /\ HistoryType'
    BY <1>t, <1>27 DEF StopDown, counts, loop, locals, world, CountType, SaveType,
        LedgerType, HistoryType
  <2>2. FlagType'
    BY <1>t, <1>27 DEF StopDown, FlagType
  <2>3. NameType'
    BY <1>t, <1>27 DEF StopDown, NameType, ProfileOrNone, Sources
  <2>4. PlaceType'
    BY <1>t, <1>27, MainIs DEF StopDown, PlaceType, GoTo, Place
  <2>5. QED BY <1>0, <2>1, <2>2, <2>3, <2>4 DEF TypeParts
<1>28. ASSUME Crash PROVE TypeParts'
  <2>1. LedgerType'
    BY <1>t, <1>28 DEF Crash, LedgerType
  <2>2. FlagType'
    BY <1>t, <1>28 DEF Crash, FlagType
  <2>3. CountType'
    BY <1>t, <1>28, UsageBoundsAssumption DEF Crash, world, CountType
  <2>4. NameType'
    BY <1>t, <1>28 DEF Crash, NameType, ProfileOrNone, Sources
  <2>5. PlaceType'
    BY <1>t, <1>28, MainIs DEF Crash, PlaceType, Place
  <2>6. SaveType'
    BY <1>t, <1>28 DEF Crash, SaveType, NoSave, ProfileOrNone
  <2>7. HistoryType'
    BY <1>t, <1>28 DEF Crash, HistoryType
  <2>8. QED BY <1>0, <2>1, <2>2, <2>3, <2>4, <2>5, <2>6, <2>7 DEF TypeParts
<1>29. ASSUME Traffic PROVE TypeParts'
  <2>1. FlagType' /\ NameType' /\ PlaceType' /\ SaveType' /\ HistoryType'
    BY <1>t, <1>29 DEF Traffic, flags, locals, FlagType, NameType, PlaceType,
        SaveType, HistoryType
  <2>2. CountType'
    BY <1>t, <1>29 DEF Traffic, counts, loop, locals, CountType
  <2>3. LedgerType'
    BY <1>t, <1>29 DEF Traffic, LedgerType, Moves, NameType, ProfileOrNone
  <2>4. QED BY <1>0, <2>1, <2>2, <2>3 DEF TypeParts
<1>30. ASSUME OwnTraffic PROVE TypeParts'
  <2>1. FlagType' /\ NameType' /\ PlaceType' /\ SaveType' /\ HistoryType'
    BY <1>t, <1>30 DEF OwnTraffic, flags, locals, FlagType, NameType, PlaceType,
        SaveType, HistoryType
  <2>2. CountType'
    BY <1>t, <1>30 DEF OwnTraffic, counts, loop, locals, CountType
  <2>3. LedgerType'
    BY <1>t, <1>30 DEF OwnTraffic, LedgerType, Moves, NameType, ProfileOrNone
  <2>4. QED BY <1>0, <2>1, <2>2, <2>3 DEF TypeParts
<1>31. QED
  BY <1>1, <1>2, <1>3, <1>4, <1>5, <1>6, <1>7, <1>8, <1>9, <1>10, <1>11, <1>12,
      <1>13, <1>14, <1>15, <1>16, <1>17, <1>18, <1>19, <1>20, <1>21, <1>22,
      <1>23, <1>24, <1>25, <1>26, <1>27, <1>28, <1>29, <1>30 DEF Next, Step,
      Persist, Stop

-----------------------------------------------------------------------------
\* A thread that moves in its handler, if none overlaps, is the only one there.
LEMMA OnlyOne ==
  ASSUME PlaceType, NEW t \in Threads, NEW from \in Place, NEW to \in Place,
         GoTo(t, from, to), from # "idle" \/ to # "idle", ~Overlap, ~Overlap'
  PROVE  /\ at[t] = from /\ at'[t] = to
         /\ Alone(t) /\ Alone(t)'
<1>1. /\ at[t] = from /\ at'[t] = to
      /\ \A u \in Threads \ {t} : at'[u] = at[u]
  BY DEF GoTo, PlaceType
<1>2. \A u \in Threads \ {t} : at[u] = "idle"
  <2> SUFFICES ASSUME NEW u \in Threads \ {t}, at[u] # "idle" PROVE FALSE
    OBVIOUS
  <2>1. CASE from # "idle"
    BY <1>1, <2>1 DEF Overlap
  <2>2. CASE to # "idle"
    BY <1>1, <2>2 DEF Overlap
  <2>3. QED BY <2>1, <2>2
<1>3. QED BY <1>1, <1>2 DEF Alone

\* It is enough to follow the thread that moved: where all are idle it does not
\* matter which one is looked at.
LEMMA CalmFrom ==
  ASSUME NEW t \in Threads, NEW pc, ~Overlap', StoredFits', Alone(t)', at'[t] = pc,
         CalmAt(pc, save[t])'
  PROVE  Calm'
<1> SUFFICES ASSUME NEW u \in Threads, Alone(u)' PROVE CalmAt(at[u], save[u])'
  BY DEF Calm
<1>1. CASE u = t
  BY <1>1
<1>2. CASE u # t
  <2>1. pc = "idle" /\ at'[u] = "idle"
    BY <1>2 DEF Alone
  <2>2. CalmAt("idle", save[t])'
    BY <2>1
  <2>3. CalmAt("idle", save[u])'
    BY <2>2 DEF CalmAt, SessionAt, QueueAt, NameAt, ClearAt, SaveAt, AccountAt,
                Stopping, Ticking, Saving, Forgotten, Unposted
  <2>4. QED BY <2>1, <2>3
<1>3. QED BY <1>1, <1>2


\* As long as no handler overlaps another, every step keeps the accounts.
LEMMA CalmStep == TypeParts /\ Calm /\ Next /\ ~raced' => Calm'
<1> SUFFICES ASSUME TypeParts, Calm, Next, ~raced' PROVE Calm'
  OBVIOUS
<1>t. /\ FlagType /\ CountType /\ NameType /\ PlaceType /\ SaveType /\ LedgerType
      /\ HistoryType
  BY DEF TypeParts
<1>u. /\ CountType' /\ NameType' /\ PlaceType' /\ SaveType' /\ LedgerType'
  BY TypeStep DEF TypeParts
<1>o. ~Overlap /\ ~Overlap'
  BY DEF Calm, Next, Record
<1>c. Calm
  OBVIOUS
<1>1. ASSUME NEW p \in Profiles, StartName(p) PROVE Calm'
  <2>1. /\ at[Main] = "idle" /\ at'[Main] = "run"
        /\ Alone(Main) /\ Alone(Main)'
    BY <1>t, <1>o, <1>1, MainIs, OnlyOne DEF StartName, Place
  <2>2. CalmAt("idle", save[Main]) /\ StoredFits
    BY <1>c, <2>1, MainIs DEF Calm
  <2>f. ~mTunnelUp
    BY <1>t, <1>1, <2>2, MainIs, UsageNamesAssumption DEF StartName, CalmAt,
        SessionAt, NameAt, QueueAt, ClearAt, Stopping, Ticking, Counting,
        Saving, Forgotten, Unposted
  <2>3. CalmAt("run", save[Main])'
    <3>1. SessionAt("run", save[Main])'
      BY <1>t, <1>1, <2>2, <2>f DEF StartName, flags, locals, CalmAt,
          SessionAt, Stopping, Ticking, Counting, Saving, Forgotten, Unposted,
          FlagType, HistoryType
    <3>2. QueueAt("run")'
      BY <1>t, <1>1, <2>2, <2>f DEF StartName, flags, loop, CalmAt, QueueAt,
          SessionAt, Unposted, Forgotten, CountType
    <3>3. NameAt("run")'
      BY <1>t, <1>1, <2>2, <2>f, UsageNamesAssumption DEF StartName, flags,
          ledger, CalmAt, NameAt, SessionAt, Counting, Forgotten, Stopping,
          Unposted, NameType, ProfileOrNone
    <3>4. ClearAt("run")'
      BY <1>t, <1>1, <2>2, <2>f DEF StartName, flags, counts, CalmAt, ClearAt,
          SessionAt, QueueAt, NameAt, Counting, CountType
    <3>5. SaveAt("run", save[Main])'
      BY <1>t, <1>1, <2>2, <2>f, UsageNamesAssumption DEF StartName, counts,
          locals, CalmAt, SaveAt, SessionAt, ClearAt, Saving, SaveType,
          CountType, NameType
    <3>6. AccountAt("run")'
      BY <1>t, <1>1, <2>2, <2>f, UsageNamesAssumption DEF StartName, flags,
          counts, locals, world, ledger, CalmAt, AccountAt, NameAt, SessionAt,
          ClearAt, Counting, Fits, Counter, CountType, LedgerType
    <3>7. QED BY <3>1, <3>2, <3>3, <3>4, <3>5, <3>6 DEF CalmAt
  <2>4. StoredFits'
    BY <1>1, <2>2 DEF StartName, ledger, StoredFits
  <2>5. QED BY <1>o, <2>1, <2>3, <2>4, MainIs, CalmFrom
<1>2. ASSUME StartRun PROVE Calm'
  <2>1. /\ at[Main] = "run" /\ at'[Main] = "idle"
        /\ Alone(Main) /\ Alone(Main)'
    BY <1>t, <1>o, <1>2, MainIs, OnlyOne DEF StartRun, Place
  <2>2. CalmAt("run", save[Main]) /\ StoredFits
    BY <1>c, <2>1, MainIs DEF Calm
  <2>3. CalmAt("idle", save[Main])'
    <3>1. SessionAt("idle", save[Main])'
      BY <1>t, <1>2, <2>2 DEF StartRun, locals, CalmAt, SessionAt, Stopping,
          Ticking, Counting, Saving, Forgotten, Unposted, FlagType, HistoryType
    <3>2. QueueAt("idle")'
      BY <1>t, <1>2, <2>2 DEF StartRun, loop, CalmAt, QueueAt, SessionAt,
          Unposted, Forgotten, CountType
    <3>3. NameAt("idle")'
      BY <1>t, <1>2, <2>2, UsageNamesAssumption DEF StartRun, ledger, CalmAt,
          NameAt, SessionAt, Counting, Forgotten, Stopping, Unposted, NameType,
          ProfileOrNone
    <3>4. ClearAt("idle")'
      BY <1>t, <1>2, <2>2 DEF StartRun, counts, CalmAt, ClearAt, SessionAt,
          QueueAt, NameAt, Counting, CountType
    <3>5. SaveAt("idle", save[Main])'
      BY <1>t, <1>2, <2>2, UsageNamesAssumption DEF StartRun, counts, locals,
          CalmAt, SaveAt, SessionAt, ClearAt, Saving, SaveType, CountType,
          NameType
    <3>6. AccountAt("idle")'
      BY <1>t, <1>2, <2>2, UsageNamesAssumption DEF StartRun, counts, locals,
          ledger, CalmAt, AccountAt, NameAt, SessionAt, ClearAt, Counting,
          Fits, Counter, CountType, LedgerType
    <3>7. QED BY <3>1, <3>2, <3>3, <3>4, <3>5, <3>6 DEF CalmAt
  <2>4. StoredFits'
    BY <1>2, <2>2 DEF StartRun, ledger, StoredFits
  <2>5. QED BY <1>o, <2>1, <2>3, <2>4, MainIs, CalmFrom
<1>3. ASSUME PostStart PROVE Calm'
  <2>1. /\ at[Main] = "idle" /\ at'[Main] = "load"
        /\ Alone(Main) /\ Alone(Main)'
    BY <1>t, <1>o, <1>3, MainIs, OnlyOne DEF PostStart, Place
  <2>2. CalmAt("idle", save[Main]) /\ StoredFits
    BY <1>c, <2>1, MainIs DEF Calm
  <2>3. CalmAt("load", save[Main])'
    <3>1. SessionAt("load", save[Main])'
      BY <1>t, <1>3, <2>2 DEF PostStart, locals, CalmAt, SessionAt, Stopping,
          Ticking, Counting, Saving, Forgotten, Unposted, FlagType, HistoryType
    <3>2. QueueAt("load")'
      BY <1>t, <1>3, <2>2 DEF PostStart, loop, CalmAt, QueueAt, SessionAt,
          Unposted, Forgotten, CountType
    <3>3. NameAt("load")'
      BY <1>t, <1>3, <2>2, UsageNamesAssumption DEF PostStart, ledger, CalmAt,
          NameAt, SessionAt, Counting, Forgotten, Stopping, Unposted, NameType,
          ProfileOrNone
    <3>4. ClearAt("load")'
      BY <1>t, <1>3, <2>2 DEF PostStart, counts, CalmAt, ClearAt, SessionAt,
          QueueAt, NameAt, Counting, CountType
    <3>5. SaveAt("load", save[Main])'
      BY <1>t, <1>3, <2>2, UsageNamesAssumption DEF PostStart, counts, locals,
          CalmAt, SaveAt, SessionAt, ClearAt, Saving, SaveType, CountType,
          NameType
    <3>6. AccountAt("load")'
      BY <1>t, <1>3, <2>2, UsageNamesAssumption DEF PostStart, counts, locals,
          world, ledger, CalmAt, AccountAt, NameAt, SessionAt, ClearAt,
          Counting, Fits, Counter, CountType, LedgerType
    <3>7. QED BY <3>1, <3>2, <3>3, <3>4, <3>5, <3>6 DEF CalmAt
  <2>4. StoredFits'
    BY <1>3, <2>2 DEF PostStart, ledger, StoredFits
  <2>5. QED BY <1>o, <2>1, <2>3, <2>4, MainIs, CalmFrom
<1>4. ASSUME PostStartLoad PROVE Calm'
  <2>1. /\ at[Main] = "load" /\ at'[Main] = "base"
        /\ Alone(Main) /\ Alone(Main)'
    BY <1>t, <1>o, <1>4, MainIs, OnlyOne DEF PostStartLoad, Place
  <2>2. CalmAt("load", save[Main]) /\ StoredFits
    BY <1>c, <2>1, MainIs DEF Calm
  <2>f. ~mTunnelUp /\ mProfileName \in Profiles /\ mProfileName # NoProfile
    BY <1>t, <1>4, <2>2, MainIs, UsageNamesAssumption DEF PostStartLoad,
        CalmAt, SessionAt, NameAt, QueueAt, ClearAt, Stopping, Ticking,
        Counting, Saving, Forgotten, Unposted
  <2>3. CalmAt("base", save[Main])'
    <3>1. SessionAt("base", save[Main])'
      BY <1>t, <1>4, <2>2, <2>f DEF PostStartLoad, flags, locals, CalmAt,
          SessionAt, Stopping, Ticking, Counting, Saving, Forgotten, Unposted,
          FlagType, HistoryType
    <3>2. QueueAt("base")'
      BY <1>t, <1>4, <2>2, <2>f DEF PostStartLoad, flags, loop, CalmAt,
          QueueAt, SessionAt, Unposted, Forgotten, CountType
    <3>3. NameAt("base")'
      BY <1>t, <1>4, <2>2, <2>f, UsageNamesAssumption DEF PostStartLoad, flags,
          ledger, CalmAt, NameAt, SessionAt, Counting, Forgotten, Stopping,
          Unposted, NameType, ProfileOrNone
    <3>4. ClearAt("base")'
      BY <1>t, <1>4, <2>2, <2>f DEF PostStartLoad, flags, CalmAt, ClearAt,
          SessionAt, QueueAt, NameAt, Counting, CountType
    <3>5. SaveAt("base", save[Main])'
      BY <1>t, <1>4, <2>2, <2>f, UsageNamesAssumption DEF PostStartLoad,
          locals, CalmAt, SaveAt, SessionAt, ClearAt, Saving, SaveType,
          CountType, NameType
    <3>6. AccountAt("base")'
      BY <1>t, <1>4, <2>2, <2>f, UsageNamesAssumption DEF PostStartLoad, flags,
          locals, world, ledger, CalmAt, AccountAt, NameAt, SessionAt, ClearAt,
          Counting, Fits, Counter, CountType, LedgerType
    <3>7. QED BY <3>1, <3>2, <3>3, <3>4, <3>5, <3>6 DEF CalmAt
  <2>4. StoredFits'
    BY <1>4, <2>2 DEF PostStartLoad, ledger, StoredFits
  <2>5. QED BY <1>o, <2>1, <2>3, <2>4, MainIs, CalmFrom
<1>5. ASSUME NEW s \in Sources, PostStartBase(s) PROVE Calm'
  <2>1. /\ at[Main] = "base" /\ at'[Main] = "post"
        /\ Alone(Main) /\ Alone(Main)'
    BY <1>t, <1>o, <1>5, MainIs, OnlyOne DEF PostStartBase, Place
  <2>2. CalmAt("base", save[Main]) /\ StoredFits
    BY <1>c, <2>1, MainIs DEF Calm
  <2>f. /\ ~mTunnelUp /\ ~pending /\ mRunning /\ mProfileName \in Profiles
        /\ mCumulative = usage[mProfileName]
    BY <1>t, <1>5, <2>2, MainIs, UsageNamesAssumption DEF PostStartBase,
        CalmAt, SessionAt, NameAt, QueueAt, ClearAt, Stopping, Ticking,
        Counting, Saving, Forgotten, Unposted
  <2>3. CalmAt("post", save[Main])'
    <3>1. SessionAt("post", save[Main])'
      BY <1>t, <1>5, <2>2, <2>f DEF PostStartBase, flags, locals, CalmAt,
          SessionAt, Stopping, Ticking, Counting, Saving, Forgotten, Unposted,
          FlagType, HistoryType
    <3>2. QueueAt("post")'
      BY <1>t, <1>5, <2>2, <2>f DEF PostStartBase, flags, loop, CalmAt,
          QueueAt, SessionAt, Unposted, Forgotten, CountType
    <3>3. NameAt("post")'
      BY <1>t, <1>5, <2>2, <2>f, UsageNamesAssumption DEF PostStartBase, flags,
          CalmAt, NameAt, SessionAt, Counting, Forgotten, Stopping, Unposted,
          NameType, ProfileOrNone
    <3>4. ClearAt("post")'
      BY <1>t, <1>5, <2>2, <2>f DEF PostStartBase, flags, CalmAt, ClearAt,
          SessionAt, QueueAt, NameAt, Counting, CountType
    <3>5. SaveAt("post", save[Main])'
      BY <1>t, <1>5, <2>2, <2>f, UsageNamesAssumption DEF PostStartBase,
          locals, CalmAt, SaveAt, SessionAt, ClearAt, Saving, SaveType,
          CountType, NameType
    <3>6. AccountAt("post")'
      <4>1. /\ mCumulative' = mCumulative /\ mReceived' = 0 /\ mBase' = ReadUsageBytes(s, 0)
            /\ usage' = usage /\ moved' = moved /\ tun' = tun /\ uid' = uid
            /\ source' = s /\ mixed' = mixed /\ mProfileName' = mProfileName
        BY <1>5 DEF PostStartBase, world
      <4>2. s # "none" => mBase' = Counter'
        BY <4>1 DEF ReadUsageBytes, Counter, Sources
      <4>3. SUFFICES ASSUME mProfileName \in Profiles \ mixed
                     PROVE  /\ Fits(mReceived)'
                            /\ source' # "none"
                                 => mCumulative' + Counter' <= moved'[mProfileName] + mBase'
                            /\ usage'[mProfileName] <= mCumulative' + mReceived'
        BY <4>1 DEF AccountAt
      <4>4. /\ usage[mProfileName] <= moved[mProfileName]
            /\ usage[mProfileName] \in Nat /\ moved[mProfileName] \in Nat
        BY <1>t, <2>2, <2>f, <4>3 DEF StoredFits, LedgerType
      <4>5. mBase' \in Nat
        BY <1>u DEF CountType
      <4>6. QED BY <2>f, <4>1, <4>2, <4>4, <4>5 DEF Fits
    <3>7. QED BY <3>1, <3>2, <3>3, <3>4, <3>5, <3>6 DEF CalmAt
  <2>4. StoredFits'
    BY <1>5, <2>2 DEF PostStartBase, StoredFits
  <2>5. QED BY <1>o, <2>1, <2>3, <2>4, MainIs, CalmFrom
<1>6. ASSUME NEW s \in Sources, TickSample(s) PROVE Calm'
  <2>1. /\ at[Main] = "idle" /\ at'[Main] = "store"
        /\ Alone(Main) /\ Alone(Main)'
    BY <1>t, <1>o, <1>6, MainIs, OnlyOne DEF TickSample, Place
  <2>2. CalmAt("idle", save[Main]) /\ StoredFits
    BY <1>c, <2>1, MainIs DEF Calm
  <2>f. /\ mTunnelUp /\ mRunning /\ mProfileName \in Profiles /\ metered = mProfileName
        /\ ~pending
    BY <1>t, <1>6, <2>2, MainIs, UsageNamesAssumption DEF TickSample, CalmAt,
        SessionAt, NameAt, QueueAt, ClearAt, Stopping, Ticking, Counting,
        Saving, Forgotten, Unposted, CountType
  <2>3. CalmAt("store", save[Main])'
    <3>1. SessionAt("store", save[Main])'
      BY <1>t, <1>6, <2>2, <2>f DEF TickSample, flags, CalmAt, SessionAt,
          Stopping, Ticking, Counting, Saving, Forgotten, Unposted, FlagType,
          HistoryType
    <3>2. QueueAt("store")'
      BY <1>t, <1>6, <2>2, <2>f DEF TickSample, flags, CalmAt, QueueAt,
          SessionAt, Unposted, Forgotten, CountType
    <3>3. NameAt("store")'
      BY <1>t, <1>6, <2>2, <2>f, UsageNamesAssumption DEF TickSample, flags,
          CalmAt, NameAt, SessionAt, Counting, Forgotten, Stopping, Unposted,
          NameType, ProfileOrNone
    <3>4. ClearAt("store")'
      BY <1>t, <1>6, <2>2, <2>f DEF TickSample, flags, counts, CalmAt, ClearAt,
          SessionAt, QueueAt, NameAt, Counting, CountType
    <3>5. SaveAt("store", save[Main])'
      BY <1>t, <1>6, <2>2, <2>f, UsageNamesAssumption DEF TickSample, counts,
          CalmAt, SaveAt, SessionAt, ClearAt, Saving, SaveType, CountType,
          NameType
    <3>6. AccountAt("store")'
      <4>1. /\ mCumulative' = mCumulative /\ mReceived' = mReceived /\ mBase' = mBase
            /\ usage' = usage /\ moved' = moved /\ tun' = tun /\ uid' = uid
            /\ source' = source /\ mProfileName' = mProfileName
        BY <1>6 DEF TickSample, counts, world
      <4>2. SUFFICES ASSUME mProfileName \in Profiles \ mixed'
                     PROVE  /\ mProfileName \notin mixed /\ AccountAt("idle")
                            /\ mReceived <= sample' /\ Fits(sample)'
        BY <2>f, <4>1 DEF AccountAt, Fits, Counting, Counter
      <4>3. mProfileName \notin mixed /\ s \in {source, "none"}
        BY <1>6, <2>f, <4>2 DEF TickSample
      <4>4. AccountAt("idle")
        BY <2>2 DEF CalmAt
      <4>5. /\ mCumulative + mReceived <= moved[mProfileName]
            /\ source # "none" => /\ mBase + mReceived <= Counter
                                  /\ mCumulative + Counter <= moved[mProfileName] + mBase
            /\ moved[mProfileName] \in Nat
        BY <1>t, <2>f, <4>3, <4>4 DEF AccountAt, Fits, Counting, LedgerType
      <4>6. Counter \in Nat /\ Counter' = Counter
        BY <1>t, <4>1 DEF Counter, CountType
      <4>7. \/ s # "none" /\ ReadUsageBytes(s, mBase + mReceived) = Counter
            \/ s = "none" /\ ReadUsageBytes(s, mBase + mReceived) = mBase + mReceived
        BY <4>3 DEF ReadUsageBytes, Counter, Sources
      <4>8. mReceived <= sample' /\ mCumulative + sample' <= moved[mProfileName]
            /\ (source # "none" => mBase + sample' <= Counter)
        <5>1. CASE s # "none"
          BY <1>t, <1>6, <4>3, <4>5, <4>6, <4>7, <5>1 DEF TickSample, CountType
        <5>2. CASE s = "none"
          BY <1>t, <1>6, <4>5, <4>6, <4>7, <5>2 DEF TickSample, CountType
        <5>3. QED BY <5>1, <5>2
      <4>9. QED BY <4>1, <4>3, <4>4, <4>6, <4>8 DEF Fits
    <3>7. QED BY <3>1, <3>2, <3>3, <3>4, <3>5, <3>6 DEF CalmAt
  <2>4. StoredFits'
    BY <1>6, <2>2 DEF TickSample, StoredFits
  <2>5. QED BY <1>o, <2>1, <2>3, <2>4, MainIs, CalmFrom
<1>7. ASSUME PostStartPost PROVE Calm'
  <2>1. /\ at[Main] = "post" /\ at'[Main] = "up"
        /\ Alone(Main) /\ Alone(Main)'
    BY <1>t, <1>o, <1>7, MainIs, OnlyOne DEF PostStartPost, Place
  <2>2. CalmAt("post", save[Main]) /\ StoredFits
    BY <1>c, <2>1, MainIs DEF Calm
  <2>3. CalmAt("up", save[Main])'
    <3>1. SessionAt("up", save[Main])'
      BY <1>t, <1>7, <2>2 DEF PostStartPost, flags, locals, CalmAt, SessionAt,
          Stopping, Ticking, Counting, Saving, Forgotten, Unposted, FlagType,
          HistoryType
    <3>2. QueueAt("up")'
      BY <1>t, <1>7, <2>2 DEF PostStartPost, flags, CalmAt, QueueAt, SessionAt,
          Unposted, Forgotten, CountType
    <3>3. NameAt("up")'
      BY <1>t, <1>7, <2>2, UsageNamesAssumption DEF PostStartPost, flags,
          ledger, CalmAt, NameAt, SessionAt, Counting, Forgotten, Stopping,
          Unposted, NameType, ProfileOrNone
    <3>4. ClearAt("up")'
      BY <1>t, <1>7, <2>2 DEF PostStartPost, flags, counts, CalmAt, ClearAt,
          SessionAt, QueueAt, NameAt, Counting, CountType
    <3>5. SaveAt("up", save[Main])'
      BY <1>t, <1>7, <2>2, UsageNamesAssumption DEF PostStartPost, counts,
          locals, CalmAt, SaveAt, SessionAt, ClearAt, Saving, SaveType,
          CountType, NameType
    <3>6. AccountAt("up")'
      BY <1>t, <1>7, <2>2, UsageNamesAssumption DEF PostStartPost, flags,
          counts, locals, world, ledger, CalmAt, AccountAt, NameAt, SessionAt,
          ClearAt, Counting, Fits, Counter, CountType, LedgerType
    <3>7. QED BY <3>1, <3>2, <3>3, <3>4, <3>5, <3>6 DEF CalmAt
  <2>4. StoredFits'
    BY <1>7, <2>2 DEF PostStartPost, ledger, StoredFits
  <2>5. QED BY <1>o, <2>1, <2>3, <2>4, MainIs, CalmFrom
<1>8. ASSUME PostStartUp PROVE Calm'
  <2>1. /\ at[Main] = "up" /\ at'[Main] = "idle"
        /\ Alone(Main) /\ Alone(Main)'
    BY <1>t, <1>o, <1>8, MainIs, OnlyOne DEF PostStartUp, Place
  <2>2. CalmAt("up", save[Main]) /\ StoredFits
    BY <1>c, <2>1, MainIs DEF Calm
  <2>3. CalmAt("idle", save[Main])'
    <3>1. SessionAt("idle", save[Main])'
      BY <1>t, <1>8, <2>2 DEF PostStartUp, locals, CalmAt, SessionAt, Stopping,
          Ticking, Counting, Saving, Forgotten, Unposted, FlagType, HistoryType
    <3>2. QueueAt("idle")'
      BY <1>t, <1>8, <2>2 DEF PostStartUp, loop, CalmAt, QueueAt, SessionAt,
          Unposted, Forgotten, CountType
    <3>3. NameAt("idle")'
      BY <1>t, <1>8, <2>2, UsageNamesAssumption DEF PostStartUp, ledger,
          CalmAt, NameAt, SessionAt, Counting, Forgotten, Stopping, Unposted,
          NameType, ProfileOrNone
    <3>4. ClearAt("idle")'
      BY <1>t, <1>8, <2>2 DEF PostStartUp, counts, CalmAt, ClearAt, SessionAt,
          QueueAt, NameAt, Counting, CountType
    <3>5. SaveAt("idle", save[Main])'
      BY <1>t, <1>8, <2>2, UsageNamesAssumption DEF PostStartUp, counts,
          locals, CalmAt, SaveAt, SessionAt, ClearAt, Saving, SaveType,
          CountType, NameType
    <3>6. AccountAt("idle")'
      BY <1>t, <1>8, <2>2, UsageNamesAssumption DEF PostStartUp, counts,
          locals, world, ledger, CalmAt, AccountAt, NameAt, SessionAt, ClearAt,
          Counting, Fits, Counter, CountType, LedgerType
    <3>7. QED BY <3>1, <3>2, <3>3, <3>4, <3>5, <3>6 DEF CalmAt
  <2>4. StoredFits'
    BY <1>8, <2>2 DEF PostStartUp, ledger, StoredFits
  <2>5. QED BY <1>o, <2>1, <2>3, <2>4, MainIs, CalmFrom
<1>9. ASSUME SetVerified PROVE Calm'
  <2>1. \A t \in Threads : Alone(t)' => Alone(t)
    BY <1>9 DEF SetVerified, Alone
  <2>2. ASSUME NEW t \in Threads, CalmAt(at[t], save[t]) PROVE CalmAt(at[t], save[t])'
    BY <1>9, <2>2 DEF SetVerified, counts, loop, locals, world, ledger, CalmAt,
       SessionAt, QueueAt, NameAt, ClearAt, SaveAt, AccountAt, Stopping, Ticking,
       Counting, Fits, Counter
  <2>3. StoredFits'
    BY <1>9, <1>c DEF SetVerified, ledger, Calm, StoredFits
  <2>4. QED BY <1>o, <1>c, <2>1, <2>2, <2>3 DEF Calm
<1>10. ASSUME TickStore PROVE Calm'
  <2>1. CASE mRunning
    <3>1. /\ at[Main] = "store" /\ at'[Main] = "live"
          /\ Alone(Main) /\ Alone(Main)'
      BY <1>t, <1>o, <1>10, <2>1, MainIs, OnlyOne DEF TickStore, Place
    <3>2. CalmAt("store", save[Main]) /\ StoredFits
      BY <1>c, <3>1, MainIs DEF Calm
    <3>f. mTunnelUp /\ mRunning /\ mProfileName \in Profiles
      BY <1>t, <1>10, <2>1, <3>2, MainIs, UsageNamesAssumption DEF TickStore, CalmAt,
          SessionAt, NameAt, QueueAt, ClearAt, Stopping, Ticking, Counting,
          Saving, Forgotten, Unposted
    <3>3. CalmAt("live", save[Main])'
      <4>1. SessionAt("live", save[Main])'
        BY <1>t, <1>10, <2>1, <3>2, <3>f DEF TickStore, flags, CalmAt, SessionAt,
            Stopping, Ticking, Counting, Saving, Forgotten, Unposted, FlagType,
            HistoryType
      <4>2. QueueAt("live")'
        BY <1>t, <1>10, <2>1, <3>2, <3>f DEF TickStore, flags, CalmAt, QueueAt,
            SessionAt, Unposted, Forgotten, CountType
      <4>3. NameAt("live")'
        BY <1>t, <1>10, <2>1, <3>2, <3>f, UsageNamesAssumption DEF TickStore, flags,
            ledger, CalmAt, NameAt, SessionAt, Counting, Forgotten, Stopping,
            Unposted, NameType, ProfileOrNone
      <4>4. ClearAt("live")'
        BY <1>t, <1>10, <2>1, <3>2, <3>f DEF TickStore, flags, CalmAt, ClearAt,
            SessionAt, QueueAt, NameAt, Counting, CountType
      <4>5. SaveAt("live", save[Main])'
        BY <1>t, <1>10, <2>1, <3>2, <3>f, UsageNamesAssumption DEF TickStore, CalmAt,
            SaveAt, SessionAt, ClearAt, Saving, SaveType, CountType, NameType
      <4>6. AccountAt("live")'
        BY <1>t, <1>10, <2>1, <3>2, <3>f, UsageNamesAssumption DEF TickStore, flags,
            world, ledger, CalmAt, AccountAt, NameAt, SessionAt, ClearAt,
            Counting, Fits, Counter, CountType, LedgerType
      <4>7. QED BY <4>1, <4>2, <4>3, <4>4, <4>5, <4>6 DEF CalmAt
    <3>4. StoredFits'
      BY <1>10, <2>1, <3>2 DEF TickStore, ledger, StoredFits
    <3>5. QED BY <1>o, <3>1, <3>3, <3>4, MainIs, CalmFrom
  <2>2. CASE ~mRunning
    <3>1. /\ at[Main] = "store" /\ at'[Main] = "idle"
          /\ Alone(Main) /\ Alone(Main)'
      BY <1>t, <1>o, <1>10, <2>2, MainIs, OnlyOne DEF TickStore, Place
    <3>2. CalmAt("store", save[Main]) /\ StoredFits
      BY <1>c, <3>1, MainIs DEF Calm
    <3>f. mTunnelUp /\ mRunning /\ mProfileName \in Profiles
      BY <1>t, <1>10, <2>2, <3>2, MainIs, UsageNamesAssumption DEF TickStore, CalmAt,
          SessionAt, NameAt, QueueAt, ClearAt, Stopping, Ticking, Counting,
          Saving, Forgotten, Unposted
    <3>3. CalmAt("idle", save[Main])'
      <4>1. SessionAt("idle", save[Main])'
        BY <1>t, <1>10, <2>2, <3>2, <3>f DEF TickStore, flags, CalmAt, SessionAt,
            Stopping, Ticking, Counting, Saving, Forgotten, Unposted, FlagType,
            HistoryType
      <4>2. QueueAt("idle")'
        BY <1>t, <1>10, <2>2, <3>2, <3>f DEF TickStore, flags, CalmAt, QueueAt,
            SessionAt, Unposted, Forgotten, CountType
      <4>3. NameAt("idle")'
        BY <1>t, <1>10, <2>2, <3>2, <3>f, UsageNamesAssumption DEF TickStore, flags,
            ledger, CalmAt, NameAt, SessionAt, Counting, Forgotten, Stopping,
            Unposted, NameType, ProfileOrNone
      <4>4. ClearAt("idle")'
        BY <1>t, <1>10, <2>2, <3>2, <3>f DEF TickStore, flags, CalmAt, ClearAt,
            SessionAt, QueueAt, NameAt, Counting, CountType
      <4>5. SaveAt("idle", save[Main])'
        BY <1>t, <1>10, <2>2, <3>2, <3>f, UsageNamesAssumption DEF TickStore, CalmAt,
            SaveAt, SessionAt, ClearAt, Saving, SaveType, CountType, NameType
      <4>6. AccountAt("idle")'
        BY <1>t, <1>10, <2>2, <3>2, <3>f, UsageNamesAssumption DEF TickStore, flags,
            world, ledger, CalmAt, AccountAt, NameAt, SessionAt, ClearAt,
            Counting, Fits, Counter, CountType, LedgerType
      <4>7. QED BY <4>1, <4>2, <4>3, <4>4, <4>5, <4>6 DEF CalmAt
    <3>4. StoredFits'
      BY <1>10, <2>2, <3>2 DEF TickStore, ledger, StoredFits
    <3>5. QED BY <1>o, <3>1, <3>3, <3>4, MainIs, CalmFrom
  <2>3. QED
    BY <1>t, <1>10, <2>1, <2>2 DEF TickStore, GoTo, SaveType, FlagType
<1>11. ASSUME TickSave PROVE Calm'
  <2>1. /\ at[Main] = "live" /\ at'[Main] = "cumulative"
        /\ Alone(Main) /\ Alone(Main)'
    BY <1>t, <1>o, <1>11, MainIs, OnlyOne DEF TickSave, Place
  <2>2. CalmAt("live", save[Main]) /\ StoredFits
    BY <1>c, <2>1, MainIs DEF Calm
  <2>f. /\ mTunnelUp /\ mRunning /\ mProfileName \in Profiles
        /\ save'[Main].name = mProfileName /\ save'[Main].next = "repost"
    BY <1>t, <1>11, <2>2, MainIs, UsageNamesAssumption DEF TickSave, CalmAt,
        SessionAt, NameAt, QueueAt, ClearAt, Stopping, Ticking, Counting,
        Saving, Forgotten, Unposted, SaveType, NameType, ProfileOrNone
  <2>3. CalmAt("cumulative", save[Main])'
    <3>1. SessionAt("cumulative", save[Main])'
      BY <1>t, <1>11, <2>2, <2>f, MainIs DEF TickSave, flags, CalmAt,
          SessionAt, Stopping, Ticking, Counting, Saving, Forgotten, Unposted,
          FlagType, HistoryType
    <3>2. QueueAt("cumulative")'
      BY <1>t, <1>11, <2>2, <2>f DEF TickSave, flags, loop, CalmAt, QueueAt,
          SessionAt, Unposted, Forgotten, CountType
    <3>3. NameAt("cumulative")'
      BY <1>t, <1>11, <2>2, <2>f, UsageNamesAssumption DEF TickSave, flags,
          ledger, CalmAt, NameAt, SessionAt, Counting, Forgotten, Stopping,
          Unposted, NameType, ProfileOrNone
    <3>4. ClearAt("cumulative")'
      BY <1>t, <1>11, <2>2, <2>f DEF TickSave, flags, counts, CalmAt, ClearAt,
          SessionAt, QueueAt, NameAt, Counting, CountType
    <3>5. SaveAt("cumulative", save[Main])'
      BY <1>t, <1>11, <2>2, <2>f, MainIs, UsageNamesAssumption DEF TickSave,
          counts, CalmAt, SaveAt, SessionAt, ClearAt, Saving, SaveType,
          CountType, NameType
    <3>6. AccountAt("cumulative")'
      BY <1>t, <1>11, <2>2, <2>f, UsageNamesAssumption DEF TickSave, flags,
          counts, world, ledger, CalmAt, AccountAt, NameAt, SessionAt, ClearAt,
          Counting, Fits, Counter, CountType, LedgerType
    <3>7. QED BY <3>1, <3>2, <3>3, <3>4, <3>5, <3>6 DEF CalmAt
  <2>4. StoredFits'
    BY <1>11, <2>2 DEF TickSave, ledger, StoredFits
  <2>5. QED BY <1>o, <2>1, <2>3, <2>4, MainIs, CalmFrom
<1>12. ASSUME TickSkip PROVE Calm'
  <2>1. /\ at[Main] = "live" /\ at'[Main] = "repost"
        /\ Alone(Main) /\ Alone(Main)'
    BY <1>t, <1>o, <1>12, MainIs, OnlyOne DEF TickSkip, Place
  <2>2. CalmAt("live", save[Main]) /\ StoredFits
    BY <1>c, <2>1, MainIs DEF Calm
  <2>3. CalmAt("repost", save[Main])'
    <3>1. SessionAt("repost", save[Main])'
      BY <1>t, <1>12, <2>2 DEF TickSkip, flags, locals, CalmAt, SessionAt,
          Stopping, Ticking, Counting, Saving, Forgotten, Unposted, FlagType,
          HistoryType
    <3>2. QueueAt("repost")'
      BY <1>t, <1>12, <2>2 DEF TickSkip, flags, loop, CalmAt, QueueAt,
          SessionAt, Unposted, Forgotten, CountType
    <3>3. NameAt("repost")'
      BY <1>t, <1>12, <2>2, UsageNamesAssumption DEF TickSkip, flags, ledger,
          CalmAt, NameAt, SessionAt, Counting, Forgotten, Stopping, Unposted,
          NameType, ProfileOrNone
    <3>4. ClearAt("repost")'
      BY <1>t, <1>12, <2>2 DEF TickSkip, flags, counts, CalmAt, ClearAt,
          SessionAt, QueueAt, NameAt, Counting, CountType
    <3>5. SaveAt("repost", save[Main])'
      BY <1>t, <1>12, <2>2, UsageNamesAssumption DEF TickSkip, counts, locals,
          CalmAt, SaveAt, SessionAt, ClearAt, Saving, SaveType, CountType,
          NameType
    <3>6. AccountAt("repost")'
      BY <1>t, <1>12, <2>2, UsageNamesAssumption DEF TickSkip, flags, counts,
          locals, world, ledger, CalmAt, AccountAt, NameAt, SessionAt, ClearAt,
          Counting, Fits, Counter, CountType, LedgerType
    <3>7. QED BY <3>1, <3>2, <3>3, <3>4, <3>5, <3>6 DEF CalmAt
  <2>4. StoredFits'
    BY <1>12, <2>2 DEF TickSkip, ledger, StoredFits
  <2>5. QED BY <1>o, <2>1, <2>3, <2>4, MainIs, CalmFrom
<1>13. ASSUME TickRepost PROVE Calm'
  <2>1. /\ at[Main] = "repost" /\ at'[Main] = "idle"
        /\ Alone(Main) /\ Alone(Main)'
    BY <1>t, <1>o, <1>13, MainIs, OnlyOne DEF TickRepost, Place
  <2>2. CalmAt("repost", save[Main]) /\ StoredFits
    BY <1>c, <2>1, MainIs DEF Calm
  <2>f. mTunnelUp
    BY <1>t, <1>13, <2>2, MainIs, UsageNamesAssumption DEF TickRepost, CalmAt,
        SessionAt, NameAt, QueueAt, ClearAt, Stopping, Ticking, Counting,
        Saving, Forgotten, Unposted
  <2>3. CalmAt("idle", save[Main])'
    <3>1. SessionAt("idle", save[Main])'
      BY <1>t, <1>13, <2>2, <2>f DEF TickRepost, flags, locals, CalmAt,
          SessionAt, Stopping, Ticking, Counting, Saving, Forgotten, Unposted,
          FlagType, HistoryType
    <3>2. QueueAt("idle")'
      BY <1>t, <1>13, <2>2, <2>f DEF TickRepost, flags, CalmAt, QueueAt,
          SessionAt, Unposted, Forgotten, CountType
    <3>3. NameAt("idle")'
      BY <1>t, <1>13, <2>2, <2>f, UsageNamesAssumption DEF TickRepost, flags,
          ledger, CalmAt, NameAt, SessionAt, Counting, Forgotten, Stopping,
          Unposted, NameType, ProfileOrNone
    <3>4. ClearAt("idle")'
      BY <1>t, <1>13, <2>2, <2>f DEF TickRepost, flags, counts, CalmAt,
          ClearAt, SessionAt, QueueAt, NameAt, Counting, CountType
    <3>5. SaveAt("idle", save[Main])'
      BY <1>t, <1>13, <2>2, <2>f, UsageNamesAssumption DEF TickRepost, counts,
          locals, CalmAt, SaveAt, SessionAt, ClearAt, Saving, SaveType,
          CountType, NameType
    <3>6. AccountAt("idle")'
      BY <1>t, <1>13, <2>2, <2>f, UsageNamesAssumption DEF TickRepost, flags,
          counts, locals, world, ledger, CalmAt, AccountAt, NameAt, SessionAt,
          ClearAt, Counting, Fits, Counter, CountType, LedgerType
    <3>7. QED BY <3>1, <3>2, <3>3, <3>4, <3>5, <3>6 DEF CalmAt
  <2>4. StoredFits'
    BY <1>13, <2>2 DEF TickRepost, ledger, StoredFits
  <2>5. QED BY <1>o, <2>1, <2>3, <2>4, MainIs, CalmFrom
<1>14. ASSUME OnDestroy PROVE Calm'
  <2>1. /\ at[Main] = "idle" /\ at'[Main] = "name"
        /\ Alone(Main) /\ Alone(Main)'
    BY <1>t, <1>o, <1>14, MainIs, OnlyOne DEF OnDestroy, Place
  <2>2. CalmAt("idle", save[Main]) /\ StoredFits
    BY <1>c, <2>1, MainIs DEF Calm
  <2>3. CalmAt("name", save[Main])'
    <3>1. SessionAt("name", save[Main])'
      BY <1>t, <1>14, <2>2 DEF OnDestroy, locals, CalmAt, SessionAt, Stopping,
          Ticking, Counting, Saving, Forgotten, Unposted, FlagType, HistoryType
    <3>2. QueueAt("name")'
      BY <1>t, <1>14, <2>2 DEF OnDestroy, loop, CalmAt, QueueAt, SessionAt,
          Unposted, Forgotten, CountType
    <3>3. NameAt("name")'
      BY <1>t, <1>14, <2>2, UsageNamesAssumption DEF OnDestroy, ledger, CalmAt,
          NameAt, SessionAt, Counting, Forgotten, Stopping, Unposted, NameType,
          ProfileOrNone
    <3>4. ClearAt("name")'
      BY <1>t, <1>14, <2>2 DEF OnDestroy, counts, CalmAt, ClearAt, SessionAt,
          QueueAt, NameAt, Counting, CountType
    <3>5. SaveAt("name", save[Main])'
      BY <1>t, <1>14, <2>2, UsageNamesAssumption DEF OnDestroy, counts, locals,
          CalmAt, SaveAt, SessionAt, ClearAt, Saving, SaveType, CountType,
          NameType
    <3>6. AccountAt("name")'
      BY <1>t, <1>14, <2>2, UsageNamesAssumption DEF OnDestroy, counts, locals,
          world, ledger, CalmAt, AccountAt, NameAt, SessionAt, ClearAt,
          Counting, Fits, Counter, CountType, LedgerType
    <3>7. QED BY <3>1, <3>2, <3>3, <3>4, <3>5, <3>6 DEF CalmAt
  <2>4. StoredFits'
    BY <1>14, <2>2 DEF OnDestroy, ledger, StoredFits
  <2>5. QED BY <1>o, <2>1, <2>3, <2>4, MainIs, CalmFrom
<1>15. ASSUME NEW t \in Threads, PersistCumulative(t) PROVE Calm'
  <2>1. /\ at[t] = "cumulative" /\ at'[t] = "received"
        /\ Alone(t) /\ Alone(t)'
    BY <1>t, <1>o, <1>15, MainIs, OnlyOne DEF PersistCumulative, Place
  <2>2. CalmAt("cumulative", save[t]) /\ StoredFits
    BY <1>c, <2>1, MainIs DEF Calm
  <2>3. CalmAt("received", save[t])'
    <3>1. SessionAt("received", save[t])'
      BY <1>t, <1>15, <2>2, MainIs DEF PersistCumulative, flags, CalmAt,
          SessionAt, Stopping, Ticking, Counting, Saving, Forgotten, Unposted,
          FlagType, HistoryType
    <3>2. QueueAt("received")'
      BY <1>t, <1>15, <2>2 DEF PersistCumulative, flags, loop, CalmAt, QueueAt,
          SessionAt, Unposted, Forgotten, CountType
    <3>3. NameAt("received")'
      BY <1>t, <1>15, <2>2, UsageNamesAssumption DEF PersistCumulative, flags,
          ledger, CalmAt, NameAt, SessionAt, Counting, Forgotten, Stopping,
          Unposted, NameType, ProfileOrNone
    <3>4. ClearAt("received")'
      BY <1>t, <1>15, <2>2 DEF PersistCumulative, flags, counts, CalmAt,
          ClearAt, SessionAt, QueueAt, NameAt, Counting, CountType
    <3>5. SaveAt("received", save[t])'
      BY <1>t, <1>15, <2>2, MainIs, UsageNamesAssumption DEF PersistCumulative,
          counts, CalmAt, SaveAt, SessionAt, ClearAt, Saving, SaveType,
          CountType, NameType
    <3>6. AccountAt("received")'
      BY <1>t, <1>15, <2>2, UsageNamesAssumption DEF PersistCumulative, flags,
          counts, world, ledger, CalmAt, AccountAt, NameAt, SessionAt, ClearAt,
          Counting, Fits, Counter, CountType, LedgerType
    <3>7. QED BY <3>1, <3>2, <3>3, <3>4, <3>5, <3>6 DEF CalmAt
  <2>4. StoredFits'
    BY <1>15, <2>2 DEF PersistCumulative, ledger, StoredFits
  <2>5. QED BY <1>o, <2>1, <2>3, <2>4, MainIs, CalmFrom
<1>16. ASSUME NEW t \in Threads, PersistReceived(t) PROVE Calm'
  <2>1. /\ at[t] = "received" /\ at'[t] = "commit"
        /\ Alone(t) /\ Alone(t)'
    BY <1>t, <1>o, <1>16, MainIs, OnlyOne DEF PersistReceived, Place
  <2>2. CalmAt("received", save[t]) /\ StoredFits
    BY <1>c, <2>1, MainIs DEF Calm
  <2>3. CalmAt("commit", save[t])'
    <3>1. SessionAt("commit", save[t])'
      BY <1>t, <1>16, <2>2, MainIs DEF PersistReceived, flags, CalmAt,
          SessionAt, Stopping, Ticking, Counting, Saving, Forgotten, Unposted,
          FlagType, HistoryType
    <3>2. QueueAt("commit")'
      BY <1>t, <1>16, <2>2 DEF PersistReceived, flags, loop, CalmAt, QueueAt,
          SessionAt, Unposted, Forgotten, CountType
    <3>3. NameAt("commit")'
      BY <1>t, <1>16, <2>2, UsageNamesAssumption DEF PersistReceived, flags,
          ledger, CalmAt, NameAt, SessionAt, Counting, Forgotten, Stopping,
          Unposted, NameType, ProfileOrNone
    <3>4. ClearAt("commit")'
      BY <1>t, <1>16, <2>2 DEF PersistReceived, flags, counts, CalmAt, ClearAt,
          SessionAt, QueueAt, NameAt, Counting, CountType
    <3>5. SaveAt("commit", save[t])'
      BY <1>t, <1>16, <2>2, MainIs, UsageNamesAssumption DEF PersistReceived,
          counts, CalmAt, SaveAt, SessionAt, ClearAt, Saving, SaveType,
          CountType, NameType
    <3>6. AccountAt("commit")'
      BY <1>t, <1>16, <2>2, UsageNamesAssumption DEF PersistReceived, flags,
          counts, world, ledger, CalmAt, AccountAt, NameAt, SessionAt, ClearAt,
          Counting, Fits, Counter, CountType, LedgerType
    <3>7. QED BY <3>1, <3>2, <3>3, <3>4, <3>5, <3>6 DEF CalmAt
  <2>4. StoredFits'
    BY <1>16, <2>2 DEF PersistReceived, ledger, StoredFits
  <2>5. QED BY <1>o, <2>1, <2>3, <2>4, MainIs, CalmFrom
<1>17. ASSUME NEW t \in Threads, PersistCommit(t) PROVE Calm'
  <2>1. CASE save[t].next = "repost"
    <3>1. /\ at[t] = "commit" /\ at'[t] = "repost"
          /\ Alone(t) /\ Alone(t)'
      BY <1>t, <1>o, <1>17, <2>1, MainIs, OnlyOne DEF PersistCommit, Place
    <3>2. CalmAt("commit", save[t]) /\ StoredFits
      BY <1>c, <3>1, MainIs DEF Calm
    <3>f. /\ mProfileName \in Profiles /\ save[t].name = mProfileName
          /\ save[t].total = mCumulative + mReceived
      BY <1>t, <1>17, <2>1, <3>2, MainIs, UsageNamesAssumption DEF PersistCommit,
          CalmAt, SessionAt, NameAt, QueueAt, ClearAt, Stopping, Ticking,
          Counting, Saving, Forgotten, Unposted, SaveAt
    <3>3. CalmAt("repost", save[t])'
      <4>1. SessionAt("repost", save[t])'
        BY <1>t, <1>17, <2>1, <3>2, <3>f, MainIs DEF PersistCommit, flags, CalmAt,
            SessionAt, Stopping, Ticking, Counting, Saving, Forgotten, Unposted,
            FlagType, HistoryType
      <4>2. QueueAt("repost")'
        BY <1>t, <1>17, <2>1, <3>2, <3>f DEF PersistCommit, flags, loop, CalmAt,
            QueueAt, SessionAt, Unposted, Forgotten, CountType
      <4>3. NameAt("repost")'
        BY <1>t, <1>17, <2>1, <3>2, <3>f, UsageNamesAssumption DEF PersistCommit,
            flags, ledger, CalmAt, NameAt, SessionAt, Counting, Forgotten,
            Stopping, Unposted, NameType, ProfileOrNone
      <4>4. ClearAt("repost")'
        BY <1>t, <1>17, <2>1, <3>2, <3>f DEF PersistCommit, flags, counts, CalmAt,
            ClearAt, SessionAt, QueueAt, NameAt, Counting, CountType
      <4>5. SaveAt("repost", save[t])'
        BY <1>t, <1>17, <2>1, <3>2, <3>f, MainIs, UsageNamesAssumption DEF
            PersistCommit, counts, CalmAt, SaveAt, SessionAt, ClearAt, Saving,
            SaveType, CountType, NameType
      <4>6. AccountAt("repost")'
        BY <1>t, <1>17, <2>1, <3>2, <3>f, UsageNamesAssumption DEF PersistCommit,
            flags, counts, world, ledger, CalmAt, AccountAt, NameAt, SessionAt,
            ClearAt, Counting, Fits, Counter, CountType, LedgerType
      <4>7. QED BY <4>1, <4>2, <4>3, <4>4, <4>5, <4>6 DEF CalmAt
    <3>4. StoredFits'
      <4>1. mCumulative + mReceived <= moved[mProfileName] \/ mProfileName \in mixed
        <5>1. CASE Counting("commit")
          BY <3>2, <3>f, <5>1 DEF CalmAt, AccountAt, Fits
        <5>2. CASE ~Counting("commit")
          BY <1>t, <3>2, <3>f, <5>2 DEF CalmAt, ClearAt, LedgerType
        <5>3. QED BY <5>1, <5>2
      <4>2. /\ usage' = [usage EXCEPT ![mProfileName] = mCumulative + mReceived]
            /\ moved' = moved /\ mixed' = mixed
        BY <1>17, <2>1, <3>f DEF PersistCommit, ledger
      <4>3. QED BY <1>t, <3>2, <4>1, <4>2 DEF StoredFits, LedgerType
    <3>5. QED BY <1>o, <3>1, <3>3, <3>4, MainIs, CalmFrom
  <2>2. CASE save[t].next = "unpost"
    <3>1. /\ at[t] = "commit" /\ at'[t] = "unpost"
          /\ Alone(t) /\ Alone(t)'
      BY <1>t, <1>o, <1>17, <2>2, MainIs, OnlyOne DEF PersistCommit, Place
    <3>2. CalmAt("commit", save[t]) /\ StoredFits
      BY <1>c, <3>1, MainIs DEF Calm
    <3>f. /\ mProfileName \in Profiles /\ save[t].name = mProfileName
          /\ save[t].total = mCumulative + mReceived
      BY <1>t, <1>17, <2>2, <3>2, MainIs, UsageNamesAssumption DEF PersistCommit,
          CalmAt, SessionAt, NameAt, QueueAt, ClearAt, Stopping, Ticking,
          Counting, Saving, Forgotten, Unposted, SaveAt
    <3>3. CalmAt("unpost", save[t])'
      <4>1. SessionAt("unpost", save[t])'
        BY <1>t, <1>17, <2>2, <3>2, <3>f, MainIs DEF PersistCommit, flags, CalmAt,
            SessionAt, Stopping, Ticking, Counting, Saving, Forgotten, Unposted,
            FlagType, HistoryType
      <4>2. QueueAt("unpost")'
        BY <1>t, <1>17, <2>2, <3>2, <3>f DEF PersistCommit, flags, loop, CalmAt,
            QueueAt, SessionAt, Unposted, Forgotten, CountType
      <4>3. NameAt("unpost")'
        BY <1>t, <1>17, <2>2, <3>2, <3>f, UsageNamesAssumption DEF PersistCommit,
            flags, ledger, CalmAt, NameAt, SessionAt, Counting, Forgotten,
            Stopping, Unposted, NameType, ProfileOrNone
      <4>4. ClearAt("unpost")'
        BY <1>t, <1>17, <2>2, <3>2, <3>f DEF PersistCommit, flags, counts, CalmAt,
            ClearAt, SessionAt, QueueAt, NameAt, Counting, CountType
      <4>5. SaveAt("unpost", save[t])'
        BY <1>t, <1>17, <2>2, <3>2, <3>f, MainIs, UsageNamesAssumption DEF
            PersistCommit, counts, CalmAt, SaveAt, SessionAt, ClearAt, Saving,
            SaveType, CountType, NameType
      <4>6. AccountAt("unpost")'
        BY <1>t, <1>17, <2>2, <3>2, <3>f, UsageNamesAssumption DEF PersistCommit,
            flags, counts, world, ledger, CalmAt, AccountAt, NameAt, SessionAt,
            ClearAt, Counting, Fits, Counter, CountType, LedgerType
      <4>7. QED BY <4>1, <4>2, <4>3, <4>4, <4>5, <4>6 DEF CalmAt
    <3>4. StoredFits'
      <4>1. mCumulative + mReceived <= moved[mProfileName] \/ mProfileName \in mixed
        <5>1. CASE Counting("commit")
          BY <3>2, <3>f, <5>1 DEF CalmAt, AccountAt, Fits
        <5>2. CASE ~Counting("commit")
          BY <1>t, <3>2, <3>f, <5>2 DEF CalmAt, ClearAt, LedgerType
        <5>3. QED BY <5>1, <5>2
      <4>2. /\ usage' = [usage EXCEPT ![mProfileName] = mCumulative + mReceived]
            /\ moved' = moved /\ mixed' = mixed
        BY <1>17, <2>2, <3>f DEF PersistCommit, ledger
      <4>3. QED BY <1>t, <3>2, <4>1, <4>2 DEF StoredFits, LedgerType
    <3>5. QED BY <1>o, <3>1, <3>3, <3>4, MainIs, CalmFrom
  <2>3. QED
    BY <1>t, <1>17, <2>1, <2>2 DEF PersistCommit, GoTo, SaveType, FlagType
<1>18. ASSUME NEW t \in Threads, StopClaim(t) PROVE Calm'
  <2>1. /\ at[t] = "idle" /\ at'[t] = "name"
        /\ Alone(t) /\ Alone(t)'
    BY <1>t, <1>o, <1>18, MainIs, OnlyOne DEF StopClaim, Place
  <2>2. CalmAt("idle", save[t]) /\ StoredFits
    BY <1>c, <2>1, MainIs DEF Calm
  <2>3. CalmAt("name", save[t])'
    <3>1. SessionAt("name", save[t])'
      BY <1>t, <1>18, <2>2 DEF StopClaim, locals, CalmAt, SessionAt, Stopping,
          Ticking, Counting, Saving, Forgotten, Unposted, FlagType, HistoryType
    <3>2. QueueAt("name")'
      BY <1>t, <1>18, <2>2 DEF StopClaim, loop, CalmAt, QueueAt, SessionAt,
          Unposted, Forgotten, CountType
    <3>3. NameAt("name")'
      BY <1>t, <1>18, <2>2, UsageNamesAssumption DEF StopClaim, ledger, CalmAt,
          NameAt, SessionAt, Counting, Forgotten, Stopping, Unposted, NameType,
          ProfileOrNone
    <3>4. ClearAt("name")'
      BY <1>t, <1>18, <2>2 DEF StopClaim, counts, CalmAt, ClearAt, SessionAt,
          QueueAt, NameAt, Counting, CountType
    <3>5. SaveAt("name", save[t])'
      BY <1>t, <1>18, <2>2, UsageNamesAssumption DEF StopClaim, counts, locals,
          CalmAt, SaveAt, SessionAt, ClearAt, Saving, SaveType, CountType,
          NameType
    <3>6. AccountAt("name")'
      BY <1>t, <1>18, <2>2, UsageNamesAssumption DEF StopClaim, counts, locals,
          world, ledger, CalmAt, AccountAt, NameAt, SessionAt, ClearAt,
          Counting, Fits, Counter, CountType, LedgerType
    <3>7. QED BY <3>1, <3>2, <3>3, <3>4, <3>5, <3>6 DEF CalmAt
  <2>4. StoredFits'
    BY <1>18, <2>2 DEF StopClaim, ledger, StoredFits
  <2>5. QED BY <1>o, <2>1, <2>3, <2>4, MainIs, CalmFrom
<1>19. ASSUME NEW t \in Threads, StopSave(t) PROVE Calm'
  <2>1. /\ at[t] = "name" /\ at'[t] = "cumulative"
        /\ Alone(t) /\ Alone(t)'
    BY <1>t, <1>o, <1>19, MainIs, OnlyOne DEF StopSave, Place
  <2>2. CalmAt("name", save[t]) /\ StoredFits
    BY <1>c, <2>1, MainIs DEF Calm
  <2>f. /\ ~mRunning /\ mProfileName \in Profiles
        /\ save'[t].name = mProfileName /\ save'[t].next = "unpost"
    BY <1>t, <1>19, <2>2, MainIs, UsageNamesAssumption DEF StopSave, CalmAt,
        SessionAt, NameAt, QueueAt, ClearAt, Stopping, Ticking, Counting,
        Saving, Forgotten, Unposted, SaveType, NameType, ProfileOrNone
  <2>3. CalmAt("cumulative", save[t])'
    <3>1. SessionAt("cumulative", save[t])'
      BY <1>t, <1>19, <2>2, <2>f, MainIs DEF StopSave, flags, CalmAt,
          SessionAt, Stopping, Ticking, Counting, Saving, Forgotten, Unposted,
          FlagType, HistoryType
    <3>2. QueueAt("cumulative")'
      BY <1>t, <1>19, <2>2, <2>f DEF StopSave, flags, loop, CalmAt, QueueAt,
          SessionAt, Unposted, Forgotten, CountType
    <3>3. NameAt("cumulative")'
      BY <1>t, <1>19, <2>2, <2>f, UsageNamesAssumption DEF StopSave, flags,
          ledger, CalmAt, NameAt, SessionAt, Counting, Forgotten, Stopping,
          Unposted, NameType, ProfileOrNone
    <3>4. ClearAt("cumulative")'
      BY <1>t, <1>19, <2>2, <2>f DEF StopSave, flags, counts, CalmAt, ClearAt,
          SessionAt, QueueAt, NameAt, Counting, CountType
    <3>5. SaveAt("cumulative", save[t])'
      BY <1>t, <1>19, <2>2, <2>f, MainIs, UsageNamesAssumption DEF StopSave,
          counts, CalmAt, SaveAt, SessionAt, ClearAt, Saving, SaveType,
          CountType, NameType
    <3>6. AccountAt("cumulative")'
      BY <1>t, <1>19, <2>2, <2>f, UsageNamesAssumption DEF StopSave, flags,
          counts, world, ledger, CalmAt, AccountAt, NameAt, SessionAt, ClearAt,
          Counting, Fits, Counter, CountType, LedgerType
    <3>7. QED BY <3>1, <3>2, <3>3, <3>4, <3>5, <3>6 DEF CalmAt
  <2>4. StoredFits'
    BY <1>19, <2>2 DEF StopSave, ledger, StoredFits
  <2>5. QED BY <1>o, <2>1, <2>3, <2>4, MainIs, CalmFrom
<1>20. ASSUME NEW t \in Threads, StopNoSave(t) PROVE Calm'
  <2>1. /\ at[t] = "name" /\ at'[t] = "unpost"
        /\ Alone(t) /\ Alone(t)'
    BY <1>t, <1>o, <1>20, MainIs, OnlyOne DEF StopNoSave, Place
  <2>2. CalmAt("name", save[t]) /\ StoredFits
    BY <1>c, <2>1, MainIs DEF Calm
  <2>3. CalmAt("unpost", save[t])'
    <3>1. SessionAt("unpost", save[t])'
      BY <1>t, <1>20, <2>2 DEF StopNoSave, flags, locals, CalmAt, SessionAt,
          Stopping, Ticking, Counting, Saving, Forgotten, Unposted, FlagType,
          HistoryType
    <3>2. QueueAt("unpost")'
      BY <1>t, <1>20, <2>2 DEF StopNoSave, flags, loop, CalmAt, QueueAt,
          SessionAt, Unposted, Forgotten, CountType
    <3>3. NameAt("unpost")'
      BY <1>t, <1>20, <2>2, UsageNamesAssumption DEF StopNoSave, flags, ledger,
          CalmAt, NameAt, SessionAt, Counting, Forgotten, Stopping, Unposted,
          NameType, ProfileOrNone
    <3>4. ClearAt("unpost")'
      BY <1>t, <1>20, <2>2 DEF StopNoSave, flags, counts, CalmAt, ClearAt,
          SessionAt, QueueAt, NameAt, Counting, CountType
    <3>5. SaveAt("unpost", save[t])'
      BY <1>t, <1>20, <2>2, UsageNamesAssumption DEF StopNoSave, counts,
          locals, CalmAt, SaveAt, SessionAt, ClearAt, Saving, SaveType,
          CountType, NameType
    <3>6. AccountAt("unpost")'
      BY <1>t, <1>20, <2>2, UsageNamesAssumption DEF StopNoSave, flags, counts,
          locals, world, ledger, CalmAt, AccountAt, NameAt, SessionAt, ClearAt,
          Counting, Fits, Counter, CountType, LedgerType
    <3>7. QED BY <3>1, <3>2, <3>3, <3>4, <3>5, <3>6 DEF CalmAt
  <2>4. StoredFits'
    BY <1>20, <2>2 DEF StopNoSave, ledger, StoredFits
  <2>5. QED BY <1>o, <2>1, <2>3, <2>4, MainIs, CalmFrom
<1>21. ASSUME NEW t \in Threads, StopUnpost(t) PROVE Calm'
  <2>1. CASE GoTo(t, "unpost", "forget")
    <3>1. /\ at[t] = "unpost" /\ at'[t] = "forget"
          /\ Alone(t) /\ Alone(t)'
      BY <1>t, <1>o, <1>21, <2>1, MainIs, OnlyOne DEF StopUnpost, Place
    <3>2. CalmAt("unpost", save[t]) /\ StoredFits
      BY <1>c, <3>1, MainIs DEF Calm
    <3>3. CalmAt("forget", save[t])'
      <4>1. SessionAt("forget", save[t])'
        BY <1>t, <1>21, <2>1, <3>2 DEF StopUnpost, flags, locals, CalmAt, SessionAt,
            Stopping, Ticking, Counting, Saving, Forgotten, Unposted, FlagType,
            HistoryType
      <4>2. QueueAt("forget")'
        BY <1>t, <1>21, <2>1, <3>2 DEF StopUnpost, flags, CalmAt, QueueAt, SessionAt,
            Unposted, Forgotten, CountType
      <4>3. NameAt("forget")'
        BY <1>t, <1>21, <2>1, <3>2, UsageNamesAssumption DEF StopUnpost, flags, ledger,
            CalmAt, NameAt, SessionAt, Counting, Forgotten, Stopping, Unposted,
            NameType, ProfileOrNone
      <4>4. ClearAt("forget")'
        BY <1>t, <1>21, <2>1, <3>2 DEF StopUnpost, flags, counts, CalmAt, ClearAt,
            SessionAt, QueueAt, NameAt, Counting, CountType
      <4>5. SaveAt("forget", save[t])'
        BY <1>t, <1>21, <2>1, <3>2, UsageNamesAssumption DEF StopUnpost, counts,
            locals, CalmAt, SaveAt, SessionAt, ClearAt, Saving, SaveType,
            CountType, NameType
      <4>6. AccountAt("forget")'
        BY <1>t, <1>21, <2>1, <3>2, UsageNamesAssumption DEF StopUnpost, flags, counts,
            locals, world, ledger, CalmAt, AccountAt, NameAt, SessionAt, ClearAt,
            Counting, Fits, Counter, CountType, LedgerType
      <4>7. QED BY <4>1, <4>2, <4>3, <4>4, <4>5, <4>6 DEF CalmAt
    <3>4. StoredFits'
      BY <1>21, <2>1, <3>2 DEF StopUnpost, ledger, StoredFits
    <3>5. QED BY <1>o, <3>1, <3>3, <3>4, MainIs, CalmFrom
  <2>2. CASE GoTo(t, "unpost2", "idle")
    <3>1. /\ at[t] = "unpost2" /\ at'[t] = "idle"
          /\ Alone(t) /\ Alone(t)'
      BY <1>t, <1>o, <1>21, <2>2, MainIs, OnlyOne DEF StopUnpost, Place
    <3>2. CalmAt("unpost2", save[t]) /\ StoredFits
      BY <1>c, <3>1, MainIs DEF Calm
    <3>3. CalmAt("idle", save[t])'
      <4>1. SessionAt("idle", save[t])'
        BY <1>t, <1>21, <2>2, <3>2 DEF StopUnpost, flags, locals, CalmAt, SessionAt,
            Stopping, Ticking, Counting, Saving, Forgotten, Unposted, FlagType,
            HistoryType
      <4>2. QueueAt("idle")'
        BY <1>t, <1>21, <2>2, <3>2 DEF StopUnpost, flags, CalmAt, QueueAt, SessionAt,
            Unposted, Forgotten, CountType
      <4>3. NameAt("idle")'
        BY <1>t, <1>21, <2>2, <3>2, UsageNamesAssumption DEF StopUnpost, flags, ledger,
            CalmAt, NameAt, SessionAt, Counting, Forgotten, Stopping, Unposted,
            NameType, ProfileOrNone
      <4>4. ClearAt("idle")'
        BY <1>t, <1>21, <2>2, <3>2 DEF StopUnpost, flags, counts, CalmAt, ClearAt,
            SessionAt, QueueAt, NameAt, Counting, CountType
      <4>5. SaveAt("idle", save[t])'
        BY <1>t, <1>21, <2>2, <3>2, UsageNamesAssumption DEF StopUnpost, counts,
            locals, CalmAt, SaveAt, SessionAt, ClearAt, Saving, SaveType,
            CountType, NameType
      <4>6. AccountAt("idle")'
        BY <1>t, <1>21, <2>2, <3>2, UsageNamesAssumption DEF StopUnpost, flags, counts,
            locals, world, ledger, CalmAt, AccountAt, NameAt, SessionAt, ClearAt,
            Counting, Fits, Counter, CountType, LedgerType
      <4>7. QED BY <4>1, <4>2, <4>3, <4>4, <4>5, <4>6 DEF CalmAt
    <3>4. StoredFits'
      BY <1>21, <2>2, <3>2 DEF StopUnpost, ledger, StoredFits
    <3>5. QED BY <1>o, <3>1, <3>3, <3>4, MainIs, CalmFrom
  <2>3. QED
    BY <1>t, <1>21, <2>1, <2>2 DEF StopUnpost, GoTo, SaveType, FlagType
<1>22. ASSUME NEW t \in Threads, StopForget(t) PROVE Calm'
  <2>1. /\ at[t] = "forget" /\ at'[t] = "halt"
        /\ Alone(t) /\ Alone(t)'
    BY <1>t, <1>o, <1>22, MainIs, OnlyOne DEF StopForget, Place
  <2>2. CalmAt("forget", save[t]) /\ StoredFits
    BY <1>c, <2>1, MainIs DEF Calm
  <2>3. CalmAt("halt", save[t])'
    <3>1. SessionAt("halt", save[t])'
      BY <1>t, <1>22, <2>2 DEF StopForget, flags, locals, CalmAt, SessionAt,
          Stopping, Ticking, Counting, Saving, Forgotten, Unposted, FlagType,
          HistoryType
    <3>2. QueueAt("halt")'
      BY <1>t, <1>22, <2>2 DEF StopForget, flags, loop, CalmAt, QueueAt,
          SessionAt, Unposted, Forgotten, CountType
    <3>3. NameAt("halt")'
      BY <1>t, <1>22, <2>2, UsageNamesAssumption DEF StopForget, flags, ledger,
          CalmAt, NameAt, SessionAt, Counting, Forgotten, Stopping, Unposted,
          NameType, ProfileOrNone
    <3>4. ClearAt("halt")'
      BY <1>t, <1>22, <2>2 DEF StopForget, flags, counts, CalmAt, ClearAt,
          SessionAt, QueueAt, NameAt, Counting, CountType
    <3>5. SaveAt("halt", save[t])'
      BY <1>t, <1>22, <2>2, UsageNamesAssumption DEF StopForget, counts,
          locals, CalmAt, SaveAt, SessionAt, ClearAt, Saving, SaveType,
          CountType, NameType
    <3>6. AccountAt("halt")'
      BY <1>t, <1>22, <2>2, UsageNamesAssumption DEF StopForget, flags, counts,
          locals, world, ledger, CalmAt, AccountAt, NameAt, SessionAt, ClearAt,
          Counting, Fits, Counter, CountType, LedgerType
    <3>7. QED BY <3>1, <3>2, <3>3, <3>4, <3>5, <3>6 DEF CalmAt
  <2>4. StoredFits'
    BY <1>22, <2>2 DEF StopForget, ledger, StoredFits
  <2>5. QED BY <1>o, <2>1, <2>3, <2>4, MainIs, CalmFrom
<1>23. ASSUME NEW t \in Threads, StopHalt(t) PROVE Calm'
  <2>1. /\ at[t] = "halt" /\ at'[t] = "zeroCumulative"
        /\ Alone(t) /\ Alone(t)'
    BY <1>t, <1>o, <1>23, MainIs, OnlyOne DEF StopHalt, Place
  <2>2. CalmAt("halt", save[t]) /\ StoredFits
    BY <1>c, <2>1, MainIs DEF Calm
  <2>3. CalmAt("zeroCumulative", save[t])'
    <3>1. SessionAt("zeroCumulative", save[t])'
      BY <1>t, <1>23, <2>2 DEF StopHalt, locals, CalmAt, SessionAt, Stopping,
          Ticking, Counting, Saving, Forgotten, Unposted, FlagType, HistoryType
    <3>2. QueueAt("zeroCumulative")'
      BY <1>t, <1>23, <2>2 DEF StopHalt, loop, CalmAt, QueueAt, SessionAt,
          Unposted, Forgotten, CountType
    <3>3. NameAt("zeroCumulative")'
      BY <1>t, <1>23, <2>2, UsageNamesAssumption DEF StopHalt, ledger, CalmAt,
          NameAt, SessionAt, Counting, Forgotten, Stopping, Unposted, NameType,
          ProfileOrNone
    <3>4. ClearAt("zeroCumulative")'
      BY <1>t, <1>23, <2>2 DEF StopHalt, counts, CalmAt, ClearAt, SessionAt,
          QueueAt, NameAt, Counting, CountType
    <3>5. SaveAt("zeroCumulative", save[t])'
      BY <1>t, <1>23, <2>2, UsageNamesAssumption DEF StopHalt, counts, locals,
          CalmAt, SaveAt, SessionAt, ClearAt, Saving, SaveType, CountType,
          NameType
    <3>6. AccountAt("zeroCumulative")'
      BY <1>t, <1>23, <2>2, UsageNamesAssumption DEF StopHalt, counts, locals,
          world, ledger, CalmAt, AccountAt, NameAt, SessionAt, ClearAt,
          Counting, Fits, Counter, CountType, LedgerType
    <3>7. QED BY <3>1, <3>2, <3>3, <3>4, <3>5, <3>6 DEF CalmAt
  <2>4. StoredFits'
    BY <1>23, <2>2 DEF StopHalt, ledger, StoredFits
  <2>5. QED BY <1>o, <2>1, <2>3, <2>4, MainIs, CalmFrom
<1>24. ASSUME NEW t \in Threads, StopCumulative(t) PROVE Calm'
  <2>1. /\ at[t] = "zeroCumulative" /\ at'[t] = "zeroReceived"
        /\ Alone(t) /\ Alone(t)'
    BY <1>t, <1>o, <1>24, MainIs, OnlyOne DEF StopCumulative, Place
  <2>2. CalmAt("zeroCumulative", save[t]) /\ StoredFits
    BY <1>c, <2>1, MainIs DEF Calm
  <2>f. mProfileName = NoProfile
    BY <1>t, <1>24, <2>2, MainIs, UsageNamesAssumption DEF StopCumulative,
        CalmAt, SessionAt, NameAt, QueueAt, ClearAt, Stopping, Ticking,
        Counting, Saving, Forgotten, Unposted
  <2>3. CalmAt("zeroReceived", save[t])'
    <3>1. SessionAt("zeroReceived", save[t])'
      BY <1>t, <1>24, <2>2, <2>f DEF StopCumulative, flags, locals, CalmAt,
          SessionAt, Stopping, Ticking, Counting, Saving, Forgotten, Unposted,
          FlagType, HistoryType
    <3>2. QueueAt("zeroReceived")'
      BY <1>t, <1>24, <2>2, <2>f DEF StopCumulative, flags, loop, CalmAt,
          QueueAt, SessionAt, Unposted, Forgotten, CountType
    <3>3. NameAt("zeroReceived")'
      BY <1>t, <1>24, <2>2, <2>f, UsageNamesAssumption DEF StopCumulative,
          flags, ledger, CalmAt, NameAt, SessionAt, Counting, Forgotten,
          Stopping, Unposted, NameType, ProfileOrNone
    <3>4. ClearAt("zeroReceived")'
      BY <1>t, <1>24, <2>2, <2>f DEF StopCumulative, flags, CalmAt, ClearAt,
          SessionAt, QueueAt, NameAt, Counting, CountType
    <3>5. SaveAt("zeroReceived", save[t])'
      BY <1>t, <1>24, <2>2, <2>f, UsageNamesAssumption DEF StopCumulative,
          locals, CalmAt, SaveAt, SessionAt, ClearAt, Saving, SaveType,
          CountType, NameType
    <3>6. AccountAt("zeroReceived")'
      BY <1>t, <1>24, <2>2, <2>f, UsageNamesAssumption DEF StopCumulative,
          flags, locals, world, ledger, CalmAt, AccountAt, NameAt, SessionAt,
          ClearAt, Counting, Fits, Counter, CountType, LedgerType
    <3>7. QED BY <3>1, <3>2, <3>3, <3>4, <3>5, <3>6 DEF CalmAt
  <2>4. StoredFits'
    BY <1>24, <2>2 DEF StopCumulative, ledger, StoredFits
  <2>5. QED BY <1>o, <2>1, <2>3, <2>4, MainIs, CalmFrom
<1>25. ASSUME NEW t \in Threads, StopReceived(t) PROVE Calm'
  <2>1. /\ at[t] = "zeroReceived" /\ at'[t] = "zeroBase"
        /\ Alone(t) /\ Alone(t)'
    BY <1>t, <1>o, <1>25, MainIs, OnlyOne DEF StopReceived, Place
  <2>2. CalmAt("zeroReceived", save[t]) /\ StoredFits
    BY <1>c, <2>1, MainIs DEF Calm
  <2>f. mProfileName = NoProfile
    BY <1>t, <1>25, <2>2, MainIs, UsageNamesAssumption DEF StopReceived,
        CalmAt, SessionAt, NameAt, QueueAt, ClearAt, Stopping, Ticking,
        Counting, Saving, Forgotten, Unposted
  <2>3. CalmAt("zeroBase", save[t])'
    <3>1. SessionAt("zeroBase", save[t])'
      BY <1>t, <1>25, <2>2, <2>f DEF StopReceived, flags, locals, CalmAt,
          SessionAt, Stopping, Ticking, Counting, Saving, Forgotten, Unposted,
          FlagType, HistoryType
    <3>2. QueueAt("zeroBase")'
      BY <1>t, <1>25, <2>2, <2>f DEF StopReceived, flags, loop, CalmAt,
          QueueAt, SessionAt, Unposted, Forgotten, CountType
    <3>3. NameAt("zeroBase")'
      BY <1>t, <1>25, <2>2, <2>f, UsageNamesAssumption DEF StopReceived, flags,
          ledger, CalmAt, NameAt, SessionAt, Counting, Forgotten, Stopping,
          Unposted, NameType, ProfileOrNone
    <3>4. ClearAt("zeroBase")'
      BY <1>t, <1>25, <2>2, <2>f DEF StopReceived, flags, CalmAt, ClearAt,
          SessionAt, QueueAt, NameAt, Counting, CountType
    <3>5. SaveAt("zeroBase", save[t])'
      BY <1>t, <1>25, <2>2, <2>f, UsageNamesAssumption DEF StopReceived,
          locals, CalmAt, SaveAt, SessionAt, ClearAt, Saving, SaveType,
          CountType, NameType
    <3>6. AccountAt("zeroBase")'
      BY <1>t, <1>25, <2>2, <2>f, UsageNamesAssumption DEF StopReceived, flags,
          locals, world, ledger, CalmAt, AccountAt, NameAt, SessionAt, ClearAt,
          Counting, Fits, Counter, CountType, LedgerType
    <3>7. QED BY <3>1, <3>2, <3>3, <3>4, <3>5, <3>6 DEF CalmAt
  <2>4. StoredFits'
    BY <1>25, <2>2 DEF StopReceived, ledger, StoredFits
  <2>5. QED BY <1>o, <2>1, <2>3, <2>4, MainIs, CalmFrom
<1>26. ASSUME NEW t \in Threads, StopBase(t) PROVE Calm'
  <2>1. /\ at[t] = "zeroBase" /\ at'[t] = "down"
        /\ Alone(t) /\ Alone(t)'
    BY <1>t, <1>o, <1>26, MainIs, OnlyOne DEF StopBase, Place
  <2>2. CalmAt("zeroBase", save[t]) /\ StoredFits
    BY <1>c, <2>1, MainIs DEF Calm
  <2>f. mProfileName = NoProfile
    BY <1>t, <1>26, <2>2, MainIs, UsageNamesAssumption DEF StopBase, CalmAt,
        SessionAt, NameAt, QueueAt, ClearAt, Stopping, Ticking, Counting,
        Saving, Forgotten, Unposted
  <2>3. CalmAt("down", save[t])'
    <3>1. SessionAt("down", save[t])'
      BY <1>t, <1>26, <2>2, <2>f DEF StopBase, flags, locals, CalmAt,
          SessionAt, Stopping, Ticking, Counting, Saving, Forgotten, Unposted,
          FlagType, HistoryType
    <3>2. QueueAt("down")'
      BY <1>t, <1>26, <2>2, <2>f DEF StopBase, flags, loop, CalmAt, QueueAt,
          SessionAt, Unposted, Forgotten, CountType
    <3>3. NameAt("down")'
      BY <1>t, <1>26, <2>2, <2>f, UsageNamesAssumption DEF StopBase, flags,
          ledger, CalmAt, NameAt, SessionAt, Counting, Forgotten, Stopping,
          Unposted, NameType, ProfileOrNone
    <3>4. ClearAt("down")'
      BY <1>t, <1>26, <2>2, <2>f DEF StopBase, flags, CalmAt, ClearAt,
          SessionAt, QueueAt, NameAt, Counting, CountType
    <3>5. SaveAt("down", save[t])'
      BY <1>t, <1>26, <2>2, <2>f, UsageNamesAssumption DEF StopBase, locals,
          CalmAt, SaveAt, SessionAt, ClearAt, Saving, SaveType, CountType,
          NameType
    <3>6. AccountAt("down")'
      BY <1>t, <1>26, <2>2, <2>f, UsageNamesAssumption DEF StopBase, flags,
          locals, world, ledger, CalmAt, AccountAt, NameAt, SessionAt, ClearAt,
          Counting, Fits, Counter, CountType, LedgerType
    <3>7. QED BY <3>1, <3>2, <3>3, <3>4, <3>5, <3>6 DEF CalmAt
  <2>4. StoredFits'
    BY <1>26, <2>2 DEF StopBase, ledger, StoredFits
  <2>5. QED BY <1>o, <2>1, <2>3, <2>4, MainIs, CalmFrom
<1>27. ASSUME NEW t \in Threads, StopDown(t) PROVE Calm'
  <2>1. /\ at[t] = "down" /\ at'[t] = "unpost2"
        /\ Alone(t) /\ Alone(t)'
    BY <1>t, <1>o, <1>27, MainIs, OnlyOne DEF StopDown, Place
  <2>2. CalmAt("down", save[t]) /\ StoredFits
    BY <1>c, <2>1, MainIs DEF Calm
  <2>3. CalmAt("unpost2", save[t])'
    <3>1. SessionAt("unpost2", save[t])'
      BY <1>t, <1>27, <2>2 DEF StopDown, locals, CalmAt, SessionAt, Stopping,
          Ticking, Counting, Saving, Forgotten, Unposted, FlagType, HistoryType
    <3>2. QueueAt("unpost2")'
      BY <1>t, <1>27, <2>2 DEF StopDown, loop, CalmAt, QueueAt, SessionAt,
          Unposted, Forgotten, CountType
    <3>3. NameAt("unpost2")'
      BY <1>t, <1>27, <2>2, UsageNamesAssumption DEF StopDown, CalmAt, NameAt,
          SessionAt, Counting, Forgotten, Stopping, Unposted, NameType,
          ProfileOrNone
    <3>4. ClearAt("unpost2")'
      BY <1>t, <1>27, <2>2 DEF StopDown, counts, CalmAt, ClearAt, SessionAt,
          QueueAt, NameAt, Counting, CountType
    <3>5. SaveAt("unpost2", save[t])'
      BY <1>t, <1>27, <2>2, UsageNamesAssumption DEF StopDown, counts, locals,
          CalmAt, SaveAt, SessionAt, ClearAt, Saving, SaveType, CountType,
          NameType
    <3>6. AccountAt("unpost2")'
      BY <1>t, <1>27, <2>2, UsageNamesAssumption DEF StopDown, counts, locals,
          world, CalmAt, AccountAt, NameAt, SessionAt, ClearAt, Counting, Fits,
          Counter, CountType, LedgerType
    <3>7. QED BY <3>1, <3>2, <3>3, <3>4, <3>5, <3>6 DEF CalmAt
  <2>4. StoredFits'
    BY <1>27, <2>2 DEF StopDown, StoredFits
  <2>5. QED BY <1>o, <2>1, <2>3, <2>4, MainIs, CalmFrom
<1>28. ASSUME Crash PROVE Calm'
  <2>1. \A t \in Threads : at'[t] = "idle"
    BY <1>28 DEF Crash
  <2>2. ASSUME NEW t \in Threads PROVE CalmAt("idle", save[t])'
    BY <1>28, UsageNamesAssumption DEF Crash, CalmAt, SessionAt, QueueAt, NameAt,
       ClearAt, SaveAt, AccountAt, Stopping, Ticking, Counting, Saving, Forgotten,
       Unposted
  <2>3. StoredFits'
    BY <1>28, <1>c DEF Crash, Calm, StoredFits
  <2>4. QED BY <1>o, <2>1, <2>2, <2>3 DEF Calm
<1>29. ASSUME Traffic PROVE Calm'
  <2>1. \A t \in Threads : Alone(t)' => Alone(t)
    BY <1>29 DEF Traffic, Alone
  <2>2. /\ \A p \in Profiles : moved[p] <= moved'[p]
        /\ mProfileName \in Profiles /\ metered = mProfileName /\ source # "none"
             => moved'[mProfileName] + Counter = moved[mProfileName] + Counter'
        /\ Counter <= Counter' /\ Counter \in Nat /\ Counter' \in Nat
    <3>1. CASE metered # NoProfile /\ source \in {"tun", "uid"}
      <4>1. moved' = [moved EXCEPT ![metered] = @ + 1] /\ Counter' = Counter + 1
        BY <1>t, <1>29, <3>1 DEF Traffic, Moves, Counter, CountType
      <4>2. metered \in Profiles /\ Counter \in Nat
        BY <1>t, <3>1 DEF NameType, ProfileOrNone, Counter, CountType
      <4>3. QED BY <1>t, <4>1, <4>2 DEF LedgerType
    <3>2. CASE ~(metered # NoProfile /\ source \in {"tun", "uid"})
      <4>1. moved' = moved
        BY <1>29, <3>2 DEF Traffic, Moves
      <4>2. /\ Counter \in Nat /\ Counter' \in Nat /\ Counter <= Counter'
            /\ metered # NoProfile /\ source # "none" => Counter' = Counter
        BY <1>t, <1>29, <3>2 DEF Traffic, Counter, CountType, NameType, Sources
      <4>3. QED BY <1>t, <4>1, <4>2, UsageNamesAssumption DEF LedgerType
    <3>3. QED BY <3>1, <3>2
  <2>3. ASSUME NEW t \in Threads, CalmAt(at[t], save[t]) PROVE CalmAt(at[t], save[t])'
    <3>1. /\ SessionAt(at[t], save[t])' /\ QueueAt(at[t])' /\ NameAt(at[t])'
          /\ ClearAt(at[t])' /\ SaveAt(at[t], save[t])'
      BY <1>29, <2>3 DEF Traffic, flags, counts, loop, locals, CalmAt, SessionAt,
         QueueAt, NameAt, ClearAt, SaveAt, Stopping, Ticking, Counting
    <3>2. AccountAt(at[t])'
      <4>1. /\ mCumulative' = mCumulative /\ mReceived' = mReceived
            /\ mBase' = mBase /\ usage' = usage /\ sample' = sample /\ at' = at
            /\ source' = source /\ mProfileName' = mProfileName /\ mixed' = mixed
            /\ mTunnelUp' = mTunnelUp
        BY <1>29 DEF Traffic, flags, counts, locals
      <4>2. SUFFICES ASSUME Counting(at[t]), mProfileName \in Profiles \ mixed
                     PROVE  /\ Fits(mReceived)'
                            /\ source # "none"
                                 => mCumulative + Counter' <= moved'[mProfileName] + mBase
                            /\ at[t] = "store" => Fits(sample)'
        BY <2>3, <4>1 DEF CalmAt, AccountAt, Counting
      <4>3. /\ Fits(mReceived) /\ metered = mProfileName
            /\ source # "none" => mCumulative + Counter <= moved[mProfileName] + mBase
            /\ at[t] = "store" => Fits(sample)
        BY <2>3, <4>2, UsageNamesAssumption DEF CalmAt, AccountAt, NameAt
      <4>4. /\ moved[mProfileName] \in Nat /\ moved'[mProfileName] \in Nat
        BY <1>t, <1>u, <4>2 DEF LedgerType
      <4>5. moved[mProfileName] <= moved'[mProfileName]
        BY <2>2, <4>2
      <4>6. source # "none"
              => moved'[mProfileName] + Counter = moved[mProfileName] + Counter'
        BY <2>2, <4>2, <4>3
      <4>7. Fits(mReceived)'
        BY <1>t, <2>2, <4>1, <4>3, <4>4, <4>5 DEF Fits, CountType
      <4>8. at[t] = "store" => Fits(sample)'
        BY <1>t, <2>2, <4>1, <4>3, <4>4, <4>5 DEF Fits, CountType
      <4>9. source # "none" => mCumulative + Counter' <= moved'[mProfileName] + mBase
        BY <1>t, <2>2, <4>3, <4>4, <4>6 DEF CountType
      <4>10. QED BY <4>7, <4>8, <4>9
    <3>3. QED BY <3>1, <3>2 DEF CalmAt
  <2>4. StoredFits'
    BY <1>t, <1>u, <1>29, <1>c, <2>2 DEF Traffic, Calm, StoredFits, LedgerType
  <2>5. QED BY <1>o, <1>c, <2>1, <2>3, <2>4 DEF Calm
<1>30. ASSUME OwnTraffic PROVE Calm'
  <2>1. \A t \in Threads : Alone(t)' => Alone(t)
    BY <1>30 DEF OwnTraffic, Alone
  <2>2. /\ \A p \in Profiles : moved[p] <= moved'[p]
        /\ mProfileName \in Profiles /\ metered = mProfileName /\ source # "none"
             => moved'[mProfileName] + Counter = moved[mProfileName] + Counter'
        /\ Counter <= Counter' /\ Counter \in Nat /\ Counter' \in Nat
    <3>1. CASE metered # NoProfile /\ source \in {"uid"}
      <4>1. moved' = [moved EXCEPT ![metered] = @ + 1] /\ Counter' = Counter + 1
        BY <1>t, <1>30, <3>1 DEF OwnTraffic, Moves, Counter, CountType
      <4>2. metered \in Profiles /\ Counter \in Nat
        BY <1>t, <3>1 DEF NameType, ProfileOrNone, Counter, CountType
      <4>3. QED BY <1>t, <4>1, <4>2 DEF LedgerType
    <3>2. CASE ~(metered # NoProfile /\ source \in {"uid"})
      <4>1. moved' = moved
        BY <1>30, <3>2 DEF OwnTraffic, Moves
      <4>2. /\ Counter \in Nat /\ Counter' \in Nat /\ Counter <= Counter'
            /\ metered # NoProfile /\ source # "none" => Counter' = Counter
        BY <1>t, <1>30, <3>2 DEF OwnTraffic, Counter, CountType, NameType, Sources
      <4>3. QED BY <1>t, <4>1, <4>2, UsageNamesAssumption DEF LedgerType
    <3>3. QED BY <3>1, <3>2
  <2>3. ASSUME NEW t \in Threads, CalmAt(at[t], save[t]) PROVE CalmAt(at[t], save[t])'
    <3>1. /\ SessionAt(at[t], save[t])' /\ QueueAt(at[t])' /\ NameAt(at[t])'
          /\ ClearAt(at[t])' /\ SaveAt(at[t], save[t])'
      BY <1>30, <2>3 DEF OwnTraffic, flags, counts, loop, locals, CalmAt, SessionAt,
         QueueAt, NameAt, ClearAt, SaveAt, Stopping, Ticking, Counting
    <3>2. AccountAt(at[t])'
      <4>1. /\ mCumulative' = mCumulative /\ mReceived' = mReceived
            /\ mBase' = mBase /\ usage' = usage /\ sample' = sample /\ at' = at
            /\ source' = source /\ mProfileName' = mProfileName /\ mixed' = mixed
            /\ mTunnelUp' = mTunnelUp
        BY <1>30 DEF OwnTraffic, flags, counts, locals
      <4>2. SUFFICES ASSUME Counting(at[t]), mProfileName \in Profiles \ mixed
                     PROVE  /\ Fits(mReceived)'
                            /\ source # "none"
                                 => mCumulative + Counter' <= moved'[mProfileName] + mBase
                            /\ at[t] = "store" => Fits(sample)'
        BY <2>3, <4>1 DEF CalmAt, AccountAt, Counting
      <4>3. /\ Fits(mReceived) /\ metered = mProfileName
            /\ source # "none" => mCumulative + Counter <= moved[mProfileName] + mBase
            /\ at[t] = "store" => Fits(sample)
        BY <2>3, <4>2, UsageNamesAssumption DEF CalmAt, AccountAt, NameAt
      <4>4. /\ moved[mProfileName] \in Nat /\ moved'[mProfileName] \in Nat
        BY <1>t, <1>u, <4>2 DEF LedgerType
      <4>5. moved[mProfileName] <= moved'[mProfileName]
        BY <2>2, <4>2
      <4>6. source # "none"
              => moved'[mProfileName] + Counter = moved[mProfileName] + Counter'
        BY <2>2, <4>2, <4>3
      <4>7. Fits(mReceived)'
        BY <1>t, <2>2, <4>1, <4>3, <4>4, <4>5 DEF Fits, CountType
      <4>8. at[t] = "store" => Fits(sample)'
        BY <1>t, <2>2, <4>1, <4>3, <4>4, <4>5 DEF Fits, CountType
      <4>9. source # "none" => mCumulative + Counter' <= moved'[mProfileName] + mBase
        BY <1>t, <2>2, <4>3, <4>4, <4>6 DEF CountType
      <4>10. QED BY <4>7, <4>8, <4>9
    <3>3. QED BY <3>1, <3>2 DEF CalmAt
  <2>4. StoredFits'
    BY <1>t, <1>u, <1>30, <1>c, <2>2 DEF OwnTraffic, Calm, StoredFits, LedgerType
  <2>5. QED BY <1>o, <1>c, <2>1, <2>3, <2>4 DEF Calm
<1>31. QED
  BY <1>1, <1>2, <1>3, <1>4, <1>5, <1>6, <1>7, <1>8, <1>9, <1>10, <1>11, <1>12,
      <1>13, <1>14, <1>15, <1>16, <1>17, <1>18, <1>19, <1>20, <1>21, <1>22,
      <1>23, <1>24, <1>25, <1>26, <1>27, <1>28, <1>29, <1>30 DEF Next, Step,
      Persist, Stop

-----------------------------------------------------------------------------
(* Theorems.                                                               *)

\* Nothing is held and nothing has been counted at first.
LEMMA UsageInit == Init => TypeParts /\ Calm
<1> SUFFICES ASSUME Init PROVE TypeParts /\ Calm
  OBVIOUS
<1>1. 0 \in 0..(PersistTicks - 1)
  BY UsageBoundsAssumption
<1>2. TypeParts
  BY <1>1 DEF Init, TypeParts, FlagType, CountType, NameType, Place, PlaceType,
              SaveType, LedgerType, HistoryType, RacedType, NoSave, ProfileOrNone,
              Sources
<1>3. ~Overlap /\ StoredFits
  BY DEF Init, Overlap, StoredFits
<1>4. ASSUME NEW t \in Threads PROVE CalmAt("idle", save[t])
  BY UsageNamesAssumption
     DEF Init, CalmAt, SessionAt, QueueAt, NameAt, ClearAt, SaveAt, AccountAt,
         Stopping, Ticking, Counting, Saving, Forgotten, Unposted
<1>5. QED BY <1>2, <1>3, <1>4 DEF Init, Calm

UsageInv == TypeParts /\ (~raced => Calm)

\* Once handlers have overlapped it stays so.
LEMMA UsageStep == UsageInv /\ [Next]_vars => UsageInv'
<1> SUFFICES ASSUME UsageInv, [Next]_vars PROVE UsageInv'
  OBVIOUS
<1>1. CASE Next
  <2>1. TypeParts'
    BY <1>1, TypeStep DEF UsageInv
  <2>2. ~raced' => ~raced
    BY <1>1 DEF Next, Record
  <2>3. ~raced' => Calm'
    BY <1>1, <2>2, CalmStep DEF UsageInv
  <2>4. QED BY <2>1, <2>3 DEF UsageInv
<1>2. CASE UNCHANGED vars
  <2>1. TypeParts'
    BY <1>2 DEF UsageInv, vars, flags, counts, loop, locals, world, ledger, TypeParts,
                FlagType, CountType, NameType, PlaceType, SaveType, LedgerType,
                HistoryType, RacedType
  <2>2. (~raced => Calm)'
    BY <1>2 DEF UsageInv, vars, flags, counts, loop, locals, world, ledger, Calm,
                Overlap, StoredFits, Alone, CalmAt, SessionAt, QueueAt, NameAt,
                ClearAt, SaveAt, AccountAt, Stopping, Ticking, Counting, Fits, Counter
  <2>3. QED BY <2>1, <2>2 DEF UsageInv
<1>3. QED BY <1>1, <1>2

LEMMA UsageInvariant == Spec => []UsageInv
<1>1. Init => UsageInv
  BY UsageInit DEF UsageInv
<1>2. QED BY <1>1, UsageStep, PTL DEF Spec

\* The service keeps its counters in their types for any mixture of kernel
\* counters, any interleaving of its threads and any number of starts and kills.
THEOREM UsageTypeCorrect == Spec => []TypeOK
<1>1. UsageInv => TypeOK
  BY TypePartsAre DEF UsageInv
<1>2. QED BY <1>1, UsageInvariant, PTL

\* Some thread is the only one in a handler.
LEMMA SomeoneAlone ==
  ASSUME ~Overlap
  PROVE  \E t \in Threads : Alone(t)
<1>1. CASE \E t \in Threads : at[t] # "idle"
  BY <1>1 DEF Overlap, Alone
<1>2. CASE \A t \in Threads : at[t] = "idle"
  BY <1>2, MainIs DEF Alone
<1>3. QED BY <1>1, <1>2

\* A profile's total never exceeds what its tunnels carried, for any traffic and
\* over any number of stops on any threads, restarts and kills.
THEOREM NoDoubleCountAlways == Spec => []NoDoubleCount
<1>1. UsageInv => NoDoubleCount
  <2> SUFFICES ASSUME UsageInv, ~raced PROVE NoDoubleCount
    BY DEF NoDoubleCount
  <2>1. Calm
    BY DEF UsageInv
  <2>2. PICK t \in Threads : CalmAt(at[t], save[t])
    BY <2>1, SomeoneAlone DEF Calm
  <2>3. mTunnelUp /\ mProfileName \in Profiles \ mixed
          => mCumulative + mReceived <= moved[mProfileName]
    BY <2>2 DEF CalmAt, AccountAt, Counting, Fits
  <2>4. QED BY <2>1, <2>3 DEF Calm, StoredFits, NoDoubleCount
<1>2. QED BY <1>1, UsageInvariant, PTL

\* While a tunnel is up, no save and no stop takes anything off a total.
THEOREM UpKeepsUsageAlways == Spec => UpKeepsUsage
<1>1. UsageInv /\ [Next]_vars
        => [(mTunnelUp /\ ~raced')
              => \A p \in Profiles \ mixed' : usage'[p] >= usage[p]]_vars
  <2> SUFFICES ASSUME UsageInv, Next, mTunnelUp, ~raced', NEW p \in Profiles \ mixed'
               PROVE  usage'[p] >= usage[p]
    OBVIOUS
  <2>1. /\ PlaceType /\ SaveType /\ LedgerType /\ usage[p] \in Nat
        /\ Calm /\ ~Overlap /\ ~Overlap'
    BY DEF UsageInv, TypeParts, LedgerType, Next, Record, Calm
  <2>2. ASSUME NEW t \in Threads, PersistCommit(t) PROVE usage'[p] >= usage[p]
    <3>1. at[t] = "commit" /\ Alone(t)
      <4>1. CASE save[t].next = "repost"
        BY <2>1, <2>2, <4>1, OnlyOne DEF PersistCommit, Place
      <4>2. CASE save[t].next = "unpost"
        BY <2>1, <2>2, <4>2, OnlyOne DEF PersistCommit, Place
      <4>3. QED BY <2>1, <4>1, <4>2 DEF SaveType
    <3>2. CalmAt("commit", save[t])
      BY <2>1, <3>1 DEF Calm
    <3>3. /\ mProfileName \in Profiles /\ save[t].name = mProfileName
          /\ save[t].total = mCumulative + mReceived
      BY <3>2 DEF CalmAt, SaveAt, Saving
    <3>4. /\ usage' = [usage EXCEPT ![mProfileName] = mCumulative + mReceived]
          /\ mixed' = mixed
      BY <2>2, <3>3 DEF PersistCommit, ledger
    <3>5. CASE p = mProfileName
      <4>1. usage[p] <= mCumulative + mReceived
        BY <3>2, <3>4, <3>5 DEF CalmAt, AccountAt, Counting
      <4>2. mCumulative \in Nat /\ mReceived \in Nat
        BY DEF UsageInv, TypeParts, CountType
      <4>3. QED BY <2>1, <3>4, <3>5, <4>1, <4>2 DEF LedgerType
    <3>6. CASE p # mProfileName
      BY <2>1, <3>4, <3>6 DEF LedgerType
    <3>7. QED BY <3>5, <3>6
  <2>3. CASE \A t \in Threads : ~PersistCommit(t)
    <3>1. usage' = usage
      BY <2>3
      DEF Next, Step, Persist, Stop, StartName, StartRun, PostStart,
          PostStartLoad, PostStartBase, TickSample, PostStartPost, PostStartUp,
          SetVerified, TickStore, TickSave, TickSkip, TickRepost, OnDestroy,
          PersistCumulative, PersistReceived, StopClaim, StopSave, StopNoSave,
          StopUnpost, StopForget, StopHalt, StopCumulative, StopReceived,
          StopBase, StopDown, Crash, Traffic, OwnTraffic
    <3>2. QED BY <2>1, <3>1
  <2>4. QED BY <2>2, <2>3
<1>2. QED BY <1>1, UsageInvariant, UsageStep, PTL DEF Spec, UpKeepsUsage
=============================================================================
