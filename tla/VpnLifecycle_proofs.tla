------------------------ MODULE VpnLifecycle_proofs ------------------------
(***************************************************************************)
(* Theorems about VpnLifecycle, for every number of attempts, every sendfd *)
(* bound and every set of binder threads.                                  *)
(***************************************************************************)
EXTENDS VpnLifecycle, TLAPS

\* What the proofs need to know about the index sets.
LEMMA Basics ==
  /\ None \in AttemptOrNone
  /\ \A a \in Attempt : a \in AttemptOrNone /\ a \in Nat /\ a # None
  /\ \A a \in AttemptOrNone : a \in Nat
  /\ \A a \in AttemptOrNone : a < MaxAttempts => a + 1 \in Attempt
  /\ "main" \in Stopper
  /\ \A b \in BinderThreads : b \in Stopper
  BY BoundsAssumption DEF None, AttemptOrNone, Attempt, Stopper

\* A Runnable posted to the main thread keeps the queue well typed.
LEMMA PostType ==
  ASSUME NEW k \in {"postStart", "stop", "exited"}, NEW a \in Attempt,
         mainQ \in Seq(Message), Post(k, a)
  PROVE  mainQ' \in Seq(Message)
  BY DEF Post, Message

\* The oldest Runnable and what is left of the queue without it.
LEMMA HeadType ==
  ASSUME mainQ \in Seq(Message), mainQ # <<>>
  PROVE  /\ Head(mainQ).att \in Attempt
         /\ Tail(mainQ) \in Seq(Message)
<1>1. Head(mainQ) \in Message /\ Tail(mainQ) \in Seq(Message)
  OBVIOUS
<1>2. QED BY <1>1 DEF Message


\* With the type go three facts it rests on: the body of onStartCommand runs
\* for a counted attempt, the main thread is in one handler at a time, and a
\* start thread only polls below its bound.
TypeInv ==
  /\ TypeOK
  /\ main \in {"seq", "seqWrite", "capture", "configure", "start"} =>
       latest \in Attempt
  /\ main # "idle" => stop["main"] = "idle"
  /\ \A a \in Attempt : thread[a] = "send" => tries[a] < MaxSendfd

\* The type of everything but the history, which every step records alike.
StateOK ==
  /\ mRunning \in BOOLEAN
  /\ mConnectSeq \in Nat
  /\ mSendfdCancelled \in BOOLEAN
  /\ mTunnelUp \in BOOLEAN
  /\ mInterface \in AttemptOrNone
  /\ mTun2socksProcess \in AttemptOrNone
  /\ destroyed \in BOOLEAN
  /\ latest \in AttemptOrNone
  /\ connectSeq \in [Attempt -> Nat]
  /\ main \in {"idle", "seq", "seqWrite", "capture", "configure", "start",
               "postStart"}
  /\ upBy \in AttemptOrNone
  /\ stop \in [Stopper -> {"idle", "cancel", "seq", "seqWrite", "kill",
                           "forget", "close", "clear", "down"}]
  /\ seen \in [Stopper -> Nat]
  /\ mainQ \in Seq(Message)
  /\ tun \in AttemptOrNone
  /\ fds \subseteq Attempt
  /\ thread \in [Attempt -> {"none", "join", "spawn", "spawned",
                             "forget", "poll", "send", "done"}]
  /\ tries \in [Attempt -> 0..MaxSendfd]
  /\ proc \in [Attempt -> {"none", "exec", "listen", "serve", "dead"}]
  /\ sigterm \in [Attempt -> BOOLEAN]
  /\ carrier \in [Attempt -> SUBSET Attempt]
  /\ monitor \in [Attempt -> {"none", "watching", "done"}]

\* The history is two flags.
LEMMA RecordType ==
  ASSUME Record
  PROVE  seqBack' \in BOOLEAN /\ raced' \in BOOLEAN
  BY DEF Record

\* Every step of a thread or process keeps the state well typed.
LEMMA TypeStep == TypeInv /\ [Next]_vars => TypeInv'
<1> SUFFICES ASSUME TypeInv, [Next]_vars PROVE TypeInv'
  OBVIOUS
<1> DEFINE Rest ==
      /\ main \in {"seq", "seqWrite", "capture", "configure", "start"} =>
           latest \in Attempt
      /\ main # "idle" => stop["main"] = "idle"
      /\ \A a \in Attempt : thread[a] = "send" => tries[a] < MaxSendfd
<1>1. (StateOK /\ Rest)'
  <2>1. CASE StartSeqRead
    BY <2>1, Basics, BoundsAssumption
       DEF StartSeqRead, flags, fields, instance, system, startThreads,
           procs, StateOK, TypeInv, TypeOK
  <2>2. CASE StartSeqWrite
    BY <2>2, Basics, BoundsAssumption
       DEF StartSeqWrite, fields, instance, system, startThreads, procs,
           StateOK, TypeInv, TypeOK
  <2>3. CASE CaptureSeq
    BY <2>3, Basics, BoundsAssumption
       DEF CaptureSeq, flags, fields, stops, system, startThreads, procs,
           StateOK, TypeInv, TypeOK
  <2>4. CASE Configure
    BY <2>4, Basics, BoundsAssumption
       DEF Configure, flags, instance, stops, startThreads, procs, StateOK,
           TypeInv, TypeOK
  <2>5. CASE ConfigureFailed
    BY <2>5, Basics, BoundsAssumption
       DEF ConfigureFailed, Claim, instance, system, startThreads, procs,
           StateOK, TypeInv, TypeOK
  <2>6. CASE Start
    BY <2>6, Basics, BoundsAssumption
       DEF Start, fields, instance, stops, system, procs, StateOK, TypeInv,
           TypeOK
  <2>7. CASE HandlePostStart
    BY <2>7, HeadType, Basics
       DEF HandlePostStart, MainIdle, flags, fields, instance, stops, system,
           startThreads, procs, StateOK, TypeInv, TypeOK
  <2>8. CASE PostStartOnMain
    BY <2>8, Basics, BoundsAssumption
       DEF PostStartOnMain, fields, instance, stops, system, startThreads,
           procs, StateOK, TypeInv, TypeOK
  <2>9. CASE HandleStop
    BY <2>9, HeadType, Basics
       DEF HandleStop, Claim, MainIdle, fields, instance, system,
           startThreads, procs, StateOK, TypeInv, TypeOK
  <2>10. CASE OnStartCommand
    BY <2>10, Basics, BoundsAssumption
       DEF OnStartCommand, MainIdle, fields, stops, system, startThreads,
           procs, StateOK, TypeInv, TypeOK
  <2>11. CASE MainStop
    BY <2>11, Basics, BoundsAssumption
       DEF MainStop, Claim, MainIdle, fields, instance, looper, system,
           startThreads, procs, StateOK, TypeInv, TypeOK
  <2>12. CASE OnDestroy
    BY <2>12, Basics, BoundsAssumption
       DEF OnDestroy, MainIdle, flags, fields, looper, system, startThreads,
           procs, StateOK, TypeInv, TypeOK
  <2>13. ASSUME NEW s \in Stopper, StopCancel(s) PROVE (StateOK /\ Rest)'
    BY <2>13, Basics, BoundsAssumption
       DEF StopCancel, GoTo, fields, instance, looper, system, startThreads,
           procs, StateOK, TypeInv, TypeOK
  <2>14. ASSUME NEW s \in Stopper, StopSeqRead(s) PROVE (StateOK /\ Rest)'
    BY <2>14, Basics, BoundsAssumption
       DEF StopSeqRead, GoTo, flags, fields, instance, looper, system,
           startThreads, procs, StateOK, TypeInv, TypeOK
  <2>15. ASSUME NEW s \in Stopper, StopSeqWrite(s) PROVE (StateOK /\ Rest)'
    BY <2>15, Basics, BoundsAssumption
       DEF StopSeqWrite, GoTo, fields, instance, looper, system,
           startThreads, procs, StateOK, TypeInv, TypeOK
  <2>16. ASSUME NEW s \in Stopper, StopKill(s) PROVE (StateOK /\ Rest)'
    <3>1. sigterm' \in [Attempt -> BOOLEAN]
      BY <2>16, Zenon DEF StopKill
    <3>2. QED
      BY <2>16, <3>1, Basics
         DEF StopKill, GoTo, flags, fields, instance, looper, system,
             startThreads, StateOK, TypeInv, TypeOK
  <2>17. ASSUME NEW s \in Stopper, StopForget(s) PROVE (StateOK /\ Rest)'
    BY <2>17, Basics, BoundsAssumption
       DEF StopForget, GoTo, flags, instance, looper, system, startThreads,
           procs, StateOK, TypeInv, TypeOK
  <2>18. ASSUME NEW s \in Stopper, StopClose(s) PROVE (StateOK /\ Rest)'
    BY <2>18, Basics, BoundsAssumption
       DEF StopClose, GoTo, flags, fields, instance, looper, startThreads,
           procs, StateOK, TypeInv, TypeOK
  <2>19. ASSUME NEW s \in Stopper, StopClear(s) PROVE (StateOK /\ Rest)'
    BY <2>19, Basics, BoundsAssumption
       DEF StopClear, GoTo, fields, instance, looper, system, startThreads,
           procs, StateOK, TypeInv, TypeOK
  <2>20. ASSUME NEW s \in Stopper, StopDown(s) PROVE (StateOK /\ Rest)'
    BY <2>20, Basics, BoundsAssumption
       DEF StopDown, GoTo, fields, instance, looper, system, startThreads,
           procs, StateOK, TypeInv, TypeOK
  <2>21. ASSUME NEW b \in BinderThreads, BinderStop(b) PROVE (StateOK /\ Rest)'
    BY <2>21, Basics, BinderAssumption
       DEF BinderStop, Claim, fields, instance, looper, system, startThreads,
           procs, StateOK, TypeInv, TypeOK
  <2>22. ASSUME NEW a \in Attempt, JoinDns(a) PROVE (StateOK /\ Rest)'
    BY <2>22, Basics, BoundsAssumption
       DEF JoinDns, flags, fields, instance, looper, stops, system, procs,
           StateOK, TypeInv, TypeOK
  <2>23. ASSUME NEW a \in Attempt, LaunchPdnsdFailed(a) PROVE (StateOK /\ Rest)'
    <3>1. mainQ' \in Seq(Message)
      BY <2>23, PostType DEF LaunchPdnsdFailed, TypeInv, TypeOK
    <3>2. QED
      BY <2>23, <3>1, Basics
         DEF LaunchPdnsdFailed, Post, flags, fields, instance, stops, system,
             procs, StateOK, TypeInv, TypeOK
  <2>24. ASSUME NEW a \in Attempt, SpawnTun2socks(a) PROVE (StateOK /\ Rest)'
    BY <2>24, Basics, BoundsAssumption
       DEF SpawnTun2socks, flags, instance, looper, stops, system, StateOK,
           TypeInv, TypeOK
  <2>25. ASSUME NEW a \in Attempt, SpawnFailed(a) PROVE (StateOK /\ Rest)'
    <3>1. mainQ' \in Seq(Message)
      BY <2>25, PostType DEF SpawnFailed, TypeInv, TypeOK
    <3>2. QED
      BY <2>25, <3>1, Basics
         DEF SpawnFailed, Post, flags, fields, instance, stops, system,
             procs, StateOK, TypeInv, TypeOK
  <2>26. ASSUME NEW a \in Attempt, AfterSpawn(a) PROVE (StateOK /\ Rest)'
    BY <2>26, Basics, BoundsAssumption
       DEF AfterSpawn, flags, fields, instance, looper, stops, system,
           StateOK, TypeInv, TypeOK
  <2>27. ASSUME NEW a \in Attempt, ForgetSpawned(a) PROVE (StateOK /\ Rest)'
    BY <2>27, Basics, BoundsAssumption
       DEF ForgetSpawned, flags, instance, looper, stops, system, procs,
           StateOK, TypeInv, TypeOK
  <2>28. ASSUME NEW a \in Attempt, PollGuard(a) PROVE (StateOK /\ Rest)'
    <3>1. mainQ' \in Seq(Message)
      BY <2>28, PostType DEF PollGuard, TypeInv, TypeOK
    <3>2. QED
      BY <2>28, <3>1, Basics
         DEF PollGuard, Post, flags, fields, instance, stops, system, procs,
             StateOK, TypeInv, TypeOK
  <2>29. ASSUME NEW a \in Attempt, SendfdOk(a) PROVE (StateOK /\ Rest)'
    <3>1. mainQ' \in Seq(Message)
      BY <2>29, PostType DEF SendfdOk, TypeInv, TypeOK
    <3>2. PICK p \in Attempt, d \in Numbered(a) :
               /\ proc' = [proc EXCEPT ![p] = "serve"]
               /\ carrier' = [i \in Attempt |->
                    IF i = d THEN carrier[i] \cup {p} ELSE carrier[i]]
      BY <2>29 DEF SendfdOk
    <3>3. carrier' \in [Attempt -> SUBSET Attempt]
      BY <3>2 DEF TypeInv, TypeOK
    <3>4. /\ proc' \in [Attempt -> {"none", "exec", "listen", "serve", "dead"}]
          /\ thread' \in [Attempt -> {"none", "join", "spawn", "spawned",
                                      "forget", "poll", "send", "done"}]
          /\ \A b \in Attempt : thread'[b] = "send" => tries'[b] < MaxSendfd
      BY <2>29, <3>2 DEF SendfdOk, TypeInv, TypeOK
    <3>5. QED
      BY <2>29, <3>1, <3>3, <3>4
         DEF SendfdOk, Post, flags, fields, instance, stops, system, StateOK,
             TypeInv, TypeOK
  <2>30. ASSUME NEW a \in Attempt, SendfdFailed(a) PROVE (StateOK /\ Rest)'
    <3>1. tries' \in [Attempt -> 0..MaxSendfd]
      <4>1. tries[a] \in 0..MaxSendfd /\ tries[a] < MaxSendfd
        BY <2>30 DEF SendfdFailed, TypeInv, TypeOK
      <4>2. tries[a] + 1 \in 0..MaxSendfd
        BY <4>1, BoundsAssumption
      <4>3. QED BY <2>30, <4>2 DEF SendfdFailed, TypeInv, TypeOK
    <3>2. /\ thread' \in [Attempt -> {"none", "join", "spawn", "spawned",
                                    "forget", "poll", "send", "done"}]
          /\ \A b \in Attempt : thread'[b] = "send" => tries'[b] < MaxSendfd
      BY <2>30 DEF SendfdFailed, TypeInv, TypeOK
    <3>3. QED
      BY <2>30, <3>1, <3>2
         DEF SendfdFailed, flags, fields, instance, looper, stops, system,
             procs, StateOK, TypeInv, TypeOK
  <2>31. ASSUME NEW a \in Attempt, ProcBind(a) PROVE (StateOK /\ Rest)'
    BY <2>31, Basics, BoundsAssumption
       DEF ProcBind, flags, fields, instance, looper, stops, system,
           startThreads, StateOK, TypeInv, TypeOK
  <2>32. ASSUME NEW a \in Attempt, ProcExit(a) PROVE (StateOK /\ Rest)'
    BY <2>32, Basics, BoundsAssumption
       DEF ProcExit, flags, fields, instance, looper, stops, system,
           startThreads, StateOK, TypeInv, TypeOK
  <2>33. ASSUME NEW a \in Attempt, MonitorExit(a) PROVE (StateOK /\ Rest)'
    <3>1. mainQ' \in Seq(Message)
      BY <2>33, PostType DEF MonitorExit, TypeInv, TypeOK
    <3>2. QED
      BY <2>33, <3>1, Basics
         DEF MonitorExit, Post, flags, fields, instance, stops, system,
             startThreads, procs, StateOK, TypeInv, TypeOK
  <2>34. CASE UNCHANGED vars
    BY <2>34, Basics, BoundsAssumption
       DEF vars, flags, fields, instance, looper, stops, system,
           startThreads, procs, history, StateOK, TypeInv, TypeOK
  <2>35. QED
    BY <2>1, <2>2, <2>3, <2>4, <2>5, <2>6, <2>7, <2>8, <2>9, <2>10, <2>11,
       <2>12, <2>13, <2>14, <2>15, <2>16, <2>17, <2>18, <2>19, <2>20, <2>21,
       <2>22, <2>23, <2>24, <2>25, <2>26, <2>27, <2>28, <2>29, <2>30, <2>31,
       <2>32, <2>33, <2>34
       DEF Next, Step, MainStep, Request, StopStep, ThreadStep, ProcStep
<1>2. (seqBack \in BOOLEAN /\ raced \in BOOLEAN)'
  <2>1. CASE Next
    BY <2>1, RecordType DEF Next
  <2>2. CASE UNCHANGED vars
    BY <2>2 DEF vars, history, TypeInv, TypeOK
  <2>3. QED BY <2>1, <2>2
<1>3. QED BY <1>1, <1>2 DEF StateOK, TypeInv, TypeOK

\* The initial state is well typed.
LEMMA InitType == Init => TypeInv
<1>1. <<>> \in Seq(Message)
  OBVIOUS
<1>2. 0 \in 0..MaxSendfd
  BY BoundsAssumption
<1>3. 0 \in AttemptOrNone
  BY Basics DEF None
<1>4. ASSUME Init PROVE TypeOK
  <2>1. /\ sigterm \in [Attempt -> BOOLEAN]
        /\ stop \in [Stopper -> {"idle", "cancel", "seq", "seqWrite", "kill",
                                 "forget", "close", "clear", "down"}]
        /\ thread \in [Attempt -> {"none", "join", "spawn", "spawned",
                                   "forget", "poll", "send", "done"}]
        /\ proc \in [Attempt -> {"none", "exec", "listen", "serve", "dead"}]
        /\ monitor \in [Attempt -> {"none", "watching", "done"}]
    BY <1>4, Zenon DEF Init
  <2>2. /\ connectSeq \in [Attempt -> Nat]
        /\ seen \in [Stopper -> Nat]
        /\ tries \in [Attempt -> 0..MaxSendfd]
        /\ carrier \in [Attempt -> SUBSET Attempt]
    BY <1>2, <1>3, <1>4 DEF Init, None
  <2>3. QED BY <1>1, <1>3, <1>4, <2>1, <2>2 DEF Init, TypeOK, None
<1>5. QED BY <1>4, Basics DEF Init, TypeInv

\* The service's state is always well typed.
THEOREM TypeCorrect == Spec => []TypeOK
<1>1. Init => TypeInv
  BY InitType
<1>2. TypeInv => TypeOK
  BY DEF TypeInv
<1>3. QED BY <1>1, <1>2, TypeStep, PTL DEF Spec

-----------------------------------------------------------------------------
\* Posting leaves the older Runnables where they are.
LEMMA PostKeeps ==
  ASSUME NEW k, NEW a, mainQ \in Seq(Message), Post(k, a)
  PROVE  \A i \in 1..Len(mainQ') :
           \/ i \in 1..Len(mainQ) /\ mainQ'[i] = mainQ[i]
           \/ mainQ'[i] = [kind |-> k, att |-> a]
  BY DEF Post

\* Taking the oldest Runnable leaves only older ones.
LEMMA TailKeeps ==
  ASSUME mainQ \in Seq(Message), mainQ # <<>>, mainQ' = Tail(mainQ)
  PROVE  \A i \in 1..Len(mainQ') :
           i + 1 \in 1..Len(mainQ) /\ mainQ'[i] = mainQ[i + 1]
  OBVIOUS

\* The types the arguments below rest on.
LEMMA Types ==
  ASSUME TypeInv
  PROVE  /\ mConnectSeq \in Nat
         /\ latest \in Nat
         /\ connectSeq \in [Attempt -> Nat]
         /\ \A a \in Attempt : connectSeq[a] \in Nat
         /\ seen \in [Stopper -> Nat]
         /\ \A s \in Stopper : seen[s] \in Nat
         /\ stop \in [Stopper -> {"idle", "cancel", "seq", "seqWrite", "kill",
                                  "forget", "close", "clear", "down"}]
         /\ DOMAIN stop = Stopper
         /\ DOMAIN thread = Attempt /\ DOMAIN monitor = Attempt
         /\ DOMAIN proc = Attempt /\ DOMAIN sigterm = Attempt
         /\ mainQ \in Seq(Message)
         /\ main \in {"seq", "seqWrite", "capture", "configure", "start"} =>
              latest \in Attempt
  BY Basics DEF TypeInv, TypeOK

\* Queued Runnables belong to attempts.
LEMMA QueueTypes ==
  ASSUME mainQ \in Seq(Message)
  PROVE  \A i \in 1..Len(mainQ) : mainQ[i].att \in Attempt
<1>1. \A i \in 1..Len(mainQ) : mainQ[i] \in Message
  OBVIOUS
<1>2. QED BY <1>1 DEF Message

\* Whatever refers to an attempt refers to one that was begun, and the process
\* and the monitor of an attempt are where its start thread left them: one that
\* ended with a living process either set the monitor to watch it or told it to
\* end.
ThreadInv ==
  \A a \in Attempt :
    /\ thread[a] # "none" => a <= latest
    /\ thread[a] \in {"none", "join", "spawn"} =>
         proc[a] = "none" /\ monitor[a] = "none"
    /\ thread[a] = "spawned" => proc[a] # "none" /\ monitor[a] = "none"
    /\ thread[a] = "forget" =>
         proc[a] # "none" /\ monitor[a] = "none" /\ sigterm[a]
    /\ thread[a] \in {"poll", "send"} => monitor[a] # "none"
    /\ thread[a] = "done" /\ proc[a] # "none" =>
         monitor[a] # "none" \/ sigterm[a]
    /\ monitor[a] # "none" => proc[a] # "none"
    /\ main \in {"seq", "seqWrite", "capture", "configure", "start"} /\ a = latest
         => thread[a] = "none"

\* Every step keeps threads, processes and monitors together.
LEMMA ThreadStepInv == TypeInv /\ ThreadInv /\ [Next]_vars => ThreadInv'
<1> SUFFICES ASSUME TypeInv, ThreadInv, [Next]_vars PROVE ThreadInv'
  OBVIOUS
<1>1. ThreadInv'
  <2>1. CASE StartSeqRead
    BY <2>1, Types, Basics
       DEF StartSeqRead, flags, fields, instance, system, startThreads,
           procs, ThreadInv
  <2>2. CASE StartSeqWrite
    BY <2>2, Types, Basics
       DEF StartSeqWrite, fields, instance, system, startThreads, procs,
           ThreadInv
  <2>3. CASE CaptureSeq
    BY <2>3, Types, Basics
       DEF CaptureSeq, flags, fields, stops, system, startThreads, procs,
           ThreadInv
  <2>4. CASE Configure
    BY <2>4, Types, Basics
       DEF Configure, flags, instance, stops, startThreads, procs, ThreadInv
  <2>5. CASE ConfigureFailed
    BY <2>5, Types, Basics
       DEF ConfigureFailed, Claim, instance, system, startThreads, procs,
           ThreadInv
  <2>6. CASE Start
    BY <2>6, Types, Basics
       DEF Start, fields, instance, stops, system, procs, ThreadInv
  <2>7. CASE HandlePostStart
    BY <2>7, Types, Basics
       DEF HandlePostStart, MainIdle, flags, fields, instance, stops, system,
           startThreads, procs, ThreadInv
  <2>8. CASE PostStartOnMain
    BY <2>8, Types, Basics
       DEF PostStartOnMain, fields, instance, stops, system, startThreads,
           procs, ThreadInv
  <2>9. CASE HandleStop
    BY <2>9, Types, Basics
       DEF HandleStop, Claim, MainIdle, fields, instance, system,
           startThreads, procs, ThreadInv
  <2>10. CASE OnStartCommand
    <3>1. latest' \in Nat /\ latest' = latest + 1
      BY <2>10, Types DEF OnStartCommand
    <3>2. \A a \in Attempt : (a <= latest => a <= latest') /\ ~(latest' <= latest)
      BY <3>1, Types, Basics
    <3>3. QED
      BY <2>10, <3>1, <3>2
         DEF OnStartCommand, MainIdle, startThreads, procs, ThreadInv
  <2>11. CASE MainStop
    BY <2>11, Types, Basics
       DEF MainStop, Claim, MainIdle, fields, instance, looper, system,
           startThreads, procs, ThreadInv
  <2>12. CASE OnDestroy
    BY <2>12, Types, Basics
       DEF OnDestroy, MainIdle, flags, fields, looper, system, startThreads,
           procs, ThreadInv
  <2>13. ASSUME NEW s \in Stopper, StopCancel(s) PROVE ThreadInv'
    BY <2>13, Types, Basics
       DEF StopCancel, GoTo, fields, instance, looper, system, startThreads,
           procs, ThreadInv
  <2>14. ASSUME NEW s \in Stopper, StopSeqRead(s) PROVE ThreadInv'
    BY <2>14, Types, Basics
       DEF StopSeqRead, GoTo, flags, fields, instance, looper, system,
           startThreads, procs, ThreadInv
  <2>15. ASSUME NEW s \in Stopper, StopSeqWrite(s) PROVE ThreadInv'
    BY <2>15, Types, Basics
       DEF StopSeqWrite, GoTo, fields, instance, looper, system,
           startThreads, procs, ThreadInv
  <2>16. ASSUME NEW s \in Stopper, StopKill(s) PROVE ThreadInv'
    BY <2>16, Types, Basics
       DEF StopKill, GoTo, flags, fields, instance, looper, system,
           startThreads, ThreadInv
  <2>17. ASSUME NEW s \in Stopper, StopForget(s) PROVE ThreadInv'
    BY <2>17, Types, Basics
       DEF StopForget, GoTo, flags, instance, looper, system, startThreads,
           procs, ThreadInv
  <2>18. ASSUME NEW s \in Stopper, StopClose(s) PROVE ThreadInv'
    BY <2>18, Types, Basics
       DEF StopClose, GoTo, flags, fields, instance, looper, startThreads,
           procs, ThreadInv
  <2>19. ASSUME NEW s \in Stopper, StopClear(s) PROVE ThreadInv'
    BY <2>19, Types, Basics
       DEF StopClear, GoTo, fields, instance, looper, system, startThreads,
           procs, ThreadInv
  <2>20. ASSUME NEW s \in Stopper, StopDown(s) PROVE ThreadInv'
    BY <2>20, Types, Basics
       DEF StopDown, GoTo, fields, instance, looper, system, startThreads,
           procs, ThreadInv
  <2>21. ASSUME NEW b \in BinderThreads, BinderStop(b) PROVE ThreadInv'
    BY <2>21, Types, Basics
       DEF BinderStop, Claim, fields, instance, looper, system, startThreads,
           procs, ThreadInv
  <2>22. ASSUME NEW a \in Attempt, JoinDns(a) PROVE ThreadInv'
    BY <2>22, Types, Basics
       DEF JoinDns, flags, fields, instance, looper, stops, system, procs,
           ThreadInv
  <2>23. ASSUME NEW a \in Attempt, LaunchPdnsdFailed(a) PROVE ThreadInv'
    BY <2>23, Types, Basics
       DEF LaunchPdnsdFailed, Post, flags, fields, instance, stops, system,
           procs, ThreadInv
  <2>24. ASSUME NEW a \in Attempt, SpawnTun2socks(a) PROVE ThreadInv'
    BY <2>24, Types, Basics
       DEF SpawnTun2socks, flags, instance, looper, stops, system, ThreadInv
  <2>25. ASSUME NEW a \in Attempt, SpawnFailed(a) PROVE ThreadInv'
    BY <2>25, Types, Basics
       DEF SpawnFailed, Post, flags, fields, instance, stops, system, procs,
           ThreadInv
  <2>26. ASSUME NEW a \in Attempt, AfterSpawn(a) PROVE ThreadInv'
    BY <2>26, Types, Basics
       DEF AfterSpawn, flags, fields, instance, looper, stops, system,
           ThreadInv
  <2>27. ASSUME NEW a \in Attempt, ForgetSpawned(a) PROVE ThreadInv'
    BY <2>27, Types, Basics
       DEF ForgetSpawned, flags, instance, looper, stops, system, procs,
           ThreadInv
  <2>28. ASSUME NEW a \in Attempt, PollGuard(a) PROVE ThreadInv'
    BY <2>28, Types, Basics
       DEF PollGuard, Post, flags, fields, instance, stops, system, procs,
           ThreadInv
  <2>29. ASSUME NEW a \in Attempt, SendfdOk(a) PROVE ThreadInv'
    <3>1. PICK p \in Attempt : /\ proc[p] = "listen"
                             /\ proc' = [proc EXCEPT ![p] = "serve"]
      BY <2>29 DEF SendfdOk
    <3>2. QED
      BY <2>29, <3>1, Types
         DEF SendfdOk, flags, fields, instance, stops, system, ThreadInv
  <2>30. ASSUME NEW a \in Attempt, SendfdFailed(a) PROVE ThreadInv'
    BY <2>30, Types, Basics
       DEF SendfdFailed, flags, fields, instance, looper, stops, system,
           procs, ThreadInv
  <2>31. ASSUME NEW a \in Attempt, ProcBind(a) PROVE ThreadInv'
    BY <2>31, Types, Basics
       DEF ProcBind, flags, fields, instance, looper, stops, system,
           startThreads, ThreadInv
  <2>32. ASSUME NEW a \in Attempt, ProcExit(a) PROVE ThreadInv'
    BY <2>32, Types, Basics
       DEF ProcExit, flags, fields, instance, looper, stops, system,
           startThreads, ThreadInv
  <2>33. ASSUME NEW a \in Attempt, MonitorExit(a) PROVE ThreadInv'
    BY <2>33, Types, Basics
       DEF MonitorExit, Post, flags, fields, instance, stops, system,
           startThreads, procs, ThreadInv
  <2>34. CASE UNCHANGED vars
    BY <2>34, Types, Basics
       DEF vars, flags, fields, instance, looper, stops, system,
           startThreads, procs, history, ThreadInv
  <2>35. QED
    BY <2>1, <2>2, <2>3, <2>4, <2>5, <2>6, <2>7, <2>8, <2>9, <2>10, <2>11,
       <2>12, <2>13, <2>14, <2>15, <2>16, <2>17, <2>18, <2>19, <2>20, <2>21,
       <2>22, <2>23, <2>24, <2>25, <2>26, <2>27, <2>28, <2>29, <2>30, <2>31,
       <2>32, <2>33, <2>34
       DEF Next, Step, MainStep, Request, StopStep, ThreadStep, ProcStep
<1>2. QED BY <1>1

\* Every queued Runnable belongs to a begun attempt.
QueueInv == \A i \in 1..Len(mainQ) : mainQ[i].att <= latest

\* A Runnable posted for a begun attempt.
LEMMA PostBounded ==
  ASSUME TypeInv, QueueInv, NEW k, NEW a \in Attempt,
         Post(k, a) \/ UNCHANGED mainQ, a <= latest, UNCHANGED latest
  PROVE  QueueInv'
<1>1. CASE Post(k, a)
  <2>1. \A i \in 1..Len(mainQ') : \/ i \in 1..Len(mainQ) /\ mainQ'[i] = mainQ[i]
                                  \/ mainQ'[i] = [kind |-> k, att |-> a]
    BY <1>1, PostKeeps, Types
  <2>2. QED BY <2>1 DEF QueueInv
<1>2. CASE UNCHANGED mainQ
  BY <1>2 DEF QueueInv
<1>3. QED BY <1>1, <1>2

\* Every step keeps the queue to begun attempts.
LEMMA QueueStepInv ==
  TypeInv /\ ThreadInv /\ QueueInv /\ [Next]_vars => QueueInv'
<1> SUFFICES ASSUME TypeInv, ThreadInv, QueueInv, [Next]_vars PROVE QueueInv'
  OBVIOUS
<1>1. QueueInv'
  <2>1. CASE StartSeqRead
    BY <2>1, Types
       DEF StartSeqRead, flags, fields, instance, system, startThreads,
           procs, QueueInv
  <2>2. CASE StartSeqWrite
    BY <2>2, Types
       DEF StartSeqWrite, fields, instance, system, startThreads, procs,
           QueueInv
  <2>3. CASE CaptureSeq
    BY <2>3, Types
       DEF CaptureSeq, flags, fields, stops, system, startThreads, procs,
           QueueInv
  <2>4. CASE Configure
    BY <2>4, Types
       DEF Configure, flags, instance, stops, startThreads, procs, QueueInv
  <2>5. CASE ConfigureFailed
    BY <2>5, Types
       DEF ConfigureFailed, Claim, instance, system, startThreads, procs,
           QueueInv
  <2>6. CASE Start
    BY <2>6, Types
       DEF Start, fields, instance, stops, system, procs, QueueInv
  <2>7. CASE HandlePostStart
    BY <2>7, TailKeeps, Types
       DEF HandlePostStart, MainIdle, flags, fields, instance, stops, system,
           startThreads, procs, QueueInv
  <2>8. CASE PostStartOnMain
    BY <2>8, Types
       DEF PostStartOnMain, fields, instance, stops, system, startThreads,
           procs, QueueInv
  <2>9. CASE HandleStop
    BY <2>9, TailKeeps, Types
       DEF HandleStop, Claim, MainIdle, fields, instance, system,
           startThreads, procs, QueueInv
  <2>10. CASE OnStartCommand
    <3>1. \A i \in 1..Len(mainQ) : mainQ[i].att \in Nat
      BY QueueTypes, Types, Basics
    <3>2. QED
      BY <2>10, <3>1, Types DEF OnStartCommand, QueueInv
  <2>11. CASE MainStop
    BY <2>11, Types
       DEF MainStop, Claim, MainIdle, fields, instance, looper, system,
           startThreads, procs, QueueInv
  <2>12. CASE OnDestroy
    BY <2>12, Types
       DEF OnDestroy, MainIdle, flags, fields, looper, system, startThreads,
           procs, QueueInv
  <2>13. ASSUME NEW s \in Stopper, StopCancel(s) PROVE QueueInv'
    BY <2>13, Types
       DEF StopCancel, GoTo, fields, instance, looper, system, startThreads,
           procs, QueueInv
  <2>14. ASSUME NEW s \in Stopper, StopSeqRead(s) PROVE QueueInv'
    BY <2>14, Types
       DEF StopSeqRead, GoTo, flags, fields, instance, looper, system,
           startThreads, procs, QueueInv
  <2>15. ASSUME NEW s \in Stopper, StopSeqWrite(s) PROVE QueueInv'
    BY <2>15, Types
       DEF StopSeqWrite, GoTo, fields, instance, looper, system,
           startThreads, procs, QueueInv
  <2>16. ASSUME NEW s \in Stopper, StopKill(s) PROVE QueueInv'
    BY <2>16, Types
       DEF StopKill, GoTo, flags, fields, instance, looper, system,
           startThreads, QueueInv
  <2>17. ASSUME NEW s \in Stopper, StopForget(s) PROVE QueueInv'
    BY <2>17, Types
       DEF StopForget, GoTo, flags, instance, looper, system, startThreads,
           procs, QueueInv
  <2>18. ASSUME NEW s \in Stopper, StopClose(s) PROVE QueueInv'
    BY <2>18, Types
       DEF StopClose, GoTo, flags, fields, instance, looper, startThreads,
           procs, QueueInv
  <2>19. ASSUME NEW s \in Stopper, StopClear(s) PROVE QueueInv'
    BY <2>19, Types
       DEF StopClear, GoTo, fields, instance, looper, system, startThreads,
           procs, QueueInv
  <2>20. ASSUME NEW s \in Stopper, StopDown(s) PROVE QueueInv'
    BY <2>20, Types
       DEF StopDown, GoTo, fields, instance, looper, system, startThreads,
           procs, QueueInv
  <2>21. ASSUME NEW b \in BinderThreads, BinderStop(b) PROVE QueueInv'
    BY <2>21, Types
       DEF BinderStop, Claim, fields, instance, looper, system, startThreads,
           procs, QueueInv
  <2>22. ASSUME NEW a \in Attempt, JoinDns(a) PROVE QueueInv'
    BY <2>22, Types
       DEF JoinDns, flags, fields, instance, looper, stops, system, procs,
           QueueInv
  <2>23. ASSUME NEW a \in Attempt, LaunchPdnsdFailed(a) PROVE QueueInv'
    <3>1. a <= latest
      BY <2>23 DEF LaunchPdnsdFailed, ThreadInv
    <3>2. (Post("stop", a) \/ UNCHANGED mainQ) /\ UNCHANGED latest
      BY <2>23 DEF LaunchPdnsdFailed, instance
    <3>3. QED BY <3>1, <3>2, PostBounded
  <2>24. ASSUME NEW a \in Attempt, SpawnTun2socks(a) PROVE QueueInv'
    BY <2>24, Types
       DEF SpawnTun2socks, flags, instance, looper, stops, system, QueueInv
  <2>25. ASSUME NEW a \in Attempt, SpawnFailed(a) PROVE QueueInv'
    <3>1. a <= latest
      BY <2>25 DEF SpawnFailed, ThreadInv
    <3>2. (Post("stop", a) \/ UNCHANGED mainQ) /\ UNCHANGED latest
      BY <2>25 DEF SpawnFailed, instance
    <3>3. QED BY <3>1, <3>2, PostBounded
  <2>26. ASSUME NEW a \in Attempt, AfterSpawn(a) PROVE QueueInv'
    BY <2>26, Types
       DEF AfterSpawn, flags, fields, instance, looper, stops, system,
           QueueInv
  <2>27. ASSUME NEW a \in Attempt, ForgetSpawned(a) PROVE QueueInv'
    BY <2>27, Types
       DEF ForgetSpawned, flags, instance, looper, stops, system, procs,
           QueueInv
  <2>28. ASSUME NEW a \in Attempt, PollGuard(a) PROVE QueueInv'
    <3>1. a <= latest
      BY <2>28 DEF PollGuard, ThreadInv
    <3>2. (Post("stop", a) \/ UNCHANGED mainQ) /\ UNCHANGED latest
      BY <2>28 DEF PollGuard, instance
    <3>3. QED BY <3>1, <3>2, PostBounded
  <2>29. ASSUME NEW a \in Attempt, SendfdOk(a) PROVE QueueInv'
    <3>1. a <= latest
      BY <2>29 DEF SendfdOk, ThreadInv
    <3>2. (Post("postStart", a) \/ UNCHANGED mainQ) /\ UNCHANGED latest
      BY <2>29 DEF SendfdOk, instance
    <3>3. QED BY <3>1, <3>2, PostBounded
  <2>30. ASSUME NEW a \in Attempt, SendfdFailed(a) PROVE QueueInv'
    BY <2>30, Types
       DEF SendfdFailed, flags, fields, instance, looper, stops, system,
           procs, QueueInv
  <2>31. ASSUME NEW a \in Attempt, ProcBind(a) PROVE QueueInv'
    BY <2>31, Types
       DEF ProcBind, flags, fields, instance, looper, stops, system,
           startThreads, QueueInv
  <2>32. ASSUME NEW a \in Attempt, ProcExit(a) PROVE QueueInv'
    BY <2>32, Types
       DEF ProcExit, flags, fields, instance, looper, stops, system,
           startThreads, QueueInv
  <2>33. ASSUME NEW a \in Attempt, MonitorExit(a) PROVE QueueInv'
    <3>1. a <= latest
      BY <2>33 DEF MonitorExit, ThreadInv
    <3>2. (Post("exited", a) \/ UNCHANGED mainQ) /\ UNCHANGED latest
      BY <2>33 DEF MonitorExit, instance
    <3>3. QED BY <3>1, <3>2, PostBounded
  <2>34. CASE UNCHANGED vars
    BY <2>34, Types
       DEF vars, flags, fields, instance, looper, stops, system,
           startThreads, procs, history, QueueInv
  <2>35. QED
    BY <2>1, <2>2, <2>3, <2>4, <2>5, <2>6, <2>7, <2>8, <2>9, <2>10, <2>11,
       <2>12, <2>13, <2>14, <2>15, <2>16, <2>17, <2>18, <2>19, <2>20, <2>21,
       <2>22, <2>23, <2>24, <2>25, <2>26, <2>27, <2>28, <2>29, <2>30, <2>31,
       <2>32, <2>33, <2>34
       DEF Next, Step, MainStep, Request, StopStep, ThreadStep, ProcStep
<1>2. QED BY <1>1

-----------------------------------------------------------------------------
\* Generations, as long as the counter never went back: every captured
\* generation is one already handed out, and those of earlier attempts are
\* spent once onStartCommand has taken its own.  What the main thread read for
\* its ++ is no older than any captured generation, so that a stop that lands
\* between the read and the write can only be overwritten, not undone.
SeqInv ==
  ~seqBack =>
    /\ \A a \in Attempt : connectSeq[a] <= mConnectSeq
    /\ main = "seqWrite" => \A a \in Attempt : connectSeq[a] <= seen["main"]
    /\ main \notin {"seq", "seqWrite"} =>
         \A a \in Attempt : a < latest => connectSeq[a] < mConnectSeq
    /\ UpIsLatest

\* Outside the window between mRunning = true and the write of mConnectSeq++,
\* an attempt that passes the staleness test is the latest.
LEMMA CurrentIsLatest ==
  ASSUME TypeInv, SeqInv, ~seqBack, main \notin {"seq", "seqWrite"},
         NEW h \in Attempt, h <= latest, ~Stale(h)
  PROVE  h = latest
<1>1. connectSeq[h] = mConnectSeq
  BY DEF Stale
<1>2. ~(h < latest)
  BY <1>1, Types DEF SeqInv
<1>3. QED BY <1>2, Types, Basics

\* The steps that touch neither the counter nor what was captured from it.
LEMMA SeqQuietStep ==
  ASSUME TypeInv, SeqInv, ~seqBack, UNCHANGED <<mConnectSeq, connectSeq, latest>>,
         (main' = main /\ UNCHANGED upBy) \/ main' \notin {"seqWrite", "postStart"},
         main' # main => main \notin {"seq", "seqWrite"},
         main = "seqWrite" /\ main' = "seqWrite" => seen'["main"] = seen["main"]
  PROVE  SeqInv'
  BY Types DEF SeqInv, UpIsLatest

\* Every step keeps the generations of earlier attempts behind mConnectSeq.
LEMMA SeqStep ==
  TypeInv /\ ThreadInv /\ QueueInv /\ SeqInv /\ [Next]_vars => SeqInv'
<1> SUFFICES ASSUME TypeInv, ThreadInv, QueueInv, SeqInv, [Next]_vars, ~seqBack'
             PROVE  SeqInv'
  BY DEF SeqInv
<1>0. ~seqBack /\ ~(mConnectSeq' < mConnectSeq)
  <2>1. CASE Next
    BY <2>1, Zenon DEF Next, Record
  <2>2. CASE UNCHANGED vars
    BY <2>2, Types DEF vars, history, flags
  <2>3. QED BY <2>1, <2>2
<1>1. SeqInv'
  <2>1. CASE StartSeqRead
    BY <2>1, <1>0, Types, Basics
       DEF StartSeqRead, flags, instance, SeqInv, UpIsLatest
  <2>2. CASE StartSeqWrite
    BY <2>2, <1>0, Types, Basics
       DEF StartSeqWrite, instance, SeqInv, UpIsLatest
  <2>3. CASE CaptureSeq
    BY <2>3, <1>0, Types, Basics
       DEF CaptureSeq, flags, SeqInv, UpIsLatest
  <2>4. CASE Configure
    BY <2>4, <1>0, SeqQuietStep
       DEF Configure, flags, instance, stops
  <2>5. CASE ConfigureFailed
    BY <2>5, <1>0, SeqQuietStep
       DEF ConfigureFailed, Claim, instance
  <2>6. CASE Start
    BY <2>6, <1>0, SeqQuietStep
       DEF Start, instance, stops
  <2>7. CASE HandlePostStart
    <3>1. Head(mainQ).att \in Attempt
      BY <2>7, HeadType, Types DEF HandlePostStart
    <3>2. Head(mainQ).att <= latest
      BY <2>7, Types DEF HandlePostStart, QueueInv
    <3>3. ~Stale(Head(mainQ).att) => Head(mainQ).att = latest
      BY <2>7, <1>0, <3>1, <3>2, CurrentIsLatest DEF HandlePostStart, MainIdle
    <3>4. UNCHANGED <<mConnectSeq, connectSeq, latest>> /\ main = "idle"
          /\ main' \in {"idle", "postStart"}
          /\ (main' = "postStart" => upBy' = latest)
      BY <2>7, <3>3 DEF HandlePostStart, MainIdle, flags, instance
    <3>5. QED BY <1>0, <3>4, Types DEF SeqInv, UpIsLatest
  <2>8. CASE PostStartOnMain
    BY <2>8, <1>0, SeqQuietStep DEF PostStartOnMain, instance
  <2>9. CASE HandleStop
    BY <2>9, <1>0, SeqQuietStep
       DEF HandleStop, Claim, MainIdle, instance
  <2>10. CASE OnStartCommand
    BY <2>10, <1>0, Types, Basics
       DEF OnStartCommand, MainIdle, SeqInv, UpIsLatest
  <2>11. CASE MainStop
    BY <2>11, <1>0, SeqQuietStep
       DEF MainStop, Claim, MainIdle, instance, looper
  <2>12. CASE OnDestroy
    BY <2>12, <1>0, SeqQuietStep
       DEF OnDestroy, MainIdle, flags, looper
  <2>13. ASSUME NEW s \in Stopper, StopCancel(s) PROVE SeqInv'
    BY <2>13, <1>0, SeqQuietStep
       DEF StopCancel, instance, looper
  <2>14. ASSUME NEW s \in Stopper, StopSeqRead(s) PROVE SeqInv'
    <3>1. main = "seqWrite" => \A a \in Attempt : connectSeq[a] <= seen'["main"]
      BY <2>14, <1>0, Types, Basics DEF StopSeqRead, SeqInv
    <3>2. UNCHANGED <<main, upBy, mConnectSeq, connectSeq, latest>>
      BY <2>14 DEF StopSeqRead, flags, instance, looper
    <3>3. QED BY <1>0, <3>1, <3>2, Types DEF SeqInv, UpIsLatest
  <2>15. ASSUME NEW s \in Stopper, StopSeqWrite(s) PROVE SeqInv'
    <3>1. mConnectSeq' \in Nat /\ mConnectSeq <= mConnectSeq'
      BY <2>15, <1>0, Types DEF StopSeqWrite
    <3>2. UNCHANGED <<main, upBy, connectSeq, latest>>
      BY <2>15 DEF StopSeqWrite, instance, looper
    <3>3. main = "seqWrite" => s # "main"
      BY <2>15 DEF StopSeqWrite, GoTo, TypeInv
    <3>4. main = "seqWrite" => \A a \in Attempt : connectSeq[a] <= seen'["main"]
      BY <2>15, <1>0, <3>3, Types, Basics DEF StopSeqWrite, SeqInv
    <3>5. QED
      BY <1>0, <3>1, <3>2, <3>4, Types DEF SeqInv, UpIsLatest
  <2>16. ASSUME NEW s \in Stopper, StopKill(s) PROVE SeqInv'
    BY <2>16, <1>0, SeqQuietStep
       DEF StopKill, flags, instance, looper
  <2>17. ASSUME NEW s \in Stopper, StopForget(s) PROVE SeqInv'
    BY <2>17, <1>0, SeqQuietStep
       DEF StopForget, flags, instance, looper
  <2>18. ASSUME NEW s \in Stopper, StopClose(s) PROVE SeqInv'
    BY <2>18, <1>0, SeqQuietStep
       DEF StopClose, flags, instance, looper
  <2>19. ASSUME NEW s \in Stopper, StopClear(s) PROVE SeqInv'
    BY <2>19, <1>0, SeqQuietStep
       DEF StopClear, instance, looper
  <2>20. ASSUME NEW s \in Stopper, StopDown(s) PROVE SeqInv'
    BY <2>20, <1>0, SeqQuietStep
       DEF StopDown, instance, looper
  <2>21. ASSUME NEW b \in BinderThreads, BinderStop(b) PROVE SeqInv'
    BY <2>21, <1>0, SeqQuietStep
       DEF BinderStop, Claim, instance, looper
  <2>22. ASSUME NEW a \in Attempt, JoinDns(a) PROVE SeqInv'
    BY <2>22, <1>0, SeqQuietStep
       DEF JoinDns, flags, instance, looper, stops
  <2>23. ASSUME NEW a \in Attempt, LaunchPdnsdFailed(a) PROVE SeqInv'
    BY <2>23, <1>0, SeqQuietStep
       DEF LaunchPdnsdFailed, flags, instance, stops
  <2>24. ASSUME NEW a \in Attempt, SpawnTun2socks(a) PROVE SeqInv'
    BY <2>24, <1>0, SeqQuietStep
       DEF SpawnTun2socks, flags, instance, looper, stops
  <2>25. ASSUME NEW a \in Attempt, SpawnFailed(a) PROVE SeqInv'
    BY <2>25, <1>0, SeqQuietStep
       DEF SpawnFailed, flags, instance, stops
  <2>26. ASSUME NEW a \in Attempt, AfterSpawn(a) PROVE SeqInv'
    BY <2>26, <1>0, SeqQuietStep
       DEF AfterSpawn, flags, instance, looper, stops
  <2>27. ASSUME NEW a \in Attempt, ForgetSpawned(a) PROVE SeqInv'
    BY <2>27, <1>0, SeqQuietStep
       DEF ForgetSpawned, flags, instance, looper, stops
  <2>28. ASSUME NEW a \in Attempt, PollGuard(a) PROVE SeqInv'
    BY <2>28, <1>0, SeqQuietStep
       DEF PollGuard, flags, instance, stops
  <2>29. ASSUME NEW a \in Attempt, SendfdOk(a) PROVE SeqInv'
    BY <2>29, <1>0, SeqQuietStep
       DEF SendfdOk, flags, instance, stops
  <2>30. ASSUME NEW a \in Attempt, SendfdFailed(a) PROVE SeqInv'
    BY <2>30, <1>0, SeqQuietStep
       DEF SendfdFailed, flags, instance, looper, stops
  <2>31. ASSUME NEW a \in Attempt, ProcBind(a) PROVE SeqInv'
    BY <2>31, <1>0, SeqQuietStep
       DEF ProcBind, flags, instance, looper, stops
  <2>32. ASSUME NEW a \in Attempt, ProcExit(a) PROVE SeqInv'
    BY <2>32, <1>0, SeqQuietStep
       DEF ProcExit, flags, instance, looper, stops
  <2>33. ASSUME NEW a \in Attempt, MonitorExit(a) PROVE SeqInv'
    BY <2>33, <1>0, SeqQuietStep
       DEF MonitorExit, flags, instance, stops
  <2>34. CASE UNCHANGED vars
    BY <2>34, <1>0, SeqQuietStep
       DEF vars, flags, fields, instance, looper, stops, system,
           startThreads, procs, history
  <2>35. QED
    BY <2>1, <2>2, <2>3, <2>4, <2>5, <2>6, <2>7, <2>8, <2>9, <2>10, <2>11,
       <2>12, <2>13, <2>14, <2>15, <2>16, <2>17, <2>18, <2>19, <2>20, <2>21,
       <2>22, <2>23, <2>24, <2>25, <2>26, <2>27, <2>28, <2>29, <2>30, <2>31,
       <2>32, <2>33, <2>34
       DEF Next, Step, MainStep, Request, StopStep, ThreadStep, ProcStep
<1>2. QED BY <1>1

\* The purpose of mConnectSeq: with stops on any thread, one increment
\* overwriting another included, postStartOnMain only runs for the attempt the
\* service's fields belong to, as long as the counter is not taken back.
THEOREM UpIsLatestAlways == Spec => []UpIsLatest
<1>1. Init => TypeInv /\ ThreadInv /\ QueueInv /\ SeqInv
  <2>1. Init => TypeInv
    BY InitType
  <2>2. Init => ThreadInv /\ QueueInv /\ SeqInv
    BY Basics DEF Init, ThreadInv, QueueInv, SeqInv, UpIsLatest
  <2>3. QED BY <2>1, <2>2
<1>2. SeqInv => UpIsLatest
  BY DEF SeqInv, UpIsLatest
<1>3. QED
  BY <1>1, <1>2, TypeStep, ThreadStepInv, QueueStepInv, SeqStep, PTL DEF Spec

-----------------------------------------------------------------------------
\* Until a binder's stop overlaps a start or a completion, handlers and
\* teardowns exclude each other although they run on different threads, two
\* teardowns overlap only once the instance is destroyed, and so no increment of
\* mConnectSeq is lost before.
SoloInv ==
  /\ destroyed /\ ~raced => ~mRunning
  /\ ~raced => /\ main # "idle" => mRunning /\ \A s \in Stopper : stop[s] = "idle"
               /\ \A s \in Stopper : stop[s] # "idle" => ~mRunning
  /\ ~raced /\ ~destroyed =>
       /\ \A s, t \in Stopper : stop[s] # "idle" /\ stop[t] # "idle" => s = t
       /\ \A s \in Stopper : stop[s] = "seqWrite" => seen[s] = mConnectSeq
       /\ main = "seqWrite" => seen["main"] = mConnectSeq
       /\ ~seqBack

\* What a step leaves on record when it is no overlap.
LEMMA NoOverlap ==
  ASSUME TypeInv, [Next]_vars, ~raced'
  PROVE  \/ /\ ~raced
            /\ main' # "idle" => \A b \in BinderThreads : stop'[b] = "idle"
            /\ seqBack' => seqBack \/ mConnectSeq' < mConnectSeq
         \/ UNCHANGED vars /\ ~raced
<1>1. CASE Next
  BY <1>1, Zenon DEF Next, Record
<1>2. CASE UNCHANGED vars
  BY <1>2 DEF vars, history
<1>3. QED BY <1>1, <1>2

\* The steps that leave the handlers, the teardowns and the counter alone.
LEMMA SoloQuietStep ==
  ASSUME SoloInv, ~raced,
         UNCHANGED <<mRunning, destroyed, main, stop, seen, mConnectSeq>>,
         seqBack' => seqBack \/ mConnectSeq' < mConnectSeq, mConnectSeq \in Nat
  PROVE  SoloInv'
  BY DEF SoloInv

\* Every step keeps handlers and teardowns apart.
LEMMA SoloStep == TypeInv /\ SoloInv /\ [Next]_vars => SoloInv'
<1> SUFFICES ASSUME TypeInv, SoloInv, [Next]_vars, ~raced' PROVE SoloInv'
  BY DEF SoloInv
<1>0. CASE ~UNCHANGED vars
  <2>0. /\ ~raced
        /\ main' # "idle" => \A b \in BinderThreads : stop'[b] = "idle"
        /\ seqBack' => seqBack \/ mConnectSeq' < mConnectSeq
        /\ Stopper = {"main"} \cup BinderThreads
        /\ "main" \notin BinderThreads
    BY <1>0, NoOverlap, BinderAssumption DEF Stopper
  <2>1. CASE StartSeqRead
    BY <2>1, <2>0, Types, Basics
       DEF StartSeqRead, flags, instance, SoloInv, TypeInv
  <2>2. CASE StartSeqWrite
    BY <2>2, <2>0, Types, Basics
       DEF StartSeqWrite, instance, SoloInv, TypeInv
  <2>3. CASE CaptureSeq
    BY <2>3, <2>0, Types, Basics
       DEF CaptureSeq, flags, stops, SoloInv, TypeInv
  <2>4. CASE Configure
    BY <2>4, <2>0, Types, Basics
       DEF Configure, flags, instance, stops, SoloInv, TypeInv
  <2>5. CASE ConfigureFailed
    BY <2>5, <2>0, Types, Basics
       DEF ConfigureFailed, Claim, instance, SoloInv, TypeInv
  <2>6. CASE Start
    BY <2>6, <2>0, Types, Basics
       DEF Start, instance, stops, SoloInv, TypeInv
  <2>7. CASE HandlePostStart
    BY <2>7, <2>0, Types, Basics
       DEF HandlePostStart, MainIdle, Stale, flags, instance, stops, SoloInv, TypeInv
  <2>8. CASE PostStartOnMain
    BY <2>8, <2>0, Types, Basics
       DEF PostStartOnMain, instance, stops, SoloInv, TypeInv
  <2>9. CASE HandleStop
    BY <2>9, <2>0, Types, Basics
       DEF HandleStop, Claim, MainIdle, instance, SoloInv, TypeInv
  <2>10. CASE OnStartCommand
    BY <2>10, <2>0, Types, Basics
       DEF OnStartCommand, MainIdle, stops, SoloInv, TypeInv
  <2>11. CASE MainStop
    BY <2>11, <2>0, Types, Basics
       DEF MainStop, Claim, MainIdle, instance, looper, SoloInv, TypeInv
  <2>12. CASE OnDestroy
    BY <2>12, <2>0, Types, Basics
       DEF OnDestroy, MainIdle, flags, looper, SoloInv, TypeInv
  <2>13. ASSUME NEW s \in Stopper, StopCancel(s) PROVE SoloInv'
    BY <2>13, <2>0, Types, Basics
       DEF StopCancel, GoTo, instance, looper, SoloInv, TypeInv
  <2>14. ASSUME NEW s \in Stopper, StopSeqRead(s) PROVE SoloInv'
    BY <2>14, <2>0, Types, Basics
       DEF StopSeqRead, GoTo, flags, instance, looper, SoloInv, TypeInv
  <2>15. ASSUME NEW s \in Stopper, StopSeqWrite(s) PROVE SoloInv'
    BY <2>15, <2>0, Types, Basics
       DEF StopSeqWrite, GoTo, instance, looper, SoloInv, TypeInv
  <2>16. ASSUME NEW s \in Stopper, StopKill(s) PROVE SoloInv'
    BY <2>16, <2>0, Types, Basics
       DEF StopKill, GoTo, flags, instance, looper, SoloInv, TypeInv
  <2>17. ASSUME NEW s \in Stopper, StopForget(s) PROVE SoloInv'
    BY <2>17, <2>0, Types, Basics
       DEF StopForget, GoTo, flags, instance, looper, SoloInv, TypeInv
  <2>18. ASSUME NEW s \in Stopper, StopClose(s) PROVE SoloInv'
    BY <2>18, <2>0, Types, Basics
       DEF StopClose, GoTo, flags, instance, looper, SoloInv, TypeInv
  <2>19. ASSUME NEW s \in Stopper, StopClear(s) PROVE SoloInv'
    BY <2>19, <2>0, Types, Basics
       DEF StopClear, GoTo, instance, looper, SoloInv, TypeInv
  <2>20. ASSUME NEW s \in Stopper, StopDown(s) PROVE SoloInv'
    BY <2>20, <2>0, Types, Basics
       DEF StopDown, GoTo, instance, looper, SoloInv, TypeInv
  <2>21. ASSUME NEW b \in BinderThreads, BinderStop(b) PROVE SoloInv'
    BY <2>21, <2>0, Types, Basics
       DEF BinderStop, Claim, instance, looper, SoloInv, TypeInv
  <2>22. ASSUME NEW a \in Attempt, JoinDns(a) PROVE SoloInv'
    BY <2>22, <2>0, SoloQuietStep, Types
       DEF JoinDns, flags, instance, looper, stops
  <2>23. ASSUME NEW a \in Attempt, LaunchPdnsdFailed(a) PROVE SoloInv'
    BY <2>23, <2>0, SoloQuietStep, Types
       DEF LaunchPdnsdFailed, flags, instance, stops
  <2>24. ASSUME NEW a \in Attempt, SpawnTun2socks(a) PROVE SoloInv'
    BY <2>24, <2>0, SoloQuietStep, Types
       DEF SpawnTun2socks, flags, instance, looper, stops
  <2>25. ASSUME NEW a \in Attempt, SpawnFailed(a) PROVE SoloInv'
    BY <2>25, <2>0, SoloQuietStep, Types
       DEF SpawnFailed, flags, instance, stops
  <2>26. ASSUME NEW a \in Attempt, AfterSpawn(a) PROVE SoloInv'
    BY <2>26, <2>0, SoloQuietStep, Types
       DEF AfterSpawn, flags, instance, looper, stops
  <2>27. ASSUME NEW a \in Attempt, ForgetSpawned(a) PROVE SoloInv'
    BY <2>27, <2>0, SoloQuietStep, Types
       DEF ForgetSpawned, flags, instance, looper, stops
  <2>28. ASSUME NEW a \in Attempt, PollGuard(a) PROVE SoloInv'
    BY <2>28, <2>0, SoloQuietStep, Types
       DEF PollGuard, flags, instance, stops
  <2>29. ASSUME NEW a \in Attempt, SendfdOk(a) PROVE SoloInv'
    BY <2>29, <2>0, SoloQuietStep, Types
       DEF SendfdOk, flags, instance, stops
  <2>30. ASSUME NEW a \in Attempt, SendfdFailed(a) PROVE SoloInv'
    BY <2>30, <2>0, SoloQuietStep, Types
       DEF SendfdFailed, flags, instance, looper, stops
  <2>31. ASSUME NEW a \in Attempt, ProcBind(a) PROVE SoloInv'
    BY <2>31, <2>0, SoloQuietStep, Types
       DEF ProcBind, flags, instance, looper, stops
  <2>32. ASSUME NEW a \in Attempt, ProcExit(a) PROVE SoloInv'
    BY <2>32, <2>0, SoloQuietStep, Types
       DEF ProcExit, flags, instance, looper, stops
  <2>33. ASSUME NEW a \in Attempt, MonitorExit(a) PROVE SoloInv'
    BY <2>33, <2>0, SoloQuietStep, Types
       DEF MonitorExit, flags, instance, stops
  <2>34. QED
    BY <1>0, <2>1, <2>2, <2>3, <2>4, <2>5, <2>6, <2>7, <2>8, <2>9, <2>10,
       <2>11, <2>12, <2>13, <2>14, <2>15, <2>16, <2>17, <2>18, <2>19, <2>20,
       <2>21, <2>22, <2>23, <2>24, <2>25, <2>26, <2>27, <2>28, <2>29, <2>30,
       <2>31, <2>32, <2>33
       DEF Next, Step, MainStep, Request, StopStep, ThreadStep, ProcStep
<1>1. CASE UNCHANGED vars
  BY <1>1
     DEF vars, flags, fields, instance, looper, stops, system, startThreads,
         procs, history, SoloInv
<1>2. QED BY <1>0, <1>1

-----------------------------------------------------------------------------
\* A teardown is under way that has yet to close the interface.
Closing(s) == stop[s] \in {"cancel", "seq", "seqWrite", "kill", "forget", "close"}

\* Until a binder's stop overlaps a start or a completion: the service has at
\* most the descriptor in mInterface, has the one of the current attempt from
\* configure() to the end of its session, and has closed it once a teardown got
\* that far; mTunnelUp is false from the end of a teardown until the next
\* completion; and mSendfdCancelled is set from a stop to the next start().
DownInv ==
  ~raced =>
    /\ fds \subseteq {mInterface}
    /\ main \in {"seq", "seqWrite", "capture", "configure"} => fds = {}
    /\ main \in {"seq", "seqWrite", "capture", "configure", "start"} => ~mTunnelUp
    /\ mRunning /\ main \notin {"seq", "seqWrite", "capture", "configure"} =>
         tun = latest /\ latest \in fds
    /\ ~mRunning /\ (\A s \in Stopper : ~Closing(s)) => fds = {}
    /\ ~mRunning /\ (\A s \in Stopper : stop[s] = "idle") => ~mTunnelUp
    /\ main \in {"seq", "seqWrite", "capture", "configure", "start"} /\ latest > 1
         => mSendfdCancelled
    /\ ~mRunning /\ latest > 0 /\ (\A s \in Stopper : stop[s] # "cancel")
         => mSendfdCancelled

\* The steps that touch nothing DownInv speaks of.
LEMMA DownQuietStep ==
  ASSUME DownInv, ~raced,
         UNCHANGED <<mRunning, mSendfdCancelled, mTunnelUp, mInterface, latest,
                     main, stop, tun, fds>>
  PROVE  DownInv'
  BY DEF DownInv, Closing

\* Every step keeps what a teardown has undone undone.
LEMMA DownStep == TypeInv /\ SoloInv /\ DownInv /\ [Next]_vars => DownInv'
<1> SUFFICES ASSUME TypeInv, SoloInv, DownInv, [Next]_vars, ~raced' PROVE DownInv'
  BY DEF DownInv
<1>0. CASE ~UNCHANGED vars
  <2>0. /\ ~raced
        /\ main' # "idle" => \A b \in BinderThreads : stop'[b] = "idle"
        /\ Stopper = {"main"} \cup BinderThreads
        /\ "main" \notin BinderThreads
    BY <1>0, NoOverlap, BinderAssumption DEF Stopper
  <2>1. CASE StartSeqRead
    BY <2>1, <2>0, Types, Basics
       DEF StartSeqRead, flags, fields, instance, system, SoloInv, DownInv,
           Closing, TypeInv
  <2>2. CASE StartSeqWrite
    BY <2>2, <2>0, Types, Basics
       DEF StartSeqWrite, fields, instance, system, SoloInv, DownInv,
           Closing, TypeInv
  <2>3. CASE CaptureSeq
    BY <2>3, <2>0, Types, Basics
       DEF CaptureSeq, flags, fields, stops, system, SoloInv, DownInv,
           Closing, TypeInv
  <2>4. CASE Configure
    BY <2>4, <2>0, Types, Basics
       DEF Configure, flags, instance, stops, SoloInv, DownInv, Closing,
           TypeInv
  <2>5. CASE ConfigureFailed
    BY <2>5, <2>0, Types, Basics
       DEF ConfigureFailed, Claim, instance, system, SoloInv, DownInv,
           Closing, TypeInv
  <2>6. CASE Start
    BY <2>6, <2>0, Types, Basics
       DEF Start, fields, instance, stops, system, SoloInv, DownInv, Closing,
           TypeInv
  <2>7. CASE HandlePostStart
    BY <2>7, <2>0, Types, Basics
       DEF HandlePostStart, MainIdle, flags, fields, instance, stops, system,
           SoloInv, DownInv, Closing, TypeInv
  <2>8. CASE PostStartOnMain
    BY <2>8, <2>0, Types, Basics
       DEF PostStartOnMain, fields, instance, stops, system, SoloInv,
           DownInv, Closing, TypeInv
  <2>9. CASE HandleStop
    BY <2>9, <2>0, Types, Basics
       DEF HandleStop, Claim, MainIdle, fields, instance, system, SoloInv,
           DownInv, Closing, TypeInv
  <2>10. CASE OnStartCommand
    BY <2>10, <2>0, Types, Basics
       DEF OnStartCommand, MainIdle, fields, stops, system, SoloInv, DownInv,
           Closing, TypeInv
  <2>11. CASE MainStop
    BY <2>11, <2>0, Types, Basics
       DEF MainStop, Claim, MainIdle, fields, instance, looper, system,
           SoloInv, DownInv, Closing, TypeInv
  <2>12. CASE OnDestroy
    BY <2>12, <2>0, Types, Basics
       DEF OnDestroy, MainIdle, flags, fields, looper, system, SoloInv,
           DownInv, Closing, TypeInv
  <2>13. ASSUME NEW s \in Stopper, StopCancel(s) PROVE DownInv'
    BY <2>13, <2>0, Types, Basics
       DEF StopCancel, GoTo, fields, instance, looper, system, SoloInv,
           DownInv, Closing, TypeInv
  <2>14. ASSUME NEW s \in Stopper, StopSeqRead(s) PROVE DownInv'
    BY <2>14, <2>0, Types, Basics
       DEF StopSeqRead, GoTo, flags, fields, instance, looper, system,
           SoloInv, DownInv, Closing, TypeInv
  <2>15. ASSUME NEW s \in Stopper, StopSeqWrite(s) PROVE DownInv'
    BY <2>15, <2>0, Types, Basics
       DEF StopSeqWrite, GoTo, fields, instance, looper, system, SoloInv,
           DownInv, Closing, TypeInv
  <2>16. ASSUME NEW s \in Stopper, StopKill(s) PROVE DownInv'
    BY <2>16, <2>0, Types, Basics
       DEF StopKill, GoTo, flags, fields, instance, looper, system, SoloInv,
           DownInv, Closing, TypeInv
  <2>17. ASSUME NEW s \in Stopper, StopForget(s) PROVE DownInv'
    BY <2>17, <2>0, Types, Basics
       DEF StopForget, GoTo, flags, instance, looper, system, SoloInv,
           DownInv, Closing, TypeInv
  <2>18. ASSUME NEW s \in Stopper, StopClose(s) PROVE DownInv'
    BY <2>18, <2>0, Types, Basics
       DEF StopClose, GoTo, flags, fields, instance, looper, SoloInv,
           DownInv, Closing, TypeInv
  <2>19. ASSUME NEW s \in Stopper, StopClear(s) PROVE DownInv'
    BY <2>19, <2>0, Types, Basics
       DEF StopClear, GoTo, fields, instance, looper, system, SoloInv,
           DownInv, Closing, TypeInv
  <2>20. ASSUME NEW s \in Stopper, StopDown(s) PROVE DownInv'
    BY <2>20, <2>0, Types, Basics
       DEF StopDown, GoTo, fields, instance, looper, system, SoloInv,
           DownInv, Closing, TypeInv
  <2>21. ASSUME NEW b \in BinderThreads, BinderStop(b) PROVE DownInv'
    BY <2>21, <2>0, Types, Basics
       DEF BinderStop, Claim, fields, instance, looper, system, SoloInv,
           DownInv, Closing, TypeInv
  <2>22. ASSUME NEW a \in Attempt, JoinDns(a) PROVE DownInv'
    BY <2>22, <2>0, DownQuietStep
       DEF JoinDns, flags, fields, instance, looper, stops, system
  <2>23. ASSUME NEW a \in Attempt, LaunchPdnsdFailed(a) PROVE DownInv'
    BY <2>23, <2>0, DownQuietStep
       DEF LaunchPdnsdFailed, flags, fields, instance, stops, system
  <2>24. ASSUME NEW a \in Attempt, SpawnTun2socks(a) PROVE DownInv'
    BY <2>24, <2>0, DownQuietStep
       DEF SpawnTun2socks, flags, instance, looper, stops, system
  <2>25. ASSUME NEW a \in Attempt, SpawnFailed(a) PROVE DownInv'
    BY <2>25, <2>0, DownQuietStep
       DEF SpawnFailed, flags, fields, instance, stops, system
  <2>26. ASSUME NEW a \in Attempt, AfterSpawn(a) PROVE DownInv'
    BY <2>26, <2>0, DownQuietStep
       DEF AfterSpawn, flags, fields, instance, looper, stops, system
  <2>27. ASSUME NEW a \in Attempt, ForgetSpawned(a) PROVE DownInv'
    BY <2>27, <2>0, DownQuietStep
       DEF ForgetSpawned, flags, instance, looper, stops, system
  <2>28. ASSUME NEW a \in Attempt, PollGuard(a) PROVE DownInv'
    BY <2>28, <2>0, DownQuietStep
       DEF PollGuard, flags, fields, instance, stops, system
  <2>29. ASSUME NEW a \in Attempt, SendfdOk(a) PROVE DownInv'
    BY <2>29, <2>0, DownQuietStep
       DEF SendfdOk, flags, fields, instance, stops, system
  <2>30. ASSUME NEW a \in Attempt, SendfdFailed(a) PROVE DownInv'
    BY <2>30, <2>0, DownQuietStep
       DEF SendfdFailed, flags, fields, instance, looper, stops, system
  <2>31. ASSUME NEW a \in Attempt, ProcBind(a) PROVE DownInv'
    BY <2>31, <2>0, DownQuietStep
       DEF ProcBind, flags, fields, instance, looper, stops, system
  <2>32. ASSUME NEW a \in Attempt, ProcExit(a) PROVE DownInv'
    BY <2>32, <2>0, DownQuietStep
       DEF ProcExit, flags, fields, instance, looper, stops, system
  <2>33. ASSUME NEW a \in Attempt, MonitorExit(a) PROVE DownInv'
    BY <2>33, <2>0, DownQuietStep
       DEF MonitorExit, flags, fields, instance, stops, system
  <2>34. QED
    BY <1>0, <2>1, <2>2, <2>3, <2>4, <2>5, <2>6, <2>7, <2>8, <2>9, <2>10,
       <2>11, <2>12, <2>13, <2>14, <2>15, <2>16, <2>17, <2>18, <2>19, <2>20,
       <2>21, <2>22, <2>23, <2>24, <2>25, <2>26, <2>27, <2>28, <2>29, <2>30,
       <2>31, <2>32, <2>33
       DEF Next, Step, MainStep, Request, StopStep, ThreadStep, ProcStep
<1>1. CASE UNCHANGED vars
  BY <1>1
     DEF vars, flags, fields, instance, looper, stops, system, startThreads,
         procs, history, DownInv, Closing
<1>2. QED BY <1>0, <1>1

-----------------------------------------------------------------------------
\* Until a binder's stop overlaps a start or a completion, only the current
\* attempt passes the staleness test, even while onStartCommand has yet to take
\* a generation.
LEMMA OnlyLatestPasses ==
  ASSUME TypeInv, SeqInv, SoloInv, DownInv, ~raced,
         NEW h \in Attempt, h <= latest, ~Stale(h)
  PROVE  h = latest /\ mRunning
<1>1. mRunning /\ ~mSendfdCancelled
  BY DEF Stale
<1>2. ~seqBack
  BY <1>1 DEF SoloInv
<1>3. CASE main \in {"seq", "seqWrite"}
  <2>1. h < latest => latest > 1
    BY Types, BoundsAssumption DEF Attempt
  <2>2. QED BY <1>1, <1>3, <2>1, Types, Basics DEF DownInv
<1>4. CASE main \notin {"seq", "seqWrite"}
  BY <1>1, <1>2, <1>4, CurrentIsLatest
<1>5. QED BY <1>3, <1>4

\* Some other attempt's start thread stored its process over, or will clear,
\* the one that was in the field, and can no longer pass its checkpoint.
Lost(p) == \E a \in Attempt : /\ a # p
                              /\ Overwrote(a)
                              /\ a # latest \/ ~mRunning

\* Until a binder's stop overlaps a start or a completion: a monitored process
\* of the current attempt is in the field for stopMe to find, was signalled, or
\* was lost; the one stopMe is about to forget it has signalled; and those of
\* earlier attempts, or of this one once its teardown came that far, were
\* signalled or lost.
KillInv ==
  ~raced =>
    \A p \in Attempt :
      /\ p = latest /\ (monitor[p] # "none" \/ (thread[p] = "spawned" /\ mRunning))
           => sigterm[p] \/ mTun2socksProcess = p \/ Lost(p)
      /\ mTun2socksProcess = p /\ monitor[p] # "none"
           /\ (\E s \in Stopper : stop[s] = "forget") => sigterm[p]
      /\ monitor[p] # "none"
           /\ \/ p # latest
              \/ /\ ~mRunning
                 /\ \A s \in Stopper :
                      stop[s] \notin {"cancel", "seq", "seqWrite", "kill"}
           => sigterm[p] \/ Lost(p)

\* A process once lost stays lost.
LEMMA StaysLost ==
  ASSUME TypeInv, ThreadInv, SeqInv, SoloInv, DownInv, ~raced,
         (latest' = latest /\ (mRunning' => mRunning)) \/ latest' = latest + 1,
         \A a \in Attempt : proc[a] # "none" => proc'[a] # "none",
         \A a \in Attempt : monitor'[a] = monitor[a]
                            \/ monitor[a] # "none"
                            \/ (a = latest /\ mRunning /\ latest' = latest)
  PROVE  \A p \in Attempt : Lost(p) => Lost(p)'
<1> SUFFICES ASSUME NEW p \in Attempt, Lost(p) PROVE Lost(p)'
  OBVIOUS
<1>1. PICK a \in Attempt : a # p /\ Overwrote(a) /\ (a # latest \/ ~mRunning)
  BY DEF Lost
<1>2. proc'[a] # "none" /\ monitor'[a] = "none"
  BY <1>1 DEF Overwrote
<1>3. a <= latest
  BY <1>1, Types DEF ThreadInv, Overwrote
<1>4. a # latest' \/ ~mRunning'
  BY <1>1, <1>3, Types, Basics
<1>5. QED BY <1>1, <1>2, <1>4 DEF Lost, Overwrote

\* Steps that leave processes, their monitors and the teardowns alone.
LEMMA KillQuietStep ==
  ASSUME KillInv, ~raced,
         UNCHANGED <<mRunning, latest, stop, mTun2socksProcess, monitor, sigterm>>,
         \A a \in Attempt : proc[a] # "none" => proc'[a] # "none",
         \A a \in Attempt : thread'[a] = "spawned" => thread[a] = "spawned"
  PROVE  KillInv'
<1>1. \A p \in Attempt : Lost(p) => Lost(p)'
  BY DEF Lost, Overwrote
<1>2. QED BY <1>1 DEF KillInv

\* Every step keeps processes reachable, signalled or lost.
LEMMA KillStep ==
  TypeInv /\ ThreadInv /\ SeqInv /\ SoloInv /\ DownInv /\ KillInv /\ [Next]_vars
    => KillInv'
<1> SUFFICES ASSUME TypeInv, ThreadInv, SeqInv, SoloInv, DownInv, KillInv,
                    [Next]_vars, ~raced'
             PROVE  KillInv'
  BY DEF KillInv
<1>0. CASE ~UNCHANGED vars
  <2>0. /\ ~raced
        /\ main' # "idle" => \A b \in BinderThreads : stop'[b] = "idle"
        /\ Stopper = {"main"} \cup BinderThreads
        /\ "main" \notin BinderThreads
    BY <1>0, NoOverlap, BinderAssumption DEF Stopper
  <2>1. CASE StartSeqRead
    BY <2>1, <2>0, KillQuietStep, Types
       DEF StartSeqRead, flags, fields, instance, startThreads, procs
  <2>2. CASE StartSeqWrite
    BY <2>2, <2>0, KillQuietStep, Types
       DEF StartSeqWrite, fields, instance, startThreads, procs
  <2>3. CASE CaptureSeq
    BY <2>3, <2>0, KillQuietStep, Types
       DEF CaptureSeq, flags, fields, stops, startThreads, procs
  <2>4. CASE Configure
    BY <2>4, <2>0, KillQuietStep, Types
       DEF Configure, flags, instance, stops, startThreads, procs
  <2>5. CASE ConfigureFailed
    <3>1. \A p \in Attempt : Lost(p) => Lost(p)'
      BY <2>5, <2>0, StaysLost, Types
         DEF ConfigureFailed, Claim, instance, startThreads, procs, SoloInv
    <3>2. QED
      BY <2>5, <2>0, <3>1, Types, Basics
         DEF ConfigureFailed, Claim, instance, startThreads, procs, KillInv,
             SoloInv, TypeInv
  <2>6. CASE Start
    BY <2>6, <2>0, KillQuietStep, Types
       DEF Start, fields, instance, stops, procs
  <2>7. CASE HandlePostStart
    BY <2>7, <2>0, KillQuietStep, Types
       DEF HandlePostStart, flags, fields, instance, stops, startThreads,
           procs
  <2>8. CASE PostStartOnMain
    BY <2>8, <2>0, KillQuietStep, Types
       DEF PostStartOnMain, fields, instance, stops, startThreads, procs
  <2>9. CASE HandleStop
    <3>1. \A p \in Attempt : Lost(p) => Lost(p)'
      BY <2>9, <2>0, StaysLost, Types
         DEF HandleStop, Claim, MainIdle, fields, instance, startThreads,
             procs, SoloInv
    <3>2. QED
      BY <2>9, <2>0, <3>1, Types, Basics
         DEF HandleStop, Claim, MainIdle, fields, instance, startThreads,
             procs, KillInv, SoloInv, TypeInv
  <2>10. CASE OnStartCommand
    <3>1. \A p \in Attempt : Lost(p) => Lost(p)'
      BY <2>10, <2>0, StaysLost, Types DEF OnStartCommand, procs
    <3>2. \A s \in Stopper : stop[s] = "idle"
      BY <2>10, <2>0 DEF OnStartCommand, MainIdle, stops
    <3>3. \A p \in Attempt : p = latest' => thread[p] = "none"
      BY <2>10, Types DEF OnStartCommand, ThreadInv
    <3>4. QED
      BY <2>10, <2>0, <3>1, <3>2, <3>3, Types
         DEF OnStartCommand, fields, stops, startThreads, procs, KillInv,
             ThreadInv
  <2>11. CASE MainStop
    <3>1. \A p \in Attempt : Lost(p) => Lost(p)'
      BY <2>11, <2>0, StaysLost, Types
         DEF MainStop, Claim, MainIdle, fields, instance, startThreads,
             procs, SoloInv
    <3>2. QED
      BY <2>11, <2>0, <3>1, Types, Basics
         DEF MainStop, Claim, MainIdle, fields, instance, startThreads,
             procs, KillInv, SoloInv, TypeInv
  <2>12. CASE OnDestroy
    <3>1. \A p \in Attempt : Lost(p) => Lost(p)'
      BY <2>12, <2>0, StaysLost, Types
         DEF OnDestroy, MainIdle, flags, fields, startThreads, procs, SoloInv
    <3>2. QED
      BY <2>12, <2>0, <3>1, Types, Basics
         DEF OnDestroy, MainIdle, flags, fields, startThreads, procs,
             KillInv, SoloInv, TypeInv
  <2>13. ASSUME NEW s \in Stopper, StopCancel(s) PROVE KillInv'
    <3>1. \A p \in Attempt : Lost(p) => Lost(p)'
      BY <2>13, <2>0, StaysLost, Types
         DEF StopCancel, GoTo, fields, instance, startThreads, procs, SoloInv
    <3>2. QED
      BY <2>13, <2>0, <3>1, Types, Basics
         DEF StopCancel, GoTo, fields, instance, startThreads, procs,
             KillInv, SoloInv, TypeInv
  <2>14. ASSUME NEW s \in Stopper, StopSeqRead(s) PROVE KillInv'
    <3>1. \A p \in Attempt : Lost(p) => Lost(p)'
      BY <2>14, <2>0, StaysLost, Types
         DEF StopSeqRead, GoTo, flags, fields, instance, startThreads, procs,
             SoloInv
    <3>2. QED
      BY <2>14, <2>0, <3>1, Types, Basics
         DEF StopSeqRead, GoTo, flags, fields, instance, startThreads, procs,
             KillInv, SoloInv, TypeInv
  <2>15. ASSUME NEW s \in Stopper, StopSeqWrite(s) PROVE KillInv'
    <3>1. \A p \in Attempt : Lost(p) => Lost(p)'
      BY <2>15, <2>0, StaysLost, Types
         DEF StopSeqWrite, GoTo, fields, instance, startThreads, procs,
             SoloInv
    <3>2. QED
      BY <2>15, <2>0, <3>1, Types, Basics
         DEF StopSeqWrite, GoTo, fields, instance, startThreads, procs,
             KillInv, SoloInv, TypeInv
  <2>16. ASSUME NEW s \in Stopper, StopKill(s) PROVE KillInv'
    <3>1. \A p \in Attempt : Lost(p) => Lost(p)'
      BY <2>16, <2>0, StaysLost, Types
         DEF StopKill, flags, instance, SoloInv
    <3>2. \A p \in Attempt : /\ sigterm[p] => sigterm'[p]
                             /\ p = mTun2socksProcess => sigterm'[p]
      BY <2>16, Zenon DEF StopKill
    <3>3. UNCHANGED <<mRunning, latest, mTun2socksProcess, monitor, thread>>
      BY <2>16 DEF StopKill, flags, fields, instance, startThreads
    <3>4. ~mRunning
      BY <2>16, <2>0 DEF StopKill, GoTo, SoloInv
    <3>5. ASSUME NEW p \in Attempt, monitor[p] # "none" PROVE sigterm'[p] \/ Lost(p)
      <4>1. CASE p = latest
        BY <2>0, <3>2, <3>5, <4>1 DEF KillInv
      <4>2. CASE p # latest
        BY <2>0, <3>2, <3>5, <4>2 DEF KillInv
      <4>3. QED BY <4>1, <4>2
    <3>6. QED BY <3>1, <3>2, <3>3, <3>4, <3>5 DEF KillInv
  <2>17. ASSUME NEW s \in Stopper, StopForget(s) PROVE KillInv'
    <3>1. \A p \in Attempt : Lost(p) => Lost(p)'
      BY <2>17, <2>0, StaysLost, Types
         DEF StopForget, GoTo, flags, instance, startThreads, procs, SoloInv
    <3>2. QED
      BY <2>17, <2>0, <3>1, Types, Basics
         DEF StopForget, GoTo, flags, instance, startThreads, procs, KillInv,
             SoloInv, TypeInv
  <2>18. ASSUME NEW s \in Stopper, StopClose(s) PROVE KillInv'
    <3>1. \A p \in Attempt : Lost(p) => Lost(p)'
      BY <2>18, <2>0, StaysLost, Types
         DEF StopClose, GoTo, flags, fields, instance, startThreads, procs,
             SoloInv
    <3>2. QED
      BY <2>18, <2>0, <3>1, Types, Basics
         DEF StopClose, GoTo, flags, fields, instance, startThreads, procs,
             KillInv, SoloInv, TypeInv
  <2>19. ASSUME NEW s \in Stopper, StopClear(s) PROVE KillInv'
    <3>1. \A p \in Attempt : Lost(p) => Lost(p)'
      BY <2>19, <2>0, StaysLost, Types
         DEF StopClear, GoTo, fields, instance, startThreads, procs, SoloInv
    <3>2. QED
      BY <2>19, <2>0, <3>1, Types, Basics
         DEF StopClear, GoTo, fields, instance, startThreads, procs, KillInv,
             SoloInv, TypeInv
  <2>20. ASSUME NEW s \in Stopper, StopDown(s) PROVE KillInv'
    <3>1. \A p \in Attempt : Lost(p) => Lost(p)'
      BY <2>20, <2>0, StaysLost, Types
         DEF StopDown, GoTo, fields, instance, startThreads, procs, SoloInv
    <3>2. QED
      BY <2>20, <2>0, <3>1, Types, Basics
         DEF StopDown, GoTo, fields, instance, startThreads, procs, KillInv,
             SoloInv, TypeInv
  <2>21. ASSUME NEW b \in BinderThreads, BinderStop(b) PROVE KillInv'
    <3>1. \A p \in Attempt : Lost(p) => Lost(p)'
      BY <2>21, <2>0, StaysLost, Types
         DEF BinderStop, Claim, fields, instance, startThreads, procs,
             SoloInv
    <3>2. QED
      BY <2>21, <2>0, <3>1, Types, Basics
         DEF BinderStop, Claim, fields, instance, startThreads, procs,
             KillInv, SoloInv, TypeInv
  <2>22. ASSUME NEW a \in Attempt, JoinDns(a) PROVE KillInv'
    BY <2>22, <2>0, KillQuietStep, Types
       DEF JoinDns, flags, fields, instance, looper, stops, procs
  <2>23. ASSUME NEW a \in Attempt, LaunchPdnsdFailed(a) PROVE KillInv'
    BY <2>23, <2>0, KillQuietStep, Types
       DEF LaunchPdnsdFailed, flags, fields, instance, stops, procs
  <2>24. ASSUME NEW a \in Attempt, SpawnTun2socks(a) PROVE KillInv'
    <3>1. \A p \in Attempt : Lost(p) => Lost(p)'
      BY <2>24, <2>0, StaysLost, Types DEF SpawnTun2socks, flags, instance
    <3>2. Overwrote(a)'
      BY <2>24, Types DEF SpawnTun2socks, Overwrote, ThreadInv
    <3>3. \A p \in Attempt : p # a /\ p = latest => Lost(p)'
      BY <2>24, <3>2 DEF SpawnTun2socks, instance, Lost
    <3>4. QED
      BY <2>24, <2>0, <3>1, <3>3, Types
         DEF SpawnTun2socks, flags, instance, stops, KillInv, ThreadInv
  <2>25. ASSUME NEW a \in Attempt, SpawnFailed(a) PROVE KillInv'
    BY <2>25, <2>0, KillQuietStep, Types
       DEF SpawnFailed, flags, fields, instance, stops, procs
  <2>26. ASSUME NEW a \in Attempt, AfterSpawn(a) PROVE KillInv'
    <3>1. ~Stale(a) => a = latest /\ mRunning
      BY <2>26, <2>0, OnlyLatestPasses DEF AfterSpawn, ThreadInv
    <3>2. \A p \in Attempt : Lost(p) => Lost(p)'
      BY <2>26, <2>0, <3>1, StaysLost, Types DEF AfterSpawn, flags, instance
    <3>3. UNCHANGED <<mRunning, latest, mTun2socksProcess, stop, proc>>
      BY <2>26 DEF AfterSpawn, flags, fields, instance, stops
    <3>4. \A p \in Attempt : /\ sigterm[p] => sigterm'[p]
                             /\ thread'[p] = "spawned" => thread[p] = "spawned"
      BY <2>26, Types DEF AfterSpawn
    <3>5. CASE Stale(a)
      BY <2>26, <2>0, <3>2, <3>3, <3>4, <3>5 DEF AfterSpawn, KillInv
    <3>6. CASE ~Stale(a)
      <4>1. \A s \in Stopper : stop[s] = "idle"
        BY <2>0, <3>1, <3>6 DEF SoloInv
      <4>2. \A p \in Attempt : /\ sigterm'[p] = sigterm[p]
                               /\ monitor'[p] # monitor[p] => p = a
        BY <2>26, <3>6, Types DEF AfterSpawn
      <4>3. QED
        BY <2>26, <2>0, <3>1, <3>2, <3>3, <3>4, <3>6, <4>1, <4>2
           DEF AfterSpawn, KillInv
    <3>7. QED BY <3>5, <3>6
  <2>27. ASSUME NEW a \in Attempt, ForgetSpawned(a) PROVE KillInv'
    <3>1. \A p \in Attempt : Lost(p) => Lost(p)'
      BY <2>27, <2>0, StaysLost, Types DEF ForgetSpawned, flags, instance, procs
    <3>2. Overwrote(a)'
      BY <2>27, Types DEF ForgetSpawned, procs, Overwrote, ThreadInv
    <3>3. \A p \in Attempt : p # a /\ p = latest => Lost(p)'
      BY <2>27, <3>2 DEF ForgetSpawned, instance, Lost
    <3>4. QED
      BY <2>27, <2>0, <3>1, <3>3, Types, Basics
         DEF ForgetSpawned, flags, instance, stops, procs, KillInv, ThreadInv
  <2>28. ASSUME NEW a \in Attempt, PollGuard(a) PROVE KillInv'
    BY <2>28, <2>0, KillQuietStep, Types
       DEF PollGuard, flags, fields, instance, stops, procs
  <2>29. ASSUME NEW a \in Attempt, SendfdOk(a) PROVE KillInv'
    <3>1. PICK p \in Attempt : proc' = [proc EXCEPT ![p] = "serve"]
      BY <2>29 DEF SendfdOk
    <3>2. QED
      BY <2>29, <2>0, <3>1, KillQuietStep, Types
         DEF SendfdOk, flags, fields, instance, stops
  <2>30. ASSUME NEW a \in Attempt, SendfdFailed(a) PROVE KillInv'
    BY <2>30, <2>0, KillQuietStep, Types
       DEF SendfdFailed, flags, fields, instance, looper, stops, procs
  <2>31. ASSUME NEW a \in Attempt, ProcBind(a) PROVE KillInv'
    BY <2>31, <2>0, KillQuietStep, Types
       DEF ProcBind, flags, fields, instance, looper, stops, startThreads
  <2>32. ASSUME NEW a \in Attempt, ProcExit(a) PROVE KillInv'
    BY <2>32, <2>0, KillQuietStep, Types
       DEF ProcExit, flags, fields, instance, looper, stops, startThreads
  <2>33. ASSUME NEW a \in Attempt, MonitorExit(a) PROVE KillInv'
    <3>1. \A p \in Attempt : Lost(p) => Lost(p)'
      BY <2>33, <2>0, StaysLost, Types DEF MonitorExit, flags, instance, procs
    <3>2. \A p \in Attempt : monitor'[p] # "none" => monitor[p] # "none"
      BY <2>33, Types DEF MonitorExit
    <3>3. QED
      BY <2>33, <2>0, <3>1, <3>2
         DEF MonitorExit, flags, fields, instance, stops, startThreads,
             procs, KillInv
  <2>34. QED
    BY <1>0, <2>1, <2>2, <2>3, <2>4, <2>5, <2>6, <2>7, <2>8, <2>9, <2>10,
       <2>11, <2>12, <2>13, <2>14, <2>15, <2>16, <2>17, <2>18, <2>19, <2>20,
       <2>21, <2>22, <2>23, <2>24, <2>25, <2>26, <2>27, <2>28, <2>29, <2>30,
       <2>31, <2>32, <2>33
       DEF Next, Step, MainStep, Request, StopStep, ThreadStep, ProcStep
<1>1. CASE UNCHANGED vars
  BY <1>1
     DEF vars, flags, fields, instance, looper, stops, system, startThreads,
         procs, history, KillInv, Lost, Overwrote
<1>2. QED BY <1>0, <1>1

-----------------------------------------------------------------------------
\* Until a binder's stop overlaps a start or a completion: a completion that is
\* queued, running or reported for the current attempt stands for an interface
\* some tun2socks received.
CarrierInv ==
  ~raced =>
    /\ \A i \in 1..Len(mainQ) :
         mainQ[i].kind = "postStart" /\ mainQ[i].att = latest /\ mRunning =>
           carrier[latest] # {}
    /\ main = "postStart" => carrier[latest] # {}
    /\ mRunning /\ mTunnelUp => carrier[latest] # {}

\* Steps that post no completion and take no interface back.
LEMMA CarrierQuietStep ==
  ASSUME TypeInv, CarrierInv, ~raced, UNCHANGED <<latest, carrier>>,
         mRunning' => mRunning, mTunnelUp' => mTunnelUp, main' = "postStart" => main' = main,
         \/ UNCHANGED mainQ
         \/ mainQ # <<>> /\ mainQ' = Tail(mainQ)
         \/ \E a \in Attempt : Post("stop", a) \/ Post("exited", a)
  PROVE  CarrierInv'
<1>1. CASE UNCHANGED mainQ
  BY <1>1 DEF CarrierInv
<1>2. CASE mainQ # <<>> /\ mainQ' = Tail(mainQ)
  <2>1. \A i \in 1..Len(mainQ') :
          i + 1 \in 1..Len(mainQ) /\ mainQ'[i] = mainQ[i + 1]
    BY <1>2, TailKeeps, Types
  <2>2. QED BY <2>1 DEF CarrierInv
<1>3. ASSUME NEW a \in Attempt, NEW k \in {"stop", "exited"}, Post(k, a)
      PROVE  CarrierInv'
  <2>1. \A i \in 1..Len(mainQ') : \/ i \in 1..Len(mainQ) /\ mainQ'[i] = mainQ[i]
                                  \/ mainQ'[i] = [kind |-> k, att |-> a]
    BY <1>3, PostKeeps, Types
  <2>2. \A i \in 1..Len(mainQ') : mainQ'[i].kind = "postStart" =>
          i \in 1..Len(mainQ) /\ mainQ'[i] = mainQ[i]
    BY <2>1
  <2>3. QED BY <2>2 DEF CarrierInv
<1>4. QED BY <1>1, <1>2, <1>3

\* Every step keeps completions backed by an interface that was handed over.
LEMMA CarrierStep ==
  TypeInv /\ ThreadInv /\ QueueInv /\ SeqInv /\ SoloInv /\ DownInv /\ CarrierInv
    /\ [Next]_vars => CarrierInv'
<1> SUFFICES ASSUME TypeInv, ThreadInv, QueueInv, SeqInv, SoloInv, DownInv,
                    CarrierInv, [Next]_vars, ~raced'
             PROVE  CarrierInv'
  BY DEF CarrierInv
<1>0. CASE ~UNCHANGED vars
  <2>0. /\ ~raced
        /\ main' # "idle" => \A b \in BinderThreads : stop'[b] = "idle"
        /\ Stopper = {"main"} \cup BinderThreads
        /\ "main" \notin BinderThreads
    BY <1>0, NoOverlap, BinderAssumption DEF Stopper
  <2>1. CASE StartSeqRead
    BY <2>1, <2>0, CarrierQuietStep
       DEF StartSeqRead, flags, instance, procs
  <2>2. CASE StartSeqWrite
    BY <2>2, <2>0, CarrierQuietStep
       DEF StartSeqWrite, instance, procs
  <2>3. CASE CaptureSeq
    BY <2>3, <2>0, CarrierQuietStep
       DEF CaptureSeq, flags, procs
  <2>4. CASE Configure
    BY <2>4, <2>0, CarrierQuietStep
       DEF Configure, flags, instance, procs
  <2>5. CASE ConfigureFailed
    BY <2>5, <2>0, CarrierQuietStep
       DEF ConfigureFailed, Claim, instance, procs
  <2>6. CASE Start
    BY <2>6, <2>0, CarrierQuietStep
       DEF Start, instance, procs
  <2>7. CASE HandlePostStart
    <3>1. /\ UNCHANGED <<latest, carrier, mRunning, mTunnelUp>>
          /\ mainQ # <<>> /\ mainQ' = Tail(mainQ)
          /\ Head(mainQ).kind = "postStart"
          /\ main' = "postStart" => ~Stale(Head(mainQ).att)
      BY <2>7 DEF HandlePostStart, MainIdle, flags, instance, procs
    <3>2. Head(mainQ).att \in Attempt /\ Head(mainQ).att <= latest
      BY <3>1, HeadType, Types DEF QueueInv
    <3>3. main' = "postStart" => Head(mainQ).att = latest /\ mRunning
      BY <2>0, <3>1, <3>2, OnlyLatestPasses
    <3>4. main' = "postStart" => carrier[latest] # {}
      <4>1. 1 \in 1..Len(mainQ) /\ mainQ[1] = Head(mainQ)
        BY <3>1, Types
      <4>2. QED BY <2>0, <3>1, <3>3, <4>1 DEF CarrierInv
    <3>5. \A i \in 1..Len(mainQ') :
            i + 1 \in 1..Len(mainQ) /\ mainQ'[i] = mainQ[i + 1]
      BY <3>1, TailKeeps, Types
    <3>6. QED BY <2>0, <3>1, <3>4, <3>5 DEF CarrierInv
  <2>8. CASE PostStartOnMain
    BY <2>8, <2>0 DEF PostStartOnMain, instance, procs, CarrierInv
  <2>9. CASE HandleStop
    BY <2>9, <2>0, CarrierQuietStep
       DEF HandleStop, Claim, MainIdle, instance, procs
  <2>10. CASE OnStartCommand
    <3>1. ~mTunnelUp /\ UNCHANGED <<mTunnelUp, mainQ>> /\ main' # "postStart"
      BY <2>10, <2>0 DEF OnStartCommand, MainIdle, stops, DownInv
    <3>2. \A i \in 1..Len(mainQ) : mainQ[i].att # latest'
      BY <2>10, QueueTypes, Types, Basics DEF OnStartCommand, QueueInv
    <3>3. QED BY <3>1, <3>2 DEF CarrierInv
  <2>11. CASE MainStop
    BY <2>11, <2>0, CarrierQuietStep
       DEF MainStop, Claim, MainIdle, instance, looper, procs
  <2>12. CASE OnDestroy
    BY <2>12, <2>0, CarrierQuietStep
       DEF OnDestroy, MainIdle, flags, looper, procs
  <2>13. ASSUME NEW s \in Stopper, StopCancel(s) PROVE CarrierInv'
    BY <2>13, <2>0, CarrierQuietStep
       DEF StopCancel, instance, looper, procs
  <2>14. ASSUME NEW s \in Stopper, StopSeqRead(s) PROVE CarrierInv'
    BY <2>14, <2>0, CarrierQuietStep
       DEF StopSeqRead, flags, instance, looper, procs
  <2>15. ASSUME NEW s \in Stopper, StopSeqWrite(s) PROVE CarrierInv'
    BY <2>15, <2>0, CarrierQuietStep
       DEF StopSeqWrite, instance, looper, procs
  <2>16. ASSUME NEW s \in Stopper, StopKill(s) PROVE CarrierInv'
    BY <2>16, <2>0, CarrierQuietStep
       DEF StopKill, flags, instance, looper
  <2>17. ASSUME NEW s \in Stopper, StopForget(s) PROVE CarrierInv'
    BY <2>17, <2>0, CarrierQuietStep
       DEF StopForget, flags, instance, looper, procs
  <2>18. ASSUME NEW s \in Stopper, StopClose(s) PROVE CarrierInv'
    BY <2>18, <2>0, CarrierQuietStep
       DEF StopClose, flags, instance, looper, procs
  <2>19. ASSUME NEW s \in Stopper, StopClear(s) PROVE CarrierInv'
    BY <2>19, <2>0, CarrierQuietStep
       DEF StopClear, instance, looper, procs
  <2>20. ASSUME NEW s \in Stopper, StopDown(s) PROVE CarrierInv'
    BY <2>20, <2>0, CarrierQuietStep
       DEF StopDown, instance, looper, procs
  <2>21. ASSUME NEW b \in BinderThreads, BinderStop(b) PROVE CarrierInv'
    BY <2>21, <2>0, CarrierQuietStep
       DEF BinderStop, Claim, instance, looper, procs
  <2>22. ASSUME NEW a \in Attempt, JoinDns(a) PROVE CarrierInv'
    BY <2>22, <2>0, CarrierQuietStep
       DEF JoinDns, flags, instance, looper, procs
  <2>23. ASSUME NEW a \in Attempt, LaunchPdnsdFailed(a) PROVE CarrierInv'
    BY <2>23, <2>0, CarrierQuietStep
       DEF LaunchPdnsdFailed, flags, instance, procs
  <2>24. ASSUME NEW a \in Attempt, SpawnTun2socks(a) PROVE CarrierInv'
    BY <2>24, <2>0, CarrierQuietStep
       DEF SpawnTun2socks, flags, instance, looper
  <2>25. ASSUME NEW a \in Attempt, SpawnFailed(a) PROVE CarrierInv'
    BY <2>25, <2>0, CarrierQuietStep
       DEF SpawnFailed, flags, instance, procs
  <2>26. ASSUME NEW a \in Attempt, AfterSpawn(a) PROVE CarrierInv'
    BY <2>26, <2>0, CarrierQuietStep
       DEF AfterSpawn, flags, instance, looper
  <2>27. ASSUME NEW a \in Attempt, ForgetSpawned(a) PROVE CarrierInv'
    BY <2>27, <2>0, CarrierQuietStep
       DEF ForgetSpawned, flags, instance, looper, procs
  <2>28. ASSUME NEW a \in Attempt, PollGuard(a) PROVE CarrierInv'
    BY <2>28, <2>0, CarrierQuietStep
       DEF PollGuard, flags, instance, procs
  <2>29. ASSUME NEW a \in Attempt, SendfdOk(a) PROVE CarrierInv'
    <3>1. PICK p \in Attempt, d \in Numbered(a) :
               carrier' = [i \in Attempt |->
                             IF i = d THEN carrier[i] \cup {p} ELSE carrier[i]]
      BY <2>29 DEF SendfdOk
    <3>2. a = latest /\ mRunning => a \in fds
      <4>1. a = latest => main \notin {"seq", "seqWrite", "capture", "configure"}
        BY <2>29 DEF SendfdOk, ThreadInv
      <4>2. QED BY <2>0, <4>1 DEF DownInv
    <3>3. a = latest /\ mRunning => carrier'[latest] # {}
      BY <3>1, <3>2 DEF Numbered
    <3>4. \A i \in Attempt : carrier[i] # {} => carrier'[i] # {}
      BY <3>1
    <3>5. UNCHANGED <<latest, mRunning, mTunnelUp, main>> /\ latest \in Attempt
      <4>1. a <= latest
        BY <2>29 DEF SendfdOk, ThreadInv
      <4>2. latest \in Attempt
        BY <4>1, BoundsAssumption DEF TypeInv, TypeOK, Attempt, AttemptOrNone
      <4>3. QED BY <2>29, <4>2 DEF SendfdOk, flags, instance
    <3>6. \A i \in 1..Len(mainQ') :
            \/ i \in 1..Len(mainQ) /\ mainQ'[i] = mainQ[i]
            \/ mainQ'[i] = [kind |-> "postStart", att |-> a]
      BY <2>29, PostKeeps, Types DEF SendfdOk
    <3>7. QED BY <2>0, <3>3, <3>4, <3>5, <3>6 DEF CarrierInv
  <2>30. ASSUME NEW a \in Attempt, SendfdFailed(a) PROVE CarrierInv'
    BY <2>30, <2>0, CarrierQuietStep
       DEF SendfdFailed, flags, instance, looper, procs
  <2>31. ASSUME NEW a \in Attempt, ProcBind(a) PROVE CarrierInv'
    BY <2>31, <2>0, CarrierQuietStep
       DEF ProcBind, flags, instance, looper
  <2>32. ASSUME NEW a \in Attempt, ProcExit(a) PROVE CarrierInv'
    BY <2>32, <2>0, CarrierQuietStep
       DEF ProcExit, flags, instance, looper
  <2>33. ASSUME NEW a \in Attempt, MonitorExit(a) PROVE CarrierInv'
    BY <2>33, <2>0, CarrierQuietStep
       DEF MonitorExit, flags, instance, procs
  <2>34. QED
    BY <1>0, <2>1, <2>2, <2>3, <2>4, <2>5, <2>6, <2>7, <2>8, <2>9, <2>10,
       <2>11, <2>12, <2>13, <2>14, <2>15, <2>16, <2>17, <2>18, <2>19, <2>20,
       <2>21, <2>22, <2>23, <2>24, <2>25, <2>26, <2>27, <2>28, <2>29, <2>30,
       <2>31, <2>32, <2>33
       DEF Next, Step, MainStep, Request, StopStep, ThreadStep, ProcStep
<1>1. CASE UNCHANGED vars
  BY <1>1
     DEF vars, flags, fields, instance, looper, stops, system, startThreads,
         procs, history, CarrierInv
<1>2. QED BY <1>0, <1>1

-----------------------------------------------------------------------------
\* Everything the theorems below rest on.
LifecycleInv ==
  /\ TypeInv /\ ThreadInv /\ QueueInv /\ SeqInv
  /\ SoloInv /\ DownInv /\ KillInv /\ CarrierInv

\* The service keeps its invariant.
LEMMA LifecycleInvariant == Spec => []LifecycleInv
<1>1. Init => LifecycleInv
  <2>1. Init => TypeInv
    BY InitType
  <2>2. Init => ThreadInv /\ QueueInv /\ SeqInv
    BY Basics DEF Init, ThreadInv, QueueInv, SeqInv, UpIsLatest
  <2>3. Init => SoloInv /\ DownInv
    BY DEF Init, SoloInv, DownInv
  <2>4. Init => KillInv /\ CarrierInv
    BY DEF Init, KillInv, CarrierInv
  <2>5. QED BY <2>1, <2>2, <2>3, <2>4 DEF LifecycleInv
<1>2. LifecycleInv /\ [Next]_vars => LifecycleInv'
  BY TypeStep, ThreadStepInv, QueueStepInv, SeqStep, SoloStep, DownStep, KillStep,
     CarrierStep
     DEF LifecycleInv
<1>3. QED BY <1>1, <1>2, PTL DEF Spec

\* stopMe leaves nothing behind, on a binder thread or on the main thread, as
\* long as it overlapped no start and no completion: no descriptor, no tunnel
\* reported, and no tun2socks neither told to end nor made unreachable by another
\* attempt's thread.
THEOREM StoppedIsDownAlways == Spec => []StoppedIsDown
<1>1. LifecycleInv => StoppedIsDown
  <2> SUFFICES ASSUME LifecycleInv, Quiet, ~raced, ~mRunning
               PROVE  /\ fds = {}
                      /\ ~mTunnelUp
                      /\ \A p \in Attempt :
                           thread[p] = "done" /\ proc[p] \in {"exec", "listen", "serve"}
                             => sigterm[p] \/ \E a \in Attempt \ {p} : Overwrote(a)
    BY DEF StoppedIsDown
  <2>1. \A s \in Stopper : stop[s] = "idle"
    BY DEF Quiet
  <2>2. fds = {} /\ ~mTunnelUp
    BY <2>1 DEF LifecycleInv, DownInv, Closing
  <2>3. ASSUME NEW p \in Attempt, thread[p] = "done",
               proc[p] \in {"exec", "listen", "serve"}
        PROVE  sigterm[p] \/ \E a \in Attempt \ {p} : Overwrote(a)
    <3>1. monitor[p] # "none" \/ sigterm[p]
      BY <2>3 DEF LifecycleInv, ThreadInv
    <3>2. monitor[p] # "none" => sigterm[p] \/ Lost(p)
      BY <2>1, <2>3 DEF LifecycleInv, KillInv
    <3>3. QED BY <3>1, <3>2 DEF Lost
  <2>4. QED BY <2>2, <2>3
<1>2. QED BY <1>1, LifecycleInvariant, PTL

\* The tunnel of a running service is reported up only with the interface of
\* the current attempt open and handed to a tun2socks, binder stops included.
THEOREM UpHasCarrierAlways == Spec => []UpHasCarrier
<1>1. LifecycleInv => UpHasCarrier
  BY DEF LifecycleInv, UpHasCarrier, DownInv, CarrierInv, Quiet
<1>2. QED BY <1>1, LifecycleInvariant, PTL

\* The session clients see is the one VpnSession promises, with stops on any
\* thread, up to the first overlap of a binder's stop with a start or a
\* completion.
THEOREM SessionRefinement == Spec => SessionSpec
<1> DEFINE v == <<mRunning, mRunning /\ mTunnelUp, latest>>
           A == ~raced' => [Session!Next]_v
<1>1. Init => Session!Init
  BY DEF Init, Session!Init
<1>2. LifecycleInv /\ [Next]_vars => [A]_vars
  <2> SUFFICES ASSUME LifecycleInv, [Next]_vars, ~raced', ~UNCHANGED vars
               PROVE  [Session!Next]_v
    OBVIOUS
  <2> USE DEF LifecycleInv
  <2>0. /\ ~raced
        /\ main' # "idle" => \A b \in BinderThreads : stop'[b] = "idle"
        /\ mRunning \in BOOLEAN /\ mTunnelUp \in BOOLEAN
    BY NoOverlap DEF TypeInv, TypeOK
  <2>1. CASE StartSeqRead
    BY <2>1
       DEF StartSeqRead, flags, instance
  <2>2. CASE StartSeqWrite
    BY <2>2
       DEF StartSeqWrite, instance
  <2>3. CASE CaptureSeq
    BY <2>3
       DEF CaptureSeq, flags
  <2>4. CASE Configure
    BY <2>4
       DEF Configure, flags, instance
  <2>5. CASE ConfigureFailed
    BY <2>5, <2>0
       DEF ConfigureFailed, Claim, instance, Session!Next, Session!End
  <2>6. CASE Start
    BY <2>6
       DEF Start, instance
  <2>7. CASE HandlePostStart
    BY <2>7
       DEF HandlePostStart, flags, instance
  <2>8. CASE PostStartOnMain
    BY <2>8, <2>0 DEF PostStartOnMain, instance, SoloInv, Session!Next, Session!TunnelUp
  <2>9. CASE HandleStop
    BY <2>9, <2>0
       DEF HandleStop, Claim, instance, Session!Next, Session!End
  <2>10. CASE OnStartCommand
    <3>1. ~mTunnelUp
      BY <2>10, <2>0 DEF OnStartCommand, MainIdle, stops, Stopper, DownInv
    <3>2. QED BY <2>10, <2>0, <3>1 DEF OnStartCommand, Session!Next, Session!Begin
  <2>11. CASE MainStop
    BY <2>11, <2>0
       DEF MainStop, Claim, instance, Session!Next, Session!End
  <2>12. CASE OnDestroy
    BY <2>12
       DEF OnDestroy, flags
  <2>13. ASSUME NEW s \in Stopper, StopCancel(s) PROVE [Session!Next]_v
    BY <2>13
       DEF StopCancel, instance
  <2>14. ASSUME NEW s \in Stopper, StopSeqRead(s) PROVE [Session!Next]_v
    BY <2>14
       DEF StopSeqRead, flags, instance
  <2>15. ASSUME NEW s \in Stopper, StopSeqWrite(s) PROVE [Session!Next]_v
    BY <2>15
       DEF StopSeqWrite, instance
  <2>16. ASSUME NEW s \in Stopper, StopKill(s) PROVE [Session!Next]_v
    BY <2>16
       DEF StopKill, flags, instance
  <2>17. ASSUME NEW s \in Stopper, StopForget(s) PROVE [Session!Next]_v
    BY <2>17
       DEF StopForget, flags, instance
  <2>18. ASSUME NEW s \in Stopper, StopClose(s) PROVE [Session!Next]_v
    BY <2>18
       DEF StopClose, flags, instance
  <2>19. ASSUME NEW s \in Stopper, StopClear(s) PROVE [Session!Next]_v
    BY <2>19, <2>0 DEF StopClear, GoTo, instance, SoloInv
  <2>20. ASSUME NEW s \in Stopper, StopDown(s) PROVE [Session!Next]_v
    BY <2>20, <2>0 DEF StopDown, GoTo, instance, SoloInv
  <2>21. ASSUME NEW b \in BinderThreads, BinderStop(b) PROVE [Session!Next]_v
    BY <2>21, <2>0
       DEF BinderStop, Claim, instance, Session!Next, Session!End
  <2>22. ASSUME NEW a \in Attempt, JoinDns(a) PROVE [Session!Next]_v
    BY <2>22
       DEF JoinDns, flags, instance
  <2>23. ASSUME NEW a \in Attempt, LaunchPdnsdFailed(a) PROVE [Session!Next]_v
    BY <2>23
       DEF LaunchPdnsdFailed, flags, instance
  <2>24. ASSUME NEW a \in Attempt, SpawnTun2socks(a) PROVE [Session!Next]_v
    BY <2>24
       DEF SpawnTun2socks, flags, instance
  <2>25. ASSUME NEW a \in Attempt, SpawnFailed(a) PROVE [Session!Next]_v
    BY <2>25
       DEF SpawnFailed, flags, instance
  <2>26. ASSUME NEW a \in Attempt, AfterSpawn(a) PROVE [Session!Next]_v
    BY <2>26
       DEF AfterSpawn, flags, instance
  <2>27. ASSUME NEW a \in Attempt, ForgetSpawned(a) PROVE [Session!Next]_v
    BY <2>27
       DEF ForgetSpawned, flags, instance
  <2>28. ASSUME NEW a \in Attempt, PollGuard(a) PROVE [Session!Next]_v
    BY <2>28
       DEF PollGuard, flags, instance
  <2>29. ASSUME NEW a \in Attempt, SendfdOk(a) PROVE [Session!Next]_v
    BY <2>29
       DEF SendfdOk, flags, instance
  <2>30. ASSUME NEW a \in Attempt, SendfdFailed(a) PROVE [Session!Next]_v
    BY <2>30
       DEF SendfdFailed, flags, instance
  <2>31. ASSUME NEW a \in Attempt, ProcBind(a) PROVE [Session!Next]_v
    BY <2>31
       DEF ProcBind, flags, instance
  <2>32. ASSUME NEW a \in Attempt, ProcExit(a) PROVE [Session!Next]_v
    BY <2>32
       DEF ProcExit, flags, instance
  <2>33. ASSUME NEW a \in Attempt, MonitorExit(a) PROVE [Session!Next]_v
    BY <2>33
       DEF MonitorExit, flags, instance
  <2>34. QED
    BY <2>1, <2>2, <2>3, <2>4, <2>5, <2>6, <2>7, <2>8, <2>9, <2>10, <2>11,
       <2>12, <2>13, <2>14, <2>15, <2>16, <2>17, <2>18, <2>19, <2>20, <2>21,
       <2>22, <2>23, <2>24, <2>25, <2>26, <2>27, <2>28, <2>29, <2>30, <2>31,
       <2>32, <2>33
       DEF Next, Step, MainStep, Request, StopStep, ThreadStep, ProcStep
<1>3. QED BY <1>1, <1>2, LifecycleInvariant, PTL DEF Spec, SessionSpec
=============================================================================
