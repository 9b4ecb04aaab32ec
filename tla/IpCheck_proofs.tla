--------------------------- MODULE IpCheck_proofs ---------------------------
(***************************************************************************)
(* Theorems about IpCheck, for every number of attempts, every set of      *)
(* proxies and of binder threads, both strike limits and all settings of   *)
(* the accelerator.                                                        *)
(***************************************************************************)
EXTENDS IpCheck, TLAPS

\* What the proofs need to know about the constants and index sets.
LEMMA Constants ==
  /\ \A a \in Attempt : a \in Nat /\ a # 0
  /\ \A n \in 0..MaxAttempts : n < MaxAttempts => n + 1 \in Attempt
  /\ \A n \in 0..MaxAttempts : n < MaxAttempts => n + 1 \in 0..MaxAttempts
  /\ 0 \in 0..MaxAttempts /\ 0 \in 0..MaxScreenOff /\ 0 \in 0..Strikes
  /\ MaxFailures \in Nat /\ 0 < MaxFailures
  /\ NoProxy \in ProxyOrNone /\ NoProxy \notin Proxies
  /\ NoProxy \in IpOrNone /\ Direct \in IpOrNone /\ Direct # NoProxy
  /\ \A p \in Proxies : p \in ProxyOrNone
  /\ \A p \in ProxyOrNone : p \in IpOrNone
  BY IpBoundsAssumption, NoProxyAssumption DEF Attempt, ProxyOrNone, IpOrNone

\* An exit IP that was seen is one to show.
LEMMA SeenType ==
  ASSUME NEW p \in ProxyOrNone
  PROVE  Seen(p) \in IpOrNone /\ Seen(p) # NoProxy
  BY Constants DEF Seen

\* A task that moves on stays a task of its attempt.
LEMMA StageType ==
  ASSUME NEW t \in Task, NEW s \in {"begin", "early", "info"},
         NEW r \in Answer \cup {"pending", "off"}
  PROVE  /\ [t EXCEPT !.stage = s, !.probe = r] \in Task
         /\ [t EXCEPT !.stage = s, !.probe = r].att = t.att
         /\ [t EXCEPT !.stage = s, !.probe = r].stage = s
         /\ [t EXCEPT !.stage = s, !.probe = r].probe = r
  BY DEF Task

\* What the running task carries, and the queue with its head replaced.
LEMMA TaskType ==
  ASSUME executor \in Seq(Task), executor # <<>>
  PROVE  /\ Head(executor) \in Task
         /\ Head(executor).att \in Attempt /\ Head(executor).proxy \in ProxyOrNone
         /\ Head(executor).probe \in Answer \cup {"pending", "off"}
         /\ Tail(executor) \in Seq(Task)
         /\ \A x \in Task : /\ <<x>> \o Tail(executor) \in Seq(Task)
                            /\ <<x>> \o Tail(executor) # <<>>
         /\ \A r \in Answer \cup {"pending", "off"}, s \in {"begin", "early", "info"} :
              LET q == <<[Head(executor) EXCEPT !.stage = s, !.probe = r]>>
                         \o Tail(executor)
              IN  q \in Seq(Task) /\ q # <<>>
<1>1. Head(executor) \in Task /\ Tail(executor) \in Seq(Task)
  OBVIOUS
<1>2. \A x \in Task : <<x>> \o Tail(executor) \in Seq(Task)
                      /\ <<x>> \o Tail(executor) # <<>>
  BY <1>1
<1>3. \A r \in Answer \cup {"pending", "off"}, s \in {"begin", "early", "info"} :
        [Head(executor) EXCEPT !.stage = s, !.probe = r] \in Task
  BY <1>1, StageType
<1>4. \A r \in Answer \cup {"pending", "off"}, s \in {"begin", "early", "info"} :
        LET q == <<[Head(executor) EXCEPT !.stage = s, !.probe = r]>>
                   \o Tail(executor)
        IN  q \in Seq(Task) /\ q # <<>>
  BY <1>2, <1>3, Zenon
<1>5. Head(executor).att \in Attempt /\ Head(executor).proxy \in ProxyOrNone
      /\ Head(executor).probe \in Answer \cup {"pending", "off"}
  BY <1>1 DEF Task
<1>6. QED BY <1>1, <1>2, <1>4, <1>5, Zenon

\* A posted result is well typed, and a check's result is one to come.
Busy(q) == \E i \in 1..Len(q) : q[i].kind # "gate"

\* Posting a result of a task keeps the queue of results well typed.
LEMMA PostType ==
  ASSUME NEW k \in {"fastFail", "info", "noInfo", "exception", "gate"},
         NEW t, t.att \in Attempt, t.proxy \in ProxyOrNone,
         NEW r \in Answer \cup {"off"},
         posted \in Seq(Result), PostResult(k, t, r)
  PROVE  /\ posted' \in Seq(Result)
         /\ Busy(posted) => Busy(posted')
         /\ k # "gate" => Busy(posted')
<1> DEFINE x == [kind |-> k, att |-> t.att, proxy |-> t.proxy, probe |-> r]
<1>1. x \in Result /\ x.kind = k
  BY DEF Result
<1>2. posted' = Append(posted, x)
  BY DEF PostResult
<1> HIDE DEF x
<1>3. /\ posted' \in Seq(Result)
      /\ Len(posted') = Len(posted) + 1
      /\ \A i \in 1..Len(posted) : posted'[i] = posted[i]
      /\ posted'[Len(posted) + 1] = x
  BY <1>1, <1>2
<1>4. Len(posted) \in Nat
  OBVIOUS
<1>5. Busy(posted) => Busy(posted')
  BY <1>3, <1>4 DEF Busy
<1>6. k # "gate" => Busy(posted')
  BY <1>1, <1>3, <1>4 DEF Busy
<1>7. QED BY <1>3, <1>5, <1>6

\* What the oldest result carries, and the queue without it.
LEMMA ResultType ==
  ASSUME NEW k, posted \in Seq(Result), Take(k)
  PROVE  /\ Head(posted).att \in Attempt /\ Head(posted).proxy \in ProxyOrNone
         /\ Head(posted).kind = k
         /\ posted' \in Seq(Result) /\ Len(posted') < Len(posted)
         /\ k = "gate" /\ Busy(posted) => Busy(posted')
<1>1. posted # <<>> /\ posted' = Tail(posted) /\ Head(posted).kind = k
  BY DEF Take
<1>2. Head(posted) \in Result /\ Tail(posted) \in Seq(Result)
  BY <1>1
<1>3. /\ Len(posted) \in Nat /\ Len(posted) # 0
      /\ Len(Tail(posted)) = Len(posted) - 1
      /\ \A i \in 1..Len(Tail(posted)) : Tail(posted)[i] = posted[i + 1]
      /\ Head(posted) = posted[1]
  BY <1>1
<1>4. ASSUME k = "gate", Busy(posted) PROVE Busy(Tail(posted))
  <2>1. PICK i \in 1..Len(posted) : posted[i].kind # "gate"
    BY <1>4 DEF Busy
  <2>2. i # 1
    BY <1>1, <1>3, <1>4, <2>1
  <2>3. i - 1 \in 1..Len(Tail(posted)) /\ Tail(posted)[i - 1] = posted[i]
    BY <1>3, <2>1, <2>2
  <2>4. QED BY <2>1, <2>3 DEF Busy
<1>5. QED BY <1>1, <1>2, <1>3, <1>4 DEF Result

\* The type, by groups of variables.  With it goes that a running service, and
\* one that is starting, is in a counted attempt.
FlagsType ==
  /\ mRunning \in BOOLEAN /\ mTunnelUp \in BOOLEAN
  /\ probing \in BOOLEAN /\ caching \in BOOLEAN
  /\ mProbeInFlight \in BOOLEAN /\ mProxyVerified \in BOOLEAN
  /\ dozing \in BOOLEAN /\ hards \in BOOLEAN /\ verdict \in BOOLEAN

SessionType ==
  /\ latest \in 0..MaxAttempts
  /\ mProxy \in ProxyOrNone
  /\ proxyOf \in [Attempt -> ProxyOrNone]
  /\ main \in {"idle", "run", "begin", "postStart"}
  /\ arrived \in 0..MaxAttempts
  /\ mRunning \/ main # "idle" => latest \in Attempt

StopType ==
  stop \in [BinderThreads -> {"idle", "probe", "unpost", "proxy", "ip",
                              "verified", "unpost2", "down", "pending"}]

CountersType ==
  /\ mPreTunnelProbeFailures \in 0..Strikes
  /\ mIpCheckFailures \in Nat

ShownType ==
  /\ mCurrentIp \in IpOrNone /\ mPendingIpInfo \in IpOrNone
  /\ accelIp \in [key : ProxyOrNone, ip : IpOrNone]

LoopType ==
  /\ queued \in Nat
  /\ executor \in Seq(Task)
  /\ posted \in Seq(Result)

GateType == gate \in [Attempt -> {"none", "first", "second", "done"}]

EnvType ==
  /\ dead \subseteq Proxies
  /\ screens \in 0..MaxScreenOff

HistoryType == softs \in 0..2

TypeInv ==
  /\ FlagsType /\ SessionType /\ StopType /\ CountersType /\ ShownType
  /\ LoopType /\ GateType /\ EnvType /\ HistoryType

\* The exit-IP cache stays well typed, and so does what is read from it.
LEMMA CacheType ==
  ASSUME ShownType, mProxy \in ProxyOrNone, NEW p \in IpOrNone
  PROVE  /\ SaveAccelIp(p) \in [key : ProxyOrNone, ip : IpOrNone]
         /\ \A c \in LoadAccelIp : c \in IpOrNone
  BY Constants DEF ShownType, SaveAccelIp, LoadAccelIp

\* Every step of the checks keeps the state well typed.
LEMMA TypeStep == TypeInv /\ [Next]_vars => TypeInv'
<1> SUFFICES ASSUME TypeInv, [Next]_vars PROVE TypeInv'
  OBVIOUS
<1>1. TypeInv'
  <2>1. ASSUME NEW p \in Proxies, StartFields(p) PROVE TypeInv'
    <3>1. FlagsType'
      BY <2>1, IpFlagsAssumption
         DEF StartFields, MainIdle, counters, shown, loop, env, TypeInv,
             FlagsType, SessionType
    <3>2. SessionType'
      BY <2>1, Constants
         DEF StartFields, MainIdle, counters, shown, loop, env, TypeInv,
             SessionType
    <3>3. HistoryType'
      BY <2>1
         DEF StartFields, MainIdle, counters, shown, loop, env, TypeInv,
             HistoryType, SessionType
    <3>4. StopType' /\ CountersType' /\ ShownType' /\ LoopType' /\ GateType' /\
          EnvType'
      BY <2>1
         DEF StartFields, MainIdle, counters, shown, loop, env, TypeInv,
             SessionType, StopType, CountersType, ShownType, LoopType,
             GateType, EnvType
    <3>5. QED BY <3>1, <3>2, <3>3, <3>4 DEF TypeInv
  <2>2. ASSUME NEW p \in Proxies, ProxyDies(p) PROVE TypeInv'
    <3>1. EnvType'
      BY <2>2, Constants, IpBoundsAssumption
         DEF ProxyDies, session, control, counters, shown, loop, history,
             TypeInv, EnvType, SessionType
    <3>2. FlagsType' /\ SessionType' /\ StopType' /\ CountersType' /\ ShownType'
          /\ LoopType' /\ GateType' /\ HistoryType'
      BY <2>2
         DEF ProxyDies, session, control, counters, shown, loop, history,
             TypeInv, SessionType, FlagsType, StopType, CountersType,
             ShownType, LoopType, GateType, HistoryType
    <3>3. QED BY <3>1, <3>2 DEF TypeInv
  <2>3. CASE StartRun
    <3>1. FlagsType'
      BY <2>3, IpFlagsAssumption
         DEF StartRun, shown, loop, env, history, TypeInv, FlagsType,
             SessionType
    <3>2. SessionType'
      BY <2>3, Constants
         DEF StartRun, shown, loop, env, history, TypeInv, SessionType
    <3>3. CountersType'
      BY <2>3, Constants, IpBoundsAssumption
         DEF StartRun, shown, loop, env, history, TypeInv, CountersType,
             SessionType
    <3>4. StopType' /\ ShownType' /\ LoopType' /\ GateType' /\ EnvType' /\
          HistoryType'
      BY <2>3
         DEF StartRun, shown, loop, env, history, TypeInv, SessionType,
             StopType, ShownType, LoopType, GateType, EnvType, HistoryType
    <3>5. QED BY <3>1, <3>2, <3>3, <3>4 DEF TypeInv
  <2>4. CASE StartChecks
    <3>1. SessionType'
      BY <2>4, Constants
         DEF StartChecks, session, counters, shown, env, history, TypeInv,
             SessionType
    <3>2. LoopType'
      BY <2>4, Constants
         DEF StartChecks, session, counters, shown, env, history, TypeInv,
             LoopType, SessionType
    <3>3. GateType'
      BY <2>4, Constants
         DEF StartChecks, session, counters, shown, env, history, TypeInv,
             GateType, SessionType
    <3>4. FlagsType' /\ StopType' /\ CountersType' /\ ShownType' /\ EnvType' /\
          HistoryType'
      BY <2>4
         DEF StartChecks, session, counters, shown, env, history, TypeInv,
             SessionType, FlagsType, StopType, CountersType, ShownType,
             EnvType, HistoryType
    <3>5. QED BY <3>1, <3>2, <3>3, <3>4 DEF TypeInv
  <2>5. CASE ConfigureFailed
    <3>1. FlagsType'
      BY <2>5, IpFlagsAssumption
         DEF ConfigureFailed, StopMe, session, counters, shown, env,
             history, TypeInv, FlagsType, SessionType
    <3>2. SessionType'
      BY <2>5, Constants
         DEF ConfigureFailed, StopMe, session, counters, shown, env,
             history, TypeInv, SessionType
    <3>3. ShownType'
      BY <2>5, Constants
         DEF ConfigureFailed, StopMe, session, counters, shown, env,
             history, TypeInv, ShownType, SessionType
    <3>4. LoopType'
      BY <2>5, Constants
         DEF ConfigureFailed, StopMe, session, counters, shown, env,
             history, TypeInv, LoopType, SessionType
    <3>5. StopType' /\ CountersType' /\ GateType' /\ EnvType' /\ HistoryType'
      BY <2>5
         DEF ConfigureFailed, StopMe, session, counters, shown, env,
             history, TypeInv, SessionType, StopType, CountersType,
             GateType, EnvType, HistoryType
    <3>6. QED BY <3>1, <3>2, <3>3, <3>4, <3>5 DEF TypeInv
  <2>6. CASE TunnelUp
    <3>1. accelIp' \in [key : ProxyOrNone, ip : IpOrNone]
      BY <2>6, CacheType
         DEF TunnelUp, TypeInv, SessionType, ShownType
    <3>2. mCurrentIp' \in IpOrNone
      BY <2>6, <3>1, CacheType, Constants
         DEF TunnelUp, TypeInv, SessionType, ShownType
    <3>3. mProxyVerified' \in BOOLEAN
      BY <2>6, <3>1, <3>2
         DEF TunnelUp
    <3>4. FlagsType'
      BY <2>6, <3>1, <3>2, <3>3, IpFlagsAssumption
         DEF TunnelUp, env, history, TypeInv, FlagsType, SessionType
    <3>5. SessionType'
      BY <2>6, <3>1, <3>2, <3>3, Constants
         DEF TunnelUp, env, history, TypeInv, SessionType
    <3>6. CountersType'
      BY <2>6, <3>1, <3>2, <3>3, Constants, IpBoundsAssumption
         DEF TunnelUp, env, history, TypeInv, CountersType, SessionType
    <3>7. ShownType'
      BY <2>6, <3>1, <3>2, <3>3, Constants
         DEF TunnelUp, env, history, TypeInv, ShownType, SessionType
    <3>8. LoopType'
      BY <2>6, <3>1, <3>2, <3>3, Constants
         DEF TunnelUp, env, history, TypeInv, LoopType, SessionType
    <3>9. StopType' /\ GateType' /\ EnvType' /\ HistoryType'
      BY <2>6
         DEF TunnelUp, env, history, TypeInv, SessionType, StopType,
             GateType, EnvType, HistoryType
    <3>10. QED BY <3>4, <3>5, <3>6, <3>7, <3>8, <3>9 DEF TypeInv
  <2>7. CASE HandlePostStart
    <3>1. SessionType'
      BY <2>7, Constants
         DEF HandlePostStart, MainIdle, session, counters, shown, loop, env,
             history, TypeInv, SessionType
    <3>2. FlagsType' /\ StopType' /\ CountersType' /\ ShownType' /\ LoopType' /\
          GateType' /\ EnvType' /\ HistoryType'
      BY <2>7
         DEF HandlePostStart, MainIdle, session, counters, shown, loop, env,
             history, TypeInv, SessionType, FlagsType, StopType,
             CountersType, ShownType, LoopType, GateType, EnvType,
             HistoryType
    <3>3. QED BY <3>1, <3>2 DEF TypeInv
  <2>8. CASE MainStop
    <3>1. FlagsType'
      BY <2>8, IpFlagsAssumption
         DEF MainStop, StopMe, MainIdle, control, counters, env, history,
             TypeInv, FlagsType, SessionType
    <3>2. SessionType'
      BY <2>8, Constants
         DEF MainStop, StopMe, MainIdle, control, counters, env, history,
             TypeInv, SessionType
    <3>3. ShownType'
      BY <2>8, Constants
         DEF MainStop, StopMe, MainIdle, control, counters, env, history,
             TypeInv, ShownType, SessionType
    <3>4. LoopType'
      BY <2>8, Constants
         DEF MainStop, StopMe, MainIdle, control, counters, env, history,
             TypeInv, LoopType, SessionType
    <3>5. StopType' /\ CountersType' /\ GateType' /\ EnvType' /\ HistoryType'
      BY <2>8
         DEF MainStop, StopMe, MainIdle, control, counters, env, history,
             TypeInv, SessionType, StopType, CountersType, GateType,
             EnvType, HistoryType
    <3>6. QED BY <3>1, <3>2, <3>3, <3>4, <3>5 DEF TypeInv
  <2>9. ASSUME NEW b \in BinderThreads, BinderStop(b) PROVE TypeInv'
    <3>1. FlagsType'
      BY <2>9, IpFlagsAssumption
         DEF BinderStop, counters, shown, loop, env, history, TypeInv,
             FlagsType, SessionType
    <3>2. SessionType'
      BY <2>9, Constants
         DEF BinderStop, counters, shown, loop, env, history, TypeInv,
             SessionType
    <3>3. StopType'
      BY <2>9
         DEF BinderStop, counters, shown, loop, env, history, TypeInv,
             StopType, SessionType
    <3>4. CountersType' /\ ShownType' /\ LoopType' /\ GateType' /\ EnvType' /\
          HistoryType'
      BY <2>9
         DEF BinderStop, counters, shown, loop, env, history, TypeInv,
             SessionType, CountersType, ShownType, LoopType, GateType,
             EnvType, HistoryType
    <3>5. QED BY <3>1, <3>2, <3>3, <3>4 DEF TypeInv
  <2>10. ASSUME NEW b \in BinderThreads, StopProbe(b) PROVE TypeInv'
    <3>1. FlagsType'
      BY <2>10, IpFlagsAssumption
         DEF StopProbe, GoTo, counters, env, history, TypeInv, FlagsType,
             SessionType
    <3>2. StopType'
      BY <2>10
         DEF StopProbe, GoTo, counters, env, history, TypeInv, StopType,
             SessionType
    <3>3. SessionType' /\ CountersType' /\ ShownType' /\ LoopType' /\ GateType'
          /\ EnvType' /\ HistoryType'
      BY <2>10
         DEF StopProbe, GoTo, counters, env, history, TypeInv, SessionType,
             CountersType, ShownType, LoopType, GateType, EnvType,
             HistoryType
    <3>4. QED BY <3>1, <3>2, <3>3 DEF TypeInv
  <2>11. ASSUME NEW b \in BinderThreads, StopUnpost(b) PROVE TypeInv'
    <3>1. StopType'
      BY <2>11
         DEF StopUnpost, GoTo, counters, env, history, TypeInv, StopType,
             SessionType
    <3>2. LoopType'
      BY <2>11, Constants
         DEF StopUnpost, GoTo, counters, env, history, TypeInv, LoopType,
             SessionType
    <3>3. FlagsType' /\ SessionType' /\ CountersType' /\ ShownType' /\ GateType'
          /\ EnvType' /\ HistoryType'
      BY <2>11
         DEF StopUnpost, GoTo, counters, env, history, TypeInv, SessionType,
             FlagsType, CountersType, ShownType, GateType, EnvType,
             HistoryType
    <3>4. QED BY <3>1, <3>2, <3>3 DEF TypeInv
  <2>12. ASSUME NEW b \in BinderThreads, StopProxy(b) PROVE TypeInv'
    <3>1. SessionType'
      BY <2>12, Constants
         DEF StopProxy, GoTo, counters, env, history, TypeInv, SessionType
    <3>2. StopType'
      BY <2>12
         DEF StopProxy, GoTo, counters, env, history, TypeInv, StopType,
             SessionType
    <3>3. FlagsType' /\ CountersType' /\ ShownType' /\ LoopType' /\ GateType' /\
          EnvType' /\ HistoryType'
      BY <2>12
         DEF StopProxy, GoTo, counters, env, history, TypeInv, SessionType,
             FlagsType, CountersType, ShownType, LoopType, GateType,
             EnvType, HistoryType
    <3>4. QED BY <3>1, <3>2, <3>3 DEF TypeInv
  <2>13. ASSUME NEW b \in BinderThreads, StopIp(b) PROVE TypeInv'
    <3>1. FlagsType'
      BY <2>13, IpFlagsAssumption
         DEF StopIp, GoTo, counters, env, history, TypeInv, FlagsType,
             SessionType
    <3>2. SessionType'
      BY <2>13, Constants
         DEF StopIp, GoTo, counters, env, history, TypeInv, SessionType
    <3>3. StopType'
      BY <2>13
         DEF StopIp, GoTo, counters, env, history, TypeInv, StopType,
             SessionType
    <3>4. ShownType'
      BY <2>13, Constants
         DEF StopIp, GoTo, counters, env, history, TypeInv, ShownType,
             SessionType
    <3>5. CountersType' /\ LoopType' /\ GateType' /\ EnvType' /\ HistoryType'
      BY <2>13
         DEF StopIp, GoTo, counters, env, history, TypeInv, SessionType,
             CountersType, LoopType, GateType, EnvType, HistoryType
    <3>6. QED BY <3>1, <3>2, <3>3, <3>4, <3>5 DEF TypeInv
  <2>14. ASSUME NEW b \in BinderThreads, StopVerified(b) PROVE TypeInv'
    <3>1. FlagsType'
      BY <2>14, IpFlagsAssumption
         DEF StopVerified, GoTo, counters, env, history, TypeInv, FlagsType,
             SessionType
    <3>2. StopType'
      BY <2>14
         DEF StopVerified, GoTo, counters, env, history, TypeInv, StopType,
             SessionType
    <3>3. SessionType' /\ CountersType' /\ ShownType' /\ LoopType' /\ GateType'
          /\ EnvType' /\ HistoryType'
      BY <2>14
         DEF StopVerified, GoTo, counters, env, history, TypeInv,
             SessionType, CountersType, ShownType, LoopType, GateType,
             EnvType, HistoryType
    <3>4. QED BY <3>1, <3>2, <3>3 DEF TypeInv
  <2>15. ASSUME NEW b \in BinderThreads, StopDown(b) PROVE TypeInv'
    <3>1. FlagsType'
      BY <2>15, IpFlagsAssumption
         DEF StopDown, GoTo, counters, env, history, TypeInv, FlagsType,
             SessionType
    <3>2. StopType'
      BY <2>15
         DEF StopDown, GoTo, counters, env, history, TypeInv, StopType,
             SessionType
    <3>3. SessionType' /\ CountersType' /\ ShownType' /\ LoopType' /\ GateType'
          /\ EnvType' /\ HistoryType'
      BY <2>15
         DEF StopDown, GoTo, counters, env, history, TypeInv, SessionType,
             CountersType, ShownType, LoopType, GateType, EnvType,
             HistoryType
    <3>4. QED BY <3>1, <3>2, <3>3 DEF TypeInv
  <2>16. ASSUME NEW b \in BinderThreads, StopPending(b) PROVE TypeInv'
    <3>1. StopType'
      BY <2>16
         DEF StopPending, GoTo, counters, env, history, TypeInv, StopType,
             SessionType
    <3>2. ShownType'
      BY <2>16, Constants
         DEF StopPending, GoTo, counters, env, history, TypeInv, ShownType,
             SessionType
    <3>3. FlagsType' /\ SessionType' /\ CountersType' /\ LoopType' /\ GateType'
          /\ EnvType' /\ HistoryType'
      BY <2>16
         DEF StopPending, GoTo, counters, env, history, TypeInv,
             SessionType, FlagsType, CountersType, LoopType, GateType,
             EnvType, HistoryType
    <3>4. QED BY <3>1, <3>2, <3>3 DEF TypeInv
  <2>17. CASE CheckTick
    <3>1. mRunning => [att |-> latest, proxy |-> mProxy, stage |-> "begin",
                      probe |-> "pending"] \in Task
      BY <2>17
         DEF Task, TypeInv, SessionType
    <3>2. executor' \in Seq(Task)
      BY <2>17, <3>1
         DEF CheckTick, TypeInv, LoopType
    <3>3. FlagsType'
      BY <2>17, <3>1, <3>2, IpFlagsAssumption
         DEF CheckTick, MainIdle, session, control, counters, shown, env,
             history, TypeInv, FlagsType, SessionType
    <3>4. LoopType'
      BY <2>17, <3>1, <3>2, Constants
         DEF CheckTick, MainIdle, session, control, counters, shown, env,
             history, TypeInv, LoopType, SessionType
    <3>5. SessionType' /\ StopType' /\ CountersType' /\ ShownType' /\ GateType'
          /\ EnvType' /\ HistoryType'
      BY <2>17
         DEF CheckTick, MainIdle, session, control, counters, shown, env,
             history, TypeInv, SessionType, StopType, CountersType,
             ShownType, GateType, EnvType, HistoryType
    <3>6. QED BY <3>3, <3>4, <3>5 DEF TypeInv
  <2>18. CASE ScreenOff
    <3>1. FlagsType'
      BY <2>18, IpFlagsAssumption
         DEF ScreenOff, session, control, counters, shown, loop, history,
             TypeInv, FlagsType, SessionType
    <3>2. EnvType'
      BY <2>18, Constants, IpBoundsAssumption
         DEF ScreenOff, session, control, counters, shown, loop, history,
             TypeInv, EnvType, SessionType
    <3>3. SessionType' /\ StopType' /\ CountersType' /\ ShownType' /\ LoopType'
          /\ GateType' /\ HistoryType'
      BY <2>18
         DEF ScreenOff, session, control, counters, shown, loop, history,
             TypeInv, SessionType, StopType, CountersType, ShownType,
             LoopType, GateType, HistoryType
    <3>4. QED BY <3>1, <3>2, <3>3 DEF TypeInv
  <2>19. CASE ScreenOn
    <3>1. FlagsType'
      BY <2>19, IpFlagsAssumption
         DEF ScreenOn, MainIdle, session, control, shown, history, TypeInv,
             FlagsType, SessionType
    <3>2. CountersType'
      BY <2>19, Constants, IpBoundsAssumption
         DEF ScreenOn, MainIdle, session, control, shown, history, TypeInv,
             CountersType, SessionType
    <3>3. LoopType'
      BY <2>19, Constants
         DEF ScreenOn, MainIdle, session, control, shown, history, TypeInv,
             LoopType, SessionType
    <3>4. SessionType' /\ StopType' /\ ShownType' /\ GateType' /\ EnvType' /\
          HistoryType'
      BY <2>19
         DEF ScreenOn, MainIdle, session, control, shown, history, TypeInv,
             SessionType, StopType, ShownType, GateType, EnvType,
             HistoryType
    <3>5. QED BY <3>1, <3>2, <3>3, <3>4 DEF TypeInv
  <2>20. CASE TaskBegin
    <3>1. executor # <<>> /\ executor \in Seq(Task)
      BY <2>20
         DEF TaskBegin, TypeInv, LoopType
    <3>2. executor' \in Seq(Task)
      BY <2>20, <3>1, TaskType
         DEF TaskBegin, Answer, ProbeAnswers
    <3>3. LoopType'
      BY <2>20, <3>1, <3>2, Constants
         DEF TaskBegin, session, control, counters, shown, env, history,
             TypeInv, LoopType, SessionType
    <3>4. FlagsType' /\ SessionType' /\ StopType' /\ CountersType' /\ ShownType'
          /\ GateType' /\ EnvType' /\ HistoryType'
      BY <2>20
         DEF TaskBegin, session, control, counters, shown, env, history,
             TypeInv, SessionType, FlagsType, StopType, CountersType,
             ShownType, GateType, EnvType, HistoryType
    <3>5. QED BY <3>3, <3>4 DEF TypeInv
  <2>21. CASE EarlyGood
    <3>1. executor # <<>> /\ executor \in Seq(Task)
      BY <2>21
         DEF EarlyGood, TypeInv, LoopType
    <3>2. executor' \in Seq(Task)
      BY <2>21, <3>1, TaskType
         DEF EarlyGood, Answer, ProbeAnswers
    <3>3. CountersType'
      BY <2>21, <3>1, <3>2, Constants, IpBoundsAssumption
         DEF EarlyGood, session, control, shown, env, history, TypeInv,
             CountersType, SessionType
    <3>4. LoopType'
      BY <2>21, <3>1, <3>2, Constants
         DEF EarlyGood, session, control, shown, env, history, TypeInv,
             LoopType, SessionType
    <3>5. FlagsType' /\ SessionType' /\ StopType' /\ ShownType' /\ GateType' /\
          EnvType' /\ HistoryType'
      BY <2>21
         DEF EarlyGood, session, control, shown, env, history, TypeInv,
             SessionType, FlagsType, StopType, ShownType, GateType, EnvType,
             HistoryType
    <3>6. QED BY <3>3, <3>4, <3>5 DEF TypeInv
  <2>22. CASE EarlyBad
    <3>1. executor # <<>> /\ executor \in Seq(Task)
      BY <2>22
         DEF EarlyBad, TypeInv, LoopType
    <3>2. posted' \in Seq(Result)
      BY <2>22, <3>1, TaskType, PostType
         DEF EarlyBad, Answer, ProbeAnswers, TypeInv, LoopType
    <3>3. executor' \in Seq(Task)
      BY <2>22, <3>1, <3>2, TaskType
         DEF EarlyBad, Answer, ProbeAnswers
    <3>4. FlagsType'
      BY <2>22, <3>1, <3>2, <3>3, IpFlagsAssumption
         DEF EarlyBad, Observe, session, control, shown, env, TypeInv,
             FlagsType, SessionType
    <3>5. CountersType'
      BY <2>22, <3>1, <3>2, <3>3, Constants, IpBoundsAssumption
         DEF EarlyBad, Observe, session, control, shown, env, TypeInv,
             CountersType, SessionType
    <3>6. LoopType'
      BY <2>22, <3>1, <3>2, <3>3, Constants
         DEF EarlyBad, Observe, session, control, shown, env, TypeInv,
             LoopType, SessionType
    <3>7. HistoryType'
      BY <2>22, <3>1, <3>2, <3>3
         DEF EarlyBad, Observe, session, control, shown, env, TypeInv,
             HistoryType, SessionType
    <3>8. SessionType' /\ StopType' /\ ShownType' /\ GateType' /\ EnvType'
      BY <2>22
         DEF EarlyBad, Observe, session, control, shown, env, TypeInv,
             SessionType, StopType, ShownType, GateType, EnvType
    <3>9. QED BY <3>4, <3>5, <3>6, <3>7, <3>8 DEF TypeInv
  <2>23. CASE LookupOk
    <3>1. executor # <<>> /\ executor \in Seq(Task)
      BY <2>23
         DEF LookupOk, TypeInv, LoopType
    <3>2. posted' \in Seq(Result)
      BY <2>23, <3>1, TaskType, PostType
         DEF LookupOk, Answer, ProbeAnswers, TypeInv, LoopType
    <3>3. executor' \in Seq(Task)
      BY <2>23, <3>1, <3>2, TaskType
         DEF LookupOk
    <3>4. LoopType'
      BY <2>23, <3>1, <3>2, <3>3, Constants
         DEF LookupOk, session, control, counters, shown, env, history,
             TypeInv, LoopType, SessionType
    <3>5. FlagsType' /\ SessionType' /\ StopType' /\ CountersType' /\ ShownType'
          /\ GateType' /\ EnvType' /\ HistoryType'
      BY <2>23
         DEF LookupOk, session, control, counters, shown, env, history,
             TypeInv, SessionType, FlagsType, StopType, CountersType,
             ShownType, GateType, EnvType, HistoryType
    <3>6. QED BY <3>4, <3>5 DEF TypeInv
  <2>24. CASE LookupNull
    <3>1. executor # <<>> /\ executor \in Seq(Task)
      BY <2>24
         DEF LookupNull, TypeInv, LoopType
    <3>2. posted' \in Seq(Result)
      BY <2>24, <3>1, TaskType, PostType
         DEF LookupNull, Answer, ProbeAnswers, TypeInv, LoopType
    <3>3. executor' \in Seq(Task)
      BY <2>24, <3>1, <3>2, TaskType
         DEF LookupNull
    <3>4. FlagsType'
      BY <2>24, <3>1, <3>2, <3>3, IpFlagsAssumption
         DEF LookupNull, Observe, session, control, counters, shown, env,
             history, TypeInv, FlagsType, SessionType
    <3>5. LoopType'
      BY <2>24, <3>1, <3>2, <3>3, Constants
         DEF LookupNull, Observe, session, control, counters, shown, env,
             history, TypeInv, LoopType, SessionType
    <3>6. HistoryType'
      BY <2>24, <3>1, <3>2, <3>3
         DEF LookupNull, Observe, session, control, counters, shown, env,
             history, TypeInv, HistoryType, SessionType
    <3>7. SessionType' /\ StopType' /\ CountersType' /\ ShownType' /\ GateType'
          /\ EnvType'
      BY <2>24
         DEF LookupNull, Observe, session, control, counters, shown, env,
             history, TypeInv, SessionType, StopType, CountersType,
             ShownType, GateType, EnvType
    <3>8. QED BY <3>4, <3>5, <3>6, <3>7 DEF TypeInv
  <2>25. CASE LookupThrows
    <3>1. executor # <<>> /\ executor \in Seq(Task)
      BY <2>25
         DEF LookupThrows, TypeInv, LoopType
    <3>2. posted' \in Seq(Result)
      BY <2>25, <3>1, TaskType, PostType
         DEF LookupThrows, Answer, ProbeAnswers, TypeInv, LoopType
    <3>3. executor' \in Seq(Task)
      BY <2>25, <3>1, <3>2, TaskType
         DEF LookupThrows
    <3>4. LoopType'
      BY <2>25, <3>1, <3>2, <3>3, Constants
         DEF LookupThrows, session, control, counters, shown, env, history,
             TypeInv, LoopType, SessionType
    <3>5. FlagsType' /\ SessionType' /\ StopType' /\ CountersType' /\ ShownType'
          /\ GateType' /\ EnvType' /\ HistoryType'
      BY <2>25
         DEF LookupThrows, session, control, counters, shown, env, history,
             TypeInv, SessionType, FlagsType, StopType, CountersType,
             ShownType, GateType, EnvType, HistoryType
    <3>6. QED BY <3>4, <3>5 DEF TypeInv
  <2>26. CASE HandleFastFail
    <3>1. posted' \in Seq(Result) /\ Head(posted).proxy \in ProxyOrNone
      BY <2>26, ResultType
         DEF HandleFastFail, TypeInv, LoopType
    <3>2. FlagsType'
      BY <2>26, <3>1, IpFlagsAssumption
         DEF HandleFastFail, StopByCheck, control, counters, env, MainIdle,
             StopMe, session, shown, TypeInv, FlagsType, SessionType
    <3>3. SessionType'
      BY <2>26, <3>1, Constants
         DEF HandleFastFail, StopByCheck, control, counters, env, MainIdle,
             StopMe, session, shown, TypeInv, SessionType
    <3>4. ShownType'
      BY <2>26, <3>1, Constants
         DEF HandleFastFail, StopByCheck, control, counters, env, MainIdle,
             StopMe, session, shown, TypeInv, ShownType, SessionType
    <3>5. LoopType'
      BY <2>26, <3>1, Constants
         DEF HandleFastFail, StopByCheck, control, counters, env, MainIdle,
             StopMe, session, shown, TypeInv, LoopType, SessionType
    <3>6. StopType' /\ CountersType' /\ GateType' /\ EnvType' /\ HistoryType'
      BY <2>26
         DEF HandleFastFail, StopByCheck, control, counters, env, MainIdle,
             StopMe, session, shown, TypeInv, SessionType, StopType,
             CountersType, GateType, EnvType, HistoryType
    <3>7. QED BY <3>2, <3>3, <3>4, <3>5, <3>6 DEF TypeInv
  <2>27. CASE HandleInfo
    <3>1. posted' \in Seq(Result) /\ Head(posted).proxy \in ProxyOrNone
      BY <2>27, ResultType
         DEF HandleInfo, TypeInv, LoopType
    <3>2. Seen(Head(posted).proxy) \in IpOrNone
      BY <2>27, <3>1, SeenType
    <3>3. accelIp' \in [key : ProxyOrNone, ip : IpOrNone]
      BY <2>27, <3>1, <3>2, CacheType
         DEF HandleInfo, TypeInv, SessionType, ShownType
    <3>4. FlagsType'
      BY <2>27, <3>1, <3>2, <3>3, IpFlagsAssumption
         DEF HandleInfo, session, control, env, history, MainIdle, TypeInv,
             FlagsType, SessionType
    <3>5. CountersType'
      BY <2>27, <3>1, <3>2, <3>3, Constants, IpBoundsAssumption
         DEF HandleInfo, session, control, env, history, MainIdle, TypeInv,
             CountersType, SessionType
    <3>6. ShownType'
      BY <2>27, <3>1, <3>2, <3>3, Constants
         DEF HandleInfo, session, control, env, history, MainIdle, TypeInv,
             ShownType, SessionType
    <3>7. LoopType'
      BY <2>27, <3>1, <3>2, <3>3, Constants
         DEF HandleInfo, session, control, env, history, MainIdle, TypeInv,
             LoopType, SessionType
    <3>8. SessionType' /\ StopType' /\ GateType' /\ EnvType' /\ HistoryType'
      BY <2>27
         DEF HandleInfo, session, control, env, history, MainIdle, TypeInv,
             SessionType, StopType, GateType, EnvType, HistoryType
    <3>9. QED BY <3>4, <3>5, <3>6, <3>7, <3>8 DEF TypeInv
  <2>28. CASE HandleNoInfoRetry
    <3>1. posted' \in Seq(Result) /\ Head(posted).proxy \in ProxyOrNone
      BY <2>28, ResultType
         DEF HandleNoInfoRetry, TypeInv, LoopType
    <3>2. FlagsType'
      BY <2>28, <3>1, IpFlagsAssumption
         DEF HandleNoInfoRetry, session, control, env, history, MainIdle,
             TypeInv, FlagsType, SessionType
    <3>3. CountersType'
      BY <2>28, <3>1, Constants, IpBoundsAssumption
         DEF HandleNoInfoRetry, session, control, env, history, MainIdle,
             TypeInv, CountersType, SessionType
    <3>4. LoopType'
      BY <2>28, <3>1, Constants
         DEF HandleNoInfoRetry, session, control, env, history, MainIdle,
             TypeInv, LoopType, SessionType
    <3>5. SessionType' /\ StopType' /\ ShownType' /\ GateType' /\ EnvType' /\
          HistoryType'
      BY <2>28
         DEF HandleNoInfoRetry, session, control, env, history, MainIdle,
             TypeInv, SessionType, StopType, ShownType, GateType, EnvType,
             HistoryType
    <3>6. QED BY <3>2, <3>3, <3>4, <3>5 DEF TypeInv
  <2>29. CASE HandleNoInfoStrike
    <3>1. posted' \in Seq(Result) /\ Head(posted).proxy \in ProxyOrNone
      BY <2>29, ResultType
         DEF HandleNoInfoStrike, TypeInv, LoopType
    <3>2. queued' = 0 \/ queued' = queued \/ queued' = queued + 1
      BY <2>29, <3>1
         DEF HandleNoInfoStrike, StopByCheck, StopMe
    <3>3. queued \in Nat
      BY <2>29, <3>1, <3>2
         DEF TypeInv, LoopType
    <3>4. FlagsType'
      BY <2>29, <3>1, <3>2, <3>3, IpFlagsAssumption
         DEF HandleNoInfoStrike, StopByCheck, session, control, env,
             MainIdle, StopMe, shown, TypeInv, FlagsType, SessionType
    <3>5. SessionType'
      BY <2>29, <3>1, <3>2, <3>3, Constants
         DEF HandleNoInfoStrike, StopByCheck, session, control, env,
             MainIdle, StopMe, shown, TypeInv, SessionType
    <3>6. CountersType'
      BY <2>29, <3>1, <3>2, <3>3, Constants, IpBoundsAssumption
         DEF HandleNoInfoStrike, StopByCheck, session, control, env,
             MainIdle, StopMe, shown, TypeInv, CountersType, SessionType
    <3>7. ShownType'
      BY <2>29, <3>1, <3>2, <3>3, Constants
         DEF HandleNoInfoStrike, StopByCheck, session, control, env,
             MainIdle, StopMe, shown, TypeInv, ShownType, SessionType
    <3>8. LoopType'
      BY <2>29, <3>1, <3>2, <3>3, Constants
         DEF HandleNoInfoStrike, StopByCheck, session, control, env,
             MainIdle, StopMe, shown, TypeInv, LoopType, SessionType
    <3>9. StopType' /\ GateType' /\ EnvType' /\ HistoryType'
      BY <2>29
         DEF HandleNoInfoStrike, StopByCheck, session, control, env,
             MainIdle, StopMe, shown, TypeInv, SessionType, StopType,
             GateType, EnvType, HistoryType
    <3>10. QED BY <3>4, <3>5, <3>6, <3>7, <3>8, <3>9 DEF TypeInv
  <2>30. CASE HandleException
    <3>1. posted' \in Seq(Result) /\ Head(posted).proxy \in ProxyOrNone
      BY <2>30, ResultType
         DEF HandleException, TypeInv, LoopType
    <3>2. FlagsType'
      BY <2>30, <3>1, IpFlagsAssumption
         DEF HandleException, session, control, counters, shown, env,
             history, MainIdle, TypeInv, FlagsType, SessionType
    <3>3. LoopType'
      BY <2>30, <3>1, Constants
         DEF HandleException, session, control, counters, shown, env,
             history, MainIdle, TypeInv, LoopType, SessionType
    <3>4. SessionType' /\ StopType' /\ CountersType' /\ ShownType' /\ GateType'
          /\ EnvType' /\ HistoryType'
      BY <2>30
         DEF HandleException, session, control, counters, shown, env,
             history, MainIdle, TypeInv, SessionType, StopType,
             CountersType, ShownType, GateType, EnvType, HistoryType
    <3>5. QED BY <3>2, <3>3, <3>4 DEF TypeInv
  <2>31. CASE HandleGate
    <3>1. posted' \in Seq(Result) /\ Head(posted).proxy \in ProxyOrNone
      BY <2>31, ResultType
         DEF HandleGate, TypeInv, LoopType
    <3>2. FlagsType'
      BY <2>31, <3>1, IpFlagsAssumption
         DEF HandleGate, StopMe, session, control, counters, shown, env,
             MainIdle, TypeInv, FlagsType, SessionType
    <3>3. SessionType'
      BY <2>31, <3>1, Constants
         DEF HandleGate, StopMe, session, control, counters, shown, env,
             MainIdle, TypeInv, SessionType
    <3>4. ShownType'
      BY <2>31, <3>1, Constants
         DEF HandleGate, StopMe, session, control, counters, shown, env,
             MainIdle, TypeInv, ShownType, SessionType
    <3>5. LoopType'
      BY <2>31, <3>1, Constants
         DEF HandleGate, StopMe, session, control, counters, shown, env,
             MainIdle, TypeInv, LoopType, SessionType
    <3>6. StopType' /\ CountersType' /\ GateType' /\ EnvType' /\ HistoryType'
      BY <2>31
         DEF HandleGate, StopMe, session, control, counters, shown, env,
             MainIdle, TypeInv, SessionType, StopType, CountersType,
             GateType, EnvType, HistoryType
    <3>7. QED BY <3>2, <3>3, <3>4, <3>5, <3>6 DEF TypeInv
  <2>32. ASSUME NEW a \in Attempt, GateProbe(a) PROVE TypeInv'
    <3>1. posted' \in Seq(Result)
      BY <2>32, PostType
         DEF GateProbe, Answer, ProbeAnswers, TypeInv, LoopType, SessionType
    <3>2. FlagsType'
      BY <2>32, <3>1, IpFlagsAssumption
         DEF GateProbe, Observe, session, control, counters, shown, env,
             TypeInv, FlagsType, SessionType
    <3>3. LoopType'
      BY <2>32, <3>1, Constants
         DEF GateProbe, Observe, session, control, counters, shown, env,
             TypeInv, LoopType, SessionType
    <3>4. GateType'
      BY <2>32, <3>1, Constants
         DEF GateProbe, Observe, session, control, counters, shown, env,
             TypeInv, GateType, SessionType
    <3>5. HistoryType'
      BY <2>32, <3>1
         DEF GateProbe, Observe, session, control, counters, shown, env,
             TypeInv, HistoryType, SessionType
    <3>6. SessionType' /\ StopType' /\ CountersType' /\ ShownType' /\ EnvType'
      BY <2>32
         DEF GateProbe, Observe, session, control, counters, shown, env,
             TypeInv, SessionType, StopType, CountersType, ShownType,
             EnvType
    <3>7. QED BY <3>2, <3>3, <3>4, <3>5, <3>6 DEF TypeInv
  <2>33. CASE UNCHANGED vars
    BY <2>33
       DEF vars, session, control, counters, shown, loop, env, history,
           TypeInv, FlagsType, SessionType, StopType, CountersType,
           ShownType, LoopType, GateType, EnvType, HistoryType
  <2>34. QED
    BY <2>1, <2>2, <2>3, <2>4, <2>5, <2>6, <2>7, <2>8, <2>9, <2>10, <2>11,
       <2>12, <2>13, <2>14, <2>15, <2>16, <2>17, <2>18, <2>19, <2>20, <2>21,
       <2>22, <2>23, <2>24, <2>25, <2>26, <2>27, <2>28, <2>29, <2>30, <2>31,
       <2>32, <2>33
       DEF Next, Step, MainStep, StopStep, TaskStep, ResultStep
<1>2. QED BY <1>1

\* The service starts well typed.
LEMMA TypeInit == Init => TypeInv
<1> SUFFICES ASSUME Init PROVE TypeInv
  OBVIOUS
<1>1. SessionType /\ StopType
  BY Constants DEF Init, SessionType, StopType
<1>2. CountersType /\ EnvType /\ HistoryType
  BY Constants DEF Init, CountersType, EnvType, HistoryType
<1>3. FlagsType
  BY DEF Init, FlagsType
<1>4. ShownType
  BY Constants DEF Init, ShownType
<1>5. LoopType
  BY DEF Init, LoopType
<1>6. GateType
  BY DEF Init, GateType
<1>7. QED BY <1>1, <1>2, <1>3, <1>4, <1>5, <1>6 DEF TypeInv

-----------------------------------------------------------------------------
(* As long as no start, completion or result overlapped a binder's stop.   *)

Idle == \A b \in BinderThreads : stop[b] = "idle"

\* One thread tears down, with nothing running and the main thread in no start.
Alone ==
  \A b \in BinderThreads : stop[b] # "idle" =>
    /\ ~mRunning /\ main = "idle"
    /\ \A c \in BinderThreads : stop[c] # "idle" => c = b

\* What a teardown has undone by the line it has come to.
Undone ==
  \A b \in BinderThreads :
    /\ stop[b] \in {"verified", "unpost2", "down", "pending"} => mCurrentIp = NoProxy
    /\ stop[b] \in {"unpost2", "down", "pending"} => ~mProxyVerified
    /\ stop[b] = "pending" => ~mTunnelUp

\* Outside a teardown the tunnel is a running service's, and only with it
\* anything is shown; a start that has set mRunning still has it.
Settled ==
  /\ Idle => /\ mTunnelUp => mRunning
             /\ ~mTunnelUp => mCurrentIp = NoProxy /\ ~mProxyVerified
  /\ main \in {"begin", "postStart"} => mRunning

\* The strike that reaches the limit takes the tunnel down.
StrikesLeft ==
  /\ mIpCheckFailures <= MaxFailures
  /\ mTunnelUp => mIpCheckFailures < MaxFailures

Calm == Alone /\ Undone /\ Settled /\ StrikesLeft

CalmInv == ~raced => Calm

\* A line of a teardown: nothing but its own thread is anywhere else.
LEMMA LineAlone ==
  ASSUME TypeInv, Alone, NEW b \in BinderThreads, NEW s, NEW n, GoTo(b, s, n),
         s # "idle"
  PROVE  /\ ~mRunning /\ main = "idle" /\ main' = "idle"
         /\ \A c \in BinderThreads : c # b => stop'[c] = "idle"
         /\ stop'[b] = n /\ stop[b] = s
         /\ UNCHANGED counters
<1>1. /\ stop[b] = s /\ stop' = [stop EXCEPT ![b] = n] /\ main' = main
      /\ UNCHANGED counters
  BY DEF GoTo
<1>2. /\ ~mRunning /\ main = "idle"
      /\ \A c \in BinderThreads : stop[c] # "idle" => c = b
  BY <1>1 DEF Alone
<1>3. stop'[b] = n /\ \A c \in BinderThreads : c # b => stop'[c] = stop[c]
  BY <1>1 DEF TypeInv, StopType
<1>4. QED BY <1>1, <1>2, <1>3

\* A teardown that has only its own state to account for.
LEMMA LineCalm ==
  ASSUME NEW b \in BinderThreads, ~mRunning', main' = "idle",
         \A c \in BinderThreads : c # b => stop'[c] = "idle",
         Calm, UNCHANGED mIpCheckFailures, mTunnelUp' => mTunnelUp,
         stop'[b] \in {"verified", "unpost2", "down", "pending"} => mCurrentIp' = NoProxy,
         stop'[b] \in {"unpost2", "down", "pending"} => ~mProxyVerified',
         stop'[b] = "pending" => ~mTunnelUp',
         stop'[b] = "idle" => ~mTunnelUp' /\ mCurrentIp' = NoProxy /\ ~mProxyVerified'
  PROVE  Calm'
<1>1. Alone'
  BY DEF Alone
<1>2. Undone'
  <2> SUFFICES ASSUME NEW c \in BinderThreads
               PROVE  /\ stop'[c] \in {"verified", "unpost2", "down", "pending"}
                           => mCurrentIp' = NoProxy
                      /\ stop'[c] \in {"unpost2", "down", "pending"} => ~mProxyVerified'
                      /\ stop'[c] = "pending" => ~mTunnelUp'
    BY DEF Undone
  <2>1. CASE c = b
    BY <2>1
  <2>2. CASE c # b
    BY <2>2
  <2>3. QED BY <2>1, <2>2
<1>3. Settled'
  BY DEF Settled, Idle
<1>4. StrikesLeft'
  BY DEF StrikesLeft, Calm
<1>5. QED BY <1>1, <1>2, <1>3, <1>4 DEF Calm

\* A step of the main thread outside any teardown.
LEMMA IdleCalm ==
  ASSUME Calm, Idle', Settled', StrikesLeft' PROVE Calm'
  BY DEF Calm, Idle, Alone, Undone

\* A step that changes nothing the teardown is about.
LEMMA QuietCalm ==
  ASSUME Calm, UNCHANGED <<mRunning, mTunnelUp, main, stop, mCurrentIp, mProxyVerified>>,
         mIpCheckFailures' = mIpCheckFailures \/ mIpCheckFailures' = 0
  PROVE  Calm'
<1>1. Alone' /\ Undone' /\ Settled'
  BY DEF Calm, Alone, Undone, Settled, Idle
<1>2. StrikesLeft'
  BY Constants DEF Calm, StrikesLeft
<1>3. QED BY <1>1, <1>2 DEF Calm

\* Every step keeps the service calm until something overlaps a binder's stop.
LEMMA CalmStep == TypeInv /\ CalmInv /\ [Next]_vars => CalmInv'
<1> SUFFICES ASSUME TypeInv, CalmInv, [Next]_vars, ~raced' PROVE Calm'
  BY DEF CalmInv
<1>0. /\ ~raced /\ Calm
      /\ Next => (main' = "idle" /\ ~(Len(posted') < Len(posted))) \/ Idle'
  <2>1. Next => raced' = (raced \/ ((main' # "idle" \/ Len(posted') < Len(posted))
                                  /\ \E b \in BinderThreads : stop'[b] # "idle"))
    BY DEF Next, Record
  <2>2. Next => ~raced /\ ((main' = "idle" /\ ~(Len(posted') < Len(posted))) \/ Idle')
    BY <2>1, Zenon DEF Idle
  <2>3. (UNCHANGED vars) => ~raced
    BY DEF vars
  <2>4. QED BY <2>2, <2>3 DEF CalmInv
<1>1. posted \in Seq(Result)
  BY DEF TypeInv, LoopType
<1>2. \A k : Next /\ Take(k) => Idle'
  BY <1>0, <1>1, ResultType
<1>3. Alone /\ Undone /\ Settled /\ StrikesLeft
  BY <1>0 DEF Calm
<1>4. 0 <= MaxFailures /\ 0 < MaxFailures /\ MaxFailures \in Nat
      /\ mIpCheckFailures \in Nat
  BY Constants DEF TypeInv, CountersType
<1>5. CASE UNCHANGED vars
  BY <1>0, <1>5, QuietCalm DEF vars, session, control, counters, shown
<1>6. CASE Next
  <2>1. ASSUME NEW p \in Proxies, StartFields(p) PROVE Calm'
    <3>1. Idle' /\ UNCHANGED stop
      BY <2>1, <1>0, <1>6
         DEF StartFields, control
    <3>2. Idle
      BY <2>1, <3>1
         DEF Idle
    <3>3. Settled'
      BY <2>1, <3>1, <3>2, <1>3
         DEF StartFields, MainIdle, counters, shown, Settled
    <3>4. StrikesLeft'
      BY <2>1, <3>1, <3>2, <3>3, <1>3, <1>4
         DEF StartFields, MainIdle, counters, shown, StrikesLeft
    <3>5. QED
      BY <2>1, <3>1, <3>2, <3>3, <3>4, <1>0, IdleCalm
  <2>2. ASSUME NEW p \in Proxies, ProxyDies(p) PROVE Calm'
    BY <2>2, <1>0, QuietCalm
       DEF ProxyDies, session, control, counters, shown
  <2>3. CASE StartRun
    <3>1. Idle' /\ UNCHANGED stop
      BY <2>3, <1>0, <1>6
         DEF StartRun, control
    <3>2. Idle
      BY <2>3, <3>1
         DEF Idle
    <3>3. Settled'
      BY <2>3, <3>1, <3>2, <1>3
         DEF StartRun, shown, Settled
    <3>4. StrikesLeft'
      BY <2>3, <3>1, <3>2, <3>3, <1>3, <1>4
         DEF StartRun, shown, StrikesLeft
    <3>5. QED
      BY <2>3, <3>1, <3>2, <3>3, <3>4, <1>0, IdleCalm
  <2>4. CASE StartChecks
    <3>1. mRunning
      BY <2>4, <1>3
         DEF StartChecks, Settled
    <3>2. Idle /\ UNCHANGED stop
      BY <2>4, <3>1, <1>3
         DEF StartChecks, control, Alone, Idle
    <3>3. Idle'
      BY <2>4, <3>1, <3>2
         DEF Idle
    <3>4. Idle
      BY <2>4, <3>1, <3>2, <3>3
         DEF Idle
    <3>5. Settled'
      BY <2>4, <3>1, <3>2, <3>3, <3>4, <1>3
         DEF StartChecks, session, counters, shown, Settled
    <3>6. StrikesLeft'
      BY <2>4, <3>1, <3>2, <3>3, <3>4, <3>5, <1>3, <1>4
         DEF StartChecks, session, counters, shown, StrikesLeft
    <3>7. QED
      BY <2>4, <3>1, <3>2, <3>3, <3>4, <3>5, <3>6, <1>0, IdleCalm
  <2>5. CASE ConfigureFailed
    <3>1. mRunning
      BY <2>5, <1>3
         DEF ConfigureFailed, Settled
    <3>2. Idle /\ UNCHANGED stop
      BY <2>5, <3>1, <1>3
         DEF ConfigureFailed, control, Alone, Idle
    <3>3. Idle'
      BY <2>5, <3>1, <3>2
         DEF Idle
    <3>4. Idle
      BY <2>5, <3>1, <3>2, <3>3
         DEF Idle
    <3>5. Settled'
      BY <2>5, <3>1, <3>2, <3>3, <3>4, <1>3
         DEF ConfigureFailed, StopMe, session, counters, shown, Settled
    <3>6. StrikesLeft'
      BY <2>5, <3>1, <3>2, <3>3, <3>4, <3>5, <1>3, <1>4
         DEF ConfigureFailed, StopMe, session, counters, shown, StrikesLeft
    <3>7. QED
      BY <2>5, <3>1, <3>2, <3>3, <3>4, <3>5, <3>6, <1>0, IdleCalm
  <2>6. CASE TunnelUp
    <3>1. mRunning
      BY <2>6, <1>3
         DEF TunnelUp, Settled
    <3>2. Idle /\ UNCHANGED stop
      BY <2>6, <3>1, <1>3
         DEF TunnelUp, control, Alone, Idle
    <3>3. Idle'
      BY <2>6, <3>1, <3>2
         DEF Idle
    <3>4. Idle
      BY <2>6, <3>1, <3>2, <3>3
         DEF Idle
    <3>5. Settled'
      BY <2>6, <3>1, <3>2, <3>3, <3>4, <1>3
         DEF TunnelUp, Settled
    <3>6. StrikesLeft'
      BY <2>6, <3>1, <3>2, <3>3, <3>4, <3>5, <1>3, <1>4
         DEF TunnelUp, StrikesLeft
    <3>7. QED
      BY <2>6, <3>1, <3>2, <3>3, <3>4, <3>5, <3>6, <1>0, IdleCalm
  <2>7. CASE HandlePostStart
    <3>1. Idle' /\ UNCHANGED stop
      BY <2>7, <1>0, <1>6
         DEF HandlePostStart, control
    <3>2. Idle
      BY <2>7, <3>1
         DEF Idle
    <3>3. Settled'
      BY <2>7, <3>1, <3>2, <1>3
         DEF HandlePostStart, MainIdle, session, counters, shown, Settled
    <3>4. StrikesLeft'
      BY <2>7, <3>1, <3>2, <3>3, <1>3, <1>4
         DEF HandlePostStart, MainIdle, session, counters, shown,
             StrikesLeft
    <3>5. QED
      BY <2>7, <3>1, <3>2, <3>3, <3>4, <1>0, IdleCalm
  <2>8. CASE MainStop
    <3>1. mRunning
      BY <2>8, <1>3
         DEF MainStop
    <3>2. Idle /\ UNCHANGED stop
      BY <2>8, <3>1, <1>3
         DEF MainStop, control, Alone, Idle
    <3>3. Idle'
      BY <2>8, <3>1, <3>2
         DEF Idle
    <3>4. Idle
      BY <2>8, <3>1, <3>2, <3>3
         DEF Idle
    <3>5. Settled'
      BY <2>8, <3>1, <3>2, <3>3, <3>4, <1>3
         DEF MainStop, StopMe, MainIdle, control, counters, Settled
    <3>6. StrikesLeft'
      BY <2>8, <3>1, <3>2, <3>3, <3>4, <3>5, <1>3, <1>4
         DEF MainStop, StopMe, MainIdle, control, counters, StrikesLeft
    <3>7. QED
      BY <2>8, <3>1, <3>2, <3>3, <3>4, <3>5, <3>6, <1>0, IdleCalm
  <2>9. ASSUME NEW b \in BinderThreads, BinderStop(b) PROVE Calm'
    <3>1. mRunning /\ ~mRunning' /\ stop' = [stop EXCEPT ![b] = "probe"]
      BY <2>9
         DEF BinderStop
    <3>2. \A c \in BinderThreads : stop[c] = "idle"
      BY <2>9, <3>1, <1>3
         DEF Alone
    <3>3. stop'[b] = "probe" /\ \A c \in BinderThreads : c # b => stop'[c] = "idle"
      BY <2>9, <3>1, <3>2
         DEF TypeInv, StopType
    <3>4. main' = "idle"
      BY <2>9, <3>1, <3>2, <3>3, <1>0, <1>6
         DEF Idle
    <3>5. QED
      BY <2>9, <3>1, <3>2, <3>3, <3>4, <1>0, LineCalm
         DEF BinderStop, counters, shown
  <2>10. ASSUME NEW b \in BinderThreads, StopProbe(b) PROVE Calm'
    <3>1. /\ ~mRunning /\ main' = "idle" /\ UNCHANGED mIpCheckFailures
          /\ \A c \in BinderThreads : c # b => stop'[c] = "idle"
          /\ stop[b] = "probe" /\ stop'[b] = "unpost"
      BY <2>10, <1>3, LineAlone
         DEF StopProbe, counters
    <3>2. QED
      BY <2>10, <3>1, <1>0, <1>3, LineCalm
         DEF StopProbe, Undone
  <2>11. ASSUME NEW b \in BinderThreads, StopUnpost(b) PROVE Calm'
    <3>1. /\ ~mRunning /\ main' = "idle" /\ UNCHANGED mIpCheckFailures
          /\ \A c \in BinderThreads : c # b => stop'[c] = "idle"
          /\ \/ stop[b] = "unpost" /\ stop'[b] = "proxy"
             \/ stop[b] = "unpost2" /\ stop'[b] = "down"
      BY <2>11, <1>3, LineAlone
         DEF StopUnpost, counters
    <3>2. QED
      BY <2>11, <3>1, <1>0, <1>3, LineCalm
         DEF StopUnpost, Undone
  <2>12. ASSUME NEW b \in BinderThreads, StopProxy(b) PROVE Calm'
    <3>1. /\ ~mRunning /\ main' = "idle" /\ UNCHANGED mIpCheckFailures
          /\ \A c \in BinderThreads : c # b => stop'[c] = "idle"
          /\ stop[b] = "proxy" /\ stop'[b] = "ip"
      BY <2>12, <1>3, LineAlone
         DEF StopProxy, counters
    <3>2. QED
      BY <2>12, <3>1, <1>0, <1>3, LineCalm
         DEF StopProxy, Undone
  <2>13. ASSUME NEW b \in BinderThreads, StopIp(b) PROVE Calm'
    <3>1. /\ ~mRunning /\ main' = "idle" /\ UNCHANGED mIpCheckFailures
          /\ \A c \in BinderThreads : c # b => stop'[c] = "idle"
          /\ stop[b] = "ip" /\ stop'[b] = "verified"
      BY <2>13, <1>3, LineAlone
         DEF StopIp, counters
    <3>2. QED
      BY <2>13, <3>1, <1>0, <1>3, LineCalm
         DEF StopIp, Undone
  <2>14. ASSUME NEW b \in BinderThreads, StopVerified(b) PROVE Calm'
    <3>1. /\ ~mRunning /\ main' = "idle" /\ UNCHANGED mIpCheckFailures
          /\ \A c \in BinderThreads : c # b => stop'[c] = "idle"
          /\ stop[b] = "verified" /\ stop'[b] = "unpost2"
      BY <2>14, <1>3, LineAlone
         DEF StopVerified, counters
    <3>2. QED
      BY <2>14, <3>1, <1>0, <1>3, LineCalm
         DEF StopVerified, Undone
  <2>15. ASSUME NEW b \in BinderThreads, StopDown(b) PROVE Calm'
    <3>1. /\ ~mRunning /\ main' = "idle" /\ UNCHANGED mIpCheckFailures
          /\ \A c \in BinderThreads : c # b => stop'[c] = "idle"
          /\ stop[b] = "down" /\ stop'[b] = "pending"
      BY <2>15, <1>3, LineAlone
         DEF StopDown, counters
    <3>2. QED
      BY <2>15, <3>1, <1>0, <1>3, LineCalm
         DEF StopDown, Undone
  <2>16. ASSUME NEW b \in BinderThreads, StopPending(b) PROVE Calm'
    <3>1. /\ ~mRunning /\ main' = "idle" /\ UNCHANGED mIpCheckFailures
          /\ \A c \in BinderThreads : c # b => stop'[c] = "idle"
          /\ stop[b] = "pending" /\ stop'[b] = "idle"
      BY <2>16, <1>3, LineAlone
         DEF StopPending, counters
    <3>2. QED
      BY <2>16, <3>1, <1>0, <1>3, LineCalm
         DEF StopPending, Undone
  <2>17. CASE CheckTick
    BY <2>17, <1>0, QuietCalm
       DEF CheckTick, session, control, counters, shown
  <2>18. CASE ScreenOff
    BY <2>18, <1>0, QuietCalm
       DEF ScreenOff, session, control, counters, shown
  <2>19. CASE ScreenOn
    BY <2>19, <1>0, QuietCalm
       DEF ScreenOn, session, control, shown
  <2>20. CASE TaskBegin
    BY <2>20, <1>0, QuietCalm
       DEF TaskBegin, session, control, counters, shown
  <2>21. CASE EarlyGood
    BY <2>21, <1>0, QuietCalm
       DEF EarlyGood, session, control, shown
  <2>22. CASE EarlyBad
    BY <2>22, <1>0, QuietCalm
       DEF EarlyBad, session, control, shown
  <2>23. CASE LookupOk
    BY <2>23, <1>0, QuietCalm
       DEF LookupOk, session, control, counters, shown
  <2>24. CASE LookupNull
    BY <2>24, <1>0, QuietCalm
       DEF LookupNull, session, control, counters, shown
  <2>25. CASE LookupThrows
    BY <2>25, <1>0, QuietCalm
       DEF LookupThrows, session, control, counters, shown
  <2>26. CASE HandleFastFail
    <3>1. Idle' /\ UNCHANGED stop
      BY <2>26, <1>2, <1>6
         DEF HandleFastFail, control
    <3>2. main' = "idle" /\ Idle
      BY <2>26, <3>1
         DEF HandleFastFail, Take, MainIdle, control, Idle
    <3>3. \/ /\ ~mTunnelUp' /\ ~mRunning'
             /\ mCurrentIp' = NoProxy /\ ~mProxyVerified'
          \/ /\ UNCHANGED <<mRunning, mTunnelUp, mCurrentIp>>
             /\ mProxyVerified' => mProxyVerified
      BY <2>26, <3>1, <3>2, <1>4
         DEF HandleFastFail, StopByCheck, counters, StopMe, session, shown
    <3>4. Settled'
      BY <2>26, <3>1, <3>2, <3>3, <1>3
         DEF Settled
    <3>5. StrikesLeft'
      BY <2>26, <3>1, <3>2, <3>3, <3>4, <1>3, <1>4
         DEF HandleFastFail, counters, StrikesLeft
    <3>6. QED
      BY <2>26, <3>1, <3>2, <3>3, <3>4, <3>5, <1>0, IdleCalm
  <2>27. CASE HandleInfo
    <3>1. Idle' /\ UNCHANGED stop
      BY <2>27, <1>2, <1>6
         DEF HandleInfo, control
    <3>2. Idle
      BY <2>27, <3>1
         DEF Idle
    <3>3. Settled'
      BY <2>27, <3>1, <3>2, <1>3
         DEF HandleInfo, session, control, MainIdle, Settled
    <3>4. StrikesLeft'
      BY <2>27, <3>1, <3>2, <3>3, <1>3, <1>4
         DEF HandleInfo, session, control, MainIdle, StrikesLeft
    <3>5. QED
      BY <2>27, <3>1, <3>2, <3>3, <3>4, <1>0, IdleCalm
  <2>28. CASE HandleNoInfoRetry
    <3>1. Idle' /\ UNCHANGED stop
      BY <2>28, <1>2, <1>6
         DEF HandleNoInfoRetry, control
    <3>2. Idle
      BY <2>28, <3>1
         DEF Idle
    <3>3. Settled'
      BY <2>28, <3>1, <3>2, <1>3
         DEF HandleNoInfoRetry, session, control, MainIdle, Settled
    <3>4. StrikesLeft'
      BY <2>28, <3>1, <3>2, <3>3, <1>3, <1>4
         DEF HandleNoInfoRetry, session, control, MainIdle, StrikesLeft
    <3>5. QED
      BY <2>28, <3>1, <3>2, <3>3, <3>4, <1>0, IdleCalm
  <2>29. CASE HandleNoInfoStrike
    <3>1. Idle' /\ UNCHANGED stop
      BY <2>29, <1>2, <1>6
         DEF HandleNoInfoStrike, control
    <3>2. main' = "idle" /\ Idle
      BY <2>29, <3>1
         DEF HandleNoInfoStrike, Take, MainIdle, control, Idle
    <3>3. mTunnelUp /\ mRunning /\ mIpCheckFailures' = mIpCheckFailures + 1
      BY <2>29, <3>2, <1>3
         DEF HandleNoInfoStrike, Settled
    <3>4. mIpCheckFailures < MaxFailures
      BY <3>3, <1>3 DEF StrikesLeft
    <3>5. CASE mIpCheckFailures + 1 >= MaxFailures
      <4>1. StopMe
        BY <2>29, <3>3, <3>5 DEF HandleNoInfoStrike, StopByCheck
      <4>2. ~mTunnelUp' /\ ~mRunning' /\ mCurrentIp' = NoProxy /\ ~mProxyVerified'
        BY <4>1 DEF StopMe
      <4>3. mIpCheckFailures' <= MaxFailures
        BY <3>3, <3>4, <1>4
      <4>4. Settled' /\ StrikesLeft'
        BY <3>2, <4>2, <4>3 DEF Settled, StrikesLeft
      <4>5. QED BY <1>0, <3>1, <4>4, IdleCalm
    <3>6. CASE ~(mIpCheckFailures + 1 >= MaxFailures)
      <4>1. UNCHANGED session /\ mCurrentIp' = mCurrentIp
        BY <2>29, <3>6 DEF HandleNoInfoStrike
      <4>2. mTunnelUp' /\ mRunning'
        BY <3>3, <4>1 DEF session
      <4>3. mIpCheckFailures' < MaxFailures /\ mIpCheckFailures' <= MaxFailures
        BY <3>3, <3>6, <1>4
      <4>4. Settled' /\ StrikesLeft'
        BY <3>2, <4>2, <4>3 DEF Settled, StrikesLeft
      <4>5. QED BY <1>0, <3>1, <4>4, IdleCalm
    <3>7. QED BY <3>5, <3>6
  <2>30. CASE HandleException
    BY <2>30, <1>0, QuietCalm
       DEF HandleException, session, control, counters, shown
  <2>31. CASE HandleGate
    <3>1. Idle' /\ UNCHANGED stop
      BY <2>31, <1>2, <1>6
         DEF HandleGate, control
    <3>2. main' = "idle" /\ Idle
      BY <2>31, <3>1
         DEF HandleGate, Take, MainIdle, control, Idle
    <3>3. \/ /\ ~mTunnelUp' /\ ~mRunning'
             /\ mCurrentIp' = NoProxy /\ ~mProxyVerified'
          \/ /\ UNCHANGED <<mRunning, mTunnelUp, mCurrentIp>>
             /\ mProxyVerified' => mProxyVerified
      BY <2>31, <3>1, <3>2, <1>4
         DEF HandleGate, StopMe, session, counters, shown
    <3>4. Settled'
      BY <2>31, <3>1, <3>2, <3>3, <1>3
         DEF Settled
    <3>5. StrikesLeft'
      BY <2>31, <3>1, <3>2, <3>3, <3>4, <1>3, <1>4
         DEF HandleGate, counters, StrikesLeft
    <3>6. QED
      BY <2>31, <3>1, <3>2, <3>3, <3>4, <3>5, <1>0, IdleCalm
  <2>32. ASSUME NEW a \in Attempt, GateProbe(a) PROVE Calm'
    BY <2>32, <1>0, QuietCalm
       DEF GateProbe, session, control, counters, shown
  <2>33. QED
    BY <1>6, <2>1, <2>2, <2>3, <2>4, <2>5, <2>6, <2>7, <2>8, <2>9, <2>10, <2>11,
       <2>12, <2>13, <2>14, <2>15, <2>16, <2>17, <2>18, <2>19, <2>20, <2>21,
       <2>22, <2>23, <2>24, <2>25, <2>26, <2>27, <2>28, <2>29, <2>30, <2>31,
       <2>32
       DEF Next, Step, MainStep, StopStep, TaskStep, ResultStep
<1>7. QED BY <1>5, <1>6

\* A service starts calm.
LEMMA CalmInit == Init => CalmInv
  BY Constants
     DEF Init, CalmInv, Calm, Idle, Alone, Undone, Settled, StrikesLeft

\* The IP check keeps its state in its type: no counter passes its limit,
\* however results, stops, restarts and the lines of a binder's stop interleave;
\* mIpCheckFailures does if one of them overlaps such a stop.
THEOREM IpTypeCorrect == Spec => []TypeOK
<1>1. Init => raced \in BOOLEAN
  BY DEF Init
<1>2. raced \in BOOLEAN /\ [Next]_vars => (raced \in BOOLEAN)'
  BY DEF Next, Record, vars
<1>3. TypeInv /\ CalmInv /\ raced \in BOOLEAN => TypeOK
  BY DEF TypeInv, FlagsType, SessionType, StopType, CountersType, ShownType, LoopType,
         GateType, EnvType, HistoryType, CalmInv, Calm, StrikesLeft, TypeOK
<1>4. QED BY <1>1, <1>2, <1>3, TypeInit, TypeStep, CalmInit, CalmStep, PTL DEF Spec

\* Outside a teardown the exit IP and the verified mark are never shown without
\* the tunnel, for any number of attempts and of binder threads and however late
\* a result of an earlier attempt arrives, as long as no start, completion or
\* result overlapped a binder's stop.
THEOREM ShownOnlyWhenUpAlways == Spec => []ShownOnlyWhenUp
<1>1. CalmInv => ShownOnlyWhenUp
  BY DEF CalmInv, Calm, Settled, Idle, ShownOnlyWhenUp, Tearing
<1>2. QED BY <1>1, TypeInit, TypeStep, CalmInit, CalmStep, PTL DEF Spec

-----------------------------------------------------------------------------
\* LoopAlive is not inductive: a tick that finds a check in flight consumes its
\* post and relies on that check, so mProbeInFlight must stand for a task or a
\* result still to come; and an exit IP that is buffered relies on the tunnel,
\* whose completion must not have been believed before.
LoopInv ==
  /\ mProbeInFlight => executor # <<>> \/ Busy(posted)
  /\ arrived <= latest
  /\ main \in {"run", "begin"} => arrived # latest
  /\ ~raced /\ mRunning /\ main = "idle" =>
       /\ ~mTunnelUp => arrived # latest
       /\ \/ queued > 0 \/ executor # <<>> \/ Busy(posted)
          \/ mPendingIpInfo # NoProxy /\ arrived # latest

\* No step leaves a running service without a next check.
LEMMA LoopStep == TypeInv /\ CalmInv /\ LoopInv /\ [Next]_vars => LoopInv'
<1> SUFFICES ASSUME TypeInv, CalmInv, LoopInv, [Next]_vars PROVE LoopInv'
  OBVIOUS
<1> executor \in Seq(Task) /\ posted \in Seq(Result) /\ queued \in Nat
  BY DEF TypeInv, LoopType
<1> latest \in Nat /\ arrived \in Nat
  BY IpBoundsAssumption DEF TypeInv, SessionType
<1>0. ~raced' => ~raced /\ Alone
  <2>1. Next => raced' = (raced \/ ((main' # "idle" \/ Len(posted') < Len(posted))
                                  /\ \E b \in BinderThreads : stop'[b] # "idle"))
    BY DEF Next, Record
  <2>2. Next /\ ~raced' => ~raced
    BY <2>1, Zenon
  <2>3. (UNCHANGED vars) /\ ~raced' => ~raced
    BY DEF vars
  <2>4. QED BY <2>2, <2>3 DEF CalmInv, Calm
<1>1. LoopInv'
  <2>1. ASSUME NEW p \in Proxies, StartFields(p) PROVE LoopInv'
    BY <2>1, <1>0
       DEF StartFields, MainIdle, counters, shown, loop, env, LoopInv
  <2>2. ASSUME NEW p \in Proxies, ProxyDies(p) PROVE LoopInv'
    BY <2>2, <1>0
       DEF ProxyDies, session, control, counters, shown, loop, history,
           LoopInv
  <2>3. CASE StartRun
    BY <2>3, <1>0
       DEF StartRun, shown, loop, env, history, LoopInv
  <2>4. CASE StartChecks
    BY <2>4, <1>0
       DEF StartChecks, session, counters, shown, env, history, LoopInv
  <2>5. CASE ConfigureFailed
    BY <2>5, <1>0
       DEF ConfigureFailed, StopMe, session, counters, shown, env, history,
           LoopInv
  <2>6. CASE TunnelUp
    BY <2>6, <1>0
       DEF TunnelUp, env, history, LoopInv
  <2>7. CASE HandlePostStart
    BY <2>7, <1>0
       DEF HandlePostStart, MainIdle, session, counters, shown, loop, env,
           history, LoopInv
  <2>8. CASE MainStop
    BY <2>8, <1>0
       DEF MainStop, StopMe, MainIdle, control, counters, env, history,
           LoopInv
  <2>9. ASSUME NEW b \in BinderThreads, BinderStop(b) PROVE LoopInv'
    BY <2>9, <1>0
       DEF BinderStop, counters, shown, loop, env, history, LoopInv
  <2>10. ASSUME NEW b \in BinderThreads, StopProbe(b) PROVE LoopInv'
    <3>1. /\ UNCHANGED <<main, arrived, latest, executor, posted>>
          /\ mProbeInFlight' => mProbeInFlight
          /\ mRunning' => mRunning /\ stop[b] # "idle"
      BY <2>10
         DEF StopProbe, GoTo
    <3>2. QED
      BY <2>10, <3>1, <1>0
         DEF Alone, LoopInv
  <2>11. ASSUME NEW b \in BinderThreads, StopUnpost(b) PROVE LoopInv'
    <3>1. /\ UNCHANGED <<main, arrived, latest, executor, posted>>
          /\ mProbeInFlight' => mProbeInFlight
          /\ mRunning' => mRunning /\ stop[b] # "idle"
      BY <2>11
         DEF StopUnpost, GoTo
    <3>2. QED
      BY <2>11, <3>1, <1>0
         DEF Alone, LoopInv
  <2>12. ASSUME NEW b \in BinderThreads, StopProxy(b) PROVE LoopInv'
    <3>1. /\ UNCHANGED <<main, arrived, latest, executor, posted>>
          /\ mProbeInFlight' => mProbeInFlight
          /\ mRunning' => mRunning /\ stop[b] # "idle"
      BY <2>12
         DEF StopProxy, GoTo
    <3>2. QED
      BY <2>12, <3>1, <1>0
         DEF Alone, LoopInv
  <2>13. ASSUME NEW b \in BinderThreads, StopIp(b) PROVE LoopInv'
    <3>1. /\ UNCHANGED <<main, arrived, latest, executor, posted>>
          /\ mProbeInFlight' => mProbeInFlight
          /\ mRunning' => mRunning /\ stop[b] # "idle"
      BY <2>13
         DEF StopIp, GoTo
    <3>2. QED
      BY <2>13, <3>1, <1>0
         DEF Alone, LoopInv
  <2>14. ASSUME NEW b \in BinderThreads, StopVerified(b) PROVE LoopInv'
    <3>1. /\ UNCHANGED <<main, arrived, latest, executor, posted>>
          /\ mProbeInFlight' => mProbeInFlight
          /\ mRunning' => mRunning /\ stop[b] # "idle"
      BY <2>14
         DEF StopVerified, GoTo
    <3>2. QED
      BY <2>14, <3>1, <1>0
         DEF Alone, LoopInv
  <2>15. ASSUME NEW b \in BinderThreads, StopDown(b) PROVE LoopInv'
    <3>1. /\ UNCHANGED <<main, arrived, latest, executor, posted>>
          /\ mProbeInFlight' => mProbeInFlight
          /\ mRunning' => mRunning /\ stop[b] # "idle"
      BY <2>15
         DEF StopDown, GoTo
    <3>2. QED
      BY <2>15, <3>1, <1>0
         DEF Alone, LoopInv
  <2>16. ASSUME NEW b \in BinderThreads, StopPending(b) PROVE LoopInv'
    <3>1. /\ UNCHANGED <<main, arrived, latest, executor, posted>>
          /\ mProbeInFlight' => mProbeInFlight
          /\ mRunning' => mRunning /\ stop[b] # "idle"
      BY <2>16
         DEF StopPending, GoTo
    <3>2. QED
      BY <2>16, <3>1, <1>0
         DEF Alone, LoopInv
  <2>17. CASE CheckTick
    <3>1. mRunning /\ ~mProbeInFlight => executor' # <<>>
      BY <2>17
         DEF CheckTick
    <3>2. executor # <<>> => executor' # <<>>
      BY <2>17, <3>1
         DEF CheckTick
    <3>3. QED
      BY <2>17, <3>1, <3>2, <1>0
         DEF CheckTick, MainIdle, session, control, counters, shown, env,
             history, LoopInv
  <2>18. CASE ScreenOff
    BY <2>18, <1>0
       DEF ScreenOff, session, control, counters, shown, loop, history,
           LoopInv
  <2>19. CASE ScreenOn
    BY <2>19, <1>0
       DEF ScreenOn, MainIdle, session, control, shown, history, LoopInv
  <2>20. CASE TaskBegin
    <3>1. executor' # <<>>
      BY <2>20, TaskType
         DEF TaskBegin, Answer, ProbeAnswers
    <3>2. QED
      BY <2>20, <3>1, <1>0
         DEF TaskBegin, session, control, counters, shown, env, history,
             LoopInv
  <2>21. CASE EarlyGood
    <3>1. executor' # <<>>
      BY <2>21, TaskType
         DEF EarlyGood, Answer, ProbeAnswers
    <3>2. QED
      BY <2>21, <3>1, <1>0
         DEF EarlyGood, session, control, shown, env, history, LoopInv
  <2>22. CASE EarlyBad
    <3>1. Busy(posted') \/ (executor' # <<>> /\ posted' = posted)
      BY <2>22, TaskType, PostType
         DEF EarlyBad, Answer, ProbeAnswers
    <3>2. QED
      BY <2>22, <3>1, <1>0
         DEF EarlyBad, session, control, shown, env, LoopInv
  <2>23. CASE LookupOk
    <3>1. Busy(posted')
      BY <2>23, TaskType, PostType
         DEF LookupOk, Answer, ProbeAnswers
    <3>2. QED
      BY <2>23, <3>1, <1>0
         DEF LookupOk, session, control, counters, shown, env, history,
             LoopInv
  <2>24. CASE LookupNull
    <3>1. Busy(posted')
      BY <2>24, TaskType, PostType
         DEF LookupNull, Answer, ProbeAnswers
    <3>2. QED
      BY <2>24, <3>1, <1>0
         DEF LookupNull, session, control, counters, shown, env, history,
             LoopInv
  <2>25. CASE LookupThrows
    <3>1. Busy(posted')
      BY <2>25, TaskType, PostType
         DEF LookupThrows, Answer, ProbeAnswers
    <3>2. QED
      BY <2>25, <3>1, <1>0
         DEF LookupThrows, session, control, counters, shown, env, history,
             LoopInv
  <2>26. CASE HandleFastFail
    <3>1. ~mProbeInFlight' /\ ~mRunning' /\ UNCHANGED <<main, arrived, latest>>
      BY <2>26
         DEF HandleFastFail, StopByCheck, StopMe, session, control
    <3>2. QED
      BY <2>26, <3>1
         DEF LoopInv
  <2>27. CASE HandleInfo
    <3>1. Seen(Head(posted).proxy) # NoProxy
      BY <2>27, ResultType, SeenType
         DEF HandleInfo
    <3>2. main = "idle"
      BY <2>27, <3>1
         DEF HandleInfo, Take, MainIdle
    <3>3. QED
      BY <2>27, <3>1, <3>2, <1>0
         DEF HandleInfo, session, control, env, history, MainIdle, LoopInv
  <2>28. CASE HandleNoInfoRetry
    BY <2>28, <1>0
       DEF HandleNoInfoRetry, session, control, env, history, MainIdle,
           Take, MainIdle, LoopInv
  <2>29. CASE HandleNoInfoStrike
    <3>1. ~mProbeInFlight' /\ UNCHANGED <<main, arrived, latest>> /\ main = "idle"
      BY <2>29
         DEF HandleNoInfoStrike, StopByCheck, StopMe, session, control,
             Take, MainIdle
    <3>2. StopByCheck \/ (queued' = queued + 1 /\ UNCHANGED session)
      BY <2>29, <3>1
         DEF HandleNoInfoStrike
    <3>3. StopByCheck => ~mRunning'
      BY <2>29, <3>1, <3>2
         DEF StopByCheck, StopMe, session
    <3>4. mRunning' => queued' = queued + 1 /\ UNCHANGED <<mRunning, mTunnelUp>>
      BY <2>29, <3>1, <3>2, <3>3, Zenon
         DEF session
    <3>5. queued + 1 > 0
      BY <2>29, <3>1, <3>2, <3>3, <3>4
    <3>6. QED
      BY <2>29, <3>1, <3>2, <3>3, <3>4, <3>5, <1>0
         DEF LoopInv
  <2>30. CASE HandleException
    BY <2>30, <1>0
       DEF HandleException, session, control, counters, shown, env, history,
           MainIdle, Take, MainIdle, LoopInv
  <2>31. CASE HandleGate
    <3>1. Busy(posted) => Busy(posted')
      BY <2>31, ResultType
         DEF HandleGate
    <3>2. UNCHANGED <<main, arrived, executor>> /\ latest' = latest
      BY <2>31, <3>1
         DEF HandleGate, StopMe, session, control
    <3>3. \/ ~mRunning' /\ ~mProbeInFlight'
          \/ UNCHANGED <<session, shown, mProbeInFlight, queued>>
      BY <2>31, <3>1, <3>2
         DEF HandleGate, StopMe
    <3>4. QED
      BY <2>31, <3>1, <3>2, <3>3, <1>0
         DEF session, shown, LoopInv
  <2>32. ASSUME NEW a \in Attempt, GateProbe(a) PROVE LoopInv'
    <3>1. Busy(posted) => Busy(posted')
      BY <2>32, PostType
         DEF GateProbe, Answer, ProbeAnswers, TypeInv, SessionType
    <3>2. QED
      BY <2>32, <3>1, <1>0
         DEF GateProbe, session, control, counters, shown, env, LoopInv
  <2>33. CASE UNCHANGED vars
    BY <2>33, <1>0
       DEF vars, session, control, counters, shown, loop, env, history,
           LoopInv
  <2>34. QED
    BY <2>1, <2>2, <2>3, <2>4, <2>5, <2>6, <2>7, <2>8, <2>9, <2>10, <2>11,
       <2>12, <2>13, <2>14, <2>15, <2>16, <2>17, <2>18, <2>19, <2>20, <2>21,
       <2>22, <2>23, <2>24, <2>25, <2>26, <2>27, <2>28, <2>29, <2>30, <2>31,
       <2>32, <2>33
       DEF Next, Step, MainStep, StopStep, TaskStep, ResultStep
<1>2. QED BY <1>1

\* The check loop never dies while the service runs, whatever mixture of stops,
\* restarts, dozes and late results the main thread sees, as long as none of
\* them overlapped a binder's stop.
THEOREM LoopAliveAlways == Spec => []LoopAlive
<1>1. Init => LoopInv
  BY DEF Init, LoopInv
<1>2. LoopInv => LoopAlive
  BY DEF LoopInv, LoopAlive, Busy, MainIdle
<1>3. QED BY <1>1, <1>2, TypeInit, TypeStep, CalmInit, CalmStep, LoopStep, PTL DEF Spec

-----------------------------------------------------------------------------
(* What a queue of results says.                                           *)

One(q) == \A i, j \in 1..Len(q) : q[i].kind # "gate" /\ q[j].kind # "gate" => i = j

\* A result that may stop the service by itself.
Damning(x) == \/ x.kind = "fastFail" \/ x.kind = "gate"
              \/ x.kind = "noInfo" /\ x.probe = "hard"
Clean(q) == \A i \in 1..Len(q) : ~Damning(q[i])

SoftResult(x) == x.kind = "noInfo" /\ x.probe = "soft"
SoftIn(q) == \E i \in 1..Len(q) : SoftResult(q[i])

\* No result of a check that was begun without the probe.
Probed(x) == ~(x.kind = "noInfo" /\ x.probe = "off")
AllProbed(q) == \A i \in 1..Len(q) : Probed(q[i])

\* A queue with one more result at its end.
LEMMA AppendSays ==
  ASSUME NEW q \in Seq(Result), NEW x \in Result
  PROVE  LET r == Append(q, x)
         IN /\ Busy(r) <=> Busy(q) \/ x.kind # "gate"
            /\ ~Busy(q) => One(r)
            /\ x.kind = "gate" /\ One(q) => One(r)
            /\ Clean(r) <=> Clean(q) /\ ~Damning(x)
            /\ SoftIn(r) <=> SoftIn(q) \/ SoftResult(x)
            /\ AllProbed(q) /\ Probed(x) => AllProbed(r)
<1> DEFINE r == Append(q, x)
<1>1. /\ Len(q) \in Nat /\ Len(r) = Len(q) + 1
      /\ \A i \in 1..Len(q) : r[i] = q[i]
      /\ r[Len(q) + 1] = x
  OBVIOUS
<1> HIDE DEF r
<1>2. \A i \in 1..Len(r) : i \in 1..Len(q) \/ i = Len(q) + 1
  BY <1>1
<1>3. \A i \in 1..Len(q) : i \in 1..Len(r)
  BY <1>1
<1>4. Len(q) + 1 \in 1..Len(r)
  BY <1>1
<1>5. Busy(r) <=> Busy(q) \/ x.kind # "gate"
  BY <1>1, <1>2, <1>3, <1>4 DEF Busy
<1>6. /\ ~Busy(q) => One(r)
      /\ x.kind = "gate" /\ One(q) => One(r)
  BY <1>1, <1>2, <1>3, <1>4 DEF Busy, One
<1>7. Clean(r) <=> Clean(q) /\ ~Damning(x)
  BY <1>1, <1>2, <1>3, <1>4 DEF Clean
<1>8. SoftIn(r) <=> SoftIn(q) \/ SoftResult(x)
  BY <1>1, <1>2, <1>3, <1>4 DEF SoftIn
<1>9. AllProbed(q) /\ Probed(x) => AllProbed(r)
  BY <1>1, <1>2, <1>3, <1>4 DEF AllProbed
<1>10. QED BY <1>5, <1>6, <1>7, <1>8, <1>9 DEF r

\* A queue without its oldest result.
LEMMA TailSays ==
  ASSUME NEW q \in Seq(Result), q # <<>>
  PROVE  LET r == Tail(q)
         IN /\ Busy(r) => Busy(q)
            /\ Head(q).kind # "gate" => Busy(q)
            /\ One(q) => One(r)
            /\ One(q) /\ Head(q).kind # "gate" => ~Busy(r)
            /\ Clean(q) => Clean(r) /\ ~Damning(Head(q))
            /\ SoftIn(r) => SoftIn(q)
            /\ SoftResult(Head(q)) => SoftIn(q)
            /\ ~Busy(r) => ~SoftIn(r)
            /\ AllProbed(q) => AllProbed(r) /\ Probed(Head(q))
<1> DEFINE r == Tail(q)  h == Head(q)
<1>1. /\ Len(q) \in Nat /\ 1 \in 1..Len(q) /\ Len(r) = Len(q) - 1
      /\ \A i \in 1..Len(r) : r[i] = q[i + 1]
      /\ h = q[1]
  OBVIOUS
<1> HIDE DEF r, h
<1>2. \A i \in 1..Len(r) : i + 1 \in 1..Len(q) /\ i + 1 # 1
  BY <1>1
<1>3. /\ Busy(r) => Busy(q)
      /\ h.kind # "gate" => Busy(q)
  BY <1>1, <1>2 DEF Busy
<1>4. One(q) => One(r)
  <2> SUFFICES ASSUME One(q), NEW i \in 1..Len(r), NEW j \in 1..Len(r),
                      r[i].kind # "gate", r[j].kind # "gate"
               PROVE  i = j
    BY DEF One
  <2>1. /\ i + 1 \in 1..Len(q) /\ q[i + 1].kind # "gate"
        /\ j + 1 \in 1..Len(q) /\ q[j + 1].kind # "gate"
    BY <1>1, <1>2
  <2>2. i + 1 = j + 1
    BY <2>1 DEF One
  <2>3. QED BY <1>1, <2>2
<1>5. One(q) /\ h.kind # "gate" => ~Busy(r)
  BY <1>1, <1>2 DEF One, Busy
<1>6. Clean(q) => Clean(r) /\ ~Damning(h)
  BY <1>1, <1>2 DEF Clean
<1>7. /\ SoftIn(r) => SoftIn(q)
      /\ SoftResult(h) => SoftIn(q)
  BY <1>1, <1>2 DEF SoftIn
<1>8. ~Busy(r) => ~SoftIn(r)
  BY DEF Busy, SoftIn, SoftResult
<1>9. AllProbed(q) => AllProbed(r) /\ Probed(h)
  BY <1>1, <1>2 DEF AllProbed
<1>10. QED BY <1>3, <1>4, <1>5, <1>6, <1>7, <1>8, <1>9 DEF r, h

\* The same for the step that posts a result ...
LEMMA PostSays ==
  ASSUME NEW k \in {"fastFail", "info", "noInfo", "exception", "gate"},
         NEW t, t.att \in Attempt, t.proxy \in ProxyOrNone,
         NEW r \in Answer \cup {"off"},
         posted \in Seq(Result), PostResult(k, t, r)
  PROVE  /\ Busy(posted') <=> Busy(posted) \/ k # "gate"
         /\ ~Busy(posted) => One(posted')
         /\ k = "gate" /\ One(posted) => One(posted')
         /\ Clean(posted') <=> Clean(posted) /\ k \notin {"fastFail", "gate"}
                                /\ ~(k = "noInfo" /\ r = "hard")
         /\ SoftIn(posted') <=> SoftIn(posted) \/ (k = "noInfo" /\ r = "soft")
         /\ AllProbed(posted) /\ ~(k = "noInfo" /\ r = "off") => AllProbed(posted')
<1> DEFINE x == [kind |-> k, att |-> t.att, proxy |-> t.proxy, probe |-> r]
<1>1. x \in Result /\ x.kind = k /\ x.probe = r
  BY DEF Result
<1>2. posted' = Append(posted, x)
  BY DEF PostResult
<1> HIDE DEF x
<1>3. /\ Damning(x) <=> k \in {"fastFail", "gate"} \/ (k = "noInfo" /\ r = "hard")
      /\ SoftResult(x) <=> k = "noInfo" /\ r = "soft"
      /\ Probed(x) <=> ~(k = "noInfo" /\ r = "off")
  BY <1>1 DEF Damning, SoftResult, Probed
<1>4. QED BY <1>1, <1>2, <1>3, AppendSays

\* ... and for the one that takes it.
LEMMA TakeSays ==
  ASSUME NEW k, posted \in Seq(Result), Take(k)
  PROVE  /\ Busy(posted') => Busy(posted)
         /\ k # "gate" => Busy(posted)
         /\ One(posted) => One(posted')
         /\ One(posted) /\ k # "gate" => ~Busy(posted')
         /\ Clean(posted) => Clean(posted') /\ ~Damning(Head(posted))
         /\ SoftIn(posted') => SoftIn(posted)
         /\ SoftResult(Head(posted)) => SoftIn(posted)
         /\ ~Busy(posted') => ~SoftIn(posted')
         /\ AllProbed(posted) => AllProbed(posted') /\ Probed(Head(posted))
<1>1. posted # <<>> /\ posted' = Tail(posted) /\ Head(posted).kind = k
  BY DEF Take
<1>2. QED BY <1>1, TailSays

-----------------------------------------------------------------------------
(* The probe setting of the current attempt.                               *)

\* Tasks and fast fails are of attempts begun, and those of the current one that
\* a probe decides come from a current setting that has it on.
OwnTask(x) == x.att <= latest /\ (x.stage = "early" /\ x.att = latest => probing)
OwnFail(x) == x.kind = "fastFail" => x.att <= latest /\ (x.att = latest => probing)

OffInv ==
  /\ \A i \in 1..Len(executor) : OwnTask(executor[i])
  /\ \A i \in 1..Len(posted) : OwnFail(posted[i])

\* What is in a queue after one more came to its end, the first left it, or
\* another took the place of the first.
LEMMA QueueParts ==
  ASSUME NEW S, NEW q \in Seq(S), NEW x \in S
  PROVE  /\ \A i \in 1..Len(Append(q, x)) :
              Append(q, x)[i] = x \/ \E j \in 1..Len(q) : Append(q, x)[i] = q[j]
         /\ q # <<>> => /\ \E j \in 1..Len(q) : Head(q) = q[j]
                        /\ \A i \in 1..Len(Tail(q)) :
                             \E j \in 1..Len(q) : Tail(q)[i] = q[j]
                        /\ \A i \in 1..Len(<<x>> \o Tail(q)) :
                             \/ (<<x>> \o Tail(q))[i] = x
                             \/ \E j \in 1..Len(q) : (<<x>> \o Tail(q))[i] = q[j]
<1>1. \A i \in 1..Len(Append(q, x)) :
        Append(q, x)[i] = x \/ \E j \in 1..Len(q) : Append(q, x)[i] = q[j]
  <2>1. /\ Len(q) \in Nat /\ Len(Append(q, x)) = Len(q) + 1
        /\ \A i \in 1..Len(q) : Append(q, x)[i] = q[i]
        /\ Append(q, x)[Len(q) + 1] = x
    OBVIOUS
  <2>2. \A i \in 1..Len(Append(q, x)) : i \in 1..Len(q) \/ i = Len(q) + 1
    BY <2>1
  <2>3. QED BY <2>1, <2>2
<1>2. ASSUME q # <<>>
      PROVE  /\ \E j \in 1..Len(q) : Head(q) = q[j]
             /\ \A i \in 1..Len(Tail(q)) : \E j \in 1..Len(q) : Tail(q)[i] = q[j]
             /\ \A i \in 1..Len(<<x>> \o Tail(q)) :
                  \/ (<<x>> \o Tail(q))[i] = x
                  \/ \E j \in 1..Len(q) : (<<x>> \o Tail(q))[i] = q[j]
  <2> DEFINE t == Tail(q)  r == <<x>> \o t
  <2>1. /\ Len(q) \in Nat /\ Len(q) # 0 /\ t \in Seq(S) /\ Len(t) = Len(q) - 1
        /\ \A i \in 1..Len(t) : t[i] = q[i + 1]
        /\ Head(q) = q[1]
    BY <1>2
  <2> HIDE DEF t
  <2>2. /\ Len(r) = Len(t) + 1 /\ Len(t) \in Nat
        /\ r[1] = x
        /\ \A i \in 2..Len(t) + 1 : r[i] = t[i - 1]
    BY <2>1
  <2> HIDE DEF r
  <2>3. \A i \in 1..Len(t) : i + 1 \in 1..Len(q)
    BY <2>1
  <2>4. \A i \in 1..Len(r) : i = 1 \/ (i \in 2..Len(t) + 1 /\ i - 1 \in 1..Len(t)
                                       /\ i \in 1..Len(q) /\ (i - 1) + 1 = i)
    BY <2>1, <2>2
  <2>5. \A i \in 1..Len(r) : r[i] = x \/ \E j \in 1..Len(q) : r[i] = q[j]
    <3> SUFFICES ASSUME NEW i \in 1..Len(r), i # 1 PROVE r[i] = q[i] /\ i \in 1..Len(q)
      BY <2>2
    <3>1. r[i] = t[i - 1] /\ i - 1 \in 1..Len(t) /\ i \in 1..Len(q) /\ (i - 1) + 1 = i
      BY <2>2, <2>4
    <3>2. QED BY <2>1, <3>1
  <2>6. 1 \in 1..Len(q)
    BY <2>1
  <2>7. QED BY <2>1, <2>3, <2>5, <2>6 DEF r, t
<1>3. QED BY <1>1, <1>2

\* A task moved on is its attempt's; it may only be awaited early with the probe.
LEMMA OwnMoves ==
  ASSUME NEW t \in Task, OwnTask(t), NEW s \in {"begin", "early", "info"},
         NEW r \in Answer \cup {"pending", "off"}, s = "early" => probing
  PROVE  OwnTask([t EXCEPT !.stage = s, !.probe = r])
<1> DEFINE x == [t EXCEPT !.stage = s, !.probe = r]
<1>1. x.att = t.att /\ x.stage = s
  BY DEF Task
<1> HIDE DEF x
<1>2. OwnTask(x)
  BY <1>1 DEF OwnTask
<1>3. QED BY <1>2 DEF x

\* Every step keeps the current attempt's checks to its own setting.
LEMMA OffStep == TypeInv /\ OffInv /\ [Next]_vars => OffInv'
<1> SUFFICES ASSUME TypeInv, OffInv, [Next]_vars PROVE OffInv'
  OBVIOUS
<1> executor \in Seq(Task) /\ posted \in Seq(Result)
  BY DEF TypeInv, LoopType
<1> latest \in Nat
  BY IpBoundsAssumption DEF TypeInv, SessionType
<1> \A t \in Task : t.att \in Nat
  BY Constants DEF Task
<1> \A x \in Result : x.att \in Nat
  BY Constants DEF Result
<1> DEFINE Tasks == \A i \in 1..Len(executor) : OwnTask(executor[i])
           Fails == \A i \in 1..Len(posted) : OwnFail(posted[i])
<1>1. Tasks /\ Fails
  BY DEF OffInv
<1>2. ASSUME UNCHANGED <<latest, probing, executor>> PROVE Tasks'
  BY <1>1, <1>2 DEF OwnTask
<1>3. ASSUME UNCHANGED <<latest, probing, posted>> PROVE Fails'
  BY <1>1, <1>3 DEF OwnFail
<1>4. ASSUME UNCHANGED <<latest, probing>>, NEW x \in Task, OwnTask(x),
             \/ executor' = Append(executor, x)
             \/ executor # <<>> /\ executor' = <<x>> \o Tail(executor)
             \/ executor # <<>> /\ executor' = Tail(executor)
      PROVE  Tasks'
  <2>1. \A i \in 1..Len(executor') :
          executor'[i] = x \/ \E j \in 1..Len(executor) : executor'[i] = executor[j]
    <3>1. CASE executor' = Append(executor, x)
      BY <1>4, <3>1, QueueParts
    <3>2. CASE executor # <<>> /\ executor' = <<x>> \o Tail(executor)
      BY <1>4, <3>2, QueueParts
    <3>3. CASE executor # <<>> /\ executor' = Tail(executor)
      BY <1>4, <3>3, QueueParts
    <3>4. QED BY <1>4, <3>1, <3>2, <3>3
  <2>2. \A y : OwnTask(y) => (y.att <= latest' /\ (y.stage = "early" /\ y.att = latest' => probing'))
    BY <1>4 DEF OwnTask
  <2>3. \A i \in 1..Len(executor') : OwnTask(executor'[i])
    BY <1>1, <1>4, <2>1
  <2>4. QED BY <2>2, <2>3 DEF OwnTask
<1>5. ASSUME UNCHANGED <<latest, probing>>, NEW k, Take(k) PROVE Fails'
  <2>1. \A i \in 1..Len(posted') : \E j \in 1..Len(posted) : posted'[i] = posted[j]
    BY <1>5, QueueParts DEF Take
  <2>2. \A i \in 1..Len(posted') : OwnFail(posted'[i])
    BY <1>1, <2>1
  <2>3. QED BY <1>5, <2>2 DEF OwnFail
<1>6. ASSUME UNCHANGED <<latest, probing>>,
             NEW k \in {"fastFail", "info", "noInfo", "exception", "gate"},
             NEW t, t.att \in Attempt, t.proxy \in ProxyOrNone,
             NEW r \in Answer \cup {"off"}, PostResult(k, t, r),
             k = "fastFail" => t.att <= latest /\ (t.att = latest => probing)
      PROVE  Fails'
  <2> DEFINE x == [kind |-> k, att |-> t.att, proxy |-> t.proxy, probe |-> r]
  <2>1. x \in Result /\ x.kind = k /\ x.att = t.att
    BY <1>6 DEF Result
  <2>2. posted' = Append(posted, x)
    BY <1>6 DEF PostResult
  <2> HIDE DEF x
  <2>3. OwnFail(x)
    BY <1>6, <2>1 DEF OwnFail
  <2>4. \A i \in 1..Len(posted') :
          posted'[i] = x \/ \E j \in 1..Len(posted) : posted'[i] = posted[j]
    BY <2>1, <2>2, QueueParts
  <2>5. \A i \in 1..Len(posted') : OwnFail(posted'[i])
    BY <1>1, <2>3, <2>4
  <2>6. QED BY <1>6, <2>5 DEF OwnFail
<1>7. ASSUME executor # <<>>
      PROVE  /\ OwnTask(Head(executor)) /\ Head(executor) \in Task
             /\ Head(executor).att \in Attempt /\ Head(executor).proxy \in ProxyOrNone
             /\ Head(executor).probe \in Answer \cup {"pending", "off"}
  <2>1. \E j \in 1..Len(executor) : Head(executor) = executor[j]
    <3>1. Head(executor) \in Task
      BY <1>7, TaskType
    <3>2. QED BY <1>7, <3>1, QueueParts
  <2>2. QED BY <1>1, <1>7, <2>1, TaskType
<1>8. ASSUME NEW p \in Proxies, StartFields(p) PROVE OffInv'
  <2>1. latest' = latest + 1 /\ executor' = executor /\ posted' = posted
    BY <1>8 DEF StartFields, loop
  <2>2. \A i \in 1..Len(executor) : executor[i].att \in Nat /\ executor[i].att <= latest
    BY <1>1 DEF OwnTask
  <2>3. \A i \in 1..Len(posted) : posted[i].kind = "fastFail" =>
          posted[i].att \in Nat /\ posted[i].att <= latest
    BY <1>1 DEF OwnFail
  <2>4. \A n \in Nat : n <= latest => n <= latest + 1 /\ n # latest + 1
    OBVIOUS
  <2>5. QED BY <2>1, <2>2, <2>3, <2>4 DEF OffInv, OwnTask, OwnFail
<1>9. CASE CheckTick
  <2>1. UNCHANGED <<latest, probing, posted>>
    BY <1>9 DEF CheckTick, session
  <2>2. CASE mRunning /\ ~mProbeInFlight
    <3> DEFINE x == [att |-> latest, proxy |-> mProxy, stage |-> "begin",
                     probe |-> "pending"]
    <3>1. x \in Task /\ x.att = latest /\ x.stage = "begin"
      BY <2>2 DEF Task, TypeInv, SessionType
    <3>2. executor' = Append(executor, x)
      BY <1>9, <2>2 DEF CheckTick
    <3> HIDE DEF x
    <3>3. OwnTask(x)
      BY <3>1 DEF OwnTask
    <3>4. QED BY <1>3, <1>4, <2>1, <3>1, <3>2, <3>3 DEF OffInv
  <2>3. CASE ~(mRunning /\ ~mProbeInFlight)
    BY <1>2, <1>3, <1>9, <2>1, <2>3 DEF CheckTick, OffInv
  <2>4. QED BY <2>2, <2>3
<1>10. ASSUME executor # <<>>, NEW s \in {"begin", "early", "info"},
              NEW r \in Answer \cup {"pending", "off"}, s = "early" => probing,
              executor' = <<[Head(executor) EXCEPT !.stage = s, !.probe = r]>>
                            \o Tail(executor),
              UNCHANGED <<latest, probing, posted>>
       PROVE  OffInv'
  <2> DEFINE x == [Head(executor) EXCEPT !.stage = s, !.probe = r]
  <2>1. OwnTask(x) /\ x \in Task
    BY <1>7, <1>10, OwnMoves, StageType
  <2>2. executor' = <<x>> \o Tail(executor)
    BY <1>10
  <2> HIDE DEF x
  <2>3. QED BY <1>3, <1>4, <1>10, <2>1, <2>2 DEF OffInv
<1>11. CASE TaskBegin
  <2>1. /\ executor # <<>> /\ UNCHANGED <<latest, probing, posted>>
        /\ executor' = <<[Head(executor) EXCEPT
                            !.stage = IF probing /\ ~mTunnelUp THEN "early" ELSE "info",
                            !.probe = IF probing THEN "pending" ELSE "off"]>>
                         \o Tail(executor)
    BY <1>11 DEF TaskBegin, session
  <2> DEFINE s == IF probing /\ ~mTunnelUp THEN "early" ELSE "info"
             r == IF probing THEN "pending" ELSE "off"
  <2>2. s \in {"begin", "early", "info"} /\ (s = "early" => probing)
        /\ r \in Answer \cup {"pending", "off"}
    OBVIOUS
  <2>3. executor' = <<[Head(executor) EXCEPT !.stage = s, !.probe = r]>>
                      \o Tail(executor)
    BY <2>1
  <2> HIDE DEF s, r
  <2>4. QED BY <1>10, <2>1, <2>2, <2>3
<1>12. CASE EarlyGood
  <2>1. executor # <<>> /\ UNCHANGED <<latest, probing, posted>>
    BY <1>12 DEF EarlyGood, session
  <2>2. PICK r \in {"pending"} \cup (ProbeAnswers(Head(executor).proxy) \ {"soft", "hard"}) :
          executor' = <<[Head(executor) EXCEPT !.stage = "info", !.probe = r]>>
                        \o Tail(executor)
    BY <1>12 DEF EarlyGood
  <2>3. r \in Answer \cup {"pending", "off"}
    BY <2>2 DEF ProbeAnswers, Answer
  <2>4. QED BY <1>10, <2>1, <2>2, <2>3
<1>13. CASE EarlyBad
  <2>1. executor # <<>> /\ UNCHANGED <<latest, probing>> /\ Head(executor).stage = "early"
    BY <1>13 DEF EarlyBad, session
  <2>2. PICK r \in ProbeAnswers(Head(executor).proxy) \ {"ok"} :
          \/ PostResult("fastFail", Head(executor), r) /\ executor' = Tail(executor)
          \/ /\ executor' = <<[Head(executor) EXCEPT !.stage = "info", !.probe = r]>>
                              \o Tail(executor)
             /\ UNCHANGED posted
    BY <1>13 DEF EarlyBad
  <2>3. r \in Answer
    BY <2>2 DEF ProbeAnswers, Answer
  <2>4. CASE PostResult("fastFail", Head(executor), r) /\ executor' = Tail(executor)
    <3>1. Head(executor).att <= latest /\ (Head(executor).att = latest => probing)
      BY <1>7, <2>1 DEF OwnTask
    <3>2. Fails'
      BY <1>6, <1>7, <2>1, <2>3, <2>4, <3>1
    <3>3. Tasks'
      BY <1>4, <1>7, <2>1, <2>4
    <3>4. QED BY <3>2, <3>3 DEF OffInv
  <2>5. QED BY <1>10, <2>1, <2>2, <2>3, <2>4
<1>14. ASSUME executor # <<>>, UNCHANGED <<latest, probing>>, executor' = Tail(executor),
              NEW k \in {"info", "noInfo", "exception"}, NEW r \in Answer \cup {"off"},
              PostResult(k, Head(executor), r)
       PROVE  OffInv'
  <2>1. Fails'
    BY <1>6, <1>7, <1>14
  <2>2. Tasks'
    BY <1>4, <1>7, <1>14
  <2>3. QED BY <2>1, <2>2 DEF OffInv
<1>15. CASE LookupOk
  BY <1>14, <1>15 DEF LookupOk, session, Answer
<1>16. CASE LookupNull
  <2>1. /\ executor # <<>> /\ UNCHANGED <<latest, probing>>
        /\ executor' = Tail(executor)
    BY <1>16 DEF LookupNull, session
  <2>2. \E r \in Answer \cup {"off"} : PostResult("noInfo", Head(executor), r)
    <3>1. CASE Head(executor).probe = "pending"
      BY <1>16, <3>1 DEF LookupNull, ProbeAnswers, Answer
    <3>2. CASE Head(executor).probe # "pending"
      BY <1>7, <1>16, <2>1, <3>2 DEF LookupNull
    <3>3. QED BY <3>1, <3>2
  <2>3. QED BY <1>14, <2>1, <2>2
<1>17. CASE LookupThrows
  BY <1>14, <1>17 DEF LookupThrows, session
<1>18. CASE ResultStep
  <2>1. UNCHANGED <<latest, probing, executor>>
    BY <1>18
       DEF ResultStep, HandleFastFail, HandleInfo, HandleNoInfoRetry, HandleNoInfoStrike,
           HandleException, HandleGate, StopByCheck, StopMe, session
  <2>2. \E k : Take(k)
    BY <1>18
       DEF ResultStep, HandleFastFail, HandleInfo, HandleNoInfoRetry, HandleNoInfoStrike,
           HandleException, HandleGate
  <2>3. QED BY <1>2, <1>5, <2>1, <2>2 DEF OffInv
<1>19. ASSUME NEW a \in Attempt, GateProbe(a) PROVE OffInv'
  <2>1. UNCHANGED <<latest, probing, executor>>
    BY <1>19 DEF GateProbe, session
  <2>2. proxyOf[a] \in ProxyOrNone
    BY DEF TypeInv, SessionType
  <2>3. ASSUME NEW r \in {"ok", "soft", "hard"},
               PostResult("gate", [att |-> a, proxy |-> proxyOf[a]], r)
        PROVE  Fails'
    BY <1>6, <2>1, <2>2, <2>3 DEF Answer
  <2>4. Fails'
    BY <1>3, <1>19, <2>1, <2>3 DEF GateProbe, ProbeAnswers
  <2>5. QED BY <1>2, <2>1, <2>4 DEF OffInv
<1>20. CASE UNCHANGED <<latest, probing, executor, posted>>
  BY <1>2, <1>3, <1>20 DEF OffInv
<1>21. ASSUME NEW p \in Proxies, ProxyDies(p) PROVE OffInv'
  BY <1>20, <1>21 DEF ProxyDies, session, loop
<1>22. CASE MainStep \/ HandlePostStart \/ MainStop
  BY <1>20, <1>22
     DEF MainStep, StartRun, StartChecks, ConfigureFailed, TunnelUp, HandlePostStart,
         MainStop, StopMe, session, loop
<1>23. ASSUME NEW b \in BinderThreads, BinderStop(b) \/ StopStep(b) PROVE OffInv'
  BY <1>20, <1>23
     DEF StopStep, BinderStop, StopProbe, StopUnpost, StopProxy, StopIp, StopVerified,
         StopDown, StopPending, GoTo, session, loop
<1>24. CASE ScreenOff \/ ScreenOn
  BY <1>20, <1>24 DEF ScreenOff, ScreenOn, session, loop
<1>25. CASE UNCHANGED vars
  BY <1>20, <1>25 DEF vars, session, loop
<1>26. QED
  BY <1>8, <1>9, <1>11, <1>12, <1>13, <1>15, <1>16, <1>17, <1>18, <1>19, <1>21, <1>22,
     <1>23, <1>24, <1>25
     DEF Next, Step, TaskStep

\* A session begun with the probe off that shows its exit IP is not ended by any
\* of its own checks, whatever the attempts before it had set and whatever
\* overlaps a binder's stop: the health gate is quiet from then on, a strike
\* needs the setting, and a fast fail is of an attempt that had it.
THEOREM ProbeOffKeepsShownAlways == Spec => ProbeOffKeepsShown
<1>1. Init => OffInv
  BY DEF Init, OffInv
<1>2. TypeInv /\ OffInv /\ [Next]_vars
        => [~probing /\ mRunning /\ mCurrentIp # NoProxy /\ verdict' # verdict =>
              Head(posted).kind = "fastFail" /\ Head(posted).att # latest]_vars
  <2> SUFFICES ASSUME TypeInv, OffInv, Next, ~probing, mRunning, mCurrentIp # NoProxy,
                      verdict' # verdict
               PROVE  Head(posted).kind = "fastFail" /\ Head(posted).att # latest
    OBVIOUS
  <2>1. posted \in Seq(Result)
    BY DEF TypeInv, LoopType
  <2>2. CASE HandleFastFail
    <3>1. posted # <<>> /\ Head(posted).kind = "fastFail"
      BY <2>2 DEF HandleFastFail, Take
    <3>2. 1 \in 1..Len(posted) /\ Head(posted) = posted[1]
      BY <2>1, <3>1
    <3>3. OwnFail(Head(posted))
      BY <3>2 DEF OffInv
    <3>4. QED BY <3>1, <3>3 DEF OwnFail
  <2>3. CASE HandleNoInfoStrike
    BY <2>3 DEF HandleNoInfoStrike
  <2>4. CASE HandleGate
    BY <2>4 DEF HandleGate
  <2>5. ASSUME NEW p \in Proxies, StartFields(p) PROVE FALSE
    BY <2>5 DEF StartFields
  <2>6. CASE TaskStep
    BY <2>6
       DEF TaskStep, history, TaskBegin, EarlyGood, EarlyBad, Observe, LookupOk,
           LookupNull, LookupThrows
  <2>7. ASSUME NEW a \in Attempt, GateProbe(a) PROVE FALSE
    BY <2>7 DEF GateProbe, Observe
  <2>8. CASE HandleInfo \/ HandleNoInfoRetry \/ HandleException
    BY <2>8 DEF history, HandleInfo, HandleNoInfoRetry, HandleException
  <2>9. CASE MainStep \/ HandlePostStart \/ MainStop
    BY <2>9
       DEF MainStep, StartRun, StartChecks, ConfigureFailed, TunnelUp, HandlePostStart,
           MainStop, history
  <2>10. ASSUME NEW b \in BinderThreads, BinderStop(b) \/ StopStep(b) PROVE FALSE
    BY <2>10
       DEF StopStep, BinderStop, StopProbe, StopUnpost, StopProxy, StopIp, StopVerified,
           StopDown, StopPending, GoTo, history
  <2>11. ASSUME NEW p \in Proxies, ProxyDies(p) PROVE FALSE
    BY <2>11 DEF ProxyDies, history
  <2>12. CASE CheckTick \/ ScreenOff \/ ScreenOn
    BY <2>12 DEF CheckTick, ScreenOff, ScreenOn, history
  <2>13. QED
    BY <2>2, <2>3, <2>4, <2>5, <2>6, <2>7, <2>8, <2>9, <2>10, <2>11, <2>12
       DEF Next, Step, ResultStep
<1>3. QED
  BY <1>1, <1>2, TypeInit, TypeStep, OffStep, PTL DEF Spec, ProbeOffKeepsShown

-----------------------------------------------------------------------------
(* Dropped greetings in the first attempt of a service.                    *)

\* At most one check is under way, and it belongs to the attempt: as a task or
\* as the one posted result that is not the gate's.  While the service runs,
\* mProbeInFlight guards it.  With the probe on, all were begun with it.
Pipeline ==
  /\ Len(executor) <= 1
  /\ executor # <<>> => ~Busy(posted) /\ Head(executor).att = latest
  /\ One(posted)
  /\ mRunning /\ ~mProbeInFlight => executor = <<>> /\ ~Busy(posted)
  /\ latest = 0 => /\ ~mRunning /\ ~verdict /\ main = "idle" /\ Idle
                   /\ executor = <<>> /\ posted = <<>>
                   /\ mPreTunnelProbeFailures = 0 /\ mIpCheckFailures = 0
  /\ main = "run" => /\ ~mRunning /\ executor = <<>> /\ posted = <<>> /\ Idle
                     /\ \A a \in Attempt : gate[a] = "none"
  /\ \A b \in BinderThreads : stop[b] # "idle" => ~mRunning
  /\ \A a \in Attempt : gate[a] # "none" => a <= latest
  /\ probing => /\ AllProbed(posted)
                /\ executor # <<>> => Head(executor).probe # "off"

PipelineInv == latest <= 1 => Pipeline

\* What SingleDropNeverKills asks for, and a dropped greeting not yet counted.
Confirmed == hards \/ softs >= 2
SoftPending == SoftIn(posted) \/ (executor # <<>> /\ Head(executor).probe = "soft")

\* While the evidence does not suffice, neither strike counter is ahead of the
\* dropped greetings, a greeting still to be counted is the only one, and
\* nothing under way can stop the service alone.
Evidence ==
  /\ verdict => Confirmed
  /\ ~Confirmed => /\ mPreTunnelProbeFailures <= softs
                   /\ mIpCheckFailures <= softs
                   /\ SoftPending => softs >= 1 /\ mIpCheckFailures = 0
                   /\ Clean(posted)
                   /\ executor # <<>> => Head(executor).probe # "hard"
                   /\ \A a \in Attempt : gate[a] = "second" => softs >= 1

EvidenceInv == latest <= 1 => Evidence

\* The only task of the executor, replaced or done.
LEMMA SingleTask ==
  ASSUME executor \in Seq(Task), executor # <<>>, Len(executor) <= 1, NEW x \in Task
  PROVE  /\ Tail(executor) = <<>>
         /\ <<x>> \o Tail(executor) = <<x>>
<1>1. \A q \in Seq(Task) : q # <<>> => Len(q) \in Nat /\ Len(q) # 0
  OBVIOUS
<1>2. \A q \in Seq(Task) : q # <<>> /\ Len(q) = 1 => Tail(q) = <<>>
  OBVIOUS
<1>3. Len(executor) = 1
  <2>1. Len(executor) \in Nat /\ Len(executor) # 0
    BY <1>1
  <2>2. \A n \in Nat : n # 0 /\ n <= 1 => n = 1
    OBVIOUS
  <2>3. QED BY <2>1, <2>2
<1>4. Tail(executor) = <<>>
  BY <1>2, <1>3
<1>5. <<x>> \o <<>> = <<x>>
  OBVIOUS
<1>6. QED BY <1>4, <1>5

\* The task of the only check is replaced by the one for its next stage.
Moves(r) == /\ executor' # <<>> /\ Len(executor') = 1
            /\ Head(executor').att = Head(executor).att
            /\ Head(executor').probe = r

\* How a check begins and passes its pre-tunnel stage.
LEMMA EarlySteps ==
  ASSUME executor \in Seq(Task), Len(executor) <= 1
  PROVE  /\ TaskBegin => Moves(IF probing THEN "pending" ELSE "off")
         /\ EarlyGood => \E r \in {"pending", "ok"} : Moves(r)
         /\ EarlyBad => \E r \in {"soft", "hard"} :
              /\ \/ /\ r = "hard" \/ mPreTunnelProbeFailures' >= Strikes
                    /\ PostResult("fastFail", Head(executor), r)
                    /\ executor' = <<>>
                 \/ Moves(r) /\ posted' = posted /\ r = "soft"
              /\ Observe(Head(executor).att, r)
              /\ mPreTunnelProbeFailures' =
                   IF r = "soft" /\ mPreTunnelProbeFailures < Strikes
                   THEN mPreTunnelProbeFailures + 1 ELSE mPreTunnelProbeFailures
<1>1. ASSUME executor # <<>>, NEW x \in Task, executor' = <<x>> \o Tail(executor)
      PROVE  executor' # <<>> /\ Len(executor') = 1 /\ Head(executor') = x
  <2>1. executor' = <<x>>
    BY <1>1, SingleTask
  <2>2. QED BY <2>1
<1>2. ASSUME executor # <<>>, NEW s \in {"begin", "early", "info"},
             NEW r \in Answer \cup {"pending", "off"},
             executor' = <<[Head(executor) EXCEPT !.stage = s, !.probe = r]>>
                           \o Tail(executor)
      PROVE  Moves(r)
  <2> DEFINE x == [Head(executor) EXCEPT !.stage = s, !.probe = r]
  <2>1. Head(executor) \in Task
    BY <1>2, TaskType
  <2>2. x \in Task /\ x.att = Head(executor).att /\ x.probe = r
    BY <2>1 DEF Task
  <2>3. executor' = <<x>> \o Tail(executor)
    BY <1>2
  <2> HIDE DEF x
  <2>4. Head(executor') = x /\ executor' # <<>> /\ Len(executor') = 1
    BY <1>1, <1>2, <2>2, <2>3
  <2>5. QED BY <2>2, <2>4 DEF Moves
<1>3. ASSUME TaskBegin PROVE Moves(IF probing THEN "pending" ELSE "off")
  <2> DEFINE s == IF probing /\ ~mTunnelUp THEN "early" ELSE "info"
             r == IF probing THEN "pending" ELSE "off"
  <2>1. s \in {"begin", "early", "info"} /\ r \in Answer \cup {"pending", "off"}
    OBVIOUS
  <2>2. executor # <<>> /\ executor' = <<[Head(executor) EXCEPT !.stage = s, !.probe = r]>>
                                         \o Tail(executor)
    BY <1>3 DEF TaskBegin
  <2> HIDE DEF s, r
  <2>3. Moves(r)
    BY <1>2, <2>1, <2>2
  <2>4. QED BY <2>3 DEF r
<1>4. ASSUME EarlyGood PROVE \E r \in {"pending", "ok"} : Moves(r)
  BY <1>2, <1>4 DEF EarlyGood, ProbeAnswers, Answer
<1>5. ASSUME EarlyBad
      PROVE  \E r \in {"soft", "hard"} :
              /\ \/ /\ r = "hard" \/ mPreTunnelProbeFailures' >= Strikes
                    /\ PostResult("fastFail", Head(executor), r)
                    /\ executor' = <<>>
                 \/ Moves(r) /\ posted' = posted /\ r = "soft"
              /\ Observe(Head(executor).att, r)
              /\ mPreTunnelProbeFailures' =
                   IF r = "soft" /\ mPreTunnelProbeFailures < Strikes
                   THEN mPreTunnelProbeFailures + 1 ELSE mPreTunnelProbeFailures
  <2>1. executor # <<>> /\ Tail(executor) = <<>>
    BY <1>5, TaskType, SingleTask DEF EarlyBad
  <2>2. PICK r \in ProbeAnswers(Head(executor).proxy) \ {"ok"} :
       /\ mPreTunnelProbeFailures' = IF r = "soft" /\ mPreTunnelProbeFailures < Strikes
                                     THEN mPreTunnelProbeFailures + 1
                                     ELSE mPreTunnelProbeFailures
       /\ IF r = "hard" \/ mPreTunnelProbeFailures' >= Strikes
          THEN /\ PostResult("fastFail", Head(executor), r)
               /\ executor' = Tail(executor)
          ELSE /\ executor' = <<[Head(executor) EXCEPT !.stage = "info",
                                                       !.probe = r]>>
                                \o Tail(executor)
               /\ UNCHANGED posted
       /\ Observe(Head(executor).att, r)
    BY <1>5 DEF EarlyBad
  <2>3. r \in {"soft", "hard"} /\ r \in Answer \cup {"pending", "off"}
    BY <2>2 DEF ProbeAnswers, Answer
  <2>4. CASE r = "hard" \/ mPreTunnelProbeFailures' >= Strikes
    BY <2>1, <2>2, <2>3, <2>4
  <2>5. CASE ~(r = "hard" \/ mPreTunnelProbeFailures' >= Strikes)
    <3>1. Moves(r) /\ posted' = posted /\ r = "soft"
      BY <1>2, <2>1, <2>2, <2>3, <2>5
    <3>2. QED BY <2>2, <2>3, <3>1
  <2>6. QED BY <2>4, <2>5
<1>6. QED BY <1>3, <1>4, <1>5

\* What a probe answer of the current attempt adds to the evidence.
LEMMA ObserveSays ==
  ASSUME softs \in 0..2, NEW a, NEW r, Observe(a, r)
  PROVE  /\ Confirmed => Confirmed'
         /\ softs' \in 0..2 /\ softs <= softs'
         /\ a = latest /\ r = "hard" => Confirmed'
         /\ a = latest /\ r = "soft" => /\ softs' >= 1
                                        /\ softs >= 1 => Confirmed'
                                        /\ ~Confirmed' => softs' = softs + 1
         /\ verdict' = verdict
<1>1. /\ hards => hards'
      /\ a = latest /\ r = "hard" => hards'
  BY Zenon DEF Observe
<1>2. softs' = IF a = latest /\ r = "soft" /\ softs < 2 THEN softs + 1 ELSE softs
  BY DEF Observe
<1>3. /\ softs' \in 0..2 /\ softs <= softs'
      /\ a = latest /\ r = "soft" => softs' >= 1
      /\ a = latest /\ r = "soft" /\ softs >= 1 => softs' >= 2
      /\ a = latest /\ r = "soft" /\ ~(softs' >= 2) => softs' = softs + 1
      /\ softs >= 2 => softs' >= 2
  BY <1>2
<1>4. verdict' = verdict
  BY DEF Observe
<1>5. QED BY <1>1, <1>3, <1>4 DEF Confirmed

\* No step of the first attempt puts a second check under way.
LEMMA PipelineStep == TypeInv /\ PipelineInv /\ [Next]_vars => PipelineInv'
<1> SUFFICES ASSUME TypeInv, PipelineInv, [Next]_vars, latest' <= 1 PROVE Pipeline'
  BY DEF PipelineInv
<1>1. /\ executor \in Seq(Task) /\ posted \in Seq(Result)
      /\ latest \in Nat /\ (mRunning \/ main # "idle" => latest # 0)
      /\ gate \in [Attempt -> {"none", "first", "second", "done"}]
  BY Constants, IpBoundsAssumption DEF TypeInv, LoopType, SessionType, GateType
<1>2. latest' = latest \/ latest' = latest + 1 => Pipeline
  BY <1>1 DEF PipelineInv
<1>3. ~Busy(<<>>) /\ Len(<<>>) = 0 /\ One(<<>>) /\ AllProbed(<<>>)
  BY DEF Busy, One, AllProbed
<1>4. ASSUME NEW p \in Proxies, StartFields(p) PROVE Pipeline'
  <2>1. latest = 0 /\ latest' = 1 /\ main' = "run" /\ mRunning' = mRunning
        /\ stop' = stop /\ gate' = gate
    BY <1>1, <1>4 DEF StartFields
  <2>2. Pipeline
    BY <1>2, <2>1
  <2>3. executor' = <<>> /\ posted' = <<>> /\ ~mRunning' /\ Idle /\ Idle'
    BY <1>4, <2>1, <2>2 DEF StartFields, Pipeline, loop, Idle
  <2>4. \A a \in Attempt : gate'[a] = "none"
    BY <2>1, <2>2, Constants DEF Pipeline
  <2>5. QED BY <1>3, <2>1, <2>3, <2>4 DEF Pipeline
\* Steps that touch neither tasks, results nor gates and start nothing.
<1>5. ASSUME UNCHANGED <<executor, posted, gate, latest, verdict, probing>>,
             mRunning' => mRunning /\ mProbeInFlight' = mProbeInFlight /\ stop' = stop,
             main' = "run" \/ latest = 0 => UNCHANGED <<main, stop>>,
             mIpCheckFailures' = 0 \/ mIpCheckFailures' = mIpCheckFailures,
             mPreTunnelProbeFailures' = 0
                \/ mPreTunnelProbeFailures' = mPreTunnelProbeFailures
      PROVE  Pipeline'
  <2>1. Pipeline
    BY <1>2, <1>5
  <2>2. latest' = 0 => ~mRunning' /\ ~verdict' /\ main' = "idle" /\ Idle'
    BY <1>5, <2>1 DEF Pipeline, Idle
  <2>3. main' = "run" => /\ ~mRunning' /\ executor' = <<>> /\ posted' = <<>> /\ Idle'
                         /\ \A a \in Attempt : gate'[a] = "none"
    BY <1>5, <2>1 DEF Pipeline, Idle
  <2>4. \A b \in BinderThreads : stop'[b] # "idle" => ~mRunning'
    BY <1>5, <2>1 DEF Pipeline
  <2>5. QED BY <1>5, <2>1, <2>2, <2>3, <2>4 DEF Pipeline
<1>6. CASE StartRun
  <2>1. /\ UNCHANGED <<executor, posted, gate, latest, probing, stop>>
        /\ main = "run" /\ main' = "begin"
    BY <1>6 DEF StartRun, loop
  <2>2. Pipeline /\ latest # 0
    BY <1>1, <1>2, <2>1
  <2>3. executor = <<>> /\ posted = <<>> /\ Idle
    BY <2>1, <2>2 DEF Pipeline
  <2>4. QED BY <1>3, <2>1, <2>2, <2>3 DEF Pipeline, Idle
<1>7. CASE CheckTick
  <2>1. CASE mRunning /\ ~mProbeInFlight
    <3> DEFINE x == [att |-> latest, proxy |-> mProxy, stage |-> "begin",
                     probe |-> "pending"]
    <3>1. /\ UNCHANGED <<latest, posted, gate, verdict, probing, stop, main, mRunning>>
          /\ mProbeInFlight' /\ Pipeline
      BY <1>2, <1>7, <2>1 DEF CheckTick, session, control, history
    <3>2. executor' = Append(<<>>, x) /\ x.att = latest /\ x.probe = "pending"
      BY <1>7, <2>1, <3>1 DEF CheckTick, Pipeline
    <3>3. x \in Task
      BY <2>1 DEF Task, TypeInv, SessionType
    <3> HIDE DEF x
    <3>4. Len(executor') = 1 /\ Head(executor') = x
      BY <3>2, <3>3
    <3>5. latest # 0 /\ main # "run"
      BY <1>1, <2>1, <3>1 DEF Pipeline
    <3>6. QED BY <1>3, <2>1, <3>1, <3>2, <3>4, <3>5 DEF Pipeline
  <2>2. CASE ~(mRunning /\ ~mProbeInFlight)
    BY <1>5, <1>7, <2>2 DEF CheckTick, session, control, counters, history
  <2>3. QED BY <2>1, <2>2
\* A task that moves on keeps the only check under way.
<1>8. ASSUME UNCHANGED <<posted, gate, session, control, verdict, mProbeInFlight,
                         mIpCheckFailures>>,
             executor # <<>>, NEW r, Moves(r), probing => r # "off"
      PROVE  Pipeline'
  <2>1. /\ UNCHANGED <<latest, mRunning, probing, main, stop>> /\ Pipeline
    BY <1>2, <1>8 DEF session, control
  <2>2. latest # 0 /\ main # "run" /\ ~Busy(posted) /\ Head(executor).att = latest
        /\ ~(mRunning /\ ~mProbeInFlight)
    BY <1>8, <2>1 DEF Pipeline
  <2>3. QED BY <1>8, <2>1, <2>2 DEF Pipeline, Moves
<1>9. CASE TaskBegin
  <2>1. executor # <<>> /\ Moves(IF probing THEN "pending" ELSE "off")
        /\ UNCHANGED <<posted, gate, session, control, verdict, mProbeInFlight,
                       mIpCheckFailures>>
    BY <1>1, <1>2, <1>9, EarlySteps
       DEF TaskBegin, session, counters, history, Pipeline
  <2>2. QED BY <1>8, <2>1
<1>10. CASE EarlyGood
  <2>1. /\ executor # <<>>
        /\ UNCHANGED <<posted, gate, session, control, verdict, mProbeInFlight,
                       mIpCheckFailures>>
    BY <1>10 DEF EarlyGood, history
  <2>2. \E r \in {"pending", "ok"} : Moves(r)
    BY <1>1, <1>2, <1>10, <2>1, EarlySteps DEF session, Pipeline
  <2>3. QED BY <1>8, <2>1, <2>2
\* A task that ends leaves its result.
<1>11. ASSUME UNCHANGED <<gate, session, control, mProbeInFlight, mIpCheckFailures>>,
              executor # <<>>, executor' = Tail(executor),
              NEW k \in {"fastFail", "info", "noInfo", "exception"},
              NEW r \in Answer \cup {"off"}, PostResult(k, Head(executor), r),
              probing => ~(k = "noInfo" /\ r = "off")
       PROVE  Pipeline'
  <2>1. /\ UNCHANGED <<latest, mRunning, probing, main, stop>> /\ Pipeline
    BY <1>2, <1>11 DEF session, control
  <2>2. latest # 0 /\ main # "run" /\ ~Busy(posted) /\ ~(mRunning /\ ~mProbeInFlight)
    BY <1>11, <2>1 DEF Pipeline
  <2>3. Head(executor) \in Task /\ Head(executor).att \in Attempt
        /\ Head(executor).proxy \in ProxyOrNone
    BY <1>1, <1>11, TaskType
  <2>4. executor' = <<>>
    BY <1>1, <1>11, <2>1, <2>3, SingleTask DEF Pipeline
  <2>5. One(posted') /\ (probing => AllProbed(posted'))
    BY <1>1, <1>11, <2>1, <2>2, <2>3, PostSays DEF Pipeline
  <2>6. QED BY <1>3, <1>11, <2>1, <2>2, <2>4, <2>5 DEF Pipeline
<1>12. CASE EarlyBad
  <2>1. executor # <<>> /\ UNCHANGED <<gate, session, control, mProbeInFlight,
                                       mIpCheckFailures, verdict>>
    BY <1>12 DEF EarlyBad, Observe
  <2>2. PICK r \in {"soft", "hard"} :
          \/ PostResult("fastFail", Head(executor), r) /\ executor' = <<>>
          \/ Moves(r) /\ posted' = posted
    BY <1>1, <1>2, <1>12, <2>1, EarlySteps DEF session, Pipeline
  <2>3. CASE PostResult("fastFail", Head(executor), r) /\ executor' = <<>>
    <3>1. Head(executor) \in Task /\ Len(executor) <= 1
      BY <1>1, <1>2, <2>1, TaskType DEF session, Pipeline
    <3>2. executor' = Tail(executor)
      BY <1>1, <2>1, <2>3, <3>1, SingleTask
    <3>3. QED BY <1>11, <2>1, <2>2, <2>3, <3>2 DEF Answer
  <2>4. CASE Moves(r) /\ posted' = posted
    BY <1>8, <2>1, <2>2, <2>4
  <2>5. QED BY <2>2, <2>3, <2>4
<1>13. CASE LookupOk
  BY <1>11, <1>13 DEF LookupOk, counters, Answer
<1>14. CASE LookupThrows
  BY <1>11, <1>14 DEF LookupThrows, counters
<1>15. CASE LookupNull
  <2>1. executor # <<>> /\ executor' = Tail(executor)
        /\ UNCHANGED <<gate, session, control, mProbeInFlight, mIpCheckFailures>>
    BY <1>15 DEF LookupNull, counters
  <2>2. /\ Head(executor).probe \in Answer \cup {"pending", "off"}
        /\ probing => Head(executor).probe # "off"
    BY <1>1, <1>2, <2>1, TaskType DEF session, Pipeline
  <2>3. CASE Head(executor).probe = "pending"
    <3>1. \E r \in {"ok", "soft", "hard"} : PostResult("noInfo", Head(executor), r)
      BY <1>15, <2>3 DEF LookupNull, ProbeAnswers
    <3>2. QED BY <1>11, <2>1, <3>1 DEF Answer
  <2>4. CASE Head(executor).probe # "pending"
    <3>1. PostResult("noInfo", Head(executor), Head(executor).probe)
      BY <1>15, <2>4 DEF LookupNull
    <3>2. QED BY <1>11, <2>1, <2>2, <2>4, <3>1
  <2>5. QED BY <2>3, <2>4
<1>16. CASE HandleFastFail \/ HandleInfo \/ HandleNoInfoRetry \/ HandleNoInfoStrike
            \/ HandleException
  <2>1. \E k : Take(k) /\ k # "gate"
    BY <1>16
       DEF HandleFastFail, HandleInfo, HandleNoInfoRetry, HandleNoInfoStrike,
           HandleException
  <2>2. UNCHANGED <<latest, gate, executor, probing, main, stop>> /\ (mRunning' => mRunning)
    BY <1>16
       DEF HandleFastFail, HandleInfo, HandleNoInfoRetry, HandleNoInfoStrike,
           HandleException, StopByCheck, StopMe, session, control
  <2>3. Pipeline
    BY <1>2, <2>2
  <2>4. /\ posted # <<>> /\ Busy(posted) /\ One(posted') /\ ~Busy(posted')
        /\ AllProbed(posted) => AllProbed(posted')
    BY <1>1, <2>1, <2>3, TakeSays DEF Take, Pipeline
  <2>5. executor = <<>> /\ latest # 0 /\ main # "run"
    BY <2>3, <2>4 DEF Pipeline
  <2>6. QED BY <1>3, <2>2, <2>3, <2>4, <2>5 DEF Pipeline
<1>17. CASE HandleGate
  <2>1. /\ posted # <<>> /\ (Busy(posted') => Busy(posted))
        /\ (One(posted) => One(posted')) /\ (AllProbed(posted) => AllProbed(posted'))
    BY <1>1, <1>17, TakeSays DEF HandleGate, Take
  <2>2. UNCHANGED <<latest, gate, executor, probing, main, stop>>
    BY <1>17 DEF HandleGate, StopMe, session, control
  <2>3. mRunning' => mRunning /\ mProbeInFlight' = mProbeInFlight
    BY <1>17 DEF HandleGate, StopMe, session
  <2>4. Pipeline
    BY <1>2, <2>2
  <2>5. latest # 0 /\ main # "run"
    BY <2>1, <2>4 DEF Pipeline
  <2>6. QED BY <1>3, <2>1, <2>2, <2>3, <2>4, <2>5 DEF Pipeline
<1>18. ASSUME NEW a \in Attempt, GateProbe(a) PROVE Pipeline'
  <2>1. /\ UNCHANGED <<latest, mRunning, mProbeInFlight, executor, probing, main, stop>>
        /\ UNCHANGED verdict
    BY <1>18 DEF GateProbe, session, control, Observe
  <2>2. Pipeline
    BY <1>2, <2>1
  <2>3. a <= latest /\ latest # 0
    BY <1>1, <1>18, <2>2, Constants DEF GateProbe, Pipeline
  <2>4. \A b \in Attempt : gate'[b] # "none" => b <= latest
    BY <1>1, <1>18, <2>2, <2>3 DEF GateProbe, Pipeline
  <2>5. proxyOf[a] \in ProxyOrNone
    BY DEF TypeInv, SessionType
  <2>6. ASSUME NEW r \in {"ok", "soft", "hard"},
               PostResult("gate", [att |-> a, proxy |-> proxyOf[a]], r)
        PROVE  /\ Busy(posted') => Busy(posted)
               /\ One(posted) => One(posted')
               /\ AllProbed(posted) => AllProbed(posted')
    BY <1>1, <2>5, <2>6, PostSays DEF Answer
  <2>7. /\ Busy(posted') => Busy(posted)
        /\ One(posted) => One(posted')
        /\ AllProbed(posted) => AllProbed(posted')
    BY <1>18, <2>6 DEF GateProbe, ProbeAnswers
  <2>8. main # "run"
    BY <1>18, <2>2, <2>3 DEF GateProbe, Pipeline
  <2>9. QED BY <2>1, <2>2, <2>3, <2>4, <2>7, <2>8 DEF Pipeline
<1>19. ASSUME NEW p \in Proxies, ProxyDies(p) PROVE Pipeline'
  BY <1>5, <1>19 DEF ProxyDies, session, control, counters, loop, history
<1>20. CASE StartChecks
  <2>1. /\ UNCHANGED <<latest, mRunning, mProbeInFlight, executor, posted, verdict,
                       probing, stop>>
        /\ main = "begin" /\ main' = "idle" /\ gate' = [gate EXCEPT ![latest] = "first"]
    BY <1>20 DEF StartChecks, session, history
  <2>2. Pipeline /\ latest # 0
    BY <1>1, <1>2, <2>1
  <2>3. \A a \in Attempt : gate'[a] # "none" => a <= latest
    BY <1>1, <2>1, <2>2 DEF Pipeline
  <2>4. QED BY <2>1, <2>2, <2>3 DEF Pipeline
<1>21. CASE ConfigureFailed \/ MainStop
  <2>1. /\ UNCHANGED <<executor, posted, gate, latest, verdict, probing, stop, counters>>
        /\ ~mRunning' /\ main' = "idle" /\ latest # 0
    BY <1>1, <1>21
       DEF ConfigureFailed, MainStop, MainIdle, StopMe, session, control, history
  <2>2. QED BY <1>5, <2>1 DEF counters
<1>22. CASE TunnelUp \/ HandlePostStart
  <2>1. /\ UNCHANGED <<executor, posted, gate, latest, verdict, probing, stop, mRunning,
                       mProbeInFlight>>
        /\ main' # "run" /\ latest # 0
        /\ mIpCheckFailures' = 0 \/ mIpCheckFailures' = mIpCheckFailures
        /\ mPreTunnelProbeFailures' = 0
             \/ mPreTunnelProbeFailures' = mPreTunnelProbeFailures
    BY <1>1, <1>22 DEF TunnelUp, HandlePostStart, session, history, counters, loop
  <2>2. QED BY <1>5, <2>1
<1>23. ASSUME NEW b \in BinderThreads, BinderStop(b) \/ StopStep(b) PROVE Pipeline'
  <2>1. /\ UNCHANGED <<executor, posted, gate, latest, verdict, probing, main, counters>>
        /\ mRunning' => mRunning
    BY <1>23
       DEF StopStep, BinderStop, StopProbe, StopUnpost, StopProxy, StopIp, StopVerified,
           StopDown, StopPending, GoTo, history, loop
  <2>2. Pipeline
    BY <1>2, <2>1
  <2>3. \/ mRunning /\ ~mRunning'
        \/ stop[b] # "idle"
    BY <1>23
       DEF StopStep, BinderStop, StopProbe, StopUnpost, StopProxy, StopIp, StopVerified,
           StopDown, StopPending, GoTo
  <2>4. ~mRunning' /\ main # "run" /\ latest # 0
    BY <1>1, <2>1, <2>2, <2>3 DEF Pipeline, Idle
  <2>5. QED BY <1>5, <2>1, <2>4 DEF counters
<1>24. CASE ScreenOff
  BY <1>5, <1>24 DEF ScreenOff, session, control, counters, loop, history
<1>25. CASE ScreenOn
  BY <1>5, <1>25 DEF ScreenOn, session, control, history
<1>26. CASE UNCHANGED vars
  BY <1>5, <1>26 DEF vars, session, control, counters, loop, history
<1>27. QED
  BY <1>4, <1>6, <1>7, <1>9, <1>10, <1>12, <1>13, <1>14, <1>15, <1>16, <1>17, <1>18,
     <1>19, <1>20, <1>21, <1>22, <1>23, <1>24, <1>25, <1>26
     DEF Next, Step, MainStep, TaskStep, ResultStep

\* No step of the first attempt stops it without the evidence, or brings a
\* counter or a result ahead of it.
LEMMA EvidenceStep ==
  ASSUME Strikes >= 2, MaxFailures >= 2
  PROVE  TypeInv /\ PipelineInv /\ EvidenceInv /\ [Next]_vars => EvidenceInv'
<1> SUFFICES ASSUME TypeInv, PipelineInv, EvidenceInv, [Next]_vars, latest' <= 1
             PROVE  Evidence'
  BY DEF EvidenceInv
<1>1. /\ executor \in Seq(Task) /\ posted \in Seq(Result)
      /\ latest \in Nat /\ softs \in 0..2
      /\ mPreTunnelProbeFailures \in Nat /\ mIpCheckFailures \in Nat
      /\ Strikes \in Nat /\ MaxFailures \in Nat
      /\ gate \in [Attempt -> {"none", "first", "second", "done"}]
  BY IpBoundsAssumption
     DEF TypeInv, LoopType, SessionType, GateType, CountersType, HistoryType
<1>2. latest' = latest \/ latest' = latest + 1 => Pipeline /\ Evidence
  BY <1>1 DEF PipelineInv, EvidenceInv
<1>3. Clean(<<>>) /\ ~SoftIn(<<>>)
  BY DEF Clean, SoftIn
<1>4. ASSUME NEW p \in Proxies, StartFields(p) PROVE Evidence'
  <2>1. latest = 0 /\ latest' = 1 /\ UNCHANGED <<loop, gate, counters>>
    BY <1>1, <1>4 DEF StartFields
  <2>2. Pipeline
    BY <1>2, <2>1
  <2>3. /\ executor' = <<>> /\ posted' = <<>> /\ mIpCheckFailures' = 0
        /\ mPreTunnelProbeFailures' = 0
    BY <2>1, <2>2 DEF Pipeline, loop, counters
  <2>4. ~verdict' /\ softs' = 0
    BY <1>4 DEF StartFields
  <2>5. \A a \in Attempt : gate'[a] # "second"
    BY <1>1, <2>1, <2>2, Constants DEF Pipeline
  <2>6. ~SoftPending'
    BY <1>3, <2>3 DEF SoftPending
  <2>7. QED BY <1>3, <2>3, <2>4, <2>5, <2>6 DEF Evidence
<1>5. CASE /\ latest' = latest
           /\ UNCHANGED <<executor, posted, gate, softs, hards, verdict>>
           /\ mIpCheckFailures' = 0 \/ mIpCheckFailures' = mIpCheckFailures
           /\ mPreTunnelProbeFailures' = 0
                \/ mPreTunnelProbeFailures' = mPreTunnelProbeFailures
  <2>1. (Confirmed' <=> Confirmed) /\ (SoftPending' <=> SoftPending)
    BY <1>5 DEF Confirmed, SoftPending
  <2>2. QED BY <1>1, <1>2, <1>5, <2>1 DEF Evidence
<1>6. ASSUME /\ UNCHANGED <<latest, posted, gate, softs, hards, verdict,
                            mIpCheckFailures>>
             /\ mPreTunnelProbeFailures' = 0
                  \/ mPreTunnelProbeFailures' = mPreTunnelProbeFailures,
             NEW r, Head(executor').probe = r, r # "hard",
             r = "soft" => executor # <<>> /\ Head(executor).probe = "soft"
      PROVE  Evidence'
  <2>1. Confirmed' <=> Confirmed
    BY <1>6 DEF Confirmed
  <2>2. SoftPending' => SoftPending
    BY <1>6 DEF SoftPending
  <2>3. QED BY <1>1, <1>2, <1>6, <2>1, <2>2 DEF Evidence
<1>7. CASE CheckTick
  <2>1. CASE mRunning /\ ~mProbeInFlight
    <3> DEFINE x == [att |-> latest, proxy |-> mProxy, stage |-> "begin",
                     probe |-> "pending"]
    <3>1. executor' = Append(<<>>, x) /\ x.probe = "pending"
      BY <1>2, <1>7, <2>1 DEF CheckTick, session, Pipeline
    <3>2. x \in Task
      BY <2>1 DEF Task, TypeInv, SessionType
    <3> HIDE DEF x
    <3>3. Head(executor') = x
      BY <3>1, <3>2
    <3>4. Head(executor').probe = "pending"
      BY <3>1, <3>3
    <3>5. QED BY <1>6, <1>7, <3>4 DEF CheckTick, session, counters, history
  <2>2. CASE ~(mRunning /\ ~mProbeInFlight)
    BY <1>5, <1>7, <2>2 DEF CheckTick, session, counters, history
  <2>3. QED BY <2>1, <2>2
<1>8. CASE TaskBegin
  <2>1. Moves(IF probing THEN "pending" ELSE "off") /\ executor # <<>>
    BY <1>1, <1>2, <1>8, EarlySteps DEF TaskBegin, session, Pipeline
  <2>2. Head(executor').probe \in {"pending", "off"}
    BY <2>1 DEF Moves
  <2>3. QED BY <1>6, <1>8, <2>2 DEF TaskBegin, session, counters, history
<1>9. CASE EarlyGood
  <2>1. \E r \in {"pending", "ok"} : Moves(r)
    BY <1>1, <1>2, <1>9, EarlySteps DEF EarlyGood, session, Pipeline
  <2>2. QED BY <1>6, <1>9, <2>1 DEF EarlyGood, session, history, Moves
<1>10. CASE EarlyBad
  <2>1. /\ latest' = latest /\ gate' = gate /\ executor # <<>>
        /\ mIpCheckFailures' = mIpCheckFailures
    BY <1>10 DEF EarlyBad, session
  <2>2. PICK r \in {"soft", "hard"} :
          /\ \/ /\ r = "hard" \/ mPreTunnelProbeFailures' >= Strikes
                /\ PostResult("fastFail", Head(executor), r)
                /\ executor' = <<>>
             \/ Moves(r) /\ posted' = posted /\ r = "soft"
          /\ Observe(Head(executor).att, r)
          /\ mPreTunnelProbeFailures' =
               IF r = "soft" /\ mPreTunnelProbeFailures < Strikes
               THEN mPreTunnelProbeFailures + 1 ELSE mPreTunnelProbeFailures
    BY <1>1, <1>2, <1>10, <2>1, EarlySteps DEF Pipeline
  <2>3. Head(executor).att = latest /\ Pipeline /\ Evidence
    BY <1>2, <2>1 DEF Pipeline
  <2>4. /\ Confirmed => Confirmed'
        /\ softs' \in 0..2 /\ softs <= softs'
        /\ r = "hard" => Confirmed'
        /\ r = "soft" => /\ softs' >= 1 /\ (softs >= 1 => Confirmed')
                         /\ ~Confirmed' => softs' = softs + 1
        /\ verdict' = verdict
    BY <1>1, <2>2, <2>3, ObserveSays
  <2>5. verdict' => Confirmed'
    BY <2>3, <2>4 DEF Evidence
  <2>6. SUFFICES ASSUME ~Confirmed' PROVE Evidence'
    BY <2>5 DEF Evidence
  <2>7. r = "soft" /\ softs = 0 /\ softs' = 1 /\ ~Confirmed
    BY <1>1, <2>4, <2>6
  <2>8. /\ mPreTunnelProbeFailures = 0 /\ mPreTunnelProbeFailures' = 1
        /\ mIpCheckFailures' = 0
    BY <1>1, <2>1, <2>2, <2>3, <2>7 DEF Evidence
  <2>9. Moves(r) /\ posted' = posted
    BY <1>1, <2>2, <2>7, <2>8
  <2>10. QED BY <2>1, <2>3, <2>5, <2>7, <2>8, <2>9 DEF Evidence, Moves
<1>11. ASSUME LookupOk \/ LookupNull \/ LookupThrows
       PROVE  /\ latest' = latest /\ gate' = gate /\ executor # <<>>
              /\ executor' = <<>> /\ UNCHANGED counters
              /\ Head(executor).att = latest
              /\ Head(executor).att \in Attempt /\ Head(executor).proxy \in ProxyOrNone
              /\ Head(executor).probe \in {"ok", "soft", "hard", "pending", "off"}
  <2>1. /\ latest' = latest /\ gate' = gate /\ executor # <<>>
        /\ executor' = Tail(executor) /\ UNCHANGED counters
    BY <1>11 DEF LookupOk, LookupNull, LookupThrows, session
  <2>2. executor' = <<>>
    BY <1>1, <1>2, <2>1, TaskType, SingleTask DEF Pipeline
  <2>3. QED BY <1>1, <1>2, <2>1, <2>2, TaskType DEF Pipeline, Answer
<1>12. ASSUME LookupOk \/ LookupNull \/ LookupThrows,
              NEW k \in {"info", "noInfo", "exception"},
              NEW r \in {"ok", "soft", "hard", "off"},
              PostResult(k, Head(executor), r), softs' \in 0..2, softs <= softs',
              Confirmed => Confirmed', verdict' = verdict,
              k = "noInfo" /\ r = "hard" => Confirmed',
              k = "noInfo" /\ r = "soft" /\ ~Confirmed'
                 => softs' >= 1 /\ mIpCheckFailures = 0
       PROVE  Evidence'
  <2>1. Evidence
    BY <1>2, <1>11, <1>12
  <2>2. verdict' => Confirmed'
    BY <1>12, <2>1 DEF Evidence
  <2>3. SUFFICES ASSUME ~Confirmed' PROVE Evidence'
    BY <2>2 DEF Evidence
  <2>4. /\ Clean(posted') <=> Clean(posted) /\ ~(k = "noInfo" /\ r = "hard")
        /\ SoftIn(posted') <=> SoftIn(posted) \/ (k = "noInfo" /\ r = "soft")
    BY <1>1, <1>11, <1>12, PostSays DEF Answer
  <2>5. Clean(posted')
    BY <1>12, <2>1, <2>3, <2>4 DEF Evidence
  <2>6. SoftPending' => softs' >= 1 /\ mIpCheckFailures = 0
    BY <1>1, <1>11, <1>12, <2>1, <2>3, <2>4 DEF Evidence, SoftPending
  <2>7. QED
    BY <1>1, <1>11, <1>12, <2>1, <2>2, <2>3, <2>5, <2>6 DEF Evidence, counters
<1>13. CASE LookupOk
  <2>1. UNCHANGED <<softs, hards, verdict>> /\ (Confirmed' <=> Confirmed)
    BY <1>13 DEF LookupOk, history, Confirmed
  <2>2. PostResult("info", Head(executor), "ok")
    BY <1>13 DEF LookupOk
  <2>3. QED BY <1>1, <1>12, <1>13, <2>1, <2>2
<1>14. CASE LookupThrows
  <2>1. UNCHANGED <<softs, hards, verdict>> /\ (Confirmed' <=> Confirmed)
    BY <1>14 DEF LookupThrows, history, Confirmed
  <2>2. PostResult("exception", Head(executor), "off")
    BY <1>14 DEF LookupThrows
  <2>3. QED BY <1>1, <1>12, <1>14, <2>1, <2>2
<1>15. CASE LookupNull
  <2>1. Evidence /\ Head(executor).att = latest /\ executor # <<>>
        /\ Head(executor).probe \in {"ok", "soft", "hard", "pending", "off"}
    BY <1>2, <1>11, <1>15
  <2>2. ASSUME NEW r \in {"ok", "soft", "hard", "off"},
               PostResult("noInfo", Head(executor), r), UNCHANGED history,
               r \in {"soft", "hard"} => Head(executor).probe = r
        PROVE  Evidence'
    <3>1. UNCHANGED <<softs, hards, verdict>> /\ (Confirmed' <=> Confirmed)
      BY <2>2 DEF history, Confirmed
    <3>2. r = "hard" => Confirmed'
      BY <2>1, <2>2, <3>1 DEF Evidence
    <3>3. r = "soft" /\ ~Confirmed' => softs' >= 1 /\ mIpCheckFailures = 0
      BY <2>1, <2>2, <3>1 DEF Evidence, SoftPending
    <3>4. QED BY <1>1, <1>12, <1>15, <2>2, <3>1, <3>2, <3>3
  <2>3. ASSUME NEW r \in {"ok", "soft", "hard"},
               PostResult("noInfo", Head(executor), r), Observe(Head(executor).att, r)
        PROVE  Evidence'
    <3>1. /\ Confirmed => Confirmed'
          /\ softs' \in 0..2 /\ softs <= softs'
          /\ r = "hard" => Confirmed'
          /\ r = "soft" => /\ softs' >= 1 /\ (softs >= 1 => Confirmed')
          /\ verdict' = verdict
      BY <1>1, <2>1, <2>3, ObserveSays
    <3>2. r = "soft" /\ ~Confirmed' => softs' >= 1 /\ mIpCheckFailures = 0
      BY <1>1, <2>1, <3>1 DEF Evidence
    <3>3. QED BY <1>12, <1>15, <2>3, <3>1, <3>2
  <2>4. CASE Head(executor).probe # "pending"
    <3>1. PostResult("noInfo", Head(executor), Head(executor).probe)
          /\ UNCHANGED history
      BY <1>15, <2>4 DEF LookupNull
    <3>2. QED BY <2>1, <2>2, <2>4, <3>1
  <2>5. CASE Head(executor).probe = "pending"
    <3>1. \E r \in {"ok", "soft", "hard"} :
            PostResult("noInfo", Head(executor), r) /\ Observe(Head(executor).att, r)
      BY <1>15, <2>5 DEF LookupNull, ProbeAnswers
    <3>2. QED BY <2>3, <3>1
  <2>6. QED BY <2>4, <2>5
<1>16. ASSUME NEW k, Take(k), latest' = latest, gate' = gate, executor' = executor
       PROVE  /\ Evidence /\ Head(posted).kind = k
              /\ Clean(posted) => Clean(posted') /\ ~Damning(Head(posted))
              /\ SoftPending' => SoftPending
              /\ SoftResult(Head(posted)) => SoftPending
              /\ k # "gate" => ~SoftPending'
  <2>1. Pipeline /\ Evidence
    BY <1>2, <1>16
  <2>2. /\ Clean(posted) => Clean(posted') /\ ~Damning(Head(posted))
        /\ SoftIn(posted') => SoftIn(posted)
        /\ SoftResult(Head(posted)) => SoftIn(posted)
        /\ k # "gate" => Busy(posted) /\ ~SoftIn(posted')
    BY <1>1, <1>16, <2>1, TakeSays DEF Pipeline
  <2>3. k # "gate" => executor = <<>>
    BY <2>1, <2>2 DEF Pipeline
  <2>4. QED BY <1>16, <2>1, <2>2, <2>3 DEF SoftPending, Take
<1>17. ASSUME NEW k, Take(k), latest' = latest, gate' = gate, executor' = executor,
              UNCHANGED <<softs, hards>>, Damning(Head(posted))
       PROVE  Evidence'
  <2>1. Confirmed
    BY <1>16, <1>17 DEF Evidence
  <2>2. Confirmed'
    BY <1>17, <2>1 DEF Confirmed
  <2>3. QED BY <2>2 DEF Evidence
<1>18. CASE HandleFastFail
  <2>1. /\ Take("fastFail") /\ UNCHANGED <<softs, hards>>
        /\ latest' = latest /\ gate' = gate /\ executor' = executor
    BY <1>18 DEF HandleFastFail, StopByCheck, StopMe, session
  <2>2. Damning(Head(posted))
    BY <2>1 DEF Take, Damning
  <2>3. QED BY <1>17, <2>1, <2>2
<1>19. CASE HandleGate
  <2>1. /\ Take("gate") /\ UNCHANGED <<softs, hards>>
        /\ latest' = latest /\ gate' = gate /\ executor' = executor
    BY <1>19 DEF HandleGate, StopMe, session
  <2>2. Damning(Head(posted))
    BY <2>1 DEF Take, Damning
  <2>3. QED BY <1>17, <2>1, <2>2
<1>20. CASE HandleInfo \/ HandleNoInfoRetry \/ HandleException
  <2>1. PICK k : Take(k)
    BY <1>20 DEF HandleInfo, HandleNoInfoRetry, HandleException
  <2>2. /\ UNCHANGED <<softs, hards, verdict>>
        /\ latest' = latest /\ gate' = gate /\ executor' = executor
        /\ mIpCheckFailures' = 0 \/ mIpCheckFailures' = mIpCheckFailures
        /\ mPreTunnelProbeFailures' = 0
             \/ mPreTunnelProbeFailures' = mPreTunnelProbeFailures
    BY <1>20
       DEF HandleInfo, HandleNoInfoRetry, HandleException, session, history, counters
  <2>3. Confirmed' <=> Confirmed
    BY <2>2 DEF Confirmed
  <2>4. /\ Evidence /\ (Clean(posted) => Clean(posted'))
        /\ SoftPending' => SoftPending
    BY <1>16, <2>1, <2>2
  <2>5. QED BY <1>1, <2>2, <2>3, <2>4 DEF Evidence
<1>21. CASE HandleNoInfoStrike
  <2>1. /\ Take("noInfo") /\ UNCHANGED <<softs, hards>>
        /\ latest' = latest /\ gate' = gate /\ executor' = executor
        /\ mIpCheckFailures' = mIpCheckFailures + 1
        /\ mPreTunnelProbeFailures' = mPreTunnelProbeFailures
        /\ Head(posted).probe # "ok" /\ probing
    BY <1>21 DEF HandleNoInfoStrike, StopByCheck, StopMe, session
  <2>0. Head(posted).probe \in {"soft", "hard"}
    <3>1. Head(posted) \in Result /\ Head(posted).kind = "noInfo"
      BY <1>1, <2>1 DEF Take
    <3>2. AllProbed(posted)
      BY <1>2, <2>1 DEF Pipeline
    <3>3. Probed(Head(posted))
      BY <1>1, <2>1, <3>2, TakeSays
    <3>4. QED BY <2>1, <3>1, <3>3 DEF Result, Answer, Probed
  <2>2. CASE Head(posted).probe = "hard"
    <3>1. Damning(Head(posted))
      BY <2>1, <2>2 DEF Take, Damning
    <3>2. QED BY <1>17, <2>1, <3>1
  <2>3. CASE Head(posted).probe = "soft"
    <3>1. Confirmed' <=> Confirmed
      BY <2>1 DEF Confirmed
    <3>2. SoftResult(Head(posted))
      BY <2>1, <2>3 DEF Take, SoftResult
    <3>3. /\ Evidence /\ SoftPending /\ ~SoftPending'
          /\ Clean(posted) => Clean(posted')
      BY <1>16, <2>1, <3>2
    <3>4. CASE Confirmed
      BY <3>1, <3>4 DEF Evidence
    <3>5. CASE ~Confirmed
      <4>1. softs >= 1 /\ mIpCheckFailures = 0 /\ ~verdict
        BY <3>3, <3>5 DEF Evidence
      <4>2. ~(mIpCheckFailures + 1 >= MaxFailures)
        BY <1>1, <4>1
      <4>3. ~verdict'
        BY <1>21, <4>1, <4>2 DEF HandleNoInfoStrike
      <4>4. QED BY <1>1, <2>1, <3>1, <3>3, <3>5, <4>1, <4>3 DEF Evidence
    <3>6. QED BY <3>4, <3>5
  <2>4. QED BY <2>0, <2>2, <2>3
<1>22. ASSUME NEW a \in Attempt, GateProbe(a) PROVE Evidence'
  <2>1. /\ latest' = latest /\ executor' = executor /\ UNCHANGED counters
        /\ gate[a] \in {"first", "second"} /\ proxyOf[a] \in ProxyOrNone
    BY <1>22 DEF GateProbe, session, TypeInv, SessionType
  <2>2. Pipeline /\ Evidence
    BY <1>2, <2>1
  <2>3. a = latest
    BY <1>1, <2>1, <2>2, Constants DEF Pipeline, Attempt
  <2>4. PICK r \in {"ok", "soft", "hard"} :
          /\ Observe(a, r)
          /\ IF r = "soft" /\ gate[a] = "first"
             THEN gate' = [gate EXCEPT ![a] = "second"] /\ UNCHANGED posted
             ELSE /\ gate' = [gate EXCEPT ![a] = "done"]
                  /\ IF r = "ok" THEN UNCHANGED posted
                     ELSE PostResult("gate", [att |-> a, proxy |-> proxyOf[a]], r)
    BY <1>22 DEF GateProbe, ProbeAnswers
  <2>5. /\ Confirmed => Confirmed'
        /\ softs' \in 0..2 /\ softs <= softs'
        /\ r = "hard" => Confirmed'
        /\ r = "soft" => softs' >= 1 /\ (softs >= 1 => Confirmed')
        /\ verdict' = verdict
    BY <1>1, <2>3, <2>4, ObserveSays
  <2>6. verdict' => Confirmed'
    BY <2>2, <2>5 DEF Evidence
  <2>7. SUFFICES ASSUME ~Confirmed' PROVE Evidence'
    BY <2>6 DEF Evidence
  <2>8. r = "soft" => gate[a] = "first"
    BY <2>1, <2>2, <2>5, <2>7 DEF Evidence
  <2>9. posted' = posted
    BY <2>4, <2>5, <2>7, <2>8
  <2>10. \A b \in Attempt : gate'[b] = "second" => softs' >= 1
    <3>1. \A b \in Attempt : b # a => gate'[b] = gate[b]
      BY <1>1, <2>4
    <3>2. gate'[a] = "second" => r = "soft"
      BY <1>1, <2>4
    <3>3. QED BY <1>1, <2>2, <2>5, <2>7, <3>1, <3>2 DEF Evidence
  <2>11. SoftPending' <=> SoftPending
    BY <2>1, <2>9 DEF SoftPending
  <2>12. QED
    BY <1>1, <2>1, <2>2, <2>5, <2>6, <2>7, <2>9, <2>10, <2>11 DEF Evidence, counters
<1>23. ASSUME NEW p \in Proxies, ProxyDies(p) PROVE Evidence'
  BY <1>5, <1>23 DEF ProxyDies, session, counters, loop, history
<1>24. CASE TunnelUp
  BY <1>5, <1>24 DEF TunnelUp, history
<1>25. CASE StartChecks
  <2>1. /\ UNCHANGED <<latest, executor, posted, softs, hards, verdict, counters>>
        /\ gate' = [gate EXCEPT ![latest] = "first"]
    BY <1>25 DEF StartChecks, session, history
  <2>2. \A a \in Attempt : gate'[a] = "second" => gate[a] = "second"
    BY <1>1, <2>1
  <2>3. (Confirmed' <=> Confirmed) /\ (SoftPending' <=> SoftPending) /\ Evidence
    BY <1>2, <2>1 DEF Confirmed, SoftPending
  <2>4. QED BY <2>1, <2>2, <2>3 DEF Evidence, counters
<1>26. CASE StartRun \/ ConfigureFailed \/ HandlePostStart \/ MainStop
  BY <1>5, <1>26
     DEF StartRun, ConfigureFailed, HandlePostStart, MainStop, StopMe, session, counters,
         loop, history
<1>27. ASSUME NEW b \in BinderThreads, BinderStop(b) \/ StopStep(b) PROVE Evidence'
  BY <1>5, <1>27
     DEF StopStep, BinderStop, StopProbe, StopUnpost, StopProxy, StopIp, StopVerified,
         StopDown, StopPending, GoTo, counters, loop, history
<1>28. CASE ScreenOff
  BY <1>5, <1>28 DEF ScreenOff, session, counters, loop, history
<1>29. CASE ScreenOn
  BY <1>5, <1>29 DEF ScreenOn, session, history
<1>30. CASE UNCHANGED vars
  BY <1>5, <1>30 DEF vars, session, counters, loop, history
<1>31. QED
  BY <1>4, <1>7, <1>8, <1>9, <1>10, <1>13, <1>14, <1>15, <1>18, <1>19, <1>20, <1>21,
     <1>22, <1>23, <1>24, <1>25, <1>26, <1>27, <1>28, <1>29, <1>30
     DEF Next, Step, MainStep, TaskStep, ResultStep

\* A single dropped greeting never ends the first attempt of a service: with
\* both limits at two or more (two and three in the code), a check only
\* stops it after a definite refusal or two dropped greetings, whatever binder
\* threads tear down beside it.  A later attempt can be stopped by a result
\* left over from an earlier one.
THEOREM SingleDropNeverKillsFirst ==
  ASSUME Strikes >= 2, MaxFailures >= 2
  PROVE  Spec => [](latest <= 1 => SingleDropNeverKills)
<1>1. Init => PipelineInv /\ EvidenceInv
  <2> SUFFICES ASSUME Init PROVE PipelineInv /\ EvidenceInv
    OBVIOUS
  <2>1. /\ executor = <<>> /\ posted = <<>> /\ ~mRunning /\ ~verdict /\ softs = 0
        /\ main = "idle" /\ Idle /\ latest = 0
        /\ mPreTunnelProbeFailures = 0 /\ mIpCheckFailures = 0
        /\ \A a \in Attempt : gate[a] = "none"
    BY DEF Init, Idle
  <2>2. Len(executor) = 0 /\ Len(posted) = 0
    BY <2>1
  <2>3. ~Busy(posted) /\ One(posted) /\ Clean(posted) /\ ~SoftIn(posted)
        /\ AllProbed(posted)
    BY <2>2 DEF Busy, One, Clean, SoftIn, AllProbed
  <2>4. QED
    BY <2>1, <2>2, <2>3
       DEF PipelineInv, Pipeline, EvidenceInv, Evidence, SoftPending, Idle
<1>2. EvidenceInv => (latest <= 1 => SingleDropNeverKills)
  BY DEF EvidenceInv, Evidence, Confirmed, SingleDropNeverKills
<1>3. TypeInv /\ PipelineInv /\ EvidenceInv /\ [Next]_vars => EvidenceInv'
  BY EvidenceStep
<1>4. QED BY <1>1, <1>2, <1>3, TypeInit, TypeStep, PipelineStep, PTL DEF Spec
=============================================================================
