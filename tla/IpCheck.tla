------------------------------ MODULE IpCheck -------------------------------
(***************************************************************************)
(* How SocksVpnService decides whether the proxy behind the tunnel works:  *)
(* the self-reposting mIpCheckRunnable, its single-threaded executor with  *)
(* the raced SOCKS probe, the strike counters, the parallel health gate    *)
(* and the exit-IP cache.  Of connecting and the tunnel coming up it has   *)
(* what concerns the checks, of stopMe too: as one step when the main      *)
(* thread runs it, line by line when a binder thread does.  VpnLifecycle   *)
(* has the rest.  Results of the executor reach the main thread as posted  *)
(* Runnables, in order, and carry the attempt and the proxy they were      *)
(* taken for; the code itself compares neither.                            *)
(* An exit IP is represented by the proxy it was observed through.         *)
(***************************************************************************)
EXTENDS Naturals, Sequences

CONSTANTS Proxies,      \* proxy identities (server, port, user)
          NoProxy,      \* null
          Direct,       \* the device's own IP, seen without a proxy
          MaxAttempts,  \* bound on connect attempts
          MaxScreenOff, \* bound on the times the screen goes off
          MaxFailures,  \* MAX_IP_CHECK_FAILURES
          Strikes,      \* PRE_TUNNEL_FAST_FAIL_STRIKES
          ProbeSettings,\* values of !mAccel || mAccelProbe
          CacheSettings,\* values of mAccel && mAccelCacheIp
          BinderThreads \* threads that run stopMe outside the main thread

ASSUME IpBoundsAssumption ==
  /\ MaxAttempts \in Nat /\ MaxScreenOff \in Nat
  /\ MaxFailures \in Nat \ {0} /\ Strikes \in Nat \ {0}
ASSUME IpFlagsAssumption ==
  ProbeSettings \subseteq BOOLEAN /\ CacheSettings \subseteq BOOLEAN
ASSUME NoProxyAssumption ==
  NoProxy \notin Proxies /\ Direct \notin Proxies /\ Direct # NoProxy

Attempt == 1..MaxAttempts
ProxyOrNone == Proxies \cup {NoProxy}
IpOrNone == ProxyOrNone \cup {Direct}

VARIABLES
  mRunning, mTunnelUp,
  latest,                   \* attempts begun; identifies the current one
  mProxy,                   \* mServer, mPort, mUsername and mAccelKey
  proxyOf,                  \* proxy of each attempt
  probing, caching,         \* settings of the current attempt
  main,                     \* where the main thread is in its handler
  arrived,                  \* last attempt whose completion was believed
  stop,                     \* where each binder thread is in stopMe
  mProbeInFlight,
  mPreTunnelProbeFailures, mIpCheckFailures,
  mProxyVerified, mCurrentIp, mPendingIpInfo,
  accelIp,                  \* accel_ip.json: one key and one exit IP
  queued,                   \* pending posts of mIpCheckRunnable
  executor,                 \* tasks of mIpCheckExecutor, the first running
  posted,                   \* results posted to the main thread
  gate,                     \* health gate of each attempt
  dead,                     \* proxies that have stopped working
  dozing, screens,          \* screen off or Doze; how often it went off
  softs, hards, verdict,    \* history: soft and hard probe answers of the
                            \* current attempt; a check stopped it
  raced                     \* history, see Record

session == <<mRunning, mTunnelUp, latest, mProxy, proxyOf, probing, caching>>
control == <<main, arrived, stop>>
counters == <<mPreTunnelProbeFailures, mIpCheckFailures>>
shown == <<mProxyVerified, mCurrentIp, mPendingIpInfo, accelIp>>
loop == <<mProbeInFlight, queued, executor, posted>>
env == <<dead, dozing, screens>>
history == <<softs, hards, verdict>>
vars == <<session, control, counters, shown, loop, gate, env, history, raced>>

Answer == {"ok", "soft", "hard"}
Task == [att : Attempt, proxy : ProxyOrNone, stage : {"begin", "early", "info"},
         probe : Answer \cup {"pending", "off"}]
Result == [kind : {"fastFail", "info", "noInfo", "exception", "gate"},
           att : Attempt, proxy : ProxyOrNone, probe : Answer \cup {"off"}]

TypeOK ==
  /\ mRunning \in BOOLEAN /\ mTunnelUp \in BOOLEAN
  /\ latest \in 0..MaxAttempts
  /\ mProxy \in ProxyOrNone
  /\ proxyOf \in [Attempt -> ProxyOrNone]
  /\ probing \in BOOLEAN /\ caching \in BOOLEAN
  /\ main \in {"idle", "run", "begin", "postStart"}
  /\ arrived \in 0..MaxAttempts
  /\ stop \in [BinderThreads -> {"idle", "probe", "unpost", "proxy", "ip",
                                  "verified", "unpost2", "down", "pending"}]
  /\ mProbeInFlight \in BOOLEAN
  /\ mPreTunnelProbeFailures \in 0..Strikes
  /\ mIpCheckFailures \in Nat /\ (~raced => mIpCheckFailures <= MaxFailures)
  /\ mProxyVerified \in BOOLEAN
  /\ mCurrentIp \in IpOrNone /\ mPendingIpInfo \in IpOrNone
  /\ accelIp \in [key : ProxyOrNone, ip : IpOrNone]
  /\ queued \in Nat
  /\ executor \in Seq(Task)
  /\ posted \in Seq(Result)
  /\ gate \in [Attempt -> {"none", "first", "second", "done"}]
  /\ dead \subseteq Proxies
  /\ dozing \in BOOLEAN
  /\ screens \in 0..MaxScreenOff
  /\ softs \in 0..2 /\ hards \in BOOLEAN /\ verdict \in BOOLEAN
  /\ raced \in BOOLEAN

Init ==
  /\ mRunning = FALSE /\ mTunnelUp = FALSE
  /\ latest = 0
  /\ mProxy = NoProxy
  /\ proxyOf = [a \in Attempt |-> NoProxy]
  /\ probing = TRUE /\ caching = FALSE
  /\ main = "idle" /\ arrived = 0
  /\ stop = [b \in BinderThreads |-> "idle"]
  /\ mProbeInFlight = FALSE
  /\ mPreTunnelProbeFailures = 0 /\ mIpCheckFailures = 0
  /\ mProxyVerified = FALSE
  /\ mCurrentIp = NoProxy /\ mPendingIpInfo = NoProxy
  /\ accelIp = [key |-> NoProxy, ip |-> NoProxy]
  /\ queued = 0
  /\ executor = <<>> /\ posted = <<>>
  /\ gate = [a \in Attempt |-> "none"]
  /\ dead = {} /\ dozing = FALSE /\ screens = 0
  /\ softs = 0 /\ hards = FALSE /\ verdict = FALSE
  /\ raced = FALSE

-----------------------------------------------------------------------------
(* Connect and tunnel up, on the main thread.                              *)

MainIdle == main = "idle"

\* onStartCommand: the fields of the attempt, with settings read anew.
StartFields(p) ==
  /\ MainIdle
  /\ ~mRunning
  /\ latest < MaxAttempts
  /\ latest' = latest + 1
  /\ mProxy' = p
  /\ proxyOf' = [proxyOf EXCEPT ![latest + 1] = p]
  /\ probing' \in ProbeSettings
  /\ caching' \in CacheSettings
  /\ main' = "run"
  /\ softs' = 0 /\ hards' = FALSE /\ verdict' = FALSE
  /\ UNCHANGED <<mRunning, mTunnelUp, arrived, stop, counters, shown, loop, gate,
                 env>>

StartRun ==
  /\ main = "run"
  /\ mRunning' = TRUE
  /\ mPreTunnelProbeFailures' = 0
  /\ main' = "begin"
  /\ UNCHANGED <<mTunnelUp, latest, mProxy, proxyOf, probing, caching, arrived,
                 stop, mIpCheckFailures, shown, loop, gate, env, history>>

\* start(): the first post of mIpCheckRunnable, and the health gate.
StartChecks ==
  /\ main = "begin"
  /\ queued' = queued + 1
  /\ gate' = [gate EXCEPT ![latest] = "first"]
  /\ main' = "idle"
  /\ UNCHANGED <<session, arrived, stop, counters, shown, mProbeInFlight,
                 executor, posted, env, history>>

\* The start thread's posted completion passes its staleness test.
HandlePostStart ==
  /\ MainIdle
  /\ mRunning
  /\ arrived # latest
  /\ arrived' = latest
  /\ main' = "postStart"
  /\ UNCHANGED <<session, stop, counters, shown, loop, gate, env, history>>

\* applyIpInfo: what it leaves in the cache; without a key nothing is saved.
SaveAccelIp(ip) ==
  IF caching /\ mProxy # NoProxy THEN [key |-> mProxy, ip |-> ip] ELSE accelIp

\* The cached exit IP of this proxy, unless missing or expired.
LoadAccelIp == {NoProxy} \cup
  (IF caching /\ mProxy # NoProxy /\ accelIp.key = mProxy THEN {accelIp.ip} ELSE {})

\* postStartOnMain: a cached exit IP first, then the buffered one.
TunnelUp ==
  /\ main = "postStart"
  /\ mTunnelUp' = TRUE
  /\ mPreTunnelProbeFailures' = 0
  /\ mIpCheckFailures' = 0
  /\ \E cached \in LoadAccelIp :
       /\ mCurrentIp' = IF mPendingIpInfo # NoProxy THEN mPendingIpInfo
                        ELSE IF cached # NoProxy THEN cached ELSE mCurrentIp
       /\ mProxyVerified' = (mPendingIpInfo # NoProxy \/ cached # NoProxy)
  /\ accelIp' = IF mPendingIpInfo # NoProxy
                THEN SaveAccelIp(mPendingIpInfo) ELSE accelIp
  /\ mPendingIpInfo' = NoProxy
  /\ queued' = queued + 1
  /\ main' = "idle"
  /\ UNCHANGED <<mRunning, latest, mProxy, proxyOf, probing, caching, arrived,
                 stop, mProbeInFlight, executor, posted, gate, env, history>>

-----------------------------------------------------------------------------
(* stopMe.                                                                 *)

\* All of it, on the main thread; mIpCheckFailures survives it.
StopMe ==
  /\ mRunning' = FALSE
  /\ mTunnelUp' = FALSE
  /\ mProxy' = NoProxy
  /\ mProbeInFlight' = FALSE
  /\ queued' = 0
  /\ mProxyVerified' = FALSE
  /\ mCurrentIp' = NoProxy
  /\ mPendingIpInfo' = NoProxy
  /\ UNCHANGED <<latest, proxyOf, probing, caching, accelIp>>

\* A stop that no check asked for.
MainStop ==
  /\ MainIdle
  /\ mRunning
  /\ StopMe
  /\ UNCHANGED <<control, counters, executor, posted, gate, env, history>>

\* configure() throws, or establish() returns null.
ConfigureFailed ==
  /\ main = "begin"
  /\ main' = "idle"
  /\ IF mRunning THEN StopMe
     ELSE UNCHANGED <<session, shown, mProbeInFlight, queued>>
  /\ UNCHANGED <<arrived, stop, counters, executor, posted, gate, env, history>>

\* stopMe called by a check: it returns early when nothing runs.
StopByCheck ==
  IF mRunning
  THEN StopMe /\ verdict' = TRUE
  ELSE /\ mProbeInFlight' = FALSE
       /\ UNCHANGED <<session, shown, queued, verdict>>

\* The binder stop() of a client, and onRevoke: the synchronized block.
BinderStop(b) ==
  /\ stop[b] = "idle"
  /\ mRunning
  /\ mRunning' = FALSE
  /\ stop' = [stop EXCEPT ![b] = "probe"]
  /\ UNCHANGED <<mTunnelUp, latest, mProxy, proxyOf, probing, caching, main,
                 arrived, counters, shown, loop, gate, env, history>>

\* The lines of the teardown that concern the checks, in their order.
GoTo(b, here, next) ==
  /\ stop[b] = here
  /\ stop' = [stop EXCEPT ![b] = next]
  /\ UNCHANGED <<latest, proxyOf, probing, caching, main, arrived, counters,
                 accelIp, executor, posted, gate, env, history>>

StopProbe(b) ==
  /\ GoTo(b, "probe", "unpost")
  /\ mProbeInFlight' = FALSE
  /\ UNCHANGED <<mRunning, mTunnelUp, mProxy, mProxyVerified, mCurrentIp,
                 mPendingIpInfo, queued>>

\* removeCallbacks(mIpCheckRunnable), early and late in stopMe.
StopUnpost(b) ==
  /\ GoTo(b, "unpost", "proxy") \/ GoTo(b, "unpost2", "down")
  /\ queued' = 0
  /\ UNCHANGED <<mRunning, mTunnelUp, mProxy, mProxyVerified, mCurrentIp,
                 mPendingIpInfo, mProbeInFlight>>

StopProxy(b) ==
  /\ GoTo(b, "proxy", "ip")
  /\ mProxy' = NoProxy
  /\ UNCHANGED <<mRunning, mTunnelUp, mProxyVerified, mCurrentIp,
                 mPendingIpInfo, mProbeInFlight, queued>>

\* Mutant of StopIp: the exit IP is left in place.
StopIpKeeps(b) ==
  /\ GoTo(b, "ip", "verified")
  /\ mRunning' = FALSE
  /\ UNCHANGED <<mTunnelUp, mProxy, mProxyVerified, mCurrentIp, mPendingIpInfo,
                 mProbeInFlight, queued>>

StopIp(b) ==
  /\ GoTo(b, "ip", "verified")
  /\ mCurrentIp' = NoProxy
  /\ mRunning' = FALSE
  /\ UNCHANGED <<mTunnelUp, mProxy, mProxyVerified, mPendingIpInfo,
                 mProbeInFlight, queued>>

StopVerified(b) ==
  /\ GoTo(b, "verified", "unpost2")
  /\ mProxyVerified' = FALSE
  /\ UNCHANGED <<mRunning, mTunnelUp, mProxy, mCurrentIp, mPendingIpInfo,
                 mProbeInFlight, queued>>

StopDown(b) ==
  /\ GoTo(b, "down", "pending")
  /\ mTunnelUp' = FALSE
  /\ UNCHANGED <<mRunning, mProxy, mProxyVerified, mCurrentIp, mPendingIpInfo,
                 mProbeInFlight, queued>>

StopPending(b) ==
  /\ GoTo(b, "pending", "idle")
  /\ mPendingIpInfo' = NoProxy
  /\ UNCHANGED <<mRunning, mTunnelUp, mProxy, mProxyVerified, mCurrentIp,
                 mProbeInFlight, queued>>

StopStep(b) == StopProbe(b) \/ StopUnpost(b) \/ StopProxy(b) \/ StopIp(b)
               \/ StopVerified(b) \/ StopDown(b) \/ StopPending(b)

-----------------------------------------------------------------------------
(* mIpCheckRunnable on the main thread.                                    *)

CheckTick ==
  /\ MainIdle
  /\ queued > 0
  /\ dozing => ~mRunning  \* a run while dozing only reposts itself
  /\ queued' = queued - 1
  /\ IF mRunning /\ ~mProbeInFlight
     THEN /\ mProbeInFlight' = TRUE
          /\ executor' = Append(executor, [att |-> latest, proxy |-> mProxy,
                                           stage |-> "begin",
                                           probe |-> "pending"])
     ELSE UNCHANGED <<mProbeInFlight, executor>>
  /\ UNCHANGED <<session, control, counters, shown, posted, gate, env, history>>

ScreenOff ==
  /\ ~dozing
  /\ screens < MaxScreenOff
  /\ dozing' = TRUE
  /\ screens' = screens + 1
  /\ UNCHANGED <<session, control, counters, shown, loop, gate, dead, history>>

\* The receiver is registered while the tunnel is up: a fresh streak, and one
\* post instead of those pending.
ScreenOn ==
  /\ MainIdle
  /\ dozing
  /\ dozing' = FALSE
  /\ IF mRunning /\ mTunnelUp
     THEN mIpCheckFailures' = 0 /\ queued' = 1
     ELSE UNCHANGED <<mIpCheckFailures, queued>>
  /\ UNCHANGED <<session, control, mPreTunnelProbeFailures, shown, mProbeInFlight,
                 executor, posted, gate, dead, screens, history>>

-----------------------------------------------------------------------------
(* The executor task, first with its pre-tunnel fast fail, then with the   *)
(* HTTPS lookup.                                                           *)

\* A working proxy may drop a greeting; one that stopped never answers well;
\* without a server the probe says unreachable.
ProbeAnswers(p) == IF p = NoProxy THEN {"soft"}
                   ELSE IF p \in dead THEN {"soft", "hard"} ELSE {"ok", "soft"}

Observe(att, r) ==
  /\ softs' = IF att = latest /\ r = "soft" /\ softs < 2 THEN softs + 1 ELSE softs
  /\ hards' = (hards \/ (att = latest /\ r = "hard"))
  /\ UNCHANGED verdict

PostResult(kind, t, r) ==
  posted' = Append(posted, [kind |-> kind, att |-> t.att, proxy |-> t.proxy,
                            probe |-> r])

\* The task starts: a probe is raced if the setting, as it is now, says so, and
\* is awaited for a while if the tunnel is down.
TaskBegin ==
  /\ executor # <<>>
  /\ Head(executor).stage = "begin"
  /\ executor' = <<[Head(executor) EXCEPT
                      !.stage = IF probing /\ ~mTunnelUp THEN "early" ELSE "info",
                      !.probe = IF probing THEN "pending" ELSE "off"]>>
                   \o Tail(executor)
  /\ UNCHANGED <<session, control, counters, shown, mProbeInFlight, queued, posted,
                 gate, env, history>>

\* probeFuture.get(PROBE_FAST_FAIL_MS) timed out, or brought a good answer.
EarlyGood ==
  /\ executor # <<>>
  /\ Head(executor).stage = "early"
  /\ \E r \in {"pending"} \cup (ProbeAnswers(Head(executor).proxy) \ {"soft", "hard"}) :
       executor' = <<[Head(executor) EXCEPT !.stage = "info", !.probe = r]>>
                     \o Tail(executor)
  /\ mPreTunnelProbeFailures' = 0
  /\ UNCHANGED <<session, control, mIpCheckFailures, shown, mProbeInFlight, queued,
                 posted, gate, env, history>>

\* It brought a bad one: a hard one stops at once, soft ones need Strikes.
EarlyBad ==
  /\ executor # <<>>
  /\ Head(executor).stage = "early"
  /\ \E r \in ProbeAnswers(Head(executor).proxy) \ {"ok"} :
       /\ mPreTunnelProbeFailures' = IF r = "soft" /\ mPreTunnelProbeFailures < Strikes
                                     THEN mPreTunnelProbeFailures + 1
                                     ELSE mPreTunnelProbeFailures
       /\ IF r = "hard" \/ mPreTunnelProbeFailures' >= Strikes
          THEN /\ PostResult("fastFail", Head(executor), r)
               /\ executor' = Tail(executor)
          ELSE /\ executor' = <<[Head(executor) EXCEPT !.stage = "info",
                                                       !.probe = r]>>
                                \o Tail(executor)
               /\ UNCHANGED posted
       /\ Observe(Head(executor).att, r)
  /\ UNCHANGED <<session, control, mIpCheckFailures, shown, mProbeInFlight, queued,
                 gate, env>>

\* checkPublicIp or checkWith found the exit IP; without a server they ask
\* without a proxy.
LookupOk ==
  /\ executor # <<>>
  /\ Head(executor).stage = "info"
  /\ Head(executor).proxy \notin dead
  /\ PostResult("info", Head(executor), "ok")
  /\ executor' = Tail(executor)
  /\ UNCHANGED <<session, control, counters, shown, mProbeInFlight, queued, gate,
                 env, history>>

\* It found nothing: the raced probe decides, the one already answered if any.
LookupNull ==
  /\ executor # <<>>
  /\ Head(executor).stage = "info"
  /\ IF Head(executor).probe # "pending"
     THEN /\ PostResult("noInfo", Head(executor), Head(executor).probe)
          /\ UNCHANGED history
     ELSE \E r \in ProbeAnswers(Head(executor).proxy) :
            /\ PostResult("noInfo", Head(executor), r)
            /\ Observe(Head(executor).att, r)
  /\ executor' = Tail(executor)
  /\ UNCHANGED <<session, control, counters, shown, mProbeInFlight, queued, gate,
                 env>>

LookupThrows ==
  /\ executor # <<>>
  /\ Head(executor).stage = "info"
  /\ Head(executor).proxy \notin dead
  /\ PostResult("exception", Head(executor), "off")
  /\ executor' = Tail(executor)
  /\ UNCHANGED <<session, control, counters, shown, mProbeInFlight, queued, gate,
                 env, history>>

-----------------------------------------------------------------------------
(* Results on the main thread.                                             *)

\* An exit IP as it is shown.
Seen(p) == IF p = NoProxy THEN Direct ELSE p

Take(kind) ==
  /\ MainIdle
  /\ posted # <<>>
  /\ Head(posted).kind = kind
  /\ posted' = Tail(posted)

HandleFastFail ==
  /\ Take("fastFail")
  /\ StopByCheck
  /\ UNCHANGED <<control, counters, executor, gate, env, softs, hards>>

\* Buffered until the tunnel is up, applied and saved afterwards.
HandleInfo ==
  /\ Take("info")
  /\ mProbeInFlight' = FALSE
  /\ IF mTunnelUp
     THEN /\ mCurrentIp' = Seen(Head(posted).proxy)
          /\ mProxyVerified' = TRUE
          /\ mIpCheckFailures' = 0
          /\ accelIp' = SaveAccelIp(Seen(Head(posted).proxy))
          /\ queued' = queued + 1
          /\ UNCHANGED <<mPendingIpInfo, mPreTunnelProbeFailures>>
     ELSE /\ mPendingIpInfo' = Seen(Head(posted).proxy)
          /\ mPreTunnelProbeFailures' = 0
          /\ UNCHANGED <<mCurrentIp, mProxyVerified, mIpCheckFailures, accelIp,
                         queued>>
  /\ UNCHANGED <<session, control, executor, gate, env, history>>

\* No exit IP and nothing to hold against the proxy: try again.  The setting is
\* read again, it may be another than the task was begun with.
HandleNoInfoRetry ==
  /\ Take("noInfo")
  /\ ~mTunnelUp \/ Head(posted).probe = "ok" \/ ~probing
  /\ mProbeInFlight' = FALSE
  /\ IF mTunnelUp /\ Head(posted).probe = "ok"
     THEN mProxyVerified' = TRUE /\ mIpCheckFailures' = 0
     ELSE UNCHANGED <<mProxyVerified, mIpCheckFailures>>
  /\ queued' = queued + 1
  /\ UNCHANGED <<session, control, mPreTunnelProbeFailures, mCurrentIp,
                 mPendingIpInfo, accelIp, executor, gate, env, history>>

\* Mutant: the strike is not remembered.
HandleNoInfoStrikeForgets ==
  /\ Take("noInfo")
  /\ mTunnelUp /\ Head(posted).probe # "ok" /\ probing
  /\ mProbeInFlight' = FALSE
  /\ mProxyVerified' = FALSE
  /\ queued' = queued + 1
  /\ UNCHANGED <<session, control, mCurrentIp, mPendingIpInfo, accelIp, counters,
                 executor, gate, env, history>>

\* Mutant: a lookup that fails is a strike though the probe is off.
HandleNoInfoStrikeUnasked ==
  /\ Take("noInfo")
  /\ mTunnelUp /\ Head(posted).probe # "ok"
  /\ mIpCheckFailures' = mIpCheckFailures + 1
  /\ IF mIpCheckFailures + 1 >= MaxFailures
     THEN StopByCheck
     ELSE /\ mProbeInFlight' = FALSE
          /\ mProxyVerified' = FALSE
          /\ queued' = queued + 1
          /\ UNCHANGED <<session, mCurrentIp, mPendingIpInfo, accelIp, verdict>>
  /\ UNCHANGED <<control, mPreTunnelProbeFailures, executor, gate, env, softs,
                 hards>>

\* A failed handshake through an up tunnel is a strike, the last one stops.
HandleNoInfoStrike ==
  /\ Take("noInfo")
  /\ mTunnelUp /\ Head(posted).probe # "ok" /\ probing
  /\ mIpCheckFailures' = mIpCheckFailures + 1
  /\ IF mIpCheckFailures + 1 >= MaxFailures
     THEN StopByCheck
     ELSE /\ mProbeInFlight' = FALSE
          /\ mProxyVerified' = FALSE
          /\ queued' = queued + 1
          /\ UNCHANGED <<session, mCurrentIp, mPendingIpInfo, accelIp, verdict>>
  /\ UNCHANGED <<control, mPreTunnelProbeFailures, executor, gate, env, softs,
                 hards>>

\* Mutant: a failed check is not repeated.
HandleExceptionSilent ==
  /\ Take("exception")
  /\ mProbeInFlight' = FALSE
  /\ UNCHANGED <<session, control, counters, shown, queued, executor, gate, env,
                 history>>

HandleException ==
  /\ Take("exception")
  /\ mProbeInFlight' = FALSE
  /\ queued' = queued + 1
  /\ UNCHANGED <<session, control, counters, shown, executor, gate, env, history>>

-----------------------------------------------------------------------------
(* The parallel health gate of attempt a.                                  *)

\* Mutant: no second probe after a dropped greeting.
GateProbeUnconfirmed(a) ==
  /\ gate[a] \in {"first", "second"}
  /\ \E r \in ProbeAnswers(proxyOf[a]) :
       /\ Observe(a, r)
       /\ gate' = [gate EXCEPT ![a] = "done"]
       /\ IF r = "ok" THEN UNCHANGED posted
          ELSE PostResult("gate", [att |-> a, proxy |-> proxyOf[a]], r)
  /\ UNCHANGED <<session, control, counters, shown, mProbeInFlight, queued,
                 executor, env>>

GateProbe(a) ==
  /\ gate[a] \in {"first", "second"}
  /\ \E r \in ProbeAnswers(proxyOf[a]) :
       /\ Observe(a, r)
       /\ IF r = "soft" /\ gate[a] = "first"
          THEN gate' = [gate EXCEPT ![a] = "second"] /\ UNCHANGED posted
          ELSE /\ gate' = [gate EXCEPT ![a] = "done"]
               /\ IF r = "ok" THEN UNCHANGED posted
                  ELSE PostResult("gate", [att |-> a, proxy |-> proxyOf[a]], r)
  /\ UNCHANGED <<session, control, counters, shown, mProbeInFlight, queued,
                 executor, env>>

\* Quiet once verified, and the only result that compares generations.
HandleGate ==
  /\ Take("gate")
  /\ IF Head(posted).att = latest /\ mRunning
        /\ ~mProxyVerified /\ mCurrentIp = NoProxy
     THEN StopMe /\ verdict' = TRUE
     ELSE UNCHANGED <<session, shown, mProbeInFlight, queued, verdict>>
  /\ UNCHANGED <<control, counters, executor, gate, env, softs, hards>>

\* The world: a proxy stops working for good.
ProxyDies(p) ==
  /\ p \notin dead
  /\ dead' = dead \cup {p}
  /\ UNCHANGED <<session, control, counters, shown, loop, gate, dozing, screens,
                 history>>

-----------------------------------------------------------------------------
MainStep == StartRun \/ StartChecks \/ ConfigureFailed \/ TunnelUp

TaskStep == TaskBegin \/ EarlyGood \/ EarlyBad \/ LookupOk \/ LookupNull
            \/ LookupThrows

ResultStep == HandleFastFail \/ HandleInfo \/ HandleNoInfoRetry
              \/ HandleNoInfoStrike \/ HandleException \/ HandleGate

Step ==
  \/ \E p \in Proxies : StartFields(p) \/ ProxyDies(p)
  \/ MainStep \/ HandlePostStart \/ MainStop
  \/ \E b \in BinderThreads : BinderStop(b) \/ StopStep(b)
  \/ CheckTick \/ ScreenOff \/ ScreenOn
  \/ TaskStep \/ ResultStep
  \/ \E a \in Attempt : GateProbe(a)

\* What the properties remember of the past: a start, a completion or a result
\* ran on the main thread while a binder thread was in stopMe.
Record ==
  raced' = (raced \/ /\ main' # "idle" \/ Len(posted') < Len(posted)
                     /\ \E b \in BinderThreads : stop'[b] # "idle")

Next == Step /\ Record

Spec == Init /\ [][Next]_vars

\* Threads are scheduled, delayed posts fire, a connect attempt settles (which
\* VpnLifecycle shows), and the screen comes back on.
Fairness ==
  /\ WF_vars(MainStep /\ Record) /\ WF_vars(HandlePostStart /\ Record)
  /\ \A b \in BinderThreads : WF_vars(StopStep(b) /\ Record)
  /\ WF_vars(TaskStep /\ Record) /\ WF_vars(ResultStep /\ Record)
  /\ WF_vars(ScreenOn /\ Record)
  /\ SF_vars(CheckTick /\ Record)

FairSpec == Spec /\ Fairness

-----------------------------------------------------------------------------
(* Properties.                                                             *)

Tearing == \E b \in BinderThreads : stop[b] # "idle"

\* Outside a teardown no exit IP and no verified mark is shown without the
\* tunnel, whatever results arrive when, unless a start, a completion or a
\* result overlapped a binder's stop: the lines of stopMe that undo them come
\* in an order, and after a last result, that leaves nothing behind.
ShownOnlyWhenUp ==
  ~raced /\ ~Tearing /\ (mProxyVerified \/ mCurrentIp # NoProxy) =>
    mRunning /\ mTunnelUp

\* The check loop never dies while the service runs: some post, task or result
\* will bring the next check, or the tunnel coming up will.  Only a binder's
\* stop that overlapped a start can have taken away a later attempt's post.
LoopAlive ==
  ~raced /\ mRunning /\ MainIdle =>
    \/ queued > 0
    \/ executor # <<>>
    \/ \E i \in 1..Len(posted) : posted[i].kind # "gate"
    \/ mPendingIpInfo # NoProxy /\ arrived # latest

\* "a single dropped greet on a healthy proxy never kills alone": a check only
\* stops an attempt that met a definite refusal or two dropped greetings.
SingleDropNeverKills == verdict => hards \/ softs >= 2

\* A connection whose proxy has stopped working is eventually given up.
DeadProxyStops == (mRunning /\ mProxy \in dead) ~> ~mRunning

\* The setting is read at every start, and a session begun with the probe off is
\* never ended by a check of its own once its exit IP is shown, whatever the
\* attempts before it had set; a fast fail still under way from one of them is
\* all that can.
ProbeOffKeepsShown ==
  [][~probing /\ mRunning /\ mCurrentIp # NoProxy /\ verdict' # verdict =>
       Head(posted).kind = "fastFail" /\ Head(posted).att # latest]_vars

-----------------------------------------------------------------------------
(* Statements of the source's comments that the code does not keep.        *)

\* "shown the moment the tunnel is ready -- never before": a service that is
\* still connecting shows no exit IP and no verified mark.
NeverShownBefore ==
  mRunning /\ ~mTunnelUp => mCurrentIp = NoProxy /\ ~mProxyVerified

\* "Probe off: never tear down, only retry enrichment": with the probe off no
\* check ends a session that has shown its exit IP.
ProbeOffNeverTearsDown ==
  [][~probing /\ mRunning /\ mCurrentIp # NoProxy => verdict' = verdict]_vars
=============================================================================
