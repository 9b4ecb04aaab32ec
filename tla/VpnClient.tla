----------------------------- MODULE VpnClient ------------------------------
(***************************************************************************)
(* How a client drives and follows a VPN session: VpnViewModel in the UI   *)
(* process, the intents and the binder through which it reaches            *)
(* SocksVpnService in the :vpn process, and the death and restart of that  *)
(* process.  The service is the session of VpnSession; how it brings a     *)
(* tunnel up is VpnLifecycle's subject, and the connect button with its    *)
(* errors and timeout is ConnectButton's.                                  *)
(***************************************************************************)
EXTENDS Naturals, Sequences

CONSTANTS Syncs,        \* coroutines that can run syncState at a time
          MaxCommands,  \* bound on the user's taps
          MaxFaults     \* bound on kills, failed binds, others' requests

ASSUME ClientAssumption ==
  /\ "poll" \in Syncs
  /\ {MaxCommands, MaxFaults} \subseteq Nat

VARIABLES
  running, up,      \* the service's mRunning, and its verified tunnel
  alive,            \* the :vpn process exists
  startRequested,   \* the system's record that the service is started
  intents,          \* intents not yet handled by onStartCommand
  broadcasts,       \* ACTION_VPN_STATE_CHANGED on the way
  link,             \* the ServiceConnection, as the system sees it
  bound, rebinding,
  rebindRunnable,   \* the callback pending on rebindHandler
  isRunning, isConnected,
  sync,             \* each coroutine in syncState
  restart,          \* a stop-then-start flow is in awaitStopped
  last,             \* the last request that reached the system
  commands, faults

service == <<running, up>>
system == <<alive, startRequested, intents, broadcasts>>
binding == <<link, bound, rebinding, rebindRunnable>>
flows == <<isRunning, isConnected>>
vars == <<service, system, binding, flows, sync, restart, last, commands, faults>>

Sync(at, r, c) == [at |-> at, running |-> r, connected |-> c]
Idle == Sync("idle", FALSE, FALSE)

\* The types, and that a binder is held exactly over a connection that is up
\* or whose loss has yet to be announced: a call on it reaches the process or
\* throws.
TypeOK ==
  /\ bound <=> link \in {"up", "lost"}
  /\ {running, up, alive, startRequested, bound, rebinding, isRunning,
      isConnected, restart} \subseteq BOOLEAN
  /\ intents \in Seq({"start", "stop"})
  /\ broadcasts \in Nat
  /\ link \in {"binding", "up", "lost", "down"}
  /\ rebindRunnable \in {"none", "retry", "watchdog"}
  /\ sync \in [Syncs -> [at : {"idle", "read", "apply", "finish"},
                         running : BOOLEAN, connected : BOOLEAN]]
  /\ last \in {"none", "start", "stop"}
  /\ commands \in 0..MaxCommands
  /\ faults \in 0..MaxFaults

\* The view model exists and its first bindService was accepted.
Init ==
  /\ running = FALSE /\ up = FALSE
  /\ alive = FALSE /\ startRequested = FALSE
  /\ intents = <<>> /\ broadcasts = 0
  /\ link = "binding" /\ bound = FALSE
  /\ rebinding = FALSE /\ rebindRunnable = "none"
  /\ isRunning = FALSE /\ isConnected = FALSE
  /\ sync = [s \in Syncs |-> Idle]
  /\ restart = FALSE
  /\ last = "none"
  /\ commands = 0 /\ faults = 0

Fault == faults < MaxFaults /\ faults' = faults + 1
Tap == commands < MaxCommands /\ commands' = commands + 1

-----------------------------------------------------------------------------
(* The service in its own process.                                         *)

\* stopMe's claim on a running session, and the teardown that follows; its
\* last call, stopSelf, is the caller's startRequested'.
stopMe ==
  /\ running' = FALSE
  /\ up' = FALSE
  /\ broadcasts' = IF running THEN broadcasts + 1 ELSE broadcasts

\* onStartCommand of a start intent; while running it is ignored.
StartCommand ==
  /\ alive /\ intents # <<>> /\ Head(intents) = "start"
  /\ intents' = Tail(intents)
  /\ running' = TRUE
  /\ UNCHANGED <<up, alive, startRequested, broadcasts, binding, flows, sync,
                 restart, last, commands, faults>>

\* Mutant of StopCommand: stopSelf only where stopMe stopped a session.
StopCommandKeepsStarted ==
  /\ alive /\ intents # <<>> /\ Head(intents) = "stop"
  /\ intents' = Tail(intents)
  /\ stopMe
  /\ startRequested' = (startRequested /\ ~running)
  /\ UNCHANGED <<alive, binding, flows, sync, restart, last, commands, faults>>

\* onStartCommand of the ordered stop: stopMe, then stopSelf in any case.
StopCommand ==
  /\ alive /\ intents # <<>> /\ Head(intents) = "stop"
  /\ intents' = Tail(intents)
  /\ stopMe
  /\ startRequested' = FALSE
  /\ UNCHANGED <<alive, binding, flows, sync, restart, last, commands, faults>>

\* The tunnel is up and the proxy verified: applyIpInfo.
Verified ==
  /\ running /\ ~up
  /\ up' = TRUE
  /\ broadcasts' = broadcasts + 1
  /\ UNCHANGED <<running, alive, startRequested, intents, binding, flows, sync,
                 restart, last, commands, faults>>

\* Any other end of a session: a probe condemned the proxy, configure()
\* failed, tun2socks exited, the permission was revoked, the screen went off,
\* or the notification or the bubble asked for it.
OtherStop ==
  /\ running /\ Fault
  /\ stopMe
  /\ startRequested' = FALSE
  /\ UNCHANGED <<alive, intents, binding, flows, sync, restart, last, commands>>

\* The system takes a start intent.
SendStart ==
  /\ intents' = Append(intents, "start")
  /\ startRequested' = TRUE
  /\ last' = "start"

\* A start by the bubble or at boot.
OtherStart ==
  /\ Fault
  /\ SendStart
  /\ UNCHANGED <<service, alive, broadcasts, binding, flows, sync, restart,
                 commands>>

\* The :vpn process dies; the system keeps the intents it has not finished.
Kill ==
  /\ alive /\ Fault
  /\ alive' = FALSE
  /\ running' = FALSE /\ up' = FALSE
  /\ link' = IF link = "up" THEN "lost" ELSE link
  /\ UNCHANGED <<startRequested, intents, broadcasts, bound, rebinding,
                 rebindRunnable, flows, sync, restart, last, commands>>

\* The system creates the process for a start or a binding.  START_STICKY: a
\* service still started gets a null intent, taken as a start of the saved
\* profile.
Revive ==
  /\ ~alive
  /\ startRequested \/ link = "binding"
  /\ alive' = TRUE
  /\ intents' = IF startRequested /\ intents = <<>> THEN <<"start">> ELSE intents
  /\ UNCHANGED <<service, startRequested, broadcasts, binding, flows, sync,
                 restart, last, commands, faults>>

-----------------------------------------------------------------------------
(* The binding.                                                            *)

\* Mutant of scheduleRebind: a failed bind is not tried again.
scheduleRebindOnce ==
  \/ /\ link' = "binding" /\ rebinding' = TRUE /\ rebindRunnable' = "watchdog"
     /\ UNCHANGED faults
  \/ /\ Fault
     /\ link' = "down" /\ rebinding' = FALSE /\ rebindRunnable' = "none"

\* bindService is accepted and a watchdog armed, or it fails and is retried.
\* Its callers have set rebinding to FALSE, so its guard lets them through.
scheduleRebind ==
  \/ /\ link' = "binding" /\ rebinding' = TRUE /\ rebindRunnable' = "watchdog"
     /\ UNCHANGED faults
  \/ /\ Fault
     /\ link' = "down" /\ rebinding' = FALSE /\ rebindRunnable' = "retry"

\* A coroutine enters syncState.
Launch(s) ==
  /\ sync[s] = Idle
  /\ sync' = [sync EXCEPT ![s] = Sync("read", FALSE, FALSE)]

onServiceConnected ==
  /\ link = "binding" /\ alive
  /\ link' = "up" /\ bound' = TRUE
  /\ rebinding' = FALSE /\ rebindRunnable' = "none"
  /\ \E s \in Syncs \ {"poll"} : Launch(s)
  /\ UNCHANGED <<service, system, flows, restart, last, commands, faults>>

\* Also onBindingDied, whose body is the same.
onServiceDisconnected ==
  /\ link = "lost"
  /\ bound' = FALSE
  /\ scheduleRebind
  /\ UNCHANGED <<service, system, flows, sync, restart, last, commands>>

\* The callback pending on rebindHandler runs.
RunRebind ==
  /\ rebindRunnable # "none" /\ ~bound
  /\ scheduleRebind
  /\ UNCHANGED <<service, system, bound, flows, sync, restart, last, commands>>

-----------------------------------------------------------------------------
(* Following the service's state.                                          *)

\* One round of startPolling; without a binder it is clearState.
Poll ==
  /\ sync["poll"] = Idle
  /\ IF bound
     THEN Launch("poll") /\ UNCHANGED flows
     ELSE isRunning' = FALSE /\ isConnected' = FALSE /\ UNCHANGED sync
  /\ UNCHANGED <<service, system, binding, restart, last, commands, faults>>

\* stateReceiver.onReceive.
onReceive ==
  /\ broadcasts > 0
  /\ broadcasts' = broadcasts - 1
  /\ \E s \in Syncs \ {"poll"} : Launch(s)
  /\ UNCHANGED <<service, alive, startRequested, intents, binding, flows,
                 restart, last, commands, faults>>

\* The getState() call of syncState, on Dispatchers.IO; a dead process makes
\* it throw, which is caught by clearState.
SyncRead(s) ==
  /\ sync[s].at = "read"
  /\ \/ /\ ~bound
        /\ sync' = [sync EXCEPT ![s] = Idle]
        /\ UNCHANGED flows
     \/ /\ bound /\ link = "lost"
        /\ sync' = [sync EXCEPT ![s] = Idle]
        /\ isRunning' = FALSE /\ isConnected' = FALSE
     \/ /\ bound /\ link # "lost"
        /\ sync' = [sync EXCEPT ![s] = Sync("apply", running, running /\ up)]
        /\ UNCHANGED flows
  /\ UNCHANGED <<service, system, binding, restart, last, commands, faults>>

\* syncState publishes what it read, one flow after the other.
SyncApply(s) ==
  /\ sync[s].at = "apply"
  /\ isRunning' = sync[s].running
  /\ sync' = [sync EXCEPT ![s].at = "finish"]
  /\ UNCHANGED <<service, system, binding, isConnected, restart, last, commands,
                 faults>>

\* Mutant of SyncFinish: a session that ended does not reset isConnected.
SyncFinishKeepsConnected(s) ==
  /\ sync[s].at = "finish"
  /\ isConnected' = (isConnected \/ sync[s].connected)
  /\ sync' = [sync EXCEPT ![s] = Idle]
  /\ UNCHANGED <<service, system, binding, isRunning, restart, last, commands,
                 faults>>

SyncFinish(s) ==
  /\ sync[s].at = "finish"
  /\ isConnected' = sync[s].connected
  /\ sync' = [sync EXCEPT ![s] = Idle]
  /\ UNCHANGED <<service, system, binding, isRunning, restart, last, commands,
                 faults>>

-----------------------------------------------------------------------------
(* Requests of the user.  What startVpn and stopVpn publish at once of a   *)
(* request is ConnectButton's subject.                                     *)

\* startVpn with a profile that exists.
startVpn ==
  /\ ~isRunning /\ ~isConnected
  /\ Tap
  /\ SendStart
  /\ UNCHANGED <<service, alive, broadcasts, binding, flows, sync, restart,
                 faults>>

\* The binder call stop(), when there is a binder; a dead process throws.
BinderStop ==
  IF bound /\ link # "lost"
  THEN stopMe
  ELSE UNCHANGED <<service, broadcasts>>

\* Mutant of StopRequest: only the binder is told.
StopRequestBinderOnly ==
  /\ BinderStop
  /\ startRequested' = IF running /\ ~running' THEN FALSE ELSE startRequested
  /\ last' = "stop"
  /\ UNCHANGED intents

\* The body of stopVpn: the binder, then the ordered stop behind any start.
StopRequest ==
  /\ BinderStop
  /\ intents' = Append(intents, "stop")
  /\ startRequested' = TRUE
  /\ last' = "stop"

stopVpn ==
  /\ Tap
  /\ StopRequest
  /\ UNCHANGED <<alive, binding, flows, sync, restart, faults>>

\* restartVpn up to awaitStopped.
restartVpn ==
  /\ isRunning /\ ~restart
  /\ Tap
  /\ BinderStop
  /\ startRequested' = IF running /\ ~running' THEN FALSE ELSE startRequested
  /\ restart' = TRUE
  /\ UNCHANGED <<alive, intents, binding, flows, sync, last, faults>>

\* A country is picked while running: stopVpn, then awaitStopped.
onCountryTap ==
  /\ isRunning /\ ~restart
  /\ Tap
  /\ StopRequest
  /\ restart' = TRUE
  /\ UNCHANGED <<alive, binding, flows, sync, faults>>

\* awaitStopped returns, stopped or after its 5 s, and startVpn follows.
AwaitStopped ==
  /\ restart
  /\ restart' = FALSE
  /\ SendStart
  /\ UNCHANGED <<service, alive, broadcasts, binding, flows, sync, commands,
                 faults>>

-----------------------------------------------------------------------------
ServiceStep == StartCommand \/ StopCommand \/ Revive
BindingStep == onServiceConnected \/ onServiceDisconnected \/ RunRebind
SyncStep(s) == SyncRead(s) \/ SyncApply(s) \/ SyncFinish(s)
Command == startVpn \/ stopVpn \/ restartVpn \/ onCountryTap
Environment == Verified \/ OtherStop \/ OtherStart \/ Kill

Next ==
  \/ ServiceStep \/ BindingStep \/ Poll \/ onReceive \/ AwaitStopped
  \/ \E s \in Syncs : SyncStep(s)
  \/ Command \/ Environment

Spec == Init /\ [][Next]_vars

\* Loopers, the system and the coroutines make progress; nobody has to tap,
\* to fail or to verify.
FairSpec ==
  /\ Spec
  /\ WF_vars(ServiceStep) /\ WF_vars(onServiceDisconnected)
  /\ WF_vars(RunRebind) /\ WF_vars(onServiceConnected)
  /\ WF_vars(Poll) /\ WF_vars(onReceive) /\ WF_vars(AwaitStopped)
  /\ \A s \in Syncs : WF_vars(SyncStep(s))

-----------------------------------------------------------------------------
(* Properties.                                                             *)

\* "The stop intent lands behind the start in the queue, so the service tears
\* down deterministically": when stopVpn was the last request to reach the
\* system and every intent has been handled, nothing runs and nothing will be
\* restarted, whatever was queued, polled or killed in between.
StopWins ==
  last = "stop" /\ intents = <<>> => ~running /\ ~startRequested

\* "Rather than leaving the UI bound=false forever": while the view model has
\* no binder, an accepted bind or a retry is under way.
RebindArmed == ~bound => link = "binding" \/ rebindRunnable # "none"

\* A sticky restart never revives a session by itself: a session runs, or
\* waits to be started, only while somebody's start is the last request or
\* its stop is still queued.
NoSpontaneousStart ==
  running \/ "start" \in {intents[i] : i \in DOMAIN intents} =>
    last = "start" \/ "stop" \in {intents[i] : i \in DOMAIN intents}

\* Snapshots are read and published out of order, but once requests and
\* deaths cease the client is bound and shows what the service is.
Converges ==
  <>[](bound /\ isRunning = running /\ isConnected = (running /\ up))
=============================================================================
