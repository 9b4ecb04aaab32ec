-------------------------- MODULE VpnClient_proofs --------------------------
(***************************************************************************)
(* Proofs about VpnClient, for any number of coroutines, taps and faults:  *)
(* the binding is repaired, and a stop that reached the system holds.      *)
(***************************************************************************)
EXTENDS VpnClient, TLAPS

-----------------------------------------------------------------------------
(* The binding.                                                            *)

\* A binder is held exactly over a connection that is up or whose loss has yet
\* to be announced, and a bind that failed is to be tried again.
BindingInv ==
  /\ link \in {"binding", "up", "lost", "down"}
  /\ bound <=> link \in {"up", "lost"}
  /\ link = "down" => rebindRunnable # "none"

\* What every step that is not the binding's own does to it.
LEMMA OtherSteps ==
  ASSUME [Next]_vars
  PROVE  BindingStep \/ Kill \/ UNCHANGED binding
<1>1. CASE StartCommand \/ StopCommand \/ Revive
  BY <1>1 DEF StartCommand, StopCommand, Revive
<1>2. CASE Poll \/ onReceive \/ AwaitStopped
  BY <1>2 DEF Poll, onReceive, AwaitStopped
<1>3. CASE \E s \in Syncs : SyncStep(s)
  BY <1>3 DEF SyncStep, SyncRead, SyncApply, SyncFinish
<1>4. CASE Command
  BY <1>4 DEF Command, startVpn, stopVpn, restartVpn, onCountryTap
<1>5. CASE Verified \/ OtherStop \/ OtherStart
  BY <1>5 DEF Verified, OtherStop, OtherStart
<1>6. CASE UNCHANGED vars
  BY <1>6 DEF vars
<1>7. QED
  BY <1>1, <1>2, <1>3, <1>4, <1>5, <1>6 DEF Next, ServiceStep, Environment

\* No callback, retry or death leaves the client unbound with nothing to come.
LEMMA BindingInvStep == BindingInv /\ [Next]_vars => BindingInv'
<1> SUFFICES ASSUME BindingInv, [Next]_vars PROVE BindingInv'
  OBVIOUS
<1>1. CASE onServiceConnected
  BY <1>1 DEF BindingInv, onServiceConnected
<1>2. CASE onServiceDisconnected
  BY <1>2 DEF BindingInv, onServiceDisconnected, scheduleRebind
<1>3. CASE RunRebind
  BY <1>3 DEF BindingInv, RunRebind, scheduleRebind
<1>4. CASE Kill
  BY <1>4 DEF BindingInv, Kill
<1>5. CASE UNCHANGED binding
  BY <1>5 DEF BindingInv, binding
<1>6. QED
  BY <1>1, <1>2, <1>3, <1>4, <1>5, OtherSteps DEF BindingStep

\* Whatever kills and failed binds come, the view model never waits for a
\* binder that nothing will bring: a bind is accepted or a retry is posted
\* (scheduleRebind, onServiceDisconnected, onBindingDied).
THEOREM RebindArmedAlways == Spec => []RebindArmed
<1>1. Init => BindingInv
  BY DEF Init, BindingInv
<1>2. BindingInv => RebindArmed
  BY DEF BindingInv, RebindArmed
<1>3. QED BY <1>1, <1>2, BindingInvStep, PTL DEF Spec
-----------------------------------------------------------------------------
(* Requests.                                                               *)

\* The request that came last is also last in the queue, or has had its effect:
\* behind a stop there is nothing but its own outcome, and before the first
\* request there is nothing at all.
QueueInv ==
  /\ intents \in Seq({"start", "stop"})
  /\ last \in {"none", "start", "stop"}
  /\ last = "none" => intents = <<>>
  /\ last # "start" /\ intents = <<>> => ~running /\ ~startRequested
  /\ last = "stop" /\ intents # <<>> => intents[Len(intents)] = "stop"

\* The steps that leave the queue and the last request alone never start a
\* session nor ask for one.
Quiet == /\ UNCHANGED <<intents, last>>
         /\ running' => running
         /\ startRequested' => startRequested

\* All but requests and the handling of intents are of that kind.
LEMMA QuietSteps ==
  ASSUME [Next]_vars
  PROVE  \/ StartCommand \/ StopCommand \/ Revive \/ OtherStart \/ AwaitStopped
         \/ startVpn \/ stopVpn \/ onCountryTap
         \/ Quiet
<1>1. CASE BindingStep
  BY <1>1 DEF BindingStep, onServiceConnected, onServiceDisconnected, RunRebind,
     Quiet, service, system
<1>2. CASE Poll \/ onReceive
  BY <1>2 DEF Poll, onReceive, Quiet, service, system
<1>3. CASE \E s \in Syncs : SyncStep(s)
  BY <1>3 DEF SyncStep, SyncRead, SyncApply, SyncFinish, Quiet, service, system
<1>4. CASE restartVpn
  <2>1. UNCHANGED <<intents, last>>
    BY <1>4 DEF restartVpn
  <2>2. running' => running
    BY <1>4 DEF restartVpn, BinderStop, stopMe, service
  <2>3. startRequested' => startRequested
    BY <1>4 DEF restartVpn
  <2>4. QED BY <2>1, <2>2, <2>3 DEF Quiet
<1>5. CASE Verified \/ OtherStop \/ Kill
  BY <1>5 DEF Verified, OtherStop, Kill, stopMe, Quiet
<1>6. CASE UNCHANGED vars
  BY <1>6 DEF vars, service, system, Quiet
<1>7. QED
  BY <1>1, <1>2, <1>3, <1>4, <1>5, <1>6 DEF Next, ServiceStep, Environment, Command

\* No step puts a start behind the last stop.
LEMMA QueueInvStep == QueueInv /\ [Next]_vars => QueueInv'
<1> SUFFICES ASSUME QueueInv, [Next]_vars PROVE QueueInv'
  OBVIOUS
<1>1. CASE StartCommand
  <2>1. intents' \in Seq({"start", "stop"}) /\ last' = last
    BY <1>1 DEF StartCommand, QueueInv
  <2>2. CASE last = "start"
    BY <2>1, <2>2 DEF QueueInv
  <2>3. CASE last = "stop"
    <3>1. Len(intents) > 1 /\ intents[Len(intents)] = "stop"
      BY <1>1, <2>3 DEF StartCommand, QueueInv
    <3>2. intents' = Tail(intents) /\ intents \in Seq({"start", "stop"})
      BY <1>1 DEF StartCommand, QueueInv
    <3>3. Len(intents') = Len(intents) - 1
      BY <3>1, <3>2
    <3>4. intents'[Len(intents')] = "stop"
      BY <3>1, <3>2, <3>3
    <3>5. QED BY <2>1, <2>3, <3>1, <3>3, <3>4 DEF QueueInv
  <2>4. last \in {"start", "stop"}
    BY <1>1 DEF StartCommand, QueueInv
  <2>5. QED BY <2>2, <2>3, <2>4
<1>2. CASE StopCommand
  <2>1. intents' \in Seq({"start", "stop"}) /\ last' = last
    BY <1>2 DEF StopCommand, QueueInv
  <2>2. ~running' /\ ~startRequested'
    BY <1>2 DEF StopCommand, stopMe
  <2>3. last # "none"
    BY <1>2 DEF StopCommand, QueueInv
  <2>4. ASSUME last = "stop", intents' # <<>>
        PROVE  intents'[Len(intents')] = "stop"
    BY <1>2, <2>4 DEF StopCommand, QueueInv
  <2>5. QED BY <2>1, <2>2, <2>3, <2>4 DEF QueueInv
<1>3. CASE Revive
  <2>1. last' = last /\ running' = running /\ startRequested' = startRequested
    BY <1>3 DEF Revive, service
  <2>2. CASE startRequested /\ intents = <<>>
    <3>1. intents' = <<"start">> /\ last = "start"
      BY <1>3, <2>2 DEF Revive, QueueInv
    <3>2. QED BY <2>1, <3>1 DEF QueueInv
  <2>3. CASE ~(startRequested /\ intents = <<>>)
    <3>1. intents' = intents
      BY <1>3, <2>3 DEF Revive
    <3>2. QED BY <2>1, <3>1 DEF QueueInv
  <2>4. QED BY <2>2, <2>3
<1>4. CASE OtherStart \/ AwaitStopped \/ startVpn
  <2>1. intents' = Append(intents, "start") /\ last' = "start"
    BY <1>4 DEF OtherStart, AwaitStopped, startVpn, SendStart
  <2>2. QED BY <2>1 DEF QueueInv
<1>5. CASE stopVpn \/ onCountryTap
  <2>1. intents' = Append(intents, "stop") /\ last' = "stop"
    BY <1>5 DEF stopVpn, onCountryTap, StopRequest
  <2>2. QED BY <2>1 DEF QueueInv
<1>6. CASE Quiet
  BY <1>6 DEF Quiet, QueueInv
<1>7. QED
  BY <1>1, <1>2, <1>3, <1>4, <1>5, <1>6, QuietSteps

\* Nothing runs before the first request.
LEMMA QueueInvInit == Init => QueueInv
  BY DEF Init, QueueInv

\* After a stop that was the last request, once the queue is handled nothing
\* runs and the system will restart nothing, whatever was killed, bound, polled
\* or restarted meanwhile (stopVpn, ACTION_STOP in onStartCommand).
THEOREM StopWinsAlways == Spec => []StopWins
<1>1. QueueInv => StopWins
  BY DEF QueueInv, StopWins
<1>2. QED BY <1>1, QueueInvInit, QueueInvStep, PTL DEF Spec

\* No sticky restart revives a session by itself: what runs or waits to be
\* started was asked for by the last request, or a queued stop will end it.
THEOREM NoSpontaneousStartAlways == Spec => []NoSpontaneousStart
<1>1. ASSUME QueueInv PROVE NoSpontaneousStart
  <2>1. CASE last = "start"
    BY <2>1 DEF NoSpontaneousStart
  <2>2. CASE intents = <<>>
    BY <1>1, <2>2 DEF NoSpontaneousStart, QueueInv
  <2>3. CASE last = "stop" /\ intents # <<>>
    <3>1. Len(intents) \in DOMAIN intents /\ intents[Len(intents)] = "stop"
      BY <1>1, <2>3 DEF QueueInv
    <3>2. QED BY <3>1 DEF NoSpontaneousStart
  <2>4. QED BY <1>1, <2>1, <2>2, <2>3 DEF QueueInv
<1>2. QED BY <1>1, QueueInvInit, QueueInvStep, PTL DEF Spec
-----------------------------------------------------------------------------
(* Types.                                                                  *)

SyncStates == [at : {"idle", "read", "apply", "finish"},
               running : BOOLEAN, connected : BOOLEAN]

\* What the requests, the faults and the service keep within their types.
LEMMA TypeStep == TypeOK /\ QueueInv' /\ BindingInv' /\ [Next]_vars => TypeOK'
<1> SUFFICES ASSUME TypeOK, QueueInv', BindingInv', [Next]_vars PROVE TypeOK'
  OBVIOUS
<1> DEFINE Booleans == /\ running' \in BOOLEAN /\ up' \in BOOLEAN
                       /\ alive' \in BOOLEAN /\ startRequested' \in BOOLEAN
                       /\ bound' \in BOOLEAN /\ rebinding' \in BOOLEAN
                       /\ isRunning' \in BOOLEAN /\ isConnected' \in BOOLEAN
                       /\ restart' \in BOOLEAN
           Counts == /\ broadcasts' \in Nat
                     /\ commands' \in 0..MaxCommands /\ faults' \in 0..MaxFaults
           Rest == /\ rebindRunnable' \in {"none", "retry", "watchdog"}
                   /\ sync' \in [Syncs -> SyncStates]
<1>1. SUFFICES Booleans /\ Counts /\ Rest
  BY DEF TypeOK, QueueInv, BindingInv, SyncStates
<1>2. /\ running \in BOOLEAN /\ up \in BOOLEAN /\ alive \in BOOLEAN
      /\ startRequested \in BOOLEAN /\ bound \in BOOLEAN /\ rebinding \in BOOLEAN
      /\ isRunning \in BOOLEAN /\ isConnected \in BOOLEAN /\ restart \in BOOLEAN
  BY DEF TypeOK
<1>3. /\ broadcasts \in Nat /\ commands \in 0..MaxCommands /\ faults \in 0..MaxFaults
      /\ MaxCommands \in Nat /\ MaxFaults \in Nat
  BY ClientAssumption DEF TypeOK
<1>4. /\ rebindRunnable \in {"none", "retry", "watchdog"}
      /\ sync \in [Syncs -> SyncStates]
  BY DEF TypeOK, SyncStates
<1>f. Fault => faults' \in 0..MaxFaults
  BY <1>3 DEF Fault
<1>t. Tap => commands' \in 0..MaxCommands
  BY <1>3 DEF Tap
<1>5. ASSUME stopMe
      PROVE  running' \in BOOLEAN /\ up' \in BOOLEAN /\ broadcasts' \in Nat
  <2>1. running' \in BOOLEAN /\ up' \in BOOLEAN
    BY <1>5, Zenon DEF stopMe
  <2>2. broadcasts' \in Nat
    BY <1>3, <1>5 DEF stopMe
  <2>3. QED BY <2>1, <2>2
<1>6. ASSUME BinderStop
      PROVE  running' \in BOOLEAN /\ up' \in BOOLEAN /\ broadcasts' \in Nat
  BY <1>2, <1>3, <1>5, <1>6 DEF BinderStop, service
<1>7. ASSUME scheduleRebind
      PROVE  /\ rebinding' \in BOOLEAN /\ faults' \in 0..MaxFaults
             /\ rebindRunnable' \in {"none", "retry", "watchdog"}
  <2>1. rebinding' \in BOOLEAN
    BY <1>7, Zenon DEF scheduleRebind
  <2>2. faults' \in 0..MaxFaults
    BY <1>3, <1>7, <1>f DEF scheduleRebind
  <2>3. rebindRunnable' \in {"none", "retry", "watchdog"}
    BY <1>7 DEF scheduleRebind
  <2>4. QED BY <2>1, <2>2, <2>3
<1>8. ASSUME NEW s \in Syncs, Launch(s)
      PROVE  sync' \in [Syncs -> SyncStates]
  BY <1>4, <1>8 DEF Launch, Sync, SyncStates
<1>9. Idle \in SyncStates
  BY DEF Idle, Sync, SyncStates
<1>10. CASE StartCommand \/ Verified \/ Revive
  <2>1. Booleans
    BY <1>2, <1>10, Zenon DEF StartCommand, Verified, Revive, service, binding, flows
  <2>2. Counts /\ Rest
    BY <1>3, <1>4, <1>10 DEF StartCommand, Verified, Revive, binding
  <2>3. QED BY <2>1, <2>2
<1>11. CASE StopCommand
  BY <1>2, <1>3, <1>4, <1>5, <1>11 DEF StopCommand, binding, flows
<1>12. CASE OtherStop
  <2>1. startRequested' \in BOOLEAN
    BY <1>12, Zenon DEF OtherStop
  <2>2. QED
    BY <1>2, <1>3, <1>4, <1>5, <1>f, <1>12, <2>1 DEF OtherStop, binding, flows
<1>13. CASE Kill
  <2>1. Booleans
    BY <1>2, <1>13, Zenon DEF Kill, flows
  <2>2. Counts /\ Rest
    BY <1>3, <1>4, <1>f, <1>13 DEF Kill
  <2>3. QED BY <2>1, <2>2
<1>14. CASE OtherStart
  BY <1>2, <1>3, <1>4, <1>f, <1>14 DEF OtherStart, SendStart, service, binding, flows
<1>15. CASE startVpn \/ AwaitStopped
  <2>1. Booleans
    BY <1>2, <1>15, Zenon DEF startVpn, AwaitStopped, SendStart, service, binding, flows
  <2>2. Counts /\ Rest
    BY <1>3, <1>4, <1>t, <1>15 DEF startVpn, AwaitStopped, binding
  <2>3. QED BY <2>1, <2>2
<1>16. CASE stopVpn \/ onCountryTap
  <2>1. startRequested' \in BOOLEAN /\ restart' \in BOOLEAN
    BY <1>2, <1>16, Zenon DEF stopVpn, onCountryTap, StopRequest
  <2>2. BinderStop
    BY <1>16 DEF stopVpn, onCountryTap, StopRequest
  <2>3. QED
    BY <1>2, <1>3, <1>4, <1>6, <1>t, <1>16, <2>1, <2>2
       DEF stopVpn, onCountryTap, binding, flows
<1>17. CASE restartVpn
  <2>1. startRequested' \in BOOLEAN
    BY <1>2, <1>17 DEF restartVpn
  <2>2. restart' \in BOOLEAN
    BY <1>17, Zenon DEF restartVpn
  <2>3. QED
    BY <1>2, <1>3, <1>4, <1>6, <1>t, <1>17, <2>1, <2>2 DEF restartVpn, binding, flows
<1>18. CASE onServiceConnected
  BY <1>2, <1>3, <1>4, <1>8, <1>18 DEF onServiceConnected, service, system, flows
<1>19. CASE onServiceDisconnected \/ RunRebind
  BY <1>2, <1>3, <1>4, <1>7, <1>19
     DEF onServiceDisconnected, RunRebind, service, system, flows
<1>20. CASE Poll
  BY <1>2, <1>3, <1>4, <1>8, <1>20, ClientAssumption
     DEF Poll, service, system, binding, flows
<1>21. CASE onReceive
  BY <1>2, <1>3, <1>4, <1>8, <1>21 DEF onReceive, service, binding, flows
<1>22. ASSUME NEW s \in Syncs, SyncRead(s)
       PROVE  Booleans /\ Counts /\ Rest
  <2>1. (running /\ up) \in BOOLEAN
    OBVIOUS
  <2>2. Sync("apply", running, running /\ up) \in SyncStates
    BY <1>2, <2>1 DEF Sync, SyncStates
  <2>3. Rest
    BY <1>4, <1>9, <1>22, <2>2 DEF SyncRead, binding
  <2>4. QED
    BY <1>2, <1>3, <1>22, <2>3 DEF SyncRead, service, system, binding, flows
<1>23. ASSUME NEW s \in Syncs, SyncApply(s) \/ SyncFinish(s)
       PROVE  Booleans /\ Counts /\ Rest
  <2>1. sync[s].running \in BOOLEAN /\ sync[s].connected \in BOOLEAN
    BY <1>4 DEF SyncStates
  <2>2. Rest
    BY <1>4, <1>9, <1>23 DEF SyncApply, SyncFinish, SyncStates, binding
  <2>3. QED
    BY <1>2, <1>3, <1>23, <2>1, <2>2
       DEF SyncApply, SyncFinish, service, system, binding
<1>24. CASE UNCHANGED vars
  BY <1>2, <1>3, <1>4, <1>24 DEF vars, service, system, binding, flows
<1>25. QED
  BY <1>10, <1>11, <1>12, <1>13, <1>14, <1>15, <1>16, <1>17, <1>18, <1>19, <1>20,
     <1>21, <1>22, <1>23, <1>24
     DEF Next, ServiceStep, BindingStep, SyncStep, Command, Environment

\* Every variable of the client keeps its type, and a binder is held exactly
\* over a connection that is up or whose loss has yet to be announced.
THEOREM ClientTypeCorrect == Spec => []TypeOK
<1>1. ASSUME Init PROVE TypeOK
  <2>1. bound <=> link \in {"up", "lost"}
    BY <1>1 DEF Init
  <2>2. {running, up, alive, startRequested, bound, rebinding, isRunning,
         isConnected, restart} \subseteq BOOLEAN
    <3>1. \A x \in {running, up, alive, startRequested, bound, rebinding, isRunning,
                    isConnected, restart} : x = FALSE
      BY <1>1 DEF Init
    <3>2. QED BY <3>1
  <2>3. Idle \in SyncStates
    BY DEF Idle, Sync, SyncStates
  <2>4. sync \in [Syncs -> SyncStates]
    BY <1>1, <2>3 DEF Init
  <2>5. QED
    BY <1>1, <2>1, <2>2, <2>4, ClientAssumption DEF Init, TypeOK, SyncStates
<1>2. Init => BindingInv
  BY DEF Init, BindingInv
<1>3. QED
  BY <1>1, <1>2, BindingInvStep, QueueInvInit, QueueInvStep, TypeStep, PTL DEF Spec
=============================================================================
