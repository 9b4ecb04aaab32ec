--------------------------- MODULE ConnectButton ----------------------------
(***************************************************************************)
(* What the user sees of a connect request: connectRequested, the error    *)
(* message and the pending profile of VpnViewModel, which the polls, the   *)
(* broadcasts, the VPN-permission dialog and the effects of StatusScreen   *)
(* all write.  The view model is bound throughout; VpnClient has the rest. *)
(***************************************************************************)
EXTENDS Naturals, Sequences

CONSTANTS Syncs,       \* coroutines that can run syncState at a time
          MaxConnects  \* bound on the connect requests

VARIABLES
  running, up, mError,  \* the service: mRunning, verified tunnel, mError
  starts,               \* start intents not yet handled
  broadcasts,           \* state broadcasts on the way: with an error?
  isRunning, isConnected, connectRequested, errorMessage, pendingProfile,
  permission, dialog,   \* the system's VPN permission and its dialog
  sync,                 \* each coroutine in syncState
  timer,                \* StatusScreen's connectStartMs
  shown,                \* the error StatusScreen last composed
  cardError,            \* an error line is under the button
  connects

service == <<running, up, mError>>
flows == <<isRunning, isConnected>>
consent == <<permission, dialog>>
screen == <<timer, shown, cardError>>
vars == <<service, starts, broadcasts, flows, connectRequested, errorMessage,
          pendingProfile, consent, sync, screen, connects>>

NoError == "none"
Error == {NoError, "service", "start", "timeout"}
Idle == [at |-> "idle"]
Snapshot == [running : BOOLEAN, connected : BOOLEAN, error : BOOLEAN]

TypeOK ==
  /\ {running, up, mError, isRunning, isConnected, connectRequested,
      pendingProfile, permission, dialog, cardError} \subseteq BOOLEAN
  /\ starts \in 0..MaxConnects /\ connects \in 0..MaxConnects
  /\ broadcasts \in Seq(BOOLEAN)
  /\ {errorMessage, shown} \subseteq Error
  /\ sync \in [Syncs -> {Idle} \cup [at : {"read"}, extra : BOOLEAN]
                        \cup [at : {"apply"}, extra : BOOLEAN, state : Snapshot]]
  /\ timer \in {"off", "armed", "fired"}

Init ==
  /\ running = FALSE /\ up = FALSE /\ mError = FALSE
  /\ starts = 0 /\ broadcasts = <<>>
  /\ isRunning = FALSE /\ isConnected = FALSE
  /\ connectRequested = FALSE /\ errorMessage = NoError
  /\ pendingProfile = FALSE
  /\ permission \in BOOLEAN /\ dialog = FALSE
  /\ sync = [s \in Syncs |-> Idle]
  /\ timer = "off" /\ shown = NoError /\ cardError = FALSE
  /\ connects = 0

-----------------------------------------------------------------------------
(* The service.                                                            *)

\* onStartCommand; a start is ignored while running.
StartCommand ==
  /\ starts > 0 /\ ~mError
  /\ starts' = starts - 1
  /\ running' = TRUE
  /\ UNCHANGED <<up, mError, broadcasts, flows, connectRequested, errorMessage,
                 pendingProfile, consent, sync, screen, connects>>

\* applyIpInfo.
Verified ==
  /\ running /\ ~up /\ ~mError
  /\ up' = TRUE
  /\ broadcasts' = Append(broadcasts, FALSE)
  /\ UNCHANGED <<running, mError, starts, flows, connectRequested, errorMessage,
                 pendingProfile, consent, sync, screen, connects>>

\* A probe condemns the proxy: mError is set and stopMe follows, whose first
\* part broadcasts the error and whose last part erases it.
Fail ==
  /\ running /\ ~mError
  /\ mError' = TRUE
  /\ UNCHANGED <<running, up, starts, broadcasts, flows, connectRequested,
                 errorMessage, pendingProfile, consent, sync, screen, connects>>

FailStop ==
  /\ running /\ mError
  /\ running' = FALSE /\ up' = FALSE
  /\ broadcasts' = Append(broadcasts, TRUE)
  /\ UNCHANGED <<mError, starts, flows, connectRequested, errorMessage,
                 pendingProfile, consent, sync, screen, connects>>

FailEnd ==
  /\ ~running /\ mError
  /\ mError' = FALSE
  /\ UNCHANGED <<running, up, starts, broadcasts, flows, connectRequested,
                 errorMessage, pendingProfile, consent, sync, screen, connects>>

\* Any other stopMe.
Stop ==
  /\ running /\ ~mError
  /\ running' = FALSE /\ up' = FALSE
  /\ broadcasts' = Append(broadcasts, FALSE)
  /\ UNCHANGED <<mError, starts, flows, connectRequested, errorMessage,
                 pendingProfile, consent, sync, screen, connects>>

-----------------------------------------------------------------------------
(* Polls and broadcasts.                                                   *)

Poll ==
  /\ sync["poll"] = Idle
  /\ sync' = [sync EXCEPT !["poll"] = [at |-> "read", extra |-> FALSE]]
  /\ UNCHANGED <<service, starts, broadcasts, flows, connectRequested,
                 errorMessage, pendingProfile, consent, screen, connects>>

onReceive ==
  /\ broadcasts # <<>>
  /\ broadcasts' = Tail(broadcasts)
  /\ \E s \in Syncs \ {"poll"} :
       /\ sync[s] = Idle
       /\ sync' = [sync EXCEPT ![s] = [at |-> "read", extra |-> Head(broadcasts)]]
  /\ UNCHANGED <<service, starts, flows, connectRequested, errorMessage,
                 pendingProfile, consent, screen, connects>>

SyncRead(s) ==
  /\ sync[s].at = "read"
  /\ sync' = [sync EXCEPT ![s] =
                [at |-> "apply", extra |-> sync[s].extra,
                 state |-> [running |-> running, connected |-> running /\ up,
                            error |-> mError]]]
  /\ UNCHANGED <<service, starts, broadcasts, flows, connectRequested,
                 errorMessage, pendingProfile, consent, screen, connects>>

\* syncState publishes the snapshot: an empty error string erases the message
\* whoever set it.  Then the receiver publishes the error it was sent.
SyncApply(s) ==
  LET state == sync[s].state
  IN /\ sync[s].at = "apply"
     /\ isRunning' = state.running
     /\ isConnected' = state.connected
     /\ connectRequested' = (connectRequested /\ ~state.error /\ ~state.running)
     /\ errorMessage' = IF state.error \/ sync[s].extra THEN "service" ELSE NoError
     /\ sync' = [sync EXCEPT ![s] = Idle]
     /\ UNCHANGED <<service, starts, broadcasts, pendingProfile, consent, screen,
                    connects>>

-----------------------------------------------------------------------------
(* Requests.                                                               *)

isConnecting == (isRunning /\ ~isConnected) \/ (connectRequested /\ ~isRunning)

\* startVpn sends the intent; or there is no such profile or it throws, which
\* leaves the request standing.
startVpn ==
  /\ connectRequested' = TRUE
  /\ \/ errorMessage' = NoError /\ starts' = starts + 1
     \/ errorMessage' = "start" /\ UNCHANGED starts

\* startVpnForSelected and prepareAndStartVpn.
Connect ==
  /\ connects < MaxConnects /\ ~dialog
  /\ cardError \/ ~(isConnecting \/ isConnected)
  /\ connects' = connects + 1
  /\ cardError' = FALSE
  /\ IF permission
     THEN startVpn /\ UNCHANGED <<pendingProfile, dialog>>
     ELSE /\ errorMessage' = NoError
          /\ connectRequested' = TRUE
          /\ pendingProfile' = TRUE
          /\ dialog' = TRUE
          /\ UNCHANGED starts
  /\ UNCHANGED <<service, broadcasts, flows, permission, sync, timer, shown>>

\* onVpnPermissionResult.
Granted ==
  /\ dialog
  /\ dialog' = FALSE /\ permission' = TRUE
  /\ pendingProfile' = FALSE
  /\ IF pendingProfile
     THEN startVpn
     ELSE UNCHANGED <<connectRequested, errorMessage, starts>>
  /\ UNCHANGED <<service, broadcasts, flows, sync, screen, connects>>

cancelConnect == connectRequested' = FALSE /\ pendingProfile' = FALSE

Dismissed ==
  /\ dialog
  /\ dialog' = FALSE
  /\ cancelConnect
  /\ UNCHANGED <<service, starts, broadcasts, flows, errorMessage, permission,
                 sync, screen, connects>>

-----------------------------------------------------------------------------
(* The effects of StatusScreen.                                            *)

\* LaunchedEffect(isConnecting).
ObserveConnecting ==
  /\ timer' = IF ~isConnecting THEN "off"
              ELSE IF timer = "off" THEN "armed" ELSE timer
  /\ timer' # timer
  /\ UNCHANGED <<service, starts, broadcasts, flows, connectRequested,
                 errorMessage, pendingProfile, consent, sync, shown, cardError,
                 connects>>

\* onConnectTimeout, 20 s after the timer was armed, once.  An IP is shown
\* only of a connected session.
onConnectTimeout ==
  /\ timer = "armed"
  /\ timer' = "fired"
  /\ errorMessage' = IF ~isConnected /\ errorMessage = NoError
                     THEN "timeout" ELSE errorMessage
  /\ UNCHANGED <<service, starts, broadcasts, flows, connectRequested,
                 pendingProfile, consent, sync, shown, cardError, connects>>

\* LaunchedEffect(errorMessage): an error that is composed is put on the card
\* and cancels the connect request.
ObserveError ==
  /\ shown # errorMessage
  /\ shown' = errorMessage
  /\ IF errorMessage # NoError
     THEN cardError' = TRUE /\ cancelConnect
     ELSE UNCHANGED <<cardError, connectRequested, pendingProfile>>
  /\ UNCHANGED <<service, starts, broadcasts, flows, errorMessage, consent, sync,
                 timer, connects>>

\* The rest of that effect, 5 s later, unless a new message restarted it.
DismissError ==
  /\ shown # NoError /\ shown = errorMessage
  /\ cardError' = FALSE
  /\ errorMessage' = NoError
  /\ UNCHANGED <<service, starts, broadcasts, flows, connectRequested,
                 pendingProfile, consent, sync, timer, shown, connects>>

-----------------------------------------------------------------------------
Next ==
  \/ StartCommand \/ Verified \/ Fail \/ FailStop \/ FailEnd \/ Stop
  \/ Poll \/ onReceive \/ \E s \in Syncs : SyncRead(s) \/ SyncApply(s)
  \/ Connect \/ Granted \/ Dismissed
  \/ ObserveConnecting \/ onConnectTimeout \/ ObserveError \/ DismissError

Spec == Init /\ [][Next]_vars

-----------------------------------------------------------------------------
(* A statement of the source's comments that the code does not keep.       *)

\* "Permission flow: keep the button on 'Connecting' while the system dialog
\* is up; startVpn() fires once the user grants it": the profile that the
\* dialog is about is still pending while the dialog is up.
GrantStarts == dialog => pendingProfile
=============================================================================
