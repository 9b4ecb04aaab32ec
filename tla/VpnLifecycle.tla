---------------------------- MODULE VpnLifecycle ----------------------------
(***************************************************************************)
(* The connect / disconnect core of SocksVpnService: one service instance, *)
(* from onCreate to onDestroy, with everything that runs concurrently      *)
(* inside and around it:                                                   *)
(*   - the main thread, which handles onStartCommand, every stop that is   *)
(*     not a binder call, and the Runnables other threads post to it;      *)
(*   - binder threads, on which the stop() call of a client and onRevoke   *)
(*     run stopMe at any moment, line by line beside the others;           *)
(*   - one start thread, one DNS thread and one tun2socks monitor thread   *)
(*     per connect attempt;                                                *)
(*   - the tun2socks processes, which share one abstract unix socket.      *)
(* An attempt is one onStartCommand that got past its early returns.  The  *)
(* proxy, the profile and the tun interface of an attempt are represented  *)
(* by its number.                                                          *)
(***************************************************************************)
EXTENDS Naturals, Sequences

CONSTANTS MaxAttempts,   \* bound on the connect attempts of one behaviour
          MaxSendfd,     \* bound on the sendfd polls of an attempt (250)
          BinderThreads  \* threads that run stopMe outside the main thread

ASSUME BoundsAssumption == MaxAttempts \in Nat /\ MaxSendfd \in Nat
ASSUME BinderAssumption == "main" \notin BinderThreads

Attempt == 1..MaxAttempts
None == 0
AttemptOrNone == 0..MaxAttempts
Stopper == {"main"} \cup BinderThreads

VARIABLES
  mRunning, mConnectSeq, mSendfdCancelled, mTunnelUp,
  mInterface,         \* attempt whose interface the field holds
  mTun2socksProcess,  \* attempt whose process the field holds
  destroyed,          \* onDestroy has been called on this instance
  latest,             \* number of attempts begun
  connectSeq,         \* generation captured by each attempt
  main,               \* where the main thread is in its handler
  upBy,               \* attempt whose completion postStartOnMain runs for
  stop,               \* where each thread is in stopMe
  seen,               \* mConnectSeq as each thread's ++ read it
  mainQ,              \* Runnables posted to the main thread, oldest first
  tun,                \* attempt whose interface was established last
  fds,                \* interfaces the service has a descriptor of
  thread,             \* start thread of each attempt
  tries,              \* failed sendfd calls of each start thread
  proc, sigterm,      \* tun2socks process of each attempt
  carrier,            \* processes that received each interface
  monitor,            \* tun2socks monitor thread of each attempt
  seqBack, raced      \* history, see Record

flags == <<mRunning, mConnectSeq, mSendfdCancelled, mTunnelUp>>
fields == <<mInterface, mTun2socksProcess>>
instance == <<destroyed, latest, connectSeq>>
looper == <<main, upBy, mainQ>>
stops == <<stop, seen>>
system == <<tun, fds>>
startThreads == <<thread, tries>>
procs == <<proc, sigterm, carrier>>
history == <<seqBack, raced>>
vars == <<flags, fields, instance, looper, stops, system, startThreads,
          procs, monitor, history>>

Message == [kind : {"postStart", "stop", "exited"}, att : Attempt]

TypeOK ==
  /\ mRunning \in BOOLEAN
  /\ mConnectSeq \in Nat
  /\ mSendfdCancelled \in BOOLEAN
  /\ mTunnelUp \in BOOLEAN
  /\ mInterface \in AttemptOrNone
  /\ mTun2socksProcess \in AttemptOrNone
  /\ destroyed \in BOOLEAN
  /\ latest \in AttemptOrNone
  /\ connectSeq \in [Attempt -> Nat]
  /\ main \in {"idle", "seq", "seqWrite", "capture", "configure", "start",
               "postStart"}
  /\ upBy \in AttemptOrNone
  /\ stop \in [Stopper -> {"idle", "cancel", "seq", "seqWrite", "kill",
                           "forget", "close", "clear", "down"}]
  /\ seen \in [Stopper -> Nat]
  /\ mainQ \in Seq(Message)
  /\ tun \in AttemptOrNone
  /\ fds \subseteq Attempt
  /\ thread \in [Attempt -> {"none", "join", "spawn", "spawned",
                             "forget", "poll", "send", "done"}]
  /\ tries \in [Attempt -> 0..MaxSendfd]
  /\ proc \in [Attempt -> {"none", "exec", "listen", "serve", "dead"}]
  /\ sigterm \in [Attempt -> BOOLEAN]
  /\ carrier \in [Attempt -> SUBSET Attempt]
  /\ monitor \in [Attempt -> {"none", "watching", "done"}]
  /\ seqBack \in BOOLEAN
  /\ raced \in BOOLEAN

Init ==
  /\ mRunning = FALSE
  /\ mConnectSeq = 0
  /\ mSendfdCancelled = FALSE
  /\ mTunnelUp = FALSE
  /\ mInterface = None
  /\ mTun2socksProcess = None
  /\ destroyed = FALSE
  /\ latest = 0
  /\ connectSeq = [a \in Attempt |-> 0]
  /\ main = "idle"
  /\ upBy = None
  /\ stop = [s \in Stopper |-> "idle"]
  /\ seen = [s \in Stopper |-> 0]
  /\ mainQ = <<>>
  /\ tun = None
  /\ fds = {}
  /\ thread = [a \in Attempt |-> "none"]
  /\ tries = [a \in Attempt |-> 0]
  /\ proc = [a \in Attempt |-> "none"]
  /\ sigterm = [a \in Attempt |-> FALSE]
  /\ carrier = [a \in Attempt |-> {}]
  /\ monitor = [a \in Attempt |-> "none"]
  /\ seqBack = FALSE
  /\ raced = FALSE

-----------------------------------------------------------------------------
(* stopMe, run by any thread.  Its synchronized block lets one caller      *)
(* through per running attempt; the rest of the body is not synchronized.  *)

\* The synchronized block: mRunning is known to be TRUE.
Claim(s) ==
  /\ mRunning' = FALSE
  /\ stop' = [stop EXCEPT ![s] = "cancel"]

GoTo(s, here, next) ==
  /\ stop[s] = here
  /\ stop' = [stop EXCEPT ![s] = next]

StopCancel(s) ==
  /\ GoTo(s, "cancel", "seq")
  /\ mSendfdCancelled' = TRUE
  /\ UNCHANGED <<mRunning, mConnectSeq, mTunnelUp, fields, instance, looper,
                 seen, system, startThreads, procs, monitor>>

\* mConnectSeq++ is a read and a later write of a volatile field.
StopSeqRead(s) ==
  /\ GoTo(s, "seq", "seqWrite")
  /\ seen' = [seen EXCEPT ![s] = mConnectSeq]
  /\ UNCHANGED <<flags, fields, instance, looper, system, startThreads, procs,
                 monitor>>

StopSeqWrite(s) ==
  /\ GoTo(s, "seqWrite", "kill")
  /\ mConnectSeq' = seen[s] + 1
  /\ seen' = [seen EXCEPT ![s] = 0]
  /\ UNCHANGED <<mRunning, mSendfdCancelled, mTunnelUp, fields, instance,
                 looper, system, startThreads, procs, monitor>>

\* Mutant of StopKill: the process is forgotten without a signal.
StopKillSpares(s) ==
  /\ GoTo(s, "kill", IF mTun2socksProcess = None THEN "close" ELSE "forget")
  /\ UNCHANGED <<flags, fields, instance, looper, seen, system, startThreads,
                 procs, monitor>>

\* mTun2socksProcess?.let: Process.destroy() sends SIGTERM.
StopKill(s) ==
  /\ GoTo(s, "kill", IF mTun2socksProcess = None THEN "close" ELSE "forget")
  /\ sigterm' = [a \in Attempt |-> sigterm[a] \/ a = mTun2socksProcess]
  /\ UNCHANGED <<flags, fields, instance, looper, seen, system, startThreads,
                 proc, carrier, monitor>>

StopForget(s) ==
  /\ GoTo(s, "forget", "close")
  /\ mTun2socksProcess' = None
  /\ UNCHANGED <<flags, mInterface, instance, looper, seen, system,
                 startThreads, procs, monitor>>

\* Mutant of StopClose: the interface is left open.
StopCloseKeepsInterface(s) ==
  /\ GoTo(s, "close", "clear")
  /\ UNCHANGED <<flags, fields, instance, looper, seen, system, startThreads,
                 procs, monitor>>

\* close() gives up the descriptor of the service, and only that one:
\* tun2socks has its own.  (The pdnsd killed before it is not represented:
\* whether one is alive decides nothing here.)
StopClose(s) ==
  /\ GoTo(s, "close", "clear")
  /\ fds' = fds \ {mInterface}
  /\ UNCHANGED <<flags, fields, instance, looper, seen, tun, startThreads,
                 procs, monitor>>

StopClear(s) ==
  /\ GoTo(s, "clear", "down")
  /\ mRunning' = FALSE
  /\ UNCHANGED <<mConnectSeq, mSendfdCancelled, mTunnelUp, fields, instance,
                 looper, seen, system, startThreads, procs, monitor>>

\* Mutant of StopDown: the teardown forgets mTunnelUp.
StopDownKeepsTunnelUp(s) ==
  /\ GoTo(s, "down", "idle")
  /\ UNCHANGED <<flags, fields, instance, looper, seen, system, startThreads,
                 procs, monitor>>

StopDown(s) ==
  /\ GoTo(s, "down", "idle")
  /\ mTunnelUp' = FALSE
  /\ UNCHANGED <<mRunning, mConnectSeq, mSendfdCancelled, fields, instance,
                 looper, seen, system, startThreads, procs, monitor>>

-----------------------------------------------------------------------------
(* The main thread.                                                        *)

MainIdle == main = "idle" /\ stop["main"] = "idle"

\* A start intent; while running it is ignored.
OnStartCommand ==
  /\ MainIdle
  /\ ~destroyed
  /\ ~mRunning
  /\ latest < MaxAttempts
  /\ latest' = latest + 1
  /\ mRunning' = TRUE
  /\ main' = "seq"
  /\ UNCHANGED <<mConnectSeq, mSendfdCancelled, mTunnelUp, fields, destroyed,
                 connectSeq, upBy, mainQ, stops, system, startThreads,
                 procs, monitor>>

StartSeqRead ==
  /\ main = "seq"
  /\ seen' = [seen EXCEPT !["main"] = mConnectSeq]
  /\ main' = "seqWrite"
  /\ UNCHANGED <<flags, fields, instance, upBy, mainQ, stop, system,
                 startThreads, procs, monitor>>

StartSeqWrite ==
  /\ main = "seqWrite"
  /\ mConnectSeq' = seen["main"] + 1
  /\ seen' = [seen EXCEPT !["main"] = 0]
  /\ main' = "capture"
  /\ UNCHANGED <<mRunning, mSendfdCancelled, mTunnelUp, fields, instance, upBy,
                 mainQ, stop, system, startThreads, procs, monitor>>

CaptureSeq ==
  /\ main = "capture"
  /\ connectSeq' = [connectSeq EXCEPT ![latest] = mConnectSeq]
  /\ main' = "configure"
  /\ UNCHANGED <<flags, fields, destroyed, latest, upBy, mainQ, stops, system,
                 startThreads, procs, monitor>>

\* configure(): establish() replaces any interface this app still has up.  The
\* descriptor of an earlier attempt stays open if its stop has yet to close it.
Configure ==
  /\ main = "configure"
  /\ mInterface' = latest
  /\ tun' = latest
  /\ fds' = fds \cup {latest}
  /\ main' = "start"
  /\ UNCHANGED <<flags, mTun2socksProcess, instance, upBy,
                 mainQ, stops, startThreads, procs, monitor>>

\* configure() throws, or establish() returns null: stopMe.
ConfigureFailed ==
  /\ main = "configure"
  /\ mInterface' \in {mInterface, None}
  /\ main' = "idle"
  /\ IF mRunning THEN Claim("main") ELSE UNCHANGED <<mRunning, stop>>
  /\ UNCHANGED <<mConnectSeq, mSendfdCancelled, mTunnelUp, mTun2socksProcess,
                 instance, upBy, mainQ, seen, system, startThreads, procs,
                 monitor>>

\* start(): only its main-thread part; the rest is the start thread.
Start ==
  /\ main = "start"
  /\ mSendfdCancelled' = FALSE
  /\ thread' = [thread EXCEPT ![latest] = "join"]
  /\ main' = "idle"
  /\ UNCHANGED <<mRunning, mConnectSeq, mTunnelUp, fields, instance, upBy,
                 mainQ, stops, system, tries, procs, monitor>>

\* The ordered stop intent, the notification's stop action and the screen-off
\* receiver; when nothing runs they change nothing.
MainStop ==
  /\ MainIdle
  /\ mRunning
  /\ Claim("main")
  /\ UNCHANGED <<mConnectSeq, mSendfdCancelled, mTunnelUp, fields, instance,
                 looper, seen, system, startThreads, procs, monitor>>

\* The binder stop() of a client, and onRevoke.
BinderStop(b) ==
  /\ stop[b] = "idle"
  /\ mRunning
  /\ Claim(b)
  /\ UNCHANGED <<mConnectSeq, mSendfdCancelled, mTunnelUp, fields, instance,
                 looper, seen, system, startThreads, procs, monitor>>

\* An interface is up while some process has a descriptor of it: the service,
\* or a tun2socks that received a duplicate.
InterfaceUp ==
  \/ tun \in fds
  \/ tun # None /\ \E p \in carrier[tun] : proc[p] = "serve"

\* The system destroys the instance once it is stopped and no longer bound;
\* an established interface keeps it bound.  stopMe("on_destroy") skips the
\* early return.
OnDestroy ==
  /\ MainIdle
  /\ ~destroyed
  /\ ~mRunning
  /\ ~InterfaceUp
  /\ destroyed' = TRUE
  /\ stop' = [stop EXCEPT !["main"] = "cancel"]
  /\ UNCHANGED <<flags, fields, latest, connectSeq, looper, seen, system,
                 startThreads, procs, monitor>>

\* Mutant of Stale: the generation is not compared.
StaleIgnoresSeq(a) == ~mRunning \/ mSendfdCancelled

Stale(a) == connectSeq[a] # mConnectSeq \/ ~mRunning \/ mSendfdCancelled

\* The posted `if (...) postStartOnMain()`.
HandlePostStart ==
  /\ MainIdle
  /\ mainQ # <<>>
  /\ Head(mainQ).kind = "postStart"
  /\ mainQ' = Tail(mainQ)
  /\ IF Stale(Head(mainQ).att)
     THEN UNCHANGED <<main, upBy>>
     ELSE main' = "postStart" /\ upBy' = Head(mainQ).att
  /\ UNCHANGED <<flags, fields, instance, stops, system, startThreads,
                 procs, monitor>>

PostStartOnMain ==
  /\ main = "postStart"
  /\ mTunnelUp' = TRUE
  /\ main' = "idle"
  /\ upBy' = None
  /\ UNCHANGED <<mRunning, mConnectSeq, mSendfdCancelled, fields, instance,
                 mainQ, stops, system, startThreads, procs, monitor>>

\* A posted stopMe(...): a start thread gave up, or a monitor saw an exit.
HandleStop ==
  /\ MainIdle
  /\ mainQ # <<>>
  /\ Head(mainQ).kind \in {"stop", "exited"}
  /\ mainQ' = Tail(mainQ)
  /\ IF mRunning THEN Claim("main") ELSE UNCHANGED <<mRunning, stop>>
  /\ UNCHANGED <<mConnectSeq, mSendfdCancelled, mTunnelUp, fields, instance,
                 main, upBy, seen, system, startThreads, procs, monitor>>

-----------------------------------------------------------------------------
(* The start thread of attempt a.                                          *)

Post(kind, a) == mainQ' = Append(mainQ, [kind |-> kind, att |-> a])

\* Start the DNS thread, write the configuration, launch pdnsd; join the DNS
\* thread, which returns when resolved or after its 15 s cap; read the address
\* and pass the first cancel checkpoint or not.
JoinDns(a) ==
  /\ thread[a] = "join"
  /\ thread' = [thread EXCEPT ![a] = IF Stale(a) THEN "done" ELSE "spawn"]
  /\ UNCHANGED <<flags, fields, instance, looper, stops, system, tries,
                 procs, monitor>>

\* pdnsd cannot be launched, or an exception is caught.
LaunchPdnsdFailed(a) ==
  /\ thread[a] = "join"
  /\ thread' = [thread EXCEPT ![a] = "done"]
  /\ Post("stop", a)
  /\ UNCHANGED <<flags, fields, instance, main, upBy, stops, system, tries,
                 procs, monitor>>

SpawnTun2socks(a) ==
  /\ thread[a] = "spawn"
  /\ proc' = [proc EXCEPT ![a] = "exec"]
  /\ mTun2socksProcess' = a
  /\ thread' = [thread EXCEPT ![a] = "spawned"]
  /\ UNCHANGED <<flags, mInterface, instance, looper, stops,
                 system, tries, sigterm, carrier, monitor>>

SpawnFailed(a) ==
  /\ thread[a] = "spawn"
  /\ thread' = [thread EXCEPT ![a] = "done"]
  /\ Post("stop", a)
  /\ UNCHANGED <<flags, fields, instance, main, upBy, stops, system, tries,
                 procs, monitor>>

\* The second cancel checkpoint.
AfterSpawn(a) ==
  /\ thread[a] = "spawned"
  /\ IF Stale(a)
     THEN /\ sigterm' = [sigterm EXCEPT ![a] = TRUE]
          /\ thread' = [thread EXCEPT ![a] = "forget"]
          /\ UNCHANGED monitor
     ELSE /\ monitor' = [monitor EXCEPT ![a] = "watching"]
          /\ thread' = [thread EXCEPT ![a] = "poll"]
          /\ UNCHANGED sigterm
  /\ UNCHANGED <<flags, fields, instance, looper, stops, system, tries, proc,
                 carrier>>

\* The field is cleared whatever process it holds by then.
ForgetSpawned(a) ==
  /\ thread[a] = "forget"
  /\ mTun2socksProcess' = None
  /\ thread' = [thread EXCEPT ![a] = "done"]
  /\ UNCHANGED <<flags, mInterface, instance, looper, stops, system, tries,
                 procs, monitor>>

\* Mutant of PollGuard: an exhausted poll does not stop the attempt.
PollGuardGivesUpSilently(a) ==
  /\ thread[a] = "poll"
  /\ thread' = [thread EXCEPT ![a] =
                  IF ~Stale(a) /\ tries[a] < MaxSendfd THEN "send" ELSE "done"]
  /\ UNCHANGED <<flags, fields, instance, looper, stops, system, tries, procs,
                 monitor>>

\* The condition of the sendfd loop, and what follows the loop.
PollGuard(a) ==
  /\ thread[a] = "poll"
  /\ thread' = [thread EXCEPT ![a] =
                  IF ~Stale(a) /\ tries[a] < MaxSendfd THEN "send" ELSE "done"]
  /\ IF ~Stale(a) /\ tries[a] >= MaxSendfd
     THEN Post("stop", a)
     ELSE UNCHANGED mainQ
  /\ UNCHANGED <<flags, fields, instance, main, upBy, stops, system, tries,
                 procs, monitor>>

\* The files the number of attempt a's descriptor can stand for: once closed it
\* may have been given to another interface or to a file of no interest (None).
Numbered(a) == IF a \in fds THEN {a} ELSE fds \cup {None}

\* System.sendfd: connect to the abstract socket and pass the descriptor to
\* whichever tun2socks listens there.
SendfdOk(a) ==
  /\ thread[a] = "send"
  /\ \E p \in Attempt, d \in Numbered(a) :
       /\ proc[p] = "listen"
       /\ proc' = [proc EXCEPT ![p] = "serve"]
       /\ carrier' = [i \in Attempt |->
                        IF i = d THEN carrier[i] \cup {p} ELSE carrier[i]]
  /\ thread' = [thread EXCEPT ![a] = "done"]
  /\ Post("postStart", a)
  /\ UNCHANGED <<flags, fields, instance, main, upBy, stops, system, tries,
                 sigterm, monitor>>

\* Mutant of SendfdFailed: the result -1 is taken for success.
SendfdFailedPostsStart(a) ==
  /\ thread[a] = "send"
  /\ a \notin fds \/ \A p \in Attempt : proc[p] # "listen"
  /\ thread' = [thread EXCEPT ![a] = "done"]
  /\ Post("postStart", a)
  /\ UNCHANGED <<flags, fields, instance, main, upBy, stops, system, tries,
                 procs, monitor>>

\* Nobody listens, or the descriptor is closed.
SendfdFailed(a) ==
  /\ thread[a] = "send"
  /\ a \notin fds \/ \A p \in Attempt : proc[p] # "listen"
  /\ tries' = [tries EXCEPT ![a] = tries[a] + 1]
  /\ thread' = [thread EXCEPT ![a] = "poll"]
  /\ UNCHANGED <<flags, fields, instance, looper, stops, system, procs,
                 monitor>>

-----------------------------------------------------------------------------
(* The tun2socks process of attempt p and the thread that waits for it.    *)

\* bind() and listen(); bind() fails while another process holds the name.
ProcBind(p) ==
  /\ proc[p] = "exec"
  /\ proc' = [proc EXCEPT ![p] =
                IF \E q \in Attempt : proc[q] = "listen"
                THEN "dead" ELSE "listen"]
  /\ UNCHANGED <<flags, fields, instance, looper, stops, system, startThreads, sigterm, carrier, monitor>>

\* Before its signal handler is installed and while its event loop runs the
\* process ends on SIGTERM, or on an error of its own.  In the accept() loop
\* the handler only fills a pipe nobody reads, and accept() is retried.
ProcExit(p) ==
  /\ proc[p] \in {"exec", "serve"}
  /\ proc' = [proc EXCEPT ![p] = "dead"]
  /\ UNCHANGED <<flags, fields, instance, looper, stops, system, startThreads, sigterm, carrier, monitor>>

\* main() of tun2socks returns 1 on every path, so every exit code is one the
\* monitor takes for a failure.
MonitorExit(a) ==
  /\ monitor[a] = "watching"
  /\ proc[a] = "dead"
  /\ monitor' = [monitor EXCEPT ![a] = "done"]
  /\ IF mRunning THEN Post("exited", a) ELSE UNCHANGED mainQ
  /\ UNCHANGED <<flags, fields, instance, main, upBy, stops, system,
                 startThreads, procs>>

-----------------------------------------------------------------------------
StopStep(s) ==
  \/ StopCancel(s) \/ StopSeqRead(s) \/ StopSeqWrite(s) \/ StopKill(s)
  \/ StopForget(s) \/ StopClose(s) \/ StopClear(s) \/ StopDown(s)

MainStep == StartSeqRead \/ StartSeqWrite \/ CaptureSeq \/ Configure
            \/ ConfigureFailed \/ Start \/ HandlePostStart \/ PostStartOnMain
            \/ HandleStop

Request == OnStartCommand \/ MainStop \/ OnDestroy

ThreadStep(a) ==
  \/ JoinDns(a) \/ LaunchPdnsdFailed(a)
  \/ SpawnTun2socks(a) \/ SpawnFailed(a) \/ AfterSpawn(a) \/ ForgetSpawned(a)
  \/ PollGuard(a) \/ SendfdOk(a) \/ SendfdFailed(a)

ProcStep(a) == ProcBind(a) \/ ProcExit(a) \/ MonitorExit(a)

Step ==
  \/ MainStep \/ Request
  \/ \E s \in Stopper : StopStep(s)
  \/ \E b \in BinderThreads : BinderStop(b)
  \/ \E a \in Attempt : ThreadStep(a) \/ ProcStep(a)

\* What the properties remember of the past: an overlap of two mConnectSeq++
\* took the counter back; a binder thread was in stopMe while the main thread
\* was in onStartCommand or postStartOnMain.
Record ==
  /\ seqBack' = (seqBack \/ mConnectSeq' < mConnectSeq)
  /\ raced' = (raced \/ (main' # "idle" /\ \E b \in BinderThreads :
                                             stop'[b] # "idle"))

Next == Step /\ Record

Spec == Init /\ [][Next]_vars

\* Threads and processes are scheduled; a signalled process that can end does.
Fairness ==
  /\ WF_vars(MainStep /\ Record)
  /\ \A s \in Stopper : WF_vars(StopStep(s) /\ Record)
  /\ \A a \in Attempt :
       /\ WF_vars(ThreadStep(a) /\ Record)
       /\ WF_vars(ProcBind(a) /\ Record)
       /\ WF_vars(sigterm[a] /\ ProcExit(a) /\ Record)
       /\ WF_vars(MonitorExit(a) /\ Record)

FairSpec == Spec /\ Fairness

-----------------------------------------------------------------------------
(* Properties.                                                             *)

Quiet == main = "idle" /\ \A s \in Stopper : stop[s] = "idle"

\* mConnectSeq does what its comment promises as long as no overlap of two of
\* its increments takes it back: however stops on any thread, starts and
\* posted completions interleave, postStartOnMain only ever runs for the
\* attempt whose settings the fields hold, never for one orphaned earlier.
UpIsLatest == ~seqBack /\ main = "postStart" => upBy = latest

\* Attempt a put its process into the field and was cancelled, or may yet be,
\* before the second checkpoint: the field held another's process, or will.
Overwrote(a) == proc[a] # "none" /\ monitor[a] = "none"

\* stopMe leaves nothing behind, on whichever thread it ran: unless it
\* overlapped a start or a completion, a stopped service has closed its
\* descriptors and reports no tunnel, and every tun2socks left, the ones that
\* hold an interface up among them, has been told to end or was made
\* unreachable by another attempt's thread.
StoppedIsDown ==
  Quiet /\ ~raced /\ ~mRunning =>
    /\ fds = {}
    /\ ~mTunnelUp
    /\ \A p \in Attempt :
         thread[p] = "done" /\ proc[p] \in {"exec", "listen", "serve"} =>
           sigterm[p] \/ \E a \in Attempt \ {p} : Overwrote(a)

\* After such a stop the interface really goes away: the tun2socks that holds
\* the last descriptor ends.
InterfaceGoes ==
  (~mRunning /\ InterfaceUp)
    ~> (~InterfaceUp \/ mRunning \/ raced \/ \E a \in Attempt : Overwrote(a))

\* The session clients see through getState() is the one VpnSession promises,
\* up to the first overlap of a binder's stop with a start or a completion.
Session == INSTANCE VpnSession
             WITH running <- mRunning, up <- mRunning /\ mTunnelUp, gen <- latest
SessionSpec ==
  Session!Init
  /\ [][~raced' => [Session!Next]_<<mRunning, mRunning /\ mTunnelUp, latest>>]_vars

\* A tunnel reported up by a running service has the interface of the current
\* attempt, open in the service and handed to some tun2socks.
UpHasCarrier ==
  Quiet /\ ~raced /\ mRunning /\ mTunnelUp =>
    tun = latest /\ latest \in fds /\ carrier[latest] # {}

\* No connect attempt hangs: it comes up or is torn down.
ConnectSettles == (mRunning /\ ~mTunnelUp) ~> (mTunnelUp \/ ~mRunning)

-----------------------------------------------------------------------------
(* Statements of the source's comments that the code does not keep.        *)

\* "Only stop if we haven't already initiated shutdown": the exit of one
\* attempt's tun2socks does not stop another attempt.
MonitorStopsOwnAttempt ==
  [][(mainQ # <<>> /\ Head(mainQ).kind = "exited" /\ mainQ' = Tail(mainQ)
      /\ mRunning /\ ~mRunning') => Head(mainQ).att = latest]_vars

\* "a background start thread orphaned by a cancel-while-connecting can detect
\* it is stale and abort instead of resurrecting the tunnel": no completion of
\* an orphaned attempt is believed.
OrphanStaysDown == main = "postStart" => upBy = latest

\* "Destroy the just-spawned process instead of leaking it": every tun2socks
\* that nobody can reach any more has been told to end.
NoUnreachableProcess ==
  Quiet => \A a \in Attempt :
    proc[a] \in {"exec", "listen", "serve"} /\ thread[a] = "done" =>
      sigterm[a] \/ mTun2socksProcess = a
=============================================================================
