# KiloApp in TLA+

KiloApp is an Android application: a SOCKS5 VPN client built around
`SocksVpnService`, with a sheet editor, an SMS-code watcher and an updater
beside it. This directory models the VPN from the connect button down to the
native processes that carry the traffic, checks the models with TLC on small
instances and proves the main results with TLAPS for every value of the
constants. Paths below are relative to
`src/app/src/main/java/net/typeblog/socks/` unless they begin with `jni/`
(`src/app/src/main/jni/`).

## 1. Inventory

### Processes and threads

    UI process                        :vpn process
    ----------                        ------------
    Compose screens                   main thread: onStartCommand, stopMe,
    VpnViewModel  --- AIDL binder -->   postStartOnMain, stats and IP-check
      (1 s polling, rebind)             runnables, receivers
    FloatingControlService            binder threads: stop(), onRevoke
      --- start/stop intents ------>  start / DNS / monitor thread per attempt
                  <-- broadcasts ---  IP-check executor, health-gate thread
    SheetStore, SheetBackup,              |  exec            |  exec
    DriveSync, SmsWatcher,            tun2socks process   pdnsd daemon
    UpdateChecker                         ^ descriptor over an abstract socket

### Components

| Component | State it keeps | Operations | What is hard | Correct when |
|---|---|---|---|---|
| **VPN connect lifecycle** (`SocksVpnService.kt`, `jni/system.cpp`) | `mRunning`, `mConnectSeq`, `mSendfdCancelled`, `mTunnelUp`, `mInterface`, process handles | `onStartCommand`, `configure`, `start`, `postStartOnMain`, `stopMe`, `onDestroy` | stops on binder threads, stale start threads, posted completions, exits of old processes | only the newest attempt comes up; a stop leaves nothing up; an attempt never hangs; clients see a simple session |
| **Proxy health checks, exit-IP cache** (`SocksVpnService.kt`, `util/SocksTester.kt`, `util/Utility.kt`) | `mProbeInFlight`, two strike counters, `mPendingIpInfo`, `mCurrentIp`, `accel_ip.json` | `mIpCheckRunnable`, raced probe, health gate, `applyIpInfo`, screen receivers | results arriving after a stop and restart, Doze, a loop that lives on its own reposts | one dropped greeting never ends a session; a dead proxy always does; a teardown leaves nothing on show; the loop never dies |
| **Usage counters** (`SocksVpnService.kt`, `util/Utility.kt`) | base, session and loaded totals, preferences per profile | `mStatsRunnable`, load, persist, reset in `stopMe` | kills between saves, stops on another thread, the kernel counter picked anew at each sample | nothing counted twice, nothing lost while up |
| **VPN client** (`ui/viewmodel/VpnViewModel.kt`, `ui/screens/StatusScreen.kt`) | the published flows, the binder, rebind callback, pending profile, connect timer | start, stop, restart, country switch, rebind, poll, broadcast, permission dialog, timeout | intents, binder calls, snapshots and timers in any order; the `:vpn` process dying | a stop wins over what was queued; a lost binder comes back; the screen converges to the session |
| **tun2socks, TCP** (`jni/badvpn/tun2socks/tun2socks.c`, `socksclient/`, lwIP) | `struct tcp_client`: two buffers, two closing flags, the SOCKS handshake | accept, receive, sent, error, SOCKS up and down, abort | callbacks that run queued jobs inside themselves; either side ending first; answers in pieces | no byte lost at an orderly end, no stall, no leak, no dead connection handed back |
| **tun2socks, UDP gateway** (`jni/badvpn/udpgw_client/`, `tun2socks/SocksUdpGwClient.c`, `udpgw/udpgw.c`) | conids, buffers, reconnect timer; the gateway's sockets | submit, reuse, rebind, reconnect, close | a first packet read after its handler returned; conids reused while answers are under way | an answer reaches its socket; both ends agree; the gateway comes back |
| **pdnsd** (`jni/pdnsd/src/`) | cache, purge list, size accounts, readers-writer lock, thread counters, cache file | query, add, purge, save, restore, exit | queries of different ages, lock hand-over, exit while threads work | accounts exact, oldest evicted first, restart restores, no thread sleeps on a free lock |
| tun2socks and pdnsd as processes | abstract socket, tun descriptor, pid | bind, accept, receive the descriptor, serve, exit | all attempts share one socket name and one DNS port; signals while waiting in `accept` | one receiver for a descriptor; a signalled process ends |
| Server address, DNS cache | `mResolvedServer`, `accel_dns.json` | resolver thread with a 15 s join | a late answer of an old attempt | an attempt connects to its own server |
| SOCKS5 tester | one socket | handshake, five verdicts | short reads, domain-typed replies | a fragmented answer is still understood |
| Profiles (`util/ProfileManager.kt`) | list and default in preferences | add, rename, remove, switch | one cache per process | the default always exists |
| Sheet store (`util/sheet/`) | rows, undo and redo stacks, check results | edit, paste, undo, redo, check | results applied to rows that moved; 20-step limit | undo then redo is the identity; a result lands on its row |
| Sheet backup, Drive | mirrors, snapshots, pending job | debounced backup, rotation, restore, push | restore against a pending backup; partial failures | a good copy always survives |
| SMS watch (`util/SmsWatcher.kt`) | numbers with expiry, sweep, heartbeat | provision, poll, apply code | code against expiry; alarm armed before the number is listed | a waiting number is always polled |
| Updater, bubble, screens, boot receiver | download file; windows | resume, install; gestures | resumed file of another version | - |

`PROJECT.json` lists every component with its sources and status, and the
hazards of the modelled parts at the line where they bite. Section 6 has the
hazards that no property covers.

## 2. Plan

Most important behaviour first. Done: items 1 to 8.

1. `VpnSession`, `VpnLifecycle`: the connect lifecycle and its abstract session.
2. `IpCheck`: health checks and the exit-IP cache.
3. `UsageStats`: the usage counters over kills and over stops on any thread.
4. `SocksClient`, `TcpClient`: a TCP flow through tun2socks.
5. `UdpGw`: UDP through tun2socks and the gateway.
6. `RWLock`, `CacheLock`, `DnsServer`: pdnsd's threads and its lock, which is
   shown to implement an abstract one.
7. `DnsCache`: pdnsd's cache, its purging and its file.
8. `VpnClient`, `ConnectButton`: the view model over the abstract session.
9. The resolver thread and `accel_dns`; the sheet and its backup; the SMS watch.
   None of them takes part in carrying traffic.

Proved: every safety invariant, action property and refinement the passing runs check,
and the type invariants of the modules proved about (section 5). What is left to TLC
is liveness.

## 3. Modules

| Module | Contents |
|---|---|
| `VpnSession` | What `IVpnService.getState()` promises: off, connecting, up |
| `VpnLifecycle` | The service, its threads and the tun2socks processes; refines `VpnSession` |
| `MCVpnLifecycle` | Instances with and without a binder thread |
| `VpnLifecycle_proofs` | Theorems of the lifecycle |
| `IpCheck`, `MCIpCheck`, `IpCheck_proofs` | Health checks, instances, theorems |
| `UsageStats`, `MCUsageStats`, `UsageStats_proofs` | Usage counters, instances, theorems |
| `SocksClient` | The SOCKS5 client of tun2socks as a parser of a byte stream |
| `TcpClient`, `MCTcpClient`, `TcpClient_proofs` | One TCP flow: lwIP connection, `struct tcp_client`, `SocksClient` (extends it); theorems of both |
| `UdpGw`, `MCUdpGw`, `UdpGw_proofs` | The UDP gateway: client, SOCKS connection, server |
| `RWLock` | What pdnsd's cache lock promises |
| `CacheLock` | The lock as pdnsd implements it; refines `RWLock` |
| `DnsServer`, `MCDnsServer`, `DnsServer_proofs` | pdnsd's threads over `CacheLock` (extends it); theorems of both |
| `DnsCache`, `MCDnsCache`, `DnsCache_proofs` | pdnsd's cache and the queries that use it |
| `VpnClient`, `MCVpnClient`, `VpnClient_proofs` | The view model, the system and the service it drives |
| `ConnectButton`, `MCConnectButton` | A connect request as the user sees it |

Variables keep the names of the fields they model. Variables without an `m`
prefix are threads, processes, queues, files or history. Definitions called
mutants in a comment change one operation the way a plausible mistake would;
no specification uses them, they exist to show that the properties notice.

### VpnLifecycle

One service instance from `onCreate` to `onDestroy`. An *attempt* is one
`onStartCommand` that passed its early returns; its number stands for its
profile, interface and threads. `latest` is the attempt whose settings the
fields hold.

- **Main thread** (`main`): `OnStartCommand`, `StartSeqRead`, `StartSeqWrite`,
  `CaptureSeq`, `Configure` or `ConfigureFailed`, `Start` split one handler where
  another thread can come between; the handler is not preempted by another
  main-thread handler. `HandlePostStart`, `PostStartOnMain`, `HandleStop` take
  posted Runnables from `mainQ` in order.
- **stopMe** (`stop[s]`), on the main thread and on `BinderThreads` (the AIDL
  `stop()`, which is the normal stop, and `onRevoke`): the `synchronized` block
  (`Claim`), then line by line and unsynchronized `StopCancel`, `StopSeqRead`,
  `StopSeqWrite`, `StopKill`, `StopForget`, `StopClose`, `StopClear`, `StopDown`.
- **`mConnectSeq++`** is a read into `seen[s]` and a later write, in
  `onStartCommand` and in `stopMe`. A binder thread that read before a start, or
  before several starts and stops, and writes after them takes the counter back.
- **The interface.** `tun` is the interface established last, `fds` those the
  service has a descriptor of, `carrier[i]` the processes that received a duplicate
  of interface `i`'s descriptor. It is up while any of them has it (`InterfaceUp`):
  `close()` in `stopMe` gives up the service's descriptor only. A number that was
  closed may stand for another file by the time `sendfd` passes it (`Numbered`).
- **Start thread** (`thread[a]`): the join with the resolver, the first
  checkpoint, `pb.start()`, the second checkpoint, the `sendfd` poll. Every
  checkpoint is `Stale(a)`, whose three reads are one step.
- **tun2socks** (`proc[a]`): `exec`, `listen` (bound to the shared name and
  waiting in `accept`), `serve`, `dead`. While listening SIGTERM has no effect:
  the handler writes to a pipe the event loop would read. The **monitor** posts a
  stop when the process dies while `mRunning`.

`seqBack` and `raced` are history: two increments overlapped so that the counter went
back; a binder thread was inside `stopMe` while the main thread was inside
`onStartCommand` or `postStartOnMain`. What the code promises only without such an
overlap is stated with it.

Left out: resolution of the address (only the join is a step), notifications,
wake locks, the packets tun2socks carries, whether a pdnsd is alive (only its failure to
start decides anything here), and the collection of a leaked `ParcelFileDescriptor`.

### IpCheck

`stopMe` is one step on the main thread, where nothing the checks do can come
between its lines except the executor, whose results are posted behind it. On a
binder thread it is taken line by line (`BinderStop`, then the `StopStep`s in the
order of the code). `onStartCommand` and `postStartOnMain` are split where a binder
thread's `stopMe` can come between. `queued` counts the pending posts of
`mIpCheckRunnable` (a run while dozing only reposts itself and is a stutter),
`executor` the tasks of the single-threaded executor, `posted` the Runnables it hands to
the main thread. Tasks and results carry the attempt and proxy they were taken for, so
that the properties can speak of them; the code compares neither except in the health
gate, and neither do the actions.

The raced SOCKS probe gives `ok`, `soft` (`CONNECT_FAILED`,
`UNREACHABLE`) or `hard` (`AUTH_FAILED`, `NOT_SOCKS5`). A proxy in `dead` answers no
probe well and no lookup succeeds through it; a working one may drop a greeting. An exit
IP is represented by the proxy it was observed through. `softs`, `hards`, `verdict` and
`raced` are history. `probing` (`!mAccel || mAccelProbe`) and `caching` are chosen anew by
every start, as the code reads them there; a task reads `probing` when it begins, together
with `mTunnelUp` in one step, and the handler of a lookup that found nothing reads it
again.
`mPreTunnelProbeFailures` is capped at `Strikes`: the code only compares it with
that limit. Its increment on the executor is one step. `mIpCheckFailures` is not capped:
once a result has overlapped a binder's stop a strike may be counted in a service
that has ended, and it can pass its limit. The `stopMe` of `onDestroy` is left to
`VpnLifecycle`.

### UsageStats

Received and sent bytes pass through the same assignments; one counter stands for
both. `onStartCommand`, `postStartOnMain`, the tick, `persistProfileBytes`, `stopMe` (on
the main thread and on binder threads, and through `onDestroy`) are sequences of steps:
the two terms of a saved sum are read one after the other, the name before both, and the
fields are zeroed one by one. A start between a binder's claim and its save, or a tick
around its zeroing, are behaviours of this model, and they do file one profile's total
under another and reduce stored totals. `readUsageBytes` picks its source at every call:
the tun interface (`tun`), the app's uid (`uid`, which the app's own traffic moves too,
`OwnTraffic`), or none. `Crash` kills the process at any step. `mStatsTick` is kept
modulo `PersistTicks`, the only way it is used.

History: `metered` and `source`, the profile and counter of the current base; `moved`,
what that counter grew by for each profile; `mixed`, the profiles a sample of
which came from another counter than its base; `raced`, two threads were inside their
handlers at once. The two properties claim nothing of a mixed profile or after an overlap.

### SocksClient and TcpClient

tun2socks is single-threaded. An event handler and the jobs it queues run before
the next event, so each is one action; the exception are the lwIP callbacks that
commit a `SYNC`. They run queued jobs inside themselves, so `cb` names the open
callback, the jobs are ordinary actions that may happen while it is open, and
`CallbackReturn` computes what lwIP is told. Bytes are counted; `up`, `toSocks`,
`down` and `acked` are history. `recv_used` is `socks_recv_buf_used` with the
code's `-1`. Of lwIP: the receive window, the send buffer, `tcp_close` (RST when
received data was not taken, FIN otherwise, which may find no memory),
`tcp_abort`, and what `tcp_input` does with a connection after a callback.

A SOCKS error event frees the client in both owners' handlers. The constants
`TCP_WND`, `TCP_SND_BUF`, `RecvBuf` are small. In the code the receive buffer (8192) is
smaller than the send buffer (65535), and a write is partial when the app has not
acknowledged enough; the run takes the receive buffer larger than the send buffer, so
that few bytes suffice for it. The theorems hold for either order.

`silent` names the ends that may never move again (`FallSilent`): a proxy that
neither answers the handshake nor takes data, for which the code has no timer, and an app
that stays connected but acknowledges nothing, whose closed window lwIP probes for ever.

### UdpGw

`jobs` is the reactor's pending group, a stack: `PacketPassInterface_Done` is
called before the packet is processed, so the job that returns the device's buffer
lies *under* the job that sends a new connection's first packet from it. `data` is
that buffer. A payload is the pair it was sent for, so that a mixed-up packet can be
recognised. `reassigned`, `unsent`, `crossed` are history. `free_socks` leaves
`socks_up` as it is, as the code does. `silent` says that the proxy may never answer the
handshake under way (`FallSilent`); nothing would end such an attempt. When the gateway closes a
connection it sends what is buffered first; the code does so only for the packet in
flight and drops the rest (`udpgw.c:1344`, `:1376`). The model allows more than the code
here, and every property holds for it. Keepalives, the DNS flag and IPv6 are left
out; a gateway that times out is `client_free`.

### CacheLock and DnsServer

Everything between taking `lock_mutex` and releasing it or waiting is one step. A
waiter is asleep, woken but not yet back, or holding. `WaitToRead` keeps the side
effect in the loop condition: the suspension is set by the reader that finds too many
writers. The soft locks of the exit poll and give up, and a failed `softlock_mutex`
may leave the lock held, which is harmless only because the process exits.

### DnsCache

Each critical section is one step. A record set is its kind (`ans`, `add`, `local`,
`neg`), time stamp and ttl; its size is one unit, two with records. `rr_l` is the purge
list. What a query saw before it let go of the lock is used after it, as in the code:
`lookup_cache` decides with read access and purges with write access; additions carry
the time their query began. `A` and `CNAME` stand for types that exclude each other;
`cr_check_add` is split into what it answers (`MayAdd`) and what it removes. Both passes
of `purge_cache` are a `Walk` over the nodes that are in the list when the pass begins.
The code follows `next` pointers instead, which is the same because "at most one node is
removed [...] per iteration, and this node is the one referenced by le"
(`cache.c:1325`); `TimedOutStep` and `OldestStep` of `DnsCache_proofs` prove that. Reading the file appends and sorts once (`sort_rrl` is a
stable merge sort), which gives the list insertion sort would give. c_ns, c_soa and
the array of rare types are left out.

The exit is `PurgeForSave` with the write lock, then, with the lock free in between and
the answer threads still adding, `OpenFile` (`fopen` with "w", which empties the older
file) and one `WriteEntry` per entry under the read lock; `Writable` keeps the
other threads from changing the cache meanwhile. `Ends` is possible at every moment: the
file is complete, a lock, `fopen` or `fwrite` failed, or pdnsd was killed. Whatever was written by
then is the file. An entry cut short by a kill is not read back, and data still in the stdio
buffer makes the file that of an earlier kill, so neither needs a step.

### VpnClient

The service is reduced to `running` and `up`, the session `VpnLifecycle` is proved
to implement. The system keeps `startRequested` and the queue of intents over a death
of the process and redelivers a null intent to a started service. `link` is the
`ServiceConnection`: a death is first noticed by calls that throw (`lost`), then
announced. `syncState` is three steps on an IO thread (read, publish `isRunning`,
publish the rest), and several run at once. The first `bindService` is taken to be
accepted; the code never retries it otherwise.

### ConnectButton

The same view model, always bound, with `connectRequested`, the error message and
the pending profile, which four parties write. The timer and the error line are
`LaunchedEffect`s of `StatusScreen`; a composition may miss a value that was
replaced before it.

## 4. Runs

All bounds are in the cfgs. Deadlock is checked in `tcp_client` and `vpn_client`,
whose systems can always go on. Elsewhere the bounded numbers of attempts, queries or
datagrams run out, or a service may stay off or exit, and it is not checked.
The type invariants (`TypeOK`) are theorems and take no run. A constraint of a run cuts
behaviours only where its properties claim nothing more (see the bounds).

| Run | Checks | Shows |
|---|---|---|
| `lifecycle_main` | `StoppedIsDown`, `UpHasCarrier`, `SessionSpec`, `ConnectSettles`, `InterfaceGoes` | stops on the main and on a binder thread: the service refines `VpnSession`; a stop closes every descriptor and leaves no tun2socks unsignalled, after which the interface goes away; an up tunnel has its descriptor delivered; no attempt stays connecting for ever |
| `lifecycle_binder` | `UpIsLatest` | stops overlapping starts at any line: a completion only marks its own attempt up, as long as the generation did not go back |
| `ip_single` | `SingleDropNeverKills`, `DeadProxyStops` | one attempt, the screen going off, the proxy dying at any moment: a single dropped greeting never ends it, a dead proxy always does, before or after tunnel-up |
| `ip_restart` | `ShownOnlyWhenUp`, `LoopAlive`, `ProbeOffKeepsShown` | two attempts, the probe on or off at each start, a binder's stop between any two lines: nothing stays on show after a stop, the check loop goes on, and a session begun with the probe off and showing its exit IP is ended by no check of its own |
| `usage_up` | `NoDoubleCount`, `UpKeepsUsage` | two profiles, three starts, stops on two threads, both kernel counters, kills: totals are neither inflated nor reduced while up |
| `tcp_client` | `HandshakeExact`, `BooksAgree`, `NoStall`, `OrderlyEndDelivers`, `ReturnsLivePcb`, `HalfClosedReclaimed` | one flow after another, every way to fragment the proxy's answers and to end either side: the handshake takes exactly its bytes, the window is never lost, neither direction stalls, an orderly end delivers everything, a callback never returns a dead connection as good, a half-closed client is freed unless a silent end holds it |
| `udpgw` | `FirstDataIntact`, `PrivateSocket`, `OwnAnswers`, `EndsAgree`, `Reconnects` | four address pairs on two conids with one failure: packets carry their own data, answers cross only through a reused conid and a peer common to both, ends agree at rest, the gateway comes back unless a silent proxy holds the attempt |
| `dns_server` | `LockExact`, `NoLostWakeup`, `LimitsExact`, `LockRefined`, `Answered`, `ExitCompletes` | four queries, two servers, an exit at any moment: the lock implements `RWLock` and loses no wakeup, limits are exact, queries are answered, the exit completes |
| `dns_cache` | `Accounting`, `ListExact`, `EntriesSound`, `EvictsOldest`, `RestoredExactly`, `FileOfOneMoment` | two threads on two names and a local one, exits cut short anywhere and restarts: books and purge list exact, limit kept, no entry that cannot be purged or that contradicts itself, the file holds one moment of the cache, a restart restores all of what it holds |
| `vpn_client` | `StopWins`, `RebindArmed`, `NoSpontaneousStart`, `Converges` | two taps and two faults in any order: the last stop wins, a lost binder is being rebound, the screen ends up true |

Two runs end in a counterexample: each states what a comment of the source says
and the code does not keep.

| Run | Property | What happens |
|---|---|---|
| `lifecycle_monitor` | `MonitorStopsOwnAttempt` | the exit of a stopped attempt's tun2socks, reported late, stops the next attempt: `mRunning` is true again and no generation is compared |
| `button_grant` | `GrantStarts` | the 20 s connect timer runs while the VPN-permission dialog is up; its error cancels the pending profile, and the grant that follows starts nothing |

Six more statements of this kind are definitions of the modules without a run of
their own; named in place of the properties of the cfg given, each is refuted.

| Property | cfg | What happens |
|---|---|---|
| `VpnLifecycle!OrphanStaysDown` | `lifecycle_binder` without its constraint | a binder's `mConnectSeq++` (`SocksVpnService.kt:729`) overlaps that of a start and undoes it; the orphaned start thread compares equal and its completion is believed |
| `VpnLifecycle!NoUnreachableProcess` | `lifecycle_monitor` | a stale start thread overwrites `mTun2socksProcess` and nulls it, losing the handle of the newer process (`:1158`, `:1165`) |
| `IpCheck!NeverShownBefore` | `ip_restart` without its constraint | a result posted while a binder thread is between clearing the exit IP and `mTunnelUp = false` shows one, which the next attempt shows while connecting (`:804`) |
| `IpCheck!ProbeOffNeverTearsDown` | `ip_restart` | the posted fast fail of an attempt with the probe on stops the next one, which has it off and shows a cached exit IP (`:386`) |
| `UsageStats!FrozenWhileConnecting` | `usage_up` | cancelling while connecting writes zero over the stored total, which is only loaded at tunnel-up (`:732`) |
| `DnsCache!FileWithinPerm` | `dns_cache` with `PermSize` = 3, `MCSZ` = 6 | answers added between the purge at exit and the writing are written as well, beyond `perm_cache` (`jni/pdnsd/src/cache.c:1618`) |

Other consequences of the code that the models show and no run states:

- a tun2socks signalled while it waits in `accept` never ends and keeps the socket
  name (`ProcExit` is not enabled there);
- a binder's stop inside `configure()` leaves the interface up in a stopped service
  (`SocksVpnService.kt:714`), and one that overlaps a start can remove the posts of the
  new attempt's check loop (`:803`) or end its session's `mTunnelUp`;
- the descriptor of an attempt can be taken by an earlier attempt's tun2socks, which
  listens on the same name: `sendfd` reports success;
- an exit IP seen through one proxy is filed under the key of another when its result
  arrives in the next attempt (`:411`);
- a session whose base and samples come from different kernel counters jumps by their
  difference (`:249`);
- a poll erases an error before `StatusScreen` has composed it: the connect request
  it should have ended stays (`VpnViewModel.kt:402`; the comment at 169 says "a stale
  request can never strand the UI"). If it erases it *after*, the error line loses
  the effect that would remove it after 5 s (`StatusScreen.kt:165`);
- a stop tapped while `restartVpn` waits is followed by the restart's start;
- an app that half-closes its connection is closed fully by tun2socks, and with
  data not yet taken by the proxy it sees an RST;
- two sockets of the device that talk to one peer can see each other's answers
  once their conid has been reused (`OwnAnswers` says that this is the only way);
- the answer of an older DNS query that arrives late replaces a fresher one.

### Bounds

- **Attempts: 2.** The races are between one attempt and its predecessor; the
  fields are single cells overwritten by the next attempt. The theorems cover
  every number.
- **`MaxSendfd` = 1** (250 in the code): enough for a success at the first call,
  after a failure, and an exhausted poll.
- **`Strikes` = 2** as in the code; **`MaxFailures`** = 3 as in the code in `ip_single`,
  2 in the runs with two attempts: the streaks that matter there are none, one and the
  last.
- **Proxies: one**, which may die. **One binder thread**: two of them exclude each
  other by their claims, except for the tail of one stop against the next start's.
- **One attempt for `SingleDropNeverKills`**: a result left over from a stopped
  attempt can stop the next (`ProbeOffNeverTearsDown`), with or without evidence of its
  own. `DeadProxyStops` is checked in the same run.
- **`MaxScreenOff`** = 1 in the single-attempt run. `DeadProxyStops` would not
  hold with a screen switched off and on for ever, since each wake starts a fresh
  streak.
- **`NotRaced`** (`lifecycle_main`, `ip_restart`, `usage_up`): states past an overlap
  are not explored. The properties of these runs claim nothing there, and `raced` never
  becomes false again. For `ConnectSettles` it means that behaviours without an overlap
  are the ones checked. **`CounterInUse`** (`lifecycle_binder`): the same for `seqBack`, and
  a destroyed instance starts nothing any more.
- **`NoEvidence`**, the view of `ip_restart`, leaves out how many greetings were dropped
  (`softs`, `hards`): no action and no property of that run reads them.
- **`PersistTicks` = 2** (5 in the code): a save and a tick without one. `MaxBytes` = 3
  and `MaxStarts` = 3 allow traffic in three sessions of two profiles with a kill
  between them.

- **`tcp_client`**: a window of 3, a send buffer of 2 and a receive buffer of 3 bytes
  give full, partial and empty buffers and writes that need several
  acknowledgements; 4 bytes up and 5 down overrun the window and both buffers.
  Connections follow one another without bound.
- **`udpgw`**: two conids for four pairs force reuse, one connection at the gateway
  forces its own eviction, buffers of one packet overflow, three datagrams and one
  failure. Conids of the client and connections of the gateway differ in number, as
  they may in the field.
- **`dns_server`**: `SUSP_BASE` = 0 instead of 2, so that four threads suffice to
  suspend readers; a slot limit of 3 with a queue of 1; two tries of a soft lock.
- **`dns_cache`**: `PermSize` = 5 and `MCSZ` = 3 units hold the local record and two or
  three others; ttls 0 and 2 around a cap of 1; a tick of the clock lets records expire and
  queries straddle it. Names and threads are symmetric. `OneLongRun`: with entries in
  the file, one query at a time runs until the exit writes the next file; two at a time
  run before the first save, and while a file is written.
- **`vpn_client`**: two taps and two faults, e.g. a stop and a start around two
  deaths, or a failed bind after a death; two coroutines are the fewest that can
  publish out of order.

### Fairness

`VpnLifecycle`: weak fairness of each thread and of `bind`, because the system
schedules them and every blocking call on their way is bounded by a timeout (the
15 s join, the 250 polls); of the exit of a signalled process that can act on the
signal; of the monitor, whose `waitFor` returns. No fairness on user requests, on
an unsignalled exit or on errors.

`IpCheck`: weak fairness of the executor, of the posted results, of each binder thread
in its `stopMe` and of tunnel-up (`ConnectSettles` justifies it); the screen comes back on; strong fairness of
`CheckTick`, since a delayed post that falls into a doze is reposted and its turn
comes after it. A dead proxy's lookup returns null rather than throwing, because
`checkPublicIp` catches its exceptions.

`TcpClient`: the reactor serves what is ready; a proxy that is not silent answers the
handshake, takes data handed to it or drops the connection; an app that is not silent
acknowledges, or lwIP gives up after its retransmissions. Either end may fall silent for
ever, during the handshake or later, and nothing is assumed of it then.
`HalfClosedReclaimed` says what that leaves: a client that has lost one side is
freed, unless the side it has left holds data for the end that fell silent.

`UdpGw`: jobs run, sockets with data are served, the timer fires. Strong fairness where a
failure can disable the step again and failures are finite; of a completed handshake
(`SocksUp`) only while the proxy is not silent. `Reconnects` names what is left: an attempt
held by a silent proxy, with no timer armed.

`DnsServer`: some answer thread runs whenever one can, and the main thread once it has its
signal. No signal has to come.

`VpnClient`: loopers, coroutines and the system make progress; nobody has to tap, fail or
verify.

## 5. Proofs

All theorems hold for every value of the constants: any number of attempts,
retries, proxies, conids, threads, queries, bytes, window and buffer sizes.
The assumptions on constants are the named `ASSUME`s of the modules, which the runs
evaluate; where a theorem needs more, it is a hypothesis named below. In each
module the argument is the same: an inductive invariant, one step per action, and
the property as a consequence. What follows says what each invariant adds and why.

**`VpnLifecycle_proofs`**, for any binder threads
- `TypeCorrect`: `Spec => []TypeOK`. The inductive `TypeInv` adds that the main
  thread is inside the handler of an attempt that exists, and that a thread about
  to call `sendfd` has calls left.
- `UpIsLatestAlways`. `UpIsLatest` is not inductive. `ThreadInv` adds that no thread
  belongs to an attempt not yet begun, and what its process and monitor can be at each of
  its places; `QueueInv` the same for posted Runnables. `SeqInv` says that, as long as the
  counter never went back, no captured generation is ahead of it (nor, inside
  `onStartCommand`, of the value read there), and that once the newest attempt has
  incremented it those of all earlier attempts are strictly behind.
- `StoppedIsDownAlways`, `SessionRefinement`, as long as no binder's stop overlapped a
  start or a completion (`~raced`). `SoloInv` says that at most one thread is then in a
  handler, and whether the service runs meanwhile; `DownInv` which descriptors are open
  and what `mTunnelUp` and `mSendfdCancelled` can be at each place; `KillInv` that a
  process whose thread is done is in the field, signalled, or displaced by another
  attempt's. A binder's stop, the normal one, is included.
- `UpHasCarrierAlways`, likewise: `CarrierInv` follows the completion from the start
  thread that posts it, after its `sendfd` succeeded, to the handler that believes it.
  `SeqInv` then says that the attempt it is about is the newest. `LifecycleInv` is the
  conjunction of all of these.

**`IpCheck_proofs`**, for any binder threads and settings
- `IpTypeCorrect`, the strike counters below their limits included. `CalmInv` describes
  the service until the first overlap: at most one thread is in a handler (`Alone`), what a
  binder's `stopMe` has undone stays undone (`Undone`), nothing is shown when it is settled
  down (`Settled`), and `mIpCheckFailures` is below its limit while the tunnel is up
  (`StrikesLeft`), since the strike that reaches it also stops the service.
- `ShownOnlyWhenUpAlways`, from `CalmInv`.
- `LoopAliveAlways`: `LoopInv` says `mProbeInFlight` stands for a task on the
  executor or a result on its way, so a run that returns because a check is in
  flight can rely on that check to post the next.
- `ProbeOffKeepsShownAlways`: `OffInv` says that tasks and fast fails of the current
  attempt in which a probe decides come from a setting that has it on; the strike handler
  reads the setting itself, and the health gate is silenced by an exit IP. A fast fail
  of an earlier attempt is the exception the property names.
- `SingleDropNeverKillsFirst`: `SingleDropNeverKills` for the first attempt of a
  service (`latest <= 1`), with both strike limits at least two; the code has two and
  three. For later attempts it is false, because a result of an earlier one can stop
  them. `PipelineInv` says that one check at most is under way, guarded by
  `mProbeInFlight`. `EvidenceInv` says that, as long as there was neither a refusal nor a
  second dropped greeting, no strike counter is ahead of the greetings dropped, the
  greeting not yet counted is the only one, and no result on its way can stop the
  service alone. The first is what lets the second count: every answer is one
  of this attempt, and taking a check's result leaves no other on its way.

**`UsageStats_proofs`**, for any binder threads and whatever counter each call picks
- `NoDoubleCountAlways`, `UpKeepsUsageAlways`. `Calm` holds until the first overlap and
  says, for the one thread that is busy, what the fields hold at its place in its handler
  (`CalmAt`): the session (`SessionAt`), the pending post (`QueueAt`), the name (`NameAt`),
  what is already zeroed (`ClearAt`), the sum about to be committed (`SaveAt`), and the
  account (`AccountAt`): the loaded total plus *all* bytes the counter grew by since the
  base fits in what the profile moved, which bounds the next sample as well as the last.
  `StoredFits` says the same of what is stored.
- `UsageTypeCorrect`, overlaps included (`TypeParts`): no subtraction goes below zero.

**`DnsServer_proofs`**, for finitely many server threads and queries and any limits
- `LockExactAlways`: `LockInv` adds that `r_pend` and `rw_pend` count the waiters, asleep
  or woken, and that a writer holds the lock alone; every operation is a change of
  one thread's place plus wakeups (`Moves`), and the cardinalities follow.
- `LockRefinement`: `CacheLock` implements `RWLock`. `LockInv` gives the guards of the
  abstract steps; the soft locks of the exit are steps of the same kind.
- `NoLostWakeupAlways`: `WakeInv` says that readers are suspended or asleep only while a
  writer holds the lock or waits, and that on a free lock with waiting writers none of
  whom was woken all waiting readers were, there are some, and too few writers wait to
  suspend them again. It needs that the threshold grows with the waiting readers.
- `LimitsAlways`, `ServerTypeCorrect`: `ServerInv` counts the queries over the
  threads that work on them and the servers about to create one.

**`VpnClient_proofs`**, for any number of taps, faults and coroutines
- `RebindArmedAlways`: `BindingInv` ties `bound` to the connection: held exactly while the
  connection is up or its loss has yet to be announced.
- `StopWinsAlways`, `NoSpontaneousStartAlways`: `QueueInv` says that the last request is
  last in the queue or has had its effect. `ClientTypeCorrect`.

**`TcpClient_proofs`**, for every window, send buffer and receive buffer
- `TcpInv` is one invariant for five theorems. `SocksInv` gives the number of bytes taken
  in each state of the handshake (`HandshakeExactAlways`). `Good` states the books of the
  client by side: the SOCKS side (an operation runs exactly when there is data or room),
  the app side while open (window plus buffer is the whole window, pending is
  unacknowledged) and once gone, and what an ended client has delivered
  (`BooksAgreeAlways`, `NoStallAlways`, `OrderlyEndAlways`). `SidesAgree` ties the
  client to its SOCKS client. Each function of `tun2socks.c` has a lemma that says what
  it does to `Good`, cited by the actions that call it.
- `ReturnsLive`: the action property follows from `TcpInv` at the callback's return.
- `TcpTypeCorrect`.

**`UdpGw_proofs`**, for any conids, pairs, limits and buffer sizes
- `FirstDataIntactAlways`: `JobsInv` says that a pending first packet lies above the
  pending read and that the device's buffer still holds its pair.
- `PrivateSocketAlways`, `EndsAgreeAlways`: `ChainInv` orders all datagrams of one conid,
  those its socket at the gateway was used for, then those in the stream, then those in
  the connection's buffer, then the pair it belongs to now. Between any two of different
  pairs some packet says REBIND. Conids of which a packet was dropped are exempt, as in
  the properties.
- `OwnAnswersAlways`: every packet, answer and socket belongs to a pair that owns
  its conid or owned it before it was reassigned (`Sound`, in `ClientInv` and
  `GatewayInv`).
- `UdpTypeCorrect`, with `LimitsInv` for buffers and the gateway's connections.
  `find_unused_conid` is shown to find a free conid whenever the client has room.

**`DnsCache_proofs`**, for any finite set of names and any threads, ttls, limits and times
- `Inv` is one invariant for six theorems: while pdnsd runs the cache is `Sound` and has
  `Room`, an entry without information (`Hollow`) has a query that is about to look it up,
  the file holds entries the cache could hold, and a query under way is for a name of the
  app's. `Sound` states the books, the list and the entries together, because each purge
  and merge relies on all three: the size decides what goes, the list says what can go,
  and an entry's count says when it goes as a whole.
- Each function of `cache.c` has a lemma, from the bottom up: the list (`ListInsert`,
  `ListRemove`), one rrset (`DelRRset`, `DropIs`, `AddRRset`), one entry (`DelEnt`,
  `CentPurge`, `NewEntryIs`, `MergeIs`), a pass over the list (`FirstPassIs`,
  `SecondPassIs`), `PurgeIs`, `AddCacheIs`, `ReadIs`. Inside `Merge`, and between a removal
  and its accounting, `cache_size` is wrong for a moment: those lemmas speak of `Core`,
  which is `Sound` without the size.
- `AccountingAlways`, `ListExactAlways`, `EntriesSoundAlways` follow from `Inv`;
  `EvictsOldestAlways` from what `AddCacheIs` says of evictions: the first pass takes what
  has timed out, the second a prefix of the list, which is in order.
- `Filing` adds what holds of the file: while it is written every entry in it is the
  cache's (`FileOfOneMomentAlways`), and its entries and the configured one fit the memory
  together (`DiskFits`), wherever the exit was cut short.
- `RestoredExactlyAlways` follows: no prefix of the file, in any order, makes reading
  evict. It assumes `3 <= PermSize + MCSZ`: the entry of the configuration file, 3 units,
  fits the memory (`MCSZ` alone is 10240 bytes in the code).
- Sums over entries and the recursive functions of a walk and of reading the file are
  reasoned about by induction, which the prover does not offer for operators. The
  library's facts that take a *set* are enough: a non-empty set of numbers has a least
  element (`LeastNat`, `UpTo`), and the strict subsets of a finite set are well-founded. A
  sum is the cardinality of a set of units (`SumIsUnits`), and a recursive function is shown
  to exist before it is used (`IterExists`).

Only model-checked, and why:
- liveness (`ConnectSettles`, `InterfaceGoes`, `DeadProxyStops`, `HalfClosedReclaimed`, `Reconnects`,
  `Answered`, `ExitCompletes`, `Converges`): it needs fairness and `ENABLED`, which
  the prover does not handle;
- the counterexamples.

## 6. Not modelled

- The rest of the native code. Most of badvpn (the peer-to-peer client and server,
  ncd, the parser generators) is not compiled into the app. Of lwIP only what
  `TcpClient` states; segments, retransmission and checksums are left out. Of pdnsd,
  the wire format of queries, `pdnsd-ctl`, server up-tests and recursion through name
  servers (the app configures one upstream resolver).
- tun2socks' DNS path: a table from source port to resolver, written and read once
  per packet.
- Compose screens other than the connect button, the floating bubble's windows and
  gestures, the boot receiver: rendering and stateless forwarding. Their requests are
  `OtherStart` and `OtherStop` of `VpnClient`.
- The resolver thread and its cache, the handshake tester's parsing, profiles, the
  sheet with its undo, checks and backup, Drive, the SMS watch, the updater. They keep
  state of their own beside the VPN.
- Time: timeouts are steps that may happen at any moment after they are armed.

### Hazards without a property

Places a later extension should look at, and why nothing covers them yet.

| Where | What can go wrong | Why not covered |
|---|---|---|
| `SocksVpnService.kt:249` | base and sample taken from different counters | `UsageStats` has it, and the totals do jump (`mixed`); no comment says what should be reported |
| `SocksVpnService.kt:411` | an exit IP is shown for, and filed under, another proxy's key | in `IpCheck` with two proxies, where it happens; nothing says otherwise |
| `SocksVpnService.kt:732` | a stop while connecting saves totals never loaded | `FrozenWhileConnecting`, refuted (section 4) |
| `SocksVpnService.kt:384` | a strike increment on the executor overlaps a reset | `IpCheck` increments in one step; a lost reset costs one strike, which the gate's second probe must confirm |
| `SocksVpnService.kt:1083` | a late answer of an old resolver thread becomes the next attempt's server | the resolver is not modelled, only its join |
| `util/SocksTester.kt:55` | short reads; a signed length byte counted twice | only the verdicts are modelled; `SocksClient` covers the native parser of the same messages |
| `ui/viewmodel/VpnViewModel.kt:402` | a poll erases an error before `StatusScreen` has composed it | visible in `ConnectButton` (section 4), no run states it |
| `ui/viewmodel/VpnViewModel.kt:237` | a refused first `bindService` is never retried | `VpnClient` starts from an accepted one |
| `ui/viewmodel/VpnViewModel.kt:544` | a stop during a restart is followed by its start | no comment says which should win |
| `ui/screens/StatusScreen.kt:166` | a poll erases the message and with it the effect that removes the error line | visible in `ConnectButton`, cosmetic |
| `jni/badvpn/udpgw_client/UdpGwClient.c:541` | a packet with the REBIND flag is dropped by a full buffer; the gateway keeps the socket of the earlier pair | in `UdpGw`; nothing repairs it, and `PrivateSocket` and `EndsAgree` exempt such a conid |
| `jni/system.cpp:55` | a descriptor is passed to an earlier attempt's tun2socks, which listens on the same name | in `VpnLifecycle` (`SendfdOk`), where it happens; `UpHasCarrier` only says that some process has it |
| `jni/badvpn/tun2socks/tun2socks.c:1416` | DNS answers are matched by source port alone | that path is not modelled |
| `jni/badvpn/tun2socks/tun2socks.c:1999` | a segment is not freed when its client died in the callback | memory of segments is not modelled |
| `jni/badvpn/udpgw/udpgw.c:779` | a silent client is dropped after 20 s | time is not modelled; the drop itself is `client_free` |
| `jni/badvpn/udpgw/udpgw.c:1345` | a connection closed with packets to send lingers outside the count | `closing` is modelled, no run states a bound on it |
| `jni/pdnsd/src/cache.c:269` | overlapping readers delay a writer | `Answered` is checked for finitely many queries |
| `util/sheet/SheetStore.kt:1134`, `:1113`, `SheetDb.kt:519` | results applied to moved rows; a style change without a backup; the bounded undo | the sheet is not modelled |
| `util/sheet/SheetBackup.kt:489`, `:835` | a restore against a pending backup; rotation | file I/O |
| `util/SmsWatcher.kt:704`, `:753` | the heartbeat armed before the number is listed; a code against expiry | the watch is not modelled |
| `util/ProfileManager.kt:88` | the other process keeps its own list | profiles are not modelled |
