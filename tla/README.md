# BigRocket and its Aether core: a TLA+ verification project

BigRocket is an Android VPN application that sends one stream of packets over
two networks at once (Wi-Fi and cellular) and puts it together again at the
other end. It carries with it *Aether*, a tunnel client with a core in Rust that
BigRocket runs as a child process and that other hosts drive through a C API.
This directory models, as TLA+ modules,

* the *bonding core* under `app/src/main/java/com/bigrocket/bonding/`, and the
  life of the engines the VPN service runs as child processes;
* of the Rust core under `native/aether/aether/src/`, the user-space network
  stack, the run that keeps a tunnel up, and the life of a core behind the C API;

model-checks them with TLC, and proves with TLAPS every safety property the
runs check, and that the bonded stream implements its abstract specification,
for every value of the constants. Kotlin paths below
are relative to `app/src/main/java/com/bigrocket/`, Rust paths (`*.rs`) to
`native/aether/aether/src/`.

## 1. The system

### Components, their state and their operations

| part | state | operations | hard behaviour |
|---|---|---|---|
| `bonding/core/BondingEngine.kt` | engine state, coroutine scope, counters, output queue | `start`, `stop`, `send`, `receive`, five kinds of loop | loops race with `stop()`; volatile states written check-then-act |
| `bonding/transport/PathRuntime.kt`, `PathState.kt` | state of one path, its send queue | `start`, `stop`, `transitionTo` | `transitionTo` called by four threads without a lock |
| `bonding/transport/UdpPathAdapter.kt` | socket, RTT and loss counters | `connect`, `disconnect`, `send`, `receive`, heartbeat | reconnect while the old socket is open; networks disappear |
| `bonding/scheduler/AdaptiveScheduler.kt` | smoothed weights, round-robin credit, burst counter | `selectPath`, `update` | path states and metrics change between two picks |
| `bonding/buffer/SendQueue.kt` | bounded deque | `offer`, `poll` | overflow evicts from the middle |
| `bonding/buffer/FrameReorderBuffer.kt` | skip-list of held frames, expected number, gap timer | `push`, `readOrdered` | loss, duplication, reordering, two timeouts, re-entrant callback |
| `bonding/recovery/RecoveryManager.kt` | cache of sent frames | `record`, `get`, `request` | eviction by age and size while a gap waits |
| `bonding/frame/*` | next sequence number | `createFrames`, codec | fragments of one packet are never joined |
| `bonding/path3/*`, `bonding/virtual/*` | endpoint state, bounded channels, engine and VPS node | `start`, `stop`, two pumps, a monitor | start and stop order, unlocked monitor writes |
| `bonding/sandbox/*` | - | test harnesses | - |
| `service/TcpRelayEngine.kt`, `UdpRelayEngine.kt` | session tables, 32-bit numbers, writer queues | packet in, socket out, eviction | duplicate SYN, FIN against queued data, wrap-around |
| `service/TunPacketRouter.kt`, `NetworkSessionTracker.kt`, `SmartTrafficEngine.kt`, `Path3Router.kt` | flow-to-network pins | route, migrate | network loss |
| `service/PathHealth.kt`, `DynamicWeightCalculator.kt`, `NetworkMonitor.kt` | health and weights per network | update | hysteresis |
| `service/EmbeddedXrayRuntime.kt`, `EmbeddedAetherRuntime.kt` | generation, phase, readiness, job, process, monitor | `start`, `stop`, the attempt's coroutine, the monitor | an attempt overtaken by a stop or a newer start; two callers of `start()`; a child that dies |
| `service/UpstreamSupervisor.kt` | failure counters, back-off | tick, resets | resets racing a tick |
| `service/BondingSocksServer.kt` | client pins | accept, re-pin | a network lost in the middle of a request |
| `service/BigRocketVpnService.kt` and the rest of `service/` | glue | - | start and stop order |
| `config/*` | none | link and JSON parsing | - |
| `ui/*`, `network/*`, `experiment/*` | - | screens | - |
| `netstack.rs`, the relay of `socks.rs` | per TCP flow: socket, pending bytes, ages, credit; a backlog shared by all; bounded channels | `open_tcp`, `send`, `close`, one loop that polls, services, drains and reaps | chunks split over three queues; closes that overtake data; telling a slow far end from a dead one; what a slow reader loses |
| `run_wireguard`, `run_masque` (`lib.rs`), `lastconn.rs`, `wg_prober.rs` | cache file, last endpoint, failures in a row, resting endpoints, RTT floor | verify, reconnect, scan, save, rest | an endpoint that answers checks and fails tunnels; statics that outlive a run; torn writes |
| `ffi.rs`, `api.rs`, `run_with` (`lib.rs`), `tor.rs`, `psiphon.rs` | job registry, listeners, `TaskGuard`, the channel `core_end` | start, cancel, free; Tor and Psiphon inside, underneath or in place of the tunnel | cancellation at any await; tasks that end, panic or are aborted; ports left taken |
| the rest of `native/aether/aether/src/` | handshakes, probes, accounts, options | - | - |
| `studio/cluvex/aether/*` | the client around the core, in Kotlin | - | another application, embedded |
| `native/aether/quiche`, vendored crates, `native/aether/.upstream-baseline` | third-party code, and the unpatched core to diff against | - | not this program's own logic |

### How the parts of the core interact

    send() -> FrameProcessor (numbers) -> RetransmitCache.record -> AdaptiveScheduler.selectPath
           -> SendQueue of that path -> sender loop -> UdpPathAdapter.send -> UDP
    UDP -> UdpPathAdapter.receive -> receiver loop -> WindowedReorderBuffer.push
    reassembly loop -> readOrdered -> (soft timeout) RecoveryManager.request
           -> sender's RetransmitCache.get -> push, inside the same lock
    watchdog loop -> UdpPathAdapter.connect -> PathRuntime.transitionTo
    metrics loop  -> AdaptiveScheduler.update, engine ACTIVE <-> DEGRADED

Locks exist only inside the send queue, the reorder buffer and the cache. Path
and engine states are `@Volatile` fields. `scope.cancel()` in `stop()` does not
join the loops. An engine is built, started once and stopped once, and has two
paths.

Around the core, `BigRocketVpnService` starts and stops the embedded engines:
its control operations (`runControlOp`: choice changed, supervisor, teardown)
are serialised by `controlMutex`, and the readiness collector, which launches
the second engine of a chain when the first is ready, is not.

In the Rust core everything is a task of one tokio runtime. A flow of the stack
is reached through channels only: `cmd_tx` and `data_in` into the one loop of
`run()`, `to_app` out of it, and the atomics of its `FlowCredit`. A core is a job
of a process-wide registry; its future is dropped at whatever `await` it has
reached when the job is cancelled, and what must end with it hangs on `Drop`
(`TaskGuard`, `Running`, the listeners). `AbortHandle::abort()` only asks.

    client -> relay_tunneled -> FlowCredit::reserve -> data_in -> ingest -> pending | backlog
           -> service_tcp -> smoltcp socket -> tunnel
    tunnel -> smoltcp socket -> service_tcp -> to_app -> relay_tunneled -> client
    host -> aether_core_start -> run_with -> Listeners, Tor/Psiphon (TaskGuard)
           -> run_wireguard | run_masque -> scan, lastconn -> tunnel -> netstack

### What makes each part correct

* **Reorder buffer**: ordered, once-only delivery; bounded memory; nothing
  accepted is thrown away; every number is delivered or counted as lost; a gap
  does not stall the stream and is not given up on too soon.
* **Send queue**: bounded, counted, ordered, urgent frames not displaced.
* **Scheduler**: round-robin credit neither leaks nor accumulates whatever the
  paths do; no path monopolises the stream.
* **Engine**: a path the scheduler may pick has a socket; a path whose network
  is back is used again; a dead one is not; the engine's state follows.
* **Stream**: end to end, what comes out is what went in, in order, once.
* **Embedded runtimes**: readiness never speaks of an engine that was replaced;
  no child process is left behind; no phase is without an end; a death is
  noticed; an engine nobody wants is stopped.
* **Network stack**: what a client uploads arrives whole, in order and before
  its end; a flow is reset only when its far end is silent; no flow, open or
  abandoned, stays for ever; an answer arrives whole.
* **Tunnel session**: the cache of endpoints is sound whatever was cut short;
  an endpoint is left for its own failures, and is left; a scan does not bring
  back what was just left.
* **Core**: a port is taken exactly as long as somebody listens there; a core
  that is stopped stops, with all its parts; a core does not outlive the part
  that serves its user.

## 2. The modules

| module | models | variables and actions |
|---|---|---|
| `ReorderBuffer` | `FrameReorderBuffer.kt` | one variable per field; `Push` with one alternative per branch of its `when`, `ReadOrdered` (with `checkTimeout` and the recovery callback), `Tick` |
| `SendQueueOps` | what `offer()` does to a queue | operators only |
| `SendQueue` | `SendQueue.kt` | `Offer`, `Poll` (`QueueSpec`, `QueueTypeOK`: the names leave room for a module that extends both buffers) |
| `Lifecycle` | `PathState.kt`, `BondingState.kt` | the states and `canTransitionTo` as sets |
| `AdaptiveScheduler` | `AdaptiveScheduler.kt` | `SelectPath`, `Update`, `PathChanges` |
| `BondingEngine` | life of the engine, its paths and sockets | one action per step between two shared reads or writes of the caller, each sender loop, the watchdog and the metrics loop; networks and the collector around them |
| `OrderedStream` | abstract: what `BondedChannel` promises | `Accept`, `Deliver` |
| `BondedStream` | one direction of the data path, end to end | `Send`, `Transmit`, `TransmitFails`, `PathBack`, `Arrive`, `Lose`, `Reassemble`, `CacheExpires`; extends `ReorderBuffer` and `SendQueueOps` |
| `EmbeddedRuntime` | `EmbeddedXrayRuntime.kt`, its mirror `EmbeddedAetherRuntime.kt`, and their callers in `BigRocketVpnService.kt` | one action per locked block of `start()` and `stop()` and per step of the attempt's coroutine between two waits, `MonitorLooks`, `EngineDies`; the control operations and the collector |
| `NetStack` | `netstack.rs` and `relay_tunneled` of `socks.rs` | stages of the loop as actions (`Poll`, `Service`, `Backlog`, `Drain`, `Shutdown`), the relay's awaits (`ReadClient`, `Reserve`, `Push`, `CloseUpload`, `Recv`, `RecvEof`, `Vanish`), the far end (`Peer...`) |
| `TunnelSession` | `run_wireguard`, `run_masque`, `lastconn.rs`, the floor of `wg_prober.rs` | prelude (`VerifyAssigned`, `QuickReconnect`), loop (`TopOfLoop`, `UseQuick`, `RetryLast`, `UseForced`, `Hunt`, `SaveAndUse`, `TunnelUp`, `TunnelEnds`, `WakeUp`), `Restart`, `CrashInSave` |
| `Core` | `ffi.rs`, `api.rs`, `run_with`, `watch_chain`, `TaskGuard`, the tasks of `tor.rs` and `psiphon.rs` | the host (`Start`, `Cancel`, `Free`), the core (`Setup` to `CoreEnd`, `Stopped`), its parts (`TaskStep`, `TaskStops`, `Reap`, `Watch`) |
| `MCTunnelSession`, `MCCore` | the same, with the constants TLC needs as functions | - |
| `MCBuffers` | `ReorderBuffer` and `SendQueue` in one run | `side`: a behaviour is one of the buffer or one of the queue, which share nothing |
| `Buffers_proofs` | theorems and proofs about `ReorderBuffer`, `SendQueueOps` and `SendQueue` | - |
| `AdaptiveScheduler_proofs`, `BondingEngine_proofs`, `BondedStream_proofs`, `EmbeddedRuntime_proofs`, `NetStack_proofs`, `TunnelSession_proofs`, `Core_proofs` | theorems and proofs about the module each is named after | - |

Each module's comments say how its state corresponds to the code, and
`PROJECT.json` maps every definition to its lines. The abstractions that matter:

* **A frame is its sequence number** (with one flag for CONTROL/PRIORITY in the
  queue). Nothing in the modelled code looks at the payload.
* **Time.** `checkTimeout()` compares `now() - gapFirstObservedAtMs` with two
  thresholds and nothing else. `gapAge` is that difference in ticks and
  saturates at the larger threshold, `NoGap` is the field's 0.
* **Locked methods are one action; unlocked ones are not.** `push()`,
  `readOrdered()`, `offer()` and `poll()` hold a lock. `transitionTo()` does
  not, so in `BondingEngine` its check and its write are two steps.
  `connect()` is one step because only its last assignment is visible;
  `disconnect()` is two, `close()` and `socket = null`, because a reconnect can
  fall between them.
* **Scores.** `scoreFor()` mixes five floating-point sub-scores. The scheduler
  module keeps one number per path that changes at any time, and all integer
  arithmetic after it: the largest-remainder percentages, the clamp, the
  round-robin credit.
* **Scheduler inside the stream.** `BondedStream` lets any usable path be
  picked, which covers every choice `AdaptiveScheduler` makes.
* **Generations as names.** In `EmbeddedRuntime` an attempt, its process object,
  its child and its monitor are all named by the generation `start()` gave the
  attempt; `job` and `process` hold such a name, or 0 for null. What the waits
  return (ports, the tunnel check) is arbitrary. `ChecksRunning` is the one
  difference between the two runtimes that matters: Xray's `start()` asks
  `isRunning()` under its lock, Aether's does not. Of the user's choice only
  whether it needs this engine is kept; that a running engine is stale for it
  (`needsRestart()`) and that the first stage of a chain is not ready yet are
  arbitrary. Once the VPN is torn down the next setup is a control operation
  like the others.
* **The pass of the stack's loop.** `NetStack` takes each stage of `run()` as one
  step, since the loop is one task and only the channels are shared. What the
  network brings takes effect in `iface.poll()`, so the far ends act there. The
  bytes of an upload are numbered, those of a download counted; the times of the
  code are small numbers of ticks in the same order; the budget a drain rate
  gives and whether the flap window has passed are arbitrary. All that waits in
  a receive buffer is handed on as one chunk. A connection answered to a caller
  that is gone is dropped in that pass and tries to queue its `TcpClose`.
* **One loop for two runs.** `run_wireguard` and `run_masque` are `TunnelSession`
  with `proto` for their differences: what rests is an endpoint or an address, a
  forced endpoint is kept or not, the floor exists or not. A scan is its fastest
  answer, profiles are left out, and of `lastconn.rs` carriers are two. Failures
  in a row are counted past the limit, as for a forced MASQUE gateway, and
  saturate at `MaxCount` (`u32::MAX` in the code).
* **Cores of one process.** `Core` keeps, of everything a core owns, its ports,
  its tasks and the guard. The reply of a job, the HTTP proxies (bound and let
  go with the SOCKS listeners) and the process environment are left out. Whether
  an `await` inside Tor, Psiphon or the session succeeds is arbitrary.
* **External.** smoltcp's sockets are known by the calls `netstack.rs` makes
  (`SockClose`, `SockAbort`, `CanSend`, the states it asks for). The platform's networks, the finalizer that closes a lost
  `DatagramSocket`, and UDP are not in the repository; they are modelled from
  how the code uses them (`NetworkLost`, `NetworkBack`, `SocketCollected`,
  `Lose`), as is the death of an engine's child (`EngineDies`).

## 3. The runs

| run | question | result |
|---|---|---|
| `buffers` | reorder buffer: order, accounting, no accepted frame lost, a timed gap ends; send queue: count, order and priority through overflow | holds |
| `reorder_stall` | is a waiting frame always passed in the end? | **no** |
| `scheduler` | credit balanced and bounded; weights and bursts in their bounds (`TypeOK`) | holds |
| `engine` | sockets behind usable paths, recovery, failure and engine state | holds |
| `stream` | does the whole implement `OrderedStream`, and is a loss shown by a later frame of the window recovered or given up? | holds |
| `stream_outage` | also when the later frame is beyond the window? | **no** |
| `runtime` | is readiness current, is every child stopped, does every phase end, is a death noticed? | holds |
| `netstack` | is an upload whole, are only silent far ends reset, does every flow settle? | holds |
| `netstack_tail` | does a client that sees a clean end have the whole answer? | **no** |
| `session` | is the cache sound, is rest earned, is a failing endpoint left? | holds |
| `session_floor` | does a scan leave out what rests? | **no** |
| `core` | are ports held exactly as long as needed, does everything end? | holds |

Bounds, and why they are enough:

* `buffers`, the reorder buffer: a window of 3 over 6 frames. Two gaps fit in the window, and the
  stream is twice as long, so the window slides over skipped, delivered and
  late frames alike. `SoftTimeout < HardTimeout` in ticks gives all three
  regions of `elapsed`. The drop counters are capped at 1; they only count.
* `buffers`, the send queue: capacity 3 and 6 offers, so queues of every mixture of urgent
  and ordinary frames fill, overflow twice over and drain in between.
* `scheduler`: two paths as in the program. A share counts for 10 rather than
  100 and the scores 1 and 9 make targets from 1 to 9, so that rounding,
  clamped steps and the minimum weight all occur. `burst` is a history variable.
  The bound `CreditBounded` is a round of both paths here, and is proved for any
  number of paths.
* `engine`: two paths, one with a fixed port, one without, and two faults
  (a network lost, or a refused `protect()`), which is what two threads need to
  fall over each other while a third recovers the path.
* `stream`: two paths that both may fail, queues and cache of 2, a window of 3,
  4 frames, so that the last can be beyond the window, one datagram lost by UDP
  (more are lost by failing sends, overflow and the window), any reordering and
  duplication. The safety properties are proved for streams of any length.
* `stream_outage`: one path, an outage as long as the window of 3, and two frames
  more; that longer streams change nothing is `DeadStreamsStayDead`.
* `runtime`: three generations, each taken by a start or a stop: a start, a
  stop and a new start, or two starts and the stop that overtakes both, so that
  a stale attempt meets a newer one at every point of its life. `NoOrphan` and
  `ReadyIsCurrent` were tried with four as well, and are proved for any number.
* `netstack`: one flow, an upload of three bytes through channels, buffers and a
  backlog of one or two, so that every queue is full in some state and a chunk of
  two is split between them; one message taken in per pass (`IngestMax`); stall,
  wedge and linger times of one to three ticks, in the order the code has them.
  Flows meet only in `data_in` and in the backlog, where `ingest` keeps them
  apart by their id; two flows are more than seven million states and are not
  run, but the safety properties are proved for any number of flows. `netstack_tail` needs no upload and an answer of two bytes.
* `session`: three endpoints, two of them ports of one address (an address can
  rest for another port's failures), a cache of two, two failures to a rest,
  three round-trip times around the budget, any number of restarts. Counts
  saturate at 3, one past the limit.
* `core`: two cores one after the other, because the question is what one leaves
  to the next; the first with Tor and Psiphon in each place (`MCModes`), the
  second wanting the port of one or the other. `PortsHeld` is proved for any
  number at once.
* Deadlock is not checked where the system may stop: a bounded stream ends, an
  engine stays stopped, the generations run out, a host starts no more cores.

### Fairness

`ReorderBuffer!FairSpec`: the clock moves and the reassembly loop polls
(`REASSEMBLY_POLL_MS`) while the engine runs. The network owes nothing.
`BondingEngine!FairSpec`: every loop keeps running on `Dispatchers.IO` and a
call that has begun goes on: a frame that was polled is sent, or its failure
reported. Nothing obliges the application to send, and a sender that polls null
does nothing (`BondingEngine.kt:187-191`), so `DeadPathSettlesFailed` states its
own condition: frames keep being sent on the path (`KeepsSending`). Nobody is
obliged to call `stop()`, to bring a network back or to collect a socket.
`BondedStream!FairStreamSpec`: the sender, reassembly and watchdog loops of both
engines run on, time passes, and a datagram that is not lost arrives.
`EmbeddedRuntime!FairSpec`: a control operation or a
start that has begun goes on, every wait of an attempt has a time limit and
each monitor polls (`MONITOR_POLL_MS`), all on `ControlDispatchers.control`,
whose threads are reserved for them. Nobody owes a change of choice, a restart,
a readiness event or a death. The liveness properties that need a network or a
running engine say so themselves (`<>[](running /\ netUp[p]) => ...`).

`NetStack!Spec`: until it is shut down the loop goes round and time passes in it
(its sleep is at most `MAX_IDLE_TICK` while it has flows). Far ends, clients and
relays owe nothing. `TunnelSession!Spec`: a validation ends, as it has a time
limit; no scan has to find anything and no tunnel has to stay. `Core!Spec`: the
runtime polls a task that can go on and drops one that was aborted, and
`start_reverse` has a time limit (Psiphon's `ready_timeout()`, Tor's
`REVERSE_ATTEMPTS`). Host, network, session, Tor and Psiphon owe nothing.

### What the failing runs show

* **`reorder_stall`** (`FrameReorderBuffer.kt:70`). Frame 2 arrives,
  then 0. Pushing 0 clears the only gap timer; 0 is handed out; 2 waits for 1
  and no timer runs, so 1 is neither requested nor skipped until another frame
  happens to arrive. `TimedGapEnds` is what does hold.
* **`stream_outage`** (`BondingEngine.kt:175`). Frame 0's `send()` throws and the
  path is FAILED; 1 and 2 find no path and are dropped; the path comes back and
  3 arrives. The window is 3, so 3 is too far ahead, is dropped and arms no
  timer. Frame 0 is neither requested nor skipped, and every later frame meets
  the same branch (`DeadStreamsStayDead`): a long outage is not "same as an
  ordinary loss". With the default window it takes 512
  frames in a row that are all lost, while no gap is being timed. `LossIsPassed` is what does hold.
* **`netstack_tail`** (`netstack.rs:2283`). The far end answers two chunks and
  ends. The relay has not read the first yet, so `to_app` is full and the second
  stays in the socket. The socket is in CloseWait, so the stack closes it; the
  far end acknowledges, the socket is Closed, and the next pass removes the flow
  with the second chunk in it. The client reads a clean end. `UplinkConserved`
  and `FinAfterData` show that the other direction is whole.
* **`session_floor`** (`wg_prober.rs:263`). A cached endpoint is slow and sets the
  floor; the scan finds nothing faster and it is used after all. Its tunnels fail
  validation twice, which does not clear the floor, and it is sent to rest. The
  next scan leaves it out, finds only slower ones, and the floor puts it back in
  front. `RestsForOwnFailures` and `ProvenOrLeft` are what does hold.

### Read in the code, not run

Executions of the models, or of the code around them, that contradict no run:

* **The gap timer starts early** (`FrameReorderBuffer.kt:75`): at the first
  out-of-order arrival, even if the expected frame is already there and only
  waits for the next poll. It then runs into the next gap, which is given up on
  before it has been open for the hard timeout.
* **A fixed port never reconnects** (`BondingEngine.kt:274`,
  `UdpPathAdapter.kt:80`). The watchdog reconnects without disconnecting; the old
  socket has the port, every `connect()` throws, and the path is FAILED for good.
  `FailedPathRecovers` is about ephemeral ports.
* **Late path writes** (`PathRuntime.kt:52`). A sender's FAILED, checked while the
  path was ACTIVE, is written after `stop()` wrote CLOSED; in the same way a path
  can go from FAILED to ACTIVE, which its comment rules out.
* **An idle path stays ACTIVE without its network.** Only the sender loop reports
  a failed `send()`, and it sends nothing while there is nothing to poll
  (`BondingEngine.kt:187-191`); the heartbeat's exception is swallowed
  (`UdpPathAdapter.kt:177`). `DeadPathSettlesFailed` is about paths in use.
* **An engine that is not wanted** (`BigRocketVpnService.kt:820`). The user chooses
  an upstream and then none, before the attempt has spawned its child:
  `stopXrayIfRunning()` asks `isRunning()`, sees nothing, and the attempt goes on
  to READY and stays.
* **Psiphon over Tor alone outlives its core** (`lib.rs:83`): its task is in no
  guard, so that "as the core ends, Tor and Psiphon end with it" (`lib.rs:234`)
  does not hold for it, and through the C API its port stays taken until it ends
  by itself. `EverythingEnds` exempts it by name (`Loose`).
* **The upstream stays** (`lib.rs:259`, `285`). A reverse carrier is announced in
  `AETHER_UPSTREAM`, which is not unset when the core ends; the next core of the
  process would dial through a carrier that is gone.
* **A reverse carrier that ends is only logged**: nothing watches its task, so the
  session goes on redialling through it. `EndsWithItsParts` is about chains.
* **abort() is not waited for.** A job is Done before its chains are dropped, so a
  core started at once can find their ports taken; its chain then ends, and the
  core with it. `EverythingEnds` says the ports do come free.
* **The flap reset sends no RST** (`netstack.rs:2208`): the aborted socket is
  removed at the end of the same pass, before `poll()` can send anything.
* **An early end of the far side drops an upload** (`netstack.rs:2274`): a
  CloseWait socket is closed with bytes in `pending`, which are then wedged.
  `ResetOnlySilent` exempts such flows, `UplinkConserved` covers the bytes.
* **One carrier can hold back all flows** (`netstack.rs:1364`): the backlog's bound
  is global and a carrier is never reaped. Local ports repeat after 15849 flows
  without a look at which are in use (`netstack.rs:1324`).
* **Around the session loop**: `run_mim` scans without leaving anything out after
  two failures; `run_gool` says "blacklisting" where it only tries other known
  endpoints; the quick reconnect of `run_masque` stops at the first cached gateway
  that answers, even too slowly; MASQUE counts failures by endpoint and rests by
  address; a cache file cut off before its carrier is usable by every carrier;
  the RTT floor survives a stop and start through the C API.

* Aether's `start()` does not ask `isRunning()` under its lock
  (`EmbeddedAetherRuntime.kt:107`). With `ChecksRunning = FALSE` TLC violates
  `NoOrphan`: the collector and a control operation have both seen no engine;
  one start completes, the other then replaces its process in the field, and
  nobody stops the first child.
* The supervisor's `onChoiceChanged()` resets `failingSince` but not
  `alertShown`, so it seems that a healthy new chain leaves the old alert up.

* A metrics write decided before `stop()` can leave the engine ACTIVE or
  DEGRADED after STOPPED; the model has the behaviour (`MetricsWrites`).
* A CLOSED path has no successor state, so a second `start()` of an engine
  would find its paths unusable. No caller does it.
* The comment that smooth weighted round-robin avoids long runs
  (`AdaptiveScheduler.kt:27-29`) is true up to the burst cap only, and the
  weight ramp moves one step per pick rather than per metrics update.

## 4. What is proved

Each theorem holds for every value of the constants its module assumes
(`BufferAssumption`, `CapacityAssumption`, `OffersAssumption`, `EngineAssumption`,
`RuntimeAssumption`, `NetStackAssumption`, `SessionAssumption`, the two of Core,
the scheduler's and the stream's own), and nothing else is assumed.
`NetStackAssumption` orders the times of the stack as the code does
(`TCP_DRAIN_STALL_WARN` <= `TCP_DRAIN_STALL_TIMEOUT`, 8 s, <= `TCP_WEDGE_TIMEOUT`,
30 s); `ResetsAreEarned` needs the order.

| module | theorem | statement |
|---|---|---|
| `Buffers_proofs` | `TypeCorrect` | `Spec => []TypeOK` |
| | `DeliveryInOrder` | `Spec => []InOrder` |
| | `MemoryBounded` | `Spec => []HeldWithinWindow` |
| | `EveryFrameAccounted` | `Spec => []Accounted` |
| | `AcceptedFramesDelivered` | `Spec => HeldFramesAreDelivered` |
| | `QueueTypeCorrect` | `QueueSpec => []QueueTypeOK` |
| | `QueueBounded` | `QueueSpec => []Bounded` |
| | `DropsCounted` | `QueueSpec => []Conserved` |
| | `QueueInOrder` | `QueueSpec => []SentInOfferOrder` |
| | `UrgentFramesKept` | `QueueSpec => UrgentNeverDisplaced` |
| `AdaptiveScheduler_proofs` | `SchedulerTypeCorrect` | `Spec => []TypeOK` |
| | `CreditConserved` | `Spec => []CreditBalanced` |
| | `CreditStaysBounded` | `Spec => []CreditBounded` |
| `BondingEngine_proofs` | `TypeCorrect` | `Spec => []TypeOK` |
| | `UsablePathsHaveSockets` | `Spec => []UsablePathHasSocket` |
| `BondedStream_proofs` | `StreamTypeCorrect` | `StreamSpec => []StreamTypeOK` |
| | `ReceiverNeverAhead` | `StreamSpec => []ReceiverBehindSender` |
| | `ImplementsOrderedStream` | `StreamSpec => KeepsPromise` |
| | `DeadStreamsStayDead` | `StreamSpec => DeadIsForever` |
| `EmbeddedRuntime_proofs` | `RuntimeTypeCorrect` | `Spec => []TypeOK` |
| | `ReadinessIsCurrent` | `Spec => []ReadyIsCurrent` |
| | `NoChildLeftBehind` | `Spec => []NoOrphan`, if `ChecksRunning` |
| `NetStack_proofs` | `StackTypeCorrect` | `Spec => []TypeOK` |
| | `UploadConserved` | `Spec => []UplinkConserved` |
| | `FinFollowsData` | `Spec => []FinAfterData` |
| | `ResetsAreEarned` | `Spec => ResetOnlySilent` |
| `TunnelSession_proofs` | `RestIsEarned` | `Spec => RestsForOwnFailures` |
| | `SessionTypeCorrect` | `Spec => []TypeOK` |
| | `RingStaysSound` | `Spec => []RingSound` |
| `Core_proofs` | `PortsHeld` | `Spec => []PortsAreHeld` |
| | `CoreTypeCorrect` | `Spec => []TypeOK` |

`MemoryBounded`, `QueueBounded` and `ReceiverNeverAhead` are not asked of TLC:
the bounds of the type invariants imply the first two on the instances, and the
refinement needs the third. `DeadStreamsStayDead` is not either: it says of the
state TLC's counterexample in `stream_outage` ends in that it is never left, so
that the stall is neither the bound on the stream's length nor a lack of frames.

The arguments:

* **Reorder buffer.** The inductive invariant (`Invariance`) is the conjunction
  of the four invariants with the fact that everything delivered lies below
  `expectedSequence`. That part is what the others miss: order alone does not
  say that the next run, which starts at `expectedSequence`, comes after what
  went before. `HeldWithinWindow` is needed in turn for a jump: the frame
  delivery resumes at is the least one held, so nothing held is left behind.
  The step from old to new `delivered` goes through a lemma on appending
  `Run(from, upTo)`.
* **Send queue.** Bound and count are inductive together (`Counted`). Order
  needs more (`Ordered`): what is queued is newer than everything polled and no
  newer than the offers made. `Buffers_proofs` says once what `offer()`
  does to a queue, for `SendQueue` and `BondedStream` both: it appends the
  frame and drops at most one other, found from the front, never an urgent one.
* **Scheduler.** The sums of the model are folds over sets. `SumUnfolds` says
  what they compute, by induction over the subsets of a finite set, and the other
  lemmas about sums follow from it. That the credits add up to zero is inductive
  by itself: a pick raises each eligible path by its weight and takes the total
  from the winner. That each of them is bounded is not: knowing only its own
  bound, a path could be raised beyond it. The invariant (`CreditWithin`) bounds
  the sum of the credits of *every set* of paths by a function of the set's size
  that is concave (`Allowed(M, k, n) = M * k * (n - k)`). If the winner is in the
  set, the set only loses; if it is not, no path of the set had more credit than
  the winner, and concavity says that the set can then be raised by a full round.
  A single path's bound is the case of sets of one path, and of all paths but one.
* **Engine.** `UsablePathHasSocket` is not inductive: from a state where the
  watchdog is about to write ACTIVE nothing says it has a socket. The
  strengthening (`ReconnectHasSocket`) says that from a `connect()` that
  succeeded until that write the socket is there unless `stop()` is closing
  sockets, because no other thread ever takes one away.
* **Stream.** A step of the stream is a step of the reorder buffer or leaves it
  alone, so the buffer's invariant carries over. `OnlySent` adds that whatever
  is queued, cached, on the wire or held was sent; it needs all four places
  together, as each is filled from another one. The refinement maps `Send` to
  `Accept`, `Reassemble` to `Deliver` or a stutter, and everything else to a
  stutter; delivering accepted frames in order is then `ReceiverBehindSender`
  with the buffer's lemma about a read.
* **Embedded runtimes.** `ReadyIsCurrent` needs to know (`RInv`) that the
  current attempt, once it has assigned the field, still holds it, that a READY
  phase means the current attempt is over, and that generations to come have
  not begun. `NoOrphan` needs more (`OInv`): when the current attempt replaces
  the process in the field, whatever child was there must still have an attempt
  of its own to stop it. That is `FieldIsFree`, and it holds from `start()` on
  because `start()` saw no running child under the lock: the one place where
  `ChecksRunning` is used.
* **Network stack.** Flows share only the channel and the backlog, and both
  are read through `Stream(q, f)`, what a queue means to one flow. So the
  invariant (`StackInv`) is the types and one formula per flow (`FlowInv`) over the
  records of that flow and what surrounds them. `UplinkConserved` speaks of flows
  that are up; the part that is inductive (`UploadWhole`) begins with the flow, when
  nothing has been read, and carries the end of the upload as a marker behind
  its bytes. The marker is why ingestion is order-preserving at all: `half_closed`
  is a flag, set while bytes of the flow may still sit in the backlog, and only
  because nothing follows an end can it stand for a position in the stream.
  Moving bytes between places is then associativity, and what a whole queue does
  (`IngestsQueue`) an induction on the queue. `FinAfterData` needs `FinLast`, that a
  FIN is sent only with `pending` empty. `ResetOnlySilent` compares ages the stack
  keeps with the far end's silence. They differ by the tick a pass is late, by
  what an empty buffer resets, and by the stage of the pass in which each is read;
  `AgesFollow` and `JustServiced` say how, stage by stage, and `EndedByPeer` covers
  the flows whose socket no longer sends.
* **Tunnel session.** The property is about a step, so it follows from an
  invariant (`SessionInv`) that ties the count the code keeps to what happened.
  `OwnFailures` says that a positive count is at most the length of the run of
  short tunnels through `last`; that needs `ChosenPeer`, that from the choice of
  an endpoint until its tunnel's end `peer` is `last`, because the count is kept
  for the one and the tunnel goes through the other. The cache file has an
  invariant of its own (`FileInv`): a file that names no carrier lists nothing, so
  that `save()` carries over only endpoints of its own carrier; that the ring it
  builds has no duplicates and stays within its cap is an induction on the list.
* **Core.** `PortsAreHeld` is not inductive: `start_reverse` and `run_chain` move
  the same task, and from a state where a part's task is past its bind before
  `run_with` came to the part, a bind would take the port twice. `NotYetStarted`
  excludes it. With it, each step gives a port to, or takes it from, exactly the
  listener whose state it changes; dropping `run_with` in the middle of
  `start_reverse` is the step that needs `Released` to be right.

How induction over data is done: the induction theorems of the library take
an operator as a parameter, which the installed provers cannot instantiate. The
proofs use instead that a well-founded relation has a minimal element in every
non-empty set (`WFMin`), applied to the set of counterexamples: `CountTo` and
`SeqInduction` (numbers and sequences), `SubsetInduction` (finite sets). Recursive
functions and the library's folds are defined by CHOOSE, so each has a lemma
that a function with its equations exists, and that all such functions agree.

Only model-checked: the liveness properties (`TimedGapEnds`, `LossIsPassed`,
`FailedPathRecovers`, `DeadPathSettlesFailed`, `EngineTracksPaths`, `PhaseEnds`,
`DeathNoticed`, `FlowSettles`, `ProvenOrLeft`, `EverythingEnds`, `EndsWithItsParts`): liveness under
fairness, and ENABLED, are out of TLAPS's reach. What the failing runs show is a
counterexample each and needs no proof.

## 5. Not modelled

The byte layout and CRC of frames; metrics and heartbeat arithmetic; the
receive queue (unused code); sandboxes and screens; configuration parsing;
packet parsing; the Kotlin client of Aether. Of the Rust core: UDP flows and the
device queue of the stack, handshakes and packet formats (MASQUE, WireGuard,
TLS), probing, accounts, option parsing. `PROJECT.json` gives the reason for
each. The parts of `service/` and `bonding/path3` that the plan names are not
modelled yet.

Of the lines of Rust in the repository most are not this program's: quiche (a
QUIC library and its tools), vendored crates, and `.upstream-baseline`, a second
copy of the core. The modules map a small share of all Rust lines for that
reason; they cover the parts of `aether/src` whose state several tasks share.

## 6. Plan

Done, in this order: reorder buffer, send queue, scheduler, engine life,
end-to-end stream, embedded runtimes; network stack, tunnel session, core and
C API of the Rust core; proofs of every safety property the runs check.

Next, modules:
1. `Path3` and `VirtualBondingEngine`: the endpoint's states, bounded channels,
   the adapter's pumps, fragments delivered as packets, the monitor against
   `stop()`.
2. `TcpRelay`: sessions, sequence numbers with wrap-around, the writer queue,
   FIN, eviction and network loss, against an abstract in-order byte stream.
3. `UpstreamSupervisor`, composed over `EmbeddedRuntime`: ticks, restart
   budget, back-off and the resets; its `Supervises` is arbitrary so far.
4. `SessionPins`: session tracker, router and the SOCKS server's re-pinning.
5. `PathHealth`: hysteresis.
6. In the Rust core, the two-hop runs (`run_gool`, `run_mim`) over
   `TunnelSession`, and the reconnect of one MASQUE tunnel.

Next, proofs: the safety invariants of the modules above.
