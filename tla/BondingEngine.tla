--------------------------- MODULE BondingEngine ---------------------------
(***************************************************************************)
(* The life of one BondingEngineImpl (bonding/core/BondingEngine.kt) over  *)
(* its PathRuntimeImpl objects and their UdpPathAdapter sockets.           *)
(*                                                                         *)
(* Four kinds of thread touch the shared state: the caller of start() and  *)
(* stop(), one sender loop per path, the watchdog and the metrics loop.    *)
(* The states are @Volatile and unlocked: transitionTo() reads the state,  *)
(* asks canTransitionTo() and then writes, so every transition two threads *)
(* can race on is two steps here, a read and a write.  scope.cancel() does *)
(* not join: a loop runs on to its next isActive test or delay().          *)
(*                                                                         *)
(* The receiver and reassembly loops change no lifecycle state; they are   *)
(* in BondedStream.  Every engine of the program is built, started once    *)
(* and stopped once.                                                       *)
(***************************************************************************)
EXTENDS Integers, Lifecycle

CONSTANTS
    N,           \* number of paths (WIFI, CELLULAR)
    FixedPorts,  \* the paths whose localPort # 0: both in VirtualVpsNode
                 \* and BondingSandbox, none by the constructor's default
    MaxFaults    \* bound: network losses and refused protect() calls

ASSUME EngineAssumption ==
    /\ N \in Nat \ {0}
    /\ FixedPorts \subseteq 1..N
    /\ MaxFaults \in Nat

VARIABLES
    engineState,
    running,      \* the engine's scope is active
    pathState,
    socket,       \* the adapter's socket field: none, open or closed
    leaked,       \* an open socket of the path is no longer in the field
    netUp,        \* the path's Network is connected
    faults,
    caller,       \* where start() or stop() is, and at which path
    sender,       \* per path: idle, sending, failing
    watchdog,     \* where the watchdog is, and at which path
    metrics       \* where the metrics loop is, path and pending state

engineVars == <<engineState, running, pathState, socket, leaked, netUp,
                faults, caller, sender, watchdog, metrics>>
threadVars == <<caller, sender, watchdog, metrics>>
socketVars == <<socket, leaked, faults>>

Path == 1..N

Init ==
    /\ engineState = "STOPPED"
    /\ running = FALSE
    /\ pathState = [p \in Path |-> "INIT"]
    /\ socket = [p \in Path |-> "none"]
    /\ leaked = [p \in Path |-> FALSE]
    /\ netUp = [p \in Path |-> TRUE]
    /\ faults = 0
    /\ caller = [at |-> "new", path |-> 1]
    /\ sender = [p \in Path |-> "idle"]
    /\ watchdog = [at |-> "idle", path |-> 1]
    /\ metrics = [at |-> "idle", path |-> 1, next |-> "ACTIVE"]

-----------------------------------------------------------------------------
(* UdpPathAdapter.connect(): bind a socket, protect() it, bind it to the   *)
(* network, store it in the field.  The socket it replaces is not closed.  *)

(* A socket of this adapter still holds its fixed local port. *)
PortBusy(p) == p \in FixedPorts /\ (socket[p] = "open" \/ leaked[p])

Connect(p) ==
    /\ ~PortBusy(p)
    /\ netUp[p]
    /\ socket' = [socket EXCEPT ![p] = "open"]
    /\ leaked' = [leaked EXCEPT ![p] = @ \/ socket[p] = "open"]
    /\ UNCHANGED faults

(* connect() throws: the port is taken; protect() refuses the new socket,  *)
(* which is closed; or bindSocket() throws and leaves it open.             *)
ConnectThrows(p) ==
    \/ PortBusy(p) /\ UNCHANGED socketVars
    \/ /\ ~PortBusy(p)
       /\ faults < MaxFaults
       /\ faults' = faults + 1
       /\ UNCHANGED <<socket, leaked>>
    \/ /\ ~PortBusy(p)
       /\ ~netUp[p]
       /\ leaked' = [leaked EXCEPT ![p] = TRUE]
       /\ UNCHANGED <<socket, faults>>

-----------------------------------------------------------------------------
(* start(), called once.  Until the loops are launched nothing else runs.  *)

Start ==
    /\ caller.at = "new"
    /\ engineState' = "STARTING"
    /\ caller' = [at |-> "starting", path |-> 1]
    /\ UNCHANGED <<running, pathState, socketVars, netUp, sender, watchdog, metrics>>

(* runCatching { path.start() }.onFailure { path.transitionTo(FAILED) } *)
StartPath ==
    LET p == caller.path
    IN  /\ caller.at = "starting" /\ p <= N
        /\ \/ Connect(p) /\ pathState' = [pathState EXCEPT ![p] = "ACTIVE"]
           \/ ConnectThrows(p) /\ pathState' = [pathState EXCEPT ![p] = "FAILED"]
        /\ caller' = [caller EXCEPT !.path = p + 1]
        /\ UNCHANGED <<engineState, running, netUp, sender, watchdog, metrics>>

Launch ==
    /\ caller.at = "starting" /\ caller.path > N
    /\ running' = TRUE
    /\ caller' = [at |-> "launched", path |-> 1]
    /\ UNCHANGED <<engineState, pathState, socketVars, netUp, sender, watchdog, metrics>>

StartEnd ==
    /\ caller.at = "launched"
    /\ engineState' = "ACTIVE"
    /\ caller' = [at |-> "started", path |-> 1]
    /\ UNCHANGED <<running, pathState, socketVars, netUp, sender, watchdog, metrics>>

-----------------------------------------------------------------------------
(* stop(): STOPPING, cancel the scope, stop every path, STOPPED.           *)

StopRead ==
    /\ caller.at = "started"
    /\ engineState # "STOPPED"
    /\ caller' = [at |-> IF "STOPPING" \in EngineSuccessors(engineState)
                         THEN "stopWrite" ELSE "cancel",
                  path |-> 1]
    /\ UNCHANGED <<engineState, running, pathState, socketVars, netUp, sender, watchdog, metrics>>

StopWrite ==
    /\ caller.at = "stopWrite"
    /\ engineState' = "STOPPING"
    /\ caller' = [caller EXCEPT !.at = "cancel"]
    /\ UNCHANGED <<running, pathState, socketVars, netUp, sender, watchdog, metrics>>

Cancel ==
    /\ caller.at = "cancel"
    /\ running' = FALSE
    /\ caller' = [at |-> "closing", path |-> 1]
    /\ UNCHANGED <<engineState, pathState, socketVars, netUp, sender, watchdog, metrics>>

(* disconnect(), first half: close the socket in the field. *)
CloseSocket ==
    LET p == caller.path
    IN  /\ caller.at = "closing" /\ p <= N
        /\ socket' = [socket EXCEPT ![p] = IF @ = "none" THEN @ ELSE "closed"]
        /\ caller' = [caller EXCEPT !.at = "clearing"]
        /\ UNCHANGED <<engineState, running, pathState, leaked, faults, netUp,
                       sender, watchdog, metrics>>

(* disconnect(), second half: clear the field, whatever it now holds, and  *)
(* the read of transitionTo(CLOSED).                                       *)
ClearSocket ==
    LET p == caller.path
    IN  /\ caller.at = "clearing"
        /\ socket' = [socket EXCEPT ![p] = "none"]
        /\ leaked' = [leaked EXCEPT ![p] = @ \/ socket[p] = "open"]
        /\ caller' = IF "CLOSED" \in PathSuccessors(pathState[p])
                     THEN [caller EXCEPT !.at = "closeWrite"]
                     ELSE [at |-> "closing", path |-> p + 1]
        /\ UNCHANGED <<engineState, running, pathState, faults, netUp,
                       sender, watchdog, metrics>>

CloseWrite ==
    LET p == caller.path
    IN  /\ caller.at = "closeWrite"
        /\ pathState' = [pathState EXCEPT ![p] = "CLOSED"]
        /\ caller' = [at |-> "closing", path |-> p + 1]
        /\ UNCHANGED <<engineState, running, socketVars, netUp, sender, watchdog, metrics>>

StopEndRead ==
    /\ caller.at = "closing" /\ caller.path > N
    /\ caller' = [at |-> IF "STOPPED" \in EngineSuccessors(engineState)
                         THEN "endWrite" ELSE "stopped",
                  path |-> 1]
    /\ UNCHANGED <<engineState, running, pathState, socketVars, netUp, sender, watchdog, metrics>>

StopEndWrite ==
    /\ caller.at = "endWrite"
    /\ engineState' = "STOPPED"
    /\ caller' = [caller EXCEPT !.at = "stopped"]
    /\ UNCHANGED <<running, pathState, socketVars, netUp, sender, watchdog, metrics>>

Stop ==
    \/ StopRead \/ StopWrite \/ Cancel
    \/ CloseSocket \/ ClearSocket \/ CloseWrite
    \/ StopEndRead \/ StopEndWrite

-----------------------------------------------------------------------------
(* The sender loop of path p.                                              *)

(* The loop finds the path neither FAILED nor CLOSED and polls a frame.  A *)
(* poll that returns null only sleeps: the loop then takes no step here,   *)
(* and TakeFrame is given no fairness, as nothing obliges the application  *)
(* to send.                                                                *)
TakeFrame(p) ==
    /\ running
    /\ sender[p] = "idle"
    /\ pathState[p] \notin {"FAILED", "CLOSED"}
    /\ sender' = [sender EXCEPT ![p] = "sending"]
    /\ UNCHANGED <<engineState, running, pathState, socketVars, netUp,
                   caller, watchdog, metrics>>

(* Mutant: the exception of send() is swallowed like the heartbeat's. *)
SendFrame_Swallowed(p) ==
    /\ sender[p] = "sending"
    /\ sender' = [sender EXCEPT ![p] = "idle"]
    /\ UNCHANGED <<engineState, running, pathState, socketVars, netUp,
                   caller, watchdog, metrics>>

(* adapter.send(frame), and on an exception the read of transitionTo(FAILED). *)
SendFrame(p) ==
    LET throws == socket[p] # "open" \/ ~netUp[p]
    IN  /\ sender[p] = "sending"
        /\ sender' = [sender EXCEPT ![p] =
                          IF throws /\ "FAILED" \in PathSuccessors(pathState[p])
                          THEN "failing" ELSE "idle"]
        /\ UNCHANGED <<engineState, running, pathState, socketVars, netUp,
                       caller, watchdog, metrics>>

FailWrite(p) ==
    /\ sender[p] = "failing"
    /\ pathState' = [pathState EXCEPT ![p] = "FAILED"]
    /\ sender' = [sender EXCEPT ![p] = "idle"]
    /\ UNCHANGED <<engineState, running, socketVars, netUp, caller, watchdog, metrics>>

Sender(p) == TakeFrame(p) \/ SendFrame(p) \/ FailWrite(p)

-----------------------------------------------------------------------------
(* The watchdog: for every path that is FAILED, connect() and then walk it *)
(* through RECOVERING to ACTIVE.                                           *)

WatchdogMoves(at, p) == watchdog' = [at |-> at, path |-> p]

(* delay() has passed in a live scope. *)
WatchdogWakes ==
    /\ watchdog.at = "idle" /\ running
    /\ WatchdogMoves("check", 1)
    /\ UNCHANGED <<engineState, running, pathState, socketVars, netUp, caller, sender, metrics>>

WatchdogChecks ==
    LET p == watchdog.path
    IN  /\ watchdog.at = "check"
        /\ \/ p > N /\ WatchdogMoves("idle", 1)
           \/ p <= N /\ pathState[p] # "FAILED" /\ WatchdogMoves("check", p + 1)
           \/ p <= N /\ pathState[p] = "FAILED" /\ WatchdogMoves("connect", p)
        /\ UNCHANGED <<engineState, running, pathState, socketVars, netUp,
                       caller, sender, metrics>>

(* Mutant: a connect() that threw is taken for a success. *)
WatchdogConnects_Always ==
    LET p == watchdog.path
    IN  /\ watchdog.at = "connect"
        /\ Connect(p) \/ ConnectThrows(p)
        /\ WatchdogMoves("recoverRead", p)
        /\ UNCHANGED <<engineState, running, pathState, netUp, caller, sender, metrics>>

(* Mutant: a path that does not connect is retried before any other. *)
WatchdogConnects_Insists ==
    LET p == watchdog.path
    IN  /\ watchdog.at = "connect"
        /\ \/ Connect(p) /\ WatchdogMoves("recoverRead", p)
           \/ ConnectThrows(p) /\ UNCHANGED watchdog
        /\ UNCHANGED <<engineState, running, pathState, netUp, caller, sender, metrics>>

WatchdogConnects ==
    LET p == watchdog.path
    IN  /\ watchdog.at = "connect"
        /\ \/ Connect(p) /\ WatchdogMoves("recoverRead", p)
           \/ ConnectThrows(p) /\ WatchdogMoves("check", p + 1)
        /\ UNCHANGED <<engineState, running, pathState, netUp, caller, sender, metrics>>

(* transitionTo(next): the read; a refused transition is skipped over. *)
WatchdogReads(at, next, write, skip) ==
    LET p == watchdog.path
    IN  /\ watchdog.at = at
        /\ IF next \in PathSuccessors(pathState[p])
           THEN WatchdogMoves(write, p)
           ELSE IF skip = "check" THEN WatchdogMoves("check", p + 1)
                                  ELSE WatchdogMoves(skip, p)
        /\ UNCHANGED <<engineState, running, pathState, socketVars, netUp,
                       caller, sender, metrics>>

WatchdogRecovers ==
    /\ watchdog.at = "recoverWrite"
    /\ pathState' = [pathState EXCEPT ![watchdog.path] = "RECOVERING"]
    /\ WatchdogMoves("activateRead", watchdog.path)
    /\ UNCHANGED <<engineState, running, socketVars, netUp, caller, sender, metrics>>

WatchdogActivates ==
    /\ watchdog.at = "activateWrite"
    /\ pathState' = [pathState EXCEPT ![watchdog.path] = "ACTIVE"]
    /\ WatchdogMoves("check", watchdog.path + 1)
    /\ UNCHANGED <<engineState, running, socketVars, netUp, caller, sender, metrics>>

Watchdog ==
    \/ WatchdogWakes \/ WatchdogChecks \/ WatchdogConnects
    \/ WatchdogReads("recoverRead", "RECOVERING", "recoverWrite", "activateRead")
    \/ WatchdogRecovers
    \/ WatchdogReads("activateRead", "ACTIVE", "activateWrite", "check")
    \/ WatchdogActivates

-----------------------------------------------------------------------------
(* The metrics loop's updateEngineDegradedState(): any() reads the paths   *)
(* one at a time, then the engine moves between ACTIVE and DEGRADED.       *)

MetricsWakes ==
    /\ metrics.at = "idle" /\ running
    /\ metrics' = [at |-> "scan", path |-> 1, next |-> metrics.next]
    /\ UNCHANGED <<engineState, running, pathState, socketVars, netUp, caller, sender, watchdog>>

MetricsSkips ==
    /\ metrics.at = "scan" /\ metrics.path <= N
    /\ pathState[metrics.path] \notin Usable
    /\ metrics' = [metrics EXCEPT !.path = @ + 1]
    /\ UNCHANGED <<engineState, running, pathState, socketVars, netUp, caller, sender, watchdog>>

(* Mutant: an engine with no usable path is declared in ERROR. *)
Wanted_Error(anyUsable) ==
    IF ~anyUsable /\ engineState = "ACTIVE" THEN {"ERROR"} ELSE {}

(* Mutant: DEGRADED is never left again. *)
Wanted_Sticky(anyUsable) ==
    IF ~anyUsable /\ engineState = "ACTIVE" THEN {"DEGRADED"} ELSE {}

(* The state the when asks for, if any. *)
Wanted(anyUsable) ==
    IF ~anyUsable /\ engineState = "ACTIVE" THEN {"DEGRADED"}
    ELSE IF anyUsable /\ engineState = "DEGRADED" THEN {"ACTIVE"}
    ELSE {}

MetricsDecides ==
    LET anyUsable == metrics.path <= N
    IN  /\ metrics.at = "scan"
        /\ anyUsable => pathState[metrics.path] \in Usable
        /\ \/ /\ Wanted(anyUsable) = {}
              /\ metrics' = [metrics EXCEPT !.at = "idle"]
           \/ \E next \in Wanted(anyUsable) :
                  metrics' = [at |-> "write", path |-> metrics.path, next |-> next]
        /\ UNCHANGED <<engineState, running, pathState, socketVars, netUp, caller, sender, watchdog>>

MetricsWrites ==
    /\ metrics.at = "write"
    /\ engineState' = metrics.next
    /\ metrics' = [metrics EXCEPT !.at = "idle"]
    /\ UNCHANGED <<running, pathState, socketVars, netUp, caller, sender, watchdog>>

Metrics == MetricsWakes \/ MetricsSkips \/ MetricsDecides \/ MetricsWrites

-----------------------------------------------------------------------------
(* The platform: networks come and go, and the collector may finalize a    *)
(* socket that no field holds any more.                                    *)

NetworkLost(p) ==
    /\ netUp[p] /\ faults < MaxFaults
    /\ netUp' = [netUp EXCEPT ![p] = FALSE]
    /\ faults' = faults + 1
    /\ UNCHANGED <<engineState, running, pathState, socket, leaked, threadVars>>

NetworkBack(p) ==
    /\ ~netUp[p]
    /\ netUp' = [netUp EXCEPT ![p] = TRUE]
    /\ UNCHANGED <<engineState, running, pathState, socketVars, threadVars>>

SocketCollected(p) ==
    /\ leaked[p]
    /\ leaked' = [leaked EXCEPT ![p] = FALSE]
    /\ UNCHANGED <<engineState, running, pathState, socket, faults, netUp, threadVars>>

Platform(p) == NetworkLost(p) \/ NetworkBack(p) \/ SocketCollected(p)

Starting == Start \/ StartPath \/ Launch \/ StartEnd

Next ==
    \/ Starting \/ Stop \/ Watchdog \/ Metrics
    \/ \E p \in Path : Sender(p) \/ Platform(p)

Spec == Init /\ [][Next]_engineVars

(* Dispatchers.IO keeps running every loop, and a call that has begun goes *)
(* on: a frame that was polled is sent.  Nothing obliges the application   *)
(* to send another one, the caller to stop the engine, a network to come   *)
(* back or the collector to run.                                           *)
FairSpec ==
    /\ Spec
    /\ WF_engineVars(Starting)
    /\ WF_engineVars(Stop /\ caller.at # "started")
    /\ WF_engineVars(Watchdog)
    /\ WF_engineVars(Metrics)
    /\ \A p \in Path : WF_engineVars(SendFrame(p) \/ FailWrite(p))

-----------------------------------------------------------------------------
TypeOK ==
    /\ engineState \in BondingState
    /\ running \in BOOLEAN
    /\ pathState \in [Path -> PathState]
    /\ socket \in [Path -> {"none", "open", "closed"}]
    /\ leaked \in [Path -> BOOLEAN]
    /\ netUp \in [Path -> BOOLEAN]
    /\ faults \in 0..MaxFaults
    /\ caller \in [at : {"new", "starting", "launched", "started", "stopWrite",
                         "cancel", "closing", "clearing", "closeWrite",
                         "endWrite", "stopped"},
                   path : 1..(N + 1)]
    /\ sender \in [Path -> {"idle", "sending", "failing"}]
    /\ watchdog \in [at : {"idle", "check", "connect", "recoverRead",
                           "recoverWrite", "activateRead", "activateWrite"},
                     path : 1..(N + 1)]
    /\ metrics \in [at : {"idle", "scan", "write"},
                    path : 1..(N + 1),
                    next : {"ACTIVE", "DEGRADED"}]

(* Until stop() begins to close them, a path the scheduler may pick has an *)
(* open socket: no race between the sender's failure, the watchdog's       *)
(* reconnect and start() makes a path usable before connect() succeeded.   *)
UsablePathHasSocket ==
    \A p \in Path :
        (caller.at \notin {"closing", "clearing", "closeWrite", "endWrite", "stopped"}
         /\ pathState[p] \in Usable)
            => socket[p] = "open"

ComesBack(p) == <>[](running /\ netUp[p]) => []<>(pathState[p] \in Usable)

(* A path on an ephemeral port whose network stays up in a running engine  *)
(* always becomes usable again, however its failure, the refused           *)
(* reconnects and the races between sender and watchdog fell out.          *)
FailedPathRecovers == \A p \in Path \ FixedPorts : ComesBack(p)

(* The stream is busy on p: while the sender loop may poll, it finds a     *)
(* frame again and again.                                                  *)
KeepsSending(p) ==
    []<>(sender[p] = "sending" \/ pathState[p] \in {"FAILED", "CLOSED"})

(* A path whose network is gone for good ends up FAILED, even when the     *)
(* watchdog's late write to ACTIVE undid the sender's FAILED, as long as   *)
(* frames keep being sent on it.  The condition is needed: only the sender *)
(* loop reports a failed send(), sendHeartbeat() swallows the exception,   *)
(* so a path that carries no frame stays ACTIVE without its network.       *)
DeadPathSettlesFailed ==
    \A p \in Path :
        (<>[](running /\ ~netUp[p]) /\ KeepsSending(p))
            => <>[](pathState[p] = "FAILED")

(* The engine's own state settles on what its paths are: DEGRADED when     *)
(* none is usable any more, ACTIVE when one stays usable.                  *)
EngineTracksPaths ==
    /\ <>[](running /\ \A p \in Path : pathState[p] \notin Usable)
           => <>[](engineState = "DEGRADED")
    /\ \A p \in Path :
           <>[](running /\ pathState[p] \in Usable)
               => <>[](engineState = "ACTIVE")
=============================================================================
