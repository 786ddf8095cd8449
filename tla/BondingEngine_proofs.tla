------------------------ MODULE BondingEngine_proofs ------------------------
(***************************************************************************)
(* For any number of paths, any mixture of fixed and ephemeral ports and   *)
(* any number of faults, a path the scheduler may pick has an open socket. *)
(***************************************************************************)
EXTENDS BondingEngine, TLAPS

(* stop() has begun to close the sockets. *)
Closing == caller.at \in {"closing", "clearing", "closeWrite", "endWrite", "stopped"}

(* A thread in the middle of its work on a path is at one of the paths. *)
AtAPath ==
    /\ caller.at \in {"clearing", "closeWrite"} => caller.path \in Path
    /\ watchdog.at \notin {"idle", "check"} => watchdog.path \in Path

(* From a connect() that succeeded to the write of ACTIVE the watchdog     *)
(* relies on a socket that nobody but stop() takes away.                   *)
ReconnectHasSocket ==
    (watchdog.at \notin {"idle", "check", "connect"} /\ ~Closing)
        => socket[watchdog.path] = "open"

(* The inductive invariant. *)
IInv == TypeOK /\ AtAPath /\ UsablePathHasSocket /\ ReconnectHasSocket

(* Before start() no path is usable and no socket is open. *)
LEMMA InitIInv == Init => IInv
<1> SUFFICES ASSUME Init PROVE IInv
  OBVIOUS
<1>1. running \in BOOLEAN /\ leaked \in [Path -> BOOLEAN] /\ netUp \in [Path -> BOOLEAN]
  BY Zenon DEF Init
<1>2. TypeOK
  BY <1>1, EngineAssumption DEF Init, TypeOK, Path, PathState, BondingState
<1> QED
  BY <1>2 DEF Init, IInv, AtAPath, UsablePathHasSocket, ReconnectHasSocket,
              Usable, Closing, Path

(* What a connect() that succeeds, or throws, does to the sockets. *)
Opened(p) ==
    /\ socket' \in [Path -> {"none", "open", "closed"}]
    /\ socket'[p] = "open"
    /\ \A q \in Path : socket[q] = "open" => socket'[q] = "open"
    /\ leaked' \in [Path -> BOOLEAN]
    /\ faults' \in 0..MaxFaults

Refused ==
    /\ socket' = socket
    /\ leaked' \in [Path -> BOOLEAN]
    /\ faults' \in 0..MaxFaults

(* connect(), whatever it does, takes no open socket from any path. *)
LEMMA ConnectOpens ==
    ASSUME TypeOK, NEW p \in Path
    PROVE  (Connect(p) => Opened(p)) /\ (ConnectThrows(p) => Refused)
<1>1. ASSUME Connect(p) PROVE leaked' \in [Path -> BOOLEAN]
  BY <1>1, Zenon DEF Connect, TypeOK
<1>2. ASSUME Connect(p)
      PROVE  /\ socket' \in [Path -> {"none", "open", "closed"}]
             /\ socket'[p] = "open"
             /\ \A q \in Path : socket[q] = "open" => socket'[q] = "open"
             /\ faults' \in 0..MaxFaults
  BY <1>2 DEF Connect, TypeOK
<1>3. ASSUME ConnectThrows(p) PROVE leaked' \in [Path -> BOOLEAN]
  BY <1>3, Zenon DEF ConnectThrows, socketVars, TypeOK
<1>4. ASSUME ConnectThrows(p) PROVE socket' = socket /\ faults' \in 0..MaxFaults
  BY <1>4, EngineAssumption DEF ConnectThrows, socketVars, TypeOK
<1> QED
  BY <1>1, <1>2, <1>3, <1>4 DEF Opened, Refused

(* start() writes ACTIVE only after connect() has assigned the socket. *)
LEMMA StartingIInv == ASSUME IInv, Starting PROVE IInv'
<1> USE EngineAssumption
        DEF IInv, TypeOK, AtAPath, UsablePathHasSocket, ReconnectHasSocket,
            Closing, Usable, Path, socketVars, PathState, BondingState
<1>1. CASE Start
  BY <1>1 DEF Start
<1>2. CASE StartPath
  <2> DEFINE p == caller.path
  <2>1. p \in Path
    BY <1>2 DEF StartPath
  <2>2. (Connect(p) => Opened(p)) /\ (ConnectThrows(p) => Refused)
    BY <2>1, ConnectOpens
  <2>3. /\ caller'.at = "starting" /\ caller'.path \in 1..(N + 1)
        /\ caller' \in [at : {"new", "starting", "launched", "started", "stopWrite",
                              "cancel", "closing", "clearing", "closeWrite",
                              "endWrite", "stopped"},
                        path : 1..(N + 1)]
    <3>1. caller.at = "starting" /\ caller' = [caller EXCEPT !.path = p + 1]
      BY <1>2 DEF StartPath
    <3>2. p + 1 \in 1..(N + 1)
      BY <2>1
    <3> QED
      BY <3>1, <3>2
  <2>4. UNCHANGED <<engineState, running, netUp, sender, watchdog, metrics>>
    BY <1>2 DEF StartPath
  <2>5. CASE Connect(p) /\ pathState' = [pathState EXCEPT ![p] = "ACTIVE"]
    <3>1. TypeOK'
      BY <2>1, <2>2, <2>3, <2>4, <2>5 DEF Opened
    <3>2. UsablePathHasSocket'
      BY <1>2, <2>1, <2>2, <2>5 DEF Opened, StartPath
    <3>3. AtAPath'
      BY <2>3, <2>4
    <3>4. ReconnectHasSocket'
      BY <1>2, <2>2, <2>4, <2>5 DEF Opened, StartPath
    <3> QED
      BY <3>1, <3>2, <3>3, <3>4
  <2>6. CASE ConnectThrows(p) /\ pathState' = [pathState EXCEPT ![p] = "FAILED"]
    <3>1. TypeOK'
      BY <2>1, <2>2, <2>3, <2>4, <2>6 DEF Refused
    <3>2. UsablePathHasSocket'
      BY <1>2, <2>1, <2>2, <2>6 DEF Refused, StartPath
    <3>3. AtAPath'
      BY <2>3, <2>4
    <3>4. ReconnectHasSocket'
      BY <1>2, <2>2, <2>4, <2>6 DEF Refused, StartPath
    <3> QED
      BY <3>1, <3>2, <3>3, <3>4
  <2> QED
    BY <1>2, <2>5, <2>6 DEF StartPath
<1>3. CASE Launch
  BY <1>3 DEF Launch
<1>4. CASE StartEnd
  BY <1>4 DEF StartEnd
<1> QED
  BY <1>1, <1>2, <1>3, <1>4 DEF Starting

(* stop() takes a path out of use before disconnect() closes its socket. *)
LEMMA StopIInv == ASSUME IInv, Stop PROVE IInv'
<1> USE EngineAssumption
        DEF IInv, TypeOK, AtAPath, UsablePathHasSocket, ReconnectHasSocket,
            Closing, Usable, Path, socketVars, PathState, BondingState
<1>1. CASE StopRead
  BY <1>1 DEF StopRead
<1>2. CASE StopWrite
  BY <1>2 DEF StopWrite
<1>3. CASE Cancel
  <2>1. running' \in BOOLEAN
    BY <1>3, Zenon DEF Cancel
  <2> QED
    BY <1>3, <2>1 DEF Cancel
<1>4. CASE CloseSocket
  BY <1>4 DEF CloseSocket
<1>5. CASE ClearSocket
  <2>1. leaked' \in [Path -> BOOLEAN]
    BY <1>5, Zenon DEF ClearSocket
  <2>2. /\ caller' \in [at : {"new", "starting", "launched", "started", "stopWrite",
                              "cancel", "closing", "clearing", "closeWrite",
                              "endWrite", "stopped"},
                        path : 1..(N + 1)]
        /\ caller'.at \in {"closing", "closeWrite"}
        /\ caller'.at = "closeWrite" => caller'.path \in Path
    <3>1. CASE caller' = [caller EXCEPT !.at = "closeWrite"]
      BY <1>5, <3>1 DEF ClearSocket
    <3>2. CASE caller' = [at |-> "closing", path |-> caller.path + 1]
      <4>1. caller.path + 1 \in 1..(N + 1)
        BY <1>5 DEF ClearSocket
      <4> QED
        BY <3>2, <4>1
    <3> QED
      BY <1>5, <3>1, <3>2 DEF ClearSocket
  <2> QED
    BY <1>5, <2>1, <2>2 DEF ClearSocket
<1>6. CASE CloseWrite
  BY <1>6 DEF CloseWrite
<1>7. CASE StopEndRead
  BY <1>7 DEF StopEndRead
<1>8. CASE StopEndWrite
  BY <1>8 DEF StopEndWrite
<1> QED
  BY <1>1, <1>2, <1>3, <1>4, <1>5, <1>6, <1>7, <1>8 DEF Stop

(* A sender loop only ever takes its path out of use. *)
LEMMA SenderIInv == ASSUME IInv, NEW p \in Path, Sender(p) PROVE IInv'
<1> USE EngineAssumption
        DEF IInv, TypeOK, AtAPath, UsablePathHasSocket, ReconnectHasSocket,
            Closing, Usable, Path, socketVars, PathState, BondingState
<1>1. CASE TakeFrame(p)
  BY <1>1 DEF TakeFrame
<1>2. CASE SendFrame(p)
  BY <1>2 DEF SendFrame
<1>3. CASE FailWrite(p)
  BY <1>3 DEF FailWrite
<1> QED
  BY <1>1, <1>2, <1>3 DEF Sender

(* The metrics loop writes the engine's state and no path's. *)
LEMMA MetricsIInv == ASSUME IInv, Metrics PROVE IInv'
<1> USE EngineAssumption
        DEF IInv, TypeOK, AtAPath, UsablePathHasSocket, ReconnectHasSocket,
            Closing, Usable, Path, socketVars, PathState, BondingState
<1> DEFINE M == [at : {"idle", "scan", "write"},
                 path : 1..(N + 1),
                 next : {"ACTIVE", "DEGRADED"}]
<1>1. CASE MetricsWakes
  <2>1. metrics' = [at |-> "scan", path |-> 1, next |-> metrics.next]
    BY <1>1 DEF MetricsWakes
  <2>2. metrics' \in M
    BY <2>1
  <2> QED
    BY <1>1, <2>2 DEF MetricsWakes
<1>2. CASE MetricsSkips
  <2>1. metrics' = [metrics EXCEPT !.path = metrics.path + 1] /\ metrics.path <= N
    BY <1>2 DEF MetricsSkips
  <2>2. metrics.path + 1 \in 1..(N + 1)
    BY <2>1
  <2>3. metrics' \in M
    BY <2>1, <2>2
  <2> QED
    BY <1>2, <2>3 DEF MetricsSkips
<1>3. CASE MetricsDecides
  <2>1. \/ metrics' = [metrics EXCEPT !.at = "idle"]
        \/ \E next \in {"ACTIVE", "DEGRADED"} :
               metrics' = [at |-> "write", path |-> metrics.path, next |-> next]
    BY <1>3 DEF MetricsDecides, Wanted
  <2>2. metrics' \in M
    BY <2>1
  <2> QED
    BY <1>3, <2>2 DEF MetricsDecides
<1>4. CASE MetricsWrites
  BY <1>4 DEF MetricsWrites
<1> QED
  BY <1>1, <1>2, <1>3, <1>4 DEF Metrics

(* Networks come and go, and lost sockets are collected, without touching
   the socket a path refers to. *)
LEMMA PlatformIInv == ASSUME IInv, NEW p \in Path, Platform(p) PROVE IInv'
<1> USE EngineAssumption
        DEF IInv, TypeOK, AtAPath, UsablePathHasSocket, ReconnectHasSocket,
            Closing, Usable, Path, socketVars, threadVars
<1>1. CASE NetworkLost(p)
  <2>1. netUp' \in [Path -> BOOLEAN]
    BY <1>1, Zenon DEF NetworkLost
  <2> QED
    BY <1>1, <2>1 DEF NetworkLost
<1>2. CASE NetworkBack(p)
  <2>1. netUp' \in [Path -> BOOLEAN]
    BY <1>2, Zenon DEF NetworkBack
  <2> QED
    BY <1>2, <2>1 DEF NetworkBack
<1>3. CASE SocketCollected(p)
  <2>1. leaked' \in [Path -> BOOLEAN]
    BY <1>3, Zenon DEF SocketCollected
  <2> QED
    BY <1>3, <2>1 DEF SocketCollected
<1> QED
  BY <1>1, <1>2, <1>3 DEF Platform

(* The watchdog writes ACTIVE only after its own connect() has assigned a
   socket, and that socket is still there unless stop() is closing them. *)
LEMMA WatchdogIInv == ASSUME IInv, Watchdog PROVE IInv'
<1> USE EngineAssumption
        DEF IInv, TypeOK, AtAPath, UsablePathHasSocket, ReconnectHasSocket,
            Closing, Usable, Path, socketVars, PathState, BondingState,
            WatchdogMoves
<1>1. CASE WatchdogWakes
  BY <1>1 DEF WatchdogWakes
<1>2. CASE WatchdogChecks
  BY <1>2 DEF WatchdogChecks
<1>3. CASE WatchdogConnects
  <2> DEFINE p == watchdog.path
  <2>1. p \in Path
    BY <1>3 DEF WatchdogConnects
  <2>2. (Connect(p) => Opened(p)) /\ (ConnectThrows(p) => Refused)
    BY <2>1, ConnectOpens
  <2>3. UNCHANGED <<engineState, running, pathState, netUp, caller, sender, metrics>>
    BY <1>3 DEF WatchdogConnects
  <2>4. CASE Connect(p) /\ watchdog' = [at |-> "recoverRead", path |-> p]
    BY <2>1, <2>2, <2>3, <2>4 DEF Opened
  <2>5. CASE ConnectThrows(p) /\ watchdog' = [at |-> "check", path |-> p + 1]
    BY <2>1, <2>2, <2>3, <2>5 DEF Refused
  <2> QED
    BY <1>3, <2>4, <2>5 DEF WatchdogConnects
<1>4. CASE WatchdogReads("recoverRead", "RECOVERING", "recoverWrite", "activateRead")
  BY <1>4 DEF WatchdogReads
<1>5. CASE WatchdogRecovers
  BY <1>5 DEF WatchdogRecovers
<1>6. CASE WatchdogReads("activateRead", "ACTIVE", "activateWrite", "check")
  BY <1>6 DEF WatchdogReads
<1>7. CASE WatchdogActivates
  BY <1>7 DEF WatchdogActivates
<1> QED
  BY <1>1, <1>2, <1>3, <1>4, <1>5, <1>6, <1>7 DEF Watchdog

(* Every step of the engine keeps the invariant. *)
LEMMA NextIInv == IInv /\ [Next]_engineVars => IInv'
<1> SUFFICES ASSUME IInv, [Next]_engineVars PROVE IInv'
  OBVIOUS
<1>1. CASE Next
  BY <1>1, StartingIInv, StopIInv, WatchdogIInv, MetricsIInv, SenderIInv,
     PlatformIInv DEF Next
<1>2. CASE UNCHANGED engineVars
  BY <1>2 DEF engineVars, IInv, TypeOK, AtAPath, UsablePathHasSocket,
              ReconnectHasSocket, Closing
<1> QED
  BY <1>1, <1>2

(* The inductive invariant holds for every set of paths, fixed or ephemeral
   ports, and any number of faults. *)
THEOREM Invariance == Spec => []IInv
  BY InitIInv, NextIInv, PTL DEF Spec

(* The engine's state, its paths, sockets and threads keep their types. *)
THEOREM TypeCorrect == Spec => []TypeOK
  BY Invariance, PTL DEF IInv

(* No race between start(), the senders' failures and the watchdog's       *)
(* reconnects makes a path usable that has no open socket, for any number  *)
(* of paths and faults.                                                    *)
THEOREM UsablePathsHaveSockets == Spec => []UsablePathHasSocket
  BY Invariance, PTL DEF IInv
=============================================================================
