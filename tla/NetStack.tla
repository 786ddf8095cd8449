------------------------------ MODULE NetStack ------------------------------
(***************************************************************************)
(* The user-space TCP stack of the Aether core (netstack.rs) and the relay *)
(* that feeds it (relay_tunneled in socks.rs).                             *)
(*                                                                         *)
(* One task runs the loop run(): poll the sockets, service every flow,     *)
(* drain the backlog, reap dead flows, take in what the applications sent. *)
(* pc is its stage.  Everything else runs beside it: one relay per flow,   *)
(* which reaches the loop through the bounded channel data_in and is       *)
(* reached through the flow's bounded channel to_app, and the far ends.    *)
(* The sockets themselves are smoltcp's: an external library, modelled by  *)
(* the states and buffers netstack.rs looks at.  What the network brings   *)
(* is applied to a socket by poll(), so the far ends act at stage "poll".  *)
(*                                                                         *)
(* The bytes a client uploads are numbered 1, 2, ... per flow; those of a  *)
(* download are only counted.  Time is counted in ticks, at most one per   *)
(* pass of the loop (an idle pass sleeps at most MAX_IDLE_TICK).           *)
(***************************************************************************)
EXTENDS Naturals, Sequences, Functions, FiniteSets

CONSTANTS
    Flows,         \* connections a client may ask for, once each
    UpBytes,       \* bound: bytes a client uploads on a flow
    DownBytes,     \* bound: bytes a far end sends on a flow
    MaxChunk,      \* RELAY_CHUNK, in bytes of the model
    QueueCap,      \* capacity of data_in
    IngestMax,     \* MAX_APP_INGEST_PER_TICK
    AppCap,        \* capacity of to_app, in chunks
    PendingMax,    \* max_tcp_pending()
    SendBuf,       \* tcp_tx_buf()
    RecvBuf,       \* tcp_rx_buf()
    BacklogMax,    \* MAX_BACKLOG_BYTES
    MinBudget,     \* MIN_FLOW_QUEUE_BYTES
    MaxBudget,     \* the ceiling of a flow's uplink budget
    StallWarn,     \* TCP_DRAIN_STALL_WARN, in ticks
    StallReset,    \* TCP_DRAIN_STALL_TIMEOUT
    FlapLimit,     \* STALL_FLAP_LIMIT
    Wedge,         \* TCP_WEDGE_TIMEOUT
    Linger,        \* ORPHAN_LINGER
    ConnectLimit,  \* TcpLimits::connect
    CreditWait     \* CREDIT_WAIT_MAX

ASSUME NetStackAssumption ==
    /\ {UpBytes, DownBytes} \subseteq Nat
    /\ {MaxChunk, QueueCap, IngestMax, AppCap, PendingMax, SendBuf, RecvBuf, BacklogMax,
        MinBudget, MaxBudget, StallWarn, StallReset, FlapLimit, Wedge, Linger,
        ConnectLimit, CreditWait} \subseteq Nat \ {0}
    /\ MinBudget <= MaxBudget
    /\ StallWarn <= StallReset /\ StallReset <= Wedge

VARIABLES
    pc,       \* stage of run()
    cmds,     \* the command channel: OpenTcp of a flow, and its carrier flag
    dataIn,   \* the channel data_in
    backlog,  \* Backlog::queue; its blocked set and byte count are derived
    tcp,      \* tcp_conns
    sock,     \* the smoltcp socket of each flow
    credit,   \* the FlowCredit of each flow
    app,      \* the relay of each flow
    peer,     \* the far end of each flow
    quiet,    \* ticks since the far end last acknowledged (history)
    broken    \* flows that were reset, by either side (history)

vars == <<pc, cmds, dataIn, backlog, tcp, sock, credit, app, peer, quiet, broken>>

UpSeq == Seq(1..UpBytes)

DataInType == [kind : {"data", "close"}, id : Flows, data : UpSeq]

SockStates == {"none", "SynSent", "Established", "FinWait", "FinWait2",
               "Closing", "CloseWait", "LastAck", "TimeWait", "Closed"}

TcpState ==
    [live : BOOLEAN, carrier : BOOLEAN, established : BOOLEAN, half_closed : BOOLEAN,
     aborted : BOOLEAN, warned : BOOLEAN, orphaned : BOOLEAN,
     pending : UpSeq, accepted : Nat, acked_high : Nat,
     send_queue_high : 0..SendBuf, stalls : 0..FlapLimit,
     drain_age : 0..StallReset, progress_age : 0..Wedge,
     orphan_age : 0..Linger, connect_age : 0..ConnectLimit]

TypeOK ==
    /\ pc \in {"poll", "service", "backlog", "drain", "ended"}
    /\ cmds \in SUBSET [id : Flows, carrier : BOOLEAN]
    /\ dataIn \in Seq(DataInType) /\ Len(dataIn) <= QueueCap
    /\ backlog \in Seq(DataInType)
    /\ tcp \in [Flows -> TcpState]
    /\ sock \in [Flows -> [state : SockStates, tx : UpSeq, rx : 0..RecvBuf]]
    /\ credit \in [Flows -> [sent : 0..UpBytes, acked : Nat,
                             cap : MinBudget..MaxBudget, closed : BOOLEAN]]
    /\ app \in [Flows -> [conn : {"none", "wait", "ok", "error"},
                          read : 0..UpBytes, hand : UpSeq, reserved : BOOLEAN,
                          wait : 0..CreditWait, up_done : BOOLEAN,
                          gone : BOOLEAN, queue : Seq(1..RecvBuf),
                          got : Nat, eof : BOOLEAN]]
    /\ \A f \in Flows : /\ Len(app[f].queue) <= AppCap
                       /\ Len(tcp[f].pending) <= PendingMax
                       /\ Len(sock[f].tx) <= SendBuf
    /\ peer \in [Flows -> [got : UpSeq, sent : 0..DownBytes, fin : BOOLEAN]]
    /\ quiet \in [Flows -> 0..StallReset]
    /\ broken \in SUBSET Flows

NewTcpState ==
    [live |-> TRUE, carrier |-> FALSE, established |-> FALSE,
     half_closed |-> FALSE, aborted |-> FALSE, warned |-> FALSE, orphaned |-> FALSE,
     pending |-> <<>>, accepted |-> 0, acked_high |-> 0,
     send_queue_high |-> 0, stalls |-> 0, drain_age |-> 0,
     progress_age |-> 0, orphan_age |-> 0, connect_age |-> 0]

NoTcpState == [NewTcpState EXCEPT !.live = FALSE]

NoSocket == [state |-> "none", tx |-> <<>>, rx |-> 0]

Init ==
    /\ pc = "poll"
    /\ cmds = {}
    /\ dataIn = <<>>
    /\ backlog = <<>>
    /\ tcp = [f \in Flows |-> NoTcpState]
    /\ sock = [f \in Flows |-> NoSocket]
    /\ credit = [f \in Flows |->
          [sent |-> 0, acked |-> 0, cap |-> MinBudget, closed |-> FALSE]]
    /\ app = [f \in Flows |->
          [conn |-> "none", read |-> 0, hand |-> <<>>, reserved |-> FALSE,
           wait |-> 0, up_done |-> FALSE, gone |-> FALSE,
           queue |-> <<>>, got |-> 0, eof |-> FALSE]]
    /\ peer = [f \in Flows |-> [got |-> <<>>, sent |-> 0, fin |-> FALSE]]
    /\ quiet = [f \in Flows |-> 0]
    /\ broken = {}

-----------------------------------------------------------------------------
(* smoltcp's sockets (external): what netstack.rs calls and asks.           *)

SockClose(k) ==
    CASE k.state = "Established" -> [k EXCEPT !.state = "FinWait"]
      [] k.state = "CloseWait"   -> [k EXCEPT !.state = "LastAck"]
      [] k.state = "SynSent"     -> [k EXCEPT !.state = "Closed"]
      [] OTHER                   -> k

SockAbort(k) == [k EXCEPT !.state = "Closed"]

CanSend(k) ==
    k.state \in {"Established", "CloseWait"} /\ Len(k.tx) < SendBuf

(* The network, applied by iface.poll().                                    *)

PeerUnchanged ==
    UNCHANGED <<pc, cmds, dataIn, backlog, tcp, credit, app>>

PeerAccepts(f) ==
    /\ pc = "poll"
    /\ sock[f].state = "SynSent"
    /\ sock' = [sock EXCEPT ![f].state = "Established"]
    /\ PeerUnchanged /\ UNCHANGED <<peer, quiet, broken>>

\* A reset arrives, or the socket's own timeout (set_timeout) ends it.
PeerResets(f) ==
    /\ pc = "poll"
    /\ sock[f].state \notin {"none", "Closed"}
    /\ sock' = [sock EXCEPT ![f].state = "Closed"]
    /\ broken' = broken \cup {f}
    /\ PeerUnchanged /\ UNCHANGED <<peer, quiet>>

PeerAcks(f) ==
    /\ pc = "poll"
    /\ sock[f].state \in {"Established", "FinWait", "Closing", "CloseWait", "LastAck"}
    /\ \E n \in 1..Len(sock[f].tx) :
        /\ peer' = [peer EXCEPT ![f].got = @ \o SubSeq(sock[f].tx, 1, n)]
        /\ sock' = [sock EXCEPT ![f].tx = SubSeq(@, n + 1, Len(@))]
    /\ quiet' = [quiet EXCEPT ![f] = 0]
    /\ PeerUnchanged /\ UNCHANGED broken

PeerAcksFin(f) ==
    /\ pc = "poll"
    /\ sock[f].tx = <<>>
    /\ \/ /\ sock[f].state = "FinWait"
          /\ sock' = [sock EXCEPT ![f].state = "FinWait2"]
       \/ /\ sock[f].state = "Closing"
          /\ sock' = [sock EXCEPT ![f].state = "TimeWait"]
       \/ /\ sock[f].state = "LastAck"
          /\ sock' = [sock EXCEPT ![f].state = "Closed"]
    /\ PeerUnchanged /\ UNCHANGED <<peer, quiet, broken>>

PeerSends(f) ==
    /\ pc = "poll"
    /\ sock[f].state \in {"Established", "FinWait", "FinWait2"}
    /\ sock[f].rx < RecvBuf
    /\ peer[f].sent < DownBytes
    /\ sock' = [sock EXCEPT ![f].rx = @ + 1]
    /\ peer' = [peer EXCEPT ![f].sent = @ + 1]
    /\ PeerUnchanged /\ UNCHANGED <<quiet, broken>>

PeerFins(f) ==
    /\ pc = "poll"
    /\ \/ /\ sock[f].state = "Established"
          /\ sock' = [sock EXCEPT ![f].state = "CloseWait"]
       \/ /\ sock[f].state = "FinWait"
          /\ sock' = [sock EXCEPT ![f].state = "Closing"]
       \/ /\ sock[f].state = "FinWait2"
          /\ sock' = [sock EXCEPT ![f].state = "TimeWait"]
    /\ peer' = [peer EXCEPT ![f].fin = TRUE]
    /\ PeerUnchanged /\ UNCHANGED <<quiet, broken>>

-----------------------------------------------------------------------------
(* Taking in what the applications sent: try_handle_data() and the backlog. *)

DataMsg(f, data) == [kind |-> "data", id |-> f, data |-> data]
CloseMsg(f) == [kind |-> "close", id |-> f, data |-> <<>>]

Holds(q, f) == \E i \in 1..Len(q) : q[i].id = f
BacklogBytes(q) == SumFunction([i \in 1..Len(q) |-> Len(q[i].data)])

\* Backlog::purge() of some flows.
Purged(q, ids) ==
    LET kept[n \in 0..Len(q)] ==
            IF n = 0 THEN <<>>
            ELSE IF q[n].id \in ids THEN kept[n - 1] ELSE Append(kept[n - 1], q[n])
    IN  kept[Len(q)]

\* Mutant: pending takes the whole chunk.
TryHandleDataWhole(t, d) ==
    IF ~t[d.id].live THEN [tcp |-> t, left |-> <<>>]
    ELSE IF d.kind = "close"
    THEN [tcp |-> [t EXCEPT ![d.id].half_closed = TRUE], left |-> <<>>]
    ELSE [tcp |-> [t EXCEPT ![d.id].pending = @ \o d.data], left |-> <<>>]

\* Mutant: a chunk that fits in part is queued again whole.
TryHandleDataAgain(t, d) ==
    LET space == PendingMax - Len(t[d.id].pending)
        fits  == IF Len(d.data) <= space THEN Len(d.data) ELSE space
    IN  IF ~t[d.id].live \/ d.kind = "close"
        THEN TryHandleDataWhole(t, d)
        ELSE [tcp  |-> [t EXCEPT ![d.id].pending = @ \o SubSeq(d.data, 1, fits)],
              left |-> IF fits = Len(d.data) THEN <<>> ELSE <<d>>]

\* The flow after it took what it can of d, and what is left of d.
TryHandleData(t, d) ==
    LET space == PendingMax - Len(t[d.id].pending)
        fits  == IF Len(d.data) <= space THEN Len(d.data) ELSE space
    IN  IF ~t[d.id].live
        THEN [tcp |-> t, left |-> <<>>]
        ELSE IF d.kind = "close"
        THEN [tcp |-> [t EXCEPT ![d.id].half_closed = TRUE], left |-> <<>>]
        ELSE [tcp  |-> [t EXCEPT ![d.id].pending = @ \o SubSeq(d.data, 1, fits)],
              left |-> IF fits = Len(d.data) THEN <<>>
                       ELSE <<DataMsg(d.id, SubSeq(d.data, fits + 1, Len(d.data)))>>]

\* Mutant: a message does not wait behind its own flow's backlog.
IngestOvertaking(s, d) ==
    LET r == TryHandleData(s.tcp, d)
    IN  [s EXCEPT !.tcp = r.tcp, !.backlog = @ \o r.left]

\* One message of data_in: behind its own flow's backlog, if there is any.
Ingest(s, d) ==
    IF Holds(s.backlog, d.id)
    THEN [s EXCEPT !.backlog = Append(@, d)]
    ELSE LET r == TryHandleData(s.tcp, d)
         IN  [s EXCEPT !.tcp = r.tcp, !.backlog = @ \o r.left]

\* The messages of q one after another.
IngestAll(t, b, q) ==
    LET s[n \in 0..Len(q)] ==
            IF n = 0 THEN [tcp |-> t, backlog |-> b] ELSE Ingest(s[n - 1], q[n])
    IN  s[Len(q)]

\* drain_backlog(): a flow that refuses an entry keeps its later ones too.
DrainBacklogFrom(t, q) == IngestAll(t, <<>>, q)

\* drain_app_data() stops after n messages of q: data_in is empty, the budget of a
\* pass is spent, or the backlog is full.
StopsAfter(t, b, q, n) ==
    \/ n = Len(q) \/ n = IngestMax
    \/ BacklogBytes(IngestAll(t, b, SubSeq(q, 1, n)).backlog) >= BacklogMax

Taken(t, b, q) ==
    CHOOSE n \in 0..Len(q) : /\ StopsAfter(t, b, q, n)
                             /\ \A m \in 0..(n - 1) : ~StopsAfter(t, b, q, m)

-----------------------------------------------------------------------------
(* service_tcp().  A flow in service is t, its TcpState, k, its socket, a,  *)
(* its relay, c, its credit; reset records that the stack reset it.         *)

\* One more, saturating: no comparison tells counts above limit apart.
Aged(n, limit) == IF n < limit THEN n + 1 ELSE n

Serviced(f) ==
    [t |-> tcp[f], k |-> sock[f], a |-> app[f], c |-> credit[f], reset |-> FALSE]

Removed(b) ==
    [b EXCEPT !.t = NoTcpState, !.k = NoSocket, !.c.closed = TRUE]

Answer(b, conn) == [b EXCEPT !.a.conn = IF @ = "wait" THEN conn ELSE @]

\* Bytes of pending into the send buffer.
Feed(b) ==
    LET room == SendBuf - Len(b.k.tx)
        n    == IF Len(b.t.pending) <= room THEN Len(b.t.pending) ELSE room
    IN  IF b.t.pending = <<>>
        THEN [b EXCEPT !.t.progress_age = 0]
        ELSE IF CanSend(b.k)
        THEN [b EXCEPT !.t.progress_age = 0, !.t.accepted = @ + n,
                       !.t.pending = SubSeq(@, n + 1, Len(@)),
                       !.k.tx = @ \o SubSeq(b.t.pending, 1, n)]
        ELSE b

Acked(b) == b.t.accepted - Len(b.k.tx)

\* Mutant: alive only if the queue is shorter than in the last pass.
DrainingIfShorter(b) == b.k.tx = <<>> \/ Len(b.k.tx) < b.t.send_queue_high

\* Whether the far end took anything since the flow was last found alive.
Draining(b) == b.k.tx = <<>> \/ Acked(b) > b.t.acked_high

\* The liveness check.  expired: STALL_FLAP_WINDOW has passed since the last
\* stall.  cap: the budget the measured drain rate gives.
CheckDrain(b, expired, cap) ==
    LET stall  == ~Draining(b) /\ ~b.t.warned /\ b.t.drain_age >= StallWarn
        stalls == IF ~stall THEN b.t.stalls
                  ELSE IF expired THEN 1
                  ELSE Aged(b.t.stalls, FlapLimit)
        t1     == IF Draining(b)
                  THEN [b.t EXCEPT !.drain_age = 0, !.acked_high = Acked(b),
                                   !.warned = FALSE]
                  ELSE [b.t EXCEPT !.warned = @ \/ stall, !.stalls = stalls]
    IN  [b EXCEPT !.t = [t1 EXCEPT !.send_queue_high = Len(b.k.tx)],
                  !.c.acked = IF Acked(b) > @ THEN Acked(b) ELSE @,
                  !.c.cap = cap,
                  !.reset = stall /\ stalls >= FlapLimit /\ ~b.t.carrier]

FlapReset(b) ==
    IF b.reset
    THEN [b EXCEPT !.t.pending = <<>>, !.t.stalls = 0, !.t.warned = FALSE,
                   !.c.closed = TRUE, !.k = SockAbort(@)]
    ELSE b

HalfClose(b) ==
    IF b.t.half_closed /\ b.t.pending = <<>>
    THEN [b EXCEPT !.k = SockClose(@)]
    ELSE b

\* What arrived goes to the relay as one chunk, if to_app has room.
Deliver(b) ==
    IF ~b.a.gone /\ Len(b.a.queue) < AppCap /\ b.k.rx > 0
    THEN [b EXCEPT !.a.queue = Append(@, b.k.rx), !.k.rx = 0]
    ELSE b

\* The end of a pass for a flow whose relay is still there.
Settle(b) ==
    IF b.k.state \in {"Closed", "TimeWait"} THEN Removed(b)
    ELSE IF b.k.state = "CloseWait" THEN [b EXCEPT !.k = SockClose(@)]
    ELSE b

\* Mutant: an orphan is closed and never aborted.
OrphanClosed(b) == Settle([b EXCEPT !.t.orphaned = TRUE, !.k = SockClose(@)])

\* The relay is gone: close, or abort what lingers or still delivers.
Orphan(b) ==
    IF b.k.rx > 0 \/ (b.t.orphaned /\ b.t.orphan_age >= Linger)
    THEN [b EXCEPT !.t.orphaned = TRUE, !.t.aborted = TRUE, !.k = SockAbort(@)]
    ELSE Settle([b EXCEPT !.t.orphaned = TRUE, !.k = SockClose(@)])

ServiceEstablished(b, expired, cap) ==
    LET d == Deliver(HalfClose(FlapReset(CheckDrain(Feed(b), expired, cap))))
    IN  IF d.a.gone THEN Orphan(d) ELSE Settle(d)

ServiceTcp(b, expired, cap) ==
    CASE b.t.aborted -> Removed(b)
      [] ~b.t.aborted /\ b.t.established ->
            ServiceEstablished(b, expired, cap)
      [] ~b.t.aborted /\ ~b.t.established
            /\ b.k.state \in {"Established", "CloseWait"} ->
            ServiceEstablished(
                Answer([b EXCEPT !.t.established = TRUE, !.t.connect_age = 0], "ok"),
                expired, cap)
      [] ~b.t.aborted /\ ~b.t.established
            /\ b.k.state \notin {"Established", "CloseWait"} ->
            IF \/ b.k.state \in {"Closed", "TimeWait"}
               \/ b.a.gone
               \/ b.t.connect_age >= ConnectLimit
            THEN Removed(Answer(b, "error"))
            ELSE b

-----------------------------------------------------------------------------
(* The loop run().                                                          *)

\* iface.poll(); what the network brought was applied by the Peer actions.
Poll ==
    /\ pc = "poll"
    /\ pc' = "service"
    /\ UNCHANGED <<cmds, dataIn, backlog, tcp, sock, credit, app, peer, quiet, broken>>

\* The TcpClose each connection of S tries to queue as it is dropped, one after
\* another, while data_in has room.
DroppedCloses(S, room) ==
    LET closes == {CloseMsg(f) : f \in S}
    IN  {q \in UNION {[1..n -> closes] : n \in 0..room} :
            IsInjective(q) /\ (Len(q) = room \/ Range(q) = closes)}

\* A connection answered to a caller that is gone is dropped at once.
Service ==
    /\ pc = "service"
    /\ pc' = "backlog"
    /\ \E expired \in BOOLEAN, cap \in MinBudget..MaxBudget :
        LET s == [f \in Flows |->
                    IF tcp[f].live THEN ServiceTcp(Serviced(f), expired, cap)
                    ELSE Serviced(f)]
        IN  /\ tcp' = [f \in Flows |-> s[f].t]
            /\ sock' = [f \in Flows |-> s[f].k]
            /\ app' = [f \in Flows |-> s[f].a]
            /\ credit' = [f \in Flows |-> s[f].c]
            /\ broken' = broken \cup {f \in Flows : s[f].reset}
            /\ \E q \in DroppedCloses(
                     {f \in Flows : /\ app[f].conn = "wait"
                                   /\ s[f].a.conn = "ok" /\ s[f].a.gone},
                     QueueCap - Len(dataIn)) :
                 dataIn' = dataIn \o q
    /\ UNCHANGED <<cmds, backlog, peer, quiet>>

\* reap_wedged(), first the flows nothing is acknowledged on ...
Stalled(t) ==
    {f \in Flows : /\ t[f].live /\ ~t[f].carrier
                   /\ t[f].send_queue_high > 0
                   /\ t[f].drain_age >= StallReset}

\* ... then the blocked flows that take nothing, or are gone.
Wedged(t, q) ==
    {f \in Flows : /\ Holds(q, f)
                   /\ ~t[f].live \/ (~t[f].carrier /\ t[f].progress_age >= Wedge)}

Backlog ==
    /\ pc = "backlog"
    /\ pc' = "drain"
    /\ LET d    == DrainBacklogFrom(tcp, backlog)
           st   == Stalled(d.tcp)
           dead == st \cup Wedged(d.tcp, Purged(d.backlog, st))
           hit  == {f \in dead : d.tcp[f].live}
       IN  /\ backlog' = Purged(d.backlog, dead)
           /\ tcp' = [f \in Flows |->
                        IF f \in hit THEN [d.tcp[f] EXCEPT !.pending = <<>>]
                        ELSE d.tcp[f]]
           /\ sock' = [f \in Flows |->
                        IF f \in hit THEN SockAbort(sock[f]) ELSE sock[f]]
           /\ credit' = [f \in Flows |->
                        IF f \in hit THEN [credit[f] EXCEPT !.closed = TRUE]
                        ELSE credit[f]]
           /\ broken' = broken \cup hit
    /\ UNCHANGED <<cmds, dataIn, app, peer, quiet>>

Asks(cs, f) == \E c \in cs : c.id = f

\* handle_cmd(OpenTcp): a new flow, or a connect() that fails at once.
OpenFlows(t, ok) ==
    [f \in Flows |-> IF Asks(ok, f)
                     THEN [NewTcpState EXCEPT
                             !.carrier = (CHOOSE c \in ok : c.id = f).carrier]
                     ELSE t[f]]

\* A tick of the clock for the ages of every flow.
AgeTcp(t) ==
    [f \in Flows |->
        IF ~t[f].live THEN t[f]
        ELSE [t[f] EXCEPT
                !.drain_age = Aged(@, StallReset),
                !.progress_age = Aged(@, Wedge),
                !.orphan_age = IF t[f].orphaned THEN Aged(@, Linger) ELSE @,
                !.connect_age = IF t[f].established THEN @ ELSE Aged(@, ConnectLimit)]]

\* The drains that end a pass.  tick: the pass slept, or took, a tick of time.
Drain(tick) ==
    /\ pc = "drain"
    /\ pc' = "poll"
    /\ cmds' = {}
    /\ \E ok \in SUBSET cmds :
        LET n == Taken(tcp, backlog, dataIn)
            d == IngestAll(tcp, backlog, SubSeq(dataIn, 1, n))
            t == OpenFlows(d.tcp, ok)
        IN  /\ dataIn' = SubSeq(dataIn, n + 1, Len(dataIn))
            /\ backlog' = d.backlog
            /\ tcp' = IF tick THEN AgeTcp(t) ELSE t
            /\ sock' = [f \in Flows |->
                          IF Asks(ok, f) THEN [NoSocket EXCEPT !.state = "SynSent"]
                          ELSE sock[f]]
            /\ app' = [f \in Flows |->
                 [app[f] EXCEPT
                    !.conn = IF Asks(cmds \ ok, f) THEN "error" ELSE @,
                    !.wait = IF tick /\ app[f].hand # <<>> /\ ~app[f].reserved
                             THEN Aged(@, CreditWait) ELSE @]]
    /\ quiet' = [f \in Flows |->
                    IF sock[f].tx = <<>> THEN 0
                    ELSE IF tick THEN Aged(quiet[f], StallReset) ELSE quiet[f]]
    /\ UNCHANGED <<credit, peer, broken>>

\* A closed queue: the tunnel is over and the stack with all its flows.
Shutdown ==
    /\ pc = "drain"
    /\ pc' = "ended"
    /\ cmds' = {}
    /\ dataIn' = <<>>
    /\ backlog' = <<>>
    /\ tcp' = [f \in Flows |-> NoTcpState]
    /\ sock' = [f \in Flows |-> NoSocket]
    /\ app' = [f \in Flows |->
                 [app[f] EXCEPT !.conn = IF @ = "wait" THEN "error" ELSE @]]
    /\ UNCHANGED <<credit, peer, quiet, broken>>

-----------------------------------------------------------------------------
(* The relay of a flow: StackHandle, TcpSender and relay_tunneled().        *)

RelayUnchanged == UNCHANGED <<pc, backlog, tcp, sock, peer, quiet, broken>>

OpenTcp(f) ==
    /\ app[f].conn = "none"
    /\ IF pc = "ended"
       THEN app' = [app EXCEPT ![f].conn = "error"] /\ UNCHANGED cmds
       ELSE /\ app' = [app EXCEPT ![f].conn = "wait"]
            /\ \E c \in BOOLEAN : cmds' = cmds \cup {[id |-> f, carrier |-> c]}
    /\ RelayUnchanged /\ UNCHANGED <<dataIn, credit>>

\* The caller stops waiting and drops the response channel.
GiveUp(f) ==
    /\ app[f].conn = "wait" /\ ~app[f].gone
    /\ app' = [app EXCEPT ![f].gone = TRUE]
    /\ RelayUnchanged /\ UNCHANGED <<cmds, dataIn, credit>>

Uploading(f) == app[f].conn = "ok" /\ ~app[f].gone /\ ~app[f].up_done

ReadClient(f) ==
    /\ Uploading(f)
    /\ app[f].hand = <<>>
    /\ \E n \in 1..MaxChunk :
        /\ app[f].read + n <= UpBytes
        /\ app' = [app EXCEPT ![f].hand = [i \in 1..n |-> app[f].read + i],
                              ![f].read = @ + n, ![f].wait = 0]
    /\ RelayUnchanged /\ UNCHANGED <<cmds, dataIn, credit>>

Outstanding(c) == c.sent - c.acked

\* FlowCredit::reserve().
Reserve(f) ==
    LET n == Len(app[f].hand)  c == credit[f] IN
    /\ Uploading(f)
    /\ n > 0 /\ ~app[f].reserved
    /\ \/ c.closed
       \/ Outstanding(c) = 0
       \/ Outstanding(c) + n <= c.cap
       \/ app[f].wait >= CreditWait
    /\ credit' = [credit EXCEPT ![f].sent = @ + n]
    /\ app' = [app EXCEPT ![f].reserved = TRUE, ![f].wait = 0]
    /\ RelayUnchanged /\ UNCHANGED <<cmds, dataIn>>

\* data_in.send() waits for room, and fails once the stack has ended.
Push(f) ==
    /\ Uploading(f)
    /\ app[f].reserved
    /\ pc = "ended" \/ Len(dataIn) < QueueCap
    /\ dataIn' = IF pc = "ended" THEN dataIn
                 ELSE Append(dataIn, DataMsg(f, app[f].hand))
    /\ app' = [app EXCEPT ![f].hand = <<>>, ![f].reserved = FALSE,
                          ![f].up_done = (pc = "ended")]
    /\ RelayUnchanged /\ UNCHANGED <<cmds, credit>>

\* The client ended its upload: sender.close().
CloseUpload(f) ==
    /\ Uploading(f)
    /\ app[f].hand = <<>>
    /\ pc = "ended" \/ Len(dataIn) < QueueCap
    /\ dataIn' = IF pc = "ended" THEN dataIn ELSE Append(dataIn, CloseMsg(f))
    /\ app' = [app EXCEPT ![f].up_done = TRUE]
    /\ RelayUnchanged /\ UNCHANGED <<cmds, credit>>

Recv(f) ==
    /\ app[f].conn = "ok" /\ ~app[f].gone
    /\ app[f].queue # <<>>
    /\ app' = [app EXCEPT ![f].got = @ + Head(app[f].queue), ![f].queue = Tail(@)]
    /\ RelayUnchanged /\ UNCHANGED <<cmds, dataIn, credit>>

\* The relay returns and drops its sender, whose TcpClose is tried only once.
DropRelay(f, eof) ==
    /\ app' = [app EXCEPT ![f].gone = TRUE, ![f].eof = eof, ![f].hand = <<>>,
                          ![f].reserved = FALSE, ![f].wait = 0, ![f].queue = <<>>]
    /\ dataIn' = IF pc = "ended" \/ Len(dataIn) = QueueCap THEN dataIn
                 ELSE Append(dataIn, CloseMsg(f))
    /\ RelayUnchanged /\ UNCHANGED <<cmds, credit>>

RecvEof(f) ==
    /\ app[f].conn = "ok" /\ ~app[f].gone
    /\ ~tcp[f].live
    /\ app[f].queue = <<>>
    /\ DropRelay(f, TRUE)

\* The client is gone, or nothing moved for the linger of a half-closed relay.
Vanish(f) ==
    /\ app[f].conn = "ok" /\ ~app[f].gone
    /\ DropRelay(f, FALSE)

-----------------------------------------------------------------------------

Next ==
    \/ Poll \/ Service \/ Backlog \/ Shutdown
    \/ \E tick \in BOOLEAN : Drain(tick)
    \/ \E f \in Flows :
        \/ PeerAccepts(f) \/ PeerResets(f) \/ PeerAcks(f)
        \/ PeerAcksFin(f) \/ PeerSends(f) \/ PeerFins(f)
        \/ OpenTcp(f) \/ GiveUp(f)
        \/ ReadClient(f) \/ Reserve(f) \/ Push(f) \/ CloseUpload(f)
        \/ Recv(f) \/ RecvEof(f) \/ Vanish(f)

\* The loop runs pass after pass and time passes, until the stack is shut down.
\* (WF of the loop's steps with SF of Drain(TRUE), stated without ENABLED.)
\* No fairness of far ends, clients or relays is assumed.
Fairness == <>[](pc = "ended") \/ []<><<Drain(TRUE)>>_vars

Spec == Init /\ [][Next]_vars /\ Fairness

-----------------------------------------------------------------------------
(* Properties.                                                              *)

\* The end of an upload, as TcpClose carries it, among the bytes of a flow.
End == 0

Mark(ended) == IF ended THEN <<End>> ELSE <<>>

\* What a message means to flow f, and what the messages of q mean to it in turn.
Item(d, f) ==
    IF d.id # f THEN <<>> ELSE IF d.kind = "close" THEN <<End>> ELSE d.data

Stream(q, f) ==
    LET bytes[n \in 0..Len(q)] ==
            IF n = 0 THEN <<>> ELSE bytes[n - 1] \o Item(q[n], f)
    IN  bytes[Len(q)]

\* What the client gave flow f, wherever it is now, oldest first, and the end of it
\* if the client ended it.
Upload(f) ==
    peer[f].got \o sock[f].tx \o tcp[f].pending \o Mark(tcp[f].half_closed)
    \o Stream(backlog, f) \o Stream(dataIn, f) \o app[f].hand

\* Of a flow that is up, was not reset and still has its relay, every byte read
\* from the client is in exactly one place and in order: the far end, the send
\* buffer, pending, the backlog, data_in or the relay's hand; and the end of the
\* upload is behind all of them.  try_handle_data() splits chunks, and the backlog
\* and data_in feed pending by turns.
UplinkConserved ==
    \A f \in Flows :
        tcp[f].live /\ f \notin broken /\ app[f].conn = "ok" /\ ~app[f].gone
        => Upload(f) = [i \in 1..app[f].read |-> i] \o Mark(app[f].up_done)

\* The stack ends an upload only after the whole of it: a socket that sent its
\* FIN because the client finished holds or has delivered all the client wrote.
\* The TcpClose must not overtake data of its flow in the backlog or pending.
FinAfterData ==
    \A f \in Flows :
        sock[f].state \in {"FinWait", "FinWait2", "Closing", "TimeWait"} /\ ~app[f].gone
        => /\ app[f].up_done
           /\ Len(peer[f].got) + Len(sock[f].tx) = app[f].read

\* The stack resets a flow by itself only when the far end has been silent:
\* nothing of a non-empty send buffer acknowledged for the stall time, up to the
\* one tick a pass may be late, however often the buffer was refilled meanwhile.
\* A carrier is never reset.  Exempt are flows whose far end or relay ended the
\* stream: their socket sends no more, so what is left in pending is wedged.
ResetOnlySilent ==
    [][\A f \in broken' \ broken :
          pc # "poll" =>
            /\ ~tcp[f].carrier
            /\ \/ peer[f].fin \/ app[f].gone
               \/ quiet[f] + 1 >= IF pc = "service" THEN StallWarn ELSE StallReset]_vars

\* Nothing stays with the stack for ever: an open is answered, bytes in the send
\* buffer of a flow that is no carrier are acknowledged or the flow is ended,
\* and a flow whose relay went away is removed.
FlowSettles ==
    \A f \in Flows :
        /\ app[f].conn = "wait" ~> app[f].conn # "wait"
        /\ sock[f].tx # <<>> /\ ~tcp[f].carrier ~> sock[f].tx = <<>>
        /\ app[f].gone /\ tcp[f].live ~> ~tcp[f].live

\* A client that sees a clean end of a stream the far end ended itself, over a
\* flow nobody reset, has all the far end sent.
AnswerWhole ==
    \A f \in Flows :
        app[f].eof /\ peer[f].fin /\ f \notin broken /\ pc # "ended"
        => app[f].got = peer[f].sent
=============================================================================
