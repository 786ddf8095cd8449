---------------------------- MODULE BondedStream ----------------------------
(***************************************************************************)
(* One direction of a bonded stream, end to end: send() of the sending     *)
(* engine with its RetransmitCache, scheduler and per-path queues, the     *)
(* sender loops, UDP, and the receiving engine's reorder buffer with its   *)
(* request to the sender's cache.                                          *)
(*                                                                         *)
(* The scheduler is any choice among the usable paths (AdaptiveScheduler   *)
(* says which).  How a path fails and comes back is in BondingEngine; here *)
(* a path is up or down.  send() has one caller, so a call that makes      *)
(* several frames is several Sends.                                        *)
(***************************************************************************)
EXTENDS Integers, Sequences, ReorderBuffer, SendQueueOps

CONSTANTS
    Paths,
    MayFail,         \* the paths whose transport can fail
    CacheCapacity,   \* capacity of RetransmitCache
    MaxWireLoss      \* bound: datagrams that UDP loses

ASSUME StreamAssumption ==
    /\ MayFail \subseteq Paths
    /\ CacheCapacity \in Nat \ {0}
    /\ MaxWireLoss \in Nat

VARIABLES
    nextSequence,    \* FrameProcessor.nextSequence
    cacheFrom,       \* the cache answers for cacheFrom..nextSequence-1
    up,              \* the paths the scheduler may pick
    queue,           \* per path, its sendQueue
    wire,            \* datagrams in flight
    wireLost

senderVars == <<nextSequence, cacheFrom, up, queue, wire, wireLost>>
streamVars == <<bufferVars, senderVars>>

StreamInit ==
    /\ BufferInit
    /\ nextSequence = 0
    /\ cacheFrom = 0
    /\ up = Paths
    /\ queue = [p \in Paths |-> <<>>]
    /\ wire = {}
    /\ wireLost = 0

-----------------------------------------------------------------------------
(* RetransmitCache.  Frames are recorded in sequence order, so both the    *)
(* capacity and the time limit take the oldest first and what the cache    *)
(* can answer is a range.                                                  *)

Cached(seq) == cacheFrom <= seq /\ seq < nextSequence

(* record(): the oldest entries beyond the capacity are evicted. *)
RecordedFrom(seq) ==
    IF seq + 1 - cacheFrom > CacheCapacity THEN cacheFrom + 1 ELSE cacheFrom

(* The oldest entry passes ttlMs. *)
CacheExpires ==
    /\ cacheFrom < nextSequence
    /\ cacheFrom' = cacheFrom + 1
    /\ UNCHANGED <<bufferVars, nextSequence, up, queue, wire, wireLost>>

-----------------------------------------------------------------------------
(* send() and dispatch() of one frame: recorded, then queued on a usable   *)
(* path, or dropped when there is none.                                    *)
Send ==
    /\ nextSequence \in Sequence
    /\ nextSequence' = nextSequence + 1
    /\ cacheFrom' = RecordedFrom(nextSequence)
    /\ \/ \E p \in up :
              queue' = [queue EXCEPT ![p] =
                            Offered(@, [id |-> nextSequence, urgent |-> FALSE])]
       \/ up = {} /\ UNCHANGED queue
    /\ UNCHANGED <<bufferVars, up, wire, wireLost>>

(* The sender loop of a path that is up polls its queue and transmits. *)
Transmit(p) ==
    /\ p \in up
    /\ queue[p] # <<>>
    /\ queue' = [queue EXCEPT ![p] = Tail(@)]
    /\ wire' = wire \cup {Head(queue[p]).id}
    /\ UNCHANGED <<bufferVars, nextSequence, cacheFrom, up, wireLost>>

(* send() throws: the polled frame is gone and the path is FAILED; what is *)
(* still queued stays queued.                                              *)
TransmitFails(p) ==
    /\ p \in up \cap MayFail
    /\ queue[p] # <<>>
    /\ queue' = [queue EXCEPT ![p] = Tail(@)]
    /\ up' = up \ {p}
    /\ UNCHANGED <<bufferVars, nextSequence, cacheFrom, wire, wireLost>>

(* The watchdog has reconnected the path. *)
PathBack(p) ==
    /\ p \notin up
    /\ up' = up \cup {p}
    /\ UNCHANGED <<bufferVars, nextSequence, cacheFrom, queue, wire, wireLost>>

-----------------------------------------------------------------------------
(* UDP and the receiving engine.                                           *)

(* A datagram arrives, in any order; a duplicate stays in flight. *)
Arrive(seq) ==
    /\ seq \in wire
    /\ Push(seq)
    /\ wire' \in {wire, wire \ {seq}}
    /\ UNCHANGED <<nextSequence, cacheFrom, up, queue, wireLost>>

Lose(seq) ==
    /\ seq \in wire
    /\ wireLost < MaxWireLoss
    /\ wireLost' = wireLost + 1
    /\ wire' = wire \ {seq}
    /\ UNCHANGED <<bufferVars, nextSequence, cacheFrom, up, queue>>

(* The reassembly loop polls; SelectiveRecoveryManager.request() answers a *)
(* due request from the sender's cache.                                    *)
Reassemble ==
    /\ ReadOrdered(Cached(expectedSequence))
    /\ UNCHANGED senderVars

Clock == Tick /\ UNCHANGED senderVars

StreamNext ==
    \/ Send \/ CacheExpires \/ Reassemble \/ Clock
    \/ \E p \in Paths : Transmit(p) \/ TransmitFails(p) \/ PathBack(p)
    \/ \E seq \in Sequence : Arrive(seq) \/ Lose(seq)

StreamSpec == StreamInit /\ [][StreamNext]_streamVars

(* The loops of both engines run on, time passes, the watchdog brings a    *)
(* failed path back, and a datagram that is not lost arrives.  Nothing     *)
(* obliges the application to send.                                        *)
FairStreamSpec ==
    /\ StreamSpec
    /\ WF_streamVars(Reassemble)
    /\ WF_streamVars(Clock)
    /\ \A p \in Paths : WF_streamVars(Transmit(p)) /\ WF_streamVars(PathBack(p))
    /\ \A seq \in Sequence : WF_streamVars(Arrive(seq))

-----------------------------------------------------------------------------
Queued(p) == {queue[p][i].id : i \in DOMAIN queue[p]}

StreamTypeOK ==
    /\ TypeOK
    /\ nextSequence \in 0..(MaxSequence + 1)
    /\ cacheFrom \in 0..nextSequence
    /\ up \subseteq Paths
    /\ queue \in [Paths -> Seq([id : Sequence, urgent : BOOLEAN])]
    /\ \A p \in Paths : Len(queue[p]) <= Capacity
    /\ wire \subseteq Sequence
    /\ wireLost \in 0..MaxWireLoss

(* The stream keeps the promise of OrderedStream: what comes out was sent, *)
(* in order and once, across lossy, reordering, duplicating paths that     *)
(* fail and come back, retransmissions and gaps given up on.               *)
Promise == INSTANCE OrderedStream WITH accepted <- nextSequence, out <- delivered
KeepsPromise == Promise!Spec

(* The receiver never waits for, asks for or gives up on a frame beyond    *)
(* the ones that were sent.                                                *)
ReceiverBehindSender == expectedSequence <= nextSequence

InTransit == wire \cup UNION {Queued(p) : p \in Paths}

(* The receiver waits for frame seq, which is neither held nor on its way, *)
(* and UDP has lost all that it will.                                      *)
Gone(seq) ==
    /\ expectedSequence = seq
    /\ seq \notin buffered \cup InTransit
    /\ wireLost = MaxWireLoss

(* An ordinary loss does not stop the stream: a frame that is gone, because *)
(* dispatch() found no path, send() threw, the queue overflowed or UDP lost *)
(* it, is noticed when a later frame of the window arrives, and is then     *)
(* recovered or given up.                                                   *)
LossIsPassed ==
    \A seq \in Sequence :
        (Gone(seq) /\ \E later \in wire : later > seq /\ ~BeyondWindow(later))
            ~> (expectedSequence > seq)

(* "the far side's own gap detection will request it once a path does come *)
(* back, same as an ordinary loss": as LossIsPassed, but whichever later   *)
(* frame arrives.                                                          *)
OutageIsPassed ==
    \A seq \in Sequence :
        (Gone(seq) /\ \E later \in wire : later > seq) ~> (expectedSequence > seq)

(* No frame in transit can move the stream, no timer is running that would *)
(* ask for the missing one or skip it, and the next frame to be sent is    *)
(* already beyond the window.                                              *)
Dead ==
    /\ BeyondWindow(nextSequence)
    /\ gapAge = NoGap
    /\ \A seq \in InTransit : BeyondWindow(seq) \/ seq < expectedSequence
    /\ expectedSequence \notin buffered

(* Dead is what its name says: once the whole window in front of the       *)
(* expected frame is lost and no timer runs, nothing that is sent, comes   *)
(* back up or arrives later revives the stream, however long it is.        *)
DeadIsForever == [][Dead => Dead']_streamVars
=============================================================================
