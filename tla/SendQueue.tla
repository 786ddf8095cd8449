----------------------------- MODULE SendQueue -----------------------------
(***************************************************************************)
(* BoundedSendQueue (bonding/buffer/SendQueue.kt): the outbound queue of   *)
(* one path.  offer() and poll() hold the queue's lock, so each is one     *)
(* action.  Frames are numbered in the order they are offered.             *)
(***************************************************************************)
EXTENDS Integers, Sequences, SendQueueOps

CONSTANT
    MaxOffers     \* bound: how many frames are offered

ASSUME OffersAssumption == MaxOffers \in Nat

VARIABLES
    deque,
    droppedCount,
    offers,       \* how many frames have been offered, which numbers them
    polled        \* every frame poll() has returned, in order

queueVars == <<deque, droppedCount, offers, polled>>

Frame == [id : 1..MaxOffers, urgent : BOOLEAN]

QueueInit ==
    /\ deque = <<>>
    /\ droppedCount = 0
    /\ offers = 0
    /\ polled = <<>>

-----------------------------------------------------------------------------
Offer(urgent) ==
    /\ offers < MaxOffers
    /\ offers' = offers + 1
    /\ deque' = Offered(deque, [id |-> offers + 1, urgent |-> urgent])
    /\ droppedCount' = droppedCount + Drops(deque)
    /\ UNCHANGED polled

(* Mutant: the sender takes the most recent frame. *)
Poll_Newest ==
    /\ deque # <<>>
    /\ polled' = Append(polled, deque[Len(deque)])
    /\ deque' = SubSeq(deque, 1, Len(deque) - 1)
    /\ UNCHANGED <<droppedCount, offers>>

Poll ==
    /\ deque # <<>>
    /\ polled' = Append(polled, Head(deque))
    /\ deque' = Tail(deque)
    /\ UNCHANGED <<droppedCount, offers>>

QueueNext == Poll \/ \E urgent \in BOOLEAN : Offer(urgent)

QueueSpec == QueueInit /\ [][QueueNext]_queueVars

-----------------------------------------------------------------------------
QueueTypeOK ==
    /\ deque \in Seq(Frame)
    /\ droppedCount \in 0..MaxOffers
    /\ offers \in 0..MaxOffers
    /\ polled \in Seq(Frame)

(* No unlimited queue: it never outgrows its capacity, eviction included.  *)
Bounded == Len(deque) <= Capacity

(* Every offered frame is queued, was handed to the sender, or is counted  *)
(* in droppedCount; eviction and refusal count one frame each.             *)
Conserved == offers = Len(deque) + Len(polled) + droppedCount

(* Frames reach the sender in the order they were offered, whatever was    *)
(* evicted from the middle of the queue in between.                        *)
SentInOfferOrder ==
    \A i, j \in 1..Len(polled \o deque) :
        i < j => (polled \o deque)[i].id < (polled \o deque)[j].id

(* A queued CONTROL or PRIORITY frame is never displaced: it stays queued  *)
(* until poll() hands it out.                                              *)
UrgentNeverDisplaced ==
    [][\A i \in DOMAIN deque :
          deque[i].urgent =>
              \/ \E j \in DOMAIN deque' : deque'[j] = deque[i]
              \/ \E j \in DOMAIN polled' : polled'[j] = deque[i]]_queueVars
=============================================================================
