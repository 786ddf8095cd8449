------------------------ MODULE BondedStream_proofs ------------------------
(***************************************************************************)
(* The bonded stream implements OrderedStream, for every set of paths,     *)
(* every queue, cache and window size, and any number of losses.           *)
(***************************************************************************)
EXTENDS BondedStream, Buffers_proofs

SentNumbers == 0..(nextSequence - 1)
SentFrame == [id : SentNumbers, urgent : BOOLEAN]

(* Nothing is anywhere in the stream that was not sent. *)
OnlySent ==
    /\ ReceiverBehindSender
    /\ buffered \subseteq SentNumbers
    /\ wire \subseteq SentNumbers
    /\ queue \in [Paths -> Seq(SentFrame)]

(* The sender's half of the type invariant. *)
SenderOK ==
    /\ nextSequence \in 0..(MaxSequence + 1)
    /\ cacheFrom \in 0..nextSequence
    /\ up \subseteq Paths
    /\ \A p \in Paths : Len(queue[p]) <= Capacity
    /\ wireLost \in 0..MaxWireLoss

(* The inductive invariant: the reorder buffer's own, and that everything  *)
(* in transit was sent.                                                    *)
SInv == IInv /\ SenderOK /\ OnlySent

(* Every step of the stream is a step of the reorder buffer, or leaves it  *)
(* alone.                                                                  *)
LEMMA StreamStepsBuffer == [StreamNext]_streamVars => [Next]_bufferVars
<1> SUFFICES ASSUME [StreamNext]_streamVars PROVE [Next]_bufferVars
  OBVIOUS
<1>1. CASE Send \/ CacheExpires
  BY <1>1 DEF Send, CacheExpires
<1>2. CASE Reassemble
  <2>1. Cached(expectedSequence) \in BOOLEAN
    BY Zenon DEF Cached
  <2> QED
    BY <1>2, <2>1, Zenon DEF Reassemble, Next
<1>3. CASE Clock
  BY <1>3 DEF Clock, Next
<1>4. ASSUME NEW p \in Paths, Transmit(p) \/ TransmitFails(p) \/ PathBack(p)
      PROVE  [Next]_bufferVars
  BY <1>4 DEF Transmit, TransmitFails, PathBack
<1>5. ASSUME NEW seq \in Sequence, Arrive(seq) \/ Lose(seq)
      PROVE  [Next]_bufferVars
  BY <1>5 DEF Arrive, Lose, Next
<1>6. CASE UNCHANGED streamVars
  BY <1>6 DEF streamVars
<1> QED
  BY <1>1, <1>2, <1>3, <1>4, <1>5, <1>6 DEF StreamNext

(* At first nothing was sent and everything is empty. *)
LEMMA InitSInv == StreamInit => SInv
<1> SUFFICES ASSUME StreamInit PROVE SInv
  OBVIOUS
<1>1. IInv
  BY InitIInv DEF StreamInit, Init
<1>2. queue \in [Paths -> Seq(SentFrame)] /\ \A p \in Paths : Len(queue[p]) = 0
  <2>1. <<>> \in Seq(SentFrame) /\ Len(<<>>) = 0
    BY EmptySeq
  <2> QED
    BY <2>1, Zenon DEF StreamInit
<1>3. SenderOK
  BY <1>2, BufferAssumption, CapacityAssumption, StreamAssumption
     DEF StreamInit, SenderOK
<1>4. OnlySent
  BY <1>2, BufferAssumption
     DEF StreamInit, BufferInit, OnlySent, ReceiverBehindSender
<1> QED
  BY <1>1, <1>3, <1>4 DEF SInv

(* send() takes a fresh number, records it in the cache and queues it on one
   path or on none: whatever is on the way afterwards was sent. *)
LEMMA SendSInv == ASSUME SInv, Send PROVE SenderOK' /\ OnlySent'
<1> USE BufferAssumption, CapacityAssumption, StreamAssumption
<1> DEFINE f == [id |-> nextSequence, urgent |-> FALSE]
<1>1. /\ nextSequence \in 0..MaxSequence /\ nextSequence' = nextSequence + 1
      /\ cacheFrom \in 0..nextSequence /\ expectedSequence \in Nat
      /\ expectedSequence <= nextSequence
  BY DEF Send, Sequence, SInv, SenderOK, OnlySent, ReceiverBehindSender, IInv, TypeOK
<1>2. SentNumbers \subseteq SentNumbers' /\ nextSequence \in SentNumbers'
  BY <1>1 DEF SentNumbers
<1>3. SentFrame \subseteq SentFrame' /\ f \in SentFrame'
  BY <1>2, Zenon DEF SentFrame
<1>4. \A q \in Paths : queue[q] \in Seq(SentFrame') /\ Len(queue[q]) <= Capacity
  BY <1>3, SeqMonotone DEF SInv, SenderOK, OnlySent
<1>5. queue' \in [Paths -> Seq(SentFrame')] /\ \A q \in Paths : Len(queue'[q]) <= Capacity
  <2>1. queue \in [Paths -> Seq(SentFrame')]
    BY <1>4 DEF SInv, OnlySent
  <2>2. CASE queue' = queue
    BY <1>4, <2>1, <2>2
  <2>3. ASSUME NEW p \in up, queue' = [queue EXCEPT ![p] = Offered(queue[p], f)]
        PROVE  queue' \in [Paths -> Seq(SentFrame')]
               /\ \A q \in Paths : Len(queue'[q]) <= Capacity
    <3>1. p \in Paths
      BY DEF SInv, SenderOK
    <3> HIDE DEF f
    <3>2. Offered(queue[p], f) \in Seq(SentFrame') /\ Len(Offered(queue[p], f)) <= Capacity
      BY <1>3, <1>4, <3>1, OfferedProperties
    <3> QED
      BY <1>4, <2>1, <2>3, <3>1, <3>2
  <2> QED
    BY <2>2, <2>3 DEF Send
<1>6. cacheFrom' \in 0..nextSequence'
  <2>1. cacheFrom' = cacheFrom \/ cacheFrom' = cacheFrom + 1
    BY DEF Send, RecordedFrom
  <2> QED
    BY <1>1, <2>1
<1>7. SenderOK'
  BY <1>1, <1>5, <1>6 DEF SInv, SenderOK, Send
<1>8. /\ buffered' = buffered /\ wire' = wire /\ expectedSequence' = expectedSequence
  BY DEF Send, bufferVars
<1>9. OnlySent'
  BY <1>1, <1>2, <1>5, <1>8 DEF SInv, OnlySent, ReceiverBehindSender
<1> QED
  BY <1>7, <1>9

(* A sender loop moves one frame from its queue to the wire, or loses it. *)
LEMMA TransmitSInv ==
    ASSUME SInv, NEW p \in Paths, Transmit(p) \/ TransmitFails(p) \/ PathBack(p)
    PROVE  SenderOK' /\ OnlySent'
<1>1. /\ nextSequence' = nextSequence /\ cacheFrom' = cacheFrom /\ wireLost' = wireLost
      /\ buffered' = buffered /\ expectedSequence' = expectedSequence
      /\ up' \in SUBSET Paths
  BY DEF SInv, SenderOK, Transmit, TransmitFails, PathBack, bufferVars
<1>2. SentNumbers' = SentNumbers /\ SentFrame' = SentFrame
  BY <1>1 DEF SentNumbers, SentFrame
<1>3. queue \in [Paths -> Seq(SentFrame)] /\ \A q \in Paths : Len(queue[q]) <= Capacity
  BY DEF SInv, SenderOK, OnlySent
<1>4. CASE PathBack(p)
  BY <1>1, <1>2, <1>3, <1>4
     DEF PathBack, SInv, SenderOK, OnlySent, ReceiverBehindSender
<1>5. CASE Transmit(p) \/ TransmitFails(p)
  <2>1. queue[p] \in Seq(SentFrame) /\ queue[p] # <<>> /\ Len(queue[p]) \in Nat
    BY <1>3, <1>5, LenProperties DEF Transmit, TransmitFails
  <2>2. /\ Head(queue[p]) \in SentFrame
        /\ Tail(queue[p]) \in Seq(SentFrame)
        /\ Len(Tail(queue[p])) = Len(queue[p]) - 1
    BY <2>1, HeadTailProperties
  <2>3. Head(queue[p]).id \in SentNumbers
    BY <2>2 DEF SentFrame
  <2>4. queue' = [queue EXCEPT ![p] = Tail(queue[p])]
    BY <1>5 DEF Transmit, TransmitFails
  <2>5. /\ queue' \in [Paths -> Seq(SentFrame)]
        /\ \A q \in Paths : Len(queue'[q]) <= Capacity
    BY <1>3, <2>1, <2>2, <2>4, CapacityAssumption
  <2>6. wire' \subseteq SentNumbers
    BY <1>5, <2>3 DEF Transmit, TransmitFails, SInv, OnlySent
  <2> QED
    BY <1>1, <1>2, <2>5, <2>6 DEF SInv, SenderOK, OnlySent, ReceiverBehindSender
<1> QED
  BY <1>4, <1>5

(* A receiver loop pushes a frame that was on the wire: it was sent, and so
   is whatever the buffer now holds. *)
LEMMA ArriveSInv ==
    ASSUME SInv, NEW seq \in Sequence, Arrive(seq) \/ Lose(seq)
    PROVE  SenderOK' /\ OnlySent'
<1>1. /\ nextSequence' = nextSequence /\ cacheFrom' = cacheFrom
      /\ up' = up /\ queue' = queue
  BY DEF Arrive, Lose
<1>2. SentNumbers' = SentNumbers /\ SentFrame' = SentFrame
  BY <1>1 DEF SentNumbers, SentFrame
<1>3. seq \in SentNumbers
  BY DEF Arrive, Lose, SInv, OnlySent
<1>4. CASE Arrive(seq)
  <2>1. /\ expectedSequence' = expectedSequence
        /\ buffered' \subseteq buffered \cup {seq}
    BY <1>4 DEF Arrive, Push, PushTooOld, PushTooFarAhead, PushExpected, PushAhead
  <2>2. wire' \subseteq wire /\ wireLost' = wireLost
    BY <1>4 DEF Arrive
  <2> QED
    BY <1>1, <1>2, <1>3, <2>1, <2>2
       DEF SInv, SenderOK, OnlySent, ReceiverBehindSender
<1>5. CASE Lose(seq)
  <2>1. wireLost' \in 0..MaxWireLoss
    BY <1>5, StreamAssumption DEF Lose, SInv, SenderOK
  <2>2. /\ wire' \subseteq wire /\ expectedSequence' = expectedSequence
        /\ buffered' = buffered
    BY <1>5 DEF Lose, bufferVars
  <2> QED
    BY <1>1, <1>2, <2>1, <2>2 DEF SInv, SenderOK, OnlySent, ReceiverBehindSender
<1> QED
  BY <1>4, <1>5

(* readOrdered() passes only frames that were sent: what it delivers was   *)
(* held or has just been answered from the cache.                          *)
LEMMA ReassembleSInv == ASSUME SInv, Reassemble PROVE SenderOK' /\ OnlySent'
<1> DEFINE answered == Cached(expectedSequence)
<1>1. answered \in BOOLEAN
  BY Zenon DEF Cached
<1>2. PICK from, upTo \in Nat :
          /\ from = expectedSequence \/ from \in HeldAfterRequest(answered)
          /\ expectedSequence <= from /\ from <= upTo
          /\ expectedSequence' = upTo
          /\ buffered' = HeldAfterRequest(answered) \ (from..(upTo - 1))
          /\ from..(upTo - 1) \subseteq HeldAfterRequest(answered)
          /\ upTo \notin HeldAfterRequest(answered)
  BY <1>1, ReadAppends DEF Reassemble, SInv
<1>3. HeldAfterRequest(answered) \subseteq SentNumbers
  <2>1. ASSUME answered PROVE expectedSequence \in SentNumbers
    BY <2>1 DEF Cached, SentNumbers, SInv, SenderOK, IInv, TypeOK
  <2> QED
    BY <2>1 DEF HeldAfterRequest, SInv, OnlySent
<1>4. UNCHANGED senderVars
  BY DEF Reassemble
<1>5. expectedSequence' <= nextSequence
  <2>1. CASE from = upTo
    BY <1>2, <2>1 DEF SInv, OnlySent, ReceiverBehindSender
  <2>2. CASE from < upTo
    <3>1. upTo - 1 \in SentNumbers
      BY <1>2, <1>3, <2>2
    <3> QED
      BY <1>2, <3>1 DEF SentNumbers, SInv, SenderOK
  <2> QED
    BY <1>2, <2>1, <2>2
<1> QED
  BY <1>2, <1>3, <1>4, <1>5
     DEF senderVars, SInv, SenderOK, OnlySent, ReceiverBehindSender, SentNumbers,
         SentFrame

(* Every step of the stream keeps the invariant. *)
LEMMA NextSInv == SInv /\ [StreamNext]_streamVars => SInv'
<1> SUFFICES ASSUME SInv, [StreamNext]_streamVars PROVE SInv'
  OBVIOUS
<1>1. IInv'
  BY StreamStepsBuffer, NextIInv DEF SInv
<1>2. CASE Send
  BY <1>1, <1>2, SendSInv DEF SInv
<1>3. CASE CacheExpires
  <2>1. cacheFrom' \in 0..nextSequence'
    BY <1>3 DEF CacheExpires, SInv, SenderOK
  <2> QED
    BY <1>3, <2>1, <1>1
       DEF CacheExpires, bufferVars, SInv, SenderOK, OnlySent,
           ReceiverBehindSender, SentNumbers, SentFrame
<1>4. CASE Reassemble
  BY <1>1, <1>4, ReassembleSInv DEF SInv
<1>5. CASE Clock
  BY <1>5, <1>1
     DEF Clock, Tick, senderVars, SInv, SenderOK, OnlySent,
         ReceiverBehindSender, SentNumbers, SentFrame
<1>6. ASSUME NEW p \in Paths, Transmit(p) \/ TransmitFails(p) \/ PathBack(p)
      PROVE  SenderOK' /\ OnlySent'
  BY <1>6, TransmitSInv
<1>7. ASSUME NEW seq \in Sequence, Arrive(seq) \/ Lose(seq)
      PROVE  SenderOK' /\ OnlySent'
  BY <1>7, ArriveSInv
<1>8. CASE UNCHANGED streamVars
  BY <1>8, <1>1
     DEF streamVars, bufferVars, senderVars, SInv, SenderOK, OnlySent,
         ReceiverBehindSender, SentNumbers, SentFrame
<1> QED
  BY <1>1, <1>2, <1>3, <1>4, <1>5, <1>6, <1>7, <1>8 DEF StreamNext, SInv

(* The inductive invariant holds throughout. *)
THEOREM StreamInvariance == StreamSpec => []SInv
  BY InitSInv, NextSInv, PTL DEF StreamSpec

(* The receiver never waits for, asks for or gives up on a frame that was  *)
(* not sent, however paths fail, frames are lost and the cache forgets.    *)
THEOREM ReceiverNeverAhead == StreamSpec => []ReceiverBehindSender
  BY StreamInvariance, PTL DEF SInv, OnlySent

(* One readOrdered() is a Deliver of the abstract stream, or changes       *)
(* nothing that it shows.                                                  *)
LEMMA ReassembleDelivers ==
    ASSUME SInv, SInv', Reassemble
    PROVE  Promise!Deliver \/ delivered' = delivered
<1>1. Cached(expectedSequence) \in BOOLEAN
  BY Zenon DEF Cached
<1>2. PICK from, upTo \in Nat :
          /\ from <= upTo
          /\ Len(delivered') = Len(delivered) + (upTo - from)
          /\ \A i \in 1..Len(delivered) : delivered'[i] = delivered[i]
  BY <1>1, ReadAppends DEF Reassemble, SInv
<1>3. delivered \in Seq(Sequence) /\ delivered' \in Seq(Sequence)
  BY DEF SInv, IInv, TypeOK
<1>4. /\ Len(delivered) \in Nat /\ DOMAIN delivered = 1..Len(delivered)
      /\ Len(delivered') \in Nat /\ DOMAIN delivered' = 1..Len(delivered')
      /\ \A i \in 1..Len(delivered') : delivered'[i] \in Sequence
  BY <1>3, LenProperties
<1>5. CASE from = upTo
  <2>1. Len(delivered') = Len(delivered)
    BY <1>2, <1>4, <1>5
  <2> QED
    BY <1>2, <1>3, <2>1, SeqEqual
<1>6. CASE from < upTo
  <2>1. Len(delivered) < Len(delivered')
    BY <1>2, <1>4, <1>6
  <2> DEFINE s == SubSeq(delivered', 1, Len(delivered))
  <2>2. \A i \in 1..Len(delivered) : delivered'[i] \in Sequence
    BY <1>4, <2>1
  <2>3. /\ s \in Seq(Sequence)
        /\ Len(s) = IF 1 <= Len(delivered) THEN Len(delivered) - 1 + 1 ELSE 0
        /\ \A i \in 1..(Len(delivered) - 1 + 1) : s[i] = delivered'[1 + i - 1]
    BY <1>4, <2>2, SubSeqProperties
  <2> HIDE DEF s
  <2>4. Len(s) = Len(delivered) /\ \A i \in 1..Len(s) : s[i] = delivered[i]
    BY <1>2, <1>4, <2>3
  <2>5. s = delivered
    BY <1>3, <2>3, <2>4, SeqEqual
  <2>6. /\ nextSequence' = nextSequence /\ nextSequence \in Nat
        /\ expectedSequence' <= nextSequence' /\ expectedSequence' \in Nat
    BY DEF Reassemble, senderVars, SInv, SenderOK, OnlySent, ReceiverBehindSender,
           IInv, TypeOK
  <2>7. \A i \in 1..Len(delivered') : delivered'[i] < nextSequence
    BY <1>4, <2>6 DEF SInv, IInv, DeliveredBelowExpected, Sequence
  <2>8. \A i, j \in 1..Len(delivered') : i < j => delivered'[i] < delivered'[j]
    BY DEF SInv, IInv, InOrder
  <2> QED
    BY <2>1, <2>5, <2>6, <2>7, <2>8 DEF s, Promise!Deliver
<1> QED
  BY <1>2, <1>5, <1>6

(* The bonded stream implements OrderedStream: whatever its paths, timers  *)
(* and caches do, what comes out was sent, in order, and at most once.     *)
THEOREM ImplementsOrderedStream == StreamSpec => KeepsPromise
<1>1. StreamInit => Promise!Init
  BY DEF StreamInit, BufferInit, Promise!Init
<1>2. SInv /\ SInv' /\ [StreamNext]_streamVars
        => [Promise!Next]_<<nextSequence, delivered>>
  <2> SUFFICES ASSUME SInv, SInv', [StreamNext]_streamVars
               PROVE  Promise!Next \/ (nextSequence' = nextSequence /\ delivered' = delivered)
    OBVIOUS
  <2>1. CASE Send
    BY <2>1 DEF Send, bufferVars, Promise!Next, Promise!Accept
  <2>2. CASE Reassemble
    BY <2>2, ReassembleDelivers DEF Reassemble, senderVars, Promise!Next
  <2>3. CASE CacheExpires \/ Clock
    BY <2>3 DEF CacheExpires, Clock, Tick, senderVars, bufferVars
  <2>4. ASSUME NEW p \in Paths, Transmit(p) \/ TransmitFails(p) \/ PathBack(p)
        PROVE  nextSequence' = nextSequence /\ delivered' = delivered
    BY <2>4 DEF Transmit, TransmitFails, PathBack, bufferVars
  <2>5. ASSUME NEW seq \in Sequence, Arrive(seq) \/ Lose(seq)
        PROVE  nextSequence' = nextSequence /\ delivered' = delivered
    BY <2>5 DEF Arrive, Lose, Push, PushTooOld, PushTooFarAhead, PushExpected,
                PushAhead, bufferVars
  <2>6. CASE UNCHANGED streamVars
    BY <2>6 DEF streamVars, senderVars, bufferVars
  <2> QED
    BY <2>1, <2>2, <2>3, <2>4, <2>5, <2>6 DEF StreamNext
<1> QED
  BY <1>1, <1>2, StreamInvariance, PTL DEF StreamSpec, KeepsPromise, Promise!Spec

(* The stream's variables keep their types: in particular no queue ever    *)
(* outgrows its capacity and the cache covers a range of sent frames.      *)
THEOREM StreamTypeCorrect == StreamSpec => []StreamTypeOK
<1>1. SInv => StreamTypeOK
  <2> SUFFICES ASSUME SInv PROVE StreamTypeOK
    OBVIOUS
  <2>1. SentNumbers \subseteq Sequence
    BY BufferAssumption DEF SInv, SenderOK, SentNumbers, Sequence
  <2> DEFINE F == [id : Sequence, urgent : BOOLEAN]
  <2>2. SentFrame \subseteq F
    BY <2>1, Zenon DEF SentFrame
  <2> HIDE DEF F
  <2>3. ASSUME NEW p \in Paths PROVE queue[p] \in Seq(F)
    <3>1. queue[p] \in Seq(SentFrame)
      BY DEF SInv, OnlySent
    <3> QED
      BY <2>2, <3>1, SeqMonotone
  <2>4. queue \in [Paths -> Seq(F)]
    BY <2>3 DEF SInv, OnlySent
  <2> QED
    BY <2>1, <2>4 DEF SInv, IInv, SenderOK, OnlySent, StreamTypeOK, F
<1> QED
  BY <1>1, StreamInvariance, PTL

-----------------------------------------------------------------------------
(* A dead stream stays dead.                                               *)

(* What is in a queue after send() was there before, or has just been sent. *)
LEMMA SendQueues ==
    ASSUME SInv, Send, NEW q \in Paths, NEW n \in Queued(q)'
    PROVE  n \in Queued(q) \/ n = nextSequence
<1> DEFINE f == [id |-> nextSequence, urgent |-> FALSE]
           F == [id : Nat, urgent : BOOLEAN]
<1>1. nextSequence \in Nat /\ SentNumbers \subseteq Nat
  BY BufferAssumption DEF SInv, SenderOK, SentNumbers
<1>2. f \in F /\ SentFrame \subseteq F
  BY <1>1, Zenon DEF SentFrame
<1>3. f.id = nextSequence
  OBVIOUS
<1> HIDE DEF f, F
<1>4. queue[q] \in Seq(SentFrame) /\ queue \in [Paths -> Seq(SentFrame)]
  BY DEF SInv, OnlySent
<1>5. queue[q] \in Seq(F)
  BY <1>2, <1>4, SeqMonotone
<1>6. DOMAIN queue[q] = 1..Len(queue[q])
  BY <1>5, LenProperties
<1>7. CASE queue'[q] = queue[q]
  BY <1>7 DEF Queued
<1>8. CASE queue'[q] = Offered(queue[q], f)
  <2> DEFINE o == Offered(queue[q], f)
  <2>1. Append(queue[q], f) \in Seq(F)
    BY <1>2, <1>5, AppendProperties
  <2>2. o \in Seq(F)
    <3>1. Len(queue[q]) <= Capacity
      BY DEF SInv, SenderOK
    <3> QED
      BY <1>2, <1>5, <3>1, OfferedProperties
  <2>3. DOMAIN o = 1..Len(o)
    BY <2>2, LenProperties
  <2>4. PICK i \in 1..Len(o) : n = o[i].id
    BY <1>8, <2>3 DEF Queued
  <2>5. o[i] = f \/ \E k \in 1..Len(queue[q]) : o[i] = queue[q][k]
    BY <1>2, <1>5, OfferedFrames
  <2> QED
    BY <1>3, <1>6, <2>4, <2>5 DEF Queued
<1>9. queue'[q] = queue[q] \/ queue'[q] = Offered(queue[q], f)
  BY <1>4 DEF Send, f
<1> QED
  BY <1>7, <1>8, <1>9

(* What is in a queue after a transmission was there before, and so was    *)
(* what it put on the wire.                                                *)
LEMMA TransmitQueues ==
    ASSUME SInv, NEW p \in Paths, Transmit(p) \/ TransmitFails(p)
    PROVE  /\ \A q \in Paths : Queued(q)' \subseteq Queued(q)
           /\ wire' \subseteq wire \cup Queued(p)
<1>1. queue[p] \in Seq(SentFrame) /\ queue \in [Paths -> Seq(SentFrame)] /\ queue[p] # <<>>
  BY DEF SInv, OnlySent, Transmit, TransmitFails
<1>2. /\ Len(queue[p]) \in Nat \ {0} /\ DOMAIN queue[p] = 1..Len(queue[p])
      /\ Tail(queue[p]) \in Seq(SentFrame)
      /\ Len(Tail(queue[p])) = Len(queue[p]) - 1
      /\ \A i \in 1..Len(Tail(queue[p])) : Tail(queue[p])[i] = queue[p][i + 1]
      /\ Head(queue[p]) = queue[p][1]
  BY <1>1, HeadTailProperties, LenProperties, EmptySeq
<1>3. DOMAIN Tail(queue[p]) = 1..Len(Tail(queue[p]))
  BY <1>2, LenProperties
<1>4. Head(queue[p]).id \in Queued(p)
  BY <1>2 DEF Queued
<1>5. queue' = [queue EXCEPT ![p] = Tail(queue[p])]
  BY DEF Transmit, TransmitFails
<1>6. ASSUME NEW n \in Queued(p)' PROVE n \in Queued(p)
  <2>1. queue'[p] = Tail(queue[p])
    BY <1>1, <1>5
  <2>2. PICK i \in 1..Len(Tail(queue[p])) : n = Tail(queue[p])[i].id
    BY <1>3, <2>1 DEF Queued
  <2>3. i + 1 \in 1..Len(queue[p])
    BY <1>2
  <2> QED
    BY <1>2, <2>2, <2>3 DEF Queued
<1>7. ASSUME NEW q \in Paths, q # p PROVE Queued(q)' = Queued(q)
  BY <1>1, <1>5, <1>7 DEF Queued
<1>8. wire' \subseteq wire \cup Queued(p)
  BY <1>4 DEF Transmit, TransmitFails
<1> QED
  BY <1>6, <1>7, <1>8

(* Nothing that is sent, comes back up or arrives revives a dead stream. *)
THEOREM DeadStreamsStayDead == StreamSpec => DeadIsForever
<1>1. SInv /\ [StreamNext]_streamVars => (Dead => Dead')
  <2> SUFFICES ASSUME SInv, [StreamNext]_streamVars, Dead PROVE Dead'
    OBVIOUS
  <2>0. /\ nextSequence \in Nat /\ expectedSequence \in Nat /\ WindowSize \in Nat
        /\ buffered \subseteq Sequence
    BY BufferAssumption DEF SInv, SenderOK, IInv, TypeOK
  <2>d. /\ nextSequence >= expectedSequence + WindowSize
        /\ gapAge = NoGap
        /\ expectedSequence \notin buffered
        /\ \A seq \in wire : seq >= expectedSequence + WindowSize \/ seq < expectedSequence
        /\ \A q \in Paths : \A seq \in Queued(q) :
              seq >= expectedSequence + WindowSize \/ seq < expectedSequence
    BY DEF Dead, BeyondWindow, InTransit
  <2>f. ASSUME expectedSequence' = expectedSequence, gapAge' = NoGap,
               expectedSequence \notin buffered',
               nextSequence' >= nextSequence, nextSequence' \in Nat,
               \A seq \in wire' :
                   seq >= expectedSequence + WindowSize \/ seq < expectedSequence,
               \A q \in Paths : \A seq \in Queued(q)' :
                   seq >= expectedSequence + WindowSize \/ seq < expectedSequence
        PROVE  Dead'
    BY <2>0, <2>d, <2>f DEF Dead, BeyondWindow, InTransit
  <2>1. CASE Send
    <3>1. /\ UNCHANGED <<expectedSequence, gapAge, buffered, wire>>
          /\ nextSequence' = nextSequence + 1
      BY <2>1 DEF Send, bufferVars
    <3>2. \A q \in Paths : \A seq \in Queued(q)' :
              seq >= expectedSequence + WindowSize \/ seq < expectedSequence
      BY <2>1, <2>d, SendQueues
    <3> QED
      BY <2>0, <2>d, <2>f, <3>1, <3>2
  <2>2. CASE CacheExpires
    BY <2>2, <2>0, <2>d, <2>f DEF CacheExpires, bufferVars, Queued
  <2>3. CASE Reassemble
    <3>1. ~RequestDue /\ ~Elapsed(HardTimeout)
      BY <2>d DEF RequestDue, Elapsed
    <3>2. /\ HeldAfterRequest(Cached(expectedSequence)) = buffered
          /\ ResumeAt(buffered) = {expectedSequence}
      BY <3>1 DEF HeldAfterRequest, ResumeAt
    <3>3. PICK upTo \in expectedSequence..(MaxSequence + 1) :
              /\ Drains(expectedSequence, upTo, buffered)
              /\ expectedSequence' = upTo
              /\ buffered' = buffered \ (expectedSequence..(upTo - 1))
      BY <2>3, <3>2 DEF Reassemble, ReadOrdered
    <3>4. upTo = expectedSequence
      BY <2>0, <2>d, <3>3, BufferAssumption DEF Drains
    <3>5. gapAge' = NoGap
      BY <2>3, <2>d, <3>1 DEF Reassemble, ReadOrdered
    <3>6. UNCHANGED <<nextSequence, wire, queue>>
      BY <2>3 DEF Reassemble, senderVars
    <3> QED
      BY <2>0, <2>d, <2>f, <3>3, <3>4, <3>5, <3>6 DEF Queued
  <2>4. CASE Clock
    BY <2>4, <2>d DEF Clock, Tick
  <2>5. ASSUME NEW p \in Paths, Transmit(p) \/ TransmitFails(p) PROVE Dead'
    <3>1. UNCHANGED <<expectedSequence, gapAge, buffered, nextSequence>>
      BY <2>5 DEF Transmit, TransmitFails, bufferVars
    <3>2. /\ \A q \in Paths : Queued(q)' \subseteq Queued(q)
          /\ wire' \subseteq wire \cup Queued(p)
      BY <2>5, TransmitQueues
    <3> QED
      BY <2>0, <2>d, <2>f, <3>1, <3>2
  <2>6. ASSUME NEW p \in Paths, PathBack(p) PROVE Dead'
    BY <2>6, <2>0, <2>d, <2>f DEF PathBack, bufferVars, Queued
  <2>7. ASSUME NEW seq \in Sequence, Arrive(seq) PROVE Dead'
    <3>1. seq \in Nat /\ (seq >= expectedSequence + WindowSize \/ seq < expectedSequence)
      BY <2>7, <2>d, BufferAssumption DEF Arrive, Sequence
    <3>2. PushTooOld(seq) \/ PushTooFarAhead(seq)
      BY <2>0, <2>7, <3>1, BufferAssumption
         DEF Arrive, Push, PushExpected, PushAhead, BeyondWindow
    <3>3. UNCHANGED <<expectedSequence, gapAge, buffered>>
      BY <3>2 DEF PushTooOld, PushTooFarAhead
    <3>4. wire' \subseteq wire /\ UNCHANGED <<nextSequence, queue>>
      BY <2>7 DEF Arrive
    <3> QED
      BY <2>0, <2>d, <2>f, <3>3, <3>4 DEF Queued
  <2>8. ASSUME NEW seq \in Sequence, Lose(seq) PROVE Dead'
    BY <2>8, <2>0, <2>d, <2>f DEF Lose, bufferVars, Queued
  <2>9. CASE UNCHANGED streamVars
    BY <2>9, <2>0, <2>d, <2>f DEF streamVars, senderVars, bufferVars, Queued
  <2> QED
    BY <2>1, <2>2, <2>3, <2>4, <2>5, <2>6, <2>7, <2>8, <2>9 DEF StreamNext
<1> QED
  BY <1>1, StreamInvariance, PTL DEF StreamSpec, DeadIsForever
=============================================================================
