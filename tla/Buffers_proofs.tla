--------------------------- MODULE Buffers_proofs ---------------------------
(***************************************************************************)
(* The two buffers of bonding/buffer: the reorder buffer of the receiver,  *)
(* and the send queue of each path, each on its own and for every size,    *)
(* timeout and number of frames.  The stream is built of both.             *)
(***************************************************************************)
EXTENDS ReorderBuffer, SendQueue, SequenceTheorems, WellFoundedInduction, TLAPS

-----------------------------------------------------------------------------
(* The reorder buffer.                                                     *)

(* What the drain loop appends: the frames from..upTo-1, in this order. *)
LEMMA RunProperties ==
    ASSUME NEW from \in Nat, NEW upTo \in Nat, from <= upTo,
           upTo <= MaxSequence + 1, MaxSequence \in Nat
    PROVE  /\ Run(from, upTo) \in Seq(Sequence)
           /\ Len(Run(from, upTo)) = upTo - from
           /\ \A i \in 1..(upTo - from) : Run(from, upTo)[i] = from + i - 1
<1>1. upTo - from \in Nat
  OBVIOUS
<1>2. \A i \in 1..(upTo - from) : from + i - 1 \in Sequence
  BY DEF Sequence
<1>3. Run(from, upTo) \in [1..(upTo - from) -> Sequence]
  BY <1>2 DEF Run
<1>4. Run(from, upTo) \in Seq(Sequence)
  BY <1>1, <1>3, SeqDef
<1> QED
  BY <1>1, <1>3, <1>4, LenProperties DEF Run

(* The window, order and accounting facts are inductive only together with *)
(* a bound on what has been delivered.                                     *)
DeliveredBelowExpected ==
    \A i \in 1..Len(delivered) : delivered[i] < expectedSequence

(* The inductive invariant. *)
IInv ==
    /\ TypeOK
    /\ HeldWithinWindow
    /\ DeliveredBelowExpected
    /\ InOrder
    /\ Accounted

(* An empty buffer satisfies the invariant. *)
LEMMA InitIInv == Init => IInv
<1> SUFFICES ASSUME Init PROVE IInv
  OBVIOUS
<1>1. softTimeoutFired \in BOOLEAN
  BY Zenon DEF Init, BufferInit
<1>2. delivered \in Seq(Sequence) /\ Len(delivered) = 0
  BY EmptySeq DEF Init, BufferInit
<1> QED
  BY <1>1, <1>2, BufferAssumption
     DEF Init, BufferInit, IInv, TypeOK, HeldWithinWindow,
         DeliveredBelowExpected, InOrder, Accounted, Sequence, NoGap

(* push() keeps the invariant in each branch of its `when`: only a frame of
   the window is added to what is held. *)
LEMMA PushIInv ==
    ASSUME IInv, NEW seq \in Sequence, Push(seq)
    PROVE  IInv'
<1> USE BufferAssumption DEF IInv, TypeOK, HeldWithinWindow,
        DeliveredBelowExpected, InOrder, Accounted, Sequence, NoGap
<1>1. CASE PushTooOld(seq)
  BY <1>1 DEF PushTooOld
<1>2. CASE PushTooFarAhead(seq)
  BY <1>2 DEF PushTooFarAhead
<1>3. CASE PushExpected(seq)
  <2>1. softTimeoutFired' \in BOOLEAN
    BY <1>3, Zenon DEF PushExpected
  <2> QED
    BY <1>3, <2>1 DEF PushExpected
<1>4. CASE PushAhead(seq)
  BY <1>4 DEF PushAhead, BeyondWindow
<1> QED
  BY <1>1, <1>2, <1>3, <1>4 DEF Push

(* The passing of time changes only the age of the gap. *)
LEMMA TickIInv == ASSUME IInv, Tick PROVE IInv'
BY BufferAssumption
   DEF IInv, TypeOK, HeldWithinWindow, DeliveredBelowExpected, InOrder,
       Accounted, Sequence, NoGap, Tick

(* Where checkTimeout lets delivery resume: at or after the expected frame,*)
(* and everything held lies at or after that point.                        *)
LEMMA ResumeProperties ==
    ASSUME IInv, NEW answered \in BOOLEAN,
           answered => expectedSequence \in Sequence,
           NEW from \in ResumeAt(HeldAfterRequest(answered))
    PROVE  /\ from \in Nat
           /\ expectedSequence <= from
           /\ from <= MaxSequence + 1
           /\ \A s \in HeldAfterRequest(answered) :
                 s \in Sequence /\ from <= s /\ s < expectedSequence + WindowSize
<1> USE BufferAssumption DEF IInv, TypeOK, HeldWithinWindow, Sequence
<1>1. \A s \in HeldAfterRequest(answered) :
         /\ s \in Sequence
         /\ expectedSequence <= s
         /\ s < expectedSequence + WindowSize
  BY DEF HeldAfterRequest
<1>3. CASE from = expectedSequence
  BY <1>1, <1>3
<1>4. CASE from \in CeilingKey(HeldAfterRequest(answered))
  BY <1>1, <1>4 DEF CeilingKey
<1> QED
  BY <1>3, <1>4 DEF ResumeAt

(* What one readOrdered() appends to the output, from which its safety     *)
(* follows: the frames from..upTo-1, all of them at or after the frame     *)
(* that was expected.                                                      *)
LEMMA ReadAppends ==
    ASSUME IInv, NEW answered \in BOOLEAN, ReadOrdered(answered)
    PROVE  \E from, upTo \in Nat :
              /\ expectedSequence <= from
              /\ from = expectedSequence \/ from \in HeldAfterRequest(answered)
              /\ from <= upTo
              /\ upTo <= MaxSequence + 1
              /\ expectedSequence' = upTo
              /\ permanentlyLostCount' =
                     permanentlyLostCount + (from - expectedSequence)
              /\ delivered' \in Seq(Sequence)
              /\ Len(delivered') = Len(delivered) + (upTo - from)
              /\ \A i \in 1..Len(delivered) : delivered'[i] = delivered[i]
              /\ \A i \in 1..(upTo - from) :
                    delivered'[Len(delivered) + i] = from + i - 1
              /\ buffered' = HeldAfterRequest(answered) \ (from..(upTo - 1))
              /\ from..(upTo - 1) \subseteq HeldAfterRequest(answered)
              /\ upTo \notin HeldAfterRequest(answered)
              /\ \A s \in HeldAfterRequest(answered) :
                    /\ s \in Sequence
                    /\ from <= s
                    /\ s < expectedSequence + WindowSize
<1> DEFINE held == HeldAfterRequest(answered)
<1>0. answered => expectedSequence \in Sequence
  BY DEF ReadOrdered, Skipped
<1>1. PICK from \in ResumeAt(held) :
        \E upTo \in from..(MaxSequence + 1) :
            /\ Drains(from, upTo, held)
            /\ expectedSequence' = upTo
            /\ buffered' = held \ (from..(upTo - 1))
            /\ delivered' = delivered \o Run(from, upTo)
            /\ permanentlyLostCount' =
                   permanentlyLostCount + (from - expectedSequence)
  BY DEF ReadOrdered, Skipped
<1>2. PICK upTo \in from..(MaxSequence + 1) :
            /\ Drains(from, upTo, held)
            /\ expectedSequence' = upTo
            /\ buffered' = held \ (from..(upTo - 1))
            /\ delivered' = delivered \o Run(from, upTo)
            /\ permanentlyLostCount' =
                   permanentlyLostCount + (from - expectedSequence)
  BY <1>1
<1>3. /\ from \in Nat
      /\ expectedSequence <= from
      /\ \A s \in held : /\ s \in Sequence
                         /\ from <= s
                         /\ s < expectedSequence + WindowSize
  BY <1>0, ResumeProperties
<1>4. upTo \in Nat /\ from <= upTo /\ upTo <= MaxSequence + 1
  BY <1>3, BufferAssumption
<1>5. /\ Run(from, upTo) \in Seq(Sequence)
      /\ Len(Run(from, upTo)) = upTo - from
      /\ \A i \in 1..(upTo - from) : Run(from, upTo)[i] = from + i - 1
  BY <1>3, <1>4, RunProperties, BufferAssumption
<1>6. delivered \in Seq(Sequence) /\ Len(delivered) \in Nat
  BY LenProperties DEF IInv, TypeOK
<1>7. /\ delivered' \in Seq(Sequence)
      /\ Len(delivered') = Len(delivered) + (upTo - from)
      /\ \A i \in 1..(Len(delivered) + (upTo - from)) :
            delivered'[i] = IF i <= Len(delivered) THEN delivered[i]
                            ELSE Run(from, upTo)[i - Len(delivered)]
  <2> DEFINE run == Run(from, upTo)
  <2>1. /\ delivered \o run \in Seq(Sequence)
        /\ Len(delivered \o run) = Len(delivered) + Len(run)
        /\ \A i \in 1..(Len(delivered) + Len(run)) :
              (delivered \o run)[i] = IF i <= Len(delivered) THEN delivered[i]
                                      ELSE run[i - Len(delivered)]
    BY <1>5, <1>6, ConcatProperties, Zenon
  <2>2. delivered' = delivered \o run /\ Len(run) = upTo - from
    BY <1>2, <1>5
  <2> HIDE DEF run
  <2>3. \A i \in 1..(Len(delivered) + (upTo - from)) :
            delivered'[i] = IF i <= Len(delivered) THEN delivered[i]
                            ELSE run[i - Len(delivered)]
    BY <2>1, <2>2, Zenon
  <2> QED
    BY <2>1, <2>2, <2>3, Zenon DEF run
<1>8. \A i \in 1..Len(delivered) : delivered'[i] = delivered[i]
  BY <1>3, <1>4, <1>6, <1>7
<1>9. ASSUME NEW i \in 1..(upTo - from)
      PROVE  delivered'[Len(delivered) + i] = from + i - 1
  <2>1. Len(delivered) + i \in 1..(Len(delivered) + (upTo - from))
    BY <1>3, <1>4, <1>6
  <2>2. ~(Len(delivered) + i <= Len(delivered))
        /\ (Len(delivered) + i) - Len(delivered) = i
    BY <1>3, <1>4, <1>6
  <2> QED
    BY <1>5, <1>7, <2>1, <2>2
<1>10. from..(upTo - 1) \subseteq held /\ upTo \notin held
  BY <1>2 DEF Drains
<1>11. from = expectedSequence \/ from \in held
  BY DEF ResumeAt, CeilingKey
<1> QED
  BY <1>2, <1>3, <1>4, <1>7, <1>8, <1>9, <1>10, <1>11

(* readOrdered() keeps the invariant, whether it drains a run, asks for the
   missing frame, or skips the gap. *)
LEMMA ReadIInv ==
    ASSUME IInv, NEW answered \in BOOLEAN, ReadOrdered(answered)
    PROVE  IInv'
<1>1. PICK from, upTo \in Nat :
              /\ expectedSequence <= from
              /\ from <= upTo
              /\ upTo <= MaxSequence + 1
              /\ expectedSequence' = upTo
              /\ permanentlyLostCount' =
                     permanentlyLostCount + (from - expectedSequence)
              /\ delivered' \in Seq(Sequence)
              /\ Len(delivered') = Len(delivered) + (upTo - from)
              /\ \A i \in 1..Len(delivered) : delivered'[i] = delivered[i]
              /\ \A i \in 1..(upTo - from) :
                    delivered'[Len(delivered) + i] = from + i - 1
              /\ buffered' = HeldAfterRequest(answered) \ (from..(upTo - 1))
              /\ upTo \notin HeldAfterRequest(answered)
              /\ \A s \in HeldAfterRequest(answered) :
                    /\ s \in Sequence
                    /\ from <= s
                    /\ s < expectedSequence + WindowSize
  BY ReadAppends
<1>2. /\ expectedSequence \in Nat
      /\ permanentlyLostCount \in Nat
      /\ Len(delivered) \in Nat
      /\ MaxSequence \in Nat /\ WindowSize \in Nat
  BY LenProperties, BufferAssumption DEF IInv, TypeOK
<1>3. Accounted'
  BY <1>1, <1>2 DEF IInv, Accounted
<1>4. HeldWithinWindow'
  <2> SUFFICES ASSUME NEW s \in buffered'
               PROVE  upTo <= s /\ s < upTo + WindowSize
    BY <1>1 DEF HeldWithinWindow
  <2>1. s \in Nat /\ from <= s /\ s < expectedSequence + WindowSize
        /\ s \notin from..(upTo - 1)
    BY <1>1, <1>2 DEF Sequence
  <2> QED
    BY <1>1, <1>2, <2>1
<1>5. TypeOK'
  <2>1. softTimeoutFired' \in BOOLEAN
    BY Zenon DEF ReadOrdered, Skipped, IInv, TypeOK
  <2>2. gapAge' \in {NoGap} \cup 0..HardTimeout
    BY DEF ReadOrdered, Skipped, IInv, TypeOK
  <2>3. permanentlyLostCount' \in 0..(MaxSequence + 1)
    BY <1>1, <1>2, <1>3 DEF Accounted
  <2>4. /\ droppedTooOldCount' \in 0..MaxDropped
        /\ droppedTooFarAheadCount' \in 0..MaxDropped
    BY DEF ReadOrdered, Skipped, IInv, TypeOK
  <2>5. buffered' \in SUBSET Sequence
    BY <1>1
  <2>6. expectedSequence' \in 0..(MaxSequence + 1)
    BY <1>1, <1>2
  <2> QED
    BY <1>1, <2>1, <2>2, <2>3, <2>4, <2>5, <2>6 DEF TypeOK
<1>6. ASSUME NEW i \in 1..Len(delivered'), i > Len(delivered)
      PROVE  /\ i - Len(delivered) \in 1..(upTo - from)
             /\ delivered'[i] = from + (i - Len(delivered)) - 1
  <2>1. i - Len(delivered) \in 1..(upTo - from)
    BY <1>1, <1>2, <1>6
  <2>2. Len(delivered) + (i - Len(delivered)) = i
    BY <1>2, <2>1
  <2> QED
    BY <1>1, <2>1, <2>2
<1>7. ASSUME NEW i \in 1..Len(delivered'), i <= Len(delivered)
      PROVE  /\ i \in 1..Len(delivered)
             /\ delivered'[i] = delivered[i]
             /\ delivered[i] \in Nat
             /\ delivered[i] < expectedSequence
  <2>1. i \in 1..Len(delivered)
    BY <1>1, <1>2, <1>7
  <2>2. delivered[i] \in Sequence
    BY <2>1, ElementOfSeq DEF IInv, TypeOK
  <2> QED
    BY <1>1, <2>1, <2>2 DEF IInv, DeliveredBelowExpected, Sequence
<1>8. Len(delivered') \in Nat
  BY <1>1, <1>2
<1>9. DeliveredBelowExpected'
  <2> SUFFICES ASSUME NEW i \in 1..Len(delivered')
               PROVE  delivered'[i] < upTo
    BY <1>1 DEF DeliveredBelowExpected
  <2>1. CASE i <= Len(delivered)
    BY <1>1, <1>2, <1>7, <2>1
  <2>2. CASE i > Len(delivered)
    BY <1>1, <1>2, <1>6, <2>2
  <2> QED
    BY <1>2, <1>8, <2>1, <2>2
<1>10. InOrder'
  <2> SUFFICES ASSUME NEW i \in 1..Len(delivered'),
                      NEW j \in 1..Len(delivered'), i < j
               PROVE  delivered'[i] < delivered'[j]
    BY DEF InOrder
  <2>1. CASE j <= Len(delivered)
    BY <1>2, <1>7, <1>8, <2>1 DEF IInv, InOrder
  <2>2. CASE i <= Len(delivered) /\ j > Len(delivered)
    BY <1>1, <1>2, <1>6, <1>7, <1>8, <2>2
  <2>3. CASE i > Len(delivered) /\ j > Len(delivered)
    BY <1>1, <1>2, <1>6, <1>8, <2>3
  <2> QED
    BY <1>2, <1>8, <2>1, <2>2, <2>3
<1> QED
  BY <1>3, <1>4, <1>5, <1>9, <1>10 DEF IInv

(* Every step of the buffer keeps the invariant. *)
LEMMA NextIInv == IInv /\ [Next]_bufferVars => IInv'
<1> SUFFICES ASSUME IInv, [Next]_bufferVars PROVE IInv'
  OBVIOUS
<1>1. ASSUME NEW seq \in Sequence, Push(seq) PROVE IInv'
  BY <1>1, PushIInv
<1>2. ASSUME NEW answered \in BOOLEAN, ReadOrdered(answered) PROVE IInv'
  BY <1>2, ReadIInv
<1>3. CASE Tick
  BY <1>3, TickIInv
<1>4. CASE UNCHANGED bufferVars
  BY <1>4 DEF bufferVars, IInv, TypeOK, HeldWithinWindow,
              DeliveredBelowExpected, InOrder, Accounted
<1> QED
  BY <1>1, <1>2, <1>3, <1>4 DEF Next

(* The inductive invariant holds throughout. *)
THEOREM Invariance == Spec => []IInv
BY InitIInv, NextIInv, PTL DEF Spec

(* The fields of the buffer keep their types. *)
THEOREM TypeCorrect == Spec => []TypeOK
BY Invariance, PTL DEF IInv

(* readOrdered() never returns a frame twice or after a later one. *)
THEOREM DeliveryInOrder == Spec => []InOrder
BY Invariance, PTL DEF IInv

(* The buffer never holds a frame outside the window. *)
THEOREM MemoryBounded == Spec => []HeldWithinWindow
BY Invariance, PTL DEF IInv

(* permanentlyLostCount is exactly what was passed and not delivered. *)
THEOREM EveryFrameAccounted == Spec => []Accounted
BY Invariance, PTL DEF IInv

(* A frame that was accepted leaves the buffer only through readOrdered(). *)
THEOREM AcceptedFramesDelivered == Spec => HeldFramesAreDelivered
<1> DEFINE Kept == \A s \in buffered \ buffered' :
                      \E i \in 1..Len(delivered') : delivered'[i] = s
<1>1. ASSUME IInv, Next PROVE Kept
  <2>1. ASSUME NEW seq \in Sequence, Push(seq) PROVE Kept
    BY <2>1 DEF Push, PushTooOld, PushTooFarAhead, PushExpected, PushAhead
  <2>2. ASSUME NEW answered \in BOOLEAN, ReadOrdered(answered),
               NEW s \in buffered \ buffered'
        PROVE  \E i \in 1..Len(delivered') : delivered'[i] = s
    <3>1. PICK from, upTo \in Nat :
              /\ from <= upTo
              /\ Len(delivered') = Len(delivered) + (upTo - from)
              /\ \A i \in 1..(upTo - from) :
                    delivered'[Len(delivered) + i] = from + i - 1
              /\ buffered' = HeldAfterRequest(answered) \ (from..(upTo - 1))
      BY <1>1, <2>2, ReadAppends
    <3>2. s \in from..(upTo - 1)
      BY <3>1 DEF HeldAfterRequest
    <3>3. Len(delivered) \in Nat
      BY <1>1, LenProperties DEF IInv, TypeOK
    <3>4. /\ (s - from) + 1 \in 1..(upTo - from)
          /\ Len(delivered) + ((s - from) + 1) \in 1..Len(delivered')
          /\ from + ((s - from) + 1) - 1 = s
      BY <3>1, <3>2, <3>3
    <3>5. delivered'[Len(delivered) + ((s - from) + 1)] = s
      BY <3>1, <3>4
    <3> QED
      BY <3>4, <3>5
  <2>3. ASSUME Tick PROVE Kept
    BY <2>3 DEF Tick
  <2> QED
    BY <1>1, <2>1, <2>2, <2>3 DEF Next
<1>2. IInv /\ [Next]_bufferVars => [Kept]_bufferVars
  BY <1>1
<1> QED
  BY <1>2, Invariance, PTL DEF Spec, HeldFramesAreDelivered

-----------------------------------------------------------------------------
(* What offer() does to a queue, for SendQueue and for BondedStream.       *)

(* A sequence over S is one over every larger set. *)
LEMMA SeqMonotone ==
    ASSUME NEW S, NEW T, S \subseteq T, NEW q \in Seq(S)
    PROVE  q \in Seq(T)
<1>1. Len(q) \in Nat /\ q \in [1..Len(q) -> S]
  BY LenProperties
<1>2. q \in [1..Len(q) -> T]
  BY <1>1
<1> QED
  BY <1>1, <1>2, SeqDef

(* removeAt() keeps all frames but one, in their order. *)
LEMMA WithoutProperties ==
    ASSUME NEW S, NEW q \in Seq(S), Len(q) # 0, NEW i
    PROVE  /\ Without(q, i) \in Seq(S)
           /\ Len(Without(q, i)) = Len(q) - 1
           /\ \A j \in 1..(Len(q) - 1) :
                 Without(q, i)[j] = IF j < i THEN q[j] ELSE q[j + 1]
<1>1. Len(q) \in Nat /\ q \in [1..Len(q) -> S]
  BY LenProperties
<1>2. Len(q) - 1 \in Nat
  BY <1>1
<1>3. ASSUME NEW j \in 1..(Len(q) - 1)
      PROVE  (IF j < i THEN q[j] ELSE q[j + 1]) \in S
  <2>1. j \in 1..Len(q) /\ j + 1 \in 1..Len(q)
    BY <1>1
  <2>2. q[j] \in S /\ q[j + 1] \in S
    BY <1>1, <2>1
  <2> QED
    BY <2>2, Zenon
<1>4. Without(q, i) \in [1..(Len(q) - 1) -> S]
  BY <1>3 DEF Without
<1>5. Without(q, i) \in Seq(S)
  BY <1>2, <1>4, SeqDef
<1>6. DOMAIN Without(q, i) = 1..Len(Without(q, i)) /\ Len(Without(q, i)) \in Nat
  BY <1>5, LenProperties, Zenon
<1>7. DOMAIN Without(q, i) = 1..(Len(q) - 1)
  BY Zenon DEF Without
<1>8. Len(Without(q, i)) = Len(q) - 1
  BY <1>2, <1>6, <1>7
<1>9. \A j \in 1..(Len(q) - 1) :
         Without(q, i)[j] = IF j < i THEN q[j] ELSE q[j + 1]
  BY Zenon DEF Without
<1> QED
  BY <1>5, <1>8, <1>9

(* indexOfFirst finds the oldest frame without an urgent flag. *)
LEMMA VictimIsLowPriority ==
    ASSUME NEW S, NEW q \in Seq(S), LowPriority(q) # {}
    PROVE  /\ Victim(q) \in LowPriority(q)
           /\ Victim(q) \in 1..Len(q)
           /\ \A j \in LowPriority(q) : Victim(q) <= j
<1>1. Len(q) \in Nat /\ DOMAIN q = 1..Len(q)
  BY LenProperties
<1>2. LowPriority(q) \subseteq Nat /\ LowPriority(q) \subseteq 1..Len(q)
  BY <1>1 DEF LowPriority
<1>3. PICK i \in LowPriority(q) :
          \A j \in LowPriority(q) : ~(<<j, i>> \in OpToRel(<, Nat))
  BY <1>2, NatLessThanWellFounded, WFMin, Zenon
<1>4. \A j \in LowPriority(q) : i <= j
  <2>1. ASSUME NEW j \in LowPriority(q), j < i PROVE FALSE
    <3>1. <<j, i>> \in Nat \X Nat /\ <<j, i>>[1] < <<j, i>>[2]
      BY <1>2, <2>1
    <3>2. <<j, i>> \in OpToRel(<, Nat)
      BY <3>1, Zenon DEF OpToRel
    <3> QED
      BY <1>3, <3>2
  <2> QED
    BY <1>2, <2>1
<1>5. /\ Victim(q) \in LowPriority(q)
      /\ \A j \in LowPriority(q) : Victim(q) <= j
  BY <1>4, Zenon DEF Victim
<1> QED
  BY <1>2, <1>5

(* offer() keeps a queue within its capacity, and of the frames it had and *)
(* the new one exactly Drops(q) are gone.                                  *)
LEMMA OfferedProperties ==
    ASSUME NEW S, NEW q \in Seq(S), NEW f \in S, Len(q) <= Capacity
    PROVE  /\ Offered(q, f) \in Seq(S)
           /\ Len(Offered(q, f)) <= Capacity
           /\ Len(Offered(q, f)) + Drops(q) = Len(q) + 1
<1>1. Len(q) \in Nat
  BY LenProperties
<1>2. CASE HasRoom(q)
  <2>1. Append(q, f) \in Seq(S) /\ Len(Append(q, f)) = Len(q) + 1
    BY AppendProperties
  <2> QED
    BY <1>1, <1>2, <2>1, CapacityAssumption DEF Offered, Drops, HasRoom
<1>3. CASE ~HasRoom(q) /\ LowPriority(q) # {}
  <2>1. Len(q) # 0
    <3>1. DOMAIN q # {}
      BY <1>3 DEF LowPriority
    <3> QED
      BY <1>1, <3>1, LenProperties
  <2> DEFINE r == Without(q, Victim(q))
  <2>2. r \in Seq(S) /\ Len(r) = Len(q) - 1
    BY <2>1, WithoutProperties
  <2> HIDE DEF r
  <2>3. Append(r, f) \in Seq(S) /\ Len(Append(r, f)) = Len(r) + 1
    BY <2>2, AppendProperties
  <2>4. Offered(q, f) = Append(r, f) /\ Drops(q) = 1
    BY <1>3 DEF Offered, Drops, r
  <2> QED
    BY <1>1, <2>2, <2>3, <2>4, CapacityAssumption
<1>4. CASE ~HasRoom(q) /\ LowPriority(q) = {}
  BY <1>1, <1>4 DEF Offered, Drops
<1> QED
  BY <1>2, <1>3, <1>4

(* The shape of the queue after offer(): the old one, without the victim   *)
(* when there was no room, and the new frame at its end; or the old one.   *)
LEMMA OfferedShape ==
    ASSUME NEW S, NEW q \in Seq(S), NEW f \in S
    PROVE  \/ Offered(q, f) = q
           \/ \E r \in Seq(S) :
                 /\ Offered(q, f) = Append(r, f)
                 /\ \/ r = q
                    \/ /\ Len(r) = Len(q) - 1
                       /\ Victim(q) \in 1..Len(q)
                       /\ Victim(q) \in LowPriority(q)
                       /\ \A j \in 1..(Len(q) - 1) :
                             r[j] = IF j < Victim(q) THEN q[j] ELSE q[j + 1]
<1>1. CASE HasRoom(q)
  BY <1>1, Zenon DEF Offered
<1>2. CASE ~HasRoom(q) /\ LowPriority(q) # {}
  <2>1. Victim(q) \in LowPriority(q) /\ Victim(q) \in 1..Len(q)
    BY <1>2, VictimIsLowPriority
  <2>2. Len(q) # 0
    BY <2>1
  <2> DEFINE r == Without(q, Victim(q))
  <2>3. /\ r \in Seq(S)
        /\ Len(r) = Len(q) - 1
        /\ \A j \in 1..(Len(q) - 1) :
              r[j] = IF j < Victim(q) THEN q[j] ELSE q[j + 1]
    BY <2>2, WithoutProperties, Zenon
  <2>4. Offered(q, f) = Append(r, f)
    BY <1>2, Zenon DEF Offered
  <2> HIDE DEF r
  <2> QED
    BY <2>1, <2>3, <2>4, Zenon
<1>3. CASE ~HasRoom(q) /\ LowPriority(q) = {}
  BY <1>3, Zenon DEF Offered
<1> QED
  BY <1>1, <1>2, <1>3

(* offer() puts nothing into the queue but the new frame. *)
LEMMA OfferedFrames ==
    ASSUME NEW S, NEW q \in Seq(S), NEW f \in S,
           NEW i \in 1..Len(Offered(q, f))
    PROVE  \/ Offered(q, f)[i] = f
           \/ \E k \in 1..Len(q) : Offered(q, f)[i] = q[k]
<1> DEFINE o == Offered(q, f)
<1>0. Len(q) \in Nat
  BY LenProperties
<1>1. CASE o = q
  BY <1>1
<1>2. ASSUME o # q PROVE o[i] = f \/ \E k \in 1..Len(q) : o[i] = q[k]
  <2>1. PICK r \in Seq(S) :
            /\ o = Append(r, f)
            /\ \/ r = q
               \/ /\ Len(r) = Len(q) - 1
                  /\ \A j \in 1..(Len(q) - 1) :
                        r[j] = IF j < Victim(q) THEN q[j] ELSE q[j + 1]
    BY <1>2, OfferedShape, Zenon
  <2>2. /\ Len(o) = Len(r) + 1 /\ Len(r) \in Nat
        /\ \A k \in 1..Len(r) : o[k] = r[k]
        /\ o[Len(r) + 1] = f
    BY <2>1, AppendProperties, LenProperties
  <2>3. CASE i = Len(r) + 1
    BY <2>2, <2>3
  <2>4. CASE i \in 1..Len(r)
    <3>1. CASE r = q
      BY <2>2, <2>4, <3>1
    <3>2. CASE Len(r) = Len(q) - 1
               /\ \A j \in 1..(Len(q) - 1) :
                     r[j] = IF j < Victim(q) THEN q[j] ELSE q[j + 1]
      <4>1. i \in 1..Len(q) /\ i + 1 \in 1..Len(q) /\ i \in 1..(Len(q) - 1)
        BY <1>0, <2>4, <3>2
      <4> QED
        BY <2>2, <2>4, <3>2, <4>1
    <3> QED
      BY <2>1, <3>1, <3>2
  <2> QED
    BY <2>2, <2>3, <2>4
<1> QED
  BY <1>1, <1>2

Increasing(q) == \A i, j \in 1..Len(q) : i < j => q[i].id < q[j].id

(* offer() of a frame with the greatest number keeps the numbers of the    *)
(* queue increasing, and takes frames from nowhere else.                   *)
LEMMA OfferedInOrder ==
    ASSUME NEW S, NEW q \in Seq(S), NEW f \in S,
           \A x \in S : x.id \in Nat,
           Increasing(q), \A i \in 1..Len(q) : q[i].id < f.id
    PROVE  /\ Increasing(Offered(q, f))
           /\ \A i \in 1..Len(Offered(q, f)) :
                 \/ Offered(q, f)[i] = f
                 \/ \E k \in 1..Len(q) : Offered(q, f)[i] = q[k]
<1> DEFINE o == Offered(q, f)
<1>0. Len(q) \in Nat /\ \A i \in 1..Len(q) : q[i].id \in Nat
  BY LenProperties
<1>1. CASE o = q
  BY <1>1
<1>2. ASSUME NEW r \in Seq(S), o = Append(r, f),
             Increasing(r),
             \A i \in 1..Len(r) : \E k \in 1..Len(q) : r[i] = q[k]
      PROVE  /\ Increasing(o)
             /\ \A i \in 1..Len(o) : o[i] = f \/ \E k \in 1..Len(q) : o[i] = q[k]
  <2>1. /\ Len(o) = Len(r) + 1 /\ Len(r) \in Nat
        /\ \A i \in 1..Len(r) : o[i] = r[i]
        /\ o[Len(r) + 1] = f
    BY <1>2, AppendProperties, LenProperties
  <2>2. \A i \in 1..Len(r) : r[i].id < f.id
    BY <1>2
  <2> HIDE DEF o
  <2>3. \A i \in 1..Len(o) : i \in 1..Len(r) \/ i = Len(r) + 1
    BY <2>1
  <2>4. Increasing(o)
    <3> SUFFICES ASSUME NEW i \in 1..Len(o), NEW j \in 1..Len(o), i < j
                 PROVE  o[i].id < o[j].id
      BY DEF Increasing
    <3>1. i \in 1..Len(r)
      BY <2>1, <2>3
    <3>2. CASE j \in 1..Len(r)
      BY <1>2, <2>1, <3>1, <3>2 DEF Increasing
    <3>3. CASE j = Len(r) + 1
      BY <2>1, <2>2, <3>1, <3>3
    <3> QED
      BY <2>3, <3>2, <3>3
  <2> QED
    BY <1>2, <2>1, <2>3, <2>4
<1>3. ASSUME NEW r \in Seq(S),
             Len(r) = Len(q) - 1, NEW v \in 1..Len(q),
             \A j \in 1..(Len(q) - 1) : r[j] = IF j < v THEN q[j] ELSE q[j + 1]
      PROVE  /\ Increasing(r)
             /\ \A i \in 1..Len(r) : \E k \in 1..Len(q) : r[i] = q[k]
  <2>1. \A i \in 1..Len(r) : i \in 1..Len(q) /\ i + 1 \in 1..Len(q)
    BY <1>0, <1>3
  <2>2. \A i \in 1..Len(r) : \E k \in 1..Len(q) : r[i] = q[k]
    BY <1>3, <2>1
  <2>3. ASSUME NEW i \in 1..Len(r), NEW j \in 1..Len(r), i < j
        PROVE  r[i].id < r[j].id
    <3> DEFINE a == IF i < v THEN i ELSE i + 1
               b == IF j < v THEN j ELSE j + 1
    <3>1. r[i] = q[a] /\ r[j] = q[b]
      BY <1>3
    <3>2. a \in 1..Len(q) /\ b \in 1..Len(q) /\ a < b
      BY <1>0, <1>3, <2>1, <2>3
    <3> QED
      BY <3>1, <3>2 DEF Increasing
  <2> QED
    BY <2>2, <2>3 DEF Increasing
<1>4. o = q \/ \E r \in Seq(S) :
          /\ o = Append(r, f)
          /\ Increasing(r)
          /\ \A i \in 1..Len(r) : \E k \in 1..Len(q) : r[i] = q[k]
  <2>1. CASE o = q
    BY <2>1
  <2>2. ASSUME o # q
        PROVE  \E r \in Seq(S) :
                  /\ o = Append(r, f)
                  /\ Increasing(r)
                  /\ \A i \in 1..Len(r) : \E k \in 1..Len(q) : r[i] = q[k]
    <3>1. PICK r \in Seq(S) :
              /\ o = Append(r, f)
              /\ \/ r = q
                 \/ /\ Len(r) = Len(q) - 1
                    /\ Victim(q) \in 1..Len(q)
                    /\ \A j \in 1..(Len(q) - 1) :
                          r[j] = IF j < Victim(q) THEN q[j] ELSE q[j + 1]
      BY <2>2, OfferedShape, Zenon
    <3>2. Increasing(r) /\ \A i \in 1..Len(r) : \E k \in 1..Len(q) : r[i] = q[k]
      BY <1>3, <3>1
    <3> QED
      BY <3>1, <3>2
  <2> QED
    BY <2>1, <2>2
<1> QED
  BY <1>1, <1>2, <1>4

(* offer() never displaces an urgent frame. *)
LEMMA OfferedKeepsUrgent ==
    ASSUME NEW S, NEW q \in Seq(S), NEW f \in S,
           NEW i \in 1..Len(q), q[i].urgent
    PROVE  \E j \in 1..Len(Offered(q, f)) : Offered(q, f)[j] = q[i]
<1> DEFINE o == Offered(q, f)
<1>0. Len(q) \in Nat
  BY LenProperties
<1>1. CASE o = q
  BY <1>1
<1>2. ASSUME NEW r \in Seq(S), o = Append(r, f), r = q
      PROVE  \E j \in 1..Len(o) : o[j] = q[i]
  <2>1. Len(o) = Len(q) + 1 /\ \A k \in 1..Len(q) : o[k] = q[k]
    BY <1>2, AppendProperties
  <2> QED
    BY <1>0, <2>1
<1>3. ASSUME NEW r \in Seq(S), o = Append(r, f), Len(r) = Len(q) - 1,
             Victim(q) \in 1..Len(q), Victim(q) \in LowPriority(q),
             \A k \in 1..(Len(q) - 1) :
                 r[k] = IF k < Victim(q) THEN q[k] ELSE q[k + 1]
      PROVE  \E j \in 1..Len(o) : o[j] = q[i]
  <2> DEFINE v == Victim(q)
  <2>1. i # v
    BY <1>3 DEF LowPriority
  <2>2. Len(o) = Len(r) + 1 /\ \A k \in 1..Len(r) : o[k] = r[k]
    BY <1>3, AppendProperties
  <2>3. v \in 1..Len(q)
    BY <1>3
  <2>4. CASE i < v
    <3>1. i \in 1..Len(r) /\ i \in 1..Len(o)
      BY <1>0, <1>3, <2>2, <2>3, <2>4
    <3>2. o[i] = q[i]
      BY <1>3, <2>2, <2>4, <3>1
    <3> QED
      BY <3>1, <3>2
  <2>5. CASE i > v
    <3>1. i - 1 \in 1..Len(r) /\ i - 1 \in 1..Len(o) /\ ~(i - 1 < v) /\ (i - 1) + 1 = i
      BY <1>0, <1>3, <2>2, <2>3, <2>5
    <3>2. o[i - 1] = q[i]
      BY <1>3, <2>2, <3>1
    <3> QED
      BY <3>1, <3>2
  <2> QED
    BY <2>1, <2>3, <2>4, <2>5
<1> QED
  BY <1>1, <1>2, <1>3, OfferedShape

-----------------------------------------------------------------------------
(* The send queue.                                                         *)

(* The inductive invariant of the bound and the count: frames in the queue *)
(* and behind it carry numbers that have been given out.                   *)
Counted == QueueTypeOK /\ Bounded /\ Conserved

(* An empty queue is within its bound and has lost nothing. *)
LEMMA InitCounted == QueueInit => Counted
<1> SUFFICES ASSUME QueueInit PROVE Counted
  OBVIOUS
<1>1. deque \in Seq(Frame) /\ Len(deque) = 0 /\ polled \in Seq(Frame) /\ Len(polled) = 0
  BY EmptySeq DEF QueueInit
<1> QED
  BY <1>1, OffersAssumption, CapacityAssumption
     DEF QueueInit, Counted, QueueTypeOK, Bounded, Conserved

(* offer() adds the frame, or loses exactly one frame and counts it. *)
LEMMA OfferCounted ==
    ASSUME Counted, NEW urgent \in BOOLEAN, Offer(urgent) PROVE Counted'
<1> DEFINE f == [id |-> offers + 1, urgent |-> urgent]
<1>1. f \in Frame
  <2>1. offers + 1 \in 1..MaxOffers
    BY OffersAssumption DEF Counted, QueueTypeOK, Offer
  <2> QED
    BY <2>1, Zenon DEF Frame
<1>2. deque \in Seq(Frame) /\ Len(deque) <= Capacity
  BY DEF Counted, QueueTypeOK, Bounded
<1> HIDE DEF f
<1>3. /\ Offered(deque, f) \in Seq(Frame)
      /\ Len(Offered(deque, f)) <= Capacity
      /\ Len(Offered(deque, f)) + Drops(deque) = Len(deque) + 1
  BY <1>1, <1>2, OfferedProperties
<1>4. /\ deque' = Offered(deque, f)
      /\ offers' = offers + 1 /\ offers < MaxOffers
      /\ droppedCount' = droppedCount + Drops(deque)
      /\ polled' = polled
  BY DEF Offer, f
<1>5. /\ Len(deque') \in Nat /\ Len(polled) \in Nat /\ Len(deque) \in Nat
      /\ polled \in Seq(Frame) /\ droppedCount \in Nat /\ offers \in Nat
      /\ offers = Len(deque) + Len(polled) + droppedCount
  BY <1>3, <1>4, LenProperties, OffersAssumption DEF Counted, QueueTypeOK, Conserved
<1>6. Drops(deque) \in Nat
  BY DEF Drops
<1>7. /\ offers' = Len(deque') + Len(polled') + droppedCount'
      /\ droppedCount' \in Nat
      /\ offers' \in 0..MaxOffers
  BY <1>3, <1>4, <1>5, <1>6, OffersAssumption
<1>8. droppedCount' \in 0..MaxOffers
  BY <1>4, <1>5, <1>7, OffersAssumption
<1> QED
  BY <1>3, <1>4, <1>5, <1>7, <1>8 DEF Counted, QueueTypeOK, Bounded, Conserved

(* poll() moves one frame from the queue to the sender loop. *)
LEMMA PollCounted == ASSUME Counted, Poll PROVE Counted'
<1>1. deque \in Seq(Frame) /\ deque # <<>> /\ polled \in Seq(Frame)
  BY DEF Counted, QueueTypeOK, Poll
<1>2. Head(deque) \in Frame /\ Tail(deque) \in Seq(Frame) /\ Len(Tail(deque)) = Len(deque) - 1
  BY <1>1, HeadTailProperties
<1>3. /\ Append(polled, Head(deque)) \in Seq(Frame)
      /\ Len(Append(polled, Head(deque))) = Len(polled) + 1
  BY <1>1, <1>2, AppendProperties
<1>4. Len(deque) \in Nat /\ Len(polled) \in Nat
  BY <1>1, LenProperties
<1> QED
  BY <1>2, <1>3, <1>4, CapacityAssumption
     DEF Counted, QueueTypeOK, Bounded, Conserved, Poll

(* The inductive invariant holds throughout. *)
THEOREM CountedInvariance == QueueSpec => []Counted
<1>1. Counted /\ [QueueNext]_queueVars => Counted'
  <2> SUFFICES ASSUME Counted, [QueueNext]_queueVars PROVE Counted'
    OBVIOUS
  <2>1. CASE Poll
    BY <2>1, PollCounted
  <2>2. ASSUME NEW urgent \in BOOLEAN, Offer(urgent) PROVE Counted'
    BY <2>2, OfferCounted
  <2>3. CASE UNCHANGED queueVars
    BY <2>3 DEF queueVars, Counted, QueueTypeOK, Bounded, Conserved
  <2> QED
    BY <2>1, <2>2, <2>3 DEF QueueNext
<1> QED
  BY <1>1, InitCounted, PTL DEF QueueSpec

(* Every number in the queue or behind it was given out by an offer, and   *)
(* droppedCount never exceeds the offers made.                             *)
THEOREM QueueTypeCorrect == QueueSpec => []QueueTypeOK
  BY CountedInvariance, PTL DEF Counted

(* No sequence of offers and polls makes the queue outgrow its capacity. *)
THEOREM QueueBounded == QueueSpec => []Bounded
  BY CountedInvariance, PTL DEF Counted

(* droppedCount is exactly what was offered and neither queued nor sent. *)
THEOREM DropsCounted == QueueSpec => []Conserved
  BY CountedInvariance, PTL DEF Counted

-----------------------------------------------------------------------------
(* Order.  The queue and what was polled are each in order, the one behind *)
(* the other, and the next number to be given out is beyond both.          *)
Ordered ==
    /\ Increasing(deque)
    /\ Increasing(polled)
    /\ \A i \in 1..Len(polled), j \in 1..Len(deque) : polled[i].id < deque[j].id
    /\ \A i \in 1..Len(deque) : deque[i].id <= offers
    /\ \A i \in 1..Len(polled) : polled[i].id <= offers

(* offer() appends the newest frame and evicts without reordering the rest. *)
LEMMA OfferOrdered ==
    ASSUME QueueTypeOK, Ordered, NEW urgent \in BOOLEAN, Offer(urgent) PROVE Ordered'
<1> DEFINE f == [id |-> offers + 1, urgent |-> urgent]
<1>1. f \in Frame
  <2>1. offers + 1 \in 1..MaxOffers
    BY OffersAssumption DEF QueueTypeOK, Offer
  <2> QED
    BY <2>1, Zenon DEF Frame
<1>2. f.id = offers + 1 /\ offers \in Nat /\ \A x \in Frame : x.id \in Nat
  BY OffersAssumption DEF QueueTypeOK, Frame
<1>3. deque' = Offered(deque, f) /\ offers' = offers + 1 /\ polled' = polled
  BY DEF Offer
<1> HIDE DEF f
<1>4. /\ deque \in Seq(Frame) /\ polled \in Seq(Frame)
      /\ \A i \in 1..Len(deque) : deque[i].id \in Nat
      /\ \A i \in 1..Len(polled) : polled[i].id \in Nat
  BY <1>2, LenProperties DEF QueueTypeOK
<1>5. \A i \in 1..Len(deque) : deque[i].id < f.id
  BY <1>2, <1>4 DEF Ordered
<1>6. /\ Increasing(deque')
      /\ \A i \in 1..Len(deque') :
            deque'[i] = f \/ \E k \in 1..Len(deque) : deque'[i] = deque[k]
  BY <1>1, <1>2, <1>3, <1>4, <1>5, OfferedInOrder DEF Ordered
<1>7. \A i \in 1..Len(deque') : deque'[i].id <= offers'
  BY <1>2, <1>3, <1>4, <1>6 DEF Ordered
<1>8. \A i \in 1..Len(polled) : polled[i].id <= offers'
  BY <1>2, <1>3, <1>4 DEF Ordered
<1>9. \A i \in 1..Len(polled), j \in 1..Len(deque') : polled[i].id < deque'[j].id
  <2> SUFFICES ASSUME NEW i \in 1..Len(polled), NEW j \in 1..Len(deque')
               PROVE  polled[i].id < deque'[j].id
    OBVIOUS
  <2>1. CASE deque'[j] = f
    BY <1>2, <1>4, <2>1 DEF Ordered
  <2>2. CASE \E k \in 1..Len(deque) : deque'[j] = deque[k]
    BY <2>2 DEF Ordered
  <2> QED
    BY <1>6, <2>1, <2>2
<1> QED
  BY <1>3, <1>6, <1>7, <1>8, <1>9 DEF Ordered, Increasing

(* poll() takes the oldest frame left, which is newer than all polled before. *)
LEMMA PollOrdered == ASSUME QueueTypeOK, Ordered, Poll PROVE Ordered'
<1>1. deque \in Seq(Frame) /\ deque # <<>> /\ polled \in Seq(Frame)
  BY DEF QueueTypeOK, Poll
<1>2. /\ Head(deque) \in Frame /\ Head(deque) = deque[1]
      /\ Len(Tail(deque)) = Len(deque) - 1
      /\ \A i \in 1..(Len(deque) - 1) : Tail(deque)[i] = deque[i + 1]
  BY <1>1, HeadTailProperties
<1>3. /\ Len(Append(polled, Head(deque))) = Len(polled) + 1
      /\ \A i \in 1..Len(polled) : Append(polled, Head(deque))[i] = polled[i]
      /\ Append(polled, Head(deque))[Len(polled) + 1] = Head(deque)
  BY <1>1, <1>2, AppendProperties
<1>4. Len(deque) \in Nat \ {0} /\ Len(polled) \in Nat
  BY <1>1, LenProperties, EmptySeq
<1>5. /\ Len(deque') = Len(deque) - 1 /\ Len(polled') = Len(polled) + 1
      /\ \A i \in 1..Len(deque') : i + 1 \in 1..Len(deque) /\ deque'[i] = deque[i + 1]
      /\ \A i \in 1..Len(polled) : polled'[i] = polled[i]
      /\ polled'[Len(polled) + 1] = deque[1]
      /\ \A i \in 1..Len(polled') : i \in 1..Len(polled) \/ i = Len(polled) + 1
      /\ 1 \in 1..Len(deque)
      /\ offers' = offers
  BY <1>2, <1>3, <1>4 DEF Poll
<1>6. Increasing(deque')
  <2> SUFFICES ASSUME NEW i \in 1..Len(deque'), NEW j \in 1..Len(deque'), i < j
               PROVE  deque'[i].id < deque'[j].id
    BY DEF Increasing
  <2>1. i + 1 < j + 1 /\ i + 1 \in 1..Len(deque) /\ j + 1 \in 1..Len(deque)
    BY <1>5
  <2> QED
    BY <1>5, <2>1 DEF Ordered, Increasing
<1>7. Increasing(polled')
  <2> SUFFICES ASSUME NEW i \in 1..Len(polled'), NEW j \in 1..Len(polled'), i < j
               PROVE  polled'[i].id < polled'[j].id
    BY DEF Increasing
  <2>1. i \in 1..Len(polled)
    BY <1>4, <1>5
  <2>2. CASE j \in 1..Len(polled)
    BY <1>5, <2>1, <2>2 DEF Ordered, Increasing
  <2>3. CASE j = Len(polled) + 1
    BY <1>5, <2>1, <2>3 DEF Ordered
  <2> QED
    BY <1>5, <2>2, <2>3
<1>8. ASSUME NEW i \in 1..Len(polled'), NEW j \in 1..Len(deque')
      PROVE  polled'[i].id < deque'[j].id
  <2>1. CASE i \in 1..Len(polled)
    BY <1>5, <2>1 DEF Ordered
  <2>2. CASE i = Len(polled) + 1
    <3>1. 1 < j + 1 /\ j + 1 \in 1..Len(deque)
      BY <1>5
    <3> QED
      BY <1>5, <2>2, <3>1 DEF Ordered, Increasing
  <2> QED
    BY <1>5, <2>1, <2>2
<1>9. /\ \A i \in 1..Len(deque') : deque'[i].id <= offers'
      /\ \A i \in 1..Len(polled') : polled'[i].id <= offers'
  BY <1>5 DEF Ordered
<1> QED
  BY <1>6, <1>7, <1>8, <1>9 DEF Ordered, Increasing

(* Frames leave in the order they were offered, whatever was evicted. *)
THEOREM QueueInOrder == QueueSpec => []SentInOfferOrder
<1>1. QueueInit => Ordered
  <2> SUFFICES ASSUME QueueInit PROVE Ordered
    OBVIOUS
  <2>1. Len(deque) = 0 /\ Len(polled) = 0
    BY DEF QueueInit
  <2> QED
    BY <2>1 DEF Ordered, Increasing
<1>2. QueueTypeOK /\ Ordered /\ [QueueNext]_queueVars => Ordered'
  <2> SUFFICES ASSUME QueueTypeOK, Ordered, [QueueNext]_queueVars PROVE Ordered'
    OBVIOUS
  <2>1. CASE Poll
    BY <2>1, PollOrdered
  <2>2. ASSUME NEW urgent \in BOOLEAN, Offer(urgent) PROVE Ordered'
    BY <2>2, OfferOrdered
  <2>3. CASE UNCHANGED queueVars
    BY <2>3 DEF queueVars, Ordered, Increasing
  <2> QED
    BY <2>1, <2>2, <2>3 DEF QueueNext
<1>3. Counted /\ Ordered => SentInOfferOrder
  <2> SUFFICES ASSUME Counted, Ordered PROVE SentInOfferOrder
    OBVIOUS
  <2> DEFINE s == polled \o deque
  <2>1. deque \in Seq(Frame) /\ polled \in Seq(Frame)
    BY DEF Counted, QueueTypeOK
  <2>2. Len(deque) \in Nat /\ Len(polled) \in Nat
    BY <2>1, LenProperties
  <2>3. /\ Len(s) = Len(polled) + Len(deque)
        /\ \A i \in 1..(Len(polled) + Len(deque)) :
              s[i] = IF i <= Len(polled) THEN polled[i] ELSE deque[i - Len(polled)]
    BY <2>1, ConcatProperties, Zenon
  <2> HIDE DEF s
  <2>4. ASSUME NEW i \in 1..Len(s), NEW j \in 1..Len(s), i < j
        PROVE  s[i].id < s[j].id
    <3>1. CASE j <= Len(polled)
      <4>1. i \in 1..Len(polled) /\ j \in 1..Len(polled)
        BY <2>2, <2>3, <2>4, <3>1
      <4> QED
        BY <2>2, <2>3, <2>4, <3>1, <4>1 DEF Ordered, Increasing
    <3>2. CASE i <= Len(polled) /\ ~(j <= Len(polled))
      <4>1. i \in 1..Len(polled) /\ j - Len(polled) \in 1..Len(deque)
        BY <2>2, <2>3, <2>4, <3>2
      <4> QED
        BY <2>2, <2>3, <3>2, <4>1 DEF Ordered
    <3>3. CASE ~(i <= Len(polled))
      <4>1. /\ i - Len(polled) \in 1..Len(deque) /\ j - Len(polled) \in 1..Len(deque)
            /\ i - Len(polled) < j - Len(polled) /\ ~(j <= Len(polled))
        BY <2>2, <2>3, <2>4, <3>3
      <4> QED
        BY <2>2, <2>3, <3>3, <4>1 DEF Ordered, Increasing
    <3> QED
      BY <2>2, <2>3, <3>1, <3>2, <3>3
  <2> QED
    BY <2>4 DEF SentInOfferOrder, s
<1> QED
  BY <1>1, <1>2, <1>3, CountedInvariance, PTL DEF QueueSpec, Counted

(* A queued CONTROL or PRIORITY frame is never displaced. *)
THEOREM UrgentFramesKept == QueueSpec => UrgentNeverDisplaced
<1> DEFINE Kept == \A i \in DOMAIN deque :
              deque[i].urgent =>
                  \/ \E j \in DOMAIN deque' : deque'[j] = deque[i]
                  \/ \E j \in DOMAIN polled' : polled'[j] = deque[i]
<1>1. Counted /\ [QueueNext]_queueVars => [Kept]_queueVars
  <2> SUFFICES ASSUME Counted, QueueNext, Counted',
                      NEW i \in DOMAIN deque, deque[i].urgent
               PROVE  \/ \E j \in DOMAIN deque' : deque'[j] = deque[i]
                      \/ \E j \in DOMAIN polled' : polled'[j] = deque[i]
    BY OfferCounted, PollCounted DEF QueueNext
  <2>1. /\ deque \in Seq(Frame) /\ polled \in Seq(Frame) /\ deque' \in Seq(Frame)
        /\ polled' \in Seq(Frame)
    BY DEF Counted, QueueTypeOK
  <2>2. /\ DOMAIN deque = 1..Len(deque) /\ DOMAIN deque' = 1..Len(deque')
        /\ DOMAIN polled' = 1..Len(polled')
        /\ Len(deque) \in Nat /\ Len(polled) \in Nat
    BY <2>1, LenProperties
  <2>3. ASSUME NEW urgent \in BOOLEAN, Offer(urgent)
        PROVE  \E j \in DOMAIN deque' : deque'[j] = deque[i]
    <3> DEFINE f == [id |-> offers + 1, urgent |-> urgent]
    <3>1. offers + 1 \in 1..MaxOffers
      BY <2>3, OffersAssumption DEF Counted, QueueTypeOK, Offer
    <3>2. f \in Frame
      BY <3>1, Zenon DEF Frame
    <3>3. deque' = Offered(deque, f)
      BY <2>3 DEF Offer
    <3> HIDE DEF f
    <3>4. i \in 1..Len(deque)
      BY <2>2
    <3>5. \E j \in 1..Len(Offered(deque, f)) : Offered(deque, f)[j] = deque[i]
      BY <2>1, <3>2, <3>4, OfferedKeepsUrgent, Zenon
    <3> QED
      BY <2>2, <3>3, <3>5, Zenon
  <2>4. ASSUME Poll
        PROVE  \/ \E j \in DOMAIN deque' : deque'[j] = deque[i]
               \/ \E j \in DOMAIN polled' : polled'[j] = deque[i]
    <3>1. deque # <<>>
      BY <2>4 DEF Poll
    <3>2. /\ Head(deque) = deque[1] /\ Head(deque) \in Frame
          /\ Len(Tail(deque)) = Len(deque) - 1
          /\ \A k \in 1..(Len(deque) - 1) : Tail(deque)[k] = deque[k + 1]
      BY <2>1, <3>1, HeadTailProperties
    <3>3. /\ Len(polled') = Len(polled) + 1 /\ polled'[Len(polled) + 1] = deque[1]
      BY <2>1, <2>4, <3>2, AppendProperties DEF Poll
    <3>4. CASE i = 1
      BY <2>2, <3>3, <3>4
    <3>5. CASE i # 1
      <4>1. i - 1 \in 1..(Len(deque) - 1) /\ (i - 1) + 1 = i
        BY <2>2, <3>5
      <4>2. deque'[i - 1] = deque[i] /\ i - 1 \in DOMAIN deque'
        BY <2>2, <2>4, <3>2, <4>1 DEF Poll
      <4> QED
        BY <4>2
    <3> QED
      BY <3>4, <3>5
  <2> QED
    BY <2>3, <2>4 DEF QueueNext
<1> QED
  BY <1>1, CountedInvariance, PTL DEF QueueSpec, UrgentNeverDisplaced
=============================================================================
