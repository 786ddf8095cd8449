--------------------------- MODULE ReorderBuffer ---------------------------
(***************************************************************************)
(* WindowedReorderBuffer (bonding/buffer/FrameReorderBuffer.kt): the       *)
(* receiving end of one bonded stream.  Frames reach push() in any order   *)
(* and any number of times; the reassembly loop polls readOrdered(), which *)
(* first runs checkTimeout() and then hands out every consecutive frame    *)
(* from expectedSequence on.  Both methods hold the same lock, so each is  *)
(* one action.  A frame is its sequence number.                            *)
(*                                                                         *)
(* Time: the code compares now() - gapFirstObservedAtMs with two           *)
(* thresholds and nothing else, so gapAge keeps that difference and        *)
(* saturates at HardTimeout; NoGap stands for gapFirstObservedAtMs = 0.    *)
(***************************************************************************)
EXTENDS Integers, Sequences

CONSTANTS
    WindowSize,    \* windowSize
    SoftTimeout,   \* softTimeoutMs, in ticks
    HardTimeout,   \* hardTimeoutMs, in ticks
    MaxSequence,   \* bound: the frames of the stream are 0..MaxSequence
    MaxDropped     \* bound: how far each drop counter may grow

ASSUME BufferAssumption ==
    /\ WindowSize \in Nat \ {0}
    /\ SoftTimeout \in Nat /\ HardTimeout \in Nat /\ SoftTimeout < HardTimeout
    /\ MaxSequence \in Nat
    /\ MaxDropped \in Nat

VARIABLES
    expectedSequence,
    buffered,                 \* the keys of the skip-list map
    gapAge,
    softTimeoutFired,
    droppedTooOldCount,
    droppedTooFarAheadCount,
    permanentlyLostCount,
    delivered                 \* every frame readOrdered has returned, in order

bufferVars == <<expectedSequence, buffered, gapAge, softTimeoutFired,
                droppedTooOldCount, droppedTooFarAheadCount,
                permanentlyLostCount, delivered>>

Sequence == 0..MaxSequence
NoGap == -1

BufferInit ==
    /\ expectedSequence = 0
    /\ buffered = {}
    /\ gapAge = NoGap
    /\ softTimeoutFired = FALSE
    /\ droppedTooOldCount = 0
    /\ droppedTooFarAheadCount = 0
    /\ permanentlyLostCount = 0
    /\ delivered = <<>>

-----------------------------------------------------------------------------
(* push(frame), one alternative per branch of its when.                    *)

PushTooOld(seq) ==
    /\ seq < expectedSequence
    /\ droppedTooOldCount < MaxDropped
    /\ droppedTooOldCount' = droppedTooOldCount + 1
    /\ UNCHANGED <<expectedSequence, buffered, gapAge, softTimeoutFired,
                   droppedTooFarAheadCount, permanentlyLostCount, delivered>>

BeyondWindow(seq) == seq >= expectedSequence + WindowSize

PushTooFarAhead(seq) ==
    /\ BeyondWindow(seq)
    /\ droppedTooFarAheadCount < MaxDropped
    /\ droppedTooFarAheadCount' = droppedTooFarAheadCount + 1
    /\ UNCHANGED <<expectedSequence, buffered, gapAge, softTimeoutFired,
                   droppedTooOldCount, permanentlyLostCount, delivered>>

(* Mutant: closing the gap also forgets what waited behind it. *)
PushExpected_Clears(seq) ==
    /\ seq = expectedSequence
    /\ buffered' = {seq}
    /\ gapAge' = NoGap
    /\ softTimeoutFired' = FALSE
    /\ UNCHANGED <<expectedSequence, droppedTooOldCount,
                   droppedTooFarAheadCount, permanentlyLostCount, delivered>>

PushExpected(seq) ==
    /\ seq = expectedSequence
    /\ buffered' = buffered \cup {seq}
    /\ gapAge' = NoGap
    /\ softTimeoutFired' = FALSE
    /\ UNCHANGED <<expectedSequence, droppedTooOldCount,
                   droppedTooFarAheadCount, permanentlyLostCount, delivered>>

PushAhead(seq) ==
    /\ seq > expectedSequence
    /\ ~BeyondWindow(seq)
    /\ buffered' = buffered \cup {seq}
    /\ gapAge' = IF gapAge = NoGap THEN 0 ELSE gapAge
    /\ UNCHANGED <<expectedSequence, softTimeoutFired, droppedTooOldCount,
                   droppedTooFarAheadCount, permanentlyLostCount, delivered>>

Push(seq) ==
    \/ PushTooOld(seq)
    \/ PushTooFarAhead(seq)
    \/ PushExpected(seq)
    \/ PushAhead(seq)

-----------------------------------------------------------------------------
(* checkTimeout() and readOrdered().                                       *)

(* elapsed >= timeout, for an open gap. *)
Elapsed(timeout) == gapAge # NoGap /\ gapAge >= timeout

(* onMissingSequence(expectedSequence) is about to be called. *)
RequestDue == ~softTimeoutFired /\ Elapsed(SoftTimeout)

(* What the map holds once the callback has returned: a request that the   *)
(* sender's cache answers re-enters push() with the expected frame while   *)
(* the lock is still held.                                                 *)
HeldAfterRequest(answered) ==
    IF RequestDue /\ answered THEN buffered \cup {expectedSequence}
                              ELSE buffered

(* ceilingKey(expectedSequence), as the set of the key it returns. *)
CeilingKey(held) ==
    {k \in held : k >= expectedSequence
                  /\ \A j \in held : j >= expectedSequence => k <= j}

(* Mutant: the hard timeout closes the gap but never jumps over it. *)
ResumeAt_NoJump(held) == {expectedSequence}

(* Where delivery resumes after checkTimeout: past the gap when the hard   *)
(* timeout has expired and some later frame is held.                       *)
ResumeAt(held) ==
    IF Elapsed(HardTimeout) /\ CeilingKey(held) # {}
    THEN CeilingKey(held)
    ELSE {expectedSequence}

(* The drain loop removes from..upTo-1 and leaves upTo expected. *)
Drains(from, upTo, held) ==
    /\ from..(upTo - 1) \subseteq held
    /\ upTo \notin held

(* Mutant: the drained run includes the frame the loop stopped at. *)
Run_Inclusive(from, upTo) == [i \in 1..(upTo - from + 1) |-> from + i - 1]

Run(from, upTo) == [i \in 1..(upTo - from) |-> from + i - 1]

(* Mutant: a gap counts as one lost frame, however long it is. *)
Skipped_Gap(from) == IF from > expectedSequence THEN 1 ELSE 0

(* How many frames a jump to from gives up. *)
Skipped(from) == from - expectedSequence

(* readOrdered(), with answered saying whether the retransmit cache still  *)
(* holds the frame a due request would ask for; it can only hold a frame   *)
(* of the stream.                                                          *)
ReadOrdered(answered) ==
    LET held == HeldAfterRequest(answered)
        injected == RequestDue /\ answered
    IN  /\ answered => expectedSequence \in Sequence
        /\ \E from \in ResumeAt(held) :
           \E upTo \in from..(MaxSequence + 1) :
            /\ Drains(from, upTo, held)
            /\ expectedSequence' = upTo
            /\ buffered' = held \ (from..(upTo - 1))
            /\ delivered' = delivered \o Run(from, upTo)
            /\ permanentlyLostCount' =
                   permanentlyLostCount + Skipped(from)
            /\ gapAge' = IF injected \/ Elapsed(HardTimeout)
                         THEN NoGap ELSE gapAge
            /\ softTimeoutFired' =
                   IF injected \/ Elapsed(HardTimeout)
                   THEN FALSE ELSE softTimeoutFired \/ RequestDue
            /\ UNCHANGED <<droppedTooOldCount, droppedTooFarAheadCount>>

(* The clock moves on while a gap is timed. *)
Tick ==
    /\ gapAge # NoGap /\ gapAge < HardTimeout
    /\ gapAge' = gapAge + 1
    /\ UNCHANGED <<expectedSequence, buffered, softTimeoutFired,
                   droppedTooOldCount, droppedTooFarAheadCount,
                   permanentlyLostCount, delivered>>

Init == BufferInit

(* Receiver loops push whatever arrives; the reassembly loop polls. *)
Next ==
    \/ \E seq \in Sequence : Push(seq)
    \/ \E answered \in BOOLEAN : ReadOrdered(answered)
    \/ Tick

Spec == Init /\ [][Next]_bufferVars

(* Time passes, and the reassembly loop calls readOrdered() every          *)
(* REASSEMBLY_POLL_MS for as long as the engine runs.  Nothing obliges the *)
(* network to deliver another frame.                                       *)
FairSpec ==
    /\ Spec
    /\ WF_bufferVars(Tick)
    /\ WF_bufferVars(\E answered \in BOOLEAN : ReadOrdered(answered))

-----------------------------------------------------------------------------
TypeOK ==
    /\ expectedSequence \in 0..(MaxSequence + 1)
    /\ buffered \in SUBSET Sequence
    /\ gapAge \in {NoGap} \cup 0..HardTimeout
    /\ softTimeoutFired \in BOOLEAN
    /\ droppedTooOldCount \in 0..MaxDropped
    /\ droppedTooFarAheadCount \in 0..MaxDropped
    /\ permanentlyLostCount \in 0..(MaxSequence + 1)
    /\ delivered \in Seq(Sequence)

(* Frames leave readOrdered() in strictly increasing order, so none twice, *)
(* however push() was reordered, repeated or answered by recovery.         *)
InOrder ==
    \A i, j \in 1..Len(delivered) : i < j => delivered[i] < delivered[j]

(* Memory is bounded: only frames of the window in front of                *)
(* expectedSequence are ever held, whatever checkTimeout skips.            *)
HeldWithinWindow ==
    \A s \in buffered :
        expectedSequence <= s /\ s < expectedSequence + WindowSize

(* Every sequence number passed was either delivered or counted once as    *)
(* permanently lost.                                                       *)
Accounted == Len(delivered) + permanentlyLostCount = expectedSequence

(* A frame the buffer has accepted is never thrown away: it leaves the map *)
(* only by being delivered, also when a gap is given up on or the missing  *)
(* frame is recovered in the very call in which the hard timeout expires.  *)
HeldFramesAreDelivered ==
    [][\A s \in buffered \ buffered' :
          \E i \in 1..Len(delivered') : delivered'[i] = s]_bufferVars

(* While the gap timer runs and a later frame waits, the stream moves on:  *)
(* the missing frame arrives, is recovered, or is given up.                *)
TimedGapEnds ==
    \A e \in Sequence :
        (gapAge # NoGap /\ buffered # {} /\ expectedSequence = e)
            ~> (expectedSequence > e)

(* "rather than stalling forever": a frame waiting behind a gap is         *)
(* eventually passed, even when the network has nothing more to bring.     *)
NoStall ==
    \A s \in Sequence : (s \in buffered) ~> (expectedSequence > s)

=============================================================================
