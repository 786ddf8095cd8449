----------------------------- MODULE MCBuffers -----------------------------
(***************************************************************************)
(* The reorder buffer of a receiver and the send queue of a path, each on  *)
(* its own.  They share nothing, so each behaviour is one of the buffer or *)
(* one of the queue, and TLC explores the sum of the two rather than their *)
(* product.                                                                *)
(***************************************************************************)
EXTENDS ReorderBuffer, SendQueue

VARIABLE side     \* which of the two this behaviour is about

buffersVars == <<side, bufferVars, queueVars>>

BuffersInit == Init /\ QueueInit /\ side \in {"receiver", "sender"}

Receiving == side = "receiver" /\ UNCHANGED <<side, queueVars>>
Sending == side = "sender" /\ UNCHANGED <<side, bufferVars>>

BuffersNext ==
    \/ Next /\ Receiving
    \/ QueueNext /\ Sending

\* The fairness is that of the reorder buffer; the queue's users owe nothing.
BuffersSpec ==
    /\ BuffersInit /\ [][BuffersNext]_buffersVars
    /\ WF_buffersVars(Tick /\ Receiving)
    /\ WF_buffersVars((\E answered \in BOOLEAN : ReadOrdered(answered)) /\ Receiving)
=============================================================================
