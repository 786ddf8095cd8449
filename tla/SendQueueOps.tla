---------------------------- MODULE SendQueueOps ----------------------------
(***************************************************************************)
(* What BoundedSendQueue.offer() (bonding/buffer/SendQueue.kt) does to the *)
(* queue of one path.  A frame is a record with its number and whether it  *)
(* carries the CONTROL or PRIORITY flag.                                   *)
(***************************************************************************)
EXTENDS Integers, Sequences

CONSTANT Capacity   \* capacity

ASSUME CapacityAssumption == Capacity \in Nat

(* Mutant: the overflow search also takes an urgent frame. *)
LowPriority_Any(q) == DOMAIN q

LowPriority(q) == {i \in DOMAIN q : ~q[i].urgent}

(* indexOfFirst { neither CONTROL nor PRIORITY } *)
Victim(q) == CHOOSE i \in LowPriority(q) : \A j \in LowPriority(q) : i <= j

(* removeAt(i) *)
Without(q, i) ==
    [j \in 1..(Len(q) - 1) |-> IF j < i THEN q[j] ELSE q[j + 1]]

(* Mutant: the queue grows by one past its capacity. *)
HasRoom_OffByOne(q) == Len(q) <= Capacity

HasRoom(q) == Len(q) < Capacity

(* The queue after offer(frame). *)
Offered(q, frame) ==
    IF HasRoom(q) THEN Append(q, frame)
    ELSE IF LowPriority(q) # {} THEN Append(Without(q, Victim(q)), frame)
    ELSE q

(* Mutant: a refused incoming frame is not counted. *)
Drops_NotRefused(q) == IF ~HasRoom(q) /\ LowPriority(q) # {} THEN 1 ELSE 0

(* Mutant: an overflow counts the whole queue as dropped. *)
Drops_Queue(q) == IF HasRoom(q) THEN 0 ELSE Len(q)

(* How many frames offer() drops. *)
Drops(q) == IF HasRoom(q) THEN 0 ELSE 1
=============================================================================
