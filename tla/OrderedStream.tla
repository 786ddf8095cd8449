--------------------------- MODULE OrderedStream ---------------------------
(***************************************************************************)
(* What a BondedChannel promises the two ends of a stream: the frames that *)
(* come out are frames that went in, in the order they went in, none of    *)
(* them twice.  Frames may be missing.                                     *)
(***************************************************************************)
EXTENDS Integers, Sequences

VARIABLES
    accepted,   \* frames 0..accepted-1 have been given to send()
    out         \* the frames the receiving end has handed out

Init == accepted = 0 /\ out = <<>>

Accept ==
    /\ accepted' = accepted + 1
    /\ UNCHANGED out

Deliver ==
    /\ Len(out) < Len(out')
    /\ SubSeq(out', 1, Len(out)) = out
    /\ \A i \in 1..Len(out') : out'[i] < accepted
    /\ \A i, j \in 1..Len(out') : i < j => out'[i] < out'[j]
    /\ UNCHANGED accepted

Next == Accept \/ Deliver

Spec == Init /\ [][Next]_<<accepted, out>>
=============================================================================
