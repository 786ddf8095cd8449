------------------------------- MODULE MCCore -------------------------------
(***************************************************************************)
(* Core for TLC: two cores, the second started once the first is over,     *)
(* while what the first left behind may still be there.                    *)
(***************************************************************************)
EXTENDS Core

Both(t, p) == [x \in Parts |-> IF x = "tor" THEN t ELSE p]

\* The first core in every mode of each part: either inside the tunnel the other
\* carries, Psiphon alone, Psiphon over Tor alone, and the two carriers that are refused.
\* The second wants the port of the one part or of the other.
MCModes ==
    <<{Both("Chain", "Reverse"), Both("Reverse", "Chain"), Both("Off", "Only"),
       Both("Only", "Chain"), Both("Reverse", "Reverse")},
      {Both("Chain", "Off"), Both("Off", "Reverse")}>>

=============================================================================
