----------------------------- MODULE Lifecycle -----------------------------
(***************************************************************************)
(* The two state machines of the bonding engine as their enums declare     *)
(* them: PathState (bonding/transport/PathState.kt) and BondingState       *)
(* (bonding/core/BondingState.kt).                                         *)
(***************************************************************************)

PathState == {"INIT", "ACTIVE", "DEGRADED", "FAILED", "RECOVERING", "CLOSED"}

(* The legal next states of a path, canTransitionTo. *)
PathSuccessors(s) ==
    CASE s = "INIT"       -> {"ACTIVE", "FAILED", "CLOSED"}
      [] s = "ACTIVE"     -> {"DEGRADED", "FAILED", "CLOSED"}
      [] s = "DEGRADED"   -> {"ACTIVE", "FAILED", "CLOSED"}
      [] s = "FAILED"     -> {"RECOVERING", "CLOSED"}
      [] s = "RECOVERING" -> {"ACTIVE", "FAILED", "CLOSED"}
      [] s = "CLOSED"     -> {}

(* The states in which the scheduler may pick a path. *)
Usable == {"ACTIVE", "DEGRADED", "RECOVERING"}

BondingState ==
    {"STOPPED", "STARTING", "ACTIVE", "DEGRADED", "STOPPING", "ERROR"}

(* The legal next states of the engine, canTransitionTo. *)
EngineSuccessors(s) ==
    CASE s = "STOPPED"  -> {"STARTING"}
      [] s = "STARTING" -> {"ACTIVE", "ERROR", "STOPPING"}
      [] s = "ACTIVE"   -> {"DEGRADED", "STOPPING", "ERROR"}
      [] s = "DEGRADED" -> {"ACTIVE", "STOPPING", "ERROR"}
      [] s = "STOPPING" -> {"STOPPED"}
      [] s = "ERROR"    -> {"STOPPING", "STOPPED"}
=============================================================================
