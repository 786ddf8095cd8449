------------------------- MODULE AdaptiveScheduler -------------------------
(***************************************************************************)
(* AdaptiveScheduler (bonding/scheduler/AdaptiveScheduler.kt): which path  *)
(* carries the next frame.  selectPath() runs on the one thread that       *)
(* sends, so it is one action; path states and metrics change under it.    *)
(*                                                                         *)
(* Paths are 1..N in the order of the engine's list.  The five sub-scores  *)
(* of scoreFor() are one number per path, drawn from Scores whenever a     *)
(* metrics cycle or the queue depth moves it; the state penalties (1/2 for *)
(* DEGRADED, 1/4 for RECOVERING) are kept by scaling the scores by 4.      *)
(* consecutivePickCount is only ever compared with maxConsecutivePicks and *)
(* saturates there.                                                        *)
(***************************************************************************)
EXTENDS Integers, FiniteSets, Functions, Lifecycle

CONSTANTS
    N,                     \* number of paths
    Percent,               \* what a full share counts for, 100 in the code
    Scores,                \* values the raw score of a path takes
    MaxWeightStep,         \* maxWeightStepPerUpdate
    MaxConsecutivePicks,   \* maxConsecutivePicks
    RecoveryStartWeight    \* recoveryStartWeight

ASSUME SchedulerAssumption ==
    /\ N \in Nat \ {0}
    /\ Percent \in Nat \ {0}
    /\ Scores \subseteq Nat \ {0}
    /\ MaxWeightStep \in Nat \ {0}
    /\ MaxConsecutivePicks \in Nat \ {0}
    /\ RecoveryStartWeight \in 0..Percent

Path == 1..N
None == 0         \* no path picked yet
Unset == -1       \* no entry in the map

VARIABLES
    pathState,              \* the state of each PathRuntime
    score,                  \* raw score of each path
    smoothedWeights,
    swrrCurrent,
    lastKnownState,         \* only told apart: unknown, ACTIVE, other
    lastPickedPathId,
    consecutivePickCount,
    burst                   \* history: picks of lastPickedPathId in a row,
                            \* each made while another path was eligible

vars == <<pathState, score, smoothedWeights, swrrCurrent, lastKnownState,
          lastPickedPathId, consecutivePickCount, burst>>

Init ==
    /\ pathState = [p \in Path |-> "INIT"]
    /\ score \in [Path -> Scores]
    /\ smoothedWeights = [p \in Path |-> Unset]
    /\ swrrCurrent = [p \in Path |-> 0]
    /\ lastKnownState = [p \in Path |-> "unknown"]
    /\ lastPickedPathId = None
    /\ consecutivePickCount = 0
    /\ burst = 0

Eligible == {p \in Path : pathState[p] \in Usable}

-----------------------------------------------------------------------------
(* Weights.                                                                *)

(* detectFreshRecoveries: a path that was not ACTIVE when last looked at   *)
(* and is ACTIVE now restarts at RecoveryStartWeight.                      *)
WeightsAfterRecoveries ==
    [p \in Path |->
        IF /\ lastKnownState[p] = "other"
           /\ pathState[p] = "ACTIVE"
        THEN RecoveryStartWeight
        ELSE smoothedWeights[p]]

ScaledScore(p) ==
    CASE pathState[p] = "DEGRADED"   -> 2 * score[p]
      [] pathState[p] = "RECOVERING" -> score[p]
      [] OTHER                       -> 4 * score[p]

(* normalizeToIntegerPercentages: floors, then one more point for each of  *)
(* the largest remainders until the shares add up to Percent.              *)
Target(p) ==
    LET total == SumFunction([q \in Eligible |-> ScaledScore(q)])
        floor == [q \in Eligible |-> (Percent * ScaledScore(q)) \div total]
        fraction == [q \in Eligible |-> (Percent * ScaledScore(q)) % total]
        ahead == {q \in Eligible : \/ fraction[q] > fraction[p]
                                   \/ fraction[q] = fraction[p] /\ q < p}
    IN  floor[p] + (IF Cardinality(ahead) < Percent - SumFunction(floor)
                    THEN 1 ELSE 0)

Clamp(x, bound) == IF x > bound THEN bound ELSE IF x < -bound THEN -bound ELSE x

(* Mutant: every update moves the weight by a full step. *)
Smoothed_FullStep(w, p) ==
    IF p \notin Eligible THEN w[p]
    ELSE IF w[p] = Unset THEN Target(p)
    ELSE IF w[p] <= Target(p) THEN w[p] + MaxWeightStep ELSE w[p] - MaxWeightStep

(* recomputeSmoothedWeights for one path. *)
Smoothed(w, p) ==
    IF p \notin Eligible THEN w[p]
    ELSE IF w[p] = Unset THEN Target(p)
    ELSE w[p] + Clamp(Target(p) - w[p], MaxWeightStep)

-----------------------------------------------------------------------------
(* Choice.                                                                 *)

SwrrWeight(w, p) == IF w[p] > 1 THEN w[p] ELSE 1

SwrrRaised(w) ==
    [p \in Path |-> IF p \in Eligible THEN swrrCurrent[p] + SwrrWeight(w, p)
                                      ELSE swrrCurrent[p]]

(* Mutant: the comparison is the wrong way round. *)
FirstGreatest_Least(f, candidates) ==
    CHOOSE p \in candidates :
        \A q \in candidates : f[q] > f[p] \/ (f[q] = f[p] /\ p <= q)

(* The first of the eligible paths with the greatest value of f. *)
FirstGreatest(f, candidates) ==
    CHOOSE p \in candidates :
        \A q \in candidates : f[q] < f[p] \/ (f[q] = f[p] /\ p <= q)

(* Mutant: the chosen path pays back its own weight, not the total. *)
SwrrPaid_Own(w, chosen) ==
    [SwrrRaised(w) EXCEPT ![chosen] = @ - SwrrWeight(w, chosen)]

SwrrPaid(w, chosen) ==
    [SwrrRaised(w) EXCEPT
        ![chosen] = @ - SumFunction([p \in Eligible |-> SwrrWeight(w, p)])]

(* recordPick *)
RecordPick(p) ==
    /\ lastPickedPathId' = p
    /\ consecutivePickCount' =
           IF p # lastPickedPathId THEN 1
           ELSE IF consecutivePickCount < MaxConsecutivePicks
           THEN consecutivePickCount + 1 ELSE consecutivePickCount
    /\ burst' = IF Cardinality(Eligible) < 2 THEN 0
                ELSE IF p # lastPickedPathId THEN 1 ELSE burst + 1

BurstCapReached == consecutivePickCount >= MaxConsecutivePicks

SelectAmong(w) ==
    IF BurstCapReached
    THEN /\ RecordPick(FirstGreatest(w, Eligible \ {lastPickedPathId}))
         /\ UNCHANGED swrrCurrent
    ELSE LET chosen == FirstGreatest(SwrrRaised(w), Eligible)
         IN  /\ RecordPick(chosen)
             /\ swrrCurrent' = SwrrPaid(w, chosen)

SelectPath ==
    /\ lastKnownState' =
           [p \in Path |-> IF pathState[p] = "ACTIVE" THEN "ACTIVE" ELSE "other"]
    /\ \/ /\ Eligible = {}
          /\ smoothedWeights' = WeightsAfterRecoveries
          /\ UNCHANGED <<swrrCurrent, lastPickedPathId,
                         consecutivePickCount, burst>>
       \/ /\ Cardinality(Eligible) = 1
          /\ smoothedWeights' = WeightsAfterRecoveries
          /\ \E p \in Eligible : RecordPick(p)
          /\ UNCHANGED swrrCurrent
       \/ /\ Cardinality(Eligible) > 1
          /\ smoothedWeights' =
                 [p \in Path |-> Smoothed(WeightsAfterRecoveries, p)]
          /\ SelectAmong(smoothedWeights')
    /\ UNCHANGED <<pathState, score>>

-----------------------------------------------------------------------------
(* What changes around the scheduler.                                      *)

(* update(): a metrics cycle, or a queue that grew or drained. *)
Update(p, s) ==
    /\ score[p] # s
    /\ score' = [score EXCEPT ![p] = s]
    /\ UNCHANGED <<pathState, smoothedWeights, swrrCurrent, lastKnownState,
                   lastPickedPathId, consecutivePickCount, burst>>

(* The engine moves a path along its state machine; no code path ever      *)
(* reports a path DEGRADED.                                                *)
PathChanges(p, s) ==
    /\ s \in PathSuccessors(pathState[p]) \ {"DEGRADED"}
    /\ pathState' = [pathState EXCEPT ![p] = s]
    /\ UNCHANGED <<score, smoothedWeights, swrrCurrent, lastKnownState,
                   lastPickedPathId, consecutivePickCount, burst>>

Next ==
    \/ SelectPath
    \/ \E p \in Path, s \in Scores : Update(p, s)
    \/ \E p \in Path, s \in PathState : PathChanges(p, s)

Spec == Init /\ [][Next]_vars

-----------------------------------------------------------------------------
(* The ranges are part of it: a weight is a share of at most Percent, and  *)
(* no path gets more than MaxConsecutivePicks frames in a row while        *)
(* another one could have taken them.                                      *)
TypeOK ==
    /\ pathState \in [Path -> PathState]
    /\ score \in [Path -> Scores]
    /\ smoothedWeights \in [Path -> {Unset} \cup 0..Percent]
    /\ swrrCurrent \in [Path -> Int]
    /\ lastKnownState \in [Path -> {"unknown", "ACTIVE", "other"}]
    /\ lastPickedPathId \in Path \cup {None}
    /\ consecutivePickCount \in 0..MaxConsecutivePicks
    /\ burst \in 0..MaxConsecutivePicks

(* Smooth weighted round-robin neither creates nor loses credit, whatever  *)
(* path leaves or rejoins between two picks.                               *)
CreditBalanced == SumFunction(swrrCurrent) = 0

(* No path runs up a credit or a debt without bound, however weights move  *)
(* and paths leave with theirs and come back: at most (N - 1) / 2 rounds   *)
(* of all paths at their full share.  So a path that comes back neither    *)
(* takes nor misses more than a bounded number of frames in a row.         *)
CreditBounded ==
    \A p \in Path : /\ 2 * swrrCurrent[p] <= Percent * N * (N - 1)
                    /\ -2 * swrrCurrent[p] <= Percent * N * (N - 1)
=============================================================================
