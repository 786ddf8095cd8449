----------------------- MODULE EmbeddedRuntime_proofs -----------------------
(***************************************************************************)
(* For any number of starts and stops, trafficReady speaks of the current  *)
(* engine, and, where start() asks isRunning() under its lock, no child    *)
(* process is ever left behind.                                            *)
(***************************************************************************)
EXTENDS EmbeddedRuntime, TLAPS

(* The current attempt, once it has assigned the field, still holds it. *)
CurrentHoldsField ==
    \A g \in Generation :
        (attempt[g] \in {"assigned", "spawned", "verifying"} /\ generation = g) => process = g

(* Nothing is left to do for an attempt that has made the engine ready. *)
ReadyIsDone == phase = "READY" => generation # 0 /\ attempt[generation] = "done"

(* Generations to come have not begun. *)
NoneAhead == \A g \in Generation : g > generation => attempt[g] = "none"

(* The inductive invariant behind ReadyIsCurrent. *)
RInv == TypeOK /\ NoneAhead /\ CurrentHoldsField /\ ReadyIsDone /\ ReadyIsCurrent

(* A child runs only after it was spawned. *)
AliveIsSpawned ==
    \A g \in alive : attempt[g] \in {"spawned", "verifying", "failing", "cleaning", "done"}

(* While the current attempt waits, the field holds no child that only the *)
(* field keeps track of: start() saw none, and none has become ready since.*)
FieldIsFree ==
    \A g \in Generation :
        (attempt[g] = "waiting" /\ generation = g /\ process \in alive)
            => attempt[process] # "done"

(* Only between its two parts does stop() hold a process. *)
HeldByStop == control.at # "kill" => control.process = 0

(* The inductive invariant behind NoOrphan. *)
OInv == AliveIsSpawned /\ FieldIsFree /\ HeldByStop /\ NoOrphan

AttemptState == {"none", "waiting", "assigned", "spawned", "verifying",
                 "failing", "cleaning", "done"}

-----------------------------------------------------------------------------
(* At first there is neither an attempt nor a process. *)
LEMMA InitInv == Init => RInv /\ OInv
<1> SUFFICES ASSUME Init PROVE RInv /\ OInv
  OBVIOUS
<1>1. trafficReady \in BOOLEAN /\ wanted \in BOOLEAN /\ changed \in BOOLEAN
  BY Zenon DEF Init
<1>2. TypeOK
  BY <1>1, RuntimeAssumption DEF Init, TypeOK, Phase, Idle, ControlAt, NoStart, Generation, Starters
<1>3. ReadyIsCurrent
  BY Zenon DEF Init, ReadyIsCurrent
<1> QED
  BY <1>2, <1>3 DEF Init, RInv, OInv, CurrentHoldsField, NoneAhead, ReadyIsDone, AliveIsSpawned,
         FieldIsFree, HeldByStop, NoOrphan, Idle, ControlAt

(* The steps that leave every field of the runtime alone. *)
Outside == ChoiceChanges \/ ChoiceHandled \/ Supervises \/ TearsDown \/ Applies \/ Launches \/ Collects

(* A change of choice, a control operation that begins and a collector     *)
(* that wakes touch neither the runtime's fields nor its coroutines.       *)
LEMMA OutsideInv ==
    ASSUME RInv, Outside
    PROVE  RInv' /\ (OInv => OInv')
<1>1. UNCHANGED <<fields, coroutines>>
  BY DEF Outside, ChoiceChanges, ChoiceHandled, Supervises, TearsDown, Applies, Launches, Collects
<1>2. wanted' \in BOOLEAN /\ changed' \in BOOLEAN
  BY Zenon DEF Outside, ChoiceChanges, ChoiceHandled, Supervises, TearsDown, Applies, Launches,
         Collects, RInv, TypeOK
<1>3. /\ control' \in [at : {"idle", "apply", "launch", "stop", "kill"},
                       job : 0..MaxGeneration, process : 0..MaxGeneration,
                       then : {"idle", "apply", "launch"}]
      /\ control' = control \/ (control.at # "kill" /\ control'.process = 0)
  <2>1. CASE control' = control
    BY <2>1 DEF RInv, TypeOK
  <2>2. CASE control' # control
    <3>1. control.at # "kill"
      BY <2>2 DEF Outside, ChoiceChanges, ChoiceHandled, Supervises, TearsDown,
             Applies, Launches, Collects, Idle, ControlAt
    <3>2. control' \in {ControlAt("apply", "idle"), ControlAt("stop", "apply"),
                        ControlAt("stop", "idle"), ControlAt("idle", "idle"),
                        ControlAt("launch", "idle"), ControlAt("stop", "launch")}
      BY <2>2 DEF Outside, ChoiceChanges, ChoiceHandled, Supervises, TearsDown,
             Applies, Launches, Collects, Idle
    <3> QED
      BY <3>1, <3>2, RuntimeAssumption DEF ControlAt
  <2> QED
    BY <2>1, <2>2
<1>4. starter' \in [Starters -> [at : {"idle", "start", "register"}, gen : 0..MaxGeneration]]
  BY RuntimeAssumption DEF Outside, ChoiceChanges, ChoiceHandled, Supervises, TearsDown,
         Applies, Launches, Collects, RInv, TypeOK
<1>5. RInv'
  BY <1>1, <1>2, <1>3, <1>4 DEF RInv, TypeOK, fields, coroutines, CurrentHoldsField, NoneAhead,
         ReadyIsDone, ReadyIsCurrent
<1>6. ASSUME OInv PROVE OInv'
  <2>1. HeldByStop' /\ NoOrphan'
    BY <1>1, <1>3, <1>6 DEF OInv, NoOrphan, HeldByStop, fields, coroutines, RInv, TypeOK, Generation
  <2> QED
    BY <1>1, <1>6, <2>1 DEF OInv, AliveIsSpawned, FieldIsFree, fields, coroutines
<1> QED
  BY <1>5, <1>6

-----------------------------------------------------------------------------
(* start() opens its attempt only when no job is active; that it also saw  *)
(* no child running is what keeps the field free of one.                   *)
LEMMA StartInv ==
    ASSUME RInv, NEW t \in Starters, Starting(t)
    PROVE  RInv' /\ (ChecksRunning /\ OInv => OInv')
<1> USE RuntimeAssumption DEF RInv, TypeOK, Generation
<1>1. trafficReady' \in BOOLEAN /\ wanted' \in BOOLEAN /\ changed' \in BOOLEAN
  BY Zenon DEF Starting, StartRefused, StartLocks, StartRegisters, fields, RInv, TypeOK
<1>2. CASE StartRefused(t)
  <2>1. /\ UNCHANGED <<fields, coroutines, wanted, changed, control>>
        /\ starter' \in [Starters -> [at : {"idle", "start", "register"}, gen : 0..MaxGeneration]]
    BY <1>2 DEF StartRefused, NoStart
  <2> QED
    BY <2>1 DEF fields, coroutines, CurrentHoldsField, NoneAhead, ReadyIsDone, ReadyIsCurrent, OInv,
           AliveIsSpawned, FieldIsFree, HeldByStop, NoOrphan
<1>3. CASE StartRegisters(t)
  <2>1. /\ UNCHANGED <<generation, phase, trafficReady, process, attempt, alive, watching,
                       wanted, changed, control>>
        /\ starter' = [starter EXCEPT ![t] = NoStart]
    BY <1>3 DEF StartRegisters
  <2>2. starter' \in [Starters -> [at : {"idle", "start", "register"}, gen : 0..MaxGeneration]]
    BY <2>1 DEF NoStart
  <2>3. job' \in 0..MaxGeneration /\ cancelled' \subseteq Generation
    BY <1>3 DEF StartRegisters, Cancelled
  <2> QED
    BY <2>1, <2>2, <2>3 DEF CurrentHoldsField, NoneAhead, ReadyIsDone, ReadyIsCurrent, OInv,
           AliveIsSpawned, FieldIsFree, HeldByStop, NoOrphan
<1>4. CASE StartLocks(t)
  <2>1. /\ generation' = generation + 1 /\ generation' \in Generation
        /\ phase' = "STARTING" /\ ~trafficReady'
        /\ attempt' = [attempt EXCEPT ![generation'] = "waiting"]
        /\ UNCHANGED <<job, process, cancelled, alive, watching, wanted, changed, control>>
    BY <1>4 DEF StartLocks
  <2>2. attempt' \in [Generation -> AttemptState]
    BY <2>1 DEF AttemptState
  <2>3. starter' \in [Starters -> [at : {"idle", "start", "register"}, gen : 0..MaxGeneration]]
    BY <1>4, <2>1 DEF StartLocks
  <2>4. RInv'
    BY <1>1, <2>1, <2>2, <2>3 DEF AttemptState, Phase, CurrentHoldsField, NoneAhead, ReadyIsDone, ReadyIsCurrent
  <2>5. ASSUME ChecksRunning, OInv PROVE OInv'
    <3>1. process \notin alive
      BY <1>4, <2>5 DEF StartLocks, MayStart, IsRunning
    <3>2. generation' \notin alive
      BY <2>5, <2>1, <1>4 DEF OInv, AliveIsSpawned, NoneAhead
    <3> QED
      BY <2>1, <2>2, <2>5, <3>1, <3>2 DEF OInv, AliveIsSpawned, FieldIsFree, HeldByStop, NoOrphan
  <2> QED
    BY <2>4, <2>5
<1> QED
  BY <1>2, <1>3, <1>4 DEF Starting

-----------------------------------------------------------------------------
(* stop() takes the process from the field and keeps it until it is killed. *)
LEMMA StopInv ==
    ASSUME RInv, StopLocks \/ StopEnds
    PROVE  RInv' /\ (OInv => OInv')
<1> USE RuntimeAssumption DEF RInv, TypeOK, Generation
<1>1. trafficReady' \in BOOLEAN /\ wanted' \in BOOLEAN /\ changed' \in BOOLEAN
  BY Zenon DEF StopLocks, StopEnds, fields, RInv, TypeOK
<1>2. CASE StopLocks
  <2>1. /\ generation' = generation + 1 /\ generation' \in Generation
        /\ phase' = "IDLE" /\ ~trafficReady' /\ job' = 0 /\ process' = 0
        /\ control' = [at |-> "kill", job |-> job, process |-> process, then |-> control.then]
        /\ control.at = "stop"
        /\ UNCHANGED <<coroutines, wanted, changed, starter>>
    BY <1>2 DEF StopLocks
  <2>2. RInv'
    BY <1>1, <2>1 DEF coroutines, Phase, CurrentHoldsField, NoneAhead, ReadyIsDone, ReadyIsCurrent
  <2>3. ASSUME OInv PROVE OInv'
    BY <2>1, <2>3 DEF coroutines, NoneAhead, OInv, AliveIsSpawned, FieldIsFree, HeldByStop, NoOrphan
  <2> QED
    BY <2>2, <2>3
<1>3. CASE StopEnds
  <2>1. /\ UNCHANGED <<fields, attempt, watching, wanted, changed, starter>>
        /\ cancelled' \subseteq Generation
        /\ alive' = alive \ {control.process}
        /\ control' = [at |-> control.then, job |-> 0, process |-> 0, then |-> "idle"]
    BY <1>3 DEF StopEnds, Cancelled, ControlAt
  <2>4. control' \in [at : {"idle", "apply", "launch", "stop", "kill"},
                      job : 0..MaxGeneration, process : 0..MaxGeneration,
                      then : {"idle", "apply", "launch"}]
    BY <2>1
  <2>2. RInv'
    BY <1>1, <2>1, <2>4 DEF fields, CurrentHoldsField, NoneAhead, ReadyIsDone, ReadyIsCurrent
  <2>3. ASSUME OInv PROVE OInv'
    BY <2>1, <2>3 DEF fields, OInv, AliveIsSpawned, FieldIsFree, HeldByStop, NoOrphan
  <2> QED
    BY <2>2, <2>3
<1> QED
  BY <1>2, <1>3

(* The child that dies, and the monitor that notices: the field is cleared *)
(* of a dead child only.                                                   *)
LEMMA DeathInv ==
    ASSUME RInv, NEW g \in Generation, MonitorLooks(g) \/ EngineDies(g)
    PROVE  RInv' /\ (OInv => OInv')
<1> USE RuntimeAssumption DEF RInv, TypeOK, Generation
<1>1. trafficReady' \in BOOLEAN /\ wanted' \in BOOLEAN /\ changed' \in BOOLEAN
  BY Zenon DEF MonitorLooks, EngineDies, fields, callers, RInv, TypeOK
<1>2. CASE MonitorLooks(g)
  <2>1. /\ UNCHANGED <<generation, job, attempt, cancelled, alive, callers>>
        /\ watching' \subseteq Generation
        /\ g \notin alive
        /\ \/ /\ generation = g /\ process = g /\ phase = "READY"
              /\ phase' = "FAILED" /\ ~trafficReady' /\ process' = 0
           \/ UNCHANGED <<phase, trafficReady, process>>
    BY <1>2 DEF MonitorLooks
  <2>2. RInv'
    BY <1>1, <2>1 DEF callers, Phase, CurrentHoldsField, NoneAhead, ReadyIsDone, ReadyIsCurrent
  <2>3. ASSUME OInv PROVE OInv'
    BY <2>1, <2>3 DEF callers, OInv, AliveIsSpawned, FieldIsFree, HeldByStop, NoOrphan
  <2> QED
    BY <2>2, <2>3
<1>3. CASE EngineDies(g)
  <2>1. /\ UNCHANGED <<fields, attempt, cancelled, watching, callers>>
        /\ alive' = alive \ {g}
    BY <1>3 DEF EngineDies
  <2>2. RInv'
    BY <1>1, <2>1 DEF fields, callers, CurrentHoldsField, NoneAhead, ReadyIsDone, ReadyIsCurrent
  <2>3. ASSUME OInv PROVE OInv'
    BY <2>1, <2>3 DEF fields, callers, OInv, AliveIsSpawned, FieldIsFree, HeldByStop, NoOrphan
  <2> QED
    BY <2>2, <2>3
<1> QED
  BY <1>2, <1>3

-----------------------------------------------------------------------------
(* What a move of an attempt's coroutine does to the others. *)
LEMMA MoveType ==
    ASSUME TypeOK, NEW g \in Generation, NEW from \in AttemptState \ {"none"},
           NEW to \in AttemptState, AttemptMoves(g, from, to)
    PROVE  /\ attempt' \in [Generation -> AttemptState]
           /\ attempt[g] = from /\ attempt'[g] = to
           /\ \A h \in Generation \ {g} : attempt'[h] = attempt[h]
           /\ cancelled' \subseteq Generation
  BY DEF AttemptMoves, TypeOK, AttemptState

(* A step of an attempt that changes no field of the runtime. *)
Quiet(g) ==
    /\ UNCHANGED <<fields, watching, callers>>
    /\ attempt' \in [Generation -> AttemptState] /\ cancelled' \subseteq Generation
    /\ \A h \in Generation \ {g} : attempt'[h] = attempt[h]
    /\ \/ /\ attempt[g] \in {"waiting", "assigned", "spawned", "verifying"}
          /\ attempt'[g] \in {"failing", "cleaning"} /\ alive' = alive
       \/ attempt[g] = "waiting" /\ attempt'[g] = "done" /\ alive' = alive
       \/ /\ attempt[g] = "assigned" /\ attempt'[g] = "spawned"
          /\ alive' = alive \cup {g}
       \/ /\ attempt[g] = "cleaning" /\ attempt'[g] = "done"
          /\ alive' = alive \ {g}

(* Breaking down, spawning, noticing a cancellation and cleaning up are quiet. *)
LEMMA QuietSteps ==
    ASSUME TypeOK, NEW g \in Generation,
           BreaksDown(g) \/ Spawn(g) \/ CancelSeen(g) \/ Cleans(g)
    PROVE  Quiet(g)
<1>1. CASE BreaksDown(g)
  BY <1>1, MoveType DEF BreaksDown, Quiet, AttemptState
<1>2. CASE Spawn(g)
  BY <1>2, MoveType DEF Spawn, Quiet, AttemptState
<1>3. CASE CancelSeen(g)
  BY <1>3, MoveType DEF CancelSeen, Quiet, AttemptState
<1>4. CASE Cleans(g)
  BY <1>4, MoveType DEF Cleans, Quiet, AttemptState
<1> QED
  BY <1>1, <1>2, <1>3, <1>4

(* A quiet step ends an attempt only with its child dead or never spawned. *)
LEMMA QuietInv ==
    ASSUME RInv, NEW g \in Generation, Quiet(g)
    PROVE  RInv' /\ (OInv => OInv')
<1> USE RuntimeAssumption DEF RInv, TypeOK, Generation
<1>1. trafficReady' \in BOOLEAN /\ wanted' \in BOOLEAN /\ changed' \in BOOLEAN
  BY Zenon DEF Quiet, fields, callers, RInv, TypeOK
<1>2. /\ UNCHANGED <<generation, phase, trafficReady, job, process, watching,
                     wanted, changed, control, starter>>
      /\ alive' \subseteq Generation
  BY DEF Quiet, fields, callers
<1>3. TypeOK'
  BY <1>1, <1>2 DEF Quiet, AttemptState
<1>4. CurrentHoldsField' /\ NoneAhead'
  BY <1>2 DEF Quiet, CurrentHoldsField, NoneAhead
<1>5. ReadyIsDone' /\ ReadyIsCurrent'
  BY <1>2 DEF Quiet, ReadyIsDone, ReadyIsCurrent
<1>6. ASSUME OInv PROVE OInv'
  <2>1. AliveIsSpawned' /\ HeldByStop'
    BY <1>2, <1>6 DEF Quiet, OInv, AliveIsSpawned, HeldByStop
  <2>2. FieldIsFree'
    BY <1>2, <1>6 DEF Quiet, OInv, AliveIsSpawned, FieldIsFree
  <2>3. NoOrphan'
    BY <1>2, <1>6 DEF Quiet, OInv, AliveIsSpawned, NoOrphan
  <2> QED
    BY <2>1, <2>2, <2>3 DEF OInv
<1> QED
  BY <1>3, <1>4, <1>5, <1>6

-----------------------------------------------------------------------------
(* The attempt puts its process object in the field: whatever child the    *)
(* field held before still has its own attempt to stop it.                 *)
LEMMA AssignInv ==
    ASSUME RInv, NEW g \in Generation, Assign(g)
    PROVE  RInv' /\ (OInv => OInv')
<1> USE RuntimeAssumption DEF RInv, TypeOK, Generation
<1>1. trafficReady' \in BOOLEAN /\ wanted' \in BOOLEAN /\ changed' \in BOOLEAN
  BY Zenon DEF Assign, callers, RInv, TypeOK
<1>2. /\ UNCHANGED <<generation, phase, trafficReady, job, alive, watching,
                     wanted, changed, control, starter>>
      /\ attempt' \in [Generation -> AttemptState] /\ cancelled' \subseteq Generation
      /\ \A h \in Generation \ {g} : attempt'[h] = attempt[h]
      /\ attempt[g] = "waiting"
      /\ \/ generation = g /\ attempt'[g] = "assigned" /\ process' = g
         \/ generation # g /\ attempt'[g] = "done" /\ process' = process
  BY MoveType DEF Assign, callers, AttemptState
<1>3. TypeOK'
  BY <1>1, <1>2 DEF AttemptState
<1>4. CurrentHoldsField' /\ NoneAhead'
  BY <1>2 DEF CurrentHoldsField, NoneAhead
<1>5. ReadyIsDone' /\ ReadyIsCurrent'
  BY <1>2 DEF ReadyIsDone, ReadyIsCurrent
<1>6. ASSUME OInv PROVE OInv'
  <2>1. AliveIsSpawned' /\ HeldByStop'
    BY <1>2, <1>6 DEF OInv, AliveIsSpawned, HeldByStop
  <2>2. FieldIsFree'
    BY <1>2, <1>6 DEF OInv, AliveIsSpawned, FieldIsFree
  <2>3. NoOrphan'
    BY <1>2, <1>6 DEF OInv, AliveIsSpawned, FieldIsFree, NoOrphan
  <2> QED
    BY <2>1, <2>2, <2>3 DEF OInv
<1> QED
  BY <1>3, <1>4, <1>5, <1>6

(* The attempt goes on to verify, or gives up: no field but the phase changes. *)
LEMMA ListensInv ==
    ASSUME RInv, NEW g \in Generation, Listens(g)
    PROVE  RInv' /\ (OInv => OInv')
<1> USE RuntimeAssumption DEF RInv, TypeOK, Generation
<1>1. trafficReady' \in BOOLEAN /\ wanted' \in BOOLEAN /\ changed' \in BOOLEAN
  BY Zenon DEF Listens, callers, RInv, TypeOK
<1>2. /\ UNCHANGED <<generation, trafficReady, job, process, alive, watching,
                     wanted, changed, control, starter>>
      /\ attempt' \in [Generation -> AttemptState] /\ cancelled' \subseteq Generation
      /\ \A h \in Generation \ {g} : attempt'[h] = attempt[h]
      /\ attempt[g] = "spawned" /\ attempt'[g] \in {"verifying", "failing", "cleaning"}
      /\ (generation = g /\ phase' = "VERIFYING") \/ phase' = phase
  BY MoveType DEF Listens, callers, AttemptState
<1>3. TypeOK'
  BY <1>1, <1>2 DEF AttemptState, Phase
<1>4. CurrentHoldsField' /\ NoneAhead'
  BY <1>2 DEF CurrentHoldsField, NoneAhead
<1>5. ReadyIsDone' /\ ReadyIsCurrent'
  BY <1>2 DEF ReadyIsDone, ReadyIsCurrent
<1>6. ASSUME OInv PROVE OInv'
  BY <1>2, <1>6 DEF OInv, AliveIsSpawned, HeldByStop, FieldIsFree, NoOrphan
<1> QED
  BY <1>3, <1>4, <1>5, <1>6

(* Readiness is claimed by the current attempt, which holds the field. *)
LEMMA ReadyInv ==
    ASSUME RInv, NEW g \in Generation, Ready(g)
    PROVE  RInv' /\ (OInv => OInv')
<1> USE RuntimeAssumption DEF RInv, TypeOK, Generation
<1>1. trafficReady' \in BOOLEAN /\ wanted' \in BOOLEAN /\ changed' \in BOOLEAN
  BY Zenon DEF Ready, callers, RInv, TypeOK
<1>2. /\ UNCHANGED <<generation, job, process, alive, wanted, changed, control, starter>>
      /\ attempt' \in [Generation -> AttemptState] /\ cancelled' \subseteq Generation
      /\ watching' \subseteq Generation
      /\ \A h \in Generation \ {g} : attempt'[h] = attempt[h]
      /\ attempt[g] = "verifying"
      /\ \/ generation = g /\ attempt'[g] = "done" /\ phase' = "READY"
         \/ /\ generation # g /\ attempt'[g] = "cleaning"
            /\ phase' = phase /\ trafficReady' = trafficReady
  BY MoveType DEF Ready, callers, AttemptState
<1>3. TypeOK'
  BY <1>1, <1>2 DEF AttemptState, Phase
<1>4. CurrentHoldsField' /\ NoneAhead'
  BY <1>2 DEF CurrentHoldsField, NoneAhead
<1>5. ReadyIsDone' /\ ReadyIsCurrent'
  BY <1>2 DEF ReadyIsDone, ReadyIsCurrent, CurrentHoldsField
<1>6. ASSUME OInv PROVE OInv'
  <2>1. AliveIsSpawned' /\ HeldByStop'
    BY <1>2, <1>6 DEF OInv, AliveIsSpawned, HeldByStop
  <2>2. FieldIsFree'
    BY <1>2, <1>6 DEF OInv, FieldIsFree
  <2>3. NoOrphan'
    BY <1>2, <1>6 DEF OInv, NoOrphan, CurrentHoldsField
  <2> QED
    BY <2>1, <2>2, <2>3 DEF OInv
<1> QED
  BY <1>3, <1>4, <1>5, <1>6

(* A failure clears the field of the failing attempt's process, which that *)
(* attempt is about to stop.                                               *)
LEMMA FailureInv ==
    ASSUME RInv, NEW g \in Generation, FailureHandled(g)
    PROVE  RInv' /\ (OInv => OInv')
<1> USE RuntimeAssumption DEF RInv, TypeOK, Generation
<1>1. trafficReady' \in BOOLEAN /\ wanted' \in BOOLEAN /\ changed' \in BOOLEAN
  BY Zenon DEF FailureHandled, callers, RInv, TypeOK
<1>2. /\ UNCHANGED <<generation, job, alive, watching, wanted, changed, control, starter>>
      /\ attempt' \in [Generation -> AttemptState] /\ cancelled' \subseteq Generation
      /\ \A h \in Generation \ {g} : attempt'[h] = attempt[h]
      /\ attempt[g] = "failing" /\ attempt'[g] = "cleaning"
      /\ \/ /\ generation = g /\ phase' = "FAILED" /\ ~trafficReady'
            /\ process' = IF process = g THEN 0 ELSE process
         \/ /\ generation # g /\ phase' = phase
            /\ trafficReady' = trafficReady /\ process' = process
  BY MoveType DEF FailureHandled, callers, AttemptState
<1>3. TypeOK'
  BY <1>1, <1>2 DEF AttemptState, Phase
<1>4. CurrentHoldsField' /\ NoneAhead'
  BY <1>2 DEF CurrentHoldsField, NoneAhead
<1>5. ReadyIsDone' /\ ReadyIsCurrent'
  BY <1>2 DEF ReadyIsDone, ReadyIsCurrent
<1>6. ASSUME OInv PROVE OInv'
  <2>1. AliveIsSpawned' /\ HeldByStop'
    BY <1>2, <1>6 DEF OInv, AliveIsSpawned, HeldByStop
  <2>2. FieldIsFree'
    BY <1>2, <1>6 DEF OInv, FieldIsFree
  <2>3. NoOrphan'
    BY <1>2, <1>6 DEF OInv, NoOrphan
  <2> QED
    BY <2>1, <2>2, <2>3 DEF OInv
<1> QED
  BY <1>3, <1>4, <1>5, <1>6

-----------------------------------------------------------------------------
(* Every step of an attempt preserves both invariants. *)
LEMMA AttemptInv ==
    ASSUME RInv, NEW g \in Generation, AttemptStep(g)
    PROVE  RInv' /\ (OInv => OInv')
<1>1. CASE BreaksDown(g) \/ Spawn(g) \/ CancelSeen(g) \/ Cleans(g)
  BY <1>1, QuietSteps, QuietInv DEF RInv
<1> QED
  BY <1>1, AssignInv, ListensInv, ReadyInv, FailureInv DEF AttemptStep

(* No step of the system breaks either invariant; the second needs a start *)
(* that asks isRunning() under its lock.                                   *)
LEMMA NextInv ==
    ASSUME RInv, ChecksRunning => OInv, [Next]_runtimeVars
    PROVE  RInv' /\ (ChecksRunning => OInv')
<1>1. CASE UNCHANGED runtimeVars
  BY <1>1 DEF runtimeVars, fields, coroutines, callers, RInv, TypeOK, CurrentHoldsField, NoneAhead,
         ReadyIsDone, ReadyIsCurrent, OInv, AliveIsSpawned, FieldIsFree, HeldByStop, NoOrphan
<1>2. CASE Outside
  BY <1>2, OutsideInv
<1>3. CASE StopLocks \/ StopEnds
  BY <1>3, StopInv
<1>4. CASE \E t \in Starters : Starting(t)
  BY <1>4, StartInv
<1>5. CASE \E g \in Generation : AttemptStep(g) \/ MonitorLooks(g) \/ EngineDies(g)
  BY <1>5, AttemptInv, DeathInv
<1> QED
  BY <1>1, <1>2, <1>3, <1>4, <1>5 DEF Next, Controlling, Outside

-----------------------------------------------------------------------------
(* Both invariants hold throughout, the second where start() checks. *)
THEOREM Invariance == Spec => [](RInv /\ (ChecksRunning => OInv))
<1>1. Init => RInv /\ (ChecksRunning => OInv)
  BY InitInv
<1>2. RInv /\ (ChecksRunning => OInv) /\ [Next]_runtimeVars => (RInv /\ (ChecksRunning => OInv))'
  BY NextInv
<1> QED
  BY <1>1, <1>2, PTL DEF Spec

(* The fields, coroutines and callers keep their types whatever the        *)
(* interleaving of start(), stop() and the attempts.                       *)
THEOREM RuntimeTypeCorrect == Spec => []TypeOK
<1>1. RInv => TypeOK
  BY DEF RInv
<1> QED
  BY <1>1, Invariance, PTL

(* No late attempt claims readiness: whenever trafficReady is set, the     *)
(* phase is READY and the field holds the process of the current start.    *)
THEOREM ReadinessIsCurrent == Spec => []ReadyIsCurrent
<1>1. RInv => ReadyIsCurrent
  BY DEF RInv
<1> QED
  BY <1>1, Invariance, PTL

(* A runtime whose start() asks isRunning() under its lock leaves no child *)
(* process that nobody will stop.                                          *)
THEOREM NoChildLeftBehind == ASSUME ChecksRunning PROVE Spec => []NoOrphan
<1>1. RInv /\ (ChecksRunning => OInv) => NoOrphan
  BY ChecksRunning DEF OInv
<1> QED
  BY <1>1, Invariance, PTL
=============================================================================
