--------------------------- MODULE EmbeddedRuntime ---------------------------
(***************************************************************************)
(* The life of an embedded engine (EmbeddedXrayRuntime.kt, and its mirror  *)
(* EmbeddedAetherRuntime.kt): start() launches a coroutine, the attempt,   *)
(* that spawns a child process and waits until it carries traffic; stop()  *)
(* and newer starts overtake it; a monitor watches the child.  Around it,  *)
(* the two callers of BigRocketVpnService: control operations, serialised  *)
(* by controlMutex, and the readiness collector, which is not.             *)
(*                                                                         *)
(* An attempt, its process object, its child and its monitor are all named *)
(* by the generation the attempt was given; 0 is the null of the fields.   *)
(* Blocks under `lock` are one step, what lies between them is not, except *)
(* where nobody could tell the steps apart: a job not yet dispatched waits *)
(* like one in awaitClosed().  What the waits of an attempt return is      *)
(* arbitrary: ports and tunnels are not modelled.  Aether differs by       *)
(* ChecksRunning, and by one more look at the generation right after       *)
(* spawning, which only ends a stale attempt before the next look would.   *)
(***************************************************************************)
EXTENDS Naturals

CONSTANTS
    MaxGeneration,  \* bound on the starts and stops of one behaviour
    ChecksRunning   \* start() asks isRunning() under its lock: Xray's does

ASSUME RuntimeAssumption == MaxGeneration \in Nat /\ ChecksRunning \in BOOLEAN

Generation == 1..MaxGeneration
Starters == {"control", "collector"}
Phase == {"IDLE", "STARTING", "VERIFYING", "READY", "FAILED"}

VARIABLES
    generation, phase, trafficReady,
    job,        \* the field: the attempt that is registered
    process,    \* the field: the attempt whose process object it holds
    attempt,    \* where each attempt's coroutine is
    cancelled,  \* unfinished attempts whose job was cancelled
    alive,      \* attempts whose child process runs
    watching,   \* attempts whose monitor coroutine runs
    wanted,     \* the user's choice needs this engine
    changed,    \* ACTION_UPSTREAM_CHANGED was sent and not handled yet
    control,    \* the control operation under way
    starter     \* the start() call each caller is in

fields == <<generation, phase, trafficReady, job, process>>
coroutines == <<attempt, cancelled, alive, watching>>
callers == <<wanted, changed, control, starter>>
runtimeVars == <<fields, coroutines, callers>>

ControlAt(at, then) == [at |-> at, job |-> 0, process |-> 0, then |-> then]
Idle == ControlAt("idle", "idle")
NoStart == [at |-> "idle", gen |-> 0]

Init ==
    /\ generation = 0 /\ phase = "IDLE" /\ trafficReady = FALSE
    /\ job = 0 /\ process = 0
    /\ attempt = [g \in Generation |-> "none"]
    /\ cancelled = {} /\ alive = {} /\ watching = {}
    /\ wanted = FALSE /\ changed = FALSE
    /\ control = Idle
    /\ starter = [t \in Starters |-> NoStart]

IsRunning == process \in alive

(* job?.isActive *)
JobActive == job # 0 /\ attempt[job] # "done" /\ job \notin cancelled

(* Mutant: the job is cancelled without asking whether there is one. *)
Cancelled_Null(g) == cancelled \cup {g}

(* cancel() of a finished job does nothing. *)
Cancelled(g) == cancelled \cup ({g} \cap {h \in Generation : attempt[h] # "done"})

-----------------------------------------------------------------------------
(* start(): the locked block that opens an attempt, and the one that       *)
(* registers its job or cancels it if it was overtaken meanwhile.          *)

(* Mutant: start() does not ask whether a core runs already. *)
MayStart_JobOnly == ~JobActive

MayStart == ~JobActive /\ (ChecksRunning => ~IsRunning)

StartRefused(t) ==
    /\ starter[t].at = "start" /\ ~MayStart
    /\ starter' = [starter EXCEPT ![t] = NoStart]
    /\ UNCHANGED <<fields, coroutines, wanted, changed, control>>

StartLocks(t) ==
    /\ starter[t].at = "start" /\ MayStart
    /\ generation < MaxGeneration
    /\ generation' = generation + 1
    /\ trafficReady' = FALSE
    /\ phase' = "STARTING"
    /\ attempt' = [attempt EXCEPT ![generation'] = "waiting"]
    /\ starter' = [starter EXCEPT ![t] = [at |-> "register", gen |-> generation']]
    /\ UNCHANGED <<job, process, cancelled, alive, watching, wanted, changed, control>>

StartRegisters(t) ==
    /\ starter[t].at = "register"
    /\ IF generation = starter[t].gen
       THEN job' = generation /\ UNCHANGED cancelled
       ELSE cancelled' = Cancelled(starter[t].gen) /\ UNCHANGED job
    /\ starter' = [starter EXCEPT ![t] = NoStart]
    /\ UNCHANGED <<generation, phase, trafficReady, process, attempt, alive,
                   watching, wanted, changed, control>>

-----------------------------------------------------------------------------
(* The coroutine of attempt g. *)

AttemptMoves(g, from, to) ==
    /\ attempt[g] = from
    /\ attempt' = [attempt EXCEPT ![g] = to]
    /\ cancelled' = IF to = "done" THEN cancelled \ {g} ELSE cancelled

(* No configuration, no binary to run, or no traffic in the time allowed. *)
BreaksDown(g) ==
    /\ \/ AttemptMoves(g, "waiting", "failing")
       \/ AttemptMoves(g, "assigned", "failing")
       \/ AttemptMoves(g, "verifying", "failing")
    /\ UNCHANGED <<fields, alive, watching, callers>>

(* awaitClosed() has returned, closed or not. *)
Assign(g) ==
    /\ \/ generation = g /\ AttemptMoves(g, "waiting", "assigned") /\ process' = g
       \/ generation # g /\ AttemptMoves(g, "waiting", "done") /\ UNCHANGED process
    /\ UNCHANGED <<generation, phase, trafficReady, job, alive, watching, callers>>

Spawn(g) ==
    /\ AttemptMoves(g, "assigned", "spawned")
    /\ alive' = alive \cup {g}
    /\ UNCHANGED <<fields, watching, callers>>

(* awaitOpen() has returned; ensureCurrent() throws in a stale attempt. *)
Listens(g) ==
    /\ \/ /\ generation = g /\ AttemptMoves(g, "spawned", "verifying")
          /\ phase' = "VERIFYING"
       \/ generation = g /\ AttemptMoves(g, "spawned", "failing") /\ UNCHANGED phase
       \/ generation # g /\ AttemptMoves(g, "spawned", "cleaning") /\ UNCHANGED phase
    /\ UNCHANGED <<generation, trafficReady, job, process, alive, watching, callers>>

(* Mutant: the last step trusts that nothing has overtaken the attempt. *)
Ready_Stale(g) ==
    /\ AttemptMoves(g, "verifying", "done")
    /\ phase' = "READY" /\ trafficReady' = TRUE
    /\ watching' = watching \cup {g}
    /\ UNCHANGED <<generation, job, process, alive, callers>>

(* Mutant: no monitor is launched. *)
Ready_Unwatched(g) ==
    /\ \/ /\ generation = g /\ AttemptMoves(g, "verifying", "done")
          /\ phase' = "READY" /\ trafficReady' = TRUE
       \/ /\ generation # g /\ AttemptMoves(g, "verifying", "cleaning")
          /\ UNCHANGED <<phase, trafficReady>>
    /\ UNCHANGED <<generation, job, process, alive, watching, callers>>

Ready(g) ==
    /\ \/ /\ generation = g /\ AttemptMoves(g, "verifying", "done")
          /\ phase' = "READY" /\ trafficReady' = TRUE
          /\ watching' = watching \cup {g}
       \/ /\ generation # g /\ AttemptMoves(g, "verifying", "cleaning")
          /\ UNCHANGED <<phase, trafficReady, watching>>
    /\ UNCHANGED <<generation, job, process, alive, callers>>

(* A suspended attempt notices that its job was cancelled. *)
CancelSeen(g) ==
    /\ g \in cancelled
    /\ \/ AttemptMoves(g, "waiting", "done")
       \/ AttemptMoves(g, "spawned", "cleaning")
       \/ AttemptMoves(g, "verifying", "cleaning")
    /\ UNCHANGED <<fields, alive, watching, callers>>

(* Mutant: a failure is only logged, the phase is left as it was. *)
FailureHandled_Silent(g) ==
    /\ AttemptMoves(g, "failing", "cleaning")
    /\ IF generation = g
       THEN /\ trafficReady' = FALSE
            /\ process' = IF process = g THEN 0 ELSE process
       ELSE UNCHANGED <<trafficReady, process>>
    /\ UNCHANGED <<generation, phase, job, alive, watching, callers>>

(* handleStartFailure(), its locked part. *)
FailureHandled(g) ==
    /\ AttemptMoves(g, "failing", "cleaning")
    /\ IF generation = g
       THEN /\ phase' = "FAILED" /\ trafficReady' = FALSE
            /\ process' = IF process = g THEN 0 ELSE process
       ELSE UNCHANGED <<phase, trafficReady, process>>
    /\ UNCHANGED <<generation, job, alive, watching, callers>>

(* engine?.stop(): the attempt stops its own child and no other. *)
Cleans(g) ==
    /\ AttemptMoves(g, "cleaning", "done")
    /\ alive' = alive \ {g}
    /\ UNCHANGED <<fields, watching, callers>>

AttemptStep(g) ==
    \/ BreaksDown(g) \/ Assign(g) \/ Spawn(g) \/ Listens(g)
    \/ Ready(g) \/ CancelSeen(g) \/ FailureHandled(g) \/ Cleans(g)

-----------------------------------------------------------------------------
(* The monitor of a child that was ready.  Cancelling it only ends a       *)
(* monitor whose look would change nothing.                                *)
MonitorLooks(g) ==
    /\ g \in watching \ alive
    /\ watching' = watching \ {g}
    /\ IF generation = g /\ process = g /\ phase = "READY"
       THEN phase' = "FAILED" /\ trafficReady' = FALSE /\ process' = 0
       ELSE UNCHANGED <<phase, trafficReady, process>>
    /\ UNCHANGED <<generation, job, attempt, cancelled, alive, callers>>

(* The child exits by itself: a crash, a kill by the system. *)
EngineDies(g) ==
    /\ g \in alive
    /\ alive' = alive \ {g}
    /\ UNCHANGED <<fields, attempt, cancelled, watching, callers>>

-----------------------------------------------------------------------------
(* stop(): fields under the lock, then the cancel and the kill outside it. *)

StopLocks ==
    /\ control.at = "stop"
    /\ generation < MaxGeneration
    /\ generation' = generation + 1
    /\ trafficReady' = FALSE /\ phase' = "IDLE"
    /\ job' = 0 /\ process' = 0
    /\ control' = [at |-> "kill", job |-> job, process |-> process, then |-> control.then]
    /\ UNCHANGED <<coroutines, wanted, changed, starter>>

(* A process object that has not spawned its child yet is not stopped by this. *)
StopEnds ==
    /\ control.at = "kill"
    /\ cancelled' = Cancelled(control.job)
    /\ alive' = alive \ {control.process}
    /\ control' = ControlAt(control.then, "idle")
    /\ UNCHANGED <<fields, attempt, watching, wanted, changed, starter>>

-----------------------------------------------------------------------------
(* The callers. *)

(* The user picks an upstream or edits its configuration, and the service  *)
(* is told.  Picking twice before it reacts is picking the last one.       *)
ChoiceChanges ==
    /\ ~changed /\ changed' = TRUE
    /\ wanted' \in BOOLEAN
    /\ UNCHANGED <<fields, coroutines, control, starter>>

ChoiceHandled ==
    /\ control = Idle /\ starter["control"] = NoStart
    /\ changed /\ changed' = FALSE
    /\ control' = ControlAt("apply", "idle")
    /\ UNCHANGED <<fields, coroutines, wanted, starter>>

(* The supervisor's converge() and restartChain(). *)
Supervises ==
    /\ control = Idle /\ starter["control"] = NoStart /\ wanted
    /\ control' \in {ControlAt("apply", "idle"), ControlAt("stop", "apply")}
    /\ UNCHANGED <<fields, coroutines, wanted, changed, starter>>

TearsDown ==
    /\ control = Idle /\ starter["control"] = NoStart
    /\ control' = ControlAt("stop", "idle")
    /\ UNCHANGED <<fields, coroutines, wanted, changed, starter>>

(* applyUpstreamChoice(), as far as this engine goes: it is not wanted, or *)
(* it is and needsRestart() may find the running one stale.                *)
Applies ==
    /\ control.at = "apply"
    /\ \/ ~wanted /\ control' = IF IsRunning THEN ControlAt("stop", "idle") ELSE Idle
       \/ wanted /\ control' = ControlAt("launch", "idle")
       \/ wanted /\ IsRunning /\ control' = ControlAt("stop", "launch")
    /\ UNCHANGED <<fields, coroutines, wanted, changed, starter>>

(* The rest of it, with the choice as it was read: the engine is started   *)
(* unless it runs, or is left to the collector until the first stage of    *)
(* the chain is ready.                                                     *)
Launches ==
    /\ control.at = "launch"
    /\ control' = Idle
    /\ \/ /\ ~IsRunning
          /\ starter' = [starter EXCEPT !["control"] = [at |-> "start", gen |-> 0]]
       \/ UNCHANGED starter
    /\ UNCHANGED <<fields, coroutines, wanted, changed>>

(* The collector starts the second stage of a chain when the first is ready. *)
Collects ==
    /\ starter["collector"] = NoStart
    /\ wanted /\ ~IsRunning
    /\ starter' = [starter EXCEPT !["collector"] = [at |-> "start", gen |-> 0]]
    /\ UNCHANGED <<fields, coroutines, wanted, changed, control>>

Starting(t) == StartRefused(t) \/ StartLocks(t) \/ StartRegisters(t)
Controlling == ChoiceHandled \/ Applies \/ Launches \/ StopLocks \/ StopEnds

Next ==
    \/ Controlling \/ ChoiceChanges \/ Supervises \/ TearsDown \/ Collects
    \/ \E t \in Starters : Starting(t)
    \/ \E g \in Generation : AttemptStep(g) \/ MonitorLooks(g) \/ EngineDies(g)

Spec == Init /\ [][Next]_runtimeVars

(* The control dispatcher has threads of its own, every wait of an attempt *)
(* has a time limit, and a call that has begun goes on.  A monitor follows *)
(* its attempt and a start() the control operation it is made in, so each  *)
(* pair is one thread of control.  Nobody owes a change of choice, a       *)
(* restart, a readiness event or the death of a child.                     *)
FairSpec ==
    /\ Spec
    /\ WF_runtimeVars(Controlling \/ Starting("control"))
    /\ WF_runtimeVars(Starting("collector"))
    /\ \A g \in Generation : WF_runtimeVars(AttemptStep(g) \/ MonitorLooks(g))

-----------------------------------------------------------------------------
TypeOK ==
    /\ generation \in 0..MaxGeneration
    /\ phase \in Phase
    /\ trafficReady \in BOOLEAN
    /\ job \in 0..MaxGeneration
    /\ process \in 0..MaxGeneration
    /\ attempt \in [Generation -> {"none", "waiting", "assigned", "spawned",
                                   "verifying", "failing", "cleaning", "done"}]
    /\ cancelled \subseteq Generation
    /\ alive \subseteq Generation
    /\ watching \subseteq Generation
    /\ wanted \in BOOLEAN
    /\ changed \in BOOLEAN
    /\ control \in [at : {"idle", "apply", "launch", "stop", "kill"},
                    job : 0..MaxGeneration, process : 0..MaxGeneration,
                    then : {"idle", "apply", "launch"}]
    /\ starter \in [Starters -> [at : {"idle", "start", "register"},
                                 gen : 0..MaxGeneration]]

(* trafficReady speaks of the engine of the current start: no attempt that *)
(* was overtaken by a stop or a newer start, however late it wakes, claims *)
(* readiness for an engine the runtime no longer has.                      *)
ReadyIsCurrent ==
    trafficReady => /\ phase = "READY"
                    /\ process = generation /\ process # 0

(* Every child that runs is the current one, or somebody is still going to *)
(* stop it: its own attempt, or the stop() that took it from the field.    *)
NoOrphan ==
    \A g \in alive :
        \/ process = g
        \/ attempt[g] \notin {"none", "done"}
        \/ control.process = g

(* "A deadline always exists so the supervisor can never wait on a phase   *)
(* that has no end": no interleaving of starts, stops and failures leaves  *)
(* the engine STARTING or VERIFYING with nobody left to end that.          *)
PhaseEnds ==
    (phase \in {"STARTING", "VERIFYING"}) ~> (phase \in {"IDLE", "READY", "FAILED"})

(* An engine that dies while it is ready does not stay ready. *)
DeathNoticed ==
    (trafficReady /\ ~IsRunning) ~> (~trafficReady \/ IsRunning)
=============================================================================
