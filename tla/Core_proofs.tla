---------------------------- MODULE Core_proofs -----------------------------
(***************************************************************************)
(* For any number of cores, started, cancelled and freed in any order and  *)
(* running beside one another in any mode, a port is held exactly by what  *)
(* serves it.                                                              *)
(***************************************************************************)
EXTENDS Core, TLAPS

(* The types the argument rests on: those of every variable but the C      *)
(* API's own bookkeeping.                                                  *)
CoreTypes ==
    /\ mode \in [Jobs -> [Parts -> {"Off", "Chain", "Reverse", "Only"}]]
    /\ core \in [Jobs -> CoreStates]
    /\ task \in [Jobs -> [Parts -> TaskStates]]
    /\ own \in [Ports -> Jobs \cup {NoJob}]

(* The inductive invariant. *)
CoreInv == CoreTypes /\ NotYetStarted /\ PortsAreHeld

(* No job has the number that says "nobody". *)
LEMMA NobodyIsNoJob == NoJob \notin Jobs
  BY MaxJobsAssumption DEF NoJob, Jobs

(* At first nothing runs and no port is held. *)
LEMMA InitCore == Init => CoreInv
  BY NobodyIsNoJob DEF Init, CoreInv, CoreTypes, NotYetStarted, PortsAreHeld, Holder,
     CoreStates, TaskStates, Ports, Parts

(* A core that ends gives back exactly what it held itself, and leaves the *)
(* tasks it aborts with theirs.                                            *)
LEMMA OverKeeps ==
  ASSUME CoreInv, NEW j \in Jobs, Over(j)
  PROVE  CoreInv'
<1>1. CoreTypes'
  BY NobodyIsNoJob DEF CoreInv, CoreTypes, Over, CoreStates, TaskStates, Ports
<1>2. NotYetStarted'
  BY DEF CoreInv, CoreTypes, NotYetStarted, Over, CoreStates, Starting, Parts
<1>3. ASSUME NEW k \in Jobs, NEW x \in Ports
      PROVE  (own[x] = k <=> Holder(k, x))'
  <2>1. own[x] = k <=> Holder(k, x)
    BY DEF CoreInv, PortsAreHeld
  <2>2. CASE k = j /\ x = "socks"
    BY <2>1, <2>2, NobodyIsNoJob DEF Over, Holder, Released, CoreInv, CoreTypes
  <2>3. CASE k = j /\ x # "socks"
    BY <2>1, <2>3, NobodyIsNoJob DEF Over, Holder, Released, Starting, CoreInv, CoreTypes, Ports, Parts
  <2>4. CASE k # j
    BY <2>1, <2>4, NobodyIsNoJob DEF Over, Holder, CoreInv, CoreTypes, Ports
  <2> QED
    BY <2>2, <2>3, <2>4
<1> QED
  BY <1>1, <1>2, <1>3 DEF CoreInv, PortsAreHeld

(* The other steps of the core itself. *)
LEMMA CoreStepKeeps ==
  ASSUME CoreInv, NEW j \in Jobs, CoreStep(j)
  PROVE  CoreInv'
<1> USE NobodyIsNoJob
<1>1. CASE Setup(j)
  <2>1. CASE Over(j)
    BY <2>1, OverKeeps
  <2>2. CASE core' = [core EXCEPT ![j] = "bind"] /\ UNCHANGED <<mode, task, own>>
    BY <1>1, <2>2 DEF Setup, CoreInv, CoreTypes, NotYetStarted, PortsAreHeld, Holder, CoreStates
  <2> QED
    BY <1>1, <2>1, <2>2 DEF Setup
<1>2. CASE Bind(j)
  <2>1. CASE Over(j)
    BY <2>1, OverKeeps
  <2>2. CASE ~ Over(j)
    <3>1. /\ own["socks"] = NoJob
          /\ own' = [own EXCEPT !["socks"] = j]
          /\ core[j] = "bind"
          /\ core' = [core EXCEPT ![j] = AfterBind(mode[j])]
          /\ task' = IF Loose(mode[j])
                     THEN [task EXCEPT ![j]["psiphon"] = "bind"] ELSE task
          /\ mode' = mode
      BY <1>2, <2>2 DEF Bind
    <3>2. AfterBind(mode[j]) \in {"only", "tor"}
          /\ (Loose(mode[j]) => AfterBind(mode[j]) = "only")
      BY DEF AfterBind, Loose, Parts
    <3>3. CoreTypes'
      BY <3>1, <3>2 DEF CoreInv, CoreTypes, CoreStates, TaskStates, Ports, Parts
    <3>4. NotYetStarted'
      BY <3>1, <3>2 DEF CoreInv, CoreTypes, NotYetStarted, CoreStates, Parts
    <3>5. PortsAreHeld'
      BY <3>1, <3>2 DEF CoreInv, CoreTypes, NotYetStarted, PortsAreHeld, Holder, Ports, Parts
    <3> QED
      BY <3>3, <3>4, <3>5 DEF CoreInv
  <2> QED
    BY <2>1, <2>2
<1>3. CASE Only(j)
  <2>1. CASE Over(j)
    BY <2>1, OverKeeps
  <2>2. CASE ~ Over(j)
    <3>1. UNCHANGED <<mode, task, own>>
      BY <1>3, <2>2 DEF Only
    <3>2. \E c \in {"serving", "hunt", "up"} : core' = [core EXCEPT ![j] = c]
      BY <1>3, <2>2 DEF Only, CoreInv, CoreTypes
    <3>3. core[j] \in {"only", "serving", "hunt", "up"}
      BY <1>3 DEF Only
    <3>4. CoreTypes'
      BY <3>1, <3>2 DEF CoreInv, CoreTypes, CoreStates
    <3>5. NotYetStarted'
      BY <3>1, <3>2, <3>3 DEF CoreInv, CoreTypes, NotYetStarted
    <3>6. PortsAreHeld'
      BY <3>1, <3>2, <3>3 DEF CoreInv, CoreTypes, PortsAreHeld, Holder
    <3> QED
      BY <3>4, <3>5, <3>6 DEF CoreInv
  <2> QED
    BY <2>1, <2>2
<1>4. CASE BothReverse(j)
  BY <1>4, OverKeeps DEF BothReverse
<1>5. CASE Session(j)
  <2>1. CASE Over(j)
    BY <2>1, OverKeeps
  <2>2. CASE ~ Over(j)
    <3>1. UNCHANGED <<mode, task, own>>
      BY <1>5, <2>2 DEF Session
    <3>2. \E c \in {"serving", "hunt", "up"} : core' = [core EXCEPT ![j] = c]
      BY <1>5, <2>2 DEF Session, CoreInv, CoreTypes
    <3>3. core[j] \in {"only", "serving", "hunt", "up"}
      BY <1>5 DEF Session
    <3>4. CoreTypes'
      BY <3>1, <3>2 DEF CoreInv, CoreTypes, CoreStates
    <3>5. NotYetStarted'
      BY <3>1, <3>2, <3>3 DEF CoreInv, CoreTypes, NotYetStarted
    <3>6. PortsAreHeld'
      BY <3>1, <3>2, <3>3 DEF CoreInv, CoreTypes, PortsAreHeld, Holder
    <3> QED
      BY <3>4, <3>5, <3>6 DEF CoreInv
  <2> QED
    BY <2>1, <2>2
<1>6. CASE Break(j)
  BY <1>6 DEF Break, CoreInv, CoreTypes, NotYetStarted, PortsAreHeld, Holder
<1>7. ASSUME NEW p \in Parts, SkipPart(j, p)
      PROVE  CoreInv'
  <2>1. CoreTypes'
    BY <1>7 DEF SkipPart, NextPc, CoreInv, CoreTypes, CoreStates, Parts
  <2>2. NotYetStarted'
    BY <1>7 DEF SkipPart, NextPc, CoreInv, CoreTypes, NotYetStarted, CoreStates, Parts
  <2>3. PortsAreHeld'
    BY <1>7 DEF SkipPart, NextPc, CoreInv, CoreTypes, PortsAreHeld, Holder, Parts
  <2> QED
    BY <2>1, <2>2, <2>3 DEF CoreInv
<1>8. ASSUME NEW p \in Parts, SpawnChain(j, p)
      PROVE  CoreInv'
  <2>1. CoreTypes'
    BY <1>8 DEF SpawnChain, NextPc, CoreInv, CoreTypes, CoreStates, TaskStates, Parts
  <2>2. NotYetStarted'
    BY <1>8 DEF SpawnChain, NextPc, CoreInv, CoreTypes, NotYetStarted, CoreStates, TaskStates, Parts
  <2>3. task[j][p] = "none"
    BY <1>8 DEF SpawnChain, CoreInv, CoreTypes, NotYetStarted, Parts
  <2>4. PortsAreHeld'
    BY <1>8, <2>3 DEF SpawnChain, NextPc, CoreInv, CoreTypes, PortsAreHeld, Holder, Ports, Parts
  <2> QED
    BY <2>1, <2>2, <2>4 DEF CoreInv
<1>9. ASSUME NEW p \in Parts, ReverseBind(j, p)
      PROVE  CoreInv'
  <2>1. CASE Over(j)
    BY <2>1, OverKeeps
  <2>2. CASE ~ Over(j)
    <3>1. CoreTypes'
      BY <1>9, <2>2 DEF ReverseBind, CoreInv, CoreTypes, CoreStates, TaskStates, Ports, Parts
    <3>2. NotYetStarted'
      BY <1>9, <2>2 DEF ReverseBind, CoreInv, CoreTypes, NotYetStarted, CoreStates, TaskStates, Ports, Parts
    <3>3. PortsAreHeld'
      BY <1>9, <2>2 DEF ReverseBind, CoreInv, CoreTypes, PortsAreHeld, Holder, Ports, Parts
    <3> QED
      BY <3>1, <3>2, <3>3 DEF CoreInv
  <2> QED
    BY <2>1, <2>2
<1>10. ASSUME NEW p \in Parts, ReverseUp(j, p)
      PROVE  CoreInv'
  <2>1. CASE Over(j)
    BY <2>1, OverKeeps
  <2>2. CASE ~ Over(j)
    <3>1. NextPc(p) \in CoreStates
      BY DEF NextPc, CoreStates
    <3>2. /\ core' = [core EXCEPT ![j] = NextPc(p)]
          /\ task' = [task EXCEPT ![j][p] = "serve"]
          /\ UNCHANGED <<mode, own>>
      BY <1>10, <2>2 DEF ReverseUp
    <3>3. "serve" \in TaskStates
      BY DEF TaskStates
    <3>4. CoreTypes'
      BY <3>1, <3>2, <3>3 DEF CoreInv, CoreTypes
    <3>5. NotYetStarted'
      BY <1>10, <2>2 DEF ReverseUp, NextPc, CoreInv, CoreTypes, NotYetStarted, CoreStates, TaskStates, Parts
    <3>6. PortsAreHeld'
      BY <1>10, <2>2 DEF ReverseUp, NextPc, CoreInv, CoreTypes, PortsAreHeld, Holder, Ports, Parts
    <3> QED
      BY <3>4, <3>5, <3>6 DEF CoreInv
  <2> QED
    BY <2>1, <2>2
<1> QED
  BY <1>1, <1>2, <1>3, <1>4, <1>5, <1>6, <1>7, <1>8, <1>9, <1>10 DEF CoreStep

(* A task that ends, by itself or reaped, takes its port with it. *)
LEMMA TaskEndsKeeps ==
  ASSUME CoreInv, NEW j \in Jobs, NEW p \in Parts, NEW e \in Ends \cup {"reaped"},
         task[j][p] # "none", IsTask(j, p), TaskEnds(j, p, e)
  PROVE  CoreInv'
<1>1. CoreTypes'
  BY DEF TaskEnds, CoreInv, CoreTypes, TaskStates, Ports, Parts
<1>2. NotYetStarted'
  BY DEF TaskEnds, CoreInv, CoreTypes, NotYetStarted, Parts
<1>3. PortsAreHeld'
  BY NobodyIsNoJob DEF TaskEnds, CoreInv, CoreTypes, PortsAreHeld, Holder, Ports, Parts, Ends
<1> QED
  BY <1>1, <1>2, <1>3 DEF CoreInv

(* The steps of the parts' own tasks. *)
LEMMA PartStepKeeps ==
  ASSUME CoreInv, NEW j \in Jobs, NEW p \in Parts, PartStep(j, p)
  PROVE  CoreInv'
<1>1. CASE TaskStep(j, p)
  <2>1. CoreTypes'
    BY <1>1 DEF TaskStep, CoreInv, CoreTypes, TaskStates, Ports, Parts
  <2>2. NotYetStarted'
    BY <1>1 DEF TaskStep, CoreInv, CoreTypes, NotYetStarted, TaskStates, Ports, Parts
  <2>3. PortsAreHeld'
    BY <1>1, NobodyIsNoJob DEF TaskStep, CoreInv, CoreTypes, PortsAreHeld, Holder, Ports, Parts
  <2> QED
    BY <2>1, <2>2, <2>3 DEF CoreInv
<1>2. ASSUME NEW e \in Ends, TaskStops(j, p, e)
      PROVE  CoreInv'
  BY <1>2, TaskEndsKeeps DEF TaskStops
<1> QED
  BY <1>1, <1>2 DEF PartStep

(* Every step keeps the invariant. *)
LEMMA NextKeeps == CoreInv /\ [Next]_vars => CoreInv'
<1> SUFFICES ASSUME CoreInv, [Next]_vars PROVE CoreInv'
  OBVIOUS
<1>1. CASE UNCHANGED vars
  BY <1>1 DEF vars, CoreInv, CoreTypes, NotYetStarted, PortsAreHeld, Holder
<1>2. ASSUME NEW j \in Jobs, Host(j)
      PROVE  CoreInv'
  <2>1. CASE Cancel(j) \/ Free(j)
    BY <2>1 DEF Cancel, Free, CoreInv, CoreTypes, NotYetStarted, PortsAreHeld, Holder
  <2>2. ASSUME NEW m \in Modes[j], Start(j, m)
        PROVE  CoreInv'
    <3>1. m \in [Parts -> {"Off", "Chain", "Reverse", "Only"}]
      BY ModesAssumption
    <3>2. CoreTypes'
      BY <2>2, <3>1 DEF Start, CoreInv, CoreTypes, CoreStates
    <3>3. NotYetStarted' /\ PortsAreHeld'
      BY <2>2 DEF Start, CoreInv, CoreTypes, NotYetStarted, PortsAreHeld, Holder
    <3> QED
      BY <3>2, <3>3 DEF CoreInv
  <2> QED
    BY <1>2, <2>1, <2>2 DEF Host
<1>3. ASSUME NEW j \in Jobs, Stopped(j) \/ CoreEnd(j)
      PROVE  CoreInv'
  BY <1>3, OverKeeps DEF Stopped, CoreEnd
<1>4. ASSUME NEW j \in Jobs, NEW p \in Parts, Reap(j, p)
      PROVE  CoreInv'
  BY <1>4, TaskEndsKeeps DEF Reap, IsTask
<1>5. ASSUME NEW j \in Jobs, NEW p \in Parts, Watch(j, p) \/ ReapWatch(j, p)
      PROVE  CoreInv'
  BY <1>5 DEF Watch, ReapWatch, CoreInv, CoreTypes, NotYetStarted, PortsAreHeld, Holder
<1> QED
  BY <1>1, <1>2, <1>3, <1>4, <1>5, CoreStepKeeps, PartStepKeeps DEF Next

(* The invariant holds throughout. *)
LEMMA CoreInvHolds == Spec => []CoreInv
  BY InitCore, NextKeeps, PTL DEF Spec

(* A port is taken by a core exactly while its listener, its chain or its  *)
(* carrier lives, whatever the host and the network do.                    *)
THEOREM PortsHeld == Spec => []PortsAreHeld
<1>1. CoreInv => PortsAreHeld
  BY DEF CoreInv
<1> QED
  BY <1>1, CoreInvHolds, PTL

-----------------------------------------------------------------------------
(* The rest of the state: the registry, the watching tasks, the abort      *)
(* handles and the reports.  A core that is over has handed every handle   *)
(* on and nobody can report to it any more.                                *)
CoreBooks ==
    /\ job \in [Jobs -> [reg : {"none", "held", "freed"}, cancel : BOOLEAN,
                         state : {"none", "running", "done"}]]
    /\ watch \in [Jobs -> [Parts -> {"none", "run", "gone"}]]
    /\ guard \in [Jobs -> SUBSET Handles]
    /\ aborted \in [Jobs -> SUBSET Handles]
    /\ reports \in [Jobs -> SUBSET Ports]
    /\ \A j \in Jobs : core[j] = "ended" => guard[j] = {} /\ reports[j] = {}

(* The end of a core empties its guard and its channel. *)
LEMMA OverKeepsBooks ==
  ASSUME CoreInv, CoreBooks, NEW j \in Jobs, Over(j)
  PROVE  CoreBooks'
BY DEF CoreInv, CoreTypes, CoreBooks, Over, Kept

(* What run_with does adds handles and reports only while it runs. *)
LEMMA CoreStepKeepsBooks ==
  ASSUME CoreInv, CoreBooks, NEW j \in Jobs, CoreStep(j)
  PROVE  CoreBooks'
<1>0. CASE Over(j)
  BY <1>0, OverKeepsBooks
<1> SUFFICES ASSUME ~ Over(j) PROVE CoreBooks'
  BY <1>0
<1> USE DEF CoreInv, CoreTypes, CoreBooks
<1>1. CASE Setup(j)
  BY <1>1 DEF Setup
<1>2. CASE Bind(j)
  <2>1. AfterBind(mode[j]) # "ended"
    BY DEF AfterBind
  <2> QED
    BY <1>2, <2>1 DEF Bind
<1>3. CASE Only(j)
  BY <1>3 DEF Only
<1>4. CASE BothReverse(j)
  BY <1>4 DEF BothReverse
<1>5. CASE Session(j)
  BY <1>5 DEF Session
<1>6. CASE Break(j)
  BY <1>6 DEF Break, Ports
<1>7. ASSUME NEW p \in Parts PROVE NextPc(p) # "ended" /\ p # "ended"
  BY DEF NextPc, Parts
<1>8. ASSUME NEW p \in Parts, SkipPart(j, p) PROVE CoreBooks'
  BY <1>7, <1>8 DEF SkipPart
<1>9. ASSUME NEW p \in Parts, SpawnChain(j, p) PROVE CoreBooks'
  <2>1. ChainHandles(p) \in SUBSET Handles
    BY DEF ChainHandles, Handles
  <2> QED
    BY <1>7, <1>9, <2>1 DEF SpawnChain
<1>10. ASSUME NEW p \in Parts, ReverseBind(j, p) PROVE CoreBooks'
  BY <1>10 DEF ReverseBind
<1>11. ASSUME NEW p \in Parts, ReverseUp(j, p) PROVE CoreBooks'
  <2>1. <<"task", p>> \in Handles
    BY DEF Handles
  <2>2. /\ guard' = [guard EXCEPT ![j] = @ \cup {<<"task", p>>}]
        /\ core' = [core EXCEPT ![j] = NextPc(p)]
        /\ core[j] = p
        /\ UNCHANGED <<job, watch, aborted, reports>>
    BY <1>11 DEF ReverseUp
  <2>3. guard' \in [Jobs -> SUBSET Handles]
    BY <2>1, <2>2
  <2>4. ASSUME NEW k \in Jobs, core'[k] = "ended"
        PROVE  guard'[k] = {} /\ reports'[k] = {}
    BY <1>7, <2>2, <2>4
  <2> QED
    BY <2>2, <2>3, <2>4
<1> QED
  BY <1>1, <1>2, <1>3, <1>4, <1>5, <1>6, <1>8, <1>9, <1>10, <1>11 DEF CoreStep

(* Every step keeps the books. *)
LEMMA NextKeepsBooks == CoreInv /\ CoreBooks /\ [Next]_vars => CoreBooks'
<1> SUFFICES ASSUME CoreInv, CoreBooks, [Next]_vars PROVE CoreBooks'
  OBVIOUS
<1>1. CASE UNCHANGED vars
  BY <1>1 DEF vars, CoreBooks
<1>2. ASSUME NEW j \in Jobs, Host(j)
      PROVE  CoreBooks'
  <2>1. CASE Cancel(j)
    BY <2>1 DEF Cancel, CoreBooks
  <2>2. CASE Free(j)
    BY <2>2 DEF Free, CoreBooks
  <2>3. ASSUME NEW m \in Modes[j], Start(j, m)
        PROVE  CoreBooks'
    BY <2>3 DEF Start, CoreBooks, CoreInv, CoreTypes
  <2> QED
    BY <1>2, <2>1, <2>2, <2>3 DEF Host
<1>3. ASSUME NEW j \in Jobs, Stopped(j) \/ CoreEnd(j)
      PROVE  CoreBooks'
  BY <1>3, OverKeepsBooks DEF Stopped, CoreEnd
<1>4. ASSUME NEW j \in Jobs, NEW p \in Parts, PartStep(j, p) \/ Reap(j, p)
      PROVE  CoreBooks'
  BY <1>4 DEF PartStep, TaskStep, TaskStops, Reap, TaskEnds, CoreBooks
<1>5. ASSUME NEW j \in Jobs, NEW p \in Parts, Watch(j, p)
      PROVE  CoreBooks'
  <2>1. Reported(j, p) \in SUBSET Ports
    BY DEF Reported, Ports
  <2> QED
    BY <1>5, <2>1 DEF Watch, Running, CoreBooks
<1>6. ASSUME NEW j \in Jobs, NEW p \in Parts, ReapWatch(j, p)
      PROVE  CoreBooks'
  BY <1>6 DEF ReapWatch, CoreBooks
<1> QED
  BY <1>1, <1>2, <1>3, <1>4, <1>5, <1>6, CoreStepKeepsBooks DEF Next

(* The state of every job is well formed, and a core that is over has no   *)
(* abort handle left in its guard and no report nobody will read.          *)
THEOREM CoreTypeCorrect == Spec => []TypeOK
<1>1. Init => CoreBooks
  BY DEF Init, CoreBooks, JobNone
<1>2. CoreInv /\ CoreBooks => TypeOK
  BY DEF CoreInv, CoreTypes, CoreBooks, TypeOK
<1> QED
  BY <1>1, <1>2, CoreInvHolds, NextKeepsBooks, PTL DEF Spec

=============================================================================
