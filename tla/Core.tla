-------------------------------- MODULE Core --------------------------------
(***************************************************************************)
(* The life of the Aether core behind its C API (ffi.rs, api.rs and        *)
(* run_with of lib.rs).  A host starts cores as jobs, cancels and frees    *)
(* them; a core binds the listener the user dials, starts Tor and Psiphon  *)
(* inside its tunnel (Chain), underneath it (Reverse) or in its place      *)
(* (Only), and runs its session until the session, one of these parts or   *)
(* the listener ends.  Every job runs in the one process, so the ports one *)
(* core leaves behind are missing to the next.                             *)
(***************************************************************************)
EXTENDS Naturals, FiniteSets

CONSTANTS MaxJobs,  \* a bound on the cores the host starts
          MaxCores, \* a bound on those it has running at a time
          Modes     \* per core, the modes of Tor and Psiphon it may ask for

ASSUME MaxJobsAssumption == MaxJobs \in Nat /\ MaxCores \in Nat

\* The ids next_id() hands out, from 1 up; 0 is the port nobody listens on.
Jobs == 1..MaxJobs

NoJob == 0

Parts == {"tor", "psiphon"}

ASSUME ModesAssumption ==
    Modes \in [Jobs -> SUBSET [Parts -> {"Off", "Chain", "Reverse", "Only"}]]

\* AETHER_SOCKS, --tor-bind and --psiphon-bind: one listener each.
Ports == {"socks"} \cup Parts

VARIABLES
    job,       \* per id: in the registry or freed, cancelled or not, its JobState
    mode,      \* per id: what tor::mode() and psiphon::mode() say
    core,      \* per id: how far run_with has come
    task,      \* per id and part: run_chain, or the carrier of start_reverse
    watch,     \* per id and part: the task of watch_chain
    guard,     \* per id: the abort handles TaskGuard holds
    aborted,   \* the handles abort() was called on
    reports,   \* per id: the channel core_end
    own        \* per port: the job whose listener or program has it

vars == <<job, mode, core, task, watch, guard, aborted, reports, own>>

JobNone == [reg |-> "none", cancel |-> FALSE, state |-> "none"]

\* How a task of Tor or Psiphon ends by itself: it returns, or it panics.
Ends == {"returned", "panicked"}

TaskStates == {"none", "bind", "wait", "start", "serve", "reaped"} \cup Ends

Handles == {"watch", "task"} \X Parts

CoreStates == {"none", "spawned", "bind", "only", "serving", "tor", "psiphon",
               "hunt", "up", "ended"}

TypeOK ==
    /\ job \in [Jobs -> [reg : {"none", "held", "freed"}, cancel : BOOLEAN,
                         state : {"none", "running", "done"}]]
    /\ mode \in [Jobs -> [Parts -> {"Off", "Chain", "Reverse", "Only"}]]
    /\ core \in [Jobs -> CoreStates]
    /\ task \in [Jobs -> [Parts -> TaskStates]]
    /\ watch \in [Jobs -> [Parts -> {"none", "run", "gone"}]]
    /\ guard \in [Jobs -> SUBSET Handles]
    /\ aborted \in [Jobs -> SUBSET Handles]
    /\ reports \in [Jobs -> SUBSET Ports]
    /\ own \in [Ports -> Jobs \cup {NoJob}]
    /\ \A j \in Jobs : core[j] = "ended" => guard[j] = {} /\ reports[j] = {}

Init ==
    /\ job = [j \in Jobs |-> JobNone]
    /\ mode = [j \in Jobs |-> [p \in Parts |-> "Off"]]
    /\ core = [j \in Jobs |-> "none"]
    /\ task = [j \in Jobs |-> [p \in Parts |-> "none"]]
    /\ watch = [j \in Jobs |-> [p \in Parts |-> "none"]]
    /\ guard = [j \in Jobs |-> {}]
    /\ aborted = [j \in Jobs |-> {}]
    /\ reports = [j \in Jobs |-> {}]
    /\ own = [x \in Ports |-> NoJob]

-----------------------------------------------------------------------------
Running(j) == core[j] \notin {"none", "ended"}

(* The calls of the host.  Polling reads and changes nothing.              *)

\* aether_core_start: spawn_job puts the job in the registry, Running, and its
\* task on the runtime; which Tor and Psiphon are asked for comes with it.
Start(j, m) ==
    /\ core[j] = "none"
    /\ \A k \in 1..(j - 1) : core[k] # "none"
    /\ Cardinality({k \in Jobs : Running(k)}) < MaxCores
    /\ job' = [job EXCEPT ![j] = [reg |-> "held", cancel |-> FALSE, state |-> "running"]]
    /\ mode' = [mode EXCEPT ![j] = m]
    /\ core' = [core EXCEPT ![j] = "spawned"]
    /\ UNCHANGED <<task, watch, guard, aborted, reports, own>>

\* aether_job_cancel: an error, and nothing else, for a job no longer registered.
Cancel(j) ==
    /\ job[j].reg = "held"
    /\ job' = [job EXCEPT ![j].cancel = TRUE]
    /\ UNCHANGED <<mode, core, task, watch, guard, aborted, reports, own>>

\* aether_job_free: out of the registry, and cancelled, as no call reaches it now.
Free(j) ==
    /\ job[j].reg = "held"
    /\ job' = [job EXCEPT ![j].reg = "freed", ![j].cancel = TRUE]
    /\ UNCHANGED <<mode, core, task, watch, guard, aborted, reports, own>>

-----------------------------------------------------------------------------
(* The job's own task: run_with inside the select of aether_core_start.    *)

\* start_reverse is still bringing the carrier up, inside run_with.
Starting(j, p) == mode[j][p] = "Reverse" /\ task[j][p] = "start"

\* A plausible slip: the program is started without kill_on_drop.
ReleasedListener(j) == {"socks"}

\* The ports that go as the future of run_with is dropped: the listener it holds, and
\* that of a carrier it was still bringing up (Tor's listener; Psiphon's program, which
\* kill_on_drop ends).
Released(j) == {"socks"} \cup {p \in Parts : Starting(j, p)}

\* A plausible slip: the guard stops at the first handles.
KeptTasks(j) == guard[j] \cap ({"task"} \X Parts)

\* What TaskGuard does not abort as it is dropped: it drains every handle.
Kept(j) == {}

\* The future of run_with ends, or is dropped: its listeners close, TaskGuard aborts what
\* it holds, the channel core_end closes, and the job is Done (the reply is left out).
Over(j) ==
    /\ core' = [core EXCEPT ![j] = "ended"]
    /\ own' = [x \in Ports |->
                 IF own[x] = j /\ x \in Released(j) THEN NoJob ELSE own[x]]
    /\ task' = [task EXCEPT ![j] = [p \in Parts |->
                    IF Starting(j, p) THEN "reaped" ELSE task[j][p]]]
    /\ guard' = [guard EXCEPT ![j] = Kept(j)]
    /\ aborted' = [aborted EXCEPT ![j] = @ \cup (guard[j] \ Kept(j))]
    /\ reports' = [reports EXCEPT ![j] = {}]
    /\ job' = [job EXCEPT ![j].state = "done"]
    /\ UNCHANGED <<mode, watch>>

\* The select is biased: the cancellation is looked at first, whenever the task runs.
Stopped(j) ==
    /\ Running(j)
    /\ job[j].cancel
    /\ Over(j)

\* The first poll: what run_with does before its listeners, which may fail (an option
\* that cannot be used) or be all it does (a registration, --help).
Setup(j) ==
    /\ core[j] = "spawned"
    /\ \/ /\ core' = [core EXCEPT ![j] = "bind"]
          /\ UNCHANGED <<job, mode, task, watch, guard, aborted, reports, own>>
       \/ Over(j)

\* Where run_with goes once its listeners are bound.
AfterBind(m) ==
    IF \E p \in Parts : m[p] = "Only" THEN "only" ELSE "tor"

\* spawn_psiphon_over_tor_only: a task of its own, in nobody's guard.
Loose(m) == m["tor"] = "Only" /\ m["psiphon"] = "Chain"

\* Listeners::bind, and what is decided right after it.
Bind(j) ==
    /\ core[j] = "bind"
    /\ \/ Over(j)
       \/ /\ own["socks"] = NoJob
          /\ own' = [own EXCEPT !["socks"] = j]
          /\ core' = [core EXCEPT ![j] = AfterBind(mode[j])]
          /\ task' = IF Loose(mode[j])
                     THEN [task EXCEPT ![j]["psiphon"] = "bind"] ELSE task
          /\ UNCHANGED <<job, mode, watch, guard, aborted, reports>>

\* tor::run_only and psiphon::run_only serve the core's own listener until they end.
Only(j) ==
    /\ core[j] \in {"only", "serving"}
    /\ \/ /\ core[j] = "only"
          /\ core' = [core EXCEPT ![j] = "serving"]
          /\ UNCHANGED <<job, mode, task, watch, guard, aborted, reports, own>>
       \/ Over(j)

\* The two parts are seen to in turn, Tor first; then the session begins.
NextPc(p) == IF p = "tor" THEN "psiphon" ELSE "hunt"

\* Both want to carry the tunnel: refused.
BothReverse(j) ==
    /\ core[j] = "tor"
    /\ \A p \in Parts : mode[j][p] = "Reverse"
    /\ Over(j)

SkipPart(j, p) ==
    /\ core[j] = p
    /\ mode[j][p] = "Off"
    /\ core' = [core EXCEPT ![j] = NextPc(p)]
    /\ UNCHANGED <<job, mode, task, watch, guard, aborted, reports, own>>

\* The chain's task and the one that watches it, both handed to the guard.
ChainHandles(p) == {<<"watch", p>>, <<"task", p>>}

\* watch_chain(.., tokio::spawn(run_chain(..)), ..)
SpawnChain(j, p) ==
    /\ core[j] = p
    /\ mode[j][p] = "Chain"
    /\ task' = [task EXCEPT ![j][p] = "bind"]
    /\ watch' = [watch EXCEPT ![j][p] = "run"]
    /\ guard' = [guard EXCEPT ![j] = @ \cup ChainHandles(p)]
    /\ core' = [core EXCEPT ![j] = NextPc(p)]
    /\ UNCHANGED <<job, mode, aborted, reports, own>>

\* start_reverse takes the part's port (Tor by its listener, Psiphon by the program it
\* starts) and waits, for a bounded time, until the part is up; the carrier's task is
\* then in the guard before anything else is awaited.
ReverseBind(j, p) ==
    /\ core[j] = p
    /\ mode[j][p] = "Reverse"
    /\ \E q \in Parts : mode[j][q] # "Reverse"
    /\ task[j][p] = "none"
    /\ \/ Over(j)
       \/ /\ own[p] = NoJob
          /\ own' = [own EXCEPT ![p] = j]
          /\ task' = [task EXCEPT ![j][p] = "start"]
          /\ UNCHANGED <<job, mode, core, watch, guard, aborted, reports>>

ReverseUp(j, p) ==
    /\ core[j] = p
    /\ mode[j][p] = "Reverse"
    /\ task[j][p] = "start"
    /\ \/ Over(j)
       \/ /\ task' = [task EXCEPT ![j][p] = "serve"]
          /\ guard' = [guard EXCEPT ![j] = @ \cup {<<"task", p>>}]
          /\ core' = [core EXCEPT ![j] = NextPc(p)]
          /\ UNCHANGED <<job, mode, watch, aborted, reports, own>>

\* The session: its tunnels come and go; it ends by itself only with an error, or when
\* it is asked to close.
Session(j) ==
    /\ core[j] \in {"hunt", "up"}
    /\ \/ /\ core' = [core EXCEPT ![j] = IF @ = "hunt" THEN "up" ELSE "hunt"]
          /\ UNCHANGED <<job, mode, task, watch, guard, aborted, reports, own>>
       \/ Over(j)

\* Listeners::serve, under a tunnel: a listener that breaks is reported, and served no
\* more.
Break(j) ==
    /\ core[j] = "up"
    /\ reports' = [reports EXCEPT ![j] = @ \cup {"socks"}]
    /\ UNCHANGED <<job, mode, core, task, watch, guard, aborted, own>>

\* until_core_end: a report ends the session with its error.
CoreEnd(j) ==
    /\ core[j] \in {"hunt", "up"}
    /\ reports[j] # {}
    /\ Over(j)

-----------------------------------------------------------------------------
(* The tasks of Tor and Psiphon.                                           *)

\* A socks5 server answers on the core's port.
Answers == \E j \in Jobs : own["socks"] = j /\ core[j] \in {"up", "serving"}

\* The part ends by itself: with the task, its listener or program goes.
TaskEnds(j, p, e) ==
    /\ task' = [task EXCEPT ![j][p] = e]
    /\ own' = [own EXCEPT ![p] = IF @ = j THEN NoJob ELSE @]
    /\ UNCHANGED <<job, mode, core, watch, guard, aborted, reports>>

IsTask(j, p) == mode[j][p] = "Chain" \/ <<"task", p>> \in guard[j] \cup aborted[j]

\* run_chain: it binds its own listener first, waits for the tunnel, comes up behind
\* it or fails, and serves.
TaskStep(j, p) ==
    /\ IsTask(j, p)
    /\ \/ /\ task[j][p] = "bind"
          /\ own[p] = NoJob
          /\ own' = [own EXCEPT ![p] = j]
          /\ task' = [task EXCEPT ![j][p] = "wait"]
       \/ /\ task[j][p] = "wait"
          /\ Answers
          /\ task' = [task EXCEPT ![j][p] = "start"]
          /\ UNCHANGED own
       \/ /\ task[j][p] = "start"
          /\ task' = [task EXCEPT ![j][p] = "serve"]
          /\ UNCHANGED own
    /\ UNCHANGED <<job, mode, core, watch, guard, aborted, reports>>

\* It ends: no port, no program, not up in time, the program or its listener gone.
TaskStops(j, p, e) ==
    /\ IsTask(j, p)
    /\ task[j][p] \in {"bind", "start", "serve"}
    /\ TaskEnds(j, p, e)

\* abort() only asks: the runtime drops the task, and with it its listener, or the
\* program it started, some time later.
Reap(j, p) ==
    /\ <<"task", p>> \in aborted[j]
    /\ task[j][p] \in {"bind", "wait", "start", "serve"}
    /\ TaskEnds(j, p, "reaped")

\* A plausible slip: what is not the chain's own error is taken for the core's end.
ReportedErrors(j, p) == IF task[j][p] \in {"returned"} THEN {p} ELSE {}

\* What watch_chain does with the end of the chain: all but a cancelled one is reported.
Reported(j, p) == IF task[j][p] \in Ends THEN {p} ELSE {}

Watch(j, p) ==
    /\ watch[j][p] = "run"
    /\ task[j][p] \in Ends \cup {"reaped"}
    /\ watch' = [watch EXCEPT ![j][p] = "gone"]
    /\ reports' = [reports EXCEPT ![j] = IF Running(j) THEN @ \cup Reported(j, p) ELSE @]
    /\ UNCHANGED <<job, mode, core, task, guard, aborted, own>>

ReapWatch(j, p) ==
    /\ <<"watch", p>> \in aborted[j]
    /\ watch[j][p] = "run"
    /\ watch' = [watch EXCEPT ![j][p] = "gone"]
    /\ UNCHANGED <<job, mode, core, task, guard, aborted, reports, own>>

-----------------------------------------------------------------------------

Host(j) == Cancel(j) \/ Free(j) \/ \E m \in Modes[j] : Start(j, m)

CoreStep(j) ==
    \/ Setup(j) \/ Bind(j) \/ Only(j) \/ BothReverse(j) \/ Session(j) \/ Break(j)
    \/ \E p \in Parts :
          SkipPart(j, p) \/ SpawnChain(j, p) \/ ReverseBind(j, p) \/ ReverseUp(j, p)

PartStep(j, p) ==
    \/ TaskStep(j, p)
    \/ \E e \in Ends : TaskStops(j, p, e)

Next ==
    \E j \in Jobs :
        \/ Host(j)
        \/ CoreStep(j)
        \/ Stopped(j)
        \/ CoreEnd(j)
        \/ \E p \in Parts :
              PartStep(j, p) \/ Reap(j, p) \/ Watch(j, p) \/ ReapWatch(j, p)

\* The runtime polls what is ready and drops what was aborted, and start_reverse has a
\* time limit; nothing is assumed of the host, the network, the session, or of Tor and
\* Psiphon.
Fairness ==
    \A j \in Jobs :
        /\ WF_vars(Stopped(j))
        /\ WF_vars(CoreEnd(j))
        /\ \A p \in Parts :
              /\ WF_vars(SkipPart(j, p) \/ SpawnChain(j, p))
              /\ WF_vars(ReverseBind(j, p) \/ ReverseUp(j, p))
              /\ WF_vars(Reap(j, p))
              /\ WF_vars(Watch(j, p))

Spec == Init /\ [][Next]_vars /\ Fairness

-----------------------------------------------------------------------------
(* Properties.                                                             *)

\* What of a job holds a port, between its steps.
Holder(j, x) ==
    IF x = "socks" THEN core[j] \in {"only", "serving", "tor", "psiphon", "hunt", "up"}
                   ELSE task[j][x] \in {"wait", "start", "serve"}

\* The listener the user dials stays bound from Listeners::bind to the end of the core,
\* however often its tunnel goes down, and the listener of Tor or Psiphon as long as that
\* part lives (lib.rs, struct Listeners; psiphon.rs, run_chain).  And the other way round:
\* no port stays taken by a core that is over, stopped in the middle of start_reverse
\* included, or by a part that is gone, which would keep the next core from starting.
PortsAreHeld ==
    \A j \in Jobs, x \in Ports : own[x] = j <=> Holder(j, x)

\* No task of a part runs before run_with has come to that part: with PortsAreHeld, what
\* a step keeps.
NotYetStarted ==
    \A j \in Jobs :
        /\ core[j] \in {"none", "spawned", "bind"} =>
              \A p \in Parts : task[j][p] = "none"
        /\ core[j] = "tor" =>
              /\ task[j]["psiphon"] = "none"
              /\ mode[j]["tor"] # "Reverse" => task[j]["tor"] = "none"
        /\ core[j] = "psiphon" /\ mode[j]["psiphon"] # "Reverse" =>
              task[j]["psiphon"] = "none"

Live(j, p) == task[j][p] \in {"bind", "wait", "start", "serve"}

\* Once a core has ended, or its job was cancelled or freed, in any order and at any
\* point of its start, the core comes to its end and so do Tor and Psiphon with it, which
\* give back their ports (lib.rs, run_with: "as the core ends, Tor and Psiphon end with
\* it").  Psiphon over Tor alone is in no guard and is left out here.
EverythingEnds ==
    \A j \in Jobs :
        (core[j] = "ended" \/ job[j].cancel \/ job[j].reg = "freed")
            ~> /\ core[j] = "ended"
               /\ Loose(mode[j]) \/ \A p \in Parts : ~ Live(j, p)
               /\ \A x \in Ports : own[x] = j => Loose(mode[j])

\* A chain inside the tunnel that ends by itself, with an error, without one or by a
\* panic, at any time from the moment it was started, and a listener that breaks under
\* a tunnel, end the core: it never runs on with nobody behind a port the user dials
\* (watch_chain, until_core_end, Listeners::serve).
EndsWithItsParts ==
    \A j \in Jobs :
        /\ \A p \in Parts :
              (mode[j][p] = "Chain" /\ ~ Loose(mode[j]) /\ task[j][p] \in Ends)
                  ~> core[j] = "ended"
        /\ "socks" \in reports[j] ~> core[j] = "ended"

=============================================================================
