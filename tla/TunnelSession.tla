---------------------------- MODULE TunnelSession ----------------------------
(***************************************************************************)
(* The run of the Aether core that keeps one tunnel up: run_wireguard()    *)
(* and run_masque() in lib.rs, with the cache of gateways (lastconn.rs),   *)
(* the strikes and rests of gateways, and the scan's RTT floor             *)
(* (wg_prober.rs).  The two runs are the same loop with the differences    *)
(* the variable proto selects.                                             *)
(*                                                                         *)
(* Whether an endpoint answers a check, and how fast, is the network's     *)
(* choice each time.  A scan is reduced to the fastest answer it stopped   *)
(* with: in every scan mode that is the head of distinct_by_ip(), since an *)
(* answer the turbo mode commits to is within the budget and the floor and *)
(* those before it were not.  Obfuscation profiles are left out.           *)
(*                                                                         *)
(* The run may be stopped and started again at any time, in the same       *)
(* process (the C API), where the floor survives, or in a new one; the     *)
(* cache file survives both, and a crash can cut a write of it short.      *)
(***************************************************************************)
EXTENDS Naturals, Sequences, FiniteSets

CONSTANTS
    Peers,       \* endpoints, an address and a port each
    Ips,         \* addresses
    IpOf,        \* the address of an endpoint
    None,        \* no endpoint
    Forceable,   \* endpoints AETHER_PEER may name
    Assignable,  \* endpoints AETHER_TEAM_ENDPOINT may name
    Rtts,        \* round-trip times a check may measure
    Budget,      \* the budget of a cached endpoint (within_budget)
    RecentCap,   \* RECENT_CAP
    MaxFails,    \* MAX_CONSECUTIVE_FAILS, MASQUE_GATEWAY_STRIKES
    MaxCount,    \* u32::MAX, where the count of failures saturates
    Rest,        \* wg_endpoint_cooldown(), MASQUE_GATEWAY_REST, in ticks
    StayedUp     \* TUNNEL_STAYED_UP, in ticks

ASSUME SessionAssumption ==
    /\ IpOf \in [Peers -> Ips]
    /\ Peers \cap Ips = {}
    /\ None \notin Peers
    /\ Forceable \subseteq Peers /\ Assignable \subseteq Peers
    /\ Rtts \subseteq Nat \ {0}
    /\ Budget \in Nat
    /\ {RecentCap, MaxFails, MaxCount, Rest, StayedUp} \subseteq Nat \ {0}
    /\ MaxFails <= MaxCount

VARIABLES
    proto,     \* which run: "wg" or "masque"
    forced,    \* AETHER_PEER, or None
    assigned,  \* AETHER_TEAM_ENDPOINT, or None
    pc,        \* where the run is
    saved,     \* the cache file: the peer, its carrier and the recent ones
    floor,     \* RTT_FLOOR_PEER and RTT_FLOOR_MS, statics of the process
    quick,     \* quick, quick_peer: the endpoint the prelude settled on
    last,      \* last_good, last_good_peer
    peer,      \* the endpoint of this round
    fails,     \* consecutive_fails_on_peer, GatewayStrikes::in_a_row
    resting,   \* endpoint_cooldowns, GatewayStrikes::resting: ticks left
    lasted,    \* ticks the tunnel has been up
    used,      \* carrier and endpoint of every choice so far (history)
    streak     \* the last tunnels, all short and through one endpoint (history)

cfgVars == <<proto, forced, assigned>>
vars == <<proto, forced, assigned, pc, saved, floor, quick, last, peer, fails,
          resting, lasted, used, streak>>

Protos == {"wg", "masque"}
Maybe(S) == S \cup {None}
NoFloor == [peer |-> None, rtt |-> 0]
NoFile == [peer |-> None, carrier |-> "", recent |-> <<>>]
NoStreak == [peer |-> None, n |-> 0]

\* The WireGuard run rests an endpoint, the MASQUE run an address.
Key(p) == IF proto = "wg" THEN p ELSE IpOf[p]
Resting(p) == resting[Key(p)] > 0

\* n.saturating_add(1)
Count(n) == IF n < MaxCount THEN n + 1 ELSE n

TypeOK ==
    /\ proto \in Protos
    /\ forced \in Maybe(Forceable) /\ assigned \in Maybe(Assignable)
    /\ pc \in {"start", "ring", "top", "pick", "save", "validate", "up", "sleep"}
    /\ saved \in [peer : Maybe(Peers), carrier : Protos \cup {""}, recent : Seq(Peers)]
    /\ floor \in [peer : Maybe(Peers), rtt : Rtts \cup {0}]
    /\ quick \in Maybe(Peers) /\ last \in Maybe(Peers) /\ peer \in Maybe(Peers)
    /\ fails \in 0..MaxCount
    /\ resting \in [Peers \cup Ips -> 0..Rest]
    /\ lasted \in 0..StayedUp
    /\ used \subseteq Protos \X Peers
    /\ streak \in [peer : Maybe(Peers), n : 0..MaxCount]

Init ==
    /\ proto \in Protos
    /\ forced \in Maybe(Forceable)
    /\ assigned \in Maybe(Assignable)
    /\ pc = "start"
    /\ saved = NoFile
    /\ floor = NoFloor
    /\ quick = None /\ last = None /\ peer = None
    /\ fails = 0
    /\ resting = [k \in Peers \cup Ips |-> 0]
    /\ lasted = 0
    /\ used = {}
    /\ streak = NoStreak

-----------------------------------------------------------------------------
(* The prelude: the assigned endpoint, then the cached ones.                *)

VerifyAssigned(ok) ==
    /\ pc = "start"
    /\ forced = None => (ok => assigned # None)
    /\ forced # None => ~ok
    /\ quick' = IF ok THEN assigned ELSE None
    /\ pc' = IF ok \/ forced # None THEN "top" ELSE "ring"
    /\ UNCHANGED <<cfgVars, saved, floor, last, peer, fails, resting, lasted,
                   used, streak>>

\* usable_peers(): what the file lists, for a run of the file's carrier.
UsablePeers(c) ==
    IF c.peer = None \/ c.carrier \notin {"", proto} THEN {}
    ELSE {c.peer} \cup {c.recent[i] : i \in 1..Len(c.recent)}

\* The first cached endpoint that answers: in use at once if it is fast.  A slow
\* one is put aside, and for WireGuard it is what the scan has to beat.
QuickReconnect(p, rtt) ==
    /\ pc = "ring"
    /\ p \in UsablePeers(saved)
    /\ quick' = IF rtt <= Budget THEN p ELSE None
    /\ floor' = IF rtt > Budget /\ proto = "wg" THEN [peer |-> p, rtt |-> rtt]
                ELSE floor
    /\ pc' = "top"
    /\ UNCHANGED <<cfgVars, saved, last, peer, fails, resting, lasted, used, streak>>

\* No file for this carrier, no wish to reconnect, or no cached one answers.
NoQuickReconnect ==
    /\ pc = "ring"
    /\ pc' = "top"
    /\ UNCHANGED <<cfgVars, saved, floor, quick, last, peer, fails, resting,
                   lasted, used, streak>>

-----------------------------------------------------------------------------
(* The loop.                                                                *)

\* Leave an endpoint whose tunnels keep ending; masque keeps a forced one.
GivesUp == fails >= MaxFails /\ (proto = "wg" \/ forced = None)

\* Mutant: an endpoint that rests already rests that much longer.
TopOfLoop_Extends ==
    /\ pc = "top"
    /\ pc' = "pick"
    /\ IF GivesUp
       THEN /\ resting' = IF last = None THEN resting
                          ELSE [resting EXCEPT ![Key(last)] = @ + Rest]
            /\ last' = None
            /\ fails' = 0
       ELSE UNCHANGED <<resting, last, fails>>
    /\ UNCHANGED <<cfgVars, saved, floor, quick, peer, lasted, used, streak>>

TopOfLoop ==
    /\ pc = "top"
    /\ pc' = "pick"
    /\ IF GivesUp
       THEN /\ resting' = IF last = None THEN resting
                          ELSE [resting EXCEPT ![Key(last)] = Rest]
            /\ last' = None
            /\ fails' = 0
       ELSE UNCHANGED <<resting, last, fails>>
    /\ UNCHANGED <<cfgVars, saved, floor, quick, peer, lasted, used, streak>>

PickUnchanged ==
    UNCHANGED <<cfgVars, saved, floor, last, fails, resting, lasted, used, streak>>

UseQuick ==
    /\ pc = "pick" /\ quick # None
    /\ peer' = quick
    /\ quick' = None
    /\ pc' = "save"
    /\ PickUnchanged

\* The last endpoint again, if it passes the check.
RetryLast ==
    /\ pc = "pick" /\ quick = None /\ last # None
    /\ peer' = last
    /\ pc' = "save"
    /\ PickUnchanged /\ UNCHANGED quick

\* From here on there is no last endpoint, or it failed the check.
UseForced ==
    /\ pc = "pick" /\ quick = None /\ forced # None
    /\ peer' = forced
    /\ pc' = "save"
    /\ PickUnchanged /\ UNCHANGED quick

\* The scan's answer with the floor applied (apply_rtt_floor).
ApplyRttFloor(p, rtt) ==
    IF proto = "wg" /\ floor.peer # None /\ rtt > floor.rtt THEN floor.peer ELSE p

Hunt(p, rtt) ==
    /\ pc = "pick" /\ quick = None /\ forced = None
    /\ ~Resting(p)
    /\ peer' = ApplyRttFloor(p, rtt)
    /\ pc' = "save"
    /\ PickUnchanged /\ UNCHANGED quick

\* The scan found nothing, or the WireGuard check of a forced peer failed.
NothingUsable ==
    /\ pc = "pick" /\ quick = None
    /\ forced # None => proto = "wg"
    /\ pc' = "sleep"
    /\ PickUnchanged /\ UNCHANGED <<quick, peer>>

\* p first, then the entries carried over, up to the cap.
Ring(kept, p) ==
    LET ring[n \in 0..Len(kept)] ==
            IF n = 0 THEN <<p>>
            ELSE IF kept[n] # p /\ Len(ring[n - 1]) < RecentCap
            THEN Append(ring[n - 1], kept[n])
            ELSE ring[n - 1]
    IN  ring[Len(kept)]

\* Mutant: the ring of another carrier is carried over.
SaveRingOfAny(c, p) ==
    [peer |-> p, carrier |-> proto, recent |-> Ring(c.recent, p)]

\* lastconn::save(): carried over is what the file held for the same carrier.
SaveRing(c, p) ==
    [peer |-> p, carrier |-> proto,
     recent |-> Ring(IF c.carrier \in {"", proto} THEN c.recent ELSE <<>>, p)]

\* Mutants: the count goes on at another endpoint, or starts over at any.
FailsCarriedOver(p) == fails
FailsForgotten(p) == 0

\* The count starts over at another endpoint than the last.
FailsFor(p) == IF p = last THEN fails ELSE 0

SaveAndUse ==
    /\ pc = "save"
    /\ saved' = IF forced = None THEN SaveRing(saved, peer) ELSE saved
    /\ used' = used \cup {<<proto, peer>>}
    /\ fails' = FailsFor(peer)
    /\ last' = peer
    /\ lasted' = 0
    /\ pc' = "validate"
    /\ UNCHANGED <<cfgVars, floor, quick, peer, resting, streak>>

\* The tunnel is validated; for WireGuard that settles the floor.
TunnelUp ==
    /\ pc = "validate"
    /\ pc' = "up"
    /\ floor' = IF proto = "wg" THEN NoFloor ELSE floor
    /\ UNCHANGED <<cfgVars, saved, quick, last, peer, fails, resting, lasted,
                   used, streak>>

CountTunnelEnd(n) == IF lasted >= StayedUp THEN 0 ELSE Count(n)

\* The tunnel ends, fails its validation or is refused by the exit rule.
TunnelEnds ==
    /\ pc \in {"validate", "up"}
    /\ pc' = "sleep"
    /\ fails' = CountTunnelEnd(fails)
    /\ streak' = IF lasted >= StayedUp THEN NoStreak
                 ELSE [peer |-> peer,
                       n |-> IF streak.peer = peer THEN Count(streak.n) ELSE 1]
    /\ UNCHANGED <<cfgVars, saved, floor, quick, last, peer, resting, lasted, used>>

WakeUp ==
    /\ pc = "sleep"
    /\ pc' = "top"
    /\ UNCHANGED <<cfgVars, saved, floor, quick, last, peer, fails, resting,
                   lasted, used, streak>>

\* Time passes while a tunnel is up or the run sleeps before a reconnect.
Tick ==
    /\ pc \in {"up", "sleep"}
    /\ lasted' = IF pc = "up" /\ lasted < StayedUp THEN lasted + 1 ELSE lasted
    /\ resting' = [k \in Peers \cup Ips |->
                     IF resting[k] > 0 THEN resting[k] - 1 ELSE 0]
    /\ UNCHANGED <<cfgVars, pc, saved, floor, quick, last, peer, fails, used, streak>>

-----------------------------------------------------------------------------
(* Stop and start.                                                          *)

Restarts(sameProcess) ==
    /\ proto' \in Protos
    /\ forced' \in Maybe(Forceable)
    /\ assigned' \in Maybe(Assignable)
    /\ pc' = "start"
    /\ floor' = IF sameProcess THEN floor ELSE NoFloor
    /\ quick' = None /\ last' = None /\ peer' = None
    /\ fails' = 0
    /\ resting' = [k \in Peers \cup Ips |-> 0]
    /\ lasted' = 0
    /\ streak' = NoStreak

Restart(sameProcess) ==
    /\ pc # "start"
    /\ Restarts(sameProcess)
    /\ UNCHANGED <<saved, used>>

\* fs::write() cut short: a file that does not parse, or ends after the peer.
CrashInSave ==
    /\ pc = "save" /\ forced = None
    /\ saved' \in {NoFile, [NoFile EXCEPT !.peer = peer],
                   [SaveRing(saved, peer) EXCEPT !.recent = <<>>]}
    /\ used' = used \cup {<<proto, peer>>}
    /\ Restarts(FALSE)

-----------------------------------------------------------------------------

Next ==
    \/ \E ok \in BOOLEAN : VerifyAssigned(ok)
    \/ \E p \in Peers, rtt \in Rtts : QuickReconnect(p, rtt) \/ Hunt(p, rtt)
    \/ NoQuickReconnect
    \/ TopOfLoop \/ UseQuick \/ RetryLast \/ UseForced \/ NothingUsable
    \/ SaveAndUse \/ TunnelUp \/ TunnelEnds \/ WakeUp \/ Tick
    \/ \E same \in BOOLEAN : Restart(same)
    \/ CrashInSave

\* A validation has a time limit: it ends, with a tunnel or without.
Fairness == WF_vars(TunnelUp \/ (pc = "validate" /\ TunnelEnds))

Spec == Init /\ [][Next]_vars /\ Fairness

-----------------------------------------------------------------------------
(* Properties.                                                              *)

\* The cache lists an endpoint once, the newest first, no more than its cap, and
\* for a carrier only endpoints a run of that carrier chose: whatever runs of
\* either kind, restarts and torn writes came before (lastconn.rs).
RingSound ==
    LET r == saved.recent IN
    /\ Len(r) <= RecentCap
    /\ \A i, j \in 1..Len(r) : r[i] = r[j] => i = j
    /\ Len(r) > 0 => r[1] = saved.peer
    /\ saved.carrier \in Protos =>
         \A p \in {saved.peer} \cup {r[i] : i \in 1..Len(r)} :
            <<saved.carrier, p>> \in used

\* An endpoint is sent to rest only for its own failures: the last MaxFails
\* tunnels went through it, one after another, and each ended early.
RestsForOwnFailures ==
    [][\A k \in Peers \cup Ips :
          resting'[k] > resting[k] =>
            streak.n >= MaxFails /\ streak.peer # None /\ Key(streak.peer) = k]_vars

\* No endpoint holds the run for good: of one it goes back to again and again,
\* either a tunnel stayed up or the run left it, again and again.  A gateway
\* named by hand in a MASQUE run is exempt: it stays whatever happens.
ProvenOrLeft ==
    \A p \in Peers :
        []<>(pc = "validate" /\ last = p /\ (forced = None \/ proto = "wg"))
        => []<>(last # p \/ lasted >= StayedUp)

\* What a scan chooses is not an endpoint that rests: the run excluded it after
\* its tunnels failed in a row.
RestingLeftOut ==
    [][(pc = "pick" /\ pc' = "save" /\ quick = None /\ forced = None /\ peer' # last)
          => ~Resting(peer')]_vars
=============================================================================
