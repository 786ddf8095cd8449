------------------------ MODULE TunnelSession_proofs ------------------------
(***************************************************************************)
(* For any set of endpoints, any caps and times, and any sequence of runs, *)
(* stops and crashes, an endpoint is sent to rest only for failures of its *)
(* own, and the cache file of endpoints stays sound however it is cut      *)
(* short.                                                                  *)
(***************************************************************************)
EXTENDS TunnelSession, SequenceTheorems, NaturalsInduction, WellFoundedInduction, TLAPS

(* The types the argument rests on; the cache file is not among them, as   *)
(* what is read from it is only ever an endpoint.                          *)
SessionTypes ==
    /\ proto \in Protos
    /\ forced \in Maybe(Peers) /\ assigned \in Maybe(Peers)
    /\ floor \in [peer : Maybe(Peers), rtt : Nat]
    /\ quick \in Maybe(Peers) /\ last \in Maybe(Peers) /\ peer \in Maybe(Peers)
    /\ fails \in 0..MaxCount
    /\ resting \in [Peers \cup Ips -> 0..Rest]
    /\ streak \in [peer : Maybe(Peers), n : 0..MaxCount]

(* An endpoint has been chosen by the time it is saved, and is the last    *)
(* one while its tunnel is tried and used.                                 *)
ChosenPeer ==
    /\ pc = "save" => peer # None
    /\ pc \in {"validate", "up"} => peer # None /\ peer = last

(* The failures counted are the latest tunnels of the last endpoint.       *)
OwnFailures == fails > 0 => last # None /\ streak.peer = last /\ fails <= streak.n

(* The inductive invariant. *)
SessionInv == SessionTypes /\ ChosenPeer /\ OwnFailures

(* What a step may do to a rest. *)
RestStep ==
    \A k \in Peers \cup Ips :
        resting'[k] > resting[k] =>
            streak.n >= MaxFails /\ streak.peer # None /\ Key(streak.peer) = k

(* The count that saturates stays within its bound, and grows with its     *)
(* argument.                                                               *)
LEMMA CountFacts ==
  ASSUME NEW n \in 0..MaxCount, NEW k \in 0..MaxCount, n <= k
  PROVE  /\ Count(n) \in 0..MaxCount
         /\ Count(n) <= Count(k)
         /\ Count(k) >= 1
  BY SessionAssumption DEF Count

(* A run has begun with no endpoint chosen and no failure counted. *)
LEMMA InitSession == Init => SessionInv
  BY SessionAssumption DEF Init, SessionInv, SessionTypes, ChosenPeer, OwnFailures, Maybe,
     NoFloor, NoStreak

(* The prelude chooses an endpoint at most, and counts nothing. *)
LEMMA PreludeKeeps ==
  ASSUME SessionInv,
         \/ \E ok \in BOOLEAN : VerifyAssigned(ok)
         \/ \E p \in Peers, rtt \in Rtts : QuickReconnect(p, rtt)
         \/ NoQuickReconnect
  PROVE  SessionInv' /\ RestStep
<1>1. ASSUME NEW ok \in BOOLEAN, VerifyAssigned(ok)
      PROVE  SessionInv' /\ resting' = resting
  BY <1>1 DEF VerifyAssigned, cfgVars, SessionInv, SessionTypes, ChosenPeer, OwnFailures, Maybe
<1>2. ASSUME NEW p \in Peers, NEW rtt \in Rtts, QuickReconnect(p, rtt)
      PROVE  SessionInv' /\ resting' = resting
  <2>1. rtt \in Nat
    BY SessionAssumption
  <2>2. SessionTypes'
    BY <1>2, <2>1 DEF QuickReconnect, cfgVars, SessionInv, SessionTypes, Maybe
  <2> QED
    BY <1>2, <2>2 DEF QuickReconnect, SessionInv, ChosenPeer, OwnFailures
<1>3. CASE NoQuickReconnect
  BY <1>3 DEF NoQuickReconnect, cfgVars, SessionInv, SessionTypes, ChosenPeer, OwnFailures, RestStep
<1>4. resting' = resting => RestStep
  BY DEF RestStep, SessionInv, SessionTypes
<1> QED
  BY <1>1, <1>2, <1>3, <1>4

(* Giving up rests the last endpoint, whose failures were counted. *)
LEMMA TopOfLoopKeeps ==
  ASSUME SessionInv, TopOfLoop
  PROVE  SessionInv' /\ RestStep
<1>1. CASE GivesUp
  <2>1. fails >= MaxFails /\ fails > 0
    BY <1>1, SessionAssumption DEF GivesUp, SessionInv, SessionTypes
  <2>2. /\ last \in Peers
        /\ streak.peer = last /\ streak.n >= MaxFails
    BY <2>1, SessionAssumption DEF SessionInv, SessionTypes, OwnFailures, Maybe
  <2>3. Key(last) \in Peers \cup Ips
    BY <2>2, SessionAssumption DEF Key
  <2>4. resting' = [resting EXCEPT ![Key(last)] = Rest]
    BY <1>1, <2>2, SessionAssumption DEF TopOfLoop
  <2>5. Rest \in 0..Rest
    BY SessionAssumption
  <2>6. resting' \in [Peers \cup Ips -> 0..Rest]
    BY <2>3, <2>4, <2>5 DEF SessionInv, SessionTypes
  <2>7. last' = None /\ fails' = 0 /\ pc' = "pick"
    BY <1>1 DEF TopOfLoop
  <2>8. SessionInv'
    BY <2>6, <2>7, SessionAssumption DEF TopOfLoop, cfgVars, SessionInv, SessionTypes, ChosenPeer,
       OwnFailures, Maybe
  <2>9. ASSUME NEW k \in Peers \cup Ips, k # Key(last)
        PROVE  ~ (resting'[k] > resting[k])
    BY <2>4, <2>9 DEF SessionInv, SessionTypes
  <2>10. streak.peer # None
    BY <2>2, SessionAssumption
  <2>11. RestStep
    BY <2>2, <2>9, <2>10 DEF RestStep
  <2> QED
    BY <2>8, <2>11
<1>2. CASE ~ GivesUp
  BY <1>2 DEF TopOfLoop, cfgVars, SessionInv, SessionTypes, ChosenPeer, OwnFailures, RestStep
<1> QED
  BY <1>1, <1>2

(* Whatever way an endpoint is chosen, there is one. *)
LEMMA PickKeeps ==
  ASSUME SessionInv,
         \/ UseQuick \/ RetryLast \/ UseForced \/ NothingUsable
         \/ \E p \in Peers, rtt \in Rtts : Hunt(p, rtt)
  PROVE  SessionInv' /\ RestStep
<1>1. PickUnchanged
  BY DEF UseQuick, RetryLast, UseForced, NothingUsable, Hunt
<1>2. RestStep
  BY <1>1 DEF PickUnchanged, RestStep, SessionInv, SessionTypes
<1>3. ASSUME NEW p \in Peers, NEW rtt \in Rtts, Hunt(p, rtt)
      PROVE  peer' \in Peers /\ quick' = quick /\ pc' = "save"
  <2>1. floor.peer \in Maybe(Peers)
    BY DEF SessionInv, SessionTypes
  <2> QED
    BY <1>3, <2>1 DEF Hunt, ApplyRttFloor, Maybe
<1>4. \/ peer' \in Peers /\ pc' = "save"
      \/ peer' = peer /\ pc' = "sleep"
  BY <1>3 DEF UseQuick, RetryLast, UseForced, NothingUsable, SessionInv, SessionTypes, Maybe
<1>5. quick' \in Maybe(Peers)
  BY <1>3 DEF UseQuick, RetryLast, UseForced, NothingUsable, SessionInv, SessionTypes, Maybe
<1>6. SessionTypes'
  BY <1>1, <1>4, <1>5 DEF PickUnchanged, cfgVars, SessionInv, SessionTypes, Maybe
<1>7. ChosenPeer'
  BY <1>4, SessionAssumption DEF ChosenPeer
<1>8. OwnFailures'
  BY <1>1 DEF PickUnchanged, OwnFailures, SessionInv
<1> QED
  BY <1>2, <1>6, <1>7, <1>8 DEF SessionInv

(* The count starts over with another endpoint. *)
LEMMA SaveKeeps ==
  ASSUME SessionInv, SaveAndUse
  PROVE  SessionInv' /\ RestStep
<1>1. /\ fails' = IF peer = last THEN fails ELSE 0
      /\ last' = peer /\ peer' = peer /\ pc' = "validate" /\ peer # None
      /\ UNCHANGED <<proto, forced, assigned, floor, quick, resting, streak>>
  BY DEF SaveAndUse, FailsFor, cfgVars, SessionInv, ChosenPeer
<1>2. SessionTypes'
  BY <1>1, SessionAssumption DEF SessionInv, SessionTypes
<1>3. ChosenPeer' /\ OwnFailures'
  BY <1>1 DEF SessionInv, SessionTypes, ChosenPeer, OwnFailures
<1>4. RestStep
  BY <1>1 DEF RestStep, SessionInv, SessionTypes
<1> QED
  BY <1>2, <1>3, <1>4 DEF SessionInv

(* A tunnel that ends early adds one to the count and to the streak of its *)
(* endpoint, one that stayed up clears both.                               *)
LEMMA TunnelEndsKeeps ==
  ASSUME SessionInv, TunnelEnds
  PROVE  SessionInv' /\ RestStep
<1>1. /\ peer # None /\ peer = last /\ pc' = "sleep"
      /\ UNCHANGED <<proto, forced, assigned, floor, quick, last, peer, resting>>
  BY DEF TunnelEnds, cfgVars, SessionInv, ChosenPeer
<1>2. RestStep
  BY <1>1 DEF RestStep, SessionInv, SessionTypes
<1>3. CASE lasted >= StayedUp
  <2>1. fails' = 0 /\ streak' = NoStreak
    BY <1>3 DEF TunnelEnds, CountTunnelEnd
  <2>2. SessionTypes'
    BY <1>1, <2>1, SessionAssumption DEF SessionInv, SessionTypes, NoStreak, Maybe
  <2> QED
    BY <1>1, <1>2, <2>1, <2>2 DEF SessionInv, ChosenPeer, OwnFailures
<1>4. CASE ~ (lasted >= StayedUp)
  <2> DEFINE n == IF streak.peer = peer THEN Count(streak.n) ELSE 1
  <2>1. fails' = Count(fails) /\ streak' = [peer |-> peer, n |-> n]
    BY <1>4 DEF TunnelEnds, CountTunnelEnd
  <2>2. fails \in 0..MaxCount /\ streak.n \in 0..MaxCount
    BY DEF SessionInv, SessionTypes
  <2>3. Count(fails) \in 0..MaxCount /\ Count(fails) >= 1
    BY <2>2, CountFacts, SessionAssumption
  <2>4. Count(streak.n) \in 0..MaxCount /\ Count(streak.n) >= 1
    BY <2>2, CountFacts, SessionAssumption
  <2>5. n \in 0..MaxCount /\ n >= 1
    BY <2>4, SessionAssumption
  <2>6. Count(fails) <= n
    <3>1. CASE fails = 0
      BY <3>1, <2>5, SessionAssumption DEF Count
    <3>2. CASE fails > 0
      <4>1. streak.peer = peer /\ fails <= streak.n
        BY <1>1, <3>2 DEF SessionInv, OwnFailures
      <4> QED
        BY <2>2, <4>1, CountFacts
    <3> QED
      BY <2>2, <3>1, <3>2
  <2>7. SessionTypes'
    BY <1>1, <2>1, <2>3, <2>5 DEF SessionInv, SessionTypes
  <2>8. ChosenPeer' /\ OwnFailures'
    BY <1>1, <2>1, <2>6 DEF ChosenPeer, OwnFailures
  <2> QED
    BY <1>2, <2>7, <2>8 DEF SessionInv
<1> QED
  BY <1>3, <1>4

(* Time only shortens a rest. *)
LEMMA TickKeeps ==
  ASSUME SessionInv, Tick
  PROVE  SessionInv' /\ RestStep
<1>1. resting' = [k \in Peers \cup Ips |-> IF resting[k] > 0 THEN resting[k] - 1 ELSE 0]
  BY DEF Tick
<1>2. /\ resting' \in [Peers \cup Ips -> 0..Rest]
      /\ \A k \in Peers \cup Ips : ~ (resting'[k] > resting[k])
  BY <1>1, SessionAssumption DEF SessionInv, SessionTypes
<1>3. UNCHANGED <<proto, forced, assigned, pc, floor, quick, last, peer, fails, streak>>
  BY DEF Tick, cfgVars
<1>4. SessionInv'
  BY <1>2, <1>3 DEF SessionInv, SessionTypes, ChosenPeer, OwnFailures
<1> QED
  BY <1>2, <1>4 DEF RestStep

(* A run that starts again has everything as at first, the floor perhaps   *)
(* excepted.                                                               *)
LEMMA RestartsKeeps ==
  ASSUME SessionInv, NEW same \in BOOLEAN, Restarts(same)
  PROVE  SessionInv' /\ RestStep
<1>1. floor' \in [peer : Maybe(Peers), rtt : Nat]
  BY DEF Restarts, NoFloor, SessionInv, SessionTypes, Maybe
<1>2. SessionInv'
  BY <1>1, SessionAssumption DEF Restarts, SessionInv, SessionTypes, ChosenPeer, OwnFailures, Maybe,
     NoStreak
<1>3. RestStep
  BY SessionAssumption DEF Restarts, RestStep, SessionInv, SessionTypes
<1> QED
  BY <1>2, <1>3

(* Every step keeps the invariant, and rests an endpoint only for its own  *)
(* failures.                                                               *)
LEMMA StepKeeps ==
  ASSUME SessionInv, [Next]_vars
  PROVE  SessionInv' /\ RestStep
<1>1. CASE UNCHANGED vars
  BY <1>1 DEF vars, SessionInv, SessionTypes, ChosenPeer, OwnFailures, RestStep
<1>2. CASE TunnelUp
  <2>1. floor' \in [peer : Maybe(Peers), rtt : Nat]
    BY <1>2 DEF TunnelUp, NoFloor, SessionInv, SessionTypes, Maybe
  <2> QED
    BY <1>2, <2>1 DEF TunnelUp, cfgVars, SessionInv, SessionTypes, ChosenPeer, OwnFailures, RestStep
<1>3. CASE WakeUp
  BY <1>3 DEF WakeUp, cfgVars, SessionInv, SessionTypes, ChosenPeer, OwnFailures, RestStep
<1>4. CASE CrashInSave \/ \E same \in BOOLEAN : Restart(same)
  BY <1>4, RestartsKeeps DEF CrashInSave, Restart
<1> QED
  BY <1>1, <1>2, <1>3, <1>4, PreludeKeeps, TopOfLoopKeeps, PickKeeps, SaveKeeps,
     TunnelEndsKeeps, TickKeeps DEF Next

(* Whatever endpoints answer, fail or lie in the cache, whenever runs stop *)
(* and start, an endpoint rests only after MaxFails tunnels in a row went  *)
(* through it and ended early.                                             *)
THEOREM RestIsEarned == Spec => RestsForOwnFailures
<1>1. Init => SessionInv
  BY InitSession
<1>2. SessionInv /\ [Next]_vars => SessionInv'
  BY StepKeeps
<1>3. SessionInv /\ [Next]_vars => [RestStep]_vars
  BY StepKeeps
<1>4. [RestStep]_vars <=> [\A k \in Peers \cup Ips :
          resting'[k] > resting[k] =>
            streak.n >= MaxFails /\ streak.peer # None /\ Key(streak.peer) = k]_vars
  BY DEF RestStep
<1> QED
  BY <1>1, <1>2, <1>3, <1>4, PTL DEF Spec, RestsForOwnFailures

-----------------------------------------------------------------------------
(* The cache file.                                                         *)

(* Induction on the numbers up to a bound, for a set of numbers. *)
LEMMA CountUp ==
    ASSUME NEW m \in Nat, NEW G, 0 \in G, \A n \in 0..m : n + 1 <= m /\ n \in G => n + 1 \in G
    PROVE  \A n \in 0..m : n \in G
<1> DEFINE Bad == (0..m) \ G
<1>1. SUFFICES ASSUME Bad # {} PROVE FALSE
  OBVIOUS
<1>2. Bad \subseteq Nat
  OBVIOUS
<1> HIDE DEF Bad
<1>3. PICK n \in Bad : \A k \in Bad : ~(<<k, n>> \in OpToRel(<, Nat))
  BY <1>1, <1>2, NatLessThanWellFounded, WFMin
<1>4. n \in 0..m /\ n \notin G /\ n # 0
  BY <1>3 DEF Bad
<1>5. n - 1 \in 0..m /\ (n - 1) + 1 = n /\ n <= m
  BY <1>4
<1>6. n - 1 \in Bad
  BY <1>4, <1>5 DEF Bad
<1>7. n - 1 \in Nat /\ n \in Nat /\ n - 1 < n
  BY <1>4, <1>5
<1>8. <<n - 1, n>> \in OpToRel(<, Nat)
  BY <1>7, Zenon DEF OpToRel
<1> QED
  BY <1>3, <1>6, <1>8

(* One entry of the loop of lastconn::save(), and the whole loop. *)
RingStep(r, e, p) == IF e # p /\ Len(r) < RecentCap THEN Append(r, e) ELSE r

IsRing(r, kept, p, m) ==
    r = [n \in 0..m |-> IF n = 0 THEN <<p>> ELSE RingStep(r[n - 1], kept[n], p)]

(* The loop has a result. *)
LEMMA RingDefined ==
    ASSUME NEW p, NEW kept, Len(kept) \in Nat
    PROVE  \E r : IsRing(r, kept, p, Len(kept)) /\ Ring(kept, p) = r[Len(kept)]
<1> DEFINE m == Len(kept)
           G == {n \in 0..m : \E r : IsRing(r, kept, p, n)}
<1>1. 0 \in G
  <2>1. IsRing([n \in 0..0 |-> <<p>>], kept, p, 0)
    BY DEF IsRing
  <2> QED
    BY <2>1
<1>2. ASSUME NEW n \in 0..m, n + 1 <= m, n \in G PROVE n + 1 \in G
  <2>1. PICK r : IsRing(r, kept, p, n)
    BY <1>2
  <2> DEFINE s == [i \in 0..(n + 1) |->
                     IF i <= n THEN r[i] ELSE RingStep(r[n], kept[n + 1], p)]
  <2>2. ASSUME NEW i \in 0..(n + 1)
        PROVE  s[i] = IF i = 0 THEN <<p>> ELSE RingStep(s[i - 1], kept[i], p)
    <3>1. CASE i = n + 1
      <4>1. i - 1 = n /\ n \in 0..(n + 1) /\ ~(i <= n) /\ i # 0
        BY <3>1
      <4> QED
        BY <3>1, <4>1
    <3>2. CASE i \in 0..n
      <4>1. r[i] = IF i = 0 THEN <<p>> ELSE RingStep(r[i - 1], kept[i], p)
        BY <2>1, <3>2 DEF IsRing
      <4>2. s[i] = r[i] /\ (i # 0 => s[i - 1] = r[i - 1])
        BY <3>2
      <4> QED
        BY <4>1, <4>2
    <3> QED
      BY <3>1, <3>2
  <2>3. DOMAIN s = 0..(n + 1)
    OBVIOUS
  <2>4. IsRing(s, kept, p, n + 1)
    <3>1. s = [i \in 0..(n + 1) |-> s[i]]
      OBVIOUS
    <3> HIDE DEF s
    <3> QED
      BY <2>2, <3>1 DEF IsRing
  <2> QED
    BY <1>2, <2>4
<1> HIDE DEF G
<1>3. m \in G
  <2>1. m \in Nat /\ m \in 0..m
    OBVIOUS
  <2> HIDE DEF m
  <2>2. \A n \in 0..m : n \in G
    BY <1>1, <1>2, <2>1, CountUp
  <2> QED
    BY <2>1, <2>2
<1> DEFINE c == CHOOSE r : IsRing(r, kept, p, m)
<1>4. IsRing(c, kept, p, m)
  BY <1>3, Zenon DEF G
<1>5. Ring(kept, p) = c[m]
  BY DEF Ring, IsRing, RingStep
<1> QED
  BY <1>4, <1>5

(* What lastconn::save() writes: p first, no endpoint twice, no more than  *)
(* the cap, and nothing but p and what was carried over.                   *)
LEMMA RingIsSound ==
    ASSUME NEW p \in Peers, NEW kept \in Seq(Peers),
           \A i, j \in 1..Len(kept) : kept[i] = kept[j] => i = j
    PROVE  LET r == Ring(kept, p) IN
           /\ r \in Seq(Peers) /\ Len(r) \in 1..RecentCap /\ r[1] = p
           /\ \A i, j \in 1..Len(r) : r[i] = r[j] => i = j
           /\ \A i \in 1..Len(r) : r[i] = p \/ \E j \in 1..Len(kept) : r[i] = kept[j]
<1> DEFINE m == Len(kept)
           Sound(r, n) ==
              /\ r \in Seq(Peers) /\ Len(r) \in 1..RecentCap /\ r[1] = p
              /\ \A i, j \in 1..Len(r) : r[i] = r[j] => i = j
              /\ \A i \in 1..Len(r) : r[i] = p \/ \E j \in 1..n : r[i] = kept[j]
<1>0. m \in Nat
  OBVIOUS
<1>1. PICK g : IsRing(g, kept, p, m) /\ Ring(kept, p) = g[m]
  BY <1>0, RingDefined
<1> DEFINE G == {n \in 0..m : Sound(g[n], n)}
<1>2. 0 \in G
  <2>1. g[0] = <<p>>
    BY <1>0, <1>1 DEF IsRing
  <2>2. RecentCap \in Nat \ {0}
    BY SessionAssumption
  <2>3. /\ <<p>> \in Seq(Peers) /\ Len(<<p>>) = 1 /\ <<p>>[1] = p
        /\ 1 \in 1..RecentCap
    BY <2>2
  <2>4. Sound(g[0], 0)
    BY <2>1, <2>3
  <2> QED
    BY <1>0, <2>4
<1>3. ASSUME NEW n \in 0..m, n + 1 <= m, n \in G PROVE n + 1 \in G
  <2> DEFINE r == g[n]  e == kept[n + 1]  s == g[n + 1]
  <2>1. n + 1 \in 1..m /\ n + 1 \in 0..m /\ (n + 1) - 1 = n /\ n + 1 # 0
    BY <1>0, <1>3
  <2>2. s = RingStep(r, e, p)
    BY <1>1, <2>1 DEF IsRing
  <2>3. Sound(r, n)
    BY <1>3
  <2>4. e \in Peers /\ \A j \in 1..n : kept[j] # e
    BY <1>0, <2>1
  <2> HIDE DEF r, e, s
  <2>5. CASE s = r
    BY <2>1, <2>3, <2>5 DEF s
  <2>6. CASE s = Append(r, e) /\ e # p /\ Len(r) < RecentCap
    <3>1. /\ s \in Seq(Peers) /\ Len(s) = Len(r) + 1
          /\ \A i \in 1..Len(r) : s[i] = r[i]
          /\ s[Len(r) + 1] = e
      BY <2>3, <2>4, <2>6, AppendProperties
    <3>2. Len(r) \in Nat /\ Len(r) >= 1 /\ RecentCap \in Nat
      BY <2>3, SessionAssumption
    <3>3. \A i \in 1..Len(r) : r[i] # e
      BY <2>3, <2>4, <2>6
    <3>4. \A i, j \in 1..Len(s) : s[i] = s[j] => i = j
      BY <2>3, <3>1, <3>2, <3>3
    <3>5. \A i \in 1..Len(s) : s[i] = p \/ \E j \in 1..(n + 1) : s[i] = kept[j]
      <4> SUFFICES ASSUME NEW i \in 1..Len(s)
                   PROVE  s[i] = p \/ \E j \in 1..(n + 1) : s[i] = kept[j]
        OBVIOUS
      <4>1. CASE i = Len(r) + 1
        BY <2>1, <3>1, <4>1 DEF e
      <4>2. CASE i \in 1..Len(r)
        BY <2>3, <3>1, <4>2
      <4> QED
        BY <3>1, <3>2, <4>1, <4>2
    <3>6. Sound(s, n + 1)
      BY <2>3, <2>6, <3>1, <3>2, <3>4, <3>5
    <3> QED
      BY <2>1, <3>6 DEF s
  <2> QED
    BY <2>2, <2>5, <2>6 DEF RingStep
<1> HIDE DEF G
<1>4. m \in G
  <2>1. m \in 0..m
    BY <1>0
  <2> HIDE DEF m
  <2>2. \A n \in 0..m : n \in G
    BY <1>0, <1>2, <1>3, CountUp
  <2> QED
    BY <2>1, <2>2
<1> QED
  BY <1>1, <1>4 DEF G

(* What SessionTypes leaves out of the type invariant. *)
FileTypes ==
    /\ forced \in Maybe(Forceable) /\ assigned \in Maybe(Assignable)
    /\ pc \in {"start", "ring", "top", "pick", "save", "validate", "up", "sleep"}
    /\ saved \in [peer : Maybe(Peers), carrier : Protos \cup {""}, recent : Seq(Peers)]
    /\ floor \in [peer : Maybe(Peers), rtt : Rtts \cup {0}]
    /\ lasted \in 0..StayedUp
    /\ used \subseteq Protos \X Peers

(* A file that lost its carrier lost its ring as well: a write is cut      *)
(* short from the end.                                                     *)
TornFile == saved.carrier \notin Protos => saved.recent = <<>>

(* The inductive invariant of the cache file. *)
FileInv == FileTypes /\ TornFile /\ RingSound

(* The three fields of a file. *)
FileType == [peer : Maybe(Peers), carrier : Protos \cup {""}, recent : Seq(Peers)]

(* A file with an endpoint or none, for a carrier or none, and no ring. *)
LEMMA ShortFile ==
    ASSUME NEW p \in Maybe(Peers), NEW c \in Protos \cup {""}
    PROVE  LET x == [peer |-> p, carrier |-> c, recent |-> <<>>] IN
           x \in FileType /\ x.peer = p /\ x.carrier = c /\ x.recent = <<>>
<1>1. <<>> \in Seq(Peers)
  BY EmptySeq
<1> QED
  BY <1>1 DEF FileType

(* RingSound, of any file and any choices made. *)
SoundFile(x, chosen) ==
    /\ Len(x.recent) <= RecentCap
    /\ \A i, j \in 1..Len(x.recent) : x.recent[i] = x.recent[j] => i = j
    /\ Len(x.recent) > 0 => x.recent[1] = x.peer
    /\ x.carrier \in Protos =>
         \A p \in {x.peer} \cup {x.recent[i] : i \in 1..Len(x.recent)} :
            <<x.carrier, p>> \in chosen

(* A file without a ring is sound if its endpoint was chosen. *)
LEMMA ShortFileSound ==
    ASSUME NEW x, NEW chosen, x.recent = <<>>,
           x.carrier \in Protos => <<x.carrier, x.peer>> \in chosen
    PROVE  SoundFile(x, chosen)
<1>1. Len(x.recent) = 0 /\ 1..0 = {} /\ RecentCap \in Nat
  BY SessionAssumption
<1>2. {x.recent[i] : i \in 1..Len(x.recent)} = {}
  BY <1>1
<1> QED
  BY <1>1, <1>2 DEF SoundFile

(* At first there is no file. *)
LEMMA InitFile == Init => FileInv
<1> SUFFICES ASSUME Init PROVE FileInv
  OBVIOUS
<1>1. None \in Maybe(Peers) /\ "" \in Protos \cup {""} /\ "" \notin Protos
  BY DEF Maybe, Protos
<1>2. /\ saved \in FileType
      /\ saved.peer = None /\ saved.carrier = "" /\ saved.recent = <<>>
  BY <1>1, ShortFile DEF Init, NoFile
<1>3. floor \in [peer : Maybe(Peers), rtt : Rtts \cup {0}] /\ 0 \in 0..StayedUp
  <2>1. floor = [peer |-> None, rtt |-> 0]
    BY DEF Init, NoFloor
  <2>2. StayedUp \in Nat
    BY SessionAssumption
  <2>3. 0 \in Rtts \cup {0} /\ None \in Maybe(Peers)
    BY <1>1
  <2>4. [peer |-> None, rtt |-> 0] \in [peer : Maybe(Peers), rtt : Rtts \cup {0}]
    BY <2>3
  <2> QED
    BY <2>1, <2>2, <2>4
<1>4. FileTypes
  BY <1>2, <1>3 DEF Init, FileTypes, FileType
<1>5. TornFile /\ RingSound
  <2>1. SoundFile(saved, used)
    BY <1>1, <1>2, ShortFileSound
  <2> QED
    BY <1>2, <2>1 DEF TornFile, SoundFile, RingSound
<1> QED
  BY <1>4, <1>5 DEF FileInv

(* A file that is not written stays sound, as choices are never forgotten. *)
LEMMA FileKept ==
    ASSUME FileInv, saved' = saved, used \subseteq used'
    PROVE  TornFile' /\ RingSound'
<1>1. TornFile'
  BY DEF FileInv, TornFile
<1>2. RingSound'
  BY DEF FileInv, FileTypes, RingSound
<1> QED
  BY <1>1, <1>2

(* A write of the file keeps it sound: what it carries over was chosen by  *)
(* runs of its own carrier.                                                *)
LEMMA SaveKeepsFile ==
    ASSUME SessionInv, FileInv, pc = "save",
           used' = used \cup {<<proto, peer>>}
    PROVE  /\ used' \subseteq Protos \X Peers
           /\ saved' = SaveRing(saved, peer) =>
                 /\ saved' \in [peer : Maybe(Peers), carrier : Protos \cup {""},
                                recent : Seq(Peers)]
                 /\ TornFile' /\ RingSound'
<1> DEFINE kept == IF saved.carrier \in {"", proto} THEN saved.recent ELSE <<>>
           r == Ring(kept, peer)
<1>0. peer \in Peers /\ proto \in Protos
  BY DEF SessionInv, SessionTypes, ChosenPeer, Maybe
<1>1. used' \subseteq Protos \X Peers
  <2>1. <<proto, peer>> \in Protos \X Peers
    BY <1>0
  <2>2. used \subseteq Protos \X Peers
    BY DEF FileInv, FileTypes
  <2> QED
    BY <2>1, <2>2
<1>2. /\ kept \in Seq(Peers)
      /\ \A i, j \in 1..Len(kept) : kept[i] = kept[j] => i = j
  <2>1. /\ saved.recent \in Seq(Peers)
        /\ \A i, j \in 1..Len(saved.recent) :
              saved.recent[i] = saved.recent[j] => i = j
    BY DEF FileInv, FileTypes, RingSound
  <2>2. <<>> \in Seq(Peers) /\ Len(<<>>) = 0
    OBVIOUS
  <2>3. CASE kept = saved.recent
    <3> HIDE DEF kept
    <3> QED
      BY <2>1, <2>3
  <2>4. CASE kept = <<>>
    <3> HIDE DEF kept
    <3> QED
      BY <2>2, <2>4
  <2> QED
    BY <2>3, <2>4
<1>3. \A i \in 1..Len(kept) : <<proto, kept[i]>> \in used
  <2> SUFFICES ASSUME NEW i \in 1..Len(kept) PROVE <<proto, kept[i]>> \in used
    OBVIOUS
  <2>1. saved.carrier = proto /\ kept = saved.recent
    <3>0. kept # <<>>
      <4> HIDE DEF kept
      <4> QED
        OBVIOUS
    <3>1. saved.carrier \in {"", proto} /\ kept = saved.recent
      BY <3>0
    <3>2. saved.carrier \in Protos
      BY <3>0, <3>1 DEF FileInv, TornFile
    <3> QED
      BY <1>0, <3>1, <3>2 DEF Protos
  <2>2. \A q \in {saved.recent[k] : k \in 1..Len(saved.recent)} :
           <<saved.carrier, q>> \in used
    BY <1>0, <2>1 DEF FileInv, RingSound
  <2>3. kept[i] \in {saved.recent[k] : k \in 1..Len(saved.recent)}
    BY <2>1
  <2> QED
    BY <2>1, <2>2, <2>3
<1> HIDE DEF kept
<1>4. /\ r \in Seq(Peers) /\ Len(r) \in 1..RecentCap /\ r[1] = peer
      /\ \A i, j \in 1..Len(r) : r[i] = r[j] => i = j
      /\ \A i \in 1..Len(r) : r[i] = peer \/ \E j \in 1..Len(kept) : r[i] = kept[j]
  BY <1>0, <1>2, RingIsSound
<1>5. SaveRing(saved, peer) = [peer |-> peer, carrier |-> proto, recent |-> r]
  BY DEF SaveRing, kept
<1> HIDE DEF r
<1>6. ASSUME saved' = SaveRing(saved, peer)
      PROVE  /\ saved' \in [peer : Maybe(Peers), carrier : Protos \cup {""},
                            recent : Seq(Peers)]
             /\ TornFile' /\ RingSound'
  <2>1. saved'.peer = peer /\ saved'.carrier = proto /\ saved'.recent = r
    BY <1>5, <1>6
  <2>2. saved' \in FileType
    <3>1. peer \in Maybe(Peers) /\ proto \in Protos \cup {""} /\ r \in Seq(Peers)
      BY <1>0, <1>4 DEF Maybe
    <3>2. [peer |-> peer, carrier |-> proto, recent |-> r] \in FileType
      BY <3>1 DEF FileType
    <3> QED
      BY <1>5, <1>6, <3>2
  <2>3. TornFile'
    BY <1>0, <2>1 DEF TornFile
  <2>4. ASSUME NEW p \in {peer} \cup {r[i] : i \in 1..Len(r)}
        PROVE  <<proto, p>> \in used'
    BY <1>3, <1>4
  <2>5. Len(r) \in Nat /\ Len(r) <= RecentCap
    BY <1>4, SessionAssumption
  <2>6. RingSound'
    BY <1>4, <2>1, <2>4, <2>5 DEF RingSound
  <2> QED
    BY <2>2, <2>3, <2>6 DEF FileType
<1> QED
  BY <1>1, <1>6

(* Every step keeps the file sound. *)
LEMMA NextKeepsFile == SessionInv /\ FileInv /\ [Next]_vars => FileInv'
<1> SUFFICES ASSUME SessionInv, FileInv, [Next]_vars PROVE FileInv'
  OBVIOUS
<1>0. 0 \in 0..StayedUp
  BY SessionAssumption
<1>1. ASSUME UNCHANGED <<saved, used>>, FileTypes' PROVE FileInv'
  BY <1>1, FileKept DEF FileInv
<1>2. CASE UNCHANGED vars
  BY <1>1, <1>2 DEF vars, FileInv, FileTypes
<1>3. ASSUME NEW ok \in BOOLEAN, VerifyAssigned(ok) PROVE FileInv'
  BY <1>1, <1>3 DEF VerifyAssigned, cfgVars, FileInv, FileTypes
<1>4. ASSUME NEW p \in Peers, NEW rtt \in Rtts, QuickReconnect(p, rtt) PROVE FileInv'
  <2>1. floor' \in [peer : Maybe(Peers), rtt : Rtts \cup {0}]
    BY <1>4 DEF QuickReconnect, FileInv, FileTypes, Maybe
  <2> QED
    BY <1>1, <1>4, <2>1 DEF QuickReconnect, cfgVars, FileInv, FileTypes
<1>5. CASE NoQuickReconnect \/ TopOfLoop \/ WakeUp
  BY <1>1, <1>5 DEF NoQuickReconnect, TopOfLoop, WakeUp, cfgVars, FileInv, FileTypes
<1>6. ASSUME \/ UseQuick \/ RetryLast \/ UseForced \/ NothingUsable
             \/ \E p \in Peers, rtt \in Rtts : Hunt(p, rtt)
      PROVE  FileInv'
  <2>1. PickUnchanged /\ pc' \in {"save", "sleep"}
    BY <1>6 DEF UseQuick, RetryLast, UseForced, NothingUsable, Hunt
  <2> QED
    BY <1>1, <2>1 DEF PickUnchanged, cfgVars, FileInv, FileTypes
<1>7. CASE SaveAndUse
  <2>1. /\ pc = "save" /\ used' = used \cup {<<proto, peer>>}
        /\ saved' = saved \/ saved' = SaveRing(saved, peer)
    BY <1>7 DEF SaveAndUse
  <2>2. used' \subseteq Protos \X Peers /\ used \subseteq used'
    BY <2>1, SaveKeepsFile
  <2>3. /\ saved' \in [peer : Maybe(Peers), carrier : Protos \cup {""}, recent : Seq(Peers)]
        /\ TornFile' /\ RingSound'
    <3>1. CASE saved' = saved
      BY <2>2, <3>1, FileKept DEF FileInv, FileTypes
    <3>2. CASE saved' = SaveRing(saved, peer)
      BY <2>1, <3>2, SaveKeepsFile
    <3> QED
      BY <2>1, <3>1, <3>2
  <2>4. FileTypes'
    BY <1>0, <1>7, <2>2, <2>3 DEF SaveAndUse, cfgVars, FileInv, FileTypes
  <2> QED
    BY <2>3, <2>4 DEF FileInv
<1>8. CASE TunnelUp
  <2>1. floor' \in [peer : Maybe(Peers), rtt : Rtts \cup {0}]
    BY <1>8 DEF TunnelUp, NoFloor, FileInv, FileTypes, Maybe
  <2> QED
    BY <1>1, <1>8, <2>1 DEF TunnelUp, cfgVars, FileInv, FileTypes
<1>9. CASE TunnelEnds
  BY <1>1, <1>9 DEF TunnelEnds, cfgVars, FileInv, FileTypes
<1>10. CASE Tick
  <2>1. lasted' \in 0..StayedUp
    <3>1. lasted \in 0..StayedUp /\ StayedUp \in Nat
      BY SessionAssumption DEF FileInv, FileTypes
    <3>2. lasted' = lasted \/ (lasted < StayedUp /\ lasted' = lasted + 1)
      BY <1>10 DEF Tick
    <3> QED
      BY <3>1, <3>2
  <2> QED
    BY <1>1, <1>10, <2>1 DEF Tick, cfgVars, FileInv, FileTypes
<1>11. ASSUME NEW same \in BOOLEAN, Restarts(same)
       PROVE  /\ forced' \in Maybe(Forceable) /\ assigned' \in Maybe(Assignable)
              /\ pc' = "start" /\ lasted' \in 0..StayedUp
              /\ floor' \in [peer : Maybe(Peers), rtt : Rtts \cup {0}]
  BY <1>0, <1>11 DEF Restarts, NoFloor, FileInv, FileTypes, Maybe
<1>12. ASSUME NEW same \in BOOLEAN, Restart(same) PROVE FileInv'
  BY <1>1, <1>11, <1>12 DEF Restart, FileInv, FileTypes
<1>13. CASE CrashInSave
  <2>1. /\ pc = "save" /\ used' = used \cup {<<proto, peer>>}
        /\ Restarts(FALSE)
    BY <1>13 DEF CrashInSave
  <2>2. used' \subseteq Protos \X Peers
    BY <2>1, SaveKeepsFile
  <2>3. peer \in Peers /\ proto \in Protos
    BY <2>1 DEF SessionInv, SessionTypes, ChosenPeer, Maybe
  <2>4. PICK p \in {None, peer}, c \in {"", proto} :
           /\ c = proto => p = peer
           /\ saved' = [peer |-> p, carrier |-> c, recent |-> <<>>]
    BY <1>13, <2>3 DEF CrashInSave, NoFile, SaveRing, Protos
  <2>5. p \in Maybe(Peers) /\ c \in Protos \cup {""} /\ "" \notin Protos
    BY <2>3 DEF Maybe, Protos
  <2>6. /\ saved' \in FileType /\ saved'.recent = <<>>
        /\ saved'.carrier \in Protos => saved'.peer = peer /\ saved'.carrier = proto
    BY <2>4, <2>5, ShortFile
  <2>7. TornFile'
    BY <2>6 DEF TornFile
  <2>8. RingSound'
    <3>1. saved'.carrier \in Protos => <<saved'.carrier, saved'.peer>> \in used'
      BY <2>1, <2>6
    <3>2. SoundFile(saved', used')
      BY <2>6, <3>1, ShortFileSound
    <3> QED
      BY <3>2 DEF SoundFile, RingSound
  <2>9. FileTypes'
    BY <1>11, <2>1, <2>2, <2>6 DEF FileTypes, FileType
  <2> QED
    BY <2>7, <2>8, <2>9 DEF FileInv
<1> QED
  BY <1>2, <1>3, <1>4, <1>5, <1>6, <1>7, <1>8, <1>9, <1>10, <1>12, <1>13 DEF Next

(* Both invariants hold throughout. *)
LEMMA SessionInvHolds == Spec => [](SessionInv /\ FileInv)
<1>1. SessionInv /\ [Next]_vars => SessionInv'
  BY StepKeeps
<1> QED
  BY <1>1, InitSession, InitFile, NextKeepsFile, PTL DEF Spec

(* The state of a run is well formed, whatever the file held and whenever  *)
(* it was cut short.                                                       *)
THEOREM SessionTypeCorrect == Spec => []TypeOK
<1>1. SessionInv /\ FileInv => TypeOK
  BY DEF SessionInv, SessionTypes, FileInv, FileTypes, TypeOK
<1> QED
  BY <1>1, SessionInvHolds, PTL

(* The cache that lastconn::save() keeps lists no endpoint twice, starts   *)
(* with the newest, stays within RECENT_CAP and never hands a run an       *)
(* endpoint that only runs of the other carrier chose.                     *)
THEOREM RingStaysSound == Spec => []RingSound
<1>1. FileInv => RingSound
  BY DEF FileInv
<1> QED
  BY <1>1, SessionInvHolds, PTL

=============================================================================
