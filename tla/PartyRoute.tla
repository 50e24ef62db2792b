----------------------------- MODULE PartyRoute -----------------------------
(***************************************************************************)
(* Where the characters of a party walk (session.ts, run_pass from the     *)
(* regroup gate to the rally; party.ts; excursion.ts; cross_world.ts).     *)
(* The leader walks back to a party it has left behind, relocates it to a  *)
(* resource, walks to the group it has staged, or roams a step.  A         *)
(* follower hops to the staged group, walks home when it is lost and       *)
(* rallies to the leader.  One follower, the gatherer, leaves for trips to *)
(* another world; it is detached from the party while it is away.          *)
(*                                                                         *)
(* A pass is a step up to the leg it walks and another step at the end of  *)
(* the leg, which arrives or pauses anywhere on the way.  Characters know  *)
(* of each other only the pose published at the start of a pass: a leg may *)
(* take minutes.  Both worlds are lines of positions; whether the travel   *)
(* bank covers a distance is free.  Chores, fights and the cooling down of *)
(* the party are those of Rendezvous.                                      *)
(***************************************************************************)
EXTENDS Integers, FiniteSets

CONSTANTS
  Leader, Followers,
  Gatherer,     \* config.cross_world_gatherer
  Last,         \* the last position of either line; WORLD_CENTER is 0
  Radius,       \* PARTY_RADIUS
  MinStep,      \* REGROUP_MIN_STEP
  Rejoin,       \* REJOIN_RADIUS
  Standoff,     \* RALLY_STANDOFF
  Camps,        \* where the mob groups of the home world are
  Nodes,        \* where its resources are
  Field,        \* where the resource of the other world is
  None

Members == {Leader} \cup Followers
Pos == 0 .. Last

ASSUME RouteAssumption ==
  /\ Leader \notin Followers /\ Gatherer \in Followers
  /\ {Last, Radius, MinStep, Rejoin, Standoff} \subseteq Nat
  /\ 0 < Radius /\ Radius + MinStep <= Rejoin /\ Standoff <= Radius
  /\ Camps \cup Nodes \cup {Field} \subseteq Pos
  /\ None \notin Pos

VARIABLES
  (* the characters *)
  pose,         \* where each one stands
  poses,        \* PartyState.poses: what the others know of it
  world, row,   \* the world of the gatherer: on chain, and in the roster
  leg,          \* the leg each one is walking: what for, and where to
  (* PartyState *)
  target,       \* the staged group; None: the party is idle, or fights
  fighting,     \* who sits in the fight of the party; {}: phase # "active"
  staged, stragglers, detached,
  position,     \* in_position_at_ms: "away", "in", "overdue"
  overdue,      \* STAGE_TIMEOUT_MS has passed
  excursion,    \* where to, and "walking", "dwelling", "over"
  (* the trip of the gatherer *)
  trip,         \* "idle", "outbound", "gathering", "inbound"
  clock,        \* "fresh": the interval, the walk; "late"; "harvest", "done"
  tools         \* it has a resource abroad that it can work

chars == <<pose, poses, world, row, leg>>
stage == <<target, fighting, staged, position, overdue>>
party == <<stage, stragglers, detached, excursion>>
trips == <<trip, clock>>
vars == <<chars, party, trips, tools>>

NoLeg == [for |-> "none", to |-> 0]
NoRoute == [x |-> 0, at |-> "none"]
Walk(m, why, to) == leg' = [leg EXCEPT ![m] = [for |-> why, to |-> to]]
Rest(m) == leg' = [leg EXCEPT ![m] = NoLeg]

Gap(a, b) == IF a < b THEN b - a ELSE a - b
Between(a, b) == IF a < b THEN a .. b ELSE b .. a

---------------------------------------------------------------------------
(* The geometry of a party.                                                *)

Seen == {m \in Followers \ detached : poses[m] # None}

\* The k-th smallest published pose, and the median of party_center.
Ranked(k) == CHOOSE x \in Pos : /\ Cardinality({m \in Seen : poses[m] < x}) < k
                                /\ Cardinality({m \in Seen : poses[m] <= x}) >= k
Centre == LET n == Cardinality(Seen)
          IN  IF n = 0 THEN pose[Leader]
              ELSE IF n % 2 = 1 THEN Ranked((n + 1) \div 2)
              ELSE (Ranked(n \div 2) + Ranked(n \div 2 + 1) + 1) \div 2

\* hop_toward: at most `most` blocks of the way.
HopToward(from, to, most) ==
  IF Gap(from, to) <= most THEN to ELSE IF from < to THEN from + most ELSE from - most

\* regroup_step: the leader strayed; it returns to the rim, not the centre.
Strayed == Gap(pose[Leader], Centre) > Radius + MinStep
Rim == HopToward(pose[Leader], Centre, Gap(pose[Leader], Centre) - Radius)

\* needs_rejoin: nobody asks in which world the two of them are.
Lost(m) == /\ m \notin detached /\ poses[Leader] # None
           /\ Gap(poses[Leader], pose[m]) > Rejoin

\* mark_distant_stragglers.
Distant == {m \in Followers \ detached :
              poses[m] # None /\ Gap(pose[Leader], poses[m]) > Rejoin}

Party == Followers \ (detached \cup stragglers)

---------------------------------------------------------------------------
(* A process starts with the characters wherever the last one left them:    *)
(* a restart between fights is a behaviour of its own, for the program      *)
(* keeps nothing of all this but what the chain and the roster say.         *)
Init ==
  /\ pose \in [Members -> Pos] /\ poses = [m \in Members |-> None]
  /\ world \in {"home", "far"} /\ row = world
  /\ leg = [m \in Members |-> NoLeg]
  /\ target = None /\ fighting = {} /\ staged = {} /\ stragglers = {} /\ detached = {}
  /\ position = "away" /\ overdue = FALSE
  /\ excursion = NoRoute
  /\ trip = "idle" /\ clock = "fresh" /\ tools \in BOOLEAN

ResetRendezvous == /\ target' = None /\ fighting' = {} /\ staged' = {}
                   /\ position' = "away" /\ overdue' = FALSE

Publish(m) == poses' = [poses EXCEPT ![m] = pose[m]]
Free(m) == leg[m].for = "none" /\ m \notin fighting

\* A leg arrives, or pauses where it cannot go on.
EndsAt(m, x) == pose' = [pose EXCEPT ![m] = x] /\ UNCHANGED <<poses, world, row>>
Arrives(m) == EndsAt(m, leg[m].to)
Ends(m) == \E x \in Between(pose[m], leg[m].to) : EndsAt(m, x)

---------------------------------------------------------------------------
(* The leader.                                                             *)

\* roam_once: a bounded step in or out, or none.
MayRoam(x) == \/ Rest(Leader)
              \/ \E to \in Pos \ {x} : Gap(x, to) <= Radius /\ Walk(Leader, "roam", to)

Regroups == /\ Strayed /\ Walk(Leader, "regroup", HopToward(pose[Leader], Rim, Radius))
            /\ UNCHANGED <<stage, stragglers, excursion>>

ExcursionDone == excursion.at = "over"
Travels == excursion.at = "walking"

TravelsOn == /\ Travels /\ Walk(Leader, "excursion", excursion.x)
             /\ UNCHANGED <<stage, stragglers, excursion>>

MayStart_Staging == excursion.at = "none"

\* maybe_start_excursion: a rendezvous already owns the destination.  Whether
\* a need has lasted and the cooldown is over is free.
MayStart == excursion.at = "none" /\ target = None
StartsExcursion ==
  /\ MayStart
  /\ \E x \in Nodes : excursion' = [x |-> x, at |-> "walking"]
  /\ Rest(Leader)
  /\ UNCHANGED <<stage, stragglers>>

\* leader_group_step: stage a group, walk to it, or find nothing and roam.
Stages ==
  /\ target = None
  /\ stragglers' = stragglers \cup Distant
  /\ \/ /\ target' \in Camps /\ staged' = {} /\ position' = "away" /\ overdue' = FALSE
        /\ Rest(Leader)
     \/ UNCHANGED <<target, staged, position, overdue>> /\ MayRoam(pose[Leader])
  /\ UNCHANGED fighting
WalksToGroup == target # None /\ Walk(Leader, "stage", target) /\ UNCHANGED <<stage, stragglers>>
GroupStep == Stages \/ WalksToGroup

\* An excursion that is done is cleared and the pass goes on.
FightsHere ==
  /\ ~Travels /\ GroupStep
  /\ IF ExcursionDone THEN excursion' = NoRoute
                      ELSE UNCHANGED excursion

LeaderPass ==
  /\ Free(Leader) /\ Publish(Leader)
  /\ Regroups \/ (~Strayed /\ (TravelsOn \/ StartsExcursion \/ FightsHere))
  /\ UNCHANGED <<pose, world, row, detached, trips, tools>>

\* The end of a leg that leads to nothing more than another pass.
LegEnds(m, kinds) ==
  /\ leg[m].for \in kinds /\ Ends(m) /\ Rest(m)
  /\ UNCHANGED <<party, trips, tools>>

RegroupArrives == /\ leg[Leader].for = "regroup" /\ Arrives(Leader) /\ Rest(Leader)
                  /\ UNCHANGED <<party, trips, tools>>

ExcursionEnds ==
  /\ leg[Leader].for = "excursion" /\ Ends(Leader) /\ Rest(Leader)
  /\ excursion' = (IF pose'[Leader] = excursion.x THEN [excursion EXCEPT !.at = "dwelling"]
                                                   ELSE excursion)
  /\ UNCHANGED <<stage, stragglers, detached, trips, tools>>

\* leader_group_step after its leg, whether it arrived or paused.  `there`
\* is the straggler clock after its test, `bank` what can_reach answers of
\* the rest of the way.
Pending == Party \ staged
Reaches(x, bank) == x = target \/ bank
There(reach) == IF ~reach THEN "away" ELSE IF position = "away" THEN "in" ELSE position
TooLate(reach) == There(reach) = "overdue" /\ Pending # {}
AllHere(reach) == reach /\ Pending = {}

\* The members that are still missing are written off; the others plan anew.
WritesOff(x) == /\ stragglers' = stragglers \cup Pending /\ ResetRendezvous
                /\ EndsAt(Leader, x) /\ MayRoam(x)

\* engage_target walks the rest; join_many seats everyone or no one.
Engages(x) ==
  /\ UNCHANGED stragglers
  /\ \/ /\ EndsAt(Leader, target) /\ Rest(Leader)
        /\ \E seats \in {{}, Party} : fighting' = {Leader} \cup seats
        /\ target' = None /\ staged' = {} /\ position' = "away" /\ overdue' = FALSE
     \/ EndsAt(Leader, x) /\ ResetRendezvous /\ MayRoam(x)     \* refused

\* Not everyone has arrived: wait on, unless the window has elapsed.
WaitsOn(x, there) ==
  /\ UNCHANGED stragglers /\ EndsAt(Leader, x)
  /\ \/ overdue /\ ResetRendezvous /\ MayRoam(x)
     \/ ~overdue /\ position' = there /\ Rest(Leader) /\ UNCHANGED <<target, fighting, staged, overdue>>

StageEnds_Paused ==
  /\ leg[Leader].for = "stage"
  /\ \E x \in Between(pose[Leader], target) :
       IF x # target THEN EndsAt(Leader, x) /\ Rest(Leader) /\ UNCHANGED <<stage, stragglers>>
       ELSE \/ TooLate(TRUE) /\ WritesOff(x)
            \/ ~TooLate(TRUE) /\ AllHere(TRUE) /\ Engages(x)
            \/ ~TooLate(TRUE) /\ ~AllHere(TRUE) /\ WaitsOn(x, There(TRUE))
  /\ UNCHANGED <<detached, excursion, trips, tools>>

StageEnds ==
  /\ leg[Leader].for = "stage"
  /\ \E x \in Between(pose[Leader], target), bank \in BOOLEAN :
       LET reach == Reaches(x, bank)
       IN  \/ TooLate(reach) /\ WritesOff(x)
           \/ ~TooLate(reach) /\ AllHere(reach) /\ Engages(x)
           \/ ~TooLate(reach) /\ ~AllHere(reach) /\ WaitsOn(x, There(reach))
  /\ UNCHANGED <<detached, excursion, trips, tools>>

\* engage_target answers "traveling": somebody is hurt, or the chain does not
\* prove the leg yet.  The stage timeout is not looked at.
StageHolds ==
  /\ leg[Leader].for = "stage" /\ Pending = {}
  /\ EndsAt(Leader, target) /\ Rest(Leader) /\ position' = There(TRUE)
  /\ UNCHANGED <<target, fighting, staged, overdue, stragglers, detached, excursion, trips, tools>>

---------------------------------------------------------------------------
(* A follower.                                                             *)

MarkStaged(m) == staged' = staged \cup {m} /\ stragglers' = stragglers \ {m}
KeepRest == UNCHANGED <<target, fighting, position, overdue, excursion>>

\* follower_group_step answers null, and the pass goes on to the rejoin gate
\* and the rally.  Whoever comes here is at home according to its row.
Elsewhere(m) == m \in detached \/ (target = None /\ fighting = {})

\* One bounded hop; the last one ends at the group itself.
Hop(m) == Walk(m, IF Gap(pose[m], target) <= Radius THEN "close" ELSE "hop",
               HopToward(pose[m], target, Radius))
Hops(m) ==
  /\ ~Elsewhere(m) /\ fighting = {} /\ m \notin staged
  /\ \/ MarkStaged(m) /\ Rest(m)
     \/ pose[m] # target /\ Hop(m) /\ UNCHANGED <<staged, stragglers>>
Waits(m) == ~Elsewhere(m) /\ (m \in staged \/ fighting # {}) /\ Rest(m) /\ UNCHANGED <<staged, stragglers>>

Rallies(m) ==
  /\ Elsewhere(m) /\ UNCHANGED <<staged, stragglers>>
  /\ IF Lost(m) \/ (poses[Leader] # None /\ Gap(poses[Leader], pose[m]) > Standoff)
     THEN Walk(m, "rally", HopToward(pose[m], poses[Leader], Radius))
     ELSE Rest(m)

\* It is marked for the group it walked to, which may have been given up.
HopEnds(m) ==
  /\ leg[m].for \in {"hop", "close"} /\ Ends(m) /\ Rest(m)
  /\ \/ MarkStaged(m)
     \/ /\ leg[m].for = "close" => pose'[m] # leg[m].to
        /\ UNCHANGED <<staged, stragglers>>
  /\ KeepRest /\ UNCHANGED <<detached, trips, tools>>

---------------------------------------------------------------------------
(* The trip of the gatherer: run_once of cross_world.ts.                   *)

Detach(on) == detached' = (IF on THEN detached \cup {Gatherer} ELSE detached \ {Gatherer})
Joining(w) == Walk(Gatherer, IF w = "far" THEN "go" ELSE "return", 0)

TripOver == trip = "idle" /\ row = "home" /\ (clock = "fresh" \/ ~tools)
StartTrip == /\ trip = "idle" /\ row = "home" /\ clock # "fresh" /\ tools
             /\ trip' = "outbound" /\ clock' = "fresh" /\ Detach(TRUE) /\ Rest(Gatherer)
AbortTrip == /\ trip = "outbound" /\ ~tools
             /\ trip' = "idle" /\ clock' = "late" /\ Detach(FALSE) /\ Rest(Gatherer)
Landed == /\ trip = "outbound" /\ tools /\ row = "far"
          /\ trip' = "gathering" /\ clock' = "fresh" /\ Detach(TRUE) /\ Rest(Gatherer)
GoOut == /\ trip = "outbound" /\ tools /\ row = "home"
         /\ Joining("far") /\ Detach(TRUE) /\ UNCHANGED trips
Rehome == /\ trip = "gathering" /\ (~tools \/ row = "home")
          /\ trip' = "outbound" /\ Detach(TRUE) /\ Rest(Gatherer) /\ UNCHANGED clock
TurnBack == /\ trip = "gathering" /\ tools /\ row = "far" /\ clock \in {"late", "done"}
            /\ trip' = "inbound" /\ Detach(TRUE) /\ Rest(Gatherer) /\ UNCHANGED clock
Harvest == /\ trip = "gathering" /\ tools /\ row = "far" /\ clock \in {"fresh", "harvest"}
           /\ Walk(Gatherer, "field", Field) /\ Detach(TRUE) /\ UNCHANGED trips
BackHome == /\ trip = "inbound" /\ row = "home"
            /\ trip' = "idle" /\ clock' = "fresh" /\ Detach(FALSE) /\ Rest(Gatherer)
GoHome_Inbound == /\ trip = "inbound" /\ row = "far"
                  /\ Joining("home") /\ Detach(TRUE) /\ UNCHANGED trips
\* A process that starts abroad has no trip to resume: it goes home first.
GoHome == /\ trip \in {"inbound", "idle"} /\ row = "far"
          /\ trip' = "inbound" /\ Joining("home") /\ Detach(TRUE) /\ UNCHANGED clock

TripStep == StartTrip \/ AbortTrip \/ Landed \/ GoOut \/ Rehome \/ TurnBack \/ Harvest
            \/ BackHome \/ GoHome

\* join_world: the gate is reached and the chain accepts the join.
Joins(why, w) ==
  /\ leg[Gatherer].for = why /\ Rest(Gatherer)
  /\ pose' = [pose EXCEPT ![Gatherer] = 0] /\ world' = w
  /\ UNCHANGED <<poses, row, party, trips, tools>>

FieldEnds ==
  /\ leg[Gatherer].for = "field" /\ Ends(Gatherer) /\ Rest(Gatherer)
  /\ clock' = (IF pose'[Gatherer] = Field /\ clock \in {"fresh", "late"} THEN "harvest" ELSE clock)
  /\ UNCHANGED <<party, trip, tools>>

FollowerPass(m) ==
  /\ Free(m) /\ Publish(m)
  /\ \/ /\ m = Gatherer /\ TripStep /\ UNCHANGED <<staged, stragglers>>
     \/ /\ m = Gatherer => TripOver
        /\ IF m = Gatherer THEN Detach(FALSE) ELSE UNCHANGED detached
        /\ UNCHANGED trips /\ (Hops(m) \/ Waits(m) \/ Rallies(m))
  /\ KeepRest /\ UNCHANGED <<pose, world, row, tools>>

FollowerStep(m) ==
  \/ FollowerPass(m) \/ HopEnds(m)
  \/ LegEnds(m, {"rally", "go", "return"})
  \/ m = Gatherer /\ FieldEnds

LeaderStep == LeaderPass \/ LegEnds(Leader, {"regroup", "roam"}) \/ ExcursionEnds
              \/ StageEnds \/ StageHolds

---------------------------------------------------------------------------
(* The world around them.                                                  *)

RowCatchesUp == /\ row # world /\ row' = world
                /\ UNCHANGED <<pose, poses, world, leg, party, trips, tools>>

FightOver == /\ fighting # {} /\ ResetRendezvous
             /\ UNCHANGED <<chars, stragglers, detached, excursion, trips, tools>>

Age(clockVar, from, to) == clockVar = from /\ clockVar' = to

GraceOver == /\ Age(position, "in", "overdue")
             /\ UNCHANGED <<chars, target, fighting, staged, overdue, stragglers, detached,
                            excursion, trips, tools>>
StageTimeout == /\ target # None /\ Age(overdue, FALSE, TRUE)
                /\ UNCHANGED <<chars, target, fighting, staged, position, stragglers, detached,
                               excursion, trips, tools>>
RouteTimeout == /\ excursion.at \in {"walking", "dwelling"} /\ excursion' = [excursion EXCEPT !.at = "over"]
                /\ UNCHANGED <<chars, stage, stragglers, detached, trips, tools>>
TripClock == /\ \/ trip \in {"idle", "gathering"} /\ Age(clock, "fresh", "late")
                \/ Age(clock, "harvest", "done")
             /\ UNCHANGED <<chars, party, trip, tools>>

\* A tool is equipped elsewhere, sold or burnt: the target is gone.
ToolsLost == /\ tools /\ tools' = FALSE
             /\ UNCHANGED <<chars, party, trips>>

Clocks == GraceOver \/ StageTimeout \/ RouteTimeout \/ TripClock
Next == \/ LeaderStep \/ \E m \in Followers : FollowerStep(m)
        \/ Joins("go", "far") \/ Joins("return", "home")
        \/ RowCatchesUp \/ FightOver \/ Clocks \/ ToolsLost
Spec == Init /\ [][Next]_vars

(* Fairness.  Every loop goes on and every leg ends; timers fire, fights   *)
(* end and pushes arrive.  Of the legs only those back to the party arrive *)
(* now and then, now and then the gate lets the gatherer through, and an   *)
(* engagement is not held for ever: health regenerates.                    *)
FairSpec ==
  /\ Spec
  /\ WF_vars(LeaderStep) /\ \A m \in Followers : WF_vars(FollowerStep(m))
  /\ SF_vars(RegroupArrives) /\ SF_vars(StageEnds)
  /\ SF_vars(Joins("go", "far")) /\ SF_vars(Joins("return", "home"))
  /\ WF_vars(RowCatchesUp) /\ WF_vars(FightOver) /\ WF_vars(TripClock)
  /\ WF_vars(StageTimeout) /\ WF_vars(RouteTimeout)

---------------------------------------------------------------------------
(* What the party must keep.                                               *)

\* The party has one destination, and the leader walks to it: it stages no
\* group while a resource is its aim (excursion.ts:312-314), and what it walks
\* to is still what the party has agreed on when the leg ends, minutes later,
\* whatever the followers did to the shared state meanwhile.
OneDestination ==
  /\ target # None => ~Travels
  /\ leg[Leader].for = "stage" => leg[Leader].to = target
  /\ leg[Leader].for = "excursion" => target = None /\ leg[Leader].to = excursion.x

\* A staged group is fought or given up, though the legs to it may never
\* arrive (party.ts:544-547): neither the regroup gate, which returns before
\* the checks, nor the hold of an engagement keeps it for ever.
StagingEnds == target # None ~> target = None

\* Every excursion and every trip comes to its end: the party relocates
\* again, and a character in another world, or detached, returns.
RoutesEnd == /\ excursion # NoRoute ~> excursion = NoRoute
             /\ world = "far" \/ Gatherer \in detached
                  ~> world = "home" /\ Gatherer \notin detached
=============================================================================
