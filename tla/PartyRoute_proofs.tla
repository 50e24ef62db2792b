------------------------- MODULE PartyRoute_proofs -------------------------
(***************************************************************************)
(* Proofs about PartyRoute, for any party, any two worlds, any camps and   *)
(* resources, and any radii.                                               *)
(***************************************************************************)
EXTENDS PartyRoute, TLAPS

(* The inductive invariant, in named parts. *)

(* The shared state is about the followers, and about one gatherer. *)
PartyTyped ==
  /\ leg = [m \in Members |-> leg[m]] /\ fighting \subseteq Members
  /\ detached \subseteq {Gatherer}
  /\ excursion \in [x : Pos, at : {"none", "walking", "dwelling", "over"}]

(* A fight of the party has the leader in it, who has no destination then and
   walks nowhere. *)
FightOwnsLeader ==
  fighting # {} => Leader \in fighting /\ target = None /\ leg[Leader].for = "none"

(* The gatherer walks for another world only while it is detached, and no
   fight seats it then.  A fight may seat it on a leg of the party: not on one
   of a trip. *)
TripLegs == {"go", "field", "return"}
AwayIsDetached ==
  /\ leg[Gatherer].for \in TripLegs => Gatherer \in detached
  /\ Gatherer \in detached => Gatherer \notin fighting

(* The leader walks to a group only while one is staged. *)
StageLegHasTarget == leg[Leader].for = "stage" => target # None

IInv == PartyTyped /\ FightOwnsLeader /\ AwayIsDetached /\ StageLegHasTarget /\ OneDestination

-----------------------------------------------------------------------------
USE DEF vars, chars, stage, party, trips

LEMMA ConstantsTyped ==
  /\ Leader \in Members /\ Gatherer \in Members /\ Leader # Gatherer
  /\ Leader \notin Followers /\ Followers \subseteq Members
  /\ 0 \in Pos /\ Nodes \subseteq Pos /\ Camps \subseteq Pos /\ None \notin Pos
  BY RouteAssumption DEF Members, Pos

LEMMA InitEstablishesIInv == Init => IInv
<1> SUFFICES ASSUME Init PROVE IInv
  OBVIOUS
<1>1. \A m \in Members : leg[m] = NoLeg
  BY DEF Init
<1>2. PartyTyped
  BY <1>1, ConstantsTyped DEF Init, PartyTyped, NoRoute
<1>3. FightOwnsLeader /\ AwayIsDetached /\ StageLegHasTarget /\ OneDestination
  BY <1>1, ConstantsTyped DEF Init, FightOwnsLeader, AwayIsDetached, TripLegs,
     StageLegHasTarget, OneDestination, NoLeg
<1> QED
  BY <1>2, <1>3 DEF IInv

(* The case analysis on a step, used by the lemmas below. *)
LEMMA NextCases ==
  ASSUME [Next]_vars
  PROVE  \/ LeaderPass \/ LegEnds(Leader, {"regroup", "roam"}) \/ ExcursionEnds
         \/ StageEnds \/ StageHolds
         \/ \E m \in Followers : FollowerPass(m) \/ HopEnds(m) \/ LegEnds(m, {"rally", "go", "return"})
         \/ FieldEnds \/ Joins("go", "far") \/ Joins("return", "home")
         \/ RowCatchesUp \/ FightOver \/ GraceOver \/ StageTimeout \/ RouteTimeout \/ TripClock
         \/ ToolsLost \/ UNCHANGED vars
  BY Zenon DEF Next, LeaderStep, FollowerStep, Clocks

-----------------------------------------------------------------------------
(* The legs. *)

(* Whoever rests or sets out, nobody else's leg changes. *)
LEMMA WalkSets ==
  ASSUME PartyTyped, NEW m \in Members, NEW why, NEW to, Walk(m, why, to)
  PROVE  /\ leg' = [n \in Members |-> leg'[n]]
         /\ leg'[m].for = why /\ leg'[m].to = to
         /\ \A n \in Members \ {m} : leg'[n] = leg[n]
  BY DEF PartyTyped, Walk

LEMMA RestSets ==
  ASSUME PartyTyped, NEW m \in Members, Rest(m)
  PROVE  /\ leg' = [n \in Members |-> leg'[n]]
         /\ leg'[m].for = "none"
         /\ \A n \in Members \ {m} : leg'[n] = leg[n]
  BY DEF PartyTyped, Rest, NoLeg

(* The leader roams or rests: it has no destination. *)
LEMMA RoamSets ==
  ASSUME PartyTyped, NEW x, MayRoam(x)
  PROVE  /\ leg' = [n \in Members |-> leg'[n]]
         /\ leg'[Leader].for \in {"none", "roam"}
         /\ \A n \in Members \ {Leader} : leg'[n] = leg[n]
  BY ConstantsTyped, WalkSets, RestSets DEF MayRoam

-----------------------------------------------------------------------------
(* A follower. *)

(* It leaves the leader's leg and the destination of the party alone. *)
LEMMA OthersKeepDestination ==
  ASSUME IInv, leg' = [m \in Members |-> leg'[m]], leg'[Leader] = leg[Leader],
         UNCHANGED <<target, fighting, excursion>>, detached' \subseteq {Gatherer},
         AwayIsDetached'
  PROVE  IInv'
  BY DEF IInv, PartyTyped, FightOwnsLeader, StageLegHasTarget, OneDestination, Travels

(* The gatherer is detached as soon as it sets out, by the same pass. *)
LEMMA TripKeepsAway ==
  ASSUME IInv, Free(Gatherer), TripStep, UNCHANGED fighting
  PROVE  /\ leg' = [m \in Members |-> leg'[m]] /\ leg'[Leader] = leg[Leader]
         /\ detached' \subseteq {Gatherer} /\ AwayIsDetached'
<1>1. \/ Gatherer \in detached' /\ detached' = detached \cup {Gatherer}
      \/ detached' = detached \ {Gatherer} /\ Rest(Gatherer)
  BY DEF TripStep, StartTrip, AbortTrip, Landed, GoOut, Rehome, TurnBack, Harvest, BackHome,
         GoHome, Detach
<1>2. Rest(Gatherer) \/ \E why \in TripLegs : \E to : Walk(Gatherer, why, to)
  BY DEF TripStep, StartTrip, AbortTrip, Landed, GoOut, Rehome, TurnBack, Harvest, BackHome,
         GoHome, Joining, TripLegs
<1>3. /\ leg' = [m \in Members |-> leg'[m]] /\ leg'[Leader] = leg[Leader]
      /\ Rest(Gatherer) => leg'[Gatherer].for = "none"
  BY <1>2, ConstantsTyped, RestSets, WalkSets DEF IInv
<1>4. Gatherer \notin fighting'
  BY DEF Free
<1> QED
  BY <1>1, <1>3, <1>4 DEF IInv, PartyTyped, AwayIsDetached, TripLegs

LEMMA FollowerPassKeepsIInv ==
  ASSUME IInv, NEW m \in Followers, FollowerPass(m)
  PROVE  IInv'
<1>0. UNCHANGED <<target, fighting, excursion>> /\ Free(m)
  BY DEF FollowerPass, KeepRest
<1>1. CASE m = Gatherer /\ TripStep
  BY <1>0, <1>1, TripKeepsAway, OthersKeepDestination
<1>2. CASE /\ m = Gatherer => TripOver
           /\ IF m = Gatherer THEN Detach(FALSE) ELSE UNCHANGED detached
           /\ Hops(m) \/ Waits(m) \/ Rallies(m)
  <2>1. Rest(m) \/ \E why \in {"close", "hop", "rally"} : \E to : Walk(m, why, to)
    BY <1>2, Zenon DEF Hops, Hop, Waits, Rallies
  <2>2. /\ leg' = [n \in Members |-> leg'[n]] /\ leg'[m].for \notin TripLegs
        /\ \A n \in Members \ {m} : leg'[n] = leg[n]
    <3>1. CASE Rest(m)
      BY <3>1, ConstantsTyped, RestSets DEF IInv, TripLegs
    <3>2. CASE \E why \in {"close", "hop", "rally"} : \E to : Walk(m, why, to)
      BY <3>2, ConstantsTyped, WalkSets DEF IInv, TripLegs
    <3> QED
      BY <2>1, <3>1, <3>2
  <2>3. AwayIsDetached' /\ detached' \subseteq {Gatherer}
    <3>1. CASE m = Gatherer
      BY <1>2, <2>2, <3>1 DEF Detach, AwayIsDetached, IInv, PartyTyped
    <3>2. CASE m # Gatherer
      BY <1>0, <1>2, <2>2, <3>2, ConstantsTyped DEF AwayIsDetached, IInv, PartyTyped
    <3> QED
      BY <3>1, <3>2
  <2> QED
    BY <1>0, <2>2, <2>3, ConstantsTyped, OthersKeepDestination
<1> QED
  BY <1>1, <1>2, Zenon DEF FollowerPass

(* The end of a leg of a follower, whatever it has marked. *)
LEMMA FollowerRests ==
  ASSUME IInv, NEW m \in Followers, Rest(m),
         UNCHANGED <<target, fighting, excursion, detached>>
  PROVE  IInv'
<1>1. /\ leg' = [n \in Members |-> leg'[n]] /\ leg'[m].for = "none"
      /\ \A n \in Members \ {m} : leg'[n] = leg[n]
  BY ConstantsTyped, RestSets DEF IInv
<1>2. AwayIsDetached'
  BY <1>1, ConstantsTyped DEF AwayIsDetached, IInv, TripLegs
<1> QED
  BY <1>1, <1>2, ConstantsTyped, OthersKeepDestination DEF IInv, PartyTyped

-----------------------------------------------------------------------------
(* The leader. *)

(* What has to be shown of a step of the leader: it leaves the gatherer's leg
   and the detached alone, and seats nobody who is detached. *)
LEMMA LeaderKeepsRest ==
  ASSUME IInv, leg' = [m \in Members |-> leg'[m]],
         \A m \in Members \ {Leader} : leg'[m] = leg[m], UNCHANGED detached,
         fighting' \in {{}, fighting} \/ fighting' \subseteq {Leader} \cup Party,
         excursion' \in [x : Pos, at : {"none", "walking", "dwelling", "over"}]
  PROVE  PartyTyped' /\ AwayIsDetached'
  BY ConstantsTyped DEF IInv, PartyTyped, AwayIsDetached, Party, Members

LEMMA LeaderPassKeepsIInv ==
  ASSUME IInv, LeaderPass
  PROVE  IInv'
<1>0. /\ fighting = {} /\ UNCHANGED <<detached, fighting>>
      /\ Leader \in Members /\ PartyTyped /\ ~ (target # None /\ Travels)
  BY ConstantsTyped DEF LeaderPass, Free, IInv, FightOwnsLeader, Regroups, TravelsOn, StartsExcursion,
     FightsHere, GroupStep, Stages, WalksToGroup, OneDestination
<1>1. CASE Regroups
  <2>1. UNCHANGED <<target, excursion>> /\ \E to : Walk(Leader, "regroup", to)
    BY <1>1 DEF Regroups
  <2>2. /\ leg' = [m \in Members |-> leg'[m]] /\ leg'[Leader].for = "regroup"
        /\ \A m \in Members \ {Leader} : leg'[m] = leg[m]
    BY <1>0, <2>1, WalkSets
  <2>3. PartyTyped' /\ AwayIsDetached'
    BY <1>0, <2>1, <2>2, LeaderKeepsRest DEF PartyTyped
  <2> QED
    BY <1>0, <2>1, <2>2, <2>3 DEF IInv, FightOwnsLeader, StageLegHasTarget, OneDestination, Travels
<1>2. CASE TravelsOn
  <2>1. UNCHANGED <<target, excursion>> /\ Travels /\ target = None
    BY <1>0, <1>2 DEF TravelsOn
  <2>2. /\ leg' = [m \in Members |-> leg'[m]]
        /\ leg'[Leader].for = "excursion" /\ leg'[Leader].to = excursion.x
        /\ \A m \in Members \ {Leader} : leg'[m] = leg[m]
    BY <1>0, <1>2, WalkSets DEF TravelsOn
  <2>3. PartyTyped' /\ AwayIsDetached'
    BY <1>0, <2>1, <2>2, LeaderKeepsRest DEF PartyTyped
  <2> QED
    BY <1>0, <2>1, <2>2, <2>3 DEF IInv, FightOwnsLeader, StageLegHasTarget, OneDestination, Travels
<1>3. CASE StartsExcursion
  <2>1. target = None /\ target' = None /\ Rest(Leader)
        /\ excursion' \in [x : Pos, at : {"none", "walking", "dwelling", "over"}]
    BY <1>3, ConstantsTyped DEF StartsExcursion, MayStart
  <2>2. /\ leg' = [m \in Members |-> leg'[m]] /\ leg'[Leader].for = "none"
        /\ \A m \in Members \ {Leader} : leg'[m] = leg[m]
    BY <1>0, <2>1, RestSets
  <2>3. PartyTyped' /\ AwayIsDetached'
    BY <1>0, <2>1, <2>2, LeaderKeepsRest
  <2> QED
    BY <1>0, <2>1, <2>2, <2>3 DEF IInv, FightOwnsLeader, StageLegHasTarget, OneDestination
<1>4. CASE FightsHere
  <2>1. /\ excursion' \in [x : Pos, at : {"none", "walking", "dwelling", "over"}]
        /\ ~ Travels'
    BY <1>0, <1>4, ConstantsTyped DEF FightsHere, Travels, NoRoute, PartyTyped
  <2>2. CASE WalksToGroup
    <3>1. target' = target /\ target # None
      BY <2>2 DEF WalksToGroup
    <3>2. /\ leg' = [m \in Members |-> leg'[m]]
          /\ leg'[Leader].for = "stage" /\ leg'[Leader].to = target
          /\ \A m \in Members \ {Leader} : leg'[m] = leg[m]
      BY <1>0, <2>2, WalkSets DEF WalksToGroup
    <3>3. PartyTyped' /\ AwayIsDetached'
      BY <1>0, <2>1, <3>2, LeaderKeepsRest
    <3> QED
      BY <1>0, <2>1, <3>1, <3>2, <3>3 DEF IInv, FightOwnsLeader, StageLegHasTarget, OneDestination
  <2>3. CASE Stages
    <3>1. /\ leg' = [m \in Members |-> leg'[m]] /\ leg'[Leader].for \in {"none", "roam"}
          /\ \A m \in Members \ {Leader} : leg'[m] = leg[m]
      BY <1>0, <2>3, RestSets, RoamSets DEF Stages
    <3>2. PartyTyped' /\ AwayIsDetached'
      BY <1>0, <2>1, <3>1, LeaderKeepsRest
    <3> QED
      BY <1>0, <2>1, <3>1, <3>2 DEF IInv, FightOwnsLeader, StageLegHasTarget, OneDestination
  <2> QED
    BY <1>4, <2>2, <2>3 DEF FightsHere, GroupStep
<1> QED
  BY <1>1, <1>2, <1>3, <1>4 DEF LeaderPass

(* The end of a leg of the leader that changes no destination. *)
LEMMA LeaderRests ==
  ASSUME IInv, Rest(Leader), UNCHANGED <<detached, fighting, target, excursion>>
  PROVE  IInv'
<1>1. /\ leg' = [m \in Members |-> leg'[m]] /\ leg'[Leader].for = "none"
      /\ \A m \in Members \ {Leader} : leg'[m] = leg[m]
  BY ConstantsTyped, RestSets DEF IInv
<1>2. PartyTyped' /\ AwayIsDetached'
  BY <1>1, LeaderKeepsRest DEF IInv, PartyTyped
<1> QED
  BY <1>1, <1>2 DEF IInv, FightOwnsLeader, StageLegHasTarget, OneDestination, Travels

LEMMA ExcursionEndsKeepsIInv ==
  ASSUME IInv, ExcursionEnds
  PROVE  IInv'
<1>1. /\ leg' = [m \in Members |-> leg'[m]] /\ leg'[Leader].for = "none"
      /\ \A m \in Members \ {Leader} : leg'[m] = leg[m]
  BY ConstantsTyped, RestSets DEF IInv, ExcursionEnds
<1>2. /\ excursion' \in [x : Pos, at : {"none", "walking", "dwelling", "over"}]
      /\ target' = target /\ target = None
  BY DEF ExcursionEnds, IInv, PartyTyped, OneDestination
<1>3. PartyTyped' /\ AwayIsDetached'
  BY <1>1, <1>2, LeaderKeepsRest DEF ExcursionEnds
<1> QED
  BY <1>1, <1>2, <1>3 DEF ExcursionEnds, IInv, FightOwnsLeader, StageLegHasTarget, OneDestination

LEMMA StageEndsKeepsIInv ==
  ASSUME IInv, StageEnds
  PROVE  IInv'
<1>0. /\ fighting = {} /\ target # None /\ ~ Travels
      /\ UNCHANGED <<detached, excursion>> /\ Leader \in Members /\ PartyTyped
  BY ConstantsTyped DEF StageEnds, IInv, StageLegHasTarget, FightOwnsLeader, OneDestination
(* However the leg ends, the leader rests or roams, and the destination is
   the same or none. *)
<1>1. \/ \E x : MayRoam(x) /\ target' = None /\ fighting' = {}
      \/ Rest(Leader) /\ target' = None /\ \E seats \in {{}, Party} : fighting' = {Leader} \cup seats
      \/ Rest(Leader) /\ UNCHANGED <<target, fighting>>
  BY Zenon DEF StageEnds, WritesOff, Engages, WaitsOn, ResetRendezvous
<1>2. /\ leg' = [m \in Members |-> leg'[m]] /\ leg'[Leader].for \in {"none", "roam"}
      /\ \A m \in Members \ {Leader} : leg'[m] = leg[m]
      /\ fighting' # {} => leg'[Leader].for = "none"
  <2>1. CASE \E x : MayRoam(x) /\ fighting' = {}
    BY <1>0, <2>1, RoamSets
  <2>2. CASE Rest(Leader)
    BY <1>0, <2>2, RestSets
  <2> QED
    BY <1>1, <2>1, <2>2
<1>3. fighting' \in {{}, fighting} \/ fighting' \subseteq {Leader} \cup Party
  BY <1>1
<1>4. PartyTyped' /\ AwayIsDetached'
  BY <1>0, <1>2, <1>3, LeaderKeepsRest DEF PartyTyped
<1>5. target' = None \/ (target' = target /\ fighting' = {})
  BY <1>0, <1>1
<1>6. fighting' # {} => Leader \in fighting'
  BY <1>0, <1>1
<1> QED
  BY <1>0, <1>2, <1>4, <1>5, <1>6
  DEF IInv, FightOwnsLeader, StageLegHasTarget, OneDestination, Travels

-----------------------------------------------------------------------------
LEMMA NextKeepsIInv == IInv /\ [Next]_vars => IInv'
<1> SUFFICES ASSUME IInv, [Next]_vars PROVE IInv'
  OBVIOUS
<1>1. CASE LegEnds(Leader, {"regroup", "roam"}) \/ StageHolds
  BY <1>1, LeaderRests DEF LegEnds, StageHolds
<1>2. ASSUME NEW m \in Followers, HopEnds(m) \/ LegEnds(m, {"rally", "go", "return"})
      PROVE  IInv'
  BY <1>2, FollowerRests DEF HopEnds, KeepRest, LegEnds
<1>3. CASE FieldEnds \/ Joins("go", "far") \/ Joins("return", "home")
  BY <1>3, FollowerRests, RouteAssumption DEF FieldEnds, Joins
<1>4. CASE UNCHANGED <<leg, target, fighting, excursion, detached>>
  BY <1>4 DEF IInv, PartyTyped, FightOwnsLeader, AwayIsDetached, StageLegHasTarget, OneDestination, Travels
<1>5. CASE FightOver
  <2>1. leg[Leader].for = "none" /\ target' = None /\ fighting' = {}
    BY <1>5 DEF FightOver, ResetRendezvous, IInv, FightOwnsLeader
  <2> QED
    BY <1>5, <2>1
    DEF FightOver, IInv, PartyTyped, FightOwnsLeader, AwayIsDetached, StageLegHasTarget, OneDestination
<1>6. CASE RouteTimeout
  BY <1>6 DEF RouteTimeout, IInv, PartyTyped, FightOwnsLeader, AwayIsDetached, StageLegHasTarget,
     OneDestination, Travels
<1> QED
  BY <1>1, <1>2, <1>3, <1>4, <1>5, <1>6, NextCases, LeaderPassKeepsIInv, ExcursionEndsKeepsIInv,
     StageEndsKeepsIInv, FollowerPassKeepsIInv
  DEF RowCatchesUp, GraceOver, StageTimeout, TripClock, ToolsLost

(* The invariant is inductive: wherever the members are on their ways, no step,
   clock, packet or restart breaks it. *)
THEOREM IInvHolds == Spec => []IInv
<1> QED
  BY InitEstablishesIInv, NextKeepsIInv, PTL DEF Spec

(* The party has one destination: the leader stages no group while it
   travels, and the end of a leg finds the destination it was begun for. *)
THEOREM DestinationIsOne == Spec => []OneDestination
<1>1. IInv => OneDestination
  BY DEF IInv
<1> QED
  BY <1>1, IInvHolds, PTL

(* Only a detached gatherer is on its way to, in, or back from the fields of
   another world, and no fight of the party seats one that is detached. *)
THEOREM TravellerIsDetached == Spec => []AwayIsDetached
<1>1. IInv => AwayIsDetached
  BY DEF IInv
<1> QED
  BY <1>1, IInvHolds, PTL
=============================================================================
