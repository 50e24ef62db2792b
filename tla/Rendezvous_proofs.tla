------------------------- MODULE Rendezvous_proofs -------------------------
(***************************************************************************)
(* Proofs about Rendezvous, for any party, any groups and any number of    *)
(* failures and restarts.                                                  *)
(***************************************************************************)
EXTENDS Rendezvous, TLAPS

(* The inductive invariant, in named parts. *)

(* Only the leader plans, and it is where the phase says. *)
LeaderPlans ==
  /\ \A m \in Followers : pc[m] \notin Planning
  /\ pc[Leader] = "screening" => phase = "idle"
  /\ pc[Leader] \in {"walking", "engaging", "joining"} => phase = "staging"

(* A fight whose engage was answered is known to the party: its opener is
   still joining the others, the party counts it as active and waits for it
   to show, or the projection shows it. *)
FightIsKnown ==
  fight # "none" /\ ~ unanswered =>
    /\ Leader \in seats
    /\ \/ pc[Leader] = "joining"
       \/ phase = "active" /\ active_fresh
       \/ view # "none"

IInv == TypeOK /\ LeaderPlans /\ BarrierHolds /\ FightIsKnown /\ PlansOnlyWhenFree

-----------------------------------------------------------------------------
USE DEF vars, party_vars, clock_vars, pass_vars, world_vars, Planning, Working, Followers

(* Nothing is planned, run or fought at the start. *)
LEMMA InitEstablishesIInv == Init => IInv
<1> SUFFICES ASSUME Init PROVE IInv
  OBVIOUS
<1>1. TypeOK
  <2>1. NobodyStaged \in [Followers -> Groups \cup {NoGroup}]
    BY DEF NobodyStaged
  <2>2. [m \in Members |-> "top"] \in [Members -> Planning \cup Working]
    OBVIOUS
  <2>3. 0 \in 0 .. MaxFailures /\ 0 \in 0 .. MaxRestarts
    BY PartyAssumption
  <2> QED
    BY <2>1, <2>2, <2>3 DEF Init, TypeOK, PartyTypes, ClockTypes, PassTypes, WorldTypes
<1>2. LeaderPlans
  BY PartyAssumption DEF Init, LeaderPlans
<1>3. BarrierHolds
  BY PartyAssumption DEF Init, BarrierHolds
<1>4. FightIsKnown /\ PlansOnlyWhenFree
  BY DEF Init, FightIsKnown, PlansOnlyWhenFree
<1> QED
  BY <1>1, <1>2, <1>3, <1>4 DEF IInv

-----------------------------------------------------------------------------
(* The case analysis on a step, used by each of the lemmas below. *)
LEMMA NextCases ==
  ASSUME [Next]_vars
  PROVE  \/ Clock \/ Project \/ FightEnds
         \/ \E m \in Members : \/ SettleBegin(m) \/ SettleLands(m) \/ SettleFails(m)
                               \/ SettleAnswers(m) \/ SettleLate(m)
         \/ Detach \/ ResumeTrip \/ Return
         \/ \E m \in Members : Beat(m) \/ ChoreBegin(m) \/ ChoreEnd(m)
         \/ ScreenBegin \/ ScreenEnd \/ WalkBegin \/ WalkEnd
         \/ EngageWaits \/ EngageFails \/ Engaged \/ JoinEnd
         \/ \E m \in Members : ClearFinished(m)
         \/ \E m \in Followers : StageHere(m) \/ HopBegin(m) \/ HopEnd(m)
         \/ Restart
         \/ UNCHANGED vars
  BY Zenon DEF Next, LeaderStep, FollowerStep, MemberStep

(* reset_rendezvous leaves a well-formed idle party. *)
LEMMA ResetTyped ==
  ASSUME ResetRendezvous
  PROVE  /\ phase' = "idle" /\ target' = NoGroup
         /\ staged' \in [Followers -> Groups \cup {NoGroup}]
         /\ position' = "away" /\ stage_overdue' = FALSE /\ active_fresh' = FALSE
  BY DEF ResetRendezvous, NobodyStaged

(* A member moves on to another await. *)
LEMMA GoesTyped ==
  ASSUME PassTypes, NEW m \in Members, NEW where \in Planning \cup Working, Goes(m, where)
  PROVE  pc' \in [Members -> Planning \cup Working]
  BY DEF PassTypes, Goes

(* What a step leaves alone keeps its type. *)
LEMMA KeptTypes ==
  /\ PartyTypes /\ UNCHANGED party_vars => PartyTypes'
  /\ ClockTypes /\ UNCHANGED clock_vars => ClockTypes'
  /\ PassTypes /\ UNCHANGED pass_vars => PassTypes'
  /\ WorldTypes /\ UNCHANGED <<world_vars, restarts>> => WorldTypes'
  BY DEF PartyTypes, ClockTypes, PassTypes, WorldTypes

(* Every step keeps the types. *)
LEMMA TypeStep == TypeOK /\ [Next]_vars => TypeOK'
<1> SUFFICES ASSUME TypeOK, [Next]_vars PROVE TypeOK'
  OBVIOUS
<1> USE DEF TypeOK
<1>1. CASE Clock
  BY <1>1, KeptTypes
  DEF Clock, StageTimesOut, StagingGraceEnds, ActiveGraceEnds, CooldownEnds, ClockTypes
<1>2. CASE Project \/ FightEnds
  BY <1>2, KeptTypes DEF Project, FightEnds, WorldTypes
<1>3. ASSUME NEW m \in Members,
             \/ SettleBegin(m) \/ SettleLands(m) \/ SettleFails(m)
             \/ SettleAnswers(m) \/ SettleLate(m)
      PROVE  TypeOK'
  <2>1. PartyTypes' /\ ClockTypes'
    BY <1>3, KeptTypes
    DEF SettleBegin, SettleLands, SettleFails, SettleAnswers, SettleLate
  <2>2. pc' \in [Members -> Planning \cup Working]
    BY <1>3, GoesTyped
    DEF SettleBegin, SettleLands, SettleFails, SettleAnswers, SettleLate, PassTypes
  <2>3. PassTypes'
    BY <1>3, <2>2
    DEF SettleBegin, SettleLands, SettleFails, SettleAnswers, SettleLate, PassTypes
  <2>4. WorldTypes'
    BY <1>3 DEF SettleBegin, SettleLands, SettleFails, SettleAnswers, SettleLate, WorldTypes
  <2> QED
    BY <2>1, <2>3, <2>4
<1>4. CASE Detach \/ ResumeTrip \/ Return
  <2>1. ClockTypes' /\ PassTypes'
    BY <1>4, KeptTypes DEF Detach, ResumeTrip, Return
  <2>2. PartyTypes'
    BY <1>4 DEF Detach, ResumeTrip, Return, PartyTypes
  <2>3. WorldTypes'
    BY <1>4 DEF Detach, ResumeTrip, Return, WorldTypes
  <2> QED
    BY <2>1, <2>2, <2>3
<1>5. ASSUME NEW m \in Members, Beat(m) \/ ChoreBegin(m) \/ ChoreEnd(m) PROVE TypeOK'
  <2>1. pc' \in [Members -> Planning \cup Working]
    BY <1>5, GoesTyped DEF Beat, ChoreBegin, ChoreEnd
  <2> QED
    BY <1>5, <2>1, KeptTypes DEF Beat, ChoreBegin, ChoreEnd, PassTypes
<1>6. CASE ScreenBegin \/ WalkBegin \/ EngageWaits
  <2>1. pc' \in [Members -> Planning \cup Working]
    BY <1>6, GoesTyped, PartyAssumption DEF ScreenBegin, WalkBegin, EngageWaits
  <2>2. PassTypes' /\ ClockTypes' /\ WorldTypes'
    BY <1>6, <2>1, KeptTypes DEF ScreenBegin, WalkBegin, EngageWaits, PassTypes
  <2>3. PartyTypes'
    BY <1>6, KeptTypes DEF ScreenBegin, WalkBegin, EngageWaits, Allies, PartyTypes
  <2> QED
    BY <2>2, <2>3
<1>7. CASE ScreenEnd
  <2>1. pc' \in [Members -> Planning \cup Working]
    BY <1>7, GoesTyped, PartyAssumption DEF ScreenEnd
  <2>2. PassTypes' /\ ClockTypes' /\ WorldTypes'
    BY <1>7, <2>1, KeptTypes DEF ScreenEnd, PassTypes, ClockTypes
  <2>3. PartyTypes'
    BY <1>7, PartyAssumption DEF ScreenEnd, NobodyStaged, PartyTypes
  <2> QED
    BY <2>2, <2>3
<1>8. CASE WalkEnd
  <2>1. PICK reach \in BOOLEAN : Arrive(reach)
    BY <1>8 DEF WalkEnd
  <2>2. CASE WriteOff \/ StageTimeout
    <3>1. pc' \in [Members -> Planning \cup Working]
      BY <2>2, GoesTyped, PartyAssumption DEF WriteOff, StageTimeout
    <3>2. PassTypes' /\ WorldTypes'
      BY <1>8, <2>2, <3>1, KeptTypes DEF WalkEnd, WriteOff, StageTimeout, PassTypes
    <3>3. ClockTypes'
      BY <2>2, ResetTyped DEF WriteOff, StageTimeout, ClockTypes
    <3>4. failures' \in 0 .. MaxFailures
      BY <2>2, PartyAssumption DEF WriteOff, StageTimeout, PartyTypes
    <3>5. PartyTypes'
      BY <1>8, <2>2, <3>4, ResetTyped DEF WalkEnd, WriteOff, StageTimeout, Allies, PartyTypes
    <3> QED
      BY <3>2, <3>3, <3>5
  <2>3. CASE position' = Waited(reach) /\ (Engage \/ StayStaging)
    <3>1. pc' \in [Members -> Planning \cup Working]
      BY <2>3, GoesTyped, PartyAssumption DEF Engage, StayStaging
    <3>2. PassTypes' /\ WorldTypes'
      BY <1>8, <2>3, <3>1, KeptTypes DEF WalkEnd, Engage, StayStaging, Allies, PassTypes
    <3>3. ClockTypes' /\ PartyTypes'
      BY <1>8, <2>3 DEF WalkEnd, Engage, StayStaging, Waited, ClockTypes, PartyTypes
    <3> QED
      BY <3>2, <3>3
  <2> QED
    BY <2>1, <2>2, <2>3 DEF Arrive
<1>9. CASE EngageFails \/ Engaged
  <2>1. ASSUME NEW where \in {"top", "joining"}, FightOpens(where)
        PROVE  pc' \in [Members -> Planning \cup Working] /\ seats' \subseteq Members
    BY <2>1, PartyAssumption DEF FightOpens, PassTypes
  <2>2. pc' \in [Members -> Planning \cup Working] /\ seats' \subseteq Members
    BY <1>9, <2>1, GoesTyped, PartyAssumption DEF EngageFails, Engaged, WorldTypes
  <2>3. PassTypes' /\ WorldTypes'
    BY <1>9, <2>2 DEF EngageFails, Engaged, FightOpens, PassTypes, WorldTypes
  <2>4. CASE EngageFails
    <3>1. failures' \in 0 .. MaxFailures
      BY <2>4, PartyAssumption DEF EngageFails, PartyTypes
    <3>2. PartyTypes'
      BY <2>4, <3>1, ResetTyped DEF EngageFails, PartyTypes
    <3>3. ClockTypes'
      BY <2>4, ResetTyped DEF EngageFails, ClockTypes
    <3> QED
      BY <2>3, <3>2, <3>3
  <2>5. CASE Engaged
    BY <2>3, <2>5, KeptTypes DEF Engaged
  <2> QED
    BY <1>9, <2>4, <2>5
<1>10. CASE JoinEnd
  <2>1. pc' \in [Members -> Planning \cup Working]
    BY <1>10, GoesTyped, PartyAssumption DEF JoinEnd
  <2>2. PassTypes' /\ ClockTypes'
    BY <1>10, <2>1 DEF JoinEnd, PassTypes, ClockTypes
  <2>3. PartyTypes' /\ WorldTypes'
    BY <1>10, PartyAssumption DEF JoinEnd, NobodyStaged, PartyTypes, PassTypes, WorldTypes
  <2> QED
    BY <2>2, <2>3
<1>11. ASSUME NEW m \in Members, ClearFinished(m) PROVE TypeOK'
  BY <1>11, ResetTyped, KeptTypes DEF ClearFinished, PartyTypes, ClockTypes
<1>12. ASSUME NEW m \in Followers, StageHere(m) \/ HopBegin(m) \/ HopEnd(m) PROVE TypeOK'
  <2>1. pc' \in [Members -> Planning \cup Working]
    BY <1>12, GoesTyped DEF StageHere, HopBegin, HopEnd, PassTypes
  <2>2. PassTypes' /\ ClockTypes' /\ WorldTypes'
    BY <1>12, <2>1, KeptTypes DEF StageHere, HopBegin, HopEnd, PassTypes, PartyTypes
  <2>3. PartyTypes'
    BY <1>12, KeptTypes DEF StageHere, HopBegin, HopEnd, MarkStaged, PassTypes, PartyTypes
  <2> QED
    BY <2>2, <2>3
<1>13. CASE Restart
  <2>1. 0 \in 0 .. MaxFailures /\ restarts' \in 0 .. MaxRestarts
    BY <1>13, PartyAssumption DEF Restart, WorldTypes
  <2>2. NobodyStaged \in [Followers -> Groups \cup {NoGroup}]
    BY DEF NobodyStaged
  <2>3. PartyTypes'
    BY <1>13, <2>1, ResetTyped DEF Restart, PartyTypes
  <2>4. ClockTypes'
    BY <1>13, ResetTyped DEF Restart, ClockTypes
  <2>5. pc' \in [Members -> Planning \cup Working]
    BY <1>13 DEF Restart
  <2>6. PassTypes'
    BY <1>13, <2>2, <2>5 DEF Restart, PassTypes
  <2>7. WorldTypes'
    BY <1>13, <2>1 DEF Restart, WorldTypes
  <2> QED
    BY <2>3, <2>4, <2>6, <2>7
<1>14. CASE UNCHANGED vars
  BY <1>14, KeptTypes
<1> QED
  BY NextCases, <1>1, <1>2, <1>3, <1>4, <1>5, <1>6, <1>7, <1>8, <1>9, <1>10, <1>11, <1>12,
     <1>13, <1>14

-----------------------------------------------------------------------------
(* Steps that leave the phase alone, and in which no pass starts to plan and
   none starts a chore. *)
LEMMA PlansKept ==
  ASSUME LeaderPlans, BarrierHolds, phase' = phase,
         \A m \in Members : pc'[m] \in Planning \cup {"chore"} => pc[m] = pc'[m]
  PROVE  LeaderPlans' /\ BarrierHolds'
<1>1. Leader \in Members
  BY PartyAssumption
<1>2. LeaderPlans'
  BY <1>1 DEF LeaderPlans
<1>3. BarrierHolds'
  BY <1>1 DEF BarrierHolds, RendezvousActive
<1> QED
  BY <1>2, <1>3

(* A pass that moves on leaves the other passes where they are. *)
LEMMA GoesAlone ==
  ASSUME PassTypes, NEW m \in Members, NEW where, Goes(m, where)
  PROVE  pc'[m] = where /\ \A n \in Members : n # m => pc'[n] = pc[n]
  BY DEF PassTypes, Goes

(* No chore runs while a rendezvous is active. *)
LEMMA PlanStep == TypeOK /\ LeaderPlans /\ BarrierHolds /\ [Next]_vars => LeaderPlans' /\ BarrierHolds'
<1> SUFFICES ASSUME TypeOK, LeaderPlans, BarrierHolds, [Next]_vars
             PROVE  LeaderPlans' /\ BarrierHolds'
  OBVIOUS
<1> USE PartyAssumption DEF TypeOK
<1>1. CASE Clock
  BY <1>1, PlansKept
  DEF Clock, StageTimesOut, StagingGraceEnds, ActiveGraceEnds, CooldownEnds
<1>2. CASE Project \/ FightEnds
  BY <1>2, PlansKept DEF Project, FightEnds
<1>3. ASSUME NEW m \in Members,
             \/ SettleBegin(m) \/ SettleLands(m) \/ SettleFails(m)
             \/ SettleAnswers(m) \/ SettleLate(m)
      PROVE  LeaderPlans' /\ BarrierHolds'
  <2>1. phase' = phase
    BY <1>3 DEF SettleBegin, SettleLands, SettleFails, SettleAnswers, SettleLate
  <2>2. CASE SettleAnswers(m)
    BY <2>1, <2>2, PlansKept DEF SettleAnswers
  <2>3. CASE \E where \in {"settling", "settled", "top"} : Goes(m, where)
    BY <2>1, <2>3, GoesAlone, PlansKept
  <2> QED
    BY <1>3, <2>2, <2>3 DEF SettleBegin, SettleLands, SettleFails, SettleLate
<1>4. CASE Detach \/ ResumeTrip \/ Return
  BY <1>4, PlansKept DEF Detach, ResumeTrip, Return
<1>5. ASSUME NEW m \in Members, Beat(m) \/ ChoreBegin(m) \/ ChoreEnd(m)
      PROVE  LeaderPlans' /\ BarrierHolds'
  <2>1. phase' = phase
    BY <1>5 DEF Beat, ChoreBegin, ChoreEnd
  <2>2. CASE Goes(m, "top")
    BY <2>1, <2>2, GoesAlone, PlansKept
  <2>3. CASE ~ RendezvousActive /\ Goes(m, "chore")
    <3>1. ~ RendezvousActive'
      BY <2>1, <2>3, GoesAlone DEF RendezvousActive
    <3> QED
      BY <2>3, <3>1, GoesAlone DEF LeaderPlans, BarrierHolds, RendezvousActive
  <2> QED
    BY <1>5, <2>2, <2>3 DEF Beat, ChoreBegin, ChoreEnd
<1>6. CASE ScreenBegin \/ WalkBegin
  <2>1. \A m \in Members : pc[m] # "chore"
    BY <1>6 DEF ScreenBegin, WalkBegin, BarrierHolds, RendezvousActive
  <2>2. BarrierHolds'
    BY <1>6, <2>1, GoesAlone DEF ScreenBegin, WalkBegin, BarrierHolds
  <2>3. LeaderPlans'
    BY <1>6, GoesAlone DEF ScreenBegin, WalkBegin, LeaderPlans
  <2> QED
    BY <2>2, <2>3
<1>7. CASE ScreenEnd \/ WalkEnd \/ EngageWaits \/ EngageFails \/ Engaged \/ JoinEnd
  <2>1. RendezvousActive
    BY <1>7 DEF ScreenEnd, WalkEnd, EngageWaits, EngageFails, Engaged, JoinEnd, RendezvousActive
  <2>2. /\ pc'[Leader] \in {"top", "engaging", "joining"}
        /\ \A m \in Followers : pc'[m] = pc[m] \/ pc'[m] = "late"
    <3>1. CASE WalkEnd
      BY <3>1, GoesAlone
      DEF WalkEnd, Arrive, WriteOff, Engage, StageTimeout, StayStaging
    <3>2. CASE EngageFails \/ Engaged
      BY <3>2, GoesAlone DEF EngageFails, Engaged, FightOpens
    <3> QED
      BY <1>7, <3>1, <3>2, GoesAlone DEF ScreenEnd, EngageWaits, JoinEnd
  <2>3. pc'[Leader] \in {"engaging", "joining"} => phase' = "staging"
    <3>1. CASE WalkEnd
      BY <3>1, GoesAlone
      DEF WalkEnd, Arrive, WriteOff, Engage, StageTimeout, StayStaging, LeaderPlans
    <3>2. CASE Engaged
      BY <3>2 DEF Engaged, LeaderPlans
    <3>3. CASE EngageFails
      BY <3>3, GoesAlone DEF EngageFails, FightOpens
    <3> QED
      BY <1>7, <3>1, <3>2, <3>3, GoesAlone DEF ScreenEnd, EngageWaits, JoinEnd
  <2>4. BarrierHolds'
    BY <2>1, <2>2 DEF BarrierHolds
  <2>5. LeaderPlans'
    BY <2>2, <2>3 DEF LeaderPlans
  <2> QED
    BY <2>4, <2>5
<1>8. ASSUME NEW m \in Members, ClearFinished(m) PROVE LeaderPlans' /\ BarrierHolds'
  <2>1. pc' = pc /\ phase = "active" /\ phase' = "idle"
    BY <1>8 DEF ClearFinished, ResetRendezvous
  <2> QED
    BY <2>1 DEF LeaderPlans, BarrierHolds, RendezvousActive
<1>9. ASSUME NEW m \in Followers, StageHere(m) \/ HopBegin(m) \/ HopEnd(m)
      PROVE  LeaderPlans' /\ BarrierHolds'
  <2>1. phase' = phase
    BY <1>9 DEF StageHere, HopBegin, HopEnd, MarkStaged
  <2>2. pc' = pc \/ Goes(m, "hopping") \/ Goes(m, "top")
    BY <1>9 DEF StageHere, HopBegin, HopEnd
  <2> QED
    BY <2>1, <2>2, GoesAlone, PlansKept
<1>10. CASE Restart
  BY <1>10 DEF Restart, LeaderPlans, BarrierHolds
<1>11. CASE UNCHANGED vars
  BY <1>11, PlansKept
<1> QED
  BY NextCases, <1>1, <1>2, <1>3, <1>4, <1>5, <1>6, <1>7, <1>8, <1>9, <1>10, <1>11

-----------------------------------------------------------------------------
Known == FightIsKnown /\ PlansOnlyWhenFree

(* Steps that neither open a fight nor make the party forget one, and in
   which the leader does not begin to plan. *)
LEMMA KnownKept ==
  ASSUME Known,
         fight' # "none" => fight # "none" /\ unanswered' = unanswered /\ seats \subseteq seats',
         view # "none" => view' # "none" \/ fight' = "none",
         pc'[Leader] \in Planning => pc'[Leader] = pc[Leader],
         pc[Leader] = "joining" => pc'[Leader] = pc[Leader],
         phase = "active" /\ active_fresh => phase' = "active" /\ active_fresh'
  PROVE  Known'
<1>1. FightIsKnown'
  BY DEF Known, FightIsKnown
<1>2. PlansOnlyWhenFree'
  BY DEF Known, PlansOnlyWhenFree
<1> QED
  BY <1>1, <1>2 DEF Known

(* The leader plans no other group while a fight is open, and the party
   does not lose sight of one. *)
LEMMA KnownStep == TypeOK /\ LeaderPlans /\ Known /\ [Next]_vars => Known'
<1> SUFFICES ASSUME TypeOK, LeaderPlans, Known, [Next]_vars PROVE Known'
  OBVIOUS
<1> USE PartyAssumption DEF TypeOK
<1>1. CASE StageTimesOut \/ StagingGraceEnds \/ CooldownEnds
  BY <1>1, KnownKept DEF StageTimesOut, StagingGraceEnds, CooldownEnds
<1>2. CASE ActiveGraceEnds
  BY <1>2 DEF ActiveGraceEnds, Known, FightIsKnown, PlansOnlyWhenFree
<1>3. CASE Project \/ FightEnds
  BY <1>3, KnownKept DEF Project, FightEnds
<1>4. ASSUME NEW m \in Members,
             \/ SettleBegin(m) \/ SettleLands(m) \/ SettleFails(m)
             \/ SettleAnswers(m) \/ SettleLate(m)
      PROVE  Known'
  <2>1. /\ pc'[Leader] \in Planning => pc'[Leader] = pc[Leader]
        /\ pc[Leader] = "joining" => pc'[Leader] = pc[Leader]
    <3>1. CASE SettleAnswers(m)
      BY <3>1 DEF SettleAnswers
    <3>2. CASE \E where \in {"settling", "settled", "top"} :
                 pc[m] \notin Planning /\ Goes(m, where)
      BY <3>2, GoesAlone
    <3> QED
      BY <1>4, <3>1, <3>2 DEF SettleBegin, SettleLands, SettleFails, SettleLate
  <2>2. /\ fight' # "none" => fight # "none" /\ unanswered' = unanswered
        /\ UNCHANGED <<view, seats, phase, active_fresh>>
    BY <1>4 DEF SettleBegin, SettleLands, SettleFails, SettleAnswers, SettleLate
  <2> QED
    BY <2>1, <2>2, KnownKept
<1>5. CASE Detach \/ ResumeTrip \/ Return
  BY <1>5, KnownKept DEF Detach, ResumeTrip, Return
<1>6. ASSUME NEW m \in Members, Beat(m) \/ ChoreBegin(m) \/ ChoreEnd(m) PROVE Known'
  <2>1. \E where \in {"top", "chore"} : pc[m] \notin Planning /\ Goes(m, where)
    BY <1>6 DEF Beat, ChoreBegin, ChoreEnd, Free
  <2>2. /\ pc'[Leader] \in Planning => pc'[Leader] = pc[Leader]
        /\ pc[Leader] = "joining" => pc'[Leader] = pc[Leader]
    BY <2>1, GoesAlone
  <2> QED
    BY <1>6, <2>2, KnownKept DEF Beat, ChoreBegin, ChoreEnd
<1>7. CASE ScreenBegin \/ WalkBegin
  <2>1. fight = "none" \/ unanswered
    BY <1>7 DEF ScreenBegin, WalkBegin, Free, InFight, Known, FightIsKnown
  <2> QED
    BY <1>7, <2>1 DEF ScreenBegin, WalkBegin, Known, FightIsKnown, PlansOnlyWhenFree
<1>8. CASE ScreenEnd \/ WalkEnd \/ EngageWaits
  <2>1. fight = "none" \/ unanswered
    BY <1>8 DEF ScreenEnd, WalkEnd, EngageWaits, Known, PlansOnlyWhenFree
  <2> QED
    BY <1>8, <2>1 DEF ScreenEnd, WalkEnd, EngageWaits, Known, FightIsKnown, PlansOnlyWhenFree
<1>9. CASE EngageFails
  <2>1. pc'[Leader] = "top"
    BY <1>9, GoesAlone DEF EngageFails, FightOpens
  <2>2. fight' = "none" \/ unanswered'
    BY <1>9 DEF EngageFails, Known, PlansOnlyWhenFree
  <2> QED
    BY <2>1, <2>2 DEF Known, FightIsKnown, PlansOnlyWhenFree
<1>10. CASE Engaged
  BY <1>10 DEF Engaged, FightOpens, Known, FightIsKnown, PlansOnlyWhenFree
<1>11. CASE JoinEnd
  <2>1. pc'[Leader] = "top"
    BY <1>11, GoesAlone DEF JoinEnd
  <2> QED
    BY <1>11, <2>1 DEF JoinEnd, Known, FightIsKnown, PlansOnlyWhenFree
<1>12. ASSUME NEW m \in Members, ClearFinished(m) PROVE Known'
  BY <1>12 DEF ClearFinished, LeaderPlans, Known, FightIsKnown, PlansOnlyWhenFree
<1>13. ASSUME NEW m \in Followers, StageHere(m) \/ HopBegin(m) \/ HopEnd(m) PROVE Known'
  <2>1. pc' = pc \/ Goes(m, "hopping") \/ Goes(m, "top")
    BY <1>13 DEF StageHere, HopBegin, HopEnd
  <2>2. pc'[Leader] = pc[Leader]
    BY <2>1, GoesAlone
  <2> QED
    BY <1>13, <2>2, KnownKept DEF StageHere, HopBegin, HopEnd, MarkStaged
<1>14. CASE Restart
  BY <1>14 DEF Restart, Known, FightIsKnown, PlansOnlyWhenFree
<1>15. CASE UNCHANGED vars
  BY <1>15, KnownKept
<1> QED
  BY NextCases, <1>1, <1>2, <1>3, <1>4, <1>5, <1>6, <1>7, <1>8, <1>9, <1>10, <1>11, <1>12,
     <1>13, <1>14, <1>15 DEF Clock

-----------------------------------------------------------------------------
(* The invariant holds of every behaviour. *)
THEOREM Invariance == Spec => []IInv
<1>1. Init => IInv
  BY InitEstablishesIInv
<1>2. IInv /\ [Next]_vars => IInv'
  BY TypeStep, PlanStep, KnownStep DEF IInv, Known
<1> QED
  BY <1>1, <1>2, PTL DEF Spec

(* Every variable of the party keeps its type. *)
THEOREM TypeCorrect == Spec => []TypeOK
<1>1. IInv => TypeOK
  BY DEF IInv
<1> QED
  BY <1>1, Invariance, PTL

(* No chore of any member overlaps the planning or the fighting of a fight. *)
THEOREM ChoresKeepOut == Spec => []BarrierHolds
<1>1. IInv => BarrierHolds
  BY DEF IInv
<1> QED
  BY <1>1, Invariance, PTL

(* The leader never sets out for a second fight while the first is open,
   except after an engage whose answer was lost. *)
THEOREM OneFightAtATime == Spec => []PlansOnlyWhenFree
<1>1. IInv => PlansOnlyWhenFree
  BY DEF IInv
<1> QED
  BY <1>1, Invariance, PTL
-----------------------------------------------------------------------------
(* The rendezvous implements PartyDuty. *)

Out == {m \in Members : pc[m] = "chore"}

(* Steps that only move members between awaits that are no chore and no
   planning are invisible to the duty. *)
LEMMA DutyKept ==
  ASSUME UNCHANGED <<Out, fight, unanswered>>, RendezvousActive' <=> RendezvousActive
  PROVE  UNCHANGED Duty!vars
  BY DEF Duty!vars, Out

(* Who is out, and whether the party is busy, after one member has moved on. *)
LEMMA GoesDuty ==
  ASSUME PassTypes, LeaderPlans, NEW m \in Members, NEW where, Goes(m, where)
  PROVE  /\ where # "chore" => Out' = Out \ {m}
         /\ where = "chore" => Out' = Out \cup {m}
         /\ phase' = phase /\ (pc[m] \in Planning <=> where \in Planning)
              => (RendezvousActive' <=> RendezvousActive)
<1>1. pc'[m] = where /\ \A n \in Members : n # m => pc'[n] = pc[n]
  BY GoesAlone
<1>2. where # "chore" => Out' = Out \ {m}
  BY <1>1 DEF Out
<1>3. where = "chore" => Out' = Out \cup {m}
  BY <1>1 DEF Out
<1>4. ASSUME phase' = phase, pc[m] \in Planning <=> where \in Planning
      PROVE  RendezvousActive' <=> RendezvousActive
  <2>1. pc'[Leader] \in Planning <=> pc[Leader] \in Planning
    BY <1>1, <1>4, PartyAssumption
  <2> QED
    BY <1>4, <2>1 DEF RendezvousActive
<1> QED
  BY <1>2, <1>3, <1>4

(* A chore begins while the party is free, and ends. *)
LEMMA ErrandStep ==
  ASSUME TypeOK, LeaderPlans, NEW m \in Members, Beat(m) \/ ChoreBegin(m) \/ ChoreEnd(m)
  PROVE  [Duty!Next]_(Duty!vars)
<1> USE DEF TypeOK
<1>1. UNCHANGED <<phase, fight, unanswered>>
  BY DEF Beat, ChoreBegin, ChoreEnd
<1>2. CASE ~ RendezvousActive /\ pc[m] = "top" /\ Goes(m, "chore")
  <2>1. Out' = Out \cup {m} /\ ~ RendezvousActive'
    BY <1>1, <1>2, GoesDuty
  <2>2. Duty!GoOut(m)
    BY <1>1, <1>2, <2>1 DEF Duty!GoOut, Out, RendezvousActive
  <2> QED
    BY <2>2 DEF Duty!Next
<1>3. CASE pc[m] = "top" /\ Goes(m, "top")
  <2>1. Out' = Out /\ (RendezvousActive' <=> RendezvousActive)
    <3>1. Out \ {m} = Out
      BY <1>3 DEF Out
    <3> QED
      BY <1>1, <1>3, <3>1, GoesDuty
  <2> QED
    BY <1>1, <2>1, DutyKept
<1>4. CASE ChoreEnd(m)
  <2>1. Out' = Out \ {m} /\ (RendezvousActive' <=> RendezvousActive)
    BY <1>1, <1>4, GoesDuty DEF ChoreEnd
  <2>2. Duty!ComeBack(m)
    BY <1>1, <1>4, <2>1 DEF Duty!ComeBack, Out, ChoreEnd
  <2> QED
    BY <2>2 DEF Duty!Next
<1> QED
  BY <1>2, <1>3, <1>4 DEF Beat, ChoreBegin, Free

(* The settlement closes the fight; its other steps are invisible. *)
LEMMA SettleStep ==
  ASSUME TypeOK, LeaderPlans, NEW m \in Members,
         \/ SettleBegin(m) \/ SettleLands(m) \/ SettleFails(m)
         \/ SettleAnswers(m) \/ SettleLate(m)
  PROVE  [Duty!Next]_(Duty!vars)
<1> USE DEF TypeOK
<1>1. phase' = phase
  BY DEF SettleBegin, SettleLands, SettleFails, SettleAnswers, SettleLate
<1>2. Out' = Out /\ (RendezvousActive' <=> RendezvousActive)
  <2>1. CASE SettleAnswers(m)
    <3>1. \A n \in Members : pc'[n] = pc[n] \/ {pc[n], pc'[n]} \subseteq {"settling", "settled", "top"}
      BY <2>1 DEF SettleAnswers
    <3>2. Out' = Out
      BY <3>1 DEF Out
    <3>3. pc'[Leader] \in Planning <=> pc[Leader] \in Planning
      BY <3>1, PartyAssumption
    <3> QED
      BY <1>1, <3>2, <3>3 DEF RendezvousActive
  <2>2. CASE /\ pc[m] \in {"settling", "settled", "top", "late"}
             /\ \E where \in {"settling", "settled", "top"} : Goes(m, where)
    <3>1. Out \ {m} = Out
      BY <2>2 DEF Out
    <3> QED
      BY <1>1, <2>2, <3>1, GoesDuty
  <2> QED
    BY <2>1, <2>2 DEF SettleBegin, SettleLands, SettleFails, SettleLate
<1>3. CASE SettleLands(m)
  <2>1. Duty!Settle
    BY <1>2, <1>3 DEF SettleLands, Duty!Settle, Out
  <2> QED
    BY <2>1 DEF Duty!Next
<1>4. CASE SettleBegin(m) \/ SettleFails(m) \/ SettleAnswers(m) \/ SettleLate(m)
  <2>1. UNCHANGED <<fight, unanswered>>
    BY <1>4 DEF SettleBegin, SettleFails, SettleAnswers, SettleLate
  <2> QED
    BY <1>2, <2>1, DutyKept
<1> QED
  BY <1>3, <1>4

(* The leader's screening is the setting out; it may find no group, and walk,
   wait or give up after it has found one. *)
LEMMA PlanningStep ==
  ASSUME IInv, ScreenBegin \/ ScreenEnd \/ WalkBegin \/ WalkEnd \/ EngageWaits
  PROVE  [Duty!Next]_(Duty!vars)
<1> USE PartyAssumption DEF IInv, TypeOK
<1>1. UNCHANGED <<fight, unanswered>>
  BY DEF ScreenBegin, ScreenEnd, WalkBegin, WalkEnd, EngageWaits
<1>2. /\ pc[Leader] # "chore"
      /\ \E where \in {"top", "screening", "walking", "engaging"} : Goes(Leader, where)
  BY DEF ScreenBegin, ScreenEnd, WalkBegin, WalkEnd, EngageWaits, Free, Arrive,
         WriteOff, Engage, StageTimeout, StayStaging
<1>3. Out' = Out
  <2>1. Out \ {Leader} = Out
    BY <1>2 DEF Out
  <2> QED
    BY <1>2, <2>1, GoesDuty
<1>4. fight = "none" \/ unanswered
  BY DEF ScreenBegin, ScreenEnd, WalkBegin, WalkEnd, EngageWaits, Free, InFight,
         FightIsKnown, PlansOnlyWhenFree
<1>5. CASE RendezvousActive' <=> RendezvousActive
  BY <1>1, <1>3, <1>5, DutyKept
<1>6. CASE RendezvousActive /\ ~ RendezvousActive'
  <2>1. Duty!Disband
    BY <1>1, <1>3, <1>4, <1>6 DEF Duty!Disband, Duty!Clear, Out
  <2> QED
    BY <2>1 DEF Duty!Next
<1>7. CASE ~ RendezvousActive /\ RendezvousActive'
  <2>1. Out = {}
    BY <1>7 DEF ScreenBegin, ScreenEnd, WalkBegin, WalkEnd, EngageWaits, RendezvousActive, Out
  <2>2. Duty!SetOut
    BY <1>1, <1>3, <1>4, <1>7, <2>1 DEF Duty!SetOut, Duty!Clear, Out
  <2> QED
    BY <2>2 DEF Duty!Next
<1> QED
  BY <1>5, <1>6, <1>7 DEF RendezvousActive

(* The engage opens the fight, is refused, or its answer is lost. *)
LEMMA EngageStep ==
  ASSUME IInv, EngageFails \/ Engaged
  PROVE  [Duty!Next]_(Duty!vars)
<1> USE PartyAssumption DEF IInv, TypeOK
<1>1. RendezvousActive /\ pc[Leader] = "engaging"
  BY DEF EngageFails, Engaged, RendezvousActive
<1>2. ASSUME NEW where \in {"top", "joining"}, FightOpens(where)
      PROVE  Out' = Out /\ pc'[Leader] = where /\ fight = "none" /\ fight' = "live"
  BY <1>1, <1>2 DEF FightOpens, Out
<1>3. CASE Engaged
  <2>1. RendezvousActive'
    BY <1>2, <1>3 DEF Engaged, RendezvousActive
  <2>2. Duty!Open
    BY <1>1, <1>2, <1>3, <2>1 DEF Engaged, Duty!Open, Out
  <2> QED
    BY <2>2 DEF Duty!Next
<1>4. CASE EngageFails /\ FightOpens("top") /\ unanswered' = TRUE
  <2>1. ~ RendezvousActive'
    BY <1>2, <1>4 DEF EngageFails, ResetRendezvous, RendezvousActive
  <2>2. Duty!Open
    BY <1>1, <1>2, <1>4, <2>1 DEF Duty!Open, Out, RendezvousActive
  <2> QED
    BY <2>2 DEF Duty!Next
<1>5. CASE EngageFails /\ Goes(Leader, "top") /\ UNCHANGED <<fight, seats, settled, unanswered>>
  <2>1. Out' = Out
    <3>1. Out \ {Leader} = Out
      BY <1>1 DEF Out
    <3> QED
      BY <1>5, <3>1, GoesDuty
  <2>2. ~ RendezvousActive'
    BY <1>5, GoesAlone DEF EngageFails, ResetRendezvous, RendezvousActive
  <2>3. Duty!Disband
    BY <1>1, <1>5, <2>1, <2>2 DEF PlansOnlyWhenFree, Duty!Disband, Duty!Clear, Out
  <2> QED
    BY <2>3 DEF Duty!Next
<1> QED
  BY <1>3, <1>4, <1>5 DEF EngageFails

(* The joining ends in an active party; whoever clears it later finds the
   fight settled, unless nobody knew of it. *)
LEMMA ActiveStep ==
  ASSUME IInv, JoinEnd \/ \E m \in Members : ClearFinished(m)
  PROVE  [Duty!Next]_(Duty!vars)
<1> USE PartyAssumption DEF IInv, TypeOK
<1>1. UNCHANGED <<fight, unanswered>>
  BY DEF JoinEnd, ClearFinished
<1>2. CASE JoinEnd
  <2>1. Out \ {Leader} = Out
    BY <1>2 DEF JoinEnd, Out
  <2>2. Out' = Out
    BY <1>2, <2>1, GoesDuty DEF JoinEnd
  <2>3. RendezvousActive' /\ RendezvousActive
    BY <1>2 DEF JoinEnd, RendezvousActive
  <2> QED
    BY <1>1, <2>2, <2>3, DutyKept
<1>3. ASSUME NEW m \in Members, ClearFinished(m) PROVE [Duty!Next]_(Duty!vars)
  <2>1. pc' = pc /\ phase = "active" /\ phase' = "idle"
    BY <1>3 DEF ClearFinished, ResetRendezvous
  <2>2. RendezvousActive /\ ~ RendezvousActive' /\ Out' = Out
    BY <2>1 DEF LeaderPlans, RendezvousActive, Out
  <2>3. fight = "none" \/ unanswered
    BY <1>3, <2>1 DEF ClearFinished, LeaderPlans, FightIsKnown
  <2>4. Duty!Disband
    BY <1>1, <2>2, <2>3 DEF Duty!Disband, Duty!Clear, Out
  <2> QED
    BY <2>4 DEF Duty!Next
<1> QED
  BY <1>2, <1>3

(* Every step is a step of the duty or leaves it alone. *)
LEMMA StepKeepsDuty == ASSUME IInv, [Next]_vars PROVE [Duty!Next]_(Duty!vars)
<1> USE DEF IInv
<1>1. CASE \/ Clock \/ Project \/ Detach \/ ResumeTrip \/ Return \/ UNCHANGED vars
  <2>1. UNCHANGED <<pc, phase, fight, unanswered>>
    BY <1>1 DEF Clock, StageTimesOut, StagingGraceEnds, ActiveGraceEnds, CooldownEnds,
                Project, Detach, ResumeTrip, Return
  <2> QED
    BY <2>1, DutyKept DEF Out, RendezvousActive
<1>2. CASE FightEnds
  <2>1. UNCHANGED <<Out, unanswered>> /\ (RendezvousActive' <=> RendezvousActive)
    BY <1>2 DEF FightEnds, Out, RendezvousActive
  <2>2. Duty!End
    BY <1>2, <2>1 DEF FightEnds, Duty!End, Out
  <2> QED
    BY <2>2 DEF Duty!Next
<1>3. ASSUME NEW m \in Followers, StageHere(m) \/ HopBegin(m) \/ HopEnd(m)
      PROVE  [Duty!Next]_(Duty!vars)
  <2>1. UNCHANGED <<phase, fight, unanswered>>
    BY <1>3 DEF StageHere, HopBegin, HopEnd, MarkStaged
  <2>2. pc' = pc \/ Goes(m, "hopping") \/ Goes(m, "top")
    BY <1>3 DEF StageHere, HopBegin, HopEnd
  <2>3. Out \ {m} = Out /\ pc[m] \notin Planning
    BY <1>3 DEF StageHere, HopBegin, HopEnd, Free, Out
  <2>4. Out' = Out /\ (RendezvousActive' <=> RendezvousActive)
    <3>1. CASE pc' = pc
      BY <2>1, <3>1 DEF Out, RendezvousActive
    <3>2. CASE \E where \in {"hopping", "top"} : Goes(m, where)
      BY <2>1, <2>3, <3>2, GoesDuty DEF TypeOK
    <3> QED
      BY <2>2, <3>1, <3>2
  <2> QED
    BY <2>1, <2>4, DutyKept
<1>4. CASE Restart
  <2>1. Out' = {} /\ ~ RendezvousActive'
    BY <1>4, PartyAssumption DEF Restart, ResetRendezvous, RendezvousActive, Out
  <2>2. Duty!Crash
    BY <1>4, <2>1 DEF Restart, Duty!Crash, Out
  <2> QED
    BY <2>2 DEF Duty!Next
<1> QED
  BY NextCases, <1>1, <1>2, <1>3, <1>4, ErrandStep, SettleStep, PlanningStep, EngageStep,
     ActiveStep

LEMMA InitKeepsDuty == Init => Duty!Init
  BY PartyAssumption DEF Init, Duty!Init, RendezvousActive

(* The rendezvous gives the party what PartyDuty promises: whoever is on a
   chore and whoever fights exclude each other, and fights come one at a time. *)
THEOREM DutyKeeps == Spec => KeepsDuty
<1>1. IInv /\ [Next]_vars => [Duty!Next]_(Duty!vars)
  BY StepKeepsDuty
<1> QED
  BY <1>1, Invariance, InitKeepsDuty, PTL DEF Spec, KeepsDuty, Duty!Spec
=============================================================================
