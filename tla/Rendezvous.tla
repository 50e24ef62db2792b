----------------------------- MODULE Rendezvous -----------------------------
(***************************************************************************)
(* How the characters of one party meet to fight a monster group together: *)
(* the shared PartyState of bot/src/actions/party.ts and the part of every *)
(* character's pass (bot/src/net/session.ts, run_pass) that reads and      *)
(* writes it.                                                              *)
(*                                                                         *)
(* The leader screens the groups in sight, publishes one as the target,    *)
(* walks to it and engages once every follower has proved it can reach the *)
(* target; one transaction then joins all of them.  Every character loop   *)
(* runs concurrently in one JavaScript thread, so an action is a stretch   *)
(* of code between two awaits.  Between fights each member runs a chore,   *)
(* and no chore may be under way while the party plans a fight.            *)
(*                                                                         *)
(* Positions are abstracted to the answer of mover.can_reach, which is     *)
(* free at every call; clocks to flags that a Clock action raises.  The    *)
(* party fights one fight at a time: the chain's fight, what the packets   *)
(* have shown of it so far (view), and whose seats it holds.               *)
(***************************************************************************)
EXTENDS Naturals, FiniteSets

CONSTANTS
  Members,       (* party.members                                          *)
  Leader,        (* party.leader_id                                        *)
  Detacher,      (* config.cross_world_gatherer: the member that leaves on *)
                 (* cross-world trips                                      *)
  Groups,        (* the monster groups a screen may pick                   *)
  NoGroup,       (* no target                                              *)
  MaxFailures,   (* MAX_STAGE_FAILURES                                     *)
  MaxRestarts    (* how often the process may die (a bound of the model)   *)

Followers == Members \ {Leader}

ASSUME PartyAssumption ==
  /\ Leader \in Members
  /\ Detacher \in Followers
  /\ NoGroup \notin Groups
  /\ MaxFailures \in Nat \ {0}
  /\ MaxRestarts \in Nat

VARIABLES
  (* PartyState *)
  phase,         (* "idle", "staging", "active"                            *)
  target,        (* the group being staged                                 *)
  staged,        (* staged[m]: the group m proved it can reach when it was *)
                 (* put in party.staged; NoGroup: m is not in the set      *)
  stragglers, detached, failures,
  (* its clocks *)
  position,      (* in_position_at_ms: "away", "in", or "overdue" once     *)
                 (* STAGE_GRACE_MS has passed                              *)
  stage_overdue, (* STAGE_TIMEOUT_MS has passed since the target was set   *)
  active_fresh,  (* ACTIVE_GRACE_MS has not passed since the engage        *)
  cooling,       (* the party plays solo until retry_after_ms              *)
  (* the passes *)
  pc,            (* what each member's pass is awaiting                    *)
  goal,          (* the target a follower's hop was started for            *)
  invited,       (* the followers the leader's engage counted on           *)
  chore_pending, (* the members whose post-fight chore is still due        *)
  (* the world *)
  fight, view,   (* "none", "live", "ended": on chain, and as projected    *)
  seats,         (* the members seated in the last fight opened            *)
  settled,       (* settlement_done of that fight                          *)
  unanswered,    (* the answer to the engage that opened it was lost       *)
  trip,          (* the detacher is in another world                       *)
  restarts

party_vars == <<phase, target, staged, stragglers, detached, failures>>
clock_vars == <<position, stage_overdue, active_fresh, cooling>>
pass_vars  == <<pc, goal, invited, chore_pending>>
world_vars == <<fight, view, seats, settled, unanswered, trip>>
vars == <<party_vars, clock_vars, pass_vars, world_vars, restarts>>

Planning == {"screening", "walking", "engaging", "joining"}
Working  == {"top", "hopping", "chore", "settling", "settled", "late"}

PartyTypes ==
  /\ phase \in {"idle", "staging", "active"}
  /\ target \in Groups \cup {NoGroup}
  /\ phase = "staging" <=> target # NoGroup
  /\ staged \in [Followers -> Groups \cup {NoGroup}]
  /\ stragglers \subseteq Followers
  /\ detached \subseteq {Detacher}
  /\ failures \in 0 .. MaxFailures

ClockTypes ==
  /\ position \in {"away", "in", "overdue"}
  /\ stage_overdue \in BOOLEAN /\ active_fresh \in BOOLEAN /\ cooling \in BOOLEAN

PassTypes ==
  /\ pc \in [Members -> Planning \cup Working]
  /\ goal \in [Followers -> Groups \cup {NoGroup}]
  /\ invited \subseteq Followers
  /\ chore_pending \subseteq Members

WorldTypes ==
  /\ fight \in {"none", "live", "ended"} /\ view \in {"none", "live", "ended"}
  /\ seats \subseteq Members
  /\ settled \in BOOLEAN /\ unanswered \in BOOLEAN /\ trip \in BOOLEAN
  /\ restarts \in 0 .. MaxRestarts

TypeOK == PartyTypes /\ ClockTypes /\ PassTypes /\ WorldTypes

NobodyStaged == [m \in Followers |-> NoGroup]

Init ==
  /\ phase = "idle"
  /\ target = NoGroup
  /\ staged = NobodyStaged
  /\ stragglers = {}
  /\ detached = {}
  /\ failures = 0
  /\ position = "away"
  /\ stage_overdue = FALSE
  /\ active_fresh = FALSE
  /\ cooling = FALSE
  /\ pc = [m \in Members |-> "top"]
  /\ goal = NobodyStaged
  /\ invited = {}
  /\ chore_pending = {}
  /\ fight = "none"
  /\ view = "none"
  /\ seats = {}
  /\ settled = FALSE
  /\ unanswered = FALSE
  /\ trip = FALSE
  /\ restarts = 0

-----------------------------------------------------------------------------
(* The pass of a seated member ends in settle_pending or drive_fight: the
   party steps below it belong to the members that sit in no fight. *)
InFight(m) == m \in seats /\ view # "none"

(* A new pass of m gets as far as the party steps: cross_world.run_once owns
   the pass of a detacher that is away, or is still recorded as away. *)
Free(m) ==
  /\ pc[m] = "top"
  /\ ~ InFight(m)
  /\ m \notin detached
  /\ m = Detacher => ~ trip

Goes(m, where) == pc' = [pc EXCEPT ![m] = where]

(* Mutant: no planning_fight, only the published phase. *)
RendezvousActive_NoPlanningMark == phase # "idle"

(* run_chore_tracked's rendezvous_active: `planning_fight` covers the awaits
   of the leader's step before it has published phase = staging. *)
RendezvousActive == phase # "idle" \/ pc[Leader] \in Planning

(* reset_rendezvous.  The stragglers stay written off. *)
ResetRendezvous ==
  /\ phase' = "idle"
  /\ target' = NoGroup
  /\ staged' = NobodyStaged
  /\ position' = "away"
  /\ stage_overdue' = FALSE
  /\ active_fresh' = FALSE

(* allies_of: the followers a rendezvous waits for and counts on. *)
Allies == Followers \ (detached \cup stragglers)

-----------------------------------------------------------------------------
(* Time and the projection. *)

StageTimesOut ==
  /\ phase = "staging" /\ ~ stage_overdue
  /\ stage_overdue' = TRUE
  /\ UNCHANGED <<party_vars, position, active_fresh, cooling, pass_vars, world_vars, restarts>>

StagingGraceEnds ==
  /\ position = "in"
  /\ position' = "overdue"
  /\ UNCHANGED <<party_vars, stage_overdue, active_fresh, cooling, pass_vars, world_vars, restarts>>

(* ACTIVE_GRACE_MS outlasts the lag of the projection: a pass runs only while
   the freshness gate finds the lag acceptable. *)
ActiveGraceEnds ==
  /\ active_fresh /\ view = fight
  /\ active_fresh' = FALSE
  /\ UNCHANGED <<party_vars, position, stage_overdue, cooling, pass_vars, world_vars, restarts>>

CooldownEnds ==
  /\ cooling
  /\ cooling' = FALSE
  /\ UNCHANGED <<party_vars, position, stage_overdue, active_fresh, pass_vars, world_vars, restarts>>

Project ==
  /\ view # fight
  /\ view' = fight
  /\ UNCHANGED <<party_vars, clock_vars, pass_vars, fight, seats, settled, unanswered, trip, restarts>>

(* The fight cannot start before its opener is ready. *)
FightEnds ==
  /\ fight = "live" /\ pc[Leader] # "joining"
  /\ fight' = "ended"
  /\ UNCHANGED <<party_vars, clock_vars, pass_vars, view, seats, settled, unanswered, trip, restarts>>

-----------------------------------------------------------------------------
(* Settlement (settle_pending).  One member settles every seat of the fight;
   the others queue on the fight's lock. *)

SettleBegin(m) ==
  /\ pc[m] = "top" /\ InFight(m) /\ view = "ended" /\ ~ settled
  /\ Goes(m, "settling")
  /\ UNCHANGED <<party_vars, clock_vars, goal, invited, chore_pending, world_vars, restarts>>

(* The chain executes the settlement; its answer is on the way. *)
SettleLands(m) ==
  /\ pc[m] = "settling" /\ fight = "ended"
  /\ \A n \in Members : pc[n] # "settled"
  /\ fight' = "none"
  /\ unanswered' = FALSE
  /\ Goes(m, "settled")
  /\ UNCHANGED <<party_vars, clock_vars, goal, invited, chore_pending,
                 view, seats, settled, trip, restarts>>

(* The transaction fails, or its answer is lost: the pass ends, and a later
   one tries again if the resolutions still show the fight. *)
SettleFails(m) ==
  /\ pc[m] \in {"settling", "settled"}
  /\ Goes(m, "top")
  /\ UNCHANGED <<party_vars, clock_vars, goal, invited, chore_pending, world_vars, restarts>>

(* The answer arrives.  The members queued on the lock find settlement_done
   and return with it; request_party_chore_beat schedules everyone's chore. *)
SettleAnswers(m) ==
  /\ pc[m] = "settled"
  /\ settled' = TRUE
  /\ chore_pending' = Members
  /\ pc' = [n \in Members |-> IF pc[n] \in {"settling", "settled"} THEN "top" ELSE pc[n]]
  /\ UNCHANGED <<party_vars, clock_vars, goal, invited, fight, view, seats, unanswered,
                 trip, restarts>>

(* An answer that comes when the next fight is already open: settlement_done
   is kept by fight, so it says nothing of the new one. *)
SettleLate(m) ==
  /\ pc[m] = "late"
  /\ Goes(m, "top")
  /\ chore_pending' \in {chore_pending, Members}
  /\ UNCHANGED <<party_vars, clock_vars, goal, invited, world_vars, restarts>>

-----------------------------------------------------------------------------
(* The cross-world trip of the detacher (cross_world.run_once). *)

Detach ==
  /\ Free(Detacher)
  /\ trip' = TRUE
  /\ detached' = {Detacher}
  /\ UNCHANGED <<phase, target, staged, stragglers, failures, clock_vars, pass_vars,
                 fight, view, seats, settled, unanswered, restarts>>

(* A restart in mid-trip: the first pass resumes it and marks the member. *)
ResumeTrip ==
  /\ pc[Detacher] = "top" /\ ~ InFight(Detacher) /\ trip /\ Detacher \notin detached
  /\ detached' = {Detacher}
  /\ UNCHANGED <<phase, target, staged, stragglers, failures, clock_vars, pass_vars,
                 world_vars, restarts>>

Return ==
  /\ pc[Detacher] = "top" /\ ~ InFight(Detacher) /\ Detacher \in detached
  /\ trip' = FALSE
  /\ detached' = {}
  /\ UNCHANGED <<phase, target, staged, stragglers, failures, clock_vars, pass_vars,
                 fight, view, seats, settled, unanswered, restarts>>

-----------------------------------------------------------------------------
(* Chores. *)

(* Mutant: the leader is left out of the beat it waits for. *)
Beat_FollowersOnly(m) ==
  /\ Free(m) /\ phase = "idle" /\ m \in chore_pending /\ m # Leader
  /\ chore_pending' = chore_pending \ {m}
  /\ Goes(m, IF RendezvousActive THEN "top" ELSE "chore")
  /\ UNCHANGED <<party_vars, clock_vars, goal, invited, world_vars, restarts>>

(* The post-fight chore: the signal is cleared before run_chore_tracked is
   asked, which refuses while a rendezvous is active. *)
Beat(m) ==
  /\ Free(m) /\ phase = "idle" /\ m \in chore_pending
  /\ chore_pending' = chore_pending \ {m}
  /\ Goes(m, IF RendezvousActive THEN "top" ELSE "chore")
  /\ UNCHANGED <<party_vars, clock_vars, goal, invited, world_vars, restarts>>

(* A chore that is due by the clock, or for want of anything else to do. *)
ChoreBegin(m) ==
  /\ Free(m) /\ m \notin chore_pending /\ ~ RendezvousActive
  /\ Goes(m, "chore")
  /\ UNCHANGED <<party_vars, clock_vars, goal, invited, chore_pending, world_vars, restarts>>

ChoreEnd(m) ==
  /\ pc[m] = "chore"
  /\ Goes(m, "top")
  /\ UNCHANGED <<party_vars, clock_vars, goal, invited, chore_pending, world_vars, restarts>>

-----------------------------------------------------------------------------
(* The leader's pass (leader_group_step). *)

(* The leader plans only when no member, away or not, has its chore due or
   under way.  mark_distant_stragglers writes off whoever is too far. *)
ScreenBegin ==
  /\ Free(Leader) /\ phase = "idle" /\ ~ cooling
  /\ chore_pending = {}
  /\ \A m \in Members : pc[m] # "chore"
  /\ \E distant \in SUBSET Allies : stragglers' = stragglers \cup distant
  /\ Goes(Leader, "screening")
  /\ UNCHANGED <<phase, target, staged, detached, failures, clock_vars, goal, invited,
                 chore_pending, world_vars, restarts>>

ScreenEnd ==
  /\ pc[Leader] = "screening"
  /\ Goes(Leader, "top")
  /\ \/ \E group \in Groups :
          /\ phase' = "staging"
          /\ target' = group
          /\ staged' = NobodyStaged
          /\ stage_overdue' = FALSE
     \/ UNCHANGED <<phase, target, staged, stage_overdue>>
  /\ UNCHANGED <<stragglers, detached, failures, position, active_fresh, cooling, goal,
                 invited, chore_pending, world_vars, restarts>>

WalkBegin ==
  /\ Free(Leader) /\ phase = "staging"
  /\ Goes(Leader, "walking")
  /\ UNCHANGED <<party_vars, clock_vars, goal, invited, chore_pending, world_vars, restarts>>

(* A rendezvous that fails: after MaxFailures of them the party cools down. *)
StageTimeout ==
  /\ failures' = IF failures + 1 >= MaxFailures THEN 0 ELSE failures + 1
  /\ cooling' = (cooling \/ failures + 1 >= MaxFailures)
  /\ ResetRendezvous
  /\ Goes(Leader, "top")
  /\ UNCHANGED <<stragglers, invited>>

(* Everyone is staged and the leader reaches the group: engage_target. *)
Engage ==
  /\ Goes(Leader, "engaging")
  /\ invited' = Allies
  /\ UNCHANGED <<phase, target, staged, stragglers, failures, stage_overdue,
                 active_fresh, cooling>>

(* The grace of a leader in position is over: whoever has not staged is
   written off, and the group is screened again without them. *)
WriteOff ==
  /\ stragglers' = stragglers \cup {m \in Allies : staged[m] = NoGroup}
  /\ ResetRendezvous
  /\ Goes(Leader, "top")
  /\ UNCHANGED <<failures, cooling, invited>>

StayStaging ==
  /\ Goes(Leader, "top")
  /\ UNCHANGED <<phase, target, staged, stragglers, failures, stage_overdue,
                 active_fresh, cooling, invited>>

(* The order of the checks after a staging leg, whether or not the leg could
   be walked: write off, engage, give up, wait.  A leader that reaches the
   group starts the stragglers' clock, one that does not resets it. *)
Waited(reach) == IF ~ reach THEN "away"
                 ELSE IF position = "away" THEN "in" ELSE position

Pending == {m \in Allies : staged[m] = NoGroup}

Arrive(reach) ==
  \/ /\ Pending # {} /\ Waited(reach) = "overdue"
     /\ WriteOff
  \/ /\ Pending = {} /\ reach
     /\ position' = Waited(reach)
     /\ Engage
  \/ /\ Pending # {} => Waited(reach) # "overdue"
     /\ Pending = {} => ~ reach
     /\ \/ stage_overdue /\ StageTimeout
        \/ ~ stage_overdue /\ position' = Waited(reach) /\ StayStaging

(* Mutant: a paused leg returns before the checks. *)
WalkEnd_OnlyIfWalked ==
  /\ pc[Leader] = "walking"
  /\ Arrive(TRUE) \/ (UNCHANGED position /\ StayStaging)
  /\ UNCHANGED <<detached, goal, chore_pending, world_vars, restarts>>

WalkEnd ==
  /\ pc[Leader] = "walking"
  /\ \E reach \in BOOLEAN : Arrive(reach)
  /\ UNCHANGED <<detached, goal, chore_pending, world_vars, restarts>>

(* engage_target answers "traveling": someone is hurt, or the leg is not
   provable yet.  The pass returns before the stage timeout is looked at. *)
EngageWaits ==
  /\ pc[Leader] = "engaging"
  /\ Goes(Leader, "top")
  /\ UNCHANGED <<party_vars, clock_vars, goal, invited, chore_pending, world_vars, restarts>>

FightOpens(where) ==
  /\ fight = "none"
  /\ pc' = [m \in Members |-> IF m = Leader THEN where
                             ELSE IF pc[m] \in {"settling", "settled"} THEN "late"
                             ELSE pc[m]]
  /\ fight' = "live"
  /\ seats' = {Leader}
  /\ settled' = FALSE

(* The engage is refused (by the chain, when the leader is still seated), or
   its answer is lost.  Either way it counts as a failure, but only a stage
   timeout compares the count with MaxFailures (a bound: more is the same). *)
EngageFails ==
  /\ pc[Leader] = "engaging"
  /\ \/ Goes(Leader, "top") /\ UNCHANGED <<fight, seats, settled, unanswered>>
     \/ FightOpens("top") /\ unanswered' = TRUE
  /\ failures' = IF failures < MaxFailures THEN failures + 1 ELSE failures
  /\ ResetRendezvous
  /\ UNCHANGED <<stragglers, detached, cooling, goal, invited, chore_pending, view, trip, restarts>>

Engaged ==
  /\ pc[Leader] = "engaging"
  /\ FightOpens("joining")
  /\ UNCHANGED <<party_vars, clock_vars, goal, invited, chore_pending, view, unanswered,
                 trip, restarts>>

(* join_followers: one transaction, all of the invited or none of them.  The
   party is active even when nobody joined.  An invited member that has just
   detached is still on its way to the gate, and is seated with the others. *)
JoinEnd ==
  /\ pc[Leader] = "joining"
  /\ seats' \in {seats, seats \cup invited}
  /\ phase' = "active"
  /\ target' = NoGroup
  /\ staged' = NobodyStaged
  /\ active_fresh' = TRUE
  /\ failures' = 0
  /\ Goes(Leader, "top")
  /\ UNCHANGED <<stragglers, detached, position, stage_overdue, cooling, goal, invited,
                 chore_pending, fight, view, settled, unanswered, trip, restarts>>

(* Mutant: no grace for a fight the projection has yet to show. *)
ClearFinished_AtOnce(m) ==
  /\ Free(m) /\ phase = "active"
  /\ view = "none"
  /\ ResetRendezvous
  /\ UNCHANGED <<stragglers, detached, failures, cooling, pass_vars, world_vars, restarts>>

(* Any member may clear a finished fight, once it had time to show up. *)
ClearFinished(m) ==
  /\ Free(m) /\ phase = "active"
  /\ view = "none" /\ ~ active_fresh
  /\ ResetRendezvous
  /\ UNCHANGED <<stragglers, detached, failures, cooling, pass_vars, world_vars, restarts>>

-----------------------------------------------------------------------------
(* A follower's pass (follower_group_step). *)

(* mark_staged *)
MarkStaged(m, group) ==
  /\ staged' = [staged EXCEPT ![m] = group]
  /\ stragglers' = stragglers \ {m}
  /\ UNCHANGED <<phase, target, detached, failures>>

(* The group is already within reach. *)
StageHere(m) ==
  /\ Free(m) /\ phase = "staging" /\ staged[m] = NoGroup
  /\ MarkStaged(m, target)
  /\ UNCHANGED <<clock_vars, pass_vars, world_vars, restarts>>

(* It is not: one bounded hop toward it. *)
HopBegin(m) ==
  /\ Free(m) /\ phase = "staging" /\ staged[m] = NoGroup
  /\ Goes(m, "hopping")
  /\ goal' = [goal EXCEPT ![m] = target]
  /\ UNCHANGED <<party_vars, clock_vars, invited, chore_pending, world_vars, restarts>>

(* After the hop the reach is tested again, for the target the pass began
   with, whatever has become of the rendezvous meanwhile. *)
HopEnd(m) ==
  /\ pc[m] = "hopping"
  /\ Goes(m, "top")
  /\ goal' = [goal EXCEPT ![m] = NoGroup]
  /\ MarkStaged(m, goal[m]) \/ UNCHANGED party_vars
  /\ UNCHANGED <<clock_vars, invited, chore_pending, world_vars, restarts>>

-----------------------------------------------------------------------------
(* The process starts again: the chain and the detacher's place remain. *)
Restart ==
  /\ restarts < MaxRestarts
  /\ restarts' = restarts + 1
  /\ ResetRendezvous
  /\ stragglers' = {}
  /\ detached' = {}
  /\ failures' = 0
  /\ cooling' = FALSE
  /\ pc' = [m \in Members |-> "top"]
  /\ goal' = NobodyStaged
  /\ invited' = {}
  /\ chore_pending' = {}
  /\ view' = fight
  /\ settled' = FALSE
  /\ trip' \in {FALSE, trip}
  /\ UNCHANGED <<fight, seats, unanswered>>

-----------------------------------------------------------------------------
Clock == StageTimesOut \/ StagingGraceEnds \/ ActiveGraceEnds \/ CooldownEnds

LeaderStep ==
  \/ ScreenBegin \/ ScreenEnd \/ WalkBegin \/ WalkEnd
  \/ EngageWaits \/ EngageFails \/ Engaged \/ JoinEnd

FollowerStep(m) == StageHere(m) \/ HopBegin(m) \/ HopEnd(m)

MemberStep(m) ==
  \/ SettleBegin(m) \/ SettleLands(m) \/ SettleFails(m) \/ SettleAnswers(m)
  \/ SettleLate(m) \/ Beat(m) \/ ChoreBegin(m) \/ ChoreEnd(m) \/ ClearFinished(m)

Next ==
  \/ Clock \/ Project \/ FightEnds
  \/ LeaderStep
  \/ \E m \in Members : MemberStep(m)
  \/ \E m \in Followers : FollowerStep(m)
  \/ Detach \/ ResumeTrip \/ Return
  \/ Restart

Spec == Init /\ [][Next]_vars

(* What the code's scheduling justifies: every timer fires, every await comes
   to an end, the server projects what happened, fights end, and every loop
   goes on with its next pass.  Strong fairness where something else may come
   first any number of times: a hurt side heals and a leg becomes provable, a
   settlement that is retried is accepted, and a trip is followed by a long
   rest at home (cross_world_interval_ms). *)
Fairness ==
  /\ WF_vars(StageTimesOut) /\ WF_vars(ActiveGraceEnds) /\ WF_vars(CooldownEnds)
  /\ WF_vars(Project) /\ WF_vars(FightEnds)
  /\ WF_vars(ScreenEnd) /\ WF_vars(WalkBegin) /\ WF_vars(WalkEnd) /\ WF_vars(JoinEnd)
  /\ SF_vars(EngageFails \/ Engaged)
  /\ WF_vars(pc[Leader] = "engaging" /\ LeaderStep)
  /\ \A m \in Members :
       /\ WF_vars(SettleBegin(m)) /\ SF_vars(SettleLands(m))
       /\ WF_vars(SettleFails(m) \/ SettleAnswers(m) \/ SettleLate(m))
       /\ SF_vars(Beat(m)) /\ WF_vars(ChoreEnd(m)) /\ WF_vars(ClearFinished(m))
  /\ \A m \in Followers : WF_vars(HopEnd(m))
  /\ WF_vars(ResumeTrip) /\ WF_vars(Return)

FairSpec == Spec /\ Fairness

-----------------------------------------------------------------------------
(* Properties *)

(* No member runs a chore while the leader plans a fight or the party has one
   on its hands: active_chores is checked before planning_fight is set, and
   run_chore_tracked looks at the phase and at planning_fight before it adds
   itself to active_chores (session.ts, active_chores and planning_fight). *)
BarrierHolds ==
  RendezvousActive => \A m \in Members : pc[m] # "chore"

(* The leader does not set out for another group while a fight of the party
   is still open, unless the answer to the engage that opened it was lost:
   the grace on an active fight covers the time the projection needs to show
   it (party.ts, active_still_fresh). *)
PlansOnlyWhenFree ==
  pc[Leader] \in {"screening", "walking", "engaging"} /\ fight # "none" => unanswered

(* Every rendezvous comes to an end: it is won, written off, given up or
   fought out (party.ts, the checks after a paused staging leg). *)
RendezvousEnds == (phase # "idle") ~> (phase = "idle")

(* The chore that a settlement schedules for a member is started or refused
   in the end; it does not hold the party for ever (session.ts, the leader's
   wait for party_chore_beat_pending). *)
EveryBeatServed == \A m \in Members : (m \in chore_pending) ~> (m \notin chore_pending)

(* The rendezvous gives the party what its members count on: errands and
   fights exclude each other, and fights come one at a time (session.ts,
   run_chore_tracked and the leader's waits; party.ts, reset_rendezvous). *)
Duty == INSTANCE PartyDuty
          WITH out <- {m \in Members : pc[m] = "chore"}, busy <- RendezvousActive,
               lost <- unanswered
KeepsDuty == Duty!Spec
=============================================================================
