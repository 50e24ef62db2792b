----------------------------- MODULE DungeonRun -----------------------------
(***************************************************************************)
(* Group runs of one dungeon: bot/src/actions/dungeon_run.ts and the part  *)
(* of every pass (bot/src/net/session.ts) that calls it.                   *)
(*                                                                         *)
(* A run is state of a character on chain: the room it stands in, from 1.  *)
(* The leader commits the party to the dungeon; every committed member     *)
(* walks to the portal and burns a key to enter; the leader opens the room *)
(* once the seats are taken and joins the followers that entered.  The     *)
(* settlement of the fight advances the run or ends it.                    *)
(*                                                                         *)
(* The loops never see the chain: they read the roster (row, busy) and the *)
(* inventory (shown), two packets that trail it and each other.  Positions,*)
(* previews of a fight and content are choices; the timers are flags.      *)
(***************************************************************************)
EXTENDS Naturals, FiniteSets

CONSTANTS
  Members,       (* party.members, none of them detached                   *)
  Leader,        (* party.leader_id                                        *)
  Rooms,         (* how many rooms the dungeon has                         *)
  Keys,          (* the keys the party's kiosk holds at the start          *)
  MinSeats,      (* MIN_GROUP_KEYS                                         *)
  MaxFaults,     (* how many legs, transactions or answers fail (a bound)  *)
  MaxRestarts    (* how often the process dies (a bound)                   *)

Followers == Members \ {Leader}

ASSUME DungeonAssumption ==
  /\ Leader \in Members
  /\ IsFiniteSet(Members)
  /\ Rooms \in Nat \ {0}
  /\ Keys \in Nat
  /\ MinSeats \in Nat \ {0}
  /\ MaxFaults \in Nat /\ MaxRestarts \in Nat

VARIABLES
  (* the chain *)
  run,           (* run[m]: the room m's run stands in; 0: m has no run    *)
  keys,          (* the keys not burned yet                                *)
  fight,         (* the room fight: "none", "open", or ended and unsettled:*)
  seated,        (* "won", "lost"; and the members it holds                *)
  (* the projection *)
  row, busy,     (* packet/characters: the runs, the members in a fight    *)
  shown,         (* packet/inventory: the keys                             *)
  (* party_state.dungeon *)
  commit,        (* its member_ids, one per seat; {}: no commitment        *)
  stalled,       (* room 1 has waited out one of its two limits            *)
  (* the leader's runner *)
  entered_group, (* the answer of its enter arrived                        *)
  started,       (* the room it remembers having opened; 0: none           *)
  starting,      (* START_GRACE_MS runs                                    *)
  tojoin,        (* the followers it still has to join                     *)
  (* the passes *)
  pc,            (* what each member's pass awaits: "walking", "joining"   *)
  entering,      (* the members whose ENTER_GRACE_MS runs                  *)
  faults, restarts

chain_vars  == <<run, keys, fight, seated>>
view_vars   == <<row, busy, shown>>
party_vars  == <<commit, stalled>>
runner_vars == <<entered_group, started, starting, tojoin>>
pass_vars   == <<pc, entering>>
bounds      == <<faults, restarts>>
vars == <<chain_vars, view_vars, party_vars, runner_vars, pass_vars, bounds>>

ChainTypes ==
  /\ run \in [Members -> 0 .. Rooms]
  /\ keys \in 0 .. Keys
  /\ fight \in {"none", "open", "won", "lost"}
  /\ seated \subseteq Members
  /\ fight = "none" <=> seated = {}

ViewTypes ==
  /\ row \in [Members -> 0 .. Rooms]
  /\ busy \subseteq Members
  /\ shown \in 0 .. Keys

RunnerTypes ==
  /\ commit \subseteq Members
  /\ commit # {} => Leader \in commit
  /\ stalled \in BOOLEAN
  /\ entered_group \in BOOLEAN
  /\ started \in 0 .. Rooms
  /\ starting \in BOOLEAN
  /\ tojoin \subseteq Followers

PassTypes ==
  /\ pc \in [Members -> {"idle", "walking", "joining"}]
  /\ \A m \in Members : pc[m] = "joining" <=> m = Leader /\ tojoin # {}
  /\ entering \subseteq Members
  /\ faults \in 0 .. MaxFaults
  /\ restarts \in 0 .. MaxRestarts

TypeOK == ChainTypes /\ ViewTypes /\ RunnerTypes /\ PassTypes

Init ==
  /\ run = [m \in Members |-> 0]
  /\ keys = Keys
  /\ fight = "none"
  /\ seated = {}
  /\ row = run
  /\ busy = {}
  /\ shown = Keys
  /\ commit = {}
  /\ stalled = FALSE
  /\ entered_group = FALSE
  /\ started = 0
  /\ starting = FALSE
  /\ tojoin = {}
  /\ pc = [m \in Members |-> "idle"]
  /\ entering = {}
  /\ faults = 0
  /\ restarts = 0

-----------------------------------------------------------------------------
(* The chain and its projection. *)

(* One leg, transaction or answer goes wrong. *)
Fault == faults < MaxFaults /\ faults' = faults + 1 /\ UNCHANGED restarts

(* A roster packet replaces every row at once. *)
ProjectRoster ==
  /\ row' = run
  /\ busy' = seated
  /\ UNCHANGED <<chain_vars, shown, party_vars, runner_vars, pass_vars, bounds>>

ProjectKeys ==
  /\ shown' = keys
  /\ UNCHANGED <<chain_vars, row, busy, party_vars, runner_vars, pass_vars, bounds>>

(* A room fight lasts longer than the roster takes to show it. *)
FightEnds ==
  /\ fight = "open"
  /\ seated \subseteq busy
  /\ \A m \in seated : row[m] = run[m]
  /\ fight' \in {"won", "lost"}
  /\ UNCHANGED <<run, keys, seated, view_vars, party_vars, runner_vars, pass_vars, bounds>>

(* The pass of some seated member settles all the seats in one transaction. *)
Settle ==
  /\ fight \in {"won", "lost"}
  /\ run' = [m \in Members |->
               IF m \notin seated THEN run[m]
               ELSE IF fight = "won" /\ run[m] < Rooms THEN run[m] + 1 ELSE 0]
  /\ fight' = "none"
  /\ seated' = {}
  /\ UNCHANGED <<keys, view_vars, party_vars, runner_vars, pass_vars, bounds>>

(* The roster catches up with an enter and with a start before their graces
   end: that is what the graces are for. *)
GraceEnds(m) ==
  /\ m \in entering
  /\ row[m] = run[m]
  /\ entering' = entering \ {m}
  /\ UNCHANGED <<chain_vars, view_vars, party_vars, runner_vars, pc, bounds>>

StartGraceEnds ==
  /\ starting
  /\ row[Leader] = run[Leader]
  /\ Leader \in busy <=> Leader \in seated
  /\ starting' = FALSE
  /\ UNCHANGED <<chain_vars, view_vars, party_vars, entered_group, started, tojoin, pass_vars, bounds>>

(* GROUP_ENTER_STALL_MS or GROUP_ENTER_MAX_WAIT_MS have passed.  A late arrival
   restarts only the first, which the flag does not tell from the second. *)
StallPasses ==
  /\ commit # {}
  /\ row[Leader] = 1
  /\ ~ stalled
  /\ stalled' = TRUE
  /\ UNCHANGED <<chain_vars, view_vars, commit, runner_vars, pass_vars, bounds>>

-----------------------------------------------------------------------------
(* enter_run: the way to the portal, then one key for one run. *)

StopWalking(m) == pc' = [pc EXCEPT ![m] = "idle"]

WalkPauses(m) ==
  /\ pc[m] = "walking"
  /\ StopWalking(m)
  /\ Fault
  /\ UNCHANGED <<chain_vars, view_vars, party_vars, runner_vars, entering>>

(* A variant of NoKeyLeft: the leader keeps its commitment. *)
NoKeyLeft_Keeps(m) ==
  /\ pc[m] = "walking"
  /\ shown = 0
  /\ StopWalking(m)
  /\ UNCHANGED <<chain_vars, view_vars, party_vars, runner_vars, entering, bounds>>

(* enter_run answers null, upon which the leader's runner releases the party. *)
NoKeyLeft(m) ==
  /\ pc[m] = "walking"
  /\ shown = 0
  /\ StopWalking(m)
  /\ commit' = IF m = Leader THEN {} ELSE commit
  /\ UNCHANGED <<chain_vars, view_vars, stalled, runner_vars, entering, bounds>>

MayEnter(m) == run[m] = 0 /\ m \notin seated /\ keys > 0

(* The answer of the enter, if it arrives. *)
AnswerEnter(m) ==
  \/ entered_group' = (entered_group \/ m = Leader) /\ UNCHANGED bounds
  \/ Fault /\ UNCHANGED entered_group

(* The grace starts before the transaction is sent. *)
EnterRun(m) ==
  /\ pc[m] = "walking"
  /\ shown > 0
  /\ StopWalking(m)
  /\ entering' = entering \cup {m}
  /\ \/ /\ MayEnter(m)
        /\ run' = [run EXCEPT ![m] = 1]
        /\ keys' = keys - 1
        /\ AnswerEnter(m)
     \/ /\ UNCHANGED <<run, keys, entered_group>>
        /\ Fault \/ (~ MayEnter(m) /\ UNCHANGED bounds)
  /\ UNCHANGED <<fight, seated, view_vars, party_vars, started, starting, tojoin>>

(* dungeon.abandon: refused by the chain while the member sits in a fight. *)
Abandon(m) ==
  \/ run[m] # 0 /\ m \notin seated /\ run' = [run EXCEPT ![m] = 0] /\ UNCHANGED bounds
  \/ Fault /\ UNCHANGED run

-----------------------------------------------------------------------------
(* create_dungeon_runner: the pass of the leader. *)

(* A variant of LeaderFree: run_once does not ask for the leader's fight. *)
LeaderFree_InFight == pc[Leader] = "idle"

LeaderFree == pc[Leader] = "idle" /\ Leader \notin busy

GraceOver(m) == m \notin entering

(* A variant of RunOver: the release does not wait for ENTER_GRACE_MS. *)
RunOver_NoGrace == commit # {} /\ entered_group /\ row[Leader] = 0

(* The run was entered and has cleared: run_once releases the party, and goes
   on in the same pass. *)
RunOver == commit # {} /\ entered_group /\ row[Leader] = 0 /\ GraceOver(Leader)

LeaderReleases ==
  /\ LeaderFree
  /\ RunOver
  /\ commit' = {}
  /\ entered_group' = FALSE
  /\ UNCHANGED <<chain_vars, view_vars, stalled, started, starting, tojoin, pass_vars, bounds>>

BeginWalk(m) == pc' = IF GraceOver(m) THEN [pc EXCEPT ![m] = "walking"] ELSE pc

(* plan_group_dungeon or plan_mastery_dungeon found a winnable run for the
   members `seats` and the keys for it. *)
LeaderCommits(seats) ==
  /\ LeaderFree
  /\ row[Leader] = 0
  /\ commit = {} \/ RunOver
  /\ Leader \in seats
  /\ Cardinality(seats) >= MinSeats
  /\ shown >= Cardinality(seats)
  /\ commit' = seats
  /\ stalled' = FALSE
  /\ entered_group' = (entered_group /\ ~ RunOver)
  /\ BeginWalk(Leader)
  /\ UNCHANGED <<chain_vars, view_vars, started, starting, tojoin, entering, bounds>>

LeaderWalks ==
  /\ LeaderFree
  /\ row[Leader] = 0
  /\ commit # {} /\ ~ RunOver
  /\ GraceOver(Leader)
  /\ BeginWalk(Leader)
  /\ UNCHANGED <<chain_vars, view_vars, party_vars, runner_vars, entering, bounds>>

Lesser(a, b) == IF a <= b THEN a ELSE b

Present == {m \in commit : row[m] = 1}

Missing == {m \in commit \ {Leader} : row[m] = 0}

Expected == Lesser(Cardinality(commit),
                   Cardinality(Present) + Lesser(Cardinality(Missing), shown))

Room1Gate == Cardinality(Present) >= Expected \/ stalled

(* start_room gets as far as its preview. *)
StartDue ==
  /\ LeaderFree
  /\ row[Leader] # 0
  /\ commit # {} /\ row[Leader] = 1 => Room1Gate
  /\ started # row[Leader]
  /\ ~ starting

Invited == {m \in Followers : row[m] # 0}

MayStart == run[Leader] = row[Leader] /\ fight = "none"

(* The answer of start_fight: the room is remembered, and the pass goes on to
   join_dungeon_followers. *)
AnswerStart ==
  \/ /\ started' = row[Leader]
     /\ tojoin' = Invited
     /\ pc' = IF Invited = {} THEN pc ELSE [pc EXCEPT ![Leader] = "joining"]
     /\ UNCHANGED bounds
  \/ Fault /\ UNCHANGED <<started, tojoin, pc>>

StartRoom ==
  /\ StartDue
  /\ starting' = TRUE
  /\ \/ MayStart /\ fight' = "open" /\ seated' = {Leader} /\ AnswerStart
     \/ /\ UNCHANGED <<fight, seated, started, tojoin, pc>>
        /\ Fault \/ (~ MayStart /\ UNCHANGED bounds)
  /\ UNCHANGED <<run, keys, view_vars, party_vars, entered_group, entering>>

(* The preview says the room cannot be won at full health. *)
AbandonRoom ==
  /\ StartDue
  /\ Abandon(Leader)
  /\ UNCHANGED <<keys, fight, seated, view_vars, party_vars, runner_vars, pass_vars>>

MayJoin(m) == fight = "open" /\ m \notin seated /\ run[m] = run[Leader]

(* One dungeon.join_fight per follower; a refused one is skipped. *)
JoinOne(m) ==
  /\ m \in tojoin
  /\ tojoin' = tojoin \ {m}
  /\ pc' = IF tojoin' = {} THEN [pc EXCEPT ![Leader] = "idle"] ELSE pc
  /\ \/ MayJoin(m) /\ seated' = seated \cup {m} /\ UNCHANGED bounds
     \/ UNCHANGED seated /\ (Fault \/ (~ MayJoin(m) /\ UNCHANGED bounds))
  /\ UNCHANGED <<run, keys, fight, view_vars, party_vars, entered_group, started, starting, entering>>

-----------------------------------------------------------------------------
(* follower_dungeon_step: the pass of a follower. *)

FollowerFree(m) == m # Leader /\ pc[m] = "idle" /\ m \notin busy

(* A variant of StaleRun: only a commitment to other members is looked at. *)
StaleRun_WithGroup(m) ==
  row[m] # 0 /\ commit # {} /\ m \notin commit /\ row[Leader] = 0

(* A run neither the committed group nor the leader is driving is given up. *)
StaleRun(m) == row[m] # 0 /\ commit = {} /\ row[Leader] = 0

AbandonStale(m) ==
  /\ FollowerFree(m)
  /\ StaleRun(m)
  /\ Abandon(m)
  /\ UNCHANGED <<keys, fight, seated, view_vars, party_vars, runner_vars, pass_vars>>

FollowerWalks(m) ==
  /\ FollowerFree(m)
  /\ row[m] = 0
  /\ m \in commit
  /\ shown > 0
  /\ Cardinality(Present) < Cardinality(commit)
  /\ GraceOver(m)
  /\ BeginWalk(m)
  /\ UNCHANGED <<chain_vars, view_vars, party_vars, runner_vars, entering, bounds>>

-----------------------------------------------------------------------------
(* A new process knows no commitment, no memo and no grace. *)
Restart ==
  /\ restarts < MaxRestarts
  /\ restarts' = restarts + 1
  /\ commit' = {}
  /\ stalled' = FALSE
  /\ entered_group' = FALSE
  /\ started' = 0
  /\ starting' = FALSE
  /\ tojoin' = {}
  /\ pc' = [m \in Members |-> "idle"]
  /\ entering' = {}
  /\ UNCHANGED <<chain_vars, view_vars, faults>>

Arrive(m) == WalkPauses(m) \/ NoKeyLeft(m) \/ EnterRun(m)

LeaderStep ==
  \/ LeaderReleases
  \/ \E seats \in SUBSET Members : LeaderCommits(seats)
  \/ LeaderWalks
  \/ StartRoom
  \/ AbandonRoom
  \/ \E m \in Followers : JoinOne(m)

FollowerStep(m) == AbandonStale(m) \/ FollowerWalks(m)

Environment ==
  \/ ProjectRoster
  \/ ProjectKeys
  \/ FightEnds
  \/ Settle
  \/ \E m \in Members : GraceEnds(m)
  \/ StartGraceEnds
  \/ StallPasses

Next ==
  \/ LeaderStep
  \/ \E m \in Followers : FollowerStep(m)
  \/ \E m \in Members : Arrive(m)
  \/ Environment
  \/ Restart

Spec == Init /\ [][Next]_vars

(* Every loop keeps passing, packets keep arriving, timers expire and fights
   end.  Whether the leader commits is its own choice. *)
Fairness ==
  /\ WF_vars(LeaderReleases) /\ WF_vars(LeaderWalks) /\ WF_vars(StartRoom)
  /\ \A m \in Followers :
       WF_vars(JoinOne(m)) /\ WF_vars(AbandonStale(m)) /\ WF_vars(FollowerWalks(m))
  /\ \A m \in Members : WF_vars(Arrive(m)) /\ WF_vars(GraceEnds(m))
  /\ WF_vars(ProjectRoster) /\ WF_vars(ProjectKeys)
  /\ WF_vars(FightEnds) /\ WF_vars(Settle)
  /\ WF_vars(StartGraceEnds) /\ WF_vars(StallPasses)

FairSpec == Spec /\ Fairness

-----------------------------------------------------------------------------
(* Properties that hold. *)

(* A leader that entered does not let the party go, or commit it anew, while
   its run is live on chain: a roster that does not show the run yet is never
   taken for a run that is over (entered_group, ENTER_GRACE_MS). *)
ReleaseAfterRun ==
  [][entered_group /\ commit # {} /\ commit' # commit /\ restarts' = restarts
     => run[Leader] = 0]_vars

(* A room is never started against a counter the chain has advanced: the room
   start_fight names is the one the run stands in, unless the run is gone. *)
RightRoom ==
  [][~ starting /\ starting' => run[Leader] \in {0, row[Leader]}]_vars

(* A follower with a run and a leader without one do not stay so: the follower
   gives the run up, or the leader takes one up (follower_dungeon_step: "so a
   follower never sits rooted at a portal"). *)
NoOrphanedRun ==
  \A m \in Followers :
    (run[m] # 0 /\ run[Leader] = 0) ~> (run[m] = 0 \/ run[Leader] # 0)

(* A commitment, which holds every pass of the party at the portal, is served
   by a run of the leader or released. *)
CommitServed == commit # {} ~> commit = {} \/ run[Leader] # 0

-----------------------------------------------------------------------------
(* What a comment of the code says, and the code does not do. *)

(* "rather than keep a character rooted at the portal forever"
   (dungeon_run.ts:848): the leader does not stand in a room for ever without
   opening its fight. *)
NeverRooted == run[Leader] # 0 ~> run[Leader] = 0 \/ fight # "none"
=============================================================================
