------------------------- MODULE DungeonRun_proofs -------------------------
(***************************************************************************)
(* Proofs about DungeonRun, for any party, any number of rooms and keys,   *)
(* and any number of faults and restarts.                                  *)
(***************************************************************************)
EXTENDS DungeonRun, TLAPS

(* The inductive invariant, in named parts. *)

(* A leader on its way to the portal is committed and has not entered, and
   entering is only remembered under a commitment. *)
WalksToEnter ==
  /\ pc[Leader] = "walking" => commit # {} /\ ~ entered_group
  /\ entered_group => commit # {}

(* A run the leader knows it entered, and the roster does not show yet, is
   recent. *)
UnseenIsRecent ==
  entered_group /\ run[Leader] # 0 /\ row[Leader] = 0 => Leader \in entering

(* A room fight seats the leader, and only members with a run; once it has
   ended, the roster shows all of them in it. *)
SeatsHaveRuns ==
  /\ \A m \in seated : run[m] # 0
  /\ fight # "none" => Leader \in seated
  /\ fight \in {"won", "lost"} => seated \subseteq busy

(* While the roster shows the leader in a run and in no fight, the chain has
   not advanced that run; and a leader on its way has not lost it either. *)
RowHolds ==
  Leader \notin busy /\ row[Leader] # 0 =>
    /\ run[Leader] \in {0, row[Leader]}
    /\ pc[Leader] = "walking" => run[Leader] = row[Leader]

IInv == TypeOK /\ WalksToEnter /\ UnseenIsRecent /\ SeatsHaveRuns /\ RowHolds

-----------------------------------------------------------------------------
USE DEF vars, chain_vars, view_vars, party_vars, runner_vars, pass_vars, bounds, Followers

(* At the start nobody runs, and nothing is committed. *)
LEMMA InitEstablishesIInv == Init => IInv
<1> SUFFICES ASSUME Init PROVE IInv
  OBVIOUS
<1>1. TypeOK
  <2>1. 0 \in 0 .. Rooms /\ Keys \in 0 .. Keys
    BY DungeonAssumption
  <2>2. 0 \in 0 .. MaxFaults /\ 0 \in 0 .. MaxRestarts
    BY DungeonAssumption
  <2> QED
    BY <2>1, <2>2 DEF Init, TypeOK, ChainTypes, ViewTypes, RunnerTypes, PassTypes
<1>2. WalksToEnter /\ UnseenIsRecent /\ SeatsHaveRuns /\ RowHolds
  BY DungeonAssumption DEF Init, WalksToEnter, UnseenIsRecent, SeatsHaveRuns, RowHolds
<1> QED
  BY <1>1, <1>2 DEF IInv

-----------------------------------------------------------------------------
(* The case analysis on a step, used by each of the lemmas below. *)
LEMMA NextCases ==
  ASSUME [Next]_vars
  PROVE  \/ ProjectRoster \/ ProjectKeys \/ FightEnds \/ Settle
         \/ StartGraceEnds \/ StallPasses
         \/ \E m \in Members : GraceEnds(m) \/ WalkPauses(m) \/ NoKeyLeft(m) \/ EnterRun(m)
         \/ LeaderReleases \/ LeaderWalks \/ StartRoom \/ AbandonRoom
         \/ \E seats \in SUBSET Members : LeaderCommits(seats)
         \/ \E m \in Followers : JoinOne(m) \/ AbandonStale(m) \/ FollowerWalks(m)
         \/ Restart
         \/ UNCHANGED vars
  BY Zenon DEF Next, LeaderStep, FollowerStep, Arrive, Environment

(* A fault is counted within its bound. *)
LEMMA FaultTyped ==
  ASSUME TypeOK, Fault
  PROVE  faults' \in 0 .. MaxFaults /\ restarts' \in 0 .. MaxRestarts
  BY DungeonAssumption DEF TypeOK, PassTypes, Fault

(* An abandoned run is a run of no room. *)
LEMMA AbandonTyped ==
  ASSUME TypeOK, NEW m \in Members, Abandon(m)
  PROVE  /\ run' \in [Members -> 0 .. Rooms]
         /\ faults' \in 0 .. MaxFaults /\ restarts' \in 0 .. MaxRestarts
<1>1. CASE run' = [run EXCEPT ![m] = 0] /\ UNCHANGED bounds
  BY <1>1, DungeonAssumption DEF TypeOK, ChainTypes, PassTypes
<1>2. CASE Fault /\ UNCHANGED run
  BY <1>2, FaultTyped DEF TypeOK, ChainTypes
<1> QED
  BY <1>1, <1>2 DEF Abandon

-----------------------------------------------------------------------------
(* Types. *)

(* A member that stops walking is idle, and the leader still joins just when
   it has followers to join. *)
LEMMA StopTyped ==
  ASSUME PassTypes, NEW m \in Members, pc[m] = "walking", StopWalking(m),
         UNCHANGED tojoin
  PROVE  /\ pc' \in [Members -> {"idle", "walking", "joining"}]
         /\ \A n \in Members : pc'[n] = "joining" <=> n = Leader /\ tojoin' # {}
  BY DEF PassTypes, StopWalking

(* So is one that an idle member begins, or does not begin, to walk. *)
LEMMA BeginTyped ==
  ASSUME PassTypes, NEW m \in Members, pc[m] = "idle", BeginWalk(m),
         UNCHANGED tojoin
  PROVE  /\ pc' \in [Members -> {"idle", "walking", "joining"}]
         /\ \A n \in Members : pc'[n] = "joining" <=> n = Leader /\ tojoin' # {}
  BY DEF PassTypes, BeginWalk

LEMMA EnvironmentKeepsTypes ==
  ASSUME TypeOK,
         \/ ProjectRoster \/ ProjectKeys \/ FightEnds \/ Settle
         \/ StartGraceEnds \/ StallPasses
         \/ \E m \in Members : GraceEnds(m)
  PROVE  TypeOK'
<1> USE DEF TypeOK, ChainTypes, ViewTypes, RunnerTypes, PassTypes
<1>1. CASE ProjectRoster
  BY <1>1 DEF ProjectRoster
<1>2. CASE ProjectKeys
  BY <1>2 DEF ProjectKeys
<1>3. CASE FightEnds
  BY <1>3 DEF FightEnds
<1>4. CASE Settle
  <2>1. run' \in [Members -> 0 .. Rooms]
    BY <1>4, DungeonAssumption DEF Settle
  <2> QED
    BY <1>4, <2>1 DEF Settle
<1>5. CASE StartGraceEnds
  BY <1>5 DEF StartGraceEnds
<1>6. CASE StallPasses
  BY <1>6 DEF StallPasses
<1>7. CASE \E m \in Members : GraceEnds(m)
  BY <1>7 DEF GraceEnds
<1> QED
  BY <1>1, <1>2, <1>3, <1>4, <1>5, <1>6, <1>7

LEMMA ArriveKeepsTypes ==
  ASSUME TypeOK, NEW m \in Members, WalkPauses(m) \/ NoKeyLeft(m) \/ EnterRun(m)
  PROVE  TypeOK'
<1>1. CASE WalkPauses(m)
  <2>1. PassTypes'
    BY <1>1, StopTyped, FaultTyped DEF WalkPauses, TypeOK, PassTypes
  <2> QED
    BY <1>1, <2>1 DEF WalkPauses, TypeOK, ChainTypes, ViewTypes, RunnerTypes
<1>2. CASE NoKeyLeft(m)
  <2>1. PassTypes'
    BY <1>2, StopTyped DEF NoKeyLeft, TypeOK, PassTypes
  <2> QED
    BY <1>2, <2>1 DEF NoKeyLeft, TypeOK, ChainTypes, ViewTypes, RunnerTypes
<1>3. CASE EnterRun(m)
  <2>1. PassTypes'
    <3>1. faults' \in 0 .. MaxFaults /\ restarts' \in 0 .. MaxRestarts
      BY <1>3, FaultTyped DEF EnterRun, AnswerEnter, TypeOK, PassTypes
    <3>2. entering' \subseteq Members
      BY <1>3 DEF EnterRun, TypeOK, PassTypes
    <3> QED
      BY <1>3, <3>1, <3>2, StopTyped DEF EnterRun, TypeOK, PassTypes
  <2>2. ChainTypes'
    <3>1. CASE MayEnter(m) /\ run' = [run EXCEPT ![m] = 1] /\ keys' = keys - 1
      <4>1. 1 \in 0 .. Rooms /\ keys - 1 \in 0 .. Keys
        BY <3>1, DungeonAssumption DEF MayEnter, TypeOK, ChainTypes
      <4> QED
        BY <1>3, <3>1, <4>1 DEF EnterRun, TypeOK, ChainTypes
    <3>2. CASE UNCHANGED <<run, keys>>
      BY <1>3, <3>2 DEF EnterRun, TypeOK, ChainTypes
    <3> QED
      BY <1>3, <3>1, <3>2 DEF EnterRun
  <2>3. entered_group' \in BOOLEAN
    BY <1>3, Zenon DEF EnterRun, AnswerEnter, TypeOK, RunnerTypes
  <2> QED
    BY <1>3, <2>1, <2>2, <2>3 DEF EnterRun, TypeOK, ViewTypes, RunnerTypes
<1> QED
  BY <1>1, <1>2, <1>3

LEMMA LeaderKeepsTypes ==
  ASSUME TypeOK,
         \/ LeaderReleases \/ LeaderWalks \/ StartRoom \/ AbandonRoom
         \/ \E seats \in SUBSET Members : LeaderCommits(seats)
         \/ \E m \in Followers : JoinOne(m)
  PROVE  TypeOK'
<1>0. Leader \in Members
  BY DungeonAssumption
<1>1. CASE LeaderReleases
  BY <1>1 DEF LeaderReleases, TypeOK, ChainTypes, ViewTypes, RunnerTypes, PassTypes
<1>2. CASE LeaderWalks
  <2>1. PassTypes'
    BY <1>0, <1>2, BeginTyped DEF LeaderWalks, LeaderFree, TypeOK, PassTypes
  <2> QED
    BY <1>2, <2>1 DEF LeaderWalks, TypeOK, ChainTypes, ViewTypes, RunnerTypes
<1>3. CASE StartRoom
  <2>1. faults' \in 0 .. MaxFaults /\ restarts' \in 0 .. MaxRestarts
    BY <1>3, FaultTyped DEF StartRoom, AnswerStart, TypeOK, PassTypes
  <2>2. fight' \in {"none", "open", "won", "lost"} /\ seated' \subseteq Members
        /\ (fight' = "none" <=> seated' = {})
    BY <1>0, <1>3 DEF StartRoom, MayStart, TypeOK, ChainTypes
  <2>3. started' \in 0 .. Rooms /\ tojoin' \subseteq Followers
    BY <1>0, <1>3 DEF StartRoom, AnswerStart, Invited, TypeOK, RunnerTypes, ViewTypes
  <2>4. /\ pc' \in [Members -> {"idle", "walking", "joining"}]
        /\ \A m \in Members : pc'[m] = "joining" <=> m = Leader /\ tojoin' # {}
    <3>1. tojoin = {}
      BY <1>0, <1>3 DEF StartRoom, StartDue, LeaderFree, TypeOK, PassTypes
    <3>2. CASE UNCHANGED <<tojoin, pc>>
      BY <3>2 DEF TypeOK, PassTypes
    <3>3. CASE tojoin' = Invited /\ Invited = {} /\ UNCHANGED pc
      BY <3>1, <3>3 DEF TypeOK, PassTypes
    <3>4. CASE tojoin' = Invited /\ Invited # {} /\ pc' = [pc EXCEPT ![Leader] = "joining"]
      BY <1>0, <3>1, <3>4 DEF TypeOK, PassTypes
    <3> QED
      BY <1>3, <3>2, <3>3, <3>4 DEF StartRoom, AnswerStart
  <2>5. ChainTypes'
    BY <1>3, <2>2 DEF StartRoom, TypeOK, ChainTypes
  <2>6. RunnerTypes'
    BY <1>3, <2>3 DEF StartRoom, TypeOK, RunnerTypes
  <2>7. PassTypes'
    BY <1>3, <2>1, <2>4 DEF StartRoom, TypeOK, PassTypes
  <2> QED
    BY <1>3, <2>5, <2>6, <2>7 DEF StartRoom, TypeOK, ViewTypes
<1>4. CASE AbandonRoom
  BY <1>0, <1>4, AbandonTyped
  DEF AbandonRoom, TypeOK, ChainTypes, ViewTypes, RunnerTypes, PassTypes
<1>5. ASSUME NEW seats \in SUBSET Members, LeaderCommits(seats)
      PROVE  TypeOK'
  <2>1. PassTypes'
    BY <1>0, <1>5, BeginTyped DEF LeaderCommits, LeaderFree, TypeOK, PassTypes
  <2>2. entered_group' \in BOOLEAN
    BY <1>5, Zenon DEF LeaderCommits, TypeOK, RunnerTypes
  <2> QED
    BY <1>5, <2>1, <2>2 DEF LeaderCommits, TypeOK, ChainTypes, ViewTypes, RunnerTypes
<1>6. ASSUME NEW m \in Followers, JoinOne(m)
      PROVE  TypeOK'
  <2>1. faults' \in 0 .. MaxFaults /\ restarts' \in 0 .. MaxRestarts
    BY <1>6, FaultTyped DEF JoinOne, TypeOK, PassTypes
  <2>2. ChainTypes'
    BY <1>6 DEF JoinOne, MayJoin, TypeOK, ChainTypes
  <2>3. PassTypes'
    BY <1>0, <1>6, <2>1 DEF JoinOne, TypeOK, PassTypes
  <2> QED
    BY <1>6, <2>2, <2>3 DEF JoinOne, TypeOK, ViewTypes, RunnerTypes
<1> QED
  BY <1>1, <1>2, <1>3, <1>4, <1>5, <1>6

LEMMA FollowerKeepsTypes ==
  ASSUME TypeOK, NEW m \in Followers, AbandonStale(m) \/ FollowerWalks(m)
  PROVE  TypeOK'
<1>1. CASE AbandonStale(m)
  BY <1>1, AbandonTyped
  DEF AbandonStale, TypeOK, ChainTypes, ViewTypes, RunnerTypes, PassTypes
<1>2. CASE FollowerWalks(m)
  <2>1. PassTypes'
    BY <1>2, BeginTyped DEF FollowerWalks, FollowerFree, TypeOK, PassTypes
  <2> QED
    BY <1>2, <2>1 DEF FollowerWalks, TypeOK, ChainTypes, ViewTypes, RunnerTypes
<1> QED
  BY <1>1, <1>2

LEMMA RestartKeepsTypes ==
  ASSUME TypeOK, Restart
  PROVE  TypeOK'
<1>1. restarts' \in 0 .. MaxRestarts
  BY DungeonAssumption DEF Restart, TypeOK, PassTypes
<1>2. 0 \in 0 .. Rooms
  BY DungeonAssumption
<1> QED
  BY <1>1, <1>2 DEF Restart, TypeOK, ChainTypes, ViewTypes, RunnerTypes, PassTypes

(* TypeOK is inductive by itself. *)
LEMMA StepKeepsTypes ==
  ASSUME TypeOK, [Next]_vars
  PROVE  TypeOK'
<1>1. CASE UNCHANGED vars
  BY <1>1 DEF TypeOK, ChainTypes, ViewTypes, RunnerTypes, PassTypes
<1> QED
  BY <1>1, NextCases, EnvironmentKeepsTypes, ArriveKeepsTypes, LeaderKeepsTypes,
     FollowerKeepsTypes, RestartKeepsTypes

-----------------------------------------------------------------------------
(* The parts about the leader. *)

LEMMA StepKeepsWalksToEnter ==
  ASSUME IInv, [Next]_vars
  PROVE  WalksToEnter'
<1> USE DEF IInv, WalksToEnter
<1>0. Leader \in Members /\ pc \in [Members -> {"idle", "walking", "joining"}]
  BY DungeonAssumption DEF TypeOK, PassTypes
<1>1. CASE \/ ProjectRoster \/ ProjectKeys \/ FightEnds \/ Settle
           \/ StartGraceEnds \/ StallPasses \/ UNCHANGED vars
           \/ \E m \in Members : GraceEnds(m)
  BY <1>1 DEF ProjectRoster, ProjectKeys, FightEnds, Settle, StartGraceEnds,
              StallPasses, GraceEnds
<1>2. ASSUME NEW m \in Members, WalkPauses(m)
      PROVE  WalksToEnter'
  BY <1>0, <1>2 DEF WalkPauses, StopWalking
<1>3. ASSUME NEW m \in Members, NoKeyLeft(m)
      PROVE  WalksToEnter'
  BY <1>0, <1>3 DEF NoKeyLeft, StopWalking
<1>4. ASSUME NEW m \in Members, EnterRun(m)
      PROVE  WalksToEnter'
  <2>1. commit' = commit /\ pc[m] = "walking" /\ pc' = [pc EXCEPT ![m] = "idle"]
    BY <1>4 DEF EnterRun, StopWalking
  <2>2. m # Leader => entered_group' = entered_group
    BY <1>4, <1>0, Zenon DEF EnterRun, AnswerEnter, TypeOK, RunnerTypes
  <2>3. CASE m = Leader
    BY <1>0, <2>1, <2>3
  <2>4. CASE m # Leader
    BY <1>0, <2>1, <2>2, <2>4
  <2> QED
    BY <2>3, <2>4
<1>5. CASE LeaderReleases
  BY <1>5 DEF LeaderReleases, LeaderFree
<1>6. CASE LeaderWalks
  BY <1>0, <1>6 DEF LeaderWalks, RunOver, BeginWalk
<1>7. ASSUME NEW seats \in SUBSET Members, LeaderCommits(seats)
      PROVE  WalksToEnter'
  <2>1. ~ entered_group'
    BY <1>7, Zenon DEF LeaderCommits
  <2>2. commit' # {}
    BY <1>7 DEF LeaderCommits
  <2> QED
    BY <2>1, <2>2
<1>8. CASE StartRoom
  BY <1>0, <1>8 DEF StartRoom, StartDue, LeaderFree, AnswerStart
<1>9. CASE AbandonRoom
  BY <1>9 DEF AbandonRoom
<1>10. ASSUME NEW m \in Followers, JoinOne(m) \/ AbandonStale(m) \/ FollowerWalks(m)
       PROVE  WalksToEnter'
  <2>1. m # Leader /\ commit' = commit /\ entered_group' = entered_group
    BY <1>10 DEF JoinOne, AbandonStale, FollowerWalks
  <2>2. pc'[Leader] = "walking" => pc[Leader] = "walking"
    BY <1>0, <1>10, <2>1 DEF JoinOne, AbandonStale, FollowerWalks, BeginWalk
  <2> QED
    BY <2>1, <2>2
<1>11. CASE Restart
  BY <1>0, <1>11 DEF Restart
<1> QED
  BY NextCases, <1>1, <1>2, <1>3, <1>4, <1>5, <1>6, <1>7, <1>8, <1>9, <1>10, <1>11

LEMMA StepKeepsUnseenIsRecent ==
  ASSUME IInv, [Next]_vars
  PROVE  UnseenIsRecent'
<1> USE DEF IInv, UnseenIsRecent
<1>0. Leader \in Members /\ run \in [Members -> 0 .. Rooms]
  BY DungeonAssumption DEF TypeOK, ChainTypes
<1>1. CASE \/ ProjectRoster \/ ProjectKeys \/ FightEnds
           \/ StartGraceEnds \/ StallPasses \/ UNCHANGED vars
  BY <1>1 DEF ProjectRoster, ProjectKeys, FightEnds, StartGraceEnds, StallPasses
<1>2. CASE Settle
  <2>1. run'[Leader] # 0 => run[Leader] # 0
    BY <1>0, <1>2 DEF Settle, SeatsHaveRuns
  <2> QED
    BY <1>2, <2>1 DEF Settle
<1>3. ASSUME NEW m \in Members, GraceEnds(m)
      PROVE  UnseenIsRecent'
  BY <1>3 DEF GraceEnds
<1>4. ASSUME NEW m \in Members, WalkPauses(m) \/ NoKeyLeft(m)
      PROVE  UnseenIsRecent'
  BY <1>4 DEF WalkPauses, NoKeyLeft
<1>5. ASSUME NEW m \in Members, EnterRun(m)
      PROVE  UnseenIsRecent'
  <2>1. entering' = entering \cup {m} /\ row' = row
    BY <1>5 DEF EnterRun
  <2>2. CASE m = Leader
    BY <2>1, <2>2
  <2>3. CASE m # Leader
    <3>1. entered_group' = entered_group
      BY <1>5, <2>3, Zenon DEF EnterRun, AnswerEnter, TypeOK, RunnerTypes
    <3>2. run'[Leader] = run[Leader]
      BY <1>0, <1>5, <2>3 DEF EnterRun
    <3> QED
      BY <2>1, <3>1, <3>2
  <2> QED
    BY <2>2, <2>3
<1>6. CASE LeaderReleases
  BY <1>6 DEF LeaderReleases
<1>7. CASE LeaderWalks
  BY <1>7 DEF LeaderWalks
<1>8. ASSUME NEW seats \in SUBSET Members, LeaderCommits(seats)
      PROVE  UnseenIsRecent'
  <2>1. ~ entered_group'
    BY <1>8, Zenon DEF LeaderCommits, WalksToEnter
  <2> QED
    BY <2>1
<1>9. CASE StartRoom
  BY <1>9 DEF StartRoom
<1>10. CASE AbandonRoom
  BY <1>0, <1>10 DEF AbandonRoom, Abandon
<1>11. ASSUME NEW m \in Followers, JoinOne(m) \/ AbandonStale(m) \/ FollowerWalks(m)
       PROVE  UnseenIsRecent'
  BY <1>0, <1>11 DEF JoinOne, AbandonStale, FollowerWalks, Abandon
<1>12. CASE Restart
  BY <1>12 DEF Restart
<1> QED
  BY NextCases, <1>1, <1>2, <1>3, <1>4, <1>5, <1>6, <1>7, <1>8, <1>9, <1>10, <1>11, <1>12

LEMMA StepKeepsSeatsHaveRuns ==
  ASSUME IInv, [Next]_vars
  PROVE  SeatsHaveRuns'
<1> USE DEF IInv, SeatsHaveRuns
<1>0. Leader \in Members /\ run \in [Members -> 0 .. Rooms] /\ seated \subseteq Members
  BY DungeonAssumption DEF TypeOK, ChainTypes
<1>1. CASE \/ ProjectRoster \/ ProjectKeys \/ FightEnds
           \/ StartGraceEnds \/ StallPasses \/ UNCHANGED vars
  BY <1>1 DEF ProjectRoster, ProjectKeys, FightEnds, StartGraceEnds, StallPasses
<1>2. CASE Settle
  BY <1>2 DEF Settle
<1>3. ASSUME NEW m \in Members, GraceEnds(m) \/ WalkPauses(m) \/ NoKeyLeft(m)
      PROVE  SeatsHaveRuns'
  BY <1>3 DEF GraceEnds, WalkPauses, NoKeyLeft
<1>4. ASSUME NEW m \in Members, EnterRun(m)
      PROVE  SeatsHaveRuns'
  BY <1>0, <1>4 DEF EnterRun
<1>5. CASE \/ LeaderReleases \/ LeaderWalks
           \/ \E seats \in SUBSET Members : LeaderCommits(seats)
  BY <1>5 DEF LeaderReleases, LeaderWalks, LeaderCommits
<1>6. CASE StartRoom
  BY <1>0, <1>6 DEF StartRoom, MayStart, StartDue
<1>7. CASE AbandonRoom
  BY <1>0, <1>7 DEF AbandonRoom, Abandon
<1>8. ASSUME NEW m \in Followers, JoinOne(m)
      PROVE  SeatsHaveRuns'
  BY <1>0, <1>8 DEF JoinOne, MayJoin
<1>9. ASSUME NEW m \in Followers, AbandonStale(m) \/ FollowerWalks(m)
      PROVE  SeatsHaveRuns'
  BY <1>0, <1>9 DEF AbandonStale, FollowerWalks, Abandon
<1>10. CASE Restart
  BY <1>10 DEF Restart
<1> QED
  BY NextCases, <1>1, <1>2, <1>3, <1>4, <1>5, <1>6, <1>7, <1>8, <1>9, <1>10

LEMMA StepKeepsRowHolds ==
  ASSUME IInv, [Next]_vars
  PROVE  RowHolds'
<1> USE DEF IInv, RowHolds
<1>0. /\ Leader \in Members
      /\ run \in [Members -> 0 .. Rooms]
      /\ pc \in [Members -> {"idle", "walking", "joining"}]
  BY DungeonAssumption DEF TypeOK, ChainTypes, PassTypes
<1>1. CASE \/ ProjectRoster \/ ProjectKeys \/ FightEnds
           \/ StartGraceEnds \/ StallPasses \/ UNCHANGED vars
           \/ \E m \in Members : GraceEnds(m)
  BY <1>1 DEF ProjectRoster, ProjectKeys, FightEnds, StartGraceEnds, StallPasses, GraceEnds
<1>2. CASE Settle
  <2>1. Leader \in seated => Leader \in busy
    BY <1>2 DEF Settle, SeatsHaveRuns
  <2>2. Leader \notin seated => run'[Leader] = run[Leader]
    BY <1>0, <1>2 DEF Settle
  <2> QED
    BY <1>2, <2>1, <2>2 DEF Settle
<1>3. ASSUME NEW m \in Members, WalkPauses(m) \/ NoKeyLeft(m)
      PROVE  RowHolds'
  BY <1>0, <1>3 DEF WalkPauses, NoKeyLeft, StopWalking
<1>4. ASSUME NEW m \in Members, EnterRun(m)
      PROVE  RowHolds'
  <2>1. row' = row /\ busy' = busy /\ pc[m] = "walking" /\ pc' = [pc EXCEPT ![m] = "idle"]
    BY <1>4 DEF EnterRun, StopWalking
  <2>2. run' = run \/ (run[m] = 0 /\ run' = [run EXCEPT ![m] = 1])
    BY <1>4 DEF EnterRun, MayEnter
  <2> QED
    BY <1>0, <2>1, <2>2
<1>5. CASE LeaderReleases
  BY <1>5 DEF LeaderReleases
<1>6. CASE LeaderWalks
  BY <1>6 DEF LeaderWalks
<1>7. ASSUME NEW seats \in SUBSET Members, LeaderCommits(seats)
      PROVE  RowHolds'
  BY <1>7 DEF LeaderCommits
<1>8. CASE StartRoom
  BY <1>0, <1>8 DEF StartRoom, AnswerStart
<1>9. CASE AbandonRoom
  BY <1>0, <1>9 DEF AbandonRoom, Abandon, StartDue, LeaderFree
<1>10. ASSUME NEW m \in Followers, JoinOne(m) \/ AbandonStale(m) \/ FollowerWalks(m)
       PROVE  RowHolds'
  BY <1>0, <1>10 DEF JoinOne, AbandonStale, FollowerWalks, Abandon, BeginWalk
<1>11. CASE Restart
  BY <1>0, <1>11 DEF Restart
<1> QED
  BY NextCases, <1>1, <1>2, <1>3, <1>4, <1>5, <1>6, <1>7, <1>8, <1>9, <1>10, <1>11

LEMMA StepKeepsIInv ==
  ASSUME IInv, [Next]_vars
  PROVE  IInv'
BY StepKeepsTypes, StepKeepsWalksToEnter, StepKeepsUnseenIsRecent,
   StepKeepsSeatsHaveRuns, StepKeepsRowHolds DEF IInv

-----------------------------------------------------------------------------
(* The theorems. *)

(* Every part of the inductive invariant holds in every reachable state. *)
THEOREM Invariance == Spec => []IInv
<1>1. Init => IInv
  BY InitEstablishesIInv
<1>2. IInv /\ [Next]_vars => IInv'
  BY StepKeepsIInv
<1> QED
  BY <1>1, <1>2, PTL DEF Spec

(* The variables keep their types: the rooms stay within the dungeon, the keys
   are never overdrawn, and the leader joins followers only. *)
THEOREM TypeCorrect == Spec => []TypeOK
<1>1. IInv => TypeOK
  BY DEF IInv
<1> QED
  BY <1>1, Invariance, PTL

(* A leader that entered its run keeps the commitment while the run lives. *)
THEOREM CommitmentOutlivesRun == Spec => ReleaseAfterRun
<1> DEFINE Kept == entered_group /\ commit # {} /\ commit' # commit /\ restarts' = restarts
                   => run[Leader] = 0
<1>1. IInv /\ [Next]_vars => [Kept]_vars
  <2> SUFFICES ASSUME IInv, [Next]_vars,
                      entered_group, commit # {}, commit' # commit, restarts' = restarts
               PROVE  run[Leader] = 0
    OBVIOUS
  <2>1. \A m \in Members : ~ NoKeyLeft(m)
    BY DEF NoKeyLeft, IInv, WalksToEnter
  <2>2. ~ Restart
    BY DungeonAssumption DEF Restart, IInv, TypeOK, PassTypes
  <2>3. RunOver
    BY NextCases, <2>1, <2>2
    DEF ProjectRoster, ProjectKeys, FightEnds, Settle, StartGraceEnds, StallPasses,
        GraceEnds, WalkPauses, EnterRun, LeaderReleases, LeaderWalks, StartRoom,
        AbandonRoom, LeaderCommits, JoinOne, AbandonStale, FollowerWalks
  <2> QED
    BY <2>3 DEF RunOver, GraceOver, IInv, UnseenIsRecent
<1> QED
  BY <1>1, Invariance, PTL DEF Spec, ReleaseAfterRun

(* The room a start names is the room of the run, unless the run is gone. *)
THEOREM StartsTheRightRoom == Spec => RightRoom
<1> DEFINE Right == ~ starting /\ starting' => run[Leader] \in {0, row[Leader]}
<1>1. IInv /\ [Next]_vars => [Right]_vars
  <2> SUFFICES ASSUME IInv, [Next]_vars, ~ starting, starting'
               PROVE  run[Leader] \in {0, row[Leader]}
    OBVIOUS
  <2>1. StartRoom
    BY NextCases
    DEF ProjectRoster, ProjectKeys, FightEnds, Settle, StartGraceEnds, StallPasses,
        GraceEnds, WalkPauses, NoKeyLeft, EnterRun, LeaderReleases, LeaderWalks,
        AbandonRoom, LeaderCommits, JoinOne, AbandonStale, FollowerWalks, Restart
  <2> QED
    BY <2>1 DEF StartRoom, StartDue, LeaderFree, IInv, RowHolds
<1> QED
  BY <1>1, Invariance, PTL DEF Spec, RightRoom
=============================================================================
