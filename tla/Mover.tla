------------------------------- MODULE Mover -------------------------------
(***************************************************************************)
(* The mover of one character (travel.ts, checkpoint_read.ts).  There is   *)
(* no transaction that walks: the chain keeps a checkpoint of a character, *)
(* and a door (a search of the zone, a gather, an engage, a join) moves it *)
(* to where the character claims to stand, provided that the time since    *)
(* the checkpoint pays for the distance (world_map::travel_ok).  The mover *)
(* streams presence along a walk and keeps its own idea of the checkpoint, *)
(* the anchor.  It learns of the real one from the roster, which lags by   *)
(* minutes, and from a full node, which lags by seconds; its own searches  *)
(* it dates itself.                                                        *)
(*                                                                         *)
(* The world is a line of positions walked at one position per tick.  A    *)
(* checkpoint carries its position, its age in ticks (negative while a     *)
(* harvest roots the character in the future) and its rank among the       *)
(* checkpoints still held by somebody: ages saturate, ranks never lose who *)
(* is newer.  Pets and changes of world are left out.                      *)
(***************************************************************************)
EXTENDS Integers, FiniteSets

CONSTANTS
  Far,          \* the last position of the line
  Cap,          \* the age at which the travel bank covers every distance
  Lead,         \* how far the estimate of chain time may run ahead of it
  Margin,       \* PROOF_MARGIN_MS: how long a proof must already hold
  Root,         \* gather_time_ms: how long a harvest roots the character
  MaxTroubles,  \* events of the kinds the mover is not ready for
  None          \* no anchor: the character has joined no world yet

ASSUME MoverAssumption ==
  /\ {Far, Cap, Lead, Margin, Root, MaxTroubles} \subseteq Nat
  /\ Cap >= Far + Margin /\ Lead <= Margin
  /\ Margin < Root     \* one second (travel.ts:51), at least two (experience.ts:136)
  /\ None \notin [x : Int, age : Int, rank : Int]

VARIABLES
  chk,      \* the checkpoint on chain
  row,      \* the checkpoint of the last roster push
  node,     \* the checkpoint the full node answers with
  clock,    \* whether a sample of the chain clock is fresh enough to use
  left,     \* harvests, foreign doors, lost receipts, wrong dates and losses
            \* of the clock that may still happen
  anchor,   \* the checkpoint the mover measures from
  held,     \* time since the anchor was first observed (anchor_local_ms)
  pose,     \* the position streamed last
  pc,       \* where the loop of the character stands
  why,      \* what ensure_zone or prove_ready was called for
  goal,     \* the position prove_ready was asked about
  dest,     \* where the character wants to search
  tried,    \* reanchor_attempt_pose: this pose was re-anchored already
  unseen,   \* history: the chain holds a checkpoint the mover has not seen
  blind     \* history: the proof was made without a sample of the clock

chainVars == <<chk, row, node, clock, left>>
known     == <<chk, row, node, anchor, held, pose, unseen>>
loopVars  == <<pc, why, goal, dest, tried>>
ghosts    == <<unseen, blind>>
vars      == <<chainVars, anchor, held, pose, loopVars, ghosts>>

Pos      == 0 .. Far
Sentinel == -(Root + Lead + 1)    \* the age of a date that cannot be real
Top      == 9                     \* the rank of that date

Least(a, b)    == IF a < b THEN a ELSE b
Most(a, b)     == IF a < b THEN b ELSE a
Gap(a, b)      == IF a < b THEN b - a ELSE a - b
Aged(c, cap)   == IF c = None \/ c.age = Sentinel THEN c ELSE [c EXCEPT !.age = Least(cap, @ + 1)]
Dated(c)       == [c EXCEPT !.age = Least(0, @)]
Newer(c, d)    == c.rank > d.rank

\* Ranks count only by comparison: they are renumbered whenever one is gone.
Ranks(S)       == {c.rank : c \in S \ {None}}
Renumber(c, R) == IF c = None \/ c.rank = Top THEN c
                  ELSE [c EXCEPT !.rank = Cardinality({r \in R : r < c.rank})]

Hold(chain, push, read, own) ==
  LET R == Ranks({chain, push, read, own})
  IN  /\ chk' = Renumber(chain, R)  /\ row'    = Renumber(push, R)
      /\ node' = Renumber(read, R)  /\ anchor' = Renumber(own, R)

\* A door writes the checkpoint; the mover measures from `own` afterwards.
Commit(newChk, own) == Hold(newChk, row, node, own)

Latest == CHOOSE r \in Ranks({chk, row, node, anchor}) \ {Top} :
            \A q \in Ranks({chk, row, node, anchor}) \ {Top} : q <= r

Written(x, age, rank) == [x |-> x, age |-> age, rank |-> rank]

---------------------------------------------------------------------------
(* The laws of travel.                                                     *)

\* travel_proof_ready and its twin world_map::travel_ok: the time since the
\* checkpoint pays for the distance, and the checkpoint is not in the future.
Provable(c, elapsed, x) == elapsed >= 0 /\ elapsed >= Gap(c.x, x)
ChainProves(x)          == chk.age >= 0 /\ Provable(chk, chk.age, x)

\* effective_now - anchor.at_ms: the smaller of the chain's clock, which may
\* run ahead by `lead`, and of the wall clock since the anchor was observed.
Elapsed(lead) ==
  IF ~clock THEN held
  ELSE IF anchor.age = Sentinel THEN Sentinel ELSE Least(anchor.age + lead, held)

CanReach(x, margin, lead) == anchor # None /\ Provable(anchor, Elapsed(lead) - margin, x)

AheadOfChain(c) == clock /\ c # None /\ c.age = Sentinel

---------------------------------------------------------------------------
(* Learning of the checkpoint.                                             *)

\* sync: whether the checkpoint of a roster push replaces the anchor.
Moved == anchor # None => anchor.x # row.x
Fresher == anchor # None /\ Newer(row, anchor) /\ ~AheadOfChain(row)
\* Before the rule of travel.ts:136-139: nothing replaces a date in the future.
Healed_Never == FALSE
Healed == AheadOfChain(anchor) /\ Newer(anchor, row)

\* A row that predates the anchor never moves the pose backward.
Stale == anchor # None /\ Newer(anchor, row) /\ ~Healed
SyncAdopts == ~Stale /\ (Moved \/ Fresher \/ Healed)

Sync ==
  IF SyncAdopts
  THEN Hold(chk, row, node, row) /\ held' = 0 /\ pose' = row.x /\ unseen' = (row.rank # chk.rank)
  ELSE UNCHANGED known

\* refresh_anchor with should_adopt_checkpoint: the full node's answer is
\* taken when it is newer, and the pose jumps onto it.  The read may fail.
Adopt(lead) ==
  IF anchor = None \/ Newer(node, anchor)
  THEN /\ Hold(chk, row, node, node) /\ pose' = node.x
       /\ held' = (IF clock THEN Least(Cap, Most(0, node.age + lead)) ELSE 0)
       /\ unseen' = (node.rank # chk.rank)
  ELSE UNCHANGED known

Refresh       == \E lead \in 0 .. Lead : Adopt(lead)
RefreshOrFail == Refresh \/ UNCHANGED known

---------------------------------------------------------------------------
Init ==
  /\ \E x \in Pos : chk = Written(x, 0, 0)
  /\ row = Dated(chk) /\ node = chk
  /\ clock = TRUE
  /\ left = MaxTroubles
  /\ anchor = None /\ held = 0 /\ pose = 0
  /\ pc = "idle" /\ why = "arrive" /\ goal = 0 /\ tried = FALSE
  /\ dest \in {0, Far}
  /\ unseen = TRUE /\ blind = FALSE

(* The environment.                                                        *)

Tick ==
  /\ chk' = Aged(chk, Cap) /\ node' = Aged(node, Cap)
  /\ row' = Aged(row, 0) /\ anchor' = Aged(anchor, Cap)
  /\ held' = Least(Cap, held + 1)
  /\ UNCHANGED <<clock, left, pose, loopVars, unseen, blind>>

\* A door nobody tells the mover about: the engage or join of its leader, an
\* entry to a dungeon.  The chain proves its leg like any other.
ForeignDoor ==
  /\ left > 0 /\ left' = left - 1
  /\ \E x \in Pos : ChainProves(x) /\ Commit(Written(x, 0, Latest + 1), anchor)
  /\ unseen' = TRUE
  /\ UNCHANGED <<clock, held, pose, loopVars, blind>>

RowCatchesUp ==
  /\ row # Dated(chk) /\ Hold(chk, Dated(chk), node, anchor)
  /\ UNCHANGED <<clock, left, held, pose, loopVars, ghosts>>

NodeCatchesUp ==
  /\ node # chk /\ Hold(chk, row, chk, anchor)
  /\ UNCHANGED <<clock, left, held, pose, loopVars, ghosts>>

\* The server's first push after a connection can carry a date that is not
\* real (the comment at ANCHOR_FUTURE_SLACK_MS).
SentinelRow ==
  /\ left > 0 /\ left' = left - 1
  /\ Hold(chk, [chk EXCEPT !.age = Sentinel, !.rank = Top], node, anchor)
  /\ UNCHANGED <<clock, held, pose, loopVars, ghosts>>

\* chain_now: a sample older than 30 s is no estimate any more.
ClockExpires == /\ clock /\ clock' = FALSE
                /\ left > 0 /\ left' = left - 1
                /\ UNCHANGED <<chk, row, node, anchor, held, pose, loopVars, ghosts>>
ClockReturns == ~clock /\ clock' = TRUE
                /\ UNCHANGED <<chk, row, node, left, anchor, held, pose, loopVars, ghosts>>

---------------------------------------------------------------------------
(* The loop of the character: a pass syncs the mover, then it either walks *)
(* to its destination and searches there, or harvests where it stands.     *)

\* The freshness gate lets no pass begin without a sample of the clock.
Pass ==
  /\ pc = "idle" /\ clock
  /\ Sync /\ pc' = "start"
  /\ UNCHANGED <<clock, left, why, goal, dest, tried, blind>>

\* gather_once: the receipt is followed by note_rooted, which dates the
\* anchor by the clock's estimate and never makes it earlier.
Keeps(lead)  == anchor # None /\ anchor.age <= -(Root + lead)
Rooted(lead) == IF Keeps(lead) THEN anchor ELSE Written(pose, -(Root + lead), Latest + 2)

\* The harvest is not noted: the mover keeps its bank (travel.ts:67-70).
GatherHere_Unnoted ==
  /\ pc = "start" /\ ChainProves(pose)
  /\ left > 0 /\ left' = left - 1
  /\ Commit(Written(pose, -Root, Latest + 1), anchor)
  /\ unseen' = FALSE /\ pc' = "idle"
  /\ UNCHANGED <<clock, held, pose, why, goal, dest, tried, blind>>

GatherHere ==
  /\ pc = "start" /\ ChainProves(pose)
  /\ left > 0 /\ left' = left - 1
  /\ \E lead \in IF clock THEN 0 .. Lead ELSE {0} :
       /\ Commit(Written(pose, -Root, Latest + 1), Rooted(lead))
       /\ held' = (IF Keeps(lead) THEN held ELSE 0)
  /\ unseen' = FALSE /\ pc' = "idle"
  /\ UNCHANGED <<clock, pose, why, goal, dest, tried, blind>>

\* travel_to begins with a read of the checkpoint, at most every 3 s.
StartLeg ==
  /\ pc = "start" /\ RefreshOrFail
  /\ pc' = "leg" /\ tried' = FALSE
  /\ UNCHANGED <<clock, left, why, goal, dest, blind>>

Next1 == IF pose < dest THEN pose + 1 ELSE pose - 1

StepLeg ==
  /\ pc = "leg" /\ pose # dest
  /\ \E lead \in 0 .. Lead : CanReach(Next1, 0, lead)
  /\ pose' = Next1 /\ tried' = FALSE
  /\ UNCHANGED <<chainVars, anchor, held, pc, why, goal, dest, ghosts>>

\* The bank is spent in the middle of a leg: search the zone underfoot.
Reanchor ==
  /\ pc = "leg" /\ pose # dest /\ anchor # None /\ ~tried
  /\ ~CanReach(Next1, 0, 0)
  /\ tried' = TRUE /\ pc' = "prove" /\ why' = "reanchor" /\ goal' = pose
  /\ UNCHANGED <<chainVars, anchor, held, pose, dest, ghosts>>

Sleep == /\ pc' = "idle" /\ why' = "arrive" /\ goal' = 0 /\ tried' = FALSE
         /\ blind' = FALSE

\* travel_to throws at its deadline, which is far beyond the time a block
\* takes: only an anchor that is missing or in the far future runs into it.
Stall ==
  /\ pc = "leg" /\ pose # dest /\ (anchor = None \/ (tried /\ AheadOfChain(anchor)))
  /\ Sleep
  /\ UNCHANGED <<chainVars, anchor, held, pose, dest, unseen>>

\* Arrived: the caller proves the leg to its destination, then searches.
ArriveLeg ==
  /\ pc = "leg" /\ pose = dest
  /\ pc' = "prove" /\ why' = "arrive" /\ goal' = dest /\ tried' = FALSE
  /\ UNCHANGED <<chainVars, anchor, held, pose, dest, ghosts>>

---------------------------------------------------------------------------
(* prove_ready and ensure_zone.                                            *)

ProveRead ==
  /\ pc = "prove" /\ RefreshOrFail /\ pc' = "wait"
  /\ UNCHANGED <<clock, left, why, goal, dest, tried, blind>>

\* The proof holds, with its margin.  The caller that arrived now calls
\* ensure_zone, which proves again, for the pose it finds.
Proved ==
  /\ pc = "wait"
  /\ \E lead \in 0 .. Lead : CanReach(goal, Margin, lead)
  /\ IF why = "arrive"
     THEN pc' = "prove" /\ why' = "search" /\ goal' = pose /\ UNCHANGED blind
     ELSE pc' = "submit" /\ blind' = ~clock /\ UNCHANGED <<why, goal>>
  /\ UNCHANGED <<chainVars, anchor, held, pose, dest, tried, unseen>>

\* The checkpoint is read again while prove_ready waits.
WaitRead ==
  /\ pc = "wait" /\ ~CanReach(goal, Margin, 0) /\ Refresh
  /\ UNCHANGED <<clock, left, loopVars, blind>>

\* The end of ensure_zone: a leg goes on after another read, a visit is over.
LeaveZone == IF why = "reanchor"
             THEN pc' = "reread" /\ why' = "arrive" /\ goal' = 0 /\ blind' = FALSE /\ UNCHANGED tried
             ELSE Sleep

\* prove_ready gives up after 30 s, longer than any leg of the line needs:
\* again only an anchor that is missing or in the far future gets there.
NotProved ==
  /\ pc = "wait" /\ (anchor = None \/ AheadOfChain(anchor))
  /\ LeaveZone
  /\ UNCHANGED <<chainVars, anchor, held, pose, dest, unseen>>

\* The search executes and its receipt arrives.  The mover dates its anchor
\* by the instant of its proof: earlier than the date the chain wrote, unless
\* its clock ran ahead, and not real if the date it measured from was not.
OwnEstimate ==
  IF anchor.age = Sentinel THEN {Written(pose, Sentinel, Top)}
  ELSE {Written(pose, 0, Latest + 1)}
       \cup {Written(pose, -lead, Latest + 3) : lead \in 1 .. Lead}

SearchLands ==
  /\ pc = "submit" /\ ChainProves(pose)
  /\ \E estimate \in OwnEstimate : Commit(Written(pose, 0, Latest + 2), estimate)
  /\ held' = 0 /\ unseen' = FALSE
  /\ dest' = (IF why = "search" /\ pose = dest THEN Far - dest ELSE dest)
  /\ LeaveZone
  /\ UNCHANGED <<clock, left, pose>>

\* The search executes and its receipt is lost: the call throws.
SearchLost ==
  /\ pc = "submit" /\ ChainProves(pose)
  /\ left > 0 /\ left' = left - 1
  /\ Commit(Written(pose, 0, Latest + 1), anchor)
  /\ unseen' = TRUE /\ Sleep
  /\ UNCHANGED <<clock, held, pose, dest>>

\* The chain refuses the leg (305): the mover reads the checkpoint again.
SearchRefused ==
  /\ pc = "submit" /\ ~ChainProves(pose)
  /\ RefreshOrFail /\ LeaveZone
  /\ UNCHANGED <<clock, left, dest>>

\* Another error: a version mismatch returns, anything else is thrown.
SearchFails ==
  /\ pc = "submit" /\ (Sleep \/ LeaveZone)
  /\ UNCHANGED <<chainVars, anchor, held, pose, dest, unseen>>

Reread ==
  /\ pc = "reread" /\ RefreshOrFail /\ pc' = "leg"
  /\ UNCHANGED <<clock, left, why, goal, dest, tried, blind>>

Environment == Tick \/ ForeignDoor \/ RowCatchesUp \/ NodeCatchesUp \/ SentinelRow
               \/ ClockExpires \/ ClockReturns
Loop == Pass \/ GatherHere \/ StartLeg \/ StepLeg \/ Reanchor \/ Stall \/ ArriveLeg
Zone == ProveRead \/ Proved \/ WaitRead \/ NotProved \/ SearchLands \/ SearchLost
        \/ SearchRefused \/ SearchFails \/ Reread
Next == Environment \/ Loop \/ Zone
Spec == Init /\ [][Next]_vars

(* Fairness.  The loop runs on, time passes, pushes and reads are answered *)
(* now and then, and a search that is accepted is not refused for another  *)
(* reason for ever.  The full node catches up during the sleep between two *)
(* passes, not only in the middle of legs.                                 *)
Runs == Pass \/ StartLeg \/ StepLeg \/ Reanchor \/ Stall \/ ArriveLeg \/ ProveRead
        \/ SearchRefused \/ SearchFails \/ Reread

FairSpec ==
  /\ Spec
  /\ WF_vars(Tick) /\ WF_vars(RowCatchesUp) /\ WF_vars(ClockReturns)
  /\ WF_vars(Runs) /\ SF_vars(Proved \/ NotProved)
  /\ SF_vars(SearchLands /\ why = "search" /\ pose = dest)
  /\ SF_vars(NodeCatchesUp /\ pc = "idle") /\ SF_vars(StartLeg /\ Refresh /\ node = chk)
  /\ SF_vars(NodeCatchesUp /\ pc = "reread") /\ SF_vars(Reread /\ Refresh /\ node = chk)

---------------------------------------------------------------------------
(* What the mover must keep.                                               *)

\* A search submitted on a proof of the mover is accepted by the chain, if
\* the mover knows the checkpoint and had a sample of the clock: the anchor
\* dated by the instant of the proof never buys more than the chain grants.
ProvedLegIsAccepted ==
  pc = "submit" /\ ~unseen /\ ~blind => ChainProves(pose)

\* Every walk is completed: however the pushes and reads lag, whatever doors
\* move the character away, it searches its destination in the end.
WalkArrives == dest = Far ~> dest = 0
=============================================================================
