----------------------------- MODULE FightDrive -----------------------------
(***************************************************************************)
(* How the seats of one party play a fight to its end: the driver of       *)
(* bot/src/actions/combat.ts (drive_fight, settle_pending, close_pending)  *)
(* under the per-fight lock and the guards of                              *)
(* bot/src/actions/fight_registry.ts, and the part of every character's    *)
(* pass (bot/src/net/session.ts) that calls them.                          *)
(*                                                                         *)
(* The characters loop concurrently, and each submits from what the        *)
(* server has shown so far: the checkpoint stream (fight_state) and the    *)
(* rows (roster, resolutions, closable fights) lag behind the chain, each  *)
(* by an amount of its own.  A reconnect shows the rows of a fight that    *)
(* ended meanwhile and no checkpoint of it.                                *)
(*                                                                         *)
(* The chain seats every fighter on a free start cell (fight/commands.ts,  *)
(* join), so the driver has nothing to place: placement is `ready`.  Mobs  *)
(* play within the transaction that ends a character's turn.               *)
(***************************************************************************)
EXTENDS Naturals, Sequences

CONSTANTS
  Seats,        (* the party's seats                                       *)
  NoSeat,
  EmptyTurns,   (* the turns for which the planner finds nothing to do     *)
  MaxTurns,     (* a bound of the model: the last turn ends the fight      *)
  MaxRestarts   (* a bound of the model: how often the process may die, or *)
                (* lose an answer                                          *)

ASSUME FightAssumption ==
  /\ Seats # {} /\ NoSeat \notin Seats
  /\ MaxTurns \in Nat \ {0}
  /\ EmptyTurns \subseteq Nat
  /\ MaxRestarts \in Nat

VARIABLES
  history,      (* the contract's successive states                        *)
  shown,        (* the one the latest checkpoint shows                     *)
  known,        (* the one the rows show                                   *)
  pc,           (* where each seat's pass stands                           *)
  request,      (* the transaction a seat awaits                           *)
  reply,        (* and what became of it                                   *)
  ahead, tail,  (* with_lock: the entry a seat waits for; the last entry   *)
  readied, committed, settlement_done,   (* the guards of the registry     *)
  refusing,     (* an answer was lost: the SDK sends nothing more          *)
  adrift,       (* what may still land though nobody waits for it          *)
  applied,      (* for each turn committed: the turn it was planned on     *)
  restarts

chain_vars == <<history, applied>>
view_vars  == <<shown, known>>
pass_vars  == <<pc, request, reply>>
lock_vars  == <<ahead, tail>>
guard_vars == <<readied, committed, settlement_done>>
fail_vars  == <<refusing, adrift, restarts>>
vars == <<chain_vars, view_vars, pass_vars, lock_vars, guard_vars, fail_vars>>

Contract   == history[Len(history)]
Checkpoint == history[shown]
Rows       == history[known].stage

Stages == {"placement", "turns", "ended", "settled", "closed"}
Ops == {"ready", "commit_turn", "settle", "close", "close_pending"}
Contracts == [stage : Stages, ready : SUBSET Seats, turn : 0 .. MaxTurns,
              actor : Seats \cup {NoSeat}]
Requests == [op : Ops, seat : Seats, turn : 0 .. MaxTurns, moves : BOOLEAN]
NoRequest == [op |-> "none", seat |-> NoSeat, turn |-> 0, moves |-> FALSE]

TypeOK ==
  /\ history \in Seq(Contracts) /\ shown \in 1 .. Len(history) /\ known \in 1 .. Len(history)
  /\ pc \in [Seats -> {"top", "settle_wait", "drive_wait", "submitting"}]
  /\ request \in [Seats -> Requests \cup {NoRequest}]
  /\ \A s \in Seats : request[s] # NoRequest <=> pc[s] = "submitting"
  /\ reply \in [Seats -> {"none", "waiting", "executed", "closable", "refused"}]
  /\ ahead \in [Seats -> Seats \cup {NoSeat}] /\ tail \in Seats \cup {NoSeat}
  /\ readied \subseteq Seats /\ committed \in 0 .. MaxTurns
  /\ settlement_done \in BOOLEAN /\ refusing \in BOOLEAN
  /\ adrift \subseteq Requests
  /\ applied \subseteq (1 .. MaxTurns) \X (1 .. MaxTurns)
  /\ restarts \in 0 .. MaxRestarts

Init ==
  /\ history = <<[stage |-> "placement", ready |-> {}, turn |-> 0, actor |-> NoSeat]>>
  /\ shown = 1
  /\ known = 1
  /\ pc = [s \in Seats |-> "top"]
  /\ request = [s \in Seats |-> NoRequest]
  /\ reply = [s \in Seats |-> "none"]
  /\ ahead = [s \in Seats |-> NoSeat]
  /\ tail = NoSeat
  /\ readied = {}
  /\ committed = 0
  /\ settlement_done = FALSE
  /\ refusing = FALSE
  /\ adrift = {}
  /\ applied = {}
  /\ restarts = 0

-----------------------------------------------------------------------------
(* The chain and the streams *)

(* Being ready twice changes nothing while the placement is open. *)
Accepts(r) ==
  \/ r.op = "ready"       /\ Contract.stage = "placement"
  \/ r.op = "commit_turn" /\ Contract.stage = "turns"
  \/ r.op = "settle"      /\ Contract.stage = "ended"
  \/ r.op \in {"close", "close_pending"} /\ Contract.stage = "settled"

(* The turns that may come next: whoever of the party still stands.  A
   turn's identity (round, pointer, start time) is its number here. *)
NextTurns == {[Contract EXCEPT !.stage = "turns", !.turn = @ + 1, !.actor = s] : s \in Seats}

Ended == [Contract EXCEPT !.stage = "ended"]

(* ready_and_start: the last one to be ready starts the fight.  A final
   settlement closes the fight with it, any other leaves it closable. *)
Outcomes(r) ==
  CASE r.op = "ready" ->
         LET ready == Contract.ready \cup {r.seat}
         IN  IF ready = Seats THEN {[c EXCEPT !.ready = ready] : c \in NextTurns}
                              ELSE {[Contract EXCEPT !.ready = ready]}
    [] r.op = "commit_turn" ->
         {Ended} \cup (IF Contract.turn < MaxTurns THEN NextTurns ELSE {})
    [] r.op = "settle" -> {[Contract EXCEPT !.stage = s] : s \in {"settled", "closed"}}
    [] OTHER -> {[Contract EXCEPT !.stage = "closed"]}

Execute(r) ==
  /\ Accepts(r)
  /\ \E c \in Outcomes(r) : history' = Append(history, c)
  /\ applied' = IF r.op = "commit_turn" THEN applied \cup {<<r.turn, Contract.turn>>} ELSE applied

(* The transaction executes; its answer is on the way. *)
Land(s) ==
  /\ reply[s] = "waiting"
  /\ Execute(request[s])
  /\ reply' = [reply EXCEPT ![s] = IF request[s].op = "settle" /\ Contract'.stage = "settled"
                                   THEN "closable" ELSE "executed"]
  /\ UNCHANGED <<view_vars, pc, request, lock_vars, guard_vars, fail_vars>>

(* One that was given up, by a process that may be gone, executes late. *)
LandAdrift(r) ==
  /\ r \in adrift
  /\ Execute(r)
  /\ adrift' = adrift \ {r}
  /\ UNCHANGED <<view_vars, pass_vars, lock_vars, guard_vars, refusing, restarts>>

(* A refusal needs no reason the driver could have known. *)
Refuse(s) ==
  /\ reply[s] = "waiting"
  /\ reply' = [reply EXCEPT ![s] = "refused"]
  /\ UNCHANGED <<chain_vars, view_vars, pc, request, lock_vars, guard_vars, fail_vars>>

(* packet/fight_state; the roster, the resolutions, the closable fights *)
ShowCheckpoint ==
  /\ shown < Len(history)
  /\ shown' = shown + 1
  /\ UNCHANGED <<chain_vars, known, pass_vars, lock_vars, guard_vars, fail_vars>>

ShowRows ==
  /\ known < Len(history)
  /\ known' = known + 1
  /\ UNCHANGED <<chain_vars, shown, pass_vars, lock_vars, guard_vars, fail_vars>>

-----------------------------------------------------------------------------
(* with_lock: an entry runs when the entry that was last before it is over. *)

(* Mutant: nobody waits. *)
WithLock_NoTail(s) ==
  /\ ahead' = ahead
  /\ tail' = s

WithLock(s) ==
  /\ ahead' = [ahead EXCEPT ![s] = tail]
  /\ tail' = s

(* The entry of s is over, whether it resolved or threw. *)
Unlock(s) ==
  /\ ahead' = [t \in Seats |-> IF ahead[t] = s THEN NoSeat ELSE ahead[t]]
  /\ tail' = IF tail = s THEN NoSeat ELSE tail

(* drop: the registry forgets the fight, the tail of its lock included. *)
UnlockAndDrop(s) ==
  /\ ahead' = [t \in Seats |-> IF ahead[t] = s THEN NoSeat ELSE ahead[t]]
  /\ tail' = NoSeat
  /\ readied' = {}
  /\ committed' = 0

(* The pass of s is over. *)
Back(s) ==
  /\ pc' = [pc EXCEPT ![s] = "top"]
  /\ request' = [request EXCEPT ![s] = NoRequest]
  /\ reply' = [reply EXCEPT ![s] = "none"]

(* A door call; after a lost answer the SDK refuses it at once. *)
Send(s, op, turn, moves) ==
  IF refusing
  THEN Back(s) /\ Unlock(s)
  ELSE /\ pc' = [pc EXCEPT ![s] = "submitting"]
       /\ request' = [request EXCEPT ![s] =
                        [op |-> op, seat |-> s, turn |-> turn, moves |-> moves]]
       /\ reply' = [reply EXCEPT ![s] = "waiting"]
       /\ UNCHANGED lock_vars

-----------------------------------------------------------------------------
(* A pass of s up to the lock (run_pass, settle_pending, drive_fight). *)

SettlementDue == Rows = "ended" /\ ~ settlement_done

(* Someone owes the settlement of an ended fight, by the rows. *)
AskToSettle(s) ==
  /\ pc[s] = "top" /\ SettlementDue
  /\ pc' = [pc EXCEPT ![s] = "settle_wait"]
  /\ WithLock(s)
  /\ UNCHANGED <<chain_vars, view_vars, request, reply, guard_vars, fail_vars>>

(* close_pending, outside the lock. *)
ClosePending(s) ==
  /\ pc[s] = "top" /\ Rows = "settled" /\ ~ refusing
  /\ Send(s, "close_pending", 0, FALSE)
  /\ UNCHANGED <<chain_vars, view_vars, guard_vars, fail_vars>>

(* The roster shows the character in the fight. *)
AskToDrive(s) ==
  /\ pc[s] = "top" /\ Rows \in {"placement", "turns", "ended"} /\ ~ SettlementDue
  /\ pc' = [pc EXCEPT ![s] = "drive_wait"]
  /\ WithLock(s)
  /\ UNCHANGED <<chain_vars, view_vars, request, reply, guard_vars, fail_vars>>

HasLock(s) == ahead[s] = NoSeat

(* Mutant: settlement_done is not looked at again under the lock. *)
Settle_Unchecked(s) ==
  /\ pc[s] = "settle_wait" /\ HasLock(s)
  /\ Send(s, "settle", 0, FALSE)
  /\ UNCHANGED <<chain_vars, view_vars, guard_vars, fail_vars>>

(* Another seat may have settled the fight while this one queued. *)
Settle(s) ==
  /\ pc[s] = "settle_wait" /\ HasLock(s)
  /\ IF settlement_done THEN Back(s) /\ Unlock(s)
                        ELSE Send(s, "settle", 0, FALSE)
  /\ UNCHANGED <<chain_vars, view_vars, guard_vars, fail_vars>>

-----------------------------------------------------------------------------
(* drive_fight, under the lock, from the checkpoint as it is by then *)

Driving(s) == pc[s] = "drive_wait" /\ HasLock(s) /\ Rows \in {"placement", "turns", "ended"}

(* placement_sent: the checkpoint trails an accepted ready. *)
ReadyDue(s) ==
  /\ Checkpoint.stage = "placement"
  /\ s \notin Checkpoint.ready /\ s \notin readied

(* Mutant: no committed_turn. *)
TurnDue_Again(s) == Checkpoint.stage = "turns" /\ Checkpoint.actor = s

(* committed_turn: so does it an accepted turn. *)
TurnDue(s) ==
  /\ Checkpoint.stage = "turns" /\ Checkpoint.actor = s
  /\ committed # Checkpoint.turn

Ready(s) ==
  /\ Driving(s) /\ ReadyDue(s)
  /\ Send(s, "ready", 0, FALSE)
  /\ UNCHANGED <<chain_vars, view_vars, guard_vars, fail_vars>>

(* Mutant: a turn without actions is not committed. *)
CommitTurn_NoPass(s) ==
  /\ Driving(s) /\ TurnDue(s) /\ Checkpoint.turn \notin EmptyTurns
  /\ \E moves \in BOOLEAN : Send(s, "commit_turn", Checkpoint.turn, moves)
  /\ UNCHANGED <<chain_vars, view_vars, guard_vars, fail_vars>>

(* A turn for which the planner finds nothing is committed all the same. *)
CommitTurn(s) ==
  /\ Driving(s) /\ TurnDue(s)
  /\ \E moves \in BOOLEAN :
       /\ Checkpoint.turn \in EmptyTurns => ~ moves
       /\ Send(s, "commit_turn", Checkpoint.turn, moves)
  /\ UNCHANGED <<chain_vars, view_vars, guard_vars, fail_vars>>

(* Nothing to submit: it is someone else's turn, the turn floor has not been
   reached, a guard holds, the fight is over. *)
NothingDue(s) ==
  /\ pc[s] = "drive_wait" /\ HasLock(s)
  /\ ~ (Driving(s) /\ ReadyDue(s))
  /\ Back(s) /\ Unlock(s)
  /\ UNCHANGED <<chain_vars, view_vars, guard_vars, fail_vars>>

-----------------------------------------------------------------------------
(* The answers *)

(* Mutant: an accepted turn is not remembered. *)
AnswerDrive_Forgets(s) ==
  /\ reply[s] = "executed" /\ request[s].op \in {"ready", "commit_turn"}
  /\ readied' = IF request[s].op = "ready" THEN readied \cup {s} ELSE readied
  /\ Back(s) /\ Unlock(s)
  /\ UNCHANGED <<chain_vars, view_vars, committed, settlement_done, fail_vars>>

(* mark_placement_sent, mark_committed *)
AnswerDrive(s) ==
  /\ reply[s] = "executed" /\ request[s].op \in {"ready", "commit_turn"}
  /\ readied' = IF request[s].op = "ready" THEN readied \cup {s} ELSE readied
  /\ committed' = IF request[s].op = "commit_turn" THEN request[s].turn ELSE committed
  /\ Back(s) /\ Unlock(s)
  /\ UNCHANGED <<chain_vars, view_vars, settlement_done, fail_vars>>

(* prove_move refused a movement (305): what precedes it is sent instead. *)
AnswerMoveRefused(s) ==
  /\ reply[s] = "refused" /\ request[s].moves
  /\ Send(s, "commit_turn", request[s].turn, FALSE)
  /\ UNCHANGED <<chain_vars, view_vars, guard_vars, fail_vars>>

(* Any other refusal ends the pass; settle_one answers null. *)
AnswerRefused(s) ==
  /\ reply[s] = "refused" /\ request[s].op \in {"ready", "commit_turn", "settle"}
  /\ Back(s) /\ Unlock(s)
  /\ UNCHANGED <<chain_vars, view_vars, guard_vars, fail_vars>>

(* settle_one: mark_settlement_done, close what is left to close, drop. *)
AnswerSettle(s) ==
  /\ request[s].op = "settle"
  /\ settlement_done' = TRUE
  /\ \/ /\ reply[s] = "executed"
        /\ Back(s) /\ UnlockAndDrop(s)
     \/ /\ reply[s] = "closable"
        /\ request' = [request EXCEPT ![s].op = "close"]
        /\ reply' = [reply EXCEPT ![s] = "waiting"]
        /\ UNCHANGED <<pc, lock_vars, readied, committed>>
  /\ UNCHANGED <<chain_vars, view_vars, fail_vars>>

(* close_fight swallows its errors. *)
AnswerClose(s) ==
  /\ reply[s] \in {"executed", "refused"}
  /\ \/ request[s].op = "close" /\ UnlockAndDrop(s)
     \/ request[s].op = "close_pending" /\ UNCHANGED <<lock_vars, readied, committed>>
  /\ Back(s)
  /\ UNCHANGED <<chain_vars, view_vars, settlement_done, fail_vars>>

-----------------------------------------------------------------------------
(* Failures *)

Unanswered == {request[s] : s \in {t \in Seats : reply[t] = "waiting"}}

(* The answer is lost ("transaction outcome unknown"); from here on the SDK
   refuses every call of this process. *)
LoseAnswer(s) ==
  /\ restarts < MaxRestarts /\ ~ refusing
  /\ reply[s] \in {"waiting", "executed", "closable"}
  /\ refusing' = TRUE
  /\ adrift' = IF reply[s] = "waiting" THEN adrift \cup {request[s]} ELSE adrift
  /\ Back(s)
  /\ \/ request[s].op = "close" /\ UnlockAndDrop(s)
     \/ request[s].op = "close_pending" /\ UNCHANGED <<lock_vars, readied, committed>>
     \/ request[s].op \notin {"close", "close_pending"} /\ Unlock(s)
        /\ UNCHANGED <<readied, committed>>
  /\ UNCHANGED <<chain_vars, view_vars, settlement_done, restarts>>

(* The process dies and starts again, with the server's projection. *)
Restart ==
  /\ restarts < MaxRestarts
  /\ restarts' = restarts + 1
  /\ refusing' = FALSE
  /\ adrift' = adrift \cup Unanswered
  /\ pc' = [s \in Seats |-> "top"]
  /\ request' = [s \in Seats |-> NoRequest]
  /\ reply' = [s \in Seats |-> "none"]
  /\ ahead' = [s \in Seats |-> NoSeat]
  /\ tail' = NoSeat
  /\ readied' = {}
  /\ committed' = 0
  /\ settlement_done' = FALSE
  /\ UNCHANGED <<chain_vars, view_vars>>

-----------------------------------------------------------------------------
Enter(s)  == Settle(s) \/ Ready(s) \/ CommitTurn(s) \/ NothingDue(s)

Answer(s) == \/ AnswerDrive(s) \/ AnswerMoveRefused(s) \/ AnswerRefused(s)
             \/ AnswerSettle(s) \/ AnswerClose(s)

Pass(s) == AskToSettle(s) \/ ClosePending(s) \/ AskToDrive(s) \/ Enter(s) \/ Answer(s)

Next ==
  \/ \E s \in Seats : Pass(s) \/ Land(s) \/ Refuse(s) \/ LoseAnswer(s)
  \/ \E r \in adrift : LandAdrift(r)
  \/ ShowCheckpoint \/ ShowRows
  \/ Restart

Spec == Init /\ [][Next]_vars

(* The loops go on, every wait is answered, the streams catch up, a process
   that can send no more is restarted.  Strong fairness where the pass may
   find something else any number of times: the turn floor is reached, and a
   transaction is not refused for ever. *)
Fairness ==
  /\ WF_vars(ShowCheckpoint) /\ WF_vars(ShowRows)
  /\ WF_vars(refusing /\ Restart)
  /\ \A s \in Seats :
       /\ WF_vars(Pass(s)) /\ SF_vars(CommitTurn(s)) /\ SF_vars(Land(s))
       /\ WF_vars(Refuse(s) \/ Answer(s))

FairSpec == Spec /\ Fairness

-----------------------------------------------------------------------------
(* Properties *)

Locked(s) == pc[s] = "submitting" /\ request[s].op # "close_pending"

(* Until the fight is settled only one seat at a time has a transaction of it
   under way, stranded fights being closed aside: the lock passes from entry
   to entry whatever becomes of them (fight_registry.ts, with_lock). *)
OneSubmitter ==
  ~ settlement_done => \A s, t \in Seats : Locked(s) /\ Locked(t) => s = t

(* A turn is applied to the turn it was planned on, never to the next one:
   end_fight_turn names the fight and not the turn, and the party's seats
   have one owner, so the chain would take it (combat.ts, committed_turn).
   For a process that was never killed: what an earlier one left adrift may
   land before the checkpoint shows it. *)
PlanFitsTurn == restarts = 0 => \A plan \in applied : plan[1] = plan[2]

(* Once its settlement was answered, nobody settles the fight again: rows are
   read before the lock, settlement_done after it (combat.ts, settle_pending). *)
SettledOnce ==
  \A s \in Seats : request[s].op = "settle" /\ reply[s] = "waiting" => ~ settlement_done

(* Every fight is played to its end, settled and closed: an empty plan passes
   the turn, a guard is released by the next turn, the lock by every failure
   (combat.ts, drive_fight: an empty turn is "the ONLY way to advance"). *)
FightCloses == <>(Contract.stage = "closed")
=============================================================================
