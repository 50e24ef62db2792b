---------------------------- MODULE Fight_proofs ----------------------------
(***************************************************************************)
(* Proofs about the two halves of a fight. FightDrive: how a party's seats *)
(* drive it, for any party, any number of turns, and any number of         *)
(* restarts and lost answers. FightCalc: what the rules of CombatGrid and  *)
(* FightMath promise the planner, for every board, every level and every   *)
(* authored value.                                                         *)
(***************************************************************************)
EXTENDS FightDrive, FightCalc, SequenceTheorems, FiniteSetTheorems,
        WellFoundedInduction, TLAPS

(***************************************************************************)
(* Driving a fight (FightDrive)                                            *)
(***************************************************************************)

(* The inductive invariant, in named parts. *)

(* A seat that awaits no transaction has no answer either. *)
RepliesAnswer == \A s \in Seats : reply[s] = "none" <=> pc[s] # "submitting"

(* The entries of with_lock: the seats that queue for it, and the one it runs,
   which may be submitting. *)
Submitters == {s \in Seats : Locked(s)}
Entries == {s \in Seats : pc[s] \in {"settle_wait", "drive_wait"}} \cup Submitters

(* The promises of with_lock form chains: an entry waits for an entry, no two
   for the same one, none for the last; only one entry waits for nobody, and
   that is the one whose body may run. *)
Queue ==
  /\ \A s \in Seats : ahead[s] # NoSeat => s \in Entries \ Submitters /\ ahead[s] \in Entries
  /\ \A s, t \in Entries : ahead[s] = ahead[t] => s = t
  /\ IF tail = NoSeat THEN \A s \in Entries : ahead[s] # NoSeat
                      ELSE tail \in Entries /\ \A s \in Seats : ahead[s] # tail

(* The lock is forgotten with the fight, and not before its settlement. *)
LockHolds == ~ settlement_done => Queue

(* The contract goes forward through its stages and its turns. *)
Rank(stage) == CASE stage = "placement" -> 0 [] stage = "turns" -> 1 [] stage = "ended" -> 2
                 [] stage = "settled" -> 3 [] OTHER -> 4

Forward ==
  /\ \A i, j \in 1 .. Len(history) : i <= j =>
       /\ Rank(history[i].stage) <= Rank(history[j].stage)
       /\ history[i].turn <= history[j].turn
  /\ \A i \in 1 .. Len(history) : history[i].stage = "placement" <=> history[i].turn = 0

(* Whoever closes the fight, or knows it settled, is right about it. *)
Closable == Contract.stage \in {"settled", "closed"}

SettlementSound ==
  /\ settlement_done => Closable
  /\ \A s \in Seats :
       /\ request[s].op = "settle" /\ reply[s] \in {"executed", "closable"} => Closable
       /\ request[s].op = "close" => settlement_done
       /\ request[s].op = "close_pending" => Closable
       /\ reply[s] = "closable" => request[s].op = "settle"

(* What the guard holds, and what a seat submits, the checkpoint has shown. *)
PlansAreShown ==
  /\ committed <= Checkpoint.turn
  /\ \A s \in Seats : request[s].op = "commit_turn" =>
       request[s].turn \in 1 .. Checkpoint.turn
  /\ \A r \in adrift : r.op = "commit_turn" => r.turn # 0
  /\ \A s \in Seats : request[s].moves => request[s].op = "commit_turn"

(* Within one process: a transaction is adrift only once the SDK refuses, and
   then nobody has another one under way. *)
AloneAdrift ==
  /\ adrift # {} => refusing /\ \E r \in adrift : adrift = {r}
  /\ refusing /\ Contract.stage \in {"placement", "turns"} => Submitters = {}

Committing(s) == request[s].op = "commit_turn"

(* ... a turn not yet applied is the one being played, and the guard trails
   the contract by just the turn whose answer is on its way. *)
CommitsFit ==
  /\ \A s \in Seats : Committing(s) =>
       IF reply[s] = "executed" THEN request[s].turn + 1 = Contract.turn
                                ELSE request[s].turn = Contract.turn
  /\ \A r \in adrift : r.op = "commit_turn" => r.turn = Contract.turn
  /\ refusing \/ committed + 1 = Contract.turn
       \/ \E s \in Seats : Committing(s) /\ reply[s] = "executed"

PlansFit ==
  restarts = 0 =>
    /\ AloneAdrift
    /\ Contract.stage = "turns" => CommitsFit
    /\ Contract.stage = "placement" => committed = 0 /\ \A r \in adrift : r.op # "commit_turn"
    /\ \A plan \in applied : plan[1] = plan[2]

IInv ==
  /\ TypeOK /\ RepliesAnswer /\ LockHolds /\ Forward
  /\ SettlementSound /\ SettledOnce /\ PlansAreShown /\ PlansFit

-----------------------------------------------------------------------------
USE DEF vars, chain_vars, view_vars, pass_vars, lock_vars, guard_vars, fail_vars

LEMMA InitEstablishesIInv == Init => IInv
<1> SUFFICES ASSUME Init PROVE IInv
  OBVIOUS
<1>1. TypeOK
  <2>1. history \in Seq(Contracts) /\ Len(history) = 1
    BY FightAssumption DEF Init, Contracts, Stages
  <2>2. \A s \in Seats : request[s] = NoRequest /\ pc[s] = "top"
    BY DEF Init
  <2>3. request \in [Seats -> Requests \cup {NoRequest}]
    BY DEF Init
  <2>4. request \in [Seats -> Requests \cup {NoRequest}] /\ \A s \in Seats : request[s] # NoRequest <=> pc[s] = "submitting"
    BY <2>2, <2>3
  <2>5. shown \in 1 .. Len(history) /\ known \in 1 .. Len(history)
    BY <2>1 DEF Init
  <2>6. restarts \in 0 .. MaxRestarts /\ committed \in 0 .. MaxTurns
    BY FightAssumption DEF Init
  <2>7. applied \subseteq (1 .. MaxTurns) \X (1 .. MaxTurns)
    BY DEF Init
  <2>8. ahead \in [Seats -> Seats \cup {NoSeat}]
    BY DEF Init
  <2> QED
    BY <2>1, <2>4, <2>5, <2>6, <2>7, <2>8 DEF Init, TypeOK
<1>2. RepliesAnswer /\ LockHolds
  BY FightAssumption DEF Init, RepliesAnswer, LockHolds, Queue, Entries, Submitters, Locked, NoRequest
<1>3. Forward
  <2>1. Len(history) = 1 /\ history[1].turn = 0 /\ history[1].stage = "placement"
    BY DEF Init
  <2>2. \A i, j \in 1 .. Len(history) : i = 1 /\ j = 1
    BY <2>1
  <2> QED
    BY <2>1, <2>2 DEF Forward, Rank
<1>4. SettlementSound /\ SettledOnce
  BY DEF Init, SettlementSound, SettledOnce, NoRequest
<1>5. PlansAreShown /\ PlansFit
  BY DEF Init, PlansAreShown, PlansFit, AloneAdrift, Checkpoint, Contract, NoRequest, Locked
<1> QED
  BY <1>1, <1>2, <1>3, <1>4, <1>5 DEF IInv

(* The case analysis on a step, used by each of the lemmas below. *)
LEMMA NextCases ==
  ASSUME [Next]_vars
  PROVE  \/ \E s \in Seats :
              \/ AskToSettle(s) \/ AskToDrive(s) \/ ClosePending(s)
              \/ Settle(s) \/ Ready(s) \/ CommitTurn(s) \/ NothingDue(s)
              \/ AnswerDrive(s) \/ AnswerMoveRefused(s) \/ AnswerRefused(s)
              \/ AnswerSettle(s) \/ AnswerClose(s)
              \/ Land(s) \/ Refuse(s) \/ LoseAnswer(s)
         \/ \E r \in adrift : LandAdrift(r)
         \/ ShowCheckpoint \/ ShowRows \/ Restart
         \/ UNCHANGED vars
  BY Zenon DEF Next, Pass, Enter, Answer

-----------------------------------------------------------------------------
(* What a transaction does to the contract. *)

(* The turn that comes next is within the bound. *)
LEMMA NextTurnTyped ==
  ASSUME Contract \in Contracts, Contract.turn < MaxTurns, NEW c \in NextTurns
  PROVE  c \in Contracts /\ c.stage = "turns" /\ c.turn = Contract.turn + 1
<1>1. PICK s \in Seats : c = [Contract EXCEPT !.stage = "turns", !.turn = @ + 1, !.actor = s]
  BY DEF NextTurns
<1>2. Contract.turn + 1 \in 0 .. MaxTurns
  BY FightAssumption DEF Contracts
<1> QED
  BY <1>1, <1>2 DEF Contracts, Stages

(* The states a transaction may lead to are further on, each by what its kind
   does to the stage and the turn. *)
LEMMA OutcomesAdvance ==
  ASSUME TypeOK, Forward, NEW r \in Requests, Accepts(r), NEW c \in Outcomes(r)
  PROVE  /\ c \in Contracts
         /\ r.op = "ready" => Contract.stage = "placement" /\
              \/ c.stage = "placement" /\ c.turn = Contract.turn
              \/ c.stage = "turns" /\ c.turn = Contract.turn + 1
         /\ r.op = "commit_turn" => Contract.stage = "turns" /\
              \/ c.stage = "ended" /\ c.turn = Contract.turn
              \/ c.stage = "turns" /\ c.turn = Contract.turn + 1
         /\ r.op \notin {"ready", "commit_turn"} =>
              /\ Contract.stage \in {"ended", "settled"}
              /\ c.stage \in {"settled", "closed"} /\ c.turn = Contract.turn
<1>1. Contract \in Contracts /\ (Contract.stage = "placement" => Contract.turn = 0)
  BY DEF Contract, TypeOK, Forward
<1>2. r.op \in Ops /\ r.seat \in Seats
  BY DEF Requests
<1>3. CASE r.op = "ready"
  <2>1. Contract.stage = "placement" /\ Contract.turn + 1 \in 0 .. MaxTurns
    BY <1>1, <1>3, FightAssumption DEF Accepts
  <2>2. PICK ready \in SUBSET Seats :
          IF ready = Seats THEN c \in {[d EXCEPT !.ready = ready] : d \in NextTurns}
                           ELSE c \in {[Contract EXCEPT !.ready = ready]}
    BY <1>1, <1>2, <1>3 DEF Outcomes, Contracts
  <2>3. CASE c = [Contract EXCEPT !.ready = ready]
    BY <1>1, <1>3, <2>1, <2>3 DEF Contracts, Stages
  <2>4. CASE \E d \in NextTurns : c = [d EXCEPT !.ready = ready]
    <3>1. PICK d \in NextTurns : c = [d EXCEPT !.ready = ready]
      BY <2>4
    <3>2. d \in Contracts /\ d.stage = "turns" /\ d.turn = Contract.turn + 1
      BY <1>1, <2>1, NextTurnTyped, FightAssumption DEF Contracts
    <3> QED
      BY <1>3, <2>1, <3>1, <3>2 DEF Contracts
  <2> QED
    BY <2>2, <2>3, <2>4
<1>4. CASE r.op = "commit_turn"
  <2>1. c = Ended \/ (Contract.turn < MaxTurns /\ c \in NextTurns)
    BY <1>4 DEF Outcomes
  <2>2. CASE c = Ended
    BY <1>1, <1>4, <2>2 DEF Accepts, Ended, Contracts, Stages
  <2>3. CASE Contract.turn < MaxTurns /\ c \in NextTurns
    <3>1. c \in Contracts /\ c.stage = "turns" /\ c.turn = Contract.turn + 1
      BY <1>1, <2>3, NextTurnTyped
    <3> QED
      BY <1>4, <3>1 DEF Accepts
  <2> QED
    BY <2>1, <2>2, <2>3
<1>5. CASE r.op = "settle"
  BY <1>1, <1>5 DEF Outcomes, Accepts, Contracts, Stages
<1>6. CASE r.op \in {"close", "close_pending"}
  BY <1>1, <1>6 DEF Outcomes, Accepts, Contracts, Stages
<1> QED
  BY <1>2, <1>3, <1>4, <1>5, <1>6 DEF Ops

(* Executing one appends such a state, and touches nothing before it. *)
LEMMA ExecuteAppends ==
  ASSUME TypeOK, Forward, NEW r \in Requests, Execute(r)
  PROVE  /\ history' \in Seq(Contracts) /\ Len(history') = Len(history) + 1
         /\ \A i \in 1 .. Len(history) : history'[i] = history[i]
         /\ Contract' \in Outcomes(r)
<1>1. PICK c \in Outcomes(r) : history' = Append(history, c)
  BY DEF Execute
<1>2. c \in Contracts /\ history \in Seq(Contracts)
  BY OutcomesAdvance DEF Execute, TypeOK
<1> QED
  BY <1>1, <1>2 DEF Contract

LEMMA RankTyped == \A stage : Rank(stage) \in 0 .. 4
  BY DEF Rank

LEMMA HistoryTyped ==
  ASSUME TypeOK
  PROVE  /\ Len(history) \in Nat /\ Len(history) \in 1 .. Len(history)
         /\ \A i \in 1 .. Len(history) : history[i] \in Contracts
         /\ Contract \in Contracts /\ Contract.turn \in 0 .. MaxTurns
         /\ Checkpoint \in Contracts /\ Checkpoint.turn \in 0 .. MaxTurns
         /\ Contract.stage \in Stages /\ Checkpoint.stage \in Stages /\ Rows \in Stages
<1>1. Len(history) \in Nat /\ Len(history) \in 1 .. Len(history)
  BY DEF TypeOK
<1>2. \A i \in 1 .. Len(history) : history[i] \in Contracts
  BY DEF TypeOK
<1>3. Contract \in Contracts /\ Checkpoint \in Contracts /\ history[known] \in Contracts
  BY <1>1, <1>2 DEF Contract, Checkpoint, TypeOK
<1> QED
  BY <1>1, <1>2, <1>3 DEF Contracts, Rows

(* So the contract goes forward, and what was shown of it stays shown. *)
LEMMA ExecuteForward ==
  ASSUME TypeOK, Forward, NEW r \in Requests, Execute(r)
  PROVE  Forward'
<1>1. /\ history' \in Seq(Contracts) /\ Len(history') = Len(history) + 1
      /\ \A i \in 1 .. Len(history) : history'[i] = history[i]
      /\ Contract' \in Outcomes(r) /\ Len(history) \in Nat
  BY ExecuteAppends DEF TypeOK
<1>2. /\ Contract' \in Contracts
      /\ Rank(Contract.stage) <= Rank(Contract'.stage) /\ Contract.turn <= Contract'.turn
      /\ Contract'.stage = "placement" <=> Contract'.turn = 0
  <2>1. Accepts(r) /\ r.op \in Ops
    BY DEF Execute, Requests
  <2>2. PICK c \in Outcomes(r) : c = Contract'
    BY <1>1
  <2>3. c.turn \in Nat /\ c \in Contracts
    BY <2>1, <2>2, OutcomesAdvance DEF Contracts
  <2>4. r.op = "ready" \/ r.op = "commit_turn" \/ r.op \notin {"ready", "commit_turn"}
    OBVIOUS
  <2>5. Contract.turn \in Nat /\ (Contract.stage = "placement" <=> Contract.turn = 0)
    BY HistoryTyped DEF Forward, Contract
  <2> QED
    BY <2>1, <2>2, <2>3, <2>4, <2>5, OutcomesAdvance DEF Rank
<1>3. \A i \in 1 .. Len(history) :
        /\ Rank(history[i].stage) <= Rank(Contract.stage)
        /\ history[i].turn <= Contract.turn
  BY <1>1 DEF Forward, Contract, TypeOK
<1>4. \A i \in 1 .. Len(history') : i \in 1 .. Len(history) \/ i = Len(history')
  BY <1>1
<1>5. \A i \in 1 .. Len(history) : Rank(history[i].stage) \in Nat /\ history[i].turn \in Nat
  BY HistoryTyped, RankTyped DEF Contracts
<1>6. Rank(Contract'.stage) \in Nat /\ Contract'.turn \in Nat
      /\ Rank(Contract.stage) \in Nat /\ Contract.turn \in Nat
  BY <1>2, HistoryTyped, RankTyped DEF Contracts
<1>7. ASSUME NEW i \in 1 .. Len(history'), NEW j \in 1 .. Len(history'), i <= j
      PROVE  Rank(history'[i].stage) <= Rank(history'[j].stage)
             /\ history'[i].turn <= history'[j].turn
  <2>1. CASE j \in 1 .. Len(history)
    BY <1>1, <1>7, <2>1 DEF Forward
  <2>2. CASE j = Len(history') /\ i \in 1 .. Len(history)
    <3>1. history'[i] = history[i] /\ history'[j] = Contract'
      BY <1>1, <2>2 DEF Contract
    <3>2. /\ Rank(history[i].stage) <= Rank(Contract'.stage)
          /\ history[i].turn <= Contract'.turn
      BY <1>2, <1>3, <1>5, <1>6, <2>2
    <3> QED
      BY <3>1, <3>2
  <2>3. CASE j = Len(history') /\ i = Len(history')
    BY <1>6, <2>3 DEF Contract
  <2> QED
    BY <1>4, <2>1, <2>2, <2>3
<1>8. \A i \in 1 .. Len(history') : history'[i].stage = "placement" <=> history'[i].turn = 0
  BY <1>1, <1>2, <1>4 DEF Forward, Contract, TypeOK
<1> QED
  BY <1>7, <1>8 DEF Forward

(* What a checkpoint or the rows show is not ahead of the contract. *)
LEMMA ShownTrails ==
  ASSUME TypeOK, Forward
  PROVE  /\ Contract \in Contracts /\ Checkpoint \in Contracts /\ Rows \in Stages
         /\ Rank(Checkpoint.stage) <= Rank(Contract.stage) /\ Checkpoint.turn <= Contract.turn
         /\ Rank(Rows) <= Rank(Contract.stage)
  BY HistoryTyped DEF TypeOK, Forward, Contract, Checkpoint, Rows

-----------------------------------------------------------------------------
(* Types. *)

PassTypes ==
  /\ pc \in [Seats -> {"top", "settle_wait", "drive_wait", "submitting"}]
  /\ request \in [Seats -> Requests \cup {NoRequest}]
  /\ \A s \in Seats : request[s] # NoRequest <=> pc[s] = "submitting"
  /\ reply \in [Seats -> {"none", "waiting", "executed", "closable", "refused"}]

LockTypes == ahead \in [Seats -> Seats \cup {NoSeat}] /\ tail \in Seats \cup {NoSeat}

(* A seat with an answer, or with a request of some kind, has a request. *)
LEMMA RequestTyped ==
  ASSUME TypeOK, RepliesAnswer, NEW s \in Seats,
         reply[s] # "none" \/ request[s].op \in Ops
  PROVE  request[s] \in Requests /\ pc[s] = "submitting" /\ reply[s] # "none"
  BY DEF TypeOK, RepliesAnswer, NoRequest, Ops

LEMMA BackTyped ==
  ASSUME PassTypes, RepliesAnswer, NEW s \in Seats, Back(s)
  PROVE  PassTypes' /\ RepliesAnswer'
  BY DEF PassTypes, RepliesAnswer, Back

LEMMA UnlockTyped ==
  ASSUME LockTypes, NEW s \in Seats, Unlock(s) \/ UnlockAndDrop(s)
  PROVE  LockTypes'
  BY DEF LockTypes, Unlock, UnlockAndDrop

LEMMA SendTyped ==
  ASSUME PassTypes, LockTypes, RepliesAnswer, NEW s \in Seats, NEW op \in Ops,
         NEW turn \in 0 .. MaxTurns, NEW moves \in BOOLEAN, Send(s, op, turn, moves)
  PROVE  PassTypes' /\ LockTypes' /\ RepliesAnswer'
<1>1. CASE refusing
  BY <1>1, BackTyped, UnlockTyped DEF Send
<1>2. CASE ~ refusing
  <2>1. [op |-> op, seat |-> s, turn |-> turn, moves |-> moves] \in Requests
    BY DEF Requests
  <2>2. [op |-> op, seat |-> s, turn |-> turn, moves |-> moves] # NoRequest
    BY DEF NoRequest, Ops
  <2> QED
    BY <1>2, <2>1, <2>2 DEF Send, PassTypes, LockTypes, RepliesAnswer
<1> QED
  BY <1>1, <1>2

LEMMA SubmitKeepsTypes ==
  ASSUME TypeOK, RepliesAnswer, NEW s \in Seats,
         \/ AskToSettle(s) \/ AskToDrive(s) \/ ClosePending(s)
         \/ Settle(s) \/ Ready(s) \/ CommitTurn(s) \/ NothingDue(s)
  PROVE  TypeOK' /\ RepliesAnswer'
<1>0. PassTypes /\ LockTypes
  BY DEF TypeOK, PassTypes, LockTypes
<1>1. PassTypes' /\ LockTypes' /\ RepliesAnswer'
  <2>1. CASE AskToSettle(s) \/ AskToDrive(s)
    BY <1>0, <2>1 DEF AskToSettle, AskToDrive, WithLock, PassTypes, LockTypes, RepliesAnswer
  <2>0. 0 \in 0 .. MaxTurns /\ {"ready", "commit_turn", "settle", "close_pending"} \subseteq Ops
    BY FightAssumption DEF Ops
  <2>2. CASE ClosePending(s)
    BY <1>0, <2>0, <2>2, SendTyped DEF ClosePending
  <2>3. CASE Settle(s)
    BY <1>0, <2>0, <2>3, SendTyped, BackTyped, UnlockTyped DEF Settle
  <2>4. CASE Ready(s)
    BY <1>0, <2>0, <2>4, SendTyped DEF Ready
  <2>5. CASE CommitTurn(s)
    BY <1>0, <2>5, SendTyped, HistoryTyped DEF CommitTurn, Ops
  <2>6. CASE NothingDue(s)
    BY <1>0, <2>6, BackTyped, UnlockTyped DEF NothingDue
  <2> QED
    BY <2>1, <2>2, <2>3, <2>4, <2>5, <2>6
<1>2. UNCHANGED <<chain_vars, view_vars, guard_vars, fail_vars>>
  BY DEF AskToSettle, AskToDrive, ClosePending, Settle, Ready, CommitTurn, NothingDue
<1> QED
  BY <1>1, <1>2 DEF TypeOK, PassTypes, LockTypes

LEMMA AnswerKeepsTypes ==
  ASSUME TypeOK, RepliesAnswer, NEW s \in Seats,
         \/ AnswerDrive(s) \/ AnswerMoveRefused(s) \/ AnswerRefused(s)
         \/ AnswerSettle(s) \/ AnswerClose(s)
  PROVE  TypeOK' /\ RepliesAnswer'
<1>0. PassTypes /\ LockTypes
  BY DEF TypeOK, PassTypes, LockTypes
<1>1. request[s] \in Requests /\ pc[s] = "submitting"
  BY RequestTyped DEF AnswerDrive, AnswerMoveRefused, AnswerRefused, AnswerSettle, AnswerClose, Ops
<1>2. PassTypes' /\ LockTypes' /\ RepliesAnswer'
  <2>1. CASE AnswerDrive(s) \/ AnswerRefused(s)
    BY <1>0, <2>1, BackTyped, UnlockTyped DEF AnswerDrive, AnswerRefused
  <2>2. CASE AnswerMoveRefused(s)
    BY <1>0, <1>1, <2>2, SendTyped DEF AnswerMoveRefused, Ops, Requests
  <2>3. CASE AnswerSettle(s) /\ Back(s) /\ UnlockAndDrop(s)
    BY <1>0, <2>3, BackTyped, UnlockTyped
  <2>4. CASE /\ UNCHANGED <<pc, lock_vars>>
             /\ request' = [request EXCEPT ![s].op = "close"]
             /\ reply' = [reply EXCEPT ![s] = "waiting"]
    <3>1. [request[s] EXCEPT !.op = "close"] \in Requests
      BY <1>1 DEF Requests, Ops
    <3>2. [request[s] EXCEPT !.op = "close"] # NoRequest
      BY <1>1 DEF Requests, NoRequest
    <3>3. request' = [request EXCEPT ![s] = [request[s] EXCEPT !.op = "close"]]
      BY <2>4
    <3> QED
      BY <1>0, <1>1, <2>4, <3>1, <3>2, <3>3 DEF PassTypes, LockTypes, RepliesAnswer
  <2>5. CASE AnswerClose(s)
    BY <1>0, <2>5, BackTyped, UnlockTyped DEF AnswerClose, LockTypes
  <2> QED
    BY <2>1, <2>2, <2>3, <2>4, <2>5 DEF AnswerSettle
<1>3. readied' \subseteq Seats /\ committed' \in 0 .. MaxTurns /\ settlement_done' \in BOOLEAN
  <2>1. readied \cup {s} \subseteq Seats /\ 0 \in 0 .. MaxTurns /\ request[s].turn \in 0 .. MaxTurns
    BY <1>1, FightAssumption DEF TypeOK, Requests
  <2>2. UnlockAndDrop(s) => readied' = {} /\ committed' = 0
    BY DEF UnlockAndDrop
  <2>3. /\ readied' \in {readied, readied \cup {s}, {}}
        /\ committed' \in {committed, request[s].turn, 0}
        /\ settlement_done' \in {settlement_done, TRUE}
    BY <2>2 DEF AnswerDrive, AnswerMoveRefused, AnswerRefused, AnswerSettle, AnswerClose
  <2> QED
    BY <2>1, <2>3 DEF TypeOK
<1>4. UNCHANGED <<chain_vars, view_vars, fail_vars>>
  BY DEF AnswerDrive, AnswerMoveRefused, AnswerRefused, AnswerSettle, AnswerClose
<1> QED
  BY <1>2, <1>3, <1>4 DEF TypeOK, PassTypes, LockTypes

LEMMA EnvironmentKeepsTypes ==
  ASSUME TypeOK, RepliesAnswer, Forward, PlansAreShown,
         \/ \E s \in Seats : Land(s) \/ Refuse(s) \/ LoseAnswer(s)
         \/ \E r \in adrift : LandAdrift(r)
         \/ ShowCheckpoint \/ ShowRows \/ Restart
  PROVE  TypeOK' /\ RepliesAnswer'
<1>0. PassTypes /\ LockTypes
  BY DEF TypeOK, PassTypes, LockTypes
<1>1. ASSUME NEW r \in Requests, Execute(r), r.op = "commit_turn" => r.turn # 0, UNCHANGED view_vars
      PROVE  /\ history' \in Seq(Contracts)
             /\ shown' \in 1 .. Len(history') /\ known' \in 1 .. Len(history')
             /\ applied' \subseteq (1 .. MaxTurns) \X (1 .. MaxTurns)
  <2>1. history' \in Seq(Contracts) /\ Len(history') = Len(history) + 1
    BY <1>1, ExecuteAppends
  <2>2. r.op = "commit_turn" => r.turn \in 1 .. MaxTurns /\ Contract.turn \in 1 .. MaxTurns
    <3>1. r.op = "commit_turn" => Contract.stage # "placement"
      BY <1>1 DEF Execute, Accepts
    <3> QED
      BY <1>1, <3>1, HistoryTyped DEF Forward, Contract, Requests
  <2>3. applied' \subseteq (1 .. MaxTurns) \X (1 .. MaxTurns)
    BY <1>1, <2>2 DEF Execute, TypeOK
  <2> QED
    BY <1>1, <2>1, <2>3, HistoryTyped DEF TypeOK
<1>2. CASE \E s \in Seats : Land(s)
  <2>1. PICK s \in Seats : Land(s)
    BY <1>2
  <2>2. request[s] \in Requests /\ pc[s] = "submitting" /\ (request[s].op = "commit_turn" => request[s].turn # 0)
    BY <2>1, RequestTyped DEF Land, PlansAreShown
  <2>3. PassTypes' /\ RepliesAnswer'
    BY <1>0, <2>1, <2>2 DEF Land, PassTypes, RepliesAnswer
  <2> QED
    BY <1>1, <2>1, <2>2, <2>3 DEF Land, TypeOK, PassTypes
<1>3. CASE \E r \in adrift : LandAdrift(r)
  BY <1>1, <1>3 DEF LandAdrift, TypeOK, PlansAreShown, RepliesAnswer
<1>4. CASE \E s \in Seats : Refuse(s)
  <2>1. PICK s \in Seats : Refuse(s)
    BY <1>4
  <2>2. pc[s] = "submitting"
    BY <2>1, RequestTyped DEF Refuse
  <2> QED
    BY <2>1, <2>2 DEF Refuse, TypeOK, RepliesAnswer
<1>5. CASE \E s \in Seats : LoseAnswer(s)
  <2>1. PICK s \in Seats : LoseAnswer(s)
    BY <1>5
  <2>2. request[s] \in Requests
    BY <2>1, RequestTyped DEF LoseAnswer
  <2>3. PassTypes' /\ RepliesAnswer'
    BY <1>0, <2>1, BackTyped DEF LoseAnswer
  <2>4. LockTypes'
    BY <1>0, <2>1, UnlockTyped DEF LoseAnswer, LockTypes
  <2>5. readied' \subseteq Seats /\ committed' \in 0 .. MaxTurns /\ adrift' \subseteq Requests
    BY <2>1, <2>2, FightAssumption DEF LoseAnswer, UnlockAndDrop, TypeOK
  <2> QED
    BY <2>1, <2>3, <2>4, <2>5 DEF LoseAnswer, TypeOK, PassTypes, LockTypes
<1>6. CASE ShowCheckpoint \/ ShowRows
  <2>1. /\ shown' \in 1 .. Len(history') /\ known' \in 1 .. Len(history')
        /\ history' = history
    BY <1>6, HistoryTyped DEF ShowCheckpoint, ShowRows, TypeOK
  <2>2. UNCHANGED <<applied, pass_vars, lock_vars, guard_vars, fail_vars>>
    BY <1>6 DEF ShowCheckpoint, ShowRows
  <2> QED
    BY <2>1, <2>2 DEF TypeOK, PassTypes, LockTypes, RepliesAnswer
<1>7. CASE Restart
  <2>1. PassTypes' /\ LockTypes' /\ RepliesAnswer'
    BY <1>7 DEF Restart, PassTypes, LockTypes, RepliesAnswer
  <2>2. Unanswered \subseteq Requests
    BY RequestTyped DEF Unanswered
  <2>3. restarts' \in 0 .. MaxRestarts /\ committed' \in 0 .. MaxTurns /\ adrift' \subseteq Requests
    BY <1>7, <2>2, FightAssumption DEF Restart, TypeOK
  <2> QED
    BY <1>7, <2>1, <2>3 DEF Restart, TypeOK, PassTypes, LockTypes
<1> QED
  BY <1>2, <1>3, <1>4, <1>5, <1>6, <1>7

LEMMA TypesStay ==
  ASSUME TypeOK, RepliesAnswer, Forward, PlansAreShown, [Next]_vars
  PROVE  TypeOK' /\ RepliesAnswer'
<1>1. CASE UNCHANGED vars
  BY <1>1, HistoryTyped DEF TypeOK, RepliesAnswer
<1> QED
  BY <1>1, NextCases, SubmitKeepsTypes, AnswerKeepsTypes, EnvironmentKeepsTypes

-----------------------------------------------------------------------------
(* The lock. *)

(* A seat that asks for the lock becomes the last entry. *)
LEMMA WithLockKeepsQueue ==
  ASSUME TypeOK, Queue, NEW s \in Seats, pc[s] = "top", WithLock(s), UNCHANGED request,
         NEW wait \in {"settle_wait", "drive_wait"}, pc' = [pc EXCEPT ![s] = wait]
  PROVE  Queue'
<1>1. /\ s \notin Entries /\ s # NoSeat
      /\ Entries' = Entries \cup {s} /\ Submitters' = Submitters
  BY FightAssumption DEF Entries, Submitters, Locked, TypeOK
<1>2. ahead' = [ahead EXCEPT ![s] = tail] /\ tail' = s
  BY DEF WithLock
<1>3. Entries \subseteq Seats /\ Submitters \subseteq Entries
  BY DEF Entries, Submitters
<1>4. ahead[s] = NoSeat /\ \A t \in Seats : ahead[t] # s
  BY <1>1 DEF Queue
<1>5. \A t \in Entries : ahead[t] # tail
  BY <1>3 DEF Queue
<1> QED
  BY <1>1, <1>2, <1>3, <1>4, <1>5 DEF Queue, TypeOK

(* The entry that runs is over: the one behind it runs, if there is one. *)
LEMMA UnlockKeepsQueue ==
  ASSUME TypeOK, Queue, NEW s \in Entries, HasLock(s), Back(s), Unlock(s)
  PROVE  Queue'
<1>1. /\ s \in Seats /\ s # NoSeat /\ ahead[s] = NoSeat
      /\ Entries' = Entries \ {s} /\ Submitters' = Submitters \ {s}
  BY FightAssumption DEF Entries, Submitters, Locked, TypeOK, Back, HasLock
<1>2. /\ ahead' = [t \in Seats |-> IF ahead[t] = s THEN NoSeat ELSE ahead[t]]
      /\ tail' = IF tail = s THEN NoSeat ELSE tail
  BY DEF Unlock
<1>3. Entries \subseteq Seats /\ Submitters \subseteq Entries
  BY DEF Entries, Submitters
<1>4. \A t \in Entries \ {s} : ahead[t] # NoSeat
  BY <1>1 DEF Queue
<1> QED
  BY <1>1, <1>2, <1>3, <1>4 DEF Queue, TypeOK

(* A seat whose entry runs may begin to submit, and submit again. *)
LEMMA SubmitKeepsQueue ==
  ASSUME TypeOK, Queue, UNCHANGED lock_vars, Entries' = Entries,
         \A s \in Submitters' : HasLock(s)
  PROVE  Queue'
  BY DEF Queue, HasLock, TypeOK, Entries

(* Only one seat runs its entry, and it is the one that submits. *)
LEMMA QueueIsExclusive ==
  ASSUME Queue, NEW s \in Submitters, NEW t \in Entries, t \in Submitters \/ HasLock(t)
  PROVE  s = t
  BY DEF Queue, HasLock, Entries, Submitters

LEMMA SendKeepsQueue ==
  ASSUME TypeOK, Queue, NEW s \in Entries, HasLock(s),
         NEW op \in Ops \ {"close_pending"}, NEW turn, NEW moves, Send(s, op, turn, moves)
  PROVE  Queue'
<1>1. CASE refusing
  BY <1>1, UnlockKeepsQueue DEF Send
<1>2. CASE ~ refusing
  <2>1. /\ pc' = [pc EXCEPT ![s] = "submitting"] /\ UNCHANGED lock_vars
        /\ request' = [request EXCEPT ![s] = [op |-> op, seat |-> s, turn |-> turn, moves |-> moves]]
    BY <1>2 DEF Send
  <2>2. Entries' = Entries /\ Submitters' = Submitters \cup {s}
    BY <2>1 DEF Entries, Submitters, Locked, TypeOK
  <2>3. \A t \in Submitters' : HasLock(t)
    BY <2>2 DEF Queue, HasLock, Entries, Submitters
  <2> QED
    BY <2>1, <2>2, <2>3, SubmitKeepsQueue
<1> QED
  BY <1>1, <1>2

(* A submitting seat holds the lock, unless it closes a stranded fight. *)
LEMMA SubmitterHoldsLock ==
  ASSUME TypeOK, Queue, RepliesAnswer, NEW s \in Seats, reply[s] # "none",
         request[s].op # "close_pending"
  PROVE  s \in Submitters /\ s \in Entries /\ HasLock(s)
<1>1. s \in Submitters /\ s \in Entries
  BY RequestTyped DEF Submitters, Entries, Locked
<1> QED
  BY <1>1 DEF Queue, HasLock

LEMMA LockStays ==
  ASSUME TypeOK, RepliesAnswer, SettlementSound, PlansAreShown, LockHolds, [Next]_vars
  PROVE  LockHolds'
<1>1. CASE Restart
  <2>1. Entries' = {} /\ tail' = NoSeat /\ \A s \in Seats : ahead'[s] = NoSeat
    BY <1>1 DEF Restart, Entries, Submitters, Locked
  <2> QED
    BY <2>1 DEF LockHolds, Queue
<1> SUFFICES ASSUME ~ Restart, ~ settlement_done' PROVE Queue'
  BY <1>1 DEF LockHolds
<1>2. ~ settlement_done
  BY NextCases
  DEF AskToSettle, AskToDrive, ClosePending, Settle, Ready, CommitTurn, NothingDue, AnswerDrive,
      AnswerMoveRefused, AnswerRefused, AnswerSettle, AnswerClose, Land, Refuse, LoseAnswer,
      LandAdrift, ShowCheckpoint, ShowRows, TypeOK
<1>3. Queue /\ \A s \in Seats : request[s].op # "close"
  BY <1>2 DEF LockHolds, SettlementSound
<1>4. ASSUME NEW s \in Seats, AskToSettle(s) \/ AskToDrive(s) PROVE Queue'
  BY <1>3, <1>4, WithLockKeepsQueue DEF AskToSettle, AskToDrive
<1>5. ASSUME NEW s \in Seats, ClosePending(s) PROVE Queue'
  <2>1. Entries' = Entries /\ Submitters' = Submitters /\ UNCHANGED lock_vars
    BY <1>5 DEF ClosePending, Send, Entries, Submitters, Locked, TypeOK
  <2> QED
    BY <1>3, <2>1, SubmitKeepsQueue DEF Queue, HasLock, Entries, Submitters
<1>6. ASSUME NEW s \in Seats, Settle(s) \/ Ready(s) \/ CommitTurn(s) \/ NothingDue(s) PROVE Queue'
  <2>1. s \in Entries /\ HasLock(s)
    BY <1>6 DEF Settle, Ready, CommitTurn, NothingDue, Driving, Entries
  <2>2. {"settle", "ready", "commit_turn"} \subseteq Ops \ {"close_pending"}
    BY DEF Ops
  <2> QED
    BY <1>3, <1>6, <2>1, <2>2, SendKeepsQueue, UnlockKeepsQueue
    DEF Settle, Ready, CommitTurn, NothingDue
<1>7. ASSUME NEW s \in Seats, AnswerDrive(s) \/ AnswerRefused(s) PROVE Queue'
  BY <1>3, <1>7, SubmitterHoldsLock, UnlockKeepsQueue DEF AnswerDrive, AnswerRefused
<1>8. ASSUME NEW s \in Seats, AnswerMoveRefused(s) PROVE Queue'
  BY <1>3, <1>8, SubmitterHoldsLock, SendKeepsQueue DEF AnswerMoveRefused, PlansAreShown, Ops
<1>9. ASSUME NEW s \in Seats, AnswerClose(s) \/ LoseAnswer(s) PROVE Queue'
  <2>1. CASE request[s].op = "close_pending"
    <3>1. Entries' = Entries /\ Submitters' = Submitters /\ UNCHANGED lock_vars
      <4>1. Back(s) /\ UNCHANGED lock_vars /\ reply[s] # "none"
        BY <1>9, <2>1 DEF AnswerClose, LoseAnswer
      <4>2. pc[s] = "submitting"
        BY <4>1, RequestTyped
      <4> QED
        BY <2>1, <4>1, <4>2 DEF Back, Entries, Submitters, Locked, TypeOK
    <3> QED
      BY <1>3, <3>1, SubmitKeepsQueue DEF Queue, HasLock, Entries, Submitters
  <2>2. CASE request[s].op # "close_pending"
    BY <1>3, <1>9, <2>2, SubmitterHoldsLock, UnlockKeepsQueue DEF AnswerClose, LoseAnswer
  <2> QED
    BY <2>1, <2>2
<1>10. ASSUME UNCHANGED <<pc, request, lock_vars>> PROVE Queue'
  BY <1>3, <1>10 DEF Queue, Entries, Submitters, Locked
<1> QED
  BY <1>4, <1>5, <1>6, <1>7, <1>8, <1>9, <1>10, NextCases
  DEF AnswerSettle, Land, Refuse, LandAdrift, ShowCheckpoint, ShowRows
-----------------------------------------------------------------------------
(* The settlement and the plans. *)

(* Only what lands changes the contract. *)
LEMMA ContractSteps ==
  ASSUME TypeOK, RepliesAnswer, [Next]_vars
  PROVE  \/ UNCHANGED chain_vars
         \/ \E r \in Requests : Execute(r) /\ UNCHANGED <<view_vars, committed, settlement_done>>
<1>1. ASSUME NEW s \in Seats, Land(s)
      PROVE  \E r \in Requests : Execute(r) /\ UNCHANGED <<view_vars, committed, settlement_done>>
  BY <1>1, RequestTyped DEF Land
<1>2. ASSUME NEW r \in adrift, LandAdrift(r)
      PROVE  r \in Requests /\ Execute(r) /\ UNCHANGED <<view_vars, committed, settlement_done>>
  BY <1>2 DEF LandAdrift, TypeOK
<1>3. ASSUME NEW s \in Seats,
             \/ AskToSettle(s) \/ AskToDrive(s) \/ ClosePending(s)
             \/ Settle(s) \/ Ready(s) \/ CommitTurn(s) \/ NothingDue(s)
      PROVE  UNCHANGED chain_vars
  BY <1>3 DEF AskToSettle, AskToDrive, ClosePending, Settle, Ready, CommitTurn, NothingDue
<1>4. ASSUME NEW s \in Seats,
             \/ AnswerDrive(s) \/ AnswerMoveRefused(s) \/ AnswerRefused(s)
             \/ AnswerSettle(s) \/ AnswerClose(s) \/ Refuse(s) \/ LoseAnswer(s)
      PROVE  UNCHANGED chain_vars
  BY <1>4 DEF AnswerDrive, AnswerMoveRefused, AnswerRefused, AnswerSettle, AnswerClose, Refuse,
              LoseAnswer
<1>5. ShowCheckpoint \/ ShowRows \/ Restart \/ UNCHANGED vars => UNCHANGED chain_vars
  BY DEF ShowCheckpoint, ShowRows, Restart
<1> QED
  BY <1>1, <1>2, <1>3, <1>4, <1>5, NextCases

LEMMA ContractForward ==
  ASSUME TypeOK, RepliesAnswer, Forward, [Next]_vars
  PROVE  Forward' /\ (Closable => Closable')
<1>1. CASE UNCHANGED chain_vars
  BY <1>1 DEF Forward, Closable, Contract
<1>2. CASE \E r \in Requests : Execute(r)
  <2>1. PICK r \in Requests : Execute(r)
    BY <1>2
  <2>2. Contract' \in Outcomes(r) /\ Accepts(r) /\ r.op \in Ops
    BY <2>1, ExecuteAppends DEF Execute, Requests
  <2> QED
    BY <2>1, <2>2, ExecuteForward, OutcomesAdvance DEF Closable, Ops
<1> QED
  BY <1>1, <1>2, ContractSteps

LEMMA SettlementStays ==
  ASSUME TypeOK, RepliesAnswer, Forward, LockHolds, SettlementSound, SettledOnce, PlansAreShown,
         [Next]_vars
  PROVE  SettlementSound' /\ SettledOnce'
<1>0. Closable => Closable'
  BY ContractForward
<1> USE DEF SettlementSound, SettledOnce
(* A step that drops the transaction of s, or leaves it alone. *)
<1>1. ASSUME NEW s \in Seats, Back(s) \/ UNCHANGED <<request, reply>>, UNCHANGED settlement_done
      PROVE  SettlementSound' /\ SettledOnce'
  <2>1. \A t \in Seats : \/ request'[t] = request[t] /\ reply'[t] = reply[t]
                         \/ request'[t] = NoRequest /\ reply'[t] = "none"
    BY <1>1 DEF Back, TypeOK
  <2> QED
    BY <1>0, <1>1, <2>1 DEF NoRequest
<1>2. ASSUME NEW s \in Seats, NEW op \in Ops, NEW turn, NEW moves, Send(s, op, turn, moves),
             UNCHANGED settlement_done, op # "close", op = "close_pending" => Closable,
             op = "settle" => ~ settlement_done
      PROVE  SettlementSound' /\ SettledOnce'
  <2>1. CASE refusing
    BY <1>1, <1>2, <2>1 DEF Send
  <2>2. CASE ~ refusing
    <3>1. \A t \in Seats \ {s} : request'[t] = request[t] /\ reply'[t] = reply[t]
      BY <1>2, <2>2 DEF Send, TypeOK
    <3>2. request'[s].op = op /\ reply'[s] = "waiting"
      BY <1>2, <2>2 DEF Send, TypeOK
    <3> QED
      BY <1>0, <1>2, <3>1, <3>2
  <2> QED
    BY <2>1, <2>2
<1>3. ASSUME NEW s \in Seats, ClosePending(s) PROVE SettlementSound' /\ SettledOnce'
  <2>1. Closable
    BY <1>3, ShownTrails, HistoryTyped DEF ClosePending, Closable, Rank, Stages
  <2> QED
    BY <1>2, <1>3, <2>1 DEF ClosePending, Ops
<1>4. ASSUME NEW s \in Seats, Settle(s) \/ Ready(s) \/ CommitTurn(s) \/ AnswerMoveRefused(s)
      PROVE  SettlementSound' /\ SettledOnce'
  BY <1>1, <1>2, <1>4 DEF Settle, Ready, CommitTurn, AnswerMoveRefused, Ops
<1>5. ASSUME NEW s \in Seats, AnswerSettle(s) PROVE SettlementSound' /\ SettledOnce'
  <2>1. Closable' /\ settlement_done' /\ (UNCHANGED history)
    BY <1>0, <1>5 DEF AnswerSettle
  <2>2. \A t \in Seats \ {s} : request'[t] = request[t] /\ reply'[t] = reply[t]
    BY <1>5 DEF AnswerSettle, Back, TypeOK
  <2>3. \/ request'[s].op = "close" /\ reply'[s] = "waiting"
        \/ request'[s].op = "none" /\ reply'[s] = "none"
    <3>1. request[s] \in Requests
      BY <1>5, RequestTyped DEF AnswerSettle, Ops
    <3> QED
      BY <1>5, <3>1 DEF AnswerSettle, Back, TypeOK, NoRequest, Requests
  <2>4. \A t \in Seats \ {s} : ~ (request[t].op = "settle" /\ reply[t] = "waiting")
    <3>1. CASE settlement_done
      BY <3>1
    <3>2. ASSUME ~ settlement_done, NEW t \in Seats \ {s}, request[t].op = "settle", reply[t] = "waiting"
          PROVE  FALSE
      <4>1. s \in Submitters /\ t \in Submitters /\ t \in Entries /\ Queue
        BY <1>5, <3>2, SubmitterHoldsLock DEF AnswerSettle, LockHolds
      <4> QED
        BY <4>1, QueueIsExclusive
    <3> QED
      BY <3>1, <3>2
  <2> QED
    BY <1>0, <2>1, <2>2, <2>3, <2>4
<1>6. ASSUME NEW s \in Seats, Land(s) PROVE SettlementSound' /\ SettledOnce'
  <2>1. request[s] \in Requests /\ reply[s] = "waiting"
    BY <1>6, RequestTyped DEF Land
  <2>2. request[s].op = "settle" => Closable'
    BY <1>6, <2>1, ExecuteAppends, OutcomesAdvance DEF Land, Execute, Closable
  <2>3. /\ \A t \in Seats \ {s} : request'[t] = request[t] /\ reply'[t] = reply[t]
        /\ request'[s] = request[s] /\ reply'[s] \in {"executed", "closable"}
        /\ reply'[s] = "closable" => request[s].op = "settle"
        /\ UNCHANGED settlement_done
    BY <1>6 DEF Land, TypeOK
  <2> QED
    BY <1>0, <2>2, <2>3
<1>7. ASSUME NEW s \in Seats, Refuse(s) PROVE SettlementSound' /\ SettledOnce'
  BY <1>0, <1>7 DEF Refuse, TypeOK
<1>8. CASE Restart
  BY <1>8 DEF Restart, NoRequest
<1>9. ASSUME NEW s \in Seats,
             \/ AskToSettle(s) \/ AskToDrive(s) \/ NothingDue(s) \/ AnswerDrive(s)
             \/ AnswerRefused(s) \/ AnswerClose(s) \/ LoseAnswer(s)
      PROVE  SettlementSound' /\ SettledOnce'
  BY <1>1, <1>9
  DEF AskToSettle, AskToDrive, NothingDue, AnswerDrive, AnswerRefused, AnswerClose, LoseAnswer
<1>10. ASSUME UNCHANGED <<request, reply, settlement_done>>
       PROVE  SettlementSound' /\ SettledOnce'
  BY <1>1, <1>10, FightAssumption
<1> QED
  BY <1>3, <1>4, <1>5, <1>6, <1>7, <1>8, <1>9, <1>10, NextCases
  DEF LandAdrift, ShowCheckpoint, ShowRows

LEMMA CheckpointForward ==
  ASSUME TypeOK, RepliesAnswer, Forward, [Next]_vars
  PROVE  Checkpoint.turn \in Nat /\ Checkpoint'.turn \in Nat /\ Checkpoint.turn <= Checkpoint'.turn
<1>1. CASE UNCHANGED <<history, shown>>
  BY <1>1, HistoryTyped DEF Checkpoint
<1>2. CASE \E r \in Requests : Execute(r) /\ UNCHANGED view_vars
  <2>1. PICK r \in Requests : Execute(r) /\ UNCHANGED view_vars
    BY <1>2
  <2>2. shown \in 1 .. Len(history)
    BY HistoryTyped DEF TypeOK
  <2>3. history'[shown] = history[shown] /\ shown' = shown
    BY <2>1, <2>2, ExecuteAppends
  <2> QED
    BY <2>3, HistoryTyped DEF Checkpoint
<1>3. CASE ShowCheckpoint
  <2>1. /\ shown \in 1 .. Len(history) /\ shown + 1 \in 1 .. Len(history) /\ shown <= shown + 1
        /\ history[shown] \in Contracts /\ history[shown + 1] \in Contracts
    BY <1>3, HistoryTyped DEF ShowCheckpoint, TypeOK
  <2>2. Checkpoint = history[shown] /\ Checkpoint' = history[shown + 1]
    BY <1>3 DEF ShowCheckpoint, Checkpoint
  <2>3. history[shown].turn <= history[shown + 1].turn
    BY <2>1 DEF Forward
  <2>4. history[shown].turn \in Nat /\ history[shown + 1].turn \in Nat
    BY <2>1, FightAssumption DEF Contracts
  <2> QED
    BY <2>2, <2>3, <2>4
<1> QED
  BY <1>1, <1>2, <1>3, ContractSteps, NextCases
  DEF AskToSettle, AskToDrive, ClosePending, Settle, Ready, CommitTurn, NothingDue, AnswerDrive,
      AnswerMoveRefused, AnswerRefused, AnswerSettle, AnswerClose, Refuse, LoseAnswer,
      ShowRows, Restart, Land, LandAdrift

LEMMA PlansStayShown ==
  ASSUME TypeOK, RepliesAnswer, Forward, PlansAreShown, [Next]_vars
  PROVE  PlansAreShown'
<1>0. Checkpoint.turn \in Nat /\ Checkpoint'.turn \in Nat /\ Checkpoint.turn <= Checkpoint'.turn
  BY CheckpointForward
<1> DEFINE Shown(r, turn) == /\ r.op = "commit_turn" => r.turn \in 1 .. turn
                             /\ r.moves => r.op = "commit_turn"
<1>1. \A s \in Seats : Shown(request[s], Checkpoint.turn)
  BY DEF PlansAreShown
(* What it takes: the guard stays behind, and so does every request. *)
<1>2. SUFFICES /\ committed' <= Checkpoint.turn
               /\ \A s \in Seats : Shown(request'[s], Checkpoint.turn)
               /\ \A r \in adrift' : r.op = "commit_turn" => r.turn # 0
  <2>1. committed' \in Nat
    BY TypesStay DEF TypeOK
  <2> QED
    BY <1>0, <2>1 DEF PlansAreShown
<1>3. Shown(NoRequest, Checkpoint.turn) /\ 0 <= Checkpoint.turn /\ committed <= Checkpoint.turn
      /\ \A r \in adrift : r.op = "commit_turn" => r.turn # 0
  BY <1>0 DEF NoRequest, PlansAreShown
<1>4. ASSUME NEW s \in Seats, NEW op \in Ops, NEW turn, NEW moves, Send(s, op, turn, moves),
             op = "commit_turn" => turn \in 1 .. Checkpoint.turn, moves => op = "commit_turn",
             UNCHANGED <<committed, adrift>>
      PROVE  /\ committed' <= Checkpoint.turn
             /\ \A t \in Seats : Shown(request'[t], Checkpoint.turn)
             /\ \A r \in adrift' : r.op = "commit_turn" => r.turn # 0
  BY <1>1, <1>3, <1>4 DEF Send, Back, TypeOK
<1>5. ASSUME NEW s \in Seats, ClosePending(s) \/ Settle(s) \/ Ready(s)
      PROVE  /\ committed' <= Checkpoint.turn
             /\ \A t \in Seats : Shown(request'[t], Checkpoint.turn)
             /\ \A r \in adrift' : r.op = "commit_turn" => r.turn # 0
  BY <1>1, <1>3, <1>4, <1>5 DEF ClosePending, Settle, Ready, Ops, Back, TypeOK
<1>6. ASSUME NEW s \in Seats, CommitTurn(s)
      PROVE  /\ committed' <= Checkpoint.turn
             /\ \A t \in Seats : Shown(request'[t], Checkpoint.turn)
             /\ \A r \in adrift' : r.op = "commit_turn" => r.turn # 0
  <2>1. Checkpoint.turn \in 1 .. Checkpoint.turn
    BY <1>0, <1>6, HistoryTyped DEF CommitTurn, TurnDue, Forward, Checkpoint, TypeOK
  <2> QED
    BY <1>4, <1>6, <2>1 DEF CommitTurn, Ops
<1>7. ASSUME NEW s \in Seats, AnswerMoveRefused(s)
      PROVE  /\ committed' <= Checkpoint.turn
             /\ \A t \in Seats : Shown(request'[t], Checkpoint.turn)
             /\ \A r \in adrift' : r.op = "commit_turn" => r.turn # 0
  BY <1>1, <1>4, <1>7 DEF AnswerMoveRefused, Ops
<1>8. ASSUME NEW s \in Seats,
             \/ NothingDue(s) \/ AnswerDrive(s) \/ AnswerRefused(s) \/ AnswerSettle(s)
             \/ AnswerClose(s) \/ LoseAnswer(s)
      PROVE  /\ committed' <= Checkpoint.turn
             /\ \A t \in Seats : Shown(request'[t], Checkpoint.turn)
             /\ \A r \in adrift' : r.op = "commit_turn" => r.turn # 0
  <2>1. \A t \in Seats \ {s} : request'[t] = request[t]
    BY <1>8 DEF NothingDue, AnswerDrive, AnswerRefused, AnswerSettle, AnswerClose, LoseAnswer, Back, TypeOK
  <2>2. \/ request'[s] = NoRequest
        \/ AnswerSettle(s) /\ request'[s].op = "close" /\ request'[s].moves = request[s].moves
    <3>1. AnswerSettle(s) => request[s] \in Requests
      BY RequestTyped DEF AnswerSettle, Ops
    <3> QED
      BY <1>8, <3>1
      DEF NothingDue, AnswerDrive, AnswerRefused, AnswerSettle, AnswerClose, LoseAnswer, Back, TypeOK, Requests
  <2>3. AnswerSettle(s) => ~ request[s].moves
    BY <1>1 DEF AnswerSettle
  <2>4. \A t \in Seats : Shown(request'[t], Checkpoint.turn)
    BY <1>1, <1>3, <2>1, <2>2, <2>3
  <2>5. committed' \in {committed, 0} \/ (committed' = request[s].turn /\ request[s].op = "commit_turn")
    BY <1>8
    DEF NothingDue, AnswerDrive, AnswerRefused, AnswerSettle, AnswerClose, LoseAnswer, UnlockAndDrop
  <2>6. adrift' \in {adrift, adrift \cup {request[s]}}
    BY <1>8 DEF NothingDue, AnswerDrive, AnswerRefused, AnswerSettle, AnswerClose, LoseAnswer
  <2> QED
    BY <1>0, <1>1, <1>3, <2>4, <2>5, <2>6
<1>9. CASE Restart
  <2>1. \A r \in Unanswered : r.op = "commit_turn" => r.turn # 0
    BY <1>0, <1>1 DEF Unanswered
  <2> QED
    BY <1>3, <1>9, <2>1 DEF Restart
<1>10. ASSUME UNCHANGED <<request, committed>>, adrift' \subseteq adrift
       PROVE  /\ committed' <= Checkpoint.turn
              /\ \A t \in Seats : Shown(request'[t], Checkpoint.turn)
              /\ \A r \in adrift' : r.op = "commit_turn" => r.turn # 0
  BY <1>1, <1>3, <1>10
<1> QED
  BY <1>5, <1>6, <1>7, <1>8, <1>9, <1>10, NextCases
  DEF AskToSettle, AskToDrive, Land, Refuse, LandAdrift, ShowCheckpoint, ShowRows

-----------------------------------------------------------------------------
(* A turn is applied to the turn it was planned on. *)

(* While the fight is played the lock is kept, and nobody closes. *)
LEMMA PlayedUnderLock ==
  ASSUME IInv, Contract.stage \in {"placement", "turns"}
  PROVE  /\ Queue /\ ~ settlement_done
         /\ \A s \in Seats : request[s].op \notin {"close", "close_pending"}
         /\ \A s \in Seats : ~ (request[s].op = "settle" /\ reply[s] \in {"executed", "closable"})
         /\ \A s \in Seats : Committing(s) => Contract.stage = "turns" /\ s \in Submitters
<1>1. /\ Queue /\ ~ settlement_done
      /\ \A s \in Seats : request[s].op \notin {"close", "close_pending"}
      /\ \A s \in Seats : ~ (request[s].op = "settle" /\ reply[s] \in {"executed", "closable"})
  BY DEF IInv, SettlementSound, LockHolds, Closable
<1>2. ASSUME NEW s \in Seats, Committing(s)
      PROVE  Contract.stage = "turns" /\ s \in Submitters
  <2>1. request[s].turn \in 1 .. Checkpoint.turn
    BY <1>2 DEF IInv, PlansAreShown, Committing
  <2>2. Contract.turn # 0
    BY <2>1, ShownTrails, HistoryTyped DEF IInv
  <2>3. Contract.stage # "placement"
    BY <2>2, HistoryTyped DEF IInv, Forward, Contract
  <2>4. s \in Submitters
    BY <1>2, RequestTyped DEF IInv, Committing, Ops, Submitters, Locked
  <2> QED
    BY <2>3, <2>4
<1> QED
  BY <1>1, <1>2

(* A transaction that lands while the fight is played is the only one. *)
LEMMA LandsAlone ==
  ASSUME IInv, restarts = 0, Contract.stage \in {"placement", "turns"}, NEW s \in Seats,
         reply[s] = "waiting"
  PROVE  /\ adrift = {} /\ ~ refusing
         /\ \A t \in Seats : t \in Submitters => t = s
<1>1. s \in Submitters /\ s \in Entries /\ Queue
  BY PlayedUnderLock, SubmitterHoldsLock DEF IInv
<1>2. ~ refusing /\ adrift = {}
  BY <1>1 DEF IInv, PlansFit, AloneAdrift, Submitters
<1>3. \A t \in Submitters : t \in Entries
  BY DEF Entries
<1> QED
  BY <1>1, <1>2, <1>3, QueueIsExclusive

(* What is applied fits, whoever sent it. *)
LEMMA AppliedFits ==
  ASSUME IInv, restarts = 0, [Next]_vars
  PROVE  \A plan \in applied' : plan[1] = plan[2]
<1>0. /\ \A plan \in applied : plan[1] = plan[2]
      /\ Contract.stage = "turns" => CommitsFit
  BY DEF IInv, PlansFit
<1>1. ASSUME NEW s \in Seats, Land(s) PROVE \A plan \in applied' : plan[1] = plan[2]
  <2>1. request[s].op = "commit_turn" => request[s].turn = Contract.turn
    BY <1>0, <1>1 DEF Land, Execute, Accepts, CommitsFit, Committing
  <2> QED
    BY <1>0, <1>1, <2>1 DEF Land, Execute
<1>2. ASSUME NEW r \in adrift, LandAdrift(r) PROVE \A plan \in applied' : plan[1] = plan[2]
  <2>1. r.op = "commit_turn" => r.turn = Contract.turn
    BY <1>0, <1>2 DEF LandAdrift, Execute, Accepts, CommitsFit
  <2> QED
    BY <1>0, <1>2, <2>1 DEF LandAdrift, Execute
<1> QED
  BY <1>0, <1>1, <1>2, NextCases
  DEF AskToSettle, AskToDrive, ClosePending, Settle, Ready, CommitTurn, NothingDue, AnswerDrive,
      AnswerMoveRefused, AnswerRefused, AnswerSettle, AnswerClose, Refuse, LoseAnswer,
      ShowCheckpoint, ShowRows, Restart

(* At most one transaction is adrift, and only once the SDK refuses. *)
LEMMA OneAdrift ==
  ASSUME IInv, restarts = 0, [Next]_vars, ~ Restart
  PROVE  adrift' # {} => refusing' /\ \E r \in adrift' : adrift' = {r}
<1>0. adrift # {} => refusing /\ \E r \in adrift : adrift = {r}
  BY DEF IInv, PlansFit, AloneAdrift
<1>1. ASSUME NEW r \in adrift, LandAdrift(r) PROVE adrift' = {}
  BY <1>0, <1>1 DEF LandAdrift
<1>2. ASSUME NEW s \in Seats, LoseAnswer(s)
      PROVE  refusing' /\ (adrift' = {} \/ adrift' = {request[s]})
  BY <1>0, <1>2 DEF LoseAnswer
<1>3. CASE UNCHANGED <<adrift, refusing>>
  BY <1>0, <1>3
<1>4. CASE \E s \in Seats : LoseAnswer(s)
  BY <1>2, <1>4
<1>5. CASE \E r \in adrift : LandAdrift(r)
  BY <1>1, <1>5
<1> QED
  BY <1>3, <1>4, <1>5, NextCases
  DEF AskToSettle, AskToDrive, ClosePending, Settle, Ready, CommitTurn, NothingDue, AnswerDrive,
      AnswerMoveRefused, AnswerRefused, AnswerSettle, AnswerClose, Land, Refuse, ShowCheckpoint, ShowRows

(* The part of PlansFit that matters while the fight is played. *)
Fit ==
  /\ refusing => Submitters = {}
  /\ Contract.stage = "turns" => CommitsFit
  /\ Contract.stage = "placement" => committed = 0 /\ \A r \in adrift : r.op # "commit_turn"

(* A step that leaves alone what Fit speaks of. *)
LEMMA QuietKeepsFit ==
  ASSUME IInv, Fit, UNCHANGED <<history, adrift, refusing, committed>>,
         Submitters' \subseteq Submitters,
         \A s \in Seats : \/ request'[s] = request[s] /\ (reply'[s] = "executed" <=> reply[s] = "executed")
                          \/ request'[s] = NoRequest /\ ~ (Committing(s) /\ reply[s] = "executed")
  PROVE  Fit'
<1>1. Contract' = Contract
  BY DEF Contract
<1>2. Contract.stage = "turns" => CommitsFit'
  BY <1>1 DEF Fit, CommitsFit, Committing, NoRequest
<1> QED
  BY <1>1, <1>2 DEF Fit

(* A seat whose entry runs may begin to submit a transaction, a turn only if
   it is the one being played. *)
LEMMA SendKeepsFit ==
  ASSUME IInv, Fit, UNCHANGED <<history, adrift, refusing, committed>>,
         NEW s \in Seats, NEW op \in Ops, NEW turn, NEW moves, Send(s, op, turn, moves),
         op = "commit_turn" => turn = Contract.turn,
         ~ (Committing(s) /\ reply[s] = "executed")
  PROVE  Fit'
<1> USE DEF IInv
<1>1. CASE refusing
  <2>1. Submitters' \subseteq Submitters
    BY <1>1 DEF Send, Back, Submitters, Locked, TypeOK
  <2>2. \A t \in Seats : \/ request'[t] = request[t] /\ (reply'[t] = "executed" <=> reply[t] = "executed")
                         \/ request'[t] = NoRequest /\ ~ (Committing(t) /\ reply[t] = "executed")
    BY <1>1 DEF Send, Back, TypeOK
  <2> QED
    BY <2>1, <2>2, QuietKeepsFit
<1>2. CASE ~ refusing
  <2>1. \A t \in Seats \ {s} : request'[t] = request[t] /\ reply'[t] = reply[t]
    BY <1>2 DEF Send, TypeOK
  <2>2. request'[s].op = op /\ request'[s].turn = turn /\ reply'[s] = "waiting"
    BY <1>2 DEF Send, TypeOK
  <2>3. Contract' = Contract
    BY DEF Contract
  <2>4. Contract.stage = "turns" => CommitsFit'
    BY <2>1, <2>2, <2>3 DEF Fit, CommitsFit, Committing
  <2> QED
    BY <1>2, <2>3, <2>4 DEF Fit
<1> QED
  BY <1>1, <1>2

LEMMA LandKeepsFit ==
  ASSUME IInv, restarts = 0, Fit, Contract.stage \in {"placement", "turns"},
         NEW s \in Seats, Land(s)
  PROVE  Fit'
<1>1. /\ adrift = {} /\ ~ refusing /\ \A t \in Seats : t \in Submitters => t = s
  BY LandsAlone DEF Land
<1>2. request[s] \in Requests /\ Execute(request[s])
  BY RequestTyped DEF Land, IInv
<1>3. \A t \in Seats \ {s} : ~ Committing(t)
  BY <1>1, PlayedUnderLock
<1>4. \A t \in Seats : request'[t] = request[t]
  BY DEF Land
<1>5. adrift' = {} /\ ~ refusing' /\ committed' = committed
  BY <1>1 DEF Land
<1>6. request[s].op \in {"ready", "commit_turn"} /\ Accepts(request[s])
  BY <1>2 DEF Execute, Accepts, Requests, Ops
<1>7. reply'[s] = "executed"
  BY <1>6 DEF Land, IInv, TypeOK
<1>8. CASE request[s].op = "ready"
  <2>1. \/ Contract'.stage = "placement"
        \/ Contract'.stage = "turns" /\ Contract'.turn = Contract.turn + 1
    BY <1>2, <1>6, <1>8, ExecuteAppends, OutcomesAdvance DEF IInv
  <2>2. Contract.stage = "placement" /\ Contract.turn = 0 /\ committed = 0
    BY <1>6, <1>8, HistoryTyped DEF Accepts, IInv, Forward, Contract, Fit
  <2>3. \A t \in Seats : ~ Committing(t)'
    BY <1>3, <1>4, <1>8 DEF Committing
  <2> QED
    BY <1>5, <2>1, <2>2, <2>3 DEF Fit, CommitsFit
<1>9. CASE request[s].op = "commit_turn"
  <2>1. \/ Contract'.stage = "ended"
        \/ Contract'.stage = "turns" /\ Contract'.turn = Contract.turn + 1
    BY <1>2, <1>6, <1>9, ExecuteAppends, OutcomesAdvance DEF IInv
  <2>2. request[s].turn = Contract.turn
    BY <1>6, <1>9 DEF Accepts, Fit, CommitsFit, Committing, Land
  <2>3. \A t \in Seats : Committing(t)' => t = s
    BY <1>3, <1>4 DEF Committing
  <2>4. Committing(s)' /\ request'[s].turn = request[s].turn
    BY <1>4, <1>9 DEF Committing
  <2> QED
    BY <1>5, <1>7, <2>1, <2>2, <2>3, <2>4 DEF Fit, CommitsFit
<1> QED
  BY <1>6, <1>8, <1>9

LEMMA LandAdriftKeepsFit ==
  ASSUME IInv, restarts = 0, Fit, Contract.stage \in {"placement", "turns"},
         NEW r \in adrift, LandAdrift(r)
  PROVE  Fit'
<1>1. refusing /\ adrift = {r} /\ Submitters = {}
  BY DEF IInv, PlansFit, AloneAdrift
<1>2. \A t \in Seats : ~ Committing(t)
  BY <1>1, PlayedUnderLock
<1>3. adrift' = {} /\ refusing' /\ committed' = committed /\ Submitters' = Submitters
  BY <1>1 DEF LandAdrift, Submitters, Locked
<1>4. \A t \in Seats : ~ Committing(t)'
  BY <1>2 DEF LandAdrift, Committing
<1>5. r \in Requests /\ Execute(r) /\ Accepts(r) /\ r.op \in {"ready", "commit_turn"}
  BY DEF LandAdrift, Execute, Accepts, IInv, TypeOK, Requests, Ops
<1>6. Contract'.stage = "placement" => Contract.stage = "placement"
  BY <1>5, ExecuteAppends, OutcomesAdvance DEF IInv
<1> QED
  BY <1>1, <1>3, <1>4, <1>6 DEF Fit, CommitsFit

LEMMA FitStays ==
  ASSUME IInv, restarts = 0, [Next]_vars, ~ Restart, Fit,
         Contract.stage \in {"placement", "turns"}
  PROVE  Fit'
<1> USE DEF IInv
<1>0. /\ Queue /\ ~ settlement_done
      /\ \A s \in Seats : request[s].op \notin {"close", "close_pending"}
      /\ \A s \in Seats : ~ (request[s].op = "settle" /\ reply[s] \in {"executed", "closable"})
  BY PlayedUnderLock
(* A step that leaves everything alone but the lock, or the streams. *)
<1>1. ASSUME UNCHANGED <<history, adrift, refusing, committed, request, reply>>,
             Submitters' \subseteq Submitters
      PROVE  Fit'
  BY <1>1, QuietKeepsFit
<1>2. ASSUME NEW s \in Seats, AskToSettle(s) \/ AskToDrive(s) PROVE Fit'
  <2>1. Submitters' \subseteq Submitters
    BY <1>2 DEF AskToSettle, AskToDrive, Submitters, Locked, TypeOK
  <2> QED
    BY <1>1, <1>2, <2>1 DEF AskToSettle, AskToDrive
<1>3. CASE ShowCheckpoint \/ ShowRows \/ UNCHANGED vars
  <2>1. Submitters' \subseteq Submitters
    BY <1>3 DEF ShowCheckpoint, ShowRows, Submitters, Locked
  <2> QED
    BY <1>1, <1>3, <2>1 DEF ShowCheckpoint, ShowRows
<1>4. ASSUME NEW s \in Seats, Refuse(s) PROVE Fit'
  <2>1. Submitters' \subseteq Submitters
    BY <1>4 DEF Refuse, Submitters, Locked
  <2>2. \A t \in Seats : request'[t] = request[t] /\ (reply'[t] = "executed" <=> reply[t] = "executed")
    BY <1>4 DEF Refuse, TypeOK
  <2> QED
    BY <1>4, <2>1, <2>2, QuietKeepsFit DEF Refuse
(* A seat drops what it was about. *)
<1>5. ASSUME NEW s \in Seats, Back(s), ~ (Committing(s) /\ reply[s] = "executed"),
             UNCHANGED <<history, adrift, refusing, committed>>
      PROVE  Fit'
  <2>1. Submitters' \subseteq Submitters
    BY <1>5 DEF Back, Submitters, Locked, TypeOK
  <2>2. \A t \in Seats : \/ request'[t] = request[t] /\ (reply'[t] = "executed" <=> reply[t] = "executed")
                         \/ request'[t] = NoRequest /\ ~ (Committing(t) /\ reply[t] = "executed")
    BY <1>5 DEF Back, TypeOK
  <2> QED
    BY <1>5, <2>1, <2>2, QuietKeepsFit
<1>6. ASSUME NEW s \in Seats, NothingDue(s) \/ AnswerRefused(s) PROVE Fit'
  <2>1. ~ (Committing(s) /\ reply[s] = "executed")
    BY <1>6, RequestTyped DEF NothingDue, AnswerRefused, Committing, Ops
  <2> QED
    BY <1>5, <1>6, <2>1 DEF NothingDue, AnswerRefused
<1>7. ASSUME NEW s \in Seats, ClosePending(s) \/ Settle(s) \/ Ready(s) PROVE Fit'
  <2>1. ~ Committing(s)
    BY <1>7, RequestTyped DEF ClosePending, Settle, Ready, Driving, Committing, Ops
  <2> QED
    BY <1>5, <1>7, <2>1, SendKeepsFit DEF ClosePending, Settle, Ready, Ops
<1>8. ASSUME NEW s \in Seats, CommitTurn(s) PROVE Fit'
  <2>1. ~ Committing(s) /\ s \notin Submitters
    BY <1>8, RequestTyped DEF CommitTurn, Driving, Committing, Ops, Submitters, Locked
  <2>2. ~ refusing => Checkpoint.turn = Contract.turn
    <3>1. Contract.stage = "turns"
      BY <1>8, ShownTrails DEF CommitTurn, TurnDue, Rank
    <3>2. \A t \in Seats : ~ Committing(t)
      <4>1. ASSUME NEW t \in Seats, Committing(t) PROVE FALSE
        <5>1. t \in Submitters /\ s \in Entries /\ HasLock(s)
          BY <1>8, <4>1, PlayedUnderLock DEF CommitTurn, Driving, Entries
        <5> QED
          BY <1>0, <2>1, <5>1, QueueIsExclusive
      <4> QED
        BY <4>1
    <3>3. ~ refusing => committed + 1 = Contract.turn
      BY <3>1, <3>2 DEF Fit, CommitsFit
    <3>4. /\ committed <= Checkpoint.turn /\ committed # Checkpoint.turn
          /\ Checkpoint.turn <= Contract.turn
      BY <1>8, ShownTrails DEF CommitTurn, TurnDue, PlansAreShown
    <3>5. committed \in Nat /\ Checkpoint.turn \in Nat /\ Contract.turn \in Nat
      BY HistoryTyped DEF TypeOK
    <3> QED
      BY <3>3, <3>4, <3>5
  <2>3. CASE refusing
    BY <1>5, <1>8, <2>1, <2>3 DEF CommitTurn, Send
  <2>4. CASE ~ refusing
    BY <1>8, <2>1, <2>2, <2>4, SendKeepsFit DEF CommitTurn, Ops
  <2> QED
    BY <2>3, <2>4
<1>9. ASSUME NEW s \in Seats, AnswerMoveRefused(s) PROVE Fit'
  <2>1. Committing(s) /\ Contract.stage = "turns"
    BY <1>9, PlayedUnderLock DEF AnswerMoveRefused, PlansAreShown, Committing
  <2>2. request[s].turn = Contract.turn
    BY <1>9, <2>1 DEF AnswerMoveRefused, Fit, CommitsFit
  <2> QED
    BY <1>9, <2>2, SendKeepsFit DEF AnswerMoveRefused, Ops
<1>10. ASSUME NEW s \in Seats, AnswerDrive(s) PROVE Fit'
  <2>1. CASE request[s].op = "ready"
    BY <1>5, <1>10, <2>1 DEF AnswerDrive, Committing
  <2>2. CASE request[s].op = "commit_turn"
    <3>1. Contract.stage = "turns" /\ Contract' = Contract
      BY <1>10, <2>2, PlayedUnderLock DEF Committing, AnswerDrive, Contract
    <3>2. committed' + 1 = Contract.turn
      BY <1>10, <2>2, <3>1 DEF AnswerDrive, Fit, CommitsFit, Committing
    <3>3. \A t \in Seats : \/ request'[t] = request[t] /\ reply'[t] = reply[t]
                           \/ request'[t] = NoRequest
      BY <1>10 DEF AnswerDrive, Back, TypeOK
    <3>4. Submitters' \subseteq Submitters
      BY <1>10 DEF AnswerDrive, Back, Submitters, Locked, TypeOK
    <3>5. UNCHANGED <<adrift, refusing>>
      BY <1>10 DEF AnswerDrive
    <3>6. CommitsFit'
      BY <3>1, <3>2, <3>3, <3>5 DEF Fit, CommitsFit, Committing, NoRequest
    <3> QED
      BY <3>1, <3>4, <3>5, <3>6 DEF Fit
  <2> QED
    BY <1>10, <2>1, <2>2 DEF AnswerDrive
<1>11. ASSUME NEW s \in Seats, LoseAnswer(s) PROVE Fit'
  <2>1. s \in Submitters /\ s \in Entries
    BY <1>0, <1>11, SubmitterHoldsLock DEF LoseAnswer
  <2>2. \A t \in Submitters : t = s
    BY <1>0, <2>1, QueueIsExclusive DEF Entries
  <2>3. Submitters' = {} /\ refusing'
    BY <1>11, <2>2 DEF LoseAnswer, Back, Submitters, Locked, TypeOK
  <2>4. adrift = {} /\ adrift' = IF reply[s] = "waiting" THEN {request[s]} ELSE {}
    BY <1>11 DEF LoseAnswer, PlansFit, AloneAdrift
  <2>5. Contract' = Contract /\ committed' = committed
    BY <1>0, <1>11 DEF LoseAnswer, Contract
  <2>6. \A t \in Seats : ~ Committing(t)'
    <3>1. \A t \in Seats : request'[t] = request[t] \/ request'[t] = NoRequest
      BY <1>11 DEF LoseAnswer, Back, TypeOK
    <3>2. request'[s] = NoRequest
      BY <1>11 DEF LoseAnswer, Back, TypeOK
    <3>3. \A t \in Seats : Committing(t) => t = s
      BY <2>2, PlayedUnderLock
    <3> QED
      BY <3>1, <3>2, <3>3 DEF Committing, NoRequest
  <2>7. \A r \in adrift' : r.op = "commit_turn" =>
          r.turn = Contract.turn /\ Contract.stage = "turns"
    BY <2>4, PlayedUnderLock DEF Fit, CommitsFit, Committing
  <2> QED
    BY <2>3, <2>5, <2>6, <2>7 DEF Fit, CommitsFit
<1>12. ASSUME NEW s \in Seats, AnswerSettle(s) \/ AnswerClose(s) PROVE Fit'
  <2>1. ~ AnswerClose(s)
    BY <1>0 DEF AnswerClose
  <2> QED
    BY <1>0, <1>12, <2>1 DEF AnswerSettle
<1>13. ASSUME NEW s \in Seats, Land(s) PROVE Fit'
  BY <1>13, LandKeepsFit
<1>14. ASSUME NEW r \in adrift, LandAdrift(r) PROVE Fit'
  BY <1>14, LandAdriftKeepsFit
<1> QED
  BY <1>2, <1>3, <1>4, <1>6, <1>7, <1>8, <1>9, <1>10, <1>11, <1>12, <1>13, <1>14, NextCases

(* A fight that is still played was played before. *)
LEMMA PlayedBefore ==
  ASSUME TypeOK, RepliesAnswer, Forward, [Next]_vars,
         Contract'.stage \in {"placement", "turns"}
  PROVE  Contract.stage \in {"placement", "turns"}
<1>1. CASE UNCHANGED chain_vars
  BY <1>1 DEF Contract
<1>2. CASE \E r \in Requests : Execute(r)
  <2>1. PICK r \in Requests : Execute(r)
    BY <1>2
  <2>2. Contract' \in Outcomes(r) /\ Accepts(r) /\ r.op \in Ops
    BY <2>1, ExecuteAppends DEF Execute, Requests
  <2> QED
    BY <2>2, OutcomesAdvance DEF Ops
<1> QED
  BY <1>1, <1>2, ContractSteps

LEMMA PlansStayFit ==
  ASSUME IInv, [Next]_vars
  PROVE  PlansFit'
<1> SUFFICES ASSUME restarts' = 0
             PROVE  /\ AloneAdrift'
                    /\ Contract'.stage = "turns" => CommitsFit'
                    /\ Contract'.stage = "placement" =>
                         committed' = 0 /\ \A r \in adrift' : r.op # "commit_turn"
                    /\ \A plan \in applied' : plan[1] = plan[2]
  BY DEF PlansFit
<1>1. restarts = 0 /\ ~ Restart
  <2>1. ~ Restart
    BY DEF Restart, IInv, TypeOK
  <2> QED
    BY <2>1, NextCases
    DEF AskToSettle, AskToDrive, ClosePending, Settle, Ready, CommitTurn, NothingDue, AnswerDrive,
        AnswerMoveRefused, AnswerRefused, AnswerSettle, AnswerClose, Land, Refuse, LoseAnswer,
        LandAdrift, ShowCheckpoint, ShowRows
<1>2. Contract'.stage \in {"placement", "turns"} => Fit'
  <2>1. SUFFICES ASSUME Contract'.stage \in {"placement", "turns"} PROVE Fit'
    OBVIOUS
  <2>2. Contract.stage \in {"placement", "turns"}
    BY <2>1, PlayedBefore DEF IInv
  <2>3. Fit
    BY <1>1, <2>2 DEF Fit, IInv, PlansFit, AloneAdrift
  <2> QED
    BY <1>1, <2>2, <2>3, FitStays
<1> QED
  BY <1>1, <1>2, AppliedFits, OneAdrift DEF Fit, AloneAdrift

-----------------------------------------------------------------------------
LEMMA NextKeepsIInv == IInv /\ [Next]_vars => IInv'
<1> SUFFICES ASSUME IInv, [Next]_vars PROVE IInv'
  OBVIOUS
<1>1. TypeOK' /\ RepliesAnswer'
  BY TypesStay DEF IInv
<1>2. LockHolds'
  BY LockStays DEF IInv
<1>3. Forward'
  BY ContractForward DEF IInv
<1>4. SettlementSound' /\ SettledOnce'
  BY SettlementStays DEF IInv
<1>5. PlansAreShown'
  BY PlansStayShown DEF IInv
<1>6. PlansFit'
  BY PlansStayFit
<1> QED
  BY <1>1, <1>2, <1>3, <1>4, <1>5, <1>6 DEF IInv

(* The invariant is inductive: no submission, answer, packet, drop or restart,
   in any order, breaks what the lock, the guards and the refusals of the SDK
   promise one another. *)
THEOREM IInvHolds == Spec => []IInv
<1> QED
  BY InitEstablishesIInv, NextKeepsIInv, PTL DEF Spec

(* Every state is well-typed, at every point of every run. *)
THEOREM TypeCorrect == Spec => []TypeOK
<1>1. IInv => TypeOK
  BY DEF IInv
<1> QED
  BY <1>1, IInvHolds, PTL

(* Until the fight is settled at most one seat has a transaction of it under
   way: the promises of with_lock form one chain, whatever ends an entry. *)
THEOREM LockIsExclusive == Spec => []OneSubmitter
<1>1. IInv => OneSubmitter
  <2>1. ASSUME Queue, NEW s \in Seats, NEW t \in Seats, Locked(s), Locked(t)
        PROVE  s = t
    <3>1. s \in Submitters /\ t \in Submitters /\ t \in Entries
      BY <2>1 DEF Submitters, Entries
    <3> QED
      BY <2>1, <3>1, QueueIsExclusive
  <2> QED
    BY <2>1 DEF IInv, LockHolds, OneSubmitter
<1> QED
  BY <1>1, IInvHolds, PTL

(* A turn is applied to the turn it was planned on, as long as the process
   was not started again: the lock, the guard and the refusals of the SDK
   leave at most one commit that may still land. *)
THEOREM PlansAreApplied == Spec => []PlanFitsTurn
<1>1. IInv => PlanFitsTurn
  BY DEF IInv, PlansFit, PlanFitsTurn
<1> QED
  BY <1>1, IInvHolds, PTL

(* Nobody submits a settlement that was already answered. *)
THEOREM SettlesOnce == Spec => []SettledOnce
<1>1. IInv => SettledOnce
  BY DEF IInv
<1> QED
  BY <1>1, IInvHolds, PTL

(* The contract never goes back: a step leaves its history as it was, or adds
   a state to it that is no earlier in stage or turn. *)
THEOREM ContractNeverGoesBack ==
  Spec => [][/\ \A i \in 1 .. Len(history) : history'[i] = history[i]
             /\ Rank(Contract.stage) <= Rank(Contract'.stage)
             /\ Contract.turn <= Contract'.turn]_history
<1>1. IInv /\ [Next]_vars =>
        [/\ \A i \in 1 .. Len(history) : history'[i] = history[i]
         /\ Rank(Contract.stage) <= Rank(Contract'.stage)
         /\ Contract.turn <= Contract'.turn]_history
  <2> SUFFICES ASSUME IInv, [Next]_vars, history' # history
               PROVE  /\ \A i \in 1 .. Len(history) : history'[i] = history[i]
                      /\ Rank(Contract.stage) <= Rank(Contract'.stage)
                      /\ Contract.turn <= Contract'.turn
    OBVIOUS
  <2>1. PICK r \in Requests : Execute(r)
    BY ContractSteps DEF IInv
  <2>2. /\ Len(history') = Len(history) + 1 /\ Len(history) \in Nat /\ Len(history) \in 1 .. Len(history)
        /\ \A i \in 1 .. Len(history) : history'[i] = history[i]
    BY <2>1, ExecuteAppends, HistoryTyped DEF IInv
  <2>3. Forward'
    BY <2>1, ExecuteForward DEF IInv
  <2> QED
    BY <2>2, <2>3 DEF Forward, Contract
<1> QED
  BY <1>1, IInvHolds, PTL DEF Spec

(***************************************************************************)
(* The rules of a fight (FightCalc)                                        *)
(***************************************************************************)

(***************************************************************************)
(* Induction and recursion over the naturals                               *)
(***************************************************************************)

\* A set of naturals that is not empty has a least element.
LEMMA LeastNatural ==
  ASSUME NEW S \in SUBSET Nat, S # {}
  PROVE  \E n \in S : \A m \in S : n <= m
<1>1. PICK n \in S : \A m \in S : <<m, n>> \notin OpToRel(<, Nat)
  BY NatLessThanWellFounded, WFMin, Zenon
<1>2. ASSUME NEW m \in S, m < n PROVE FALSE
  BY <1>1, <1>2 DEF OpToRel
<1> QED
  BY <1>2

\* Induction, for a set in the place of a predicate.
LEMMA Induction ==
  ASSUME NEW S \in SUBSET Nat, 0 \in S, \A n \in Nat : n \in S => n + 1 \in S
  PROVE  \A n \in Nat : n \in S
<1> SUFFICES ASSUME Nat \ S # {} PROVE FALSE
  OBVIOUS
<1>1. PICK n \in Nat \ S : \A m \in Nat \ S : n <= m
  BY LeastNatural
<1>2. n # 0 /\ n - 1 \in Nat
  BY <1>1
<1>3. n - 1 \in S
  BY <1>1, <1>2
<1> QED
  BY <1>1, <1>2, <1>3

\* f starts with a and goes on to N, each value a step from the one before it.
Unfolds(f, V, a, step, N) ==
    f \in [0 .. N -> V] /\ f[0] = a /\ \A n \in 1 .. N : f[n] = step[n][f[n - 1]]

\* A function defined from its value one step before exists: what the operators
\* written with a recursive function stand on.
LEMMA Recursion ==
  ASSUME NEW V, NEW a \in V, NEW step \in [Nat -> [V -> V]], NEW N \in Nat
  PROVE  \E f : Unfolds(f, V, a, step, N)
<1> DEFINE Good(n, f) == \A k \in 0 .. n : f[k] = IF k = 0 THEN a ELSE step[k][f[k - 1]]
           S == {n \in Nat : \E f \in [0 .. n -> V] : Good(n, f)}
<1>1. 0 \in S
  <2>1. [k \in 0 .. 0 |-> a] \in [0 .. 0 -> V] /\ Good(0, [k \in 0 .. 0 |-> a])
    OBVIOUS
  <2> QED
    BY <2>1
<1>2. ASSUME NEW n \in Nat, n \in S PROVE n + 1 \in S
  <2>1. PICK f \in [0 .. n -> V] : Good(n, f)
    BY <1>2
  <2> DEFINE g == [k \in 0 .. n + 1 |-> IF k = n + 1 THEN step[n + 1][f[n]] ELSE f[k]]
  <2>2. step[n + 1][f[n]] \in V
    OBVIOUS
  <2>3. g \in [0 .. n + 1 -> V]
    BY <2>2
  <2>4. \A k \in 0 .. n : g[k] = f[k]
    OBVIOUS
  <2>5. Good(n + 1, g)
    BY <2>1
  <2> HIDE DEF g
  <2> QED
    BY <2>3, <2>5
<1>3. N \in S
  <2> HIDE DEF S
  <2> QED
    BY <1>1, <1>2, Induction DEF S
<1> QED
  BY <1>3 DEF Unfolds

\* The values of such a function lie where its steps stay.
LEMMA RecursionType ==
  ASSUME NEW V, NEW a \in V, NEW step \in [Nat -> [V -> V]], NEW N \in Nat,
         NEW Z, NEW f \in [0 .. N -> Z], f[0] = a,
         \A n \in 1 .. N : f[n - 1] \in V => f[n] = step[n][f[n - 1]]
  PROVE  Unfolds(f, V, a, step, N)
<1> DEFINE S == {n \in Nat : n <= N => f[n] \in V}
<1>1. 0 \in S
  OBVIOUS
<1>2. ASSUME NEW n \in Nat, n \in S PROVE n + 1 \in S
  <2> SUFFICES ASSUME n + 1 <= N PROVE f[n + 1] \in V
    OBVIOUS
  <2>1. n + 1 \in 1 .. N /\ (n + 1) - 1 = n /\ f[n] \in V
    BY <1>2
  <2>2. f[n + 1] = step[n + 1][f[n]]
    BY <2>1
  <2> QED
    BY <2>1, <2>2
<1>3. \A k \in Nat : k \in S
  <2>1. S \in SUBSET Nat
    OBVIOUS
  <2> HIDE DEF S
  <2> QED
    BY <1>1, <1>2, <2>1, Induction
<1>4. \A n \in 0 .. N : f[n] \in V
  BY <1>3
<1>5. \A n \in 1 .. N : f[n - 1] \in V
  BY <1>4
<1> QED
  BY <1>4, <1>5 DEF Unfolds

(***************************************************************************)
(* Sums and products                                                       *)
(***************************************************************************)

\* A function on 1 .. n is a sequence of length n.
LEMMA LengthOf ==
  ASSUME NEW S, NEW n \in Nat, NEW f \in [1 .. n -> S]
  PROVE  f \in Seq(S) /\ Len(f) = n /\ DOMAIN f = 1 .. n
<1>1. f \in Seq(S)
  BY SeqDef
<1>2. Len(f) \in Nat /\ DOMAIN f = 1 .. Len(f)
  BY <1>1, LenProperties
<1>3. 1 .. n = 1 .. Len(f)
  BY <1>2
<1>4. n \in 1 .. n \/ n = 0
  OBVIOUS
<1>5. Len(f) \in 1 .. Len(f) \/ Len(f) = 0
  BY <1>2
<1>6. Len(f) = n
  BY <1>2, <1>3, <1>4, <1>5
<1> QED
  BY <1>1, <1>6

\* The running total of a sequence of naturals.
LEMMA SumIsTotal ==
  ASSUME NEW n \in Nat, NEW seq \in [1 .. n -> Nat]
  PROVE  \E total \in [0 .. n -> Nat] :
           /\ SumOf(seq) = total[n]
           /\ total[0] = 0
           /\ \A k \in 1 .. n : total[k] = total[k - 1] + seq[k]
<1> DEFINE step == [k \in Nat |-> [v \in Nat |-> IF k \in 1 .. n THEN v + seq[k] ELSE v]]
           Is(f) == f = [k \in 0 .. n |-> IF k = 0 THEN 0 ELSE f[k - 1] + seq[k]]
           total == CHOOSE f : Is(f)
<1>1. step \in [Nat -> [Nat -> Nat]]
  OBVIOUS
<1>2. \A k \in 1 .. n, v \in Nat : step[k][v] = v + seq[k]
  OBVIOUS
<1> HIDE DEF step
<1>3. PICK f : Unfolds(f, Nat, 0, step, n)
  BY <1>1, 0 \in Nat, Recursion
<1>4. Is(f)
  <2>1. ASSUME NEW k \in 1 .. n PROVE f[k] = f[k - 1] + seq[k]
    <3>1. f[k - 1] \in Nat
      BY <1>3 DEF Unfolds
    <3> QED
      BY <1>2, <1>3, <3>1 DEF Unfolds
  <2> QED
    BY <1>3, <2>1 DEF Unfolds
<1>5. Is(total)
  <2> HIDE DEF Is
  <2> QED
    BY <1>4
<1>6. SumOf(seq) = total[n]
  BY LengthOf DEF SumOf
<1> HIDE DEF total
<1>7. total[0] = 0 /\ \A k \in 1 .. n : total[k] = total[k - 1] + seq[k]
  BY <1>5
<1> DEFINE Z == {total[k] : k \in 0 .. n}
<1>8. total \in [0 .. n -> Z]
  BY <1>5
<1>9. \A k \in 1 .. n : total[k - 1] \in Nat => total[k] = step[k][total[k - 1]]
  BY <1>2, <1>7
<1> HIDE DEF Z, Is
<1>10. Unfolds(total, Nat, 0, step, n)
  BY <1>1, <1>7, <1>8, <1>9, 0 \in Nat, RecursionType
<1> QED
  BY <1>6, <1>7, <1>10 DEF Unfolds
\* A sum of naturals is a natural.
LEMMA SumIsNat ==
  ASSUME NEW n \in Nat, NEW seq \in [1 .. n -> Nat]
  PROVE  SumOf(seq) \in Nat
<1>1. PICK total \in [0 .. n -> Nat] : SumOf(seq) = total[n]
  BY SumIsTotal
<1> QED
  BY <1>1

\* The running product of a sequence of naturals.
LEMMA ProductIsRunning ==
  ASSUME NEW n \in Nat, NEW seq \in [1 .. n -> Nat]
  PROVE  \E product \in [0 .. n -> Nat] :
           /\ ProductOf(seq) = product[n]
           /\ product[0] = 1
           /\ \A k \in 1 .. n : product[k] = product[k - 1] * seq[k]
<1> DEFINE step == [k \in Nat |-> [v \in Nat |-> IF k \in 1 .. n THEN v * seq[k] ELSE v]]
           Is(f) == f = [k \in 0 .. n |-> IF k = 0 THEN 1 ELSE f[k - 1] * seq[k]]
           product == CHOOSE f : Is(f)
<1>1. step \in [Nat -> [Nat -> Nat]]
  OBVIOUS
<1>2. \A k \in 1 .. n, v \in Nat : step[k][v] = v * seq[k]
  OBVIOUS
<1> HIDE DEF step
<1>3. PICK f : Unfolds(f, Nat, 1, step, n)
  BY <1>1, 1 \in Nat, Recursion
<1>4. Is(f)
  <2>1. ASSUME NEW k \in 1 .. n PROVE f[k] = f[k - 1] * seq[k]
    <3>1. f[k - 1] \in Nat
      BY <1>3 DEF Unfolds
    <3> QED
      BY <1>2, <1>3, <3>1 DEF Unfolds
  <2> QED
    BY <1>3, <2>1 DEF Unfolds
<1>5. Is(product)
  <2> HIDE DEF Is
  <2> QED
    BY <1>4
<1>6. ProductOf(seq) = product[n]
  BY LengthOf DEF ProductOf
<1> HIDE DEF product
<1>7. product[0] = 1 /\ \A k \in 1 .. n : product[k] = product[k - 1] * seq[k]
  BY <1>5
<1> DEFINE Z == {product[k] : k \in 0 .. n}
<1>8. product \in [0 .. n -> Z]
  BY <1>5
<1>9. \A k \in 1 .. n : product[k - 1] \in Nat => product[k] = step[k][product[k - 1]]
  BY <1>2, <1>7
<1> HIDE DEF Z, Is
<1>10. Unfolds(product, Nat, 1, step, n)
  BY <1>1, <1>7, <1>8, <1>9, 1 \in Nat, RecursionType
<1> QED
  BY <1>6, <1>7, <1>10 DEF Unfolds

\* A product grows with its factors, which are at least one.
LEMMA ProductsCompare ==
  ASSUME NEW n \in Nat, NEW low \in [1 .. n -> Nat], NEW high \in [1 .. n -> Nat],
         \A i \in 1 .. n : low[i] <= high[i] /\ high[i] >= 1
  PROVE  /\ ProductOf(low) \in Nat /\ ProductOf(high) \in Nat
         /\ ProductOf(low) <= ProductOf(high) /\ ProductOf(high) >= 1
<1>1. PICK f \in [0 .. n -> Nat] :
             /\ ProductOf(low) = f[n] /\ f[0] = 1
             /\ \A k \in 1 .. n : f[k] = f[k - 1] * low[k]
  BY ProductIsRunning
<1>2. PICK g \in [0 .. n -> Nat] :
             /\ ProductOf(high) = g[n] /\ g[0] = 1
             /\ \A k \in 1 .. n : g[k] = g[k - 1] * high[k]
  BY ProductIsRunning
<1> DEFINE S == {k \in Nat : k <= n => f[k] <= g[k] /\ g[k] >= 1}
<1>3. 0 \in S
  BY <1>1, <1>2
<1>4. ASSUME NEW k \in Nat, k \in S PROVE k + 1 \in S
  <2> SUFFICES ASSUME k + 1 <= n PROVE f[k + 1] <= g[k + 1] /\ g[k + 1] >= 1
    OBVIOUS
  <2> DEFINE a == f[k]
             b == g[k]
             c == low[k + 1]
             d == high[k + 1]
  <2>1. a \in Nat /\ b \in Nat /\ c \in Nat /\ d \in Nat
    OBVIOUS
  <2>2. a <= b /\ b >= 1 /\ c <= d /\ d >= 1
    BY <1>4
  <2>3. f[k + 1] = a * c /\ g[k + 1] = b * d
    BY <1>1, <1>2
  <2> HIDE DEF a, b, c, d
  <2> DEFINE p == a * c
             m == b * c
             q == b * d
  <2>4. p \in Nat /\ m \in Nat /\ q \in Nat
    BY <2>1
  <2>5. p <= m /\ m <= q /\ q >= b
    BY <2>1, <2>2
  <2>6. f[k + 1] = p /\ g[k + 1] = q
    BY <2>3
  <2> HIDE DEF p, m, q
  <2> QED
    BY <2>1, <2>2, <2>4, <2>5, <2>6
<1>5. \A k \in Nat : k \in S
  <2>1. S \in SUBSET Nat
    OBVIOUS
  <2> HIDE DEF S
  <2> QED
    BY <1>3, <1>4, <2>1, Induction
<1>6. f[n] <= g[n] /\ g[n] >= 1
  BY <1>5
<1> QED
  BY <1>1, <1>2, <1>6

\* Of shares that are each proportional or less, the sum is no more than the whole.
LEMMA SharesFit ==
  ASSUME NEW n \in Nat, NEW part \in [1 .. n -> Nat], NEW share \in [1 .. n -> Nat],
         NEW whole \in Nat, SumOf(part) > 0,
         \A i \in 1 .. n : share[i] * SumOf(part) <= whole * part[i]
  PROVE  SumOf(share) <= whole
<1> DEFINE P == SumOf(part)
<1>1. PICK t \in [0 .. n -> Nat] :
             /\ P = t[n] /\ t[0] = 0
             /\ \A k \in 1 .. n : t[k] = t[k - 1] + part[k]
  BY SumIsTotal
<1>2. PICK u \in [0 .. n -> Nat] :
             /\ SumOf(share) = u[n] /\ u[0] = 0
             /\ \A k \in 1 .. n : u[k] = u[k - 1] + share[k]
  BY SumIsTotal
<1>3. P \in Nat /\ P > 0
  BY <1>1
<1>4. \A i \in 1 .. n : share[i] * P <= whole * part[i]
  OBVIOUS
<1> HIDE DEF P
<1> DEFINE S == {k \in Nat : k <= n => u[k] * P <= whole * t[k]}
<1>5. 0 \in S
  BY <1>1, <1>2, <1>3
<1>6. ASSUME NEW k \in Nat, k \in S PROVE k + 1 \in S
  <2> SUFFICES ASSUME k + 1 <= n PROVE u[k + 1] * P <= whole * t[k + 1]
    OBVIOUS
  <2> DEFINE a == u[k]
             b == t[k]
             c == share[k + 1]
             d == part[k + 1]
  <2>1. a \in Nat /\ b \in Nat /\ c \in Nat /\ d \in Nat
    OBVIOUS
  <2>2. a * P <= whole * b /\ c * P <= whole * d
    BY <1>4, <1>6
  <2>3. k + 1 \in 1 .. n /\ (k + 1) - 1 = k
    BY <1>6
  <2>4. u[k + 1] = a + c /\ t[k + 1] = b + d
    BY <1>1, <1>2, <2>3
  <2> HIDE DEF a, b, c, d
  <2>5. (a + c) * P = a * P + c * P /\ whole * (b + d) = whole * b + whole * d
    BY <1>3, <2>1
  <2> QED
    BY <1>3, <2>1, <2>2, <2>4, <2>5
<1>7. \A k \in Nat : k \in S
  <2>1. S \in SUBSET Nat
    OBVIOUS
  <2> HIDE DEF S
  <2> QED
    BY <1>5, <1>6, <2>1, Induction
<1>8. u[n] * P <= whole * t[n]
  BY <1>7
<1>9. SumOf(share) \in Nat /\ SumOf(share) * P <= whole * P
  BY <1>1, <1>2, <1>8
<1> QED
  BY <1>3, <1>9

(***************************************************************************)
(* Least and greatest                                                      *)
(***************************************************************************)

\* The least of two numbers, as a comparison.
LEMMA MinOfTwo ==
  ASSUME NEW a \in Int, NEW b \in Int
  PROVE  Min({a, b}) = IF a <= b THEN a ELSE b
BY DEF Min

\* The greatest of two numbers, as a comparison.
LEMMA MaxOfTwo ==
  ASSUME NEW a \in Int, NEW b \in Int
  PROVE  Max({a, b}) = IF a <= b THEN b ELSE a
BY DEF Max

\* Clamped, as comparisons.
LEMMA ClampedIs ==
  ASSUME NEW v \in Int, NEW low \in Int, NEW high \in Int, low <= high
  PROVE  Clamped(v, low, high) = IF v <= low THEN low ELSE IF v <= high THEN v ELSE high
BY MinOfTwo, MaxOfTwo DEF Clamped

\* The highest of some levels is one of them.
LEMMA HighestIs ==
  ASSUME NEW n \in Nat, NEW seq \in [1 .. n -> Nat]
  PROVE  HighestOf(seq) \in Nat
<1> DEFINE S == {k \in Nat : k \in 1 .. n => \E i \in 1 .. k : \A j \in 1 .. k : seq[j] <= seq[i]}
<1>1. 0 \in S
  OBVIOUS
<1>2. ASSUME NEW k \in Nat, k \in S PROVE k + 1 \in S
  <2> SUFFICES ASSUME k + 1 <= n
               PROVE  \E i \in 1 .. k + 1 : \A j \in 1 .. k + 1 : seq[j] <= seq[i]
    OBVIOUS
  <2>1. CASE k = 0
    BY <2>1
  <2>2. CASE k # 0
    <3>1. PICK i \in 1 .. k : \A j \in 1 .. k : seq[j] <= seq[i]
      BY <1>2, <2>2
    <3>2. seq[i] \in Nat /\ seq[k + 1] \in Nat /\ \A j \in 1 .. k : seq[j] \in Nat
      OBVIOUS
    <3>3. \A j \in 1 .. k + 1 : j \in 1 .. k \/ j = k + 1
      OBVIOUS
    <3>4. CASE seq[k + 1] <= seq[i]
      <4>1. \A j \in 1 .. k + 1 : seq[j] <= seq[i]
        BY <3>1, <3>3, <3>4
      <4> QED
        BY <4>1
    <3>5. CASE seq[i] < seq[k + 1]
      <4>1. \A j \in 1 .. k + 1 : seq[j] <= seq[k + 1]
        BY <3>1, <3>2, <3>3, <3>5
      <4> QED
        BY <4>1
    <3> QED
      BY <3>2, <3>4, <3>5
  <2> QED
    BY <2>1, <2>2
<1>3. \A k \in Nat : k \in S
  <2>1. S \in SUBSET Nat
    OBVIOUS
  <2> HIDE DEF S
  <2> QED
    BY <1>1, <1>2, <2>1, Induction
<1>4. CASE n = 0
  <2>1. seq = <<>>
    BY <1>4
  <2> QED
    BY <2>1 DEF HighestOf
<1>5. CASE n # 0
  <2> DEFINE levels == {seq[i] : i \in DOMAIN seq}
  <2>0. n \in 1 .. n
    BY <1>5
  <2>1. PICK i \in 1 .. n : \A j \in 1 .. n : seq[j] <= seq[i]
    BY <1>3, <2>0
  <2>2. seq[i] \in levels /\ \A y \in levels : seq[i] >= y
    BY <2>1
  <2>3. Max(levels) \in levels
    BY <2>2 DEF Max
  <2>4. levels \subseteq Nat
    OBVIOUS
  <2>5. seq # <<>>
    BY <1>5
  <2> QED
    BY <2>3, <2>4, <2>5 DEF HighestOf
<1> QED
  BY <1>4, <1>5

(***************************************************************************)
(* Rolls, removals, tackles                                                *)
(***************************************************************************)

\* A truncated quotient, placed between the two multiples of its divisor.
LEMMA Quotient ==
  ASSUME NEW a \in Nat, NEW b \in Nat \ {0}
  PROVE  a \div b \in Nat /\ b * (a \div b) <= a /\ a < b * (a \div b) + b
OBVIOUS

\* A quotient grows with what is divided.
LEMMA QuotientGrows ==
  ASSUME NEW a \in Nat, NEW c \in Nat, NEW b \in Nat \ {0}, a <= c
  PROVE  a \div b <= c \div b
OBVIOUS

\* A product is monotonic in its first factor.
LEMMA TimesGrows ==
  ASSUME NEW a \in Nat, NEW b \in Nat, NEW c \in Nat, a <= b
  PROVE  a * c <= b * c
OBVIOUS

\* roll_in_range stays in the range and reaches its ends.
LEMMA RollFits ==
  ASSUME NEW low \in Nat, NEW high \in Nat, low <= high,
         NEW roll \in Nat, roll < CRIT_SCALE
  PROVE  LET hit == roll_in_range(low, high, roll)
         IN /\ low <= hit /\ hit <= high
            /\ roll = 0 => hit = low
            /\ roll = CRIT_SCALE - 1 /\ high - low < CRIT_SCALE => hit = high
<1> DEFINE span == high - low + 1
           scaled == roll * span
           part == scaled \div 10000
<1>1. span \in Nat /\ span >= 1
  OBVIOUS
<1>2. roll_in_range(low, high, roll) = IF high <= low THEN low ELSE low + part
  BY DEF roll_in_range, CRIT_SCALE
<1>3. high = low + span - 1
  OBVIOUS
<1> HIDE DEF span
<1>4. scaled \in Nat /\ scaled <= 9999 * span
  BY <1>1, TimesGrows DEF CRIT_SCALE
<1>5. (roll = 0 => scaled = 0) /\ (roll = 9999 => scaled = 9999 * span)
  BY <1>1
<1> HIDE DEF scaled
<1>6. part \in Nat /\ 10000 * part <= scaled /\ scaled < 10000 * part + 10000
  BY <1>4
<1> HIDE DEF part
<1>7. part < span
  BY <1>1, <1>4, <1>6
<1>8. roll = 0 => part = 0
  BY <1>5, <1>6
<1>9. roll = CRIT_SCALE - 1 /\ span <= CRIT_SCALE => part >= span - 1
  BY <1>1, <1>5, <1>6 DEF CRIT_SCALE
<1>10. CRIT_SCALE \in Nat
  BY DEF CRIT_SCALE
<1> QED
  BY <1>1, <1>2, <1>3, <1>6, <1>7, <1>8, <1>9, <1>10

\* A departure that fails loses no more than the pool, and nothing only when there
\* is nothing to lose or no locker had a chance.
LEMMA LossFits ==
  ASSUME NEW pool \in Nat, NEW num \in Nat, NEW den \in Nat \ {0}, num <= den
  PROVE  LET loss == tackle_loss(pool, [numerator |-> num, denominator |-> den])
         IN /\ loss <= pool
            /\ loss = 0 <=> pool = 0 \/ num = den
<1> DEFINE lost == den - num
           toll == pool * lost
           loss == (toll + den - 1) \div den
<1>1. lost \in Nat /\ lost <= den /\ (lost = 0 <=> num = den)
  OBVIOUS
<1>2. toll \in Nat /\ toll <= pool * den /\ pool * den \in Nat
  BY <1>1
<1>3. toll = 0 <=> pool = 0 \/ lost = 0
  BY <1>1
<1> HIDE DEF lost, toll
<1>4. loss \in Nat /\ den * loss <= toll + den - 1 /\ toll + den - 1 < den * loss + den
  BY <1>2
<1>5. den * loss < pool * den + den
  BY <1>2, <1>4
<1>6. den * loss < den * (pool + 1)
  BY <1>5
<1>7. loss <= pool
  BY <1>4, <1>6
<1>8. loss = 0 <=> toll = 0
  BY <1>2, <1>4
<1>9. tackle_loss(pool, [numerator |-> num, denominator |-> den]) = loss
  BY DEF tackle_loss, toll, lost
<1> HIDE DEF loss
<1> QED
  BY <1>1, <1>3, <1>7, <1>8, <1>9

\* The runner's bucket is held against at most the whole of each locker's.
LEMMA ContestIsAChance ==
  ASSUME NEW n \in Nat, NEW lockers \in [1 .. n -> Nat], NEW runner \in Nat
  PROVE  /\ tackle_contest(runner, lockers).numerator \in Nat
         /\ tackle_contest(runner, lockers).denominator \in Nat \ {0}
         /\ tackle_contest(runner, lockers).numerator
              <= tackle_contest(runner, lockers).denominator
         /\ tackle_contest(runner, lockers) =
              [numerator |-> tackle_contest(runner, lockers).numerator,
               denominator |-> tackle_contest(runner, lockers).denominator]
<1> DEFINE dodge == tackle_bucket(runner)
           row(a) == 2 * tackle_bucket(a)
           low == [i \in 1 .. n |-> Min({dodge, row(lockers[i])})]
           high == [i \in 1 .. n |-> row(lockers[i])]
<1>1. dodge \in Nat /\ \A i \in 1 .. n : row(lockers[i]) \in Nat /\ row(lockers[i]) >= 1
  BY DEF tackle_bucket
<1>2. ASSUME NEW i \in 1 .. n
      PROVE  low[i] = IF dodge <= high[i] THEN dodge ELSE high[i]
  <2> DEFINE a == row(lockers[i])
  <2>1. dodge \in Int /\ a \in Int
    BY <1>1
  <2>2. low[i] = Min({dodge, a}) /\ high[i] = a
    OBVIOUS
  <2> HIDE DEF a, low, high, dodge
  <2> QED
    BY <2>1, <2>2, MinOfTwo
<1>3. high \in [1 .. n -> Nat] /\ \A i \in 1 .. n : high[i] >= 1
  BY <1>1
<1>4. \A i \in 1 .. n : low[i] \in Nat /\ low[i] <= high[i]
  <2>1. dodge \in Nat
    BY <1>1
  <2> HIDE DEF low, high, dodge
  <2> QED
    BY <1>2, <1>3, <2>1
<1>5. low \in [1 .. n -> Nat]
  BY <1>4
<1>6. tackle_contest(runner, lockers) =
        [numerator |-> ProductOf(low), denominator |-> ProductOf(high)]
  BY DEF tackle_contest
<1> HIDE DEF low, high
<1>7. /\ ProductOf(low) \in Nat /\ ProductOf(high) \in Nat
      /\ ProductOf(low) <= ProductOf(high) /\ ProductOf(high) >= 1
  BY <1>3, <1>4, <1>5, ProductsCompare
<1> QED
  BY <1>6, <1>7

\* Points are taken one at a time, never past the row nor past what is left.
LEMMA RemovalFits ==
  ASSUME NEW value \in Nat, NEW current \in Nat, NEW rolls, NEW caster, NEW target,
         NEW maximum
  PROVE  LET gone == remove_points(rolls, value, caster, target, current, maximum)
         IN gone \in Nat /\ gone <= value /\ gone <= current
<1> DEFINE chance(k) == point_removal_chance(caster, target, current - k, maximum)
           next(n, k) == IF k = n - 1 /\ k < current /\ rolls[n] < chance(k)
                         THEN k + 1 ELSE k
           step == [n \in Nat |-> [k \in Nat |-> next(n, k)]]
           Is(f) == f = [n \in 0 .. value |-> IF n = 0 THEN 0 ELSE next(n, f[n - 1])]
           taken == CHOOSE f : Is(f)
<1>1. \A n \in Nat, k \in Nat : next(n, k) \in Nat
  OBVIOUS
<1>2. \A n \in Nat, k \in Nat : k <= n - 1 /\ k <= current =>
        next(n, k) <= n /\ next(n, k) <= current
  OBVIOUS
<1>3. remove_points(rolls, value, caster, target, current, maximum)
        = IF maximum = 0 THEN 0 ELSE taken[value]
  BY DEF remove_points
<1> HIDE DEF next
<1>4. step \in [Nat -> [Nat -> Nat]] /\ \A n \in Nat, k \in Nat : step[n][k] = next(n, k)
  BY <1>1
<1> HIDE DEF step
<1>5. PICK f : Unfolds(f, Nat, 0, step, value)
  BY <1>4, 0 \in Nat, Recursion
<1>6. Is(f)
  <2>1. ASSUME NEW n \in 1 .. value PROVE f[n] = next(n, f[n - 1])
    <3>1. n \in Nat /\ f[n - 1] \in Nat
      BY <1>5 DEF Unfolds
    <3>2. f[n] = step[n][f[n - 1]]
      BY <1>5 DEF Unfolds
    <3>3. step[n][f[n - 1]] = next(n, f[n - 1])
      BY <1>4, <3>1
    <3> QED
      BY <3>2, <3>3
  <2> QED
    BY <1>5, <2>1 DEF Unfolds
<1>7. Is(taken)
  <2> HIDE DEF Is
  <2> QED
    BY <1>6
<1> HIDE DEF taken
<1>8. taken[0] = 0 /\ \A n \in 1 .. value : taken[n] = next(n, taken[n - 1])
  BY <1>7
<1> DEFINE S == {n \in Nat : n <= value =>
                   taken[n] \in Nat /\ taken[n] <= n /\ taken[n] <= current}
<1>9. 0 \in S
  BY <1>8
<1>10. ASSUME NEW n \in Nat, n \in S PROVE n + 1 \in S
  <2> SUFFICES ASSUME n + 1 <= value
               PROVE  /\ taken[n + 1] \in Nat
                      /\ taken[n + 1] <= n + 1 /\ taken[n + 1] <= current
    OBVIOUS
  <2>1. taken[n + 1] = next(n + 1, taken[n])
    BY <1>8
  <2>2. /\ n + 1 \in Nat /\ taken[n] \in Nat
        /\ taken[n] <= (n + 1) - 1 /\ taken[n] <= current
    BY <1>10
  <2>3. next(n + 1, taken[n]) \in Nat
    BY <1>1, <2>2
  <2>4. next(n + 1, taken[n]) <= n + 1 /\ next(n + 1, taken[n]) <= current
    BY <1>2, <2>2
  <2> QED
    BY <2>1, <2>3, <2>4
<1>11. \A n \in Nat : n \in S
  <2>1. S \in SUBSET Nat
    OBVIOUS
  <2> HIDE DEF S
  <2> QED
    BY <1>9, <1>10, <2>1, Induction
<1> QED
  BY <1>3, <1>11

(***************************************************************************)
(* Awards                                                                  *)
(***************************************************************************)

\* What a group earns is a natural number: nothing is divided by zero.
LEMMA GroupXpIsNat ==
  ASSUME NEW base \in Nat, NEW players_level \in Nat, NEW mobs_level \in Nat,
         NEW highest_mob \in Nat, NEW eligible \in Nat
  PROVE  GroupXp(base, players_level, mobs_level, highest_mob, eligible) \in Nat
<1> DEFINE rate == retro_group_coefficient_tenths(eligible)
           shared == (base * rate) \div 10
           tooHard == IF mobs_level > players_level + 10
                      THEN (shared * (players_level + 10)) \div mobs_level ELSE shared
           tooEasy == IF players_level > mobs_level + 5
                      THEN (tooHard * mobs_level) \div players_level ELSE tooHard
           group == IF players_level * 2 > highest_mob * 5
                    THEN (tooEasy * (highest_mob * 5)) \div (players_level * 2) ELSE tooEasy
<1>1. rate \in Nat
  <2>1. Len(RetroGroupTenths) = 6
    BY DEF RetroGroupTenths
  <2>2. Min({eligible, 6}) = IF eligible <= 6 THEN eligible ELSE 6
    BY MinOfTwo
  <2>3. eligible # 0 => Min({eligible, 6}) \in 1 .. 6
    BY <2>2
  <2>4. \A i \in 1 .. 6 : RetroGroupTenths[i] \in Nat
    BY DEF RetroGroupTenths
  <2> QED
    BY <2>1, <2>3, <2>4 DEF retro_group_coefficient_tenths
<1>2. GroupXp(base, players_level, mobs_level, highest_mob, eligible) = group
  BY DEF GroupXp
<1> HIDE DEF rate
<1>3. shared \in Nat
  <2>1. base * rate \in Nat
    BY <1>1
  <2> QED
    BY <2>1
<1> HIDE DEF shared
<1>4. tooHard \in Nat
  <2>1. shared * (players_level + 10) \in Nat
    BY <1>3
  <2>2. mobs_level > players_level + 10 => mobs_level \in Nat \ {0}
    OBVIOUS
  <2> QED
    BY <1>3, <2>1, <2>2, Quotient
<1> HIDE DEF tooHard
<1>5. tooEasy \in Nat
  <2>1. tooHard * mobs_level \in Nat
    BY <1>4
  <2>2. players_level > mobs_level + 5 => players_level \in Nat \ {0}
    OBVIOUS
  <2> QED
    BY <1>4, <2>1, <2>2, Quotient
<1> HIDE DEF tooEasy
<1>6. group \in Nat
  <2>1. tooEasy * (highest_mob * 5) \in Nat
    BY <1>5
  <2>2. players_level * 2 > highest_mob * 5 => players_level * 2 \in Nat \ {0}
    OBVIOUS
  <2> QED
    BY <1>5, <2>1, <2>2, Quotient
<1> QED
  BY <1>2, <1>6

\* The number of winners whose level counts.
EligibleOf(players) == Cardinality({i \in DOMAIN players :
                                      players[i] * 3 >= HighestOf(players)})

\* How many members are eligible is a number.
LEMMA EligibleIsNat ==
  ASSUME NEW n \in Nat, NEW players \in [1 .. n -> Nat]
  PROVE  EligibleOf(players) \in Nat
<1> DEFINE counted == {i \in DOMAIN players : players[i] * 3 >= HighestOf(players)}
<1>1. IsFiniteSet(1 .. n)
  BY FS_Interval
<1>2. counted \subseteq 1 .. n
  OBVIOUS
<1>3. IsFiniteSet(counted)
  BY <1>1, <1>2, FS_Subset
<1>4. Cardinality(counted) \in Nat
  BY <1>3, FS_CardinalityType
<1> QED
  BY <1>4 DEF EligibleOf

\* The awards of the members add up to no more than what the group earned.
LEMMA AwardsFit ==
  ASSUME NEW n \in Nat, NEW players \in [1 .. n -> Nat],
         NEW m \in Nat, NEW mobs \in [1 .. m -> Nat], NEW base \in Nat
  PROVE  LET share(i) == xp_award_of(base, 0, players[i], players, mobs)
             group == GroupXp(base, SumOf(players), SumOf(mobs), HighestOf(mobs),
                              EligibleOf(players))
         IN SumOf([i \in DOMAIN players |-> share(i)]) <= group
<1> DEFINE P == SumOf(players)
           M == SumOf(mobs)
           H == HighestOf(mobs)
           E == EligibleOf(players)
           group == GroupXp(base, P, M, H, E)
           share == [i \in 1 .. n |-> xp_award_of(base, 0, players[i], players, mobs)]
<1>1. P \in Nat /\ M \in Nat
  BY SumIsNat
<1>2. H \in Nat /\ E \in Nat
  BY HighestIs, EligibleIsNat
<1>3. group \in Nat
  BY <1>1, <1>2, GroupXpIsNat
<1>4. \A i \in 1 .. n : share[i] = xp_for_player(base, 0, players[i], P, M, H, E)
  BY DEF xp_award_of, EligibleOf
<1>5. [i \in DOMAIN players |-> xp_award_of(base, 0, players[i], players, mobs)] = share
  OBVIOUS
<1> HIDE DEF P, M, H, E, share
<1>6. ASSUME NEW i \in 1 .. n
      PROVE  share[i] \in Nat /\ (P > 0 => share[i] * P <= group * players[i])
                              /\ (P = 0 => share[i] = 0)
  <2>1. players[i] \in Nat
    OBVIOUS
  <2>2. CASE 0 \in {base, players[i], P, M, H, E}
    <3>1. share[i] = 0
      BY <1>4, <2>2 DEF xp_for_player
    <3> QED
      BY <1>1, <1>3, <2>1, <3>1
  <2>3. CASE 0 \notin {base, players[i], P, M, H, E}
    <3> DEFINE earned == group * players[i]
               quota == earned \div P
    <3>1. share[i] = (quota * (100 + 0)) \div 100
      BY <1>4, <2>3 DEF xp_for_player
    <3>2. earned \in Nat /\ P \in Nat \ {0}
      BY <1>1, <1>3, <2>1, <2>3
    <3> HIDE DEF earned
    <3>3. quota \in Nat /\ P * quota <= earned
      BY <3>2, Quotient
    <3> HIDE DEF quota
    <3>4. share[i] = quota
      BY <3>1, <3>3
    <3>5. quota * P = P * quota
      BY <3>2, <3>3
    <3> QED
      BY <3>2, <3>3, <3>4, <3>5 DEF earned
  <2> QED
    BY <2>2, <2>3
<1>7. share \in [1 .. n -> Nat]
  BY <1>6 DEF share
<1> HIDE DEF group
<1>8. CASE P > 0
  <2>1. SumOf(players) > 0
    BY <1>8 DEF P
  <2>2. \A i \in 1 .. n : share[i] * SumOf(players) <= group * players[i]
    BY <1>6, <1>8 DEF P
  <2>3. SumOf(share) <= group
    BY <1>3, <1>7, <2>1, <2>2, SharesFit
  <2> QED
    BY <1>5, <2>3 DEF group, P, M, H, E
<1>9. CASE P = 0
  <2>1. SumOf(share) = 0
    <3>1. PICK total \in [0 .. n -> Nat] :
                 /\ SumOf(share) = total[n] /\ total[0] = 0
                 /\ \A k \in 1 .. n : total[k] = total[k - 1] + share[k]
      BY <1>7, SumIsTotal
    <3> DEFINE S == {k \in Nat : k <= n => total[k] = 0}
    <3>2. 0 \in S
      BY <3>1
    <3>3. ASSUME NEW k \in Nat, k \in S PROVE k + 1 \in S
      <4> SUFFICES ASSUME k + 1 <= n PROVE total[k + 1] = 0
        OBVIOUS
      <4>1. k + 1 \in 1 .. n /\ (k + 1) - 1 = k /\ total[k] = 0
        BY <3>3
      <4>2. share[k + 1] = 0
        BY <1>6, <1>9, <4>1
      <4> QED
        BY <3>1, <4>1, <4>2
    <3>4. \A k \in Nat : k \in S
      <4>1. S \in SUBSET Nat
        OBVIOUS
      <4> HIDE DEF S
      <4> QED
        BY <3>2, <3>3, <4>1, Induction
    <3> QED
      BY <3>1, <3>4
  <2> QED
    BY <1>3, <1>5, <2>1 DEF group, P, M, H, E
<1> QED
  BY <1>1, <1>8, <1>9

(***************************************************************************)
(* Levels                                                                  *)
(***************************************************************************)

\* A level stored as a percentage of its range comes back: exactly up to a hundred
\* levels, else less than a hundredth of the range too high.
LEMMA LevelReturns ==
  ASSUME NEW low \in Nat, NEW high \in Nat, low <= high, NEW wanted \in Nat
  PROVE  LET level == mob_level(low, high, mob_scalar_for_level(low, high, wanted))
             meant == Clamped(wanted, low, high)
         IN /\ level \in Nat /\ low <= meant /\ meant <= high /\ meant <= level
            /\ high - low <= 100 => level = meant
            /\ level # meant => 100 * (level - meant) < high - low
<1> DEFINE meant == Clamped(wanted, low, high)
           range == high - low
           above == meant - low
           up == above * 100 + range - 1
           scalar == IF range = 0 THEN 0 ELSE up \div range
           span == range * scalar
           part == span \div 100
<1>1. meant \in Nat /\ low <= meant /\ meant <= high
  BY ClampedIs
<1>2. mob_level(low, high, mob_scalar_for_level(low, high, wanted)) = low + part
  BY DEF mob_level, mob_scalar_for_level
<1> HIDE DEF meant
<1>3. range \in Nat /\ above \in Nat /\ above <= range /\ meant = low + above
  BY <1>1
<1> HIDE DEF above
<1>4. CASE range = 0
  <2>1. part = 0
    BY <1>4
  <2> QED
    BY <1>1, <1>2, <1>3, <1>4, <2>1 DEF meant
<1>5. CASE range # 0
  <2>1. range \in Nat \ {0} /\ up \in Nat /\ scalar = up \div range
    BY <1>3, <1>5
  <2> HIDE DEF range, up
  <2>2. scalar \in Nat /\ span <= up /\ up < span + range
    BY <2>1, Quotient
  <2> HIDE DEF scalar
  <2>3. span \in Nat
    BY <2>1, <2>2
  <2> HIDE DEF span
  <2>4. part \in Nat /\ 100 * part <= span /\ span < 100 * part + 100
    BY <2>3
  <2> HIDE DEF part
  <2>5. 100 * above <= span /\ span < 100 * above + range
    BY <1>3, <2>1, <2>2, <2>3 DEF up
  <2>6. above <= part /\ 100 * (part - above) < range
    BY <1>3, <2>1, <2>3, <2>4, <2>5
  <2>7. range <= 100 => part = above
    BY <1>3, <2>1, <2>4, <2>6
  <2>8. (low + part) - meant = part - above
    BY <1>1, <1>3, <2>4
  <2>9. /\ low + part \in Nat /\ meant <= low + part
        /\ range <= 100 => low + part = meant
        /\ low + part # meant => 100 * ((low + part) - meant) < range
    BY <1>1, <1>3, <2>4, <2>6, <2>7, <2>8
  <2> QED
    BY <1>1, <1>2, <2>9 DEF meant, range
<1> QED
  BY <1>4, <1>5

\* What is scaled with the level does not fall when the level rises.
LEMMA ScaledRises ==
  ASSUME NEW low \in Nat, NEW high \in Nat, NEW level \in Nat, NEW base \in Nat,
         low <= level, level < high
  PROVE  /\ mob_effect_value_scaled(base, low, high, level)
              <= mob_effect_value_scaled(base, low, high, level + 1)
         /\ mob_pool_scaled(base, low, high, level)
              <= mob_pool_scaled(base, low, high, level + 1)
<1> DEFINE range == high - low
           step == level - low
           ten == 10 * range
           half == ten \div 2
           band(k) == (base * (6 * range + 10 * k)) \div ten
           pool(k) == (base * (ten + 3 * k) + half) \div ten
<1>1. range \in Nat \ {0} /\ step \in Nat /\ ten \in Nat \ {0} /\ half \in Nat
  OBVIOUS
<1>2. /\ mob_band_scaled(base, low, high, level) = band(step)
      /\ mob_band_scaled(base, low, high, level + 1) = band(step + 1)
  <2>1. (level + 1) - low = step + 1 /\ high # low
    OBVIOUS
  <2> QED
    BY <2>1 DEF mob_band_scaled
<1>3. /\ mob_pool_scaled(base, low, high, level) = pool(step)
      /\ mob_pool_scaled(base, low, high, level + 1) = pool(step + 1)
  <2>1. (level + 1) - low = step + 1 /\ high # low
    OBVIOUS
  <2> QED
    BY <2>1 DEF mob_pool_scaled
<1> HIDE DEF range, step, ten, half
<1>4. band(step) \in Nat /\ band(step + 1) \in Nat /\ band(step) <= band(step + 1)
  <2> DEFINE a == base * (6 * range + 10 * step)
             c == base * (6 * range + 10 * (step + 1))
  <2>1. a \in Nat /\ c \in Nat
    BY <1>1
  <2>2. c = a + base * 10
    BY <1>1
  <2>3. band(step) = a \div ten /\ band(step + 1) = c \div ten
    OBVIOUS
  <2> HIDE DEF a, c, band
  <2>4. a <= c
    BY <2>1, <2>2
  <2> QED
    BY <1>1, <2>1, <2>3, <2>4, Quotient, QuotientGrows
<1>5. pool(step) <= pool(step + 1)
  <2> DEFINE a == base * (ten + 3 * step) + half
             c == base * (ten + 3 * (step + 1)) + half
  <2>1. a \in Nat /\ c \in Nat
    BY <1>1
  <2>2. c = a + base * 3
    BY <1>1
  <2>3. pool(step) = a \div ten /\ pool(step + 1) = c \div ten
    OBVIOUS
  <2> HIDE DEF a, c, pool
  <2>4. a <= c
    BY <2>1, <2>2
  <2> QED
    BY <1>1, <2>1, <2>3, <2>4, QuotientGrows
<1> HIDE DEF band, pool
<1>6. mob_effect_value_scaled(base, low, high, level)
        <= mob_effect_value_scaled(base, low, high, level + 1)
  BY <1>2, <1>4 DEF mob_effect_value_scaled
<1> QED
  BY <1>3, <1>5, <1>6

(***************************************************************************)
(* The questions of a run                                                  *)
(***************************************************************************)

\* A question lies within the bounds it was asked with.
WellAsked ==
    /\ asked.kind = "path" =>
         /\ asked.from \in Cells /\ asked.to \in Cells /\ asked.from # asked.to
         /\ asked.walls \in SUBSET Cells /\ asked.from \notin asked.walls
         /\ asked.budget \in 1 .. MaxBudget
    /\ asked.kind = "area" =>
         /\ asked.anchor \in Cells /\ asked.caster \in Cells
         /\ asked.shape \in Shapes /\ asked.size \in 0 .. MaxSize
    /\ asked.kind = "sight" =>
         asked.from \in Cells /\ asked.to \in Cells /\ asked.body \in Cells
    /\ asked.kind = "roll" =>
         /\ {asked.low, asked.high} \subseteq 0 .. MaxLevel /\ asked.low <= asked.high
         /\ asked.roll \in Rolls
    /\ asked.kind = "removal" =>
         /\ asked.value \in 1 .. MaxPool /\ asked.current \in 0 .. MaxPool
    /\ asked.kind = "tackle" =>
         /\ asked.pool \in 0 .. MaxPool /\ asked.runner \in Agilities
         /\ asked.lockers \in Lockers
    /\ asked.kind = "award" =>
         asked.players \in Parties /\ asked.mobs \in Parties /\ asked.base \in Bases
    /\ asked.kind = "level" =>
         /\ {asked.low, asked.high} \subseteq 1 .. MaxLevel /\ asked.low <= asked.high
         /\ asked.wanted \in 0 .. MaxLevel + 1 /\ asked.base \in Bases

\* Every Ask action picks its question from the bounded inputs.
LEMMA QuestionsStayWellAsked ==
  ASSUME WellAsked, [CalcNext]_asked
  PROVE  WellAsked'
<1>1. CASE asked' = asked
  BY <1>1 DEF WellAsked
<1>2. CASE AskPath
  BY <1>2 DEF AskPath, WellAsked, WallSets, kSubset
<1>3. CASE AskArea
  BY <1>3 DEF AskArea, WellAsked
<1>4. CASE AskSight
  BY <1>4 DEF AskSight, WellAsked
<1>5. CASE AskRoll
  BY <1>5 DEF AskRoll, WellAsked
<1>6. CASE AskRemoval
  BY <1>6 DEF AskRemoval, WellAsked
<1>7. CASE AskTackle
  BY <1>7 DEF AskTackle, WellAsked
<1>8. CASE AskAward
  BY <1>8 DEF AskAward, WellAsked
<1>9. CASE AskLevel
  BY <1>9 DEF AskLevel, WellAsked
<1> QED
  BY <1>1, <1>2, <1>3, <1>4, <1>5, <1>6, <1>7, <1>8, <1>9 DEF CalcNext

\* So each question of a run is well asked, and the rest is about the rules.
LEMMA EverWellAsked == CalcSpec => []WellAsked
<1>1. CalcInit => WellAsked
  BY DEF CalcInit, WellAsked
<1> QED
  BY <1>1, QuestionsStayWellAsked, PTL DEF CalcSpec

\* The assumption on the constants, as the facts that the proofs cite.
LEMMA Bounds ==
    /\ MaxBudget \in Nat /\ MaxSize \in Nat /\ MaxBudget < NumCells
    /\ MaxLevel \in Nat /\ MaxPool \in Nat /\ MaxParty \in Nat /\ MaxLockers \in Nat
    /\ \A b \in Bases : b \in Nat
    /\ \A a \in Agilities : a \in Nat
    /\ \A r \in Rolls : r \in Nat /\ r < CRIT_SCALE
<1>1. {MaxWalls, MaxBudget, MaxSize, MaxLevel, MaxPool, MaxParty, MaxLockers} \subseteq Nat
  BY CalcAssumption, Zenon
<1>2. ASSUME NEW r \in Rolls PROVE r \in Nat /\ r < CRIT_SCALE
  <2>1. Rolls \subseteq 0 .. CRIT_SCALE - 1
    BY CalcAssumption, Zenon
  <2>2. r \in 0 .. CRIT_SCALE - 1
    BY <2>1, Zenon
  <2>3. CRIT_SCALE \in Nat
    BY DEF CRIT_SCALE
  <2> QED
    BY <2>2, <2>3
<1>3. Bases \subseteq Nat
  BY CalcAssumption, Zenon
<1>4. Agilities \subseteq Nat
  BY CalcAssumption, Zenon
<1>5. MaxBudget < NumCells
  BY CalcAssumption, Zenon
<1> QED
  BY <1>1, <1>2, <1>3, <1>4, <1>5

\* Each calculation of fight_math.ts fits what it was asked about.
LEMMA DivisionsFitWhatIsAsked ==
  ASSUME WellAsked
  PROVE  DivisionsFit
<1>1. RollsFitRange
  <2> SUFFICES ASSUME asked.kind = "roll" PROVE RollsFitRange
    BY DEF RollsFitRange
  <2>1. /\ asked.low \in Nat /\ asked.high \in Nat /\ asked.low <= asked.high
        /\ asked.roll \in Nat /\ asked.roll < CRIT_SCALE
    BY Bounds DEF WellAsked
  <2> DEFINE hit == roll_in_range(asked.low, asked.high, asked.roll)
  <2>2. /\ asked.low <= hit /\ hit <= asked.high
        /\ asked.roll = 0 => hit = asked.low
        /\ asked.roll = CRIT_SCALE - 1 /\ asked.high - asked.low < CRIT_SCALE => hit = asked.high
    BY <2>1, RollFits
  <2> QED
    BY <2>2 DEF RollsFitRange
<1>2. RemovalFitsPool
  <2> SUFFICES ASSUME asked.kind = "removal" PROVE RemovalFitsPool
    BY DEF RemovalFitsPool
  <2> DEFINE gone == remove_points(asked.rolls, asked.value, asked.caster, asked.target,
                                   asked.current, MaxPool)
  <2>1. asked.value \in Nat /\ asked.current \in Nat
    BY Bounds DEF WellAsked
  <2>2. gone \in Nat /\ gone <= asked.value /\ gone <= asked.current
    BY <2>1, RemovalFits
  <2> HIDE DEF gone
  <2>3. gone <= Min({asked.value, asked.current})
    BY <2>1, <2>2, MinOfTwo
  <2> QED
    BY <2>3 DEF RemovalFitsPool, gone
<1>3. TackleCostsWithinPool
  <2> SUFFICES ASSUME asked.kind = "tackle" PROVE TackleCostsWithinPool
    BY DEF TackleCostsWithinPool
  <2>1. asked.pool \in Nat /\ asked.runner \in Nat
    BY Bounds DEF WellAsked
  <2>2. PICK n \in 1 .. MaxLockers : asked.lockers \in [1 .. n -> Agilities]
    BY Bounds DEF WellAsked, Lockers
  <2>3. n \in Nat /\ asked.lockers \in [1 .. n -> Nat]
    BY <2>2, Bounds
  <2> DEFINE contest == tackle_contest(asked.runner, asked.lockers)
  <2>4. /\ contest.numerator \in Nat /\ contest.denominator \in Nat \ {0}
        /\ contest.numerator <= contest.denominator
        /\ contest = [numerator |-> contest.numerator, denominator |-> contest.denominator]
    BY <2>1, <2>3, ContestIsAChance
  <2> HIDE DEF contest
  <2>5. /\ tackle_loss(asked.pool, contest) <= asked.pool
        /\ tackle_loss(asked.pool, contest) = 0
             <=> asked.pool = 0 \/ contest.numerator = contest.denominator
    BY <2>1, <2>4, LossFits
  <2> QED
    BY <2>5 DEF TackleCostsWithinPool, contest
<1>4. AwardsFitGroup
  <2> SUFFICES ASSUME asked.kind = "award" PROVE AwardsFitGroup
    BY DEF AwardsFitGroup
  <2>1. asked.base \in Nat /\ asked.players \in Parties /\ asked.mobs \in Parties
    BY Bounds DEF WellAsked
  <2>2. PICK n \in 1 .. MaxParty : asked.players \in [1 .. n -> 1 .. MaxLevel]
    BY <2>1 DEF Parties
  <2>3. PICK m \in 1 .. MaxParty : asked.mobs \in [1 .. m -> 1 .. MaxLevel]
    BY <2>1 DEF Parties
  <2>4. /\ n \in Nat /\ asked.players \in [1 .. n -> Nat]
        /\ m \in Nat /\ asked.mobs \in [1 .. m -> Nat]
    BY <2>2, <2>3, Bounds
  <2> QED
    BY <2>1, <2>4, AwardsFit DEF AwardsFitGroup, EligibleOf
<1>5. LevelsRoundTrip
  <2> SUFFICES ASSUME asked.kind = "level" PROVE LevelsRoundTrip
    BY DEF LevelsRoundTrip
  <2>1. /\ asked.low \in Nat /\ asked.high \in Nat /\ asked.low <= asked.high
        /\ asked.wanted \in Nat /\ asked.base \in Nat
    BY Bounds DEF WellAsked
  <2> DEFINE level == mob_level(asked.low, asked.high,
                                mob_scalar_for_level(asked.low, asked.high, asked.wanted))
             meant == Clamped(asked.wanted, asked.low, asked.high)
  <2>2. /\ level \in Nat /\ asked.low <= meant /\ meant <= asked.high /\ meant <= level
        /\ asked.high - asked.low <= 100 => level = meant
        /\ level # meant => 100 * (level - meant) < asked.high - asked.low
    BY <2>1, LevelReturns
  <2>3. meant \in Nat /\ asked.low <= level
    BY <2>1, <2>2, ClampedIs
  <2> HIDE DEF level, meant
  <2>4. level < asked.high =>
          /\ mob_effect_value_scaled(asked.base, asked.low, asked.high, level)
               <= mob_effect_value_scaled(asked.base, asked.low, asked.high, level + 1)
          /\ mob_pool_scaled(asked.base, asked.low, asked.high, level)
               <= mob_pool_scaled(asked.base, asked.low, asked.high, level + 1)
    BY <2>1, <2>2, <2>3, ScaledRises
  <2> QED
    BY <2>2, <2>4 DEF LevelsRoundTrip, level, meant
<1> QED
  BY <1>1, <1>2, <1>3, <1>4, <1>5 DEF DivisionsFit, LossesFitPools, RewardsFit

\* However the integer divisions of fight_math.ts round, a roll stays in its range, a
\* removal and a failed departure take no more than there is, the shares of a group
\* add up to no more than it earned, and a mob gets the level it was asked for: for
\* every level, pool, party and authored value.
THEOREM DivisionsNeverOverpay == CalcSpec => []DivisionsFit
  BY EverWellAsked, DivisionsFitWhatIsAsked, PTL

(***************************************************************************)
(* The board                                                               *)
(***************************************************************************)
\* A board has columns, rows and cells.
LEMMA BoardSize == GridW \in Nat \ {0} /\ GridH \in Nat \ {0} /\ NumCells \in Nat \ {0}
BY GridAssumption DEF NumCells

\* Cells and coordinates stand for one another.
LEMMA Coordinates ==
  ASSUME NEW c \in Cells
  PROVE  /\ CellX(c) \in Nat /\ CellX(c) < GridW
         /\ CellY(c) \in Nat /\ CellY(c) < GridH
         /\ c = encode_cell(CellX(c), CellY(c))
<1>1. c \in Nat /\ c < GridW * GridH /\ GridW \in Nat \ {0} /\ GridH \in Nat
  BY BoardSize DEF Cells, NumCells
<1> DEFINE y == c \div GridW
<1>2. c % GridW = c - GridW * y /\ c % GridW \in Nat /\ c % GridW < GridW
  BY <1>1
<1>3. y \in Nat /\ GridW * y <= c
  BY <1>1, Quotient
<1> HIDE DEF y
<1>4. GridW * y < GridW * GridH
  BY <1>1, <1>3
<1>5. y < GridH
  BY <1>1, <1>3, <1>4
<1>6. y * GridW = GridW * y
  BY <1>1, <1>3
<1> QED
  BY <1>1, <1>2, <1>3, <1>5, <1>6 DEF CellX, CellY, encode_cell, y

\* encode_cell gives the one cell that has the coordinates.
LEMMA Encoded ==
  ASSUME NEW x \in Nat, NEW y \in Nat, x < GridW, y < GridH
  PROVE  /\ encode_cell(x, y) \in Cells
         /\ CellX(encode_cell(x, y)) = x /\ CellY(encode_cell(x, y)) = y
<1> DEFINE c == encode_cell(x, y)
           q == c \div GridW
<1>1. GridW \in Nat \ {0} /\ GridH \in Nat \ {0} /\ NumCells = GridW * GridH
  BY BoardSize DEF NumCells
<1>2. c = GridW * y + x /\ c \in Nat
  BY <1>1 DEF encode_cell
<1> HIDE DEF c
<1>3. GridW * y + GridW <= GridW * GridH
  <2>1. y + 1 <= GridH /\ y + 1 \in Nat
    BY <1>1
  <2>2. GridW * (y + 1) <= GridW * GridH
    BY <1>1, <2>1
  <2> QED
    BY <1>1, <2>2
<1>4. c \in Cells
  <2>1. GridW * GridH \in Nat /\ GridW * y \in Nat
    BY <1>1
  <2> QED
    BY <1>1, <1>2, <1>3, <2>1 DEF Cells
<1>5. q \in Nat /\ GridW * q <= c /\ c < GridW * q + GridW /\ c % GridW = c - GridW * q
  BY <1>1, <1>2
<1> HIDE DEF q
<1>6. q = y
  <2>1. GridW * q < GridW * (y + 1)
    BY <1>1, <1>2, <1>5
  <2>2. GridW * y < GridW * (q + 1)
    BY <1>1, <1>2, <1>5
  <2> QED
    BY <1>1, <1>5, <2>1, <2>2
<1>7. c - GridW * q = x
  BY <1>1, <1>2, <1>6
<1>8. CellX(c) = x
  BY <1>5, <1>7 DEF CellX
<1>9. CellY(c) = y
  BY <1>6 DEF CellY, q
<1> QED
  BY <1>4, <1>8, <1>9 DEF c

\* A cell is known by its coordinates.
LEMMA SameCell ==
  ASSUME NEW c \in Cells, NEW d \in Cells, CellX(c) = CellX(d), CellY(c) = CellY(d)
  PROVE  c = d
BY Coordinates

(***************************************************************************)
(* Sight                                                                   *)
(***************************************************************************)

\* The test of a body between two cells, on coordinates: the body at distance
\* ax, ay of the one end on a line of extent tx, ty.
LEMMA SlopesTurnRound ==
  ASSUME NEW ax \in Nat, NEW ay \in Nat, NEW tx \in Nat, NEW ty \in Nat,
         ax <= tx, ay <= ty, ~(ax = 0 /\ ay = 0), ~(ax = tx /\ ay = ty),
         ax = 0 \/ ty = 0 \/ tx * (2 * ay + 1) > (2 * ax - 1) * ty,
         ay # 0 => ty # 0 /\ tx * (2 * ay - 1) < (2 * ax + 1) * ty
  PROVE  /\ \/ tx - ax = 0 \/ ty = 0
            \/ tx * (2 * (ty - ay) + 1) > (2 * (tx - ax) - 1) * ty
         /\ IF ty - ay = 0 THEN tx > tx - ax
            ELSE ty # 0 /\ tx * (2 * (ty - ay) - 1) < (2 * (tx - ax) + 1) * ty
<1> DEFINE p == tx * (2 * ay)
           q == (2 * ax) * ty
           m == tx * (2 * ty)
<1>1. p \in Nat /\ q \in Nat /\ m \in Nat /\ m = (2 * tx) * ty
  OBVIOUS
<1>2. /\ tx * (2 * ay + 1) = p + tx /\ (2 * ax - 1) * ty = q - ty
      /\ tx * (2 * ay - 1) = p - tx /\ (2 * ax + 1) * ty = q + ty
  OBVIOUS
<1>3. /\ tx * (2 * (ty - ay) + 1) = m - p + tx /\ (2 * (tx - ax) - 1) * ty = m - q - ty
      /\ tx * (2 * (ty - ay) - 1) = m - p - tx /\ (2 * (tx - ax) + 1) * ty = m - q + ty
  OBVIOUS
<1>4. (ay = 0 => p = 0) /\ (ax = 0 => q = 0) /\ (ty = 0 => q = 0) /\ (tx = 0 => p = 0)
  OBVIOUS
<1>5. ax >= 1 => q >= ty
  OBVIOUS
<1>6. ay = ty => p = m
  OBVIOUS
<1>7. ty >= 1 => m >= 2 * tx
  OBVIOUS
<1> HIDE DEF p, q, m
<1>8. \/ tx - ax = 0 \/ ty = 0
      \/ m - p + tx > m - q - ty
  BY <1>1, <1>2, <1>4
<1>9. CASE ty - ay = 0
  <2>1. ax # 0
    BY <1>1, <1>2, <1>4, <1>6, <1>7, <1>9
  <2> QED
    BY <1>1, <1>2, <1>3, <1>8, <1>9, <2>1
<1>10. CASE ty - ay # 0
  <2>1. ty # 0
    BY <1>10
  <2>2. m - p - tx < m - q + ty
    BY <1>1, <1>2, <1>4, <1>10
  <2> QED
    BY <1>1, <1>2, <1>3, <1>8, <1>10, <2>1, <2>2
<1> QED
  BY <1>9, <1>10

\* On one axis: seen from the other end, the body is as far as what is left.
LEMMA SidesTurnRound ==
  ASSUME NEW o \in Nat, NEW b \in Nat, NEW t \in Nat,
         SameSide(o, b, t), AbsDiff(b, o) <= AbsDiff(t, o)
  PROVE  /\ AbsDiff(b, t) = AbsDiff(t, o) - AbsDiff(b, o)
         /\ SameSide(t, b, o) /\ AbsDiff(o, t) = AbsDiff(t, o)
<1>1. b = o \/ (b >= o /\ t >= o) \/ (~(b >= o) /\ ~(t >= o))
  BY DEF SameSide
<1>2. b = t \/ (b >= t <=> o >= t)
  BY <1>1 DEF AbsDiff
<1>3. SameSide(t, b, o)
  BY <1>2 DEF SameSide
<1> QED
  BY <1>1, <1>3 DEF AbsDiff

\* blocks, on the coordinates of its three cells.
LEMMA SightFromEitherEnd ==
  ASSUME NEW o \in Cells, NEW b \in Cells, NEW t \in Cells, blocks(o, b, t)
  PROVE  blocks(t, b, o)
<1> DEFINE ax == AbsDiff(CellX(b), CellX(o))
           ay == AbsDiff(CellY(b), CellY(o))
           tx == AbsDiff(CellX(t), CellX(o))
           ty == AbsDiff(CellY(t), CellY(o))
           cx == AbsDiff(CellX(b), CellX(t))
           cy == AbsDiff(CellY(b), CellY(t))
<1>1. /\ CellX(o) \in Nat /\ CellX(b) \in Nat /\ CellX(t) \in Nat
      /\ CellY(o) \in Nat /\ CellY(b) \in Nat /\ CellY(t) \in Nat
  BY Coordinates
<1>2. /\ b # o /\ b # t
      /\ SameSide(CellX(o), CellX(b), CellX(t)) /\ SameSide(CellY(o), CellY(b), CellY(t))
      /\ tx >= ax /\ ty >= ay /\ ~(tx = ax /\ ty = ay)
      /\ \/ ax = 0 \/ ty = 0
         \/ tx * (2 * ay + 1) > (2 * ax - 1) * ty
      /\ IF ay = 0 THEN CellX(b) < CellX(o) \/ tx > ax
         ELSE ty # 0 /\ tx * (2 * ay - 1) < (2 * ax + 1) * ty
  BY DEF blocks
<1>3. ax \in Nat /\ ay \in Nat /\ tx \in Nat /\ ty \in Nat
  BY <1>1 DEF AbsDiff
<1>4. /\ cx = tx - ax /\ SameSide(CellX(t), CellX(b), CellX(o))
      /\ AbsDiff(CellX(o), CellX(t)) = tx
  BY <1>1, <1>2, SidesTurnRound
<1>5. /\ cy = ty - ay /\ SameSide(CellY(t), CellY(b), CellY(o))
      /\ AbsDiff(CellY(o), CellY(t)) = ty
  BY <1>1, <1>2, SidesTurnRound
<1>6. ~(ax = 0 /\ ay = 0)
  BY <1>1, <1>2, SameCell DEF AbsDiff
<1> HIDE DEF ax, ay, tx, ty, cx, cy
<1>7. /\ \/ tx - ax = 0 \/ ty = 0
         \/ tx * (2 * (ty - ay) + 1) > (2 * (tx - ax) - 1) * ty
      /\ IF ty - ay = 0 THEN tx > tx - ax
         ELSE ty # 0 /\ tx * (2 * (ty - ay) - 1) < (2 * (tx - ax) + 1) * ty
  BY <1>2, <1>3, <1>6, SlopesTurnRound
<1>8. /\ \/ cx = 0 \/ ty = 0
         \/ tx * (2 * cy + 1) > (2 * cx - 1) * ty
      /\ IF cy = 0 THEN tx > cx
         ELSE ty # 0 /\ tx * (2 * cy - 1) < (2 * cx + 1) * ty
      /\ tx >= cx /\ ty >= cy /\ ~(tx = cx /\ ty = cy)
  BY <1>3, <1>4, <1>5, <1>6, <1>7
<1> QED
  BY <1>2, <1>4, <1>5, <1>8 DEF blocks, cx, cy

(***************************************************************************)
(* Steps and walks                                                         *)
(***************************************************************************)

\* A step moves one coordinate by one, and stops at the edge of the board.
LEMMA StepMoves ==
  ASSUME NEW c \in Cells
  PROVE  /\ CellX(c) + 1 < GridW =>
              /\ c + 1 \in Cells /\ CellX(c + 1) = CellX(c) + 1 /\ CellY(c + 1) = CellY(c)
         /\ CellX(c) >= 1 =>
              /\ c - 1 \in Cells /\ CellX(c - 1) = CellX(c) - 1 /\ CellY(c - 1) = CellY(c)
         /\ CellY(c) + 1 < GridH =>
              /\ c + GridW \in Cells /\ CellX(c + GridW) = CellX(c)
              /\ CellY(c + GridW) = CellY(c) + 1
         /\ CellY(c) >= 1 =>
              /\ c - GridW \in Cells /\ CellX(c - GridW) = CellX(c)
              /\ CellY(c - GridW) = CellY(c) - 1
<1> DEFINE x == CellX(c)
           y == CellY(c)
<1>1. x \in Nat /\ x < GridW /\ y \in Nat /\ y < GridH /\ c = y * GridW + x
  BY Coordinates DEF encode_cell
<1>2. GridW \in Nat \ {0}
  BY BoardSize
<1>3. (y + 1) * GridW + x = y * GridW + x + GridW
  BY <1>1, <1>2
<1>4. y >= 1 => (y - 1) * GridW + x = y * GridW + x - GridW
  BY <1>1, <1>2
<1>5. y * GridW \in Nat
  BY <1>1, <1>2
<1> HIDE DEF x, y
<1>6. x + 1 < GridW => encode_cell(x + 1, y) = c + 1
  BY <1>1, <1>2, <1>5 DEF encode_cell
<1>7. x >= 1 => encode_cell(x - 1, y) = c - 1
  BY <1>1, <1>2, <1>5 DEF encode_cell
<1>8. encode_cell(x, y + 1) = c + GridW
  BY <1>1, <1>2, <1>3, <1>5 DEF encode_cell
<1>9. y >= 1 => encode_cell(x, y - 1) = c - GridW
  BY <1>1, <1>2, <1>4, <1>5 DEF encode_cell
<1>10. x + 1 < GridW =>
         c + 1 \in Cells /\ CellX(c + 1) = x + 1 /\ CellY(c + 1) = y
  BY <1>1, <1>6, Encoded
<1>11. x >= 1 => c - 1 \in Cells /\ CellX(c - 1) = x - 1 /\ CellY(c - 1) = y
  <2>1. x >= 1 => x - 1 \in Nat /\ x - 1 < GridW
    BY <1>1, <1>2
  <2> QED
    BY <1>1, <1>7, <2>1, Encoded
<1>12. y + 1 < GridH =>
         c + GridW \in Cells /\ CellX(c + GridW) = x /\ CellY(c + GridW) = y + 1
  BY <1>1, <1>8, Encoded
<1>13. y >= 1 =>
         c - GridW \in Cells /\ CellX(c - GridW) = x /\ CellY(c - GridW) = y - 1
  <2>1. y >= 1 => y - 1 \in Nat /\ y - 1 < GridH
    BY <1>1, BoardSize
  <2> QED
    BY <1>1, <1>9, <2>1, Encoded
<1> QED
  BY <1>10, <1>11, <1>12, <1>13 DEF x, y

\* The direction from a cell to another points towards it on one axis.
LEMMA AwayPoints ==
  ASSUME NEW p \in Cells, NEW s \in Cells, p # s
  PROVE  LET d == away_dir(p, s)
         IN \/ d = "px" /\ CellX(s) > CellX(p)
            \/ d = "nx" /\ CellX(s) < CellX(p)
            \/ d = "py" /\ CellY(s) > CellY(p)
            \/ d = "ny" /\ CellY(s) < CellY(p)
<1> DEFINE dx == AbsDiff(CellX(s), CellX(p))
           dy == AbsDiff(CellY(s), CellY(p))
<1>1. /\ CellX(p) \in Nat /\ CellX(s) \in Nat
      /\ CellY(p) \in Nat /\ CellY(s) \in Nat
  BY Coordinates
<1>2. /\ dx \in Nat /\ dy \in Nat
      /\ dx > 0 => CellX(s) # CellX(p)
      /\ dy > 0 => CellY(s) # CellY(p)
      /\ ~(dx = 0 /\ dy = 0)
  BY <1>1, SameCell DEF AbsDiff
<1>3. CASE dx >= dy /\ dx > 0
  <2>1. away_dir(p, s) = IF CellX(s) >= CellX(p) THEN "px" ELSE "nx"
    BY <1>2, <1>3 DEF away_dir
  <2> QED
    BY <1>1, <1>2, <1>3, <2>1
<1>4. CASE ~(dx >= dy /\ dx > 0)
  <2>1. away_dir(p, s) = IF CellY(s) >= CellY(p) THEN "py" ELSE "ny"
    BY <1>2, <1>4 DEF away_dir
  <2>2. dy > 0
    BY <1>2, <1>4
  <2> QED
    BY <1>1, <1>2, <2>1, <2>2
<1> QED
  BY <1>3, <1>4

\* step_cell moves one coordinate by one, or gives no cell at the edge.
LEMMA Stepped ==
  ASSUME NEW c \in Cells
  PROVE  /\ IF CellX(c) + 1 < GridW
            THEN /\ step_cell(c, "px") \in Cells
                 /\ CellX(step_cell(c, "px")) = CellX(c) + 1
                 /\ CellY(step_cell(c, "px")) = CellY(c)
            ELSE step_cell(c, "px") = NoCell
         /\ IF CellX(c) >= 1
            THEN /\ step_cell(c, "nx") \in Cells
                 /\ CellX(step_cell(c, "nx")) = CellX(c) - 1
                 /\ CellY(step_cell(c, "nx")) = CellY(c)
            ELSE step_cell(c, "nx") = NoCell
         /\ IF CellY(c) + 1 < GridH
            THEN /\ step_cell(c, "py") \in Cells
                 /\ CellX(step_cell(c, "py")) = CellX(c)
                 /\ CellY(step_cell(c, "py")) = CellY(c) + 1
            ELSE step_cell(c, "py") = NoCell
         /\ IF CellY(c) >= 1
            THEN /\ step_cell(c, "ny") \in Cells
                 /\ CellX(step_cell(c, "ny")) = CellX(c)
                 /\ CellY(step_cell(c, "ny")) = CellY(c) - 1
            ELSE step_cell(c, "ny") = NoCell
         /\ step_cell(c, "none") = NoCell
<1>1. step_cell(c, "px") = IF CellX(c) + 1 < GridW THEN c + 1 ELSE NoCell
  BY DEF step_cell
<1>2. step_cell(c, "nx") = IF CellX(c) >= 1 THEN c - 1 ELSE NoCell
  BY DEF step_cell
<1>3. step_cell(c, "py") = IF CellY(c) + 1 < GridH THEN c + GridW ELSE NoCell
  BY DEF step_cell
<1>4. step_cell(c, "ny") = IF CellY(c) >= 1 THEN c - GridW ELSE NoCell
  BY DEF step_cell
<1>5. step_cell(c, "none") = NoCell
  BY DEF step_cell
<1> QED
  BY <1>1, <1>2, <1>3, <1>4, <1>5, StepMoves

\* step_cell along away_dir leads one step farther, along toward_dir one step nearer.
LEMMA PushAndPull ==
  ASSUME NEW p \in Cells, NEW s \in Cells, p # s
  PROVE  LET far == step_cell(s, away_dir(p, s))
             near == step_cell(s, toward_dir(p, s))
             span == manhattan(p, s)
         IN /\ far # NoCell => manhattan(p, far) = span + 1
            /\ near # NoCell /\ manhattan(p, near) = span - 1
<1> DEFINE far == step_cell(s, away_dir(p, s))
           near == step_cell(s, toward_dir(p, s))
<1>1. /\ CellX(p) \in Nat /\ CellX(p) < GridW /\ CellY(p) \in Nat /\ CellY(p) < GridH
      /\ CellX(s) \in Nat /\ CellX(s) < GridW /\ CellY(s) \in Nat /\ CellY(s) < GridH
  BY Coordinates
<1>2. \A c \in Cells : c # NoCell
  BY DEF Cells, NoCell
<1>3. CASE away_dir(p, s) = "px" /\ CellX(s) > CellX(p)
  <2>1. toward_dir(p, s) = "nx"
    BY <1>3 DEF toward_dir, opposite_dir
  <2>2. /\ far # NoCell => CellX(far) = CellX(s) + 1 /\ CellY(far) = CellY(s)
        /\ near # NoCell /\ CellX(near) = CellX(s) - 1 /\ CellY(near) = CellY(s)
    BY <1>1, <1>2, <1>3, <2>1, Stepped
  <2> HIDE DEF far, near
  <2>3. /\ far # NoCell => manhattan(p, far) = manhattan(p, s) + 1
        /\ near # NoCell /\ manhattan(p, near) = manhattan(p, s) - 1
    BY <1>1, <1>3, <2>2 DEF manhattan, AbsDiff
  <2> QED
    BY <2>3 DEF far, near
<1>4. CASE away_dir(p, s) = "nx" /\ CellX(s) < CellX(p)
  <2>1. toward_dir(p, s) = "px"
    BY <1>4 DEF toward_dir, opposite_dir
  <2>2. /\ far # NoCell => CellX(far) = CellX(s) - 1 /\ CellY(far) = CellY(s)
        /\ near # NoCell /\ CellX(near) = CellX(s) + 1 /\ CellY(near) = CellY(s)
    BY <1>1, <1>2, <1>4, <2>1, Stepped, BoardSize
  <2> HIDE DEF far, near
  <2>3. /\ far # NoCell => manhattan(p, far) = manhattan(p, s) + 1
        /\ near # NoCell /\ manhattan(p, near) = manhattan(p, s) - 1
    BY <1>1, <1>4, <2>2 DEF manhattan, AbsDiff
  <2> QED
    BY <2>3 DEF far, near
<1>5. CASE away_dir(p, s) = "py" /\ CellY(s) > CellY(p)
  <2>1. toward_dir(p, s) = "ny"
    BY <1>5 DEF toward_dir, opposite_dir
  <2>2. /\ far # NoCell => CellY(far) = CellY(s) + 1 /\ CellX(far) = CellX(s)
        /\ near # NoCell /\ CellY(near) = CellY(s) - 1 /\ CellX(near) = CellX(s)
    BY <1>1, <1>2, <1>5, <2>1, Stepped
  <2> HIDE DEF far, near
  <2>3. /\ far # NoCell => manhattan(p, far) = manhattan(p, s) + 1
        /\ near # NoCell /\ manhattan(p, near) = manhattan(p, s) - 1
    BY <1>1, <1>5, <2>2 DEF manhattan, AbsDiff
  <2> QED
    BY <2>3 DEF far, near
<1>6. CASE away_dir(p, s) = "ny" /\ CellY(s) < CellY(p)
  <2>1. toward_dir(p, s) = "py"
    BY <1>6 DEF toward_dir, opposite_dir
  <2>2. /\ far # NoCell => CellY(far) = CellY(s) - 1 /\ CellX(far) = CellX(s)
        /\ near # NoCell /\ CellY(near) = CellY(s) + 1 /\ CellX(near) = CellX(s)
    BY <1>1, <1>2, <1>6, <2>1, Stepped, BoardSize
  <2> HIDE DEF far, near
  <2>3. /\ far # NoCell => manhattan(p, far) = manhattan(p, s) + 1
        /\ near # NoCell /\ manhattan(p, near) = manhattan(p, s) - 1
    BY <1>1, <1>6, <2>2 DEF manhattan, AbsDiff
  <2> QED
    BY <2>3 DEF far, near
<1> QED
  BY <1>3, <1>4, <1>5, <1>6, AwayPoints

(***************************************************************************)
(* Lists and ranks                                                         *)
(***************************************************************************)

\* A list holds the cells ranked from low up to high (excluded), in that order.
Lists(list, rank, low, high) ==
    /\ list \in Seq(Cells)
    /\ \A i \in 1 .. Len(list) : low <= rank[list[i]] /\ rank[list[i]] < high
    /\ \A i, j \in 1 .. Len(list) : i < j => rank[list[i]] < rank[list[j]]
    /\ \A c \in Cells : low <= rank[c] /\ rank[c] < high =>
         \E i \in 1 .. Len(list) : list[i] = c

\* Two lists of adjacent ranks, one after the other.
LEMMA ListsJoin ==
  ASSUME NEW rank \in [Cells -> Int], NEW low \in Int, NEW mid \in Int, NEW high \in Int,
         NEW s, NEW t, Lists(s, rank, low, mid), Lists(t, rank, mid, high),
         low <= mid, mid <= high
  PROVE  Lists(s \o t, rank, low, high)
<1> DEFINE u == s \o t
           m == Len(s)
           n == Len(t)
<1>1. s \in Seq(Cells) /\ t \in Seq(Cells)
  BY DEF Lists
<1>2. /\ u \in Seq(Cells) /\ Len(u) = m + n /\ m \in Nat /\ n \in Nat
      /\ \A i \in 1 .. m + n : u[i] = IF i <= m THEN s[i] ELSE t[i - m]
  BY <1>1, ConcatProperties, LenProperties
<1> HIDE DEF u
<1>3. \A i \in 1 .. m : s[i] \in Cells /\ low <= rank[s[i]] /\ rank[s[i]] < mid
  BY <1>1, ElementOfSeq DEF Lists
<1>4. \A i \in 1 .. n : t[i] \in Cells /\ mid <= rank[t[i]] /\ rank[t[i]] < high
  BY <1>1, ElementOfSeq DEF Lists
<1>5. \A i, j \in 1 .. m : i < j => rank[s[i]] < rank[s[j]]
  BY DEF Lists
<1>6. \A i, j \in 1 .. n : i < j => rank[t[i]] < rank[t[j]]
  BY DEF Lists
<1>7. \A c \in Cells : low <= rank[c] /\ rank[c] < mid => \E i \in 1 .. m : s[i] = c
  BY DEF Lists
<1>8. \A c \in Cells : mid <= rank[c] /\ rank[c] < high => \E i \in 1 .. n : t[i] = c
  BY DEF Lists
<1> HIDE DEF m, n
<1>9. ASSUME NEW i \in 1 .. m + n
      PROVE  \/ i \in 1 .. m /\ u[i] = s[i]
             \/ i - m \in 1 .. n /\ u[i] = t[i - m]
  BY <1>2
<1>10. ASSUME NEW i \in 1 .. m + n PROVE low <= rank[u[i]] /\ rank[u[i]] < high
  BY <1>3, <1>4, <1>9
<1>11. ASSUME NEW i \in 1 .. m + n, NEW j \in 1 .. m + n, i < j
       PROVE  rank[u[i]] < rank[u[j]]
  <2>1. CASE j <= m
    <3>1. i \in 1 .. m /\ j \in 1 .. m
      BY <1>2, <1>11, <2>1
    <3>2. u[i] = s[i] /\ u[j] = s[j]
      BY <1>2, <3>1
    <3> QED
      BY <1>5, <1>11, <3>1, <3>2
  <2>2. CASE i <= m /\ ~(j <= m)
    <3>1. i \in 1 .. m /\ j - m \in 1 .. n
      BY <1>2, <2>2
    <3>2. u[i] = s[i] /\ u[j] = t[j - m]
      BY <1>2, <2>2
    <3>3. s[i] \in Cells /\ t[j - m] \in Cells
      BY <1>3, <1>4, <3>1
    <3>4. rank[s[i]] \in Int /\ rank[t[j - m]] \in Int
      BY <3>3
    <3>5. rank[s[i]] < mid /\ mid <= rank[t[j - m]]
      BY <1>3, <1>4, <3>1
    <3> QED
      BY <3>2, <3>4, <3>5
  <2>3. CASE ~(i <= m)
    <3>1. /\ i - m \in 1 .. n /\ j - m \in 1 .. n /\ i - m < j - m
          /\ u[i] = t[i - m] /\ u[j] = t[j - m]
      BY <1>2, <1>11, <2>3
    <3> QED
      BY <1>6, <3>1
  <2> QED
    BY <1>2, <2>1, <2>2, <2>3
<1>12. ASSUME NEW c \in Cells, low <= rank[c], rank[c] < high
       PROVE  \E i \in 1 .. m + n : u[i] = c
  <2>1. CASE rank[c] < mid
    <3>1. PICK i \in 1 .. m : s[i] = c
      BY <1>7, <1>12, <2>1
    <3>2. i \in 1 .. m + n /\ u[i] = s[i]
      BY <1>2
    <3> QED
      BY <3>1, <3>2
  <2>2. CASE ~(rank[c] < mid)
    <3>1. rank[c] \in Int
      OBVIOUS
    <3>2. PICK i \in 1 .. n : t[i] = c
      BY <1>8, <1>12, <2>2, <3>1
    <3>3. m + i \in 1 .. m + n /\ ~(m + i <= m) /\ (m + i) - m = i
      BY <1>2
    <3>4. u[m + i] = t[i]
      BY <1>2, <3>3
    <3> QED
      BY <3>2, <3>3, <3>4
  <2> QED
    BY <2>1, <2>2
<1> QED
  BY <1>2, <1>10, <1>11, <1>12 DEF Lists, u

\* The empty list gives the ranks of an empty range.
LEMMA ListsNothing ==
  ASSUME NEW rank \in [Cells -> Int], NEW low \in Int, NEW high \in Int,
         \A c \in Cells : ~(low <= rank[c] /\ rank[c] < high)
  PROVE  Lists(<<>>, rank, low, high)
BY EmptySeq DEF Lists

\* A list of one cell gives one rank.
LEMMA ListsOne ==
  ASSUME NEW rank \in [Cells -> Int], NEW low \in Int, NEW high \in Int, NEW cell \in Cells,
         low <= rank[cell], rank[cell] < high,
         \A c \in Cells : low <= rank[c] /\ rank[c] < high => c = cell
  PROVE  Lists(<<cell>>, rank, low, high)
<1>1. <<cell>> \in Seq(Cells) /\ Len(<<cell>>) = 1 /\ <<cell>>[1] = cell
  OBVIOUS
<1>2. \A i \in 1 .. 1 : i = 1
  OBVIOUS
<1> QED
  BY <1>1, <1>2 DEF Lists

(***************************************************************************)
(* Walks along a direction                                                 *)
(***************************************************************************)
\* The directions away_dir can answer.
AllDirs == Dirs \cup {"none"}

\* How far the board goes on from a cell.
Room(c, d) == CASE d = "px" -> GridW - 1 - CellX(c)
                [] d = "nx" -> CellX(c)
                [] d = "py" -> GridH - 1 - CellY(c)
                [] d = "ny" -> CellY(c)
                [] OTHER -> 0

\* e is the cell k steps from c in the direction d.
OnRay(c, d, k, e) ==
    /\ e \in Cells
    /\ d = "px" => CellX(e) = CellX(c) + k /\ CellY(e) = CellY(c)
    /\ d = "nx" => CellX(e) = CellX(c) - k /\ CellY(e) = CellY(c)
    /\ d = "py" => CellX(e) = CellX(c) /\ CellY(e) = CellY(c) + k
    /\ d = "ny" => CellX(e) = CellX(c) /\ CellY(e) = CellY(c) - k
    /\ d \notin Dirs => k = 0 /\ e = c

\* A ray starts at its origin, and has some room.
LEMMA RayStarts ==
  ASSUME NEW c \in Cells, NEW d \in AllDirs
  PROVE  Room(c, d) \in Nat /\ OnRay(c, d, 0, c)
<1>1. /\ CellX(c) \in Nat /\ CellX(c) < GridW /\ CellY(c) \in Nat /\ CellY(c) < GridH
      /\ GridW \in Nat /\ GridH \in Nat
  BY Coordinates, BoardSize
<1>2. OnRay(c, d, 0, c)
  BY <1>1 DEF OnRay
<1>3. Room(c, d) \in Nat
  BY <1>1 DEF Room, AllDirs, Dirs
<1> QED
  BY <1>2, <1>3

\* The board has no cell farther than its room, and one at each step within it.
LEMMA RayGoesOn ==
  ASSUME NEW c \in Cells, NEW d \in AllDirs, NEW k \in Nat, NEW e, OnRay(c, d, k, e)
  PROVE  /\ k <= Room(c, d)
         /\ k < Room(c, d) => OnRay(c, d, k + 1, step_cell(e, d))
         /\ k = Room(c, d) => step_cell(e, d) = NoCell
<1>1. /\ CellX(c) \in Nat /\ CellX(c) < GridW /\ CellY(c) \in Nat /\ CellY(c) < GridH
      /\ GridW \in Nat /\ GridH \in Nat /\ e \in Cells
      /\ CellX(e) \in Nat /\ CellX(e) < GridW /\ CellY(e) \in Nat /\ CellY(e) < GridH
  BY Coordinates, BoardSize DEF OnRay
<1>2. CASE d = "px"
  <2>1. Room(c, d) = GridW - 1 - CellX(c) /\ CellX(e) = CellX(c) + k /\ CellY(e) = CellY(c)
    BY <1>2 DEF Room, OnRay, Dirs
  <2>2. k <= Room(c, d) /\ (k < Room(c, d) <=> CellX(e) + 1 < GridW)
    BY <1>1, <2>1
  <2> QED
    BY <1>1, <1>2, <2>1, <2>2, Stepped DEF OnRay, Dirs
<1>3. CASE d = "nx"
  <2>1. Room(c, d) = CellX(c) /\ CellX(e) = CellX(c) - k /\ CellY(e) = CellY(c)
    BY <1>3 DEF Room, OnRay, Dirs
  <2>2. k <= Room(c, d) /\ (k < Room(c, d) <=> CellX(e) >= 1)
    BY <1>1, <2>1
  <2> QED
    BY <1>1, <1>3, <2>1, <2>2, Stepped DEF OnRay, Dirs
<1>4. CASE d = "py"
  <2>1. Room(c, d) = GridH - 1 - CellY(c) /\ CellY(e) = CellY(c) + k /\ CellX(e) = CellX(c)
    BY <1>4 DEF Room, OnRay, Dirs
  <2>2. k <= Room(c, d) /\ (k < Room(c, d) <=> CellY(e) + 1 < GridH)
    BY <1>1, <2>1
  <2> QED
    BY <1>1, <1>4, <2>1, <2>2, Stepped DEF OnRay, Dirs
<1>5. CASE d = "ny"
  <2>1. Room(c, d) = CellY(c) /\ CellY(e) = CellY(c) - k /\ CellX(e) = CellX(c)
    BY <1>5 DEF Room, OnRay, Dirs
  <2>2. k <= Room(c, d) /\ (k < Room(c, d) <=> CellY(e) >= 1)
    BY <1>1, <2>1
  <2> QED
    BY <1>1, <1>5, <2>1, <2>2, Stepped DEF OnRay, Dirs
<1>6. CASE d = "none"
  <2>1. Room(c, d) = 0 /\ k = 0
    BY <1>6 DEF Room, OnRay, Dirs
  <2> QED
    BY <1>1, <1>6, <2>1, Stepped
<1> QED
  BY <1>2, <1>3, <1>4, <1>5, <1>6 DEF AllDirs, Dirs

\* Only one cell is there.
LEMMA RayIsOneCell ==
  ASSUME NEW c \in Cells, NEW d \in AllDirs, NEW k \in Nat, NEW e, NEW f,
         OnRay(c, d, k, e), OnRay(c, d, k, f)
  PROVE  e = f
BY SameCell DEF OnRay, AllDirs, Dirs

\* walk_direction lists the cells of the ray, as many as asked for and there are.
WalksRay(w, c, d, k) ==
    /\ w \in Seq(Cells) /\ Len(w) = (IF k <= Room(c, d) THEN k ELSE Room(c, d))
    /\ \A i \in 1 .. Len(w) : OnRay(c, d, i, w[i])

\* walk_direction lists the cells of a ray in order, up to the edge of the board.
LEMMA WalkIs ==
  ASSUME NEW c \in Cells, NEW d \in AllDirs, NEW count \in Nat
  PROVE  WalksRay(walk_direction(c, d, count), c, d, count)
<1> DEFINE V == Seq(Cells)
           next(w) == LET to == step_cell(IF w = <<>> THEN c ELSE Last(w), d)
                      IN IF to = NoCell THEN w ELSE Append(w, to)
           step == [n \in Nat |-> [w \in V |-> IF next(w) \in V THEN next(w) ELSE w]]
           Is(f) == f = [n \in 0 .. count |-> IF n = 0 THEN <<>> ELSE next(f[n - 1])]
           walk == CHOOSE f : Is(f)
           room == Room(c, d)
<1>1. walk_direction(c, d, count) = walk[count]
  BY DEF walk_direction
<1>2. room \in Nat /\ OnRay(c, d, 0, c)
  BY RayStarts
<1>3. ASSUME NEW k \in Nat, NEW w, WalksRay(w, c, d, k)
      PROVE  next(w) \in V /\ WalksRay(next(w), c, d, k + 1)
  <2> DEFINE last == IF w = <<>> THEN c ELSE Last(w)
             to == step_cell(last, d)
             n == Len(w)
  <2>1. w \in Seq(Cells) /\ n \in Nat /\ n = (IF k <= room THEN k ELSE room)
    BY <1>3, LenProperties DEF WalksRay
  <2>2. OnRay(c, d, n, last)
    <3>1. CASE w = <<>>
      BY <1>2, <3>1
    <3>2. CASE w # <<>>
      <4>1. n \in 1 .. n
        BY <2>1, <3>2, EmptySeq
      <4> QED
        BY <1>3, <3>2, <4>1 DEF WalksRay, Last
    <3> QED
      BY <3>1, <3>2
  <2> HIDE DEF last
  <2>3. CASE k < room
    <3>1. n = k /\ OnRay(c, d, k + 1, to)
      BY <1>2, <2>1, <2>2, <2>3, RayGoesOn
    <3>2. to \in Cells /\ to # NoCell
      BY <3>1 DEF OnRay, Cells, NoCell
    <3>3. next(w) = Append(w, to)
      BY <3>2 DEF last
    <3>4. /\ Append(w, to) \in Seq(Cells) /\ Len(Append(w, to)) = n + 1
          /\ \A i \in 1 .. n + 1 : Append(w, to)[i] = IF i <= n THEN w[i] ELSE to
      BY <2>1, <3>2, AppendProperties
    <3>5. \A i \in 1 .. n : OnRay(c, d, i, w[i])
      BY <1>3 DEF WalksRay
    <3>6. \A i \in 1 .. n + 1 : OnRay(c, d, i, Append(w, to)[i])
      BY <2>1, <3>1, <3>4, <3>5
    <3> HIDE DEF next, to, n
    <3> QED
      BY <1>2, <2>1, <2>3, <3>1, <3>3, <3>4, <3>6 DEF WalksRay
  <2>4. CASE ~(k < room)
    <3>1. n = room
      BY <1>2, <2>1, <2>4
    <3>2. to = NoCell
      BY <1>2, <2>2, <3>1, RayGoesOn
    <3>3. next(w) = w
      BY <3>2 DEF last
    <3> HIDE DEF next, to
    <3> QED
      BY <1>2, <1>3, <2>1, <2>4, <3>1, <3>3 DEF WalksRay
  <2> QED
    BY <2>3, <2>4
<1>4. step \in [Nat -> [V -> V]]
  OBVIOUS
<1>5. \A n \in Nat, w \in V : next(w) \in V => step[n][w] = next(w)
  OBVIOUS
<1> HIDE DEF step, next
<1>6. WalksRay(<<>>, c, d, 0)
  BY <1>2, EmptySeq DEF WalksRay
<1>7. <<>> \in V
  BY EmptySeq
<1> HIDE DEF V
<1>8. PICK f : Unfolds(f, V, <<>>, step, count)
  BY <1>4, <1>7, Recursion
<1> DEFINE S == {n \in Nat : n <= count => WalksRay(f[n], c, d, n)}
<1>9. \A n \in Nat : n \in S
  <2>1. 0 \in S
    BY <1>6, <1>8 DEF Unfolds
  <2>2. ASSUME NEW n \in Nat, n \in S PROVE n + 1 \in S
    <3> SUFFICES ASSUME n + 1 <= count PROVE WalksRay(f[n + 1], c, d, n + 1)
      OBVIOUS
    <3>1. n + 1 \in 1 .. count /\ (n + 1) - 1 = n /\ n \in 0 .. count
      OBVIOUS
    <3>2. WalksRay(f[n], c, d, n) /\ f[n] \in V
      BY <1>8, <2>2, <3>1 DEF Unfolds
    <3>3. f[n + 1] = step[n + 1][f[n]]
      BY <1>8, <3>1 DEF Unfolds
    <3> QED
      BY <1>3, <1>5, <3>2, <3>3
  <2>3. S \in SUBSET Nat
    OBVIOUS
  <2> HIDE DEF S
  <2> QED
    BY <2>1, <2>2, <2>3, Induction
<1>10. Is(f)
  <2>1. ASSUME NEW n \in 1 .. count PROVE f[n] = next(f[n - 1])
    <3>1. n - 1 \in Nat /\ n - 1 <= count /\ n - 1 \in 0 .. count /\ n \in Nat
      OBVIOUS
    <3>2. WalksRay(f[n - 1], c, d, n - 1) /\ f[n - 1] \in V
      BY <1>8, <1>9, <3>1 DEF Unfolds
    <3>3. f[n] = step[n][f[n - 1]]
      BY <1>8 DEF Unfolds
    <3> QED
      BY <1>3, <1>5, <3>1, <3>2, <3>3
  <2> QED
    BY <1>8, <2>1 DEF Unfolds
<1>11. Is(walk)
  <2> HIDE DEF Is
  <2> QED
    BY <1>10
<1> HIDE DEF walk
<1> DEFINE T == {n \in Nat : n <= count => WalksRay(walk[n], c, d, n)}
<1>12. \A n \in Nat : n \in T
  <2>1. 0 \in T
    BY <1>6, <1>11
  <2>2. ASSUME NEW n \in Nat, n \in T PROVE n + 1 \in T
    <3> SUFFICES ASSUME n + 1 <= count PROVE WalksRay(walk[n + 1], c, d, n + 1)
      OBVIOUS
    <3>1. WalksRay(walk[n], c, d, n)
      BY <2>2
    <3>2. walk[n + 1] = next(walk[n])
      BY <1>11
    <3> QED
      BY <1>3, <3>1, <3>2
  <2>3. T \in SUBSET Nat
    OBVIOUS
  <2> HIDE DEF T
  <2> QED
    BY <2>1, <2>2, <2>3, Induction
<1> QED
  BY <1>1, <1>12

\* walk_capacity is the room that is left on the board, or the size.
LEMMA CapacityIs ==
  ASSUME NEW c \in Cells, NEW d \in AllDirs, NEW size \in Nat
  PROVE  /\ walk_capacity(c, d, size) = IF size <= Room(c, d) THEN size ELSE Room(c, d)
         /\ walk_capacity(c, d, size) \in Nat /\ walk_capacity(c, d, size) <= size
<1>1. Room(c, d) \in Nat
  BY RayStarts
<1>2. walk_capacity(c, d, size) = Min({size, Room(c, d)})
  BY DEF walk_capacity, Room
<1> QED
  BY <1>1, <1>2, MinOfTwo

\* walk_rank counts the steps to a cell on the ray, and knows no other cell.
LEMMA WalkRankIs ==
  ASSUME NEW c \in Cells, NEW d \in AllDirs, NEW size \in Nat, NEW e \in Cells
  PROVE  \/ /\ walk_rank(c, d, size, e) \in 1 .. size
            /\ OnRay(c, d, walk_rank(c, d, size, e), e)
         \/ /\ walk_rank(c, d, size, e) = NoCell
            /\ \A k \in 1 .. size : ~OnRay(c, d, k, e)
<1>1. /\ CellX(c) \in Nat /\ CellY(c) \in Nat /\ CellX(e) \in Nat /\ CellY(e) \in Nat
  BY Coordinates
<1>2. CASE d = "px"
  <2>1. walk_rank(c, d, size, e) =
          IF CellY(e) - CellY(c) = 0 /\ CellX(e) - CellX(c) >= 1
             /\ CellX(e) - CellX(c) <= size
          THEN CellX(e) - CellX(c) ELSE NoCell
    BY <1>2 DEF walk_rank, Dirs
  <2> QED
    BY <1>1, <1>2, <2>1 DEF OnRay, Dirs
<1>3. CASE d = "nx"
  <2>1. walk_rank(c, d, size, e) =
          IF CellY(e) - CellY(c) = 0 /\ -(CellX(e) - CellX(c)) >= 1
             /\ -(CellX(e) - CellX(c)) <= size
          THEN -(CellX(e) - CellX(c)) ELSE NoCell
    BY <1>3 DEF walk_rank, Dirs
  <2> QED
    BY <1>1, <1>3, <2>1 DEF OnRay, Dirs
<1>4. CASE d = "py"
  <2>1. walk_rank(c, d, size, e) =
          IF CellX(e) - CellX(c) = 0 /\ CellY(e) - CellY(c) >= 1
             /\ CellY(e) - CellY(c) <= size
          THEN CellY(e) - CellY(c) ELSE NoCell
    BY <1>4 DEF walk_rank, Dirs
  <2> QED
    BY <1>1, <1>4, <2>1 DEF OnRay, Dirs
<1>5. CASE d = "ny"
  <2>1. walk_rank(c, d, size, e) =
          IF CellX(e) - CellX(c) = 0 /\ -(CellY(e) - CellY(c)) >= 1
             /\ -(CellY(e) - CellY(c)) <= size
          THEN -(CellY(e) - CellY(c)) ELSE NoCell
    BY <1>5 DEF walk_rank, Dirs
  <2> QED
    BY <1>1, <1>5, <2>1 DEF OnRay, Dirs
<1>6. CASE d = "none"
  <2>1. walk_rank(c, d, size, e) = NoCell
    BY <1>6 DEF walk_rank, Dirs
  <2> QED
    BY <1>6, <2>1 DEF OnRay, Dirs
<1> QED
  BY <1>2, <1>3, <1>4, <1>5, <1>6 DEF AllDirs, Dirs

\* The walk lists its ray when the ranks count its steps on from a base.
LEMMA ListsWalk ==
  ASSUME NEW rank \in [Cells -> Int], NEW c \in Cells, NEW d \in AllDirs, NEW size \in Nat,
         NEW low \in Int, NEW high \in Int,
         low + walk_capacity(c, d, size) <= high,
         \A e \in Cells, k \in 1 .. size : OnRay(c, d, k, e) => rank[e] + 1 = low + k,
         \A e \in Cells : low <= rank[e] /\ rank[e] < high =>
                            \E k \in 1 .. size : OnRay(c, d, k, e)
  PROVE  Lists(walk_direction(c, d, size), rank, low, high)
<1> DEFINE w == walk_direction(c, d, size)
           cap == walk_capacity(c, d, size)
<1>1. w \in Seq(Cells) /\ \A i \in 1 .. Len(w) : OnRay(c, d, i, w[i])
  BY WalkIs DEF WalksRay
<1>2. /\ Len(w) = cap /\ cap \in Nat /\ cap <= size /\ Room(c, d) \in Nat
      /\ cap = IF size <= Room(c, d) THEN size ELSE Room(c, d)
  <2>1. WalksRay(w, c, d, size)
    BY WalkIs
  <2>2. /\ cap = (IF size <= Room(c, d) THEN size ELSE Room(c, d))
        /\ cap \in Nat /\ cap <= size
    BY CapacityIs
  <2>3. Room(c, d) \in Nat
    BY RayStarts
  <2> HIDE DEF w, cap
  <2> QED
    BY <2>1, <2>2, <2>3 DEF WalksRay
<1> HIDE DEF w, cap
<1>3. ASSUME NEW i \in 1 .. cap PROVE w[i] \in Cells /\ rank[w[i]] + 1 = low + i
  <2>1. OnRay(c, d, i, w[i]) /\ i \in 1 .. size
    BY <1>1, <1>2
  <2>2. w[i] \in Cells
    BY <2>1 DEF OnRay
  <2> QED
    BY <2>1, <2>2
<1>4. ASSUME NEW e \in Cells, low <= rank[e], rank[e] < high
      PROVE  \E i \in 1 .. Len(w) : w[i] = e
  <2>1. PICK k \in 1 .. size : OnRay(c, d, k, e)
    BY <1>4
  <2>2. k <= Room(c, d)
    BY <2>1, RayGoesOn
  <2>3. k \in 1 .. cap
    BY <1>2, <2>2
  <2>4. OnRay(c, d, k, w[k])
    BY <1>1, <1>2, <2>3
  <2>5. w[k] = e
    BY <2>1, <2>4, RayIsOneCell
  <2> QED
    BY <1>2, <2>3, <2>5
<1>5. low + cap <= high
  BY DEF cap
<1>6. \A i \in 1 .. Len(w) : low <= rank[w[i]] /\ rank[w[i]] < high
  BY <1>2, <1>3, <1>5
<1>7. ASSUME NEW i \in 1 .. Len(w), NEW j \in 1 .. Len(w), i < j
      PROVE  rank[w[i]] < rank[w[j]]
  <2>1. i \in 1 .. cap /\ j \in 1 .. cap
    BY <1>2
  <2>2. /\ w[i] \in Cells /\ rank[w[i]] + 1 = low + i
        /\ w[j] \in Cells /\ rank[w[j]] + 1 = low + j
    BY <1>3, <2>1
  <2>3. rank[w[i]] \in Int /\ rank[w[j]] \in Int
    BY <2>2
  <2> QED
    BY <1>7, <2>1, <2>2, <2>3
<1> QED
  BY <1>1, <1>4, <1>6, <1>7, Zenon DEF Lists, w

(***************************************************************************)
(* Areas                                                                   *)
(***************************************************************************)
\* away_dir answers one of the directions.
LEMMA DirectionsKnown ==
  ASSUME NEW p \in Cells, NEW s \in Cells
  PROVE  away_dir(p, s) \in AllDirs
<1>1. CASE p = s
  <2>1. AbsDiff(CellX(s), CellX(p)) = 0 /\ AbsDiff(CellY(s), CellY(p)) = 0
    BY <1>1, Coordinates DEF AbsDiff
  <2>2. away_dir(p, s) = "none"
    BY <2>1 DEF away_dir
  <2> QED
    BY <2>2 DEF AllDirs
<1>2. CASE p # s
  BY <1>2, AwayPoints DEF AllDirs, Dirs
<1> QED
  BY <1>1, <1>2

\* The two sides of a direction lie across it and apart from one another.
LEMMA SidesAre ==
  ASSUME NEW d \in AllDirs
  PROVE  LET perp == perpendicular_directions(d)
         IN \/ d \in {"px", "nx", "none"} /\ perp[1] = "py" /\ perp[2] = "ny"
            \/ d \in {"py", "ny"} /\ perp[1] = "px" /\ perp[2] = "nx"
BY DEF perpendicular_directions, AllDirs, Dirs

\* Two rays from one cell share none of their cells.
LEMMA RaysApart ==
  ASSUME NEW c \in Cells, NEW d \in AllDirs, NEW f \in AllDirs, d # f,
         NEW k \in Nat, NEW m \in Nat, k >= 1, m >= 1, NEW e, OnRay(c, d, k, e)
  PROVE  ~OnRay(c, f, m, e) /\ e # c
<1>1. CellX(c) \in Nat /\ CellY(c) \in Nat
  BY Coordinates
<1> QED
  BY <1>1 DEF OnRay, AllDirs, Dirs

\* A ray does not hold the cell it starts from.
LEMMA RayIsNotOrigin ==
  ASSUME NEW c \in Cells, NEW d \in AllDirs, NEW k \in Nat, k >= 1, NEW e, OnRay(c, d, k, e)
  PROVE  e # c
<1>1. CellX(c) \in Nat /\ CellY(c) \in Nat
  BY Coordinates
<1> QED
  BY <1>1 DEF OnRay, AllDirs, Dirs

\* A cell lies on a ray at one distance only.
LEMMA RayCountsSteps ==
  ASSUME NEW c \in Cells, NEW d \in AllDirs, NEW k \in Nat, NEW m \in Nat, NEW e,
         OnRay(c, d, k, e), OnRay(c, d, m, e)
  PROVE  k = m
<1>1. CellX(c) \in Nat /\ CellY(c) \in Nat
  BY Coordinates
<1> QED
  BY <1>1 DEF OnRay, AllDirs, Dirs

\* A list whose ranks begin at 0 and end before `high`, when the ranks of all other
\* cells are absent, agrees with the ranks.
LEMMA AreaLists ==
  ASSUME NEW rank \in [Cells -> Int], NEW list, NEW high \in Int,
         Lists(list, rank, 0, high),
         \A c \in Cells : rank[c] = NoCell \/ (0 <= rank[c] /\ rank[c] < high)
  PROVE  /\ ToSet(list) = {c \in Cells : rank[c] # NoCell}
         /\ \A i, j \in DOMAIN list : i < j => rank[list[i]] < rank[list[j]]
<1>1. list \in Seq(Cells) /\ DOMAIN list = 1 .. Len(list)
  BY LenProperties DEF Lists
<1>2. \A i \in 1 .. Len(list) : list[i] \in Cells /\ 0 <= rank[list[i]]
  BY <1>1, ElementOfSeq DEF Lists
<1>3. ASSUME NEW c \in ToSet(list) PROVE c \in Cells /\ rank[c] # NoCell
  BY <1>1, <1>2 DEF ToSet, NoCell
<1>4. ASSUME NEW c \in Cells, rank[c] # NoCell PROVE c \in ToSet(list)
  <2>1. PICK i \in 1 .. Len(list) : list[i] = c
    BY <1>4 DEF Lists
  <2> QED
    BY <1>1, <2>1 DEF ToSet
<1> QED
  BY <1>1, <1>3, <1>4 DEF Lists

\* A line: its list has the cells of line_rank in their order.
LEMMA LineLists ==
  ASSUME NEW anchor \in Cells, NEW caster \in Cells, NEW size \in Nat,
         NEW rank \in [Cells -> Int],
         \A c \in Cells : rank[c] = line_rank(anchor, caster, size, c)
  PROVE  LET list == <<anchor>> \o walk_direction(anchor, away_dir(caster, anchor), size)
         IN /\ Lists(list, rank, 0, size + 1)
            /\ \A c \in Cells : rank[c] = NoCell \/ (0 <= rank[c] /\ rank[c] < size + 1)
<1> DEFINE d == away_dir(caster, anchor)
<1>1. d \in AllDirs
  BY DirectionsKnown
<1> HIDE DEF d
<1>2. \A c \in Cells : rank[c] = IF c = anchor THEN 0 ELSE walk_rank(anchor, d, size, c)
  BY DEF line_rank, d
<1>3. ASSUME NEW c \in Cells, c # anchor
      PROVE  \/ rank[c] \in 1 .. size /\ OnRay(anchor, d, rank[c], c)
             \/ rank[c] = NoCell /\ \A k \in 1 .. size : ~OnRay(anchor, d, k, c)
  BY <1>1, <1>2, <1>3, WalkRankIs
<1>4. \A c \in Cells : rank[c] = NoCell \/ (0 <= rank[c] /\ rank[c] < size + 1)
  BY <1>2, <1>3
<1>5. Lists(<<anchor>>, rank, 0, 1)
  BY <1>2, <1>3, ListsOne DEF NoCell
<1>6. Lists(walk_direction(anchor, d, size), rank, 1, size + 1)
  <2>1. 1 + walk_capacity(anchor, d, size) <= size + 1
    BY <1>1, CapacityIs
  <2>2. ASSUME NEW c \in Cells, NEW k \in 1 .. size, OnRay(anchor, d, k, c)
        PROVE  rank[c] + 1 = 1 + k
    <3>1. c # anchor
      BY <1>1, <2>2, RayIsNotOrigin
    <3>2. rank[c] \in 1 .. size /\ OnRay(anchor, d, rank[c], c)
      BY <1>3, <2>2, <3>1
    <3> QED
      BY <1>1, <2>2, <3>2, RayCountsSteps
  <2>3. ASSUME NEW c \in Cells, 1 <= rank[c], rank[c] < size + 1
        PROVE  \E k \in 1 .. size : OnRay(anchor, d, k, c)
    BY <1>2, <1>3, <2>3 DEF NoCell
  <2> QED
    BY <1>1, <2>1, <2>2, <2>3, ListsWalk
<1> QED
  BY <1>4, <1>5, <1>6, ListsJoin DEF d

\* A bar: its list has the cells of tbar_rank in their order, one arm then the other.
LEMMA TbarLists ==
  ASSUME NEW anchor \in Cells, NEW caster \in Cells, NEW size \in Nat,
         NEW rank \in [Cells -> Int],
         \A c \in Cells : rank[c] = tbar_rank(anchor, caster, size, c)
  PROVE  LET high == tbar_length(anchor, away_dir(caster, anchor), size)
         IN /\ high \in Nat
            /\ Lists(tbar_cells(anchor, caster, size), rank, 0, high)
            /\ \A c \in Cells : rank[c] = NoCell \/ (0 <= rank[c] /\ rank[c] < high)
<1> DEFINE d == away_dir(caster, anchor)
           one == perpendicular_directions(d)[1]
           two == perpendicular_directions(d)[2]
           capOne == walk_capacity(anchor, one, size)
           capTwo == walk_capacity(anchor, two, size)
           rankOne(c) == walk_rank(anchor, one, size, c)
           rankTwo(c) == walk_rank(anchor, two, size, c)
<1>1. one \in AllDirs /\ two \in AllDirs /\ one # two
  BY DirectionsKnown, SidesAre DEF AllDirs, Dirs
<1>2. tbar_length(anchor, d, size) = 1 + capOne + capTwo
  BY DEF tbar_length
<1>3. \A c \in Cells : rank[c] =
         IF c = anchor THEN 0
         ELSE IF rankOne(c) # NoCell THEN rankOne(c)
         ELSE IF rankTwo(c) = NoCell THEN NoCell ELSE capOne + rankTwo(c)
  BY DEF tbar_rank, AcrossRank, ArmRank
<1>4. tbar_cells(anchor, caster, size) =
        (<<anchor>> \o walk_direction(anchor, one, size)) \o walk_direction(anchor, two, size)
  BY DEF tbar_cells
<1> HIDE DEF one, two
<1>5. /\ capOne \in Nat /\ capTwo \in Nat /\ capOne <= size /\ capTwo <= size
      /\ capOne = (IF size <= Room(anchor, one) THEN size ELSE Room(anchor, one))
      /\ capTwo = (IF size <= Room(anchor, two) THEN size ELSE Room(anchor, two))
      /\ Room(anchor, one) \in Nat /\ Room(anchor, two) \in Nat
  BY <1>1, CapacityIs, RayStarts
<1> HIDE DEF capOne, capTwo
<1>6. ASSUME NEW c \in Cells
      PROVE  \/ /\ rankOne(c) \in 1 .. capOne /\ OnRay(anchor, one, rankOne(c), c)
             \/ /\ rankOne(c) = NoCell /\ \A k \in 1 .. size : ~OnRay(anchor, one, k, c)
  <2>1. \/ rankOne(c) \in 1 .. size /\ OnRay(anchor, one, rankOne(c), c)
        \/ rankOne(c) = NoCell /\ \A k \in 1 .. size : ~OnRay(anchor, one, k, c)
    BY <1>1, WalkRankIs
  <2>2. \A k \in 1 .. size : OnRay(anchor, one, k, c) => k <= Room(anchor, one)
    BY <1>1, RayGoesOn
  <2> HIDE DEF rankOne
  <2> QED
    BY <1>5, <2>1, <2>2
<1>7. ASSUME NEW c \in Cells
      PROVE  \/ /\ rankTwo(c) \in 1 .. capTwo /\ OnRay(anchor, two, rankTwo(c), c)
             \/ /\ rankTwo(c) = NoCell /\ \A k \in 1 .. size : ~OnRay(anchor, two, k, c)
  <2>1. \/ rankTwo(c) \in 1 .. size /\ OnRay(anchor, two, rankTwo(c), c)
        \/ rankTwo(c) = NoCell /\ \A k \in 1 .. size : ~OnRay(anchor, two, k, c)
    BY <1>1, WalkRankIs
  <2>2. \A k \in 1 .. size : OnRay(anchor, two, k, c) => k <= Room(anchor, two)
    BY <1>1, RayGoesOn
  <2> HIDE DEF rankTwo
  <2> QED
    BY <1>5, <2>1, <2>2
<1> HIDE DEF rankOne, rankTwo
<1>8. ASSUME NEW c \in Cells
      PROVE  \/ c = anchor /\ rank[c] = 0
             \/ rank[c] \in 1 .. capOne /\ OnRay(anchor, one, rank[c], c)
             \/ /\ rank[c] \in capOne + 1 .. capOne + capTwo
                /\ OnRay(anchor, two, rank[c] - capOne, c)
             \/ rank[c] = NoCell
  <2>1. NoCell = -1
    BY DEF NoCell
  <2> QED
    BY <1>3, <1>5, <1>6, <1>7, <2>1
<1>9. \A c \in Cells : rank[c] = NoCell \/ (0 <= rank[c] /\ rank[c] < 1 + capOne + capTwo)
  BY <1>5, <1>8
<1>10. Lists(<<anchor>>, rank, 0, 1)
  <2>1. \A c \in Cells : 0 <= rank[c] /\ rank[c] < 1 => c = anchor
    BY <1>5, <1>8 DEF NoCell
  <2>2. rank[anchor] = 0
    BY <1>3
  <2> QED
    BY <2>1, <2>2, ListsOne
<1>11. Lists(walk_direction(anchor, one, size), rank, 1, capOne + 1)
  <2>1. 1 + walk_capacity(anchor, one, size) <= capOne + 1
    BY <1>5 DEF capOne
  <2>2. ASSUME NEW c \in Cells, NEW k \in 1 .. size, OnRay(anchor, one, k, c)
        PROVE  rank[c] + 1 = 1 + k
    <3>1. c # anchor
      BY <1>1, <2>2, RayIsNotOrigin
    <3>2. rankOne(c) \in 1 .. capOne /\ OnRay(anchor, one, rankOne(c), c)
      BY <1>6, <2>2
    <3>3. rankOne(c) = k
      BY <1>1, <1>5, <2>2, <3>2, RayCountsSteps
    <3> QED
      BY <1>3, <3>1, <3>3 DEF NoCell
  <2>3. ASSUME NEW c \in Cells, 1 <= rank[c], rank[c] < capOne + 1
        PROVE  \E k \in 1 .. size : OnRay(anchor, one, k, c)
    BY <1>5, <1>8, <2>3 DEF NoCell
  <2> QED
    BY <1>1, <1>5, <2>1, <2>2, <2>3, ListsWalk
<1>12. Lists(walk_direction(anchor, two, size), rank, capOne + 1, 1 + capOne + capTwo)
  <2>1. (capOne + 1) + walk_capacity(anchor, two, size) <= 1 + capOne + capTwo
    BY <1>5 DEF capTwo
  <2>2. ASSUME NEW c \in Cells, NEW k \in 1 .. size, OnRay(anchor, two, k, c)
        PROVE  rank[c] + 1 = (capOne + 1) + k
    <3>1. c # anchor
      BY <1>1, <2>2, RayIsNotOrigin
    <3>2. rankTwo(c) \in 1 .. capTwo /\ OnRay(anchor, two, rankTwo(c), c)
      BY <1>7, <2>2
    <3>3. rankTwo(c) = k
      BY <1>1, <1>5, <2>2, <3>2, RayCountsSteps
    <3>4. rankOne(c) = NoCell
      BY <1>1, <1>5, <1>6, <2>2, RaysApart
    <3> QED
      BY <1>3, <1>5, <3>1, <3>3, <3>4 DEF NoCell
  <2>3. ASSUME NEW c \in Cells, capOne + 1 <= rank[c], rank[c] < 1 + capOne + capTwo
        PROVE  \E k \in 1 .. size : OnRay(anchor, two, k, c)
    <3>1. OnRay(anchor, two, rank[c] - capOne, c) /\ rank[c] \in capOne + 1 .. capOne + capTwo
      BY <1>5, <1>8, <2>3 DEF NoCell
    <3> QED
      BY <1>5, <3>1
  <2> QED
    BY <1>1, <1>5, <2>1, <2>2, <2>3, ListsWalk
<1>13. Lists(<<anchor>> \o walk_direction(anchor, one, size), rank, 0, capOne + 1)
  BY <1>5, <1>10, <1>11, ListsJoin
<1>14. Lists(tbar_cells(anchor, caster, size), rank, 0, 1 + capOne + capTwo)
  <2> DEFINE left == <<anchor>> \o walk_direction(anchor, one, size)
             right == walk_direction(anchor, two, size)
             mid == capOne + 1
             high == 1 + capOne + capTwo
  <2>1. tbar_cells(anchor, caster, size) = left \o right
    BY <1>4
  <2>2. mid \in Int /\ high \in Int /\ 0 <= mid /\ mid <= high
    BY <1>5
  <2>3. Lists(left, rank, 0, mid) /\ Lists(right, rank, mid, high)
    BY <1>12, <1>13
  <2> HIDE DEF left, right, mid, high
  <2>4. Lists(left \o right, rank, 0, high)
    BY <2>2, <2>3, ListsJoin
  <2> QED
    BY <2>1, <2>4 DEF high
<1> QED
  BY <1>2, <1>5, <1>9, <1>14

(***************************************************************************)
(* Lists gathered piece by piece                                           *)
(***************************************************************************)
\* f gathers the pieces 1 .. n of a list one after the other.
Gathers(f, n, piece) ==
    f = [k \in 0 .. n |-> IF k = 0 THEN <<>> ELSE f[k - 1] \o piece[k]]

\* Pieces can always be gathered.
LEMMA GatheringEnds ==
  ASSUME NEW n \in Nat, NEW piece \in [1 .. n -> Seq(Cells)]
  PROVE  \E f : Gathers(f, n, piece)
<1> DEFINE V == Seq(Cells)
           step == [k \in Nat |-> [w \in V |-> IF k \in 1 .. n THEN w \o piece[k] ELSE w]]
<1>1. step \in [Nat -> [V -> V]]
  <2>1. ASSUME NEW k \in 1 .. n, NEW w \in V PROVE w \o piece[k] \in V
    BY ConcatProperties
  <2> QED
    BY <2>1
<1>2. \A k \in 1 .. n, w \in V : step[k][w] = w \o piece[k]
  OBVIOUS
<1>3. <<>> \in V
  BY EmptySeq
<1> HIDE DEF step, V
<1>4. PICK f : Unfolds(f, V, <<>>, step, n)
  BY <1>1, <1>3, Recursion
<1>5. \A k \in 1 .. n : f[k] = f[k - 1] \o piece[k]
  <2> TAKE k \in 1 .. n
  <2>1. f[k - 1] \in V
    BY <1>4 DEF Unfolds
  <2> QED
    BY <1>2, <1>4, <2>1 DEF Unfolds
<1>6. \A k \in 0 .. n : f[k] = IF k = 0 THEN <<>> ELSE f[k - 1] \o piece[k]
  <2>1. f[0] = <<>>
    BY <1>4 DEF Unfolds
  <2>2. \A k \in 0 .. n : k # 0 => k \in 1 .. n
    OBVIOUS
  <2> QED
    BY <1>5, <2>1, <2>2
<1>7. f = [k \in 0 .. n |-> f[k]]
  BY <1>4 DEF Unfolds
<1>8. Gathers(f, n, piece)
  BY <1>6, <1>7, Zenon DEF Gathers
<1> QED
  BY <1>8

\* What is gathered from pieces that list adjacent ranks lists them all.
LEMMA GatheredLists ==
  ASSUME NEW n \in Nat, NEW piece, NEW f, Gathers(f, n, piece),
         NEW rank \in [Cells -> Int], NEW bound \in [0 .. n -> Int],
         \A k \in 1 .. n : /\ bound[k - 1] <= bound[k]
                          /\ Lists(piece[k], rank, bound[k - 1], bound[k])
  PROVE  Lists(f[n], rank, bound[0], bound[n]) /\ bound[0] <= bound[n]
<1> DEFINE S == {k \in Nat : k <= n =>
                   bound[0] <= bound[k] /\ Lists(f[k], rank, bound[0], bound[k])}
<1> DEFINE value(k) == IF k = 0 THEN <<>> ELSE f[k - 1] \o piece[k]
<1>1. f[0] = <<>> /\ \A k \in 1 .. n : f[k] = f[k - 1] \o piece[k]
  <2>1. f = [k \in 0 .. n |-> value(k)]
    BY DEF Gathers
  <2> HIDE DEF value
  <2>2. f[0] = value(0) /\ \A k \in 1 .. n : f[k] = value(k)
    BY <2>1
  <2>3. \A k \in 1 .. n : k # 0
    OBVIOUS
  <2> QED
    BY <2>2, <2>3 DEF value
<1>2. 0 \in S
  <2>1. bound[0] \in Int
    OBVIOUS
  <2>2. \A c \in Cells : ~(bound[0] <= rank[c] /\ rank[c] < bound[0])
    BY <2>1
  <2> QED
    BY <1>1, <2>1, <2>2, ListsNothing
<1>3. ASSUME NEW k \in Nat, k \in S PROVE k + 1 \in S
  <2> SUFFICES ASSUME k + 1 <= n
               PROVE  /\ bound[0] <= bound[k + 1]
                      /\ Lists(f[k + 1], rank, bound[0], bound[k + 1])
    OBVIOUS
  <2>1. k + 1 \in 1 .. n /\ (k + 1) - 1 = k /\ k \in 0 .. n /\ 0 \in 0 .. n
    OBVIOUS
  <2>2. bound[0] \in Int /\ bound[k] \in Int /\ bound[k + 1] \in Int
    BY <2>1
  <2>3. bound[0] <= bound[k] /\ Lists(f[k], rank, bound[0], bound[k])
    BY <1>3, <2>1
  <2>4. bound[k] <= bound[k + 1] /\ Lists(piece[k + 1], rank, bound[k], bound[k + 1])
    BY <2>1
  <2>5. f[k + 1] = f[k] \o piece[k + 1]
    BY <1>1, <2>1
  <2>6. Lists(f[k] \o piece[k + 1], rank, bound[0], bound[k + 1])
    BY <2>2, <2>3, <2>4, ListsJoin
  <2> QED
    BY <2>2, <2>3, <2>4, <2>5, <2>6
<1>4. \A k \in Nat : k \in S
  <2>1. S \in SUBSET Nat
    OBVIOUS
  <2> HIDE DEF S
  <2> QED
    BY <1>2, <1>3, <2>1, Induction
<1> QED
  BY <1>4

\* A list serves a second rank that gives the same numbers in its range.
LEMMA ListsAgree ==
  ASSUME NEW r, NEW s, NEW low \in Int, NEW high \in Int,
         NEW list, Lists(list, r, low, high),
         \A c \in Cells : (low <= r[c] /\ r[c] < high) \/ (low <= s[c] /\ s[c] < high)
                            => r[c] = s[c]
  PROVE  Lists(list, s, low, high)
<1>1. list \in Seq(Cells)
  BY DEF Lists
<1>2. \A i \in 1 .. Len(list) : list[i] \in Cells /\ low <= r[list[i]] /\ r[list[i]] < high
  BY <1>1, ElementOfSeq DEF Lists
<1>3. \A i \in 1 .. Len(list) : r[list[i]] = s[list[i]]
  BY <1>2
<1> QED
  BY <1>1, <1>2, <1>3 DEF Lists

\* The null cell is not on the board.
LEMMA NoCellIsNoCell == \A c \in Cells : c # NoCell
BY DEF Cells, NoCell

\* The areas listed in the order of their numbers.
LEMMA OrderLists ==
  ASSUME NEW area \in SUBSET Cells, NEW rank \in [Cells -> Int],
         \A c \in Cells : rank[c] = IF c \in area THEN c ELSE NoCell
  PROVE  Lists(InOrder(area), rank, 0, NumCells)
<1> DEFINE piece == [k \in 1 .. NumCells |->
                      OnBoard(IF k - 1 \in area THEN k - 1 ELSE NoCell)]
           bound == [k \in 0 .. NumCells |-> k]
           list == CHOOSE f : f = [k \in 0 .. NumCells |->
                     IF k = 0 THEN <<>>
                     ELSE f[k - 1] \o OnBoard(IF k - 1 \in area THEN k - 1 ELSE NoCell)]
<1>1. NumCells \in Nat
  BY BoardSize
<1>2. InOrder(area) = list[NumCells]
  BY DEF InOrder
<1>3. ASSUME NEW k \in 1 .. NumCells
      PROVE  piece[k] \in Seq(Cells) /\ Lists(piece[k], rank, k - 1, k)
  <2>1. k - 1 \in Cells /\ k - 1 # NoCell
    BY <1>1, NoCellIsNoCell DEF Cells
  <2>2. \A c \in Cells : k - 1 <= rank[c] /\ rank[c] < k => c = k - 1 /\ c \in area
    BY <1>1 DEF Cells, NoCell
  <2>3. CASE k - 1 \in area
    <3>1. piece[k] = <<k - 1>>
      BY <2>1, <2>3 DEF OnBoard
    <3>2. rank[k - 1] = k - 1
      BY <2>1, <2>3
    <3> HIDE DEF piece
    <3>3. Lists(<<k - 1>>, rank, k - 1, k)
      BY <1>1, <2>1, <2>2, <3>2, ListsOne
    <3> QED
      BY <3>1, <3>3 DEF Lists
  <2>4. CASE k - 1 \notin area
    <3>1. piece[k] = <<>>
      BY <2>4 DEF OnBoard
    <3> HIDE DEF piece
    <3>2. Lists(<<>>, rank, k - 1, k)
      BY <1>1, <2>2, <2>4, ListsNothing
    <3> QED
      BY <3>1, <3>2 DEF Lists
  <2> QED
    BY <2>3, <2>4
<1>4. piece \in [1 .. NumCells -> Seq(Cells)]
  BY <1>3
<1>5. \E f : Gathers(f, NumCells, piece)
  BY <1>1, <1>4, GatheringEnds
<1>6. \A f : Gathers(f, NumCells, piece) <=>
         f = [k \in 0 .. NumCells |->
                IF k = 0 THEN <<>>
                ELSE f[k - 1] \o OnBoard(IF k - 1 \in area THEN k - 1 ELSE NoCell)]
  <2> TAKE f
  <2>1. \A k \in 0 .. NumCells :
          (IF k = 0 THEN <<>> ELSE f[k - 1] \o piece[k])
            = (IF k = 0 THEN <<>>
               ELSE f[k - 1] \o OnBoard(IF k - 1 \in area THEN k - 1 ELSE NoCell))
    <3>1. \A k \in 0 .. NumCells : k # 0 => k \in 1 .. NumCells
      OBVIOUS
    <3> QED
      BY <3>1
  <2> HIDE DEF piece
  <2> QED
    BY <2>1, Zenon DEF Gathers
<1>7. Gathers(list, NumCells, piece)
  BY <1>5, <1>6
<1>8. \A k \in 1 .. NumCells : /\ bound[k - 1] = k - 1 /\ bound[k] = k
  BY <1>1
<1>9. bound \in [0 .. NumCells -> Int] /\ bound[0] = 0 /\ bound[NumCells] = NumCells
  BY <1>1
<1>10. \A k \in 1 .. NumCells : k - 1 <= k
  BY <1>1
<1> HIDE DEF list, piece, bound
<1>11. \A k \in 1 .. NumCells : /\ bound[k - 1] <= bound[k]
                                /\ Lists(piece[k], rank, bound[k - 1], bound[k])
  BY <1>3, <1>8, <1>10
<1>12. Lists(list[NumCells], rank, bound[0], bound[NumCells])
  BY <1>1, <1>7, <1>9, <1>11, GatheredLists
<1> QED
  BY <1>2, <1>9, <1>12

\* A point: a list of one cell, of rank 0.
LEMMA PointLists ==
  ASSUME NEW anchor \in Cells, NEW rank \in [Cells -> Int],
         \A c \in Cells : rank[c] = IF c = anchor THEN 0 ELSE NoCell
  PROVE  Lists(<<anchor>>, rank, 0, 1)
<1>1. rank[anchor] = 0
  OBVIOUS
<1>2. \A c \in Cells : 0 <= rank[c] /\ rank[c] < 1 => c = anchor
  BY DEF NoCell
<1> QED
  BY <1>1, <1>2, ListsOne

\* A podium is a bar and the cell in front of it, listed last.
LEMMA PodiumLists ==
  ASSUME NEW anchor \in Cells, NEW caster \in Cells, NEW size \in Nat,
         NEW bar \in [Cells -> Int], NEW rank \in [Cells -> Int],
         \A c \in Cells : bar[c] = tbar_rank(anchor, caster, size, c),
         \A c \in Cells : rank[c] = podium_rank(anchor, caster, size, c)
  PROVE  LET d == away_dir(caster, anchor)
             list == tbar_cells(anchor, caster, size) \o OnBoard(step_cell(anchor, d))
             high == tbar_length(anchor, d, size) + 1
         IN /\ high \in Nat
            /\ Lists(list, rank, 0, high)
            /\ \A c \in Cells : rank[c] = NoCell \/ (0 <= rank[c] /\ rank[c] < high)
<1> DEFINE d == away_dir(caster, anchor)
           one == perpendicular_directions(d)[1]
           two == perpendicular_directions(d)[2]
           front == step_cell(anchor, d)
           high == tbar_length(anchor, d, size)
<1>1. /\ high \in Nat
      /\ Lists(tbar_cells(anchor, caster, size), bar, 0, high)
      /\ \A c \in Cells : bar[c] = NoCell \/ (0 <= bar[c] /\ bar[c] < high)
  BY TbarLists
<1>2. \A c \in Cells : rank[c] = IF bar[c] # NoCell THEN bar[c]
                                 ELSE IF front = c THEN high ELSE NoCell
  BY DEF podium_rank, First, CapRank
<1>3. front \in Cells => bar[front] = NoCell
  <2> SUFFICES ASSUME front \in Cells PROVE bar[front] = NoCell
    OBVIOUS
  <2>1. d \in AllDirs /\ one \in AllDirs /\ two \in AllDirs /\ d # one /\ d # two
    BY DirectionsKnown, SidesAre DEF AllDirs, Dirs
  <2>2. OnRay(anchor, d, 1, front)
    <3>1. OnRay(anchor, d, 0, anchor) /\ front # NoCell /\ Room(anchor, d) \in Nat
      BY <2>1, RayStarts, NoCellIsNoCell
    <3>2. 0 \in Nat /\ 0 + 1 = 1
      OBVIOUS
    <3>3. 0 < Room(anchor, d)
      BY <2>1, <3>1, <3>2, RayGoesOn
    <3> QED
      BY <2>1, <3>1, <3>2, <3>3, RayGoesOn
  <2> HIDE DEF d, front
  <2>3. front # anchor
    BY <2>1, <2>2, RayIsNotOrigin
  <2>4. walk_rank(anchor, one, size, front) = NoCell
    BY <2>1, <2>2, WalkRankIs, RaysApart
  <2>5. walk_rank(anchor, two, size, front) = NoCell
    BY <2>1, <2>2, WalkRankIs, RaysApart
  <2>6. bar[front] = tbar_rank(anchor, caster, size, front)
    OBVIOUS
  <2> QED
    BY <2>3, <2>4, <2>5, <2>6 DEF tbar_rank, AcrossRank, ArmRank, d
<1> HIDE DEF high, front
<1>4. Lists(tbar_cells(anchor, caster, size), rank, 0, high)
  <2>1. \A c \in Cells : (0 <= bar[c] /\ bar[c] < high) \/ (0 <= rank[c] /\ rank[c] < high)
                           => bar[c] = rank[c]
    BY <1>1, <1>2 DEF NoCell
  <2> QED
    BY <1>1, <2>1, ListsAgree
<1>5. Lists(OnBoard(front), rank, high, high + 1)
  <2>1. \A c \in Cells : high <= rank[c] /\ rank[c] < high + 1 => c = front
    BY <1>1, <1>2 DEF NoCell
  <2>2. CASE front = NoCell
    <3>1. \A c \in Cells : ~(high <= rank[c] /\ rank[c] < high + 1)
      BY <2>1, <2>2, NoCellIsNoCell
    <3>2. OnBoard(front) = <<>>
      BY <2>2 DEF OnBoard
    <3> QED
      BY <1>1, <3>1, <3>2, ListsNothing
  <2>3. CASE front # NoCell
    <3>1. front \in Cells
      BY <2>3, DirectionsKnown, Stepped DEF front, AllDirs, Dirs
    <3>2. OnBoard(front) = <<front>>
      BY <2>3 DEF OnBoard
    <3>3. rank[front] = high
      BY <1>2, <1>3, <3>1
    <3> QED
      BY <1>1, <2>1, <3>1, <3>2, <3>3, ListsOne
  <2> QED
    BY <2>2, <2>3
<1>6. Lists(tbar_cells(anchor, caster, size) \o OnBoard(front), rank, 0, high + 1)
  BY <1>1, <1>4, <1>5, ListsJoin
<1>7. \A c \in Cells : rank[c] = NoCell \/ (0 <= rank[c] /\ rank[c] < high + 1)
  BY <1>1, <1>2
<1> QED
  BY <1>1, <1>6, <1>7 DEF high, front

(***************************************************************************)
(* Cones                                                                   *)
(***************************************************************************)

\* The way back from a step.
LEMMA StepBack ==
  ASSUME NEW p \in Dirs, NEW e \in Cells, NEW c \in Cells
  PROVE  step_cell(c, opposite_dir(p)) = e <=> step_cell(e, p) = c
<1>1. /\ CellX(c) \in Nat /\ CellX(c) < GridW /\ CellY(c) \in Nat /\ CellY(c) < GridH
      /\ CellX(e) \in Nat /\ CellX(e) < GridW /\ CellY(e) \in Nat /\ CellY(e) < GridH
      /\ GridW \in Nat /\ GridH \in Nat /\ c # NoCell /\ e # NoCell
  BY Coordinates, BoardSize, NoCellIsNoCell
<1>2. CASE p = "px"
  <2>1. opposite_dir(p) = "nx"
    BY <1>2 DEF opposite_dir
  <2>2. step_cell(e, "px") = c <=> CellX(c) = CellX(e) + 1 /\ CellY(c) = CellY(e)
    BY <1>1, Stepped, SameCell
  <2>3. step_cell(c, "nx") = e <=> CellX(e) = CellX(c) - 1 /\ CellY(c) = CellY(e)
    BY <1>1, Stepped, SameCell
  <2> QED
    BY <1>1, <1>2, <2>1, <2>2, <2>3
<1>3. CASE p = "nx"
  <2>1. opposite_dir(p) = "px"
    BY <1>3 DEF opposite_dir
  <2>2. step_cell(e, "nx") = c <=> CellX(c) = CellX(e) - 1 /\ CellY(c) = CellY(e)
    BY <1>1, Stepped, SameCell
  <2>3. step_cell(c, "px") = e <=> CellX(e) = CellX(c) + 1 /\ CellY(c) = CellY(e)
    BY <1>1, Stepped, SameCell
  <2> QED
    BY <1>1, <1>3, <2>1, <2>2, <2>3
<1>4. CASE p = "py"
  <2>1. opposite_dir(p) = "ny"
    BY <1>4 DEF opposite_dir
  <2>2. step_cell(e, "py") = c <=> CellY(c) = CellY(e) + 1 /\ CellX(c) = CellX(e)
    BY <1>1, Stepped, SameCell
  <2>3. step_cell(c, "ny") = e <=> CellY(e) = CellY(c) - 1 /\ CellX(c) = CellX(e)
    BY <1>1, Stepped, SameCell
  <2> QED
    BY <1>1, <1>4, <2>1, <2>2, <2>3
<1>5. CASE p = "ny"
  <2>1. opposite_dir(p) = "py"
    BY <1>5 DEF opposite_dir
  <2>2. step_cell(e, "ny") = c <=> CellY(c) = CellY(e) - 1 /\ CellX(c) = CellX(e)
    BY <1>1, Stepped, SameCell
  <2>3. step_cell(c, "py") = e <=> CellY(e) = CellY(c) + 1 /\ CellX(c) = CellX(e)
    BY <1>1, Stepped, SameCell
  <2> QED
    BY <1>1, <1>5, <2>1, <2>2, <2>3
<1> QED
  BY <1>2, <1>3, <1>4, <1>5 DEF Dirs

\* The sides of a ray: off it, apart, and there for all of its cells or for none.
LEMMA SidesOfARay ==
  ASSUME NEW c \in Cells, NEW d \in Dirs, NEW k \in Nat, NEW e, OnRay(c, d, k, e),
         NEW p \in Dirs, p \in {perpendicular_directions(d)[1], perpendicular_directions(d)[2]}
  PROVE  /\ step_cell(e, p) \in Cells =>
              /\ \A m \in Nat : ~OnRay(c, d, m, step_cell(e, p))
              /\ \A m \in Nat : ~OnRay(c, d, m, step_cell(step_cell(e, p), p))
         /\ \A m \in Nat : \A f : OnRay(c, d, m, f) =>
              (step_cell(e, p) = NoCell <=> step_cell(f, p) = NoCell)
<1>1. e \in Cells
  BY DEF OnRay
<1>2. /\ CellX(c) \in Nat /\ CellY(c) \in Nat /\ CellX(e) \in Nat /\ CellY(e) \in Nat
      /\ GridW \in Nat /\ GridH \in Nat
  BY <1>1, Coordinates, BoardSize
<1>3. CASE d \in {"px", "nx"}
  <2>1. p \in {"py", "ny"}
    BY <1>3, SidesAre DEF AllDirs
  <2>2. \A m \in Nat : \A f : OnRay(c, d, m, f) => f \in Cells /\ CellY(f) = CellY(c)
    BY <1>3 DEF OnRay
  <2>3. ASSUME step_cell(e, p) \in Cells
        PROVE  /\ CellY(step_cell(e, p)) # CellY(c)
               /\ step_cell(step_cell(e, p), p) \in Cells =>
                    CellY(step_cell(step_cell(e, p), p)) # CellY(c)
    <3> DEFINE g == step_cell(e, p)
    <3>1. g # NoCell /\ CellY(g) \in Nat /\ CellY(e) = CellY(c)
      BY <2>2, <2>3, Coordinates, NoCellIsNoCell
    <3>2. CellY(g) = IF p = "py" THEN CellY(c) + 1 ELSE CellY(c) - 1
      BY <1>1, <2>1, <3>1, Stepped
    <3> HIDE DEF g
    <3>3. step_cell(g, p) \in Cells =>
            CellY(step_cell(g, p)) = IF p = "py" THEN CellY(g) + 1 ELSE CellY(g) - 1
      BY <2>1, <2>3, NoCellIsNoCell, Stepped DEF g
    <3> QED
      BY <1>2, <2>1, <3>1, <3>2, <3>3 DEF g
  <2>4. ASSUME NEW m \in Nat, NEW f, OnRay(c, d, m, f)
        PROVE  step_cell(e, p) = NoCell <=> step_cell(f, p) = NoCell
    <3>1. f \in Cells /\ CellY(f) = CellY(c) /\ CellY(e) = CellY(c)
      BY <2>2, <2>4
    <3>2. \A g \in Cells : step_cell(g, p) = NoCell <=>
             IF p = "py" THEN ~(CellY(g) + 1 < GridH) ELSE ~(CellY(g) >= 1)
      BY <2>1, Stepped, NoCellIsNoCell
    <3> QED
      BY <1>1, <3>1, <3>2
  <2> QED
    BY <2>2, <2>3, <2>4
<1>4. CASE d \in {"py", "ny"}
  <2>1. p \in {"px", "nx"}
    BY <1>4, SidesAre DEF AllDirs
  <2>2. \A m \in Nat : \A f : OnRay(c, d, m, f) => f \in Cells /\ CellX(f) = CellX(c)
    BY <1>4 DEF OnRay
  <2>3. ASSUME step_cell(e, p) \in Cells
        PROVE  /\ CellX(step_cell(e, p)) # CellX(c)
               /\ step_cell(step_cell(e, p), p) \in Cells =>
                    CellX(step_cell(step_cell(e, p), p)) # CellX(c)
    <3> DEFINE g == step_cell(e, p)
    <3>1. g # NoCell /\ CellX(g) \in Nat /\ CellX(e) = CellX(c)
      BY <2>2, <2>3, Coordinates, NoCellIsNoCell
    <3>2. CellX(g) = IF p = "px" THEN CellX(c) + 1 ELSE CellX(c) - 1
      BY <1>1, <2>1, <3>1, Stepped
    <3> HIDE DEF g
    <3>3. step_cell(g, p) \in Cells =>
            CellX(step_cell(g, p)) = IF p = "px" THEN CellX(g) + 1 ELSE CellX(g) - 1
      BY <2>1, <2>3, NoCellIsNoCell, Stepped DEF g
    <3> QED
      BY <1>2, <2>1, <3>1, <3>2, <3>3 DEF g
  <2>4. ASSUME NEW m \in Nat, NEW f, OnRay(c, d, m, f)
        PROVE  step_cell(e, p) = NoCell <=> step_cell(f, p) = NoCell
    <3>1. f \in Cells /\ CellX(f) = CellX(c) /\ CellX(e) = CellX(c)
      BY <2>2, <2>4
    <3>2. \A g \in Cells : step_cell(g, p) = NoCell <=>
             IF p = "px" THEN ~(CellX(g) + 1 < GridW) ELSE ~(CellX(g) >= 1)
      BY <2>1, Stepped, NoCellIsNoCell
    <3> QED
      BY <1>1, <3>1, <3>2
  <2> QED
    BY <2>2, <2>3, <2>4
<1> QED
  BY <1>3, <1>4 DEF Dirs

\* Positions in a cone: depths of at most `width` cells, the first of one cell.
LEMMA DepthsApart ==
  ASSUME NEW width \in 1 .. 3, NEW k \in Nat, NEW n \in Nat, k >= 1, n >= 1,
         NEW i \in Nat, NEW j \in Nat, i < width, j < width, k = 1 => i = 0, n = 1 => j = 0,
         cone_depth_start(k, width) + i = cone_depth_start(n, width) + j
  PROVE  k = n /\ i = j
<1>1. CASE width = 1
  BY <1>1 DEF cone_depth_start
<1>2. CASE width = 2
  BY <1>2 DEF cone_depth_start
<1>3. CASE width = 3
  BY <1>3 DEF cone_depth_start
<1> QED
  BY <1>1, <1>2, <1>3

\* The depths of a cone take adjacent ranges of ranks: one for the first, a width for others.
LEMMA DepthsFollow ==
  ASSUME NEW width \in 1 .. 3, NEW k \in Nat, k >= 1
  PROVE  /\ cone_depth_start(k, width) \in Nat
         /\ cone_depth_start(k + 1, width) =
              cone_depth_start(k, width) + IF k = 1 THEN 1 ELSE width
<1>1. CASE width = 1
  BY <1>1 DEF cone_depth_start
<1>2. CASE width = 2
  BY <1>2 DEF cone_depth_start
<1>3. CASE width = 3
  BY <1>3 DEF cone_depth_start
<1> QED
  BY <1>1, <1>2, <1>3

\* Whether a direction across has a cell at the first step of the ray.
SideOf(caster, d, p) == OneIf(step_cell(step_cell(caster, d), p))
\* The cells of a depth of a cone: the one on the ray and its sides.
WidthOf(caster, d) == 1 + SideOf(caster, d, perpendicular_directions(d)[1])
                        + SideOf(caster, d, perpendicular_directions(d)[2])

\* c is the j-th cell of a cone at the depth k.
InCone(caster, d, k, j, c) ==
    \/ j = 0 /\ OnRay(caster, d, k, c)
    \/ /\ k >= 2 /\ j = 1
       /\ \E e \in Cells : /\ OnRay(caster, d, k, e)
                           /\ step_cell(e, perpendicular_directions(d)[1]) = c
    \/ /\ k >= 2 /\ j = 1 + SideOf(caster, d, perpendicular_directions(d)[1])
       /\ \E e \in Cells : /\ OnRay(caster, d, k, e)
                           /\ step_cell(e, perpendicular_directions(d)[2]) = c

\* A step leads to a cell or off the board.
LEMMA StepsOn ==
  ASSUME NEW c \in Cells, NEW d \in AllDirs
  PROVE  step_cell(c, d) \in Cells \/ step_cell(c, d) = NoCell
BY Stepped DEF AllDirs, Dirs

\* The first step along a ray leads to its cell at the distance 1, if there is room.
LEMMA FirstOnRay ==
  ASSUME NEW c \in Cells, NEW d \in AllDirs
  PROVE  IF Room(c, d) = 0 THEN step_cell(c, d) = NoCell ELSE OnRay(c, d, 1, step_cell(c, d))
<1>1. OnRay(c, d, 0, c) /\ Room(c, d) \in Nat
  BY RayStarts
<1>2. 0 \in Nat /\ 0 + 1 = 1
  OBVIOUS
<1> QED
  BY <1>1, <1>2, RayGoesOn

\* A side counts for one when the board has it.
LEMMA SidesCount ==
  ASSUME NEW caster, NEW d, NEW p
  PROVE  SideOf(caster, d, p) \in {0, 1}
BY DEF SideOf, OneIf

\* A depth of a cone has one to three cells.
LEMMA WidthFits ==
  ASSUME NEW caster, NEW d
  PROVE  WidthOf(caster, d) \in 1 .. 3
BY SidesCount DEF WidthOf

\* A ray has a side cell at every step, or at none.
LEMMA SidesAllAlong ==
  ASSUME NEW caster \in Cells, NEW d \in Dirs, step_cell(caster, d) # NoCell,
         NEW k \in Nat, NEW e, OnRay(caster, d, k, e),
         NEW p \in {perpendicular_directions(d)[1], perpendicular_directions(d)[2]}
  PROVE  IF SideOf(caster, d, p) = 1 THEN step_cell(e, p) \in Cells
                                      ELSE step_cell(e, p) = NoCell
<1>1. p \in Dirs /\ d \in AllDirs /\ p \in AllDirs
  BY SidesAre DEF AllDirs, Dirs
<1>2. OnRay(caster, d, 1, step_cell(caster, d))
  BY <1>1, FirstOnRay
<1>3. step_cell(e, p) = NoCell <=> step_cell(step_cell(caster, d), p) = NoCell
  BY <1>1, <1>2, SidesOfARay, 1 \in Nat
<1>4. e \in Cells
  BY DEF OnRay
<1> QED
  BY <1>1, <1>3, <1>4, StepsOn DEF SideOf, OneIf

\* The two directions across are opposite.
LEMMA OppositeSides ==
  ASSUME NEW d \in Dirs
  PROVE  LET perp == perpendicular_directions(d)
         IN /\ perp[1] \in Dirs /\ perp[2] \in Dirs
            /\ opposite_dir(perp[1]) = perp[2] /\ opposite_dir(perp[2]) = perp[1]
BY SidesAre DEF opposite_dir, AllDirs, Dirs

\* The rank of a cell of a cone, from where it lies.
LEMMA ConeRankIs ==
  ASSUME NEW anchor \in Cells, NEW caster \in Cells, NEW size \in Nat, NEW c \in Cells,
         NEW d \in Dirs, d = away_dir(caster, anchor), step_cell(caster, d) # NoCell
  PROVE  LET width == WidthOf(caster, d)
             rank == cone_rank(anchor, caster, size, c)
         IN /\ \A k \in 1 .. size, j \in Nat :
                 InCone(caster, d, k, j, c) => rank = cone_depth_start(k, width) + j
            /\ \/ rank = NoCell
               \/ \E k \in 1 .. size, j \in Nat :
                    /\ InCone(caster, d, k, j, c)
                    /\ j < width /\ (k = 1 => j = 0)
                    /\ rank = cone_depth_start(k, width) + j
<1> DEFINE width == WidthOf(caster, d)
           rank == cone_rank(anchor, caster, size, c)
           one == perpendicular_directions(d)[1]
           two == perpendicular_directions(d)[2]
           sideOne == SideOf(caster, d, one)
           sideTwo == SideOf(caster, d, two)
           centre == walk_rank(caster, d, size, c)
           near == step_cell(c, two)
           far == step_cell(c, one)
           depthOne == IF near = NoCell THEN NoCell ELSE walk_rank(caster, d, size, near)
           depthTwo == IF far = NoCell THEN NoCell ELSE walk_rank(caster, d, size, far)
           rankOne == IF depthOne >= 2 THEN cone_depth_start(depthOne, width) + 1 ELSE NoCell
           rankTwo == IF depthTwo >= 2
                      THEN cone_depth_start(depthTwo, width) + (1 + sideOne) ELSE NoCell
<1>1. /\ one \in Dirs /\ two \in Dirs /\ d \in AllDirs /\ one \in AllDirs /\ two \in AllDirs
      /\ opposite_dir(one) = two /\ opposite_dir(two) = one
  BY OppositeSides DEF AllDirs
<1>2. /\ width \in 1 .. 3 /\ width = 1 + sideOne + sideTwo
      /\ sideOne \in {0, 1} /\ sideTwo \in {0, 1}
  BY WidthFits, SidesCount DEF WidthOf
<1>3. rank = IF centre # NoCell THEN cone_depth_start(centre, width)
             ELSE IF size < 2 THEN NoCell
             ELSE IF rankOne # NoCell THEN rankOne ELSE rankTwo
  <2>1. rank = ConeRank(caster, d, perpendicular_directions(d), size, c, centre, sideOne, sideTwo)
    BY DEF cone_rank, ConeToward, ConeFrom, SideOf
  <2>2. rankOne = cone_side_rank(caster, d, one, size, c, 1 + sideOne + sideTwo, 1)
    BY <1>1, <1>2 DEF cone_side_rank, SideRank, SideDepth
  <2>3. rankTwo = cone_side_rank(caster, d, two, size, c, 1 + sideOne + sideTwo, 1 + sideOne)
    BY <1>1, <1>2 DEF cone_side_rank, SideRank, SideDepth
  <2> HIDE DEF rank, centre, sideOne, sideTwo, rankOne, rankTwo, width
  <2> QED
    BY <1>2, <2>1, <2>2, <2>3 DEF ConeRank, First, one, two
<1>4. \/ centre \in 1 .. size /\ OnRay(caster, d, centre, c)
      \/ centre = NoCell /\ \A k \in 1 .. size : ~OnRay(caster, d, k, c)
  BY <1>1, WalkRankIs
<1>5. near \in Cells \/ near = NoCell
  BY <1>1, StepsOn
<1>6. far \in Cells \/ far = NoCell
  BY <1>1, StepsOn
<1>7. \/ near \in Cells /\ depthOne \in 1 .. size /\ OnRay(caster, d, depthOne, near)
      \/ /\ depthOne = NoCell
         /\ near \in Cells => \A k \in 1 .. size : ~OnRay(caster, d, k, near)
  <2>1. CASE near \in Cells
    <3>1. depthOne = walk_rank(caster, d, size, near)
      BY <2>1, NoCellIsNoCell
    <3> HIDE DEF near, depthOne
    <3> QED
      BY <1>1, <2>1, <3>1, WalkRankIs
  <2>2. CASE near = NoCell
    BY <2>2, NoCellIsNoCell
  <2> QED
    BY <1>5, <2>1, <2>2
<1>8. \/ far \in Cells /\ depthTwo \in 1 .. size /\ OnRay(caster, d, depthTwo, far)
      \/ /\ depthTwo = NoCell
         /\ far \in Cells => \A k \in 1 .. size : ~OnRay(caster, d, k, far)
  <2>1. CASE far \in Cells
    <3>1. depthTwo = walk_rank(caster, d, size, far)
      BY <2>1, NoCellIsNoCell
    <3> HIDE DEF far, depthTwo
    <3> QED
      BY <1>1, <2>1, <3>1, WalkRankIs
  <2>2. CASE far = NoCell
    BY <2>2, NoCellIsNoCell
  <2> QED
    BY <1>6, <2>1, <2>2
<1> HIDE DEF depthOne, depthTwo, width, rank, sideOne, sideTwo
<1>9. \A e \in Cells : near = e <=> step_cell(e, one) = c
  BY <1>1, StepBack
<1>10. \A e \in Cells : far = e <=> step_cell(e, two) = c
  BY <1>1, StepBack
<1>11. ASSUME NEW k \in 1 .. size, OnRay(caster, d, k, c)
       PROVE  rank = cone_depth_start(k, width)
  <2>1. centre = k
    BY <1>1, <1>4, <1>11, RayCountsSteps
  <2>2. k # NoCell
    BY DEF NoCell
  <2> HIDE DEF centre
  <2> QED
    BY <1>3, <2>1, <2>2
<1>12. ASSUME NEW k \in 2 .. size, NEW e \in Cells, OnRay(caster, d, k, e), step_cell(e, one) = c
       PROVE  rank = cone_depth_start(k, width) + 1
  <2>1. near = e
    BY <1>9, <1>12
  <2>2. depthOne = k
    BY <1>1, <1>7, <1>12, <2>1, RayCountsSteps
  <2>3. \A m \in Nat : ~OnRay(caster, d, m, c)
    BY <1>1, <1>12, SidesOfARay
  <2>4. centre = NoCell
    BY <1>4, <2>3
  <2>5. cone_depth_start(k, width) \in Nat
    <3>1. k \in Nat /\ k >= 1
      OBVIOUS
    <3> QED
      BY <1>2, <3>1, DepthsFollow
  <2> HIDE DEF centre
  <2> QED
    BY <1>3, <2>2, <2>4, <2>5 DEF NoCell
<1>13. ASSUME NEW k \in 2 .. size, NEW e \in Cells, OnRay(caster, d, k, e), step_cell(e, two) = c
       PROVE  rank = cone_depth_start(k, width) + (1 + sideOne)
  <2>1. far = e
    BY <1>10, <1>13
  <2>2. depthTwo = k
    BY <1>1, <1>8, <1>13, <2>1, RayCountsSteps
  <2>3. \A m \in Nat : ~OnRay(caster, d, m, c) /\ ~OnRay(caster, d, m, near)
    BY <1>1, <1>13, SidesOfARay
  <2>4. centre = NoCell
    BY <1>4, <2>3
  <2>5. depthOne = NoCell
    BY <1>7, <2>3
  <2>6. cone_depth_start(k, width) \in Nat
    <3>1. k \in Nat /\ k >= 1
      OBVIOUS
    <3> QED
      BY <1>2, <3>1, DepthsFollow
  <2> HIDE DEF centre
  <2> QED
    BY <1>2, <1>3, <2>2, <2>4, <2>5, <2>6 DEF NoCell
<1>14. ASSUME NEW k \in 1 .. size, NEW j \in Nat, InCone(caster, d, k, j, c)
       PROVE  rank = cone_depth_start(k, width) + j
  <2>1. cone_depth_start(k, width) \in Nat
    BY <1>2, DepthsFollow
  <2>2. CASE j = 0 /\ OnRay(caster, d, k, c)
    BY <1>11, <2>1, <2>2
  <2>3. CASE k >= 2 /\ j = 1 /\ \E e \in Cells : OnRay(caster, d, k, e) /\ step_cell(e, one) = c
    BY <1>12, <2>3
  <2>4. CASE /\ k >= 2 /\ j = 1 + sideOne
             /\ \E e \in Cells : OnRay(caster, d, k, e) /\ step_cell(e, two) = c
    BY <1>13, <2>4
  <2> QED
    BY <1>14, <2>2, <2>3, <2>4 DEF InCone, sideOne
<1>15. ASSUME rank # NoCell
       PROVE  \E k \in 1 .. size, j \in Nat :
                /\ InCone(caster, d, k, j, c)
                /\ j < width /\ (k = 1 => j = 0)
                /\ rank = cone_depth_start(k, width) + j
  <2>1. CASE centre # NoCell
    <3>1. InCone(caster, d, centre, 0, c) /\ centre \in 1 .. size
      BY <1>4, <2>1 DEF InCone
    <3>2. cone_depth_start(centre, width) \in Nat
      BY <1>2, <3>1, DepthsFollow
    <3>3. rank = cone_depth_start(centre, width) + 0
      BY <1>3, <2>1, <3>2
    <3> HIDE DEF centre
    <3> QED
      BY <1>2, <3>1, <3>3
  <2>2. CASE centre = NoCell /\ rankOne # NoCell
    <3>1. depthOne >= 2 /\ rank = cone_depth_start(depthOne, width) + 1
      BY <1>3, <1>15, <2>2
    <3>2. depthOne \in 2 .. size /\ near \in Cells /\ OnRay(caster, d, depthOne, near)
      BY <1>7, <3>1 DEF NoCell
    <3>3. step_cell(near, one) = c
      BY <1>9, <3>2
    <3>4. InCone(caster, d, depthOne, 1, c)
      BY <3>2, <3>3 DEF InCone
    <3>5. sideOne = 1
      BY <1>1, <1>2, <3>2, <3>3, SidesAllAlong, NoCellIsNoCell DEF sideOne
    <3>6. 1 < width /\ depthOne # 1 /\ depthOne \in 1 .. size /\ 1 \in Nat
      BY <1>2, <3>2, <3>5
    <3> QED
      BY <3>1, <3>4, <3>6
  <2>3. CASE centre = NoCell /\ rankOne = NoCell
    <3>1. rank = rankTwo /\ rankTwo # NoCell
      BY <1>3, <1>15, <2>3
    <3>2. depthTwo >= 2 /\ rank = cone_depth_start(depthTwo, width) + (1 + sideOne)
      BY <3>1
    <3>3. depthTwo \in 2 .. size /\ far \in Cells /\ OnRay(caster, d, depthTwo, far)
      BY <1>8, <3>2 DEF NoCell
    <3>4. step_cell(far, two) = c
      BY <1>10, <3>3
    <3>5. InCone(caster, d, depthTwo, 1 + sideOne, c)
      BY <3>3, <3>4 DEF InCone, sideOne
    <3>6. sideTwo = 1
      BY <1>1, <1>2, <3>3, <3>4, SidesAllAlong, NoCellIsNoCell DEF sideTwo
    <3>7. 1 + sideOne < width /\ depthTwo # 1 /\ depthTwo \in 1 .. size /\ 1 + sideOne \in Nat
      BY <1>2, <3>3, <3>6
    <3> QED
      BY <3>2, <3>5, <3>7
  <2> QED
    BY <2>1, <2>2, <2>3
<1> QED
  BY <1>14, <1>15 DEF rank, width

\* One side cell of a depth, listed when the board has it.
LEMMA SideLists ==
  ASSUME NEW rank \in [Cells -> Int], NEW low \in Int, NEW side \in {0, 1},
         NEW to, IF side = 1 THEN to \in Cells ELSE to = NoCell,
         to \in Cells => rank[to] = low,
         \A c \in Cells : rank[c] = low => to = c
  PROVE  Lists(OnBoard(to), rank, low, low + side)
<1>1. \A c \in Cells : low <= rank[c] /\ rank[c] < low + side => side = 1 /\ c = to
  OBVIOUS
<1>2. CASE side = 1
  <2>1. OnBoard(to) = <<to>>
    BY <1>2, NoCellIsNoCell DEF OnBoard
  <2> QED
    BY <1>1, <1>2, <2>1, ListsOne
<1>3. CASE side = 0
  <2>1. OnBoard(to) = <<>>
    BY <1>3 DEF OnBoard
  <2>2. \A c \in Cells : ~(low <= rank[c] /\ rank[c] < low + side)
    BY <1>1, <1>3
  <2> QED
    BY <1>3, <2>1, <2>2, ListsNothing
<1> QED
  BY <1>2, <1>3

\* One depth of a cone: the cell of the ray, then its sides.
LEMMA DepthLists ==
  ASSUME NEW anchor \in Cells, NEW caster \in Cells, NEW size \in Nat,
         NEW d \in Dirs, d = away_dir(caster, anchor), step_cell(caster, d) # NoCell,
         NEW rank \in [Cells -> Int],
         \A c \in Cells : rank[c] = cone_rank(anchor, caster, size, c),
         NEW n \in 1 .. size, NEW e, OnRay(caster, d, n, e)
  PROVE  LET perp == perpendicular_directions(d)
             width == WidthOf(caster, d)
         IN Lists(IF n = 1 THEN <<e>>
                  ELSE <<e>> \o OnBoard(step_cell(e, perp[1])) \o OnBoard(step_cell(e, perp[2])),
                  rank, cone_depth_start(n, width), cone_depth_start(n + 1, width))
<1> DEFINE width == WidthOf(caster, d)
           one == perpendicular_directions(d)[1]
           two == perpendicular_directions(d)[2]
           sideOne == SideOf(caster, d, one)
           sideTwo == SideOf(caster, d, two)
           low == cone_depth_start(n, width)
           In(k, j, c) == InCone(caster, d, k, j, c)
<1>1. /\ width \in 1 .. 3 /\ width = 1 + sideOne + sideTwo
      /\ sideOne \in {0, 1} /\ sideTwo \in {0, 1}
  BY WidthFits, SidesCount DEF WidthOf
<1>2. e \in Cells /\ n \in Nat /\ n >= 1 /\ d \in AllDirs
  BY DEF OnRay, AllDirs
<1>3. low \in Int /\ cone_depth_start(n + 1, width) = low + IF n = 1 THEN 1 ELSE width
  BY <1>1, <1>2, DepthsFollow
<1> HIDE DEF width, one, two, low, In
<1>4. \A c \in Cells, k \in 1 .. size, j \in Nat :
        In(k, j, c) => rank[c] = cone_depth_start(k, width) + j
  BY ConeRankIs DEF width, In
<1>5. ASSUME NEW c \in Cells, NEW i \in Nat, i < width, n = 1 => i = 0, rank[c] = low + i
      PROVE  In(n, i, c)
  <2>1. rank[c] # NoCell
    <3>1. low \in Nat
      BY <1>1, <1>2, DepthsFollow DEF low
    <3> QED
      BY <1>5, <3>1 DEF NoCell
  <2>2. PICK k \in 1 .. size, j \in Nat : /\ In(k, j, c) /\ j < width /\ (k = 1 => j = 0)
                                          /\ rank[c] = cone_depth_start(k, width) + j
    BY <2>1, ConeRankIs DEF width, In
  <2>3. cone_depth_start(k, width) + j = cone_depth_start(n, width) + i /\ k \in Nat /\ k >= 1
    BY <1>5, <2>2 DEF low
  <2>4. k = n /\ i = j
    BY <1>1, <1>2, <1>5, <2>2, <2>3, DepthsApart
  <2> QED
    BY <2>2, <2>4
<1>6. rank[e] = low
  <2>1. In(n, 0, e)
    BY <1>2 DEF In, InCone
  <2> QED
    BY <1>2, <1>3, <1>4, <2>1 DEF low
<1>7. Lists(<<e>>, rank, low, low + 1)
  <2>1. ASSUME NEW c \in Cells, low <= rank[c], rank[c] < low + 1 PROVE c = e
    <3>1. rank[c] = low + 0
      BY <1>3, <2>1
    <3>2. In(n, 0, c)
      BY <1>1, <1>5, <3>1
    <3>3. OnRay(caster, d, n, c)
      BY <1>1, <3>2 DEF In, InCone, one
    <3> QED
      BY <1>2, <3>3, RayIsOneCell
  <2> QED
    BY <1>2, <1>3, <1>6, <2>1, ListsOne
<1>8. CASE n = 1
  BY <1>3, <1>7, <1>8 DEF low, width
<1>9. CASE n # 1
  <2> DEFINE toOne == step_cell(e, one)
             toTwo == step_cell(e, two)
             midOne == low + 1
             midTwo == low + (1 + sideOne)
  <2>1. /\ IF sideOne = 1 THEN toOne \in Cells ELSE toOne = NoCell
        /\ IF sideTwo = 1 THEN toTwo \in Cells ELSE toTwo = NoCell
    BY <1>2, SidesAllAlong DEF one, two
  <2>2. n >= 2
    BY <1>2, <1>9
  <2>3. /\ \A c \in Cells : toOne = c => In(n, 1, c)
        /\ \A c \in Cells : toTwo = c => In(n, 1 + sideOne, c)
    BY <1>2, <2>2 DEF In, InCone, one, two
  <2>4. ASSUME NEW c \in Cells, In(n, 1, c), sideOne = 1 PROVE toOne = c
    <3>1. \E g \in Cells : OnRay(caster, d, n, g) /\ step_cell(g, one) = c
      BY <2>4 DEF In, InCone, one
    <3> QED
      BY <1>2, <3>1, RayIsOneCell
  <2>5. ASSUME NEW c \in Cells, In(n, 1 + sideOne, c), sideTwo = 1 PROVE toTwo = c
    <3>1. CASE \E g \in Cells : OnRay(caster, d, n, g) /\ step_cell(g, two) = c
      BY <1>2, <3>1, RayIsOneCell
    <3>2. CASE /\ 1 + sideOne = 1
               /\ \E g \in Cells : OnRay(caster, d, n, g) /\ step_cell(g, one) = c
      <4>1. toOne = c
        BY <1>2, <3>2, RayIsOneCell
      <4> QED
        BY <1>1, <2>1, <3>2, <4>1, NoCellIsNoCell
    <3> QED
      BY <1>1, <2>5, <3>1, <3>2 DEF In, InCone, one, two
  <2>6. \A c \in Cells : rank[c] = midOne /\ sideOne = 1 => toOne = c
    <3>1. 1 \in Nat /\ (sideOne = 1 => 1 < width)
      BY <1>1
    <3> QED
      BY <1>5, <1>9, <2>4, <3>1
  <2>7. \A c \in Cells : rank[c] = midTwo /\ sideTwo = 1 => toTwo = c
    <3>1. 1 + sideOne \in Nat /\ (sideTwo = 1 => 1 + sideOne < width)
      BY <1>1
    <3> QED
      BY <1>5, <1>9, <2>5, <3>1
  <2>8. toOne \in Cells => rank[toOne] = midOne
    BY <1>2, <1>4, <2>3, 1 \in Nat DEF low
  <2>9. toTwo \in Cells => rank[toTwo] = midTwo
    <3>1. 1 + sideOne \in Nat
      BY <1>1
    <3> QED
      BY <1>2, <1>4, <2>3, <3>1 DEF low
  <2> HIDE DEF toOne, toTwo, sideOne, sideTwo
  <2>10. Lists(OnBoard(toOne), rank, midOne, midOne + sideOne)
    <3>1. CASE sideOne = 1
      BY <1>3, <2>1, <2>6, <2>8, <3>1, SideLists
    <3>2. CASE sideOne = 0
      <4>1. OnBoard(toOne) = <<>>
        BY <2>1, <3>2 DEF OnBoard
      <4>2. midOne \in Int /\ midOne + sideOne = midOne
        BY <1>3, <3>2
      <4>3. \A c \in Cells : ~(midOne <= rank[c] /\ rank[c] < midOne)
        BY <4>2
      <4> HIDE DEF midOne
      <4> QED
        BY <4>1, <4>2, <4>3, ListsNothing
    <3> QED
      BY <1>1, <3>1, <3>2
  <2>11. Lists(OnBoard(toTwo), rank, midTwo, midTwo + sideTwo)
    <3> midTwo \in Int
      BY <1>1, <1>3
    <3> HIDE DEF midTwo
    <3>1. CASE sideTwo = 1
      BY <2>1, <2>7, <2>9, <3>1, SideLists
    <3>2. CASE sideTwo = 0
      <4>1. OnBoard(toTwo) = <<>>
        BY <2>1, <3>2 DEF OnBoard
      <4>2. midTwo + sideTwo = midTwo
        BY <3>2
      <4>3. \A c \in Cells : ~(midTwo <= rank[c] /\ rank[c] < midTwo)
        OBVIOUS
      <4> QED
        BY <4>1, <4>2, <4>3, ListsNothing
    <3> QED
      BY <1>1, <3>1, <3>2
  <2>12. /\ midOne \in Int /\ midTwo \in Int /\ midOne + sideOne = midTwo
         /\ midTwo + sideTwo = low + width
         /\ low <= midOne /\ midOne <= midTwo /\ midTwo <= low + width
         /\ low + width \in Int /\ low <= midTwo
    BY <1>1, <1>3
  <2>13. Lists(<<e>>, rank, low, midOne)
    BY <1>7
  <2> HIDE DEF midOne, midTwo
  <2>14. Lists(<<e>> \o OnBoard(toOne), rank, low, midTwo)
    BY <1>3, <2>10, <2>12, <2>13, ListsJoin
  <2>15. Lists((<<e>> \o OnBoard(toOne)) \o OnBoard(toTwo), rank, low, low + width)
    BY <1>3, <2>11, <2>12, <2>14, ListsJoin
  <2> QED
    BY <1>3, <1>9, <2>15 DEF low, width, toOne, toTwo, one, two
<1> QED
  BY <1>8, <1>9

\* A cone that has no first cell has no cell at all.
LEMMA NoConeLists ==
  ASSUME NEW anchor \in Cells, NEW caster \in Cells, NEW size \in Nat,
         step_cell(caster, away_dir(caster, anchor)) = NoCell
  PROVE  /\ cone_cells(anchor, caster, size) = <<>>
         /\ \A c \in Cells : cone_rank(anchor, caster, size, c) = NoCell
<1> DEFINE d == away_dir(caster, anchor)
           spine == walk_direction(caster, d, size)
           perp == perpendicular_directions(d)
           row(c) == <<c>> \o OnBoard(step_cell(c, perp[1])) \o OnBoard(step_cell(c, perp[2]))
           Is(f) == f = [n \in 0 .. Len(spine) |->
                           IF n = 0 THEN <<>>
                           ELSE f[n - 1] \o IF n = 1 THEN <<spine[n]>> ELSE row(spine[n])]
           cells == CHOOSE f : Is(f)
<1>1. d \in AllDirs
  BY DirectionsKnown
<1>2. Room(caster, d) = 0
  <2>1. OnRay(caster, d, 1, step_cell(caster, d)) => step_cell(caster, d) \in Cells
    BY DEF OnRay
  <2> QED
    BY <1>1, <2>1, FirstOnRay, NoCellIsNoCell
<1>3. Len(spine) = 0
  <2>1. WalksRay(spine, caster, d, size)
    BY <1>1, WalkIs
  <2> HIDE DEF spine
  <2> QED
    BY <1>2, <2>1 DEF WalksRay
<1>4. cone_cells(anchor, caster, size) = cells[Len(spine)]
  BY DEF cone_cells
<1>5. Is([n \in 0 .. 0 |-> <<>>])
  <2> HIDE DEF spine, row
  <2> QED
    BY <1>3
<1>6. Is(cells)
  <2> HIDE DEF Is
  <2> QED
    BY <1>5
<1>7. cells[0] = <<>>
  <2> HIDE DEF spine, row, cells
  <2> QED
    BY <1>3, <1>6
<1>8. \A c \in Cells : cone_rank(anchor, caster, size, c) = NoCell
  BY DEF cone_rank, ConeToward, ConeFrom
<1> HIDE DEF cells
<1> QED
  BY <1>3, <1>4, <1>7, <1>8

\* A cone: its list has the cells of cone_rank in their order, depth by depth.
LEMMA ConeLists ==
  ASSUME NEW anchor \in Cells, NEW caster \in Cells, NEW size \in Nat,
         NEW rank \in [Cells -> Int],
         \A c \in Cells : rank[c] = cone_rank(anchor, caster, size, c)
  PROVE  \E high \in Nat :
           /\ Lists(cone_cells(anchor, caster, size), rank, 0, high)
           /\ \A c \in Cells : rank[c] = NoCell \/ (0 <= rank[c] /\ rank[c] < high)
<1> DEFINE d == away_dir(caster, anchor)
           spine == walk_direction(caster, d, size)
           perp == perpendicular_directions(d)
           width == WidthOf(caster, d)
           part(n) == IF n = 1 THEN <<spine[n]>>
                      ELSE <<spine[n]>> \o OnBoard(step_cell(spine[n], perp[1]))
                                        \o OnBoard(step_cell(spine[n], perp[2]))
           length == Len(spine)
           piece == [n \in 1 .. length |-> part(n)]
           bound == [n \in 0 .. length |-> cone_depth_start(n + 1, width)]
           cells == CHOOSE f : f = [n \in 0 .. length |->
                                      IF n = 0 THEN <<>> ELSE f[n - 1] \o part(n)]
<1>1. CASE step_cell(caster, d) = NoCell
  <2>1. cone_cells(anchor, caster, size) = <<>> /\ \A c \in Cells : rank[c] = NoCell
    BY <1>1, NoConeLists
  <2>2. Lists(<<>>, rank, 0, 0)
    BY <2>1, ListsNothing
  <2> QED
    BY <2>1, <2>2
<1>2. CASE step_cell(caster, d) # NoCell
  <2>1. d \in Dirs /\ d \in AllDirs
    BY <1>2, DirectionsKnown, Stepped DEF AllDirs
  <2>2. /\ length \in Nat /\ length <= size
        /\ length = (IF size <= Room(caster, d) THEN size ELSE Room(caster, d))
        /\ \A n \in 1 .. length : OnRay(caster, d, n, spine[n])
    <3>1. WalksRay(spine, caster, d, size) /\ Room(caster, d) \in Nat
      BY <2>1, WalkIs, RayStarts
    <3> HIDE DEF spine
    <3> QED
      BY <3>1 DEF WalksRay
  <2>3. cone_cells(anchor, caster, size) = cells[length]
    BY DEF cone_cells
  <2>4. width \in 1 .. 3
    BY WidthFits
  <2> HIDE DEF width, spine, length, d
  <2>5. ASSUME NEW n \in 1 .. length
        PROVE  /\ Lists(part(n), rank, cone_depth_start(n, width), cone_depth_start(n + 1, width))
               /\ cone_depth_start(n, width) \in Int
               /\ cone_depth_start(n, width) <= cone_depth_start(n + 1, width)
    <3>1. n \in 1 .. size /\ n \in Nat /\ n >= 1
      BY <2>2
    <3>2. OnRay(caster, d, n, spine[n])
      BY <2>2
    <3>3. Lists(part(n), rank, cone_depth_start(n, width), cone_depth_start(n + 1, width))
      BY <1>2, <2>1, <3>1, <3>2, DepthLists DEF d, width
    <3> QED
      BY <2>4, <3>1, <3>3, DepthsFollow
  <2> HIDE DEF part
  <2>6. piece \in [1 .. length -> Seq(Cells)]
    BY <2>5 DEF Lists
  <2>7. \E f : Gathers(f, length, piece)
    BY <2>2, <2>6, GatheringEnds
  <2>8. \A f : Gathers(f, length, piece) <=>
           f = [n \in 0 .. length |-> IF n = 0 THEN <<>> ELSE f[n - 1] \o part(n)]
    <3> TAKE f
    <3>1. \A n \in 0 .. length : (IF n = 0 THEN <<>> ELSE f[n - 1] \o piece[n])
                                   = (IF n = 0 THEN <<>> ELSE f[n - 1] \o part(n))
      <4>1. \A n \in 0 .. length : n # 0 => n \in 1 .. length
        OBVIOUS
      <4> QED
        BY <4>1
    <3> HIDE DEF piece
    <3> QED
      BY <3>1, Zenon DEF Gathers
  <2>9. Gathers(cells, length, piece)
    BY <2>7, <2>8
  <2>10. /\ bound \in [0 .. length -> Int] /\ bound[0] = 0
         /\ bound[length] = cone_depth_start(length + 1, width)
    <3>1. \A n \in 0 .. length : cone_depth_start(n + 1, width) \in Nat
      BY <2>2, <2>4, DepthsFollow
    <3>2. cone_depth_start(0 + 1, width) = 0
      BY DEF cone_depth_start
    <3> QED
      BY <2>2, <3>1, <3>2
  <2>11. ASSUME NEW n \in 1 .. length
         PROVE  /\ bound[n - 1] = cone_depth_start(n, width)
                /\ bound[n] = cone_depth_start(n + 1, width) /\ piece[n] = part(n)
    <3>1. n - 1 \in 0 .. length /\ (n - 1) + 1 = n /\ n \in 0 .. length
      BY <2>2
    <3> QED
      BY <3>1
  <2> HIDE DEF cells, piece, bound
  <2>12. \A n \in 1 .. length : /\ bound[n - 1] <= bound[n]
                                /\ Lists(piece[n], rank, bound[n - 1], bound[n])
    BY <2>5, <2>11
  <2>13. Lists(cells[length], rank, bound[0], bound[length])
    BY <2>2, <2>9, <2>10, <2>12, GatheredLists
  <2>14. cone_depth_start(length + 1, width) \in Nat
    BY <2>2, <2>4, DepthsFollow
  <2>15. ASSUME NEW c \in Cells
         PROVE  rank[c] = NoCell \/ (0 <= rank[c] /\ rank[c] < cone_depth_start(length + 1, width))
    <3> SUFFICES ASSUME rank[c] # NoCell
                 PROVE  0 <= rank[c] /\ rank[c] < cone_depth_start(length + 1, width)
      OBVIOUS
    <3>1. PICK k \in 1 .. size, j \in Nat :
                 /\ InCone(caster, d, k, j, c) /\ j < width /\ (k = 1 => j = 0)
                 /\ rank[c] = cone_depth_start(k, width) + j
      BY <1>2, <2>1, ConeRankIs DEF d, width
    <3>2. k \in Nat /\ k >= 1 /\ k <= length
      <4>1. \E e \in Cells : OnRay(caster, d, k, e)
        BY <3>1 DEF InCone
      <4>2. k <= Room(caster, d)
        BY <2>1, <4>1, RayGoesOn
      <4> QED
        BY <2>2, <4>2
    <3>3. cone_depth_start(k, width) \in Nat
      BY <2>4, <3>2, DepthsFollow
    <3>4. cone_depth_start(k, width) + j < cone_depth_start(length + 1, width)
      <4>1. CASE width = 1
        BY <2>2, <3>1, <3>2, <4>1 DEF cone_depth_start
      <4>2. CASE width = 2
        BY <2>2, <3>1, <3>2, <4>2 DEF cone_depth_start
      <4>3. CASE width = 3
        BY <2>2, <3>1, <3>2, <4>3 DEF cone_depth_start
      <4> QED
        BY <2>4, <4>1, <4>2, <4>3
    <3> QED
      BY <3>1, <3>3, <3>4
  <2> QED
    BY <2>3, <2>10, <2>13, <2>14, <2>15
<1> QED
  BY <1>1, <1>2

\* What the two enumerations of a shape agree on: a list and the ranks in it.
Agree(list, rank) ==
    /\ ToSet(list) = {c \in Cells : rank[c] # NoCell}
    /\ \A i, j \in DOMAIN list : i < j => rank[list[i]] < rank[list[j]]

\* The ranks are integers: along a direction,
LEMMA WalkRankIsInt ==
  ASSUME NEW c \in Cells, NEW d \in AllDirs, NEW size \in Nat, NEW e \in Cells
  PROVE  walk_rank(c, d, size, e) \in Int
BY WalkRankIs DEF NoCell

\* in a bar,
LEMMA TbarRankIsInt ==
  ASSUME NEW anchor \in Cells, NEW caster \in Cells, NEW size \in Nat, NEW c \in Cells
  PROVE  tbar_rank(anchor, caster, size, c) \in Int
<1> DEFINE d == away_dir(caster, anchor)
           one == perpendicular_directions(d)[1]
           two == perpendicular_directions(d)[2]
<1>1. one \in AllDirs /\ two \in AllDirs
  BY DirectionsKnown, SidesAre DEF AllDirs, Dirs
<1>2. /\ walk_rank(anchor, one, size, c) \in Int /\ walk_rank(anchor, two, size, c) \in Int
      /\ walk_capacity(anchor, one, size) \in Int
  <2>1. \A p \in AllDirs : /\ walk_rank(anchor, p, size, c) \in Int
                          /\ walk_capacity(anchor, p, size) \in Int
    BY WalkRankIsInt, CapacityIs
  <2> HIDE DEF one, two
  <2> QED
    BY <1>1, <2>1
<1> QED
  BY <1>2 DEF tbar_rank, AcrossRank, ArmRank, NoCell

\* and in a cone.
LEMMA ConeRankIsInt ==
  ASSUME NEW anchor \in Cells, NEW caster \in Cells, NEW size \in Nat, NEW c \in Cells
  PROVE  cone_rank(anchor, caster, size, c) \in Int
<1> DEFINE d == away_dir(caster, anchor)
           width == WidthOf(caster, d)
<1>1. CASE step_cell(caster, d) = NoCell
  BY <1>1, NoConeLists DEF NoCell
<1>2. CASE step_cell(caster, d) # NoCell
  <2>1. d \in Dirs
    BY <1>2, DirectionsKnown, Stepped DEF AllDirs
  <2>2. \/ cone_rank(anchor, caster, size, c) = NoCell
        \/ \E k \in 1 .. size, j \in Nat :
             cone_rank(anchor, caster, size, c) = cone_depth_start(k, width) + j
    BY <1>2, <2>1, ConeRankIs
  <2>3. \A k \in 1 .. size : cone_depth_start(k, width) \in Nat
    <3> TAKE k \in 1 .. size
    <3>1. k \in Nat /\ k >= 1 /\ width \in 1 .. 3
      BY WidthFits
    <3> QED
      BY <3>1, DepthsFollow
  <2> HIDE DEF width
  <2> QED
    BY <2>2, <2>3 DEF NoCell
<1> QED
  BY <1>1, <1>2

\* Shape by shape, zone_cells lists what zone_rank ranks.
LEMMA AreasAgree ==
  ASSUME NEW anchor \in Cells, NEW caster \in Cells, NEW size \in Nat, NEW shape \in Shapes
  PROVE  Agree(zone_cells(shape, size, anchor, caster),
               [c \in Cells |-> zone_rank(shape, size, anchor, caster, c)])
<1> DEFINE list == zone_cells(shape, size, anchor, caster)
           rank == [c \in Cells |-> zone_rank(shape, size, anchor, caster, c)]
           d == away_dir(caster, anchor)
<1>1. d \in AllDirs
  BY DirectionsKnown
<1>2. ASSUME NEW r \in [Cells -> Int], NEW l, NEW high \in Int, Lists(l, r, 0, high),
             \A c \in Cells : r[c] = NoCell \/ (0 <= r[c] /\ r[c] < high)
      PROVE  Agree(l, r)
  BY <1>2, AreaLists DEF Agree
<1>3. CASE shape = "point"
  <2>1. list = <<anchor>> /\ \A c \in Cells : rank[c] = IF c = anchor THEN 0 ELSE NoCell
    BY <1>3 DEF zone_cells, zone_rank
  <2>2. rank \in [Cells -> Int]
    BY <2>1 DEF NoCell
  <2> HIDE DEF list, rank
  <2>3. Lists(<<anchor>>, rank, 0, 1)
    BY <2>1, <2>2, PointLists
  <2>4. \A c \in Cells : rank[c] = NoCell \/ (0 <= rank[c] /\ rank[c] < 1)
    BY <2>1
  <2>5. Agree(list, rank)
    BY <1>2, <2>1, <2>2, <2>3, <2>4
  <2> QED
    BY <2>5 DEF list, rank
<1>4. CASE shape = "line"
  <2>1. /\ list = <<anchor>> \o walk_direction(anchor, d, size)
        /\ \A c \in Cells : rank[c] = line_rank(anchor, caster, size, c)
    BY <1>4 DEF zone_cells, zone_rank
  <2>2. rank \in [Cells -> Int]
    <3>1. \A c \in Cells : rank[c] \in Int
      BY <1>1, <2>1, WalkRankIsInt DEF line_rank
    <3> QED
      BY <3>1
  <2> HIDE DEF list, rank
  <2>3. /\ Lists(list, rank, 0, size + 1)
        /\ \A c \in Cells : rank[c] = NoCell \/ (0 <= rank[c] /\ rank[c] < size + 1)
    BY <2>1, <2>2, LineLists
  <2>4. Agree(list, rank)
    BY <1>2, <2>2, <2>3
  <2> QED
    BY <2>4 DEF list, rank
<1>5. CASE shape = "tbar"
  <2>1. /\ list = tbar_cells(anchor, caster, size)
        /\ \A c \in Cells : rank[c] = tbar_rank(anchor, caster, size, c)
    BY <1>5 DEF zone_cells, zone_rank
  <2>2. rank \in [Cells -> Int]
    <3>1. \A c \in Cells : rank[c] \in Int
      BY <2>1, TbarRankIsInt
    <3> QED
      BY <3>1
  <2> HIDE DEF list, rank
  <2>3. PICK high \in Nat : /\ Lists(list, rank, 0, high)
                            /\ \A c \in Cells : rank[c] = NoCell \/ (0 <= rank[c] /\ rank[c] < high)
    BY <2>1, <2>2, TbarLists
  <2>4. Agree(list, rank)
    BY <1>2, <2>2, <2>3
  <2> QED
    BY <2>4 DEF list, rank
<1>6. CASE shape = "podium"
  <2> DEFINE bar == [c \in Cells |-> tbar_rank(anchor, caster, size, c)]
  <2>1. /\ list = tbar_cells(anchor, caster, size) \o OnBoard(step_cell(anchor, d))
        /\ \A c \in Cells : rank[c] = podium_rank(anchor, caster, size, c)
    BY <1>6 DEF zone_cells, zone_rank
  <2>2. bar \in [Cells -> Int] /\ \A c \in Cells : bar[c] = tbar_rank(anchor, caster, size, c)
    BY TbarRankIsInt
  <2>3. rank \in [Cells -> Int]
    <3>1. tbar_length(anchor, d, size) \in Nat
      BY <2>2, TbarLists
    <3>2. \A c \in Cells : rank[c] \in Int
      BY <2>1, <2>2, <3>1 DEF podium_rank, First, CapRank, NoCell
    <3> QED
      BY <3>2
  <2> HIDE DEF list, rank, bar
  <2> DEFINE high == tbar_length(anchor, d, size) + 1
  <2>4. /\ high \in Nat /\ Lists(list, rank, 0, high)
        /\ \A c \in Cells : rank[c] = NoCell \/ (0 <= rank[c] /\ rank[c] < high)
    BY <2>1, <2>2, <2>3, PodiumLists
  <2> HIDE DEF high
  <2>5. Agree(list, rank)
    BY <1>2, <2>3, <2>4
  <2> QED
    BY <2>5 DEF list, rank
<1>7. CASE shape = "cone"
  <2>1. /\ list = cone_cells(anchor, caster, size)
        /\ \A c \in Cells : rank[c] = cone_rank(anchor, caster, size, c)
    BY <1>7 DEF zone_cells, zone_rank
  <2>2. rank \in [Cells -> Int]
    <3>1. \A c \in Cells : rank[c] \in Int
      BY <2>1, ConeRankIsInt
    <3> QED
      BY <3>1
  <2> HIDE DEF list, rank
  <2>3. PICK high \in Nat : /\ Lists(list, rank, 0, high)
                            /\ \A c \in Cells : rank[c] = NoCell \/ (0 <= rank[c] /\ rank[c] < high)
    BY <2>1, <2>2, ConeLists
  <2>4. Agree(list, rank)
    BY <1>2, <2>2, <2>3
  <2> QED
    BY <2>4 DEF list, rank
<1>8. CASE shape \notin {"point", "line", "tbar", "podium", "cone"}
  <2> DEFINE area == {c \in Cells : in_zone(shape, size, anchor, c)}
  <2>1. /\ list = InOrder(area)
        /\ \A c \in Cells : rank[c] = IF in_zone(shape, size, anchor, c) THEN c ELSE NoCell
    BY <1>8 DEF zone_cells, zone_rank
  <2>2. area \in SUBSET Cells /\ \A c \in Cells : rank[c] = IF c \in area THEN c ELSE NoCell
    BY <2>1
  <2>3. rank \in [Cells -> Int]
    <3>1. \A c \in Cells : rank[c] \in Int
      BY <2>2 DEF Cells, NoCell
    <3> QED
      BY <3>1
  <2> HIDE DEF list, rank, area
  <2>4. Lists(list, rank, 0, NumCells)
    BY <2>1, <2>2, <2>3, OrderLists
  <2>5. \A c \in Cells : rank[c] = NoCell \/ (0 <= rank[c] /\ rank[c] < NumCells)
    BY <2>2, BoardSize DEF Cells
  <2>6. NumCells \in Int
    BY BoardSize
  <2>7. Agree(list, rank)
    BY <1>2, <2>3, <2>4, <2>5, <2>6
  <2> QED
    BY <2>7 DEF list, rank
<1> QED
  BY <1>3, <1>4, <1>5, <1>6, <1>7, <1>8

\* The three rules of the board hold of whatever is asked.
LEMMA ShapesAgreeWhenAsked ==
  ASSUME WellAsked
  PROVE  ShapesAgree
<1>1. AreaRanksAgree
  <2> SUFFICES ASSUME asked.kind = "area" PROVE AreaRanksAgree
    BY DEF AreaRanksAgree
  <2> DEFINE list == zone_cells(asked.shape, asked.size, asked.anchor, asked.caster)
             rank == [c \in Cells |-> zone_rank(asked.shape, asked.size, asked.anchor,
                                                asked.caster, c)]
  <2>1. /\ asked.anchor \in Cells /\ asked.caster \in Cells
        /\ asked.shape \in Shapes /\ asked.size \in Nat
    BY Bounds DEF WellAsked
  <2>2. Agree(list, rank)
    BY <2>1, AreasAgree
  <2>3. \A c \in Cells : rank[c] = zone_rank(asked.shape, asked.size, asked.anchor,
                                             asked.caster, c)
    OBVIOUS
  <2> HIDE DEF list, rank
  <2>4. \A i \in DOMAIN list : list[i] \in Cells
    BY <2>2 DEF Agree, ToSet
  <2>5. /\ ToSet(list) = {c \in Cells : zone_rank(asked.shape, asked.size, asked.anchor,
                                                  asked.caster, c) # NoCell}
        /\ \A i, j \in DOMAIN list : i < j =>
             zone_rank(asked.shape, asked.size, asked.anchor, asked.caster, list[i])
               < zone_rank(asked.shape, asked.size, asked.anchor, asked.caster, list[j])
    BY <2>2, <2>3, <2>4 DEF Agree
  <2> QED
    BY <2>5 DEF AreaRanksAgree, list
<1>2. SightIsMutual
  <2> SUFFICES ASSUME asked.kind = "sight" PROVE SightIsMutual
    BY DEF SightIsMutual
  <2>1. asked.from \in Cells /\ asked.to \in Cells /\ asked.body \in Cells
    BY DEF WellAsked
  <2> QED
    BY <2>1, SightFromEitherEnd DEF SightIsMutual
<1>3. PushLeavesPullNears
  <2> SUFFICES ASSUME asked.kind = "sight", asked.from # asked.to PROVE PushLeavesPullNears
    BY DEF PushLeavesPullNears
  <2>1. asked.from \in Cells /\ asked.to \in Cells
    BY DEF WellAsked
  <2> QED
    BY <2>1, PushAndPull DEF PushLeavesPullNears
<1> QED
  BY <1>1, <1>2, <1>3 DEF ShapesAgree

\* The order in which a spell takes the cells of its area (zone_rank) is the order in
\* which the preview lists them (zone_cells), a body that blocks the sight of one cell
\* from another blocks it the other way, and pushes and pulls change the distance by
\* one step: for every board, shape, size and pair of cells.
THEOREM ShapesMeanTheSame == CalcSpec => []ShapesAgree
  BY EverWellAsked, ShapesAgreeWhenAsked, PTL

(***************************************************************************)
(* Floods                                                                  *)
(***************************************************************************)
\* CalcNext to is mutual.
LEMMA NeighboursMutual ==
  ASSUME NEW c \in Cells, NEW d \in Cells
  PROVE  d \in neighbours(c) <=> c \in neighbours(d)
<1>1. /\ CellX(c) \in Nat /\ CellY(c) \in Nat /\ CellX(d) \in Nat /\ CellY(d) \in Nat
  BY Coordinates
<1> QED
  BY <1>1 DEF neighbours, manhattan, AbsDiff

\* The layers of a flood after n rounds: each is what lies next to the one before
\* and was not reached yet; it goes on until a layer is empty.
Layered(s, n, seeds, walls) ==
    /\ s \in Seq(SUBSET Cells) /\ Len(s) \in 1 .. n + 1 /\ s[1] = seeds
    /\ Len(s) = n + 1 \/ s[Len(s)] = {}
    /\ \A i \in 1 .. Len(s) : i < Len(s) => s[i] # {}
    /\ \A i \in 2 .. Len(s), c \in Cells :
         c \in s[i] <=> /\ \E e \in s[i - 1] : c \in neighbours(e)
                       /\ c \notin walls /\ \A j \in 1 .. i - 1 : c \notin s[j]

\* A round of the flood adds the next layer.
LEMMA NextLayer ==
  ASSUME NEW n \in Nat, NEW s, NEW seeds, NEW walls, Layered(s, n, seeds, walls)
  PROVE  LET next == (UNION {neighbours(c) : c \in Last(s)}) \ (walls \cup UNION ToSet(s))
         IN IF Last(s) = {} THEN Layered(s, n + 1, seeds, walls)
            ELSE Layered(Append(s, next), n + 1, seeds, walls)
<1> DEFINE near == UNION {neighbours(c) : c \in Last(s)}
           before == UNION ToSet(s)
           next == near \ (walls \cup before)
           m == Len(s)
           t == Append(s, next)
<1>1. s \in Seq(SUBSET Cells) /\ m \in Nat /\ m >= 1 /\ m <= n + 1 /\ s[1] = seeds
  BY DEF Layered
<1>2. DOMAIN s = 1 .. m /\ Last(s) = s[m] /\ ToSet(s) = {s[j] : j \in 1 .. m}
  BY <1>1, LenProperties DEF Last, ToSet
<1>3. CASE Last(s) = {}
  BY <1>1, <1>2, <1>3 DEF Layered
<1>4. ASSUME Last(s) # {} PROVE Layered(t, n + 1, seeds, walls)
  <2>1. m = n + 1
    <3>1. m = n + 1 \/ s[m] = {}
      BY DEF Layered
    <3> QED
      BY <1>2, <1>4, <3>1, Zenon
  <2>2. next \in SUBSET Cells
    BY DEF neighbours
  <2>3. \A c \in Cells :
          c \in next <=> /\ \E e \in s[m] : c \in neighbours(e)
                        /\ c \notin walls /\ \A j \in 1 .. m : c \notin s[j]
    <3> TAKE c \in Cells
    <3>1. c \in near <=> \E e \in s[m] : c \in neighbours(e)
      BY <1>2
    <3>2. c \in before <=> \E j \in 1 .. m : c \in s[j]
      BY <1>2
    <3> HIDE DEF near, before
    <3> QED
      BY <3>1, <3>2
  <2>4. s[m] # {}
    BY <1>2, <1>4
  <2> HIDE DEF next
  <2>5. /\ t \in Seq(SUBSET Cells) /\ Len(t) = m + 1
        /\ \A i \in 1 .. m + 1 : t[i] = IF i <= m THEN s[i] ELSE next
    BY <1>1, <2>2, AppendProperties
  <2> HIDE DEF t
  <2>6. \A i \in 1 .. m : t[i] = s[i]
    BY <1>1, <2>5
  <2>7. t[m + 1] = next
    BY <1>1, <2>5
  <2>8. ASSUME NEW i \in 1 .. m + 1, i < m + 1 PROVE t[i] # {}
    <3>1. i \in 1 .. m /\ t[i] = s[i]
      BY <1>1, <2>6, <2>8
    <3>2. i < m => s[i] # {}
      BY <3>1 DEF Layered
    <3> QED
      BY <1>1, <2>4, <3>1, <3>2
  <2>9. ASSUME NEW i \in 2 .. m + 1, NEW c \in Cells
        PROVE  c \in t[i] <=> /\ \E e \in t[i - 1] : c \in neighbours(e)
                             /\ c \notin walls /\ \A j \in 1 .. i - 1 : c \notin t[j]
    <3>1. i - 1 \in 1 .. m /\ \A j \in 1 .. i - 1 : j \in 1 .. m
      BY <1>1
    <3>2. t[i - 1] = s[i - 1] /\ \A j \in 1 .. i - 1 : t[j] = s[j]
      BY <2>6, <3>1
    <3>3. CASE i = m + 1
      <4>1. i - 1 = m
        BY <1>1, <3>3
      <4> QED
        BY <2>3, <2>7, <3>2, <3>3, <4>1
    <3>4. CASE i # m + 1
      <4>1. i \in 2 .. m /\ i \in 1 .. m
        BY <1>1, <3>4
      <4>2. t[i] = s[i]
        BY <2>6, <4>1
      <4> QED
        BY <3>2, <4>1, <4>2 DEF Layered
    <3> QED
      BY <3>3, <3>4
  <2>10. m + 1 \in 1 .. (n + 1) + 1 /\ m + 1 = (n + 1) + 1
    BY <1>1, <2>1
  <2>11. t[1] = seeds
    BY <1>1, <2>6
  <2> QED
    BY <2>5, <2>8, <2>9, <2>10, <2>11 DEF Layered
<1>5. IF Last(s) = {} THEN Layered(s, n + 1, seeds, walls) ELSE Layered(t, n + 1, seeds, walls)
  BY <1>3, <1>4
<1> QED
  BY <1>5

\* So the frontiers of a flood are its layers.
LEMMA FrontiersAre ==
  ASSUME NEW seeds \in SUBSET Cells, NEW walls, NEW rounds \in Nat
  PROVE  Layered(Frontiers(seeds, walls, rounds), rounds, seeds, walls)
<1> DEFINE V == Seq(SUBSET Cells)
           next(w) == IF Last(w) = {} THEN w
                      ELSE Append(w, (UNION {neighbours(c) : c \in Last(w)})
                                       \ (walls \cup UNION ToSet(w)))
           step == [n \in Nat |-> [w \in V |-> next(w)]]
           Is(f) == f = [n \in 0 .. rounds |-> IF n = 0 THEN <<seeds>> ELSE next(f[n - 1])]
           flood == CHOOSE f : Is(f)
<1>1. Frontiers(seeds, walls, rounds) = flood[rounds]
  BY DEF Frontiers
<1>2. \A w \in V : next(w) \in V
  <2> TAKE w \in V
  <2>1. (UNION {neighbours(c) : c \in Last(w)}) \ (walls \cup UNION ToSet(w)) \in SUBSET Cells
    BY DEF neighbours
  <2> QED
    BY <2>1, AppendProperties
<1>3. ASSUME NEW k \in Nat, NEW w, Layered(w, k, seeds, walls)
      PROVE  Layered(next(w), k + 1, seeds, walls)
  BY <1>3, NextLayer
<1>4. Layered(<<seeds>>, 0, seeds, walls)
  <2>1. <<seeds>> \in Seq(SUBSET Cells) /\ Len(<<seeds>>) = 1 /\ <<seeds>>[1] = seeds
    OBVIOUS
  <2>2. \A i \in 2 .. 1 : FALSE
    OBVIOUS
  <2>3. \A i \in 1 .. 1 : ~(i < 1)
    OBVIOUS
  <2> QED
    BY <2>1, <2>2, <2>3 DEF Layered
<1> HIDE DEF next
<1>5. step \in [Nat -> [V -> V]] /\ \A n \in Nat, w \in V : step[n][w] = next(w)
  BY <1>2
<1>6. <<seeds>> \in V
  OBVIOUS
<1> HIDE DEF step, V
<1>7. PICK f : Unfolds(f, V, <<seeds>>, step, rounds)
  BY <1>5, <1>6, Recursion
<1>8. Is(f)
  <2>1. ASSUME NEW n \in 1 .. rounds PROVE f[n] = next(f[n - 1])
    <3>1. f[n - 1] \in V /\ n \in Nat /\ f[n] = step[n][f[n - 1]]
      BY <1>7 DEF Unfolds
    <3> QED
      BY <1>5, <3>1
  <2>2. f = [n \in 0 .. rounds |-> f[n]] /\ f[0] = <<seeds>>
    BY <1>7 DEF Unfolds
  <2>3. \A n \in 0 .. rounds : n # 0 => n \in 1 .. rounds
    OBVIOUS
  <2>4. \A n \in 0 .. rounds : f[n] = IF n = 0 THEN <<seeds>> ELSE next(f[n - 1])
    BY <2>1, <2>2, <2>3
  <2> QED
    BY <2>2, <2>4, Zenon
<1>9. Is(flood)
  <2> HIDE DEF Is
  <2> QED
    BY <1>8
<1> HIDE DEF flood
<1> DEFINE T == {n \in Nat : n <= rounds => Layered(flood[n], n, seeds, walls)}
<1>10. \A n \in Nat : n \in T
  <2>1. 0 \in T
    BY <1>4, <1>9
  <2>2. ASSUME NEW n \in Nat, n \in T PROVE n + 1 \in T
    <3> SUFFICES ASSUME n + 1 <= rounds PROVE Layered(flood[n + 1], n + 1, seeds, walls)
      OBVIOUS
    <3>1. Layered(flood[n], n, seeds, walls)
      BY <2>2
    <3>2. flood[n + 1] = next(flood[n])
      BY <1>9
    <3> QED
      BY <1>3, <3>1, <3>2
  <2>3. T \in SUBSET Nat
    OBVIOUS
  <2> HIDE DEF T
  <2> QED
    BY <2>1, <2>2, <2>3, Induction
<1> QED
  BY <1>1, <1>10

\* What a flood of R rounds makes of the board: the seeds are at 0, a cell at n + 1
\* lies next to one at n, and what lies next to a cell before the last round is
\* numbered at most one more, unless it is a wall.
Flooded(D, seeds, walls, R) ==
    /\ D \in [Cells -> Nat]
    /\ \A c \in Cells : D[c] <= NumCells
    /\ \A c \in Cells : D[c] < NumCells => D[c] <= R /\ c \notin walls
    /\ \A c \in Cells : D[c] = 0 <=> c \in seeds
    /\ \A c \in Cells : 0 < D[c] /\ D[c] < NumCells =>
         \E e \in neighbours(c) : D[e] = D[c] - 1
    /\ \A c \in Cells : D[c] < NumCells /\ D[c] < R =>
         \A e \in neighbours(c) : e \notin walls => D[e] <= D[c] + 1 /\ D[e] < NumCells

\* The layers share no cell, so there are no more of them than cells.
LEMMA LayersApart ==
  ASSUME NEW n, NEW s, NEW seeds, NEW walls, Layered(s, n, seeds, walls),
         NEW i \in 1 .. Len(s), NEW j \in 1 .. Len(s), i < j, NEW c \in s[i]
  PROVE  c \notin s[j]
<1>1. Len(s) \in Nat
  BY LenProperties DEF Layered
<1>2. j \in 2 .. Len(s) /\ i \in 1 .. j - 1
  BY <1>1
<1>3. s[i] \in SUBSET Cells
  BY ElementOfSeq DEF Layered
<1> QED
  BY <1>2, <1>3 DEF Layered

\* Layers share no cell, so there are no more of them than cells.
LEMMA LayersAreFew ==
  ASSUME NEW n, NEW s, NEW seeds, NEW walls, Layered(s, n, seeds, walls),
         NEW i \in 1 .. Len(s), s[i] # {}
  PROVE  i <= NumCells
<1> DEFINE pick == [k \in 1 .. i |-> CHOOSE c \in Cells : c \in s[k]]
<1>1. Len(s) \in Nat /\ s \in Seq(SUBSET Cells)
  BY LenProperties DEF Layered
<1>2. \A k \in 1 .. i : s[k] # {} /\ s[k] \subseteq Cells /\ k \in 1 .. Len(s)
  <2> TAKE k \in 1 .. i
  <2>1. k \in 1 .. Len(s) /\ (k < Len(s) \/ k = i)
    BY <1>1
  <2>2. s[k] \in SUBSET Cells
    BY <1>1, <2>1, ElementOfSeq
  <2> QED
    BY <2>1, <2>2 DEF Layered
<1>3. \A k \in 1 .. i : pick[k] \in Cells /\ pick[k] \in s[k]
  BY <1>2
<1> HIDE DEF pick
<1>4. \A k, m \in 1 .. i : pick[k] = pick[m] => k = m
  <2> SUFFICES ASSUME NEW k \in 1 .. i, NEW m \in 1 .. i, pick[k] = pick[m], k < m
               PROVE  FALSE
    OBVIOUS
  <2>1. pick[k] \in s[k] /\ pick[k] \in s[m]
    BY <1>3
  <2>2. k \in 1 .. Len(s) /\ m \in 1 .. Len(s)
    BY <1>2
  <2> QED
    BY <2>1, <2>2, LayersApart
<1>5. pick \in Injection(1 .. i, Cells)
  <2>1. pick \in [1 .. i -> Cells]
    BY <1>3 DEF pick
  <2> QED
    BY <1>4, <2>1 DEF Injection, IsInjective
<1>6. IsFiniteSet(Cells) /\ Cardinality(Cells) = NumCells
  <2>1. 0 \in Int /\ NumCells - 1 \in Int /\ NumCells \in Nat \ {0}
    BY BoardSize
  <2>2. IsFiniteSet(0 .. NumCells - 1)
        /\ Cardinality(0 .. NumCells - 1) =
             IF 0 > NumCells - 1 THEN 0 ELSE (NumCells - 1) - 0 + 1
    BY <2>1, FS_Interval
  <2> QED
    BY <2>1, <2>2 DEF Cells
<1>7. i \in Nat /\ Cardinality(1 .. i) = i
  <2>1. i \in Nat /\ i >= 1 /\ 1 \in Int
    OBVIOUS
  <2>2. Cardinality(1 .. i) = IF 1 > i THEN 0 ELSE i - 1 + 1
    BY <2>1, FS_Interval
  <2> QED
    BY <2>1, <2>2
<1>8. Cardinality(1 .. i) <= Cardinality(Cells)
  BY <1>5, <1>6, FS_Injection
<1> QED
  BY <1>6, <1>7, <1>8

\* Numbered turns the layers into a field with the properties of a flood.
LEMMA LayersFlood ==
  ASSUME NEW R \in Nat, NEW s, NEW seeds \in SUBSET Cells, NEW walls, seeds \cap walls = {},
         Layered(s, R, seeds, walls)
  PROVE  Flooded(Numbered(s), seeds, walls, R)
<1> DEFINE D == Numbered(s)
           m == Len(s)
           In(c) == \E i \in 1 .. m : c \in s[i]
<1>1. /\ s \in Seq(SUBSET Cells) /\ m \in Nat /\ m >= 1 /\ m <= R + 1
      /\ DOMAIN s = 1 .. m /\ NumCells \in Nat /\ NumCells >= 1
  BY LenProperties, BoardSize DEF Layered
<1> HIDE DEF m
<1>2. ASSUME NEW c \in Cells, NEW i \in 1 .. m, c \in s[i]
      PROVE  D[c] = i - 1 /\ i <= NumCells
  <2>1. \A j \in 1 .. m : c \in s[j] => j = i
    BY <1>1, <1>2, LayersApart DEF m
  <2>2. (CHOOSE j \in DOMAIN s : c \in s[j]) = i
    BY <1>1, <1>2, <2>1
  <2>3. i <= NumCells
    BY <1>2, LayersAreFew DEF m
  <2> QED
    BY <1>1, <1>2, <2>2, <2>3 DEF Numbered
<1>3. \A c \in Cells : ~In(c) => D[c] = NumCells
  BY <1>1 DEF Numbered
<1>4. \A c \in Cells : In(c) => D[c] \in Nat /\ D[c] < NumCells /\ D[c] <= R
  BY <1>1, <1>2
<1>5. \A c \in Cells, i \in 1 .. m : D[c] = i - 1 /\ D[c] < NumCells => c \in s[i]
  BY <1>1, <1>2, <1>3
<1>6. D \in [Cells -> Nat]
  <2>1. \A c \in Cells : D[c] \in Nat
    BY <1>1, <1>3, <1>4
  <2> QED
    BY <2>1 DEF Numbered
<1> HIDE DEF D
<1>7. s[1] = seeds /\ 1 \in 1 .. m
  BY <1>1 DEF Layered
<1>8. \A i \in 2 .. m, c \in Cells :
         c \in s[i] <=> /\ \E e \in s[i - 1] : c \in neighbours(e)
                       /\ c \notin walls /\ \A j \in 1 .. i - 1 : c \notin s[j]
  BY DEF Layered, m
<1>9. ASSUME NEW c \in Cells, D[c] < NumCells
      PROVE  D[c] <= R /\ c \notin walls /\ D[c] + 1 \in 1 .. m /\ c \in s[D[c] + 1]
  <2>1. PICK i \in 1 .. m : c \in s[i]
    BY <1>1, <1>3, <1>9
  <2>2. D[c] = i - 1
    BY <1>2, <2>1
  <2>3. i = 1 \/ i \in 2 .. m
    BY <1>1
  <2>4. c \notin walls
    <3>1. CASE i = 1
      BY <1>7, <2>1, <3>1
    <3>2. CASE i \in 2 .. m
      BY <1>8, <2>1, <3>2
    <3> QED
      BY <2>3, <3>1, <3>2
  <2> QED
    BY <1>1, <2>1, <2>2, <2>4
<1>10. ASSUME NEW c \in Cells PROVE D[c] = 0 <=> c \in seeds
  <2>1. c \in seeds => D[c] = 1 - 1
    BY <1>2, <1>7
  <2>2. D[c] = 0 => c \in s[1]
    BY <1>1, <1>5, <1>7
  <2> QED
    BY <1>7, <2>1, <2>2
<1>11. ASSUME NEW c \in Cells, 0 < D[c], D[c] < NumCells
       PROVE  \E e \in neighbours(c) : D[e] = D[c] - 1
  <2> DEFINE i == D[c] + 1
  <2>1. i \in 2 .. m /\ c \in s[i] /\ i - 1 = D[c] /\ D[c] \in 1 .. m
    BY <1>1, <1>6, <1>9, <1>11
  <2>2. PICK e \in s[i - 1] : c \in neighbours(e)
    BY <1>8, <2>1
  <2>3. e \in Cells
    BY <1>1, <2>1, <2>2, ElementOfSeq DEF m
  <2>4. e \in neighbours(c)
    BY <2>2, <2>3, NeighboursMutual
  <2>5. D[e] = D[c] - 1
    BY <1>2, <2>1, <2>2, <2>3
  <2> QED
    BY <2>4, <2>5
<1>12. ASSUME NEW c \in Cells, D[c] < NumCells, D[c] < R,
              NEW e \in neighbours(c), e \notin walls
       PROVE  D[e] <= D[c] + 1 /\ D[e] < NumCells
  <2> DEFINE i == D[c] + 1
  <2>1. i \in 1 .. m /\ c \in s[i] /\ D[c] \in Nat
    BY <1>6, <1>9, <1>12
  <2>2. i < m
    <3>1. CASE i = m
      <4>1. m < R + 1
        BY <1>1, <1>12, <2>1, <3>1
      <4>2. m = R + 1 \/ s[m] = {}
        BY DEF Layered, m
      <4>3. s[m] = {}
        BY <1>1, <4>1, <4>2
      <4> QED
        BY <2>1, <3>1, <4>3
    <3> QED
      BY <1>1, <2>1, <3>1
  <2>3. i + 1 \in 2 .. m /\ (i + 1) - 1 = i
    BY <1>1, <2>1, <2>2
  <2>4. e \in Cells
    BY DEF neighbours
  <2>5. e \in s[i + 1] <=> /\ \E g \in s[i] : e \in neighbours(g)
                          /\ e \notin walls /\ \A j \in 1 .. i : e \notin s[j]
    BY <1>8, <2>3, <2>4
  <2> HIDE DEF i
  <2>6. e \in s[i + 1] \/ \E j \in 1 .. i : e \in s[j]
    BY <1>12, <2>1, <2>5
  <2>7. \E j \in 1 .. m : j <= i + 1 /\ e \in s[j]
    BY <1>1, <2>1, <2>3, <2>6
  <2>8. PICK j \in 1 .. m : j <= i + 1 /\ e \in s[j]
    BY <2>7
  <2>9. D[e] = j - 1 /\ D[e] < NumCells
    BY <1>1, <1>2, <2>4, <2>8
  <2> QED
    BY <2>1, <2>8, <2>9 DEF i
<1>13. \A c \in Cells : D[c] <= NumCells
  BY <1>1, <1>3, <1>4, <1>6 DEF D
<1> QED
  BY <1>6, <1>9, <1>10, <1>11, <1>12, <1>13 DEF Flooded, D

\* What FloodField computes is a flood.
LEMMA FloodFills ==
  ASSUME NEW R \in Nat, NEW walls, NEW seeds \in SUBSET Cells, seeds \cap walls = {}
  PROVE  Flooded(FloodField(seeds, walls, R), seeds, walls, R)
BY FrontiersAre, LayersFlood DEF FloodField

(***************************************************************************)
(* Walks                                                                   *)
(***************************************************************************)

\* A walk of n steps from a to c, on free cells.
Leads(w, a, c, n, walls) ==
    /\ w \in [0 .. n -> Cells \ walls] /\ w[0] = a /\ w[n] = c
    /\ \A i \in 1 .. n : w[i] \in neighbours(w[i - 1])

\* There is a walk of n steps from a to c.
Linked(a, c, n, walls) == \E w : Leads(w, a, c, n, walls)

\* A walk can be walked back.
LEMMA LinkedBack ==
  ASSUME NEW a, NEW c, NEW n \in Nat, NEW walls, Linked(a, c, n, walls)
  PROVE  Linked(c, a, n, walls)
<1>1. PICK w : Leads(w, a, c, n, walls)
  BY DEF Linked
<1> DEFINE back == [i \in 0 .. n |-> w[n - i]]
<1>2. \A i \in 0 .. n : n - i \in 0 .. n
  OBVIOUS
<1>3. \A i \in 0 .. n : w[i] \in Cells \ walls
  BY <1>1 DEF Leads
<1>4. back \in [0 .. n -> Cells \ walls]
  BY <1>2, <1>3
<1>5. back[0] = c /\ back[n] = a
  BY <1>1 DEF Leads
<1>6. ASSUME NEW i \in 1 .. n PROVE back[i] \in neighbours(back[i - 1])
  <2> DEFINE k == n - (i - 1)
  <2>1. k \in 1 .. n /\ k - 1 = n - i /\ k \in 0 .. n /\ k - 1 \in 0 .. n
        /\ i \in 0 .. n /\ i - 1 \in 0 .. n
    OBVIOUS
  <2>2. back[i] = w[k - 1] /\ back[i - 1] = w[k]
    BY <2>1
  <2> HIDE DEF back, k
  <2>3. w[k] \in neighbours(w[k - 1])
    BY <1>1, <2>1 DEF Leads
  <2>4. w[k] \in Cells /\ w[k - 1] \in Cells
    BY <1>3, <2>1
  <2> QED
    BY <2>2, <2>3, <2>4, NeighboursMutual
<1>7. Leads(back, c, a, n, walls)
  BY <1>4, <1>5, <1>6 DEF Leads
<1> QED
  BY <1>7 DEF Linked

\* A walk can be walked one step on.
LEMMA LinkedOn ==
  ASSUME NEW a, NEW c, NEW n \in Nat, NEW walls, Linked(a, c, n, walls),
         NEW e \in Cells \ walls, e \in neighbours(c)
  PROVE  Linked(a, e, n + 1, walls)
<1>1. PICK w : Leads(w, a, c, n, walls)
  BY DEF Linked
<1> DEFINE on == [i \in 0 .. n + 1 |-> IF i = n + 1 THEN e ELSE w[i]]
<1>2. \A i \in 0 .. n : w[i] \in Cells \ walls
  BY <1>1 DEF Leads
<1>3. \A i \in 0 .. n : on[i] = w[i]
  OBVIOUS
<1>4. on[n + 1] = e
  OBVIOUS
<1>5. on \in [0 .. n + 1 -> Cells \ walls]
  BY <1>2
<1> HIDE DEF on
<1>6. ASSUME NEW i \in 1 .. n + 1 PROVE on[i] \in neighbours(on[i - 1])
  <2>1. CASE i = n + 1
    <3>1. i - 1 = n /\ n \in 0 .. n
      BY <2>1
    <3>2. w[n] = c
      BY <1>1 DEF Leads
    <3> QED
      BY <1>3, <1>4, <2>1, <3>1, <3>2
  <2>2. CASE i # n + 1
    <3>1. i \in 1 .. n /\ i \in 0 .. n /\ i - 1 \in 0 .. n
      BY <2>2
    <3>2. w[i] \in neighbours(w[i - 1])
      BY <1>1, <3>1 DEF Leads
    <3> QED
      BY <1>3, <3>1, <3>2
  <2> QED
    BY <2>1, <2>2
<1>7. on[0] = a
  <2>1. 0 \in 0 .. n /\ w[0] = a
    BY <1>1 DEF Leads
  <2> QED
    BY <1>3, <2>1
<1>8. Leads(on, a, e, n + 1, walls)
  BY <1>4, <1>5, <1>6, <1>7 DEF Leads
<1> QED
  BY <1>8 DEF Linked

\* What a flood numbers is that many steps from a seed.
LEMMA FloodLeads ==
  ASSUME NEW D, NEW seeds, NEW walls, NEW R \in Nat, Flooded(D, seeds, walls, R),
         NEW c \in Cells, D[c] < NumCells
  PROVE  \E a \in seeds : Linked(a, c, D[c], walls)
<1> DEFINE S == {n \in Nat : \A e \in Cells : D[e] = n /\ n < NumCells =>
                                \E a \in seeds : Linked(a, e, n, walls)}
<1>1. \A e \in Cells : /\ D[e] \in Nat
                       /\ D[e] < NumCells => e \notin walls
                       /\ D[e] = 0 <=> e \in seeds
  BY DEF Flooded
<1>2. 0 \in S
  <2> SUFFICES ASSUME NEW e \in Cells, D[e] = 0, 0 < NumCells
               PROVE  \E a \in seeds : Linked(a, e, 0, walls)
    OBVIOUS
  <2>1. e \in seeds /\ e \in Cells \ walls
    BY <1>1
  <2> DEFINE w == [i \in 0 .. 0 |-> e]
  <2>2. w \in [0 .. 0 -> Cells \ walls] /\ w[0] = e
    BY <2>1
  <2>3. \A i \in 1 .. 0 : FALSE
    OBVIOUS
  <2>4. Leads(w, e, e, 0, walls)
    BY <2>2, <2>3 DEF Leads
  <2> QED
    BY <2>1, <2>4 DEF Linked
<1>3. ASSUME NEW n \in Nat, n \in S PROVE n + 1 \in S
  <2> SUFFICES ASSUME NEW e \in Cells, D[e] = n + 1, n + 1 < NumCells
               PROVE  \E a \in seeds : Linked(a, e, n + 1, walls)
    OBVIOUS
  <2>1. PICK g \in neighbours(e) : D[g] = D[e] - 1
    BY BoardSize DEF Flooded
  <2>2. g \in Cells /\ D[g] = n /\ n < NumCells /\ e \in Cells \ walls
    BY <1>1, <2>1, BoardSize DEF neighbours
  <2>3. PICK a \in seeds : Linked(a, g, n, walls)
    BY <1>3, <2>2
  <2>4. e \in neighbours(g)
    BY <2>1, <2>2, NeighboursMutual
  <2>5. Linked(a, e, n + 1, walls)
    BY <2>2, <2>3, <2>4, LinkedOn
  <2> QED
    BY <2>5
<1>4. \A n \in Nat : n \in S
  <2>1. S \in SUBSET Nat
    OBVIOUS
  <2> HIDE DEF S
  <2> QED
    BY <1>2, <1>3, <2>1, Induction
<1> QED
  BY <1>1, <1>4

\* What a walk reaches the flood numbers, and at no more than its steps.
LEMMA FloodIsLeast ==
  ASSUME NEW D, NEW seeds, NEW walls, NEW R \in Nat, Flooded(D, seeds, walls, R),
         NEW c, NEW a \in seeds, NEW n \in Nat, n <= R, Linked(a, c, n, walls)
  PROVE  D[c] <= n /\ D[c] < NumCells /\ c \in Cells
<1>1. PICK w : Leads(w, a, c, n, walls)
  BY DEF Linked
<1>2. \A i \in 0 .. n : w[i] \in Cells /\ w[i] \notin walls
  BY <1>1 DEF Leads
<1> DEFINE S == {k \in Nat : k <= n => D[w[k]] <= k /\ D[w[k]] < NumCells}
<1>3. 0 \in S
  <2>1. w[0] = a /\ w[0] \in Cells
    BY <1>1, <1>2 DEF Leads
  <2>2. D[a] = 0
    BY <2>1 DEF Flooded
  <2> QED
    BY <2>1, <2>2, BoardSize
<1>4. ASSUME NEW k \in Nat, k \in S PROVE k + 1 \in S
  <2> SUFFICES ASSUME k + 1 <= n PROVE D[w[k + 1]] <= k + 1 /\ D[w[k + 1]] < NumCells
    OBVIOUS
  <2>1. k \in 0 .. n /\ k + 1 \in 1 .. n /\ k + 1 \in 0 .. n /\ (k + 1) - 1 = k
    OBVIOUS
  <2> DEFINE e == w[k]
             g == w[k + 1]
  <2>2. e \in Cells /\ g \in Cells /\ g \notin walls
    BY <1>2, <2>1
  <2>3. g \in neighbours(e)
    BY <1>1, <2>1 DEF Leads
  <2>4. D[e] <= k /\ D[e] < NumCells
    BY <1>4, <2>1
  <2> HIDE DEF e, g
  <2>5. D[e] \in Nat /\ D[g] \in Nat /\ D[e] < R
    BY <2>2, <2>4 DEF Flooded
  <2>6. D[g] <= D[e] + 1 /\ D[g] < NumCells
    BY <2>2, <2>3, <2>4, <2>5 DEF Flooded
  <2> QED
    BY <2>4, <2>5, <2>6 DEF e, g
<1>5. \A k \in Nat : k \in S
  <2>1. S \in SUBSET Nat
    OBVIOUS
  <2> HIDE DEF S
  <2> QED
    BY <1>3, <1>4, <2>1, Induction
<1>6. D[w[n]] <= n /\ D[w[n]] < NumCells
  BY <1>5
<1>7. w[n] = c /\ n \in 0 .. n
  BY <1>1 DEF Leads
<1> QED
  BY <1>2, <1>6, <1>7

(***************************************************************************)
(* Descents                                                                *)
(***************************************************************************)

\* Up to n, a field falls by one from a cell to the next lower of its neighbours.
Slopes(field, n) ==
    \A c \in Cells : 0 < field[c] /\ field[c] <= n =>
      /\ \E e \in neighbours(c) : field[e] = field[c] - 1
      /\ \A e \in neighbours(c) : field[e] >= field[c] - 1

\* A flood goes down by one step at a time.
LEMMA FloodSlopes ==
  ASSUME NEW D, NEW seeds, NEW walls, NEW R \in Nat, Flooded(D, seeds, walls, R),
         NEW n \in Nat, n < NumCells
  PROVE  Slopes(D, n)
<1> SUFFICES ASSUME NEW c \in Cells, 0 < D[c], D[c] <= n
             PROVE  /\ \E e \in neighbours(c) : D[e] = D[c] - 1
                    /\ \A e \in neighbours(c) : D[e] >= D[c] - 1
  BY DEF Slopes
<1>1. D[c] \in Nat /\ D[c] < NumCells /\ NumCells \in Nat
  BY BoardSize DEF Flooded
<1>2. D[c] <= R /\ c \notin walls /\ \E e \in neighbours(c) : D[e] = D[c] - 1
  BY <1>1 DEF Flooded
<1>3. ASSUME NEW e \in neighbours(c), ~(D[e] >= D[c] - 1) PROVE FALSE
  <2>1. e \in Cells /\ c \in neighbours(e)
    BY NeighboursMutual DEF neighbours
  <2>2. D[e] \in Nat /\ D[e] < R /\ D[e] < NumCells
    BY <1>1, <1>2, <1>3, <2>1 DEF Flooded
  <2>3. D[c] <= D[e] + 1
    BY <1>2, <2>1, <2>2 DEF Flooded
  <2> QED
    BY <1>1, <1>3, <2>2, <2>3
<1> QED
  BY <1>2, <1>3

\* The least of some numbers is one of them.
LEMMA MinOfSome ==
  ASSUME NEW S \in SUBSET Nat, S # {}
  PROVE  Min(S) \in S /\ \A n \in S : Min(S) <= n
BY LeastNatural DEF Min

\* On a slope best_step takes one step down.
LEMMA StepsDown ==
  ASSUME NEW field \in [Cells -> Nat], NEW n \in Nat, Slopes(field, n),
         NEW c \in Cells, 0 < field[c], field[c] <= n
  PROVE  /\ best_step(c, field) \in neighbours(c) /\ best_step(c, field) \in Cells
         /\ field[best_step(c, field)] = field[c] - 1
<1> DEFINE lower == {d \in neighbours(c) : field[d] < field[c]}
           least == {d \in lower : \A e \in lower : field[d] <= field[e]}
<1>1. PICK e \in neighbours(c) : field[e] = field[c] - 1
  BY DEF Slopes
<1>2. \A d \in neighbours(c) : field[d] >= field[c] - 1 /\ d \in Cells /\ field[d] \in Nat
  BY DEF Slopes, neighbours
<1>3. e \in lower
  BY <1>1
<1>4. e \in least
  BY <1>1, <1>2, <1>3
<1>5. \A d \in least : d \in neighbours(c) /\ field[d] = field[c] - 1 /\ d \in Cells
  BY <1>1, <1>2, <1>3
<1>6. least \in SUBSET Nat
  BY <1>5 DEF Cells
<1>7. best_step(c, field) = Min(least)
  BY <1>3 DEF best_step
<1> HIDE DEF least
<1>8. Min(least) \in least
  BY <1>4, <1>6, MinOfSome
<1> QED
  BY <1>5, <1>7, <1>8

\* The walk down a field after k steps, from a cell at n.
Descends(w, start, field, n, k) ==
    /\ w \in Seq(Cells) /\ Len(w) = IF k <= n THEN k ELSE n
    /\ \A i \in 1 .. Len(w) : field[w[i]] = n - i
    /\ \A i \in 1 .. Len(w) : w[i] \in neighbours(IF i = 1 THEN start ELSE w[i - 1])

\* What Append does to a sequence, element by element.
LEMMA AppendIs ==
  ASSUME NEW S, NEW w \in Seq(S), NEW x \in S
  PROVE  /\ Append(w, x) \in Seq(S) /\ Len(Append(w, x)) = Len(w) + 1
         /\ \A i \in 1 .. Len(w) + 1 : Append(w, x)[i] = IF i <= Len(w) THEN w[i] ELSE x
BY AppendProperties

\* Descent goes down a slope to its bottom, or as far as the budget allows.
LEMMA DescentIs ==
  ASSUME NEW field \in [Cells -> Nat], NEW start \in Cells, NEW budget \in Nat,
         Slopes(field, field[start])
  PROVE  Descends(Descent(start, field, budget), start, field, field[start], budget)
<1> DEFINE V == Seq(Cells)
           Here(w) == IF w = <<>> THEN start ELSE Last(w)
           next(w) == IF field[Here(w)] = 0 \/ best_step(Here(w), field) = NoCell
                      THEN w ELSE Append(w, best_step(Here(w), field))
           step == [k \in Nat |-> [w \in V |-> IF next(w) \in V THEN next(w) ELSE w]]
           Is(f) == f = [k \in 0 .. budget |-> IF k = 0 THEN <<>> ELSE next(f[k - 1])]
           walk == CHOOSE f : Is(f)
           n == field[start]
           Good(w, k) == Descends(w, start, field, n, k)
<1>1. Descent(start, field, budget) = walk[budget]
  BY DEF Descent
<1>2. n \in Nat /\ Slopes(field, n)
  OBVIOUS
<1> HIDE DEF n
<1>3. ASSUME NEW k \in Nat, NEW w, Good(w, k)
      PROVE  next(w) \in V /\ Good(next(w), k + 1)
  <2> DEFINE m == Len(w)
             here == Here(w)
             to == best_step(here, field)
  <2>1. w \in Seq(Cells) /\ m \in Nat /\ m = (IF k <= n THEN k ELSE n)
    BY <1>3, LenProperties DEF Descends
  <2>2. here \in Cells /\ field[here] = n - m
    <3>1. CASE w = <<>>
      BY <1>2, <2>1, <3>1, EmptySeq DEF n
    <3>2. CASE w # <<>>
      <4>1. m \in 1 .. m
        BY <2>1, <3>2, EmptySeq
      <4>2. here = w[m]
        BY <3>2 DEF Last
      <4> QED
        BY <1>3, <2>1, <4>1, <4>2, ElementOfSeq DEF Descends
    <3> QED
      BY <3>1, <3>2
  <2>3. here = IF m = 0 THEN start ELSE w[m]
    BY <2>1, EmptySeq DEF Last
  <2>4. CASE k < n
    <3>1. m = k /\ 0 < field[here] /\ field[here] <= n
      BY <1>2, <2>1, <2>2, <2>4
    <3> HIDE DEF here
    <3>2. to \in neighbours(here) /\ to \in Cells /\ field[to] = field[here] - 1
      BY <1>2, <2>2, <3>1, StepsDown
    <3>3. next(w) = Append(w, to)
      BY <3>1, <3>2, NoCellIsNoCell DEF here
    <3> HIDE DEF to, next
    <3>4. /\ Append(w, to) \in Seq(Cells) /\ Len(Append(w, to)) = m + 1
          /\ \A i \in 1 .. m + 1 : Append(w, to)[i] = IF i <= m THEN w[i] ELSE to
      BY <2>1, <3>2, AppendIs
    <3> DEFINE u == Append(w, to)
    <3> HIDE DEF m, u
    <3>5. \A i \in 1 .. m : u[i] = w[i] /\ field[w[i]] = n - i
                            /\ w[i] \in neighbours(IF i = 1 THEN start ELSE w[i - 1])
      BY <1>3, <2>1, <3>4 DEF Descends, m, u
    <3>6. u[m + 1] = to
      BY <2>1, <3>4 DEF u
    <3>7. ASSUME NEW i \in 1 .. m + 1
          PROVE  field[u[i]] = n - i /\ u[i] \in neighbours(IF i = 1 THEN start ELSE u[i - 1])
      <4>1. CASE i = m + 1
        <5>1. field[to] = n - i
          BY <1>2, <2>1, <2>2, <3>2, <4>1
        <5>2. (IF i = 1 THEN start ELSE u[i - 1]) = here
          <6>1. m = 0 \/ m \in 1 .. m
            BY <2>1
          <6> QED
            BY <2>1, <2>3, <3>5, <4>1, <6>1
        <5> QED
          BY <3>2, <3>6, <4>1, <5>1, <5>2
      <4>2. CASE i # m + 1
        <5> m \in Nat
          BY <2>1
        <5>1. i \in 1 .. m
          BY <4>2
        <5>2. i = 1 \/ i - 1 \in 1 .. m
          BY <5>1
        <5> QED
          BY <3>5, <5>1, <5>2
      <4> QED
        BY <4>1, <4>2
    <3>8. u \in Seq(Cells) /\ Len(u) = m + 1 /\ m + 1 = (IF k + 1 <= n THEN k + 1 ELSE n)
      BY <1>2, <2>4, <3>1, <3>4 DEF u
    <3>9. Good(u, k + 1)
      BY <3>7, <3>8 DEF Descends
    <3> QED
      BY <3>3, <3>8, <3>9 DEF u
  <2>5. CASE ~(k < n)
    <3>1. m = n /\ field[here] = 0
      BY <1>2, <2>1, <2>2, <2>5
    <3>2. next(w) = w
      BY <3>1
    <3>3. m = (IF k + 1 <= n THEN k + 1 ELSE n)
      BY <1>2, <2>5, <3>1
    <3> HIDE DEF next
    <3> QED
      BY <1>3, <2>1, <3>2, <3>3 DEF Descends
  <2> QED
    BY <2>4, <2>5
<1>4. step \in [Nat -> [V -> V]]
  OBVIOUS
<1>5. \A k \in Nat, w \in V : next(w) \in V => step[k][w] = next(w)
  OBVIOUS
<1>6. Good(<<>>, 0)
  BY <1>2, EmptySeq DEF Descends
<1>7. <<>> \in V
  BY EmptySeq
<1>8. \A k \in Nat : \A w : Good(w, k) => w \in V
  BY DEF Descends
<1> HIDE DEF step, next, V, Good
<1>9. PICK f : Unfolds(f, V, <<>>, step, budget)
  BY <1>4, <1>7, Recursion
<1> DEFINE S == {k \in Nat : k <= budget => Good(f[k], k)}
<1>10. \A k \in Nat : k \in S
  <2>1. 0 \in S
    BY <1>6, <1>9 DEF Unfolds
  <2>2. ASSUME NEW k \in Nat, k \in S PROVE k + 1 \in S
    <3> SUFFICES ASSUME k + 1 <= budget PROVE Good(f[k + 1], k + 1)
      OBVIOUS
    <3>1. k + 1 \in 1 .. budget /\ (k + 1) - 1 = k /\ k \in 0 .. budget /\ k + 1 \in Nat
      OBVIOUS
    <3>2. Good(f[k], k) /\ f[k] \in V
      BY <1>9, <2>2, <3>1 DEF Unfolds
    <3>3. f[k + 1] = step[k + 1][f[k]]
      BY <1>9, <3>1 DEF Unfolds
    <3> QED
      BY <1>3, <1>5, <3>1, <3>2, <3>3
  <2>3. S \in SUBSET Nat
    OBVIOUS
  <2> HIDE DEF S
  <2> QED
    BY <2>1, <2>2, <2>3, Induction
<1>11. Is(f)
  <2>1. ASSUME NEW k \in 1 .. budget PROVE f[k] = next(f[k - 1])
    <3>1. k - 1 \in Nat /\ k - 1 <= budget /\ k - 1 \in 0 .. budget /\ k \in Nat
      OBVIOUS
    <3>2. Good(f[k - 1], k - 1) /\ f[k - 1] \in V
      BY <1>9, <1>10, <3>1 DEF Unfolds
    <3>3. f[k] = step[k][f[k - 1]]
      BY <1>9 DEF Unfolds
    <3> QED
      BY <1>3, <1>5, <3>1, <3>2, <3>3
  <2>2. f = [k \in 0 .. budget |-> f[k]] /\ f[0] = <<>>
    BY <1>9 DEF Unfolds
  <2>3. \A k \in 0 .. budget : k # 0 => k \in 1 .. budget
    OBVIOUS
  <2>4. \A k \in 0 .. budget : f[k] = IF k = 0 THEN <<>> ELSE next(f[k - 1])
    BY <2>1, <2>2, <2>3
  <2> QED
    BY <2>2, <2>4, Zenon
<1>12. Is(walk)
  <2> HIDE DEF Is
  <2> QED
    BY <1>11
<1> HIDE DEF walk
<1> DEFINE T == {k \in Nat : k <= budget => Good(walk[k], k)}
<1>13. \A k \in Nat : k \in T
  <2>1. 0 \in T
    BY <1>6, <1>12
  <2>2. ASSUME NEW k \in Nat, k \in T PROVE k + 1 \in T
    <3> SUFFICES ASSUME k + 1 <= budget PROVE Good(walk[k + 1], k + 1)
      OBVIOUS
    <3>1. Good(walk[k], k)
      BY <2>2
    <3>2. walk[k + 1] = next(walk[k])
      BY <1>12
    <3> QED
      BY <1>3, <3>1, <3>2
  <2>3. T \in SUBSET Nat
    OBVIOUS
  <2> HIDE DEF T
  <2> QED
    BY <2>1, <2>2, <2>3, Induction
<1>14. Good(walk[budget], budget)
  BY <1>13
<1> QED
  BY <1>1, <1>14 DEF Good, n

\* The field of a flood from a cell, in as many rounds as the points allow.
LEMMA FieldFrom ==
  ASSUME NEW target \in Cells, NEW walls, NEW steps \in Nat
  PROVE  LET D == bfs_distance_field(target, walls, steps)
             R == IF steps <= NumCells THEN steps ELSE NumCells
         IN /\ target \in walls => Flooded(D, {}, walls, R)
            /\ target \notin walls => Flooded(D, {target}, walls, R)
<1> DEFINE R == IF steps <= NumCells THEN steps ELSE NumCells
           seeds == IF target \in Cells \ walls THEN {target} ELSE {}
<1>1. NumCells \in Nat /\ R \in Nat
  BY BoardSize
<1>2. Min({steps, NumCells}) = R
  BY <1>1, MinOfTwo
<1>3. seeds \in SUBSET Cells /\ seeds \cap walls = {}
  OBVIOUS
<1>4. bfs_distance_field(target, walls, steps) = FloodField(seeds, walls, R)
  BY <1>2 DEF bfs_distance_field
<1>5. Flooded(FloodField(seeds, walls, R), seeds, walls, R)
  BY <1>1, <1>3, FloodFills
<1>6. CASE target \in walls
  BY <1>4, <1>5, <1>6
<1>7. CASE target \notin walls
  BY <1>4, <1>5, <1>7
<1> QED
  BY <1>6, <1>7

\* A flood of as many rounds from the other end finds the way back, as short.
LEMMA AsFarFromTheOther ==
  ASSUME NEW x \in Cells, NEW y \in Cells, NEW walls, NEW R \in Nat,
         NEW F, NEW G, Flooded(F, {x}, walls, R), Flooded(G, {y}, walls, R), F[y] < NumCells
  PROVE  G[x] <= F[y] /\ G[x] < NumCells
<1>1. F[y] \in Nat /\ F[y] <= R
  BY DEF Flooded
<1>2. Linked(x, y, F[y], walls)
  BY FloodLeads
<1>3. Linked(y, x, F[y], walls)
  BY <1>1, <1>2, LinkedBack
<1> QED
  BY <1>1, <1>3, FloodIsLeast

\* A flood from nowhere reaches no cell.
LEMMA NothingFlooded ==
  ASSUME NEW D, NEW walls, NEW R \in Nat, Flooded(D, {}, walls, R), NEW c \in Cells
  PROVE  D[c] = NumCells
<1>1. D[c] < NumCells => \E a \in {} : Linked(a, c, D[c], walls)
  BY FloodLeads
<1> QED
  BY <1>1, BoardSize DEF Flooded

\* A descent over free cells is a move the rules accept.
LEMMA DescentIsWalkable ==
  ASSUME NEW field \in [Cells -> Nat], NEW start \in Cells, NEW budget \in Nat, NEW walls,
         NEW n \in Nat, NEW path, Descends(path, start, field, n, budget),
         \A c \in Cells : field[c] < n => c \notin walls
  PROVE  path_is_walkable(start, path, walls, budget)
<1>1. path \in Seq(Cells) /\ Len(path) \in Nat /\ Len(path) = IF budget <= n THEN budget ELSE n
  BY LenProperties DEF Descends
<1>2. DOMAIN path = 1 .. Len(path)
  BY <1>1, LenProperties
<1>3. ASSUME NEW i \in 1 .. Len(path)
      PROVE  /\ path[i] \in Cells \ walls
             /\ manhattan(IF i = 1 THEN start ELSE path[i - 1], path[i]) = 1
  <2>1. path[i] \in Cells /\ field[path[i]] = n - i
    BY <1>1, ElementOfSeq DEF Descends
  <2>2. field[path[i]] < n
    BY <1>1, <2>1
  <2>3. path[i] \in neighbours(IF i = 1 THEN start ELSE path[i - 1])
    BY DEF Descends
  <2> QED
    BY <2>1, <2>2, <2>3 DEF neighbours
<1> QED
  BY <1>1, <1>2, <1>3 DEF path_is_walkable

\* Staying where one is counts as a move.
LEMMA EmptyPathIsWalkable ==
  ASSUME NEW start \in Cells, NEW budget \in Nat, NEW walls
  PROVE  path_is_walkable(start, <<>>, walls, budget)
BY EmptySeq DEF path_is_walkable

\* A route found by fight_path_to is a legal move of the length of the flood, and is
\* found when the cell is among the reachable ones.
LEMMA PathsFit ==
  ASSUME NEW from \in Cells, NEW to \in Cells, from # to, NEW walls, from \notin walls,
         NEW budget \in Nat, budget >= 1, budget < NumCells
  PROVE  LET path == fight_path_to(from, budget, to, walls)
             reach == reachable_fight_cells(from, budget, walls)
             steps == bfs_distance_field(from, walls, budget)
         IN /\ path_is_walkable(from, path, walls, budget)
            /\ path # <<>> <=> to \in reach
            /\ path # <<>> => Last(path) = to /\ Len(path) = steps[to]
<1> DEFINE path == fight_path_to(from, budget, to, walls)
           reach == reachable_fight_cells(from, budget, walls)
           steps == bfs_distance_field(from, walls, budget)
           field == bfs_distance_field(to, walls, budget)
<1>0. budget = IF budget <= NumCells THEN budget ELSE NumCells
  BY BoardSize
<1>1. Flooded(steps, {from}, walls, budget)
  BY <1>0, FieldFrom
<1>2. /\ to \in walls => Flooded(field, {}, walls, budget)
      /\ to \notin walls => Flooded(field, {to}, walls, budget)
  BY <1>0, FieldFrom
<1>3. path = IF field[from] > budget THEN <<>> ELSE Descent(from, field, budget)
  BY DEF fight_path_to
<1>4. to \in reach <=> steps[to] > 0 /\ steps[to] <= budget
  BY DEF reachable_fight_cells
<1> HIDE DEF path, reach, steps, field
<1>5. /\ NumCells \in Nat /\ field \in [Cells -> Nat] /\ steps \in [Cells -> Nat]
      /\ \A c \in Cells : field[c] < NumCells => c \notin walls
      /\ steps[to] < NumCells => to \notin walls /\ steps[to] <= budget
      /\ steps[to] # 0
  BY <1>1, <1>2, BoardSize DEF Flooded
<1>6. CASE to \in walls
  <2>1. field[from] = NumCells
    BY <1>2, <1>6, NothingFlooded
  <2>2. path = <<>>
    BY <1>3, <1>5, <2>1
  <2>3. to \notin reach
    BY <1>4, <1>5, <1>6
  <2> QED
    BY <2>2, <2>3, EmptyPathIsWalkable DEF path, reach
<1>7. CASE to \notin walls
  <2>1. Flooded(field, {to}, walls, budget)
    BY <1>2, <1>7
  <2>2. /\ steps[to] < NumCells <=> field[from] < NumCells
        /\ steps[to] = field[from] \/ ~(steps[to] < NumCells)
    <3>1. steps[to] < NumCells => field[from] <= steps[to] /\ field[from] < NumCells
      BY <1>1, <2>1, AsFarFromTheOther
    <3>2. field[from] < NumCells => steps[to] <= field[from] /\ steps[to] < NumCells
      BY <1>1, <2>1, AsFarFromTheOther
    <3> QED
      BY <1>5, <3>1, <3>2
  <2>3. CASE field[from] > budget
    <3>1. path = <<>>
      BY <1>3, <2>3
    <3>2. to \notin reach
      BY <1>4, <1>5, <2>2, <2>3
    <3> QED
      BY <3>1, <3>2, EmptyPathIsWalkable DEF path, reach
  <2>4. CASE ~(field[from] > budget)
    <3>1. field[from] \in Nat /\ field[from] < NumCells /\ field[from] <= budget
      BY <1>5, <2>4
    <3>2. steps[to] = field[from] /\ to \in reach
      BY <1>4, <1>5, <2>2, <3>1
    <3>3. Slopes(field, field[from])
      BY <2>1, <3>1, FloodSlopes
    <3>4. path = Descent(from, field, budget)
      BY <1>3, <2>4
    <3>5. Descends(path, from, field, field[from], budget)
      BY <1>5, <3>3, <3>4, DescentIs
    <3>6. path_is_walkable(from, path, walls, budget)
      <4>1. \A c \in Cells : field[c] < field[from] => c \notin walls
        BY <1>5, <3>1
      <4> QED
        BY <1>5, <3>1, <3>5, <4>1, DescentIsWalkable
    <3>7. Len(path) = field[from] /\ path \in Seq(Cells) /\ field[from] >= 1
      BY <1>5, <3>1, <3>2, <3>5 DEF Descends
    <3>8. path # <<>> /\ Len(path) \in 1 .. Len(path) /\ path[Len(path)] \in Cells
      BY <3>7, EmptySeq, ElementOfSeq
    <3>9. field[path[Len(path)]] = 0
      BY <3>1, <3>5, <3>7, <3>8 DEF Descends
    <3>10. Last(path) = to
      BY <2>1, <3>8, <3>9 DEF Flooded, Last
    <3> QED
      BY <3>2, <3>6, <3>7, <3>8, <3>10 DEF path, reach, steps
  <2> QED
    BY <2>3, <2>4
<1> QED
  BY <1>6, <1>7

\* What an approach is for: the way to the nearest open flank, as far as it goes.
ApproachFits(from, to, walls, budget) ==
    LET path == fight_approach_path(from, budget, to, walls)
        steps == bfs_distance_field(from, walls, NumCells)
        flanks == {c \in neighbours(to) : steps[c] < NumCells}
    IN /\ path_is_walkable(from, path, walls, budget)
       /\ Len(path) = IF flanks = {} THEN 0
                      ELSE Min({budget} \cup {steps[c] : c \in flanks})

\* fight_approach_path does that. Its field is flooded from the flanks and stops with the
\* round that numbers the start; walks are as long either way, so the start is as far
\* from its nearest flank as that flank is from the start.
LEMMA ApproachesFit ==
  ASSUME NEW from \in Cells, NEW to \in Cells, from # to, NEW walls, from \notin walls,
         from \notin neighbours(to), NEW budget \in Nat, budget >= 1
  PROVE  ApproachFits(from, to, walls, budget)
<1> DEFINE path == fight_approach_path(from, budget, to, walls)
           steps == bfs_distance_field(from, walls, NumCells)
           flanks == {c \in neighbours(to) : steps[c] < NumCells}
           seeds == neighbours(to) \ walls
           flood == FloodField(seeds, walls, NumCells)
           field == UpTo(flood, from)
           n == flood[from]
<1>1. NumCells \in Nat /\ NumCells >= 1
  BY BoardSize
<1>2. Flooded(steps, {from}, walls, NumCells)
  BY <1>1, FieldFrom
<1>3. Flooded(flood, seeds, walls, NumCells)
  <2>1. seeds \in SUBSET Cells /\ seeds \cap walls = {}
    BY DEF neighbours
  <2> HIDE DEF seeds
  <2> QED
    BY <1>1, <2>1, FloodFills
<1>4. path = IF field[from] >= NumCells THEN <<>> ELSE Descent(from, field, budget)
  BY DEF fight_approach_path, approach_field
<1>5. \A c \in Cells : field[c] = IF flood[c] <= n THEN flood[c] ELSE NumCells
  BY DEF UpTo
<1>6. /\ flood \in [Cells -> Nat] /\ steps \in [Cells -> Nat] /\ n \in Nat
      /\ \A c \in Cells : flood[c] <= NumCells
      /\ \A c \in Cells : flood[c] < NumCells => c \notin walls
      /\ \A c \in Cells : flood[c] = 0 <=> c \in seeds
      /\ \A c \in Cells : steps[c] < NumCells => steps[c] <= NumCells /\ c \notin walls
  <2> HIDE DEF steps, flood, seeds
  <2> QED
    BY <1>2, <1>3 DEF Flooded
<1>7. field \in [Cells -> Nat]
  <2>1. \A c \in Cells : field[c] \in Nat
    BY <1>1, <1>5, <1>6
  <2> QED
    BY <2>1 DEF UpTo
<1>8. n # 0 /\ field[from] = n
  BY <1>5, <1>6
<1>9. \A c \in neighbours(to) : c \in Cells
  BY DEF neighbours
<1>10. \A c \in flanks : c \in seeds /\ c \in Cells /\ steps[c] \in Nat /\ steps[c] < NumCells
  BY <1>6, <1>9
<1>11. \A c \in seeds : c \in neighbours(to) /\ c \in Cells
  BY <1>9
<1>12. \A c \in neighbours(to) : steps[c] < NumCells => c \in flanks
  OBVIOUS
<1> HIDE DEF path, steps, flanks, seeds, flood, field, n
<1>13. ASSUME NEW c \in flanks PROVE n <= steps[c] /\ n < NumCells
  <2>1. Linked(from, c, steps[c], walls)
    BY <1>1, <1>2, <1>10, FloodLeads
  <2>2. Linked(c, from, steps[c], walls)
    BY <1>10, <2>1, LinkedBack
  <2>3. steps[c] <= NumCells
    BY <1>1, <1>10
  <2> QED
    BY <1>1, <1>3, <1>10, <2>2, <2>3, FloodIsLeast DEF n
<1>14. ASSUME n < NumCells PROVE \E c \in flanks : steps[c] <= n
  <2>1. PICK c \in seeds : Linked(c, from, n, walls)
    BY <1>1, <1>3, <1>14, FloodLeads DEF n
  <2>2. Linked(from, c, n, walls)
    BY <1>6, <2>1, LinkedBack
  <2>3. steps[c] <= n /\ steps[c] < NumCells
    BY <1>1, <1>2, <1>6, <1>14, <2>2, FloodIsLeast
  <2> QED
    BY <1>11, <1>12, <2>1, <2>3
<1>15. CASE flanks = {}
  <2>1. ~(n < NumCells)
    BY <1>14, <1>15
  <2>2. path = <<>>
    BY <1>1, <1>4, <1>6, <1>8, <2>1
  <2> QED
    BY <1>15, <2>2, EmptyPathIsWalkable, EmptySeq DEF path, flanks, steps, ApproachFits
<1>16. CASE flanks # {}
  <2>1. n < NumCells
    BY <1>13, <1>16
  <2>2. PICK c \in flanks : steps[c] = n
    BY <1>6, <1>10, <1>13, <1>14, <2>1
  <2>3. path = Descent(from, field, budget)
    BY <1>1, <1>4, <1>6, <1>8, <2>1
  <2>4. Slopes(field, n)
    <3>1. Slopes(flood, n)
      BY <1>1, <1>3, <1>6, <2>1, FloodSlopes
    <3> SUFFICES ASSUME NEW e \in Cells, 0 < field[e], field[e] <= n
                 PROVE  /\ \E g \in neighbours(e) : field[g] = field[e] - 1
                        /\ \A g \in neighbours(e) : field[g] >= field[e] - 1
      BY DEF Slopes
    <3>2. \A g \in neighbours(e) : g \in Cells
      BY DEF neighbours
    <3>3. field[e] = flood[e] /\ flood[e] \in Nat
      BY <1>1, <1>5, <1>6, <2>1
    <3>4. PICK g \in neighbours(e) : flood[g] = flood[e] - 1
      BY <3>1, <3>3 DEF Slopes
    <3>5. field[g] = field[e] - 1
      BY <1>5, <1>6, <3>2, <3>3, <3>4
    <3>6. ASSUME NEW h \in neighbours(e) PROVE field[h] >= field[e] - 1
      <4>1. flood[h] >= flood[e] - 1 /\ h \in Cells
        BY <3>1, <3>2, <3>3 DEF Slopes
      <4>2. flood[h] \in Nat /\ flood[h] <= NumCells
        BY <1>6, <4>1
      <4>3. field[h] >= flood[h]
        BY <1>1, <1>5, <4>1, <4>2
      <4> QED
        BY <1>7, <3>3, <4>1, <4>2, <4>3
    <3> QED
      BY <3>5, <3>6
  <2>5. Descends(path, from, field, n, budget)
    BY <1>7, <1>8, <2>3, <2>4, DescentIs
  <2>6. \A e \in Cells : field[e] < n => e \notin walls
    BY <1>1, <1>5, <1>6, <2>1
  <2>7. path_is_walkable(from, path, walls, budget)
    BY <1>6, <1>7, <2>5, <2>6, DescentIsWalkable
  <2>8. Len(path) = IF budget <= n THEN budget ELSE n
    BY <2>5 DEF Descends
  <2> DEFINE spans == {budget} \cup {steps[e] : e \in flanks}
  <2>9. spans \in SUBSET Nat /\ spans # {}
    BY <1>10
  <2>10. \A x \in spans : x = budget \/ x >= n
    BY <1>6, <1>10, <1>13
  <2>11. budget \in spans /\ n \in spans
    BY <2>2
  <2> HIDE DEF spans
  <2>12. Min(spans) \in spans /\ \A x \in spans : Min(spans) <= x
    BY <2>9, MinOfSome
  <2>13. Min(spans) \in Nat /\ (Min(spans) = budget \/ Min(spans) >= n)
         /\ Min(spans) <= budget /\ Min(spans) <= n
    BY <2>9, <2>10, <2>11, <2>12
  <2>14. Len(path) = Min(spans)
    BY <1>6, <2>8, <2>13
  <2> QED
    BY <1>16, <2>7, <2>14 DEF path, flanks, steps, spans, ApproachFits
<1> QED
  BY <1>15, <1>16

\* A distance is a number.
LEMMA SpanIsNat ==
  ASSUME NEW a \in Cells, NEW b \in Cells
  PROVE  manhattan(a, b) \in Nat
BY Coordinates DEF manhattan, AbsDiff

\* A cheapest cell exists among some cells, and none of them is cheaper.
LEMMA LeastIs ==
  ASSUME NEW S \in SUBSET Cells, S # {}, NEW cost, \A c \in S : cost[c] \in Nat
  PROVE  /\ Least(S, cost) \in SUBSET S /\ Least(S, cost) # {}
         /\ \A c \in Least(S, cost), d \in S : cost[c] <= cost[d]
<1> DEFINE costs == {cost[c] : c \in S}
<1>1. costs \in SUBSET Nat /\ costs # {}
  OBVIOUS
<1>2. \A c \in S : cost[c] \in costs
  OBVIOUS
<1>3. \A x \in costs : \E c \in S : cost[c] = x
  OBVIOUS
<1> HIDE DEF costs
<1>4. Min(costs) \in costs /\ \A x \in costs : Min(costs) <= x
  BY <1>1, MinOfSome
<1>5. PICK c \in S : cost[c] = Min(costs)
  BY <1>3, <1>4
<1>6. c \in Least(S, cost)
  BY <1>2, <1>4, <1>5 DEF Least
<1> QED
  BY <1>6 DEF Least

\* LeastNear takes one of the cells, if there is any.
LEMMA NearestIs ==
  ASSUME NEW S \in SUBSET Cells, NEW target \in Cells
  PROVE  /\ S = {} => LeastNear(S, target) = NoCell
         /\ S # {} => LeastNear(S, target) \in S
<1> DEFINE spans == [c \in S |-> manhattan(c, target)]
           near == Least(S, spans)
<1>1. LeastNear(S, target) = IF S = {} THEN NoCell ELSE Min(near)
  BY DEF LeastNear
<1>2. \A c \in S : spans[c] \in Nat
  BY SpanIsNat
<1> HIDE DEF spans
<1>3. ASSUME S # {} PROVE Min(near) \in S
  <2>1. near \in SUBSET S /\ near # {}
    BY <1>2, <1>3, LeastIs
  <2>2. near \in SUBSET Nat
    <3>1. \A c \in Cells : c \in Nat
      BY BoardSize DEF Cells
    <3> HIDE DEF near
    <3> QED
      BY <2>1, <3>1
  <2> HIDE DEF near
  <2> QED
    BY <2>1, <2>2, MinOfSome
<1> QED
  BY <1>1, <1>3

\* Two floods from one cell number alike what the shorter one reached.
LEMMA LongerFloodAgrees ==
  ASSUME NEW a \in Cells, NEW walls, NEW R \in Nat, NEW T \in Nat, R <= T,
         NEW D, Flooded(D, {a}, walls, R), NEW E, Flooded(E, {a}, walls, T),
         NEW c \in Cells, D[c] < NumCells
  PROVE  E[c] = D[c]
<1>1. D[c] \in Nat /\ E[c] \in Nat /\ D[c] <= R
  BY DEF Flooded
<1>2. Linked(a, c, D[c], walls)
  BY FloodLeads
<1>3. E[c] <= D[c] /\ E[c] < NumCells
  BY <1>1, <1>2, FloodIsLeast
<1>4. Linked(a, c, E[c], walls)
  BY <1>3, FloodLeads
<1>5. D[c] <= E[c]
  BY <1>1, <1>3, <1>4, FloodIsLeast
<1> QED
  BY <1>1, <1>3, <1>5

\* The cell that bfs_cast_cell answers can be reached, the spell reaches its target from
\* there, and no reachable cell that serves is nearer.
LEMMA CastsFit ==
  ASSUME NEW from \in Cells, NEW to \in Cells, NEW walls, from \notin walls,
         NEW budget \in Nat, budget < NumCells, NEW launch, NEW bodies
  PROVE  LET cell == bfs_cast_cell(from, to, walls, budget, launch, bodies)
             reach == {from} \cup reachable_fight_cells(from, budget, walls)
             serves(c) == cell_can_cast(c, to, launch, bodies)
             steps == bfs_distance_field(from, walls, NumCells)
         IN IF cell = NoCell THEN \A c \in reach : ~serves(c)
            ELSE /\ cell \in reach /\ serves(cell)
                 /\ \A c \in reach : serves(c) => steps[cell] <= steps[c]
<1> DEFINE cell == bfs_cast_cell(from, to, walls, budget, launch, bodies)
           reach == {from} \cup reachable_fight_cells(from, budget, walls)
           serves(c) == cell_can_cast(c, to, launch, bodies)
           steps == bfs_distance_field(from, walls, NumCells)
           field == bfs_distance_field(from, walls, budget)
           S == {c \in Cells : field[c] < NumCells /\ serves(c)}
<1>1. /\ budget = IF budget <= NumCells THEN budget ELSE NumCells
      /\ NumCells \in Nat /\ NoCell \notin Cells
  BY BoardSize DEF NoCell, Cells
<1>2. Flooded(field, {from}, walls, budget)
  BY <1>1, FieldFrom
<1>3. Flooded(steps, {from}, walls, NumCells)
  BY <1>1, FieldFrom
<1>4. cell = LeastNear(Least(S, field), to)
  <2>1. field = FloodField({from}, walls, Min({budget, NumCells}))
    BY DEF bfs_distance_field
  <2> QED
    BY <2>1 DEF bfs_cast_cell, CastCells
<1>5. \A c \in Cells : c \in reach <=> field[c] < NumCells
  <2>1. \A c \in Cells : c \in reach <=> c = from \/ (field[c] > 0 /\ field[c] <= budget)
    BY DEF reachable_fight_cells
  <2>2. \A c \in Cells : /\ field[c] \in Nat
                         /\ field[c] = 0 <=> c \in {from}
                         /\ field[c] < NumCells => field[c] <= budget
    <3> HIDE DEF field
    <3> QED
      BY <1>2 DEF Flooded
  <2> HIDE DEF field, reach
  <2> QED
    BY <1>1, <2>1, <2>2
<1>6. reach \in SUBSET Cells
  BY DEF reachable_fight_cells
<1>7. \A c \in Cells : c \in S <=> field[c] < NumCells /\ serves(c)
  OBVIOUS
<1>8. S \in SUBSET Cells
  OBVIOUS
<1> HIDE DEF cell, reach, serves, steps, field, S
<1>9. CASE S = {}
  <2>1. Least(S, field) = {}
    BY <1>9 DEF Least
  <2>2. cell = NoCell
    BY <1>4, <2>1, NearestIs
  <2>3. \A c \in reach : ~serves(c)
    BY <1>5, <1>6, <1>7, <1>9
  <2> QED
    BY <2>2, <2>3 DEF cell, reach, serves
<1>10. CASE S # {}
  <2>1. \A c \in S : field[c] \in Nat
    BY <1>2, <1>8 DEF Flooded
  <2>2. /\ Least(S, field) \in SUBSET S /\ Least(S, field) # {}
        /\ \A c \in Least(S, field), d \in S : field[c] <= field[d]
    BY <1>8, <1>10, <2>1, LeastIs
  <2>3. cell \in Least(S, field)
    BY <1>4, <1>8, <2>2, NearestIs
  <2>4. cell \in S /\ cell \in Cells /\ cell # NoCell
    BY <1>1, <1>8, <2>2, <2>3
  <2>5. cell \in reach /\ serves(cell)
    BY <1>5, <1>7, <2>4
  <2>6. ASSUME NEW c \in reach, serves(c) PROVE steps[cell] <= steps[c]
    <3>1. c \in Cells /\ c \in S /\ field[c] < NumCells /\ field[cell] < NumCells
      BY <1>5, <1>6, <1>7, <2>4, <2>6
    <3>2. field[cell] <= field[c]
      BY <2>2, <2>3, <3>1
    <3>3. steps[c] = field[c]
      BY <1>1, <1>2, <1>3, <3>1, LongerFloodAgrees
    <3>4. steps[cell] = field[cell]
      BY <1>1, <1>2, <1>3, <2>4, <3>1, LongerFloodAgrees
    <3> QED
      BY <3>2, <3>3, <3>4
  <2> QED
    BY <2>4, <2>5, <2>6 DEF cell, reach, serves, steps
<1> QED
  BY <1>9, <1>10

\* The three rules of walking hold of whatever is asked.
LEMMA WalksAgreeWhenAsked ==
  ASSUME WellAsked
  PROVE  WalksAgree
<1> SUFFICES ASSUME asked.kind = "path" PROVE WalksAgree
  BY DEF WalksAgree, PathsAreMoves, ApproachReachesFlank, CastCellServes
<1>1. /\ asked.from \in Cells /\ asked.to \in Cells /\ asked.from # asked.to
      /\ asked.from \notin asked.walls
      /\ asked.budget \in Nat /\ asked.budget >= 1 /\ asked.budget < NumCells
  BY Bounds, BoardSize DEF WellAsked
<1>2. PathsAreMoves
  BY <1>1, PathsFit DEF PathsAreMoves
<1>3. ApproachReachesFlank
  <2> SUFFICES ASSUME asked.from \notin neighbours(asked.to)
               PROVE  ApproachFits(asked.from, asked.to, asked.walls, asked.budget)
    BY DEF ApproachReachesFlank, ApproachFits
  <2> QED
    BY <1>1, ApproachesFit
<1>4. CastCellServes
  <2> SUFFICES ASSUME NEW launch \in Launches
               PROVE  LET bodies == asked.walls \ {asked.to}
                          cell == bfs_cast_cell(asked.from, asked.to, asked.walls, asked.budget,
                                                launch, bodies)
                          reach == {asked.from} \cup
                                   reachable_fight_cells(asked.from, asked.budget, asked.walls)
                          serves(c) == cell_can_cast(c, asked.to, launch, bodies)
                          steps == bfs_distance_field(asked.from, asked.walls, NumCells)
                      IN IF cell = NoCell THEN \A c \in reach : ~serves(c)
                         ELSE /\ cell \in reach /\ serves(cell)
                              /\ \A c \in reach : serves(c) => steps[cell] <= steps[c]
    BY DEF CastCellServes
  <2> QED
    BY <1>1, CastsFit
<1> QED
  BY <1>2, <1>3, <1>4 DEF WalksAgree

\* A route of fight_path_to is a move that path_is_walkable accepts, exists when the cell
\* is among reachable_fight_cells and is as long as the flood says; an approach goes to
\* the nearest open flank; the cell a mob casts from is the nearest that serves: for
\* every board, every walls and every budget below the mark of an unreached cell.
THEOREM WalksAreOneIdea == CalcSpec => []WalksAgree
  BY EverWellAsked, WalksAgreeWhenAsked, PTL
=============================================================================
