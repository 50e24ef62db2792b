---------------------------- MODULE TxExecution ----------------------------
(***************************************************************************)
(* The transaction layer of the bot: the kiosk lane and the version-race   *)
(* retry of bot/src/auth/sdk_client.ts on top of the execution boundary of *)
(* sdk/src/transaction_execution.ts, the durable journal of                *)
(* bot/src/chain/storage.ts, and what bot/src/net/session.ts does with the  *)
(* journal when the process starts again.                                  *)
(*                                                                         *)
(* Every door call builds a transaction, and the FIFO `execution_tail`     *)
(* runs them one at a time: wait for the previous one to be visible,       *)
(* prepare (a dry run), record the digest in the journal, send, and obtain *)
(* the receipt from the response or by digest.  JavaScript is single       *)
(* threaded, so an action is a stretch of code between two awaits.         *)
(***************************************************************************)
EXTENDS Naturals, Sequences, FiniteSets

CONSTANTS
  Calls,        (* door calls                                              *)
  Kiosk,        (* the calls that go through the bot's FIFO lane; the rest *)
                (* are the FIGHT_SHARED_ONLY doors                         *)
  MaxRetries,   (* VERSION_RACE_RETRIES                                    *)
  MaxRestarts,  (* how often the process may die (a bound of the model)    *)
  DiskFails,    (* whether writing the journal may fail                    *)
  NoTx          (* no transaction                                          *)

Attempts == 0 .. MaxRetries

(* A transaction is named by the call and the attempt that built it: the
   digest of its bytes. *)
Tx == Calls \X Attempts

ASSUME TxAssumption ==
  /\ Kiosk \subseteq Calls
  /\ MaxRetries \in Nat
  /\ MaxRestarts \in Nat
  /\ DiskFails \in BOOLEAN
  /\ NoTx \notin Tx

VARIABLES
  pc,        (* where each call stands                                     *)
  attempt,   (* the number of the call's current attempt                   *)
  answer,    (* what its caller was told                                   *)
  lane,      (* create_tx_lane's tail: the kiosk calls in order            *)
  tail,      (* execution_tail: the enqueued executions in order           *)
  pending,   (* the in-memory PendingTransaction                           *)
  journal,   (* what storage.getItem returns (the `data` of the store)     *)
  file,      (* what is on disk                                            *)
  status,    (* what became of each transaction on chain                   *)
  own,       (* the transactions this process has sent                     *)
  receipts,  (* how often this process handed each receipt to on_receipt   *)
  restarts

vars == <<pc, attempt, answer, lane, tail, pending, journal, file, status, own,
          receipts, restarts>>

client_vars == <<lane, attempt>>
record_vars == <<pending, journal, file>>
chain_vars  == <<status, own>>

PCs == {"new", "lane", "queued", "recover_previous", "await_visible", "prepare",
        "submit", "await_response", "recover", "backoff", "done"}
Running == {"recover_previous", "await_visible", "prepare", "submit",
            "await_response", "recover"}
Phases == {"none", "submitted", "visible", "recovered"}
Nothing == [tx |-> NoTx, phase |-> "none"]

TypeOK ==
  /\ pc \in [Calls -> PCs]
  /\ attempt \in [Calls -> Attempts]
  /\ answer \in [Calls -> {"none", "receipt", "refused", "unknown"}]
  /\ lane \in Seq(Calls)
  /\ tail \in Seq(Calls)
  /\ pending \in [tx : Tx \cup {NoTx}, phase : Phases]
  /\ journal \in Tx \cup {NoTx}
  /\ file \in Tx \cup {NoTx}
  /\ status \in [Tx -> {"unsent", "in_flight", "executed", "lost"}]
  /\ own \in SUBSET Tx
  /\ receipts \in [Tx -> Nat]
  /\ restarts \in 0 .. MaxRestarts

Init ==
  /\ pc = [c \in Calls |-> "new"]
  /\ attempt = [c \in Calls |-> 0]
  /\ answer = [c \in Calls |-> "none"]
  /\ lane = <<>>
  /\ tail = <<>>
  /\ pending = Nothing
  /\ journal = NoTx
  /\ file = NoTx
  /\ status = [t \in Tx |-> "unsent"]
  /\ own = {}
  /\ receipts = [t \in Tx |-> 0]
  /\ restarts = 0

-----------------------------------------------------------------------------
(* Helpers of the execution boundary *)

(* read_pending: a stored record wins over the one in memory. *)
ReadPending == IF journal # NoTx THEN [tx |-> journal, phase |-> "submitted"]
                                 ELSE pending

CurrentTx(c) == <<c, attempt[c]>>

(* Writing the journal's file either works or, on a bad disk, throws. *)
DiskOutcomes == IF DiskFails THEN BOOLEAN ELSE {TRUE}

(* removeItem: the store forgets the record before it writes the file. *)
Forget(written) == /\ journal' = NoTx
                   /\ file' = IF written THEN NoTx ELSE file

(* Mutant: a queue that a rejection stops. *)
Settle_TailPoisoned(c, a) ==
  /\ pc' = [pc EXCEPT ![c] = "done"]
  /\ answer' = [answer EXCEPT ![c] = a]
  /\ tail' = IF a = "receipt" THEN Tail(tail) ELSE tail
  /\ lane' = IF c \in Kiosk THEN Tail(lane) ELSE lane
  /\ UNCHANGED attempt

(* The call's promise settles: it leaves the tail, and the lane if it holds it. *)
Settle(c, a) ==
  /\ pc' = [pc EXCEPT ![c] = "done"]
  /\ answer' = [answer EXCEPT ![c] = a]
  /\ tail' = Tail(tail)
  /\ lane' = IF c \in Kiosk THEN Tail(lane) ELSE lane
  /\ UNCHANGED attempt

(* Mutant: the record outlives the receipt it led to. *)
Accept_KeepsRecord(t, phase, written) ==
  /\ receipts' = [receipts EXCEPT ![t] = @ + 1]
  /\ pending' = [tx |-> t, phase |-> phase]
  /\ UNCHANGED <<journal, file>>

(* accept: feed the receipt to the pipeline, then drop the journal's record.
   A disk that fails there makes submit reject after the transaction executed. *)
Accept(t, phase, written) ==
  /\ receipts' = [receipts EXCEPT ![t] = @ + 1]
  /\ pending' = [tx |-> t, phase |-> IF written THEN phase ELSE "visible"]
  /\ Forget(written)

AtHead(c) == tail # <<>> /\ Head(tail) = c
-----------------------------------------------------------------------------
(* The door call *)

(* A caller asks: a kiosk call joins the lane, a shared-only one is composed
   at once and enqueued. *)
Request(c) ==
  /\ pc[c] = "new"
  /\ IF c \in Kiosk
       THEN /\ lane' = Append(lane, c)
            /\ pc' = [pc EXCEPT ![c] = "lane"]
            /\ UNCHANGED tail
       ELSE /\ tail' = Append(tail, c)
            /\ pc' = [pc EXCEPT ![c] = "queued"]
            /\ UNCHANGED lane
  /\ UNCHANGED <<attempt, answer, record_vars, chain_vars, receipts, restarts>>

(* Mutant: composing does not wait for the lane. *)
Compose_NoLane(c) ==
  /\ pc[c] \in {"lane", "backoff"}
  /\ pc' = [pc EXCEPT ![c] = "queued"]
  /\ tail' = Append(tail, c)
  /\ UNCHANGED <<client_vars, answer, record_vars, chain_vars, receipts, restarts>>

(* The head of the lane composes its transaction, first or again after a
   version race, and enqueues it. *)
Compose(c) ==
  /\ lane # <<>> /\ Head(lane) = c
  /\ pc[c] \in {"lane", "backoff"}
  /\ pc' = [pc EXCEPT ![c] = "queued"]
  /\ tail' = Append(tail, c)
  /\ UNCHANGED <<client_vars, answer, record_vars, chain_vars, receipts, restarts>>

(* Composing itself may throw (a read of the kiosk cap fails): nothing is sent. *)
ComposeFails(c) ==
  /\ lane # <<>> /\ Head(lane) = c
  /\ pc[c] \in {"lane", "backoff"}
  /\ pc' = [pc EXCEPT ![c] = "done"]
  /\ answer' = [answer EXCEPT ![c] = "refused"]
  /\ lane' = Tail(lane)
  /\ UNCHANGED <<attempt, tail, record_vars, chain_vars, receipts, restarts>>

-----------------------------------------------------------------------------
(* before_next *)

BeforeNext(c) ==
  /\ AtHead(c) /\ pc[c] = "queued"
  /\ LET phase == ReadPending.phase IN
       \/ /\ phase = "none"
          /\ pc' = [pc EXCEPT ![c] = "prepare"]
          /\ UNCHANGED <<answer, tail, client_vars>>
       \/ /\ phase = "visible"
          /\ pc' = [pc EXCEPT ![c] = "await_visible"]
          /\ UNCHANGED <<answer, tail, client_vars>>
       \/ /\ phase = "submitted"
          /\ pc' = [pc EXCEPT ![c] = "recover_previous"]
          /\ UNCHANGED <<answer, tail, client_vars>>
       \/ phase = "recovered" /\ Settle(c, "refused")
  /\ UNCHANGED <<record_vars, chain_vars, receipts, restarts>>

(* The previous transaction is visible on the fullnode ... *)
PreviousVisible(c) ==
  /\ AtHead(c) /\ pc[c] = "await_visible"
  /\ status[ReadPending.tx] = "executed"
  /\ pending' = Nothing
  /\ pc' = [pc EXCEPT ![c] = "prepare"]
  /\ UNCHANGED <<client_vars, answer, tail, journal, file, chain_vars, receipts, restarts>>

(* ... or the wait runs out: "next transaction NOT submitted". *)
PreviousNotVisible(c) ==
  /\ AtHead(c) /\ pc[c] = "await_visible"
  /\ Settle(c, "refused")
  /\ UNCHANGED <<record_vars, chain_vars, receipts, restarts>>

(* recover_pending finds the unresolved transaction by its digest.  The call
   in hand is refused all the same: its caller planned on older state. *)
RecoverPrevious(c) ==
  /\ AtHead(c) /\ pc[c] = "recover_previous"
  /\ status[ReadPending.tx] = "executed"
  /\ \E written \in DiskOutcomes : Accept(ReadPending.tx, "recovered", written)
  /\ Settle(c, "refused")
  /\ UNCHANGED <<chain_vars, restarts>>

PreviousUnknown(c) ==
  /\ AtHead(c) /\ pc[c] = "recover_previous"
  /\ Settle(c, "refused")
  /\ UNCHANGED <<record_vars, chain_vars, receipts, restarts>>

-----------------------------------------------------------------------------
(* Prepare and submit *)

Prepared(c) ==
  /\ AtHead(c) /\ pc[c] = "prepare"
  /\ pc' = [pc EXCEPT ![c] = "submit"]
  /\ UNCHANGED <<client_vars, answer, tail, record_vars, chain_vars, receipts, restarts>>

(* The dry run refuses it, or signing fails. *)
PrepareFails(c) ==
  /\ AtHead(c) /\ pc[c] = "prepare"
  /\ Settle(c, "refused")
  /\ UNCHANGED <<record_vars, chain_vars, receipts, restarts>>

(* with_version_retry: only a refusal before submission runs the door again,
   and only a lane call has the wrapper. *)
MayRetry(c) == pc[c] = "prepare" /\ c \in Kiosk /\ attempt[c] < MaxRetries

VersionRace(c) ==
  /\ AtHead(c)
  /\ MayRetry(c)
  /\ pc' = [pc EXCEPT ![c] = "backoff"]
  /\ attempt' = [attempt EXCEPT ![c] = @ + 1]
  /\ tail' = Tail(tail)
  /\ UNCHANGED <<lane, answer, record_vars, chain_vars, receipts, restarts>>

Send(c) ==
  /\ status' = [status EXCEPT ![CurrentTx(c)] = "in_flight"]
  /\ own' = own \cup {CurrentTx(c)}
  /\ pending' = [tx |-> CurrentTx(c), phase |-> "submitted"]
  /\ pc' = [pc EXCEPT ![c] = "await_response"]
  /\ UNCHANGED <<client_vars, answer, tail>>

(* setItem changes the store's `data` before it writes the file, so a failed
   write leaves the record in memory while the transaction is not sent. *)
RecordAndSend(c) == \E written \in DiskOutcomes :
  /\ journal' = CurrentTx(c)
  /\ \/ /\ written
        /\ file' = CurrentTx(c)
        /\ Send(c)
     \/ /\ ~written
        /\ Settle(c, "refused")
        /\ UNCHANGED <<file, pending, chain_vars>>

(* submit: an unresolved record refuses, else the digest is recorded and the
   transaction sent. *)
Submit(c) ==
  /\ AtHead(c) /\ pc[c] = "submit"
  /\ IF ReadPending.phase \in {"none", "visible"}
       THEN RecordAndSend(c)
       ELSE Settle(c, "refused") /\ UNCHANGED <<record_vars, chain_vars>>
  /\ UNCHANGED <<receipts, restarts>>

(* The receipt arrives, in the response or by digest, and is accepted. *)
Receipt(c) ==
  /\ AtHead(c) /\ pc[c] \in {"await_response", "recover"}
  /\ status[CurrentTx(c)] = "executed"
  /\ \E written \in DiskOutcomes :
       /\ Accept(CurrentTx(c), "visible", written)
       /\ Settle(c, IF written THEN "receipt" ELSE "unknown")
  /\ UNCHANGED <<chain_vars, restarts>>

(* Mutant: a lost response is taken for a refusal and the door runs again. *)
NoResponse_Resend(c) ==
  /\ AtHead(c) /\ pc[c] = "await_response"
  /\ c \in Kiosk /\ attempt[c] < MaxRetries
  /\ pc' = [pc EXCEPT ![c] = "backoff"]
  /\ attempt' = [attempt EXCEPT ![c] = @ + 1]
  /\ tail' = Tail(tail)
  /\ pending' = Nothing
  /\ Forget(TRUE)
  /\ UNCHANGED <<lane, answer, chain_vars, receipts, restarts>>

(* The response is late, lost or unusable: ask for the digest instead. *)
NoResponse(c) ==
  /\ AtHead(c) /\ pc[c] = "await_response"
  /\ pc' = [pc EXCEPT ![c] = "recover"]
  /\ UNCHANGED <<client_vars, answer, tail, record_vars, chain_vars, receipts, restarts>>

(* Mutant: giving up drops the evidence. *)
OutcomeUnknown_Forgets(c) ==
  /\ AtHead(c) /\ pc[c] = "recover"
  /\ Settle(c, "unknown")
  /\ pending' = Nothing
  /\ Forget(TRUE)
  /\ UNCHANGED <<chain_vars, receipts, restarts>>

(* The digest is not found either: "transaction outcome unknown".  The record
   stays. *)
OutcomeUnknown(c) ==
  /\ AtHead(c) /\ pc[c] = "recover"
  /\ Settle(c, "unknown")
  /\ UNCHANGED <<record_vars, chain_vars, receipts, restarts>>

-----------------------------------------------------------------------------
(* The chain and the process *)

Execute(t) ==
  /\ status[t] = "in_flight"
  /\ status' = [status EXCEPT ![t] = "executed"]
  /\ UNCHANGED <<pc, client_vars, answer, tail, record_vars, own, receipts, restarts>>

(* The request never reaches a validator, or the chain never takes it. *)
Lose(t) ==
  /\ status[t] = "in_flight"
  /\ status' = [status EXCEPT ![t] = "lost"]
  /\ UNCHANGED <<pc, client_vars, answer, tail, record_vars, own, receipts, restarts>>

(* The process dies and starts again.  Memory is gone, and with it every call
   that was under way; play_loop discards the journal it finds, unless the
   file system refuses. *)
Restart ==
  /\ restarts < MaxRestarts
  /\ restarts' = restarts + 1
  /\ \E discarded \in DiskOutcomes :
       /\ file' = IF discarded THEN NoTx ELSE file
       /\ journal' = file'
  /\ pending' = Nothing
  /\ lane' = <<>>
  /\ tail' = <<>>
  /\ own' = {}
  /\ receipts' = [t \in Tx |-> 0]
  /\ pc' = [c \in Calls |-> IF pc[c] = "new" THEN "new" ELSE "done"]
  /\ answer' = [c \in Calls |-> IF pc[c] \in {"new", "done"} THEN answer[c] ELSE "unknown"]
  /\ UNCHANGED <<attempt, status>>

-----------------------------------------------------------------------------
Answered(c) == PreviousVisible(c) \/ PreviousNotVisible(c) \/ RecoverPrevious(c) \/ PreviousUnknown(c)
Prepares(c) == Prepared(c) \/ PrepareFails(c) \/ VersionRace(c)
Awaits(c)   == Receipt(c) \/ NoResponse(c) \/ OutcomeUnknown(c)

Step(c) == \/ Compose(c) \/ ComposeFails(c)
           \/ BeforeNext(c) \/ Answered(c)
           \/ Prepares(c)
           \/ Submit(c)
           \/ Awaits(c)

Next == \/ \E c \in Calls : Request(c) \/ Step(c)
        \/ \E t \in Tx : Execute(t) \/ Lose(t)
        \/ Restart

Spec == Init /\ [][Next]_vars

(* Every await in the code is bounded (bounded_request, the waitForTransaction
   timeouts) and the promise queues are FIFO: each call's next step is taken. *)
FairSpec == Spec /\ \A c \in Calls : WF_vars(Step(c))

-----------------------------------------------------------------------------
(* Properties *)

Sent(t) == status[t] # "unsent"

(* "Submit once": whatever races, times out or crashes, at most one of the
   attempts of a door call ever leaves the bot (with_version_retry,
   pre_submission_version_race: a submitted failure is never retried). *)
AtMostOneAttemptSent ==
  \A c \in Calls : \A m, n \in Attempts : Sent(<<c, m>>) /\ Sent(<<c, n>>) => m = n

(* What the caller is told is true for ever: a refused call was never sent, and
   a call answered with a receipt executed (the "NOT submitted" errors of
   transaction_error.ts and of before_next against "outcome unknown"). *)
AnswersAreTrue ==
  \A c \in Calls :
    /\ answer[c] = "refused" => \A n \in Attempts : ~Sent(<<c, n>>)
    /\ answer[c] = "receipt" => \E n \in Attempts : status[<<c, n>>] = "executed"

(* Evidence comes before the send and outlives the doubt: a transaction this
   process sent and has not accounted for is the one the journal names, in
   memory and on disk (submit, accept). *)
EvidenceBeforeSend ==
  \A t \in own : receipts[t] = 0 => journal = t /\ file = t

(* The receipt pipeline is fed once per transaction (create_transaction_execution:
   "then feed the ordinary receipt pipeline once"). *)
ReceiptFedOnce == \A t \in Tx : receipts[t] <= 1

(* The records of the layer are right: evidence before the send, and one receipt. *)
RecordsHold == EvidenceBeforeSend /\ ReceiptFedOnce

(* Kiosk calls are composed AND executed one at a time (serialize_actions): no
   transaction is composed while another that bakes in the cap is under way. *)
KioskSerialized ==
  \A c, d \in Kiosk : {pc[c], pc[d]} \subseteq {"queued"} \cup Running => c = d

(* No transaction leaves while the outcome of an earlier one of this process is
   open (before_next, submit): what is sent was planned on known state. *)
NoSendOverUnresolved ==
  [][\A t \in Tx : ~Sent(t) /\ Sent(t)' => \A u \in own : status[u] = "executed"]_vars

(* Every call that is asked is answered (enqueue absorbs rejections, every wait
   is bounded): no call starves behind one that fails. *)
EveryCallAnswered == \A c \in Calls : pc[c] # "new" ~> pc[c] = "done"

(* The layer implements the promise its callers rely on: at most one effect per
   call, and truthful answers. *)
Promise == INSTANCE TxOutcome
             WITH effects <- [c \in Calls |-> {n \in Attempts : status[<<c, n>>] = "executed"}]
KeepsPromise == Promise!Spec
=============================================================================
