--------------------------- MODULE Network_proofs ---------------------------
(***************************************************************************)
(* Proofs about the network of the bot: the execution of transactions       *)
(* (TxExecution), for any set of calls, any number of retries and restarts, *)
(* with and without a failing disk, and the link to the server              *)
(* (ServerLink), for any back-off cap, any gate and any bound on the faults *)
(* of the signer.                                                           *)
(***************************************************************************)
EXTENDS TxExecution, ServerLink, SequenceTheorems, TLAPS

-----------------------------------------------------------------------------
(* Transactions: the inductive invariant, in named parts. *)

(* A lane call under way is the one that holds the lane. *)
LaneHeld == \A c \in Kiosk :
  pc[c] \in {"queued", "backoff"} \cup Running => lane # <<>> /\ Head(lane) = c

(* A call that runs is the head of the execution tail. *)
RunsAtHead == \A c \in Calls : pc[c] \in Running => AtHead(c)

(* Only the current attempt can have been sent, and only after submit. *)
SentIsCurrent == \A c \in Calls : \A n \in Attempts :
  Sent(<<c, n>>) => n = attempt[c] /\ pc[c] \in {"await_response", "recover", "done"}

Unanswered == \A c \in Calls : pc[c] # "done" => answer[c] = "none"

(* While a response is awaited the journal names the transaction. *)
AwaitedIsRecorded == \A c \in Calls :
  pc[c] \in {"await_response", "recover"} => journal = CurrentTx(c)

RecordBacksPending == pending.phase = "submitted" => journal # NoTx

RecoveringHasRecord == \A c \in Calls : pc[c] = "recover_previous" => journal # NoTx

(* A recorded transaction was not yet fed to the pipeline ... *)
RecordNotFed == journal # NoTx => receipts[journal] = 0

(* ... and what was fed has executed. *)
FedIsExecuted == \A t \in Tx : receipts[t] > 0 => status[t] = "executed"

QueueInv  == LaneHeld /\ RunsAtHead
CallInv   == SentIsCurrent /\ Unanswered
RecordInv == AwaitedIsRecorded /\ RecordBacksPending /\ RecoveringHasRecord
             /\ RecordNotFed /\ FedIsExecuted

IInv == TypeOK /\ QueueInv /\ CallInv /\ RecordInv
        /\ AnswersAreTrue /\ EvidenceBeforeSend /\ ReceiptFedOnce

-----------------------------------------------------------------------------
USE DEF vars, client_vars, record_vars, chain_vars

(* Joining a queue leaves its head alone. *)
LEMMA Joining ==
  ASSUME NEW q \in Seq(Calls), NEW e \in Calls
  PROVE  Append(q, e) \in Seq(Calls) /\ Append(q, e) # <<>> /\ (q # <<>> => Head(Append(q, e)) = Head(q))
<1>1. Append(q, e) \in Seq(Calls) /\ Append(q, e) # <<>> /\ \A i \in 1 .. Len(q) : Append(q, e)[i] = q[i]
  BY AppendProperties
<1>2. q # <<>> => Len(q) \in Nat \ {0}
  BY EmptySeq
<1>3. q # <<>> => 1 \in 1 .. Len(q)
  BY <1>2
<1> QED
  BY <1>1, <1>3

(* A process that has just been started satisfies the invariant. *)
LEMMA InitEstablishesIInv == Init => IInv
<1> SUFFICES ASSUME Init PROVE IInv
  OBVIOUS
<1>1. TypeOK
  BY TxAssumption DEF Init, TypeOK, PCs, Phases, Nothing, Attempts
<1>2. QueueInv
  BY TxAssumption DEF Init, QueueInv, LaneHeld, RunsAtHead, Running
<1>3. CallInv /\ AnswersAreTrue
  BY DEF Init, CallInv, SentIsCurrent, Unanswered, Sent, AnswersAreTrue, Tx
<1>4. RecordInv /\ EvidenceBeforeSend /\ ReceiptFedOnce
  BY DEF Init, RecordInv, AwaitedIsRecorded, RecordBacksPending, RecoveringHasRecord,
     RecordNotFed, FedIsExecuted, EvidenceBeforeSend, ReceiptFedOnce, Nothing
<1> QED
  BY <1>1, <1>2, <1>3, <1>4 DEF IInv

(* Settling takes the call off the heads of the queues it holds. *)
LEMMA SettleTyped ==
  ASSUME TypeOK, QueueInv, NEW c \in Calls, AtHead(c), pc[c] \in {"queued"} \cup Running,
         NEW a \in {"receipt", "refused", "unknown"}, Settle(c, a)
  PROVE  /\ pc' \in [Calls -> PCs]
         /\ answer' \in [Calls -> {"none", "receipt", "refused", "unknown"}]
         /\ lane' \in Seq(Calls)
         /\ tail' \in Seq(Calls)
         /\ attempt' \in [Calls -> Attempts]
<1>1. tail # <<>> /\ (c \in Kiosk => lane # <<>>)
  BY DEF AtHead, QueueInv, LaneHeld
<1> QED
  BY <1>1 DEF Settle, TypeOK, PCs

(* A call that settles leaves the head of both queues to the next one. *)
LEMMA SettleQueues ==
  ASSUME TypeOK, QueueInv, NEW c \in Calls, AtHead(c), pc[c] \in {"queued"} \cup Running,
         NEW a, Settle(c, a)
  PROVE  QueueInv'
<1>1. \A d \in Calls \ {c} : pc[d] \notin Running
  BY DEF QueueInv, RunsAtHead, AtHead
<1>2. RunsAtHead'
  BY <1>1 DEF Settle, RunsAtHead, Running, TypeOK
<1>3. LaneHeld'
  <2> SUFFICES ASSUME NEW d \in Kiosk, pc'[d] \in {"queued", "backoff"} \cup Running
               PROVE  lane' # <<>> /\ Head(lane') = d
    BY DEF LaneHeld
  <2>1. d # c /\ pc[d] \in {"queued", "backoff"} \cup Running
    BY TxAssumption DEF Settle, TypeOK, Running
  <2>2. lane # <<>> /\ Head(lane) = d
    BY <2>1 DEF QueueInv, LaneHeld
  <2>3. c \notin Kiosk
    BY <2>1, <2>2 DEF QueueInv, LaneHeld
  <2> QED
    BY <2>2, <2>3 DEF Settle
<1> QED
  BY <1>2, <1>3 DEF QueueInv

-----------------------------------------------------------------------------
(* The case analysis on a step, used by each of the lemmas below. *)
LEMMA NextCases ==
  ASSUME [Next]_vars
  PROVE  \/ \E c \in Calls :
              \/ Request(c) \/ Compose(c) \/ ComposeFails(c)
              \/ BeforeNext(c) \/ PreviousVisible(c) \/ PreviousNotVisible(c)
              \/ RecoverPrevious(c) \/ PreviousUnknown(c)
              \/ Prepared(c) \/ PrepareFails(c) \/ VersionRace(c) \/ Submit(c)
              \/ Receipt(c) \/ NoResponse(c) \/ OutcomeUnknown(c)
         \/ \E t \in Tx : Execute(t) \/ Lose(t)
         \/ Restart
         \/ UNCHANGED vars
  BY DEF Next, Step, Answered, Prepares, Awaits

(* accept keeps the receipt counts and the records well typed. *)
LEMMA AcceptTyped ==
  ASSUME TypeOK, NEW t \in Tx \cup {NoTx}, NEW phase \in Phases, NEW written \in BOOLEAN,
         Accept(t, phase, written)
  PROVE  /\ receipts' \in [Tx -> Nat]
         /\ pending' \in [tx : Tx \cup {NoTx}, phase : Phases]
         /\ journal' \in Tx \cup {NoTx}
         /\ file' \in Tx \cup {NoTx}
<1>1. receipts' \in [Tx -> Nat]
  <2>1. receipts \in [Tx -> Nat] /\ receipts' = [receipts EXCEPT ![t] = receipts[t] + 1]
    BY DEF Accept, TypeOK
  <2>2. \A u \in Tx : receipts'[u] \in Nat
    BY <2>1
  <2> QED
    BY <2>1, <2>2
<1>2. pending' \in [tx : Tx \cup {NoTx}, phase : Phases]
  BY DEF Accept, Phases
<1> QED
  BY <1>1, <1>2 DEF Accept, Forget, TypeOK

(* Every step keeps the types; a call takes itself off the queues it heads. *)
LEMMA TypeStep == TypeOK /\ QueueInv /\ [Next]_vars => TypeOK'
<1> SUFFICES ASSUME TypeOK, QueueInv, [Next]_vars PROVE TypeOK'
  OBVIOUS
<1>1. ASSUME NEW c \in Calls, Request(c) PROVE TypeOK'
  <2>1. lane' \in Seq(Calls) /\ tail' \in Seq(Calls)
    BY <1>1, Joining DEF Request, TypeOK
  <2> QED
    BY <1>1, <2>1 DEF Request, TypeOK, PCs
<1>2. ASSUME NEW c \in Calls, Compose(c) \/ ComposeFails(c) PROVE TypeOK'
  <2>1. tail' \in Seq(Calls)
    BY <1>2, Joining DEF Compose, ComposeFails, TypeOK
  <2>2. lane' \in Seq(Calls)
    <3>1. lane # <<>> => Tail(lane) \in Seq(Calls)
      BY HeadTailProperties DEF TypeOK
    <3> QED
      BY <1>2, <3>1 DEF Compose, ComposeFails, TypeOK
  <2> QED
    BY <1>2, <2>1, <2>2 DEF Compose, ComposeFails, TypeOK, PCs
<1>3. ASSUME NEW c \in Calls, BeforeNext(c) PROVE TypeOK'
  <2>1. CASE pc'[c] # "done"
    BY <1>3, <2>1 DEF BeforeNext, Settle, TypeOK, PCs
  <2>2. CASE Settle(c, "refused")
    BY <1>3, <2>2, SettleTyped DEF BeforeNext, TypeOK
  <2> QED
    BY <1>3, <2>1, <2>2 DEF BeforeNext, TypeOK, PCs
<1>4. ASSUME NEW c \in Calls, PreviousVisible(c) PROVE TypeOK'
  BY <1>4 DEF PreviousVisible, TypeOK, PCs, Nothing, Phases
<1>5. ASSUME NEW c \in Calls, PreviousNotVisible(c) \/ PreviousUnknown(c) \/ PrepareFails(c)
             \/ OutcomeUnknown(c)
      PROVE  TypeOK'
  BY <1>5, SettleTyped
  DEF PreviousNotVisible, PreviousUnknown, PrepareFails, OutcomeUnknown, Running, TypeOK
<1>6. ASSUME NEW c \in Calls, RecoverPrevious(c) PROVE TypeOK'
  <2>1. ReadPending.tx \in Tx \cup {NoTx}
    BY DEF ReadPending, TypeOK
  <2> QED
    <3>1. PICK written \in BOOLEAN : Accept(ReadPending.tx, "recovered", written)
      BY <1>6 DEF RecoverPrevious, DiskOutcomes
    <3>2. /\ receipts' \in [Tx -> Nat] /\ pending' \in [tx : Tx \cup {NoTx}, phase : Phases]
          /\ journal' \in Tx \cup {NoTx} /\ file' \in Tx \cup {NoTx}
      BY <2>1, <3>1, AcceptTyped DEF Phases
    <3> QED
      BY <1>6, <3>2, SettleTyped DEF RecoverPrevious, Running, TypeOK
<1>7. ASSUME NEW c \in Calls, Prepared(c) \/ VersionRace(c) \/ NoResponse(c) PROVE TypeOK'
  <2>1. CASE VersionRace(c)
    <3>1. tail' \in Seq(Calls)
      BY <2>1 DEF VersionRace, AtHead, TypeOK
    <3>2. attempt' \in [Calls -> Attempts]
      BY <2>1, TxAssumption DEF VersionRace, MayRetry, TypeOK, Attempts
    <3> QED
      BY <2>1, <3>1, <3>2 DEF VersionRace, TypeOK, PCs
  <2> QED
    BY <1>7, <2>1 DEF Prepared, NoResponse, TypeOK, PCs
<1>8. ASSUME NEW c \in Calls, Submit(c) PROVE TypeOK'
  <2>1. CurrentTx(c) \in Tx
    BY DEF CurrentTx, Tx, TypeOK
  <2>2. CASE Settle(c, "refused")
    <3>1. /\ journal' \in Tx \cup {NoTx} /\ UNCHANGED <<file, pending, status, own, receipts, restarts>>
      BY <1>8, <2>1, <2>2 DEF Submit, RecordAndSend, Send, Settle, TypeOK
    <3> QED
      BY <1>8, <2>2, <3>1, SettleTyped DEF Submit, Running, TypeOK
  <2>3. CASE Send(c)
    BY <1>8, <2>1, <2>3 DEF Submit, RecordAndSend, Settle, Send, TypeOK, PCs, Phases
  <2> QED
    BY <1>8, <2>2, <2>3 DEF Submit, RecordAndSend
<1>9. ASSUME NEW c \in Calls, Receipt(c) PROVE TypeOK'
  <2>1. CurrentTx(c) \in Tx
    BY DEF CurrentTx, Tx, TypeOK
  <2> QED
    <3>1. PICK written \in BOOLEAN : Accept(CurrentTx(c), "visible", written)
                                    /\ Settle(c, IF written THEN "receipt" ELSE "unknown")
      BY <1>9 DEF Receipt, DiskOutcomes
    <3>2. /\ receipts' \in [Tx -> Nat] /\ pending' \in [tx : Tx \cup {NoTx}, phase : Phases]
          /\ journal' \in Tx \cup {NoTx} /\ file' \in Tx \cup {NoTx}
      BY <2>1, <3>1, AcceptTyped DEF Phases
    <3>3. /\ pc' \in [Calls -> PCs] /\ lane' \in Seq(Calls) /\ tail' \in Seq(Calls)
          /\ answer' \in [Calls -> {"none", "receipt", "refused", "unknown"}]
          /\ attempt' \in [Calls -> Attempts]
      BY <1>9, <3>1, SettleTyped DEF Receipt, Running
    <3> QED
      BY <1>9, <3>2, <3>3 DEF Receipt, TypeOK
<1>10. ASSUME NEW t \in Tx, Execute(t) \/ Lose(t) PROVE TypeOK'
  BY <1>10 DEF Execute, Lose, TypeOK
<1>11. CASE Restart
  BY <1>11, TxAssumption DEF Restart, TypeOK, PCs, Phases, Nothing, DiskOutcomes
<1>12. CASE UNCHANGED vars
  BY <1>12 DEF TypeOK
<1> QED
  BY NextCases, <1>1, <1>2, <1>3, <1>4, <1>5, <1>6, <1>7, <1>8, <1>9, <1>10, <1>11, <1>12

(* Every step keeps the running call at the head of its queues. *)
LEMMA QueueStep == TypeOK /\ QueueInv /\ [Next]_vars => QueueInv'
<1> SUFFICES ASSUME TypeOK, QueueInv, [Next]_vars PROVE QueueInv'
  OBVIOUS
<1> USE DEF QueueInv
<1>1. ASSUME NEW c \in Calls, Request(c) PROVE QueueInv'
  <2>1. RunsAtHead'
    <3>1. \A d \in Calls : pc'[d] \in Running => pc[d] \in Running
      BY <1>1 DEF Request, TypeOK, Running
    <3>2. /\ tail # <<>> => tail' # <<>> /\ Head(tail') = Head(tail)
          /\ lane # <<>> => lane' # <<>> /\ Head(lane') = Head(lane)
      BY <1>1, Joining DEF Request, TypeOK
    <3> QED
      BY <3>1, <3>2 DEF RunsAtHead, AtHead
  <2>2. LaneHeld'
    <3>1. \A d \in Kiosk : pc'[d] \in {"queued", "backoff"} \cup Running =>
            pc[d] \in {"queued", "backoff"} \cup Running
      BY <1>1, TxAssumption DEF Request, TypeOK, Running
    <3>2. lane # <<>> => lane' # <<>> /\ Head(lane') = Head(lane)
      BY <1>1, Joining DEF Request, TypeOK
    <3> QED
      BY <3>1, <3>2 DEF LaneHeld
  <2> QED
    BY <2>1, <2>2
<1>2. ASSUME NEW c \in Calls, Compose(c) PROVE QueueInv'
  <2>1. /\ Head(tail') = IF tail = <<>> THEN c ELSE Head(tail)
        /\ tail' # <<>>
    BY <1>2 DEF Compose, TypeOK
  <2>2. \A d \in Calls : pc'[d] = IF d = c THEN "queued" ELSE pc[d]
    BY <1>2 DEF Compose, TypeOK
  <2>3. RunsAtHead'
    BY <2>1, <2>2 DEF RunsAtHead, Running, AtHead
  <2>4. LaneHeld'
    BY <1>2, <2>2, TxAssumption DEF Compose, LaneHeld, Running
  <2> QED
    BY <2>3, <2>4
<1>3. ASSUME NEW c \in Calls, ComposeFails(c) PROVE QueueInv'
  BY <1>3, TxAssumption DEF ComposeFails, TypeOK, LaneHeld, RunsAtHead, Running, AtHead
<1>4. ASSUME NEW c \in Calls, BeforeNext(c) PROVE QueueInv'
  <2>1. CASE Settle(c, "refused")
    BY <1>4, <2>1, SettleQueues DEF BeforeNext
  <2>2. CASE UNCHANGED <<tail, lane>> /\ \E p \in Running : pc' = [pc EXCEPT ![c] = p]
    BY <1>4, <2>2, TxAssumption DEF BeforeNext, TypeOK, LaneHeld, RunsAtHead, AtHead
  <2> QED
    BY <1>4, <2>1, <2>2 DEF BeforeNext, Running
<1>5. ASSUME NEW c \in Calls, PreviousVisible(c) \/ Prepared(c) \/ NoResponse(c) PROVE QueueInv'
  BY <1>5, TxAssumption
  DEF PreviousVisible, Prepared, NoResponse, TypeOK, LaneHeld, RunsAtHead, Running, AtHead
<1>6. ASSUME NEW c \in Calls, PreviousNotVisible(c) \/ PreviousUnknown(c) \/ PrepareFails(c)
             \/ OutcomeUnknown(c)
      PROVE  QueueInv'
  BY <1>6, SettleQueues DEF PreviousNotVisible, PreviousUnknown, PrepareFails, OutcomeUnknown, Running
<1>7. ASSUME NEW c \in Calls, RecoverPrevious(c) \/ Receipt(c) PROVE QueueInv'
  BY <1>7, SettleQueues DEF RecoverPrevious, Receipt, Running
<1>8. ASSUME NEW c \in Calls, VersionRace(c) PROVE QueueInv'
  <2>1. \A d \in Calls \ {c} : pc[d] \notin Running
    BY <1>8 DEF VersionRace, RunsAtHead, AtHead
  <2> QED
    BY <1>8, <2>1, TxAssumption DEF VersionRace, MayRetry, TypeOK, LaneHeld, RunsAtHead, Running
<1>9. ASSUME NEW c \in Calls, Submit(c) PROVE QueueInv'
  <2>1. CASE Settle(c, "refused")
    BY <1>9, <2>1, SettleQueues DEF Submit, Running
  <2>2. CASE Send(c)
    BY <1>9, <2>2, TxAssumption DEF Submit, Send, TypeOK, LaneHeld, RunsAtHead, Running, AtHead
  <2> QED
    BY <1>9, <2>1, <2>2 DEF Submit, RecordAndSend
<1>10. ASSUME NEW t \in Tx, Execute(t) \/ Lose(t) PROVE QueueInv'
  BY <1>10 DEF Execute, Lose, LaneHeld, RunsAtHead, AtHead
<1>11. CASE Restart
  BY <1>11, TxAssumption DEF Restart, LaneHeld, RunsAtHead, Running
<1>12. CASE UNCHANGED vars
  BY <1>12 DEF LaneHeld, RunsAtHead, AtHead
<1> QED
  BY NextCases, <1>1, <1>2, <1>3, <1>4, <1>5, <1>6, <1>7, <1>8, <1>9, <1>10, <1>11, <1>12

-----------------------------------------------------------------------------
(* A call that has sent nothing may be refused. *)
LEMMA Refusing ==
  ASSUME TypeOK, CallInv, AnswersAreTrue, NEW c \in Calls,
         pc[c] \notin {"await_response", "recover", "done"},
         pc' = [pc EXCEPT ![c] = "done"], answer' = [answer EXCEPT ![c] = "refused"],
         UNCHANGED <<attempt, status>>
  PROVE  CallInv' /\ AnswersAreTrue'
<1>1. \A n \in Attempts : ~Sent(<<c, n>>)
  BY DEF CallInv, SentIsCurrent
<1>2. CallInv'
  BY <1>1 DEF CallInv, SentIsCurrent, Unanswered, Sent, TypeOK
<1>3. AnswersAreTrue'
  BY <1>1 DEF AnswersAreTrue, Sent, TypeOK
<1> QED
  BY <1>2, <1>3

(* A call that moves on without sending, answering or retrying. *)
LEMMA MovesOn ==
  ASSUME TypeOK, CallInv, AnswersAreTrue, UNCHANGED <<answer, attempt, status>>,
         NEW c \in Calls, NEW p \in PCs \ {"done"}, pc' = [pc EXCEPT ![c] = p],
         pc[c] # "done",
         pc[c] \in {"await_response", "recover"} => p \in {"await_response", "recover"}
  PROVE  CallInv' /\ AnswersAreTrue'
<1>1. \A d \in Calls : pc'[d] = IF d = c THEN p ELSE pc[d]
  BY DEF TypeOK
<1>2. CallInv'
  BY <1>1 DEF CallInv, SentIsCurrent, Unanswered, Sent, PCs
<1>3. AnswersAreTrue'
  BY DEF AnswersAreTrue, Sent
<1> QED
  BY <1>2, <1>3

(* Every step keeps a call to one sent attempt, and its answer true. *)
LEMMA CallStep ==
  TypeOK /\ CallInv /\ AnswersAreTrue /\ [Next]_vars => CallInv' /\ AnswersAreTrue'
<1> SUFFICES ASSUME TypeOK, CallInv, AnswersAreTrue, [Next]_vars PROVE CallInv' /\ AnswersAreTrue'
  OBVIOUS
<1>1. ASSUME NEW c \in Calls, Request(c) \/ Compose(c) PROVE CallInv' /\ AnswersAreTrue'
  BY <1>1, MovesOn DEF Request, Compose, PCs
<1>2. ASSUME NEW c \in Calls, ComposeFails(c) PROVE CallInv' /\ AnswersAreTrue'
  BY <1>2, Refusing DEF ComposeFails
<1>3. ASSUME NEW c \in Calls, BeforeNext(c) PROVE CallInv' /\ AnswersAreTrue'
  <2>1. CASE Settle(c, "refused")
    BY <1>3, <2>1, Refusing DEF BeforeNext, Settle
  <2>2. CASE /\ UNCHANGED <<answer, attempt>>
              /\ \E p \in {"prepare", "await_visible", "recover_previous"} :
                   pc' = [pc EXCEPT ![c] = p]
    <3>1. PICK p \in {"prepare", "await_visible", "recover_previous"} : pc' = [pc EXCEPT ![c] = p]
      BY <2>2
    <3>2. p \in PCs \ {"done"} /\ pc[c] = "queued" /\ UNCHANGED status
      BY <1>3 DEF BeforeNext, PCs
    <3> QED
      BY <2>2, <3>1, <3>2, MovesOn
  <2> QED
    BY <1>3, <2>1, <2>2 DEF BeforeNext
<1>4. ASSUME NEW c \in Calls, PreviousVisible(c) \/ Prepared(c) \/ NoResponse(c)
      PROVE  CallInv' /\ AnswersAreTrue'
  BY <1>4, MovesOn DEF PreviousVisible, Prepared, NoResponse, PCs
<1>5. ASSUME NEW c \in Calls, PreviousNotVisible(c) \/ PreviousUnknown(c) \/ PrepareFails(c)
             \/ RecoverPrevious(c)
      PROVE  CallInv' /\ AnswersAreTrue'
  BY <1>5, Refusing
  DEF PreviousNotVisible, PreviousUnknown, PrepareFails, RecoverPrevious, Settle
<1>6. ASSUME NEW c \in Calls, OutcomeUnknown(c) PROVE CallInv' /\ AnswersAreTrue'
  <2>1. /\ \A d \in Calls : pc'[d] = IF d = c THEN "done" ELSE pc[d]
        /\ \A d \in Calls : answer'[d] = IF d = c THEN "unknown" ELSE answer[d]
        /\ UNCHANGED <<attempt, status>>
    BY <1>6 DEF OutcomeUnknown, Settle, TypeOK
  <2>2. CallInv'
    BY <2>1 DEF CallInv, SentIsCurrent, Unanswered, Sent
  <2>3. AnswersAreTrue'
    BY <2>1 DEF AnswersAreTrue, Sent
  <2> QED
    BY <2>2, <2>3
<1>7. ASSUME NEW c \in Calls, VersionRace(c) PROVE CallInv' /\ AnswersAreTrue'
  <2>1. \A n \in Attempts : ~Sent(<<c, n>>)
    BY <1>7 DEF VersionRace, MayRetry, CallInv, SentIsCurrent
  <2>2. pc' = [pc EXCEPT ![c] = "backoff"] /\ pc[c] = "prepare" /\ UNCHANGED <<answer, status>>
        /\ attempt' = [attempt EXCEPT ![c] = attempt[c] + 1]
    BY <1>7 DEF VersionRace, MayRetry
  <2> QED
    BY <2>1, <2>2 DEF CallInv, SentIsCurrent, Unanswered, AnswersAreTrue, Sent, TypeOK
<1>8. ASSUME NEW c \in Calls, Submit(c) PROVE CallInv' /\ AnswersAreTrue'
  <2>1. CASE Settle(c, "refused") /\ UNCHANGED status
    BY <1>8, <2>1, Refusing DEF Submit, Settle
  <2>2. CASE Send(c)
    <3>1. answer[c] = "none" /\ pc[c] = "submit"
      BY <1>8 DEF Submit, CallInv, Unanswered
    <3>2. /\ pc' = [pc EXCEPT ![c] = "await_response"] /\ UNCHANGED <<answer, attempt>>
          /\ status' = [status EXCEPT ![<<c, attempt[c]>>] = "in_flight"]
      BY <2>2 DEF Send, CurrentTx
    <3>3. \A u \in Tx : u # <<c, attempt[c]>> => status'[u] = status[u]
      BY <3>2 DEF TypeOK
    <3>4. CallInv'
      BY <3>1, <3>2, <3>3 DEF CallInv, SentIsCurrent, Unanswered, Sent, TypeOK, Tx
    <3>5. AnswersAreTrue'
      <4> SUFFICES ASSUME NEW d \in Calls
                   PROVE  /\ answer[d] = "refused" => \A n \in Attempts : ~Sent(<<d, n>>)'
                          /\ answer[d] = "receipt" =>
                               \E n \in Attempts : status'[<<d, n>>] = "executed"
        BY <3>2 DEF AnswersAreTrue
      <4>1. CASE d = c
        BY <3>1, <4>1
      <4>2. CASE d # c
        <5>1. \A n \in Attempts : status'[<<d, n>>] = status[<<d, n>>]
          BY <3>3, <4>2 DEF Tx
        <5> QED
          BY <5>1 DEF AnswersAreTrue, Sent
      <4> QED
        BY <4>1, <4>2
    <3> QED
      BY <3>4, <3>5
  <2> QED
    BY <1>8, <2>1, <2>2 DEF Submit, RecordAndSend
<1>9. ASSUME NEW c \in Calls, Receipt(c) PROVE CallInv' /\ AnswersAreTrue'
  <2>1. PICK a \in {"receipt", "unknown"} : Settle(c, a)
    BY <1>9 DEF Receipt
  <2>2. /\ pc' = [pc EXCEPT ![c] = "done"] /\ answer' = [answer EXCEPT ![c] = a]
        /\ UNCHANGED <<attempt, status>>
    BY <1>9, <2>1 DEF Receipt, Settle
  <2>3. attempt[c] \in Attempts /\ status[<<c, attempt[c]>>] = "executed"
    BY <1>9 DEF Receipt, CurrentTx, TypeOK
  <2>4. CallInv'
    BY <1>9, <2>2 DEF Receipt, CallInv, SentIsCurrent, Unanswered, Sent, TypeOK
  <2>5. AnswersAreTrue'
    <3>1. \A d \in Calls : answer'[d] = IF d = c THEN a ELSE answer[d]
      BY <2>2 DEF TypeOK
    <3> QED
      BY <2>1, <2>2, <2>3, <3>1 DEF AnswersAreTrue, Sent
  <2> QED
    BY <2>4, <2>5
<1>10. ASSUME NEW t \in Tx, Execute(t) \/ Lose(t) PROVE CallInv' /\ AnswersAreTrue'
  <2>1. \A u \in Tx : (Sent(u)' <=> Sent(u)) /\ (status[u] = "executed" => status'[u] = "executed")
    BY <1>10 DEF Execute, Lose, Sent, TypeOK
  <2> QED
    BY <1>10, <2>1 DEF Execute, Lose, CallInv, SentIsCurrent, Unanswered, AnswersAreTrue, Tx
<1>11. CASE Restart
  <2>1. /\ \A c \in Calls : pc'[c] = IF pc[c] = "new" THEN "new" ELSE "done"
        /\ \A c \in Calls :
             answer'[c] = IF pc[c] \in {"new", "done"} THEN answer[c] ELSE "unknown"
        /\ UNCHANGED <<attempt, status>>
    BY <1>11 DEF Restart
  <2>2. CallInv'
    BY <2>1 DEF CallInv, SentIsCurrent, Unanswered, Sent
  <2>3. AnswersAreTrue'
    BY <2>1 DEF AnswersAreTrue, Sent
  <2> QED
    BY <2>2, <2>3
<1>12. CASE UNCHANGED vars
  BY <1>12 DEF CallInv, SentIsCurrent, Unanswered, AnswersAreTrue, Sent
<1> QED
  BY NextCases, <1>1, <1>2, <1>3, <1>4, <1>5, <1>6, <1>7, <1>8, <1>9, <1>10, <1>11, <1>12

-----------------------------------------------------------------------------
Records == RecordInv /\ EvidenceBeforeSend /\ ReceiptFedOnce

(* Steps that leave the records and the chain alone. *)
LEMMA RecordsKept ==
  ASSUME Records, UNCHANGED <<pending, journal, file, status, own, receipts>>,
         \A d \in Calls : pc'[d] \in {"await_response", "recover"} =>
           pc[d] \in {"await_response", "recover"} /\ attempt'[d] = attempt[d],
         \A d \in Calls : pc'[d] = "recover_previous" =>
           pc[d] = "recover_previous" \/ journal # NoTx
  PROVE  Records'
  BY DEF Records, RecordInv, AwaitedIsRecorded, RecordBacksPending, RecoveringHasRecord,
     RecordNotFed, FedIsExecuted, EvidenceBeforeSend, ReceiptFedOnce, CurrentTx

(* Accepting the recorded transaction closes the only open account. *)
LEMMA Accepting ==
  ASSUME TypeOK, QueueInv, Records, NEW c \in Calls, AtHead(c), journal \in Tx,
         status[journal] = "executed", NEW phase \in {"visible", "recovered"}, NEW written \in BOOLEAN,
         Accept(journal, phase, written), pc' = [pc EXCEPT ![c] = "done"], UNCHANGED <<status, own>>
  PROVE  Records'
<1>1. \A d \in Calls : pc'[d] \notin Running
  BY DEF QueueInv, RunsAtHead, AtHead, TypeOK, Running
<1>2. AwaitedIsRecorded' /\ RecoveringHasRecord'
  BY <1>1 DEF AwaitedIsRecorded, RecoveringHasRecord, Running
<1>3. RecordBacksPending' /\ RecordNotFed' /\ journal' = NoTx
  BY DEF Accept, Forget, RecordBacksPending, RecordNotFed
<1>4. receipts' = [receipts EXCEPT ![journal] = 1]
  <2>1. receipts[journal] = 0
    BY TxAssumption DEF Records, RecordInv, RecordNotFed
  <2>2. receipts' = [receipts EXCEPT ![journal] = receipts[journal] + 1]
    BY DEF Accept
  <2> QED
    BY <2>1, <2>2
<1>5. FedIsExecuted' /\ ReceiptFedOnce'
  BY <1>4 DEF Records, RecordInv, FedIsExecuted, ReceiptFedOnce, TypeOK
<1>6. EvidenceBeforeSend'
  BY <1>4 DEF Records, EvidenceBeforeSend, TypeOK
<1> QED
  BY <1>2, <1>3, <1>5, <1>6 DEF Records, RecordInv

(* submit: the record is written before the transaction leaves. *)
LEMMA Submitting ==
  ASSUME TypeOK, QueueInv, CallInv, Records, NEW c \in Calls, Submit(c)
  PROVE  Records'
<1>1. CurrentTx(c) \in Tx /\ attempt[c] \in Attempts
  BY DEF CurrentTx, Tx, TypeOK
<1>2. status[CurrentTx(c)] = "unsent"
  BY <1>1 DEF Submit, CallInv, SentIsCurrent, Sent, CurrentTx
<1>3. receipts[CurrentTx(c)] = 0
  <2>1. receipts[CurrentTx(c)] \in Nat /\ ~(receipts[CurrentTx(c)] > 0)
    BY <1>1, <1>2 DEF Records, RecordInv, FedIsExecuted, TypeOK
  <2> QED
    BY <2>1
<1>4. \A d \in Calls \ {c} : pc[d] \notin Running
  BY DEF Submit, QueueInv, RunsAtHead, AtHead
<1>5. CASE ReadPending.phase \notin {"none", "visible"}
  <2>1. pc' = [pc EXCEPT ![c] = "done"] /\ attempt' = attempt
        /\ UNCHANGED <<pending, journal, file, status, own, receipts>>
    BY <1>5 DEF Submit, Settle
  <2> QED
    BY <2>1, RecordsKept DEF TypeOK
<1>6. CASE ReadPending.phase \in {"none", "visible"}
  <2>1. journal = NoTx /\ pending.phase # "submitted"
    BY <1>6 DEF ReadPending
  <2>2. \A u \in own : receipts[u] # 0
    <3>1. own \subseteq Tx
      BY DEF TypeOK
    <3> QED
      BY <2>1, <3>1, TxAssumption DEF Records, EvidenceBeforeSend
  <2>3. CASE Send(c) /\ file' = CurrentTx(c)
    <3>1. /\ journal' = CurrentTx(c) /\ file' = CurrentTx(c) /\ receipts' = receipts
          /\ pc' = [pc EXCEPT ![c] = "await_response"] /\ attempt' = attempt
          /\ status' = [status EXCEPT ![CurrentTx(c)] = "in_flight"]
          /\ own' = own \cup {CurrentTx(c)}
      BY <1>6, <2>3 DEF Submit, RecordAndSend, Send
    <3>2. AwaitedIsRecorded' /\ RecoveringHasRecord' /\ RecordBacksPending' /\ RecordNotFed'
      BY <3>1, <1>1, <1>3, <1>4, TxAssumption
      DEF AwaitedIsRecorded, RecoveringHasRecord, RecordBacksPending, RecordNotFed, Running,
          CurrentTx, TypeOK
    <3>3. FedIsExecuted' /\ ReceiptFedOnce'
      BY <3>1, <1>1, <1>3 DEF Records, RecordInv, FedIsExecuted, ReceiptFedOnce, TypeOK
    <3>4. EvidenceBeforeSend'
      BY <3>1, <2>2 DEF EvidenceBeforeSend
    <3> QED
      BY <3>2, <3>3, <3>4 DEF Records, RecordInv
  <2>4. CASE Settle(c, "refused") /\ UNCHANGED <<file, pending, chain_vars>>
    <3>1. /\ journal' = CurrentTx(c) /\ receipts' = receipts /\ attempt' = attempt
          /\ pc' = [pc EXCEPT ![c] = "done"] /\ UNCHANGED <<pending, status, own>>
      BY <1>6, <2>4 DEF Submit, RecordAndSend, Settle
    <3>2. AwaitedIsRecorded' /\ RecoveringHasRecord' /\ RecordBacksPending' /\ RecordNotFed'
      BY <3>1, <2>1, <1>1, <1>3, <1>4, TxAssumption
      DEF AwaitedIsRecorded, RecoveringHasRecord, RecordBacksPending, RecordNotFed, Running, TypeOK
    <3>3. FedIsExecuted' /\ ReceiptFedOnce' /\ EvidenceBeforeSend'
      BY <3>1, <2>2 DEF Records, RecordInv, FedIsExecuted, ReceiptFedOnce, EvidenceBeforeSend
    <3> QED
      BY <3>2, <3>3 DEF Records, RecordInv
  <2> QED
    BY <1>6, <2>3, <2>4 DEF Submit, RecordAndSend
<1> QED
  BY <1>5, <1>6

(* Every step keeps the journal, the pending record and the receipts in
   agreement. *)
LEMMA RecordStep ==
  TypeOK /\ QueueInv /\ CallInv /\ Records /\ [Next]_vars => Records'
<1> SUFFICES ASSUME TypeOK, QueueInv, CallInv, Records, [Next]_vars PROVE Records'
  OBVIOUS
<1>1. ASSUME NEW c \in Calls, Request(c) \/ Compose(c) \/ ComposeFails(c) \/ Prepared(c) \/ NoResponse(c)
      PROVE  Records'
  BY <1>1, RecordsKept DEF Request, Compose, ComposeFails, Prepared, NoResponse, TypeOK
<1>2. ASSUME NEW c \in Calls, BeforeNext(c) PROVE Records'
  <2>1. UNCHANGED <<pending, journal, file, status, own, receipts, attempt>>
    BY <1>2 DEF BeforeNext, Settle
  <2>2. ReadPending.phase = "submitted" => journal # NoTx
    BY DEF ReadPending, Records, RecordInv, RecordBacksPending
  <2> QED
    BY <1>2, <2>1, <2>2, RecordsKept DEF BeforeNext, Settle, TypeOK
<1>3. ASSUME NEW c \in Calls, PreviousVisible(c) PROVE Records'
  <2>1. pending' = Nothing /\ UNCHANGED <<journal, file, status, own, receipts, attempt>>
        /\ pc' = [pc EXCEPT ![c] = "prepare"]
    BY <1>3 DEF PreviousVisible
  <2> QED
    BY <2>1 DEF Records, RecordInv, AwaitedIsRecorded, RecordBacksPending, RecoveringHasRecord,
     RecordNotFed, FedIsExecuted, EvidenceBeforeSend, ReceiptFedOnce, CurrentTx, Nothing, TypeOK
<1>4. ASSUME NEW c \in Calls, PreviousNotVisible(c) \/ PreviousUnknown(c) \/ PrepareFails(c)
             \/ OutcomeUnknown(c)
      PROVE  Records'
  BY <1>4, RecordsKept
  DEF PreviousNotVisible, PreviousUnknown, PrepareFails, OutcomeUnknown, Settle, TypeOK
<1>5. ASSUME NEW c \in Calls, VersionRace(c) PROVE Records'
  <2>1. /\ pc' = [pc EXCEPT ![c] = "backoff"] /\ attempt' = [attempt EXCEPT ![c] = attempt[c] + 1]
        /\ UNCHANGED <<pending, journal, file, status, own, receipts>>
    BY <1>5 DEF VersionRace
  <2> QED
    BY <2>1, RecordsKept DEF TypeOK
<1>6. ASSUME NEW c \in Calls, RecoverPrevious(c) PROVE Records'
  <2>1. journal \in Tx /\ ReadPending.tx = journal
    BY <1>6 DEF RecoverPrevious, ReadPending, Records, RecordInv, RecoveringHasRecord, TypeOK
  <2>2. PICK written \in BOOLEAN : Accept(journal, "recovered", written)
    BY <1>6, <2>1 DEF RecoverPrevious, DiskOutcomes
  <2> QED
    BY <1>6, <2>1, <2>2, Accepting DEF RecoverPrevious, Settle
<1>7. ASSUME NEW c \in Calls, Submit(c) PROVE Records'
  BY <1>7, Submitting
<1>8. ASSUME NEW c \in Calls, Receipt(c) PROVE Records'
  <2>1. CurrentTx(c) = journal /\ CurrentTx(c) \in Tx
    BY <1>8 DEF Receipt, Records, RecordInv, AwaitedIsRecorded, CurrentTx, Tx, TypeOK
  <2>2. PICK written \in BOOLEAN : Accept(journal, "visible", written)
    BY <1>8, <2>1 DEF Receipt, DiskOutcomes
  <2>3. pc' = [pc EXCEPT ![c] = "done"]
    BY <1>8 DEF Receipt, Settle
  <2> QED
    BY <1>8, <2>1, <2>2, <2>3, Accepting DEF Receipt
<1>9. ASSUME NEW t \in Tx, Execute(t) \/ Lose(t) PROVE Records'
  BY <1>9 DEF Execute, Lose, Records, RecordInv, AwaitedIsRecorded, RecordBacksPending,
     RecoveringHasRecord, RecordNotFed, FedIsExecuted, EvidenceBeforeSend, ReceiptFedOnce, CurrentTx, TypeOK
<1>10. CASE Restart
  <2>1. /\ own' = {} /\ receipts' = [t \in Tx |-> 0] /\ pending' = Nothing
        /\ \A d \in Calls : pc'[d] \in {"new", "done"} /\ journal' \in Tx \cup {NoTx}
    BY <1>10 DEF Restart, DiskOutcomes, TypeOK
  <2>2. AwaitedIsRecorded' /\ RecoveringHasRecord' /\ RecordBacksPending'
    BY <2>1 DEF AwaitedIsRecorded, RecoveringHasRecord, RecordBacksPending, Nothing
  <2>3. RecordNotFed' /\ FedIsExecuted' /\ EvidenceBeforeSend' /\ ReceiptFedOnce'
    <3>1. \A t \in Tx : receipts'[t] = 0
      BY <2>1
    <3>2. journal' # NoTx => journal' \in Tx
      BY <1>10 DEF Restart, DiskOutcomes, TypeOK
    <3> QED
      BY <2>1, <3>1, <3>2 DEF RecordNotFed, FedIsExecuted, EvidenceBeforeSend, ReceiptFedOnce
  <2> QED
    BY <2>2, <2>3 DEF Records, RecordInv
<1>11. CASE UNCHANGED vars
  BY <1>11, RecordsKept
<1> QED
  BY NextCases, <1>1, <1>2, <1>3, <1>4, <1>5, <1>6, <1>7, <1>8, <1>9, <1>10, <1>11

-----------------------------------------------------------------------------
(* The invariant is inductive. *)
LEMMA Inductive == IInv /\ [Next]_vars => IInv'
  BY TypeStep, QueueStep, CallStep, RecordStep DEF IInv, Records

(* The invariant holds of every behaviour. *)
THEOREM Invariance == Spec => []IInv
<1>1. Init => IInv
  BY InitEstablishesIInv
<1>2. IInv /\ [Next]_vars => IInv'
  BY Inductive
<1> QED
  BY <1>1, <1>2, PTL DEF Spec

(* Every variable of the transaction layer keeps its type. *)
THEOREM TypeCorrect == Spec => []TypeOK
<1>1. IInv => TypeOK
  BY DEF IInv
<1> QED
  BY <1>1, Invariance, PTL

(* At most one attempt of a door call is ever sent, across version races, lost
   responses and restarts. *)
THEOREM OneAttempt == Spec => []AtMostOneAttemptSent
<1>1. IInv => AtMostOneAttemptSent
  BY DEF IInv, CallInv, SentIsCurrent, AtMostOneAttemptSent
<1> QED
  BY <1>1, Invariance, PTL

(* A refused call was never sent and an accepted one executed, for ever. *)
THEOREM TruthfulAnswers == Spec => []AnswersAreTrue
<1>1. IInv => AnswersAreTrue
  BY DEF IInv
<1> QED
  BY <1>1, Invariance, PTL

(* A transaction in doubt is on record, in memory and on disk, and its receipt
   is fed to the pipeline at most once. *)
THEOREM RecordsAreSound == Spec => []RecordsHold
<1>1. IInv => RecordsHold
  BY DEF IInv, RecordsHold
<1> QED
  BY <1>1, Invariance, PTL

(* Only one lane call is composed or executed at a time. *)
THEOREM LaneIsExclusive == Spec => []KioskSerialized
<1>1. IInv => KioskSerialized
  BY DEF IInv, QueueInv, LaneHeld, KioskSerialized
<1> QED
  BY <1>1, Invariance, PTL

-----------------------------------------------------------------------------
(* Only submit sends, and what it sends is the current attempt. *)
LEMMA OnlySubmitSends ==
  ASSUME IInv, [Next]_vars, NEW t \in Tx, ~Sent(t), Sent(t)'
  PROVE  \E c \in Calls : Submit(c) /\ ReadPending.phase \in {"none", "visible"}
<1>1. status' # status
  BY DEF Sent
<1>2. ~Restart /\ ~UNCHANGED vars
  BY <1>1 DEF Restart
<1>3. ~(\E u \in Tx : Execute(u) \/ Lose(u))
  BY DEF Execute, Lose, Sent, IInv, TypeOK
<1>4. PICK c \in Calls : Submit(c)
  BY NextCases, <1>1, <1>2, <1>3
  DEF Request, Compose, ComposeFails, BeforeNext, PreviousVisible, PreviousNotVisible,
      RecoverPrevious, PreviousUnknown, Prepared, PrepareFails, VersionRace, Receipt,
      NoResponse, OutcomeUnknown
<1> QED
  BY <1>1, <1>4 DEF Submit

(* A transaction leaves only when every earlier one of this process is known to
   have executed: the bot never plans on an outcome it does not have. *)
THEOREM NothingSentInDoubt == Spec => NoSendOverUnresolved
<1>1. ASSUME IInv, [Next]_vars, NEW t \in Tx, ~Sent(t), Sent(t)', NEW u \in own
      PROVE  status[u] = "executed"
  <2>1. journal = NoTx
    BY <1>1, OnlySubmitSends DEF ReadPending
  <2>2. u \in Tx /\ receipts[u] \in Nat /\ receipts[u] # 0
    BY <1>1, <2>1, TxAssumption DEF IInv, TypeOK, EvidenceBeforeSend
  <2>3. receipts[u] > 0
    BY <2>2
  <2> QED
    BY <1>1, <2>2, <2>3 DEF IInv, RecordInv, FedIsExecuted
<1>2. IInv /\ [Next]_vars => [\A t \in Tx : ~Sent(t) /\ Sent(t)' => \A u \in own : status[u] = "executed"]_vars
  BY <1>1
<1> QED
  BY <1>2, Invariance, PTL DEF Spec, NoSendOverUnresolved

(* The refinement: what a step does to effects and answers. *)
Effects == [c \in Calls |-> {n \in Attempts : status[<<c, n>>] = "executed"}]

(* A step that answers nobody and executes nothing is a stutter of the promise. *)
LEMMA Stutters ==
  ASSUME UNCHANGED <<status, answer>> PROVE UNCHANGED Promise!vars
  BY DEF Promise!vars

(* An answer that is true is an answer the promise allows. *)
LEMMA Answering ==
  ASSUME TypeOK, AnswersAreTrue', UNCHANGED status, NEW c \in Calls, answer[c] = "none",
         NEW a \in {"receipt", "refused", "unknown"}, answer' = [answer EXCEPT ![c] = a]
  PROVE  Promise!Next
<1>1. answer'[c] = a /\ Effects' = Effects
  BY DEF TypeOK, Effects
<1>2. a = "receipt" => \E n \in Attempts : status[<<c, n>>] = "executed"
  BY <1>1 DEF AnswersAreTrue
<1>3. a = "refused" => \A n \in Attempts : status[<<c, n>>] # "executed"
  BY <1>1 DEF AnswersAreTrue, Sent
<1>4. /\ a = "receipt" => Effects[c] # {}
      /\ a = "refused" => Effects[c] = {}
  BY <1>2, <1>3 DEF Effects
<1>5. Promise!GiveAnswer(c)
  BY <1>1, <1>4 DEF Promise!GiveAnswer, Promise!Answers, Effects
<1> QED
  BY <1>5 DEF Promise!Next

(* An execution is the first effect of its call, and nobody was told it is
   refused. *)
LEMMA TakingEffect ==
  ASSUME IInv, NEW t \in Tx, Execute(t)
  PROVE  Promise!Next
<1>1. PICK c \in Calls, n \in Attempts : t = <<c, n>>
  BY DEF Tx
<1>2. n = attempt[c] /\ status[<<c, n>>] = "in_flight" /\ Sent(<<c, n>>)
  BY <1>1 DEF Execute, Sent, IInv, CallInv, SentIsCurrent
<1>3. \A m \in Attempts : status[<<c, m>>] # "executed"
  BY <1>2 DEF IInv, CallInv, SentIsCurrent, Sent
<1>4. answer[c] \in {"none", "unknown"}
  BY <1>2, <1>3 DEF IInv, AnswersAreTrue, TypeOK
<1>5. \A d \in Calls : \A m \in Attempts :
        status'[<<d, m>>] = IF d = c /\ m = n THEN "executed" ELSE status[<<d, m>>]
  BY <1>1 DEF Execute, IInv, TypeOK, Tx
<1>6. Effects[c] = {} /\ Effects' = [Effects EXCEPT ![c] = {n}]
  <2>1. Effects[c] = {}
    BY <1>3 DEF Effects
  <2>2. \A d \in Calls : Effects'[d] = IF d = c THEN {n} ELSE Effects[d]
    BY <1>3, <1>5 DEF Effects
  <2> QED
    BY <2>1, <2>2 DEF Effects
<1>7. Promise!TakeEffect(c)
  BY <1>4, <1>6 DEF Promise!TakeEffect, Effects, Execute
<1> QED
  BY <1>7 DEF Promise!Next

(* A process that dies abandons the calls it had not answered. *)
LEMMA Abandoning == ASSUME IInv, Restart PROVE Promise!Next
<1> DEFINE lost == {c \in Calls : pc[c] \notin {"new", "done"}}
<1>1. answer' = [c \in Calls |-> IF c \in lost THEN "unknown" ELSE answer[c]]
  BY DEF Restart
<1>2. lost \in SUBSET {c \in Calls : answer[c] = "none"}
  BY DEF IInv, CallInv, Unanswered
<1>3. Promise!Abandon
  BY <1>1, <1>2 DEF Promise!Abandon, Restart
<1> QED
  BY <1>3 DEF Promise!Next

(* Every step is a step of the promise or a stutter. *)
LEMMA StepRefines == ASSUME IInv, IInv', [Next]_vars PROVE [Promise!Next]_(Promise!vars)
<1>1. ASSUME NEW c \in Calls, NEW a \in {"receipt", "refused", "unknown"}, Settle(c, a),
             UNCHANGED status, pc[c] # "done"
      PROVE  Promise!Next
  BY <1>1, Answering DEF Settle, IInv, CallInv, Unanswered
<1>2. ASSUME NEW c \in Calls, Request(c) \/ Compose(c) \/ PreviousVisible(c) \/ Prepared(c)
             \/ VersionRace(c) \/ NoResponse(c)
      PROVE  UNCHANGED <<status, answer>>
  BY <1>2 DEF Request, Compose, PreviousVisible, Prepared, VersionRace, NoResponse
<1>3. ASSUME NEW c \in Calls, ComposeFails(c) PROVE Promise!Next
  BY <1>3, Answering DEF ComposeFails, IInv, CallInv, Unanswered
<1>4. ASSUME NEW c \in Calls, BeforeNext(c) PROVE Promise!Next \/ UNCHANGED <<status, answer>>
  BY <1>1, <1>4 DEF BeforeNext
<1>5. ASSUME NEW c \in Calls, PreviousNotVisible(c) \/ RecoverPrevious(c) \/ PreviousUnknown(c)
             \/ PrepareFails(c) \/ OutcomeUnknown(c)
      PROVE  Promise!Next
  BY <1>1, <1>5
  DEF PreviousNotVisible, RecoverPrevious, PreviousUnknown, PrepareFails, OutcomeUnknown
<1>6. ASSUME NEW c \in Calls, Receipt(c) PROVE Promise!Next
  BY <1>1, <1>6 DEF Receipt
<1>7. ASSUME NEW c \in Calls, Submit(c) PROVE Promise!Next \/ UNCHANGED Promise!vars
  <2>1. CASE Settle(c, "refused") /\ UNCHANGED status
    BY <1>1, <1>7, <2>1 DEF Submit
  <2>2. CASE Send(c)
    <3>1. \A u \in Tx : status'[u] = "executed" <=> status[u] = "executed"
      <4>1. CurrentTx(c) \in Tx /\ status[CurrentTx(c)] = "unsent"
        BY <1>7 DEF Submit, IInv, CallInv, SentIsCurrent, Sent, CurrentTx, Tx, TypeOK
      <4> QED
        BY <2>2, <4>1 DEF Send, IInv, TypeOK
    <3>2. Effects' = Effects
      BY <3>1 DEF Effects, Tx
    <3> QED
      BY <2>2, <3>2 DEF Send, Promise!vars, Effects
  <2> QED
    BY <1>7, <2>1, <2>2 DEF Submit, RecordAndSend
<1>8. ASSUME NEW t \in Tx, Lose(t) PROVE UNCHANGED Promise!vars
  <2>1. \A u \in Tx : status'[u] = "executed" <=> status[u] = "executed"
    BY <1>8 DEF Lose, IInv, TypeOK
  <2>2. Effects' = Effects
    BY <2>1 DEF Effects, Tx
  <2> QED
    BY <1>8, <2>2 DEF Lose, Promise!vars, Effects
<1> QED
  BY NextCases, Stutters, TakingEffect, Abandoning,
     <1>2, <1>3, <1>4, <1>5, <1>6, <1>7, <1>8

(* At the start nothing has been promised. *)
LEMMA InitRefines == Init => Promise!Init
  BY DEF Init, Promise!Init, Tx

(* The transaction layer implements the promise its callers rely on: at most
   one effect per door call, and answers that stay true. *)
THEOREM Refinement == Spec => KeepsPromise
<1>1. IInv /\ IInv' /\ [Next]_vars => [Promise!Next]_(Promise!vars)
  BY StepRefines
<1> QED
  BY <1>1, Invariance, InitRefines, PTL DEF Spec, KeepsPromise, Promise!Spec

-----------------------------------------------------------------------------
(* The link. *)

LinkInv ==
  LinkTypeOK /\ AcceptedIsAuthenticated /\ DisposeIsFinal /\ TimersBounded

(* The link starts in the invariant. *)
LEMMA LinkStarts == LinkInit => LinkInv
<1> SUFFICES ASSUME LinkInit
             PROVE  LinkInv
  OBVIOUS
<1> USE LinkAssumption DEF LinkInit
<1>1. Counts BY DEF Counts
<1>2. Sockets /\ Probing /\ Reported /\ Projected
  BY DEF Sockets, Probing, Reported, Projected, OpenStates, Kinds
<1>3. AcceptedIsAuthenticated /\ DisposeIsFinal /\ TimersBounded
  BY DEF AcceptedIsAuthenticated, DisposeIsFinal, TimersBounded
<1> QED BY <1>1, <1>2, <1>3 DEF LinkInv, LinkTypeOK

(* Opening a socket takes a timer away, so it never makes one too many. *)
LEMMA LinkConnect ==
  LinkInv /\ (RetryFires \/ OrphanFires) => LinkInv'
<1> SUFFICES ASSUME LinkInv, RetryFires \/ OrphanFires
             PROVE  LinkInv'
  OBVIOUS
<1>1. CASE RetryFires
  <2> USE <1>1, LinkAssumption DEF LinkInv, LinkTypeOK, RetryFires, Connect, Report, SignaturesGoStale, ProbeOfAnother, Terminal, store_vars
  <2>a. retry_timer \in {"none", "pending"} /\ orphans \in Nat BY DEF Probing, Counts
  <2>1. Counts' BY <2>a DEF Counts, TimersBounded
  <2>2. Sockets' BY DEF Sockets, OpenStates
  <2>3. Probing' BY DEF Probing
  <2>4. Reported' BY DEF Reported, Kinds
  <2>5. Projected' BY DEF Projected
  <2>6. TimersBounded' BY <2>a DEF TimersBounded, Counts
  <2>7. AcceptedIsAuthenticated' /\ DisposeIsFinal' BY DEF AcceptedIsAuthenticated, DisposeIsFinal, OpenStates
  <2> QED BY <2>1, <2>2, <2>3, <2>4, <2>5, <2>6, <2>7
<1>2. CASE OrphanFires
  <2> USE <1>2, LinkAssumption DEF LinkInv, LinkTypeOK, OrphanFires, Connect, Report, SignaturesGoStale, ProbeOfAnother, Terminal, store_vars
  <2>a. retry_timer \in {"none", "pending"} /\ orphans \in Nat BY DEF Probing, Counts
  <2>1. Counts' BY <2>a DEF Counts, TimersBounded
  <2>2. Sockets' BY DEF Sockets, OpenStates
  <2>3. Probing' BY DEF Probing
  <2>4. Reported' BY DEF Reported, Kinds
  <2>5. Projected' BY DEF Projected
  <2>6. TimersBounded' BY <2>a DEF TimersBounded, Counts
  <2>7. AcceptedIsAuthenticated' /\ DisposeIsFinal' BY DEF AcceptedIsAuthenticated, DisposeIsFinal, OpenStates
  <2> QED BY <2>1, <2>2, <2>3, <2>4, <2>5, <2>6, <2>7
<1> QED BY <1>1, <1>2

(* The handshake. *)
LEMMA LinkHandshake ==
  LinkInv /\ (Challenge \/ SignatureSent \/ SignatureFails \/ StaleSignature \/ Accepted) => LinkInv'
<1> SUFFICES ASSUME LinkInv, Challenge \/ SignatureSent \/ SignatureFails \/ StaleSignature \/ Accepted
             PROVE  LinkInv'
  OBVIOUS
<1>1. CASE Challenge
  <2> USE <1>1, LinkAssumption DEF LinkInv, LinkTypeOK, Challenge, Heard, Report, Terminal, store_vars, probe_vars, timer_vars
  <2>a. retry_timer \in {"none", "pending"} /\ orphans \in Nat BY DEF Probing, Counts
  <2>1. Counts' BY <2>a DEF Counts, TimersBounded
  <2>2. Sockets' BY DEF Sockets, OpenStates
  <2>3. Probing' BY DEF Probing
  <2>4. Reported' BY DEF Reported, Kinds
  <2>5. Projected' BY DEF Projected
  <2>6. TimersBounded' BY <2>a DEF TimersBounded, Counts
  <2>7. AcceptedIsAuthenticated' /\ DisposeIsFinal' BY DEF AcceptedIsAuthenticated, DisposeIsFinal, OpenStates
  <2> QED BY <2>1, <2>2, <2>3, <2>4, <2>5, <2>6, <2>7
<1>2. CASE SignatureSent
  <2> USE <1>2, LinkAssumption DEF LinkInv, LinkTypeOK, SignatureSent, store_vars, probe_vars, timer_vars, session_vars
  <2>a. retry_timer \in {"none", "pending"} /\ orphans \in Nat BY DEF Probing, Counts
  <2>1. Counts' BY <2>a DEF Counts, TimersBounded
  <2>2. Sockets' BY DEF Sockets, OpenStates
  <2>3. Probing' BY DEF Probing
  <2>4. Reported' BY DEF Reported, Kinds
  <2>5. Projected' BY DEF Projected
  <2>6. TimersBounded' BY <2>a DEF TimersBounded, Counts
  <2>7. AcceptedIsAuthenticated' /\ DisposeIsFinal' BY DEF AcceptedIsAuthenticated, DisposeIsFinal, OpenStates
  <2> QED BY <2>1, <2>2, <2>3, <2>4, <2>5, <2>6, <2>7
<1>3. CASE SignatureFails
  <2> USE <1>3, LinkAssumption DEF LinkInv, LinkTypeOK, SignatureFails, store_vars, ScheduleRetry, Schedule, BackOff, Report, Terminal
  <2>a. retry_timer \in {"none", "pending"} /\ orphans \in Nat BY DEF Probing, Counts
  <2>1. Counts' BY <2>a DEF Counts, TimersBounded
  <2>2. Sockets' BY DEF Sockets, OpenStates
  <2>3. Probing' BY DEF Probing
  <2>4. Reported' BY DEF Reported, Kinds
  <2>5. Projected' BY DEF Projected
  <2>6. TimersBounded' BY <2>a DEF TimersBounded, Counts
  <2>7. AcceptedIsAuthenticated' /\ DisposeIsFinal' BY DEF AcceptedIsAuthenticated, DisposeIsFinal, OpenStates
  <2> QED BY <2>1, <2>2, <2>3, <2>4, <2>5, <2>6, <2>7
<1>4. CASE StaleSignature
  <2> USE <1>4, LinkAssumption DEF LinkInv, LinkTypeOK, StaleSignature, store_vars, probe_vars, timer_vars, session_vars
  <2>a. retry_timer \in {"none", "pending"} /\ orphans \in Nat BY DEF Probing, Counts
  <2>1. Counts' BY <2>a DEF Counts, TimersBounded
  <2>2. Sockets' BY DEF Sockets, OpenStates
  <2>3. Probing' BY DEF Probing
  <2>4. Reported' BY DEF Reported, Kinds
  <2>5. Projected' BY DEF Projected
  <2>6. TimersBounded' BY <2>a DEF TimersBounded, Counts
  <2>7. AcceptedIsAuthenticated' /\ DisposeIsFinal' BY DEF AcceptedIsAuthenticated, DisposeIsFinal, OpenStates
  <2> QED BY <2>1, <2>2, <2>3, <2>4, <2>5, <2>6, <2>7
<1>5. CASE Accepted
  <2> USE <1>5, LinkAssumption DEF LinkInv, LinkTypeOK, Accepted, AcceptedFrame, Heard, Fold, Report, Terminal
  <2>a. retry_timer \in {"none", "pending"} /\ orphans \in Nat BY DEF Probing, Counts
  <2>1. Counts' BY <2>a DEF Counts, TimersBounded
  <2>2. Sockets' BY DEF Sockets, OpenStates
  <2>3. Probing' BY DEF Probing
  <2>4. Reported' BY DEF Reported, Kinds
  <2>5. Projected' BY DEF Projected
  <2>6. TimersBounded' BY <2>a DEF TimersBounded, Counts
  <2>7. AcceptedIsAuthenticated' /\ DisposeIsFinal' BY DEF AcceptedIsAuthenticated, DisposeIsFinal, OpenStates
  <2> QED BY <2>1, <2>2, <2>3, <2>4, <2>5, <2>6, <2>7
<1> QED BY <1>1, <1>2, <1>3, <1>4, <1>5

(* Packets, probes and the passage of time. *)
LEMMA LinkUse ==
  LinkInv /\ (ServerInfo \/ GameStatePacket \/ OtherPacket \/ Probe \/ Pong \/ ClockExpires \/ FallsSilent) => LinkInv'
<1> SUFFICES ASSUME LinkInv, ServerInfo \/ GameStatePacket \/ OtherPacket \/ Probe \/ Pong \/ ClockExpires \/ FallsSilent
             PROVE  LinkInv'
  OBVIOUS
<1>1. CASE ServerInfo
  <2> USE <1>1, LinkAssumption DEF LinkInv, LinkTypeOK, ServerInfo, Delivers, Heard, Fold, link_vars, probe_vars, timer_vars, session_vars
  <2>a. retry_timer \in {"none", "pending"} /\ orphans \in Nat BY DEF Probing, Counts
  <2>1. Counts' BY <2>a DEF Counts, TimersBounded
  <2>2. Sockets' BY DEF Sockets, OpenStates
  <2>3. Probing' BY DEF Probing
  <2>4. Reported' BY DEF Reported, Kinds
  <2>5. Projected' BY DEF Projected
  <2>6. TimersBounded' BY <2>a DEF TimersBounded, Counts
  <2>7. AcceptedIsAuthenticated' /\ DisposeIsFinal' BY DEF AcceptedIsAuthenticated, DisposeIsFinal, OpenStates
  <2> QED BY <2>1, <2>2, <2>3, <2>4, <2>5, <2>6, <2>7
<1>2. CASE GameStatePacket
  <2> USE <1>2, LinkAssumption DEF LinkInv, LinkTypeOK, GameStatePacket, Delivers, Heard, Fold, link_vars, probe_vars, timer_vars, session_vars
  <2>a. retry_timer \in {"none", "pending"} /\ orphans \in Nat BY DEF Probing, Counts
  <2>1. Counts' BY <2>a DEF Counts, TimersBounded
  <2>2. Sockets' BY DEF Sockets, OpenStates
  <2>3. Probing' BY DEF Probing
  <2>4. Reported' BY DEF Reported, Kinds
  <2>5. Projected' BY DEF Projected
  <2>6. TimersBounded' BY <2>a DEF TimersBounded, Counts
  <2>7. AcceptedIsAuthenticated' /\ DisposeIsFinal' BY DEF AcceptedIsAuthenticated, DisposeIsFinal, OpenStates
  <2> QED BY <2>1, <2>2, <2>3, <2>4, <2>5, <2>6, <2>7
<1>3. CASE OtherPacket
  <2> USE <1>3, LinkAssumption DEF LinkInv, LinkTypeOK, OtherPacket, Delivers, Heard, Fold, link_vars, probe_vars, timer_vars, session_vars
  <2>a. retry_timer \in {"none", "pending"} /\ orphans \in Nat BY DEF Probing, Counts
  <2>1. Counts' BY <2>a DEF Counts, TimersBounded
  <2>2. Sockets' BY DEF Sockets, OpenStates
  <2>3. Probing' BY DEF Probing
  <2>4. Reported' BY DEF Reported, Kinds
  <2>5. Projected' BY DEF Projected
  <2>6. TimersBounded' BY <2>a DEF TimersBounded, Counts
  <2>7. AcceptedIsAuthenticated' /\ DisposeIsFinal' BY DEF AcceptedIsAuthenticated, DisposeIsFinal, OpenStates
  <2> QED BY <2>1, <2>2, <2>3, <2>4, <2>5, <2>6, <2>7
<1>4. CASE Probe
  <2> USE <1>4, LinkAssumption DEF LinkInv, LinkTypeOK, Probe, link_vars, store_vars, timer_vars, session_vars
  <2>a. retry_timer \in {"none", "pending"} /\ orphans \in Nat BY DEF Probing, Counts
  <2>1. Counts' BY <2>a DEF Counts, TimersBounded
  <2>2. Sockets' BY DEF Sockets, OpenStates
  <2>3. Probing' BY DEF Probing
  <2>4. Reported' BY DEF Reported, Kinds
  <2>5. Projected' BY DEF Projected
  <2>6. TimersBounded' BY <2>a DEF TimersBounded, Counts
  <2>7. AcceptedIsAuthenticated' /\ DisposeIsFinal' BY DEF AcceptedIsAuthenticated, DisposeIsFinal, OpenStates
  <2> QED BY <2>1, <2>2, <2>3, <2>4, <2>5, <2>6, <2>7
<1>5. CASE Pong
  <2> USE <1>5, LinkAssumption DEF LinkInv, LinkTypeOK, Pong, Delivers, Heard, Report, Terminal, link_vars, store_vars, timer_vars
  <2>a. retry_timer \in {"none", "pending"} /\ orphans \in Nat BY DEF Probing, Counts
  <2>1. Counts' BY <2>a DEF Counts, TimersBounded
  <2>2. Sockets' BY DEF Sockets, OpenStates
  <2>3. Probing' BY DEF Probing
  <2>4. Reported' BY DEF Reported, Kinds
  <2>5. Projected' BY DEF Projected
  <2>6. TimersBounded' BY <2>a DEF TimersBounded, Counts
  <2>7. AcceptedIsAuthenticated' /\ DisposeIsFinal' BY DEF AcceptedIsAuthenticated, DisposeIsFinal, OpenStates
  <2> QED BY <2>1, <2>2, <2>3, <2>4, <2>5, <2>6, <2>7
<1>6. CASE ClockExpires
  <2> USE <1>6, LinkAssumption DEF LinkInv, LinkTypeOK, ClockExpires, link_vars, probe_vars, timer_vars, session_vars
  <2>a. retry_timer \in {"none", "pending"} /\ orphans \in Nat BY DEF Probing, Counts
  <2>1. Counts' BY <2>a DEF Counts, TimersBounded
  <2>2. Sockets' BY DEF Sockets, OpenStates
  <2>3. Probing' BY DEF Probing
  <2>4. Reported' BY DEF Reported, Kinds
  <2>5. Projected' BY DEF Projected
  <2>6. TimersBounded' BY <2>a DEF TimersBounded, Counts
  <2>7. AcceptedIsAuthenticated' /\ DisposeIsFinal' BY DEF AcceptedIsAuthenticated, DisposeIsFinal, OpenStates
  <2> QED BY <2>1, <2>2, <2>3, <2>4, <2>5, <2>6, <2>7
<1>7. CASE FallsSilent
  <2> USE <1>7, LinkAssumption DEF LinkInv, LinkTypeOK, FallsSilent, Heard, store_vars, probe_vars, timer_vars, session_vars
  <2>a. retry_timer \in {"none", "pending"} /\ orphans \in Nat BY DEF Probing, Counts
  <2>1. Counts' BY <2>a DEF Counts, TimersBounded
  <2>2. Sockets' BY DEF Sockets, OpenStates
  <2>3. Probing' BY DEF Probing
  <2>4. Reported' BY DEF Reported, Kinds
  <2>5. Projected' BY DEF Projected
  <2>6. TimersBounded' BY <2>a DEF TimersBounded, Counts
  <2>7. AcceptedIsAuthenticated' /\ DisposeIsFinal' BY DEF AcceptedIsAuthenticated, DisposeIsFinal, OpenStates
  <2> QED BY <2>1, <2>2, <2>3, <2>4, <2>5, <2>6, <2>7
<1> QED BY <1>1, <1>2, <1>3, <1>4, <1>5, <1>6, <1>7

(* A close leaves room for the one timer it schedules. *)
LEMMA LinkClose ==
  LinkInv /\ ((\E kind \in Terminal : CloseTerminal(kind)) \/ CloseViolation \/ CloseFailed \/ Dispose) => LinkInv'
<1> SUFFICES ASSUME LinkInv, (\E kind \in Terminal : CloseTerminal(kind)) \/ CloseViolation \/ CloseFailed \/ Dispose
             PROVE  LinkInv'
  OBVIOUS
<1>1. ASSUME NEW kind \in Terminal, CloseTerminal(kind)
      PROVE  LinkInv'
  <2> USE <1>1, LinkAssumption DEF LinkInv, LinkTypeOK, CloseTerminal, Heard, Report, Terminal, ProbeOfAnother, timer_vars, Closed, SignaturesGoStale, store_vars
  <2>a. retry_timer \in {"none", "pending"} /\ orphans \in Nat BY DEF Probing, Counts
  <2>1. Counts' BY <2>a DEF Counts, TimersBounded
  <2>2. Sockets' BY DEF Sockets, OpenStates
  <2>3. Probing' BY DEF Probing
  <2>4. Reported' BY DEF Reported, Kinds
  <2>5. Projected' BY DEF Projected
  <2>6. TimersBounded' BY <2>a DEF TimersBounded, Counts
  <2>7. AcceptedIsAuthenticated' /\ DisposeIsFinal' BY DEF AcceptedIsAuthenticated, DisposeIsFinal, OpenStates
  <2> QED BY <2>1, <2>2, <2>3, <2>4, <2>5, <2>6, <2>7
<1>2. CASE CloseViolation
  <2> USE <1>2, LinkAssumption DEF LinkInv, LinkTypeOK, CloseViolation, Heard, Report, Terminal, Schedule, Closed, SignaturesGoStale, store_vars
  <2>a. retry_timer \in {"none", "pending"} /\ orphans \in Nat BY DEF Probing, Counts
  <2>1. Counts' BY <2>a DEF Counts, TimersBounded
  <2>2. Sockets' BY DEF Sockets, OpenStates
  <2>3. Probing' BY DEF Probing
  <2>4. Reported' BY DEF Reported, Kinds
  <2>5. Projected' BY DEF Projected
  <2>6. TimersBounded' BY <2>a DEF TimersBounded, Counts
  <2>7. AcceptedIsAuthenticated' /\ DisposeIsFinal' BY DEF AcceptedIsAuthenticated, DisposeIsFinal, OpenStates
  <2> QED BY <2>1, <2>2, <2>3, <2>4, <2>5, <2>6, <2>7
<1>3. CASE CloseFailed
  <2> USE <1>3, LinkAssumption DEF LinkInv, LinkTypeOK, CloseFailed, ScheduleRetry, Schedule, BackOff, Report, Terminal, Closed, SignaturesGoStale, store_vars
  <2>a. retry_timer \in {"none", "pending"} /\ orphans \in Nat BY DEF Probing, Counts
  <2>b. retry_ms' \in 1 .. BACKOFF_CAP BY DEF Counts
  <2>c. orphans' \in 0 .. MaxTimers BY <2>a DEF Counts, TimersBounded, OpenStates
  <2>1. Counts' BY <2>b, <2>c DEF Counts
  <2>2. Sockets' BY DEF Sockets, OpenStates
  <2>3. Probing' BY DEF Probing
  <2>4. Reported' BY DEF Reported, Kinds
  <2>5. Projected' BY DEF Projected
  <2>6. TimersBounded' BY <2>a DEF TimersBounded, Counts
  <2>7. AcceptedIsAuthenticated' /\ DisposeIsFinal' BY DEF AcceptedIsAuthenticated, DisposeIsFinal, OpenStates
  <2> QED BY <2>1, <2>2, <2>3, <2>4, <2>5, <2>6, <2>7
<1>4. CASE Dispose
  <2> USE <1>4, LinkAssumption DEF LinkInv, LinkTypeOK, Dispose, Report, Terminal, SignaturesGoStale, store_vars
  <2>a. retry_timer \in {"none", "pending"} /\ orphans \in Nat BY DEF Probing, Counts
  <2>1. Counts' BY <2>a DEF Counts, TimersBounded
  <2>2. Sockets' BY DEF Sockets, OpenStates
  <2>3. Probing' BY DEF Probing
  <2>4. Reported' BY DEF Reported, Kinds
  <2>5. Projected' BY DEF Projected
  <2>6. TimersBounded' BY <2>a DEF TimersBounded, Counts
  <2>7. AcceptedIsAuthenticated' /\ DisposeIsFinal' BY DEF AcceptedIsAuthenticated, DisposeIsFinal, OpenStates
  <2> QED BY <2>1, <2>2, <2>3, <2>4, <2>5, <2>6, <2>7
<1> QED BY <1>1, <1>2, <1>3, <1>4

(* Every event preserves it. *)
LEMMA LinkGoesOn == LinkInv /\ [LinkNext]_(server) => LinkInv'
<1> SUFFICES ASSUME LinkInv, [LinkNext]_(server)
             PROVE  LinkInv'
  OBVIOUS
<1>1. CASE LinkNext BY <1>1, LinkConnect, LinkHandshake, LinkUse, LinkClose DEF LinkNext, Close
<1>2. CASE UNCHANGED server
  BY <1>2
  DEF LinkInv, LinkTypeOK, Counts, Sockets, Probing, Reported, Projected, AcceptedIsAuthenticated, DisposeIsFinal, TimersBounded, server, link_vars,
      timer_vars, probe_vars, session_vars, store_vars
<1> QED BY <1>1, <1>2

LEMMA LinkInvariance == LinkSpec => []LinkInv
<1>1. LinkInit => LinkInv BY LinkStarts
<1>2. LinkInv /\ [LinkNext]_(server) => LinkInv' BY LinkGoesOn
<1> QED BY <1>1, <1>2, PTL DEF LinkSpec

(* The types, and that a pong is awaited only while probing. *)
THEOREM LinkTypeCorrect == LinkSpec => []LinkTypeOK
<1>1. LinkInv => LinkTypeOK BY DEF LinkInv
<1> QED BY <1>1, LinkInvariance, PTL

(* on_status: the characters never play on a socket that is not the
   authenticated one, whatever timer opens another. *)
THEOREM PlayNeedsTheSocket == LinkSpec => []AcceptedIsAuthenticated
<1>1. LinkInv => AcceptedIsAuthenticated BY DEF LinkInv
<1> QED BY <1>1, LinkInvariance, PTL

(* dispose: a link that was disposed opens no socket again, although only
   one of its timers was cleared. *)
THEOREM DisposedForGood == LinkSpec => []DisposeIsFinal
<1>1. LinkInv => DisposeIsFinal BY DEF LinkInv
<1> QED BY <1>1, LinkInvariance, PTL

(* schedule: only faults of the signer add to the timers pending. *)
THEOREM RetriesAreBounded == LinkSpec => []TimersBounded
<1>1. LinkInv => TimersBounded BY DEF LinkInv
<1> QED BY <1>1, LinkInvariance, PTL

=============================================================================
