----------------------------- MODULE TxOutcome -----------------------------
(***************************************************************************)
(* What the bot's transaction layer promises the code that calls a door.   *)
(*                                                                         *)
(* A call stands for one door call (engage, settle, craft ...).  It may be  *)
(* attempted several times, and it is answered with one of three answers:  *)
(*   "receipt" - it executed, and this is its receipt;                     *)
(*   "refused" - it never reached the chain and never will, so the caller  *)
(*               may decide afresh;                                        *)
(*   "unknown" - it may or may not have executed (a lost response, a       *)
(*               process that died).                                       *)
(* Whatever the network does, a call takes effect at most once.  The       *)
(* layer below it (TxExecution) is shown to implement this module.         *)
(***************************************************************************)
CONSTANTS Calls,     (* the door calls                                     *)
          Attempts   (* the numbers of a call's attempts                   *)

VARIABLES effects,   (* for each call, the attempts that executed on chain *)
          answer     (* for each call, the answer its caller was given     *)

vars == <<effects, answer>>

Answers == {"none", "receipt", "refused", "unknown"}

TypeOK == /\ effects \in [Calls -> SUBSET Attempts]
          /\ answer \in [Calls -> Answers]

Init == /\ effects = [c \in Calls |-> {}]
        /\ answer = [c \in Calls |-> "none"]

(* The call takes effect.  Its caller may be waiting, or may have been told
   that nobody knows; it was never told that nothing was sent. *)
TakeEffect(c) ==
  /\ effects[c] = {}
  /\ answer[c] \in {"none", "unknown"}
  /\ \E n \in Attempts : effects' = [effects EXCEPT ![c] = {n}]
  /\ UNCHANGED answer

(* The caller is answered, once. *)
GiveAnswer(c) ==
  /\ answer[c] = "none"
  /\ \E a \in Answers \ {"none"} :
       /\ a = "receipt" => effects[c] # {}
       /\ a = "refused" => effects[c] = {}
       /\ answer' = [answer EXCEPT ![c] = a]
  /\ UNCHANGED effects

(* The process dies: nobody will ever answer the calls it had in hand. *)
Abandon ==
  /\ \E lost \in SUBSET {c \in Calls : answer[c] = "none"} :
       answer' = [c \in Calls |-> IF c \in lost THEN "unknown" ELSE answer[c]]
  /\ UNCHANGED effects

Next == \/ \E c \in Calls : TakeEffect(c) \/ GiveAnswer(c)
        \/ Abandon

Spec == Init /\ [][Next]_vars
=============================================================================
