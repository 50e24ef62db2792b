----------------------------- MODULE PartyDuty -----------------------------
(***************************************************************************)
(* What a party promises its members about chores and fights.              *)
(*                                                                         *)
(* A member goes on an errand of its own (a chore) only while the party is  *)
(* free, and the party sets out only when nobody is on one, like the        *)
(* readers and the writer of a shared record.  It sets out for one fight at *)
(* a time: while one is open it starts no other and does not disband,       *)
(* unless the answer that would have told it of the fight was lost.  The    *)
(* rendezvous of the bot (Rendezvous) is shown to implement this module.    *)
(***************************************************************************)
CONSTANT Members

VARIABLES
  out,           (* the members on a chore                                 *)
  busy,          (* the party plans a fight or has one on its hands        *)
  fight,         (* "none", "live", "ended"                                *)
  lost           (* nobody was told that the fight was opened              *)

vars == <<out, busy, fight, lost>>

Init ==
  /\ out = {}
  /\ busy = FALSE
  /\ fight = "none"
  /\ lost = FALSE

Clear == fight = "none" \/ lost

GoOut(m) ==
  /\ ~ busy
  /\ out' = out \cup {m}
  /\ UNCHANGED <<busy, fight, lost>>

ComeBack(m) ==
  /\ m \in out
  /\ out' = out \ {m}
  /\ UNCHANGED <<busy, fight, lost>>

SetOut ==
  /\ ~ busy /\ out = {} /\ Clear
  /\ busy' = TRUE
  /\ UNCHANGED <<out, fight, lost>>

Disband ==
  /\ busy /\ Clear
  /\ busy' = FALSE
  /\ UNCHANGED <<out, fight, lost>>

(* The fight opens, and the party knows of it or takes it for refused. *)
Open ==
  /\ busy /\ fight = "none"
  /\ fight' = "live"
  /\ \/ UNCHANGED <<busy, lost>>
     \/ busy' = FALSE /\ lost' = TRUE
  /\ UNCHANGED out

End ==
  /\ fight = "live"
  /\ fight' = "ended"
  /\ UNCHANGED <<out, busy, lost>>

(* Settling the fight closes it, whoever knew of it. *)
Settle ==
  /\ fight = "ended"
  /\ fight' = "none"
  /\ lost' = FALSE
  /\ UNCHANGED <<out, busy>>

(* The process dies: everyone is home again, the fight is still there. *)
Crash ==
  /\ out' = {}
  /\ busy' = FALSE
  /\ UNCHANGED <<fight, lost>>

Next ==
  \/ \E m \in Members : GoOut(m) \/ ComeBack(m)
  \/ SetOut \/ Disband \/ Open \/ End \/ Settle \/ Crash

Spec == Init /\ [][Next]_vars
=============================================================================
