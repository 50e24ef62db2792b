---------------------------- MODULE MCFightDrive ----------------------------
(***************************************************************************)
(* A party of two in a fight of up to two turns; the planner finds         *)
(* nothing to do in the second.                                            *)
(***************************************************************************)
EXTENDS FightDrive

CONSTANTS leader, partner

MCSeats == {leader, partner}
MCEmptyTurns == {2}
=============================================================================
