---------------------------- MODULE MCDungeonRun ----------------------------
(* Small parties for TLC: a leader with one or two followers. *)
EXTENDS DungeonRun

CONSTANTS leader, alice, bob

MCTwo   == {leader, alice}
MCThree == {leader, alice, bob}
=============================================================================
