---------------------------- MODULE MCRendezvous ----------------------------
(***************************************************************************)
(* A small party for TLC: a leader and a follower that goes on cross-world  *)
(* trips.                                                                   *)
(***************************************************************************)
EXTENDS Rendezvous

CONSTANTS leader, traveller, wolves

MCTwo   == {leader, traveller}
MCGroup == {wolves}
=============================================================================
