---------------------------- MODULE MCPartyRoute ----------------------------
(* Instances of PartyRoute for TLC.                                         *)
EXTENDS PartyRoute

CONSTANTS leader, omori, archero

MCPair  == {archero}
MCGroup == {archero, omori}
MCEnds  == {0, Last}
MCOuter == {Last}
=============================================================================
