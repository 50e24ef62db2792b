------------------------------ MODULE MCMover ------------------------------
(* Instances of Mover for TLC: Far, Cap, Lead, Margin, Root and             *)
(* MaxTroubles are numbers of the configuration.                            *)
EXTENDS Mover
=============================================================================
