---------------------------- MODULE MCServerLink ----------------------------
(***************************************************************************)
(* The link with a back-off that doubles once, for TLC.                   *)
(***************************************************************************)
EXTENDS ServerLink
=============================================================================
