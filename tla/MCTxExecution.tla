--------------------------- MODULE MCTxExecution ---------------------------
(***************************************************************************)
(* Small instances of TxExecution for TLC: two calls that go through the    *)
(* kiosk lane and one that touches shared objects only.                     *)
(***************************************************************************)
EXTENDS TxExecution

CONSTANTS craft, engage, turn

MCCalls == {craft, engage, turn}
MCKiosk == {craft, engage}
=============================================================================
