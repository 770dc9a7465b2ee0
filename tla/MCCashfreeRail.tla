--------------------------- MODULE MCCashfreeRail ---------------------------
(***************************************************************************)
(* Values for the constants of CashfreeRail in the runs of TLC.            *)
(***************************************************************************)
EXTENDS CashfreeRail

One == {1}
OneOrTwo == {1, 2}
Two == {2}
None == {}

=============================================================================
