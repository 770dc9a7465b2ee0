----------------------------- MODULE MCSession -----------------------------
(***************************************************************************)
(* Values for the constants of Session in the runs of TLC.                 *)
(***************************************************************************)
EXTENDS SessionInductive

Cap(total, txn) == [max_total |-> total, max_per_txn |-> txn]

BothPayees == {"citycabs", "metrocabs"}
OnePayee == {"citycabs"}
MCFirstPayee == "citycabs"

Cap1 == Cap(1, 1)
Cap3 == Cap(3, 2)
NoCaps == {}
WiderCaps == {Cap(2, 1), Cap(3, 2)}

\* The smallest amount, and one that is more than it.
OneOrTwo == {1, 2}

=============================================================================
