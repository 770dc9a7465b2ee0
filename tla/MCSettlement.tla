---------------------------- MODULE MCSettlement ----------------------------
(***************************************************************************)
(* Values for the constants of Settlement in the runs of TLC.              *)
(***************************************************************************)
EXTENDS Reconcile

\* A half, three quarters, all and more than a ceiling of 4.
MCActuals == {2, 3, 4, 5}
HalfOnly == {2}
OneOrTwo == {1, 2}
NoAmounts == {}

=============================================================================
