--------------------------- MODULE MCEvidenceChain --------------------------
(***************************************************************************)
(* Values for the constants of EvidenceChain in the runs of TLC.           *)
(***************************************************************************)
EXTENDS EvidenceChain

\* A write that raises before anything is written, and one that does not stop there.
NothingLeft == {"nothing"}
AnythingLeft == {"nothing", "part", "whole"}

=============================================================================
