---------------------------- MODULE RailProfile ----------------------------
(***************************************************************************)
(* What a session, its policy engine and its rail share: the calls an      *)
(* agent may ask for, and the capability row of the rail                   *)
(* (rails/semantics.py, RailProfile).  A rail's evidence tiers, citations  *)
(* and quotes decide only the wording of a refusal and are left out: what  *)
(* is kept of a row is whether permits() answers yes and what exceeds()    *)
(* compares with.  Amounts are whole paise.                                *)
(***************************************************************************)
EXTENDS Integers

CONSTANTS
  Payees,           \* every payee an agent may name
  AllowedPayees,    \* the envelope's allowed_payees ...
  FirstPayee,       \* ... and the first of them
  PartialDebit,     \* permits("partial_debit")
  PartialRelease,   \* permits("remainder_release_without_teardown")
  MaxBlockAmount    \* limit("max_block_amount"), or above every amount if none

ASSUME RailProfileAssumption ==
  /\ AllowedPayees \subseteq Payees
  /\ FirstPayee \in AllowedPayees
  /\ PartialDebit \in BOOLEAN
  /\ PartialRelease \in BOOLEAN
  /\ MaxBlockAmount \in Nat

Action == {"reserve", "debit", "release"}

\* What the agent asks for: Proposal without its rail and its memo.
Call == [action: Action, amount: Int, payee: Payees]

\* The two numbers of an Envelope that a human can widen.
Caps == [max_total: Nat, max_per_txn: Nat]

=============================================================================
