------------------------------ MODULE Reconcile ------------------------------
(***************************************************************************)
(* rails/reconcile.py: what a settlement's chain claims the merchant nets, *)
(* against what the rail holds; with what makes a settlement correct.      *)
(***************************************************************************)
EXTENDS Settlement, Functions

\* Entries that count are captures and refunds; an attempt the rail rejected,
\* the authorization and a compensation moved nothing.
Effect(e) ==
  CASE e.transition = "CAPTURED" -> e.amount
    [] e.transition = "REFUNDED" -> -e.amount
    [] OTHER -> 0

NetFromChain == SumFunction([i \in DOMAIN trail |-> Effect(trail[i])])

RailNet == (IF status = "captured" THEN Ceiling ELSE 0) - refunded

Drift == NetFromChain - RailNet

(***************************************************************************)
(* Properties.                                                             *)
(***************************************************************************)

\* However often settlement is run, retried, interrupted or run again for
\* another amount, the rail makes at most one refund for it ("Repeating it
\* blind would refund the customer twice", rails/settlement.py:164).
ReturnedOnce == returns <= 1

\* A run that says it settled, or that it found the payment settled, leaves the
\* merchant with the actual amount, unless somebody else refunds too.
SettledIsNet ==
  others = 0 /\ result \in {"settled", "already_settled"} =>
    status = "captured" /\ refunded = Ceiling - actual

\* "Chain and rail agree": the chain of a run that settled, whatever it went
\* through, reconciles with the rail, unless somebody else refunds too.
SettledReconciles == others = 0 /\ result = "settled" => Drift = 0

\* The chain claims no capture and no refund that is not at the rail.
TrailIsTrue ==
  \A i \in DOMAIN trail :
    /\ trail[i].transition = "CAPTURED" => status = "captured"
    /\ trail[i].transition = "REFUNDED" => refunded >= trail[i].amount

\* "Running settlement again later completes the refund without touching the
\* capture" (rails/settlement.py:21): if settlement is run again, a captured
\* ceiling does not stay captured in full, whichever call failed, landed unseen
\* or killed a run, unless somebody else refunds.
DebtIsPaid ==
  status = "captured" ~>
    others > 0 \/ \E a \in Actuals : a < Ceiling /\ refunded = Ceiling - a

\* "the customer's full ceiling was captured and the difference could not be
\* returned" (the COMPENSATION entry, rails/settlement.py:208): when a run
\* records that, the rail has not returned it.
CompensationIsOwed == result = "owed" => returns = 0

=============================================================================
