--------------------------- MODULE SpendingGrant ---------------------------
(***************************************************************************)
(* What a session promises to the human whose grant it spends, with no     *)
(* process, chain, rail call or crash in sight: money leaves the customer  *)
(* under one approved order at a time, an order moves money at most once   *)
(* and within the cap in force, and when the order is closed its receipt   *)
(* says truthfully whether it did.                                         *)
(***************************************************************************)
EXTENDS Naturals

CONSTANTS Orders,      \* [key, call]: the orders there can be
          NoOrder,     \* no order is open
          InitialCap   \* max_total of the grant

VARIABLES cap,       \* max_total in force
          held,      \* blocked at the bank, the customer's until debited
          spent,     \* gone to payees
          order,     \* the open order
          moved,     \* whether it has moved money
          receipts   \* the closed orders, with the answer to "moved?"

vars == <<cap, held, spent, order, moved, receipts>>

Init ==
  /\ cap = InitialCap
  /\ held = 0 /\ spent = 0
  /\ order = NoOrder /\ moved = FALSE
  /\ receipts = {}

\* A new order, under a key no order had before.
Open ==
  /\ order = NoOrder
  /\ order' \in Orders
  /\ \A r \in receipts : r.order.key # order'.key
  /\ UNCHANGED <<cap, held, spent, moved, receipts>>

\* The one step in which an order moves money.
Move ==
  /\ order # NoOrder /\ ~moved
  /\ moved' = TRUE
  /\ LET amount == order.call.amount
     IN  \/ /\ order.call.action = "reserve"
            /\ held = 0
            /\ spent + amount <= cap
            /\ held' = amount /\ spent' = spent
         \/ /\ order.call.action = "debit"
            /\ amount <= held
            /\ held' = held - amount /\ spent' = spent + amount
         \/ /\ order.call.action = "release"
            /\ amount <= held
            /\ held' = held - amount /\ spent' = spent
  /\ UNCHANGED <<cap, order, receipts>>

Close ==
  /\ order # NoOrder
  /\ receipts' = receipts \cup {[order |-> order, moved |-> moved]}
  /\ order' = NoOrder /\ moved' = FALSE
  /\ UNCHANGED <<cap, held, spent>>

\* The customer takes back what is held; no order is needed for that.
TakeBack ==
  /\ held > 0
  /\ held' = 0
  /\ UNCHANGED <<cap, spent, order, moved, receipts>>

\* The human widens the grant, and nobody narrows it.
Widen ==
  /\ cap' \in Nat /\ cap' > cap
  /\ UNCHANGED <<held, spent, order, moved, receipts>>

Next == Open \/ Move \/ Close \/ TakeBack \/ Widen

Spec == Init /\ [][Next]_vars

=============================================================================
