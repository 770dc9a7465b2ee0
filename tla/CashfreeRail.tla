---------------------------- MODULE CashfreeRail ----------------------------
(***************************************************************************)
(* CashfreePreAuthRail (rails/cashfree.py) under a session: a hold is an   *)
(* order, and one call of the session is up to five requests to the rail,  *)
(* any of which may be lost, answered with a server error, or be the last  *)
(* thing the process does.  The rail's answers are those the registry's    *)
(* rows record.  The customer may approve a collect by himself, and an     *)
(* order nobody paid may expire.                                           *)
(*                                                                         *)
(* A call is identified by its position among the calls of the session;    *)
(* the key is made from it, and so is the order id of a reservation.  The  *)
(* session issues a key again only when its call is in doubt, so what      *)
(* _once remembers of calls that returned is never asked for.  Session     *)
(* models the rest of the session: here a policy permits what it permits,  *)
(* and each call has one entry, whose outcome changes.                     *)
(***************************************************************************)
EXTENDS RailTable, Sequences, FiniteSetsExt, Functions

CONSTANTS
  Ceilings,    \* what may be reserved
  Amounts,     \* what may be debited
  Releases,    \* what may be handed back, besides all that is available
  MaxCalls,    \* bound on calls
  MaxFaults    \* bound on crashes, lost requests and incomplete answers

ASSUME CashfreeAssumption ==
  /\ Ceilings \subseteq Nat \ {0} /\ Amounts \subseteq Nat \ {0}
  /\ Releases \subseteq Nat \ {0}
  /\ MaxCalls \in Nat /\ MaxFaults \in Nat

IDEMPOTENCY_ROWS ==
  {"idempotent_capture_replay", "idempotent_void_replay", "duplicate_order_refused",
   "payment_replay_refused", "idempotency_key_reuse_refused"}

\* Mutant of supports_idempotency: it also waits for a row nobody has measured.
claims_idempotency_late ==
  \A row \in IDEMPOTENCY_ROWS \cup {"remainder_auto_released"} : Permits(CASHFREE_PREAUTH, row)

supports_idempotency == \A row \in IDEMPOTENCY_ROWS : Permits(CASHFREE_PREAUTH, row)

VARIABLES
  orders,   \* the rail: by reservation, the order
  calls,    \* the chain: every permitted call and its outcome
  ref,      \* the BlockRef the session holds
  at,       \* the request to be made next, or where the session is
  answer,   \* what the call came to, until the chain says so
  silent,   \* captures the rail answered without saying how much
  faults

session == <<ref, at, answer>>
vars == <<orders, calls, session, silent, faults>>

Request == {"create", "order", "payments", "collect", "simulate", "capture", "void"}

NoRef == [block |-> 0, ceiling |-> 0, debited |-> 0, released |-> 0]
Placed(block, ceiling) == [NoRef EXCEPT !.block = block, !.ceiling = ceiling]

\* The call in hand is the last: no other is made while it has no outcome.
key == Len(calls)
call == calls[key]
IsOpen == key > 0 /\ call.outcome \in {"intent", "in_doubt"}

AppliedCalls(action) == {k \in DOMAIN calls : calls[k].action = action /\ calls[k].outcome = "applied"}
Total(action) == SumFunction([k \in AppliedCalls(action) |-> calls[k].amount])
available == Total("reserve") - Total("debit") - Total("release")

\* The order the session's block is on, and the order a call is about.
Standing == IF AppliedCalls("reserve") = {} THEN 0 ELSE Max(AppliedCalls("reserve"))

Order == [amount: Ceilings, status: {"ACTIVE", "PAID", "EXPIRED"},
          payments: Seq({"NOT_ATTEMPTED", "SUCCESS"}),
          action: {"none", "CAPTURE", "VOID"}, captured: Nat, by: Nat]

TypeOK ==
  /\ DOMAIN orders \subseteq DOMAIN calls
  /\ \A k \in DOMAIN orders : orders[k] \in Order
  /\ \A k \in DOMAIN calls :
       calls[k].outcome \in {"intent", "in_doubt", "applied", "rail_rejected"}
  /\ ref.block \in DOMAIN orders \cup {0}
  /\ at \in Request \cup {"idle", "recording", "down"}
  /\ answer \in {"none", "applied", "rail_rejected", "in_doubt"}
  /\ (answer # "none") = (at = "recording")
  /\ faults \in 0 .. MaxFaults

Init ==
  /\ orders = <<>> /\ calls = <<>>
  /\ ref = NoRef /\ at = "idle" /\ answer = "none"
  /\ silent = {} /\ faults = 0

(***************************************************************************)
(* The session begins a call, or begins one in doubt again.                *)
(***************************************************************************)
FirstRequest(action) ==
  CASE action = "reserve" -> "create"
    [] action = "debit"   -> "capture"
    [] action = "release" -> "void"

Begins(action, amount) ==
  /\ at = "idle" /\ ~IsOpen /\ key < MaxCalls
  /\ calls' = Append(calls, [action |-> action, amount |-> amount,
                             block |-> Standing, outcome |-> "intent"])
  /\ at' = FirstRequest(action)
  /\ UNCHANGED <<orders, ref, answer, silent, faults>>

Reserves(amount) == available <= 0 /\ Begins("reserve", amount)
Debits(amount) == amount <= Total("reserve") - Total("debit") /\ Begins("debit", amount)
HandsBack(amount) == amount \in 1 .. available /\ Begins("release", amount)

\* resolve_in_doubt asks whether the rail deduplicates before it repeats.
Resolves ==
  /\ at = "idle" /\ IsOpen
  /\ supports_idempotency
  /\ at' = FirstRequest(call.action)
  /\ UNCHANGED <<orders, calls, ref, answer, silent, faults>>

(***************************************************************************)
(* How a request ends for the adapter: it goes on, or the call returns.    *)
(***************************************************************************)
GoesOn(request) == at' = request /\ UNCHANGED <<ref, answer>>

Returns(what, block) == at' = "recording" /\ answer' = what /\ ref' = block

Refused == Returns("rail_rejected", ref)      \* a RailError

\* Mutant of Unknown: what failed is taken for what was refused.
UnknownIsRefused == Refused

Unknown == Returns("in_doubt", ref)           \* any other error

Untouched == UNCHANGED <<orders, calls, silent, faults>>

(***************************************************************************)
(* The requests of a reservation.                                          *)
(***************************************************************************)
\* Mutant of FreshOrder: the amount is sent in whole rupees.
OrderInRupees == [amount |-> call.amount \div 100, status |-> "ACTIVE", payments |-> <<>>,
                  action |-> "none", captured |-> 0, by |-> 0]

FreshOrder == [amount |-> call.amount, status |-> "ACTIVE", payments |-> <<>>,
               action |-> "none", captured |-> 0, by |-> 0]

WithOrder(o) == [k \in DOMAIN orders \cup {key} |-> IF k = key THEN o ELSE orders[k]]

\* Order ids are made from the key, and a second order under one is refused.
Creates ==
  /\ at = "create"
  /\ IF key \in DOMAIN orders
       THEN orders' = orders /\ GoesOn("order")
       ELSE orders' = WithOrder(FreshOrder) /\ GoesOn("collect")
  /\ UNCHANGED <<calls, silent, faults>>

ReadsOrder ==
  /\ at = "order"
  /\ IF orders[key].amount # call.amount THEN Refused
     ELSE CASE orders[key].status = "PAID"   -> Returns("applied", Placed(key, call.amount))
            [] orders[key].status = "ACTIVE" -> GoesOn("payments")
            [] OTHER                         -> Refused
  /\ Untouched

\* Mutant of ReadsPayments: an attempt of unknown fate is tried again.
ReadsPaymentsAndGuesses ==
  /\ at = "payments"
  /\ GoesOn("collect")
  /\ Untouched

ReadsPayments ==
  /\ at = "payments"
  /\ IF orders[key].payments = <<>> THEN GoesOn("collect") ELSE Refused
  /\ Untouched

\* The collect goes to the customer.  What a rail does with a second one on
\* an order that is not paid is not measured: here it takes it.
Collected == [orders EXCEPT ![key].payments = Append(@, "NOT_ATTEMPTED")]

Collects ==
  /\ at = "collect"
  /\ IF orders[key].status = "ACTIVE"
       THEN orders' = Collected /\ GoesOn("simulate")
       ELSE orders' = orders /\ Refused
  /\ UNCHANGED <<calls, silent, faults>>

PaidBy(k, p) == [orders EXCEPT ![k].payments[p] = "SUCCESS", ![k].status = "PAID"]

\* The sandbox's approval.  A payment that succeeded cannot be made to again.
Approvable == /\ orders[key].status = "ACTIVE"
              /\ orders[key].payments[Len(orders[key].payments)] = "NOT_ATTEMPTED"

Simulates ==
  /\ at = "simulate"
  /\ IF Approvable
       THEN /\ orders' = PaidBy(key, Len(orders[key].payments))
            /\ Returns("applied", Placed(key, call.amount))
       ELSE orders' = orders /\ Refused
  /\ UNCHANGED <<calls, silent, faults>>

(***************************************************************************)
(* Capture and void: once for an order, and under a key the first result   *)
(* again for the same request.                                             *)
(***************************************************************************)
\* Mutant of Repeats: the call does not carry its key.
RepeatsNothing(action) == FALSE

Repeats(action) == orders[call.block].action = action /\ orders[call.block].by = key

Acts(action) == orders[call.block].action = "none" \/ Repeats(action)

ActedOn(action, amount) ==
  [orders EXCEPT ![call.block].action = action, ![call.block].captured = amount,
                 ![call.block].by = key]

\* Mutant of Captured: the repeat of a capture is counted again.
CapturedMore(amount) == [ref EXCEPT !.debited = @ + amount]

\* "An assignment, not a sum."
Captured(amount) == [ref EXCEPT !.debited = amount]

Captures ==
  /\ at = "capture"
  /\ IF call.amount <= ref.ceiling - ref.released /\ Acts("CAPTURE")
       THEN orders' = ActedOn("CAPTURE", call.amount) /\ Returns("applied", Captured(call.amount))
       ELSE orders' = orders /\ Refused
  /\ UNCHANGED <<calls, silent, faults>>

\* The whole hold goes back, whatever amount the session was asked for.
Voids ==
  /\ at = "void"
  /\ IF ref.debited = 0 /\ Acts("VOID")
       THEN /\ orders' = ActedOn("VOID", 0)
            /\ Returns("applied", [ref EXCEPT !.released = ref.ceiling])
       ELSE orders' = orders /\ Refused
  /\ UNCHANGED <<calls, silent, faults>>

(***************************************************************************)
(* What goes wrong.                                                        *)
(***************************************************************************)
Fault == faults < MaxFaults /\ faults' = faults + 1

\* The request is lost, or answered 408 or 5xx: the rail acted, or did not.
Lost ==
  /\ Fault
  /\ at \in Request
  /\ Unknown
  /\ orders' \in {orders} \cup
       CASE at = "create" /\ key \notin DOMAIN orders -> {WithOrder(FreshOrder)}
         [] at = "collect" /\ orders[key].status = "ACTIVE" -> {Collected}
         [] at = "simulate" /\ Approvable -> {PaidBy(key, Len(orders[key].payments))}
         [] at = "capture" /\ call.amount <= ref.ceiling - ref.released /\ Acts("CAPTURE") ->
              {ActedOn("CAPTURE", call.amount)}
         [] at = "void" /\ ref.debited = 0 /\ Acts("VOID") -> {ActedOn("VOID", 0)}
         [] OTHER -> {}
  /\ UNCHANGED <<calls, silent>>

\* A 200 that lacks the payment session, or the amount captured, is an error.
Incomplete ==
  /\ Fault
  /\ \/ /\ at = "create" /\ key \notin DOMAIN orders
        /\ orders' = WithOrder(FreshOrder) /\ silent' = silent
     \/ /\ at = "capture" /\ call.amount <= ref.ceiling - ref.released /\ Acts("CAPTURE")
        /\ orders' = ActedOn("CAPTURE", call.amount) /\ silent' = silent \cup {key}
  /\ Refused
  /\ UNCHANGED calls

Records ==
  /\ at = "recording"
  /\ calls' = [calls EXCEPT ![key].outcome = answer]
  /\ at' = "idle" /\ answer' = "none"
  /\ UNCHANGED <<orders, ref, silent, faults>>

Crashes ==
  /\ Fault
  /\ at # "down"
  /\ at' = "down" /\ answer' = "none" /\ ref' = NoRef
  /\ UNCHANGED <<orders, calls, silent>>

\* Mutant of get_block: what was captured or voided is not read back.
BlockAsPlaced(block) == Placed(block, orders[block].amount)

get_block(block) ==
  [Placed(block, orders[block].amount) EXCEPT
     !.debited = orders[block].captured,
     !.released = IF orders[block].action = "VOID" THEN orders[block].amount ELSE 0]

\* The session resumes only when the rail can be asked about its block.
Restarts ==
  /\ at = "down"
  /\ Standing # 0 => orders[Standing].status = "PAID"
  /\ at' = "idle"
  /\ ref' = IF Standing = 0 THEN NoRef ELSE get_block(Standing)
  /\ UNCHANGED <<orders, calls, answer, silent, faults>>

CustomerApproves(k) ==
  /\ orders[k].status = "ACTIVE"
  /\ \E p \in DOMAIN orders[k].payments : orders' = PaidBy(k, p)
  /\ UNCHANGED <<calls, session, silent, faults>>

OrderExpires(k) ==
  /\ orders[k].status = "ACTIVE"
  /\ orders' = [orders EXCEPT ![k].status = "EXPIRED"]
  /\ UNCHANGED <<calls, session, silent, faults>>

Asks ==
  \/ \E amount \in Ceilings : Reserves(amount)
  \/ \E amount \in Amounts : Debits(amount)
  \/ \E amount \in Releases \cup {available} : HandsBack(amount)

Works == Creates \/ ReadsOrder \/ ReadsPayments \/ Collects \/ Simulates
           \/ Captures \/ Voids \/ Records

World == \E k \in DOMAIN orders : CustomerApproves(k) \/ OrderExpires(k)

Next == Asks \/ Resolves \/ Works \/ Lost \/ Incomplete \/ Crashes \/ Restarts \/ World

Spec == Init /\ [][Next]_vars

\* A call that was begun goes on, a dead process is restarted, and whoever
\* runs the session keeps resolving what is in doubt.
FairSpec == Spec /\ WF_vars(Works) /\ WF_vars(Restarts) /\ SF_vars(Resolves)

(***************************************************************************)
(* Properties.                                                             *)
(***************************************************************************)
Quiet == at = "idle" /\ ~IsOpen

\* "What the rail holds and what the ledger says: the two must agree" (tests/
\* test_cashfree_adapter_retry.py:565), once nothing is in doubt: an order the
\* chain shows as held is, it says of each what was taken or given back, and
\* the handle in memory is the order, after any crash, repeat or lost answer.
\* Not where the rail captured without saying how much.
LedgerAgreesWithOrder ==
  Quiet =>
    /\ \A b \in AppliedCalls("reserve") :
         LET of(action) == {k \in AppliedCalls(action) : calls[k].block = b}
             amounts(action) == {calls[k].amount : k \in of(action)}
             o == orders[b]
         IN  /\ o.status = "PAID" /\ o.amount = calls[b].amount
             /\ o.by \notin silent =>
                  /\ amounts("debit") = IF o.action = "CAPTURE" THEN {o.captured} ELSE {}
                  /\ amounts("release") = IF o.action = "VOID" THEN {o.amount} ELSE {}
    /\ ref.block # 0 /\ orders[ref.block].by \notin silent => ref = get_block(ref.block)

\* The customer is asked at most once for a reservation, however often it is
\* repeated, and from whatever process.
OneAttempt == \A k \in DOMAIN orders : Len(orders[k].payments) <= 1

\* The adapter keeps the promise of RailContract, with a call in doubt still open,
\* a paid order a hold, and an order with a payment put to the customer: whatever
\* is lost, repeated or restarted, a call acts once and before it has an outcome,
\* and the outcome is the truth, but for a customer who was asked and an answer
\* without its amount (rails/base.py:27, "A refusal means nothing happened").
Asked == {k \in DOMAIN orders : orders[k].payments # <<>>}
Paid == {k \in DOMAIN orders : orders[k].status = "PAID"}
CallsSeen ==
  [k \in DOMAIN calls |-> IF calls[k].outcome \in {"intent", "in_doubt"}
                            THEN [calls[k] EXCEPT !.outcome = "open"] ELSE calls[k]]
HoldsSeen ==
  [k \in Paid |-> [amount |-> orders[k].amount, by |-> orders[k].by, taken |-> orders[k].captured]]

Contract == INSTANCE RailContract WITH
  calls <- CallsSeen, offered <- Asked, holds <- HoldsSeen, mute <- silent
KeepsContract == Contract!Spec

\* What is in doubt is settled, by the one or the other.
DoubtIsSettled == IsOpen ~> ~IsOpen

=============================================================================
