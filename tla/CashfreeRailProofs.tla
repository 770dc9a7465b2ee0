------------------------- MODULE CashfreeRailProofs -------------------------
(***************************************************************************)
(* Theorems about CashfreeRail, for any number of calls, faults, crashes   *)
(* and restarts.  The customer is asked at most once for a reservation:    *)
(* whoever is about to collect looks at an order nobody was asked about,   *)
(* which was just made, or its payments were just read, and no other       *)
(* request is under way.  What the rail holds is what the ledger says: who *)
(* acted on an order is a call of the chain, and the repeat of that call   *)
(* is never refused.  And the adapter implements RailContract.             *)
(***************************************************************************)
EXTENDS CashfreeRail, SequenceTheorems, SumProofs

Action == {"reserve", "debit", "release"}
Outcome == {"intent", "in_doubt", "applied", "rail_rejected"}
Fate == {"NOT_ATTEMPTED", "SUCCESS"}

\* What a call and an order are, whatever the amounts.
CallsAre(s) ==
  \E A, B : s \in Seq([action: Action, amount: A, block: B, outcome: Outcome])

Field == {"amount", "status", "payments", "action", "captured", "by"}

IsOrder(o) ==
  /\ o = [f \in Field |-> o[f]]
  /\ o.payments \in Seq(Fate)
  /\ Len(o.payments) <= 1

OrdersAre(os) ==
  /\ os = [k \in DOMAIN os |-> os[k]]
  /\ \A k \in DOMAIN os : IsOrder(os[k])

\* Where control stands: a reservation in progress has its order, and one
\* about to collect has an order without an attempt.
ControlInv ==
  /\ at \in Request \cup {"idle", "recording", "down"}
  /\ answer \in {"none"} \cup Outcome
  /\ (answer = "none") = (at # "recording")
  /\ at \in Request => key > 0
  /\ at \in {"order", "payments", "collect", "simulate"} => key \in DOMAIN orders
  /\ at = "collect" => orders[key].payments = <<>>

RequestInv ==
  /\ CallsAre(calls)
  /\ OrdersAre(orders)
  /\ DOMAIN orders \subseteq 1 .. Len(calls)
  /\ ControlInv

(***************************************************************************)
(* What a request may do to the orders.                                    *)
(***************************************************************************)
KeepsPayments(os) ==
  /\ OrdersAre(os)
  /\ DOMAIN os = DOMAIN orders
  /\ \A k \in DOMAIN orders : Len(os[k].payments) = Len(orders[k].payments)

LEMMA LenOfCalls == CallsAre(calls) => Len(calls) \in Nat /\ DOMAIN calls = 1 .. Len(calls)
<1>1. SUFFICES ASSUME CallsAre(calls) PROVE Len(calls) \in Nat /\ DOMAIN calls = 1 .. Len(calls)
  OBVIOUS
<1>2. PICK A, B : calls \in Seq([action: Action, amount: A, block: B, outcome: Outcome])
  BY <1>1 DEF CallsAre
<1>. QED BY <1>2

LEMMA EmptyIsLengthZero ==
  ASSUME NEW s \in Seq(Fate)
  PROVE  s = <<>> <=> Len(s) = 0
  OBVIOUS

LEMMA NothingKeeps == OrdersAre(orders) => KeepsPayments(orders)
  BY DEF KeepsPayments

\* Capture and void say what was done with an order, not who was asked.
LEMMA ActingKeeps ==
  ASSUME OrdersAre(orders), NEW action, NEW amount
  PROVE  KeepsPayments(ActedOn(action, amount))
<1> DEFINE new == ActedOn(action, amount)
<1>1. DOMAIN new = DOMAIN orders /\ new = [k \in DOMAIN new |-> new[k]]
  BY DEF OrdersAre, ActedOn
<1>2. ASSUME NEW k \in DOMAIN orders
      PROVE  IsOrder(new[k]) /\ new[k].payments = orders[k].payments
  <2>1. IsOrder(orders[k])
    BY <1>2 DEF OrdersAre
  <2>2. CASE k # call.block
    <3>1. new[k] = orders[k]
      BY <1>2, <2>2 DEF ActedOn, OrdersAre
    <3>. QED BY <2>1, <3>1
  <2>3. CASE k = call.block
    <3>1. new[k] = [orders[k] EXCEPT !.action = action, !.captured = amount, !.by = key]
      BY <1>2, <2>3 DEF ActedOn, OrdersAre
    <3>. HIDE DEF new
    <3>2. new[k] = [f \in Field |-> new[k][f]] /\ new[k].payments = orders[k].payments
      BY <2>1, <3>1 DEF IsOrder, Field
    <3>. QED BY <2>1, <3>2 DEF IsOrder
  <2>. QED BY <2>2, <2>3
<1>. HIDE DEF new
<1>3. OrdersAre(new)
  BY <1>1, <1>2 DEF OrdersAre
<1>. QED BY <1>1, <1>2, <1>3 DEF KeepsPayments, new

\* So does an approval: the attempt succeeds, and there is no other.
LEMMA PayingKeeps ==
  ASSUME OrdersAre(orders), NEW j, NEW p
  PROVE  KeepsPayments(PaidBy(j, p))
<1> DEFINE new == PaidBy(j, p)
<1>1. DOMAIN new = DOMAIN orders /\ new = [k \in DOMAIN new |-> new[k]]
  BY DEF OrdersAre, PaidBy
<1>2. ASSUME NEW k \in DOMAIN orders
      PROVE  IsOrder(new[k]) /\ Len(new[k].payments) = Len(orders[k].payments)
  <2>1. IsOrder(orders[k])
    BY <1>2 DEF OrdersAre
  <2>2. CASE k # j
    <3>1. new[k] = orders[k]
      BY <1>2, <2>2 DEF PaidBy, OrdersAre
    <3>. QED BY <2>1, <3>1
  <2>3. CASE k = j
    <3> DEFINE paid == [orders[k].payments EXCEPT ![p] = "SUCCESS"]
    <3>1. new[k] = [orders[k] EXCEPT !.payments = paid, !.status = "PAID"]
      BY <1>2, <2>1, <2>3 DEF PaidBy, OrdersAre, IsOrder, Field
    <3>2. paid \in Seq(Fate) /\ Len(paid) = Len(orders[k].payments)
      <4>1. CASE p \in 1 .. Len(orders[k].payments)
        BY <2>1, <4>1, ExceptSeq DEF IsOrder, Fate
      <4>2. CASE p \notin 1 .. Len(orders[k].payments)
        <5>1. paid = orders[k].payments
          BY <2>1, <4>2 DEF IsOrder
        <5>. QED BY <2>1, <5>1 DEF IsOrder
      <4>. QED BY <4>1, <4>2
    <3>. HIDE DEF new, paid
    <3>3. new[k] = [f \in Field |-> new[k][f]] /\ new[k].payments = paid
      BY <2>1, <3>1 DEF IsOrder, Field
    <3>. QED BY <2>1, <3>2, <3>3 DEF IsOrder
  <2>. QED BY <2>2, <2>3
<1>. HIDE DEF new
<1>3. OrdersAre(new)
  BY <1>1, <1>2 DEF OrdersAre
<1>. QED BY <1>1, <1>2, <1>3 DEF KeepsPayments, new

LEMMA ExpiryKeeps ==
  ASSUME OrdersAre(orders), NEW j
  PROVE  KeepsPayments([orders EXCEPT ![j].status = "EXPIRED"])
<1> DEFINE new == [orders EXCEPT ![j].status = "EXPIRED"]
<1>1. DOMAIN new = DOMAIN orders /\ new = [k \in DOMAIN new |-> new[k]]
  BY DEF OrdersAre
<1>2. ASSUME NEW k \in DOMAIN orders
      PROVE  IsOrder(new[k]) /\ new[k].payments = orders[k].payments
  <2>1. IsOrder(orders[k])
    BY <1>2 DEF OrdersAre
  <2>2. CASE k # j
    BY <1>2, <2>1, <2>2 DEF OrdersAre
  <2>3. CASE k = j
    <3>1. new[k] = [orders[k] EXCEPT !.status = "EXPIRED"]
      BY <1>2, <2>3 DEF OrdersAre
    <3>. HIDE DEF new
    <3>2. new[k] = [f \in Field |-> new[k][f]] /\ new[k].payments = orders[k].payments
      BY <2>1, <3>1 DEF IsOrder, Field
    <3>. QED BY <2>1, <3>2 DEF IsOrder
  <2>. QED BY <2>2, <2>3
<1>. HIDE DEF new
<1>3. OrdersAre(new)
  BY <1>1, <1>2 DEF OrdersAre
<1>. QED BY <1>1, <1>2, <1>3 DEF KeepsPayments, new

\* A new order has no attempt, and touches no other order.
LEMMA CreatingAdds ==
  ASSUME OrdersAre(orders), key \notin DOMAIN orders
  PROVE  /\ OrdersAre(WithOrder(FreshOrder))
         /\ DOMAIN WithOrder(FreshOrder) = DOMAIN orders \cup {key}
         /\ WithOrder(FreshOrder)[key].payments = <<>>
<1> DEFINE new == WithOrder(FreshOrder)
<1>1. DOMAIN new = DOMAIN orders \cup {key} /\ new = [k \in DOMAIN new |-> new[k]]
  BY DEF WithOrder
<1>2. new[key] = FreshOrder /\ \A k \in DOMAIN orders : new[k] = orders[k]
  BY DEF WithOrder
<1>3. IsOrder(FreshOrder) /\ FreshOrder.payments = <<>>
  BY DEF IsOrder, FreshOrder, Field, Fate
<1>. HIDE DEF new
<1>4. OrdersAre(new)
  BY <1>1, <1>2, <1>3 DEF OrdersAre
<1>. QED BY <1>1, <1>2, <1>3, <1>4 DEF new

\* A collect adds the first attempt, where there was none.
LEMMA CollectingAdds ==
  ASSUME OrdersAre(orders), key \in DOMAIN orders, orders[key].payments = <<>>
  PROVE  OrdersAre(Collected) /\ DOMAIN Collected = DOMAIN orders
<1> DEFINE new == Collected
<1>1. DOMAIN new = DOMAIN orders /\ new = [k \in DOMAIN new |-> new[k]]
  BY DEF OrdersAre, Collected
<1>2. \A k \in DOMAIN orders \ {key} : new[k] = orders[k]
  BY DEF Collected, OrdersAre
<1>3. IsOrder(new[key])
  <2> DEFINE one == Append(orders[key].payments, "NOT_ATTEMPTED")
  <2>1. IsOrder(orders[key])
    BY DEF OrdersAre
  <2>2. new[key] = [orders[key] EXCEPT !.payments = one]
    BY <2>1 DEF Collected, OrdersAre, IsOrder, Field
  <2>3. one \in Seq(Fate) /\ Len(one) = 1
    BY DEF Fate
  <2>. HIDE DEF new, one
  <2>4. new[key] = [f \in Field |-> new[key][f]] /\ new[key].payments = one
    BY <2>1, <2>2 DEF IsOrder, Field
  <2>5. new[key].payments \in Seq(Fate) /\ Len(new[key].payments) = 1
    BY <2>3, <2>4, Zenon
  <2>6. new[key].payments \in Seq(Fate) /\ Len(new[key].payments) <= 1
    BY <2>5
  <2>. QED BY <2>4, <2>6, Zenon DEF IsOrder
<1>. HIDE DEF new
<1>4. OrdersAre(new)
  BY <1>1, <1>2, <1>3 DEF OrdersAre
<1>. QED BY <1>1, <1>4 DEF new

(***************************************************************************)
(* Steps.                                                                  *)
(***************************************************************************)
LEMMA SameCalls == CallsAre(calls) /\ calls' = calls => CallsAre(calls)'
  BY DEF CallsAre

\* A step that asks nobody and makes no order keeps the invariant, wherever
\* control goes but to a collect.
LEMMA Elsewhere ==
  ASSUME RequestInv, KeepsPayments(orders'), calls' = calls,
         at' \in (Request \ {"collect"}) \cup {"idle", "recording", "down"},
         answer' \in {"none"} \cup Outcome, (answer' = "none") = (at' # "recording"),
         at' \in Request => key > 0,
         at' \in {"order", "payments", "simulate"} => key \in DOMAIN orders
  PROVE  RequestInv'
<1>1. CallsAre(calls)'
  BY SameCalls DEF RequestInv
<1>2. OrdersAre(orders)' /\ (DOMAIN orders \subseteq 1 .. Len(calls))'
  BY DEF RequestInv, KeepsPayments
<1>3. ControlInv'
  BY DEF ControlInv, key, KeepsPayments
<1>. QED BY <1>1, <1>2, <1>3 DEF RequestInv

LEMMA CallingKeeps ==
  ASSUME RequestInv, NEW action \in Action, NEW amount, Begins(action, amount)
  PROVE  RequestInv'
<1>1. PICK A, B : calls \in Seq([action: Action, amount: A, block: B, outcome: Outcome])
  BY DEF RequestInv, CallsAre
<1> DEFINE new == [action |-> action, amount |-> amount, block |-> Standing, outcome |-> "intent"]
           C == [action: Action, amount: A \cup {amount}, block: B \cup {Standing}, outcome: Outcome]
<1>2. new \in C
  BY DEF Outcome
<1>3. calls \in Seq(C)
  <2> DEFINE D == [action: Action, amount: A, block: B, outcome: Outcome]
  <2>1. D \subseteq C
    OBVIOUS
  <2>. HIDE DEF C, D
  <2>2. calls \in Seq(D)
    BY <1>1 DEF D
  <2>. QED BY <2>1, <2>2
<1>4. calls' = Append(calls, new)
  BY DEF Begins
<1>5. calls' \in Seq(C) /\ Len(calls') = Len(calls) + 1 /\ Len(calls) \in Nat
  <2>. HIDE DEF new, C
  <2>. QED BY <1>2, <1>3, <1>4
<1>6. CallsAre(calls)'
  BY <1>5 DEF CallsAre
<1>7. at' \in {"create", "capture", "void"} /\ orders' = orders /\ answer' = answer /\ at = "idle"
  BY DEF Begins, FirstRequest, Action
<1>8. (DOMAIN orders \subseteq 1 .. Len(calls))'
  BY <1>5, <1>7 DEF RequestInv
<1>9. ControlInv'
  BY <1>5, <1>7 DEF RequestInv, ControlInv, key, Request
<1>. QED BY <1>6, <1>7, <1>8, <1>9 DEF RequestInv, OrdersAre

LEMMA RecordingKeeps ==
  ASSUME RequestInv, Records
  PROVE  RequestInv'
<1>1. PICK A, B : calls \in Seq([action: Action, amount: A, block: B, outcome: Outcome])
  BY DEF RequestInv, CallsAre
<1> DEFINE C == [action: Action, amount: A, block: B, outcome: Outcome]
<1>2. answer \in Outcome /\ at = "recording" /\ at' = "idle" /\ answer' = "none" /\ orders' = orders
  BY DEF Records, RequestInv, ControlInv
<1>3. calls' \in Seq(C) /\ Len(calls') = Len(calls) /\ Len(calls) \in Nat
  <2>1. CASE key \in 1 .. Len(calls)
    <3> DEFINE told == [calls[key] EXCEPT !.outcome = answer]
    <3>1. calls[key] \in C
      BY <1>1, <2>1, ElementOfSeq
    <3>2. told \in C
      BY <1>2, <3>1
    <3>3. calls' = [calls EXCEPT ![key] = told]
      BY DEF Records
    <3>. HIDE DEF told, C
    <3>4. calls \in Seq(C)
      BY <1>1 DEF C
    <3>. QED BY <2>1, <3>2, <3>3, <3>4, ExceptSeq
  <2>2. CASE key \notin 1 .. Len(calls)
    <3>1. calls' = calls
      BY <1>1, <2>2 DEF Records
    <3>. QED BY <1>1, <3>1
  <2>. QED BY <2>1, <2>2
<1>4. CallsAre(calls)'
  BY <1>3 DEF CallsAre
<1>5. ControlInv'
  BY <1>2 DEF ControlInv, Request
<1>. QED BY <1>2, <1>3, <1>4, <1>5 DEF RequestInv, OrdersAre

\* resolve_in_doubt begins the call again, as it began.
LEMMA ResolvingKeeps ==
  ASSUME RequestInv, Resolves
  PROVE  RequestInv'
<1>1. PICK A, B : calls \in Seq([action: Action, amount: A, block: B, outcome: Outcome])
  BY DEF RequestInv, CallsAre
<1>2. key \in 1 .. Len(calls)
  BY <1>1 DEF Resolves, IsOpen, key
<1>3. call.action \in Action
  <2>1. calls[key] \in [action: Action, amount: A, block: B, outcome: Outcome]
    BY <1>1, <1>2, ElementOfSeq
  <2>. QED BY <2>1 DEF call
<1>4. at' \in {"create", "capture", "void"} /\ key > 0
  BY <1>3 DEF Resolves, FirstRequest, Action, IsOpen
<1>5. KeepsPayments(orders')
  BY NothingKeeps DEF RequestInv, Resolves
<1>. QED BY <1>4, <1>5, Elsewhere DEF Resolves, RequestInv, ControlInv, Request

LEMMA CreatingKeeps ==
  ASSUME RequestInv, Creates
  PROVE  RequestInv'
<1>1. at = "create" /\ key > 0 /\ calls' = calls /\ answer = "none" /\ key' = key
  BY DEF Creates, RequestInv, ControlInv, Request, key
<1>2. CASE key \in DOMAIN orders
  <2>1. orders' = orders /\ at' = "order" /\ answer' = answer
    BY <1>2 DEF Creates, GoesOn
  <2>. QED BY <1>1, <1>2, <2>1, NothingKeeps, Elsewhere DEF RequestInv, Request
<1>3. CASE key \notin DOMAIN orders
  <2>1. orders' = WithOrder(FreshOrder) /\ at' = "collect" /\ answer' = answer
    BY <1>3 DEF Creates, GoesOn
  <2>2. /\ OrdersAre(orders)'
        /\ DOMAIN orders' = DOMAIN orders \cup {key}
        /\ orders'[key].payments = <<>>
    BY <1>3, <2>1, CreatingAdds DEF RequestInv
  <2>3. key \in 1 .. Len(calls)
    BY <1>1, LenOfCalls DEF RequestInv, key
  <2>4. ControlInv'
    BY <1>1, <2>1, <2>2 DEF ControlInv, Request
  <2>. QED BY <1>1, <2>2, <2>3, <2>4, SameCalls DEF RequestInv
<1>. QED BY <1>2, <1>3

LEMMA ReadingOrderKeeps ==
  ASSUME RequestInv, ReadsOrder
  PROVE  RequestInv'
<1>1. key \in DOMAIN orders /\ key > 0
  BY DEF ReadsOrder, RequestInv, ControlInv, Request
<1>2. \/ at' = "recording" /\ answer' \in {"applied", "rail_rejected"}
      \/ at' = "payments" /\ answer' = answer
  BY DEF ReadsOrder, Refused, Returns, GoesOn
<1>3. orders' = orders /\ calls' = calls /\ answer = "none"
  BY DEF ReadsOrder, Untouched, RequestInv, ControlInv
<1>. QED BY <1>1, <1>2, <1>3, NothingKeeps, Elsewhere DEF RequestInv, Request, Outcome

\* The payments of an order are read, and nothing happens before the collect.
LEMMA ReadingPaymentsKeeps ==
  ASSUME RequestInv, ReadsPayments
  PROVE  RequestInv'
<1>1. /\ key \in DOMAIN orders /\ key > 0 /\ answer = "none"
      /\ orders' = orders /\ calls' = calls /\ key' = key
  BY DEF ReadsPayments, Untouched, RequestInv, ControlInv, Request, key
<1>2. CASE orders[key].payments = <<>>
  <2>1. at' = "collect" /\ answer' = answer
    BY <1>2 DEF ReadsPayments, GoesOn
  <2>2. ControlInv'
    BY <1>1, <1>2, <2>1 DEF ControlInv, Request
  <2>. QED BY <1>1, <2>2, SameCalls DEF RequestInv, OrdersAre
<1>3. CASE orders[key].payments # <<>>
  <2>1. at' = "recording" /\ answer' = "rail_rejected"
    BY <1>3 DEF ReadsPayments, Refused, Returns
  <2>. QED BY <1>1, <2>1, NothingKeeps, Elsewhere DEF RequestInv, Outcome, Request
<1>. QED BY <1>2, <1>3

\* An attempt was added to an order that had none.
LEMMA OnceCollected ==
  ASSUME RequestInv, at = "collect", orders' = Collected, calls' = calls,
         \/ at' = "simulate" /\ answer' = answer
         \/ at' = "recording" /\ answer' \in Outcome \ {"none"}
  PROVE  RequestInv'
<1>1. key \in DOMAIN orders /\ orders[key].payments = <<>> /\ key > 0 /\ answer = "none" /\ key' = key
  BY DEF RequestInv, ControlInv, Request, key
<1>2. OrdersAre(orders)' /\ DOMAIN orders' = DOMAIN orders
  BY <1>1, CollectingAdds DEF RequestInv
<1>3. ControlInv'
  BY <1>1, <1>2 DEF ControlInv, Request, Outcome
<1>. QED BY <1>2, <1>3, SameCalls DEF RequestInv

LEMMA WorkKeeps ==
  ASSUME RequestInv, Collects \/ Simulates \/ Captures \/ Voids
  PROVE  RequestInv'
<1>1. CASE Collects
  <2>1. calls' = calls /\ at = "collect"
    BY <1>1 DEF Collects
  <2>2. CASE orders[key].status = "ACTIVE"
    BY <1>1, <2>1, <2>2, OnceCollected DEF Collects, GoesOn
  <2>3. CASE orders[key].status # "ACTIVE"
    <3>1. orders' = orders /\ at' = "recording" /\ answer' = "rail_rejected"
      BY <1>1, <2>3 DEF Collects, Refused, Returns
    <3>. QED BY <2>1, <3>1, NothingKeeps, Elsewhere DEF RequestInv, Outcome, Request
  <2>. QED BY <2>2, <2>3
<1>2. CASE Simulates \/ Captures \/ Voids
  <2>1. calls' = calls /\ at' = "recording" /\ answer' \in {"applied", "rail_rejected"}
    BY <1>2 DEF Simulates, Captures, Voids, Refused, Returns
  <2>2. \/ orders' = orders
        \/ orders' = PaidBy(key, Len(orders[key].payments))
        \/ orders' = ActedOn("CAPTURE", call.amount)
        \/ orders' = ActedOn("VOID", 0)
    BY <1>2 DEF Simulates, Captures, Voids
  <2>3. KeepsPayments(orders')
    BY <2>2, NothingKeeps, PayingKeeps, ActingKeeps DEF RequestInv
  <2>. QED BY <2>1, <2>3, Elsewhere DEF Outcome, Request
<1>. QED BY <1>1, <1>2

\* A request that is lost, or whose answer is of no use, may have been the
\* one that asked the customer, or the one that made the order.
LEMMA FailingKeeps ==
  ASSUME RequestInv, Lost \/ Incomplete
  PROVE  RequestInv'
<1>1. calls' = calls /\ at \in Request /\ at' = "recording" /\ answer' \in {"in_doubt", "rail_rejected"}
  BY DEF Lost, Incomplete, Refused, Unknown, Returns, Request
<1>2. \/ orders' = orders
      \/ at = "create" /\ key \notin DOMAIN orders /\ orders' = WithOrder(FreshOrder)
      \/ at = "collect" /\ orders' = Collected
      \/ orders' = PaidBy(key, Len(orders[key].payments))
      \/ orders' = ActedOn("CAPTURE", call.amount)
      \/ orders' = ActedOn("VOID", 0)
  <2>1. CASE Incomplete
    BY <2>1 DEF Incomplete
  <2>2. CASE Lost
    BY <2>2 DEF Lost
  <2>. QED BY <2>1, <2>2
<1>3. CASE at = "create" /\ key \notin DOMAIN orders /\ orders' = WithOrder(FreshOrder)
  <2>1. OrdersAre(orders)' /\ DOMAIN orders' = DOMAIN orders \cup {key}
    BY <1>3, CreatingAdds DEF RequestInv
  <2>2. key \in 1 .. Len(calls)
    BY <1>3, LenOfCalls DEF RequestInv, ControlInv, Request, key
  <2>3. ControlInv'
    BY <1>1 DEF ControlInv, Request, Outcome
  <2>. QED BY <1>1, <2>1, <2>2, <2>3, SameCalls DEF RequestInv
<1>4. CASE at = "collect" /\ orders' = Collected
  BY <1>1, <1>4, OnceCollected DEF Outcome
<1>5. CASE KeepsPayments(orders')
  BY <1>1, <1>5, Elsewhere DEF Outcome, Request
<1>. QED BY <1>2, <1>3, <1>4, <1>5, NothingKeeps, PayingKeeps, ActingKeeps DEF RequestInv

\* A customer can approve only what he was asked, so nobody about to collect
\* has his order changed.
LEMMA WorldKeeps ==
  ASSUME RequestInv, World
  PROVE  RequestInv'
<1>1. PICK k \in DOMAIN orders : CustomerApproves(k) \/ OrderExpires(k)
  BY DEF World
<1>2. calls' = calls /\ at' = at /\ answer' = answer /\ key' = key
  BY <1>1 DEF CustomerApproves, OrderExpires, session, key
<1>3. KeepsPayments(orders')
  BY <1>1, PayingKeeps, ExpiryKeeps DEF RequestInv, CustomerApproves, OrderExpires
<1>4. ASSUME at = "collect" PROVE orders'[key].payments = <<>>
  <2>1. key \in DOMAIN orders /\ Len(orders[key].payments) = 0
    BY <1>4 DEF RequestInv, ControlInv
  <2>2. Len(orders'[key].payments) = 0 /\ orders'[key].payments \in Seq(Fate)
    BY <1>3, <2>1 DEF KeepsPayments, OrdersAre, IsOrder
  <2>. QED BY <2>2, EmptyIsLengthZero
<1>5. ControlInv'
  BY <1>2, <1>3, <1>4 DEF RequestInv, ControlInv, KeepsPayments
<1>. QED BY <1>2, <1>3, <1>5, SameCalls DEF RequestInv, KeepsPayments

LEMMA EveryStepKeeps == RequestInv /\ [Next]_vars => RequestInv'
<1>1. SUFFICES ASSUME RequestInv, [Next]_vars PROVE RequestInv'
  OBVIOUS
<1>2. CASE Asks
  <2>1. PICK action \in Action : \E amount : Begins(action, amount)
    BY <1>2 DEF Asks, Reserves, Debits, HandsBack, Action
  <2>2. PICK amount : Begins(action, amount)
    BY <2>1
  <2>. QED BY <1>1, <2>2, CallingKeeps
<1>3. CASE Resolves
  BY <1>1, <1>3, ResolvingKeeps
<1>4. CASE Works
  BY <1>1, <1>4, CreatingKeeps, ReadingOrderKeeps, ReadingPaymentsKeeps, WorkKeeps, RecordingKeeps DEF Works
<1>5. CASE Lost \/ Incomplete
  BY <1>1, <1>5, FailingKeeps
<1>6. CASE Crashes \/ Restarts
  <2>1. orders' = orders /\ calls' = calls /\ at' \in {"down", "idle"}
    BY <1>6 DEF Crashes, Restarts
  <2>2. answer' = "none"
    BY <1>1, <1>6 DEF Crashes, Restarts, RequestInv, ControlInv
  <2>. QED BY <1>1, <2>1, <2>2, NothingKeeps, Elsewhere DEF RequestInv, Request
<1>7. CASE World
  BY <1>1, <1>7, WorldKeeps
<1>8. CASE UNCHANGED vars
  <2>1. orders' = orders /\ calls' = calls /\ at' = at /\ answer' = answer
    BY <1>8 DEF vars, session
  <2>. QED BY <1>1, <2>1 DEF RequestInv, CallsAre, OrdersAre, ControlInv, key
<1>. QED BY <1>1, <1>2, <1>3, <1>4, <1>5, <1>6, <1>7, <1>8 DEF Next

LEMMA NothingAskedYet == Init => RequestInv
<1>1. SUFFICES ASSUME Init PROVE RequestInv
  OBVIOUS
<1>2. CallsAre(calls)
  <2>1. calls \in Seq([action: Action, amount: {}, block: {}, outcome: Outcome])
    BY <1>1 DEF Init
  <2>. QED BY <2>1 DEF CallsAre
<1>3. OrdersAre(orders) /\ DOMAIN orders \subseteq 1 .. Len(calls)
  BY <1>1 DEF Init, OrdersAre
<1>4. ControlInv
  BY <1>1 DEF Init, ControlInv, Request
<1>. QED BY <1>2, <1>3, <1>4 DEF RequestInv

\* The invariant of the requests of a reservation holds in every behaviour.
THEOREM RequestsAreSound == Spec => []RequestInv
BY NothingAskedYet, EveryStepKeeps, PTL DEF Spec

\* The customer is asked at most once for a reservation, however often it is
\* repeated, resumed, or begun by another process.
THEOREM AskedOnce == Spec => []OneAttempt
<1>1. RequestInv => OneAttempt
  BY DEF RequestInv, OrdersAre, IsOrder, OneAttempt
<1>. QED BY <1>1, RequestsAreSound, PTL

(***************************************************************************)
(* The chain and the orders.  BookSound: an order is one reservation's; who *)
(* acted on it is a call about it, which says as much unless the rail was   *)
(* silent; and what the chain shows as applied, the orders show.            *)
(* HandSound, RefSound: where control stands, and the handle in memory is   *)
(* the order as last read, or as placed while the call that acted on it has *)
(* not been told so.                                                        *)
(***************************************************************************)
CallRecord == [action: Action, amount: Nat \ {0}, block: Nat, outcome: Outcome]

Open(k) == calls[k].outcome \in {"intent", "in_doubt"}

Typed ==
  /\ calls \in Seq(CallRecord)
  /\ \A k \in DOMAIN orders : orders[k] \in Order
  /\ faults \in 0 .. MaxFaults

OrderIsOfCall(k) ==
  k \in DOMAIN calls /\ calls[k].action = "reserve" /\ orders[k].amount = calls[k].amount

ActedSound(b) ==
  LET o == orders[b]
  IN  /\ o.action = "none" => o.by = 0 /\ o.captured = 0
      /\ o.action # "none" =>
           /\ o.by \in DOMAIN calls /\ calls[o.by].block = b
           /\ calls[o.by].outcome = "rail_rejected" => o.by \in silent
      /\ o.action = "CAPTURE" =>
           calls[o.by].action = "debit" /\ o.captured = calls[o.by].amount /\ o.captured <= o.amount
      /\ o.action = "VOID" => calls[o.by].action = "release" /\ o.captured = 0

CallSound(k) ==
  /\ Open(k) => k = key
  /\ calls[k].action = "reserve" => calls[k].amount \in Ceilings
  /\ calls[k].action # "reserve" =>
       /\ calls[k].block \in AppliedCalls("reserve")
       /\ Open(k) => calls[k].block = Standing
       /\ calls[k].outcome = "applied" => orders[calls[k].block].by = k
  /\ calls[k].action = "reserve" /\ calls[k].outcome = "applied" =>
       k \in DOMAIN orders /\ orders[k].status = "PAID"

BookSound ==
  /\ RequestInv
  /\ Typed
  /\ \A k \in DOMAIN orders : OrderIsOfCall(k) /\ ActedSound(k)
  /\ \A k \in DOMAIN calls : CallSound(k)

HandSound ==
  /\ answer \in {"none", "applied", "rail_rejected", "in_doubt"}
  /\ at \in Request \cup {"recording"} => IsOpen
  /\ at \in {"create", "order", "payments", "collect", "simulate"} => call.action = "reserve"
  /\ at = "capture" => call.action = "debit"
  /\ at = "void" => call.action = "release"
  /\ answer = "applied" =>
       IF call.action = "reserve" THEN key \in DOMAIN orders /\ orders[key].status = "PAID"
                                  ELSE orders[call.block].by = key
  /\ answer = "rail_rejected" /\ call.action # "reserve" /\ orders[call.block].by = key =>
       key \in silent

\* The order the handle is about: a reservation just applied is not yet told.
BlockHeld == IF answer = "applied" /\ call.action = "reserve" THEN key ELSE Standing

Unread(b) == orders[b].by \in silent \/ (IsOpen /\ orders[b].by = key)

AsPlaced(b) ==
  /\ ref = Placed(b, orders[b].amount)
  /\ answer # "applied" /\ orders[b].by # 0 /\ Unread(b)

RefSound ==
  IF at = "down" THEN ref = NoRef
  ELSE /\ BlockHeld = 0 => ref = NoRef
       /\ BlockHeld # 0 => ref = get_block(BlockHeld) \/ AsPlaced(BlockHeld)

HoldInv == BookSound /\ HandSound /\ RefSound

(***************************************************************************)
(* The money, where all of a hold is given back or nothing: what the ledger *)
(* has available is what is left of the standing order.                     *)
(***************************************************************************)
IsTold(b) == orders[b].by # 0 /\ calls[orders[b].by].outcome = "applied"

Left(b) ==
  IF IsTold(b)
    THEN IF orders[b].action = "CAPTURE" THEN orders[b].amount - orders[b].captured ELSE 0
    ELSE orders[b].amount

VoidIsWhole(b) == orders[b].action = "VOID" => calls[orders[b].by].amount = orders[b].amount

MoneySound ==
  /\ available = IF Standing = 0 THEN 0 ELSE Left(Standing)
  /\ IsOpen /\ call.action = "release" => call.amount = available
  /\ IsOpen /\ call.action = "reserve" => available = 0
  /\ \A b \in DOMAIN orders : VoidIsWhole(b)

(***************************************************************************)
(* The ledger.                                                             *)
(***************************************************************************)
LEMMA CallIs ==
  ASSUME Typed, NEW k \in DOMAIN calls
  PROVE  /\ calls[k] \in CallRecord
         /\ calls[k].action \in Action /\ calls[k].outcome \in Outcome
         /\ calls[k].amount \in Nat \ {0} /\ calls[k].block \in Nat
<1>1. calls[k] \in CallRecord
  BY ElementOfSeq DEF Typed
<1>. QED BY <1>1 DEF CallRecord

LEMMA CallsAreMany ==
  ASSUME Typed
  PROVE  key \in Nat /\ DOMAIN calls = 1 .. key /\ DOMAIN calls \in SUBSET Nat
  BY DEF Typed, key

\* What is applied is a finite set of calls, each with its amount.
LEMMA AppliedAreCalls ==
  ASSUME Typed, NEW action
  PROVE  /\ AppliedCalls(action) \in SUBSET (1 .. key)
         /\ IsFiniteSet(AppliedCalls(action))
         /\ \A k \in AppliedCalls(action) : calls[k].amount \in Nat
         /\ Total(action) \in Nat
<1>1. AppliedCalls(action) \in SUBSET (1 .. key)
  BY CallsAreMany DEF AppliedCalls
<1>2. IsFiniteSet(AppliedCalls(action))
  <2>1. IsFiniteSet(1 .. key)
    BY CallsAreMany, FS_Interval
  <2>. QED BY <1>1, <2>1, FS_Subset
<1>3. \A k \in AppliedCalls(action) : calls[k].amount \in Nat
  BY CallIs DEF AppliedCalls
<1> DEFINE f == [k \in AppliedCalls(action) |-> calls[k].amount]
<1>4. DOMAIN f = AppliedCalls(action) /\ \A k \in DOMAIN f : f[k] \in Nat
  BY <1>3
<1>5. Total(action) = SumFunction(f)
  BY DEF Total
<1> HIDE DEF f
<1>6. Total(action) \in Nat
  BY <1>2, <1>4, <1>5, SumNat
<1>. QED BY <1>1, <1>2, <1>3, <1>6

LEMMA StandingIs ==
  ASSUME Typed
  PROVE  /\ Standing \in Nat /\ available \in Int
         /\ Standing # 0 => Standing \in AppliedCalls("reserve")
         /\ \A k \in AppliedCalls("reserve") : Standing # 0 /\ k <= Standing
<1>1. AppliedCalls("reserve") \in SUBSET (1 .. key) /\ key \in Nat
  BY AppliedAreCalls, CallsAreMany
<1>2. available \in Int
  BY AppliedAreCalls DEF available
<1>3. CASE AppliedCalls("reserve") = {}
  BY <1>2, <1>3 DEF Standing
<1>4. CASE AppliedCalls("reserve") # {}
  <2>1. /\ Standing \in AppliedCalls("reserve")
        /\ \A k \in AppliedCalls("reserve") : Standing >= k
    BY <1>1, <1>4, MaxIsIn DEF Standing
  <2>. QED BY <1>1, <1>2, <2>1
<1>. QED BY <1>3, <1>4

\* Whoever may debit or hand back has a block to do it on.
LEMMA MoneyIsHeld ==
  ASSUME Typed, AppliedCalls("reserve") = {}
  PROVE  Total("reserve") = 0 /\ Total("debit") \in Nat /\ Total("release") \in Nat
<1> DEFINE f == [k \in AppliedCalls("reserve") |-> calls[k].amount]
<1>1. DOMAIN f = {} /\ Total("reserve") = SumFunction(f)
  BY DEF Total
<1> HIDE DEF f
<1>. QED BY <1>1, SumEmpty, AppliedAreCalls

LEMMA SameLedger ==
  ASSUME calls' = calls
  PROVE  /\ key' = key /\ call' = call /\ IsOpen' = IsOpen
         /\ Standing' = Standing /\ available' = available
         /\ \A k : Open(k)' = Open(k)
         /\ AppliedCalls("reserve")' = AppliedCalls("reserve")
<1>1. \A a : AppliedCalls(a)' = AppliedCalls(a)
  BY DEF AppliedCalls
<1>2. \A a : Total(a)' = Total(a)
  BY <1>1 DEF Total
<1>. QED BY <1>1, <1>2 DEF key, call, IsOpen, Standing, available, Open

(***************************************************************************)
(* What a request does to an order, told field by field.                   *)
(***************************************************************************)
SameMoney(os) ==
  /\ DOMAIN os = DOMAIN orders
  /\ \A k \in DOMAIN orders :
       /\ os[k] \in Order
       /\ os[k].amount = orders[k].amount /\ os[k].action = orders[k].action
       /\ os[k].captured = orders[k].captured /\ os[k].by = orders[k].by
       /\ orders[k].status = "PAID" => os[k].status = "PAID"

LEMMA NothingIsQuiet == Typed => SameMoney(orders)
  BY DEF Typed, SameMoney

LEMMA PayingIsQuiet ==
  ASSUME Typed, OrdersAre(orders), NEW j, NEW p
  PROVE  SameMoney(PaidBy(j, p))
<1> DEFINE new == PaidBy(j, p)
<1>1. DOMAIN new = DOMAIN orders
  BY DEF PaidBy
<1>2. ASSUME NEW k \in DOMAIN orders, k # j PROVE new[k] = orders[k]
  BY <1>2 DEF PaidBy, OrdersAre
<1>3. ASSUME j \in DOMAIN orders
      PROVE  \E q \in Seq(Fate) : new[j] = [orders[j] EXCEPT !.payments = q, !.status = "PAID"]
  <2> DEFINE paid == [orders[j].payments EXCEPT ![p] = "SUCCESS"]
  <2>1. IsOrder(orders[j])
    BY <1>3 DEF OrdersAre
  <2>2. new[j] = [orders[j] EXCEPT !.payments = paid, !.status = "PAID"]
    BY <1>3, <2>1 DEF PaidBy, OrdersAre, IsOrder, Field
  <2>3. paid \in Seq(Fate)
    <3>1. CASE p \in 1 .. Len(orders[j].payments)
      BY <2>1, <3>1, ExceptSeq DEF IsOrder, Fate
    <3>2. CASE p \notin 1 .. Len(orders[j].payments)
      <4>1. paid = orders[j].payments
        BY <2>1, <3>2 DEF IsOrder
      <4>. QED BY <2>1, <4>1 DEF IsOrder
    <3>. QED BY <3>1, <3>2
  <2>. QED BY <2>2, <2>3
<1> HIDE DEF new
<1>4. ASSUME j \in DOMAIN orders
      PROVE  /\ new[j] \in Order /\ new[j].status = "PAID"
             /\ new[j].amount = orders[j].amount /\ new[j].action = orders[j].action
             /\ new[j].captured = orders[j].captured /\ new[j].by = orders[j].by
  <2>1. PICK q \in Seq(Fate) : new[j] = [orders[j] EXCEPT !.payments = q, !.status = "PAID"]
    BY <1>3, <1>4
  <2>2. orders[j] \in Order
    BY <1>4 DEF Typed
  <2>. QED BY <2>1, <2>2 DEF Order, Fate
<1>5. SameMoney(new)
  BY <1>1, <1>2, <1>4 DEF SameMoney, Typed
<1>. QED BY <1>5 DEF new

LEMMA ExpiryIsQuiet ==
  ASSUME Typed, OrdersAre(orders), NEW j \in DOMAIN orders, orders[j].status = "ACTIVE"
  PROVE  SameMoney([orders EXCEPT ![j].status = "EXPIRED"])
<1> DEFINE new == [orders EXCEPT ![j].status = "EXPIRED"]
<1>1. DOMAIN new = DOMAIN orders /\ \A k \in DOMAIN orders \ {j} : new[k] = orders[k]
  BY DEF OrdersAre
<1>2. orders[j] \in Order
  BY DEF Typed
<1>3. new[j] = [orders[j] EXCEPT !.payments = orders[j].payments, !.status = "EXPIRED"]
  BY <1>2 DEF OrdersAre, Order
<1>4. orders[j].payments \in Seq(Fate)
  BY <1>2 DEF Order, Fate
<1> HIDE DEF new
<1>5. /\ new[j] \in Order
      /\ new[j].amount = orders[j].amount /\ new[j].action = orders[j].action
      /\ new[j].captured = orders[j].captured /\ new[j].by = orders[j].by
  BY <1>2, <1>3, <1>4 DEF Order, Fate
<1>6. SameMoney(new)
  BY <1>1, <1>5 DEF SameMoney, Typed
<1>. QED BY <1>6 DEF new

LEMMA CollectIsQuiet ==
  ASSUME Typed, OrdersAre(orders), key \in DOMAIN orders
  PROVE  SameMoney(Collected)
<1> DEFINE new == Collected
           more == Append(orders[key].payments, "NOT_ATTEMPTED")
<1>1. DOMAIN new = DOMAIN orders /\ \A k \in DOMAIN orders \ {key} : new[k] = orders[k]
  BY DEF OrdersAre, Collected
<1>2. orders[key] \in Order
  BY DEF Typed
<1>3. new[key] = [orders[key] EXCEPT !.payments = more, !.status = orders[key].status]
  BY <1>2 DEF OrdersAre, Order, Collected
<1>4. more \in Seq(Fate) /\ orders[key].status \in {"ACTIVE", "PAID", "EXPIRED"}
  BY <1>2 DEF Order, Fate
<1> HIDE DEF new, more
<1>5. /\ new[key] \in Order /\ new[key].status = orders[key].status
      /\ new[key].amount = orders[key].amount /\ new[key].action = orders[key].action
      /\ new[key].captured = orders[key].captured /\ new[key].by = orders[key].by
  BY <1>2, <1>3, <1>4 DEF Order, Fate
<1>6. SameMoney(new)
  BY <1>1, <1>5 DEF SameMoney, Typed
<1>. QED BY <1>6 DEF new

\* A capture or a void is of the call's order, and of no other.
LEMMA ActingTells ==
  ASSUME Typed, OrdersAre(orders), call.block \in DOMAIN orders,
         NEW a \in {"CAPTURE", "VOID"}, NEW n \in Nat,
         NEW os, os = ActedOn(a, n)
  PROVE  /\ DOMAIN os = DOMAIN orders
         /\ \A k \in DOMAIN orders : k # call.block => os[k] = orders[k]
         /\ os[call.block] \in Order
         /\ os[call.block].status = orders[call.block].status
         /\ os[call.block].amount = orders[call.block].amount
         /\ os[call.block].action = a /\ os[call.block].captured = n /\ os[call.block].by = key
<1> DEFINE b == call.block
<1>1. DOMAIN os = DOMAIN orders /\ \A k \in DOMAIN orders \ {b} : os[k] = orders[k]
  BY DEF OrdersAre, ActedOn
<1>2. orders[b] \in Order /\ key \in Nat
  BY CallsAreMany DEF Typed
<1>3. os[b] = [orders[b] EXCEPT !.action = a, !.captured = n, !.by = key]
  BY <1>2 DEF OrdersAre, ActedOn, Order
<1> HIDE DEF b
<1>4. /\ os[b] \in Order /\ os[b].status = orders[b].status /\ os[b].amount = orders[b].amount
      /\ os[b].action = a /\ os[b].captured = n /\ os[b].by = key
  BY <1>2, <1>3 DEF Order
<1>. QED BY <1>1, <1>4 DEF b

(***************************************************************************)
(* The books, step by step.                                                *)
(***************************************************************************)
LEMMA BookKept ==
  ASSUME BookSound, RequestInv', calls' = calls, SameMoney(orders'),
         silent \subseteq silent', faults' \in 0 .. MaxFaults
  PROVE  BookSound'
<1>1. Typed' /\ DOMAIN orders' = DOMAIN orders
  BY DEF BookSound, Typed, SameMoney
<1>2. ASSUME NEW k \in DOMAIN orders'
      PROVE  OrderIsOfCall(k)' /\ ActedSound(k)'
  <2>1. k \in DOMAIN orders /\ OrderIsOfCall(k) /\ ActedSound(k)
    BY <1>1, <1>2 DEF BookSound
  <2>2. /\ orders'[k].amount = orders[k].amount /\ orders'[k].action = orders[k].action
        /\ orders'[k].captured = orders[k].captured /\ orders'[k].by = orders[k].by
    BY <2>1 DEF SameMoney
  <2>. QED BY <2>1, <2>2 DEF OrderIsOfCall, ActedSound
<1>3. ASSUME NEW k \in DOMAIN calls'
      PROVE  CallSound(k)'
  <2>1. k \in DOMAIN calls /\ CallSound(k)
    BY <1>3 DEF BookSound
  <2>2. ASSUME calls[k].action # "reserve", calls[k].outcome = "applied"
        PROVE  orders'[calls[k].block].by = k
    <3>1. calls[k].block \in DOMAIN calls /\ orders[calls[k].block].by = k
      BY <2>1, <2>2 DEF CallSound, AppliedCalls
    <3>2. CallSound(calls[k].block) /\ calls[calls[k].block].action = "reserve"
          /\ calls[calls[k].block].outcome = "applied"
      BY <2>1, <2>2 DEF CallSound, AppliedCalls, BookSound
    <3>3. calls[k].block \in DOMAIN orders
      BY <3>2 DEF CallSound
    <3>. QED BY <3>1, <3>3 DEF SameMoney
  <2>3. ASSUME calls[k].action = "reserve", calls[k].outcome = "applied"
        PROVE  k \in DOMAIN orders' /\ orders'[k].status = "PAID"
    BY <2>1, <2>3 DEF CallSound, SameMoney
  <2>. QED BY <2>1, <2>2, <2>3, SameLedger DEF CallSound
<1>. QED BY <1>1, <1>2, <1>3 DEF BookSound

\* A block that was applied is an order, and paid.
LEMMA AppliedIsPaid ==
  ASSUME BookSound, NEW b \in AppliedCalls("reserve")
  PROVE  b \in DOMAIN orders /\ orders[b].status = "PAID" /\ ~Open(b) /\ b \in DOMAIN calls
  BY DEF BookSound, CallSound, AppliedCalls, Open

LEMMA MoneyKept ==
  ASSUME BookSound, MoneySound, calls' = calls, SameMoney(orders')
  PROVE  MoneySound'
<1>1. Standing # 0 => Standing \in DOMAIN orders
  BY StandingIs, AppliedIsPaid DEF BookSound
<1>2. ASSUME NEW b \in DOMAIN orders
      PROVE  Left(b)' = Left(b) /\ VoidIsWhole(b)'
  <2>1. /\ orders'[b].amount = orders[b].amount /\ orders'[b].action = orders[b].action
        /\ orders'[b].captured = orders[b].captured /\ orders'[b].by = orders[b].by
    BY DEF SameMoney
  <2>2. VoidIsWhole(b)
    BY DEF MoneySound
  <2>. QED BY <2>1, <2>2 DEF Left, IsTold, VoidIsWhole
<1>3. DOMAIN orders' = DOMAIN orders
  BY DEF SameMoney
<1>. QED BY <1>1, <1>2, <1>3, SameLedger DEF MoneySound

\* The order of a reservation, made once.
LEMMA BookCreated ==
  ASSUME BookSound, RequestInv', calls' = calls, IsOpen, call.action = "reserve",
         key \notin DOMAIN orders, orders' = WithOrder(FreshOrder),
         silent \subseteq silent', faults' \in 0 .. MaxFaults
  PROVE  /\ BookSound'
         /\ \A k \in DOMAIN orders : k \in DOMAIN orders' /\ orders'[k] = orders[k]
<1>1. /\ DOMAIN orders' = DOMAIN orders \cup {key} /\ orders'[key] = FreshOrder
      /\ \A k \in DOMAIN orders : orders'[k] = orders[k]
  BY DEF WithOrder
<1>2. FreshOrder \in Order
  <2>1. call.amount \in Ceilings
    BY CallsAreMany DEF BookSound, CallSound, IsOpen, call
  <2>. QED BY <2>1 DEF FreshOrder, Order
<1>3. Typed'
  BY <1>1, <1>2 DEF BookSound, Typed
<1>4. key \in DOMAIN calls /\ key \in Nat
  BY CallsAreMany DEF BookSound, IsOpen
<1>5. ASSUME NEW k \in DOMAIN orders'
      PROVE  OrderIsOfCall(k)' /\ ActedSound(k)'
  <2>1. CASE k \in DOMAIN orders
    <3>1. OrderIsOfCall(k) /\ ActedSound(k) /\ orders'[k] = orders[k]
      BY <1>1, <2>1 DEF BookSound
    <3>. QED BY <3>1 DEF OrderIsOfCall, ActedSound
  <2>2. CASE k = key
    BY <1>1, <1>4, <2>2 DEF OrderIsOfCall, ActedSound, FreshOrder, call
  <2>. QED BY <1>1, <1>5, <2>1, <2>2
<1>6. ASSUME NEW k \in DOMAIN calls'
      PROVE  CallSound(k)'
  <2>1. k \in DOMAIN calls /\ CallSound(k)
    BY <1>6 DEF BookSound
  <2>2. ASSUME calls[k].action # "reserve", calls[k].outcome = "applied"
        PROVE  orders'[calls[k].block].by = k
    <3>1. calls[k].block \in AppliedCalls("reserve") /\ orders[calls[k].block].by = k
      BY <2>1, <2>2 DEF CallSound
    <3>. QED BY <1>1, <3>1, AppliedIsPaid
  <2>. QED BY <1>1, <2>1, <2>2, SameLedger DEF CallSound
<1>. QED BY <1>1, <1>3, <1>5, <1>6 DEF BookSound

LEMMA MoneyCreated ==
  ASSUME BookSound, MoneySound, calls' = calls, key \notin DOMAIN orders,
         orders' = WithOrder(FreshOrder)
  PROVE  MoneySound'
<1>1. /\ DOMAIN orders' = DOMAIN orders \cup {key} /\ orders'[key].action = "none"
      /\ \A k \in DOMAIN orders : orders'[k] = orders[k]
  BY DEF WithOrder, FreshOrder
<1>2. Standing # 0 => Standing \in DOMAIN orders
  BY StandingIs, AppliedIsPaid DEF BookSound
<1>3. \A b \in DOMAIN orders : Left(b)' = Left(b)
  BY <1>1 DEF Left, IsTold
<1>4. \A b \in DOMAIN orders' : VoidIsWhole(b)'
  BY <1>1 DEF MoneySound, VoidIsWhole
<1>. QED BY <1>2, <1>3, <1>4, SameLedger DEF MoneySound

\* What a call may do to its order.
Deed(a, n) ==
  \/ call.action = "debit" /\ a = "CAPTURE" /\ n = call.amount /\ n <= orders[call.block].amount
  \/ call.action = "release" /\ a = "VOID" /\ n = 0

\* The call in hand, where it is about an order.
LEMMA CallInHand ==
  ASSUME BookSound, IsOpen, call.action # "reserve"
  PROVE  /\ key \in DOMAIN calls /\ key \in Nat /\ key # 0 /\ Open(key)
         /\ call \in CallRecord /\ call.amount \in Nat \ {0}
         /\ call.block = Standing /\ Standing # 0
         /\ call.block \in DOMAIN orders /\ call.block \in AppliedCalls("reserve")
         /\ orders[call.block] \in Order /\ ActedSound(call.block)
<1>1. key \in DOMAIN calls /\ key \in Nat /\ key # 0 /\ Open(key)
  BY CallsAreMany DEF BookSound, IsOpen, Open, call
<1>2. call \in CallRecord /\ call.amount \in Nat \ {0}
  BY <1>1, CallIs DEF BookSound, call
<1>3. call.block = Standing /\ call.block \in AppliedCalls("reserve")
  BY <1>1 DEF BookSound, CallSound, call
<1>4. call.block \in DOMAIN orders /\ Standing # 0
  BY <1>3, AppliedIsPaid, StandingIs DEF BookSound
<1>. QED BY <1>1, <1>2, <1>3, <1>4 DEF BookSound, Typed

LEMMA DeedIsTold ==
  ASSUME BookSound, IsOpen, NEW a, NEW n, Deed(a, n), orders' = ActedOn(a, n)
  PROVE  /\ DOMAIN orders' = DOMAIN orders
         /\ \A k \in DOMAIN orders : k # call.block => orders'[k] = orders[k]
         /\ orders'[call.block] \in Order
         /\ orders'[call.block].status = orders[call.block].status
         /\ orders'[call.block].amount = orders[call.block].amount
         /\ orders'[call.block].action = a /\ orders'[call.block].captured = n
         /\ orders'[call.block].by = key
<1>1. call.block \in DOMAIN orders /\ a \in {"CAPTURE", "VOID"} /\ n \in Nat
  BY CallInHand DEF Deed
<1>. QED BY <1>1, ActingTells DEF BookSound, RequestInv

LEMMA BookActed ==
  ASSUME BookSound, RequestInv', calls' = calls, IsOpen,
         NEW a, NEW n, Deed(a, n), Acts(a), orders' = ActedOn(a, n),
         silent \subseteq silent', faults' \in 0 .. MaxFaults
  PROVE  BookSound'
<1>0. PICK b : b = call.block
  OBVIOUS
<1>1. /\ DOMAIN orders' = DOMAIN orders
      /\ \A k \in DOMAIN orders : k # b => orders'[k] = orders[k]
      /\ orders'[b] \in Order /\ orders'[b].status = orders[b].status
      /\ orders'[b].amount = orders[b].amount
      /\ orders'[b].action = a /\ orders'[b].captured = n /\ orders'[b].by = key
  BY <1>0, DeedIsTold
<1>2. /\ key \in DOMAIN calls /\ key \in Nat /\ key # 0 /\ Open(key)
      /\ b \in DOMAIN orders /\ ActedSound(b) /\ call = calls[key]
  BY <1>0, CallInHand DEF Deed, call
<1>3. orders[b].by \in {0, key}
  BY <1>0, <1>2 DEF Acts, Repeats, ActedSound
<1>4. Typed'
  BY <1>1 DEF BookSound, Typed
<1>5. ASSUME NEW k \in DOMAIN orders'
      PROVE  OrderIsOfCall(k)' /\ ActedSound(k)'
  <2>1. k \in DOMAIN orders /\ OrderIsOfCall(k) /\ ActedSound(k)
    BY <1>1, <1>5 DEF BookSound
  <2>2. CASE k # b
    BY <1>1, <2>1, <2>2 DEF OrderIsOfCall, ActedSound
  <2>3. CASE k = b
    <3>1. OrderIsOfCall(b)'
      BY <1>1, <2>1, <2>3 DEF OrderIsOfCall
    <3>2. ActedSound(b)'
      BY <1>0, <1>1, <1>2 DEF ActedSound, Deed, Open
    <3>. QED BY <2>3, <3>1, <3>2
  <2>. QED BY <2>2, <2>3
<1>6. ASSUME NEW k \in DOMAIN calls'
      PROVE  CallSound(k)'
  <2>1. k \in DOMAIN calls /\ CallSound(k) /\ k # 0
    BY <1>6, CallsAreMany DEF BookSound
  <2>2. ASSUME calls[k].action # "reserve", calls[k].outcome = "applied"
        PROVE  orders'[calls[k].block].by = k
    <3>1. calls[k].block \in AppliedCalls("reserve") /\ orders[calls[k].block].by = k
      BY <2>1, <2>2 DEF CallSound
    <3>2. k # key
      BY <1>2, <2>2 DEF Open
    <3>3. calls[k].block # b /\ calls[k].block \in DOMAIN orders
      BY <1>3, <2>1, <3>1, <3>2, AppliedIsPaid
    <3>. QED BY <1>1, <3>1, <3>3
  <2>3. ASSUME calls[k].action = "reserve", calls[k].outcome = "applied"
        PROVE  k \in DOMAIN orders' /\ orders'[k].status = "PAID"
    BY <1>1, <2>1, <2>3 DEF CallSound
  <2>. QED BY <2>1, <2>2, <2>3, SameLedger DEF CallSound
<1>. QED BY <1>4, <1>5, <1>6 DEF BookSound

LEMMA MoneyActed ==
  ASSUME BookSound, MoneySound, calls' = calls, IsOpen,
         NEW a, NEW n, Deed(a, n), Acts(a), orders' = ActedOn(a, n)
  PROVE  MoneySound'
<1>0. PICK b : b = call.block
  OBVIOUS
<1>1. /\ DOMAIN orders' = DOMAIN orders
      /\ \A k \in DOMAIN orders : k # b => orders'[k] = orders[k]
      /\ orders'[b].amount = orders[b].amount
      /\ orders'[b].action = a /\ orders'[b].by = key
  BY <1>0, DeedIsTold
<1>2. /\ Open(key) /\ b \in DOMAIN orders /\ ActedSound(b) /\ call = calls[key]
      /\ b = Standing /\ b # 0
  BY <1>0, CallInHand DEF Deed, call
<1>3. orders[b].by \in {0, key}
  BY <1>0, <1>2 DEF Acts, Repeats, ActedSound
<1>4. ~IsTold(b) /\ ~IsTold(b)'
  BY <1>1, <1>2, <1>3 DEF IsTold, Open
<1>5. Left(b)' = orders[b].amount /\ Left(b) = orders[b].amount
  BY <1>1, <1>4 DEF Left
<1>6. VoidIsWhole(b)'
  <2>1. ASSUME a = "VOID" PROVE calls[key].amount = orders[b].amount
    BY <1>2, <1>5, <2>1 DEF Deed, MoneySound
  <2>. QED BY <1>1, <2>1 DEF VoidIsWhole
<1>7. \A k \in DOMAIN orders' : VoidIsWhole(k)'
  BY <1>1, <1>6 DEF MoneySound, VoidIsWhole
<1>8. available = Left(Standing)
  BY <1>2 DEF MoneySound
<1>9. available' = IF Standing' = 0 THEN 0 ELSE Left(Standing)'
  BY <1>2, <1>5, <1>8, SameLedger
<1>. QED BY <1>7, <1>9, SameLedger DEF MoneySound

(***************************************************************************)
(* A call is begun.                                                        *)
(***************************************************************************)
LEMMA BegunLedger ==
  ASSUME Typed, NEW action \in Action, NEW amount \in Nat \ {0}, Begins(action, amount)
  PROVE  /\ calls' \in Seq(CallRecord) /\ key' = key + 1 /\ DOMAIN calls' = 1 .. key + 1
         /\ \A k \in DOMAIN calls : calls'[k] = calls[k]
         /\ call' = [action |-> action, amount |-> amount, block |-> Standing, outcome |-> "intent"]
         /\ \A a : AppliedCalls(a)' = AppliedCalls(a)
         /\ Standing' = Standing /\ available' = available
<1> DEFINE new == [action |-> action, amount |-> amount, block |-> Standing, outcome |-> "intent"]
<1>1. new \in CallRecord
  BY StandingIs DEF CallRecord, Outcome
<1>2. calls' = Append(calls, new)
  BY DEF Begins
<1>3. /\ calls' \in Seq(CallRecord) /\ Len(calls') = key + 1 /\ key \in Nat
      /\ \A k \in DOMAIN calls : calls'[k] = calls[k]
      /\ calls'[key + 1] = new /\ DOMAIN calls = 1 .. key
  <2> HIDE DEF new
  <2>. QED BY <1>1, <1>2 DEF Typed, key
<1>4. key' = key + 1 /\ DOMAIN calls' = 1 .. key + 1
  BY <1>3 DEF key
<1>5. ASSUME NEW a PROVE AppliedCalls(a)' = AppliedCalls(a)
  <2>1. \A k \in DOMAIN calls' : k \in DOMAIN calls \/ k = key + 1
    BY <1>3, <1>4
  <2>2. AppliedCalls(a)' = {k \in DOMAIN calls' : calls'[k].action = a /\ calls'[k].outcome = "applied"}
    BY DEF AppliedCalls
  <2>3. DOMAIN calls \subseteq DOMAIN calls' /\ calls'[key + 1].outcome = "intent"
    BY <1>3, <1>4
  <2>. QED BY <1>3, <2>1, <2>2, <2>3 DEF AppliedCalls
<1>6. ASSUME NEW a PROVE Total(a)' = Total(a)
  <2>1. \A k \in AppliedCalls(a) : calls'[k].amount = calls[k].amount
    BY <1>3 DEF AppliedCalls
  <2>2. [k \in AppliedCalls(a)' |-> calls'[k].amount] = [k \in AppliedCalls(a) |-> calls[k].amount]
    BY <1>5, <2>1
  <2>. QED BY <2>2 DEF Total
<1>7. Standing' = Standing /\ available' = available
  BY <1>5, <1>6 DEF Standing, available
<1>. QED BY <1>3, <1>4, <1>5, <1>7 DEF call

LEMMA BookBegun ==
  ASSUME BookSound, RequestInv', NEW action \in Action, NEW amount \in Nat \ {0},
         Begins(action, amount),
         action = "reserve" => amount \in Ceilings, action # "reserve" => Standing # 0
  PROVE  BookSound'
<1>1. /\ calls' \in Seq(CallRecord) /\ key' = key + 1 /\ DOMAIN calls' = 1 .. key + 1
      /\ \A k \in DOMAIN calls : calls'[k] = calls[k]
      /\ calls'[key + 1] = [action |-> action, amount |-> amount, block |-> Standing,
                            outcome |-> "intent"]
      /\ AppliedCalls("reserve")' = AppliedCalls("reserve")
      /\ Standing' = Standing
  BY BegunLedger DEF BookSound, call
<1>2. orders' = orders /\ silent' = silent /\ faults' = faults /\ ~IsOpen
  BY DEF Begins
<1>3. key \in Nat /\ DOMAIN calls = 1 .. key
  BY CallsAreMany DEF BookSound
<1>4. Typed'
  BY <1>1, <1>2 DEF BookSound, Typed
<1>5. ASSUME NEW k \in DOMAIN orders'
      PROVE  OrderIsOfCall(k)' /\ ActedSound(k)'
  <2>1. k \in DOMAIN orders /\ OrderIsOfCall(k) /\ ActedSound(k)
    BY <1>2, <1>5 DEF BookSound
  <2>2. DOMAIN calls \subseteq DOMAIN calls'
    BY <1>1, <1>3
  <2>. QED BY <1>1, <1>2, <2>1, <2>2 DEF OrderIsOfCall, ActedSound
<1>6. ASSUME NEW k \in DOMAIN calls'
      PROVE  CallSound(k)'
  <2>1. CASE k \in DOMAIN calls
    <3>1. CallSound(k) /\ calls'[k] = calls[k] /\ k # key + 1
      BY <1>1, <1>3, <2>1 DEF BookSound
    <3>2. ~Open(k)
      BY <1>2, <1>3, <2>1, <3>1 DEF IsOpen, call, Open, CallSound
    <3>3. Open(k)' = Open(k)
      BY <3>1 DEF Open
    <3>. QED BY <1>1, <1>2, <3>1, <3>2, <3>3 DEF CallSound
  <2>2. CASE k = key + 1
    BY <1>1, <2>2, StandingIs DEF CallSound, BookSound
  <2>. QED BY <1>1, <1>3, <1>6, <2>1, <2>2
<1>. QED BY <1>4, <1>5, <1>6 DEF BookSound

LEMMA MoneyBegun ==
  ASSUME BookSound, MoneySound, NEW action \in Action, NEW amount \in Nat \ {0},
         Begins(action, amount),
         action = "release" => amount = available, action = "reserve" => available <= 0
  PROVE  MoneySound'
<1>1. /\ key' = key + 1 /\ \A k \in DOMAIN calls : calls'[k] = calls[k]
      /\ call'.action = action /\ call'.amount = amount
      /\ Standing' = Standing /\ available' = available
  BY BegunLedger DEF BookSound
<1>2. orders' = orders
  BY DEF Begins
<1>3. ASSUME NEW b \in DOMAIN orders
      PROVE  Left(b)' = Left(b) /\ VoidIsWhole(b)' /\ Left(b) \in Int /\ Left(b) >= 0
  <2>1. orders[b] \in Order /\ ActedSound(b) /\ VoidIsWhole(b)
    BY DEF BookSound, Typed, MoneySound
  <2>2. orders[b].amount \in Nat /\ orders[b].captured \in Nat
    BY <2>1, CashfreeAssumption DEF Order
  <2>3. orders[b].by # 0 => orders[b].by \in DOMAIN calls
    BY <2>1 DEF ActedSound
  <2>4. orders[b].action = "VOID" => orders[b].by \in DOMAIN calls
    BY <2>1 DEF ActedSound
  <2>5. orders[b].action = "CAPTURE" => orders[b].captured <= orders[b].amount
    BY <2>1 DEF ActedSound
  <2>6. Left(b) \in Int /\ Left(b) >= 0
    BY <2>2, <2>5 DEF Left
  <2>7. Left(b)' = Left(b)
    BY <1>1, <1>2, <2>3 DEF Left, IsTold
  <2>8. VoidIsWhole(b)'
    BY <1>1, <1>2, <2>1, <2>4 DEF VoidIsWhole
  <2>. QED BY <2>6, <2>7, <2>8
<1>4. Standing # 0 => Standing \in DOMAIN orders
  BY StandingIs, AppliedIsPaid DEF BookSound
<1>5. available = IF Standing = 0 THEN 0 ELSE Left(Standing)
  BY DEF MoneySound
<1>6. action = "reserve" => available = 0
  BY <1>3, <1>4, <1>5, StandingIs DEF BookSound
<1>7. available' = IF Standing' = 0 THEN 0 ELSE Left(Standing)'
  BY <1>1, <1>3, <1>4, <1>5
<1>8. \A b \in DOMAIN orders' : VoidIsWhole(b)'
  BY <1>2, <1>3
<1>. QED BY <1>1, <1>6, <1>7, <1>8 DEF MoneySound

(***************************************************************************)
(* A call is recorded.                                                     *)
(***************************************************************************)
LEMMA RecordedLedger ==
  ASSUME Typed, IsOpen, Records, NEW what \in {"applied", "rail_rejected", "in_doubt"},
         what = answer
  PROVE  /\ calls' \in Seq(CallRecord) /\ key' = key /\ DOMAIN calls' = DOMAIN calls
         /\ \A k \in DOMAIN calls : k # key => calls'[k] = calls[k]
         /\ calls'[key] = [call EXCEPT !.outcome = what]
         /\ key \in DOMAIN calls /\ key \in Nat /\ key # 0
<1>1. key \in DOMAIN calls /\ key \in Nat /\ key # 0 /\ calls \in Seq(CallRecord)
  BY CallsAreMany DEF IsOpen, Typed
<1>2. call \in CallRecord
  BY <1>1, CallIs DEF call
<1> DEFINE told == [call EXCEPT !.outcome = what]
<1>3. told \in CallRecord
  BY <1>2 DEF CallRecord, Outcome
<1>4. calls' = [calls EXCEPT ![key] = told]
  BY <1>1 DEF Records, call
<1> HIDE DEF told
<1>5. /\ calls' \in Seq(CallRecord) /\ Len(calls') = Len(calls)
      /\ \A k \in DOMAIN calls : k # key => calls'[k] = calls[k]
      /\ calls'[key] = told
  BY <1>1, <1>3, <1>4, ExceptSeq
<1>6. key' = key /\ DOMAIN calls' = DOMAIN calls
  BY <1>1, <1>5 DEF key
<1>. QED BY <1>1, <1>5, <1>6 DEF told

LEMMA RecordedApplied ==
  ASSUME Typed, IsOpen, Records, NEW what \in {"applied", "rail_rejected", "in_doubt"},
         what = answer, NEW a
  PROVE  AppliedCalls(a)' = IF what = "applied" /\ call.action = a
                              THEN AppliedCalls(a) \cup {key} ELSE AppliedCalls(a)
<1>1. /\ key' = key /\ DOMAIN calls' = DOMAIN calls
      /\ \A k \in DOMAIN calls : k # key => calls'[k] = calls[k]
      /\ calls'[key].action = call.action /\ calls'[key].outcome = what /\ key \in DOMAIN calls
  <2>1. call \in CallRecord
    BY RecordedLedger, CallIs DEF call
  <2>. QED BY <2>1, RecordedLedger DEF CallRecord
<1>2. calls[key] = call /\ call.outcome # "applied"
  BY DEF IsOpen, call
<1>3. AppliedCalls(a)' = {k \in DOMAIN calls' : calls'[k].action = a /\ calls'[k].outcome = "applied"}
  BY DEF AppliedCalls
<1>. QED BY <1>1, <1>2, <1>3 DEF AppliedCalls

LEMMA RecordedTotal ==
  ASSUME Typed, IsOpen, Records, NEW what \in {"applied", "rail_rejected", "in_doubt"},
         what = answer, NEW a
  PROVE  Total(a)' = IF what = "applied" /\ call.action = a THEN Total(a) + call.amount ELSE Total(a)
<1> DEFINE f == [k \in AppliedCalls(a) |-> calls[k].amount]
<1>1. /\ \A k \in DOMAIN calls : k # key => calls'[k] = calls[k]
      /\ calls'[key].amount = call.amount /\ call.amount \in Nat
      /\ key \in DOMAIN calls /\ key \notin AppliedCalls(a)
  <2>1. call \in CallRecord
    BY RecordedLedger, CallIs DEF call
  <2>. QED BY <2>1, RecordedLedger DEF CallRecord, AppliedCalls, IsOpen, call
<1>2. /\ DOMAIN f = AppliedCalls(a) /\ IsFiniteSet(DOMAIN f)
      /\ \A k \in DOMAIN f : f[k] = calls[k].amount /\ f[k] \in Nat /\ k # key /\ k \in DOMAIN calls
  BY <1>1, AppliedAreCalls DEF AppliedCalls
<1>3. Total(a) = SumFunction(f)
  BY DEF Total
<1>4. PICK h : h = [k \in AppliedCalls(a)' |-> calls'[k].amount]
  OBVIOUS
<1>5. Total(a)' = SumFunction(h)
  BY <1>4 DEF Total
<1>6. CASE what = "applied" /\ call.action = a
  <2>1. DOMAIN h = DOMAIN f \cup {key}
    BY <1>2, <1>4, <1>6, RecordedApplied
  <2>2. h[key] = call.amount /\ \A y \in DOMAIN f : h[y] = f[y]
    BY <1>1, <1>2, <1>4, <2>1
  <2> HIDE DEF f
  <2>3. key \notin DOMAIN f /\ \A y \in DOMAIN h : h[y] \in Int
    BY <1>1, <1>2, <2>1, <2>2
  <2>4. SumFunction(h) = SumFunction(f) + h[key]
    BY <1>2, <2>1, <2>2, <2>3, SumAdd
  <2>. QED BY <1>3, <1>5, <1>6, <2>2, <2>4
<1>7. CASE ~(what = "applied" /\ call.action = a)
  <2>1. h = f
    BY <1>1, <1>2, <1>4, <1>7, RecordedApplied
  <2>. QED BY <1>3, <1>5, <1>7, <2>1
<1>. QED BY <1>6, <1>7

\* The block the session has next, and what the ledger has on it.
LEMMA RecordedStanding ==
  ASSUME Typed, IsOpen, Records, NEW what \in {"applied", "rail_rejected", "in_doubt"},
         what = answer
  PROVE  Standing' = IF what = "applied" /\ call.action = "reserve" THEN key ELSE Standing
<1>1. CASE what = "applied" /\ call.action = "reserve"
  <2> DEFINE S == AppliedCalls("reserve") \cup {key}
  <2>1. AppliedCalls("reserve")' = S
    BY <1>1, RecordedApplied
  <2>2. S \in SUBSET (1 .. key) /\ S # {} /\ key \in Nat /\ key \in S
    BY RecordedLedger, AppliedAreCalls
  <2>3. Standing' = Max(S)
    BY <2>1 DEF Standing
  <2> HIDE DEF S
  <2>4. Max(S) \in S /\ Max(S) >= key
    BY <2>2, MaxIsIn
  <2>5. Max(S) = key
    <3>1. \A x \in S : x \in Nat /\ x <= key
      BY <2>2
    <3>2. PICK m : m = Max(S)
      OBVIOUS
    <3>3. m \in Nat /\ m <= key /\ m >= key
      BY <2>4, <3>1, <3>2
    <3>. QED BY <2>2, <3>2, <3>3
  <2>. QED BY <1>1, <2>3, <2>5
<1>2. CASE ~(what = "applied" /\ call.action = "reserve")
  <2>1. AppliedCalls("reserve")' = AppliedCalls("reserve")
    BY <1>2, RecordedApplied
  <2>. QED BY <1>2, <2>1 DEF Standing
<1>. QED BY <1>1, <1>2

\* An applied call has its order; a refused one that acted was not answered.
RecordedTruly(what) ==
  /\ what = "applied" =>
       IF call.action = "reserve" THEN key \in DOMAIN orders /\ orders[key].status = "PAID"
                                  ELSE orders[call.block].by = key
  /\ what = "rail_rejected" /\ call.action # "reserve" /\ orders[call.block].by = key =>
       key \in silent

LEMMA BookRecorded ==
  ASSUME BookSound, RequestInv', IsOpen, Records,
         NEW what \in {"applied", "rail_rejected", "in_doubt"}, what = answer, RecordedTruly(what)
  PROVE  BookSound'
<1>1. /\ calls' \in Seq(CallRecord) /\ key' = key /\ DOMAIN calls' = DOMAIN calls
      /\ \A k \in DOMAIN calls : k # key => calls'[k] = calls[k]
      /\ calls'[key] = [call EXCEPT !.outcome = what]
      /\ key \in DOMAIN calls /\ key \in Nat /\ key # 0
  BY RecordedLedger DEF BookSound
<1>2. orders' = orders /\ silent' = silent /\ faults' = faults
  BY DEF Records
<1>3. Typed'
  BY <1>1, <1>2 DEF BookSound, Typed
<1>4. /\ calls'[key].action = call.action /\ calls'[key].amount = call.amount
      /\ calls'[key].block = call.block /\ calls'[key].outcome = what
      /\ call = calls[key] /\ call.outcome \in {"intent", "in_doubt"} /\ call.action \in Action
  <2>1. call \in CallRecord
    BY <1>1, CallIs DEF BookSound, call
  <2>. QED BY <1>1, <2>1 DEF CallRecord, IsOpen, call
<1>5. \A k \in DOMAIN calls : /\ calls'[k].action = calls[k].action
                              /\ calls'[k].amount = calls[k].amount
                              /\ calls'[k].block = calls[k].block
  BY <1>1, <1>4
<1>6. ASSUME NEW k \in DOMAIN orders'
      PROVE  OrderIsOfCall(k)' /\ ActedSound(k)'
  <2>1. k \in DOMAIN orders /\ OrderIsOfCall(k) /\ ActedSound(k) /\ orders[k] \in Order
    BY <1>2, <1>6 DEF BookSound, Typed
  <2>2. OrderIsOfCall(k)'
    BY <1>1, <1>2, <1>5, <2>1 DEF OrderIsOfCall
  <2>3. ASSUME orders[k].action # "none", calls'[orders[k].by].outcome = "rail_rejected"
        PROVE  orders[k].by \in silent
    <3>1. CASE orders[k].by # key
      BY <1>1, <2>1, <2>3, <3>1 DEF ActedSound
    <3>2. CASE orders[k].by = key
      <4>1. call.action \in {"debit", "release"} /\ call.block = k
        BY <1>4, <2>1, <2>3, <3>2 DEF ActedSound, Order
      <4>. QED BY <1>4, <2>3, <3>2, <4>1 DEF RecordedTruly
    <3>. QED BY <3>1, <3>2
  <2>4. ActedSound(k)'
    <3>1. orders[k].action # "none" => orders[k].by \in DOMAIN calls
      BY <2>1 DEF ActedSound
    <3>. QED BY <1>1, <1>2, <1>5, <2>1, <2>3, <3>1 DEF ActedSound, Order
  <2>. QED BY <2>2, <2>4
<1>7. ASSUME NEW k \in DOMAIN calls'
      PROVE  CallSound(k)'
  <2>1. k \in DOMAIN calls /\ CallSound(k)
    BY <1>1, <1>7 DEF BookSound
  <2>2. AppliedCalls("reserve") \subseteq AppliedCalls("reserve")'
    BY RecordedApplied DEF BookSound
  <2>3. CASE k # key
    <3>1. calls'[k] = calls[k] /\ ~Open(k) /\ ~Open(k)'
      BY <1>1, <2>1, <2>3 DEF CallSound, Open
    <3>. QED BY <1>1, <1>2, <2>1, <2>2, <3>1 DEF CallSound
  <2>4. CASE k = key
    <3>1. Open(key)' => Standing' = Standing
      BY <1>1, <1>4, RecordedStanding DEF BookSound, Open
    <3>2. call.action # "reserve" => /\ call.block \in AppliedCalls("reserve")
                                     /\ call.block = Standing
      BY <1>4, <2>1, <2>4 DEF CallSound, Open
    <3>3. calls'[key].action # "reserve" =>
             /\ calls'[key].block \in AppliedCalls("reserve")'
             /\ Open(key)' => calls'[key].block = Standing'
             /\ what = "applied" => orders'[calls'[key].block].by = key
      BY <1>2, <1>4, <2>2, <3>1, <3>2 DEF RecordedTruly
    <3>4. calls'[key].action = "reserve" =>
             /\ calls'[key].amount \in Ceilings
             /\ what = "applied" => key \in DOMAIN orders' /\ orders'[key].status = "PAID"
      BY <1>2, <1>4, <2>1, <2>4 DEF RecordedTruly, CallSound
    <3>. QED BY <1>1, <1>4, <2>4, <3>3, <3>4 DEF CallSound
  <2>. QED BY <2>3, <2>4
<1>. QED BY <1>3, <1>6, <1>7 DEF BookSound

LEMMA MoneyRecorded ==
  ASSUME BookSound, MoneySound, IsOpen, Records,
         NEW what \in {"applied", "rail_rejected", "in_doubt"}, what = answer, RecordedTruly(what)
  PROVE  MoneySound'
<1>1. /\ key' = key /\ DOMAIN calls' = DOMAIN calls
      /\ \A k \in DOMAIN calls : k # key => calls'[k] = calls[k]
      /\ key \in DOMAIN calls /\ key \in Nat /\ key # 0 /\ orders' = orders
  BY RecordedLedger DEF BookSound, Records
<1>2. /\ calls'[key].action = call.action /\ calls'[key].amount = call.amount
      /\ calls'[key].outcome = what /\ call.action \in Action /\ call.amount \in Nat
      /\ call = calls[key] /\ call.outcome # "applied" /\ Open(key)
  <2>1. call \in CallRecord
    BY <1>1, CallIs DEF BookSound, call
  <2>. QED BY <2>1, RecordedLedger DEF BookSound, CallRecord, IsOpen, call, Open
<1>3. ASSUME NEW b \in DOMAIN orders
      PROVE  /\ VoidIsWhole(b)'
             /\ (orders[b].by # key \/ what # "applied") => Left(b)' = Left(b)
             /\ orders[b] \in Order /\ ActedSound(b) /\ orders[b].amount \in Nat
             /\ orders[b].by = key => Left(b) = orders[b].amount /\ ~IsTold(b)
  <2>1. orders[b] \in Order /\ ActedSound(b) /\ VoidIsWhole(b)
    BY DEF BookSound, Typed, MoneySound
  <2>2. orders[b].by # 0 => orders[b].by \in DOMAIN calls
    BY <2>1 DEF ActedSound
  <2>3. orders[b].action = "VOID" => orders[b].by \in DOMAIN calls
    BY <2>1 DEF ActedSound
  <2>4. VoidIsWhole(b)'
    BY <1>1, <1>2, <2>1, <2>3 DEF VoidIsWhole
  <2>5. orders[b].by = key => ~IsTold(b)
    BY <1>2 DEF IsTold
  <2>6. (orders[b].by # key \/ what # "applied") => IsTold(b)' = IsTold(b)
    BY <1>1, <1>2, <2>2 DEF IsTold
  <2>7. orders[b].amount \in Nat
    BY <2>1, CashfreeAssumption DEF Order
  <2>. QED BY <1>1, <2>1, <2>4, <2>5, <2>6, <2>7 DEF Left
<1>4. Standing # 0 => Standing \in DOMAIN orders /\ Standing # key
  BY <1>2, StandingIs, AppliedIsPaid DEF BookSound
<1>5. \A b \in DOMAIN orders' : VoidIsWhole(b)'
  BY <1>1, <1>3
<1>6. available = IF Standing = 0 THEN 0 ELSE Left(Standing)
  BY DEF MoneySound
<1>7. \A a : Total(a)' = IF what = "applied" /\ call.action = a THEN Total(a) + call.amount ELSE Total(a)
  BY RecordedTotal DEF BookSound
<1>8. Total("reserve") \in Nat /\ Total("debit") \in Nat /\ Total("release") \in Nat
  BY AppliedAreCalls DEF BookSound
<1>9. Standing' = IF what = "applied" /\ call.action = "reserve" THEN key ELSE Standing
  BY RecordedStanding DEF BookSound
<1>10. available' = IF Standing' = 0 THEN 0 ELSE Left(Standing)'
  <2>1. CASE what # "applied"
    <3>1. Standing' = Standing /\ available' = available
      BY <1>7, <1>9, <2>1 DEF available
    <3>. QED BY <1>3, <1>4, <1>6, <2>1, <3>1
  <2>2. CASE what = "applied" /\ call.action = "reserve"
    <3>1. available = 0 /\ key \in DOMAIN orders /\ OrderIsOfCall(key)
      BY <2>2 DEF MoneySound, RecordedTruly, BookSound
    <3>2. available' = call.amount /\ Standing' = key
      BY <1>2, <1>7, <1>8, <1>9, <2>2, <3>1 DEF available
    <3>3. orders[key].by = 0
      <4>1. ASSUME orders[key].action # "none" PROVE FALSE
        <5>1. ActedSound(key) /\ orders[key] \in Order
          BY <1>3, <3>1
        <5>2. /\ orders[key].by \in DOMAIN calls /\ calls[orders[key].by].block = key
              /\ calls[orders[key].by].action # "reserve"
          BY <4>1, <5>1 DEF ActedSound, Order
        <5>3. key \in AppliedCalls("reserve")
          BY <5>2 DEF BookSound, CallSound
        <5>. QED BY <1>2, <5>3 DEF AppliedCalls
      <4>. QED BY <1>3, <3>1, <4>1 DEF ActedSound
    <3>4. Left(key)' = orders[key].amount
      BY <1>1, <3>3 DEF Left, IsTold
    <3>. QED BY <1>1, <1>2, <3>1, <3>2, <3>4 DEF OrderIsOfCall
  <2>3. CASE what = "applied" /\ call.action # "reserve"
    <3>1. /\ call.block = Standing /\ Standing # 0 /\ Standing \in DOMAIN orders
          /\ orders[Standing].by = key /\ ActedSound(Standing) /\ orders[Standing] \in Order
      BY <2>3, CallInHand DEF RecordedTruly
    <3>2. Standing' = Standing /\ Left(Standing) = orders[Standing].amount
      BY <1>3, <1>9, <2>3, <3>1
    <3>3. IsTold(Standing)'
      BY <1>1, <1>2, <2>3, <3>1, <3>2 DEF IsTold
    <3>4. CASE call.action = "debit"
      <4>1. available' = available - call.amount
        BY <1>2, <1>7, <1>8, <2>3, <3>4 DEF available
      <4>2. orders[Standing].action = "CAPTURE" /\ orders[Standing].captured = call.amount
        BY <1>1, <1>2, <3>1, <3>4 DEF ActedSound, Order
      <4>3. Left(Standing)' = orders[Standing].amount - orders[Standing].captured
        BY <1>1, <3>2, <3>3, <4>2 DEF Left
      <4>. QED BY <1>6, <3>1, <3>2, <4>1, <4>2, <4>3
    <3>5. CASE call.action = "release"
      <4>1. available' = available - call.amount
        BY <1>2, <1>7, <1>8, <2>3, <3>5 DEF available
      <4>0. available = call.amount
        BY <3>5 DEF MoneySound
      <4>2. orders[Standing].action = "VOID"
        BY <1>1, <1>2, <3>1, <3>5 DEF ActedSound, Order
      <4>3. Left(Standing)' = 0
        BY <1>1, <3>2, <3>3, <4>2 DEF Left
      <4>. QED BY <1>2, <3>1, <3>2, <4>0, <4>1, <4>3
    <3>. QED BY <1>2, <2>3, <3>4, <3>5 DEF Action
  <2>. QED BY <2>1, <2>2, <2>3
<1>11. IsOpen' => what = "in_doubt" /\ call'.action = call.action /\ call'.amount = call.amount
                  /\ available' = available
  <2>1. call' = calls'[key]
    BY <1>1 DEF call
  <2>2. what # "applied" => available' = available
    BY <1>7 DEF available
  <2>. QED BY <1>2, <2>1, <2>2 DEF IsOpen
<1>. QED BY <1>5, <1>10, <1>11 DEF MoneySound

(***************************************************************************)
(* The handle.                                                             *)
(***************************************************************************)
LEMMA HandleIs ==
  ASSUME NEW b, NEW c
  PROVE  /\ get_block(b) = [block |-> b, ceiling |-> orders[b].amount,
                            debited |-> orders[b].captured,
                            released |-> IF orders[b].action = "VOID" THEN orders[b].amount ELSE 0]
         /\ Placed(b, c) = [block |-> b, ceiling |-> c, debited |-> 0, released |-> 0]
<1>1. ASSUME NEW x
      PROVE  Placed(b, x) = [block |-> b, ceiling |-> x, debited |-> 0, released |-> 0]
  <2>1. PICK n : n = [block |-> 0, ceiling |-> 0, debited |-> 0, released |-> 0]
    OBVIOUS
  <2>2. Placed(b, x) = [n EXCEPT !.block = b, !.ceiling = x]
    BY <2>1 DEF Placed, NoRef
  <2>. QED BY <2>1, <2>2
<1> DEFINE back == IF orders[b].action = "VOID" THEN orders[b].amount ELSE 0
           p == Placed(b, orders[b].amount)
<1>2. get_block(b) = [p EXCEPT !.debited = orders[b].captured, !.released = back]
  BY DEF get_block
<1>3. p = [block |-> b, ceiling |-> orders[b].amount, debited |-> 0, released |-> 0]
  BY <1>1
<1> HIDE DEF back, p
<1>4. get_block(b) = [block |-> b, ceiling |-> orders[b].amount, debited |-> orders[b].captured,
                      released |-> back]
  BY <1>2, <1>3
<1>. QED BY <1>1, <1>4 DEF back

\* The block held is an order, or there is none.
LEMMA HeldIsOrder ==
  ASSUME HoldInv, BlockHeld # 0
  PROVE  BlockHeld \in DOMAIN orders
  BY StandingIs, AppliedIsPaid DEF HoldInv, BookSound, HandSound, BlockHeld

\* A step that leaves the handle and its order as they are.
LEMMA RefStays ==
  ASSUME HoldInv, calls' = calls, ref' = ref, silent \subseteq silent',
         (at' = "down") = (at = "down"), (answer' = "applied") = (answer = "applied"),
         BlockHeld # 0 => /\ orders'[BlockHeld].amount = orders[BlockHeld].amount
                          /\ orders'[BlockHeld].action = orders[BlockHeld].action
                          /\ orders'[BlockHeld].captured = orders[BlockHeld].captured
                          /\ orders'[BlockHeld].by = orders[BlockHeld].by
  PROVE  RefSound'
<1>1. PICK b : b = BlockHeld
  OBVIOUS
<1>2. BlockHeld' = b
  BY <1>1, SameLedger DEF BlockHeld
<1>3. ASSUME b # 0 PROVE get_block(b)' = get_block(b)
  BY <1>1, <1>3 DEF get_block, Placed
<1>4. ASSUME b # 0, AsPlaced(b) PROVE AsPlaced(b)'
  <2>1. Unread(b)'
    BY <1>1, <1>4, SameLedger DEF AsPlaced, Unread
  <2>. QED BY <1>1, <1>4, <2>1 DEF AsPlaced, Placed
<1>5. CASE at = "down"
  BY <1>5 DEF HoldInv, RefSound
<1>6. CASE at # "down"
  <2>1. (b = 0 => ref = NoRef) /\ (b # 0 => ref = get_block(b) \/ AsPlaced(b))
    BY <1>1, <1>6 DEF HoldInv, RefSound
  <2>2. b # 0 => ref' = get_block(b)' \/ AsPlaced(b)'
    BY <1>3, <1>4, <2>1
  <2>3. (BlockHeld = 0 => ref = NoRef)' /\ (BlockHeld # 0 => ref = get_block(BlockHeld) \/ AsPlaced(BlockHeld))'
    <3>1. get_block(BlockHeld)' = get_block(b)' /\ AsPlaced(BlockHeld)' = AsPlaced(b)'
      BY <1>2 DEF get_block, AsPlaced, Placed, Unread
    <3>. QED BY <1>2, <2>1, <2>2, <3>1
  <2>. QED BY <1>6, <2>3 DEF RefSound
<1>. QED BY <1>5, <1>6

\* The handle of a call about to act on its order.
LEMMA RefInHand ==
  ASSUME HoldInv, at \in {"capture", "void"}
  PROVE  /\ IsOpen /\ answer = "none" /\ call.block # 0 /\ call.block = BlockHeld
         /\ call.action = (IF at = "capture" THEN "debit" ELSE "release")
         /\ \/ ref = get_block(call.block)
            \/ ref = Placed(call.block, orders[call.block].amount)
         /\ ref.ceiling = orders[call.block].amount /\ orders[call.block].amount \in Nat
<1>1. IsOpen /\ call.action = (IF at = "capture" THEN "debit" ELSE "release") /\ answer = "none"
  BY DEF HoldInv, HandSound, Request, BookSound, RequestInv, ControlInv
<1>2. /\ call.block = Standing /\ Standing # 0 /\ orders[call.block] \in Order
  BY <1>1, CallInHand DEF HoldInv
<1>3. call.block = BlockHeld
  BY <1>1, <1>2 DEF BlockHeld
<1>4. \/ ref = get_block(call.block)
      \/ ref = Placed(call.block, orders[call.block].amount)
  BY <1>2, <1>3 DEF HoldInv, RefSound, AsPlaced
<1>5. ref.ceiling = orders[call.block].amount
  BY <1>4, HandleIs
<1>6. orders[call.block].amount \in Nat
  BY <1>2, CashfreeAssumption DEF Order
<1>. QED BY <1>1, <1>2, <1>3, <1>4, <1>5, <1>6

\* What a capture and a void may do, they may do.
LEMMA DeedsAre ==
  ASSUME HoldInv
  PROVE  /\ at = "capture" /\ call.amount <= ref.ceiling - ref.released => Deed("CAPTURE", call.amount)
         /\ at = "void" => Deed("VOID", 0)
<1>1. ASSUME at = "capture", call.amount <= ref.ceiling - ref.released
      PROVE  Deed("CAPTURE", call.amount)
  <2>1. call.action = "debit" /\ call.amount \in Nat
    BY <1>1, RefInHand, CallInHand DEF HoldInv
  <2>2. /\ ref.ceiling = orders[call.block].amount /\ orders[call.block].amount \in Nat
        /\ ref = get_block(call.block) \/ ref = Placed(call.block, orders[call.block].amount)
    BY <1>1, RefInHand
  <2>3. ref.released \in {0, orders[call.block].amount}
    BY <2>2, HandleIs
  <2>. QED BY <1>1, <2>1, <2>2, <2>3 DEF Deed
<1>2. ASSUME at = "void" PROVE Deed("VOID", 0)
  BY <1>2, RefInHand DEF Deed
<1>. QED BY <1>1, <1>2

\* A call whose order already says it acted is not refused.
LEMMA RepeatIsTaken ==
  ASSUME HoldInv, at \in {"capture", "void"}, orders[call.block].by = key
  PROVE  /\ at = "capture" => call.amount <= ref.ceiling - ref.released /\ Acts("CAPTURE")
         /\ at = "void" => ref.debited = 0 /\ Acts("VOID")
<1>1. /\ IsOpen /\ call.action = (IF at = "capture" THEN "debit" ELSE "release")
      /\ ref = get_block(call.block) \/ ref = Placed(call.block, orders[call.block].amount)
      /\ orders[call.block].amount \in Nat
  BY RefInHand
<1>2. /\ key # 0 /\ ActedSound(call.block) /\ orders[call.block] \in Order /\ call = calls[key]
      /\ call.amount \in Nat
  BY <1>1, CallInHand DEF HoldInv, call
<1>3. orders[call.block].action \in {"CAPTURE", "VOID"}
  BY <1>2 DEF ActedSound, Order
<1>4. ASSUME at = "capture"
      PROVE  call.amount <= ref.ceiling - ref.released /\ Acts("CAPTURE")
  <2>1. orders[call.block].action = "CAPTURE"
    BY <1>1, <1>2, <1>3, <1>4 DEF ActedSound
  <2>2. call.amount <= orders[call.block].amount
    BY <1>2, <2>1 DEF ActedSound
  <2>3. ref.ceiling = orders[call.block].amount /\ ref.released = 0
    BY <1>1, <2>1, HandleIs
  <2>. QED BY <1>1, <1>2, <2>1, <2>2, <2>3 DEF Acts, Repeats
<1>5. ASSUME at = "void" PROVE ref.debited = 0 /\ Acts("VOID")
  <2>1. orders[call.block].action = "VOID"
    BY <1>1, <1>2, <1>3, <1>5 DEF ActedSound
  <2>2. orders[call.block].captured = 0
    BY <1>2, <2>1 DEF ActedSound
  <2>. QED BY <1>1, <2>1, <2>2, HandleIs DEF Acts, Repeats
<1>. QED BY <1>4, <1>5

(***************************************************************************)
(* Steps.  MoneySound is kept where a hold is given back whole.            *)
(***************************************************************************)
MoneyIsKept == Releases = {} /\ MoneySound => MoneySound'

\* A request that leaves the money of every order as it is, and the handle.
LEMMA Passing ==
  ASSUME HoldInv, RequestInv', calls' = calls, ref' = ref, silent \subseteq silent',
         faults' \in 0 .. MaxFaults, SameMoney(orders'),
         (at' = "down") = (at = "down"), (answer' = "applied") = (answer = "applied")
  PROVE  BookSound' /\ RefSound' /\ MoneyIsKept
<1>1. BookSound'
  BY BookKept DEF HoldInv
<1>2. MoneyIsKept
  BY MoneyKept DEF HoldInv, MoneyIsKept
<1>3. RefSound'
  BY HeldIsOrder, RefStays DEF SameMoney
<1>. QED BY <1>1, <1>2, <1>3

LEMMA BeginsHolds ==
  ASSUME HoldInv, RequestInv', Asks
  PROVE  HoldInv' /\ MoneyIsKept
<1>1. Typed
  BY DEF HoldInv, BookSound
<1>2. PICK action \in Action, amount \in Nat \ {0} :
        /\ Begins(action, amount)
        /\ action = "reserve" => amount \in Ceilings /\ available <= 0
        /\ action # "reserve" => Standing # 0
        /\ Releases = {} /\ action = "release" => amount = available
  <2>1. CASE \E amount \in Ceilings : Reserves(amount)
    BY <2>1, CashfreeAssumption DEF Reserves, Action
  <2>2. CASE \E amount \in Amounts : Debits(amount)
    <3>1. PICK amount \in Amounts : Debits(amount)
      BY <2>2
    <3>2. amount \in Nat \ {0} /\ amount <= Total("reserve") - Total("debit")
      BY <3>1, CashfreeAssumption DEF Debits
    <3>3. Standing # 0
      <4>1. ASSUME AppliedCalls("reserve") = {} PROVE FALSE
        BY <1>1, <3>2, <4>1, MoneyIsHeld
      <4>. QED BY <1>1, <4>1, StandingIs
    <3>. QED BY <3>1, <3>2, <3>3 DEF Debits, Action
  <2>3. CASE \E amount \in Releases \cup {available} : HandsBack(amount)
    <3>1. PICK amount \in Releases \cup {available} : HandsBack(amount)
      BY <2>3
    <3>2. available \in Int
      BY <1>1, StandingIs
    <3>3. amount \in Nat \ {0} /\ 1 <= available
      BY <3>1, <3>2 DEF HandsBack
    <3>4. Standing # 0
      <4>1. ASSUME AppliedCalls("reserve") = {} PROVE FALSE
        BY <1>1, <3>3, <4>1, MoneyIsHeld DEF available
      <4>. QED BY <1>1, <4>1, StandingIs
    <3>. QED BY <3>1, <3>3, <3>4 DEF HandsBack, Action
  <2>. QED BY <2>1, <2>2, <2>3 DEF Asks
<1>3. BookSound'
  BY <1>2, BookBegun DEF HoldInv
<1>4. MoneyIsKept
  BY <1>2, MoneyBegun DEF HoldInv, MoneyIsKept
<1>5. /\ key' = key + 1 /\ key \in Nat /\ Standing' = Standing
      /\ call' = [action |-> action, amount |-> amount, block |-> Standing, outcome |-> "intent"]
  BY <1>1, <1>2, BegunLedger, CallsAreMany
<1>6. /\ at = "idle" /\ answer' = answer /\ ref' = ref /\ orders' = orders /\ silent' = silent
      /\ at' = FirstRequest(action) /\ answer = "none" /\ ~IsOpen
  BY <1>2 DEF Begins, HoldInv, BookSound, RequestInv, ControlInv
<1>7. HandSound'
  <2>1. IsOpen' /\ call'.action = action
    BY <1>5 DEF IsOpen
  <2>2. CASE action = "reserve"
    BY <1>6, <2>1, <2>2 DEF HandSound, FirstRequest, Request
  <2>3. CASE action = "debit"
    BY <1>6, <2>1, <2>3 DEF HandSound, FirstRequest, Request
  <2>4. CASE action = "release"
    BY <1>6, <2>1, <2>4 DEF HandSound, FirstRequest, Request
  <2>. QED BY <1>2, <2>2, <2>3, <2>4 DEF Action
<1>8. RefSound'
  <2>1. PICK b : b = Standing
    OBVIOUS
  <2>2. BlockHeld = b /\ BlockHeld' = b
    BY <1>5, <1>6, <2>1 DEF BlockHeld
  <2>3. get_block(b)' = get_block(b)
    BY <1>6 DEF get_block, Placed
  <2>4. ASSUME AsPlaced(b) PROVE AsPlaced(b)'
    BY <1>6, <2>4 DEF AsPlaced, Unread, Placed
  <2>5. (b = 0 => ref' = NoRef) /\ (b # 0 => ref' = get_block(b)' \/ AsPlaced(b)')
    BY <1>6, <2>2, <2>3, <2>4 DEF HoldInv, RefSound
  <2>6. get_block(BlockHeld)' = get_block(b)' /\ AsPlaced(BlockHeld)' = AsPlaced(b)'
    BY <2>2 DEF get_block, AsPlaced, Placed, Unread
  <2>7. at' # "down"
    BY <1>2, <1>6 DEF FirstRequest, Action
  <2>. QED BY <2>2, <2>5, <2>6, <2>7 DEF RefSound
<1>. QED BY <1>3, <1>4, <1>7, <1>8 DEF HoldInv

LEMMA ResolvesHolds ==
  ASSUME HoldInv, RequestInv', Resolves
  PROVE  HoldInv' /\ MoneyIsKept
<1>1. /\ at = "idle" /\ IsOpen /\ at' = FirstRequest(call.action) /\ answer' = answer
      /\ orders' = orders /\ calls' = calls /\ ref' = ref /\ silent' = silent /\ faults' = faults
      /\ answer = "none"
  BY DEF Resolves, HoldInv, BookSound, RequestInv, ControlInv
<1>2. call.action \in Action
  <2>1. key \in DOMAIN calls
    BY <1>1, CallsAreMany DEF IsOpen, HoldInv, BookSound
  <2>. QED BY <2>1, CallIs DEF HoldInv, BookSound, call
<1>3. at' \in Request /\ at' # "down"
  BY <1>1, <1>2 DEF FirstRequest, Action, Request
<1>4. SameMoney(orders') /\ faults' \in 0 .. MaxFaults
  BY <1>1, NothingIsQuiet DEF HoldInv, BookSound, Typed
<1>5. BookSound' /\ RefSound' /\ MoneyIsKept
  BY <1>1, <1>3, <1>4, Passing
<1>6. HandSound'
  <2>1. CASE call.action = "reserve"
    BY <1>1, <2>1, SameLedger DEF HandSound, FirstRequest, Request
  <2>2. CASE call.action = "debit"
    BY <1>1, <2>2, SameLedger DEF HandSound, FirstRequest, Request
  <2>3. CASE call.action = "release"
    BY <1>1, <2>3, SameLedger DEF HandSound, FirstRequest, Request
  <2>. QED BY <1>2, <2>1, <2>2, <2>3 DEF Action
<1>. QED BY <1>5, <1>6 DEF HoldInv

\* Where control stands after a request that ended the call, or went on.
LEMMA HandReturns ==
  ASSUME HoldInv, calls' = calls, at \in Request, at' = "recording",
         answer' \in {"rail_rejected", "in_doubt"},
         answer' = "rail_rejected" /\ call.action # "reserve" /\ orders'[call.block].by = key =>
           key \in silent'
  PROVE  HandSound'
  BY SameLedger DEF HoldInv, HandSound, Request

LEMMA HandApplies ==
  ASSUME HoldInv, calls' = calls, at \in Request, at' = "recording", answer' = "applied",
         IF call.action = "reserve" THEN key \in DOMAIN orders' /\ orders'[key].status = "PAID"
                                    ELSE orders'[call.block].by = key
  PROVE  HandSound'
  BY SameLedger DEF HoldInv, HandSound, Request

LEMMA HandGoesOn ==
  ASSUME HoldInv, calls' = calls, at \in {"create", "order", "payments", "collect"},
         at' \in {"order", "payments", "collect", "simulate"}, answer' = answer
  PROVE  HandSound' /\ answer = "none"
<1>1. answer = "none"
  BY DEF HoldInv, BookSound, RequestInv, ControlInv
<1>. QED BY <1>1, SameLedger DEF HoldInv, HandSound, Request

\* A call under way has no answer.
LEMMA UnderWay ==
  ASSUME HoldInv, at \in Request
  PROVE  answer = "none" /\ IsOpen /\ key \in DOMAIN calls /\ OrdersAre(orders) /\ Typed
         /\ faults \in 0 .. MaxFaults
<1>1. answer = "none" /\ IsOpen
  BY DEF HoldInv, HandSound, BookSound, RequestInv, ControlInv, Request
<1>. QED BY <1>1, CallsAreMany DEF HoldInv, BookSound, RequestInv, IsOpen, Typed

LEMMA CreatesHolds ==
  ASSUME HoldInv, RequestInv', Creates
  PROVE  HoldInv' /\ MoneyIsKept
<1>1. /\ at = "create" /\ at \in Request /\ calls' = calls /\ silent' = silent /\ faults' = faults
      /\ ref' = ref /\ answer' = answer /\ at' \in {"order", "collect"}
  BY DEF Creates, GoesOn, Request
<1>2. HandSound' /\ answer = "none"
  BY <1>1, HandGoesOn
<1>3. /\ IsOpen /\ call.action = "reserve" /\ Typed /\ faults \in 0 .. MaxFaults
  BY <1>1, UnderWay DEF HoldInv, HandSound
<1>4. CASE key \in DOMAIN orders
  <2>1. orders' = orders
    BY <1>4 DEF Creates
  <2>2. SameMoney(orders')
    BY <1>3, <2>1, NothingIsQuiet
  <2>. QED BY <1>1, <1>2, <1>3, <2>2, Passing DEF HoldInv
<1>5. CASE key \notin DOMAIN orders
  <2>1. orders' = WithOrder(FreshOrder)
    BY <1>5 DEF Creates
  <2>2. BookSound' /\ \A k \in DOMAIN orders : k \in DOMAIN orders' /\ orders'[k] = orders[k]
    BY <1>1, <1>3, <1>5, <2>1, BookCreated DEF HoldInv
  <2>3. MoneyIsKept
    BY <1>1, <1>5, <2>1, MoneyCreated DEF HoldInv, MoneyIsKept
  <2>4. RefSound'
    BY <1>1, <2>2, HeldIsOrder, RefStays
  <2>. QED BY <1>2, <2>2, <2>3, <2>4 DEF HoldInv
<1>. QED BY <1>4, <1>5

\* A reservation is applied: the handle is its order, as it was placed.
LEMMA ReservationApplies ==
  ASSUME HoldInv, RequestInv', at \in {"order", "simulate"}, calls' = calls, silent' = silent,
         faults' = faults, SameMoney(orders'), key \in DOMAIN orders, orders'[key].status = "PAID",
         Returns("applied", Placed(key, call.amount))
  PROVE  HoldInv' /\ MoneyIsKept
<1>1. /\ at' = "recording" /\ answer' = "applied" /\ ref' = Placed(key, call.amount)
      /\ at \in Request
  BY DEF Returns, Request
<1>2. call.action = "reserve" /\ IsOpen /\ faults \in 0 .. MaxFaults /\ key \in DOMAIN calls
      /\ Typed
  BY <1>1, UnderWay DEF HoldInv, HandSound
<1>3. BookSound'
  BY <1>2, BookKept DEF HoldInv
<1>4. MoneyIsKept
  BY MoneyKept DEF HoldInv, MoneyIsKept
<1>5. key \in DOMAIN orders'
  BY DEF SameMoney
<1>6. HandSound'
  BY <1>1, <1>2, <1>5, HandApplies
<1>7. PICK b : b = key
  OBVIOUS
<1>8. BlockHeld' = b /\ key \in Nat /\ key # 0
  BY <1>1, <1>2, <1>7, SameLedger, CallsAreMany DEF BlockHeld, IsOpen
<1>9. /\ orders[b].amount = call.amount /\ ActedSound(b) /\ orders[b] \in Order
      /\ orders[b].action = "none"
  <2>1. OrderIsOfCall(b) /\ ActedSound(b) /\ orders[b] \in Order
    BY <1>7 DEF HoldInv, BookSound, Typed
  <2>2. ASSUME orders[b].action # "none" PROVE FALSE
    <3>1. /\ orders[b].by \in DOMAIN calls /\ calls[orders[b].by].block = b
          /\ calls[orders[b].by].action # "reserve"
      BY <2>1, <2>2 DEF ActedSound, Order
    <3>2. b \in AppliedCalls("reserve")
      BY <3>1 DEF HoldInv, BookSound, CallSound
    <3>. QED BY <1>2, <1>7, <3>2 DEF AppliedCalls, IsOpen, call
  <2>. QED BY <1>7, <2>1, <2>2 DEF OrderIsOfCall, call
<1>10. /\ orders'[b].amount = call.amount /\ orders'[b].action = "none"
       /\ orders'[b].captured = 0
  BY <1>7, <1>9 DEF SameMoney, ActedSound
<1>11. get_block(b)' = Placed(b, call.amount)
  <2>1. get_block(b)' = [block |-> b, ceiling |-> orders'[b].amount,
                         debited |-> orders'[b].captured,
                         released |-> IF orders'[b].action = "VOID" THEN orders'[b].amount ELSE 0]
    <3> DEFINE p == Placed(b, orders'[b].amount)
    <3>1. get_block(b)' = [p EXCEPT !.debited = orders'[b].captured,
                             !.released = IF orders'[b].action = "VOID" THEN orders'[b].amount ELSE 0]
      BY DEF get_block, Placed
    <3>2. p = [block |-> b, ceiling |-> orders'[b].amount, debited |-> 0, released |-> 0]
      BY HandleIs
    <3> HIDE DEF p
    <3>. QED BY <3>1, <3>2
  <2>. QED BY <1>10, <2>1, HandleIs
<1>12. get_block(BlockHeld)' = get_block(b)'
  BY <1>8 DEF get_block
<1>13. RefSound'
  BY <1>1, <1>7, <1>8, <1>11, <1>12 DEF RefSound
<1>. QED BY <1>3, <1>4, <1>6, <1>13 DEF HoldInv

\* A call of a reservation is refused, or left in doubt.
LEMMA ReservationReturns ==
  ASSUME HoldInv, RequestInv', at \in {"create", "order", "payments", "collect", "simulate"},
         calls' = calls, silent' = silent, faults' \in 0 .. MaxFaults, SameMoney(orders'),
         at' = "recording", answer' \in {"rail_rejected", "in_doubt"}, ref' = ref
  PROVE  HoldInv' /\ MoneyIsKept
<1>1. at \in Request /\ call.action = "reserve" /\ answer = "none"
  BY UnderWay DEF HoldInv, HandSound, Request
<1>2. HandSound'
  BY <1>1, HandReturns
<1>3. BookSound' /\ RefSound' /\ MoneyIsKept
  BY <1>1, Passing DEF Request
<1>. QED BY <1>2, <1>3 DEF HoldInv

LEMMA ReadsOrderHolds ==
  ASSUME HoldInv, RequestInv', ReadsOrder
  PROVE  HoldInv' /\ MoneyIsKept
<1>1. /\ at = "order" /\ at \in Request /\ orders' = orders /\ calls' = calls
      /\ silent' = silent /\ faults' = faults
  BY DEF ReadsOrder, Untouched, Request
<1>2. Typed /\ faults \in 0 .. MaxFaults /\ SameMoney(orders')
  BY <1>1, UnderWay, NothingIsQuiet
<1>3. key \in DOMAIN orders
  BY <1>1 DEF HoldInv, BookSound, RequestInv, ControlInv
<1>4. CASE Refused
  BY <1>1, <1>2, <1>4, ReservationReturns DEF Refused, Returns
<1>5. CASE GoesOn("payments")
  <2>1. at' = "payments" /\ ref' = ref /\ answer' = answer
    BY <1>5 DEF GoesOn
  <2>2. HandSound'
    BY <1>1, <2>1, HandGoesOn
  <2>. QED BY <1>1, <1>2, <2>1, <2>2, Passing DEF HoldInv
<1>6. CASE orders[key].status = "PAID" /\ Returns("applied", Placed(key, call.amount))
  BY <1>1, <1>2, <1>3, <1>6, ReservationApplies
<1>. QED BY <1>4, <1>5, <1>6 DEF ReadsOrder

LEMMA ReadsPaymentsHolds ==
  ASSUME HoldInv, RequestInv', ReadsPayments
  PROVE  HoldInv' /\ MoneyIsKept
<1>1. /\ at = "payments" /\ at \in Request /\ orders' = orders /\ calls' = calls
      /\ silent' = silent /\ faults' = faults
  BY DEF ReadsPayments, Untouched, Request
<1>2. Typed /\ faults \in 0 .. MaxFaults /\ SameMoney(orders')
  BY <1>1, UnderWay, NothingIsQuiet
<1>4. CASE Refused
  BY <1>1, <1>2, <1>4, ReservationReturns DEF Refused, Returns
<1>5. CASE GoesOn("collect")
  <2>1. at' = "collect" /\ ref' = ref /\ answer' = answer
    BY <1>5 DEF GoesOn
  <2>2. HandSound'
    BY <1>1, <2>1, HandGoesOn
  <2>. QED BY <1>1, <1>2, <2>1, <2>2, Passing DEF HoldInv
<1>. QED BY <1>4, <1>5 DEF ReadsPayments

LEMMA CollectsHolds ==
  ASSUME HoldInv, RequestInv', Collects
  PROVE  HoldInv' /\ MoneyIsKept
<1>1. at = "collect" /\ at \in Request /\ calls' = calls /\ silent' = silent /\ faults' = faults
  BY DEF Collects, Request
<1>2. Typed /\ faults \in 0 .. MaxFaults /\ OrdersAre(orders) /\ key \in DOMAIN orders
  BY <1>1, UnderWay DEF HoldInv, BookSound, RequestInv, ControlInv
<1>3. CASE orders' = Collected /\ GoesOn("simulate")
  <2>1. at' = "simulate" /\ ref' = ref /\ answer' = answer /\ SameMoney(orders')
    BY <1>2, <1>3, CollectIsQuiet DEF GoesOn
  <2>2. HandSound'
    BY <1>1, <2>1, HandGoesOn
  <2>. QED BY <1>1, <1>2, <2>1, <2>2, Passing DEF HoldInv
<1>4. CASE orders' = orders /\ Refused
  BY <1>1, <1>2, <1>4, NothingIsQuiet, ReservationReturns DEF Refused, Returns
<1>. QED BY <1>3, <1>4 DEF Collects

LEMMA SimulatesHolds ==
  ASSUME HoldInv, RequestInv', Simulates
  PROVE  HoldInv' /\ MoneyIsKept
<1>1. at = "simulate" /\ at \in Request /\ calls' = calls /\ silent' = silent /\ faults' = faults
  BY DEF Simulates, Request
<1>2. Typed /\ faults \in 0 .. MaxFaults /\ OrdersAre(orders) /\ key \in DOMAIN orders
  BY <1>1, UnderWay DEF HoldInv, BookSound, RequestInv, ControlInv
<1>3. CASE /\ orders' = PaidBy(key, Len(orders[key].payments))
           /\ Returns("applied", Placed(key, call.amount))
  <2>1. SameMoney(orders')
    BY <1>2, <1>3, PayingIsQuiet
  <2>2. orders'[key].status = "PAID"
    <3>1. IsOrder(orders[key])
      BY <1>2 DEF OrdersAre
    <3>. QED BY <1>2, <1>3, <3>1 DEF PaidBy, OrdersAre, IsOrder, Field
  <2>. QED BY <1>1, <1>2, <1>3, <2>1, <2>2, ReservationApplies
<1>4. CASE orders' = orders /\ Refused
  BY <1>1, <1>2, <1>4, NothingIsQuiet, ReservationReturns DEF Refused, Returns
<1>. QED BY <1>3, <1>4 DEF Simulates

(***************************************************************************)
(* A capture or a void.                                                    *)
(***************************************************************************)
\* What the handle and the order were before the deed.
LEMMA BeforeDeed ==
  ASSUME HoldInv, at \in {"capture", "void"}, NEW a, NEW n, Deed(a, n), Acts(a),
         NEW b, b = call.block
  PROVE  /\ b # 0 /\ b = BlockHeld /\ b \in DOMAIN orders /\ orders[b].amount \in Nat
         /\ \/ /\ orders[b].action = "none" /\ orders[b].captured = 0
               /\ ref = [block |-> b, ceiling |-> orders[b].amount, debited |-> 0, released |-> 0]
            \/ /\ orders[b].action = a /\ orders[b].captured = n
               /\ ref = get_block(b) \/ ref = Placed(b, orders[b].amount)
<1>1. /\ IsOpen /\ b # 0 /\ b = BlockHeld
      /\ ref = get_block(b) \/ ref = Placed(b, orders[b].amount)
      /\ orders[b].amount \in Nat
  BY RefInHand
<1>2. b \in DOMAIN orders /\ ActedSound(b) /\ orders[b] \in Order /\ key # 0
  BY <1>1, CallInHand DEF HoldInv, Deed
<1>3. CASE orders[b].action = "none"
  <2>1. orders[b].captured = 0
    BY <1>2, <1>3 DEF ActedSound
  <2>. QED BY <1>1, <1>2, <1>3, <2>1, HandleIs
<1>4. CASE Repeats(a)
  <2>1. orders[b].action = a /\ orders[b].by = key
    BY <1>4 DEF Repeats
  <2>2. orders[b].captured = n
    BY <1>2, <2>1 DEF ActedSound, Deed, call
  <2>. QED BY <1>1, <1>2, <2>1, <2>2
<1>. QED BY <1>3, <1>4 DEF Acts

LEMMA AfterDeed ==
  ASSUME HoldInv, at \in {"capture", "void"}, NEW a, NEW n, Deed(a, n), Acts(a),
         orders' = ActedOn(a, n), NEW b, b = call.block
  PROVE  /\ get_block(b)' = [block |-> b, ceiling |-> orders[b].amount, debited |-> n,
                             released |-> IF a = "VOID" THEN orders[b].amount ELSE 0]
         /\ orders'[b].by = key /\ orders'[b].amount = orders[b].amount
<1>1. /\ orders'[b].amount = orders[b].amount
      /\ orders'[b].action = a /\ orders'[b].captured = n /\ orders'[b].by = key
  BY RefInHand, DeedIsTold DEF HoldInv
<1> DEFINE p == Placed(b, orders'[b].amount)
<1>2. get_block(b)' = [p EXCEPT !.debited = orders'[b].captured,
                         !.released = IF orders'[b].action = "VOID" THEN orders'[b].amount ELSE 0]
  BY DEF get_block, Placed
<1>3. p = [block |-> b, ceiling |-> orders'[b].amount, debited |-> 0, released |-> 0]
  BY HandleIs
<1> HIDE DEF p
<1>. QED BY <1>1, <1>2, <1>3

LEMMA DeedKeepsBooks ==
  ASSUME HoldInv, RequestInv', at \in {"capture", "void"}, NEW a, NEW n, Deed(a, n), Acts(a),
         orders' = ActedOn(a, n), calls' = calls, silent \subseteq silent',
         faults' \in 0 .. MaxFaults
  PROVE  BookSound' /\ MoneyIsKept
<1>1. IsOpen
  BY RefInHand
<1>2. BookSound'
  BY <1>1, BookActed DEF HoldInv
<1>3. MoneyIsKept
  BY <1>1, MoneyActed DEF HoldInv, MoneyIsKept
<1>. QED BY <1>2, <1>3

\* The rail acted, and the session was not told.
LEMMA DeedUntold ==
  ASSUME HoldInv, RequestInv', at \in {"capture", "void"}, NEW a, NEW n, Deed(a, n), Acts(a),
         orders' = ActedOn(a, n), calls' = calls, silent \subseteq silent',
         faults' \in 0 .. MaxFaults, at' = "recording", answer' \in {"rail_rejected", "in_doubt"},
         ref' = ref, answer' = "rail_rejected" => key \in silent'
  PROVE  HoldInv' /\ MoneyIsKept
<1>1. PICK b : b = call.block
  OBVIOUS
<1>2. BookSound' /\ MoneyIsKept
  BY DeedKeepsBooks
<1>3. HandSound'
  BY HandReturns DEF Request
<1>4. /\ b # 0 /\ b = BlockHeld /\ b \in DOMAIN orders
      /\ \/ /\ orders[b].action = "none"
            /\ ref = [block |-> b, ceiling |-> orders[b].amount, debited |-> 0, released |-> 0]
         \/ /\ orders[b].action = a /\ orders[b].captured = n
            /\ ref = get_block(b) \/ ref = Placed(b, orders[b].amount)
  BY <1>1, BeforeDeed
<1>5. /\ get_block(b)' = [block |-> b, ceiling |-> orders[b].amount, debited |-> n,
                          released |-> IF a = "VOID" THEN orders[b].amount ELSE 0]
      /\ orders'[b].by = key /\ orders'[b].amount = orders[b].amount
  BY <1>1, AfterDeed
<1>6. IsOpen /\ answer = "none" /\ key # 0
  BY RefInHand DEF IsOpen
<1>7. BlockHeld' = b
  BY <1>4, <1>6, SameLedger DEF BlockHeld
<1>8. ref = get_block(b)' \/ ref = Placed(b, orders[b].amount)
  BY <1>4, <1>5, HandleIs
<1>9. ref = Placed(b, orders[b].amount) => AsPlaced(b)'
  BY <1>5, <1>6, SameLedger DEF AsPlaced, Unread, Placed
<1>10. get_block(BlockHeld)' = get_block(b)' /\ AsPlaced(BlockHeld)' = AsPlaced(b)'
  BY <1>7 DEF get_block, AsPlaced, Placed, Unread
<1>11. RefSound'
  BY <1>4, <1>7, <1>8, <1>9, <1>10 DEF RefSound
<1>. QED BY <1>2, <1>3, <1>11 DEF HoldInv

\* The rail acted, and said so: the handle says what the order says.
LEMMA DeedTold ==
  ASSUME HoldInv, RequestInv', at \in {"capture", "void"}, NEW a, NEW n, Deed(a, n), Acts(a),
         orders' = ActedOn(a, n), calls' = calls, silent' = silent, faults' = faults,
         NEW r, Returns("applied", r),
         r = [block |-> call.block, ceiling |-> orders[call.block].amount, debited |-> n,
              released |-> IF a = "VOID" THEN orders[call.block].amount ELSE 0]
  PROVE  HoldInv' /\ MoneyIsKept
<1>1. PICK b : b = call.block
  OBVIOUS
<1>2. /\ IsOpen /\ answer = "none" /\ call.action # "reserve" /\ b # 0 /\ b = BlockHeld
      /\ faults \in 0 .. MaxFaults
  BY <1>1, RefInHand, UnderWay DEF Request
<1>3. BookSound' /\ MoneyIsKept
  BY <1>2, DeedKeepsBooks
<1>4. /\ get_block(b)' = r /\ orders'[b].by = key
  BY <1>1, AfterDeed
<1>5. at' = "recording" /\ answer' = "applied" /\ ref' = r
  BY DEF Returns
<1>6. HandSound'
  BY <1>1, <1>2, <1>4, <1>5, HandApplies DEF Request
<1>7. BlockHeld' = b
  BY <1>2, SameLedger DEF BlockHeld
<1>8. get_block(BlockHeld)' = get_block(b)'
  BY <1>7 DEF get_block
<1>9. RefSound'
  BY <1>2, <1>4, <1>5, <1>7, <1>8 DEF RefSound
<1>. QED BY <1>3, <1>6, <1>9 DEF HoldInv

\* The rail refused, and nothing was done.
LEMMA DeedRefused ==
  ASSUME HoldInv, RequestInv', at \in {"capture", "void"}, orders' = orders, calls' = calls,
         silent' = silent, faults' \in 0 .. MaxFaults, ref' = ref, at' = "recording",
         answer' \in {"rail_rejected", "in_doubt"},
         answer' = "rail_rejected" => orders[call.block].by # key
  PROVE  HoldInv' /\ MoneyIsKept
<1>1. at \in Request /\ answer = "none" /\ Typed
  BY UnderWay DEF Request
<1>2. HandSound'
  BY <1>1, HandReturns
<1>3. BookSound' /\ RefSound' /\ MoneyIsKept
  BY <1>1, NothingIsQuiet, Passing DEF Request
<1>. QED BY <1>2, <1>3 DEF HoldInv

LEMMA CapturesHolds ==
  ASSUME HoldInv, RequestInv', Captures
  PROVE  HoldInv' /\ MoneyIsKept
<1>1. at = "capture" /\ calls' = calls /\ silent' = silent /\ faults' = faults
      /\ faults \in 0 .. MaxFaults
  BY UnderWay DEF Captures, Request
<1>2. CASE call.amount <= ref.ceiling - ref.released /\ Acts("CAPTURE")
  <2>1. PICK b : b = call.block
    OBVIOUS
  <2>2. Deed("CAPTURE", call.amount)
    BY <1>1, <1>2, DeedsAre
  <2>3. orders' = ActedOn("CAPTURE", call.amount) /\ Returns("applied", Captured(call.amount))
    BY <1>2 DEF Captures
  <2>4. ref = [block |-> b, ceiling |-> orders[b].amount, debited |-> ref.debited, released |-> 0]
    <3>1. \/ ref = [block |-> b, ceiling |-> orders[b].amount, debited |-> 0, released |-> 0]
          \/ /\ orders[b].action = "CAPTURE"
             /\ ref = get_block(b) \/ ref = Placed(b, orders[b].amount)
      BY <1>1, <1>2, <2>1, <2>2, BeforeDeed
    <3>. QED BY <3>1, HandleIs
  <2>5. Captured(call.amount) =
          [block |-> b, ceiling |-> orders[b].amount, debited |-> call.amount, released |-> 0]
    BY <2>4 DEF Captured
  <2>. QED BY <1>1, <1>2, <2>1, <2>2, <2>3, <2>5, DeedTold
<1>3. CASE ~(call.amount <= ref.ceiling - ref.released /\ Acts("CAPTURE"))
  <2>1. orders' = orders /\ Refused
    BY <1>3 DEF Captures
  <2>2. orders[call.block].by # key
    BY <1>1, <1>3, RepeatIsTaken
  <2>. QED BY <1>1, <2>1, <2>2, DeedRefused DEF Refused, Returns
<1>. QED BY <1>2, <1>3

LEMMA VoidsHolds ==
  ASSUME HoldInv, RequestInv', Voids
  PROVE  HoldInv' /\ MoneyIsKept
<1>1. at = "void" /\ calls' = calls /\ silent' = silent /\ faults' = faults
      /\ faults \in 0 .. MaxFaults
  BY UnderWay DEF Voids, Request
<1>2. CASE ref.debited = 0 /\ Acts("VOID")
  <2>1. PICK b : b = call.block
    OBVIOUS
  <2>2. Deed("VOID", 0)
    BY <1>1, DeedsAre
  <2>3. orders' = ActedOn("VOID", 0) /\ Returns("applied", [ref EXCEPT !.released = ref.ceiling])
    BY <1>2 DEF Voids
  <2>4. ref = [block |-> b, ceiling |-> orders[b].amount, debited |-> 0, released |-> ref.released]
    <3>1. \/ ref = [block |-> b, ceiling |-> orders[b].amount, debited |-> 0, released |-> 0]
          \/ ref = get_block(b) \/ ref = Placed(b, orders[b].amount)
      BY <1>1, <1>2, <2>1, <2>2, BeforeDeed
    <3>2. PICK x, y : ref = [block |-> b, ceiling |-> orders[b].amount, debited |-> x, released |-> y]
      BY <3>1, HandleIs
    <3>3. ref.debited = x /\ ref.released = y
      BY <3>2
    <3>. QED BY <1>2, <3>2, <3>3
  <2>5. [ref EXCEPT !.released = ref.ceiling] =
          [block |-> b, ceiling |-> orders[b].amount, debited |-> 0, released |-> orders[b].amount]
    BY <2>4
  <2>. QED BY <1>1, <1>2, <2>1, <2>2, <2>3, <2>5, DeedTold
<1>3. CASE ~(ref.debited = 0 /\ Acts("VOID"))
  <2>1. orders' = orders /\ Refused
    BY <1>3 DEF Voids
  <2>2. orders[call.block].by # key
    BY <1>1, <1>3, RepeatIsTaken
  <2>. QED BY <1>1, <2>1, <2>2, DeedRefused DEF Refused, Returns
<1>. QED BY <1>2, <1>3

(***************************************************************************)
(* The rest, and every step.                                               *)
(***************************************************************************)
LEMMA LostHolds ==
  ASSUME HoldInv, RequestInv', Lost
  PROVE  HoldInv' /\ MoneyIsKept
<1>1. /\ at \in Request /\ at' = "recording" /\ answer' = "in_doubt" /\ ref' = ref
      /\ calls' = calls /\ silent' = silent
  BY DEF Lost, Unknown, Returns
<1>2. faults' \in 0 .. MaxFaults
  BY <1>1, UnderWay, CashfreeAssumption DEF Lost, Fault
<1>3. Typed /\ OrdersAre(orders) /\ IsOpen
  BY <1>1, UnderWay
<1>4. \/ orders' = orders
      \/ at = "create" /\ key \notin DOMAIN orders /\ orders' = WithOrder(FreshOrder)
      \/ at = "collect" /\ orders' = Collected
      \/ at = "simulate" /\ orders' = PaidBy(key, Len(orders[key].payments))
      \/ /\ at = "capture" /\ call.amount <= ref.ceiling - ref.released /\ Acts("CAPTURE")
         /\ orders' = ActedOn("CAPTURE", call.amount)
      \/ at = "void" /\ Acts("VOID") /\ orders' = ActedOn("VOID", 0)
  BY DEF Lost
<1>5. CASE orders' = orders
  <2>1. SameMoney(orders')
    BY <1>3, <1>5, NothingIsQuiet
  <2>. QED BY <1>1, <1>2, <1>5, <2>1, ReservationReturns, DeedRefused DEF Request
<1>6. CASE at = "create" /\ key \notin DOMAIN orders /\ orders' = WithOrder(FreshOrder)
  <2>1. call.action = "reserve" /\ answer = "none"
    BY <1>1, <1>6, UnderWay DEF HoldInv, HandSound
  <2>2. BookSound' /\ \A k \in DOMAIN orders : k \in DOMAIN orders' /\ orders'[k] = orders[k]
    BY <1>1, <1>2, <1>3, <1>6, <2>1, BookCreated DEF HoldInv
  <2>3. MoneyIsKept
    BY <1>1, <1>6, MoneyCreated DEF HoldInv, MoneyIsKept
  <2>4. RefSound'
    BY <1>1, <1>6, <2>1, <2>2, HeldIsOrder, RefStays
  <2>5. HandSound'
    BY <1>1, HandReturns
  <2>. QED BY <2>2, <2>3, <2>4, <2>5 DEF HoldInv
<1>7. CASE at = "collect" /\ orders' = Collected
  <2>1. key \in DOMAIN orders
    BY <1>7 DEF HoldInv, BookSound, RequestInv, ControlInv
  <2>2. SameMoney(orders')
    BY <1>3, <1>7, <2>1, CollectIsQuiet
  <2>. QED BY <1>1, <1>2, <1>7, <2>2, ReservationReturns
<1>8. CASE at = "simulate" /\ orders' = PaidBy(key, Len(orders[key].payments))
  <2>1. SameMoney(orders')
    BY <1>3, <1>8, PayingIsQuiet
  <2>. QED BY <1>1, <1>2, <1>8, <2>1, ReservationReturns
<1>9. CASE /\ at = "capture" /\ call.amount <= ref.ceiling - ref.released /\ Acts("CAPTURE")
           /\ orders' = ActedOn("CAPTURE", call.amount)
  BY <1>1, <1>2, <1>9, DeedsAre, DeedUntold
<1>10. CASE at = "void" /\ Acts("VOID") /\ orders' = ActedOn("VOID", 0)
  BY <1>1, <1>2, <1>10, DeedsAre, DeedUntold
<1>. QED BY <1>4, <1>5, <1>6, <1>7, <1>8, <1>9, <1>10

LEMMA IncompleteHolds ==
  ASSUME HoldInv, RequestInv', Incomplete
  PROVE  HoldInv' /\ MoneyIsKept
<1>1. /\ at \in {"create", "capture"} /\ at \in Request /\ at' = "recording"
      /\ answer' = "rail_rejected" /\ ref' = ref /\ calls' = calls
  BY DEF Incomplete, Refused, Returns, Request
<1>2. faults' \in 0 .. MaxFaults
  BY <1>1, UnderWay, CashfreeAssumption DEF Incomplete, Fault
<1>3. CASE /\ at = "create" /\ key \notin DOMAIN orders
           /\ orders' = WithOrder(FreshOrder) /\ silent' = silent
  <2>1. call.action = "reserve" /\ answer = "none" /\ IsOpen
    BY <1>1, <1>3, UnderWay DEF HoldInv, HandSound
  <2>2. BookSound' /\ \A k \in DOMAIN orders : k \in DOMAIN orders' /\ orders'[k] = orders[k]
    BY <1>1, <1>2, <1>3, <2>1, BookCreated DEF HoldInv
  <2>3. MoneyIsKept
    BY <1>1, <1>3, MoneyCreated DEF HoldInv, MoneyIsKept
  <2>4. RefSound'
    BY <1>1, <1>3, <2>1, <2>2, HeldIsOrder, RefStays
  <2>5. HandSound'
    BY <1>1, <2>1, HandReturns
  <2>. QED BY <2>2, <2>3, <2>4, <2>5 DEF HoldInv
<1>4. CASE /\ at = "capture" /\ call.amount <= ref.ceiling - ref.released /\ Acts("CAPTURE")
           /\ orders' = ActedOn("CAPTURE", call.amount) /\ silent' = silent \cup {key}
  BY <1>1, <1>2, <1>4, DeedsAre, DeedUntold
<1>. QED BY <1>3, <1>4 DEF Incomplete

LEMMA RecordsHolds ==
  ASSUME HoldInv, RequestInv', Records
  PROVE  HoldInv' /\ MoneyIsKept
<1>1. /\ at = "recording" /\ at' = "idle" /\ answer' = "none" /\ orders' = orders
      /\ ref' = ref /\ silent' = silent /\ IsOpen
  BY DEF Records, HoldInv, HandSound
<1>2. PICK what \in {"applied", "rail_rejected", "in_doubt"} : what = answer
  BY <1>1 DEF HoldInv, HandSound, BookSound, RequestInv, ControlInv
<1>3. RecordedTruly(what)
  BY <1>2 DEF HoldInv, HandSound, RecordedTruly
<1>4. BookSound'
  BY <1>1, <1>2, <1>3, BookRecorded DEF HoldInv
<1>5. MoneyIsKept
  BY <1>1, <1>2, <1>3, MoneyRecorded DEF HoldInv, MoneyIsKept
<1>6. HandSound'
  BY <1>1 DEF HandSound, Request
<1>7. PICK b : b = BlockHeld
  OBVIOUS
<1>8. BlockHeld' = b
  BY <1>1, <1>2, <1>7, RecordedStanding DEF BlockHeld, HoldInv, BookSound
<1>9. get_block(b)' = get_block(b)
  BY <1>1 DEF get_block, Placed
<1>10. ASSUME AsPlaced(b), b # 0 PROVE AsPlaced(b)'
  <2>1. /\ calls'[key].outcome = what /\ key' = key /\ key # 0 /\ key \in DOMAIN calls
    <3>1. call \in CallRecord
      BY <1>1, <1>2, RecordedLedger, CallIs DEF HoldInv, BookSound, call
    <3>. QED BY <1>1, <1>2, <3>1, RecordedLedger DEF HoldInv, BookSound, CallRecord
  <2>2. what # "applied" /\ Unread(b) /\ orders[b].by # 0 /\ b = Standing /\ b \in DOMAIN orders
    BY <1>2, <1>7, <1>10, HeldIsOrder DEF AsPlaced, BlockHeld
  <2>3. CASE what = "in_doubt"
    <3>1. IsOpen'
      BY <2>1, <2>3, <1>1 DEF IsOpen, call
    <3>. QED BY <1>1, <1>10, <2>1, <2>2, <3>1 DEF AsPlaced, Unread, Placed
  <2>4. CASE what = "rail_rejected"
    <3>1. orders[b].by \in silent
      <4>1. ASSUME orders[b].by = key PROVE key \in silent
        <5>1. ActedSound(b) /\ orders[b] \in Order
          BY <2>2 DEF HoldInv, BookSound, Typed
        <5>2. orders[b].action \in {"CAPTURE", "VOID"}
          BY <2>2, <5>1 DEF ActedSound, Order
        <5>3. call.block = b /\ call.action # "reserve"
          BY <4>1, <5>1, <5>2 DEF ActedSound, call
        <5>. QED BY <1>3, <2>4, <4>1, <5>3 DEF RecordedTruly
      <4>. QED BY <2>2, <4>1 DEF Unread
    <3>. QED BY <1>1, <1>10, <2>2, <3>1 DEF AsPlaced, Unread, Placed
  <2>. QED BY <2>2, <2>3, <2>4
<1>11. (b = 0 => ref = NoRef) /\ (b # 0 => ref = get_block(b) \/ AsPlaced(b))
  BY <1>1, <1>7 DEF HoldInv, RefSound
<1>12. get_block(BlockHeld)' = get_block(b)' /\ AsPlaced(BlockHeld)' = AsPlaced(b)'
  BY <1>8 DEF get_block, AsPlaced, Placed, Unread
<1>13. RefSound'
  BY <1>1, <1>8, <1>9, <1>10, <1>11, <1>12 DEF RefSound
<1>. QED BY <1>4, <1>5, <1>6, <1>13 DEF HoldInv

LEMMA CrashesHolds ==
  ASSUME HoldInv, RequestInv', Crashes
  PROVE  HoldInv' /\ MoneyIsKept
<1>1. /\ at' = "down" /\ answer' = "none" /\ ref' = NoRef /\ orders' = orders
      /\ calls' = calls /\ silent' = silent
  BY DEF Crashes
<1>2. Typed
  BY DEF HoldInv, BookSound
<1>3. faults' \in 0 .. MaxFaults
  BY <1>2, CashfreeAssumption DEF Crashes, Fault, Typed
<1>4. SameMoney(orders')
  BY <1>1, <1>2, NothingIsQuiet
<1>5. BookSound' /\ MoneyIsKept
  BY <1>1, <1>3, <1>4, BookKept, MoneyKept DEF HoldInv, MoneyIsKept
<1>6. HandSound'
  BY <1>1 DEF HandSound, Request
<1>7. RefSound'
  BY <1>1 DEF RefSound
<1>. QED BY <1>5, <1>6, <1>7 DEF HoldInv

LEMMA RestartsHolds ==
  ASSUME HoldInv, RequestInv', Restarts
  PROVE  HoldInv' /\ MoneyIsKept
<1>1. /\ at = "down" /\ at' = "idle" /\ answer' = answer /\ orders' = orders
      /\ calls' = calls /\ silent' = silent /\ faults' = faults
      /\ ref' = IF Standing = 0 THEN NoRef ELSE get_block(Standing)
  BY DEF Restarts
<1>2. Typed /\ answer = "none"
  BY <1>1 DEF HoldInv, BookSound, RequestInv, ControlInv
<1>3. faults' \in 0 .. MaxFaults /\ SameMoney(orders')
  BY <1>1, <1>2, NothingIsQuiet DEF Typed
<1>5. BookSound' /\ MoneyIsKept
  BY <1>1, <1>3, BookKept, MoneyKept DEF HoldInv, MoneyIsKept
<1>6. HandSound'
  BY <1>1, <1>2 DEF HandSound, Request
<1>7. PICK b : b = Standing
  OBVIOUS
<1>8. BlockHeld' = b
  BY <1>1, <1>2, <1>7, SameLedger DEF BlockHeld
<1>9. get_block(BlockHeld)' = get_block(b)' /\ get_block(b)' = get_block(b)
  BY <1>1, <1>8 DEF get_block, Placed
<1>10. RefSound'
  BY <1>1, <1>7, <1>8, <1>9 DEF RefSound
<1>. QED BY <1>5, <1>6, <1>10 DEF HoldInv

LEMMA WorldHolds ==
  ASSUME HoldInv, RequestInv', World
  PROVE  HoldInv' /\ MoneyIsKept
<1>1. PICK j \in DOMAIN orders : CustomerApproves(j) \/ OrderExpires(j)
  BY DEF World
<1>2. /\ at' = at /\ answer' = answer /\ ref' = ref /\ calls' = calls /\ silent' = silent
      /\ faults' = faults
  BY <1>1 DEF CustomerApproves, OrderExpires, session
<1>3. Typed /\ OrdersAre(orders) /\ faults \in 0 .. MaxFaults
  BY DEF HoldInv, BookSound, RequestInv, Typed
<1>4. SameMoney(orders')
  BY <1>1, <1>3, PayingIsQuiet, ExpiryIsQuiet DEF CustomerApproves, OrderExpires
<1>5. BookSound' /\ RefSound' /\ MoneyIsKept
  BY <1>2, <1>3, <1>4, Passing
<1>6. HandSound'
  <2>1. call.action # "reserve" /\ IsOpen => call.block \in DOMAIN orders
    BY CallInHand DEF HoldInv
  <2>2. answer = "applied" \/ answer = "rail_rejected" => IsOpen
    BY DEF HoldInv, HandSound, BookSound, RequestInv, ControlInv
  <2>3. call.action # "reserve" /\ IsOpen => orders'[call.block].by = orders[call.block].by
    BY <1>4, <2>1 DEF SameMoney
  <2>4. key \in DOMAIN orders /\ orders[key].status = "PAID" =>
          key \in DOMAIN orders' /\ orders'[key].status = "PAID"
    BY <1>4 DEF SameMoney
  <2>. QED BY <1>2, <2>2, <2>3, <2>4, SameLedger DEF HoldInv, HandSound
<1>. QED BY <1>5, <1>6 DEF HoldInv

LEMMA StepHolds == HoldInv /\ [Next]_vars => HoldInv' /\ MoneyIsKept
<1>1. SUFFICES ASSUME HoldInv, [Next]_vars PROVE HoldInv' /\ MoneyIsKept
  OBVIOUS
<1>2. RequestInv'
  BY <1>1, EveryStepKeeps DEF HoldInv, BookSound
<1>3. CASE Works
  BY <1>1, <1>2, <1>3, CreatesHolds, ReadsOrderHolds, ReadsPaymentsHolds, CollectsHolds,
     SimulatesHolds, CapturesHolds, VoidsHolds, RecordsHolds DEF Works
<1>4. CASE Lost \/ Incomplete \/ Crashes \/ Restarts \/ World
  BY <1>1, <1>2, <1>4, LostHolds, IncompleteHolds, CrashesHolds, RestartsHolds, WorldHolds
<1>5. CASE Asks \/ Resolves
  BY <1>1, <1>2, <1>5, BeginsHolds, ResolvesHolds
<1>6. CASE UNCHANGED vars
  <2>1. /\ orders' = orders /\ calls' = calls /\ ref' = ref /\ at' = at /\ answer' = answer
        /\ silent' = silent /\ faults' = faults
    BY <1>6 DEF vars, session
  <2>2. Typed /\ faults \in 0 .. MaxFaults
    BY <1>1 DEF HoldInv, BookSound, Typed
  <2>3. BookSound' /\ RefSound' /\ MoneyIsKept
    BY <1>1, <1>2, <2>1, <2>2, NothingIsQuiet, Passing
  <2>4. HandSound'
    BY <1>1, <2>1, SameLedger DEF HoldInv, HandSound
  <2>. QED BY <2>3, <2>4 DEF HoldInv
<1>. QED BY <1>1, <1>3, <1>4, <1>5, <1>6 DEF Next

LEMMA HoldBegins == Init => HoldInv /\ MoneySound
<1>1. SUFFICES ASSUME Init PROVE HoldInv /\ MoneySound
  OBVIOUS
<1>2. /\ orders = <<>> /\ calls = <<>> /\ ref = NoRef /\ at = "idle" /\ answer = "none" /\ faults = 0
      /\ DOMAIN calls = {} /\ DOMAIN orders = {} /\ key = 0 /\ ~IsOpen
  BY <1>1 DEF Init, key, IsOpen
<1>3. Typed
  BY <1>2, CashfreeAssumption DEF Typed
<1>4. BookSound
  BY <1>1, <1>2, <1>3, NothingAskedYet DEF BookSound
<1>5. AppliedCalls("reserve") = {} /\ AppliedCalls("debit") = {} /\ AppliedCalls("release") = {}
  BY <1>2 DEF AppliedCalls
<1>6. Standing = 0
  BY <1>5 DEF Standing
<1>7. available = 0
  <2>1. ASSUME NEW a, AppliedCalls(a) = {} PROVE Total(a) = 0
    <3> DEFINE f == [k \in AppliedCalls(a) |-> calls[k].amount]
    <3>1. DOMAIN f = {} /\ Total(a) = SumFunction(f)
      BY <2>1 DEF Total
    <3> HIDE DEF f
    <3>. QED BY <3>1, SumEmpty
  <2>. QED BY <1>5, <2>1 DEF available
<1>8. HandSound
  BY <1>2 DEF HandSound, Request
<1>9. RefSound
  BY <1>2, <1>6 DEF RefSound, BlockHeld
<1>10. MoneySound
  BY <1>2, <1>6, <1>7 DEF MoneySound
<1>. QED BY <1>4, <1>8, <1>9, <1>10 DEF HoldInv

LEMMA HoldAlways == Spec => []HoldInv
<1>1. HoldInv /\ [Next]_vars => HoldInv'
  BY StepHolds
<1>. QED BY <1>1, HoldBegins, PTL DEF Spec

\* Every order is of a reservation of the chain, and the handle in memory is of
\* one of them or of none, after any crash, lost request and restart.
THEOREM OrdersAreTyped == Spec => []TypeOK
<1>1. ASSUME HoldInv PROVE TypeOK
  <2>1. /\ Typed /\ \A k \in DOMAIN orders : OrderIsOfCall(k)
        /\ ControlInv /\ HandSound /\ RefSound
    BY <1>1 DEF HoldInv, BookSound, RequestInv
  <2>2. DOMAIN orders \subseteq DOMAIN calls
    BY <2>1 DEF OrderIsOfCall
  <2>3. \A k \in DOMAIN calls : calls[k].outcome \in {"intent", "in_doubt", "applied", "rail_rejected"}
    BY <2>1, CallIs DEF Outcome
  <2>4. ref.block \in DOMAIN orders \cup {0}
    <3>1. \/ ref = NoRef
          \/ BlockHeld # 0 /\ (ref = get_block(BlockHeld) \/ ref = Placed(BlockHeld, orders[BlockHeld].amount))
      BY <2>1 DEF RefSound, AsPlaced
    <3>2. ref = NoRef => ref.block = 0
      BY DEF NoRef
    <3>3. \A b, c : get_block(b).block = b /\ Placed(b, c).block = b
      BY HandleIs
    <3>4. ref = NoRef \/ (BlockHeld # 0 /\ ref.block = BlockHeld)
      BY <3>1, <3>3
    <3>. QED BY <1>1, <3>2, <3>4, HeldIsOrder
  <2>. QED BY <2>1, <2>2, <2>3, <2>4 DEF TypeOK, Typed, ControlInv, HandSound
<1>. QED BY <1>1, HoldAlways, PTL

\* The calls of one kind that the chain shows as applied to an order.
AppliedTo(b, action) == {k \in AppliedCalls(action) : calls[k].block = b}

OrdersAreTold ==
  Quiet =>
    /\ \A b \in AppliedCalls("reserve") :
         LET o == orders[b]
         IN  /\ o.status = "PAID" /\ o.amount = calls[b].amount
             /\ o.by \notin silent =>
                  /\ {calls[k].amount : k \in AppliedTo(b, "debit")} =
                       IF o.action = "CAPTURE" THEN {o.captured} ELSE {}
                  /\ AppliedTo(b, "release") = IF o.action = "VOID" THEN {o.by} ELSE {}
    /\ ref.block # 0 /\ orders[ref.block].by \notin silent => ref = get_block(ref.block)

\* Once nothing is in doubt, and whatever may be handed back: an applied
\* reservation is a paid order of its amount, its one capture is the one debit
\* applied to it and of that amount, its one void is the one release, and the
\* handle in memory is the order (get_block), unless the rail was silent.
THEOREM OrdersAreAsTold == Spec => []OrdersAreTold
<1>1. ASSUME HoldInv, Quiet PROVE OrdersAreTold
  <2>1. BookSound /\ Typed /\ at = "idle" /\ ~IsOpen /\ answer = "none" /\ RefSound
    BY <1>1 DEF HoldInv, BookSound, RequestInv, ControlInv, Quiet
  <2>2. ASSUME NEW k \in DOMAIN calls
        PROVE  ~Open(k) /\ k # 0 /\ calls[k].outcome \in {"applied", "rail_rejected"}
    <3>1. CallSound(k) /\ calls[k].outcome \in Outcome /\ key \in Nat /\ k \in 1 .. key
      BY <2>1, CallIs, CallsAreMany DEF BookSound
    <3>2. Open(k) => k = key /\ IsOpen
      BY <3>1 DEF CallSound, IsOpen, call, Open
    <3>. QED BY <2>1, <3>1, <3>2 DEF Open, Outcome
  <2>3. ASSUME NEW b \in AppliedCalls("reserve")
        PROVE  LET o == orders[b]
               IN  /\ o.status = "PAID" /\ o.amount = calls[b].amount
                   /\ o.by \notin silent =>
                        /\ {calls[k].amount : k \in AppliedTo(b, "debit")} =
                             IF o.action = "CAPTURE" THEN {o.captured} ELSE {}
                        /\ AppliedTo(b, "release") = IF o.action = "VOID" THEN {o.by} ELSE {}
    <3> DEFINE o == orders[b]
    <3>1. /\ b \in DOMAIN orders /\ o.status = "PAID" /\ OrderIsOfCall(b) /\ ActedSound(b)
          /\ o \in Order
      BY <1>1, <2>1, AppliedIsPaid DEF BookSound, Typed
    <3>2. ASSUME NEW a \in {"debit", "release"}, NEW k \in AppliedTo(b, a)
          PROVE  k = o.by /\ k \in DOMAIN calls /\ calls[k].action = a /\ k # 0
      <4>1. k \in DOMAIN calls /\ calls[k].action = a /\ calls[k].outcome = "applied"
            /\ calls[k].block = b
        BY <3>2 DEF AppliedTo, AppliedCalls
      <4>. QED BY <2>1, <2>2, <4>1 DEF BookSound, CallSound
    <3>3. ASSUME o.by \notin silent, o.action # "none"
          PROVE  o.by \in AppliedCalls(calls[o.by].action) /\ calls[o.by].block = b
      <4>1. o.by \in DOMAIN calls /\ calls[o.by].block = b /\ calls[o.by].outcome # "rail_rejected"
        BY <3>1, <3>3 DEF ActedSound
      <4>. QED BY <2>2, <4>1 DEF AppliedCalls
    <3>4. ASSUME o.by \notin silent
          PROVE  {calls[k].amount : k \in AppliedTo(b, "debit")} = IF o.action = "CAPTURE" THEN {o.captured} ELSE {}
      <4>1. CASE o.action = "CAPTURE"
        <5>1. calls[o.by].action = "debit" /\ o.captured = calls[o.by].amount
          BY <3>1, <4>1 DEF ActedSound
        <5>2. o.by \in AppliedTo(b, "debit")
          BY <3>3, <3>4, <4>1, <5>1 DEF AppliedTo
        <5>3. AppliedTo(b, "debit") = {o.by}
          BY <3>2, <5>2
        <5>. QED BY <4>1, <5>1, <5>3
      <4>2. CASE o.action # "CAPTURE"
        <5>1. ASSUME NEW k \in AppliedTo(b, "debit") PROVE FALSE
          <6>1. k = o.by /\ calls[o.by].action = "debit" /\ o.by # 0
            BY <3>2, <5>1
          <6>2. o.action \in {"none", "VOID"}
            BY <3>1, <4>2 DEF Order
          <6>. QED BY <3>1, <6>1, <6>2 DEF ActedSound
        <5>2. AppliedTo(b, "debit") = {}
          BY <5>1
        <5>. QED BY <4>2, <5>2
      <4>. QED BY <4>1, <4>2
    <3>5. ASSUME o.by \notin silent
          PROVE  AppliedTo(b, "release") = IF o.action = "VOID" THEN {o.by} ELSE {}
      <4>1. CASE o.action = "VOID"
        <5>1. calls[o.by].action = "release"
          BY <3>1, <4>1 DEF ActedSound
        <5>2. o.by \in AppliedTo(b, "release")
          BY <3>3, <3>5, <4>1, <5>1 DEF AppliedTo
        <5>3. AppliedTo(b, "release") = {o.by}
          BY <3>2, <5>2
        <5>. QED BY <4>1, <5>1, <5>3
      <4>2. CASE o.action # "VOID"
        <5>1. ASSUME NEW k \in AppliedTo(b, "release") PROVE FALSE
          <6>1. k = o.by /\ calls[o.by].action = "release" /\ o.by # 0
            BY <3>2, <5>1
          <6>2. o.action \in {"none", "CAPTURE"}
            BY <3>1, <4>2 DEF Order
          <6>. QED BY <3>1, <6>1, <6>2 DEF ActedSound
        <5>2. AppliedTo(b, "release") = {}
          BY <5>1
        <5>. QED BY <4>2, <5>2
      <4>. QED BY <4>1, <4>2
    <3>. QED BY <3>1, <3>4, <3>5 DEF OrderIsOfCall
  <2>4. ASSUME ref.block # 0, orders[ref.block].by \notin silent
        PROVE  ref = get_block(ref.block)
    <3>1. ref # NoRef
      BY <2>4 DEF NoRef
    <3>2. ref = get_block(BlockHeld) \/ AsPlaced(BlockHeld)
      BY <2>1, <3>1 DEF RefSound
    <3>3. ref.block = BlockHeld
      BY <3>2, HandleIs DEF AsPlaced
    <3>. QED BY <2>1, <2>4, <3>2, <3>3 DEF AsPlaced, Unread
  <2>. QED BY <2>3, <2>4 DEF OrdersAreTold
<1>2. HoldInv => OrdersAreTold
  BY <1>1 DEF OrdersAreTold
<1>. QED BY <1>2, HoldAlways, PTL

\* What the rail holds and what the ledger says agree once nothing is in doubt,
\* after any crash, repeat and lost answer (test_cashfree_adapter_retry.py), for
\* a session that hands back all that is available or nothing: the void of this
\* rail gives back the whole hold.
THEOREM LedgerIsTheOrders ==
  ASSUME Releases = {}
  PROVE  Spec => []LedgerAgreesWithOrder
<1>1. HoldInv /\ MoneySound /\ [Next]_vars => (HoldInv /\ MoneySound)'
  BY StepHolds DEF MoneyIsKept
<1>2. Spec => [](HoldInv /\ MoneySound)
  BY <1>1, HoldBegins, PTL DEF Spec
<1>3. ASSUME HoldInv, MoneySound, OrdersAreTold PROVE LedgerAgreesWithOrder
  <2>1. ASSUME Quiet, NEW b \in AppliedCalls("reserve"), orders[b].by \notin silent
        PROVE  {calls[k].amount : k \in AppliedTo(b, "release")} =
                 IF orders[b].action = "VOID" THEN {orders[b].amount} ELSE {}
    <3>1. AppliedTo(b, "release") = IF orders[b].action = "VOID" THEN {orders[b].by} ELSE {}
      BY <1>3, <2>1 DEF OrdersAreTold
    <3>2. VoidIsWhole(b)
      BY <1>3, AppliedIsPaid DEF HoldInv, MoneySound
    <3>. QED BY <3>1, <3>2 DEF VoidIsWhole
  <2>. QED BY <1>3, <2>1 DEF OrdersAreTold, LedgerAgreesWithOrder, AppliedTo
<1>4. Spec => []OrdersAreTold
  BY OrdersAreAsTold
<1>5. HoldInv /\ MoneySound /\ OrdersAreTold => LedgerAgreesWithOrder
  BY <1>3
<1>. QED BY <1>2, <1>4, <1>5, PTL

(***************************************************************************)
(* The contract of a rail.  A step of the adapter, or of the customer, is   *)
(* one of RailContract, or is not seen.                                    *)
(***************************************************************************)

\* Whoever approves a reservation was asked, or is about to be by the sandbox.
OfferInv ==
  /\ Paid \subseteq Asked
  /\ at = "simulate" => key \in Asked

IsMove == Contract!Next \/ UNCHANGED Contract!vars

\* A step as the session's side of the contract sees it.
Kept == Paid' \subseteq Asked' /\ Asked \subseteq Asked' /\ IsMove

LEMMA SeenIsAsked ==
  ASSUME Typed
  PROVE  /\ DOMAIN CallsSeen = 1 .. key /\ Len(CallsSeen) = key /\ key \in Nat
         /\ DOMAIN calls = 1 .. key
         /\ \A k \in DOMAIN calls :
              CallsSeen[k] = [action |-> calls[k].action, amount |-> calls[k].amount,
                              block |-> calls[k].block,
                              outcome |-> IF Open(k) THEN "open" ELSE calls[k].outcome]
<1>1. key \in Nat /\ DOMAIN calls = 1 .. key /\ DOMAIN CallsSeen = 1 .. key
  BY CallsAreMany DEF CallsSeen
<1>2. ASSUME NEW k \in DOMAIN calls
      PROVE  CallsSeen[k] = [action |-> calls[k].action, amount |-> calls[k].amount,
                              block |-> calls[k].block,
                              outcome |-> IF Open(k) THEN "open" ELSE calls[k].outcome]
  <2>1. CallsSeen[k] = IF Open(k) THEN [calls[k] EXCEPT !.outcome = "open"] ELSE calls[k]
    BY DEF CallsSeen, Open
  <2>2. calls[k] \in CallRecord
    BY CallIs
  <2>3. PICK c \in CallRecord : c = calls[k]
    BY <2>2
  <2>4. [c EXCEPT !.outcome = "open"] = [action |-> c.action, amount |-> c.amount,
                                        block |-> c.block, outcome |-> "open"]
    BY DEF CallRecord
  <2>5. c = [action |-> c.action, amount |-> c.amount, block |-> c.block, outcome |-> c.outcome]
    BY DEF CallRecord
  <2>. QED BY <2>1, <2>3, <2>4, <2>5
<1>3. Len(CallsSeen) = key
  <2> DEFINE S == {CallsSeen[k] : k \in 1 .. key}
  <2>1. CallsSeen = [k \in 1 .. key |-> CallsSeen[k]]
    BY <1>1 DEF CallsSeen
  <2>2. CallsSeen \in [1 .. key -> S]
    BY <2>1
  <2> HIDE DEF S
  <2>3. CallsSeen \in Seq(S)
    BY <1>1, <2>2, SeqDef
  <2>4. PICK s \in Seq(S) : s = CallsSeen
    BY <2>3
  <2>5. Len(s) \in Nat /\ 1 .. Len(s) = 1 .. key
    BY <1>1, <2>4, LenProperties
  <2>. QED BY <1>1, <2>4, <2>5
<1>. QED BY <1>1, <1>2, <1>3

\* The call in hand is the one the contract has open.
LEMMA OpenIsSeen ==
  ASSUME HoldInv, NEW k, k = key
  PROVE  Contract!IsOpen(k) <=> IsOpen
<1>1. Typed /\ key \in Nat /\ DOMAIN calls = 1 .. key
  BY CallsAreMany DEF HoldInv, BookSound
<1>2. k > 0 => CallsSeen[k].outcome = IF Open(k) THEN "open" ELSE calls[k].outcome
  BY <1>1, SeenIsAsked
<1>3. k > 0 => calls[k].outcome \in Outcome
  BY <1>1, CallIs
<1>4. k > 0 => (CallsSeen[k].outcome = "open" <=> Open(k))
  BY <1>2, <1>3 DEF Outcome
<1>5. Len(CallsSeen) = k
  BY <1>1, SeenIsAsked
<1>. QED BY <1>1, <1>4, <1>5 DEF Contract!IsOpen, Contract!last, IsOpen, Open, call

LEMMA SameSeen == calls' = calls => CallsSeen' = CallsSeen
  BY DEF CallsSeen

\* A hold is what its order says of it.
LEMMA SameHolds ==
  ASSUME Paid' = Paid,
         \A k \in Paid : /\ orders'[k].amount = orders[k].amount /\ orders'[k].by = orders[k].by
                         /\ orders'[k].captured = orders[k].captured
  PROVE  HoldsSeen' = HoldsSeen
  BY DEF HoldsSeen

LEMMA SameAsked ==
  ASSUME OrdersAre(orders), KeepsPayments(orders')
  PROVE  Asked' = Asked
<1>1. ASSUME NEW k \in DOMAIN orders
      PROVE  orders'[k].payments = <<>> <=> orders[k].payments = <<>>
  <2>1. orders[k].payments \in Seq(Fate) /\ orders'[k].payments \in Seq(Fate)
    BY DEF KeepsPayments, OrdersAre, IsOrder
  <2>2. Len(orders'[k].payments) = Len(orders[k].payments)
    BY DEF KeepsPayments
  <2>. QED BY <2>1, <2>2, EmptyIsLengthZero
<1>. QED BY <1>1 DEF KeepsPayments, Asked

\* A step that neither asks, nor moves money, nor answers.
LEMMA Unseen ==
  ASSUME OfferInv, calls' = calls, silent' = silent, Asked' = Asked, Paid' = Paid,
         HoldsSeen' = HoldsSeen
  PROVE  Kept
  BY SameSeen DEF OfferInv, Kept, IsMove, Contract!vars

LEMMA SameOrders ==
  ASSUME OfferInv, calls' = calls, silent' = silent, orders' = orders
  PROVE  Kept
<1>1. Asked' = Asked /\ Paid' = Paid /\ HoldsSeen' = HoldsSeen
  BY DEF Asked, Paid, HoldsSeen
<1>. QED BY <1>1, Unseen

\* An order is made.
LEMMA OrderIsUnseen ==
  ASSUME OfferInv, calls' = calls, silent' = silent, key \notin DOMAIN orders,
         orders' = WithOrder(FreshOrder)
  PROVE  Kept
<1>1. /\ DOMAIN orders' = DOMAIN orders \cup {key}
      /\ orders'[key].payments = <<>> /\ orders'[key].status = "ACTIVE"
      /\ \A k \in DOMAIN orders : orders'[k] = orders[k]
  BY DEF WithOrder, FreshOrder
<1>2. Asked' = Asked /\ Paid' = Paid
  BY <1>1 DEF Asked, Paid
<1>3. HoldsSeen' = HoldsSeen
  BY <1>1, <1>2, SameHolds DEF Paid
<1>. QED BY <1>2, <1>3, Unseen

\* An order nobody paid expires.
LEMMA ExpiryIsUnseen ==
  ASSUME HoldInv, OfferInv, calls' = calls, silent' = silent, NEW j \in DOMAIN orders,
         orders[j].status = "ACTIVE", orders' = [orders EXCEPT ![j].status = "EXPIRED"]
  PROVE  Kept
<1>1. OrdersAre(orders) /\ Typed
  BY DEF HoldInv, BookSound, RequestInv
<1>2. Asked' = Asked
  BY <1>1, ExpiryKeeps, SameAsked
<1>3. DOMAIN orders' = DOMAIN orders /\ \A k \in DOMAIN orders \ {j} : orders'[k] = orders[k]
  BY <1>1 DEF OrdersAre
<1>4. orders'[j].status = "EXPIRED"
  <2>1. PICK o : o = orders[j] /\ o \in Order
    BY <1>1 DEF Typed
  <2>2. orders'[j] = [o EXCEPT !.status = "EXPIRED"]
    BY <2>1
  <2>. QED BY <2>1, <2>2 DEF Order
<1>5. Paid' = Paid
  BY <1>3, <1>4 DEF Paid
<1>6. HoldsSeen' = HoldsSeen
  BY <1>3, <1>5, SameHolds DEF Paid
<1>. QED BY <1>2, <1>5, <1>6, Unseen

\* The collect puts the reservation to the customer.
LEMMA CollectOffers ==
  ASSUME HoldInv, OfferInv, at = "collect", calls' = calls, silent' = silent,
         orders[key].status = "ACTIVE", orders' = Collected
  PROVE  Kept /\ key \in Asked'
<1>1. OrdersAre(orders) /\ Typed /\ IsOpen /\ key \in DOMAIN calls
  BY UnderWay DEF Request
<1>2. key \in DOMAIN orders /\ orders[key].payments = <<>> /\ call.action = "reserve"
  BY DEF HoldInv, HandSound, BookSound, RequestInv, ControlInv
<1>3. DOMAIN orders' = DOMAIN orders /\ \A k \in DOMAIN orders \ {key} : orders'[k] = orders[k]
  BY <1>1 DEF OrdersAre, Collected
<1>4. /\ orders'[key].status = "ACTIVE" /\ orders'[key].payments # <<>>
  <2>1. PICK o : o = orders[key] /\ o \in Order
    BY <1>1, <1>2 DEF Typed
  <2>2. PICK q : q = Append(orders[key].payments, "NOT_ATTEMPTED")
    OBVIOUS
  <2>3. orders'[key] = [o EXCEPT !.payments = q]
    BY <1>2, <2>1, <2>2 DEF Collected, Order
  <2>4. q # <<>>
    <3>1. orders[key].payments \in Seq(Fate)
      BY <2>1 DEF Order, Fate
    <3>2. Len(q) = Len(orders[key].payments) + 1 /\ Len(orders[key].payments) \in Nat
      BY <2>2, <3>1
    <3>. QED BY <3>2
  <2>. QED BY <2>1, <2>3, <2>4 DEF Order
<1>5. Asked' = Asked \cup {key} /\ Paid' = Paid /\ key \notin Asked
  BY <1>2, <1>3, <1>4 DEF Asked, Paid
<1>6. HoldsSeen' = HoldsSeen
  BY <1>3, <1>4, <1>5, SameHolds DEF Paid
<1>7. PICK k \in DOMAIN CallsSeen : k = key
  BY <1>1, SeenIsAsked
<1>8. Contract!IsOpen(k) /\ CallsSeen[k].action = "reserve"
  BY <1>1, <1>2, <1>7, OpenIsSeen, SeenIsAsked DEF call
<1>9. Contract!Offers(k)
  BY <1>5, <1>6, <1>7, <1>8, SameSeen DEF Contract!Offers
<1>10. IsMove
  BY <1>9, Zenon DEF IsMove, Contract!Next
<1>. QED BY <1>5, <1>10 DEF OfferInv, Kept

\* An order nobody paid is one nobody acted on.
LEMMA UnpaidIsUnused ==
  ASSUME HoldInv, NEW k \in DOMAIN orders, orders[k].status # "PAID"
  PROVE  orders[k].by = 0 /\ orders[k].captured = 0
<1>1. ActedSound(k) /\ orders[k] \in Order /\ BookSound
  BY DEF HoldInv, BookSound, Typed
<1>2. ASSUME orders[k].action # "none" PROVE FALSE
  <2>1. /\ orders[k].by \in DOMAIN calls /\ calls[orders[k].by].block = k
        /\ calls[orders[k].by].action # "reserve"
    BY <1>1, <1>2 DEF ActedSound, Order
  <2>2. k \in AppliedCalls("reserve")
    BY <1>1, <2>1 DEF BookSound, CallSound
  <2>. QED BY <1>1, <2>2, AppliedIsPaid
<1>. QED BY <1>1, <1>2 DEF ActedSound

\* An approval makes the order a hold, of the amount that was asked for.
LEMMA ApprovalPlaces ==
  ASSUME HoldInv, OfferInv, calls' = calls, silent' = silent, NEW k \in Asked, NEW p,
         orders[k].status = "ACTIVE", orders' = PaidBy(k, p)
  PROVE  Kept /\ Asked' = Asked
<1>1. OrdersAre(orders) /\ Typed /\ k \in DOMAIN orders /\ OrderIsOfCall(k)
  BY DEF HoldInv, BookSound, RequestInv, Asked
<1>2. Asked' = Asked
  BY <1>1, PayingKeeps, SameAsked
<1>3. DOMAIN orders' = DOMAIN orders /\ \A j \in DOMAIN orders \ {k} : orders'[j] = orders[j]
  BY <1>1 DEF OrdersAre, PaidBy
<1>4. orders'[k].status = "PAID"
  <2>1. PICK o : o = orders[k] /\ o \in Order
    BY <1>1 DEF Typed
  <2>2. PICK q : q = [orders[k].payments EXCEPT ![p] = "SUCCESS"]
    OBVIOUS
  <2>3. orders'[k] = [o EXCEPT !.payments = q, !.status = "PAID"]
    BY <1>1, <2>1, <2>2 DEF PaidBy, Order
  <2>. QED BY <2>1, <2>3 DEF Order
<1>5. SameMoney(orders')
  BY <1>1, PayingIsQuiet
<1>6. Paid' = Paid \cup {k} /\ k \notin Paid
  BY <1>1, <1>3, <1>4 DEF Paid
<1>7. /\ orders'[k].amount = CallsSeen[k].amount
      /\ orders'[k].by = 0 /\ orders'[k].captured = 0
  BY <1>1, <1>5, UnpaidIsUnused, SeenIsAsked DEF SameMoney, OrderIsOfCall
<1>8. DOMAIN HoldsSeen = Paid
  BY DEF HoldsSeen
<1>9. HoldsSeen' = [h \in DOMAIN HoldsSeen \cup {k} |->
                      IF h = k THEN [amount |-> CallsSeen[k].amount, by |-> 0, taken |-> 0]
                               ELSE HoldsSeen[h]]
  <2>1. \A h \in Paid : HoldsSeen[h] = [amount |-> orders[h].amount, by |-> orders[h].by,
                                        taken |-> orders[h].captured]
    BY DEF HoldsSeen
  <2>2. \A h \in Paid : h # k /\ orders'[h] = orders[h]
    BY <1>3, <1>6 DEF Paid
  <2>. QED BY <1>6, <1>7, <1>8, <2>1, <2>2 DEF HoldsSeen
<1>10. Contract!Places(k)
  BY <1>2, <1>6, <1>8, <1>9, SameSeen DEF Contract!Places
<1>11. IsMove
  BY <1>10, Zenon DEF IsMove, Contract!Next
<1>. QED BY <1>2, <1>6, <1>11 DEF OfferInv, Kept

\* A capture or a void uses the hold, once; the repeat of it does nothing more.
LEMMA DeedUses ==
  ASSUME HoldInv, OfferInv, calls' = calls, IsOpen, NEW a, NEW n, Deed(a, n), Acts(a),
         orders' = ActedOn(a, n), silent' \in {silent, silent \cup {key}}
  PROVE  Kept
<1>1. PICK b : b = call.block
  OBVIOUS
<1>2. PICK k : k = key
  OBVIOUS
<1>3. /\ DOMAIN orders' = DOMAIN orders
      /\ \A h \in DOMAIN orders : h # b => orders'[h] = orders[h]
      /\ orders'[b].status = orders[b].status /\ orders'[b].amount = orders[b].amount
      /\ orders'[b].captured = n /\ orders'[b].by = k
  BY <1>1, <1>2, DeedIsTold DEF HoldInv
<1>4. /\ k \in DOMAIN calls /\ k # 0 /\ b \in DOMAIN orders /\ ActedSound(b)
      /\ orders[b] \in Order /\ b \in AppliedCalls("reserve") /\ call = calls[k]
      /\ Typed /\ OrdersAre(orders) /\ call.amount \in Nat
  BY <1>1, <1>2, CallInHand DEF Deed, HoldInv, BookSound, RequestInv, call
<1>5. b \in Paid /\ Paid' = Paid
  BY <1>3, <1>4, AppliedIsPaid DEF Paid, HoldInv
<1>6. Asked' = Asked
  BY <1>4, ActingKeeps, SameAsked
<1>7. /\ CallsSeen[k].action = call.action /\ CallsSeen[k].amount = call.amount
      /\ CallsSeen[k].block = b /\ k \in DOMAIN CallsSeen /\ Contract!IsOpen(k)
  BY <1>1, <1>2, <1>4, SeenIsAsked, OpenIsSeen
<1>8. /\ DOMAIN HoldsSeen = Paid
      /\ HoldsSeen[b] = [amount |-> orders[b].amount, by |-> orders[b].by, taken |-> orders[b].captured]
  BY <1>5 DEF HoldsSeen
<1>9. CASE orders[b].by = 0
  <2>1. PICK h : h = HoldsSeen[b]
    OBVIOUS
  <2>2. [h EXCEPT !.by = k, !.taken = n] = [amount |-> orders[b].amount, by |-> k, taken |-> n]
    <3>1. PICK x, y, z : x = orders[b].amount /\ y = orders[b].by /\ z = orders[b].captured
      OBVIOUS
    <3>2. h = [amount |-> x, by |-> y, taken |-> z]
      BY <1>8, <2>1, <3>1
    <3>3. PICK g : g = [h EXCEPT !.by = k]
      OBVIOUS
    <3>4. g = [amount |-> x, by |-> k, taken |-> z]
      BY <3>2, <3>3
    <3>5. [g EXCEPT !.taken = n] = [amount |-> x, by |-> k, taken |-> n]
      BY <3>4
    <3>. QED BY <3>1, <3>3, <3>5
  <2>3. HoldsSeen' = [HoldsSeen EXCEPT ![b] = [h EXCEPT !.by = k, !.taken = n]]
    <3>1. HoldsSeen'[b] = [h EXCEPT !.by = k, !.taken = n] /\ DOMAIN HoldsSeen' = Paid
      BY <1>3, <1>5, <2>2 DEF HoldsSeen
    <3>2. \A x \in Paid \ {b} : HoldsSeen'[x] = HoldsSeen[x]
      BY <1>3, <1>5 DEF HoldsSeen, Paid
    <3>3. HoldsSeen' = [x \in Paid |-> HoldsSeen'[x]] /\ HoldsSeen = [x \in Paid |-> HoldsSeen[x]]
      BY <1>5 DEF HoldsSeen
    <3>. QED BY <1>5, <3>1, <3>2, <3>3
  <2>4. /\ CallsSeen[k].action \in {"debit", "release"}
        /\ n = IF CallsSeen[k].action = "debit" THEN CallsSeen[k].amount ELSE 0
        /\ n <= h.amount /\ h.by = 0
    <3>1. orders[b].amount \in Nat
      BY <1>4, CashfreeAssumption DEF Order
    <3>. QED BY <1>1, <1>7, <1>8, <1>9, <2>1, <3>1 DEF Deed
  <2>5. Contract!Uses(k)
    BY <1>2, <1>5, <1>6, <1>7, <1>8, <2>1, <2>3, <2>4, SameSeen DEF Contract!Uses
  <2>6. IsMove
    BY <1>7, <2>5, Zenon DEF IsMove, Contract!Next
  <2>. QED BY <1>5, <1>6, <2>6 DEF OfferInv, Kept
<1>10. CASE orders[b].by # 0
  <2>1. orders[b].by = k /\ orders[b].action = a
    BY <1>1, <1>2, <1>4, <1>10 DEF Acts, Repeats, ActedSound
  <2>2. orders[b].captured = n
    BY <1>1, <1>4, <2>1 DEF Deed, ActedSound
  <2>3. HoldsSeen' = HoldsSeen
    <3>1. \A x \in Paid : /\ orders'[x].amount = orders[x].amount /\ orders'[x].by = orders[x].by
                          /\ orders'[x].captured = orders[x].captured
      BY <1>3, <2>1, <2>2 DEF Paid
    <3>. QED BY <1>5, <3>1, SameHolds
  <2>4. CASE silent' = silent
    BY <1>5, <1>6, <2>3, <2>4, Unseen
  <2>5. CASE silent' = silent \cup {key}
    <3>1. Contract!Acted(k)
      BY <1>1, <1>5, <1>7, <1>8, <2>1 DEF Contract!Acted, Deed
    <3>2. Contract!FallsMute(k)
      BY <1>2, <1>6, <1>7, <2>3, <2>5, <3>1, SameSeen DEF Contract!FallsMute
    <3>3. IsMove
      BY <1>7, <3>2, Zenon DEF IsMove, Contract!Next
    <3>. QED BY <1>5, <1>6, <3>3 DEF OfferInv, Kept
  <2>. QED BY <2>4, <2>5
<1>. QED BY <1>9, <1>10

\* A call is asked for: on a hold the session was told of, if it moves money.
LEMMA BeginningAsks ==
  ASSUME HoldInv, OfferInv, NEW action \in Action, NEW amount \in Nat \ {0},
         Begins(action, amount), action # "reserve" => Standing # 0
  PROVE  Kept
<1>1. Typed /\ BookSound
  BY DEF HoldInv, BookSound
<1>2. PICK n : n = key
  OBVIOUS
<1>3. /\ orders' = orders /\ silent' = silent /\ ~IsOpen
      /\ calls' = Append(calls, [action |-> action, amount |-> amount, block |-> Standing,
                                 outcome |-> "intent"])
  BY DEF Begins
<1>4. /\ calls' \in Seq(CallRecord) /\ key' = n + 1 /\ DOMAIN calls' = 1 .. n + 1
      /\ \A k \in DOMAIN calls : calls'[k] = calls[k]
      /\ calls'[n + 1] = [action |-> action, amount |-> amount, block |-> Standing,
                          outcome |-> "intent"]
  BY <1>1, <1>2, BegunLedger DEF call
<1>5. Len(CallsSeen) = n /\ DOMAIN CallsSeen = 1 .. n /\ DOMAIN calls = 1 .. n /\ n \in Nat
  BY <1>1, <1>2, SeenIsAsked
<1>6. PICK c : c = [action |-> action, amount |-> amount, block |-> Standing, outcome |-> "open"]
  OBVIOUS
<1>7. /\ DOMAIN CallsSeen' = 1 .. n + 1 /\ CallsSeen'[n + 1] = c
      /\ \A k \in 1 .. n : CallsSeen'[k] = CallsSeen[k]
  <2>1. DOMAIN CallsSeen' = 1 .. n + 1 /\ \A k \in 1 .. n : CallsSeen'[k] = CallsSeen[k]
    <3>1. DOMAIN CallsSeen' = 1 .. n + 1
      BY <1>4 DEF CallsSeen
    <3>2. ASSUME NEW k \in 1 .. n PROVE CallsSeen'[k] = CallsSeen[k]
      <4>1. k \in DOMAIN calls /\ k \in DOMAIN calls' /\ calls'[k] = calls[k]
        BY <1>4, <1>5
      <4>. QED BY <4>1, Zenon DEF CallsSeen
    <3>. QED BY <3>1, <3>2
  <2>2. CallsSeen'[n + 1] = [calls'[n + 1] EXCEPT !.outcome = "open"]
    <3>1. calls'[n + 1].outcome = "intent" /\ n + 1 \in DOMAIN calls'
      BY <1>4, <1>5
    <3>2. calls'[n + 1].outcome \in {"intent", "in_doubt"}
      BY <3>1
    <3>. QED BY <3>1, <3>2, Zenon DEF CallsSeen
  <2>3. PICK r, m, b : r = action /\ m = amount /\ b = Standing
    OBVIOUS
  <2>4. [[action |-> r, amount |-> m, block |-> b, outcome |-> "intent"] EXCEPT !.outcome = "open"]
          = [action |-> r, amount |-> m, block |-> b, outcome |-> "open"]
    OBVIOUS
  <2>. QED BY <1>4, <1>6, <2>1, <2>2, <2>3, <2>4, Zenon
<1>8. CallsSeen' = Append(CallsSeen, c) /\ Len(CallsSeen') = n + 1
  <2>1. PICK f, g : f = CallsSeen /\ g = CallsSeen'
    OBVIOUS
  <2>2. f = [k \in 1 .. n |-> f[k]] /\ g = [k \in 1 .. n + 1 |-> g[k]]
    BY <1>5, <1>7, <2>1 DEF CallsSeen
  <2> DEFINE S == {f[k] : k \in 1 .. n} \cup {c}
  <2>3. f \in [1 .. n -> S] /\ g \in [1 .. n + 1 -> S] /\ c \in S
    <3>1. c \in S /\ \A k \in 1 .. n : f[k] \in S /\ g[k] = f[k]
      BY <1>7, <2>1
    <3>2. \A k \in 1 .. n + 1 : k \in 1 .. n \/ k = n + 1
      BY <1>5
    <3>3. g[n + 1] = c
      BY <1>7, <2>1
    <3> HIDE DEF S
    <3>. QED BY <2>2, <3>1, <3>2, <3>3
  <2> HIDE DEF S
  <2>4. f \in Seq(S) /\ g \in Seq(S)
    BY <1>5, <2>3, SeqDef
  <2>5. Len(f) = n
    BY <1>5, <2>1
  <2>6. Append(f, c) \in Seq(S) /\ DOMAIN Append(f, c) = 1 .. n + 1 /\ Append(f, c)[n + 1] = c
        /\ \A k \in 1 .. n : Append(f, c)[k] = f[k]
    BY <1>5, <2>3, <2>4, <2>5
  <2>7. g[n + 1] = c /\ \A k \in 1 .. n : g[k] = f[k]
    BY <1>7, <2>1
  <2>8. \A k \in 1 .. n + 1 : k \in 1 .. n \/ k = n + 1
    BY <1>5
  <2>9. PICK h \in Seq(S) : h = Append(f, c)
    BY <2>6
  <2>10. h = [k \in 1 .. n + 1 |-> h[k]]
    <3>1. h \in [1 .. Len(h) -> S] /\ DOMAIN h = 1 .. Len(h)
      BY <2>9, LenProperties
    <3>. QED BY <2>6, <2>9, <3>1
  <2>11. g = h
    BY <2>2, <2>6, <2>7, <2>8, <2>9, <2>10
  <2>12. Len(g) = n + 1
    BY <1>5, <2>4, <2>5, <2>9, <2>11, <2>3
  <2>. QED BY <2>1, <2>9, <2>11, <2>12
<1>9. c \in Contract!Call /\ c.action = action /\ c.block = Standing
  BY <1>1, <1>6, StandingIs DEF Contract!Call, Action
<1>10. ASSUME action # "reserve"
       PROVE  c.block \in DOMAIN HoldsSeen /\ CallsSeen[c.block].outcome = "applied"
  <2>1. Standing \in AppliedCalls("reserve") /\ Standing # 0
    BY <1>1, <1>10, StandingIs
  <2>2. Standing \in Paid /\ Standing \in DOMAIN calls /\ ~Open(Standing)
    BY <1>1, <2>1, AppliedIsPaid DEF Paid
  <2>3. calls[Standing].outcome = "applied"
    BY <2>1 DEF AppliedCalls
  <2>4. PICK b : b = Standing
    OBVIOUS
  <2>5. CallsSeen[b].outcome = "applied"
    BY <1>1, <2>2, <2>3, <2>4, SeenIsAsked
  <2>. QED BY <1>9, <2>2, <2>4, <2>5 DEF HoldsSeen
<1>11. Asked' = Asked /\ Paid' = Paid /\ HoldsSeen' = HoldsSeen
  BY <1>3 DEF Asked, Paid, HoldsSeen
<1>12. ~Contract!IsOpen(n)
  BY <1>2, <1>3, OpenIsSeen
<1>13. Contract!Asks
  BY <1>3, <1>5, <1>7, <1>8, <1>9, <1>10, <1>11, <1>12 DEF Contract!Asks, Contract!last
<1>14. IsMove
  BY <1>13, Zenon DEF IsMove, Contract!Next
<1>. QED BY <1>11, <1>14 DEF OfferInv, Kept

\* The chain is told what the call came to, or that nobody knows.
LEMMA RecordingAnswers ==
  ASSUME HoldInv, OfferInv, Records
  PROVE  Kept
<1>1. /\ at = "recording" /\ orders' = orders /\ silent' = silent /\ IsOpen /\ Typed
  BY DEF Records, HoldInv, HandSound, BookSound
<1>2. PICK what \in {"applied", "rail_rejected", "in_doubt"} : what = answer
  BY <1>1 DEF HoldInv, HandSound, BookSound, RequestInv, ControlInv
<1>3. RecordedTruly(what)
  BY <1>2 DEF HoldInv, HandSound, RecordedTruly
<1>4. PICK k : k = key
  OBVIOUS
<1>5. /\ calls' \in Seq(CallRecord) /\ DOMAIN calls' = DOMAIN calls
      /\ \A j \in DOMAIN calls : j # k => calls'[j] = calls[j]
      /\ calls'[k] = [call EXCEPT !.outcome = what]
      /\ k \in DOMAIN calls /\ k # 0 /\ k \in Nat /\ call = calls[k]
  BY <1>1, <1>2, <1>4, RecordedLedger DEF call
<1>6. Asked' = Asked /\ Paid' = Paid /\ HoldsSeen' = HoldsSeen
  BY <1>1 DEF Asked, Paid, HoldsSeen
<1>7. PICK c \in CallRecord : c = call
  BY <1>1, <1>5, CallIs
<1>8. /\ CallsSeen[k] = [action |-> c.action, amount |-> c.amount, block |-> c.block, outcome |-> "open"]
      /\ k \in DOMAIN CallsSeen /\ Contract!IsOpen(k)
  <2>1. Open(k)
    BY <1>1, <1>5 DEF IsOpen, Open
  <2>. QED BY <1>1, <1>4, <1>5, <1>7, <2>1, SeenIsAsked, OpenIsSeen
<1>9. calls'[k] = [action |-> c.action, amount |-> c.amount, block |-> c.block, outcome |-> what]
  BY <1>5, <1>7 DEF CallRecord
<1>10. \A j \in DOMAIN calls : j # k => CallsSeen'[j] = CallsSeen[j]
  BY <1>5 DEF CallsSeen
<1>11. CallsSeen' = [j \in DOMAIN calls |-> CallsSeen'[j]] /\ CallsSeen = [j \in DOMAIN calls |-> CallsSeen[j]]
  BY <1>5 DEF CallsSeen
<1>12. CASE what = "in_doubt"
  <2>1. CallsSeen'[k] = [calls'[k] EXCEPT !.outcome = "open"]
    BY <1>5, <1>9, <1>12 DEF CallsSeen
  <2>2. CallsSeen'[k] = CallsSeen[k]
    BY <1>8, <1>9, <2>1
  <2>3. CallsSeen' = CallsSeen
    BY <1>10, <1>11, <2>2
  <2>. QED BY <1>1, <1>6, <2>3 DEF OfferInv, Kept, IsMove, Contract!vars
<1>13. CASE what \in {"applied", "rail_rejected"}
  <2>1. CallsSeen'[k] = calls'[k]
    BY <1>5, <1>9, <1>13 DEF CallsSeen
  <2>2. CallsSeen'[k] = [CallsSeen[k] EXCEPT !.outcome = what]
    BY <1>8, <1>9, <2>1
  <2>3. CallsSeen' = [CallsSeen EXCEPT ![k].outcome = what]
    <3>1. PICK t : t = [CallsSeen[k] EXCEPT !.outcome = what]
      OBVIOUS
    <3>2. CallsSeen' = [CallsSeen EXCEPT ![k] = t]
      BY <1>5, <1>10, <1>11, <2>2, <3>1
    <3>. QED BY <3>1, <3>2
  <2>4. /\ CallsSeen[k].action = call.action /\ CallsSeen[k].block = call.block
        /\ DOMAIN HoldsSeen = Paid /\ \A h \in Paid : HoldsSeen[h].by = orders[h].by
    BY <1>7, <1>8 DEF HoldsSeen
  <2>5. call.action # "reserve" => call.block \in Paid
    BY <1>1, CallInHand, AppliedIsPaid DEF HoldInv, Paid
  <2>6. ASSUME what = "applied" PROVE Contract!Acted(k)
    <3>1. CASE call.action = "reserve"
      BY <1>3, <1>4, <2>4, <2>6, <3>1 DEF Contract!Acted, RecordedTruly, Paid
    <3>2. CASE call.action # "reserve"
      <4>1. orders[call.block].by = k
        BY <1>3, <1>4, <2>6, <3>2 DEF RecordedTruly
      <4>. QED BY <2>4, <2>5, <3>2, <4>1 DEF Contract!Acted
    <3>. QED BY <3>1, <3>2
  <2>7. ASSUME what = "rail_rejected" PROVE ~Contract!Acted(k) \/ k \in Asked \/ k \in silent
    <3>1. CASE call.action = "reserve"
      BY <2>4, <3>1 DEF Contract!Acted, OfferInv
    <3>2. ASSUME call.action # "reserve", NEW h \in Paid, orders[h].by = k PROVE k \in silent
      <4>1. h \in DOMAIN orders /\ ActedSound(h) /\ orders[h] \in Order
        BY <1>1, <3>2 DEF Paid, HoldInv, BookSound, Typed
      <4>2. call.block = h
        BY <1>5, <3>2, <4>1 DEF ActedSound, Order
      <4>. QED BY <1>3, <1>4, <2>7, <3>2, <4>2 DEF RecordedTruly
    <3>3. CASE call.action # "reserve"
      BY <2>4, <3>2, <3>3 DEF Contract!Acted
    <3>. QED BY <3>1, <3>3
  <2>8. Contract!Answers(k, what)
    BY <1>1, <1>6, <1>8, <2>3, <2>6, <2>7 DEF Contract!Answers
  <2>9. IsMove
    BY <1>8, <1>13, <2>8, Zenon DEF IsMove, Contract!Next
  <2>. QED BY <1>6, <2>9 DEF OfferInv, Kept
<1>. QED BY <1>12, <1>13

LEMMA ReservationKept ==
  ASSUME HoldInv, OfferInv, Creates \/ ReadsOrder \/ ReadsPayments \/ Collects \/ Simulates
  PROVE  Kept /\ (at' = "simulate" => key' \in Asked')
<1>1. calls' = calls /\ silent' = silent /\ key' = key
  BY DEF Creates, ReadsOrder, ReadsPayments, Collects, Simulates, Untouched, key
<1>2. CASE Collects /\ orders[key].status = "ACTIVE"
  BY <1>1, <1>2, CollectOffers DEF Collects
<1>3. CASE Simulates /\ Approvable
  <2>1. key \in Asked /\ orders' = PaidBy(key, Len(orders[key].payments)) /\ at' = "recording"
    BY <1>3 DEF OfferInv, Simulates, Returns
  <2>. QED BY <1>1, <1>3, <2>1, ApprovalPlaces DEF Approvable
<1>4. CASE Creates /\ key \notin DOMAIN orders
  BY <1>1, <1>4, OrderIsUnseen DEF Creates, GoesOn
<1>5. CASE /\ ~(Collects /\ orders[key].status = "ACTIVE")
           /\ ~(Simulates /\ Approvable) /\ ~(Creates /\ key \notin DOMAIN orders)
  <2>1. orders' = orders /\ at' # "simulate"
    BY <1>5 DEF Creates, ReadsOrder, ReadsPayments, Collects, Simulates, Untouched, GoesOn,
                Refused, Returns
  <2>. QED BY <1>1, <2>1, SameOrders
<1>. QED BY <1>2, <1>3, <1>4, <1>5

LEMMA MovingKept ==
  ASSUME HoldInv, OfferInv, Captures \/ Voids
  PROVE  Kept /\ at' = "recording"
<1>1. /\ calls' = calls /\ silent' = silent /\ at' = "recording" /\ at \in {"capture", "void"}
  BY DEF Captures, Voids, Refused, Returns
<1>2. IsOpen
  BY <1>1, UnderWay DEF Request
<1>3. CASE orders' = orders
  BY <1>1, <1>3, SameOrders
<1>4. CASE orders' # orders
  <2>1. \/ Deed("CAPTURE", call.amount) /\ Acts("CAPTURE") /\ orders' = ActedOn("CAPTURE", call.amount)
        \/ Deed("VOID", 0) /\ Acts("VOID") /\ orders' = ActedOn("VOID", 0)
    BY <1>4, DeedsAre DEF Captures, Voids
  <2>. QED BY <1>1, <1>2, <2>1, DeedUses
<1>. QED BY <1>1, <1>3, <1>4

\* A request that is lost did what it does, or nothing; an incomplete answer is
\* that of a call that acted.
LEMMA FaultKept ==
  ASSUME HoldInv, OfferInv, Lost \/ Incomplete
  PROVE  Kept /\ at' = "recording"
<1>1. calls' = calls /\ at' = "recording" /\ at \in Request
  BY DEF Lost, Incomplete, Refused, Unknown, Returns, Request
<1>2. IsOpen
  BY <1>1, UnderWay
<1>3. CASE Lost
  <2>1. silent' = silent
    BY <1>3 DEF Lost
  <2>2. CASE orders' = orders
    BY <1>1, <2>1, <2>2, SameOrders
  <2>3. CASE at = "create" /\ key \notin DOMAIN orders /\ orders' = WithOrder(FreshOrder)
    BY <1>1, <2>1, <2>3, OrderIsUnseen
  <2>4. CASE at = "collect" /\ orders[key].status = "ACTIVE" /\ orders' = Collected
    BY <1>1, <2>1, <2>4, CollectOffers
  <2>5. CASE at = "simulate" /\ Approvable /\ orders' = PaidBy(key, Len(orders[key].payments))
    BY <1>1, <2>1, <2>5, ApprovalPlaces DEF OfferInv, Approvable
  <2>6. CASE /\ at = "capture" /\ call.amount <= ref.ceiling - ref.released /\ Acts("CAPTURE")
             /\ orders' = ActedOn("CAPTURE", call.amount)
    BY <1>1, <1>2, <2>1, <2>6, DeedsAre, DeedUses
  <2>7. CASE at = "void" /\ Acts("VOID") /\ orders' = ActedOn("VOID", 0)
    BY <1>1, <1>2, <2>1, <2>7, DeedsAre, DeedUses
  <2>. QED BY <1>1, <1>3, <2>2, <2>3, <2>4, <2>5, <2>6, <2>7 DEF Lost
<1>4. CASE Incomplete
  <2>1. CASE /\ at = "create" /\ key \notin DOMAIN orders /\ silent' = silent
             /\ orders' = WithOrder(FreshOrder)
    BY <1>1, <2>1, OrderIsUnseen
  <2>2. CASE /\ at = "capture" /\ call.amount <= ref.ceiling - ref.released /\ Acts("CAPTURE")
             /\ orders' = ActedOn("CAPTURE", call.amount) /\ silent' = silent \cup {key}
    BY <1>1, <1>2, <2>2, DeedsAre, DeedUses
  <2>. QED BY <1>1, <1>4, <2>1, <2>2 DEF Incomplete
<1>. QED BY <1>3, <1>4

LEMMA WorldKept ==
  ASSUME HoldInv, OfferInv, World
  PROVE  Kept
<1>1. PICK k \in DOMAIN orders : CustomerApproves(k) \/ OrderExpires(k)
  BY DEF World
<1>2. calls' = calls /\ silent' = silent /\ orders[k].status = "ACTIVE"
  BY <1>1 DEF CustomerApproves, OrderExpires
<1>3. CASE CustomerApproves(k)
  <2>1. PICK p \in DOMAIN orders[k].payments : orders' = PaidBy(k, p)
    BY <1>3 DEF CustomerApproves
  <2>2. k \in Asked
    BY <2>1 DEF Asked
  <2>. QED BY <1>2, <2>1, <2>2, ApprovalPlaces
<1>4. CASE OrderExpires(k)
  BY <1>2, <1>4, ExpiryIsUnseen DEF OrderExpires
<1>. QED BY <1>1, <1>3, <1>4

LEMMA AskingKept ==
  ASSUME HoldInv, OfferInv, Asks
  PROVE  Kept /\ at' # "simulate"
<1>1. Typed
  BY DEF HoldInv, BookSound
<1>2. PICK action \in Action, amount \in Nat \ {0} :
        Begins(action, amount) /\ (action # "reserve" => Standing # 0)
  <2>1. CASE \E amount \in Ceilings : Reserves(amount)
    BY <2>1, CashfreeAssumption DEF Reserves, Action
  <2>2. CASE \E amount \in Amounts : Debits(amount)
    <3>1. PICK amount \in Amounts : Debits(amount)
      BY <2>2
    <3>2. amount \in Nat \ {0} /\ amount <= Total("reserve") - Total("debit")
      BY <3>1, CashfreeAssumption DEF Debits
    <3>3. Standing # 0
      BY <1>1, <3>2, MoneyIsHeld, StandingIs
    <3>. QED BY <3>1, <3>2, <3>3 DEF Debits, Action
  <2>3. CASE \E amount \in Releases \cup {available} : HandsBack(amount)
    <3>1. PICK amount \in Releases \cup {available} : HandsBack(amount)
      BY <2>3
    <3>2. amount \in Nat \ {0} /\ 1 <= available
      BY <1>1, <3>1, StandingIs DEF HandsBack
    <3>3. Standing # 0
      BY <1>1, <3>2, MoneyIsHeld, StandingIs DEF available
    <3>. QED BY <3>1, <3>2, <3>3 DEF HandsBack, Action
  <2>. QED BY <2>1, <2>2, <2>3 DEF Asks
<1>3. at' # "simulate"
  BY <1>2 DEF Begins, FirstRequest, Action
<1>. QED BY <1>2, <1>3, BeginningAsks

LEMMA EveryStepKept == HoldInv /\ OfferInv /\ [Next]_vars => Kept /\ OfferInv'
<1>1. SUFFICES ASSUME HoldInv, OfferInv, [Next]_vars
               PROVE  Kept /\ (at' = "simulate" => key' \in Asked')
  BY DEF Kept, OfferInv
<1>2. CASE Asks
  BY <1>1, <1>2, AskingKept
<1>3. CASE Creates \/ ReadsOrder \/ ReadsPayments \/ Collects \/ Simulates
  BY <1>1, <1>3, ReservationKept
<1>4. CASE Captures \/ Voids
  BY <1>1, <1>4, MovingKept
<1>5. CASE Records
  BY <1>1, <1>5, RecordingAnswers DEF Records
<1>6. CASE Lost \/ Incomplete
  BY <1>1, <1>6, FaultKept
<1>7. CASE Resolves \/ Crashes \/ Restarts
  <2>1. calls' = calls /\ silent' = silent /\ orders' = orders
    BY <1>7 DEF Resolves, Crashes, Restarts
  <2>2. at' # "simulate"
    <3>1. ASSUME Resolves PROVE call.action \in Action
      BY <1>1, <3>1, CallsAreMany, CallIs DEF Resolves, IsOpen, HoldInv, BookSound, call
    <3>. QED BY <1>7, <3>1 DEF Resolves, FirstRequest, Action, Crashes, Restarts
  <2>. QED BY <1>1, <2>1, <2>2, SameOrders
<1>8. CASE World \/ UNCHANGED vars
  <2>1. at' = at /\ key' = key
    BY <1>8 DEF World, CustomerApproves, OrderExpires, vars, session, key
  <2>2. Kept
    BY <1>1, <1>8, WorldKept, SameOrders DEF vars
  <2>. QED BY <1>1, <2>1, <2>2 DEF OfferInv, Kept
<1>. QED BY <1>1, <1>2, <1>3, <1>4, <1>5, <1>6, <1>7, <1>8 DEF Next, Works

\* Whatever is lost, repeated, answered by half or restarted, the adapter and its
\* rail keep the contract a session relies on: a call acts at most once and before
\* it has an outcome, a hold is used once and for no more than it is, "applied" is
\* said only of a call that acted, and a refusal only of one that did not, but for
\* a customer who was asked and an answer without its amount (rails/base.py).
THEOREM AdapterKeepsContract == Spec => KeepsContract
<1>1. Init => Contract!Init /\ OfferInv
  <2>1. SUFFICES ASSUME Init PROVE Contract!Init /\ OfferInv
    OBVIOUS
  <2>2. Asked = {} /\ Paid = {}
    BY <2>1 DEF Init, Asked, Paid
  <2>3. CallsSeen = <<>>
    BY <2>1 DEF Init, CallsSeen
  <2>4. HoldsSeen = <<>>
    BY <2>2 DEF HoldsSeen
  <2>. QED BY <2>1, <2>2, <2>3, <2>4 DEF Init, Contract!Init, OfferInv
<1>2. HoldInv /\ OfferInv /\ [Next]_vars => OfferInv' /\ [Contract!Next]_(Contract!vars)
  BY EveryStepKept DEF Kept, IsMove
<1>. QED BY <1>1, <1>2, HoldAlways, PTL DEF Spec, KeepsContract, Contract!Spec

=============================================================================
