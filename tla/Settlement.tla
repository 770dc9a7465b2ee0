----------------------------- MODULE Settlement -----------------------------
(***************************************************************************)
(* Settling a payment by capture and refund (rails/settlement.py) on a     *)
(* rail that captures all or nothing: the ceiling is captured, then the    *)
(* difference to the actual amount is refunded.  A run of                  *)
(* settle_capture_refund keeps its chain in memory only; what survives it  *)
(* is the payment at the rail, and a later run starts from there.          *)
(*                                                                         *)
(* One run at a time: that is how rails/settle.py is used, and nothing in  *)
(* the code would notice a second one.  An error answer may hide a call    *)
(* that landed; a read of the payment shows every call answered before it. *)
(* As with the fake rail of the tests, refunds leave the status alone.     *)
(***************************************************************************)
EXTENDS Integers, Sequences

CONSTANTS
  Ceiling,          \* the amount of the payment
  Actuals,          \* what a run may be asked to settle for
  RefundAttempts,   \* refund_attempts
  OthersAmounts,    \* what somebody else may refund on the payment
  MaxOthers,        \* bound on such refunds
  MaxFaults         \* bound on answers that are errors, and on dead runs

ASSUME SettlementAssumption ==
  /\ Ceiling \in Nat
  /\ Actuals \subseteq Nat
  /\ RefundAttempts \in Nat \ {0}
  /\ OthersAmounts \subseteq Nat \ {0}
  /\ MaxOthers \in Nat /\ MaxFaults \in Nat

VARIABLES
  status,    \* the payment's status at the rail
  refunded,  \* its amount_refunded
  returns,   \* history: how many refunds of settlements the rail has made
  at,        \* where the run stands: the rail call it makes next, or "idle"
  actual,    \* what it settles for
  attempt,   \* which attempt at the refund it is
  trail,     \* its chain, without policy decisions and refusals
  result,    \* what it returned, "none" before it has
  others,    \* refunds by somebody else so far
  faults     \* faults so far

payment == <<status, refunded, returns>>
run == <<at, actual, attempt, trail, result>>
vars == <<payment, run, others, faults>>

Transition == {"AUTHORIZED", "CAPTURED", "REFUND_ATTEMPT", "REFUNDED", "COMPENSATION"}
Result == {"none", "settled", "already_settled", "refused", "capture_failed",
           "owed", "mismatch"}

TypeOK ==
  /\ status \in {"authorized", "captured", "lapsed"}
  /\ refunded \in Nat /\ returns \in Nat
  /\ at \in {"idle", "fetching", "capturing", "refunding", "rereading"}
  /\ actual \in Actuals
  /\ attempt \in 1 .. RefundAttempts
  /\ trail \in Seq([transition: Transition, amount: Int])
  /\ result \in Result
  /\ others \in 0 .. MaxOthers
  /\ faults \in 0 .. MaxFaults

Init ==
  /\ status \in {"authorized", "captured"}
  /\ refunded = 0 /\ returns = 0
  /\ at = "idle"
  /\ actual \in Actuals
  /\ attempt = 1
  /\ trail = <<>>
  /\ result = "none"
  /\ others = 0 /\ faults = 0

Difference == Ceiling - actual

Entry(transition) ==
  [transition |-> transition,
   amount |-> IF transition \in {"AUTHORIZED", "CAPTURED"} THEN Ceiling ELSE Difference]
Records(entries) == trail' = trail \o entries

Goes(p) == at' = p /\ UNCHANGED <<actual, attempt, result>>
Ends(r) == at' = "idle" /\ result' = r /\ UNCHANGED <<actual, attempt>>

Fault == faults < MaxFaults /\ faults' = faults + 1

(***************************************************************************)
(* The rail, as capture and refund use it.                                 *)
(***************************************************************************)
CaptureLands ==
  /\ status = "authorized"
  /\ status' = "captured"
  /\ UNCHANGED <<refunded, returns>>

TakesRefund == status = "captured" /\ refunded + Difference <= Ceiling
RefundLands ==
  /\ TakesRefund
  /\ refunded' = refunded + Difference
  /\ returns' = returns + 1
  /\ UNCHANGED status

(***************************************************************************)
(* settle_capture_refund, one action per answer of the rail.               *)
(***************************************************************************)
Begin(a) ==
  /\ at = "idle"
  /\ at' = "fetching" /\ actual' = a /\ attempt' = 1
  /\ trail' = <<>> /\ result' = "none"
  /\ UNCHANGED <<payment, others, faults>>

\* Mutants of Payable and Gate: a captured payment is not taken up; any prior
\* refund counts as this settlement's.
OnlyAuthorized == {"authorized"}
AnyRefundIsOurs ==
  IF status \notin {"authorized", "captured"} \/ actual > Ceiling THEN "refused"
  ELSE IF refunded = 0 THEN "open" ELSE "already_settled"

Payable == {"authorized", "captured"}

\* What the payment just fetched means for this settlement.
Gate ==
  IF status \notin Payable \/ actual > Ceiling THEN "refused"
  ELSE IF refunded = 0 THEN "open"
  ELSE IF refunded = Difference THEN "already_settled"
  ELSE "refused"

Declines ==
  /\ at = "fetching"
  /\ Gate # "open"
  /\ Ends(Gate)
  /\ UNCHANGED <<payment, trail, others, faults>>

\* Once the ceiling is captured: the return leg, unless nothing is to return.
AfterCapture == IF Difference > 0 THEN Goes("refunding") ELSE Ends("settled")

TakesUp ==
  /\ at = "fetching"
  /\ Gate = "open"
  /\ IF status = "authorized"
       THEN Goes("capturing") /\ Records(<<Entry("AUTHORIZED")>>)
       ELSE AfterCapture /\ Records(<<Entry("AUTHORIZED"), Entry("CAPTURED")>>)
  /\ UNCHANGED <<payment, others, faults>>

\* Mutant of Captures: only the request for it is recorded.
CapturesUnrecorded ==
  /\ at = "capturing"
  /\ CaptureLands
  /\ AfterCapture
  /\ UNCHANGED <<trail, others, faults>>

Captures ==
  /\ at = "capturing"
  /\ CaptureLands
  /\ Records(<<Entry("CAPTURED")>>)
  /\ AfterCapture
  /\ UNCHANGED <<others, faults>>

\* Mutant of CaptureFails: the answer's status code is not looked at.
CaptureAssumed ==
  /\ at = "capturing"
  /\ Fault
  /\ UNCHANGED payment
  /\ Records(<<Entry("CAPTURED")>>)
  /\ AfterCapture
  /\ UNCHANGED others

\* Any answer but 200: the rail refused, failed, or its answer was lost.
CaptureFails ==
  /\ at = "capturing"
  /\ \/ status # "authorized" /\ UNCHANGED <<payment, faults>>
     \/ Fault /\ (CaptureLands \/ UNCHANGED payment)
  /\ Ends("capture_failed")
  /\ UNCHANGED <<trail, others>>

Refunds ==
  /\ at = "refunding"
  /\ RefundLands
  /\ Records(<<Entry("REFUNDED")>>)
  /\ Ends("settled")
  /\ UNCHANGED <<others, faults>>

RefundFails ==
  /\ at = "refunding"
  /\ \/ ~TakesRefund /\ UNCHANGED <<payment, faults>>
     \/ Fault /\ (RefundLands \/ UNCHANGED payment)
  /\ IF attempt < RefundAttempts
       THEN /\ at' = "rereading" /\ attempt' = attempt + 1
            /\ Records(<<Entry("REFUND_ATTEMPT")>>)
            /\ UNCHANGED <<actual, result>>
       ELSE Ends("owed") /\ Records(<<Entry("REFUND_ATTEMPT"), Entry("COMPENSATION")>>)
  /\ UNCHANGED others

\* Mutant of Rereads: the refund is repeated blind.
RepeatsBlind ==
  /\ at = "rereading"
  /\ Goes("refunding") /\ UNCHANGED trail
  /\ UNCHANGED <<payment, others, faults>>

\* Before a retry the rail is read.
Rereads ==
  /\ at = "rereading"
  /\ \/ refunded = Difference /\ Ends("settled") /\ Records(<<Entry("REFUNDED")>>)
     \/ refunded = 0 /\ Difference # 0 /\ Goes("refunding") /\ UNCHANGED trail
     \/ refunded \notin {0, Difference} /\ Ends("mismatch") /\ Records(<<Entry("COMPENSATION")>>)
  /\ UNCHANGED <<payment, others, faults>>

(***************************************************************************)
(* The process dies, or a call raises (a timeout, a failed fetch) whether  *)
(* or not it landed: nothing catches it, and the chain goes with the run.  *)
(***************************************************************************)
RunDies ==
  /\ at # "idle"
  /\ Fault
  /\ \/ UNCHANGED payment
     \/ at = "capturing" /\ CaptureLands
     \/ at = "refunding" /\ RefundLands
  /\ at' = "idle" /\ trail' = <<>> /\ result' = "none"
  /\ UNCHANGED <<actual, attempt, others>>

(***************************************************************************)
(* The world outside: an authorization nobody captures lapses, and the     *)
(* merchant can refund on the rail's dashboard.                            *)
(***************************************************************************)
Lapses ==
  /\ status = "authorized"
  /\ status' = "lapsed"
  /\ UNCHANGED <<refunded, returns, run, others, faults>>

OthersRefund(amount) ==
  /\ status = "captured"
  /\ others < MaxOthers
  /\ refunded + amount <= Ceiling
  /\ refunded' = refunded + amount
  /\ others' = others + 1
  /\ UNCHANGED <<status, returns, run, faults>>

Step ==
  \/ Declines \/ TakesUp \/ Captures \/ CaptureFails
  \/ Refunds \/ RefundFails \/ Rereads

Starts == \E a \in Actuals : Begin(a)

Next ==
  \/ Starts \/ Step \/ RunDies \/ Lapses
  \/ \E amount \in OthersAmounts : OthersRefund(amount)

Spec == Init /\ [][Next]_vars

\* A run goes on until it returns or dies, and whoever wants the payment settled
\* for an amount runs it again.
FairSpec == Spec /\ WF_vars(Step) /\ \A a \in Actuals : SF_vars(Begin(a))

=============================================================================
