-------------------------- MODULE SettlementProofs --------------------------
(***************************************************************************)
(* For every ceiling, every set of actuals and every bound: settlement     *)
(* stays in its types, refunds at most once, leaves the merchant with the  *)
(* actual amount, claims nothing the rail does not hold, and reconciles.   *)
(***************************************************************************)
EXTENDS Reconcile, SumProofs

USE SettlementAssumption

\* A run about to move money has not returned any yet, and knows what is due.
RunSound ==
  /\ at \in {"capturing", "refunding", "rereading"} => actual <= Ceiling
  /\ at \in {"refunding", "rereading"} => actual < Ceiling /\ status = "captured"
  /\ at \in {"capturing", "refunding"} => returns = 0
  /\ at # "idle" => result = "none"

\* What the rail's figures say of the refunds made on it.
PaymentSound ==
  /\ refunded > 0 => status = "captured"
  /\ returns > 0 => refunded > 0

\* With nobody else refunding, what the rail has refunded is this run's.
OursAlone ==
  others = 0 =>
    /\ at \in {"capturing", "refunding"} => refunded = 0
    /\ at = "rereading" => refunded \in {0, Difference}

SettlementInv ==
  TypeOK /\ RunSound /\ PaymentSound /\ OursAlone
  /\ ReturnedOnce /\ SettledIsNet /\ TrailIsTrue

TrailEntry == [transition: Transition, amount: Int]

(***************************************************************************)
(* What recording does to the trail.                                       *)
(***************************************************************************)
LEMMA EntryIsTyped ==
  ASSUME NEW transition \in Transition, actual \in Actuals
  PROVE  /\ Entry(transition) \in TrailEntry
         /\ Entry(transition).transition = transition
         /\ transition = "REFUNDED" => Entry(transition).amount = Difference
BY DEF Entry, TrailEntry, Transition, Difference

LEMMA Recording ==
  ASSUME trail \in Seq(TrailEntry), NEW entries \in Seq(TrailEntry), Records(entries)
  PROVE  /\ trail' \in Seq(TrailEntry)
         /\ \A i \in DOMAIN trail' :
              \/ i \in DOMAIN trail /\ trail'[i] = trail[i]
              \/ \E j \in DOMAIN entries : trail'[i] = entries[j]
<1>1. trail' = trail \o entries
  BY DEF Records
<1>2. trail' \in Seq(TrailEntry)
  BY <1>1
<1>3. ASSUME NEW i \in DOMAIN trail'
      PROVE  \/ i \in DOMAIN trail /\ trail'[i] = trail[i]
             \/ \E j \in DOMAIN entries : trail'[i] = entries[j]
  <2>1. /\ DOMAIN trail = 1 .. Len(trail) /\ DOMAIN entries = 1 .. Len(entries)
        /\ Len(trail) \in Nat /\ Len(entries) \in Nat
        /\ i \in 1 .. Len(trail) + Len(entries)
    BY <1>1, <1>3
  <2>2. CASE i <= Len(trail)
    BY <1>1, <2>1, <2>2
  <2>3. CASE i > Len(trail)
    <3>1. i - Len(trail) \in DOMAIN entries /\ trail'[i] = entries[i - Len(trail)]
      BY <1>1, <2>1, <2>3
    <3>. QED BY <3>1
  <2>. QED BY <2>1, <2>2, <2>3
<1>. QED BY <1>2, <1>3

\* A trail stays true when what it claims stays so and what is added is so.
LEMMA TrailStaysTrue ==
  ASSUME TypeOK, TypeOK', TrailIsTrue,
         NEW entries \in Seq(TrailEntry), Records(entries),
         status = "captured" => status' = "captured",
         refunded' >= refunded,
         \A j \in DOMAIN entries :
           /\ entries[j].transition = "CAPTURED" => status' = "captured"
           /\ entries[j].transition = "REFUNDED" => refunded' >= entries[j].amount
  PROVE  TrailIsTrue'
<1>1. trail \in Seq(TrailEntry)
  BY DEF TypeOK, TrailEntry
<1>2. SUFFICES ASSUME NEW i \in DOMAIN trail'
               PROVE  /\ trail'[i].transition = "CAPTURED" => status' = "captured"
                      /\ trail'[i].transition = "REFUNDED" => refunded' >= trail'[i].amount
  BY DEF TrailIsTrue
<1>3. CASE i \in DOMAIN trail /\ trail'[i] = trail[i]
  <2>1. trail[i] \in TrailEntry
    BY <1>1, <1>3
  <2>. QED BY <1>3, <2>1 DEF TrailIsTrue, TypeOK, TrailEntry
<1>4. CASE \E j \in DOMAIN entries : trail'[i] = entries[j]
  BY <1>4
<1>. QED BY <1>1, <1>2, <1>3, <1>4, Recording

LEMMA TrailUntouched ==
  ASSUME TypeOK, TypeOK', TrailIsTrue, UNCHANGED trail,
         status = "captured" => status' = "captured",
         refunded' >= refunded
  PROVE  TrailIsTrue'
<1>1. SUFFICES ASSUME NEW i \in DOMAIN trail
               PROVE  /\ trail[i].transition = "CAPTURED" => status' = "captured"
                      /\ trail[i].transition = "REFUNDED" => refunded' >= trail[i].amount
  BY DEF TrailIsTrue
<1>2. trail \in Seq(TrailEntry)
  BY DEF TypeOK, TrailEntry
<1>3. trail[i] \in TrailEntry
  BY <1>1, <1>2
<1>. QED BY <1>1, <1>3 DEF TrailIsTrue, TypeOK, TrailEntry

LEMMA OneRecorded ==
  ASSUME NEW e \in TrailEntry
  PROVE  /\ <<e>> \in Seq(TrailEntry)
         /\ \A j \in DOMAIN <<e>> : <<e>>[j] = e
OBVIOUS

LEMMA TwoRecorded ==
  ASSUME NEW e \in TrailEntry, NEW f \in TrailEntry
  PROVE  /\ <<e, f>> \in Seq(TrailEntry)
         /\ \A j \in DOMAIN <<e, f>> : <<e, f>>[j] \in {e, f}
OBVIOUS

(***************************************************************************)
(* The inductive invariant.                                                *)
(***************************************************************************)
MoneyInv == RunSound /\ PaymentSound /\ OursAlone /\ ReturnedOnce /\ SettledIsNet

LEMMA InvInit == Init => SettlementInv
<1>1. SUFFICES ASSUME Init PROVE SettlementInv
  OBVIOUS
<1>2. TypeOK
  <2>1. trail \in Seq([transition: Transition, amount: Int])
    BY <1>1 DEF Init
  <2>. QED BY <1>1, <2>1 DEF Init, TypeOK, Result
<1>3. MoneyInv
  BY <1>1 DEF Init, MoneyInv, RunSound, PaymentSound, OursAlone, ReturnedOnce, SettledIsNet
<1>4. TrailIsTrue
  BY <1>1 DEF Init, TrailIsTrue
<1>. QED BY <1>2, <1>3, <1>4 DEF SettlementInv, MoneyInv

\* The type invariant without the trail, and an entry that says no more than the
\* rail holds after the step.
FieldsTyped ==
  /\ status \in {"authorized", "captured", "lapsed"}
  /\ refunded \in Nat /\ returns \in Nat
  /\ at \in {"idle", "fetching", "capturing", "refunding", "rereading"}
  /\ actual \in Actuals /\ attempt \in 1 .. RefundAttempts /\ result \in Result
  /\ others \in 0 .. MaxOthers /\ faults \in 0 .. MaxFaults

Truthful(e) ==
  /\ e \in TrailEntry
  /\ e.transition = "CAPTURED" => status' = "captured"
  /\ e.transition = "REFUNDED" => refunded' >= e.amount

\* What the rail has captured and refunded is never taken back.
PaymentGrows ==
  (status = "captured" => status' = "captured") /\ refunded' >= refunded

LEMMA InvParts ==
  SettlementInv <=> FieldsTyped /\ trail \in Seq(TrailEntry) /\ MoneyInv /\ TrailIsTrue
BY DEF SettlementInv, MoneyInv, TypeOK, FieldsTyped, TrailEntry

\* A step that records nothing, or only true entries, has its fields and its
\* money to account for.
LEMMA RecordsNothing ==
  ASSUME SettlementInv, FieldsTyped', MoneyInv', PaymentGrows,
         trail' = trail \/ trail' = <<>>
  PROVE  SettlementInv'
<1>1. trail \in Seq(TrailEntry) /\ TypeOK
  BY DEF SettlementInv, TypeOK, TrailEntry
<1>2. CASE trail' = trail
  <2>1. TypeOK'
    BY <1>1, <1>2 DEF TypeOK, FieldsTyped, TrailEntry
  <2>. QED BY <1>1, <1>2, <2>1, TrailUntouched DEF SettlementInv, MoneyInv, PaymentGrows
<1>3. CASE trail' = <<>>
  <2>1. trail' \in Seq(TrailEntry)
    BY <1>3
  <2>2. TypeOK' /\ TrailIsTrue'
    BY <1>3, <2>1 DEF TypeOK, FieldsTyped, TrailEntry, TrailIsTrue
  <2>. QED BY <2>2 DEF SettlementInv, MoneyInv
<1>. QED BY <1>2, <1>3

LEMMA RecordsTruth ==
  ASSUME SettlementInv, FieldsTyped', MoneyInv', PaymentGrows,
         NEW entries \in Seq(TrailEntry), Records(entries),
         \A j \in DOMAIN entries : Truthful(entries[j])
  PROVE  SettlementInv'
<1>1. trail \in Seq(TrailEntry) /\ TypeOK /\ TrailIsTrue
  BY DEF SettlementInv, TypeOK, TrailEntry
<1>2. trail' \in Seq(TrailEntry)
  BY <1>1, Recording
<1>3. TypeOK'
  BY <1>2 DEF TypeOK, FieldsTyped, TrailEntry
<1>4. TrailIsTrue'
  BY <1>1, <1>3, TrailStaysTrue DEF PaymentGrows, Truthful
<1>. QED BY <1>3, <1>4 DEF SettlementInv, MoneyInv

LEMMA RecordsOne ==
  ASSUME SettlementInv, FieldsTyped', MoneyInv', PaymentGrows,
         NEW e, Truthful(e), Records(<<e>>)
  PROVE  SettlementInv'
<1>1. e \in TrailEntry
  BY DEF Truthful
<1>2. <<e>> \in Seq(TrailEntry) /\ \A j \in DOMAIN <<e>> : <<e>>[j] = e
  BY <1>1, OneRecorded
<1>3. \A j \in DOMAIN <<e>> : Truthful(<<e>>[j])
  BY <1>2 DEF Truthful
<1>. QED BY <1>2, <1>3, RecordsTruth

LEMMA RecordsTwo ==
  ASSUME SettlementInv, FieldsTyped', MoneyInv', PaymentGrows,
         NEW e, NEW f, Truthful(e), Truthful(f), Records(<<e, f>>)
  PROVE  SettlementInv'
<1>1. e \in TrailEntry /\ f \in TrailEntry
  BY DEF Truthful
<1>2. <<e, f>> \in Seq(TrailEntry) /\ \A j \in DOMAIN <<e, f>> : <<e, f>>[j] \in {e, f}
  BY <1>1, TwoRecorded
<1>3. \A j \in DOMAIN <<e, f>> : Truthful(<<e, f>>[j])
  BY <1>2 DEF Truthful
<1>. QED BY <1>2, <1>3, RecordsTruth

(***************************************************************************)
(* The steps.                                                              *)
(***************************************************************************)
LEMMA BeginKeeps ==
  ASSUME SettlementInv, NEW a \in Actuals, Begin(a)
  PROVE  SettlementInv'
<1>1. MoneyInv'
  BY DEF Begin, payment, MoneyInv, SettlementInv, TypeOK, RunSound, PaymentSound,
         OursAlone, ReturnedOnce, SettledIsNet
<1>2. FieldsTyped' /\ PaymentGrows
  BY <1>1 DEF Begin, payment, SettlementInv, TypeOK, Result, FieldsTyped, PaymentGrows
<1>. QED BY <1>1, <1>2, RecordsNothing DEF Begin

LEMMA DeclinesKeeps ==
  ASSUME SettlementInv, Declines
  PROVE  SettlementInv'
<1>1. /\ UNCHANGED <<status, refunded, returns, actual, attempt, trail, others, faults>>
      /\ at' = "idle" /\ result' = Gate /\ Gate \in {"refused", "already_settled"}
  BY DEF Declines, Ends, payment, Gate
<1>2. Gate = "already_settled" => refunded = Ceiling - actual /\ refunded # 0
  BY DEF Gate, Difference
<1>3. MoneyInv'
  BY <1>1, <1>2 DEF MoneyInv, SettlementInv, TypeOK, RunSound, PaymentSound,
                    OursAlone, ReturnedOnce, SettledIsNet
<1>4. FieldsTyped' /\ PaymentGrows
  BY <1>1, <1>3 DEF SettlementInv, TypeOK, Result, FieldsTyped, PaymentGrows
<1>. QED BY <1>1, <1>3, <1>4, RecordsNothing

LEMMA TakesUpKeeps ==
  ASSUME SettlementInv, TakesUp
  PROVE  SettlementInv'
<1>1. /\ UNCHANGED <<status, refunded, returns, actual, attempt, others, faults>>
      /\ refunded = 0 /\ actual <= Ceiling /\ status \in Payable
  BY DEF TakesUp, Gate, Goes, Ends, AfterCapture, payment, SettlementInv, TypeOK
<1>2. /\ Entry("AUTHORIZED") \in TrailEntry /\ Entry("CAPTURED") \in TrailEntry
      /\ Entry("AUTHORIZED").transition = "AUTHORIZED"
      /\ Entry("CAPTURED").transition = "CAPTURED"
  BY EntryIsTyped DEF Transition, SettlementInv, TypeOK
<1>3. CASE status = "authorized"
  <2>1. at' = "capturing" /\ result' = result /\ Records(<<Entry("AUTHORIZED")>>)
    BY <1>3 DEF TakesUp, Goes
  <2>2. MoneyInv'
    BY <1>1, <1>3, <2>1 DEF TakesUp, MoneyInv, SettlementInv, TypeOK, RunSound,
         PaymentSound, OursAlone, ReturnedOnce, SettledIsNet
  <2>3. Truthful(Entry("AUTHORIZED"))
    BY <1>2, <2>1 DEF Truthful
  <2>4. FieldsTyped' /\ PaymentGrows
    BY <1>1, <2>1, <2>2, <2>3 DEF SettlementInv, TypeOK, FieldsTyped, PaymentGrows
  <2>. QED BY <2>1, <2>2, <2>3, <2>4, RecordsOne
<1>4. CASE status # "authorized"
  <2>1. /\ status = "captured"
        /\ AfterCapture
        /\ Records(<<Entry("AUTHORIZED"), Entry("CAPTURED")>>)
    BY <1>1, <1>4 DEF TakesUp, Payable
  <2>2. \/ at' = "refunding" /\ result' = result /\ Difference > 0
        \/ at' = "idle" /\ result' = "settled" /\ Difference = 0
    BY <1>1, <2>1 DEF AfterCapture, Goes, Ends, Difference, SettlementInv, TypeOK
  <2>3. MoneyInv'
    BY <1>1, <2>1, <2>2 DEF TakesUp, MoneyInv, SettlementInv, TypeOK, RunSound,
         PaymentSound, OursAlone, ReturnedOnce, SettledIsNet, Difference
  <2>4. Truthful(Entry("AUTHORIZED")) /\ Truthful(Entry("CAPTURED"))
    BY <1>1, <1>2, <2>1 DEF Truthful
  <2>5. FieldsTyped' /\ PaymentGrows
    BY <1>1, <2>1, <2>2, <2>3, <2>4 DEF SettlementInv, TypeOK, Result, FieldsTyped, PaymentGrows
  <2>. QED BY <2>1, <2>3, <2>4, <2>5, RecordsTwo
<1>. QED BY <1>3, <1>4

LEMMA CapturesKeeps ==
  ASSUME SettlementInv, Captures
  PROVE  SettlementInv'
<1>1. /\ UNCHANGED <<refunded, returns, actual, attempt, others, faults>>
      /\ at = "capturing" /\ status = "authorized" /\ status' = "captured"
      /\ Records(<<Entry("CAPTURED")>>)
  BY DEF Captures, CaptureLands, AfterCapture, Goes, Ends
<1>2. \/ at' = "refunding" /\ result' = result /\ Difference > 0
      \/ at' = "idle" /\ result' = "settled" /\ Difference = 0
  BY <1>1 DEF Captures, AfterCapture, Goes, Ends, Difference, SettlementInv, TypeOK, RunSound
<1>3. MoneyInv'
  BY <1>1, <1>2 DEF MoneyInv, SettlementInv, TypeOK, RunSound, PaymentSound,
                    OursAlone, ReturnedOnce, SettledIsNet, Difference
<1>4. Entry("CAPTURED") \in TrailEntry /\ Entry("CAPTURED").transition = "CAPTURED"
  BY EntryIsTyped DEF Transition, SettlementInv, TypeOK
<1>5. Truthful(Entry("CAPTURED"))
    BY <1>1, <1>4 DEF Truthful
<1>6. FieldsTyped' /\ PaymentGrows
  BY <1>1, <1>2, <1>3, <1>5 DEF SettlementInv, TypeOK, Result, FieldsTyped, PaymentGrows
<1>. QED BY <1>1, <1>3, <1>5, <1>6, RecordsOne

LEMMA CaptureFailsKeeps ==
  ASSUME SettlementInv, CaptureFails
  PROVE  SettlementInv'
<1>1. /\ UNCHANGED <<refunded, returns, actual, attempt, trail, others>>
      /\ at = "capturing" /\ at' = "idle" /\ result' = "capture_failed"
      /\ status' = status \/ status' = "captured"
      /\ faults' \in 0 .. MaxFaults
  BY DEF CaptureFails, CaptureLands, Ends, Fault, payment, SettlementInv, TypeOK
<1>2. MoneyInv'
  BY <1>1 DEF MoneyInv, SettlementInv, TypeOK, RunSound, PaymentSound,
              OursAlone, ReturnedOnce, SettledIsNet
<1>3. FieldsTyped' /\ PaymentGrows
  BY <1>1, <1>2 DEF SettlementInv, TypeOK, Result, FieldsTyped, PaymentGrows
<1>. QED BY <1>1, <1>2, <1>3, RecordsNothing

LEMMA RefundsKeeps ==
  ASSUME SettlementInv, Refunds
  PROVE  SettlementInv'
<1>1. /\ UNCHANGED <<status, actual, attempt, others, faults>>
      /\ at = "refunding" /\ at' = "idle" /\ result' = "settled"
      /\ refunded' = refunded + Difference /\ returns' = returns + 1
      /\ Records(<<Entry("REFUNDED")>>)
  BY DEF Refunds, RefundLands, Ends
<1>2. Difference \in Nat /\ Difference > 0 /\ status = "captured" /\ returns = 0
  BY <1>1 DEF Difference, SettlementInv, TypeOK, RunSound
<1>3. MoneyInv'
  BY <1>1, <1>2 DEF MoneyInv, SettlementInv, TypeOK, RunSound, PaymentSound,
                    OursAlone, ReturnedOnce, SettledIsNet, Difference
<1>4. /\ Entry("REFUNDED") \in TrailEntry /\ Entry("REFUNDED").transition = "REFUNDED"
      /\ Entry("REFUNDED").amount = Difference
  BY EntryIsTyped DEF Transition, SettlementInv, TypeOK
<1>5. refunded' \in Nat /\ returns' \in Nat /\ refunded' >= refunded /\ refunded' >= Difference
  BY <1>1, <1>2 DEF SettlementInv, TypeOK
<1>6. Truthful(Entry("REFUNDED"))
  BY <1>4, <1>5 DEF Truthful
<1>7. FieldsTyped' /\ PaymentGrows
  BY <1>1, <1>3, <1>4, <1>5 DEF SettlementInv, TypeOK, Result, FieldsTyped, PaymentGrows
<1>. QED BY <1>1, <1>3, <1>6, <1>7, RecordsOne

LEMMA RefundFailsKeeps ==
  ASSUME SettlementInv, RefundFails
  PROVE  SettlementInv'
<1>1. /\ UNCHANGED <<status, actual, others>>
      /\ at = "refunding"
      /\ \/ refunded' = refunded /\ returns' = returns
         \/ refunded' = refunded + Difference /\ returns' = returns + 1
      /\ faults' \in 0 .. MaxFaults
  BY DEF RefundFails, RefundLands, Ends, Fault, payment, SettlementInv, TypeOK
<1>2. Difference \in Nat /\ Difference > 0 /\ status = "captured" /\ returns = 0
  BY <1>1 DEF Difference, SettlementInv, TypeOK, RunSound
<1>3. /\ refunded' \in Nat /\ returns' \in Nat /\ refunded' >= refunded
      /\ Difference' = Difference
  BY <1>1, <1>2 DEF SettlementInv, TypeOK, Difference
<1>4. /\ Entry("REFUND_ATTEMPT") \in TrailEntry /\ Entry("COMPENSATION") \in TrailEntry
      /\ Entry("REFUND_ATTEMPT").transition = "REFUND_ATTEMPT"
      /\ Entry("COMPENSATION").transition = "COMPENSATION"
  BY EntryIsTyped DEF Transition, SettlementInv, TypeOK
<1>5. Truthful(Entry("REFUND_ATTEMPT")) /\ Truthful(Entry("COMPENSATION"))
  BY <1>4 DEF Truthful
<1>6. CASE attempt < RefundAttempts
  <2>1. /\ at' = "rereading" /\ attempt' = attempt + 1 /\ result' = result
        /\ Records(<<Entry("REFUND_ATTEMPT")>>)
    BY <1>6 DEF RefundFails
  <2>2. MoneyInv'
    BY <1>1, <1>2, <1>3, <2>1 DEF MoneyInv, SettlementInv, TypeOK, RunSound, PaymentSound,
         OursAlone, ReturnedOnce, SettledIsNet
  <2>3. attempt' \in 1 .. RefundAttempts
    BY <1>6, <2>1 DEF SettlementInv, TypeOK
  <2>4. FieldsTyped' /\ PaymentGrows
    BY <1>1, <1>3, <1>4, <2>1, <2>2, <2>3 DEF SettlementInv, TypeOK, FieldsTyped, PaymentGrows
  <2>. QED BY <1>5, <2>1, <2>2, <2>4, RecordsOne
<1>7. CASE ~(attempt < RefundAttempts)
  <2>1. /\ at' = "idle" /\ attempt' = attempt /\ result' = "owed"
        /\ Records(<<Entry("REFUND_ATTEMPT"), Entry("COMPENSATION")>>)
    BY <1>7 DEF RefundFails, Ends
  <2>2. MoneyInv'
    BY <1>1, <1>2, <1>3, <2>1 DEF MoneyInv, SettlementInv, TypeOK, RunSound, PaymentSound,
         OursAlone, ReturnedOnce, SettledIsNet
  <2>3. FieldsTyped' /\ PaymentGrows
    BY <1>1, <1>3, <1>4, <2>1, <2>2 DEF SettlementInv, TypeOK, Result, FieldsTyped, PaymentGrows
  <2>. QED BY <1>5, <2>1, <2>2, <2>3, RecordsTwo
<1>. QED BY <1>6, <1>7

LEMMA RereadsKeeps ==
  ASSUME SettlementInv, Rereads
  PROVE  SettlementInv'
<1>1. /\ UNCHANGED <<status, refunded, returns, actual, attempt, others, faults>>
      /\ at = "rereading"
  BY DEF Rereads, Goes, Ends, payment
<1>2. /\ Entry("REFUNDED") \in TrailEntry /\ Entry("COMPENSATION") \in TrailEntry
      /\ Entry("REFUNDED").transition = "REFUNDED" /\ Entry("REFUNDED").amount = Difference
      /\ Entry("COMPENSATION").transition = "COMPENSATION"
  BY EntryIsTyped DEF Transition, SettlementInv, TypeOK
<1>3. CASE refunded = Difference /\ Ends("settled") /\ Records(<<Entry("REFUNDED")>>)
  <2>1. MoneyInv'
    BY <1>1, <1>3 DEF Ends, MoneyInv, SettlementInv, TypeOK, RunSound, PaymentSound,
                      OursAlone, ReturnedOnce, SettledIsNet, Difference
  <2>2. Truthful(Entry("REFUNDED"))
    BY <1>1, <1>2, <1>3 DEF SettlementInv, TypeOK, Truthful
  <2>3. FieldsTyped' /\ PaymentGrows
    BY <1>1, <1>3, <2>1, <2>2 DEF Ends, SettlementInv, TypeOK, Result, FieldsTyped, PaymentGrows
  <2>. QED BY <1>3, <2>1, <2>2, <2>3, RecordsOne
<1>4. CASE refunded = 0 /\ Difference # 0 /\ Goes("refunding") /\ UNCHANGED trail
  <2>1. MoneyInv'
    BY <1>1, <1>4 DEF Goes, MoneyInv, SettlementInv, TypeOK, RunSound, PaymentSound,
                      OursAlone, ReturnedOnce, SettledIsNet
  <2>2. FieldsTyped' /\ PaymentGrows
    BY <1>1, <1>4, <2>1 DEF Goes, SettlementInv, TypeOK, FieldsTyped, PaymentGrows
  <2>. QED BY <1>4, <2>1, <2>2, RecordsNothing
<1>5. CASE /\ refunded \notin {0, Difference}
           /\ Ends("mismatch") /\ Records(<<Entry("COMPENSATION")>>)
  <2>1. MoneyInv'
    BY <1>1, <1>5 DEF Ends, MoneyInv, SettlementInv, TypeOK, RunSound, PaymentSound,
                      OursAlone, ReturnedOnce, SettledIsNet
  <2>2. Truthful(Entry("COMPENSATION"))
    BY <1>1, <1>2, <1>5 DEF SettlementInv, TypeOK, Truthful
  <2>3. FieldsTyped' /\ PaymentGrows
    BY <1>1, <1>5, <2>1, <2>2 DEF Ends, SettlementInv, TypeOK, Result, FieldsTyped, PaymentGrows
  <2>. QED BY <1>5, <2>1, <2>2, <2>3, RecordsOne
<1>. QED BY <1>3, <1>4, <1>5 DEF Rereads

LEMMA RunDiesKeeps ==
  ASSUME SettlementInv, RunDies
  PROVE  SettlementInv'
<1>1. /\ UNCHANGED <<actual, attempt, others>>
      /\ at # "idle" /\ at' = "idle" /\ trail' = <<>> /\ result' = "none"
      /\ faults' \in 0 .. MaxFaults
  BY DEF RunDies, Fault, SettlementInv, TypeOK
<1>2. CASE UNCHANGED payment \/ (at = "capturing" /\ CaptureLands)
  <2>1. /\ UNCHANGED <<refunded, returns>>
        /\ status' = status \/ status' = "captured"
    BY <1>2 DEF payment, CaptureLands
  <2>2. MoneyInv'
    BY <1>1, <2>1 DEF MoneyInv, SettlementInv, TypeOK, RunSound, PaymentSound,
                      OursAlone, ReturnedOnce, SettledIsNet
  <2>3. FieldsTyped' /\ PaymentGrows
    BY <1>1, <2>1, <2>2 DEF SettlementInv, TypeOK, Result, FieldsTyped, PaymentGrows
  <2>. QED BY <1>1, <2>2, <2>3, RecordsNothing
<1>3. CASE at = "refunding" /\ RefundLands
  <2>1. /\ UNCHANGED status /\ returns = 0
        /\ refunded' = refunded + Difference /\ returns' = returns + 1
        /\ Difference \in Nat /\ Difference > 0 /\ status = "captured"
    BY <1>3 DEF RefundLands, Difference, SettlementInv, TypeOK, RunSound
  <2>2. MoneyInv'
    BY <1>1, <2>1 DEF MoneyInv, SettlementInv, TypeOK, RunSound, PaymentSound,
                      OursAlone, ReturnedOnce, SettledIsNet
  <2>3. refunded' \in Nat /\ returns' \in Nat /\ refunded' >= refunded
    BY <2>1 DEF SettlementInv, TypeOK
  <2>4. FieldsTyped' /\ PaymentGrows
    BY <1>1, <2>1, <2>2, <2>3 DEF SettlementInv, TypeOK, Result, FieldsTyped, PaymentGrows
  <2>. QED BY <1>1, <2>2, <2>4, RecordsNothing
<1>4. UNCHANGED payment \/ (at = "capturing" /\ CaptureLands) \/ (at = "refunding" /\ RefundLands)
  BY DEF RunDies
<1>. QED BY <1>2, <1>3, <1>4

LEMMA LapsesKeeps ==
  ASSUME SettlementInv, Lapses
  PROVE  SettlementInv'
<1>1. MoneyInv'
  BY DEF Lapses, run, MoneyInv, SettlementInv, TypeOK, RunSound, PaymentSound,
         OursAlone, ReturnedOnce, SettledIsNet, Difference
<1>2. FieldsTyped' /\ PaymentGrows
  BY <1>1 DEF Lapses, run, SettlementInv, TypeOK, FieldsTyped, PaymentGrows
<1>. QED BY <1>1, <1>2, RecordsNothing DEF Lapses, run

LEMMA OthersRefundKeeps ==
  ASSUME SettlementInv, NEW amount \in OthersAmounts, OthersRefund(amount)
  PROVE  SettlementInv'
<1>1. /\ UNCHANGED <<status, returns, at, actual, attempt, trail, result, faults>>
      /\ status = "captured" /\ amount \in Nat /\ amount > 0
      /\ refunded' = refunded + amount
      /\ others' = others + 1 /\ others' \in 0 .. MaxOthers /\ others' # 0
  BY DEF OthersRefund, run, SettlementInv, TypeOK
<1>2. refunded' \in Nat /\ refunded' >= refunded /\ refunded' > 0
  BY <1>1 DEF SettlementInv, TypeOK
<1>3. MoneyInv'
  BY <1>1, <1>2 DEF MoneyInv, SettlementInv, TypeOK, RunSound, PaymentSound,
                    OursAlone, ReturnedOnce, SettledIsNet
<1>4. FieldsTyped' /\ PaymentGrows
  BY <1>1, <1>2, <1>3 DEF SettlementInv, TypeOK, FieldsTyped, PaymentGrows
<1>. QED BY <1>1, <1>3, <1>4, RecordsNothing

LEMMA InvNext == SettlementInv /\ [Next]_vars => SettlementInv'
<1>1. SUFFICES ASSUME SettlementInv, [Next]_vars PROVE SettlementInv'
  OBVIOUS
<1>2. CASE Starts
  BY <1>1, <1>2, BeginKeeps DEF Starts
<1>3. CASE Step
  BY <1>1, <1>3, DeclinesKeeps, TakesUpKeeps, CapturesKeeps, CaptureFailsKeeps,
     RefundsKeeps, RefundFailsKeeps, RereadsKeeps DEF Step
<1>4. CASE RunDies
  BY <1>1, <1>4, RunDiesKeeps
<1>5. CASE Lapses
  BY <1>1, <1>5, LapsesKeeps
<1>6. CASE \E amount \in OthersAmounts : OthersRefund(amount)
  BY <1>1, <1>6, OthersRefundKeeps
<1>7. CASE UNCHANGED vars
  BY <1>1, <1>7 DEF vars, payment, run, SettlementInv, TypeOK, RunSound, PaymentSound,
     OursAlone, ReturnedOnce, SettledIsNet, TrailIsTrue, Difference
<1>. QED BY <1>1, <1>2, <1>3, <1>4, <1>5, <1>6, <1>7 DEF Next

(***************************************************************************)
(* The theorems.                                                           *)
(***************************************************************************)

\* The strengthening holds in every reachable state of settle_capture_refund's
\* runs on one payment.
THEOREM SettlementInductive == Spec => []SettlementInv
BY InvInit, InvNext, PTL DEF Spec

\* Amounts never go below zero, and the attempts never pass refund_attempts.
THEOREM SettlementTyped == Spec => []TypeOK
<1>1. SettlementInv => TypeOK
  BY DEF SettlementInv
<1>. QED BY <1>1, SettlementInductive, PTL

\* The rail makes at most one refund for settlements of a payment, however
\* often settle_capture_refund is run, retried, killed or run again.
THEOREM RefundedAtMostOnce == Spec => []ReturnedOnce
<1>1. SettlementInv => ReturnedOnce
  BY DEF SettlementInv
<1>. QED BY <1>1, SettlementInductive, PTL

\* A run that returns success leaves the merchant with the actual amount.
THEOREM SuccessIsNet == Spec => []SettledIsNet
<1>1. SettlementInv => SettledIsNet
  BY DEF SettlementInv
<1>. QED BY <1>1, SettlementInductive, PTL

\* The chain of a settlement claims no money the rail did not move.
THEOREM ChainClaimsTruth == Spec => []TrailIsTrue
<1>1. SettlementInv => TrailIsTrue
  BY DEF SettlementInv
<1>. QED BY <1>1, SettlementInductive, PTL

(***************************************************************************)
(* What the trail adds up to.                                              *)
(***************************************************************************)

\* Before the capture nothing, after it the ceiling, and once settled what it
\* was settled for, whatever others have refunded.
TrailAddsUp ==
  /\ at \in {"fetching", "capturing"} => NetFromChain = 0
  /\ at \in {"refunding", "rereading"} => NetFromChain = Ceiling
  /\ result = "settled" => NetFromChain = actual

\* The net of a trail, and of one with an entry more.
NetOf(t) == SumFunction([i \in DOMAIN t |-> Effect(t[i])])

LEMMA OneMoreEntry ==
  ASSUME NEW t \in Seq(TrailEntry), NEW e \in TrailEntry
  PROVE  /\ Append(t, e) \in Seq(TrailEntry)
         /\ NetOf(t) \in Int /\ Effect(e) \in Int
         /\ NetOf(Append(t, e)) = NetOf(t) + Effect(e)
<1> DEFINE u == Append(t, e)
           k == Len(t) + 1
           f == [i \in DOMAIN t |-> Effect(t[i])]
           h == [i \in DOMAIN u |-> Effect(u[i])]
<1>1. \A x \in TrailEntry : Effect(x) \in Int
  BY DEF TrailEntry, Effect
<1>2. /\ u \in Seq(TrailEntry) /\ DOMAIN t = 1 .. Len(t) /\ Len(t) \in Int /\ 1 \in Int
      /\ DOMAIN u = DOMAIN t \cup {k} /\ k \notin DOMAIN t
      /\ u[k] = e /\ \A i \in DOMAIN t : u[i] = t[i] /\ t[i] \in TrailEntry
  OBVIOUS
<1>3. IsFiniteSet(DOMAIN t)
  BY <1>2, FS_Interval
<1> HIDE DEF u, k
<1>4. /\ DOMAIN f = DOMAIN t /\ DOMAIN h = DOMAIN u
      /\ \A i \in DOMAIN f : f[i] \in Int /\ h[i] = f[i]
      /\ h[k] = Effect(e) /\ Effect(e) \in Int
  BY <1>1, <1>2
<1> HIDE DEF f, h
<1>5. /\ IsFiniteSet(DOMAIN f) /\ k \notin DOMAIN f /\ DOMAIN h = DOMAIN f \cup {k}
      /\ \A i \in DOMAIN f : h[i] = f[i]
      /\ \A i \in DOMAIN h : h[i] \in Int
  BY <1>2, <1>3, <1>4
<1>6. SumFunction(h) = SumFunction(f) + h[k]
  BY <1>5, SumAdd
<1>7. SumFunction(f) \in Int
  BY <1>4, <1>5, SumType
<1>8. NetOf(t) = SumFunction(f) /\ NetOf(u) = SumFunction(h)
  BY DEF NetOf, f, h
<1>. QED BY <1>2, <1>4, <1>6, <1>7, <1>8 DEF u

LEMMA NetOfOne ==
  ASSUME trail \in Seq(TrailEntry), NEW e \in TrailEntry, Records(<<e>>)
  PROVE  NetFromChain' = NetFromChain + Effect(e) /\ NetFromChain \in Int
<1>1. trail' = Append(trail, e)
  BY DEF Records
<1>2. NetFromChain = NetOf(trail) /\ NetFromChain' = NetOf(trail')
  BY DEF NetFromChain, NetOf
<1>. QED BY <1>1, <1>2, OneMoreEntry

LEMMA NetOfTwo ==
  ASSUME trail \in Seq(TrailEntry), NEW e \in TrailEntry, NEW f \in TrailEntry,
         Records(<<e, f>>)
  PROVE  NetFromChain' = NetFromChain + Effect(e) + Effect(f) /\ NetFromChain \in Int
<1>1. trail' = Append(Append(trail, e), f)
  BY DEF Records
<1>2. NetFromChain = NetOf(trail) /\ NetFromChain' = NetOf(trail')
  BY DEF NetFromChain, NetOf
<1>. QED BY <1>1, <1>2, OneMoreEntry

LEMMA NetOfNone ==
  ASSUME trail' = <<>>
  PROVE  NetFromChain' = 0
<1> DEFINE f == [i \in DOMAIN <<>> |-> Effect(<<>>[i])]
<1>1. DOMAIN f = {}
  OBVIOUS
<1>2. NetFromChain' = SumFunction(f)
  BY DEF NetFromChain
<1> HIDE DEF f
<1>. QED BY <1>1, <1>2, SumEmpty

\* What each kind of entry counts for.
LEMMA Effects ==
  ASSUME actual \in Actuals
  PROVE  /\ \A tr \in Transition : Entry(tr) \in TrailEntry
         /\ Effect(Entry("AUTHORIZED")) = 0 /\ Effect(Entry("CAPTURED")) = Ceiling
         /\ Effect(Entry("REFUND_ATTEMPT")) = 0 /\ Effect(Entry("COMPENSATION")) = 0
         /\ Effect(Entry("REFUNDED")) = actual - Ceiling
BY DEF Entry, Effect, Transition, TrailEntry, Difference

LEMMA StepAddsUp ==
  ASSUME SettlementInv, TrailAddsUp, Step
  PROVE  TrailAddsUp'
<1>1. /\ trail \in Seq(TrailEntry) /\ actual \in Actuals /\ actual \in Nat
      /\ at # "idle" => result = "none"
      /\ Difference = Ceiling - actual
  BY DEF SettlementInv, TypeOK, TrailEntry, RunSound, Difference
<1>2. /\ \A tr \in Transition : Entry(tr) \in TrailEntry
      /\ Effect(Entry("AUTHORIZED")) = 0 /\ Effect(Entry("CAPTURED")) = Ceiling
      /\ Effect(Entry("REFUND_ATTEMPT")) = 0 /\ Effect(Entry("COMPENSATION")) = 0
      /\ Effect(Entry("REFUNDED")) = actual - Ceiling
  BY <1>1, Effects
<1>3. CASE Declines
  <2>1. trail' = trail /\ at' = "idle" /\ result' \in {"refused", "already_settled"}
    BY <1>3 DEF Declines, Ends, Gate
  <2>. QED BY <2>1 DEF TrailAddsUp
<1>4. CASE TakesUp
  <2>1. at = "fetching" /\ actual' = actual /\ NetFromChain = 0 /\ result = "none"
        /\ actual <= Ceiling
    BY <1>1, <1>4 DEF TakesUp, Goes, Ends, AfterCapture, TrailAddsUp, Gate
  <2>2. CASE status = "authorized"
    <3>1. /\ at' = "capturing" /\ result' = result /\ Records(<<Entry("AUTHORIZED")>>)
      BY <1>4, <2>2 DEF TakesUp, Goes
    <3>2. NetFromChain' = 0
      BY <1>1, <1>2, <2>1, <3>1, NetOfOne DEF Transition
    <3>. QED BY <2>1, <3>1, <3>2 DEF TrailAddsUp
  <2>3. CASE status # "authorized"
    <3>1. AfterCapture /\ Records(<<Entry("AUTHORIZED"), Entry("CAPTURED")>>)
      BY <1>4, <2>3 DEF TakesUp
    <3>2. NetFromChain' = Ceiling
      BY <1>1, <1>2, <2>1, <3>1, NetOfTwo DEF Transition
    <3>3. \/ at' = "refunding" /\ result' = result
          \/ at' = "idle" /\ result' = "settled" /\ Ceiling = actual
      BY <1>1, <2>1, <3>1 DEF AfterCapture, Goes, Ends
    <3>. QED BY <2>1, <3>2, <3>3 DEF TrailAddsUp
  <2>. QED BY <2>2, <2>3
<1>5. CASE Captures
  <2>1. /\ at = "capturing" /\ actual' = actual /\ NetFromChain = 0 /\ result = "none"
        /\ AfterCapture /\ Records(<<Entry("CAPTURED")>>) /\ actual <= Ceiling
    BY <1>1, <1>5 DEF Captures, Goes, Ends, AfterCapture, TrailAddsUp, SettlementInv, RunSound
  <2>2. NetFromChain' = Ceiling
    BY <1>1, <1>2, <2>1, NetOfOne DEF Transition
  <2>3. \/ at' = "refunding" /\ result' = result
        \/ at' = "idle" /\ result' = "settled" /\ Ceiling = actual
    BY <1>1, <2>1 DEF AfterCapture, Goes, Ends
  <2>. QED BY <2>1, <2>2, <2>3 DEF TrailAddsUp
<1>6. CASE CaptureFails
  <2>1. trail' = trail /\ at' = "idle" /\ result' = "capture_failed"
    BY <1>6 DEF CaptureFails, Ends
  <2>. QED BY <2>1 DEF TrailAddsUp
<1>7. CASE Refunds
  <2>1. /\ at = "refunding" /\ at' = "idle" /\ actual' = actual /\ NetFromChain = Ceiling
        /\ Records(<<Entry("REFUNDED")>>)
    BY <1>7 DEF Refunds, Ends, TrailAddsUp
  <2>2. NetFromChain' = Ceiling + (actual - Ceiling)
    BY <1>1, <1>2, <2>1, NetOfOne DEF Transition
  <2>. QED BY <1>1, <2>1, <2>2 DEF TrailAddsUp
<1>8. CASE RefundFails
  <2>1. /\ at = "refunding" /\ actual' = actual /\ NetFromChain = Ceiling /\ result = "none"
    BY <1>1, <1>8 DEF RefundFails, Ends, TrailAddsUp
  <2>2. CASE attempt < RefundAttempts
    <3>1. at' = "rereading" /\ result' = result /\ Records(<<Entry("REFUND_ATTEMPT")>>)
      BY <1>8, <2>2 DEF RefundFails
    <3>2. NetFromChain' = Ceiling
      BY <1>1, <1>2, <2>1, <3>1, NetOfOne DEF Transition
    <3>. QED BY <2>1, <3>1, <3>2 DEF TrailAddsUp
  <2>3. CASE ~(attempt < RefundAttempts)
    <3>1. at' = "idle" /\ result' = "owed"
      BY <1>8, <2>3 DEF RefundFails, Ends
    <3>. QED BY <3>1 DEF TrailAddsUp
  <2>. QED BY <2>2, <2>3
<1>9. CASE Rereads
  <2>1. at = "rereading" /\ actual' = actual /\ NetFromChain = Ceiling /\ result = "none"
    BY <1>1, <1>9 DEF Rereads, Goes, Ends, TrailAddsUp
  <2>2. CASE Ends("settled") /\ Records(<<Entry("REFUNDED")>>)
    <3>1. NetFromChain' = Ceiling + (actual - Ceiling)
      BY <1>1, <1>2, <2>1, <2>2, NetOfOne DEF Transition
    <3>. QED BY <1>1, <2>1, <2>2, <3>1 DEF Ends, TrailAddsUp
  <2>3. CASE Goes("refunding") /\ UNCHANGED trail
    <3>1. NetFromChain' = NetFromChain
      BY <2>3 DEF NetFromChain
    <3>. QED BY <2>1, <2>3, <3>1 DEF Goes, TrailAddsUp
  <2>4. CASE Ends("mismatch")
    BY <2>4 DEF Ends, TrailAddsUp
  <2>. QED BY <1>9, <2>2, <2>3, <2>4 DEF Rereads
<1>. QED BY <1>3, <1>4, <1>5, <1>6, <1>7, <1>8, <1>9 DEF Step

LEMMA AlwaysAddsUp ==
  ASSUME SettlementInv, TrailAddsUp, [Next]_vars
  PROVE  TrailAddsUp'
<1>1. CASE Step
  BY <1>1, StepAddsUp
<1>2. CASE Starts \/ RunDies
  <2>1. /\ trail' = <<>> /\ at' \in {"idle", "fetching"} /\ result' = "none"
    BY <1>2 DEF Starts, Begin, RunDies
  <2>. QED BY <2>1, NetOfNone DEF TrailAddsUp
<1>3. CASE Lapses \/ (\E amount \in OthersAmounts : OthersRefund(amount)) \/ UNCHANGED vars
  <2>1. UNCHANGED run
    BY <1>3 DEF Lapses, OthersRefund, vars
  <2>. QED BY <2>1 DEF run, TrailAddsUp, NetFromChain
<1>. QED BY <1>1, <1>2, <1>3 DEF Next

\* The chain of a run that settled reconciles with the rail, through retries,
\* lost answers and earlier runs that died (rails/reconcile.py).
THEOREM SettledAgrees == Spec => []SettledReconciles
<1>1. Init => TrailAddsUp
  BY DEF Init, TrailAddsUp
<1>2. SettlementInv /\ TrailAddsUp /\ [Next]_vars => TrailAddsUp'
  BY AlwaysAddsUp
<1>3. SettlementInv /\ TrailAddsUp => SettledReconciles
  <2>1. SUFFICES ASSUME SettlementInv, TrailAddsUp, others = 0, result = "settled"
                 PROVE  Drift = 0
    BY DEF SettledReconciles
  <2>2. status = "captured" /\ refunded = Ceiling - actual /\ actual \in Nat
    BY <2>1 DEF SettlementInv, SettledIsNet, TypeOK
  <2>3. NetFromChain = actual
    BY <2>1 DEF TrailAddsUp
  <2>. QED BY <2>2, <2>3 DEF Drift, RailNet
<1>. QED BY <1>1, <1>2, <1>3, SettlementInductive, PTL DEF Spec

=============================================================================
