----------------------- MODULE ObligationSweepProofs -----------------------
(***************************************************************************)
(* Whatever the rail, the deadlines, the amounts and the number of calls:  *)
(* a sweep writes each passed deadline once and forgets none of a hold     *)
(* that is not met, signs as overdue only what the rail holds, and never   *)
(* calls the rail's deadline passed too early; and a hold that was met is  *)
(* not reopened.                                                           *)
(***************************************************************************)
EXTENDS ObligationSweep, SumProofs

(***************************************************************************)
(* Least and greatest elements, and the deadlines a rail states.           *)
(***************************************************************************)
LEMMA MinIsLeast ==
  ASSUME NEW S \in SUBSET Nat, S # {}
  PROVE  Min(S) \in S /\ \A y \in S : Min(S) <= y
BY NatHasLeast DEF Min

LEMMA MinIs ==
  ASSUME NEW S \in SUBSET Nat, NEW x \in S, \A y \in S : x <= y
  PROVE  Min(S) = x
<1> DEFINE m == Min(S)
<1>1. m \in S /\ m <= x
  BY MinIsLeast
<1> HIDE DEF m
<1>2. x <= m /\ x \in Nat /\ m \in Nat
  BY <1>1
<1>3. m = x
  BY <1>1, <1>2
<1>. QED BY <1>3 DEF m

\* A rail states one hold life, or none.
LEMMA LimitsOfRail ==
  ASSUME NEW capabilities, NEW limits
  PROVE  Rail(capabilities, limits).limits = limits
BY DEF Rail

Limited(rail) == \A name \in DOMAIN rail.limits : rail.limits[name] \in Nat

LEMMA RailsAreLimited ==
  /\ Limited(SBMD) /\ Limited(RAZORPAY_AUTH_CAPTURE) /\ Limited(UPI_OTM)
  /\ Limited(CASHFREE_PREAUTH) /\ Limited(SETU_UMAP) /\ Limited(VISA_CARD_AUTH)
  /\ Limited(STRIPE_CARD_MANUAL_CAPTURE) /\ Limited(ADYEN_CARD_AUTH)
  /\ Limited(X402) /\ Limited(X402_EXACT) /\ Limited(X402_UPTO_EVM)
  /\ Limited(X402_UPTO_SVM) /\ Limited(X402_AUTH_CAPTURE) /\ Limited(X402_BATCH_SETTLEMENT)
<1> DEFINE Numbers(limits) == \A name \in DOMAIN limits : limits[name] \in Nat
<1>1. /\ SBMD.limits = SbmdLimits /\ CASHFREE_PREAUTH.limits = CashfreeLimits
      /\ VISA_CARD_AUTH.limits = VisaLimits
      /\ STRIPE_CARD_MANUAL_CAPTURE.limits = StripeLimits
      /\ ADYEN_CARD_AUTH.limits = AdyenLimits
  BY LimitsOfRail
     DEF SBMD, CASHFREE_PREAUTH, VISA_CARD_AUTH, STRIPE_CARD_MANUAL_CAPTURE, ADYEN_CARD_AUTH
<1>2. /\ UPI_OTM.limits = NoLimits /\ SETU_UMAP.limits = NoLimits
      /\ X402.limits = NoLimits /\ X402_EXACT.limits = NoLimits
  BY LimitsOfRail DEF UPI_OTM, SETU_UMAP, X402, X402_EXACT
<1>3. /\ X402_UPTO_EVM.limits = NoLimits /\ X402_UPTO_SVM.limits = NoLimits
      /\ X402_AUTH_CAPTURE.limits = NoLimits
  BY LimitsOfRail DEF X402_UPTO_EVM, X402_UPTO_SVM, X402_AUTH_CAPTURE
<1>4. /\ RAZORPAY_AUTH_CAPTURE.limits
           = [hold_expiry_days |-> 3, auto_refund_speed_working_days_max |-> 7]
      /\ X402_BATCH_SETTLEMENT.limits = [withdraw_delay_max_days |-> 30]
  BY LimitsOfRail DEF RAZORPAY_AUTH_CAPTURE, X402_BATCH_SETTLEMENT
<1>5. Numbers(NoLimits) /\ Numbers(SbmdLimits) /\ Numbers(CashfreeLimits)
  BY DEF NoLimits, SbmdLimits, CashfreeLimits
<1>6. Numbers(VisaLimits)
  BY DEF VisaLimits
<1>7. Numbers(StripeLimits) /\ Numbers(AdyenLimits)
  BY DEF StripeLimits, AdyenLimits
<1>8. /\ Limited(SBMD) /\ Limited(CASHFREE_PREAUTH) /\ Limited(VISA_CARD_AUTH)
      /\ Limited(STRIPE_CARD_MANUAL_CAPTURE) /\ Limited(ADYEN_CARD_AUTH)
  BY <1>1, <1>5, <1>6, <1>7, Zenon DEF Limited
<1>9. /\ Limited(UPI_OTM) /\ Limited(SETU_UMAP) /\ Limited(X402) /\ Limited(X402_EXACT)
      /\ Limited(X402_UPTO_EVM) /\ Limited(X402_UPTO_SVM) /\ Limited(X402_AUTH_CAPTURE)
  BY <1>2, <1>3, <1>5, Zenon DEF Limited
<1>10. Limited(RAZORPAY_AUTH_CAPTURE) /\ Limited(X402_BATCH_SETTLEMENT)
  BY <1>4 DEF Limited
<1>. QED BY <1>8, <1>9, <1>10

LEMMA LifeIsOptional ==
  ASSUME NEW id
  PROVE  Life(RowOf(id)) \in Optional
<1> DEFINE rail == RowOf(id)
<1>1. Limited(rail)
  <2>1. CASE id \notin DOMAIN Rails
    BY <2>1, LimitsOfRail DEF RowOf, Limited, NoLimits
  <2>2. CASE id \in DOMAIN Rails
    BY <2>2, RailsAreLimited DEF RowOf, Rails
  <2>. QED BY <2>1, <2>2
<1> HIDE DEF rail
<1>2. \A name \in DOMAIN rail.limits : rail.limits[name] \in Nat
  BY <1>1 DEF Limited
<1>3. Life(rail) \in Optional
  BY <1>2 DEF Life, Optional
<1>. QED BY <1>3 DEF rail

CallMade ==
  [kind: {"rail_transition"}, action: {"reserve", "debit", "release"},
   outcome: {"applied", "rail_rejected"}, block: Nat, amount: Nat, at: Nat, ends: Optional]
Noticed ==
  [kind: {"obligation"}, rule: {"obligation_overdue", "obligation_unresolved"},
   clock: Clock, block: Nat, remainder: Nat, at: Nat]
Line == CallMade \cup Noticed

(***************************************************************************)
(* What one more line of a chain changes in a hold.                        *)
(***************************************************************************)
Since(lines, action, b) ==
  {i \in Applied(lines, action, b) : i > Placing(lines, b)}

Total(lines, action, b) ==
  SumFunction([i \in Since(lines, action, b) |-> lines[i].amount])

\* A call the rail applied counts for its block.
CountsFor(e, action, b) ==
  /\ e.kind = "rail_transition" /\ e.action = action
  /\ e.block = b /\ e.outcome = "applied"

LEMMA HoldPlace ==
  ASSUME NEW lines, NEW b
  PROVE  /\ Hold(lines, b).block = b
         /\ Hold(lines, b).placed_at = lines[Placing(lines, b)].at
         /\ Hold(lines, b).held = lines[Placing(lines, b)].amount
         /\ Hold(lines, b).ends_at = lines[Placing(lines, b)].ends
BY Zenon DEF Hold

LEMMA HoldTotals ==
  ASSUME NEW lines, NEW b
  PROVE  /\ Hold(lines, b).debited = Total(lines, "debit", b)
         /\ Hold(lines, b).released = Total(lines, "release", b)
BY Zenon DEF Hold, Total, Since

LEMMA HoldTouched ==
  ASSUME NEW lines, NEW b
  PROVE  Hold(lines, b).last_debit_at
           = IF Since(lines, "debit", b) = {} THEN {}
             ELSE {lines[Max(Since(lines, "debit", b))].at}
BY Zenon DEF Hold, Since

LEMMA HoldFlags ==
  ASSUME NEW lines, NEW b
  PROVE  /\ Hold(lines, b).revoked = (Since(lines, "revoke", b) # {})
         /\ Hold(lines, b).restated
              = (\E i \in Since(lines, "reserve", b) :
                   lines[i].amount # lines[Placing(lines, b)].amount)
BY Zenon DEF Hold, Since

LEMMA PlacedFirst ==
  ASSUME NEW lines \in Seq(Line), NEW b \in HeldBlocks(lines)
  PROVE  /\ Placing(lines, b) \in Applied(lines, "reserve", b)
         /\ \A i \in Applied(lines, "reserve", b) : Placing(lines, b) <= i
<1>1. Applied(lines, "reserve", b) \in SUBSET Nat /\ Applied(lines, "reserve", b) # {}
  BY DEF Applied, HeldBlocks
<1>. QED BY <1>1, MinIsLeast DEF Placing

LEMMA SinceIsFinite ==
  ASSUME NEW lines \in Seq(Line), NEW b, NEW action
  PROVE  /\ IsFiniteSet(Since(lines, action, b))
         /\ Since(lines, action, b) \subseteq Applied(lines, action, b)
         /\ Applied(lines, action, b) \subseteq 1 .. Len(lines)
         /\ Since(lines, action, b) # {} => Max(Since(lines, action, b)) \in Since(lines, action, b)
<1>1. Since(lines, action, b) \subseteq Applied(lines, action, b)
  BY DEF Since
<1>2. Applied(lines, action, b) \subseteq 1 .. Len(lines)
  BY DEF Applied
<1>3. IsFiniteSet(1 .. Len(lines))
  BY FS_Interval
<1>4. Since(lines, action, b) # {} => Max(Since(lines, action, b)) \in Since(lines, action, b)
  <2>1. Since(lines, action, b) \in SUBSET (1 .. Len(lines)) /\ Len(lines) \in Nat
    BY <1>1, <1>2
  <2>. QED BY <2>1, MaxIsIn
<1>5. Since(lines, action, b) \subseteq 1 .. Len(lines)
  BY <1>1, <1>2
<1>6. IsFiniteSet(Since(lines, action, b))
  BY <1>3, <1>5, FS_Subset
<1>. QED BY <1>1, <1>2, <1>4, <1>6

\* Two holds are one when they read alike.
LEMMA HoldsAlike ==
  ASSUME NEW lines \in Seq(Line), NEW more, NEW b,
         lines[Placing(lines, b)] = more[Placing(more, b)],
         \A action : Since(lines, action, b) = Since(more, action, b),
         \A action : \A i \in Since(lines, action, b) : lines[i] = more[i]
  PROVE  Hold(lines, b) = Hold(more, b)
<1> DEFINE S(action) == Since(lines, action, b)
<1>1. \A action : [i \in S(action) |-> lines[i].amount]
                    = [i \in Since(more, action, b) |-> more[i].amount]
  OBVIOUS
<1>2. Total(lines, "debit", b) = Total(more, "debit", b)
      /\ Total(lines, "release", b) = Total(more, "release", b)
  BY <1>1, Zenon DEF Total
<1>3. S("debit") # {} => lines[Max(S("debit"))].at = more[Max(S("debit"))].at
  BY SinceIsFinite
<1>4. (\E i \in S("reserve") : lines[i].amount # lines[Placing(lines, b)].amount)
       = (\E i \in S("reserve") : more[i].amount # more[Placing(more, b)].amount)
  OBVIOUS
<1> DEFINE R(chn) ==
      [block |-> b, placed_at |-> chn[Placing(chn, b)].at, held |-> chn[Placing(chn, b)].amount,
       debited |-> Total(chn, "debit", b), released |-> Total(chn, "release", b),
       last_debit_at |-> IF Since(chn, "debit", b) = {} THEN {}
                         ELSE {chn[Max(Since(chn, "debit", b))].at},
       revoked |-> Since(chn, "revoke", b) # {},
       restated |-> \E i \in Since(chn, "reserve", b) :
                      chn[i].amount # chn[Placing(chn, b)].amount,
       ends_at |-> chn[Placing(chn, b)].ends]
<1>5. Hold(lines, b) = R(lines) /\ Hold(more, b) = R(more)
  BY Zenon DEF Hold, Total, Since
<1>6. R(lines) = R(more)
  BY <1>2, <1>3, <1>4
<1>. QED BY <1>5, <1>6

LEMMA AppliedGrows ==
  ASSUME NEW lines \in Seq(Line), NEW e \in Line, NEW action, NEW b
  PROVE  Applied(Append(lines, e), action, b)
           = Applied(lines, action, b)
               \cup (IF CountsFor(e, action, b) THEN {Len(lines) + 1} ELSE {})
BY DEF Applied, CountsFor

LEMMA HeldBlocksGrow ==
  ASSUME NEW lines \in Seq(Line), NEW e \in Line
  PROVE  HeldBlocks(Append(lines, e))
           = HeldBlocks(lines) \cup
             (IF e.kind = "rail_transition" /\ e.action = "reserve" /\ e.outcome = "applied"
                THEN {e.block} ELSE {})
<1> DEFINE more == Append(lines, e)
<1>1. /\ DOMAIN more = DOMAIN lines \cup {Len(lines) + 1}
      /\ \A i \in DOMAIN lines : more[i] = lines[i]
      /\ more[Len(lines) + 1] = e
  OBVIOUS
<1> HIDE DEF more
<1>. QED BY <1>1 DEF HeldBlocks, more

\* A hold is placed once: a later line leaves its placing alone.
LEMMA PlacingStays ==
  ASSUME NEW lines \in Seq(Line), NEW e \in Line, NEW b \in HeldBlocks(lines)
  PROVE  /\ Placing(Append(lines, e), b) = Placing(lines, b)
         /\ Append(lines, e)[Placing(lines, b)] = lines[Placing(lines, b)]
<1> DEFINE placed == Placing(lines, b)
<1>1. /\ placed \in Applied(lines, "reserve", b)
      /\ \A i \in Applied(lines, "reserve", b) : placed <= i
      /\ Applied(lines, "reserve", b) \subseteq 1 .. Len(lines)
  BY PlacedFirst, SinceIsFinite
<1> HIDE DEF placed
<1>2. /\ placed \in Applied(Append(lines, e), "reserve", b)
      /\ \A i \in Applied(Append(lines, e), "reserve", b) : placed <= i
      /\ Applied(Append(lines, e), "reserve", b) \in SUBSET Nat
  BY <1>1, AppliedGrows
<1>3. Min(Applied(Append(lines, e), "reserve", b)) = placed
  BY <1>2, MinIs
<1>. QED BY <1>1, <1>3 DEF placed, Placing

LEMMA SinceGrows ==
  ASSUME NEW lines \in Seq(Line), NEW e \in Line, NEW action, NEW b \in HeldBlocks(lines)
  PROVE  Since(Append(lines, e), action, b)
           = Since(lines, action, b)
               \cup (IF CountsFor(e, action, b) THEN {Len(lines) + 1} ELSE {})
<1>1. Placing(lines, b) \in 1 .. Len(lines)
  BY PlacedFirst, SinceIsFinite
<1>2. Applied(lines, action, b) \subseteq 1 .. Len(lines)
  BY SinceIsFinite
<1>3. Placing(Append(lines, e), b) = Placing(lines, b)
  BY PlacingStays
<1>. QED BY <1>1, <1>2, <1>3, AppliedGrows DEF Since

LEMMA SinceKeeps ==
  ASSUME NEW lines \in Seq(Line), NEW e, NEW action, NEW b, NEW i \in Since(lines, action, b)
  PROVE  Append(lines, e)[i] = lines[i] /\ i \in 1 .. Len(lines)
<1>1. i \in 1 .. Len(lines)
  BY SinceIsFinite
<1>. QED BY <1>1

LEMMA CallsAreMade ==
  ASSUME NEW lines \in Seq(Line), NEW action, NEW b, NEW i \in Applied(lines, action, b)
  PROVE  lines[i] \in CallMade
<1>1. lines[i] \in Line /\ lines[i].kind = "rail_transition"
  BY DEF Applied
<1>. QED BY <1>1 DEF Line, Noticed

LEMMA TotalIsNat ==
  ASSUME NEW lines \in Seq(Line), NEW action, NEW b
  PROVE  Total(lines, action, b) \in Nat
<1> DEFINE f == [i \in Since(lines, action, b) |-> lines[i].amount]
<1>1. \A i \in Since(lines, action, b) : lines[i].amount \in Nat
  BY CallsAreMade DEF Since, CallMade
<1>2. DOMAIN f = Since(lines, action, b) /\ \A i \in DOMAIN f : f[i] \in Nat
  BY <1>1
<1>3. IsFiniteSet(DOMAIN f)
  BY <1>2, SinceIsFinite
<1> HIDE DEF f
<1>4. SumFunction(f) \in Nat
  BY <1>2, <1>3, SumNat
<1>. QED BY <1>4 DEF Total, f

LEMMA TotalGrows ==
  ASSUME NEW lines \in Seq(Line), NEW e \in Line, NEW b \in HeldBlocks(lines), NEW action
  PROVE  Total(Append(lines, e), action, b)
           = IF CountsFor(e, action, b) THEN Total(lines, action, b) + e.amount
             ELSE Total(lines, action, b)
<1> DEFINE more == Append(lines, e)
           S == Since(lines, action, b)
           S2 == Since(more, action, b)
           f == [i \in S |-> lines[i].amount]
           h == [i \in S2 |-> more[i].amount]
           x == Len(lines) + 1
<1>0. Total(lines, action, b) = SumFunction(f) /\ Total(more, action, b) = SumFunction(h)
  BY Zenon DEF Total
<1>1. S2 = S \cup (IF CountsFor(e, action, b) THEN {x} ELSE {})
  BY SinceGrows
<1>2. \A i \in S : more[i] = lines[i] /\ i \in 1 .. Len(lines)
  BY SinceKeeps
<1>3. more \in Seq(Line) /\ more[x] = e /\ x \notin S
  BY <1>2
<1>4. IsFiniteSet(S) /\ \A i \in S2 : more[i].amount \in Int
  <2>1. \A i \in S2 : i \in Applied(more, action, b)
    BY DEF Since
  <2>2. \A i \in S2 : more[i] \in CallMade
    <3> HIDE DEF more, S2
    <3>. QED BY <1>3, <2>1, CallsAreMade
  <2>3. \A i \in S2 : more[i].amount \in Int
    <3> HIDE DEF more, S2
    <3>. QED BY <2>2 DEF CallMade
  <2>. QED BY <2>3, SinceIsFinite
<1> HIDE DEF more, S, S2, x
<1>5. CASE ~CountsFor(e, action, b)
  <2>1. h = f
    BY <1>1, <1>2, <1>5
  <2> HIDE DEF f, h
  <2>. QED BY <1>0, <1>5, <2>1 DEF more
<1>6. CASE CountsFor(e, action, b)
  <2>1. S2 = S \cup {x}
    BY <1>1, <1>6
  <2>2. /\ DOMAIN f = S /\ DOMAIN h = S \cup {x}
        /\ h[x] = e.amount /\ \A i \in S : h[i] = f[i]
    BY <1>2, <1>3, <2>1
  <2>3. \A i \in DOMAIN h : h[i] \in Int
    BY <1>4
  <2> HIDE DEF f, h
  <2>4. SumFunction(h) = SumFunction(f) + h[x]
    BY <1>3, <1>4, <2>2, <2>3, SumAdd
  <2>. QED BY <1>0, <1>6, <2>2, <2>4 DEF more
<1>. QED BY <1>5, <1>6

\* A line that is no applied call on b leaves its hold as it was.
LEMMA HoldStays ==
  ASSUME NEW lines \in Seq(Line), NEW e \in Line, NEW b \in HeldBlocks(lines),
         \A action : ~CountsFor(e, action, b)
  PROVE  Hold(Append(lines, e), b) = Hold(lines, b)
<1> DEFINE more == Append(lines, e)
<1>1. lines[Placing(lines, b)] = more[Placing(more, b)]
  BY PlacingStays
<1>2. \A action : Since(lines, action, b) = Since(more, action, b)
  <2> SUFFICES ASSUME NEW action
               PROVE  Since(lines, action, b) = Since(more, action, b)
    OBVIOUS
  <2>1. ~CountsFor(e, action, b)
    OBVIOUS
  <2>2. Since(more, action, b)
          = Since(lines, action, b)
              \cup (IF CountsFor(e, action, b) THEN {Len(lines) + 1} ELSE {})
    BY SinceGrows
  <2>. QED BY <2>1, <2>2
<1>3. \A action : \A i \in Since(lines, action, b) : lines[i] = more[i]
  BY SinceKeeps
<1> HIDE DEF more
<1>4. Hold(lines, b) = Hold(more, b)
  BY <1>1, <1>2, <1>3, HoldsAlike
<1>. QED BY <1>4 DEF more

LEMMA HoldGrows ==
  ASSUME NEW lines \in Seq(Line), NEW e \in Line, NEW b \in HeldBlocks(lines)
  PROVE  LET was == Hold(lines, b)
             is  == Hold(Append(lines, e), b)
         IN  /\ is.block = b /\ is.placed_at = was.placed_at
             /\ is.held = was.held /\ is.ends_at = was.ends_at
             /\ is.debited
                  = IF CountsFor(e, "debit", b) THEN was.debited + e.amount ELSE was.debited
             /\ is.released
                  = IF CountsFor(e, "release", b) THEN was.released + e.amount ELSE was.released
             /\ is.restated
                  = (was.restated \/ (CountsFor(e, "reserve", b) /\ e.amount # was.held))
<1> DEFINE more == Append(lines, e)
           S == Since(lines, "reserve", b)
           S2 == Since(more, "reserve", b)
<1>1. /\ Placing(more, b) = Placing(lines, b)
      /\ more[Placing(lines, b)] = lines[Placing(lines, b)]
  BY PlacingStays
<1>2. \A action : Total(more, action, b)
        = IF CountsFor(e, action, b) THEN Total(lines, action, b) + e.amount
          ELSE Total(lines, action, b)
  BY TotalGrows
<1>3. /\ S2 = S \cup (IF CountsFor(e, "reserve", b) THEN {Len(lines) + 1} ELSE {})
      /\ more[Len(lines) + 1] = e
  BY SinceGrows
<1>4. \A i \in S : more[i] = lines[i]
  BY SinceKeeps
<1> HIDE DEF more, S, S2
<1>5. (\E i \in S2 : more[i].amount # more[Placing(more, b)].amount)
       = ((\E i \in S : lines[i].amount # lines[Placing(lines, b)].amount)
          \/ (CountsFor(e, "reserve", b) /\ e.amount # lines[Placing(lines, b)].amount))
  BY <1>1, <1>3, <1>4
<1>6. LET was == Hold(lines, b)
          is  == Hold(more, b)
      IN  /\ is.block = b /\ is.placed_at = was.placed_at
          /\ is.held = was.held /\ is.ends_at = was.ends_at
  BY <1>1, HoldPlace
<1>7. LET was == Hold(lines, b)
          is  == Hold(more, b)
      IN  /\ is.debited
               = IF CountsFor(e, "debit", b) THEN was.debited + e.amount ELSE was.debited
          /\ is.released
               = IF CountsFor(e, "release", b) THEN was.released + e.amount ELSE was.released
  BY <1>2, HoldTotals
<1>8. Hold(more, b).restated
        = (Hold(lines, b).restated
           \/ (CountsFor(e, "reserve", b) /\ e.amount # Hold(lines, b).held))
  <2>1. Hold(lines, b).held = lines[Placing(lines, b)].amount
    BY HoldPlace
  <2>2. /\ Hold(lines, b).restated
             = (\E i \in S : lines[i].amount # lines[Placing(lines, b)].amount)
        /\ Hold(more, b).restated
             = (\E i \in S2 : more[i].amount # more[Placing(more, b)].amount)
    BY HoldFlags DEF S, S2
  <2>. QED BY <1>5, <2>1, <2>2
<1>. QED BY <1>6, <1>7, <1>8 DEF more

LEMMA HoldPlaced ==
  ASSUME NEW lines \in Seq(Line), NEW e \in Line, NEW b, b \notin HeldBlocks(lines),
         CountsFor(e, "reserve", b)
  PROVE  LET is == Hold(Append(lines, e), b)
         IN  /\ is.block = b /\ is.placed_at = e.at /\ is.held = e.amount
             /\ is.ends_at = e.ends /\ is.debited = 0 /\ is.released = 0
             /\ ~is.revoked /\ ~is.restated
<1> DEFINE more == Append(lines, e)
           x == Len(lines) + 1
<1>1. Applied(lines, "reserve", b) = {}
  BY DEF Applied, HeldBlocks
<1>2. Applied(more, "reserve", b) = {x} /\ x \in Nat
  BY <1>1, AppliedGrows
<1>3. Placing(more, b) = x
  <2>1. {x} \in SUBSET Nat /\ x \in {x} /\ \A y \in {x} : x <= y
    BY <1>2
  <2> HIDE DEF x
  <2>2. Min({x}) = x
    BY <2>1, MinIs
  <2>. QED BY <1>2, <2>2 DEF Placing
<1>4. more[x] = e /\ more \in Seq(Line) /\ Len(more) = x
  OBVIOUS
<1>5. \A action : Since(more, action, b) = {}
  <2> TAKE action
  <2> HIDE DEF more
  <2>1. Applied(more, action, b) \subseteq 1 .. x
    BY <1>4, SinceIsFinite
  <2>. QED BY <1>3, <2>1 DEF Since
<1> HIDE DEF more, x
<1>6. Total(more, "debit", b) = 0 /\ Total(more, "release", b) = 0
  BY <1>5, SumEmpty DEF Total
<1>7. more[Placing(more, b)] = e
  BY <1>3, <1>4
<1>8. LET is == Hold(more, b)
      IN  /\ is.block = b /\ is.placed_at = e.at /\ is.held = e.amount /\ is.ends_at = e.ends
  BY <1>7, HoldPlace
<1>9. Hold(more, b).debited = 0 /\ Hold(more, b).released = 0
  BY <1>6, HoldTotals
<1>10. ~Hold(more, b).revoked /\ ~Hold(more, b).restated
  BY <1>5, HoldFlags
<1>. QED BY <1>8, <1>9, <1>10 DEF more

\* A reserve that the first one is smaller than.
Raised(lines, b) ==
  \E i \in Applied(lines, "reserve", b) : lines[i].amount > lines[Placing(lines, b)].amount

LEMMA RaisedGrows ==
  ASSUME NEW lines \in Seq(Line), NEW e \in Line, NEW b \in HeldBlocks(lines)
  PROVE  Raised(Append(lines, e), b)
           <=> \/ Raised(lines, b)
               \/ CountsFor(e, "reserve", b) /\ e.amount > Hold(lines, b).held
<1> DEFINE more == Append(lines, e)
           S == Applied(lines, "reserve", b)
<1>1. /\ Placing(more, b) = Placing(lines, b)
      /\ more[Placing(lines, b)] = lines[Placing(lines, b)]
  BY PlacingStays
<1>2. /\ Applied(more, "reserve", b)
           = S \cup (IF CountsFor(e, "reserve", b) THEN {Len(lines) + 1} ELSE {})
      /\ more[Len(lines) + 1] = e
  BY AppliedGrows
<1>3. \A i \in S : more[i] = lines[i]
  BY SinceIsFinite
<1>4. Hold(lines, b).held = lines[Placing(lines, b)].amount
  BY HoldPlace
<1> HIDE DEF more, S
<1>. QED BY <1>1, <1>2, <1>3, <1>4 DEF Raised, more, S

LEMMA PlacedIsNotRaised ==
  ASSUME NEW lines \in Seq(Line), NEW e \in Line, NEW b, b \notin HeldBlocks(lines),
         CountsFor(e, "reserve", b)
  PROVE  ~Raised(Append(lines, e), b)
<1> DEFINE more == Append(lines, e)
<1>1. Applied(lines, "reserve", b) = {}
  BY DEF Applied, HeldBlocks
<1>2. Applied(more, "reserve", b) = {Len(lines) + 1} /\ more[Len(lines) + 1] = e
  BY <1>1, AppliedGrows
<1>3. b \in HeldBlocks(more) /\ more \in Seq(Line)
  BY HeldBlocksGrow DEF CountsFor
<1>4. e.amount \in Nat
  BY DEF CountsFor, Line, CallMade, Noticed
<1> HIDE DEF more
<1>5. Placing(more, b) = Len(lines) + 1
  BY <1>2, <1>3, PlacedFirst
<1>. QED BY <1>2, <1>4, <1>5 DEF Raised, more

LEMMA HoldIsTyped ==
  ASSUME NEW lines \in Seq(Line), NEW b \in HeldBlocks(lines)
  PROVE  LET h == Hold(lines, b)
         IN  /\ h.block = b /\ h.placed_at \in Nat /\ h.held \in Nat
             /\ h.debited \in Nat /\ h.released \in Nat /\ h.ends_at \in Optional
             /\ h.revoked = FALSE /\ h.restated \in BOOLEAN /\ h.last_debit_at \in SUBSET Nat
<1>1. lines[Placing(lines, b)] \in CallMade
  BY PlacedFirst, CallsAreMade
<1>2. Since(lines, "revoke", b) = {}
  <2>1. \A i \in Applied(lines, "revoke", b) : lines[i] \in CallMade /\ lines[i].action = "revoke"
    BY CallsAreMade DEF Applied
  <2>. QED BY <2>1 DEF Since, CallMade
<1>3. LET h == Hold(lines, b)
      IN  h.block = b /\ h.placed_at \in Nat /\ h.held \in Nat /\ h.ends_at \in Optional
  BY <1>1, HoldPlace DEF CallMade
<1>4. Hold(lines, b).debited \in Nat /\ Hold(lines, b).released \in Nat
  BY HoldTotals, TotalIsNat
<1>5. Hold(lines, b).revoked = FALSE /\ Hold(lines, b).restated \in BOOLEAN
  BY <1>2, HoldFlags
<1>6. Hold(lines, b).last_debit_at \in SUBSET Nat
  <2> DEFINE S == Since(lines, "debit", b)
  <2>1. CASE S = {}
    BY <2>1, HoldTouched
  <2>2. CASE S # {}
    <3>1. Max(S) \in Applied(lines, "debit", b)
      BY <2>2, SinceIsFinite
    <3>2. lines[Max(S)] \in CallMade
      <4> HIDE DEF S
      <4>. QED BY <3>1, CallsAreMade
    <3>3. lines[Max(S)].at \in Nat
      BY <3>2 DEF CallMade
    <3>4. Hold(lines, b).last_debit_at = {lines[Max(S)].at}
      BY <2>2, HoldTouched
    <3>. QED BY <3>3, <3>4
  <2>. QED BY <2>1, <2>2
<1>. QED BY <1>3, <1>4, <1>5, <1>6

(***************************************************************************)
(* The clocks of a hold.                                                   *)
(***************************************************************************)
LEMMA ObligationIs ==
  ASSUME NEW clock, NEW h, NEW due, NEW time, NEW acts
  PROVE  LET o == Obligation(clock, h, due, time, acts)
         IN  /\ o.clock = clock /\ o.block = h.block /\ o.due = due
             /\ o.remainder = Remainder(h) /\ o.status = Status(h, due, time, acts)
BY DEF Obligation

\* The clock an obligation is of, with its deadline and who may act by then.
Runs(o, h, rail, pol, time) ==
  \/ /\ o.clock = "rail_hold_expiry"
     /\ \E due \in ExpiryDue(h, rail) : o = Obligation("rail_hold_expiry", h, due, time, TRUE)
  \/ /\ o.clock = "remainder_release"
     /\ RemainderDue(h, pol) # {} /\ ~FreesRemainder(rail)
     /\ o = Obligation("remainder_release", h, Min(RemainderDue(h, pol)), time,
                       ~KeepsRemainder(rail))
  \/ /\ o.clock = "resolve_by"
     /\ \E due \in pol.resolve_by :
          o = Obligation("resolve_by", h, due, time, ~KeepsRemainder(rail))

LEMMA RunsIs ==
  ASSUME NEW h, NEW rail, NEW pol, NEW time, NEW o, Runs(o, h, rail, pol, time)
  PROVE  \E clock, due, acts : o = Obligation(clock, h, due, time, acts)
BY Zenon DEF Runs

LEMMA ClocksRun ==
  ASSUME NEW h, NEW rail, NEW pol, NEW time, NEW o
  PROVE  o \in ObligationsOn(h, rail, pol, time) <=> Runs(o, h, rail, pol, time)
<1>1. o \in ObligationsOn(h, rail, pol, time)
        <=> \/ \E due \in ExpiryDue(h, rail) :
                 o = Obligation("rail_hold_expiry", h, due, time, TRUE)
            \/ /\ RemainderDue(h, pol) # {} /\ ~FreesRemainder(rail)
               /\ o = Obligation("remainder_release", h, Min(RemainderDue(h, pol)), time,
                                 ~KeepsRemainder(rail))
            \/ \E due \in pol.resolve_by :
                 o = Obligation("resolve_by", h, due, time, ~KeepsRemainder(rail))
  BY DEF ObligationsOn
<1>2. \A clock, due, acts : Obligation(clock, h, due, time, acts).clock = clock
  BY ObligationIs
<1>. QED BY <1>1, <1>2, Zenon DEF Runs

LEMMA AllReads ==
  ASSUME NEW lines, NEW rail, NEW pol, NEW time, NEW o
  PROVE  o \in AllObligations(lines, rail, pol, time)
           <=> /\ o.block \in HeldBlocks(lines)
               /\ o \in ObligationsOn(Hold(lines, o.block), rail, pol, time)
<1>1. ASSUME NEW b, o \in ObligationsOn(Hold(lines, b), rail, pol, time)
      PROVE  o.block = b
  <2>1. PICK clock, due, acts : o = Obligation(clock, Hold(lines, b), due, time, acts)
    BY <1>1, ClocksRun, RunsIs
  <2>2. o.block = Hold(lines, b).block
    BY <2>1, ObligationIs
  <2>. QED BY <2>2, HoldPlace
<1>2. o \in AllObligations(lines, rail, pol, time)
        <=> \E b \in HeldBlocks(lines) : o \in ObligationsOn(Hold(lines, b), rail, pol, time)
  BY DEF AllObligations, Holds
<1>. QED BY <1>1, <1>2

\* Deadlines are days.
LEMMA DueIsNat ==
  ASSUME NEW lines \in Seq(Line), NEW b \in HeldBlocks(lines), NEW id, NEW pol \in Policy
  PROVE  /\ ExpiryDue(Hold(lines, b), RowOf(id)) \in SUBSET Nat
         /\ RemainderDue(Hold(lines, b), pol) \in SUBSET Nat
         /\ pol.resolve_by \in SUBSET Nat
<1> DEFINE h == Hold(lines, b)
           rail == RowOf(id)
<1>1. /\ h.placed_at \in Nat /\ h.ends_at \in SUBSET Nat /\ h.last_debit_at \in SUBSET Nat
  BY HoldIsTyped DEF Optional
<1>2. Life(rail) \in SUBSET Nat
  BY LifeIsOptional DEF Optional
<1>3. /\ pol.idle \in SUBSET Nat /\ pol.ceiling \in SUBSET Nat /\ pol.resolve_by \in SUBSET Nat
  BY DEF Policy, Optional
<1> HIDE DEF h, rail
<1>4. ExpiryDue(h, rail) \in SUBSET Nat
  BY <1>1, <1>2 DEF ExpiryDue
<1>5. Touched(h) \in SUBSET Nat
  BY <1>1 DEF Touched
<1>6. RemainderDue(h, pol) \in SUBSET Nat
  BY <1>1, <1>3, <1>5 DEF RemainderDue
<1>. QED BY <1>3, <1>4, <1>6 DEF h, rail

LEMMA StatusIs ==
  ASSUME NEW h, NEW due \in Nat, NEW time \in Nat, NEW acts \in BOOLEAN, h.restated \in BOOLEAN
  PROVE  LET s == Status(h, due, time, acts)
         IN  /\ s = "met" <=> Remainder(h) = 0
             /\ s = "overdue" <=> Remainder(h) # 0 /\ time >= due /\ ~acts /\ ~h.restated
             /\ s \in {"overdue", "unresolved"} <=> Remainder(h) # 0 /\ time >= due
BY DEF Status

\* What an obligation says.
LEMMA ObligationsTyped ==
  ASSUME NEW lines \in Seq(Line), NEW id, NEW pol \in Policy, NEW time \in Nat,
         NEW o \in AllObligations(lines, RowOf(id), pol, time)
  PROVE  LET h == Hold(lines, o.block)
         IN  /\ o.clock \in Clock /\ o.block \in HeldBlocks(lines) /\ o.block \in Nat
             /\ o.remainder \in Nat /\ o.remainder = Remainder(h) /\ o.due \in Nat
             /\ Runs(o, h, RowOf(id), pol, time)
             /\ o.status = "met" <=> o.remainder = 0
             /\ o.status = "overdue" => /\ ~h.restated /\ o.remainder # 0
                                       /\ KeepsRemainder(RowOf(id))
             /\ o.status \in {"overdue", "unresolved"} <=> o.remainder # 0 /\ time >= o.due
             /\ o.clock = "rail_hold_expiry" => o.due \in ExpiryDue(h, RowOf(id))
<1> DEFINE h == Hold(lines, o.block)
           rail == RowOf(id)
<1>1. o.block \in HeldBlocks(lines) /\ Runs(o, h, rail, pol, time)
  BY AllReads, ClocksRun
<1>2. /\ h.held \in Nat /\ h.debited \in Nat /\ h.released \in Nat /\ h.restated \in BOOLEAN
  BY <1>1, HoldIsTyped
<1>3. o.block \in Nat
  <2>1. PICK i \in Applied(lines, "reserve", o.block) : TRUE
    BY <1>1, PlacedFirst
  <2>2. lines[i] \in CallMade /\ lines[i].block = o.block
    BY CallsAreMade DEF Applied
  <2>. QED BY <2>2 DEF CallMade
<1>4. /\ ExpiryDue(h, rail) \in SUBSET Nat
      /\ RemainderDue(h, pol) \in SUBSET Nat
      /\ pol.resolve_by \in SUBSET Nat
  BY <1>1, DueIsNat
<1> HIDE DEF h, rail
<1>5. Remainder(h) \in Nat
  BY <1>2 DEF Remainder
<1>6. PICK clock \in Clock, due \in Nat, acts \in BOOLEAN :
        /\ o = Obligation(clock, h, due, time, acts)
        /\ acts = (clock = "rail_hold_expiry" \/ ~KeepsRemainder(rail))
        /\ clock = "rail_hold_expiry" => due \in ExpiryDue(h, rail)
  <2>1. CASE o.clock = "rail_hold_expiry"
    BY <1>1, <1>4, <2>1 DEF Runs, Clock
  <2>2. CASE o.clock = "remainder_release"
    <3>1. Min(RemainderDue(h, pol)) \in Nat
      BY <1>1, <1>4, <2>2, MinIsLeast DEF Runs
    <3>. QED BY <1>1, <2>2, <3>1 DEF Runs, Clock
  <2>3. CASE o.clock = "resolve_by"
    BY <1>1, <1>4, <2>3 DEF Runs, Clock
  <2>. QED BY <1>1, <2>1, <2>2, <2>3 DEF Runs
<1>7. /\ o.clock = clock /\ o.due = due /\ o.remainder = Remainder(h)
      /\ o.status = Status(h, due, time, acts)
  BY <1>6, ObligationIs
<1>8. /\ o.status = "met" <=> o.remainder = 0
      /\ o.status = "overdue" => ~h.restated /\ o.remainder # 0 /\ ~acts
      /\ o.status \in {"overdue", "unresolved"} <=> o.remainder # 0 /\ time >= o.due
  BY <1>2, <1>7, StatusIs
<1>. QED BY <1>1, <1>3, <1>5, <1>6, <1>7, <1>8 DEF h, rail

\* One obligation of a clock on a block.
LEMMA OneOfAKind ==
  ASSUME NEW lines \in Seq(Line), NEW id, NEW pol \in Policy, NEW time \in Nat,
         NEW o \in AllObligations(lines, RowOf(id), pol, time),
         NEW p \in AllObligations(lines, RowOf(id), pol, time),
         o.clock = p.clock, o.block = p.block
  PROVE  o = p
<1> DEFINE h == Hold(lines, o.block)
           rail == RowOf(id)
<1>1. Runs(o, h, rail, pol, time) /\ Runs(p, h, rail, pol, time) /\ o.clock \in Clock
  BY ObligationsTyped
<1>2. \A m, n \in ExpiryDue(h, rail) : m = n
  <2>1. h.ends_at \in Optional /\ Life(rail) \in Optional
    BY ObligationsTyped, HoldIsTyped, LifeIsOptional
  <2> HIDE DEF h, rail
  <2>. QED BY <2>1 DEF ExpiryDue, Optional
<1>3. \A m, n \in pol.resolve_by : m = n
  BY DEF Policy, Optional
<1> HIDE DEF h, rail
<1>4. CASE o.clock = "rail_hold_expiry"
  BY <1>1, <1>2, <1>4 DEF Runs
<1>5. CASE o.clock = "remainder_release"
  BY <1>1, <1>5 DEF Runs
<1>6. CASE o.clock = "resolve_by"
  BY <1>1, <1>3, <1>6 DEF Runs
<1>. QED BY <1>1, <1>4, <1>5, <1>6 DEF Clock

\* A notice changes no hold, so no clock.
LEMMA NoticesDoNotCount ==
  ASSUME NEW lines \in Seq(Line), NEW e \in Line, e.kind = "obligation", NEW rail, NEW pol,
         NEW time
  PROVE  /\ HeldBlocks(Append(lines, e)) = HeldBlocks(lines)
         /\ \A b \in HeldBlocks(lines) : Hold(Append(lines, e), b) = Hold(lines, b)
         /\ AllObligations(Append(lines, e), rail, pol, time)
              = AllObligations(lines, rail, pol, time)
<1>1. HeldBlocks(Append(lines, e)) = HeldBlocks(lines)
  BY HeldBlocksGrow
<1>2. \A b \in HeldBlocks(lines) : Hold(Append(lines, e), b) = Hold(lines, b)
  BY HoldStays DEF CountsFor
<1>3. Holds(Append(lines, e)) = Holds(lines)
  BY <1>1, <1>2 DEF Holds
<1>. QED BY <1>1, <1>2, <1>3 DEF AllObligations

(***************************************************************************)
(* The inductive invariant.                                                *)
(***************************************************************************)
Typed ==
  /\ policy \in Policies /\ now \in Moments
  /\ chain \in Seq(Line)
  /\ bank \in Seq(Block)
  /\ unrecorded \subseteq CallMade /\ \A s, t \in unrecorded : s = t
  /\ at \in {"idle", "sweeping"}

Held(b) == Hold(chain, b)

\* What a call that is not on the chain yet has drawn on b.
DrawnBy(calls, b) ==
  LET drawing == {t \in calls : t.block = b /\ t.action # "reserve" /\ t.outcome = "applied"}
  IN  IF drawing = {} THEN 0 ELSE (CHOOSE t \in drawing : TRUE).amount

\* A call is about a block the rail has; a reserve about a new one, a draw about
\* one the chain shows; and a release leaves nothing.
CallsSound ==
  /\ \A i \in DOMAIN chain : chain[i].block \in DOMAIN bank
  /\ \A t \in unrecorded :
       /\ t.block \in DOMAIN bank
       /\ t.action = "reserve" =>
            /\ t.outcome = "applied" /\ t.block \notin HeldBlocks(chain)
            /\ bank[t.block].left = IF bank[t.block].gone = "no" THEN t.amount ELSE 0
       /\ t.action # "reserve" =>
            /\ t.block \in HeldBlocks(chain)
            /\ t.action = "release" /\ t.outcome = "applied" => bank[t.block].left = 0

\* The rail has no more of a hold than the chain shows unless the ceiling was
\* raised, and just that unless it was restated or the block is gone.
Money(h, drawn, block, raised) ==
  LET left == h.held - h.debited - h.released - drawn
  IN  /\ h.released > 0 => block.left = 0
      /\ ~raised => block.left <= left
      /\ ~h.restated /\ block.gone = "no" => block.left = left

MoneySound ==
  \A b \in HeldBlocks(chain) :
    Money(Held(b), DrawnBy(unrecorded, b), bank[b], Raised(chain, b))

GoneSound ==
  \A b \in DOMAIN bank :
    /\ bank[b].gone # "no" => bank[b].left = 0
    /\ bank[b].gone = "rail" /\ TextKeeps => HasEnded(b)

\* The chain's clock for the rail's deadline never runs ahead of the rail's.
EndsSound ==
  /\ \A b \in HeldBlocks(chain) : \A due \in ExpiryDue(Held(b), Row) :
       \E day \in bank[b].ends : day <= due
  /\ \A t \in unrecorded : t.action = "reserve" =>
       /\ t.ends # {} => bank[t.block].ends = t.ends
       /\ t.ends = {} => \A days \in Life(Row) : \E day \in bank[t.block].ends : day <= now + days

\* What a sweep has still to write is what is orphaned and not noted.
TodoSound ==
  todo = IF at = "idle" THEN {} ELSE Fresh(Orphans(Current(now)))

SweepInv ==
  /\ Typed /\ CallsSound /\ MoneySound /\ GoneSound /\ EndsSound /\ TodoSound
  /\ NotedOnce /\ RailIsNotAccusedEarly

(***************************************************************************)
(* What every action leaves alone.                                         *)
(***************************************************************************)
LEMMA DaysAreNat ==
  ASSUME Typed
  PROVE  now \in Nat /\ policy \in Policy
BY SweepAssumption DEF Typed

LEMMA HeldInBank ==
  ASSUME CallsSound
  PROVE  HeldBlocks(chain) \subseteq DOMAIN bank
BY DEF CallsSound, HeldBlocks

LEMMA NothingDrawn ==
  ASSUME NEW b
  PROVE  DrawnBy({}, b) = 0
BY DEF DrawnBy

LEMMA OneDraws ==
  ASSUME NEW t, NEW b
  PROVE  DrawnBy({t}, b)
           = IF t.block = b /\ t.action # "reserve" /\ t.outcome = "applied" THEN t.amount ELSE 0
<1> DEFINE drawing == {x \in {t} : x.block = b /\ x.action # "reserve" /\ x.outcome = "applied"}
<1>1. CASE drawing = {}
  BY <1>1 DEF DrawnBy
<1>2. CASE drawing # {}
  <2>1. drawing = {t} /\ (CHOOSE x \in drawing : TRUE) = t
    BY <1>2
  <2>. QED BY <2>1 DEF DrawnBy
<1>. QED BY <1>1, <1>2

LEMMA RemainderIs ==
  ASSUME NEW lines \in Seq(Line), NEW b \in HeldBlocks(lines)
  PROVE  LET h == Hold(lines, b)
         IN  Remainder(h) = IF h.held < h.debited + h.released THEN 0
                            ELSE h.held - h.debited - h.released
BY HoldIsTyped DEF Remainder

\* A block keeps its end, and time does not go back.
Later ==
  /\ \A b \in DOMAIN bank : b \in DOMAIN bank' /\ bank'[b].ends = bank[b].ends
  /\ now <= now' /\ now' \in Nat
  /\ rail_id' = rail_id /\ policy' = policy

LEMMA EndedStays ==
  ASSUME Typed, Later, NEW b \in DOMAIN bank, HasEnded(b)
  PROVE  HasEnded(b)'
<1>1. PICK day \in bank[b].ends : now >= day
  BY DEF HasEnded
<1>2. bank[b] \in Block /\ now \in Nat
  BY DaysAreNat DEF Typed
<1>3. day \in Nat
  BY <1>2 DEF Block
<1>4. day \in bank'[b].ends /\ now' >= day
  BY <1>1, <1>2, <1>3 DEF Later
<1>. QED BY <1>4 DEF HasEnded

LEMMA NoticesStay ==
  ASSUME SweepInv, Later, chain' = chain \/ \E e \in CallMade : chain' = Append(chain, e)
  PROVE  NotedOnce' /\ RailIsNotAccusedEarly'
<1>1. \A i \in DOMAIN chain' : chain'[i].kind = "obligation" =>
        i \in DOMAIN chain /\ chain'[i] = chain[i]
  <2>1. CASE chain' = chain
    BY <2>1
  <2>2. CASE \E e \in CallMade : chain' = Append(chain, e)
    <3>1. PICK e \in CallMade : chain' = Append(chain, e)
      BY <2>2
    <3>2. e.kind # "obligation"
      BY DEF CallMade
    <3>3. chain \in Seq(Line)
      BY DEF SweepInv, Typed
    <3>. QED BY <3>1, <3>2, <3>3
  <2>. QED BY <2>1, <2>2
<1>2. NotedOnce'
  BY <1>1 DEF SweepInv, NotedOnce
<1>3. ASSUME NEW i \in DOMAIN chain', chain'[i].kind = "obligation",
             chain'[i].clock = "rail_hold_expiry"
      PROVE  \E day \in bank'[chain'[i].block].ends : now' >= day
  <2>1. i \in DOMAIN chain /\ chain'[i] = chain[i]
    BY <1>1, <1>3
  <2>2. PICK b \in DOMAIN bank : b = chain[i].block
    BY <2>1 DEF SweepInv, CallsSound
  <2>3. HasEnded(b)
    BY <1>3, <2>1, <2>2 DEF SweepInv, RailIsNotAccusedEarly
  <2>4. HasEnded(b)'
    BY <2>2, <2>3, EndedStays DEF SweepInv
  <2>5. \E day \in bank'[b].ends : now' >= day
    BY <2>4 DEF HasEnded
  <2>. QED BY <2>1, <2>2, <2>5
<1>4. RailIsNotAccusedEarly'
  BY <1>3 DEF RailIsNotAccusedEarly, HasEnded
<1>. QED BY <1>2, <1>4

(***************************************************************************)
(* The session's calls.                                                    *)
(***************************************************************************)
LEMMA ReservesKeep ==
  ASSUME SweepInv, NEW amount \in Ceilings, NEW given_days \in EndDates,
         Reserves(amount, {now + days : days \in given_days})
  PROVE  SweepInv'
<1> DEFINE ends == {now + days : days \in given_days}
           until == IF ends # {} THEN ends ELSE {now + days : days \in Life(Row)}
           b == Len(bank) + 1
           t == Transition("reserve", "applied", b, amount, 0, ends)
           block == [left |-> amount, ends |-> until, gone |-> "no"]
<1>1. /\ at = "idle" /\ unrecorded = {} /\ unrecorded' = {t}
      /\ bank' = Append(bank, block)
      /\ UNCHANGED <<given, now, chain, sweep>>
  BY DEF Reserves, Calls
<1>2. /\ Typed /\ CallsSound /\ MoneySound /\ GoneSound /\ EndsSound /\ TodoSound
      /\ now \in Nat /\ policy \in Policy /\ amount \in Nat
  BY DaysAreNat, SweepAssumption DEF SweepInv
<1>3. ends \in Optional
  BY <1>2, SweepAssumption DEF Optional
<1>4. until \in SUBSET Nat
  <2>1. Life(Row) \in SUBSET Nat
    BY LifeIsOptional DEF Row, Optional
  <2>. QED BY <1>2, <1>3, <2>1 DEF Optional
<1>5. block \in Block /\ b \in Nat /\ b \notin DOMAIN bank
  BY <1>2, <1>4 DEF Block, Typed
<1>6. /\ bank' \in Seq(Block) /\ DOMAIN bank' = DOMAIN bank \cup {b}
      /\ bank'[b] = block /\ \A c \in DOMAIN bank : bank'[c] = bank[c]
  <2> HIDE DEF block
  <2>1. bank \in Seq(Block)
    BY <1>2 DEF Typed
  <2>. QED BY <1>1, <1>5, <2>1
<1>7. /\ t \in CallMade /\ t.action = "reserve" /\ t.outcome = "applied" /\ t.block = b
      /\ t.amount = amount /\ t.ends = ends
  BY <1>2, <1>3, <1>5 DEF Transition, CallMade
<1>8. block.left = amount /\ block.ends = until /\ block.gone = "no"
  OBVIOUS
<1> HIDE DEF b, t, block
<1>9. /\ chain' = chain /\ now' = now /\ rail_id' = rail_id /\ policy' = policy
      /\ at' = "idle" /\ todo' = todo
  BY <1>1 DEF given, sweep
<1>10. Typed'
  BY <1>1, <1>2, <1>6, <1>7, <1>9 DEF Typed
<1>11. HeldBlocks(chain) \subseteq DOMAIN bank
  BY <1>2, HeldInBank
<1>12. CallsSound'
  <2>1. \A i \in DOMAIN chain : chain[i].block \in DOMAIN bank'
    BY <1>2, <1>6 DEF CallsSound
  <2>2. b \notin HeldBlocks(chain)
    BY <1>5, <1>11
  <2>. QED BY <1>1, <1>6, <1>7, <1>8, <1>9, <2>1, <2>2 DEF CallsSound
<1>13. MoneySound'
  <2> SUFFICES ASSUME NEW c \in HeldBlocks(chain)
               PROVE  Money(Hold(chain, c), DrawnBy({t}, c), bank'[c], Raised(chain, c))
    BY <1>1, <1>9 DEF MoneySound, Held
  <2>1. Money(Hold(chain, c), DrawnBy({}, c), bank[c], Raised(chain, c))
    BY <1>1, <1>2 DEF MoneySound, Held
  <2>2. DrawnBy({t}, c) = DrawnBy({}, c)
    BY <1>7, OneDraws, NothingDrawn
  <2>. QED BY <1>6, <1>11, <2>1, <2>2
<1>14. GoneSound'
  BY <1>2, <1>6, <1>8, <1>9 DEF GoneSound, TextKeeps, Row, HasEnded
<1>15. EndsSound'
  <2>1. \A c \in HeldBlocks(chain) : \A due \in ExpiryDue(Hold(chain, c), Row) :
          \E day \in bank'[c].ends : day <= due
    BY <1>2, <1>6, <1>11 DEF EndsSound, Held
  <2>2. ends = {} => \A days \in Life(Row) : now + days \in until
    OBVIOUS
  <2>3. \A days \in Life(Row) : now + days \in Nat
    BY <1>2, LifeIsOptional DEF Row, Optional
  <2>4. ends = {} => \A days \in Life(Row) : \E day \in until : day <= now + days
    BY <2>2, <2>3
  <2>5. ends # {} => until = ends
    OBVIOUS
  <2> HIDE DEF ends, until
  <2>6. Row' = Row
    BY <1>9 DEF Row
  <2>. QED BY <1>1, <1>6, <1>7, <1>8, <1>9, <2>1, <2>4, <2>5, <2>6 DEF EndsSound, Held
<1>16. TodoSound'
  BY <1>1, <1>2, <1>9 DEF TodoSound
<1>17. NotedOnce' /\ RailIsNotAccusedEarly'
  BY <1>2, <1>6, <1>9, NoticesStay DEF Later
<1>. QED BY <1>10, <1>12, <1>13, <1>14, <1>15, <1>16, <1>17 DEF SweepInv

LEMMA LeftChanges ==
  ASSUME NEW rows \in Seq(Block), NEW b \in DOMAIN rows, NEW left \in Nat
  PROVE  LET after == [rows EXCEPT ![b].left = left]
         IN  /\ after \in Seq(Block) /\ DOMAIN after = DOMAIN rows
             /\ after[b].left = left /\ after[b].ends = rows[b].ends
             /\ after[b].gone = rows[b].gone
             /\ \A c \in DOMAIN rows \ {b} : after[c] = rows[c]
<1> DEFINE row == [rows[b] EXCEPT !.left = left]
<1>1. rows[b] \in Block
  OBVIOUS
<1>2. /\ row \in Block /\ row.left = left /\ row.ends = rows[b].ends
      /\ row.gone = rows[b].gone
  BY <1>1 DEF Block
<1> HIDE DEF row
<1>3. /\ [rows EXCEPT ![b] = row] \in Seq(Block)
      /\ DOMAIN [rows EXCEPT ![b] = row] = DOMAIN rows
      /\ [rows EXCEPT ![b] = row][b] = row
      /\ \A c \in DOMAIN rows \ {b} : [rows EXCEPT ![b] = row][c] = rows[c]
  BY <1>2
<1>. QED BY <1>2, <1>3 DEF row

LEMMA AvailableIsNat ==
  ASSUME chain \in Seq(Line), NEW b \in HeldBlocks(chain), NEW most \in Available(b)
  PROVE  most \in Nat
<1> DEFINE h == Hold(chain, b)
           S == Applied(chain, "reserve", b)
           f == [i \in S |-> chain[i].amount]
           named == SumFunction(f)
<1>1. named \in Nat
  <2>1. \A i \in S : chain[i].amount \in Nat
    BY CallsAreMade DEF CallMade
  <2>2. S \subseteq 1 .. Len(chain) /\ IsFiniteSet(1 .. Len(chain))
    BY SinceIsFinite, FS_Interval
  <2>3. IsFiniteSet(S)
    BY <2>2, FS_Subset
  <2>4. IsFiniteSet(DOMAIN f) /\ \A i \in DOMAIN f : f[i] \in Nat
    BY <2>1, <2>3
  <2> HIDE DEF f
  <2>. QED BY <2>4, SumNat
<1>2. /\ h.held \in Nat /\ h.debited \in Nat /\ h.released \in Nat
      /\ Remainder(h) = IF h.held < h.debited + h.released THEN 0
                        ELSE h.held - h.debited - h.released
  BY HoldIsTyped, RemainderIs
<1>3. most \in {Remainder(h), named - h.debited - h.released} /\ most > 0
  BY DEF Available
<1> HIDE DEF h, named
<1>4. Remainder(h) \in Int /\ named - h.debited - h.released \in Int
  BY <1>1, <1>2
<1>. QED BY <1>3, <1>4

LEMMA DrawsKeep ==
  ASSUME SweepInv, NEW action \in {"debit", "release"}, NEW b \in HeldBlocks(chain),
         NEW amount \in Nat, Draws(action, b, amount)
  PROVE  SweepInv'
<1> DEFINE pays == IF action = "debit" THEN amount <= bank[b].left ELSE amount = bank[b].left
           drawn == IF pays THEN amount ELSE 0
           t == Transition(action, IF pays THEN "applied" ELSE "rail_rejected", b, amount, 0, {})
<1>1. /\ at = "idle" /\ unrecorded = {} /\ unrecorded' = {t}
      /\ bank' = IF pays THEN [bank EXCEPT ![b].left = @ - amount] ELSE bank
      /\ UNCHANGED <<given, now, chain, sweep>>
  BY DEF Draws, Calls
<1>2. /\ Typed /\ CallsSound /\ MoneySound /\ GoneSound /\ EndsSound /\ TodoSound
      /\ now \in Nat /\ policy \in Policy
  BY DaysAreNat DEF SweepInv
<1>3. HeldBlocks(chain) \subseteq DOMAIN bank /\ b \in DOMAIN bank /\ b \in Nat
  BY <1>2, HeldInBank DEF Typed
<1>4. bank \in Seq(Block) /\ chain \in Seq(Line) /\ bank[b] \in Block
  BY <1>2, <1>3 DEF Typed
<1>5. bank[b].left \in Nat
  BY <1>4 DEF Block
<1>6. /\ bank' \in Seq(Block) /\ DOMAIN bank' = DOMAIN bank
      /\ bank'[b].left = bank[b].left - drawn
      /\ bank'[b].ends = bank[b].ends /\ bank'[b].gone = bank[b].gone
      /\ \A c \in DOMAIN bank \ {b} : bank'[c] = bank[c]
  <2>1. CASE pays
    <3>1. bank[b].left - amount \in Nat
      BY <1>5, <2>1
    <3>. QED BY <1>1, <1>3, <1>4, <2>1, <3>1, LeftChanges
  <2>2. CASE ~pays
    BY <1>1, <1>4, <1>5, <2>2
  <2>. QED BY <2>1, <2>2
<1>7. /\ t \in CallMade /\ t.action # "reserve" /\ t.action = action /\ t.block = b
      /\ t.amount = amount /\ t.outcome = (IF pays THEN "applied" ELSE "rail_rejected")
  <2>1. {} \in Optional
    BY DEF Optional
  <2>. QED BY <1>3, <2>1 DEF Transition, CallMade
<1>8. \A c : DrawnBy(unrecorded', c) = IF c = b THEN drawn ELSE 0
  <2>1. t.outcome = "applied" <=> pays
    BY DEF Transition
  <2> HIDE DEF t, pays
  <2>2. \A c : DrawnBy({t}, c)
          = IF t.block = c /\ t.action # "reserve" /\ t.outcome = "applied" THEN t.amount ELSE 0
    BY OneDraws
  <2>. QED BY <1>1, <1>7, <2>1, <2>2
<1>9. /\ drawn \in Nat /\ drawn <= bank[b].left
      /\ action = "release" /\ t.outcome = "applied" => bank'[b].left = 0
  <2>1. pays => amount <= bank[b].left
    BY <1>5
  <2>2. pays /\ action = "release" => bank[b].left - drawn = 0
    BY <1>5
  <2>. QED BY <1>5, <1>6, <1>7, <2>1, <2>2
<1> HIDE DEF t, drawn, pays
<1>10. /\ chain' = chain /\ now' = now /\ rail_id' = rail_id /\ policy' = policy
       /\ at' = "idle" /\ todo' = todo
  BY <1>1 DEF given, sweep
<1>11. Typed'
  BY <1>1, <1>2, <1>6, <1>7, <1>10 DEF Typed
<1>12. CallsSound'
  BY <1>1, <1>2, <1>3, <1>6, <1>7, <1>9, <1>10 DEF CallsSound
<1>13. MoneySound'
  <2> SUFFICES ASSUME NEW c \in HeldBlocks(chain)
               PROVE  Money(Hold(chain, c), DrawnBy(unrecorded', c), bank'[c], Raised(chain, c))
    BY <1>10 DEF MoneySound, Held
  <2>1. Money(Hold(chain, c), 0, bank[c], Raised(chain, c))
    BY <1>1, <1>2, NothingDrawn DEF MoneySound, Held
  <2>2. CASE c # b
    BY <1>3, <1>6, <1>8, <2>1, <2>2
  <2>3. CASE c = b
    <3> DEFINE h == Hold(chain, b)
               raised == Raised(chain, b)
    <3>1. h.held \in Nat /\ h.debited \in Nat /\ h.released \in Nat
      BY <1>4, HoldIsTyped
    <3>2. Money(h, 0, bank[b], raised)
      BY <2>1, <2>3
    <3> DEFINE shown == h.held - h.debited - h.released - 0
    <3> HIDE DEF h, raised
    <3>3. shown \in Int /\ h.held - h.debited - h.released - drawn = shown - drawn
      BY <1>9, <3>1
    <3>4. /\ h.released > 0 => bank[b].left = 0
          /\ ~raised => bank[b].left <= shown
          /\ ~h.restated /\ bank[b].gone = "no" => bank[b].left = shown
      BY <3>2 DEF Money
    <3> HIDE DEF shown
    <3>5. h.released > 0 => bank'[b].left = 0
      BY <1>5, <1>6, <1>9, <3>4
    <3>6. ~raised => bank'[b].left <= shown - drawn
      BY <1>5, <1>6, <1>9, <3>3, <3>4
    <3>7. ~h.restated /\ bank'[b].gone = "no" => bank'[b].left = shown - drawn
      BY <1>6, <3>4
    <3>8. Money(h, drawn, bank'[b], raised)
      BY <3>3, <3>5, <3>6, <3>7 DEF Money
    <3>. QED BY <1>8, <2>3, <3>8 DEF h, raised
  <2>. QED BY <2>2, <2>3
<1>14. GoneSound'
  <2> SUFFICES ASSUME NEW c \in DOMAIN bank
               PROVE  /\ bank'[c].gone # "no" => bank'[c].left = 0
                      /\ bank'[c].gone = "rail" /\ TextKeeps => HasEnded(c)'
    BY <1>6, <1>10 DEF GoneSound, TextKeeps, Row
  <2>1. bank'[c].gone = bank[c].gone /\ bank'[c].ends = bank[c].ends
    BY <1>6
  <2>2. bank[c].gone # "no" => bank'[c].left = 0
    <3>1. bank[c].gone # "no" => bank[c].left = 0
      BY <1>2 DEF GoneSound
    <3>2. CASE c # b
      BY <1>6, <3>1, <3>2
    <3>3. CASE c = b
      <4>1. bank'[b] \in Block
        BY <1>3, <1>6
      <4>2. bank'[b].left \in Nat
        BY <4>1 DEF Block
      <4>. QED BY <1>5, <1>6, <1>9, <3>1, <3>3, <4>2
    <3>. QED BY <3>2, <3>3
  <2>3. bank[c].gone = "rail" /\ TextKeeps => HasEnded(c)'
    BY <1>2, <1>10, <2>1 DEF GoneSound, HasEnded
  <2>. QED BY <2>1, <2>2, <2>3
<1>15. EndsSound'
  <2>1. \A c \in DOMAIN bank : bank'[c].ends = bank[c].ends
    BY <1>6
  <2>2. Row' = Row
    BY <1>10 DEF Row
  <2>. QED BY <1>1, <1>2, <1>3, <1>7, <1>10, <2>1, <2>2 DEF EndsSound, Held
<1>16. TodoSound'
  BY <1>1, <1>2, <1>10 DEF TodoSound
<1>17. NotedOnce' /\ RailIsNotAccusedEarly'
  <2>1. \A c \in DOMAIN bank : c \in DOMAIN bank' /\ bank'[c].ends = bank[c].ends
    BY <1>6
  <2>. QED BY <1>2, <1>10, <2>1, NoticesStay DEF Later
<1>. QED BY <1>11, <1>12, <1>13, <1>14, <1>15, <1>16, <1>17 DEF SweepInv

(***************************************************************************)
(* A call that was made reaches the chain.                                 *)
(***************************************************************************)
LEMMA RecordsKeep ==
  ASSUME SweepInv, Records
  PROVE  SweepInv'
<1>1. /\ Typed /\ CallsSound /\ MoneySound /\ GoneSound /\ EndsSound /\ TodoSound
      /\ now \in Nat /\ policy \in Policy /\ chain \in Seq(Line)
  BY DaysAreNat DEF SweepInv, Typed
<1>2. PICK t \in unrecorded : chain' = Append(chain, [t EXCEPT !.at = now])
  BY DEF Records
<1> DEFINE e == [t EXCEPT !.at = now]
<1>3. /\ at' = "idle" /\ at = "idle" /\ todo' = todo /\ bank' = bank /\ now' = now
      /\ rail_id' = rail_id /\ policy' = policy /\ unrecorded' = {}
  BY DEF Records, given, sweep
<1>4. unrecorded = {t} /\ t \in CallMade
  BY <1>1 DEF Typed
<1>5. /\ e \in CallMade /\ e.kind = "rail_transition" /\ e.action = t.action
      /\ e.outcome = t.outcome /\ e.block = t.block /\ e.amount = t.amount
      /\ e.at = now /\ e.ends = t.ends
  BY <1>1, <1>4 DEF CallMade
<1> HIDE DEF e
<1>6. chain' = Append(chain, e) /\ e \in Line
  BY <1>2, <1>5 DEF e, Line
<1>7. Typed'
  BY <1>1, <1>3, <1>6 DEF Typed
<1>8. HeldBlocks(chain) \subseteq DOMAIN bank /\ t.block \in DOMAIN bank
  BY <1>1, <1>4, HeldInBank DEF CallsSound
<1>9. CallsSound'
  BY <1>1, <1>3, <1>5, <1>6, <1>8 DEF CallsSound
<1>10. HeldBlocks(chain')
         = HeldBlocks(chain) \cup (IF t.action = "reserve" THEN {t.block} ELSE {})
  <2>1. t.action = "reserve" => t.outcome = "applied"
    BY <1>1, <1>4 DEF CallsSound
  <2>. QED BY <1>1, <1>5, <1>6, <2>1, HeldBlocksGrow
<1>11. \A c : DrawnBy(unrecorded', c) = 0
  BY <1>3, NothingDrawn
<1>12. \A c : DrawnBy(unrecorded, c)
         = IF t.block = c /\ t.action # "reserve" /\ t.outcome = "applied" THEN t.amount ELSE 0
  BY <1>4, OneDraws
<1>13. ASSUME t.action = "reserve"
       PROVE  LET is == Hold(chain', t.block)
              IN  /\ is.placed_at = now /\ is.held = t.amount /\ is.ends_at = t.ends
                  /\ is.debited = 0 /\ is.released = 0 /\ ~is.restated
                  /\ t.block \notin HeldBlocks(chain)
  <2>1. t.outcome = "applied" /\ t.block \notin HeldBlocks(chain)
    BY <1>1, <1>4, <1>13 DEF CallsSound
  <2>2. CountsFor(e, "reserve", t.block)
    BY <1>5, <1>13, <2>1 DEF CountsFor
  <2>. QED BY <1>1, <1>5, <1>6, <2>1, <2>2, HoldPlaced
<1>13a. ASSUME NEW c \in HeldBlocks(chain)
        PROVE  ~CountsFor(e, "reserve", c)
  <2>1. CASE t.action = "reserve"
    BY <1>5, <1>13, <1>13a, <2>1 DEF CountsFor
  <2>2. CASE t.action # "reserve"
    BY <1>5, <2>2 DEF CountsFor
  <2>. QED BY <2>1, <2>2
<1>14. ASSUME NEW c \in HeldBlocks(chain)
       PROVE  LET was == Hold(chain, c)
                  is  == Hold(chain', c)
                  draws(action) == t.action = action /\ t.block = c /\ t.outcome = "applied"
              IN  /\ is.placed_at = was.placed_at /\ is.held = was.held
                  /\ is.ends_at = was.ends_at
                  /\ is.debited = IF draws("debit") THEN was.debited + t.amount ELSE was.debited
                  /\ is.released = IF draws("release") THEN was.released + t.amount
                                   ELSE was.released
                  /\ is.restated = was.restated
  <2>1. ~CountsFor(e, "reserve", c)
    BY <1>13a, <1>14
  <2>2. \A action : CountsFor(e, action, c)
          <=> t.action = action /\ t.block = c /\ t.outcome = "applied"
    BY <1>5 DEF CountsFor
  <2>3. Hold(chain, c).restated \in BOOLEAN
    BY <1>1, <1>14, HoldIsTyped
  <2>. QED BY <1>1, <1>5, <1>6, <1>14, <2>1, <2>2, <2>3, HoldGrows
<1>15. MoneySound'
  <2> SUFFICES ASSUME NEW c \in HeldBlocks(chain')
               PROVE  Money(Hold(chain', c), 0, bank[c], Raised(chain', c))
    BY <1>3, <1>11 DEF MoneySound, Held
  <2>1. CASE c \notin HeldBlocks(chain)
    <3>1. t.action = "reserve" /\ c = t.block
      BY <1>10, <2>1
    <3>2. bank[c].left = IF bank[c].gone = "no" THEN t.amount ELSE 0
      BY <1>1, <1>4, <3>1 DEF CallsSound
    <3>3. t.amount \in Nat
      BY <1>4 DEF CallMade
    <3>4. LET is == Hold(chain', c)
          IN  is.held = t.amount /\ is.debited = 0 /\ is.released = 0
      BY <1>13, <3>1
    <3> DEFINE h == Hold(chain', c)
    <3> HIDE DEF h
    <3>5. h.held = t.amount /\ h.debited = 0 /\ h.released = 0
      BY <3>4 DEF h
    <3> DEFINE raised == Raised(chain', c)
    <3> HIDE DEF raised
    <3>6. Money(h, 0, bank[c], raised)
      BY <3>2, <3>3, <3>5 DEF Money
    <3>. QED BY <3>6 DEF h, raised
  <2>2. CASE c \in HeldBlocks(chain)
    <3> DEFINE h == Hold(chain, c)
               is == Hold(chain', c)
               drawn == DrawnBy(unrecorded, c)
               raised == Raised(chain, c)
    <3>1. Money(h, drawn, bank[c], raised)
      BY <1>1, <2>2 DEF MoneySound, Held
    <3>2. h.held \in Nat /\ h.debited \in Nat /\ h.released \in Nat
      BY <1>1, <2>2, HoldIsTyped
    <3>3. Raised(chain', c) <=> raised
      BY <1>1, <1>6, <1>13a, <2>2, RaisedGrows
    <3>4. t.amount \in Nat /\ t.action \in {"reserve", "debit", "release"}
      BY <1>4 DEF CallMade
    <3>5. is.held = h.held /\ is.restated = h.restated
      BY <1>14, <2>2
    <3>6. /\ is.debited = IF t.action = "debit" /\ t.block = c /\ t.outcome = "applied"
                          THEN h.debited + t.amount ELSE h.debited
          /\ is.released = IF t.action = "release" /\ t.block = c /\ t.outcome = "applied"
                           THEN h.released + t.amount ELSE h.released
      BY <1>14, <2>2
    <3>7. t.block = c /\ t.action = "release" /\ t.outcome = "applied" => bank[c].left = 0
      BY <1>1, <1>4 DEF CallsSound
    <3>8. drawn = IF t.block = c /\ t.action # "reserve" /\ t.outcome = "applied"
                  THEN t.amount ELSE 0
      BY <1>12
    <3> HIDE DEF h, is, drawn, raised
    <3>9. is.held - is.debited - is.released - 0 = h.held - h.debited - h.released - drawn
      BY <3>2, <3>4, <3>5, <3>6, <3>8
    <3>10. is.released > 0 => bank[c].left = 0
      BY <3>1, <3>2, <3>4, <3>6, <3>7 DEF Money
    <3>11. Money(is, 0, bank[c], raised)
      BY <3>1, <3>5, <3>9, <3>10 DEF Money
    <3>. QED BY <3>3, <3>11 DEF is, Money
  <2>. QED BY <2>1, <2>2
<1>16. GoneSound'
  BY <1>1, <1>3 DEF GoneSound, TextKeeps, Row, HasEnded
<1>17. EndsSound'
  <2>1. Row' = Row
    BY <1>3 DEF Row
  <2> SUFFICES ASSUME NEW c \in HeldBlocks(chain'), NEW due \in ExpiryDue(Hold(chain', c), Row)
               PROVE  \E day \in bank[c].ends : day <= due
    BY <1>3, <2>1 DEF EndsSound, Held
  <2>2. CASE c \in HeldBlocks(chain)
    <3>1. ExpiryDue(Hold(chain', c), Row) = ExpiryDue(Hold(chain, c), Row)
      BY <1>14, <2>2 DEF ExpiryDue
    <3>. QED BY <1>1, <2>2, <3>1 DEF EndsSound, Held
  <2>3. CASE c \notin HeldBlocks(chain)
    <3>1. t.action = "reserve" /\ c = t.block
      BY <1>10, <2>3
    <3>2. Hold(chain', c).ends_at = t.ends /\ Hold(chain', c).placed_at = now
      BY <1>13, <3>1
    <3>3. /\ t.ends # {} => bank[c].ends = t.ends
          /\ t.ends = {} => \A days \in Life(Row) : \E day \in bank[c].ends : day <= now + days
      BY <1>1, <1>4, <3>1 DEF EndsSound
    <3>4. CASE t.ends # {}
      <4>1. due \in bank[c].ends /\ due \in Nat
        <5>1. t.ends \in SUBSET Nat
          BY <1>4 DEF CallMade, Optional
        <5>2. due \in t.ends
          BY <3>2, <3>4 DEF ExpiryDue
        <5>. QED BY <3>3, <3>4, <5>1, <5>2
      <4>. QED BY <4>1
    <3>5. CASE t.ends = {}
      <4>1. PICK days \in Life(Row) : due = now + days
        BY <3>2, <3>5 DEF ExpiryDue
      <4>. QED BY <3>3, <3>5, <4>1
    <3>. QED BY <3>4, <3>5
  <2>. QED BY <2>2, <2>3
<1>18. TodoSound'
  BY <1>1, <1>3 DEF TodoSound
<1>19. NotedOnce' /\ RailIsNotAccusedEarly'
  BY <1>1, <1>3, <1>5, <1>6, NoticesStay DEF Later
<1>. QED BY <1>7, <1>9, <1>15, <1>16, <1>17, <1>18, <1>19 DEF SweepInv

LEMMA RestatesKeep ==
  ASSUME SweepInv, NEW b \in HeldBlocks(chain), NEW amount \in Ceilings \cup Amounts,
         Restates(b, amount)
  PROVE  SweepInv'
<1> DEFINE e == Transition("reserve", "applied", b, amount, now, {})
           h == Hold(chain, b)
<1>1. /\ Typed /\ CallsSound /\ MoneySound /\ GoneSound /\ EndsSound /\ TodoSound
      /\ now \in Nat /\ policy \in Policy /\ chain \in Seq(Line) /\ bank \in Seq(Block)
      /\ amount \in Nat
  BY DaysAreNat, SweepAssumption DEF SweepInv, Typed
<1>2. /\ at = "idle" /\ at' = "idle" /\ todo' = todo /\ now' = now
      /\ rail_id' = rail_id /\ policy' = policy /\ unrecorded = {} /\ unrecorded' = {}
      /\ chain' = Append(chain, e)
      /\ \/ bank' = bank
         \/ /\ bank[b].left > 0 /\ h.debited <= amount
            /\ bank' = [bank EXCEPT ![b].left = amount - h.debited]
  BY DEF Restates, given, sweep
<1>3. HeldBlocks(chain) \subseteq DOMAIN bank /\ b \in DOMAIN bank /\ b \in Nat
  BY <1>1, HeldInBank
<1>4. /\ e \in CallMade /\ e.kind = "rail_transition" /\ e.action = "reserve"
      /\ e.outcome = "applied" /\ e.block = b /\ e.amount = amount
  <2>1. {} \in Optional
    BY DEF Optional
  <2>. QED BY <1>1, <1>3, <2>1 DEF Transition, CallMade
<1> HIDE DEF e
<1>5. e \in Line
  BY <1>4 DEF Line
<1>6. /\ h.held \in Nat /\ h.debited \in Nat /\ h.released \in Nat /\ h.restated \in BOOLEAN
  BY <1>1, HoldIsTyped
<1>7. Money(h, 0, bank[b], Raised(chain, b))
  BY <1>1, <1>2, NothingDrawn DEF MoneySound, Held
<1>8. /\ bank' \in Seq(Block) /\ DOMAIN bank' = DOMAIN bank
      /\ bank'[b].ends = bank[b].ends /\ bank'[b].gone = bank[b].gone
      /\ \A c \in DOMAIN bank \ {b} : bank'[c] = bank[c]
      /\ \/ bank'[b].left = bank[b].left
         \/ bank[b].left > 0 /\ h.debited <= amount /\ bank'[b].left = amount - h.debited
  <2>1. CASE bank' = bank
    BY <1>1, <2>1
  <2>2. CASE /\ bank[b].left > 0 /\ h.debited <= amount
             /\ bank' = [bank EXCEPT ![b].left = amount - h.debited]
    <3> HIDE DEF h
    <3>1. amount - h.debited \in Nat
      BY <1>1, <1>6, <2>2
    <3>. QED BY <1>1, <1>3, <2>2, <3>1, LeftChanges
  <2>. QED BY <1>2, <2>1, <2>2
<1>9. Typed'
  BY <1>1, <1>2, <1>5, <1>8 DEF Typed
<1>10. CallsSound'
  BY <1>1, <1>2, <1>3, <1>4, <1>8 DEF CallsSound
<1>11. HeldBlocks(chain') = HeldBlocks(chain)
  <2>1. chain' = Append(chain, e) /\ chain \in Seq(Line)
    BY <1>1, <1>2
  <2>2. HeldBlocks(Append(chain, e)) = HeldBlocks(chain) \cup {b}
    BY <1>4, <1>5, <2>1, HeldBlocksGrow
  <2>. QED BY <2>1, <2>2
<1>12. ASSUME NEW c \in HeldBlocks(chain)
       PROVE  LET was == Hold(chain, c)
                  is  == Hold(chain', c)
              IN  /\ is.placed_at = was.placed_at /\ is.held = was.held
                  /\ is.ends_at = was.ends_at /\ is.debited = was.debited
                  /\ is.released = was.released
                  /\ is.restated = (was.restated \/ (c = b /\ amount # was.held))
  <2>1. CountsFor(e, "reserve", c) <=> c = b
    BY <1>4 DEF CountsFor
  <2>2. ~CountsFor(e, "debit", c) /\ ~CountsFor(e, "release", c)
    BY <1>4 DEF CountsFor
  <2>3. Hold(chain, c).restated \in BOOLEAN
    BY <1>1, <1>12, HoldIsTyped
  <2>. QED BY <1>1, <1>2, <1>4, <1>5, <1>12, <2>1, <2>2, <2>3, HoldGrows
<1>12a. ASSUME NEW c \in HeldBlocks(chain)
        PROVE  Raised(chain', c) <=> Raised(chain, c) \/ (c = b /\ amount > h.held)
  <2>1. CountsFor(e, "reserve", c) <=> c = b
    BY <1>4 DEF CountsFor
  <2>2. Raised(Append(chain, e), c)
          <=> Raised(chain, c) \/ (CountsFor(e, "reserve", c) /\ e.amount > Hold(chain, c).held)
    BY <1>1, <1>5, <1>12a, RaisedGrows
  <2>. QED BY <1>2, <1>4, <2>1, <2>2
<1>13. MoneySound'
  <2> SUFFICES ASSUME NEW c \in HeldBlocks(chain)
               PROVE  Money(Hold(chain', c), 0, bank'[c], Raised(chain', c))
    BY <1>2, <1>11, NothingDrawn DEF MoneySound, Held
  <2> DEFINE raised == Raised(chain', c)
  <2>1. CASE c # b
    <3> DEFINE was == Hold(chain, c)
               is  == Hold(chain', c)
    <3>1. Money(was, 0, bank[c], Raised(chain, c))
      BY <1>1, <1>2, NothingDrawn DEF MoneySound, Held
    <3>2. /\ is.held = was.held /\ is.debited = was.debited /\ is.released = was.released
          /\ is.restated = was.restated
      <4>1. was.restated \in BOOLEAN
        BY <1>1, HoldIsTyped
      <4>. QED BY <1>12, <2>1, <4>1
    <3>3. bank'[c] = bank[c] /\ (raised <=> Raised(chain, c))
      BY <1>3, <1>8, <1>12a, <2>1
    <3> HIDE DEF was, is, raised
    <3>4. Money(is, 0, bank'[c], raised)
      BY <3>1, <3>2, <3>3 DEF Money
    <3>. QED BY <3>4 DEF is, raised
  <2>2. CASE c = b
    <3> DEFINE is == Hold(chain', b)
    <3>1. /\ is.held = h.held /\ is.debited = h.debited /\ is.released = h.released
          /\ is.restated = (h.restated \/ amount # h.held)
      BY <1>12
    <3>2. bank[b] \in Block /\ bank'[b] \in Block
      BY <1>1, <1>3, <1>8
    <3>3. bank[b].left \in Nat
      BY <3>2 DEF Block
    <3>4. raised <=> Raised(chain, b) \/ amount > h.held
      BY <1>12a, <2>2
    <3> HIDE DEF is, h, raised
    <3>5. CASE bank'[b].left = bank[b].left
      <4>1. Money(is, 0, bank'[b], raised)
        BY <1>7, <1>8, <3>1, <3>4, <3>5 DEF Money
      <4>. QED BY <2>2, <4>1 DEF is, raised
    <3>6. CASE bank[b].left > 0 /\ h.debited <= amount /\ bank'[b].left = amount - h.debited
      <4>1. h.released = 0
        BY <1>6, <1>7, <3>3, <3>6 DEF Money
      <4>2. is.held - is.debited - is.released - 0 = h.held - h.debited /\ ~(is.released > 0)
        BY <1>6, <3>1, <4>1
      <4>3. ~raised => bank'[b].left <= h.held - h.debited
        BY <1>1, <1>6, <3>4, <3>6
      <4>4. ~is.restated => bank'[b].left = h.held - h.debited
        BY <3>1, <3>6
      <4>5. Money(is, 0, bank'[b], raised)
        BY <4>2, <4>3, <4>4 DEF Money
      <4>. QED BY <2>2, <4>5 DEF is, raised
    <3>. QED BY <1>8, <3>5, <3>6
  <2>. QED BY <2>1, <2>2
<1>14. \A c \in DOMAIN bank : bank'[c].ends = bank[c].ends /\ bank'[c].gone = bank[c].gone
  BY <1>8
<1>15. GoneSound'
  <2> SUFFICES ASSUME NEW c \in DOMAIN bank
               PROVE  /\ bank'[c].gone # "no" => bank'[c].left = 0
                      /\ bank'[c].gone = "rail" /\ TextKeeps => HasEnded(c)'
    BY <1>2, <1>8 DEF GoneSound, TextKeeps, Row
  <2>1. bank[c].gone # "no" => bank'[c].left = 0
    BY <1>1, <1>8 DEF GoneSound
  <2>2. bank[c].gone = "rail" /\ TextKeeps => HasEnded(c)'
    BY <1>1, <1>2, <1>14 DEF GoneSound, HasEnded
  <2>. QED BY <1>14, <2>1, <2>2
<1>16. EndsSound'
  <2>1. Row' = Row
    BY <1>2 DEF Row
  <2> SUFFICES ASSUME NEW c \in HeldBlocks(chain), NEW due \in ExpiryDue(Hold(chain', c), Row)
               PROVE  \E day \in bank'[c].ends : day <= due
    BY <1>2, <1>11, <2>1 DEF EndsSound, Held
  <2>2. ExpiryDue(Hold(chain', c), Row) = ExpiryDue(Hold(chain, c), Row)
    BY <1>12 DEF ExpiryDue
  <2>. QED BY <1>1, <1>3, <1>14, <2>2 DEF EndsSound, Held
<1>17. TodoSound'
  BY <1>1, <1>2 DEF TodoSound
<1>18. NotedOnce' /\ RailIsNotAccusedEarly'
  BY <1>1, <1>2, <1>4, <1>8, <1>14, NoticesStay DEF Later
<1>. QED BY <1>9, <1>10, <1>13, <1>15, <1>16, <1>17, <1>18 DEF SweepInv

(***************************************************************************)
(* The sweep.                                                              *)
(***************************************************************************)
LEMMA StartsKeep ==
  ASSUME SweepInv, StartsSweep
  PROVE  SweepInv'
<1>1. /\ at' = "sweeping" /\ todo' = Fresh(Orphans(Current(now))) /\ chain' = chain
      /\ bank' = bank /\ now' = now /\ rail_id' = rail_id /\ policy' = policy
      /\ unrecorded' = unrecorded
  BY DEF StartsSweep, given
<1>2. Typed'
  BY <1>1 DEF SweepInv, Typed
<1>3. CallsSound' /\ MoneySound' /\ GoneSound'
  BY <1>1 DEF SweepInv, CallsSound, MoneySound, Held, GoneSound, TextKeeps, Row, HasEnded
<1>4. EndsSound'
  BY <1>1 DEF SweepInv, EndsSound, Held, Row
<1>5. TodoSound'
  BY <1>1 DEF TodoSound, Fresh, Noted, Current, Row
<1>6. NotedOnce' /\ RailIsNotAccusedEarly'
  BY <1>1 DEF SweepInv, NotedOnce, RailIsNotAccusedEarly, HasEnded
<1>. QED BY <1>2, <1>3, <1>4, <1>5, <1>6 DEF SweepInv

LEMMA EndsKeep ==
  ASSUME SweepInv, EndsSweep
  PROVE  SweepInv'
<1>1. /\ at' = "idle" /\ todo' = {} /\ chain' = chain
      /\ bank' = bank /\ now' = now /\ rail_id' = rail_id /\ policy' = policy
      /\ unrecorded' = unrecorded
  BY DEF EndsSweep, given
<1>2. Typed'
  BY <1>1 DEF SweepInv, Typed
<1>3. CallsSound' /\ MoneySound' /\ GoneSound'
  BY <1>1 DEF SweepInv, CallsSound, MoneySound, Held, GoneSound, TextKeeps, Row, HasEnded
<1>4. EndsSound'
  BY <1>1 DEF SweepInv, EndsSound, Held, Row
<1>5. TodoSound'
  BY <1>1 DEF TodoSound
<1>6. NotedOnce' /\ RailIsNotAccusedEarly'
  BY <1>1 DEF SweepInv, NotedOnce, RailIsNotAccusedEarly, HasEnded
<1>. QED BY <1>2, <1>3, <1>4, <1>5, <1>6 DEF SweepInv

\* What a sweep has still to write is what the chain's clocks say now.
LEMMA TodoReads ==
  ASSUME SweepInv, NEW o \in todo
  PROVE  /\ at = "sweeping" /\ o \in AllObligations(chain, RowOf(rail_id), policy, now)
         /\ o.status \in {"overdue", "unresolved"} /\ <<o.clock, o.block>> \notin Noted
<1>1. at = "sweeping" /\ todo = Fresh(Orphans(Current(now)))
  BY DEF SweepInv, Typed, TodoSound
<1>. QED BY <1>1 DEF Fresh, Orphans, Current, Row

LEMMA WritesKeep ==
  ASSUME SweepInv, NEW o \in todo, Writes(o)
  PROVE  SweepInv'
<1> DEFINE e == NoticeOf(o, now)
           b == o.block
<1>1. /\ Typed /\ CallsSound /\ MoneySound /\ GoneSound /\ EndsSound /\ TodoSound
      /\ now \in Nat /\ policy \in Policy /\ chain \in Seq(Line) /\ bank \in Seq(Block)
  BY DaysAreNat DEF SweepInv, Typed
<1>2. /\ at = "sweeping" /\ at' = at /\ todo' = todo \ {o} /\ now' = now /\ bank' = bank
      /\ rail_id' = rail_id /\ policy' = policy /\ unrecorded' = unrecorded
      /\ chain' = Append(chain, e)
  BY DEF Writes, given
<1>3. /\ o \in AllObligations(chain, RowOf(rail_id), policy, now)
      /\ o.status \in {"overdue", "unresolved"} /\ <<o.clock, o.block>> \notin Noted
  BY TodoReads
<1>4. LET h == Hold(chain, b)
      IN  /\ o.clock \in Clock /\ b \in HeldBlocks(chain) /\ b \in Nat
          /\ o.remainder \in Nat /\ o.due \in Nat
          /\ o.status \in {"overdue", "unresolved"} <=> o.remainder # 0 /\ now >= o.due
          /\ o.clock = "rail_hold_expiry" => o.due \in ExpiryDue(h, RowOf(rail_id))
  BY <1>1, <1>3, ObligationsTyped
<1>5. /\ e \in Line /\ e.kind = "obligation" /\ e.clock = o.clock /\ e.block = b
  BY <1>1, <1>4 DEF NoticeOf, Notice, Line, Noticed
<1> HIDE DEF e
<1>6. Typed'
  BY <1>1, <1>2, <1>5 DEF Typed
<1>7. /\ HeldBlocks(chain') = HeldBlocks(chain)
      /\ \A c \in HeldBlocks(chain) : Hold(chain', c) = Hold(chain, c)
      /\ AllObligations(chain', RowOf(rail_id), policy, now)
           = AllObligations(chain, RowOf(rail_id), policy, now)
  BY <1>1, <1>2, <1>5, NoticesDoNotCount
<1>8. HeldBlocks(chain) \subseteq DOMAIN bank /\ b \in DOMAIN bank
  BY <1>1, <1>4, HeldInBank
<1>9. CallsSound'
  <2>1. \A i \in DOMAIN chain' : chain'[i].block \in DOMAIN bank
    BY <1>1, <1>2, <1>5, <1>8 DEF CallsSound
  <2>. QED BY <1>1, <1>2, <1>7, <2>1 DEF CallsSound, Held
<1>10. MoneySound'
  <2>1. \A c \in HeldBlocks(chain) : Raised(chain', c) <=> Raised(chain, c)
    BY <1>1, <1>2, <1>5, RaisedGrows DEF CountsFor
  <2>2. \A c \in HeldBlocks(chain) :
          Money(Hold(chain, c), DrawnBy(unrecorded, c), bank[c], Raised(chain, c))
    BY <1>1 DEF MoneySound, Held
  <2>3. \A c \in HeldBlocks(chain) :
          Money(Hold(chain, c), DrawnBy(unrecorded, c), bank[c], Raised(chain', c))
    BY <2>1, <2>2 DEF Money
  <2>. QED BY <1>2, <1>7, <2>3 DEF MoneySound, Held
<1>11. GoneSound'
  BY <1>1, <1>2 DEF GoneSound, TextKeeps, Row, HasEnded
<1>12. EndsSound'
  BY <1>1, <1>2, <1>7 DEF EndsSound, Held, Row
<1>13. TodoSound'
  <2>1. Noted' = Noted \cup {<<o.clock, b>>}
    <3>1. /\ DOMAIN chain' = DOMAIN chain \cup {Len(chain) + 1}
          /\ chain'[Len(chain) + 1] = e
          /\ \A i \in DOMAIN chain : chain'[i] = chain[i]
      BY <1>1, <1>2
    <3>. QED BY <1>5, <3>1 DEF Noted
  <2>2. Current(now)' = Current(now)
    BY <1>2, <1>7 DEF Current, Row
  <2> DEFINE all == Orphans(Current(now))
  <2>3. \A p \in all : p.clock = o.clock /\ p.block = b => p = o
    <3> SUFFICES ASSUME NEW p \in all, p.clock = o.clock, p.block = b PROVE p = o
      OBVIOUS
    <3>1. p \in AllObligations(chain, RowOf(rail_id), policy, now)
      BY DEF Orphans, Current, Row
    <3>. QED BY <1>1, <1>3, <3>1, OneOfAKind
  <2>4. todo = {p \in all : <<p.clock, p.block>> \notin Noted}
    BY <1>1, <1>2 DEF TodoSound, Fresh
  <2> HIDE DEF all
  <2>5. todo \ {o} = {p \in all : <<p.clock, p.block>> \notin Noted \cup {<<o.clock, b>>}}
    BY <2>3, <2>4
  <2>6. (Fresh(Orphans(Current(now))))'
          = {p \in all : <<p.clock, p.block>> \notin Noted \cup {<<o.clock, b>>}}
    BY <1>2, <2>1, <2>2 DEF Fresh, Orphans, all
  <2>. QED BY <1>2, <2>5, <2>6 DEF TodoSound
<1>14. NotedOnce'
  <2>1. \A i \in DOMAIN chain : chain[i].kind = "obligation" =>
          ~(chain[i].clock = e.clock /\ chain[i].block = e.block)
    BY <1>3, <1>5 DEF Noted
  <2>2. NotedOnce
    BY DEF SweepInv
  <2>3. /\ DOMAIN chain' = DOMAIN chain \cup {Len(chain) + 1}
        /\ chain'[Len(chain) + 1] = e
        /\ \A i \in DOMAIN chain : chain'[i] = chain[i]
    BY <1>1, <1>2
  <2>. QED BY <2>1, <2>2, <2>3 DEF NotedOnce
<1>15. RailIsNotAccusedEarly'
  <2>1. RailIsNotAccusedEarly
    BY DEF SweepInv
  <2>2. o.clock = "rail_hold_expiry" => \E day \in bank[b].ends : now >= day
    <3> SUFFICES ASSUME o.clock = "rail_hold_expiry"
                 PROVE  \E day \in bank[b].ends : now >= day
      OBVIOUS
    <3>1. o.due \in ExpiryDue(Held(b), Row) /\ now >= o.due /\ o.due \in Nat
      BY <1>3, <1>4 DEF Held, Row
    <3>2. PICK day \in bank[b].ends : day <= o.due
      BY <1>1, <1>4, <3>1 DEF EndsSound
    <3>3. bank[b] \in Block
      BY <1>1, <1>8
    <3>4. day \in Nat
      BY <3>3 DEF Block
    <3>. QED BY <1>1, <3>1, <3>2, <3>4
  <2>3. /\ DOMAIN chain' = DOMAIN chain \cup {Len(chain) + 1}
        /\ chain'[Len(chain) + 1] = e
        /\ \A i \in DOMAIN chain : chain'[i] = chain[i]
    BY <1>1, <1>2
  <2>. QED BY <1>2, <1>5, <2>1, <2>2, <2>3 DEF RailIsNotAccusedEarly, HasEnded
<1>. QED BY <1>6, <1>9, <1>10, <1>11, <1>12, <1>13, <1>14, <1>15 DEF SweepInv

(***************************************************************************)
(* The rail, the customer, and time.                                       *)
(***************************************************************************)
LEMMA GivesBackKeeps ==
  ASSUME SweepInv, NEW b \in DOMAIN bank, NEW who \in {"rail", "customer"},
         who = "rail" /\ TextKeeps => HasEnded(b), GivesBack(b, who)
  PROVE  SweepInv'
<1>1. /\ Typed /\ CallsSound /\ MoneySound /\ GoneSound /\ EndsSound /\ TodoSound
      /\ now \in Nat /\ policy \in Policy /\ chain \in Seq(Line) /\ bank \in Seq(Block)
  BY DaysAreNat DEF SweepInv, Typed
<1>2. /\ at = "idle" /\ at' = at /\ todo' = todo /\ now' = now
      /\ rail_id' = rail_id /\ policy' = policy /\ unrecorded' = unrecorded /\ chain' = chain
      /\ bank[b].left > 0
      /\ bank' = [bank EXCEPT ![b].left = 0, ![b].gone = who]
  BY DEF GivesBack, given, sweep
<1>3. /\ bank' \in Seq(Block) /\ DOMAIN bank' = DOMAIN bank
      /\ bank'[b].left = 0 /\ bank'[b].ends = bank[b].ends /\ bank'[b].gone = who
      /\ \A c \in DOMAIN bank \ {b} : bank'[c] = bank[c]
  <2> DEFINE mid == [bank EXCEPT ![b].left = 0]
             row == [mid[b] EXCEPT !.gone = who]
  <2>1. bank' = [mid EXCEPT ![b] = row]
    BY <1>2
  <2>2. /\ mid \in Seq(Block) /\ DOMAIN mid = DOMAIN bank
        /\ mid[b].left = 0 /\ mid[b].ends = bank[b].ends
        /\ \A c \in DOMAIN bank \ {b} : mid[c] = bank[c]
    BY <1>1, LeftChanges
  <2> HIDE DEF mid
  <2>3. mid[b] \in Block
    BY <2>2
  <2>4. row \in Block /\ row.left = 0 /\ row.ends = bank[b].ends /\ row.gone = who
    BY <2>2, <2>3 DEF Block
  <2> HIDE DEF row
  <2>. QED BY <2>1, <2>2, <2>4
<1>4. \A c \in DOMAIN bank : bank'[c].ends = bank[c].ends
  BY <1>3
<1>5. HeldBlocks(chain) \subseteq DOMAIN bank
  BY <1>1, HeldInBank
<1>6. Typed'
  BY <1>1, <1>2, <1>3 DEF Typed
<1>7. CallsSound'
  <2>1. ASSUME NEW t \in unrecorded, t.action = "reserve"
        PROVE  bank'[t.block].left = IF bank'[t.block].gone = "no" THEN t.amount ELSE 0
    <3>1. /\ bank[t.block].left = IF bank[t.block].gone = "no" THEN t.amount ELSE 0
          /\ t.block \in DOMAIN bank
      BY <1>1, <2>1 DEF CallsSound
    <3>. QED BY <1>3, <3>1
  <2>2. ASSUME NEW c \in DOMAIN bank, bank[c].left = 0
        PROVE  bank'[c].left = 0
    BY <1>3, <2>2
  <2>. QED BY <1>1, <1>2, <1>3, <2>1, <2>2 DEF CallsSound
<1>8. MoneySound'
  <2> SUFFICES ASSUME NEW c \in HeldBlocks(chain)
               PROVE  Money(Hold(chain, c), DrawnBy(unrecorded, c), bank'[c], Raised(chain, c))
    BY <1>2 DEF MoneySound, Held
  <2>1. Money(Hold(chain, c), DrawnBy(unrecorded, c), bank[c], Raised(chain, c))
    BY <1>1 DEF MoneySound, Held
  <2>2. CASE c # b
    BY <1>3, <1>5, <2>1, <2>2
  <2>3. CASE c = b
    <3> DEFINE h == Hold(chain, b)
               drawn == DrawnBy(unrecorded, b)
               raised == Raised(chain, b)
    <3>1. h.held \in Nat /\ h.debited \in Nat /\ h.released \in Nat
      BY <1>1, <2>3, HoldIsTyped
    <3>2. drawn \in Nat
      <4>1. CASE unrecorded = {}
        BY <4>1, NothingDrawn
      <4>2. CASE unrecorded # {}
        <5>1. PICK t \in CallMade : unrecorded = {t}
          BY <1>1, <4>2 DEF Typed
        <5>2. t.amount \in Nat
          BY DEF CallMade
        <5>. QED BY <5>1, <5>2, OneDraws
      <4>. QED BY <4>1, <4>2
    <3>3. bank[b] \in Block
      BY <1>1
    <3>4. bank[b].left \in Nat
      BY <3>3 DEF Block
    <3>5. Money(h, drawn, bank[b], raised)
      BY <2>1, <2>3
    <3> HIDE DEF h, drawn, raised
    <3>6. Money(h, drawn, bank'[b], raised)
      BY <1>2, <1>3, <3>1, <3>2, <3>4, <3>5 DEF Money
    <3>. QED BY <2>3, <3>6 DEF h, drawn, raised
  <2>. QED BY <2>2, <2>3
<1>9. GoneSound'
  <2> SUFFICES ASSUME NEW c \in DOMAIN bank
               PROVE  /\ bank'[c].gone # "no" => bank'[c].left = 0
                      /\ bank'[c].gone = "rail" /\ TextKeeps => HasEnded(c)'
    BY <1>2, <1>3 DEF GoneSound, TextKeeps, Row
  <2>1. /\ bank[c].gone # "no" => bank[c].left = 0
        /\ bank[c].gone = "rail" /\ TextKeeps => HasEnded(c)
    BY <1>1 DEF GoneSound
  <2>2. HasEnded(c) => HasEnded(c)'
    BY <1>2, <1>4 DEF HasEnded
  <2>3. CASE c # b
    BY <1>3, <2>1, <2>2, <2>3
  <2>4. CASE c = b
    BY <1>3, <2>2, <2>4
  <2>. QED BY <2>3, <2>4
<1>10. EndsSound'
  <2>1. Row' = Row
    BY <1>2 DEF Row
  <2>. QED BY <1>1, <1>2, <1>4, <1>5, <2>1 DEF EndsSound, CallsSound, Held
<1>11. TodoSound'
  BY <1>1, <1>2 DEF TodoSound
<1>12. NotedOnce' /\ RailIsNotAccusedEarly'
  BY <1>1, <1>2, <1>3, <1>4, NoticesStay DEF Later
<1>. QED BY <1>6, <1>7, <1>8, <1>9, <1>10, <1>11, <1>12 DEF SweepInv

LEMMA TimeKeeps ==
  ASSUME SweepInv, TimePasses
  PROVE  SweepInv'
<1>1. /\ Typed /\ CallsSound /\ MoneySound /\ GoneSound /\ EndsSound /\ TodoSound
      /\ now \in Nat /\ policy \in Policy /\ chain \in Seq(Line) /\ bank \in Seq(Block)
  BY DaysAreNat DEF SweepInv, Typed
<1>2. /\ at = "idle" /\ at' = at /\ todo' = todo /\ now' > now /\ now' \in Moments
      /\ rail_id' = rail_id /\ policy' = policy /\ unrecorded' = unrecorded /\ chain' = chain
      /\ bank' = bank
  BY DEF TimePasses, given, sweep
<1>3. now' \in Nat
  BY <1>2, SweepAssumption
<1>4. Later
  BY <1>1, <1>2, <1>3 DEF Later
<1>5. Typed'
  BY <1>1, <1>2 DEF Typed
<1>6. CallsSound' /\ MoneySound'
  BY <1>1, <1>2 DEF CallsSound, MoneySound, Held
<1>7. GoneSound'
  <2>1. \A b \in DOMAIN bank : HasEnded(b) => HasEnded(b)'
    <3> SUFFICES ASSUME NEW b \in DOMAIN bank, HasEnded(b) PROVE HasEnded(b)'
      OBVIOUS
    <3>. QED BY <1>1, <1>4, EndedStays
  <2> SUFFICES ASSUME NEW c \in DOMAIN bank
               PROVE  /\ bank[c].gone # "no" => bank[c].left = 0
                      /\ bank[c].gone = "rail" /\ TextKeeps => HasEnded(c)'
    BY <1>2 DEF GoneSound, TextKeeps, Row
  <2>. QED BY <1>1, <2>1 DEF GoneSound
<1>8. EndsSound'
  <2>1. Row' = Row
    BY <1>2 DEF Row
  <2>2. ASSUME NEW t \in unrecorded, t.action = "reserve", t.ends = {}, NEW days \in Life(Row)
        PROVE  \E day \in bank[t.block].ends : day <= now' + days
    <3>1. PICK day \in bank[t.block].ends : day <= now + days
      BY <1>1, <2>2 DEF EndsSound
    <3>2. days \in Nat
      BY LifeIsOptional DEF Row, Optional
    <3>3. bank[t.block] \in Block
      BY <1>1 DEF CallsSound
    <3>4. day \in Nat
      BY <3>3 DEF Block
    <3>. QED BY <1>1, <1>2, <1>3, <3>1, <3>2, <3>4
  <2>. QED BY <1>1, <1>2, <2>1, <2>2 DEF EndsSound, Held
<1>9. TodoSound'
  BY <1>1, <1>2 DEF TodoSound
<1>10. NotedOnce' /\ RailIsNotAccusedEarly'
  BY <1>2, <1>4, NoticesStay
<1>. QED BY <1>5, <1>6, <1>7, <1>8, <1>9, <1>10 DEF SweepInv

LEMMA StutterKeeps ==
  ASSUME SweepInv, UNCHANGED vars
  PROVE  SweepInv'
<1>1. /\ at' = at /\ todo' = todo /\ chain' = chain /\ bank' = bank /\ now' = now
      /\ rail_id' = rail_id /\ policy' = policy /\ unrecorded' = unrecorded
  BY DEF vars, given, sweep
<1>2. Typed' /\ TodoSound'
  BY <1>1 DEF SweepInv, Typed, TodoSound, Fresh, Noted, Current, Row
<1>3. CallsSound' /\ MoneySound' /\ GoneSound' /\ EndsSound'
  BY <1>1 DEF SweepInv, CallsSound, MoneySound, Held, GoneSound, TextKeeps, Row, HasEnded,
              EndsSound
<1>4. NotedOnce' /\ RailIsNotAccusedEarly'
  BY <1>1 DEF SweepInv, NotedOnce, RailIsNotAccusedEarly, HasEnded
<1>. QED BY <1>2, <1>3, <1>4 DEF SweepInv

(***************************************************************************)
(* Every state of every behaviour.                                         *)
(***************************************************************************)
LEMMA SweepStarts ==
  ASSUME Init
  PROVE  SweepInv
<1>1. chain = <<>> /\ bank = <<>> /\ unrecorded = {} /\ at = "idle" /\ todo = {}
  BY DEF Init
<1>2. HeldBlocks(chain) = {}
  BY <1>1 DEF HeldBlocks
<1>3. Typed
  BY <1>1, SweepAssumption DEF Init, Typed
<1>4. CallsSound /\ MoneySound /\ GoneSound /\ EndsSound /\ TodoSound
  BY <1>1, <1>2 DEF CallsSound, MoneySound, GoneSound, EndsSound, TodoSound
<1>5. NotedOnce /\ RailIsNotAccusedEarly
  BY <1>1 DEF NotedOnce, RailIsNotAccusedEarly
<1>. QED BY <1>3, <1>4, <1>5 DEF SweepInv

LEMMA SweepStep ==
  ASSUME SweepInv, [Next]_vars
  PROVE  SweepInv'
<1>1. CASE SessionActs
  <2>1. ASSUME NEW amount \in Ceilings, NEW ends \in EndDates,
               Reserves(amount, {now + days : days \in ends})
        PROVE  SweepInv'
    BY <2>1, ReservesKeep
  <2>2. ASSUME NEW b \in HeldBlocks(chain), NEW amount \in Amounts, Draws("debit", b, amount)
        PROVE  SweepInv'
    BY <2>2, SweepAssumption, DrawsKeep
  <2>3. ASSUME NEW b \in HeldBlocks(chain), NEW most \in Available(b), Draws("release", b, most)
        PROVE  SweepInv'
    <3>1. most \in Nat
      BY <2>3, AvailableIsNat DEF SweepInv, Typed
    <3>. QED BY <2>3, <3>1, DrawsKeep
  <2>4. CASE Records
    BY <2>4, RecordsKeep
  <2>5. ASSUME NEW b \in HeldBlocks(chain), NEW amount \in Ceilings \cup Amounts,
               Restates(b, amount)
        PROVE  SweepInv'
    BY <2>5, RestatesKeep
  <2>. QED BY <1>1, <2>1, <2>2, <2>3, <2>4, <2>5 DEF SessionActs
<1>2. CASE Sweeps
  BY <1>2, StartsKeep, WritesKeep, EndsKeep DEF Sweeps
<1>3. CASE World
  <2>1. ASSUME NEW b \in DOMAIN bank, RailReturns(b)
        PROVE  SweepInv'
    BY <2>1, GivesBackKeeps DEF RailReturns
  <2>2. ASSUME NEW b \in DOMAIN bank, CustomerRevokes(b)
        PROVE  SweepInv'
    BY <2>2, GivesBackKeeps DEF CustomerRevokes
  <2>. QED BY <1>3, <2>1, <2>2, TimeKeeps DEF World
<1>. QED BY <1>1, <1>2, <1>3, StutterKeeps DEF Next

LEMMA SweepAlways == Spec => []SweepInv
BY SweepStarts, SweepStep, PTL DEF Spec

\* Whoever runs the session and however often it dies, its state has its types:
\* what a sweep has still to write is of a known clock and of a block the rail
\* has, nothing is left over between sweeps, and one call at most has no outcome
\* on the chain.
THEOREM SweepTyped == Spec => []TypeOK
<1>1. SweepInv => TypeOK
  <2> SUFFICES ASSUME SweepInv PROVE TypeOK
    OBVIOUS
  <2>1. /\ policy \in Policies /\ now \in Moments /\ chain \in Seq(Line) /\ bank \in Seq(Block)
        /\ unrecorded \subseteq CallMade /\ \A s, t \in unrecorded : s = t
        /\ at \in {"idle", "sweeping"} /\ now \in Nat /\ policy \in Policy
    BY DaysAreNat DEF SweepInv, Typed
  <2>2. \A i \in DOMAIN chain : chain[i].kind \in {"rail_transition", "obligation"}
    <3>1. SUFFICES ASSUME NEW i \in DOMAIN chain
                   PROVE  chain[i].kind \in {"rail_transition", "obligation"}
      OBVIOUS
    <3>2. chain[i] \in Line
      BY <2>1, <3>1
    <3>. QED BY <3>2 DEF Line, CallMade, Noticed
  <2>3. Cardinality(unrecorded) <= 1
    <3>1. CASE unrecorded = {}
      BY <3>1, FS_EmptySet
    <3>2. CASE unrecorded # {}
      <4>1. PICK t \in unrecorded : unrecorded = {t}
        BY <2>1, <3>2
      <4>2. Cardinality({t}) = 1
        BY FS_Singleton, Zenon
      <4>3. Cardinality(unrecorded) = 1
        BY <4>1, <4>2, Zenon
      <4>. QED BY <4>3
    <3>. QED BY <3>1, <3>2
  <2>4. at = "idle" => todo = {}
    BY DEF SweepInv, TodoSound
  <2>5. \A o \in todo : o.clock \in Clock /\ o.block \in DOMAIN bank
    <3>1. SUFFICES ASSUME NEW o \in todo PROVE o.clock \in Clock /\ o.block \in DOMAIN bank
      OBVIOUS
    <3>2. o \in AllObligations(chain, RowOf(rail_id), policy, now)
      BY <3>1 DEF SweepInv, TodoSound, Fresh, Orphans, Current, Row
    <3>3. o.clock \in Clock /\ o.block \in HeldBlocks(chain)
      BY <2>1, <3>2, ObligationsTyped
    <3>. QED BY <3>3, HeldInBank DEF SweepInv
  <2>. QED BY <2>1, <2>2, <2>3, <2>4, <2>5 DEF TypeOK
<1>. QED BY <1>1, SweepAlways, PTL

\* However often it runs and dies, a sweep writes a clock of a hold once.
THEOREM NoticesAreSingle == Spec => []NotedOnce
<1>1. SweepInv => NotedOnce
  BY DEF SweepInv
<1>. QED BY <1>1, SweepAlways, PTL

\* A chain calls no rail's deadline passed before the rail's own end.
THEOREM AccusationIsDue == Spec => []RailIsNotAccusedEarly
<1>1. SweepInv => RailIsNotAccusedEarly
  BY DEF SweepInv
<1>. QED BY <1>1, SweepAlways, PTL

\* Where no call is in doubt, what the rail has is no more than remains, if the
\* ceiling was not raised; and just that, if it was not restated.
LEMMA RemainderBounds ==
  ASSUME SweepInv, unrecorded = {}, NEW b \in HeldBlocks(chain)
  PROVE  LET h == Hold(chain, b)
         IN  /\ bank[b].left \in Nat
             /\ ~Raised(chain, b) => bank[b].left <= Remainder(h)
             /\ ~h.restated /\ bank[b].gone = "no" => bank[b].left = Remainder(h)
<1> DEFINE h == Hold(chain, b)
           raised == Raised(chain, b)
<1>1. Money(h, 0, bank[b], raised) /\ chain \in Seq(Line)
  BY NothingDrawn DEF SweepInv, Typed, MoneySound, Held
<1>2. /\ h.held \in Nat /\ h.debited \in Nat /\ h.released \in Nat
      /\ Remainder(h) = IF h.held < h.debited + h.released THEN 0
                        ELSE h.held - h.debited - h.released
  BY <1>1, HoldIsTyped, RemainderIs
<1>3. bank[b] \in Block
  BY HeldInBank DEF SweepInv, Typed
<1>4. bank[b].left \in Nat
  BY <1>3 DEF Block
<1> HIDE DEF h, raised
<1>5. ~raised => bank[b].left <= Remainder(h)
  BY <1>1, <1>2, <1>4 DEF Money
<1>6. ~h.restated /\ bank[b].gone = "no" => bank[b].left = Remainder(h)
  BY <1>1, <1>2, <1>4 DEF Money
<1>. QED BY <1>4, <1>5, <1>6 DEF h, raised

\* What a sweep is about to sign as overdue the rail does hold, to the paisa.
THEOREM OverdueIsTrue == Spec => []OverdueIsHeld
<1>1. ASSUME SweepInv PROVE OverdueIsHeld
  <2> SUFFICES ASSUME NEW o \in todo, o.status = "overdue", unrecorded = {},
                      bank[o.block].gone # "customer", ~HasEnded(o.block)
               PROVE  bank[o.block].left = o.remainder
    BY DEF OverdueIsHeld
  <2> DEFINE h == Hold(chain, o.block)
  <2>1. /\ now \in Nat /\ policy \in Policy /\ chain \in Seq(Line)
        /\ o \in AllObligations(chain, RowOf(rail_id), policy, now)
    BY <1>1, DaysAreNat, TodoReads DEF SweepInv, Typed
  <2>2. /\ o.block \in HeldBlocks(chain) /\ o.remainder = Remainder(h)
        /\ ~h.restated /\ KeepsRemainder(Row)
    BY <2>1, ObligationsTyped DEF Row
  <2>3. TextKeeps
    BY <2>2 DEF KeepsRemainder, TextKeeps
  <2>4. o.block \in DOMAIN bank
    BY <1>1, <2>2, HeldInBank DEF SweepInv
  <2>5. bank[o.block] \in Block
    BY <1>1, <2>4 DEF SweepInv, Typed
  <2>6. bank[o.block].gone # "rail"
    BY <1>1, <2>3, <2>4 DEF SweepInv, GoneSound
  <2>7. bank[o.block].gone = "no"
    BY <2>5, <2>6 DEF Block
  <2>. QED BY <1>1, <2>2, <2>7, RemainderBounds
<1>. QED BY <1>1, SweepAlways, PTL

\* A sweep that has nothing left to write has noted every clock that has run
\* out on money that remains.
LEMMA OrphansAreNoted ==
  ASSUME SweepInv, at = "sweeping", todo = {},
         NEW o \in AllObligations(chain, RowOf(rail_id), policy, now),
         o.remainder # 0, now >= o.due
  PROVE  <<o.clock, o.block>> \in Noted
<1>1. now \in Nat /\ policy \in Policy /\ chain \in Seq(Line)
  BY DaysAreNat DEF SweepInv, Typed
<1>2. o.status \in {"overdue", "unresolved"}
  BY <1>1, ObligationsTyped
<1>3. Fresh(Orphans(Current(now))) = {}
  BY DEF SweepInv, TodoSound
<1>4. o \in Orphans(Current(now))
  BY <1>2 DEF Orphans, Current, Row
<1>. QED BY <1>3, <1>4 DEF Fresh

\* No deadline a person set passes unnoticed on a block that has money, but for
\* a ceiling restated upward on a block drawn on up to the first (MetTooSoon):
\* of every other hold the chain computes a remainder, whatever the rail, and
\* however often the record is repeated or the ceiling restated.
THEOREM SweepForgetsNothing == Spec => []NothingIsForgotten
<1>1. ASSUME SweepInv PROVE NothingIsForgotten
  <2> DEFINE Moves(action, b) == Applied(chain, action, b)
             Late(i, days) == chain[i].at + days <= now
             Idle(b) == \E d \in policy.idle :
                          \A i \in Moves("debit", b) \cup {Min(Moves("reserve", b))} : Late(i, d)
             Over(b) == \E d \in policy.ceiling : Late(Min(Moves("reserve", b)), d)
  <2> SUFFICES ASSUME at = "sweeping", todo = {}, unrecorded = {},
                      NEW b \in HeldBlocks(chain), bank[b].left > 0, ~MetTooSoon(b)
               PROVE  /\ ~FreesRemainder(Row) /\ (Idle(b) \/ Over(b))
                            => <<"remainder_release", b>> \in Noted
                      /\ (\E d \in policy.resolve_by : d <= now) => <<"resolve_by", b>> \in Noted
    BY DEF NothingIsForgotten
  <2> DEFINE h == Hold(chain, b)
             rail == RowOf(rail_id)
             dues == RemainderDue(h, policy)
  <2>1. now \in Nat /\ policy \in Policy /\ chain \in Seq(Line)
    BY <1>1, DaysAreNat DEF SweepInv, Typed
  <2>2. Remainder(h) # 0
    <3>1. CASE ~Raised(chain, b)
      <4>1. bank[b].left <= Remainder(h) /\ bank[b].left \in Nat
        BY <1>1, <3>1, RemainderBounds
      <4> HIDE DEF h
      <4>. QED BY <4>1
    <3>2. CASE Raised(chain, b)
      <4>1. h.held = chain[Placing(chain, b)].amount
        BY HoldPlace
      <4>2. ~(h.debited + h.released >= h.held)
        BY <3>2, <4>1 DEF MetTooSoon, Raised
      <4>3. /\ h.held \in Nat /\ h.debited \in Nat /\ h.released \in Nat
            /\ Remainder(h) = IF h.held < h.debited + h.released THEN 0
                              ELSE h.held - h.debited - h.released
        BY <2>1, HoldIsTyped, RemainderIs
      <4> HIDE DEF h
      <4>. QED BY <4>2, <4>3
    <3>. QED BY <3>1, <3>2
  <2>3. h.block = b /\ h.placed_at \in Nat
    BY <2>1, HoldIsTyped
  <2>4. /\ dues \in SUBSET Nat /\ policy.resolve_by \in SUBSET Nat
    BY <2>1, DueIsNat
  <2>5. ASSUME NEW clock, NEW due, NEW acts, due <= now,
               Runs(Obligation(clock, h, due, now, acts), h, rail, policy, now)
        PROVE  <<clock, b>> \in Noted
    <3> DEFINE o == Obligation(clock, h, due, now, acts)
    <3>1. o.clock = clock /\ o.block = b /\ o.due = due /\ o.remainder = Remainder(h)
      BY <2>3, ObligationIs
    <3>2. Runs(o, h, rail, policy, now)
      BY <2>5
    <3> HIDE DEF o
    <3>3. o \in AllObligations(chain, rail, policy, now)
      BY <3>1, <3>2, AllReads, ClocksRun
    <3>4. now >= o.due
      BY <2>5, <3>1
    <3>. QED BY <1>1, <2>2, <3>1, <3>3, <3>4, OrphansAreNoted
  <2>6. ASSUME ~FreesRemainder(Row), Idle(b) \/ Over(b)
        PROVE  <<"remainder_release", b>> \in Noted
    <3> DEFINE placed == Placing(chain, b)
    <3>1. placed = Min(Moves("reserve", b)) /\ h.placed_at = chain[placed].at
      BY HoldPlace DEF Placing
    <3>2. PICK due \in dues : due <= now
      <4>1. CASE Over(b)
        <5>1. PICK d \in policy.ceiling : chain[placed].at + d <= now
          BY <3>1, <4>1
        <5>2. h.placed_at + d \in dues
          <6> HIDE DEF h
          <6>. QED BY DEF RemainderDue
        <5>. QED BY <3>1, <5>1, <5>2
      <4>2. CASE Idle(b)
        <5>1. PICK d \in policy.idle :
                \A i \in Moves("debit", b) \cup {placed} : chain[i].at + d <= now
          BY <3>1, <4>2
        <5>2. PICK touched \in Touched(h) : touched + d <= now
          <6> DEFINE S == Since(chain, "debit", b)
          <6>1. CASE S = {}
            <7>1. h.last_debit_at = {}
              BY <6>1, HoldTouched
            <7>. QED BY <3>1, <5>1, <7>1 DEF Touched
          <6>2. CASE S # {}
            <7>1. Max(S) \in Moves("debit", b)
              BY <2>1, <6>2, SinceIsFinite
            <7>2. h.last_debit_at = {chain[Max(S)].at}
              BY <6>2, HoldTouched
            <7> HIDE DEF S, h
            <7>. QED BY <5>1, <7>1, <7>2 DEF Touched
          <6>. QED BY <6>1, <6>2
        <5>3. touched + d \in dues
          <6> HIDE DEF h
          <6>. QED BY DEF RemainderDue
        <5>. QED BY <5>2, <5>3
      <4>. QED BY <2>6, <4>1, <4>2
    <3>3. Min(dues) <= now /\ dues # {}
      <4> HIDE DEF dues
      <4>1. Min(dues) \in dues /\ Min(dues) <= due
        BY <2>4, MinIsLeast
      <4>2. Min(dues) \in Nat /\ due \in Nat
        BY <2>4, <4>1
      <4>. QED BY <2>1, <3>2, <4>1, <4>2
    <3>4. Runs(Obligation("remainder_release", h, Min(dues), now, ~KeepsRemainder(rail)),
               h, rail, policy, now)
      <4> DEFINE o == Obligation("remainder_release", h, Min(dues), now, ~KeepsRemainder(rail))
      <4>1. o.clock = "remainder_release"
        BY ObligationIs
      <4>2. ~FreesRemainder(rail)
        BY <2>6 DEF Row
      <4>. QED BY <3>3, <4>1, <4>2, Zenon DEF Runs
    <3>. QED BY <2>5, <3>3, <3>4
  <2>7. ASSUME NEW d \in policy.resolve_by, d <= now
        PROVE  <<"resolve_by", b>> \in Noted
    <3>1. Runs(Obligation("resolve_by", h, d, now, ~KeepsRemainder(rail)), h, rail, policy, now)
      <4> DEFINE o == Obligation("resolve_by", h, d, now, ~KeepsRemainder(rail))
      <4>1. o.clock = "resolve_by"
        BY ObligationIs
      <4>. QED BY <2>7, <4>1, Zenon DEF Runs
    <3>. QED BY <2>5, <2>7, <3>1
  <2>. QED BY <2>6, <2>7
<1>. QED BY <1>1, SweepAlways, PTL

(***************************************************************************)
(* Met is final.                                                           *)
(***************************************************************************)
LEMMA MetStays ==
  ASSUME NEW lines \in Seq(Line), NEW e \in Line, NEW b \in HeldBlocks(lines),
         Remainder(Hold(lines, b)) = 0
  PROVE  Remainder(Hold(Append(lines, e), b)) = 0
<1> DEFINE was == Hold(lines, b)
           is  == Hold(Append(lines, e), b)
<1>1. b \in HeldBlocks(Append(lines, e)) /\ Append(lines, e) \in Seq(Line)
  BY HeldBlocksGrow
<1>2. /\ was.held \in Nat /\ was.debited \in Nat /\ was.released \in Nat
      /\ is.held \in Nat /\ is.debited \in Nat /\ is.released \in Nat
  BY <1>1, HoldIsTyped
<1>3. /\ Remainder(was) = IF was.held < was.debited + was.released THEN 0
                          ELSE was.held - was.debited - was.released
      /\ Remainder(is) = IF is.held < is.debited + is.released THEN 0
                         ELSE is.held - is.debited - is.released
  BY <1>1, RemainderIs
<1>4. \A action : CountsFor(e, action, b) => e.amount \in Nat
  BY DEF CountsFor, Line, CallMade, Noticed
<1>5. /\ is.held = was.held
      /\ is.debited = IF CountsFor(e, "debit", b) THEN was.debited + e.amount ELSE was.debited
      /\ is.released
           = IF CountsFor(e, "release", b) THEN was.released + e.amount ELSE was.released
  BY HoldGrows
<1> HIDE DEF was, is
<1>6. is.debited >= was.debited /\ is.released >= was.released
  BY <1>2, <1>4, <1>5
<1>7. Remainder(was) = 0
  BY DEF was
<1>8. was.held <= was.debited + was.released
  BY <1>2, <1>3, <1>7
<1>9. is.held <= is.debited + is.released
  BY <1>2, <1>5, <1>6, <1>8
<1>10. Remainder(is) = 0
  BY <1>2, <1>3, <1>9
<1>. QED BY <1>10 DEF is

LEMMA OneLine ==
  ASSUME [Next]_vars
  PROVE  /\ rail_id' = rail_id /\ policy' = policy
         /\ chain' = chain \/ \E e : chain' = Append(chain, e)
<1>1. CASE SessionActs
  BY <1>1 DEF SessionActs, Reserves, Draws, Calls, Records, Restates, given
<1>2. CASE Sweeps
  BY <1>2 DEF Sweeps, StartsSweep, Writes, EndsSweep, given
<1>3. CASE World
  BY <1>3 DEF World, RailReturns, CustomerRevokes, GivesBack, TimePasses, given
<1>4. CASE UNCHANGED vars
  BY <1>4 DEF vars, given
<1>. QED BY <1>1, <1>2, <1>3, <1>4 DEF Next

\* A clock that was met stays met, whatever is recorded after it.
THEOREM MetIsForever == Spec => MetIsFinal
<1>1. ASSUME SweepInv, SweepInv', [Next]_vars
      PROVE  \A o \in Current(now) : o.status = "met" =>
               \A p \in Current(now)' :
                 p.clock = o.clock /\ p.block = o.block => p.status = "met"
  <2> SUFFICES ASSUME NEW o \in Current(now), o.status = "met",
                      NEW p \in Current(now)', p.block = o.block
               PROVE  p.status = "met"
    OBVIOUS
  <2>1. /\ now \in Nat /\ policy \in Policy /\ chain \in Seq(Line)
        /\ now' \in Nat /\ chain' \in Seq(Line)
    BY <1>1, SweepAssumption DEF SweepInv, Typed
  <2>2. /\ rail_id' = rail_id /\ policy' = policy
        /\ chain' = chain \/ \E e : chain' = Append(chain, e)
    BY <1>1, OneLine
  <2>3. /\ o \in AllObligations(chain, RowOf(rail_id), policy, now)
        /\ p \in AllObligations(chain', RowOf(rail_id), policy, now')
    BY <2>2 DEF Current, Row
  <2>4. /\ o.block \in HeldBlocks(chain) /\ Remainder(Hold(chain, o.block)) = 0
    BY <2>1, <2>3, ObligationsTyped
  <2>5. Remainder(Hold(chain', o.block)) = 0
    <3>1. CASE chain' = chain
      BY <2>4, <3>1
    <3>2. CASE \E e : chain' = Append(chain, e)
      <4>1. PICK e : chain' = Append(chain, e)
        BY <3>2
      <4>2. e \in Line
        <5>1. chain'[Len(chain) + 1] = e /\ Len(chain) + 1 \in DOMAIN chain'
          BY <2>1, <4>1
        <5>. QED BY <2>1, <5>1
      <4>. QED BY <2>1, <2>4, <4>1, <4>2, MetStays
    <3>. QED BY <2>2, <3>1, <3>2
  <2>6. p.remainder = Remainder(Hold(chain', o.block))
    BY <2>1, <2>3, ObligationsTyped
  <2>7. p.status = "met" <=> p.remainder = 0
    BY <2>1, <2>3, ObligationsTyped
  <2>. QED BY <2>5, <2>6, <2>7
<1>2. SweepInv /\ SweepInv' /\ [Next]_vars =>
        [\A o \in Current(now) : o.status = "met" =>
           \A p \in Current(now)' :
             p.clock = o.clock /\ p.block = o.block => p.status = "met"]_vars
  BY <1>1
<1>. QED BY <1>2, SweepAlways, PTL DEF Spec, MetIsFinal

=============================================================================
