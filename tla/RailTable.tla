----------------------------- MODULE RailTable -----------------------------
(***************************************************************************)
(* The rail capability registry (rails/semantics.py, rails/reference.py):  *)
(* what each payment rail permits, and on what evidence.  A row is a       *)
(* capability with an answer and the tier of the source it was read in; a  *)
(* limit is a number.  Quotes, citations, notes, dates and units are left  *)
(* out: no decision reads them.  What decisions read is at the end: what a *)
(* rail permits, why not, and whether an amount exceeds a limit.           *)
(***************************************************************************)
EXTENDS Integers

(***************************************************************************)
(* Evidence.                                                               *)
(***************************************************************************)
SourceTier == {"primary", "observed", "secondary", "marketing", "unverified"}

\* SourceTier.is_fact.
Fact == {"primary", "observed", "secondary"}

\* A row says yes or no, unless nothing was established.
Capability ==
  [name: STRING, supported: {"yes", "no"}, tier: SourceTier \ {"unverified"}]
    \cup [name: STRING, supported: {"unknown"}, tier: {"unverified"}]

\* Rows read in sources of one tier: what they affirm and what they deny.
Rows(tier, yes, no) ==
  [name: yes, supported: {"yes"}, tier: {tier}]
    \cup [name: no, supported: {"no"}, tier: {tier}]

Unverified(names) == [name: names, supported: {"unknown"}, tier: {"unverified"}]

NoLimits == [name \in {} |-> 0]

Rail(capabilities, limits) == [capabilities |-> capabilities, limits |-> limits]

(***************************************************************************)
(* CONCEPTS: the vocabulary rails are compared in.                         *)
(***************************************************************************)
Concepts ==
  {"funds_held_in_customer_account", "payment_guarantee", "partial_debit",
   "over_capture", "multiple_captures", "partial_void", "void_whole_hold",
   "void_after_partial_capture", "capture_after_void",
   "remainder_auto_released", "expiry_auto_release",
   "incremental_authorization", "buffered_authorisation",
   "capped_initial_authorization", "manual_capture", "idempotent_replay",
   "idempotent_capture_replay", "idempotent_void_replay",
   "duplicate_order_refused", "payment_replay_refused",
   "idempotency_key_reuse_refused", "concurrent_capture_single_winner",
   "settled_amount_verifiable_against_usage", "post_delivery_debit_goods",
   "block_amount_modifiable_without_revoke"}

(***************************************************************************)
(* UPI Reserve Pay: NPCI's single block, multiple debits.                  *)
(***************************************************************************)
SbmdLimits ==
  [max_block_amount |-> 1000000,             \* paise
   max_block_validity_days |-> 90,
   max_active_blocks_per_merchant |-> 1]

SbmdDebits ==
  Rows("primary",
       {"post_delivery_debit_variable_amount_services", "partial_debit",
        "merchant_eligibility_restricted"},
       {"payment_guarantee", "post_delivery_debit_goods",
        "block_creation_agent_initiable"})

SbmdBlock ==
  Rows("primary",
       {"p2m_only", "multi_debit", "funds_held_in_customer_account"},
       {"remainder_auto_released"})
    \cup Rows("secondary", {"merchant_revocable"}, {})

SbmdScope ==
  Rows("primary",
       {"customer_revocable", "purpose_code_77_for_online_goods",
        "block_validity_90_days", "single_active_block_per_merchant"}, {})

SbmdModification ==
  Rows("secondary",
       {"block_amount_modifiable_without_revoke", "block_modify_requires_customer_afa"}, {})
    \cup Unverified({"block_amount_reducible_without_revoke"})

SbmdRelease == Rows("secondary", {}, {"remainder_release_without_teardown"})

SBMD == Rail(SbmdDebits \cup SbmdBlock \cup SbmdScope \cup SbmdModification \cup SbmdRelease,
             SbmdLimits)

(***************************************************************************)
(* The other rails the system was written against.                         *)
(***************************************************************************)
RAZORPAY_AUTH_CAPTURE ==
  Rail(Rows("secondary", {"manual_capture", "expiry_auto_release"},
            {"partial_debit", "funds_held_in_customer_account", "over_capture",
             "multiple_captures"}),
       [hold_expiry_days |-> 3, auto_refund_speed_working_days_max |-> 7])

UPI_OTM ==
  Rail(Rows("secondary", {"partial_debit"}, {}) \cup Unverified({"post_delivery_debit_goods"}),
       NoLimits)

CashfreeHold ==
  Rows("observed", {"partial_debit", "funds_held_in_customer_account"},
       {"void_after_partial_capture"})
    \cup Rows("secondary", {},
              {"partial_void", "multiple_captures", "self_serve_enablement"})
    \cup Unverified({"remainder_auto_released"})

CashfreeMeasured ==
  Rows("observed",
       {"void_whole_hold", "idempotent_capture_replay", "idempotent_void_replay",
        "duplicate_order_refused", "payment_replay_refused",
        "idempotency_key_reuse_refused", "concurrent_capture_single_winner"},
       {"over_capture", "capture_after_void"})

CashfreeLimits == [hold_expiry_days |-> 7]

CASHFREE_PREAUTH == Rail(CashfreeHold \cup CashfreeMeasured, CashfreeLimits)

SETU_UMAP ==
  Rail(Rows("observed", {"credentials_self_serve"}, {"documented_api_hosts_resolve"})
         \cup Rows("secondary", {"block_amount_modifiable_without_revoke"}, {}),
       NoLimits)

(***************************************************************************)
(* Reference rails: card networks and their processors.                    *)
(***************************************************************************)
VisaReversals ==
  Rows("secondary",
       {"funds_held_in_customer_account", "partial_debit", "partial_void",
        "void_after_partial_capture", "void_whole_hold"}, {})

VisaAmounts ==
  Rows("secondary", {"incremental_authorization", "capped_initial_authorization"},
       {"buffered_authorisation", "remainder_auto_released"})
    \cup Unverified({"over_capture"})

VisaLimits ==
  [hold_expiry_days_lodging_vehicle_rental_cruise |-> 30,
   hold_expiry_days_rental_merchant_categories |-> 10,
   hold_expiry_days_card_absent_cardholder_initiated |-> 10,
   hold_expiry_days_card_present |-> 5,
   reversal_deadline_hours |-> 24,
   reversal_deadline_hours_excess_after_completion |-> 24]

VISA_CARD_AUTH == Rail(VisaReversals \cup VisaAmounts, VisaLimits)

StripeCaptures ==
  Rows("secondary",
       {"funds_held_in_customer_account", "partial_debit", "remainder_auto_released",
        "multiple_captures", "over_capture", "void_whole_hold"}, {})
    \cup Unverified({"payment_guarantee"})

StripeChanges ==
  Rows("secondary",
       {"incremental_authorization", "idempotent_replay", "void_after_partial_capture"}, {})
    \cup Unverified({"partial_void"})

StripeLimits ==
  [hold_expiry_days |-> 7, hold_expiry_days_extended |-> 30,
   idempotency_key_retention_hours_min |-> 24]

STRIPE_CARD_MANUAL_CAPTURE == Rail(StripeCaptures \cup StripeChanges, StripeLimits)

AdyenCapabilities ==
  Rows("secondary",
       {"funds_held_in_customer_account", "partial_debit", "remainder_auto_released",
        "multiple_captures", "partial_void", "incremental_authorization",
        "void_whole_hold", "idempotent_replay"},
       {"over_capture"})

AdyenLimits == [hold_expiry_days |-> 28, idempotency_key_retention_hours_min |-> 168]

ADYEN_CARD_AUTH == Rail(AdyenCapabilities, AdyenLimits)

(***************************************************************************)
(* Reference rails: the schemes of x402.                                   *)
(***************************************************************************)
X402 == Rail(Rows("primary", {"idempotent_replay"}, {}), NoLimits)

X402_EXACT ==
  Rail(Rows("primary", {},
            {"partial_debit", "over_capture", "funds_held_in_customer_account"}),
       NoLimits)

X402_UPTO_EVM ==
  Rail(Rows("primary", {"partial_debit"},
            {"over_capture", "multiple_captures", "funds_held_in_customer_account",
             "settled_amount_verifiable_against_usage"}),
       NoLimits)

X402_UPTO_SVM ==
  Rail(Rows("primary",
            {"funds_held_in_customer_account", "partial_debit",
             "remainder_auto_released", "void_whole_hold"},
            {"over_capture", "multiple_captures",
             "settled_amount_verifiable_against_usage"}),
       NoLimits)

X402_AUTH_CAPTURE ==
  Rail(Rows("primary",
            {"funds_held_in_customer_account", "partial_debit", "multiple_captures",
             "void_whole_hold", "void_after_partial_capture"},
            {"over_capture", "partial_void", "remainder_auto_released",
             "incremental_authorization"}),
       NoLimits)

X402_BATCH_SETTLEMENT ==
  Rail(Rows("primary",
            {"funds_held_in_customer_account", "partial_debit", "multiple_captures",
             "partial_void"},
            {"remainder_auto_released", "settled_amount_verifiable_against_usage"}),
       [withdraw_delay_max_days |-> 30])

Rails ==
  [sbmd |-> SBMD, razorpay_auth_capture |-> RAZORPAY_AUTH_CAPTURE, upi_otm |-> UPI_OTM,
   cashfree_preauth |-> CASHFREE_PREAUTH, setu_umap |-> SETU_UMAP,
   visa_card_auth |-> VISA_CARD_AUTH,
   stripe_card_manual_capture |-> STRIPE_CARD_MANUAL_CAPTURE,
   adyen_card_auth |-> ADYEN_CARD_AUTH,
   x402 |-> X402, x402_exact |-> X402_EXACT, x402_upto_evm |-> X402_UPTO_EVM,
   x402_upto_svm |-> X402_UPTO_SVM, x402_auth_capture |-> X402_AUTH_CAPTURE,
   x402_batch_settlement |-> X402_BATCH_SETTLEMENT]

(***************************************************************************)
(* What decisions read.                                                    *)
(***************************************************************************)
RowsFor(rail, name) == {c \in rail.capabilities : c.name = name}

Permits(rail, name) ==
  \E c \in RowsFor(rail, name) : c.supported = "yes" /\ c.tier \in Fact

\* explain: the reason a capability is allowed or refused.
Explain(rail, name) ==
  IF RowsFor(rail, name) = {} THEN "declares no such capability"
  ELSE LET c == CHOOSE row \in RowsFor(rail, name) : TRUE
       IN  IF c.tier \notin Fact THEN "not usable as fact"
           ELSE IF c.supported = "yes" THEN "permitted by the rail"
           ELSE "forbidden by the rail"

\* exceeds: no stated bound is not a bound of zero.
Exceeds(rail, limit, value) ==
  limit \in DOMAIN rail.limits /\ value > rail.limits[limit]

\* The registry is well formed: one row for a name, evidence as the tier
\* demands, and every name two rails share is a concept, every concept used.
WellFormed ==
  LET Names(id) == {c.name : c \in Rails[id].capabilities}
      Used == UNION {Names(id) : id \in DOMAIN Rails}
      Users(name) == {id \in DOMAIN Rails : name \in Names(id)}
  IN  /\ \A id \in DOMAIN Rails :
           /\ Rails[id].capabilities \subseteq Capability
           /\ \A c, d \in Rails[id].capabilities : c.name = d.name => c = d
      /\ Concepts \subseteq Used
      /\ \A name \in Used \ Concepts : \A i, j \in Users(name) : i = j

=============================================================================
