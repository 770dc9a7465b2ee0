----------------------------- MODULE Adjudicate -----------------------------
(***************************************************************************)
(* The adjudicator (dispute/adjudicate.py): what a signed record shows     *)
(* when a cardholder disputes a charge.  It holds the packet and the       *)
(* mandate the human signed, never the rail or the session.  The chain is  *)
(* the session's, which knows no refunds, and so are the properties: what  *)
(* the engine permitted, the rail did and the session recorded is what the *)
(* adjudicator finds.                                                      *)
(***************************************************************************)
EXTENDS SessionProperties

Finding == {"supports_merchant", "supports_cardholder", "charge_not_in_chain",
            "outside_evidence", "evidence_tampered", "mandate_unverified"}

\* A cardholder's claim, perhaps about one amount.
Assertion == {"unauthorized", "amount", "wrong_payee", "non_delivery"}
Claims(amounts) == [assertion: Assertion, disputed: {{}} \cup {{a} : a \in amounts}]

\* What comes with a claim: a packet that verifies or not, and a mandate that
\* is signed, unsigned or altered, and is or is not the grant of the record.
Files == [intact: BOOLEAN, binding: {"verified", "absent", "broken"}, ran_under: BOOLEAN]

\* Mutant of EffectiveDebits: a debit counts by its name alone.
DebitsByName(record) ==
  {i \in DOMAIN record :
     record[i].kind \in {"applied", "rail_rejected"} /\ record[i].call.action = "debit"}

\* A debit the rail rejected is an attempt, not a charge.
EffectiveDebits(record) == ChargedOnRecord(record)

Net(record) == SumFunction([i \in EffectiveDebits(record) |-> record[i].call.amount])

\* Mutant of DebitsInDoubt: an attempt without an outcome is no charge.
NoDebitsInDoubt(record) == {}

DebitsInDoubt(record) == {p \in UnresolvedInDoubt(record) : record[p].call.action = "debit"}

NotAmongDebits(record, claim) ==
  \E amount \in claim.disputed :
    \A i \in EffectiveDebits(record) : record[i].call.amount # amount

\* Mutant of BreaksGrant: a debit of all that a transaction may be is too much.
BreaksGrantAtCap(record) ==
  \E i \in EffectiveDebits(record) : record[i].call.amount >= InitialCaps.max_per_txn

\* Was every debit inside the grant the human signed, widenings not counted?
BreaksGrant(record) ==
  \/ \E i \in EffectiveDebits(record) :
       \/ record[i].call.amount > InitialCaps.max_per_txn
       \/ ~PermitsPayee(record[i].call.payee)
  \/ Net(record) > InitialCaps.max_total

\* _reason, the walk once record and grant are trusted.
Reason(record, claim) ==
  LET uncharged == Net(record) <= 0 \/ NotAmongDebits(record, claim)
  IN  CASE claim.assertion = "non_delivery" -> "outside_evidence"
        [] claim.assertion # "non_delivery" /\ uncharged ->
             IF DebitsInDoubt(record) # {} THEN "outside_evidence" ELSE "charge_not_in_chain"
        [] OTHER -> IF BreaksGrant(record) THEN "supports_cardholder" ELSE "supports_merchant"

Finds(record, files, claim) ==
  CASE ~files.intact -> "evidence_tampered"
    [] files.intact /\ (files.binding = "broken" \/ ~files.ran_under) -> "mandate_unverified"
    [] OTHER -> Reason(record, claim)

(***************************************************************************)
(* Properties, of a session that is up and has told its chain what it      *)
(* knows: every intent has an outcome, or is written down as in doubt.     *)
(***************************************************************************)
Told == at = "idle" /\ Dangling(chain) = UnresolvedInDoubt(chain)

Verdicts == {Finds(chain, files, claim) : files \in Files, claim \in Claims(Amounts)}

\* The engine judges before the rail acts and the adjudicator after: unless a
\* human widened the grant, nothing the engine let through is ever found to be
\* a charge outside it, whatever the agent asked for and the rail rejected.
AdjudicatorFollowsEngine ==
  /\ Verdicts \subseteq Finding
  /\ (\A i \in DOMAIN chain : chain[i].kind # "widened") => "supports_cardholder" \notin Verdicts

\* What is found is true of the rail, to which the adjudicator has no access:
\* a charge that is found not to be there was not made, and the net it reports
\* is what the customer paid, except for a call it says is in doubt.
FindingIsTrue ==
  LET made == {s.request.call.amount : s \in {x \in rail.seen : x.request.call.action = "debit"}}
      trusted == [intact |-> TRUE, binding |-> "verified", ran_under |-> TRUE]
  IN  Told => \A claim \in Claims(Amounts) :
        LET finding == Finds(chain, trusted, claim)
        IN  /\ finding = "charge_not_in_chain" /\ claim.disputed = {} => Debited = 0
            /\ finding = "charge_not_in_chain" => claim.disputed \cap made = {}
            /\ finding = "supports_merchant" /\ DebitsInDoubt(chain) = {} =>
                 Net(chain) = Debited

=============================================================================
