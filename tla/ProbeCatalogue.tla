--------------------------- MODULE ProbeCatalogue ---------------------------
(***************************************************************************)
(* The probes (probes/model.py, probes/catalogue.py) and how a finding is  *)
(* read from what was answered (probes/runner.py).                         *)
(*                                                                         *)
(* An exchange is a request and its answer: the class of its status, and   *)
(* the facts of its body as pairs of a path and a value.  A finding is     *)
(* "yes", "no", or "unknown" when nothing was learned.  Redaction, the     *)
(* wording of a basis, and the reasons for an unknown are left out.        *)
(***************************************************************************)
EXTENDS RailTable, Sequences

\* Paise.
HOLD == 62000
PART == 47000
OVER == 70000
FIRST == 30000
SECOND == 20000
THIRD == 10000

(***************************************************************************)
(* What counts as an answer.                                               *)
(***************************************************************************)
StatusClass == {"2xx", "4xx", "inconclusive"}
ANSWERS == {"2xx", "4xx"}

NoStatus == 0                                  \* no response came

\* Mutant of status_class: a request that timed out counts as refused.
ClassOfAny(status) == CASE status \in 200 .. 299 -> "2xx"
                        [] status \in 400 .. 499 -> "4xx"
                        [] OTHER                 -> "inconclusive"

status_class(status) ==
  CASE status \in 200 .. 299                          -> "2xx"
    [] status \in (400 .. 499) \ {401, 403, 408, 429} -> "4xx"
    [] OTHER                                          -> "inconclusive"

Exchange(label, status, body) == [label |-> label, status |-> status, body |-> body]

(***************************************************************************)
(* Steps and rules.                                                        *)
(***************************************************************************)
\* Every step but the first works on the hold the first one placed.
Step(name, op, amount, idempotency_key) ==
  [name |-> name, op |-> op, amount |-> amount, idempotency_key |-> idempotency_key,
   needs |-> {"hold"}]

Hold == [Step("hold", "hold", HOLD, "") EXCEPT !.needs = {}]
Capture(name, amount, idempotency_key) == Step(name, "capture", amount, idempotency_key)
Void(name, idempotency_key) == Step(name, "void", 0, idempotency_key)
Observe == Step("observe", "fetch", 0, "")

\* The answer a rule reads: of a step the exchange of a label, or its last.
Rule(capability, step, supported, status, after) ==
  [capability |-> capability, step |-> step, supported |-> supported, status |-> status,
   label |-> "", where |-> {}, after |-> after]

ReadAt(rule, label, where) == [rule EXCEPT !.label = label, !.where = where]

\* A 2xx supports it, a semantic 4xx refuses it.
Answers(capability, step, after) ==
  <<Rule(capability, step, "yes", "2xx", after), Rule(capability, step, "no", "4xx", after)>>

\* It is the refusal that supports it.
Refusal(capability, step, after) ==
  <<Rule(capability, step, "yes", "4xx", after), Rule(capability, step, "no", "2xx", after)>>

\* The same key repeats the first result, and another key does not.
Replay(capability, first, where) ==
  <<ReadAt(Rule(capability, "replay", "yes", "2xx", {<<first, "2xx">>, <<"control", "4xx">>}),
           "", where),
    Rule(capability, "replay", "no", "4xx", {<<first, "2xx">>})>>

Probe(steps, rules) == [steps |-> <<Hold>> \o steps, rules |-> rules]

(***************************************************************************)
(* The probes of the Cashfree sandbox.                                     *)
(***************************************************************************)
PartialCapture ==
  Probe(<<Capture("capture", PART, ""), Observe>>,
        Answers("partial_debit", "capture", {}) \o
        <<ReadAt(Rule("funds_held_in_customer_account", "hold", "yes", "2xx", {}), "payments",
                 {<<"is_captured", FALSE>>, <<"payment_status", "SUCCESS">>}),
          ReadAt(Rule("funds_held_in_customer_account", "hold", "no", "2xx", {}), "payments",
                 {<<"is_captured", TRUE>>})>>)

VoidWholeHold ==
  Probe(<<Void("void", ""), Observe>>, Answers("void_whole_hold", "void", {}))

VoidAfterPartialCapture ==
  Probe(<<Capture("capture", PART, ""), Void("void", "")>>,
        Answers("void_after_partial_capture", "void", {<<"capture", "2xx">>}))

OverCapture ==
  Probe(<<Capture("capture", OVER, "")>>, Answers("over_capture", "capture", {}))

CaptureAfterVoid ==
  Probe(<<Void("void", ""), Capture("capture", PART, "")>>,
        Answers("capture_after_void", "capture", {<<"void", "2xx">>}))

\* Mutant of DoubleCapture: the first capture is not asked to have succeeded.
DoubleCaptureUnguarded ==
  Probe(<<Capture("capture1", FIRST, ""), Capture("capture2", SECOND, "")>>,
        Answers("multiple_captures", "capture2", {}))

DoubleCapture ==
  Probe(<<Capture("capture1", FIRST, ""), Capture("capture2", SECOND, "")>>,
        Answers("multiple_captures", "capture2", {<<"capture1", "2xx">>}))

IdempotentCaptureReplay ==
  Probe(<<Capture("capture1", PART, "k1"), Capture("replay", PART, "k1"),
          Capture("control", PART, "k2")>>,
        Replay("idempotent_capture_replay", "capture1", {<<"captured_amount", PART>>}))

IdempotentVoidReplay ==
  Probe(<<Void("void1", "k1"), Void("replay", "k1"), Void("control", "k2")>>,
        Replay("idempotent_void_replay", "void1", {<<"action", "VOID">>}))

DuplicateOrderRefused ==
  Probe(<<Step("again", "recreate_order", HOLD, "")>>,
        Refusal("duplicate_order_refused", "again", {}))

PaymentReplayRefused ==
  Probe(<<Step("again", "pay_again", 0, "")>>, Refusal("payment_replay_refused", "again", {}))

IdempotencyKeyReuseRefused ==
  Probe(<<Capture("capture1", PART, "k1"), Capture("reuse", FIRST, "k1")>>,
        Refusal("idempotency_key_reuse_refused", "reuse", {<<"capture1", "2xx">>}))

ConcurrentCapture ==
  Probe(<<Step("race", "capture_parallel", 0, "")>>,
        <<ReadAt(Rule("concurrent_capture_single_winner", "race", "yes", "2xx", {}),
                 "summary", {<<"single_winner", TRUE>>}),
          ReadAt(Rule("concurrent_capture_single_winner", "race", "no", "2xx", {}),
                 "summary", {<<"multiple_winners", TRUE>>})>>)

PROBES ==
  [partial_capture |-> PartialCapture, void_whole_hold |-> VoidWholeHold,
   void_after_partial_capture |-> VoidAfterPartialCapture, over_capture |-> OverCapture,
   capture_after_void |-> CaptureAfterVoid, double_capture |-> DoubleCapture,
   idempotent_capture_replay |-> IdempotentCaptureReplay,
   idempotent_void_replay |-> IdempotentVoidReplay,
   duplicate_order_refused |-> DuplicateOrderRefused,
   payment_replay_refused |-> PaymentReplayRefused,
   idempotency_key_reuse_refused |-> IdempotencyKeyReuseRefused,
   concurrent_capture |-> ConcurrentCapture]

(***************************************************************************)
(* Reading a run.  "by_step" gives the exchanges of each step that was     *)
(* performed.                                                              *)
(***************************************************************************)
Selected(rule, exchanges) ==
  IF rule.label = ""
    THEN IF exchanges = <<>> THEN {} ELSE {exchanges[Len(exchanges)]}
    ELSE {exchanges[i] : i \in {i \in DOMAIN exchanges : exchanges[i].label = rule.label}}

AnsweredAs(by_step, step, class) ==
  /\ step \in DOMAIN by_step
  /\ by_step[step] # <<>>
  /\ status_class(by_step[step][Len(by_step[step])].status) = class

\* Mutant of Precondition: every rule applies.
NoPrecondition(rule, by_step) == TRUE

Precondition(rule, by_step) ==
  \A needed \in rule.after : AnsweredAs(by_step, needed[1], needed[2])

Matches(rule, exchange) ==
  /\ status_class(exchange.status) = rule.status
  /\ rule.where \subseteq exchange.body

Reads(rule, by_step) ==
  /\ Precondition(rule, by_step)
  /\ rule.step \in DOMAIN by_step
  /\ \E e \in Selected(rule, by_step[rule.step]) : Matches(rule, e)

\* The first rule that reads an answer decides; a question without one has
\* no answer.
Supported(probe, capability, by_step) ==
  LET hits == {i \in DOMAIN probe.rules :
                 probe.rules[i].capability = capability /\ Reads(probe.rules[i], by_step)}
  IN  IF hits = {} THEN "unknown"
      ELSE probe.rules[CHOOSE i \in hits : \A j \in hits : i <= j].supported

Findings(probe, by_step) ==
  [capability \in {probe.rules[i].capability : i \in DOMAIN probe.rules} |->
     Supported(probe, capability, by_step)]

=============================================================================
