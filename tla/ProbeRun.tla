------------------------------ MODULE ProbeRun ------------------------------
(***************************************************************************)
(* One run of a probe (probes/runner.py) by the Cashfree harness           *)
(* (probes/cashfree.py): the steps in order, each on the hold the first    *)
(* one placed, against a sandbox that permits what it permits.  A request  *)
(* may go without an answer, and the sandbox has then acted or has not.    *)
(*                                                                         *)
(* Nothing else touches the hold of a run, so a step is one action; only   *)
(* the captures of a race compete, and they do so in the sandbox.          *)
(***************************************************************************)
EXTENDS ProbeCatalogue, FiniteSets

CONSTANTS
  MaxFaults,       \* bound on requests without an answer, crashes, failed writes
  MaxDeviations    \* in how many rows the sandbox may differ from the registry

ASSUME ProbeAssumption == MaxFaults \in Nat /\ MaxDeviations \in Nat

\* What the registry says of the sandbox, for the rows a probe asks about.
Asked(probe) == {probe.rules[i].capability : i \in DOMAIN probe.rules}
ProbedRows == UNION {Asked(PROBES[p]) : p \in DOMAIN PROBES}
RowsPermit == {name \in ProbedRows : Permits(CASHFREE_PREAUTH, name)}

VARIABLES
  permits,    \* the sandbox: what it permits
  hold,       \* the sandbox: the hold of the run
  run,        \* the run in hand
  faults,
  late,       \* the sandbox once had not settled an approval when it was asked
  race        \* how many captures of the last race the sandbox took

probing == <<permits, hold, run, late, race>>

\* A sandbox that makes sense: what one row says does not contradict another.
Consistent(p) ==
  /\ "capture_after_void" \in p => "partial_debit" \in p
  /\ "multiple_captures" \in p => "concurrent_capture_single_winner" \notin p
  /\ "idempotent_capture_replay" \notin p =>
       ("idempotency_key_reuse_refused" \in p <=> ~({"multiple_captures", "over_capture"} \subseteq p))

Sandboxes ==
  {p \in SUBSET ProbedRows :
     Consistent(p) /\ Cardinality((p \ RowsPermit) \cup (RowsPermit \ p)) <= MaxDeviations}

NewHold == [paid |-> FALSE, voided |-> FALSE, taken |-> 0, first |-> {}]

NoRun == [probe |-> "none", next |-> 0, ok |-> {}, by_step |-> <<>>]

Fault == faults < MaxFaults /\ faults' = faults + 1
NoFault == faults' = faults

(***************************************************************************)
(* The sandbox.  An answer is a status, what the body says, and the hold   *)
(* afterwards; a key answers again what it answered first.                 *)
(***************************************************************************)
CanCapture(amount) ==
  /\ hold.paid
  /\ hold.voided => "capture_after_void" \in permits
  /\ hold.taken > 0 => "multiple_captures" \in permits
  /\ amount < HOLD => "partial_debit" \in permits
  /\ hold.taken + amount > HOLD => "over_capture" \in permits

CanVoid ==
  /\ hold.paid /\ ~hold.voided
  /\ hold.taken = 0 => "void_whole_hold" \in permits
  /\ hold.taken > 0 => "void_after_partial_capture" \in permits

Reply(status, body, after) == [status |-> status, body |-> body, hold |-> after]
Refuses == Reply(400, {}, hold)

\* The first request that took effect under a key.
FirstUnder(action, key) == {f \in hold.first : key # "" /\ f.action = action /\ f.key = key}
Remembers(action, key, amount) ==
  hold.first \cup {[action |-> action, key |-> key, amount |-> amount]}

AnswersCapture(amount, key) ==
  LET first == IF "idempotent_capture_replay" \in permits THEN FirstUnder("CAPTURE", key) ELSE {}
  IN  CASE \E f \in first : f.amount = amount \/ "idempotency_key_reuse_refused" \notin permits ->
             Reply(200, {<<"captured_amount", f.amount>> : f \in first}, hold)
        [] first = {} /\ CanCapture(amount) ->
             Reply(200, {<<"captured_amount", hold.taken + amount>>},
                  [hold EXCEPT !.taken = @ + amount, !.first = Remembers("CAPTURE", key, amount)])
        [] OTHER -> Refuses

AnswersVoid(key) ==
  LET first == IF "idempotent_void_replay" \in permits THEN FirstUnder("VOID", key) ELSE {}
  IN  CASE first # {} -> Reply(200, {<<"action", "VOID">>}, hold)
        [] first = {} /\ CanVoid ->
             Reply(200, {<<"action", "VOID">>},
                  [hold EXCEPT !.voided = TRUE, !.first = Remembers("VOID", key, 0)])
        [] OTHER -> Refuses

RefusesIf(row) == IF row \in permits THEN Refuses ELSE Reply(200, {}, hold)

\* The operations that are one request.
AnswerTo(step) ==
  CASE step.op = "capture"        -> AnswersCapture(step.amount, step.idempotency_key)
    [] step.op = "void"           -> AnswersVoid(step.idempotency_key)
    [] step.op = "recreate_order" -> RefusesIf("duplicate_order_refused")
    [] step.op = "pay_again"      -> RefusesIf("payment_replay_refused")

ReadsPayments ==
  Exchange("payments", 200,
           {<<"payment_status", IF hold'.paid THEN "SUCCESS" ELSE "NOT_ATTEMPTED">>,
            <<"is_captured", hold'.paid /\ "funds_held_in_customer_account" \notin permits>>})

(***************************************************************************)
(* The steps of a run.                                                     *)
(***************************************************************************)
probe == PROBES[run.probe]
step == probe.steps[run.next]
IsRunning == run.probe # "none"
AtStep(op) == IsRunning /\ run.next <= Len(probe.steps) /\ step.op = op
IsOver == IsRunning /\ run.next > Len(probe.steps)

Performed(exchanges, ok) ==
  run' = [run EXCEPT
    !.next = @ + 1,
    !.ok = IF ok THEN @ \cup {step.name} ELSE @,
    !.by_step = [s \in DOMAIN @ \cup {step.name} |-> IF s = step.name THEN exchanges ELSE @[s]]]

\* A step whose hold did not complete is skipped.
IsBlocked == ~(step.needs \subseteq run.ok)

\* No response, one that cannot be an answer, and an error of the server:
\* in each the sandbox may have acted.
NoAnswer == {NoStatus, 401, 408, 500}

Starts(p) ==
  /\ run = NoRun
  /\ run' = [NoRun EXCEPT !.probe = p, !.next = 1]
  /\ hold' = NewHold /\ race' = 0
  /\ UNCHANGED <<permits, faults, late>>

HoldRequests == <<"order_create", "pay_collect", "simulate">>

\* _op_hold: an order, a collect, the sandbox's approval; then two reads.
HoldStops ==
  /\ AtStep("hold") /\ Fault
  /\ \E n \in 1 .. 3, status \in NoAnswer \cup {400} :
       Performed([i \in 1 .. n |-> Exchange(HoldRequests[i], IF i = n THEN status ELSE 200, {})], FALSE)
  /\ UNCHANGED <<permits, hold, late, race>>

HoldIsPlaced ==
  /\ AtStep("hold")
  /\ \E settled \in BOOLEAN, read \in BOOLEAN :
       /\ IF settled /\ read THEN NoFault ELSE Fault
       /\ hold' = [hold EXCEPT !.paid = settled]
       /\ late' = (late \/ ~settled)
       /\ Performed([i \in 1 .. 3 |-> Exchange(HoldRequests[i], 200, {})] \o
                      <<Exchange("order", 200, {}),
                        IF read THEN ReadsPayments ELSE Exchange("payments", NoStatus, {})>>, TRUE)
  /\ UNCHANGED <<permits, race>>

Asks ==
  /\ AtStep("capture") \/ AtStep("void") \/ AtStep("recreate_order") \/ AtStep("pay_again")
  /\ ~IsBlocked
  /\ \/ /\ NoFault
        /\ hold' = AnswerTo(step).hold
        /\ Performed(<<Exchange(step.op, AnswerTo(step).status, AnswerTo(step).body)>>, TRUE)
     \/ /\ Fault
        /\ hold' \in {hold, AnswerTo(step).hold}
        /\ \E status \in NoAnswer : Performed(<<Exchange(step.op, status, {})>>, TRUE)
  /\ UNCHANGED <<permits, late, race>>

Fetches ==
  /\ AtStep("fetch") /\ ~IsBlocked
  /\ Performed([i \in 1 .. 3 |-> Exchange(<<"order", "payments", "refunds">>[i], 200, {})], TRUE)
  /\ UNCHANGED <<permits, hold, faults, late, race>>

\* The captures of a race the sandbox takes, of those that reach it.
Winners(reached) ==
  IF reached = {} \/ ~CanCapture(FIRST) THEN {{}}
  ELSE IF "multiple_captures" \in permits THEN {reached}
  ELSE IF "concurrent_capture_single_winner" \in permits THEN {{i} : i \in reached}
  ELSE SUBSET reached \ {{}}

\* Mutant of RaceSummary: a capture without an answer is a loser.
RaceSummaryOfAnswers(won, unanswered) ==
  Exchange("summary", 200, {<<"single_winner", won = 1>>, <<"multiple_winners", won >= 2>>})

RaceSummary(won, unanswered) ==
  Exchange("summary", 200, {<<"single_winner", won = 1 /\ unanswered = 0>>,
                            <<"multiple_winners", won >= 2>>})

\* _op_capture_parallel: three captures at one instant, and their summary.
Races ==
  /\ AtStep("capture_parallel") /\ ~IsBlocked
  /\ \E lost \in SUBSET (1 .. 3) :
       /\ faults + Cardinality(lost) <= MaxFaults
       /\ faults' = faults + Cardinality(lost)
       /\ \E arrived \in SUBSET lost :
            \E won \in Winners(((1 .. 3) \ lost) \cup arrived) :
              /\ race' = Cardinality(won)
              /\ Performed([i \in 1 .. 3 |-> Exchange("capture",
                              CASE i \in lost -> NoStatus [] i \in won \ lost -> 200 [] OTHER -> 400, {})]
                           \o <<RaceSummary(Cardinality(won \ lost), Cardinality(lost))>>, TRUE)
  /\ UNCHANGED <<permits, hold, late>>

Skips ==
  /\ IsRunning /\ run.next <= Len(probe.steps) /\ IsBlocked
  /\ run' = [run EXCEPT !.next = @ + 1]
  /\ UNCHANGED <<permits, hold, faults, late, race>>

Probes == HoldStops \/ HoldIsPlaced \/ Asks \/ Fetches \/ Races \/ Skips

InitProbing ==
  /\ permits \in Sandboxes
  /\ hold = NewHold /\ run = NoRun /\ faults = 0 /\ late = FALSE /\ race = 0

\* Only an answer to the question is a finding: what a run that is over has
\* found is what the sandbox permits, whatever went unanswered.  Of a race
\* "yes" says that exactly one capture was taken.  Not where the sandbox had
\* not settled the approval when the probe went on to its question.
FindingIsTheAnswer ==
  IsOver /\ ~late =>
    LET found == Findings(probe, run.by_step)
    IN  \A c \in DOMAIN found :
          /\ found[c] = "no" => c \notin permits
          /\ found[c] = "yes" => IF c = "concurrent_capture_single_winner" THEN race = 1
                                 ELSE c \in permits

=============================================================================
