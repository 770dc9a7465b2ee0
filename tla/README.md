# Formal verification of Amanat

Amanat lets an agent that is not trusted spend money it does not hold: a human
grants an envelope, a deterministic policy engine judges every call, a bank-side
rail holds and moves the money, and a signed chain records all of it, ahead of
the rail. This directory holds TLA+ models of that code, the TLC runs that check
them on small instances, and theorems about them checked by TLAPS. Paths below
are relative to `src/src/amanat/` unless they begin with `src/`, `tests/` or `web/`.

## 1. Inventory

| Component | State it keeps | Operations | Hard behaviour |
|---|---|---|---|
| Agent session (`orchestrator/session.py`) | ledger (`blocked`, `debited`, `released`), caps in force, block handle and payee, call in doubt | `reserve`, `debit`, `release`, `propose_raise`, `approve_raise_signed`, `resolve_in_doubt`, `sweep`, resume | write-ahead intent, crash between any two steps, lost answers, retries, widenings that interleave with all of it |
| Policy engine (`policy/engine.py`, `envelope.py`) | none | `evaluate` | stale ledger, budget over many blocks, partial debits |
| Consent (`policy/consent.py`) | none | build, sign, verify a widening | replay of an old consent |
| Simulated rail (`rails/simulator.py`, `base.py`) | customer balance, blocks, keys seen | `reserve`, `debit`, `release`, `revoke` | deduplication by key, teardown, the customer acting alone |
| Capability registry (`rails/semantics.py`, `reference.py`) | none (a table) | `permits`, `explain`, `exceeds` | - |
| Evidence chain (`evidence/chain.py`, `canonical.py`) | entries in memory and on disk | `append`, `load`, `checkpoint`, `verify_packet` | torn writes, disk before memory, truncation |
| Transitions and adjudicator (`evidence/transitions.py`, `dispute/adjudicate.py`) | none | `unresolved_in_doubt`, `adjudicate` | judging an incomplete record |
| Obligations (`policy/obligations.py`) | none (reads a chain) | `holds`, `obligations`, `orphans` | clocks, replays, a sweep that must write once |
| Settlement (`rails/settlement.py`, `razorpay.py`) | none; the payment is at the rail, the trail on the chain | `settle_capture_refund` | capture without refund, ambiguous answers, repeated runs |
| Reconciliation (`rails/reconcile.py`) | none | `reconcile` | chains that span several runs |
| Cashfree adapter (`rails/cashfree.py`) | results by key, in the process | the rail operations over HTTP, `_resume`, `get_block` | half-done reservations, restarts that forget the keys |
| Tool dispatch (`orchestrator/backends.py`) | none | `dispatch` | malformed calls must be recorded |
| Evidence store (`registry/store.py`) | a file of linked records | `append`, `verify`, `records` | concurrent writers, torn lines |
| Probe runner (`probes/`) | the exchanges of a run, by step | `run`, the rules of each probe, `record`, `history` | a failing step among dependent ones, lost answers, two captures at once, what no answer may not be taken for |
| Citation watch (`registry/watch.py`) | pages fetched in a run | `match_quote`, `watch`, `record` | a page that cannot be read is no evidence against a quote; fragments in order; rows edited after a check |
| Registry export (`registry/export.py`) | none (reads the table and the store) | `build` | reading a store that others extend |
| Web application (`web/app.py`) | hits per client and bucket | `check`, `reset`; each request drives its own session | window edge |

How they interact: `dispatch` turns a model's tool call into a session operation.
The session appends the proposal to the chain, asks the engine (which appends its
verdict), appends the intent, calls the rail with a key made of the proposal's
position, and appends what came back. A resumed session reads only the chain and
asks the rail for the block's handle. Auditors (the adjudicator, obligations,
reconciliation) read only the chain, the last one also the rail. Beside the money,
the registry: the table of what each rail can do, which the engine, the adapters and
the clocks ask; the probe runner and the citation watch record in the evidence store
what the sandbox answered and what the cited pages say, and the export shows each row
with both.

What makes each correct: the session - ledger, chain and rail tell one story
wherever the process dies, the budget bounds spent plus held, a call in doubt
freezes money and is resolved, a restart loses nothing, a consent works once; the
rail - a key acts once; the chain - nothing acknowledged is lost or altered
unnoticed; obligations - a passed deadline is written once and never claims more
than the chain shows; settlement - the customer gets back the difference exactly
once or the debt is on the record; the Cashfree adapter - the customer is asked once
for a reservation, and handle, chain and order agree whatever was lost; the registry -
what is found is what was answered, what is recorded is kept in one chain, and what is
shown as current or contradicted is so.

`PROJECT.json` lists all parts with their status, and the hazards by line.

## 2. Plan

Order of work, the most important behaviour first:

1. **Done.** `RailProfile`, `PolicyEngine`, `SimulatedRail`, `SessionChain`,
   `Session`, `SessionProperties`, `SpendingGrant` (abstract), their runs and the
   proofs of section 6.
2. **Done.** `Settlement` and `Reconcile`: capture then refund with lost answers, a
   death anywhere, runs repeated for the same or another amount; their proofs.
3. **Done.** `EvidenceChain`: append as write, sync, remember; torn tails, `load`,
   checkpoints against truncation and rewriting; failing writes; its proofs. Left
   for later: the session over a chain whose writes can fail.
4. **Done.** `RailTable`, the registry as data, and `CashfreeRail`: a reservation in
   up to five requests, `_resume`, capture and void, a restart that forgets the handle,
   under the session's use of a rail.
5. **Done.** `Obligations` with `ObligationSweep`: clocks over a chain, one entry for
   each passed deadline. `Adjudicate`: the finding on every chain a session writes.
6. **Done.** `ProbeCatalogue`, `ProbeRun`, `QuoteWatch`, `EvidenceStore` and `Registry`,
   which composes them; proofs of the store, of the export's checkpoints and of
   `OneAttempt`.
7. **Done.** Proofs: where the money of a session is, revocation and consent, that a
   session implements `SpendingGrant`, what the adjudicator finds; that a settled chain
   reconciles; that a checkpoint binds who holds the key; the clocks; the agreement of
   the adapter with its orders; the citation watch and what an export verifies; what
   the probes find and what an export says they contradict.
8. **Done.** Refinements: `EvidenceLog`, what a store of evidence promises, implemented
   by `EvidenceChain` and by `EvidenceStore`; `RailContract`, what the adapter of a rail
   promises its session, implemented by `CashfreeRail`; their proofs.
9. Left, models: the session over a chain whose writes can fail; the flush that is
   repeated when a store's file is closed (section 7).

Recursion is written as recursive functions or folds, never with RECURSIVE operators,
so that every module can be proved about.

## 3. The modules

- `RailProfile` - calls, caps, and the part of a rail's capability row that
  decides something at run time: `PartialDebit`, `PartialRelease`, `MaxBlockAmount`.
- `PolicyEngine` - `Permits(c, env, s, expired)` is `PolicyEngine._decide`: layer 0
  (expiry), 1 (`CheckEnvelope`), 2 (`CheckRail`). The verdict is a Boolean.
- `SimulatedRail` - the rail as operators on its state `[balance, blocks, seen]`.
  `Accepts` is everything up to the first `raise`; `Acted` is what follows.
- `SessionChain` - entries of the chain, `Replay` (`_replay`'s ledger),
  `InDoubtAfter` (its call in doubt), and the auditor's view.
- `Session` - the state machine. `chain` and `rail` survive a crash; `mem`,
  `in_doubt`, `at`, `asked` and `answer` do not.

  | Action | Code |
  |---|---|
  | `AsksReserve`, `AsksDebit`, `AsksRelease` | the operation and `_attempt` up to the proposal's append |
  | `Refuse`, `Permit` | `_refuse_in_doubt`, `PolicyEngine.evaluate` and its record |
  | `WriteIntent` | the append of `rail_intent` |
  | `RailActs`, `RailRepeats`, `RailRefuses`, `CallLost` | `_apply` and the rail's `_once`: acts, answers from memory, raises `RailError`, raises anything else (acting or not) |
  | `RecordOutcome`, `RecordDoubt` | the three ends of `_execute` |
  | `Resolve` | `resolve_in_doubt` |
  | `Crash`, `Restart` | death of the process; `_replay` |
  | `HumanSigns`, `ApproveRaise` | a consent signed on the human's device; `approve_raise_signed` |
  | `Notes` | entries that move nothing: `propose_raise`, malformed calls, rejected consents |
  | `CustomerRevokes`, `Expire` | the customer at the bank; the clock |

  A step boundary lies wherever something outside the process can tell the
  difference: after each durable append and around the rail call. Between them a
  crash loses exactly what the code would lose.
- `SpendingGrant` - what the session promises, with no process and no crash in
  it: one open order at a time, an order moves money at most once and within the
  cap, and its receipt is true.
- `SessionProperties` - the invariants, action and liveness properties, and the
  refinement mapping to `SpendingGrant`: an intent without an outcome is the open
  order, the rail's memory of its key says whether it moved, a rail transition is
  its receipt.
- `SessionInductive` - the inductive invariant, and what is added to it for the grant
  and for the record (section 6).
- `Adjudicate` - `adjudicate` on the chain of a session: what is charged on the record
  and not given back, what is in doubt, and for each claim (`Claims`) and each packet
  (`Files`: intact or not, its mandate verified, absent or broken, its rail one that can
  hold money or not) the finding. `Reason` is the ladder of early returns.
- `MCSession` - values for TLC, for `Session` and `Adjudicate`.
- `SumProofs` - lemmas on sums over finite functions, on least and greatest elements.
  `SessionProofs`, `SessionGrantProofs` - proofs about the session.
- `Settlement` - one payment at a rail that captures all or nothing, and the runs
  of `settle_capture_refund` on it, one after the other. `status` and `refunded`
  are the payment; they outlive a run, whose chain (`trail`) is in memory.

  | Action | Code |
  |---|---|
  | `Begin` | the call, for any of `Actuals` |
  | `Declines`, `TakesUp` | `fetch_payment` answers: the gates (`Gate`), and the first entries |
  | `Captures`, `CaptureFails` | `rail.capture` answers 200, or anything else, having landed or not |
  | `Refunds`, `RefundFails` | `rail.refund` likewise; after the last attempt the COMPENSATION entry |
  | `Rereads` | the read before every retry: confirmed, to be repeated, or a mismatch |
  | `RunDies` | the process dies, or a call raises, having landed or not |
  | `Lapses`, `OthersRefund` | the rail and the merchant, outside the code |

  Policy decisions and refusals are left out of `trail`: they move nothing.
  `returns` is history: it counts the refunds made at the rail for settlements.
- `EvidenceChain` - the file of a chain and the process that has it open. `lines`
  and `torn` are the file, `entries` the chain in memory. `Creates` is `with_key`,
  `Loads` is `load` (trim first, then read and verify), `Appends` then `Returns` or
  `Raises` is `append`, `Crashes` and `CreateCut` a process that dies while writing:
  the line may be missing, torn or whole. `Writes` opens the file for appending, so a
  torn piece left there becomes the beginning of the next line (`Unreadable`).
  `FailureLeaves` is what a write that raises may leave. `MCEvidenceChain` has its
  values for TLC, `EvidenceChainProofs` its proofs.
- `EvidenceLog` (abstract) - what a store of evidence promises: a record is added at the
  end of its stream, once, and stays; nobody is told of a record that is not there.
  In `EvidenceChain` a record is known by its hash and a caller is told by `append`
  returning or by a chain that was loaded; in `EvidenceStore`, where any number of
  writers share the files, a record is known by its writer.
- `Reconcile` - what the trail claims against what the rail holds, and the
  properties of settlement. `MCSettlement` has its values for TLC,
  `SettlementProofs` its proofs.

- `RailTable` - `Rails`: every rail, row and limit of
  `rails/semantics.py` and `rails/reference.py` with its answer and its tier, and
  `Permits`, `Explain`, `Exceeds` over them. `WellFormed` is what
  `tests/test_semantics.py` asks of the table; `MCObligationSweep` assumes it, so that
  TLC evaluates it for all fourteen rails.
- `RailContract` (abstract) - what the adapter of a rail promises the session that calls
  it (`RailError` and `RailAdapter`, `rails/base.py`): a call acts at most once, and before
  the session has an outcome for it; a hold is used by one call; "applied" is said only of
  a call that acted, a refusal only of one that did not, with two exceptions (section 5).
  In `CashfreeRail` a call in doubt is still open, a paid order is a hold, an order with a
  payment was put to the customer, and `silent` are the calls not answered in full.
- `CashfreeRail` - one session on `CashfreePreAuthRail`. `orders` is the rail; `calls` is
  the chain, one entry for a permitted call, whose outcome changes; `ref`, `at`, `answer`
  are the process and die with it. Each request is a step.

  | Action | Code |
  |---|---|
  | `Reserves`, `Debits`, `HandsBack` | a call the engine permits, up to its `rail_intent` |
  | `Creates` | `_reserve` up to the order (`create_preauth_order`); a duplicate id leads to `_resume` |
  | `ReadsOrder`, `ReadsPayments` | `_resume`: paid, expired, of another amount; an attempt of unknown fate is refused |
  | `Collects`, `Simulates` | `_authorise`: the collect and the sandbox's approval |
  | `Captures`, `Voids` | `_debit`, `_release`, with the rail's memory of a key |
  | `Lost`, `Incomplete` | no answer, 408 or 5xx, having acted or not; a 200 without the field that is needed |
  | `Records`, `Resolves` | the outcome on the chain; `resolve_in_doubt` |
  | `Crashes`, `Restarts` | death; `get_block` for the standing block |
  | `CustomerApproves`, `OrderExpires` | the customer and the rail's clock |
- `Obligations` - pure operators over a chain of transitions: the holds (`Hold`), their
  clocks (`ObligationsOn`: the rail's expiry, the release of a remainder, the grant's
  `resolve_by`), a clock's `Status`, `Orphans`, `NoticeOf`.
- `ObligationSweep` - a session that places, draws and hands back, on any rail
  of the table, and `sweep`: `StartsSweep` reads the chain, `Writes` appends one notice,
  `EndsSweep` is its return or its death. `Restates` is the record of a reserve repeated,
  or naming a smaller or a larger ceiling, which the rail may have taken over or not;
  `Available` is what a session takes to be left after it, the ceiling it placed in a
  session that lives on, the sum of them all in one that was resumed. `bank` is what the
  rail really holds, which no sweep asks; `RailReturns`, `CustomerRevokes` and
  `TimePasses` are the world.
- `ProbeCatalogue` - `PROBES` as data: the steps of every probe, what each needs, the
  request it makes, and the rules that turn exchanges into an answer for a row
  (`Findings`), each rule with the statuses and the bodies it looks at.
- `ProbeRun` - one run of a probe against a sandbox that may differ from the table in
  `MaxDeviations` rows. `Starts`, `Asks`, `Fetches`, `Races`, `HoldIsPlaced`, `HoldStops`
  and `Skips` are the operations a step of `run` may be; `late` marks runs in which an
  approval settled after the answer that said it had not.
- `QuoteWatch` - `match_quote`, fragment by fragment after the earliest
  place of the last one, and `judge`, the verdict on a row by the page it cites. A text
  is a sequence of words; `Says` is the definition `match_quote` is checked against.
- `EvidenceStore` - the files of a store and any number of writers. `Locks` takes the
  lock, verifies, and works out the line; `BeginsToWrite` and `EndsWriting` are the
  write as it reaches the disk; `Returns` unlocks; `WriteFails` and `Dies` leave what
  was written. `Verifies`, `HeadOf` and `Extends` are `verify` and `checkpoint`.
- `Registry` - composes the three: commands run a probe (`StartsProbe`, `RunsProbe`,
  `RecordsProbe`) or check every cited row (`StartsWatch`, `ChecksRow`, `RecordsWatch`)
  and then write to the store (`Stores`), while pages change and rows are edited, and an
  export goes through `BuildOrder`, reading and pinning. `MCCashfreeRail`,
  `MCObligationSweep` and `MCRegistry` have the values for TLC.
- `RegistryProofs`, `CashfreeRailProofs`, `ObligationSweepProofs` - proofs.

Operators named "Mutant of ..." are never used by the specifications. Each is a
definition as a plausible bug would have it; `PROJECT.json` says which property
finds it.

## 4. The runs

| Run | Instance | What it shows |
|---|---|---|
| `session_money` | 4 asks, 1 fault, budget 3, amounts 1 and 2, `FairSpec` | ledger, chain and rail agree; the budget holds at the bank; no block is left behind; what an adjudicator finds on the chain is so, as far as the chain was told; a call in doubt freezes money and is settled; an ask is answered |
| `session_consent` | 2 asks, 2 widenings, 1 fault, two payees, the customer may revoke | a consent works once, in any order of deliveries and restarts; a restart loses nothing; after a revocation nothing moves; the session implements the grant |
| `session_auditor` | as `session_money`, without fairness | violated: finding 1 |
| `settlement` | ceiling 4; actuals 2, 3, 4 and 5; 3 faults, one refund by somebody else, `FairSpec` | one refund at most however runs repeat and die; success means the merchant nets the actual and the chain reconciles; the difference is paid in the end |
| `settlement_owed` | one actual, 3 faults | violated: finding 2 |
| `chain` | 4 entries, 3 crashes or failed writes that leave nothing, any number of restarts and checkpoints | acknowledged entries and checkpoints survive; a key holder cannot shorten or rewrite past a checkpoint; a store can always be opened again; the store implements the log |
| `chain_failing_write` | 3 entries, 2 faults, a failed write leaves anything | violated: finding 3 |
| `clocks` | a rail of each kind in the table, days 0, 2 and 90, 2 calls and 1 restatement, ceilings 1 and 2, amounts 1 | what is signed as overdue is held; no passed deadline is missed (but for the observation in section 5) or written twice, whatever dies; a met clock stays met; the rail is not accused before its end |
| `clocks_overdue` | Reserve Pay, as `clocks` | violated: finding 4 |
| `cashfree` | 5 calls, 3 faults, ceiling 2, amounts 1 and 2, `FairSpec` | order, chain and handle agree when nothing is in doubt; one collect for a reservation; doubt ends; the adapter keeps the contract of a rail |
| `cashfree_void` | as `cashfree`, a release of 1 of 2 | violated: finding 5 |
| `registry` | 2 processes, 2 faults, 1 change, one row of the sandbox that differs, 2 cited rows, 6 pages | a finding is what the sandbox answered; the store is one chain, implements the log (so it keeps what it acknowledged) and is not extended once broken; verdicts are about the page that was read; what an export shows is pinned and is so |

The type invariants of `Session`, `Settlement`, `EvidenceChain`, `EvidenceStore` and
`ObligationSweep` are proved (section 6) and therefore not listed in a run.

**Bounds and why they are enough.** Four asks are a whole life of a block and the
start of the next (reserve, debit, release, reserve), the shortest history in which
`blocked` counts a ceiling that is gone. Amounts 1 and 2 with a budget of 3 give
partial and full debits, a release of part and of all, an ask over the
per-transaction cap or the budget, and a balance of 2 (in `session_consent` and
`session_auditor`; it is 4 in `session_money`) a reserve the bank refuses. One fault is
placed at every step of every call. `MaxNotes` is 1 in one run: a note changes only
positions. In `session_money` the customer does not revoke and the rail gives back no
part of a block, in `session_consent` he may and it does: `LedgerAgreesWithRail` is
checked without the two, and proved with them (`LedgerIsInStep`, section 6). The asks are bounded, so runs stop and deadlock is not checked. A settlement may be run any number of times and its run never stops, so
there deadlock is checked. Three faults are as many as there are refund attempts:
every attempt can fail, each with the refund landed or not, and fewer leave some for
the capture and for runs that die. The actuals give two different refunds, none, and
an amount above the ceiling; another's refund of 1 or 2 can be mistaken for either.
Four entries and three faults let a crash hit the header, an entry after others, and
the first entry after a restart that trimmed one.

In `clocks` two rails that answer alike the four questions the clocks and the model's
bank ask of a rail (whether a hold lives for 90 days, for less, or for no stated time;
whether the rail frees or keeps the remainder; whether the customer may revoke) are one
kind, and one of each kind is taken. Day 0 places, on day 2 the
idle window, the ceiling and `resolve_by` are over, and on day 90 so is the longest life
in the table. Two calls are a reservation and a draw, a release, or a second reservation;
a restatement is none of the two. Ceilings 1 and 2 let it repeat, lower or raise what
was placed, before or after the block is drawn on, up to the first ceiling or not. In `cashfree` five calls are two whole lives of a block and a
half, and three faults let a reservation be lost, repeated, lost again and die. In
`registry` two processes are what a lock has to keep apart; the table cites a quote in
fragments and a whole one, and the pages hold them in order, out of order, not at all,
cannot be fetched, or are the document of a kept copy or another. Probes and page
checks write different streams, so in a behaviour the commands are of one kind. The
commands are interchangeable, so their symmetry is used; the run has no liveness.
Asks, calls and writers are bounded in all three, and deadlock is not checked.

**Fairness.** `WF(Works)`: the session is one thread, and a call it has begun goes
on unless the process dies. `WF(Restart)`: a dead process is started again.
`SF(Resolve)`: whoever operates the session keeps resolving a call in doubt. In
the repository that caller is a probe (`rails/probe_cashfree_retry.py`) and the
recovery tests; no production loop calls `resolve_in_doubt`, so `DoubtIsSettled`
is a promise under that assumption and not of the session alone. Faults are
finitely many. The agent, the human, the customer and the clock owe nothing.
In `Settlement`, `WF(Step)`: a run goes on until it returns or dies. `SF(Begin(a))`:
whoever wants the payment settled for an amount runs settlement again; the module's
own text asks for that ("Running settlement again later completes the refund"), no
code does it, so `DebtIsPaid` is a promise to whoever keeps running it.
In `CashfreeRail`, `WF(Works)`, `WF(Restarts)`, `SF(Resolves)`: as in `Session`, and with
the same caller. Nothing is assumed of the customer: a collect he never answers ends
as a refusal or stays with an order that is not paid. In `EvidenceChain`,
`WF(Opens)`: a process that needs the chain opens its store, with `with_key` if the file
is empty and `load` if it is not; `StoreOpens` then says that no state of the file keeps
it out. `ObligationSweep` and `Registry` need none: nothing calls `sweep`, a probe, the
watch or the export but a person, so nothing is promised to happen.

**What is assumed of the payment rail.** It answers 200 only when it acted; a read
of the payment shows every call answered before it, errors included (a refund that
lands only after the next read would be repeated, by the code as by any model of
it); refunds never exceed the capture; and a refund leaves the status `captured`, as
the fake rails of `tests/test_settlement.py` do. Runs on one payment do not overlap:
`rails/settle.py` is a command a person runs, and nothing in the code would notice
a second one. Of Cashfree's pre-authorization the model takes the answers its rows in
the table record; what is not measured (a second collect on an order that is not paid)
it takes to succeed, the worse of the two. In `ObligationSweep` a rail may give a
remainder back at any time, except where a text, not a measurement, says that it
keeps it, and then until the block's own end.

## 5. Findings

1. `session_auditor`: a process that dies between the rail's debit and its record
   leaves a `rail_intent` and no `rail_in_doubt`; a restart knows the doubt but
   writes nothing. Until the call is resolved, `unresolved_in_doubt` is empty for
   an auditor and the adjudicator finds "Nothing was charged in this record"
   (`dispute/adjudicate.py:203`), which `evidence/transitions.py:33` says the
   record cannot say.
2. `settlement_owed`: an error answer to a refund "is ambiguous: the refund may have
   landed" (`rails/settlement.py:163`), so the rail is read before every retry, but
   not after the last attempt. If that one landed, the COMPENSATION entry says "the
   difference could not be returned" (`rails/settlement.py:208`) of a difference the
   customer has back. No money is lost: the next run finds the payment settled.
3. `chain_failing_write`: `append` returns only after the entry is synced, "so a crash
   never loses an entry the caller was told was recorded" (`evidence/chain.py:216`).
   If a write raises after it left part or all of its line (a full disk, a failed
   sync), nothing repairs the file and the chain in memory can be appended to; the
   next entry is glued to the torn line, or repeats its `seq`, and is acknowledged, and
   `load` then refuses the store with all that was recorded in it.
4. `clocks_overdue`: a clock a person set is signed overdue wherever the table says that
   the rail keeps the remainder (`policy/obligations.py:248`), whatever the block's own
   end says; only the rail's own clock is unresolved there. On Reserve Pay a sweep after
   the block has ended writes that the remainder is held, which the rail has let go.
   `policy/obligations.py:27` calls that a guess.
5. `cashfree_void`: a release of a part is permitted and carried out as a void
   (`rails/cashfree.py:355`), which gives the whole hold back: the chain shows the part,
   the rail holds nothing. `tests/test_cashfree_adapter_retry.py:565` asks the two to
   agree, and `rails/semantics.py:1542` has the rail's own words, that a void is of the
   entire amount.

Three more observations have no run. The engine compares a debit with `blocked - debited`
(`policy/engine.py:159`), which still counts ceilings that were released. After reserve,
release, reserve, a debit of the whole standing block is taken for a partial one and
refused on a rail without partial debit. No money is at stake, only a call.

The other: "A refusal means nothing happened" (`rails/base.py:27`), and the adapter refuses
twice where something may have. A reservation is refused while a payment of its order is of
unknown fate (`rails/cashfree.py:301`), and the customer may approve it later; a capture is
refused when the rail's answer lacks the amount it took (`rails/cashfree.py:327`). `RailContract` leaves just these two open, so
`KeepsContract` says that there is no third.

The third: a reserve that names another amount leaves the hold its first ceiling and marks
it restated, "so nothing computed from it is taken for certain"
(`policy/obligations.py:146`). `_status` asks first whether the hold is closed, and that
is computed from the first ceiling (`policy/obligations.py:181`). Reserve 1, restate to 2
with the rail following, debit 1: every clock of the hold is met, no sweep writes
anything, and the rail still holds 1. `NothingIsForgotten` names the case (`MetTooSoon`)
and excepts it; without the exception TLC gives this trace. `MetIsFinal` adds that such a
hold stays met.

## 6. Proofs

`TLAPS` checks, for every value of the constants under the assumptions each module
names (TLC evaluates them on every run), every safety property the passing runs check, and
the four refinements: of the grant, of the log by both stores, of the contract of a rail.

- `TypeCorrect` - `Session`'s `[]TypeOK`; this includes that the customer's balance
  and every counter stay natural numbers, which needs the rest of the invariant.
- `EvidenceIsTrue`, `RestartIsFaithful`, `BudgetIsKept`, `LedgerIsInStep`,
  `BlockIsInReach`, `ConsentIsSpentOnce` - `[]EvidenceMatchesMoney`,
  `[]RestartLosesNothing`, `[]BudgetHolds`, `[]LedgerAgreesWithRail`,
  `[]NoBlockOutOfReach`, `[]ConsentSpentOnce`.
- `DoubtIsFrozen`, `RevocationIsFinal` - the action properties `DoubtFreezesMoney` and
  `RevocationFailsClosed`.
- `SessionImplementsGrant` - `Session` implements `SpendingGrant`: every step maps to a
  step of the grant or to a stutter.
- `AdjudicatorAgrees`, `FindingsAreTrue` - `[]AdjudicatorFollowsEngine`,
  `[]FindingIsTrue`, on the chain of any session, from `RecordIsSound`.
  All of these under `RailProfileAssumption`, `CustomerBalanceAssumption`,
  `InitialCapsAssumption` and `SessionAssumption`: sets and numbers of the expected kind.
- `SettlementTyped`, `RefundedAtMostOnce`, `SuccessIsNet`, `ChainClaimsTruth`,
  `SettledAgrees` - `Settlement`'s `[]TypeOK`, `[]ReturnedOnce`, `[]SettledIsNet`,
  `[]TrailIsTrue` and `[]SettledReconciles`, under `SettlementAssumption` (numbers and
  sets of numbers, at least one attempt).
- `NothingAcknowledgedIsLost`, `NoCheckpointContradicted` - `EvidenceChain`'s
  `[]AcknowledgedSurvives` and `[]CheckpointsHold`, under `StoreAssumption` and the
  hypothesis that a write that raises leaves nothing; finding 3 is why it is needed.
  `CheckpointBindsHolder` - `[]CheckpointsBind`, whatever such a write leaves.
  `StoreKeepsLog` (`EvidenceChainProofs`) - `EvidenceChain` implements `EvidenceLog`, under
  the same hypothesis: the entry of finding 3 is one that is recorded twice or is lost.
- `SweepTyped` - `ObligationSweep`'s `[]TypeOK`.
- `OverdueIsTrue`, `SweepForgetsNothing`, `NoticesAreSingle`, `AccusationIsDue`,
  `MetIsForever` - `ObligationSweep`'s `[]OverdueIsHeld`, `[]NothingIsForgotten`,
  `[]NotedOnce`, `[]RailIsNotAccusedEarly` and the action property `MetIsFinal`, under
  `SweepAssumption`, for any rail of the table, any days and any number of calls and
  restatements, up or down. `[]NothingIsForgotten` excepts what `MetTooSoon` names
  (section 5), and nothing else.
- `AskedOnce`, `OrdersAreTyped`, `OrdersAreAsTold`, `LedgerIsTheOrders` -
  `CashfreeRail`'s `[]OneAttempt`, `[]TypeOK`, `[]OrdersAreTold` and
  `[]LedgerAgreesWithOrder`, under `CashfreeAssumption`, for any number of calls, faults
  and restarts. The last has the hypothesis that a release is of all that is left
  (`Releases = {}`), as in the run `cashfree`: a release of a part is finding 5.
- `AdapterKeepsContract` - `CashfreeRail` implements `RailContract`, under
  `CashfreeAssumption` alone: finding 5 is about how much the chain says of a release,
  and the contract has no amount there.
- `StoreIsSound`, `OneChain`, `NoRecordIsLost`, `BrokenStaysBroken`, `ExportsArePinned` -
  `Registry`'s store invariant, `[]ChainIsWhole`, `[]RecordedIsKept`,
  `BrokenIsNeverExtended` and `[]ExportIsPinned`, for any number of processes, faults,
  rows and pages. `StoreKeepsLog` (`RegistryProofs`) - `EvidenceStore` implements
  `EvidenceLog`, of which `RecordedIsKept` is the part about what was acknowledged; no run
  lists it by itself.
- `VerdictsAreThePages`, `VerifiedQuotesAreThere` - `[]VerdictIsThePages` and
  `[]VerifiedIsOfThisQuote`, for any texts, quotes, pages and edits.
- `FindingsAreAnswers`, `DisagreementsAreReal` - `[]FindingIsTheAnswer` and
  `[]DisagreementIsReal`, for every probe of the catalogue, any sandbox that is
  consistent (`Sandboxes`) and any number of faults. The registry's theorems are under
  `StoreAssumption` (the names of the lock's owner and of the first link are nobody's),
  `WatchAssumption` (a fragment has at least one word), `ProbeAssumption` (numbers) and
  `RegistryAssumption` (the two streams; rows and pages are of the kind they should be).

**The session.** None of these is inductive. `IInv` (`SessionInductive`) adds:
the shape of the chain (every entry about a call carries its proposal and its
call, outcomes follow intents, at most one intent has none: `ChainSound`); where
control stands relative to that intent (`ControlSound`); that the ledger in
memory is the one a restart would rebuild, plus what the rail has just said
(`MemorySound`); and, the heart, that the rebuilt ledger has *caught up* with the
rail except for the call in flight, in which case booking that call makes it catch
up (`LedgerSound`, `CaughtUp`). `CaughtUp` is one-sided where the customer may
revoke: the ledger never understates what is out of the customer's hands.
What the engine permitted (`WithinGrant`) must also survive until the rail acts,
across lost calls, restarts and widenings: nothing else can move money in between, because
`Dangling` has one element. `SessionProofs` has what `Replay` does when an entry is
appended, that each rail operation keeps a ledger caught up, one lemma per action and the
first theorems; `SessionGrantProofs` the others. Two invariants are added there.
`GrantSound`: the widenings on the chain were signed, none narrows, and each starts where
the ones before it ended or above, so that one delivered again no longer starts where it
must (`ConsentIsSpentOnce`); the same ordering gives the grant its caps, and the intent
without an outcome its open order. `RecordSound`: the net amount a reader of the chain
computes is the ledger's, and nothing on it is more than a transaction may be, from which
the adjudicator's ladder of early returns is followed branch by branch.

**Settlement.** The strengthening is `SettlementInv` (`SettlementProofs`): a run about
to capture or refund has returned nothing yet (`RunSound`), which `ReturnedOnce`
needs before a refund lands; a refund at the rail shows in `refunded`, because
what is due is never zero there (`PaymentSound`), so that the gate and the reread see
it; and with nobody else refunding, a run that rereads finds nothing or exactly its own
refund (`OursAlone`), from which `SettledIsNet` follows. Each action's lemma proves
what it does to the money and that it records only what the rail holds (`Truthful`).
`SettledAgrees` adds what the trail sums up to at each place of a run (`TrailAddsUp`).

**The chain.** `StoreInv` (`EvidenceChainProofs`): a process with a chain in memory
has a whole file that ends with its last entry (`MemoryFollowsDisk`), the file gives back
what was acknowledged and after a crash at most one entry more (`DiskSound`), and every
checkpoint is a point of what was acknowledged (`CheckpointsSound`). For the holder of the
key, `ChainsLink` and `HashesName`: in everything written or covered by a checkpoint an
entry's hash names it and all before it, and a hash somebody mints is none of them, so
that a forged packet can agree with a checkpoint only up to where it was forged. For
`StoreKeepsLog` the file, without its header, is the log: a write that ends, by `append` or
by a process that dies with the line whole, adds one hash that is in no line yet
(`MemoryFollowsDisk` gives its number); what a torn or trimmed piece does to the file adds
none; and what a load reads back is what is there (`DiskSound`).

**The clocks.** `SweepInv` (`ObligationSweepProofs`): the rail never has more of a hold
than the chain shows unless the ceiling was raised, and just that unless it was restated
or the block is gone (`MoneySound`, with `Raised`); the clock the chain gives the rail never runs ahead of the rail's own end
(`EndsSound`), which keeps a sweep from accusing it early; what a sweep has still to write
is what is orphaned and not noted (`TodoSound`), so that one cut off and begun again
writes nothing twice.

**The adapter.** `RequestInv` (`CashfreeRailProofs`): whoever is about to collect looks
at an order nobody was asked about, because it has just been made or its payments were
just read, and between the two no other request is under way. `HoldInv` says which call
an order's capture or void was made by, what the process may answer of it, and which
order the handle is about, with the one state in which the handle is older than its order
(`AsPlaced`); `MoneySound` that what the ledger has available is what is left of that order.

For the contract, `OfferInv` adds that a paid order was put to the customer, and that the
sandbox approves only one that was. From `HoldInv` and `OfferInv` each step is mapped: a
collect that was taken offers, an approval (his, or the sandbox's) places, a capture or void
the rail took uses the hold, an answer without its field falls mute, `Records` and `Resolves`
answer when they bring the outcome; and what a request was only read for, a lost request
that did not act, a death and a restart are not seen. The hard ones are a lost answer
whose request acted, which is a use of the hold by a call that stays open, and the outcome
of a repeat: it says "applied" because `HoldInv` knows whose capture the order shows.

**The registry** (`RegistryProofs`). The store's `StoreInv`: who has a
line under way holds the lock of its file, and the line it worked out under the lock is
still the next one (`LockProtects`, with `LineIsNext`); a torn line belongs to a writer
who is writing, failed or died (`TornBySomebody`), so that a file with a torn end is
never locked into again; every line was ended by a writer who is past writing
(`LinesAreEnded`), who wrote it once. `ChainIsWhole` needs the first two: two writers
who both saw the same last line would write one `seq` twice. Every step of `Registry` is a
step of the store or leaves it alone. That the store keeps the log follows from the same
invariant: a writer ends its line holding the lock, at the place it worked out, and its
name is in no file before (`LinesAreEnded`). For exports, `ExportInv` adds: what an export has read is a
beginning of a file that only grows, and what it has pinned covers what it has read,
because it reads before it pins.

`match_quote` takes the earliest place of each fragment. `MatchIsSays` proves that this
finds a quote exactly when the page says it: the scan is never ahead of any placement of
the fragments, in order, that there is. `WatchInv` carries it through a run of the watcher.

`ProbeInv` says of a run, step by step, that the first request on a fresh hold, and the
second after one that was taken, were answered as the sandbox permits when they were
answered with 2xx or 4xx; that a read of the hold and the summary of a race say what was;
and what the hold is in between. From these and what each of the twelve probes asks, the
rules of each are shown to say nothing that is not so. A lost answer, a 5xx and a step that
was skipped match no rule. A run whose approval settled late is exempt, as in the
properties. Writing and reading add nothing to what was found or seen (`IsDatum`,
`NewData`), which takes the two facts through the store to the export.

**Recursion and sums.** No induction theorem of the library can be used with the
installed provers, because each takes a predicate as a parameter. Where a fact about a
recursive function or a fold is needed it is proved from the least counterexample
(`NatHasLeast`): `SumProofs` shows so that a sum over a finite function exists and is
what its recursive definition says, and what changing, adding or removing one argument
does to it. `Replay` and the scan of `match_quote` are handled likewise, and
`Forged` is defined in closed form.

**How the invariants were found.** TLC checked `IInv`, `RecordSound`, `SettlementInv`,
`HoldInv` with `MoneySound`, `WatchInv`, the facts about what is recorded and `ProbeInv` as
invariants on the configurations of section 4, or on larger ones, before they were proved.

**Only model-checked:** liveness (`DoubtIsSettled`, `AskIsAnswered`, `DebtIsPaid`,
`StoreOpens` and the adapter's `DoubtIsSettled`), which the provers cannot reach; and
`WellFormed`, a statement about one constant of fourteen rails with no parameter in it,
which TLC evaluates in full.

## 7. Not modelled

- Data: signatures, hashes and canonicalisation (a record that does not verify is
  rejected, which is a note), texts, citations, redaction, the extraction of text from
  HTML, Markdown and PDF.
- Presentation: the rendering of packets, reports and pages, the generated documents,
  demos. They change no state.
- AP2 interoperation (conversion and signatures; `Adjudicate` has its outcome), the
  ceiling model (statistics over floating point numbers), the model backends and the
  sandbox probes (network clients; what `dispatch` calls is what `Session` enumerates).
- The web application: every request drives a session of its own over a simulated rail,
  which is `Session`. Its limiter does all it does under one lock, on a list of times
  that is lost with the process.
- In `Session` an append is one durable step that never fails; what a failing or torn
  write does to the file is in `EvidenceChain`, on its own. `EvidenceChain` leaves out
  what a reader without the key may do to a file (a changed entry fails its digest) and
  more than one process on a store.
- In `EvidenceStore` the bytes of a write that failed are written or lost at that
  moment. Python's file object keeps what it could not flush and tries again when it is
  closed, which in `append` is after the lock is released; if that succeeds, a line
  lands behind the lock. The model assumes it does not.
- In `CashfreeRail`: what `_once` remembers within a process (a key is asked for again
  only when its call raised, and then nothing is remembered), `status`, and
  `cashfree_settle.py`, a script that drives one hold.
- In `ProbeRun` a run whose approval settles late is exempt from `DisagreementIsReal`:
  the probe cannot tell it from a hold that was never paid.
- The check of a mandate when a session is constructed: it only refuses to start.
