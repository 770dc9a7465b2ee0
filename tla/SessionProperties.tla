------------------------- MODULE SessionProperties -------------------------
(***************************************************************************)
(* What makes a session correct: the money at the rail, the entries on the *)
(* chain and the ledger in memory tell one story, whatever the agent asks  *)
(* and wherever the process dies.                                          *)
(***************************************************************************)
EXTENDS Session, Functions, FiniteSetsExt

Blocks == DOMAIN rail.blocks

\* Over all blocks of a rail: what is still held, and what was taken.
HeldAt(rl) == SumFunction([n \in DOMAIN rl.blocks |-> Unspent(rl.blocks[n])])
DebitedAt(rl) == SumFunction([n \in DOMAIN rl.blocks |-> rl.blocks[n].debited])

\* Money out of the customer's hands, and the part of it that is only held.
Exposure == CustomerBalance - rail.balance
Held == HeldAt(rail)
Debited == DebitedAt(rail)

KeysSeen == {s.key : s \in rail.seen}
Applied == PropsOf(chain, {"applied"})

\* The ledger has caught up with the rail: no call is half way.
InStep == at \notin {"down", "recording"} /\ KeysSeen = Applied

(***************************************************************************)
(* The ledger and the rail.                                                *)
(***************************************************************************)

\* Outside a call in doubt, the ledger's debits are the rail's, the rail
\* holds no more than the ledger thinks it can still spend, and exactly that
\* much if the customer never revokes (tests/test_properties.py:61).
LedgerAgreesWithRail ==
  InStep => /\ mem.debited = Debited
            /\ Held <= Available(mem)
            /\ ~Revocable => Held = Available(mem)

\* "The session holds a single handle on the rail, so a second block would be
\* spendable in the ledger yet unreachable (and never released) on the rail"
\* (policy/engine.py:134): at most one block has money in it, and unless its
\* reserve is in doubt the session's handle is on it.
NoBlockOutOfReach ==
  LET standing == {n \in Blocks : IsLive(rail.blocks[n]) /\ Unspent(rail.blocks[n]) > 0}
  IN  /\ Cardinality(standing) <= 1
      /\ InStep => standing \subseteq {mem.block}

\* The budget bounds what is spent or held, at the bank as well as in the
\* ledger: also while a call is in doubt, and while the process is down.
BudgetHolds ==
  /\ Exposure <= Replay(chain).env.max_total
  /\ at # "down" => Committed(mem) <= mem.env.max_total

(***************************************************************************)
(* The chain and the rail.                                                 *)
(***************************************************************************)

\* The chain claims no money that did not move, and no money moves that it
\* cannot account for: what the rail did is recorded as applied, or is the one
\* intent still without an outcome; no proposal has two outcomes.
EvidenceMatchesMoney ==
  /\ Applied \subseteq KeysSeen
  /\ KeysSeen \subseteq Applied \cup Dangling(chain)
  /\ Cardinality(Dangling(chain)) <= 1
  /\ \A i, j \in DOMAIN chain :
       /\ {chain[i].kind, chain[j].kind} \subseteq {"applied", "rail_rejected"}
       /\ chain[i].prop = chain[j].prop
       => i = j

\* A session killed between any two steps and resumed from its chain knows
\* what the live one knew: its ledger, its caps, its block, its doubt.
RestartLosesNothing ==
  at = "idle" => /\ mem = Replay(chain)
                 /\ in_doubt = InDoubtAfter(chain)

\* Whenever the rail does anything new for the session, the intent is already
\* on the chain and is the only one without an outcome: while a call is in
\* doubt no other call moves money.
DoubtFreezesMoney ==
  [][\A s \in rail'.seen \ rail.seen : Dangling(chain) = {s.key}]_vars

(***************************************************************************)
(* The human's grant and the customer's say.                               *)
(***************************************************************************)

\* A widening in force was signed by a human, and a signed consent that
\* widens anything works once: "an old consent cannot be replayed against a
\* later, different envelope" (policy/consent.py).
ConsentSpentOnce ==
  LET widenings == {i \in DOMAIN chain : chain[i].kind = "widened"}
      consent(i) == [from |-> chain[i].from, to |-> chain[i].to]
  IN  /\ \A i \in widenings : consent(i) \in signed
      /\ \A i, j \in widenings :
           consent(i) = consent(j) /\ chain[i].from # chain[i].to => i = j

\* The session asked for some of block n back, and got it.
HandedBack(rl, n) == \E s \in rl.seen : s.block = n /\ s.request.call.action = "release"

TornByCustomer(rl, n) ==
  /\ rl.blocks[n].state = "revoked"
  /\ rl.blocks[n].released > 0
  /\ ~HandedBack(rl, n)

\* Once the customer has torn down a block with money in it, the session moves
\* no more money: its ledger still counts that block as standing, so the
\* engine refuses a new reserve and the rail refuses the rest.
RevocationFailsClosed ==
  [][(\E n \in Blocks : TornByCustomer(rail, n)) => rail'.seen = rail.seen]_vars

(***************************************************************************)
(* Liveness, for FairSpec.                                                 *)
(***************************************************************************)

\* Time and again no call is without an outcome, whatever dies on the way, if
\* lost calls and crashes are finitely many: a call only stops being without
\* one by getting one.
DoubtIsSettled == []<>(Dangling(chain) = {})

\* An ask is answered, unless the process dies.
AskIsAnswered == at = "judging" ~> at \in {"idle", "down"}

(***************************************************************************)
(* The session implements the grant: an intent without an outcome is the   *)
(* open order, its key at the rail says whether it moved, a rail           *)
(* transition is a receipt.                                                *)
(***************************************************************************)
NoOrder == [key |-> 0]
OrderOf(p) == [key |-> p, call |-> chain[p].call]

CapInForce == Replay(chain).env.max_total
Spent == Exposure - Held
OpenOrder == IF Dangling(chain) = {} THEN NoOrder ELSE OrderOf(InDoubtAfter(chain))
HasMoved == Dangling(chain) \cap KeysSeen # {}
Receipts == {[order |-> OrderOf(p), moved |-> p \in Applied] : p \in Settled(chain)}

Grant == INSTANCE SpendingGrant WITH
  Orders <- [key: Nat, call: Call],
  InitialCap <- InitialCaps.max_total,
  cap <- CapInForce, held <- Held, spent <- Spent,
  order <- OpenOrder, moved <- HasMoved, receipts <- Receipts

ImplementsGrant == Grant!Spec

(***************************************************************************)
(* What the repository says and the code does not do.                      *)
(***************************************************************************)

\* "A call in doubt may or may not have moved money. Until a later transition
\* settles the same proposal, the record cannot say it did not"
\* (evidence/transitions.py:33): the auditor does not find that nothing was
\* charged while the rail has debited the customer.
NothingChargedIsTrue ==
  at = "idle" /\ FindsNothingCharged(chain) => Debited = 0

=============================================================================
