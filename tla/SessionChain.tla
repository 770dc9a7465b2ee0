---------------------------- MODULE SessionChain ----------------------------
(***************************************************************************)
(* The evidence chain as the session writes and rereads it: the kinds of   *)
(* entries, what a restart rebuilds from them (AgentSession._replay), and  *)
(* what an auditor who holds only the chain concludes                      *)
(* (evidence/transitions.py, dispute/adjudicate.py).  Signatures, hashes   *)
(* and timestamps are left out.                                            *)
(*                                                                         *)
(* A proposal is identified by its position in the chain (proposal_seq),   *)
(* from which the idempotency key "subject:seq" is made; every entry about *)
(* it carries that position.  A rail transition is an entry of kind        *)
(* "applied" or "rail_rejected", after its outcome.                        *)
(***************************************************************************)
EXTENDS SimulatedRail, FiniteSets

CONSTANT InitialCaps
ASSUME InitialCapsAssumption == InitialCaps \in Caps

CallKind == {"proposal", "policy_decision", "refusal", "rail_intent",
             "rail_in_doubt", "applied", "rail_rejected"}
CallEntry == [kind: CallKind, prop: Nat, call: Call, block: Nat]
WideningEntry == [kind: {"widened"}, from: Caps, to: Caps]
\* The grant that opens a chain, and entries that bear on no call.
OtherEntry == [kind: {"grant", "note"}]
Entry == CallEntry \cup WideningEntry \cup OtherEntry

\* What AgentSession keeps in memory and _replay rebuilds: the LedgerState,
\* the envelope's caps, the handle on the block and block_payee (the grant's
\* first payee until a block stands).
Memory == [blocked: Nat, debited: Nat, released: Nat,
           env: Caps, block: Nat, payee: Payees]
FreshMemory == [blocked |-> 0, debited |-> 0, released |-> 0,
                env |-> InitialCaps, block |-> 0, payee |-> FirstPayee]

\* A call the rail applied, written into the ledger.
Booked(m, call, block) ==
  CASE call.action = "reserve" ->
         [m EXCEPT !.blocked = @ + call.amount, !.block = block,
                   !.payee = call.payee]
    [] call.action = "debit"   -> [m EXCEPT !.debited = @ + call.amount]
    [] call.action = "release" -> [m EXCEPT !.released = @ + call.amount]

\* Mutants of Reread: a rejected call is booked; a widening is skipped.
RereadRejections(m, e) ==
  CASE e.kind \in {"applied", "rail_rejected"} -> Booked(m, e.call, e.block)
    [] e.kind = "widened" -> [m EXCEPT !.env = e.to]
    [] OTHER -> m
RereadNoWidening(m, e) ==
  IF e.kind = "applied" THEN Booked(m, e.call, e.block) ELSE m

\* One turn of _replay's loop.
Reread(m, e) ==
  CASE e.kind = "applied" -> Booked(m, e.call, e.block)
    [] e.kind = "widened" -> [m EXCEPT !.env = e.to]
    [] OTHER -> m

Replay(chain) ==
  LET mem[n \in 0 .. Len(chain)] ==
        IF n = 0 THEN FreshMemory ELSE Reread(mem[n - 1], chain[n])
  IN  mem[Len(chain)]

PropsOf(chain, kinds) ==
  {chain[i].prop : i \in {j \in DOMAIN chain : chain[j].kind \in kinds}}

Settled(chain) == PropsOf(chain, {"applied", "rail_rejected"})

\* Intents that never reached an outcome.
Dangling(chain) == PropsOf(chain, {"rail_intent"}) \ Settled(chain)

\* Mutant of InDoubtAfter: a restart forgets the call in flight.
DoubtForgotten(chain) == 0

\* The call _replay declares in doubt: the latest of them; 0 for none.
InDoubtAfter(chain) ==
  IF Dangling(chain) = {} THEN 0
  ELSE CHOOSE p \in Dangling(chain) : \A q \in Dangling(chain) : q <= p

(***************************************************************************)
(* The auditor.  unresolved_in_doubt looks for rail_in_doubt entries, and  *)
(* _reason finds "Nothing was charged in this record" when no applied      *)
(* debit is on the chain and no debit among the calls in doubt.            *)
(***************************************************************************)
UnresolvedInDoubt(chain) == PropsOf(chain, {"rail_in_doubt"}) \ Settled(chain)

ChargedOnRecord(chain) ==
  {i \in DOMAIN chain : chain[i].kind = "applied" /\ chain[i].call.action = "debit"}

FindsNothingCharged(chain) ==
  /\ ChargedOnRecord(chain) = {}
  /\ \A p \in UnresolvedInDoubt(chain) : chain[p].call.action # "debit"

=============================================================================
