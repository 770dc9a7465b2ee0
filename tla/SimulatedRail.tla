--------------------------- MODULE SimulatedRail ---------------------------
(***************************************************************************)
(* The in-memory rail of rails/simulator.py as operators on its state      *)
(*   rail.balance   customer_balance                                       *)
(*   rail.blocks    _blocks; block n is the n-th ever placed               *)
(*   rail.seen      _seen: key -> (request, result), as a set of records   *)
(* A request names the block it is about (ref; 0 for a reserve, which has  *)
(* none yet).  Event strings are left out.                                 *)
(***************************************************************************)
EXTENDS RailProfile, Sequences

CONSTANT CustomerBalance
ASSUME CustomerBalanceAssumption == CustomerBalance \in Nat

BlockState == {"blocked", "settled", "revoked"}
BlockRef == [ceiling: Nat, debited: Nat, released: Nat, state: BlockState]
Request == [call: Call, ref: Nat]
Seen == [key: Nat, request: Request, block: Nat]
Rail == [balance: Nat, blocks: Seq(BlockRef), seen: SUBSET Seen]

EmptyRail == [balance |-> CustomerBalance, blocks |-> <<>>, seen |-> {}]

Unspent(b) == b.ceiling - b.debited - b.released
IsLive(b) == b.state = "blocked"

\* _revoke: everything unspent goes back to the customer.
Torn(b) == [b EXCEPT !.released = @ + Unspent(b), !.state = "revoked"]

\* reserve, debit and release, each up to the point where it raises RailError.
TakesReserve(rail, r) ==
  /\ r.call.action = "reserve"
  /\ r.call.amount <= rail.balance

TakesDebit(b, r) ==
  /\ r.call.action = "debit"
  /\ IsLive(b)
  /\ r.call.amount <= Unspent(b)
  /\ r.call.amount < Unspent(b) => PartialDebit

TakesRelease(b, r) ==
  /\ r.call.action = "release"
  /\ IsLive(b)
  /\ IF PartialRelease
       THEN r.call.amount <= Unspent(b)
       ELSE r.call.amount >= Unspent(b)

Accepts(rail, r) ==
  \/ TakesReserve(rail, r)
  \/ /\ r.ref # 0
     /\ TakesDebit(rail.blocks[r.ref], r) \/ TakesRelease(rail.blocks[r.ref], r)

\* Mutant of Released: a partial release tears the block down.
ReleasedByTeardown(b, amount) == Torn(b)

\* release: by teardown of the whole block, unless the rail offers better.
Released(b, amount) ==
  IF PartialRelease
    THEN [b EXCEPT !.released = @ + amount,
                   !.state = IF amount = Unspent(b) THEN "settled" ELSE @]
    ELSE Torn(b)

\* The block a request acts on: the next one, for a reserve.
ActedOn(rail, r) ==
  IF r.call.action = "reserve" THEN Len(rail.blocks) + 1 ELSE r.ref

BlocksAfter(rail, r) ==
  CASE r.call.action = "reserve" ->
         Append(rail.blocks, [ceiling |-> r.call.amount, debited |-> 0,
                              released |-> 0, state |-> "blocked"])
    [] r.call.action = "debit" ->
         [rail.blocks EXCEPT ![r.ref].debited = @ + r.call.amount]
    [] r.call.action = "release" ->
         [rail.blocks EXCEPT ![r.ref] = Released(@, r.call.amount)]

\* What an accepted request gives back to the customer, or takes.
BalanceAfter(rail, r) ==
  CASE r.call.action = "reserve" -> rail.balance - r.call.amount
    [] r.call.action = "debit"   -> rail.balance
    [] r.call.action = "release" ->
         rail.balance + Released(rail.blocks[r.ref], r.call.amount).released
                      - rail.blocks[r.ref].released

\* _once after apply(): the money moves and the key is remembered.
Acted(rail, key, r) ==
  [balance |-> BalanceAfter(rail, r),
   blocks  |-> BlocksAfter(rail, r),
   seen    |-> rail.seen \cup
                 {[key |-> key, request |-> r, block |-> ActedOn(rail, r)]}]

\* Mutant of KeyUsed: the rail does not deduplicate.
KeyForgotten(rail, key) == FALSE

\* _once before apply(): whether the key was used, and for this very request.
KeyUsed(rail, key) == \E s \in rail.seen : s.key = key
FirstResult(rail, key, r) ==
  {s \in rail.seen : s.key = key /\ s.request = r}

\* revoke by the customer, who needs nobody's leave.
Revoked(rail, n) ==
  [rail EXCEPT !.balance = @ + Unspent(rail.blocks[n]),
               !.blocks[n] = Torn(@)]

=============================================================================
