-------------------------- MODULE SessionInductive --------------------------
(***************************************************************************)
(* The inductive invariant of Session, on which the proofs rest.  None of  *)
(* the properties is inductive: each needs to know what the chain looks    *)
(* like, where control stands in it, and what the rail has done for the    *)
(* call in flight.                                                         *)
(***************************************************************************)
EXTENDS Adjudicate

\* The ledger a restart would rebuild.
Ledger == Replay(chain)

Outcome == {"applied", "rail_rejected"}
Intents == PropsOf(chain, {"rail_intent"})

\* Every entry about a call carries the position of its proposal and repeats
\* its call; what reached the rail has an amount; outcomes follow intents.
ChainSound ==
  /\ \A i \in DOMAIN chain : chain[i].kind \in CallKind =>
       /\ chain[i].prop \in DOMAIN chain
       /\ chain[chain[i].prop].kind = "proposal"
       /\ chain[chain[i].prop].call = chain[i].call
  /\ \A p \in Intents : chain[p].call.amount > 0
  /\ Settled(chain) \subseteq Intents
  /\ \A p, q \in Dangling(chain) : p = q
  /\ \A i, j \in DOMAIN chain :
       chain[i].kind \in Outcome /\ chain[j].kind \in Outcome
         /\ chain[i].prop = chain[j].prop => i = j

\* m is a ledger that has caught up with the rail rl: what is out of the
\* customer's hands is on its books, and the block it has a handle on is the
\* only live one with money in it; what was taken is what it says; and it counts
\* on a block that is gone only where the customer tore that very block down.
CaughtUp(rl, m) ==
  /\ Available(m) >= 0
  /\ CustomerBalance - rl.balance <= Committed(m)
  /\ \A n \in DOMAIN rl.blocks : IsLive(rl.blocks[n]) =>
       Unspent(rl.blocks[n]) = IF n = m.block THEN Available(m) ELSE 0
  /\ m.debited = DebitedAt(rl)
  /\ ~Revocable /\ Available(m) > 0 =>
       m.block \in DOMAIN rl.blocks /\ IsLive(rl.blocks[m.block])
  /\ \A n \in DOMAIN rl.blocks : TornByCustomer(rl, n) => n = m.block /\ Available(m) > 0

\* What is left of the engine's verdict on a call the rail has yet to act on.
WithinGrant(call, m) ==
  /\ call.action = "reserve" => /\ Available(m) <= 0
                                /\ Committed(m) + call.amount <= m.env.max_total
  /\ call.action = "release" => call.amount <= Available(m)

WithinCap(m) == Committed(m) <= m.env.max_total

\* No block is overdrawn, none that is gone holds money, and what a live one
\* gave back the session asked for.
BlocksSound(rl) ==
  \A n \in DOMAIN rl.blocks :
    /\ Unspent(rl.blocks[n]) >= 0
    /\ ~IsLive(rl.blocks[n]) => Unspent(rl.blocks[n]) = 0
    /\ IsLive(rl.blocks[n]) /\ rl.blocks[n].released > 0 => HandedBack(rl, n)

\* What the rail remembers having done, and how that relates to the chain.
RailSound ==
  /\ BlocksSound(rail)
  /\ \A s, t \in rail.seen : s.key = t.key => s = t
  /\ \A s \in rail.seen :
       /\ s.key \in Intents
       /\ s.request.call = chain[s.key].call
       /\ s.block \in Blocks
       /\ s.key \in Dangling(chain) =>
            s.request.ref = IF s.request.call.action = "reserve" THEN 0 ELSE Ledger.block
  /\ Applied \subseteq KeysSeen
  /\ KeysSeen \subseteq Applied \cup Dangling(chain)

\* The ledger has caught up with the rail, but for the call in flight if the
\* rail has acted on it; and what the engine permitted is still within bounds
\* when the rail gets to act on it.
LedgerSound ==
  /\ Ledger \in Memory
  /\ Ledger.block \in 0 .. Len(rail.blocks)
  /\ WithinCap(Ledger)
  /\ Dangling(chain) \cap KeysSeen = {} => CaughtUp(rail, Ledger)
  /\ \A s \in rail.seen : s.key \in Dangling(chain) =>
       LET m == Booked(Ledger, s.request.call, s.block)
       IN  CaughtUp(rail, m) /\ WithinCap(m)
  /\ \A p \in Dangling(chain) \ KeysSeen : WithinGrant(chain[p].call, Ledger)

\* Where control stands, and which intent has no outcome there.
ControlSound ==
  /\ at \in {"idle", "down"} <=> asked = 0
  /\ asked # 0 => chain[asked].kind = "proposal"
  /\ at = "recording" <=> answer # "none"
  /\ at = "down" => in_doubt = 0
  /\ at \in {"idle", "judging"} =>
       Dangling(chain) = IF in_doubt = 0 THEN {} ELSE {in_doubt}
  /\ at = "intending" =>
       /\ in_doubt = 0 /\ Dangling(chain) = {}
       /\ chain[asked].call.amount > 0
       /\ WithinGrant(chain[asked].call, Ledger)
  /\ at \in {"judging", "intending"} => asked \notin Intents
  /\ at \in {"calling", "recording"} =>
       Dangling(chain) = {asked} /\ in_doubt \in {0, asked}

\* The ledger in memory is the one a restart would rebuild, plus what the rail
\* has just said.
MemorySound ==
  /\ at = "down" => mem = FreshMemory
  /\ at \notin {"down", "recording"} => mem = Ledger
  /\ at = "recording" => mem = IF answer = "applied"
                                 THEN Booked(Ledger, chain[asked].call, mem.block)
                                 ELSE Ledger
  /\ answer = "applied" =>
       \E s \in rail.seen : /\ s.key = asked
                            /\ chain[asked].call.action = "reserve" => mem.block = s.block
  /\ answer = "rail_rejected" => asked \notin KeysSeen

\* The widenings on the chain were signed, none narrows, each starts at or above
\* where the ones before it ended, and the caps in force are at or above all.
Wider(a, b) == a.max_total <= b.max_total /\ a.max_per_txn <= b.max_per_txn
Widenings == {i \in DOMAIN chain : chain[i].kind = "widened"}

GrantSound ==
  \A i \in Widenings :
    /\ [from |-> chain[i].from, to |-> chain[i].to] \in signed
    /\ Wider(chain[i].from, chain[i].to)
    /\ Wider(chain[i].to, Ledger.env)
    /\ \A j \in Widenings : i < j => Wider(chain[i].to, chain[j].from)

\* What the chain says was debited is what the ledger says, and nothing that was
\* debited, held or permitted is more than a transaction may be.
RecordSound ==
  LET most == Ledger.env.max_per_txn
  IN  /\ Net(chain) = Ledger.debited
      /\ Widenings = {} => Ledger.env = InitialCaps
      /\ Available(Ledger) \in 0 .. most
      /\ \A i \in EffectiveDebits(chain) : /\ chain[i].call.amount <= most
                                           /\ chain[i].call.amount <= Ledger.debited
      /\ \A p \in Intents : PermitsPayee(chain[p].call.payee)
      /\ \A p \in Dangling(chain) : chain[p].call.action = "reserve" =>
           chain[p].call.amount <= most /\ Available(Ledger) <= 0
      /\ at = "intending" =>
           /\ PermitsPayee(chain[asked].call.payee)
           /\ chain[asked].call.action = "reserve" => chain[asked].call.amount <= most

IInv == /\ TypeOK /\ ChainSound /\ RailSound /\ LedgerSound
        /\ ControlSound /\ MemorySound

=============================================================================
