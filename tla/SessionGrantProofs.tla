------------------------- MODULE SessionGrantProofs -------------------------
(***************************************************************************)
(* What follows from the inductive invariant of Session about the money at *)
(* the rail, the customer's say, the human's consent and the auditor's     *)
(* findings, and that a session implements SpendingGrant.                  *)
(***************************************************************************)
EXTENDS SessionProofs

(***************************************************************************)
(* Where the money is.                                                     *)
(***************************************************************************)
\* All that is held is in the block the ledger has its handle on.
LEMMA HeldIsInTheHandle ==
  ASSUME NEW rl \in Rail, BlocksSound(rl), NEW m \in Memory, CaughtUp(rl, m)
  PROVE  /\ \A n \in DOMAIN rl.blocks :
              IsLive(rl.blocks[n]) /\ Unspent(rl.blocks[n]) > 0 => n = m.block
         /\ HeldAt(rl) = IF m.block \in DOMAIN rl.blocks /\ IsLive(rl.blocks[m.block])
                           THEN Available(m) ELSE 0
         /\ 0 <= HeldAt(rl) /\ HeldAt(rl) <= Available(m)
         /\ HeldAt(rl) \in Int /\ Available(m) \in Int
         /\ ~Revocable => HeldAt(rl) = Available(m)
<1> DEFINE D == DOMAIN rl.blocks
           f == [n \in D |-> Unspent(rl.blocks[n])]
           k == m.block
<1>1. rl.blocks \in Seq(BlockRef) /\ IsFiniteSet(D)
  BY BlocksAreFinite DEF Rail
<1>2. \A n \in D : Unspent(rl.blocks[n]) \in Int
  BY <1>1, BlockNumbers
<1>3. Available(m) \in Int /\ Available(m) >= 0
  BY DEF Available, Memory, CaughtUp
<1>4. \A n \in D : Unspent(rl.blocks[n]) =
                     IF IsLive(rl.blocks[n]) /\ n = k THEN Available(m) ELSE 0
  BY DEF CaughtUp, BlocksSound
<1>5. DOMAIN f = D /\ \A n \in D : f[n] = Unspent(rl.blocks[n])
  OBVIOUS
<1>6. HeldAt(rl) = SumFunction(f)
  BY DEF HeldAt
<1> HIDE DEF D, f
<1>7. SumFunction(f) = IF k \in D /\ IsLive(rl.blocks[k]) THEN Available(m) ELSE 0
  <2>1. CASE k \in D /\ IsLive(rl.blocks[k])
    <3>1. \A n \in DOMAIN f \ {k} : f[n] = 0
      BY <1>4, <1>5
    <3>2. f[k] = Available(m) /\ f[k] \in Int /\ k \in DOMAIN f /\ IsFiniteSet(DOMAIN f)
      BY <1>1, <1>3, <1>4, <1>5, <2>1
    <3> HIDE DEF k
    <3>3. SumFunction(f) = f[k]
      BY <3>1, <3>2, SumSingle
    <3>. QED BY <2>1, <3>2, <3>3
  <2>2. CASE ~(k \in D /\ IsLive(rl.blocks[k]))
    <3>1. IsFiniteSet(DOMAIN f) /\ \A n \in DOMAIN f : f[n] = 0
      BY <1>1, <1>4, <1>5, <2>2
    <3>. QED BY <2>2, <3>1, SumZero
  <2>. QED BY <2>1, <2>2
<1>8. ~Revocable => HeldAt(rl) = Available(m)
  <2>1. ~Revocable /\ Available(m) > 0 => k \in D /\ IsLive(rl.blocks[k])
    BY DEF CaughtUp, D
  <2>. QED BY <1>3, <1>6, <1>7, <2>1
<1>9. \A n \in D : IsLive(rl.blocks[n]) /\ Unspent(rl.blocks[n]) > 0 => n = k
  BY <1>2, <1>4
<1>. QED BY <1>3, <1>6, <1>7, <1>8, <1>9 DEF D

\* There is always a ledger that has caught up with the rail: the one a restart
\* would rebuild, once the call in flight, if it was applied, is on the books.
LEMMA BooksExist ==
  ASSUME IInv
  PROVE  \E m \in Memory :
           /\ CaughtUp(rail, m) /\ WithinCap(m) /\ m.env = Ledger.env
           /\ Dangling(chain) \cap KeysSeen = {} => m = Ledger
           /\ \A s \in rail.seen : s.key \in Dangling(chain) =>
                /\ m = Booked(Ledger, s.request.call, s.block)
                /\ s.request.call.action # "debit" => m.debited = Ledger.debited
<1>1. /\ Ledger \in Memory /\ WithinCap(Ledger) /\ RailSound /\ LedgerSound
      /\ rail \in Rail /\ chain \in Seq(Entry) /\ ChainSound
  BY DEF IInv, LedgerSound, TypeOK
<1>2. CASE Dangling(chain) \cap KeysSeen = {}
  <2>1. \A s \in rail.seen : s.key \notin Dangling(chain)
    BY <1>2 DEF KeysSeen
  <2>. QED BY <1>1, <1>2, <2>1 DEF LedgerSound
<1>3. CASE Dangling(chain) \cap KeysSeen # {}
  <2>1. PICK s \in rail.seen : s.key \in Dangling(chain)
    BY <1>3 DEF KeysSeen
  <2> DEFINE c == s.request.call
             m == Booked(Ledger, c, s.block)
  <2>2. s \in Seen /\ s.block \in Nat /\ s.key \in Intents /\ c = chain[s.key].call
    BY <1>1, <2>1 DEF Rail, Seen, RailSound
  <2>3. c \in Call /\ c.amount > 0
    BY <1>1, <2>2, IntentsAreProposed
  <2>4. CaughtUp(rail, m) /\ WithinCap(m)
    BY <1>1, <2>1 DEF LedgerSound
  <2> HIDE DEF c
  <2>5. /\ m \in Memory /\ m.env = Ledger.env
        /\ c.action # "debit" => m.debited = Ledger.debited
    <3>1. c.action \in {"reserve", "debit", "release"}
      BY <2>3 DEF Call, Action
    <3>2. CASE c.action = "reserve"
      BY <1>1, <2>2, <2>3, <3>2, BookedReserve
    <3>3. CASE c.action = "debit"
      BY <1>1, <2>2, <2>3, <3>3, BookedDebit
    <3>4. CASE c.action = "release"
      BY <1>1, <2>2, <2>3, <3>4, BookedRelease
    <3>. QED BY <3>1, <3>2, <3>3, <3>4
  <2> HIDE DEF m
  <2>6. \A t \in rail.seen : t.key \in Dangling(chain) => t = s
    BY <1>1, <2>1 DEF RailSound, ChainSound
  <2>7. \A t \in rail.seen : t.key \in Dangling(chain) =>
          m = Booked(Ledger, t.request.call, t.block) /\ t.request.call = c
    BY <2>6 DEF m, c
  <2>. QED BY <1>3, <2>4, <2>5, <2>7
<1>. QED BY <1>2, <1>3

LEMMA LedgerInStep ==
  ASSUME IInv, InStep
  PROVE  /\ mem = Ledger /\ Ledger \in Memory /\ CaughtUp(rail, Ledger)
         /\ rail \in Rail /\ BlocksSound(rail)
<1>1. Dangling(chain) \cap Applied = {}
  BY IntentsAreProposed DEF IInv, TypeOK
<1>. QED BY <1>1 DEF InStep, IInv, MemorySound, LedgerSound, RailSound, TypeOK

\* Outside a call in doubt, the ledger (LedgerState) says what the rail took
\* and bounds what it holds (tests/test_properties.py:61).
THEOREM LedgerIsInStep == Spec => []LedgerAgreesWithRail
<1>1. ASSUME IInv, InStep
      PROVE  /\ mem.debited = Debited
             /\ Held <= Available(mem)
             /\ ~Revocable => Held = Available(mem)
  <2>1. /\ mem = Ledger /\ Ledger \in Memory /\ CaughtUp(rail, Ledger)
        /\ rail \in Rail /\ BlocksSound(rail)
    BY <1>1, LedgerInStep
  <2>2. /\ HeldAt(rail) <= Available(Ledger)
        /\ ~Revocable => HeldAt(rail) = Available(Ledger)
    BY <2>1, HeldIsInTheHandle
  <2>3. Ledger.debited = DebitedAt(rail)
    BY <2>1 DEF CaughtUp
  <2>. QED BY <2>1, <2>2, <2>3 DEF Held, Debited
<1>. QED BY <1>1, InductiveInvariant, PTL DEF LedgerAgreesWithRail

\* At most one block has money in it, and the session's handle is on it
\* (policy/engine.py:134).
THEOREM BlockIsInReach == Spec => []NoBlockOutOfReach
<1> DEFINE standing == {n \in Blocks : IsLive(rail.blocks[n]) /\ Unspent(rail.blocks[n]) > 0}
<1>1. ASSUME IInv PROVE Cardinality(standing) <= 1
  <2>1. PICK m \in Memory : CaughtUp(rail, m)
    BY <1>1, BooksExist
  <2>2. rail \in Rail /\ BlocksSound(rail)
    BY <1>1 DEF IInv, TypeOK, RailSound
  <2>3. standing \subseteq {m.block}
    BY <2>1, <2>2, HeldIsInTheHandle DEF Blocks
  <2> HIDE DEF standing
  <2>4. IsFiniteSet({m.block}) /\ Cardinality({m.block}) = 1
    BY FS_Singleton
  <2>5. Cardinality(standing) <= Cardinality({m.block})
    BY <2>3, <2>4, FS_Subset
  <2>. QED BY <2>4, <2>5
<1>2. ASSUME IInv, InStep PROVE standing \subseteq {mem.block}
  <2>1. /\ mem = Ledger /\ Ledger \in Memory /\ CaughtUp(rail, Ledger)
        /\ rail \in Rail /\ BlocksSound(rail)
    BY <1>2, LedgerInStep
  <2>. QED BY <2>1, HeldIsInTheHandle DEF Blocks
<1>3. IInv => NoBlockOutOfReach
  BY <1>1, <1>2 DEF NoBlockOutOfReach
<1>. QED BY <1>3, InductiveInvariant, PTL

(***************************************************************************)
(* The steps of a session, by what they do to the chain and to the rail.   *)
(***************************************************************************)
Quiet == chain' = chain /\ rail' = rail /\ signed \subseteq signed'

WritesNeutral ==
  /\ \E e \in Entry : Write(e) /\ e.kind \in Neutral /\ WellPlaced(e)
  /\ rail' = rail /\ signed' = signed

RailMoves ==
  /\ at = "calling" /\ chain' = chain /\ signed' = signed
  /\ ~KeyUsed(rail, asked) /\ Accepts(rail, RequestInHand)
  /\ rail' = Acted(rail, asked, RequestInHand)

LEMMA NeutralWrites ==
  ASSUME IInv, at \notin {"idle", "down"}, NEW kind \in Neutral \cap CallKind,
         kind # "proposal", NEW block \in Nat, WriteAbout(kind, block), rail' = rail,
         signed' = signed
  PROVE  WritesNeutral
<1> DEFINE e == About(kind, asked, chain[asked].call, block)
<1>1. /\ asked \in DOMAIN chain /\ asked \in Nat
      /\ chain[asked].kind = "proposal" /\ chain[asked].call \in Call
  BY AskedIsProposed
<1>2. e \in Entry /\ e.kind = kind /\ e.prop = asked /\ e.call = chain[asked].call
  BY <1>1, AboutIsEntry
<1>3. Write(e)
  BY DEF WriteAbout
<1> HIDE DEF e
<1>. QED BY <1>1, <1>2, <1>3 DEF WritesNeutral, WellPlaced

LEMMA AskWrites ==
  ASSUME IInv, AgentAsks
  PROVE  WritesNeutral
<1>1. mem.payee \in Payees /\ Available(mem) \in Int
  BY DEF IInv, TypeOK, Memory, Available
<1>2. PICK call \in Call : Asks(call)
  <2>1. ASSUME NEW amount \in Amounts, NEW payee \in Payees, AsksReserve(amount, payee)
        PROVE  \E call \in Call : Asks(call)
    <3>1. [action |-> "reserve", amount |-> amount, payee |-> payee] \in Call
      BY SessionAssumption DEF Call, Action
    <3>. QED BY <2>1, <3>1 DEF AsksReserve
  <2>2. ASSUME NEW amount \in Amounts, AsksDebit(amount)
        PROVE  \E call \in Call : Asks(call)
    <3>1. [action |-> "debit", amount |-> amount, payee |-> mem.payee] \in Call
      BY <1>1, SessionAssumption DEF Call, Action
    <3>. QED BY <2>2, <3>1 DEF AsksDebit
  <2>3. ASSUME NEW amount \in Amounts \cup {Available(mem)}, AsksRelease(amount)
        PROVE  \E call \in Call : Asks(call)
    <3>1. [action |-> "release", amount |-> amount, payee |-> mem.payee] \in Call
      BY <1>1, SessionAssumption DEF Call, Action
    <3>. QED BY <2>3, <3>1 DEF AsksRelease
  <2>. QED BY <2>1, <2>2, <2>3 DEF AgentAsks
<1> DEFINE e == About("proposal", Len(chain) + 1, call, 0)
<1>3. Write(e) /\ rail' = rail /\ signed' = signed
  BY <1>2 DEF Asks, world
<1>4. chain \in Seq(Entry)
  BY DEF IInv, TypeOK
<1>5. e \in Entry /\ e.kind = "proposal" /\ e.prop = Len(chain) + 1
  BY <1>4, AboutIsEntry DEF CallKind
<1> HIDE DEF e
<1>. QED BY <1>3, <1>5 DEF WritesNeutral, WellPlaced, Neutral

LEMMA OutcomeWritten ==
  ASSUME IInv, RecordOutcome
  PROVE  \E e \in Entry :
           /\ Write(e) /\ e.kind = answer /\ e.kind \in Outcome
           /\ e.prop = asked /\ e.call = chain[asked].call
           /\ e.call \in Call /\ e.call.amount > 0 /\ e.block \in Nat
<1> DEFINE block == IF answer = "applied" THEN mem.block ELSE 0
           e == About(answer, asked, chain[asked].call, block)
<1>1. at = "recording" /\ answer \in Outcome /\ Write(e)
  BY DEF RecordOutcome, WriteAbout, Outcome
<1>2. asked \in Nat /\ chain[asked].call \in Call
  BY <1>1, AskedIsProposed
<1>3. mem.block \in Nat /\ chain \in Seq(Entry) /\ ChainSound /\ asked \in Dangling(chain)
  BY <1>1 DEF IInv, TypeOK, Memory, ControlSound
<1>4. chain[asked].call.amount > 0
  BY <1>3, IntentsAreProposed
<1>5. block \in Nat /\ answer \in CallKind
  BY <1>1, <1>3 DEF Outcome, CallKind
<1> HIDE DEF block
<1>6. /\ e \in Entry /\ e.kind = answer /\ e.prop = asked
      /\ e.call = chain[asked].call /\ e.block = block
  BY <1>2, <1>5, AboutIsEntry
<1> HIDE DEF e
<1>. QED BY <1>1, <1>2, <1>4, <1>5, <1>6

\* A reading that books a call leaves the caps alone.
LEMMA OutcomeRead ==
  ASSUME NEW m \in Memory, NEW e \in Entry, e.kind \in Outcome,
         e.call \in Call, e.call.amount > 0, e.block \in Nat
  PROVE  Reread(m, e).env = m.env
<1>1. CASE e.kind = "applied"
  <2>1. Reread(m, e) = Booked(m, e.call, e.block)
    BY <1>1 DEF Reread
  <2>. QED BY <2>1, BookedReserve, BookedDebit, BookedRelease DEF Call, Action
<1>2. CASE e.kind = "rail_rejected"
  BY <1>2 DEF Reread
<1>. QED BY <1>1, <1>2 DEF Outcome

LEMMA Steps ==
  ASSUME IInv, [Next]_vars
  PROVE  \/ Quiet \/ WritesNeutral \/ WriteIntent \/ RailMoves \/ RecordOutcome
         \/ \E consent \in signed : ApproveRaise(consent)
         \/ \E n \in DOMAIN rail.blocks : CustomerRevokes(n)
<1>1. CASE AgentAsks
  BY <1>1, AskWrites
<1>2. CASE Refuse \/ Permit \/ RecordDoubt
  <2>1. "refusal" \in Neutral \cap CallKind /\ "policy_decision" \in Neutral \cap CallKind
        /\ "rail_in_doubt" \in Neutral \cap CallKind
    BY DEF Neutral, CallKind
  <2>2. CASE Refuse
    BY <2>1, <2>2, NeutralWrites DEF Refuse, world
  <2>3. CASE Permit
    BY <2>1, <2>3, NeutralWrites DEF Permit, world
  <2>4. CASE RecordDoubt
    BY <2>1, <2>4, NeutralWrites DEF RecordDoubt, world
  <2>. QED BY <1>2, <2>2, <2>3, <2>4
<1>3. CASE Notes
  <2> DEFINE e == [kind |-> "note"]
  <2>1. e \in Entry /\ e.kind = "note"
    BY DEF Entry, OtherEntry
  <2>2. Write(e) /\ rail' = rail /\ signed' = signed
    BY <1>3 DEF Notes, world
  <2> HIDE DEF e
  <2>. QED BY <2>1, <2>2 DEF WritesNeutral, WellPlaced, Neutral, CallKind
<1>4. CASE CallLost \/ RailActs
  BY <1>4 DEF CallLost, RailActs, Hears, Quiet, RailMoves, world
<1>5. CASE RailRepeats \/ RailRefuses
  BY <1>5 DEF RailRepeats, RailRefuses, Hears, Quiet, world
<1>6. CASE Resolve \/ Restart \/ Crash \/ Expire \/ UNCHANGED vars
  BY <1>6 DEF Resolve, Restart, Crash, Expire, vars, world, Quiet
<1>7. CASE \E to \in CapChoices : HumanSigns(to)
  BY <1>7 DEF HumanSigns, Quiet
<1>. QED BY <1>1, <1>2, <1>3, <1>4, <1>5, <1>6, <1>7
         DEF Next, Works, RailResponds, Human, Environment

(***************************************************************************)
(* The customer's say.                                                     *)
(***************************************************************************)
\* What is known when the rail is about to act.
LEMMA BeforeTheMove ==
  ASSUME IInv, RailMoves
  PROVE  /\ Dangling(chain) = {asked} /\ asked \notin KeysSeen
         /\ CaughtUp(rail, Ledger) /\ WithinGrant(chain[asked].call, Ledger)
         /\ Ledger \in Memory /\ rail \in Rail /\ BlocksSound(rail)
<1>1. Dangling(chain) = {asked}
  BY CallingFacts DEF RailMoves
<1>2. asked \notin KeysSeen
  BY DEF RailMoves, KeyUsed, KeysSeen
<1>. QED BY <1>1, <1>2 DEF IInv, LedgerSound, RailSound, TypeOK

\* Once the customer has torn down a block with money in it, the rail does
\* nothing more for the session (policy/engine.py:134, rails/simulator.py).
THEOREM RevocationIsFinal == Spec => RevocationFailsClosed
<1>1. ASSUME IInv, [Next]_vars, NEW n \in Blocks, TornByCustomer(rail, n)
      PROVE  rail'.seen = rail.seen
  <2>1. CASE RailMoves
    <3>1. n = Ledger.block /\ Available(Ledger) > 0
      BY <1>1, <2>1, BeforeTheMove DEF CaughtUp, Blocks
    <3>2. WithinGrant(chain[asked].call, Ledger) /\ Accepts(rail, RequestInHand)
      BY <1>1, <2>1, BeforeTheMove DEF RailMoves
    <3>3. /\ RequestInHand.call = chain[asked].call
          /\ RequestInHand.ref = IF chain[asked].call.action = "reserve"
                                   THEN 0 ELSE Ledger.block
          /\ Ledger \in Memory
      BY <1>1, <2>1, CallingFacts DEF RailMoves
    <3>4. Available(Ledger) \in Int
      BY <3>3 DEF Available, Memory
    <3>5. chain[asked].call.action # "reserve"
      BY <3>1, <3>2, <3>4 DEF WithinGrant
    <3>6. IsLive(rail.blocks[n])
      BY <3>1, <3>2, <3>3, <3>5 DEF Accepts, TakesReserve, TakesDebit, TakesRelease
    <3>. QED BY <1>1, <3>6 DEF TornByCustomer, IsLive
  <2>2. CASE \E i \in DOMAIN rail.blocks : CustomerRevokes(i)
    BY <1>1, <2>2 DEF CustomerRevokes, Revoked, Rail, IInv, TypeOK
  <2>3. Quiet \/ WritesNeutral \/ WriteIntent \/ RecordOutcome
          \/ (\E consent \in signed : ApproveRaise(consent)) => rail' = rail
    BY DEF Quiet, WritesNeutral, WriteIntent, RecordOutcome, ApproveRaise
  <2>. QED BY <1>1, <2>1, <2>2, <2>3, Steps
<1>2. IInv /\ [Next]_vars =>
        ((\E n \in Blocks : TornByCustomer(rail, n)) => rail'.seen = rail.seen)
  BY <1>1
<1>. QED BY <1>2, InductiveInvariant, PTL DEF Spec, RevocationFailsClosed

(***************************************************************************)
(* The human's consent.                                                    *)
(***************************************************************************)
LEMMA WideningFacts ==
  ASSUME chain \in Seq(Entry), NEW i \in Widenings
  PROVE  i \in DOMAIN chain /\ i \in Nat /\ chain[i].from \in Caps /\ chain[i].to \in Caps
<1>1. i \in DOMAIN chain /\ chain[i].kind = "widened"
  BY DEF Widenings
<1>2. chain[i] \in Entry /\ i \in Nat
  BY <1>1
<1>3. chain[i] \in WideningEntry
  BY <1>1, <1>2, EntryFacts
<1>. QED BY <1>1, <1>2, <1>3 DEF WideningEntry

LEMMA WiderStill ==
  ASSUME NEW a \in Caps, NEW b \in Caps, NEW c \in Caps, Wider(a, b), Wider(b, c)
  PROVE  Wider(a, c)
BY DEF Wider, Caps

\* A step that writes no widening and leaves the caps in force alone.
LEMMA GrantUntouched ==
  ASSUME IInv, GrantSound, signed \subseteq signed', Ledger'.env = Ledger.env,
         chain' = chain \/ \E e \in Entry : Write(e) /\ e.kind # "widened"
  PROVE  GrantSound'
<1>1. /\ Widenings' = Widenings /\ \A i \in Widenings : chain'[i] = chain[i]
  <2>1. CASE chain' = chain
    BY <2>1 DEF Widenings
  <2>2. CASE chain' # chain
    <3>1. PICK e \in Entry : Write(e) /\ e.kind # "widened"
      BY <2>2
    <3>2. chain \in Seq(Entry)
      BY DEF IInv, TypeOK
    <3>3. /\ DOMAIN chain' = DOMAIN chain \cup {Len(chain) + 1}
          /\ chain'[Len(chain) + 1] = e
          /\ \A i \in DOMAIN chain : chain'[i] = chain[i]
      BY <3>1, <3>2, Appending
    <3>. QED BY <3>1, <3>3 DEF Widenings
  <2>. QED BY <2>1, <2>2
<1>. QED BY <1>1 DEF GrantSound

LEMMA GrantWidened ==
  ASSUME IInv, GrantSound, NEW consent \in signed, ApproveRaise(consent)
  PROVE  GrantSound'
<1> DEFINE e == [kind |-> "widened", from |-> consent.from, to |-> consent.to]
<1>1. /\ at = "idle" /\ Widens(consent) /\ Write(e) /\ signed' = signed
  BY DEF ApproveRaise, world
<1>2. chain \in Seq(Entry) /\ mem = Ledger /\ Ledger \in Memory
  BY <1>1 DEF IInv, TypeOK, MemorySound, LedgerSound
<1>3. consent.from \in Caps /\ consent.to \in Caps
      /\ [from |-> consent.from, to |-> consent.to] = consent
  BY DEF IInv, TypeOK, Consent
<1>4. e \in Entry /\ e.kind = "widened" /\ e.from = consent.from /\ e.to = consent.to
  BY <1>3 DEF Entry, WideningEntry
<1> HIDE DEF e
<1> DEFINE k == Len(chain) + 1
<1>5. /\ DOMAIN chain = 1 .. Len(chain) /\ Len(chain) \in Nat
      /\ DOMAIN chain' = DOMAIN chain \cup {k}
      /\ chain'[k] = e
      /\ \A i \in DOMAIN chain : chain'[i] = chain[i]
      /\ Ledger' = Reread(Ledger, e)
  BY <1>1, <1>2, <1>4, Appending
<1>6. Ledger'.env = consent.to
  BY <1>2, <1>4, <1>5 DEF Reread, Memory
<1>7. consent.from = Ledger.env /\ Wider(consent.from, consent.to)
  BY <1>1, <1>2 DEF Widens, Wider
<1>8. Widenings' = Widenings \cup {k} /\ \A i \in Widenings : chain'[i] = chain[i] /\ i < k
  BY <1>4, <1>5 DEF Widenings
<1>9. \A i \in Widenings : /\ [from |-> chain[i].from, to |-> chain[i].to] \in signed
                           /\ Wider(chain[i].from, chain[i].to)
                           /\ Wider(chain[i].to, consent.from)
                           /\ chain[i].to \in Caps
  BY <1>2, <1>7, WideningFacts DEF GrantSound
<1>10. \A i \in Widenings : Wider(chain[i].to, consent.to)
  BY <1>3, <1>7, <1>9, WiderStill
<1>11. Wider(consent.to, consent.to)
  BY <1>3 DEF Wider, Caps
<1>12. \A i, j \in Widenings : i < j => Wider(chain[i].to, chain[j].from)
  BY DEF GrantSound
<1>13. k \in Nat /\ \A j \in Widenings : ~(k < j) /\ ~(k < k)
  BY <1>5, <1>8 DEF Widenings
<1> HIDE DEF k
<1>. QED BY <1>1, <1>3, <1>4, <1>5, <1>6, <1>7, <1>8, <1>9, <1>10, <1>11, <1>12, <1>13
         DEF GrantSound

LEMMA GrantSoundStep ==
  ASSUME IInv, GrantSound, [Next]_vars
  PROVE  GrantSound'
<1>0. chain \in Seq(Entry) /\ Ledger \in Memory
  BY DEF IInv, TypeOK, LedgerSound
<1>1. CASE Quiet
  BY <1>1, GrantUntouched DEF Quiet, Ledger
<1>2. CASE WritesNeutral
  <2>1. PICK e \in Entry : Write(e) /\ e.kind \in Neutral
    BY <1>2 DEF WritesNeutral
  <2>2. Ledger' = Ledger /\ e.kind # "widened"
    BY <1>0, <2>1, Appending DEF Neutral, Reread
  <2>. QED BY <1>2, <2>1, <2>2, GrantUntouched DEF WritesNeutral
<1>3. CASE WriteIntent
  <2> DEFINE e == About("rail_intent", asked, chain[asked].call, 0)
  <2>1. Write(e) /\ signed' = signed /\ at = "intending"
    BY <1>3 DEF WriteIntent, WriteAbout, world
  <2>2. e \in Entry /\ e.kind = "rail_intent"
    BY <2>1, AskedIsProposed, AboutIsEntry DEF CallKind
  <2> HIDE DEF e
  <2>3. Ledger' = Ledger
    BY <1>0, <2>1, <2>2, Appending DEF Reread
  <2>. QED BY <2>1, <2>2, <2>3, GrantUntouched
<1>4. CASE RailMoves
  BY <1>4, GrantUntouched DEF RailMoves, Ledger
<1>5. CASE RecordOutcome
  <2>1. PICK e \in Entry : /\ Write(e) /\ e.kind \in Outcome
                           /\ e.call \in Call /\ e.call.amount > 0 /\ e.block \in Nat
    BY <1>5, OutcomeWritten
  <2>2. Ledger'.env = Ledger.env /\ e.kind # "widened" /\ signed' = signed
    <3>1. Ledger' = Reread(Ledger, e)
      BY <1>0, <2>1, Appending
    <3>. QED BY <1>0, <1>5, <2>1, <3>1, OutcomeRead DEF Outcome, RecordOutcome, world
  <2>. QED BY <2>1, <2>2, GrantUntouched
<1>6. CASE \E consent \in signed : ApproveRaise(consent)
  BY <1>6, GrantWidened
<1>7. CASE \E n \in DOMAIN rail.blocks : CustomerRevokes(n)
  BY <1>7, GrantUntouched DEF CustomerRevokes, Ledger, world
<1>. QED BY <1>1, <1>2, <1>3, <1>4, <1>5, <1>6, <1>7, Steps

\* A widening in force was signed by a human, and a consent that widens
\* anything is spent once (approve_raise, policy/consent.py).
THEOREM ConsentIsSpentOnce == Spec => []ConsentSpentOnce
<1>1. Init => GrantSound
  <2> SUFFICES ASSUME Init PROVE Widenings = {}
    BY DEF GrantSound
  <2>. QED BY DEF Init, Widenings
<1>2. IInv /\ GrantSound /\ [Next]_vars => GrantSound'
  BY GrantSoundStep
<1>3. ASSUME IInv, GrantSound PROVE ConsentSpentOnce
  <2>1. ASSUME NEW i \in Widenings, NEW j \in Widenings, i < j,
               chain[i].from = chain[j].from, chain[i].to = chain[j].to
        PROVE  chain[i].from = chain[i].to
    <3>1. /\ Wider(chain[i].from, chain[i].to) /\ Wider(chain[i].to, chain[i].from)
      BY <1>3, <2>1 DEF GrantSound
    <3>2. chain[i].from \in Caps /\ chain[i].to \in Caps
      BY <1>3, WideningFacts DEF IInv, TypeOK
    <3>. QED BY <3>1, <3>2 DEF Wider, Caps
  <2>2. \A i \in Widenings : [from |-> chain[i].from, to |-> chain[i].to] \in signed
    BY <1>3 DEF GrantSound
  <2>3. \A i \in Widenings : i \in Nat
    BY <1>3, WideningFacts DEF IInv, TypeOK
  <2>4. ASSUME NEW i \in Widenings, NEW j \in Widenings,
               [from |-> chain[i].from, to |-> chain[i].to]
                 = [from |-> chain[j].from, to |-> chain[j].to],
               chain[i].from # chain[i].to
        PROVE  i = j
    <3>1. chain[i].from = chain[j].from /\ chain[i].to = chain[j].to
      BY <2>4
    <3>2. ~(i < j) /\ ~(j < i)
      BY <2>1, <2>4, <3>1
    <3>. QED BY <2>3, <3>2
  <2>. QED BY <2>2, <2>4 DEF ConsentSpentOnce, Widenings
<1>. QED BY <1>1, <1>2, <1>3, InductiveInvariant, PTL DEF Spec

(***************************************************************************)
(* A session implements the grant.  Each kind of step is a step of         *)
(* SpendingGrant or leaves all of its variables alone.                     *)
(***************************************************************************)
LEMMA TheOneInDoubt ==
  ASSUME NEW c, NEW p \in Nat, Dangling(c) = {p}
  PROVE  InDoubtAfter(c) = p
BY DEF InDoubtAfter

LEMMA IntentsAreNat ==
  ASSUME IInv
  PROVE  /\ chain \in Seq(Entry) /\ ChainSound
         /\ Dangling(chain) \subseteq Intents /\ Settled(chain) \subseteq Intents
         /\ Applied \subseteq Settled(chain)
         /\ \A p \in Intents : p \in Nat /\ p \in DOMAIN chain /\ chain[p].call \in Call
         /\ \A p, q \in Dangling(chain) : p = q
<1>1. chain \in Seq(Entry) /\ ChainSound
  BY DEF IInv, TypeOK
<1>. QED BY <1>1, IntentsAreProposed DEF ChainSound

LEMMA AnOrderIsOpen ==
  ASSUME NEW c, NEW p
  PROVE  [key |-> p, call |-> c] # NoOrder
<1>1. DOMAIN [key |-> p, call |-> c] = {"key", "call"} /\ DOMAIN [key |-> 0] = {"key"}
  OBVIOUS
<1>. QED BY <1>1 DEF NoOrder

\* What the grant sees of the chain is what the intents and their outcomes say.
LEMMA SameOrders ==
  ASSUME IInv, Dangling(chain)' = Dangling(chain),
         \A p \in Intents : chain'[p] = chain[p]
  PROVE  /\ OpenOrder' = OpenOrder
         /\ KeysSeen' = KeysSeen => HasMoved' = HasMoved
         /\ Settled(chain)' = Settled(chain) /\ Applied' = Applied => Receipts' = Receipts
<1>1. /\ Dangling(chain) \subseteq Intents /\ Settled(chain) \subseteq Intents
      /\ \A p \in Intents : p \in Nat
      /\ \A p, q \in Dangling(chain) : p = q
  BY IntentsAreNat
<1>2. \A p \in Intents : OrderOf(p)' = OrderOf(p)
  BY DEF OrderOf
<1>3. OpenOrder' = OpenOrder
  <2>1. CASE Dangling(chain) = {}
    BY <2>1 DEF OpenOrder
  <2>2. CASE Dangling(chain) # {}
    <3>1. PICK p \in Intents : Dangling(chain) = {p} /\ p \in Nat
      BY <1>1, <2>2
    <3>2. InDoubtAfter(chain) = p /\ InDoubtAfter(chain)' = p
      BY <3>1, TheOneInDoubt
    <3>3. OpenOrder = OrderOf(p) /\ OpenOrder' = [key |-> p, call |-> chain'[p].call]
      BY <2>2, <3>2 DEF OpenOrder, OrderOf
    <3>. QED BY <3>1, <3>3 DEF OrderOf
  <2>. QED BY <2>1, <2>2
<1>4. KeysSeen' = KeysSeen => HasMoved' = HasMoved
  BY DEF HasMoved
<1>5. ASSUME Settled(chain)' = Settled(chain), Applied' = Applied
      PROVE  Receipts' = Receipts
  <2>1. \A p \in Settled(chain) :
          [order |-> OrderOf(p), moved |-> p \in Applied]'
            = [order |-> OrderOf(p), moved |-> p \in Applied]
    BY <1>1, <1>2, <1>5
  <2>. QED BY <1>5, <2>1 DEF Receipts
<1>. QED BY <1>3, <1>4, <1>5

LEMMA SameMoney ==
  ASSUME rail' = rail
  PROVE  Held' = Held /\ Spent' = Spent /\ KeysSeen' = KeysSeen
BY DEF Held, HeldAt, Spent, Exposure, KeysSeen

LEMMA QuietStutters ==
  ASSUME Quiet
  PROVE  UNCHANGED Grant!vars
BY DEF Quiet, Grant!vars, CapInForce, Held, HeldAt, Spent, Exposure, OpenOrder, OrderOf,
       HasMoved, Receipts, KeysSeen, Applied

LEMMA NeutralStutters ==
  ASSUME IInv, WritesNeutral
  PROVE  UNCHANGED Grant!vars
<1>1. PICK e \in Entry : Write(e) /\ e.kind \in Neutral /\ WellPlaced(e)
  BY DEF WritesNeutral
<1>2. TypeOK /\ ChainFacts /\ chain \in Seq(Entry) /\ rail' = rail
  BY DEF IInv, TypeOK, ChainFacts, WritesNeutral
<1>3. /\ Ledger' = Ledger /\ Dangling(chain)' = Dangling(chain)
      /\ Settled(chain)' = Settled(chain) /\ KeysSeen' = KeysSeen
  BY <1>1, <1>2, NeutralAppend
<1>4. Applied' = Applied /\ \A p \in DOMAIN chain : chain'[p] = chain[p]
  BY <1>1, <1>2, Appending DEF Neutral
<1>5. \A p \in Intents : chain'[p] = chain[p]
  BY <1>4, IntentsAreNat
<1>6. OpenOrder' = OpenOrder /\ HasMoved' = HasMoved /\ Receipts' = Receipts
  BY <1>3, <1>4, <1>5, SameOrders
<1>7. Held' = Held /\ Spent' = Spent
  BY <1>2, SameMoney
<1>. QED BY <1>3, <1>6, <1>7 DEF Grant!vars, CapInForce, Ledger

\* WriteIntent opens the order.
LEMMA IntentOpens ==
  ASSUME IInv, WriteIntent
  PROVE  Grant!Open
<1> DEFINE e == About("rail_intent", asked, chain[asked].call, 0)
<1>1. /\ at = "intending" /\ Write(e) /\ rail' = rail /\ asked \in Nat
      /\ asked \in DOMAIN chain /\ chain[asked].call \in Call
  BY AskedIsProposed DEF WriteIntent, WriteAbout
<1>2. /\ Dangling(chain) = {} /\ asked \notin Intents /\ RailSound
  BY <1>1 DEF IInv, ControlSound
<1>3. e \in Entry /\ e.kind = "rail_intent" /\ e.prop = asked
  BY <1>1, AboutIsEntry DEF CallKind
<1> HIDE DEF e
<1>4. /\ chain \in Seq(Entry) /\ Settled(chain) \subseteq Intents
      /\ \A p \in Intents : p \in DOMAIN chain
  BY IntentsAreNat
<1>5. /\ Intents' = Intents \cup {asked} /\ Settled(chain)' = Settled(chain)
      /\ Applied' = Applied /\ Ledger' = Reread(Ledger, e)
      /\ \A p \in DOMAIN chain : chain'[p] = chain[p]
  BY <1>1, <1>3, <1>4, Appending DEF Outcome
<1>6. Dangling(chain)' = {asked}
  <2>1. Dangling(chain) = Intents \ Settled(chain)
    BY DEF Dangling, Intents
  <2>2. Dangling(chain)' = Intents' \ Settled(chain)'
    BY DEF Dangling, Intents
  <2>. QED BY <1>2, <1>4, <1>5, <2>1, <2>2
<1>7. OpenOrder = NoOrder /\ OpenOrder' = [key |-> asked, call |-> chain[asked].call]
  <2>1. InDoubtAfter(chain)' = asked
    BY <1>1, <1>6, TheOneInDoubt
  <2>. QED BY <1>1, <1>2, <1>5, <1>6, <2>1 DEF OpenOrder, OrderOf
<1>8. ~HasMoved /\ ~HasMoved' /\ HasMoved \in BOOLEAN /\ HasMoved' \in BOOLEAN
  <2>1. asked \notin KeysSeen /\ KeysSeen' = KeysSeen
    BY <1>1, <1>2 DEF KeysSeen, RailSound
  <2>. QED BY <1>2, <1>6, <2>1 DEF HasMoved
<1>9. Receipts' = Receipts
  <2>1. \A p \in Settled(chain) : OrderOf(p)' = OrderOf(p)
    BY <1>4, <1>5 DEF OrderOf
  <2>2. \A p \in Settled(chain) :
          [order |-> OrderOf(p), moved |-> p \in Applied]'
            = [order |-> OrderOf(p), moved |-> p \in Applied]
    BY <1>5, <2>1
  <2>. QED BY <1>5, <2>2 DEF Receipts
<1>10. \A r \in Receipts : r.order.key # OpenOrder'.key
  BY <1>2, <1>4, <1>7 DEF Receipts, OrderOf
<1>11. CapInForce' = CapInForce /\ Held' = Held /\ Spent' = Spent
  BY <1>1, <1>3, <1>5, SameMoney DEF CapInForce, Ledger, Reread
<1>12. OpenOrder' \in [key: Nat, call: Call]
  BY <1>1, <1>7
<1>13. HasMoved' = HasMoved
  BY <1>8
<1>. QED BY <1>7, <1>9, <1>10, <1>11, <1>12, <1>13 DEF Grant!Open

\* What is spent and held stays within what the books say.
LEMMA MoneyIsNumbers ==
  ASSUME IInv
  PROVE  /\ Exposure \in Int /\ Held \in Int /\ Spent \in Int
         /\ rail.balance \in Nat /\ Ledger \in Memory /\ CapInForce \in Nat
<1>1. rail \in Rail /\ Ledger \in Memory
  BY DEF IInv, TypeOK, LedgerSound
<1>2. rail.balance \in Nat /\ rail.blocks \in Seq(BlockRef)
  BY <1>1 DEF Rail
<1>3. Held \in Int
  BY <1>2, TotalsAreInt DEF Held
<1>4. Exposure \in Int
  BY <1>2, CustomerBalanceAssumption DEF Exposure
<1>5. CapInForce \in Nat
  BY <1>1 DEF CapInForce, Ledger, Memory, Caps
<1>. QED BY <1>1, <1>2, <1>3, <1>4, <1>5 DEF Spent

\* The rail's transition is the one step in which the order moves money.
LEMMA RailMovesTheOrder ==
  ASSUME IInv, RailMoves
  PROVE  Grant!Move
<1> DEFINE c == chain[asked].call
           k == Ledger.block
<1>1. /\ Dangling(chain) = {asked} /\ asked \notin KeysSeen
      /\ CaughtUp(rail, Ledger) /\ WithinGrant(c, Ledger)
      /\ Ledger \in Memory /\ rail \in Rail /\ BlocksSound(rail)
  BY BeforeTheMove
<1>2. /\ RequestInHand.call = c
      /\ RequestInHand.ref = IF c.action = "reserve" THEN 0 ELSE k
      /\ c \in Call /\ c.amount > 0 /\ asked \in Nat
  BY CallingFacts DEF RailMoves
<1>3. /\ Ledger' = Ledger /\ Dangling(chain)' = Dangling(chain)
      /\ \E s \in rail'.seen : s.key = asked
      /\ MovesWhatItSays(rail, rail', c)
      /\ chain' = chain /\ Accepts(rail, RequestInHand) /\ rail' \in Rail
  BY RailActed DEF RailMoves
<1>4. OpenOrder = [key |-> asked, call |-> c] /\ OpenOrder # NoOrder /\ OpenOrder' = OpenOrder
  <2>1. InDoubtAfter(chain) = asked
    BY <1>1, <1>2, TheOneInDoubt
  <2>2. OpenOrder = [key |-> asked, call |-> c]
    BY <1>1, <2>1 DEF OpenOrder, OrderOf
  <2>3. OpenOrder' = OpenOrder
    BY <1>3 DEF OpenOrder, OrderOf
  <2>. QED BY <2>2, <2>3, AnOrderIsOpen
<1>5. ~HasMoved /\ HasMoved' = TRUE
  <2>1. asked \in KeysSeen'
    BY <1>3 DEF KeysSeen
  <2>. QED BY <1>1, <1>3, <2>1 DEF HasMoved
<1>6. Receipts' = Receipts /\ CapInForce' = CapInForce
  BY <1>3 DEF Receipts, OrderOf, Applied, CapInForce
<1>7. /\ Exposure \in Int /\ Held \in Int /\ Spent \in Int /\ rail.balance \in Nat
      /\ CapInForce \in Nat /\ Spent = Exposure - Held
      /\ c.amount \in Int /\ Available(Ledger) \in Int /\ Committed(Ledger) \in Int
  <2>1. c.amount \in Int /\ Available(Ledger) \in Int /\ Committed(Ledger) \in Int
    BY <1>1, <1>2 DEF Call, Memory, Available, Committed
  <2>. QED BY <2>1, MoneyIsNumbers DEF Spent
<1>8. /\ 0 <= Held /\ Held <= Available(Ledger)
      /\ k \in DOMAIN rail.blocks /\ IsLive(rail.blocks[k]) => Held = Available(Ledger)
  BY <1>1, HeldIsInTheHandle DEF Held
<1>9. CustomerBalance \in Nat /\ Exposure = CustomerBalance - rail.balance
  BY CustomerBalanceAssumption DEF Exposure
<1>10. Held' = HeldAt(rail') /\ Held = HeldAt(rail)
       /\ Spent' = CustomerBalance - rail'.balance - Held'
  BY DEF Held, Spent, Exposure
<1> HIDE DEF c, k
<1>11. CASE c.action = "reserve"
  <2>1. Held = 0
    BY <1>1, <1>7, <1>8, <1>11 DEF WithinGrant
  <2>2. Spent + c.amount <= CapInForce
    <3>1. Exposure <= Committed(Ledger)
      BY <1>1, <1>9 DEF CaughtUp
    <3>2. Committed(Ledger) + c.amount <= CapInForce
      BY <1>1, <1>11 DEF WithinGrant, CapInForce, Ledger
    <3>. QED BY <1>7, <2>1, <3>1, <3>2
  <2>3. Held' = c.amount /\ Spent' = Spent
    BY <1>3, <1>7, <1>9, <1>10, <1>11, <2>1 DEF MovesWhatItSays
  <2>. QED BY <1>4, <1>5, <1>6, <1>11, <2>1, <2>2, <2>3 DEF Grant!Move
<1>12. CASE c.action = "debit" \/ c.action = "release"
  <2>1. k \in DOMAIN rail.blocks /\ IsLive(rail.blocks[k])
    <3>1. k \in 0 .. Len(rail.blocks) /\ rail.blocks \in Seq(BlockRef)
      BY <1>1 DEF IInv, LedgerSound, Rail, k
    <3>. QED BY <1>2, <1>3, <1>12, <3>1
             DEF Accepts, TakesReserve, TakesDebit, TakesRelease
  <2>2. Held = Available(Ledger) /\ Unspent(rail.blocks[k]) = Available(Ledger)
    BY <1>1, <1>8, <2>1 DEF CaughtUp, k
  <2>3. c.amount <= Held
    <3>1. CASE c.action = "release"
      BY <1>1, <2>2, <3>1 DEF WithinGrant
    <3>2. CASE c.action = "debit"
      BY <1>2, <1>3, <2>2, <3>2 DEF Accepts, TakesReserve, TakesDebit, TakesRelease
    <3>. QED BY <1>12, <3>1, <3>2
  <2>4. CASE c.action = "debit"
    <3>1. Held' = Held - c.amount /\ Spent' = Spent + c.amount
      BY <1>3, <1>7, <1>9, <1>10, <2>4 DEF MovesWhatItSays
    <3>. QED BY <1>4, <1>5, <1>6, <2>3, <2>4, <3>1 DEF Grant!Move
  <2>5. CASE c.action = "release"
    <3>1. Held' = Held - c.amount /\ Spent' = Spent
      BY <1>3, <1>7, <1>9, <1>10, <2>5 DEF MovesWhatItSays
    <3>. QED BY <1>4, <1>5, <1>6, <2>3, <2>5, <3>1 DEF Grant!Move
  <2>. QED BY <1>12, <2>4, <2>5
<1>. QED BY <1>2, <1>11, <1>12 DEF Call, Action

\* RecordOutcome closes the order, and its receipt says whether it moved.
LEMMA OutcomeCloses ==
  ASSUME IInv, RecordOutcome
  PROVE  Grant!Close
<1>1. PICK e \in Entry :
        /\ Write(e) /\ e.kind = answer /\ e.kind \in Outcome
        /\ e.prop = asked /\ e.call = chain[asked].call
        /\ e.call \in Call /\ e.call.amount > 0 /\ e.block \in Nat
  BY OutcomeWritten
<1>2. at = "recording" /\ rail' = rail
  BY DEF RecordOutcome
<1>3. /\ chain \in Seq(Entry) /\ Dangling(chain) = {asked}
      /\ asked \in Intents /\ asked \notin Settled(chain) /\ asked \in Nat
      /\ RailSound /\ Ledger \in Memory /\ MemorySound
  <2>1. Dangling(chain) = {asked} /\ RailSound /\ Ledger \in Memory /\ MemorySound
    BY <1>2 DEF IInv, ControlSound, LedgerSound
  <2>2. Dangling(chain) = Intents \ Settled(chain)
    BY DEF Dangling, Intents
  <2>. QED BY <2>1, <2>2, IntentsAreNat
<1>4. /\ Intents' = Intents /\ Settled(chain)' = Settled(chain) \cup {asked}
      /\ Applied' = Applied \cup (IF answer = "applied" THEN {asked} ELSE {})
      /\ Ledger' = Reread(Ledger, e)
      /\ \A p \in DOMAIN chain : chain'[p] = chain[p]
  BY <1>1, <1>3, Appending DEF Outcome
<1>5. Dangling(chain)' = {}
  <2>1. Dangling(chain) = Intents \ Settled(chain)
    BY DEF Dangling, Intents
  <2>2. Dangling(chain)' = Intents' \ Settled(chain)'
    BY DEF Dangling, Intents
  <2>. QED BY <1>3, <1>4, <2>1, <2>2
<1>6. OpenOrder = OrderOf(asked) /\ OpenOrder # NoOrder /\ OpenOrder' = NoOrder
  <2>1. InDoubtAfter(chain) = asked
    BY <1>3, TheOneInDoubt
  <2>2. OpenOrder = OrderOf(asked)
    BY <1>3, <2>1 DEF OpenOrder
  <2>. QED BY <1>5, <2>2, AnOrderIsOpen DEF OpenOrder, OrderOf
<1>7. HasMoved' = FALSE /\ HasMoved = (asked \in KeysSeen)
  BY <1>3, <1>5 DEF HasMoved
<1>8. (asked \in Applied') = (asked \in KeysSeen)
  <2>1. asked \notin Applied
    BY <1>3, IntentsAreNat
  <2>2. answer = "applied" => asked \in KeysSeen
    BY <1>3 DEF MemorySound, KeysSeen
  <2>3. answer = "rail_rejected" => asked \notin KeysSeen
    BY <1>3 DEF MemorySound
  <2>. QED BY <1>1, <1>4, <2>1, <2>2, <2>3 DEF Outcome
<1>9. Receipts' = Receipts \cup {[order |-> OpenOrder, moved |-> HasMoved]}
  <2> DEFINE receipt(p) == [order |-> OrderOf(p), moved |-> p \in Applied]
             receipt2(p) == [order |-> [key |-> p, call |-> chain'[p].call],
                            moved |-> p \in Applied']
  <2>1. \A p \in Settled(chain) : receipt2(p) = receipt(p)
    <3>1. \A p \in Settled(chain) : [key |-> p, call |-> chain'[p].call] = OrderOf(p)
      BY <1>4, IntentsAreNat DEF OrderOf
    <3>2. \A p \in Settled(chain) : (p \in Applied') = (p \in Applied)
      BY <1>3, <1>4
    <3>. QED BY <3>1, <3>2
  <2>2. receipt2(asked) = [order |-> OpenOrder, moved |-> HasMoved]
    BY <1>3, <1>4, <1>6, <1>7, <1>8, IntentsAreNat DEF OrderOf
  <2>3. Receipts = {receipt(p) : p \in Settled(chain)}
    BY DEF Receipts
  <2>4. Receipts' = {receipt2(p) : p \in Settled(chain) \cup {asked}}
    BY <1>4 DEF Receipts, OrderOf
  <2> HIDE DEF receipt, receipt2
  <2>. QED BY <2>1, <2>2, <2>3, <2>4
<1>10. CapInForce' = CapInForce
  BY <1>1, <1>3, <1>4, OutcomeRead DEF CapInForce, Ledger
<1>11. Held' = Held /\ Spent' = Spent
  BY <1>2, SameMoney
<1>. QED BY <1>6, <1>7, <1>9, <1>10, <1>11 DEF Grant!Close

\* A human widens the grant, or signs to what is in force already.
LEMMA RaiseWidens ==
  ASSUME IInv, NEW consent \in signed, ApproveRaise(consent)
  PROVE  Grant!Widen \/ UNCHANGED Grant!vars
<1> DEFINE e == [kind |-> "widened", from |-> consent.from, to |-> consent.to]
<1>1. /\ at = "idle" /\ Widens(consent) /\ Write(e) /\ rail' = rail
  BY DEF ApproveRaise, world
<1>2. chain \in Seq(Entry) /\ mem = Ledger /\ Ledger \in Memory
  BY <1>1 DEF IInv, TypeOK, MemorySound, LedgerSound
<1>3. consent.from \in Caps /\ consent.to \in Caps
  BY DEF IInv, TypeOK, Consent
<1>4. e \in Entry /\ e.kind = "widened" /\ e.to = consent.to
  BY <1>3 DEF Entry, WideningEntry
<1> HIDE DEF e
<1>5. /\ Intents' = Intents /\ Settled(chain)' = Settled(chain) /\ Applied' = Applied
      /\ Ledger' = Reread(Ledger, e)
      /\ \A p \in DOMAIN chain : chain'[p] = chain[p]
  BY <1>1, <1>2, <1>4, Appending DEF Outcome
<1>6. CapInForce' = consent.to.max_total /\ consent.to.max_total \in Nat
  BY <1>2, <1>3, <1>4, <1>5 DEF CapInForce, Ledger, Reread, Memory, Caps
<1>7. CapInForce' >= CapInForce /\ CapInForce \in Nat
  BY <1>1, <1>2, <1>6, MoneyIsNumbers DEF Widens, CapInForce, Ledger
<1>8. Dangling(chain)' = Dangling(chain) /\ \A p \in Intents : chain'[p] = chain[p]
  BY <1>5, IntentsAreNat DEF Dangling, Intents
<1>9. Held' = Held /\ Spent' = Spent /\ KeysSeen' = KeysSeen
  BY <1>1, SameMoney
<1>10. OpenOrder' = OpenOrder /\ HasMoved' = HasMoved /\ Receipts' = Receipts
  BY <1>5, <1>8, <1>9, SameOrders
<1>11. CASE CapInForce' = CapInForce
  BY <1>9, <1>10, <1>11 DEF Grant!vars
<1>12. CASE CapInForce' # CapInForce
  BY <1>6, <1>7, <1>9, <1>10, <1>12 DEF Grant!Widen
<1>. QED BY <1>11, <1>12

\* The customer takes back what a block holds, or tears down an empty one.
LEMMA RevokingTakesBack ==
  ASSUME IInv, NEW n \in DOMAIN rail.blocks, CustomerRevokes(n)
  PROVE  Grant!TakeBack \/ UNCHANGED Grant!vars
<1> DEFINE b == rail.blocks[n]
<1>1. /\ IsLive(b) /\ rail' = Revoked(rail, n) /\ chain' = chain
  BY DEF CustomerRevokes
<1>2. /\ rail \in Rail /\ BlocksSound(rail) /\ rail.blocks \in Seq(BlockRef)
      /\ b \in BlockRef /\ Unspent(b) \in Nat
  <2>1. rail \in Rail /\ BlocksSound(rail)
    BY DEF IInv, TypeOK, RailSound
  <2>2. rail.blocks \in Seq(BlockRef)
    BY <2>1 DEF Rail
  <2>3. b \in BlockRef
    BY <2>2
  <2>4. Unspent(b) >= 0
    BY <2>1 DEF BlocksSound
  <2> HIDE DEF b
  <2>. QED BY <2>1, <2>2, <2>3, <2>4 DEF Unspent, BlockRef
<1>3. Torn(b) \in BlockRef /\ Unspent(Torn(b)) = 0
  BY <1>2, TornBlock
<1>4. /\ rail'.balance = rail.balance + Unspent(b)
      /\ rail'.blocks = [rail.blocks EXCEPT ![n] = Torn(b)]
      /\ rail'.seen = rail.seen
  BY <1>1, <1>2 DEF Revoked, Rail
<1>5. PICK m \in Memory : CaughtUp(rail, m)
  BY BooksExist
<1>6. Unspent(b) > 0 => Held = Unspent(b)
  <2>1. Unspent(b) = IF n = m.block THEN Available(m) ELSE 0
    BY <1>1, <1>5 DEF CaughtUp
  <2>2. HeldAt(rail) = IF m.block \in DOMAIN rail.blocks /\ IsLive(rail.blocks[m.block])
                         THEN Available(m) ELSE 0
    BY <1>2, <1>5, HeldIsInTheHandle
  <2>3. CASE n = m.block
    BY <1>1, <2>1, <2>2, <2>3 DEF Held
  <2>4. CASE n # m.block
    BY <2>1, <2>4
  <2>. QED BY <2>3, <2>4
<1>7. Held' = Held - Unspent(b) + Unspent(Torn(b))
  <2> DEFINE t == Torn(b)
  <2>1. t \in BlockRef /\ rail'.blocks = [rail.blocks EXCEPT ![n] = t]
    BY <1>3, <1>4
  <2> HIDE DEF t
  <2>2. HeldAt(rail') = HeldAt(rail) - Unspent(rail.blocks[n]) + Unspent(t)
    BY <1>2, <2>1, OneBlockChanged
  <2>. QED BY <2>2 DEF Held, t
<1>8. Held \in Int /\ Held' = Held - Unspent(b) /\ Spent' = Spent
  <2>1. CustomerBalance \in Nat /\ rail.balance \in Nat /\ Held \in Int
    BY CustomerBalanceAssumption, MoneyIsNumbers
  <2>2. Held' = Held - Unspent(b)
    BY <1>2, <1>3, <1>7, <2>1
  <2> HIDE DEF b
  <2>. QED BY <1>2, <1>4, <2>1, <2>2 DEF Spent, Exposure
<1>9. /\ CapInForce' = CapInForce /\ OpenOrder' = OpenOrder /\ HasMoved' = HasMoved
      /\ Receipts' = Receipts
  BY <1>1, <1>4 DEF CapInForce, OpenOrder, OrderOf, HasMoved, Receipts, Applied, KeysSeen
<1>10. CASE Unspent(b) = 0
  BY <1>8, <1>9, <1>10 DEF Grant!vars
<1>11. CASE Unspent(b) > 0
  <2>1. Held > 0 /\ Held' = 0
    BY <1>2, <1>6, <1>8, <1>11
  <2>. QED BY <1>8, <1>9, <2>1 DEF Grant!TakeBack
<1>. QED BY <1>2, <1>10, <1>11

LEMMA NewSessionIsNewGrant ==
  ASSUME Init
  PROVE  Grant!Init
<1>1. IInv
  BY InitSound
<1>2. rail = EmptyRail /\ chain = <<[kind |-> "grant"]>>
  BY DEF Init
<1>3. rail.seen = {} /\ rail.balance = CustomerBalance /\ rail.blocks = <<>>
  BY <1>2 DEF EmptyRail
<1>4. \A kinds : "grant" \notin kinds => PropsOf(chain, kinds) = {}
  BY <1>2 DEF PropsOf
<1>5. Dangling(chain) = {} /\ Settled(chain) = {}
  BY <1>4 DEF Dangling, Settled
<1>6. OpenOrder = NoOrder /\ HasMoved = FALSE /\ Receipts = {}
  BY <1>5 DEF OpenOrder, HasMoved, Receipts
<1>7. Held = 0 /\ Spent = 0
  <2>1. Held = 0
    BY <1>3, NoBlocks DEF Held
  <2>. QED BY <1>3, <2>1, CustomerBalanceAssumption DEF Spent, Exposure
<1>8. CapInForce = InitialCaps.max_total
  <2>1. mem = Ledger /\ mem = FreshMemory
    BY <1>1 DEF Init, IInv, MemorySound
  <2>. QED BY <2>1 DEF CapInForce, Ledger, FreshMemory
<1>. QED BY <1>6, <1>7, <1>8 DEF Grant!Init

\* A session, whatever crashes, gets lost or is asked of it, is seen from
\* outside as a grant that is spent one order at a time.
THEOREM SessionImplementsGrant == Spec => ImplementsGrant
<1>1. Init => Grant!Init
  BY NewSessionIsNewGrant
<1>2. IInv /\ [Next]_vars => [Grant!Next]_(Grant!vars)
  <2> SUFFICES ASSUME IInv, [Next]_vars PROVE Grant!Next \/ UNCHANGED Grant!vars
    OBVIOUS
  <2>. QED BY Steps, QuietStutters, NeutralStutters, IntentOpens, RailMovesTheOrder,
              OutcomeCloses, RaiseWidens, RevokingTakesBack DEF Grant!Next
<1>. QED BY <1>1, <1>2, InductiveInvariant, PTL DEF Spec, ImplementsGrant, Grant!Spec

(***************************************************************************)
(* What the record shows.                                                  *)
(***************************************************************************)
IsCharge(e) == e.kind = "applied" /\ e.call.action = "debit"

LEMMA ChargesAreInt ==
  ASSUME NEW c \in Seq(Entry)
  PROVE  /\ \A i \in EffectiveDebits(c) : i \in DOMAIN c /\ c[i].call.amount \in Int
         /\ IsFiniteSet(EffectiveDebits(c))
<1>1. ASSUME NEW i \in EffectiveDebits(c)
      PROVE  i \in DOMAIN c /\ c[i].call.amount \in Int
  <2>1. i \in DOMAIN c /\ c[i].kind = "applied"
    BY DEF EffectiveDebits, ChargedOnRecord
  <2>2. c[i] \in Entry
    BY <2>1
  <2>3. c[i].call \in Call
    BY <2>1, <2>2, EntryFacts DEF CallKind
  <2>. QED BY <2>1, <2>3 DEF Call
<1>2. IsFiniteSet(EffectiveDebits(c))
  <2>1. DOMAIN c = 1 .. Len(c) /\ Len(c) \in Int /\ 1 \in Int
    OBVIOUS
  <2>2. IsFiniteSet(DOMAIN c)
    BY <2>1, FS_Interval
  <2>3. EffectiveDebits(c) \subseteq DOMAIN c
    BY DEF EffectiveDebits, ChargedOnRecord
  <2>. QED BY <2>2, <2>3, FS_Subset
<1>. QED BY <1>1, <1>2

\* One entry more on the record.
LEMMA NetAppend ==
  ASSUME NEW c \in Seq(Entry), NEW e \in Entry, NEW c2, c2 = Append(c, e)
  PROVE  /\ EffectiveDebits(c2) =
              EffectiveDebits(c) \cup (IF IsCharge(e) THEN {Len(c) + 1} ELSE {})
         /\ Net(c2) = Net(c) + (IF IsCharge(e) THEN e.call.amount ELSE 0)
         /\ Net(c) \in Int
<1> DEFINE k == Len(c) + 1
           D == EffectiveDebits(c)
           E == EffectiveDebits(c2)
           f == [i \in D |-> c[i].call.amount]
           g == [i \in E |-> c2[i].call.amount]
<1>1. /\ DOMAIN c = 1 .. Len(c) /\ Len(c) \in Nat
      /\ DOMAIN c2 = DOMAIN c \cup {k} /\ c2[k] = e /\ k \notin DOMAIN c
      /\ \A i \in DOMAIN c : c2[i] = c[i]
      /\ c2 \in Seq(Entry)
  OBVIOUS
<1>2. E = D \cup (IF IsCharge(e) THEN {k} ELSE {})
  <2> HIDE DEF k
  <2>. QED BY <1>1 DEF EffectiveDebits, ChargedOnRecord, IsCharge
<1>3. /\ \A i \in D : i \in DOMAIN c /\ c[i].call.amount \in Int
      /\ \A i \in E : c2[i].call.amount \in Int
      /\ IsFiniteSet(D)
  BY <1>1, ChargesAreInt
<1>4. Net(c) = SumFunction(f) /\ Net(c2) = SumFunction(g)
  BY DEF Net
<1> HIDE DEF k, D, E
<1>5. /\ DOMAIN f = D /\ DOMAIN g = E
      /\ \A i \in D : f[i] \in Int /\ f[i] = c2[i].call.amount
      /\ \A i \in E : g[i] = c2[i].call.amount /\ g[i] \in Int
  BY <1>1, <1>3
<1>6. CASE ~IsCharge(e)
  <2>1. f = g
    BY <1>1, <1>2, <1>3, <1>6
  <2> HIDE DEF f, g
  <2>2. SumFunction(f) \in Int
    BY <1>3, <1>5, SumType
  <2>. QED BY <1>2, <1>4, <1>6, <2>1, <2>2 DEF k, D, E
<1>7. CASE IsCharge(e)
  <2> HIDE DEF f, g
  <2>1. /\ IsFiniteSet(DOMAIN f) /\ k \notin DOMAIN f /\ DOMAIN g = DOMAIN f \cup {k}
        /\ \A i \in DOMAIN f : g[i] = f[i]
        /\ \A i \in DOMAIN g : g[i] \in Int
        /\ g[k] = e.call.amount
    BY <1>1, <1>2, <1>3, <1>5, <1>7
  <2>2. SumFunction(g) = SumFunction(f) + g[k]
    BY <2>1, SumAdd
  <2>3. SumFunction(f) \in Int
    BY <1>3, <1>5, SumType
  <2>. QED BY <1>2, <1>4, <1>7, <2>1, <2>2, <2>3 DEF k, D, E
<1>. QED BY <1>6, <1>7

LEMMA NoCharge ==
  ASSUME chain \in Seq(Entry), NEW e \in Entry, ~IsCharge(e), Write(e)
  PROVE  EffectiveDebits(chain)' = EffectiveDebits(chain) /\ Net(chain)' = Net(chain)
<1>1. /\ EffectiveDebits(chain)' =
           EffectiveDebits(chain) \cup (IF IsCharge(e) THEN {Len(chain) + 1} ELSE {})
      /\ Net(chain)' = Net(chain) + (IF IsCharge(e) THEN e.call.amount ELSE 0)
      /\ Net(chain) \in Int
  BY NetAppend DEF Write
<1>. QED BY <1>1

\* A step into "intending" comes from the engine's verdict.
LEMMA IntendingIsPermitted ==
  ASSUME [Next]_vars, at' = "intending"
  PROVE  Permit \/ (at = "intending" /\ asked' = asked /\ chain' = chain)
BY DEF Next, AgentAsks, AsksReserve, AsksDebit, AsksRelease, Asks, Works, Refuse, Permit,
       WriteIntent, RailResponds, RailActs, RailRepeats, RailRefuses, CallLost, Hears,
       RecordOutcome, RecordDoubt, Resolve, Restart, Human, HumanSigns, ApproveRaise,
       Environment, Crash, Notes, Expire, CustomerRevokes, Goto, vars, session

\* The part of RecordSound that is about the chain alone.
RecordKept ==
  LET most == Ledger.env.max_per_txn
  IN  /\ Net(chain) = Ledger.debited
      /\ Widenings = {} => Ledger.env = InitialCaps
      /\ Available(Ledger) \in 0 .. most
      /\ \A i \in EffectiveDebits(chain) : /\ chain[i].call.amount <= most
                                           /\ chain[i].call.amount <= Ledger.debited
      /\ \A p \in Intents : PermitsPayee(chain[p].call.payee)
      /\ \A p \in Dangling(chain) : chain[p].call.action = "reserve" =>
           chain[p].call.amount <= most /\ Available(Ledger) <= 0

LEMMA NeutralKeepsRecord ==
  ASSUME IInv, RecordKept, WritesNeutral
  PROVE  RecordKept'
<1>1. PICK e \in Entry : Write(e) /\ e.kind \in Neutral /\ WellPlaced(e)
  BY DEF WritesNeutral
<1>2. TypeOK /\ ChainFacts /\ chain \in Seq(Entry) /\ rail' = rail
  BY DEF IInv, TypeOK, ChainFacts, WritesNeutral
<1>3. /\ Ledger' = Ledger /\ Intents' = Intents /\ Dangling(chain)' = Dangling(chain)
  BY <1>1, <1>2, NeutralAppend
<1>4. /\ DOMAIN chain' = DOMAIN chain \cup {Len(chain) + 1}
      /\ chain'[Len(chain) + 1] = e
      /\ \A p \in DOMAIN chain : chain'[p] = chain[p]
  BY <1>1, <1>2, Appending
<1>5. EffectiveDebits(chain)' = EffectiveDebits(chain) /\ Net(chain)' = Net(chain)
  BY <1>1, <1>2, NoCharge DEF Neutral, IsCharge
<1>6. Widenings' = Widenings
  BY <1>1, <1>4 DEF Widenings, Neutral
<1>7. /\ \A p \in Intents : chain'[p] = chain[p]
      /\ \A p \in Dangling(chain) : chain'[p] = chain[p]
      /\ \A i \in EffectiveDebits(chain) : chain'[i] = chain[i]
  BY <1>2, <1>4, IntentsAreNat, ChargesAreInt
<1>. QED BY <1>3, <1>5, <1>6, <1>7 DEF RecordKept

LEMMA IntentKeepsRecord ==
  ASSUME IInv, RecordSound, RecordKept, WriteIntent
  PROVE  RecordKept'
<1> DEFINE e == About("rail_intent", asked, chain[asked].call, 0)
<1>1. /\ at = "intending" /\ Write(e) /\ asked \in Nat
      /\ asked \in DOMAIN chain /\ chain[asked].call \in Call
  BY AskedIsProposed DEF WriteIntent, WriteAbout
<1>2. /\ Dangling(chain) = {} /\ WithinGrant(chain[asked].call, Ledger)
      /\ chain \in Seq(Entry)
  BY <1>1 DEF IInv, ControlSound, TypeOK
<1>3. e \in Entry /\ e.kind = "rail_intent" /\ e.prop = asked
  BY <1>1, AboutIsEntry DEF CallKind
<1> HIDE DEF e
<1>4. /\ Intents' = Intents \cup {asked} /\ Settled(chain)' = Settled(chain)
      /\ Ledger' = Ledger
      /\ DOMAIN chain' = DOMAIN chain \cup {Len(chain) + 1}
      /\ chain'[Len(chain) + 1] = e
      /\ \A p \in DOMAIN chain : chain'[p] = chain[p]
  BY <1>1, <1>2, <1>3, Appending DEF Outcome, Reread
<1>5. Dangling(chain)' \subseteq {asked}
  BY <1>2, <1>4 DEF Dangling, Intents
<1>6. EffectiveDebits(chain)' = EffectiveDebits(chain) /\ Net(chain)' = Net(chain)
  BY <1>1, <1>2, <1>3, NoCharge DEF IsCharge
<1>7. Widenings' = Widenings
  BY <1>3, <1>4 DEF Widenings
<1>8. /\ \A p \in Intents : chain'[p] = chain[p]
      /\ \A i \in EffectiveDebits(chain) : chain'[i] = chain[i]
      /\ chain'[asked] = chain[asked]
  BY <1>1, <1>2, <1>4, IntentsAreNat, ChargesAreInt
<1>9. /\ PermitsPayee(chain[asked].call.payee)
      /\ chain[asked].call.action = "reserve" =>
           chain[asked].call.amount <= Ledger.env.max_per_txn /\ Available(Ledger) <= 0
  BY <1>1, <1>2 DEF RecordSound, WithinGrant
<1>. QED BY <1>4, <1>5, <1>6, <1>7, <1>8, <1>9 DEF RecordKept

\* A debit or a release in flight fits into what the ledger has available.
LEMMA MovedFits ==
  ASSUME IInv, NEW s \in rail.seen, s.key \in Dangling(chain),
         s.request.call.action # "reserve"
  PROVE  s.request.call.amount <= Available(Ledger)
<1> DEFINE c == s.request.call
<1>1. /\ Ledger \in Memory /\ CaughtUp(rail, Booked(Ledger, c, s.block))
      /\ rail \in Rail /\ chain \in Seq(Entry) /\ ChainSound
      /\ c = chain[s.key].call /\ s.key \in Intents
  BY DEF IInv, LedgerSound, RailSound, TypeOK
<1>2. c \in Call /\ c.amount > 0 /\ s.block \in Nat
  BY <1>1, IntentsAreProposed DEF Rail, Seen
<1> HIDE DEF c
<1>3. Available(Booked(Ledger, c, s.block)) = Available(Ledger) - c.amount
  <2>1. CASE c.action = "debit"
    BY <1>1, <1>2, <2>1, BookedDebit
  <2>2. CASE c.action = "release"
    BY <1>1, <1>2, <2>2, BookedRelease
  <2>. QED BY <1>2, <2>1, <2>2 DEF c, Call, Action
<1>4. Available(Ledger) \in Int /\ c.amount \in Int
  BY <1>1, <1>2 DEF Available, Memory, Call
<1>5. Available(Ledger) - c.amount >= 0
  BY <1>1, <1>3 DEF CaughtUp
<1>. QED BY <1>4, <1>5 DEF c

LEMMA OutcomeKeepsRecord ==
  ASSUME IInv, RecordKept, RecordOutcome
  PROVE  RecordKept'
<1>1. PICK e \in Entry :
        /\ Write(e) /\ e.kind = answer /\ e.kind \in Outcome
        /\ e.prop = asked /\ e.call = chain[asked].call
        /\ e.call \in Call /\ e.call.amount > 0 /\ e.block \in Nat
  BY OutcomeWritten
<1> DEFINE c == e.call
           most == Ledger.env.max_per_txn
<1>2. /\ at = "recording" /\ chain \in Seq(Entry) /\ Ledger \in Memory
      /\ Dangling(chain) = {asked} /\ MemorySound /\ RailSound
  BY DEF RecordOutcome, IInv, TypeOK, LedgerSound, ControlSound
<1>3. /\ Intents' = Intents /\ Settled(chain)' = Settled(chain) \cup {asked}
      /\ Ledger' = Reread(Ledger, e)
      /\ DOMAIN chain' = DOMAIN chain \cup {Len(chain) + 1}
      /\ chain'[Len(chain) + 1] = e
      /\ \A p \in DOMAIN chain : chain'[p] = chain[p]
  BY <1>1, <1>2, Appending DEF Outcome
<1>4. Dangling(chain)' = {}
  BY <1>2, <1>3 DEF Dangling, Intents
<1>5. /\ EffectiveDebits(chain)' =
           EffectiveDebits(chain) \cup (IF IsCharge(e) THEN {Len(chain) + 1} ELSE {})
      /\ Net(chain)' = Net(chain) + (IF IsCharge(e) THEN c.amount ELSE 0)
      /\ Net(chain) \in Int
  BY <1>1, <1>2, NetAppend DEF Write
<1>6. Widenings' = Widenings
  BY <1>1, <1>3 DEF Widenings, Outcome
<1>7. /\ \A p \in Intents : chain'[p] = chain[p]
      /\ \A i \in EffectiveDebits(chain) : chain'[i] = chain[i] /\ chain[i].call.amount \in Int
  BY <1>2, <1>3, IntentsAreNat, ChargesAreInt
<1>8. /\ Available(Ledger) \in Int /\ c.amount \in Int /\ Ledger.debited \in Int
      /\ most \in Nat
  BY <1>1, <1>2 DEF Available, Memory, Call, Caps
<1> HIDE DEF c, most
<1>9. CASE answer = "rail_rejected"
  <2>1. ~IsCharge(e) /\ Ledger' = Ledger
    BY <1>1, <1>3, <1>9 DEF IsCharge, Reread
  <2>. QED BY <1>3, <1>4, <1>5, <1>6, <1>7, <2>1 DEF RecordKept
<1>10. CASE answer = "applied"
  <2>1. Ledger' = Booked(Ledger, c, e.block)
    BY <1>1, <1>3, <1>10 DEF Reread, c
  <2>2. /\ c.action = "reserve" => c.amount <= most /\ Available(Ledger) <= 0
        /\ Available(Ledger) \in 0 .. most /\ Net(chain) = Ledger.debited
        /\ Widenings = {} => Ledger.env = InitialCaps
        /\ \A i \in EffectiveDebits(chain) : /\ chain[i].call.amount <= most
                                             /\ chain[i].call.amount <= Ledger.debited
        /\ \A p \in Intents : PermitsPayee(chain[p].call.payee)
    BY <1>1, <1>2 DEF RecordKept, c, most
  <2>3. c.action # "reserve" => c.amount <= Available(Ledger)
    <3>1. PICK s \in rail.seen : s.key = asked
      BY <1>2, <1>10 DEF MemorySound
    <3>2. s.request.call = c
      BY <1>1, <1>2, <3>1 DEF RailSound, c
    <3>. QED BY <1>2, <3>1, <3>2, MovedFits
  <2>4. IsCharge(e) <=> c.action = "debit"
    BY <1>1, <1>10 DEF IsCharge, c
  <2>5. c \in Call /\ c.amount > 0 /\ e.block \in Nat
    BY <1>1 DEF c
  <2>6. /\ Ledger'.env = Ledger.env
        /\ Available(Ledger') \in 0 .. most
        /\ c.action # "debit" => Ledger'.debited = Ledger.debited
        /\ c.action = "debit" => Ledger'.debited = Ledger.debited + c.amount
    <3>1. CASE c.action = "reserve"
      <4>1. /\ Booked(Ledger, c, e.block).env = Ledger.env
            /\ Booked(Ledger, c, e.block).debited = Ledger.debited
            /\ Available(Booked(Ledger, c, e.block)) = Available(Ledger) + c.amount
        BY <1>2, <2>5, <3>1, BookedReserve
      <4>. QED BY <1>8, <2>1, <2>2, <2>5, <3>1, <4>1
    <3>2. CASE c.action = "debit"
      <4>1. /\ Booked(Ledger, c, e.block).env = Ledger.env
            /\ Booked(Ledger, c, e.block).debited = Ledger.debited + c.amount
            /\ Available(Booked(Ledger, c, e.block)) = Available(Ledger) - c.amount
        BY <1>2, <2>5, <3>2, BookedDebit
      <4>. QED BY <1>8, <2>1, <2>2, <2>3, <2>5, <3>2, <4>1
    <3>3. CASE c.action = "release"
      <4>1. /\ Booked(Ledger, c, e.block).env = Ledger.env
            /\ Booked(Ledger, c, e.block).debited = Ledger.debited
            /\ Available(Booked(Ledger, c, e.block)) = Available(Ledger) - c.amount
        BY <1>2, <2>5, <3>3, BookedRelease
      <4>. QED BY <1>8, <2>1, <2>2, <2>3, <2>5, <3>3, <4>1
    <3>. QED BY <2>5, <3>1, <3>2, <3>3 DEF Call, Action
  <2>7. Net(chain)' = Ledger'.debited
    BY <1>5, <1>8, <2>2, <2>4, <2>6
  <2>8. ASSUME NEW i \in EffectiveDebits(chain)'
        PROVE  chain'[i].call.amount <= most /\ chain'[i].call.amount <= Ledger'.debited
    <3>1. CASE i \in EffectiveDebits(chain)
      <4>1. chain'[i] = chain[i] /\ chain[i].call.amount \in Int
        BY <1>7, <3>1
      <4>2. Ledger'.debited >= Ledger.debited
        BY <1>8, <2>5, <2>6
      <4>3. Ledger'.debited \in Int
        BY <1>8, <2>6
      <4>. QED BY <1>8, <2>2, <3>1, <4>1, <4>2, <4>3
    <3>2. CASE i = Len(chain) + 1 /\ IsCharge(e)
      <4>1. chain'[i].call.amount = c.amount
        BY <1>3, <3>2 DEF c
      <4>2. Ledger.debited >= 0
        BY <1>2 DEF Memory
      <4>. QED BY <1>8, <2>2, <2>3, <2>4, <2>6, <3>2, <4>1, <4>2
    <3>. QED BY <1>5, <3>1, <3>2
  <2>. QED BY <1>3, <1>4, <1>6, <1>7, <2>2, <2>6, <2>7, <2>8 DEF RecordKept, most
<1>. QED BY <1>1, <1>9, <1>10 DEF Outcome

LEMMA RaiseKeepsRecord ==
  ASSUME IInv, RecordKept, NEW consent \in signed, ApproveRaise(consent)
  PROVE  RecordKept'
<1> DEFINE e == [kind |-> "widened", from |-> consent.from, to |-> consent.to]
<1>1. /\ at = "idle" /\ Widens(consent) /\ Write(e)
  BY DEF ApproveRaise
<1>2. chain \in Seq(Entry) /\ mem = Ledger /\ Ledger \in Memory
  BY <1>1 DEF IInv, TypeOK, MemorySound, LedgerSound
<1>3. consent.from \in Caps /\ consent.to \in Caps
  BY DEF IInv, TypeOK, Consent
<1>4. e \in Entry /\ e.kind = "widened" /\ e.to = consent.to
  BY <1>3 DEF Entry, WideningEntry
<1> HIDE DEF e
<1>5. /\ Intents' = Intents /\ Settled(chain)' = Settled(chain)
      /\ Ledger' = Reread(Ledger, e)
      /\ DOMAIN chain' = DOMAIN chain \cup {Len(chain) + 1}
      /\ chain'[Len(chain) + 1] = e
      /\ \A p \in DOMAIN chain : chain'[p] = chain[p]
  BY <1>1, <1>2, <1>4, Appending DEF Outcome
<1>6. Ledger' = [Ledger EXCEPT !.env = consent.to]
  BY <1>4, <1>5 DEF Reread
<1>7. /\ Ledger'.env = consent.to /\ Ledger'.debited = Ledger.debited
      /\ Ledger'.blocked = Ledger.blocked /\ Ledger'.released = Ledger.released
  BY <1>2, <1>6 DEF Memory
<1>8. Available(Ledger') = Available(Ledger)
  BY <1>7 DEF Available
<1>9. /\ Ledger.env.max_per_txn <= Ledger'.env.max_per_txn
      /\ Ledger.env.max_per_txn \in Int /\ Ledger'.env.max_per_txn \in Int
  BY <1>1, <1>2, <1>3, <1>7 DEF Widens, Memory, Caps
<1>10. Dangling(chain)' = Dangling(chain)
  BY <1>5 DEF Dangling, Intents
<1>11. EffectiveDebits(chain)' = EffectiveDebits(chain) /\ Net(chain)' = Net(chain)
  BY <1>1, <1>2, <1>4, NoCharge DEF IsCharge
<1>12. Len(chain) + 1 \in Widenings'
  BY <1>4, <1>5 DEF Widenings
<1>13. /\ \A p \in Intents : chain'[p] = chain[p] /\ chain[p].call.amount \in Int
       /\ \A i \in EffectiveDebits(chain) : chain'[i] = chain[i] /\ chain[i].call.amount \in Int
       /\ Dangling(chain) \subseteq Intents
       /\ Available(Ledger) \in Int
  BY <1>2, <1>5, IntentsAreNat, ChargesAreInt DEF Available, Memory, Call
<1>14. \A i \in EffectiveDebits(chain) : chain[i].call.amount <= Ledger'.env.max_per_txn
  BY <1>9, <1>13 DEF RecordKept
<1>15. \A p \in Dangling(chain) : chain[p].call.action = "reserve" =>
         chain[p].call.amount <= Ledger'.env.max_per_txn /\ Available(Ledger) <= 0
  BY <1>9, <1>13 DEF RecordKept
<1>16. Available(Ledger) \in 0 .. Ledger'.env.max_per_txn
  BY <1>9, <1>13 DEF RecordKept
<1>17. Net(chain) = Ledger.debited
       /\ (\A i \in EffectiveDebits(chain) : chain[i].call.amount <= Ledger.debited)
       /\ \A p \in Intents : PermitsPayee(chain[p].call.payee)
  BY DEF RecordKept
<1>. QED BY <1>5, <1>7, <1>8, <1>10, <1>11, <1>12, <1>13, <1>14, <1>15, <1>16, <1>17
         DEF RecordKept

LEMMA RecordSoundStep ==
  ASSUME IInv, RecordSound, [Next]_vars
  PROVE  RecordSound'
<1>0. RecordKept
  BY DEF RecordSound, RecordKept
<1>1. RecordKept'
  <2>1. CASE chain' = chain
    BY <1>0, <2>1 DEF RecordKept, Ledger, Widenings, Intents
  <2>2. Quiet \/ RailMoves \/ (\E n \in DOMAIN rail.blocks : CustomerRevokes(n))
          => chain' = chain
    BY DEF Quiet, RailMoves, CustomerRevokes
  <2>. QED BY <1>0, <2>1, <2>2, Steps, NeutralKeepsRecord, IntentKeepsRecord,
              OutcomeKeepsRecord, RaiseKeepsRecord
<1>2. ASSUME at' = "intending"
      PROVE  /\ PermitsPayee(chain'[asked'].call.payee)
             /\ chain'[asked'].call.action = "reserve" =>
                  chain'[asked'].call.amount <= Ledger'.env.max_per_txn
  <2>1. CASE Permit
    <3>1. /\ at = "judging" /\ Permitted /\ asked' = asked /\ WriteAbout("policy_decision", 0)
          /\ rail' = rail
      BY <2>1 DEF Permit, Goto
    <3>2. "policy_decision" \in Neutral \cap CallKind
      BY DEF Neutral, CallKind
    <3>3. /\ Ledger' = Ledger /\ \A i \in DOMAIN chain : chain'[i] = chain[i]
      BY <3>1, <3>2, WriteNeutralAbout
    <3>4. asked \in DOMAIN chain /\ mem = Ledger
      BY <3>1, AskedIsProposed DEF IInv, MemorySound
    <3>5. CheckEnvelope(chain[asked].call, Ledger.env, Ledger)
      BY <3>1, <3>4 DEF Permitted, Permits
    <3>. QED BY <3>1, <3>3, <3>4, <3>5 DEF CheckEnvelope
  <2>2. CASE at = "intending" /\ asked' = asked /\ chain' = chain
    BY <2>2 DEF RecordSound, Ledger
  <2>. QED BY <1>2, <2>1, <2>2, IntendingIsPermitted
<1>. QED BY <1>1, <1>2 DEF RecordSound, RecordKept

LEMMA NewRecordIsSound ==
  ASSUME Init
  PROVE  RecordSound
<1>1. /\ IInv /\ Ledger = FreshMemory
  BY InitSound DEF Init, IInv, MemorySound
<1>2. \A kinds : "grant" \notin kinds => PropsOf(chain, kinds) = {}
  BY DEF Init, PropsOf
<1>3. Intents = {} /\ Dangling(chain) = {}
  BY <1>2 DEF Intents, Dangling
<1>4. Widenings = {} /\ EffectiveDebits(chain) = {}
  BY DEF Init, Widenings, EffectiveDebits, ChargedOnRecord
<1>5. Net(chain) = 0
  <2> DEFINE f == [i \in EffectiveDebits(chain) |-> chain[i].call.amount]
  <2>1. DOMAIN f = {}
    BY <1>4
  <2> HIDE DEF f
  <2>2. SumFunction(f) = 0
    BY <2>1, SumEmpty
  <2>. QED BY <2>2 DEF Net, f
<1>6. /\ Ledger.debited = 0 /\ Ledger.env = InitialCaps /\ Available(Ledger) = 0
      /\ Ledger.env.max_per_txn \in Nat
  BY <1>1, InitialCapsAssumption DEF FreshMemory, Available, Caps
<1>. QED BY <1>3, <1>4, <1>5, <1>6 DEF RecordSound, Init

\* The record says what was debited (_replay, net_movement).
THEOREM RecordIsSound == Spec => [](IInv /\ RecordSound)
<1>1. Init => RecordSound
  BY NewRecordIsSound
<1>2. IInv /\ RecordSound /\ [Next]_vars => RecordSound'
  BY RecordSoundStep
<1>. QED BY <1>1, <1>2, InductiveInvariant, PTL DEF Spec

LEMMA FindsAFinding ==
  ASSUME NEW record, NEW files \in Files, NEW claim \in Claims(Amounts)
  PROVE  /\ Finds(record, files, claim) \in Finding
         /\ Finds(record, files, claim) = "supports_cardholder" => BreaksGrant(record)
<1>1. /\ Reason(record, claim) \in Finding
      /\ Reason(record, claim) = "supports_cardholder" => BreaksGrant(record)
  BY DEF Reason, Finding
<1>. QED BY <1>1 DEF Finds, Finding

\* The engine judges before the rail acts, the adjudicator after: they agree
\* (policy/engine.py, dispute/adjudicate.py).
THEOREM AdjudicatorAgrees == Spec => []AdjudicatorFollowsEngine
<1>1. ASSUME IInv, RecordSound, Widenings = {} PROVE ~BreaksGrant(chain)
  <2>1. /\ Ledger.env = InitialCaps /\ Net(chain) = Ledger.debited
        /\ \A i \in EffectiveDebits(chain) : chain[i].call.amount <= InitialCaps.max_per_txn
    BY <1>1 DEF RecordSound
  <2>2. /\ chain \in Seq(Entry) /\ Ledger \in Memory /\ WithinCap(Ledger) /\ LedgerSound
        /\ ChainSound
    BY <1>1 DEF IInv, TypeOK, LedgerSound
  <2>3. ASSUME NEW i \in EffectiveDebits(chain)
        PROVE  /\ ~(chain[i].call.amount > InitialCaps.max_per_txn)
               /\ PermitsPayee(chain[i].call.payee)
    <3>1. /\ i \in DOMAIN chain /\ chain[i].kind = "applied" /\ chain[i].call.amount \in Int
      BY <2>2, ChargesAreInt DEF EffectiveDebits, ChargedOnRecord
    <3>2. chain[i].prop \in Applied /\ chain[chain[i].prop].call = chain[i].call
      BY <2>2, <3>1 DEF Applied, PropsOf, ChainSound, CallKind
    <3>3. chain[i].prop \in Intents
      BY <1>1, <3>2, IntentsAreNat
    <3>4. PermitsPayee(chain[i].call.payee)
      BY <1>1, <3>2, <3>3 DEF RecordSound
    <3>5. InitialCaps.max_per_txn \in Nat
      BY InitialCapsAssumption DEF Caps
    <3>. QED BY <2>1, <3>1, <3>4, <3>5
  <2>4. ~(Net(chain) > InitialCaps.max_total)
    <3>2. Committed(Ledger) <= InitialCaps.max_total
      BY <2>1, <2>2 DEF WithinCap
    <3>3. Available(Ledger) >= 0
      BY <1>1 DEF RecordSound
    <3>4. Ledger.debited \in Int /\ Available(Ledger) \in Int /\ InitialCaps.max_total \in Int
      BY <2>2, InitialCapsAssumption DEF Memory, Available, Caps
    <3>. QED BY <2>1, <3>2, <3>3, <3>4 DEF Committed
  <2>. QED BY <2>3, <2>4 DEF BreaksGrant
<1>2. ASSUME IInv, RecordSound PROVE AdjudicatorFollowsEngine
  <2>1. Verdicts \subseteq Finding
    BY FindsAFinding DEF Verdicts
  <2>2. (\A i \in DOMAIN chain : chain[i].kind # "widened") => Widenings = {}
    BY DEF Widenings
  <2>3. Widenings = {} => "supports_cardholder" \notin Verdicts
    BY <1>1, <1>2, FindsAFinding DEF Verdicts
  <2>. QED BY <2>1, <2>2, <2>3 DEF AdjudicatorFollowsEngine
<1>. QED BY <1>2, RecordIsSound, PTL

\* What the adjudicator finds is true of the rail, which it cannot see.
THEOREM FindingsAreTrue == Spec => []FindingIsTrue
<1> DEFINE made == {s.request.call.amount :
                      s \in {x \in rail.seen : x.request.call.action = "debit"}}
           trusted == [intact |-> TRUE, binding |-> "verified", ran_under |-> TRUE]
<1>1. ASSUME IInv, RecordSound, Told, NEW claim \in Claims(Amounts)
      PROVE  LET finding == Finds(chain, trusted, claim)
             IN  /\ finding = "charge_not_in_chain" /\ claim.disputed = {} => Debited = 0
                 /\ finding = "charge_not_in_chain" => claim.disputed \cap made = {}
                 /\ finding = "supports_merchant" /\ DebitsInDoubt(chain) = {} =>
                      Net(chain) = Debited
  <2> DEFINE finding == Finds(chain, trusted, claim)
  <2>1. finding = Reason(chain, claim)
    BY DEF Finds
  <2>2. finding = "charge_not_in_chain" =>
          /\ Net(chain) <= 0 \/ NotAmongDebits(chain, claim)
          /\ DebitsInDoubt(chain) = {}
    BY <2>1 DEF Reason
  <2> HIDE DEF finding
  <2>3. /\ Dangling(chain) = UnresolvedInDoubt(chain) /\ Net(chain) = Ledger.debited
        /\ Ledger \in Memory /\ RailSound /\ ChainSound /\ rail \in Rail
        /\ chain \in Seq(Entry) /\ Ledger.debited \in Nat
    BY <1>1 DEF Told, RecordSound, IInv, LedgerSound, TypeOK, Memory
  <2>4. DebitsInDoubt(chain) = {} => Debited = Ledger.debited
    <3>1. PICK m \in Memory :
            /\ CaughtUp(rail, m)
            /\ Dangling(chain) \cap KeysSeen = {} => m = Ledger
            /\ \A s \in rail.seen :
                 s.key \in Dangling(chain) /\ s.request.call.action # "debit"
                   => m.debited = Ledger.debited
      BY <1>1, BooksExist
    <3>2. Debited = m.debited
      BY <3>1 DEF CaughtUp, Debited
    <3>3. ASSUME DebitsInDoubt(chain) = {} PROVE m.debited = Ledger.debited
      <4>1. CASE Dangling(chain) \cap KeysSeen = {}
        BY <3>1, <4>1
      <4>2. CASE Dangling(chain) \cap KeysSeen # {}
        <5>1. PICK s \in rail.seen : s.key \in Dangling(chain)
          BY <4>2 DEF KeysSeen
        <5>2. s.request.call = chain[s.key].call
          BY <2>3, <5>1 DEF RailSound
        <5>3. s.request.call.action # "debit"
          BY <2>3, <3>3, <5>1, <5>2 DEF DebitsInDoubt
        <5>. QED BY <3>1, <5>1, <5>3
      <4>. QED BY <4>1, <4>2
    <3>. QED BY <3>2, <3>3
  <2>5. ASSUME finding = "charge_not_in_chain", claim.disputed = {}
        PROVE  Debited = 0
    <3>1. ~NotAmongDebits(chain, claim)
      BY <2>5 DEF NotAmongDebits
    <3>. QED BY <2>2, <2>3, <2>4, <2>5, <3>1
  <2>6. ASSUME finding = "charge_not_in_chain", NEW a \in claim.disputed, a \in made
        PROVE  FALSE
    <3>1. PICK s \in rail.seen : s.request.call.action = "debit" /\ s.request.call.amount = a
      BY <2>6
    <3>2. s.key \in Intents /\ s.request.call = chain[s.key].call
      BY <2>3 DEF RailSound
    <3>3. a > 0 /\ a \in Int
      BY <2>3, <3>1, <3>2, IntentsAreProposed DEF Call
    <3>4. s.key \notin Dangling(chain)
      BY <2>2, <2>3, <2>6, <3>1, <3>2 DEF DebitsInDoubt
    <3>5. s.key \in Applied
      BY <2>3, <3>4 DEF RailSound, KeysSeen
    <3>6. PICK i \in DOMAIN chain : chain[i].kind = "applied" /\ chain[i].prop = s.key
      BY <3>5 DEF Applied, PropsOf
    <3>7. chain[i].call = s.request.call
      BY <2>3, <3>2, <3>6 DEF ChainSound, CallKind
    <3>8. i \in EffectiveDebits(chain) /\ chain[i].call.amount = a
      BY <3>1, <3>6, <3>7 DEF EffectiveDebits, ChargedOnRecord
    <3>9. a <= Ledger.debited
      BY <1>1, <3>8 DEF RecordSound
    <3>10. ~(Net(chain) <= 0)
      BY <2>3, <3>3, <3>9
    <3>11. PICK b \in claim.disputed : \A j \in EffectiveDebits(chain) : chain[j].call.amount # b
      BY <2>2, <2>6, <3>10 DEF NotAmongDebits
    <3>12. b = a
      BY <2>6 DEF Claims
    <3>. QED BY <3>8, <3>11, <3>12
  <2>7. finding = "supports_merchant" /\ DebitsInDoubt(chain) = {} => Net(chain) = Debited
    BY <2>3, <2>4
  <2>. QED BY <2>5, <2>6, <2>7 DEF finding
<1>2. IInv /\ RecordSound => FindingIsTrue
  BY <1>1 DEF FindingIsTrue
<1>. QED BY <1>2, RecordIsSound, PTL

=============================================================================
