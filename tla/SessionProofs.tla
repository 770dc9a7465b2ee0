--------------------------- MODULE SessionProofs ---------------------------
(***************************************************************************)
(* IInv is an inductive invariant of Session, whatever the amounts, the    *)
(* caps, the payees, the rail's capabilities and the bounds.  The safety   *)
(* properties the runs check follow from it.  First what one more entry    *)
(* does to Replay and to PropsOf, and that a ledger that has caught up     *)
(* with the rail stays so when the rail acts on a call the engine          *)
(* permitted, and when the customer revokes.                               *)
(***************************************************************************)
EXTENDS SessionInductive, SumProofs

(***************************************************************************)
(* The chain.                                                              *)
(***************************************************************************)
\* f rereads the first k entries of the chain c.
IsReading(f, c, k) ==
  f = [n \in 0 .. k |-> IF n = 0 THEN FreshMemory ELSE Reread(f[n - 1], c[n])]

SharePrefix(c, d, k) == \A n \in 1 .. k : c[n] = d[n]

\* Two readings of chains that share their first k entries agree that far.
LEMMA ReadingsAgree ==
  ASSUME NEW c, NEW d, NEW k \in Nat, NEW l \in Nat, k <= l,
         SharePrefix(c, d, k), NEW f, NEW g, IsReading(f, c, k), IsReading(g, d, l)
  PROVE  \A n \in 0 .. k : f[n] = g[n]
<1> DEFINE T == {n \in 0 .. k : f[n] # g[n]}
<1> SUFFICES ASSUME T # {} PROVE FALSE
  OBVIOUS
<1>1. PICK x \in T : \A y \in T : x <= y
  <2>1. T \in SUBSET Nat  OBVIOUS
  <2> HIDE DEF T
  <2> QED BY <2>1, NatHasLeast
<1>2. /\ f[x] = IF x = 0 THEN FreshMemory ELSE Reread(f[x - 1], c[x])
      /\ g[x] = IF x = 0 THEN FreshMemory ELSE Reread(g[x - 1], d[x])
  BY DEF IsReading
<1>3. x # 0
  BY <1>2
<1>4. x - 1 \in 0 .. k /\ f[x - 1] = g[x - 1]
  BY <1>1, <1>3
<1>5. c[x] = d[x]
  BY <1>3 DEF SharePrefix
<1>. QED BY <1>2, <1>3, <1>4, <1>5

\* Every chain can be reread, as far as one likes.
LEMMA ReadingExists ==
  ASSUME NEW c, NEW k \in Nat
  PROVE  \E f : IsReading(f, c, k)
<1> DEFINE T == {n \in Nat : ~ \E f : IsReading(f, c, n)}
<1> SUFFICES ASSUME T # {} PROVE FALSE
  OBVIOUS
<1>1. PICK x \in T : \A y \in T : x <= y
  <2>1. T \in SUBSET Nat  OBVIOUS
  <2> HIDE DEF T
  <2> QED BY <2>1, NatHasLeast
<1>2. x # 0
  <2> SUFFICES ASSUME x = 0 PROVE \E f : IsReading(f, c, 0)
    OBVIOUS
  <2> WITNESS [n \in 0 .. 0 |-> FreshMemory]
  <2> QED BY DEF IsReading
<1>3. PICK f : IsReading(f, c, x - 1)
  BY <1>1, <1>2
<1> DEFINE g == [n \in 0 .. x |-> IF n = x THEN Reread(f[x - 1], c[x]) ELSE f[n]]
<1>4. ASSUME NEW n \in 0 .. x
      PROVE  g[n] = IF n = 0 THEN FreshMemory ELSE Reread(g[n - 1], c[n])
  <2>1. CASE n = x
    BY <2>1, <1>2
  <2>2. CASE n # x
    <3>1. n \in 0 .. x - 1
      BY <2>2
    <3>2. f[n] = IF n = 0 THEN FreshMemory ELSE Reread(f[n - 1], c[n])
      BY <3>1, <1>3 DEF IsReading
    <3>3. n # 0 => g[n - 1] = f[n - 1]
      BY <3>1
    <3>. QED BY <2>2, <3>2, <3>3
  <2>. QED BY <2>1, <2>2
<1>5. IsReading(g, c, x)
  BY <1>4 DEF IsReading
<1>. QED BY <1>5

\* Replay reads the whole chain.
LEMMA ReplayReads ==
  ASSUME NEW c \in Seq(Entry)
  PROVE  \E f : IsReading(f, c, Len(c)) /\ Replay(c) = f[Len(c)]
<1>1. \E f : IsReading(f, c, Len(c))
  BY ReadingExists
<1> DEFINE m == CHOOSE f : IsReading(f, c, Len(c))
<1>2. IsReading(m, c, Len(c))
  BY <1>1
<1>3. Replay(c) = m[Len(c)]
  BY DEF Replay, IsReading
<1>. QED BY <1>2, <1>3

\* One more entry is one more turn of the loop.
LEMMA ReplayAppend ==
  ASSUME NEW c \in Seq(Entry), NEW e \in Entry
  PROVE  Replay(Append(c, e)) = Reread(Replay(c), e)
<1> DEFINE d == Append(c, e)
           k == Len(c)
<1>1. k \in Nat /\ d \in Seq(Entry) /\ Len(d) = k + 1 /\ d[k + 1] = e
  OBVIOUS
<1>2. SharePrefix(c, d, k)
  BY DEF SharePrefix
<1>3. PICK f : IsReading(f, c, k) /\ Replay(c) = f[k]
  BY ReplayReads
<1>4. PICK g : IsReading(g, d, k + 1) /\ Replay(d) = g[k + 1]
  <2> HIDE DEF d
  <2> QED BY <1>1, ReplayReads
<1> HIDE DEF d, k
<1>5. g[k] = f[k]
  <2>1. k + 1 \in Nat /\ k <= k + 1 /\ k \in 0 .. k
    BY <1>1
  <2>2. IsReading(f, c, k) /\ IsReading(g, d, k + 1)
    BY <1>3, <1>4
  <2>3. k \in Nat
    BY <1>1
  <2>4. \A n \in 0 .. k : f[n] = g[n]
    BY <1>2, <2>1, <2>2, <2>3, ReadingsAgree
  <2>. QED BY <2>1, <2>4
<1>6. g[k + 1] = Reread(g[k], d[k + 1])
  BY <1>1, <1>4 DEF IsReading
<1>. QED BY <1>1, <1>3, <1>4, <1>5, <1>6 DEF d

\* One more entry adds at most its own proposal to PropsOf.
LEMMA PropsOfAppend ==
  ASSUME NEW c \in Seq(Entry), NEW e \in Entry, NEW kinds
  PROVE  PropsOf(Append(c, e), kinds)
           = PropsOf(c, kinds) \cup (IF e.kind \in kinds THEN {e.prop} ELSE {})
<1> DEFINE d == Append(c, e)
<1>1. /\ DOMAIN d = DOMAIN c \cup {Len(c) + 1}
      /\ d[Len(c) + 1] = e
      /\ \A i \in DOMAIN c : d[i] = c[i]
  OBVIOUS
<1> HIDE DEF d
<1>2. \A p : p \in PropsOf(d, kinds) <=> \E i \in DOMAIN d : d[i].kind \in kinds /\ p = d[i].prop
  BY DEF PropsOf
<1>3. \A p : p \in PropsOf(c, kinds) <=> \E i \in DOMAIN c : c[i].kind \in kinds /\ p = c[i].prop
  BY DEF PropsOf
<1>4. \A p : p \in PropsOf(d, kinds)
               <=> p \in PropsOf(c, kinds) \/ (e.kind \in kinds /\ p = e.prop)
  BY <1>1, <1>2, <1>3
<1>. QED BY <1>4 DEF d

(***************************************************************************)
(* Bookings.                                                               *)
(***************************************************************************)
USE RailProfileAssumption, CustomerBalanceAssumption, InitialCapsAssumption

\* Booking a call of some amount keeps a ledger a ledger; what is available and
\* what is committed follow the call.
LEMMA BookedReserve ==
  ASSUME NEW m \in Memory, NEW call \in Call, call.amount > 0, NEW block \in Nat,
         call.action = "reserve"
  PROVE  /\ Booked(m, call, block) \in Memory
         /\ Booked(m, call, block).env = m.env
         /\ Booked(m, call, block).block = block
         /\ Available(Booked(m, call, block)) = Available(m) + call.amount
         /\ Committed(Booked(m, call, block)) = Committed(m) + call.amount
         /\ Booked(m, call, block).debited = m.debited
<1> DEFINE m1 == [m EXCEPT !.blocked = @ + call.amount]
           m2 == [m1 EXCEPT !.block = block]
           m3 == [m2 EXCEPT !.payee = call.payee]
<1>1. call.amount \in Nat /\ call.payee \in Payees
  BY DEF Call
<1>2. Booked(m, call, block) = m3
  BY DEF Booked
<1>3. m1 \in Memory
  BY <1>1 DEF Memory
<1>4. m2 \in Memory
  <2> HIDE DEF m1
  <2>. QED BY <1>3 DEF Memory
<1>5. m3 \in Memory
  <2> HIDE DEF m2
  <2>. QED BY <1>1, <1>4 DEF Memory
<1>6. /\ m3.env = m.env /\ m3.block = block
      /\ m3.blocked = m.blocked + call.amount
      /\ m3.debited = m.debited /\ m3.released = m.released
  BY DEF Memory
<1> HIDE DEF m3
<1>. QED BY <1>1, <1>2, <1>5, <1>6 DEF Available, Committed, Memory

LEMMA BookedDebit ==
  ASSUME NEW m \in Memory, NEW call \in Call, call.amount > 0, NEW block \in Nat,
         call.action = "debit"
  PROVE  /\ Booked(m, call, block) \in Memory
         /\ Booked(m, call, block).env = m.env
         /\ Booked(m, call, block).block = m.block
         /\ Available(Booked(m, call, block)) = Available(m) - call.amount
         /\ Committed(Booked(m, call, block)) = Committed(m)
         /\ Booked(m, call, block).debited = m.debited + call.amount
<1> DEFINE b == [m EXCEPT !.debited = @ + call.amount]
<1>1. call.amount \in Nat
  BY DEF Call
<1>2. Booked(m, call, block) = b
  BY DEF Booked
<1>3. b \in Memory
  BY <1>1 DEF Memory
<1>4. /\ b.env = m.env /\ b.block = m.block /\ b.blocked = m.blocked
      /\ b.debited = m.debited + call.amount /\ b.released = m.released
  BY DEF Memory
<1> HIDE DEF b
<1>. QED BY <1>1, <1>2, <1>3, <1>4 DEF Available, Committed, Memory

LEMMA BookedRelease ==
  ASSUME NEW m \in Memory, NEW call \in Call, call.amount > 0, NEW block \in Nat,
         call.action = "release"
  PROVE  /\ Booked(m, call, block) \in Memory
         /\ Booked(m, call, block).env = m.env
         /\ Booked(m, call, block).block = m.block
         /\ Available(Booked(m, call, block)) = Available(m) - call.amount
         /\ Committed(Booked(m, call, block)) = Committed(m) - call.amount
         /\ Booked(m, call, block).debited = m.debited
<1> DEFINE b == [m EXCEPT !.released = @ + call.amount]
<1>1. call.amount \in Nat
  BY DEF Call
<1>2. Booked(m, call, block) = b
  BY DEF Booked
<1>3. b \in Memory
  BY <1>1 DEF Memory
<1>4. /\ b.env = m.env /\ b.block = m.block /\ b.blocked = m.blocked
      /\ b.debited = m.debited /\ b.released = m.released + call.amount
  BY DEF Memory
<1> HIDE DEF b
<1>. QED BY <1>1, <1>2, <1>3, <1>4 DEF Available, Committed, Memory

LEMMA BookedIsMemory ==
  ASSUME NEW m \in Memory, NEW call \in Call, call.amount > 0, NEW block \in Nat
  PROVE  Booked(m, call, block) \in Memory
BY BookedReserve, BookedDebit, BookedRelease DEF Call, Action

(***************************************************************************)
(* What is held and what was taken, over all blocks.                       *)
(***************************************************************************)
LEMMA BlockNumbers ==
  ASSUME NEW b \in BlockRef
  PROVE  Unspent(b) \in Int /\ b.debited \in Nat /\ b.released \in Nat
BY DEF BlockRef, Unspent

LEMMA BlocksAreFinite ==
  ASSUME NEW rl, rl.blocks \in Seq(BlockRef)
  PROVE  IsFiniteSet(DOMAIN rl.blocks)
<1>1. DOMAIN rl.blocks = 1 .. Len(rl.blocks) /\ Len(rl.blocks) \in Int /\ 1 \in Int
  OBVIOUS
<1>. QED BY <1>1, FS_Interval

LEMMA TotalsAreInt ==
  ASSUME NEW rl, rl.blocks \in Seq(BlockRef)
  PROVE  HeldAt(rl) \in Int /\ DebitedAt(rl) \in Int
<1> DEFINE D == DOMAIN rl.blocks
           f == [n \in D |-> Unspent(rl.blocks[n])]
           g == [n \in D |-> rl.blocks[n].debited]
<1>2. IsFiniteSet(D)
  BY BlocksAreFinite
<1>3. \A n \in D : Unspent(rl.blocks[n]) \in Int /\ rl.blocks[n].debited \in Int
  BY BlockNumbers
<1> HIDE DEF D
<1>4. DOMAIN f = D /\ DOMAIN g = D /\ \A n \in D : f[n] \in Int /\ g[n] \in Int
  BY <1>3
<1> HIDE DEF f, g
<1>5. SumFunction(f) \in Int /\ SumFunction(g) \in Int
  BY <1>2, <1>4, SumType
<1>. QED BY <1>5 DEF HeldAt, DebitedAt, f, g, D

LEMMA NoBlocks ==
  ASSUME NEW rl, rl.blocks = <<>>
  PROVE  HeldAt(rl) = 0 /\ DebitedAt(rl) = 0
<1> DEFINE f == [n \in DOMAIN rl.blocks |-> Unspent(rl.blocks[n])]
           g == [n \in DOMAIN rl.blocks |-> rl.blocks[n].debited]
<1>1. DOMAIN f = {} /\ DOMAIN g = {}
  OBVIOUS
<1> HIDE DEF f, g
<1>2. SumFunction(f) = 0 /\ SumFunction(g) = 0
  BY <1>1, SumEmpty
<1>. QED BY <1>2 DEF HeldAt, DebitedAt, f, g

LEMMA OneMoreBlock ==
  ASSUME NEW rl, rl.blocks \in Seq(BlockRef), NEW b \in BlockRef,
         NEW rl2, rl2.blocks = Append(rl.blocks, b)
  PROVE  /\ HeldAt(rl2) = HeldAt(rl) + Unspent(b)
         /\ DebitedAt(rl2) = DebitedAt(rl) + b.debited
<1> DEFINE D == DOMAIN rl.blocks
           E == DOMAIN rl2.blocks
           k == Len(rl.blocks) + 1
           f == [n \in D |-> Unspent(rl.blocks[n])]
           g == [n \in D |-> rl.blocks[n].debited]
           f2 == [n \in E |-> Unspent(rl2.blocks[n])]
           g2 == [n \in E |-> rl2.blocks[n].debited]
<1>1. /\ D = 1 .. Len(rl.blocks) /\ Len(rl.blocks) \in Nat
      /\ E = D \cup {k} /\ k \notin D
      /\ rl2.blocks[k] = b /\ \A n \in D : rl2.blocks[n] = rl.blocks[n]
  OBVIOUS
<1>2. IsFiniteSet(D)
  BY BlocksAreFinite
<1>3. \A n \in D : Unspent(rl.blocks[n]) \in Int /\ rl.blocks[n].debited \in Int
  BY BlockNumbers
<1>4. Unspent(b) \in Int /\ b.debited \in Int
  BY BlockNumbers
<1> HIDE DEF D, E, k
<1>5. /\ DOMAIN f = D /\ DOMAIN f2 = D \cup {k} /\ f2[k] = Unspent(b)
      /\ DOMAIN g = D /\ DOMAIN g2 = D \cup {k} /\ g2[k] = b.debited
      /\ \A n \in D : f2[n] = f[n] /\ g2[n] = g[n]
      /\ \A n \in D \cup {k} : f2[n] \in Int /\ g2[n] \in Int
  BY <1>1, <1>3, <1>4
<1> HIDE DEF f, g, f2, g2
<1>6. /\ IsFiniteSet(DOMAIN f) /\ k \notin DOMAIN f /\ DOMAIN f2 = DOMAIN f \cup {k}
      /\ \A n \in DOMAIN f : f2[n] = f[n]
      /\ \A n \in DOMAIN f2 : f2[n] \in Int
  BY <1>1, <1>2, <1>5
<1>7. /\ IsFiniteSet(DOMAIN g) /\ k \notin DOMAIN g /\ DOMAIN g2 = DOMAIN g \cup {k}
      /\ \A n \in DOMAIN g : g2[n] = g[n]
      /\ \A n \in DOMAIN g2 : g2[n] \in Int
  BY <1>1, <1>2, <1>5
<1>8. SumFunction(f2) = SumFunction(f) + f2[k]
  BY <1>6, SumAdd
<1>9. SumFunction(g2) = SumFunction(g) + g2[k]
  BY <1>7, SumAdd
<1>10. /\ HeldAt(rl) = SumFunction(f) /\ HeldAt(rl2) = SumFunction(f2)
       /\ DebitedAt(rl) = SumFunction(g) /\ DebitedAt(rl2) = SumFunction(g2)
  BY DEF HeldAt, DebitedAt, f, g, f2, g2, D, E
<1>. QED BY <1>5, <1>8, <1>9, <1>10

LEMMA OneBlockChanged ==
  ASSUME NEW rl, rl.blocks \in Seq(BlockRef), NEW k \in DOMAIN rl.blocks,
         NEW b \in BlockRef, NEW rl2, rl2.blocks = [rl.blocks EXCEPT ![k] = b]
  PROVE  /\ HeldAt(rl2) = HeldAt(rl) - Unspent(rl.blocks[k]) + Unspent(b)
         /\ DebitedAt(rl2) = DebitedAt(rl) - rl.blocks[k].debited + b.debited
<1> DEFINE D == DOMAIN rl.blocks
           E == DOMAIN rl2.blocks
           f == [n \in D |-> Unspent(rl.blocks[n])]
           g == [n \in D |-> rl.blocks[n].debited]
           f2 == [n \in E |-> Unspent(rl2.blocks[n])]
           g2 == [n \in E |-> rl2.blocks[n].debited]
<1>1. /\ D = 1 .. Len(rl.blocks) /\ Len(rl.blocks) \in Nat
      /\ E = D /\ k \in D
      /\ rl2.blocks[k] = b /\ \A n \in D \ {k} : rl2.blocks[n] = rl.blocks[n]
  OBVIOUS
<1>2. IsFiniteSet(D)
  BY BlocksAreFinite
<1>3. \A n \in D : Unspent(rl.blocks[n]) \in Int /\ rl.blocks[n].debited \in Int
  BY BlockNumbers
<1>4. Unspent(b) \in Int /\ b.debited \in Int
  BY BlockNumbers
<1> HIDE DEF D, E
<1>5. /\ DOMAIN f = D /\ DOMAIN f2 = D
      /\ f2[k] = Unspent(b) /\ f[k] = Unspent(rl.blocks[k])
      /\ DOMAIN g = D /\ DOMAIN g2 = D
      /\ g2[k] = b.debited /\ g[k] = rl.blocks[k].debited
      /\ \A n \in D \ {k} : f2[n] = f[n] /\ g2[n] = g[n]
      /\ \A n \in D : f[n] \in Int /\ g[n] \in Int
      /\ f2[k] \in Int /\ g2[k] \in Int
  BY <1>1, <1>3, <1>4
<1> HIDE DEF f, g, f2, g2
<1>6. /\ IsFiniteSet(DOMAIN f) /\ k \in DOMAIN f /\ DOMAIN f2 = DOMAIN f
      /\ \A n \in DOMAIN f \ {k} : f2[n] = f[n]
      /\ \A n \in DOMAIN f : f[n] \in Int
      /\ f2[k] \in Int
  BY <1>1, <1>2, <1>5
<1>7. /\ IsFiniteSet(DOMAIN g) /\ k \in DOMAIN g /\ DOMAIN g2 = DOMAIN g
      /\ \A n \in DOMAIN g \ {k} : g2[n] = g[n]
      /\ \A n \in DOMAIN g : g[n] \in Int
      /\ g2[k] \in Int
  BY <1>1, <1>2, <1>5
<1>8. SumFunction(f2) = SumFunction(f) - f[k] + f2[k]
  BY <1>6, SumChange
<1>9. SumFunction(g2) = SumFunction(g) - g[k] + g2[k]
  BY <1>7, SumChange
<1>10. /\ HeldAt(rl) = SumFunction(f) /\ HeldAt(rl2) = SumFunction(f2)
       /\ DebitedAt(rl) = SumFunction(g) /\ DebitedAt(rl2) = SumFunction(g2)
  BY DEF HeldAt, DebitedAt, f, g, f2, g2, D, E
<1>. QED BY <1>5, <1>8, <1>9, <1>10

\* The ledger of a new session is caught up with an untouched rail.
LEMMA FreshIsCaughtUp ==
  /\ EmptyRail \in Rail /\ BlocksSound(EmptyRail)
  /\ FreshMemory \in Memory
  /\ CaughtUp(EmptyRail, FreshMemory) /\ WithinCap(FreshMemory)
<1>1. EmptyRail \in Rail /\ BlocksSound(EmptyRail)
  BY DEF EmptyRail, Rail, BlocksSound
<1>2. FreshMemory \in Memory
  BY DEF FreshMemory, Memory
<1>3. CaughtUp(EmptyRail, FreshMemory)
  <2>1. DebitedAt(EmptyRail) = 0
    BY NoBlocks DEF EmptyRail
  <2>. QED BY <2>1 DEF CaughtUp, EmptyRail, FreshMemory, Available, Committed
<1>4. WithinCap(FreshMemory)
  BY DEF WithinCap, FreshMemory, Available, Committed, Caps
<1>. QED BY <1>1, <1>2, <1>3, <1>4

\* What a debit and a release make of a block.
LEMMA DebitedBlock ==
  ASSUME NEW b \in BlockRef, NEW amount \in Nat
  PROVE  LET b2 == [b EXCEPT !.debited = @ + amount]
         IN  /\ b2 \in BlockRef
             /\ Unspent(b2) = Unspent(b) - amount
             /\ b2.released = b.released /\ b2.state = b.state
             /\ b2.debited = b.debited + amount
<1> DEFINE b2 == [b EXCEPT !.debited = @ + amount]
<1>1. b2 \in BlockRef
  BY DEF BlockRef
<1>2. /\ b2.ceiling = b.ceiling /\ b2.debited = b.debited + amount
      /\ b2.released = b.released /\ b2.state = b.state
  BY DEF BlockRef
<1> HIDE DEF b2
<1>3. Unspent(b2) = Unspent(b) - amount
  BY <1>2 DEF Unspent, BlockRef
<1>. QED BY <1>1, <1>2, <1>3 DEF b2

GivenBack(b, amount, state) == [b EXCEPT !.released = @ + amount, !.state = state]

LEMMA GivenBackBlock ==
  ASSUME NEW b \in BlockRef, NEW amount \in Nat, NEW state \in BlockState
  PROVE  /\ GivenBack(b, amount, state) \in BlockRef
         /\ Unspent(GivenBack(b, amount, state)) = Unspent(b) - amount
         /\ GivenBack(b, amount, state).released = b.released + amount
         /\ GivenBack(b, amount, state).debited = b.debited
         /\ GivenBack(b, amount, state).state = state
<1> DEFINE b1 == [b EXCEPT !.released = @ + amount]
           b2 == [b1 EXCEPT !.state = state]
<1>1. GivenBack(b, amount, state) = b2
  BY DEF GivenBack
<1>2. b1 \in BlockRef
  BY DEF BlockRef
<1>3. b2 \in BlockRef
  <2> HIDE DEF b1
  <2>. QED BY <1>2 DEF BlockRef
<1>4. /\ b2.ceiling = b.ceiling /\ b2.debited = b.debited
      /\ b2.released = b.released + amount /\ b2.state = state
  BY DEF BlockRef
<1> HIDE DEF b2
<1>5. Unspent(b2) = Unspent(b) - amount
  BY <1>4 DEF Unspent, BlockRef
<1>. QED BY <1>1, <1>3, <1>4, <1>5

LEMMA TornBlock ==
  ASSUME NEW b \in BlockRef, Unspent(b) >= 0
  PROVE  /\ Torn(b) \in BlockRef
         /\ Unspent(Torn(b)) = 0 /\ ~IsLive(Torn(b))
         /\ Torn(b).released = b.released + Unspent(b)
         /\ Torn(b).debited = b.debited
<1>1. Unspent(b) \in Nat
  BY DEF Unspent, BlockRef
<1>2. "revoked" \in BlockState
  BY DEF BlockState
<1>3. Torn(b) = GivenBack(b, Unspent(b), "revoked")
  BY DEF Torn, GivenBack
<1>4. /\ Torn(b) \in BlockRef
      /\ Unspent(Torn(b)) = Unspent(b) - Unspent(b)
      /\ Torn(b).released = b.released + Unspent(b)
      /\ Torn(b).debited = b.debited
      /\ Torn(b).state = "revoked"
  BY <1>1, <1>2, <1>3, GivenBackBlock
<1>. QED BY <1>1, <1>4 DEF IsLive

LEMMA ReleasedBlock ==
  ASSUME NEW b \in BlockRef, IsLive(b), Unspent(b) >= 0,
         NEW amount \in Nat, amount <= Unspent(b),
         PartialRelease \/ amount = Unspent(b)
  PROVE  LET b2 == Released(b, amount)
         IN  /\ b2 \in BlockRef
             /\ Unspent(b2) = Unspent(b) - amount
             /\ b2.released = b.released + amount
             /\ b2.debited = b.debited
             /\ IsLive(b2) \/ Unspent(b2) = 0
<1>1. CASE PartialRelease
  <2> DEFINE state == IF amount = Unspent(b) THEN "settled" ELSE b.state
  <2>1. state \in BlockState
    BY DEF BlockState, BlockRef
  <2>2. Released(b, amount) = GivenBack(b, amount, state)
    BY <1>1 DEF Released, GivenBack
  <2>3. amount # Unspent(b) => state = b.state
    OBVIOUS
  <2>4. Unspent(b) \in Int
    BY DEF Unspent, BlockRef
  <2> DEFINE g == GivenBack(b, amount, state)
  <2> HIDE DEF state
  <2>5. /\ g \in BlockRef
        /\ Unspent(g) = Unspent(b) - amount
        /\ g.released = b.released + amount
        /\ g.debited = b.debited
        /\ g.state = state
    BY <2>1, GivenBackBlock
  <2> HIDE DEF g
  <2>6. Released(b, amount) = g
    BY <2>2 DEF g
  <2>7. IsLive(g) \/ Unspent(g) = 0
    BY <2>3, <2>4, <2>5 DEF IsLive
  <2>. QED BY <2>5, <2>6, <2>7
<1>2. CASE ~PartialRelease
  <2>1. Released(b, amount) = Torn(b) /\ amount = Unspent(b)
    BY <1>2 DEF Released
  <2>. QED BY <2>1, TornBlock DEF Unspent, BlockRef
<1>. QED BY <1>1, <1>2

\* What a call makes of the balance and of what is held over all blocks.
MovesWhatItSays(rl, rl2, c) ==
  /\ c.action = "reserve" => /\ rl2.balance = rl.balance - c.amount
                             /\ HeldAt(rl2) = HeldAt(rl) + c.amount
  /\ c.action = "debit"   => /\ rl2.balance = rl.balance
                             /\ HeldAt(rl2) = HeldAt(rl) - c.amount
  /\ c.action = "release" => /\ rl2.balance = rl.balance + c.amount
                             /\ HeldAt(rl2) = HeldAt(rl) - c.amount

\* What the rail does to a call it accepts, and the session then books.
LEMMA ActingKeepsUp ==
  ASSUME NEW rl \in Rail, BlocksSound(rl),
         NEW m \in Memory, CaughtUp(rl, m), WithinCap(m),
         m.block \in 0 .. Len(rl.blocks),
         NEW r \in Request, r.call.amount > 0, WithinGrant(r.call, m),
         r.ref = IF r.call.action = "reserve" THEN 0 ELSE m.block,
         NEW key \in Nat, Accepts(rl, r)
  PROVE  LET rl2 == Acted(rl, key, r)
             m2 == Booked(m, r.call, ActedOn(rl, r))
         IN  /\ rl2 \in Rail /\ BlocksSound(rl2)
             /\ CaughtUp(rl2, m2) /\ WithinCap(m2)
             /\ ActedOn(rl, r) \in DOMAIN rl2.blocks
             /\ Len(rl.blocks) <= Len(rl2.blocks)
             /\ MovesWhatItSays(rl, rl2, r.call)
<1> DEFINE rl2 == Acted(rl, key, r)
           m2 == Booked(m, r.call, ActedOn(rl, r))
           c == r.call
           blk == rl.blocks
           Goal == /\ rl2 \in Rail /\ BlocksSound(rl2)
                   /\ CaughtUp(rl2, m2) /\ WithinCap(m2)
                   /\ ActedOn(rl, r) \in DOMAIN rl2.blocks
                   /\ Len(rl.blocks) <= Len(rl2.blocks)
                   /\ MovesWhatItSays(rl, rl2, r.call)
<1> SUFFICES Goal
  OBVIOUS
<1>1. /\ rl.balance \in Nat /\ blk \in Seq(BlockRef) /\ rl.seen \subseteq Seen
      /\ c \in Call /\ c.amount \in Nat /\ c.amount > 0 /\ r.ref \in Nat
  BY DEF Rail, Request, Call
<1>2. /\ m.blocked \in Nat /\ m.debited \in Nat /\ m.released \in Nat
      /\ m.env.max_total \in Nat /\ m.block \in Nat
  BY DEF Memory, Caps
<1>3. \A n \in DOMAIN blk :
        /\ blk[n] \in BlockRef
        /\ blk[n].ceiling \in Nat /\ blk[n].debited \in Nat /\ blk[n].released \in Nat
        /\ Unspent(blk[n]) >= 0 /\ Unspent(blk[n]) \in Int
  <2> SUFFICES ASSUME NEW n \in DOMAIN blk
               PROVE  /\ blk[n] \in BlockRef
                      /\ blk[n].ceiling \in Nat /\ blk[n].debited \in Nat
                      /\ blk[n].released \in Nat
                      /\ Unspent(blk[n]) >= 0 /\ Unspent(blk[n]) \in Int
    OBVIOUS
  <2>1. blk[n] \in BlockRef
    BY <1>1
  <2>2. Unspent(blk[n]) >= 0
    BY DEF BlocksSound
  <2>. QED BY <2>1, <2>2 DEF BlockRef, Unspent
<1>4. DOMAIN blk = 1 .. Len(blk) /\ Len(blk) \in Nat
  BY <1>1
<1>5. CASE c.action = "reserve"
  <2> DEFINE b == [ceiling |-> c.amount, debited |-> 0, released |-> 0,
                   state |-> "blocked"]
  <2>1. /\ rl2.balance = rl.balance - c.amount
        /\ rl2.blocks = Append(blk, b)
        /\ rl2.seen = rl.seen \cup {[key |-> key, request |-> r, block |-> Len(blk) + 1]}
        /\ ActedOn(rl, r) = Len(blk) + 1
    BY <1>5 DEF Acted, BalanceAfter, BlocksAfter, ActedOn
  <2>2. c.amount <= rl.balance
    BY <1>5 DEF Accepts, TakesReserve, TakesDebit, TakesRelease
  <2>3. /\ b \in BlockRef /\ Unspent(b) = c.amount
        /\ IsLive(b) /\ b.state = "blocked" /\ b.debited = 0 /\ b.released = 0
    BY <1>1 DEF BlockRef, BlockState, Unspent, IsLive
  <2>4. /\ rl2.blocks \in Seq(BlockRef)
        /\ DOMAIN rl2.blocks = DOMAIN blk \cup {Len(blk) + 1}
        /\ rl2.blocks[Len(blk) + 1] = b
        /\ \A n \in DOMAIN blk : rl2.blocks[n] = blk[n]
        /\ Len(rl2.blocks) = Len(blk) + 1
    <3> HIDE DEF b, rl2
    <3> QED BY <1>1, <2>1, <2>3
  <2>5. rl2 = [balance |-> rl2.balance, blocks |-> rl2.blocks, seen |-> rl2.seen]
    BY DEF Acted
  <2>6. [key |-> key, request |-> r, block |-> Len(blk) + 1] \in Seen
    BY <1>4 DEF Seen
  <2>7. rl2 \in Rail
    <3>1. rl2.balance \in Nat
      BY <1>1, <2>1, <2>2
    <3>2. rl2.seen \subseteq Seen
      BY <1>1, <2>1, <2>6
    <3> HIDE DEF rl2
    <3>. QED BY <2>4, <2>5, <3>1, <3>2 DEF Rail
  <2>0. \A n : HandedBack(rl, n) => HandedBack(rl2, n)
    BY <2>1 DEF HandedBack
  <2>8. BlocksSound(rl2)
    <3> HIDE DEF rl2, b
    <3> SUFFICES ASSUME NEW n \in DOMAIN rl2.blocks
                 PROVE  /\ Unspent(rl2.blocks[n]) >= 0
                        /\ ~IsLive(rl2.blocks[n]) => Unspent(rl2.blocks[n]) = 0
                        /\ IsLive(rl2.blocks[n]) /\ rl2.blocks[n].released > 0 =>
                             HandedBack(rl2, n)
      BY DEF BlocksSound
    <3>1. CASE n = Len(blk) + 1
      BY <3>1, <1>1, <2>3, <2>4
    <3>2. CASE n \in DOMAIN blk
      BY <3>2, <2>0, <2>4 DEF BlocksSound
    <3>. QED BY <2>4, <3>1, <3>2
  <2>9. /\ Available(m) = 0
        /\ Available(m2) = c.amount
        /\ Committed(m2) = Committed(m) + c.amount
        /\ m2.block = Len(blk) + 1
        /\ m2.env = m.env /\ m2.debited = m.debited
    <3>1. Available(m) = 0
      BY <1>2, <1>5 DEF CaughtUp, WithinGrant, Available
    <3>2. Len(blk) + 1 \in Nat
      BY <1>4
    <3> DEFINE l == Len(blk) + 1
    <3>3. m2 = Booked(m, c, l)
      BY <2>1
    <3> HIDE DEF m2, c, l
    <3>4. /\ Booked(m, c, l).env = m.env
          /\ Booked(m, c, l).debited = m.debited
          /\ Booked(m, c, l).block = l
          /\ Available(Booked(m, c, l)) = Available(m) + c.amount
          /\ Committed(Booked(m, c, l)) = Committed(m) + c.amount
      BY <1>1, <1>5, <3>2, BookedReserve DEF l
    <3>. QED BY <1>1, <3>1, <3>3, <3>4 DEF l
  <2>10. WithinCap(m2)
    BY <1>5, <2>9 DEF WithinGrant, WithinCap
  <2>11. CaughtUp(rl2, m2)
    <3>1. CustomerBalance - rl2.balance <= Committed(m2)
      <4>1. CustomerBalance - rl.balance <= Committed(m) /\ Committed(m) \in Int
        BY <1>2 DEF CaughtUp, Committed, Available
      <4> HIDE DEF rl2, m2
      <4>. QED BY <1>1, <2>1, <2>9, <4>1
    <3>2. ASSUME NEW n \in DOMAIN rl2.blocks, IsLive(rl2.blocks[n])
          PROVE  Unspent(rl2.blocks[n]) = IF n = m2.block THEN Available(m2) ELSE 0
      <4> HIDE DEF rl2, m2, b
      <4>1. CASE n = Len(blk) + 1
        BY <4>1, <2>3, <2>4, <2>9
      <4>2. CASE n \in DOMAIN blk
        BY <4>2, <1>4, <3>2, <2>4, <2>9 DEF CaughtUp
      <4>. QED BY <2>4, <4>1, <4>2
    <3>3. m2.debited = DebitedAt(rl2)
      <4>1. DebitedAt(rl2) = DebitedAt(rl) + b.debited
        <5> HIDE DEF b, rl2
        <5>. QED BY <1>1, <2>1, <2>3, OneMoreBlock
      <4>2. DebitedAt(rl) \in Int /\ m.debited = DebitedAt(rl)
        BY <1>1, TotalsAreInt DEF CaughtUp
      <4> HIDE DEF b, rl2, m2
      <4>. QED BY <2>3, <2>9, <4>1, <4>2
    <3>4. m2.block \in DOMAIN rl2.blocks /\ IsLive(rl2.blocks[m2.block])
      <4> HIDE DEF b, rl2, m2
      <4>. QED BY <2>3, <2>4, <2>9
    <3>5. ASSUME NEW n \in DOMAIN rl2.blocks PROVE ~TornByCustomer(rl2, n)
      <4> HIDE DEF rl2, m2, b
      <4>1. CASE n = Len(blk) + 1
        BY <4>1, <2>3, <2>4 DEF TornByCustomer
      <4>2. CASE n \in DOMAIN blk
        <5>1. ~TornByCustomer(rl, n)
          BY <4>2, <2>9 DEF CaughtUp
        <5>. QED BY <4>2, <5>1, <2>0, <2>4 DEF TornByCustomer
      <4>. QED BY <2>4, <4>1, <4>2
    <3> HIDE DEF rl2, m2
    <3>. QED BY <1>1, <2>9, <3>1, <3>2, <3>3, <3>4, <3>5 DEF CaughtUp
  <2>12. MovesWhatItSays(rl, rl2, c)
    <3>1. HeldAt(rl2) = HeldAt(rl) + Unspent(b)
      <4> HIDE DEF b, rl2
      <4>. QED BY <1>1, <2>1, <2>3, OneMoreBlock
    <3> HIDE DEF rl2, b
    <3>. QED BY <1>5, <2>1, <2>3, <3>1 DEF MovesWhatItSays
  <2>. QED
    <3> HIDE DEF rl2, m2
    <3>. QED BY <1>4, <2>1, <2>4, <2>7, <2>8, <2>10, <2>11, <2>12
<1>6. CASE c.action # "reserve"
  <2> DEFINE k == r.ref
             b == blk[k]
  <2>1. k = m.block /\ k \in DOMAIN blk /\ ActedOn(rl, r) = k
    BY <1>2, <1>4, <1>6 DEF Accepts, TakesReserve, ActedOn
  <2>2. IsLive(b) /\ Unspent(b) = Available(m)
    BY <1>6, <2>1 DEF Accepts, TakesReserve, TakesDebit, TakesRelease, CaughtUp
  <2>3. /\ c.action = "debit" \/ c.action = "release"
        /\ c.amount <= Unspent(b)
        /\ c.action = "release" /\ ~PartialRelease => c.amount = Unspent(b)
    BY <1>1, <1>3, <1>6, <2>1, <2>2
       DEF Accepts, TakesReserve, TakesDebit, TakesRelease, WithinGrant, Call, Action
  <2> DEFINE b2 == IF c.action = "debit" THEN [b EXCEPT !.debited = @ + c.amount]
                                         ELSE Released(b, c.amount)
  <2>4. /\ b2 \in BlockRef
        /\ Unspent(b2) = Unspent(b) - c.amount
        /\ c.action = "debit" => /\ b2.released = b.released
                                 /\ b2.debited = b.debited + c.amount
        /\ c.action = "release" => /\ b2.released = b.released + c.amount
                                   /\ b2.debited = b.debited
        /\ IsLive(b2) \/ Unspent(b2) = 0
        /\ c.action = "debit" \/ Unspent(b2) # 0 => IsLive(b2)
    <3>1. CASE c.action = "debit"
      BY <3>1, <1>1, <1>3, <2>1, <2>2, DebitedBlock DEF IsLive
    <3>2. CASE c.action = "release"
      BY <3>2, <1>1, <1>3, <2>1, <2>2, <2>3, ReleasedBlock
    <3>. QED BY <2>3, <3>1, <3>2
  <2>5. /\ rl2.balance = rl.balance + (b2.released - b.released)
        /\ rl2.blocks = [blk EXCEPT ![k] = b2]
        /\ rl2.seen = rl.seen \cup {[key |-> key, request |-> r, block |-> k]}
    <3>1. CASE c.action = "debit"
      BY <3>1, <1>1, <1>3, <2>1, <2>4 DEF Acted, BalanceAfter, BlocksAfter, ActedOn
    <3>2. CASE c.action = "release"
      BY <3>2, <1>1, <1>3, <2>1, <2>4 DEF Acted, BalanceAfter, BlocksAfter, ActedOn
    <3>. QED BY <2>3, <3>1, <3>2
  <2>6. /\ rl2.blocks \in Seq(BlockRef)
        /\ DOMAIN rl2.blocks = DOMAIN blk
        /\ Len(rl2.blocks) = Len(blk)
        /\ rl2.blocks[k] = b2
        /\ \A n \in DOMAIN blk \ {k} : rl2.blocks[n] = blk[n]
    <3> HIDE DEF b2, rl2
    <3>. QED BY <1>1, <2>1, <2>4, <2>5
  <2>7. rl2 \in Rail
    <3>1. rl2.balance \in Nat
      <4> HIDE DEF b2, rl2
      <4>1. b.released \in Nat /\ (b2.released = b.released \/ b2.released = b.released + c.amount)
        BY <1>3, <2>1, <2>3, <2>4
      <4> HIDE DEF b
      <4>. QED BY <1>1, <2>5, <4>1
    <3>2. rl2.seen \subseteq Seen
      BY <1>1, <2>5 DEF Seen
    <3>3. rl2 = [balance |-> rl2.balance, blocks |-> rl2.blocks, seen |-> rl2.seen]
      BY DEF Acted
    <3> HIDE DEF rl2
    <3>. QED BY <2>6, <3>1, <3>2, <3>3 DEF Rail
  <2>0. /\ \A n : HandedBack(rl, n) => HandedBack(rl2, n)
        /\ c.action = "release" => HandedBack(rl2, k)
    <3> DEFINE e == [key |-> key, request |-> r, block |-> k]
    <3>1. e.block = k /\ e.request.call.action = c.action
      OBVIOUS
    <3> HIDE DEF e, rl2
    <3>2. rl2.seen = rl.seen \cup {e}
      BY <2>5 DEF e
    <3>. QED BY <3>1, <3>2 DEF HandedBack
  <2>8. BlocksSound(rl2)
    <3>1. b \in BlockRef /\ Unspent(b) \in Int
      BY <1>3, <2>1 DEF BlockRef, Unspent
    <3> HIDE DEF rl2, b2, b
    <3>2. Unspent(b2) >= 0
      BY <1>1, <2>3, <2>4, <3>1
    <3>3. c.action = "debit" /\ b2.released > 0 => HandedBack(rl, k)
      BY <2>1, <2>2, <2>4 DEF BlocksSound, b
    <3> SUFFICES ASSUME NEW n \in DOMAIN rl2.blocks
                 PROVE  /\ Unspent(rl2.blocks[n]) >= 0
                        /\ ~IsLive(rl2.blocks[n]) => Unspent(rl2.blocks[n]) = 0
                        /\ IsLive(rl2.blocks[n]) /\ rl2.blocks[n].released > 0 =>
                             HandedBack(rl2, n)
      BY DEF BlocksSound
    <3>4. CASE n = k
      BY <3>4, <2>0, <2>3, <2>4, <2>6, <3>2, <3>3
    <3>5. CASE n # k
      BY <3>5, <2>0, <2>6 DEF BlocksSound
    <3>. QED BY <3>4, <3>5
  <2>9. /\ Available(m2) = Available(m) - c.amount
        /\ c.action = "debit" => Committed(m2) = Committed(m)
        /\ c.action = "release" => Committed(m2) = Committed(m) - c.amount
        /\ m2.block = k
        /\ m2.env = m.env
        /\ c.action = "debit" => m2.debited = m.debited + c.amount
        /\ c.action = "release" => m2.debited = m.debited
    <3>1. CASE c.action = "debit"
      <4>1. k \in Nat /\ c.amount > 0 /\ c \in Call
        BY <1>1
      <4>2. m2 = Booked(m, c, k)
        BY <2>1
      <4> HIDE DEF m2, k, c
      <4>3. /\ Booked(m, c, k).env = m.env
            /\ Booked(m, c, k).block = m.block
            /\ Available(Booked(m, c, k)) = Available(m) - c.amount
            /\ Committed(Booked(m, c, k)) = Committed(m)
            /\ Booked(m, c, k).debited = m.debited + c.amount
        BY <3>1, <4>1, BookedDebit
      <4>. QED BY <2>1, <3>1, <4>2, <4>3
    <3>2. CASE c.action = "release"
      <4>1. k \in Nat /\ c.amount > 0 /\ c \in Call
        BY <1>1
      <4>2. m2 = Booked(m, c, k)
        BY <2>1
      <4> HIDE DEF m2, k, c
      <4>3. /\ Booked(m, c, k).env = m.env
            /\ Booked(m, c, k).block = m.block
            /\ Available(Booked(m, c, k)) = Available(m) - c.amount
            /\ Committed(Booked(m, c, k)) = Committed(m) - c.amount
            /\ Booked(m, c, k).debited = m.debited
        BY <3>2, <4>1, BookedRelease
      <4>. QED BY <2>1, <3>2, <4>2, <4>3
    <3>. QED BY <2>3, <3>1, <3>2
  <2>10. WithinCap(m2)
    <3>1. Committed(m) \in Int /\ Committed(m) <= m.env.max_total
      BY <1>2 DEF WithinCap, Committed, Available
    <3> HIDE DEF m2
    <3>. QED BY <1>1, <1>2, <2>3, <2>9, <3>1 DEF WithinCap
  <2>11. CaughtUp(rl2, m2)
    <3>1. CustomerBalance - rl2.balance <= Committed(m2)
      <4> HIDE DEF rl2, m2, b2
      <4>1. CustomerBalance - rl.balance <= Committed(m) /\ Committed(m) \in Int
        BY <1>2 DEF CaughtUp, Committed, Available
      <4>2. b.released \in Nat
        BY <1>3, <2>1
      <4> HIDE DEF b
      <4>. QED BY <1>1, <2>3, <2>4, <2>5, <2>9, <4>1, <4>2
    <3>2. ASSUME NEW n \in DOMAIN rl2.blocks, IsLive(rl2.blocks[n])
          PROVE  Unspent(rl2.blocks[n]) = IF n = m2.block THEN Available(m2) ELSE 0
      <4> HIDE DEF rl2, m2, b2
      <4>1. CASE n = k
        BY <4>1, <2>1, <2>2, <2>4, <2>6, <2>9
      <4>2. CASE n # k
        BY <4>2, <3>2, <2>1, <2>6, <2>9 DEF CaughtUp
      <4>. QED BY <4>1, <4>2
    <3>3. Available(m2) >= 0
      BY <1>1, <1>2, <2>2, <2>3, <2>9 DEF Available
    <3>4. m2.debited = DebitedAt(rl2)
      <4>1. DebitedAt(rl2) = DebitedAt(rl) - blk[k].debited + b2.debited
        <5> HIDE DEF b2, rl2, k
        <5>. QED BY <1>1, <2>1, <2>4, <2>5, OneBlockChanged
      <4>2. DebitedAt(rl) \in Int /\ m.debited = DebitedAt(rl) /\ b.debited \in Int
        BY <1>1, <1>3, <2>1, TotalsAreInt DEF CaughtUp
      <4>3. b2.debited = b.debited + (m2.debited - m.debited) /\ m2.debited \in Int
        <5> HIDE DEF b2, m2
        <5>. QED BY <1>1, <1>2, <2>3, <2>4, <2>9, <4>2
      <4> HIDE DEF b2, rl2, m2
      <4>. QED BY <1>2, <4>1, <4>2, <4>3
    <3>5. Available(m2) > 0 => m2.block \in DOMAIN rl2.blocks /\ IsLive(rl2.blocks[m2.block])
      <4> HIDE DEF rl2, m2, b2
      <4>. QED BY <1>1, <2>1, <2>2, <2>3, <2>4, <2>6, <2>9
    <3>6. ASSUME NEW n \in DOMAIN rl2.blocks PROVE ~TornByCustomer(rl2, n)
      <4> HIDE DEF rl2, m2, b2
      <4>1. CASE n = k /\ c.action = "debit"
        BY <4>1, <2>4, <2>6 DEF TornByCustomer, IsLive
      <4>2. CASE n = k /\ c.action = "release"
        BY <4>2, <2>0 DEF TornByCustomer
      <4>3. CASE n # k
        <5>1. ~TornByCustomer(rl, n)
          BY <4>3, <2>1, <2>6 DEF CaughtUp
        <5>. QED BY <4>3, <5>1, <2>0, <2>6 DEF TornByCustomer
      <4>. QED BY <2>3, <4>1, <4>2, <4>3
    <3> HIDE DEF rl2, m2
    <3>. QED BY <3>1, <3>2, <3>3, <3>4, <3>5, <3>6 DEF CaughtUp
  <2>12. MovesWhatItSays(rl, rl2, c)
    <3>1. HeldAt(rl2) = HeldAt(rl) - Unspent(blk[k]) + Unspent(b2)
      <4> HIDE DEF b2, rl2, k
      <4>. QED BY <1>1, <2>1, <2>4, <2>5, OneBlockChanged
    <3>2. HeldAt(rl) \in Int
      BY <1>1, TotalsAreInt
    <3>3. Unspent(b) \in Int /\ b.released \in Int /\ b = blk[k]
      BY <1>3, <2>1
    <3> HIDE DEF rl2, b2, b
    <3>4. HeldAt(rl2) = HeldAt(rl) - c.amount
      BY <1>1, <2>4, <3>1, <3>2, <3>3
    <3>5. /\ c.action = "debit" => rl2.balance = rl.balance
          /\ c.action = "release" => rl2.balance = rl.balance + c.amount
      BY <1>1, <2>4, <2>5, <3>3
    <3>. QED BY <1>6, <3>4, <3>5 DEF MovesWhatItSays
  <2>. QED
    <3> HIDE DEF rl2, m2
    <3>. QED BY <1>4, <2>1, <2>6, <2>7, <2>8, <2>10, <2>11, <2>12
<1>. QED BY <1>5, <1>6

\* The customer takes back what a live block still holds.
LEMMA RevokingKeepsUp ==
  ASSUME Revocable,
         NEW rl \in Rail, BlocksSound(rl),
         NEW n \in DOMAIN rl.blocks, IsLive(rl.blocks[n])
  PROVE  LET rl2 == Revoked(rl, n)
         IN  /\ rl2 \in Rail /\ BlocksSound(rl2)
             /\ rl2.seen = rl.seen
             /\ DOMAIN rl2.blocks = DOMAIN rl.blocks
             /\ Len(rl2.blocks) = Len(rl.blocks)
             /\ \A m \in Memory : CaughtUp(rl, m) => CaughtUp(rl2, m)
<1> DEFINE rl2 == Revoked(rl, n)
           blk == rl.blocks
           b2 == Torn(blk[n])
<1>1. /\ rl.balance \in Nat /\ blk \in Seq(BlockRef) /\ rl.seen \subseteq Seen
      /\ blk[n] \in BlockRef /\ Unspent(blk[n]) \in Nat
  <2>1. rl.balance \in Nat /\ blk \in Seq(BlockRef) /\ rl.seen \subseteq Seen
    BY DEF Rail
  <2>2. blk[n] \in BlockRef
    BY <2>1
  <2>3. Unspent(blk[n]) \in Nat
    BY <2>2 DEF BlocksSound, Unspent, BlockRef
  <2>. QED BY <2>1, <2>2, <2>3
<1>2. /\ b2 \in BlockRef /\ Unspent(b2) = 0 /\ ~IsLive(b2)
      /\ b2.debited = blk[n].debited /\ b2.released = blk[n].released + Unspent(blk[n])
  BY <1>1, TornBlock
<1> DEFINE rl1 == [rl EXCEPT !.balance = @ + Unspent(blk[n])]
<1>3. /\ rl2.balance = rl.balance + Unspent(blk[n])
      /\ rl2.blocks = [blk EXCEPT ![n] = b2]
      /\ rl2.seen = rl.seen
      /\ rl2 = [rl1 EXCEPT !.blocks = [blk EXCEPT ![n] = b2]]
      /\ rl1 \in Rail
  <2>1. rl1 \in Rail /\ rl1.blocks = blk
    BY <1>1 DEF Rail
  <2>2. rl2 = [rl1 EXCEPT !.blocks = [blk EXCEPT ![n] = b2]]
    BY DEF Revoked, Rail
  <2>3. /\ rl2.balance = rl.balance + Unspent(blk[n])
        /\ rl2.seen = rl.seen
    BY DEF Revoked, Rail
  <2>4. rl2.blocks = [blk EXCEPT ![n] = b2]
    BY DEF Revoked, Rail
  <2>. QED BY <2>1, <2>2, <2>3, <2>4
<1> HIDE DEF rl2, rl1, b2
<1>4. /\ rl2.blocks \in Seq(BlockRef)
      /\ DOMAIN rl2.blocks = DOMAIN blk
      /\ Len(rl2.blocks) = Len(blk)
      /\ rl2.blocks[n] = b2
      /\ \A i \in DOMAIN blk \ {n} : rl2.blocks[i] = blk[i]
  BY <1>1, <1>2, <1>3
<1>5. rl2 \in Rail
  <2>1. [blk EXCEPT ![n] = b2] \in Seq(BlockRef)
    BY <1>3, <1>4
  <2> HIDE DEF rl1
  <2>. QED BY <1>3, <2>1 DEF Rail
<1>8. \A i : HandedBack(rl2, i) <=> HandedBack(rl, i)
  BY <1>3 DEF HandedBack
<1>6. BlocksSound(rl2)
  BY <1>2, <1>4, <1>8 DEF BlocksSound
<1>7. ASSUME NEW m \in Memory, CaughtUp(rl, m)
      PROVE  CaughtUp(rl2, m)
  <2>1. CustomerBalance - rl2.balance <= Committed(m)
    BY <1>1, <1>3, <1>7 DEF CaughtUp, Committed, Available, Memory
  <2>2. \A i \in DOMAIN rl2.blocks : IsLive(rl2.blocks[i]) => i # n
    BY <1>2, <1>4
  <2>3. m.debited = DebitedAt(rl2)
    <3>1. DebitedAt(rl2) = DebitedAt(rl) - blk[n].debited + b2.debited
      <4>1. blk[n].debited = rl.blocks[n].debited /\ n \in DOMAIN rl.blocks
            /\ rl.blocks \in Seq(BlockRef) /\ rl2.blocks = [rl.blocks EXCEPT ![n] = b2]
        BY <1>1, <1>3
      <4> HIDE DEF blk
      <4>. QED BY <1>2, <4>1, OneBlockChanged
    <3>2. DebitedAt(rl) \in Int /\ m.debited = DebitedAt(rl) /\ blk[n].debited \in Int
      <4>1. DebitedAt(rl) \in Int
        BY <1>1, TotalsAreInt
      <4>. QED BY <1>1, <1>7, <4>1 DEF CaughtUp, BlockRef
    <3>. QED BY <1>2, <3>1, <3>2
  <2>4. ASSUME NEW i \in DOMAIN rl2.blocks, TornByCustomer(rl2, i)
        PROVE  i = m.block /\ Available(m) > 0
    <3>1. CASE i # n
      <4>1. TornByCustomer(rl, i)
        BY <3>1, <2>4, <1>4, <1>8 DEF TornByCustomer
      <4>. QED BY <1>4, <1>7, <4>1 DEF CaughtUp
    <3>2. CASE i = n
      <4>1. b2.released > 0 /\ ~HandedBack(rl, n)
        BY <3>2, <2>4, <1>4, <1>8 DEF TornByCustomer
      <4>2. ~(blk[n].released > 0)
        BY <4>1 DEF BlocksSound
      <4>3. Unspent(blk[n]) > 0
        BY <1>1, <1>2, <4>1, <4>2 DEF BlockRef
      <4>. QED BY <3>2, <4>3, <1>7 DEF CaughtUp
    <3>. QED BY <3>1, <3>2
  <2>. QED BY <1>4, <1>7, <2>1, <2>2, <2>3, <2>4 DEF CaughtUp
<1>. QED BY <1>3, <1>4, <1>5, <1>6, <1>7 DEF rl2

USE SessionAssumption

ChainFacts == ChainSound /\ RailSound /\ LedgerSound

(***************************************************************************)
(* What an entry is, and what one more of them changes.                    *)
(***************************************************************************)
LEMMA EntryFacts ==
  ASSUME NEW e \in Entry
  PROVE  /\ e.kind \in CallKind => /\ e \in CallEntry
                                   /\ e.call \in Call /\ e.prop \in Nat /\ e.block \in Nat
         /\ e.kind = "widened" => e \in WideningEntry /\ e.to \in Caps
         /\ e.kind \in CallKind \cup {"widened", "grant", "note"}
BY DEF Entry, CallEntry, WideningEntry, OtherEntry, CallKind

LEMMA AboutIsEntry ==
  ASSUME NEW kind \in CallKind, NEW prop \in Nat, NEW call \in Call, NEW block \in Nat
  PROVE  LET e == About(kind, prop, call, block)
         IN  /\ e \in Entry
             /\ e.kind = kind /\ e.prop = prop /\ e.call = call /\ e.block = block
BY DEF About, Entry, CallEntry

LEMMA Appending ==
  ASSUME chain \in Seq(Entry), NEW e \in Entry, Write(e)
  PROVE  /\ chain' \in Seq(Entry)
         /\ Len(chain) \in Nat /\ Len(chain') = Len(chain) + 1
         /\ DOMAIN chain = 1 .. Len(chain)
         /\ DOMAIN chain' = DOMAIN chain \cup {Len(chain) + 1}
         /\ chain'[Len(chain) + 1] = e
         /\ \A i \in DOMAIN chain : chain'[i] = chain[i]
         /\ Ledger' = Reread(Ledger, e)
         /\ Intents' = Intents \cup (IF e.kind = "rail_intent" THEN {e.prop} ELSE {})
         /\ Settled(chain)' = Settled(chain) \cup (IF e.kind \in Outcome THEN {e.prop} ELSE {})
         /\ Applied' = Applied \cup (IF e.kind = "applied" THEN {e.prop} ELSE {})
<1>1. chain' = Append(chain, e)
  BY DEF Write
<1>2. /\ chain' \in Seq(Entry)
      /\ Len(chain) \in Nat /\ Len(chain') = Len(chain) + 1
      /\ DOMAIN chain = 1 .. Len(chain)
      /\ DOMAIN chain' = DOMAIN chain \cup {Len(chain) + 1}
      /\ chain'[Len(chain) + 1] = e
      /\ \A i \in DOMAIN chain : chain'[i] = chain[i]
  BY <1>1
<1>3. Ledger' = Reread(Ledger, e)
  BY <1>1, ReplayAppend DEF Ledger
<1>4. Intents' = Intents \cup (IF e.kind = "rail_intent" THEN {e.prop} ELSE {})
  BY <1>1, PropsOfAppend DEF Intents
<1>5. Settled(chain)' = Settled(chain) \cup (IF e.kind \in Outcome THEN {e.prop} ELSE {})
  BY <1>1, PropsOfAppend DEF Settled, Outcome
<1>6. Applied' = Applied \cup (IF e.kind = "applied" THEN {e.prop} ELSE {})
  BY <1>1, PropsOfAppend DEF Applied
<1>. QED BY <1>2, <1>3, <1>4, <1>5, <1>6

\* Intents and outcomes point to proposals on the chain.
LEMMA IntentsAreProposed ==
  ASSUME chain \in Seq(Entry), ChainSound
  PROVE  /\ \A p \in Intents : /\ p \in DOMAIN chain /\ chain[p].kind = "proposal"
                               /\ chain[p].call \in Call
                               /\ chain[p].call.amount > 0
         /\ Settled(chain) \subseteq Intents
         /\ Dangling(chain) \subseteq Intents
         /\ Dangling(chain) = Intents \ Settled(chain)
         /\ Applied \subseteq Settled(chain)
<1>1. ASSUME NEW p \in Intents
      PROVE  /\ p \in DOMAIN chain /\ chain[p].kind = "proposal"
             /\ chain[p].call \in Call
             /\ chain[p].call.amount > 0
  <2>1. PICK i \in DOMAIN chain : chain[i].kind = "rail_intent" /\ chain[i].prop = p
    BY DEF Intents, PropsOf
  <2>2. p \in DOMAIN chain /\ chain[p].kind = "proposal"
    BY <2>1 DEF ChainSound, CallKind
  <2>3. chain[p] \in Entry
    BY <2>2
  <2>. QED BY <2>2, <2>3, EntryFacts DEF CallKind, ChainSound
<1>2. Dangling(chain) = Intents \ Settled(chain)
  BY DEF Dangling, Intents
<1>3. Applied \subseteq Settled(chain)
  BY DEF Applied, Settled, PropsOf
<1>. QED BY <1>1, <1>2, <1>3 DEF ChainSound

\* An entry that is neither an intent, nor an outcome, nor a widening.
Neutral == {"proposal", "policy_decision", "refusal", "rail_in_doubt", "grant", "note"}

WellPlaced(e) ==
  e.kind \in CallKind =>
    \/ /\ e.prop \in DOMAIN chain
       /\ chain[e.prop].kind = "proposal" /\ chain[e.prop].call = e.call
    \/ e.kind = "proposal" /\ e.prop = Len(chain) + 1

LEMMA NeutralAppend ==
  ASSUME TypeOK, ChainFacts, NEW e \in Entry, e.kind \in Neutral, WellPlaced(e),
         Write(e), rail' = rail
  PROVE  /\ ChainFacts'
         /\ Ledger' = Ledger /\ Intents' = Intents
         /\ Dangling(chain)' = Dangling(chain)
         /\ Settled(chain)' = Settled(chain)
         /\ KeysSeen' = KeysSeen
<1>0. chain \in Seq(Entry) /\ ChainSound
  BY DEF TypeOK, ChainFacts
<1>1. /\ chain' \in Seq(Entry)
      /\ Len(chain) \in Nat /\ Len(chain') = Len(chain) + 1
      /\ DOMAIN chain = 1 .. Len(chain)
      /\ DOMAIN chain' = DOMAIN chain \cup {Len(chain) + 1}
      /\ chain'[Len(chain) + 1] = e
      /\ \A i \in DOMAIN chain : chain'[i] = chain[i]
  BY <1>0, Appending
<1>2. Intents' = Intents /\ Settled(chain)' = Settled(chain) /\ Applied' = Applied
  BY <1>0, Appending DEF Neutral, Outcome
<1>3. Ledger' = Ledger
  BY <1>0, Appending DEF Neutral, Reread
<1>4. Dangling(chain)' = Dangling(chain)
  BY <1>2 DEF Dangling, Intents
<1>5. \A p \in Intents : p \in DOMAIN chain /\ chain'[p] = chain[p]
  BY <1>0, <1>1, IntentsAreProposed
<1>6. ChainSound'
  <2>1. ASSUME NEW i \in DOMAIN chain', chain'[i].kind \in CallKind
        PROVE  /\ chain'[i].prop \in DOMAIN chain'
               /\ chain'[chain'[i].prop].kind = "proposal"
               /\ chain'[chain'[i].prop].call = chain'[i].call
    <3>1. CASE i \in DOMAIN chain
      BY <3>1, <2>1, <1>0, <1>1 DEF ChainSound
    <3>2. CASE i = Len(chain) + 1
      BY <3>2, <2>1, <1>1 DEF WellPlaced
    <3>. QED BY <3>1, <3>2, <1>1
  <2>2. \A p \in Intents' : chain'[p].call.amount > 0
    BY <1>0, <1>2, <1>5 DEF ChainSound
  <2>3. /\ Settled(chain)' \subseteq Intents'
        /\ \A p, q \in Dangling(chain)' : p = q
    BY <1>0, <1>2, <1>4 DEF ChainSound
  <2>4. ASSUME NEW i \in DOMAIN chain', NEW j \in DOMAIN chain',
               chain'[i].kind \in Outcome, chain'[j].kind \in Outcome,
               chain'[i].prop = chain'[j].prop
        PROVE  i = j
    <3>1. i \in DOMAIN chain /\ j \in DOMAIN chain
      BY <1>1, <2>4 DEF Neutral, Outcome
    <3>. QED BY <3>1, <2>4, <1>0, <1>1 DEF ChainSound
  <2>. QED BY <2>1, <2>2, <2>3, <2>4 DEF ChainSound
<1>7. KeysSeen' = KeysSeen /\ Blocks' = Blocks
  BY DEF KeysSeen, Blocks
<1>8. RailSound'
  BY <1>2, <1>3, <1>4, <1>5, <1>7 DEF RailSound, ChainFacts
<1>9. LedgerSound'
  <2>1. \A p \in Dangling(chain) : chain'[p] = chain[p]
    BY <1>0, <1>5, IntentsAreProposed
  <2>. QED BY <1>3, <1>4, <1>7, <2>1 DEF LedgerSound, ChainFacts
<1>. QED BY <1>2, <1>3, <1>4, <1>6, <1>7, <1>8, <1>9 DEF ChainFacts

\* Chain and rail left alone.
LEMMA ChainAndRailUnchanged ==
  ASSUME ChainFacts, chain' = chain, rail' = rail
  PROVE  /\ ChainFacts'
         /\ Ledger' = Ledger /\ Intents' = Intents
         /\ Dangling(chain)' = Dangling(chain)
         /\ Settled(chain)' = Settled(chain)
         /\ KeysSeen' = KeysSeen
<1>1. /\ Ledger' = Ledger /\ Intents' = Intents
      /\ Dangling(chain)' = Dangling(chain)
      /\ Settled(chain)' = Settled(chain)
      /\ KeysSeen' = KeysSeen /\ Applied' = Applied /\ Blocks' = Blocks
  BY DEF Ledger, Intents, KeysSeen, Applied, Blocks
<1>2. ChainSound'
  BY <1>1 DEF ChainFacts, ChainSound
<1>3. RailSound'
  BY <1>1 DEF ChainFacts, RailSound
<1>4. LedgerSound'
  BY <1>1 DEF ChainFacts, LedgerSound
<1>. QED BY <1>1, <1>2, <1>3, <1>4 DEF ChainFacts

(***************************************************************************)
(* The initial state.                                                      *)
(***************************************************************************)
LEMMA InitSound == Init => IInv
<1> SUFFICES ASSUME Init PROVE IInv
  OBVIOUS
<1> DEFINE e == [kind |-> "grant"]
<1>1. e \in Entry /\ chain = Append(<<>>, e) /\ <<>> \in Seq(Entry)
  BY DEF Entry, OtherEntry, Init
<1>2. /\ chain \in Seq(Entry) /\ Len(chain) = 1 /\ chain[1] = e
      /\ DOMAIN chain = {1}
  BY <1>1
<1>3. Ledger = FreshMemory
  <2>1. Replay(<<>>) = FreshMemory
    <3>1. PICK f : IsReading(f, <<>>, Len(<<>>)) /\ Replay(<<>>) = f[Len(<<>>)]
      BY <1>1, ReplayReads
    <3>. QED BY <3>1 DEF IsReading
  <2>2. Ledger = Reread(FreshMemory, e)
    BY <1>1, <2>1, ReplayAppend DEF Ledger
  <2>. QED BY <2>2 DEF Reread
<1>4. \A kinds : "grant" \notin kinds => PropsOf(chain, kinds) = {}
  BY <1>2 DEF PropsOf
<1>5. Intents = {} /\ Settled(chain) = {} /\ Dangling(chain) = {} /\ Applied = {}
  BY <1>4 DEF Intents, Settled, Dangling, Applied
<1>6. rail = EmptyRail /\ rail.seen = {} /\ rail.blocks = <<>>
  BY DEF Init, EmptyRail
<1>7. TypeOK
  <2>1. rail \in Rail /\ mem \in Memory
    BY <1>6, FreshIsCaughtUp DEF Init
  <2>2. in_doubt \in 0 .. Len(chain) /\ asked \in 0 .. Len(chain) /\ faults \in 0 .. MaxFaults
    BY <1>2 DEF Init
  <2>. QED BY <1>2, <2>1, <2>2 DEF Init, TypeOK
<1>8. ChainSound
  BY <1>2, <1>5 DEF ChainSound, CallKind, Outcome
<1>9. RailSound
  BY <1>5, <1>6, FreshIsCaughtUp DEF RailSound, KeysSeen
<1>10. LedgerSound
  BY <1>3, <1>5, <1>6, FreshIsCaughtUp DEF LedgerSound, FreshMemory
<1>11. ControlSound
  BY <1>5 DEF ControlSound, Init
<1>12. MemorySound
  BY <1>3 DEF MemorySound, Init
<1>. QED BY <1>7, <1>8, <1>9, <1>10, <1>11, <1>12 DEF IInv

(***************************************************************************)
(* The steps, one lemma each.                                              *)
(***************************************************************************)
\* The proposal in hand is on the chain.
LEMMA AskedIsProposed ==
  ASSUME IInv, at \notin {"idle", "down"}
  PROVE  /\ asked \in DOMAIN chain /\ asked \in 1 .. Len(chain) /\ asked \in Nat
         /\ chain[asked].kind = "proposal" /\ chain[asked].call \in Call
<1>1. asked # 0 /\ asked \in 0 .. Len(chain) /\ chain \in Seq(Entry)
  BY DEF IInv, TypeOK, ControlSound
<1>2. asked \in DOMAIN chain /\ chain[asked] \in Entry /\ asked \in 1 .. Len(chain)
  BY <1>1
<1>3. chain[asked].kind = "proposal"
  BY <1>1 DEF IInv, ControlSound
<1>. QED BY <1>2, <1>3, EntryFacts DEF CallKind

\* AgentAsks.
LEMMA AsksSound ==
  ASSUME IInv, NEW call \in Call, Asks(call)
  PROVE  IInv'
<1> DEFINE e == About("proposal", Len(chain) + 1, call, 0)
<1>1. Write(e) /\ rail' = rail /\ mem' = mem /\ in_doubt' = in_doubt
      /\ answer' = answer /\ at = "idle" /\ at' = "judging" /\ asked' = Len(chain) + 1
      /\ signed' = signed /\ expired' = expired /\ faults' = faults
  BY DEF Asks, world
<1>2. chain \in Seq(Entry) /\ Len(chain) \in Nat /\ TypeOK /\ ChainFacts
  BY DEF IInv, TypeOK, ChainFacts
<1>3. e \in Entry /\ e.kind = "proposal" /\ e.prop = Len(chain) + 1 /\ e.call = call
  BY <1>2, AboutIsEntry DEF CallKind
<1> HIDE DEF e
<1>4. WellPlaced(e) /\ e.kind \in Neutral
  BY <1>3 DEF WellPlaced, Neutral
<1>5. /\ ChainFacts' /\ Ledger' = Ledger /\ Intents' = Intents
      /\ Dangling(chain)' = Dangling(chain) /\ KeysSeen' = KeysSeen
  BY <1>1, <1>2, <1>3, <1>4, NeutralAppend
<1>6. /\ chain' \in Seq(Entry) /\ Len(chain') = Len(chain) + 1
      /\ chain'[Len(chain) + 1] = e
      /\ DOMAIN chain = 1 .. Len(chain)
  BY <1>1, <1>2, <1>3, Appending
<1>7. TypeOK'
  BY <1>1, <1>2, <1>6 DEF TypeOK
<1>8. Len(chain) + 1 \notin Intents
  BY <1>2, <1>6, IntentsAreProposed DEF ChainFacts
<1>9. ControlSound'
  BY <1>1, <1>2, <1>3, <1>5, <1>6, <1>8 DEF ControlSound, IInv
<1>10. MemorySound'
  BY <1>1, <1>5 DEF MemorySound, ControlSound, IInv
<1>. QED BY <1>5, <1>7, <1>9, <1>10 DEF IInv, ChainFacts

\* What Refuse, Permit and RecordDoubt share: a neutral entry about the
\* proposal in hand.
LEMMA WriteNeutralAbout ==
  ASSUME IInv, at \notin {"idle", "down"}, NEW kind \in Neutral \cap CallKind,
         kind # "proposal", NEW block \in Nat, WriteAbout(kind, block), rail' = rail
  PROVE  /\ ChainFacts'
         /\ Ledger' = Ledger /\ Intents' = Intents
         /\ Dangling(chain)' = Dangling(chain) /\ KeysSeen' = KeysSeen
         /\ chain' \in Seq(Entry) /\ Len(chain') = Len(chain) + 1
         /\ Len(chain) \in Nat
         /\ \A i \in DOMAIN chain : chain'[i] = chain[i]
<1> DEFINE e == About(kind, asked, chain[asked].call, block)
<1>1. TypeOK /\ ChainFacts /\ chain \in Seq(Entry)
  BY DEF IInv, TypeOK, ChainFacts
<1>2. /\ asked \in DOMAIN chain /\ asked \in Nat
      /\ chain[asked].kind = "proposal" /\ chain[asked].call \in Call
  BY AskedIsProposed
<1>3. /\ e \in Entry /\ e.kind = kind /\ e.prop = asked /\ e.call = chain[asked].call
  BY <1>2, AboutIsEntry
<1>4. Write(e)
  BY DEF WriteAbout
<1> HIDE DEF e
<1>5. WellPlaced(e) /\ e.kind \in Neutral
  BY <1>2, <1>3 DEF WellPlaced
<1>6. /\ ChainFacts' /\ Ledger' = Ledger /\ Intents' = Intents
      /\ Dangling(chain)' = Dangling(chain) /\ KeysSeen' = KeysSeen
  BY <1>1, <1>3, <1>4, <1>5, NeutralAppend
<1>7. /\ chain' \in Seq(Entry) /\ Len(chain') = Len(chain) + 1
      /\ Len(chain) \in Nat
      /\ \A i \in DOMAIN chain : chain'[i] = chain[i]
  BY <1>1, <1>3, <1>4, Appending
<1>. QED BY <1>6, <1>7

LEMMA RefuseSound ==
  ASSUME IInv, Refuse
  PROVE  IInv'
<1>1. /\ at = "judging" /\ WriteAbout("refusal", 0) /\ rail' = rail /\ mem' = mem
      /\ in_doubt' = in_doubt /\ at' = "idle" /\ asked' = 0 /\ answer' = "none"
      /\ signed' = signed /\ expired' = expired /\ faults' = faults
  BY DEF Refuse, Goto, world
<1>2. "refusal" \in Neutral \cap CallKind
  BY DEF Neutral, CallKind
<1>3. /\ ChainFacts' /\ Ledger' = Ledger
      /\ Dangling(chain)' = Dangling(chain)
      /\ chain' \in Seq(Entry) /\ Len(chain') = Len(chain) + 1 /\ Len(chain) \in Nat
  BY <1>1, <1>2, WriteNeutralAbout
<1>4. TypeOK'
  BY <1>1, <1>3 DEF TypeOK, IInv
<1>5. ControlSound'
  BY <1>1, <1>3 DEF ControlSound, IInv
<1>6. MemorySound'
  BY <1>1, <1>3 DEF MemorySound, IInv
<1>. QED BY <1>3, <1>4, <1>5, <1>6 DEF IInv, ChainFacts

LEMMA PermitSound ==
  ASSUME IInv, Permit
  PROVE  IInv'
<1>1. /\ at = "judging" /\ in_doubt = 0 /\ Permitted
      /\ WriteAbout("policy_decision", 0) /\ rail' = rail /\ mem' = mem
      /\ in_doubt' = in_doubt /\ at' = "intending" /\ asked' = asked /\ answer' = "none"
      /\ signed' = signed /\ expired' = expired /\ faults' = faults
  BY DEF Permit, Goto, world
<1>2. "policy_decision" \in Neutral \cap CallKind
  BY DEF Neutral, CallKind
<1>3. /\ ChainFacts' /\ Ledger' = Ledger /\ Intents' = Intents
      /\ Dangling(chain)' = Dangling(chain)
      /\ chain' \in Seq(Entry) /\ Len(chain') = Len(chain) + 1 /\ Len(chain) \in Nat
      /\ \A i \in DOMAIN chain : chain'[i] = chain[i]
  BY <1>1, <1>2, WriteNeutralAbout
<1>4. asked \in DOMAIN chain /\ chain[asked].kind = "proposal"
  BY <1>1, AskedIsProposed
<1>5. TypeOK'
  BY <1>1, <1>3 DEF TypeOK, IInv
<1>6. mem = Ledger /\ chain[asked].call.amount > 0 /\ WithinGrant(chain[asked].call, Ledger)
  <2>1. mem = Ledger
    BY <1>1 DEF IInv, MemorySound
  <2>2. chain[asked].call.amount > 0 /\ WithinGrant(chain[asked].call, mem)
    BY <1>1 DEF Permitted, Permits, CheckEnvelope, CheckRail, FitsBudget,
                NothingStanding, WithinGrant
  <2>. QED BY <2>1, <2>2
<1>7. ControlSound'
  BY <1>1, <1>3, <1>4, <1>6 DEF ControlSound, IInv
<1>8. MemorySound'
  BY <1>1, <1>3 DEF MemorySound, IInv
<1>. QED BY <1>3, <1>5, <1>7, <1>8 DEF IInv, ChainFacts

LEMMA RecordDoubtSound ==
  ASSUME IInv, RecordDoubt
  PROVE  IInv'
<1>1. /\ at = "recording" /\ answer = "unknown"
      /\ WriteAbout("rail_in_doubt", 0) /\ rail' = rail /\ mem' = mem
      /\ in_doubt' = asked /\ at' = "idle" /\ asked' = 0 /\ answer' = "none"
      /\ signed' = signed /\ expired' = expired /\ faults' = faults
  BY DEF RecordDoubt, Goto, world
<1>2. "rail_in_doubt" \in Neutral \cap CallKind
  BY DEF Neutral, CallKind
<1>3. /\ ChainFacts' /\ Ledger' = Ledger /\ Intents' = Intents
      /\ Dangling(chain)' = Dangling(chain)
      /\ chain' \in Seq(Entry) /\ Len(chain') = Len(chain) + 1 /\ Len(chain) \in Nat
  BY <1>1, <1>2, WriteNeutralAbout
<1>4. asked \in 1 .. Len(chain) /\ asked # 0
  BY <1>1, AskedIsProposed
<1>5. TypeOK'
  BY <1>1, <1>3, <1>4 DEF TypeOK, IInv
<1>6. ControlSound'
  BY <1>1, <1>3, <1>4 DEF ControlSound, IInv
<1>7. MemorySound'
  BY <1>1, <1>3 DEF MemorySound, IInv
<1>. QED BY <1>3, <1>5, <1>6, <1>7 DEF IInv, ChainFacts

LEMMA NotesSound ==
  ASSUME IInv, Notes
  PROVE  IInv'
<1> DEFINE e == [kind |-> "note"]
<1>1. /\ at = "idle" /\ Write(e) /\ rail' = rail /\ mem' = mem /\ in_doubt' = in_doubt
      /\ at' = at /\ asked' = asked /\ answer' = answer
      /\ signed' = signed /\ expired' = expired /\ faults' = faults
  BY DEF Notes, session, world
<1>2. TypeOK /\ ChainFacts /\ chain \in Seq(Entry)
  BY DEF IInv, TypeOK, ChainFacts
<1>3. e \in Entry /\ e.kind \in Neutral /\ WellPlaced(e)
  BY DEF Entry, OtherEntry, Neutral, WellPlaced, CallKind
<1> HIDE DEF e
<1>4. /\ ChainFacts' /\ Ledger' = Ledger /\ Dangling(chain)' = Dangling(chain)
  BY <1>1, <1>2, <1>3, NeutralAppend
<1>5. chain' \in Seq(Entry) /\ Len(chain') = Len(chain) + 1 /\ Len(chain) \in Nat
  BY <1>1, <1>2, <1>3, Appending
<1>6. TypeOK'
  BY <1>1, <1>2, <1>5 DEF TypeOK
<1>7. ControlSound'
  BY <1>1, <1>4 DEF ControlSound, IInv
<1>8. MemorySound'
  BY <1>1, <1>4 DEF MemorySound, ControlSound, IInv
<1>. QED BY <1>4, <1>6, <1>7, <1>8 DEF IInv, ChainFacts

\* Steps that leave the chain and the rail alone.
LEMMA ResolveSound ==
  ASSUME IInv, Resolve
  PROVE  IInv'
<1>1. /\ at = "idle" /\ in_doubt # 0 /\ at' = "calling" /\ asked' = in_doubt
      /\ chain' = chain /\ rail' = rail /\ mem' = mem /\ in_doubt' = in_doubt
      /\ answer' = answer /\ signed' = signed /\ expired' = expired /\ faults' = faults
  BY DEF Resolve, world
<1>2. TypeOK /\ ChainFacts /\ chain \in Seq(Entry) /\ ChainSound
  BY DEF IInv, TypeOK, ChainFacts
<1>3. ChainFacts' /\ Ledger' = Ledger /\ Dangling(chain)' = Dangling(chain)
  BY <1>1, <1>2, ChainAndRailUnchanged
<1>4. Dangling(chain) = {in_doubt}
  BY <1>1 DEF IInv, ControlSound
<1>5. chain[in_doubt].kind = "proposal"
  BY <1>2, <1>4, IntentsAreProposed
<1>6. answer = "none" /\ mem = Ledger
  BY <1>1, <1>2 DEF IInv, ControlSound, MemorySound, TypeOK
<1>7. TypeOK'
  BY <1>1, <1>2 DEF TypeOK
<1>8. ControlSound'
  BY <1>1, <1>3, <1>4, <1>5, <1>6 DEF ControlSound
<1>9. MemorySound'
  BY <1>1, <1>3, <1>6 DEF MemorySound
<1>. QED BY <1>3, <1>7, <1>8, <1>9 DEF IInv, ChainFacts

LEMMA CrashSound ==
  ASSUME IInv, Crash
  PROVE  IInv'
<1>1. /\ at' = "down" /\ mem' = FreshMemory /\ in_doubt' = 0 /\ asked' = 0
      /\ answer' = "none" /\ faults < MaxFaults /\ faults' = faults + 1
      /\ chain' = chain /\ rail' = rail /\ signed' = signed /\ expired' = expired
  BY DEF Crash
<1>2. TypeOK /\ ChainFacts
  BY DEF IInv, ChainFacts
<1>3. ChainFacts'
  BY <1>1, <1>2, ChainAndRailUnchanged
<1>4. TypeOK'
  <2>1. mem' \in Memory
    BY <1>1, FreshIsCaughtUp
  <2>2. faults' \in 0 .. MaxFaults
    BY <1>1, <1>2 DEF TypeOK
  <2>3. chain' \in Seq(Entry) /\ Len(chain') \in Nat
    BY <1>1, <1>2 DEF TypeOK
  <2>. QED BY <1>1, <1>2, <2>1, <2>2, <2>3 DEF TypeOK
<1>5. ControlSound'
  BY <1>1 DEF ControlSound
<1>6. MemorySound'
  BY <1>1 DEF MemorySound
<1>. QED BY <1>3, <1>4, <1>5, <1>6 DEF IInv, ChainFacts

\* The call a restart declares in doubt is the one intent without an outcome.
LEMMA InDoubtAfterRestart ==
  ASSUME chain \in Seq(Entry), ChainSound
  PROVE  /\ InDoubtAfter(chain) \in 0 .. Len(chain)
         /\ Dangling(chain) = IF InDoubtAfter(chain) = 0 THEN {} ELSE {InDoubtAfter(chain)}
<1>1. CASE Dangling(chain) = {}
  BY <1>1 DEF InDoubtAfter
<1>2. CASE Dangling(chain) # {}
  <2>1. PICK p : p \in Dangling(chain)
    BY <1>2
  <2>2. p \in 1 .. Len(chain)
    BY <2>1, IntentsAreProposed
  <2>3. \A q \in Dangling(chain) : q = p
    BY <2>1 DEF ChainSound
  <2>4. \A q \in Dangling(chain) : q <= p
    BY <2>2, <2>3
  <2>5. InDoubtAfter(chain) \in Dangling(chain)
    BY <1>2, <2>1, <2>4 DEF InDoubtAfter
  <2>6. InDoubtAfter(chain) = p
    BY <2>3, <2>5
  <2>7. Dangling(chain) = {p}
    BY <2>1, <2>3
  <2>8. p # 0 /\ p \in 0 .. Len(chain)
    BY <2>2
  <2>. QED BY <2>6, <2>7, <2>8
<1>. QED BY <1>1, <1>2

LEMMA RestartSound ==
  ASSUME IInv, Restart
  PROVE  IInv'
<1>1. /\ at = "down" /\ at' = "idle" /\ mem' = Ledger /\ in_doubt' = InDoubtAfter(chain)
      /\ chain' = chain /\ rail' = rail /\ asked' = asked /\ answer' = answer
      /\ signed' = signed /\ expired' = expired /\ faults' = faults
  BY DEF Restart, Ledger, world
<1>2. TypeOK /\ ChainFacts /\ chain \in Seq(Entry) /\ ChainSound /\ Ledger \in Memory
  BY DEF IInv, TypeOK, ChainFacts, LedgerSound
<1>3. ChainFacts' /\ Ledger' = Ledger /\ Dangling(chain)' = Dangling(chain)
  BY <1>1, <1>2, ChainAndRailUnchanged
<1>4. asked = 0 /\ answer = "none"
  BY <1>1, <1>2 DEF IInv, ControlSound, TypeOK
<1>5. TypeOK'
  BY <1>1, <1>2, InDoubtAfterRestart DEF TypeOK
<1>6. ControlSound'
  BY <1>1, <1>2, <1>3, <1>4, InDoubtAfterRestart DEF ControlSound
<1>7. MemorySound'
  BY <1>1, <1>3, <1>4 DEF MemorySound
<1>. QED BY <1>3, <1>5, <1>6, <1>7 DEF IInv, ChainFacts

\* HumanSigns, Expire and stuttering: only the world's say changes.
LEMMA WorldSound ==
  ASSUME IInv, chain' = chain, rail' = rail, UNCHANGED session,
         signed' \subseteq Consent, expired' \in BOOLEAN, faults' = faults
  PROVE  IInv'
<1>1. /\ mem' = mem /\ in_doubt' = in_doubt /\ at' = at /\ asked' = asked
      /\ answer' = answer
  BY DEF session
<1>2. TypeOK /\ ChainFacts
  BY DEF IInv, ChainFacts
<1>3. /\ ChainFacts' /\ Ledger' = Ledger /\ Intents' = Intents
      /\ Dangling(chain)' = Dangling(chain) /\ KeysSeen' = KeysSeen
  BY <1>2, ChainAndRailUnchanged
<1>4. TypeOK'
  BY <1>1, <1>2 DEF TypeOK
<1>5. ControlSound'
  BY <1>1, <1>3 DEF IInv, ControlSound
<1>6. MemorySound'
  BY <1>1, <1>3 DEF IInv, MemorySound
<1>. QED BY <1>3, <1>4, <1>5, <1>6 DEF IInv, ChainFacts

LEMMA HumanSignsSound ==
  ASSUME IInv, NEW to \in CapChoices, HumanSigns(to)
  PROVE  IInv'
<1>1. mem.env \in Caps /\ to \in Caps
  BY DEF IInv, TypeOK, Memory
<1>2. [from |-> mem.env, to |-> to] \in Consent
  BY <1>1 DEF Consent
<1>3. signed \subseteq Consent /\ expired \in BOOLEAN
  BY DEF IInv, TypeOK
<1>. QED BY <1>2, <1>3, WorldSound DEF HumanSigns

LEMMA ExpireSound ==
  ASSUME IInv, Expire
  PROVE  IInv'
BY WorldSound DEF Expire, IInv, TypeOK

LEMMA StutterSound ==
  ASSUME IInv, UNCHANGED vars
  PROVE  IInv'
BY WorldSound DEF vars, world, IInv, TypeOK

LEMMA CustomerRevokesSound ==
  ASSUME IInv, NEW n \in DOMAIN rail.blocks, CustomerRevokes(n)
  PROVE  IInv'
<1>1. /\ Revocable /\ IsLive(rail.blocks[n]) /\ rail' = Revoked(rail, n)
      /\ chain' = chain
      /\ mem' = mem /\ in_doubt' = in_doubt /\ at' = at /\ asked' = asked
      /\ answer' = answer /\ signed' = signed /\ expired' = expired /\ faults' = faults
  BY DEF CustomerRevokes, session, world
<1>2. TypeOK /\ ChainFacts /\ chain \in Seq(Entry) /\ ChainSound
      /\ rail \in Rail /\ BlocksSound(rail) /\ Ledger \in Memory
  BY DEF IInv, TypeOK, ChainFacts, RailSound, LedgerSound
<1>3. /\ rail' \in Rail /\ BlocksSound(rail') /\ rail'.seen = rail.seen
      /\ DOMAIN rail'.blocks = DOMAIN rail.blocks
      /\ Len(rail'.blocks) = Len(rail.blocks)
      /\ \A m \in Memory : CaughtUp(rail, m) => CaughtUp(rail', m)
  BY <1>1, <1>2, RevokingKeepsUp
<1>4. /\ Ledger' = Ledger /\ Intents' = Intents
      /\ Dangling(chain)' = Dangling(chain) /\ Settled(chain)' = Settled(chain)
      /\ Applied' = Applied /\ KeysSeen' = KeysSeen /\ Blocks' = Blocks
  BY <1>1, <1>3 DEF Ledger, Intents, Applied, KeysSeen, Blocks
<1>5. ChainSound'
  BY <1>1, <1>2, <1>4 DEF ChainSound
<1>6. RailSound'
  BY <1>1, <1>3, <1>4 DEF RailSound, IInv
<1>7. LedgerSound'
  <2>1. ASSUME NEW s \in rail.seen, s.key \in Dangling(chain)
        PROVE  Booked(Ledger, s.request.call, s.block) \in Memory
    <3>1. s.request.call \in Call /\ s.block \in Nat
      BY <1>2 DEF Rail, Seen, Request
    <3>2. s.key \in Intents /\ s.request.call = chain[s.key].call
      BY <2>1 DEF IInv, RailSound
    <3>3. s.request.call.amount > 0
      BY <1>2, <3>2, IntentsAreProposed
    <3>. QED BY <1>2, <3>1, <3>3, BookedIsMemory
  <2>2. /\ Dangling(chain)' \cap KeysSeen' = {} => CaughtUp(rail', Ledger')
        /\ Ledger'.block \in 0 .. Len(rail'.blocks)
    BY <1>2, <1>3, <1>4 DEF IInv, LedgerSound
  <2>3. ASSUME NEW s \in rail'.seen, s.key \in Dangling(chain)'
        PROVE  /\ CaughtUp(rail', Booked(Ledger', s.request.call, s.block))
               /\ WithinCap(Booked(Ledger', s.request.call, s.block))
    BY <1>3, <1>4, <2>1, <2>3 DEF IInv, LedgerSound
  <2>4. \A q \in Dangling(chain)' \ KeysSeen' : WithinGrant(chain'[q].call, Ledger')
    BY <1>1, <1>4 DEF IInv, LedgerSound
  <2>5. Ledger' \in Memory /\ WithinCap(Ledger')
    BY <1>4 DEF IInv, LedgerSound
  <2>. QED BY <2>2, <2>3, <2>4, <2>5 DEF LedgerSound
<1>8. TypeOK'
  BY <1>1, <1>2, <1>3 DEF TypeOK
<1>9. ControlSound'
  BY <1>1, <1>4 DEF IInv, ControlSound
<1>10. MemorySound'
  BY <1>1, <1>3, <1>4 DEF IInv, MemorySound
<1>. QED BY <1>5, <1>6, <1>7, <1>8, <1>9, <1>10 DEF IInv

\* ApproveRaise: the one entry that moves the caps.
LEMMA ApproveRaiseSound ==
  ASSUME IInv, NEW consent \in signed, ApproveRaise(consent)
  PROVE  IInv'
<1> DEFINE e == [kind |-> "widened", from |-> consent.from, to |-> consent.to]
<1>1. /\ at = "idle" /\ Widens(consent) /\ Write(e) /\ mem' = [mem EXCEPT !.env = consent.to]
      /\ rail' = rail /\ in_doubt' = in_doubt /\ at' = at /\ asked' = asked
      /\ answer' = answer /\ signed' = signed /\ expired' = expired /\ faults' = faults
  BY DEF ApproveRaise, world
<1>2. /\ TypeOK /\ chain \in Seq(Entry) /\ ChainSound /\ RailSound /\ LedgerSound
      /\ mem = Ledger /\ Ledger \in Memory /\ answer = "none"
  BY <1>1 DEF IInv, TypeOK, LedgerSound, MemorySound, ControlSound
<1>3. consent.from \in Caps /\ consent.to \in Caps
  BY DEF IInv, TypeOK, Consent
<1>4. e \in Entry /\ e.kind = "widened" /\ e.to = consent.to
  BY <1>3 DEF Entry, WideningEntry
<1> HIDE DEF e
<1>5. /\ chain' \in Seq(Entry)
      /\ Len(chain) \in Nat /\ Len(chain') = Len(chain) + 1
      /\ DOMAIN chain = 1 .. Len(chain)
      /\ DOMAIN chain' = DOMAIN chain \cup {Len(chain) + 1}
      /\ chain'[Len(chain) + 1] = e
      /\ \A i \in DOMAIN chain : chain'[i] = chain[i]
  BY <1>1, <1>2, <1>4, Appending
<1>6. /\ Ledger' = Reread(Ledger, e)
      /\ Intents' = Intents /\ Settled(chain)' = Settled(chain) /\ Applied' = Applied
  BY <1>1, <1>2, <1>4, Appending DEF Outcome
<1>7. Dangling(chain)' = Dangling(chain) /\ KeysSeen' = KeysSeen /\ Blocks' = Blocks
  BY <1>1, <1>6 DEF Dangling, Intents, KeysSeen, Blocks
<1>8. Ledger' = [Ledger EXCEPT !.env = consent.to]
  BY <1>4, <1>6 DEF Reread
<1>9. /\ Ledger' \in Memory /\ Ledger'.block = Ledger.block
      /\ Available(Ledger') = Available(Ledger) /\ Committed(Ledger') = Committed(Ledger)
      /\ Ledger'.debited = Ledger.debited
      /\ Ledger'.env = consent.to
      /\ consent.to.max_total >= Ledger.env.max_total
      /\ consent.to.max_total \in Nat /\ Ledger.env.max_total \in Nat
      /\ Committed(Ledger) \in Int
  <2>1. Ledger' \in Memory
    BY <1>2, <1>3, <1>8 DEF Memory
  <2>2. /\ Ledger'.block = Ledger.block /\ Ledger'.blocked = Ledger.blocked
        /\ Ledger'.debited = Ledger.debited /\ Ledger'.released = Ledger.released
        /\ Ledger'.env = consent.to
    BY <1>2, <1>8 DEF Memory
  <2>3. Available(Ledger') = Available(Ledger) /\ Committed(Ledger') = Committed(Ledger)
    BY <2>2 DEF Available, Committed
  <2>4. /\ consent.to.max_total >= Ledger.env.max_total
        /\ consent.to.max_total \in Nat /\ Ledger.env.max_total \in Nat
    BY <1>1, <1>2, <1>3 DEF Widens, Memory, Caps
  <2>5. Committed(Ledger) \in Int
    BY <1>2 DEF Committed, Available, Memory
  <2>. QED BY <2>1, <2>2, <2>3, <2>4, <2>5
<1>10. \A p \in Intents : chain'[p] = chain[p]
  BY <1>2, <1>5, IntentsAreProposed
<1>11. ChainSound'
  <2>1. \A i \in DOMAIN chain' : chain'[i].kind \in CallKind => i \in DOMAIN chain
    BY <1>4, <1>5 DEF CallKind
  <2>2. CallKind \cap Outcome = Outcome
    BY DEF CallKind, Outcome
  <2>3. \A i \in DOMAIN chain' : chain'[i].kind \in CallKind =>
          /\ chain'[i].prop \in DOMAIN chain'
          /\ chain'[chain'[i].prop].kind = "proposal"
          /\ chain'[chain'[i].prop].call = chain'[i].call
    BY <1>2, <1>5, <2>1 DEF ChainSound
  <2>4. \A i, j \in DOMAIN chain' :
          chain'[i].kind \in Outcome /\ chain'[j].kind \in Outcome
            /\ chain'[i].prop = chain'[j].prop => i = j
    BY <1>2, <1>5, <2>1, <2>2 DEF ChainSound
  <2>. QED BY <1>2, <1>6, <1>7, <1>10, <2>3, <2>4 DEF ChainSound
<1>12. RailSound'
  BY <1>1, <1>2, <1>6, <1>7, <1>9, <1>10 DEF RailSound
<1>13. LedgerSound'
  <2>1. CaughtUp(rail, Ledger) => CaughtUp(rail, Ledger')
    BY <1>9 DEF CaughtUp
  <2>2. WithinCap(Ledger')
    BY <1>2, <1>9 DEF LedgerSound, WithinCap
  <2>3. ASSUME NEW call \in Call, WithinGrant(call, Ledger)
        PROVE  WithinGrant(call, Ledger')
    BY <1>9, <2>3 DEF WithinGrant, Call
  <2>4. \A p \in Dangling(chain)' \ KeysSeen' : WithinGrant(chain'[p].call, Ledger')
    BY <1>2, <1>7, <1>10, <2>3, IntentsAreProposed DEF LedgerSound
  <2>5. ASSUME NEW s \in rail'.seen, s.key \in Dangling(chain)'
        PROVE  LET m == Booked(Ledger', s.request.call, s.block)
               IN  CaughtUp(rail', m) /\ WithinCap(m)
    <3> DEFINE c == s.request.call
               m == Booked(Ledger, c, s.block)
               m2 == Booked(Ledger', c, s.block)
    <3>1. s \in rail.seen /\ s.key \in Dangling(chain)
      BY <1>1, <1>7, <2>5
    <3>2. CaughtUp(rail, m) /\ WithinCap(m)
      BY <1>2, <3>1 DEF LedgerSound
    <3>3. c \in Call /\ c.amount > 0 /\ s.block \in Nat
      <4>1. s \in Seen
        BY <1>2, <3>1 DEF TypeOK, Rail
      <4>2. c = chain[s.key].call /\ s.key \in Intents
        BY <1>2, <3>1 DEF RailSound
      <4>. QED BY <1>2, <4>1, <4>2, IntentsAreProposed DEF Seen, Request
    <3>4. /\ Available(m2) = Available(m) /\ Committed(m2) = Committed(m)
          /\ m2.block = m.block /\ m2.debited = m.debited
          /\ m2.env = consent.to /\ m.env = Ledger.env
          /\ Committed(m) \in Int
      <4>1. c.amount \in Int
        BY <3>3 DEF Call
      <4> HIDE DEF c
      <4>2. CASE c.action = "reserve"
        <5>1. /\ Available(m) = Available(Ledger) + c.amount
              /\ Committed(m) = Committed(Ledger) + c.amount
              /\ m.debited = Ledger.debited
              /\ m.block = s.block /\ m.env = Ledger.env
          BY <3>3, <4>2, <1>2, BookedReserve
        <5>2. /\ Available(m2) = Available(Ledger') + c.amount
              /\ Committed(m2) = Committed(Ledger') + c.amount
              /\ m2.debited = Ledger'.debited
              /\ m2.block = s.block /\ m2.env = Ledger'.env
          BY <3>3, <4>2, <1>9, BookedReserve
        <5> HIDE DEF m, m2
        <5>. QED BY <4>1, <5>1, <5>2, <1>9
      <4>3. CASE c.action = "debit"
        <5>1. /\ Available(m) = Available(Ledger) - c.amount
              /\ Committed(m) = Committed(Ledger)
              /\ m.debited = Ledger.debited + c.amount
              /\ m.block = Ledger.block /\ m.env = Ledger.env
          BY <3>3, <4>3, <1>2, BookedDebit
        <5>2. /\ Available(m2) = Available(Ledger') - c.amount
              /\ Committed(m2) = Committed(Ledger')
              /\ m2.debited = Ledger'.debited + c.amount
              /\ m2.block = Ledger'.block /\ m2.env = Ledger'.env
          BY <3>3, <4>3, <1>9, BookedDebit
        <5> HIDE DEF m, m2
        <5>. QED BY <4>1, <5>1, <5>2, <1>9
      <4>4. CASE c.action = "release"
        <5>1. /\ Available(m) = Available(Ledger) - c.amount
              /\ Committed(m) = Committed(Ledger) - c.amount
              /\ m.debited = Ledger.debited
              /\ m.block = Ledger.block /\ m.env = Ledger.env
          BY <3>3, <4>4, <1>2, BookedRelease
        <5>2. /\ Available(m2) = Available(Ledger') - c.amount
              /\ Committed(m2) = Committed(Ledger') - c.amount
              /\ m2.debited = Ledger'.debited
              /\ m2.block = Ledger'.block /\ m2.env = Ledger'.env
          BY <3>3, <4>4, <1>9, BookedRelease
        <5> HIDE DEF m, m2
        <5>. QED BY <4>1, <5>1, <5>2, <1>9
      <4>. QED BY <3>3, <4>2, <4>3, <4>4 DEF Call, Action
    <3> HIDE DEF m, m2
    <3>5. CaughtUp(rail, m2)
      BY <3>2, <3>4 DEF CaughtUp
    <3>6. WithinCap(m2)
      BY <1>9, <3>2, <3>4 DEF WithinCap
    <3>. QED BY <1>1, <3>5, <3>6 DEF m2
  <2>6. /\ Dangling(chain)' \cap KeysSeen' = {} => CaughtUp(rail', Ledger')
        /\ Ledger'.block \in 0 .. Len(rail'.blocks)
    BY <1>1, <1>2, <1>7, <1>9, <2>1 DEF LedgerSound
  <2>. QED BY <1>9, <2>2, <2>4, <2>5, <2>6 DEF LedgerSound
<1>14. TypeOK'
  BY <1>1, <1>2, <1>5, <1>8, <1>9 DEF TypeOK
<1>15. ControlSound'
  BY <1>1, <1>7 DEF IInv, ControlSound
<1>16. MemorySound'
  BY <1>1, <1>2, <1>8 DEF MemorySound
<1>. QED BY <1>11, <1>12, <1>13, <1>14, <1>15, <1>16 DEF IInv

\* WriteIntent: the proposal in hand becomes the one intent without an outcome.
LEMMA WriteIntentSound ==
  ASSUME IInv, WriteIntent
  PROVE  IInv'
<1> DEFINE e == About("rail_intent", asked, chain[asked].call, 0)
<1>1. /\ at = "intending" /\ Write(e) /\ rail' = rail /\ mem' = mem
      /\ in_doubt' = in_doubt /\ at' = "calling" /\ asked' = asked /\ answer' = "none"
      /\ signed' = signed /\ expired' = expired /\ faults' = faults
  BY DEF WriteIntent, WriteAbout, Goto, world
<1>2. /\ TypeOK /\ chain \in Seq(Entry) /\ ChainSound /\ RailSound /\ LedgerSound
      /\ in_doubt = 0 /\ Dangling(chain) = {} /\ asked \notin Intents
      /\ chain[asked].call.amount > 0 /\ WithinGrant(chain[asked].call, Ledger)
      /\ mem = Ledger
  BY <1>1 DEF IInv, TypeOK, ControlSound, MemorySound
<1>3. /\ asked \in DOMAIN chain /\ asked \in Nat
      /\ chain[asked].kind = "proposal" /\ chain[asked].call \in Call
  BY <1>1, AskedIsProposed
<1>4. /\ e \in Entry /\ e.kind = "rail_intent" /\ e.prop = asked
      /\ e.call = chain[asked].call
  BY <1>3, AboutIsEntry DEF CallKind
<1> HIDE DEF e
<1>5. /\ chain' \in Seq(Entry)
      /\ Len(chain) \in Nat /\ Len(chain') = Len(chain) + 1
      /\ DOMAIN chain = 1 .. Len(chain)
      /\ DOMAIN chain' = DOMAIN chain \cup {Len(chain) + 1}
      /\ chain'[Len(chain) + 1] = e
      /\ \A i \in DOMAIN chain : chain'[i] = chain[i]
  BY <1>1, <1>2, <1>4, Appending
<1>6. /\ Ledger' = Reread(Ledger, e)
      /\ Intents' = Intents \cup {asked} /\ Settled(chain)' = Settled(chain)
      /\ Applied' = Applied
  BY <1>1, <1>2, <1>4, Appending DEF Outcome
<1>7. Ledger' = Ledger
  BY <1>4, <1>6 DEF Reread
<1>8. asked \notin Settled(chain) /\ asked \notin KeysSeen
  BY <1>2, IntentsAreProposed DEF RailSound, KeysSeen
<1>9. Dangling(chain)' = {asked}
  <2>1. Dangling(chain)' = Intents' \ Settled(chain)'
    BY DEF Dangling, Intents
  <2>. QED BY <1>2, <1>6, <1>8, <2>1, IntentsAreProposed
<1>10. KeysSeen' = KeysSeen /\ Blocks' = Blocks
  BY <1>1 DEF KeysSeen, Blocks
<1>11. \A p \in Intents \cup {asked} : chain'[p] = chain[p]
  BY <1>2, <1>3, <1>5, IntentsAreProposed
<1>12. ChainSound'
  <2>1. ASSUME NEW i \in DOMAIN chain', chain'[i].kind \in CallKind
        PROVE  /\ chain'[i].prop \in DOMAIN chain'
               /\ chain'[chain'[i].prop].kind = "proposal"
               /\ chain'[chain'[i].prop].call = chain'[i].call
    <3>1. CASE i \in DOMAIN chain
      BY <3>1, <2>1, <1>2, <1>5 DEF ChainSound
    <3>2. CASE i = Len(chain) + 1
      BY <3>2, <1>3, <1>4, <1>5
    <3>. QED BY <3>1, <3>2, <1>5
  <2>2. \A p \in Intents' : chain'[p].call.amount > 0
    BY <1>2, <1>6, <1>11 DEF ChainSound
  <2>3. /\ Settled(chain)' \subseteq Intents'
        /\ \A p, q \in Dangling(chain)' : p = q
    BY <1>2, <1>6, <1>9 DEF ChainSound
  <2>4. ASSUME NEW i \in DOMAIN chain', NEW j \in DOMAIN chain',
               chain'[i].kind \in Outcome, chain'[j].kind \in Outcome,
               chain'[i].prop = chain'[j].prop
        PROVE  i = j
    <3>1. i \in DOMAIN chain /\ j \in DOMAIN chain
      BY <1>4, <1>5, <2>4 DEF Outcome
    <3>. QED BY <3>1, <2>4, <1>2, <1>5 DEF ChainSound
  <2>. QED BY <2>1, <2>2, <2>3, <2>4 DEF ChainSound
<1>13. RailSound'
  <2>1. \A s \in rail.seen : s.key # asked
    BY <1>8 DEF KeysSeen
  <2>2. KeysSeen' \subseteq Applied' \cup Dangling(chain)'
    BY <1>2, <1>6, <1>10 DEF RailSound
  <2>. QED BY <1>1, <1>2, <1>6, <1>9, <1>10, <1>11, <2>1, <2>2 DEF RailSound
<1>14. LedgerSound'
  <2>1. \A s \in rail.seen : s.key # asked
    BY <1>8 DEF KeysSeen
  <2>. QED BY <1>1, <1>2, <1>7, <1>9, <1>10, <1>11, <2>1 DEF LedgerSound
<1>15. TypeOK'
  BY <1>1, <1>2, <1>5 DEF TypeOK
<1>16. ControlSound'
  BY <1>1, <1>2, <1>3, <1>5, <1>9 DEF ControlSound
<1>17. MemorySound'
  BY <1>1, <1>2, <1>7 DEF MemorySound
<1>. QED BY <1>12, <1>13, <1>14, <1>15, <1>16, <1>17 DEF IInv

(***************************************************************************)
(* The rail's answers.                                                     *)
(***************************************************************************)
\* What is known while a call is out.
LEMMA CallingFacts ==
  ASSUME IInv, at = "calling"
  PROVE  /\ mem = Ledger /\ Ledger \in Memory /\ Dangling(chain) = {asked}
         /\ RequestInHand \in Request
         /\ RequestInHand.call = chain[asked].call
         /\ RequestInHand.ref = IF chain[asked].call.action = "reserve"
                                  THEN 0 ELSE Ledger.block
         /\ chain[asked].call \in Call /\ chain[asked].call.amount > 0
         /\ asked \in Nat /\ asked \in Intents
<1>1. mem = Ledger /\ Dangling(chain) = {asked}
  BY DEF IInv, MemorySound, ControlSound
<1>2. Ledger \in Memory /\ chain \in Seq(Entry) /\ ChainSound
  BY DEF IInv, LedgerSound, TypeOK
<1>3. asked \in Nat /\ chain[asked].call \in Call
  BY AskedIsProposed
<1>4. asked \in Intents /\ chain[asked].call.amount > 0
  BY <1>1, <1>2, IntentsAreProposed
<1>5. Ledger.block \in Nat
  BY <1>2 DEF Memory
<1>6. /\ RequestInHand \in Request
      /\ RequestInHand.call = chain[asked].call
      /\ RequestInHand.ref = IF chain[asked].call.action = "reserve"
                               THEN 0 ELSE Ledger.block
  BY <1>1, <1>3, <1>5 DEF RequestInHand, Request
<1>. QED BY <1>1, <1>2, <1>3, <1>4, <1>6

\* The rail acts on the call in hand, for the first time.
LEMMA RailActed ==
  ASSUME IInv, at = "calling", chain' = chain,
         ~KeyUsed(rail, asked), Accepts(rail, RequestInHand),
         rail' = Acted(rail, asked, RequestInHand)
  PROVE  /\ ChainFacts' /\ rail' \in Rail
         /\ Ledger' = Ledger /\ Dangling(chain)' = Dangling(chain)
         /\ Intents' = Intents
         /\ \E s \in rail'.seen : s.key = asked /\ s.block = ActedOn(rail, RequestInHand)
         /\ Booked(Ledger, chain[asked].call, ActedOn(rail, RequestInHand)) \in Memory
         /\ MovesWhatItSays(rail, rail', chain[asked].call)
<1> DEFINE r == RequestInHand
           b == ActedOn(rail, r)
           m == Booked(Ledger, r.call, b)
           new == [key |-> asked, request |-> r, block |-> b]
<1>1. /\ mem = Ledger /\ Ledger \in Memory /\ Dangling(chain) = {asked}
      /\ r \in Request /\ r.call = chain[asked].call
      /\ r.ref = IF r.call.action = "reserve" THEN 0 ELSE Ledger.block
      /\ r.call \in Call /\ r.call.amount > 0 /\ asked \in Nat /\ asked \in Intents
  BY CallingFacts
<1>2. ChainSound /\ RailSound /\ LedgerSound /\ TypeOK /\ rail \in Rail
  BY DEF IInv, TypeOK
<1>3. asked \notin KeysSeen /\ \A s \in rail.seen : s.key # asked
  BY DEF KeyUsed, KeysSeen
<1>4. /\ BlocksSound(rail) /\ CaughtUp(rail, Ledger) /\ WithinCap(Ledger)
      /\ Ledger.block \in 0 .. Len(rail.blocks) /\ WithinGrant(r.call, Ledger)
  BY <1>1, <1>2, <1>3 DEF RailSound, LedgerSound
<1> HIDE DEF r
<1>5. /\ rail' \in Rail /\ BlocksSound(rail')
      /\ CaughtUp(rail', m) /\ WithinCap(m)
      /\ b \in DOMAIN rail'.blocks
      /\ Len(rail.blocks) <= Len(rail'.blocks)
      /\ MovesWhatItSays(rail, rail', r.call)
  BY <1>1, <1>2, <1>4, ActingKeepsUp DEF r
<1>6. rail'.seen = rail.seen \cup {new}
  BY DEF Acted, r
<1>7. rail.blocks \in Seq(BlockRef) /\ rail'.blocks \in Seq(BlockRef)
  BY <1>2, <1>5 DEF Rail
<1>8. b \in Nat /\ DOMAIN rail.blocks \subseteq DOMAIN rail'.blocks
  BY <1>5, <1>7
<1> HIDE DEF b
<1>9. /\ Ledger' = Ledger /\ Intents' = Intents /\ Applied' = Applied
      /\ Dangling(chain)' = Dangling(chain) /\ Settled(chain)' = Settled(chain)
  BY DEF Ledger, Intents, Applied
<1>10. new.key = asked /\ new.request = r /\ new.block = b
  OBVIOUS
<1> HIDE DEF new, m
<1>11. KeysSeen' = KeysSeen \cup {asked}
  BY <1>6, <1>10 DEF KeysSeen
<1>12. ChainSound'
  BY <1>2, <1>9 DEF ChainSound
<1>13. RailSound'
  <2>1. \A s, t \in rail'.seen : s.key = t.key => s = t
    BY <1>2, <1>3, <1>6, <1>10 DEF RailSound
  <2>2. ASSUME NEW s \in rail'.seen
        PROVE  /\ s.key \in Intents'
               /\ s.request.call = chain'[s.key].call
               /\ s.block \in Blocks'
               /\ s.key \in Dangling(chain)' =>
                    s.request.ref = IF s.request.call.action = "reserve"
                                      THEN 0 ELSE Ledger'.block
    <3>1. CASE s \in rail.seen
      BY <3>1, <1>2, <1>8, <1>9 DEF RailSound, Blocks
    <3>2. CASE s = new
      BY <3>2, <1>1, <1>5, <1>9, <1>10 DEF Blocks
    <3>. QED BY <1>6, <3>1, <3>2
  <2>3. Applied' \subseteq KeysSeen' /\ KeysSeen' \subseteq Applied' \cup Dangling(chain)'
    BY <1>1, <1>2, <1>9, <1>11 DEF RailSound
  <2>. QED BY <1>5, <2>1, <2>2, <2>3 DEF RailSound
<1>14. LedgerSound'
  <2>1. Ledger'.block \in 0 .. Len(rail'.blocks)
    BY <1>4, <1>5, <1>7, <1>9
  <2>2. ~(Dangling(chain)' \cap KeysSeen' = {}) /\ Dangling(chain)' \ KeysSeen' = {}
    BY <1>1, <1>9, <1>11
  <2>3. ASSUME NEW s \in rail'.seen, s.key \in Dangling(chain)'
        PROVE  /\ CaughtUp(rail', Booked(Ledger', s.request.call, s.block))
               /\ WithinCap(Booked(Ledger', s.request.call, s.block))
    <3>1. s = new
      BY <1>1, <1>3, <1>6, <1>9, <2>3
    <3>. QED BY <1>5, <1>9, <1>10, <3>1 DEF m
  <2>. QED BY <1>2, <1>4, <1>9, <2>1, <2>2, <2>3 DEF LedgerSound
<1>15. m \in Memory
  BY <1>1, <1>8, BookedIsMemory DEF m
<1>. QED BY <1>1, <1>5, <1>6, <1>9, <1>10, <1>12, <1>13, <1>14, <1>15
         DEF ChainFacts, m, r, b

\* The block a booking is told of matters only to a reserve.
LEMMA BookedBlock ==
  ASSUME NEW m \in Memory, NEW call \in Call, call.amount > 0,
         NEW b \in Nat, NEW c \in Nat, call.action = "reserve" => b = c
  PROVE  /\ Booked(m, call, b) = Booked(m, call, c)
         /\ call.action = "reserve" => Booked(m, call, b).block = b
<1>1. CASE call.action = "reserve"
  BY <1>1, BookedReserve
<1>2. CASE call.action = "debit"
  BY <1>2 DEF Booked
<1>3. CASE call.action = "release"
  BY <1>3 DEF Booked
<1>. QED BY <1>1, <1>2, <1>3 DEF Call, Action

\* The session has heard from the rail that the call is applied.
LEMMA HearsApplied ==
  ASSUME IInv, at = "calling", chain' = chain, ChainFacts', rail' \in Rail,
         Ledger' = Ledger, Dangling(chain)' = Dangling(chain),
         NEW b \in Nat, mem' = Booked(mem, chain[asked].call, b),
         \E s \in rail'.seen : s.key = asked /\ s.block = b,
         answer' = "applied", at' = "recording", in_doubt' = in_doubt, asked' = asked,
         UNCHANGED world
  PROVE  IInv'
<1> DEFINE c == chain[asked].call
<1>1. /\ mem = Ledger /\ Ledger \in Memory /\ Dangling(chain) = {asked}
      /\ c \in Call /\ c.amount > 0 /\ asked \in Intents
  BY CallingFacts
<1>2. signed' = signed /\ expired' = expired /\ faults' = faults
  BY DEF world
<1>3. mem' = Booked(Ledger, c, b) /\ mem' \in Memory
  BY <1>1, BookedIsMemory
<1>4. mem'.block \in Nat
  BY <1>3 DEF Memory
<1>5. c.action = "reserve" => mem'.block = b
  BY <1>1, <1>3, BookedBlock
<1>6. mem' = Booked(Ledger, c, mem'.block)
  BY <1>1, <1>3, <1>4, <1>5, BookedBlock
<1>7. TypeOK'
  BY <1>2, <1>3 DEF IInv, TypeOK
<1>8. ControlSound'
  BY <1>1 DEF IInv, ControlSound
<1>9. MemorySound'
  BY <1>5, <1>6 DEF MemorySound
<1>. QED BY <1>7, <1>8, <1>9 DEF IInv, ChainFacts

LEMMA RailActsSound ==
  ASSUME IInv, RailActs
  PROVE  IInv'
<1> DEFINE b == ActedOn(rail, RequestInHand)
<1>1. /\ at = "calling" /\ ~KeyUsed(rail, asked) /\ Accepts(rail, RequestInHand)
      /\ rail' = Acted(rail, asked, RequestInHand)
      /\ mem' = Booked(mem, chain[asked].call, b)
      /\ answer' = "applied" /\ at' = "recording" /\ chain' = chain
      /\ in_doubt' = in_doubt /\ asked' = asked /\ UNCHANGED world
  BY DEF RailActs, Hears
<1>2. /\ ChainFacts' /\ rail' \in Rail
      /\ Ledger' = Ledger /\ Dangling(chain)' = Dangling(chain)
      /\ \E s \in rail'.seen : s.key = asked /\ s.block = b
  BY <1>1, RailActed
<1>3. b \in Nat
  BY <1>2 DEF Rail, Seen
<1> HIDE DEF b
<1>. QED BY <1>1, <1>2, <1>3, HearsApplied

LEMMA RailRepeatsSound ==
  ASSUME IInv, RailRepeats
  PROVE  IInv'
<1>1. PICK s \in FirstResult(rail, asked, RequestInHand) :
        /\ at = "calling" /\ rail' = rail
        /\ mem' = Booked(mem, chain[asked].call, s.block)
        /\ answer' = "applied" /\ at' = "recording" /\ chain' = chain
        /\ in_doubt' = in_doubt /\ asked' = asked /\ UNCHANGED world
  BY DEF RailRepeats, Hears
<1>2. TypeOK /\ ChainFacts /\ rail \in Rail
  BY DEF IInv, ChainFacts, TypeOK
<1>3. ChainFacts' /\ Ledger' = Ledger /\ Dangling(chain)' = Dangling(chain)
  BY <1>1, <1>2, ChainAndRailUnchanged
<1>4. s \in rail'.seen /\ s.key = asked /\ s.block \in Nat
  BY <1>1, <1>2 DEF FirstResult, Rail, Seen
<1>. QED BY <1>1, <1>2, <1>3, <1>4, HearsApplied

\* The session has heard that the call is refused, or nothing at all.
LEMMA HearsNothingApplied ==
  ASSUME IInv, at = "calling", chain' = chain, ChainFacts', rail' \in Rail,
         Ledger' = Ledger, Dangling(chain)' = Dangling(chain), mem' = mem,
         answer' \in {"rail_rejected", "unknown"},
         answer' = "rail_rejected" => asked \notin KeysSeen',
         at' = "recording", in_doubt' = in_doubt, asked' = asked,
         signed' = signed, expired' = expired, faults' \in 0 .. MaxFaults
  PROVE  IInv'
<1>1. mem = Ledger /\ Dangling(chain) = {asked}
  BY CallingFacts
<1>2. TypeOK'
  BY DEF IInv, TypeOK
<1>3. ControlSound'
  BY <1>1 DEF IInv, ControlSound
<1>4. MemorySound'
  BY <1>1 DEF MemorySound
<1>. QED BY <1>2, <1>3, <1>4 DEF IInv, ChainFacts

LEMMA RailRefusesSound ==
  ASSUME IInv, RailRefuses
  PROVE  IInv'
<1>1. /\ at = "calling" /\ rail' = rail /\ mem' = mem /\ chain' = chain
      /\ answer' = "rail_rejected" /\ at' = "recording"
      /\ in_doubt' = in_doubt /\ asked' = asked
      /\ signed' = signed /\ expired' = expired /\ faults' = faults
  BY DEF RailRefuses, Hears, world
<1>2. TypeOK /\ ChainFacts /\ rail \in Rail /\ faults \in 0 .. MaxFaults
  BY DEF IInv, ChainFacts, TypeOK
<1>3. /\ ChainFacts' /\ Ledger' = Ledger /\ Dangling(chain)' = Dangling(chain)
      /\ KeysSeen' = KeysSeen
  BY <1>1, <1>2, ChainAndRailUnchanged
<1>4. ASSUME asked \in KeysSeen PROVE FALSE
  <2>1. PICK s \in rail.seen : s.key = asked
    BY <1>4 DEF KeysSeen
  <2>2. /\ s.request.call = RequestInHand.call
        /\ s.request.ref = RequestInHand.ref
    BY <1>1, <2>1, CallingFacts DEF IInv, RailSound
  <2>3. s.request \in Request /\ RequestInHand \in Request
    BY <1>1, <1>2, CallingFacts DEF Rail, Seen
  <2>4. s.request = RequestInHand
    BY <2>2, <2>3 DEF Request
  <2>5. s \in FirstResult(rail, asked, RequestInHand) /\ KeyUsed(rail, asked)
    BY <2>1, <2>4 DEF FirstResult, KeyUsed
  <2>. QED BY <2>5 DEF RailRefuses
<1>. QED BY <1>1, <1>2, <1>3, <1>4, HearsNothingApplied

LEMMA CallLostSound ==
  ASSUME IInv, CallLost
  PROVE  IInv'
<1>1. /\ at = "calling" /\ mem' = mem /\ chain' = chain
      /\ answer' = "unknown" /\ at' = "recording"
      /\ in_doubt' = in_doubt /\ asked' = asked
      /\ signed' = signed /\ expired' = expired
      /\ faults < MaxFaults /\ faults' = faults + 1
  BY DEF CallLost, Hears
<1>2. TypeOK /\ ChainFacts /\ rail \in Rail
  BY DEF IInv, ChainFacts, TypeOK
<1>3. faults' \in 0 .. MaxFaults
  BY <1>1, <1>2 DEF TypeOK
<1>4. CASE rail' = rail
  <2>1. ChainFacts' /\ Ledger' = Ledger /\ Dangling(chain)' = Dangling(chain)
    BY <1>1, <1>2, <1>4, ChainAndRailUnchanged
  <2>. QED BY <1>1, <1>2, <1>3, <1>4, <2>1, HearsNothingApplied
<1>5. CASE /\ ~KeyUsed(rail, asked) /\ Accepts(rail, RequestInHand)
           /\ rail' = Acted(rail, asked, RequestInHand)
  <2>1. /\ ChainFacts' /\ rail' \in Rail
        /\ Ledger' = Ledger /\ Dangling(chain)' = Dangling(chain)
    BY <1>1, <1>5, RailActed
  <2>. QED BY <1>1, <1>3, <2>1, HearsNothingApplied
<1>. QED BY <1>4, <1>5 DEF CallLost, Hears

\* RecordOutcome: the call in flight gets its outcome, and the ledger a restart
\* would rebuild is the one in memory.
LEMMA RecordOutcomeSound ==
  ASSUME IInv, RecordOutcome
  PROVE  IInv'
<1> DEFINE c == chain[asked].call
           blk == IF answer = "applied" THEN mem.block ELSE 0
           e == About(answer, asked, c, blk)
<1>1. /\ at = "recording" /\ answer \in Outcome /\ Write(e)
      /\ rail' = rail /\ mem' = mem /\ in_doubt' = 0
      /\ at' = "idle" /\ asked' = 0 /\ answer' = "none"
      /\ signed' = signed /\ expired' = expired /\ faults' = faults
  BY DEF RecordOutcome, WriteAbout, Outcome, Goto, world
<1>2. /\ TypeOK /\ chain \in Seq(Entry) /\ ChainSound /\ RailSound /\ LedgerSound
      /\ MemorySound /\ mem \in Memory /\ Dangling(chain) = {asked}
      /\ Ledger \in Memory /\ rail \in Rail
  BY <1>1 DEF IInv, TypeOK, ControlSound, LedgerSound
<1>3. /\ asked \in DOMAIN chain /\ asked \in Nat
      /\ chain[asked].kind = "proposal" /\ c \in Call
  BY <1>1, AskedIsProposed
<1>4. asked \in Intents /\ asked \notin Settled(chain) /\ c.amount > 0
  BY <1>2, IntentsAreProposed
<1>5. blk \in Nat
  BY <1>2 DEF Memory
<1>6. /\ e \in Entry /\ e.kind = answer /\ e.prop = asked /\ e.call = c
      /\ e.block = blk
  BY <1>1, <1>3, <1>5, AboutIsEntry DEF CallKind, Outcome
<1> HIDE DEF e
<1>7. /\ chain' \in Seq(Entry)
      /\ Len(chain) \in Nat /\ Len(chain') = Len(chain) + 1
      /\ DOMAIN chain = 1 .. Len(chain)
      /\ DOMAIN chain' = DOMAIN chain \cup {Len(chain) + 1}
      /\ chain'[Len(chain) + 1] = e
      /\ \A i \in DOMAIN chain : chain'[i] = chain[i]
  BY <1>1, <1>2, <1>6, Appending
<1>8. /\ Ledger' = Reread(Ledger, e)
      /\ Intents' = Intents /\ Settled(chain)' = Settled(chain) \cup {asked}
      /\ Applied' = Applied \cup (IF answer = "applied" THEN {asked} ELSE {})
  BY <1>1, <1>2, <1>6, Appending DEF Outcome
<1>9. Dangling(chain)' = {}
  <2>1. Dangling(chain)' = Intents' \ Settled(chain)'
    BY DEF Dangling, Intents
  <2>. QED BY <1>2, <1>8, <2>1, IntentsAreProposed
<1>10. KeysSeen' = KeysSeen /\ Blocks' = Blocks
  BY <1>1 DEF KeysSeen, Blocks
<1>11. Ledger' = mem
  <2>1. CASE answer = "applied"
    BY <2>1, <1>1, <1>2, <1>6, <1>8 DEF MemorySound, Reread
  <2>2. CASE answer = "rail_rejected"
    BY <2>2, <1>1, <1>2, <1>6, <1>8 DEF MemorySound, Reread
  <2>. QED BY <1>1, <2>1, <2>2 DEF Outcome
<1>12. /\ CaughtUp(rail, mem) /\ WithinCap(mem)
       /\ mem.block \in 0 .. Len(rail.blocks)
  <2>1. CASE answer = "applied"
    <3>1. PICK s \in rail.seen : /\ s.key = asked
                                 /\ c.action = "reserve" => mem.block = s.block
      BY <2>1, <1>2 DEF MemorySound
    <3>2. s.request.call = c /\ s.block \in Blocks /\ s.key \in Dangling(chain)
      BY <1>2, <3>1 DEF RailSound
    <3>3. /\ CaughtUp(rail, Booked(Ledger, c, s.block))
          /\ WithinCap(Booked(Ledger, c, s.block))
      BY <1>2, <3>1, <3>2 DEF LedgerSound
    <3>4. mem.block \in Nat /\ s.block \in 1 .. Len(rail.blocks)
      BY <1>2, <3>2 DEF Memory, Blocks, Rail
    <3>5. mem = Booked(Ledger, c, mem.block)
      BY <2>1, <1>1, <1>2 DEF MemorySound
    <3> HIDE DEF c
    <3>6. mem = Booked(Ledger, c, s.block)
      BY <1>2, <1>3, <1>4, <3>1, <3>4, <3>5, BookedBlock
    <3>7. mem.block \in 0 .. Len(rail.blocks)
      <4>1. CASE c.action = "reserve"
        BY <4>1, <3>1, <3>4
      <4>2. CASE c.action # "reserve"
        <5>1. Ledger \in Memory /\ s.block \in Nat
          BY <1>2, <3>4 DEF Rail
        <5>2. CASE c.action = "debit"
          BY <5>1, <5>2, <1>3, <1>4, <3>6, <1>2, BookedDebit DEF LedgerSound
        <5>3. CASE c.action = "release"
          BY <5>1, <5>3, <1>3, <1>4, <3>6, <1>2, BookedRelease DEF LedgerSound
        <5>4. mem.block \in 0 .. Len(rail.blocks)
          BY <4>2, <5>2, <5>3, <1>3 DEF Call, Action
        <5>. QED BY <5>4
      <4>. QED BY <4>1, <4>2
    <3>. QED BY <3>3, <3>6, <3>7
  <2>2. CASE answer = "rail_rejected"
    <3>1. mem = Ledger /\ asked \notin KeysSeen
      BY <2>2, <1>1, <1>2 DEF MemorySound
    <3>. QED BY <1>2, <3>1 DEF LedgerSound
  <2>. QED BY <1>1, <2>1, <2>2 DEF Outcome
<1>13. \A p \in Intents : chain'[p] = chain[p]
  BY <1>2, <1>7, IntentsAreProposed
<1>14. ChainSound'
  <2>1. ASSUME NEW i \in DOMAIN chain', chain'[i].kind \in CallKind
        PROVE  /\ chain'[i].prop \in DOMAIN chain'
               /\ chain'[chain'[i].prop].kind = "proposal"
               /\ chain'[chain'[i].prop].call = chain'[i].call
    <3>1. CASE i \in DOMAIN chain
      BY <3>1, <2>1, <1>2, <1>7 DEF ChainSound
    <3>2. CASE i = Len(chain) + 1
      BY <3>2, <1>3, <1>6, <1>7
    <3>. QED BY <3>1, <3>2, <1>7
  <2>2. \A p \in Intents' : chain'[p].call.amount > 0
    BY <1>2, <1>8, <1>13 DEF ChainSound
  <2>3. /\ Settled(chain)' \subseteq Intents'
        /\ \A p, q \in Dangling(chain)' : p = q
    BY <1>2, <1>4, <1>8, <1>9 DEF ChainSound
  <2>4. ASSUME NEW i \in DOMAIN chain, chain[i].kind \in Outcome
        PROVE  chain[i].prop # asked
    BY <1>4, <2>4 DEF Settled, PropsOf, Outcome
  <2>5. ASSUME NEW i \in DOMAIN chain', NEW j \in DOMAIN chain',
               chain'[i].kind \in Outcome, chain'[j].kind \in Outcome,
               chain'[i].prop = chain'[j].prop
        PROVE  i = j
    <3>1. CASE i \in DOMAIN chain /\ j \in DOMAIN chain
      BY <3>1, <2>5, <1>2, <1>7 DEF ChainSound
    <3>2. CASE i \in DOMAIN chain /\ j = Len(chain) + 1
      BY <3>2, <2>4, <2>5, <1>6, <1>7
    <3>3. CASE i = Len(chain) + 1 /\ j \in DOMAIN chain
      BY <3>3, <2>4, <2>5, <1>6, <1>7
    <3>4. CASE i = Len(chain) + 1 /\ j = Len(chain) + 1
      BY <3>4
    <3>. QED BY <1>7, <3>1, <3>2, <3>3, <3>4
  <2>. QED BY <2>1, <2>2, <2>3, <2>5 DEF ChainSound
<1>15. RailSound'
  <2>1. CASE answer = "applied"
    <3>1. asked \in KeysSeen
      BY <2>1, <1>2 DEF MemorySound, KeysSeen
    <3>2. Applied' \subseteq KeysSeen' /\ KeysSeen' \subseteq Applied' \cup Dangling(chain)'
      BY <2>1, <1>2, <1>8, <1>10, <3>1 DEF RailSound
    <3>. QED BY <1>1, <1>2, <1>8, <1>9, <1>10, <1>13, <3>2 DEF RailSound
  <2>2. CASE answer = "rail_rejected"
    <3>1. asked \notin KeysSeen
      BY <2>2, <1>2 DEF MemorySound
    <3>2. Applied' \subseteq KeysSeen' /\ KeysSeen' \subseteq Applied' \cup Dangling(chain)'
      BY <2>2, <1>2, <1>8, <1>10, <3>1 DEF RailSound
    <3>. QED BY <1>1, <1>2, <1>8, <1>9, <1>10, <1>13, <3>2 DEF RailSound
  <2>. QED BY <1>1, <2>1, <2>2 DEF Outcome
<1>16. LedgerSound'
  BY <1>1, <1>2, <1>9, <1>11, <1>12 DEF LedgerSound
<1>17. TypeOK'
  BY <1>1, <1>2, <1>7 DEF TypeOK
<1>18. ControlSound'
  BY <1>1, <1>9 DEF ControlSound
<1>19. MemorySound'
  BY <1>1, <1>11 DEF MemorySound
<1>. QED BY <1>14, <1>15, <1>16, <1>17, <1>18, <1>19 DEF IInv

(***************************************************************************)
(* The inductive step.                                                     *)
(***************************************************************************)
LEMMA AgentAsksSound ==
  ASSUME IInv, AgentAsks
  PROVE  IInv'
<1>1. mem.payee \in Payees /\ Available(mem) \in Int
  BY DEF IInv, TypeOK, Memory, Available
<1>2. ASSUME NEW amount \in Amounts, NEW payee \in Payees, AsksReserve(amount, payee)
      PROVE  IInv'
  <2>1. [action |-> "reserve", amount |-> amount, payee |-> payee] \in Call
    BY DEF Call, Action
  <2>. QED BY <1>2, <2>1, AsksSound DEF AsksReserve
<1>3. ASSUME NEW amount \in Amounts, AsksDebit(amount)
      PROVE  IInv'
  <2>1. [action |-> "debit", amount |-> amount, payee |-> mem.payee] \in Call
    BY <1>1 DEF Call, Action
  <2>. QED BY <1>3, <2>1, AsksSound DEF AsksDebit
<1>4. ASSUME NEW amount \in Amounts \cup {Available(mem)}, AsksRelease(amount)
      PROVE  IInv'
  <2>1. [action |-> "release", amount |-> amount, payee |-> mem.payee] \in Call
    BY <1>1 DEF Call, Action
  <2>. QED BY <1>4, <2>1, AsksSound DEF AsksRelease
<1>. QED BY <1>2, <1>3, <1>4 DEF AgentAsks

LEMMA NextSound ==
  ASSUME IInv, [Next]_vars
  PROVE  IInv'
<1>1. CASE AgentAsks
  BY <1>1, AgentAsksSound
<1>2. CASE Works
  BY <1>2, RefuseSound, PermitSound, WriteIntentSound, RailActsSound, RailRepeatsSound,
     RailRefusesSound, CallLostSound, RecordOutcomeSound, RecordDoubtSound
     DEF Works, RailResponds
<1>3. CASE Resolve
  BY <1>3, ResolveSound
<1>4. CASE Restart
  BY <1>4, RestartSound
<1>5. CASE Human
  BY <1>5, HumanSignsSound, ApproveRaiseSound DEF Human
<1>6. CASE Environment
  BY <1>6, CrashSound, NotesSound, ExpireSound, CustomerRevokesSound DEF Environment
<1>7. CASE UNCHANGED vars
  BY <1>7, StutterSound
<1>. QED BY <1>1, <1>2, <1>3, <1>4, <1>5, <1>6, <1>7 DEF Next

\* IInv holds in every reachable state of a session, for all values of its
\* constants.
THEOREM InductiveInvariant == Spec => []IInv
<1>1. Init => IInv
  BY InitSound
<1>2. IInv /\ [Next]_vars => IInv'
  BY NextSound
<1>. QED BY <1>1, <1>2, PTL DEF Spec

(***************************************************************************)
(* The properties.                                                         *)
(***************************************************************************)
\* The session's state is always of its type: the balance at the rail is never
\* negative, no counter of the ledger or of a block leaves the naturals.
THEOREM TypeCorrect == Spec => []TypeOK
<1>1. IInv => TypeOK
  BY DEF IInv
<1>. QED BY <1>1, InductiveInvariant, PTL

LEMMA SingleDangling ==
  ASSUME IInv
  PROVE  Cardinality(Dangling(chain)) <= 1
<1>1. CASE Dangling(chain) = {}
  BY <1>1, FS_EmptySet
<1>2. CASE Dangling(chain) # {}
  <2>1. PICK p : p \in Dangling(chain)
    BY <1>2
  <2>2. Dangling(chain) = {p}
    BY <2>1 DEF IInv, ChainSound
  <2>3. Cardinality({p}) = 1
    BY FS_Singleton
  <2>. QED BY <2>2, <2>3
<1>. QED BY <1>1, <1>2

\* The chain claims no money that did not move, and no money moves that it
\* cannot account for (write-ahead intent, _execute, resolve_in_doubt).
THEOREM EvidenceIsTrue == Spec => []EvidenceMatchesMoney
<1>1. ASSUME IInv PROVE EvidenceMatchesMoney
  <2>1. Applied \subseteq KeysSeen /\ KeysSeen \subseteq Applied \cup Dangling(chain)
    BY <1>1 DEF IInv, RailSound
  <2>2. Cardinality(Dangling(chain)) <= 1
    BY <1>1, SingleDangling
  <2>3. ASSUME NEW i \in DOMAIN chain, NEW j \in DOMAIN chain,
               {chain[i].kind, chain[j].kind} \subseteq {"applied", "rail_rejected"},
               chain[i].prop = chain[j].prop
        PROVE  i = j
    BY <1>1, <2>3 DEF IInv, ChainSound, Outcome
  <2>. QED BY <2>1, <2>2, <2>3 DEF EvidenceMatchesMoney
<1>. QED BY <1>1, InductiveInvariant, PTL

\* A session resumed from its chain knows what the live one knew (_replay).
THEOREM RestartIsFaithful == Spec => []RestartLosesNothing
<1>1. ASSUME IInv PROVE RestartLosesNothing
  <2>1. at = "idle" => mem = Replay(chain)
    BY <1>1 DEF IInv, MemorySound, Ledger
  <2>2. ASSUME at = "idle" PROVE in_doubt = InDoubtAfter(chain)
    <3>1. Dangling(chain) = IF in_doubt = 0 THEN {} ELSE {in_doubt}
      BY <1>1, <2>2 DEF IInv, ControlSound
    <3>2. Dangling(chain) = IF InDoubtAfter(chain) = 0 THEN {} ELSE {InDoubtAfter(chain)}
      BY <1>1, InDoubtAfterRestart DEF IInv, TypeOK
    <3>. QED BY <3>1, <3>2
  <2>. QED BY <2>1, <2>2 DEF RestartLosesNothing
<1>. QED BY <1>1, InductiveInvariant, PTL

\* Spent plus held never exceeds the cap in force, in the ledger (_decide) and
\* at the bank, also while a call is in doubt or the process is down.
THEOREM BudgetIsKept == Spec => []BudgetHolds
<1>1. ASSUME IInv PROVE BudgetHolds
  <2>1. /\ Ledger \in Memory /\ WithinCap(Ledger) /\ RailSound /\ LedgerSound
        /\ rail \in Rail /\ TypeOK /\ chain \in Seq(Entry) /\ ChainSound
    BY <1>1 DEF IInv, LedgerSound, TypeOK
  <2>2. ASSUME NEW s \in rail.seen, s.key \in Dangling(chain)
        PROVE  LET m == Booked(Ledger, s.request.call, s.block)
               IN  /\ CaughtUp(rail, m) /\ WithinCap(m)
                   /\ m \in Memory /\ m.env = Ledger.env
    <3> DEFINE c == s.request.call
    <3>1. s \in Seen
      BY <2>1 DEF Rail
    <3>2. c = chain[s.key].call /\ s.key \in Intents
      BY <2>1 DEF RailSound
    <3>3. c \in Call /\ c.amount > 0 /\ s.block \in Nat
      BY <2>1, <3>1, <3>2, IntentsAreProposed DEF Seen
    <3>4. CaughtUp(rail, Booked(Ledger, c, s.block)) /\ WithinCap(Booked(Ledger, c, s.block))
      BY <2>1, <2>2 DEF LedgerSound
    <3> HIDE DEF c
    <3>5. c.action \in {"reserve", "debit", "release"} /\ Ledger \in Memory
      BY <2>1, <3>3 DEF Call, Action
    <3>6. Booked(Ledger, c, s.block) \in Memory /\ Booked(Ledger, c, s.block).env = Ledger.env
      <4>1. CASE c.action = "reserve"
        BY <3>3, <3>5, <4>1, BookedReserve
      <4>2. CASE c.action = "debit"
        BY <3>3, <3>5, <4>2, BookedDebit
      <4>3. CASE c.action = "release"
        BY <3>3, <3>5, <4>3, BookedRelease
      <4>. QED BY <3>5, <4>1, <4>2, <4>3
    <3>. QED BY <3>4, <3>6 DEF c
  <2>3. Exposure <= Replay(chain).env.max_total
    <3>1. \A m \in Memory : Committed(m) \in Int /\ m.env.max_total \in Int
      BY DEF Memory, Committed, Available, Caps
    <3>2. Exposure \in Int
      <4>1. rail.balance \in Nat
        BY <2>1 DEF Rail
      <4>. QED BY <4>1, CustomerBalanceAssumption DEF Exposure
    <3>3. ASSUME NEW m \in Memory, CaughtUp(rail, m), WithinCap(m)
          PROVE  Exposure <= m.env.max_total
      BY <3>1, <3>2, <3>3 DEF CaughtUp, WithinCap, Exposure
    <3>4. CASE Dangling(chain) \cap KeysSeen = {}
      BY <2>1, <3>3, <3>4 DEF LedgerSound, Ledger
    <3>5. CASE Dangling(chain) \cap KeysSeen # {}
      <4>1. PICK s \in rail.seen : s.key \in Dangling(chain)
        BY <3>5 DEF KeysSeen
      <4>. QED BY <2>2, <3>3, <4>1 DEF Ledger
    <3>. QED BY <3>4, <3>5
  <2>4. ASSUME at # "down" PROVE WithinCap(mem)
    <3>1. CASE at = "recording" /\ answer = "applied"
      <4>1. PICK s \in rail.seen : /\ s.key = asked
                                   /\ chain[asked].call.action = "reserve" => mem.block = s.block
        BY <1>1, <3>1 DEF IInv, MemorySound
      <4>2. s.key \in Dangling(chain) /\ s.request.call = chain[asked].call /\ s.block \in Nat
        BY <1>1, <2>1, <3>1, <4>1 DEF IInv, ControlSound, RailSound, Rail, Seen
      <4>3. chain[asked].call \in Call /\ chain[asked].call.amount > 0
        BY <2>1, <4>1, <4>2, IntentsAreProposed
      <4>4. mem = Booked(Ledger, chain[asked].call, mem.block) /\ mem.block \in Nat
        BY <1>1, <3>1 DEF IInv, MemorySound, TypeOK, Memory
      <4>5. mem = Booked(Ledger, s.request.call, s.block)
        BY <2>1, <4>1, <4>2, <4>3, <4>4, BookedBlock
      <4>. QED BY <2>2, <4>2, <4>5
    <3>2. CASE ~(at = "recording" /\ answer = "applied")
      BY <1>1, <2>1, <2>4, <3>2 DEF IInv, MemorySound
    <3>. QED BY <3>1, <3>2
  <2>. QED BY <2>3, <2>4 DEF BudgetHolds, WithinCap
<1>. QED BY <1>1, InductiveInvariant, PTL

\* Whenever the rail does anything new for the session, the intent is on the
\* chain and is the only one without an outcome.
THEOREM DoubtIsFrozen == Spec => DoubtFreezesMoney
<1>1. ASSUME IInv, [Next]_vars
      PROVE  \A s \in rail'.seen \ rail.seen : Dangling(chain) = {s.key}
  <2>1. CASE RailActs \/ CallLost
    <3>1. at = "calling" /\ (rail' = rail \/ rail' = Acted(rail, asked, RequestInHand))
      BY <2>1 DEF RailActs, CallLost, Hears
    <3>2. Dangling(chain) = {asked}
      BY <1>1, <3>1 DEF IInv, ControlSound
    <3>3. \A s \in rail'.seen \ rail.seen : s.key = asked
      BY <3>1 DEF Acted
    <3>. QED BY <3>2, <3>3
  <2>2. CASE \E n \in DOMAIN rail.blocks : CustomerRevokes(n)
    <3>1. PICK n \in DOMAIN rail.blocks : rail' = Revoked(rail, n)
      BY <2>2 DEF CustomerRevokes
    <3>2. rail'.seen = rail.seen
      BY <1>1, <3>1 DEF Revoked, Rail, IInv, TypeOK
    <3>. QED BY <3>2
  <2>3. CASE rail' = rail
    BY <2>3
  <2>4. CASE UNCHANGED vars
    BY <2>4 DEF vars
  <2>5. Next => \/ RailActs \/ CallLost \/ rail' = rail
                \/ \E n \in DOMAIN rail.blocks : CustomerRevokes(n)
    BY DEF Next, AgentAsks, AsksReserve, AsksDebit, AsksRelease, Asks, Works, Refuse,
           Permit, WriteIntent, RailResponds, RailRepeats, RailRefuses, Hears,
           RecordOutcome, RecordDoubt, Resolve, Restart, Human, HumanSigns, ApproveRaise,
           Environment, Crash, Notes, Expire
  <2>. QED BY <1>1, <2>1, <2>2, <2>3, <2>4, <2>5
<1>. QED BY <1>1, InductiveInvariant, PTL DEF Spec, DoubtFreezesMoney

=============================================================================
