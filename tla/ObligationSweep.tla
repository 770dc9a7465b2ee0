-------------------------- MODULE ObligationSweep --------------------------
(***************************************************************************)
(* A session that holds a customer's money, and AgentSession.sweep, which  *)
(* writes each passed deadline into the chain once.  Nothing schedules a   *)
(* sweep: whoever runs the session calls it when they like, and the        *)
(* process may die in the middle of one.                                   *)
(*                                                                         *)
(* bank is what the rail really holds, which the sweep never asks about.   *)
(* A call goes to the rail first and onto the chain later; in between, and *)
(* for as long as the call is in doubt, it is unrecorded.  Session models  *)
(* how a call is judged, issued and resolved: here it has one outcome.     *)
(***************************************************************************)
EXTENDS Obligations

CONSTANTS
  RailIds,       \* the rails a session may run on
  Policies,      \* the deadlines a person may have chosen
  Moments,       \* the days on which something happens
  Ceilings,      \* what is held
  Amounts,       \* what is drawn, and what a ceiling is restated to
  EndDates,      \* after how many days a block may say it ends
  MaxCalls,      \* bound on calls to the rail
  MaxRestates    \* bound on how often the record of a reserve is repeated

ASSUME SweepAssumption ==
  /\ Policies \subseteq Policy
  /\ Moments \subseteq Nat /\ 0 \in Moments
  /\ Ceilings \subseteq Nat \ {0} /\ Amounts \subseteq Nat \ {0}
  /\ EndDates \subseteq Optional
  /\ MaxCalls \in Nat /\ MaxRestates \in Nat

VARIABLES
  rail_id, policy,  \* chosen once
  now,
  chain,
  bank,        \* per block: what is left, when it ends, who took it back
  unrecorded,  \* transitions the chain does not show yet, at most one
  at,          \* "idle" or "sweeping"
  todo         \* what this sweep has still to write

given == <<rail_id, policy>>
sweep == <<at, todo>>
vars == <<given, now, chain, bank, unrecorded, sweep>>

Row == RowOf(rail_id)

Block == [left: Nat, ends: SUBSET Nat, gone: {"no", "rail", "customer"}]

TypeOK ==
  /\ policy \in Policies /\ now \in Moments
  /\ \A i \in DOMAIN chain : chain[i].kind \in {"rail_transition", "obligation"}
  /\ bank \in Seq(Block)
  /\ Cardinality(unrecorded) <= 1
  /\ at \in {"idle", "sweeping"} /\ at = "idle" => todo = {}
  /\ \A o \in todo : o.clock \in Clock /\ o.block \in DOMAIN bank

Init ==
  /\ rail_id \in RailIds
  /\ policy \in Policies
  /\ now = 0 /\ chain = <<>> /\ bank = <<>> /\ unrecorded = {}
  /\ at = "idle" /\ todo = {}

(***************************************************************************)
(* The session's calls: the rail acts, or refuses, and then the chain says *)
(* so.  No call is made while another has no outcome on the chain.         *)
(***************************************************************************)
Standing == {b \in HeldBlocks(chain) : Remainder(Hold(chain, b)) > 0}

\* What a session takes to be left of a block: of the ceiling it placed, or, in a
\* process started since, of all the ceilings on the chain, which _replay adds up.
Available(b) ==
  LET h == Hold(chain, b)
      named == SumFunction([i \in Applied(chain, "reserve", b) |-> chain[i].amount])
  IN  {left \in {Remainder(h), named - h.debited - h.released} : left > 0}

\* What the bound on calls counts beside the blocks.
Drawings == {i \in DOMAIN chain : chain[i].kind = "rail_transition" /\ chain[i].action # "reserve"}

Calls(action, outcome, block, amount, ends, after) ==
  /\ at = "idle" /\ unrecorded = {}
  /\ Len(bank) + Cardinality(Drawings) < MaxCalls
  /\ unrecorded' = {Transition(action, outcome, block, amount, 0, ends)}
  /\ bank' = after
  /\ UNCHANGED <<given, now, chain, sweep>>

Reserves(amount, ends) ==
  /\ Standing = {}
  /\ LET until == IF ends # {} THEN ends ELSE {now + days : days \in Life(Row)}
     IN  Calls("reserve", "applied", Len(bank) + 1, amount, ends,
               Append(bank, [left |-> amount, ends |-> until, gone |-> "no"]))

\* A debit, or a release, which hands back everything that is available: no rail
\* of the table gives back a part.
Draws(action, block, amount) ==
  /\ IF IF action = "debit" THEN amount <= bank[block].left ELSE amount = bank[block].left
       THEN Calls(action, "applied", block, amount, {}, [bank EXCEPT ![block].left = @ - amount])
       ELSE Calls(action, "rail_rejected", block, amount, {}, bank)

Records ==
  /\ at = "idle"
  /\ \E t \in unrecorded : chain' = Append(chain, [t EXCEPT !.at = now])
  /\ unrecorded' = {}
  /\ UNCHANGED <<given, now, bank, sweep>>

\* The same reserve recorded again, or with another ceiling, smaller or larger,
\* by whoever writes the chain: "a modification or a mistake" of what is held.
Restates(block, amount) ==
  /\ at = "idle" /\ unrecorded = {}
  /\ Cardinality(Applied(chain, "reserve", block)) <= MaxRestates
  /\ chain' = Append(chain, Transition("reserve", "applied", block, amount, now, {}))
  /\ \/ bank' = bank
     \/ LET drawn == Hold(chain, block).debited
        IN  /\ bank[block].left > 0 /\ drawn <= amount
            /\ bank' = [bank EXCEPT ![block].left = amount - drawn]
  /\ UNCHANGED <<given, now, unrecorded, sweep>>

(***************************************************************************)
(* sweep.                                                                  *)
(***************************************************************************)
Current(time) == AllObligations(chain, Row, policy, time)

Noted == {<<chain[i].clock, chain[i].block>> :
            i \in {j \in DOMAIN chain : chain[j].kind = "obligation"}}

\* Mutant of Fresh: a notice of any clock will do for the block.
FreshByBlock(orphans) == {o \in orphans : \A n \in Noted : n[2] # o.block}

\* Mutant of Fresh: what the chain already says is not looked up.
FreshByMemory(orphans) == orphans

Fresh(orphans) == {o \in orphans : <<o.clock, o.block>> \notin Noted}

StartsSweep ==
  /\ at = "idle"
  /\ at' = "sweeping"
  /\ todo' = Fresh(Orphans(Current(now)))
  /\ UNCHANGED <<given, now, chain, bank, unrecorded>>

Writes(o) ==
  /\ at = "sweeping"
  /\ \A other \in todo : o.due <= other.due
  /\ chain' = Append(chain, NoticeOf(o, now))
  /\ todo' = todo \ {o}
  /\ UNCHANGED <<given, now, bank, unrecorded, at>>

\* The sweep returns, or dies before it has written everything.
EndsSweep ==
  /\ at = "sweeping"
  /\ at' = "idle" /\ todo' = {}
  /\ UNCHANGED <<given, now, chain, bank, unrecorded>>

(***************************************************************************)
(* What happens without the session.  A rail may give the remainder back   *)
(* unless a text says it keeps it, and may do so in any case once the      *)
(* block has ended.  A sweep is given its time and asks the rail nothing,  *)
(* so what happens during one is as good as what happens after it.         *)
(***************************************************************************)
HasEnded(block) == \E day \in bank[block].ends : now >= day

GivesBack(block, who) ==
  /\ at = "idle"
  /\ bank[block].left > 0
  /\ bank' = [bank EXCEPT ![block].left = 0, ![block].gone = who]
  /\ UNCHANGED <<given, now, chain, unrecorded, sweep>>

\* A text, not a measurement, says that the rail keeps the remainder.
TextKeeps == \E c \in RowsFor(Row, "remainder_auto_released") :
               c.supported = "no" /\ c.tier # "observed"

RailReturns(block) ==
  /\ TextKeeps => HasEnded(block)
  /\ GivesBack(block, "rail")

CustomerRevokes(block) ==
  /\ Permits(Row, "customer_revocable")
  /\ GivesBack(block, "customer")

TimePasses ==
  /\ at = "idle"
  /\ \E t \in Moments : t > now /\ now' = t
  /\ UNCHANGED <<given, chain, bank, unrecorded, sweep>>

SessionActs ==
  \/ \E amount \in Ceilings, ends \in EndDates :
       Reserves(amount, {now + days : days \in ends})
  \/ \E block \in HeldBlocks(chain) : \E most \in Available(block) :
       \/ Draws("release", block, most)
       \/ \E amount \in {a \in Amounts : a <= most} : Draws("debit", block, amount)
  \/ Records
  \/ \E block \in HeldBlocks(chain), amount \in Ceilings \cup Amounts : Restates(block, amount)

Sweeps == StartsSweep \/ (\E o \in todo : Writes(o)) \/ EndsSweep

World ==
  \/ \E block \in DOMAIN bank : RailReturns(block) \/ CustomerRevokes(block)
  \/ TimePasses

Next == SessionActs \/ Sweeps \/ World

Spec == Init /\ [][Next]_vars

(***************************************************************************)
(* Properties.                                                             *)
(***************************************************************************)

\* What a sweep is about to sign as overdue the rail does hold, to the paisa,
\* unless a call is in doubt, the customer has torn the block down, or the
\* block has reached its own end ("the chain's number is a fair statement",
\* policy/obligations.py:24).
OverdueIsHeld ==
  \A o \in todo :
    \/ o.status # "overdue"
    \/ unrecorded # {} \/ bank[o.block].gone = "customer" \/ HasEnded(o.block)
    \/ bank[o.block].left = o.remainder

\* A ceiling that was restated upward, on a block drawn on up to the first.
MetTooSoon(b) ==
  LET h == Hold(chain, b)
  IN  /\ \E i \in Applied(chain, "reserve", b) : chain[i].amount > h.held
      /\ h.debited + h.released >= h.held

\* When a sweep has written what it found, no block the chain shows has money
\* at the rail past a deadline a person set without a notice of that clock:
\* not when it was drawn on, restated, or swept before by a process that died.
\* One case the code leaves open: whether a hold is closed is asked of its first
\* ceiling, and before it is asked whether that was restated (policy/
\* obligations.py:181), so MetTooSoon is "met" whatever the rail still has.
NothingIsForgotten ==
  at = "sweeping" /\ todo = {} =>
    \A b \in {x \in HeldBlocks(chain) : /\ bank[x].left > 0 /\ unrecorded = {}
                                        /\ ~MetTooSoon(x)} :
      LET moves(action) == Applied(chain, action, b)
          late(i, days) == chain[i].at + days <= now
          idle == \E d \in policy.idle :
                    \A i \in moves("debit") \cup {Min(moves("reserve"))} : late(i, d)
          over == \E d \in policy.ceiling : late(Min(moves("reserve")), d)
      IN  /\ ~FreesRemainder(Row) /\ (idle \/ over) => <<"remainder_release", b>> \in Noted
          /\ (\E d \in policy.resolve_by : d <= now) => <<"resolve_by", b>> \in Noted

\* One notice for a clock of a hold, whichever process writes it.
NotedOnce ==
  \A i, j \in DOMAIN chain :
    /\ chain[i].kind = "obligation" /\ chain[j].kind = "obligation"
    /\ chain[i].clock = chain[j].clock /\ chain[i].block = chain[j].block
    => i = j

\* A clock that was met stays met: no later entry reopens a hold, not the
\* record of its placing repeated or restated, and a deadline met once is
\* never written as passed.
MetIsFinal ==
  [][\A o \in Current(now) :
       o.status = "met" =>
         \A p \in Current(now)' :
           p.clock = o.clock /\ p.block = o.block => p.status = "met"]_vars

\* The rail's own deadline is not called passed before the rail's end: the
\* chain's clock starts when the call is recorded, never before it is made.
RailIsNotAccusedEarly ==
  \A i \in DOMAIN chain :
    chain[i].kind = "obligation" /\ chain[i].clock = "rail_hold_expiry"
      => HasEnded(chain[i].block)

(***************************************************************************)
(* What the repository says and the code does not do.                      *)
(***************************************************************************)

\* "Where the rail itself acts at the deadline, or may already have returned
\* the money ..., a signed 'still held' would be a guess" (policy/
\* obligations.py:27): nothing is signed as overdue that the rail gave back.
OverdueIsNoGuess ==
  \A o \in todo : o.status = "overdue" => bank[o.block].gone # "rail"

=============================================================================
