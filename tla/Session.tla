------------------------------ MODULE Session ------------------------------
(***************************************************************************)
(* AgentSession (orchestrator/session.py): an agent that is not trusted    *)
(* asks for money to be held, taken or handed back; the policy engine      *)
(* judges; the rail acts; the chain is written ahead of the rail.  The     *)
(* process may die between any two durable steps, a rail call may fail     *)
(* with its outcome unknown, the customer may tear the block down, the     *)
(* envelope may expire, and a human may widen its caps.                    *)
(*                                                                         *)
(* chain is on disk and rail is at the bank: both survive a crash.  mem    *)
(* and in_doubt are the session object.  at, asked and answer are where    *)
(* _attempt and _execute stand between two steps: which proposal they work *)
(* on, and what the rail said.  signed is every consent a human has        *)
(* signed: it can be delivered again at any time.                          *)
(***************************************************************************)
EXTENDS SessionChain, PolicyEngine

CONSTANTS
  Amounts,      \* what the agent may ask for, besides what is available
  CapChoices,   \* the caps a human may raise an envelope to
  MaxAsks,      \* bound on what is written without a human: proposals and notes
  MaxRaises,    \* bound on widenings applied
  MaxNotes,     \* bound on entries that bear on no call
  MaxFaults,    \* bound on crashes and calls that fail with outcome unknown
  Revocable     \* whether the customer tears blocks down

ASSUME SessionAssumption ==
  /\ Amounts \subseteq Int
  /\ CapChoices \subseteq Caps
  /\ MaxAsks \in Nat /\ MaxRaises \in Nat
  /\ MaxNotes \in Nat /\ MaxFaults \in Nat
  /\ Revocable \in BOOLEAN

VARIABLES
  chain,      \* the stored chain
  rail,       \* the rail
  mem,        \* state, envelope, block and block_payee
  in_doubt,   \* proposal whose outcome is unknown, or 0
  at,         \* control point of the session's one thread
  asked,      \* the proposal in hand, or 0
  answer,     \* what came back from the rail, or "none"
  signed,     \* consents a human has signed
  expired,    \* whether the envelope's expires_at has passed
  faults      \* faults so far

session == <<mem, in_doubt, at, asked, answer>>
world == <<signed, expired, faults>>
vars == <<chain, rail, session, world>>

Consent == [from: Caps, to: Caps]

TypeOK ==
  /\ chain \in Seq(Entry)
  /\ rail \in Rail
  /\ mem \in Memory
  /\ in_doubt \in 0 .. Len(chain)
  /\ at \in {"idle", "judging", "intending", "calling", "recording", "down"}
  /\ asked \in 0 .. Len(chain)
  /\ answer \in {"none", "applied", "rail_rejected", "unknown"}
  /\ signed \subseteq Consent
  /\ expired \in BOOLEAN
  /\ faults \in 0 .. MaxFaults

(***************************************************************************)
(* A new session writes the grant it runs under.                           *)
(***************************************************************************)
Init ==
  /\ chain = <<[kind |-> "grant"]>>
  /\ rail = EmptyRail
  /\ mem = FreshMemory
  /\ in_doubt = 0
  /\ at = "idle"
  /\ asked = 0
  /\ answer = "none"
  /\ signed = {}
  /\ expired = FALSE
  /\ faults = 0

About(kind, prop, call, block) ==
  [kind |-> kind, prop |-> prop, call |-> call, block |-> block]

Write(e) == chain' = Append(chain, e)

\* An entry about the proposal in hand.
WriteAbout(kind, block) == Write(About(kind, asked, chain[asked].call, block))

\* Control goes to p; the proposal in hand is dropped on the way to "idle".
Goto(p) ==
  /\ at' = p
  /\ asked' = IF p = "idle" THEN 0 ELSE asked
  /\ answer' = "none"

Count(kind) == Cardinality({i \in DOMAIN chain : chain[i].kind = kind})

(***************************************************************************)
(* _attempt: the ask is recorded before it is judged.  debit and release   *)
(* are always about the standing payee; release without an amount hands    *)
(* back everything available.                                              *)
(***************************************************************************)
Asks(call) ==
  /\ at = "idle"
  /\ Count("proposal") + Count("note") < MaxAsks
  /\ Write(About("proposal", Len(chain) + 1, call, 0))
  /\ at' = "judging"
  /\ asked' = Len(chain) + 1
  /\ UNCHANGED <<rail, mem, in_doubt, answer, world>>

AsksReserve(amount, payee) ==
  Asks([action |-> "reserve", amount |-> amount, payee |-> payee])
AsksDebit(amount) ==
  Asks([action |-> "debit", amount |-> amount, payee |-> mem.payee])
AsksRelease(amount) ==
  Asks([action |-> "release", amount |-> amount, payee |-> mem.payee])

Permitted == Permits(chain[asked].call, mem.env, mem, expired)

\* Mutant of Refuse: no answer to an ask while a call is in doubt.
RefuseByPolicyOnly ==
  /\ at = "judging"
  /\ ~Permitted
  /\ WriteAbout("refusal", 0)
  /\ Goto("idle")
  /\ UNCHANGED <<rail, mem, in_doubt, world>>

\* _refuse_in_doubt, or the engine's refusal.
Refuse ==
  /\ at = "judging"
  /\ in_doubt # 0 \/ ~Permitted
  /\ WriteAbout("refusal", 0)
  /\ Goto("idle")
  /\ UNCHANGED <<rail, mem, in_doubt, world>>

\* Mutant of Permit: the doubt is not looked at.
PermitInDoubt ==
  /\ at = "judging"
  /\ Permitted
  /\ WriteAbout("policy_decision", 0)
  /\ Goto("intending")
  /\ UNCHANGED <<rail, mem, in_doubt, world>>

Permit ==
  /\ at = "judging"
  /\ in_doubt = 0 /\ Permitted
  /\ WriteAbout("policy_decision", 0)
  /\ Goto("intending")
  /\ UNCHANGED <<rail, mem, in_doubt, world>>

\* The intent is durable before the rail is asked.
WriteIntent ==
  /\ at = "intending"
  /\ WriteAbout("rail_intent", 0)
  /\ Goto("calling")
  /\ UNCHANGED <<rail, mem, in_doubt, world>>

(***************************************************************************)
(* _apply: the call to the rail, under the proposal's key, and on success  *)
(* the ledger.  The key is the proposal's position.                        *)
(***************************************************************************)
RequestInHand ==
  [call |-> chain[asked].call,
   ref  |-> IF chain[asked].call.action = "reserve" THEN 0 ELSE mem.block]

Hears(a, r, m) ==
  /\ rail' = r
  /\ mem' = m
  /\ answer' = a
  /\ at' = "recording"
  /\ UNCHANGED <<chain, in_doubt, asked>>

RailActs ==
  /\ at = "calling"
  /\ ~KeyUsed(rail, asked)
  /\ Accepts(rail, RequestInHand)
  /\ Hears("applied", Acted(rail, asked, RequestInHand),
           Booked(mem, chain[asked].call, ActedOn(rail, RequestInHand)))
  /\ UNCHANGED world

\* Mutant of RailRepeats: an answer given before is not booked.
RepeatsUnbooked ==
  /\ at = "calling"
  /\ FirstResult(rail, asked, RequestInHand) # {}
  /\ Hears("applied", rail, mem)
  /\ UNCHANGED world

\* The key was used for this request: the first result again, nothing done.
RailRepeats ==
  /\ at = "calling"
  /\ \E s \in FirstResult(rail, asked, RequestInHand) :
       Hears("applied", rail, Booked(mem, chain[asked].call, s.block))
  /\ UNCHANGED world

\* RailError: a refusal, or the key was used for another request.
RailRefuses ==
  /\ at = "calling"
  /\ IF KeyUsed(rail, asked)
       THEN FirstResult(rail, asked, RequestInHand) = {}
       ELSE ~Accepts(rail, RequestInHand)
  /\ Hears("rail_rejected", rail, mem)
  /\ UNCHANGED world

\* Any other exception: the request was lost, or the answer to it was.
CallLost ==
  /\ at = "calling"
  /\ faults < MaxFaults
  /\ faults' = faults + 1
  /\ \/ Hears("unknown", rail, mem)
     \/ /\ ~KeyUsed(rail, asked)
        /\ Accepts(rail, RequestInHand)
        /\ Hears("unknown", Acted(rail, asked, RequestInHand), mem)
  /\ UNCHANGED <<signed, expired>>

(***************************************************************************)
(* _execute, once the call has returned: what came back goes on the chain. *)
(***************************************************************************)
RecordOutcome ==
  /\ at = "recording"
  /\ answer \in {"applied", "rail_rejected"}
  /\ WriteAbout(answer, IF answer = "applied" THEN mem.block ELSE 0)
  /\ in_doubt' = 0
  /\ Goto("idle")
  /\ UNCHANGED <<rail, mem, world>>

RecordDoubt ==
  /\ at = "recording"
  /\ answer = "unknown"
  /\ WriteAbout("rail_in_doubt", 0)
  /\ in_doubt' = asked
  /\ Goto("idle")
  /\ UNCHANGED <<rail, mem, world>>

\* resolve_in_doubt: the same call under the same key; no policy is asked.
Resolve ==
  /\ at = "idle"
  /\ in_doubt # 0
  /\ at' = "calling"
  /\ asked' = in_doubt
  /\ UNCHANGED <<chain, rail, mem, in_doubt, answer, world>>

(***************************************************************************)
(* The process dies at any point, and a new one resumes from the chain.    *)
(***************************************************************************)
Crash ==
  /\ at # "down"
  /\ faults < MaxFaults
  /\ faults' = faults + 1
  /\ at' = "down"
  /\ mem' = FreshMemory
  /\ in_doubt' = 0
  /\ asked' = 0
  /\ answer' = "none"
  /\ UNCHANGED <<chain, rail, signed, expired>>

Restart ==
  /\ at = "down"
  /\ at' = "idle"
  /\ mem' = Replay(chain)
  /\ in_doubt' = InDoubtAfter(chain)
  /\ UNCHANGED <<chain, rail, asked, answer, world>>

(***************************************************************************)
(* Re-approval.  The human signs a widening of the caps now in force; a    *)
(* signed consent arrives at any later time, and any number of times.      *)
(***************************************************************************)
HumanSigns(to) ==
  /\ at # "down"
  /\ [from |-> mem.env, to |-> to] \notin signed
  /\ signed' = signed \cup {[from |-> mem.env, to |-> to]}
  /\ UNCHANGED <<chain, rail, session, expired, faults>>

\* Mutant of Widens: where the consent starts from is not looked at.
WidensFromAnywhere(consent) ==
  /\ consent.to.max_total >= mem.env.max_total
  /\ consent.to.max_per_txn >= mem.env.max_per_txn

Widens(consent) ==
  /\ consent.from = mem.env
  /\ consent.to.max_total >= mem.env.max_total
  /\ consent.to.max_per_txn >= mem.env.max_per_txn

ApproveRaise(consent) ==
  /\ at = "idle"
  /\ Widens(consent)
  /\ Count("widened") < MaxRaises
  /\ Write([kind |-> "widened", from |-> consent.from, to |-> consent.to])
  /\ mem' = [mem EXCEPT !.env = consent.to]
  /\ UNCHANGED <<rail, in_doubt, at, asked, answer, world>>

\* Entries that move nothing: propose_raise's proposal, a malformed call, an
\* amount that is no amount, a consent that is forged, stale or narrowing.
Notes ==
  /\ at = "idle"
  /\ Count("note") < MaxNotes
  /\ Count("proposal") + Count("note") < MaxAsks
  /\ Write([kind |-> "note"])
  /\ UNCHANGED <<rail, session, world>>

(***************************************************************************)
(* The world outside.                                                      *)
(***************************************************************************)
CustomerRevokes(n) ==
  /\ Revocable
  /\ IsLive(rail.blocks[n])
  /\ rail' = Revoked(rail, n)
  /\ UNCHANGED <<chain, session, world>>

Expire ==
  /\ ~expired
  /\ expired' = TRUE
  /\ UNCHANGED <<chain, rail, session, signed, faults>>

(***************************************************************************)
(* Next-state relation and specification.                                  *)
(***************************************************************************)
AgentAsks ==
  \/ \E amount \in Amounts, payee \in Payees : AsksReserve(amount, payee)
  \/ \E amount \in Amounts : AsksDebit(amount)
  \/ \E amount \in Amounts \cup {Available(mem)} : AsksRelease(amount)

RailResponds == RailActs \/ RailRepeats \/ RailRefuses \/ CallLost

Works ==
  Refuse \/ Permit \/ WriteIntent \/ RailResponds \/ RecordOutcome \/ RecordDoubt

Human ==
  \/ \E to \in CapChoices : HumanSigns(to)
  \/ \E consent \in signed : ApproveRaise(consent)

Environment ==
  Crash \/ Notes \/ Expire \/ \E n \in DOMAIN rail.blocks : CustomerRevokes(n)

Next == AgentAsks \/ Works \/ Resolve \/ Restart \/ Human \/ Environment

Spec == Init /\ [][Next]_vars

(***************************************************************************)
(* A call that was begun goes on unless the process dies; a dead process   *)
(* is restarted; and whoever runs the session keeps re-issuing a call in   *)
(* doubt, as resolve_in_doubt's callers do.  Nothing obliges the agent,    *)
(* the human, the customer or the clock to do anything.                    *)
(***************************************************************************)
Fairness == WF_vars(Works) /\ WF_vars(Restart) /\ SF_vars(Resolve)

FairSpec == Spec /\ Fairness

=============================================================================
