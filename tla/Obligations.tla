---------------------------- MODULE Obligations ----------------------------
(***************************************************************************)
(* The clocks that run on a hold (policy/obligations.py): a pure reading   *)
(* of a chain's entries at a time.  A time is a whole number of days.      *)
(* Optional values (a policy's deadlines, the end date a block reports, a  *)
(* rail's hold life) are sets of at most one element.                      *)
(***************************************************************************)
EXTENDS RailTable, Sequences, FiniteSetsExt, Functions

Clock == {"rail_hold_expiry", "remainder_release", "resolve_by"}
Optional == {days \in SUBSET Nat : \A m, n \in days : m = n}
Policy == [idle: Optional, ceiling: Optional, resolve_by: Optional]

\* What the chain says a rail did about a block, and what a sweep wrote.
Transition(action, outcome, block, amount, at, ends) ==
  [kind |-> "rail_transition", action |-> action, outcome |-> outcome,
   block |-> block, amount |-> amount, at |-> at, ends |-> ends]
Notice(rule, clock, block, remainder, at) ==
  [kind |-> "obligation", rule |-> rule, clock |-> clock, block |-> block,
   remainder |-> remainder, at |-> at]

(***************************************************************************)
(* holds: the applied transitions, added up block by block.                *)
(***************************************************************************)

Applied(chain, action, block) ==
  {i \in DOMAIN chain : /\ chain[i].kind = "rail_transition"
                        /\ chain[i].action = action
                        /\ chain[i].block = block
                        /\ chain[i].outcome = "applied"}

HeldBlocks(chain) ==
  {chain[i].block : i \in {j \in DOMAIN chain : /\ chain[j].kind = "rail_transition"
                                                /\ chain[j].action = "reserve"
                                                /\ chain[j].outcome = "applied"}}

\* Mutant of Placing: a later reserve for a block places the hold again.
LastReserve(chain, block) == Max(Applied(chain, "reserve", block))

Placing(chain, block) == Min(Applied(chain, "reserve", block))

\* The hold a block's first reserve placed; a later reserve that names another
\* amount leaves the first and marks it restated.
Hold(chain, block) ==
  LET placed == Placing(chain, block)
      since(action) == {i \in Applied(chain, action, block) : i > placed}
      total(action) == SumFunction([i \in since(action) |-> chain[i].amount])
      debits == since("debit")
  IN  [block     |-> block,
       placed_at |-> chain[placed].at,
       held      |-> chain[placed].amount,
       debited   |-> total("debit"),
       released  |-> total("release"),
       last_debit_at |-> IF debits = {} THEN {} ELSE {chain[Max(debits)].at},
       revoked   |-> since("revoke") # {},
       restated  |-> \E i \in since("reserve") : chain[i].amount # chain[placed].amount,
       ends_at   |-> chain[placed].ends]

Holds(chain) == {Hold(chain, b) : b \in HeldBlocks(chain)}

Remainder(h) ==
  IF h.revoked \/ h.held < h.debited + h.released THEN 0
  ELSE h.held - h.debited - h.released

(***************************************************************************)
(* What the registry says of the rail; a rail without a row says nothing.  *)
(***************************************************************************)
RowOf(rail_id) == IF rail_id \in DOMAIN Rails THEN Rails[rail_id] ELSE Rail({}, NoLimits)

Life(rail) ==
  LET Named(name) == IF name \in DOMAIN rail.limits THEN {rail.limits[name]} ELSE {}
  IN  IF Named("hold_expiry_days") # {} THEN Named("hold_expiry_days")
      ELSE Named("max_block_validity_days")

FreesRemainder(rail) == Permits(rail, "remainder_auto_released")

\* Mutant of KeepsRemainder: whatever is not known to be released is kept.
NotKnownToFree(rail) == ~Permits(rail, "remainder_auto_released")

\* "A measured absence of a release is never read as the rail keeping the
\* remainder; only a text that states the mechanism is."
KeepsRemainder(rail) ==
  \E c \in RowsFor(rail, "remainder_auto_released") :
    c.supported = "no" /\ c.tier \in {"primary", "secondary"}

(***************************************************************************)
(* obligations: every clock that runs on a hold, and where it stands.      *)
(***************************************************************************)

Touched(h) == IF h.last_debit_at = {} THEN {h.placed_at} ELSE h.last_debit_at

\* Mutant of RemainderDue: a debit restarts the ceiling too.
CeilingRestarts(h, policy) ==
  {touched + days : touched \in Touched(h), days \in policy.idle \cup policy.ceiling}

\* So long after the last debit, so long after placing: the sooner binds.
RemainderDue(h, policy) ==
  {touched + days : touched \in Touched(h), days \in policy.idle}
    \cup {h.placed_at + days : days \in policy.ceiling}

ExpiryDue(h, rail) ==
  IF h.ends_at # {} THEN h.ends_at ELSE {h.placed_at + days : days \in Life(rail)}

\* Mutant of Status: a hold whose ceiling was restated is a fair number.
StatusUnlessActs(h, due, now, rail_may_act) ==
  CASE Remainder(h) = 0 -> "met"
    [] Remainder(h) # 0 /\ now < due -> "pending"
    [] Remainder(h) # 0 /\ now >= due ->
         IF rail_may_act THEN "unresolved" ELSE "overdue"

Status(h, due, now, rail_may_act) ==
  CASE Remainder(h) = 0 -> "met"
    [] Remainder(h) # 0 /\ now < due -> "pending"
    [] Remainder(h) # 0 /\ now >= due ->
         IF rail_may_act \/ h.restated THEN "unresolved" ELSE "overdue"

Obligation(clock, h, due, now, rail_may_act) ==
  [clock |-> clock, block |-> h.block, due |-> due, remainder |-> Remainder(h),
   status |-> Status(h, due, now, rail_may_act)]

ObligationsOn(h, rail, policy, now) ==
  LET returned == ~KeepsRemainder(rail)
      release  == RemainderDue(h, policy)
  IN  {Obligation("rail_hold_expiry", h, due, now, TRUE) : due \in ExpiryDue(h, rail)}
        \cup (IF release = {} \/ FreesRemainder(rail) THEN {}
              ELSE {Obligation("remainder_release", h, Min(release), now, returned)})
        \cup {Obligation("resolve_by", h, due, now, returned) : due \in policy.resolve_by}

AllObligations(chain, rail, policy, now) ==
  UNION {ObligationsOn(h, rail, policy, now) : h \in Holds(chain)}

\* Mutant of Orphans: whatever is not met is noticed.
NotMet(obligations) == {o \in obligations : o.status # "met"}

Orphans(obligations) == {o \in obligations : o.status \in {"overdue", "unresolved"}}

\* to_payload: only a deadline that has passed is written into a chain.
NoticeOf(o, at) ==
  Notice(IF o.status = "overdue" THEN "obligation_overdue" ELSE "obligation_unresolved",
         o.clock, o.block, o.remainder, at)

=============================================================================
