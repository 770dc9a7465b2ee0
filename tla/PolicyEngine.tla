---------------------------- MODULE PolicyEngine ----------------------------
(***************************************************************************)
(* The policy engine of policy/engine.py, a pure function of the call, the *)
(* envelope and the ledger.  Its verdict is a Boolean: the reason and the  *)
(* citation are wording.  s is a ledger: any record with the fields        *)
(* blocked, debited and released of policy/envelope.py's LedgerState.      *)
(***************************************************************************)
EXTENDS RailProfile

Available(s) == s.blocked - s.debited - s.released
Committed(s) == s.debited + Available(s)

PermitsPayee(payee) == payee \in AllowedPayees

\* Mutant of FitsBudget: what is committed already is not counted.
FitsBudgetAlone(c, env, s) == c.amount <= env.max_total

\* The budget bounds what is spent and held, not every ceiling ever placed.
FitsBudget(c, env, s) == Committed(s) + c.amount <= env.max_total

\* Layer 1: is the human's grant wide enough?  A debit is held against
\* blocked - debited, whatever was released.
CheckEnvelope(c, env, s) ==
  /\ c.amount > 0
  /\ PermitsPayee(c.payee)
  /\ c.action = "reserve" => /\ FitsBudget(c, env, s)
                             /\ c.amount <= env.max_per_txn
  /\ c.action = "debit" => c.amount <= s.blocked - s.debited
  /\ c.action = "release" => c.amount <= Available(s)

\* "A debit for less than the standing block is a partial debit."
IsPartialDebit(c, s) == c.action = "debit" /\ c.amount < s.blocked - s.debited

\* Mutant of NothingStanding: a reserve on top of a standing block.
StandingIgnored(s) == TRUE

\* One standing block at a time.
NothingStanding(s) == Available(s) <= 0

\* Layer 2: is the call legal on this rail at all?
CheckRail(c, s) ==
  /\ c.action = "reserve" => NothingStanding(s) /\ c.amount <= MaxBlockAmount
  /\ IsPartialDebit(c, s) => PartialDebit

\* Layer 0 first: the envelope is a grant with a lifetime.
Permits(c, env, s, expired) ==
  /\ ~expired
  /\ CheckEnvelope(c, env, s)
  /\ CheckRail(c, s)

=============================================================================
