---------------------------- MODULE RailContract ----------------------------
(***************************************************************************)
(* What the adapter of a rail promises the session that calls it (RailError*)
(* and RailAdapter, rails/base.py).  A call acts at most once, and only    *)
(* while the session has no outcome for it; a hold is used by one call, a  *)
(* debit or a release; "applied" is said only of a call that acted, and a  *)
(* refusal only of one that did not.                                       *)
(*                                                                         *)
(* Two things the promise leaves open.  A reservation that was put to the  *)
(* customer may become a hold when he likes, refused or not; and a call    *)
(* the rail answered without saying what it did may be refused though it   *)
(* acted.                                                                  *)
(***************************************************************************)
EXTENDS Naturals, Sequences

VARIABLES
  calls,     \* what the session asked, in order; "open" until it has an outcome
  offered,   \* the reservations that were put to the customer
  holds,     \* by reservation, the hold: its amount, who used it, what he took
  mute       \* the calls the rail did not answer in full

vars == <<calls, offered, holds, mute>>

Call == [action: {"reserve", "debit", "release"}, amount: Nat \ {0}, block: Nat,
         outcome: {"open"}]

last == Len(calls)
IsOpen(k) == k = last /\ k > 0 /\ calls[k].outcome = "open"

Acted(k) == IF calls[k].action = "reserve" THEN k \in DOMAIN holds
                                           ELSE \E h \in DOMAIN holds : holds[h].by = k

Init == calls = <<>> /\ offered = {} /\ holds = <<>> /\ mute = {}

\* One call at a time, and money is moved only on a hold the session was told of.
Asks ==
  /\ ~IsOpen(last)
  /\ Len(calls') = last + 1
  /\ LET call == calls'[last + 1]
     IN  /\ call \in Call
         /\ call.action # "reserve" =>
              call.block \in DOMAIN holds /\ calls[call.block].outcome = "applied"
         /\ calls' = Append(calls, call)
  /\ UNCHANGED <<offered, holds, mute>>

Offers(k) ==
  /\ IsOpen(k) /\ calls[k].action = "reserve"
  /\ k \notin offered
  /\ offered' = offered \cup {k}
  /\ UNCHANGED <<calls, holds, mute>>

\* The customer approves, once.
Places(k) ==
  /\ k \notin DOMAIN holds
  /\ holds' = [h \in DOMAIN holds \cup {k} |->
                 IF h = k THEN [amount |-> calls[k].amount, by |-> 0, taken |-> 0] ELSE holds[h]]
  /\ UNCHANGED <<calls, offered, mute>>

Uses(k) ==
  /\ IsOpen(k) /\ calls[k].block \in DOMAIN holds
  /\ LET hold == holds[calls[k].block]
         taken == IF calls[k].action = "debit" THEN calls[k].amount ELSE 0
     IN  /\ calls[k].action \in {"debit", "release"}
         /\ hold.by = 0 /\ taken <= hold.amount
         /\ holds' = [holds EXCEPT ![calls[k].block] = [hold EXCEPT !.by = k, !.taken = taken]]
  /\ mute' \in {mute, mute \cup {k}}
  /\ UNCHANGED <<calls, offered>>

\* A repeat of what was already done may be the one that is not answered.
FallsMute(k) ==
  /\ IsOpen(k) /\ Acted(k)
  /\ mute' = mute \cup {k}
  /\ UNCHANGED <<calls, offered, holds>>

Answers(k, outcome) ==
  /\ IsOpen(k)
  /\ outcome = "applied" => Acted(k)
  /\ outcome = "rail_rejected" => ~Acted(k) \/ k \in offered \/ k \in mute
  /\ calls' = [calls EXCEPT ![k].outcome = outcome]
  /\ UNCHANGED <<offered, holds, mute>>

Next ==
  \/ Asks
  \/ \E k \in DOMAIN calls : Offers(k) \/ Uses(k) \/ FallsMute(k)
  \/ \E k \in offered : Places(k)
  \/ \E k \in DOMAIN calls, outcome \in {"applied", "rail_rejected"} : Answers(k, outcome)

Spec == Init /\ [][Next]_vars

=============================================================================
