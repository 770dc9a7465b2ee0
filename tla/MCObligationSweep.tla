------------------------- MODULE MCObligationSweep -------------------------
(***************************************************************************)
(* Values for the constants of ObligationSweep in the runs of TLC.         *)
(***************************************************************************)
EXTENDS ObligationSweep

\* The table of rails is a constant: TLC evaluates what it promises once.
ASSUME TableIsWellFormed == WellFormed

\* Every row of the registry, and a rail that has none; and one rail for each
\* way in which the clocks or the model's bank can tell them apart.
EveryRail == DOMAIN Rails \cup {"unlisted"}
Behaviour(id) ==
  LET rail == RowOf(id)
  IN  <<{days >= 90 : days \in Life(rail)}, FreesRemainder(rail), KeepsRemainder(rail),
        Permits(rail, "customer_revocable")>>
EveryKind ==
  {CHOOSE id \in EveryRail : Behaviour(id) = b : b \in {Behaviour(id) : id \in EveryRail}}
ReservePay == {"sbmd"}

\* A release window of a day, with and without a ceiling; a grant of two.
MCPolicies == [idle: {{1}}, ceiling: {{}, {2}}, resolve_by: {{2}}]

\* Placing, the human's deadlines, and after the ends of the holds in the table.
MCMoments == {0, 2, 90}

One == {1}
Two == {2}
OneOrTwo == {1, 2}
NoEnd == {{}}
EndsOrNot == {{}, {2}}

=============================================================================
