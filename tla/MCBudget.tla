------------------------------ MODULE MCBudget ------------------------------
(* Instances of BudgetManager for TLC: one team, or two with budgets, one as  *)
(* large as the column, and one without; three calls, two months.             *)
EXTENDS BudgetManager, TLC

CONSTANTS t1, t2, t3, r1, r2, r3

OneTeam == {t1}
TwoTeams == {t1, t2}
ThreeTeams == {t1, t2, t3}
AmountTwo == (t1 :> 2)
AmountTwoOrFour == (t1 :> 2) @@ (t2 :> 4)
SoftOne == (t1 :> 1)
SoftOneOrThree == (t1 :> 1) @@ (t2 :> 3)
Symmetry == Permutations(Requests)
=============================================================================
