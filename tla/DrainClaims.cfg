\* Two sentences about the drain, asked one at a time; both are violated.
SPECIFICATION FairSpec
CONSTANTS
  Conns = {c1, c2}
INVARIANT DrainTakesNobody
\* PROPERTY BudgetBoundsTheWait
CHECK_DEADLOCK FALSE
