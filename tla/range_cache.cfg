SPECIFICATION Spec
CONSTANTS
  Key = {k1, k2, k3}
  Lens = {0, 1, 2, 3}
  Budgets = {0, 2, 4}
  MaxTick = 6
INVARIANTS
  OrderMatches
  WithinBudget
  InsertKeepsItsRange
PROPERTIES
  LruSpec
