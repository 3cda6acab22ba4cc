SPECIFICATION FairSpec
CONSTANTS
  MaxRows = 2
  TotalRows <- MCTotalRows
  ExecBudget = 2
  StartTimeout = 1
  RowUnits = 1
  PipeCapacity = 2
INVARIANT NoCircularWait
