SPECIFICATION FairSpec
CONSTANTS
  Size = 4
  MaxParallelism = 2
  CalcLists <- EitherList
  MaxCalls = 2
INVARIANTS IInv CalculatedOnce PredecessorsDone
PROPERTIES CallsReturn ImplementsWorldCalc
