SPECIFICATION FairSpec
CONSTANTS
  Tasks <- MCTasks
  MAX_ITERS <- MCMaxIters
  MaxStarts <- MCMaxStarts
INVARIANTS NoSessionInVain FinalStatusIsTrue
PROPERTIES LoopEnds
CHECK_DEADLOCK FALSE
