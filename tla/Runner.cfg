SPECIFICATION FairSpec
CONSTANTS
  MaxNodes = 5
  Trees <- AllTrees
INVARIANTS TypeOK LiveIsBranch CallbacksNest TransitionInv
PROPERTIES DispatchAsksBranch ImplementsStatechart RunnerReturns
