SPECIFICATION Spec
CONSTANTS
  Block <- MCBlock
  Genesis <- MCGenesis
  Parent <- MCParent
  Height <- MCHeight
  Anc <- MCAnc
  Take <- MCTake
  Emits <- MCEmits
  LedgerOf <- MCLedgerOf
  Required <- MCRequired
  TxnStates <- MCTxnStates
  MaxLength = 2
  FlushCapacity = 2
  MaxCrashes = 2
  None = None
  Torn = Torn
  Dirty = Dirty
INVARIANT TypeOK
INVARIANT DatabaseReplaysToFrontier
INVARIANT LedgersMatchRoots
INVARIANT DatabaseIsTree
INVARIANT LoadedFrontierIsSound
INVARIANT OnlyExpectedFailures
PROPERTY RunningStepsAreFrontierSteps
PROPERTY CleanCloseLosesNothing
