SPECIFICATION Spec
CONSTANTS
  Block <- MCBlock
  Genesis <- MCGenesis
  Parent <- MCParent
  Height <- MCHeight
  Anc <- MCAnc
  Take <- MCTake
  Emits <- MCEmits
  LedgerOf <- MCLedgerOf
  Required <- MCRequired
  TxnStates <- MCTxnStates
  MaxLength = 1
  FlushCapacity = 1
  MaxCrashes = 1
  None = None
  Torn = Torn
  Dirty = Dirty
PROPERTY MismatchResetsToGenesis
