SPECIFICATION Spec
CONSTANTS
  Block <- MCBlock
  Genesis <- MCGenesis
  Parent <- MCParent
  Height <- MCHeight
  Anc <- MCAnc
  Take <- MCTake
  Emits <- MCEmits
  LedgerOf <- MCLedgerOf
  Required <- MCRequired
  TxnStates <- MCTxnStates
  MaxLength = 2
CHECK_DEADLOCK FALSE
INVARIANT TypeOK
INVARIANT FrontierIsTree
INVARIANT WithinMaxLength
INVARIANT BestTipIsBest
INVARIANT NeverRaises
PROPERTY RootMovesAlongBestChain
PROPERTY OnlyForksAreDropped
INVARIANT QueriesMatchReference
