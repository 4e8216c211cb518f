SPECIFICATION Spec
CONSTANTS
  Block <- MCBlock
  Genesis <- MCGenesis
  Parent <- MCParent
  Height <- MCHeight
  Anc <- MCAnc
  Take <- MCTake
  Emits <- MCEmits
  LedgerOf <- MCLedgerOf
  Required <- MCRequired
  TxnStates <- MCTxnStates
  MaxLength = 2
CHECK_DEADLOCK FALSE
INVARIANT PathInclusiveAtMostMaxLength
