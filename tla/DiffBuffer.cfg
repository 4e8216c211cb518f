SPECIFICATION FairSpec
CONSTANTS
  Diff = {d1, d2}
  FlushCapacity = 2
  MaxBatch = 2
  MaxDiffs = 11
CHECK_DEADLOCK FALSE
INVARIANT TypeOK
INVARIANT OneBatchAtATime
INVARIANT FullBufferIsFlushed
INVARIANT CloseCopiesEverything
PROPERTY CloseEnds
PROPERTY FullBufferIsEmptied
PROPERTY ImplementsDiffLog
