SPECIFICATION FairSpec
CONSTANTS
  MaxLogPerRun = 3
  BatchSize = 2
  MaxPending = 3
  ChannelSize = 2
  MaxCaptured = 7
  MaxForeign = 1
  MaxWriteErrors = 4
INVARIANTS
  RowsNumberedInOrder
  SeqIsCaptureSeqUntilTruncated
  NoUnreportedLoss
  PendingBounded
  StoredLinesAccounted
PROPERTIES
  RefinesRunRecord
  EveryExecutionCloses
CHECK_DEADLOCK FALSE
