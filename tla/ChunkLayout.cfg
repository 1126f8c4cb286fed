\* All requests of at most three chunks, and the verdict on each.
SPECIFICATION LayoutSpec
CONSTANTS
  Indices <- SmallIndices
  Offsets <- SmallOffsets
  Sizes <- SmallSizes
  Totals <- SmallTotals
  MaxChunks = 3
INVARIANTS
  ZeroBasedAcceptedIffPartition
  OrderOfRequestIgnored
CHECK_DEADLOCK FALSE
