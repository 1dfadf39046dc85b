SPECIFICATION Spec
CONSTANTS
  weight = weight
  bias = bias
  NumFiles = 2
  Names = {weight, bias}
  MaxOffset <- OffsetBounds
  MaxWorkers = 2
  MaxReads = 2
  NoError = NoError
  NoNames = NoNames
  NoResult = NoResult
\* The call ends.
CHECK_DEADLOCK FALSE
SYMMETRY NamesInterchangeable
INVARIANTS PlansWhatTiles ReadInFileOrder ReturnsSerialMerge AllPreparedOrNoneRead
