SPECIFICATION KernelSpec
CONSTANTS
  thread1 = thread1
  thread2 = thread2
  nan = nan
  idle = idle
  Threads = {thread1, thread2}
  Types <- MCTypes
  Length = 2
  Width = 4
  And <- MCAnd
  Or <- MCOr
  NaN = nan
  Initial = {0, 1, 3, nan}
  Updates = {1, 2, nan}
  MaxCalls = 1
  Idle = idle
  SimdSize = 3
  N_READS = 2
  GroupCounts = {1, 2, 3}
  AxisSizes = {1, 2, 5, 6, 7, 11, 12, 13}
  input <- MCInput
  Unknown <- MCUnknown
  N_PER_THREAD = 2
  Pad = 2
  Rows <- MCRows
  BLOCK_THREADS = 4
  Levels = 2
  MERGE_THREADS = 2
  MERGE_N_PER_THREAD = 1
  LongRows <- MCLongRows
  MaxBlocks = 5
CHECK_DEADLOCK FALSE
INVARIANTS ScanIsRight BlockIsSorted RowIsSorted
PROPERTIES UpdatesAreAtomic EveryUpdateReturns
