SPECIFICATION ObjectsSpec
CONSTANTS
  worker1 = worker1
  worker2 = worker2
  heartbeat = heartbeat
  loader = loader
  Threads = {worker1, worker2}
  Readers = {heartbeat}
  MaxTime = 4
  MaxEvals = 3
  Loaders = {loader}
  Workers = {worker1, worker2}
  totalUnitCount = 3
  ChunkSize = 2
  Counts = {0, 3}
  Offsets = {0, 1, 6}
  MaxCalls = 3
  MaxInt = 7
  Keys = {k1, k2, k3}
  Values = {v1, v2}
  maxSize = 2
  States = {global, local}
  Seeds = {s1, s2, s3}
  MaxDraws = 4
  Arrays = {a1, a2}
  Addresses = {x1, x2, x3, x4}
  Constants = {c1, c2}
  Tracer = tracer
  Streams = {st1, st2}
  Nobody = nobody
  Nothing = nothing
\* Clocks, calls and draws are bounded.
CHECK_DEADLOCK FALSE
INVARIANTS ReadReturnsFile KeysAreIndependent CastIsOfCurrent
PROPERTIES ReportCoversOpenEvals ProgressIsTrue EvictsOldest
