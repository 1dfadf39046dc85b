SPECIFICATION FairSpec
CONSTANTS
  th1 = th1
  th2 = th2
  silu = silu
  layer = layer
  block = block
  fused = fused
  scales = scales
  nobody = nobody
  Threads = {th1, th2}
  Functions = {silu, layer, block}
  Stateful = {layer, block}
  Customs = {fused, scales}
  Casts = {scales}
  Evaluating = {}
  MaxDepth = 3
  MaxCalls = 3
  Nobody = nobody
INVARIANTS OwnershipTracksLock WaitsWithoutLock EvalLockOutermost MaterializeOutsideTransform EvalIsSynchronous
PROPERTIES EveryCallReturns
