SPECIFICATION Spec
CONSTANTS
  th1 = th1
  th2 = th2
  silu = silu
  layer = layer
  block = block
  fused = fused
  scales = scales
  nobody = nobody
  Threads = {th1, th2}
  Functions = {layer}
  Stateful = {layer}
  Customs = {scales}
  Casts = {scales}
  Evaluating = {scales}
  MaxDepth = 3
  MaxCalls = 2
  Nobody = nobody
\* The violated order is what is checked, not the deadlock that follows.
CHECK_DEADLOCK FALSE
INVARIANTS EvalLockOutermost
