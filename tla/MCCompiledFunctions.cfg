SPECIFICATION Spec
CONSTANTS
  worker1 = worker1
  worker2 = worker2
  trainStep = trainStep
  dropout = dropout
  weights = weights
  a1 = a1
  a2 = a2
  cpu = cpu
  gpu = gpu
  c1 = c1
  c2 = c2
  key = key
  Threads = {worker1, worker2}
  Functions = {trainStep, dropout}
  Addresses = {a1, a2}
  Streams = {cpu, gpu}
  Consts = {c1, c2}
  Cells = {weights, key}
  Inputs <- Observes
  Outputs <- Updates
  Rebinding = {}
  Observing = {trainStep, dropout}
  MaxDepth = 2
  NoThread = NoThread
  NoConst = NoConst
  NoGraph = NoGraph
  NoFrame = NoFrame
  NoAddress = NoAddress
SYMMETRY Interchangeable
INVARIANTS GraphIsOfThisCall NoGraphOutlivesFunction NoTracerOutlivesTrace
PROPERTIES FailedCallKeepsState
