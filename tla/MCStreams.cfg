SPECIFICATION Spec
CONSTANTS
  task1 = task1
  task2 = task2
  r1 = r1
  r2 = r2
  r3 = r3
  r4 = r4
  cpuPromise = cpuPromise
  gpuPromise = gpuPromise
  p1 = p1
  p2 = p2
  p3 = p3
  p4 = p4
  p5 = p5
  p6 = p6
  cpu = cpu
  gpu0 = gpu0
  gpu1 = gpu1
  Tasks = {task1, task2}
  Devices = {cpu, gpu0, gpu1}
  Cpu = cpu
  DefaultGpu = gpu0
  RawStreams = {r1, r2}
  Promises = {cpuPromise, gpuPromise, p1, p2}
  GlobalCpu = cpuPromise
  GlobalGpu = gpuPromise
  MaxScopes = 1
  NoStream = NoStream
  NoPromise = NoPromise
  NoDevice = NoDevice
\* The backend's streams and the promises are bounded.
CHECK_DEADLOCK FALSE
SYMMETRY Interchangeable
INVARIANTS OneOwner OnItsDevice NoMoreThanNeeded
PROPERTIES PromiseKept
