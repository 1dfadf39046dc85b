SPECIFICATION Spec
CONSTANTS
  t1 = t1
  t2 = t2
  t3 = t3
  weights = weights
  decode = decode
  embed = embed
  sum = sum
  max = max
  nil = nil
  Nil = nil
  Tasks <- MCTasks
  Tickets <- MCTickets
  Policies = {sum, max}
  PolicyOf <- MCPolicyOf2
  Reservations = {weights}
  Scoped = {decode}
  GpuTasks = {}
  Configurations <- CpuConfigurations
  Recommended = 2
  CanAdmit <- MCCanAdmit
  Demand <- MCDemand
  MaxDemand = 8
  MayRefuse <- NeverRefuses
INVARIANT NoLostWakeup
