SPECIFICATION FairSpec
CONSTANTS
  t1 = t1
  t2 = t2
  t3 = t3
  weights = weights
  decode = decode
  embed = embed
  sum = sum
  max = max
  nil = nil
  Nil = nil
  Tasks <- MCTasks
  Tickets <- MCTickets
  Policies = {sum, max}
  PolicyOf <- MCPolicyOf
  Reservations = {weights}
  Scoped = {decode, embed}
  GpuTasks <- MCTasks
  Configurations <- GpuConfigurations
  Recommended = nil
  CanAdmit <- MCCanAdmit
  Demand <- MCDemand
  MaxDemand = 8
  MayRefuse <- RefusesLarge
INVARIANTS AdmittedStaysRegistered LimitCoversWork LimitRestored
PROPERTIES BaselineStableWhileActive CancelledStartReturns SuspendedStartRunsAgain GateSpec
