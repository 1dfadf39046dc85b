---------------------------- MODULE MCWiredMemory ----------------------------
(* Instances of WiredMemory for TLC: ticket sizes, the sum and max policies, *)
(* and an admission rule that bounds the sizes registered in a group.        *)
EXTENDS WiredMemory, TLC

CONSTANTS t1, t2, t3, weights, decode, embed, sum, max, nil

MCTasks == {t1, t2, t3}
MCTickets == {weights, decode, embed}
Size == weights :> 1 @@ decode :> 4 @@ embed :> 3
MCPolicyOf == [k \in MCTickets |-> sum]
MCPolicyOf2 == weights :> max @@ decode :> sum @@ embed :> sum

SizeOf(S) == MapThenSumSet(LAMBDA k : Size[k], S)

\* All three tickets of the group do not fit together.
MCCanAdmit(S, k) == SizeOf(S \union {k}) <= 6

\* WiredSumPolicy.limit and WiredMaxPolicy.limit
MCDemand(p, S) == IF p = sum THEN SizeOf(S) ELSE Max({0} \union {Size[k] : k \in S})

NeverRefuses(limit) == FALSE
RefusesLarge(limit) == limit > 4

Config(percent, cooldown, policyOnly, override) ==
    [shrinkThresholdPercent |-> percent, shrinkCooldown |-> cooldown,
     policyOnlyWhenUnsupported |-> policyOnly, baselineOverride |-> override,
     useRecommended |-> TRUE]

\* Active work asks for 3 to 7 above a baseline of 0 or 2: never a rest limit.
GpuConfigurations == {Config(25, TRUE, TRUE, nil), Config(50, FALSE, TRUE, 2)}
CpuConfigurations == {Config(25, TRUE, TRUE, nil), Config(25, TRUE, FALSE, nil)}
DeviceConfigurations == {Config(25, TRUE, TRUE, nil)}
=============================================================================
