---------------------------- MODULE ContiguousScan ----------------------------
(***************************************************************************)
(* The kernel contiguous_scan (mlx-generated/metal/scan.h): a threadgroup  *)
(* computes the running sums of one row, in rounds of a block each.        *)
(*                                                                         *)
(* The lanes of a simdgroup run together; simdgroups meet at the barriers  *)
(* only, and exchange sums through simdgroup_sums.  What a group does      *)
(* between two barriers is one step.                                       *)
(***************************************************************************)
EXTENDS Integers, FiniteSetsExt

CONSTANTS
    SimdSize,      \* lanes of a simdgroup
    N_READS,       \* elements of a thread
    GroupCounts,   \* how many simdgroups a threadgroup may have
    AxisSizes,     \* lengths of the row
    input,         \* its elements
    Unknown        \* what is read beyond its ends

VARIABLES
    axis_size, simd_groups, inclusive, reverse,   \* the kernel's arguments
    pc,               \* barriers each simdgroup has passed
    values,           \* the elements each lane holds
    prev_thread,      \* the sum of the lanes before each lane
    prefix,           \* the sum of the rounds before, as each group knows it
    simdgroup_sums,   \* in threadgroup memory
    out

vars == <<axis_size, simd_groups, inclusive, reverse, pc, values, prev_thread, prefix,
          simdgroup_sums, out>>

Lanes == 0..SimdSize-1
Reads == 0..N_READS-1
AllGroups == 0..SimdSize-1
SimdGroups == 0..simd_groups-1
LSize == simd_groups * SimdSize
Rounds == (axis_size + N_READS * LSize - 1) \div (N_READS * LSize)

Unwritten == -1

\* Beyond the ends of the row.
Margin == N_READS + 1
Positions == -Margin..axis_size + N_READS * LSize + Margin

Init ==
    /\ axis_size \in AxisSizes
    /\ simd_groups \in GroupCounts
    /\ inclusive \in BOOLEAN /\ reverse \in BOOLEAN
    /\ pc = [g \in AllGroups |-> 0]
    /\ values = [g \in AllGroups |-> [l \in Lanes |-> [k \in Reads |-> 0]]]
    /\ prev_thread = [g \in AllGroups |-> [l \in Lanes |-> 0]]
    /\ prefix = [g \in AllGroups |-> 0]
    /\ simdgroup_sums = [g \in AllGroups |-> Unknown]
    /\ out = [p \in Positions |-> Unwritten]

Sum(f, S) == MapThenSumSet(LAMBDA i : f[i], S)

Round(g) == pc[g] \div 5
Stage(g) == pc[g] % 5

\* Faulty: no barrier between the last use of the sums and the next prefix.
ArrivedFaulty(g) == Stage(g) = 4 \/ \A h \in SimdGroups : pc[h] >= pc[g]

\* threadgroup_barrier: every simdgroup has finished what is before it.
Arrived(g) == \A h \in SimdGroups : pc[h] >= pc[g]

At(g, stage) ==
    /\ g \in SimdGroups /\ Round(g) < Rounds /\ Stage(g) = stage
    /\ Arrived(g)
    /\ pc' = [pc EXCEPT ![g] = @ + 1]
    /\ UNCHANGED <<axis_size, simd_groups, inclusive, reverse>>

\* The first element of a lane's share of the block.
Offset(g, l) == N_READS * (Round(g) * LSize + g * SimdSize + l)

-----------------------------------------------------------------------------
\* The element at a position counted in the direction of the scan.
Read(p) ==
    LET i == IF reverse THEN axis_size - 1 - p ELSE p IN
    IF i \in 0..axis_size-1 THEN input[i] ELSE Unknown

\* load_unsafe where the share ends before the row does, load_safe elsewhere
Load(offset, k) ==
    IF offset + N_READS < axis_size \/ offset + k < axis_size THEN Read(offset + k) ELSE 0

\* Reads the share and scans it, per thread and across the simdgroup's lanes.
\* After the first round the prefix is taken from the last lane of the block.
LoadAndScan(g) ==
    LET loaded == [l \in Lanes |-> [k \in Reads |-> Load(Offset(g, l), k)]]
        scanned == [l \in Lanes |-> [k \in Reads |-> Sum(loaded[l], 0..k)]]
        sums == [l \in Lanes |-> scanned[l][N_READS - 1]]
    IN
    /\ At(g, 0)
    /\ prefix' = [prefix EXCEPT ![g] = IF Round(g) = 0 THEN 0 ELSE simdgroup_sums[0]]
    /\ values' = [values EXCEPT ![g] = scanned]
    /\ prev_thread' = [prev_thread EXCEPT ![g] = [l \in Lanes |-> Sum(sums, 0..l-1)]]
    /\ UNCHANGED <<simdgroup_sums, out>>

LastLane == SimdSize - 1

\* The last lane leaves the simdgroup's sum.
LeaveSum(g) ==
    /\ At(g, 1)
    /\ simdgroup_sums' = [simdgroup_sums EXCEPT ![g] =
                            prev_thread[g][LastLane] + values[g][LastLane][N_READS - 1]]
    /\ UNCHANGED <<values, prev_thread, prefix, out>>

\* The first simdgroup scans the sums, those of groups that do not exist too.
ScanSums(g) ==
    /\ At(g, 2)
    /\ simdgroup_sums' =
         IF g = 0 THEN [l \in Lanes |-> Sum(simdgroup_sums, 0..l-1)] ELSE simdgroup_sums
    /\ UNCHANGED <<values, prev_thread, prefix, out>>

\* Faulty: an exclusive scan checks where it read, not where it writes.
WrittenFaulty(g) ==
    {w \in Lanes \X Reads :
        Offset(g, w[1]) + N_READS < axis_size \/ Offset(g, w[1]) + w[2] < axis_size}

\* write_unsafe and write_safe, as <<lane, element>>: an exclusive scan writes
\* one place further.
Written(g) ==
    {w \in Lanes \X Reads :
        LET start == Offset(g, w[1]) + (IF inclusive THEN 0 ELSE 1) IN
        start + N_READS < axis_size \/ start + w[2] < axis_size}

Place(g, w) ==
    LET p == Offset(g, w[1]) + w[2] + (IF inclusive THEN 0 ELSE 1) IN
    IF reverse THEN axis_size - 1 - p ELSE p

\* Adds up the round's, the earlier groups' and the earlier lanes' sums, and
\* writes the results; the first thread writes where an exclusive scan starts.
Write(g) ==
    LET total == [l \in Lanes |-> [k \in Reads |->
                    values[g][l][k] + prefix[g] + simdgroup_sums[g] + prev_thread[g][l]]]
        first == IF ~inclusive /\ pc[g] = 3 /\ g = 0
                   THEN {IF reverse THEN axis_size - 1 ELSE 0} ELSE {}
    IN
    /\ At(g, 3)
    /\ values' = [values EXCEPT ![g] = total]
    /\ out' = [p \in Positions |->
                 IF \E w \in Written(g) : Place(g, w) = p
                   THEN LET w == CHOOSE w \in Written(g) : Place(g, w) = p
                        IN total[w[1]][w[2]]
                 ELSE IF p \in first THEN 0 ELSE out[p]]
    /\ UNCHANGED <<prev_thread, prefix, simdgroup_sums>>

\* The last lane of the last simdgroup has the sum of all rounds so far.
SharePrefix(g) ==
    /\ At(g, 4)
    /\ simdgroup_sums' =
         IF g = simd_groups - 1
           THEN [simdgroup_sums EXCEPT ![0] = values[g][LastLane][N_READS - 1]]
           ELSE simdgroup_sums
    /\ UNCHANGED <<values, prev_thread, prefix, out>>

Next ==
    \E g \in AllGroups :
        LoadAndScan(g) \/ LeaveSum(g) \/ ScanSums(g) \/ Write(g) \/ SharePrefix(g)

-----------------------------------------------------------------------------
\* The elements a result is the sum of.
Summed(i) ==
    {j \in 0..axis_size-1 :
        IF inclusive THEN (IF reverse THEN j >= i ELSE j <= i)
                     ELSE (IF reverse THEN j > i ELSE j < i)}

Finished == \A g \in SimdGroups : Round(g) = Rounds

(* Every result is the sum of exactly the elements before it (and itself,  *)
(* or after it), whatever the order in which the simdgroups run between    *)
(* the barriers, and nothing is written outside the row.                   *)
ScanIsRight ==
    \A p \in Positions :
       IF p \in 0..axis_size-1
         THEN out[p] = Sum(input, Summed(p)) \/ (out[p] = Unwritten /\ ~Finished)
         ELSE out[p] = Unwritten
=============================================================================
