------------------------------ MODULE MCKernels ------------------------------
(***************************************************************************)
(* The building blocks of the Metal kernels for TLC.  They share nothing:  *)
(* a behaviour is one of one of them, and the others' variables keep one   *)
(* value.                                                                  *)
(***************************************************************************)
EXTENDS PackedAtomics, TLC, FiniteSets

CONSTANTS
    thread1, thread2, nan, idle,
    SimdSize, N_READS, GroupCounts, AxisSizes, input, Unknown,       \* of the scan
    N_PER_THREAD, Pad, BLOCK_THREADS, Levels, Rows,                    \* of the block sort
    MERGE_THREADS, MERGE_N_PER_THREAD, LongRows, MaxBlocks             \* of the merges

ASSUME KernelsAssumption ==
    /\ SimdSize \in Nat \ {0} /\ N_READS \in Nat \ {0} /\ GroupCounts \subseteq 1..SimdSize
    /\ AxisSizes \subseteq Nat
    /\ \A n \in AxisSizes : \A i \in 0..n-1 : input[i] \in Int
    /\ Unknown \in Int

VARIABLES
    part,    \* which of them runs
    axis_size, simd_groups, inclusive, reverse, values, prev_thread, prefix, simdgroup_sums,
    row, size, pc, tgp, thread, out,
    merge_tiles, block_partitions, dev_in, dev_out, written

scanVars == <<axis_size, simd_groups, inclusive, reverse, values, prev_thread, prefix,
              simdgroup_sums>>
blockVars == <<tgp, thread>>
mergeVars == <<merge_tiles, block_partitions, dev_in, dev_out, written>>

Bit(x, k) == (x \div 2^k) % 2
Bitwise2(Op(_, _), x, y) == Op(Bit(x, 0), Bit(y, 0)) + 2 * Op(Bit(x, 1), Bit(y, 1))
Both(x, y) == x * y
Either(x, y) == IF x + y > 0 THEN 1 ELSE 0
MCAnd(x, y) == Bitwise2(Both, x, y)
MCOr(x, y) == Bitwise2(Either, x, y)

MCTypes == {[packing |-> 2, float |-> FALSE], [packing |-> 1, float |-> TRUE]}

\* All rows of two values that fit in a block: a network of comparisons that
\* sorts them sorts every row.
MCRows == UNION {[0..n-1 -> {0, Pad}] : n \in 0..BLOCK_THREADS * N_PER_THREAD}

\* Rows of up to three blocks with three values, and of five blocks with two.
MCLongRows ==
    LET block == MERGE_THREADS * MERGE_N_PER_THREAD IN
    UNION {[0..n-1 -> 0..Pad] : n \in 1..3 * block} \union [0..4 * block -> {0, Pad}]

\* Each input is a digit of its own: a sum shows which of them it is made of,
\* how often, and whether anything else got into it.
MCInput == [i \in 0..12 |-> 4^i]
MCUnknown == 2^26

Scan == INSTANCE ContiguousScan
Block == INSTANCE BlockSort
Merges == INSTANCE MultiBlockSort WITH BLOCK_THREADS <- MERGE_THREADS,
            N_PER_THREAD <- MERGE_N_PER_THREAD, long <- row

ASSUME BlockAssumption ==
    /\ N_PER_THREAD \in Nat \ {0} /\ Levels \in Nat
    /\ BLOCK_THREADS = Block!MergeThreads[Levels]
    /\ Pad \in Int
    /\ \A r \in Rows : \A i \in DOMAIN r : r[i] \in Int /\ r[i] <= Pad

ASSUME MergesAssumption ==
    /\ MERGE_THREADS \in Nat \ {0} /\ MERGE_N_PER_THREAD \in Nat \ {0} /\ MaxBlocks \in Nat
    /\ \A r \in LongRows : \A i \in DOMAIN r : r[i] \in Int

AtomicsRest ==
    /\ type = [packing |-> 1, float |-> TRUE]
    /\ memory = [w \in Offsets |-> [e \in {0} |-> 0]]
    /\ request = [t \in Threads |-> Idle]
    /\ expected = [t \in Threads |-> Idle]
    /\ calls = [t \in Threads |-> MaxCalls]

Rest == {}
ScanRest ==
    /\ axis_size = Rest /\ simd_groups = Rest /\ inclusive = Rest /\ reverse = Rest
    /\ values = Rest /\ prev_thread = Rest /\ prefix = Rest /\ simdgroup_sums = Rest
BlockRest == tgp = Rest /\ thread = Rest
MergeRest ==
    /\ merge_tiles = Rest /\ block_partitions = Rest
    /\ dev_in = Rest /\ dev_out = Rest /\ written = Rest
RowRest == row = Rest /\ size = Rest
OutRest == pc = Rest /\ out = Rest

KernelInit ==
    \/ /\ part = "atomics" /\ Init
       /\ ScanRest /\ BlockRest /\ MergeRest /\ RowRest /\ OutRest
    \/ /\ part = "scan" /\ Scan!Init
       /\ AtomicsRest /\ BlockRest /\ MergeRest /\ RowRest
    \/ /\ part = "block" /\ Block!Init
       /\ AtomicsRest /\ ScanRest /\ MergeRest
    \/ /\ part = "merges" /\ Merges!Init
       /\ AtomicsRest /\ ScanRest /\ BlockRest /\ OutRest

KernelNext ==
    /\ UNCHANGED part
    /\ \/ /\ part = "atomics" /\ Next
          /\ UNCHANGED <<scanVars, blockVars, mergeVars, row, size, pc, out>>
       \/ /\ part = "scan" /\ Scan!Next
          /\ UNCHANGED <<vars, blockVars, mergeVars, row, size>>
       \/ /\ part = "block" /\ Block!Next
          /\ UNCHANGED <<vars, scanVars, mergeVars>>
       \/ /\ part = "merges" /\ Merges!Next
          /\ UNCHANGED <<vars, scanVars, blockVars, pc, out>>

KernelVars == <<vars, part, scanVars, blockVars, mergeVars, row, size, pc, out>>

KernelSpec == KernelInit /\ [][KernelNext]_KernelVars /\ Fairness

(* ContiguousScan's property, of the behaviours that are scans.            *)
ScanIsRight == part = "scan" => Scan!ScanIsRight

(* BlockSort's property, of the behaviours that sort a block.              *)
BlockIsSorted == part = "block" => Block!BlockIsSorted

(* MultiBlockSort's property, of the behaviours that sort a longer row.    *)
RowIsSorted == part = "merges" => Merges!RowIsSorted
=============================================================================
