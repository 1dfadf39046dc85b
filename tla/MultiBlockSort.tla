--------------------------- MODULE MultiBlockSort ---------------------------
(***************************************************************************)
(* The kernels mb_block_sort, mb_block_partition and mb_block_merge        *)
(* (mlx-generated/metal/sort.h): a row longer than a block is sorted block *)
(* by block; runs of blocks are then merged in pairs, each block of the    *)
(* result by a threadgroup that is told where its part of the runs lies.   *)
(* The host launches the kernels one after the other, with merge_tiles     *)
(* doubled each time, until one run is left.                               *)
(***************************************************************************)
EXTENDS SortSteps, FiniteSets

CONSTANTS
    BLOCK_THREADS,
    LongRows,        \* the rows to sort
    MaxBlocks        \* bound of their length

VARIABLES
    long, size,      \* the input
    merge_tiles,     \* blocks in a run of the result, 1 for the first kernel
    block_partitions,
    dev_in,          \* the elements a kernel reads
    dev_out,         \* the elements it writes
    written          \* the blocks whose threadgroup has finished

vars == <<long, size, merge_tiles, block_partitions, dev_in, dev_out, written>>

N_PER_BLOCK == BLOCK_THREADS * N_PER_THREAD
n_blocks == (size + N_PER_BLOCK - 1) \div N_PER_BLOCK
Blocks == 0..n_blocks-1
BlockOf(i) == i \div N_PER_BLOCK

Init ==
    /\ long \in LongRows
    /\ \E n \in 1..N_PER_BLOCK * MaxBlocks : DOMAIN long = 0..n-1 /\ size = n
    /\ merge_tiles = 1
    /\ block_partitions = [i \in 0..n_blocks |-> 0]
    /\ dev_in = [i \in 0..size-1 |-> [val |-> long[i], idx |-> i]]
    /\ dev_out = dev_in
    /\ written = {}

\* A threadgroup writes its block of the result.
WriteBlock(b, elements) ==
    /\ b \in Blocks \ written
    /\ written' = written \union {b}
    /\ dev_out' = [i \in 0..size-1 |->
                     IF BlockOf(i) = b THEN elements[i % N_PER_BLOCK] ELSE dev_out[i]]
    /\ UNCHANGED <<long, size, merge_tiles, block_partitions, dev_in>>

\* mb_block_sort: the block in order, which is what BlockSort computes.
SortBlock(b) ==
    LET own == {i \in 0..size-1 : BlockOf(i) = b}
        Before(i) == {j \in own : \/ LessThan(dev_in[j], dev_in[i])
                                  \/ dev_in[j].val = dev_in[i].val /\ j < i}
    IN
    /\ merge_tiles = 1
    /\ WriteBlock(b, [p \in 0..Cardinality(own)-1 |->
                        dev_in[CHOOSE i \in own : Cardinality(Before(i)) = p]])

\* mb_block_partition: where in the first run block i's part of the merge starts.
Partition(dev, tiles, i) ==
    LET sort_sz == N_PER_BLOCK * tiles
        sort_st == sort_sz * (i \div tiles)
        A_st == Smaller(size, sort_st)
        A_ed == Smaller(size, sort_st + sort_sz \div 2)
        B_ed == Smaller(size, A_ed + sort_sz \div 2)
        partition_at == Smaller(B_ed - A_st, N_PER_BLOCK * (i % tiles))
    IN A_st + MergePartition(dev, A_st, A_ed, A_ed - A_st, B_ed - A_ed, partition_at)

\* The host launches the next merge, on what the last kernel wrote.
Launch ==
    /\ written = Blocks /\ merge_tiles < n_blocks
    /\ merge_tiles' = 2 * merge_tiles
    /\ block_partitions' = [i \in 0..n_blocks |-> Partition(dev_out, 2 * merge_tiles, i)]
    /\ dev_in' = dev_out
    /\ written' = {}
    /\ UNCHANGED <<long, size, dev_out>>

\* mb_block_merge: the block's parts of the two runs are copied to threadgroup
\* memory, one after the other, and each thread merges its share of them.
MergeBlock(b) ==
    LET sort_sz == N_PER_BLOCK * merge_tiles
        sort_st == sort_sz * (b \div merge_tiles)
        sort_md == N_PER_BLOCK * b - sort_st
        last == b % merge_tiles = merge_tiles - 1
        half == 2 * sort_st + sort_sz \div 2 + sort_md
        A_st == block_partitions[b]
        B_st == Smaller(size, half - A_st)
        A_ed == IF last THEN Smaller(size, sort_st + sort_sz \div 2) ELSE block_partitions[b + 1]
        B_ed == IF last THEN Smaller(size, sort_st + sort_sz)
                ELSE Smaller(size, half + N_PER_BLOCK - block_partitions[b + 1])
        A_sz == A_ed - A_st
        B_sz == B_ed - B_st
        tgp == [i \in 0..N_PER_BLOCK-1 |->
                  IF i < A_sz THEN dev_in[A_st + i]
                  ELSE IF i < A_sz + B_sz THEN dev_in[B_st + i - A_sz]
                  ELSE [val |-> Pad, idx |-> 0]]
        merged == [lid \in 0..BLOCK_THREADS-1 |->
                     MergePart(tgp, 0, A_sz, A_sz, B_sz, Smaller(A_sz + B_sz, N_PER_THREAD * lid))]
    IN
    /\ merge_tiles > 1
    /\ WriteBlock(b, [p \in 0..N_PER_BLOCK-1 |-> merged[p \div N_PER_THREAD][p % N_PER_THREAD]])

Next == Launch \/ \E b \in Blocks : SortBlock(b) \/ MergeBlock(b)

Finished == written = Blocks /\ merge_tiles >= n_blocks

(* The row is sorted in the end, equal values in the order in which they   *)
(* came, wherever the runs and the row end within a block.                 *)
RowIsSorted == Finished => IsStableSort(long, size, dev_out)
=============================================================================
