------------------------------ MODULE SortSteps ------------------------------
(***************************************************************************)
(* What one thread of the sorting kernels computes between two barriers    *)
(* (mlx-generated/metal/sort.h): the sort of its own elements, the search  *)
(* for its part of a merge, and the merge.                                 *)
(*                                                                         *)
(* An element is a record of its value and of the index it came from.      *)
(* Arrays count from 0, as in the source.                                  *)
(***************************************************************************)
EXTENDS Integers

CONSTANTS
    N_PER_THREAD,    \* elements of a thread
    Pad              \* CompareOp::init, no value is greater

Elements == 0..N_PER_THREAD-1

LessThan(x, y) == x.val < y.val

Larger(m, n) == IF m > n THEN m ELSE n
Smaller(m, n) == IF m < n THEN m ELSE n

\* The pass i of an odd-even transposition sort: neighbours in wrong order,
\* by the index of the first, are swapped.
Swapped(s, i) == {j \in 0..N_PER_THREAD-2 : j % 2 = i % 2 /\ LessThan(s[j+1], s[j])}

Pass(s, i) ==
    [k \in Elements |->
        IF k \in Swapped(s, i) THEN s[k+1] ELSE IF k-1 \in Swapped(s, i) THEN s[k-1] ELSE s[k]]

\* ThreadSort::sort
ThreadSort(s) ==
    LET After[i \in 0..N_PER_THREAD] == IF i = 0 THEN s ELSE Pass(After[i-1], i-1)
    IN After[N_PER_THREAD]

\* Faulty: equal elements are taken from the second run first.
MergePartitionFaulty(mem, A, B, A_sz, B_sz, sort_md) ==
    LET Search[range \in (0..A_sz) \X (0..A_sz)] ==
          LET lo == range[1]  hi == range[2]  md == lo + (hi - lo) \div 2 IN
          IF lo >= hi THEN hi
          ELSE IF ~LessThan(mem[A + md], mem[B + sort_md - 1 - md]) THEN Search[<<lo, md>>]
          ELSE Search[<<md + 1, hi>>]
    IN Search[<<Larger(0, sort_md - B_sz), Smaller(sort_md, A_sz)>>]

\* merge_partition: how many of the first sort_md elements of the merge of the
\* runs at A and at B come from A.
MergePartition(mem, A, B, A_sz, B_sz, sort_md) ==
    LET Search[range \in (0..A_sz) \X (0..A_sz)] ==
          LET lo == range[1]  hi == range[2]  md == lo + (hi - lo) \div 2 IN
          IF lo >= hi THEN hi
          ELSE IF LessThan(mem[B + sort_md - 1 - md], mem[A + md]) THEN Search[<<lo, md>>]
          ELSE Search[<<md + 1, hi>>]
    IN Search[<<Larger(0, sort_md - B_sz), Smaller(sort_md, A_sz)>>]

\* merge_step: the first N_PER_THREAD elements of the merge of two runs.
MergeStep(mem, A, B, A_sz, B_sz) ==
    LET TakesB(a, b) == b < B_sz /\ (a >= A_sz \/ LessThan(mem[B + b], mem[A + a]))
        FromA[i \in 0..N_PER_THREAD] ==
          IF i = 0 THEN 0
          ELSE LET a == FromA[i-1] IN IF TakesB(a, i-1 - a) THEN a ELSE a + 1
    IN [i \in Elements |->
          LET a == FromA[i]  b == i - a IN
          IF TakesB(a, b) THEN mem[B + b]
          ELSE IF a < A_sz THEN mem[A + a] ELSE [val |-> Pad, idx |-> 0]]

\* A thread's part of a merge of two sorted runs of memory.
MergePart(mem, A, B, A_sz, B_sz, sort_md) ==
    LET partition == MergePartition(mem, A, B, A_sz, B_sz, sort_md) IN
    MergeStep(mem, A + partition, B + sort_md - partition,
              A_sz - partition, B_sz - (sort_md - partition))

-----------------------------------------------------------------------------
\* The stable sort of the first n elements of in: what is promised.
IsStableSort(in, n, sorted) ==
    /\ \A i \in 0..n-1 : sorted[i] \in {[val |-> in[k], idx |-> k] : k \in 0..n-1}
    /\ \A i \in 0..n-2 :
          \/ LessThan(sorted[i], sorted[i+1])
          \/ sorted[i].val = sorted[i+1].val /\ sorted[i].idx < sorted[i+1].idx
=============================================================================
