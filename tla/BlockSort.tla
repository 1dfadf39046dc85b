------------------------------ MODULE BlockSort ------------------------------
(***************************************************************************)
(* The kernel block_sort (mlx-generated/metal/sort.h): the threads of one  *)
(* block sort a row that fits in threadgroup memory, in merges of runs     *)
(* twice as long each, and meet at barriers.                               *)
(***************************************************************************)
EXTENDS SortSteps

CONSTANTS
    BLOCK_THREADS, Levels,   \* BLOCK_THREADS = MergeThreads[Levels]
    Rows                     \* the rows to sort

VARIABLES
    row, size,     \* the input
    pc,            \* barriers each thread has passed
    tgp,           \* threadgroup memory
    thread,        \* the elements each thread holds
    out

vars == <<row, size, pc, tgp, thread, out>>

Lids == 0..BLOCK_THREADS-1
N_PER_BLOCK == BLOCK_THREADS * N_PER_THREAD
Block == 0..N_PER_BLOCK-1
Nothing == [val |-> Pad, idx |-> -1]

Init ==
    /\ row \in Rows
    /\ \E n \in 0..N_PER_BLOCK : DOMAIN row = 0..n-1 /\ size = n
    /\ pc = [t \in Lids |-> 0]
    /\ tgp = [i \in Block |-> Nothing]
    /\ thread = [t \in Lids |-> [i \in Elements |-> Nothing]]
    /\ out = [i \in 0..size-1 |-> Nothing]

\* Faulty: no barrier before the merged elements are put back.
ArrivedFaulty(t) == (pc[t] > 2 /\ pc[t] % 2 = 0) \/ \A u \in Lids : pc[u] >= pc[t]

\* threadgroup_barrier
Arrived(t) == \A u \in Lids : pc[u] >= pc[t]

At(t, stage) ==
    /\ pc[t] = stage
    /\ Arrived(t)
    /\ pc' = [pc EXCEPT ![t] = @ + 1]
    /\ UNCHANGED <<row, size>>

Mine(t) == [i \in Elements |-> t * N_PER_THREAD + i]

\* The row, padded to a block; the elements go to the threads in turn.
Copy(t) ==
    /\ At(t, 0)
    /\ tgp' = [i \in Block |->
                 IF i % BLOCK_THREADS # t THEN tgp[i]
                 ELSE [val |-> IF i < size THEN row[i] ELSE Pad, idx |-> i]]
    /\ UNCHANGED <<thread, out>>

\* Each thread sorts its elements, unless all of them are padding.
SortOwn(t) ==
    LET own == [i \in Elements |-> tgp[Mine(t)[i]]] IN
    /\ At(t, 1)
    /\ thread' = [thread EXCEPT ![t] =
                    IF t * N_PER_THREAD < size THEN ThreadSort(own) ELSE own]
    /\ UNCHANGED <<tgp, out>>

\* The thread's elements go back to threadgroup memory.
Store(t) ==
    /\ \E level \in 0..Levels : At(t, 2 + 2 * level)
    /\ tgp' = [i \in Block |-> IF i \div N_PER_THREAD = t
                                 THEN thread[t][i % N_PER_THREAD] ELSE tgp[i]]
    /\ UNCHANGED <<thread, out>>

\* merge_threads, which the loop of the merges doubles.
MergeThreads[level \in 0..Levels] == IF level = 0 THEN 1 ELSE 2 * MergeThreads[level-1]

\* Each group of merge_threads merges the two runs of its half groups.
Merge(t) ==
    /\ \E level \in 1..Levels :
          LET merge_threads == MergeThreads[level]
              sort_sz == N_PER_THREAD * merge_threads
              sort_st == sort_sz * (t \div merge_threads)
              half == sort_sz \div 2
          IN
          /\ At(t, 1 + 2 * level)
          /\ thread' = [thread EXCEPT ![t] =
                          MergePart(tgp, sort_st, sort_st + half, half, half,
                                    N_PER_THREAD * (t % merge_threads))]
    /\ UNCHANGED <<tgp, out>>

WriteOut(t) ==
    /\ At(t, 3 + 2 * Levels)
    /\ out' = [i \in 0..size-1 |-> IF i % BLOCK_THREADS = t THEN tgp[i] ELSE out[i]]
    /\ UNCHANGED <<tgp, thread>>

Next == \E t \in Lids : Copy(t) \/ SortOwn(t) \/ Store(t) \/ Merge(t) \/ WriteOut(t)

Finished == \A t \in Lids : pc[t] = 4 + 2 * Levels

(* However the threads run between the barriers, the result is the row in  *)
(* order, equal values in the order in which they came, and no padding.    *)
BlockIsSorted == Finished => IsStableSort(row, size, out)
=============================================================================
