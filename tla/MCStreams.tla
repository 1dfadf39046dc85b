------------------------------ MODULE MCStreams ------------------------------
(* Instances of Streams for TLC.                                             *)
EXTENDS Streams, TLC

CONSTANTS task1, task2, r1, r2, r3, r4, cpuPromise, gpuPromise, p1, p2, p3, p4, p5, p6, cpu, gpu0, gpu1

Interchangeable ==
    Permutations({task1, task2}) \union Permutations(RawStreams)
      \union Permutations(Promises \ {cpuPromise, gpuPromise})
=============================================================================
