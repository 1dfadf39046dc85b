------------------------- MODULE MCCompiledFunctions -------------------------
(* Instances of CompiledFunctions for TLC.                                   *)
EXTENDS CompiledFunctions, TLC

CONSTANTS worker1, worker2, trainStep, dropout, a1, a2, cpu, gpu, c1, c2, weights, key

\* A training step updates the weights and the random key, a dropout layer the
\* key only.
Observes == trainStep :> {weights, key} @@ dropout :> {key}

Updates == Observes

\* Addresses, streams and sealed arrays are only compared.
Interchangeable == Permutations({a1, a2}) \union Permutations({cpu, gpu}) \union Permutations({c1, c2})
=============================================================================
