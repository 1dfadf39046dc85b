------------------------------ MODULE MCEvalLock ------------------------------
(* Instances of EvalLock for TLC.                                            *)
EXTENDS EvalLock, TLC

CONSTANTS th1, th2, silu, layer, block, fused, scales, nobody

=============================================================================
