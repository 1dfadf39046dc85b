-------------------------- MODULE MCConcurrentLoad ---------------------------
(* Instances of ConcurrentLoad for TLC.                                      *)
EXTENDS ConcurrentLoad, TLC

CONSTANTS weight, bias

OffsetBounds == <<2, 1>>

NamesInterchangeable == Permutations(Names)
=============================================================================
