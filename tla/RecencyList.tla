----------------------------- MODULE RecencyList -----------------------------
(***************************************************************************)
(* What the bounded cache of MLXNN (Cache.swift) promises: the last values *)
(* stored, the oldest of which goes first when there are too many.  It may *)
(* forget all of them, as a cache may.                                     *)
(***************************************************************************)
EXTENDS Naturals, FiniteSets

CONSTANTS Keys, Values, maxSize

VARIABLES
    values,   \* the value of each key that is held
    older     \* <<j, k>>: j was stored before k

vars == <<values, older>>

Held == DOMAIN values

Init == values = [k \in {} |-> 0] /\ older = {}

Among(order, keys) == order \intersect (keys \X keys)

\* The key is the youngest; when there are too many, only those stay that
\* another one is older than.
Put(key, value, others, before) ==
    LET grown == others \union {key}
        order == before \union (others \X {key})
        kept == IF Cardinality(grown) > maxSize
                  THEN {k \in grown : \E j \in grown : <<j, k>> \in order}
                  ELSE grown
    IN
    /\ values' = [k \in kept |-> IF k = key THEN value ELSE values[k]]
    /\ older' = Among(order, kept)

Store(key, value) == Put(key, value, Held \ {key}, Among(older, Held \ {key}))

StartOver(key, value) == Put(key, value, {}, {})

Remove(key) ==
    /\ values' = [k \in Held \ {key} |-> values[k]]
    /\ older' = Among(older, Held \ {key})

Next ==
    \E key \in Keys :
        \/ Remove(key)
        \/ \E value \in Values : Store(key, value) \/ StartOver(key, value)

Spec == Init /\ [][Next]_vars
=============================================================================
