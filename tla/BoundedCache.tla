----------------------------- MODULE BoundedCache -----------------------------
(***************************************************************************)
(* Cache (Source/MLXNN/Cache.swift): prepared arrays by key, such as masks *)
(* of positions, for any number of threads.  Each call runs in the cache's *)
(* serial queue and is one step.  Entries are numbered as they are stored; *)
(* the numbers end at Int.max.                                             *)
(***************************************************************************)
EXTENDS Integers, FiniteSets

CONSTANTS
    Keys, Values,
    maxSize,
    MaxInt       \* Int.max

VARIABLES
    contents,    \* Entry by key
    serial

vars == <<contents, serial>>

NoContents == [k \in {} |-> 0]

Init == contents = NoContents /\ serial = 0

Without(entries, key) == [k \in DOMAIN entries \ {key} |-> entries[k]]

\* Faulty: the numbers start again among entries that have the old ones.
WrappedFaulty(entries) == entries

\* removeAll: what is kept when the numbers start again.
Wrapped(entries) == NoContents

\* The entry with the lowest number goes when there are too many.
Bounded(entries) ==
    IF Cardinality(DOMAIN entries) > maxSize
      THEN Without(entries, CHOOSE k \in DOMAIN entries :
                                \A j \in DOMAIN entries : entries[k].serial <= entries[j].serial)
      ELSE entries

Set(key, value) ==
    LET kept == IF serial = MaxInt THEN Wrapped(contents) ELSE contents
        number == IF serial = MaxInt THEN 0 ELSE serial
    IN
    /\ contents' = Bounded([k \in DOMAIN kept \union {key} |->
                              IF k = key THEN [value |-> value, serial |-> number] ELSE kept[k]])
    /\ serial' = number + 1

\* Storing nil.
Forget(key) ==
    /\ contents' = Without(contents, key)
    /\ UNCHANGED serial

Next == \E key \in Keys : Forget(key) \/ \E value \in Values : Set(key, value)

-----------------------------------------------------------------------------
ValuesHeld == [k \in DOMAIN contents |-> contents[k].value]

Older ==
    {p \in (DOMAIN contents) \X (DOMAIN contents) : contents[p[1]].serial < contents[p[2]].serial}

List == INSTANCE RecencyList WITH values <- ValuesHeld, older <- Older

(* The cache holds the values stored last, at most maxSize of them, and    *)
(* the oldest goes first, also when a key is stored again, when entries are*)
(* removed in between and when the numbers wrap (Cache.swift:37).          *)
EvictsOldest == List!Spec
=============================================================================
