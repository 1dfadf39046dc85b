------------------------------ MODULE MCObjects ------------------------------
(***************************************************************************)
(* The library's small shared objects for TLC: the evaluation probe, a file*)
(* reader, a bounded cache, random states and a cast cache.  They share    *)
(* nothing: a behaviour is one of one of them, and the others' variables   *)
(* keep one value.                                                         *)
(***************************************************************************)
EXTENDS EvalProbe

CONSTANTS
    worker1, worker2, heartbeat, loader,
    Loaders, Workers, totalUnitCount, ChunkSize, Counts, Offsets, MaxCalls,     \* FileReader
    Keys, Values, maxSize, MaxInt,                                              \* BoundedCache
    States, Seeds, MaxDraws,                                                    \* RandomState
    Arrays, Addresses, Constants, Tracer, Streams,                              \* CastCache
    Nobody, Nothing

(* The file's size and positions are Int64s, one thread loads, and nobody  *)
(* is no thread.                                                           *)
ASSUME ObjectsAssumption ==
    /\ Nobody \notin Threads \union Loaders \union Workers
    /\ IsFiniteSet(Loaders \union Workers) /\ Loaders \intersect Workers = {}
    /\ \A t, u \in Loaders : t = u
    /\ MaxInt \in Nat /\ totalUnitCount \in 0..MaxInt /\ ChunkSize \in Nat
    /\ Counts \subseteq 0..MaxInt /\ Offsets \subseteq 0..MaxInt

VARIABLES
    part,    \* which of them the behaviour is of
    fileLength, offset, readError, completedUnitCount, progressLock, stage, request, filled,
    pending, calls, reportedBytes, delivered,
    contents, serial,
    state, lock, found, handed,
    descriptor, content, stream, entry

Reader == INSTANCE FileReader WITH reported <- reportedBytes
Cache == INSTANCE BoundedCache
Random == INSTANCE RandomState
Casts == INSTANCE CastCache

readerVars == <<fileLength, offset, readError, completedUnitCount, progressLock, stage, request,
                filled, pending, calls, reportedBytes, delivered>>
cacheVars == <<contents, serial>>
randomVars == <<state, lock, found, handed>>
castsVars == <<descriptor, content, stream, entry>>

Rest == {}
RandomRest == state = Rest /\ lock = Rest /\ found = Rest /\ handed = Rest
CastsRest == descriptor = Rest /\ content = Rest /\ stream = Rest /\ entry = Rest

\* The probe, the reader and the cache rest in their initial state.
ObjectsInit ==
    /\ Init /\ Reader!Init /\ Cache!Init
    /\ \/ part \in {"probe", "reader", "cache"} /\ RandomRest /\ CastsRest
       \/ part = "random" /\ Random!Init /\ CastsRest
       \/ part = "casts" /\ Casts!Init /\ RandomRest

ObjectsNext ==
    /\ UNCHANGED part
    /\ \/ /\ part = "probe" /\ Next
          /\ UNCHANGED <<readerVars, cacheVars, randomVars, castsVars>>
       \/ /\ part = "reader" /\ Reader!Next
          /\ UNCHANGED <<vars, cacheVars, randomVars, castsVars>>
       \/ /\ part = "cache" /\ Cache!Next
          /\ UNCHANGED <<vars, readerVars, randomVars, castsVars>>
       \/ /\ part = "random" /\ Random!Next
          /\ UNCHANGED <<vars, readerVars, cacheVars, castsVars>>
       \/ /\ part = "casts" /\ Casts!Next
          /\ UNCHANGED <<vars, readerVars, cacheVars, randomVars>>

ObjectsVars == <<part, vars, readerVars, cacheVars, randomVars, castsVars>>

ObjectsSpec == ObjectsInit /\ [][ObjectsNext]_ObjectsVars

(* FileReader's properties, of the behaviours of a reader.                 *)
ReadReturnsFile == part = "reader" => Reader!ReadReturnsFile
ProgressIsTrue == Reader!ProgressIsTrue

(* BoundedCache's property: the cache implements the list it promises.     *)
EvictsOldest == Cache!EvictsOldest

(* RandomState's property, of the behaviours that draw.                    *)
KeysAreIndependent == part = "random" => Random!KeysAreIndependent

(* CastCache's property, of the behaviours of a cast cache.                *)
CastIsOfCurrent == part = "casts" => Casts!CastIsOfCurrent
=============================================================================
