------------------------------ MODULE CastCache ------------------------------
(***************************************************************************)
(* ConstantArrayCastCache (Source/MLX/ConstantArrayCastCache.swift): the   *)
(* last constant that was cast, and its cast.  It knows the constant by    *)
(* the address of its descriptor.  An array gets a new descriptor when it  *)
(* is updated, and the address of one that nobody refers to is used again. *)
(*                                                                         *)
(* The order of the cache's lock and evalLock is EvalLock's subject.       *)
(***************************************************************************)
CONSTANTS
    Arrays,
    Addresses,
    Constants,
    Tracer,               \* what a descriptor stands for: a constant or a tracer
    Streams,
    Nothing

VARIABLES
    descriptor,    \* the address of each array's descriptor
    content,       \* what the descriptor at each address stands for
    stream,        \* StreamOrDevice.default of the caller
    entry          \* identity, stream, source snapshot, converted

vars == <<descriptor, content, stream, entry>>

Init ==
    /\ descriptor \in [Arrays -> Addresses]
    /\ \A a, b \in Arrays : descriptor[a] = descriptor[b] => a = b
    /\ content \in [Addresses -> Constants]
    /\ stream \in Streams
    /\ entry = Nothing

\* Faulty: the entry remembers the address and does not retain the descriptor.
RetainedFaulty == {}

\* The snapshot pins its descriptor.
Retained == IF entry = Nothing THEN {} ELSE {entry.sourceSnapshot}

\* Module.update, indexed assignment, or a trace gives the array another
\* descriptor.
Update(a) ==
    /\ \E address \in Addresses \ (Retained \union {descriptor[b] : b \in Arrays}) :
          /\ descriptor' = [descriptor EXCEPT ![a] = address]
          /\ \E c \in Constants \union {Tracer} : content' = [content EXCEPT ![address] = c]
    /\ UNCHANGED <<stream, entry>>

\* The caller works on another default stream.
SetDefaultStream ==
    /\ stream' \in Streams
    /\ UNCHANGED <<descriptor, content, entry>>

\* _mlx_array_constant_cache_identity
CanCache(a) == content[descriptor[a]] # Tracer

Hit(a) ==
    /\ entry # Nothing
    /\ entry.identity = descriptor[a] /\ entry.stream = stream

Converted(a) == [of |-> content[descriptor[a]], on |-> stream]

\* What cachedCast returns; nil leaves the cast to the caller.
Answer(a) ==
    IF ~CanCache(a) THEN Nothing ELSE IF Hit(a) THEN entry.converted ELSE Converted(a)

CachedCast(a) ==
    /\ CanCache(a) /\ ~Hit(a)
    /\ entry' = [identity |-> descriptor[a], stream |-> stream,
                 sourceSnapshot |-> descriptor[a], converted |-> Converted(a)]
    /\ UNCHANGED <<descriptor, content, stream>>

Clear ==
    /\ entry' = Nothing
    /\ UNCHANGED <<descriptor, content, stream>>

Next == (\E a \in Arrays : Update(a) \/ CachedCast(a)) \/ SetDefaultStream \/ Clear

-----------------------------------------------------------------------------
(* Whatever cachedCast would return for an array is the cast of what the   *)
(* array stands for now, made for the caller's stream: a cached one is not *)
(* found again for a newer descriptor at the same address, nor on another  *)
(* stream, and none is ever made of a tracer.                              *)
CastIsOfCurrent ==
    \A a \in Arrays : Answer(a) # Nothing =>
        /\ Answer(a) = [of |-> content[descriptor[a]], on |-> stream]
        /\ Answer(a).of # Tracer
=============================================================================
