-------------------------- MODULE CompiledFunctions --------------------------
(***************************************************************************)
(* CompiledFunction (Source/MLX/Transforms+Compile.swift): the traced      *)
(* graphs it keeps and the state it swaps with tracers.                    *)
(*                                                                         *)
(* MLX keeps one cache of graphs per thread, keyed by a number and a       *)
(* stream.  The number is the address of the function object, so it comes  *)
(* back once the object is gone.  A graph also bakes in the sealed arrays  *)
(* reachable from the inputs.  While a function is traced its unsealed     *)
(* inputs hold tracers, and its body may call other compiled functions.    *)
(*                                                                         *)
(* A call holds evalLock throughout (EvalLock), so the open calls are one  *)
(* stack, owned by one thread.                                             *)
(***************************************************************************)
EXTENDS Naturals

CONSTANTS
    Threads, Functions,
    Addresses,       \* where function objects live
    Streams,         \* default streams of the calling tasks
    Consts,          \* sealed arrays that can be bound in a function's inputs
    Cells,           \* unsealed arrays reachable from inputs or outputs
    Inputs, Outputs, \* the cells each function observes, and updates
    Rebinding,       \* cells whose owner puts a new array object in the slot when
                     \* it updates them: a random state, an optimizer's state
    Observing,       \* functions whose list of inputs is not empty
    MaxDepth,        \* bound of the calls nested in each other
    NoThread, NoConst, NoGraph, NoFrame, NoAddress

ASSUME FunctionsAssumption ==
    /\ Inputs \in [Functions -> SUBSET Cells]
    /\ Outputs \in [Functions -> SUBSET Cells]
    /\ \A f \in Functions : Inputs[f] # {} => f \in Observing
    /\ Rebinding \subseteq Cells
    /\ MaxDepth \in Nat
    /\ NoThread \notin Threads /\ NoConst \notin Consts /\ NoAddress \notin Addresses

VARIABLES
    addr,            \* each live function's address, its id
    sealed,          \* the sealed arrays now bound in each function's inputs
    tracedConstants, \* those its graphs were traced with
    caches,          \* the threads whose cache each function has used
    cache,           \* the backend's graphs, per thread
    owner,           \* the thread that holds evalLock
    depth, frame,    \* the open calls, innermost last
    state,           \* what each cell holds: 0 for an array, n for a tracer
                     \* of the trace begun at depth n
    rebound          \* the depth at which each cell got the object it holds,
                     \* 0 if before the open calls

vars == <<addr, sealed, tracedConstants, caches, cache, owner, depth, frame, state, rebound>>

Graph == [id : Addresses, stream : Streams, fun : Functions, const : Consts]

Frame == [fun : Functions, stream : Streams, stage : {"body", "run"},
          graph : Graph \union {NoGraph}, level : 1..MaxDepth,
          saved : [Cells -> 0..MaxDepth], captured : [Cells -> 0..MaxDepth]]

ASSUME MarkersAssumption == NoGraph \notin Graph /\ NoFrame \notin Frame

Live(f) == addr[f] # NoAddress
Open == {frame[i].fun : i \in 1..depth}
Top == frame[depth]

\* Swift code outside the library runs: no call is open, or a body is traced.
InSwift == depth > 0 => Top.stage = "body"

Init ==
    /\ addr = [f \in Functions |-> NoAddress]
    /\ sealed \in [Functions -> Consts]
    /\ tracedConstants = [f \in Functions |-> NoConst]
    /\ caches = [f \in Functions |-> {}]
    /\ cache = [t \in Threads |-> {}]
    /\ owner = NoThread
    /\ depth = 0
    /\ frame = [i \in 1..MaxDepth |-> NoFrame]
    /\ state = [c \in Cells |-> 0]
    /\ rebound = [c \in Cells |-> 0]

-----------------------------------------------------------------------------
\* Function objects and their sealed state.

\* A new object may get the address of one that is gone.
Create(f, a) ==
    /\ ~Live(f)
    /\ \A g \in Functions : addr[g] # a
    /\ addr' = [addr EXCEPT ![f] = a]
    /\ UNCHANGED <<sealed, tracedConstants, caches, cache, owner, depth, frame, state, rebound>>

\* Faulty: only the cache of one thread is erased.
EraseOneFaulty(f, threads) ==
    LET one == CHOOSE t \in threads : TRUE IN
    IF threads = {} THEN cache
    ELSE [cache EXCEPT ![one] = {g \in @ : g.id # addr[f]}]

\* eraseCaches, for the threads in the function's caches
EraseCaches(f, threads) ==
    [t \in Threads |-> IF t \in threads THEN {g \in cache[t] : g.id # addr[f]} ELSE cache[t]]

\* The last reference goes away, on a thread that gets evalLock: no other
\* thread is inside a call.
Deinit(f) ==
    /\ Live(f) /\ f \notin Open /\ InSwift
    /\ cache' = EraseCaches(f, caches[f])
    /\ addr' = [addr EXCEPT ![f] = NoAddress]
    /\ tracedConstants' = [tracedConstants EXCEPT ![f] = NoConst]
    /\ caches' = [caches EXCEPT ![f] = {}]
    /\ UNCHANGED <<sealed, owner, depth, frame, state, rebound>>

\* The program binds other sealed arrays in the inputs.  A function with
\* inputs is not Sendable, so not during a call of it.
Rebind(f, c) ==
    /\ Live(f) /\ f \in Observing /\ f \notin Open
    /\ sealed' = [sealed EXCEPT ![f] = c]
    /\ UNCHANGED <<addr, tracedConstants, caches, cache, owner, depth, frame, state, rebound>>

\* The thread's cache goes with it.  The handles that functions keep are weak.
ThreadExit(t) ==
    /\ owner # t
    /\ cache' = [cache EXCEPT ![t] = {}]
    /\ caches' = [f \in Functions |-> caches[f] \ {t}]
    /\ UNCHANGED <<addr, sealed, tracedConstants, owner, depth, frame, state, rebound>>

-----------------------------------------------------------------------------
\* The call.

\* Faulty: rebound constants are never noticed.
RebindMissedFaulty(f) == FALSE

\* The graphs were traced with other sealed arrays.
Stale(f) == f \in Observing /\ tracedConstants[f] \notin {NoConst, sealed[f]}

\* A body that a call is made from lists what the call updates.
MayCall(t, f) ==
    /\ Live(f) /\ depth < MaxDepth /\ InSwift
    /\ depth > 0 => owner = t /\ Outputs[f] \subseteq Outputs[Top.fun]

\* The graphs that stay: all caches the function has used are erased if its
\* sealed arrays are not those of the last call.
Kept(t, f) == IF Stale(f) THEN EraseCaches(f, caches[f] \union {t}) ELSE cache

\* Every call first registers the thread's cache and compares the sealed arrays.
Gather(t, f) ==
    /\ caches' = [caches EXCEPT ![f] = @ \union {t}]
    /\ cache' = Kept(t, f)
    /\ tracedConstants' =
         IF f \in Observing THEN [tracedConstants EXCEPT ![f] = sealed[f]] ELSE tracedConstants
    /\ UNCHANGED <<addr, sealed, rebound>>

Push(t, f, s, stage, graph, level) ==
    /\ depth' = depth + 1
    /\ owner' = t
    /\ frame' = [frame EXCEPT ![depth + 1] =
                   [fun |-> f, stream |-> s, stage |-> stage, graph |-> graph,
                    level |-> level, saved |-> state, captured |-> state]]

\* mlx_detail_compile reports an error: the call returns nothing.
CallUncompiled(t, f) ==
    /\ MayCall(t, f)
    /\ Gather(t, f)
    /\ UNCHANGED <<owner, depth, frame, state>>

\* Faulty: the graph may be one traced on another stream.
IsCachedFaulty(g, f, s) == g.id = addr[f]

IsCached(g, f, s) == g.id = addr[f] /\ g.stream = s

\* The thread's cache has a graph for this id and stream.  Its inputs are
\* arrays, not tracers of an enclosing trace.
CallCached(t, f, s) ==
    /\ MayCall(t, f) /\ f \notin Open
    /\ \A c \in Inputs[f] : state[c] = 0
    /\ Gather(t, f)
    /\ \E g \in Kept(t, f)[t] : IsCached(g, f, s) /\ Push(t, f, s, "run", g, depth + 1)
    /\ UNCHANGED state

\* No graph yet: the inputs are replaced by tracers and the body runs.
CallTraced(t, f, s) ==
    /\ MayCall(t, f) /\ f \notin Open
    /\ \A c \in Inputs[f] : state[c] = 0
    /\ Gather(t, f)
    /\ \A g \in Kept(t, f)[t] : ~IsCached(g, f, s)
    /\ Push(t, f, s, "body", NoGraph, depth + 1)
    /\ state' = [c \in Cells |-> IF c \in Inputs[f] THEN depth + 1 ELSE state[c]]

\* An input or an argument is a tracer of the enclosing trace: the body runs
\* again, inside that trace, and no graph is looked up or kept.
CallInTrace(t, f, s) ==
    /\ MayCall(t, f) /\ depth > 0
    /\ Gather(t, f)
    /\ Push(t, f, s, "body", NoGraph, Top.level)
    /\ UNCHANGED state

-----------------------------------------------------------------------------
\* The body, and what becomes of its result.

\* The body replaces a cell by a result it computed, or by a constant: the
\* contents of the array object in the slot, or the object itself.
Mutate(c) ==
    /\ depth > 0 /\ Top.stage = "body"
    /\ c \in Outputs[Top.fun]
    /\ \E v \in {0, Top.level} : state' = [state EXCEPT ![c] = v]
    /\ rebound' = IF c \in Rebinding THEN [rebound EXCEPT ![c] = depth] ELSE rebound
    /\ UNCHANGED <<addr, sealed, tracedConstants, caches, cache, owner, depth, frame>>

\* Faulty: what the function updates is not put back.
RestoredFaulty ==
    [c \in Cells |-> IF c \in Inputs[Top.fun] \ Outputs[Top.fun]
                       THEN Top.saved[c] ELSE state[c]]

\* The input objects gathered before the trace get their values from before it
\* back; an object that has come into the slot since is not one of them.
Restored ==
    [c \in Cells |-> IF c \in Inputs[Top.fun] /\ rebound[c] < depth
                       THEN Top.saved[c] ELSE state[c]]

Traced ==
    [id |-> addr[Top.fun], stream |-> Top.stream, fun |-> Top.fun, const |-> sealed[Top.fun]]

\* The body returns and the state it leaves is captured.  A trace of its own
\* becomes a graph in the thread's cache.
EndBody ==
    /\ depth > 0 /\ Top.stage = "body"
    /\ state' = Restored
    /\ LET graph == IF Top.level = depth THEN Traced ELSE NoGraph IN
         /\ frame' = [frame EXCEPT ![depth] =
                        [@ EXCEPT !.stage = "run", !.graph = graph, !.captured = state]]
         /\ cache' = IF graph = NoGraph THEN cache
                     ELSE [cache EXCEPT ![owner] = @ \union {graph}]
    /\ UNCHANGED <<addr, sealed, tracedConstants, caches, owner, depth, rebound>>

\* To the calls that stay open, the call that ends is one of their own.
Older == [c \in Cells |-> IF rebound[c] = depth THEN depth - 1 ELSE rebound[c]]

Pop ==
    /\ depth' = depth - 1
    /\ frame' = [frame EXCEPT ![depth] = NoFrame]
    /\ rebound' = Older
    /\ owner' = IF depth = 1 THEN NoThread ELSE owner
    /\ UNCHANGED <<addr, sealed, tracedConstants, caches, cache>>

\* An operation of the body failed, and with it the trace: no graph.
FailTrace ==
    /\ depth > 0 /\ Top.stage = "body"
    /\ state' = Restored
    /\ Pop

\* Faulty: the outputs are pushed whether or not the graph ran.
FailApplyFaulty ==
    /\ depth > 0 /\ Top.stage = "run"
    /\ state' = [c \in Cells |-> IF c \in Outputs[Top.fun] THEN Top.captured[c] ELSE state[c]]
    /\ Pop

\* mlx_closure_apply reports an error after the trace.
FailApply ==
    /\ depth > 0 /\ Top.stage = "run"
    /\ UNCHANGED state
    /\ Pop

\* What an output gets: an array the graph computed, or the enclosing trace's
\* result.
Pushed(c) == IF Top.graph # NoGraph THEN 0 ELSE Top.captured[c]

Return ==
    /\ depth > 0 /\ Top.stage = "run"
    /\ state' = [c \in Cells |-> IF c \in Outputs[Top.fun] THEN Pushed(c) ELSE state[c]]
    /\ Pop

Next ==
    \/ \E f \in Functions, a \in Addresses : Create(f, a)
    \/ \E f \in Functions : Deinit(f)
    \/ \E f \in Functions, c \in Consts : Rebind(f, c)
    \/ \E t \in Threads : ThreadExit(t)
    \/ \E t \in Threads, f \in Functions : CallUncompiled(t, f)
    \/ \E t \in Threads, f \in Functions, s \in Streams :
          CallCached(t, f, s) \/ CallTraced(t, f, s) \/ CallInTrace(t, f, s)
    \/ \E c \in Cells : Mutate(c)
    \/ EndBody \/ FailTrace \/ FailApply \/ Return

Spec == Init /\ [][Next]_vars

-----------------------------------------------------------------------------
TypeOK ==
    /\ addr \in [Functions -> Addresses \union {NoAddress}]
    /\ sealed \in [Functions -> Consts]
    /\ tracedConstants \in [Functions -> Consts \union {NoConst}]
    /\ caches \in [Functions -> SUBSET Threads]
    /\ cache \in [Threads -> SUBSET Graph]
    /\ owner \in Threads \union {NoThread}
    /\ depth \in 0..MaxDepth
    /\ frame \in [1..MaxDepth -> Frame \union {NoFrame}]
    /\ \A i \in 1..MaxDepth : frame[i] # NoFrame <=> i <= depth
    /\ owner # NoThread <=> depth > 0
    /\ state \in [Cells -> 0..MaxDepth]
    /\ rebound \in [Cells -> 0..depth]
    /\ \A c \in Cells \ Rebinding : rebound[c] = 0

(* A call runs the graph of its own function object, traced on the stream  *)
(* of the calling task and with the sealed arrays bound now.               *)
GraphIsOfThisCall ==
    \A i \in 1..depth : frame[i].graph # NoGraph =>
        /\ frame[i].graph.fun = frame[i].fun
        /\ frame[i].graph.stream = frame[i].stream
        /\ frame[i].graph.const = sealed[frame[i].fun]

(* Once a function is gone no thread's cache has a graph under its address.*)
NoGraphOutlivesFunction ==
    \A t \in Threads : \A g \in cache[t] : addr[g.fun] = g.id

(* Outside a trace no state holds one of its tracers, however calls nest   *)
(* and fail.                                                               *)
NoTracerOutlivesTrace ==
    \A c \in Cells : state[c] # 0 => \E i \in 1..depth : frame[i].level = state[c]

(* A call that fails leaves all state as the call found it.                *)
FailedCallKeepsState ==
    [][FailTrace \/ FailApply => state' = Top.saved]_vars
=============================================================================
