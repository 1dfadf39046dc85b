----------------------- MODULE CompiledFunctionsProofs -----------------------
(***************************************************************************)
(* What TLAPS proves of CompiledFunctions, for any threads, functions,     *)
(* streams and depth of nesting.                                           *)
(***************************************************************************)
EXTENDS CompiledFunctions, TLAPS

\* The sealed arrays that f's graphs hold.
Baked(f) == IF f \in Observing THEN tracedConstants[f] ELSE sealed[f]

\* No two live functions share an address, and a thread that has run a call
\* in progress is registered with its function.
CallInv ==
    /\ \A f, g \in Functions : Live(f) /\ addr[f] = addr[g] => f = g
    /\ \A i \in 1..depth :
          /\ Live(frame[i].fun) /\ owner \in caches[frame[i].fun]
          /\ frame[i].fun \in Observing => tracedConstants[frame[i].fun] = sealed[frame[i].fun]

\* Every cached graph is registered with the live function that traced it.
CacheInv ==
    \A t \in Threads : \A g \in cache[t] :
        addr[g.fun] = g.id /\ t \in caches[g.fun] /\ g.const = Baked(g.fun)

GInv == TypeOK /\ CallInv /\ CacheInv /\ GraphIsOfThisCall

\* v is no tracer, or one of a trace begun by one of the first n frames.
Valid(v, n, frames) == v = 0 \/ (v \in 1..n /\ frames[v].level = v)

\* A call has a trace of its own, or runs in one around it, and updates only
\* what the calls around it update.
LevelInv ==
    \A i \in 1..depth :
        /\ frame[i].level \in 1..i /\ frame[frame[i].level].level = frame[i].level
        /\ frame[i].stage = "run" => i = depth
        /\ frame[i].stage = "run" /\ frame[i].level = i => frame[i].graph # NoGraph
        /\ \A j \in i..depth : Outputs[frame[j].fun] \subseteq Outputs[frame[i].fun]

\* A call's snapshot holds tracers of the calls around it only.  A cell that
\* the call does not observe is as in the snapshot when the next call begins.
CellInv(c, cells, n, frames) ==
    /\ Valid(cells[c], n, frames)
    /\ \A i \in 1..n :
          /\ Valid(frames[i].saved[c], i - 1, frames)
          /\ Valid(frames[i].captured[c], i, frames)
          /\ frames[i].stage = "run" => cells[c] = frames[i].saved[c]
          /\ c \notin Inputs[frames[i].fun] =>
                frames[i].saved[c] = IF i = n THEN cells[c] ELSE frames[i + 1].saved[c]

TracerInv == \A c \in Cells : CellInv(c, state, depth, frame)

TInv == GInv /\ LevelInv /\ TracerInv

-----------------------------------------------------------------------------
(* Types.                                                                  *)
LEMMA EraseType ==
    ASSUME TypeOK, NEW f, NEW threads
    PROVE  EraseCaches(f, threads) \in [Threads -> SUBSET Graph]
BY DEF TypeOK, EraseCaches

LEMMA KeptType ==
    ASSUME TypeOK, NEW t, NEW f
    PROVE  Kept(t, f) \in [Threads -> SUBSET Graph]
BY EraseType DEF TypeOK, Kept

\* The innermost call is a frame.
LEMMA TopType ==
    ASSUME TypeOK, depth > 0
    PROVE  Top \in Frame /\ depth \in 1..MaxDepth
BY FunctionsAssumption DEF TypeOK, Top

LEMMA GatherType ==
    ASSUME TypeOK, NEW t \in Threads, NEW f \in Functions, Gather(t, f)
    PROVE  /\ caches' \in [Functions -> SUBSET Threads]
           /\ cache' \in [Threads -> SUBSET Graph]
           /\ tracedConstants' \in [Functions -> Consts \union {NoConst}]
BY KeptType DEF TypeOK, Gather

LEMMA PushType ==
    ASSUME TypeOK, NEW t \in Threads, NEW f \in Functions, NEW s \in Streams,
           NEW stage \in {"body", "run"}, NEW graph \in Graph \union {NoGraph},
           NEW level \in 1..MaxDepth, depth < MaxDepth,
           Push(t, f, s, stage, graph, level)
    PROVE  /\ depth' \in 0..MaxDepth /\ depth' > 0 /\ depth' = depth + 1
           /\ frame' \in [1..MaxDepth -> Frame \union {NoFrame}]
           /\ \A i \in 1..MaxDepth : frame'[i] # NoFrame <=> i <= depth'
           /\ owner' \in Threads /\ owner' # NoThread
<1>1. depth' = depth + 1 /\ depth \in Nat /\ depth + 1 \in 1..MaxDepth /\ MaxDepth \in Nat
  BY FunctionsAssumption DEF TypeOK, Push
<1> DEFINE new == [fun |-> f, stream |-> s, stage |-> stage, graph |-> graph,
                   level |-> level, saved |-> state, captured |-> state]
<1>2. new \in Frame /\ new # NoFrame
  <2>1. new \in Frame
    BY DEF Frame, TypeOK
  <2> QED
    BY <2>1, MarkersAssumption
<1>3. frame' = [frame EXCEPT ![depth + 1] = new]
  BY DEF Push
<1> HIDE DEF new
<1>4. \A i \in 1..MaxDepth : frame'[i] # NoFrame <=> i <= depth'
  BY <1>1, <1>2, <1>3 DEF TypeOK
<1> QED
  BY <1>1, <1>2, <1>3, <1>4, FunctionsAssumption DEF Push, TypeOK

LEMMA PopType ==
    ASSUME TypeOK, depth > 0, Pop, state' \in [Cells -> 0..MaxDepth]
    PROVE  TypeOK'
<1>1. depth \in 1..MaxDepth /\ depth' = depth - 1 /\ MaxDepth \in Nat
  BY TopType, FunctionsAssumption DEF Pop
<1>2. \A i \in 1..MaxDepth : frame'[i] # NoFrame <=> i <= depth'
  BY <1>1 DEF TypeOK, Pop
<1>3. owner' # NoThread <=> depth' > 0
  BY <1>1 DEF TypeOK, Pop
<1>4. frame' \in [1..MaxDepth -> Frame \union {NoFrame}]
  BY <1>1 DEF TypeOK, Pop
<1>5. depth' \in 0..MaxDepth /\ owner' \in Threads \union {NoThread}
  BY <1>1 DEF TypeOK, Pop
<1>6. rebound' \in [Cells -> 0..depth'] /\ \A c \in Cells \ Rebinding : rebound'[c] = 0
  BY <1>1 DEF TypeOK, Pop, Older
<1>7. UNCHANGED <<addr, sealed, tracedConstants, caches, cache>>
  BY DEF Pop
<1> QED
  BY <1>2, <1>3, <1>4, <1>5, <1>6, <1>7 DEF TypeOK

LEMMA RestoredType ==
    ASSUME TypeOK, depth > 0
    PROVE  Restored \in [Cells -> 0..MaxDepth]
BY TopType DEF TypeOK, Restored, Frame

LEMMA InitType == Init => TypeOK
BY FunctionsAssumption DEF Init, TypeOK

LEMMA CallType ==
    ASSUME TypeOK, NEW t \in Threads, NEW f \in Functions,
           \/ CallUncompiled(t, f)
           \/ \E s \in Streams : CallCached(t, f, s) \/ CallTraced(t, f, s) \/ CallInTrace(t, f, s)
    PROVE  TypeOK'
<1>1. /\ Gather(t, f) /\ addr' = addr /\ sealed' = sealed /\ rebound' = rebound
      /\ caches' \in [Functions -> SUBSET Threads]
      /\ cache' \in [Threads -> SUBSET Graph]
      /\ tracedConstants' \in [Functions -> Consts \union {NoConst}]
  <2>1. Gather(t, f)
    BY DEF CallUncompiled, CallCached, CallTraced, CallInTrace
  <2> QED
    BY <2>1, GatherType DEF Gather
<1>2. CASE CallUncompiled(t, f)
  BY <1>1, <1>2 DEF TypeOK, CallUncompiled
<1>3. ASSUME NEW s \in Streams,
             CallCached(t, f, s) \/ CallTraced(t, f, s) \/ CallInTrace(t, f, s)
      PROVE  TypeOK'
  <2>1. depth < MaxDepth /\ depth \in Nat /\ MaxDepth \in Nat
    BY <1>3, FunctionsAssumption DEF TypeOK, CallCached, CallTraced, CallInTrace, MayCall
  <2>2. \E stage \in {"body", "run"}, graph \in Graph \union {NoGraph}, level \in 1..MaxDepth :
            Push(t, f, s, stage, graph, level)
    <3>1. CASE CallCached(t, f, s)
      BY <2>1, <3>1, KeptType DEF CallCached
    <3>2. CASE CallTraced(t, f, s)
      BY <2>1, <3>2 DEF CallTraced
    <3>3. CASE CallInTrace(t, f, s)
      <4>1. depth > 0 /\ Top \in Frame
        BY <3>3, TopType DEF CallInTrace
      <4> QED
        BY <2>1, <3>3, <4>1 DEF CallInTrace, Frame
    <3> QED
      BY <1>3, <3>1, <3>2, <3>3
  <2>3. state' \in [Cells -> 0..MaxDepth]
    BY <1>3, <2>1 DEF TypeOK, CallCached, CallTraced, CallInTrace
  <2> QED
    <3>1. PICK stage \in {"body", "run"}, graph \in Graph \union {NoGraph}, level \in 1..MaxDepth :
               Push(t, f, s, stage, graph, level)
      BY <2>2
    <3>2. /\ depth' \in 0..MaxDepth /\ depth' > 0 /\ depth' = depth + 1
          /\ frame' \in [1..MaxDepth -> Frame \union {NoFrame}]
          /\ \A i \in 1..MaxDepth : frame'[i] # NoFrame <=> i <= depth'
          /\ owner' \in Threads /\ owner' # NoThread
      BY <2>1, <3>1, PushType
    <3>3. rebound' \in [Cells -> 0..depth'] /\ \A c \in Cells \ Rebinding : rebound'[c] = 0
      BY <1>1, <2>1, <3>2 DEF TypeOK
    <3> QED
      BY <1>1, <2>3, <3>2, <3>3 DEF TypeOK
<1> QED
  BY <1>2, <1>3

\* The body's result becomes a graph of the live function that was traced.
LEMMA EndBodyType ==
    ASSUME TypeOK, CallInv, EndBody,
           NEW graph, graph = IF Top.level = depth THEN Traced ELSE NoGraph
    PROVE  /\ TypeOK'
           /\ graph \in Graph \union {NoGraph}
           /\ frame' = [frame EXCEPT ![depth] =
                          [@ EXCEPT !.stage = "run", !.graph = graph, !.captured = state]]
           /\ cache' = IF graph = NoGraph THEN cache
                       ELSE [cache EXCEPT ![owner] = @ \union {graph}]
<1>1. Top \in Frame /\ depth \in 1..MaxDepth /\ depth \in 1..depth /\ owner \in Threads
  BY TopType, FunctionsAssumption DEF EndBody, TypeOK
<1>2. graph \in Graph \union {NoGraph}
  <2>1. addr[Top.fun] \in Addresses
    BY <1>1 DEF CallInv, Live, TypeOK, Frame, Top
  <2>2. Traced \in Graph
    BY <1>1, <2>1 DEF Traced, Graph, Frame, TypeOK
  <2> QED
    BY <2>2
<1>3. /\ frame' = [frame EXCEPT ![depth] =
                     [@ EXCEPT !.stage = "run", !.graph = graph, !.captured = state]]
      /\ cache' = IF graph = NoGraph THEN cache
                  ELSE [cache EXCEPT ![owner] = @ \union {graph}]
  BY DEF EndBody
<1>4. cache' \in [Threads -> SUBSET Graph]
  BY <1>1, <1>2, <1>3 DEF TypeOK
<1>5. [Top EXCEPT !.stage = "run", !.graph = graph, !.captured = state] \in Frame
  BY <1>1, <1>2 DEF Frame, TypeOK
<1>6. /\ frame' \in [1..MaxDepth -> Frame \union {NoFrame}]
      /\ \A i \in 1..MaxDepth : frame'[i] # NoFrame <=> i <= depth
  BY <1>1, <1>3, <1>5, MarkersAssumption DEF TypeOK, Top
<1>7. state' \in [Cells -> 0..MaxDepth]
  BY RestoredType DEF EndBody
<1> QED
  BY <1>2, <1>3, <1>4, <1>6, <1>7 DEF EndBody, TypeOK

LEMMA OthersType ==
    ASSUME TypeOK,
           \/ \E f \in Functions, a \in Addresses : Create(f, a)
           \/ \E f \in Functions : Deinit(f)
           \/ \E f \in Functions, c \in Consts : Rebind(f, c)
           \/ \E t \in Threads : ThreadExit(t)
           \/ \E c \in Cells : Mutate(c)
           \/ FailTrace \/ FailApply \/ Return
           \/ UNCHANGED vars
    PROVE  TypeOK'
<1>1. CASE \E f \in Functions, a \in Addresses : Create(f, a)
  BY <1>1 DEF Create, TypeOK
<1>2. CASE \E f \in Functions : Deinit(f)
  BY <1>2, EraseType DEF Deinit, TypeOK
<1>3. CASE \E f \in Functions, c \in Consts : Rebind(f, c)
  BY <1>3 DEF Rebind, TypeOK
<1>4. CASE \E t \in Threads : ThreadExit(t)
  BY <1>4 DEF ThreadExit, TypeOK
<1>5. CASE \E c \in Cells : Mutate(c)
  <2>1. Top \in Frame
    BY <1>5, TopType DEF Mutate
  <2>2. Top.level \in 0..MaxDepth /\ 0 \in 0..MaxDepth
    BY <2>1, FunctionsAssumption DEF Frame
  <2> QED
    BY <1>5, <2>2 DEF Mutate, TypeOK
<1>6. CASE FailTrace
  BY <1>6, RestoredType, PopType DEF FailTrace
<1>7. CASE FailApply
  BY <1>7, PopType DEF FailApply, TypeOK
<1>8. CASE Return
  <2>1. Top \in Frame
    BY <1>8, TopType DEF Return
  <2>2. \A c \in Cells : Pushed(c) \in 0..MaxDepth
    BY <2>1, FunctionsAssumption DEF Pushed, Frame
  <2>3. state' \in [Cells -> 0..MaxDepth]
    BY <1>8, <2>2 DEF Return, TypeOK
  <2> QED
    BY <1>8, <2>3, PopType DEF Return
<1>9. CASE UNCHANGED vars
  BY <1>9 DEF vars, TypeOK
<1> QED
  BY <1>1, <1>2, <1>3, <1>4, <1>5, <1>6, <1>7, <1>8, <1>9

-----------------------------------------------------------------------------
(* The graphs.                                                             *)
LEMMA InitG == Init => GInv
<1> SUFFICES ASSUME Init PROVE GInv
  OBVIOUS
<1>1. TypeOK
  BY InitType
<1> QED
  BY <1>1 DEF Init, GInv, CallInv, CacheInv, GraphIsOfThisCall, Live

\* What a call does before it runs anything.
LEMMA GatherG ==
    ASSUME GInv, NEW t \in Threads, NEW f \in Functions, Gather(t, f), MayCall(t, f)
    PROVE  /\ CacheInv'
           /\ t \in caches'[f] /\ \A g \in Functions : caches[g] \subseteq caches'[g]
           /\ f \in Observing => tracedConstants'[f] = sealed[f]
           /\ \A g \in Functions : g # f => tracedConstants'[g] = tracedConstants[g]
           /\ addr' = addr /\ sealed' = sealed
           /\ \A g \in cache'[t] : g.id = addr[f] => g.fun = f /\ g.const = sealed[f]
<1> USE DEF GInv
<1>1. /\ addr' = addr /\ sealed' = sealed
      /\ caches' = [caches EXCEPT ![f] = @ \union {t}]
      /\ cache' = Kept(t, f)
      /\ tracedConstants' = IF f \in Observing THEN [tracedConstants EXCEPT ![f] = sealed[f]]
                            ELSE tracedConstants
  BY DEF Gather
<1>2. /\ t \in caches'[f] /\ \A g \in Functions : caches[g] \subseteq caches'[g]
      /\ f \in Observing => tracedConstants'[f] = sealed[f]
      /\ \A g \in Functions : g # f => tracedConstants'[g] = tracedConstants[g]
  BY <1>1 DEF TypeOK
<1>3. \A u \in Threads : cache'[u] \subseteq cache[u]
  BY <1>1 DEF Kept, EraseCaches, TypeOK
<1>4. ASSUME NEW u \in Threads, NEW g \in cache'[u]
      PROVE  /\ addr'[g.fun] = g.id /\ u \in caches'[g.fun] /\ g.fun \in Functions
             /\ g.const = (IF g.fun \in Observing THEN tracedConstants'[g.fun] ELSE sealed'[g.fun])
             /\ g.id = addr[f] => g.fun = f
  <2>1. g \in cache[u] /\ g \in Graph
    BY <1>3 DEF TypeOK
  <2>2. /\ addr[g.fun] = g.id /\ u \in caches[g.fun] /\ g.const = Baked(g.fun)
        /\ g.fun \in Functions /\ g.const \in Consts
    BY <2>1 DEF CacheInv, Graph
  <2>3. g.id = addr[f] => g.fun = f
    BY <2>2 DEF CallInv, MayCall
  <2>4. ASSUME g.fun = f, f \in Observing PROVE tracedConstants[f] = sealed[f]
    <3>1. tracedConstants[f] # NoConst
      BY <2>2, <2>4, FunctionsAssumption DEF Baked
    <3>2. ~Stale(f)
      <4> SUFFICES ASSUME Stale(f) PROVE FALSE
        OBVIOUS
      <4>1. cache' = EraseCaches(f, caches[f] \union {t})
        BY <1>1 DEF Kept
      <4> QED
        BY <4>1, <2>2, <2>4 DEF EraseCaches
    <3> QED
      BY <3>1, <3>2, <2>4 DEF Stale
  <2>5. g.const = (IF g.fun \in Observing THEN tracedConstants'[g.fun] ELSE sealed'[g.fun])
    <3>1. CASE g.fun = f /\ f \in Observing
      BY <3>1, <2>2, <2>4, <1>1, <1>2 DEF Baked
    <3>2. CASE g.fun # f
      BY <3>2, <2>2, <1>1, <1>2 DEF Baked
    <3>3. CASE g.fun = f /\ f \notin Observing
      BY <3>3, <2>2, <1>1 DEF Baked
    <3> QED
      BY <3>1, <3>2, <3>3
  <2> QED
    BY <1>1, <1>2, <2>2, <2>3, <2>5
<1>5. CacheInv'
  BY <1>4 DEF CacheInv, Baked
<1>6. \A g \in cache'[t] : g.id = addr[f] => g.fun = f /\ g.const = sealed[f]
  BY <1>1, <1>2, <1>4
<1> QED
  BY <1>1, <1>2, <1>5, <1>6

\* The frames below a new one, and the new one.
LEMMA PushFrames ==
    ASSUME TypeOK, NEW t \in Threads, NEW f \in Functions, NEW s \in Streams,
           NEW stage, NEW graph, NEW level, depth < MaxDepth,
           Push(t, f, s, stage, graph, level)
    PROVE  /\ depth' = depth + 1 /\ depth \in Nat
           /\ \A i \in 1..depth : frame'[i] = frame[i]
           /\ frame'[depth + 1] = [fun |-> f, stream |-> s, stage |-> stage, graph |-> graph,
                                   level |-> level, saved |-> state, captured |-> state]
<1>1. depth \in Nat /\ depth + 1 \in 1..MaxDepth /\ MaxDepth \in Nat
  BY FunctionsAssumption DEF TypeOK
<1> QED
  BY <1>1 DEF TypeOK, Push

\* The frames that are left when one goes.
LEMMA PopFrames ==
    ASSUME TypeOK, depth > 0, Pop
    PROVE  /\ depth' = depth - 1 /\ depth \in 1..MaxDepth
           /\ \A i \in 1..depth' : i \in 1..depth /\ frame'[i] = frame[i]
           /\ depth' > 0 => owner' = owner
BY TopType, FunctionsAssumption DEF Pop, TypeOK

LEMMA CallG ==
    ASSUME GInv, NEW t \in Threads, NEW f \in Functions,
           \/ CallUncompiled(t, f)
           \/ \E s \in Streams : CallCached(t, f, s) \/ CallTraced(t, f, s) \/ CallInTrace(t, f, s)
    PROVE  GInv'
<1>1. TypeOK'
  BY CallType DEF GInv
<1>2. Gather(t, f) /\ MayCall(t, f)
  BY DEF CallUncompiled, CallCached, CallTraced, CallInTrace
<1>3. /\ CacheInv'
      /\ t \in caches'[f] /\ \A g \in Functions : caches[g] \subseteq caches'[g]
      /\ f \in Observing => tracedConstants'[f] = sealed[f]
      /\ \A g \in Functions : g # f => tracedConstants'[g] = tracedConstants[g]
      /\ addr' = addr /\ sealed' = sealed
      /\ \A g \in cache'[t] : g.id = addr[f] => g.fun = f /\ g.const = sealed[f]
  BY <1>2, GatherG
<1>4. \A i \in 1..depth : frame[i].fun \in Functions /\ frame[i] \in Frame
  BY FunctionsAssumption DEF GInv, TypeOK, Frame
<1>5. ASSUME NEW i \in 1..depth
      PROVE  /\ addr'[frame[i].fun] # NoAddress /\ owner \in caches'[frame[i].fun]
             /\ frame[i].fun \in Observing =>
                   tracedConstants'[frame[i].fun] = sealed'[frame[i].fun]
             /\ frame[i].graph # NoGraph =>
                  /\ frame[i].graph.fun = frame[i].fun
                  /\ frame[i].graph.stream = frame[i].stream
                  /\ frame[i].graph.const = sealed'[frame[i].fun]
  <2>1. PICK h \in Functions : h = frame[i].fun
    BY <1>4
  <2>2. /\ addr[h] # NoAddress /\ owner \in caches[h]
        /\ h \in Observing => tracedConstants[h] = sealed[h]
    BY <2>1 DEF GInv, CallInv, Live
  <2>3. h \in Observing => tracedConstants'[h] = sealed'[h]
    BY <1>3, <2>2
  <2>4. frame[i].graph # NoGraph =>
            /\ frame[i].graph.fun = frame[i].fun
            /\ frame[i].graph.stream = frame[i].stream
            /\ frame[i].graph.const = sealed[frame[i].fun]
    BY DEF GInv, GraphIsOfThisCall
  <2>5. owner \in caches'[h] /\ addr'[h] # NoAddress /\ sealed' = sealed
    BY <1>3, <2>2
  <2> QED
    BY <2>1, <2>3, <2>4, <2>5
<1>6. \A g, h \in Functions : addr'[g] # NoAddress /\ addr'[g] = addr'[h] => g = h
  BY <1>3 DEF GInv, CallInv, Live
<1>7. CASE CallUncompiled(t, f)
  <2>1. depth' = depth /\ frame' = frame /\ owner' = owner
    BY <1>7 DEF CallUncompiled
  <2> QED
    BY <1>1, <1>3, <1>5, <1>6, <2>1 DEF GInv, CallInv, GraphIsOfThisCall, Live
<1>8. ASSUME NEW s \in Streams,
             CallCached(t, f, s) \/ CallTraced(t, f, s) \/ CallInTrace(t, f, s)
      PROVE  GInv'
  <2>1. PICK stage, graph, level :
          /\ Push(t, f, s, stage, graph, level)
          /\ \/ graph = NoGraph
             \/ graph \in cache'[t] /\ graph.id = addr[f] /\ graph.stream = s
    BY <1>8 DEF CallCached, CallTraced, CallInTrace, Gather, IsCached
  <2>2. /\ depth' = depth + 1 /\ depth \in Nat
        /\ \A i \in 1..depth : frame'[i] = frame[i]
        /\ frame'[depth + 1] = [fun |-> f, stream |-> s, stage |-> stage, graph |-> graph,
                                level |-> level, saved |-> state, captured |-> state]
    BY <1>2, <2>1, PushFrames DEF GInv, MayCall
  <2>3. owner' = t /\ (depth > 0 => owner' = owner)
    BY <1>2, <2>1 DEF Push, MayCall
  <2>4. ASSUME NEW i \in 1..depth'
        PROVE  /\ addr'[frame'[i].fun] # NoAddress /\ owner' \in caches'[frame'[i].fun]
               /\ frame'[i].fun \in Observing =>
                     tracedConstants'[frame'[i].fun] = sealed'[frame'[i].fun]
               /\ frame'[i].graph # NoGraph =>
                    /\ frame'[i].graph.fun = frame'[i].fun
                    /\ frame'[i].graph.stream = frame'[i].stream
                    /\ frame'[i].graph.const = sealed'[frame'[i].fun]
    <3>1. CASE i \in 1..depth
      <4>1. frame'[i] = frame[i] /\ owner' = owner
        BY <3>1, <2>2, <2>3
      <4> QED
        BY <3>1, <4>1, <1>5
    <3>2. CASE i = depth + 1
      <4>1. /\ frame'[i].fun = f /\ frame'[i].stream = s /\ frame'[i].graph = graph
        BY <3>2, <2>2
      <4>2. addr'[f] # NoAddress /\ owner' \in caches'[f]
        BY <1>2, <1>3, <2>3 DEF Live, MayCall
      <4>3. f \in Observing => tracedConstants'[f] = sealed'[f]
        BY <1>3
      <4>4. graph # NoGraph => graph.fun = f /\ graph.stream = s /\ graph.const = sealed'[f]
        BY <1>3, <2>1
      <4> QED
        BY <4>1, <4>2, <4>3, <4>4
    <3> QED
      BY <2>2, <3>1, <3>2
  <2> QED
    BY <1>1, <1>3, <1>6, <2>4 DEF GInv, CallInv, GraphIsOfThisCall, Live
<1> QED
  BY <1>7, <1>8

LEMMA EndBodyG == ASSUME GInv, EndBody PROVE GInv'
<1> USE DEF GInv
<1>1. PICK graph : graph = IF Top.level = depth THEN Traced ELSE NoGraph
  OBVIOUS
<1>2. /\ TypeOK'
      /\ graph \in Graph \union {NoGraph}
      /\ frame' = [frame EXCEPT ![depth] =
                     [@ EXCEPT !.stage = "run", !.graph = graph, !.captured = state]]
      /\ cache' = IF graph = NoGraph THEN cache
                  ELSE [cache EXCEPT ![owner] = @ \union {graph}]
  BY <1>1, EndBodyType
<1>3. /\ Top \in Frame /\ depth \in 1..MaxDepth /\ depth \in 1..depth /\ owner \in Threads
      /\ depth' = depth /\ owner' = owner /\ addr' = addr /\ sealed' = sealed
      /\ tracedConstants' = tracedConstants /\ caches' = caches
  BY TopType, FunctionsAssumption DEF EndBody, TypeOK
<1>4. /\ Live(Top.fun) /\ owner \in caches[Top.fun] /\ Top.fun \in Functions
      /\ Top.fun \in Observing => tracedConstants[Top.fun] = sealed[Top.fun]
  BY <1>3 DEF CallInv, Top, Frame
<1>5. graph # NoGraph =>
         /\ graph.id = addr[Top.fun] /\ graph.fun = Top.fun /\ graph.stream = Top.stream
         /\ graph.const = sealed[Top.fun]
  BY <1>1 DEF Traced
<1>6. CacheInv'
  <2>1. ASSUME NEW u \in Threads, NEW g \in cache'[u]
        PROVE  addr[g.fun] = g.id /\ u \in caches[g.fun] /\ g.const = Baked(g.fun)
    <3>1. CASE g \in cache[u]
      BY <3>1 DEF CacheInv
    <3>2. CASE g \notin cache[u]
      <4>1. g = graph /\ u = owner /\ graph # NoGraph
        BY <1>2, <1>3, <3>2 DEF TypeOK
      <4> QED
        BY <4>1, <1>4, <1>5 DEF Baked
    <3> QED
      BY <3>1, <3>2
  <2> QED
    BY <1>3, <2>1 DEF CacheInv, Baked
<1>7. \A i \in 1..depth : i # depth => frame'[i] = frame[i]
  BY <1>2, <1>3 DEF TypeOK
<1>8. /\ frame'[depth].fun = Top.fun /\ frame'[depth].stream = Top.stream
      /\ frame'[depth].graph = graph
  BY <1>2, <1>3 DEF TypeOK, Top, Frame
<1>9. CallInv'
  BY <1>3, <1>4, <1>7, <1>8 DEF CallInv, Live
<1>10. GraphIsOfThisCall'
  BY <1>3, <1>5, <1>7, <1>8 DEF GraphIsOfThisCall
<1> QED
  BY <1>2, <1>6, <1>9, <1>10

LEMMA PopG == ASSUME GInv, FailTrace \/ FailApply \/ Return PROVE GInv'
<1> USE DEF GInv
<1>1. TypeOK'
  BY OthersType
<1>2. Pop /\ depth > 0
  BY DEF FailTrace, FailApply, Return
<1>3. /\ depth' = depth - 1 /\ depth \in 1..MaxDepth
      /\ \A i \in 1..depth' : i \in 1..depth /\ frame'[i] = frame[i]
      /\ depth' > 0 => owner' = owner
  BY <1>2, PopFrames
<1>4. UNCHANGED <<addr, sealed, tracedConstants, caches, cache>>
  BY <1>2 DEF Pop
<1>5. CallInv'
  BY <1>3, <1>4 DEF CallInv, Live
<1>6. CacheInv' /\ GraphIsOfThisCall'
  BY <1>3, <1>4 DEF CacheInv, Baked, GraphIsOfThisCall
<1> QED
  BY <1>1, <1>5, <1>6

LEMMA DeinitG == ASSUME GInv, NEW f \in Functions, Deinit(f) PROVE GInv'
<1> USE DEF GInv
<1>1. TypeOK'
  BY OthersType
<1>2. /\ Live(f) /\ \A i \in 1..depth : frame[i].fun # f /\ frame[i].fun \in Functions
  BY FunctionsAssumption DEF Deinit, Open, TypeOK, Frame
<1>3. /\ \A g \in Functions : g # f => /\ addr'[g] = addr[g]
                                       /\ tracedConstants'[g] = tracedConstants[g]
                                       /\ caches'[g] = caches[g]
      /\ addr'[f] = NoAddress
      /\ UNCHANGED <<sealed, owner, depth, frame>>
  BY DEF Deinit, TypeOK
<1>4. CallInv'
  BY <1>2, <1>3 DEF CallInv, Live
<1>5. GraphIsOfThisCall'
  BY <1>3 DEF GraphIsOfThisCall
<1>6. ASSUME NEW u \in Threads, NEW g \in cache'[u]
      PROVE  g \in cache[u] /\ g.fun # f /\ g.fun \in Functions
  <2>1. g \in cache[u] /\ (u \in caches[f] => g.id # addr[f])
    BY DEF Deinit, EraseCaches
  <2> QED
    BY <2>1 DEF CacheInv, TypeOK, Graph
<1>7. CacheInv'
  BY <1>3, <1>6 DEF CacheInv, Baked
<1> QED
  BY <1>1, <1>4, <1>5, <1>7

LEMMA OthersG ==
    ASSUME GInv,
           \/ \E f \in Functions, a \in Addresses : Create(f, a)
           \/ \E f \in Functions, c \in Consts : Rebind(f, c)
           \/ \E t \in Threads : ThreadExit(t)
           \/ \E c \in Cells : Mutate(c)
           \/ UNCHANGED vars
    PROVE  GInv'
<1> USE DEF GInv
<1>1. TypeOK'
  BY OthersType
<1>2. \A i \in 1..depth : frame[i].fun \in Functions
  BY FunctionsAssumption DEF TypeOK, Frame
<1>3. \A u \in Threads : \A g \in cache[u] : g.fun \in Functions /\ g.id \in Addresses
  BY DEF TypeOK, Graph
<1>4. ASSUME NEW f \in Functions, NEW a \in Addresses, Create(f, a) PROVE GInv'
  <2>1. /\ addr' = [addr EXCEPT ![f] = a] /\ addr[f] = NoAddress
        /\ \A g \in Functions : addr[g] # a
        /\ UNCHANGED <<sealed, tracedConstants, caches, cache, owner, depth, frame>>
    BY <1>4 DEF Create, Live
  <2>2. CallInv'
    BY <1>2, <2>1, FunctionsAssumption DEF CallInv, Live, TypeOK
  <2>3. CacheInv' /\ GraphIsOfThisCall'
    BY <1>3, <2>1, FunctionsAssumption DEF CacheInv, Baked, GraphIsOfThisCall, TypeOK
  <2> QED
    BY <1>1, <2>2, <2>3
<1>5. ASSUME NEW f \in Functions, NEW c \in Consts, Rebind(f, c) PROVE GInv'
  <2>1. /\ sealed' = [sealed EXCEPT ![f] = c] /\ f \in Observing
        /\ \A i \in 1..depth : frame[i].fun # f
        /\ UNCHANGED <<addr, tracedConstants, caches, cache, owner, depth, frame>>
    BY <1>5 DEF Rebind, Open
  <2>2. CallInv' /\ GraphIsOfThisCall'
    BY <1>2, <2>1 DEF CallInv, Live, GraphIsOfThisCall, TypeOK
  <2>3. CacheInv'
    BY <1>3, <2>1 DEF CacheInv, Baked, TypeOK
  <2> QED
    BY <1>1, <2>2, <2>3
<1>6. ASSUME NEW t \in Threads, ThreadExit(t) PROVE GInv'
  <2>1. /\ \A f \in Functions : caches'[f] = caches[f] \ {t}
        /\ cache' = [cache EXCEPT ![t] = {}] /\ owner # t
        /\ UNCHANGED <<addr, sealed, tracedConstants, owner, depth, frame>>
    BY <1>6 DEF ThreadExit
  <2>2. CallInv' /\ GraphIsOfThisCall'
    BY <1>2, <2>1 DEF CallInv, Live, GraphIsOfThisCall
  <2>3. CacheInv'
    BY <1>3, <2>1 DEF CacheInv, Baked, TypeOK
  <2> QED
    BY <1>1, <2>2, <2>3
<1>7. CASE (\E c \in Cells : Mutate(c)) \/ UNCHANGED vars
  <2>1. UNCHANGED <<addr, sealed, tracedConstants, caches, cache, owner, depth, frame>>
    BY <1>7 DEF Mutate, vars
  <2> QED
    BY <1>1, <2>1 DEF CallInv, CacheInv, Baked, GraphIsOfThisCall, Live
<1> QED
  BY <1>4, <1>5, <1>6, <1>7

LEMMA InductiveG == GInv /\ [Next]_vars => GInv'
BY CallG, EndBodyG, PopG, DeinitG, OthersG DEF Next

LEMMA InvarianceG == Spec => []GInv
BY InitG, InductiveG, PTL DEF Spec

(* The compiled functions' state is well typed: evalLock is owned exactly  *)
(* while a call is open.                                                   *)
THEOREM TypeCorrect == Spec => []TypeOK
<1>1. GInv => TypeOK
  BY DEF GInv
<1> QED
  BY <1>1, InvarianceG, PTL

(* Whatever is freed, reused, rebound or called from other threads and     *)
(* streams, a call runs a graph traced for the same object, stream and     *)
(* sealed arrays.                                                          *)
THEOREM GraphMatchesCall == Spec => []GraphIsOfThisCall
<1>1. GInv => GraphIsOfThisCall
  BY DEF GInv
<1> QED
  BY <1>1, InvarianceG, PTL

(* No thread's cache keeps a graph of a function that is gone.             *)
THEOREM FreedFunctionsLeaveNoGraph == Spec => []NoGraphOutlivesFunction
<1>1. GInv => NoGraphOutlivesFunction
  BY DEF GInv, CacheInv, NoGraphOutlivesFunction
<1> QED
  BY <1>1, InvarianceG, PTL

-----------------------------------------------------------------------------
(* The tracers, when a function observes all it updates, and updates it in *)
(* the array objects that were there when it was called.                   *)
ObservesUpdates ==
    /\ \A f \in Functions : Outputs[f] \subseteq Inputs[f]
    /\ Rebinding = {}

LEMMA AllRestored ==
    ASSUME TypeOK, ObservesUpdates, depth > 0
    PROVE  Restored = [c \in Cells |-> IF c \in Inputs[Top.fun] THEN Top.saved[c] ELSE state[c]]
<1>1. \A c \in Cells : rebound[c] < depth
  BY DEF TypeOK, ObservesUpdates
<1> QED
  BY <1>1 DEF Restored

LEMMA InitT == Init => TInv
BY InitG DEF Init, TInv, LevelInv, TracerInv, CellInv, Valid

\* The frames of the open calls.
LEMMA FrameType ==
    ASSUME TypeOK, NEW i \in 1..depth
    PROVE  /\ i \in 1..MaxDepth /\ frame[i] \in Frame
           /\ frame[i].fun \in Functions /\ frame[i].level \in 1..MaxDepth
           /\ frame[i].saved \in [Cells -> 0..MaxDepth]
           /\ frame[i].captured \in [Cells -> 0..MaxDepth]
<1>1. /\ depth \in 0..MaxDepth /\ MaxDepth \in Nat
      /\ \A j \in 1..MaxDepth : frame[j] \in Frame \union {NoFrame} /\ (frame[j] # NoFrame <=> j <= depth)
  BY FunctionsAssumption DEF TypeOK
<1>2. i \in 1..MaxDepth /\ frame[i] \in Frame
  BY <1>1
<1> QED
  BY <1>2 DEF Frame

LEMMA PopT ==
    ASSUME TInv, ObservesUpdates, FailTrace \/ FailApply \/ Return
    PROVE  TInv'
<1> USE DEF TInv
<1>1. GInv' /\ TypeOK
  BY PopG DEF GInv
<1>2. /\ depth > 0 /\ depth' = depth - 1 /\ depth \in 1..depth /\ depth \in Nat
      /\ \A i \in 1..depth' : i \in 1..depth /\ frame'[i] = frame[i]
  BY <1>1, PopFrames, FunctionsAssumption DEF FailTrace, FailApply, Return, TypeOK
<1>3. \A i \in 1..depth' : frame[i].stage # "run" /\ i # depth
  BY <1>2 DEF LevelInv
<1>4. LevelInv'
  <2> SUFFICES ASSUME NEW i \in 1..depth'
               PROVE  /\ frame'[i].level \in 1..i
                      /\ frame'[frame'[i].level].level = frame'[i].level
                      /\ frame'[i].stage # "run"
                      /\ \A j \in i..depth' : Outputs[frame'[j].fun] \subseteq Outputs[frame'[i].fun]
    BY DEF LevelInv
  <2>1. frame[i].level \in 1..i /\ frame[frame[i].level].level = frame[i].level
    BY <1>2 DEF LevelInv
  <2>2. frame[i].level \in 1..depth'
    BY <1>2, <2>1
  <2>3. \A j \in i..depth' : j \in 1..depth' /\ j \in i..depth
    BY <1>2
  <2> QED
    BY <1>2, <1>3, <2>1, <2>2, <2>3 DEF LevelInv
<1>5. ASSUME NEW c \in Cells PROVE CellInv(c, state', depth', frame')
  <2>1. /\ Valid(Top.saved[c], depth - 1, frame) /\ Valid(Top.captured[c], depth, frame)
        /\ Top.stage = "run" => state[c] = Top.saved[c]
        /\ c \notin Inputs[Top.fun] => Top.saved[c] = state[c]
    BY <1>2 DEF TracerInv, CellInv, Top
  <2>2. /\ Valid(state'[c], depth', frame)
        /\ \/ state'[c] = Top.saved[c]
           \/ \A i \in 1..depth : c \in Inputs[frame[i].fun]
    <3>1. CASE state'[c] = Top.saved[c]
      BY <1>2, <2>1, <3>1
    <3>2. CASE Return /\ c \in Outputs[Top.fun]
      <4>1. \A i \in 1..depth : c \in Inputs[frame[i].fun]
        <5>1. \A i \in 1..depth : frame[i].fun \in Functions /\ depth \in i..depth
          BY <1>1, <1>2, FrameType
        <5> QED
          BY <5>1, <3>2 DEF LevelInv, Top, ObservesUpdates
      <4>2. state'[c] = Pushed(c)
        BY <3>2 DEF Return
      <4>3. Top.graph = NoGraph => Top.level # depth
        BY <3>2, <1>2 DEF Return, LevelInv, Top
      <4>4. Valid(Pushed(c), depth - 1, frame)
        BY <1>2, <2>1, <4>3 DEF Pushed, Valid, Top
      <4> QED
        BY <1>2, <4>1, <4>2, <4>4
    <3>3. CASE Return /\ c \notin Outputs[Top.fun]
      BY <2>1, <3>1, <3>3 DEF Return
    <3>4. CASE FailApply
      BY <2>1, <3>1, <3>4 DEF FailApply
    <3>5. CASE FailTrace
      <4>1. state' = [d \in Cells |-> IF d \in Inputs[Top.fun] THEN Top.saved[d] ELSE state[d]]
        BY <3>5, <1>2, AllRestored DEF FailTrace, GInv
      <4> QED
        BY <2>1, <3>1, <4>1
    <3> QED
      BY <3>2, <3>3, <3>4, <3>5
  <2>3. \A v \in 1..depth' : frame'[v] = frame[v]
    BY <1>2
  <2>4. Valid(state'[c], depth', frame')
    BY <2>2, <2>3 DEF Valid
  <2>5. ASSUME NEW i \in 1..depth'
        PROVE  /\ Valid(frame'[i].saved[c], i - 1, frame')
               /\ Valid(frame'[i].captured[c], i, frame')
               /\ frame'[i].stage # "run"
               /\ c \notin Inputs[frame'[i].fun] =>
                   frame'[i].saved[c] = IF i = depth' THEN state'[c] ELSE frame'[i + 1].saved[c]
    <3>1. /\ Valid(frame[i].saved[c], i - 1, frame) /\ Valid(frame[i].captured[c], i, frame)
          /\ c \notin Inputs[frame[i].fun] => frame[i].saved[c] = frame[i + 1].saved[c]
      BY <1>2, <1>3 DEF TracerInv, CellInv
    <3>2. i \in Nat /\ (\A v \in 1..i : v \in 1..depth') /\ frame'[i] = frame[i] /\ i \in 1..depth
      BY <1>2
    <3>3. Valid(frame'[i].saved[c], i - 1, frame') /\ Valid(frame'[i].captured[c], i, frame')
      BY <2>3, <3>1, <3>2 DEF Valid
    <3>4. IF i = depth' THEN frame[i + 1] = Top ELSE frame'[i + 1] = frame[i + 1]
      BY <1>2 DEF Top
    <3> QED
      BY <1>3, <2>2, <3>1, <3>2, <3>3, <3>4
  <2> QED
    BY <2>4, <2>5 DEF CellInv
<1> QED
  BY <1>1, <1>4, <1>5 DEF TracerInv

LEMMA CallT ==
    ASSUME TInv, NEW t \in Threads, NEW f \in Functions, NEW s \in Streams,
           CallCached(t, f, s) \/ CallTraced(t, f, s) \/ CallInTrace(t, f, s)
    PROVE  TInv'
<1> USE DEF TInv
<1>1. GInv' /\ TypeOK
  BY CallG DEF GInv
<1> DEFINE new == depth + 1
<1>2. PICK stage, graph, level :
        /\ Push(t, f, s, stage, graph, level)
        /\ level = new \/ (depth > 0 /\ level = Top.level /\ stage = "body")
        /\ level = new /\ stage = "run" => graph # NoGraph
        /\ \/ stage = "run" /\ state' = state
           \/ stage = "body" /\ level = Top.level /\ depth > 0 /\ state' = state
           \/ /\ stage = "body" /\ level = new
              /\ \A c \in Cells : state'[c] = IF c \in Inputs[f] THEN new ELSE state[c]
  <2>1. CASE CallCached(t, f, s)
    <3>1. NoGraph \notin Kept(t, f)[t]
      BY <1>1, KeptType, MarkersAssumption
    <3> QED
      BY <2>1, <3>1 DEF CallCached
  <2>2. CASE CallTraced(t, f, s)
    BY <2>2 DEF CallTraced
  <2>3. CASE CallInTrace(t, f, s)
    BY <2>3 DEF CallInTrace
  <2> QED
    BY <2>1, <2>2, <2>3
<1>3. /\ MayCall(t, f) /\ InSwift /\ depth < MaxDepth
      /\ depth > 0 => Outputs[f] \subseteq Outputs[Top.fun]
  BY DEF CallCached, CallTraced, CallInTrace, MayCall
<1>4. /\ depth' = new /\ depth \in Nat
      /\ \A i \in 1..depth : frame'[i] = frame[i]
      /\ frame'[new] = [fun |-> f, stream |-> s, stage |-> stage, graph |-> graph,
                        level |-> level, saved |-> state, captured |-> state]
  BY <1>1, <1>2, <1>3, PushFrames
<1>5. \A i \in 1..depth : frame[i].stage # "run"
  <2>1. \A i \in 1..depth : frame[i].stage = "run" => i = depth /\ depth > 0
    BY <1>4 DEF LevelInv
  <2> QED
    BY <1>3, <2>1 DEF InSwift, Top
<1>6. level \in 1..new /\ frame'[level].level = level
  <2>1. CASE level = new
    BY <2>1, <1>4
  <2>2. CASE depth > 0 /\ level = Top.level
    <3>1. level \in 1..depth /\ frame[level].level = level
      BY <2>2, <1>4 DEF LevelInv, Top
    <3> QED
      BY <3>1, <1>4
  <2> QED
    BY <1>2, <2>1, <2>2
<1>7. LevelInv'
  <2> SUFFICES ASSUME NEW i \in 1..new
               PROVE  /\ frame'[i].level \in 1..i
                      /\ frame'[frame'[i].level].level = frame'[i].level
                      /\ frame'[i].stage = "run" => i = new
                      /\ frame'[i].stage = "run" /\ frame'[i].level = i => frame'[i].graph # NoGraph
                      /\ \A j \in i..new : Outputs[frame'[j].fun] \subseteq Outputs[frame'[i].fun]
    BY <1>4 DEF LevelInv
  <2>1. CASE i = new
    <3>1. \A j \in i..new : j = new
      BY <2>1, <1>4
    <3> QED
      BY <2>1, <3>1, <1>2, <1>4, <1>6
  <2>2. CASE i \in 1..depth
    <3>1. /\ frame[i].level \in 1..depth /\ frame[i].level \in 1..i
          /\ frame[frame[i].level].level = frame[i].level
          /\ depth \in i..depth /\ depth > 0
      BY <2>2, <1>4 DEF LevelInv
    <3>2. \A j \in i..new : j = new \/ (j \in i..depth /\ j \in 1..depth)
      BY <2>2, <1>4
    <3>3. \A j \in i..depth : Outputs[frame[j].fun] \subseteq Outputs[frame[i].fun]
      BY <2>2 DEF LevelInv
    <3>4. \A j \in i..new : Outputs[frame'[j].fun] \subseteq Outputs[frame'[i].fun]
      BY <2>2, <3>1, <3>2, <3>3, <1>3, <1>4 DEF Top
    <3> QED
      BY <2>2, <3>1, <3>4, <1>4, <1>5
  <2> QED
    BY <1>4, <2>1, <2>2
<1>8. ASSUME NEW c \in Cells PROVE CellInv(c, state', depth', frame')
  <2>1. Valid(state[c], depth, frame)
    BY DEF TracerInv, CellInv
  <2>2. Valid(state[c], depth, frame') /\ Valid(state[c], new, frame')
    BY <2>1, <1>4 DEF Valid
  <2>3. Valid(state'[c], new, frame') /\ (stage = "run" => state'[c] = state[c])
    BY <1>2, <1>4, <2>2 DEF Valid
  <2>4. c \notin Inputs[f] => state'[c] = state[c]
    BY <1>2
  <2>5. ASSUME NEW i \in 1..new
        PROVE  /\ Valid(frame'[i].saved[c], i - 1, frame')
               /\ Valid(frame'[i].captured[c], i, frame')
               /\ frame'[i].stage = "run" => state'[c] = frame'[i].saved[c]
               /\ c \notin Inputs[frame'[i].fun] =>
                   frame'[i].saved[c] = IF i = new THEN state'[c] ELSE frame'[i + 1].saved[c]
    <3>1. CASE i = new
      BY <3>1, <1>4, <2>2, <2>3, <2>4
    <3>2. CASE i \in 1..depth
      <4>1. /\ Valid(frame[i].saved[c], i - 1, frame) /\ Valid(frame[i].captured[c], i, frame)
            /\ c \notin Inputs[frame[i].fun] =>
                  frame[i].saved[c] = IF i = depth THEN state[c] ELSE frame[i + 1].saved[c]
        BY <3>2 DEF TracerInv, CellInv
      <4>2. i \in Nat /\ (\A v \in 1..i : v \in 1..depth) /\ frame'[i] = frame[i] /\ i # new
        BY <3>2, <1>4
      <4>3. Valid(frame'[i].saved[c], i - 1, frame') /\ Valid(frame'[i].captured[c], i, frame')
        BY <1>4, <4>1, <4>2 DEF Valid
      <4>4. IF i = depth THEN frame'[i + 1].saved[c] = state[c] ELSE frame'[i + 1] = frame[i + 1]
        BY <3>2, <1>4
      <4> QED
        BY <3>2, <1>5, <4>1, <4>2, <4>3, <4>4
    <3> QED
      BY <1>4, <3>1, <3>2
  <2> QED
    BY <1>4, <2>3, <2>5 DEF CellInv
<1> QED
  BY <1>1, <1>7, <1>8 DEF TracerInv

LEMMA EndBodyT == ASSUME TInv, ObservesUpdates, EndBody PROVE TInv'
<1> USE DEF TInv
<1>1. GInv' /\ TypeOK /\ CallInv
  BY EndBodyG DEF GInv
<1>2. PICK graph : graph = IF Top.level = depth THEN Traced ELSE NoGraph
  OBVIOUS
<1>3. /\ graph \in Graph \union {NoGraph}
      /\ frame' = [frame EXCEPT ![depth] =
                     [@ EXCEPT !.stage = "run", !.graph = graph, !.captured = state]]
  BY <1>1, <1>2, EndBodyType
<1>4. /\ Top \in Frame /\ depth \in 1..MaxDepth /\ depth \in 1..depth /\ depth' = depth
      /\ state' = Restored
  BY <1>1, TopType, FunctionsAssumption DEF EndBody, TypeOK
<1>5. /\ \A i \in 1..depth : i # depth => frame'[i] = frame[i]
      /\ \A i \in 1..depth : /\ frame'[i].level = frame[i].level /\ frame'[i].fun = frame[i].fun
                             /\ frame'[i].saved = frame[i].saved
      /\ frame'[depth].captured = state /\ frame'[depth].graph = graph
      /\ frame'[depth].stage = "run"
  <2>1. \A i \in 1..depth : i # depth => frame'[i] = frame[i]
    BY <1>1, <1>3, <1>4 DEF TypeOK
  <2>2. frame'[depth] = [Top EXCEPT !.stage = "run", !.graph = graph, !.captured = state]
    BY <1>1, <1>3, <1>4 DEF TypeOK, Top
  <2>3. /\ frame'[depth].level = Top.level /\ frame'[depth].fun = Top.fun
        /\ frame'[depth].saved = Top.saved /\ frame'[depth].captured = state
        /\ frame'[depth].graph = graph /\ frame'[depth].stage = "run"
    BY <1>4, <2>2 DEF Frame
  <2> QED
    BY <2>1, <2>3 DEF Top
<1>6. \A i \in 1..depth : i # depth => frame[i].stage # "run"
  BY DEF LevelInv
<1>7. Top.level = depth => graph # NoGraph
  <2>1. addr[Top.fun] \in Addresses
    BY <1>1, <1>4 DEF CallInv, Live, TypeOK, Frame, Top
  <2>2. Traced \in Graph
    BY <1>1, <1>4, <2>1 DEF Traced, Graph, Frame, TypeOK
  <2> QED
    BY <1>2, <2>2, MarkersAssumption
<1>8. LevelInv'
  <2>1. ASSUME NEW i \in 1..depth
        PROVE  /\ frame'[i].level \in 1..i
               /\ frame'[frame'[i].level].level = frame'[i].level
               /\ frame'[i].stage = "run" => i = depth
               /\ frame'[i].stage = "run" /\ frame'[i].level = i => frame'[i].graph # NoGraph
               /\ \A j \in i..depth : Outputs[frame'[j].fun] \subseteq Outputs[frame'[i].fun]
    <3>1. /\ frame[i].level \in 1..i /\ frame[frame[i].level].level = frame[i].level
          /\ frame[i].level \in 1..depth
      BY <1>4 DEF LevelInv
    <3>2. \A j \in i..depth : j \in 1..depth
      BY <1>4
    <3>3. \A j \in i..depth : Outputs[frame[j].fun] \subseteq Outputs[frame[i].fun]
      BY DEF LevelInv
    <3>4. frame'[i].stage = "run" => i = depth
      BY <1>5, <1>6
    <3>5. frame'[i].stage = "run" /\ frame'[i].level = i => frame'[i].graph # NoGraph
      BY <1>5, <1>7, <3>4 DEF Top
    <3> QED
      BY <1>5, <3>1, <3>2, <3>3, <3>4, <3>5
  <2> QED
    BY <1>4, <2>1 DEF LevelInv
<1>9. ASSUME NEW c \in Cells PROVE CellInv(c, state', depth', frame')
  <2>1. /\ Valid(Top.saved[c], depth - 1, frame) /\ Valid(state[c], depth, frame)
        /\ c \notin Inputs[Top.fun] => Top.saved[c] = state[c]
    BY <1>4 DEF TracerInv, CellInv, Top
  <2>2. state'[c] = Top.saved[c]
    <3>1. depth > 0
      BY <1>4
    <3>2. state' = [d \in Cells |-> IF d \in Inputs[Top.fun] THEN Top.saved[d] ELSE state[d]]
      BY <1>1, <1>4, <3>1, AllRestored
    <3> QED
      BY <2>1, <3>2
  <2>3. ASSUME NEW v, NEW n \in 0..depth, Valid(v, n, frame)
        PROVE  Valid(v, n, frame')
    BY <1>4, <1>5, <2>3 DEF Valid
  <2>4. Valid(state'[c], depth, frame')
    <3>1. Valid(Top.saved[c], depth, frame)
      BY <1>4, <2>1 DEF Valid
    <3> QED
      BY <1>4, <2>2, <2>3, <3>1
  <2>5. ASSUME NEW i \in 1..depth
        PROVE  /\ Valid(frame'[i].saved[c], i - 1, frame')
               /\ Valid(frame'[i].captured[c], i, frame')
               /\ frame'[i].stage = "run" => state'[c] = frame'[i].saved[c]
               /\ c \notin Inputs[frame'[i].fun] =>
                   frame'[i].saved[c] = IF i = depth THEN state'[c] ELSE frame'[i + 1].saved[c]
    <3>1. /\ Valid(frame[i].saved[c], i - 1, frame) /\ Valid(frame[i].captured[c], i, frame)
          /\ c \notin Inputs[frame[i].fun] =>
                frame[i].saved[c] = IF i = depth THEN state[c] ELSE frame[i + 1].saved[c]
      BY DEF TracerInv, CellInv
    <3>2. i - 1 \in 0..depth /\ i \in 0..depth /\ (i # depth => i + 1 \in 1..depth)
      BY <1>4
    <3>3. Valid(frame'[i].saved[c], i - 1, frame')
      BY <1>5, <2>3, <3>1, <3>2
    <3>4. Valid(frame'[i].captured[c], i, frame')
      BY <1>5, <2>1, <2>3, <3>1, <3>2
    <3>5. frame'[i].stage = "run" => state'[c] = frame'[i].saved[c]
      BY <1>5, <1>6, <2>2 DEF Top
    <3>6. c \notin Inputs[frame'[i].fun] =>
             frame'[i].saved[c] = IF i = depth THEN state'[c] ELSE frame'[i + 1].saved[c]
      BY <1>5, <2>2, <3>1, <3>2 DEF Top
    <3> QED
      BY <3>3, <3>4, <3>5, <3>6
  <2> QED
    BY <1>4, <2>4, <2>5 DEF CellInv
<1> QED
  BY <1>1, <1>8, <1>9 DEF TracerInv

LEMMA MutateT == ASSUME TInv, ObservesUpdates, NEW m \in Cells, Mutate(m) PROVE TInv'
<1> USE DEF TInv
<1>1. GInv' /\ TypeOK
  BY OthersG DEF GInv
<1>2. /\ depth' = depth /\ frame' = frame /\ depth \in 1..depth /\ Top.stage = "body"
      /\ m \in Outputs[Top.fun]
      /\ \A c \in Cells : c # m => state'[c] = state[c]
      /\ state'[m] \in {0, Top.level}
  BY <1>1, TopType, FunctionsAssumption DEF Mutate, TypeOK
<1>3. LevelInv'
  BY <1>2 DEF LevelInv
<1>4. \A i \in 1..depth : frame[i].stage # "run" /\ m \in Inputs[frame[i].fun]
  <2>1. \A i \in 1..depth : /\ frame[i].fun \in Functions
                            /\ Outputs[frame[depth].fun] \subseteq Outputs[frame[i].fun]
                            /\ frame[i].stage = "run" => i = depth
    <3>1. \A i \in 1..depth : depth \in i..depth
      BY <1>2
    <3> QED
      BY <1>1, <3>1, FrameType DEF LevelInv
  <2> QED
    BY <1>2, <2>1 DEF Top, ObservesUpdates
<1>5. Valid(state'[m], depth, frame)
  BY <1>2 DEF Valid, LevelInv, Top
<1>6. ASSUME NEW c \in Cells PROVE CellInv(c, state', depth, frame)
  BY <1>2, <1>4, <1>5 DEF TracerInv, CellInv
<1> QED
  BY <1>1, <1>2, <1>3, <1>6 DEF TracerInv

LEMMA InductiveT == ObservesUpdates /\ TInv /\ [Next]_vars => TInv'
<1> SUFFICES ASSUME ObservesUpdates, TInv, [Next]_vars PROVE TInv'
  OBVIOUS
<1>1. CASE UNCHANGED <<depth, frame, state>>
  <2>1. GInv'
    BY InductiveG DEF TInv
  <2> QED
    BY <1>1, <2>1 DEF TInv, LevelInv, TracerInv, CellInv, Valid
<1>2. CASE ~UNCHANGED <<depth, frame, state>>
  <2>1. \/ FailTrace \/ FailApply \/ Return \/ EndBody
        \/ \E m \in Cells : Mutate(m)
        \/ \E t \in Threads, f \in Functions, s \in Streams :
              CallCached(t, f, s) \/ CallTraced(t, f, s) \/ CallInTrace(t, f, s)
    BY <1>2 DEF Next, vars, Create, Deinit, Rebind, ThreadExit, CallUncompiled
  <2> QED
    BY <2>1, PopT, EndBodyT, MutateT, CallT
<1> QED
  BY <1>1, <1>2

(* When every function observes what it updates, and no update puts a new  *)
(* object in a slot, no tracer is left in any state once its trace is      *)
(* over, however traces nest and fail.                                     *)
THEOREM TracersStayInTheirTraces ==
    ASSUME ObservesUpdates
    PROVE  Spec => []NoTracerOutlivesTrace
<1>1. TInv => NoTracerOutlivesTrace
  <2> SUFFICES ASSUME TInv, NEW c \in Cells, state[c] # 0
               PROVE  \E i \in 1..depth : frame[i].level = state[c]
    BY DEF NoTracerOutlivesTrace
  <2> QED
    BY DEF TInv, TracerInv, CellInv, Valid
<1> QED
  BY <1>1, InitT, InductiveT, PTL DEF Spec

(* And a call that fails leaves all state as it was.                       *)
THEOREM FailedCallsChangeNothing ==
    ASSUME ObservesUpdates
    PROVE  Spec => FailedCallKeepsState
<1>1. ASSUME TInv, FailTrace \/ FailApply PROVE state' = Top.saved
  <2>1. TypeOK /\ depth > 0
    BY <1>1 DEF TInv, GInv, FailTrace, FailApply
  <2>2. Top \in Frame /\ depth \in 1..depth
    BY <2>1, TopType
  <2>3. ASSUME NEW c \in Cells
        PROVE  /\ c \notin Inputs[Top.fun] => Top.saved[c] = state[c]
               /\ Top.stage = "run" => state[c] = Top.saved[c]
    BY <1>1, <2>2 DEF TInv, TracerInv, CellInv, Top
  <2>4. state' \in [Cells -> 0..MaxDepth] /\ Top.saved \in [Cells -> 0..MaxDepth]
    BY <1>1, <2>1, <2>2, RestoredType DEF FailTrace, FailApply, Frame, TypeOK
  <2>5. \A c \in Cells : state'[c] = Top.saved[c]
    <3>1. CASE FailTrace
      <4>1. state' = [d \in Cells |-> IF d \in Inputs[Top.fun] THEN Top.saved[d] ELSE state[d]]
        BY <2>1, <3>1, AllRestored DEF FailTrace
      <4> QED
        BY <2>3, <4>1
    <3>2. CASE FailApply
      BY <2>3, <3>2 DEF FailApply
    <3> QED
      BY <1>1, <3>1, <3>2
  <2> QED
    BY <2>4, <2>5
<1>2. TInv /\ [Next]_vars => [FailTrace \/ FailApply => state' = Top.saved]_vars
  BY <1>1
<1> QED
  BY <1>2, InitT, InductiveT, PTL DEF Spec, FailedCallKeepsState
=============================================================================
