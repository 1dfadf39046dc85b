------------------------------ MODULE Streams --------------------------------
(***************************************************************************)
(* The streams of Source/MLX/Stream.swift: the pool that recycles the      *)
(* backend's streams, the promises that realise default streams, and the   *)
(* scopes of a task.                                                       *)
(*                                                                         *)
(* A promise is looked up under its lock.  If it has no stream yet, the    *)
(* task takes one from the pool (under the pool's lock) or creates one     *)
(* (under evalLock), and installs it under the promise's lock again,       *)
(* unless another task was first: no lock is held around evalLock.         *)
(*                                                                         *)
(* Promises and Stream objects are reference counted: Collect and Release  *)
(* are their deinit, some time after the last reference went.              *)
(***************************************************************************)
EXTENDS Naturals, Sequences, FiniteSets

CONSTANTS
    Tasks,
    Devices, Cpu,          \* all devices, and the CPU; the others are GPUs
    DefaultGpu,            \* the GPU of the global promise
    RawStreams,            \* mlx_streams the backend can create
    Promises,              \* stream promises
    GlobalCpu, GlobalGpu,  \* those of the global pair
    MaxScopes,             \* bound of the scopes a task nests
    NoStream, NoPromise, NoDevice

ASSUME StreamsAssumption ==
    /\ IsFiniteSet(RawStreams) /\ IsFiniteSet(Tasks)
    /\ Cpu \in Devices /\ DefaultGpu \in Devices \ {Cpu} /\ NoDevice \notin Devices
    /\ {GlobalCpu, GlobalGpu} \subseteq Promises /\ GlobalCpu # GlobalGpu
    /\ NoPromise \notin Promises /\ NoStream \notin RawStreams
    /\ MaxScopes \in Nat

VARIABLES
    deviceOf,  \* each backend stream's device, NoDevice until it is created
    idle,      \* StreamPool.idle
    promise,   \* each promise's device, NoDevice when there is none, and stream
    scope,     \* each task's nested StreamPairPromises
    stage,     \* where each task is in obtaining a stream
    goal,      \* what for
    taken,     \* the stream it has in hand
    kept,      \* a Stream object the task has a reference to
    peak       \* history: most streams of a device in use or being created

vars == <<deviceOf, idle, promise, scope, stage, goal, taken, kept, peak>>

Pair == [cpu : Promises, gpu : Promises, default : Devices]
NoGoal == [to |-> "none", promise |-> NoPromise, device |-> NoDevice, other |-> NoDevice]
Goal == [to : {"none", "keep", "enter", "device"}, promise : Promises \union {NoPromise},
         device : Devices \union {NoDevice}, other : Devices \union {NoDevice}]

Created == {r \in RawStreams : deviceOf[r] # NoDevice}
Idle(d) == {idle[d][i] : i \in 1..Len(idle[d])}
Busy(d) == {r \in Created : deviceOf[r] = d /\ r \notin Idle(d)}
Creating(d) == {t \in Tasks : stage[t] = "create" /\ goal[t].device = d}

Init ==
    /\ deviceOf = [r \in RawStreams |-> NoDevice]
    /\ idle = [d \in Devices |-> <<>>]
    /\ promise = [p \in Promises |->
                    [stream |-> NoStream,
                     device |-> CASE p = GlobalCpu -> Cpu
                                  [] p = GlobalGpu -> DefaultGpu
                                  [] OTHER -> NoDevice]]
    /\ scope = [t \in Tasks |-> <<>>]
    /\ stage = [t \in Tasks |-> "idle"]
    /\ goal = [t \in Tasks |-> NoGoal]
    /\ taken = [t \in Tasks |-> NoStream]
    /\ kept = [t \in Tasks |-> NoStream]
    /\ peak = [d \in Devices |-> 0]

-----------------------------------------------------------------------------
\* What a task asks for.

\* localStreams ?? globalStreams
Current(t) ==
    IF scope[t] = <<>> THEN [cpu |-> GlobalCpu, gpu |-> GlobalGpu, default |-> DefaultGpu]
    ELSE scope[t][Len(scope[t])]

PromiseFor(pair, d) == IF d = Cpu THEN pair.cpu ELSE pair.gpu

Ask(t, first, request) ==
    /\ stage[t] = "idle"
    /\ stage' = [stage EXCEPT ![t] = first]
    /\ goal' = [goal EXCEPT ![t] = request]
    /\ UNCHANGED <<deviceOf, idle, promise, scope, taken, kept, peak>>

\* Stream.cpu, Stream.gpu: the promise of the innermost scope
UseCurrent(t) ==
    \E p \in {Current(t).cpu, Current(t).gpu} :
        Ask(t, "look", [to |-> "keep", promise |-> p, device |-> promise[p].device,
                        other |-> NoDevice])

\* Stream(device)
NewStream(t, d) ==
    Ask(t, "take", [to |-> "keep", promise |-> NoPromise, device |-> d, other |-> NoDevice])

\* withNewDefaultStream: a new stream on d, and a lazy one of the other type
WithNewDefaultStream(t, d) ==
    /\ Len(scope[t]) < MaxScopes
    /\ LET other == IF d = Cpu THEN Current(t).gpu ELSE Current(t).cpu IN
         Ask(t, "take", [to |-> "enter", promise |-> NoPromise, device |-> d,
                         other |-> promise[other].device])

\* Faulty: the enclosing scope's stream, whatever GPU it is on.
WithDefaultDeviceFaulty(t, d) ==
    /\ Len(scope[t]) < MaxScopes
    /\ Ask(t, "look", [to |-> "device", promise |-> PromiseFor(Current(t), d), device |-> d,
                       other |-> NoDevice])

\* withDefaultDevice: the enclosing scope's stream if it is on d, a new one if not
WithDefaultDevice(t, d) ==
    /\ Len(scope[t]) < MaxScopes
    /\ LET p == PromiseFor(Current(t), d) IN
         IF promise[p].device = d
           THEN Ask(t, "look", [to |-> "device", promise |-> p, device |-> d, other |-> NoDevice])
           ELSE Ask(t, "take", [to |-> "device", promise |-> NoPromise, device |-> d,
                                other |-> NoDevice])

-----------------------------------------------------------------------------
\* How it gets it.

NewPair(t, p, other, d) ==
    IF d = Cpu THEN [cpu |-> p, gpu |-> other, default |-> d]
    ELSE [cpu |-> other, gpu |-> p, default |-> d]

Unused(promises) == {p \in Promises : promises[p].device = NoDevice}

\* The stream s is kept by the task, or becomes the default of a new scope.
Deliver(t, s, promises) ==
    LET d == goal[t].device IN
    /\ stage' = [stage EXCEPT ![t] = "idle"]
    /\ goal' = [goal EXCEPT ![t] = NoGoal]
    /\ taken' = [taken EXCEPT ![t] = NoStream]
    /\ \/ /\ goal[t].to = "keep"
          /\ kept' = [kept EXCEPT ![t] = s]
          /\ promise' = promises
          /\ UNCHANGED scope
       \/ /\ goal[t].to = "enter"
          /\ \E p \in Unused(promises) : \E q \in Unused(promises) \ {p} :
                /\ promise' = [promises EXCEPT
                                 ![p] = [stream |-> s, device |-> d],
                                 ![q] = [stream |-> NoStream, device |-> goal[t].other]]
                /\ scope' = [scope EXCEPT ![t] = Append(@, NewPair(t, p, q, d))]
          /\ UNCHANGED kept
       \/ /\ goal[t].to = "device"
          /\ \E p \in Unused(promises) :
                /\ promise' = [promises EXCEPT ![p] = [stream |-> s, device |-> d]]
                /\ LET other == IF d = Cpu THEN Current(t).gpu ELSE Current(t).cpu IN
                   scope' = [scope EXCEPT ![t] = Append(@, NewPair(t, p, other, d))]
          /\ UNCHANGED kept

\* A promise that has a stream answers at once.
Look(t) ==
    /\ stage[t] = "look"
    /\ LET s == promise[goal[t].promise].stream IN
         IF s # NoStream
           THEN Deliver(t, s, promise)
           ELSE /\ stage' = [stage EXCEPT ![t] = "take"]
                /\ UNCHANGED <<promise, scope, goal, taken, kept>>
    /\ UNCHANGED <<deviceOf, idle, peak>>

\* A stream from the pool or the backend is a new Stream object, to be
\* installed if it is for a lazy promise.
Obtain(t, r) ==
    IF goal[t].promise = NoPromise
      THEN Deliver(t, r, promise)
      ELSE /\ stage' = [stage EXCEPT ![t] = "install"]
           /\ taken' = [taken EXCEPT ![t] = r]
           /\ UNCHANGED <<promise, scope, goal, kept>>

Demand(d) == Cardinality(Busy(d)) + Cardinality(Creating(d))

Raised(d) == [peak EXCEPT ![d] = IF Demand(d) + 1 > @ THEN Demand(d) + 1 ELSE @]

\* Faulty: the idle stream stays in the pool.
PopFaulty(s) == s

Popped(s) == SubSeq(s, 1, Len(s) - 1)

\* Faulty: any pooled stream will do.
PoolOfFaulty(d) ==
    IF \E e \in Devices : idle[e] # <<>> THEN CHOOSE e \in Devices : idle[e] # <<>> ELSE d

\* The part of the pool a device's streams are in.
PoolOf(d) == d

\* Faulty: the last idle stream is left in the pool.
ReusesFaulty(d) == Len(idle[d]) > 1

Reuses(d) == idle[d] # <<>>

\* newStream, under the pool's lock: the last stream returned, if any
Take(t) ==
    LET d == PoolOf(goal[t].device) IN
    /\ stage[t] = "take"
    /\ IF Reuses(d)
         THEN /\ idle' = [idle EXCEPT ![d] = Popped(@)]
              /\ Obtain(t, idle[d][Len(idle[d])])
         ELSE /\ stage' = [stage EXCEPT ![t] = "create"]
              /\ UNCHANGED <<idle, promise, scope, goal, taken, kept>>
    /\ peak' = Raised(goal[t].device)
    /\ UNCHANGED deviceOf

\* newStream, under evalLock: another task may return one meanwhile
Create(t) ==
    /\ stage[t] = "create"
    /\ \E r \in RawStreams \ Created :
          /\ deviceOf' = [deviceOf EXCEPT ![r] = goal[t].device]
          /\ Obtain(t, r)
    /\ UNCHANGED <<idle, peak>>

\* Faulty: the second look is left out.
InstalledFaulty(p, r) == r

\* The stream that the promise has once r was offered.
Installed(p, r) == IF promise[p].stream # NoStream THEN promise[p].stream ELSE r

\* Under the promise's lock: the first task's stream stays.
Install(t) ==
    LET p == goal[t].promise
        s == Installed(p, taken[t]) IN
    /\ stage[t] = "install"
    /\ Deliver(t, s, [promise EXCEPT ![p].stream = s])
    /\ UNCHANGED <<deviceOf, idle, peak>>

-----------------------------------------------------------------------------
\* How it is given back.

LeaveScope(t) ==
    /\ stage[t] = "idle" /\ scope[t] # <<>>
    /\ scope' = [scope EXCEPT ![t] = Popped(@)]
    /\ UNCHANGED <<deviceOf, idle, promise, stage, goal, taken, kept, peak>>

Forget(t) ==
    /\ stage[t] = "idle" /\ kept[t] # NoStream
    /\ kept' = [kept EXCEPT ![t] = NoStream]
    /\ UNCHANGED <<deviceOf, idle, promise, scope, stage, goal, taken, peak>>

\* A child task starts with the scopes of the task that creates it.
StartChild(t, child) ==
    /\ stage[t] = "idle" /\ stage[child] = "idle"
    /\ scope[child] = <<>> /\ scope[t] # <<>> /\ kept[child] = NoStream
    /\ scope' = [scope EXCEPT ![child] = scope[t]]
    /\ UNCHANGED <<deviceOf, idle, promise, stage, goal, taken, kept, peak>>

\* The promises a task or the library still refers to.
Referenced ==
    {p \in Promises :
        \/ p \in {GlobalCpu, GlobalGpu}
        \/ \E t \in Tasks : \/ goal[t].promise = p
                           \/ \E i \in 1..Len(scope[t]) : p \in {scope[t][i].cpu, scope[t][i].gpu}}

Collect(p) ==
    /\ promise[p].device # NoDevice /\ p \notin Referenced
    /\ promise' = [promise EXCEPT ![p] = [stream |-> NoStream, device |-> NoDevice]]
    /\ UNCHANGED <<deviceOf, idle, scope, stage, goal, taken, kept, peak>>

\* The Stream objects that a promise or a task refers to, by their mlx_stream.
Held == {promise[p].stream : p \in Promises} \union {kept[t] : t \in Tasks}
InHand == {taken[t] : t \in Tasks}

\* Stream.deinit and releaseStream
Release(r) ==
    /\ r \in Created /\ r \notin Held \union InHand
    /\ \A d \in Devices : r \notin Idle(d)
    /\ idle' = [idle EXCEPT ![deviceOf[r]] = Append(@, r)]
    /\ UNCHANGED <<deviceOf, promise, scope, stage, goal, taken, kept, peak>>

TaskStep(t) ==
    \/ UseCurrent(t)
    \/ \E d \in Devices : NewStream(t, d) \/ WithNewDefaultStream(t, d) \/ WithDefaultDevice(t, d)
    \/ Look(t) \/ Take(t) \/ Create(t) \/ Install(t)
    \/ LeaveScope(t) \/ Forget(t)

Next ==
    \/ \E t \in Tasks : TaskStep(t)
    \/ \E t, child \in Tasks : StartChild(t, child)
    \/ \E p \in Promises : Collect(p)
    \/ \E r \in RawStreams : Release(r)

Spec == Init /\ [][Next]_vars

-----------------------------------------------------------------------------
TypeOK ==
    /\ deviceOf \in [RawStreams -> Devices \union {NoDevice}]
    /\ idle \in [Devices -> Seq(RawStreams)]
    /\ promise \in [Promises -> [stream : RawStreams \union {NoStream},
                                 device : Devices \union {NoDevice}]]
    /\ scope \in [Tasks -> Seq(Pair)]
    /\ \A t \in Tasks : Len(scope[t]) <= MaxScopes
    /\ stage \in [Tasks -> {"idle", "look", "take", "create", "install"}]
    /\ goal \in [Tasks -> Goal]
    /\ taken \in [Tasks -> RawStreams \union {NoStream}]
    /\ kept \in [Tasks -> RawStreams \union {NoStream}]
    /\ peak \in [Devices -> Nat]
    /\ \A p \in Referenced : promise[p].device # NoDevice

(* A backend stream has one owner: it is in the pool at most once, or in   *)
(* the hand of one task, or belongs to the Stream object that promises and *)
(* tasks share.                                                            *)
OneOwner ==
    /\ \A d \in Devices : \A i, j \in 1..Len(idle[d]) : idle[d][i] = idle[d][j] => i = j
    /\ \A d \in Devices : Idle(d) \intersect (Held \union InHand) = {}
    /\ \A t \in Tasks : taken[t] # NoStream =>
          taken[t] \notin Held /\ \A u \in Tasks : taken[u] = taken[t] => u = t

(* The streams of a device's pool and promises are on that device.         *)
OnItsDevice ==
    /\ \A d \in Devices : \A r \in Idle(d) : deviceOf[r] = d
    /\ \A p \in Promises : promise[p].stream # NoStream =>
          deviceOf[promise[p].stream] = promise[p].device

(* Streams are recycled: no more are ever created on a device than were in *)
(* use or being created at one time.                                       *)
NoMoreThanNeeded ==
    \A d \in Devices :
        Cardinality({r \in Created : deviceOf[r] = d}) + Cardinality(Creating(d)) <= peak[d]

(* A default stream stays what it is once any task has seen it: two tasks  *)
(* that realise the same promise get the same stream.                      *)
PromiseKept ==
    [][\A p \in Promises :
          promise[p].stream # NoStream /\ promise'[p].device # NoDevice
             => promise'[p].stream = promise[p].stream]_vars
=============================================================================
