------------------------------- MODULE EvalLock -------------------------------
(***************************************************************************)
(* evalLock, the recursive lock under which Swift threads enter the MLX    *)
(* runtime (Source/MLX/Transforms+Eval.swift), with the two kinds of lock  *)
(* held together with it: the lock of a compiled function with observed    *)
(* state (Transforms+Compile.swift) and the locks that are held while      *)
(* other code runs, of a custom function (MLXCustomFunction.swift) or of a *)
(* cast cache (ConstantArrayCastCache.swift).                              *)
(*                                                                         *)
(* A thread is a stack of calls.  Transforms, compiled functions and       *)
(* custom functions run a closure of the caller's, which may make any      *)
(* further call on the same thread; the closure is modelled by the calls   *)
(* it chooses to make.  A lock acquisition, a native call made under a     *)
(* lock, and a release are separate steps.                                 *)
(*                                                                         *)
(* Work handed to the device may never finish.  The outermost eval of a    *)
(* thread waits for it without evalLock; an eval inside a transform or a   *)
(* compiled call, and synchronize, wait for it with evalLock held.         *)
(***************************************************************************)
EXTENDS Naturals, Sequences, FiniteSets

CONSTANTS
    Threads,
    Functions,      \* compiled functions
    Stateful,       \* those with inputs or outputs to observe
    Customs,        \* custom functions and cast caches
    Casts,          \* the cast caches, which only ask for the default stream
    Evaluating,     \* those that call into this model: custom functions whose
                    \* closures do, cast caches when that stream is not there yet
    MaxDepth,       \* bound of the call stack
    MaxCalls,       \* bound of the calls a thread makes
    Nobody

ASSUME ThreadsAssumption ==
    /\ Stateful \subseteq Functions
    /\ Functions \intersect Customs = {} /\ Evaluating \subseteq Customs
    /\ Casts \subseteq Customs
    /\ MaxDepth \in Nat \ {0}
    /\ MaxCalls \in Nat
    /\ Nobody \notin Threads \union Functions \union Customs

VARIABLES
    owner, count,   \* evalLock: the owning thread, and how often it owns it
    depth,          \* EvalLockOwnership.depth of each thread
    instance,       \* the lock of each compiled function: owner and count
    custom,         \* the owner of each custom function's lock
    frames,         \* the calls each thread is in, innermost last
    calls,          \* calls each thread has made
    pending,        \* threads that wait for work the device has not finished
    trapped         \* the thread that stopped the process with fatalError

locks == <<owner, count, depth>>
vars == <<locks, instance, custom, frames, calls, pending, trapped>>

\* The calls that take evalLock.  "native" is a single call of the runtime
\* under it that does not wait for the device: asyncEval, a stream's creation,
\* deinit of a compiled function, a memory limit.  "synchronize" is one that
\* does: synchronize, saving arrays, describing one.
EvalOps == {"eval", "materialize"}
Ops == EvalOps \union {"synchronize", "native", "transform", "call", "custom"}

\* Where a call is: wanting evalLock, wanting its own lock, inside the
\* runtime (to compute in place, or to schedule), running the caller's closure,
\* between the two releases of a compiled call, waiting for the device, under
\* evalLock ("blocked") or without it ("wait").
Stages == {"lock", "inner", "compute", "blocked", "schedule", "run", "unlock", "wait"}

Frame == [op : Ops, on : Functions \union Customs \union {Nobody}, at : Stages]

Top(t) == frames[t][Len(frames[t])]
In(t, stage) == frames[t] # <<>> /\ Top(t).at = stage

\* Whether the call holds evalLock, and whether it holds an instance lock.
HoldsEval(f) ==
    f.op # "custom" /\ f.at \in {"inner", "compute", "blocked", "schedule", "run", "unlock"}
HoldsInstance(f) == f.op = "call" /\ f.on \in Stateful /\ f.at = "run"
HoldsCustom(f) == f.op = "custom" /\ f.at = "run"

Init ==
    /\ owner = Nobody
    /\ count = 0
    /\ depth = [t \in Threads |-> 0]
    /\ instance = [f \in Functions |-> [owner |-> Nobody, count |-> 0]]
    /\ custom = [c \in Customs |-> Nobody]
    /\ frames = [t \in Threads |-> <<>>]
    /\ calls = [t \in Threads |-> 0]
    /\ pending = {}
    /\ trapped = Nobody

-----------------------------------------------------------------------------
(* Calls.  A thread calls from the top, or from the closure that the call  *)
(* on top of its stack runs.                                               *)

\* Faulty: asks whether the lock is held, by whichever thread.
IsHeldFaulty(t) == count > 0

\* EvalLockOwnership.isHeldByCurrentThread
IsHeldByCurrentThread(t) == depth[t] > 0

RunsClosure(t) ==
    /\ In(t, "run") /\ Top(t).op \in {"transform", "call", "custom"}
    /\ Top(t).op = "custom" => Top(t).on \in Evaluating

MayCall(t) ==
    /\ frames[t] = <<>> \/ RunsClosure(t)
    /\ Len(frames[t]) < MaxDepth
    /\ calls[t] < MaxCalls

Push(t, op, on, stage) ==
    /\ frames' = [frames EXCEPT ![t] = Append(@, [op |-> op, on |-> on, at |-> stage])]
    /\ calls' = [calls EXCEPT ![t] = @ + 1]
    /\ UNCHANGED <<locks, instance, custom, pending, trapped>>

\* ConstantArrayCastCache.cachedCast resolves StreamOrDevice.default, which may
\* create the stream, and nothing else.
InCast(t) == In(t, "run") /\ Top(t).op = "custom" /\ Top(t).on \in Casts

Enter(t, op, on) ==
    /\ MayCall(t)
    /\ InCast(t) => op = "native"
    /\ Push(t, op, on, "lock")

CallEval(t) == Enter(t, "eval", Nobody)

\* Stream.synchronize
CallSynchronize(t) == Enter(t, "synchronize", Nobody)

CallNative(t) == Enter(t, "native", Nobody)

CallTransform(t) == Enter(t, "transform", Nobody)

\* Faulty: the per-instance lock is taken first, and evalLock is forgotten.
CallCompiledFaulty(t, f) ==
    MayCall(t) /\ ~InCast(t) /\ Push(t, "call", f, IF f \in Stateful THEN "inner" ELSE "lock")

\* CompiledFunction.call takes evalLock outermost, before the instance lock.
CallCompiled(t, f) == Enter(t, "call", f)

\* A call that waits for its own lock would wait for ever.
CallCustom(t, c) == custom[c] # t /\ Enter(t, "custom", c)

\* requireOutsideTransform() reads the ownership of the current thread.
Materialize(t) ==
    /\ MayCall(t) /\ ~InCast(t)
    /\ IF IsHeldByCurrentThread(t)
         THEN trapped' = t /\ UNCHANGED <<locks, instance, custom, frames, calls, pending>>
         ELSE Push(t, "materialize", Nobody, "lock")

-----------------------------------------------------------------------------
(* Locks.                                                                  *)

Goto(t, stage) == [frames EXCEPT ![t][Len(frames[t])].at = stage]

Return(t) == [frames EXCEPT ![t] = SubSeq(@, 1, Len(@) - 1)]

\* Faulty: every eval computes in place, as if it were nested.
AfterEvalLockFaulty(t) ==
    CASE Top(t).op \in EvalOps \union {"synchronize"} -> "compute"
      [] Top(t).op = "call" /\ Top(t).on \in Stateful -> "inner"
      [] OTHER -> "run"

\* What a call does once it has evalLock: an eval is nested, and computes in
\* place, or outermost, a compiled function with state takes its own lock.
AfterEvalLock(t) ==
    CASE Top(t).op \in EvalOps -> IF IsHeldByCurrentThread(t) THEN "compute" ELSE "schedule"
      [] Top(t).op = "synchronize" -> "compute"
      [] Top(t).op = "call" /\ Top(t).on \in Stateful -> "inner"
      [] OTHER -> "run"

\* evalLock.lock() returned, and EvalLockOwnership.entered()
LockEval(t) ==
    /\ In(t, "lock") /\ Top(t).op # "custom"
    /\ owner \in {Nobody, t}
    /\ owner' = t
    /\ count' = count + 1
    /\ depth' = [depth EXCEPT ![t] = @ + 1]
    /\ frames' = Goto(t, AfterEvalLock(t))
    /\ UNCHANGED <<instance, custom, calls, pending, trapped>>

\* Faulty: unlocks without EvalLockOwnership.exited().
UnlockEvalFaulty(t) ==
    /\ UNCHANGED depth
    /\ count' = count - 1
    /\ owner' = IF count = 1 THEN Nobody ELSE owner

\* EvalLockOwnership.exited() and evalLock.unlock()
UnlockEval(t) ==
    /\ depth' = [depth EXCEPT ![t] = @ - 1]
    /\ count' = count - 1
    /\ owner' = IF count = 1 THEN Nobody ELSE owner

\* CompiledFunction.withInstanceLock: lock.lock() returned
LockInstance(t) ==
    LET f == Top(t).on IN
    /\ In(t, "inner")
    /\ instance[f].owner \in {Nobody, t}
    /\ instance' = [instance EXCEPT ![f] = [owner |-> t, count |-> @.count + 1]]
    /\ frames' = Goto(t, "run")
    /\ UNCHANGED <<locks, custom, calls, pending, trapped>>

\* innerCall returned; lock.unlock()
UnlockInstance(t) ==
    LET f == Top(t).on IN
    /\ In(t, "run") /\ HoldsInstance(Top(t))
    /\ instance' = [instance EXCEPT ![f] =
                      [owner |-> IF @.count = 1 THEN Nobody ELSE t, count |-> @.count - 1]]
    /\ frames' = Goto(t, "unlock")
    /\ UNCHANGED <<locks, custom, calls, pending, trapped>>

\* _CustomFunctionState.call, cachedCast: the lock is not recursive
LockCustom(t) ==
    LET c == Top(t).on IN
    /\ In(t, "lock") /\ Top(t).op = "custom"
    /\ custom[c] = Nobody
    /\ custom' = [custom EXCEPT ![c] = t]
    /\ frames' = Goto(t, "run")
    /\ UNCHANGED <<locks, instance, calls, pending, trapped>>

UnlockCustom(t) ==
    /\ In(t, "run") /\ Top(t).op = "custom"
    /\ custom' = [custom EXCEPT ![Top(t).on] = Nobody]
    /\ frames' = Return(t)
    /\ UNCHANGED <<locks, instance, calls, pending, trapped>>

\* A nested mlx_eval, or mlx_synchronize, finds work to wait for: it waits
\* with evalLock held.
WaitUnderLock(t) ==
    /\ In(t, "compute")
    /\ pending' = pending \union {t}
    /\ frames' = Goto(t, "blocked")
    /\ UNCHANGED <<locks, instance, custom, calls, trapped>>

\* The body under evalLock returned: a computation in place that is done, or
\* had nothing to wait for or failed, a native call, a transform, or a
\* compiled call that holds no other lock.
ReturnUnderLock(t) ==
    /\ t \notin pending
    /\ \/ In(t, "compute")
       \/ In(t, "blocked")
       \/ In(t, "unlock")
       \/ In(t, "run") /\ Top(t).op # "custom" /\ ~HoldsInstance(Top(t))
    /\ UnlockEval(t)
    /\ frames' = Return(t)
    /\ UNCHANGED <<instance, custom, calls, pending, trapped>>

\* Faulty: waits when mlx_async_eval failed, and not when it succeeded.
ScheduleFaulty(t) ==
    /\ In(t, "schedule")
    /\ UnlockEval(t)
    /\ \/ /\ pending' = pending \union {t}
          /\ frames' = Return(t)
       \/ /\ frames' = Goto(t, "wait")
          /\ UNCHANGED pending
    /\ UNCHANGED <<instance, custom, calls, trapped>>

\* Faulty: the outermost eval computes its arrays under the lock as well.
ScheduleUnderLockFaulty(t) ==
    /\ In(t, "schedule")
    /\ pending' = pending \union {t}
    /\ frames' = Goto(t, "blocked")
    /\ UNCHANGED <<locks, instance, custom, calls, trapped>>

\* The outermost eval: mlx_async_eval under the lock.  If it succeeds the
\* caller waits outside the lock; if it fails, eval returns.
Schedule(t) ==
    /\ In(t, "schedule")
    /\ UnlockEval(t)
    /\ \/ /\ pending' = pending \union {t}
          /\ frames' = Goto(t, "wait")
       \/ /\ frames' = Return(t)
          /\ UNCHANGED pending
    /\ UNCHANGED <<instance, custom, calls, trapped>>

\* The device finishes the work a thread waits for.
DeviceFinishes(t) ==
    /\ t \in pending
    /\ pending' = pending \ {t}
    /\ UNCHANGED <<locks, instance, custom, frames, calls, trapped>>

\* mlx_eval outside the lock returns when the arrays are computed.
ReturnFromWait(t) ==
    /\ In(t, "wait")
    /\ t \notin pending
    /\ frames' = Return(t)
    /\ UNCHANGED <<locks, instance, custom, calls, pending, trapped>>

-----------------------------------------------------------------------------
Call(t) ==
    \/ CallEval(t)
    \/ CallSynchronize(t)
    \/ CallNative(t)
    \/ CallTransform(t)
    \/ \E f \in Functions : CallCompiled(t, f)
    \/ \E c \in Customs : CallCustom(t, c)
    \/ Materialize(t)

Step(t) ==
    \/ LockEval(t)
    \/ LockInstance(t)
    \/ UnlockInstance(t)
    \/ LockCustom(t)
    \/ UnlockCustom(t)
    \/ WaitUnderLock(t)
    \/ ReturnUnderLock(t)
    \/ Schedule(t)
    \/ ReturnFromWait(t)

\* All threads have returned and made their last call, or the process ended.
Stopped ==
    /\ trapped # Nobody \/ \A t \in Threads : frames[t] = <<>> /\ calls[t] = MaxCalls
    /\ UNCHANGED vars

Run == trapped = Nobody /\ \E t \in Threads : Call(t) \/ Step(t) \/ DeviceFinishes(t)

Next == Run \/ Stopped

Spec == Init /\ [][Next]_vars

\* A thread inside the library keeps running: it acquires a lock that stays
\* free, leaves a closure that makes no more calls, and returns from mlx_eval
\* when the arrays are computed.  Nothing is assumed of the device.
FairSpec == Spec /\ \A t \in Threads : WF_vars(trapped = Nobody /\ Step(t))

-----------------------------------------------------------------------------
(* Type correctness of the whole state.                                    *)
TypeOK ==
    /\ owner \in Threads \union {Nobody}
    /\ count \in Nat
    /\ depth \in [Threads -> Nat]
    /\ instance \in [Functions -> [owner : Threads \union {Nobody}, count : Nat]]
    /\ custom \in [Customs -> Threads \union {Nobody}]
    /\ frames \in [Threads -> Seq(Frame)]
    /\ calls \in [Threads -> Nat]
    /\ pending \in SUBSET Threads
    /\ trapped \in Threads \union {Nobody}

\* The number of calls of t that hold evalLock.
Brackets(t) == {i \in DOMAIN frames[t] : HoldsEval(frames[t][i])}

(* EvalLockOwnership counts exactly the open withEvalLock bodies of its    *)
(* thread, and the recursive lock agrees with it: the depth decides        *)
(* whether an eval may wait outside the lock and whether materialize traps.*)
OwnershipTracksLock ==
    \A t \in Threads :
       /\ depth[t] = Cardinality(Brackets(t))
       /\ depth[t] = IF owner = t THEN count ELSE 0

\* A thread inside eval or synchronize that waits for the device, and whether
\* its call is inside another that holds evalLock.
Waits(t) == In(t, "wait") \/ In(t, "blocked")
Nested(t) == \E i \in 1..Len(frames[t])-1 : HoldsEval(frames[t][i])

(* eval holds evalLock while it schedules and not while it waits, so that  *)
(* evaluations on other threads can overlap; only inside a transform or a  *)
(* compiled call of its own thread does it wait under the lock, since the  *)
(* lock cannot be released there (Transforms+Eval.swift:261-271).  The     *)
(* lock of a compiled function is never held over an outermost wait.       *)
WaitsWithoutLock ==
    \A t \in Threads : Waits(t) /\ Top(t).op \in EvalOps =>
       IF Nested(t) THEN In(t, "blocked")
       ELSE owner # t /\ \A f \in Functions : instance[f].owner # t

(* The lock order of CompiledFunction.call: whoever holds an instance lock *)
(* holds evalLock, and is inside a call of that function.                  *)
InstanceInsideEvalLock ==
    \A f \in Functions : instance[f].owner # Nobody =>
       /\ owner = instance[f].owner
       /\ \E i \in DOMAIN frames[owner] :
             HoldsInstance(frames[owner][i]) /\ frames[owner][i].on = f

\* The thread that holds the lock t waits for.
WaitsInnerFor(t, u) ==
    \/ In(t, "inner") /\ instance[Top(t).on].owner = u
    \/ In(t, "lock") /\ Top(t).op = "custom" /\ custom[Top(t).on] = u

(* evalLock is the outermost lock (Transforms+Eval.swift:16): the thread   *)
(* that owns it never waits for a lock whose holder wants evalLock.        *)
EvalLockOutermost ==
    \A t, u \in Threads :
       owner = t /\ t # u /\ WaitsInnerFor(t, u) =>
          ~(In(u, "lock") /\ Top(u).op # "custom")

(* materialize returns only arrays evaluated outside every transformation: *)
(* it stops the process exactly when its thread is inside a transform or a *)
(* compiled function, never because of another thread, and the eval it     *)
(* makes is never nested.                                                  *)
MaterializeOutsideTransform ==
    /\ trapped # Nobody =>
          \E i \in DOMAIN frames[trapped] : frames[trapped][i].op \in {"transform", "call"}
    /\ \A t \in Threads : \A i \in DOMAIN frames[t] :
          frames[t][i].op = "materialize" => \A j \in 1..(i-1) : ~HoldsEval(frames[t][j])

(* eval is synchronous: a thread whose work is handed to the device and    *)
(* not computed is still inside the eval, or synchronize, that waits for it.*)
EvalIsSynchronous == \A t \in pending : Waits(t)

\* A wait under evalLock that the code cannot avoid.
BlocksOthers(t) == t \in pending /\ (Nested(t) \/ Top(t).op = "synchronize")

(* If the device answers every nested eval and every synchronize, which    *)
(* wait under evalLock, then every call returns or is an outermost eval    *)
(* left waiting for the device: a device that never answers an outermost   *)
(* eval stops no other thread, and no order of acquisitions does.          *)
EveryCallReturns ==
    (\A t \in Threads : BlocksOthers(t) ~> ~BlocksOthers(t)) =>
       \A t \in Threads :
          frames[t] # <<>> ~> frames[t] = <<>> \/ In(t, "wait") \/ trapped # Nobody
=============================================================================
