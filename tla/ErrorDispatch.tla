---------------------------- MODULE ErrorDispatch ----------------------------
(***************************************************************************)
(* Error handling of Source/MLX/ErrorHandler.swift.                        *)
(*                                                                         *)
(* An error of the C++ core goes to the innermost handler of the task that *)
(* meets it: the box of a withError scope, or a withErrorHandler callback. *)
(* A task started in a scope inherits the handlers, and may outlive it.    *)
(* Without a handler the error goes to the global handler, under a lock    *)
(* that also guards the replacement of the handler and its data.           *)
(*                                                                         *)
(* withError ends with check(), which reads the box without its lock.  A   *)
(* task sees what is in a box for certain if it, or a task it has awaited, *)
(* took the box's lock after the error was stored; else it may miss it.    *)
(*                                                                         *)
(* Assumed of user code: handlers and destructors return, and meet no      *)
(* error of their own.                                                     *)
(***************************************************************************)
EXTENDS Naturals, Sequences, FiniteSets

CONSTANTS
    Tasks, Main,           \* the task that runs at the start
    Boxes,                 \* ErrorBoxes, one for each withError scope
    Callback,              \* a handler of withErrorHandler
    Errors,
    Data,                  \* data of global handlers
    MaxDepth,              \* bound of the handlers on a stack
    NoError, NoTask, NoData

ASSUME ErrorAssumption ==
    /\ Main \in Tasks /\ NoTask \notin Tasks /\ NoError \notin Errors /\ NoData \notin Data
    /\ Callback \notin Boxes /\ "global" \notin Boxes /\ MaxDepth \in Nat

VARIABLES
    stack,     \* errorHandler: each task's handlers, innermost last
    inherited, \* how many of them the task did not install itself
    stage,     \* what each task does
    error,     \* the error it dispatches
    sees,      \* the boxes whose stored error it sees without their locks
    known,     \* history: the tasks it has awaited, and itself
    first,     \* ErrorBox._firstError
    scope,     \* how each box's withError stands
    handler,   \* whether there is a global handler, and its data
    lock,      \* the holder of ErrorHandler.lock
    destroyed, \* the data whose destructor was called
    met        \* history: the errors met, in order: error, task, handler

vars == <<stack, inherited, stage, error, sees, known, first, scope, handler, lock, destroyed, met>>

Stages == {"absent", "running", "dispatching", "calling", "replacing", "stopped",
           "ended"}

Init ==
    /\ stack = [t \in Tasks |-> <<>>]
    /\ inherited = [t \in Tasks |-> 0]
    /\ stage = [t \in Tasks |-> IF t = Main THEN "running" ELSE "absent"]
    /\ error = [t \in Tasks |-> NoError]
    /\ sees = [t \in Tasks |-> {}]
    /\ known = [t \in Tasks |-> {t}]
    /\ first = [b \in Boxes |-> NoError]
    /\ scope = [b \in Boxes |-> [stands |-> "unused", error |-> NoError]]
    /\ handler = [set |-> FALSE, data |-> NoData]
    /\ lock = NoTask
    /\ destroyed = {}
    /\ met = <<>>

-----------------------------------------------------------------------------
\* Scopes and tasks.

Top(t) == stack[t][Len(stack[t])]

Own(t) == Len(stack[t]) > inherited[t]

Push(t, h) ==
    /\ stage[t] = "running" /\ Len(stack[t]) < MaxDepth
    /\ stack' = [stack EXCEPT ![t] = Append(@, h)]
    /\ UNCHANGED <<inherited, stage, error, sees, known, first, handler, lock, destroyed, met>>

WithErrorHandler(t) == Push(t, Callback) /\ UNCHANGED scope

WithError(t) ==
    \E b \in Boxes :
        /\ scope[b].stands = "unused"
        /\ Push(t, b)
        /\ scope' = [scope EXCEPT ![b] = [stands |-> "open", error |-> NoError]]

Pop(t) ==
    /\ stage[t] = "running" /\ Own(t)
    /\ stack' = [stack EXCEPT ![t] = SubSeq(@, 1, Len(@) - 1)]
    /\ UNCHANGED <<inherited, stage, error, sees, known, first, handler, lock, destroyed, met>>

\* Faulty: check() may miss any error.
SeenFaulty(t, b) == {NoError, first[b]}

\* What check() may read in t.
Seen(t, b) == {first[b]} \union (IF b \in sees[t] THEN {} ELSE {NoError})

\* The end of withErrorHandler, and of withError by check() or by a throw of
\* the body, of another error.
Leave(t) ==
    /\ Pop(t)
    /\ IF Top(t) = Callback
         THEN UNCHANGED scope
         ELSE \/ \E e \in Seen(t, Top(t)) :
                   scope' = [scope EXCEPT ![Top(t)] =
                               [stands |-> IF e = NoError THEN "returned" ELSE "threw", error |-> e]]
              \/ scope' = [scope EXCEPT ![Top(t)] = [stands |-> "failed", error |-> NoError]]

StartChild(t, child) ==
    /\ stage[t] = "running" /\ stage[child] = "absent"
    /\ stage' = [stage EXCEPT ![child] = "running"]
    /\ stack' = [stack EXCEPT ![child] = stack[t]]
    /\ inherited' = [inherited EXCEPT ![child] = Len(stack[t])]
    /\ sees' = [sees EXCEPT ![child] = sees[t]]
    /\ UNCHANGED <<error, known, first, scope, handler, lock, destroyed, met>>

End(t) ==
    /\ stage[t] = "running" /\ t # Main /\ ~Own(t)
    /\ stage' = [stage EXCEPT ![t] = "ended"]
    /\ UNCHANGED <<stack, inherited, error, sees, known, first, scope, handler, lock, destroyed, met>>

Await(t, child) ==
    /\ stage[t] = "running" /\ stage[child] = "ended"
    /\ known' = [known EXCEPT ![t] = @ \union known[child]]
    /\ sees' = [sees EXCEPT ![t] = @ \union sees[child]]
    /\ UNCHANGED <<stack, inherited, stage, error, first, scope, handler, lock, destroyed, met>>

-----------------------------------------------------------------------------
\* Errors.

\* Faulty: the last error stays.
StoreFaulty(b, e) == [first EXCEPT ![b] = e]

\* ErrorBox.firstError.set
Store(b, e) == IF first[b] = NoError THEN [first EXCEPT ![b] = e] ELSE first

Recipient(t) == IF stack[t] = <<>> THEN "global" ELSE Top(t)

Meet(t, e) ==
    /\ stage[t] = "running"
    /\ \A i \in DOMAIN met : met[i].error # e
    /\ met' = Append(met, [error |-> e, by |-> t, to |-> Recipient(t)])
    /\ IF stack[t] = <<>>
         THEN /\ stage' = [stage EXCEPT ![t] = "dispatching"]
              /\ error' = [error EXCEPT ![t] = e]
              /\ UNCHANGED <<first, sees>>
         ELSE /\ IF Top(t) = Callback
                   THEN UNCHANGED <<first, sees>>
                   ELSE /\ first' = Store(Top(t), e)
                        /\ sees' = [sees EXCEPT ![t] = @ \union {Top(t)}]
              /\ UNCHANGED <<stage, error>>
    /\ UNCHANGED <<stack, inherited, known, scope, handler, lock, destroyed>>

\* Under the lock.
CallGlobal(t) ==
    /\ stage[t] = "dispatching" /\ lock = NoTask /\ handler.set
    /\ lock' = t
    /\ stage' = [stage EXCEPT ![t] = "calling"]
    /\ UNCHANGED <<stack, inherited, error, sees, known, first, scope, handler, destroyed, met>>

\* Without a global handler, fatalError stops the process, and the model.
Stop(t) ==
    /\ stage[t] = "dispatching" /\ lock = NoTask /\ ~handler.set
    /\ stage' = [stage EXCEPT ![t] = "stopped"]
    /\ UNCHANGED <<stack, inherited, error, sees, known, first, scope, handler, lock, destroyed, met>>

ReturnFromGlobal(t) ==
    /\ stage[t] = "calling"
    /\ lock' = NoTask
    /\ stage' = [stage EXCEPT ![t] = "running"]
    /\ error' = [error EXCEPT ![t] = NoError]
    /\ UNCHANGED <<stack, inherited, sees, known, first, scope, handler, destroyed, met>>

\* Faulty: the old data is destroyed before the lock is taken.
MayDestroyFaulty(t) == TRUE

MayDestroy(t) == lock = NoTask

\* setGlobalHandler: the old data is destroyed, and then the handler replaced.
Destroy(t) ==
    /\ stage[t] = "running" /\ MayDestroy(t)
    /\ destroyed' = destroyed \union ({handler.data} \ {NoData})
    /\ lock' = IF lock = NoTask THEN t ELSE lock
    /\ stage' = [stage EXCEPT ![t] = "replacing"]
    /\ UNCHANGED <<stack, inherited, error, sees, known, first, scope, handler, met>>

Replace(t) ==
    /\ stage[t] = "replacing" /\ lock = t
    /\ \/ \E d \in Data \ (destroyed \union {handler.data}) : handler' = [set |-> TRUE, data |-> d]
       \/ handler' = [set |-> FALSE, data |-> NoData]
    /\ lock' = NoTask
    /\ stage' = [stage EXCEPT ![t] = "running"]
    /\ UNCHANGED <<stack, inherited, error, sees, known, first, scope, destroyed, met>>

TaskStep(t) ==
    \/ WithErrorHandler(t) \/ WithError(t) \/ Leave(t) \/ End(t)
    \/ \E child \in Tasks : StartChild(t, child) \/ Await(t, child)
    \/ \E e \in Errors : Meet(t, e)
    \/ CallGlobal(t) \/ Stop(t) \/ ReturnFromGlobal(t) \/ Destroy(t) \/ Replace(t)

Next == \E t \in Tasks : TaskStep(t) /\ \A u \in Tasks : stage[u] # "stopped"

Spec == Init /\ [][Next]_vars

-----------------------------------------------------------------------------
TypeOK ==
    /\ stack \in [Tasks -> Seq(Boxes \union {Callback})]
    /\ inherited \in [Tasks -> Nat]
    /\ \A t \in Tasks : inherited[t] <= Len(stack[t]) /\ Len(stack[t]) <= MaxDepth
    /\ stage \in [Tasks -> Stages]
    /\ error \in [Tasks -> Errors \union {NoError}]
    /\ sees \in [Tasks -> SUBSET Boxes] /\ known \in [Tasks -> SUBSET Tasks]
    /\ first \in [Boxes -> Errors \union {NoError}]
    /\ scope \in [Boxes -> [stands : {"unused", "open", "returned", "threw", "failed"},
                            error : Errors \union {NoError}]]
    /\ handler \in [set : BOOLEAN, data : Data \union {NoData}]
    /\ lock \in Tasks \union {NoTask}
    /\ destroyed \subseteq Data
    /\ met \in Seq([error : Errors, by : Tasks, to : Boxes \union {Callback, "global"}])
    /\ \A t \in Tasks : stage[t] \in {"calling", "replacing"} => lock = t

(* The global handler is never called with data whose destructor was       *)
(* called, whichever task replaces it meanwhile.                           *)
DataAlive == \A t \in Tasks : stage[t] = "calling" => handler.data \notin destroyed

(* withError returns normally only if no error reached its box from its    *)
(* own task or from one that it awaited, directly or through others.       *)
NoErrorSwallowed ==
    [][\A t \in Tasks : \A b \in Boxes :
          scope[b].stands = "open" /\ scope'[b].stands = "returned" /\ stack'[t] # stack[t]
             => \A i \in DOMAIN met : met[i].to = b => met[i].by \notin known[t]]_vars

(* What withError throws is the first error that reached its box.          *)
ThrowsFirst ==
    \A b \in Boxes : scope[b].stands = "threw" =>
        \E i \in DOMAIN met :
            /\ met[i].to = b /\ met[i].error = scope[b].error
            /\ \A j \in DOMAIN met : met[j].to = b => i <= j
=============================================================================
