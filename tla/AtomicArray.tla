----------------------------- MODULE AtomicArray -----------------------------
(***************************************************************************)
(* What the atomics of the Metal kernels promise (atomic.h): an array whose*)
(* elements threads update, each update taking effect at once and exactly  *)
(* once, whatever the size of an element.                                  *)
(***************************************************************************)
CONSTANTS
    Threads, Offsets, Values,
    Requests,          \* records with an op, a val and an offset
    Apply(_, _, _),    \* the result of op(val, element)
    Idle

VARIABLES
    cells,             \* the elements
    request            \* what each thread has asked for and is not done yet

vars == <<cells, request>>

Init ==
    /\ cells \in [Offsets -> Values]
    /\ request = [t \in Threads |-> Idle]

Invoke(t) ==
    /\ request[t] = Idle
    /\ \E r \in Requests : request' = [request EXCEPT ![t] = r]
    /\ UNCHANGED cells

Perform(t) ==
    LET r == request[t] IN
    /\ r # Idle
    /\ cells' = [cells EXCEPT ![r.offset] = Apply(r.op, r.val, @)]
    /\ request' = [request EXCEPT ![t] = Idle]

Next == \E t \in Threads : Invoke(t) \/ Perform(t)

Spec == Init /\ [][Next]_vars
=============================================================================
