----------------------------- MODULE AdmissionGate -----------------------------
(***************************************************************************)
(* What WiredMemoryManager promises its callers about admission, with no   *)
(* actor, waiters, limits or devices: a set of held tickets that grows one *)
(* ticket at a time, each admitted by its policy against the tickets of    *)
(* its group held at that very moment, and shrinks one ticket at a time.   *)
(* The policy is not asked again, so a gate that checked earlier and       *)
(* registered later would not implement this one.                          *)
(***************************************************************************)
CONSTANTS Tickets, PolicyOf, CanAdmit(_, _)

VARIABLE held

Group(k) == {j \in held : PolicyOf[j] = PolicyOf[k]}

Init == held = {}

Acquire(k) ==
    /\ k \notin held
    /\ CanAdmit(Group(k), k)
    /\ held' = held \union {k}

Release(k) ==
    /\ k \in held
    /\ held' = held \ {k}

Next == \E k \in Tickets : Acquire(k) \/ Release(k)

Spec == Init /\ [][Next]_held
=============================================================================
