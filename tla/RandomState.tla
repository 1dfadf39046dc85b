----------------------------- MODULE RandomState -----------------------------
(***************************************************************************)
(* MLXRandom.RandomState (Source/MLX/State.swift): a key that each draw    *)
(* splits in two, one to keep and one to hand out.  Threads draw from the  *)
(* global state, or from the one their task is scoped to.                  *)
(*                                                                         *)
(* A key is the seed it comes from and the path of splits that led to it.  *)
(***************************************************************************)
EXTENDS Sequences, SequencesExt, Naturals

CONSTANTS
    Threads,
    States,       \* RandomState objects
    Seeds,        \* each is used once: equal seeds are meant to repeat keys
    MaxDraws,     \* bound of the draws
    Nobody

VARIABLES
    state,        \* the key of each state
    lock,         \* who holds each state's lock
    found,        \* the key each thread's draw has read
    handed        \* the keys handed out

vars == <<state, lock, found, handed>>

key(s) == [seed |-> s, path |-> <<>>]
Side(k, side) == [k EXCEPT !.path = Append(@, side)]

SeedsUsed == {state[s].seed : s \in States} \union {handed[i].seed : i \in DOMAIN handed}

Init ==
    /\ state \in [States -> {key(s) : s \in Seeds}]
    /\ \A s, r \in States : state[s] = state[r] => s = r
    /\ lock = [s \in States |-> Nobody]
    /\ found = [t \in Threads |-> Nobody]
    /\ handed = <<>>

\* Faulty: the split is computed before the lock is taken.
FreeFaulty(s) == TRUE

Free(s) == lock[s] = Nobody

\* resolve picks a state, and next reads it under its lock.
Next1(t, s) ==
    /\ found[t] = Nobody /\ \A r \in States : lock[r] # t
    /\ Free(s) /\ Len(handed) < MaxDraws
    /\ lock' = [lock EXCEPT ![s] = t]
    /\ found' = [found EXCEPT ![t] = [of |-> s, key |-> state[s]]]
    /\ UNCHANGED <<state, handed>>

\* split(key:): the first half replaces the state, the second is returned.
Next2(t) ==
    /\ found[t] # Nobody
    /\ LET s == found[t].of IN
       /\ state' = [state EXCEPT ![s] = Side(found[t].key, 0)]
       /\ lock' = [lock EXCEPT ![s] = Nobody]
    /\ handed' = Append(handed, Side(found[t].key, 1))
    /\ found' = [found EXCEPT ![t] = Nobody]

\* seed(_:)
Reseed(s, seed) ==
    /\ Free(s) /\ seed \notin SeedsUsed
    /\ state' = [state EXCEPT ![s] = key(seed)]
    /\ UNCHANGED <<lock, found, handed>>

Next ==
    \/ \E t \in Threads : Next2(t) \/ \E s \in States : Next1(t, s)
    \/ \E s \in States, seed \in Seeds : Reseed(s, seed)

-----------------------------------------------------------------------------
\* One key can be reached from the other by splits.
Related(j, k) == j.seed = k.seed /\ (IsPrefix(j.path, k.path) \/ IsPrefix(k.path, j.path))

(* No key is handed out twice, and none can be reached by splits from      *)
(* another one or from what a state holds: what callers make of a key, by  *)
(* splitting it further, never meets the numbers of other callers.         *)
KeysAreIndependent ==
    /\ \A i, j \in DOMAIN handed : Related(handed[i], handed[j]) => i = j
    /\ \A i \in DOMAIN handed, s \in States : ~Related(handed[i], state[s])
=============================================================================
