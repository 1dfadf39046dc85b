------------------------------ MODULE EvalProbe ------------------------------
(***************************************************************************)
(* EvalProbe (Source/MLX/EvalProbe.swift): the counters by which a         *)
(* heartbeat thread sees that an eval is stuck.  eval brackets itself with *)
(* beginEval and endEval, and since it waits outside evalLock any number   *)
(* of threads are inside the bracket at once.                              *)
(*                                                                         *)
(* beginEval, endEval and the readers read the clock before they take the  *)
(* probe's lock, so another thread may act in between: each call is two    *)
(* steps.  Nanoseconds and milliseconds are one unit here.                 *)
(***************************************************************************)
EXTENDS Naturals, FiniteSets

CONSTANTS
    Threads,      \* threads that call eval
    Readers,      \* heartbeat threads
    MaxTime,      \* bound of the clock
    MaxEvals      \* bound of the evals that return before the last one begins

ASSUME TimeAssumption ==
    /\ IsFiniteSet(Threads) /\ Threads \intersect Readers = {}
    /\ MaxTime \in Nat \ {0} /\ MaxEvals \in Nat

VARIABLES
    clock,        \* DispatchTime.now(), never 0
    depth, since, completed, longest,   \* EvalProbe.State
    at,           \* where each thread is in its eval
    now,          \* the clock as each thread and reader last read it
    reported,     \* the last answer each reader got
    opened,       \* history: when each thread's bracket opened, and the
                  \* clock it had read for it
    returned      \* history: the evals that have returned

probe == <<depth, since, completed, longest>>
vars == <<clock, probe, at, now, reported, opened, returned>>

Stages == {"idle", "begin", "open", "end"}
Actors == Threads \union Readers

\* Threads between the bookkeeping of beginEval and that of endEval.
Open == {t \in Threads : at[t] \in {"open", "end"}}

Init ==
    /\ clock = 1
    /\ depth = 0 /\ since = 0 /\ completed = 0 /\ longest = 0
    /\ at = [t \in Threads |-> "idle"]
    /\ now = [a \in Actors |-> 0]
    /\ reported = [r \in Readers |-> 0]
    /\ opened = [t \in Threads |-> [time |-> 0, read |-> 0]]
    /\ returned = 0

Goto(t, stage) == at' = [at EXCEPT ![t] = stage]

ReadClock(a) == now' = [now EXCEPT ![a] = clock]

-----------------------------------------------------------------------------
BeginEval(t) ==
    /\ at[t] = "idle" /\ returned < MaxEvals
    /\ ReadClock(t)
    /\ Goto(t, "begin")
    /\ UNCHANGED <<clock, probe, reported, opened, returned>>

\* Faulty: every bracket stamps the start.
StampedSinceFaulty(t) == now[t]

\* Only the first open bracket stamps the start.
StampedSince(t) == IF depth = 0 THEN now[t] ELSE since

OpenBracket(t) ==
    /\ at[t] = "begin"
    /\ since' = StampedSince(t)
    /\ depth' = depth + 1
    /\ opened' = [opened EXCEPT ![t] = [time |-> clock, read |-> now[t]]]
    /\ Goto(t, "open")
    /\ UNCHANGED <<clock, completed, longest, now, reported, returned>>

EndEval(t) ==
    /\ at[t] = "open"
    /\ ReadClock(t)
    /\ Goto(t, "end")
    /\ UNCHANGED <<clock, probe, reported, opened, returned>>

Elapsed(time) == IF since # 0 /\ time > since THEN time - since ELSE 0

\* The bracket that closes last records the time since the first one opened,
\* counts one completed eval and clears the start.
CloseBracket(t) ==
    /\ at[t] = "end"
    /\ IF depth - 1 > 0
         THEN /\ depth' = depth - 1
              /\ UNCHANGED <<longest, completed, since>>
         ELSE /\ depth' = 0
              /\ longest' = IF Elapsed(now[t]) > longest THEN Elapsed(now[t]) ELSE longest
              /\ completed' = completed + 1
              /\ since' = 0
    /\ returned' = returned + 1
    /\ Goto(t, "idle")
    /\ UNCHANGED <<clock, now, reported, opened>>

-----------------------------------------------------------------------------
ReadElapsed(r) ==
    /\ now[r] = 0
    /\ ReadClock(r)
    /\ UNCHANGED <<clock, probe, at, reported, opened, returned>>

\* currentEvalElapsedMs
Report(r) ==
    /\ now[r] # 0
    /\ reported' = [reported EXCEPT ![r] = Elapsed(now[r])]
    /\ now' = [now EXCEPT ![r] = 0]
    /\ UNCHANGED <<clock, probe, at, opened, returned>>

Tick ==
    /\ clock < MaxTime
    /\ clock' = clock + 1
    /\ UNCHANGED <<probe, at, now, reported, opened, returned>>

Next ==
    \/ \E t \in Threads : BeginEval(t) \/ OpenBracket(t) \/ EndEval(t) \/ CloseBracket(t)
    \/ \E r \in Readers : ReadElapsed(r) \/ Report(r)
    \/ Tick

Spec == Init /\ [][Next]_vars

-----------------------------------------------------------------------------
(* Type correctness.  The depth counts the open brackets exactly, so the   *)
(* guard against a negative depth in endEval is never taken.               *)
TypeOK ==
    /\ clock \in 1..MaxTime
    /\ depth = Cardinality(Open)
    /\ since \in 0..clock /\ longest \in 0..clock
    /\ completed \in Nat /\ returned \in Nat
    /\ at \in [Threads -> Stages]
    /\ now \in [Actors -> 0..clock]
    /\ reported \in [Readers -> 0..clock]
    /\ opened \in [Threads -> [time : 0..clock, read : 0..clock]]

(* inFlight is exact: a start is recorded just while some eval is inside   *)
(* its bracket, so an idle process never looks stuck.                      *)
InFlightIsExact == since # 0 <=> Open # {}

(* A stuck eval is never under-reported: whatever other evals begin and    *)
(* end around it, the elapsed time a reader gets is at least the time from *)
(* the opening of every bracket still open to the reader's clock.          *)
ReportCoversOpenEvals ==
    [][\A r \in Readers : Report(r) =>
          \A t \in Open : now[r] <= opened[t].time + reported'[r]]_vars
=============================================================================
