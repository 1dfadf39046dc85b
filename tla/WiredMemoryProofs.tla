--------------------------- MODULE WiredMemoryProofs ---------------------------
(***************************************************************************)
(* What TLAPS proves of WiredMemory, for any tasks, tickets, policies,     *)
(* devices and configurations.                                             *)
(***************************************************************************)
EXTENDS WiredMemory, WellFoundedInduction, TLAPS

(* The limits of a family of policies have a largest element, although the *)
(* family need not be finite: each adds at most MaxDemand to the baseline. *)
LEMMA MaxOfBounded ==
    ASSUME NEW bound \in Nat, NEW S \in SUBSET (0..bound), S # {}
    PROVE  Max(S) \in S /\ \A y \in S : Max(S) >= y
<1> DEFINE T == {bound - x : x \in S}
<1>1. T \subseteq Nat /\ T # {}
  <2>1. \A x \in S : x \in Nat /\ bound - x \in Nat
    OBVIOUS
  <2>2. PICK x \in S : TRUE
    OBVIOUS
  <2> QED
    BY <2>1, <2>2
<1>2. PICK m \in T : \A y \in T : ~(<<y, m>> \in OpToRel(<, Nat))
  BY <1>1, NatLessThanWellFounded, WFMin
<1>3. \A y \in T : m <= y
  <2> TAKE y \in T
  <2>1. y \in Nat /\ m \in Nat
    BY <1>1
  <2>2. ~(<<y, m>> \in {ss \in Nat \X Nat : ss[1] < ss[2]})
    BY <1>2 DEF OpToRel
  <2>3. ~(y < m)
    BY <2>1, <2>2
  <2> HIDE DEF T
  <2> QED
    BY <2>1, <2>3
<1>4. PICK x \in S : m = bound - x
  OBVIOUS
<1>5. \A y \in S : x >= y
  <2> TAKE y \in S
  <2>1. bound - y \in T
    OBVIOUS
  <2>2. m <= bound - y
    BY <2>1, <1>3
  <2> QED
    BY <2>2, <1>4
<1> HIDE DEF T
<1> QED
  BY <1>5 DEF Max

(* desiredLimit() is a byte count.                                         *)
LEMMA DesiredLimitType ==
    ASSUME NEW b \in Nat, NEW S \in SUBSET Tickets, NEW P \in SUBSET Policies
    PROVE  DesiredLimit(b, S, P) \in Nat
<1> DEFINE limits == {PolicyLimit(p, b, Group(S, p)) :
                          p \in {q \in P : Group(S, q) # {}}}
<1>1. CASE limits = {}
  BY <1>1 DEF DesiredLimit
<1>2. CASE limits # {}
  <2>1. limits \in SUBSET (0 .. (b + MaxDemand))
    <3> SUFFICES ASSUME NEW p \in P
                 PROVE  PolicyLimit(p, b, Group(S, p)) \in 0 .. (b + MaxDemand)
      OBVIOUS
    <3>1. Group(S, p) \in SUBSET Tickets
      BY DEF Group
    <3>2. Demand(p, Group(S, p)) \in 0 .. MaxDemand
      BY <3>1, DemandAssumption
    <3> QED
      BY <3>2, ConstantsAssumption DEF PolicyLimit
  <2>2. b + MaxDemand \in Nat
    BY ConstantsAssumption
  <2> HIDE DEF limits
  <2>3. Max(limits) \in limits
    BY <2>1, <2>2, <1>2, MaxOfBounded
  <2>4. Max(limits) \in Nat
    <3>1. Max(limits) \in 0 .. (b + MaxDemand)
      BY <2>1, <2>3
    <3> QED
      BY <3>1, <2>2
  <2> USE DEF limits
  <2> QED
    BY <2>4, <1>2 DEF DesiredLimit
<1> QED
  BY <1>1, <1>2

LEMMA BaselineType ==
    ASSUME TypeOK, NEW t \in Tasks
    PROVE  BaselineAtStart(t) \in Nat
BY ConstantsAssumption DEF TypeOK, BaselineAtStart, ResolveBaseline, Override

LEMMA ApplyLimitType ==
    ASSUME TypeOK, NEW t \in Tasks, NEW S, NEW limit \in Nat,
           ApplyLimitIfNeeded(t, limit, S)
    PROVE  currentLimit' \in Nat \union {Nil} /\ cooling' \in BOOLEAN /\ wired' \in Nat
BY DEF TypeOK, ApplyLimitIfNeeded

LEMMA ApplyCurrentLimitType ==
    ASSUME TypeOK, NEW t \in Tasks, NEW b \in Nat, NEW S \in SUBSET Tickets,
           NEW P \in SUBSET Policies, ApplyCurrentLimit(t, b, S, P)
    PROVE  currentLimit' \in Nat \union {Nil} /\ cooling' \in BOOLEAN /\ wired' \in Nat
<1> DEFINE limit == IF HasActiveWork(S) THEN DesiredLimit(b, S, P) ELSE b
<1>1. limit \in Nat
  BY DesiredLimitType
<1>2. ApplyLimitIfNeeded(t, limit, S)
  BY DEF ApplyCurrentLimit
<1> HIDE DEF limit
<1> QED
  BY <1>1, <1>2, ApplyLimitType

-----------------------------------------------------------------------------
(* A task waits exactly while it is suspended, for the ticket of its call. *)
WaitersConsistent ==
    \A t \in Tasks :
        /\ pc[t] # "idle" => ticket[t] \in Tickets
        /\ waiters[t] = IF pc[t] = "suspended" THEN ticket[t] ELSE Nil

TypeInv == TypeOK /\ WaitersConsistent

\* The part of the invariant that is about the tasks.
TaskInv ==
    /\ waiters \in [Tasks -> Tickets \union {Nil}]
    /\ pc \in [Tasks -> Locations]
    /\ ticket \in [Tasks -> Tickets \union {Nil}]
    /\ cancelled \subseteq Tasks
    /\ cancelJobs \subseteq Tasks
    /\ WaitersConsistent

LEMMA ReturnType ==
    ASSUME TypeInv, NEW t \in Tasks, NEW k \in Tickets, NEW admitted \in BOOLEAN,
           ReturnFromStart(t, k, admitted), waiters[t] = Nil
    PROVE  TaskInv'
<1>1. PICK l \in {"idle", "running", "unadmitted"} :
          /\ pc' = [pc EXCEPT ![t] = l]
          /\ l # "idle" => k \in Scoped
  BY DEF ReturnFromStart
<1>2. ticket' = [ticket EXCEPT ![t] = IF k \in Scoped THEN k ELSE Nil]
  BY DEF ReturnFromStart
<1>3. UNCHANGED <<waiters, cancelled, cancelJobs>>
  BY DEF ReturnFromStart
<1> QED
  BY <1>1, <1>2, <1>3 DEF TypeInv, TypeOK, WaitersConsistent, TaskInv, Locations

LEMMA TypeInvAdmit ==
    ASSUME TypeInv, NEW t \in Tasks, NEW k \in Tickets, NEW b \in Nat,
           Admit(t, k, b), baseline' = b, waiters[t] = Nil, UNCHANGED configuration
    PROVE  TypeInv'
<1>1. tickets' \subseteq Tickets /\ policies' \subseteq Policies
  BY ConstantsAssumption DEF TypeInv, TypeOK, Admit
<1>2. currentLimit' \in Nat \union {Nil} /\ cooling' \in BOOLEAN /\ wired' \in Nat
  BY <1>1, ApplyCurrentLimitType DEF Admit, TypeInv
<1>3. TaskInv'
  BY ReturnType DEF Admit
<1> QED
  BY <1>1, <1>2, <1>3 DEF TypeInv, TypeOK, TaskInv

LEMMA TypeInvReturn ==
    ASSUME TypeInv, NEW t \in Tasks, NEW k \in Tickets,
           ReturnUnadmitted(t, k), baseline' \in Nat, waiters[t] = Nil,
           UNCHANGED configuration
    PROVE  TypeInv'
<1>1. TaskInv'
  BY ReturnType DEF ReturnUnadmitted
<1> QED
  BY <1>1 DEF ReturnUnadmitted, TypeInv, TypeOK, TaskInv

LEMMA TypeInvSuspend ==
    ASSUME TypeInv, NEW t \in Tasks, NEW k \in Tickets,
           Suspend(t, k), baseline' \in Nat, UNCHANGED configuration
    PROVE  TypeInv'
BY DEF Suspend, TypeInv, TypeOK, WaitersConsistent, Locations

LEMMA EndReleasedType ==
    ASSUME TypeOK, NEW t \in Tasks, NEW k \in Tickets, EndReleased(t, k)
    PROVE  /\ tickets' \subseteq Tickets
           /\ policies' \subseteq Policies
           /\ baseline' \in Nat \union {Nil}
           /\ currentLimit' \in Nat \union {Nil}
           /\ cooling' \in BOOLEAN
           /\ wired' \in Nat
<1>1. /\ tickets' = tickets \ {k}
      /\ tickets' \in SUBSET Tickets
      /\ policies' \in SUBSET Policies
      /\ baseline' \in Nat \union {Nil}
  BY DEF EndReleased, TypeOK
<1>2. CASE tickets' = {}
  <2>1. ApplyLimitIfNeeded(t, IF baseline = Nil THEN 0 ELSE baseline, tickets')
    BY <1>1, <1>2 DEF EndReleased
  <2>2. (IF baseline = Nil THEN 0 ELSE baseline) \in Nat
    BY DEF TypeOK
  <2> QED
    BY <1>1, <2>1, <2>2, ApplyLimitType
<1>3. CASE tickets' # {} /\ baseline = Nil
  BY <1>1, <1>3 DEF EndReleased, TypeOK
<1>4. CASE tickets' # {} /\ baseline # Nil
  <2>1. ApplyCurrentLimit(t, baseline, tickets', policies') /\ baseline \in Nat
    BY <1>1, <1>4 DEF EndReleased, TypeOK
  <2> QED
    BY <1>1, <2>1, ApplyCurrentLimitType
<1> QED
  BY <1>2, <1>3, <1>4

LEMMA EndType ==
    ASSUME TypeInv, NEW t \in Tasks, NEW k \in Tickets,
           NEW at \in [Tasks -> Locations], End(t, k, at),
           \A u \in Tasks : u # t => at[u] = pc[u],
           at[t] = "idle", waiters[t] = Nil,
           \A u \in Tasks : u # t => ticket'[u] = ticket[u],
           ticket' \in [Tasks -> Tickets \union {Nil}],
           UNCHANGED <<configuration, cancelled, cancelJobs>>
    PROVE  TypeInv'
<1>1. PICK W \in SUBSET Tasks : Resume(W, at) /\ \A u \in W : waiters[u] # Nil
  BY ConstantsAssumption DEF End, Waiting, WaitingFor
<1>2. /\ tickets' \subseteq Tickets
      /\ policies' \subseteq Policies
      /\ baseline' \in Nat \union {Nil}
      /\ currentLimit' \in Nat \union {Nil}
      /\ cooling' \in BOOLEAN
      /\ wired' \in Nat
  <2>1. CASE EndIgnored(t, k)
    BY <2>1 DEF EndIgnored, TypeInv, TypeOK
  <2>2. CASE EndReleased(t, k)
    BY <2>2, EndReleasedType DEF TypeInv
  <2> QED
    BY <2>1, <2>2 DEF End
<1>3. TaskInv'
  <2>1. /\ waiters' \in [Tasks -> Tickets \union {Nil}]
        /\ pc' \in [Tasks -> Locations]
    BY <1>1 DEF Resume, TypeInv, TypeOK, Locations
  <2>2. WaitersConsistent'
    BY <1>1 DEF Resume, TypeInv, TypeOK, WaitersConsistent, Locations
  <2> QED
    BY <2>1, <2>2 DEF TaskInv, TypeInv, TypeOK
<1> QED
  BY <1>2, <1>3 DEF TypeInv, TypeOK, TaskInv

LEMMA TypeInvStep == TypeInv /\ [Next]_vars => TypeInv'
<1> SUFFICES ASSUME TypeInv, [Next]_vars PROVE TypeInv'
  OBVIOUS
<1> USE DEF TypeInv
<1>1. ASSUME NEW t \in Tasks, NEW k \in Tickets, StartUnmanaged(t, k) PROVE TypeInv'
  <2>1. baseline' \in Nat /\ waiters[t] = Nil
    BY <1>1 DEF StartUnmanaged, MayCallStart, TypeOK, WaitersConsistent
  <2> QED
    BY <1>1, <2>1, TypeInvReturn DEF StartUnmanaged
<1>2. ASSUME NEW t \in Tasks, NEW k \in Tickets, Start(t, k) PROVE TypeInv'
  <2>1. /\ baseline' = BaselineAtStart(t) /\ BaselineAtStart(t) \in Nat
        /\ waiters[t] = Nil
        /\ UNCHANGED configuration
    BY <1>2, BaselineType DEF Start, MayCallStart, WaitersConsistent
  <2>2. \/ ReturnUnadmitted(t, k)
        \/ Admit(t, k, BaselineAtStart(t))
        \/ Suspend(t, k)
    BY <1>2 DEF Start
  <2> QED
    BY <2>1, <2>2, TypeInvReturn, TypeInvAdmit, TypeInvSuspend
<1>3. ASSUME NEW t \in Tasks, Recheck(t) PROVE TypeInv'
  <2>1. /\ baseline' = BaselineAtStart(t) /\ BaselineAtStart(t) \in Nat
        /\ waiters[t] = Nil
        /\ ticket[t] \in Tickets
        /\ UNCHANGED configuration
    BY <1>3, BaselineType DEF Recheck, WaitersConsistent
  <2>2. \/ ReturnUnadmitted(t, ticket[t])
        \/ Admit(t, ticket[t], BaselineAtStart(t))
        \/ Suspend(t, ticket[t])
    BY <1>3 DEF Recheck
  <2> QED
    BY <2>1, <2>2, TypeInvReturn, TypeInvAdmit, TypeInvSuspend
<1>4. ASSUME NEW t \in Tasks, NEW k \in Tickets, EndTicket(t, k) PROVE TypeInv'
  <2>1. waiters[t] = Nil /\ pc \in [Tasks -> Locations] /\ pc[t] = "idle"
    BY <1>4 DEF EndTicket, WaitersConsistent, TypeOK
  <2>2. ticket' = ticket /\ ticket' \in [Tasks -> Tickets \union {Nil}]
    BY <1>4 DEF EndTicket, TypeOK
  <2> QED
    BY <1>4, <2>1, <2>2, EndType DEF EndTicket
<1>5. ASSUME NEW t \in Tasks, LeaveScope(t) PROVE TypeInv'
  <2> DEFINE at == [pc EXCEPT ![t] = "idle"]
  <2>1. /\ waiters[t] = Nil
        /\ ticket[t] \in Tickets
        /\ at \in [Tasks -> Locations]
        /\ at[t] = "idle"
        /\ \A u \in Tasks : u # t => at[u] = pc[u]
    BY <1>5 DEF LeaveScope, WaitersConsistent, TypeOK, Locations
  <2>2. /\ ticket' \in [Tasks -> Tickets \union {Nil}]
        /\ \A u \in Tasks : u # t => ticket'[u] = ticket[u]
    BY <1>5 DEF LeaveScope, TypeOK
  <2>3. End(t, ticket[t], at) /\ UNCHANGED <<configuration, cancelled, cancelJobs>>
    BY <1>5 DEF LeaveScope
  <2> HIDE DEF at
  <2> QED
    BY <2>1, <2>2, <2>3, EndType
<1>6. ASSUME NEW t \in Tasks, Cancel(t) PROVE TypeInv'
  BY <1>6 DEF Cancel, TypeOK, WaitersConsistent, managerVars
<1>7. ASSUME NEW t \in Tasks, CancelWaiter(t) PROVE TypeInv'
  BY <1>7 DEF CancelWaiter, Resume, TypeOK, WaitersConsistent, managerVars, Locations
<1>8. ASSUME NEW t \in Tasks, Renew(t) PROVE TypeInv'
  BY <1>8 DEF Renew, TypeOK, WaitersConsistent, managerVars
<1>9. ASSUME NEW c \in Configurations, UpdateConfiguration(c) PROVE TypeInv'
  BY <1>9 DEF UpdateConfiguration, TypeOK, WaitersConsistent, managerVars, taskVars
<1>10. CASE CooldownElapses
  BY <1>10 DEF CooldownElapses, TypeOK, WaitersConsistent, taskVars
<1>11. CASE UNCHANGED vars
  BY <1>11 DEF vars, TypeOK, WaitersConsistent, managerVars, taskVars
<1> QED
  BY <1>1, <1>2, <1>3, <1>4, <1>5, <1>6, <1>7, <1>8, <1>9, <1>10, <1>11 DEF Next, Step

LEMMA TypeInvInit == Init => TypeInv
<1> SUFFICES ASSUME Init PROVE TypeInv
  OBVIOUS
<1>1. TypeOK
  BY DEF Init, TypeOK, Locations
<1>2. WaitersConsistent
  <2> SUFFICES ASSUME NEW t \in Tasks
               PROVE  /\ pc[t] # "idle" => ticket[t] \in Tickets
                      /\ waiters[t] = IF pc[t] = "suspended" THEN ticket[t] ELSE Nil
    BY DEF WaitersConsistent
  <2>1. pc[t] = "idle" /\ waiters[t] = Nil
    BY DEF Init
  <2> QED
    BY <2>1
<1> QED
  BY <1>1, <1>2 DEF TypeInv

(* Every value the manager computes stays in its type: in particular no    *)
(* sequence of calls, refusals and cancellations makes a limit that is not *)
(* a byte count, and a task waits exactly while it is suspended.           *)
THEOREM TypeCorrect == Spec => []TypeOK
<1>1. Spec => []TypeInv
  BY TypeInvInit, TypeInvStep, PTL DEF Spec
<1>2. TypeInv => TypeOK
  BY DEF TypeInv
<1> QED
  BY <1>1, <1>2, PTL

-----------------------------------------------------------------------------
(* No lost wake-up.                                                        *)

\* A policy that refuses a ticket goes on refusing it as its group grows.
LEMMA RefusalIsMonotone ==
    ASSUME NEW k \in Tickets, NEW S \in SUBSET Tickets, NEW T \in SUBSET Tickets,
           S \subseteq T, ~CanAdmit(Group(S, PolicyOf[k]), k)
    PROVE  ~CanAdmit(Group(T, PolicyOf[k]), k)
<1>1. /\ Group(S, PolicyOf[k]) \in SUBSET Tickets
      /\ Group(T, PolicyOf[k]) \in SUBSET Tickets
      /\ Group(S, PolicyOf[k]) \subseteq Group(T, PolicyOf[k])
  BY DEF Group
<1> QED
  BY <1>1, AdmissionAssumption

\* Every suspended task's ticket is refused by its policy.
Refused(u) == ~CanAdmit(Group(tickets, PolicyOf[ticket[u]]), ticket[u])

WakeupInv == \A u \in Tasks : pc[u] = "suspended" => Refused(u)

\* A step that wakes or keeps every other task and takes no ticket away.
LEMMA WakeupKept ==
    ASSUME TypeInv, TypeInv', WakeupInv, NEW t \in Tasks, tickets \subseteq tickets',
           \A u \in Tasks : u # t /\ pc'[u] = "suspended" =>
                                pc[u] = "suspended" /\ ticket'[u] = ticket[u],
           pc'[t] = "suspended" => Refused(t)'
    PROVE  WakeupInv'
<1> SUFFICES ASSUME NEW u \in Tasks, u # t, pc'[u] = "suspended" PROVE Refused(u)'
  BY DEF WakeupInv
<1>1. Refused(u) /\ ticket'[u] = ticket[u] /\ ticket[u] \in Tickets
  BY DEF WakeupInv, TypeInv, WaitersConsistent
<1>2. tickets \in SUBSET Tickets /\ tickets' \in SUBSET Tickets
  BY DEF TypeInv, TypeOK
<1> QED
  BY <1>1, <1>2, RefusalIsMonotone DEF Refused

LEMMA WakeupReturn ==
    ASSUME TypeInv, NEW t \in Tasks, NEW k, NEW admitted, ReturnFromStart(t, k, admitted)
    PROVE  /\ pc'[t] # "suspended"
           /\ \A u \in Tasks : u # t => pc'[u] = pc[u] /\ ticket'[u] = ticket[u]
BY DEF ReturnFromStart, TypeInv, TypeOK

\* Whatever start() does, the other tasks wait as before.
LEMMA WakeupStart ==
    ASSUME TypeInv, TypeInv', WakeupInv, NEW t \in Tasks, NEW k, NEW b,
           ReturnUnadmitted(t, k) \/ Admit(t, k, b) \/ Suspend(t, k)
    PROVE  WakeupInv'
<1>1. CASE ReturnUnadmitted(t, k)
  BY <1>1, WakeupReturn, WakeupKept DEF ReturnUnadmitted
<1>2. CASE Admit(t, k, b)
  BY <1>2, WakeupReturn, WakeupKept DEF Admit
<1>3. CASE Suspend(t, k)
  <2>1. /\ tickets \subseteq tickets'
        /\ \A u \in Tasks : u # t => pc'[u] = pc[u] /\ ticket'[u] = ticket[u]
        /\ Refused(t)'
    BY <1>3 DEF Suspend, Refused, TypeInv, TypeOK
  <2> QED
    BY <2>1, WakeupKept
<1> QED
  BY <1>1, <1>2, <1>3

\* end() takes a ticket away only together with every waiter.
LEMMA WakeupEnd ==
    ASSUME TypeInv, TypeInv', WakeupInv, NEW t \in Tasks, NEW k,
           NEW at \in [Tasks -> Locations], End(t, k, at),
           \A u \in Tasks : u # t => at[u] = pc[u] /\ ticket'[u] = ticket[u],
           at[t] = "idle"
    PROVE  WakeupInv'
<1>1. CASE EndIgnored(t, k) /\ Resume(WaitingFor(k), at)
  <2>1. tickets' = tickets
    BY <1>1 DEF EndIgnored
  <2>2. pc'[t] # "suspended"
    BY <1>1 DEF Resume
  <2>3. \A u \in Tasks : u # t /\ pc'[u] = "suspended" =>
            pc[u] = "suspended" /\ ticket'[u] = ticket[u]
    BY <1>1 DEF Resume
  <2> QED
    BY <2>1, <2>2, <2>3, WakeupKept
<1>2. CASE EndReleased(t, k) /\ Resume(Waiting, at)
  <2> SUFFICES ASSUME NEW u \in Tasks, pc'[u] = "suspended" PROVE FALSE
    BY DEF WakeupInv
  <2>1. u \notin Waiting /\ at[u] = "suspended"
    BY <1>2 DEF Resume
  <2>2. u # t /\ pc[u] = "suspended"
    BY <2>1
  <2>3. waiters[u] \in Tickets
    BY <2>2 DEF TypeInv, WaitersConsistent
  <2> QED
    BY <2>1, <2>3, ConstantsAssumption DEF Waiting
<1> QED
  BY <1>1, <1>2 DEF End

LEMMA WakeupStep ==
    TypeInv /\ TypeInv' /\ WakeupInv /\ [Next]_vars => WakeupInv'
<1> SUFFICES ASSUME TypeInv, TypeInv', WakeupInv, [Next]_vars PROVE WakeupInv'
  OBVIOUS
<1>1. ASSUME NEW t \in Tasks, NEW k \in Tickets, StartUnmanaged(t, k) \/ Start(t, k)
      PROVE  WakeupInv'
  BY <1>1, WakeupStart DEF StartUnmanaged, Start
<1>2. ASSUME NEW t \in Tasks, Recheck(t) PROVE WakeupInv'
  BY <1>2, WakeupStart DEF Recheck
<1>3. ASSUME NEW t \in Tasks, NEW k \in Tickets, EndTicket(t, k) PROVE WakeupInv'
  <2>1. pc \in [Tasks -> Locations] /\ pc[t] = "idle" /\ ticket' = ticket /\ End(t, k, pc)
    BY <1>3 DEF EndTicket, TypeInv, TypeOK
  <2> QED
    BY <2>1, WakeupEnd
<1>4. ASSUME NEW t \in Tasks, LeaveScope(t) PROVE WakeupInv'
  <2> DEFINE at == [pc EXCEPT ![t] = "idle"]
  <2>1. /\ at \in [Tasks -> Locations]
        /\ at[t] = "idle"
        /\ \A u \in Tasks : u # t => at[u] = pc[u] /\ ticket'[u] = ticket[u]
        /\ End(t, ticket[t], at)
    BY <1>4 DEF LeaveScope, TypeInv, TypeOK, Locations
  <2> HIDE DEF at
  <2> QED
    BY <2>1, WakeupEnd
<1>5. ASSUME NEW t \in Tasks, CancelWaiter(t) PROVE WakeupInv'
  <2>1. /\ tickets' = tickets /\ ticket' = ticket
        /\ \A u \in Tasks : pc'[u] = "suspended" => pc[u] = "suspended"
    BY <1>5 DEF CancelWaiter, Resume, managerVars
  <2> QED
    BY <2>1 DEF WakeupInv, Refused
<1>6. ASSUME NEW t \in Tasks, Cancel(t) \/ Renew(t) PROVE WakeupInv'
  BY <1>6 DEF Cancel, Renew, WakeupInv, Refused, managerVars
<1>7. ASSUME NEW c \in Configurations, UpdateConfiguration(c) PROVE WakeupInv'
  BY <1>7 DEF UpdateConfiguration, WakeupInv, Refused, managerVars, taskVars
<1>8. CASE CooldownElapses \/ UNCHANGED vars
  BY <1>8 DEF CooldownElapses, vars, WakeupInv, Refused, managerVars, taskVars
<1> QED
  BY <1>1, <1>2, <1>3, <1>4, <1>5, <1>6, <1>7, <1>8 DEF Next, Step

(* Nobody waits for capacity that is there: however start(), end() and     *)
(* cancellation interleave, a suspended task has a waiter, and its policy  *)
(* refuses its ticket given the tickets registered at that moment.         *)
THEOREM NoWakeupIsLost == Spec => []NoLostWakeup
<1>1. Init => WakeupInv
  BY DEF Init, WakeupInv
<1>2. Spec => [](TypeInv /\ WakeupInv)
  BY <1>1, TypeInvInit, TypeInvStep, WakeupStep, PTL DEF Spec
<1>3. TypeInv /\ WakeupInv => NoLostWakeup
  BY DEF TypeInv, WaitersConsistent, WakeupInv, Refused, NoLostWakeup
<1> QED
  BY <1>2, <1>3, PTL

-----------------------------------------------------------------------------
(* The manager implements the admission gate.                              *)

LEMMA GateAdmit ==
    ASSUME NEW t, NEW k \in Tickets, NEW b, k \notin tickets, Admit(t, k, b)
    PROVE  Gate!Next
<1>1. Gate!Group(k) = Group(tickets, PolicyOf[k])
  BY DEF Gate!Group, Group
<1>2. Gate!Acquire(k)
  BY <1>1 DEF Gate!Acquire, Admit
<1> QED
  BY <1>2 DEF Gate!Next

LEMMA GateEnd ==
    ASSUME NEW t, NEW k \in Tickets, NEW at, End(t, k, at)
    PROVE  Gate!Next \/ tickets' = tickets
<1>1. CASE EndIgnored(t, k)
  BY <1>1 DEF EndIgnored
<1>2. CASE EndReleased(t, k)
  BY <1>2 DEF EndReleased, Gate!Next, Gate!Release
<1> QED
  BY <1>1, <1>2 DEF End

LEMMA GateStep == TypeInv /\ [Next]_vars => [Gate!Next]_tickets
<1> SUFFICES ASSUME TypeInv, [Next]_vars PROVE Gate!Next \/ tickets' = tickets
  OBVIOUS
<1>1. ASSUME NEW t \in Tasks, NEW k \in Tickets, StartUnmanaged(t, k) \/ Start(t, k)
      PROVE  Gate!Next \/ tickets' = tickets
  BY <1>1, GateAdmit DEF StartUnmanaged, Start, ReturnUnadmitted, Suspend
<1>2. ASSUME NEW t \in Tasks, Recheck(t) PROVE Gate!Next \/ tickets' = tickets
  <2>1. ticket[t] \in Tickets
    BY <1>2 DEF Recheck, TypeInv, WaitersConsistent
  <2> QED
    BY <1>2, <2>1, GateAdmit DEF Recheck, ReturnUnadmitted, Suspend
<1>3. ASSUME NEW t \in Tasks, NEW k \in Tickets, EndTicket(t, k)
      PROVE  Gate!Next \/ tickets' = tickets
  BY <1>3, GateEnd DEF EndTicket
<1>4. ASSUME NEW t \in Tasks, LeaveScope(t) PROVE Gate!Next \/ tickets' = tickets
  <2>1. ticket[t] \in Tickets
    BY <1>4 DEF LeaveScope, TypeInv, WaitersConsistent
  <2> QED
    BY <1>4, <2>1, GateEnd DEF LeaveScope
<1>5. ASSUME NEW t \in Tasks, Cancel(t) \/ CancelWaiter(t) \/ Renew(t)
      PROVE  tickets' = tickets
  BY <1>5 DEF Cancel, CancelWaiter, Renew, managerVars
<1>6. ASSUME NEW c \in Configurations, UpdateConfiguration(c) PROVE tickets' = tickets
  BY <1>6 DEF UpdateConfiguration, managerVars
<1>7. CASE CooldownElapses \/ UNCHANGED vars
  BY <1>7 DEF CooldownElapses, vars, managerVars
<1> QED
  BY <1>1, <1>2, <1>3, <1>4, <1>5, <1>6, <1>7 DEF Next, Step

(* Admission is atomic: a ticket enters the set only in a step in which    *)
(* its policy accepts it beside the tickets of its group held right then,  *)
(* although start() may have suspended between its call and that step.     *)
THEOREM ImplementsGate == Spec => GateSpec
<1>1. Init => Gate!Init
  BY DEF Init, Gate!Init
<1>2. Spec => []TypeInv
  BY TypeInvInit, TypeInvStep, PTL DEF Spec
<1> QED
  BY <1>1, <1>2, GateStep, PTL DEF Spec, GateSpec, Gate!Spec

-----------------------------------------------------------------------------
(* Scopes keep their tickets.                                              *)

ScopeInv ==
    /\ \A t \in Tasks : pc[t] \in {"running", "unadmitted"} => ticket[t] \in Scoped
    /\ \A t \in Tasks : pc[t] = "running" => ticket[t] \in tickets
    /\ \A t, u \in Tasks :
          t # u /\ pc[t] # "idle" /\ pc[u] # "idle" /\ ticket[t] = ticket[u]
              => ticket[t] \notin Scoped

\* The call of task t by which a scope may come into being has its ticket alone.
Exclusive(t, k) ==
    k \in Scoped => \A u \in Tasks : u # t /\ pc[u] # "idle" => ticket[u] # k

LEMMA ScopeReturn ==
    ASSUME TypeInv, ScopeInv, NEW t \in Tasks, NEW k \in Tickets, NEW admitted \in BOOLEAN,
           ReturnFromStart(t, k, admitted), Exclusive(t, k),
           tickets \subseteq tickets', admitted => k \in tickets'
    PROVE  ScopeInv'
<1>1. PICK l \in {"idle", "running", "unadmitted"} :
          /\ pc' = [pc EXCEPT ![t] = l]
          /\ l # "idle" => k \in Scoped
          /\ l = "running" => admitted
  BY DEF ReturnFromStart
<1>2. ticket' = [ticket EXCEPT ![t] = IF k \in Scoped THEN k ELSE Nil]
  BY DEF ReturnFromStart
<1>3. pc'[t] = l /\ \A u \in Tasks : u # t => pc'[u] = pc[u]
  BY <1>1 DEF TypeInv, TypeOK
<1>4. /\ k \in Scoped => ticket'[t] = k
      /\ \A u \in Tasks : u # t => ticket'[u] = ticket[u]
  BY <1>2 DEF TypeInv, TypeOK
<1> QED
  BY <1>1, <1>3, <1>4 DEF ScopeInv, Exclusive

LEMMA ScopeStart ==
    ASSUME TypeInv, ScopeInv, NEW t \in Tasks, NEW k \in Tickets, NEW b,
           ReturnUnadmitted(t, k) \/ Admit(t, k, b) \/ Suspend(t, k), Exclusive(t, k)
    PROVE  ScopeInv'
<1>1. CASE ReturnUnadmitted(t, k)
  <2>1. ReturnFromStart(t, k, FALSE) /\ tickets' = tickets
    BY <1>1 DEF ReturnUnadmitted
  <2> QED
    BY <2>1, ScopeReturn
<1>2. CASE Admit(t, k, b)
  <2>1. ReturnFromStart(t, k, TRUE) /\ tickets' = tickets \union {k}
    BY <1>2 DEF Admit
  <2> QED
    BY <2>1, ScopeReturn
<1>3. CASE Suspend(t, k)
  <2>1. /\ tickets' = tickets
        /\ pc'[t] = "suspended" /\ ticket'[t] = k
        /\ \A u \in Tasks : u # t => pc'[u] = pc[u] /\ ticket'[u] = ticket[u]
    BY <1>3 DEF Suspend, TypeInv, TypeOK
  <2> QED
    BY <2>1 DEF ScopeInv, Exclusive
<1> QED
  BY <1>1, <1>2, <1>3

LEMMA ScopeEnd ==
    ASSUME TypeInv, ScopeInv, NEW t \in Tasks, NEW k \in Tickets,
           NEW at \in [Tasks -> Locations], End(t, k, at),
           \A u \in Tasks : u # t => at[u] = pc[u] /\ ticket'[u] = ticket[u],
           at[t] = "idle", waiters[t] = Nil,
           k \in Scoped => pc[t] # "idle" /\ ticket[t] = k
    PROVE  ScopeInv'
<1>1. PICK W \in SUBSET Tasks : Resume(W, at) /\ \A u \in W : waiters[u] # Nil
  BY ConstantsAssumption DEF End, Waiting, WaitingFor
<1>2. tickets \ {k} \subseteq tickets'
  BY DEF End, EndIgnored, EndReleased
<1>3. t \notin W /\ pc'[t] = "idle"
  BY <1>1 DEF Resume
<1>4. \A u \in Tasks : u # t =>
          /\ ticket'[u] = ticket[u]
          /\ pc'[u] = pc[u] \/ (pc[u] = "suspended" /\ pc'[u] = "resumed")
  BY <1>1 DEF Resume, TypeInv, WaitersConsistent
<1>5. \A u \in Tasks : pc'[u] = "running" => ticket'[u] \in tickets'
  <2> SUFFICES ASSUME NEW u \in Tasks, pc'[u] = "running" PROVE ticket[u] \in tickets' /\ u # t
    BY <1>4
  <2>1. u # t /\ pc[u] = "running" /\ ticket[u] \in tickets /\ ticket[u] \in Scoped
    BY <1>3, <1>4 DEF ScopeInv
  <2>2. ticket[u] # k
    BY <2>1 DEF ScopeInv
  <2> QED
    BY <1>2, <2>1, <2>2
<1> QED
  BY <1>3, <1>4, <1>5 DEF ScopeInv

LEMMA ScopeStep == TypeInv /\ ScopeInv /\ [Next]_vars => ScopeInv'
<1> SUFFICES ASSUME TypeInv, ScopeInv, [Next]_vars PROVE ScopeInv'
  OBVIOUS
<1>1. ASSUME NEW t \in Tasks, NEW k \in Tickets, StartUnmanaged(t, k) \/ Start(t, k)
      PROVE  ScopeInv'
  <2>1. Exclusive(t, k)
    BY <1>1 DEF StartUnmanaged, Start, MayCallStart, Exclusive
  <2> QED
    BY <1>1, <2>1, ScopeStart DEF StartUnmanaged, Start
<1>2. ASSUME NEW t \in Tasks, Recheck(t) PROVE ScopeInv'
  <2>1. ticket[t] \in Tickets /\ Exclusive(t, ticket[t])
    BY <1>2 DEF Recheck, TypeInv, WaitersConsistent, ScopeInv, Exclusive
  <2> QED
    BY <1>2, <2>1, ScopeStart DEF Recheck
<1>3. ASSUME NEW t \in Tasks, NEW k \in Tickets, EndTicket(t, k) PROVE ScopeInv'
  <2>1. /\ pc \in [Tasks -> Locations] /\ pc[t] = "idle" /\ waiters[t] = Nil
        /\ ticket' = ticket /\ k \notin Scoped /\ End(t, k, pc)
    BY <1>3 DEF EndTicket, TypeInv, TypeOK, WaitersConsistent
  <2> QED
    BY <2>1, ScopeEnd
<1>4. ASSUME NEW t \in Tasks, LeaveScope(t) PROVE ScopeInv'
  <2> DEFINE at == [pc EXCEPT ![t] = "idle"]
  <2>1. /\ at \in [Tasks -> Locations]
        /\ at[t] = "idle" /\ waiters[t] = Nil /\ pc[t] # "idle" /\ ticket[t] \in Tickets
        /\ \A u \in Tasks : u # t => at[u] = pc[u] /\ ticket'[u] = ticket[u]
        /\ End(t, ticket[t], at)
    BY <1>4 DEF LeaveScope, TypeInv, TypeOK, WaitersConsistent, Locations
  <2> HIDE DEF at
  <2> QED
    BY <2>1, ScopeEnd
<1>5. ASSUME NEW t \in Tasks, CancelWaiter(t) PROVE ScopeInv'
  <2>1. /\ tickets' = tickets /\ ticket' = ticket
        /\ \A u \in Tasks : pc'[u] = pc[u] \/ (pc[u] = "suspended" /\ pc'[u] = "resumed")
    BY <1>5, ConstantsAssumption
       DEF CancelWaiter, Resume, managerVars, TypeInv, WaitersConsistent
  <2> QED
    BY <2>1 DEF ScopeInv
<1>6. ASSUME NEW t \in Tasks, Cancel(t) \/ Renew(t) PROVE ScopeInv'
  BY <1>6 DEF Cancel, Renew, ScopeInv, managerVars
<1>7. ASSUME NEW c \in Configurations, UpdateConfiguration(c) PROVE ScopeInv'
  BY <1>7 DEF UpdateConfiguration, ScopeInv, managerVars, taskVars
<1>8. CASE CooldownElapses \/ UNCHANGED vars
  BY <1>8 DEF CooldownElapses, vars, ScopeInv, managerVars, taskVars
<1> QED
  BY <1>1, <1>2, <1>3, <1>4, <1>5, <1>6, <1>7, <1>8 DEF Next, Step

(* The body of an admitted withWiredLimit scope runs with its ticket       *)
(* registered to the end, provided overlapping scopes use distinct tickets *)
(* as the documentation asks: cancellation, other tasks' end() calls and   *)
(* reconfiguration do not take it away.                                    *)
THEOREM ScopesKeepTickets == Spec => []AdmittedStaysRegistered
<1>1. Init => ScopeInv
  BY DEF Init, ScopeInv
<1>2. ScopeInv => AdmittedStaysRegistered
  BY DEF ScopeInv, AdmittedStaysRegistered
<1> QED
  BY <1>1, <1>2, TypeInvInit, TypeInvStep, ScopeStep, PTL DEF Spec

-----------------------------------------------------------------------------
(* The limit the manager applies: it covers the work, and it comes back to *)
(* the baseline.                                                           *)

(* While tickets are registered there is a baseline, and every group that  *)
(* has a ticket has its policy.                                            *)
LedgerInv ==
    /\ tickets # {} => baseline # Nil
    /\ \A k \in tickets : PolicyOf[k] \in policies

LEMMA ActiveWorkHasTickets == ASSUME NEW S, HasActiveWork(S) PROVE S # {}
BY DEF HasActiveWork

LEMMA LedgerStart ==
    ASSUME TypeInv, LedgerInv, NEW t \in Tasks, NEW k \in Tickets, NEW b \in Nat,
           baseline' = b, ReturnUnadmitted(t, k) \/ Admit(t, k, b) \/ Suspend(t, k)
    PROVE  LedgerInv'
<1>1. b # Nil
  BY ConstantsAssumption
<1>2. \/ tickets' = tickets /\ policies' = policies
      \/ tickets' = tickets \union {k} /\ policies' = policies \union {PolicyOf[k]}
  BY DEF ReturnUnadmitted, Admit, Suspend
<1> QED
  BY <1>1, <1>2 DEF LedgerInv

LEMMA LedgerEnd ==
    ASSUME TypeInv, LedgerInv, NEW t \in Tasks, NEW k \in Tickets, NEW at, End(t, k, at)
    PROVE  LedgerInv'
<1>1. CASE EndIgnored(t, k)
  BY <1>1, ConstantsAssumption DEF EndIgnored, LedgerInv
<1>2. CASE EndReleased(t, k)
  <2>1. tickets' = tickets \ {k} /\ (tickets' # {} => baseline' = baseline)
    BY <1>2 DEF EndReleased
  <2>2. \A j \in tickets' : PolicyOf[j] \in policies'
    <3> SUFFICES ASSUME NEW j \in tickets' PROVE PolicyOf[j] \in policies'
      OBVIOUS
    <3>1. PolicyOf[j] \in policies /\ j \in tickets'
      BY <2>1 DEF LedgerInv
    <3>2. PolicyOf[j] = PolicyOf[k] => Group(tickets', PolicyOf[k]) # {}
      BY <3>1 DEF Group
    <3> QED
      BY <1>2, <2>1, <3>1, <3>2 DEF EndReleased
  <2> QED
    BY <2>1, <2>2 DEF LedgerInv
<1> QED
  BY <1>1, <1>2 DEF End

\* The steps of Next, sorted by what they do to the ledger and to the limit:
\* a start(), an end(), or neither.
Starts(t, k) ==
    /\ baseline' = BaselineAtStart(t)
    /\ \/ ReturnUnadmitted(t, k)
       \/ k \notin tickets /\ Admit(t, k, BaselineAtStart(t))
       \/ Suspend(t, k)

Unmanaged(t, k) ==
    /\ baseline' = IF baseline = Nil THEN 0 ELSE baseline
    /\ ReturnUnadmitted(t, k)

Elsewhere == UNCHANGED <<tickets, policies, baseline, currentLimit, wired>>

LEMMA StepKinds ==
    ASSUME TypeInv, [Next]_vars
    PROVE  \/ \E t \in Tasks, k \in Tickets :
                 \/ Starts(t, k)
                 \/ Unmanaged(t, k)
                 \/ \E at : End(t, k, at)
           \/ Elsewhere
<1>1. ASSUME NEW t \in Tasks, NEW k \in Tickets, StartUnmanaged(t, k) \/ Start(t, k)
      PROVE  Starts(t, k) \/ Unmanaged(t, k)
  BY <1>1 DEF StartUnmanaged, Start, Starts, Unmanaged
<1>2. ASSUME NEW t \in Tasks, Recheck(t)
      PROVE  ticket[t] \in Tickets /\ Starts(t, ticket[t])
  BY <1>2 DEF Recheck, Starts, TypeInv, WaitersConsistent
<1>3. ASSUME NEW t \in Tasks, NEW k \in Tickets, EndTicket(t, k) PROVE End(t, k, pc)
  BY <1>3 DEF EndTicket
<1>4. ASSUME NEW t \in Tasks, LeaveScope(t)
      PROVE  ticket[t] \in Tickets /\ \E at : End(t, ticket[t], at)
  BY <1>4 DEF LeaveScope, TypeInv, WaitersConsistent
<1>5. ASSUME NEW t \in Tasks, Cancel(t) \/ CancelWaiter(t) \/ Renew(t) PROVE Elsewhere
  BY <1>5 DEF Cancel, CancelWaiter, Renew, managerVars, Elsewhere
<1>6. ASSUME NEW c \in Configurations, UpdateConfiguration(c) PROVE Elsewhere
  BY <1>6 DEF UpdateConfiguration, managerVars, Elsewhere
<1>7. CASE CooldownElapses \/ UNCHANGED vars
  BY <1>7 DEF CooldownElapses, vars, managerVars, Elsewhere
<1> QED
  BY <1>1, <1>2, <1>3, <1>4, <1>5, <1>6, <1>7 DEF Next, Step

LEMMA LedgerStep == TypeInv /\ LedgerInv /\ [Next]_vars => LedgerInv'
<1> SUFFICES ASSUME TypeInv, LedgerInv, [Next]_vars PROVE LedgerInv'
  OBVIOUS
<1>1. ASSUME NEW t \in Tasks, NEW k \in Tickets, Starts(t, k) PROVE LedgerInv'
  <2>1. BaselineAtStart(t) \in Nat
    BY BaselineType DEF TypeInv
  <2> QED
    BY <1>1, <2>1, LedgerStart DEF Starts
<1>2. ASSUME NEW t \in Tasks, NEW k \in Tickets, Unmanaged(t, k) PROVE LedgerInv'
  BY <1>2, ConstantsAssumption DEF Unmanaged, ReturnUnadmitted, LedgerInv
<1>3. ASSUME NEW t \in Tasks, NEW k \in Tickets, NEW at, End(t, k, at) PROVE LedgerInv'
  BY <1>3, LedgerEnd
<1>4. CASE Elsewhere
  BY <1>4 DEF Elsewhere, LedgerInv
<1> QED
  BY <1>1, <1>2, <1>3, <1>4, StepKinds

LEMMA LedgerInit == Init => LedgerInv
BY DEF Init, LedgerInv

-----------------------------------------------------------------------------
(* The limit covers the work.                                              *)

\* desiredLimit() misses no group: the policies dictionary is as good as all.
LEMMA DesiredOfAll ==
    ASSUME NEW b, NEW S \in SUBSET Tickets, NEW P \in SUBSET Policies,
           \A k \in S : PolicyOf[k] \in P
    PROVE  DesiredLimit(b, S, P) = DesiredLimit(b, S, Policies)
<1>1. {q \in P : Group(S, q) # {}} = {q \in Policies : Group(S, q) # {}}
  BY DEF Group
<1> QED
  BY <1>1 DEF DesiredLimit

LEMMA ApplyCovers ==
    ASSUME TypeInv, NEW t \in Tasks, NEW b \in Nat, NEW S \in SUBSET Tickets,
           NEW P \in SUBSET Policies, ApplyCurrentLimit(t, b, S, P), HasActiveWork(S)
    PROVE  \/ MayRefuse(DesiredLimit(b, S, P))
           \/ currentLimit' >= DesiredLimit(b, S, P)
<1> DEFINE limit == DesiredLimit(b, S, P)
<1>1. limit \in Nat
  BY DesiredLimitType
<1>2. ApplyLimitIfNeeded(t, limit, S)
  BY DEF ApplyCurrentLimit
<1> SUFFICES MayRefuse(limit) \/ currentLimit' >= limit
  OBVIOUS
<1> HIDE DEF limit
<1>3. CASE currentLimit = limit
  BY <1>1, <1>2, <1>3 DEF ApplyLimitIfNeeded
<1>4. CASE ShrinkDeferred(limit, S) /\ currentLimit # limit
  BY <1>1, <1>2, <1>4 DEF ApplyLimitIfNeeded, ShrinkDeferred, TypeInv, TypeOK
<1>5. CASE ~ShrinkDeferred(limit, S) /\ currentLimit # limit
  BY <1>1, <1>2, <1>5 DEF ApplyLimitIfNeeded
<1> QED
  BY <1>3, <1>4, <1>5

LEMMA CoversStep ==
    TypeInv /\ TypeInv' /\ LedgerInv /\ LedgerInv' /\ LimitCoversWork /\ [Next]_vars
        => LimitCoversWork'
<1> SUFFICES ASSUME TypeInv, TypeInv', LedgerInv, LedgerInv', LimitCoversWork, [Next]_vars,
                    HasActiveWork(tickets')
             PROVE  \/ MayRefuse(DesiredLimit(baseline', tickets', Policies))
                    \/ currentLimit' >= DesiredLimit(baseline', tickets', Policies)
  BY DEF LimitCoversWork
<1>1. DesiredLimit(baseline', tickets', policies') = DesiredLimit(baseline', tickets', Policies)
  BY DesiredOfAll DEF TypeInv, TypeOK, LedgerInv
<1>2. tickets' \in SUBSET Tickets /\ policies' \in SUBSET Policies
  BY DEF TypeInv, TypeOK
<1>3. CASE UNCHANGED <<tickets, baseline, currentLimit>>
  BY <1>3 DEF LimitCoversWork
<1>4. ASSUME NEW t \in Tasks, NEW b \in Nat, baseline' = b,
             ApplyCurrentLimit(t, b, tickets', policies')
      PROVE  \/ MayRefuse(DesiredLimit(baseline', tickets', policies'))
             \/ currentLimit' >= DesiredLimit(baseline', tickets', policies')
  BY <1>2, <1>4, ApplyCovers
<1>5. ASSUME NEW t \in Tasks, NEW k \in Tickets, Starts(t, k)
      PROVE  \/ UNCHANGED <<tickets, baseline, currentLimit>>
             \/ ApplyCurrentLimit(t, BaselineAtStart(t), tickets', policies')
  <2>1. tickets' = tickets => baseline' = baseline
    BY <1>5, ActiveWorkHasTickets DEF Starts, BaselineAtStart, LedgerInv
  <2> QED
    BY <1>5, <2>1 DEF Starts, ReturnUnadmitted, Admit, Suspend
<1>6. ASSUME NEW t \in Tasks, NEW k \in Tickets, Unmanaged(t, k)
      PROVE  UNCHANGED <<tickets, baseline, currentLimit>>
  <2>1. tickets' = tickets /\ currentLimit' = currentLimit
    BY <1>6 DEF Unmanaged, ReturnUnadmitted
  <2>2. baseline # Nil
    BY <2>1, ActiveWorkHasTickets DEF LedgerInv
  <2> QED
    BY <1>6, <2>1, <2>2 DEF Unmanaged
<1>7. ASSUME NEW t \in Tasks, NEW k \in Tickets, NEW at, End(t, k, at)
      PROVE  \/ UNCHANGED <<tickets, baseline, currentLimit>>
             \/ /\ baseline \in Nat /\ baseline' = baseline
                /\ ApplyCurrentLimit(t, baseline, tickets', policies')
  <2>1. tickets' # {} /\ baseline' # Nil
    BY ActiveWorkHasTickets DEF LedgerInv
  <2>2. CASE EndIgnored(t, k)
    <3>1. tickets' = tickets /\ baseline # Nil
      BY <2>2, <2>1 DEF EndIgnored, LedgerInv
    <3> QED
      BY <2>2, <3>1 DEF EndIgnored
  <2>3. CASE EndReleased(t, k)
    BY <2>1, <2>3 DEF EndReleased, TypeInv, TypeOK
  <2> QED
    BY <1>7, <2>2, <2>3 DEF End
<1>8. \A t \in Tasks : BaselineAtStart(t) \in Nat
  BY BaselineType DEF TypeInv
<1>9. CASE \E t \in Tasks, k \in Tickets : Starts(t, k)
  BY <1>9, <1>1, <1>3, <1>4, <1>5, <1>8 DEF Starts
<1>10. CASE \E t \in Tasks, k \in Tickets : Unmanaged(t, k)
  BY <1>10, <1>3, <1>6
<1>11. CASE \E t \in Tasks, k \in Tickets : \E at : End(t, k, at)
  BY <1>11, <1>1, <1>3, <1>4, <1>7
<1>12. CASE Elsewhere
  BY <1>12, <1>3 DEF Elsewhere
<1> QED
  BY <1>9, <1>10, <1>11, <1>12, StepKinds

(* Hysteresis, refused limits and baselines that are resolved again never  *)
(* leave active work with a limit below what its policies ask for, unless  *)
(* the backend itself may refuse that limit.                               *)
THEOREM LimitAlwaysCoversWork == Spec => []LimitCoversWork
<1>1. Init => LimitCoversWork
  BY DEF Init, LimitCoversWork, HasActiveWork
<1> QED
  BY <1>1, TypeInvInit, TypeInvStep, LedgerInit, LedgerStep, CoversStep, PTL DEF Spec

-----------------------------------------------------------------------------
(* The limit comes back.                                                   *)

\* All callers are on a GPU or none is, and the backend accepts the rest limits.
RestAssumption ==
    /\ GpuTasks = {} \/ GpuTasks = Tasks
    /\ \A r \in RestLimits : ~MayRefuse(r)

RestInv ==
    /\ baseline \in RestLimits \union {Nil}
    /\ ~HasActiveWork(tickets) => currentLimit \in RestLimits \union {Nil}
    /\ GpuTasks = {} => wired = 0
    /\ GpuTasks = Tasks => wired = IF currentLimit = Nil THEN 0 ELSE currentLimit

LEMMA RestBaseline ==
    ASSUME TypeInv, LedgerInv, RestInv, NEW t \in Tasks
    PROVE  BaselineAtStart(t) \in RestLimits
<1>1. CASE baseline # Nil /\ HasActiveWork(tickets)
  BY <1>1 DEF BaselineAtStart, RestInv
<1>2. CASE ~(baseline # Nil /\ HasActiveWork(tickets))
  <2>1. BaselineAtStart(t) = ResolveBaseline(t) /\ ~HasActiveWork(tickets)
    BY <1>2, ActiveWorkHasTickets DEF BaselineAtStart, LedgerInv
  <2>2. CASE configuration.baselineOverride # Nil
    <3>1. ResolveBaseline(t) = Override(configuration)
      BY <2>2 DEF ResolveBaseline
    <3>2. configuration \in {d \in Configurations : d.baselineOverride # Nil}
      BY <2>2 DEF TypeInv, TypeOK
    <3> QED
      BY <2>1, <3>1, <3>2 DEF RestLimits
  <2>3. CASE configuration.baselineOverride = Nil /\ currentLimit # Nil
    BY <2>1, <2>3 DEF ResolveBaseline, RestInv
  <2>4. CASE configuration.baselineOverride = Nil /\ currentLimit = Nil
    BY <2>1, <2>4 DEF ResolveBaseline, RestLimits
  <2> QED
    BY <2>2, <2>3, <2>4
<1> QED
  BY <1>1, <1>2

\* A limit is applied in step, and a rest limit is applied when nothing is active.
LEMMA RestApply ==
    ASSUME RestAssumption, TypeInv, RestInv, NEW t \in Tasks, NEW S, NEW limit \in Nat,
           ApplyLimitIfNeeded(t, limit, S),
           ~HasActiveWork(S) => limit \in RestLimits
    PROVE  /\ ~HasActiveWork(S) => currentLimit' \in RestLimits
           /\ GpuTasks = {} => wired' = 0
           /\ GpuTasks = Tasks => wired' = IF currentLimit' = Nil THEN 0 ELSE currentLimit'
<1>1. limit # Nil
  BY ConstantsAssumption
<1>2. ~HasActiveWork(S) => ~ShrinkDeferred(limit, S) /\ ~MayRefuse(limit)
  BY DEF ShrinkDeferred, RestAssumption
<1> QED
  BY <1>1, <1>2 DEF ApplyLimitIfNeeded, RestInv, IsSupported

LEMMA RestApplyCurrent ==
    ASSUME RestAssumption, TypeInv, RestInv, NEW t \in Tasks, NEW S \in SUBSET Tickets,
           NEW P \in SUBSET Policies, NEW b \in RestLimits, b \in Nat,
           ApplyCurrentLimit(t, b, S, P)
    PROVE  /\ ~HasActiveWork(S) => currentLimit' \in RestLimits
           /\ GpuTasks = {} => wired' = 0
           /\ GpuTasks = Tasks => wired' = IF currentLimit' = Nil THEN 0 ELSE currentLimit'
<1> DEFINE limit == IF HasActiveWork(S) THEN DesiredLimit(b, S, P) ELSE b
<1>1. limit \in Nat /\ (~HasActiveWork(S) => limit \in RestLimits)
  BY DesiredLimitType
<1>2. ApplyLimitIfNeeded(t, limit, S)
  BY DEF ApplyCurrentLimit
<1> HIDE DEF limit
<1> QED
  BY <1>1, <1>2, RestApply

LEMMA RestStep ==
    RestAssumption /\ TypeInv /\ TypeInv' /\ LedgerInv /\ RestInv /\ [Next]_vars => RestInv'
<1> SUFFICES ASSUME RestAssumption, TypeInv, TypeInv', LedgerInv, RestInv, [Next]_vars
             PROVE  RestInv'
  OBVIOUS
<1>0. tickets' \in SUBSET Tickets /\ policies' \in SUBSET Policies /\ 0 \in RestLimits
  BY DEF TypeInv, TypeOK, RestLimits
<1>1. ASSUME NEW t \in Tasks, NEW k \in Tickets, Starts(t, k) PROVE RestInv'
  <2>1. BaselineAtStart(t) \in RestLimits /\ BaselineAtStart(t) \in Nat
    BY RestBaseline, BaselineType DEF TypeInv
  <2>2. CASE UNCHANGED <<tickets, currentLimit, wired>>
    BY <1>1, <2>1, <2>2 DEF Starts, RestInv
  <2>3. CASE ApplyCurrentLimit(t, BaselineAtStart(t), tickets', policies')
    BY <1>0, <1>1, <2>1, <2>3, RestApplyCurrent DEF Starts, RestInv
  <2> QED
    BY <1>1, <2>2, <2>3 DEF Starts, ReturnUnadmitted, Admit, Suspend
<1>2. ASSUME NEW t \in Tasks, NEW k \in Tickets, Unmanaged(t, k) PROVE RestInv'
  BY <1>0, <1>2 DEF Unmanaged, ReturnUnadmitted, RestInv
<1>3. ASSUME NEW t \in Tasks, NEW k \in Tickets, NEW at, End(t, k, at) PROVE RestInv'
  <2>1. CASE EndIgnored(t, k)
    BY <1>0, <2>1 DEF EndIgnored, RestInv
  <2>2. CASE EndReleased(t, k)
    <3>1. baseline \in RestLimits /\ baseline \in Nat
      BY <2>2 DEF EndReleased, LedgerInv, RestInv, TypeInv, TypeOK
    <3>2. CASE tickets' = {}
      <4>1. ApplyLimitIfNeeded(t, baseline, tickets') /\ baseline' = Nil
        BY <2>2, <3>1, <3>2, ConstantsAssumption DEF EndReleased
      <4> QED
        BY <3>1, <4>1, RestApply DEF RestInv
    <3>3. CASE tickets' # {}
      <4> baseline # Nil
        BY <3>1, ConstantsAssumption
      <4>1. ApplyCurrentLimit(t, baseline, tickets', policies') /\ baseline' = baseline
        BY <2>2, <3>3 DEF EndReleased
      <4> QED
        BY <1>0, <3>1, <4>1, RestApplyCurrent DEF RestInv
    <3> QED
      BY <3>2, <3>3
  <2> QED
    BY <1>3, <2>1, <2>2 DEF End
<1>4. CASE Elsewhere
  BY <1>4 DEF Elsewhere, RestInv
<1> QED
  BY <1>1, <1>2, <1>3, <1>4, StepKinds

(* When every caller is on the same kind of device and the backend accepts *)
(* the rest limits, the process is back at a rest limit whenever no active *)
(* ticket is registered: after any sequence of admissions, deferred        *)
(* shrinks, refusals of larger limits, reservations and reconfigurations.  *)
THEOREM LimitIsRestored == RestAssumption => (Spec => []LimitRestored)
<1> SUFFICES ASSUME RestAssumption PROVE Spec => []LimitRestored
  OBVIOUS
<1>1. Init => RestInv
  BY DEF Init, RestInv, HasActiveWork
<1>2. TypeInv /\ TypeInv' /\ LedgerInv /\ RestInv /\ [Next]_vars => RestInv'
  BY RestStep
<1>3. RestInv => LimitRestored
  BY DEF RestInv, LimitRestored, RestLimits, RestAssumption
<1> QED
  BY <1>1, <1>2, <1>3, TypeInvInit, TypeInvStep, LedgerInit, LedgerStep, PTL DEF Spec

-----------------------------------------------------------------------------
(* One baseline for a busy period.                                         *)

LEMMA BaselineStep ==
    ASSUME TypeInv, LedgerInv, [Next]_vars, HasActiveWork(tickets), HasActiveWork(tickets')
    PROVE  baseline' = baseline
<1>1. tickets # {} /\ tickets' # {} /\ baseline # Nil
  BY ActiveWorkHasTickets DEF LedgerInv
<1>2. ASSUME NEW t \in Tasks, NEW k \in Tickets, Starts(t, k) PROVE baseline' = baseline
  BY <1>1, <1>2 DEF Starts, BaselineAtStart
<1>3. ASSUME NEW t \in Tasks, NEW k \in Tickets, Unmanaged(t, k) PROVE baseline' = baseline
  BY <1>1, <1>3 DEF Unmanaged
<1>4. ASSUME NEW t \in Tasks, NEW k \in Tickets, NEW at, End(t, k, at) PROVE baseline' = baseline
  BY <1>1, <1>4 DEF End, EndIgnored, EndReleased
<1>5. CASE Elsewhere
  BY <1>5 DEF Elsewhere
<1> QED
  BY <1>2, <1>3, <1>4, <1>5, StepKinds

(* While active work goes on, no start(), end() or updateConfiguration()   *)
(* replaces the baseline that the limits are computed from, whatever the   *)
(* configuration would resolve it to.                                      *)
THEOREM OneBaselinePerBusyPeriod == Spec => BaselineStableWhileActive
<1>1. TypeInv /\ LedgerInv /\ [Next]_vars =>
        [HasActiveWork(tickets) /\ HasActiveWork(tickets') => baseline' = baseline]_vars
  BY BaselineStep
<1> QED
  BY <1>1, TypeInvInit, TypeInvStep, LedgerInit, LedgerStep, PTL
     DEF Spec, BaselineStableWhileActive
=============================================================================
