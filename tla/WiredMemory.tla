------------------------------ MODULE WiredMemory ------------------------------
(***************************************************************************)
(* WiredMemoryManager (Source/MLX/WiredMemory.swift): the actor that       *)
(* coordinates the process-wide wired memory limit among Swift tasks.      *)
(*                                                                         *)
(* The actor runs one call at a time between suspension points, so an      *)
(* action is one uninterrupted stretch of actor code.  A task suspended in *)
(* start() is woken by removing its waiter, and rechecks admission in a    *)
(* later action: everything may have changed in between.                   *)
(*                                                                         *)
(* A waiter's UUID is abstracted to the task that waits.  A cancellation   *)
(* job names a wait only when its task is cancelled, and a cancelled task  *)
(* never waits again, so the task identifies the wait.                     *)
(***************************************************************************)
EXTENDS Integers, FiniteSets, FiniteSetsExt

CONSTANTS
    Tasks,              \* Swift tasks that call the manager
    Tickets,            \* WiredMemoryTicket ids
    Policies,           \* policy groups (PolicyKey)
    PolicyOf,           \* the policy each ticket is bound to
    Reservations,       \* tickets of kind .reservation; the others are .active
    Scoped,             \* tickets used through withWiredLimit; the others
                        \* through explicit start() and end() calls
    GpuTasks,           \* tasks whose task-local default device is a GPU
    Configurations,     \* the configurations updateConfiguration may install
    Recommended,        \* GPU.maxRecommendedWorkingSetBytes(), or Nil
    Nil,
    CanAdmit(_, _),     \* policy.canAdmit of the group's tickets and a new one
    Demand(_, _),       \* what a policy adds to the baseline for a set of tickets
    MaxDemand,          \* Int.max, the bound of what a policy may add
    MayRefuse(_)        \* limits for which mlx_set_wired_limit may fail

ASSUME ConstantsAssumption ==
    /\ PolicyOf \in [Tickets -> Policies]
    /\ Reservations \subseteq Tickets
    /\ Scoped \subseteq Tickets
    /\ GpuTasks \subseteq Tasks
    /\ Configurations # {}
    /\ \A c \in Configurations :
          /\ c.shrinkThresholdPercent \in 0..100
          /\ c.shrinkCooldown \in BOOLEAN
          /\ c.policyOnlyWhenUnsupported \in BOOLEAN
          /\ c.baselineOverride \in Int \union {Nil}
          /\ c.useRecommended \in BOOLEAN
    /\ Recommended \in Nat \union {Nil}
    /\ MaxDemand \in Nat
    /\ Nil \notin Int
    /\ Nil \notin Tickets

(* The policies of the sources, the documentation and the tests admit by   *)
(* the sizes alone, and refuse a ticket all the more when more tickets of  *)
(* its group are registered.                                               *)
ASSUME AdmissionAssumption ==
    \A k \in Tickets, S, T \in SUBSET Tickets :
        S \subseteq T /\ CanAdmit(T, k) => CanAdmit(S, k)

ASSUME DemandAssumption ==
    \A p \in Policies, S \in SUBSET Tickets : Demand(p, S) \in 0..MaxDemand

VARIABLES
    tickets,       \* registered tickets
    policies,      \* policy groups with an entry in the policies dictionary
    baseline,      \* Int?, here a natural number or Nil
    currentLimit,  \* Int?, the last limit applied
    cooling,       \* lastLimitChange is less than shrinkCooldown ago
    configuration,
    waiters,       \* ticket each suspended task waits for, or Nil
    wired,         \* the process's wired limit, as the backend holds it
    pc,            \* where each task is
    ticket,        \* the ticket of the task's current call or scope
    cancelled,     \* tasks with Task.isCancelled
    cancelJobs     \* tasks with an unfinished Task { cancelWaiter(waiterID) }

managerVars == <<tickets, policies, baseline, currentLimit, cooling>>
taskVars == <<waiters, pc, ticket, cancelled, cancelJobs>>
vars == <<managerVars, configuration, wired, taskVars>>

Locations == {"idle", "suspended", "resumed", "running", "unadmitted"}

TypeOK ==
    /\ tickets \subseteq Tickets
    /\ policies \subseteq Policies
    /\ baseline \in Nat \union {Nil}
    /\ currentLimit \in Nat \union {Nil}
    /\ cooling \in BOOLEAN
    /\ configuration \in Configurations
    /\ waiters \in [Tasks -> Tickets \union {Nil}]
    /\ wired \in Nat
    /\ pc \in [Tasks -> Locations]
    /\ ticket \in [Tasks -> Tickets \union {Nil}]
    /\ cancelled \subseteq Tasks
    /\ cancelJobs \subseteq Tasks

Init ==
    /\ tickets = {}
    /\ policies = {}
    /\ baseline = Nil
    /\ currentLimit = Nil
    /\ cooling = FALSE
    /\ configuration \in Configurations
    /\ waiters = [t \in Tasks |-> Nil]
    /\ wired = 0
    /\ pc = [t \in Tasks |-> "idle"]
    /\ ticket = [t \in Tasks |-> Nil]
    /\ cancelled = {}
    /\ cancelJobs = {}

-----------------------------------------------------------------------------
(* The manager's helpers.                                                  *)

\* WiredMemoryBackend.isSupported reads the calling task's default device.
IsSupported(t) == t \in GpuTasks

\* supported, or policy-only mode
Manages(t) == IsSupported(t) \/ configuration.policyOnlyWhenUnsupported

Group(S, p) == {k \in S : PolicyOf[k] = p}

HasActiveWork(S) == ~(S \subseteq Reservations)

Override(c) == IF c.baselineOverride < 0 THEN 0 ELSE c.baselineOverride

ResolveBaseline(t) ==
    IF configuration.baselineOverride # Nil THEN Override(configuration)
    ELSE IF currentLimit # Nil THEN currentLimit
    ELSE IF ~IsSupported(t) /\ configuration.useRecommended /\ Recommended # Nil
         THEN Recommended
    ELSE 0

\* Faulty: the baseline is resolved afresh by every start().
BaselineAtStartFaulty(t) == ResolveBaseline(t)

\* resolveBaselineAndEmit(refresh: baseline == nil || !hasActiveWork())
BaselineAtStart(t) ==
    IF baseline = Nil \/ ~HasActiveWork(tickets) THEN ResolveBaseline(t) ELSE baseline

\* policy.limit(baseline:activeSizes:)
PolicyLimit(p, b, S) == b + Demand(p, S)

\* The largest of the policy groups' limits, the baseline without tickets.
DesiredLimit(b, S, P) ==
    LET limits == {PolicyLimit(p, b, Group(S, p)) :
                      p \in {q \in P : Group(S, q) # {}}}
    IN  IF limits = {} THEN b ELSE Max(limits)

\* Faulty: growth is held back like a shrink.
ShrinkDeferredGrowth(limit, S) ==
    /\ currentLimit # Nil
    /\ HasActiveWork(S)
    /\ configuration.shrinkCooldown /\ cooling

\* Faulty: the restoration of the baseline is held back too.
ShrinkDeferredAtRest(limit, S) ==
    /\ currentLimit # Nil
    /\ limit < currentLimit
    /\ configuration.shrinkCooldown /\ cooling

\* The hysteresis: a small or early shrink is dropped while work is active.
ShrinkDeferred(limit, S) ==
    /\ currentLimit # Nil
    /\ limit < currentLimit
    /\ HasActiveWork(S)
    /\ \/ 100 * (currentLimit - limit)
             < configuration.shrinkThresholdPercent * currentLimit
       \/ configuration.shrinkCooldown /\ cooling

\* applyLimitIfNeeded(limit) called by task t when S is registered.
ApplyLimitIfNeeded(t, limit, S) ==
    IF currentLimit = limit \/ ShrinkDeferred(limit, S)
    THEN UNCHANGED <<currentLimit, cooling, wired>>
    ELSE \/ /\ currentLimit' = limit
            /\ cooling' = TRUE
            /\ wired' = IF IsSupported(t) THEN limit ELSE wired
         \/ /\ IsSupported(t) /\ MayRefuse(limit)
            /\ UNCHANGED <<currentLimit, cooling, wired>>

\* Reservations alone keep the limit at the baseline.
ApplyCurrentLimit(t, b, S, P) ==
    ApplyLimitIfNeeded(t, IF HasActiveWork(S) THEN DesiredLimit(b, S, P) ELSE b, S)

-----------------------------------------------------------------------------
(* start(): the stretch up to the return or the suspension, and the        *)
(* stretch from a wake-up to the return or the next suspension.            *)

\* A scope uses a ticket no other scope is using; start() takes any other.
MayCallStart(t, k) ==
    /\ pc[t] = "idle"
    /\ k \in Scoped => \A u \in Tasks : pc[u] # "idle" => ticket[u] # k

\* start() returns to withWiredLimit, which runs the body, or to its caller.
ReturnFromStart(t, k, admitted) ==
    /\ pc' = [pc EXCEPT ![t] = IF k \notin Scoped THEN "idle"
                                 ELSE IF admitted THEN "running"
                                 ELSE "unadmitted"]
    /\ ticket' = [ticket EXCEPT ![t] = IF k \in Scoped THEN k ELSE Nil]
    /\ UNCHANGED <<waiters, cancelled, cancelJobs>>

Admit(t, k, b) ==
    /\ CanAdmit(Group(tickets, PolicyOf[k]), k)
    /\ tickets' = tickets \union {k}
    /\ policies' = policies \union {PolicyOf[k]}
    /\ ApplyCurrentLimit(t, b, tickets', policies')
    /\ ReturnFromStart(t, k, TRUE)

\* The ticket is registered already, or its task gives up.
ReturnUnadmitted(t, k) ==
    /\ UNCHANGED <<tickets, policies, currentLimit, cooling, wired>>
    /\ ReturnFromStart(t, k, FALSE)

\* Faulty: waiters are keyed by ticket, so that a second start() of the same
\* ticket displaces the first one's continuation.
SuspendFaulty(t, k) ==
    /\ ~CanAdmit(Group(tickets, PolicyOf[k]), k)
    /\ t \notin cancelled
    /\ waiters' = [u \in Tasks |-> IF u = t THEN k
                                  ELSE IF waiters[u] = k THEN Nil ELSE waiters[u]]
    /\ pc' = [pc EXCEPT ![t] = "suspended"]
    /\ ticket' = [ticket EXCEPT ![t] = k]
    /\ UNCHANGED <<tickets, policies, currentLimit, cooling, wired, cancelled, cancelJobs>>

Suspend(t, k) ==
    /\ ~CanAdmit(Group(tickets, PolicyOf[k]), k)
    /\ t \notin cancelled
    /\ waiters' = [waiters EXCEPT ![t] = k]
    /\ pc' = [pc EXCEPT ![t] = "suspended"]
    /\ ticket' = [ticket EXCEPT ![t] = k]
    /\ UNCHANGED <<tickets, policies, currentLimit, cooling, wired, cancelled, cancelJobs>>

\* Wired memory is not controlled on this device: the call only pins a baseline.
StartUnmanaged(t, k) ==
    /\ MayCallStart(t, k)
    /\ ~Manages(t)
    /\ baseline' = IF baseline = Nil THEN 0 ELSE baseline
    /\ ReturnUnadmitted(t, k)
    /\ UNCHANGED configuration

Start(t, k) ==
    /\ MayCallStart(t, k)
    /\ Manages(t)
    /\ LET b == BaselineAtStart(t)
       IN  /\ baseline' = b
           /\ \/ k \in tickets /\ ReturnUnadmitted(t, k)
              \/ k \notin tickets /\ Admit(t, k, b)
              \/ /\ k \notin tickets
                 /\ ~CanAdmit(Group(tickets, PolicyOf[k]), k)
                 /\ t \in cancelled
                 /\ ReturnUnadmitted(t, k)
              \/ k \notin tickets /\ Suspend(t, k)
    /\ UNCHANGED configuration

\* Faulty: the woken task takes the capacity for granted.
RecheckFaulty(t) ==
    /\ pc[t] = "resumed"
    /\ baseline' = BaselineAtStart(t)
    /\ IF t \in cancelled \/ ticket[t] \in tickets
       THEN ReturnUnadmitted(t, ticket[t])
       ELSE /\ tickets' = tickets \union {ticket[t]}
            /\ policies' = policies \union {PolicyOf[ticket[t]]}
            /\ ApplyCurrentLimit(t, BaselineAtStart(t), tickets', policies')
            /\ ReturnFromStart(t, ticket[t], TRUE)
    /\ UNCHANGED configuration

\* The woken task runs on the actor again.
Recheck(t) ==
    /\ pc[t] = "resumed"
    /\ LET b == BaselineAtStart(t)
           k == ticket[t]
           givesUp == t \in cancelled \/ k \in tickets
       IN  /\ baseline' = b
           /\ \/ givesUp /\ ReturnUnadmitted(t, k)
              \/ ~givesUp /\ Admit(t, k, b)
              \/ ~givesUp /\ Suspend(t, k)
    /\ UNCHANGED configuration

-----------------------------------------------------------------------------
(* end().                                                                  *)

\* Resume the continuations of the tasks of W; at is where the others are.
Resume(W, at) ==
    /\ waiters' = [u \in Tasks |-> IF u \in W THEN Nil ELSE waiters[u]]
    /\ pc' = [u \in Tasks |-> IF u \in W THEN "resumed" ELSE at[u]]

Waiting == {u \in Tasks : waiters[u] # Nil}
WaitingFor(k) == {u \in Tasks : waiters[u] = k}

\* Nothing to release: the device is not managed or k is not registered.
EndIgnored(t, k) ==
    /\ ~Manages(t) \/ k \notin tickets
    /\ baseline' = IF ~Manages(t) /\ baseline = Nil THEN 0 ELSE baseline
    /\ UNCHANGED <<tickets, policies, currentLimit, cooling, wired>>

\* k leaves; the last ticket to leave takes the baseline with it.
EndReleased(t, k) ==
    LET rest == tickets \ {k}
    IN  /\ Manages(t)
        /\ k \in tickets
        /\ tickets' = rest
        /\ policies' = IF Group(rest, PolicyOf[k]) = {}
                       THEN policies \ {PolicyOf[k]} ELSE policies
        /\ IF rest = {}
           THEN /\ ApplyLimitIfNeeded(t, IF baseline = Nil THEN 0 ELSE baseline, rest)
                /\ baseline' = Nil
           ELSE /\ IF baseline = Nil
                   THEN UNCHANGED <<currentLimit, cooling, wired>>
                   ELSE ApplyCurrentLimit(t, baseline, rest, policies')
                /\ UNCHANGED baseline

\* Faulty: the last ticket leaves without resuming anyone.
EndOfLastFaulty(t, k, at) ==
    \/ EndIgnored(t, k) /\ Resume(WaitingFor(k), at)
    \/ EndReleased(t, k) /\ Resume(IF tickets = {k} THEN {} ELSE Waiting, at)

\* end() called by t, which is then where "at" says.
End(t, k, at) ==
    \/ EndIgnored(t, k) /\ Resume(WaitingFor(k), at)
    \/ EndReleased(t, k) /\ Resume(Waiting, at)

\* An explicit end(), which may come twice or without a start().
EndTicket(t, k) ==
    /\ pc[t] = "idle"
    /\ k \notin Scoped
    /\ End(t, k, pc)
    /\ UNCHANGED <<configuration, ticket, cancelled, cancelJobs>>

\* The body of withWiredLimit returns or throws, and the scope calls end().
LeaveScope(t) ==
    /\ pc[t] \in {"running", "unadmitted"}
    /\ End(t, ticket[t], [pc EXCEPT ![t] = "idle"])
    /\ ticket' = [ticket EXCEPT ![t] = Nil]
    /\ UNCHANGED <<configuration, cancelled, cancelJobs>>

-----------------------------------------------------------------------------
(* Cancellation, configuration, time.                                      *)

\* Faulty: cancelling a task ends its scope's ticket at once.
CancelFaulty(t) ==
    /\ t \notin cancelled
    /\ cancelled' = cancelled \union {t}
    /\ cancelJobs' = IF pc[t] \in {"suspended", "resumed"}
                     THEN cancelJobs \union {t} ELSE cancelJobs
    /\ tickets' = tickets \ {ticket[t]}
    /\ UNCHANGED <<policies, baseline, currentLimit, cooling, configuration, wired,
                   waiters, pc, ticket>>

\* Task.cancel().  The onCancel handler of a task that has not left its
\* suspension starts a job that reaches the actor later.
Cancel(t) ==
    /\ t \notin cancelled
    /\ cancelled' = cancelled \union {t}
    /\ cancelJobs' = IF pc[t] \in {"suspended", "resumed"}
                     THEN cancelJobs \union {t} ELSE cancelJobs
    /\ UNCHANGED <<managerVars, configuration, wired, waiters, pc, ticket>>

\* Faulty: the waiter is dropped and its continuation never resumed.
CancelWaiterFaulty(t) ==
    /\ t \in cancelJobs
    /\ cancelJobs' = cancelJobs \ {t}
    /\ waiters' = [waiters EXCEPT ![t] = Nil]
    /\ UNCHANGED <<managerVars, configuration, wired, pc, ticket, cancelled>>

\* cancelWaiter(waiterID): too late when the waiter is gone.
CancelWaiter(t) ==
    /\ t \in cancelJobs
    /\ cancelJobs' = cancelJobs \ {t}
    /\ IF waiters[t] # Nil THEN Resume({t}, pc) ELSE UNCHANGED <<waiters, pc>>
    /\ UNCHANGED <<managerVars, configuration, wired, ticket, cancelled>>

\* A cancelled task finishes and a new one takes its place in the model.
Renew(t) ==
    /\ pc[t] = "idle"
    /\ t \in cancelled \ cancelJobs
    /\ cancelled' = cancelled \ {t}
    /\ UNCHANGED <<managerVars, configuration, wired, waiters, pc, ticket, cancelJobs>>

\* The precondition of updateConfiguration; elsewhere the process traps.
UpdateConfiguration(c) ==
    /\ ~HasActiveWork(tickets)
    /\ Waiting = {}
    /\ configuration' = c
    /\ UNCHANGED <<managerVars, wired, taskVars>>

CooldownElapses ==
    /\ cooling
    /\ cooling' = FALSE
    /\ UNCHANGED <<tickets, policies, baseline, currentLimit, configuration, wired, taskVars>>

Step(t) ==
    \/ \E k \in Tickets : StartUnmanaged(t, k) \/ Start(t, k) \/ EndTicket(t, k)
    \/ Recheck(t)
    \/ LeaveScope(t)
    \/ Cancel(t)
    \/ CancelWaiter(t)
    \/ Renew(t)

Next ==
    \/ \E t \in Tasks : Step(t)
    \/ \E c \in Configurations : UpdateConfiguration(c)
    \/ CooldownElapses

\* The Swift runtime runs every job enqueued on the actor, and bodies end.
Fairness ==
    \A t \in Tasks : WF_vars(Recheck(t)) /\ WF_vars(CancelWaiter(t)) /\ WF_vars(LeaveScope(t))

Spec == Init /\ [][Next]_vars
FairSpec == Spec /\ Fairness

-----------------------------------------------------------------------------
(* Correctness.                                                            *)

\* No lost wake-up: a task stays suspended in start() only with a waiter that an
\* end() or a cancellation will find, and only while its policy really refuses
\* its ticket.  start() registers the waiter; other tasks' calls remove it.
NoLostWakeup ==
    \A t \in Tasks : pc[t] = "suspended" =>
        /\ waiters[t] = ticket[t]
        /\ ~CanAdmit(Group(tickets, PolicyOf[ticket[t]]), ticket[t])

\* The body of an admitted scope runs with its ticket registered until it ends:
\* neither cancellation nor another task's end() takes the ticket away.
AdmittedStaysRegistered ==
    \A t \in Tasks : pc[t] = "running" => ticket[t] \in tickets

\* Growth is never deferred: while work is active the applied limit covers what
\* the registered tickets' policies ask for, unless the backend may refuse that
\* limit.
LimitCoversWork ==
    HasActiveWork(tickets) =>
        LET desired == DesiredLimit(baseline, tickets, Policies)
        IN  MayRefuse(desired) \/ currentLimit >= desired

\* The limits the manager may rest at: what resolveBaseline returns when the
\* manager has applied nothing yet.
RestLimits ==
    {0} \union ({Recommended} \ {Nil})
        \union {Override(c) : c \in {d \in Configurations : d.baselineOverride # Nil}}

\* "restores the baseline when work completes": whatever was admitted, deferred,
\* cancelled or refused before, the process and the manager are back at a rest
\* limit whenever no active ticket is registered.
LimitRestored ==
    ~HasActiveWork(tickets) =>
        /\ wired \in RestLimits
        /\ currentLimit \in RestLimits \union {Nil}

\* One busy period is computed from one baseline: no start(), end() or
\* updateConfiguration() replaces it while active work goes on.
BaselineStableWhileActive ==
    [][HasActiveWork(tickets) /\ HasActiveWork(tickets') => baseline' = baseline]_vars

\* A cancelled task does not stay suspended in start(), even if no ticket ends.
CancelledStartReturns ==
    \A t \in Tasks : t \in cancelled /\ pc[t] \in {"suspended", "resumed"} ~>
                         pc[t] \notin {"suspended", "resumed"}

\* Every suspended start() gets another look at the policy.  It need not be
\* admitted then: later calls may overtake it for ever.
SuspendedStartRunsAgain ==
    \A t \in Tasks : pc[t] = "suspended" ~> pc[t] = "resumed"

\* The manager implements the gate: the tickets are admitted one by one, by a
\* check that still holds when the ticket is registered.
Gate == INSTANCE AdmissionGate WITH held <- tickets
GateSpec == Gate!Spec
=============================================================================
