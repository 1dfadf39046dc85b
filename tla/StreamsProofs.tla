---------------------------- MODULE StreamsProofs ----------------------------
(***************************************************************************)
(* What TLAPS proves of Streams, for any tasks, devices, streams, promises *)
(* and depth of scopes.                                                    *)
(***************************************************************************)
EXTENDS Streams, SequenceTheorems, FiniteSetTheorems, TLAPS

\* What a task has in hand fits what it asked for.
GoalInv ==
    \A t \in Tasks :
        /\ stage[t] # "idle" => goal[t].device \in Devices /\ goal[t].to # "none"
        /\ goal[t].to = "enter" => goal[t].other \in Devices
        /\ goal[t].to \in {"enter", "device"} => stage[t] # "idle" /\ Len(scope[t]) < MaxScopes
        /\ stage[t] \in {"look", "install"} => goal[t].promise \in Promises
        /\ goal[t].promise \in Promises => promise[goal[t].promise].device = goal[t].device
        /\ taken[t] # NoStream <=> stage[t] = "install"
        /\ taken[t] # NoStream => deviceOf[taken[t]] = goal[t].device

\* What is referred to exists.
ExistsInv ==
    /\ \A p \in Promises : promise[p].device = NoDevice => promise[p].stream = NoStream
    /\ \A t \in Tasks : kept[t] # NoStream => deviceOf[kept[t]] # NoDevice

IInv == TypeOK /\ GoalInv /\ ExistsInv /\ OnItsDevice /\ OneOwner

\* PromiseKept, as an action.
Kept ==
    \A p \in Promises :
        promise[p].stream # NoStream /\ promise'[p].device # NoDevice
           => promise'[p].stream = promise[p].stream

PromiseState == [stream : RawStreams \union {NoStream}, device : Devices \union {NoDevice}]

\* The same promises, one of which may have got the stream s of device d.
Fulfils(promises, s, d) ==
    /\ promises \in [Promises -> PromiseState]
    /\ \A p \in Promises :
          /\ promises[p].device = promise[p].device
          /\ \/ promises[p].stream = promise[p].stream
             \/ promise[p].stream = NoStream /\ promises[p] = [stream |-> s, device |-> d]

\* The promises of a scope exist, in the given state of the promises.
Exists(promises, pair) ==
    /\ pair \in Pair
    /\ promises[pair.cpu].device # NoDevice /\ promises[pair.gpu].device # NoDevice

LEMMA CurrentExists ==
    ASSUME IInv, NEW t \in Tasks
    PROVE /\ Current(t) \in Pair
          /\ promise[Current(t).cpu].device \in Devices
          /\ promise[Current(t).gpu].device \in Devices
<1>1. CASE scope[t] = <<>>
  BY <1>1, StreamsAssumption DEF IInv, TypeOK, Current, Pair, Referenced
<1>2. CASE scope[t] # <<>>
  <2>1. scope[t] \in Seq(Pair)
    BY DEF IInv, TypeOK
  <2>2. Len(scope[t]) \in 1..Len(scope[t]) /\ Current(t) = scope[t][Len(scope[t])]
    BY <1>2, <2>1 DEF Current
  <2>3. Current(t) \in Pair
    BY <2>1, <2>2
  <2>4. Current(t).cpu \in Referenced /\ Current(t).gpu \in Referenced
    BY <2>2, <2>3 DEF Referenced, Pair
  <2> QED
    BY <2>3, <2>4 DEF IInv, TypeOK, Pair, Referenced
<1> QED
  BY <1>1, <1>2

LEMMA AskKeeps ==
    ASSUME IInv, NEW t \in Tasks, NEW first \in {"look", "take"}, NEW request \in Goal,
           Ask(t, first, request),
           request.device \in Devices, request.to # "none",
           request.to = "enter" => request.other \in Devices,
           request.to \in {"enter", "device"} => Len(scope[t]) < MaxScopes,
           first = "look" => request.promise \in Promises,
           request.promise \in Promises => promise[request.promise].device = request.device
    PROVE IInv' /\ Kept
<1>1. stage' \in [Tasks -> {"idle", "look", "take", "create", "install"}] /\ goal' \in [Tasks -> Goal]
  BY DEF IInv, TypeOK, Ask
<1>2. \A p \in Referenced' : promise'[p].device # NoDevice
  <2> SUFFICES ASSUME NEW p \in Promises, p \in Referenced' PROVE promise[p].device # NoDevice
    BY DEF Ask, Referenced
  <2>1. CASE p \in Referenced
    BY <2>1 DEF IInv, TypeOK
  <2>2. CASE p = request.promise
    BY <2>2, StreamsAssumption
  <2> QED
    BY <2>1, <2>2 DEF Referenced, Ask, IInv, TypeOK
<1>3. TypeOK'
  BY <1>1, <1>2 DEF IInv, TypeOK, Ask
<1>4. GoalInv'
  BY DEF IInv, TypeOK, GoalInv, Ask
<1>5. ExistsInv' /\ OnItsDevice' /\ Kept
  BY DEF IInv, ExistsInv, OnItsDevice, Ask, Idle, Kept
<1>6. OneOwner'
  <2>1. Held' = Held /\ InHand' = InHand /\ \A d \in Devices : Idle(d)' = Idle(d)
    BY DEF Ask, Held, InHand, Idle
  <2> QED
    BY <2>1 DEF IInv, OneOwner, Ask
<1> QED
  BY <1>3, <1>4, <1>5, <1>6 DEF IInv

LEMMA UseCurrentKeeps ==
    ASSUME IInv, NEW t \in Tasks, UseCurrent(t)
    PROVE IInv' /\ Kept
<1>1. PICK p \in {Current(t).cpu, Current(t).gpu} :
        Ask(t, "look", [to |-> "keep", promise |-> p, device |-> promise[p].device,
                        other |-> NoDevice])
  BY DEF UseCurrent
<1>2. p \in Promises /\ promise[p].device \in Devices
  BY CurrentExists DEF Pair
<1>3. PICK request : request = [to |-> "keep", promise |-> p, device |-> promise[p].device,
                                other |-> NoDevice]
  OBVIOUS
<1>4. request \in Goal
  BY <1>2, <1>3 DEF Goal
<1> QED
  BY <1>1, <1>2, <1>3, <1>4, AskKeeps

LEMMA NewStreamKeeps ==
    ASSUME IInv, NEW t \in Tasks, NEW d \in Devices, NewStream(t, d)
    PROVE IInv' /\ Kept
<1>1. PICK request : request = [to |-> "keep", promise |-> NoPromise, device |-> d,
                                other |-> NoDevice]
  OBVIOUS
<1>2. request \in Goal
  BY <1>1 DEF Goal
<1> QED
  BY <1>1, <1>2, AskKeeps, StreamsAssumption DEF NewStream

LEMMA WithNewDefaultStreamKeeps ==
    ASSUME IInv, NEW t \in Tasks, NEW d \in Devices, WithNewDefaultStream(t, d)
    PROVE IInv' /\ Kept
<1>1. PICK other : other = IF d = Cpu THEN Current(t).gpu ELSE Current(t).cpu
  OBVIOUS
<1>2. promise[other].device \in Devices
  BY <1>1, CurrentExists
<1>3. PICK request : request = [to |-> "enter", promise |-> NoPromise, device |-> d,
                                other |-> promise[other].device]
  OBVIOUS
<1>4. request \in Goal
  BY <1>2, <1>3 DEF Goal
<1>5. Ask(t, "take", request) /\ Len(scope[t]) < MaxScopes
  BY <1>1, <1>3 DEF WithNewDefaultStream
<1> QED
  BY <1>2, <1>3, <1>4, <1>5, AskKeeps, StreamsAssumption

LEMMA WithDefaultDeviceKeeps ==
    ASSUME IInv, NEW t \in Tasks, NEW d \in Devices, WithDefaultDevice(t, d)
    PROVE IInv' /\ Kept
<1>1. PICK p : p = PromiseFor(Current(t), d)
  OBVIOUS
<1>2. p \in Promises /\ promise[p].device \in Devices
  BY <1>1, CurrentExists DEF PromiseFor, Pair
<1>3. CASE promise[p].device = d
  <2>1. PICK request : request = [to |-> "device", promise |-> p, device |-> d, other |-> NoDevice]
    OBVIOUS
  <2>2. request \in Goal
    BY <1>2, <2>1 DEF Goal
  <2>3. Ask(t, "look", request) /\ Len(scope[t]) < MaxScopes
    BY <1>1, <1>3, <2>1 DEF WithDefaultDevice
  <2> QED
    BY <1>2, <1>3, <2>1, <2>2, <2>3, AskKeeps
<1>4. CASE promise[p].device # d
  <2>1. PICK request : request = [to |-> "device", promise |-> NoPromise, device |-> d,
                                  other |-> NoDevice]
    OBVIOUS
  <2>2. request \in Goal
    BY <2>1 DEF Goal
  <2>3. Ask(t, "take", request) /\ Len(scope[t]) < MaxScopes
    BY <1>1, <1>4, <2>1 DEF WithDefaultDevice
  <2> QED
    BY <2>1, <2>2, <2>3, AskKeeps, StreamsAssumption
<1> QED
  BY <1>3, <1>4

-----------------------------------------------------------------------------
\* What Deliver does to promises, scopes and what tasks keep.

LEMMA ScopesExist ==
    ASSUME IInv, NEW t \in Tasks, NEW i \in 1..Len(scope[t])
    PROVE Exists(promise, scope[t][i])
<1>1. scope[t][i] \in Pair
  BY DEF IInv, TypeOK
<1>2. {scope[t][i].cpu, scope[t][i].gpu} \subseteq Referenced
  BY <1>1 DEF Referenced, Pair
<1> QED
  BY <1>1, <1>2 DEF Exists, IInv, TypeOK

LEMMA PushScope ==
    ASSUME IInv, NEW t \in Tasks, NEW pair, NEW promises,
           scope' = [scope EXCEPT ![t] = Append(@, pair)],
           Len(scope[t]) < MaxScopes,
           Exists(promises, pair),
           \A p \in Promises : promise[p].device # NoDevice => promises[p].device # NoDevice
    PROVE /\ scope' \in [Tasks -> Seq(Pair)]
          /\ \A u \in Tasks : Len(scope'[u]) <= MaxScopes
          /\ \A u \in Tasks : \A i \in 1..Len(scope'[u]) : Exists(promises, scope'[u][i])
<1>1. scope \in [Tasks -> Seq(Pair)] /\ scope[t] \in Seq(Pair) /\ Len(scope[t]) \in Nat
  BY DEF IInv, TypeOK
<1>2. /\ Append(scope[t], pair) \in Seq(Pair)
      /\ Len(Append(scope[t], pair)) = Len(scope[t]) + 1
      /\ \A i \in 1..Len(scope[t]) : Append(scope[t], pair)[i] = scope[t][i]
      /\ Append(scope[t], pair)[Len(scope[t]) + 1] = pair
  BY <1>1, AppendProperties DEF Exists
<1>3. scope' \in [Tasks -> Seq(Pair)]
  BY <1>1, <1>2
<1>4. ASSUME NEW u \in Tasks PROVE Len(scope'[u]) <= MaxScopes
  BY <1>1, <1>2, StreamsAssumption DEF IInv, TypeOK
<1>5. ASSUME NEW u \in Tasks, NEW i \in 1..Len(scope'[u])
      PROVE Exists(promises, scope'[u][i])
  <2>1. CASE i \in 1..Len(scope[u])
    <3>1. scope'[u][i] = scope[u][i]
      BY <1>1, <1>2, <2>1
    <3>2. Exists(promise, scope[u][i])
      BY <2>1, ScopesExist
    <3> QED
      BY <3>1, <3>2 DEF Exists, Pair
  <2>2. CASE i \notin 1..Len(scope[u])
    <3>1. u = t /\ i = Len(scope[t]) + 1
      BY <1>1, <1>2, <2>2
    <3>2. scope'[u][i] = pair
      BY <1>1, <1>2, <3>1
    <3> QED
      BY <3>2
  <2> QED
    BY <2>1, <2>2
<1> QED
  BY <1>3, <1>4, <1>5

LEMMA DeliverFacts ==
    ASSUME IInv, NEW t \in Tasks, stage[t] # "idle", NEW s \in RawStreams, NEW promises,
           Fulfils(promises, s, goal[t].device), Deliver(t, s, promises)
    PROVE /\ promise' \in [Promises -> PromiseState]
          /\ scope' \in [Tasks -> Seq(Pair)]
          /\ \A u \in Tasks : Len(scope'[u]) <= MaxScopes
          /\ \A u \in Tasks : \A i \in 1..Len(scope'[u]) : Exists(promise', scope'[u][i])
          /\ kept' \in [Tasks -> RawStreams \union {NoStream}]
          /\ \A u \in Tasks : kept'[u] \in {kept[u], s}
          /\ \A u \in Tasks \ {t} : scope'[u] = scope[u]
          /\ \A p \in Promises :
                /\ promise[p].device # NoDevice => promise'[p].device = promise[p].device
                /\ promise[p].stream # NoStream => promise'[p].stream = promise[p].stream
                /\ promise'[p].stream # NoStream =>
                     \/ promise'[p] = promise[p]
                     \/ promise'[p] = [stream |-> s, device |-> goal[t].device]
<1>d. PICK d \in Devices : d = goal[t].device
  BY DEF IInv, GoalInv
<1>1. /\ promises \in [Promises -> PromiseState]
      /\ \A p \in Promises : promises[p].device = promise[p].device
      /\ \A p \in Promises : promise[p].stream # NoStream => promises[p].stream = promise[p].stream
      /\ \A p \in Promises : promise[p] \in PromiseState
  BY DEF Fulfils, IInv, TypeOK, PromiseState
<1>2. \A p \in Promises : promise[p].device = NoDevice =>
         promise[p].stream = NoStream /\ promises[p].stream = NoStream
  BY <1>1, <1>d, StreamsAssumption DEF Fulfils, IInv, ExistsInv
<1>3. \A p \in Promises : promises[p].stream # NoStream =>
         promises[p] = promise[p] \/ promises[p] = [stream |-> s, device |-> d]
  BY <1>1, <1>d DEF Fulfils, PromiseState
<1>c. Current(t) \in Pair /\ promise[Current(t).cpu].device \in Devices
        /\ promise[Current(t).gpu].device \in Devices
  BY CurrentExists
<1>k. kept \in [Tasks -> RawStreams \union {NoStream}]
  BY DEF IInv, TypeOK
<1>4. CASE goal[t].to = "keep"
  <2>1. promise' = promises /\ scope' = scope /\ kept' = [kept EXCEPT ![t] = s]
    BY <1>4 DEF Deliver
  <2>2. ASSUME NEW u \in Tasks, NEW i \in 1..Len(scope'[u]) PROVE Exists(promise', scope'[u][i])
    <3>1. Exists(promise, scope[u][i])
      BY <2>1, ScopesExist
    <3> QED
      BY <2>1, <3>1, <1>1 DEF Exists, Pair
  <2>3. scope' \in [Tasks -> Seq(Pair)] /\ \A u \in Tasks : Len(scope'[u]) <= MaxScopes
    BY <2>1 DEF IInv, TypeOK
  <2>4. kept' \in [Tasks -> RawStreams \union {NoStream}] /\ \A u \in Tasks : kept'[u] \in {kept[u], s}
    BY <2>1, <1>k
  <2> QED
    BY <1>1, <1>3, <1>d, <2>1, <2>2, <2>3, <2>4
<1>5. CASE goal[t].to = "enter"
  <2>1. PICK p \in Unused(promises), q \in Unused(promises) :
          /\ q # p
          /\ promise' = [promises EXCEPT
                           ![p] = [stream |-> s, device |-> d],
                           ![q] = [stream |-> NoStream, device |-> goal[t].other]]
          /\ scope' = [scope EXCEPT ![t] = Append(@, NewPair(t, p, q, d))]
          /\ kept' = kept
    BY <1>5, <1>d DEF Deliver
  <2>2. p \in Promises /\ q \in Promises /\ p # q
        /\ promise[p].device = NoDevice /\ promise[q].device = NoDevice
    BY <2>1, <1>1 DEF Unused
  <2>3. goal[t].other \in Devices /\ Len(scope[t]) < MaxScopes
    BY <1>5 DEF IInv, GoalInv
  <2>4. /\ promise' \in [Promises -> PromiseState]
        /\ promise'[p] = [stream |-> s, device |-> d]
        /\ promise'[q] = [stream |-> NoStream, device |-> goal[t].other]
        /\ \A e \in Promises \ {p, q} : promise'[e] = promises[e]
    BY <2>1, <2>2, <2>3, <1>1 DEF PromiseState
  <2>5. Exists(promise', NewPair(t, p, q, d))
    BY <2>2, <2>3, <2>4, StreamsAssumption DEF Exists, NewPair, Pair
  <2>6. \A e \in Promises :
          /\ promise[e].device # NoDevice => promise'[e].device = promise[e].device
          /\ promise[e].stream # NoStream => promise'[e].stream = promise[e].stream
          /\ promise'[e].stream # NoStream =>
               promise'[e] = promise[e] \/ promise'[e] = [stream |-> s, device |-> d]
    BY <2>2, <2>4, <1>1, <1>2, <1>3
  <2>7. /\ scope' \in [Tasks -> Seq(Pair)]
        /\ \A u \in Tasks : Len(scope'[u]) <= MaxScopes
        /\ \A u \in Tasks : \A i \in 1..Len(scope'[u]) : Exists(promise', scope'[u][i])
    <3>1. PICK next, pair : next = promise' /\ pair = NewPair(t, p, q, d)
      OBVIOUS
    <3>2. scope' = [scope EXCEPT ![t] = Append(@, pair)] /\ Exists(next, pair)
      BY <2>1, <2>5, <3>1
    <3>3. \A e \in Promises : promise[e].device # NoDevice => next[e].device # NoDevice
      BY <2>6, <3>1
    <3>4. /\ scope' \in [Tasks -> Seq(Pair)]
          /\ \A u \in Tasks : Len(scope'[u]) <= MaxScopes
          /\ \A u \in Tasks : \A i \in 1..Len(scope'[u]) : Exists(next, scope'[u][i])
      BY <2>3, <3>2, <3>3, PushScope
    <3> QED
      BY <3>1, <3>4
  <2>8. \A u \in Tasks \ {t} : scope'[u] = scope[u]
    BY <2>1 DEF IInv, TypeOK
  <2> QED
    BY <1>d, <1>k, <2>1, <2>4, <2>6, <2>7, <2>8
<1>6. CASE goal[t].to = "device"
  <2>o. PICK other : other = IF d = Cpu THEN Current(t).gpu ELSE Current(t).cpu
    OBVIOUS
  <2>1. PICK p \in Unused(promises) :
          /\ promise' = [promises EXCEPT ![p] = [stream |-> s, device |-> d]]
          /\ scope' = [scope EXCEPT ![t] = Append(@, NewPair(t, p, other, d))]
          /\ kept' = kept
    BY <1>6, <1>d, <2>o DEF Deliver
  <2>2. p \in Promises /\ promise[p].device = NoDevice
    BY <2>1, <1>1 DEF Unused
  <2>3. Len(scope[t]) < MaxScopes
    BY <1>6 DEF IInv, GoalInv
  <2>4. /\ promise' \in [Promises -> PromiseState]
        /\ promise'[p] = [stream |-> s, device |-> d]
        /\ \A e \in Promises \ {p} : promise'[e] = promises[e]
    BY <2>1, <2>2, <1>1 DEF PromiseState
  <2>6. \A e \in Promises :
          /\ promise[e].device # NoDevice => promise'[e].device = promise[e].device
          /\ promise[e].stream # NoStream => promise'[e].stream = promise[e].stream
          /\ promise'[e].stream # NoStream =>
               promise'[e] = promise[e] \/ promise'[e] = [stream |-> s, device |-> d]
    BY <2>2, <2>4, <1>1, <1>2, <1>3
  <2>5. Exists(promise', NewPair(t, p, other, d))
    <3>1. other \in Promises /\ promise[other].device \in Devices
      BY <2>o, <1>c DEF Pair
    <3>2. promise'[other].device # NoDevice
      BY <3>1, <2>6, StreamsAssumption
    <3> QED
      BY <3>1, <3>2, <2>2, <2>4, StreamsAssumption DEF Exists, NewPair, Pair
  <2>7. /\ scope' \in [Tasks -> Seq(Pair)]
        /\ \A u \in Tasks : Len(scope'[u]) <= MaxScopes
        /\ \A u \in Tasks : \A i \in 1..Len(scope'[u]) : Exists(promise', scope'[u][i])
    <3>1. PICK next, pair : next = promise' /\ pair = NewPair(t, p, other, d)
      OBVIOUS
    <3>2. scope' = [scope EXCEPT ![t] = Append(@, pair)] /\ Exists(next, pair)
      BY <2>1, <2>5, <3>1
    <3>3. \A e \in Promises : promise[e].device # NoDevice => next[e].device # NoDevice
      BY <2>6, <3>1
    <3>4. /\ scope' \in [Tasks -> Seq(Pair)]
          /\ \A u \in Tasks : Len(scope'[u]) <= MaxScopes
          /\ \A u \in Tasks : \A i \in 1..Len(scope'[u]) : Exists(next, scope'[u][i])
      BY <2>3, <3>2, <3>3, PushScope
    <3> QED
      BY <3>1, <3>4
  <2>8. \A u \in Tasks \ {t} : scope'[u] = scope[u]
    BY <2>1 DEF IInv, TypeOK
  <2> QED
    BY <1>d, <1>k, <2>1, <2>4, <2>6, <2>7, <2>8
<1> QED
  BY <1>4, <1>5, <1>6 DEF Deliver

\* A delivered stream is one that no other task has in hand and the pool has
\* not, or no longer.
LEMMA IdleType ==
    ASSUME TypeOK, NEW d \in Devices
    PROVE  /\ Idle(d) \subseteq RawStreams
           /\ NoStream \notin Idle(d)
<1>1. idle[d] \in Seq(RawStreams)
  BY DEF TypeOK
<1>2. \A i \in 1..Len(idle[d]) : idle[d][i] \in RawStreams
  BY <1>1
<1>3. Idle(d) \subseteq RawStreams
  BY <1>2 DEF Idle
<1> QED
  BY <1>3, StreamsAssumption

LEMMA DeliverKeeps ==
    ASSUME IInv, NEW t \in Tasks, stage[t] # "idle", NEW s \in RawStreams, NEW promises,
           Fulfils(promises, s, goal[t].device), Deliver(t, s, promises),
           deviceOf' \in [RawStreams -> Devices \union {NoDevice}],
           idle' \in [Devices -> Seq(RawStreams)],
           peak' \in [Devices -> Nat],
           \A r \in RawStreams : deviceOf[r] # NoDevice => deviceOf'[r] = deviceOf[r],
           deviceOf'[s] = goal[t].device,
           \A d \in Devices : Idle(d)' \subseteq Idle(d) \ {s},
           \A d \in Devices : \A i, j \in 1..Len(idle'[d]) : idle'[d][i] = idle'[d][j] => i = j,
           \A u \in Tasks \ {t} : taken[u] # s
    PROVE IInv' /\ Kept
<1>f. /\ promise' \in [Promises -> PromiseState]
      /\ scope' \in [Tasks -> Seq(Pair)]
      /\ \A u \in Tasks : Len(scope'[u]) <= MaxScopes
      /\ \A u \in Tasks : \A i \in 1..Len(scope'[u]) : Exists(promise', scope'[u][i])
      /\ kept' \in [Tasks -> RawStreams \union {NoStream}]
      /\ \A u \in Tasks : kept'[u] \in {kept[u], s}
      /\ \A u \in Tasks \ {t} : scope'[u] = scope[u]
      /\ \A p \in Promises :
            /\ promise[p].device # NoDevice => promise'[p].device = promise[p].device
            /\ promise[p].stream # NoStream => promise'[p].stream = promise[p].stream
            /\ promise'[p].stream # NoStream =>
                 \/ promise'[p] = promise[p]
                 \/ promise'[p] = [stream |-> s, device |-> goal[t].device]
  BY DeliverFacts
<1>d. goal[t].device \in Devices /\ goal[t].device # NoDevice
  BY StreamsAssumption DEF IInv, GoalInv
<1>t. /\ stage \in [Tasks -> {"idle", "look", "take", "create", "install"}]
      /\ goal \in [Tasks -> Goal]
      /\ taken \in [Tasks -> RawStreams \union {NoStream}]
      /\ kept \in [Tasks -> RawStreams \union {NoStream}]
      /\ promise \in [Promises -> PromiseState]
      /\ deviceOf \in [RawStreams -> Devices \union {NoDevice}]
      /\ idle \in [Devices -> Seq(RawStreams)]
  BY DEF IInv, TypeOK, PromiseState
<1>n. NoGoal \in Goal
  BY DEF NoGoal, Goal
<1>e. /\ stage' = [stage EXCEPT ![t] = "idle"]
      /\ goal' = [goal EXCEPT ![t] = NoGoal]
      /\ taken' = [taken EXCEPT ![t] = NoStream]
  BY DEF Deliver
<1>i. \A d \in Devices : Idle(d) \subseteq RawStreams /\ NoStream \notin Idle(d)
  BY IdleType DEF IInv
<1>1. \A p \in Referenced' : promise'[p].device # NoDevice
  <2> SUFFICES ASSUME NEW p \in Promises, p \in Referenced' PROVE promise'[p].device # NoDevice
    BY DEF Referenced
  <2>1. CASE p \in Referenced
    BY <2>1, <1>f DEF IInv, TypeOK
  <2>2. CASE \E u \in Tasks : goal'[u].promise = p
    <3>1. PICK u \in Tasks : goal'[u].promise = p
      BY <2>2
    <3>2. goal[u].promise = p
      BY <3>1, <1>e, <1>t, StreamsAssumption DEF NoGoal
    <3> QED
      BY <3>2, <2>1 DEF Referenced
  <2>3. CASE \E u \in Tasks : \E i \in 1..Len(scope'[u]) : p \in {scope'[u][i].cpu, scope'[u][i].gpu}
    BY <2>3, <1>f DEF Exists
  <2> QED
    BY <2>1, <2>2, <2>3 DEF Referenced
<1>2. TypeOK'
  BY <1>1, <1>f, <1>t, <1>n, <1>e DEF TypeOK, PromiseState
<1>3. GoalInv'
  <2> SUFFICES ASSUME NEW u \in Tasks
               PROVE /\ stage'[u] # "idle" => goal'[u].device \in Devices /\ goal'[u].to # "none"
                     /\ goal'[u].to = "enter" => goal'[u].other \in Devices
                     /\ goal'[u].to \in {"enter", "device"} =>
                          stage'[u] # "idle" /\ Len(scope'[u]) < MaxScopes
                     /\ stage'[u] \in {"look", "install"} => goal'[u].promise \in Promises
                     /\ goal'[u].promise \in Promises =>
                          promise'[goal'[u].promise].device = goal'[u].device
                     /\ taken'[u] # NoStream <=> stage'[u] = "install"
                     /\ taken'[u] # NoStream => deviceOf'[taken'[u]] = goal'[u].device
    BY DEF GoalInv
  <2>1. CASE u = t
    BY <2>1, <1>t, <1>e, StreamsAssumption DEF NoGoal
  <2>2. CASE u # t
    <3>1. /\ stage'[u] = stage[u] /\ goal'[u] = goal[u] /\ taken'[u] = taken[u]
          /\ scope'[u] = scope[u]
      BY <2>2, <1>t, <1>e, <1>f
    <3>2. goal[u].promise \in Promises => promise[goal[u].promise].device # NoDevice
      BY DEF Referenced, IInv, TypeOK
    <3>3. goal[u].promise \in Promises => promise'[goal[u].promise].device = goal[u].device
      BY <3>2, <1>f DEF IInv, GoalInv
    <3>4. ASSUME taken[u] # NoStream PROVE deviceOf'[taken[u]] = goal[u].device
      <4>1. deviceOf[taken[u]] = goal[u].device /\ stage[u] = "install"
        BY <3>4 DEF IInv, GoalInv
      <4>2. goal[u].device \in Devices
        BY <4>1 DEF IInv, GoalInv
      <4>3. taken[u] \in RawStreams
        BY <3>4, <1>t
      <4> QED
        BY <4>1, <4>2, <4>3, StreamsAssumption
    <3> QED
      BY <3>1, <3>3, <3>4 DEF IInv, GoalInv
  <2> QED
    BY <2>1, <2>2
<1>4. ExistsInv'
  <2>1. ASSUME NEW p \in Promises, promise'[p].device = NoDevice PROVE promise'[p].stream = NoStream
    <3>1. SUFFICES ASSUME promise'[p].stream # NoStream PROVE FALSE
      OBVIOUS
    <3>2. promise'[p] = promise[p] \/ promise'[p] = [stream |-> s, device |-> goal[t].device]
      BY <3>1, <1>f
    <3>3. promise'[p] = promise[p]
      BY <2>1, <3>2, <1>d
    <3> QED
      BY <2>1, <3>1, <3>3 DEF IInv, ExistsInv
  <2>2. ASSUME NEW u \in Tasks, kept'[u] # NoStream PROVE deviceOf'[kept'[u]] # NoDevice
    <3>1. CASE kept'[u] = s
      BY <3>1, <1>d
    <3>2. CASE kept'[u] = kept[u]
      BY <2>2, <3>2, <1>t DEF IInv, ExistsInv
    <3> QED
      BY <3>1, <3>2, <1>f
  <2> QED
    BY <2>1, <2>2 DEF ExistsInv
<1>5. OnItsDevice'
  <2>1. ASSUME NEW d \in Devices, NEW r \in Idle(d)' PROVE deviceOf'[r] = d
    <3>1. r \in Idle(d) /\ r \in RawStreams
      BY <1>i
    <3>2. deviceOf[r] = d
      BY <3>1 DEF IInv, OnItsDevice
    <3> QED
      BY <3>1, <3>2, StreamsAssumption
  <2>2. ASSUME NEW p \in Promises, promise'[p].stream # NoStream
        PROVE deviceOf'[promise'[p].stream] = promise'[p].device
    <3>1. CASE promise'[p] = promise[p]
      <4>1. promise[p].stream \in RawStreams /\ deviceOf[promise[p].stream] = promise[p].device
        BY <2>2, <3>1, <1>t DEF IInv, OnItsDevice, PromiseState
      <4>2. promise[p].device # NoDevice
        BY <2>2, <3>1 DEF IInv, ExistsInv
      <4> QED
        BY <3>1, <4>1, <4>2
    <3>2. CASE promise'[p] = [stream |-> s, device |-> goal[t].device]
      BY <3>2
    <3> QED
      BY <3>1, <3>2, <2>2, <1>f
  <2> QED
    BY <2>1, <2>2 DEF OnItsDevice
<1>6. OneOwner'
  <2>1. Held' \subseteq Held \union {s, NoStream}
    <3>1. ASSUME NEW p \in Promises PROVE promise'[p].stream \in Held \union {s, NoStream}
      BY <1>f DEF Held
    <3>2. ASSUME NEW u \in Tasks PROVE kept'[u] \in Held \union {s, NoStream}
      BY <1>f DEF Held
    <3> QED
      BY <3>1, <3>2 DEF Held
  <2>2. InHand' \subseteq InHand \union {NoStream}
    BY <1>e, <1>t DEF InHand
  <2>3. ASSUME NEW d \in Devices PROVE Idle(d)' \intersect (Held' \union InHand') = {}
    <3>1. Idle(d)' \subseteq Idle(d) \ {s} /\ NoStream \notin Idle(d)
      BY <1>i
    <3> QED
      BY <3>1, <2>1, <2>2 DEF IInv, OneOwner
  <2>4. ASSUME NEW u \in Tasks, taken'[u] # NoStream
        PROVE taken'[u] \notin Held' /\ \A v \in Tasks : taken'[v] = taken'[u] => v = u
    <3>1. u # t /\ taken'[u] = taken[u] /\ taken[u] # s
      BY <2>4, <1>e, <1>t
    <3>2. taken[u] \notin Held /\ \A v \in Tasks : taken[v] = taken[u] => v = u
      BY <3>1, <2>4 DEF IInv, OneOwner
    <3>3. ASSUME NEW v \in Tasks, taken'[v] = taken'[u] PROVE v = u
      BY <3>1, <3>2, <3>3, <2>4, <1>e, <1>t
    <3> QED
      BY <3>1, <3>2, <3>3, <2>1, <2>4
  <2> QED
    BY <2>3, <2>4 DEF OneOwner
<1>7. Kept
  BY <1>f DEF Kept
<1> QED
  BY <1>2, <1>3, <1>4, <1>5, <1>6, <1>7 DEF IInv

-----------------------------------------------------------------------------
\* The actions.

\* A step that only moves the task on.
LEMMA StageKeeps ==
    ASSUME IInv, NEW t \in Tasks, NEW next \in {"take", "create"},
           stage[t] \in {"look", "take"}, stage' = [stage EXCEPT ![t] = next],
           peak' \in [Devices -> Nat],
           UNCHANGED <<deviceOf, idle, promise, scope, goal, taken, kept>>
    PROVE IInv' /\ Kept
<1>1. TypeOK'
  <2>1. Referenced' = Referenced
    BY DEF Referenced
  <2> QED
    BY <2>1 DEF IInv, TypeOK
<1>2. GoalInv'
  BY DEF IInv, TypeOK, GoalInv
<1>3. Held' = Held /\ InHand' = InHand /\ \A d \in Devices : Idle(d)' = Idle(d)
  BY DEF Held, InHand, Idle
<1>4. OneOwner'
  BY <1>3 DEF IInv, OneOwner
<1>5. ExistsInv' /\ OnItsDevice' /\ Kept
  BY <1>3 DEF IInv, ExistsInv, OnItsDevice, Kept
<1> QED
  BY <1>1, <1>2, <1>4, <1>5 DEF IInv

LEMMA SameFulfils ==
    ASSUME IInv, NEW s, NEW d
    PROVE Fulfils(promise, s, d)
BY DEF IInv, TypeOK, Fulfils, PromiseState

LEMMA LookKeeps ==
    ASSUME IInv, NEW t \in Tasks, Look(t)
    PROVE IInv' /\ Kept
<1>1. stage[t] = "look" /\ goal[t].promise \in Promises
  BY DEF Look, IInv, GoalInv
<1>2. PICK s : s = promise[goal[t].promise].stream
  OBVIOUS
<1>3. CASE s # NoStream
  <2>1. Deliver(t, s, promise) /\ UNCHANGED <<deviceOf, idle, peak>>
    BY <1>2, <1>3 DEF Look
  <2>2. s \in RawStreams /\ s \in Held
    BY <1>1, <1>2, <1>3 DEF IInv, TypeOK, Held
  <2>3. deviceOf[s] = goal[t].device
    BY <1>1, <1>2, <1>3 DEF IInv, OnItsDevice, GoalInv
  <2>4. \A d \in Devices : Idle(d)' = Idle(d) /\ s \notin Idle(d)
    <3>1. \A d \in Devices : Idle(d)' = Idle(d)
      BY <2>1 DEF Idle
    <3> QED
      BY <3>1, <2>2 DEF IInv, OneOwner
  <2>5. \A u \in Tasks \ {t} : taken[u] # s
    BY <1>3, <2>2 DEF IInv, OneOwner
  <2>6. Fulfils(promise, s, goal[t].device)
    BY SameFulfils
  <2>7. /\ deviceOf' \in [RawStreams -> Devices \union {NoDevice}]
        /\ idle' \in [Devices -> Seq(RawStreams)] /\ peak' \in [Devices -> Nat]
        /\ \A d \in Devices : \A i, j \in 1..Len(idle'[d]) : idle'[d][i] = idle'[d][j] => i = j
    BY <2>1 DEF IInv, TypeOK, OneOwner
  <2>8. /\ stage[t] # "idle"
        /\ \A r \in RawStreams : deviceOf[r] # NoDevice => deviceOf'[r] = deviceOf[r]
        /\ deviceOf'[s] = goal[t].device
        /\ \A d \in Devices : Idle(d)' \subseteq Idle(d) \ {s}
    BY <1>1, <2>1, <2>3, <2>4
  <2> QED
    BY <2>1, <2>2, <2>5, <2>6, <2>7, <2>8, DeliverKeeps
<1>4. CASE s = NoStream
  <2>1. stage' = [stage EXCEPT ![t] = "take"]
        /\ UNCHANGED <<deviceOf, idle, promise, scope, goal, taken, kept, peak>>
    BY <1>2, <1>4 DEF Look
  <2>2. peak' \in [Devices -> Nat]
    BY <2>1 DEF IInv, TypeOK
  <2> QED
    BY <1>1, <2>1, <2>2, StageKeeps
<1> QED
  BY <1>3, <1>4

\* A stream nobody has is delivered, or taken in hand for a promise.
LEMMA ObtainKeeps ==
    ASSUME IInv, NEW t \in Tasks, stage[t] \in {"take", "create"}, NEW r \in RawStreams,
           Obtain(t, r),
           deviceOf' \in [RawStreams -> Devices \union {NoDevice}],
           idle' \in [Devices -> Seq(RawStreams)],
           peak' \in [Devices -> Nat],
           \A e \in RawStreams : deviceOf[e] # NoDevice => deviceOf'[e] = deviceOf[e],
           deviceOf'[r] = goal[t].device,
           \A d \in Devices : Idle(d)' \subseteq Idle(d) \ {r},
           \A d \in Devices : \A i, j \in 1..Len(idle'[d]) : idle'[d][i] = idle'[d][j] => i = j,
           r \notin Held \union InHand
    PROVE IInv' /\ Kept
<1>1. \A u \in Tasks : taken[u] # r
  BY DEF InHand
<1>2. CASE goal[t].promise = NoPromise
  <2>1. Deliver(t, r, promise)
    BY <1>2 DEF Obtain
  <2>2. Fulfils(promise, r, goal[t].device)
    BY SameFulfils
  <2>3. stage[t] # "idle"
    OBVIOUS
  <2> QED
    BY <1>1, <2>1, <2>2, <2>3, DeliverKeeps
<1>3. CASE goal[t].promise # NoPromise
  <2>1. /\ stage' = [stage EXCEPT ![t] = "install"]
        /\ taken' = [taken EXCEPT ![t] = r]
        /\ UNCHANGED <<promise, scope, goal, kept>>
    BY <1>3 DEF Obtain
  <2>2. goal[t].promise \in Promises
    BY <1>3 DEF IInv, TypeOK, Goal
  <2>3. goal[t].device \in Devices /\ goal[t].device # NoDevice /\ r # NoStream
    BY StreamsAssumption DEF IInv, GoalInv
  <2>t. /\ stage \in [Tasks -> {"idle", "look", "take", "create", "install"}]
        /\ taken \in [Tasks -> RawStreams \union {NoStream}]
        /\ kept \in [Tasks -> RawStreams \union {NoStream}]
        /\ promise \in [Promises -> PromiseState]
        /\ \A d \in Devices : Idle(d) \subseteq RawStreams
    BY IdleType DEF IInv, TypeOK, PromiseState
  <2>4. TypeOK'
    <3>1. Referenced' = Referenced
      BY <2>1 DEF Referenced
    <3> QED
      BY <2>1, <2>t, <3>1 DEF IInv, TypeOK
  <2>5. GoalInv'
    <3> SUFFICES ASSUME NEW u \in Tasks
                 PROVE /\ stage'[u] # "idle" => goal[u].device \in Devices /\ goal[u].to # "none"
                       /\ goal[u].to = "enter" => goal[u].other \in Devices
                       /\ goal[u].to \in {"enter", "device"} =>
                            stage'[u] # "idle" /\ Len(scope[u]) < MaxScopes
                       /\ stage'[u] \in {"look", "install"} => goal[u].promise \in Promises
                       /\ goal[u].promise \in Promises =>
                            promise[goal[u].promise].device = goal[u].device
                       /\ taken'[u] # NoStream <=> stage'[u] = "install"
                       /\ taken'[u] # NoStream => deviceOf'[taken'[u]] = goal[u].device
      BY <2>1 DEF GoalInv
    <3>1. CASE u = t
      BY <3>1, <2>1, <2>2, <2>3, <2>t DEF IInv, GoalInv
    <3>2. CASE u # t
      <4>1. stage'[u] = stage[u] /\ taken'[u] = taken[u]
        BY <3>2, <2>1, <2>t
      <4>2. ASSUME taken[u] # NoStream PROVE deviceOf'[taken[u]] = goal[u].device
        <5>1. deviceOf[taken[u]] = goal[u].device /\ goal[u].device \in Devices
          BY <4>2 DEF IInv, GoalInv
        <5>2. taken[u] \in RawStreams
          BY <4>2, <2>t
        <5> QED
          BY <5>1, <5>2, StreamsAssumption
      <4> QED
        BY <4>1, <4>2 DEF IInv, GoalInv
    <3> QED
      BY <3>1, <3>2
  <2>6. ExistsInv'
    BY <2>1, <2>t DEF IInv, ExistsInv
  <2>7. OnItsDevice'
    <3>1. ASSUME NEW d \in Devices, NEW e \in Idle(d)' PROVE deviceOf'[e] = d
      <4>1. e \in Idle(d) /\ e \in RawStreams
        BY <2>t
      <4>2. deviceOf[e] = d
        BY <4>1 DEF IInv, OnItsDevice
      <4> QED
        BY <4>1, <4>2, StreamsAssumption
    <3>2. ASSUME NEW p \in Promises, promise[p].stream # NoStream
          PROVE deviceOf'[promise[p].stream] = promise[p].device
      <4>1. promise[p].stream \in RawStreams /\ deviceOf[promise[p].stream] = promise[p].device
        BY <3>2, <2>t DEF IInv, OnItsDevice, PromiseState
      <4>2. promise[p].device # NoDevice
        BY <3>2 DEF IInv, ExistsInv
      <4> QED
        BY <4>1, <4>2
    <3> QED
      BY <3>1, <3>2, <2>1 DEF OnItsDevice
  <2>8. OneOwner'
    <3>1. Held' = Held
      BY <2>1 DEF Held
    <3>2. InHand' \subseteq InHand \union {r}
      BY <2>1, <2>t DEF InHand
    <3>3. \A d \in Devices : Idle(d)' \intersect (Held' \union InHand') = {}
      BY <3>1, <3>2 DEF IInv, OneOwner
    <3>4. ASSUME NEW u \in Tasks, taken'[u] # NoStream
          PROVE taken'[u] \notin Held' /\ \A v \in Tasks : taken'[v] = taken'[u] => v = u
      <4>1. CASE u = t
        BY <4>1, <2>1, <2>t, <3>1, <1>1
      <4>2. CASE u # t
        <5>1. taken'[u] = taken[u] /\ taken[u] # r
          BY <4>2, <2>1, <2>t, <1>1
        <5>2. ASSUME NEW v \in Tasks, taken'[v] = taken'[u] PROVE v = u
          BY <5>1, <5>2, <3>4, <2>1, <2>t DEF IInv, OneOwner
        <5> QED
          BY <5>1, <5>2, <3>1, <3>4 DEF IInv, OneOwner
      <4> QED
        BY <4>1, <4>2
    <3> QED
      BY <3>3, <3>4 DEF OneOwner
  <2>9. Kept
    BY <2>1 DEF Kept
  <2> QED
    BY <2>4, <2>5, <2>6, <2>7, <2>8, <2>9 DEF IInv
<1> QED
  BY <1>2, <1>3

LEMMA RaisedType ==
    ASSUME IInv, NEW d \in Devices
    PROVE Raised(d) \in [Devices -> Nat]
<1>1. Busy(d) \subseteq RawStreams /\ Creating(d) \subseteq Tasks
  BY DEF Busy, Created, Creating
<1>2. Cardinality(Busy(d)) \in Nat /\ Cardinality(Creating(d)) \in Nat
  BY <1>1, StreamsAssumption, FS_Subset, FS_CardinalityType
<1> QED
  BY <1>2 DEF Raised, Demand, IInv, TypeOK

LEMMA PoppedType ==
    ASSUME NEW S, NEW q \in Seq(S), q # <<>>
    PROVE /\ Popped(q) \in Seq(S)
          /\ Len(q) \in Nat \ {0}
          /\ Len(Popped(q)) = Len(q) - 1
          /\ \A i \in 1..Len(q) - 1 : Popped(q)[i] = q[i]
          /\ q[Len(q)] \in S
<1>1. Len(q) \in Nat \ {0}
  BY EmptySeq
<1>2. PICK n \in Nat : n = Len(q) - 1
  BY <1>1
<1>3. /\ SubSeq(q, 1, n) \in Seq(S)
      /\ Len(SubSeq(q, 1, n)) = IF 1 <= n THEN n - 1 + 1 ELSE 0
      /\ \A i \in 1..n - 1 + 1 : SubSeq(q, 1, n)[i] = q[1 + i - 1]
  <2>1. \A i \in 1..n : q[i] \in S
    BY <1>1, <1>2
  <2> QED
    BY <2>1, SubSeqProperties
<1>4. Popped(q) = SubSeq(q, 1, n)
  BY <1>2 DEF Popped
<1>5. \A i \in 1..n : SubSeq(q, 1, n)[i] = q[i]
  BY <1>2, <1>3
<1> QED
  BY <1>1, <1>2, <1>3, <1>4, <1>5

LEMMA TakeKeeps ==
    ASSUME IInv, NEW t \in Tasks, Take(t)
    PROVE IInv' /\ Kept
<1>1. PICK d \in Devices : d = goal[t].device
  BY DEF Take, IInv, GoalInv
<1>2. stage[t] = "take" /\ deviceOf' = deviceOf /\ peak' \in [Devices -> Nat]
  BY <1>1, RaisedType DEF Take
<1>3. CASE idle[d] # <<>>
  <2>1. PICK r : r = idle[d][Len(idle[d])]
    OBVIOUS
  <2>2. idle' = [idle EXCEPT ![d] = Popped(@)] /\ Obtain(t, r)
    BY <1>1, <1>3, <2>1 DEF Take, PoolOf, Reuses
  <2>3. /\ idle \in [Devices -> Seq(RawStreams)] /\ idle[d] \in Seq(RawStreams)
        /\ deviceOf \in [RawStreams -> Devices \union {NoDevice}]
    BY DEF IInv, TypeOK
  <2>4. /\ Popped(idle[d]) \in Seq(RawStreams)
        /\ Len(idle[d]) \in Nat \ {0}
        /\ Len(Popped(idle[d])) = Len(idle[d]) - 1
        /\ \A i \in 1..Len(idle[d]) - 1 : Popped(idle[d])[i] = idle[d][i]
        /\ r \in RawStreams
    BY <1>3, <2>1, <2>3, PoppedType
  <2>5. idle' \in [Devices -> Seq(RawStreams)] /\ idle'[d] = Popped(idle[d])
        /\ \A e \in Devices \ {d} : idle'[e] = idle[e]
    BY <2>2, <2>3, <2>4
  <2>6. r \in Idle(d)
    BY <2>1, <2>4 DEF Idle
  <2>7. deviceOf[r] = d /\ r \notin Held \union InHand
    BY <2>6 DEF IInv, OnItsDevice, OneOwner
  <2>8. ASSUME NEW e \in Devices, NEW i \in 1..Len(idle'[e])
        PROVE i \in 1..Len(idle[e]) /\ idle'[e][i] = idle[e][i] /\ (e = d => i # Len(idle[d]))
    BY <2>4, <2>5
  <2>9. ASSUME NEW e \in Devices, NEW i \in 1..Len(idle'[e]), NEW j \in 1..Len(idle'[e]),
               idle'[e][i] = idle'[e][j]
        PROVE i = j
    <3>1. i \in 1..Len(idle[e]) /\ j \in 1..Len(idle[e]) /\ idle[e][i] = idle[e][j]
      BY <2>8, <2>9
    <3> QED
      BY <3>1 DEF IInv, OneOwner
  <2>10. ASSUME NEW e \in Devices, NEW i \in 1..Len(idle'[e])
         PROVE idle'[e][i] \in Idle(e) /\ idle'[e][i] # r
    <3>1. i \in 1..Len(idle[e]) /\ idle'[e][i] = idle[e][i] /\ (e = d => i # Len(idle[d]))
      BY <2>8
    <3>2. idle'[e][i] \in Idle(e)
      BY <3>1 DEF Idle
    <3>3. CASE e = d
      <4>1. Len(idle[d]) \in 1..Len(idle[d]) /\ i # Len(idle[d]) /\ i \in 1..Len(idle[d])
        BY <3>1, <3>3, <2>4
      <4>2. idle[d][i] # idle[d][Len(idle[d])]
        BY <4>1 DEF IInv, OneOwner
      <4> QED
        BY <3>1, <3>2, <3>3, <4>2, <2>1
    <3>4. CASE e # d
      BY <3>2, <3>4, <2>7 DEF IInv, OnItsDevice
    <3> QED
      BY <3>2, <3>3, <3>4
  <2>11. \A e \in Devices : Idle(e)' \subseteq Idle(e) \ {r}
    <3> SUFFICES ASSUME NEW e \in Devices, NEW x \in Idle(e)' PROVE x \in Idle(e) \ {r}
      OBVIOUS
    <3>1. PICK i \in 1..Len(idle'[e]) : x = idle'[e][i]
      BY DEF Idle
    <3> QED
      BY <3>1, <2>10
  <2> QED
    BY <1>1, <1>2, <2>2, <2>3, <2>4, <2>5, <2>7, <2>9, <2>11, ObtainKeeps
<1>4. CASE idle[d] = <<>>
  <2>1. stage' = [stage EXCEPT ![t] = "create"]
        /\ UNCHANGED <<deviceOf, idle, promise, scope, goal, taken, kept>>
    BY <1>1, <1>4 DEF Take, PoolOf, Reuses
  <2> QED
    BY <1>2, <2>1, StageKeeps
<1> QED
  BY <1>3, <1>4

LEMMA CreateKeeps ==
    ASSUME IInv, NEW t \in Tasks, Create(t)
    PROVE IInv' /\ Kept
<1>1. stage[t] = "create" /\ goal[t].device \in Devices /\ goal[t].device # NoDevice
      /\ UNCHANGED <<idle, peak>>
  BY StreamsAssumption DEF Create, IInv, GoalInv
<1>2. PICK r \in RawStreams \ Created :
        deviceOf' = [deviceOf EXCEPT ![r] = goal[t].device] /\ Obtain(t, r)
  BY DEF Create
<1>3. deviceOf[r] = NoDevice /\ r # NoStream
  BY <1>2, StreamsAssumption DEF Created
<1>4. /\ deviceOf' \in [RawStreams -> Devices \union {NoDevice}]
      /\ \A e \in RawStreams : deviceOf[e] # NoDevice => deviceOf'[e] = deviceOf[e]
      /\ deviceOf'[r] = goal[t].device
  BY <1>1, <1>2, <1>3 DEF IInv, TypeOK
<1>5. \A d \in Devices : Idle(d)' = Idle(d)
  BY <1>1 DEF Idle
<1>6. \A d \in Devices : r \notin Idle(d)
  BY <1>3, StreamsAssumption DEF IInv, OnItsDevice
<1>7. r \notin Held \union InHand
  <2>1. ASSUME NEW p \in Promises PROVE promise[p].stream # r
    BY <1>3 DEF IInv, OnItsDevice, ExistsInv
  <2>2. ASSUME NEW u \in Tasks PROVE kept[u] # r
    BY <1>3 DEF IInv, ExistsInv
  <2>3. ASSUME NEW u \in Tasks PROVE taken[u] # r
    BY <1>3, StreamsAssumption DEF IInv, GoalInv
  <2> QED
    BY <2>1, <2>2, <2>3 DEF Held, InHand
<1>8. /\ idle' \in [Devices -> Seq(RawStreams)] /\ peak' \in [Devices -> Nat]
      /\ \A d \in Devices : \A i, j \in 1..Len(idle'[d]) : idle'[d][i] = idle'[d][j] => i = j
  BY <1>1 DEF IInv, TypeOK, OneOwner
<1>9. stage[t] \in {"take", "create"} /\ \A d \in Devices : Idle(d)' \subseteq Idle(d) \ {r}
  BY <1>1, <1>5, <1>6
<1> QED
  BY <1>2, <1>4, <1>7, <1>8, <1>9, ObtainKeeps

\* Of a promise's first stream and a second one offered, the first stays.
LEMMA InstallKeeps ==
    ASSUME IInv, NEW t \in Tasks, Install(t)
    PROVE IInv' /\ Kept
<1>1. PICK p : p = goal[t].promise
  OBVIOUS
<1>2. PICK s : s = Installed(p, taken[t])
  OBVIOUS
<1>3. PICK promises : promises = [promise EXCEPT ![p].stream = s]
  OBVIOUS
<1>4. /\ stage[t] = "install" /\ p \in Promises
      /\ taken[t] # NoStream /\ taken[t] \in RawStreams
      /\ deviceOf[taken[t]] = goal[t].device /\ promise[p].device = goal[t].device
  BY <1>1 DEF Install, IInv, TypeOK, GoalInv
<1>5. Deliver(t, s, promises) /\ UNCHANGED <<deviceOf, idle, peak>>
  BY <1>1, <1>2, <1>3 DEF Install
<1>6. /\ s \in RawStreams /\ deviceOf[s] = goal[t].device
      /\ s \in Held \union InHand
      /\ \A u \in Tasks \ {t} : taken[u] # s
      /\ promise[p].stream # NoStream => s = promise[p].stream
  <2>1. CASE promise[p].stream # NoStream
    BY <1>2, <1>4, <2>1 DEF Installed, IInv, TypeOK, OnItsDevice, OneOwner, Held
  <2>2. CASE promise[p].stream = NoStream
    BY <1>2, <1>4, <2>2 DEF Installed, IInv, OneOwner, InHand
  <2> QED
    BY <2>1, <2>2
<1>7. Fulfils(promises, s, goal[t].device)
  <2>1. promise \in [Promises -> PromiseState]
    BY DEF IInv, TypeOK, PromiseState
  <2>2. promises \in [Promises -> PromiseState]
    BY <1>3, <1>6, <2>1 DEF PromiseState
  <2>3. ASSUME NEW q \in Promises
        PROVE /\ promises[q].device = promise[q].device
              /\ \/ promises[q].stream = promise[q].stream
                 \/ promise[q].stream = NoStream /\ promises[q] = [stream |-> s, device |-> goal[t].device]
    BY <1>3, <1>4, <1>6, <2>1 DEF PromiseState
  <2> QED
    BY <2>2, <2>3 DEF Fulfils
<1>8. \A d \in Devices : Idle(d)' \subseteq Idle(d) \ {s}
  <2>1. \A d \in Devices : Idle(d)' = Idle(d)
    BY <1>5 DEF Idle
  <2> QED
    BY <2>1, <1>6 DEF IInv, OneOwner
<1>9. /\ deviceOf' \in [RawStreams -> Devices \union {NoDevice}]
      /\ idle' \in [Devices -> Seq(RawStreams)] /\ peak' \in [Devices -> Nat]
      /\ \A d \in Devices : \A i, j \in 1..Len(idle'[d]) : idle'[d][i] = idle'[d][j] => i = j
  BY <1>5 DEF IInv, TypeOK, OneOwner
<1>10. /\ stage[t] # "idle" /\ deviceOf'[s] = goal[t].device
       /\ \A r \in RawStreams : deviceOf[r] # NoDevice => deviceOf'[r] = deviceOf[r]
  BY <1>4, <1>5, <1>6
<1> QED
  BY <1>5, <1>6, <1>7, <1>8, <1>9, <1>10, DeliverKeeps

\* An idle task may go to scopes that a task has, and drop what it kept.
LEMMA ScopeKeeps ==
    ASSUME IInv, NEW t \in Tasks, stage[t] = "idle",
           scope' \in [Tasks -> Seq(Pair)],
           \A u \in Tasks : Len(scope'[u]) <= MaxScopes,
           \A u \in Tasks \ {t} : scope'[u] = scope[u],
           \A i \in 1..Len(scope'[t]) : \E u \in Tasks : \E j \in 1..Len(scope[u]) :
              scope'[t][i] = scope[u][j],
           kept' \in [Tasks -> RawStreams \union {NoStream}],
           \A u \in Tasks : kept'[u] \in {kept[u], NoStream},
           UNCHANGED <<deviceOf, idle, promise, stage, goal, taken, peak>>
    PROVE IInv' /\ Kept
<1>1. Referenced' \subseteq Referenced
  <2> SUFFICES ASSUME NEW p \in Promises, NEW u \in Tasks, NEW i \in 1..Len(scope'[u]),
                      p \in {scope'[u][i].cpu, scope'[u][i].gpu}
               PROVE p \in Referenced
    BY DEF Referenced
  <2>1. PICK v \in Tasks : \E j \in 1..Len(scope[v]) : scope'[u][i] = scope[v][j]
    <3>1. CASE u = t
      BY <3>1
    <3>2. CASE u # t
      BY <3>2
    <3> QED
      BY <3>1, <3>2
  <2> QED
    BY <2>1 DEF Referenced
<1>2. TypeOK'
  BY <1>1 DEF IInv, TypeOK
<1>3. GoalInv'
  BY DEF IInv, GoalInv
<1>4. ExistsInv' /\ OnItsDevice' /\ Kept
  BY DEF IInv, ExistsInv, OnItsDevice, Idle, Kept
<1>5. OneOwner'
  <2>1. /\ Held' \subseteq Held \union {NoStream} /\ InHand' = InHand
        /\ \A d \in Devices : Idle(d)' = Idle(d) /\ NoStream \notin Idle(d)
    BY StreamsAssumption DEF Held, InHand, Idle, IInv, TypeOK
  <2> QED
    BY <2>1 DEF IInv, OneOwner
<1> QED
  BY <1>2, <1>3, <1>4, <1>5 DEF IInv

LEMMA LeaveScopeKeeps ==
    ASSUME IInv, NEW t \in Tasks, LeaveScope(t)
    PROVE IInv' /\ Kept
<1>1. /\ scope \in [Tasks -> Seq(Pair)] /\ scope[t] \in Seq(Pair) /\ scope[t] # <<>>
      /\ kept \in [Tasks -> RawStreams \union {NoStream}]
  BY DEF LeaveScope, IInv, TypeOK
<1>2. /\ Popped(scope[t]) \in Seq(Pair)
      /\ Len(scope[t]) \in Nat \ {0}
      /\ Len(Popped(scope[t])) = Len(scope[t]) - 1
      /\ \A i \in 1..Len(scope[t]) - 1 : Popped(scope[t])[i] = scope[t][i]
  BY <1>1, PoppedType
<1>3. /\ scope' \in [Tasks -> Seq(Pair)] /\ scope'[t] = Popped(scope[t])
      /\ \A u \in Tasks \ {t} : scope'[u] = scope[u]
  BY <1>1, <1>2 DEF LeaveScope
<1>4. \A u \in Tasks : Len(scope'[u]) <= MaxScopes
  <2>1. \A u \in Tasks : Len(scope[u]) <= MaxScopes
    BY DEF IInv, TypeOK
  <2>2. Len(scope'[t]) <= MaxScopes
    BY <1>2, <1>3, <2>1, StreamsAssumption
  <2> QED
    BY <1>3, <2>1, <2>2
<1>5. \A i \in 1..Len(scope'[t]) : \E u \in Tasks : \E j \in 1..Len(scope[u]) :
         scope'[t][i] = scope[u][j]
  <2> SUFFICES ASSUME NEW i \in 1..Len(scope'[t])
               PROVE i \in 1..Len(scope[t]) /\ scope'[t][i] = scope[t][i]
    OBVIOUS
  <2> QED
    BY <1>2, <1>3
<1>6. /\ stage[t] = "idle"
      /\ UNCHANGED <<deviceOf, idle, promise, stage, goal, taken, kept, peak>>
  BY DEF LeaveScope
<1>7. kept' \in [Tasks -> RawStreams \union {NoStream}] /\ \A u \in Tasks : kept'[u] \in {kept[u], NoStream}
  BY <1>1, <1>6
<1> QED
  BY <1>3, <1>4, <1>5, <1>6, <1>7, ScopeKeeps

LEMMA ForgetKeeps ==
    ASSUME IInv, NEW t \in Tasks, Forget(t)
    PROVE IInv' /\ Kept
<1>1. /\ stage[t] = "idle" /\ kept' = [kept EXCEPT ![t] = NoStream]
      /\ UNCHANGED <<deviceOf, idle, promise, scope, stage, goal, taken, peak>>
  BY DEF Forget
<1>2. kept' \in [Tasks -> RawStreams \union {NoStream}] /\ \A u \in Tasks : kept'[u] \in {kept[u], NoStream}
  BY <1>1 DEF IInv, TypeOK
<1>3. scope' \in [Tasks -> Seq(Pair)] /\ \A u \in Tasks : Len(scope'[u]) <= MaxScopes
  BY <1>1 DEF IInv, TypeOK
<1> QED
  BY <1>1, <1>2, <1>3, ScopeKeeps

LEMMA StartChildKeeps ==
    ASSUME IInv, NEW t \in Tasks, NEW child \in Tasks, StartChild(t, child)
    PROVE IInv' /\ Kept
<1>1. /\ stage[child] = "idle" /\ scope' = [scope EXCEPT ![child] = scope[t]]
      /\ UNCHANGED <<deviceOf, idle, promise, stage, goal, taken, kept, peak>>
  BY DEF StartChild
<1>2. scope \in [Tasks -> Seq(Pair)] /\ kept \in [Tasks -> RawStreams \union {NoStream}]
      /\ \A u \in Tasks : Len(scope[u]) <= MaxScopes
  BY DEF IInv, TypeOK
<1>3. /\ scope' \in [Tasks -> Seq(Pair)] /\ scope'[child] = scope[t]
      /\ \A u \in Tasks \ {child} : scope'[u] = scope[u]
  BY <1>1, <1>2
<1>4. \A u \in Tasks : Len(scope'[u]) <= MaxScopes
  BY <1>2, <1>3
<1> QED
  BY <1>1, <1>2, <1>3, <1>4, ScopeKeeps

LEMMA CollectKeeps ==
    ASSUME IInv, NEW p \in Promises, Collect(p)
    PROVE IInv' /\ Kept
<1>1. /\ p \notin Referenced
      /\ promise' = [promise EXCEPT ![p] = [stream |-> NoStream, device |-> NoDevice]]
      /\ UNCHANGED <<deviceOf, idle, scope, stage, goal, taken, kept, peak>>
  BY DEF Collect
<1>2. promise \in [Promises -> PromiseState] /\ promise' \in [Promises -> PromiseState]
      /\ promise'[p] = [stream |-> NoStream, device |-> NoDevice]
      /\ \A q \in Promises \ {p} : promise'[q] = promise[q]
  BY <1>1 DEF IInv, TypeOK, PromiseState
<1>3. Referenced' = Referenced
  BY <1>1 DEF Referenced
<1>4. TypeOK'
  <2>1. \A q \in Referenced' : promise'[q].device # NoDevice
    <3> SUFFICES ASSUME NEW q \in Referenced PROVE promise'[q].device # NoDevice
      BY <1>3
    <3>1. q \in Promises /\ q # p
      BY <1>1 DEF Referenced
    <3> QED
      BY <3>1, <1>2 DEF IInv, TypeOK
  <2> QED
    BY <1>1, <1>2, <2>1 DEF IInv, TypeOK, PromiseState
<1>5. GoalInv'
  <2>1. \A t \in Tasks : goal[t].promise # p
    BY <1>1 DEF Referenced
  <2> QED
    BY <1>1, <1>2, <2>1 DEF IInv, GoalInv
<1>6. ExistsInv' /\ Kept
  BY <1>1, <1>2 DEF IInv, ExistsInv, Kept
<1>7. \A d \in Devices : Idle(d)' = Idle(d)
  BY <1>1 DEF Idle
<1>8. OnItsDevice'
  BY <1>1, <1>2, <1>7 DEF IInv, OnItsDevice
<1>9. OneOwner'
  <2>1. Held' \subseteq Held \union {NoStream} /\ InHand' = InHand
    BY <1>1, <1>2 DEF Held, InHand
  <2>2. \A d \in Devices : NoStream \notin Idle(d)
    BY StreamsAssumption DEF Idle, IInv, TypeOK
  <2> QED
    BY <1>1, <1>7, <2>1, <2>2 DEF IInv, OneOwner
<1> QED
  BY <1>4, <1>5, <1>6, <1>8, <1>9 DEF IInv

LEMMA ReleaseKeeps ==
    ASSUME IInv, NEW r \in RawStreams, Release(r)
    PROVE IInv' /\ Kept
<1>1. /\ deviceOf[r] # NoDevice /\ r \notin Held \union InHand
      /\ \A d \in Devices : r \notin Idle(d)
      /\ idle' = [idle EXCEPT ![deviceOf[r]] = Append(@, r)]
      /\ UNCHANGED <<deviceOf, promise, scope, stage, goal, taken, kept, peak>>
  BY DEF Release, Created
<1>2. PICK d \in Devices : d = deviceOf[r]
  BY <1>1 DEF IInv, TypeOK
<1>3. idle \in [Devices -> Seq(RawStreams)] /\ idle[d] \in Seq(RawStreams) /\ Len(idle[d]) \in Nat
  BY DEF IInv, TypeOK
<1>4. /\ Append(idle[d], r) \in Seq(RawStreams)
      /\ Len(Append(idle[d], r)) = Len(idle[d]) + 1
      /\ \A i \in 1..Len(idle[d]) : Append(idle[d], r)[i] = idle[d][i]
      /\ Append(idle[d], r)[Len(idle[d]) + 1] = r
  BY <1>3, AppendProperties
<1>5. /\ idle' \in [Devices -> Seq(RawStreams)] /\ idle'[d] = Append(idle[d], r)
      /\ \A e \in Devices \ {d} : idle'[e] = idle[e]
  BY <1>1, <1>2, <1>3, <1>4
<1>6. TypeOK'
  <2>1. Referenced' = Referenced
    BY <1>1 DEF Referenced
  <2> QED
    BY <1>1, <1>5, <2>1 DEF IInv, TypeOK
<1>7. GoalInv' /\ ExistsInv' /\ Kept
  BY <1>1 DEF IInv, GoalInv, ExistsInv, Kept
<1>8. ASSUME NEW e \in Devices, NEW i \in 1..Len(idle'[e])
      PROVE \/ i \in 1..Len(idle[e]) /\ idle'[e][i] = idle[e][i] /\ idle[e][i] \in Idle(e)
            \/ e = d /\ i = Len(idle[d]) + 1 /\ idle'[e][i] = r
  <2>1. CASE i \in 1..Len(idle[e])
    BY <2>1, <1>4, <1>5 DEF Idle
  <2>2. CASE i \notin 1..Len(idle[e])
    BY <2>2, <1>3, <1>4, <1>5
  <2> QED
    BY <2>1, <2>2
<1>9. \A e \in Devices : \A x \in Idle(e)' : x \in Idle(e) \/ (e = d /\ x = r)
  <2> SUFFICES ASSUME NEW e \in Devices, NEW x \in Idle(e)'
               PROVE x \in Idle(e) \/ (e = d /\ x = r)
    OBVIOUS
  <2>1. PICK i \in 1..Len(idle'[e]) : x = idle'[e][i]
    BY DEF Idle
  <2> QED
    BY <1>8, <2>1
<1>10. OnItsDevice'
  BY <1>1, <1>2, <1>9 DEF IInv, OnItsDevice
<1>11. OneOwner'
  <2>1. Held' = Held /\ InHand' = InHand
    BY <1>1 DEF Held, InHand
  <2>2. \A e \in Devices : Idle(e)' \intersect (Held \union InHand) = {}
    BY <1>1, <1>9 DEF IInv, OneOwner
  <2>3. ASSUME NEW e \in Devices, NEW i \in 1..Len(idle'[e]), NEW j \in 1..Len(idle'[e]),
               idle'[e][i] = idle'[e][j]
        PROVE i = j
    <3>1. \/ i \in 1..Len(idle[e]) /\ idle'[e][i] = idle[e][i] /\ idle[e][i] \in Idle(e)
          \/ e = d /\ i = Len(idle[d]) + 1 /\ idle'[e][i] = r
      BY <1>8
    <3>2. \/ j \in 1..Len(idle[e]) /\ idle'[e][j] = idle[e][j] /\ idle[e][j] \in Idle(e)
          \/ e = d /\ j = Len(idle[d]) + 1 /\ idle'[e][j] = r
      BY <1>8
    <3> QED
      BY <1>1, <2>3, <3>1, <3>2 DEF IInv, OneOwner
  <2>4. \A u \in Tasks : taken'[u] # NoStream =>
           taken'[u] \notin Held' /\ \A v \in Tasks : taken'[v] = taken'[u] => v = u
    BY <1>1, <2>1 DEF IInv, OneOwner
  <2> QED
    BY <2>1, <2>2, <2>3, <2>4 DEF OneOwner
<1> QED
  BY <1>6, <1>7, <1>10, <1>11 DEF IInv

-----------------------------------------------------------------------------
LEMMA InitInv == Init => IInv
<1> SUFFICES ASSUME Init PROVE IInv
  OBVIOUS
<1>1. scope \in [Tasks -> Seq(Pair)] /\ \A t \in Tasks : Len(scope[t]) = 0
  BY EmptySeq DEF Init
<1>2. idle \in [Devices -> Seq(RawStreams)] /\ \A d \in Devices : Len(idle[d]) = 0
  BY EmptySeq DEF Init
<1>3. /\ promise \in [Promises -> PromiseState]
      /\ \A p \in Promises : promise[p].stream = NoStream
      /\ promise[GlobalCpu].device # NoDevice /\ promise[GlobalGpu].device # NoDevice
  BY StreamsAssumption DEF Init, PromiseState
<1>4. \A t \in Tasks : goal[t] = NoGoal /\ NoGoal \in Goal /\ NoGoal.promise = NoPromise
  BY DEF Init, NoGoal, Goal
<1>5. Referenced = {GlobalCpu, GlobalGpu}
  BY <1>1, <1>4, StreamsAssumption DEF Referenced
<1>6. TypeOK
  BY <1>1, <1>2, <1>3, <1>4, <1>5, StreamsAssumption DEF Init, TypeOK, PromiseState
<1>7. GoalInv
  BY <1>4, StreamsAssumption DEF Init, GoalInv, NoGoal
<1>8. ExistsInv
  BY <1>3 DEF Init, ExistsInv
<1>9. \A d \in Devices : Idle(d) = {}
  BY <1>2 DEF Idle
<1>10. OnItsDevice /\ OneOwner
  BY <1>2, <1>3, <1>9 DEF Init, OnItsDevice, OneOwner
<1> QED
  BY <1>6, <1>7, <1>8, <1>10 DEF IInv

LEMMA NextInv == IInv /\ [Next]_vars => IInv' /\ (Kept \/ UNCHANGED vars)
<1> SUFFICES ASSUME IInv, [Next]_vars PROVE IInv' /\ (Kept \/ UNCHANGED vars)
  OBVIOUS
<1>1. ASSUME NEW t \in Tasks, TaskStep(t) PROVE IInv' /\ Kept
  BY <1>1, UseCurrentKeeps, NewStreamKeeps, WithNewDefaultStreamKeeps, WithDefaultDeviceKeeps,
     LookKeeps, TakeKeeps, CreateKeeps, InstallKeeps, LeaveScopeKeeps, ForgetKeeps DEF TaskStep
<1>2. CASE UNCHANGED vars
  <2>1. Referenced' = Referenced /\ Held' = Held /\ InHand' = InHand
        /\ \A d \in Devices : Idle(d)' = Idle(d)
    BY <1>2 DEF vars, Referenced, Held, InHand, Idle
  <2>2. TypeOK'
    BY <1>2, <2>1 DEF vars, IInv, TypeOK
  <2>3. GoalInv' /\ ExistsInv'
    BY <1>2 DEF vars, IInv, GoalInv, ExistsInv
  <2>4. OnItsDevice' /\ OneOwner'
    BY <1>2, <2>1 DEF vars, IInv, OnItsDevice, OneOwner
  <2> QED
    BY <1>2, <2>2, <2>3, <2>4 DEF IInv
<1> QED
  BY <1>1, <1>2, StartChildKeeps, CollectKeeps, ReleaseKeeps DEF Next

LEMMA InductiveInv == Spec => []IInv
BY InitInv, NextInv, PTL DEF Spec

(* The promises, pool and scopes keep their types, and every promise that  *)
(* is referred to exists.                                                  *)
THEOREM TypeCorrect == Spec => []TypeOK
BY InductiveInv, PTL DEF IInv

(* A stream is in the pool once, in one task's hand, or shared by those    *)
(* who hold its Stream object, and never two of these (newStream,          *)
(* releaseStream, LazyStreamPromise.current).                              *)
THEOREM StreamsHaveOneOwner == Spec => []OneOwner
BY InductiveInv, PTL DEF IInv

(* A scope never runs on another device's stream, however scopes nest and  *)
(* streams are recycled.                                                   *)
THEOREM StreamsStayOnTheirDevice == Spec => []OnItsDevice
BY InductiveInv, PTL DEF IInv

(* However many tasks realise a promise, it gets one stream.               *)
THEOREM PromisesAreKept == Spec => PromiseKept
<1>1. IInv /\ [Next]_vars => [Kept]_vars
  BY NextInv
<1>2. [Kept]_vars =>
        [\A p \in Promises :
           promise[p].stream # NoStream /\ promise'[p].device # NoDevice
              => promise'[p].stream = promise[p].stream]_vars
  BY DEF Kept
<1> QED
  BY <1>1, <1>2, InductiveInv, PTL DEF Spec, PromiseKept

-----------------------------------------------------------------------------
\* No more streams than were needed.

On(d) == {r \in Created : deviceOf[r] = d}

LEMMA CountsType ==
    ASSUME NEW d \in Devices
    PROVE  /\ IsFiniteSet(On(d)) /\ IsFiniteSet(Creating(d))
           /\ Cardinality(On(d)) \in Nat /\ Cardinality(Creating(d)) \in Nat
<1>1. On(d) \subseteq RawStreams /\ Creating(d) \subseteq Tasks
  BY DEF On, Created, Creating
<1> QED
  BY <1>1, StreamsAssumption, FS_Subset, FS_CardinalityType

\* Only t moves: its stage changes, and what it wants may.
Moves(t, next) ==
    /\ stage'[t] = next
    /\ \A u \in Tasks \ {t} : stage'[u] = stage[u] /\ goal'[u] = goal[u]

\* A task that neither starts nor stops creating a stream changes no count.
LEMMA CountKept ==
    ASSUME IInv, NoMoreThanNeeded, deviceOf' = deviceOf,
           \A d \in Devices : peak'[d] >= peak[d] /\ peak'[d] \in Nat,
           NEW t \in Tasks, NEW next, Moves(t, next), stage[t] # "create", next # "create"
    PROVE  NoMoreThanNeeded'
<1> SUFFICES ASSUME NEW d \in Devices
             PROVE  Cardinality(On(d)') + Cardinality(Creating(d)') <= peak'[d]
  BY DEF NoMoreThanNeeded, On
<1>1. On(d)' = On(d)
  BY DEF On, Created
<1>2. Creating(d)' = Creating(d)
  BY DEF Creating, Moves
<1>3. Cardinality(On(d)) + Cardinality(Creating(d)) <= peak[d]
  BY DEF NoMoreThanNeeded, On
<1>4. peak[d] \in Nat
  BY DEF IInv, TypeOK
<1> QED
  BY <1>1, <1>2, <1>3, <1>4, CountsType

LEMMA DeliverMoves ==
    ASSUME IInv, NEW t \in Tasks, NEW s, NEW promises, Deliver(t, s, promises)
    PROVE  Moves(t, "idle")
BY DEF Deliver, Moves, IInv, TypeOK

LEMMA ObtainMoves ==
    ASSUME IInv, NEW t \in Tasks, NEW r, Obtain(t, r)
    PROVE  \E next \in {"idle", "install"} : Moves(t, next)
<1>1. CASE goal[t].promise = NoPromise
  <2>1. Deliver(t, r, promise)
    BY <1>1 DEF Obtain
  <2> QED
    BY <2>1, DeliverMoves
<1>2. CASE goal[t].promise # NoPromise
  <2>1. stage' = [stage EXCEPT ![t] = "install"] /\ goal' = goal
    BY <1>2 DEF Obtain
  <2> QED
    BY <2>1 DEF Moves, IInv, TypeOK
<1> QED
  BY <1>1, <1>2

\* A task that takes from the pool or goes to create a stream raises the peak to
\* what it makes the demand.
LEMMA CountTake ==
    ASSUME IInv, NoMoreThanNeeded, NEW t \in Tasks, Take(t)
    PROVE  NoMoreThanNeeded'
<1>1. PICK d \in Devices : d = goal[t].device
  BY DEF Take, IInv, GoalInv
<1>2. stage[t] = "take" /\ deviceOf' = deviceOf /\ peak' = Raised(d)
  BY <1>1 DEF Take
<1>3. Cardinality(Busy(d)) \in Nat /\ Demand(d) \in Nat
  <2>1. Busy(d) \subseteq RawStreams
    BY DEF Busy, Created
  <2> QED
    BY <2>1, StreamsAssumption, CountsType, FS_Subset, FS_CardinalityType DEF Demand
<1>4. peak \in [Devices -> Nat]
  BY DEF IInv, TypeOK
<1>5. /\ peak'[d] >= peak[d] /\ peak'[d] >= Demand(d) + 1 /\ peak'[d] \in Nat
      /\ \A e \in Devices \ {d} : peak'[e] = peak[e]
  BY <1>2, <1>3, <1>4 DEF Raised
<1>6. CASE idle[d] # <<>>
  <2>1. PICK r : Obtain(t, r)
    BY <1>1, <1>6 DEF Take, PoolOf, Reuses
  <2>2. PICK next \in {"idle", "install"} : Moves(t, next)
    BY <2>1, ObtainMoves
  <2> QED
    BY <1>2, <1>4, <1>5, <2>2, CountKept
<1>7. CASE idle[d] = <<>>
  <2>1. stage' = [stage EXCEPT ![t] = "create"] /\ goal' = goal
    BY <1>1, <1>7 DEF Take, PoolOf, Reuses
  <2>2. stage \in [Tasks -> {"idle", "look", "take", "create", "install"}]
    BY DEF IInv, TypeOK
  <2>3. Creating(d)' = Creating(d) \union {t} /\ t \notin Creating(d)
    BY <1>1, <1>2, <2>1, <2>2 DEF Creating
  <2>4. \A e \in Devices \ {d} : Creating(e)' = Creating(e)
    BY <1>1, <1>2, <2>1, <2>2 DEF Creating
  <2>5. \A e \in Devices : On(e)' = On(e)
    BY <1>2 DEF On, Created
  <2>6. Busy(d) = On(d)
    <3>1. Idle(d) = {}
      <4>1. Len(idle[d]) = 0
        BY <1>7, EmptySeq
      <4> QED
        BY <4>1 DEF Idle
    <3> QED
      BY <3>1 DEF Busy, On
  <2>7. Cardinality(Creating(d)') = Cardinality(Creating(d)) + 1
    BY <2>3, CountsType, FS_AddElement
  <2>8. Cardinality(On(d)') + Cardinality(Creating(d)') <= peak'[d]
    BY <1>5, <2>5, <2>6, <2>7, CountsType DEF Demand
  <2>9. ASSUME NEW e \in Devices, e # d
        PROVE  Cardinality(On(e)') + Cardinality(Creating(e)') <= peak'[e]
    BY <1>5, <2>4, <2>5, <2>9 DEF NoMoreThanNeeded, On
  <2> QED
    BY <2>8, <2>9 DEF NoMoreThanNeeded, On
<1> QED
  BY <1>6, <1>7

\* The stream that is created takes the place of the task that creates it.
LEMMA CountCreate ==
    ASSUME IInv, NoMoreThanNeeded, NEW t \in Tasks, Create(t)
    PROVE  NoMoreThanNeeded'
<1>1. PICK d \in Devices : d = goal[t].device
  BY DEF Create, IInv, GoalInv
<1>2. PICK r \in RawStreams \ Created :
        deviceOf' = [deviceOf EXCEPT ![r] = d] /\ Obtain(t, r)
  BY <1>1 DEF Create
<1>3. stage[t] = "create" /\ peak' = peak
  BY DEF Create
<1>4. PICK next \in {"idle", "install"} : Moves(t, next)
  BY <1>2, ObtainMoves
<1>5. deviceOf \in [RawStreams -> Devices \union {NoDevice}] /\ peak \in [Devices -> Nat]
  BY DEF IInv, TypeOK
<1>6. deviceOf[r] = NoDevice /\ d # NoDevice
  BY <1>2, StreamsAssumption DEF Created
<1>7. On(d)' = On(d) \union {r} /\ r \notin On(d)
  BY <1>2, <1>5, <1>6 DEF On, Created
<1>8. \A e \in Devices \ {d} : On(e)' = On(e)
  <2> SUFFICES ASSUME NEW e \in Devices \ {d} PROVE On(e)' = On(e)
    OBVIOUS
  <2>1. e # NoDevice
    BY StreamsAssumption
  <2>2. \A x \in RawStreams : deviceOf'[x] = e <=> deviceOf[x] = e
    BY <1>2, <1>5, <1>6, <2>1
  <2> QED
    BY <2>1, <2>2 DEF On, Created
<1>9. Creating(d)' = Creating(d) \ {t} /\ t \in Creating(d)
  BY <1>1, <1>3, <1>4 DEF Creating, Moves
<1>10. \A e \in Devices \ {d} : Creating(e)' = Creating(e)
  BY <1>1, <1>3, <1>4 DEF Creating, Moves
<1>11. Cardinality(On(d)') = Cardinality(On(d)) + 1
  BY <1>7, CountsType, FS_AddElement
<1>12. Cardinality(Creating(d)') = Cardinality(Creating(d)) - 1
  BY <1>9, CountsType, FS_RemoveElement
<1>13. Cardinality(On(d)') + Cardinality(Creating(d)') <= peak'[d]
  <2>1. Cardinality(On(d)) + Cardinality(Creating(d)) <= peak[d]
    BY DEF NoMoreThanNeeded, On
  <2> QED
    BY <1>3, <1>5, <1>11, <1>12, <2>1, CountsType
<1>14. ASSUME NEW e \in Devices, e # d
       PROVE  Cardinality(On(e)') + Cardinality(Creating(e)') <= peak'[e]
  BY <1>3, <1>8, <1>10, <1>14 DEF NoMoreThanNeeded, On
<1> QED
  BY <1>13, <1>14 DEF NoMoreThanNeeded, On

\* The other actions of a task.
LEMMA CountTask ==
    ASSUME IInv, NoMoreThanNeeded, NEW t \in Tasks, TaskStep(t)
    PROVE  NoMoreThanNeeded'
<1>p. \A d \in Devices : peak[d] \in Nat
  BY DEF IInv, TypeOK
<1>1. ASSUME NEW first \in {"look", "take"}, NEW request, Ask(t, first, request)
      PROVE  NoMoreThanNeeded'
  <2>1. Moves(t, first) /\ stage[t] # "create" /\ deviceOf' = deviceOf /\ peak' = peak
    BY <1>1 DEF Ask, Moves, IInv, TypeOK
  <2> QED
    BY <2>1, <1>p, CountKept
<1>2. CASE UseCurrent(t)
  BY <1>1, <1>2 DEF UseCurrent
<1>3. CASE \E d \in Devices : NewStream(t, d) \/ WithNewDefaultStream(t, d) \/ WithDefaultDevice(t, d)
  BY <1>1, <1>3 DEF NewStream, WithNewDefaultStream, WithDefaultDevice
<1>4. CASE Look(t)
  <2>1. stage[t] = "look" /\ deviceOf' = deviceOf /\ peak' = peak
    BY <1>4 DEF Look
  <2>2. \E next \in {"idle", "take"} : Moves(t, next)
    <3>1. CASE promise[goal[t].promise].stream # NoStream
      BY <1>4, <3>1, DeliverMoves DEF Look
    <3>2. CASE promise[goal[t].promise].stream = NoStream
      BY <1>4, <3>2 DEF Look, Moves, IInv, TypeOK
    <3> QED
      BY <3>1, <3>2
  <2> QED
    BY <2>1, <2>2, <1>p, CountKept
<1>5. CASE Install(t)
  <2>1. stage[t] = "install" /\ deviceOf' = deviceOf /\ peak' = peak
    BY <1>5 DEF Install
  <2>2. Moves(t, "idle")
    BY <1>5, DeliverMoves DEF Install
  <2> QED
    BY <2>1, <2>2, <1>p, CountKept
<1>6. CASE LeaveScope(t) \/ Forget(t)
  <2>1. stage[t] = "idle" /\ stage' = stage /\ goal' = goal /\ deviceOf' = deviceOf /\ peak' = peak
    BY <1>6 DEF LeaveScope, Forget
  <2>2. Moves(t, "idle")
    BY <2>1 DEF Moves
  <2> QED
    BY <2>1, <2>2, <1>p, CountKept
<1> QED
  BY <1>2, <1>3, <1>4, <1>5, <1>6, CountTake, CountCreate DEF TaskStep

LEMMA CountNext == IInv /\ NoMoreThanNeeded /\ [Next]_vars => NoMoreThanNeeded'
<1> SUFFICES ASSUME IInv, NoMoreThanNeeded, [Next]_vars PROVE NoMoreThanNeeded'
  OBVIOUS
<1>1. CASE UNCHANGED <<deviceOf, stage, goal, peak>>
  <2>1. \A d \in Devices : On(d)' = On(d) /\ Creating(d)' = Creating(d)
    BY <1>1 DEF On, Created, Creating
  <2> QED
    BY <1>1, <2>1 DEF NoMoreThanNeeded, On
<1>2. CASE \/ \E t, child \in Tasks : StartChild(t, child)
           \/ \E p \in Promises : Collect(p)
           \/ \E r \in RawStreams : Release(r)
           \/ UNCHANGED vars
  BY <1>1, <1>2 DEF StartChild, Collect, Release, vars
<1> QED
  BY <1>2, CountTask DEF Next

LEMMA CountInit == Init => NoMoreThanNeeded
<1> SUFFICES ASSUME Init, NEW d \in Devices
             PROVE  Cardinality(On(d)) + Cardinality(Creating(d)) <= peak[d]
  BY DEF NoMoreThanNeeded, On
<1>1. On(d) = {} /\ Creating(d) = {} /\ peak[d] = 0
  BY DEF Init, On, Created, Creating
<1> QED
  BY <1>1, FS_EmptySet

(* The pool leaks nothing: whatever scopes, children and lost races do, no *)
(* more streams are ever created on a device than were in use or being     *)
(* created at one time (StreamPool, releaseStream).                        *)
THEOREM StreamsAreRecycled == Spec => []NoMoreThanNeeded
BY InductiveInv, CountInit, CountNext, PTL DEF Spec
=============================================================================
