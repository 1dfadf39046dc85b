------------------------- MODULE ErrorDispatchProofs -------------------------
(***************************************************************************)
(* Proofs about ErrorDispatch, for any tasks, scopes, errors and data of   *)
(* global handlers, and any depth of nested handlers.                      *)
(***************************************************************************)
EXTENDS ErrorDispatch, TLAPS

-----------------------------------------------------------------------------
(* Types.                                                                  *)

LEMMA TopType ==
    ASSUME TypeOK, NEW t \in Tasks, stack[t] # <<>>
    PROVE  /\ Top(t) \in Boxes \union {Callback}
           /\ SubSeq(stack[t], 1, Len(stack[t]) - 1) \in Seq(Boxes \union {Callback})
           /\ Len(SubSeq(stack[t], 1, Len(stack[t]) - 1)) = Len(stack[t]) - 1
<1>1. stack[t] \in Seq(Boxes \union {Callback})
  BY DEF TypeOK
<1> QED
  BY <1>1 DEF Top

LEMMA OwnIsNotEmpty ==
    ASSUME TypeOK, NEW t \in Tasks, Own(t)
    PROVE  stack[t] # <<>>
  BY DEF TypeOK, Own

LEMMA ScopeSteps ==
    ASSUME TypeOK, NEW t \in Tasks, WithErrorHandler(t) \/ WithError(t)
    PROVE  TypeOK'
<1>1. ASSUME NEW h \in Boxes \union {Callback}, Push(t, h)
      PROVE  /\ stack' \in [Tasks -> Seq(Boxes \union {Callback})]
             /\ \A u \in Tasks : inherited'[u] <= Len(stack'[u]) /\ Len(stack'[u]) <= MaxDepth
  <2>1. stack[t] \in Seq(Boxes \union {Callback})
    BY DEF TypeOK
  <2>2. /\ Append(stack[t], h) \in Seq(Boxes \union {Callback})
        /\ Len(Append(stack[t], h)) = Len(stack[t]) + 1
    BY <2>1
  <2> QED
    BY <1>1, <2>1, <2>2, ErrorAssumption DEF Push, TypeOK
<1>2. CASE WithErrorHandler(t)
  BY <1>1, <1>2 DEF WithErrorHandler, Push, TypeOK
<1>3. CASE WithError(t)
  <2>1. PICK b \in Boxes :
          Push(t, b) /\ scope' = [scope EXCEPT ![b] = [stands |-> "open", error |-> NoError]]
    BY <1>3 DEF WithError
  <2> QED
    BY <1>1, <2>1 DEF Push, TypeOK
<1> QED
  BY <1>2, <1>3

LEMMA LeaveType ==
    ASSUME TypeOK, NEW t \in Tasks, Leave(t)
    PROVE  TypeOK'
<1>1. Own(t) /\ stage[t] = "running"
  BY DEF Leave, Pop
<1>2. stack[t] # <<>>
  BY <1>1, OwnIsNotEmpty
<1>3. /\ stack' \in [Tasks -> Seq(Boxes \union {Callback})]
      /\ \A u \in Tasks : inherited'[u] <= Len(stack'[u]) /\ Len(stack'[u]) <= MaxDepth
  <2>1. \A u \in Tasks : Len(stack[u]) \in Nat
    BY DEF TypeOK
  <2>2. /\ stack' = [stack EXCEPT ![t] = SubSeq(@, 1, Len(@) - 1)] /\ inherited' = inherited
        /\ Len(stack[t]) > inherited[t]
    BY <1>1 DEF Leave, Pop, Own
  <2>3. /\ SubSeq(stack[t], 1, Len(stack[t]) - 1) \in Seq(Boxes \union {Callback})
        /\ Len(SubSeq(stack[t], 1, Len(stack[t]) - 1)) = Len(stack[t]) - 1
    BY <1>2, TopType
  <2>4. stack' \in [Tasks -> Seq(Boxes \union {Callback})]
    BY <2>2, <2>3 DEF TypeOK
  <2>5. \A u \in Tasks : Len(stack'[u]) = IF u = t THEN Len(stack[t]) - 1 ELSE Len(stack[u])
    BY <2>2, <2>3 DEF TypeOK
  <2>6. \A u \in Tasks : /\ inherited[u] \in Nat /\ inherited[u] <= Len(stack[u])
                         /\ Len(stack[u]) <= MaxDepth
    BY DEF TypeOK
  <2> QED
    BY <2>1, <2>2, <2>4, <2>5, <2>6, ErrorAssumption
<1>4. scope' \in [Boxes -> [stands : {"unused", "open", "returned", "threw", "failed"},
                            error : Errors \union {NoError}]]
  <2>1. CASE Top(t) = Callback
    BY <2>1 DEF Leave, TypeOK
  <2>2. CASE Top(t) # Callback
    <3>1. Top(t) \in Boxes
      BY <1>2, <2>2, TopType
    <3>2. Seen(t, Top(t)) \subseteq Errors \union {NoError}
      BY <3>1 DEF Seen, TypeOK
    <3> DEFINE Standing == {"unused", "open", "returned", "threw", "failed"}
               Scope == [stands : Standing, error : Errors \union {NoError}]
    <3>3. ASSUME NEW s \in Standing, NEW e \in Errors \union {NoError},
                 scope' = [scope EXCEPT ![Top(t)] = [stands |-> s, error |-> e]]
          PROVE  scope' \in [Boxes -> Scope]
      <4>1. [stands |-> s, error |-> e] \in Scope
        OBVIOUS
      <4>2. scope \in [Boxes -> Scope]
        BY DEF TypeOK
      <4> QED
        BY <3>1, <3>3, <4>1, <4>2
    <3>4. PICK e \in Seen(t, Top(t)) \union {NoError} :
            \/ scope' = [scope EXCEPT ![Top(t)] =
                           [stands |-> IF e = NoError THEN "returned" ELSE "threw", error |-> e]]
            \/ scope' = [scope EXCEPT ![Top(t)] = [stands |-> "failed", error |-> NoError]]
      BY <2>2 DEF Leave
    <3>5. e \in Errors \union {NoError}
      BY <3>2, <3>4
    <3>6. CASE e = NoError
      BY <3>3, <3>4, <3>5, <3>6
    <3>7. CASE e # NoError
      BY <3>3, <3>4, <3>5, <3>7
    <3> QED
      BY <3>6, <3>7
  <2> QED
    BY <2>1, <2>2
<1> QED
  BY <1>3, <1>4 DEF Leave, Pop, TypeOK

LEMMA RecipientType ==
    ASSUME TypeOK, NEW t \in Tasks
    PROVE  Recipient(t) \in Boxes \union {Callback, "global"}
  BY TopType DEF Recipient

LEMMA MetType ==
    ASSUME TypeOK, NEW t \in Tasks, NEW e \in Errors, Meet(t, e)
    PROVE  /\ met' \in Seq([error : Errors, by : Tasks, to : Boxes \union {Callback, "global"}])
           /\ Len(met') = Len(met) + 1
           /\ \A i \in DOMAIN met : i \in 1 .. Len(met) /\ met'[i] = met[i]
           /\ met'[Len(met) + 1] = [error |-> e, by |-> t, to |-> Recipient(t)]
<1> DEFINE Entry == [error : Errors, by : Tasks, to : Boxes \union {Callback, "global"}]
           r == [error |-> e, by |-> t, to |-> Recipient(t)]
<1>1. r \in Entry
  BY RecipientType
<1>2. met \in Seq(Entry) /\ met' = Append(met, r)
  BY DEF TypeOK, Meet
<1> HIDE DEF Entry, r
<1>3. /\ met' \in Seq(Entry) /\ Len(met') = Len(met) + 1
      /\ \A i \in DOMAIN met : i \in 1 .. Len(met) /\ met'[i] = met[i]
      /\ met'[Len(met) + 1] = r
  BY <1>1, <1>2
<1> QED
  BY <1>3 DEF Entry, r

LEMMA MetSequence ==
    ASSUME TypeOK, NEW t \in Tasks, NEW e \in Errors, Meet(t, e)
    PROVE  LET n == Len(met) + 1
           IN  /\ DOMAIN met = 1 .. Len(met) /\ DOMAIN met' = 1 .. n /\ n \in Nat \ {0}
               /\ \A i \in DOMAIN met : met'[i] = met[i]
               /\ met'[n].to = Recipient(t) /\ met'[n].error = e /\ met'[n].by = t
<1> DEFINE Entry == [error : Errors, by : Tasks, to : Boxes \union {Callback, "global"}]
           n == Len(met) + 1
<1>1. met \in Seq(Entry) /\ met' \in Seq(Entry) /\ Len(met') = n
  BY MetType DEF TypeOK
<1> HIDE DEF Entry
<1>2. DOMAIN met = 1 .. Len(met) /\ DOMAIN met' = 1 .. n /\ n \in Nat \ {0}
  BY <1>1
<1>3. met'[n] = [error |-> e, by |-> t, to |-> Recipient(t)]
  BY MetType
<1>4. met'[n].to = Recipient(t) /\ met'[n].error = e /\ met'[n].by = t
  BY <1>3
<1>5. \A i \in DOMAIN met : met'[i] = met[i]
  BY MetType
<1> QED
  BY <1>2, <1>4, <1>5

LEMMA MeetType ==
    ASSUME TypeOK, NEW t \in Tasks, NEW e \in Errors, Meet(t, e)
    PROVE  TypeOK'
<1>1. met' \in Seq([error : Errors, by : Tasks, to : Boxes \union {Callback, "global"}])
  BY MetType
<1>2. /\ stage' \in [Tasks -> Stages] /\ error' \in [Tasks -> Errors \union {NoError}]
      /\ \A u \in Tasks : stage'[u] \in {"calling", "replacing"} => lock' = u
  <2>1. CASE stack[t] = <<>>
    <3>1. /\ stage' = [stage EXCEPT ![t] = "dispatching"] /\ error' = [error EXCEPT ![t] = e]
          /\ lock' = lock
      BY <2>1 DEF Meet
    <3> QED
      BY <3>1 DEF TypeOK, Stages
  <2>2. CASE stack[t] # <<>>
    <3>1. UNCHANGED <<stage, error, lock>>
      BY <2>2 DEF Meet
    <3> QED
      BY <3>1 DEF TypeOK
  <2> QED
    BY <2>1, <2>2
<1>3. first' \in [Boxes -> Errors \union {NoError}] /\ sees' \in [Tasks -> SUBSET Boxes]
  <2>1. CASE stack[t] = <<>> \/ Top(t) = Callback
    BY <2>1 DEF Meet, TypeOK
  <2>2. CASE stack[t] # <<>> /\ Top(t) # Callback
    <3>1. Top(t) \in Boxes
      BY <2>2, TopType
    <3>2. first' = Store(Top(t), e) /\ sees' = [sees EXCEPT ![t] = @ \union {Top(t)}]
      BY <2>2 DEF Meet
    <3>3. first' \in [Boxes -> Errors \union {NoError}]
      BY <3>1, <3>2 DEF TypeOK, Store
    <3>4. sees' \in [Tasks -> SUBSET Boxes]
      BY <3>1, <3>2 DEF TypeOK
    <3> QED
      BY <3>3, <3>4
  <2> QED
    BY <2>1, <2>2
<1>4. UNCHANGED <<stack, inherited, known, scope, handler, lock, destroyed>>
  BY DEF Meet
<1> QED
  BY <1>1, <1>2, <1>3, <1>4 DEF TypeOK

LEMMA NextType == TypeOK /\ [Next]_vars => TypeOK'
<1> SUFFICES ASSUME TypeOK, [Next]_vars PROVE TypeOK'
  OBVIOUS
<1>1. ASSUME NEW t \in Tasks, TaskStep(t) PROVE TypeOK'
  <2>1. CASE WithErrorHandler(t) \/ WithError(t)
    BY <2>1, ScopeSteps
  <2>2. CASE Leave(t)
    BY <2>2, LeaveType
  <2>3. CASE End(t)
    BY <2>3 DEF End, TypeOK, Stages
  <2>4. ASSUME NEW child \in Tasks, StartChild(t, child) PROVE TypeOK'
    BY <2>4 DEF StartChild, TypeOK, Stages
  <2>5. ASSUME NEW child \in Tasks, Await(t, child) PROVE TypeOK'
    BY <2>5 DEF Await, TypeOK
  <2>6. ASSUME NEW e \in Errors, Meet(t, e) PROVE TypeOK'
    BY <2>6, MeetType
  <2>7. CASE CallGlobal(t)
    BY <2>7, ErrorAssumption DEF CallGlobal, TypeOK, Stages
  <2>8. CASE Stop(t)
    BY <2>8 DEF Stop, TypeOK, Stages
  <2>9. CASE ReturnFromGlobal(t)
    BY <2>9, ErrorAssumption DEF ReturnFromGlobal, TypeOK, Stages
  <2>10. CASE Destroy(t)
    BY <2>10, ErrorAssumption DEF Destroy, MayDestroy, TypeOK, Stages
  <2>11. CASE Replace(t)
    <3>1. handler' \in [set : BOOLEAN, data : Data \union {NoData}]
      <4>1. CASE \E d \in Data : handler' = [set |-> TRUE, data |-> d]
        BY <4>1
      <4>2. CASE handler' = [set |-> FALSE, data |-> NoData]
        BY <4>2
      <4> QED
        BY <2>11, <4>1, <4>2 DEF Replace
    <3> QED
      BY <2>11, <3>1, ErrorAssumption DEF Replace, TypeOK, Stages
  <2> QED
    BY <1>1, <2>1, <2>2, <2>3, <2>4, <2>5, <2>6, <2>7, <2>8, <2>9, <2>10, <2>11 DEF TaskStep
<1>2. CASE UNCHANGED vars
  BY <1>2 DEF vars, TypeOK
<1> QED
  BY <1>1, <1>2 DEF Next

LEMMA InitType == Init => TypeOK
  BY ErrorAssumption DEF Init, TypeOK, Stages

(* Stacks of handlers, boxes, tasks and the global handler's lock are well *)
(* typed, and whoever calls or replaces the global handler holds its lock. *)
THEOREM TypeCorrect == Spec => []TypeOK
<1> QED
  BY InitType, NextType, PTL DEF Spec

-----------------------------------------------------------------------------
(* The global handler.                                                     *)

(* Its data is alive, except while it is being replaced.                   *)
Alive == handler.data \in destroyed => \E t \in Tasks : stage[t] = "replacing"

LEMMA AliveStep == TypeOK /\ Alive /\ [Next]_vars => Alive'
<1> SUFFICES ASSUME TypeOK, Alive, [Next]_vars PROVE Alive'
  OBVIOUS
<1>1. ASSUME NEW t \in Tasks, Destroy(t) PROVE Alive'
  BY <1>1 DEF Destroy, Alive, TypeOK
<1>2. ASSUME NEW t \in Tasks, Replace(t) PROVE Alive'
  <2>1. handler'.data \notin destroyed /\ destroyed' = destroyed
    BY <1>2, ErrorAssumption DEF Replace, TypeOK
  <2> QED
    BY <2>1 DEF Alive
<1>3. ASSUME UNCHANGED <<handler, destroyed>>,
             \A u \in Tasks : stage[u] = "replacing" => stage'[u] = "replacing"
      PROVE  Alive'
  BY <1>3 DEF Alive
<1>4. ASSUME NEW t \in Tasks, TaskStep(t), ~Destroy(t), ~Replace(t) PROVE Alive'
  <2>1. UNCHANGED <<handler, destroyed>>
    BY <1>4 DEF TaskStep, WithErrorHandler, WithError, Push, Leave, Pop, End, StartChild, Await,
                Meet, CallGlobal, Stop, ReturnFromGlobal
  <2>2. \A u \in Tasks : stage[u] = "replacing" => stage'[u] = "replacing"
    BY <1>4 DEF TaskStep, WithErrorHandler, WithError, Push, Leave, Pop, End, StartChild, Await,
                Meet, CallGlobal, Stop, ReturnFromGlobal, TypeOK
  <2> QED
    BY <1>3, <2>1, <2>2
<1>5. CASE UNCHANGED vars
  BY <1>5, <1>3 DEF vars
<1> QED
  BY <1>1, <1>2, <1>4, <1>5 DEF Next

(* The global handler is called under the lock under which it is replaced, *)
(* so never with data that is gone (ErrorHandler.swift:328).               *)
THEOREM HandlerDataAlive == Spec => []DataAlive
<1>1. Init => Alive
  BY DEF Init, Alive
<1>2. TypeOK /\ Alive => DataAlive
  BY DEF TypeOK, Alive, DataAlive
<1> QED
  BY <1>1, <1>2, TypeCorrect, AliveStep, PTL DEF Spec

-----------------------------------------------------------------------------
(* Boxes.                                                                  *)

(* Nothing has reached an empty box, and what is in a box reached it       *)
(* before anything else.                                                   *)
HoldsFirst ==
    \A b \in Boxes :
        IF first[b] = NoError
          THEN \A i \in DOMAIN met : met[i].to # b
          ELSE \E i \in DOMAIN met :
                 /\ met[i].to = b /\ met[i].error = first[b]
                 /\ \A j \in DOMAIN met : met[j].to = b => i <= j

LEMMA HoldsFirstStep == TypeOK /\ HoldsFirst /\ [Next]_vars => HoldsFirst'
<1> SUFFICES ASSUME TypeOK, HoldsFirst, [Next]_vars PROVE HoldsFirst'
  OBVIOUS
<1>1. CASE UNCHANGED <<first, met>>
  BY <1>1 DEF HoldsFirst
<1>2. ASSUME NEW t \in Tasks, NEW e \in Errors, Meet(t, e) PROVE HoldsFirst'
  <2> SUFFICES ASSUME NEW b \in Boxes
               PROVE  IF first'[b] = NoError
                        THEN \A i \in DOMAIN met' : met'[i].to # b
                        ELSE \E i \in DOMAIN met' :
                               /\ met'[i].to = b /\ met'[i].error = first'[b]
                               /\ \A j \in DOMAIN met' : met'[j].to = b => i <= j
    BY DEF HoldsFirst
  <2> DEFINE n == Len(met) + 1
  <2>1. /\ DOMAIN met = 1 .. Len(met) /\ DOMAIN met' = 1 .. n /\ n \in Nat \ {0}
        /\ \A i \in DOMAIN met : met'[i] = met[i]
        /\ met'[n].to = Recipient(t) /\ met'[n].error = e
    BY <1>2, MetSequence
  <2>2. \A i \in DOMAIN met' : i \in DOMAIN met \/ i = n
    BY <2>1
  <2>3. CASE Recipient(t) # b
    <3>1. first'[b] = first[b]
      <4>1. CASE stack[t] = <<>> \/ Top(t) = Callback
        BY <1>2, <4>1 DEF Meet
      <4>2. CASE stack[t] # <<>> /\ Top(t) # Callback
        <5>1. first' = Store(Top(t), e) /\ Top(t) # b
          BY <1>2, <2>3, <4>2 DEF Meet, Recipient
        <5> QED
          BY <5>1 DEF Store, TypeOK
      <4> QED
        BY <4>1, <4>2
    <3>2. \A i \in DOMAIN met' : met'[i].to = b => i \in DOMAIN met /\ met[i].to = b
      BY <2>1, <2>2, <2>3
    <3>3. DOMAIN met \subseteq DOMAIN met'
      BY <2>1
    <3>4. CASE first[b] = NoError
      BY <3>1, <3>2, <3>4 DEF HoldsFirst
    <3>5. CASE first[b] # NoError
      <4>1. PICK i \in DOMAIN met :
              /\ met[i].to = b /\ met[i].error = first[b]
              /\ \A j \in DOMAIN met : met[j].to = b => i <= j
        BY <3>5 DEF HoldsFirst
      <4> QED
        BY <2>1, <3>1, <3>2, <3>3, <3>5, <4>1
    <3> QED
      BY <3>4, <3>5
  <2>4. CASE Recipient(t) = b
    <3>1. stack[t] # <<>> /\ Top(t) = b /\ b # Callback
      BY <2>4, ErrorAssumption DEF Recipient
    <3>2. first' = Store(b, e)
      BY <1>2, <3>1 DEF Meet
    <3>3. CASE first[b] = NoError
      <4>1. first'[b] = e /\ e # NoError
        BY <3>2, <3>3, ErrorAssumption DEF Store, TypeOK
      <4>2. \A j \in DOMAIN met' : met'[j].to = b => j = n
        BY <2>1, <2>2, <3>3 DEF HoldsFirst
      <4>3. n \in DOMAIN met' /\ n <= n
        BY <2>1
      <4> QED
        BY <2>1, <2>4, <4>1, <4>2, <4>3
    <3>4. CASE first[b] # NoError
      <4>1. first' = first
        BY <3>2, <3>4 DEF Store
      <4>2. PICK i \in DOMAIN met :
              /\ met[i].to = b /\ met[i].error = first[b]
              /\ \A j \in DOMAIN met : met[j].to = b => i <= j
        BY <3>4 DEF HoldsFirst
      <4>3. i \in DOMAIN met' /\ i <= n
        BY <2>1
      <4>4. \A j \in DOMAIN met' : met'[j].to = b => i <= j
        BY <2>1, <2>2, <4>2, <4>3
      <4> QED
        BY <2>1, <3>4, <4>1, <4>2, <4>3, <4>4
    <3> QED
      BY <3>3, <3>4
  <2> QED
    BY <2>3, <2>4
<1>3. ASSUME NEW t \in Tasks, TaskStep(t), \A e \in Errors : ~Meet(t, e)
      PROVE  UNCHANGED <<first, met>>
  BY <1>3 DEF TaskStep, WithErrorHandler, WithError, Push, Leave, Pop, End, StartChild, Await,
              CallGlobal, Stop, ReturnFromGlobal, Destroy, Replace
<1>4. CASE UNCHANGED vars
  BY <1>1, <1>4 DEF vars
<1> QED
  BY <1>1, <1>2, <1>3, <1>4 DEF Next

(* A scope that threw the error of its box threw what is still in there.   *)
ThrewContents ==
    \A b \in Boxes : scope[b].stands = "threw" =>
        scope[b].error = first[b] /\ first[b] # NoError

LEMMA LeaveScope ==
    ASSUME TypeOK, NEW t \in Tasks, Leave(t), NEW b \in Boxes, scope'[b] # scope[b]
    PROVE  /\ b = Top(t)
           /\ \/ \E e \in Seen(t, b) :
                   scope'[b] = [stands |-> IF e = NoError THEN "returned" ELSE "threw", error |-> e]
              \/ scope'[b] = [stands |-> "failed", error |-> NoError]
<1>1. Top(t) # Callback
  BY DEF Leave
<1>2. PICK s : scope' = [scope EXCEPT ![Top(t)] = s]
  BY <1>1 DEF Leave
<1>3. b = Top(t)
  BY <1>2 DEF TypeOK
<1>4. scope \in [Boxes -> [stands : {"unused", "open", "returned", "threw", "failed"},
                           error : Errors \union {NoError}]]
  BY DEF TypeOK
<1>5. CASE \E e \in Seen(t, b) :
             scope' = [scope EXCEPT ![b] =
                         [stands |-> IF e = NoError THEN "returned" ELSE "threw", error |-> e]]
  <2>1. PICK e \in Seen(t, b) :
          scope' = [scope EXCEPT ![b] =
                      [stands |-> IF e = NoError THEN "returned" ELSE "threw", error |-> e]]
    BY <1>5
  <2>2. scope'[b] = [stands |-> IF e = NoError THEN "returned" ELSE "threw", error |-> e]
    BY <1>4, <2>1
  <2> QED
    BY <1>3, <2>2
<1>6. CASE scope' = [scope EXCEPT ![b] = [stands |-> "failed", error |-> NoError]]
  BY <1>3, <1>4, <1>6
<1> QED
  BY <1>1, <1>3, <1>5, <1>6 DEF Leave

LEMMA ThrewContentsStep == TypeOK /\ ThrewContents /\ [Next]_vars => ThrewContents'
<1> SUFFICES ASSUME TypeOK, ThrewContents, [Next]_vars PROVE ThrewContents'
  OBVIOUS
<1>1. CASE UNCHANGED <<first, scope>>
  BY <1>1 DEF ThrewContents
<1>2. ASSUME NEW t \in Tasks, NEW e \in Errors, Meet(t, e) PROVE ThrewContents'
  <2>1. \A b \in Boxes : first[b] # NoError => first'[b] = first[b]
    <3>1. first' = first \/ first' = Store(Top(t), e)
      BY <1>2 DEF Meet
    <3> QED
      BY <3>1 DEF Store, TypeOK
  <2>2. scope' = scope
    BY <1>2 DEF Meet
  <2> QED
    BY <2>1, <2>2 DEF ThrewContents
<1>3. ASSUME NEW t \in Tasks, WithError(t) PROVE ThrewContents'
  <2>1. first' = first
    BY <1>3 DEF WithError, Push
  <2>2. PICK b \in Boxes : scope' = [scope EXCEPT ![b] = [stands |-> "open", error |-> NoError]]
    BY <1>3 DEF WithError
  <2>3. \A c \in Boxes : scope'[c].stands = "threw" => scope'[c] = scope[c]
    BY <2>2 DEF TypeOK
  <2> QED
    BY <2>1, <2>3 DEF ThrewContents
<1>4. ASSUME NEW t \in Tasks, Leave(t) PROVE ThrewContents'
  <2>1. first' = first
    BY <1>4 DEF Leave, Pop
  <2>2. ASSUME NEW b \in Boxes, scope'[b].stands = "threw", scope'[b] # scope[b]
        PROVE  scope'[b].error = first[b] /\ first[b] # NoError
    <3>1. PICK e \in Seen(t, b) :
            scope'[b] = [stands |-> IF e = NoError THEN "returned" ELSE "threw", error |-> e]
      BY <1>4, <2>2, LeaveScope
    <3>2. e # NoError /\ scope'[b].error = e
      BY <2>2, <3>1
    <3> QED
      BY <3>2 DEF Seen
  <2> QED
    BY <2>1, <2>2 DEF ThrewContents
<1>5. ASSUME NEW t \in Tasks, TaskStep(t), \A e \in Errors : ~Meet(t, e),
             ~WithError(t), ~Leave(t)
      PROVE  UNCHANGED <<first, scope>>
  BY <1>5 DEF TaskStep, WithErrorHandler, Push, End, StartChild, Await,
              CallGlobal, Stop, ReturnFromGlobal, Destroy, Replace
<1>6. CASE UNCHANGED vars
  BY <1>1, <1>6 DEF vars
<1> QED
  BY <1>1, <1>2, <1>3, <1>4, <1>5, <1>6 DEF Next

LEMMA BoxesInit == Init => HoldsFirst /\ ThrewContents
  BY DEF Init, HoldsFirst, ThrewContents

(* The first error stays in the box (ErrorHandler.swift:257), so it is the *)
(* one that check() finds and throws, whatever tasks store meanwhile.      *)
THEOREM FirstIsThrown == Spec => []ThrowsFirst
<1>1. HoldsFirst /\ ThrewContents => ThrowsFirst
  BY DEF HoldsFirst, ThrewContents, ThrowsFirst
<1> QED
  BY <1>1, BoxesInit, TypeCorrect, HoldsFirstStep, ThrewContentsStep, PTL DEF Spec

-----------------------------------------------------------------------------
(* Tasks.                                                                  *)

(* An awaited task is over, and one that has not started has done nothing. *)
KnownEnded ==
    \A t \in Tasks :
        /\ \A u \in known[t] : u # t => stage[u] = "ended"
        /\ stage[t] = "absent" => known[t] = {t} /\ \A i \in DOMAIN met : met[i].by # t

(* A task sees in a box what it, or a task it has awaited, stored there.   *)
SeesKnown ==
    \A t \in Tasks : \A i \in DOMAIN met :
        met[i].by \in known[t] /\ met[i].to \in Boxes => met[i].to \in sees[t]

LEMMA KnownStep == TypeOK /\ KnownEnded /\ SeesKnown /\ [Next]_vars => (KnownEnded /\ SeesKnown)'
<1> SUFFICES ASSUME TypeOK, KnownEnded, SeesKnown, [Next]_vars PROVE KnownEnded' /\ SeesKnown'
  OBVIOUS
<1>1. ASSUME UNCHANGED <<known, met, sees>>,
             \A u \in Tasks : /\ stage[u] = "ended" => stage'[u] = "ended"
                              /\ stage'[u] = "absent" => stage[u] = "absent"
      PROVE  KnownEnded' /\ SeesKnown'
  <2>1. KnownEnded'
    BY <1>1 DEF KnownEnded, TypeOK
  <2>2. SeesKnown'
    BY <1>1 DEF SeesKnown
  <2> QED
    BY <2>1, <2>2
<1>2. ASSUME NEW t \in Tasks, NEW e \in Errors, Meet(t, e) PROVE KnownEnded' /\ SeesKnown'
  <2> DEFINE n == Len(met) + 1
  <2>1. /\ DOMAIN met = 1 .. Len(met) /\ DOMAIN met' = 1 .. n /\ n \in Nat \ {0}
        /\ \A i \in DOMAIN met : met'[i] = met[i]
        /\ met'[n].to = Recipient(t) /\ met'[n].by = t
    BY <1>2, MetSequence
  <2>2. \A i \in DOMAIN met' : i \in DOMAIN met \/ i = n
    BY <2>1
  <2>3. stage[t] = "running" /\ known' = known
    BY <1>2 DEF Meet
  <2>4. \A u \in Tasks : u # t => stage'[u] = stage[u]
    BY <1>2 DEF Meet, TypeOK
  <2>5. stage'[t] \in {"running", "dispatching"}
    BY <1>2 DEF Meet, TypeOK
  <2>6. \A u \in Tasks : t \in known[u] => u = t
    BY <2>3 DEF KnownEnded
  <2>7. KnownEnded'
    <3> SUFFICES ASSUME NEW u \in Tasks
                 PROVE  /\ \A v \in known[u] : v # u => stage'[v] = "ended"
                        /\ stage'[u] = "absent" =>
                             known[u] = {u} /\ \A i \in DOMAIN met' : met'[i].by # u
      BY <2>3 DEF KnownEnded
    <3>1. ASSUME NEW v \in known[u], v # u PROVE stage'[v] = "ended"
      <4>1. stage[v] = "ended" /\ v \in Tasks
        BY <3>1 DEF KnownEnded, TypeOK
      <4>2. v # t
        BY <2>3, <4>1
      <4> QED
        BY <2>4, <4>1, <4>2
    <3>2. ASSUME stage'[u] = "absent"
          PROVE  known[u] = {u} /\ \A i \in DOMAIN met' : met'[i].by # u
      <4>1. u # t /\ stage[u] = "absent"
        BY <2>4, <2>5, <3>2
      <4> QED
        BY <2>1, <2>2, <4>1 DEF KnownEnded
    <3> QED
      BY <3>1, <3>2
  <2>8. SeesKnown'
    <3> SUFFICES ASSUME NEW u \in Tasks, NEW i \in DOMAIN met',
                        met'[i].by \in known[u], met'[i].to \in Boxes
                 PROVE  met'[i].to \in sees'[u]
      BY <2>3 DEF SeesKnown
    <3>1. sees[u] \subseteq sees'[u]
      <4>1. sees' = sees \/ sees' = [sees EXCEPT ![t] = @ \union {Top(t)}]
        BY <1>2 DEF Meet
      <4>2. sees'[u] = sees[u] \/ sees'[u] = sees[u] \union {Top(t)}
        BY <4>1 DEF TypeOK
      <4> QED
        BY <4>2
    <3>2. CASE i \in DOMAIN met
      BY <2>1, <3>1, <3>2 DEF SeesKnown
    <3>3. CASE i = n
      <4>1. u = t /\ Recipient(t) \in Boxes /\ met'[i].to = Recipient(t)
        BY <2>1, <2>6, <3>3
      <4>2. stack[t] # <<>> /\ Top(t) = Recipient(t) /\ Top(t) # Callback
        BY <4>1, ErrorAssumption DEF Recipient
      <4>3. sees' = [sees EXCEPT ![t] = @ \union {Top(t)}]
        BY <1>2, <4>2 DEF Meet
      <4> QED
        BY <4>1, <4>2, <4>3 DEF TypeOK
    <3> QED
      BY <2>2, <3>2, <3>3
  <2> QED
    BY <2>7, <2>8
<1>3. ASSUME NEW t \in Tasks, NEW child \in Tasks, StartChild(t, child)
      PROVE  KnownEnded' /\ SeesKnown'
  <2>1. /\ stage[child] = "absent" /\ stage' = [stage EXCEPT ![child] = "running"]
        /\ sees' = [sees EXCEPT ![child] = sees[t]]
        /\ UNCHANGED <<known, met>>
    BY <1>3 DEF StartChild
  <2>2. KnownEnded'
    BY <2>1 DEF KnownEnded, TypeOK
  <2>3. known[child] = {child} /\ \A i \in DOMAIN met : met[i].by # child
    BY <2>1 DEF KnownEnded
  <2>4. SeesKnown'
    BY <2>1, <2>3 DEF SeesKnown, TypeOK
  <2> QED
    BY <2>2, <2>4
<1>4. ASSUME NEW t \in Tasks, NEW child \in Tasks, Await(t, child)
      PROVE  KnownEnded' /\ SeesKnown'
  <2>1. /\ stage[t] = "running" /\ stage[child] = "ended"
        /\ known' = [known EXCEPT ![t] = @ \union known[child]]
        /\ sees' = [sees EXCEPT ![t] = @ \union sees[child]]
        /\ UNCHANGED <<stage, met>>
    BY <1>4 DEF Await
  <2>2. KnownEnded'
    BY <2>1 DEF KnownEnded, TypeOK
  <2>3. SeesKnown'
    BY <2>1 DEF SeesKnown, TypeOK
  <2> QED
    BY <2>2, <2>3
<1>5. ASSUME NEW t \in Tasks, TaskStep(t),
             \A child \in Tasks : ~StartChild(t, child) /\ ~Await(t, child),
             \A e \in Errors : ~Meet(t, e)
      PROVE  KnownEnded' /\ SeesKnown'
  <2>1. UNCHANGED <<known, met, sees>>
    BY <1>5 DEF TaskStep, WithErrorHandler, WithError, Push, Leave, Pop, End, CallGlobal, Stop,
                ReturnFromGlobal, Destroy, Replace
  <2>2. PICK s \in Stages \ {"absent"} : stage' = stage \/ stage' = [stage EXCEPT ![t] = s]
    BY <1>5 DEF TaskStep, WithErrorHandler, WithError, Push, Leave, Pop, End, CallGlobal, Stop,
                ReturnFromGlobal, Destroy, Replace, Stages
  <2>3. stage[t] # "ended" \/ stage' = stage
    BY <1>5 DEF TaskStep, WithErrorHandler, WithError, Push, Leave, Pop, End, CallGlobal, Stop,
                ReturnFromGlobal, Destroy, Replace
  <2>4. \A u \in Tasks : /\ stage[u] = "ended" => stage'[u] = "ended"
                         /\ stage'[u] = "absent" => stage[u] = "absent"
    BY <2>2, <2>3 DEF TypeOK
  <2> QED
    BY <1>1, <2>1, <2>4
<1>6. CASE UNCHANGED vars
  BY <1>1, <1>6 DEF vars
<1> QED
  BY <1>2, <1>3, <1>4, <1>5, <1>6 DEF Next

LEMMA KnownInit == Init => KnownEnded /\ SeesKnown
  BY DEF Init, KnownEnded, SeesKnown

(* The step of NoErrorSwallowed.                                           *)
NothingMissed ==
    \A t \in Tasks : \A b \in Boxes :
        scope[b].stands = "open" /\ scope'[b].stands = "returned" /\ stack'[t] # stack[t]
           => \A i \in DOMAIN met : met[i].to = b => met[i].by \notin known[t]

LEMMA NothingMissedStep ==
    TypeOK /\ HoldsFirst /\ SeesKnown /\ [Next]_vars => NothingMissed
<1> SUFFICES ASSUME TypeOK, HoldsFirst, SeesKnown, [Next]_vars,
                    NEW t \in Tasks, NEW b \in Boxes,
                    scope[b].stands = "open", scope'[b].stands = "returned",
                    stack'[t] # stack[t],
                    NEW i \in DOMAIN met, met[i].to = b
             PROVE  met[i].by \notin known[t]
  BY DEF NothingMissed
<1>1. scope' # scope /\ scope'[b] # scope[b]
  OBVIOUS
<1>2. PICK u \in Tasks : TaskStep(u)
  BY <1>1 DEF Next, vars
<1>3. Leave(u)
  <2>1. ~WithError(u)
    <3>1. SUFFICES ASSUME WithError(u) PROVE FALSE
      OBVIOUS
    <3>2. PICK c \in Boxes : scope' = [scope EXCEPT ![c] = [stands |-> "open", error |-> NoError]]
      BY <3>1 DEF WithError
    <3> QED
      BY <3>2 DEF TypeOK
  <2> QED
    BY <1>1, <1>2, <2>1 DEF TaskStep, WithErrorHandler, Push, End, StartChild, Await, Meet,
                           CallGlobal, Stop, ReturnFromGlobal, Destroy, Replace
<1>4. u = t
  BY <1>3 DEF Leave, Pop, TypeOK
<1>5. PICK e \in Seen(t, b) :
        scope'[b] = [stands |-> IF e = NoError THEN "returned" ELSE "threw", error |-> e]
  BY <1>1, <1>3, <1>4, LeaveScope
<1>6. e = NoError
  BY <1>5
<1>7. first[b] # NoError
  BY DEF HoldsFirst
<1>8. b \notin sees[t]
  BY <1>5, <1>6, <1>7 DEF Seen
<1> QED
  BY <1>8 DEF SeesKnown

(* Whoever awaits a task sees what that task stored, so withError throws   *)
(* when an error reached its box from a task it waited for                 *)
(* (ErrorHandler.swift:387), although check() takes no lock.               *)
THEOREM AwaitedErrorsThrown == Spec => NoErrorSwallowed
<1> QED
  BY BoxesInit, KnownInit, TypeCorrect, HoldsFirstStep, KnownStep, NothingMissedStep, PTL
  DEF Spec, NoErrorSwallowed, NothingMissed
=============================================================================
