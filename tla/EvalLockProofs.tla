---------------------------- MODULE EvalLockProofs ----------------------------
(***************************************************************************)
(* What TLAPS proves of EvalLock, for any threads, functions and bounds.   *)
(*                                                                         *)
(* The invariant counts: the recursive locks count acquisitions, the stack *)
(* of a thread holds the calls that made them, and the two numbers agree.  *)
(***************************************************************************)
EXTENDS EvalLock, FiniteSetTheorems, TLAPS

\* The positions of a stack whose frames are in X, and their number.
Positions(s, X) == {i \in DOMAIN s : s[i] \in X}
Count(s, X) == Cardinality(Positions(s, X))
One(f, X) == IF f \in X THEN 1 ELSE 0

\* What a call, a return and a step inside the innermost call do to a stack.
IsPush(s, r, e) ==
    /\ r \in Seq(Frame) /\ Len(r) = Len(s) + 1
    /\ \A i \in 1..Len(s) : r[i] = s[i]
    /\ r[Len(s) + 1] = e
IsPop(s, r) ==
    /\ r \in Seq(Frame) /\ Len(r) = Len(s) - 1
    /\ \A i \in 1..Len(s) - 1 : r[i] = s[i]
IsGoto(s, r, e) ==
    /\ r \in Seq(Frame) /\ Len(r) = Len(s)
    /\ \A i \in 1..Len(s) - 1 : r[i] = s[i]
    /\ r[Len(s)] = e

LEMMA PushFacts ==
    ASSUME NEW s \in Seq(Frame), NEW e \in Frame
    PROVE  IsPush(s, Append(s, e), e)
BY DEF IsPush

LEMMA PopFacts ==
    ASSUME NEW s \in Seq(Frame), s # <<>>
    PROVE  IsPop(s, SubSeq(s, 1, Len(s) - 1))
<1>1. Len(s) \in Nat /\ Len(s) >= 1
  OBVIOUS
<1> QED
  BY <1>1 DEF IsPop

LEMMA GotoFacts ==
    ASSUME NEW s \in Seq(Frame), s # <<>>, NEW a \in Stages
    PROVE  IsGoto(s, [s EXCEPT ![Len(s)].at = a], [s[Len(s)] EXCEPT !.at = a])
<1>1. Len(s) \in Nat /\ Len(s) >= 1 /\ s[Len(s)] \in Frame
  OBVIOUS
<1>2. [s[Len(s)] EXCEPT !.at = a] \in Frame
  BY <1>1 DEF Frame
<1> QED
  BY <1>1, <1>2 DEF IsGoto

LEMMA PositionsFinite ==
    ASSUME NEW s \in Seq(Frame), NEW X
    PROVE  /\ IsFiniteSet(Positions(s, X))
           /\ Count(s, X) \in Nat
           /\ Count(s, X) = 0 <=> Positions(s, X) = {}
<1>1. IsFiniteSet(1..Len(s))
  BY FS_Interval
<1>2. Positions(s, X) \subseteq 1..Len(s)
  BY DEF Positions
<1>3. IsFiniteSet(Positions(s, X))
  BY <1>1, <1>2, FS_Subset
<1> QED
  BY <1>3, FS_CardinalityType, FS_EmptySet DEF Count

LEMMA CountPush ==
    ASSUME NEW s \in Seq(Frame), NEW r, NEW e, NEW X, IsPush(s, r, e)
    PROVE  Count(r, X) = Count(s, X) + One(e, X)
<1>1. Len(s) \in Nat /\ DOMAIN r = 1..(Len(s) + 1) /\ DOMAIN s = 1..Len(s)
  BY DEF IsPush
<1>2. CASE e \in X
  <2>1. Positions(r, X) = Positions(s, X) \union {Len(s) + 1}
    BY <1>1, <1>2 DEF Positions, IsPush
  <2>2. Len(s) + 1 \notin Positions(s, X)
    BY <1>1 DEF Positions
  <2>3. IsFiniteSet(Positions(s, X))
    BY PositionsFinite
  <2>4. Cardinality(Positions(r, X)) = Cardinality(Positions(s, X)) + 1
    BY <2>1, <2>2, <2>3, FS_AddElement
  <2> QED
    BY <1>2, <2>4 DEF Count, One
<1>3. CASE e \notin X
  <2>1. Positions(r, X) = Positions(s, X)
    BY <1>1, <1>3 DEF Positions, IsPush
  <2> QED
    BY <1>3, <2>1, PositionsFinite DEF Count, One
<1> QED
  BY <1>2, <1>3

\* A return is a call undone.
LEMMA CountPop ==
    ASSUME NEW s \in Seq(Frame), s # <<>>, NEW r, NEW X, IsPop(s, r)
    PROVE  Count(s, X) = Count(r, X) + One(s[Len(s)], X)
<1>1. IsPush(r, s, s[Len(s)])
  BY DEF IsPop, IsPush
<1>2. r \in Seq(Frame)
  BY DEF IsPop
<1> QED
  BY <1>1, <1>2, CountPush

\* A step inside the innermost call is a return and a call.
LEMMA CountGoto ==
    ASSUME NEW s \in Seq(Frame), s # <<>>, NEW r, NEW e, NEW X, IsGoto(s, r, e)
    PROVE  Count(r, X) + One(s[Len(s)], X) = Count(s, X) + One(e, X)
<1> DEFINE p == SubSeq(s, 1, Len(s) - 1)
<1>1. IsPop(s, p)
  BY PopFacts
<1>2. Len(s) \in Nat /\ Len(s) >= 1 /\ p \in Seq(Frame) /\ Len(p) = Len(s) - 1
  BY <1>1 DEF IsPop
<1>3. IsPush(p, r, e)
  BY <1>1, <1>2 DEF IsPop, IsPush, IsGoto
<1> HIDE DEF p
<1>4. Count(r, X) = Count(p, X) + One(e, X)
  BY <1>2, <1>3, CountPush
<1>5. Count(s, X) = Count(p, X) + One(s[Len(s)], X)
  BY <1>1, CountPop
<1>6. Count(p, X) \in Nat /\ One(e, X) \in Nat /\ One(s[Len(s)], X) \in Nat
  BY <1>2, PositionsFinite DEF One
<1> QED
  BY <1>4, <1>5, <1>6

-----------------------------------------------------------------------------
(* The inductive invariant.                                                *)

EvalFrames == {f \in Frame : HoldsEval(f)}
InstanceFrames(g) == {f \in Frame : HoldsInstance(f) /\ f.on = g}

\* A call is only where calls of its kind can be.
GoodFrame(f) ==
    /\ f.op = "call" => f.on \in Functions
    /\ f.op = "custom" => f.on \in Customs /\ f.at \in {"lock", "run"}
    /\ f.at \in {"inner", "unlock"} => f.op = "call" /\ f.on \in Stateful
    /\ f.at \in {"schedule", "wait"} => f.op \in EvalOps
    /\ f.at \in {"compute", "blocked"} => f.op \in EvalOps \union {"synchronize"}
    /\ f.at = "run" => f.op \notin EvalOps

\* An eval that computes in place.
InPlace(f) == f.op \in EvalOps /\ f.at \in {"compute", "blocked"}

\* Only closures call further; an eval that leaves the lock has no other call
\* of its thread that holds it, and one that computes in place has.
GoodStack(s) ==
    /\ \A i \in 1..Len(s) : GoodFrame(s[i])
    /\ \A i \in 1..Len(s) - 1 : s[i].at = "run" /\ s[i].op \in {"transform", "call", "custom"}
    /\ \A i \in 1..Len(s) :
          s[i].op = "materialize" \/ s[i].at \in {"schedule", "wait"} =>
             \A j \in 1..i-1 : ~HoldsEval(s[j])
    /\ \A i \in 1..Len(s) : InPlace(s[i]) => \E j \in 1..i-1 : HoldsEval(s[j])

StackInv == \A t \in Threads : GoodStack(frames[t])

EvalInv ==
    /\ owner = Nobody <=> count = 0
    /\ \A t \in Threads :
          /\ depth[t] = Count(frames[t], EvalFrames)
          /\ depth[t] = IF owner = t THEN count ELSE 0

InstanceInv ==
    \A f \in Functions :
       /\ instance[f].owner = Nobody <=> instance[f].count = 0
       /\ \A t \in Threads :
             Count(frames[t], InstanceFrames(f)) =
                IF instance[f].owner = t THEN instance[f].count ELSE 0

TrapInv ==
    trapped # Nobody =>
       \E i \in DOMAIN frames[trapped] : frames[trapped][i].op \in {"transform", "call"}

IInv == TypeOK /\ StackInv /\ EvalInv /\ InstanceInv /\ EvalIsSynchronous /\ TrapInv

LEMMA InitIInv == Init => IInv
<1> SUFFICES ASSUME Init PROVE IInv
  OBVIOUS
<1> USE ThreadsAssumption
<1>1. TypeOK
  BY DEF Init, TypeOK
<1>2. \A t \in Threads : frames[t] = <<>>
  BY DEF Init
<1>3. \A t \in Threads : \A X : Count(frames[t], X) = 0
  <2> SUFFICES ASSUME NEW t \in Threads, NEW X PROVE Count(<<>>, X) = 0
    BY <1>2
  <2>1. Positions(<<>>, X) = {}
    BY DEF Positions
  <2> QED
    BY <2>1, FS_EmptySet DEF Count
<1>4. StackInv
  BY <1>2 DEF StackInv, GoodStack
<1>5. EvalInv
  BY <1>3 DEF Init, EvalInv
<1>6. InstanceInv
  BY <1>3 DEF Init, InstanceInv
<1> QED
  BY <1>1, <1>4, <1>5, <1>6 DEF IInv, Init, EvalIsSynchronous, TrapInv

\* The stacks, and what each part of the invariant says, before a step.
LEMMA StackType ==
    ASSUME TypeOK, NEW t \in Threads
    PROVE  /\ frames[t] \in Seq(Frame)
           /\ Len(frames[t]) \in Nat
           /\ DOMAIN frames[t] = 1..Len(frames[t])
           /\ frames[t] # <<>> => Len(frames[t]) \in DOMAIN frames[t] /\ Top(t) \in Frame
<1>1. frames[t] \in Seq(Frame)
  BY DEF TypeOK
<1> QED
  BY <1>1 DEF Top

\* A thread that does not hold evalLock is in no call that holds it.
LEMMA NotHeld ==
    ASSUME IInv, NEW t \in Threads, depth[t] = 0
    PROVE  \A i \in 1..Len(frames[t]) : ~HoldsEval(frames[t][i])
<1>1. Positions(frames[t], EvalFrames) = {}
  BY StackType, PositionsFinite DEF IInv, EvalInv
<1>2. \A i \in 1..Len(frames[t]) : frames[t][i] \in Frame
  BY StackType DEF IInv
<1> QED
  BY <1>1, <1>2, StackType DEF Positions, EvalFrames, IInv

LEMMA Held ==
    ASSUME IInv, NEW t \in Threads, depth[t] > 0
    PROVE  \E i \in 1..Len(frames[t]) : HoldsEval(frames[t][i])
<1>1. Positions(frames[t], EvalFrames) # {}
  BY StackType, PositionsFinite DEF IInv, EvalInv
<1> QED
  BY <1>1, StackType DEF Positions, EvalFrames, IInv

\* The other threads' counts are not touched by a step of one thread.
LEMMA CallPreserves ==
    ASSUME IInv, trapped = Nobody, NEW t \in Threads, NEW op \in Ops,
           NEW on \in Functions \union Customs \union {Nobody},
           op = "call" => on \in Functions, op = "custom" => on \in Customs,
           op = "materialize" => depth[t] = 0,
           MayCall(t), Push(t, op, on, "lock")
    PROVE  IInv'
<1> DEFINE e == [op |-> op, on |-> on, at |-> "lock"]
<1> USE ThreadsAssumption
<1>1. e \in Frame
  BY DEF Frame, Stages
<1>2. /\ frames' = [frames EXCEPT ![t] = Append(@, e)]
      /\ calls' = [calls EXCEPT ![t] = @ + 1]
      /\ UNCHANGED <<owner, count, depth, instance, custom, pending, trapped>>
  BY DEF Push, locks
<1>3. TypeOK'
  BY <1>1, <1>2 DEF IInv, TypeOK
<1>4. /\ frames[t] \in Seq(Frame)
      /\ IsPush(frames[t], frames'[t], e)
      /\ \A u \in Threads \ {t} : frames'[u] = frames[u]
  BY <1>1, <1>2, PushFacts, StackType DEF IInv, TypeOK
<1>5. ~HoldsEval(e) /\ ~HoldsInstance(e)
  BY DEF HoldsEval, HoldsInstance
<1>6. \A u \in Threads : /\ Count(frames'[u], EvalFrames) = Count(frames[u], EvalFrames)
                          /\ \A f \in Functions : Count(frames'[u], InstanceFrames(f)) = Count(frames[u], InstanceFrames(f))
  <2>1. One(e, EvalFrames) = 0 /\ \A f \in Functions : One(e, InstanceFrames(f)) = 0
    BY <1>5 DEF One, EvalFrames, InstanceFrames
  <2>2. \A X : Count(frames[t], X) \in Nat /\ Count(frames'[t], X) = Count(frames[t], X) + One(e, X)
    BY <1>4, CountPush, PositionsFinite
  <2> HIDE DEF e
  <2> QED
    BY <1>4, <2>1, <2>2
<1>7. StackInv'
  <2>1. GoodFrame(e)
    BY DEF GoodFrame
  <2>2. frames[t] = <<>> \/ (Top(t).at = "run" /\ Top(t).op \in {"transform", "call", "custom"})
    BY DEF MayCall, RunsClosure, In
  <2>3. Len(frames[t]) \in Nat /\ Len(frames'[t]) = Len(frames[t]) + 1
    BY <1>4, StackType DEF IsPush, IInv
  <2>4. GoodStack(frames[t])
    BY DEF IInv, StackInv
  <2>5. op = "materialize" => \A i \in 1..Len(frames[t]) : ~HoldsEval(frames[t][i])
    BY NotHeld
  <2>6. e.op = op /\ e.at = "lock"
    OBVIOUS
  <2> HIDE DEF e
  <2>7. GoodStack(frames'[t])
    <3>1. \A i \in 1..Len(frames'[t]) : GoodFrame(frames'[t][i])
      BY <1>4, <2>1, <2>3, <2>4 DEF IsPush, GoodStack
    <3>2. \A i \in 1..Len(frames'[t]) - 1 :
             frames'[t][i].at = "run" /\ frames'[t][i].op \in {"transform", "call", "custom"}
      BY <1>4, <2>2, <2>3, <2>4 DEF IsPush, GoodStack, Top
    <3>3. ASSUME NEW i \in 1..Len(frames'[t]), NEW j \in 1..i-1,
                 frames'[t][i].op = "materialize" \/ frames'[t][i].at \in {"schedule", "wait"}
          PROVE  ~HoldsEval(frames'[t][j])
      <4>1. CASE i = Len(frames'[t])
        BY <4>1, <3>3, <1>4, <2>3, <2>5, <2>6 DEF IsPush
      <4>2. CASE i # Len(frames'[t])
        <5>1. i \in 1..Len(frames[t]) /\ j \in 1..Len(frames[t])
          BY <4>2, <2>3
        <5>2. frames'[t][i] = frames[t][i] /\ frames'[t][j] = frames[t][j]
          BY <5>1, <1>4 DEF IsPush
        <5> QED
          BY <5>1, <5>2, <3>3, <2>4 DEF GoodStack
      <4> QED
        BY <4>1, <4>2
    <3>4. ASSUME NEW i \in 1..Len(frames'[t]), InPlace(frames'[t][i])
          PROVE  \E j \in 1..i-1 : HoldsEval(frames'[t][j])
      <4>1. i # Len(frames'[t])
        BY <3>4, <1>4, <2>3, <2>6 DEF IsPush, InPlace
      <4>2. i \in 1..Len(frames[t]) /\ frames'[t][i] = frames[t][i]
        BY <4>1, <1>4, <2>3 DEF IsPush
      <4>3. PICK j \in 1..i-1 : HoldsEval(frames[t][j])
        BY <4>2, <3>4, <2>4 DEF GoodStack
      <4>4. j \in 1..Len(frames[t])
        BY <4>2, <2>3
      <4>5. frames'[t][j] = frames[t][j]
        BY <4>4, <1>4 DEF IsPush
      <4> QED
        BY <4>3, <4>5
    <3> QED
      BY <3>1, <3>2, <3>3, <3>4 DEF GoodStack
  <2> QED
    BY <1>4, <2>7 DEF StackInv, IInv
<1>8. EvalInv' /\ InstanceInv'
  BY <1>2, <1>6 DEF IInv, EvalInv, InstanceInv
<1>9. EvalIsSynchronous'
  BY <1>2, <1>4 DEF IInv, EvalIsSynchronous, Waits, MayCall, RunsClosure, In, Top, TypeOK
<1>10. TrapInv'
  BY <1>2 DEF TrapInv
<1> QED
  BY <1>3, <1>7, <1>8, <1>9, <1>10 DEF IInv

LEMMA GotoStack ==
    ASSUME NEW s \in Seq(Frame), s # <<>>, GoodStack(s), NEW r, NEW e \in Frame,
           IsGoto(s, r, e), GoodFrame(e), e.op = s[Len(s)].op,
           e.at \in {"schedule", "wait"} => \A j \in 1..Len(s) - 1 : ~HoldsEval(s[j]),
           InPlace(e) => \E j \in 1..Len(s) - 1 : HoldsEval(s[j])
    PROVE  GoodStack(r)
<1>1. Len(s) \in Nat /\ Len(s) >= 1 /\ Len(r) = Len(s)
  BY DEF IsGoto
<1>2. \A i \in 1..Len(r) - 1 : i \in 1..Len(s) - 1 /\ r[i] = s[i]
  BY <1>1 DEF IsGoto
<1>3. r[Len(r)] = e
  BY <1>1 DEF IsGoto
<1>4. \A i \in 1..Len(r) : GoodFrame(r[i])
  BY <1>1, <1>2, <1>3 DEF GoodStack
<1>5. \A i \in 1..Len(r) - 1 : r[i].at = "run" /\ r[i].op \in {"transform", "call", "custom"}
  BY <1>1, <1>2 DEF GoodStack
<1>6. ASSUME NEW i \in 1..Len(r), NEW j \in 1..i-1,
             r[i].op = "materialize" \/ r[i].at \in {"schedule", "wait"}
      PROVE  ~HoldsEval(r[j])
  <2>1. j \in 1..Len(s) - 1 /\ r[j] = s[j]
    BY <1>1, <1>2
  <2>2. CASE i = Len(r)
    BY <2>1, <2>2, <1>6, <1>1, <1>3 DEF GoodStack
  <2>3. CASE i # Len(r)
    <3>1. i \in 1..Len(s) /\ r[i] = s[i]
      BY <2>3, <1>1, <1>2
    <3> QED
      BY <3>1, <2>1, <1>6 DEF GoodStack
  <2> QED
    BY <2>2, <2>3
<1>7. ASSUME NEW i \in 1..Len(r), InPlace(r[i])
      PROVE  \E j \in 1..i-1 : HoldsEval(r[j])
  <2>1. CASE i = Len(r)
    <3>1. PICK j \in 1..Len(s) - 1 : HoldsEval(s[j])
      BY <2>1, <1>3, <1>7
    <3> QED
      BY <2>1, <3>1, <1>1, <1>2
  <2>2. CASE i # Len(r)
    <3>1. i \in 1..Len(s) /\ r[i] = s[i]
      BY <2>2, <1>1, <1>2
    <3>2. PICK j \in 1..i-1 : HoldsEval(s[j])
      BY <3>1, <1>7 DEF GoodStack
    <3>3. r[j] = s[j]
      BY <2>2, <1>1, <1>2
    <3> QED
      BY <3>2, <3>3
  <2> QED
    BY <2>1, <2>2
<1> QED
  BY <1>4, <1>5, <1>6, <1>7 DEF GoodStack

LEMMA PopStack ==
    ASSUME NEW s \in Seq(Frame), s # <<>>, GoodStack(s), NEW r, IsPop(s, r)
    PROVE  GoodStack(r)
<1>1. Len(s) \in Nat /\ Len(s) >= 1 /\ Len(r) = Len(s) - 1
  BY DEF IsPop
<1>2. \A i \in 1..Len(r) : i \in 1..Len(s) /\ r[i] = s[i]
  BY <1>1 DEF IsPop
<1>3. \A i \in 1..Len(r) - 1 : i \in 1..Len(s) - 1
  BY <1>1
<1>4. \A i \in 1..Len(r) : \A j \in 1..i-1 : j \in 1..Len(r)
  BY <1>1
<1>5. \A i \in 1..Len(r) : GoodFrame(r[i])
  BY <1>2 DEF GoodStack
<1>6. \A i \in 1..Len(r) - 1 : r[i].at = "run" /\ r[i].op \in {"transform", "call", "custom"}
  BY <1>1, <1>2, <1>3 DEF GoodStack
<1>7. ASSUME NEW i \in 1..Len(r), NEW j \in 1..i-1,
             r[i].op = "materialize" \/ r[i].at \in {"schedule", "wait"}
      PROVE  ~HoldsEval(r[j])
  <2>1. r[i] = s[i] /\ i \in 1..Len(s) /\ r[j] = s[j]
    BY <1>2, <1>4
  <2> QED
    BY <2>1, <1>7 DEF GoodStack
<1>8. ASSUME NEW i \in 1..Len(r), InPlace(r[i])
      PROVE  \E j \in 1..i-1 : HoldsEval(r[j])
  <2>1. r[i] = s[i] /\ i \in 1..Len(s)
    BY <1>2
  <2>2. PICK j \in 1..i-1 : HoldsEval(s[j])
    BY <2>1, <1>8 DEF GoodStack
  <2>3. r[j] = s[j]
    BY <1>2, <1>4
  <2> QED
    BY <2>2, <2>3
<1> QED
  BY <1>5, <1>6, <1>7, <1>8 DEF GoodStack

\* The innermost call of t moves on.
LEMMA GotoStep ==
    ASSUME TypeOK, NEW t \in Threads, frames[t] # <<>>, NEW a \in Stages,
           frames' = Goto(t, a), NEW e, e = [Top(t) EXCEPT !.at = a]
    PROVE  /\ frames' \in [Threads -> Seq(Frame)]
           /\ \A u \in Threads \ {t} : frames'[u] = frames[u]
           /\ IsGoto(frames[t], frames'[t], e)
           /\ e \in Frame /\ e.op = Top(t).op /\ e.on = Top(t).on /\ e.at = a
<1>1. frames[t] \in Seq(Frame) /\ Top(t) \in Frame
  BY StackType
<1>2. /\ frames'[t] = [frames[t] EXCEPT ![Len(frames[t])].at = a]
      /\ \A u \in Threads \ {t} : frames'[u] = frames[u]
      /\ DOMAIN frames' = Threads
  BY DEF Goto, TypeOK
<1>3. IsGoto(frames[t], frames'[t], e)
  BY <1>1, <1>2, GotoFacts DEF Top
<1>4. frames'[t] \in Seq(Frame)
  BY <1>3 DEF IsGoto
<1>5. frames' \in [Threads -> Seq(Frame)]
  BY <1>2, <1>4 DEF TypeOK, Goto
<1>6. e \in Frame /\ e.op = Top(t).op /\ e.on = Top(t).on /\ e.at = a
  BY <1>1 DEF Frame
<1> QED
  BY <1>2, <1>3, <1>5, <1>6

LEMMA GotoCount ==
    ASSUME TypeOK, NEW t \in Threads, frames[t] # <<>>, NEW e,
           IsGoto(frames[t], frames'[t], e), NEW X
    PROVE  /\ Count(frames[t], X) \in Nat
           /\ Count(frames'[t], X) \in Nat
           /\ Count(frames'[t], X) + One(Top(t), X) = Count(frames[t], X) + One(e, X)
<1>1. frames[t] \in Seq(Frame) /\ frames'[t] \in Seq(Frame)
  BY StackType DEF IsGoto
<1>2. Count(frames'[t], X) + One(frames[t][Len(frames[t])], X) = Count(frames[t], X) + One(e, X)
  BY <1>1, CountGoto
<1> QED
  BY <1>1, <1>2, PositionsFinite DEF Top

\* The innermost call of t returns.
LEMMA ReturnStep ==
    ASSUME TypeOK, NEW t \in Threads, frames[t] # <<>>, frames' = Return(t)
    PROVE  /\ frames' \in [Threads -> Seq(Frame)]
           /\ \A u \in Threads \ {t} : frames'[u] = frames[u]
           /\ IsPop(frames[t], frames'[t])
<1>1. frames[t] \in Seq(Frame) /\ Top(t) \in Frame
  BY StackType
<1>2. /\ frames'[t] = SubSeq(frames[t], 1, Len(frames[t]) - 1)
      /\ \A u \in Threads \ {t} : frames'[u] = frames[u]
  BY DEF Return, TypeOK
<1>3. IsPop(frames[t], frames'[t])
  BY <1>1, <1>2, PopFacts
<1>4. frames'[t] \in Seq(Frame)
  BY <1>3 DEF IsPop
<1>5. frames' \in [Threads -> Seq(Frame)]
  BY <1>2, <1>4 DEF TypeOK, Return
<1> QED
  BY <1>2, <1>3, <1>5

LEMMA ReturnCount ==
    ASSUME TypeOK, NEW t \in Threads, frames[t] # <<>>, IsPop(frames[t], frames'[t]), NEW X
    PROVE  /\ Count(frames[t], X) \in Nat
           /\ Count(frames'[t], X) \in Nat
           /\ Count(frames[t], X) = Count(frames'[t], X) + One(Top(t), X)
<1>1. frames[t] \in Seq(Frame) /\ frames'[t] \in Seq(Frame)
  BY StackType DEF IsPop
<1> QED
  BY <1>1, CountPop, PositionsFinite DEF Top

\* A step of one thread leaves the others where they are.
LEMMA OthersStay ==
    ASSUME NEW u, frames'[u] = frames[u], NEW stage
    PROVE  In(u, stage)' = In(u, stage) /\ Waits(u)' = Waits(u)
BY DEF In, Top, Waits

-----------------------------------------------------------------------------
(* Each step keeps the invariant.                                          *)

LEMMA LockEvalPreserves ==
    ASSUME IInv, trapped = Nobody, NEW t \in Threads, LockEval(t)
    PROVE  IInv'
<1> USE ThreadsAssumption
<1> DEFINE a == AfterEvalLock(t)
<1>1. /\ frames[t] # <<>> /\ Top(t).at = "lock" /\ Top(t).op # "custom"
      /\ owner \in {Nobody, t} /\ owner' = t /\ count' = count + 1
      /\ depth' = [depth EXCEPT ![t] = @ + 1]
      /\ frames' = Goto(t, a)
      /\ UNCHANGED <<instance, custom, calls, pending, trapped>>
  BY DEF LockEval, In
<1>2. /\ a \in {"compute", "schedule", "inner", "run"}
      /\ a = "compute" => Top(t).op \in EvalOps \union {"synchronize"}
      /\ a = "compute" /\ Top(t).op \in EvalOps => depth[t] > 0
      /\ a = "schedule" => Top(t).op \in EvalOps /\ ~(depth[t] > 0)
      /\ a = "inner" => Top(t).op = "call" /\ Top(t).on \in Stateful
      /\ a = "run" => Top(t).op \notin EvalOps /\ ~(Top(t).op = "call" /\ Top(t).on \in Stateful)
  BY DEF AfterEvalLock, IsHeldByCurrentThread, EvalOps
<1>3. TypeOK /\ a \in Stages
  BY <1>2 DEF IInv, Stages
<1> HIDE DEF a
<1> PICK e : e = [Top(t) EXCEPT !.at = a]
  OBVIOUS
<1>4. /\ frames' \in [Threads -> Seq(Frame)]
      /\ \A u \in Threads \ {t} : frames'[u] = frames[u]
      /\ IsGoto(frames[t], frames'[t], e)
      /\ e \in Frame /\ e.op = Top(t).op /\ e.on = Top(t).on /\ e.at = a
  BY <1>1, <1>3, GotoStep
<1>5. Top(t) \in Frame /\ frames[t] \in Seq(Frame)
  BY <1>1, <1>3, StackType
<1>6. TypeOK'
  BY <1>1, <1>3, <1>4 DEF TypeOK
<1>7. GoodStack(frames[t]) /\ GoodFrame(Top(t))
  BY <1>1, <1>3, StackType DEF IInv, StackInv, GoodStack, Top
<1>8. StackInv'
  <2>1. GoodFrame(e)
    BY <1>1, <1>2, <1>4, <1>7 DEF GoodFrame
  <2>2. a = "schedule" => \A j \in 1..Len(frames[t]) - 1 : ~HoldsEval(frames[t][j])
    <3>1. a = "schedule" => depth[t] = 0
      BY <1>2, <1>3 DEF TypeOK
    <3> QED
      BY <3>1, <1>3, NotHeld, StackType
  <2>3. a # "wait"
    BY <1>2
  <2>i. InPlace(e) => \E j \in 1..Len(frames[t]) - 1 : HoldsEval(frames[t][j])
    <3> SUFFICES ASSUME InPlace(e) PROVE \E j \in 1..Len(frames[t]) - 1 : HoldsEval(frames[t][j])
      OBVIOUS
    <3>1. depth[t] > 0
      BY <1>2, <1>4 DEF InPlace
    <3>2. PICK j \in 1..Len(frames[t]) : HoldsEval(frames[t][j])
      BY <3>1, Held
    <3>3. j # Len(frames[t])
      BY <3>2, <1>1 DEF Top, HoldsEval
    <3> QED
      BY <3>2, <3>3, <1>5
  <2>4. GoodStack(frames'[t])
    BY <1>1, <1>4, <1>5, <1>7, <2>1, <2>2, <2>3, <2>i, GotoStack DEF Top
  <2> QED
    BY <1>4, <2>4 DEF StackInv, IInv
<1>9. EvalInv'
  <2>1. One(Top(t), EvalFrames) = 0
    BY <1>1 DEF One, EvalFrames, HoldsEval
  <2>2. One(e, EvalFrames) = 1
    BY <1>1, <1>2, <1>4 DEF One, EvalFrames, HoldsEval
  <2>3. Count(frames'[t], EvalFrames) = Count(frames[t], EvalFrames) + 1
    BY <1>1, <1>3, <1>4, <2>1, <2>2, GotoCount
  <2>4. depth'[t] = Count(frames'[t], EvalFrames) /\ depth'[t] = count'
    BY <2>3, <1>1, <1>3 DEF IInv, EvalInv, TypeOK
  <2>5. \A u \in Threads \ {t} : depth'[u] = Count(frames'[u], EvalFrames) /\ depth'[u] = 0
    BY <1>1, <1>4 DEF IInv, EvalInv, TypeOK
  <2>6. count' # 0
    BY <1>1, <1>3 DEF TypeOK
  <2> QED
    BY <1>1, <2>4, <2>5, <2>6 DEF EvalInv
<1>10. InstanceInv'
  <2>1. \A f \in Functions : One(Top(t), InstanceFrames(f)) = 0
    BY <1>1 DEF One, InstanceFrames, HoldsInstance
  <2>2. \A f \in Functions : One(e, InstanceFrames(f)) = 0
    BY <1>2, <1>4 DEF One, InstanceFrames, HoldsInstance
  <2>3. \A f \in Functions :
           Count(frames'[t], InstanceFrames(f)) = Count(frames[t], InstanceFrames(f))
    <3> TAKE f \in Functions
    <3> HIDE ThreadsAssumption
    <3>1. One(Top(t), InstanceFrames(f)) = 0 /\ One(e, InstanceFrames(f)) = 0
      BY <2>1, <2>2
    <3>2. frames[t] # <<>> /\ TypeOK /\ IsGoto(frames[t], frames'[t], e)
      BY <1>1, <1>3, <1>4
    <3> QED
      BY <3>1, <3>2, GotoCount
  <2>4. \A u \in Threads, f \in Functions :
           Count(frames'[u], InstanceFrames(f)) = Count(frames[u], InstanceFrames(f))
    BY <1>4, <2>3
  <2> QED
    BY <1>1, <2>4 DEF IInv, InstanceInv
<1>11. EvalIsSynchronous' /\ TrapInv'
  <2>1. t \notin pending
    BY <1>1 DEF IInv, EvalIsSynchronous, Waits, In
  <2>2. \A u \in pending : u \in Threads \ {t} /\ Waits(u)
    BY <1>3, <2>1 DEF IInv, EvalIsSynchronous, TypeOK
  <2>3. \A u \in pending : Waits(u)'
    BY <1>4, <2>2, OthersStay
  <2> QED
    BY <1>1, <2>3 DEF EvalIsSynchronous, TrapInv
<1> QED
  BY <1>6, <1>8, <1>9, <1>10, <1>11 DEF IInv

\* What does not depend on which lock a step takes.
LEMMA StackKept ==
    ASSUME IInv, NEW t \in Threads, frames[t] # <<>>,
           \A u \in Threads \ {t} : frames'[u] = frames[u],
           GoodStack(frames'[t])
    PROVE  StackInv'
BY DEF IInv, StackInv

LEMMA SynchronousKept ==
    ASSUME IInv, NEW t \in Threads, t \notin pending, pending' = pending,
           \A u \in Threads \ {t} : frames'[u] = frames[u]
    PROVE  EvalIsSynchronous'
<1>1. \A u \in pending : u \in Threads \ {t} /\ Waits(u)
  BY DEF IInv, EvalIsSynchronous, TypeOK
<1>2. \A u \in pending : Waits(u)'
  BY <1>1, OthersStay
<1> QED
  BY <1>2 DEF EvalIsSynchronous

LEMMA CountsKept ==
    ASSUME IInv, NEW t \in Threads,
           UNCHANGED <<owner, count, depth, instance>>,
           \A u \in Threads \ {t} : frames'[u] = frames[u],
           Count(frames'[t], EvalFrames) = Count(frames[t], EvalFrames),
           \A f \in Functions :
              Count(frames'[t], InstanceFrames(f)) = Count(frames[t], InstanceFrames(f))
    PROVE  EvalInv' /\ InstanceInv'
<1>1. \A u \in Threads : Count(frames'[u], EvalFrames) = Count(frames[u], EvalFrames)
  OBVIOUS
<1>2. \A u \in Threads, f \in Functions :
         Count(frames'[u], InstanceFrames(f)) = Count(frames[u], InstanceFrames(f))
  OBVIOUS
<1>3. EvalInv'
  BY <1>1 DEF IInv, EvalInv
<1>4. InstanceInv'
  BY <1>2 DEF IInv, InstanceInv
<1> QED
  BY <1>3, <1>4

LEMMA TopGood ==
    ASSUME IInv, NEW t \in Threads, frames[t] # <<>>
    PROVE  /\ TypeOK /\ frames[t] \in Seq(Frame) /\ Top(t) \in Frame
           /\ GoodStack(frames[t]) /\ GoodFrame(Top(t))
<1>1. TypeOK
  BY DEF IInv
<1> QED
  BY <1>1, StackType DEF IInv, StackInv, GoodStack, Top

\* A step that moves between two stages that hold evalLock alike, and hold
\* or leave the lock of the compiled function on top.
LEMMA InnerLockPreserves ==
    ASSUME IInv, trapped = Nobody, NEW t \in Threads, LockInstance(t) \/ UnlockInstance(t)
    PROVE  IInv'
<1> USE ThreadsAssumption
<1> DEFINE f == Top(t).on
           a == IF LockInstance(t) THEN "run" ELSE "unlock"
<1>1. /\ frames[t] # <<>> /\ f \in Functions /\ f \in Stateful /\ Top(t).op = "call"
      /\ TypeOK /\ frames[t] \in Seq(Frame) /\ Top(t) \in Frame
      /\ GoodStack(frames[t])
      /\ Top(t).at = IF LockInstance(t) THEN "inner" ELSE "run"
  BY TopGood DEF LockInstance, UnlockInstance, In, GoodFrame, HoldsInstance
<1>2. /\ frames' = Goto(t, a)
      /\ UNCHANGED <<owner, count, depth, custom, calls, pending, trapped>>
  BY <1>1 DEF LockInstance, UnlockInstance, In, locks
<1>3. a \in Stages
  BY DEF Stages
<1> PICK e : e = [Top(t) EXCEPT !.at = a]
  OBVIOUS
<1>4. /\ frames' \in [Threads -> Seq(Frame)]
      /\ \A u \in Threads \ {t} : frames'[u] = frames[u]
      /\ IsGoto(frames[t], frames'[t], e)
      /\ e \in Frame /\ e.op = Top(t).op /\ e.on = Top(t).on /\ e.at = a
  BY <1>1, <1>2, <1>3, GotoStep
<1>l. /\ LockInstance(t) => e.at = "run"
      /\ ~LockInstance(t) => e.at = "unlock"
      /\ e.at \notin {"schedule", "wait"} /\ ~InPlace(e)
  BY <1>4 DEF InPlace
<1>5. instance' = [instance EXCEPT ![f] =
                     IF LockInstance(t) THEN [owner |-> t, count |-> @.count + 1]
                     ELSE [owner |-> IF @.count = 1 THEN Nobody ELSE t, count |-> @.count - 1]]
  BY <1>1 DEF LockInstance, UnlockInstance, In
<1>6. \A X : Count(frames[t], X) \in Nat /\ Count(frames'[t], X) \in Nat
  BY <1>1, <1>4, GotoCount
<1>7. LockInstance(t) => instance[f].owner \in {Nobody, t}
  BY DEF LockInstance
<1>8. Count(frames'[t], InstanceFrames(f)) =
         IF LockInstance(t) THEN Count(frames[t], InstanceFrames(f)) + 1
         ELSE Count(frames[t], InstanceFrames(f)) - 1
  <2>1. One(Top(t), InstanceFrames(f)) = IF LockInstance(t) THEN 0 ELSE 1
    BY <1>1 DEF One, InstanceFrames, HoldsInstance
  <2>2. One(e, InstanceFrames(f)) = IF LockInstance(t) THEN 1 ELSE 0
    <3>1. e \in InstanceFrames(f) <=> e.at = "run"
      BY <1>1, <1>4 DEF InstanceFrames, HoldsInstance
    <3> QED
      BY <3>1, <1>l DEF One
  <2> QED
    BY <1>1, <1>4, <2>1, <2>2, GotoCount
<1>9. \A g \in Functions \ {f} : Count(frames'[t], InstanceFrames(g)) = Count(frames[t], InstanceFrames(g))
  <2> TAKE g \in Functions \ {f}
  <2>1. One(Top(t), InstanceFrames(g)) = 0 /\ One(e, InstanceFrames(g)) = 0
    BY <1>4 DEF One, InstanceFrames
  <2> QED
    BY <1>1, <1>4, <2>1, GotoCount
<1>10. Count(frames'[t], EvalFrames) = Count(frames[t], EvalFrames)
  <2>1. One(Top(t), EvalFrames) = 1 /\ One(e, EvalFrames) = 1
    BY <1>1, <1>4 DEF One, EvalFrames, HoldsEval
  <2> QED
    BY <1>1, <1>4, <2>1, GotoCount
<1>11. /\ instance[f].count \in Nat /\ instance[f].owner \in Threads \union {Nobody}
       /\ ~LockInstance(t) => instance[f].owner = t /\ instance[f].count >= 1
  <2>1. instance[f].count \in Nat /\ instance[f].owner \in Threads \union {Nobody}
    BY <1>1 DEF TypeOK
  <2>2. Count(frames[t], InstanceFrames(f)) =
           IF instance[f].owner = t THEN instance[f].count ELSE 0
    BY <1>1 DEF IInv, InstanceInv
  <2>3. ASSUME ~LockInstance(t)
        PROVE  Count(frames[t], InstanceFrames(f)) \in Nat /\ Count(frames[t], InstanceFrames(f)) # 0
    BY <2>3, <1>6, <1>8
  <2> HIDE DEF f
  <2> QED
    BY <2>1, <2>2, <2>3
<1>12. TypeOK'
  <2>1. instance' \in [Functions -> [owner : Threads \union {Nobody}, count : Nat]]
    <3>1. PICK n : n = IF LockInstance(t) THEN [owner |-> t, count |-> instance[f].count + 1]
                       ELSE [owner |-> IF instance[f].count = 1 THEN Nobody ELSE t,
                             count |-> instance[f].count - 1]
      OBVIOUS
    <3>2. n \in [owner : Threads \union {Nobody}, count : Nat]
      <4>1. CASE LockInstance(t)
        BY <4>1, <3>1, <1>11
      <4>2. CASE ~LockInstance(t)
        BY <4>2, <3>1, <1>11
      <4> QED
        BY <4>1, <4>2
    <3>3. instance' = [instance EXCEPT ![f] = n]
      BY <3>1, <1>1, <1>5 DEF TypeOK
    <3> QED
      BY <3>2, <3>3, <1>1 DEF TypeOK
  <2> QED
    BY <1>1, <1>2, <1>4, <2>1 DEF TypeOK
<1>13. StackInv'
  <2>1. GoodFrame(e)
    BY <1>1, <1>4 DEF GoodFrame, EvalOps
  <2>2. GoodStack(frames'[t])
    BY <1>1, <1>4, <1>l, <2>1, GotoStack DEF Top
  <2> QED
    BY <1>1, <1>4, <2>2, StackKept
<1>14. EvalInv'
  BY <1>2, <1>4, <1>10 DEF IInv, EvalInv
<1>15. InstanceInv'
  <2>1. ASSUME NEW g \in Functions \ {f}
        PROVE  /\ instance'[g] = instance[g]
               /\ \A u \in Threads : Count(frames'[u], InstanceFrames(g)) = Count(frames[u], InstanceFrames(g))
    BY <1>1, <1>4, <1>5, <1>9 DEF TypeOK
  <2>2. instance'[f] = IF LockInstance(t)
                       THEN [owner |-> t, count |-> instance[f].count + 1]
                       ELSE [owner |-> IF instance[f].count = 1 THEN Nobody ELSE t,
                             count |-> instance[f].count - 1]
    BY <1>1, <1>5 DEF TypeOK
  <2>3. \A u \in Threads : Count(frames[u], InstanceFrames(f)) =
           IF instance[f].owner = u THEN instance[f].count ELSE 0
    BY <1>1 DEF IInv, InstanceInv
  <2>4. instance[f].owner = Nobody <=> instance[f].count = 0
    BY <1>1 DEF IInv, InstanceInv
  <2>5. \A u \in Threads \ {t} : Count(frames'[u], InstanceFrames(f)) = Count(frames[u], InstanceFrames(f))
    BY <1>4
  <2>6. /\ instance'[f].owner = Nobody <=> instance'[f].count = 0
        /\ \A u \in Threads : Count(frames'[u], InstanceFrames(f)) =
              IF instance'[f].owner = u THEN instance'[f].count ELSE 0
    <3> HIDE DEF f
    <3>1. CASE LockInstance(t)
      <4>1. Count(frames[t], InstanceFrames(f)) = instance[f].count
        BY <3>1, <1>7, <2>3, <2>4
      <4>2. instance'[f].owner = t /\ instance'[f].count = instance[f].count + 1
        BY <3>1, <2>2
      <4>3. Count(frames'[t], InstanceFrames(f)) = instance[f].count + 1
        BY <3>1, <4>1, <1>8
      <4>4. \A u \in Threads \ {t} : Count(frames[u], InstanceFrames(f)) = 0
        BY <3>1, <1>7, <2>3
      <4>5. \A u \in Threads \ {t} : Count(frames'[u], InstanceFrames(f)) = 0
        BY <4>4, <2>5
      <4> QED
        BY <4>2, <4>3, <4>5, <1>11
    <3>2. CASE ~LockInstance(t)
      <4>1. Count(frames[t], InstanceFrames(f)) = instance[f].count
        BY <3>2, <1>11, <2>3
      <4>2. /\ instance'[f].owner = IF instance[f].count = 1 THEN Nobody ELSE t
            /\ instance'[f].count = instance[f].count - 1
        BY <3>2, <2>2
      <4>3. Count(frames'[t], InstanceFrames(f)) = instance[f].count - 1
        BY <3>2, <4>1, <1>8
      <4>4. \A u \in Threads \ {t} : Count(frames[u], InstanceFrames(f)) = 0
        BY <3>2, <1>11, <2>3
      <4>5. \A u \in Threads \ {t} : Count(frames'[u], InstanceFrames(f)) = 0
        BY <4>4, <2>5
      <4> QED
        BY <3>2, <4>2, <4>3, <4>5, <1>11
    <3> QED
      BY <3>1, <3>2
  <2> QED
    BY <2>1, <2>6 DEF IInv, InstanceInv
<1>16. EvalIsSynchronous' /\ TrapInv'
  <2>1. t \notin pending
    BY <1>1 DEF IInv, EvalIsSynchronous, Waits, In
  <2> QED
    BY <1>2, <1>4, <2>1, SynchronousKept DEF TrapInv
<1> QED
  BY <1>12, <1>13, <1>14, <1>15, <1>16 DEF IInv

LEMMA CustomLockPreserves ==
    ASSUME IInv, trapped = Nobody, NEW t \in Threads, LockCustom(t)
    PROVE  IInv'
<1>1. /\ frames[t] # <<>> /\ Top(t).op = "custom" /\ Top(t).on \in Customs /\ Top(t).at = "lock"
      /\ frames' = Goto(t, "run")
      /\ custom' = [custom EXCEPT ![Top(t).on] = t]
      /\ UNCHANGED <<owner, count, depth, instance, calls, pending, trapped>>
      /\ TypeOK /\ frames[t] \in Seq(Frame) /\ Top(t) \in Frame
      /\ GoodStack(frames[t])
  BY TopGood DEF LockCustom, In, GoodFrame, locks
<1> PICK e : e = [Top(t) EXCEPT !.at = "run"]
  OBVIOUS
<1>2. /\ frames' \in [Threads -> Seq(Frame)]
      /\ \A u \in Threads \ {t} : frames'[u] = frames[u]
      /\ IsGoto(frames[t], frames'[t], e)
      /\ e \in Frame /\ e.op = Top(t).op /\ e.on = Top(t).on /\ e.at = "run"
  BY <1>1, GotoStep DEF Stages
<1>3. TypeOK'
  BY <1>1, <1>2 DEF TypeOK
<1>4. StackInv'
  <2>1. GoodFrame(e) /\ ~InPlace(e)
    BY <1>1, <1>2 DEF GoodFrame, EvalOps, InPlace
  <2>2. GoodStack(frames'[t])
    BY <1>1, <1>2, <2>1, GotoStack DEF Top
  <2> QED
    BY <1>1, <1>2, <2>2, StackKept
<1>5. Count(frames'[t], EvalFrames) = Count(frames[t], EvalFrames)
  <2>1. One(Top(t), EvalFrames) = 0 /\ One(e, EvalFrames) = 0
    BY <1>1, <1>2 DEF One, EvalFrames, HoldsEval
  <2> QED
    BY <1>1, <1>2, <2>1, GotoCount
<1>6. \A f \in Functions : Count(frames'[t], InstanceFrames(f)) = Count(frames[t], InstanceFrames(f))
  <2> TAKE f \in Functions
  <2>1. One(Top(t), InstanceFrames(f)) = 0 /\ One(e, InstanceFrames(f)) = 0
    BY <1>1, <1>2 DEF One, InstanceFrames, HoldsInstance
  <2> QED
    BY <1>1, <1>2, <2>1, GotoCount
<1>7. EvalInv' /\ InstanceInv'
  BY <1>1, <1>2, <1>5, <1>6, CountsKept
<1>8. EvalIsSynchronous' /\ TrapInv'
  <2>1. t \notin pending
    BY <1>1 DEF IInv, EvalIsSynchronous, Waits, In
  <2> QED
    BY <1>1, <1>2, <2>1, SynchronousKept DEF TrapInv
<1> QED
  BY <1>3, <1>4, <1>7, <1>8 DEF IInv

\* A call that holds none of the locks counted returns.
LEMMA PlainReturnPreserves ==
    ASSUME IInv, trapped = Nobody, NEW t \in Threads, UnlockCustom(t) \/ ReturnFromWait(t)
    PROVE  IInv'
<1> USE ThreadsAssumption
<1>1. /\ frames[t] # <<>>
      /\ Top(t).op = "custom" \/ Top(t).at = "wait"
      /\ frames' = Return(t)
      /\ UNCHANGED <<owner, count, depth, instance, calls, pending, trapped>>
      /\ TypeOK /\ frames[t] \in Seq(Frame) /\ Top(t) \in Frame
      /\ GoodStack(frames[t]) /\ GoodFrame(Top(t))
      /\ Top(t).at = "wait" => t \notin pending
  BY TopGood DEF UnlockCustom, ReturnFromWait, In, locks
<1>2. /\ frames' \in [Threads -> Seq(Frame)]
      /\ \A u \in Threads \ {t} : frames'[u] = frames[u]
      /\ IsPop(frames[t], frames'[t])
  BY <1>1, ReturnStep
<1>3. TypeOK'
  <2>1. custom' \in [Customs -> Threads \union {Nobody}]
    BY <1>1 DEF UnlockCustom, ReturnFromWait, TypeOK
  <2> QED
    BY <1>1, <1>2, <2>1 DEF TypeOK
<1>4. StackInv'
  BY <1>1, <1>2, PopStack, StackKept
<1>5. Count(frames'[t], EvalFrames) = Count(frames[t], EvalFrames)
  <2>1. One(Top(t), EvalFrames) = 0
    BY <1>1 DEF One, EvalFrames, HoldsEval
  <2> QED
    BY <1>1, <1>2, <2>1, ReturnCount
<1>6. \A f \in Functions : Count(frames'[t], InstanceFrames(f)) = Count(frames[t], InstanceFrames(f))
  <2> TAKE f \in Functions
  <2>1. One(Top(t), InstanceFrames(f)) = 0
    BY <1>1 DEF One, InstanceFrames, HoldsInstance
  <2> QED
    BY <1>1, <1>2, <2>1, ReturnCount
<1>7. EvalInv' /\ InstanceInv'
  BY <1>1, <1>2, <1>5, <1>6, CountsKept
<1>8. EvalIsSynchronous' /\ TrapInv'
  <2>1. t \notin pending
    BY <1>1 DEF IInv, EvalIsSynchronous, Waits, In, GoodFrame
  <2> QED
    BY <1>1, <1>2, <2>1, SynchronousKept DEF TrapInv
<1> QED
  BY <1>3, <1>4, <1>7, <1>8 DEF IInv

\* evalLock is released: by the return of a call under it, or by an outermost
\* eval, which then waits or returns.
LEMMA UnlockEvalPreserves ==
    ASSUME IInv, trapped = Nobody, NEW t \in Threads, ReturnUnderLock(t) \/ Schedule(t)
    PROVE  IInv'
<1> USE ThreadsAssumption
<1>1. /\ frames[t] # <<>> /\ HoldsEval(Top(t)) /\ ~HoldsInstance(Top(t))
      /\ Top(t).at # "wait"
      /\ UnlockEval(t)
      /\ UNCHANGED <<instance, custom, calls, trapped>>
      /\ TypeOK /\ frames[t] \in Seq(Frame) /\ Top(t) \in Frame
      /\ GoodStack(frames[t]) /\ GoodFrame(Top(t))
  BY TopGood DEF ReturnUnderLock, Schedule, In, GoodFrame, HoldsEval, HoldsInstance, EvalOps
<1>2. \/ frames' = Return(t) /\ pending' = pending
      \/ Top(t).at = "schedule" /\ frames' = Goto(t, "wait") /\ pending' = pending \union {t}
  BY DEF ReturnUnderLock, Schedule, In
<1> PICK e : e = [Top(t) EXCEPT !.at = "wait"]
  OBVIOUS
<1>3. ASSUME frames' = Goto(t, "wait")
      PROVE  /\ frames' \in [Threads -> Seq(Frame)]
             /\ \A u \in Threads \ {t} : frames'[u] = frames[u]
             /\ IsGoto(frames[t], frames'[t], e)
             /\ e \in Frame /\ e.op = Top(t).op /\ e.on = Top(t).on /\ e.at = "wait"
  BY <1>1, <1>3, GotoStep DEF Stages
<1>4. ASSUME frames' = Return(t)
      PROVE  /\ frames' \in [Threads -> Seq(Frame)]
             /\ \A u \in Threads \ {t} : frames'[u] = frames[u]
             /\ IsPop(frames[t], frames'[t])
  BY <1>1, <1>4, ReturnStep
<1>5. /\ frames' \in [Threads -> Seq(Frame)]
      /\ \A u \in Threads \ {t} : frames'[u] = frames[u]
  BY <1>2, <1>3, <1>4
<1>6. GoodStack(frames'[t])
  <2>1. CASE frames' = Return(t)
    BY <2>1, <1>1, <1>4, PopStack
  <2>2. CASE Top(t).at = "schedule" /\ frames' = Goto(t, "wait")
    <3>1. GoodFrame(e) /\ ~InPlace(e)
      BY <2>2, <1>1, <1>3 DEF GoodFrame, EvalOps, InPlace
    <3>2. \A j \in 1..Len(frames[t]) - 1 : ~HoldsEval(frames[t][j])
      <4>1. Len(frames[t]) \in 1..Len(frames[t])
        BY <1>1
      <4>2. frames[t][Len(frames[t])].at = "schedule"
        BY <2>2 DEF Top
      <4> QED
        BY <4>1, <4>2, <1>1 DEF GoodStack
    <3> QED
      BY <2>2, <1>1, <1>3, <3>1, <3>2, GotoStack DEF Top
  <2> QED
    BY <1>2, <2>1, <2>2
<1>7. Count(frames[t], EvalFrames) \in Nat /\ Count(frames'[t], EvalFrames) = Count(frames[t], EvalFrames) - 1
      /\ Count(frames'[t], EvalFrames) \in Nat
  <2>1. One(Top(t), EvalFrames) = 1
    BY <1>1 DEF One, EvalFrames
  <2>2. CASE frames' = Return(t)
    BY <2>1, <2>2, <1>1, <1>4, ReturnCount
  <2>3. CASE frames' = Goto(t, "wait")
    <3>1. One(e, EvalFrames) = 0
      BY <2>3, <1>3 DEF One, EvalFrames, HoldsEval
    <3> QED
      BY <2>1, <2>3, <3>1, <1>1, <1>3, GotoCount
  <2> QED
    BY <1>2, <2>2, <2>3
<1>8. \A f \in Functions : Count(frames'[t], InstanceFrames(f)) = Count(frames[t], InstanceFrames(f))
  <2> TAKE f \in Functions
  <2>1. One(Top(t), InstanceFrames(f)) = 0
    BY <1>1 DEF One, InstanceFrames
  <2>2. CASE frames' = Return(t)
    BY <2>1, <2>2, <1>1, <1>4, ReturnCount
  <2>3. CASE frames' = Goto(t, "wait")
    <3>1. One(e, InstanceFrames(f)) = 0
      BY <2>3, <1>3 DEF One, InstanceFrames, HoldsInstance
    <3>2. TypeOK /\ frames[t] # <<>> /\ IsGoto(frames[t], frames'[t], e)
      BY <1>1, <1>3, <2>3
    <3> HIDE ThreadsAssumption
    <3>3. /\ Count(frames[t], InstanceFrames(f)) \in Nat
          /\ Count(frames'[t], InstanceFrames(f)) \in Nat
          /\ Count(frames'[t], InstanceFrames(f)) + One(Top(t), InstanceFrames(f))
               = Count(frames[t], InstanceFrames(f)) + One(e, InstanceFrames(f))
      BY <3>2, GotoCount
    <3> QED
      BY <2>1, <3>1, <3>3
  <2> QED
    BY <1>2, <2>2, <2>3
<1>9. owner = t /\ depth[t] = count /\ count >= 1 /\ count \in Nat
  BY <1>1, <1>7 DEF IInv, EvalInv, TypeOK
<1>10. /\ owner' = IF count = 1 THEN Nobody ELSE t
       /\ count' = count - 1
       /\ depth' = [depth EXCEPT ![t] = @ - 1]
  BY <1>1, <1>9 DEF UnlockEval
<1>11. TypeOK'
  <2>1. pending' \in SUBSET Threads
    BY <1>1, <1>2 DEF TypeOK
  <2> QED
    BY <1>1, <1>5, <1>9, <1>10, <2>1 DEF TypeOK
<1>12. StackInv'
  BY <1>1, <1>5, <1>6, StackKept
<1>13. EvalInv'
  <2>1. depth'[t] = count' /\ depth'[t] = Count(frames'[t], EvalFrames)
    BY <1>1, <1>7, <1>9, <1>10 DEF IInv, EvalInv, TypeOK
  <2>2. \A u \in Threads \ {t} : depth'[u] = 0 /\ depth'[u] = Count(frames'[u], EvalFrames)
    BY <1>1, <1>5, <1>9, <1>10 DEF IInv, EvalInv, TypeOK
  <2> QED
    BY <1>9, <1>10, <2>1, <2>2 DEF EvalInv
<1>14. InstanceInv'
  <2>1. \A u \in Threads, f \in Functions :
           Count(frames'[u], InstanceFrames(f)) = Count(frames[u], InstanceFrames(f))
    BY <1>5, <1>8
  <2> QED
    BY <1>1, <2>1 DEF IInv, InstanceInv
<1>15. EvalIsSynchronous'
  <2>p. t \notin pending
    <3>1. ReturnUnderLock(t) => t \notin pending
      BY DEF ReturnUnderLock
    <3>2. Schedule(t) => t \notin pending
      BY DEF Schedule, IInv, EvalIsSynchronous, Waits, In
    <3> QED
      BY <3>1, <3>2
  <2>1. \A u \in pending : u \in Threads \ {t} /\ Waits(u)
    BY <2>p DEF IInv, EvalIsSynchronous, TypeOK
  <2>2. \A u \in pending : Waits(u)'
    BY <1>5, <2>1, OthersStay
  <2>3. CASE frames' = Goto(t, "wait") /\ pending' = pending \union {t}
    <3>1. In(t, "wait")'
      <4>1. Len(frames[t]) >= 1 /\ Len(frames'[t]) = Len(frames[t]) /\ frames'[t] \in Seq(Frame)
        BY <2>3, <1>1, <1>3 DEF IsGoto
      <4>2. frames'[t] # <<>> /\ frames'[t][Len(frames'[t])] = e
        BY <4>1, <2>3, <1>3 DEF IsGoto
      <4> QED
        BY <4>2, <2>3, <1>3 DEF In, Top
    <3> QED
      BY <2>2, <2>3, <3>1 DEF EvalIsSynchronous, Waits
  <2> QED
    BY <1>2, <2>2, <2>3 DEF EvalIsSynchronous
<1>16. TrapInv'
  BY <1>1 DEF TrapInv
<1> QED
  BY <1>11, <1>12, <1>13, <1>14, <1>15, <1>16 DEF IInv

\* A computation in place starts to wait: evalLock stays held.
LEMMA WaitUnderLockPreserves ==
    ASSUME IInv, trapped = Nobody, NEW t \in Threads, WaitUnderLock(t)
    PROVE  IInv'
<1> USE ThreadsAssumption
<1>1. /\ frames[t] # <<>> /\ Top(t).at = "compute"
      /\ frames' = Goto(t, "blocked")
      /\ pending' = pending \union {t}
      /\ UNCHANGED <<owner, count, depth, instance, custom, calls, trapped>>
      /\ TypeOK /\ frames[t] \in Seq(Frame) /\ Top(t) \in Frame
      /\ GoodStack(frames[t]) /\ GoodFrame(Top(t))
  BY TopGood DEF WaitUnderLock, In, locks
<1> PICK e : e = [Top(t) EXCEPT !.at = "blocked"]
  OBVIOUS
<1>2. /\ frames' \in [Threads -> Seq(Frame)]
      /\ \A u \in Threads \ {t} : frames'[u] = frames[u]
      /\ IsGoto(frames[t], frames'[t], e)
      /\ e \in Frame /\ e.op = Top(t).op /\ e.on = Top(t).on /\ e.at = "blocked"
  BY <1>1, GotoStep DEF Stages
<1>3. TypeOK'
  BY <1>1, <1>2 DEF TypeOK
<1>4. StackInv'
  <2>1. GoodFrame(e)
    BY <1>1, <1>2 DEF GoodFrame
  <2>2. InPlace(e) => \E j \in 1..Len(frames[t]) - 1 : HoldsEval(frames[t][j])
    <3>1. InPlace(e) => InPlace(Top(t))
      BY <1>1, <1>2 DEF InPlace
    <3>2. Len(frames[t]) \in 1..Len(frames[t])
      BY <1>1
    <3> QED
      BY <3>1, <3>2, <1>1 DEF GoodStack, Top
  <2>3. GoodStack(frames'[t])
    BY <1>1, <1>2, <2>1, <2>2, GotoStack DEF Top
  <2> QED
    BY <1>1, <1>2, <2>3, StackKept
<1>5. Top(t).op # "custom" /\ Top(t).op # "call"
  BY <1>1 DEF GoodFrame, EvalOps
<1>6. Count(frames'[t], EvalFrames) = Count(frames[t], EvalFrames)
  <2>1. One(Top(t), EvalFrames) = 1 /\ One(e, EvalFrames) = 1
    BY <1>1, <1>2, <1>5 DEF One, EvalFrames, HoldsEval
  <2> QED
    BY <1>1, <1>2, <2>1, GotoCount
<1>7. \A f \in Functions : Count(frames'[t], InstanceFrames(f)) = Count(frames[t], InstanceFrames(f))
  <2> TAKE f \in Functions
  <2>1. One(Top(t), InstanceFrames(f)) = 0 /\ One(e, InstanceFrames(f)) = 0
    BY <1>2, <1>5 DEF One, InstanceFrames, HoldsInstance
  <2>2. frames[t] # <<>> /\ TypeOK /\ IsGoto(frames[t], frames'[t], e)
    BY <1>1, <1>2
  <2> HIDE ThreadsAssumption
  <2> QED
    BY <2>1, <2>2, GotoCount
<1>8. EvalInv' /\ InstanceInv'
  BY <1>1, <1>2, <1>6, <1>7, CountsKept
<1>9. EvalIsSynchronous'
  <2>1. \A u \in pending \ {t} : u \in Threads \ {t} /\ Waits(u)
    BY <1>1 DEF IInv, EvalIsSynchronous, TypeOK
  <2>2. \A u \in pending \ {t} : Waits(u)'
    BY <1>2, <2>1, OthersStay
  <2>3. In(t, "blocked")'
    <3>1. Len(frames[t]) >= 1 /\ Len(frames'[t]) = Len(frames[t]) /\ frames'[t] \in Seq(Frame)
      BY <1>1, <1>2 DEF IsGoto
    <3>2. frames'[t] # <<>> /\ frames'[t][Len(frames'[t])] = e
      BY <3>1, <1>2 DEF IsGoto
    <3> QED
      BY <3>2, <1>2 DEF In, Top
  <2> QED
    BY <1>1, <2>2, <2>3 DEF EvalIsSynchronous, Waits
<1>10. TrapInv'
  <2>1. trapped' = Nobody
    BY <1>1
  <2> QED
    BY <2>1 DEF TrapInv
<1> QED
  BY <1>3, <1>4, <1>8, <1>9, <1>10 DEF IInv

LEMMA DevicePreserves ==
    ASSUME IInv, trapped = Nobody, NEW t \in Threads, DeviceFinishes(t)
    PROVE  IInv'
<1>1. /\ UNCHANGED <<owner, count, depth, instance, custom, frames, calls, trapped>>
      /\ pending' = pending \ {t}
  BY DEF DeviceFinishes, locks
<1>2. TypeOK' /\ StackInv' /\ EvalInv' /\ InstanceInv' /\ TrapInv'
  BY <1>1 DEF IInv, TypeOK, StackInv, EvalInv, InstanceInv, TrapInv
<1>3. EvalIsSynchronous'
  BY <1>1 DEF IInv, EvalIsSynchronous, Waits, In, Top
<1> QED
  BY <1>2, <1>3 DEF IInv

LEMMA TrapPreserves ==
    ASSUME IInv, trapped = Nobody, NEW t \in Threads, MayCall(t), depth[t] > 0, trapped' = t,
           UNCHANGED <<locks, instance, custom, frames, calls, pending>>
    PROVE  IInv'
<1> USE ThreadsAssumption
<1>1. TypeOK' /\ StackInv' /\ EvalInv' /\ InstanceInv' /\ EvalIsSynchronous'
  BY DEF IInv, TypeOK, StackInv, EvalInv, InstanceInv, EvalIsSynchronous, Waits, In, Top, locks
<1>2. PICK i \in 1..Len(frames[t]) : HoldsEval(frames[t][i])
  BY Held
<1>3. frames[t] # <<>>
  BY <1>2
<1>4. RunsClosure(t) /\ GoodStack(frames[t]) /\ Len(frames[t]) \in Nat
  BY <1>3, TopGood, StackType DEF MayCall, IInv
<1>5. frames[t][i].op \in {"transform", "call"}
  <2>1. CASE i = Len(frames[t])
    BY <2>1, <1>2, <1>4 DEF RunsClosure, Top, HoldsEval
  <2>2. CASE i # Len(frames[t])
    BY <2>2, <1>2, <1>4 DEF GoodStack, HoldsEval
  <2> QED
    BY <2>1, <2>2
<1>6. TrapInv'
  BY <1>5, <1>2, StackType DEF TrapInv, IInv
<1> QED
  BY <1>1, <1>6 DEF IInv

LEMMA Inductive == IInv /\ [Next]_vars => IInv'
<1> SUFFICES ASSUME IInv, [Next]_vars PROVE IInv'
  OBVIOUS
<1> USE ThreadsAssumption
<1>1. CASE UNCHANGED vars
  BY <1>1 DEF vars, locks, IInv, TypeOK, StackInv, EvalInv, InstanceInv, EvalIsSynchronous,
     TrapInv, Waits, In, Top
<1>2. CASE Stopped
  BY <1>1, <1>2 DEF Stopped
<1>3. CASE Run
  <2>1. PICK t \in Threads : Call(t) \/ Step(t) \/ DeviceFinishes(t)
    BY <1>3 DEF Run
  <2>2. trapped = Nobody
    BY <1>3 DEF Run
  <2>3. CASE CallEval(t) \/ CallSynchronize(t) \/ CallNative(t) \/ CallTransform(t)
    BY <2>2, <2>3, CallPreserves
       DEF CallEval, CallSynchronize, CallNative, CallTransform, Enter, Ops, EvalOps
  <2>4. ASSUME NEW f \in Functions, CallCompiled(t, f) PROVE IInv'
    BY <2>2, <2>4, CallPreserves DEF CallCompiled, Enter, Ops
  <2>5. ASSUME NEW c \in Customs, CallCustom(t, c) PROVE IInv'
    BY <2>2, <2>5, CallPreserves DEF CallCustom, Enter, Ops
  <2>6. CASE Materialize(t)
    <3>1. depth[t] \in Nat
      BY DEF IInv, TypeOK
    <3>2. CASE depth[t] > 0
      BY <2>2, <2>6, <3>2, TrapPreserves DEF Materialize, IsHeldByCurrentThread
    <3>3. CASE depth[t] = 0
      BY <2>2, <2>6, <3>3, CallPreserves DEF Materialize, IsHeldByCurrentThread, Ops, EvalOps
    <3> QED
      BY <3>1, <3>2, <3>3
  <2>7. CASE Step(t)
    BY <2>2, <2>7, LockEvalPreserves, InnerLockPreserves, CustomLockPreserves,
       PlainReturnPreserves, WaitUnderLockPreserves, UnlockEvalPreserves DEF Step
  <2>8. CASE DeviceFinishes(t)
    BY <2>2, <2>8, DevicePreserves
  <2> QED
    BY <2>1, <2>3, <2>4, <2>5, <2>6, <2>7, <2>8 DEF Call
<1> QED
  BY <1>1, <1>2, <1>3 DEF Next

LEMMA Invariance == Spec => []IInv
BY InitIInv, Inductive, PTL DEF Spec

-----------------------------------------------------------------------------
(* The type invariant holds for any threads, functions and bounds.         *)
THEOREM TypeCorrect == Spec => []TypeOK
<1>1. IInv => TypeOK
  BY DEF IInv
<1> QED
  BY <1>1, Invariance, PTL

(* EvalLockOwnership.depth is at all times the number of withEvalLock      *)
(* bodies open on its thread, and agrees with the recursive lock.          *)
THEOREM OwnershipIsExact == Spec => []OwnershipTracksLock
<1>1. IInv => OwnershipTracksLock
  <2> SUFFICES ASSUME IInv, NEW t \in Threads
               PROVE  /\ depth[t] = Cardinality(Brackets(t))
                      /\ depth[t] = IF owner = t THEN count ELSE 0
    BY DEF OwnershipTracksLock
  <2>1. Positions(frames[t], EvalFrames) = Brackets(t)
    BY StackType DEF IInv, Positions, EvalFrames, Brackets
  <2> QED
    BY <2>1 DEF IInv, EvalInv, Count
<1> QED
  BY <1>1, Invariance, PTL

\* Whoever owns an instance lock is inside a call of the function.
LEMMA InstanceHolder ==
    ASSUME IInv, NEW f \in Functions, instance[f].owner # Nobody
    PROVE  /\ owner = instance[f].owner /\ owner \in Threads
           /\ \E i \in DOMAIN frames[owner] :
                 HoldsInstance(frames[owner][i]) /\ frames[owner][i].on = f
<1>1. PICK t \in Threads : t = instance[f].owner
  BY DEF IInv, TypeOK
<1>2. instance[f].count \in Nat /\ instance[f].count # 0
  BY DEF IInv, InstanceInv, TypeOK
<1>3. Count(frames[t], InstanceFrames(f)) # 0
  BY <1>1, <1>2 DEF IInv, InstanceInv
<1>4. frames[t] \in Seq(Frame) /\ DOMAIN frames[t] = 1..Len(frames[t])
  BY StackType DEF IInv
<1>5. PICK i \in DOMAIN frames[t] : frames[t][i] \in InstanceFrames(f)
  BY <1>3, <1>4, PositionsFinite DEF Positions
<1>6. HoldsInstance(frames[t][i]) /\ frames[t][i].on = f
  BY <1>5 DEF InstanceFrames
<1>7. depth[t] # 0
  <2>1. HoldsEval(frames[t][i])
    BY <1>6 DEF HoldsInstance, HoldsEval
  <2> QED
    BY <2>1, <1>4, NotHeld
<1>8. owner = t
  BY <1>7 DEF IInv, EvalInv
<1> QED
  BY <1>1, <1>6, <1>8

(* A thread that holds a compiled function's lock holds evalLock.          *)
THEOREM InstanceLockIsInner == Spec => []InstanceInsideEvalLock
<1>1. IInv => InstanceInsideEvalLock
  BY InstanceHolder DEF InstanceInsideEvalLock
<1> QED
  BY <1>1, Invariance, PTL

-----------------------------------------------------------------------------
(* The order of the locks, when no custom function evaluates.              *)

\* Thread u is in the closure of custom function c, and calls nothing.
RunsCustom(u, c) == In(u, "run") /\ Top(u).op = "custom" /\ Top(u).on = c

CustomInv == \A c \in Customs : custom[c] # Nobody => RunsCustom(custom[c], c)

\* A step of a thread that is not in a custom function.
LEMMA CustomKept ==
    ASSUME IInv, CustomInv, NEW t \in Threads, UNCHANGED custom,
           ~(In(t, "run") /\ Top(t).op = "custom"),
           \A u \in Threads \ {t} : frames'[u] = frames[u]
    PROVE  CustomInv'
<1> SUFFICES ASSUME NEW c \in Customs, custom'[c] # Nobody PROVE RunsCustom(custom[c], c)'
  BY DEF CustomInv, RunsCustom, In, Top
<1>1. RunsCustom(custom[c], c) /\ custom[c] \in Threads
  BY DEF CustomInv, IInv, TypeOK
<1>2. custom[c] # t
  BY <1>1 DEF RunsCustom
<1>3. frames'[custom[c]] = frames[custom[c]]
  BY <1>1, <1>2
<1> QED
  BY <1>1, <1>3 DEF RunsCustom, In, Top

LEMMA CallKeepsCustom ==
    ASSUME IInv, CustomInv, Evaluating = {}, NEW t \in Threads, Call(t)
    PROVE  CustomInv'
<1>1. MayCall(t) /\ UNCHANGED custom
  BY DEF Call, CallEval, CallSynchronize, CallNative, CallTransform, CallCompiled, CallCustom,
         Materialize, Enter, Push
<1>2. ~(In(t, "run") /\ Top(t).op = "custom")
  BY <1>1 DEF MayCall, RunsClosure, In
<1>3. \A u \in Threads \ {t} : frames'[u] = frames[u]
  BY DEF Call, CallEval, CallSynchronize, CallNative, CallTransform, CallCompiled, CallCustom,
         Materialize, Enter, Push, IInv, TypeOK
<1> QED
  BY <1>1, <1>2, <1>3, CustomKept

LEMMA StepKeepsCustom ==
    ASSUME IInv, CustomInv, NEW t \in Threads, Step(t)
    PROVE  CustomInv'
<1>1. CASE LockCustom(t)
  <2>1. PICK c \in Customs : c = Top(t).on
    BY <1>1, TopGood DEF LockCustom, In, GoodFrame
  <2>2. \A d \in Customs : custom[d] # t
    BY <1>1, ThreadsAssumption DEF LockCustom, In, CustomInv, RunsCustom
  <2>3. RunsCustom(t, c)'
    <3>1. frames[t] # <<>> /\ frames[t] \in Seq(Frame) /\ Top(t).op = "custom"
      BY <1>1 DEF LockCustom, In, IInv, TypeOK
    <3>2. PICK e : e = [Top(t) EXCEPT !.at = "run"]
      OBVIOUS
    <3>3. IsGoto(frames[t], frames'[t], e) /\ Top(t) \in Frame
      BY <1>1, <3>1, <3>2, GotoStep, TopGood DEF LockCustom, Stages
    <3>4. e.op = "custom" /\ e.on = c /\ e.at = "run"
      BY <2>1, <3>1, <3>2, <3>3 DEF Frame
    <3> QED
      BY <3>1, <3>3, <3>4 DEF IsGoto, RunsCustom, In, Top
  <2>4. custom' = [custom EXCEPT ![c] = t] /\ \A u \in Threads \ {t} : frames'[u] = frames[u]
    BY <1>1, <2>1 DEF LockCustom, Goto, IInv, TypeOK
  <2>5. ASSUME NEW d \in Customs, d # c, custom'[d] # Nobody PROVE RunsCustom(custom[d], d)'
    <3>1. custom'[d] = custom[d] /\ custom[d] \in Threads \ {t} /\ RunsCustom(custom[d], d)
      BY <2>2, <2>4, <2>5 DEF IInv, TypeOK, CustomInv
    <3>2. frames'[custom[d]] = frames[custom[d]]
      BY <2>4, <3>1
    <3> QED
      BY <3>1, <3>2 DEF RunsCustom, In, Top
  <2>6. custom'[c] = t
    BY <2>4 DEF IInv, TypeOK
  <2> QED
    BY <2>3, <2>5, <2>6 DEF CustomInv, RunsCustom, In, Top
<1>2. CASE UnlockCustom(t)
  <2>1. PICK c : c = Top(t).on
    OBVIOUS
  <2>2. custom' = [custom EXCEPT ![c] = Nobody] /\ \A u \in Threads \ {t} : frames'[u] = frames[u]
    BY <1>2, <2>1 DEF UnlockCustom, Return, IInv, TypeOK
  <2>3. ASSUME NEW d \in Customs, custom'[d] # Nobody PROVE RunsCustom(custom[d], d)'
    <3>1. d # c /\ custom'[d] = custom[d] /\ custom[d] \in Threads /\ RunsCustom(custom[d], d)
      BY <2>2, <2>3 DEF IInv, TypeOK, CustomInv
    <3>2. custom[d] # t
      BY <2>1, <3>1 DEF RunsCustom
    <3>3. frames'[custom[d]] = frames[custom[d]]
      BY <2>2, <3>1, <3>2
    <3> QED
      BY <3>1, <3>3 DEF RunsCustom, In, Top
  <2> QED
    BY <2>3 DEF CustomInv, RunsCustom, In, Top
<1>3. CASE LockEval(t) \/ LockInstance(t) \/ UnlockInstance(t) \/ WaitUnderLock(t)
           \/ ReturnUnderLock(t) \/ Schedule(t) \/ ReturnFromWait(t)
  <2>1. UNCHANGED custom
    BY <1>3 DEF LockEval, LockInstance, UnlockInstance, WaitUnderLock, ReturnUnderLock, Schedule,
                ReturnFromWait
  <2>2. ~(In(t, "run") /\ Top(t).op = "custom")
    BY <1>3 DEF LockEval, LockInstance, UnlockInstance, WaitUnderLock, ReturnUnderLock, Schedule,
                ReturnFromWait,
                HoldsInstance, In
  <2>3. \A u \in Threads \ {t} : frames'[u] = frames[u]
    BY <1>3 DEF LockEval, LockInstance, UnlockInstance, WaitUnderLock, ReturnUnderLock, Schedule,
                ReturnFromWait,
                Goto, Return, IInv, TypeOK
  <2> QED
    BY <2>1, <2>2, <2>3, CustomKept
<1> QED
  BY <1>1, <1>2, <1>3 DEF Step

LEMMA InductiveCustom ==
    ASSUME Evaluating = {}
    PROVE  IInv /\ CustomInv /\ [Next]_vars => CustomInv'
<1> SUFFICES ASSUME IInv, CustomInv, [Next]_vars PROVE CustomInv'
  OBVIOUS
<1>1. CASE UNCHANGED <<custom, frames>>
  BY <1>1 DEF CustomInv, RunsCustom, In, Top
<1>2. ASSUME NEW t \in Threads, Call(t) \/ Step(t) \/ DeviceFinishes(t) PROVE CustomInv'
  BY <1>1, <1>2, CallKeepsCustom, StepKeepsCustom DEF DeviceFinishes
<1> QED
  BY <1>1, <1>2 DEF Next, Run, Stopped, vars

(* If no custom function evaluates, the owner of evalLock never waits for  *)
(* a lock whose holder wants evalLock: no order of calls deadlocks.        *)
THEOREM NoInversion ==
    ASSUME Evaluating = {}
    PROVE  Spec => []EvalLockOutermost
<1>1. IInv /\ CustomInv => EvalLockOutermost
  <2> SUFFICES ASSUME IInv, CustomInv, NEW t \in Threads, NEW u \in Threads,
                      owner = t, t # u, WaitsInnerFor(t, u),
                      In(u, "lock"), Top(u).op # "custom"
               PROVE  FALSE
    BY DEF EvalLockOutermost
  <2> USE ThreadsAssumption
  <2>1. frames[t] # <<>> /\ GoodFrame(Top(t))
    BY TopGood DEF WaitsInnerFor, In
  <2>2. CASE In(t, "inner") /\ instance[Top(t).on].owner = u
    <3>1. Top(t).on \in Functions
      BY <2>1, <2>2 DEF In, GoodFrame
    <3> QED
      BY <2>2, <3>1, InstanceHolder
  <2>3. CASE In(t, "lock") /\ Top(t).op = "custom" /\ custom[Top(t).on] = u
    <3>1. Top(t).on \in Customs /\ u # Nobody
      BY <2>1, <2>3 DEF GoodFrame
    <3> QED
      BY <2>3, <3>1 DEF CustomInv, RunsCustom
  <2> QED
    BY <2>2, <2>3 DEF WaitsInnerFor
<1>2. Init => CustomInv
  BY DEF Init, CustomInv
<1>3. IInv /\ CustomInv /\ [Next]_vars => CustomInv'
  BY InductiveCustom
<1> QED
  BY <1>1, <1>2, <1>3, Invariance, PTL DEF Spec

(* An eval waits for the device under evalLock only inside a transform or  *)
(* a compiled call of its own thread, and then it has to.  Every other     *)
(* eval waits with neither evalLock nor a compiled function's lock, so a   *)
(* device that never answers it stops its own thread alone.                *)
THEOREM EvalWaitsOutsideTheLock == Spec => []WaitsWithoutLock
<1>1. IInv => WaitsWithoutLock
  <2> SUFFICES ASSUME IInv, NEW t \in Threads, Waits(t), Top(t).op \in EvalOps
               PROVE  IF Nested(t) THEN In(t, "blocked")
                      ELSE owner # t /\ \A f \in Functions : instance[f].owner # t
    BY DEF WaitsWithoutLock
  <2> USE ThreadsAssumption
  <2>1. /\ frames[t] # <<>> /\ GoodStack(frames[t])
        /\ Len(frames[t]) \in 1..Len(frames[t])
        /\ DOMAIN frames[t] = 1..Len(frames[t])
    BY TopGood DEF Waits, In
  <2>2. In(t, "blocked") => Nested(t)
    BY <2>1 DEF In, Top, GoodStack, InPlace, Nested
  <2>3. In(t, "wait") => ~Nested(t)
    BY <2>1 DEF In, Top, GoodStack, Nested
  <2>4. ASSUME In(t, "wait")
        PROVE  owner # t /\ \A f \in Functions : instance[f].owner # t
    <3>1. \A i \in 1..Len(frames[t]) : ~HoldsEval(frames[t][i])
      BY <2>1, <2>4 DEF In, GoodStack, HoldsEval, Top
    <3>2. Positions(frames[t], EvalFrames) = {}
      BY <2>1, <3>1 DEF Positions, EvalFrames
    <3>3. depth[t] = 0
      BY <3>2, StackType, PositionsFinite DEF IInv, EvalInv
    <3>4. owner # t
      BY <3>3 DEF IInv, EvalInv
    <3> QED
      BY <3>4, InstanceHolder
  <2> QED
    BY <2>2, <2>3, <2>4 DEF Waits
<1> QED
  BY <1>1, Invariance, PTL

(* materialize stops the process only inside a transform or a compiled     *)
(* function of its own thread, and its eval is never nested.               *)
THEOREM MaterializeIsOutermost == Spec => []MaterializeOutsideTransform
<1>1. IInv => MaterializeOutsideTransform
  BY StackType DEF IInv, StackInv, GoodStack, TrapInv, MaterializeOutsideTransform
<1> QED
  BY <1>1, Invariance, PTL

(* Neither eval nor synchronize returns before the work it waits for is    *)
(* computed.                                                               *)
THEOREM EvalWaits == Spec => []EvalIsSynchronous
<1>1. IInv => EvalIsSynchronous
  BY DEF IInv
<1> QED
  BY <1>1, Invariance, PTL
=============================================================================
