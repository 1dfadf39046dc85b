----------------------------- MODULE KernelsProofs ----------------------------
(***************************************************************************)
(* What TLAPS proves of the kernels' building blocks: of the atomic updates*)
(* for any element sizes, buffers, threads, operands and number of calls,  *)
(* of the scan for rows and threadgroups of any size, and of the sort, of a*)
(* block and of longer rows, for rows, threads and shares of any size.     *)
(***************************************************************************)
EXTENDS MCKernels, FiniteSetTheorems, WellFoundedInduction, TLAPS

-----------------------------------------------------------------------------
(* Atomic updates: where an element lies.                                  *)

LEMMA DivMod ==
    ASSUME NEW a \in Nat, NEW p \in Nat \ {0}
    PROVE  /\ a \div p \in Nat /\ a % p \in 0..p-1
           /\ a = p * (a \div p) + (a % p)
  BY SMT

LEMMA DivIsMonotone ==
    ASSUME NEW a \in Nat, NEW b \in Nat, NEW p \in Nat \ {0}, a <= b
    PROVE  a \div p <= b \div p
<1> DEFINE q == a \div p
           r == a % p
           s == b \div p
           u == b % p
<1>1. /\ q \in Nat /\ r \in 0..p-1 /\ a = p * q + r
      /\ s \in Nat /\ u \in 0..p-1 /\ b = p * s + u
  BY DivMod
<1> HIDE DEF q, r, s, u
<1>2. SUFFICES ASSUME q >= s + 1 PROVE FALSE
  BY <1>1 DEF q, s
<1>3. p * q >= p * (s + 1)
  BY <1>1, <1>2
<1>4. p * (s + 1) = p * s + p
  BY <1>1
<1> QED
  BY <1>1, <1>3, <1>4

LEMMA PackingType == type \in Types => type.packing \in Nat \ {0}
  BY AtomicsAssumption

(* Every element has its place in a word of the buffer, and another one    *)
(* than any other element.                                                 *)
LEMMA Places ==
    ASSUME type \in Types
    PROVE  /\ \A o \in Offsets : Word(o) \in Words /\ Elem(o) \in Elems
           /\ \A o, r \in Offsets : Word(o) = Word(r) /\ Elem(o) = Elem(r) => o = r
<1> DEFINE p == type.packing
<1>1. p \in Nat \ {0}
  BY PackingType
<1>2. Length \in Nat
  BY AtomicsAssumption
<1> HIDE DEF p
<1>3. ASSUME NEW o \in Offsets PROVE o \div p \in 0..(Length - 1) \div p /\ o % p \in 0..p-1
  <2>1. o \in Nat /\ Length - 1 \in Nat /\ o <= Length - 1
    BY <1>2 DEF Offsets
  <2>2. o \div p \in Nat /\ o % p \in 0..p-1 /\ (Length - 1) \div p \in Nat
    BY <1>1, <2>1, DivMod
  <2>3. o \div p <= (Length - 1) \div p
    BY <1>1, <2>1, DivIsMonotone
  <2> QED
    BY <2>2, <2>3
<1>4. ASSUME NEW o \in Offsets, NEW r \in Offsets, o \div p = r \div p, o % p = r % p
      PROVE  o = r
  <2>1. o \in Nat /\ r \in Nat
    BY <1>2 DEF Offsets
  <2>2. o = p * (o \div p) + (o % p) /\ r = p * (r \div p) + (r % p)
    BY <1>1, <2>1, DivMod
  <2> QED
    BY <1>4, <2>2
<1> QED
  BY <1>3, <1>4 DEF p, Word, Elem, Words, Elems

-----------------------------------------------------------------------------
(* What an operation makes of an element.                                  *)

LEMMA NumericType ==
    ASSUME NEW a, NEW b, NEW n \in Int
    PROVE  Numeric(a, b, n) \in Number \union {NaN}
           /\ (NaN \notin {a, b} => Numeric(a, b, n) \in Number)
<1>1. Width \in Nat \ {0}
  BY AtomicsAssumption
<1>2. n % Width \in Number
  BY <1>1 DEF Number
<1> QED
  BY <1>2 DEF Numeric

LEMMA ApplyType ==
    ASSUME NEW ty \in Types, NEW op \in OpsOf(ty), NEW a \in ValuesOf(ty), NEW b \in ValuesOf(ty)
    PROVE  Apply(op, a, b) \in ValuesOf(ty)
<1>1. NaN \notin Number /\ Width \in Nat \ {0} /\ ty.float \in BOOLEAN
  BY AtomicsAssumption
<1>2. CASE op \in {"store", "min", "max"}
  BY <1>2 DEF Apply
<1>3. CASE op \in {"and", "or"}
  BY <1>1, <1>3, BitsAssumption DEF Apply, OpsOf, ValuesOf
<1>4. CASE op \in {"add", "mul"}
  <2>1. a \in Number /\ b \in Number => a + b \in Int /\ a * b \in Int
    BY <1>1 DEF Number
  <2>2. CASE a \in Number /\ b \in Number
    BY <1>1, <1>4, <2>1, <2>2, NumericType DEF Apply, ValuesOf
  <2>3. CASE ~(a \in Number /\ b \in Number)
    <3>1. NaN \in {a, b} /\ ty.float
      BY <1>1, <2>3 DEF ValuesOf
    <3> QED
      BY <1>4, <3>1 DEF Apply, Numeric, ValuesOf
  <2> QED
    BY <2>2, <2>3
<1> QED
  BY <1>2, <1>3, <1>4 DEF OpsOf, Ops

(* When there is nothing to exchange, the element is what the operation    *)
(* would make of it.                                                       *)
LEMMA NothingToDo ==
    ASSUME type \in Types, NEW op \in OpsOf(type),
           NEW a \in ValuesOf(type), NEW b \in ValuesOf(type),
           ~Condition(op, a, b)
    PROVE  Apply(op, a, b) = b
<1>1. op \in {"min", "max"} \/ (op = "mul" /\ type.packing > 1 /\ b = 0)
  BY DEF Condition, OpsOf, Ops
<1>2. CASE op \in {"min", "max"}
  BY <1>2 DEF Condition, Apply
<1>3. CASE op = "mul" /\ type.packing > 1 /\ b = 0
  <2>1. ~type.float /\ NaN \notin Number /\ Width \in Nat \ {0}
    BY <1>3, AtomicsAssumption
  <2>2. a \in Number /\ NaN \notin {a, b} /\ a \in Int
    BY <2>1, <1>3 DEF ValuesOf, Number
  <2>3. (a * b) % Width = 0
    BY <1>3, <2>1, <2>2
  <2> QED
    BY <1>3, <2>2, <2>3 DEF Apply, Numeric
<1> QED
  BY <1>1, <1>2, <1>3

-----------------------------------------------------------------------------
(* Types.                                                                  *)

(* What a thread that is in a call works on.                               *)
LEMMA InCall ==
    ASSUME TypeOK, NEW t \in Threads, request[t] # Idle
    PROVE  LET r == request[t]
               word == memory[Word(r.offset)]
           IN
           /\ type \in Types /\ type.packing \in Nat \ {0}
           /\ r.op \in OpsOf(type) /\ r.val \in ValuesOf(type) /\ r.offset \in Offsets
           /\ Word(r.offset) \in Words /\ Elem(r.offset) \in Elems
           /\ word \in [Elems -> ValuesOf(type)]
           /\ word[Elem(r.offset)] \in ValuesOf(type)
           /\ expected[t] # Idle => expected[t] \in [Elems -> ValuesOf(type)]
<1>1. type \in Types /\ type.packing \in Nat \ {0}
  BY PackingType DEF TypeOK
<1>2. request[t] \in [op : OpsOf(type), val : Updates \intersect ValuesOf(type), offset : Offsets]
  BY DEF TypeOK
<1>3. Word(request[t].offset) \in Words /\ Elem(request[t].offset) \in Elems
  BY <1>1, <1>2, Places
<1> QED
  BY <1>1, <1>2, <1>3 DEF TypeOK

(* A changed word is a word.                                               *)
LEMMA HelperType ==
    ASSUME TypeOK, NEW t \in Threads, request[t] # Idle,
           NEW word \in [Elems -> ValuesOf(type)], NEW e \in Elems
    PROVE  /\ Helper(word, request[t].op, request[t].val, e) \in [Elems -> ValuesOf(type)]
           /\ \A d \in Elems : Helper(word, request[t].op, request[t].val, e)[d] =
                IF d = e THEN Apply(request[t].op, request[t].val, word[d]) ELSE word[d]
<1>1. Apply(request[t].op, request[t].val, word[e]) \in ValuesOf(type)
  BY InCall, ApplyType
<1> QED
  BY <1>1 DEF Helper

(* A native operation changes one element of the word too, and leaves the  *)
(* neighbours alone.                                                       *)
LEMMA FetchedWord ==
    ASSUME TypeOK, NEW t \in Threads, Fetch(t), NEW word \in [Elems -> ValuesOf(type)]
    PROVE  LET r == request[t]
               mask == Mask(r.op, r.val, Elem(r.offset))
               new == IF type.packing > 1
                        THEN [e \in Elems |-> Apply(r.op, mask[e], word[e])]
                        ELSE Helper(word, r.op, r.val, 0)
           IN
           /\ new \in [Elems -> ValuesOf(type)]
           /\ \A d \in Elems : new[d] =
                IF d = Elem(r.offset) THEN Apply(r.op, r.val, word[d]) ELSE word[d]
<1> DEFINE r == request[t]
           mask == Mask(r.op, r.val, Elem(r.offset))
<1>1. r # Idle /\ Native(r.op)
  BY DEF Fetch
<1>2. /\ type \in Types /\ type.packing \in Nat \ {0} /\ Elem(r.offset) \in Elems
      /\ r.op \in OpsOf(type) /\ r.val \in ValuesOf(type) /\ r.offset \in Offsets
  BY <1>1, InCall
<1>3. CASE type.packing > 1
  <2>1. r.op \in {"and", "or"} /\ ~type.float
    BY <1>1, <1>2, <1>3, AtomicsAssumption DEF Native
  <2>2. ASSUME NEW d \in Elems
        PROVE  /\ Apply(r.op, mask[d], word[d]) \in ValuesOf(type)
               /\ Apply(r.op, mask[d], word[d]) =
                    IF d = Elem(r.offset) THEN Apply(r.op, r.val, word[d]) ELSE word[d]
    <3>1. mask[d] = IF d = Elem(r.offset) THEN r.val ELSE IF r.op = "and" THEN Width - 1 ELSE 0
      BY DEF Mask
    <3>2. word[d] \in ValuesOf(type) /\ word[d] \in Number
      BY <2>1 DEF ValuesOf
    <3>3. CASE d = Elem(r.offset)
      BY <1>2, <3>1, <3>2, <3>3, ApplyType
    <3>4. CASE d # Elem(r.offset)
      BY <2>1, <3>1, <3>2, <3>4, BitsAssumption DEF Apply
    <3> QED
      BY <3>3, <3>4
  <2> QED
    BY <1>3, <2>2
<1>4. CASE ~(type.packing > 1)
  <2>1. type.packing = 1
    BY <1>2, <1>4
  <2>2. Elems = {0} /\ Elem(r.offset) = 0
    BY <1>2, <2>1 DEF Elems
  <2> QED
    BY <1>1, <1>4, <2>2, HelperType
<1> QED
  BY <1>3, <1>4

-----------------------------------------------------------------------------
(* Steps.                                                                  *)

(* A step that changes one element of a thread's word performs its call.   *)
LEMMA ChangesOneElement ==
    ASSUME TypeOK, NEW t \in Threads, request[t] # Idle, type' = type,
           NEW new \in [Elems -> ValuesOf(type)],
           memory' = [memory EXCEPT ![Word(request[t].offset)] = new],
           \A d \in Elems : new[d] =
              IF d = Elem(request[t].offset)
                THEN Apply(request[t].op, request[t].val, memory[Word(request[t].offset)][d])
                ELSE memory[Word(request[t].offset)][d]
    PROVE  /\ memory' \in [Words -> [Elems -> ValuesOf(type)]]
           /\ Cells' = [Cells EXCEPT ![request[t].offset] =
                          Apply(request[t].op, request[t].val, @)]
<1> DEFINE r == request[t]
           w == Word(r.offset)
<1>1. /\ type \in Types /\ r.offset \in Offsets /\ w \in Words /\ Elem(r.offset) \in Elems
  BY InCall
<1>2. memory \in [Words -> [Elems -> ValuesOf(type)]]
  BY DEF TypeOK
<1>3. memory' \in [Words -> [Elems -> ValuesOf(type)]]
  BY <1>1, <1>2
<1>4. ASSUME NEW o \in Offsets
      PROVE  memory'[Word(o)][Elem(o)] =
               IF o = r.offset THEN Apply(r.op, r.val, memory[Word(o)][Elem(o)])
                               ELSE memory[Word(o)][Elem(o)]
  <2>1. Word(o) \in Words /\ Elem(o) \in Elems
    BY <1>1, Places
  <2>2. CASE Word(o) # w
    BY <1>2, <2>1, <2>2
  <2>3. CASE Word(o) = w
    <3>1. memory'[Word(o)] = new
      BY <1>1, <1>2, <2>3
    <3>2. Elem(o) = Elem(r.offset) <=> o = r.offset
      BY <1>1, <2>3, Places
    <3> QED
      BY <2>1, <2>3, <3>1, <3>2
  <2> QED
    BY <2>2, <2>3
<1>5. Cells' = [o \in Offsets |-> memory'[Word(o)][Elem(o)]]
  BY DEF Cells, Word, Elem
<1> QED
  BY <1>1, <1>3, <1>4, <1>5 DEF Cells

(* What a step of a thread does: it performs its call, or it goes on with  *)
(* a word to expect.                                                       *)
Performs(t) ==
    LET r == request[t] IN
    /\ memory' \in [Words -> [Elems -> ValuesOf(type)]]
    /\ Cells' = [Cells EXCEPT ![r.offset] = Apply(r.op, r.val, @)]
    /\ Return(t)

GoesOn(t) ==
    /\ expected' = [expected EXCEPT ![t] = memory[Word(request[t].offset)]]
    /\ UNCHANGED <<memory, request>>

LEMMA MeetOutcome ==
    ASSUME TypeOK, NEW t \in Threads, request[t] # Idle, NEW again \in BOOLEAN,
           Meet(t, memory[Word(request[t].offset)], again), UNCHANGED <<type, memory>>,
           ~again => GiveUp(request[t].op, memory[Word(request[t].offset)])
    PROVE  Performs(t) \/ GoesOn(t)
<1> DEFINE r == request[t]
           word == memory[Word(r.offset)]
           b == word[Elem(r.offset)]
<1>1. /\ type \in Types /\ type.packing \in Nat \ {0} /\ r.op \in OpsOf(type)
      /\ r.val \in ValuesOf(type) /\ r.offset \in Offsets /\ b \in ValuesOf(type)
      /\ Word(r.offset) \in Words /\ Elem(r.offset) \in Elems
  BY InCall
<1>2. CASE again /\ Condition(r.op, r.val, b)
  BY <1>2 DEF Meet, GoesOn
<1>3. CASE ~(again /\ Condition(r.op, r.val, b))
  <2>1. Return(t)
    BY <1>3 DEF Meet
  <2>2. Apply(r.op, r.val, b) = b
    <3>1. CASE again
      BY <1>1, <1>3, <3>1, NothingToDo
    <3>2. CASE ~again
      <4>1. r.op = "mul" /\ type.float /\ word[0] = NaN
        BY <3>2 DEF GiveUp
      <4>2. type.packing = 1
        BY <1>1, <4>1, AtomicsAssumption
      <4>3. Elem(r.offset) = 0
        BY <1>1, <4>2 DEF Elems
      <4> QED
        BY <4>1, <4>3 DEF Apply, Numeric
    <3> QED
      BY <3>1, <3>2
  <2>3. Cells' = Cells
    BY DEF Cells, Word, Elem
  <2>4. Cells[r.offset] = b
    BY <1>1 DEF Cells
  <2>5. Cells' = [Cells EXCEPT ![r.offset] = Apply(r.op, r.val, @)]
    BY <1>1, <2>2, <2>3, <2>4 DEF Cells
  <2> QED
    BY <2>1, <2>5 DEF Performs, TypeOK
<1> QED
  BY <1>2, <1>3

LEMMA StepOutcome ==
    ASSUME TypeOK, NEW t \in Threads, Step(t)
    PROVE  /\ request[t] # Idle
           /\ UNCHANGED <<type, calls>>
           /\ Performs(t) \/ (GoesOn(t) /\ ~Native(request[t].op))
<1> DEFINE r == request[t]
           w == Word(r.offset)
<1>1. CASE Load(t)
  <2>1. request[t] # Idle /\ ~Native(r.op) /\ UNCHANGED <<type, memory, calls>>
    BY <1>1 DEF Load
  <2>2. Meet(t, memory[w], TRUE)
    BY <1>1 DEF Load
  <2> QED
    BY <2>1, <2>2, MeetOutcome
<1>2. CASE Fetch(t)
  <2> DEFINE mask == Mask(r.op, r.val, Elem(r.offset))
             new == IF type.packing > 1
                      THEN [e \in Elems |-> Apply(r.op, mask[e], memory[w][e])]
                      ELSE Helper(memory[w], r.op, r.val, 0)
  <2>1. request[t] # Idle /\ Return(t) /\ UNCHANGED <<type, calls>>
    BY <1>2 DEF Fetch
  <2>2. memory[w] \in [Elems -> ValuesOf(type)] /\ w \in Words
    BY <2>1, InCall
  <2>3. /\ new \in [Elems -> ValuesOf(type)]
        /\ \A d \in Elems : new[d] =
             IF d = Elem(r.offset) THEN Apply(r.op, r.val, memory[w][d]) ELSE memory[w][d]
    BY <1>2, <2>2, FetchedWord
  <2>4. memory' = [memory EXCEPT ![w] = new]
    BY <1>2, <2>2 DEF Fetch, TypeOK
  <2> HIDE DEF new
  <2> QED
    BY <2>1, <2>3, <2>4, ChangesOneElement DEF Performs
<1>3. CASE Exchange(t)
  <2> DEFINE new == Helper(expected[t], r.op, r.val, Elem(r.offset))
  <2>1. /\ request[t] # Idle /\ expected[t] # Idle /\ memory[w] = expected[t]
        /\ Return(t) /\ UNCHANGED <<type, calls>> /\ memory' = [memory EXCEPT ![w] = new]
    BY <1>3 DEF Exchange, Matches
  <2>2. expected[t] \in [Elems -> ValuesOf(type)] /\ Elem(r.offset) \in Elems
    BY <2>1, InCall
  <2>3. /\ new \in [Elems -> ValuesOf(type)]
        /\ \A d \in Elems : new[d] =
             IF d = Elem(r.offset) THEN Apply(r.op, r.val, memory[w][d]) ELSE memory[w][d]
    BY <2>1, <2>2, HelperType
  <2> HIDE DEF new
  <2> QED
    BY <2>1, <2>3, ChangesOneElement DEF Performs
<1>4. CASE FailExchange(t)
  <2>1. /\ request[t] # Idle /\ expected[t] # Idle /\ UNCHANGED <<type, memory, calls>>
        /\ Meet(t, memory[w], ~GiveUp(r.op, memory[w]))
    BY <1>4 DEF FailExchange
  <2>2. ~Native(r.op)
    BY <2>1 DEF TypeOK
  <2>3. (~GiveUp(r.op, memory[w])) \in BOOLEAN
    BY DEF GiveUp
  <2> QED
    BY <2>1, <2>2, <2>3, MeetOutcome
<1> QED
  BY <1>1, <1>2, <1>3, <1>4 DEF Step

-----------------------------------------------------------------------------
(* Theorems.                                                               *)

LEMMA InitType == Init => TypeOK
<1> SUFFICES ASSUME Init PROVE TypeOK
  OBVIOUS
<1>1. memory \in [Words -> [Elems -> ValuesOf(type)]]
  BY DEF Init
<1> QED
  BY <1>1, AtomicsAssumption DEF Init, TypeOK

LEMMA NextType == TypeOK /\ [Next]_vars => TypeOK'
<1> SUFFICES ASSUME TypeOK, [Next]_vars PROVE TypeOK'
  OBVIOUS
<1> DEFINE Call_ == [op : OpsOf(type), val : Updates \intersect ValuesOf(type), offset : Offsets]
           Word_ == [Elems -> ValuesOf(type)]
<1>0. ASSUME type' = type,
             memory' \in [Words -> Word_], request' \in [Threads -> Call_ \union {Idle}],
             expected' \in [Threads -> Word_ \union {Idle}], calls' \in [Threads -> 0..MaxCalls],
             \A t \in Threads : expected'[t] # Idle =>
                request'[t] # Idle /\ ~Native(request'[t].op)
      PROVE  TypeOK'
  BY <1>0 DEF TypeOK, Words, Elems, ValuesOf, OpsOf, Native
<1>1. ASSUME NEW t \in Threads, Call(t) PROVE TypeOK'
  <2>1. PICK r \in Requests :
          r.op \in OpsOf(type) /\ r.val \in ValuesOf(type)
          /\ request' = [request EXCEPT ![t] = r]
    BY <1>1 DEF Call
  <2>2. r \in Call_
    BY <2>1 DEF Requests
  <2>3. calls' \in [Threads -> 0..MaxCalls]
    BY <1>1, AtomicsAssumption DEF Call, TypeOK
  <2>4. request' \in [Threads -> Call_ \union {Idle}]
    BY <2>1, <2>2 DEF TypeOK
  <2>5. expected[t] = Idle
    BY <1>1 DEF Call, TypeOK
  <2>6. \A u \in Threads : expected'[u] # Idle =>
          request'[u] # Idle /\ ~Native(request'[u].op)
    BY <1>1, <2>1, <2>5 DEF Call, TypeOK
  <2> QED
    BY <1>0, <1>1, <2>3, <2>4, <2>6 DEF Call, TypeOK
<1>2. ASSUME NEW t \in Threads, Step(t) PROVE TypeOK'
  <2>1. /\ request[t] # Idle /\ UNCHANGED <<type, calls>>
        /\ Performs(t) \/ (GoesOn(t) /\ ~Native(request[t].op))
    BY <1>2, StepOutcome
  <2>2. CASE Performs(t)
    <3>1. /\ request' = [request EXCEPT ![t] = Idle] /\ expected' = [expected EXCEPT ![t] = Idle]
          /\ memory' \in [Words -> Word_]
      BY <2>2 DEF Performs, Return
    <3> QED
      BY <1>0, <2>1, <3>1 DEF TypeOK
  <2>3. CASE GoesOn(t) /\ ~Native(request[t].op)
    <3>1. memory[Word(request[t].offset)] \in [Elems -> ValuesOf(type)]
      BY <2>1, InCall
    <3> QED
      BY <1>0, <2>1, <2>3, <3>1 DEF GoesOn, TypeOK
  <2> QED
    BY <2>1, <2>2, <2>3
<1>3. CASE UNCHANGED vars
  BY <1>0, <1>3 DEF vars, TypeOK
<1> QED
  BY <1>1, <1>2, <1>3 DEF Next

(* The words of the buffer keep their size and hold elements of its type;  *)
(* a thread's loop expects a word only in a call the device cannot do.     *)
THEOREM TypeCorrect == Spec => []TypeOK
<1> QED
  BY InitType, NextType, PTL DEF Spec

(* The loops around a weak exchange of words (atomic.h:195) implement an   *)
(* array whose elements are updated one at a time, each once: no update of *)
(* a neighbour is lost, for elements of any size and any number of threads.*)
THEOREM Atomicity == Spec => UpdatesAreAtomic
<1>1. Init => Array!Init
  <2> SUFFICES ASSUME Init PROVE Array!Init
    OBVIOUS
  <2>1. TypeOK /\ type \in Types
    BY InitType DEF Init
  <2>2. ASSUME NEW o \in Offsets PROVE memory[Word(o)][Elem(o)] \in Number \union {NaN}
    BY <2>1, Places DEF TypeOK, ValuesOf
  <2> QED
    BY <2>2 DEF Init, Array!Init, Cells
<1>2. TypeOK /\ [Next]_vars => [Array!Next]_Array!vars
  <2> SUFFICES ASSUME TypeOK, [Next]_vars PROVE [Array!Next]_Array!vars
    OBVIOUS
  <2>1. ASSUME UNCHANGED <<type, memory>> PROVE Cells' = Cells
    BY <2>1 DEF Cells, Word, Elem
  <2>2. ASSUME NEW t \in Threads, Call(t) PROVE Array!Invoke(t)
    BY <2>1, <2>2 DEF Call, Array!Invoke
  <2>3. ASSUME NEW t \in Threads, Step(t) PROVE Array!Perform(t) \/ UNCHANGED Array!vars
    <3>1. /\ request[t] # Idle /\ UNCHANGED type
          /\ Performs(t) \/ GoesOn(t)
      BY <2>3, StepOutcome
    <3>2. CASE Performs(t)
      BY <3>1, <3>2 DEF Performs, Return, Array!Perform
    <3>3. CASE GoesOn(t)
      BY <2>1, <3>1, <3>3 DEF GoesOn, Array!vars
    <3> QED
      BY <3>1, <3>2, <3>3
  <2>4. CASE UNCHANGED vars
    BY <2>1, <2>4 DEF vars, Array!vars
  <2> QED
    BY <2>2, <2>3, <2>4 DEF Next, Array!Next
<1> QED
  BY <1>1, <1>2, TypeCorrect, PTL DEF Spec, UpdatesAreAtomic, Array!Spec

-----------------------------------------------------------------------------
(* The scan: induction up to a bound.                                      *)


-----------------------------------------------------------------------------
(* Numbers and sequences.                                                  *)

LEMMA LeastOf ==
    ASSUME NEW T, T \subseteq Nat, T # {}
    PROVE  \E m \in T : \A n \in T : m <= n
<1> DEFINE Smaller == {p \in Nat \X Nat : p[1] < p[2]}
<1>1. IsWellFoundedOn(OpToRel(<, Nat), Nat)
  BY NatLessThanWellFounded, Zenon
<1>2. OpToRel(<, Nat) = Smaller
  BY Zenon DEF OpToRel
<1>3. IsWellFoundedOn(Smaller, Nat)
  BY <1>1, <1>2, Zenon
<1> HIDE DEF Smaller
<1>4. PICK m \in T : \A n \in T : ~(<<n, m>> \in Smaller)
  BY <1>3, WFMin
<1>5. \A i, j \in Nat : <<i, j>> \in Smaller <=> i < j
  BY DEF Smaller
<1>6. ASSUME NEW n \in T PROVE m <= n
  <2>1. ~(n < m)
    BY <1>4, <1>5
  <2> QED
    BY <2>1
<1> QED
  BY <1>6

\* What holds of 0, and of n + 1 if of n < N, holds of all numbers to N.
LEMMA UpTo ==
    ASSUME NEW N \in Nat, NEW Holds, 0 \in Holds,
           \A n \in 0..N-1 : n \in Holds => n + 1 \in Holds
    PROVE  0..N \subseteq Holds
<1> SUFFICES ASSUME (0..N) \ Holds # {} PROVE FALSE
  OBVIOUS
<1>1. PICK m \in (0..N) \ Holds : \A n \in (0..N) \ Holds : m <= n
  <2>1. (0..N) \ Holds \subseteq Nat
    OBVIOUS
  <2> QED
    BY <2>1, LeastOf
<1>2. m # 0 /\ m \in Nat
  BY <1>1
<1>3. m - 1 \in 0..N-1 /\ m - 1 < m
  BY <1>1, <1>2
<1>4. m - 1 \in Holds
  BY <1>1, <1>3
<1> QED
  BY <1>1, <1>2, <1>3, <1>4

-----------------------------------------------------------------------------
(* The scan: sums.                                                         *)

\* G is the sum of f over every subset of 0..n-1.
Sums(G, f, n) ==
    /\ G \in [SUBSET (0..n-1) -> Int]
    /\ G[{}] = 0
    /\ \A S \in SUBSET (0..n-1) : \A x \in S : G[S] = f[x] + G[S \ {x}]

LEMMA SumsExist ==
    ASSUME NEW n \in Nat, NEW f, \A i \in 0..n-1 : f[i] \in Int
    PROVE  \E G : Sums(G, f, n)
<1> DEFINE Summable == {m \in 0..n : \E G : Sums(G, f, m)}
<1>1. 0 \in Summable
  <2>1. PICK G : G = [S \in SUBSET (0..0-1) |-> 0]
    OBVIOUS
  <2>2. 0..0-1 = {}
    OBVIOUS
  <2>3. Sums(G, f, 0)
    BY <2>1, <2>2 DEF Sums
  <2> QED
    BY <2>3
<1>2. ASSUME NEW m \in 0..n-1, m \in Summable PROVE m + 1 \in Summable
  <2>1. PICK G : Sums(G, f, m)
    BY <1>2
  <2>2. PICK D, E : D = 0..m-1 /\ E = 0..(m+1)-1 /\ E = D \union {m} /\ m \notin D /\ f[m] \in Int
    OBVIOUS
  <2>3. PICK H : H = [S \in SUBSET E |-> G[S \ {m}] + (IF m \in S THEN f[m] ELSE 0)]
    OBVIOUS
  <2>4. \A S \in SUBSET E : S \ {m} \in SUBSET D
    BY <2>2
  <2>5. /\ G \in [SUBSET D -> Int] /\ G[{}] = 0
        /\ \A S \in SUBSET D : \A x \in S : G[S] = f[x] + G[S \ {x}]
    BY <2>1, <2>2 DEF Sums
  <2>6. H \in [SUBSET E -> Int]
    BY <2>2, <2>3, <2>4, <2>5
  <2>7. H[{}] = 0
    <3>1. {} \ {m} = {} /\ {} \in SUBSET E
      OBVIOUS
    <3> QED
      BY <2>3, <2>5, <3>1
  <2>8. ASSUME NEW S \in SUBSET E, NEW x \in S PROVE H[S] = f[x] + H[S \ {x}]
    <3>1. S \ {x} \in SUBSET E
      OBVIOUS
    <3>2. CASE x = m
      <4>1. (S \ {x}) \ {m} = S \ {m} /\ m \notin S \ {x} /\ m \in S
        BY <3>2
      <4>2. H[S \ {x}] = G[S \ {m}] + 0
        BY <2>3, <3>1, <4>1
      <4>3. H[S] = G[S \ {m}] + f[m]
        BY <2>3, <4>1
      <4>4. G[S \ {m}] \in Int
        BY <2>4, <2>5
      <4> QED
        BY <2>2, <3>2, <4>2, <4>3, <4>4
    <3>3. CASE x # m
      <4>1. PICK T \in SUBSET D : T = S \ {m}
        BY <2>4
      <4>2. x \in T /\ (S \ {x}) \ {m} = T \ {x} /\ (m \in S <=> m \in S \ {x})
        BY <3>3, <4>1
      <4>3. G[T] = f[x] + G[T \ {x}]
        BY <2>5, <4>2
      <4>4. PICK rest \in Int : rest = IF m \in S THEN f[m] ELSE 0
        BY <2>2
      <4>5. H[S] = G[T] + rest
        BY <2>3, <4>1, <4>4
      <4>6. H[S \ {x}] = G[T \ {x}] + rest
        BY <2>3, <3>1, <4>2, <4>4
      <4>7. G[T \ {x}] \in Int /\ f[x] \in Int
        <5>1. T \ {x} \in SUBSET D /\ x \in 0..n-1
          BY <2>2, <4>1, <4>2
        <5> QED
          BY <2>5, <5>1
      <4> QED
        BY <4>3, <4>5, <4>6, <4>7
    <3> QED
      BY <3>2, <3>3
  <2>9. Sums(H, f, m + 1)
    BY <2>2, <2>6, <2>7, <2>8 DEF Sums
  <2> QED
    BY <2>9
<1>3. 0..n \subseteq Summable
  <2> HIDE DEF Summable
  <2> QED
    BY <1>1, <1>2, UpTo
<1> QED
  BY <1>3

Chosen(S) == CHOOSE x \in S : TRUE

\* What the recursion of MapThenSumSet computes.
LEMMA SumIs ==
    ASSUME NEW n \in Nat, NEW f, NEW G, Sums(G, f, n), NEW S \in SUBSET (0..n-1)
    PROVE  Scan!Sum(f, S) = G[S]
<1>1. Scan!Sum(f, S)
        = LET iter[s \in SUBSET S] ==
                IF s = {} THEN 0
                ELSE f[Chosen(s)] + iter[s \ {Chosen(s)}]
          IN iter[S]
  BY Zenon DEF Chosen, Scan!Sum, Scan!MapThenSumSet, Scan!MapThenFoldSet
<1>2. PICK sum : sum = [s \in SUBSET S |-> G[s]]
  OBVIOUS
<1>3. ASSUME NEW s \in SUBSET S
      PROVE  G[s] = IF s = {} THEN 0
                    ELSE f[Chosen(s)] + sum[s \ {Chosen(s)}]
  <2>1. CASE s = {}
    BY <2>1 DEF Sums
  <2>2. CASE s # {}
    <3>1. PICK x : x = Chosen(s) /\ x \in s
      BY <2>2 DEF Chosen
    <3>2. G[s] = f[x] + G[s \ {x}]
      BY <3>1 DEF Sums
    <3>3. sum[s \ {x}] = G[s \ {x}]
      BY <1>2
    <3> QED
      BY <2>2, <3>1, <3>2, <3>3
  <2> QED
    BY <2>1, <2>2
<1>4. sum = [s \in SUBSET S |->
               IF s = {} THEN 0
               ELSE f[Chosen(s)] + sum[s \ {Chosen(s)}]]
  BY <1>2, <1>3, Zenon
<1>5. PICK iter :
        /\ Scan!Sum(f, S) = iter[S]
        /\ iter = [s \in SUBSET S |->
                     IF s = {} THEN 0
                     ELSE f[Chosen(s)] + iter[s \ {Chosen(s)}]]
  BY <1>1, <1>4, Zenon
<1>6. \A s \in SUBSET S : IsFiniteSet(s) /\ Cardinality(s) \in Nat /\ (Cardinality(s) = 0 <=> s = {})
  <2>1. IsFiniteSet(0..n-1)
    BY FS_Interval
  <2>2. \A s \in SUBSET S : s \subseteq 0..n-1
    OBVIOUS
  <2> QED
    BY <2>1, <2>2, FS_Subset, FS_EmptySet, FS_CardinalityType
<1> DEFINE Right == {c \in 0..Cardinality(S) : \A s \in SUBSET S : Cardinality(s) = c => iter[s] = G[s]}
<1>7. 0 \in Right
  <2>1. ASSUME NEW s \in SUBSET S, Cardinality(s) = 0 PROVE iter[s] = G[s]
    <3>1. s = {}
      BY <1>6, <2>1
    <3>2. iter[s] = 0
      BY <1>5, <3>1, Zenon
    <3> QED
      BY <3>1, <3>2 DEF Sums
  <2> QED
    BY <1>6, <2>1
<1>8. ASSUME NEW c \in 0..Cardinality(S)-1, c \in Right PROVE c + 1 \in Right
  <2>1. ASSUME NEW s \in SUBSET S, Cardinality(s) = c + 1 PROVE iter[s] = G[s]
    <3>1. IsFiniteSet(s) /\ s # {}
      <4>1. Cardinality(s) # 0
        BY <1>6, <2>1
      <4> QED
        BY <1>6, <4>1
    <3>2. PICK x : x = Chosen(s) /\ x \in s
      BY <3>1 DEF Chosen
    <3>3. iter[s] = f[x] + iter[s \ {x}]
      BY <1>5, <3>1, <3>2, Zenon
    <3>4. Cardinality(s \ {x}) = c
      <4>1. Cardinality(s \ {x}) = Cardinality(s) - 1
        BY <3>1, <3>2, FS_RemoveElement
      <4> QED
        BY <1>6, <2>1, <4>1
    <3>5. iter[s \ {x}] = G[s \ {x}]
      BY <1>8, <3>4
    <3>6. G[s] = f[x] + G[s \ {x}]
      BY <3>2 DEF Sums
    <3> QED
      BY <3>3, <3>5, <3>6
  <2> QED
    BY <1>6, <2>1
<1>9. 0..Cardinality(S) \subseteq Right
  <2> HIDE DEF Right
  <2> QED
    BY <1>6, <1>7, <1>8, UpTo
<1>10. Cardinality(S) \in Right
  BY <1>6, <1>9
<1> QED
  BY <1>5, <1>10

\* Sum adds up the elements of each set of indices below n.
Adds(f, n) ==
    /\ \A S \in SUBSET (0..n-1) : Scan!Sum(f, S) \in Int
    /\ Scan!Sum(f, {}) = 0
    /\ \A S \in SUBSET (0..n-1) : \A x \in S : Scan!Sum(f, S) = f[x] + Scan!Sum(f, S \ {x})

LEMMA SumOf ==
    ASSUME NEW n \in Nat, NEW f, \A i \in 0..n-1 : f[i] \in Int
    PROVE  Adds(f, n)
<1>1. PICK G : Sums(G, f, n)
  BY SumsExist
<1>2. \A S \in SUBSET (0..n-1) : Scan!Sum(f, S) = G[S]
  BY <1>1, SumIs
<1> QED
  BY <1>1, <1>2 DEF Sums, Adds

\* A sum of differences.
Differences(f, t, n) ==
    /\ \A i \in 0..n : t[i] \in Int
    /\ \A i \in 0..n-1 : f[i] = t[i + 1] - t[i]
SumsUpTo(f, t, n) == \A k \in 0..n : Scan!Sum(f, 0..k-1) = t[k] - t[0]

LEMMA Telescopes ==
    ASSUME NEW n \in Nat, NEW f, NEW t, Differences(f, t, n)
    PROVE  SumsUpTo(f, t, n)
<1>1. (\A i \in 0..n : t[i] \in Int) /\ \A i \in 0..n-1 : f[i] = t[i + 1] - t[i]
  BY DEF Differences
<1>2. Adds(f, n)
  <2>1. \A i \in 0..n-1 : f[i] \in Int
    BY <1>1
  <2> QED
    BY <2>1, SumOf
<1> DEFINE Right == {k \in 0..n : Scan!Sum(f, 0..k-1) = t[k] - t[0]}
<1>3. 0 \in Right
  <2>1. 0..0-1 = {} /\ t[0] \in Int
    BY <1>1
  <2>2. Scan!Sum(f, {}) = 0
    BY <1>2 DEF Adds
  <2> QED
    BY <2>1, <2>2
<1>4. ASSUME NEW k \in 0..n-1, k \in Right PROVE k + 1 \in Right
  <2>1. PICK S \in SUBSET (0..n-1) : S = 0..(k+1)-1 /\ k \in S /\ S \ {k} = 0..k-1
    OBVIOUS
  <2>2. Scan!Sum(f, S) = f[k] + Scan!Sum(f, S \ {k})
    BY <1>2, <2>1 DEF Adds
  <2>3. PICK a \in Int, b \in Int, c \in Int : a = t[0] /\ b = t[k] /\ c = t[k + 1]
    BY <1>1
  <2>4. Scan!Sum(f, S) = (c - b) + (b - a)
    BY <1>1, <1>4, <2>1, <2>2, <2>3
  <2>5. Scan!Sum(f, 0..(k+1)-1) = t[k + 1] - t[0]
    BY <2>1, <2>3, <2>4
  <2>6. k + 1 \in 0..n
    OBVIOUS
  <2> QED
    BY <2>5, <2>6
<1>5. 0..n \subseteq Right
  <2> HIDE DEF Right
  <2> QED
    BY <1>3, <1>4, UpTo
<1> QED
  BY <1>5 DEF SumsUpTo

-----------------------------------------------------------------------------
(* The scan: where the shares of the lanes lie, in the scan's direction.   *)

\* A scan's arguments.
Args == [n : AxisSizes, groups : GroupCounts, inclusive : BOOLEAN, reverse : BOOLEAN]

Groups(job) == 0..job.groups-1

\* The first position of a lane's share in a round.
Share(job, r, g, l) == N_READS * (r * (job.groups * SimdSize) + g * SimdSize + l)

\* The elements of a round, and the rounds of a row.
PerRound(job) == N_READS * (job.groups * SimdSize)
Rounds(job) == (job.n + PerRound(job) - 1) \div PerRound(job)

LEMMA Sizes ==
    ASSUME NEW job \in Args
    PROVE  /\ SimdSize \in Nat \ {0} /\ N_READS \in Nat \ {0}
           /\ job.groups \in 1..SimdSize /\ job.n \in Nat
BY KernelsAssumption DEF Args

LEMMA OneMore ==
    ASSUME NEW a \in Nat, NEW b \in Nat
    PROVE  a * b \in Nat /\ a * (b + 1) = a * b + a
BY SMT

LEMMA Shares ==
    ASSUME NEW job \in Args, NEW r \in Nat, NEW g \in Nat, NEW l \in Nat
    PROVE  /\ Share(job, r, g, l) \in Nat
           /\ Share(job, r, g, l + 1) = Share(job, r, g, l) + N_READS
           /\ Share(job, r, g, SimdSize) = Share(job, r, g + 1, 0)
           /\ Share(job, r, job.groups, 0) = Share(job, r + 1, 0, 0)
           /\ Share(job, 0, 0, 0) = 0
<1>1. SimdSize \in Nat /\ N_READS \in Nat /\ job.groups \in Nat
  BY Sizes
<1>2. PICK a \in Nat : a = job.groups * SimdSize
  BY <1>1, OneMore
<1>3. PICK b \in Nat, c \in Nat : b = r * a /\ c = g * SimdSize
  BY <1>1, <1>2, OneMore
<1>4. (r + 1) * a = b + a /\ (g + 1) * SimdSize = c + SimdSize
  <2>1. a * (r + 1) = a * r + a /\ SimdSize * (g + 1) = SimdSize * g + SimdSize
    BY <1>1, <1>2, OneMore
  <2> QED
    BY <1>1, <1>2, <1>3, <2>1
<1>5. Share(job, r, g, l) \in Nat /\ Share(job, r, g, l + 1) = Share(job, r, g, l) + N_READS
  <2>1. PICK d \in Nat : d = b + c + l
    BY <1>3
  <2>2. Share(job, r, g, l) = N_READS * d /\ Share(job, r, g, l + 1) = N_READS * (d + 1)
    <3>1. b + c + (l + 1) = d + 1
      BY <2>1
    <3> QED
      BY <1>2, <1>3, <2>1, <3>1 DEF Share
  <2> QED
    BY <1>1, <2>2, OneMore
<1>6. Share(job, r, g, SimdSize) = Share(job, r, g + 1, 0)
  <2>1. b + c + SimdSize = b + (c + SimdSize) + 0
    BY <1>1, <1>3
  <2> QED
    BY <1>2, <1>3, <1>4, <2>1 DEF Share
<1>7. Share(job, r, job.groups, 0) = Share(job, r + 1, 0, 0)
  <2>1. 0 * SimdSize = 0
    BY <1>1
  <2>2. b + a + 0 = (b + a) + 0 + 0
    BY <1>2, <1>3
  <2> QED
    BY <1>2, <1>3, <1>4, <2>1, <2>2 DEF Share
<1>8. Share(job, 0, 0, 0) = 0
  <2>1. 0 * a = 0 /\ 0 * SimdSize = 0 /\ 0 + 0 + 0 = 0 /\ N_READS * 0 = 0
    BY <1>1, <1>2
  <2> QED
    BY <1>2, <2>1 DEF Share
<1> QED
  BY <1>5, <1>6, <1>7, <1>8

\* Every element of the row is in a lane's share of a round.
LEMMA SharesCover ==
    ASSUME NEW job \in Args, NEW m \in 0..job.n-1
    PROVE  \E r \in 0..Rounds(job)-1, g \in Groups(job), l \in Scan!Lanes, k \in Scan!Reads :
              m = Share(job, r, g, l) + k
<1>1. SimdSize \in Nat \ {0} /\ N_READS \in Nat \ {0} /\ job.groups \in Nat \ {0} /\ job.n \in Nat
  BY Sizes
<1>2. PICK a \in Nat \ {0} : a = (job.groups * SimdSize)
  <2>1. job.groups * SimdSize \in Nat \ {0}
    BY <1>1
  <2> QED
    BY <2>1
<1>3. PICK q \in Nat, k \in 0..N_READS-1 : m = N_READS * q + k
  <2>1. m \in Nat
    BY <1>1
  <2>2. m \div N_READS \in Nat /\ m % N_READS \in 0..N_READS-1
        /\ m = N_READS * (m \div N_READS) + (m % N_READS)
    BY <1>1, <2>1, DivMod
  <2> QED
    BY <2>2
<1>4. PICK r \in Nat, i \in 0..a-1 : q = a * r + i
  <2>1. q \div a \in Nat /\ q % a \in 0..a-1 /\ q = a * (q \div a) + (q % a)
    BY <1>2, DivMod
  <2> QED
    BY <2>1
<1>5. PICK g \in Nat, l \in 0..SimdSize-1 : i = SimdSize * g + l
  <2>1. i \in Nat
    BY <1>2
  <2>2. i \div SimdSize \in Nat /\ i % SimdSize \in 0..SimdSize-1
        /\ i = SimdSize * (i \div SimdSize) + (i % SimdSize)
    BY <1>1, <2>1, DivMod
  <2> QED
    BY <2>2
<1>6. g < job.groups
  <2> SUFFICES ASSUME job.groups <= g PROVE FALSE
    BY <1>1
  <2>1. SimdSize * job.groups <= SimdSize * g
    BY <1>1
  <2>2. a = SimdSize * job.groups
    BY <1>1, <1>2
  <2> QED
    BY <1>1, <1>2, <1>4, <1>5, <2>1, <2>2
<1>7. m = Share(job, r, g, l) + k
  <2>1. r * (job.groups * SimdSize) + g * SimdSize + l = q
    <3>1. r * a = a * r /\ g * SimdSize = SimdSize * g
      BY <1>1, <1>2
    <3>2. PICK b \in Nat, c \in Nat : b = a * r /\ c = SimdSize * g
      BY <1>1, <1>2, OneMore
    <3> QED
      BY <1>1, <1>2, <1>4, <1>5, <3>1, <3>2
  <2> QED
    BY <1>3, <2>1 DEF Share
<1>8. r < Rounds(job) /\ Rounds(job) \in Nat
  <2>1. PICK w \in Nat \ {0} : w = N_READS * a
    BY <1>1, <1>2
  <2>2. PICK top \in Nat : top = job.n + w - 1
    BY <1>1, <2>1
  <2>3. PICK n \in Nat, x \in 0..w-1 : n = Rounds(job) /\ top = w * n + x
    <3>1. top \div w \in Nat /\ top % w \in 0..w-1 /\ top = w * (top \div w) + (top % w)
      BY <2>1, <2>2, DivMod
    <3>2. Rounds(job) = top \div w
      BY <1>2, <2>1, <2>2 DEF Rounds, PerRound
    <3> QED
      BY <3>1, <3>2
  <2>4. job.n <= w * n
    <3>1. w * n \in Nat
      BY <2>1, OneMore
    <3> QED
      BY <1>1, <2>1, <2>2, <2>3, <3>1
  <2>5. w * r <= m
    <3>1. w * r = N_READS * (a * r)
      BY <1>1, <1>2, <2>1
    <3>2. a * r <= q /\ a * r \in Nat
      BY <1>2, <1>4, OneMore
    <3>3. N_READS * (a * r) <= N_READS * q
      BY <1>1, <3>2
    <3>4. N_READS * q \in Nat /\ N_READS * (a * r) \in Nat
      BY <1>1, <3>2, OneMore
    <3> QED
      BY <1>1, <1>3, <3>1, <3>3, <3>4
  <2>6. r < n
    <3> SUFFICES ASSUME n <= r PROVE FALSE
      BY <2>3
    <3>1. w * n <= w * r
      BY <2>1
    <3>2. w * n \in Nat /\ w * r \in Nat
      BY <2>1, OneMore
    <3> QED
      BY <1>1, <2>4, <2>5, <3>1, <3>2
  <2> QED
    BY <2>3, <2>6
<1>9. r \in 0..Rounds(job)-1 /\ g \in Groups(job) /\ l \in Scan!Lanes /\ k \in Scan!Reads
  BY <1>1, <1>5, <1>6, <1>8 DEF Groups, Scan!Lanes, Scan!Reads
<1> QED
  BY <1>7, <1>9

-----------------------------------------------------------------------------
(* The scan: the sums of the elements, in its direction.                   *)

\* A position counted from where the scan starts; and back.
Along(job, i) == IF job.reverse THEN job.n - 1 - i ELSE i

\* The sum of the first m elements; past the end, of all of them.
Before(job, m) == {i \in 0..job.n-1 : Along(job, i) < m}
Total(job, m) == Scan!Sum(input, Before(job, m))

\* An exclusive scan leaves an element's own value out.
Shift(job) == IF job.inclusive THEN 0 ELSE 1

\* The result at a position.
Right(job, p) == Total(job, Along(job, p) + 1 - Shift(job))

LEMMA TotalNext ==
    ASSUME NEW job \in Args
    PROVE  /\ \A m \in Nat : Total(job, m) \in Int
           /\ Total(job, 0) = 0
           /\ \A m \in Nat : Total(job, m + 1)
                 = IF m < job.n THEN Total(job, m) + input[Along(job, m)] ELSE Total(job, m)
<1>1. job.n \in Nat /\ \A i \in 0..job.n-1 : input[i] \in Int
  BY KernelsAssumption DEF Args
<1>2. Adds(input, job.n)
  <2>1. PICK n \in Nat : n = job.n
    BY <1>1
  <2>2. PICK f : f = input
    OBVIOUS
  <2>3. \A i \in 0..n-1 : f[i] \in Int
    BY <1>1, <2>1, <2>2
  <2>4. Adds(f, n)
    BY <2>3, SumOf
  <2> QED
    BY <2>1, <2>2, <2>4
<1>3. \A m \in Nat : Before(job, m) \in SUBSET (0..job.n-1)
  BY DEF Before
<1>4. Before(job, 0) = {}
  BY <1>1 DEF Before, Along
<1>5. ASSUME NEW m \in Nat
      PROVE  Total(job, m + 1)
                = IF m < job.n THEN Total(job, m) + input[Along(job, m)] ELSE Total(job, m)
  <2>1. CASE m < job.n
    <3>1. PICK x \in 0..job.n-1 : x = Along(job, m)
      BY <1>1, <2>1 DEF Along
    <3>2. x \in Before(job, m + 1) /\ Before(job, m + 1) \ {x} = Before(job, m)
      BY <1>1, <2>1, <3>1 DEF Before, Along
    <3>3. PICK S \in SUBSET (0..job.n-1), R \in SUBSET (0..job.n-1) :
             S = Before(job, m + 1) /\ R = Before(job, m)
      BY <1>3
    <3>4. Scan!Sum(input, S) = input[x] + Scan!Sum(input, R)
      BY <1>2, <3>2, <3>3 DEF Adds
    <3>5. Scan!Sum(input, R) \in Int /\ input[x] \in Int
      BY <1>1, <1>2 DEF Adds
    <3>6. Total(job, m + 1) = Scan!Sum(input, S) /\ Total(job, m) = Scan!Sum(input, R)
      BY <3>3 DEF Total
    <3> QED
      BY <2>1, <3>1, <3>4, <3>5, <3>6
  <2>2. CASE ~(m < job.n)
    <3>1. Before(job, m + 1) = Before(job, m)
      BY <1>1, <2>2 DEF Before, Along
    <3> QED
      BY <2>2, <3>1 DEF Total
  <2> QED
    BY <2>1, <2>2
<1> QED
  BY <1>2, <1>3, <1>4, <1>5 DEF Total, Adds

LEMMA RightIs ==
    ASSUME NEW job \in Args, axis_size = job.n,
           inclusive = job.inclusive, reverse = job.reverse, NEW p \in 0..job.n-1
    PROVE  Scan!Sum(input, Scan!Summed(p)) = Right(job, p)
<1>1. job.n \in Nat /\ job.inclusive \in BOOLEAN /\ job.reverse \in BOOLEAN
  BY Sizes DEF Args
<1>2. Scan!Summed(p) = Before(job, Along(job, p) + 1 - Shift(job))
  BY <1>1 DEF Scan!Summed, Before, Along, Shift
<1> QED
  BY <1>2 DEF Right, Total

LEMMA LoadIs ==
    ASSUME NEW job \in Args, axis_size = job.n, reverse = job.reverse,
           NEW offset \in Nat, NEW k \in Scan!Reads
    PROVE  Scan!Load(offset, k) = Total(job, (offset + k) + 1) - Total(job, offset + k)
<1>1. job.n \in Nat /\ job.reverse \in BOOLEAN /\ N_READS \in Nat \ {0}
  BY Sizes DEF Args
<1>2. k \in Nat /\ k < N_READS
  BY <1>1 DEF Scan!Reads
<1>3. PICK m \in Nat : m = offset + k
  BY <1>2
<1>4. /\ Total(job, m) \in Int
      /\ Total(job, m + 1) = IF m < job.n THEN Total(job, m) + input[Along(job, m)]
                             ELSE Total(job, m)
  BY TotalNext
<1>5. CASE m < job.n
  <2>1. Along(job, m) \in 0..job.n-1
    BY <1>1, <1>5 DEF Along
  <2>2. input[Along(job, m)] \in Int
    BY <2>1, KernelsAssumption DEF Args
  <2>3. Scan!Load(offset, k) = input[Along(job, m)]
    BY <1>3, <1>5, <2>1 DEF Scan!Load, Scan!Read, Along
  <2> QED
    BY <1>3, <1>4, <1>5, <2>2, <2>3
<1>6. CASE ~(m < job.n)
  <2>1. Scan!Load(offset, k) = 0
    BY <1>1, <1>2, <1>3, <1>6 DEF Scan!Load
  <2> QED
    BY <1>3, <1>4, <1>6, <2>1
<1> QED
  BY <1>5, <1>6

-----------------------------------------------------------------------------
(* The scan: its inductive invariant.  In round r simdgroup g has passed   *)
(* 5*r + s barriers when its next step is stage s of the round.            *)

ScanType(job) ==
    /\ axis_size = job.n /\ simd_groups = job.groups
    /\ inclusive = job.inclusive /\ reverse = job.reverse
    /\ pc \in [Scan!AllGroups -> Nat]
    /\ values \in [Scan!AllGroups -> [Scan!Lanes -> [Scan!Reads -> Int]]]
    /\ prev_thread \in [Scan!AllGroups -> [Scan!Lanes -> Int]]
    /\ prefix \in [Scan!AllGroups -> Int]
    /\ simdgroup_sums \in [Scan!AllGroups -> Int]

\* No simdgroup is more than a barrier ahead of another.
InStep(job) == \A g, h \in Groups(job) : pc[g] <= pc[h] + 1

\* What a simdgroup's lanes hold: its share, scanned; the sum of the rounds
\* before it; at the end, the results.
Loaded(job, g) ==
    \A r \in Nat :
       pc[g] \in 5*r+1..5*r+3 =>
          \A l \in Scan!Lanes :
             /\ prev_thread[g][l] = Total(job, Share(job, r, g, l)) - Total(job, Share(job, r, g, 0))
             /\ \A k \in Scan!Reads :
                   values[g][l][k] = Total(job, Share(job, r, g, l) + k + 1)
                                        - Total(job, Share(job, r, g, l))

Prefixed(job, g) ==
    \A r \in Nat :
       pc[g] \in 5*r+1..5*r+4 => prefix[g] = Total(job, Share(job, r, 0, 0))

Added(job, g) ==
    \A r \in Nat :
       pc[g] = 5*r+4 =>
          \A l \in Scan!Lanes : \A k \in Scan!Reads :
             values[g][l][k] = Total(job, Share(job, r, g, l) + k + 1)

\* What simdgroup_sums holds: the sum of each simdgroup's share, until group 0
\* replaces them by the sums of the groups before, until the last group
\* replaces the first of them by the sum of the rounds so far.
SumsLeft(job, g) ==
    \A r \in Nat :
       pc[g] \in 5*r+2..5*r+3 /\ pc[0] <= 5*r+2 =>
          simdgroup_sums[g] = Total(job, Share(job, r, g + 1, 0)) - Total(job, Share(job, r, g, 0))

SumsScanned(job, g) ==
    \A r \in Nat :
       pc[0] \in 5*r+3..5*r+4 /\ pc[job.groups - 1] <= 5*r+4 =>
          simdgroup_sums[g] = Total(job, Share(job, r, g, 0)) - Total(job, Share(job, r, 0, 0))

PrefixLeft(job) ==
    \A r \in Nat :
       pc[job.groups - 1] \in 5*r+5..5*r+6 /\ pc[0] <= 5*r+6 =>
          simdgroup_sums[0] = Total(job, Share(job, r + 1, 0, 0))

\* What has been written: only right results, and those of every share whose
\* simdgroup is past its Write.
OnlyRight(job) ==
    \A p \in Scan!Positions :
       IF p \in 0..job.n-1 THEN out[p] \in {Scan!Unwritten, Right(job, p)}
       ELSE out[p] = Scan!Unwritten

ShareWritten(job, g) ==
    \A r \in Nat : \A l \in Scan!Lanes : \A k \in Scan!Reads :
       LET q == Share(job, r, g, l) + k + Shift(job) IN
       pc[g] >= 5*r+4 /\ q < job.n => out[Along(job, q)] = Right(job, Along(job, q))

FirstWritten(job) ==
    ~job.inclusive /\ pc[0] >= 4 /\ job.n > 0 => out[Along(job, 0)] = Right(job, Along(job, 0))

ScanInv(job) ==
    /\ ScanType(job) /\ InStep(job)
    /\ \A g \in Groups(job) :
          /\ Loaded(job, g) /\ Prefixed(job, g) /\ Added(job, g)
          /\ SumsLeft(job, g) /\ SumsScanned(job, g)
          /\ ShareWritten(job, g)
    /\ PrefixLeft(job) /\ OnlyRight(job) /\ FirstWritten(job)

-----------------------------------------------------------------------------
(* The scan: every step preserves the invariant.                           *)

\* Simdgroup g takes stage s of round r: the others are at that stage or one
\* barrier further.
Moved(job, g, s, r) ==
    /\ g \in Groups(job) /\ r \in Nat /\ r = Scan!Round(g)
    /\ pc[g] = 5*r + s
    /\ \A h \in Groups(job) : pc[h] \in Nat /\ pc[h] \in 5*r+s..5*r+s+1
    /\ pc' \in [Scan!AllGroups -> Nat]
    /\ pc'[g] = 5*r + s + 1
    /\ \A h \in Groups(job) \ {g} : pc'[h] = pc[h]
    /\ axis_size' = job.n /\ simd_groups' = job.groups
    /\ inclusive' = job.inclusive /\ reverse' = job.reverse

LEMMA GroupsExist ==
    ASSUME NEW job \in Args
    PROVE  /\ Groups(job) \subseteq Scan!AllGroups /\ Groups(job) \subseteq Nat
           /\ 0 \in Groups(job) /\ job.groups - 1 \in Groups(job)
           /\ \A g \in Groups(job) : g <= job.groups - 1
BY Sizes DEF Groups, Scan!AllGroups

LEMMA Moves ==
    ASSUME NEW job \in Args, ScanInv(job), NEW g, NEW s \in 0..4, Scan!At(g, s)
    PROVE  /\ \E r \in Nat : Moved(job, g, s, r)
           /\ InStep(job)' /\ job.n > 0
<1>1. /\ pc \in [Scan!AllGroups -> Nat] /\ InStep(job)
      /\ axis_size = job.n /\ simd_groups = job.groups
      /\ inclusive = job.inclusive /\ reverse = job.reverse
  BY DEF ScanInv, ScanType
<1>2. /\ g \in Groups(job) /\ Scan!Stage(g) = s /\ Scan!Round(g) < Scan!Rounds
      /\ \A h \in Groups(job) : pc[h] >= pc[g]
      /\ pc' = [pc EXCEPT ![g] = @ + 1]
      /\ axis_size' = job.n /\ simd_groups' = job.groups
      /\ inclusive' = job.inclusive /\ reverse' = job.reverse
  BY <1>1 DEF Scan!At, Scan!Arrived, Scan!SimdGroups, Groups
<1>3. Groups(job) \subseteq Scan!AllGroups
  BY GroupsExist
<1>4. PICK r \in Nat : r = Scan!Round(g) /\ pc[g] = 5*r + s
  <2>1. pc[g] \in Nat
    BY <1>1, <1>2, <1>3
  <2>2. pc[g] \div 5 \in Nat /\ pc[g] = 5 * (pc[g] \div 5) + (pc[g] % 5)
    BY <2>1
  <2> QED
    BY <1>2, <2>2 DEF Scan!Round, Scan!Stage
<1>5. \A h \in Groups(job) : pc[h] \in Nat /\ pc[h] \in 5*r+s..5*r+s+1
  BY <1>1, <1>2, <1>3, <1>4 DEF InStep
<1>6. /\ pc' \in [Scan!AllGroups -> Nat] /\ pc'[g] = 5*r + s + 1
      /\ \A h \in Groups(job) \ {g} : pc'[h] = pc[h]
  BY <1>1, <1>2, <1>3, <1>4
<1>7. InStep(job)'
  <2> SUFFICES ASSUME NEW h \in Groups(job), NEW i \in Groups(job)
               PROVE  pc'[h] <= pc'[i] + 1
    BY DEF InStep, Groups
  <2> QED
    BY <1>2, <1>5, <1>6
<1>8. job.n > 0
  <2>1. job.n \in Nat
    BY Sizes
  <2> SUFFICES ASSUME job.n = 0 PROVE FALSE
    BY <2>1
  <2>2. PICK w \in Nat \ {0} : w = N_READS * (job.groups * SimdSize)
    <3>1. PICK b \in Nat \ {0} : b = job.groups * SimdSize
      BY Sizes
    <3>2. N_READS * b \in Nat \ {0}
      BY Sizes
    <3> QED
      BY <3>1, <3>2
  <2>3. Scan!Rounds = (w - 1) \div w
    BY <1>1, <2>2 DEF Scan!Rounds, Scan!LSize
  <2>4. (w - 1) \div w = 0
    <3>1. PICK q \in Nat, x \in 0..w-1 : q = (w - 1) \div w /\ w - 1 = w * q + x
      <4>1. PICK top \in Nat : top = w - 1
        BY <2>2
      <4>2. top \div w \in Nat /\ top % w \in 0..w-1 /\ top = w * (top \div w) + (top % w)
        BY <2>2, <4>1, DivMod
      <4> QED
        BY <4>1, <4>2
    <3>2. CASE q >= 1
      <4>1. w * q >= w
        BY <2>2, <3>1, <3>2
      <4> QED
        BY <2>2, <3>1, <4>1
    <3> QED
      BY <3>1, <3>2
  <2> QED
    BY <1>2, <1>4, <2>3, <2>4
<1> QED
  BY <1>2, <1>4, <1>5, <1>6, <1>7, <1>8 DEF Moved

\* A step that writes nothing to out keeps what is said of it: only Write
\* brings a simdgroup past its Write.
LEMMA OutStays ==
    ASSUME NEW job \in Args, ScanInv(job), NEW g, NEW s \in 0..4, NEW r,
           Moved(job, g, s, r), s # 3, UNCHANGED out
    PROVE  /\ \A h \in Groups(job) : ShareWritten(job, h)'
           /\ OnlyRight(job)' /\ FirstWritten(job)'
<1>1. ASSUME NEW h \in Groups(job) PROVE ShareWritten(job, h)'
  <2>1. ShareWritten(job, h)
    BY DEF ScanInv
  <2>2. \A q \in Nat : pc'[h] >= 5*q+4 => pc[h] >= 5*q+4
    BY DEF Moved
  <2> QED
    BY <2>1, <2>2 DEF ShareWritten
<1>2. OnlyRight(job)'
  <2>1. Scan!Positions' = Scan!Positions
    BY DEF ScanInv, ScanType, Moved, Scan!Positions, Scan!LSize
  <2> QED
    BY <2>1 DEF ScanInv, OnlyRight
<1>3. FirstWritten(job)'
  <2>1. pc'[0] >= 4 => pc[0] >= 4
    BY GroupsExist DEF Moved
  <2> QED
    BY <2>1 DEF ScanInv, FirstWritten
<1> QED
  BY <1>1, <1>2, <1>3

\* Loading and writing leave simdgroup_sums alone, and what is said of it.
LEMMA SumsStay ==
    ASSUME NEW job \in Args, ScanInv(job), NEW g, NEW s \in {0, 3}, NEW r,
           Moved(job, g, s, r), UNCHANGED simdgroup_sums
    PROVE  /\ \A h \in Groups(job) : SumsLeft(job, h)' /\ SumsScanned(job, h)'
           /\ PrefixLeft(job)'
<1>1. 0 \in Groups(job) /\ job.groups - 1 \in Groups(job)
  BY GroupsExist
<1>2. ASSUME NEW h \in Groups(job) PROVE SumsLeft(job, h)' /\ SumsScanned(job, h)'
  <2>1. SumsLeft(job, h) /\ SumsScanned(job, h)
    BY DEF ScanInv
  <2>2. \A q \in Nat : pc'[h] \in 5*q+2..5*q+3 /\ pc'[0] <= 5*q+2
                         => pc[h] \in 5*q+2..5*q+3 /\ pc[0] <= 5*q+2
    BY <1>1 DEF Moved
  <2>3. \A q \in Nat : pc'[0] \in 5*q+3..5*q+4 /\ pc'[job.groups - 1] <= 5*q+4
                         => pc[0] \in 5*q+3..5*q+4 /\ pc[job.groups - 1] <= 5*q+4
    BY <1>1 DEF Moved
  <2>4. SumsLeft(job, h)'
    BY <2>1, <2>2 DEF SumsLeft
  <2>5. SumsScanned(job, h)'
    BY <2>1, <2>3 DEF SumsScanned
  <2> QED
    BY <2>4, <2>5
<1>3. PrefixLeft(job)'
  <2>1. PrefixLeft(job)
    BY DEF ScanInv
  <2>2. \A q \in Nat : pc'[job.groups - 1] \in 5*q+5..5*q+6 /\ pc'[0] <= 5*q+6
                         => pc[job.groups - 1] \in 5*q+5..5*q+6 /\ pc[0] <= 5*q+6
    BY <1>1 DEF Moved
  <2> QED
    BY <2>1, <2>2 DEF PrefixLeft
<1> QED
  BY <1>2, <1>3

\* Simdgroup g's share as it has loaded and scanned it.
LEMMA LoadAndScanKeeps ==
    ASSUME NEW job \in Args, ScanInv(job), NEW g, Scan!LoadAndScan(g)
    PROVE  ScanInv(job)'
<1>1. PICK r \in Nat : Moved(job, g, 0, r)
  BY Moves DEF Scan!LoadAndScan
<1>2. InStep(job)'
  BY Moves DEF Scan!LoadAndScan
<1>3. /\ SimdSize \in Nat \ {0} /\ N_READS \in Nat \ {0} /\ job.groups \in 1..SimdSize
      /\ Groups(job) \subseteq Scan!AllGroups /\ Groups(job) \subseteq Nat
      /\ g \in Groups(job) /\ r = Scan!Round(g) /\ r \in Nat
  BY <1>1, Sizes, GroupsExist DEF Moved
<1>4. ScanType(job) /\ UNCHANGED <<simdgroup_sums, out>>
  BY DEF ScanInv, Scan!LoadAndScan
<1> DEFINE
      loaded == [l \in Scan!Lanes |-> [k \in Scan!Reads |-> Scan!Load(Scan!Offset(g, l), k)]]
      scanned == [l \in Scan!Lanes |-> [k \in Scan!Reads |-> Scan!Sum(loaded[l], 0..k)]]
      sums == [l \in Scan!Lanes |-> scanned[l][N_READS - 1]]
<1>5. /\ values' = [values EXCEPT ![g] = scanned]
      /\ prev_thread' = [prev_thread EXCEPT ![g] =
                            [l \in Scan!Lanes |-> Scan!Sum(sums, 0..l-1)]]
  BY DEF Scan!LoadAndScan
<1>6. /\ loaded = [l \in Scan!Lanes |->
                      [k \in Scan!Reads |-> Scan!Load(Scan!Offset(g, l), k)]]
       /\ scanned = [l \in Scan!Lanes |->
                       [k \in Scan!Reads |-> Scan!Sum(loaded[l], 0..k)]]
       /\ sums = [l \in Scan!Lanes |-> scanned[l][N_READS - 1]]
  OBVIOUS
<1> HIDE DEF loaded, scanned, sums
<1>7. \A l \in Nat : Share(job, r, g, l) \in Nat
  BY <1>3, Shares
<1>8. \A l \in Scan!Lanes : l \in Nat
  BY DEF Scan!Lanes
<1>9. ASSUME NEW l \in Scan!Lanes
      PROVE  \A k \in Scan!Reads :
                scanned[l][k] = Total(job, Share(job, r, g, l) + k + 1)
                                   - Total(job, Share(job, r, g, l))
  <2>1. PICK offset \in Nat : offset = Share(job, r, g, l) /\ offset = Scan!Offset(g, l)
    <3>1. l \in Nat /\ g \in Nat
      BY <1>3 DEF Scan!Lanes
    <3>2. Share(job, r, g, l) \in Nat
      BY <1>3, <3>1, Shares
    <3>3. Share(job, r, g, l) = Scan!Offset(g, l)
      BY <1>3, <1>4 DEF ScanType, Share, Scan!Offset, Scan!LSize
    <3> QED
      BY <3>2, <3>3
  <2>2. PICK f : f = loaded[l]
    OBVIOUS
  <2>3. PICK t : t = [i \in 0..N_READS |-> Total(job, offset + i)]
    OBVIOUS
  <2>4. \A i \in 0..N_READS : t[i] \in Int
    BY <1>3, <2>3, TotalNext
  <2>5. \A i \in 0..N_READS-1 : f[i] = t[i + 1] - t[i]
    <3> TAKE i \in 0..N_READS-1
    <3>1. i \in Scan!Reads /\ i \in 0..N_READS /\ i + 1 \in 0..N_READS
      BY <1>3 DEF Scan!Reads
    <3>2. f[i] = Scan!Load(offset, i)
      BY <1>6, <2>1, <2>2, <3>1
    <3>3. Scan!Load(offset, i) = Total(job, (offset + i) + 1) - Total(job, offset + i)
      BY <1>4, <3>1, LoadIs DEF ScanType
    <3>4. (offset + i) + 1 = offset + (i + 1)
      BY <1>3, <3>1
    <3> QED
      BY <2>3, <3>1, <3>2, <3>3, <3>4
  <2>6. \A k \in 0..N_READS : Scan!Sum(f, 0..k-1) = t[k] - t[0]
    <3>1. PICK n \in Nat : n = N_READS
      BY <1>3
    <3>2. Differences(f, t, n)
      BY <2>4, <2>5, <3>1 DEF Differences
    <3>3. SumsUpTo(f, t, n)
      BY <3>2, Telescopes
    <3> QED
      BY <3>1, <3>3 DEF SumsUpTo
  <2> TAKE k \in Scan!Reads
  <2>7. /\ k \in Nat /\ k + 1 \in 0..N_READS /\ (k + 1) - 1 = k /\ 0 \in 0..N_READS
        /\ offset + 0 = offset /\ offset + (k + 1) = offset + k + 1
    BY <1>3 DEF Scan!Reads
  <2>8. Scan!Sum(f, 0..k) = t[k + 1] - t[0]
    BY <2>6, <2>7
  <2>9. scanned[l][k] = Scan!Sum(f, 0..k)
    BY <1>6, <2>2
  <2>10. t[k + 1] = Total(job, offset + k + 1) /\ t[0] = Total(job, offset)
    BY <2>3, <2>7
  <2> QED
    BY <2>1, <2>8, <2>9, <2>10
<1>10. \A l \in Scan!Lanes : Scan!Sum(sums, 0..l-1)
         = Total(job, Share(job, r, g, l)) - Total(job, Share(job, r, g, 0))
  <2>1. PICK t : t = [i \in 0..SimdSize |-> Total(job, Share(job, r, g, i))]
    OBVIOUS
  <2>2. \A i \in 0..SimdSize : Share(job, r, g, i) \in Nat
    BY <1>3, <1>7
  <2>3. \A i \in 0..SimdSize : t[i] \in Int
    BY <2>1, <2>2, TotalNext
  <2>4. \A i \in 0..SimdSize-1 : sums[i] = t[i + 1] - t[i]
    <3> TAKE i \in 0..SimdSize-1
    <3>1. /\ i \in Scan!Lanes /\ i \in Nat /\ i \in 0..SimdSize /\ i + 1 \in 0..SimdSize
          /\ N_READS - 1 \in Scan!Reads
      BY <1>3 DEF Scan!Lanes, Scan!Reads
    <3>2. PICK offset \in Nat : offset = Share(job, r, g, i)
      BY <2>2, <3>1
    <3>3. sums[i] = Total(job, offset + (N_READS - 1) + 1) - Total(job, offset)
      BY <1>6, <1>9, <3>1, <3>2
    <3>4. offset + (N_READS - 1) + 1 = Share(job, r, g, i + 1)
      <4>1. Share(job, r, g, i + 1) = Share(job, r, g, i) + N_READS
        BY <1>3, <3>1, Shares
      <4> QED
        BY <1>3, <3>2, <4>1
    <3> QED
      BY <2>1, <3>1, <3>2, <3>3, <3>4
  <2>5. \A l \in 0..SimdSize : Scan!Sum(sums, 0..l-1) = t[l] - t[0]
    <3>1. PICK n \in Nat : n = SimdSize
      BY <1>3
    <3>2. Differences(sums, t, n)
      BY <2>3, <2>4, <3>1 DEF Differences
    <3>3. SumsUpTo(sums, t, n)
      BY <3>2, Telescopes
    <3> QED
      BY <3>1, <3>3 DEF SumsUpTo
  <2> TAKE l \in Scan!Lanes
  <2>6. l \in 0..SimdSize /\ 0 \in 0..SimdSize
    BY <1>3 DEF Scan!Lanes
  <2> QED
    BY <2>1, <2>5, <2>6
<1>11. scanned \in [Scan!Lanes -> [Scan!Reads -> Int]]
  <2>1. \A k \in Scan!Reads : k \in Nat
    BY DEF Scan!Reads
  <2>2. \A l \in Scan!Lanes : \A k \in Scan!Reads :
           /\ Total(job, Share(job, r, g, l) + k + 1) \in Int
           /\ Total(job, Share(job, r, g, l)) \in Int
    BY <1>7, <1>8, <2>1, TotalNext
  <2>3. \A l \in Scan!Lanes : \A k \in Scan!Reads : scanned[l][k] \in Int
    BY <1>9, <2>2
  <2> QED
    BY <1>6, <2>3
<1>12. [l \in Scan!Lanes |-> Scan!Sum(sums, 0..l-1)] \in [Scan!Lanes -> Int]
  <2>1. \A l \in Scan!Lanes : Total(job, Share(job, r, g, l)) \in Int
    BY <1>7, <1>8, TotalNext
  <2>2. Total(job, Share(job, r, g, 0)) \in Int
    BY <1>7, TotalNext
  <2> QED
    BY <1>10, <2>1, <2>2
<1>13. /\ prefix' \in [Scan!AllGroups -> Int]
       /\ prefix'[g] = Total(job, Share(job, r, 0, 0))
       /\ \A h \in Groups(job) \ {g} : prefix'[h] = prefix[h]
  <2>1. PICK first : /\ first = IF r = 0 THEN 0 ELSE simdgroup_sums[0]
                     /\ prefix' = [prefix EXCEPT ![g] = first]
    BY <1>3 DEF Scan!LoadAndScan
  <2>2. first \in Int
    BY <1>3, <1>4, <2>1, GroupsExist DEF ScanType
  <2>3. first = Total(job, Share(job, r, 0, 0))
    <3>1. CASE r = 0
      <4>1. Share(job, 0, 0, 0) = 0
        BY Shares
      <4>2. Total(job, 0) = 0
        BY TotalNext
      <4> QED
        BY <2>1, <3>1, <4>1, <4>2
    <3>2. CASE r # 0
      <4>1. PICK q \in Nat : q = r - 1 /\ r = q + 1
        BY <1>3, <3>2
      <4>2. pc[job.groups - 1] \in 5*q+5..5*q+6 /\ pc[0] <= 5*q+6
        BY <1>1, <4>1, GroupsExist DEF Moved
      <4>3. simdgroup_sums[0] = Total(job, Share(job, q + 1, 0, 0))
        BY <4>2 DEF ScanInv, PrefixLeft
      <4> QED
        BY <2>1, <3>2, <4>1, <4>3
    <3> QED
      BY <3>1, <3>2
  <2> QED
    BY <1>3, <1>4, <2>1, <2>2, <2>3 DEF ScanType
<1>14. ScanType(job)'
  <2>1. values' \in [Scan!AllGroups -> [Scan!Lanes -> [Scan!Reads -> Int]]]
    BY <1>3, <1>4, <1>5, <1>11 DEF ScanType
  <2>2. prev_thread' \in [Scan!AllGroups -> [Scan!Lanes -> Int]]
    BY <1>3, <1>4, <1>5, <1>12 DEF ScanType
  <2> QED
    BY <1>1, <1>4, <1>13, <2>1, <2>2 DEF ScanType, Moved
<1>15. /\ \A h \in Groups(job) : SumsLeft(job, h)' /\ SumsScanned(job, h)'
       /\ PrefixLeft(job)'
  BY <1>1, <1>4, SumsStay
<1>16. ASSUME NEW h \in Groups(job)
       PROVE  /\ Loaded(job, h)' /\ Prefixed(job, h)' /\ Added(job, h)'
  <2>1. Loaded(job, h) /\ Prefixed(job, h) /\ Added(job, h)
    BY DEF ScanInv
  <2>2. CASE h # g
    <3>1. /\ pc'[h] = pc[h] /\ values'[h] = values[h]
          /\ prev_thread'[h] = prev_thread[h] /\ prefix'[h] = prefix[h]
      BY <1>1, <1>3, <1>4, <1>5, <1>13, <2>2 DEF ScanType, Moved
    <3> QED
      BY <2>1, <3>1 DEF Loaded, Prefixed, Added
  <2>3. CASE h = g
    <3>1. pc'[g] = 5*r + 1
      BY <1>1 DEF Moved
    <3>2. Loaded(job, g)'
      <4>1. /\ values'[g] = scanned
            /\ prev_thread'[g] = [l \in Scan!Lanes |-> Scan!Sum(sums, 0..l-1)]
        BY <1>3, <1>4, <1>5 DEF ScanType
      <4>2. \A q \in Nat : pc'[g] \in 5*q+1..5*q+3 => q = r
        BY <1>3, <3>1
      <4> QED
        BY <1>9, <1>10, <4>1, <4>2 DEF Loaded
    <3>3. Prefixed(job, g)'
      <4>1. \A q \in Nat : pc'[g] \in 5*q+1..5*q+4 => q = r
        BY <1>3, <3>1
      <4> QED
        BY <1>13, <4>1 DEF Prefixed
    <3>4. Added(job, g)'
      BY <1>3, <3>1 DEF Added
    <3> QED
      BY <2>3, <3>2, <3>3, <3>4
  <2> QED
    BY <2>2, <2>3
<1>17. /\ \A h \in Groups(job) : ShareWritten(job, h)'
       /\ OnlyRight(job)' /\ FirstWritten(job)'
  BY <1>1, <1>4, OutStays
<1> QED
  BY <1>2, <1>14, <1>15, <1>16, <1>17 DEF ScanInv, Groups

\* Exchanging sums leaves what the lanes hold alone.
LEMMA LanesStay ==
    ASSUME NEW job \in Args, ScanInv(job), NEW g, NEW s \in {1, 2, 4}, NEW r,
           Moved(job, g, s, r), UNCHANGED <<values, prev_thread, prefix>>
    PROVE  \A h \in Groups(job) : Loaded(job, h)' /\ Prefixed(job, h)' /\ Added(job, h)'
<1> SUFFICES ASSUME NEW h \in Groups(job)
             PROVE  Loaded(job, h)' /\ Prefixed(job, h)' /\ Added(job, h)'
  OBVIOUS
<1>1. Loaded(job, h) /\ Prefixed(job, h) /\ Added(job, h)
  BY DEF ScanInv
<1>2. \A q \in Nat : pc'[h] \in 5*q+1..5*q+3 => pc[h] \in 5*q+1..5*q+3
  BY DEF Moved
<1>3. \A q \in Nat : pc'[h] \in 5*q+1..5*q+4 => pc[h] \in 5*q+1..5*q+4
  BY DEF Moved
<1>4. \A q \in Nat : pc'[h] = 5*q+4 => pc[h] = 5*q+4
  BY DEF Moved
<1>5. Loaded(job, h)'
  BY <1>1, <1>2 DEF Loaded
<1>6. Prefixed(job, h)'
  BY <1>1, <1>3 DEF Prefixed
<1>7. Added(job, h)'
  BY <1>1, <1>4 DEF Added
<1> QED
  BY <1>5, <1>6, <1>7

\* Where a simdgroup's share ends, the next one's begins.
LEMMA LastShare ==
    ASSUME NEW job \in Args, NEW r \in Nat, NEW g \in Groups(job)
    PROVE  /\ Scan!LastLane \in Scan!Lanes /\ N_READS - 1 \in Scan!Reads
           /\ Share(job, r, g, Scan!LastLane) + (N_READS - 1) + 1 = Share(job, r, g + 1, 0)
<1>1. /\ SimdSize \in Nat \ {0} /\ N_READS \in Nat \ {0} /\ g \in Nat
  BY Sizes, GroupsExist
<1>2. PICK l \in Nat : l = Scan!LastLane /\ l + 1 = SimdSize
  BY <1>1 DEF Scan!LastLane
<1>3. PICK p \in Nat : p = Share(job, r, g, l)
  BY <1>1, Shares
<1>4. Share(job, r, g, l + 1) = Share(job, r, g, l) + N_READS
  BY <1>1, Shares
<1>5. Share(job, r, g, SimdSize) = Share(job, r, g + 1, 0)
  BY <1>1, Shares
<1>6. l \in Scan!Lanes /\ N_READS - 1 \in Scan!Reads
  BY <1>1, <1>2 DEF Scan!Lanes, Scan!Reads
<1>7. p + (N_READS - 1) + 1 = p + N_READS
  BY <1>1
<1> QED
  BY <1>2, <1>3, <1>4, <1>5, <1>6, <1>7

LEMMA LeaveSumKeeps ==
    ASSUME NEW job \in Args, ScanInv(job), NEW g, Scan!LeaveSum(g)
    PROVE  ScanInv(job)'
<1>1. PICK r \in Nat : Moved(job, g, 1, r)
  BY Moves DEF Scan!LeaveSum
<1>2. InStep(job)'
  BY Moves DEF Scan!LeaveSum
<1>3. /\ Groups(job) \subseteq Scan!AllGroups /\ Groups(job) \subseteq Nat
      /\ 0 \in Groups(job) /\ job.groups - 1 \in Groups(job) /\ g \in Groups(job)
  BY <1>1, GroupsExist DEF Moved
<1>4. ScanType(job) /\ UNCHANGED <<values, prev_thread, prefix, out>>
  BY DEF ScanInv, Scan!LeaveSum
<1>5. PICK sum : /\ sum = prev_thread[g][Scan!LastLane] + values[g][Scan!LastLane][N_READS - 1]
                 /\ simdgroup_sums' = [simdgroup_sums EXCEPT ![g] = sum]
  BY DEF Scan!LeaveSum
<1>6. /\ \A l \in Nat : Share(job, r, g, l) \in Nat
      /\ \A h \in Nat : Share(job, r, h, 0) \in Nat
  BY <1>3, Shares
<1>7. /\ sum \in Int
      /\ sum = Total(job, Share(job, r, g + 1, 0)) - Total(job, Share(job, r, g, 0))
  <2>1. PICK l \in Scan!Lanes, k \in Scan!Reads : l = Scan!LastLane /\ k = N_READS - 1
    BY <1>3, LastShare
  <2>2. Share(job, r, g, l) + k + 1 = Share(job, r, g + 1, 0)
    BY <1>3, <2>1, LastShare
  <2>3. /\ prev_thread[g][l] = Total(job, Share(job, r, g, l)) - Total(job, Share(job, r, g, 0))
        /\ values[g][l][k] = Total(job, Share(job, r, g, l) + k + 1)
                                - Total(job, Share(job, r, g, l))
    <3>1. Loaded(job, g)
      BY <1>3 DEF ScanInv
    <3>2. pc[g] \in 5*r+1..5*r+3
      BY <1>1 DEF Moved
    <3> QED
      BY <3>1, <3>2 DEF Loaded
  <2>4. /\ Total(job, Share(job, r, g, l)) \in Int /\ Total(job, Share(job, r, g, 0)) \in Int
        /\ Total(job, Share(job, r, g + 1, 0)) \in Int
    <3>1. l \in Nat /\ g + 1 \in Nat
      BY <1>3 DEF Scan!Lanes
    <3>2. Share(job, r, g, l) \in Nat /\ Share(job, r, g, 0) \in Nat /\ Share(job, r, g + 1, 0) \in Nat
      BY <1>6, <3>1
    <3> QED
      BY <3>2, TotalNext
  <2> QED
    BY <1>5, <2>1, <2>2, <2>3, <2>4
<1>8. /\ simdgroup_sums' \in [Scan!AllGroups -> Int] /\ simdgroup_sums'[g] = sum
      /\ \A h \in Groups(job) \ {g} : simdgroup_sums'[h] = simdgroup_sums[h]
  BY <1>3, <1>4, <1>5, <1>7 DEF ScanType
<1>9. ScanType(job)'
  BY <1>1, <1>4, <1>8 DEF ScanType, Moved
<1>10. ASSUME NEW h \in Groups(job) PROVE SumsLeft(job, h)' /\ SumsScanned(job, h)'
  <2>1. SumsLeft(job, h)'
    <3>1. CASE h = g
      <4>1. \A q \in Nat : pc'[g] \in 5*q+2..5*q+3 => q = r
        BY <1>1 DEF Moved
      <4> QED
        BY <1>7, <1>8, <3>1, <4>1 DEF SumsLeft
    <3>2. CASE h # g
      <4>1. \A q \in Nat : pc'[h] \in 5*q+2..5*q+3 /\ pc'[0] <= 5*q+2
                             => pc[h] \in 5*q+2..5*q+3 /\ pc[0] <= 5*q+2
        BY <1>1, <1>3, <3>2 DEF Moved
      <4> QED
        BY <1>8, <3>2, <4>1 DEF ScanInv, SumsLeft
    <3> QED
      BY <3>1, <3>2
  <2>2. SumsScanned(job, h)'
    <3>1. \A q \in Nat : ~(pc'[0] \in 5*q+3..5*q+4)
      BY <1>1, <1>3 DEF Moved
    <3> QED
      BY <3>1 DEF SumsScanned
  <2> QED
    BY <2>1, <2>2
<1>11. PrefixLeft(job)'
  <2>1. \A q \in Nat : pc'[job.groups - 1] \in 5*q+5..5*q+6 /\ pc'[0] <= 5*q+6
                         => /\ pc[job.groups - 1] \in 5*q+5..5*q+6 /\ pc[0] <= 5*q+6
                            /\ g # 0
    BY <1>1, <1>3 DEF Moved
  <2> QED
    BY <1>3, <1>8, <2>1 DEF ScanInv, PrefixLeft
<1>12. \A h \in Groups(job) : Loaded(job, h)' /\ Prefixed(job, h)' /\ Added(job, h)'
  BY <1>1, <1>4, LanesStay
<1>13. /\ \A h \in Groups(job) : ShareWritten(job, h)'
       /\ OnlyRight(job)' /\ FirstWritten(job)'
  BY <1>1, <1>4, OutStays
<1> QED
  BY <1>2, <1>9, <1>10, <1>11, <1>12, <1>13 DEF ScanInv, Groups

LEMMA ScanSumsKeeps ==
    ASSUME NEW job \in Args, ScanInv(job), NEW g, Scan!ScanSums(g)
    PROVE  ScanInv(job)'
<1>1. PICK r \in Nat : Moved(job, g, 2, r)
  BY Moves DEF Scan!ScanSums
<1>2. InStep(job)'
  BY Moves DEF Scan!ScanSums
<1>3. /\ Groups(job) \subseteq Scan!AllGroups /\ Groups(job) \subseteq Nat
      /\ 0 \in Groups(job) /\ job.groups - 1 \in Groups(job) /\ g \in Groups(job)
      /\ SimdSize \in Nat \ {0} /\ job.groups \in 1..SimdSize
  BY <1>1, GroupsExist, Sizes DEF Moved
<1>4. ScanType(job) /\ UNCHANGED <<values, prev_thread, prefix, out>>
  BY DEF ScanInv, Scan!ScanSums
<1>5. simdgroup_sums' = IF g = 0 THEN [l \in Scan!Lanes |-> Scan!Sum(simdgroup_sums, 0..l-1)]
                        ELSE simdgroup_sums
  BY DEF Scan!ScanSums
<1>6. PICK sums : sums = simdgroup_sums /\ sums \in [Scan!AllGroups -> Int]
  BY <1>4 DEF ScanType
<1>7. \A l \in Scan!Lanes : Scan!Sum(sums, 0..l-1) \in Int
  <2>1. PICK n \in Nat : n = SimdSize
    BY <1>3
  <2>2. Adds(sums, n)
    <3>1. \A i \in 0..n-1 : sums[i] \in Int
      BY <1>6, <2>1 DEF Scan!AllGroups
    <3> QED
      BY <3>1, SumOf
  <2>3. \A l \in Scan!Lanes : 0..l-1 \in SUBSET (0..n-1)
    BY <2>1 DEF Scan!Lanes
  <2> QED
    BY <2>2, <2>3 DEF Adds
<1>8. g = 0 => \A h \in Groups(job) : Scan!Sum(sums, 0..h-1)
                  = Total(job, Share(job, r, h, 0)) - Total(job, Share(job, r, 0, 0))
  <2> SUFFICES ASSUME g = 0 PROVE \A h \in Groups(job) : Scan!Sum(sums, 0..h-1)
                  = Total(job, Share(job, r, h, 0)) - Total(job, Share(job, r, 0, 0))
    OBVIOUS
  <2>1. PICK n \in Nat : n = job.groups
    BY <1>3
  <2>2. PICK t : t = [i \in 0..n |-> Total(job, Share(job, r, i, 0))]
    OBVIOUS
  <2>3. n = job.groups /\ t = [i \in 0..n |-> Total(job, Share(job, r, i, 0))]
    BY <2>1, <2>2
  <2>4. \A i \in Nat : Total(job, Share(job, r, i, 0)) \in Int
    <3>1. \A i \in Nat : Share(job, r, i, 0) \in Nat
      BY Shares
    <3> QED
      BY <3>1, TotalNext
  <2>5. \A i \in 0..n-1 : sums[i] = t[i + 1] - t[i]
    <3> TAKE i \in 0..n-1
    <3>1. i \in Groups(job) /\ i \in 0..n /\ i + 1 \in 0..n
      BY <2>3 DEF Groups
    <3>2. pc[i] \in 5*r+2..5*r+3 /\ pc[0] <= 5*r+2
      BY <1>1, <3>1 DEF Moved
    <3>3. sums[i] = Total(job, Share(job, r, i + 1, 0)) - Total(job, Share(job, r, i, 0))
      BY <1>6, <3>1, <3>2 DEF ScanInv, SumsLeft
    <3> QED
      BY <2>3, <3>1, <3>3
  <2>6. SumsUpTo(sums, t, n)
    <3>1. Differences(sums, t, n)
      <4>1. \A i \in 0..n : t[i] \in Int
        BY <2>3, <2>4
      <4> QED
        BY <2>5, <4>1 DEF Differences
    <3> QED
      BY <3>1, Telescopes
  <2>7. \A h \in Groups(job) : h \in 0..n /\ 0 \in 0..n
    BY <2>3 DEF Groups
  <2> QED
    BY <2>3, <2>6, <2>7 DEF SumsUpTo
<1>9. simdgroup_sums' \in [Scan!AllGroups -> Int]
  <2>1. Scan!AllGroups = Scan!Lanes
    BY DEF Scan!AllGroups, Scan!Lanes
  <2> QED
    BY <1>5, <1>6, <1>7, <2>1
<1>10. ScanType(job)'
  BY <1>1, <1>4, <1>9 DEF ScanType, Moved
<1>11. ASSUME NEW h \in Groups(job) PROVE SumsLeft(job, h)' /\ SumsScanned(job, h)'
  <2>1. SumsLeft(job, h) /\ SumsScanned(job, h)
    BY DEF ScanInv
  <2>2. CASE g = 0
    <3>1. simdgroup_sums'[h] = Total(job, Share(job, r, h, 0)) - Total(job, Share(job, r, 0, 0))
      <4>1. h \in Scan!Lanes
        BY <1>3 DEF Scan!AllGroups, Scan!Lanes
      <4> QED
        BY <1>5, <1>6, <1>8, <2>2, <4>1
    <3>2. \A q \in Nat : ~(pc'[h] \in 5*q+2..5*q+3 /\ pc'[0] <= 5*q+2)
      BY <1>1, <2>2 DEF Moved
    <3>3. \A q \in Nat : pc'[0] \in 5*q+3..5*q+4 => q = r
      BY <1>1, <2>2 DEF Moved
    <3>4. SumsLeft(job, h)'
      BY <3>2 DEF SumsLeft
    <3>5. SumsScanned(job, h)'
      BY <3>1, <3>3 DEF SumsScanned
    <3> QED
      BY <3>4, <3>5
  <2>3. CASE g # 0
    <3>1. \A q \in Nat : pc'[h] \in 5*q+2..5*q+3 /\ pc'[0] <= 5*q+2
                           => pc[h] \in 5*q+2..5*q+3 /\ pc[0] <= 5*q+2
      BY <1>1, <1>3, <2>3 DEF Moved
    <3>2. \A q \in Nat : pc'[0] \in 5*q+3..5*q+4 /\ pc'[job.groups - 1] <= 5*q+4
                           => pc[0] \in 5*q+3..5*q+4 /\ pc[job.groups - 1] <= 5*q+4
      BY <1>1, <1>3, <2>3 DEF Moved
    <3>3. SumsLeft(job, h)'
      BY <1>5, <2>1, <2>3, <3>1 DEF SumsLeft
    <3>4. SumsScanned(job, h)'
      BY <1>5, <2>1, <2>3, <3>2 DEF SumsScanned
    <3> QED
      BY <3>3, <3>4
  <2> QED
    BY <2>2, <2>3
<1>12. PrefixLeft(job)'
  <2>1. \A q \in Nat : ~(pc'[job.groups - 1] \in 5*q+5..5*q+6)
    BY <1>1, <1>3 DEF Moved
  <2> QED
    BY <2>1 DEF PrefixLeft
<1>13. \A h \in Groups(job) : Loaded(job, h)' /\ Prefixed(job, h)' /\ Added(job, h)'
  BY <1>1, <1>4, LanesStay
<1>14. /\ \A h \in Groups(job) : ShareWritten(job, h)'
       /\ OnlyRight(job)' /\ FirstWritten(job)'
  BY <1>1, <1>4, OutStays
<1> QED
  BY <1>2, <1>10, <1>11, <1>12, <1>13, <1>14 DEF ScanInv, Groups

LEMMA SharePrefixKeeps ==
    ASSUME NEW job \in Args, ScanInv(job), NEW g, Scan!SharePrefix(g)
    PROVE  ScanInv(job)'
<1>1. PICK r \in Nat : Moved(job, g, 4, r)
  BY Moves DEF Scan!SharePrefix
<1>2. InStep(job)'
  BY Moves DEF Scan!SharePrefix
<1>3. /\ Groups(job) \subseteq Scan!AllGroups /\ Groups(job) \subseteq Nat
      /\ 0 \in Groups(job) /\ job.groups - 1 \in Groups(job) /\ g \in Groups(job)
      /\ job.groups \in Nat
  BY <1>1, GroupsExist, Sizes DEF Moved
<1>4. ScanType(job) /\ UNCHANGED <<values, prev_thread, prefix, out>>
  BY DEF ScanInv, Scan!SharePrefix
<1>5. PICK last : last = values[g][Scan!LastLane][N_READS - 1]
  OBVIOUS
<1>6. simdgroup_sums' = IF g = job.groups - 1 THEN [simdgroup_sums EXCEPT ![0] = last]
                        ELSE simdgroup_sums
  BY <1>4, <1>5 DEF Scan!SharePrefix, ScanType
<1>7. last \in Int /\ (g = job.groups - 1 => last = Total(job, Share(job, r + 1, 0, 0)))
  <2>1. PICK l \in Scan!Lanes, k \in Scan!Reads : l = Scan!LastLane /\ k = N_READS - 1
    BY <1>3, LastShare
  <2>2. Share(job, r, g, l) + k + 1 = Share(job, r, g + 1, 0)
    BY <1>3, <2>1, LastShare
  <2>3. values[g][l][k] = Total(job, Share(job, r, g, l) + k + 1)
    <3>1. Added(job, g) /\ pc[g] = 5*r+4
      BY <1>1, <1>3 DEF ScanInv, Moved
    <3> QED
      BY <3>1 DEF Added
  <2>4. last \in Int
    <3>1. g \in Scan!AllGroups
      BY <1>3
    <3> QED
      BY <1>4, <1>5, <2>1, <3>1 DEF ScanType
  <2>5. g = job.groups - 1 => Share(job, r, g + 1, 0) = Share(job, r + 1, 0, 0)
    <3>1. Share(job, r, job.groups, 0) = Share(job, r + 1, 0, 0)
      BY <1>3, Shares
    <3>2. g = job.groups - 1 => g + 1 = job.groups
      BY <1>3
    <3> QED
      BY <3>1, <3>2
  <2> QED
    BY <1>5, <2>1, <2>2, <2>3, <2>4, <2>5
<1>8. simdgroup_sums' \in [Scan!AllGroups -> Int]
  BY <1>3, <1>4, <1>6, <1>7 DEF ScanType
<1>9. ScanType(job)'
  BY <1>1, <1>4, <1>8 DEF ScanType, Moved
<1>10. ASSUME NEW h \in Groups(job) PROVE SumsLeft(job, h)' /\ SumsScanned(job, h)'
  <2>1. SumsLeft(job, h)'
    <3>1. \A q \in Nat : ~(pc'[h] \in 5*q+2..5*q+3)
      BY <1>1 DEF Moved
    <3> QED
      BY <3>1 DEF SumsLeft
  <2>2. SumsScanned(job, h)'
    <3>1. \A q \in Nat : pc'[0] \in 5*q+3..5*q+4 /\ pc'[job.groups - 1] <= 5*q+4
                           => /\ pc[0] \in 5*q+3..5*q+4 /\ pc[job.groups - 1] <= 5*q+4
                              /\ g # job.groups - 1
      BY <1>1, <1>3 DEF Moved
    <3>2. SumsScanned(job, h)
      BY DEF ScanInv
    <3> QED
      BY <1>6, <3>1, <3>2 DEF SumsScanned
  <2> QED
    BY <2>1, <2>2
<1>11. PrefixLeft(job)'
  <2>1. CASE g = job.groups - 1
    <3>1. simdgroup_sums'[0] = Total(job, Share(job, r + 1, 0, 0))
      BY <1>3, <1>4, <1>6, <1>7, <2>1 DEF ScanType
    <3>2. \A q \in Nat : pc'[job.groups - 1] \in 5*q+5..5*q+6 => q = r
      BY <1>1, <2>1 DEF Moved
    <3> QED
      BY <3>1, <3>2 DEF PrefixLeft
  <2>2. CASE g # job.groups - 1
    <3>1. \A q \in Nat : pc'[job.groups - 1] \in 5*q+5..5*q+6 /\ pc'[0] <= 5*q+6
                           => pc[job.groups - 1] \in 5*q+5..5*q+6 /\ pc[0] <= 5*q+6
      BY <1>1, <1>3, <2>2 DEF Moved
    <3>2. PrefixLeft(job)
      BY DEF ScanInv
    <3> QED
      BY <1>6, <2>2, <3>1, <3>2 DEF PrefixLeft
  <2> QED
    BY <2>1, <2>2
<1>12. \A h \in Groups(job) : Loaded(job, h)' /\ Prefixed(job, h)' /\ Added(job, h)'
  BY <1>1, <1>4, LanesStay
<1>13. /\ \A h \in Groups(job) : ShareWritten(job, h)'
       /\ OnlyRight(job)' /\ FirstWritten(job)'
  BY <1>1, <1>4, OutStays
<1> QED
  BY <1>2, <1>9, <1>10, <1>11, <1>12, <1>13 DEF ScanInv, Groups

\* Positions along the scan, and back.
LEMMA AlongTwice ==
    ASSUME NEW job \in Args, NEW q \in 0..job.n-1
    PROVE  Along(job, q) \in 0..job.n-1 /\ Along(job, Along(job, q)) = q
BY Sizes DEF Along, Args

\* Write's totals are the results.
LEMMA WriteAddsUp ==
    ASSUME NEW job \in Args, ScanInv(job), NEW g, NEW r, Moved(job, g, 3, r),
           NEW l \in Scan!Lanes, NEW k \in Scan!Reads
    PROVE  /\ values[g][l][k] + prefix[g] + simdgroup_sums[g] + prev_thread[g][l] \in Int
           /\ values[g][l][k] + prefix[g] + simdgroup_sums[g] + prev_thread[g][l]
                = Total(job, Share(job, r, g, l) + k + 1)
<1>1. /\ g \in Groups(job) /\ r \in Nat /\ g \in Nat /\ 0 \in Groups(job)
      /\ job.groups - 1 \in Groups(job) /\ l \in Nat /\ k \in Nat
  BY GroupsExist DEF Moved, Scan!Lanes, Scan!Reads
<1>2. pc[g] \in 5*r+1..5*r+3 /\ pc[g] \in 5*r+1..5*r+4
  BY DEF Moved
<1>3. pc[0] \in 5*r+3..5*r+4 /\ pc[job.groups - 1] <= 5*r+4
  <2>1. \A h \in Groups(job) : pc[h] \in 5*r+3..5*r+3+1
    BY DEF Moved
  <2>2. pc[0] \in 5*r+3..5*r+3+1 /\ pc[job.groups - 1] \in 5*r+3..5*r+3+1
    BY <1>1, <2>1
  <2> QED
    BY <1>1, <2>2
<1>4. /\ prev_thread[g][l] = Total(job, Share(job, r, g, l)) - Total(job, Share(job, r, g, 0))
      /\ values[g][l][k] = Total(job, Share(job, r, g, l) + k + 1)
                              - Total(job, Share(job, r, g, l))
  <2>1. Loaded(job, g)
    BY <1>1 DEF ScanInv
  <2> QED
    BY <1>1, <1>2, <2>1 DEF Loaded
<1>5. prefix[g] = Total(job, Share(job, r, 0, 0))
  <2>1. Prefixed(job, g)
    BY <1>1 DEF ScanInv
  <2> QED
    BY <1>1, <1>2, <2>1 DEF Prefixed
<1>6. simdgroup_sums[g] = Total(job, Share(job, r, g, 0)) - Total(job, Share(job, r, 0, 0))
  <2>1. SumsScanned(job, g)
    BY <1>1 DEF ScanInv
  <2> QED
    BY <1>1, <1>3, <2>1 DEF SumsScanned
<1>7. Share(job, r, g, l) \in Nat
  BY <1>1, Shares
<1>8. Share(job, r, g, 0) \in Nat
  BY <1>1, Shares
<1>9. Share(job, r, 0, 0) \in Nat
  BY <1>1, Shares
<1>10. PICK w \in Int, x \in Int, y \in Int, z \in Int :
          /\ w = Total(job, Share(job, r, g, l) + k + 1) /\ x = Total(job, Share(job, r, g, l))
          /\ y = Total(job, Share(job, r, g, 0)) /\ z = Total(job, Share(job, r, 0, 0))
  <2>1. Share(job, r, g, l) + k + 1 \in Nat
    BY <1>1, <1>7
  <2> QED
    BY <1>7, <1>8, <1>9, <2>1, TotalNext
<1> QED
  BY <1>4, <1>5, <1>6, <1>10

LEMMA WriteKeeps ==
    ASSUME NEW job \in Args, ScanInv(job), NEW g, Scan!Write(g)
    PROVE  ScanInv(job)'
<1>1. PICK r \in Nat : Moved(job, g, 3, r)
  BY Moves DEF Scan!Write
<1>2. InStep(job)' /\ job.n > 0
  BY Moves DEF Scan!Write
<1>3. /\ Groups(job) \subseteq Scan!AllGroups /\ Groups(job) \subseteq Nat
      /\ 0 \in Groups(job) /\ g \in Groups(job) /\ r = Scan!Round(g)
      /\ job.n \in Nat /\ job.inclusive \in BOOLEAN /\ N_READS \in Nat \ {0}
      /\ Shift(job) \in {0, 1}
  BY <1>1, GroupsExist, Sizes DEF Moved, Args, Shift
<1>4. ScanType(job) /\ UNCHANGED <<prev_thread, prefix, simdgroup_sums>>
  BY DEF ScanInv, Scan!Write
<1> DEFINE
      total == [l \in Scan!Lanes |-> [k \in Scan!Reads |->
                  values[g][l][k] + prefix[g] + simdgroup_sums[g] + prev_thread[g][l]]]
      first == IF ~inclusive /\ pc[g] = 3 /\ g = 0
                 THEN {IF reverse THEN axis_size - 1 ELSE 0} ELSE {}
<1>5. /\ values' = [values EXCEPT ![g] = total]
      /\ out' = [p \in Scan!Positions |->
                   IF \E w \in Scan!Written(g) : Scan!Place(g, w) = p
                     THEN LET w == CHOOSE w \in Scan!Written(g) : Scan!Place(g, w) = p
                          IN total[w[1]][w[2]]
                   ELSE IF p \in first THEN 0 ELSE out[p]]
  BY DEF Scan!Write
<1>6. /\ first = IF ~job.inclusive /\ pc[g] = 3 /\ g = 0 THEN {Along(job, 0)} ELSE {}
      /\ total \in [Scan!Lanes -> [Scan!Reads -> Int]]
      /\ \A l \in Scan!Lanes : \A k \in Scan!Reads :
            total[l][k] = Total(job, Share(job, r, g, l) + k + 1)
  <2>1. first = IF ~job.inclusive /\ pc[g] = 3 /\ g = 0 THEN {Along(job, 0)} ELSE {}
    <3>1. inclusive = job.inclusive /\ reverse = job.reverse /\ axis_size = job.n
      BY <1>4 DEF ScanType
    <3>2. Along(job, 0) = IF reverse THEN axis_size - 1 ELSE 0
      BY <1>3, <3>1 DEF Along
    <3> QED
      BY <3>1, <3>2
  <2>2. \A l \in Scan!Lanes : \A k \in Scan!Reads :
           total[l][k] \in Int /\ total[l][k] = Total(job, Share(job, r, g, l) + k + 1)
    BY <1>1, WriteAddsUp
  <2>3. total \in [Scan!Lanes -> [Scan!Reads -> Int]]
    BY <2>2
  <2> QED
    BY <2>1, <2>2, <2>3
<1> HIDE DEF total, first
<1>7. ASSUME NEW l \in Scan!Lanes, NEW k \in Scan!Reads
      PROVE  /\ Share(job, r, g, l) + k + Shift(job) \in Nat
             /\ Share(job, r, g, l) + k + Shift(job) < job.n <=> <<l, k>> \in Scan!Written(g)
             /\ Scan!Place(g, <<l, k>>) = Along(job, Share(job, r, g, l) + k + Shift(job))
  <2>1. l \in Nat /\ k \in Nat /\ k < N_READS
    BY <1>3 DEF Scan!Lanes, Scan!Reads
  <2>2. PICK offset \in Nat : offset = Share(job, r, g, l) /\ offset = Scan!Offset(g, l)
    <3>1. Share(job, r, g, l) \in Nat
      BY <1>3, <2>1, Shares
    <3>2. Share(job, r, g, l) = Scan!Offset(g, l)
      BY <1>3, <1>4 DEF ScanType, Share, Scan!Offset, Scan!LSize
    <3> QED
      BY <3>1, <3>2
  <2>3. inclusive = job.inclusive /\ reverse = job.reverse /\ axis_size = job.n
    BY <1>4 DEF ScanType
  <2>4. Shift(job) = IF inclusive THEN 0 ELSE 1
    BY <2>3 DEF Shift
  <2>5. <<l, k>> \in Scan!Written(g) <=>
           \/ offset + Shift(job) + N_READS < job.n \/ offset + Shift(job) + k < job.n
    BY <2>2, <2>3, <2>4 DEF Scan!Written
  <2>6. Scan!Place(g, <<l, k>>) = Along(job, offset + k + Shift(job))
    BY <2>2, <2>3, <2>4 DEF Scan!Place, Along
  <2> QED
    BY <1>3, <2>1, <2>2, <2>5, <2>6 DEF Along
<1>8. \A w \in Scan!Written(g) : \E l \in Scan!Lanes, k \in Scan!Reads : w = <<l, k>>
  BY DEF Scan!Written
<1>9. ASSUME NEW w \in Scan!Written(g)
      PROVE  /\ Scan!Place(g, w) \in 0..job.n-1
             /\ total[w[1]][w[2]] = Right(job, Scan!Place(g, w))
  <2>1. PICK l \in Scan!Lanes, k \in Scan!Reads : w = <<l, k>>
    BY <1>8
  <2>2. PICK q \in 0..job.n-1 : q = Share(job, r, g, l) + k + Shift(job)
    BY <1>3, <1>7, <2>1
  <2>3. Scan!Place(g, w) = Along(job, q) /\ Along(job, q) \in 0..job.n-1
        /\ Along(job, Along(job, q)) = q
    BY <1>7, <2>1, <2>2, AlongTwice
  <2>4. q + 1 - Shift(job) = Share(job, r, g, l) + k + 1
    <3>1. l \in Nat /\ k \in Nat /\ g \in Nat
      BY <1>3 DEF Scan!Lanes, Scan!Reads
    <3>2. Share(job, r, g, l) \in Nat
      BY <3>1, Shares
    <3> QED
      BY <1>3, <2>2, <3>1, <3>2
  <2>5. total[w[1]][w[2]] = Total(job, Share(job, r, g, l) + k + 1)
    BY <1>6, <2>1
  <2> QED
    BY <2>3, <2>4, <2>5 DEF Right
<1>10. ASSUME NEW p \in first PROVE p = Along(job, 0) /\ p \in 0..job.n-1 /\ 0 = Right(job, p)
  <2>1. p = Along(job, 0) /\ ~job.inclusive
    BY <1>6
  <2>2. p \in 0..job.n-1 /\ Along(job, p) = 0
    BY <1>2, <1>3, <2>1, AlongTwice
  <2>3. Along(job, p) + 1 - Shift(job) = 0
    BY <2>1, <2>2 DEF Shift
  <2>4. Total(job, 0) = 0
    BY TotalNext
  <2> QED
    BY <2>1, <2>2, <2>3, <2>4 DEF Right
<1>11. ASSUME NEW p \in Scan!Positions
       PROVE  /\ (\E w \in Scan!Written(g) : Scan!Place(g, w) = p)
                    => p \in 0..job.n-1 /\ out'[p] = Right(job, p)
              /\ p \in first => p \in 0..job.n-1 /\ out'[p] = Right(job, p)
              /\ out'[p] = out[p] \/ (p \in 0..job.n-1 /\ out'[p] = Right(job, p))
  <2>1. CASE \E w \in Scan!Written(g) : Scan!Place(g, w) = p
    <3>1. PICK w : w = CHOOSE v \in Scan!Written(g) : Scan!Place(g, v) = p
      OBVIOUS
    <3>2. w \in Scan!Written(g) /\ Scan!Place(g, w) = p
      BY <2>1, <3>1
    <3>3. out'[p] = total[w[1]][w[2]]
      BY <1>5, <2>1, <3>1
    <3> QED
      BY <1>9, <3>2, <3>3
  <2>2. CASE ~\E w \in Scan!Written(g) : Scan!Place(g, w) = p
    <3>1. out'[p] = IF p \in first THEN 0 ELSE out[p]
      BY <1>5, <2>2
    <3> QED
      BY <1>10, <2>2, <3>1
  <2> QED
    BY <2>1, <2>2
<1>12. 0..job.n-1 \subseteq Scan!Positions /\ Scan!Positions' = Scan!Positions
  <2>1. axis_size = job.n /\ axis_size' = job.n /\ simd_groups' = simd_groups
    BY <1>1, <1>4 DEF ScanType, Moved
  <2>2. Scan!Positions' = Scan!Positions
    BY <2>1 DEF Scan!Positions, Scan!LSize
  <2>3. PICK end \in Nat : end = N_READS * Scan!LSize
    <3>1. SimdSize \in Nat /\ job.groups \in Nat /\ simd_groups = job.groups
      BY <1>4, Sizes DEF ScanType
    <3>2. simd_groups * SimdSize \in Nat
      BY <3>1, OneMore
    <3> QED
      BY <1>3, <3>2, OneMore DEF Scan!LSize
  <2>4. 0..job.n-1 \subseteq Scan!Positions
    BY <1>3, <2>1, <2>3 DEF Scan!Positions, Scan!Margin
  <2> QED
    BY <2>2, <2>4
<1>13. OnlyRight(job)'
  <2> SUFFICES ASSUME NEW p \in Scan!Positions
               PROVE  IF p \in 0..job.n-1 THEN out'[p] \in {Scan!Unwritten, Right(job, p)}
                      ELSE out'[p] = Scan!Unwritten
    BY <1>12 DEF OnlyRight, Scan!Unwritten
  <2> QED
    BY <1>11 DEF ScanInv, OnlyRight
<1>14. ASSUME NEW h \in Groups(job) PROVE ShareWritten(job, h)'
  <2> SUFFICES ASSUME NEW i \in Nat, NEW l \in Scan!Lanes, NEW k \in Scan!Reads, NEW q,
                      q = Share(job, i, h, l) + k + Shift(job),
                      pc'[h] >= 5*i+4, q < job.n
               PROVE  out'[Along(job, q)] = Right(job, Along(job, q))
    BY DEF ShareWritten
  <2>1. q \in 0..job.n-1
    <3>1. l \in Nat /\ k \in Nat /\ h \in Nat
      BY <1>3 DEF Scan!Lanes, Scan!Reads
    <3>2. Share(job, i, h, l) \in Nat
      BY <3>1, Shares
    <3> QED
      BY <1>3, <3>1, <3>2
  <2>2. Along(job, q) \in Scan!Positions
    BY <1>12, <2>1, AlongTwice
  <2>3. CASE pc[h] >= 5*i+4
    <3>1. out[Along(job, q)] = Right(job, Along(job, q))
      BY <2>3 DEF ScanInv, ShareWritten
    <3> QED
      BY <1>11, <2>2, <3>1
  <2>4. CASE ~(pc[h] >= 5*i+4)
    <3>1. h = g /\ i = r
      BY <1>1, <2>4 DEF Moved
    <3>2. <<l, k>> \in Scan!Written(g) /\ Scan!Place(g, <<l, k>>) = Along(job, q)
      BY <1>7, <3>1
    <3> QED
      BY <1>11, <2>2, <3>2
  <2> QED
    BY <2>3, <2>4
<1>15. FirstWritten(job)'
  <2> SUFFICES ASSUME ~job.inclusive, pc'[0] >= 4
               PROVE  out'[Along(job, 0)] = Right(job, Along(job, 0))
    BY DEF FirstWritten
  <2>1. Along(job, 0) \in Scan!Positions
    BY <1>2, <1>3, <1>12, AlongTwice
  <2>2. CASE pc[0] >= 4
    <3>1. out[Along(job, 0)] = Right(job, Along(job, 0))
      BY <1>2, <2>2 DEF ScanInv, FirstWritten
    <3> QED
      BY <1>11, <2>1, <3>1
  <2>3. CASE ~(pc[0] >= 4)
    <3>1. g = 0 /\ pc[g] = 3
      BY <1>1, <1>3, <2>3 DEF Moved
    <3>2. Along(job, 0) \in first
      BY <1>6, <3>1
    <3> QED
      BY <1>11, <2>1, <3>2
  <2> QED
    BY <2>2, <2>3
<1>16. /\ values' \in [Scan!AllGroups -> [Scan!Lanes -> [Scan!Reads -> Int]]]
       /\ values'[g] = total /\ \A h \in Groups(job) \ {g} : values'[h] = values[h]
  BY <1>3, <1>4, <1>5, <1>6 DEF ScanType
<1>17. ScanType(job)'
  BY <1>1, <1>4, <1>16 DEF ScanType, Moved
<1>18. ASSUME NEW h \in Groups(job)
       PROVE  Loaded(job, h)' /\ Prefixed(job, h)' /\ Added(job, h)'
  <2>1. Loaded(job, h) /\ Prefixed(job, h) /\ Added(job, h)
    BY DEF ScanInv
  <2>2. Prefixed(job, h)'
    <3>1. \A q \in Nat : pc'[h] \in 5*q+1..5*q+4 => pc[h] \in 5*q+1..5*q+4
      BY <1>1 DEF Moved
    <3> QED
      BY <1>4, <2>1, <3>1 DEF Prefixed
  <2>3. CASE h = g
    <3>1. pc'[h] = 5*r+4
      BY <1>1, <2>3 DEF Moved
    <3>2. Loaded(job, h)'
      BY <3>1 DEF Loaded
    <3>3. Added(job, h)'
      <4>1. \A q \in Nat : pc'[h] = 5*q+4 => q = r
        BY <3>1
      <4> QED
        BY <1>6, <1>16, <2>3, <4>1 DEF Added
    <3> QED
      BY <2>2, <3>2, <3>3
  <2>4. CASE h # g
    <3>1. pc'[h] = pc[h] /\ values'[h] = values[h]
      BY <1>1, <1>16, <2>4 DEF Moved
    <3>2. Loaded(job, h)' /\ Added(job, h)'
      BY <1>4, <2>1, <3>1 DEF Loaded, Added
    <3> QED
      BY <2>2, <3>2
  <2> QED
    BY <2>3, <2>4
<1>19. /\ \A h \in Groups(job) : SumsLeft(job, h)' /\ SumsScanned(job, h)'
       /\ PrefixLeft(job)'
  BY <1>1, <1>4, SumsStay
<1> QED
  BY <1>2, <1>13, <1>14, <1>15, <1>17, <1>18, <1>19 DEF ScanInv, Groups

LEMMA ScanStarts ==
    ASSUME Scan!Init
    PROVE  \E job \in Args : ScanInv(job)
<1>1. PICK job \in Args :
         /\ axis_size = job.n /\ simd_groups = job.groups
         /\ inclusive = job.inclusive /\ reverse = job.reverse
  <2>1. PICK job : job = [n |-> axis_size, groups |-> simd_groups,
                          inclusive |-> inclusive, reverse |-> reverse]
    OBVIOUS
  <2>2. job \in Args
    BY <2>1 DEF Scan!Init, Args
  <2> QED
    BY <2>1, <2>2
<1>2. \A h \in Groups(job) : pc[h] = 0
  BY GroupsExist DEF Scan!Init
<1>3. 0 \in Groups(job) /\ job.groups - 1 \in Groups(job)
  BY GroupsExist
<1>4. ScanType(job)
  BY <1>1, KernelsAssumption DEF ScanType, Scan!Init
<1>5. InStep(job)
  BY <1>2 DEF InStep
<1>6. \A h \in Groups(job) : Loaded(job, h) /\ Prefixed(job, h) /\ Added(job, h)
  BY <1>2 DEF Loaded, Prefixed, Added
<1>7. \A h \in Groups(job) : SumsLeft(job, h) /\ SumsScanned(job, h) /\ ShareWritten(job, h)
  BY <1>2, <1>3 DEF SumsLeft, SumsScanned, ShareWritten
<1>8. PrefixLeft(job) /\ FirstWritten(job)
  BY <1>2, <1>3 DEF PrefixLeft, FirstWritten
<1>9. OnlyRight(job)
  BY DEF OnlyRight, Scan!Init
<1> QED
  BY <1>4, <1>5, <1>6, <1>7, <1>8, <1>9 DEF ScanInv

LEMMA ScanSteps ==
    ASSUME NEW job \in Args, ScanInv(job), Scan!Next
    PROVE  ScanInv(job)'
BY LoadAndScanKeeps, LeaveSumKeeps, ScanSumsKeeps, WriteKeeps, SharePrefixKeeps DEF Scan!Next

LEMMA ScanStutters ==
    ASSUME NEW job \in Args, ScanInv(job), UNCHANGED Scan!vars
    PROVE  ScanInv(job)'
<1> UNCHANGED <<axis_size, simd_groups, inclusive, reverse, pc, values, prev_thread, prefix,
                simdgroup_sums, out>>
  BY DEF Scan!vars
<1>1. ScanType(job)' /\ InStep(job)'
  BY DEF ScanInv, ScanType, InStep
<1>2. ASSUME NEW h \in Groups(job)
      PROVE  Loaded(job, h)' /\ Prefixed(job, h)' /\ Added(job, h)'
  BY DEF ScanInv, Loaded, Prefixed, Added
<1>3. ASSUME NEW h \in Groups(job)
      PROVE  SumsLeft(job, h)' /\ SumsScanned(job, h)' /\ ShareWritten(job, h)'
  BY DEF ScanInv, SumsLeft, SumsScanned, ShareWritten
<1>4. PrefixLeft(job)' /\ FirstWritten(job)'
  BY DEF ScanInv, PrefixLeft, FirstWritten
<1>5. OnlyRight(job)'
  <2>1. Scan!Positions' = Scan!Positions
    BY DEF Scan!Positions, Scan!LSize
  <2> QED
    BY <2>1 DEF ScanInv, OnlyRight
<1> QED
  BY <1>1, <1>2, <1>3, <1>4, <1>5 DEF ScanInv, Groups

LEMMA ScanInvIsRight ==
    ASSUME NEW job \in Args, ScanInv(job)
    PROVE  Scan!ScanIsRight
<1>1. /\ job.n \in Nat /\ 0 \in Groups(job) /\ Groups(job) \subseteq Nat
      /\ Groups(job) \subseteq Scan!AllGroups
      /\ Groups(job) = Scan!SimdGroups /\ Rounds(job) = Scan!Rounds
  BY Sizes, GroupsExist
     DEF ScanInv, ScanType, Groups, Scan!SimdGroups, Rounds, PerRound, Scan!Rounds, Scan!LSize
<1>2. /\ axis_size = job.n /\ simd_groups = job.groups
      /\ inclusive = job.inclusive /\ reverse = job.reverse
      /\ pc \in [Scan!AllGroups -> Nat] /\ job.inclusive \in BOOLEAN
  BY DEF ScanInv, ScanType, Args
<1>3. ASSUME Scan!Finished, NEW p \in 0..job.n-1
      PROVE  out[p] = Right(job, p)
  <2>1. ASSUME NEW g \in Groups(job), NEW r \in 0..Rounds(job)-1
        PROVE  pc[g] >= 5*r+4
    <3>1. pc[g] \div 5 = Rounds(job) /\ pc[g] \in Nat
      BY <1>1, <1>2, <1>3 DEF Scan!Finished, Scan!Round
    <3>2. PICK d \in Nat : d = pc[g] \div 5 /\ pc[g] >= 5 * d
      BY <3>1
    <3> QED
      BY <3>1, <3>2
  <2>2. PICK q \in 0..job.n-1 : q = Along(job, p) /\ Along(job, q) = p
    BY AlongTwice
  <2>3. CASE job.inclusive
    <3>1. PICK r \in 0..Rounds(job)-1, g \in Groups(job), l \in Scan!Lanes, k \in Scan!Reads :
             q = Share(job, r, g, l) + k
      BY SharesCover
    <3>2. ShareWritten(job, g) /\ pc[g] >= 5*r+4 /\ r \in Nat
      BY <2>1 DEF ScanInv
    <3>3. Share(job, r, g, l) + k + Shift(job) = q
      BY <2>2, <2>3, <3>1 DEF Shift
    <3> QED
      BY <1>1, <2>2, <3>2, <3>3 DEF ShareWritten
  <2>4. CASE ~job.inclusive /\ q > 0
    <3>1. PICK m \in 0..job.n-1 : m = q - 1 /\ q = m + 1
      BY <1>1, <2>2, <2>4
    <3>2. PICK r \in 0..Rounds(job)-1, g \in Groups(job), l \in Scan!Lanes, k \in Scan!Reads :
             m = Share(job, r, g, l) + k
      BY SharesCover
    <3>3. ShareWritten(job, g) /\ pc[g] >= 5*r+4 /\ r \in Nat
      BY <2>1 DEF ScanInv
    <3>4. Share(job, r, g, l) + k + Shift(job) = q
      BY <2>4, <3>1, <3>2 DEF Shift
    <3> QED
      BY <1>1, <2>2, <3>3, <3>4 DEF ShareWritten
  <2>5. CASE ~job.inclusive /\ q = 0
    <3>1. pc[0] >= 4
      <4>1. PICK r \in 0..Rounds(job)-1 : TRUE
        BY <2>2, SharesCover
      <4>2. pc[0] >= 5*r+4 /\ r \in Nat
        BY <1>1, <2>1
      <4>3. pc[0] \in Nat
        BY <1>1, <1>2
      <4> QED
        BY <4>2, <4>3
    <3>2. FirstWritten(job) /\ job.n > 0
      BY <1>1, <2>2 DEF ScanInv
    <3> QED
      BY <2>2, <2>5, <3>1, <3>2 DEF FirstWritten
  <2> QED
    BY <1>1, <2>2, <2>3, <2>4, <2>5
<1>4. \A p \in 0..job.n-1 : Scan!Sum(input, Scan!Summed(p)) = Right(job, p)
  BY <1>2, RightIs
<1>5. ASSUME NEW p \in Scan!Positions
      PROVE  IF p \in 0..job.n-1
               THEN out[p] = Right(job, p) \/ (out[p] = Scan!Unwritten /\ ~Scan!Finished)
               ELSE out[p] = Scan!Unwritten
  BY <1>3 DEF ScanInv, OnlyRight
<1> QED
  BY <1>2, <1>4, <1>5 DEF Scan!ScanIsRight

KernelInv == part = "scan" => \E job \in Args : ScanInv(job)

\* The scan's results are right for every size of simdgroups, threadgroups,
\* shares and rows, and any integers in the row.
THEOREM ScansAreRight == KernelSpec => []ScanIsRight
<1>1. KernelInit => KernelInv
  BY ScanStarts DEF KernelInit, KernelInv
<1>2. KernelInv /\ [KernelNext]_KernelVars => KernelInv'
  <2> SUFFICES ASSUME KernelInv, [KernelNext]_KernelVars, part' = "scan"
               PROVE  \E job \in Args : ScanInv(job)'
    BY DEF KernelInv
  <2>1. part = "scan"
    BY DEF KernelNext, KernelVars
  <2>2. PICK job \in Args : ScanInv(job)
    BY <2>1 DEF KernelInv
  <2>3. Scan!Next \/ UNCHANGED Scan!vars
    BY <2>1 DEF KernelNext, KernelVars, scanVars, Scan!vars
  <2> QED
    BY <2>2, <2>3, ScanSteps, ScanStutters
<1>3. KernelInv => ScanIsRight
  BY ScanInvIsRight DEF KernelInv, ScanIsRight
<1> QED
  BY <1>1, <1>2, <1>3, PTL DEF KernelSpec

-----------------------------------------------------------------------------
(* The sorts: merges of two runs.                                          *)

\* The order a stable sort makes: by value, then by where an element came from.
Precedes(e, f) == e.val < f.val \/ (e.val = f.val /\ e.idx < f.idx)

Items == [val : Int, idx : Int]
Rising(x, m) == \A i, j \in 0..m-1 : i < j => Precedes(x[i], x[j])

\* The first a elements of x and b of y come first in a merge of the runs x
\* of m elements and y of n, which takes equal elements from x first.
Split(x, m, y, n, a, b) ==
    /\ a \in 0..m /\ b \in 0..n
    /\ a > 0 /\ b < n => x[a-1].val <= y[b].val
    /\ a < m /\ b > 0 => y[b-1].val < x[a].val

\* There is one such split of each length.
LEMMA SplitIsUnique ==
    ASSUME NEW m \in Nat, NEW n \in Nat,
           NEW x \in [0..m-1 -> Items], NEW y \in [0..n-1 -> Items], Rising(x, m), Rising(y, n)
    PROVE  \A a, c \in 0..m : \A b, d \in 0..n :
              Split(x, m, y, n, a, b) /\ Split(x, m, y, n, c, d) /\ a + b = c + d
                 => a = c /\ b = d
<1>3. ASSUME NEW a \in 0..m, NEW b \in 0..n, NEW c \in 0..m, NEW d \in 0..n,
             Split(x, m, y, n, a, b), Split(x, m, y, n, c, d), a + b = c + d, c < a
      PROVE  FALSE
  <2>1. /\ b < d /\ c <= a - 1 /\ b <= d - 1
        /\ a - 1 \in 0..m-1 /\ c \in 0..m-1 /\ b \in 0..n-1 /\ d - 1 \in 0..n-1
    BY <1>3
  <2>2. x[a-1].val <= y[b].val /\ y[d-1].val < x[c].val
    BY <1>3, <2>1 DEF Split
  <2>3. /\ x[a-1].val \in Int /\ x[c].val \in Int /\ y[b].val \in Int /\ y[d-1].val \in Int
    BY <2>1 DEF Items
  <2>4. x[c].val <= x[a-1].val
    BY <2>1, <2>3 DEF Rising, Precedes
  <2>5. y[b].val <= y[d-1].val
    <3>1. PICK h \in 0..n-1 : h = d - 1 /\ b <= h
      BY <2>1
    <3>2. CASE b < h
      BY <2>1, <2>3, <3>1, <3>2 DEF Rising, Precedes
    <3> QED
      BY <2>3, <3>1, <3>2
  <2> QED
    BY <2>2, <2>3, <2>4, <2>5
<1> SUFFICES ASSUME NEW a \in 0..m, NEW b \in 0..n, NEW c \in 0..m, NEW d \in 0..n,
                    Split(x, m, y, n, a, b), Split(x, m, y, n, c, d), a + b = c + d
             PROVE  a = c /\ b = d
  OBVIOUS
<1>1. ~(c < a)
  BY <1>3
<1>2. ~(a < c)
  BY <1>3
<1> QED
  BY <1>1, <1>2

\* e is the element at place k of the merge.
MergedAt(x, m, y, n, k, e) ==
    \E a \in 0..m, b \in 0..n :
       /\ a + b = k /\ Split(x, m, y, n, a, b)
       /\ \/ a < m /\ Split(x, m, y, n, a + 1, b) /\ e = x[a]
          \/ b < n /\ Split(x, m, y, n, a, b + 1) /\ e = y[b]

\* Merged elements follow one another.
LEMMA MergeRises ==
    ASSUME NEW m \in Nat, NEW n \in Nat,
           NEW x \in [0..m-1 -> Items], NEW y \in [0..n-1 -> Items], Rising(x, m), Rising(y, n),
           \A i \in 0..m-1 : \A j \in 0..n-1 : x[i].idx < y[j].idx,
           NEW k \in Nat, NEW e, NEW f,
           MergedAt(x, m, y, n, k, e), MergedAt(x, m, y, n, k + 1, f)
    PROVE  Precedes(e, f)
<1>1. PICK a \in 0..m, b \in 0..n :
         /\ a + b = k /\ Split(x, m, y, n, a, b)
         /\ \/ a < m /\ Split(x, m, y, n, a + 1, b) /\ e = x[a]
            \/ b < n /\ Split(x, m, y, n, a, b + 1) /\ e = y[b]
  BY DEF MergedAt
<1>2. PICK c \in 0..m, d \in 0..n :
         /\ c + d = k + 1 /\ Split(x, m, y, n, c, d)
         /\ \/ c < m /\ Split(x, m, y, n, c + 1, d) /\ f = x[c]
            \/ d < n /\ Split(x, m, y, n, c, d + 1) /\ f = y[d]
  BY DEF MergedAt
<1>3. /\ \A i \in 0..m-1 : x[i].val \in Int /\ x[i].idx \in Int
      /\ \A i \in 0..n-1 : y[i].val \in Int /\ y[i].idx \in Int
  BY DEF Items
<1>u. \A p, r \in 0..m : \A q, t \in 0..n :
         Split(x, m, y, n, p, q) /\ Split(x, m, y, n, r, t) /\ p + q = r + t => p = r /\ q = t
  BY SplitIsUnique
<1>4. CASE a < m /\ Split(x, m, y, n, a + 1, b) /\ e = x[a]
  <2>1. c = a + 1 /\ d = b
    <3>1. PICK s \in 0..m : s = a + 1
      BY <1>4
    <3>2. Split(x, m, y, n, s, b) /\ Split(x, m, y, n, c, d) /\ s + b = c + d
      BY <1>1, <1>2, <1>4, <3>1
    <3>3. Split(x, m, y, n, s, b) /\ Split(x, m, y, n, c, d) /\ s + b = c + d => s = c /\ b = d
      BY <1>u, Zenon
    <3>4. s = c /\ b = d
      BY <3>2, <3>3
    <3> QED
      BY <3>1, <3>4
  <2>2. CASE c < m /\ f = x[c]
    <3>1. a \in 0..m-1 /\ c \in 0..m-1 /\ a < c
      BY <2>1, <2>2
    <3> QED
      BY <1>4, <2>2, <3>1 DEF Rising
  <2>3. CASE d < n /\ f = y[d]
    <3>1. a \in 0..m-1 /\ d \in 0..n-1
      BY <1>4, <2>3
    <3>2. x[a].val <= y[d].val
      BY <1>4, <2>1, <2>3 DEF Split
    <3> QED
      BY <1>3, <1>4, <2>3, <3>1, <3>2 DEF Precedes
  <2> QED
    BY <1>2, <2>2, <2>3
<1>5. CASE b < n /\ Split(x, m, y, n, a, b + 1) /\ e = y[b]
  <2>1. c = a /\ d = b + 1
    <3>1. PICK s \in 0..n : s = b + 1
      BY <1>5
    <3>2. Split(x, m, y, n, a, s) /\ Split(x, m, y, n, c, d) /\ a + s = c + d
      BY <1>1, <1>2, <1>5, <3>1
    <3>3. Split(x, m, y, n, a, s) /\ Split(x, m, y, n, c, d) /\ a + s = c + d => a = c /\ s = d
      BY <1>u, Zenon
    <3>4. a = c /\ s = d
      BY <3>2, <3>3
    <3> QED
      BY <3>1, <3>4
  <2>2. CASE d < n /\ f = y[d]
    <3>1. b \in 0..n-1 /\ d \in 0..n-1 /\ b < d
      BY <2>1, <2>2
    <3> QED
      BY <1>5, <2>2, <3>1 DEF Rising
  <2>3. CASE c < m /\ f = x[c]
    <3>1. c \in 0..m-1 /\ b \in 0..n-1
      BY <1>5, <2>3
    <3>2. y[b].val < x[c].val
      BY <1>5, <2>1, <2>3 DEF Split
    <3> QED
      BY <1>5, <2>3, <3>2 DEF Precedes
  <2> QED
    BY <1>2, <2>2, <2>3
<1> QED
  BY <1>1, <1>4, <1>5

\* What the binary search for a split finds, C being where it turns down.
IsSearch(S, C, m) ==
    S = [r \in (0..m) \X (0..m) |->
           IF r[1] >= r[2] THEN r[2]
           ELSE IF r[1] + (r[2] - r[1]) \div 2 \in C THEN S[<<r[1], r[1] + (r[2] - r[1]) \div 2>>]
           ELSE S[<<r[1] + (r[2] - r[1]) \div 2 + 1, r[2]>>]]

LEMMA SearchFinds ==
    ASSUME NEW m \in Nat, NEW C, NEW S, IsSearch(S, C, m)
    PROVE  \A lo, hi \in 0..m : lo <= hi =>
              /\ S[<<lo, hi>>] \in lo..hi
              /\ S[<<lo, hi>>] > lo => S[<<lo, hi>>] - 1 \notin C
              /\ S[<<lo, hi>>] < hi => S[<<lo, hi>>] \in C
<1> DEFINE Finds(lo, hi) ==
              /\ S[<<lo, hi>>] \in lo..hi
              /\ S[<<lo, hi>>] > lo => S[<<lo, hi>>] - 1 \notin C
              /\ S[<<lo, hi>>] < hi => S[<<lo, hi>>] \in C
           Holds == {d \in 0..m : \A lo, hi \in 0..m : lo <= hi /\ hi - lo <= d => Finds(lo, hi)}
<1>1. \A lo, hi \in 0..m :
         S[<<lo, hi>>] = IF lo >= hi THEN hi
                     ELSE IF lo + (hi - lo) \div 2 \in C THEN S[<<lo, lo + (hi - lo) \div 2>>]
                     ELSE S[<<lo + (hi - lo) \div 2 + 1, hi>>]
  BY DEF IsSearch
<1>2. 0 \in Holds
  <2> SUFFICES ASSUME NEW lo \in 0..m, NEW hi \in 0..m, lo <= hi, hi - lo <= 0
               PROVE  Finds(lo, hi)
    OBVIOUS
  <2>1. lo = hi /\ lo >= hi
    OBVIOUS
  <2>2. S[<<lo, hi>>] = hi
    BY <1>1, <2>1
  <2> QED
    BY <2>1, <2>2
<1>3. ASSUME NEW d \in 0..m-1, d \in Holds PROVE d + 1 \in Holds
  <2>1. ASSUME NEW lo \in 0..m, NEW hi \in 0..m, lo <= hi, hi - lo <= d + 1
        PROVE  Finds(lo, hi)
    <3>1. CASE lo >= hi
      <4>1. lo = hi
        BY <2>1, <3>1
      <4>2. S[<<lo, hi>>] = hi
        BY <1>1, <3>1
      <4> QED
        BY <4>1, <4>2
    <3>2. CASE lo < hi
      <4>1. PICK md \in lo..hi-1 : md = lo + (hi - lo) \div 2
        BY <3>2
      <4>2. /\ md \in 0..m /\ md + 1 \in 0..m /\ lo <= md /\ md + 1 <= hi
            /\ md - lo <= d /\ hi - (md + 1) <= d
        BY <2>1, <4>1
      <4>3. Finds(lo, md) /\ Finds(md + 1, hi)
        BY <1>3, <4>2
      <4>4. S[<<lo, hi>>] = IF md \in C THEN S[<<lo, md>>] ELSE S[<<md + 1, hi>>]
        BY <1>1, <3>2, <4>1
      <4>5. CASE md \in C
        <5>1. PICK r \in lo..md : r = S[<<lo, md>>] /\ r = S[<<lo, hi>>]
          BY <4>3, <4>4, <4>5
        <5>2. (r > lo => r - 1 \notin C) /\ (r < md => r \in C)
          BY <4>3, <5>1
        <5> QED
          BY <4>1, <4>5, <5>1, <5>2
      <4>6. CASE md \notin C
        <5>1. PICK r \in md+1..hi : r = S[<<md + 1, hi>>] /\ r = S[<<lo, hi>>]
          BY <4>3, <4>4, <4>6
        <5>2. (r > md + 1 => r - 1 \notin C) /\ (r < hi => r \in C)
          BY <4>3, <5>1
        <5>3. r = md + 1 => r - 1 = md
          BY <5>1
        <5> QED
          BY <4>1, <4>6, <5>1, <5>2, <5>3
      <4> QED
        BY <4>5, <4>6
    <3> QED
      BY <3>1, <3>2
  <2> QED
    BY <2>1
<1>4. m \in Holds
  <2> HIDE DEF Holds
  <2>1. 0..m \subseteq Holds
    BY <1>2, <1>3, UpTo
  <2> QED
    BY <2>1
<1> QED
  <2> SUFFICES ASSUME NEW lo \in 0..m, NEW hi \in 0..m, lo <= hi PROVE Finds(lo, hi)
    OBVIOUS
  <2>1. hi - lo <= m
    OBVIOUS
  <2> QED
    BY <1>4, <2>1

LEMMA SearchExists ==
    ASSUME NEW m \in Nat, NEW C
    PROVE  \E S : IsSearch(S, C, m)
<1> DEFINE Pairs == (0..m) \X (0..m)
           Body(S, r) ==
              IF r[1] >= r[2] THEN r[2]
              ELSE IF r[1] + (r[2] - r[1]) \div 2 \in C THEN S[<<r[1], r[1] + (r[2] - r[1]) \div 2>>]
              ELSE S[<<r[1] + (r[2] - r[1]) \div 2 + 1, r[2]>>]
           Agrees(S, d) == \A r \in Pairs : r[2] - r[1] <= d => S[r] = Body(S, r)
           Found == {d \in 0..m : \E S : Agrees(S, d)}
<1> HIDE DEF Body
\* A function that agrees with the recursion on shorter ranges does so one further.
<1>c. ASSUME NEW S, NEW R, NEW d \in 0..m, NEW r \in Pairs, r[2] - r[1] <= d + 1,
             \A s \in Pairs : s[2] - s[1] <= d => R[s] = S[s]
      PROVE  Body(R, r) = Body(S, r)
  <2>1. PICK lo \in 0..m, hi \in 0..m : lo = r[1] /\ hi = r[2] /\ r = <<lo, hi>>
    OBVIOUS
  <2>2. CASE lo >= hi
    BY <2>1, <2>2 DEF Body
  <2>3. CASE lo < hi
    <3>1. PICK md \in lo..hi-1 : md = lo + (hi - lo) \div 2
      BY <2>3
    <3>2. PICK up \in lo+1..hi : up = md + 1
      BY <3>1
    <3>3. /\ Body(S, r) = IF md \in C THEN S[<<lo, md>>] ELSE S[<<up, hi>>]
          /\ Body(R, r) = IF md \in C THEN R[<<lo, md>>] ELSE R[<<up, hi>>]
      BY <2>1, <2>3, <3>1, <3>2 DEF Body
    <3>4. /\ <<lo, md>> \in Pairs /\ <<up, hi>> \in Pairs
          /\ md - lo <= d /\ hi - up <= d
      BY <1>c, <2>1, <3>1, <3>2
    <3>5. R[<<lo, md>>] = S[<<lo, md>>] /\ R[<<up, hi>>] = S[<<up, hi>>]
      BY <1>c, <3>4
    <3> QED
      BY <3>3, <3>5
  <2> QED
    BY <2>1, <2>2, <2>3
<1>1. 0 \in Found
  <2>1. PICK S : S = [r \in Pairs |-> r[2]]
    OBVIOUS
  <2>2. ASSUME NEW r \in Pairs, r[2] - r[1] <= 0 PROVE S[r] = Body(S, r)
    <3>1. r[1] \in 0..m /\ r[2] \in 0..m
      OBVIOUS
    <3>2. r[1] >= r[2]
      BY <2>2, <3>1
    <3> QED
      BY <2>1, <3>2 DEF Body
  <2> QED
    BY <2>2
<1>2. ASSUME NEW d \in 0..m-1, d \in Found PROVE d + 1 \in Found
  <2>1. PICK S : Agrees(S, d)
    BY <1>2
  <2>2. PICK R : R = [r \in Pairs |-> IF r[2] - r[1] <= d THEN S[r] ELSE Body(S, r)]
    OBVIOUS
  <2>3. \A r \in Pairs : R[r] = Body(S, r)
    BY <2>1, <2>2
  <2>4. \A s \in Pairs : s[2] - s[1] <= d => R[s] = S[s]
    BY <2>2
  <2>5. d + 1 \in 0..m /\ d \in 0..m
    OBVIOUS
  <2>6. \A r \in Pairs : r[2] - r[1] <= d + 1 => Body(R, r) = Body(S, r)
    BY <1>c, <2>4, <2>5
  <2>7. Agrees(R, d + 1)
    BY <2>3, <2>6
  <2> QED
    BY <2>5, <2>7
<1>3. m \in Found
  <2> HIDE DEF Found
  <2>1. 0..m \subseteq Found
    BY <1>1, <1>2, UpTo
  <2> QED
    BY <2>1
<1>4. PICK S : Agrees(S, m)
  BY <1>3
<1>5. PICK R : R = [r \in Pairs |-> S[r]]
  OBVIOUS
<1>6. \A r \in Pairs : r[2] - r[1] <= m + 1 /\ r[2] - r[1] <= m
  OBVIOUS
<1>7. \A r \in Pairs : R[r] = Body(R, r)
  <2>1. \A s \in Pairs : s[2] - s[1] <= m => R[s] = S[s]
    BY <1>5
  <2>2. m \in 0..m
    OBVIOUS
  <2>3. \A r \in Pairs : Body(R, r) = Body(S, r)
    BY <1>6, <1>c, <2>1, <2>2
  <2> QED
    BY <1>4, <1>5, <1>6, <2>3
<1>8. R = [r \in Pairs |-> Body(R, r)]
  <2> HIDE DEF Pairs
  <2> QED
    BY <1>5, <1>7
<1> QED
  BY <1>8 DEF IsSearch, Body


\* Runs x and y that follow one another in memory.
RunsIn(mem, A, B, x, m, y, n) ==
    /\ \A i \in 0..m-1 : mem[A + i] = x[i]
    /\ \A j \in 0..n-1 : mem[B + j] = y[j]

\* p of the first k elements come from the first run.
Splits(x, m, y, n, k, p) == p \in 0..m /\ k - p \in 0..n /\ Split(x, m, y, n, p, k - p)

\* The search turns down where an element of the first run comes after its
\* counterpart in the second; where it stops is a split.
LEMMA SearchSplits ==
    ASSUME NEW m \in Nat, NEW n \in Nat, NEW x, NEW y, NEW k \in 0..m+n, NEW C, NEW S,
           IsSearch(S, C, m),
           \A i \in 0..m-1 : k - 1 - i \in 0..n-1 => (i \in C <=> y[k-1-i].val < x[i].val),
           \A i \in 0..m-1 : x[i].val \in Int, \A j \in 0..n-1 : y[j].val \in Int,
           NEW lo, NEW hi, lo = IF 0 > k - n THEN 0 ELSE k - n, hi = IF k < m THEN k ELSE m
    PROVE  Splits(x, m, y, n, k, S[<<lo, hi>>])
<1>1. lo \in 0..m /\ hi \in 0..m /\ lo <= hi
  OBVIOUS
<1>2. /\ S[<<lo, hi>>] \in lo..hi
      /\ S[<<lo, hi>>] > lo => S[<<lo, hi>>] - 1 \notin C
      /\ S[<<lo, hi>>] < hi => S[<<lo, hi>>] \in C
  BY <1>1, SearchFinds
<1>3. PICK a \in lo..hi : a = S[<<lo, hi>>]
  BY <1>2
<1>4. PICK b : b = k - a
  OBVIOUS
<1>5. a \in 0..m /\ b \in 0..n
  BY <1>1, <1>4
<1>6. a > 0 /\ b < n => x[a-1].val <= y[b].val
  <2> SUFFICES ASSUME a > 0, b < n PROVE x[a-1].val <= y[b].val
    OBVIOUS
  <2>1. PICK i \in 0..m-1 : i = a - 1 /\ k - 1 - i = b /\ b \in 0..n-1
    BY <1>4, <1>5
  <2>2. a > lo
    BY <1>4
  <2>3. i \notin C
    BY <1>2, <1>3, <2>1, <2>2
  <2>4. ~(y[b].val < x[i].val)
    BY <2>1, <2>3
  <2>5. y[b].val \in Int /\ x[i].val \in Int
    BY <2>1
  <2> QED
    BY <2>1, <2>4, <2>5
<1>7. a < m /\ b > 0 => y[b-1].val < x[a].val
  <2> SUFFICES ASSUME a < m, b > 0 PROVE y[b-1].val < x[a].val
    OBVIOUS
  <2>1. a \in 0..m-1 /\ k - 1 - a = b - 1 /\ b - 1 \in 0..n-1
    BY <1>4, <1>5
  <2>2. a < hi
    BY <1>4
  <2>3. a \in C
    BY <1>2, <1>3, <2>2
  <2> QED
    BY <2>1, <2>3
<1> QED
  BY <1>3, <1>4, <1>5, <1>6, <1>7 DEF Split, Splits

\* merge_partition finds the split of the length it is asked for.
LEMMA BlockPartition ==
    ASSUME NEW m \in Nat, NEW n \in Nat, NEW x, NEW y, NEW k \in 0..m+n,
           NEW mem, NEW A \in Int, NEW B \in Int, RunsIn(mem, A, B, x, m, y, n),
           \A i \in 0..m-1 : x[i].val \in Int, \A j \in 0..n-1 : y[j].val \in Int
    PROVE  Splits(x, m, y, n, k, Block!MergePartition(mem, A, B, m, n, k))
<1>1. PICK C : C = {i \in 0..m : mem[B + k - 1 - i].val < mem[A + i].val}
  OBVIOUS
<1>2. \A S : IsSearch(S, C, m) <=>
        S = [range \in (0..m) \X (0..m) |->
               LET lo == range[1]  hi == range[2]  md == lo + (hi - lo) \div 2 IN
               IF lo >= hi THEN hi
               ELSE IF mem[B + k - 1 - md].val < mem[A + md].val THEN S[<<lo, md>>]
               ELSE S[<<md + 1, hi>>]]
  <2> DEFINE Mid(r) == r[1] + (r[2] - r[1]) \div 2
  <2> TAKE S
  <2>1. ASSUME NEW r \in (0..m) \X (0..m), ~(r[1] >= r[2])
        PROVE  Mid(r) \in C <=> mem[B + k - 1 - Mid(r)].val < mem[A + Mid(r)].val
    <3>1. PICK lo \in 0..m, hi \in 0..m : lo = r[1] /\ hi = r[2] /\ lo < hi
      BY <2>1
    <3>2. PICK md \in 0..m : md = Mid(r)
      BY <3>1
    <3> HIDE DEF Mid
    <3> QED
      BY <1>1, <3>2
  <2>2. \A r \in (0..m) \X (0..m) :
           (IF r[1] >= r[2] THEN r[2]
            ELSE IF Mid(r) \in C THEN S[<<r[1], Mid(r)>>] ELSE S[<<Mid(r) + 1, r[2]>>])
           = (IF r[1] >= r[2] THEN r[2]
              ELSE IF mem[B + k - 1 - Mid(r)].val < mem[A + Mid(r)].val THEN S[<<r[1], Mid(r)>>]
              ELSE S[<<Mid(r) + 1, r[2]>>])
    <3> HIDE DEF Mid
    <3> QED
      BY <2>1
  <2> QED
    BY <2>2, Zenon DEF IsSearch
<1>3. PICK S : IsSearch(S, C, m)
  BY SearchExists
<1> DEFINE Lo == IF 0 > k - n THEN 0 ELSE k - n
           Hi == IF k < m THEN k ELSE m
<1>4. Block!MergePartition(mem, A, B, m, n, k)
        = LET Search[range \in (0..m) \X (0..m)] ==
                LET lo == range[1]  hi == range[2]  md == lo + (hi - lo) \div 2 IN
                IF lo >= hi THEN hi
                ELSE IF mem[B + k - 1 - md].val < mem[A + md].val THEN Search[<<lo, md>>]
                ELSE Search[<<md + 1, hi>>]
          IN Search[<<Lo, Hi>>]
  BY Zenon DEF Block!MergePartition, Block!LessThan, Block!Larger, Block!Smaller
<1>5. PICK R : IsSearch(R, C, m) /\ Block!MergePartition(mem, A, B, m, n, k) = R[<<Lo, Hi>>]
  BY <1>2, <1>3, <1>4, Zenon
<1>6. \A i \in 0..m-1 : k - 1 - i \in 0..n-1 => (i \in C <=> y[k-1-i].val < x[i].val)
  BY <1>1 DEF RunsIn
<1>7. PICK lo, hi : lo = Lo /\ hi = Hi
  OBVIOUS
<1>8. Splits(x, m, y, n, k, R[<<lo, hi>>])
  BY <1>5, <1>6, <1>7, SearchSplits
<1> QED
  BY <1>5, <1>7, <1>8

\* merge_step takes the element of the second run.
TakesB(x, m, y, n, a, b) == b < n /\ (a >= m \/ y[b].val < x[a].val)

LEMMA RisingValues ==
    ASSUME NEW m \in Nat, NEW x \in [0..m-1 -> Items], Rising(x, m)
    PROVE  \A i, j \in 0..m-1 : i < j => x[i].val <= x[j].val
<1> SUFFICES ASSUME NEW i \in 0..m-1, NEW j \in 0..m-1, i < j PROVE x[i].val <= x[j].val
  OBVIOUS
<1>1. Precedes(x[i], x[j])
  BY DEF Rising
<1>2. x[i].val \in Int /\ x[j].val \in Int
  BY DEF Items
<1> QED
  BY <1>1, <1>2 DEF Precedes

LEMMA SplitGrows ==
    ASSUME NEW m \in Nat, NEW n \in Nat,
           NEW x \in [0..m-1 -> Items], NEW y \in [0..n-1 -> Items], Rising(x, m), Rising(y, n),
           NEW a \in 0..m, NEW b \in 0..n, Split(x, m, y, n, a, b), a + b < m + n
    PROVE  IF TakesB(x, m, y, n, a, b) THEN b < n /\ Split(x, m, y, n, a, b + 1)
           ELSE a < m /\ Split(x, m, y, n, a + 1, b)
<1>a. /\ \A i \in 0..m-1 : x[i].val \in Int
      /\ \A i \in 0..n-1 : y[i].val \in Int
  BY DEF Items
<1>b. /\ \A i, j \in 0..m-1 : i < j => x[i].val <= x[j].val
      /\ \A i, j \in 0..n-1 : i < j => y[i].val <= y[j].val
  BY RisingValues
<1>1. /\ \A i \in 0..m-1 : x[i].val \in Int
      /\ \A i \in 0..n-1 : y[i].val \in Int
      /\ \A i \in 0..m-2 : x[i].val <= x[i+1].val
      /\ \A i \in 0..n-2 : y[i].val <= y[i+1].val
  <2>1. \A i \in 0..m-2 : i \in 0..m-1 /\ i + 1 \in 0..m-1 /\ i < i + 1
    OBVIOUS
  <2>2. \A i \in 0..n-2 : i \in 0..n-1 /\ i + 1 \in 0..n-1 /\ i < i + 1
    OBVIOUS
  <2> QED
    BY <1>a, <1>b, <2>1, <2>2
<1>2. /\ a > 0 /\ b < n => x[a-1].val <= y[b].val
      /\ a < m /\ b > 0 => y[b-1].val < x[a].val
  BY DEF Split
<1>3. CASE TakesB(x, m, y, n, a, b)
  <2>1. b < n /\ (a >= m \/ y[b].val < x[a].val)
    BY <1>3 DEF TakesB
  <2>2. PICK d \in 0..n : d = b + 1 /\ d - 1 = b
    BY <2>1
  <2>3. a > 0 /\ d < n => x[a-1].val <= y[d].val
    <3> SUFFICES ASSUME a > 0, d < n PROVE x[a-1].val <= y[d].val
      OBVIOUS
    <3>1. a - 1 \in 0..m-1 /\ b \in 0..n-2 /\ d \in 0..n-1
      BY <2>2
    <3>2. x[a-1].val <= y[b].val /\ y[b].val <= y[d].val
      BY <1>1, <1>2, <2>1, <2>2, <3>1
    <3>3. x[a-1].val \in Int /\ y[b].val \in Int /\ y[d].val \in Int
      BY <1>1, <3>1
    <3> QED
      BY <3>2, <3>3
  <2>4. a < m => y[d-1].val < x[a].val
    BY <2>1, <2>2
  <2>5. Split(x, m, y, n, a, d)
    BY <2>3, <2>4 DEF Split
  <2> QED
    BY <1>3, <2>1, <2>2, <2>5
<1>4. CASE ~TakesB(x, m, y, n, a, b)
  <2>1. a < m /\ (b < n => ~(y[b].val < x[a].val))
    BY <1>4 DEF TakesB
  <2>2. PICK c \in 0..m : c = a + 1 /\ c - 1 = a
    BY <2>1
  <2>3. c < m /\ b > 0 => y[b-1].val < x[c].val
    <3> SUFFICES ASSUME c < m, b > 0 PROVE y[b-1].val < x[c].val
      OBVIOUS
    <3>1. b - 1 \in 0..n-1 /\ a \in 0..m-2 /\ c \in 0..m-1
      BY <2>2
    <3>2. y[b-1].val < x[a].val /\ x[a].val <= x[c].val
      BY <1>1, <1>2, <2>1, <2>2, <3>1
    <3>3. y[b-1].val \in Int /\ x[a].val \in Int /\ x[c].val \in Int
      BY <1>1, <3>1
    <3> QED
      BY <3>2, <3>3
  <2>4. b < n => x[c-1].val <= y[b].val
    <3> SUFFICES ASSUME b < n PROVE x[c-1].val <= y[b].val
      OBVIOUS
    <3>1. x[a].val \in Int /\ y[b].val \in Int
      BY <1>1, <2>1
    <3> QED
      BY <2>1, <2>2, <3>1
  <2>5. Split(x, m, y, n, c, b)
    BY <2>3, <2>4 DEF Split
  <2> QED
    BY <1>4, <2>1, <2>2, <2>5
<1> QED
  BY <1>3, <1>4

\* How many elements merge_step has taken from the first run before each one,
\* when p and q elements of the runs come before.
Walks(F, x, m, y, n, p, q, N) ==
    /\ F[0] = 0
    /\ \A i \in 0..N-1 :
          F[i+1] = IF TakesB(x, m, y, n, p + F[i], q + (i - F[i])) THEN F[i] ELSE F[i] + 1

\* The element merge_step takes next.
Taken(x, m, y, n, a, b) == IF TakesB(x, m, y, n, a, b) THEN y[b] ELSE x[a]

\* z holds a part of the merge, from its element k on.
IsPart(x, m, y, n, k, N, z) ==
    \A i \in 0..N-1 : k + i < m + n => MergedAt(x, m, y, n, k + i, z[i])

LEMMA WalkMerges ==
    ASSUME NEW m \in Nat, NEW n \in Nat,
           NEW x \in [0..m-1 -> Items], NEW y \in [0..n-1 -> Items], Rising(x, m), Rising(y, n),
           NEW p \in 0..m, NEW q \in 0..n, Split(x, m, y, n, p, q),
           NEW N \in Nat, NEW F, Walks(F, x, m, y, n, p, q, N),
           NEW z, \A i \in 0..N-1 : p + q + i < m + n /\ F[i] \in 0..i =>
                     z[i] = Taken(x, m, y, n, p + F[i], q + (i - F[i]))
    PROVE  IsPart(x, m, y, n, p + q, N, z)
<1> DEFINE Reaches(i, f) ==
              /\ f \in 0..i /\ p + f \in 0..m /\ q + (i - f) \in 0..n
              /\ \A a \in 0..m : \A b \in 0..n :
                    a = p + f /\ b = q + (i - f) => Split(x, m, y, n, a, b)
           Far == {i \in 0..N : p + q + i <= m + n => Reaches(i, F[i])}
<1>1. 0 \in Far
  <2>1. F[0] = 0 /\ p + 0 = p /\ q + (0 - 0) = q
    BY DEF Walks
  <2>2. \A a \in 0..m : \A b \in 0..n : a = p + 0 /\ b = q + (0 - 0) => a = p /\ b = q
    BY <2>1
  <2>3. \A a \in 0..m : \A b \in 0..n : a = p + 0 /\ b = q + (0 - 0) => Split(x, m, y, n, a, b)
    BY <2>2, Zenon
  <2>4. Reaches(0, 0)
    BY <2>1, <2>3
  <2> QED
    BY <2>1, <2>4
<1>2. ASSUME NEW i \in 0..N-1, Reaches(i, F[i]), p + q + i < m + n
      PROVE  Reaches(i + 1, F[i+1]) /\ MergedAt(x, m, y, n, p + q + i, z[i])
  <2>1. PICK f \in 0..i : f = F[i]
    BY <1>2
  <2>2. PICK a \in 0..m : a = p + f
    BY <1>2, <2>1
  <2>3. PICK b \in 0..n : b = q + (i - f)
    BY <1>2, <2>1
  <2>4. a + b = p + q + i /\ Split(x, m, y, n, a, b) /\ a + b < m + n
    <3>1. a + b = p + q + i /\ a + b < m + n
      BY <1>2, <2>2, <2>3
    <3>2. \A c \in 0..m : \A d \in 0..n :
             c = p + f /\ d = q + (i - f) => Split(x, m, y, n, c, d)
      BY <1>2, <2>1
    <3>3. Split(x, m, y, n, a, b)
      BY <2>2, <2>3, <3>2
    <3> QED
      BY <3>1, <3>3
  <2>5. z[i] = IF TakesB(x, m, y, n, a, b) THEN y[b] ELSE x[a]
    BY <1>2, <2>1, <2>2, <2>3 DEF Taken
  <2>6. F[i+1] = IF TakesB(x, m, y, n, a, b) THEN f ELSE f + 1
    BY <2>1, <2>2, <2>3 DEF Walks
  <2>7. IF TakesB(x, m, y, n, a, b) THEN b < n /\ Split(x, m, y, n, a, b + 1)
        ELSE a < m /\ Split(x, m, y, n, a + 1, b)
    BY <2>4, SplitGrows
  <2>8. CASE TakesB(x, m, y, n, a, b)
    <3>1. z[i] = y[b] /\ F[i+1] = f /\ b < n /\ Split(x, m, y, n, a, b + 1)
      BY <2>5, <2>6, <2>7, <2>8
    <3>2. p + f = a /\ q + (i + 1 - f) = b + 1 /\ f \in 0..i+1 /\ b + 1 \in 0..n
      BY <2>2, <2>3, <3>1
    <3>3. Reaches(i + 1, f)
      <4>1. PICK d \in 0..n : d = b + 1 /\ Split(x, m, y, n, a, d)
        BY <3>1
      <4>2. \A u \in 0..m : \A v \in 0..n :
               u = p + f /\ v = q + (i + 1 - f) => u = a /\ v = d
        BY <3>2, <4>1
      <4>3. p + f \in 0..m /\ q + (i + 1 - f) \in 0..n
        BY <3>2
      <4>4. \A u \in 0..m : \A v \in 0..n :
               u = p + f /\ v = q + (i + 1 - f) => Split(x, m, y, n, u, v)
        BY <4>1, <4>2, Zenon
      <4> QED
        BY <3>2, <4>3, <4>4
    <3>4. MergedAt(x, m, y, n, p + q + i, z[i])
      BY <2>4, <3>1 DEF MergedAt
    <3> HIDE DEF Reaches
    <3> QED
      BY <3>1, <3>3, <3>4
  <2>9. CASE ~TakesB(x, m, y, n, a, b)
    <3>1. PICK g \in 1..i+1 : g = f + 1
      OBVIOUS
    <3>2. z[i] = x[a] /\ F[i+1] = g /\ a < m /\ Split(x, m, y, n, a + 1, b)
      BY <2>5, <2>6, <2>7, <2>9, <3>1
    <3>3. p + g = a + 1 /\ q + (i + 1 - g) = b /\ g \in 0..i+1 /\ a + 1 \in 0..m
      BY <2>2, <2>3, <3>1, <3>2
    <3>4. Reaches(i + 1, g)
      <4>1. PICK c \in 0..m : c = a + 1 /\ Split(x, m, y, n, c, b)
        BY <3>2
      <4>2. \A u \in 0..m : \A v \in 0..n :
               u = p + g /\ v = q + (i + 1 - g) => u = c /\ v = b
        BY <3>3, <4>1
      <4>3. p + g \in 0..m /\ q + (i + 1 - g) \in 0..n
        BY <3>3
      <4>4. \A u \in 0..m : \A v \in 0..n :
               u = p + g /\ v = q + (i + 1 - g) => Split(x, m, y, n, u, v)
        BY <4>1, <4>2, Zenon
      <4> QED
        BY <3>3, <4>3, <4>4
    <3>5. MergedAt(x, m, y, n, p + q + i, z[i])
      BY <2>4, <3>2 DEF MergedAt
    <3> HIDE DEF Reaches
    <3> QED
      BY <3>2, <3>4, <3>5
  <2> QED
    BY <2>8, <2>9
<1> HIDE DEF Reaches
<1>3. ASSUME NEW i \in 0..N-1, i \in Far PROVE i + 1 \in Far
  <2>1. i + 1 \in 0..N /\ (p + q + (i + 1) <= m + n => p + q + i < m + n /\ p + q + i <= m + n)
    OBVIOUS
  <2> QED
    BY <1>2, <1>3, <2>1
<1>4. 0..N \subseteq Far
  <2> HIDE DEF Far
  <2> QED
    BY <1>1, <1>3, UpTo
<1>5. \A i \in 0..N-1 : p + q + i < m + n => Reaches(i, F[i])
  <2> SUFFICES ASSUME NEW i \in 0..N-1, p + q + i < m + n PROVE Reaches(i, F[i])
    OBVIOUS
  <2>1. i \in Far /\ p + q + i <= m + n
    BY <1>4
  <2> QED
    BY <2>1
<1> QED
  BY <1>2, <1>5 DEF IsPart

\* The recursion of merge_step, which takes an element of the second run when
\* the counts of those taken before are in T.
IsWalk(F, T, N) ==
    F = [i \in 0..N |-> IF i = 0 THEN 0
                        ELSE IF <<F[i-1], i-1 - F[i-1]>> \in T THEN F[i-1] ELSE F[i-1] + 1]

LEMMA WalkExists ==
    ASSUME NEW N \in Nat, NEW T
    PROVE  \E F : IsWalk(F, T, N) /\ \A i \in 0..N : F[i] \in 0..i
<1> DEFINE Body(F, i) == IF i = 0 THEN 0
                         ELSE IF <<F[i-1], i-1 - F[i-1]>> \in T THEN F[i-1] ELSE F[i-1] + 1
           Found == {d \in 0..N : \E F : \A i \in 0..d : F[i] = Body(F, i) /\ F[i] \in 0..i}
<1>c. ASSUME NEW F, NEW R, NEW d \in Nat, \A i \in 0..d : R[i] = F[i], NEW i \in 0..d+1
      PROVE  Body(R, i) = Body(F, i)
  <2>1. CASE i = 0
    BY <2>1
  <2>2. CASE i # 0
    <3>1. PICK h \in 0..d : h = i - 1
      BY <2>2
    <3>2. R[h] = F[h]
      BY <1>c
    <3> QED
      BY <2>2, <3>1, <3>2
  <2> QED
    BY <2>1, <2>2
<1>t. ASSUME NEW F, NEW h \in Nat, F[h] \in 0..h PROVE Body(F, h + 1) \in 0..h+1
  <2>1. h + 1 # 0 /\ h + 1 - 1 = h
    OBVIOUS
  <2>2. Body(F, h + 1) \in {F[h], F[h] + 1}
    BY <2>1
  <2> QED
    BY <1>t, <2>2
<1> HIDE DEF Body
<1>1. 0 \in Found
  <2>1. PICK F : F = [i \in {0} |-> 0]
    OBVIOUS
  <2>2. \A i \in 0..0 : F[i] = Body(F, i) /\ F[i] \in 0..i
    BY <2>1 DEF Body
  <2> QED
    BY <2>2
<1>2. ASSUME NEW d \in 0..N-1, d \in Found PROVE d + 1 \in Found
  <2>1. PICK F : \A i \in 0..d : F[i] = Body(F, i) /\ F[i] \in 0..i
    BY <1>2
  <2>2. PICK R : R = [i \in 0..d+1 |-> IF i <= d THEN F[i] ELSE Body(F, i)]
    OBVIOUS
  <2>3. \A i \in 0..d : R[i] = F[i]
    BY <2>2
  <2>4. \A i \in 0..d+1 : Body(R, i) = Body(F, i)
    BY <1>c, <2>3
  <2>5. \A i \in 0..d+1 : R[i] = Body(F, i)
    BY <2>1, <2>2
  <2>6. Body(F, d + 1) \in 0..d+1
    BY <1>t, <2>1
  <2>7. \A i \in 0..d+1 : R[i] \in 0..i
    BY <2>1, <2>2, <2>6
  <2> QED
    BY <2>4, <2>5, <2>7
<1>3. N \in Found
  <2> HIDE DEF Found
  <2>1. 0..N \subseteq Found
    BY <1>1, <1>2, UpTo
  <2> QED
    BY <2>1
<1>4. PICK F : \A i \in 0..N : F[i] = Body(F, i) /\ F[i] \in 0..i
  BY <1>3
<1>5. PICK R : R = [i \in 0..N |-> F[i]]
  OBVIOUS
<1>6. \A i \in 0..N : Body(R, i) = Body(F, i)
  <2>1. \A i \in 0..N : R[i] = F[i]
    BY <1>5
  <2>2. 0..N \subseteq 0..N+1
    OBVIOUS
  <2> QED
    BY <1>c, <2>1, <2>2
<1>7. R = [i \in 0..N |-> Body(R, i)]
  BY <1>4, <1>5, <1>6
<1>8. \A i \in 0..N : R[i] \in 0..i
  BY <1>4, <1>5
<1> QED
  BY <1>7, <1>8 DEF Body, IsWalk

\* A recursion over the numbers to N, one step at a time.
Counts(F, NextOf, N) ==
    /\ F[0] = 0
    /\ \A i \in 0..N : F[i] \in 0..i
    /\ \A i \in 0..N-1 : F[i+1] = NextOf[i]

LEMMA WalkSteps ==
    ASSUME NEW N \in Nat, NEW F, NEW NextOf,
           F = [i \in 0..N |-> IF i = 0 THEN 0 ELSE NextOf[i-1]],
           \A i \in 0..N-1 : F[i] \in Nat => NextOf[i] \in {F[i], F[i] + 1}
    PROVE  Counts(F, NextOf, N)
<1>1. F[0] = 0
  OBVIOUS
<1>2. ASSUME NEW i \in 0..N-1 PROVE F[i+1] = NextOf[i]
  <2>1. PICK h \in 1..N : h = i + 1 /\ h - 1 = i
    OBVIOUS
  <2>2. F[h] = NextOf[h-1]
    OBVIOUS
  <2> QED
    BY <2>1, <2>2
<1> DEFINE Typed == {i \in 0..N : F[i] \in 0..i}
<1>3. 0 \in Typed
  BY <1>1
<1>4. ASSUME NEW i \in 0..N-1, i \in Typed PROVE i + 1 \in Typed
  <2>1. F[i+1] \in {F[i], F[i] + 1} /\ F[i] \in 0..i
    BY <1>2, <1>4
  <2>2. F[i+1] \in 0..i+1 /\ i + 1 \in 0..N
    BY <2>1
  <2> QED
    BY <2>2
<1>5. 0..N \subseteq Typed
  <2> HIDE DEF Typed
  <2> QED
    BY <1>3, <1>4, UpTo
<1>6. \A i \in 0..N : F[i] \in 0..i
  BY <1>5
<1> QED
  BY <1>1, <1>2, <1>6 DEF Counts

\* merge_step's choices, and its counts of elements of the first run.
StepTakesB(mem, A, B, A_sz, B_sz, a, b) ==
    b < B_sz /\ (a >= A_sz \/ mem[B + b].val < mem[A + a].val)

IsFromA(F, mem, A, B, A_sz, B_sz, N) ==
    F = [i \in 0..N |-> IF i = 0 THEN 0
                        ELSE IF StepTakesB(mem, A, B, A_sz, B_sz, F[i-1], i-1 - F[i-1])
                          THEN F[i-1] ELSE F[i-1] + 1]

LEMMA FromAExists ==
    ASSUME NEW N \in Nat, NEW mem, NEW A, NEW B, NEW A_sz, NEW B_sz
    PROVE  \E F : IsFromA(F, mem, A, B, A_sz, B_sz, N)
<1>1. PICK T : T = {r \in Int \X Int : StepTakesB(mem, A, B, A_sz, B_sz, r[1], r[2])}
  OBVIOUS
<1>2. \A a, b \in Int : <<a, b>> \in T <=> StepTakesB(mem, A, B, A_sz, B_sz, a, b)
  BY <1>1
<1>3. PICK F : IsWalk(F, T, N) /\ \A i \in 0..N : F[i] \in 0..i
  BY WalkExists
<1>4. \A i \in 0..N :
         (IF i = 0 THEN 0
          ELSE IF <<F[i-1], i-1 - F[i-1]>> \in T THEN F[i-1] ELSE F[i-1] + 1)
         = (IF i = 0 THEN 0
            ELSE IF StepTakesB(mem, A, B, A_sz, B_sz, F[i-1], i-1 - F[i-1])
              THEN F[i-1] ELSE F[i-1] + 1)
  <2> SUFFICES ASSUME NEW i \in 0..N, i # 0
               PROVE <<F[i-1], i-1 - F[i-1]>> \in T
                       <=> StepTakesB(mem, A, B, A_sz, B_sz, F[i-1], i-1 - F[i-1])
    OBVIOUS
  <2>1. F[i-1] \in Int /\ i-1 - F[i-1] \in Int
    <3>1. i - 1 \in 0..N /\ i - 1 \in Int
      OBVIOUS
    <3>2. PICK f \in Int : f = F[i-1]
      BY <1>3, <3>1
    <3> QED
      BY <3>1, <3>2
  <2> QED
    BY <1>2, <2>1
<1>5. IsFromA(F, mem, A, B, A_sz, B_sz, N)
  BY <1>3, <1>4, Zenon DEF IsFromA, IsWalk
<1> QED
  BY <1>5

\* What merge_step leaves with these counts.
IsStep(z, F, mem, A, B, A_sz, B_sz, N) ==
    \A i \in 0..N-1 :
       z[i] = IF StepTakesB(mem, A, B, A_sz, B_sz, F[i], i - F[i]) THEN mem[B + (i - F[i])]
              ELSE IF F[i] < A_sz THEN mem[A + F[i]] ELSE [val |-> Pad, idx |-> 0]

LEMMA StepMerges ==
    ASSUME NEW m \in Nat, NEW n \in Nat,
           NEW x \in [0..m-1 -> Items], NEW y \in [0..n-1 -> Items], Rising(x, m), Rising(y, n),
           NEW p \in 0..m, NEW q \in 0..n, Split(x, m, y, n, p, q), NEW N \in Nat,
           NEW mem, NEW A \in Int, NEW B \in Int, RunsIn(mem, A, B, x, m, y, n),
           NEW C, NEW D, NEW C_sz, NEW D_sz,
           C = A + p, D = B + q, C_sz = m - p, D_sz = n - q,
           NEW F, NEW z, IsFromA(F, mem, C, D, C_sz, D_sz, N), IsStep(z, F, mem, C, D, C_sz, D_sz, N)
    PROVE  IsPart(x, m, y, n, p + q, N, z)
<1> DEFINE Takes(a, b) == StepTakesB(mem, C, D, C_sz, D_sz, a, b)
<1>1. PICK NextOf : NextOf = [i \in 0..N-1 |-> IF Takes(F[i], i - F[i]) THEN F[i] ELSE F[i] + 1]
  OBVIOUS
<1>2. F = [i \in 0..N |-> IF i = 0 THEN 0 ELSE NextOf[i-1]]
  <2>1. F = [i \in 0..N |-> IF i = 0 THEN 0
                            ELSE IF Takes(F[i-1], i-1 - F[i-1]) THEN F[i-1] ELSE F[i-1] + 1]
    BY DEF IsFromA
  <2> HIDE DEF Takes
  <2>2. \A i \in 0..N :
           (IF i = 0 THEN 0 ELSE IF Takes(F[i-1], i-1 - F[i-1]) THEN F[i-1] ELSE F[i-1] + 1)
           = (IF i = 0 THEN 0 ELSE NextOf[i-1])
    <3> SUFFICES ASSUME NEW i \in 0..N, i # 0
                 PROVE  (IF Takes(F[i-1], i-1 - F[i-1]) THEN F[i-1] ELSE F[i-1] + 1) = NextOf[i-1]
      OBVIOUS
    <3>1. i - 1 \in 0..N-1
      OBVIOUS
    <3> QED
      BY <1>1, <3>1, Zenon
  <2> QED
    BY <2>1, <2>2, Zenon
<1>3. Counts(F, NextOf, N)
  <2> HIDE DEF Takes
  <2>1. \A i \in 0..N-1 : F[i] \in Nat => NextOf[i] \in {F[i], F[i] + 1}
    BY <1>1
  <2> QED
    BY <1>2, <2>1, WalkSteps
<1>4. ASSUME NEW i \in 0..N-1, NEW f \in 0..i, NEW b \in Nat, f = F[i], b = i - f
      PROVE  /\ Takes(f, b) <=> TakesB(x, m, y, n, p + f, q + b)
             /\ q + b < n => mem[D + b] = y[q + b]
             /\ p + f < m => mem[C + f] = x[p + f]
             /\ f < C_sz <=> p + f < m
  <2>1. b < D_sz <=> q + b < n
    OBVIOUS
  <2>2. (f >= C_sz <=> p + f >= m) /\ (f < C_sz <=> p + f < m)
    OBVIOUS
  <2>3. q + b < n => mem[D + b] = y[q + b]
    <3>1. q + b < n => q + b \in 0..n-1 /\ D + b = B + (q + b)
      OBVIOUS
    <3> QED
      BY <3>1 DEF RunsIn
  <2>4. p + f < m => mem[C + f] = x[p + f]
    <3>1. p + f < m => p + f \in 0..m-1 /\ C + f = A + (p + f)
      OBVIOUS
    <3> QED
      BY <3>1 DEF RunsIn
  <2>5. ~(p + f >= m) <=> p + f < m
    OBVIOUS
  <2>6. Takes(f, b) <=> TakesB(x, m, y, n, p + f, q + b)
    BY <2>1, <2>2, <2>3, <2>4, <2>5 DEF StepTakesB, TakesB
  <2> QED
    BY <2>2, <2>3, <2>4, <2>6
<1>5. ASSUME NEW i \in 0..N-1
      PROVE  \E f \in 0..i : \E b \in Nat : f = F[i] /\ b = i - f
  <2>1. F[i] \in 0..i
    BY <1>3 DEF Counts
  <2> QED
    BY <2>1
<1> HIDE DEF Takes
<1>6. Walks(F, x, m, y, n, p, q, N)
  <2>1. ASSUME NEW i \in 0..N-1
        PROVE  F[i+1] = IF TakesB(x, m, y, n, p + F[i], q + (i - F[i])) THEN F[i] ELSE F[i] + 1
    <3>1. PICK f \in 0..i : \E b \in Nat : f = F[i] /\ b = i - f
      BY <1>5
    <3>2. PICK b \in Nat : f = F[i] /\ b = i - f
      BY <3>1
    <3>3. Takes(f, b) <=> TakesB(x, m, y, n, p + f, q + b)
      BY <1>4, <3>2
    <3>4. F[i+1] = IF Takes(f, b) THEN f ELSE f + 1
      BY <1>1, <1>3, <3>2 DEF Counts
    <3> QED
      BY <3>2, <3>3, <3>4
  <2> QED
    BY <1>3, <2>1 DEF Walks, Counts
<1>7. ASSUME NEW i \in 0..N-1, p + q + i < m + n
      PROVE  z[i] = Taken(x, m, y, n, p + F[i], q + (i - F[i]))
  <2>1. PICK f \in 0..i : \E b \in Nat : f = F[i] /\ b = i - f
    BY <1>5
  <2>2. PICK b \in Nat : f = F[i] /\ b = i - f
    BY <2>1
  <2>3. /\ Takes(f, b) <=> TakesB(x, m, y, n, p + f, q + b)
        /\ q + b < n => mem[D + b] = y[q + b]
        /\ p + f < m => mem[C + f] = x[p + f]
        /\ f < C_sz <=> p + f < m
    BY <1>4, <2>2
  <2>4. z[i] = IF Takes(f, b) THEN mem[D + b]
               ELSE IF f < C_sz THEN mem[C + f] ELSE [val |-> Pad, idx |-> 0]
    BY <2>2 DEF IsStep, Takes
  <2>5. TakesB(x, m, y, n, p + f, q + b) => q + b < n
    BY DEF TakesB
  <2>6. ~TakesB(x, m, y, n, p + f, q + b) => p + f < m
    <3>1. ~TakesB(x, m, y, n, p + f, q + b) => q + b >= n \/ p + f < m
      BY DEF TakesB
    <3>2. q + b >= n => p + f < m
      <4>1. b = i - f
        BY <2>2
      <4> QED
        BY <1>7, <4>1
    <3> QED
      BY <3>1, <3>2
  <2>7. z[i] = Taken(x, m, y, n, p + f, q + b)
    BY <2>3, <2>4, <2>5, <2>6 DEF Taken
  <2> QED
    BY <2>2, <2>7
<1> QED
  BY <1>6, <1>7, WalkMerges

LEMMA BlockMergeStep ==
    ASSUME NEW N \in Nat, N = N_PER_THREAD, NEW mem, NEW A, NEW B, NEW A_sz, NEW B_sz
    PROVE  \E F : /\ IsFromA(F, mem, A, B, A_sz, B_sz, N)
                  /\ IsStep(Block!MergeStep(mem, A, B, A_sz, B_sz), F, mem, A, B, A_sz, B_sz, N)
<1> DEFINE Takes(a, b) == StepTakesB(mem, A, B, A_sz, B_sz, a, b)
<1>1. Block!MergeStep(mem, A, B, A_sz, B_sz)
        = LET FromA[i \in 0..N_PER_THREAD] ==
                IF i = 0 THEN 0
                ELSE LET a == FromA[i-1] IN IF Takes(a, i-1 - a) THEN a ELSE a + 1
          IN [i \in 0..N_PER_THREAD-1 |->
                LET a == FromA[i]  b == i - a IN
                IF Takes(a, b) THEN mem[B + b]
                ELSE IF a < A_sz THEN mem[A + a] ELSE [val |-> Pad, idx |-> 0]]
  BY Zenon DEF Block!MergeStep, Block!LessThan, Block!Elements, StepTakesB
<1> HIDE DEF Takes
<1>2. PICK F : IsFromA(F, mem, A, B, A_sz, B_sz, N_PER_THREAD)
  BY FromAExists
<1>3. F = [i \in 0..N_PER_THREAD |->
             IF i = 0 THEN 0
             ELSE LET a == F[i-1] IN IF Takes(a, i-1 - a) THEN a ELSE a + 1]
  BY <1>2, Zenon DEF IsFromA, Takes
<1>4. PICK R :
        /\ Block!MergeStep(mem, A, B, A_sz, B_sz) =
             [i \in 0..N_PER_THREAD-1 |->
                LET a == R[i]  b == i - a IN
                IF Takes(a, b) THEN mem[B + b]
                ELSE IF a < A_sz THEN mem[A + a] ELSE [val |-> Pad, idx |-> 0]]
        /\ R = [i \in 0..N_PER_THREAD |->
                  IF i = 0 THEN 0
                  ELSE LET a == R[i-1] IN IF Takes(a, i-1 - a) THEN a ELSE a + 1]
  BY <1>1, <1>3, Zenon
<1>5. IsFromA(R, mem, A, B, A_sz, B_sz, N)
  BY <1>4, Zenon DEF IsFromA, Takes
<1>6. IsStep(Block!MergeStep(mem, A, B, A_sz, B_sz), R, mem, A, B, A_sz, B_sz, N)
  BY <1>4, Zenon DEF IsStep, Takes
<1> QED
  BY <1>5, <1>6

\* A thread's part of a merge.
LEMMA BlockMergePart ==
    ASSUME NEW m \in Nat, NEW n \in Nat,
           NEW x \in [0..m-1 -> Items], NEW y \in [0..n-1 -> Items], Rising(x, m), Rising(y, n),
           NEW k \in 0..m+n, NEW N \in Nat, N = N_PER_THREAD,
           NEW mem, NEW A \in Int, NEW B \in Int, RunsIn(mem, A, B, x, m, y, n)
    PROVE  IsPart(x, m, y, n, k, N, Block!MergePart(mem, A, B, m, n, k))
<1>1. PICK p : p = Block!MergePartition(mem, A, B, m, n, k)
  OBVIOUS
<1>2. /\ \A i \in 0..m-1 : x[i].val \in Int
      /\ \A j \in 0..n-1 : y[j].val \in Int
  BY DEF Items
<1>3. Splits(x, m, y, n, k, p)
  BY <1>1, <1>2, BlockPartition
<1>4. p \in 0..m /\ k - p \in 0..n /\ Split(x, m, y, n, p, k - p)
  BY <1>3 DEF Splits
<1>5. PICK q \in 0..n : q = k - p /\ Split(x, m, y, n, p, q) /\ k = p + q
  BY <1>4
<1>6. PICK C, D, C_sz, D_sz : C = A + p /\ D = B + k - p /\ C_sz = m - p /\ D_sz = n - (k - p)
  OBVIOUS
<1>7. D = B + q /\ D_sz = n - q
  BY <1>4, <1>5, <1>6
<1>8. Block!MergePart(mem, A, B, m, n, k) = Block!MergeStep(mem, C, D, C_sz, D_sz)
  BY <1>1, <1>6, Zenon DEF Block!MergePart
<1>9. PICK F : /\ IsFromA(F, mem, C, D, C_sz, D_sz, N)
               /\ IsStep(Block!MergeStep(mem, C, D, C_sz, D_sz), F, mem, C, D, C_sz, D_sz, N)
  BY BlockMergeStep
<1>10. PICK z : z = Block!MergeStep(mem, C, D, C_sz, D_sz)
  OBVIOUS
<1>11. IsPart(x, m, y, n, p + q, N, z)
  BY <1>4, <1>5, <1>6, <1>7, <1>9, <1>10, StepMerges
<1> QED
  BY <1>5, <1>8, <1>10, <1>11

LEMMA RisesByOne ==
    ASSUME NEW n \in Nat, NEW z \in [0..n-1 -> Items],
           \A k \in 0..n-2 : Precedes(z[k], z[k+1])
    PROVE  Rising(z, n)
<1> DEFINE Far == {d \in 0..n : \A i, j \in 0..n-1 : j = i + d + 1 => Precedes(z[i], z[j])}
<1>1. 0 \in Far
  <2> SUFFICES ASSUME NEW i \in 0..n-1, NEW j \in 0..n-1, j = i + 0 + 1 PROVE Precedes(z[i], z[j])
    OBVIOUS
  <2>1. i \in 0..n-2 /\ j = i + 1
    OBVIOUS
  <2> QED
    BY <2>1
<1>2. ASSUME NEW d \in 0..n-1, d \in Far PROVE d + 1 \in Far
  <2>1. ASSUME NEW i \in 0..n-1, NEW j \in 0..n-1, j = i + (d + 1) + 1 PROVE Precedes(z[i], z[j])
    <3>1. PICK h \in 0..n-2 : h = i + d + 1 /\ h + 1 = j
      BY <2>1
    <3>2. Precedes(z[i], z[h])
      BY <1>2, <3>1
    <3>3. Precedes(z[h], z[j])
      BY <3>1
    <3>4. z[i] \in Items /\ z[h] \in Items /\ z[j] \in Items
      BY <3>1
    <3> QED
      BY <3>2, <3>3, <3>4 DEF Precedes, Items
  <2>2. d + 1 \in 0..n
    OBVIOUS
  <2> QED
    BY <2>1, <2>2
<1>3. 0..n \subseteq Far
  <2> HIDE DEF Far
  <2> QED
    BY <1>1, <1>2, UpTo
<1>4. ASSUME NEW i \in 0..n-1, NEW j \in 0..n-1, i < j PROVE Precedes(z[i], z[j])
  <2>1. PICK d \in 0..n : d = j - i - 1 /\ j = i + d + 1
    BY <1>4
  <2>2. d \in Far
    BY <1>3
  <2> QED
    BY <2>1, <2>2
<1> QED
  BY <1>4 DEF Rising

LEMMA MergedFrom ==
    ASSUME NEW m \in Nat, NEW n \in Nat, NEW x, NEW y, NEW k, NEW e, MergedAt(x, m, y, n, k, e)
    PROVE  (\E i \in 0..m-1 : e = x[i]) \/ (\E j \in 0..n-1 : e = y[j])
<1>1. PICK a \in 0..m, b \in 0..n : (a < m /\ e = x[a]) \/ (b < n /\ e = y[b])
  BY DEF MergedAt
<1>2. CASE a < m /\ e = x[a]
  <2>1. a \in 0..m-1
    BY <1>2
  <2> QED
    BY <1>2, <2>1
<1>3. CASE b < n /\ e = y[b]
  <2>1. b \in 0..n-1
    BY <1>3
  <2> QED
    BY <1>3, <2>1
<1> QED
  BY <1>1, <1>2, <1>3

LEMMA MergeSorts ==
    ASSUME NEW m \in Nat, NEW n \in Nat,
           NEW x \in [0..m-1 -> Items], NEW y \in [0..n-1 -> Items], Rising(x, m), Rising(y, n),
           \A i \in 0..m-1 : \A j \in 0..n-1 : x[i].idx < y[j].idx,
           NEW s \in Nat, s = m + n, NEW z \in [0..s-1 -> Items],
           \A k \in 0..s-1 : MergedAt(x, m, y, n, k, z[k])
    PROVE  Rising(z, s)
<1>1. ASSUME NEW k \in 0..s-2 PROVE Precedes(z[k], z[k+1])
  <2>1. k \in 0..s-1 /\ k + 1 \in 0..s-1 /\ k \in Nat
    OBVIOUS
  <2>2. MergedAt(x, m, y, n, k, z[k]) /\ MergedAt(x, m, y, n, k + 1, z[k+1])
    BY <2>1
  <2>3. PICK e, f : e = z[k] /\ f = z[k+1]
    OBVIOUS
  <2>4. Precedes(e, f)
    BY <2>1, <2>2, <2>3, MergeRises
  <2> QED
    BY <2>3, <2>4
<1> QED
  BY <1>1, RisesByOne

-----------------------------------------------------------------------------
(* The sorts: a thread's own elements.                                     *)

\* q lists the numbers of P from the highest to the lowest.
Lists(q, m, P) ==
    /\ q \in [1..m -> P]
    /\ \A i, j \in 1..m : i < j => q[i] > q[j]
    /\ \A k \in P : \E j \in 1..m : q[j] = k

LEMMA ListExists ==
    ASSUME NEW n \in Nat, NEW P, P \subseteq 0..n-1
    PROVE  \E m \in Nat : \E q : Lists(q, m, P)
<1> DEFINE Listed == {h \in 0..n : \E m \in Nat : \E q : Lists(q, m, {k \in P : k < h})}
<1>0. \A k \in P : k \in Int /\ 0 <= k /\ k < n
  OBVIOUS
<1>1. 0 \in Listed
  <2>1. {k \in P : k < 0} = {}
    <3>1. \A k \in P : ~(k < 0)
      BY <1>0
    <3> QED
      BY <3>1
  <2>2. PICK q : q = [j \in 1..0 |-> 0]
    OBVIOUS
  <2>3. 1..0 = {}
    OBVIOUS
  <2>4. Lists(q, 0, {k \in P : k < 0})
    BY <2>1, <2>2, <2>3 DEF Lists
  <2> QED
    BY <2>4
<1>2. ASSUME NEW h \in 0..n-1, h \in Listed PROVE h + 1 \in Listed
  <2>1. PICK m \in Nat : \E q : Lists(q, m, {k \in P : k < h})
    BY <1>2
  <2>2. PICK q : Lists(q, m, {k \in P : k < h})
    BY <2>1
  <2>3. CASE h \notin P
    <3>1. {k \in P : k < h + 1} = {k \in P : k < h}
      <4>1. \A k \in P : k < h + 1 <=> k < h
        BY <1>0, <2>3
      <4> QED
        BY <4>1
    <3> QED
      BY <2>2, <3>1
  <2>4. CASE h \in P
    <3>1. PICK Q, R : Q = {k \in P : k < h} /\ R = {k \in P : k < h + 1}
      OBVIOUS
    <3>2. R = Q \union {h} /\ (\A k \in Q : k < h /\ k \in Int)
      <4>1. \A k \in P : k < h + 1 <=> k < h \/ k = h
        BY <1>0
      <4>2. R = Q \union {h}
        <5>1. ASSUME NEW k PROVE k \in R <=> k \in Q \union {h}
          BY <2>4, <3>1, <4>1
        <5> QED
          BY <5>1
      <4> QED
        BY <1>0, <3>1, <4>2
    <3>3. PICK r : r = [j \in 1..m+1 |-> IF j = 1 THEN h ELSE q[j-1]]
      OBVIOUS
    <3>4. /\ q \in [1..m -> Q]
          /\ \A i, j \in 1..m : i < j => q[i] > q[j]
          /\ \A k \in Q : \E j \in 1..m : q[j] = k
      BY <2>2, <3>1 DEF Lists
    <3>5. \A j \in 1..m+1 : j # 1 => j - 1 \in 1..m
      OBVIOUS
    <3>6. r \in [1..m+1 -> R]
      BY <3>2, <3>3, <3>4, <3>5
    <3>7. ASSUME NEW i \in 1..m+1, NEW j \in 1..m+1, i < j PROVE r[i] > r[j]
      <4>1. j # 1 /\ j - 1 \in 1..m /\ r[j] = q[j-1] /\ q[j-1] \in Q
        BY <3>3, <3>4, <3>5, <3>7
      <4>2. CASE i = 1
        BY <3>2, <3>3, <4>1, <4>2
      <4>3. CASE i # 1
        <5>1. r[i] = q[i-1] /\ i - 1 \in 1..m /\ i - 1 < j - 1
          BY <3>3, <3>5, <3>7, <4>3
        <5> QED
          BY <3>4, <4>1, <5>1
      <4> QED
        BY <4>2, <4>3
    <3>8. ASSUME NEW k \in R PROVE \E j \in 1..m+1 : r[j] = k
      <4>1. CASE k = h
        <5>1. 1 \in 1..m+1 /\ r[1] = k
          BY <3>3, <4>1
        <5> QED
          BY <5>1
      <4>2. CASE k \in Q
        <5>1. PICK j \in 1..m : q[j] = k
          BY <3>4, <4>2
        <5>2. PICK i \in 2..m+1 : i = j + 1 /\ i - 1 = j /\ i # 1
          OBVIOUS
        <5>3. r[i] = k
          BY <3>3, <5>1, <5>2
        <5> QED
          BY <5>3
      <4> QED
        BY <3>2, <4>1, <4>2
    <3>9. Lists(r, m + 1, R)
      BY <3>6, <3>7, <3>8 DEF Lists
    <3>10. m + 1 \in Nat /\ h + 1 \in 0..n
      OBVIOUS
    <3> QED
      BY <3>1, <3>9, <3>10
  <2> QED
    BY <2>3, <2>4
<1>3. 0..n \subseteq Listed
  <2> HIDE DEF Listed
  <2> QED
    BY <1>1, <1>2, UpTo
<1>4. {k \in P : k < n} = P
  BY <1>0
<1>5. n \in Listed
  <2> HIDE DEF Listed
  <2> QED
    BY <1>3
<1> QED
  BY <1>4, <1>5

\* The list goes down by one at least from each number to the next.
LEMMA ListGoesDown ==
    ASSUME NEW m \in Nat, NEW P, P \subseteq Int, NEW q, Lists(q, m, P)
    PROVE  \A i, j \in 1..m : i <= j => q[i] >= q[j] + (j - i)
<1> DEFINE Far == {d \in 0..m : \A i, j \in 1..m : j = i + d => q[i] >= q[j] + d}
<1>0. q \in [1..m -> Int] /\ \A i, j \in 1..m : i < j => q[i] > q[j]
  BY DEF Lists
<1>1. 0 \in Far
  <2> SUFFICES ASSUME NEW i \in 1..m, NEW j \in 1..m, j = i + 0 PROVE q[i] >= q[j] + 0
    OBVIOUS
  <2>1. i = j
    OBVIOUS
  <2>2. q[i] \in Int
    BY <1>0
  <2> QED
    BY <2>1, <2>2
<1>2. ASSUME NEW d \in 0..m-1, d \in Far PROVE d + 1 \in Far
  <2>1. ASSUME NEW i \in 1..m, NEW j \in 1..m, j = i + (d + 1) PROVE q[i] >= q[j] + (d + 1)
    <3>1. PICK h \in 1..m : h = i + d /\ h < j
      BY <2>1
    <3>2. q[i] >= q[h] + d /\ q[h] > q[j]
      BY <1>0, <1>2, <3>1
    <3>3. q[i] \in Int /\ q[h] \in Int /\ q[j] \in Int
      BY <1>0
    <3> QED
      BY <3>2, <3>3
  <2>2. d + 1 \in 0..m
    OBVIOUS
  <2> QED
    BY <2>1, <2>2
<1>3. 0..m \subseteq Far
  <2> HIDE DEF Far
  <2> QED
    BY <1>1, <1>2, UpTo
<1>4. ASSUME NEW i \in 1..m, NEW j \in 1..m, i <= j PROVE q[i] >= q[j] + (j - i)
  <2>1. PICK d \in 0..m : d = j - i /\ j = i + d
    BY <1>4
  <2>2. d \in Far
    BY <1>3
  <2> QED
    BY <2>1, <2>2
<1> QED
  BY <1>4

\* Where the elements of s are that are not below z.
Ones(s, n, z) == {k \in 0..n-1 : s[k].val >= z}

\* Such an element has a lesser one behind it which pass t compares it with.
Advances(k, n, t, P) == k < n - 1 /\ k % 2 = t % 2 /\ k + 1 \notin P

\* What pass t makes of s.
IsPass(r, s, n, t) ==
    LET swaps == {j \in 0..n-2 : j % 2 = t % 2 /\ s[j+1].val < s[j].val} IN
    \A k \in 0..n-1 : r[k] = IF k \in swaps THEN s[k+1]
                             ELSE IF k-1 \in swaps THEN s[k-1] ELSE s[k]

LEMMA PassMoves ==
    ASSUME NEW n \in Nat, NEW t \in Nat, NEW z \in Int, NEW s \in [0..n-1 -> Items],
           NEW r \in [0..n-1 -> Items], IsPass(r, s, n, t), NEW k \in 0..n-1
    PROVE  k \in Ones(r, n, z) <=>
              \/ k \in Ones(s, n, z) /\ ~Advances(k, n, t, Ones(s, n, z))
              \/ k > 0 /\ k-1 \in Ones(s, n, z) /\ Advances(k-1, n, t, Ones(s, n, z))
<1> DEFINE swaps == {j \in 0..n-2 : j % 2 = t % 2 /\ s[j+1].val < s[j].val}
           One(j) == s[j].val >= z
<1>1. /\ \A j \in 0..n-1 : s[j].val \in Int
      /\ r[k].val \in Int
  BY DEF Items
<1>2. r[k] = IF k \in swaps THEN s[k+1] ELSE IF k-1 \in swaps THEN s[k-1] ELSE s[k]
  BY DEF IsPass
<1>3. k \in Ones(r, n, z) <=> r[k].val >= z
  BY DEF Ones
<1>4. \A j \in 0..n-1 : j \in Ones(s, n, z) <=> One(j)
  BY DEF Ones
<1>5. Advances(k, n, t, Ones(s, n, z)) <=> k < n - 1 /\ k % 2 = t % 2 /\ ~One(k+1)
  <2>1. k < n - 1 => k + 1 \in 0..n-1
    OBVIOUS
  <2> QED
    BY <1>4, <2>1 DEF Advances
<1>6. k > 0 => (Advances(k-1, n, t, Ones(s, n, z)) <=> (k-1) % 2 = t % 2 /\ ~One(k))
  <2>1. k > 0 => k - 1 < n - 1 /\ (k - 1) + 1 = k
    OBVIOUS
  <2> QED
    BY <1>4, <2>1 DEF Advances
<1>7. k > 0 => k - 1 \in 0..n-1 /\ (k-1 \in Ones(s, n, z) <=> One(k-1))
  BY <1>4
<1>8. (k - 1) % 2 # k % 2
  OBVIOUS
<1>9. CASE k \in swaps
  <2>1. k < n - 1 /\ k % 2 = t % 2 /\ s[k+1].val < s[k].val /\ r[k] = s[k+1]
    BY <1>2, <1>9
  <2>2. s[k+1].val \in Int /\ s[k].val \in Int
    BY <1>1, <2>1
  <2> QED
    BY <1>3, <1>4, <1>5, <1>6, <1>7, <1>8, <2>1, <2>2
<1>10. CASE k \notin swaps /\ k - 1 \in swaps
  <2>1. k > 0 /\ (k-1) % 2 = t % 2 /\ s[k].val < s[k-1].val /\ r[k] = s[k-1]
    <3>1. k - 1 + 1 = k
      OBVIOUS
    <3> QED
      BY <1>2, <1>10, <3>1
  <2>2. s[k-1].val \in Int /\ s[k].val \in Int
    BY <1>1, <1>7, <2>1
  <2> QED
    BY <1>3, <1>4, <1>5, <1>6, <1>7, <1>8, <2>1, <2>2
<1>11. CASE k \notin swaps /\ k - 1 \notin swaps
  <2>1. r[k] = s[k]
    BY <1>2, <1>11
  <2>2. One(k) => ~Advances(k, n, t, Ones(s, n, z))
    <3> SUFFICES ASSUME One(k), k < n - 1, k % 2 = t % 2, ~One(k+1) PROVE FALSE
      BY <1>5
    <3>1. k \in 0..n-2 /\ k + 1 \in 0..n-1
      OBVIOUS
    <3>2. s[k+1].val < s[k].val
      <4>1. s[k+1].val \in Int /\ s[k].val \in Int
        BY <1>1, <3>1
      <4>2. ~(s[k+1].val >= z) /\ s[k].val >= z
        OBVIOUS
      <4> QED
        BY <4>1, <4>2
    <3> QED
      BY <1>11, <3>1, <3>2
  <2>3. k > 0 /\ One(k-1) => ~Advances(k-1, n, t, Ones(s, n, z))
    <3> SUFFICES ASSUME k > 0, One(k-1), (k-1) % 2 = t % 2, ~One(k) PROVE FALSE
      BY <1>6
    <3>1. k - 1 \in 0..n-2 /\ k - 1 \in 0..n-1 /\ k - 1 + 1 = k
      OBVIOUS
    <3>2. s[k].val < s[k-1].val
      BY <1>1, <3>1
    <3> QED
      BY <1>11, <3>1, <3>2
  <2> QED
    BY <1>3, <1>4, <1>7, <2>1, <2>2, <2>3
<1> QED
  BY <1>9, <1>10, <1>11

\* Where the elements of a list are after a pass.
LEMMA PassLists ==
    ASSUME NEW n \in Nat, NEW t \in Nat, NEW z \in Int, NEW s \in [0..n-1 -> Items],
           NEW r \in [0..n-1 -> Items], IsPass(r, s, n, t),
           NEW m \in Nat, NEW q, Lists(q, m, Ones(s, n, z)),
           NEW u, u = [j \in 1..m |-> IF Advances(q[j], n, t, Ones(s, n, z)) THEN q[j] + 1 ELSE q[j]]
    PROVE  Lists(u, m, Ones(r, n, z))
<1>1. PICK P, R : P = Ones(s, n, z) /\ R = Ones(r, n, z)
  OBVIOUS
<1>2. P \subseteq 0..n-1 /\ R \subseteq 0..n-1
  BY <1>1 DEF Ones
<1>3. /\ q \in [1..m -> P]
      /\ \A i, j \in 1..m : i < j => q[i] > q[j]
      /\ \A k \in P : \E j \in 1..m : q[j] = k
  BY <1>1 DEF Lists
<1>4. \A k \in 0..n-1 :
         k \in R <=> \/ k \in P /\ ~Advances(k, n, t, P)
                     \/ k > 0 /\ k-1 \in P /\ Advances(k-1, n, t, P)
  BY <1>1, PassMoves
<1>5. u = [j \in 1..m |-> IF Advances(q[j], n, t, P) THEN q[j] + 1 ELSE q[j]]
  BY <1>1
<1>6. \A k \in P : Advances(k, n, t, P) => k < n - 1 /\ k + 1 \notin P
  BY DEF Advances
<1>7. ASSUME NEW j \in 1..m PROVE u[j] \in R
  <2>1. PICK k \in P : k = q[j] /\ k \in 0..n-1
    BY <1>2, <1>3
  <2>2. CASE Advances(k, n, t, P)
    <3>1. PICK h \in 0..n-1 : h = k + 1 /\ h > 0 /\ h - 1 = k
      BY <1>6, <2>1, <2>2
    <3>2. h \in R
      BY <1>4, <2>2, <3>1
    <3> QED
      BY <1>5, <2>1, <2>2, <3>1, <3>2
  <2>3. CASE ~Advances(k, n, t, P)
    BY <1>4, <1>5, <2>1, <2>3
  <2> QED
    BY <2>2, <2>3
<1>8. ASSUME NEW i \in 1..m, NEW j \in 1..m, i < j PROVE u[i] > u[j]
  <2>1. PICK k \in P : k = q[i] /\ k \in 0..n-1
    BY <1>2, <1>3
  <2>2. PICK h \in P : h = q[j] /\ h \in 0..n-1
    BY <1>2, <1>3
  <2>3. k > h
    BY <1>3, <1>8, <2>1, <2>2
  <2>4. u[i] >= k
    BY <1>5, <2>1
  <2>5. CASE Advances(h, n, t, P)
    <3>1. k # h + 1
      BY <1>6, <2>5
    <3>2. u[j] = h + 1
      BY <1>5, <2>2, <2>5
    <3>3. PICK w \in 0..n-1 : w = u[i]
      BY <1>2, <1>7
    <3>4. k \in Int /\ h \in Int
      BY <2>1, <2>2
    <3>5. w >= k /\ k > h + 1
      BY <2>3, <2>4, <3>1, <3>3, <3>4
    <3>6. w > h + 1
      BY <3>4, <3>5
    <3> QED
      BY <3>2, <3>3, <3>6
  <2>6. CASE ~Advances(h, n, t, P)
    <3>1. u[j] = h
      BY <1>5, <2>2, <2>6
    <3>2. u[i] \in 0..n-1
      BY <1>2, <1>7
    <3> QED
      BY <2>1, <2>2, <2>3, <2>4, <3>1, <3>2
  <2> QED
    BY <2>5, <2>6
<1>9. ASSUME NEW k \in R PROVE \E j \in 1..m : u[j] = k
  <2>1. k \in 0..n-1
    BY <1>2
  <2>2. CASE k \in P /\ ~Advances(k, n, t, P)
    <3>1. PICK j \in 1..m : q[j] = k
      BY <1>3, <2>2
    <3>2. u[j] = k
      BY <1>5, <2>2, <3>1
    <3> QED
      BY <3>2
  <2>3. CASE k > 0 /\ k-1 \in P /\ Advances(k-1, n, t, P)
    <3>1. PICK h \in P : h = k - 1 /\ Advances(h, n, t, P) /\ h + 1 = k
      BY <2>1, <2>3
    <3>2. PICK j \in 1..m : q[j] = h
      BY <1>3
    <3>3. u[j] = k
      BY <1>5, <3>1, <3>2
    <3> QED
      BY <3>3
  <2> QED
    BY <1>4, <2>1, <2>2, <2>3
<1>10. u \in [1..m -> R]
  BY <1>5, <1>7
<1> QED
  BY <1>1, <1>8, <1>9, <1>10 DEF Lists

\* After t passes the one of j highest numbers has reached where it belongs,
\* or has moved t times since it was free to.
Reached(q, n, m, c, t) == \A j \in 1..m : q[j] >= n - j \/ q[j] >= c - 2 * (j - 1) + t

LEMMA PassReaches ==
    ASSUME NEW n \in Nat, NEW t \in Nat, NEW P, P \subseteq 0..n-1,
           NEW m \in Nat, NEW q, Lists(q, m, P), NEW c \in Int, c % 2 = 0, Reached(q, n, m, c, t),
           NEW u, u = [j \in 1..m |-> IF Advances(q[j], n, t, P) THEN q[j] + 1 ELSE q[j]]
    PROVE  Reached(u, n, m, c, t + 1)
<1>1. /\ q \in [1..m -> P]
      /\ \A i, j \in 1..m : i < j => q[i] > q[j]
      /\ \A k \in P : \E j \in 1..m : q[j] = k
  BY DEF Lists
<1>2. ASSUME NEW j \in 1..m PROVE u[j] >= n - j \/ u[j] >= c - 2 * (j - 1) + (t + 1)
  <2>1. PICK k \in 0..n-1 : k = q[j] /\ k \in P
    BY <1>1
  <2>2. u[j] = IF Advances(k, n, t, P) THEN k + 1 ELSE k
    BY <2>1
  <2>3. k >= n - j \/ k >= c - 2 * (j - 1) + t
    BY <2>1 DEF Reached
  <2>4. CASE k >= n - j \/ k > c - 2 * (j - 1) + t
    BY <2>2, <2>4
  <2>5. CASE k < n - j /\ k = c - 2 * (j - 1) + t
    <3>1. k % 2 = t % 2
      <4>1. PICK h \in Int : c = 2 * h
        BY SMT
      <4>2. k = 2 * (h - (j - 1)) + t
        BY <2>5, <4>1
      <4>3. PICK g \in Int : g = h - (j - 1) /\ k = 2 * g + t
        BY <4>2
      <4> QED
        BY <4>3
    <3>2. k < n - 1
      BY <2>5
    <3>3. k + 1 \notin P
      <4> SUFFICES ASSUME k + 1 \in P PROVE FALSE
        OBVIOUS
      <4>1. PICK i \in 1..m : q[i] = k + 1
        BY <1>1
      <4>2. i < j
        <5>1. ~(i = j)
          BY <2>1, <4>1
        <5>2. ~(j < i)
          <6> SUFFICES ASSUME j < i PROVE FALSE
            OBVIOUS
          <6>1. q[j] > q[i]
            BY <1>1
          <6> QED
            BY <2>1, <4>1, <6>1
        <5> QED
          BY <5>1, <5>2
      <4>3. i = j - 1
        <5> SUFFICES ASSUME i < j - 1 PROVE FALSE
          BY <4>2
        <5>1. PICK h \in 1..m : h = j - 1 /\ i < h /\ h < j
          BY <4>2
        <5>2. q[i] > q[h] /\ q[h] > q[j] /\ q[h] \in P
          BY <1>1, <5>1
        <5>3. q[h] \in Int
          <6>1. \A g \in P : g \in Int
            OBVIOUS
          <6> QED
            BY <5>2, <6>1
        <5> QED
          BY <2>1, <4>1, <5>2, <5>3
      <4>4. k + 1 >= n - i \/ k + 1 >= c - 2 * (i - 1) + t
        BY <4>1 DEF Reached
      <4> QED
        BY <2>5, <4>3, <4>4
    <3>4. Advances(k, n, t, P)
      BY <3>1, <3>2, <3>3 DEF Advances
    <3> QED
      BY <2>2, <2>5, <3>4
  <2> QED
    BY <2>3, <2>4, <2>5
<1> QED
  BY <1>2 DEF Reached

\* The passes of the sort.
Passes(G, s, n) ==
    /\ G[0] = s
    /\ \A t \in 0..n-1 : IsPass(G[t+1], G[t], n, t)
    /\ \A t \in 0..n : G[t] \in [0..n-1 -> Items]

LEMMA OnesSettle ==
    ASSUME NEW n \in Nat, NEW s, NEW G, Passes(G, s, n), NEW z \in Int,
           NEW i \in 0..n-1, NEW j \in 0..n-1, i < j, G[n][i].val >= z
    PROVE  G[n][j].val >= z
<1>1. /\ \A t \in 0..n-1 : IsPass(G[t+1], G[t], n, t)
      /\ \A t \in 0..n : G[t] \in [0..n-1 -> Items]
  BY DEF Passes
<1>2. \A t \in 0..n : Ones(G[t], n, z) \subseteq 0..n-1
  BY DEF Ones
<1>3. PICK m \in Nat : \E q : Lists(q, m, Ones(G[0], n, z))
  <2>1. Ones(G[0], n, z) \subseteq 0..n-1
    BY <1>2
  <2> QED
    BY <2>1, ListExists
<1>4. PICK q : Lists(q, m, Ones(G[0], n, z))
  BY <1>3
<1>5. PICK c \in Int : c % 2 = 0 /\ c >= m - 2 /\ c <= m - 1
  <2>1. CASE m % 2 = 0
    <3>1. (m - 2) % 2 = 0 /\ m - 2 \in Int
      BY <2>1
    <3> QED
      BY <3>1
  <2>2. CASE m % 2 # 0
    <3>1. (m - 1) % 2 = 0 /\ m - 1 \in Int
      BY <2>2
    <3> QED
      BY <3>1
  <2> QED
    BY <2>1, <2>2
<1> DEFINE Near == {t \in 0..n : \E u : Lists(u, m, Ones(G[t], n, z)) /\ Reached(u, n, m, c, t)}
<1>6. 0 \in Near
  <2>1. ASSUME NEW k \in 1..m PROVE q[k] >= c - 2 * (k - 1) + 0
    <3>1. m \in 1..m /\ k <= m
      OBVIOUS
    <3>2. Ones(G[0], n, z) \subseteq Int /\ Ones(G[0], n, z) \subseteq Nat
      BY <1>2
    <3>3. q[k] >= q[m] + (m - k)
      BY <1>4, <3>1, <3>2, ListGoesDown
    <3>4. q[m] \in Nat /\ q[k] \in Nat
      BY <1>4, <3>1, <3>2 DEF Lists
    <3> QED
      BY <1>5, <3>3, <3>4
  <2>2. Reached(q, n, m, c, 0)
    BY <2>1 DEF Reached
  <2> QED
    BY <1>4, <2>2
<1>7. ASSUME NEW t \in 0..n-1, t \in Near PROVE t + 1 \in Near
  <2>1. PICK u : Lists(u, m, Ones(G[t], n, z)) /\ Reached(u, n, m, c, t)
    BY <1>7
  <2>2. PICK P, S, R : P = Ones(S, n, z) /\ S = G[t] /\ R = G[t+1]
    OBVIOUS
  <2>3. t \in 0..n /\ t + 1 \in 0..n /\ t \in Nat
    OBVIOUS
  <2>4. S \in [0..n-1 -> Items] /\ R \in [0..n-1 -> Items] /\ IsPass(R, S, n, t) /\ P \subseteq 0..n-1
    BY <1>1, <1>2, <2>2, <2>3
  <2>5. PICK v : v = [k \in 1..m |-> IF Advances(u[k], n, t, P) THEN u[k] + 1 ELSE u[k]]
    OBVIOUS
  <2>6. Lists(v, m, Ones(R, n, z))
    BY <2>1, <2>2, <2>3, <2>4, <2>5, PassLists
  <2>7. Reached(v, n, m, c, t + 1)
    BY <1>5, <2>1, <2>2, <2>3, <2>4, <2>5, PassReaches
  <2> QED
    BY <2>2, <2>3, <2>6, <2>7
<1>8. n \in Near
  <2> HIDE DEF Near
  <2>1. 0..n \subseteq Near
    BY <1>6, <1>7, UpTo
  <2> QED
    BY <2>1
<1>9. PICK u : Lists(u, m, Ones(G[n], n, z)) /\ Reached(u, n, m, c, n)
  BY <1>8
<1>10. /\ u \in [1..m -> Ones(G[n], n, z)]
       /\ \A k \in Ones(G[n], n, z) : \E a \in 1..m : u[a] = k
  BY <1>9 DEF Lists
<1>11. Ones(G[n], n, z) \subseteq 0..n-1 /\ Ones(G[n], n, z) \subseteq Int
  BY <1>2
<1>12. ASSUME NEW a \in 1..m PROVE u[a] = n - a
  <2>1. u[a] \in 0..n-1 /\ 1 \in 1..m /\ 1 <= a
    BY <1>10, <1>11
  <2>2. u[1] \in 0..n-1
    BY <1>10, <1>11, <2>1
  <2>3. u[1] >= u[a] + (a - 1)
    BY <1>9, <1>11, <2>1, ListGoesDown
  <2>4. u[a] >= n - a \/ u[a] >= c - 2 * (a - 1) + n
    BY <1>9 DEF Reached
  <2> QED
    BY <1>5, <2>1, <2>2, <2>3, <2>4
<1>13. i \in Ones(G[n], n, z)
  BY DEF Ones
<1>14. PICK a \in 1..m : u[a] = i
  BY <1>10, <1>13
<1>15. PICK b \in 1..m : b = n - j
  BY <1>12, <1>14
<1>16. u[b] = j
  BY <1>12, <1>15
<1>17. j \in Ones(G[n], n, z)
  BY <1>10, <1>16
<1> QED
  BY <1>17 DEF Ones

\* Equal elements are in the order in which they came.
Stable(s, n) ==
    \A i, j \in 0..n-1 : i < j /\ s[i].val = s[j].val => s[i].idx < s[j].idx

LEMMA PassKeeps ==
    ASSUME NEW n \in Nat, NEW t \in Nat, NEW s \in [0..n-1 -> Items], Stable(s, n),
           NEW r \in [0..n-1 -> Items], IsPass(r, s, n, t)
    PROVE  Stable(r, n)
<1> DEFINE swaps == {j \in 0..n-2 : j % 2 = t % 2 /\ s[j+1].val < s[j].val}
           From(k) == IF k \in swaps THEN k+1 ELSE IF k-1 \in swaps THEN k-1 ELSE k
<1>1. \A k \in 0..n-1 : From(k) \in 0..n-1 /\ r[k] = s[From(k)]
  <2> SUFFICES ASSUME NEW k \in 0..n-1 PROVE From(k) \in 0..n-1 /\ r[k] = s[From(k)]
    OBVIOUS
  <2>1. r[k] = IF k \in swaps THEN s[k+1] ELSE IF k-1 \in swaps THEN s[k-1] ELSE s[k]
    BY DEF IsPass
  <2>2. /\ k \in swaps => k+1 \in 0..n-1
        /\ k-1 \in swaps => k-1 \in 0..n-1
    OBVIOUS
  <2> HIDE DEF swaps
  <2> QED
    BY <2>1, <2>2
<1>2. \A k \in 0..n-2 : k \in swaps => s[k+1].val < s[k].val /\ k + 1 \notin swaps
  <2> SUFFICES ASSUME NEW k \in 0..n-2, k \in swaps PROVE s[k+1].val < s[k].val /\ k + 1 \notin swaps
    OBVIOUS
  <2>1. k % 2 = t % 2 /\ s[k+1].val < s[k].val
    OBVIOUS
  <2>2. (k + 1) % 2 # k % 2
    OBVIOUS
  <2> QED
    BY <2>1, <2>2
<1>3. swaps \subseteq 0..n-2
  OBVIOUS
<1> HIDE DEF swaps
<1>4. ASSUME NEW i \in 0..n-1, NEW j \in 0..n-1, i < j, From(i) >= From(j)
      PROVE  r[i].val # r[j].val
  <2>1. PICK g \in {i - 1, i, i + 1} : g = From(i) /\ (g = i + 1 <=> i \in swaps)
    OBVIOUS
  <2>2. PICK h \in {j - 1, j, j + 1} :
           /\ h = From(j)
           /\ h = j - 1 => j - 1 \in swaps
           /\ j \notin swaps /\ j - 1 \in swaps => h = j - 1
    OBVIOUS
  <2>3. j = i + 1 /\ i \in swaps
    <3>1. CASE i \in swaps
      <4>1. i + 1 \notin swaps /\ g = i + 1
        BY <1>2, <1>3, <2>1, <3>1
      <4>2. h <= i + 1
        BY <1>4, <2>1, <2>2, <4>1
      <4>3. h = j - 1 \/ j = i + 1
        BY <1>4, <2>2, <4>2
      <4>4. h = j - 1 => j = i + 1
        <5>1. h = j - 1 => j - 1 \in swaps /\ j - 1 <= i + 1
          BY <2>2, <4>2
        <5>2. j - 1 # i + 1 \/ h # j - 1
          BY <4>1, <5>1
        <5> QED
          BY <1>4, <5>1, <5>2
      <4> QED
        BY <3>1, <4>3, <4>4
    <3>2. CASE i \notin swaps
      <4>1. g <= i /\ h <= i
        BY <1>4, <2>1, <2>2, <3>2
      <4>2. h = j - 1 /\ j = i + 1
        BY <1>4, <2>2, <4>1
      <4>3. i \in swaps
        <5>1. j - 1 = i
          BY <4>2
        <5> QED
          BY <2>2, <4>2, <5>1
      <4> QED
        BY <3>2, <4>3
    <3> QED
      BY <3>1, <3>2
  <2>4. j \notin swaps /\ j - 1 = i /\ s[i+1].val < s[i].val
    BY <1>2, <1>3, <2>3
  <2>5. From(i) = i + 1 /\ From(j) = i
    BY <2>3, <2>4
  <2>6. r[i] = s[i+1] /\ r[j] = s[i]
    BY <1>1, <2>5
  <2>7. s[i+1].val \in Int /\ s[i].val \in Int
    BY <2>3 DEF Items
  <2> QED
    BY <2>4, <2>6, <2>7
<1>5. ASSUME NEW i \in 0..n-1, NEW j \in 0..n-1, i < j, r[i].val = r[j].val
      PROVE  r[i].idx < r[j].idx
  <2>1. PICK g \in 0..n-1 : g = From(i) /\ r[i] = s[g]
    BY <1>1
  <2>2. PICK h \in 0..n-1 : h = From(j) /\ r[j] = s[h]
    BY <1>1
  <2>3. g < h
    BY <1>4, <1>5, <2>1, <2>2
  <2> QED
    BY <1>5, <2>1, <2>2, <2>3 DEF Stable
<1> QED
  BY <1>5 DEF Stable

LEMMA PassesSort ==
    ASSUME NEW n \in Nat, NEW s, Stable(s, n), NEW G, Passes(G, s, n)
    PROVE  Rising(G[n], n)
<1>1. /\ G[0] = s
      /\ \A t \in 0..n-1 : IsPass(G[t+1], G[t], n, t)
      /\ \A t \in 0..n : G[t] \in [0..n-1 -> Items]
  BY DEF Passes
<1> DEFINE Keeps == {t \in 0..n : Stable(G[t], n)}
<1>2. 0 \in Keeps
  BY <1>1
<1>3. ASSUME NEW t \in 0..n-1, t \in Keeps PROVE t + 1 \in Keeps
  <2>1. PICK S, R : S = G[t] /\ R = G[t+1]
    OBVIOUS
  <2>2. t \in 0..n /\ t + 1 \in 0..n /\ t \in Nat
    OBVIOUS
  <2>3. S \in [0..n-1 -> Items] /\ R \in [0..n-1 -> Items] /\ IsPass(R, S, n, t) /\ Stable(S, n)
    BY <1>1, <1>3, <2>1, <2>2
  <2>4. Stable(R, n)
    BY <2>2, <2>3, PassKeeps
  <2> QED
    BY <2>1, <2>2, <2>4
<1>4. n \in Keeps
  <2> HIDE DEF Keeps
  <2>1. 0..n \subseteq Keeps
    BY <1>2, <1>3, UpTo
  <2> QED
    BY <2>1
<1>5. ASSUME NEW i \in 0..n-1, NEW j \in 0..n-1, i < j PROVE Precedes(G[n][i], G[n][j])
  <2>1. PICK e, f : e = G[n][i] /\ f = G[n][j]
    OBVIOUS
  <2>2. e \in Items /\ f \in Items
    BY <1>1, <2>1
  <2>3. PICK z \in Int : z = e.val
    BY <2>2 DEF Items
  <2>4. f.val >= z
    <3>1. G[n][i].val >= z
      BY <2>1, <2>3
    <3> QED
      BY <1>5, <2>1, <3>1, OnesSettle
  <2>5. e.val = f.val => e.idx < f.idx
    BY <1>4, <1>5, <2>1 DEF Stable
  <2>6. Precedes(e, f)
    BY <2>2, <2>3, <2>4, <2>5 DEF Precedes, Items
  <2> QED
    BY <2>1, <2>6
<1> QED
  BY <1>5 DEF Rising

\* A set that holds the elements still does after the passes.
LEMMA PassesKeep ==
    ASSUME NEW n \in Nat, NEW s, NEW G, Passes(G, s, n), NEW E, \A k \in 0..n-1 : s[k] \in E
    PROVE  \A k \in 0..n-1 : G[n][k] \in E
<1>1. /\ G[0] = s
      /\ \A t \in 0..n-1 : IsPass(G[t+1], G[t], n, t)
  BY DEF Passes
<1> DEFINE Keeps == {t \in 0..n : \A k \in 0..n-1 : G[t][k] \in E}
<1>2. 0 \in Keeps
  BY <1>1
<1>3. ASSUME NEW t \in 0..n-1, t \in Keeps PROVE t + 1 \in Keeps
  <2>1. PICK S, R : S = G[t] /\ R = G[t+1]
    OBVIOUS
  <2>2. ASSUME NEW k \in 0..n-1 PROVE R[k] \in E
    <3> DEFINE swaps == {j \in 0..n-2 : j % 2 = t % 2 /\ S[j+1].val < S[j].val}
    <3>1. R[k] = IF k \in swaps THEN S[k+1] ELSE IF k-1 \in swaps THEN S[k-1] ELSE S[k]
      BY <1>1, <2>1 DEF IsPass
    <3>2. /\ k \in swaps => k+1 \in 0..n-1
          /\ k-1 \in swaps => k-1 \in 0..n-1
      OBVIOUS
    <3>3. \A j \in 0..n-1 : S[j] \in E
      BY <1>3, <2>1
    <3> HIDE DEF swaps
    <3> QED
      BY <3>1, <3>2, <3>3
  <2> QED
    BY <2>1, <2>2
<1>4. n \in Keeps
  <2> HIDE DEF Keeps
  <2>1. 0..n \subseteq Keeps
    BY <1>2, <1>3, UpTo
  <2> QED
    BY <2>1
<1> QED
  BY <1>4

\* ThreadSort makes these passes.
LEMMA BlockPass ==
    ASSUME NEW n \in Nat, n = N_PER_THREAD, NEW s \in [0..n-1 -> Items], NEW t \in Nat
    PROVE  /\ Block!Pass(s, t) \in [0..n-1 -> Items]
           /\ IsPass(Block!Pass(s, t), s, n, t)
<1> DEFINE swaps == {j \in 0..n-2 : j % 2 = t % 2 /\ s[j+1].val < s[j].val}
<1>1. Block!Pass(s, t) = [k \in 0..n-1 |-> IF k \in swaps THEN s[k+1]
                                           ELSE IF k-1 \in swaps THEN s[k-1] ELSE s[k]]
  BY DEF Block!Pass, Block!Swapped, Block!LessThan, Block!Elements
<1>2. \A k \in 0..n-1 :
        /\ k \in swaps => k+1 \in 0..n-1
        /\ k-1 \in swaps => k-1 \in 0..n-1
  OBVIOUS
<1>3. IsPass(Block!Pass(s, t), s, n, t)
  BY <1>1 DEF IsPass
<1> HIDE DEF swaps
<1>4. Block!Pass(s, t) \in [0..n-1 -> Items]
  BY <1>1, <1>2
<1> QED
  BY <1>3, <1>4

IsThreadSort(G, s, n) ==
    G = [i \in 0..n |-> IF i = 0 THEN s ELSE Block!Pass(G[i-1], i-1)]

LEMMA ThreadSortExists ==
    ASSUME NEW n \in Nat, NEW s
    PROVE  \E G : IsThreadSort(G, s, n)
<1> DEFINE Body(G, i) == IF i = 0 THEN s ELSE Block!Pass(G[i-1], i-1)
           Found == {d \in 0..n : \E G : \A i \in 0..d : G[i] = Body(G, i)}
<1>c. ASSUME NEW G, NEW R, NEW d \in Nat, \A i \in 0..d : R[i] = G[i], NEW i \in 0..d+1
      PROVE  Body(R, i) = Body(G, i)
  <2>1. CASE i = 0
    BY <2>1
  <2>2. CASE i # 0
    <3>1. PICK h \in 0..d : h = i - 1
      BY <2>2
    <3>2. R[h] = G[h]
      BY <1>c
    <3> QED
      BY <2>2, <3>1, <3>2
  <2> QED
    BY <2>1, <2>2
<1> HIDE DEF Body
<1>1. 0 \in Found
  <2>1. PICK G : G = [i \in {0} |-> s]
    OBVIOUS
  <2>2. \A i \in 0..0 : G[i] = Body(G, i)
    BY <2>1 DEF Body
  <2> QED
    BY <2>2
<1>2. ASSUME NEW d \in 0..n-1, d \in Found PROVE d + 1 \in Found
  <2>1. PICK G : \A i \in 0..d : G[i] = Body(G, i)
    BY <1>2
  <2>2. PICK R : R = [i \in 0..d+1 |-> IF i <= d THEN G[i] ELSE Body(G, i)]
    OBVIOUS
  <2>3. \A i \in 0..d : R[i] = G[i]
    BY <2>2
  <2>4. \A i \in 0..d+1 : Body(R, i) = Body(G, i)
    BY <1>c, <2>3
  <2>5. \A i \in 0..d+1 : R[i] = Body(G, i)
    BY <2>1, <2>2
  <2> QED
    BY <2>4, <2>5
<1>3. n \in Found
  <2> HIDE DEF Found
  <2>1. 0..n \subseteq Found
    BY <1>1, <1>2, UpTo
  <2> QED
    BY <2>1
<1>4. PICK G : \A i \in 0..n : G[i] = Body(G, i)
  BY <1>3
<1>5. PICK R : R = [i \in 0..n |-> G[i]]
  OBVIOUS
<1>6. \A i \in 0..n : Body(R, i) = Body(G, i)
  <2>1. \A i \in 0..n : R[i] = G[i]
    BY <1>5
  <2>2. 0..n \subseteq 0..n+1
    OBVIOUS
  <2> QED
    BY <1>c, <2>1, <2>2
<1>7. R = [i \in 0..n |-> Body(R, i)]
  BY <1>4, <1>5, <1>6
<1> QED
  BY <1>7 DEF Body, IsThreadSort

\* The sort of a thread's elements is stable, and keeps them in any set they are in.
LEMMA ThreadSorts ==
    ASSUME NEW n \in Nat, n = N_PER_THREAD, NEW s \in [0..n-1 -> Items], Stable(s, n)
    PROVE  /\ Block!ThreadSort(s) \in [0..n-1 -> Items]
           /\ Rising(Block!ThreadSort(s), n)
           /\ \A E : (\A k \in 0..n-1 : s[k] \in E) => \A k \in 0..n-1 : Block!ThreadSort(s)[k] \in E
<1>0. PICK H : IsThreadSort(H, s, N_PER_THREAD)
  BY ThreadSortExists
<1>1. H = [i \in 0..N_PER_THREAD |-> IF i = 0 THEN s ELSE Block!Pass(H[i-1], i-1)]
  BY <1>0 DEF IsThreadSort
<1>2. PICK G : /\ Block!ThreadSort(s) = G[N_PER_THREAD]
               /\ G = [i \in 0..N_PER_THREAD |-> IF i = 0 THEN s ELSE Block!Pass(G[i-1], i-1)]
  BY <1>1, Zenon DEF Block!ThreadSort
<1>3. G[0] = s
  BY <1>2
<1>4. \A t \in 0..n-1 : G[t+1] = Block!Pass(G[t], t)
  <2> SUFFICES ASSUME NEW t \in 0..n-1 PROVE G[t+1] = Block!Pass(G[t], t)
    OBVIOUS
  <2>1. PICK h \in 0..n : h = t + 1 /\ h # 0 /\ h - 1 = t
    OBVIOUS
  <2>2. G[h] = Block!Pass(G[h-1], h-1)
    BY <1>2, <2>1
  <2> QED
    BY <2>1, <2>2
<1> DEFINE Typed == {t \in 0..n : G[t] \in [0..n-1 -> Items]}
<1>5. 0 \in Typed
  BY <1>3
<1>6. ASSUME NEW t \in 0..n-1, t \in Typed PROVE t + 1 \in Typed
  <2>1. PICK S : S = G[t] /\ S \in [0..n-1 -> Items]
    BY <1>6
  <2>2. Block!Pass(S, t) \in [0..n-1 -> Items]
    <3>1. t \in Nat
      OBVIOUS
    <3> QED
      BY <2>1, <3>1, BlockPass
  <2> QED
    BY <1>4, <2>1, <2>2
<1>7. 0..n \subseteq Typed
  <2> HIDE DEF Typed
  <2> QED
    BY <1>5, <1>6, UpTo
<1>8. \A t \in 0..n : G[t] \in [0..n-1 -> Items]
  BY <1>7
<1>9. ASSUME NEW t \in 0..n-1 PROVE IsPass(G[t+1], G[t], n, t)
  <2>1. PICK S : S = G[t] /\ S \in [0..n-1 -> Items]
    BY <1>8
  <2>2. IsPass(Block!Pass(S, t), S, n, t)
    <3>1. t \in Nat
      OBVIOUS
    <3> QED
      BY <2>1, <3>1, BlockPass
  <2> QED
    BY <1>4, <2>1, <2>2
<1>10. Passes(G, s, n)
  BY <1>3, <1>8, <1>9 DEF Passes
<1>11. Block!ThreadSort(s) = G[n]
  BY <1>2
<1>12. Rising(G[n], n)
  BY <1>10, PassesSort
<1>13. \A E : (\A k \in 0..n-1 : s[k] \in E) => \A k \in 0..n-1 : G[n][k] \in E
  BY <1>10, PassesKeep
<1> QED
  BY <1>8, <1>11, <1>12, <1>13

-----------------------------------------------------------------------------
(* The block sort: what the threads hold after each merge.                 *)

LEMMA DivIs ==
    ASSUME NEW p \in Nat \ {0}, NEW q \in Nat, NEW r \in 0..p-1, NEW a, a = p * q + r
    PROVE  a \in Nat /\ a \div p = q /\ a % p = r
<1>1. a \in Nat
  BY OneMore
<1>2. PICK s \in Nat, u \in 0..p-1 : s = a \div p /\ u = a % p /\ a = p * s + u
  BY <1>1, DivMod
<1>3. ~(s < q)
  <2> SUFFICES ASSUME s < q PROVE FALSE
    OBVIOUS
  <2>1. p * (s + 1) <= p * q
    BY SMT
  <2>2. p * (s + 1) = p * s + p /\ p * s \in Nat /\ p * q \in Nat
    BY OneMore
  <2> QED
    BY <1>2, <2>1, <2>2
<1>4. ~(q < s)
  <2> SUFFICES ASSUME q < s PROVE FALSE
    OBVIOUS
  <2>1. p * (q + 1) <= p * s
    BY SMT
  <2>2. p * (q + 1) = p * q + p /\ p * s \in Nat /\ p * q \in Nat
    BY OneMore
  <2> QED
    BY <1>2, <2>1, <2>2
<1>5. s = q
  BY <1>3, <1>4
<1>6. u = r
  <2>1. PICK h \in Nat : h = p * q
    BY OneMore
  <2> QED
    BY <1>2, <1>5, <2>1
<1> QED
  BY <1>1, <1>2, <1>5, <1>6

\* The number of threads that share a run doubles from level to level.
Doubles(W, n) == W[0] = 1 /\ \A l \in 0..n-1 : W[l+1] = 2 * W[l]

LEMMA DoublesExist ==
    ASSUME NEW n \in Nat
    PROVE  \E W : W = [l \in 0..n |-> IF l = 0 THEN 1 ELSE 2 * W[l-1]]
<1> DEFINE Body(W, i) == IF i = 0 THEN 1 ELSE 2 * W[i-1]
           Found == {d \in 0..n : \E W : \A i \in 0..d : W[i] = Body(W, i)}
<1>c. ASSUME NEW W, NEW R, NEW d \in Nat, \A i \in 0..d : R[i] = W[i], NEW i \in 0..d+1
      PROVE  Body(R, i) = Body(W, i)
  <2>1. CASE i = 0
    BY <2>1
  <2>2. CASE i # 0
    <3>1. PICK h \in 0..d : h = i - 1
      BY <2>2
    <3>2. R[h] = W[h]
      BY <1>c
    <3> QED
      BY <2>2, <3>1, <3>2
  <2> QED
    BY <2>1, <2>2
<1> HIDE DEF Body
<1>1. 0 \in Found
  <2>1. PICK W : W = [i \in {0} |-> 1]
    OBVIOUS
  <2>2. \A i \in 0..0 : W[i] = Body(W, i)
    BY <2>1 DEF Body
  <2> QED
    BY <2>2
<1>2. ASSUME NEW d \in 0..n-1, d \in Found PROVE d + 1 \in Found
  <2>1. PICK W : \A i \in 0..d : W[i] = Body(W, i)
    BY <1>2
  <2>2. PICK R : R = [i \in 0..d+1 |-> IF i <= d THEN W[i] ELSE Body(W, i)]
    OBVIOUS
  <2>3. \A i \in 0..d : R[i] = W[i]
    BY <2>2
  <2>4. \A i \in 0..d+1 : Body(R, i) = Body(W, i)
    BY <1>c, <2>3
  <2>5. \A i \in 0..d+1 : R[i] = Body(W, i)
    BY <2>1, <2>2
  <2> QED
    BY <2>4, <2>5
<1>3. n \in Found
  <2> HIDE DEF Found
  <2>1. 0..n \subseteq Found
    BY <1>1, <1>2, UpTo
  <2> QED
    BY <2>1
<1>4. PICK W : \A i \in 0..n : W[i] = Body(W, i)
  BY <1>3
<1>5. PICK R : R = [i \in 0..n |-> W[i]]
  OBVIOUS
<1>6. \A i \in 0..n : Body(R, i) = Body(W, i)
  <2>1. \A i \in 0..n : R[i] = W[i]
    BY <1>5
  <2>2. 0..n \subseteq 0..n+1
    OBVIOUS
  <2> QED
    BY <1>c, <2>1, <2>2
<1>7. R = [i \in 0..n |-> Body(R, i)]
  BY <1>4, <1>5, <1>6
<1> QED
  BY <1>7 DEF Body

LEMMA MergeThreadsDouble ==
    /\ \A l \in 0..Levels : Block!MergeThreads[l] \in Nat \ {0}
    /\ Doubles(Block!MergeThreads, Levels)
<1>1. Levels \in Nat
  BY BlockAssumption
<1>2. PICK W : W = [l \in 0..Levels |-> IF l = 0 THEN 1 ELSE 2 * W[l-1]]
  BY <1>1, DoublesExist
<1>3. Block!MergeThreads
        = [l \in 0..Levels |-> IF l = 0 THEN 1 ELSE 2 * Block!MergeThreads[l-1]]
  BY <1>2, Zenon DEF Block!MergeThreads
<1>4. PICK V : V = Block!MergeThreads
  OBVIOUS
<1>5. V = [l \in 0..Levels |-> IF l = 0 THEN 1 ELSE 2 * V[l-1]]
  BY <1>3, <1>4
<1>6. V[0] = 1
  BY <1>1, <1>5
<1>7. ASSUME NEW l \in 0..Levels-1 PROVE V[l+1] = 2 * V[l]
  <2>1. PICK h \in 1..Levels : h = l + 1 /\ h - 1 = l /\ h # 0
    BY <1>1
  <2>2. V[h] = 2 * V[h-1]
    BY <1>1, <1>5, <2>1
  <2> QED
    BY <2>1, <2>2
<1> DEFINE Typed == {l \in 0..Levels : V[l] \in Nat \ {0}}
<1>8. 0 \in Typed
  BY <1>1, <1>6
<1>9. \A l \in 0..Levels-1 : l \in Typed => l + 1 \in Typed
  BY <1>1, <1>7
<1>10. 0..Levels \subseteq Typed
  <2> HIDE DEF Typed
  <2> QED
    BY <1>1, <1>8, <1>9, UpTo
<1> QED
  BY <1>4, <1>6, <1>7, <1>10 DEF Doubles

\* The element a block starts with at a place, the row w of n elements in it.
Item(w, n, i) == [val |-> IF i < n THEN w[i] ELSE Pad, idx |-> i]

\* What thread t has of the row.
Own(w, n, t) == [k \in Block!Elements |-> Item(w, n, t * N_PER_THREAD + k)]

\* Threadgroup memory when every thread has stored its elements p[t].
Memory(p) == [i \in Block!Block |-> p[i \div N_PER_THREAD][i % N_PER_THREAD]]

FirstPieces(w, n) ==
    [t \in Block!Lids |-> IF t * N_PER_THREAD < n THEN Block!ThreadSort(Own(w, n, t)) ELSE Own(w, n, t)]

\* What the threads hold after a merge to a level, p being what they held before.
MergedPieces(p, level) ==
    [t \in Block!Lids |->
       LET merge_threads == Block!MergeThreads[level]
           sort_sz == N_PER_THREAD * merge_threads
           sort_st == sort_sz * (t \div merge_threads)
           half == sort_sz \div 2
       IN Block!MergePart(Memory(p), sort_st, sort_st + half, half, half,
                          N_PER_THREAD * (t % merge_threads))]

\* P[l][t] is what thread t holds after the merge to level l.
ArePieces(P, w, n) ==
    /\ P[0] = FirstPieces(w, n)
    /\ \A l \in 0..Levels-1 : P[l+1] = MergedPieces(P[l], l+1)

LEMMA PiecesExist ==
    ASSUME NEW w, NEW n
    PROVE  \E P : ArePieces(P, w, n)
<1>1. Levels \in Nat
  BY BlockAssumption
<1> DEFINE Found == {d \in 0..Levels : \E P : /\ P[0] = FirstPieces(w, n)
                                              /\ \A l \in 0..d-1 : P[l+1] = MergedPieces(P[l], l+1)}
<1>2. 0 \in Found
  <2>1. PICK P : P = [l \in {0} |-> FirstPieces(w, n)]
    OBVIOUS
  <2>2. P[0] = FirstPieces(w, n) /\ \A l \in 0..0-1 : P[l+1] = MergedPieces(P[l], l+1)
    BY <2>1
  <2> QED
    BY <1>1, <2>2
<1>3. ASSUME NEW d \in 0..Levels-1, d \in Found PROVE d + 1 \in Found
  <2>1. PICK P : P[0] = FirstPieces(w, n) /\ \A l \in 0..d-1 : P[l+1] = MergedPieces(P[l], l+1)
    BY <1>3
  <2>2. PICK Q : Q = [l \in 0..d+1 |-> IF l <= d THEN P[l] ELSE MergedPieces(P[d], d+1)]
    OBVIOUS
  <2>3. \A l \in 0..d : Q[l] = P[l]
    BY <2>2
  <2>4. Q[d+1] = MergedPieces(P[d], d+1)
    BY <1>1, <2>2
  <2>5. ASSUME NEW l \in 0..(d+1)-1 PROVE Q[l+1] = MergedPieces(Q[l], l+1)
    <3>1. CASE l = d
      <4>1. Q[d] = P[d]
        BY <2>3
      <4> QED
        BY <2>4, <3>1, <4>1
    <3>2. CASE l # d
      <4>1. PICK h \in 0..d : h = l + 1 /\ l \in 0..d-1
        BY <3>2
      <4>2. Q[h] = P[h] /\ Q[l] = P[l]
        BY <2>3, <4>1
      <4>3. P[l+1] = MergedPieces(P[l], l+1)
        BY <2>1, <4>1
      <4> QED
        BY <4>1, <4>2, <4>3
    <3> QED
      BY <3>1, <3>2
  <2>6. d + 1 \in 0..Levels /\ Q[0] = FirstPieces(w, n)
    BY <1>1, <2>1, <2>3
  <2> QED
    BY <2>5, <2>6
<1>4. Levels \in Found
  <2> HIDE DEF Found
  <2>1. 0..Levels \subseteq Found
    BY <1>1, <1>2, <1>3, UpTo
  <2> QED
    BY <1>1, <2>1
<1> QED
  BY <1>4 DEF ArePieces

\* A place in threadgroup memory, by the thread that stores to it.
LEMMA PlaceIs ==
    ASSUME NEW t \in Block!Lids, NEW k \in Block!Elements, NEW i, i = N_PER_THREAD * t + k
    PROVE  /\ i \in Block!Block
           /\ i \div N_PER_THREAD = t /\ i % N_PER_THREAD = k
<1>1. N_PER_THREAD \in Nat \ {0} /\ BLOCK_THREADS \in Nat \ {0}
  BY BlockAssumption, MergeThreadsDouble
<1>2. t \in Nat /\ t + 1 <= BLOCK_THREADS /\ k \in 0..N_PER_THREAD-1
  BY <1>1 DEF Block!Lids, Block!Elements
<1>3. i \in Nat /\ i \div N_PER_THREAD = t /\ i % N_PER_THREAD = k
  BY <1>1, <1>2, DivIs
<1>4. i < N_PER_THREAD * BLOCK_THREADS
  <2>1. N_PER_THREAD * (t + 1) = N_PER_THREAD * t + N_PER_THREAD /\ N_PER_THREAD * t \in Nat
    BY <1>1, <1>2, OneMore
  <2>2. N_PER_THREAD * (t + 1) <= N_PER_THREAD * BLOCK_THREADS
    BY <1>1, <1>2, SMT
  <2>3. N_PER_THREAD * BLOCK_THREADS \in Nat
    BY <1>1, OneMore
  <2> QED
    BY <1>1, <1>2, <2>1, <2>2, <2>3
<1>5. Block!N_PER_BLOCK = N_PER_THREAD * BLOCK_THREADS
  BY <1>1 DEF Block!N_PER_BLOCK
<1> QED
  BY <1>3, <1>4, <1>5 DEF Block!Block

LEMMA PlaceOf ==
    ASSUME NEW i \in Block!Block
    PROVE  /\ i \in Nat
           /\ i \div N_PER_THREAD \in Block!Lids /\ i % N_PER_THREAD \in Block!Elements
           /\ i = N_PER_THREAD * (i \div N_PER_THREAD) + (i % N_PER_THREAD)
<1>1. N_PER_THREAD \in Nat \ {0} /\ BLOCK_THREADS \in Nat \ {0}
  BY BlockAssumption, MergeThreadsDouble
<1>2. N_PER_THREAD * BLOCK_THREADS \in Nat /\ Block!N_PER_BLOCK = N_PER_THREAD * BLOCK_THREADS
  BY <1>1, OneMore DEF Block!N_PER_BLOCK
<1>3. i \in Nat /\ i < N_PER_THREAD * BLOCK_THREADS
  BY <1>2 DEF Block!Block
<1>a. i \div N_PER_THREAD \in Nat /\ i % N_PER_THREAD \in 0..N_PER_THREAD-1
  BY <1>1, <1>3, DivMod
<1>b. i = N_PER_THREAD * (i \div N_PER_THREAD) + (i % N_PER_THREAD)
  BY <1>1, <1>3, DivMod
<1>4. PICK t \in Nat, k \in 0..N_PER_THREAD-1 :
         t = i \div N_PER_THREAD /\ k = i % N_PER_THREAD /\ i = N_PER_THREAD * t + k
  BY <1>a, <1>b
<1>5. t < BLOCK_THREADS
  <2> SUFFICES ASSUME BLOCK_THREADS <= t PROVE FALSE
    BY <1>1
  <2>1. N_PER_THREAD * BLOCK_THREADS <= N_PER_THREAD * t
    BY <1>1, SMT
  <2>2. N_PER_THREAD * t \in Nat
    BY <1>1, OneMore
  <2> QED
    BY <1>2, <1>3, <1>4, <2>1, <2>2
<1>6. t \in Block!Lids /\ k \in Block!Elements
  BY <1>1, <1>5 DEF Block!Lids, Block!Elements
<1> QED
  BY <1>3, <1>4, <1>6

\* sz elements of memory from st on are the row's elements of these places, in order.
IsRun(mem, st, sz, w, n) ==
    /\ \A k \in 0..sz-1 : \E j \in st..st+sz-1 : mem[st+k] = Item(w, n, j)
    /\ Rising([k \in 0..sz-1 |-> mem[st+k]], sz)

\* The row's elements are integers, and none is beyond the padding.
IsRow(w, n) == n \in Nat /\ \A i \in 0..n-1 : w[i] \in Int /\ w[i] <= Pad

LEMMA ItemType ==
    ASSUME NEW w, NEW n, IsRow(w, n), NEW i \in Nat
    PROVE  /\ Item(w, n, i) \in Items /\ Item(w, n, i).idx = i
           /\ Item(w, n, i).val <= Pad
<1>1. Pad \in Int
  BY BlockAssumption
<1>2. CASE i < n
  <2>1. i \in 0..n-1
    BY <1>2 DEF IsRow
  <2> QED
    BY <1>1, <1>2, <2>1 DEF IsRow, Item, Items
<1>3. CASE ~(i < n)
  BY <1>1, <1>3 DEF IsRow, Item, Items
<1> QED
  BY <1>2, <1>3

\* z is such a run, as a sequence of its own.
LEMMA RunIs ==
    ASSUME NEW mem, NEW st, NEW sz \in Nat, NEW w, NEW n, NEW z \in [0..sz-1 -> Items], Rising(z, sz),
           \A k \in 0..sz-1 : mem[st + k] = z[k],
           \A k \in 0..sz-1 : \E j \in st..st+sz-1 : z[k] = Item(w, n, j)
    PROVE  IsRun(mem, st, sz, w, n)
<1>1. [k \in 0..sz-1 |-> mem[st+k]] = z
  OBVIOUS
<1>2. \A k \in 0..sz-1 : \E j \in st..st+sz-1 : mem[st+k] = Item(w, n, j)
  OBVIOUS
<1> QED
  BY <1>1, <1>2 DEF IsRun

\* The elements of each thread are a run before the first merge.
LEMMA FirstRuns ==
    ASSUME NEW w, NEW n, IsRow(w, n), NEW t \in Block!Lids, NEW st, st = N_PER_THREAD * t
    PROVE  IsRun(Memory(FirstPieces(w, n)), st, N_PER_THREAD, w, n)
<1>1. PICK N \in Nat \ {0} : N = N_PER_THREAD /\ Block!Elements = 0..N-1
  BY BlockAssumption DEF Block!Elements
<1>2. t \in Nat
  BY BlockAssumption, MergeThreadsDouble DEF Block!Lids
<1>3. st \in Nat /\ st = t * N
  BY <1>1, <1>2, OneMore
<1>4. PICK own : own = Own(w, n, t)
  OBVIOUS
<1>5. own = [k \in 0..N-1 |-> Item(w, n, st + k)]
  BY <1>1, <1>3, <1>4 DEF Own
<1>6. \A k \in 0..N-1 : /\ own[k] = Item(w, n, st + k) /\ own[k] \in Items
                        /\ own[k].idx = st + k /\ own[k].val <= Pad
  BY <1>3, <1>5, ItemType
<1>7. own \in [0..N-1 -> Items]
  BY <1>5, <1>6
<1>8. PICK piece : piece = FirstPieces(w, n)[t]
  OBVIOUS
<1>9. piece = IF st < n THEN Block!ThreadSort(own) ELSE own
  BY <1>1, <1>3, <1>4, <1>8 DEF FirstPieces
<1>10. \A k \in 0..N-1 : Memory(FirstPieces(w, n))[st + k] = piece[k]
  BY <1>1, <1>8, PlaceIs DEF Memory
<1> DEFINE Mine == {Item(w, n, j) : j \in st..st+N-1}
<1>11. \A k \in 0..N-1 : own[k] \in Mine
  BY <1>1, <1>3, <1>6
<1>12. Stable(own, N)
  BY <1>3, <1>6 DEF Stable
<1>13. /\ piece \in [0..N-1 -> Items] /\ Rising(piece, N)
       /\ \A k \in 0..N-1 : piece[k] \in Mine
  <2>1. CASE st < n
    <3>0. piece = Block!ThreadSort(own)
      BY <1>9, <2>1
    <3>1. Block!ThreadSort(own) \in [0..N-1 -> Items]
      BY <1>1, <1>7, <1>12, ThreadSorts
    <3>2. Rising(Block!ThreadSort(own), N)
      BY <1>1, <1>7, <1>12, ThreadSorts
    <3>3. \A E : (\A k \in 0..N-1 : own[k] \in E) => \A k \in 0..N-1 : Block!ThreadSort(own)[k] \in E
      BY <1>1, <1>7, <1>12, ThreadSorts
    <3> HIDE DEF Mine
    <3>4. \A k \in 0..N-1 : Block!ThreadSort(own)[k] \in Mine
      BY <1>11, <3>3
    <3> QED
      BY <3>0, <3>1, <3>2, <3>4
  <2>2. CASE ~(st < n)
    <3>0. piece = own
      BY <1>9, <2>2
    <3>1. \A k \in 0..N-1 : own[k].val = Pad
      <4> TAKE k \in 0..N-1
      <4>1. ~(st + k < n) /\ own[k] = Item(w, n, st + k)
        BY <1>3, <1>6, <2>2 DEF IsRow
      <4> QED
        BY <4>1 DEF Item
    <3>2. Rising(own, N)
      BY <1>3, <1>6, <3>1 DEF Rising, Precedes
    <3> HIDE DEF Mine
    <3> QED
      BY <1>7, <1>11, <3>0, <3>2
  <2> QED
    BY <2>1, <2>2
<1>14. \A k \in 0..N-1 : \E j \in st..st+N-1 : piece[k] = Item(w, n, j)
  BY <1>13
<1>15. PICK mem : mem = Memory(FirstPieces(w, n))
  OBVIOUS
<1>16. IsRun(mem, st, N, w, n)
  <2>1. \A k \in 0..N-1 : mem[st + k] = piece[k]
    BY <1>10, <1>15
  <2>2. Rising(piece, N) /\ piece \in [0..N-1 -> Items]
    BY <1>13
  <2> QED
    BY <1>14, <2>1, <2>2, RunIs
<1> QED
  BY <1>1, <1>15, <1>16

LEMMA Products ==
    ASSUME NEW a \in Nat, NEW b \in Nat, NEW c \in Nat
    PROVE  a * b \in Nat /\ a * (b + c) = a * b + a * c /\ a * (b * c) = (a * b) * c
BY SMT

\* A group of mt threads, N elements each, that merges the runs of two groups of h.
Group(N, h, mt, half, sz) ==
    /\ N \in Nat \ {0} /\ h \in Nat \ {0}
    /\ mt = 2 * h /\ half = N * h /\ sz = N * mt

\* Group g starts at st in memory.
Begins(sz, g, st) == g \in Nat /\ st = sz * g

\* All of it is in the block.
Starts(sz, mt, g, st) == Begins(sz, g, st) /\ mt * g + mt <= BLOCK_THREADS

\* Its thread v is thread t of the block; f elements of the group are before its own.
Member(N, mt, g, v, t, f) == v \in 0..mt-1 /\ t = mt * g + v /\ f = N * v

LEMMA GroupSizes ==
    ASSUME NEW N, NEW h, NEW mt, NEW half, NEW sz, Group(N, h, mt, half, sz)
    PROVE  mt \in Nat \ {0} /\ half \in Nat /\ sz \in Nat /\ sz = half + half /\ sz \div 2 = half
<1>1. N \in Nat \ {0} /\ h \in Nat \ {0} /\ mt = 2 * h /\ half = N * h /\ sz = N * mt
  BY DEF Group
<1>2. mt \in Nat \ {0} /\ mt = h + h
  BY <1>1
<1>3. N * h \in Nat /\ N * (h + h) = N * h + N * h
  BY <1>1, Products
<1>4. half \in Nat /\ sz = half + half
  BY <1>1, <1>2, <1>3
<1> QED
  BY <1>2, <1>4

LEMMA GroupStarts ==
    ASSUME NEW N, NEW h, NEW mt, NEW half, NEW sz, Group(N, h, mt, half, sz),
           NEW g, NEW st, Begins(sz, g, st)
    PROVE  g \in Nat /\ st \in Nat
<1>1. sz \in Nat
  BY GroupSizes
<1>2. g \in Nat /\ st = sz * g
  BY DEF Begins
<1> QED
  BY <1>1, <1>2, Products

LEMMA MemberIs ==
    ASSUME NEW N, NEW h, NEW mt, NEW half, NEW sz, Group(N, h, mt, half, sz),
           NEW g, NEW st, Begins(sz, g, st), NEW v, NEW t, NEW f, Member(N, mt, g, v, t, f)
    PROVE  /\ t \div mt = g /\ t % mt = v
           /\ st = sz * g /\ f = N * v /\ f \in Nat /\ st \in Nat
           /\ N * t = st + f
<1>1. N \in Nat \ {0} /\ sz = N * mt
  BY DEF Group
<1>2. mt \in Nat \ {0}
  BY GroupSizes
<1>3. g \in Nat /\ st = sz * g
  BY DEF Begins
<1>4. v \in 0..mt-1 /\ t = mt * g + v /\ f = N * v
  BY DEF Member
<1>5. t \div mt = g /\ t % mt = v
  BY <1>2, <1>3, <1>4, DivIs
<1>6. v \in Nat /\ mt * g \in Nat
  BY <1>2, <1>3, <1>4, Products
<1>7. N * (mt * g + v) = N * (mt * g) + N * v
  BY <1>1, <1>6, Products
<1>8. N * (mt * g) = (N * mt) * g /\ N * (mt * g) \in Nat
  BY <1>1, <1>2, <1>3, <1>6, Products
<1>9. f \in Nat
  BY <1>1, <1>4, <1>6, Products
<1>10. N * t = st + f
  BY <1>1, <1>3, <1>4, <1>7, <1>8, Zenon
<1>11. st \in Nat
  BY <1>1, <1>3, <1>8, Zenon
<1> QED
  BY <1>3, <1>4, <1>5, <1>9, <1>10, <1>11

\* The places of a group, by the threads of the group.
LEMMA GroupPlace ==
    ASSUME NEW N, NEW h, NEW mt, NEW half, NEW sz, Group(N, h, mt, half, sz),
           NEW g, NEW st, Starts(sz, mt, g, st), NEW j \in 0..sz-1
    PROVE  \E v \in 0..mt-1, t \in Block!Lids, f \in 0..sz, k \in 0..N-1 :
              Member(N, mt, g, v, t, f) /\ j = f + k /\ N * t + k = st + j
<1>1. N \in Nat \ {0} /\ sz = N * mt
  BY DEF Group
<1>2. mt \in Nat \ {0} /\ sz \in Nat
  BY GroupSizes
<1>3. j \in Nat
  BY <1>2
<1>4. PICK v \in Nat, k \in 0..N-1 : v = j \div N /\ k = j % N /\ j = N * v + k
  <2>1. j \div N \in Nat /\ j % N \in 0..N-1
    BY <1>1, <1>3, DivMod
  <2>2. j = N * (j \div N) + (j % N)
    BY <1>1, <1>3, DivMod
  <2> QED
    BY <2>1, <2>2
<1>5. PICK f : f = N * v
  OBVIOUS
<1>6. f \in Nat
  BY <1>1, <1>4, <1>5, Products
<1>7. j = f + k /\ f \in 0..sz
  <2>1. j = f + k
    BY <1>4, <1>5, Zenon
  <2> QED
    BY <1>2, <1>3, <1>4, <1>6, <2>1
<1>8. ~(mt <= v)
  <2> SUFFICES ASSUME mt <= v PROVE FALSE
    OBVIOUS
  <2>1. N * mt <= N * v
    BY <1>1, <1>2, <1>4, SMT
  <2> QED
    BY <1>1, <1>2, <1>4, <1>5, <1>6, <1>7, <2>1
<1>9. PICK t : t = mt * g + v
  OBVIOUS
<1>10. Member(N, mt, g, v, t, f)
  <2>1. v \in 0..mt-1
    <3>1. v \in Nat
      BY <1>4
    <3> QED
      BY <1>2, <1>8, <3>1
  <2> QED
    BY <1>5, <1>9, <2>1, Zenon DEF Member
<1>11. t \in Block!Lids
  <2>1. g \in Nat /\ mt * g + mt <= BLOCK_THREADS
    BY DEF Starts, Begins
  <2>2. mt * g \in Nat /\ BLOCK_THREADS \in Nat
    BY <1>2, <2>1, Products, BlockAssumption, MergeThreadsDouble
  <2> QED
    <3>1. PICK a \in Nat : a = mt * g
      BY <2>2
    <3>2. a + mt <= BLOCK_THREADS /\ t = a + v
      BY <1>9, <2>1, <3>1, Zenon
    <3>3. v \in 0..mt-1
      BY <1>10 DEF Member
    <3> QED
      BY <1>2, <2>2, <3>2, <3>3 DEF Block!Lids
<1>12. N * t = st + f /\ st \in Nat
  BY <1>10, MemberIs DEF Starts
<1>13. N * t + k = st + j
  BY <1>4, <1>6, <1>7, <1>12
<1> QED
  <2>1. v \in 0..mt-1
    BY <1>10 DEF Member
  <2>2. k \in 0..N-1
    BY <1>4
  <2> QED
    BY <1>7, <1>10, <1>11, <1>13, <2>1, <2>2, Zenon

\* The part of a merge that a thread makes.
LEMMA MergedPiece ==
    ASSUME NEW p, NEW l \in 0..Levels-1, NEW h, h = Block!MergeThreads[l],
           NEW N, N = N_PER_THREAD, NEW mt, NEW half, NEW sz, Group(N, h, mt, half, sz),
           NEW g, NEW st, Starts(sz, mt, g, st),
           NEW v, NEW t \in Block!Lids, NEW f, Member(N, mt, g, v, t, f),
           NEW md, md = st + half, NEW mem, mem = Memory(p)
    PROVE  MergedPieces(p, l+1)[t] = Block!MergePart(mem, st, md, half, half, f)
<1>1. mt = 2 * h /\ sz = N * mt
  BY DEF Group
<1>2. Block!MergeThreads[l+1] = mt
  BY <1>1, BlockAssumption, MergeThreadsDouble DEF Doubles
<1>3. sz \div 2 = half
  BY GroupSizes
<1>4. t \div mt = g /\ t % mt = v /\ st = sz * g /\ f = N * v
  BY MemberIs DEF Starts
<1> QED
  BY <1>1, <1>2, <1>3, <1>4, Zenon DEF MergedPieces

\* A merge makes a run of two.
LEMMA RunsMerge ==
    ASSUME NEW w, NEW n, IsRow(w, n), NEW p, NEW l \in 0..Levels-1, NEW h, h = Block!MergeThreads[l],
           NEW N, N = N_PER_THREAD, NEW mt, NEW half, NEW sz, Group(N, h, mt, half, sz),
           NEW g, NEW st, Starts(sz, mt, g, st), NEW md, md = st + half,
           IsRun(Memory(p), st, half, w, n), IsRun(Memory(p), md, half, w, n)
    PROVE  IsRun(Memory(MergedPieces(p, l+1)), st, sz, w, n)
<1>1. N \in Nat \ {0} /\ Block!Elements = 0..N-1
  BY BlockAssumption DEF Block!Elements
<1>2. half \in Nat /\ sz \in Nat /\ sz = half + half
  BY GroupSizes
<1>3. st \in Nat /\ md \in Nat
  BY <1>2, GroupStarts DEF Starts
<1>4. PICK mem : mem = Memory(p)
  OBVIOUS
<1>5. PICK x : x = [k \in 0..half-1 |-> mem[st+k]]
  OBVIOUS
<1>6. PICK y : y = [k \in 0..half-1 |-> mem[md+k]]
  OBVIOUS
<1>7. /\ \A k \in 0..half-1 : \E j \in st..st+half-1 : x[k] = Item(w, n, j)
      /\ Rising(x, half)
  BY <1>4, <1>5 DEF IsRun
<1>8. /\ \A k \in 0..half-1 : \E j \in md..md+half-1 : y[k] = Item(w, n, j)
      /\ Rising(y, half)
  BY <1>4, <1>6 DEF IsRun
<1>9. \A k \in 0..half-1 : x[k] \in Items /\ x[k].idx < md
  <2> TAKE k \in 0..half-1
  <2>1. PICK j \in st..st+half-1 : x[k] = Item(w, n, j)
    BY <1>7
  <2>2. j \in Nat /\ j < md
    BY <1>2, <1>3
  <2> QED
    BY <2>1, <2>2, ItemType
<1>10. \A k \in 0..half-1 : y[k] \in Items /\ y[k].idx >= md /\ y[k].idx \in Int
  <2> TAKE k \in 0..half-1
  <2>1. PICK j \in md..md+half-1 : y[k] = Item(w, n, j)
    BY <1>8
  <2>2. j \in Nat /\ j >= md
    BY <1>2, <1>3
  <2> QED
    BY <2>1, <2>2, ItemType
<1>11. x \in [0..half-1 -> Items] /\ y \in [0..half-1 -> Items]
  BY <1>5, <1>6, <1>9, <1>10
<1>12. \A i \in 0..half-1 : \A j \in 0..half-1 : x[i].idx < y[j].idx
  <2> TAKE i \in 0..half-1
  <2> TAKE j \in 0..half-1
  <2>1. x[i].idx \in Int
    BY <1>9 DEF Items
  <2> QED
    BY <1>3, <1>9, <1>10, <2>1
<1>13. RunsIn(mem, st, md, x, half, y, half)
  BY <1>5, <1>6 DEF RunsIn
<1>14. PICK q : q = MergedPieces(p, l+1)
  OBVIOUS
<1>15. ASSUME NEW j \in 0..sz-1
       PROVE  MergedAt(x, half, y, half, j, Memory(q)[st + j])
  <2>1. PICK v \in 0..mt-1, t \in Block!Lids, f \in 0..sz, k \in 0..N-1 :
           Member(N, mt, g, v, t, f) /\ j = f + k /\ N * t + k = st + j
    BY GroupPlace
  <2>2. q[t] = Block!MergePart(mem, st, md, half, half, f)
    BY <1>4, <1>14, <2>1, MergedPiece
  <2>3. f \in 0..half+half
    BY <1>2
  <2>4. IsPart(x, half, y, half, f, N, q[t])
    <3>1. N \in Nat /\ st \in Int /\ md \in Int
      BY <1>1, <1>3
    <3>2. IsPart(x, half, y, half, f, N, Block!MergePart(mem, st, md, half, half, f))
      BY <1>2, <1>7, <1>8, <1>11, <1>13, <2>3, <3>1, BlockMergePart
    <3> QED
      BY <2>2, <3>2
  <2>5. MergedAt(x, half, y, half, f + k, q[t][k])
    BY <1>2, <2>1, <2>4 DEF IsPart
  <2>6. PICK i : i = st + j
    OBVIOUS
  <2>7. i \in Block!Block /\ i \div N_PER_THREAD = t /\ i % N_PER_THREAD = k
    <3>1. k \in Block!Elements /\ i = N_PER_THREAD * t + k
      BY <1>1, <2>1, <2>6
    <3> QED
      BY <3>1, PlaceIs
  <2>8. Memory(q)[i] = q[t][k]
    BY <2>7 DEF Memory
  <2> QED
    BY <2>1, <2>5, <2>6, <2>8
<1>16. PICK z : z = [j \in 0..sz-1 |-> Memory(q)[st + j]]
  OBVIOUS
<1>17. \A j \in 0..sz-1 : MergedAt(x, half, y, half, j, z[j])
  BY <1>15, <1>16
<1>18. ASSUME NEW j \in 0..sz-1 PROVE \E i \in st..st+sz-1 : z[j] = Item(w, n, i)
  <2>1. (\E i \in 0..half-1 : z[j] = x[i]) \/ (\E i \in 0..half-1 : z[j] = y[i])
    <3>1. MergedAt(x, half, y, half, j, z[j])
      BY <1>17
    <3> QED
      BY <1>2, <3>1, MergedFrom
  <2>2. st..st+half-1 \subseteq st..st+sz-1 /\ md..md+half-1 \subseteq st..st+sz-1
    BY <1>2, <1>3
  <2> QED
    BY <1>7, <1>8, <2>1, <2>2
<1>19. z \in [0..sz-1 -> Items]
  <2>1. ASSUME NEW j \in 0..sz-1 PROVE z[j] \in Items
    <3>1. PICK i \in st..st+sz-1 : z[j] = Item(w, n, i)
      BY <1>18
    <3> QED
      BY <1>3, <3>1, ItemType
  <2> QED
    BY <1>16, <2>1
<1>20. Rising(z, sz)
  BY <1>2, <1>7, <1>8, <1>11, <1>12, <1>17, <1>19, MergeSorts
<1>21. PICK all : all = Memory(q)
  OBVIOUS
<1>22. IsRun(all, st, sz, w, n)
  BY <1>2, <1>16, <1>18, <1>19, <1>20, <1>21, RunIs
<1> QED
  BY <1>14, <1>21, <1>22

\* The groups whose runs a group merges.
LEMMA GroupHalves ==
    ASSUME NEW N, NEW h, NEW mt, NEW half, NEW sz, Group(N, h, mt, half, sz),
           NEW g, NEW st, Starts(sz, mt, g, st)
    PROVE  \E a, b : Starts(half, h, a, st) /\ Starts(half, h, b, st + half)
<1>1. h \in Nat \ {0} /\ mt = 2 * h
  BY DEF Group
<1>2. half \in Nat /\ sz = half + half
  BY GroupSizes
<1>3. g \in Nat /\ st = sz * g /\ mt * g + mt <= BLOCK_THREADS
  BY DEF Starts, Begins
<1>4. PICK a \in Nat : a = g + g
  BY <1>3
<1>5. PICK c \in Nat : c = h * g
  BY <1>1, <1>3, Products
<1>6. PICK d \in Nat : d = half * g
  BY <1>2, <1>3, Products
<1>7. h * a = c + c
  <2>1. h * (g + g) = h * g + h * g
    BY <1>1, <1>3, Products
  <2> QED
    BY <1>4, <1>5, <2>1, Zenon
<1>8. half * a = d + d
  <2>1. half * (g + g) = half * g + half * g
    BY <1>2, <1>3, Products
  <2> QED
    BY <1>4, <1>6, <2>1, Zenon
<1>9. mt * g = c + c
  <2>1. (h + h) * g = h * g + h * g /\ mt = h + h
    BY <1>1, <1>3, SMT
  <2> QED
    BY <1>5, <2>1, Zenon
<1>10. st = d + d
  <2>1. (half + half) * g = half * g + half * g
    BY <1>2, <1>3, SMT
  <2> QED
    BY <1>2, <1>3, <1>6, <2>1, Zenon
<1>11. PICK b \in Nat : b = a + 1
  OBVIOUS
<1>12. h * b = (c + c) + h
  <2>1. h * (a + 1) = h * a + h
    BY <1>1, OneMore
  <2> QED
    BY <1>7, <1>11, <2>1, Zenon
<1>13. half * b = (d + d) + half
  <2>1. half * (a + 1) = half * a + half
    BY <1>2, OneMore
  <2> QED
    BY <1>8, <1>11, <2>1, Zenon
<1>14. (c + c) + mt <= BLOCK_THREADS /\ BLOCK_THREADS \in Nat
  <2>1. (c + c) + mt <= BLOCK_THREADS
    BY <1>3, <1>9, Zenon
  <2> QED
    BY <2>1, BlockAssumption, MergeThreadsDouble
<1>15. Starts(half, h, a, st)
  <2>1. (c + c) + h <= BLOCK_THREADS
    BY <1>1, <1>14
  <2>2. h * a + h <= BLOCK_THREADS
    BY <1>7, <2>1, Zenon
  <2>3. st = half * a
    BY <1>8, <1>10, Zenon
  <2> QED
    BY <2>2, <2>3, Zenon DEF Starts, Begins
<1>16. Starts(half, h, b, st + half)
  <2>1. ((c + c) + h) + h <= BLOCK_THREADS
    BY <1>1, <1>14
  <2>2. h * b + h <= BLOCK_THREADS
    BY <1>12, <2>1, Zenon
  <2>3. st + half = half * b
    BY <1>10, <1>13, Zenon
  <2> QED
    BY <2>2, <2>3, Zenon DEF Starts, Begins
<1> QED
  BY <1>15, <1>16

\* After the merge to a level, each of its groups has a run.
GroupsAreRuns(P, w, n, l) ==
    \A mt, sz, g, st : mt = Block!MergeThreads[l] /\ sz = N_PER_THREAD * mt /\ Starts(sz, mt, g, st)
                         => IsRun(Memory(P[l]), st, sz, w, n)

LEMMA LevelsAreRuns ==
    ASSUME NEW w, NEW n, IsRow(w, n), NEW P, ArePieces(P, w, n), NEW l \in 0..Levels
    PROVE  GroupsAreRuns(P, w, n, l)
<1>1. PICK N \in Nat \ {0} : N = N_PER_THREAD
  BY BlockAssumption
<1>2. Levels \in Nat /\ BLOCK_THREADS \in Nat
  BY BlockAssumption, MergeThreadsDouble
<1> DEFINE Done == {k \in 0..Levels : GroupsAreRuns(P, w, n, k)}
<1>3. 0 \in Done
  <2> SUFFICES ASSUME NEW mt, NEW sz, NEW g, NEW st, mt = Block!MergeThreads[0],
                      sz = N_PER_THREAD * mt, Starts(sz, mt, g, st)
               PROVE  IsRun(Memory(P[0]), st, sz, w, n)
    BY <1>2 DEF GroupsAreRuns
  <2>1. mt = 1
    BY MergeThreadsDouble DEF Doubles
  <2>2. sz = N
    BY <1>1, <2>1
  <2>3. g \in Nat /\ st = sz * g /\ mt * g + mt <= BLOCK_THREADS
    BY DEF Starts, Begins
  <2>4. g \in Block!Lids
    BY <1>2, <2>1, <2>3 DEF Block!Lids
  <2>5. P[0] = FirstPieces(w, n) /\ st = N_PER_THREAD * g
    BY <1>1, <2>2, <2>3 DEF ArePieces
  <2>6. IsRun(Memory(FirstPieces(w, n)), st, N_PER_THREAD, w, n)
    BY <2>4, <2>5, FirstRuns
  <2> QED
    BY <1>1, <2>2, <2>5, <2>6
<1>4. ASSUME NEW k \in 0..Levels-1, k \in Done PROVE k + 1 \in Done
  <2> SUFFICES ASSUME NEW mt, NEW sz, NEW g, NEW st, mt = Block!MergeThreads[k+1],
                      sz = N_PER_THREAD * mt, Starts(sz, mt, g, st)
               PROVE  IsRun(Memory(P[k+1]), st, sz, w, n)
    BY <1>2 DEF GroupsAreRuns
  <2>1. PICK h : h = Block!MergeThreads[k]
    OBVIOUS
  <2>2. PICK half : half = N * h
    OBVIOUS
  <2>3. h \in Nat \ {0}
    BY <1>2, <2>1, MergeThreadsDouble
  <2>4. mt = 2 * h
    BY <2>1, MergeThreadsDouble DEF Doubles
  <2>5. Group(N, h, mt, half, sz)
    BY <1>1, <2>2, <2>3, <2>4, Zenon DEF Group
  <2>6. PICK a, b : Starts(half, h, a, st) /\ Starts(half, h, b, st + half)
    BY <2>5, GroupHalves
  <2>7. GroupsAreRuns(P, w, n, k)
    BY <1>4
  <2>8. IsRun(Memory(P[k]), st, half, w, n) /\ IsRun(Memory(P[k]), st + half, half, w, n)
    BY <1>1, <2>1, <2>2, <2>6, <2>7, Zenon DEF GroupsAreRuns
  <2>9. P[k+1] = MergedPieces(P[k], k+1)
    BY DEF ArePieces
  <2>10. PICK md : md = st + half
    OBVIOUS
  <2>11. IsRun(Memory(MergedPieces(P[k], k+1)), st, sz, w, n)
    <3>1. IsRun(Memory(P[k]), md, half, w, n)
      BY <2>8, <2>10
    <3>2. PICK p : p = P[k]
      OBVIOUS
    <3>3. IsRun(Memory(p), st, half, w, n) /\ IsRun(Memory(p), md, half, w, n)
      BY <2>8, <3>1, <3>2
    <3>4. IsRun(Memory(MergedPieces(p, k+1)), st, sz, w, n)
      BY <1>1, <2>1, <2>5, <2>10, <3>3, RunsMerge
    <3> QED
      BY <3>2, <3>4
  <2> QED
    BY <2>9, <2>11
<1> HIDE DEF Done
<1>5. 0..Levels \subseteq Done
  BY <1>2, <1>3, <1>4, UpTo
<1> QED
  BY <1>5 DEF Done

\* What the whole block holds at last, which WriteOut writes out.
LEMMA BlockIsRun ==
    ASSUME NEW w, NEW n, IsRow(w, n), NEW P, ArePieces(P, w, n)
    PROVE  IsRun(Memory(P[Levels]), 0, Block!N_PER_BLOCK, w, n)
<1>1. PICK mt \in Nat : mt = BLOCK_THREADS /\ mt = Block!MergeThreads[Levels]
  BY BlockAssumption, MergeThreadsDouble
<1>2. PICK sz \in Nat : sz = N_PER_THREAD * mt
  BY BlockAssumption, Products
<1>3. sz * 0 = 0 /\ mt * 0 + mt <= BLOCK_THREADS
  BY <1>1
<1>4. Starts(sz, mt, 0, 0)
  BY <1>3 DEF Starts, Begins
<1>5. GroupsAreRuns(P, w, n, Levels)
  BY BlockAssumption, LevelsAreRuns
<1>6. IsRun(Memory(P[Levels]), 0, sz, w, n)
  BY <1>1, <1>2, <1>4, <1>5 DEF GroupsAreRuns
<1>7. sz = Block!N_PER_BLOCK
  BY <1>1, <1>2, BlockAssumption DEF Block!N_PER_BLOCK
<1> QED
  BY <1>6, <1>7

\* The padding is last in a run of the whole block, so its first elements are
\* the row's, in order.
LEMMA RunIsStableSort ==
    ASSUME NEW w, NEW n, IsRow(w, n), NEW mem, NEW s \in Nat, n <= s, IsRun(mem, 0, s, w, n)
    PROVE  /\ \A i \in 0..n-1 : mem[i] \in {[val |-> w[k], idx |-> k] : k \in 0..n-1}
           /\ \A i, j \in 0..n-1 : i < j => Precedes(mem[i], mem[j])
<1>1. n \in Nat
  BY DEF IsRow
<1>2. PICK x : x = [k \in 0..s-1 |-> mem[0 + k]]
  OBVIOUS
<1>3. Rising(x, s) /\ \A k \in 0..s-1 : \E j \in 0..s-1 : mem[k] = Item(w, n, j)
  BY <1>2 DEF IsRun
<1>4. \A k \in 0..s-1 : x[k] = mem[k]
  BY <1>2
<1>5. \A k \in 0..s-1 : /\ x[k] \in Items /\ x[k].idx \in 0..s-1 /\ x[k].val <= Pad
                        /\ x[k].idx >= n => x[k].val = Pad
                        /\ x[k] = Item(w, n, x[k].idx)
  <2> TAKE k \in 0..s-1
  <2>1. PICK j \in 0..s-1 : x[k] = Item(w, n, j)
    BY <1>3, <1>4
  <2>2. j \in Nat
    OBVIOUS
  <2>3. x[k] \in Items /\ x[k].idx = j /\ x[k].val <= Pad
    BY <2>1, <2>2, ItemType
  <2>4. j >= n => x[k].val = Pad
    BY <1>1, <2>1, <2>2 DEF Item
  <2> QED
    BY <2>1, <2>3, <2>4
<1>6. ASSUME NEW i \in 0..n-1 PROVE x[i].idx < n
  <2> SUFFICES ASSUME x[i].idx >= n PROVE FALSE
    BY <1>1, <1>5
  <2>1. i \in 0..s-1
    BY <1>1
  <2> DEFINE Beyond == {d \in Nat : i + d <= s-1 => x[i+d].idx >= n + d /\ x[i+d].val = Pad}
  <2>2. 0 \in Beyond
    <3>1. i + 0 = i /\ n + 0 = n
      BY <1>1
    <3>2. x[i].val = Pad
      BY <1>5, <2>1
    <3> QED
      BY <3>1, <3>2
  <2>3. \A d \in 0..s-1 : d \in Beyond => d + 1 \in Beyond
    <3> SUFFICES ASSUME NEW d \in 0..s-1, d \in Beyond, i + (d + 1) <= s-1
                 PROVE  x[i+(d+1)].idx >= n + (d + 1) /\ x[i+(d+1)].val = Pad
      OBVIOUS
    <3>1. PICK a \in 0..s-1 : a = i + d
      BY <1>1
    <3>2. PICK b \in 0..s-1 : b = i + (d + 1) /\ a < b
      BY <1>1, <3>1
    <3>3. x[a].idx >= n + d /\ x[a].val = Pad
      BY <1>1, <3>1
    <3>4. Precedes(x[a], x[b])
      BY <1>3, <3>2 DEF Rising
    <3>5. x[b].val <= Pad /\ x[b] \in Items /\ x[a] \in Items /\ Pad \in Int
      BY <1>5, BlockAssumption
    <3>6. x[b].val = Pad /\ x[b].idx > x[a].idx
      BY <3>3, <3>4, <3>5 DEF Precedes, Items
    <3> QED
      BY <1>1, <3>2, <3>3, <3>5, <3>6 DEF Items
  <2> HIDE DEF Beyond
  <2>4. 0..s \subseteq Beyond
    BY <2>2, <2>3, UpTo
  <2>5. PICK d \in 0..s : i + d = s-1
    BY <1>1, <2>1
  <2>6. x[i+d].idx >= n + d
    BY <1>1, <2>4, <2>5 DEF Beyond
  <2> QED
    BY <1>1, <1>5, <2>5, <2>6
<1>7. ASSUME NEW i \in 0..n-1 PROVE mem[i] \in {[val |-> w[k], idx |-> k] : k \in 0..n-1}
  <2>1. i \in 0..s-1
    BY <1>1
  <2>2. PICK k \in 0..n-1 : k = x[i].idx
    <3>1. x[i].idx \in Nat /\ x[i].idx < n
      BY <1>5, <1>6, <2>1
    <3> QED
      BY <1>1, <3>1
  <2>3. mem[i] = Item(w, n, k)
    BY <1>4, <1>5, <2>1, <2>2
  <2>4. Item(w, n, k) = [val |-> w[k], idx |-> k]
    BY <1>1 DEF Item
  <2> QED
    BY <2>3, <2>4
<1>8. \A i, j \in 0..n-1 : i < j => Precedes(mem[i], mem[j])
  <2>1. 0..n-1 \subseteq 0..s-1
    BY <1>1
  <2> QED
    BY <1>3, <1>4, <2>1 DEF Rising
<1> QED
  BY <1>7, <1>8

\* The thread that copies place i from the row, and writes it out.
Copier(i) == i % BLOCK_THREADS

\* The thread whose element is stored at place i.
Owner(i) == i \div N_PER_THREAD

LEMMA Placed ==
    ASSUME NEW i \in Block!Block
    PROVE  i \in Nat /\ Copier(i) \in Block!Lids /\ Owner(i) \in Block!Lids
           /\ i % N_PER_THREAD \in Block!Elements
<1>1. BLOCK_THREADS \in Nat \ {0}
  BY BlockAssumption, MergeThreadsDouble
<1>2. i \in Nat /\ i \div N_PER_THREAD \in Block!Lids /\ i % N_PER_THREAD \in Block!Elements
  BY PlaceOf
<1>3. i % BLOCK_THREADS \in 0..BLOCK_THREADS-1
  BY <1>1, <1>2, DivMod
<1> QED
  BY <1>2, <1>3 DEF Copier, Owner, Block!Lids

BlockType(w, n) ==
    /\ row = w /\ size = n
    /\ pc \in [Block!Lids -> Nat]
    /\ DOMAIN thread = Block!Lids
    /\ tgp = [i \in Block!Block |-> tgp[i]]

\* No thread is two barriers ahead of another.
ThreadsInStep == \A t, u \in Block!Lids : pc[t] <= pc[u] + 1

\* What a thread holds from its sort or merge to level l to its next merge.
ThreadsHold(P) ==
    \A t \in Block!Lids : \A l \in 0..Levels :
       pc[t] \in 2+2*l..3+2*l => thread[t] = P[l][t]

\* Memory holds the padded row until the elements of a thread are stored.
RowIsCopied(w, n) ==
    \A i \in Block!Block : pc[Copier(i)] >= 1 /\ pc[Owner(i)] <= 2 => tgp[i] = Item(w, n, i)

\* What a thread has stored stays until it stores again.
PiecesAreStored(P) ==
    \A i \in Block!Block : \A l \in 0..Levels :
       pc[Owner(i)] \in 3+2*l..4+2*l => tgp[i] = Memory(P[l])[i]

IsWrittenOut(P, n) ==
    \A i \in 0..n-1 : pc[Copier(i)] >= 4+2*Levels => out[i] = Memory(P[Levels])[i]

\* The state of the sort of the row w of n elements, of which the threads
\* make the pieces P.
BlockInv(w, n, P) ==
    /\ BlockType(w, n) /\ ThreadsInStep /\ ThreadsHold(P)
    /\ RowIsCopied(w, n) /\ PiecesAreStored(P) /\ IsWrittenOut(P, n)

\* Such a row in a block.
IsBlock(w, n, P) == IsRow(w, n) /\ n <= Block!N_PER_BLOCK /\ ArePieces(P, w, n)

\* Thread t passes a barrier.
Passed(t, stage) ==
    /\ t \in Block!Lids /\ stage \in Nat
    /\ pc[t] = stage /\ \A u \in Block!Lids : pc[u] \in stage..stage+1
    /\ pc' \in [Block!Lids -> Nat]
    /\ pc'[t] = stage + 1 /\ \A u \in Block!Lids \ {t} : pc'[u] = pc[u]

LEMMA ThreadPasses ==
    ASSUME NEW w, NEW n, NEW P, BlockInv(w, n, P),
           NEW t \in Block!Lids, NEW stage \in Nat, Block!At(t, stage)
    PROVE  Passed(t, stage) /\ ThreadsInStep' /\ UNCHANGED <<row, size>>
<1>1. /\ pc[t] = stage /\ \A u \in Block!Lids : pc[u] >= stage
      /\ pc' = [pc EXCEPT ![t] = stage + 1] /\ UNCHANGED <<row, size>>
  BY DEF Block!At, Block!Arrived
<1>2. pc \in [Block!Lids -> Nat] /\ \A u \in Block!Lids : pc[u] <= stage + 1
  BY <1>1 DEF BlockInv, BlockType, ThreadsInStep
<1>3. Passed(t, stage)
  BY <1>1, <1>2 DEF Passed
<1>4. ThreadsInStep'
  <2>1. \A u \in Block!Lids : pc'[u] \in stage..stage+1
    BY <1>3 DEF Passed
  <2> QED
    BY <2>1 DEF ThreadsInStep, Block!Lids
<1> QED
  BY <1>1, <1>3, <1>4

\* What the threads hold stays said of them in a step that is no sort or merge.
LEMMA HoldStays ==
    ASSUME NEW w, NEW n, NEW P, BlockInv(w, n, P), NEW t, NEW stage, Passed(t, stage),
           \A l \in 0..Levels : stage # 1+2*l, UNCHANGED thread
    PROVE  ThreadsHold(P)'
<1>1. Levels \in Nat
  BY BlockAssumption
<1>2. ASSUME NEW u \in Block!Lids, NEW l \in 0..Levels, pc'[u] \in 2+2*l..3+2*l
      PROVE  pc[u] \in 2+2*l..3+2*l
  <2>1. CASE u = t
    <3>1. stage + 1 \in 2+2*l..3+2*l /\ pc[u] = stage /\ stage # 1+2*l /\ stage \in Nat
      BY <1>2, <2>1 DEF Passed
    <3> QED
      BY <1>1, <3>1
  <2>2. CASE u # t
    BY <1>2, <2>2 DEF Passed
  <2> QED
    BY <2>1, <2>2
<1>3. ThreadsHold(P)
  BY DEF BlockInv
<1> QED
  BY <1>2, <1>3 DEF ThreadsHold

\* Memory does, in a step that leaves it alone.
LEMMA CopyStays ==
    ASSUME NEW w, NEW n, NEW P, BlockInv(w, n, P), NEW t, NEW stage, Passed(t, stage),
           stage # 0, UNCHANGED tgp
    PROVE  RowIsCopied(w, n)'
<1>1. \A u \in Block!Lids :
         /\ pc'[u] >= 1 => pc[u] >= 1
         /\ pc'[u] <= 2 => pc[u] <= 2
  <2> TAKE u \in Block!Lids
  <2>1. CASE u = t
    BY <2>1 DEF Passed
  <2>2. CASE u # t
    BY <2>2 DEF Passed
  <2> QED
    BY <2>1, <2>2
<1>2. RowIsCopied(w, n)
  BY DEF BlockInv
<1>3. ASSUME NEW i \in Block!Block, pc'[Copier(i)] >= 1, pc'[Owner(i)] <= 2
      PROVE  tgp'[i] = Item(w, n, i)
  <2>0. Copier(i) \in Block!Lids /\ Owner(i) \in Block!Lids
    BY Placed
  <2>1. pc[Copier(i)] >= 1 /\ pc[Owner(i)] <= 2
    BY <1>1, <1>3, <2>0
  <2> QED
    BY <1>2, <2>1 DEF RowIsCopied
<1> QED
  BY <1>3 DEF RowIsCopied

LEMMA StoredStays ==
    ASSUME NEW w, NEW n, NEW P, BlockInv(w, n, P), NEW t, NEW stage, Passed(t, stage),
           \A l \in 0..Levels : stage # 2+2*l, UNCHANGED tgp
    PROVE  PiecesAreStored(P)'
<1>1. Levels \in Nat
  BY BlockAssumption
<1>2. ASSUME NEW u \in Block!Lids, NEW l \in 0..Levels, pc'[u] \in 3+2*l..4+2*l
      PROVE  pc[u] \in 3+2*l..4+2*l
  <2>1. CASE u = t
    <3>1. stage + 1 \in 3+2*l..4+2*l /\ pc[u] = stage /\ stage # 2+2*l /\ stage \in Nat
      BY <1>2, <2>1 DEF Passed
    <3> QED
      BY <1>1, <3>1
  <2>2. CASE u # t
    BY <1>2, <2>2 DEF Passed
  <2> QED
    BY <2>1, <2>2
<1>3. PiecesAreStored(P)
  BY DEF BlockInv
<1> QED
  BY <1>2, <1>3, Placed DEF PiecesAreStored

\* So does what is written out, before the last step of a thread.
LEMMA WrittenStays ==
    ASSUME NEW w, NEW n, NEW P, n \in Nat, n <= Block!N_PER_BLOCK, BlockInv(w, n, P),
           NEW t, NEW stage, Passed(t, stage), stage # 3+2*Levels, UNCHANGED out
    PROVE  IsWrittenOut(P, n)'
<1>1. Levels \in Nat
  BY BlockAssumption
<1>2. \A u \in Block!Lids : pc'[u] >= 4+2*Levels => pc[u] >= 4+2*Levels
  <2> TAKE u \in Block!Lids
  <2>1. CASE u = t
    BY <1>1, <2>1 DEF Passed
  <2>2. CASE u # t
    BY <2>2 DEF Passed
  <2> QED
    BY <2>1, <2>2
<1>3. \A i \in 0..n-1 : Copier(i) \in Block!Lids
  <2>1. Block!N_PER_BLOCK \in Nat
    BY BlockAssumption, MergeThreadsDouble, Products DEF Block!N_PER_BLOCK
  <2>2. 0..n-1 \subseteq Block!Block
    BY <2>1 DEF Block!Block
  <2> QED
    BY <2>2, Placed
<1>4. IsWrittenOut(P, n)
  BY DEF BlockInv
<1> QED
  BY <1>2, <1>3, <1>4 DEF IsWrittenOut

LEMMA CopyKeeps ==
    ASSUME NEW w, NEW n, NEW P, IsBlock(w, n, P), BlockInv(w, n, P),
           NEW t \in Block!Lids, Block!Copy(t)
    PROVE  BlockInv(w, n, P)'
<1>1. Levels \in Nat /\ n \in Nat /\ n <= Block!N_PER_BLOCK
  BY BlockAssumption DEF IsBlock, IsRow
<1>2. Block!At(t, 0) /\ UNCHANGED <<thread, out>>
  BY DEF Block!Copy
<1>3. Passed(t, 0) /\ ThreadsInStep' /\ UNCHANGED <<row, size>>
  BY <1>2, ThreadPasses
<1>4. BlockType(w, n)
  BY DEF BlockInv
<1>5. /\ DOMAIN tgp' = Block!Block /\ tgp' = [i \in Block!Block |-> tgp'[i]]
      /\ \A i \in Block!Block : tgp'[i] = IF Copier(i) # t THEN tgp[i] ELSE Item(w, n, i)
  BY <1>4 DEF Block!Copy, BlockType, Copier, Item
<1>6. BlockType(w, n)'
  BY <1>2, <1>3, <1>4, <1>5 DEF BlockType, Passed
<1>7. ThreadsHold(P)' /\ IsWrittenOut(P, n)'
  <2>1. \A l \in 0..Levels : 0 # 1+2*l
    OBVIOUS
  <2>2. 0 # 3+2*Levels
    BY <1>1
  <2> QED
    BY <1>1, <1>2, <1>3, <2>1, <2>2, HoldStays, WrittenStays
<1>8. RowIsCopied(w, n)'
  <2> SUFFICES ASSUME NEW i \in Block!Block, pc'[Copier(i)] >= 1, pc'[Owner(i)] <= 2
               PROVE  tgp'[i] = Item(w, n, i)
    BY DEF RowIsCopied
  <2>1. CASE Copier(i) = t
    BY <1>5, <2>1
  <2>2. CASE Copier(i) # t
    <3>1. pc[Copier(i)] >= 1 /\ pc[Owner(i)] <= 2
      BY <1>3, <2>2, Placed DEF Passed
    <3>2. tgp[i] = Item(w, n, i)
      BY <3>1 DEF BlockInv, RowIsCopied
    <3> QED
      BY <1>5, <2>2, <3>2
  <2> QED
    BY <2>1, <2>2
<1>9. PiecesAreStored(P)'
  <2>1. \A u \in Block!Lids : pc'[u] \in 0..1
    BY <1>3 DEF Passed
  <2>2. \A u \in Block!Lids : \A l \in 0..Levels : pc'[u] \notin 3+2*l..4+2*l
    BY <1>1, <2>1
  <2> QED
    BY <2>2, Placed DEF PiecesAreStored
<1> QED
  BY <1>3, <1>6, <1>7, <1>8, <1>9 DEF BlockInv

LEMMA SortOwnKeeps ==
    ASSUME NEW w, NEW n, NEW P, IsBlock(w, n, P), BlockInv(w, n, P),
           NEW t \in Block!Lids, Block!SortOwn(t)
    PROVE  BlockInv(w, n, P)'
<1>1. Levels \in Nat /\ n \in Nat /\ n <= Block!N_PER_BLOCK
  BY BlockAssumption DEF IsBlock, IsRow
<1>2. Block!At(t, 1) /\ UNCHANGED <<tgp, out>>
  BY DEF Block!SortOwn
<1>3. Passed(t, 1) /\ ThreadsInStep' /\ UNCHANGED <<row, size>>
  BY <1>2, ThreadPasses
<1>4. BlockType(w, n)
  BY DEF BlockInv
<1>5. PICK own : own = [k \in Block!Elements |-> tgp[t * N_PER_THREAD + k]]
  OBVIOUS
<1>6. own = Own(w, n, t)
  <2>1. ASSUME NEW k \in Block!Elements
        PROVE  tgp[t * N_PER_THREAD + k] = Item(w, n, t * N_PER_THREAD + k)
    <3>1. PICK i : i = N_PER_THREAD * t + k
      OBVIOUS
    <3>2. i \in Block!Block /\ Owner(i) = t
      BY <3>1, PlaceIs DEF Owner
    <3>3. pc[Copier(i)] >= 1 /\ pc[Owner(i)] <= 2
      BY <1>3, <3>2, Placed DEF Passed
    <3>4. tgp[i] = Item(w, n, i)
      BY <3>2, <3>3 DEF BlockInv, RowIsCopied
    <3>5. t * N_PER_THREAD + k = i
      <4>1. t * N_PER_THREAD = N_PER_THREAD * t
        BY BlockAssumption, MergeThreadsDouble, SMT DEF Block!Lids
      <4> QED
        BY <3>1, <4>1
    <3> QED
      BY <3>4, <3>5
  <2> QED
    BY <1>5, <2>1 DEF Own
<1>7. thread' = [thread EXCEPT ![t] = FirstPieces(w, n)[t]]
  <2>1. thread' = [thread EXCEPT ![t] = IF t * N_PER_THREAD < n THEN Block!ThreadSort(own) ELSE own]
    <3>1. own = [i \in Block!Elements |-> tgp[Block!Mine(t)[i]]]
      BY <1>5 DEF Block!Mine
    <3> QED
      BY <1>4, <3>1, Zenon DEF Block!SortOwn, BlockType
  <2>2. FirstPieces(w, n)[t] = IF t * N_PER_THREAD < n THEN Block!ThreadSort(own) ELSE own
    BY <1>6, Zenon DEF FirstPieces
  <2> QED
    BY <2>1, <2>2
<1>8. /\ DOMAIN thread' = Block!Lids /\ thread'[t] = P[0][t]
      /\ \A u \in Block!Lids \ {t} : thread'[u] = thread[u]
  BY <1>4, <1>7 DEF BlockType, IsBlock, ArePieces
<1>9. BlockType(w, n)'
  BY <1>2, <1>3, <1>4, <1>8 DEF BlockType, Passed
<1>10. ThreadsHold(P)'
  <2> SUFFICES ASSUME NEW u \in Block!Lids, NEW l \in 0..Levels, pc'[u] \in 2+2*l..3+2*l
               PROVE  thread'[u] = P[l][u]
    BY DEF ThreadsHold
  <2>1. CASE u = t
    <3>1. pc'[t] = 2
      BY <1>3 DEF Passed
    <3>2. l = 0
      BY <1>1, <2>1, <3>1
    <3> QED
      BY <1>8, <2>1, <3>2
  <2>2. CASE u # t
    BY <1>3, <1>8, <2>2 DEF BlockInv, ThreadsHold, Passed
  <2> QED
    BY <2>1, <2>2
<1>11. RowIsCopied(w, n)' /\ PiecesAreStored(P)' /\ IsWrittenOut(P, n)'
  <2>1. \A l \in 0..Levels : 1 # 2+2*l
    OBVIOUS
  <2>2. 1 # 3+2*Levels
    BY <1>1
  <2> QED
    BY <1>1, <1>2, <1>3, <2>1, <2>2, CopyStays, StoredStays, WrittenStays
<1> QED
  BY <1>3, <1>9, <1>10, <1>11 DEF BlockInv
LEMMA StoreKeeps ==
    ASSUME NEW w, NEW n, NEW P, IsBlock(w, n, P), BlockInv(w, n, P),
           NEW t \in Block!Lids, Block!Store(t)
    PROVE  BlockInv(w, n, P)'
<1>1. Levels \in Nat /\ n \in Nat /\ n <= Block!N_PER_BLOCK
  BY BlockAssumption DEF IsBlock, IsRow
<1>2. UNCHANGED <<thread, out>>
  BY DEF Block!Store
<1>a. PICK l \in 0..Levels : Block!At(t, 2 + 2 * l)
  BY DEF Block!Store
<1>b. PICK stage \in Nat : stage = 2 + 2 * l
  BY <1>1
<1>3. Passed(t, stage) /\ ThreadsInStep' /\ UNCHANGED <<row, size>>
  BY <1>a, <1>b, ThreadPasses
<1>4. BlockType(w, n)
  BY DEF BlockInv
<1>5. /\ DOMAIN tgp' = Block!Block /\ tgp' = [i \in Block!Block |-> tgp'[i]]
      /\ \A i \in Block!Block :
            tgp'[i] = IF Owner(i) = t THEN thread[t][i % N_PER_THREAD] ELSE tgp[i]
  BY DEF Block!Store, Owner
<1>6. thread[t] = P[l][t]
  <2>1. pc[t] \in 2+2*l..3+2*l
    BY <1>b, <1>3 DEF Passed
  <2> QED
    BY <2>1 DEF BlockInv, ThreadsHold
<1>7. BlockType(w, n)'
  BY <1>2, <1>3, <1>4, <1>5 DEF BlockType, Passed
<1>8. ThreadsHold(P)' /\ IsWrittenOut(P, n)'
  <2>1. \A k \in 0..Levels : stage # 1+2*k
    BY <1>1, <1>b
  <2>2. stage # 3+2*Levels
    BY <1>1, <1>b
  <2> QED
    BY <1>1, <1>2, <1>3, <2>1, <2>2, HoldStays, WrittenStays
<1>9. RowIsCopied(w, n)'
  <2> SUFFICES ASSUME NEW i \in Block!Block, pc'[Copier(i)] >= 1, pc'[Owner(i)] <= 2
               PROVE  tgp'[i] = Item(w, n, i)
    BY DEF RowIsCopied
  <2>1. Owner(i) # t
    BY <1>b, <1>3 DEF Passed
  <2>2. pc[Owner(i)] <= 2 /\ pc[Copier(i)] >= 1
    BY <1>b, <1>3, <2>1, Placed DEF Passed
  <2> QED
    BY <1>5, <2>1, <2>2 DEF BlockInv, RowIsCopied
<1>10. PiecesAreStored(P)'
  <2> SUFFICES ASSUME NEW i \in Block!Block, NEW k \in 0..Levels, pc'[Owner(i)] \in 3+2*k..4+2*k
               PROVE  tgp'[i] = Memory(P[k])[i]
    BY DEF PiecesAreStored
  <2>1. CASE Owner(i) = t
    <3>1. pc'[t] = 3 + 2 * l
      BY <1>b, <1>3 DEF Passed
    <3>2. k = l
      BY <1>1, <2>1, <3>1
    <3>3. tgp'[i] = P[l][t][i % N_PER_THREAD]
      BY <1>5, <1>6, <2>1
    <3> QED
      BY <2>1, <3>2, <3>3 DEF Memory, Owner
  <2>2. CASE Owner(i) # t
    <3>1. pc[Owner(i)] \in 3+2*k..4+2*k
      BY <1>3, <2>2, Placed DEF Passed
    <3> QED
      BY <1>5, <2>2, <3>1 DEF BlockInv, PiecesAreStored
  <2> QED
    BY <2>1, <2>2
<1> QED
  BY <1>3, <1>7, <1>8, <1>9, <1>10 DEF BlockInv

\* Between the steps to store, all threads have stored.
LEMMA AllStored ==
    ASSUME NEW w, NEW n, NEW P, BlockInv(w, n, P), NEW l \in 0..Levels,
           \A u \in Block!Lids : pc[u] \in 3+2*l..4+2*l
    PROVE  tgp = Memory(P[l])
<1>1. \A i \in Block!Block : tgp[i] = Memory(P[l])[i]
  BY Placed DEF BlockInv, PiecesAreStored
<1>2. tgp = [i \in Block!Block |-> tgp[i]]
  BY DEF BlockInv, BlockType
<1> QED
  BY <1>1, <1>2, Zenon DEF Memory

LEMMA MergeKeeps ==
    ASSUME NEW w, NEW n, NEW P, IsBlock(w, n, P), BlockInv(w, n, P),
           NEW t \in Block!Lids, Block!Merge(t)
    PROVE  BlockInv(w, n, P)'
<1>1. Levels \in Nat /\ n \in Nat /\ n <= Block!N_PER_BLOCK
  BY BlockAssumption DEF IsBlock, IsRow
<1>2. UNCHANGED <<tgp, out>>
  BY DEF Block!Merge
<1>a. PICK level \in 1..Levels :
        LET merge_threads == Block!MergeThreads[level]
            sort_sz == N_PER_THREAD * merge_threads
            sort_st == sort_sz * (t \div merge_threads)
            half == sort_sz \div 2
        IN
        /\ Block!At(t, 1 + 2 * level)
        /\ thread' = [thread EXCEPT ![t] =
                        Block!MergePart(tgp, sort_st, sort_st + half, half, half,
                                        N_PER_THREAD * (t % merge_threads))]
  BY Zenon DEF Block!Merge
<1>b. PICK l \in 0..Levels-1 : level = l + 1
  BY <1>1
<1>c. PICK stage \in Nat : stage = 1 + 2 * level
  BY <1>1
<1>3. Passed(t, stage) /\ ThreadsInStep' /\ UNCHANGED <<row, size>>
  BY <1>a, <1>c, ThreadPasses
<1>4. BlockType(w, n)
  BY DEF BlockInv
<1>5. tgp = Memory(P[l])
  <2>1. \A u \in Block!Lids : pc[u] \in 3+2*l..4+2*l
    BY <1>b, <1>c, <1>3 DEF Passed
  <2>2. l \in 0..Levels
    BY <1>1
  <2> QED
    BY <2>1, <2>2, AllStored
<1>6. thread' = [thread EXCEPT ![t] = MergedPieces(P[l], level)[t]]
  BY <1>a, <1>5, Zenon DEF MergedPieces
<1>7. /\ DOMAIN thread' = Block!Lids /\ thread'[t] = P[level][t]
      /\ \A u \in Block!Lids \ {t} : thread'[u] = thread[u]
  <2>1. P[level] = MergedPieces(P[l], level)
    BY <1>b DEF IsBlock, ArePieces
  <2> QED
    BY <1>4, <1>6, <2>1 DEF BlockType
<1>8. BlockType(w, n)'
  BY <1>2, <1>3, <1>4, <1>7 DEF BlockType, Passed
<1>9. ThreadsHold(P)'
  <2> SUFFICES ASSUME NEW u \in Block!Lids, NEW k \in 0..Levels, pc'[u] \in 2+2*k..3+2*k
               PROVE  thread'[u] = P[k][u]
    BY DEF ThreadsHold
  <2>1. CASE u = t
    <3>1. pc'[t] = 2 + 2 * level
      BY <1>c, <1>3 DEF Passed
    <3>2. k = level
      BY <1>1, <2>1, <3>1
    <3> QED
      BY <1>7, <2>1, <3>2
  <2>2. CASE u # t
    BY <1>3, <1>7, <2>2 DEF BlockInv, ThreadsHold, Passed
  <2> QED
    BY <2>1, <2>2
<1>10. RowIsCopied(w, n)' /\ PiecesAreStored(P)' /\ IsWrittenOut(P, n)'
  <2>1. \A k \in 0..Levels : stage # 2+2*k
    BY <1>1, <1>c
  <2>2. stage # 3+2*Levels /\ stage # 0
    BY <1>1, <1>c
  <2> QED
    BY <1>1, <1>2, <1>3, <2>1, <2>2, CopyStays, StoredStays, WrittenStays
<1> QED
  BY <1>3, <1>8, <1>9, <1>10 DEF BlockInv

LEMMA WriteOutKeeps ==
    ASSUME NEW w, NEW n, NEW P, IsBlock(w, n, P), BlockInv(w, n, P),
           NEW t \in Block!Lids, Block!WriteOut(t)
    PROVE  BlockInv(w, n, P)'
<1>1. Levels \in Nat /\ n \in Nat /\ n <= Block!N_PER_BLOCK
  BY BlockAssumption DEF IsBlock, IsRow
<1>2. UNCHANGED <<tgp, thread>>
  BY DEF Block!WriteOut
<1>a. PICK stage \in Nat : stage = 3 + 2 * Levels
  BY <1>1
<1>3. Passed(t, stage) /\ ThreadsInStep' /\ UNCHANGED <<row, size>>
  BY <1>a, ThreadPasses DEF Block!WriteOut
<1>4. BlockType(w, n)
  BY DEF BlockInv
<1>5. tgp = Memory(P[Levels])
  <2>1. \A u \in Block!Lids : pc[u] \in 3+2*Levels..4+2*Levels
    BY <1>1, <1>a, <1>3 DEF Passed
  <2> QED
    BY <1>1, <2>1, AllStored
<1>6. BlockType(w, n)'
  BY <1>2, <1>3, <1>4 DEF BlockType, Passed
<1>7. ThreadsHold(P)' /\ RowIsCopied(w, n)' /\ PiecesAreStored(P)'
  <2>1. \A k \in 0..Levels : stage # 2+2*k /\ stage # 1+2*k
    BY <1>1, <1>a
  <2>2. stage # 0
    BY <1>1, <1>a
  <2> QED
    BY <1>2, <1>3, <2>1, <2>2, HoldStays, CopyStays, StoredStays
<1>8. IsWrittenOut(P, n)'
  <2> SUFFICES ASSUME NEW i \in 0..n-1, pc'[Copier(i)] >= 4+2*Levels
               PROVE  out'[i] = Memory(P[Levels])[i]
    BY DEF IsWrittenOut
  <2>1. out'[i] = IF Copier(i) = t THEN tgp[i] ELSE out[i]
    BY <1>4 DEF Block!WriteOut, BlockType, Copier
  <2>2. CASE Copier(i) = t
    BY <1>5, <2>1, <2>2
  <2>3. CASE Copier(i) # t
    <3>1. Copier(i) \in Block!Lids
      <4>1. Block!N_PER_BLOCK \in Nat
        BY BlockAssumption, MergeThreadsDouble, Products DEF Block!N_PER_BLOCK
      <4>2. i \in Block!Block
        BY <1>1, <4>1 DEF Block!Block
      <4> QED
        BY <4>2, Placed
    <3>2. pc[Copier(i)] >= 4+2*Levels
      BY <1>3, <2>3, <3>1 DEF Passed
    <3> QED
      BY <2>1, <2>3, <3>2 DEF BlockInv, IsWrittenOut
  <2> QED
    BY <2>2, <2>3
<1> QED
  BY <1>3, <1>6, <1>7, <1>8 DEF BlockInv

LEMMA BlockStarts ==
    ASSUME Block!Init
    PROVE  \E w, n, P : IsBlock(w, n, P) /\ BlockInv(w, n, P)
<1>1. PICK n \in 0..Block!N_PER_BLOCK : DOMAIN row = 0..n-1 /\ size = n
  BY DEF Block!Init
<1>2. PICK w : w = row
  OBVIOUS
<1>3. Levels \in Nat /\ Block!N_PER_BLOCK \in Nat
  BY BlockAssumption, MergeThreadsDouble, Products DEF Block!N_PER_BLOCK
<1>4. IsRow(w, n)
  <2>1. row \in Rows
    BY DEF Block!Init
  <2> QED
    BY <1>1, <1>2, <1>3, <2>1, BlockAssumption DEF IsRow
<1>5. PICK P : ArePieces(P, w, n)
  BY PiecesExist
<1>6. IsBlock(w, n, P)
  BY <1>1, <1>3, <1>4, <1>5 DEF IsBlock
<1>7. /\ pc = [t \in Block!Lids |-> 0] /\ DOMAIN thread = Block!Lids
      /\ tgp = [i \in Block!Block |-> tgp[i]]
  BY DEF Block!Init
<1>8. BlockType(w, n) /\ ThreadsInStep
  BY <1>1, <1>2, <1>7 DEF BlockType, ThreadsInStep
<1>9. \A t \in Block!Lids : pc[t] = 0
  BY <1>7
<1>10. ThreadsHold(P) /\ RowIsCopied(w, n) /\ PiecesAreStored(P)
  <2>1. \A t \in Block!Lids : \A l \in 0..Levels :
           pc[t] \notin 2+2*l..3+2*l /\ pc[t] \notin 3+2*l..4+2*l
    BY <1>3, <1>9
  <2>2. \A t \in Block!Lids : ~(pc[t] >= 1)
    BY <1>9
  <2>3. ThreadsHold(P)
    BY <2>1 DEF ThreadsHold
  <2>4. RowIsCopied(w, n)
    BY <2>2, Placed DEF RowIsCopied
  <2>5. PiecesAreStored(P)
    BY <2>1, Placed DEF PiecesAreStored
  <2> QED
    BY <2>3, <2>4, <2>5
<1>11. IsWrittenOut(P, n)
  <2>1. \A i \in 0..n-1 : Copier(i) \in Block!Lids
    <3>1. 0..n-1 \subseteq Block!Block
      BY <1>1, <1>3 DEF Block!Block
    <3> QED
      BY <3>1, Placed
  <2>2. \A t \in Block!Lids : ~(pc[t] >= 4+2*Levels)
    BY <1>3, <1>9
  <2> QED
    BY <2>1, <2>2 DEF IsWrittenOut
<1> QED
  BY <1>6, <1>8, <1>10, <1>11 DEF BlockInv

LEMMA BlockSteps ==
    ASSUME NEW w, NEW n, NEW P, IsBlock(w, n, P), BlockInv(w, n, P), Block!Next
    PROVE  BlockInv(w, n, P)'
BY CopyKeeps, SortOwnKeeps, StoreKeeps, MergeKeeps, WriteOutKeeps DEF Block!Next

LEMMA BlockStutters ==
    ASSUME NEW w, NEW n, NEW P, BlockInv(w, n, P), UNCHANGED Block!vars
    PROVE  BlockInv(w, n, P)'
<1> UNCHANGED <<row, size, pc, tgp, thread, out>>
  BY DEF Block!vars
<1> QED
  BY DEF BlockInv, BlockType, ThreadsInStep, ThreadsHold, RowIsCopied, PiecesAreStored, IsWrittenOut

LEMMA BlockInvIsSorted ==
    ASSUME NEW w, NEW n, NEW P, IsBlock(w, n, P), BlockInv(w, n, P)
    PROVE  Block!BlockIsSorted
<1> SUFFICES ASSUME Block!Finished PROVE Block!IsStableSort(row, size, out)
  BY DEF Block!BlockIsSorted
<1>1. Levels \in Nat /\ n \in Nat /\ n <= Block!N_PER_BLOCK /\ Block!N_PER_BLOCK \in Nat
  BY BlockAssumption, MergeThreadsDouble, Products DEF IsBlock, IsRow, Block!N_PER_BLOCK
<1>2. PICK mem : mem = Memory(P[Levels])
  OBVIOUS
<1>3. \A i \in 0..n-1 : out[i] = mem[i]
  <2> TAKE i \in 0..n-1
  <2>1. i \in Block!Block
    BY <1>1 DEF Block!Block
  <2>2. pc[Copier(i)] >= 4+2*Levels
    BY <1>1, <2>1, Placed DEF Block!Finished
  <2> QED
    BY <1>2, <2>2 DEF BlockInv, IsWrittenOut
<1>4. IsRun(mem, 0, Block!N_PER_BLOCK, w, n)
  BY <1>2, BlockIsRun DEF IsBlock
<1>5. /\ \A i \in 0..n-1 : mem[i] \in {[val |-> w[k], idx |-> k] : k \in 0..n-1}
      /\ \A i, j \in 0..n-1 : i < j => Precedes(mem[i], mem[j])
  BY <1>1, <1>4, RunIsStableSort DEF IsBlock
<1>6. row = w /\ size = n
  BY DEF BlockInv, BlockType
<1>7. \A i \in 0..n-2 : Precedes(out[i], out[i+1])
  BY <1>1, <1>3, <1>5
<1> QED
  BY <1>3, <1>5, <1>6, <1>7 DEF Block!IsStableSort, Block!LessThan, Precedes

SortInv == part = "block" => \E w, n, P : IsBlock(w, n, P) /\ BlockInv(w, n, P)

\* The block sort sorts, and keeps equal values in order, for every power of two
\* of threads, elements of a thread, and row of integers that fits in the block.
THEOREM BlocksAreSorted == KernelSpec => []BlockIsSorted
<1>1. KernelInit => SortInv
  BY BlockStarts DEF KernelInit, SortInv
<1>2. SortInv /\ [KernelNext]_KernelVars => SortInv'
  <2> SUFFICES ASSUME SortInv, [KernelNext]_KernelVars, part' = "block"
               PROVE  \E w, n, P : IsBlock(w, n, P) /\ BlockInv(w, n, P)'
    BY DEF SortInv
  <2>1. part = "block"
    BY DEF KernelNext, KernelVars
  <2>2. PICK w, n, P : IsBlock(w, n, P) /\ BlockInv(w, n, P)
    BY <2>1 DEF SortInv
  <2>3. Block!Next \/ UNCHANGED Block!vars
    BY <2>1 DEF KernelNext, KernelVars, blockVars, Block!vars
  <2> QED
    BY <2>2, <2>3, BlockSteps, BlockStutters
<1>3. SortInv => BlockIsSorted
  BY BlockInvIsSorted DEF SortInv, BlockIsSorted
<1> QED
  BY <1>1, <1>2, <1>3, PTL DEF KernelSpec

-----------------------------------------------------------------------------
(* The sort of a row of several blocks: parts of a merge.                  *)

LEMMA MergesPartition ==
    ASSUME NEW mem, NEW A, NEW B, NEW A_sz, NEW B_sz, NEW k
    PROVE  Merges!MergePartition(mem, A, B, A_sz, B_sz, k) = Block!MergePartition(mem, A, B, A_sz, B_sz, k)
BY Zenon DEF Merges!MergePartition, Block!MergePartition, Merges!LessThan, Block!LessThan,
             Merges!Larger, Block!Larger, Merges!Smaller, Block!Smaller

LEMMA MergesMergeStep ==
    ASSUME NEW N \in Nat, N = MERGE_N_PER_THREAD, NEW mem, NEW A, NEW B, NEW A_sz, NEW B_sz
    PROVE  \E F : /\ IsFromA(F, mem, A, B, A_sz, B_sz, N)
                  /\ IsStep(Merges!MergeStep(mem, A, B, A_sz, B_sz), F, mem, A, B, A_sz, B_sz, N)
<1> DEFINE Takes(a, b) == StepTakesB(mem, A, B, A_sz, B_sz, a, b)
<1>1. Merges!MergeStep(mem, A, B, A_sz, B_sz)
        = LET FromA[i \in 0..MERGE_N_PER_THREAD] ==
                IF i = 0 THEN 0
                ELSE LET a == FromA[i-1] IN IF Takes(a, i-1 - a) THEN a ELSE a + 1
          IN [i \in 0..MERGE_N_PER_THREAD-1 |->
                LET a == FromA[i]  b == i - a IN
                IF Takes(a, b) THEN mem[B + b]
                ELSE IF a < A_sz THEN mem[A + a] ELSE [val |-> Pad, idx |-> 0]]
  BY Zenon DEF Merges!MergeStep, Merges!LessThan, Merges!Elements, StepTakesB
<1> HIDE DEF Takes
<1>2. PICK F : IsFromA(F, mem, A, B, A_sz, B_sz, MERGE_N_PER_THREAD)
  BY FromAExists
<1>3. F = [i \in 0..MERGE_N_PER_THREAD |->
             IF i = 0 THEN 0
             ELSE LET a == F[i-1] IN IF Takes(a, i-1 - a) THEN a ELSE a + 1]
  BY <1>2, Zenon DEF IsFromA, Takes
<1>4. PICK R :
        /\ Merges!MergeStep(mem, A, B, A_sz, B_sz) =
             [i \in 0..MERGE_N_PER_THREAD-1 |->
                LET a == R[i]  b == i - a IN
                IF Takes(a, b) THEN mem[B + b]
                ELSE IF a < A_sz THEN mem[A + a] ELSE [val |-> Pad, idx |-> 0]]
        /\ R = [i \in 0..MERGE_N_PER_THREAD |->
                  IF i = 0 THEN 0
                  ELSE LET a == R[i-1] IN IF Takes(a, i-1 - a) THEN a ELSE a + 1]
  BY <1>1, <1>3, Zenon
<1>5. IsFromA(R, mem, A, B, A_sz, B_sz, N)
  BY <1>4, Zenon DEF IsFromA, Takes
<1>6. IsStep(Merges!MergeStep(mem, A, B, A_sz, B_sz), R, mem, A, B, A_sz, B_sz, N)
  BY <1>4, Zenon DEF IsStep, Takes
<1> QED
  BY <1>5, <1>6

LEMMA MergesMergePart ==
    ASSUME NEW m \in Nat, NEW n \in Nat,
           NEW x \in [0..m-1 -> Items], NEW y \in [0..n-1 -> Items], Rising(x, m), Rising(y, n),
           NEW k \in 0..m+n, NEW N \in Nat, N = MERGE_N_PER_THREAD,
           NEW mem, NEW A \in Int, NEW B \in Int, RunsIn(mem, A, B, x, m, y, n)
    PROVE  IsPart(x, m, y, n, k, N, Merges!MergePart(mem, A, B, m, n, k))
<1>1. PICK p : p = Block!MergePartition(mem, A, B, m, n, k)
  OBVIOUS
<1>2. /\ \A i \in 0..m-1 : x[i].val \in Int
      /\ \A j \in 0..n-1 : y[j].val \in Int
  BY DEF Items
<1>3. Splits(x, m, y, n, k, p)
  BY <1>1, <1>2, BlockPartition
<1>4. p \in 0..m /\ k - p \in 0..n /\ Split(x, m, y, n, p, k - p)
  BY <1>3 DEF Splits
<1>5. PICK q \in 0..n : q = k - p /\ Split(x, m, y, n, p, q) /\ k = p + q
  BY <1>4
<1>6. PICK C, D, C_sz, D_sz : C = A + p /\ D = B + k - p /\ C_sz = m - p /\ D_sz = n - (k - p)
  OBVIOUS
<1>7. D = B + q /\ D_sz = n - q
  BY <1>4, <1>5, <1>6
<1>8. Merges!MergePart(mem, A, B, m, n, k) = Merges!MergeStep(mem, C, D, C_sz, D_sz)
  <2>1. p = Merges!MergePartition(mem, A, B, m, n, k)
    BY <1>1, MergesPartition
  <2> QED
    BY <2>1, <1>6, Zenon DEF Merges!MergePart
<1>9. PICK F : /\ IsFromA(F, mem, C, D, C_sz, D_sz, N)
               /\ IsStep(Merges!MergeStep(mem, C, D, C_sz, D_sz), F, mem, C, D, C_sz, D_sz, N)
  BY MergesMergeStep
<1>10. PICK z : z = Merges!MergeStep(mem, C, D, C_sz, D_sz)
  OBVIOUS
<1>11. IsPart(x, m, y, n, p + q, N, z)
  BY <1>4, <1>5, <1>6, <1>7, <1>9, <1>10, StepMerges
<1> QED
  BY <1>5, <1>8, <1>10, <1>11

LEMMA ValuesRise ==
    ASSUME NEW m \in Nat, NEW x \in [0..m-1 -> Items], Rising(x, m)
    PROVE  /\ \A i, j \in 0..m-1 : i <= j => x[i].val <= x[j].val
           /\ \A i \in 0..m-1 : x[i].val \in Int
<1>1. \A i \in 0..m-1 : x[i].val \in Int
  BY DEF Items
<1>2. ASSUME NEW i \in 0..m-1, NEW j \in 0..m-1, i <= j PROVE x[i].val <= x[j].val
  <2>1. CASE i < j
    BY <2>1, RisingValues
  <2>2. CASE i = j
    BY <1>1, <2>2
  <2> QED
    BY <1>2, <2>1, <2>2
<1> QED
  BY <1>1, <1>2

\* A longer split takes at least as many elements from each of the runs.
LEMMA SplitsRise ==
    ASSUME NEW m \in Nat, NEW n \in Nat,
           NEW x \in [0..m-1 -> Items], NEW y \in [0..n-1 -> Items], Rising(x, m), Rising(y, n),
           NEW a \in 0..m, NEW b \in 0..n, NEW c \in 0..m, NEW d \in 0..n,
           Split(x, m, y, n, a, b), Split(x, m, y, n, c, d), a + b <= c + d
    PROVE  a <= c /\ b <= d
<1>1. /\ \A i, j \in 0..m-1 : i <= j => x[i].val <= x[j].val
      /\ \A i \in 0..m-1 : x[i].val \in Int
  BY ValuesRise
<1>2. /\ \A i, j \in 0..n-1 : i <= j => y[i].val <= y[j].val
      /\ \A i \in 0..n-1 : y[i].val \in Int
  BY ValuesRise
<1>3. ASSUME a > c PROVE FALSE
  <2>1. PICK i, k \in 0..m-1 : i = a - 1 /\ k = c /\ k <= i
    BY <1>3
  <2>2. PICK j, l \in 0..n-1 : j = b /\ l = d - 1 /\ j <= l
    BY <1>3
  <2>3. x[i].val <= y[j].val /\ y[l].val < x[k].val
    BY <1>3, <2>1, <2>2 DEF Split
  <2> QED
    BY <1>1, <1>2, <2>1, <2>2, <2>3
<1>4. ASSUME b > d PROVE FALSE
  <2>1. PICK i, k \in 0..m-1 : i = a /\ k = c - 1 /\ i <= k
    BY <1>4
  <2>2. PICK j, l \in 0..n-1 : j = b - 1 /\ l = d /\ l <= j
    BY <1>4
  <2>3. y[j].val < x[i].val /\ x[k].val <= y[l].val
    BY <1>4, <2>1, <2>2 DEF Split
  <2> QED
    BY <1>1, <1>2, <2>1, <2>2, <2>3
<1> QED
  BY <1>3, <1>4

\* s elements of the run x, from its element p on.
Stretch(x, p, s) == [i \in 0..s-1 |-> x[p + i]]

IsStretch(u, x, p, s) ==
    /\ u \in [0..s-1 -> Items] /\ Rising(u, s)
    /\ \A i \in 0..s-1 : u[i] = x[p + i]

LEMMA StretchIs ==
    ASSUME NEW m \in Nat, NEW x \in [0..m-1 -> Items], Rising(x, m),
           NEW p \in Nat, NEW s \in Nat, p + s <= m
    PROVE  IsStretch(Stretch(x, p, s), x, p, s)
<1>1. \A i \in 0..s-1 : p + i \in 0..m-1
  OBVIOUS
<1>2. \A i \in 0..s-1 : Stretch(x, p, s)[i] = x[p + i]
  BY DEF Stretch
<1>3. Stretch(x, p, s) \in [0..s-1 -> Items]
  BY <1>1 DEF Stretch
<1>4. Rising(Stretch(x, p, s), s)
  <2> SUFFICES ASSUME NEW i \in 0..s-1, NEW j \in 0..s-1, i < j
               PROVE  Precedes(x[p + i], x[p + j])
    BY <1>2 DEF Rising
  <2>1. p + i < p + j
    OBVIOUS
  <2> QED
    BY <1>1, <2>1 DEF Rising
<1> QED
  BY <1>2, <1>3, <1>4 DEF IsStretch

\* u and v are what lies between two splits of x and y, at p, q and at r, s.
Between(u, A, v, B, x, m, y, n, p, q, r, s) ==
    /\ p \in 0..m /\ q \in 0..n /\ r \in p..m /\ s \in q..n
    /\ A = r - p /\ B = s - q
    /\ Split(x, m, y, n, p, q) /\ Split(x, m, y, n, r, s)
    /\ u = Stretch(x, p, A) /\ v = Stretch(y, q, B)

\* A split of these is one of the whole runs.
LEMMA SplitsBetween ==
    ASSUME NEW m \in Nat, NEW n \in Nat,
           NEW x \in [0..m-1 -> Items], NEW y \in [0..n-1 -> Items], Rising(x, m), Rising(y, n),
           NEW u, NEW A, NEW v, NEW B, NEW p, NEW q, NEW r, NEW s,
           Between(u, A, v, B, x, m, y, n, p, q, r, s),
           NEW a \in 0..A, NEW b \in 0..B, Split(u, A, v, B, a, b),
           NEW c, c = p + a, NEW d, d = q + b
    PROVE  Split(x, m, y, n, c, d)
<1>1. /\ p \in 0..m /\ q \in 0..n /\ r \in p..m /\ s \in q..n
      /\ A = r - p /\ B = s - q
      /\ Split(x, m, y, n, p, q) /\ Split(x, m, y, n, r, s)
      /\ u = Stretch(x, p, A) /\ v = Stretch(y, q, B)
  BY DEF Between
<1>2. c \in p..r /\ d \in q..s /\ c \in 0..m /\ d \in 0..n /\ A \in Nat /\ B \in Nat
  BY <1>1
<1>3. /\ \A i, j \in 0..m-1 : i <= j => x[i].val <= x[j].val
      /\ \A i \in 0..m-1 : x[i].val \in Int
  BY ValuesRise
<1>4. /\ \A i, j \in 0..n-1 : i <= j => y[i].val <= y[j].val
      /\ \A i \in 0..n-1 : y[i].val \in Int
  BY ValuesRise
<1>5. /\ \A i \in 0..A-1 : u[i] = x[p + i]
      /\ \A i \in 0..B-1 : v[i] = y[q + i]
  BY <1>1 DEF Stretch
<1>6. ASSUME c > 0, d < n PROVE x[c-1].val <= y[d].val
  <2>1. PICK i \in 0..m-1, j \in 0..n-1 : i = c - 1 /\ j = d
    BY <1>2, <1>6
  <2>2. CASE a = 0
    <3>1. p > 0 /\ q < n /\ i = p - 1
      BY <1>1, <1>2, <1>6, <2>1, <2>2
    <3>2. PICK k \in 0..n-1 : k = q /\ k <= j
      BY <1>1, <1>2, <2>1, <3>1
    <3>3. x[p-1].val <= y[q].val
      BY <1>1, <3>1 DEF Split
    <3>4. x[i].val <= y[k].val /\ y[k].val <= y[j].val
      BY <1>4, <3>1, <3>2, <3>3
    <3>5. x[i].val \in Int /\ y[k].val \in Int /\ y[j].val \in Int
      BY <1>3, <1>4
    <3>6. x[i].val <= y[j].val
      BY <3>4, <3>5
    <3> QED
      BY <2>1, <3>6
  <2>3. CASE a > 0 /\ b = B
    <3>1. r > 0 /\ s < n /\ j = s
      BY <1>1, <1>2, <1>6, <2>1, <2>3
    <3>2. PICK k \in 0..m-1 : k = r - 1 /\ i <= k
      BY <1>1, <1>2, <2>1, <3>1
    <3>3. x[r-1].val <= y[s].val
      BY <1>1, <3>1 DEF Split
    <3>4. x[i].val <= x[k].val /\ x[k].val <= y[j].val
      BY <1>3, <3>1, <3>2, <3>3
    <3>5. x[i].val \in Int /\ x[k].val \in Int /\ y[j].val \in Int
      BY <1>3, <1>4
    <3> QED
      BY <2>1, <3>4, <3>5
  <2>4. CASE a > 0 /\ b < B
    <3>1. u[a-1].val <= v[b].val
      BY <2>4 DEF Split
    <3>2. PICK k \in 0..A-1 : k = a - 1 /\ i = p + k
      BY <1>1, <2>1, <2>4
    <3>3. u[k] = x[i]
      BY <1>5, <3>2
    <3>4. v[b] = y[j]
      <4>1. b \in 0..B-1 /\ j = q + b
        BY <1>2, <2>1, <2>4
      <4> QED
        BY <1>5, <4>1
    <3> QED
      BY <2>1, <3>1, <3>2, <3>3, <3>4
  <2> QED
    BY <1>2, <2>2, <2>3, <2>4
<1>7. ASSUME c < m, d > 0 PROVE y[d-1].val < x[c].val
  <2>1. PICK i \in 0..m-1, j \in 0..n-1 : i = c /\ j = d - 1
    BY <1>2, <1>7
  <2>2. CASE b = 0
    <3>1. q > 0 /\ p < m /\ j = q - 1
      BY <1>1, <1>2, <1>7, <2>1, <2>2
    <3>2. PICK k \in 0..m-1 : k = p /\ k <= i
      BY <1>1, <1>2, <2>1, <3>1
    <3>3. y[q-1].val < x[p].val
      BY <1>1, <3>1 DEF Split
    <3>4. y[j].val < x[k].val /\ x[k].val <= x[i].val
      BY <1>3, <3>1, <3>2, <3>3
    <3>5. y[j].val \in Int /\ x[k].val \in Int /\ x[i].val \in Int
      BY <1>3, <1>4
    <3>6. y[j].val < x[i].val
      BY <3>4, <3>5
    <3> QED
      BY <2>1, <3>6
  <2>3. CASE b > 0 /\ a = A
    <3>1. s > 0 /\ r < m /\ i = r
      BY <1>1, <1>2, <1>7, <2>1, <2>3
    <3>2. PICK k \in 0..n-1 : k = s - 1 /\ j <= k
      BY <1>1, <1>2, <2>1, <3>1
    <3>3. y[s-1].val < x[r].val
      BY <1>1, <3>1 DEF Split
    <3>4. y[j].val <= y[k].val /\ y[k].val < x[i].val
      BY <1>4, <3>1, <3>2, <3>3
    <3>5. y[j].val \in Int /\ y[k].val \in Int /\ x[i].val \in Int
      BY <1>3, <1>4
    <3> QED
      BY <2>1, <3>4, <3>5
  <2>4. CASE b > 0 /\ a < A
    <3>1. v[b-1].val < u[a].val
      BY <2>4 DEF Split
    <3>2. PICK k \in 0..B-1 : k = b - 1 /\ j = q + k
      BY <1>1, <2>1, <2>4
    <3>3. v[k] = y[j]
      BY <1>5, <3>2
    <3>4. u[a] = x[i]
      <4>1. a \in 0..A-1 /\ i = p + a
        BY <1>2, <2>1, <2>4
      <4> QED
        BY <1>5, <4>1
    <3> QED
      BY <2>1, <3>1, <3>2, <3>3, <3>4
  <2> QED
    BY <1>2, <2>2, <2>3, <2>4
<1> QED
  BY <1>2, <1>6, <1>7 DEF Split

LEMMA MergedBetween ==
    ASSUME NEW m \in Nat, NEW n \in Nat,
           NEW x \in [0..m-1 -> Items], NEW y \in [0..n-1 -> Items], Rising(x, m), Rising(y, n),
           NEW u, NEW A, NEW v, NEW B, NEW p, NEW q, NEW r, NEW s,
           Between(u, A, v, B, x, m, y, n, p, q, r, s),
           NEW k, NEW e, MergedAt(u, A, v, B, k, e), NEW f, f = p + q + k
    PROVE  MergedAt(x, m, y, n, f, e)
<1>1. /\ p \in 0..m /\ q \in 0..n /\ r \in p..m /\ s \in q..n
      /\ A = r - p /\ B = s - q
      /\ u = Stretch(x, p, A) /\ v = Stretch(y, q, B)
  BY DEF Between
<1>2. PICK a \in 0..A, b \in 0..B :
        /\ a + b = k /\ Split(u, A, v, B, a, b)
        /\ \/ a < A /\ Split(u, A, v, B, a + 1, b) /\ e = u[a]
           \/ b < B /\ Split(u, A, v, B, a, b + 1) /\ e = v[b]
  BY DEF MergedAt
<1>3. PICK c \in 0..m, d \in 0..n : c = p + a /\ d = q + b
  BY <1>1
<1>4. Split(x, m, y, n, c, d) /\ c + d = f
  <2>1. Split(x, m, y, n, c, d)
    BY <1>2, <1>3, SplitsBetween
  <2> QED
    BY <1>1, <1>2, <1>3, <2>1
<1>5. CASE a < A /\ Split(u, A, v, B, a + 1, b) /\ e = u[a]
  <2>1. PICK a1 \in 0..A : a1 = a + 1
    BY <1>1, <1>5
  <2>2. PICK c1 \in 0..m : c1 = p + a1 /\ c1 = c + 1
    BY <1>1, <1>3, <2>1
  <2>3. Split(u, A, v, B, a1, b)
    BY <1>5, <2>1
  <2>4. Split(x, m, y, n, c1, d)
    BY <1>3, <2>2, <2>3, SplitsBetween
  <2>5. e = x[c]
    BY <1>1, <1>3, <1>5 DEF Stretch
  <2> QED
    BY <1>4, <2>2, <2>4, <2>5 DEF MergedAt
<1>6. CASE b < B /\ Split(u, A, v, B, a, b + 1) /\ e = v[b]
  <2>1. PICK b1 \in 0..B : b1 = b + 1
    BY <1>1, <1>6
  <2>2. PICK d1 \in 0..n : d1 = q + b1 /\ d1 = d + 1
    BY <1>1, <1>3, <2>1
  <2>3. Split(u, A, v, B, a, b1)
    BY <1>6, <2>1
  <2>4. Split(x, m, y, n, c, d1)
    BY <1>3, <2>2, <2>3, SplitsBetween
  <2>5. e = y[d]
    BY <1>1, <1>3, <1>6 DEF Stretch
  <2> QED
    BY <1>4, <2>2, <2>4, <2>5 DEF MergedAt
<1> QED
  BY <1>2, <1>5, <1>6

-----------------------------------------------------------------------------
(* The sort of a row of several blocks: the blocks themselves.             *)

\* B holds what comes before each element of S, in some order of all of S.
IsOrder(S, B) ==
    /\ IsFiniteSet(S)
    /\ \A i \in S : B[i] \subseteq S /\ i \notin B[i]
    /\ \A i, j \in S : i # j => i \in B[j] \/ j \in B[i]
    /\ \A i, j \in S : i \in B[j] => B[i] \subseteq B[j]

\* What comes first has fewer elements before it.
LEMMA RanksRise ==
    ASSUME NEW S, NEW B, IsOrder(S, B), NEW i \in S, NEW j \in S, i \in B[j]
    PROVE  Cardinality(B[i]) < Cardinality(B[j])
<1>1. IsFiniteSet(B[i]) /\ IsFiniteSet(B[j])
  BY FS_Subset DEF IsOrder
<1>2. B[i] \in SUBSET B[j] /\ B[i] # B[j]
  BY DEF IsOrder
<1>3. Cardinality(B[i]) <= Cardinality(B[j]) /\ Cardinality(B[i]) # Cardinality(B[j])
  BY <1>1, <1>2, FS_Subset
<1> QED
  BY <1>1, <1>3, FS_CardinalityType

\* There is an element of each rank.
LEMMA RanksExist ==
    ASSUME NEW S, NEW B, IsOrder(S, B), NEW c, c = Cardinality(S), NEW p \in 0..c-1
    PROVE  \E i \in S : Cardinality(B[i]) = p
<1>1. IsFiniteSet(S) /\ c \in Nat
  BY FS_CardinalityType DEF IsOrder
<1>2. PICK rank : rank = [i \in S |-> Cardinality(B[i])]
  OBVIOUS
<1>3. \A i \in S : rank[i] \in 0..c-1
  <2> TAKE i \in S
  <2>1. B[i] \in SUBSET S /\ B[i] # S
    BY DEF IsOrder
  <2>2. IsFiniteSet(B[i]) /\ Cardinality(B[i]) <= c /\ Cardinality(B[i]) # c
    BY <1>1, <2>1, FS_Subset
  <2>3. Cardinality(B[i]) \in Nat
    BY <2>2, FS_CardinalityType
  <2> QED
    BY <1>1, <1>2, <2>2, <2>3
<1>4. \A i, j \in S : rank[i] = rank[j] => i = j
  <2> SUFFICES ASSUME NEW i \in S, NEW j \in S, rank[i] = rank[j], i # j PROVE FALSE
    OBVIOUS
  <2>1. i \in B[j] \/ j \in B[i]
    BY DEF IsOrder
  <2>2. rank[i] < rank[j] \/ rank[j] < rank[i]
    BY <1>2, <2>1, RanksRise
  <2> QED
    BY <1>3, <2>2
<1>5. rank \in Injection(S, 0..c-1)
  BY <1>2, <1>3, <1>4 DEF Injection, IsInjective
<1>6. IsFiniteSet(0..c-1) /\ Cardinality(0..c-1) = c
  BY <1>1, FS_Interval
<1>7. rank \in Surjection(S, 0..c-1)
  BY <1>5, <1>6, FS_Injection
<1>8. PICK i \in S : rank[i] = p
  BY <1>7 DEF Surjection
<1> QED
  BY <1>2, <1>8

\* The row's element j.
Source(w, j) == [val |-> w[j], idx |-> j]

\* Places lo to hi - 1 of memory hold the row's elements of these places, in order.
IsSorted(w, dev, lo, hi) ==
    /\ \A i \in lo..hi-1 : \E j \in lo..hi-1 : dev[i] = Source(w, j)
    /\ \A i, j \in lo..hi-1 : i < j => Precedes(dev[i], dev[j])

\* FiniteSets is another module for the kernel that sorts the row.
LEMMA SameCardinality ==
    ASSUME NEW S
    PROVE  Merges!Cardinality(S) = Cardinality(S)
BY Zenon DEF Merges!Cardinality, Cardinality

\* B holds what comes before each of these elements of memory.
ComeBefore(own, old, B) ==
    \A i \in own : B[i] = {j \in own : \/ old[j].val < old[i].val
                                       \/ old[j].val = old[i].val /\ j < i}

\* at gives the element of each rank, if there is one.
OfRank(own, B, at) ==
    \A p \in Nat : (\E i \in own : Cardinality(B[i]) = p) => at[p] \in own /\ Cardinality(B[at[p]]) = p

\* The row's elements of these places are there in memory.
HoldsRow(own, w, old) == \A i \in own : w[i] \in Int /\ old[i] = Source(w, i)

\* The element of each rank is put at the place of its rank.
RankPlaced(own, lo, old, at, new) == \A i \in own : new[i] = old[at[i - lo]]

LEMMA RankedIsSorted ==
    ASSUME NEW w, NEW lo \in Nat, NEW hi \in Nat, lo <= hi, NEW own, own = lo..hi-1,
           NEW old, HoldsRow(own, w, old), NEW B, ComeBefore(own, old, B), NEW at, OfRank(own, B, at),
           NEW new, RankPlaced(own, lo, old, at, new)
    PROVE  IsSorted(w, new, lo, hi)
<1>h. \A i \in own : w[i] \in Int /\ old[i] = Source(w, i)
  BY DEF HoldsRow
<1>n. \A i \in own : new[i] = old[at[i - lo]]
  BY DEF RankPlaced
<1>1. \A i, j \in own : j \in B[i] <=> Precedes(Source(w, j), Source(w, i))
  <2> TAKE i, j \in own
  <2>1. j \in B[i] <=> old[j].val < old[i].val \/ (old[j].val = old[i].val /\ j < i)
    BY DEF ComeBefore
  <2>2. \A k \in own : Source(w, k).val = w[k] /\ Source(w, k).idx = k
    BY DEF Source
  <2>3. \A k \in own : old[k].val = w[k]
    BY <1>h, <2>2
  <2> QED
    BY <2>1, <2>2, <2>3 DEF Precedes
<1>2. own \subseteq Int /\ IsFiniteSet(own) /\ Cardinality(own) = hi - lo
  <2>1. lo \in Int /\ hi - 1 \in Int
    OBVIOUS
  <2>2. /\ IsFiniteSet(lo..hi-1)
        /\ Cardinality(lo..hi-1) = IF lo > hi - 1 THEN 0 ELSE (hi - 1) - lo + 1
    BY <2>1, FS_Interval, Zenon
  <2> QED
    BY <2>1, <2>2
<1>c. PICK c \in Nat : c = hi - lo /\ c = Cardinality(own)
  BY <1>2
<1>3. \A i, j \in own : i # j => i \in B[j] \/ j \in B[i]
  <2> TAKE i, j \in own
  <2>1. i \in Int /\ j \in Int /\ w[i] \in Int /\ w[j] \in Int
    BY <1>2, <1>h
  <2> QED
    BY <1>1, <2>1 DEF Source, Precedes
<1>4. \A i \in own : B[i] \subseteq own /\ i \notin B[i]
  <2> TAKE i \in own
  <2>1. i \in Int /\ w[i] \in Int
    BY <1>2, <1>h
  <2>2. i \notin B[i]
    BY <1>1, <2>1 DEF Source, Precedes
  <2> QED
    BY <2>2 DEF ComeBefore
<1>5. \A i, j \in own : i \in B[j] => B[i] \subseteq B[j]
  <2> SUFFICES ASSUME NEW i \in own, NEW j \in own, i \in B[j], NEW k \in own, k \in B[i]
               PROVE  k \in B[j]
    BY <1>4
  <2>1. /\ i \in Int /\ j \in Int /\ k \in Int
        /\ w[i] \in Int /\ w[j] \in Int /\ w[k] \in Int
    BY <1>2, <1>h
  <2>2. Precedes(Source(w, i), Source(w, j)) /\ Precedes(Source(w, k), Source(w, i))
    BY <1>1
  <2>3. Precedes(Source(w, k), Source(w, j))
    BY <2>1, <2>2 DEF Source, Precedes
  <2> QED
    BY <1>1, <2>3
<1>6. IsOrder(own, B)
  BY <1>2, <1>3, <1>4, <1>5 DEF IsOrder
<1>8. \A p \in 0..c-1 : at[p] \in own /\ Cardinality(B[at[p]]) = p
  <2> TAKE p \in 0..c-1
  <2>1. \E i \in own : Cardinality(B[i]) = p
    <3>1. c = Cardinality(own)
      BY <1>c
    <3>2. ASSUME NEW S, IsOrder(S, B), c = Cardinality(S) PROVE \E i \in S : Cardinality(B[i]) = p
      BY <3>2, RanksExist
    <3> QED
      BY <1>6, <3>1, <3>2
  <2> QED
    BY <1>c, <2>1 DEF OfRank
<1>a. \A i \in own : i - lo \in 0..c-1
  BY <1>c
<1>9. \A i \in own : new[i] = Source(w, at[i - lo])
  <2> TAKE i \in own
  <2>1. PICK p \in 0..c-1 : p = i - lo
    BY <1>a
  <2>2. PICK k \in own : k = at[p]
    BY <1>8
  <2>3. new[i] = old[k]
    BY <1>n, <2>1, <2>2
  <2>4. old[k] = Source(w, k)
    BY <1>h
  <2> QED
    BY <2>1, <2>2, <2>3, <2>4
<1>10. ASSUME NEW i \in own, NEW j \in own, i < j PROVE Precedes(new[i], new[j])
  <2>1. PICK p, q \in 0..c-1 : p = i - lo /\ q = j - lo /\ p < q
    <3>1. i \in Int /\ j \in Int
      BY <1>2
    <3>2. i - lo \in 0..c-1 /\ j - lo \in 0..c-1 /\ i - lo < j - lo
      BY <1>a, <1>10, <3>1
    <3> QED
      BY <3>2
  <2>2. PICK a, b \in own : a = at[p] /\ b = at[q]
    BY <1>8
  <2>3. Cardinality(B[a]) = p /\ Cardinality(B[b]) = q
    BY <1>8, <2>2
  <2>4. a # b /\ ~(b \in B[a])
    <3>1. b \in B[a] => Cardinality(B[b]) < Cardinality(B[a])
      BY <1>6, RanksRise
    <3> QED
      BY <2>1, <2>3, <3>1
  <2>5. a \in B[b]
    BY <1>3, <2>4
  <2>6. Precedes(Source(w, a), Source(w, b))
    BY <1>1, <2>5
  <2> QED
    BY <1>9, <2>1, <2>2, <2>6
<1>11. \A i \in own : \E j \in own : new[i] = Source(w, j)
  <2> TAKE i \in own
  <2>1. PICK p \in 0..c-1 : p = i - lo
    BY <1>a
  <2>2. at[p] \in own
    BY <1>8
  <2> QED
    BY <1>9, <2>1, <2>2
<1> QED
  BY <1>10, <1>11 DEF IsSorted

-----------------------------------------------------------------------------
(* The sort of a row of several blocks: where the runs lie.                *)

LEMMA Multiples ==
    ASSUME NEW S \in Nat, NEW a \in Nat, NEW b \in Nat, a <= b
    PROVE  S * a <= S * b
BY SMT

\* A group's blocks lie one after the other in its run.
LEMMA MembersFollow ==
    ASSUME NEW S, NEW h, NEW mt, NEW half, NEW sz, Group(S, h, mt, half, sz),
           NEW g \in Nat, NEW v, NEW b, NEW f, Member(S, mt, g, v, b, f)
    PROVE  /\ f \in Nat /\ f + S <= sz
           /\ v = mt - 1 => f + S = sz
           /\ v # mt - 1 => Member(S, mt, g, v + 1, b + 1, f + S)
<1>1. S \in Nat \ {0} /\ sz = S * mt
  BY DEF Group
<1>2. mt \in Nat \ {0} /\ sz \in Nat
  BY GroupSizes
<1>3. v \in 0..mt-1 /\ b = mt * g + v /\ f = S * v
  BY DEF Member
<1>4. f \in Nat /\ S * (v + 1) = f + S
  <2>1. v \in Nat
    BY <1>2, <1>3
  <2> QED
    BY <1>1, <1>3, <2>1, OneMore
<1>5. f + S <= sz
  <2>1. v + 1 \in Nat /\ v + 1 <= mt
    BY <1>2, <1>3
  <2>2. S * (v + 1) <= S * mt
    BY <1>1, <1>2, <2>1, Multiples
  <2> QED
    BY <1>1, <1>4, <2>2, Zenon
<1>6. ASSUME v = mt - 1 PROVE f + S = sz
  <2>1. v + 1 = mt
    BY <1>2, <1>6
  <2> QED
    BY <1>1, <1>4, <2>1, Zenon
<1>7. ASSUME v # mt - 1 PROVE Member(S, mt, g, v + 1, b + 1, f + S)
  <2>1. v + 1 \in 0..mt-1
    BY <1>2, <1>3, <1>7
  <2>2. b + 1 = mt * g + (v + 1)
    <3>1. PICK c \in Nat : c = mt * g
      BY <1>2, Products
    <3>2. b = c + v
      BY <1>3, <3>1, Zenon
    <3>3. b + 1 = c + (v + 1)
      BY <1>2, <1>3, <3>2
    <3> QED
      BY <3>1, <3>3, Zenon
  <2>3. f + S = S * (v + 1)
    BY <1>4, Zenon
  <2> QED
    BY <2>1, <2>2, <2>3, Zenon DEF Member
<1> QED
  BY <1>4, <1>5, <1>6, <1>7

\* Each block is one of a group.
LEMMA MemberExists ==
    ASSUME NEW S, NEW h, NEW mt, NEW half, NEW sz, Group(S, h, mt, half, sz), NEW b \in Nat
    PROVE  \E g, st, v, f : Begins(sz, g, st) /\ Member(S, mt, g, v, b, f)
<1>1. mt \in Nat \ {0}
  BY GroupSizes
<1>2. PICK g, v : g = b \div mt /\ v = b % mt
  OBVIOUS
<1>3. g \in Nat /\ v \in 0..mt-1
  BY <1>1, <1>2, DivMod
<1>4. b = mt * g + v
  BY <1>1, <1>2, DivMod, Zenon
<1>5. PICK st, f : st = sz * g /\ f = S * v
  OBVIOUS
<1> QED
  BY <1>3, <1>4, <1>5, Zenon DEF Begins, Member

Least(n, a) == IF n < a THEN n ELSE a

\* Block b starts at place at.
BlockAt(S, b, at) == b \in Nat /\ at = S * b

LEMMA BlockPlaces ==
    ASSUME NEW S \in Nat \ {0}, NEW b, NEW at, BlockAt(S, b, at)
    PROVE  /\ at \in Nat
           /\ \A i \in at..at+S-1 : i \div S = b /\ i % S = i - at
<1>1. b \in Nat /\ at = S * b
  BY DEF BlockAt
<1>2. at \in Nat
  BY <1>1, Products
<1>3. ASSUME NEW i \in at..at+S-1 PROVE i \div S = b /\ i % S = i - at
  <2>1. PICK r \in 0..S-1 : r = i - at /\ i = at + r
    BY <1>2
  <2>2. i = S * b + r
    BY <1>1, <2>1, Zenon
  <2>3. i \div S = b /\ i % S = r
    BY <1>1, <2>2, DivIs
  <2> QED
    BY <2>1, <2>3
<1> QED
  BY <1>2, <1>3

LEMMA BlockOfPlace ==
    ASSUME NEW S \in Nat \ {0}, NEW i \in Nat, NEW b, b = i \div S
    PROVE  \E at : BlockAt(S, b, at) /\ i \in at..at+S-1
<1>1. PICK at, r : at = S * b /\ r = i % S
  OBVIOUS
<1>2. b \in Nat /\ r \in 0..S-1
  BY <1>1, DivMod
<1>3. at \in Nat
  BY <1>1, <1>2, Products
<1>4. i = S * (i \div S) + (i % S)
  BY DivMod
<1>5. i = at + r
  BY <1>1, <1>4, Zenon
<1> QED
  BY <1>1, <1>2, <1>3, <1>5 DEF BlockAt

\* The blocks of n places.
LEMMA BlocksCover ==
    ASSUME NEW S \in Nat \ {0}, NEW n \in Nat \ {0}, NEW nb, nb = (n + S - 1) \div S
    PROVE  /\ nb \in Nat \ {0} /\ n <= S * nb
           /\ \A b, at : BlockAt(S, b, at) => (b < nb <=> at < n)
<1>1. PICK a \in Nat : a = n + S - 1
  OBVIOUS
<1>2. PICK r \in 0..S-1 : r = a % S
  BY DivMod
<1>3. nb \in Nat
  BY <1>1, DivMod
<1>4. a = S * nb + r
  BY <1>1, <1>2, DivMod, Zenon
<1>5. PICK c \in Nat : c = S * nb
  BY <1>3, Products
<1>6. a = c + r
  BY <1>4, <1>5, Zenon
<1>7. n <= c /\ c < n + S
  BY <1>1, <1>2, <1>6
<1>8. nb # 0
  <2> SUFFICES ASSUME nb = 0 PROVE FALSE
    OBVIOUS
  <2>1. c = 0
    BY <1>5
  <2> QED
    BY <1>7, <2>1
<1>9. ASSUME NEW b, NEW at, BlockAt(S, b, at) PROVE b < nb <=> at < n
  <2>1. b \in Nat /\ at = S * b
    BY <1>9 DEF BlockAt
  <2>2. at \in Nat /\ S * (b + 1) = at + S
    BY <2>1, OneMore
  <2>3. ASSUME b < nb PROVE at < n
    <3>1. b + 1 \in Nat /\ b + 1 <= nb
      BY <1>3, <2>1, <2>3
    <3>2. S * (b + 1) <= S * nb
      BY <1>3, <3>1, Multiples
    <3>3. at + S <= c
      BY <1>5, <2>2, <3>2, Zenon
    <3> QED
      BY <1>7, <2>2, <3>3
  <2>4. ASSUME nb <= b PROVE n <= at
    <3>1. S * nb <= S * b
      BY <1>3, <2>1, <2>4, Multiples
    <3>2. c <= at
      BY <1>5, <2>1, <3>1, Zenon
    <3> QED
      BY <1>7, <2>2, <3>2
  <2> QED
    BY <1>3, <2>1, <2>2, <2>3, <2>4
<1> QED
  BY <1>3, <1>5, <1>7, <1>8, <1>9

\* What mb_block_merge computes for the ends of a block's part of the second run.
LEMMA SecondEnds ==
    ASSUME NEW n \in Nat, NEW half \in Nat, NEW st \in Nat, st < n,
           NEW md, md = Least(n, st + half), NEW ed, ed = Least(n, st + half + half),
           NEW f \in Nat, f <= half + half,
           NEW k, k = Least(ed - st, f), NEW p \in 0..md-st, k - p \in 0..ed-md
    PROVE  Least(n, st + half + f - p) = md + (k - p)
<1>1. md \in Nat /\ ed \in Nat /\ st <= md /\ md <= ed /\ ed <= n
  BY DEF Least
<1>2. CASE f <= ed - st
  <2>1. k = f
    BY <1>1, <1>2 DEF Least
  <2>2. CASE md = st + half
    BY <1>1, <2>1, <2>2 DEF Least
  <2>3. CASE md = n /\ n < st + half
    <3>1. ed = n /\ k - p = 0
      BY <1>1, <2>3
    <3> QED
      BY <1>1, <2>1, <2>3, <3>1 DEF Least
  <2> QED
    BY <2>2, <2>3 DEF Least
<1>3. CASE ed - st < f
  <2>1. k = ed - st /\ p = md - st /\ k - p = ed - md
    BY <1>1, <1>3 DEF Least
  <2>2. ed = n
    BY <1>1, <1>3 DEF Least
  <2>3. n <= st + half + f - p
    BY <1>1, <1>3, <2>1, <2>2 DEF Least
  <2> QED
    BY <1>1, <2>1, <2>2, <2>3 DEF Least
<1> QED
  BY <1>1, <1>2, <1>3

-----------------------------------------------------------------------------
(* The sort of a row of several blocks: merges of the runs.                *)

\* s elements of memory, from place at on.
Held(dev, at, s) == [k \in 0..s-1 |-> dev[at + k]]

\* The row w has n elements, all of them integers.
IsLong(w, n) == n \in Nat \ {0} /\ \A i \in 0..n-1 : w[i] \in Int

\* x is a run of s elements, those of the row's places lo to hi - 1.
RunOf(x, s, w, lo, hi) ==
    /\ s \in Nat /\ x \in [0..s-1 -> Items] /\ Rising(x, s)
    /\ \A k \in 0..s-1 : x[k].idx \in lo..hi-1 /\ x[k] = Source(w, x[k].idx)

LEMMA SortedIsRun ==
    ASSUME NEW w, NEW n, IsLong(w, n), NEW lo \in 0..n, NEW hi \in lo..n,
           NEW dev, IsSorted(w, dev, lo, hi), NEW s, s = hi - lo, NEW x, x = Held(dev, lo, s)
    PROVE  RunOf(x, s, w, lo, hi)
<1>1. n \in Nat /\ s \in Nat
  BY DEF IsLong
<1>2. \A k \in 0..s-1 : lo + k \in lo..hi-1 /\ x[k] = dev[lo + k]
  BY <1>1 DEF Held
<1>3. \A j \in lo..hi-1 : Source(w, j) \in Items /\ Source(w, j).idx = j
  BY DEF IsLong, Source, Items
<1>4. ASSUME NEW k \in 0..s-1
      PROVE  x[k] \in Items /\ x[k].idx \in lo..hi-1 /\ x[k] = Source(w, x[k].idx)
  <2>1. PICK j \in lo..hi-1 : x[k] = Source(w, j)
    BY <1>2 DEF IsSorted
  <2> QED
    BY <1>3, <2>1
<1>5. x \in [0..s-1 -> Items]
  <2>1. x = [k \in 0..s-1 |-> x[k]]
    BY DEF Held
  <2> QED
    BY <1>4, <2>1
<1>6. Rising(x, s)
  <2> SUFFICES ASSUME NEW i \in 0..s-1, NEW j \in 0..s-1, i < j PROVE Precedes(x[i], x[j])
    BY DEF Rising
  <2>1. PICK a, b \in lo..hi-1 : a = lo + i /\ b = lo + j /\ a < b
    BY <1>2
  <2>2. Precedes(dev[a], dev[b])
    BY <2>1 DEF IsSorted
  <2> QED
    BY <1>2, <2>1, <2>2
<1> QED
  BY <1>1, <1>4, <1>5, <1>6 DEF RunOf

\* Place i of new holds what the merge of two runs of old puts there: the runs
\* are at st..md-1 and at md..ed-1.
MergedInto(old, new, st, md, ed, i) ==
    MergedAt(Held(old, st, md - st), md - st, Held(old, md, ed - md), ed - md, i - st, new[i])

\* Two runs, all of whose places are merged, are one.
LEMMA PairSorts ==
    ASSUME NEW w, NEW n, IsLong(w, n), NEW st \in 0..n, NEW md \in st..n, NEW ed \in md..n,
           NEW old, IsSorted(w, old, st, md), IsSorted(w, old, md, ed),
           NEW new, \A i \in st..ed-1 : MergedInto(old, new, st, md, ed, i)
    PROVE  IsSorted(w, new, st, ed)
<1>0. n \in Nat /\ md \in 0..n
  BY DEF IsLong
<1>1. PICK a, b, s : a = md - st /\ b = ed - md /\ s = ed - st
  OBVIOUS
<1>2. PICK x, y : x = Held(old, st, a) /\ y = Held(old, md, b)
  OBVIOUS
<1>3. /\ a \in Nat /\ x \in [0..a-1 -> Items] /\ Rising(x, a)
      /\ \A k \in 0..a-1 : x[k].idx \in st..md-1 /\ x[k] = Source(w, x[k].idx)
  <2>1. RunOf(x, a, w, st, md)
    BY <1>1, <1>2, SortedIsRun
  <2> QED
    BY <2>1 DEF RunOf
<1>4. /\ b \in Nat /\ y \in [0..b-1 -> Items] /\ Rising(y, b)
      /\ \A k \in 0..b-1 : y[k].idx \in md..ed-1 /\ y[k] = Source(w, y[k].idx)
  <2>1. RunOf(y, b, w, md, ed)
    BY <1>0, <1>1, <1>2, SortedIsRun
  <2> QED
    BY <2>1 DEF RunOf
<1>5. s \in Nat /\ s = a + b
  BY <1>0, <1>1
<1>6. PICK z : z = Held(new, st, s)
  OBVIOUS
<1>7. \A k \in 0..s-1 : st + k \in st..ed-1 /\ z[k] = new[st + k] /\ (st + k) - st = k
  BY <1>0, <1>1, <1>6 DEF Held
<1>8. \A k \in 0..s-1 : MergedAt(x, a, y, b, k, z[k])
  <2> TAKE k \in 0..s-1
  <2>1. PICK i \in st..ed-1 : i = st + k /\ z[k] = new[i] /\ i - st = k
    BY <1>7
  <2>2. MergedInto(old, new, st, md, ed, i)
    OBVIOUS
  <2> QED
    BY <1>1, <1>2, <2>1, <2>2, Zenon DEF MergedInto
<1>9. \A k \in 0..s-1 : z[k] \in Items /\ \E j \in st..ed-1 : z[k] = Source(w, j)
  <2> TAKE k \in 0..s-1
  <2>1. (\E i \in 0..a-1 : z[k] = x[i]) \/ (\E j \in 0..b-1 : z[k] = y[j])
    <3>1. PICK d : d = z[k] /\ MergedAt(x, a, y, b, k, d)
      BY <1>8
    <3>2. (\E i \in 0..a-1 : d = x[i]) \/ (\E j \in 0..b-1 : d = y[j])
      BY <1>3, <1>4, <3>1, MergedFrom
    <3> QED
      BY <3>1, <3>2
  <2>2. CASE \E i \in 0..a-1 : z[k] = x[i]
    BY <1>0, <1>3, <2>2
  <2>3. CASE \E j \in 0..b-1 : z[k] = y[j]
    BY <1>0, <1>4, <2>3
  <2> QED
    BY <2>1, <2>2, <2>3
<1>10. z \in [0..s-1 -> Items]
  <2>1. z = [k \in 0..s-1 |-> z[k]]
    BY <1>6 DEF Held
  <2> QED
    BY <1>9, <2>1
<1>11. \A i \in 0..a-1 : \A j \in 0..b-1 : x[i].idx < y[j].idx
  <2> TAKE i \in 0..a-1
  <2> TAKE j \in 0..b-1
  <2>1. x[i].idx \in st..md-1 /\ y[j].idx \in md..ed-1
    BY <1>3, <1>4
  <2> QED
    BY <1>0, <2>1
<1>12. Rising(z, s)
  BY <1>3, <1>4, <1>5, <1>8, <1>10, <1>11, MergeSorts
<1>13. \A i \in st..ed-1 : i - st \in 0..s-1 /\ new[i] = z[i - st]
  <2> TAKE i \in st..ed-1
  <2>1. PICK k \in 0..s-1 : k = i - st /\ i = st + k
    BY <1>0, <1>1
  <2> QED
    BY <1>7, <2>1
<1>14. ASSUME NEW i \in st..ed-1, NEW j \in st..ed-1, i < j PROVE Precedes(new[i], new[j])
  <2>1. PICK a1, b1 \in 0..s-1 : a1 = i - st /\ b1 = j - st /\ a1 < b1
    BY <1>0, <1>13, <1>14
  <2> QED
    BY <1>12, <1>13, <2>1 DEF Rising
<1> QED
  BY <1>9, <1>13, <1>14 DEF IsSorted

\* A block's parts of two runs x and y, copied to memory one after the other.
IsCopy(mem, S, dev, A_st, A_sz, B_st, B_sz) ==
    \A i \in 0..S-1 : i < A_sz + B_sz =>
       mem[i] = IF i < A_sz THEN dev[A_st + i] ELSE dev[B_st + i - A_sz]

\* A thread merges its share of them, in the place the whole merge has for it.
LEMMA ShareMerges ==
    ASSUME NEW m \in Nat, NEW n \in Nat,
           NEW x \in [0..m-1 -> Items], NEW y \in [0..n-1 -> Items], Rising(x, m), Rising(y, n),
           NEW p \in 0..m, NEW q \in 0..n, NEW r \in p..m, NEW s \in q..n,
           Split(x, m, y, n, p, q), Split(x, m, y, n, r, s),
           NEW dev, NEW st \in Nat, NEW md \in Nat, RunsIn(dev, st, md, x, m, y, n),
           NEW A, A = r - p, NEW B, B = s - q, NEW S \in Nat, A + B <= S,
           NEW a, a = st + p, NEW b, b = md + q,
           NEW mem, IsCopy(mem, S, dev, a, A, b, B),
           NEW N \in Nat, N = MERGE_N_PER_THREAD, NEW e \in 0..A+B,
           NEW j \in Nat, j < N, e + j < A + B, NEW f, f = p + q + (e + j)
    PROVE  MergedAt(x, m, y, n, f, Merges!MergePart(mem, 0, A, A, B, e)[j])
<1>0. A \in Nat /\ p + A = r /\ p \in Nat
  OBVIOUS
<1>1. A \in Nat /\ B \in Nat /\ p + A = r /\ q + B = s /\ p \in Nat /\ q \in Nat
  BY <1>0
<1>2. PICK u, v : u = Stretch(x, p, A) /\ v = Stretch(y, q, B)
  OBVIOUS
<1>3. /\ u \in [0..A-1 -> Items] /\ Rising(u, A)
      /\ \A i \in 0..A-1 : u[i] = x[p + i]
  <2>1. p + A <= m
    BY <1>1
  <2> QED
    <3>1. IsStretch(Stretch(x, p, A), x, p, A)
      BY <1>1, <2>1, StretchIs
    <3>2. IsStretch(u, x, p, A)
      BY <1>2, <3>1
    <3> QED
      BY <3>2 DEF IsStretch
<1>4. /\ v \in [0..B-1 -> Items] /\ Rising(v, B)
      /\ \A i \in 0..B-1 : v[i] = y[q + i]
  <2>1. q + B <= n
    BY <1>1
  <2> QED
    <3>1. IsStretch(Stretch(y, q, B), y, q, B)
      BY <1>1, <2>1, StretchIs
    <3>2. IsStretch(v, y, q, B)
      BY <1>2, <3>1
    <3> QED
      BY <3>2 DEF IsStretch
<1>5. Between(u, A, v, B, x, m, y, n, p, q, r, s)
  BY <1>2 DEF Between
<1>6. RunsIn(mem, 0, A, u, A, v, B)
  <2>1. ASSUME NEW i \in 0..A-1 PROVE mem[0 + i] = u[i]
    <3>1. i \in 0..S-1 /\ i < A + B /\ i < A /\ 0 + i = i /\ p + i \in 0..m-1
      BY <1>1
    <3>2. mem[i] = dev[a + i]
      BY <3>1 DEF IsCopy
    <3>3. a + i = st + (p + i)
      BY <1>1, <3>1
    <3>4. x[p + i] = dev[st + (p + i)]
      BY <3>1 DEF RunsIn
    <3> QED
      BY <1>3, <3>1, <3>2, <3>3, <3>4
  <2>2. ASSUME NEW i \in 0..B-1 PROVE mem[A + i] = v[i]
    <3>1. PICK k \in 0..S-1 : k = A + i /\ k < A + B /\ ~(k < A)
      BY <1>1
    <3>2. q + i \in 0..n-1
      BY <1>1
    <3>3. mem[k] = dev[b + k - A]
      BY <3>1 DEF IsCopy
    <3>4. b + k - A = md + (q + i)
      BY <1>1, <3>1
    <3>5. y[q + i] = dev[md + (q + i)]
      BY <3>2 DEF RunsIn
    <3> QED
      BY <1>4, <3>1, <3>3, <3>4, <3>5
  <2> QED
    BY <2>1, <2>2 DEF RunsIn
<1>7. PICK z : z = Merges!MergePart(mem, 0, A, A, B, e)
  OBVIOUS
<1>8. IsPart(u, A, v, B, e, N, z)
  <2>1. 0 \in Int /\ A \in Int
    BY <1>1
  <2> QED
    BY <1>1, <1>3, <1>4, <1>6, <1>7, <2>1, MergesMergePart
<1>9. PICK k \in Nat : k = e + j
  BY <1>1
<1>10. MergedAt(u, A, v, B, k, z[j])
  <2>1. j \in 0..N-1
    OBVIOUS
  <2> QED
    BY <1>8, <1>9, <2>1 DEF IsPart
<1>11. MergedAt(x, m, y, n, f, z[j])
  <2>1. f = p + q + k
    BY <1>9
  <2>2. PICK d : d = z[j]
    OBVIOUS
  <2>3. MergedAt(u, A, v, B, k, d)
    BY <1>10, <2>2
  <2>4. \A i, c, g : MergedAt(u, A, v, B, i, c) /\ g = p + q + i => MergedAt(x, m, y, n, g, c)
    BY <1>5, MergedBetween
  <2> QED
    BY <2>1, <2>2, <2>3, <2>4, Zenon
<1> QED
  BY <1>7, <1>11

-----------------------------------------------------------------------------
(* The sort of a row of several blocks: its steps.                         *)

\* The row w of n elements is sorted with nb blocks of S elements.
IsJob(w, n, S, nb) ==
    /\ IsLong(w, n)
    /\ S = Merges!N_PER_BLOCK /\ nb = (n + S - 1) \div S

LEMMA JobIs ==
    ASSUME NEW w, NEW n, NEW S, NEW nb, IsJob(w, n, S, nb)
    PROVE  /\ S \in Nat \ {0} /\ n \in Nat \ {0} /\ nb \in Nat \ {0} /\ n <= S * nb
           /\ \A b, at : BlockAt(S, b, at) => (b < nb <=> at < n)
           /\ size = n => Merges!n_blocks = nb /\ Merges!Blocks = 0..nb-1
<1>1. MERGE_THREADS * MERGE_N_PER_THREAD \in Nat \ {0}
  BY MergesAssumption, SMT
<1>2. S \in Nat \ {0} /\ n \in Nat \ {0} /\ nb = (n + S - 1) \div S
  BY <1>1 DEF IsJob, IsLong, Merges!N_PER_BLOCK
<1>3. /\ nb \in Nat \ {0} /\ n <= S * nb
      /\ \A b, at : BlockAt(S, b, at) => (b < nb <=> at < n)
  BY <1>2, BlocksCover
<1>4. size = n => Merges!n_blocks = nb /\ Merges!Blocks = 0..nb-1
  BY Zenon DEF IsJob, Merges!n_blocks, Merges!Blocks
<1> QED
  BY <1>2, <1>3, <1>4, Zenon

\* All runs of sz places are sorted, the last one up to the end of the row.
RunsOf(w, n, dev, sz) ==
    \A g, st : Begins(sz, g, st) => IsSorted(w, dev, Least(n, st), Least(n, st + sz))

\* Two runs, at st..md-1 and at md..ed-1, of at most half places.
IsPair(n, half, st, md, ed) ==
    st \in 0..n-1 /\ md = Least(n, st + half) /\ ed = Least(n, st + half + half)

\* p elements of the first run are in the first f places of their merge.
SplitAt(dev, st, md, ed, f, p) ==
    Splits(Held(dev, st, md - st), md - st, Held(dev, md, ed - md), ed - md, Least(ed - st, f), p)

\* block_partitions tells each block where its part of the first run starts.
PartsFound(parts, dev, n, S, nb, mt, half, sz) ==
    \A b \in 0..nb : \A g, st, v, f, md, ed :
       Begins(sz, g, st) /\ Member(S, mt, g, v, b, f) /\ IsPair(n, half, st, md, ed)
         => \E p : parts[b] = st + p /\ SplitAt(dev, st, md, ed, f, p)

\* The blocks that are written hold their parts of the merges.
BlocksMerged(done, old, new, n, S, mt, half, sz) ==
    \A b \in done : \A g, st, v, f, md, ed :
       Begins(sz, g, st) /\ Member(S, mt, g, v, b, f) /\ IsPair(n, half, st, md, ed)
         => \A i \in st+f..st+f+S-1 : i < n => MergedInto(old, new, st, md, ed, i)

BlocksSorted(done, w, new, n, S) ==
    \A b \in done : \A at : BlockAt(S, b, at) => IsSorted(w, new, at, Least(n, at + S))

\* Between the launch of mb_block_sort and the next one.
FirstLevel(w, n, S) ==
    /\ merge_tiles = 1
    /\ \A i \in 0..n-1 : dev_in[i] = Source(w, i)
    /\ BlocksSorted(written, w, dev_out, n, S)

\* Between the launch of a merge of runs of h blocks and the next one.
MergeLevel(w, n, S, nb, h, mt, half, sz) ==
    /\ merge_tiles = mt /\ Group(S, h, mt, half, sz)
    /\ RunsOf(w, n, dev_in, half)
    /\ PartsFound(block_partitions, dev_in, n, S, nb, mt, half, sz)
    /\ BlocksMerged(written, dev_in, dev_out, n, S, mt, half, sz)

MergeInv(w, n, S, nb) ==
    /\ row = w /\ size = n /\ written \subseteq 0..nb-1
    /\ FirstLevel(w, n, S) \/ \E h, mt, half, sz : MergeLevel(w, n, S, nb, h, mt, half, sz)

LEMMA NothingIsSorted ==
    ASSUME NEW w, NEW dev, NEW lo \in Int
    PROVE  IsSorted(w, dev, lo, lo)
<1>1. lo..lo-1 = {}
  OBVIOUS
<1> QED
  BY <1>1 DEF IsSorted

\* The two runs that are merged.
LEMMA BeginHalves ==
    ASSUME NEW N, NEW h, NEW mt, NEW half, NEW sz, Group(N, h, mt, half, sz),
           NEW g, NEW st, Begins(sz, g, st)
    PROVE  \E a, b : Begins(half, a, st) /\ Begins(half, b, st + half)
<1>1. half \in Nat /\ sz = half + half
  BY GroupSizes
<1>2. g \in Nat /\ st = sz * g
  BY DEF Begins
<1>3. PICK a \in Nat : a = g + g
  BY <1>2
<1>4. PICK d \in Nat : d = half * g
  BY <1>1, <1>2, Products
<1>5. half * a = d + d
  <2>1. half * (g + g) = half * g + half * g
    BY <1>1, <1>2, Products
  <2> QED
    BY <1>3, <1>4, <2>1, Zenon
<1>6. st = d + d
  <2>1. (half + half) * g = half * g + half * g
    BY <1>1, <1>2, SMT
  <2> QED
    BY <1>1, <1>2, <1>4, <2>1, Zenon
<1>7. half * (a + 1) = half * a + half
  BY <1>1, OneMore
<1>8. st + half = half * (a + 1)
  BY <1>5, <1>6, <1>7, Zenon
<1>9. st = half * a
  BY <1>5, <1>6, Zenon
<1>10. a + 1 \in Nat
  OBVIOUS
<1> QED
  BY <1>8, <1>9, <1>10, Zenon DEF Begins

LEMMA PairRuns ==
    ASSUME NEW w, NEW n, IsLong(w, n),
           NEW S, NEW h, NEW mt, NEW half, NEW sz, Group(S, h, mt, half, sz),
           NEW g, NEW st, Begins(sz, g, st), NEW md, NEW ed, IsPair(n, half, st, md, ed),
           NEW dev, RunsOf(w, n, dev, half)
    PROVE  /\ st \in 0..n /\ md \in st..n /\ ed \in md..n
           /\ IsSorted(w, dev, st, md) /\ IsSorted(w, dev, md, ed)
<1>1. n \in Nat /\ half \in Nat
  BY GroupSizes DEF IsLong
<1>2. st \in 0..n-1 /\ md = Least(n, st + half) /\ ed = Least(n, st + half + half)
  BY DEF IsPair
<1>3. st \in 0..n /\ md \in st..n /\ ed \in md..n /\ Least(n, st) = st
  BY <1>1, <1>2 DEF Least
<1>4. PICK a, b : Begins(half, a, st) /\ Begins(half, b, st + half)
  BY BeginHalves
<1>5. IsSorted(w, dev, Least(n, st), Least(n, st + half))
  BY <1>4, Zenon DEF RunsOf
<1>6. IsSorted(w, dev, Least(n, st + half), Least(n, st + half + half))
  BY <1>4, Zenon DEF RunsOf
<1> QED
  BY <1>2, <1>3, <1>5, <1>6, Zenon

\* mb_block_partition finds where the parts start.
LEMMA PartitionFinds ==
    ASSUME NEW w, NEW n, NEW S, NEW nb, IsJob(w, n, S, nb), size = n,
           NEW h, NEW mt, NEW half, NEW sz, Group(S, h, mt, half, sz),
           NEW g, NEW st, Begins(sz, g, st), NEW v, NEW b, NEW f, Member(S, mt, g, v, b, f),
           NEW md, NEW ed, IsPair(n, half, st, md, ed), NEW dev, RunsOf(w, n, dev, half)
    PROVE  \E p : Merges!Partition(dev, mt, b) = st + p /\ SplitAt(dev, st, md, ed, f, p)
<1>1. n \in Nat /\ half \in Nat /\ sz \div 2 = half /\ IsLong(w, n)
  BY GroupSizes, JobIs DEF IsJob
<1>2. st \in 0..n /\ md \in st..n /\ ed \in md..n /\ IsSorted(w, dev, st, md) /\ IsSorted(w, dev, md, ed)
  BY <1>1, PairRuns
<1>3. PICK m, k : m = md - st /\ k = ed - md
  OBVIOUS
<1>4. PICK x, y : x = Held(dev, st, m) /\ y = Held(dev, md, k)
  OBVIOUS
<1>5. RunOf(x, m, w, st, md) /\ RunOf(y, k, w, md, ed)
  <2>1. md \in 0..n
    BY <1>2
  <2> QED
    BY <1>1, <1>2, <1>3, <1>4, <2>1, SortedIsRun
<1>6. /\ m \in Nat /\ k \in Nat
      /\ \A i \in 0..m-1 : x[i].val \in Int
      /\ \A i \in 0..k-1 : y[i].val \in Int
  BY <1>5 DEF RunOf, Items
<1>7. RunsIn(dev, st, md, x, m, y, k)
  BY <1>4, <1>6 DEF RunsIn, Held
<1>8. f \in Nat /\ b \div mt = g /\ b % mt = v /\ st = sz * g /\ f = S * v
  BY MemberIs
<1>9. PICK e \in 0..m+k : e = Least(ed - st, f)
  BY <1>1, <1>2, <1>3, <1>8 DEF Least
<1>10. Splits(x, m, y, k, e, Block!MergePartition(dev, st, md, m, k, e))
  <2>1. st \in Int /\ md \in Int
    BY <1>1, <1>2
  <2> QED
    BY <1>6, <1>7, <2>1, BlockPartition
<1>11. Merges!Partition(dev, mt, b) = st + Block!MergePartition(dev, st, md, m, k, e)
  <2>1. /\ Merges!Smaller(size, st) = st
        /\ Merges!Smaller(size, st + half) = md
        /\ Merges!Smaller(size, md + half) = ed
    BY <1>1, <1>2 DEF Merges!Smaller, IsPair, Least
  <2>2. S * mt = sz /\ S = Merges!N_PER_BLOCK
    BY DEF Group, IsJob
  <2>3. Merges!Smaller(ed - st, f) = e
    BY <1>9 DEF Merges!Smaller, Least
  <2>4. Merges!Partition(dev, mt, b)
          = Merges!Smaller(size, st)
            + Merges!MergePartition(dev, Merges!Smaller(size, st), Merges!Smaller(size, st + half),
                Merges!Smaller(size, st + half) - Merges!Smaller(size, st),
                Merges!Smaller(size, Merges!Smaller(size, st + half) + half)
                  - Merges!Smaller(size, st + half),
                Merges!Smaller(Merges!Smaller(size, Merges!Smaller(size, st + half) + half)
                                 - Merges!Smaller(size, st), f))
    BY <1>1, <1>8, <2>2, Zenon DEF Merges!Partition
  <2>5. Merges!Partition(dev, mt, b) = st + Merges!MergePartition(dev, st, md, md - st, ed - md, e)
    BY <2>1, <2>3, <2>4, Zenon
  <2> QED
    BY <1>3, <2>5, MergesPartition, Zenon
<1>12. SplitAt(dev, st, md, ed, f, Block!MergePartition(dev, st, md, m, k, e))
  BY <1>3, <1>4, <1>9, <1>10, Zenon DEF SplitAt
<1> QED
  BY <1>11, <1>12

LEMMA BlockPlacesIn ==
    ASSUME NEW S \in Nat \ {0}, NEW i \in Nat, NEW b, NEW at, BlockAt(S, b, at), i \in at..at+S-1
    PROVE  b = i \div S
BY BlockPlaces

\* A place is in one run only.
LEMMA RunOfPlace ==
    ASSUME NEW sz \in Nat \ {0}, NEW g, NEW st, Begins(sz, g, st), NEW j, NEW u, Begins(sz, j, u),
           NEW i \in Nat, i \in st..st+sz-1, i \in u..u+sz-1
    PROVE  j = g /\ u = st
<1>1. BlockAt(sz, g, st) /\ BlockAt(sz, j, u)
  BY DEF Begins, BlockAt
<1>2. i \div sz = g /\ i \div sz = j
  BY <1>1, BlockPlacesIn
<1>3. j = g
  BY <1>2
<1> QED
  BY <1>3 DEF Begins

\* Each place of a run is in a block of its group.
LEMMA PlaceInRun ==
    ASSUME NEW S, NEW h, NEW mt, NEW half, NEW sz, Group(S, h, mt, half, sz),
           NEW g, NEW st, Begins(sz, g, st), NEW i \in st..st+sz-1
    PROVE  \E b, at, v, f : /\ BlockAt(S, b, at) /\ Member(S, mt, g, v, b, f)
                            /\ at = st + f /\ i \in at..at+S-1
<1>1. S \in Nat \ {0} /\ sz \in Nat
  BY GroupSizes DEF Group
<1>2. st \in Nat /\ i \in Nat
  BY <1>1, GroupStarts
<1>3. PICK b : b = i \div S
  OBVIOUS
<1>4. PICK at : BlockAt(S, b, at) /\ i \in at..at+S-1
  BY <1>1, <1>2, <1>3, BlockOfPlace
<1>5. b \in Nat /\ at = S * b
  BY <1>4 DEF BlockAt
<1>6. PICK j, u, v, f : Begins(sz, j, u) /\ Member(S, mt, j, v, b, f)
  BY <1>5, MemberExists
<1>7. S * b = u + f /\ f \in Nat /\ u \in Nat
  BY <1>6, MemberIs
<1>8. j \in Nat
  BY <1>6 DEF Begins
<1>9. f + S <= sz
  BY <1>6, <1>8, MembersFollow
<1>10. at = u + f
  BY <1>5, <1>7, Zenon
<1>11. i \in u..u+sz-1 /\ sz # 0
  BY <1>1, <1>2, <1>4, <1>7, <1>9, <1>10
<1>12. j = g /\ u = st
  BY <1>1, <1>2, <1>6, <1>11, RunOfPlace
<1> QED
  BY <1>4, <1>6, <1>10, <1>12

\* When all blocks are written, the runs are twice as long.
LEMMA LevelSorts ==
    ASSUME NEW w, NEW n, NEW S, NEW nb, IsJob(w, n, S, nb), MergeInv(w, n, S, nb),
           written = 0..nb-1, NEW mt, mt = merge_tiles, NEW sz, sz = S * mt
    PROVE  mt \in Nat \ {0} /\ RunsOf(w, n, dev_out, sz)
<1>1. /\ S \in Nat \ {0} /\ n \in Nat \ {0} /\ nb \in Nat \ {0} /\ IsLong(w, n)
      /\ \A b, at : BlockAt(S, b, at) => (b < nb <=> at < n)
  BY JobIs DEF IsJob
<1>2. CASE FirstLevel(w, n, S)
  <2>1. mt = 1 /\ sz = S
    <3>1. mt = 1
      BY <1>2 DEF FirstLevel
    <3>2. S * 1 = S
      BY <1>1
    <3> QED
      BY <3>1, <3>2, Zenon
  <2>2. ASSUME NEW g, NEW st, Begins(sz, g, st)
        PROVE  IsSorted(w, dev_out, Least(n, st), Least(n, st + sz))
    <3>1. BlockAt(S, g, st) /\ g \in Nat
      BY <2>1, <2>2 DEF Begins, BlockAt
    <3>2. st \in Nat
      BY <1>1, <3>1, BlockPlaces
    <3>3. CASE st < n
      <4>1. g \in written
        BY <1>1, <3>1, <3>3
      <4>2. IsSorted(w, dev_out, st, Least(n, st + S))
        BY <1>2, <3>1, <4>1 DEF FirstLevel, BlocksSorted
      <4>3. Least(n, st) = st
        BY <1>1, <3>2, <3>3 DEF Least
      <4> QED
        BY <2>1, <4>2, <4>3
    <3>4. CASE n <= st
      <4>1. Least(n, st) = n /\ Least(n, st + sz) = n
        BY <1>1, <2>1, <3>2, <3>4 DEF Least
      <4> QED
        BY <1>1, <4>1, NothingIsSorted
    <3> QED
      BY <1>1, <3>2, <3>3, <3>4
  <2> QED
    BY <2>1, <2>2 DEF RunsOf
<1>3. ASSUME NEW h, NEW l, NEW half, NEW s, MergeLevel(w, n, S, nb, h, l, half, s)
      PROVE  mt \in Nat \ {0} /\ RunsOf(w, n, dev_out, sz)
  <2>1. Group(S, h, l, half, s) /\ l = mt /\ RunsOf(w, n, dev_in, half)
    BY <1>3 DEF MergeLevel
  <2>2. s = S * l
    BY <2>1 DEF Group
  <2>3. s = sz /\ mt \in Nat \ {0} /\ half \in Nat /\ sz \in Nat /\ sz = half + half
    <3>1. l \in Nat \ {0} /\ half \in Nat /\ s \in Nat /\ s = half + half
      BY <2>1, GroupSizes
    <3>2. s = sz
      BY <2>1, <2>2, Zenon
    <3> QED
      BY <2>1, <3>1, <3>2
  <2>4. Group(S, h, mt, half, sz)
    BY <2>1, <2>3
  <2>5. ASSUME NEW g, NEW st, Begins(sz, g, st)
        PROVE  IsSorted(w, dev_out, Least(n, st), Least(n, st + sz))
    <3>1. st \in Nat
      BY <2>4, <2>5, GroupStarts
    <3>2. CASE st < n
      <4>1. PICK md, ed : md = Least(n, st + half) /\ ed = Least(n, st + half + half)
        OBVIOUS
      <4>2. IsPair(n, half, st, md, ed)
        BY <1>1, <3>1, <3>2, <4>1 DEF IsPair
      <4>3. /\ st \in 0..n /\ md \in st..n /\ ed \in md..n
            /\ IsSorted(w, dev_in, st, md) /\ IsSorted(w, dev_in, md, ed)
        BY <1>1, <2>1, <2>4, <2>5, <4>2, PairRuns
      <4>4. ASSUME NEW i \in st..ed-1 PROVE MergedInto(dev_in, dev_out, st, md, ed, i)
        <5>1. i \in st..st+sz-1 /\ i < n
          BY <1>1, <2>3, <3>1, <4>1 DEF Least
        <5>2. PICK b, at, v, f : /\ BlockAt(S, b, at) /\ Member(S, mt, g, v, b, f)
                                 /\ at = st + f /\ i \in at..at+S-1
          BY <2>4, <2>5, <5>1, PlaceInRun
        <5>3. b \in written
          <6>1. b \in Nat
            BY <5>2 DEF BlockAt
          <6>2. at \in Nat
            BY <1>1, <5>2, BlockPlaces
          <6>3. at < n
            BY <1>1, <5>1, <5>2, <6>2
          <6> QED
            BY <1>1, <5>2, <6>1, <6>3
        <5>4. BlocksMerged(written, dev_in, dev_out, n, S, mt, half, sz)
          BY <1>3, <2>1, <2>3 DEF MergeLevel
        <5>5. \A k \in st+f..st+f+S-1 : k < n => MergedInto(dev_in, dev_out, st, md, ed, k)
          BY <2>5, <4>2, <5>2, <5>3, <5>4, Zenon DEF BlocksMerged
        <5>6. i \in st+f..st+f+S-1
          BY <5>2
        <5> QED
          BY <5>1, <5>5, <5>6
      <4>5. IsSorted(w, dev_out, st, ed)
        BY <1>1, <4>3, <4>4, PairSorts
      <4>6. Least(n, st) = st /\ Least(n, st + sz) = ed
        BY <1>1, <2>3, <3>1, <3>2, <4>1 DEF Least
      <4> QED
        BY <4>5, <4>6
    <3>3. CASE n <= st
      <4>1. Least(n, st) = n /\ Least(n, st + sz) = n
        BY <1>1, <2>3, <3>1, <3>3 DEF Least
      <4> QED
        BY <1>1, <4>1, NothingIsSorted
    <3> QED
      BY <1>1, <3>1, <3>2, <3>3
  <2> QED
    BY <2>3, <2>5 DEF RunsOf
<1> QED
  BY <1>2, <1>3 DEF MergeInv

LEMMA MergesStart ==
    ASSUME Merges!Init
    PROVE  \E w, n, S, nb : IsJob(w, n, S, nb) /\ MergeInv(w, n, S, nb)
<1>1. MERGE_THREADS * MERGE_N_PER_THREAD \in Nat \ {0} /\ MaxBlocks \in Nat
  BY MergesAssumption, SMT
<1>2. Merges!N_PER_BLOCK * MaxBlocks \in Nat
  BY <1>1, Products DEF Merges!N_PER_BLOCK
<1>3. PICK n \in 1..Merges!N_PER_BLOCK * MaxBlocks : DOMAIN row = 0..n-1 /\ size = n
  BY DEF Merges!Init
<1>4. n \in Nat \ {0}
  BY <1>2, <1>3
<1>5. PICK w, S, nb : w = row /\ S = Merges!N_PER_BLOCK /\ nb = (n + S - 1) \div S
  OBVIOUS
<1>6. IsJob(w, n, S, nb)
  <2>1. row \in LongRows
    BY DEF Merges!Init
  <2>2. \A i \in 0..n-1 : w[i] \in Int
    BY <1>3, <1>5, <2>1, MergesAssumption
  <2> QED
    BY <1>4, <1>5, <2>2 DEF IsJob, IsLong
<1>7. FirstLevel(w, n, S)
  BY <1>3, <1>5 DEF Merges!Init, FirstLevel, BlocksSorted, Source
<1>8. written = {}
  BY DEF Merges!Init
<1> QED
  BY <1>3, <1>5, <1>6, <1>7, <1>8 DEF MergeInv

\* What a threadgroup that writes its block changes.
Wrote(n, S, nb, b, elements) ==
    /\ b \in 0..nb-1 /\ written' = written \union {b}
    /\ \A i \in 0..n-1 : dev_out'[i] = IF i \div S = b THEN elements[i % S] ELSE dev_out[i]
    /\ UNCHANGED <<row, size, merge_tiles, block_partitions, dev_in>>

LEMMA BlockIsWritten ==
    ASSUME NEW w, NEW n, NEW S, NEW nb, IsJob(w, n, S, nb), size = n,
           NEW b, NEW elements, Merges!WriteBlock(b, elements)
    PROVE  Wrote(n, S, nb, b, elements)
<1>1. Merges!Blocks = 0..nb-1 /\ S = Merges!N_PER_BLOCK
  BY JobIs DEF IsJob
<1>2. dev_out' = [i \in 0..n-1 |-> IF i \div S = b THEN elements[i % S] ELSE dev_out[i]]
  BY <1>1, Zenon DEF Merges!WriteBlock, Merges!BlockOf
<1> QED
  BY <1>1, <1>2 DEF Merges!WriteBlock, Wrote

\* The other blocks stay as they were.
LEMMA OthersStay ==
    ASSUME NEW S \in Nat \ {0}, NEW n \in Nat, NEW nb, NEW b, NEW elements, Wrote(n, S, nb, b, elements),
           NEW c, NEW at, BlockAt(S, c, at), c # b, NEW i \in at..at+S-1, i < n
    PROVE  dev_out'[i] = dev_out[i]
<1>1. at \in Nat /\ i \div S = c
  BY BlockPlaces
<1>2. i \in 0..n-1
  BY <1>1
<1> QED
  BY <1>1, <1>2 DEF Wrote

\* The places of the block.
LEMMA OwnPlaces ==
    ASSUME NEW S \in Nat \ {0}, NEW n \in Nat, NEW nb, NEW b, NEW elements, Wrote(n, S, nb, b, elements),
           NEW at, BlockAt(S, b, at), NEW i \in at..at+S-1, i < n
    PROVE  dev_out'[i] = elements[i - at] /\ i - at \in 0..S-1 /\ i \in 0..n-1
<1>1. at \in Nat /\ i \div S = b /\ i % S = i - at
  BY BlockPlaces
<1>2. i \in 0..n-1 /\ i - at \in 0..S-1
  BY <1>1
<1> QED
  BY <1>1, <1>2 DEF Wrote

LEMMA SortBlockKeeps ==
    ASSUME NEW w, NEW n, NEW S, NEW nb, IsJob(w, n, S, nb), MergeInv(w, n, S, nb),
           NEW b, Merges!SortBlock(b)
    PROVE  MergeInv(w, n, S, nb)'
<1>1. /\ S \in Nat \ {0} /\ n \in Nat \ {0} /\ nb \in Nat \ {0} /\ IsLong(w, n)
      /\ S = Merges!N_PER_BLOCK
      /\ \A c, at : BlockAt(S, c, at) => (c < nb <=> at < n)
  BY JobIs DEF IsJob
<1>2. size = n /\ row = w /\ written \subseteq 0..nb-1
  BY DEF MergeInv
<1>3. merge_tiles = 1
  BY DEF Merges!SortBlock
<1>4. FirstLevel(w, n, S)
  <2>1. ASSUME NEW h, NEW mt, NEW half, NEW sz, MergeLevel(w, n, S, nb, h, mt, half, sz) PROVE FALSE
    <3>1. mt = 1 /\ mt = 2 * h /\ h \in Nat
      BY <1>3, <2>1 DEF MergeLevel, Group
    <3> QED
      BY <3>1
  <2> QED
    BY <2>1 DEF MergeInv
<1> DEFINE own == {i \in 0..size-1 : Merges!BlockOf(i) = b}
           Earlier(i) == {j \in own : \/ dev_in[j].val < dev_in[i].val
                                      \/ dev_in[j].val = dev_in[i].val /\ j < i}
<1>5. Merges!WriteBlock(b, [p \in 0..Merges!Cardinality(own)-1 |->
                              dev_in[CHOOSE i \in own : Merges!Cardinality(Earlier(i)) = p]])
  BY Zenon DEF Merges!SortBlock, Merges!LessThan
<1>o. own = {i \in 0..size-1 : Merges!BlockOf(i) = b}
  OBVIOUS
<1>p. PICK B : B = [i \in own |-> Earlier(i)]
  OBVIOUS
<1>q. ComeBefore(own, dev_in, B)
  BY <1>p DEF ComeBefore
<1> HIDE DEF own, Earlier
<1>r. PICK from : from = [p \in Nat |-> CHOOSE i \in own : Merges!Cardinality(Earlier(i)) = p]
  OBVIOUS
<1>6. PICK sorted : /\ Merges!WriteBlock(b, sorted)
                    /\ sorted = [p \in 0..Merges!Cardinality(own)-1 |->
                                   dev_in[CHOOSE i \in own : Merges!Cardinality(Earlier(i)) = p]]
  BY <1>5
<1>s. OfRank(own, B, from)
  <2> SUFFICES ASSUME NEW p \in Nat, NEW i \in own, Cardinality(B[i]) = p
               PROVE  from[p] \in own /\ Cardinality(B[from[p]]) = p
    BY DEF OfRank
  <2>1. \A k \in own : Merges!Cardinality(Earlier(k)) = Cardinality(B[k])
    BY <1>p, SameCardinality
  <2>2. from[p] = CHOOSE k \in own : Merges!Cardinality(Earlier(k)) = p
    BY <1>r, Zenon
  <2>3. from[p] \in own /\ Merges!Cardinality(Earlier(from[p])) = p
    BY <2>1, <2>2, Zenon
  <2> QED
    BY <2>1, <2>3
<1>7. Wrote(n, S, nb, b, sorted)
  BY <1>2, <1>6, BlockIsWritten
<1>8. /\ b \in 0..nb-1 /\ written' = written \union {b}
      /\ UNCHANGED <<row, size, merge_tiles, block_partitions, dev_in>>
  BY <1>7 DEF Wrote
<1>9. PICK at : BlockAt(S, b, at)
  BY <1>8 DEF BlockAt
<1>10. at \in Nat /\ at < n
  BY <1>1, <1>8, <1>9, BlockPlaces
<1>11. PICK hi \in Nat : hi = Least(n, at + S) /\ at <= hi /\ hi <= n /\ hi <= at + S
  BY <1>1, <1>10 DEF Least
<1>12. own = at..hi-1
  <2>0. own = {i \in 0..n-1 : i \div S = b}
    BY <1>1, <1>2, <1>o DEF Merges!BlockOf
  <2>1. ASSUME NEW i \in own PROVE i \in at..hi-1
    <3>1. i \in 0..n-1 /\ i \div S = b /\ i \in Nat
      BY <1>1, <2>0
    <3>2. PICK a : BlockAt(S, b, a) /\ i \in a..a+S-1
      BY <1>1, <3>1, BlockOfPlace
    <3>3. a = at
      BY <1>9, <3>2 DEF BlockAt
    <3> QED
      BY <1>1, <1>10, <1>11, <3>1, <3>2, <3>3 DEF Least
  <2>2. ASSUME NEW i \in at..hi-1 PROVE i \in own
    <3>1. i \in at..at+S-1 /\ i \in 0..n-1
      BY <1>1, <1>10, <1>11
    <3>2. i \div S = b
      BY <1>1, <1>9, <3>1, BlockPlaces
    <3> QED
      BY <2>0, <3>1, <3>2
  <2> QED
    BY <2>1, <2>2
<1>13. IsSorted(w, dev_out', at, hi)
  <2>1. own \subseteq 0..n-1
    BY <1>2, <1>o
  <2>2. \A i \in own : w[i] \in Int
    BY <1>1, <2>1 DEF IsLong
  <2>3. \A i \in own : dev_in[i] = Source(w, i)
    BY <1>4, <2>1 DEF FirstLevel
  <2>4. \A i \in own : dev_out'[i] = sorted[i - at]
    <3> TAKE i \in own
    <3>1. i \in at..at+S-1 /\ i < n
      BY <1>1, <1>10, <1>11, <1>12
    <3> QED
      BY <1>1, <1>7, <1>9, <3>1, OwnPlaces
  <2> QED
    <3>1. PICK new, old : new = dev_out' /\ old = dev_in
      OBVIOUS
    <3>2. ComeBefore(own, old, B) /\ OfRank(own, B, from)
      BY <1>q, <1>s, <3>1
    <3>3. HoldsRow(own, w, old)
      BY <2>2, <2>3, <3>1 DEF HoldsRow
    <3>4. \A i \in own : new[i] = old[from[i - at]]
      <4> TAKE i \in own
      <4>1. PICK p \in Nat : p = i - at /\ p < hi - at
        BY <1>10, <1>11, <1>12
      <4>2. Merges!Cardinality(own) = hi - at
        <5>1. Cardinality(own) = hi - at
          <6>1. at \in Int /\ hi - 1 \in Int
            BY <1>10, <1>11
          <6>2. Cardinality(at..hi-1) = IF at > hi - 1 THEN 0 ELSE (hi - 1) - at + 1
            BY <6>1, FS_Interval, Zenon
          <6> QED
            BY <1>10, <1>11, <1>12, <6>2
        <5> QED
          BY <5>1, SameCardinality
      <4>3. p \in 0..Merges!Cardinality(own)-1
        BY <1>10, <1>11, <4>1, <4>2
      <4>4. sorted[p] = dev_in[from[p]]
        <5>1. sorted[p] = dev_in[CHOOSE k \in own : Merges!Cardinality(Earlier(k)) = p]
          BY <1>6, <4>3, Zenon
        <5>2. from[p] = CHOOSE k \in own : Merges!Cardinality(Earlier(k)) = p
          BY <1>r, <4>1, Zenon
        <5> QED
          BY <5>1, <5>2, Zenon
      <4> QED
        BY <2>4, <3>1, <4>1, <4>4
    <3>6. RankPlaced(own, at, old, from, new)
      BY <3>4 DEF RankPlaced
    <3>5. IsSorted(w, new, at, hi)
      <4>1. at \in Nat /\ hi \in Nat /\ at <= hi
        BY <1>10, <1>11
      <4> QED
        BY <1>12, <3>2, <3>3, <3>6, <4>1, RankedIsSorted, Zenon
    <3> QED
      BY <3>1, <3>5
<1>14. ASSUME NEW c \in written', NEW a, BlockAt(S, c, a)
       PROVE  IsSorted(w, dev_out', a, Least(n, a + S))
  <2>1. CASE c = b
    <3>1. a = at
      BY <1>9, <1>14, <2>1 DEF BlockAt
    <3> QED
      BY <1>11, <1>13, <3>1
  <2>2. CASE c # b
    <3>1. IsSorted(w, dev_out, a, Least(n, a + S))
      BY <1>4, <1>8, <1>14, <2>2 DEF FirstLevel, BlocksSorted
    <3>2. a \in Nat
      BY <1>1, <1>14, BlockPlaces
    <3>3. \A i \in a..Least(n, a + S)-1 : dev_out'[i] = dev_out[i]
      <4> TAKE i \in a..Least(n, a + S)-1
      <4>1. i \in a..a+S-1 /\ i < n
        BY <1>1, <3>2 DEF Least
      <4> QED
        BY <1>1, <1>7, <1>14, <2>2, <4>1, OthersStay
    <3> QED
      BY <3>1, <3>3 DEF IsSorted
  <2> QED
    BY <2>1, <2>2
<1>15. FirstLevel(w, n, S)'
  BY <1>4, <1>8, <1>14 DEF FirstLevel, BlocksSorted
<1> QED
  BY <1>2, <1>8, <1>15 DEF MergeInv

LEMMA LaunchKeeps ==
    ASSUME NEW w, NEW n, NEW S, NEW nb, IsJob(w, n, S, nb), MergeInv(w, n, S, nb), Merges!Launch
    PROVE  MergeInv(w, n, S, nb)'
<1>1. S \in Nat \ {0} /\ n \in Nat \ {0} /\ nb \in Nat \ {0}
  BY JobIs
<1>2. size = n /\ row = w
  BY DEF MergeInv
<1>3. Merges!Blocks = 0..nb-1 /\ Merges!n_blocks = nb
  BY <1>2, JobIs
<1>4. /\ written = 0..nb-1 /\ merge_tiles' = 2 * merge_tiles /\ dev_in' = dev_out /\ written' = {}
      /\ block_partitions' = [i \in 0..nb |-> Merges!Partition(dev_out, 2 * merge_tiles, i)]
      /\ UNCHANGED <<row, size, dev_out>>
  BY <1>3, Zenon DEF Merges!Launch
<1>5. PICK h, half : h = merge_tiles /\ half = S * h
  OBVIOUS
<1>6. h \in Nat \ {0} /\ RunsOf(w, n, dev_out, half)
  BY <1>4, <1>5, LevelSorts
<1>7. PICK mt, sz : mt = 2 * h /\ sz = S * mt
  OBVIOUS
<1>8. Group(S, h, mt, half, sz)
  BY <1>1, <1>5, <1>6, <1>7, Zenon DEF Group
<1>9. PICK dev : dev = dev_out
  OBVIOUS
<1>10. RunsOf(w, n, dev, half)
  BY <1>6, <1>9
<1>11. PICK parts : parts = block_partitions'
  OBVIOUS
<1>12. \A b \in 0..nb : parts[b] = Merges!Partition(dev, mt, b)
  BY <1>4, <1>5, <1>7, <1>9, <1>11
<1>13. PartsFound(parts, dev, n, S, nb, mt, half, sz)
  <2> SUFFICES ASSUME NEW b \in 0..nb, NEW g, NEW st, NEW v, NEW f, NEW md, NEW ed,
                      Begins(sz, g, st), Member(S, mt, g, v, b, f), IsPair(n, half, st, md, ed)
               PROVE  \E p : parts[b] = st + p /\ SplitAt(dev, st, md, ed, f, p)
    BY DEF PartsFound
  <2>1. \E p : Merges!Partition(dev, mt, b) = st + p /\ SplitAt(dev, st, md, ed, f, p)
    BY <1>2, <1>8, <1>10, PartitionFinds
  <2> QED
    BY <1>12, <2>1
<1>14. BlocksMerged({}, dev, dev, n, S, mt, half, sz)
  BY DEF BlocksMerged
<1>15. MergeLevel(w, n, S, nb, h, mt, half, sz)'
  BY <1>4, <1>5, <1>7, <1>8, <1>9, <1>10, <1>11, <1>13, <1>14 DEF MergeLevel
<1> QED
  BY <1>2, <1>4, <1>15 DEF MergeInv

\* A block's elements are merged from its parts of two runs.
IsMerged(e, S, N, dev, A_st, A_sz, B_st, B_sz) ==
    \E mem : /\ IsCopy(mem, S, dev, A_st, A_sz, B_st, B_sz)
             /\ \A r \in 0..S-1 :
                   e[r] = Merges!MergePart(mem, 0, A_sz, A_sz, B_sz,
                                           Least(A_sz + B_sz, N * (r \div N)))[r % N]

\* The thread that merges element r of a block.
LEMMA ThreadOf ==
    ASSUME NEW T \in Nat \ {0}, NEW N \in Nat \ {0}, NEW S, S = T * N, NEW r \in 0..S-1
    PROVE  /\ S \in Nat /\ r \div N \in 0..T-1 /\ r % N \in 0..N-1
           /\ r = N * (r \div N) + (r % N)
<1>1. S \in Nat /\ S = N * T
  BY SMT
<1>2. PICK l, j : l = r \div N /\ j = r % N
  OBVIOUS
<1>3. r \in Nat
  BY <1>1
<1>4. l \in Nat /\ j \in 0..N-1
  BY <1>2, <1>3, DivMod
<1>5. r = N * l + j
  BY <1>2, <1>3, DivMod, Zenon
<1>6. l < T
  <2> SUFFICES ASSUME ~(l < T) PROVE FALSE
    OBVIOUS
  <2>1. T <= l
    BY <1>4
  <2>2. N * T <= N * l
    BY <1>4, <2>1, Multiples
  <2>3. PICK c \in Nat : c = N * l
    BY <1>4, Products
  <2>4. r = c + j /\ S <= c
    BY <1>1, <1>5, <2>2, <2>3, Zenon
  <2> QED
    BY <1>1, <1>4, <2>4
<1> QED
  BY <1>1, <1>2, <1>4, <1>5, <1>6

\* What mb_block_merge writes, when the parts of the runs start at st + p and
\* md + q, and end at st + p1 and md + q1.
LEMMA MergeBlockIs ==
    ASSUME NEW w, NEW n, NEW S, NEW nb, IsJob(w, n, S, nb), size = n,
           NEW mt, merge_tiles = mt, NEW h, NEW half, NEW sz, Group(S, h, mt, half, sz),
           NEW g, NEW st, Begins(sz, g, st), NEW v, NEW b, NEW f, Member(S, mt, g, v, b, f),
           NEW a, block_partitions[b] = a, NEW a1,
           a1 = IF v = mt - 1 THEN Least(n, st + half) ELSE block_partitions[b + 1],
           NEW c, c = Least(n, (2 * st + half + f) - a), NEW c1,
           c1 = IF v = mt - 1 THEN Least(n, st + sz) ELSE Least(n, 2 * st + half + f + S - a1),
           Merges!MergeBlock(b)
    PROVE  \E e : /\ Merges!WriteBlock(b, e)
                  /\ IsMerged(e, S, MERGE_N_PER_THREAD, dev_in, a, a1 - a, c, c1 - c)
<1> DEFINE sort_sz == Merges!N_PER_BLOCK * merge_tiles
           sort_st == sort_sz * (b \div merge_tiles)
           sort_md == Merges!N_PER_BLOCK * b - sort_st
           last == b % merge_tiles = merge_tiles - 1
           both == 2 * sort_st + sort_sz \div 2 + sort_md
           A_st == block_partitions[b]
           B_st == Merges!Smaller(size, both - A_st)
           A_ed == IF last THEN Merges!Smaller(size, sort_st + sort_sz \div 2)
                   ELSE block_partitions[b + 1]
           B_ed == IF last THEN Merges!Smaller(size, sort_st + sort_sz)
                   ELSE Merges!Smaller(size, both + Merges!N_PER_BLOCK - block_partitions[b + 1])
           A_sz == A_ed - A_st
           B_sz == B_ed - B_st
           mem == [i \in 0..Merges!N_PER_BLOCK-1 |->
                     IF i < A_sz THEN dev_in[A_st + i]
                     ELSE IF i < A_sz + B_sz THEN dev_in[B_st + i - A_sz]
                     ELSE [val |-> Pad, idx |-> 0]]
           merged == [lid \in 0..MERGE_THREADS-1 |->
                        Merges!MergePart(mem, 0, A_sz, A_sz, B_sz,
                          Merges!Smaller(A_sz + B_sz, MERGE_N_PER_THREAD * lid))]
           e == [q \in 0..Merges!N_PER_BLOCK-1 |->
                   merged[q \div MERGE_N_PER_THREAD][q % MERGE_N_PER_THREAD]]
<1>1. Merges!WriteBlock(b, e)
  BY Zenon DEF Merges!MergeBlock
<1>2. \A i, j : Merges!Smaller(i, j) = Least(i, j)
  BY DEF Merges!Smaller, Least
<1>3. S = Merges!N_PER_BLOCK /\ S * mt = sz
  BY DEF IsJob, Group
<1>4. sort_sz = sz
  BY <1>3, Zenon
<1>5. S \in Nat \ {0} /\ half \in Nat /\ sz \in Nat /\ sz \div 2 = half
  BY JobIs, GroupSizes
<1>6. /\ b \div mt = g /\ b % mt = v /\ st = sz * g /\ S * b = st + f /\ f \in Nat /\ st \in Nat
  BY MemberIs
<1>7. sort_st = st
  BY <1>4, <1>6, Zenon
<1>8. (last <=> v = mt - 1) /\ sort_sz \div 2 = half
  BY <1>4, <1>5, <1>6, Zenon
<1>9. sort_md = f
  <2>1. sort_md = (st + f) - st
    BY <1>3, <1>6, <1>7, Zenon
  <2> QED
    BY <1>6, <2>1
<1> HIDE DEF sort_sz, sort_st, sort_md, last
<1>10. both = 2 * st + half + f
  BY <1>7, <1>8, <1>9, Zenon
<1>11. A_st = a
  OBVIOUS
<1>12. A_ed = a1
  BY <1>2, <1>7, <1>8, Zenon
<1> HIDE DEF both, A_st, A_ed
<1>13. B_st = c
  <2>1. B_st = Least(size, both - A_st)
    BY <1>2, Zenon
  <2>2. both - A_st = (2 * st + half + f) - a
    BY <1>10, <1>11, Zenon
  <2>3. B_st = Least(n, (2 * st + half + f) - a)
    BY <2>1, <2>2, Zenon
  <2> QED
    BY <2>3
<1>14. B_ed = c1
  <2>1. B_ed = IF v = mt - 1 THEN Least(size, st + sz)
               ELSE Least(size, both + S - block_partitions[b + 1])
    BY <1>2, <1>3, <1>4, <1>7, <1>8, Zenon
  <2>2. v # mt - 1 => a1 = block_partitions[b + 1]
    OBVIOUS
  <2> QED
    BY <1>10, <2>1, <2>2, Zenon
<1> HIDE DEF B_st, B_ed
<1>15. A_sz = a1 - a /\ B_sz = c1 - c
  BY <1>11, <1>12, <1>13, <1>14, Zenon
<1> HIDE DEF A_sz, B_sz
<1>16. IsCopy(mem, S, dev_in, a, a1 - a, c, c1 - c)
  <2>1. ASSUME NEW i \in 0..S-1, i < A_sz + B_sz
        PROVE  mem[i] = IF i < A_sz THEN dev_in[A_st + i] ELSE dev_in[B_st + i - A_sz]
    BY <1>3, <2>1
  <2>2. IsCopy(mem, S, dev_in, A_st, A_sz, B_st, B_sz)
    BY <2>1, Zenon DEF IsCopy
  <2> QED
    BY <1>11, <1>13, <1>15, <2>2, Zenon
<1> HIDE DEF mem
<1>17. ASSUME NEW r \in 0..S-1
       PROVE  e[r] = Merges!MergePart(mem, 0, a1 - a, a1 - a, c1 - c,
                       Least((a1 - a) + (c1 - c), MERGE_N_PER_THREAD * (r \div MERGE_N_PER_THREAD)))
                     [r % MERGE_N_PER_THREAD]
  <2>1. PICK l, j : l = r \div MERGE_N_PER_THREAD /\ j = r % MERGE_N_PER_THREAD
    OBVIOUS
  <2>2. l \in 0..MERGE_THREADS-1
    BY <1>3, <2>1, ThreadOf, MergesAssumption DEF Merges!N_PER_BLOCK
  <2>3. e[r] = merged[l][j]
    BY <1>3, <2>1, Zenon
  <2>4. merged[l] = Merges!MergePart(mem, 0, A_sz, A_sz, B_sz,
                      Merges!Smaller(A_sz + B_sz, MERGE_N_PER_THREAD * l))
    BY <2>2, Zenon
  <2>5. merged[l] = Merges!MergePart(mem, 0, a1 - a, a1 - a, c1 - c,
                      Least((a1 - a) + (c1 - c), MERGE_N_PER_THREAD * l))
    BY <1>2, <1>15, <2>4, Zenon
  <2> QED
    BY <2>1, <2>3, <2>5, Zenon
<1> HIDE DEF e
<1>18. IsMerged(e, S, MERGE_N_PER_THREAD, dev_in, a, a1 - a, c, c1 - c)
  BY <1>16, <1>17, Zenon DEF IsMerged
<1> QED
  BY <1>1, <1>18

\* A whole run is a part of a merge that nothing is left of.
LEMMA WholeSplits ==
    ASSUME NEW st \in Nat, NEW md \in Nat, NEW ed \in Nat, st <= md, md <= ed,
           NEW f \in Nat, ed - st <= f, NEW dev
    PROVE  SplitAt(dev, st, md, ed, f, md - st)
<1>1. PICK m, k \in Nat : m = md - st /\ k = ed - md
  OBVIOUS
<1>2. PICK s : s = Least(ed - st, f) /\ s = m + k /\ s - m = k
  BY <1>1 DEF Least
<1>3. PICK x, y : x = Held(dev, st, m) /\ y = Held(dev, md, k)
  OBVIOUS
<1>4. Splits(x, m, y, k, s, m)
  BY <1>2 DEF Splits, Split
<1> QED
  BY <1>1, <1>2, <1>3, <1>4, Zenon DEF SplitAt

\* Where a block's part of the first run ends: where the next block's starts,
\* or at the end of the run.
LEMMA BlockEnds ==
    ASSUME NEW w, NEW n, NEW S, NEW nb, IsJob(w, n, S, nb),
           NEW h, NEW mt, NEW half, NEW sz, Group(S, h, mt, half, sz),
           NEW g, NEW st, Begins(sz, g, st), NEW v, NEW b \in 0..nb-1, NEW f, Member(S, mt, g, v, b, f),
           NEW md, NEW ed, IsPair(n, half, st, md, ed), NEW dev, RunsOf(w, n, dev, half),
           NEW parts, PartsFound(parts, dev, n, S, nb, mt, half, sz)
    PROVE  \E p, p1 : /\ parts[b] = st + p /\ SplitAt(dev, st, md, ed, f, p)
                      /\ (IF v = mt - 1 THEN md ELSE parts[b + 1]) = st + p1
                      /\ SplitAt(dev, st, md, ed, f + S, p1)
<1>1. nb \in Nat \ {0} /\ n \in Nat \ {0} /\ IsLong(w, n) /\ half \in Nat /\ sz = half + half /\ g \in Nat
  BY JobIs, GroupSizes, GroupStarts DEF IsJob
<1>2. b \in 0..nb /\ b + 1 \in 0..nb
  BY <1>1
<1>3. PICK p : parts[b] = st + p /\ SplitAt(dev, st, md, ed, f, p)
  BY <1>2, Zenon DEF PartsFound
<1>4. PICK F : F = f + S
  OBVIOUS
<1>5. /\ F \in Nat
      /\ v = mt - 1 => F = sz
      /\ v # mt - 1 => Member(S, mt, g, v + 1, b + 1, F)
  <2>1. f + S \in Nat
    <3>1. f \in Nat
      BY <1>1, MembersFollow
    <3>2. S \in Nat
      BY JobIs
    <3> QED
      BY <3>1, <3>2
  <2> QED
    BY <1>1, <1>4, <2>1, MembersFollow
<1>6. \E p1 : (IF v = mt - 1 THEN md ELSE parts[b + 1]) = st + p1 /\ SplitAt(dev, st, md, ed, F, p1)
  <2>1. CASE v = mt - 1
    <3>1. st \in 0..n /\ md \in st..n /\ ed \in md..n
      BY <1>1, PairRuns
    <3>2. st \in Nat /\ md \in Nat /\ ed \in Nat /\ st <= md /\ md <= ed /\ md = st + (md - st)
      BY <1>1, <3>1
    <3>3. ed - st <= F
      BY <1>1, <1>5, <2>1, <3>2 DEF IsPair, Least
    <3>4. SplitAt(dev, st, md, ed, F, md - st)
      BY <1>5, <3>2, <3>3, WholeSplits
    <3> QED
      BY <2>1, <3>2, <3>4, Zenon
  <2>2. CASE v # mt - 1
    <3>1. PICK v1, b1 : v1 = v + 1 /\ b1 = b + 1 /\ Member(S, mt, g, v1, b1, F) /\ b1 \in 0..nb
      BY <1>2, <1>5, <2>2
    <3>2. \E p1 : parts[b1] = st + p1 /\ SplitAt(dev, st, md, ed, F, p1)
      BY <3>1, Zenon DEF PartsFound
    <3> QED
      BY <2>2, <3>1, <3>2, Zenon
  <2> QED
    BY <2>1, <2>2
<1> QED
  BY <1>3, <1>4, <1>6, Zenon

\* Two splits of the merge of two runs, and what is between them.
LEMMA BlockMerged ==
    ASSUME NEW w, NEW n, NEW S, NEW nb, IsJob(w, n, S, nb),
           NEW h, NEW mt, NEW half, NEW sz, Group(S, h, mt, half, sz),
           NEW g, NEW st, Begins(sz, g, st), NEW v, NEW b, NEW f, Member(S, mt, g, v, b, f),
           NEW md, NEW ed, IsPair(n, half, st, md, ed), NEW dev, RunsOf(w, n, dev, half),
           NEW p, SplitAt(dev, st, md, ed, f, p), NEW p1, SplitAt(dev, st, md, ed, f + S, p1),
           NEW k, k = Least(ed - st, f), NEW k1, k1 = Least(ed - st, f + S),
           NEW e, IsMerged(e, S, MERGE_N_PER_THREAD, dev, st + p, p1 - p,
                           md + (k - p), (k1 - p1) - (k - p)),
           NEW i \in st+f..st+f+S-1, i < n
    PROVE  MergedAt(Held(dev, st, md - st), md - st, Held(dev, md, ed - md), ed - md,
                    i - st, e[i - (st + f)])
<1>1. /\ S \in Nat \ {0} /\ n \in Nat \ {0} /\ half \in Nat /\ sz = half + half
      /\ IsLong(w, n) /\ g \in Nat /\ f \in Nat /\ st \in Nat /\ f + S <= sz
  <2>1. S \in Nat \ {0} /\ n \in Nat \ {0} /\ IsLong(w, n)
    BY JobIs DEF IsJob
  <2>2. half \in Nat /\ sz = half + half /\ g \in Nat /\ f \in Nat /\ st \in Nat
    BY GroupSizes, GroupStarts, MemberIs
  <2>3. f + S <= sz
    BY <2>2, MembersFollow
  <2> QED
    BY <2>1, <2>2, <2>3
<1>2. st \in 0..n /\ md \in st..n /\ ed \in md..n /\ IsSorted(w, dev, st, md) /\ IsSorted(w, dev, md, ed)
  BY <1>1, PairRuns
<1>3. PICK a, c : a = md - st /\ c = ed - md
  OBVIOUS
<1>4. a \in Nat /\ c \in Nat /\ md \in Nat /\ ed \in Nat /\ ed - st = a + c
  BY <1>1, <1>2, <1>3
<1>5. PICK x, y : x = Held(dev, st, a) /\ y = Held(dev, md, c)
  OBVIOUS
<1>6. x \in [0..a-1 -> Items] /\ y \in [0..c-1 -> Items] /\ Rising(x, a) /\ Rising(y, c)
  <2>1. md \in 0..n
    BY <1>1, <1>2
  <2>2. RunOf(x, a, w, st, md) /\ RunOf(y, c, w, md, ed)
    BY <1>1, <1>2, <1>3, <1>5, <2>1, SortedIsRun
  <2> QED
    BY <2>2 DEF RunOf
<1>7. RunsIn(dev, st, md, x, a, y, c)
  BY <1>4, <1>5 DEF RunsIn, Held
<1>8. k \in 0..a+c /\ k1 \in 0..a+c /\ k <= k1
  BY <1>1, <1>4 DEF Least
<1>9. i < ed
  BY <1>1, <1>2 DEF IsPair, Least
<1>10. k = f /\ i - st < k1 /\ k1 - k <= S
  BY <1>1, <1>2, <1>4, <1>9 DEF Least
<1>11. Splits(x, a, y, c, k, p) /\ Splits(x, a, y, c, k1, p1)
  BY <1>3, <1>5, Zenon DEF SplitAt
<1>12. PICK q, q1 : q = k - p /\ q1 = k1 - p1
  OBVIOUS
<1>13. /\ p \in 0..a /\ q \in 0..c /\ Split(x, a, y, c, p, q) /\ k = p + q
       /\ p1 \in 0..a /\ q1 \in 0..c /\ Split(x, a, y, c, p1, q1) /\ k1 = p1 + q1
  <2>1. /\ p \in 0..a /\ q \in 0..c /\ Split(x, a, y, c, p, q)
        /\ p1 \in 0..a /\ q1 \in 0..c /\ Split(x, a, y, c, p1, q1)
    BY <1>11, <1>12, Zenon DEF Splits
  <2> QED
    BY <1>8, <1>12, <2>1
<1>14. p <= p1 /\ q <= q1
  <2>1. p + q <= p1 + q1
    BY <1>8, <1>13
  <2> QED
    BY <1>4, <1>6, <1>13, <2>1, SplitsRise
<1>15. p1 \in p..a /\ q1 \in q..c
  BY <1>13, <1>14
<1>16. PICK A, B \in Nat : A = p1 - p /\ B = q1 - q
  BY <1>13, <1>14
<1>17. A + B = k1 - k
  BY <1>13, <1>16
<1>18. PICK a_st, b_st : a_st = st + p /\ b_st = md + q
  OBVIOUS
<1>19. IsMerged(e, S, MERGE_N_PER_THREAD, dev, a_st, A, b_st, B)
  BY <1>12, <1>16, <1>18, Zenon
<1>20. PICK N : N = MERGE_N_PER_THREAD
  OBVIOUS
<1>21. N \in Nat \ {0} /\ MERGE_THREADS \in Nat \ {0} /\ S = MERGE_THREADS * N
  BY <1>20, MergesAssumption DEF IsJob, Merges!N_PER_BLOCK
<1>22. PICK r \in 0..S-1 : r = i - (st + f)
  BY <1>1
<1>23. PICK l, j : l = r \div N /\ j = r % N
  OBVIOUS
<1>24. j \in 0..N-1 /\ l \in Nat /\ r = N * l + j
  <2>1. l \in 0..MERGE_THREADS-1 /\ j \in 0..N-1
    <3>1. r \div N \in 0..MERGE_THREADS-1 /\ r % N \in 0..N-1
      BY <1>21, ThreadOf
    <3> QED
      BY <1>23, <3>1
  <2>2. r = N * l + j
    <3>1. r \in Nat /\ r = N * (r \div N) + (r % N)
      <4>1. r \in Nat /\ N \in Nat \ {0}
        BY <1>1, <1>21
      <4> QED
        BY <4>1, DivMod, Zenon
    <3> QED
      BY <1>23, <3>1, Zenon
  <2> QED
    BY <1>21, <2>1, <2>2
<1>25. PICK at \in Nat : at = N * l
  BY <1>21, <1>24, Products
<1>26. r = at + j
  BY <1>24, <1>25, Zenon
<1>27. r < A + B
  BY <1>1, <1>10, <1>17, <1>22
<1>28. at \in 0..A+B /\ at + j < A + B /\ Least(A + B, at) = at
  BY <1>24, <1>26, <1>27 DEF Least
<1>29. PICK mem : /\ IsCopy(mem, S, dev, a_st, A, b_st, B)
                  /\ \A s \in 0..S-1 :
                        e[s] = Merges!MergePart(mem, 0, A, A, B, Least(A + B, N * (s \div N)))[s % N]
  BY <1>19, <1>20, Zenon DEF IsMerged
<1>30. e[r] = Merges!MergePart(mem, 0, A, A, B, at)[j]
  <2>1. e[r] = Merges!MergePart(mem, 0, A, A, B, Least(A + B, N * (r \div N)))[r % N]
    BY <1>22, <1>29, Zenon
  <2> QED
    BY <1>23, <1>25, <1>28, <2>1, Zenon
<1>31. PICK z : z = i - st
  OBVIOUS
<1>32. z = p + q + (at + j)
  BY <1>1, <1>10, <1>13, <1>22, <1>26, <1>31
<1>33. MergedAt(x, a, y, c, z, Merges!MergePart(mem, 0, A, A, B, at)[j])
  <2>1. A = p1 - p /\ B = q1 - q /\ A + B <= S /\ S \in Nat /\ N \in Nat /\ j \in Nat /\ j < N
    BY <1>1, <1>10, <1>16, <1>17, <1>21, <1>24
  <2>2. /\ Split(x, a, y, c, p, q) /\ Split(x, a, y, c, p1, q1)
        /\ p \in 0..a /\ q \in 0..c /\ IsCopy(mem, S, dev, a_st, A, b_st, B)
    BY <1>13, <1>29
  <2> QED
    BY <1>1, <1>4, <1>6, <1>7, <1>15, <1>18, <1>20, <1>28, <1>32, <2>1, <2>2, ShareMerges
<1> QED
  BY <1>3, <1>5, <1>22, <1>30, <1>31, <1>33, Zenon

LEMMA PartEnds ==
    ASSUME NEW n \in Nat, NEW half \in Nat, NEW st \in Nat, NEW md, NEW ed,
           IsPair(n, half, st, md, ed), NEW f \in Nat, f <= half + half,
           NEW dev, NEW p, SplitAt(dev, st, md, ed, f, p), NEW k, k = Least(ed - st, f)
    PROVE  Least(n, st + half + f - p) = md + (k - p)
<1>1. st < n /\ md = Least(n, st + half) /\ ed = Least(n, st + half + half)
  BY DEF IsPair
<1>2. p \in 0..md-st /\ k - p \in 0..ed-md
  BY Zenon DEF SplitAt, Splits
<1> QED
  BY <1>1, <1>2, SecondEnds

\* mb_block_merge writes the block's part of the merge of the two runs.
LEMMA MergeBlockWrites ==
    ASSUME NEW w, NEW n, NEW S, NEW nb, IsJob(w, n, S, nb), size = n,
           NEW h, NEW mt, NEW half, NEW sz, MergeLevel(w, n, S, nb, h, mt, half, sz),
           NEW g, NEW st, Begins(sz, g, st), NEW v, NEW b \in 0..nb-1, NEW f, Member(S, mt, g, v, b, f),
           NEW md, NEW ed, IsPair(n, half, st, md, ed), Merges!MergeBlock(b)
    PROVE  \E e : /\ Merges!WriteBlock(b, e)
                  /\ \A i \in st+f..st+f+S-1 : i < n =>
                        MergedAt(Held(dev_in, st, md - st), md - st, Held(dev_in, md, ed - md), ed - md,
                                 i - st, e[i - (st + f)])
<1>0. merge_tiles = mt
  BY DEF MergeLevel
<1>1. Group(S, h, mt, half, sz) /\ RunsOf(w, n, dev_in, half)
  BY DEF MergeLevel
<1>f. PartsFound(block_partitions, dev_in, n, S, nb, mt, half, sz)
  BY DEF MergeLevel
<1>2. PICK p, p1 : /\ block_partitions[b] = st + p /\ SplitAt(dev_in, st, md, ed, f, p)
                   /\ (IF v = mt - 1 THEN md ELSE block_partitions[b + 1]) = st + p1
                   /\ SplitAt(dev_in, st, md, ed, f + S, p1)
  BY <1>1, <1>f, BlockEnds
<1>3. /\ S \in Nat \ {0} /\ n \in Nat \ {0} /\ half \in Nat /\ sz = half + half /\ g \in Nat
      /\ f \in Nat /\ st \in Nat /\ f + S <= sz /\ (v = mt - 1 => f + S = sz)
  <2>1. S \in Nat \ {0} /\ n \in Nat \ {0}
    BY JobIs
  <2>2. half \in Nat /\ sz = half + half /\ g \in Nat /\ f \in Nat /\ st \in Nat
    BY <1>1, GroupSizes, GroupStarts, MemberIs
  <2>3. f + S <= sz
    BY <1>1, <2>2, MembersFollow
  <2>4. v = mt - 1 => f + S = sz
    <3>1. Group(S, h, mt, half, sz) /\ g \in Nat
      BY <1>1, <2>2
    <3>2. /\ f \in Nat /\ f + S <= sz
          /\ v = mt - 1 => f + S = sz
          /\ v # mt - 1 => Member(S, mt, g, v + 1, b + 1, f + S)
      BY <3>1, MembersFollow, Zenon
    <3> QED
      BY <3>2
  <2> QED
    BY <2>1, <2>2, <2>3, <2>4
<1>4. /\ st < n /\ md = Least(n, st + half) /\ ed = Least(n, st + half + half)
      /\ md \in Nat /\ ed \in Nat /\ st <= md /\ md <= ed
  BY <1>3 DEF IsPair, Least
<1>n. n \in Nat
  BY <1>3
<1>5. PICK k, k1, F : k = Least(ed - st, f) /\ F = f + S /\ k1 = Least(ed - st, F)
  OBVIOUS
<1>6. p \in 0..md-st /\ k - p \in 0..ed-md /\ p1 \in 0..md-st /\ k1 - p1 \in 0..ed-md
  BY <1>2, <1>5, Zenon DEF SplitAt, Splits
<1>7. k \in Nat /\ k1 \in Nat /\ F \in Nat /\ p \in Nat /\ p1 \in Nat
  BY <1>3, <1>4, <1>5, <1>6 DEF Least
<1>8. PICK a, a1 : /\ a = block_partitions[b]
                   /\ a1 = IF v = mt - 1 THEN Least(n, st + half) ELSE block_partitions[b + 1]
  OBVIOUS
<1>9. a = st + p /\ a1 = st + p1
  BY <1>2, <1>4, <1>8, Zenon
<1>10. PICK c, c1 : /\ c = Least(n, (2 * st + half + f) - a)
                    /\ c1 = IF v = mt - 1 THEN Least(n, st + sz)
                            ELSE Least(n, 2 * st + half + f + S - a1)
  OBVIOUS
<1>11. c = md + (k - p)
  <2>1. Least(n, st + half + f - p) = md + (k - p)
    <3>1. f <= half + half
      BY <1>3
    <3> QED
      BY <1>2, <1>3, <1>5, <1>n, <3>1, PartEnds
  <2>2. (2 * st + half + f) - a = st + half + f - p
    BY <1>3, <1>7, <1>9
  <2> QED
    BY <1>10, <2>1, <2>2, Zenon
<1>12. c1 = md + (k1 - p1)
  <2>1. CASE v = mt - 1
    <3>1. c1 = ed
      BY <1>3, <1>4, <1>10, <2>1 DEF Least
    <3>2. k1 = ed - st /\ md = st + p1
      BY <1>2, <1>3, <1>4, <1>5, <2>1 DEF Least
    <3> QED
      BY <1>3, <1>4, <1>7, <3>1, <3>2
  <2>2. CASE v # mt - 1
    <3>1. Least(n, st + half + F - p1) = md + (k1 - p1)
      <4>1. F <= half + half
        BY <1>3, <1>5
      <4> QED
        BY <1>2, <1>3, <1>5, <1>7, <1>n, <4>1, PartEnds
    <3>2. 2 * st + half + f + S - a1 = st + half + F - p1
      BY <1>3, <1>5, <1>7, <1>9
    <3> QED
      BY <1>10, <2>2, <3>1, <3>2, Zenon
  <2> QED
    BY <2>1, <2>2
<1>13. PICK e : /\ Merges!WriteBlock(b, e)
                /\ IsMerged(e, S, MERGE_N_PER_THREAD, dev_in, a, a1 - a, c, c1 - c)
  BY <1>0, <1>1, <1>8, <1>10, MergeBlockIs
<1>14. a1 - a = p1 - p /\ c1 - c = (k1 - p1) - (k - p)
  BY <1>3, <1>4, <1>7, <1>9, <1>11, <1>12
<1>15. IsMerged(e, S, MERGE_N_PER_THREAD, dev_in, st + p, p1 - p, md + (k - p), (k1 - p1) - (k - p))
  BY <1>9, <1>11, <1>13, <1>14, Zenon
<1>16. ASSUME NEW i \in st+f..st+f+S-1, i < n
       PROVE  MergedAt(Held(dev_in, st, md - st), md - st, Held(dev_in, md, ed - md), ed - md,
                       i - st, e[i - (st + f)])
  BY <1>1, <1>2, <1>5, <1>15, <1>16, BlockMerged
<1> QED
  BY <1>13, <1>16

LEMMA MergeBlockKeeps ==
    ASSUME NEW w, NEW n, NEW S, NEW nb, IsJob(w, n, S, nb), MergeInv(w, n, S, nb),
           NEW b, Merges!MergeBlock(b)
    PROVE  MergeInv(w, n, S, nb)'
<1>1. size = n /\ row = w /\ written \subseteq 0..nb-1
  BY DEF MergeInv
<1>2. /\ S \in Nat \ {0} /\ n \in Nat \ {0} /\ nb \in Nat \ {0} /\ S = Merges!N_PER_BLOCK
      /\ \A c, at : BlockAt(S, c, at) => (c < nb <=> at < n)
      /\ Merges!Blocks = 0..nb-1
  BY <1>1, JobIs DEF IsJob
<1>3. merge_tiles > 1 /\ \E e : Merges!WriteBlock(b, e)
  BY Zenon DEF Merges!MergeBlock
<1>4. b \in 0..nb-1 /\ b \in Nat
  BY <1>2, <1>3 DEF Merges!WriteBlock
<1>5. PICK h, mt, half, sz : MergeLevel(w, n, S, nb, h, mt, half, sz)
  <2>1. merge_tiles # 1
    BY <1>3
  <2> QED
    BY <2>1 DEF MergeInv, FirstLevel
<1>6. /\ merge_tiles = mt /\ Group(S, h, mt, half, sz) /\ RunsOf(w, n, dev_in, half)
      /\ PartsFound(block_partitions, dev_in, n, S, nb, mt, half, sz)
      /\ BlocksMerged(written, dev_in, dev_out, n, S, mt, half, sz)
  BY <1>5 DEF MergeLevel
<1>7. PICK g, st, v, f : Begins(sz, g, st) /\ Member(S, mt, g, v, b, f)
  BY <1>4, <1>6, MemberExists
<1>8. /\ b \div mt = g /\ b % mt = v /\ st = sz * g /\ f = S * v /\ f \in Nat /\ st \in Nat
      /\ S * b = st + f
  BY <1>6, <1>7, MemberIs
<1>9. PICK at \in Nat : at = st + f
  BY <1>8
<1>10. BlockAt(S, b, at) /\ at < n
  <2>1. BlockAt(S, b, at)
    BY <1>4, <1>8, <1>9, Zenon DEF BlockAt
  <2> QED
    BY <1>2, <1>4, <2>1
<1>11. PICK md, ed : md = Least(n, st + half) /\ ed = Least(n, st + half + half)
  OBVIOUS
<1>12. IsPair(n, half, st, md, ed)
  BY <1>2, <1>8, <1>9, <1>10, <1>11 DEF IsPair
<1>13. PICK e : /\ Merges!WriteBlock(b, e)
                /\ \A i \in st+f..st+f+S-1 : i < n =>
                      MergedAt(Held(dev_in, st, md - st), md - st, Held(dev_in, md, ed - md), ed - md,
                               i - st, e[i - (st + f)])
  BY <1>1, <1>4, <1>5, <1>7, <1>12, MergeBlockWrites
<1>14. Wrote(n, S, nb, b, e)
  BY <1>1, <1>13, BlockIsWritten
<1>15. /\ written' = written \union {b}
       /\ UNCHANGED <<row, size, merge_tiles, block_partitions, dev_in>>
  BY <1>14 DEF Wrote
<1>16. PICK old, new : old = dev_in /\ new = dev_out'
  OBVIOUS
<1>17. ASSUME NEW i \in at..at+S-1, i < n PROVE MergedInto(old, new, st, md, ed, i)
  <2>1. new[i] = e[i - at]
    BY <1>2, <1>10, <1>14, <1>16, <1>17, OwnPlaces
  <2>2. MergedAt(Held(old, st, md - st), md - st, Held(old, md, ed - md), ed - md, i - st, e[i - at])
    BY <1>9, <1>13, <1>16, <1>17, Zenon
  <2> QED
    BY <2>1, <2>2, Zenon DEF MergedInto
<1>18. BlocksMerged(written', old, new, n, S, mt, half, sz)
  <2> SUFFICES ASSUME NEW c \in written', NEW g1, NEW st1, NEW v1, NEW f1, NEW md1, NEW ed1,
                      Begins(sz, g1, st1), Member(S, mt, g1, v1, c, f1),
                      IsPair(n, half, st1, md1, ed1),
                      NEW i \in st1+f1..st1+f1+S-1, i < n
               PROVE  MergedInto(old, new, st1, md1, ed1, i)
    BY Zenon DEF BlocksMerged
  <2>1. CASE c = b
    <3>1. b \div mt = g1 /\ b % mt = v1 /\ st1 = sz * g1 /\ f1 = S * v1
      BY <1>6, <2>1, MemberIs
    <3>2. st1 = st /\ f1 = f
      BY <1>8, <3>1, Zenon
    <3>3. md1 = md /\ ed1 = ed
      BY <1>11, <3>2, Zenon DEF IsPair
    <3>4. i \in at..at+S-1
      BY <1>9, <3>2
    <3> QED
      BY <1>17, <3>2, <3>3, <3>4
  <2>2. CASE c # b
    <3>1. c \in written /\ c \in Nat
      BY <1>1, <1>15, <2>2
    <3>2. S * c = st1 + f1 /\ st1 \in Nat /\ f1 \in Nat
      BY <1>6, MemberIs
    <3>3. PICK u \in Nat : u = st1 + f1
      BY <3>2
    <3>4. BlockAt(S, c, u)
      BY <3>1, <3>2, <3>3, Zenon DEF BlockAt
    <3>5. i \in u..u+S-1
      BY <3>3
    <3>6. new[i] = dev_out[i]
      BY <1>2, <1>14, <1>16, <2>2, <3>4, <3>5, OthersStay
    <3>7. MergedInto(dev_in, dev_out, st1, md1, ed1, i)
      BY <1>6, <3>1, Zenon DEF BlocksMerged
    <3> QED
      BY <1>16, <3>6, <3>7, Zenon DEF MergedInto
  <2> QED
    BY <2>1, <2>2
<1>19. MergeLevel(w, n, S, nb, h, mt, half, sz)'
  BY <1>6, <1>15, <1>16, <1>18 DEF MergeLevel
<1>20. (row = w /\ size = n /\ written \subseteq 0..nb-1)'
  BY <1>1, <1>4, <1>15
<1> QED
  BY <1>19, <1>20 DEF MergeInv

LEMMA MergeSteps ==
    ASSUME NEW w, NEW n, NEW S, NEW nb, IsJob(w, n, S, nb), MergeInv(w, n, S, nb), Merges!Next
    PROVE  MergeInv(w, n, S, nb)'
BY SortBlockKeeps, LaunchKeeps, MergeBlockKeeps DEF Merges!Next

LEMMA MergeStutters ==
    ASSUME NEW w, NEW n, NEW S, NEW nb, MergeInv(w, n, S, nb), UNCHANGED Merges!vars
    PROVE  MergeInv(w, n, S, nb)'
<1> UNCHANGED <<row, size, merge_tiles, block_partitions, dev_in, dev_out, written>>
  BY DEF Merges!vars
<1> QED
  BY DEF MergeInv, FirstLevel, MergeLevel

\* When no merge is left, one run holds the row.
LEMMA MergeInvIsSorted ==
    ASSUME NEW w, NEW n, NEW S, NEW nb, IsJob(w, n, S, nb), MergeInv(w, n, S, nb)
    PROVE  Merges!RowIsSorted
<1> SUFFICES ASSUME Merges!Finished PROVE Merges!IsStableSort(row, size, dev_out)
  BY DEF Merges!RowIsSorted
<1>1. row = w /\ size = n
  BY DEF MergeInv
<1>2. /\ S \in Nat \ {0} /\ n \in Nat \ {0} /\ nb \in Nat \ {0} /\ n <= S * nb /\ IsLong(w, n)
      /\ Merges!Blocks = 0..nb-1 /\ Merges!n_blocks = nb
  BY <1>1, JobIs DEF IsJob
<1>3. PICK mt, sz : mt = merge_tiles /\ sz = S * mt
  OBVIOUS
<1>4. written = 0..nb-1 /\ mt >= nb
  BY <1>2, <1>3 DEF Merges!Finished
<1>5. mt \in Nat \ {0} /\ RunsOf(w, n, dev_out, sz)
  BY <1>3, <1>4, LevelSorts
<1>6. sz \in Nat /\ n <= sz
  <2>1. sz \in Nat
    BY <1>2, <1>3, <1>5, Products
  <2>2. S * nb <= S * mt
    BY <1>2, <1>4, <1>5, Multiples
  <2>3. PICK c \in Nat : c = S * nb
    BY <1>2, Products
  <2>4. n <= c /\ c <= sz
    BY <1>2, <1>3, <2>2, <2>3, Zenon
  <2> QED
    BY <1>2, <2>1, <2>3, <2>4
<1>7. IsSorted(w, dev_out, 0, n)
  <2>1. Begins(sz, 0, 0)
    BY <1>6 DEF Begins
  <2>2. IsSorted(w, dev_out, Least(n, 0), Least(n, 0 + sz))
    BY <1>5, <2>1, Zenon DEF RunsOf
  <2>3. Least(n, 0) = 0 /\ Least(n, 0 + sz) = n
    BY <1>2, <1>6 DEF Least
  <2> QED
    BY <2>2, <2>3, Zenon
<1>8. /\ \A i \in 0..n-1 : \E j \in 0..n-1 : dev_out[i] = Source(w, j)
      /\ \A i, j \in 0..n-1 : i < j => Precedes(dev_out[i], dev_out[j])
  BY <1>7 DEF IsSorted
<1>9. \A i \in 0..n-2 : Precedes(dev_out[i], dev_out[i+1])
  BY <1>2, <1>8
<1>10. \A i \in 0..n-1 : dev_out[i] \in {[val |-> w[k], idx |-> k] : k \in 0..n-1}
  BY <1>8 DEF Source
<1> QED
  BY <1>1, <1>9, <1>10 DEF Merges!IsStableSort, Merges!LessThan, Precedes

RowInv == part = "merges" => \E w, n, S, nb : IsJob(w, n, S, nb) /\ MergeInv(w, n, S, nb)

\* A row longer than a block is sorted, and equal values keep their order, for every
\* number of threads, elements of a thread and row of integers: wherever the
\* row and the runs end, and in whatever order the threadgroups write their blocks.
THEOREM RowsAreSorted == KernelSpec => []RowIsSorted
<1>1. KernelInit => RowInv
  BY MergesStart DEF KernelInit, RowInv
<1>2. RowInv /\ [KernelNext]_KernelVars => RowInv'
  <2> SUFFICES ASSUME RowInv, [KernelNext]_KernelVars, part' = "merges"
               PROVE  \E w, n, S, nb : IsJob(w, n, S, nb) /\ MergeInv(w, n, S, nb)'
    BY DEF RowInv
  <2>1. part = "merges"
    BY DEF KernelNext, KernelVars
  <2>2. PICK w, n, S, nb : IsJob(w, n, S, nb) /\ MergeInv(w, n, S, nb)
    BY <2>1 DEF RowInv
  <2>3. Merges!Next \/ UNCHANGED Merges!vars
    BY <2>1 DEF KernelNext, KernelVars, mergeVars, Merges!vars
  <2> QED
    BY <2>2, <2>3, MergeSteps, MergeStutters
<1>3. RowInv => RowIsSorted
  BY MergeInvIsSorted DEF RowInv, RowIsSorted
<1> QED
  BY <1>1, <1>2, <1>3, PTL DEF KernelSpec
=============================================================================
