---------------------------- MODULE PackedAtomics ----------------------------
(***************************************************************************)
(* The atomic updates of the Metal kernels (mlx-generated/metal/atomic.h). *)
(*                                                                         *)
(* The device has atomics on words.  An element smaller than a word shares *)
(* its word with its neighbours and is updated by a loop around a weak     *)
(* compare-and-exchange of the whole word; so is a word-sized element for  *)
(* the operations the device lacks.  A weak exchange may fail for no       *)
(* reason, and one of floats never succeeds while a NaN is involved.       *)
(***************************************************************************)
EXTENDS Integers

CONSTANTS
    Threads,
    Types,           \* element types: elements in a word, and whether floats
    Length,          \* elements of the buffer
    Width,           \* elements hold 0 .. Width-1 and wrap around
    And(_, _), Or(_, _),
    NaN,
    Initial,         \* what elements may hold at first
    Updates,         \* the operands of the calls
    MaxCalls,        \* bound of the calls of a thread
    Idle

Number == 0..Width-1

ASSUME AtomicsAssumption ==
    /\ \A type \in Types : type.packing \in Nat \ {0} /\ type.float \in BOOLEAN
    /\ \A type \in Types : type.float => type.packing = 1
    /\ Length \in Nat /\ Width \in Nat \ {0} /\ MaxCalls \in Nat
    /\ NaN \notin Number
    /\ Initial \subseteq Number \union {NaN}
    /\ Updates \subseteq Number \union {NaN}

\* The identities that leave the neighbours in a word alone.
ASSUME BitsAssumption ==
    /\ \A x \in Number : And(Width - 1, x) = x /\ Or(0, x) = x
    /\ \A x, y \in Number : {And(x, y), Or(x, y)} \subseteq Number

VARIABLES
    type,        \* of the buffer's elements
    memory,      \* its words
    request,     \* the call each thread is in
    expected,    \* the word each thread's loop expects, Idle before it
    calls        \* calls each thread has made

vars == <<type, memory, request, expected, calls>>

ValuesOf(ty) == IF ty.float THEN Number \union {NaN} ELSE Number
Offsets == 0..Length-1
Words == 0..(Length - 1) \div type.packing
Elems == 0..type.packing-1
Word(offset) == offset \div type.packing
Elem(offset) == offset % type.packing

Ops == {"store", "and", "or", "min", "max", "add", "mul"}

\* Floats have no bitwise operations.
OpsOf(ty) == IF ty.float THEN Ops \ {"and", "or"} ELSE Ops
Requests == [op : Ops, val : Updates, offset : Offsets]

Init ==
    /\ type \in Types
    /\ memory \in [Words -> [Elems -> Initial \intersect ValuesOf(type)]]
    /\ request = [t \in Threads |-> Idle]
    /\ expected = [t \in Threads |-> Idle]
    /\ calls = [t \in Threads |-> 0]

-----------------------------------------------------------------------------
\* No comparison with a NaN holds.
Less(a, b) == a # NaN /\ b # NaN /\ a < b

Numeric(a, b, n) == IF NaN \in {a, b} THEN NaN ELSE n % Width

\* What the operation makes of its operand a and the element b.
Apply(op, a, b) ==
    CASE op = "store" -> a
      [] op = "and" -> And(a, b)
      [] op = "or" -> Or(a, b)
      [] op = "min" -> IF Less(a, b) THEN a ELSE b
      [] op = "max" -> IF Less(b, a) THEN a ELSE b
      [] op = "add" -> Numeric(a, b, a + b)
      [] op = "mul" -> Numeric(a, b, a * b)

\* The device performs the operation itself.
Native(op) ==
    IF type.packing > 1 THEN op \in {"and", "or"}
    ELSE op # "mul" /\ ~(type.float /\ op \in {"min", "max"})

\* Op::condition, and the loops of min and max of floats: whether there is
\* anything to exchange.
Condition(op, a, b) ==
    CASE op = "mul" /\ type.packing > 1 -> b # 0
      [] op = "min" -> Less(a, b)
      [] op = "max" -> Less(b, a)
      [] OTHER -> TRUE

\* The word with one element changed.
Helper(word, op, a, elem) == [word EXCEPT ![elem] = Apply(op, a, @)]

-----------------------------------------------------------------------------
Call(t) ==
    /\ request[t] = Idle /\ calls[t] < MaxCalls
    /\ \E r \in Requests :
          /\ r.op \in OpsOf(type) /\ r.val \in ValuesOf(type)
          /\ request' = [request EXCEPT ![t] = r]
    /\ calls' = [calls EXCEPT ![t] = @ + 1]
    /\ UNCHANGED <<type, memory, expected>>

Return(t) ==
    /\ request' = [request EXCEPT ![t] = Idle]
    /\ expected' = [expected EXCEPT ![t] = Idle]

\* The loop meets a word: it goes on expecting it, or has nothing to do.
Meet(t, word, again) ==
    LET r == request[t]  b == word[Elem(r.offset)] IN
    IF again /\ Condition(r.op, r.val, b)
      THEN expected' = [expected EXCEPT ![t] = word] /\ UNCHANGED request
      ELSE Return(t)

Load(t) ==
    /\ request[t] # Idle /\ expected[t] = Idle
    /\ ~Native(request[t].op)
    /\ Meet(t, memory[Word(request[t].offset)], TRUE)
    /\ UNCHANGED <<type, memory, calls>>

\* Faulty: the neighbours in the word are cleared.
MaskFaulty(op, a, elem) == [e \in Elems |-> IF e = elem THEN a ELSE 0]

\* The operand and's and or's apply to the whole word.
Mask(op, a, elem) ==
    [e \in Elems |->
        IF e = elem THEN a ELSE IF op = "and" THEN Width - 1 ELSE 0]

\* One instruction of the device.
Fetch(t) ==
    LET r == request[t]  w == Word(r.offset)
        mask == Mask(r.op, r.val, Elem(r.offset))
    IN
    /\ r # Idle /\ Native(r.op)
    /\ memory' = [memory EXCEPT ![w] =
                    IF type.packing > 1
                      THEN [e \in Elems |-> Apply(r.op, mask[e], @[e])]
                      ELSE Helper(@, r.op, r.val, 0)]
    /\ Return(t)
    /\ UNCHANGED <<type, calls>>

\* The exchange compares bits; with floats it compares numbers.
Matches(word, t) ==
    /\ word = expected[t]
    /\ type.float => word[0] # NaN

Exchange(t) ==
    LET r == request[t]  w == Word(r.offset) IN
    /\ r # Idle /\ expected[t] # Idle
    /\ Matches(memory[w], t)
    /\ memory' = [memory EXCEPT ![w] = Helper(expected[t], r.op, r.val, Elem(r.offset))]
    /\ Return(t)
    /\ UNCHANGED <<type, calls>>

\* Faulty: the loop spins while a NaN is in memory.
GiveUpFaulty(op, word) == FALSE

\* A product with a NaN in memory is the NaN that is there.
GiveUp(op, word) == op = "mul" /\ type.float /\ word[0] = NaN

\* The exchange fails, perhaps for no reason, and returns the word it met.
FailExchange(t) ==
    LET r == request[t]  word == memory[Word(r.offset)] IN
    /\ r # Idle /\ expected[t] # Idle
    /\ Meet(t, word, ~GiveUp(r.op, word))
    /\ UNCHANGED <<type, memory, calls>>

Step(t) == Load(t) \/ Fetch(t) \/ Exchange(t) \/ FailExchange(t)

Next == \E t \in Threads : Call(t) \/ Step(t)

Spec == Init /\ [][Next]_vars

\* A thread of the kernel keeps running, and its exchange does not fail for
\* ever without a reason.
Fairness == \A t \in Threads : WF_vars(Step(t)) /\ WF_vars(Exchange(t))

FairSpec == Spec /\ Fairness

-----------------------------------------------------------------------------
TypeOK ==
    /\ type \in Types
    /\ memory \in [Words -> [Elems -> ValuesOf(type)]]
    /\ request \in [Threads -> [op : OpsOf(type), val : Updates \intersect ValuesOf(type),
                                offset : Offsets] \union {Idle}]
    /\ expected \in [Threads -> [Elems -> ValuesOf(type)] \union {Idle}]
    /\ \A t \in Threads : expected[t] # Idle => request[t] # Idle /\ ~Native(request[t].op)
    /\ calls \in [Threads -> 0..MaxCalls]

(* The elements of the buffer.                                             *)
Cells == [o \in Offsets |-> memory[Word(o)][Elem(o)]]

Array == INSTANCE AtomicArray WITH
    Values <- Number \union {NaN}, cells <- Cells

(* Each update of an element takes effect at once and exactly once, and no *)
(* update of a neighbour in the same word is lost, though the loop works   *)
(* on a copy of the word and may find another one when it exchanges it.    *)
UpdatesAreAtomic == Array!Spec

(* Every update returns, also when a NaN in memory lets no exchange of its *)
(* word succeed (atomic.h:98).                                             *)
EveryUpdateReturns == \A t \in Threads : request[t] # Idle ~> request[t] = Idle
=============================================================================
