------------------------- MODULE ConcurrentLoadProofs -------------------------
(***************************************************************************)
(* What TLAPS proves of the concurrent load, for any number of files and   *)
(* any headers.  Sequences built by recursion are reasoned about by the    *)
(* least index at which a claim about them would fail.                     *)
(***************************************************************************)
EXTENDS ConcurrentLoad, FiniteSetTheorems, TLAPS

-----------------------------------------------------------------------------
(* Numbers and sequences.                                                  *)

LEMMA LeastOf ==
    ASSUME NEW T, T \subseteq Nat, T # {}
    PROVE  \E m \in T : \A n \in T : m <= n
<1> DEFINE Less == {p \in Nat \X Nat : p[1] < p[2]}
<1>1. IsWellFoundedOn(OpToRel(<, Nat), Nat)
  BY NatLessThanWellFounded, Zenon
<1>2. OpToRel(<, Nat) = Less
  BY Zenon DEF OpToRel
<1>3. IsWellFoundedOn(Less, Nat)
  BY <1>1, <1>2, Zenon
<1> HIDE DEF Less
<1>4. PICK m \in T : \A n \in T : ~(<<n, m>> \in Less)
  BY <1>3, WFMin
<1>5. \A i, j \in Nat : <<i, j>> \in Less <=> i < j
  BY DEF Less
<1>6. ASSUME NEW n \in T PROVE m <= n
  <2>1. ~(n < m)
    BY <1>4, <1>5
  <2> QED
    BY <2>1
<1> QED
  BY <1>6

\* What holds of 0, and of n + 1 if of n < N, holds of all numbers to N.
LEMMA UpTo ==
    ASSUME NEW N \in Nat, NEW Holds, 0 \in Holds,
           \A n \in 0..N-1 : n \in Holds => n + 1 \in Holds
    PROVE  0..N \subseteq Holds
<1> SUFFICES ASSUME (0..N) \ Holds # {} PROVE FALSE
  OBVIOUS
<1>1. PICK m \in (0..N) \ Holds : \A n \in (0..N) \ Holds : m <= n
  <2>1. (0..N) \ Holds \subseteq Nat
    OBVIOUS
  <2> QED
    BY <2>1, LeastOf
<1>2. m # 0 /\ m \in Nat
  BY <1>1
<1>3. m - 1 \in 0..N-1 /\ m - 1 < m
  BY <1>1, <1>2
<1>4. m - 1 \in Holds
  BY <1>1, <1>3
<1> QED
  BY <1>1, <1>2, <1>3, <1>4

LEMMA MaxOf ==
    ASSUME NEW N \in Nat, NEW S \in SUBSET (0..N), S # {}
    PROVE  Max(S) \in S /\ \A i \in S : i <= Max(S)
<1>0. \A i \in S : i \in Nat /\ i <= N
  OBVIOUS
<1>1. PICK m \in {N - i : i \in S} : \A n \in {N - i : i \in S} : m <= n
  <2>1. \A i \in S : N - i \in Nat
    BY <1>0
  <2>2. {N - i : i \in S} \subseteq Nat /\ {N - i : i \in S} # {}
    BY <2>1
  <2> QED
    BY <2>2, LeastOf
<1>2. PICK last \in S : m = N - last
  BY <1>1
<1>3. ASSUME NEW i \in S PROVE last >= i
  <2>1. i \in Nat /\ last \in Nat /\ N - last <= N - i
    BY <1>0, <1>1, <1>2
  <2> QED
    BY <2>1
<1>4. \E x \in S : \A y \in S : x >= y
  BY <1>3
<1>5. Max(S) \in S /\ \A i \in S : Max(S) >= i
  BY <1>4, Zenon DEF Max
<1> QED
  BY <1>0, <1>5

LEMMA AllOf ==
    ASSUME NEW S, IsFiniteSet(S), NEW q \in Seq(S), IsInjective(q), Len(q) = Cardinality(S)
    PROVE  ToSet(q) = S
<1>1. DOMAIN q = 1..Len(q) /\ Len(q) \in Nat
  OBVIOUS
<1>2. q \in Injection(1..Len(q), S)
  BY DEF Injection
<1>3. Cardinality(1..Len(q)) = Cardinality(S)
  BY <1>1, FS_Interval
<1>4. q \in Surjection(1..Len(q), S)
  BY <1>2, <1>3, FS_Injection
<1> QED
  BY <1>1, <1>4 DEF Surjection, ToSet

LEMMA Permutation ==
    ASSUME NEW S, IsFiniteSet(S), NEW q \in SetToSeqs(S)
    PROVE  q \in Seq(S) /\ IsInjective(q) /\ Len(q) = Cardinality(S) /\ ToSet(q) = S
<1>1. Cardinality(S) \in Nat
  BY FS_CardinalityType
<1>2. q \in [1..Cardinality(S) -> S] /\ IsInjective(q)
  BY <1>1 DEF SetToSeqs, IsInjective
<1>3. q \in Seq(S) /\ Len(q) = Cardinality(S)
  BY <1>1, <1>2
<1> QED
  BY <1>2, <1>3, AllOf

LEMMA TwiceReversed ==
    ASSUME NEW S, NEW s \in Seq(S)
    PROVE  Reverse(Reverse(s)) = s
<1>1. PICK n \in Nat : n = Len(s)
  OBVIOUS
<1>2. PICK r : r = Reverse(s)
  OBVIOUS
<1>3. r = [i \in 1..n |-> s[(n - i) + 1]]
  BY <1>1, <1>2 DEF Reverse
<1>4. r \in Seq(S) /\ Len(r) = n
  BY <1>1, <1>3
<1>5. Reverse(r) = [i \in 1..n |-> r[(n - i) + 1]]
  BY <1>4 DEF Reverse
<1>6. ASSUME NEW i \in 1..n PROVE r[(n - i) + 1] = s[i]
  <2>1. (n - i) + 1 \in 1..n /\ (n - ((n - i) + 1)) + 1 = i
    OBVIOUS
  <2> QED
    BY <1>3, <2>1
<1>7. Reverse(r) = [i \in 1..n |-> s[i]]
  BY <1>5, <1>6
<1> QED
  BY <1>1, <1>2, <1>7

-----------------------------------------------------------------------------
(* The evaluation order.                                                   *)

\* Each file has its own tensors, each once.
OwnTensors(orders) ==
    /\ DOMAIN orders = Files
    /\ \A f \in Files : orders[f] \in Seq({f} \X Names) /\ IsInjective(orders[f])

\* s has the tensors of the first i files, file by file, in the files' orders.
InOrder(s, orders, i) ==
    /\ s \in Seq(Files \X Names)
    /\ \A a \in DOMAIN s : \E f \in 1..i : \E k \in DOMAIN orders[f] : s[a] = orders[f][k]
    /\ \A f \in 1..i : \A k \in DOMAIN orders[f] : \E a \in DOMAIN s : s[a] = orders[f][k]
    /\ \A a, b \in DOMAIN s :
          a < b => \/ s[a][1] < s[b][1]
                   \/ \E f \in 1..i : \E j, k \in DOMAIN orders[f] :
                         j < k /\ s[a] = orders[f][j] /\ s[b] = orders[f][k]

LEMMA OneMoreFile ==
    ASSUME NEW orders, OwnTensors(orders), NEW i \in 0..NumFiles-1,
           NEW s, InOrder(s, orders, i), NEW t, t = s \o orders[i + 1]
    PROVE  InOrder(t, orders, i + 1)
<1>0. NumFiles \in Nat
  BY LoadAssumption
<1>f. i + 1 \in Files /\ 1..i \subseteq Files /\ i \in Nat
  BY <1>0 DEF Files
<1>1. PICK o : o = orders[i + 1]
  OBVIOUS
<1>2. o \in Seq({i + 1} \X Names)
  BY <1>1, <1>f DEF OwnTensors
<1>3. o \in Seq(Files \X Names)
  BY <1>2, <1>f
<1>4. s \in Seq(Files \X Names)
  BY DEF InOrder
<1>5. PICK m \in Nat, n \in Nat : m = Len(s) /\ n = Len(o)
  BY <1>3, <1>4
<1>6. /\ t \in Seq(Files \X Names) /\ Len(t) = m + n
      /\ \A a \in 1..m : t[a] = s[a]
      /\ \A k \in 1..n : t[m + k] = o[k]
  BY <1>1, <1>3, <1>4, <1>5
<1>7. DOMAIN s = 1..m /\ DOMAIN o = 1..n /\ DOMAIN t = 1..m+n
  BY <1>3, <1>4, <1>5, <1>6
<1>8. ASSUME NEW a \in 1..m
      PROVE  /\ \E f \in 1..i : \E k \in DOMAIN orders[f] : t[a] = orders[f][k]
             /\ t[a][1] \in 1..i
  <2>1. PICK f \in 1..i : \E k \in DOMAIN orders[f] : s[a] = orders[f][k]
    BY <1>7 DEF InOrder
  <2>2. orders[f] \in Seq({f} \X Names)
    BY <1>f DEF OwnTensors
  <2>3. s[a][1] = f
    BY <2>1, <2>2
  <2> QED
    BY <1>6, <2>1, <2>3
<1>9. ASSUME NEW a \in m+1..m+n
      PROVE  \E k \in 1..n : a = m + k /\ t[a] = o[k] /\ t[a][1] = i + 1
  <2>1. a - m \in 1..n /\ a = m + (a - m)
    OBVIOUS
  <2>2. t[a] = o[a - m]
    BY <1>6, <2>1
  <2>3. o[a - m][1] = i + 1
    BY <1>2, <1>5, <2>1
  <2> QED
    BY <2>1, <2>2, <2>3
<1>10. 1..i+1 = 1..i \union {i + 1} /\ 1..m+n = 1..m \union (m+1..m+n)
  BY <1>f
<1>11. ASSUME NEW a \in DOMAIN t
       PROVE  \E f \in 1..i+1 : \E k \in DOMAIN orders[f] : t[a] = orders[f][k]
  <2>1. CASE a \in 1..m
    BY <1>8, <1>10, <2>1
  <2>2. CASE a \in m+1..m+n
    BY <1>1, <1>7, <1>9, <1>10, <2>2
  <2> QED
    BY <1>7, <1>10, <2>1, <2>2
<1>12. ASSUME NEW f \in 1..i+1, NEW k \in DOMAIN orders[f]
       PROVE  \E a \in DOMAIN t : t[a] = orders[f][k]
  <2>1. CASE f \in 1..i
    <3>1. PICK a \in 1..m : s[a] = orders[f][k]
      BY <1>7, <2>1 DEF InOrder
    <3> QED
      BY <1>6, <1>7, <1>10, <3>1
  <2>2. CASE f = i + 1
    <3>1. k \in 1..n /\ m + k \in 1..m+n
      BY <1>1, <1>7, <2>2
    <3> QED
      BY <1>1, <1>6, <1>7, <2>2, <3>1
  <2> QED
    BY <1>10, <2>1, <2>2
<1>13. ASSUME NEW a \in DOMAIN t, NEW b \in DOMAIN t, a < b
       PROVE  \/ t[a][1] < t[b][1]
              \/ \E f \in 1..i+1 : \E j, k \in DOMAIN orders[f] :
                    j < k /\ t[a] = orders[f][j] /\ t[b] = orders[f][k]
  <2>1. CASE a \in 1..m /\ b \in 1..m
    <3>1. s[a] = t[a] /\ s[b] = t[b]
      BY <1>6, <2>1
    <3>2. \/ s[a][1] < s[b][1]
          \/ \E f \in 1..i : \E j, k \in DOMAIN orders[f] :
                j < k /\ s[a] = orders[f][j] /\ s[b] = orders[f][k]
      <4>1. a \in DOMAIN s /\ b \in DOMAIN s /\ a < b
        BY <1>7, <1>13, <2>1
      <4> QED
        BY <4>1 DEF InOrder
    <3> QED
      BY <1>10, <3>1, <3>2
  <2>2. CASE a \in 1..m /\ b \in m+1..m+n
    <3>1. t[a][1] \in 1..i /\ t[b][1] = i + 1
      BY <1>8, <1>9, <2>2
    <3> QED
      BY <1>f, <3>1
  <2>3. CASE a \in m+1..m+n /\ b \in m+1..m+n
    <3>1. PICK j \in 1..n : a = m + j /\ t[a] = o[j]
      BY <1>9, <2>3
    <3>2. PICK k \in 1..n : b = m + k /\ t[b] = o[k]
      BY <1>9, <2>3
    <3>3. j < k
      BY <1>13, <3>1, <3>2
    <3>4. j \in DOMAIN orders[i + 1] /\ k \in DOMAIN orders[i + 1] /\ i + 1 \in 1..i+1
      BY <1>1, <1>7, <1>10
    <3> QED
      BY <1>1, <3>1, <3>2, <3>3, <3>4
  <2>4. ~(a \in m+1..m+n /\ b \in 1..m)
    BY <1>13
  <2> QED
    BY <1>7, <1>10, <2>1, <2>2, <2>3, <2>4
<1> QED
  BY <1>6, <1>11, <1>12, <1>13 DEF InOrder

\* The recursion of FlattenSeq, up to the file n.
Flattens(g, orders, n) ==
    g = [i \in 1..n |-> IF i = 1 THEN orders[i] ELSE g[i - 1] \o orders[i]]

LEMMA FlatteningExists ==
    ASSUME NEW orders
    PROVE  \A n \in 0..NumFiles : \E g : Flattens(g, orders, n)
<1> DEFINE Flattened == {n \in 0..NumFiles : \E g : Flattens(g, orders, n)}
<1>0. NumFiles \in Nat
  BY LoadAssumption
<1>1. 0 \in Flattened
  <2>1. PICK g : g = [i \in 1..0 |-> orders[i]]
    OBVIOUS
  <2>2. 1..0 = {}
    OBVIOUS
  <2>3. Flattens(g, orders, 0)
    BY <2>1, <2>2 DEF Flattens
  <2> QED
    BY <1>0, <2>3
<1>2. ASSUME NEW n \in 0..NumFiles-1, n \in Flattened PROVE n + 1 \in Flattened
  <2>1. PICK g : Flattens(g, orders, n)
    BY <1>2
  <2>2. PICK h : h = [i \in 1..n+1 |-> IF i = 1 THEN orders[i] ELSE g[i - 1] \o orders[i]]
    OBVIOUS
  <2>3. \A i \in 1..n+1 : i # 1 => i - 1 \in 1..n /\ i - 1 \in 1..n+1
    BY <1>0
  <2>4. \A i \in 1..n : i \in 1..n+1 /\ g[i] = h[i]
    <3>1. g = [i \in 1..n |-> IF i = 1 THEN orders[i] ELSE g[i - 1] \o orders[i]]
      BY <2>1 DEF Flattens
    <3>2. ASSUME NEW i \in 1..n
          PROVE  i \in 1..n+1 /\ g[i] = IF i = 1 THEN orders[i] ELSE g[i - 1] \o orders[i]
      <4>1. i \in 1..n+1
        BY <1>0
      <4>2. g[i] = IF i = 1 THEN orders[i] ELSE g[i - 1] \o orders[i]
        BY <3>1, Zenon
      <4> QED
        BY <4>1, <4>2
    <3> QED
      BY <2>2, <3>2
  <2>5. h = [i \in 1..n+1 |-> IF i = 1 THEN orders[i] ELSE h[i - 1] \o orders[i]]
    BY <2>2, <2>3, <2>4
  <2>6. Flattens(h, orders, n + 1)
    BY <2>5 DEF Flattens
  <2> QED
    BY <1>0, <2>6
<1>3. 0..NumFiles \subseteq Flattened
  <2> HIDE DEF Flattened
  <2> QED
    BY <1>0, <1>1, <1>2, UpTo
<1> QED
  BY <1>3

LEMMA FlattenedInOrder ==
    ASSUME NEW orders, OwnTensors(orders), orders \in Seq(Seq(Files \X Names)),
           Len(orders) = NumFiles
    PROVE  InOrder(FlattenSeq(orders), orders, NumFiles)
<1>0. NumFiles \in Nat
  BY LoadAssumption
<1>e. InOrder(<<>>, orders, 0)
  <2>1. 1..0 = {} /\ DOMAIN <<>> = {} /\ <<>> \in Seq(Files \X Names)
    OBVIOUS
  <2> QED
    BY <2>1 DEF InOrder
<1>1. CASE NumFiles = 0
  <2>1. orders = <<>>
    BY <1>1
  <2>2. FlattenSeq(orders) = <<>>
    BY <1>1, <2>1 DEF FlattenSeq
  <2> QED
    BY <1>1, <1>e, <2>2
<1>2. CASE NumFiles # 0
  <2>1. PICK f : f = [i \in 1..Len(orders) |-> IF i = 1 THEN orders[i] ELSE f[i - 1] \o orders[i]]
    <3>1. NumFiles \in 0..NumFiles
      BY <1>0
    <3> QED
      BY <3>1, FlatteningExists DEF Flattens
  <2>2. PICK g : /\ FlattenSeq(orders) = g[Len(orders)]
                 /\ g = [i \in 1..Len(orders) |-> IF i = 1 THEN orders[i] ELSE g[i - 1] \o orders[i]]
    BY <1>2, <2>1, Zenon DEF FlattenSeq
  <2> DEFINE Right == {n \in 0..NumFiles : n = 0 \/ InOrder(g[n], orders, n)}
  <2>3. 0 \in Right
    BY <1>0
  <2>4. ASSUME NEW n \in 0..NumFiles-1, n \in Right PROVE n + 1 \in Right
    <3>1. n + 1 \in 1..NumFiles /\ n + 1 \in 0..NumFiles /\ n \in Nat
      BY <1>0
    <3>2. CASE n = 0
      <4>1. g[n + 1] = orders[n + 1]
        BY <2>2, <3>1, <3>2
      <4>2. orders[n + 1] \in Seq(Files \X Names)
        BY <3>1
      <4>3. g[n + 1] = <<>> \o orders[n + 1]
        BY <4>1, <4>2
      <4>4. InOrder(g[n + 1], orders, n + 1)
        BY <1>e, <3>2, <4>3, OneMoreFile
      <4> QED
        BY <3>1, <4>4
    <3>3. CASE n # 0
      <4>1. g[n + 1] = g[n] \o orders[n + 1]
        <5>1. n + 1 # 1 /\ (n + 1) - 1 = n
          BY <3>1, <3>3
        <5> QED
          BY <2>2, <3>1, <5>1
      <4>2. InOrder(g[n], orders, n)
        BY <2>4, <3>3
      <4>3. InOrder(g[n + 1], orders, n + 1)
        BY <4>1, <4>2, OneMoreFile
      <4> QED
        BY <3>1, <4>3
    <3> QED
      BY <3>2, <3>3
  <2>5. 0..NumFiles \subseteq Right
    <3> HIDE DEF Right
    <3> QED
      BY <1>0, <2>3, <2>4, UpTo
  <2>6. NumFiles \in 0..NumFiles
    BY <1>0
  <2>7. InOrder(g[NumFiles], orders, NumFiles)
    BY <1>2, <2>5, <2>6
  <2> QED
    BY <2>2, <2>7
<1> QED
  BY <1>1, <1>2

-----------------------------------------------------------------------------
(* Plans.                                                                  *)

HeaderType(h) ==
    /\ DOMAIN h \in SUBSET Names
    /\ \A n \in DOMAIN h : h[n].begin \in Nat /\ h[n].end \in Nat
    /\ \E bound \in Nat : \A n \in DOMAIN h : h[n].end <= bound

LEMMA HeaderTypes ==
    ASSUME NEW f \in Files, NEW h \in Headers(f)
    PROVE  HeaderType(h)
<1>1. MaxOffset[f] \in Nat
  BY LoadAssumption DEF Files
<1>2. PICK S \in SUBSET Names : h \in [S -> Span(f)]
  BY DEF Headers
<1>3. ASSUME NEW n \in DOMAIN h
      PROVE  h[n].begin \in Nat /\ h[n].end \in Nat /\ h[n].end <= MaxOffset[f]
  <2>1. h[n] \in [begin : 0..MaxOffset[f], end : 0..MaxOffset[f]]
    BY <1>2 DEF Span
  <2>2. h[n].begin \in 0..MaxOffset[f] /\ h[n].end \in 0..MaxOffset[f]
    BY <2>1
  <2> QED
    BY <1>1, <2>2
<1> QED
  BY <1>1, <1>2, <1>3 DEF HeaderType

LEMMA NamesFinite ==
    ASSUME NEW S \in SUBSET Names
    PROVE  IsFiniteSet(S) /\ Cardinality(S) \in Nat
BY LoadAssumption, FS_Subset, FS_CardinalityType

LEMMA PlanIs ==
    ASSUME NEW h, HeaderType(h), NEW q \in PlansOf(h), q # NoNames
    PROVE  /\ q \in Seq(Names) /\ IsInjective(q) /\ ToSet(q) = DOMAIN h
           /\ Len(q) = Cardinality(DOMAIN h)
           /\ Accepted(h, q)
<1>1. q \in SetToSeqs(DOMAIN h) /\ Accepted(h, q)
  BY DEF PlansOf, Sorted, NamesInFileOrder
<1>2. IsFiniteSet(DOMAIN h) /\ DOMAIN h \subseteq Names
  BY NamesFinite DEF HeaderType
<1>3. q \in Seq(DOMAIN h) /\ IsInjective(q) /\ ToSet(q) = DOMAIN h /\ Len(q) = Cardinality(DOMAIN h)
  BY <1>1, <1>2, Permutation
<1>4. q \in Seq(Names)
  BY <1>2, <1>3
<1> QED
  BY <1>1, <1>3, <1>4

-----------------------------------------------------------------------------
(* Spans b[i]..e[i] in the order of a plan.                                *)

\* Each begins where the one before it ends, the first at 0.
Chained(b, e, N) == \A i \in 1..N : b[i] <= e[i] /\ b[i] = IF i = 1 THEN 0 ELSE e[i - 1]

\* Together they tile what lies before the largest end.
Tiling(b, e, N) ==
    /\ \A i \in 1..N : b[i] <= e[i]
    /\ \A x \in Nat : \A k \in 1..N : x < e[k] => \E i \in 1..N : b[i] <= x /\ x < e[i]
    /\ \A x \in Nat : \A i, j \in 1..N :
          b[i] <= x /\ x < e[i] /\ b[j] <= x /\ x < e[j] => i = j
    /\ \A i, j \in 1..N : b[i] = e[i] => ~(b[j] < b[i] /\ b[i] < e[j])

LEMMA ChainAscends ==
    ASSUME NEW N \in Nat, NEW b \in [1..N -> Nat], NEW e \in [1..N -> Nat], Chained(b, e, N),
           NEW j \in 1..N, NEW k \in 1..N, j < k
    PROVE  e[j] <= b[k]
<1>1. \A i \in 1..N : b[i] \in Nat /\ e[i] \in Nat
  OBVIOUS
<1>2. \A i \in 1..N : b[i] <= e[i] /\ (i # 1 => b[i] = e[i - 1])
  BY DEF Chained
<1> DEFINE Later == {d \in Nat : \A i \in 1..N : i = (j + 1) + d => e[j] <= b[i]}
<1>3. 0 \in Later
  <2>1. ASSUME NEW i \in 1..N, i = j + 1 PROVE e[j] <= b[i]
    <3>1. i # 1 /\ i - 1 = j
      BY <2>1
    <3>2. b[i] = e[j]
      BY <1>2, <3>1
    <3> QED
      BY <1>1, <3>2
  <2> QED
    BY <2>1
<1>4. ASSUME NEW d \in 0..N-1, d \in Later PROVE d + 1 \in Later
  <2>1. ASSUME NEW i \in 1..N, i = (j + 1) + (d + 1) PROVE e[j] <= b[i]
    <3>1. PICK last \in 1..N : last = (j + 1) + d /\ last = i - 1 /\ i # 1
      BY <2>1
    <3>2. b[i] = e[last]
      BY <1>2, <3>1
    <3>3. e[j] <= b[last]
      BY <1>4, <3>1
    <3>4. b[last] <= e[last]
      BY <1>2
    <3> QED
      BY <1>1, <3>2, <3>3, <3>4
  <2> QED
    BY <2>1
<1>5. 0..N \subseteq Later
  <2> HIDE DEF Later
  <2> QED
    BY <1>3, <1>4, UpTo
<1>6. (k - j) - 1 \in 0..N /\ k = (j + 1) + ((k - j) - 1)
  OBVIOUS
<1>7. (k - j) - 1 \in Later
  BY <1>5, <1>6
<1> QED
  BY <1>6, <1>7

LEMMA ChainTiles ==
    ASSUME NEW N \in Nat, NEW b \in [1..N -> Nat], NEW e \in [1..N -> Nat], Chained(b, e, N)
    PROVE  Tiling(b, e, N)
<1>1. \A i \in 1..N : b[i] \in Nat /\ e[i] \in Nat
  OBVIOUS
<1>2. \A i \in 1..N : b[i] <= e[i]
  BY DEF Chained
<1>3. \A i, j \in 1..N : i < j => e[i] <= b[j]
  BY ChainAscends
<1>4. ASSUME NEW x \in Nat, NEW k \in 1..N, x < e[k]
      PROVE  \E i \in 1..N : b[i] <= x /\ x < e[i]
  <2>1. PICK i \in {n \in 1..N : x < e[n]} : \A m \in {n \in 1..N : x < e[n]} : i <= m
    <3>1. {n \in 1..N : x < e[n]} \subseteq Nat
      OBVIOUS
    <3>2. k \in {n \in 1..N : x < e[n]}
      BY <1>4
    <3> QED
      BY <3>1, <3>2, LeastOf
  <2>2. CASE i = 1
    <3>1. b[i] = 0
      BY <2>2 DEF Chained
    <3> QED
      BY <2>1, <3>1
  <2>3. CASE i # 1
    <3>1. i - 1 \in 1..N /\ ~(i <= i - 1)
      BY <2>1, <2>3
    <3>2. ~(x < e[i - 1])
      BY <2>1, <3>1
    <3>3. b[i] = e[i - 1]
      BY <2>1, <2>3 DEF Chained
    <3> QED
      BY <1>1, <2>1, <3>1, <3>2, <3>3
  <2> QED
    BY <2>2, <2>3
<1>5. ASSUME NEW x \in Nat, NEW i \in 1..N, NEW j \in 1..N,
             b[i] <= x, x < e[i], b[j] <= x, x < e[j]
      PROVE  i = j
  <2>1. ~(i < j) /\ ~(j < i)
    BY <1>1, <1>3, <1>5
  <2> QED
    BY <2>1
<1>6. ASSUME NEW i \in 1..N, NEW j \in 1..N, b[i] = e[i], b[j] < b[i], b[i] < e[j]
      PROVE  FALSE
  <2>1. ~(i < j) /\ ~(j < i)
    BY <1>1, <1>2, <1>3, <1>6
  <2>2. i # j
    BY <1>1, <1>6
  <2> QED
    BY <2>1, <2>2
<1> QED
  BY <1>2, <1>4, <1>5, <1>6 DEF Tiling

\* A tiling in the order that the sort leaves is a chain.
LEMMA TilingChains ==
    ASSUME NEW N \in Nat, NEW b \in [1..N -> Nat], NEW e \in [1..N -> Nat], Tiling(b, e, N),
           \A i, j \in 1..N : i < j => b[i] < b[j] \/ (b[i] = b[j] /\ e[i] <= e[j])
    PROVE  Chained(b, e, N)
<1>1. \A i \in 1..N : b[i] \in Nat /\ e[i] \in Nat
  OBVIOUS
<1>2. \A i \in 1..N : b[i] <= e[i]
  BY DEF Tiling
<1>3. \A x \in Nat : \A k \in 1..N : x < e[k] => \E i \in 1..N : b[i] <= x /\ x < e[i]
  BY DEF Tiling
<1>4. \A x \in Nat : \A i, j \in 1..N :
         b[i] <= x /\ x < e[i] /\ b[j] <= x /\ x < e[j] => i = j
  BY DEF Tiling
<1>5. \A i, j \in 1..N : b[i] = e[i] => ~(b[j] < b[i] /\ b[i] < e[j])
  BY DEF Tiling
<1>6. ASSUME 1 \in 1..N PROVE b[1] = 0
  <2> SUFFICES ASSUME 0 < b[1] PROVE FALSE
    BY <1>1, <1>6
  <2>1. 0 < e[1]
    BY <1>1, <1>2, <1>6
  <2>2. PICK k \in 1..N : b[k] <= 0
    BY <1>3, <1>6, <2>1
  <2>3. k # 1 /\ 1 < k
    BY <1>1, <1>6, <2>2
  <2>4. b[1] < b[k] \/ b[1] = b[k]
    BY <1>6, <2>3
  <2> QED
    BY <1>1, <1>6, <2>2, <2>4
<1>7. ASSUME NEW i \in 1..N, i # 1 PROVE b[i] = e[i - 1]
  <2>1. PICK last \in 1..N : last = i - 1 /\ last < i
    BY <1>7
  <2>2. b[last] < b[i] \/ (b[last] = b[i] /\ e[last] <= e[i])
    BY <2>1
  <2>3. ASSUME e[last] < b[i] PROVE FALSE
    <3>1. e[last] < e[i]
      BY <1>1, <1>2, <2>3
    <3>2. PICK k \in 1..N : b[k] <= e[last] /\ e[last] < e[k]
      BY <1>1, <1>3, <3>1
    <3>3. k # last /\ k # i
      BY <1>1, <2>3, <3>2
    <3>4. ASSUME k < last PROVE FALSE
      <4>1. b[k] < b[last] \/ (b[k] = b[last] /\ e[k] <= e[last])
        BY <3>4
      <4>2. b[k] < b[last]
        BY <1>1, <3>2, <4>1
      <4>3. CASE b[last] < e[last]
        <5>1. PICK x \in Nat : x = b[last]
          BY <1>1
        <5>2. b[k] <= x /\ x < e[k] /\ b[last] <= x /\ x < e[last]
          BY <1>1, <3>2, <4>2, <4>3, <5>1
        <5> QED
          BY <1>4, <3>3, <5>2
      <4>4. CASE b[last] = e[last]
        BY <1>5, <3>2, <4>2, <4>4
      <4> QED
        BY <1>1, <1>2, <4>3, <4>4
    <3>5. ASSUME i < k PROVE FALSE
      <4>1. b[i] < b[k] \/ b[i] = b[k]
        BY <3>5
      <4> QED
        BY <1>1, <2>3, <3>2, <4>1
    <3> QED
      BY <2>1, <3>3, <3>4, <3>5
  <2>4. ASSUME b[i] < e[last] PROVE FALSE
    <3>1. b[last] <= b[i]
      BY <1>1, <2>2
    <3>2. CASE b[i] < e[i]
      <4>1. PICK x \in Nat : x = b[i]
        BY <1>1
      <4>2. b[last] <= x /\ x < e[last] /\ b[i] <= x /\ x < e[i]
        BY <1>1, <2>4, <3>1, <3>2, <4>1
      <4>3. last = i
        BY <1>4, <4>2
      <4> QED
        BY <2>1, <4>3
    <3>3. CASE b[i] = e[i]
      <4>1. b[last] < b[i]
        BY <1>1, <2>2, <2>4, <3>3
      <4> QED
        BY <1>5, <2>4, <3>3, <4>1
    <3> QED
      BY <1>1, <1>2, <3>2, <3>3
  <2> QED
    BY <1>1, <2>1, <2>3, <2>4
<1>8. ASSUME NEW i \in 1..N PROVE b[i] = IF i = 1 THEN 0 ELSE e[i - 1]
  BY <1>6, <1>7
<1> QED
  BY <1>2, <1>8 DEF Chained

\* The spans that a plan has.
SpansOf(h, q, b, e) ==
    /\ b = [i \in DOMAIN q |-> h[q[i]].begin]
    /\ e = [i \in DOMAIN q |-> h[q[i]].end]

LEMMA PlannedSpans ==
    ASSUME NEW h, HeaderType(h), NEW q \in Seq(Names), ToSet(q) = DOMAIN h,
           NEW b, NEW e, SpansOf(h, q, b, e)
    PROVE  /\ b \in [1..Len(q) -> Nat] /\ e \in [1..Len(q) -> Nat]
           /\ Accepted(h, q) <=> Chained(b, e, Len(q))
<1>1. PICK N \in Nat : N = Len(q) /\ DOMAIN q = 1..N
  OBVIOUS
<1>2. \A i \in 1..N : q[i] \in DOMAIN h
  BY <1>1 DEF ToSet
<1>3. \A i \in 1..N : b[i] = h[q[i]].begin /\ e[i] = h[q[i]].end /\ b[i] \in Nat /\ e[i] \in Nat
  BY <1>1, <1>2 DEF SpansOf, HeaderType
<1>4. b \in [1..N -> Nat] /\ e \in [1..N -> Nat]
  BY <1>1, <1>3 DEF SpansOf
<1>5. \A n \in DOMAIN h : \E i \in 1..N : q[i] = n
  BY <1>1 DEF ToSet
<1>6. (\A n \in DOMAIN h : h[n].end >= h[n].begin) <=> (\A i \in 1..N : b[i] <= e[i])
  <2>1. \A n \in DOMAIN h : h[n].end >= h[n].begin <=> h[n].begin <= h[n].end
    BY DEF HeaderType
  <2> QED
    BY <1>2, <1>3, <1>5, <2>1
<1>7. ASSUME NEW i \in 1..N
      PROVE  (h[q[i]].begin = IF i = 1 THEN 0 ELSE h[q[i - 1]].end)
               <=> (b[i] = IF i = 1 THEN 0 ELSE e[i - 1])
  <2>1. i # 1 => i - 1 \in 1..N
    OBVIOUS
  <2> QED
    BY <1>3, <2>1
<1>8. Contiguous(h, q) <=> \A i \in 1..N : b[i] = IF i = 1 THEN 0 ELSE e[i - 1]
  BY <1>1, <1>7 DEF Contiguous
<1> QED
  BY <1>1, <1>4, <1>6, <1>8 DEF Accepted, Chained

\* An accepted plan is in the order of the offsets.
LEMMA Ascending ==
    ASSUME NEW h, HeaderType(h), NEW q \in Seq(Names), ToSet(q) = DOMAIN h, Accepted(h, q),
           NEW j \in DOMAIN q, NEW k \in DOMAIN q, j < k
    PROVE  h[q[j]].end <= h[q[k]].begin
<1>1. PICK b, e : SpansOf(h, q, b, e)
  BY DEF SpansOf
<1>2. PICK N \in Nat : N = Len(q) /\ DOMAIN q = 1..N
  OBVIOUS
<1>3. b \in [1..N -> Nat] /\ e \in [1..N -> Nat] /\ Chained(b, e, N)
  BY <1>1, <1>2, PlannedSpans
<1>4. e[j] <= b[k]
  BY <1>2, <1>3, ChainAscends
<1> QED
  BY <1>1, <1>4 DEF SpansOf

\* The largest end.
LEMMA TotalIs ==
    ASSUME NEW h, HeaderType(h), NEW total, total = Max({0} \union {h[n].end : n \in DOMAIN h})
    PROVE  /\ total \in Nat /\ \A n \in DOMAIN h : h[n].end <= total
           /\ total # 0 => \E n \in DOMAIN h : h[n].end = total
<1>1. PICK bound \in Nat : \A n \in DOMAIN h : h[n].end <= bound
  BY DEF HeaderType
<1>2. PICK T : T = {0} \union {h[n].end : n \in DOMAIN h}
  OBVIOUS
<1>3. ASSUME NEW n \in DOMAIN h PROVE h[n].end \in 0..bound
  BY <1>1 DEF HeaderType
<1>4. T \in SUBSET (0..bound) /\ 0 \in T
  BY <1>2, <1>3
<1>5. total \in T /\ \A i \in T : i <= total
  BY <1>2, <1>4, MaxOf
<1>6. total \in Nat
  BY <1>4, <1>5
<1>7. total # 0 => \E n \in DOMAIN h : h[n].end = total
  BY <1>2, <1>5
<1>8. \A n \in DOMAIN h : h[n].end <= total
  BY <1>2, <1>5
<1> QED
  BY <1>6, <1>7, <1>8

\* Tiles, by the indices of a plan.
LEMMA TilesByIndex ==
    ASSUME NEW h, HeaderType(h), NEW q \in Seq(Names), IsInjective(q), ToSet(q) = DOMAIN h,
           NEW b, NEW e, SpansOf(h, q, b, e)
    PROVE  Tiles(h) <=> Tiling(b, e, Len(q))
<1>1. PICK N \in Nat : N = Len(q) /\ DOMAIN q = 1..N
  OBVIOUS
<1>2. PICK total : total = Max({0} \union {h[n].end : n \in DOMAIN h})
  OBVIOUS
<1>3. /\ total \in Nat /\ \A n \in DOMAIN h : h[n].end <= total
      /\ total # 0 => \E n \in DOMAIN h : h[n].end = total
  BY <1>2, TotalIs
<1>4. \A i \in 1..N : q[i] \in DOMAIN h /\ b[i] = h[q[i]].begin /\ e[i] = h[q[i]].end
  BY <1>1 DEF SpansOf, ToSet
<1>5. \A i \in 1..N : b[i] \in Nat /\ e[i] \in Nat
  BY <1>4 DEF HeaderType
<1>6. \A n \in DOMAIN h : \E i \in 1..N : q[i] = n
  BY <1>1 DEF ToSet
<1>7. \A i, j \in 1..N : q[i] = q[j] => i = j
  BY <1>1 DEF IsInjective
<1>8. (\A n \in DOMAIN h : h[n].begin <= h[n].end) <=> (\A i \in 1..N : b[i] <= e[i])
  BY <1>4, <1>6
<1>9. ASSUME NEW x \in Nat
      PROVE  Cardinality({n \in DOMAIN h : h[n].begin <= x /\ x < h[n].end}) = 1
               <=> \E i \in 1..N : /\ b[i] <= x /\ x < e[i]
                                   /\ \A j \in 1..N : b[j] <= x /\ x < e[j] => j = i
  <2>1. PICK holding : holding = {n \in DOMAIN h : h[n].begin <= x /\ x < h[n].end}
    OBVIOUS
  <2>2. IsFiniteSet(holding)
    <3>1. holding \in SUBSET Names
      BY <2>1 DEF HeaderType
    <3> QED
      BY <3>1, NamesFinite
  <2>3. Cardinality(holding) = 1 <=> \E n : holding = {n}
    BY <2>2, FS_Singleton
  <2>4. \A i \in 1..N : q[i] \in holding <=> b[i] <= x /\ x < e[i]
    BY <1>4, <2>1
  <2>5. \A n \in holding : \E i \in 1..N : q[i] = n
    BY <1>6, <2>1
  <2>6. (\E n : holding = {n})
           <=> \E i \in 1..N : q[i] \in holding /\ \A j \in 1..N : q[j] \in holding => j = i
    <3>1. ASSUME NEW n, holding = {n}
          PROVE  \E i \in 1..N : q[i] \in holding /\ \A j \in 1..N : q[j] \in holding => j = i
      BY <1>7, <2>5, <3>1
    <3>2. ASSUME NEW i \in 1..N, q[i] \in holding, \A j \in 1..N : q[j] \in holding => j = i
          PROVE  holding = {q[i]}
      BY <2>5, <3>2
    <3> QED
      BY <3>1, <3>2
  <2> QED
    BY <2>1, <2>3, <2>4, <2>6
<1>10. (\A x \in 0..total-1 : Cardinality({n \in DOMAIN h : h[n].begin <= x /\ x < h[n].end}) = 1)
         <=> /\ \A x \in Nat : \A k \in 1..N : x < e[k] => \E i \in 1..N : b[i] <= x /\ x < e[i]
             /\ \A x \in Nat : \A i, j \in 1..N :
                   b[i] <= x /\ x < e[i] /\ b[j] <= x /\ x < e[j] => i = j
  <2>1. \A x \in Nat : \A k \in 1..N : x < e[k] => x \in 0..total-1
    <3> SUFFICES ASSUME NEW x \in Nat, NEW k \in 1..N, x < e[k] PROVE x < total
      BY <1>3
    <3>1. e[k] <= total
      BY <1>3, <1>4
    <3> QED
      BY <1>3, <1>5, <3>1
  <2>2. \A x \in 0..total-1 : x \in Nat /\ \E k \in 1..N : x < e[k]
    <3> SUFFICES ASSUME NEW x \in 0..total-1 PROVE \E k \in 1..N : x < e[k]
      OBVIOUS
    <3>1. total # 0
      BY <1>3
    <3>2. PICK n \in DOMAIN h : h[n].end = total
      BY <1>3, <3>1
    <3>3. PICK k \in 1..N : q[k] = n
      BY <1>6
    <3>4. e[k] = total
      BY <1>4, <3>2, <3>3
    <3> QED
      BY <1>3, <3>4
  <2>3. (\A x \in 0..total-1 : Cardinality({n \in DOMAIN h : h[n].begin <= x /\ x < h[n].end}) = 1)
          <=> \A x \in 0..total-1 :
                \E i \in 1..N : /\ b[i] <= x /\ x < e[i]
                                /\ \A j \in 1..N : b[j] <= x /\ x < e[j] => j = i
    BY <1>9, <2>2
  <2> QED
    BY <2>1, <2>2, <2>3
<1>11. (\A m, n \in DOMAIN h : h[n].begin = h[n].end => ~(h[m].begin < h[n].begin /\ h[n].begin < h[m].end))
         <=> \A i, j \in 1..N : b[i] = e[i] => ~(b[j] < b[i] /\ b[i] < e[j])
  <2> DEFINE Apart(m, n) == h[n].begin = h[n].end => ~(h[m].begin < h[n].begin /\ h[n].begin < h[m].end)
  <2>1. \A i, j \in 1..N : Apart(q[j], q[i]) <=> (b[i] = e[i] => ~(b[j] < b[i] /\ b[i] < e[j]))
    BY <1>4
  <2>2. (\A m, n \in DOMAIN h : Apart(m, n)) <=> \A i, j \in 1..N : Apart(q[j], q[i])
    <3> HIDE DEF Apart
    <3>1. ASSUME \A i, j \in 1..N : Apart(q[j], q[i]), NEW m \in DOMAIN h, NEW n \in DOMAIN h
          PROVE  Apart(m, n)
      <4>1. PICK i \in 1..N, j \in 1..N : q[i] = n /\ q[j] = m
        BY <1>6
      <4> QED
        BY <3>1, <4>1
    <3>2. ASSUME \A m, n \in DOMAIN h : Apart(m, n), NEW i \in 1..N, NEW j \in 1..N
          PROVE  Apart(q[j], q[i])
      BY <1>4, <3>2
    <3> QED
      BY <3>1, <3>2
  <2> QED
    BY <2>1, <2>2
<1> QED
  BY <1>1, <1>2, <1>8, <1>10, <1>11 DEF Tiles, Tiling

\* A sorted header is accepted if and only if it tiles.
LEMMA AcceptedTiles ==
    ASSUME NEW h, HeaderType(h), NEW q \in Sorted(h)
    PROVE  Accepted(h, q) <=> Tiles(h)
<1>1. IsFiniteSet(DOMAIN h) /\ DOMAIN h \subseteq Names
  BY NamesFinite DEF HeaderType
<1>2. q \in SetToSeqs(DOMAIN h) /\ \A i, j \in DOMAIN q : i < j => Precedes(h[q[i]], h[q[j]])
  BY DEF Sorted
<1>3. q \in Seq(DOMAIN h) /\ IsInjective(q) /\ ToSet(q) = DOMAIN h
  BY <1>1, <1>2, Permutation
<1>4. q \in Seq(Names)
  BY <1>1, <1>3
<1>5. PICK b, e : SpansOf(h, q, b, e)
  BY DEF SpansOf
<1>6. PICK N \in Nat : N = Len(q) /\ DOMAIN q = 1..N
  BY <1>4
<1>7. /\ b \in [1..N -> Nat] /\ e \in [1..N -> Nat]
      /\ Accepted(h, q) <=> Chained(b, e, N)
      /\ Tiles(h) <=> Tiling(b, e, N)
  BY <1>3, <1>4, <1>5, <1>6, PlannedSpans, TilesByIndex
<1>8. \A i, j \in 1..N : i < j => b[i] < b[j] \/ (b[i] = b[j] /\ e[i] <= e[j])
  BY <1>2, <1>5, <1>6 DEF SpansOf, Precedes
<1> QED
  BY <1>7, <1>8, ChainTiles, TilingChains

-----------------------------------------------------------------------------
(* The orders of the files.                                                *)

LoadType ==
    /\ \A f \in Files : HeaderType(header[f])
    /\ worker \in [Files -> {"waiting", "busy", "done"}]
    /\ prepared \in [Files -> SUBSET Names]
    /\ planned \in [Files -> Seq(Names) \union {NoNames}]
    /\ \A f \in Files : planned[f] # NoNames => IsInjective(planned[f])

LEMMA FileOrder ==
    ASSUME LoadType, NEW f \in Files, NEW o \in FileOrders(f)
    PROVE  /\ o \in Seq({f} \X Names) /\ IsInjective(o)
           /\ ToSet(o) = {f} \X prepared[f]
           /\ Follows(f) => o = [i \in DOMAIN planned[f] |-> <<f, planned[f][i]>>]
<1>1. PICK q : /\ q \in IF Follows(f) THEN {planned[f]} ELSE SetToSeqs(prepared[f])
               /\ o = [i \in DOMAIN q |-> <<f, q[i]>>]
  BY DEF FileOrders
<1>2. prepared[f] \in SUBSET Names /\ IsFiniteSet(prepared[f])
  BY NamesFinite DEF LoadType
<1>3. q \in Seq(prepared[f]) /\ IsInjective(q) /\ ToSet(q) = prepared[f]
  <2>1. CASE Follows(f)
    <3>1. q = planned[f] /\ q \in Seq(Names) /\ IsInjective(q)
      BY <1>1, <2>1 DEF LoadType, Follows
    <3>2. Len(q) = Cardinality(prepared[f]) /\ ToSet(q) \subseteq prepared[f]
      BY <2>1, <3>1 DEF Follows
    <3>3. q \in Seq(prepared[f])
      BY <3>1, <3>2 DEF ToSet
    <3> QED
      BY <1>2, <3>1, <3>2, <3>3, AllOf
  <2>2. CASE ~Follows(f)
    BY <1>1, <1>2, <2>2, Permutation
  <2> QED
    BY <2>1, <2>2
<1>4. o \in Seq({f} \X Names)
  BY <1>1, <1>2, <1>3
<1>5. DOMAIN o = DOMAIN q /\ \A i \in DOMAIN q : o[i] = <<f, q[i]>>
  BY <1>1
<1>6. IsInjective(o)
  BY <1>3, <1>5 DEF IsInjective
<1>7. ToSet(o) = {f} \X prepared[f]
  <2>1. ToSet(o) \subseteq {f} \X prepared[f]
    <3> SUFFICES ASSUME NEW i \in DOMAIN q PROVE o[i] \in {f} \X prepared[f]
      BY <1>5 DEF ToSet
    <3>1. q[i] \in prepared[f]
      BY <1>3
    <3> QED
      BY <1>5, <3>1
  <2>2. ASSUME NEW n \in prepared[f] PROVE <<f, n>> \in ToSet(o)
    BY <1>3, <1>5 DEF ToSet
  <2> QED
    BY <2>1, <2>2
<1> QED
  BY <1>1, <1>4, <1>6, <1>7

-----------------------------------------------------------------------------
(* The merge.                                                              *)

LEMMA LastOf ==
    ASSUME NEW S \in SUBSET Files, S # {}
    PROVE  Max(S) \in S /\ \A f \in S : f <= Max(S)
<1>1. NumFiles \in Nat /\ S \in SUBSET (0..NumFiles)
  BY LoadAssumption DEF Files
<1> QED
  BY <1>1, MaxOf

\* The dictionary of the files S when the last of them wins.
LastWins(S) ==
    [n \in UNION {prepared[f] : f \in S} |-> Max({f \in S : n \in prepared[f]})]

LEMMA MergeLast ==
    ASSUME NEW S \in SUBSET Files, S # {}
    PROVE  Merge(LastWins(S \ {Max(S)}), Max(S)) = LastWins(S)
<1>1. PICK last \in S : last = Max(S) /\ \A f \in S : f <= last
  BY LastOf
<1>2. PICK others : others = S \ {last}
  OBVIOUS
<1>3. UNION {prepared[f] : f \in S} = (UNION {prepared[f] : f \in others}) \union prepared[last]
  BY <1>2
<1>4. ASSUME NEW n \in UNION {prepared[f] : f \in S}
      PROVE  Max({f \in S : n \in prepared[f]})
                = IF n \in prepared[last] THEN last ELSE Max({f \in others : n \in prepared[f]})
  <2>1. CASE n \in prepared[last]
    <3>1. PICK T \in SUBSET Files : T = {f \in S : n \in prepared[f]}
      OBVIOUS
    <3>2. last \in T /\ T \subseteq S
      BY <2>1, <3>1
    <3>3. Max(T) \in T /\ \A f \in T : f <= Max(T)
      BY <3>2, LastOf
    <3>4. Max(T) <= last /\ last <= Max(T) /\ Max(T) \in Files /\ last \in Files
      BY <1>1, <3>2, <3>3
    <3>5. Max(T) = last
      BY <3>4, LoadAssumption DEF Files
    <3> QED
      BY <2>1, <3>1, <3>5
  <2>2. CASE n \notin prepared[last]
    <3>1. {f \in S : n \in prepared[f]} = {f \in others : n \in prepared[f]}
      BY <1>2, <2>2
    <3> QED
      BY <2>2, <3>1
  <2> QED
    BY <2>1, <2>2
<1>5. LastWins(S) = [n \in (UNION {prepared[f] : f \in others}) \union prepared[last] |->
                       IF n \in prepared[last] THEN last ELSE Max({f \in others : n \in prepared[f]})]
  BY <1>3, <1>4 DEF LastWins
<1>6. PICK merged : merged = LastWins(others)
  OBVIOUS
<1>7. DOMAIN merged = UNION {prepared[f] : f \in others}
      /\ \A n \in DOMAIN merged : merged[n] = Max({f \in others : n \in prepared[f]})
  BY <1>6 DEF LastWins
<1>8. Merge(merged, last) = LastWins(S)
  BY <1>5, <1>7 DEF Merge
<1> QED
  BY <1>1, <1>2, <1>6, <1>8

\* What FoldLeft's recursion computes.
LEMMA MergedIs == FoldLeft(Merge, [n \in {} |-> 0], [f \in Files |-> f]) = LastWins(Files)
<1>0. NumFiles \in Nat
  BY LoadAssumption
<1> DEFINE none == [n \in {} |-> 0]
<1>1. FoldLeft(Merge, none, [f \in Files |-> f])
         = LET iter[S \in SUBSET Files] ==
                 IF S = {} THEN none ELSE Merge(iter[S \ {Max(S)}], [f \in Files |-> f][Max(S)])
           IN iter[Files]
  BY Zenon DEF FoldLeft, MapThenFoldSet
<1>2. PICK some : some = [S \in SUBSET Files |-> LastWins(S)]
  OBVIOUS
<1>3. LastWins({}) = none
  BY DEF LastWins
<1>4. \A S \in SUBSET Files : S # {} => Max(S) \in Files /\ S \ {Max(S)} \in SUBSET Files
  BY LastOf
<1>5. ASSUME NEW S \in SUBSET Files
      PROVE  LastWins(S) = IF S = {} THEN none
                           ELSE Merge(some[S \ {Max(S)}], [f \in Files |-> f][Max(S)])
  <2>1. CASE S = {}
    BY <1>3, <2>1
  <2>2. CASE S # {}
    <3>1. some[S \ {Max(S)}] = LastWins(S \ {Max(S)})
      BY <1>2, <1>4, <2>2
    <3>2. [f \in Files |-> f][Max(S)] = Max(S)
      BY <1>4, <2>2
    <3>3. Merge(LastWins(S \ {Max(S)}), Max(S)) = LastWins(S)
      BY <2>2, MergeLast
    <3> HIDE DEF none
    <3> QED
      BY <2>2, <3>1, <3>2, <3>3
  <2> QED
    BY <2>1, <2>2
<1> HIDE DEF none
<1>6. some = [S \in SUBSET Files |->
                IF S = {} THEN none ELSE Merge(some[S \ {Max(S)}], [f \in Files |-> f][Max(S)])]
  BY <1>2, <1>5, Zenon
<1>7. PICK iter :
        /\ FoldLeft(Merge, none, [f \in Files |-> f]) = iter[Files]
        /\ iter = [S \in SUBSET Files |->
                     IF S = {} THEN none ELSE Merge(iter[S \ {Max(S)}], [f \in Files |-> f][Max(S)])]
  BY <1>1, <1>6, Zenon
<1> DEFINE Right == {k \in 0..NumFiles : iter[1..k] = LastWins(1..k)}
<1>8. 0 \in Right
  <2>1. 1..0 = {} /\ {} \in SUBSET Files /\ 0 \in 0..NumFiles
    BY <1>0
  <2>2. iter[{}] = none
    BY <1>7, <2>1, Zenon
  <2> QED
    BY <1>3, <2>1, <2>2
<1>9. ASSUME NEW k \in 0..NumFiles-1, k \in Right PROVE k + 1 \in Right
  <2>1. PICK S \in SUBSET Files : S = 1..k+1 /\ k + 1 \in S /\ S \ {k + 1} = 1..k
    BY <1>0 DEF Files
  <2>2. Max(S) = k + 1
    <3>1. Max(S) \in S /\ k + 1 <= Max(S)
      BY <2>1, LastOf
    <3> QED
      BY <2>1, <3>1
  <2>3. iter[S] = Merge(iter[S \ {Max(S)}], [f \in Files |-> f][Max(S)])
    BY <1>7, <2>1, Zenon
  <2>4. [f \in Files |-> f][Max(S)] = Max(S)
    BY <2>1, <2>2
  <2>5. iter[S \ {Max(S)}] = LastWins(S \ {Max(S)})
    BY <1>9, <2>1, <2>2
  <2>6. iter[S] = LastWins(S)
    BY <2>1, <2>3, <2>4, <2>5, MergeLast
  <2>7. k + 1 \in 0..NumFiles
    BY <1>0
  <2> QED
    BY <2>1, <2>6, <2>7
<1>10. 0..NumFiles \subseteq Right
  <2> HIDE DEF Right
  <2> QED
    BY <1>0, <1>8, <1>9, UpTo
<1>11. NumFiles \in Right
  BY <1>0, <1>10
<1> QED
  BY <1>7, <1>11 DEF Files, none

-----------------------------------------------------------------------------
(* The invariant.                                                          *)

Tensors == Files \X Names

\* No read starts before the scheduling, and a return has waited for all.
ReadInv ==
    /\ submitted \in Seq(Tensors) /\ IsInjective(submitted)
    /\ started \in 0..Len(submitted)
    /\ loaded \union failed \subseteq Started
    /\ ReadInFileOrder
    /\ phase = "prepare" => submitted = <<>>
    /\ phase \in {"prepare", "schedule"} => started = 0
    /\ phase = "returned" => ToSet(submitted) \subseteq loaded

\* What is queued is what was prepared, and it was prepared from the headers.
MergeInv ==
    /\ phase \in {"prepare", "schedule", "eval", "threw", "returned"}
    /\ firstError = NoError => \A f \in Files : worker[f] = "done" => prepared[f] = DOMAIN header[f]
    /\ phase # "prepare" => \A f \in Files : worker[f] = "done"
    /\ phase \in {"schedule", "eval", "returned"} =>
          /\ firstError = NoError
          /\ ToSet(submitted) = {a \in Tensors : a[2] \in prepared[a[1]]}
    /\ submitted # <<>> =>
          /\ firstError # "prepare"
          /\ \A f \in Files : prepared[f] = DOMAIN header[f]
    /\ phase = "returned" => result = LastWins(Files)

LoadInv == LoadType /\ ReadInv /\ MergeInv

LEMMA EmptyQueue ==
    /\ <<>> \in Seq(Tensors) /\ IsInjective(<<>>) /\ Len(<<>>) = 0
    /\ DOMAIN <<>> = {}
BY DEF IsInjective

LEMMA InitHolds ==
    ASSUME Init
    PROVE  LoadInv
<1>1. LoadType
  <2>1. \A f \in Files : HeaderType(header[f])
    BY HeaderTypes DEF Init
  <2> QED
    BY <2>1 DEF Init, LoadType
<1>2. Started = {}
  BY DEF Init, Started
<1>3. ReadInv
  BY <1>2, EmptyQueue DEF Init, ReadInv, ReadInFileOrder
<1>4. MergeInv
  BY DEF Init, MergeInv
<1> QED
  BY <1>1, <1>3, <1>4 DEF LoadInv

LEMMA BeginHolds ==
    ASSUME LoadInv, NEW f \in Files, Begin(f)
    PROVE  LoadInv'
<1>1. /\ phase = "prepare" /\ worker' = [worker EXCEPT ![f] = "busy"]
      /\ UNCHANGED <<header, prepared, planned, firstError, phase, submitted, started,
                     loaded, failed, result>>
  BY DEF Begin
<1>2. LoadType'
  BY <1>1 DEF LoadInv, LoadType
<1>3. \A g \in Files : worker'[g] = "done" => worker[g] = "done"
  BY <1>1 DEF LoadInv, LoadType
<1>4. ReadInv'
  BY <1>1 DEF LoadInv, ReadInv, Started, ReadInFileOrder
<1>5. MergeInv'
  BY <1>1, <1>3 DEF LoadInv, MergeInv
<1> QED
  BY <1>2, <1>4, <1>5 DEF LoadInv

LEMMA SetHolds ==
    ASSUME LoadInv, NEW f \in Files, Set(f)
    PROVE  LoadInv'
<1>1. PICK names \in Plans : planned' = [planned EXCEPT ![f] = names]
  BY DEF Set
<1>2. /\ worker[f] = "busy" /\ worker' = [worker EXCEPT ![f] = "done"]
      /\ prepared' = [prepared EXCEPT ![f] = DOMAIN header[f]]
      /\ UNCHANGED <<header, firstError, phase, submitted, started, loaded, failed, result>>
  BY DEF Set
<1>3. phase = "prepare" /\ submitted = <<>> /\ started = 0
  BY <1>2 DEF LoadInv, MergeInv, ReadInv
<1>4. names \in Seq(Names) \union {NoNames} /\ (names # NoNames => IsInjective(names))
  <2> SUFFICES ASSUME names # NoNames PROVE names \in Seq(Names) /\ IsInjective(names)
    OBVIOUS
  <2>1. PICK g \in Files : names \in PlansOf(header[g])
    BY DEF Plans
  <2> QED
    BY <2>1, PlanIs DEF LoadInv, LoadType
<1>5. DOMAIN header[f] \in SUBSET Names
  BY DEF LoadInv, LoadType, HeaderType
<1>6. LoadType'
  <2>1. planned' \in [Files -> Seq(Names) \union {NoNames}]
        /\ \A g \in Files : planned'[g] # NoNames => IsInjective(planned'[g])
    BY <1>1, <1>4 DEF LoadInv, LoadType
  <2>2. worker' \in [Files -> {"waiting", "busy", "done"}] /\ prepared' \in [Files -> SUBSET Names]
    BY <1>2, <1>5 DEF LoadInv, LoadType
  <2> QED
    BY <1>2, <2>1, <2>2 DEF LoadInv, LoadType
<1>7. ReadInv'
  BY <1>2, <1>3, EmptyQueue DEF LoadInv, ReadInv, Started, ReadInFileOrder
<1>8. MergeInv'
  <2>1. prepared'[f] = DOMAIN header[f] /\ worker'[f] = "done"
        /\ \A g \in Files \ {f} : prepared'[g] = prepared[g] /\ worker'[g] = worker[g]
    BY <1>2 DEF LoadInv, LoadType
  <2> QED
    BY <1>2, <1>3, <2>1 DEF LoadInv, MergeInv
<1> QED
  BY <1>6, <1>7, <1>8 DEF LoadInv

LEMMA RecordHolds ==
    ASSUME LoadInv, NEW f \in Files, Record(f)
    PROVE  LoadInv'
<1>1. /\ worker[f] = "busy" /\ worker' = [worker EXCEPT ![f] = "done"]
      /\ firstError' # NoError
      /\ UNCHANGED <<header, prepared, planned, phase, submitted, started, loaded, failed, result>>
  BY LoadAssumption DEF Record
<1>2. phase = "prepare" /\ submitted = <<>>
  BY <1>1 DEF LoadInv, MergeInv, ReadInv
<1>3. LoadType'
  BY <1>1 DEF LoadInv, LoadType
<1>4. ReadInv'
  BY <1>1 DEF LoadInv, ReadInv, Started, ReadInFileOrder
<1>5. MergeInv'
  BY <1>1, <1>2 DEF LoadInv, MergeInv
<1> QED
  BY <1>3, <1>4, <1>5 DEF LoadInv

\* What one order of each file's tensors makes of the queue.
LEMMA QueueIs ==
    ASSUME LoadType, \A f \in Files : prepared[f] = DOMAIN header[f],
           NEW orders, DOMAIN orders = Files, orders \in [Files -> UNION {FileOrders(f) : f \in Files}],
           \A f \in Files : orders[f] \in FileOrders(f),
           NEW queue, queue = ReadOrder(EvaluationOrder(orders))
    PROVE  /\ queue \in Seq(Tensors) /\ IsInjective(queue)
           /\ ToSet(queue) = {a \in Tensors : a[2] \in prepared[a[1]]}
           /\ \A i, j \in DOMAIN queue : i < j =>
                 /\ queue[i][1] <= queue[j][1]
                 /\ /\ queue[i][1] = queue[j][1]
                    /\ planned[queue[i][1]] \in PlansOf(header[queue[i][1]]) \ {NoNames}
                    => header[queue[i][1]][queue[i][2]].end <= header[queue[i][1]][queue[j][2]].begin
<1>0. NumFiles \in Nat
  BY LoadAssumption
<1>1. ASSUME NEW f \in Files
      PROVE  /\ orders[f] \in Seq({f} \X Names) /\ IsInjective(orders[f])
             /\ ToSet(orders[f]) = {f} \X prepared[f]
             /\ Follows(f) => orders[f] = [i \in DOMAIN planned[f] |-> <<f, planned[f][i]>>]
  BY FileOrder
<1>2. OwnTensors(orders)
  BY <1>1 DEF OwnTensors
<1>3. orders \in Seq(Seq(Tensors)) /\ Len(orders) = NumFiles
  <2>1. ASSUME NEW f \in Files PROVE orders[f] \in Seq(Tensors)
    <3>1. PICK o \in Seq({f} \X Names) : o = orders[f]
      BY <1>1
    <3>2. {f} \X Names \subseteq Tensors
      BY DEF Tensors
    <3> QED
      BY <3>1, <3>2
  <2>2. orders \in [1..NumFiles -> Seq(Tensors)]
    BY <2>1 DEF Files
  <2> QED
    BY <1>0, <2>2
<1>4. InOrder(FlattenSeq(orders), orders, NumFiles)
  BY <1>2, <1>3, FlattenedInOrder DEF Tensors
<1>5. queue = FlattenSeq(orders)
  BY <1>4, TwiceReversed DEF InOrder, ReadOrder, EvaluationOrder
<1>6. InOrder(queue, orders, NumFiles) /\ queue \in Seq(Tensors)
  BY <1>4, <1>5 DEF InOrder, Tensors
<1>7. ASSUME NEW f \in Files, NEW k \in DOMAIN orders[f] PROVE orders[f][k][1] = f /\ orders[f][k] \in Tensors
  <2>1. PICK o \in Seq({f} \X Names) : o = orders[f]
    BY <1>1
  <2>2. o[k] \in {f} \X Names
    BY <1>7, <2>1
  <2> QED
    BY <2>1, <2>2 DEF Tensors
<1>8. ASSUME NEW i \in DOMAIN queue, NEW j \in DOMAIN queue, i < j
      PROVE  \/ queue[i][1] < queue[j][1]
             \/ \E f \in Files : \E a, b \in DOMAIN orders[f] :
                   a < b /\ queue[i] = orders[f][a] /\ queue[j] = orders[f][b]
  BY <1>6, <1>8 DEF InOrder, Files
<1>9. ASSUME NEW i \in DOMAIN queue PROVE queue[i][1] \in Nat /\ queue[i][1] \in Files
  <2>1. queue[i] \in Tensors
    BY <1>6
  <2> QED
    BY <2>1 DEF Tensors, Files
<1>10. ASSUME NEW i \in DOMAIN queue, NEW j \in DOMAIN queue, i < j PROVE queue[i] # queue[j]
  <2>1. CASE queue[i][1] < queue[j][1]
    BY <1>9, <2>1
  <2>2. ASSUME NEW f \in Files, NEW a \in DOMAIN orders[f], NEW b \in DOMAIN orders[f],
               a < b, queue[i] = orders[f][a], queue[j] = orders[f][b]
        PROVE  queue[i] # queue[j]
    <3>1. PICK o \in Seq({f} \X Names) : o = orders[f] /\ IsInjective(o)
      BY <1>1
    <3>2. a \in Nat /\ b \in Nat /\ a # b
      BY <2>2, <3>1
    <3> QED
      BY <2>2, <3>1, <3>2 DEF IsInjective
  <2> QED
    BY <1>8, <1>10, <2>1, <2>2
<1>11. IsInjective(queue)
  <2> SUFFICES ASSUME NEW i \in DOMAIN queue, NEW j \in DOMAIN queue, queue[i] = queue[j], i # j
               PROVE  FALSE
    BY DEF IsInjective
  <2>1. i < j \/ j < i
    BY <1>6
  <2> QED
    BY <1>10, <2>1
<1>12. ToSet(queue) = {a \in Tensors : a[2] \in prepared[a[1]]}
  <2>1. ASSUME NEW i \in DOMAIN queue PROVE queue[i] \in Tensors /\ queue[i][2] \in prepared[queue[i][1]]
    <3>1. PICK f \in Files : \E k \in DOMAIN orders[f] : queue[i] = orders[f][k]
      BY <1>6 DEF InOrder, Files
    <3>2. queue[i] \in ToSet(orders[f])
      BY <3>1 DEF ToSet
    <3>3. queue[i] \in {f} \X prepared[f]
      BY <1>1, <3>2
    <3> QED
      BY <1>6, <3>3
  <2>2. ASSUME NEW f \in Files, NEW n \in Names, n \in prepared[f] PROVE <<f, n>> \in ToSet(queue)
    <3>1. <<f, n>> \in ToSet(orders[f])
      BY <1>1, <2>2
    <3>2. PICK k \in DOMAIN orders[f] : orders[f][k] = <<f, n>>
      BY <3>1 DEF ToSet
    <3>3. PICK i \in DOMAIN queue : queue[i] = orders[f][k]
      BY <1>6 DEF InOrder, Files
    <3> QED
      BY <3>2, <3>3 DEF ToSet
  <2>3. ToSet(queue) \subseteq {a \in Tensors : a[2] \in prepared[a[1]]}
    BY <2>1 DEF ToSet
  <2>4. ASSUME NEW a \in Tensors, a[2] \in prepared[a[1]] PROVE a \in ToSet(queue)
    <3>1. a = <<a[1], a[2]>> /\ a[1] \in Files /\ a[2] \in Names
      BY DEF Tensors
    <3> QED
      BY <2>2, <2>4, <3>1
  <2> QED
    BY <2>3, <2>4
<1>13. ASSUME NEW i \in DOMAIN queue, NEW j \in DOMAIN queue, i < j
       PROVE  /\ queue[i][1] <= queue[j][1]
              /\ /\ queue[i][1] = queue[j][1]
                 /\ planned[queue[i][1]] \in PlansOf(header[queue[i][1]]) \ {NoNames}
                 => header[queue[i][1]][queue[i][2]].end <= header[queue[i][1]][queue[j][2]].begin
  <2>1. CASE queue[i][1] < queue[j][1]
    BY <1>9, <2>1
  <2>2. ASSUME NEW f \in Files, NEW a \in DOMAIN orders[f], NEW b \in DOMAIN orders[f],
               a < b, queue[i] = orders[f][a], queue[j] = orders[f][b]
        PROVE  /\ queue[i][1] = f /\ queue[j][1] = f
               /\ planned[f] \in PlansOf(header[f]) \ {NoNames}
                  => header[f][queue[i][2]].end <= header[f][queue[j][2]].begin
    <3>1. queue[i][1] = f /\ queue[j][1] = f
      BY <1>7, <2>2
    <3>2. ASSUME planned[f] \in PlansOf(header[f]), planned[f] # NoNames
          PROVE  header[f][queue[i][2]].end <= header[f][queue[j][2]].begin
      <4>1. PICK h, q : h = header[f] /\ q = planned[f] /\ HeaderType(h)
        BY DEF LoadType
      <4>2. /\ q \in Seq(Names) /\ ToSet(q) = DOMAIN h /\ Len(q) = Cardinality(DOMAIN h)
            /\ Accepted(h, q)
        BY <3>2, <4>1, PlanIs
      <4>3. Follows(f)
        BY <3>2, <4>1, <4>2 DEF Follows
      <4>4. orders[f] = [k \in DOMAIN q |-> <<f, q[k]>>]
        BY <1>1, <4>1, <4>3
      <4>5. a \in DOMAIN q /\ b \in DOMAIN q /\ queue[i] = <<f, q[a]>> /\ queue[j] = <<f, q[b]>>
        BY <2>2, <4>4
      <4>6. h[q[a]].end <= h[q[b]].begin
        BY <2>2, <4>1, <4>2, <4>5, Ascending
      <4> QED
        BY <4>1, <4>5, <4>6
    <3> QED
      BY <3>1, <3>2
  <2>3. CASE \E f \in Files : \E a, b \in DOMAIN orders[f] :
                a < b /\ queue[i] = orders[f][a] /\ queue[j] = orders[f][b]
    <3>1. PICK f \in Files : \E a, b \in DOMAIN orders[f] :
                a < b /\ queue[i] = orders[f][a] /\ queue[j] = orders[f][b]
      BY <2>3
    <3>2. /\ queue[i][1] = f /\ queue[j][1] = f
          /\ planned[f] \in PlansOf(header[f]) \ {NoNames}
             => header[f][queue[i][2]].end <= header[f][queue[j][2]].begin
      BY <2>2, <3>1
    <3> QED
      BY <1>9, <3>2
  <2> QED
    BY <1>8, <1>13, <2>1, <2>3
<1> QED
  BY <1>6, <1>11, <1>12, <1>13

LEMMA ResultHolds ==
    ASSUME LoadInv, Result
    PROVE  LoadInv'
<1>1. /\ phase = "prepare" /\ \A f \in Files : worker[f] = "done"
      /\ UNCHANGED <<header, worker, prepared, planned, firstError, started, loaded, failed, result>>
  BY DEF Result, PreparationEnds
<1>2. submitted = <<>> /\ started = 0
  BY <1>1 DEF LoadInv, ReadInv
<1>3. Started' = {} /\ loaded = {} /\ failed = {}
  <2>1. Started = {} /\ Started' = {}
    BY <1>1, <1>2 DEF Started
  <2> QED
    BY <2>1 DEF LoadInv, ReadInv
<1>4. LoadType'
  BY <1>1 DEF LoadInv, LoadType
<1>5. CASE firstError # NoError
  <2>1. phase' = "threw" /\ submitted' = <<>>
    BY <1>2, <1>5 DEF Result
  <2>2. ReadInv'
    BY <1>1, <1>2, <1>3, <2>1, EmptyQueue DEF ReadInv, ReadInFileOrder
  <2>3. MergeInv'
    BY <1>1, <1>5, <2>1 DEF MergeInv
  <2> QED
    BY <1>4, <2>2, <2>3 DEF LoadInv
<1>6. CASE firstError = NoError
  <2>1. PICK orders \in [Files -> UNION {FileOrders(f) : f \in Files}] :
          /\ \A f \in Files : orders[f] \in FileOrders(f)
          /\ submitted' = ReadOrder(EvaluationOrder(orders))
    BY <1>6 DEF Result
  <2>2. phase' = "schedule"
    BY <1>6 DEF Result
  <2>3. \A f \in Files : prepared[f] = DOMAIN header[f]
    BY <1>1, <1>6 DEF LoadInv, MergeInv
  <2>4. PICK queue : queue = submitted'
    OBVIOUS
  <2>5. /\ queue \in Seq(Tensors) /\ IsInjective(queue)
        /\ ToSet(queue) = {a \in Tensors : a[2] \in prepared[a[1]]}
        /\ \A i, j \in DOMAIN queue : i < j =>
              /\ queue[i][1] <= queue[j][1]
              /\ /\ queue[i][1] = queue[j][1]
                 /\ planned[queue[i][1]] \in PlansOf(header[queue[i][1]]) \ {NoNames}
                 => header[queue[i][1]][queue[i][2]].end <= header[queue[i][1]][queue[j][2]].begin
    <3>1. DOMAIN orders = Files /\ queue = ReadOrder(EvaluationOrder(orders))
      BY <2>1, <2>4
    <3> QED
      BY <2>1, <2>3, <3>1, QueueIs DEF LoadInv
  <2>6. ReadInFileOrder'
    BY <1>1, <2>4, <2>5 DEF ReadInFileOrder
  <2>7. ReadInv'
    <3>1. started' = 0 /\ 0 \in 0..Len(queue)
      BY <1>1, <1>2, <2>5
    <3> QED
      BY <1>1, <1>2, <1>3, <2>2, <2>4, <2>5, <2>6, <3>1 DEF ReadInv
  <2>8. MergeInv'
    BY <1>1, <1>6, <2>2, <2>3, <2>4, <2>5, LoadAssumption DEF MergeInv
  <2> QED
    BY <1>4, <2>7, <2>8 DEF LoadInv
<1> QED
  BY <1>5, <1>6

\* A part of the queue, cut off behind any tensor, is one like it.
LEMMA PartOfTheQueue ==
    ASSUME ReadInv, NEW n \in 0..Len(submitted), submitted' = SubSeq(submitted, 1, n),
           UNCHANGED <<header, planned>>
    PROVE  /\ submitted' \in Seq(Tensors) /\ IsInjective(submitted') /\ Len(submitted') = n
           /\ ReadInFileOrder'
           /\ submitted' # <<>> => submitted # <<>>
<1>1. PICK queue \in Seq(Tensors) : queue = submitted
  BY DEF ReadInv
<1>2. PICK part : part = SubSeq(queue, 1, n)
  OBVIOUS
<1>3. n \in Nat /\ n <= Len(queue) /\ Len(queue) \in Nat
  BY <1>1
<1>4. /\ part \in Seq(Tensors) /\ Len(part) = n /\ DOMAIN part = 1..n
      /\ \A i \in 1..n : i \in DOMAIN queue /\ part[i] = queue[i]
  BY <1>1, <1>2, <1>3
<1>5. IsInjective(part)
  BY <1>1, <1>4 DEF ReadInv, IsInjective
<1>6. submitted' = part
  BY <1>1, <1>2
<1>7. ReadInFileOrder'
  BY <1>1, <1>4, <1>6 DEF ReadInv, ReadInFileOrder
<1>8. part # <<>> => queue # <<>>
  BY <1>3, <1>4
<1> QED
  BY <1>1, <1>4, <1>5, <1>6, <1>7, <1>8

LEMMA ScheduleHolds ==
    ASSUME LoadInv, Schedule
    PROVE  LoadInv'
<1>1. /\ phase = "schedule" /\ started = 0
      /\ UNCHANGED <<header, worker, prepared, planned, started, loaded, failed, result>>
  BY DEF Schedule, LoadInv, ReadInv
<1>2. LoadType'
  BY <1>1 DEF LoadInv, LoadType
<1>3. Started = {} /\ Started' = {} /\ loaded = {} /\ failed = {}
  <2>1. Started = {} /\ Started' = {}
    BY <1>1 DEF Started
  <2> QED
    BY <2>1 DEF LoadInv, ReadInv
<1>4. CASE phase' = "eval" /\ UNCHANGED <<firstError, submitted>>
  <2>1. ReadInv'
    BY <1>1, <1>3, <1>4 DEF LoadInv, ReadInv, ReadInFileOrder
  <2>2. MergeInv'
    BY <1>1, <1>4 DEF LoadInv, MergeInv
  <2> QED
    BY <1>2, <2>1, <2>2 DEF LoadInv
<1>5. CASE phase' = "threw" /\ firstError' = "schedule"
           /\ \E n \in 0..Len(submitted) : submitted' = SubSeq(submitted, 1, n)
  <2>1. PICK n \in 0..Len(submitted) : submitted' = SubSeq(submitted, 1, n)
    BY <1>5
  <2>2. /\ submitted' \in Seq(Tensors) /\ IsInjective(submitted') /\ Len(submitted') = n
        /\ ReadInFileOrder'
        /\ submitted' # <<>> => submitted # <<>>
    BY <1>1, <2>1, PartOfTheQueue DEF LoadInv
  <2>3. IsInjective(submitted)'
    BY <2>2 DEF IsInjective
  <2>4. started' \in 0..Len(submitted')
    BY <1>1, <2>1, <2>2
  <2>5. ReadInv'
    BY <1>1, <1>3, <1>5, <2>2, <2>3, <2>4 DEF ReadInv
  <2>6. MergeInv'
    BY <1>1, <1>5, <2>2, LoadAssumption DEF LoadInv, MergeInv
  <2> QED
    BY <1>2, <2>5, <2>6 DEF LoadInv
<1> QED
  BY <1>4, <1>5 DEF Schedule

LEMMA StartReadHolds ==
    ASSUME LoadInv, StartRead
    PROVE  LoadInv'
<1>1. /\ phase \in {"eval", "threw"} /\ started < Len(submitted) /\ started' = started + 1
      /\ UNCHANGED <<header, worker, prepared, planned, firstError, phase, submitted, loaded,
                     failed, result>>
  BY DEF StartRead, MoreToRead
<1>2. LoadType'
  BY <1>1 DEF LoadInv, LoadType
<1>3. PICK length \in Nat : length = Len(submitted) /\ started \in 0..length
  BY DEF LoadInv, ReadInv
<1>4. started' \in 0..length /\ 1..started \subseteq 1..started'
  BY <1>1, <1>3
<1>5. Started \subseteq Started'
  BY <1>1, <1>4 DEF Started
<1>6. ReadInFileOrder'
  BY <1>1 DEF LoadInv, ReadInv, ReadInFileOrder
<1>7. ReadInv'
  BY <1>1, <1>3, <1>4, <1>5, <1>6 DEF LoadInv, ReadInv
<1>8. MergeInv'
  BY <1>1 DEF LoadInv, MergeInv
<1> QED
  BY <1>2, <1>7, <1>8 DEF LoadInv

LEMMA FinishReadHolds ==
    ASSUME LoadInv, NEW a \in Files \X Names, FinishRead(a)
    PROVE  LoadInv'
<1>1. /\ a \in Started /\ a \notin loaded \union failed
      /\ loaded' \union failed' = loaded \union failed \union {a}
      /\ UNCHANGED <<header, worker, prepared, planned, firstError, phase, submitted, started, result>>
  BY DEF FinishRead
<1>2. phase \notin {"prepare", "schedule", "returned"}
  <2>1. started # 0 /\ a \in ToSet(submitted)
    BY <1>1 DEF Started, ToSet, LoadInv, ReadInv
  <2> QED
    BY <1>1, <2>1 DEF LoadInv, ReadInv
<1>3. LoadType'
  BY <1>1 DEF LoadInv, LoadType
<1>4. Started' = Started /\ ReadInFileOrder'
  BY <1>1 DEF Started, LoadInv, ReadInv, ReadInFileOrder
<1>5. ReadInv'
  BY <1>1, <1>2, <1>4 DEF LoadInv, ReadInv
<1>6. MergeInv'
  BY <1>1, <1>2 DEF LoadInv, MergeInv
<1> QED
  BY <1>3, <1>5, <1>6 DEF LoadInv

LEMMA FinishHolds ==
    ASSUME LoadInv, Finish
    PROVE  LoadInv'
<1>1. /\ phase = "eval"
      /\ UNCHANGED <<header, worker, prepared, planned, submitted, started, loaded, failed>>
  BY DEF Finish
<1>2. LoadType'
  BY <1>1 DEF LoadInv, LoadType
<1>3. Started' = Started /\ ReadInFileOrder'
  BY <1>1 DEF Started, LoadInv, ReadInv, ReadInFileOrder
<1>4. CASE /\ ToSet(submitted) = loaded
           /\ phase' = "returned" /\ UNCHANGED firstError
           /\ result' = FoldLeft(Merge, [n \in {} |-> 0], [f \in Files |-> f])
  <2>1. result' = LastWins(Files)
    BY <1>4, MergedIs
  <2>2. LastWins(Files)' = LastWins(Files)
    BY <1>1 DEF LastWins
  <2>3. ReadInv'
    BY <1>1, <1>3, <1>4 DEF LoadInv, ReadInv
  <2>4. MergeInv'
    BY <1>1, <1>4, <2>1, <2>2 DEF LoadInv, MergeInv
  <2> QED
    BY <1>2, <2>3, <2>4 DEF LoadInv
<1>5. CASE phase' = "threw" /\ firstError' = "read" /\ UNCHANGED result
  <2>1. ReadInv'
    BY <1>1, <1>3, <1>5 DEF LoadInv, ReadInv
  <2>2. MergeInv'
    BY <1>1, <1>5, LoadAssumption DEF LoadInv, MergeInv
  <2> QED
    BY <1>2, <2>1, <2>2 DEF LoadInv
<1> QED
  BY <1>4, <1>5 DEF Finish

LEMMA NextHolds ==
    ASSUME LoadInv, [Next]_vars
    PROVE  LoadInv'
<1>1. CASE Next
  BY <1>1, BeginHolds, SetHolds, RecordHolds, ResultHolds, ScheduleHolds, StartReadHolds,
     FinishReadHolds, FinishHolds DEF Next
<1>2. CASE UNCHANGED vars
  <2>1. Started' = Started
    BY <1>2 DEF vars, Started
  <2>2. LoadType'
    BY <1>2 DEF vars, LoadInv, LoadType
  <2>3. ReadInv'
    BY <1>2, <2>1 DEF vars, LoadInv, ReadInv, ReadInFileOrder
  <2>4. MergeInv'
    BY <1>2 DEF vars, LoadInv, MergeInv, LastWins
  <2> QED
    BY <2>2, <2>3, <2>4 DEF LoadInv
<1> QED
  BY <1>1, <1>2

LEMMA Invariance == Spec => []LoadInv
BY InitHolds, NextHolds, PTL DEF Spec

-----------------------------------------------------------------------------
(* The theorems.                                                           *)

(* For headers of any tensors at any offsets, and whatever order the sort  *)
(* leaves equal spans in, the plan is made exactly when the tensors tile   *)
(* the data.                                                               *)
THEOREM PlansExactlyTilings == Spec => []PlansWhatTiles
<1>1. ASSUME LoadInv, NEW f \in Files, NEW q \in Sorted(header[f])
      PROVE  (NamesInFileOrder(header[f], q) # NoNames) <=> Tiles(header[f])
  <2>1. PICK h : h = header[f] /\ HeaderType(h) /\ q \in Sorted(h)
    BY <1>1 DEF LoadInv, LoadType
  <2>2. q # NoNames
    <3>1. IsFiniteSet(DOMAIN h) /\ DOMAIN h \subseteq Names
      BY <2>1, NamesFinite DEF HeaderType
    <3>2. q \in Seq(DOMAIN h)
      BY <2>1, <3>1, Permutation DEF Sorted
    <3>3. q \in Seq(Names)
      BY <3>1, <3>2
    <3> QED
      BY <3>3, LoadAssumption
  <2>3. NamesInFileOrder(h, q) # NoNames <=> Accepted(h, q)
    BY <2>2 DEF NamesInFileOrder
  <2> QED
    BY <2>1, <2>3, AcceptedTiles
<1>2. LoadInv => PlansWhatTiles
  BY <1>1 DEF PlansWhatTiles
<1> QED
  BY <1>2, Invariance, PTL

(* However many files are loaded, one that cannot be prepared keeps every  *)
(* payload from being read, and neither the reads nor the end of the call  *)
(* come before the last worker is done.                                    *)
THEOREM NoPayloadOfAFailedPreparation == Spec => []AllPreparedOrNoneRead
<1>1. ASSUME LoadInv PROVE AllPreparedOrNoneRead
  <2>1. started > 0 => submitted # <<>>
    BY <1>1, EmptyQueue DEF LoadInv, ReadInv
  <2> QED
    BY <1>1, <2>1 DEF LoadInv, MergeInv, AllPreparedOrNoneRead
<1> QED
  BY <1>1, Invariance, PTL

(* Whatever the orders of the dictionaries and of the sort, the payloads   *)
(* are read by file, and by offset where the file's plan is of its header. *)
THEOREM ReadsFollowTheFiles == Spec => []ReadInFileOrder
<1>1. LoadInv => ReadInFileOrder
  BY DEF LoadInv, ReadInv
<1> QED
  BY <1>1, Invariance, PTL

(* The dictionary that is returned is the one of a serial loop over the    *)
(* urls, and every array of it was read.                                   *)
THEOREM ReturnsAsASerialLoop == Spec => []ReturnsSerialMerge
<1>1. ASSUME LoadInv, phase = "returned"
      PROVE  /\ DOMAIN result = UNION {DOMAIN header[f] : f \in Files}
             /\ \A n \in DOMAIN result : result[n] = Max({f \in Files : n \in DOMAIN header[f]})
             /\ \A f \in Files : \A n \in DOMAIN header[f] : <<f, n>> \in loaded
  <2>1. \A f \in Files : prepared[f] = DOMAIN header[f]
    BY <1>1 DEF LoadInv, MergeInv
  <2>2. result = [n \in UNION {prepared[f] : f \in Files} |->
                     Max({f \in Files : n \in prepared[f]})]
    BY <1>1 DEF LoadInv, MergeInv, LastWins
  <2>3. /\ UNION {prepared[f] : f \in Files} = UNION {DOMAIN header[f] : f \in Files}
        /\ \A n : {f \in Files : n \in prepared[f]} = {f \in Files : n \in DOMAIN header[f]}
    BY <2>1
  <2>4. DOMAIN result = UNION {prepared[f] : f \in Files}
    BY <2>2
  <2>5. \A n \in DOMAIN result : result[n] = Max({f \in Files : n \in DOMAIN header[f]})
    BY <2>2, <2>3, <2>4
  <2>6. ASSUME NEW f \in Files, NEW n \in DOMAIN header[f] PROVE <<f, n>> \in loaded
    <3>1. <<f, n>> \in Tensors /\ n \in prepared[f]
      <4>1. prepared[f] \subseteq Names
        BY <1>1 DEF LoadInv, LoadType
      <4> QED
        BY <2>1, <2>6, <4>1 DEF Tensors
    <3>2. <<f, n>> \in ToSet(submitted)
      BY <1>1, <3>1 DEF LoadInv, MergeInv
    <3>3. ToSet(submitted) \subseteq loaded
      BY <1>1 DEF LoadInv, ReadInv
    <3> QED
      BY <3>2, <3>3
  <2> QED
    BY <2>3, <2>4, <2>5, <2>6
<1>2. LoadInv => ReturnsSerialMerge
  BY <1>1 DEF ReturnsSerialMerge
<1> QED
  BY <1>2, Invariance, PTL
=============================================================================
