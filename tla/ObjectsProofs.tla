----------------------------- MODULE ObjectsProofs ----------------------------
(***************************************************************************)
(* What TLAPS proves of the library's small shared objects: of the         *)
(* evaluation probe for any threads and readers, and of random states, the *)
(* constant cast cache and file readers for any number of users.           *)
(***************************************************************************)
EXTENDS MCObjects, SequenceTheorems, FiniteSetTheorems, WellFoundedInduction, TLAPS

-----------------------------------------------------------------------------
(* The evaluation probe.                                                   *)

(* The start is set while a bracket is open, and is no later than the time *)
(* any open bracket was opened.                                            *)
SinceInv ==
    /\ since # 0 <=> Open # {}
    /\ \A t \in Open : since <= opened[t].time
    /\ \A t \in Threads : at[t] # "idle" => now[t] # 0

ProbeInv == TypeOK /\ SinceInv

LEMMA OpenFinite ==
    /\ IsFiniteSet(Open)
    /\ Cardinality(Open) \in Nat
    /\ Cardinality(Open) = 0 <=> Open = {}
<1>1. IsFiniteSet(Open)
  BY TimeAssumption, FS_Subset DEF Open
<1> QED
  BY <1>1, FS_CardinalityType, FS_EmptySet

LEMMA InitProbeInv == Init => ProbeInv
<1> SUFFICES ASSUME Init PROVE ProbeInv
  OBVIOUS
<1>1. Open = {}
  BY DEF Init, Open
<1>2. TypeOK
  BY <1>1, TimeAssumption, FS_EmptySet DEF Init, TypeOK, Stages
<1>3. SinceInv
  BY <1>1 DEF Init, SinceInv
<1> QED
  BY <1>2, <1>3 DEF ProbeInv

\* A bracket opens.
LEMMA OpenPreserves ==
    ASSUME ProbeInv, NEW t \in Threads, OpenBracket(t)
    PROVE  ProbeInv'
<1> USE DEF ProbeInv
<1>1. Open' = Open \union {t} /\ t \notin Open
  BY DEF OpenBracket, Goto, Open, TypeOK
<1>2. Cardinality(Open') = Cardinality(Open) + 1
  BY <1>1, OpenFinite, FS_AddElement
<1>3. depth' = Cardinality(Open') /\ (depth = 0 <=> Open = {})
  BY <1>2, OpenFinite DEF OpenBracket, TypeOK
<1>4. now[t] \in 1..clock
  BY DEF OpenBracket, SinceInv, TypeOK, Actors
<1>5. since' \in 1..clock
  BY <1>3, <1>4 DEF OpenBracket, StampedSince, SinceInv, TypeOK
<1>6. TypeOK'
  BY <1>3, <1>5 DEF OpenBracket, Goto, TypeOK, Stages, Actors
<1>7. \A u \in Open' : since' <= opened'[u].time
  <2>1. opened'[t].time = clock
    BY DEF OpenBracket, TypeOK
  <2>2. ASSUME NEW u \in Open, u # t PROVE since' <= opened'[u].time
    <3>1. since' = since /\ opened'[u] = opened[u]
      BY <2>2, <1>3 DEF OpenBracket, StampedSince, TypeOK
    <3> QED
      BY <3>1, <2>2 DEF SinceInv
  <2> QED
    BY <1>1, <1>5, <2>1, <2>2 DEF TypeOK
<1>8. SinceInv'
  BY <1>1, <1>5, <1>7 DEF SinceInv, OpenBracket, Goto, TypeOK
<1> QED
  BY <1>6, <1>8

\* A bracket closes.
LEMMA ClosePreserves ==
    ASSUME ProbeInv, NEW t \in Threads, CloseBracket(t)
    PROVE  ProbeInv'
<1> USE DEF ProbeInv
<1>1. Open' = Open \ {t} /\ t \in Open
  BY DEF CloseBracket, Goto, Open, TypeOK
<1>2. Cardinality(Open') = Cardinality(Open) - 1 /\ Cardinality(Open) \in Nat
  BY <1>1, OpenFinite, FS_RemoveElement
<1>3. IsFiniteSet(Open') /\ (Cardinality(Open') = 0 <=> Open' = {}) /\ Cardinality(Open') \in Nat
  BY <1>1, OpenFinite, FS_Subset, FS_EmptySet, FS_CardinalityType
<1>4. depth' = Cardinality(Open')
  BY <1>2, <1>3 DEF CloseBracket, TypeOK
<1>5. IF Open' = {} THEN since' = 0 ELSE since' = since
  BY <1>2, <1>3 DEF CloseBracket, TypeOK
<1>6. Elapsed(now[t]) \in 0..clock
  BY DEF Elapsed, TypeOK, Actors
<1>7. TypeOK'
  BY <1>4, <1>5, <1>6 DEF CloseBracket, Goto, TypeOK, Stages, Actors
<1>8. SinceInv'
  BY <1>1, <1>5 DEF SinceInv, CloseBracket, Goto, TypeOK
<1> QED
  BY <1>7, <1>8

\* Reading the clock, reporting and the passing of time.
LEMMA OthersPreserve ==
    ASSUME ProbeInv,
           \/ UNCHANGED vars
           \/ Tick
           \/ \E t \in Threads : BeginEval(t) \/ EndEval(t)
           \/ \E r \in Readers : ReadElapsed(r) \/ Report(r)
    PROVE  ProbeInv'
<1> USE DEF ProbeInv
<1>1. Open' = Open
  BY DEF vars, probe, Tick, BeginEval, EndEval, ReadElapsed, Report, Goto, Open, TypeOK
<1>2. /\ UNCHANGED <<depth, since, completed, longest, opened, returned>>
      /\ clock' \in {clock, clock + 1} /\ clock' \in 1..MaxTime
  BY TimeAssumption DEF vars, probe, Tick, BeginEval, EndEval, ReadElapsed, Report, TypeOK
<1>3. now' \in [Actors -> 0..clock']
  BY DEF vars, Tick, BeginEval, EndEval, ReadElapsed, Report, ReadClock, TypeOK, Actors
<1>4. reported' \in [Readers -> 0..clock']
  <2>1. \A r \in Readers : Elapsed(now[r]) \in 0..clock
    BY DEF Elapsed, TypeOK, Actors
  <2> QED
    BY <2>1 DEF vars, Tick, BeginEval, EndEval, ReadElapsed, Report, TypeOK
<1>5. at' \in [Threads -> Stages]
  BY DEF vars, Tick, BeginEval, EndEval, ReadElapsed, Report, Goto, TypeOK, Stages
<1>6. TypeOK'
  BY <1>1, <1>2, <1>3, <1>4, <1>5 DEF TypeOK
<1>7. \A t \in Threads : at'[t] # "idle" => now'[t] # 0
  <2>1. \A r \in Readers, t \in Threads : r # t
    BY TimeAssumption
  <2>2. CASE \E r \in Readers : ReadElapsed(r) \/ Report(r)
    BY <2>1, <2>2 DEF ReadElapsed, Report, ReadClock, SinceInv, TypeOK, Actors
  <2> QED
    BY <2>2 DEF vars, Tick, BeginEval, EndEval, ReadClock, Goto, SinceInv, TypeOK, Actors
<1>8. SinceInv'
  BY <1>1, <1>2, <1>7 DEF SinceInv
<1> QED
  BY <1>6, <1>8

LEMMA ProbeStep == ProbeInv /\ [Next]_vars => ProbeInv'
BY OpenPreserves, ClosePreserves, OthersPreserve DEF Next

LEMMA ProbeInvariance == Spec => []ProbeInv
BY InitProbeInv, ProbeStep, PTL DEF Spec

(* The probe's depth is the number of open evals, so it never goes below 0.*)
THEOREM TypeCorrect == Spec => []TypeOK
<1>1. ProbeInv => TypeOK
  BY DEF ProbeInv
<1> QED
  BY <1>1, ProbeInvariance, PTL

(* inFlight is true just while an eval is inside its bracket.              *)
THEOREM InFlightExact == Spec => []InFlightIsExact
<1>1. ProbeInv => InFlightIsExact
  BY DEF ProbeInv, SinceInv, InFlightIsExact
<1> QED
  BY <1>1, ProbeInvariance, PTL

(* The elapsed time a reader reports is never less than the time from the  *)
(* opening of any open eval to the reader's clock: a stuck eval shows.     *)
THEOREM StuckEvalShows == Spec => ReportCoversOpenEvals
<1>1. ASSUME ProbeInv, [Next]_vars
      PROVE  [\A r \in Readers : Report(r) =>
                 \A t \in Open : now[r] <= opened[t].time + reported'[r]]_vars
  <2> SUFFICES ASSUME NEW r \in Readers, Report(r), NEW t \in Open
               PROVE  now[r] <= opened[t].time + reported'[r]
    OBVIOUS
  <2>1. reported'[r] = Elapsed(now[r])
    BY <1>1 DEF Report, ProbeInv, TypeOK
  <2>2. since <= opened[t].time /\ since # 0
    BY <1>1 DEF ProbeInv, SinceInv
  <2>3. /\ now[r] \in Nat /\ since \in Nat /\ opened[t].time \in Nat
    BY <1>1 DEF ProbeInv, TypeOK, Actors, Open
  <2> QED
    BY <2>1, <2>2, <2>3 DEF Elapsed
<1> QED
  BY <1>1, ProbeInvariance, PTL DEF Spec, ReportCoversOpenEvals

-----------------------------------------------------------------------------
(* The constant cast cache.                                                *)

\* The entry's snapshot keeps the descriptor it was made from.
CastInv ==
    /\ content \in [Addresses -> Constants \union {Tracer}]
    /\ descriptor \in [Arrays -> Addresses]
    /\ entry # Nothing =>
          /\ entry.sourceSnapshot = entry.identity /\ entry.identity \in Addresses
          /\ content[entry.identity] # Tracer
          /\ entry.converted = [of |-> content[entry.identity], on |-> entry.stream]

LEMMA CastStep ==
    ASSUME CastInv, Casts!Next
    PROVE  CastInv'
<1>1. ASSUME NEW a \in Arrays, Casts!Update(a) PROVE CastInv'
  <2>1. PICK address \in Addresses \ Casts!Retained, c \in Constants \union {Tracer} :
          /\ descriptor' = [descriptor EXCEPT ![a] = address]
          /\ content' = [content EXCEPT ![address] = c]
          /\ entry' = entry
    BY <1>1 DEF Casts!Update
  <2>2. entry # Nothing => address # entry.identity
    BY <2>1 DEF Casts!Retained, CastInv
  <2> QED
    BY <2>1, <2>2 DEF CastInv
<1>2. ASSUME NEW a \in Arrays, Casts!CachedCast(a) PROVE CastInv'
  <2>1. /\ entry' = [identity |-> descriptor[a], stream |-> stream,
                     sourceSnapshot |-> descriptor[a], converted |-> Casts!Converted(a)]
        /\ UNCHANGED <<descriptor, content>>
        /\ content[descriptor[a]] # Tracer
    BY <1>2 DEF Casts!CachedCast, Casts!CanCache
  <2> QED
    BY <2>1 DEF CastInv, Casts!Converted
<1>3. CASE Casts!SetDefaultStream \/ Casts!Clear
  BY <1>3 DEF Casts!SetDefaultStream, Casts!Clear, CastInv
<1> QED
  BY <1>1, <1>2, <1>3 DEF Casts!Next

(* A cast found in the cache is never of another constant that came to the *)
(* same address, of a tracer, or for another stream, however the arrays    *)
(* are updated and descriptors freed (cachedCast, Entry.sourceSnapshot).   *)
THEOREM CastsAreCurrent == ObjectsSpec => []CastIsOfCurrent
<1> DEFINE Inv == part = "casts" => CastInv
<1>1. ObjectsInit => Inv
  BY DEF ObjectsInit, CastInv, Casts!Init
<1>2. Inv /\ [ObjectsNext]_ObjectsVars => Inv'
  BY CastStep DEF ObjectsNext, ObjectsVars, castsVars, CastInv
<1>3. Inv => CastIsOfCurrent
  BY DEF CastInv, CastIsOfCurrent, Casts!CastIsOfCurrent, Casts!Answer, Casts!CanCache,
         Casts!Hit, Casts!Converted
<1> QED
  BY <1>1, <1>2, <1>3, PTL DEF ObjectsSpec

-----------------------------------------------------------------------------
(* Random states.                                                          *)

RandomKey == [seed : Seeds, path : Seq({0, 1})]

LEMMA PrefixIs ==
    ASSUME NEW p \in Seq({0, 1}), NEW q \in Seq({0, 1})
    PROVE  Random!IsPrefix(p, q)
              <=> Len(p) <= Len(q) /\ \A i \in 1..Len(p) : p[i] = q[i]
<1>1. Len(p) \in Nat /\ Len(q) \in Nat
  BY LenProperties
<1>2. SUFFICES ASSUME Len(p) <= Len(q)
               PROVE  SubSeq(p, 1, Len(p)) = SubSeq(q, 1, Len(p))
                         <=> \A i \in 1..Len(p) : p[i] = q[i]
  BY DEF Random!IsPrefix
<1>3. PICK m \in Nat : m = Len(p)
  BY <1>1
<1>4. /\ SubSeq(p, 1, m) \in Seq({0, 1}) /\ Len(SubSeq(p, 1, m)) = m
      /\ \A i \in 1..m : SubSeq(p, 1, m)[i] = p[i]
  <2>1. \A i \in 1..m : p[i] \in {0, 1}
    BY <1>3, ElementOfSeq
  <2>2. /\ SubSeq(p, 1, m) \in Seq({0, 1})
        /\ Len(SubSeq(p, 1, m)) = IF 1 <= m THEN m - 1 + 1 ELSE 0
        /\ \A i \in 1..m - 1 + 1 : SubSeq(p, 1, m)[i] = p[1 + i - 1]
    BY <2>1, SubSeqProperties
  <2> QED
    BY <2>2
<1>5. /\ SubSeq(q, 1, m) \in Seq({0, 1}) /\ Len(SubSeq(q, 1, m)) = m
      /\ \A i \in 1..m : SubSeq(q, 1, m)[i] = q[i]
  <2>1. \A i \in 1..m : q[i] \in {0, 1}
    BY <1>1, <1>2, <1>3, ElementOfSeq
  <2>2. /\ SubSeq(q, 1, m) \in Seq({0, 1})
        /\ Len(SubSeq(q, 1, m)) = IF 1 <= m THEN m - 1 + 1 ELSE 0
        /\ \A i \in 1..m - 1 + 1 : SubSeq(q, 1, m)[i] = q[1 + i - 1]
    BY <2>1, SubSeqProperties
  <2> QED
    BY <2>2
<1>6. ASSUME SubSeq(p, 1, m) = SubSeq(q, 1, m), NEW i \in 1..m PROVE p[i] = q[i]
  BY <1>4, <1>5, <1>6
<1>7. ASSUME \A i \in 1..m : p[i] = q[i] PROVE SubSeq(p, 1, m) = SubSeq(q, 1, m)
  BY <1>4, <1>5, <1>7, SeqEqual
<1> QED
  BY <1>3, <1>6, <1>7

LEMMA SideType ==
    ASSUME NEW k \in RandomKey, NEW side \in {0, 1}
    PROVE  /\ Random!Side(k, side) \in RandomKey
           /\ Random!Side(k, side).seed = k.seed
           /\ Len(Random!Side(k, side).path) = Len(k.path) + 1
           /\ \A i \in 1..Len(k.path) : Random!Side(k, side).path[i] = k.path[i]
           /\ Random!Side(k, side).path[Len(k.path) + 1] = side
<1>1. PICK path \in Seq({0, 1}) : path = Append(k.path, side)
  BY AppendProperties DEF RandomKey
<1>2. k.path \in Seq({0, 1}) /\ Len(k.path) \in Nat
  BY LenProperties DEF RandomKey
<1>3. /\ Len(path) = Len(k.path) + 1 /\ path[Len(k.path) + 1] = side
      /\ \A i \in 1..Len(k.path) : path[i] = k.path[i]
  BY <1>1, <1>2, AppendProperties
<1>4. /\ Random!Side(k, side) \in RandomKey
      /\ Random!Side(k, side).seed = k.seed /\ Random!Side(k, side).path = path
  BY <1>1 DEF Random!Side, RandomKey
<1> QED
  BY <1>3, <1>4

\* Whoever is related to a half is related to what was split.
LEMMA SideRelated ==
    ASSUME NEW j \in RandomKey, NEW k \in RandomKey, NEW side \in {0, 1},
           Random!Related(Random!Side(k, side), j)
    PROVE  Random!Related(k, j)
<1>1. PICK h \in RandomKey : h = Random!Side(k, side)
  BY SideType
<1>2. /\ h.seed = k.seed /\ Len(h.path) = Len(k.path) + 1
      /\ \A i \in 1..Len(k.path) : h.path[i] = k.path[i]
  BY <1>1, SideType
<1>3. /\ h.path \in Seq({0, 1}) /\ k.path \in Seq({0, 1}) /\ j.path \in Seq({0, 1})
      /\ Len(h.path) \in Nat /\ Len(k.path) \in Nat /\ Len(j.path) \in Nat
  BY LenProperties DEF RandomKey
<1>4. k.seed = j.seed /\ (Random!IsPrefix(h.path, j.path) \/ Random!IsPrefix(j.path, h.path))
  BY <1>1, <1>2 DEF Random!Related
<1>5. CASE Random!IsPrefix(h.path, j.path)
  <2>0. Len(h.path) <= Len(j.path) /\ \A i \in 1..Len(h.path) : h.path[i] = j.path[i]
    BY <1>3, <1>5, PrefixIs
  <2>2. Len(k.path) <= Len(j.path) /\ \A i \in 1..Len(k.path) : k.path[i] = j.path[i]
    BY <1>2, <1>3, <2>0
  <2>1. Random!IsPrefix(k.path, j.path)
    BY <1>3, <2>2, PrefixIs
  <2> QED
    BY <1>4, <2>1 DEF Random!Related
<1>6. CASE Random!IsPrefix(j.path, h.path)
  <2>1. Len(j.path) <= Len(h.path) /\ \A i \in 1..Len(j.path) : j.path[i] = h.path[i]
    BY <1>3, <1>6, PrefixIs
  <2>2. CASE Len(j.path) <= Len(k.path)
    <3>1. \A i \in 1..Len(j.path) : j.path[i] = k.path[i]
      BY <1>2, <1>3, <2>1, <2>2
    <3>2. Random!IsPrefix(j.path, k.path)
      BY <1>3, <2>2, <3>1, PrefixIs
    <3> QED
      BY <1>4, <3>2 DEF Random!Related
  <2>3. CASE Len(j.path) > Len(k.path)
    <3>1. \A i \in 1..Len(k.path) : k.path[i] = j.path[i]
      BY <1>2, <1>3, <2>1, <2>3
    <3>2. Random!IsPrefix(k.path, j.path)
      BY <1>3, <2>3, <3>1, PrefixIs
    <3> QED
      BY <1>4, <3>2 DEF Random!Related
  <2> QED
    BY <1>3, <2>2, <2>3
<1> QED
  BY <1>4, <1>5, <1>6

LEMMA HalvesUnrelated ==
    ASSUME NEW k \in RandomKey
    PROVE  ~Random!Related(Random!Side(k, 1), Random!Side(k, 0))
<1>1. PICK g \in RandomKey, h \in RandomKey : g = Random!Side(k, 1) /\ h = Random!Side(k, 0)
  BY SideType
<1>2. /\ Len(g.path) = Len(k.path) + 1 /\ g.path[Len(k.path) + 1] = 1
      /\ Len(h.path) = Len(k.path) + 1 /\ h.path[Len(k.path) + 1] = 0
  BY <1>1, SideType
<1>3. g.path \in Seq({0, 1}) /\ h.path \in Seq({0, 1}) /\ Len(k.path) \in Nat
  BY LenProperties DEF RandomKey
<1>4. Len(k.path) + 1 \in 1..Len(g.path) /\ Len(k.path) + 1 \in 1..Len(h.path)
  BY <1>2, <1>3
<1>5. ~Random!IsPrefix(g.path, h.path) /\ ~Random!IsPrefix(h.path, g.path)
  BY <1>2, <1>3, <1>4, PrefixIs
<1> QED
  BY <1>1, <1>5 DEF Random!Related

RandomType ==
    /\ state \in [States -> RandomKey]
    /\ lock \in [States -> Threads \union {Nobody}]
    /\ found \in [Threads -> [of : States, key : RandomKey] \union {Nobody}]
    /\ handed \in Seq(RandomKey)

\* A draw that has read a key holds its state's lock, so the key is still there.
DrawInv ==
    \A t \in Threads : found[t] # Nobody =>
        lock[found[t].of] = t /\ found[t].key = state[found[t].of]

Unrelated ==
    /\ \A s, r \in States : Random!Related(state[s], state[r]) => s = r
    /\ \A i \in DOMAIN handed, s \in States : ~Random!Related(handed[i], state[s])
    /\ \A i, j \in DOMAIN handed : Random!Related(handed[i], handed[j]) => i = j

RandomInv == RandomType /\ DrawInv /\ Unrelated

LEMMA RelatedSymmetric ==
    ASSUME NEW j, NEW k, Random!Related(j, k)
    PROVE  Random!Related(k, j)
BY DEF Random!Related

LEMMA RandomInit ==
    ASSUME Random!Init
    PROVE  RandomInv
<1>1. ASSUME NEW s \in Seeds PROVE Random!key(s) \in RandomKey /\ Random!key(s).path = <<>>
  BY EmptySeq DEF Random!key, RandomKey
<1>2. state \in [States -> RandomKey] /\ \A s \in States : state[s] = Random!key(state[s].seed)
  BY <1>1 DEF Random!Init, Random!key
<1>3. RandomType
  BY <1>2, EmptySeq DEF Random!Init, RandomType
<1>4. \A s, r \in States : Random!Related(state[s], state[r]) => s = r
  BY <1>2 DEF Random!Init, Random!Related
<1>5. DOMAIN handed = {}
  BY DEF Random!Init
<1> QED
  BY <1>3, <1>4, <1>5 DEF RandomInv, DrawInv, Unrelated, Random!Init

LEMMA Next1Keeps ==
    ASSUME RandomInv, NEW t \in Threads, NEW s \in States, Random!Next1(t, s)
    PROVE  RandomInv'
<1>1. /\ lock[s] = Nobody
      /\ lock' = [lock EXCEPT ![s] = t]
      /\ found' = [found EXCEPT ![t] = [of |-> s, key |-> state[s]]]
      /\ state' = state /\ handed' = handed
  BY DEF Random!Next1, Random!Free
<1>2. [of |-> s, key |-> state[s]] \in [of : States, key : RandomKey]
  BY DEF RandomInv, RandomType
<1>3. RandomType'
  BY <1>1, <1>2 DEF RandomInv, RandomType
<1>4. DrawInv'
  <2> SUFFICES ASSUME NEW u \in Threads, found'[u] # Nobody
               PROVE  lock'[found'[u].of] = u /\ found'[u].key = state[found'[u].of]
    BY <1>1 DEF DrawInv
  <2>1. CASE u = t
    BY <1>1, <2>1 DEF RandomInv, RandomType
  <2>2. CASE u # t
    <3>1. found'[u] = found[u] /\ lock[found[u].of] = u /\ u # Nobody
      BY <1>1, <2>2, ObjectsAssumption DEF RandomInv, RandomType, DrawInv
    <3>2. found[u].of # s /\ found[u].of \in States
      BY <1>1, <3>1 DEF RandomInv, RandomType
    <3> QED
      BY <1>1, <3>1, <3>2 DEF RandomInv, RandomType, DrawInv
  <2> QED
    BY <2>1, <2>2
<1> QED
  BY <1>1, <1>3, <1>4 DEF RandomInv, Unrelated

\* The halves of a state's key take the key's place among the unrelated.
LEMMA Next2Keeps ==
    ASSUME RandomInv, NEW t \in Threads, Random!Next2(t)
    PROVE  RandomInv'
<1>1. PICK s \in States : s = found[t].of
  BY DEF Random!Next2, RandomInv, RandomType
<1>2. PICK k \in RandomKey : k = found[t].key
  BY DEF Random!Next2, RandomInv, RandomType
<1>3. found[t] # Nobody /\ lock[s] = t /\ k = state[s]
  BY <1>1, <1>2 DEF Random!Next2, RandomInv, DrawInv
<1>4. PICK mine \in RandomKey, theirs \in RandomKey :
        mine = Random!Side(k, 0) /\ theirs = Random!Side(k, 1)
  BY SideType
<1>5. /\ state' = [state EXCEPT ![s] = mine]
      /\ lock' = [lock EXCEPT ![s] = Nobody]
      /\ found' = [found EXCEPT ![t] = Nobody]
      /\ handed' = Append(handed, theirs)
  BY <1>1, <1>2, <1>4 DEF Random!Next2
<1>6. /\ state \in [States -> RandomKey] /\ handed \in Seq(RandomKey)
      /\ found \in [Threads -> [of : States, key : RandomKey] \union {Nobody}]
      /\ lock \in [States -> Threads \union {Nobody}]
  BY DEF RandomInv, RandomType
<1>7. PICK n \in Nat : n = Len(handed)
  BY <1>6, LenProperties
<1>8. /\ handed' \in Seq(RandomKey) /\ DOMAIN handed = 1..n /\ DOMAIN handed' = 1..n + 1
      /\ \A i \in 1..n : handed'[i] = handed[i]
      /\ handed'[n + 1] = theirs
  BY <1>5, <1>6, <1>7, AppendProperties, LenProperties
<1>9. RandomType'
  BY <1>5, <1>6, <1>8 DEF RandomType
<1>10. DrawInv'
  <2> SUFFICES ASSUME NEW u \in Threads, found'[u] # Nobody
               PROVE  lock'[found'[u].of] = u /\ found'[u].key = state'[found'[u].of]
    BY DEF DrawInv
  <2>1. u # t /\ found'[u] = found[u]
    BY <1>5, <1>6
  <2>2. lock[found[u].of] = u /\ found[u].key = state[found[u].of]
    BY <2>1 DEF RandomInv, DrawInv
  <2>3. found[u].of # s /\ found[u].of \in States
    BY <1>3, <1>6, <2>1, <2>2
  <2> QED
    BY <1>5, <1>6, <2>1, <2>2, <2>3
<1>11. ASSUME NEW j \in RandomKey, ~Random!Related(j, k)
       PROVE  /\ ~Random!Related(mine, j) /\ ~Random!Related(j, mine)
              /\ ~Random!Related(theirs, j) /\ ~Random!Related(j, theirs)
  BY <1>4, <1>11, SideRelated, RelatedSymmetric
<1>12. ~Random!Related(theirs, mine)
  BY <1>4, HalvesUnrelated
<1>13. \A r \in States \ {s} : ~Random!Related(state[r], k) /\ state'[r] = state[r]
  BY <1>3, <1>5, <1>6 DEF RandomInv, Unrelated
<1>14. \A i \in 1..n : ~Random!Related(handed[i], k) /\ handed[i] \in RandomKey
  BY <1>3, <1>6, <1>7, <1>8, ElementOfSeq DEF RandomInv, Unrelated
<1>15. state'[s] = mine
  BY <1>5, <1>6
<1>16. ASSUME NEW q \in States, NEW r \in States, Random!Related(state'[q], state'[r])
       PROVE  q = r
  <2>1. CASE q # s /\ r # s
    BY <1>13, <1>16, <2>1 DEF RandomInv, Unrelated
  <2>2. CASE q = s /\ r # s
    BY <1>6, <1>11, <1>13, <1>15, <1>16, <2>2
  <2>3. CASE q # s /\ r = s
    BY <1>6, <1>11, <1>13, <1>15, <1>16, <2>3
  <2> QED
    BY <2>1, <2>2, <2>3
<1>17. ASSUME NEW i \in 1..n + 1, NEW r \in States PROVE ~Random!Related(handed'[i], state'[r])
  <2>1. CASE i \in 1..n /\ r # s
    BY <1>8, <1>13, <2>1 DEF RandomInv, Unrelated
  <2>2. CASE i \in 1..n /\ r = s
    BY <1>8, <1>11, <1>14, <1>15, <2>2
  <2>3. CASE i = n + 1 /\ r # s
    BY <1>6, <1>8, <1>11, <1>13, <2>3
  <2>4. CASE i = n + 1 /\ r = s
    BY <1>8, <1>12, <1>15, <2>4
  <2> QED
    BY <2>1, <2>2, <2>3, <2>4
<1>18. ASSUME NEW i \in 1..n + 1, NEW j \in 1..n + 1, Random!Related(handed'[i], handed'[j])
       PROVE  i = j
  <2>1. CASE i \in 1..n /\ j \in 1..n
    BY <1>8, <1>18, <2>1 DEF RandomInv, Unrelated
  <2>2. CASE i \in 1..n /\ j = n + 1
    BY <1>8, <1>11, <1>14, <1>18, <2>2
  <2>3. CASE i = n + 1 /\ j \in 1..n
    BY <1>8, <1>11, <1>14, <1>18, <2>3
  <2> QED
    BY <2>1, <2>2, <2>3
<1>19. Unrelated'
  BY <1>8, <1>16, <1>17, <1>18 DEF Unrelated
<1> QED
  BY <1>9, <1>10, <1>19 DEF RandomInv

LEMMA ReseedKeeps ==
    ASSUME RandomInv, NEW s \in States, NEW seed \in Seeds, Random!Reseed(s, seed)
    PROVE  RandomInv'
<1>1. PICK k \in RandomKey : k = Random!key(seed) /\ k.seed = seed
  <2>1. Random!key(seed) \in RandomKey /\ Random!key(seed).seed = seed
    BY EmptySeq DEF Random!key, RandomKey
  <2> QED
    BY <2>1
<1>2. /\ lock[s] = Nobody /\ state' = [state EXCEPT ![s] = k]
      /\ lock' = lock /\ found' = found /\ handed' = handed
  BY <1>1 DEF Random!Reseed, Random!Free
<1>3. /\ \A r \in States : state[r].seed # seed
      /\ \A i \in DOMAIN handed : handed[i].seed # seed
  BY DEF Random!Reseed, Random!SeedsUsed
<1>4. RandomType'
  BY <1>2 DEF RandomInv, RandomType
<1>5. DrawInv'
  <2> SUFFICES ASSUME NEW u \in Threads, found[u] # Nobody
               PROVE  lock[found[u].of] = u /\ found[u].key = state'[found[u].of]
    BY <1>2 DEF DrawInv
  <2>1. lock[found[u].of] = u /\ found[u].key = state[found[u].of] /\ u # Nobody
    BY ObjectsAssumption DEF RandomInv, DrawInv
  <2>2. found[u].of # s /\ found[u].of \in States
    BY <1>2, <2>1 DEF RandomInv, RandomType
  <2> QED
    BY <1>2, <2>1, <2>2 DEF RandomInv, RandomType
<1>6. state'[s] = k /\ \A r \in States \ {s} : state'[r] = state[r]
  BY <1>2 DEF RandomInv, RandomType
<1>7. /\ \A r \in States : ~Random!Related(state[r], k) /\ ~Random!Related(k, state[r])
      /\ \A i \in DOMAIN handed : ~Random!Related(handed[i], k)
  BY <1>1, <1>3 DEF Random!Related
<1>8. Unrelated'
  BY <1>2, <1>6, <1>7 DEF RandomInv, Unrelated
<1> QED
  BY <1>4, <1>5, <1>8 DEF RandomInv

(* No key is ever handed out twice, and none is reached by splits from     *)
(* another one or from a state, whichever threads draw from whichever      *)
(* states and reseed them (RandomState.next, seed).                        *)
THEOREM RandomKeysAreIndependent == ObjectsSpec => []KeysAreIndependent
<1> DEFINE Inv == part = "random" => RandomInv
<1>1. ObjectsInit => Inv
  BY RandomInit DEF ObjectsInit
<1>2. Inv /\ [ObjectsNext]_ObjectsVars => Inv'
  <2> SUFFICES ASSUME Inv, [ObjectsNext]_ObjectsVars, part' = "random" PROVE RandomInv'
    OBVIOUS
  <2>1. part = "random" /\ RandomInv
    BY DEF ObjectsNext, ObjectsVars
  <2>2. CASE UNCHANGED randomVars
    BY <2>1, <2>2 DEF randomVars, RandomInv, RandomType, DrawInv, Unrelated
  <2>3. CASE Random!Next
    BY <2>1, <2>3, Next1Keeps, Next2Keeps, ReseedKeeps DEF Random!Next
  <2> QED
    BY <2>2, <2>3 DEF ObjectsNext, ObjectsVars
<1>3. Inv => KeysAreIndependent
  BY DEF KeysAreIndependent, Random!KeysAreIndependent, RandomInv, Unrelated
<1> QED
  BY <1>1, <1>2, <1>3, PTL DEF ObjectsSpec

-----------------------------------------------------------------------------
(* File readers.                                                           *)

ReaderStages == {"idle", "reading", "failing", "reporting", "handling", "ended"}

ReaderType ==
    /\ fileLength \in 0..totalUnitCount /\ offset \in Nat
    /\ stage \in [Reader!Callers -> ReaderStages]
    /\ request \in [Reader!Callers -> [from : Nat, count : 0..MaxInt]]
    /\ DOMAIN filled = Reader!Callers
    /\ pending \in [Reader!Callers -> Nat]
    /\ completedUnitCount \in Nat /\ reportedBytes \in Nat /\ delivered \in Nat

\* The buffer of t has its first n bytes.
Read(t, n) ==
    /\ DOMAIN filled[t] = 0..n-1
    /\ \A i \in 0..n-1 : filled[t][i] = request[t].from + i
    /\ stage[t] = "idle" => n = 0
    /\ stage[t] = "ended" /\ n < request[t].count => readError \/ ~Reader!Readable(request[t])
    /\ stage[t] # "idle" /\ t \in Loaders => offset = request[t].from

ReadInv == \A t \in Reader!Callers : \E n \in 0..request[t].count : Read(t, n)

\* The bytes that threads have read and not yet added to the progress.
Unreported ==
    {b \in Reader!Callers \X (1..ChunkSize) :
        stage[b[1]] = "reporting" /\ b[2] <= pending[b[1]]}

ProgressInv ==
    /\ Cardinality(Unreported) <= delivered
    /\ completedUnitCount = Reader!Smaller(totalUnitCount, delivered - Cardinality(Unreported))
    /\ progressLock \in Reader!Callers \union {Nobody}
    /\ \A t \in Reader!Callers :
          /\ stage[t] = "reporting" => pending[t] \in 1..ChunkSize
          /\ stage[t] = "handling" <=> progressLock = t
          /\ stage[t] = "handling" => pending[t] = completedUnitCount
    /\ reportedBytes <= completedUnitCount
    /\ progressLock = Nobody => reportedBytes = completedUnitCount

ReaderInv == ReaderType /\ ReadInv /\ ProgressInv

LEMMA TotalRead ==
    ASSUME NEW t, NEW n \in 0..MaxInt, DOMAIN filled[t] = 0..n-1
    PROVE  Reader!totalRead(t) = n
<1>1. \A m \in 0..MaxInt : 0..m-1 = 0..n-1 => m = n
  <2> SUFFICES ASSUME NEW m \in 0..MaxInt, m # n PROVE 0..m-1 # 0..n-1
    OBVIOUS
  <2>1. CASE m < n
    BY <2>1, ObjectsAssumption
  <2>2. CASE n < m
    BY <2>2, ObjectsAssumption
  <2> QED
    BY <2>1, <2>2, ObjectsAssumption
<1> QED
  BY <1>1 DEF Reader!totalRead

\* What one thread does to its buffer and request disturbs no other's.
LEMMA ReadKept ==
    ASSUME ReaderType, ReadInv, NEW t \in Reader!Callers,
           \A u \in Reader!Callers \ {t} :
              filled'[u] = filled[u] /\ request'[u] = request[u] /\ stage'[u] = stage[u],
           readError => readError',
           t \in Loaders \/ offset' = offset,
           \E n \in 0..request'[t].count : Read(t, n)'
    PROVE  ReadInv'
<1> SUFFICES ASSUME NEW u \in Reader!Callers \ {t} PROVE \E n \in 0..request'[u].count : Read(u, n)'
  BY DEF ReadInv
<1>1. PICK n \in 0..request[u].count : Read(u, n)
  BY DEF ReadInv
<1>2. u \in Loaders => offset' = offset
  BY ObjectsAssumption
<1>3. Read(u, n)'
  BY <1>1, <1>2 DEF Read, Reader!Readable
<1> QED
  BY <1>1, <1>3

LEMMA UnreportedFinite ==
    /\ IsFiniteSet(Unreported) /\ Cardinality(Unreported) \in Nat
<1>1. IsFiniteSet(1..ChunkSize) /\ IsFiniteSet(Reader!Callers)
  BY ObjectsAssumption, FS_Interval DEF Reader!Callers
<1>2. IsFiniteSet(Reader!Callers \X (1..ChunkSize))
  BY <1>1, FS_Product
<1>3. Unreported \subseteq Reader!Callers \X (1..ChunkSize)
  BY DEF Unreported
<1> QED
  BY <1>2, <1>3, FS_Subset, FS_CardinalityType

\* A thread that neither reports nor begins to changes no progress.
LEMMA ProgressKept ==
    ASSUME ReaderType, ProgressInv, NEW t \in Reader!Callers, NEW next,
           stage' = [stage EXCEPT ![t] = next],
           {stage[t], next} \intersect {"reporting", "handling"} = {},
           UNCHANGED <<completedUnitCount, progressLock, pending, reportedBytes, delivered>>
    PROVE  ProgressInv'
<1>1. \A u \in Reader!Callers :
         /\ stage'[u] = "reporting" <=> stage[u] = "reporting"
         /\ stage'[u] = "handling" <=> stage[u] = "handling"
  BY DEF ReaderType
<1>2. Unreported' = Unreported
  BY <1>1 DEF Unreported
<1> QED
  BY <1>1, <1>2 DEF ProgressInv

\* The bytes that a thread adds to, or takes from, the unreported ones.
LEMMA BytesOf ==
    ASSUME NEW t, NEW n \in Nat
    PROVE  IsFiniteSet({t} \X (1..n)) /\ Cardinality({t} \X (1..n)) = n
<1>1. IsFiniteSet(1..n) /\ Cardinality(1..n) = n
  BY FS_Interval
<1>2. IsFiniteSet({t}) /\ Cardinality({t}) = 1
  BY FS_Singleton
<1> QED
  BY <1>1, <1>2, FS_Product

LEMMA DisjointUnion ==
    ASSUME NEW S, NEW T, IsFiniteSet(S), IsFiniteSet(T), S \intersect T = {}
    PROVE  Cardinality(S \union T) = Cardinality(S) + Cardinality(T)
<1>1. Cardinality(S \union T) = Cardinality(S) + Cardinality(T) - Cardinality(S \intersect T)
  BY FS_Union
<1>2. Cardinality(S \intersect T) = 0
  BY FS_EmptySet
<1> QED
  BY <1>1, <1>2, FS_CardinalityType

\* Two states of the threads, in the second of which t has n bytes to report as well.
Holding(where, has) ==
    {b \in Reader!Callers \X (1..ChunkSize) : where[b[1]] = "reporting" /\ b[2] <= has[b[1]]}

HoldsToo(where, has, next, more, t, n) ==
    /\ where[t] # "reporting" /\ next[t] = "reporting"
    /\ more[t] = n /\ n \in Nat /\ n <= ChunkSize
    /\ \A u \in Reader!Callers \ {t} : next[u] = where[u] /\ more[u] = has[u]

LEMMA OneMoreHolding ==
    ASSUME NEW where, NEW has, NEW next, NEW more, NEW t \in Reader!Callers, NEW n,
           IsFiniteSet(Holding(where, has)), HoldsToo(where, has, next, more, t, n)
    PROVE  Cardinality(Holding(next, more)) = Cardinality(Holding(where, has)) + n
<1>0. n \in Nat /\ n <= ChunkSize /\ ChunkSize \in Nat
  BY ObjectsAssumption DEF HoldsToo
<1> USE DEF HoldsToo
<1>1. Holding(next, more) \subseteq Holding(where, has) \union ({t} \X (1..n))
  <2> SUFFICES ASSUME NEW u \in Reader!Callers, NEW i \in 1..ChunkSize,
                      next[u] = "reporting", i <= more[u]
               PROVE  <<u, i>> \in Holding(where, has) \union ({t} \X (1..n))
    BY DEF Holding
  <2>1. CASE u = t
    <3>1. i \in 1..n
      BY <1>0, <2>1
    <3> QED
      BY <2>1, <3>1
  <2>2. CASE u # t
    BY <2>2 DEF Holding
  <2> QED
    BY <2>1, <2>2
<1>2. Holding(where, has) \subseteq Holding(next, more)
  <2> SUFFICES ASSUME NEW u \in Reader!Callers, NEW i \in 1..ChunkSize,
                      where[u] = "reporting", i <= has[u]
               PROVE  <<u, i>> \in Holding(next, more)
    BY DEF Holding
  <2> QED
    BY DEF Holding
<1>3. {t} \X (1..n) \subseteq Holding(next, more)
  <2> SUFFICES ASSUME NEW i \in 1..n PROVE <<t, i>> \in Holding(next, more)
    OBVIOUS
  <2>1. i \in 1..ChunkSize /\ i <= n
    BY <1>0
  <2> QED
    BY <2>1 DEF Holding
<1>4. Holding(where, has) \intersect ({t} \X (1..n)) = {}
  <2> SUFFICES ASSUME NEW i \in 1..n, <<t, i>> \in Holding(where, has) PROVE FALSE
    OBVIOUS
  <2> QED
    BY DEF Holding
<1>5. Holding(next, more) = Holding(where, has) \union ({t} \X (1..n))
  BY <1>1, <1>2, <1>3
<1> QED
  <2>1. IsFiniteSet({t} \X (1..n)) /\ Cardinality({t} \X (1..n)) = n
    BY <1>0, BytesOf
  <2> QED
    BY <1>4, <1>5, <2>1, DisjointUnion

LEMMA SmallerIs ==
    ASSUME NEW m \in Int, NEW n \in Int
    PROVE  /\ Reader!Smaller(m, n) \in Int
           /\ Reader!Smaller(m, n) <= m /\ Reader!Smaller(m, n) <= n
BY DEF Reader!Smaller

LEMMA SeekKeeps ==
    ASSUME ReaderInv, NEW t \in Loaders, Reader!Seek(t)
    PROVE  ReaderInv'
<1>1. /\ stage[t] = "idle" /\ t \in Reader!Callers
      /\ offset' \in Nat
      /\ UNCHANGED <<fileLength, readError, completedUnitCount, progressLock, stage, request,
                     filled, pending, reportedBytes, delivered>>
  BY ObjectsAssumption DEF Reader!Seek, Reader!Callers, ReaderInv, ReaderType
<1>2. ReaderType'
  BY <1>1 DEF ReaderInv, ReaderType
<1>3. ReadInv'
  <2>1. PICK n \in 0..request[t].count : Read(t, n)
    BY <1>1 DEF ReaderInv, ReadInv
  <2>2. Read(t, n)'
    BY <1>1, <2>1 DEF Read, Reader!Readable
  <2> QED
    BY <1>1, <2>1, <2>2, ReadKept DEF ReaderInv
<1>4. Unreported' = Unreported
  BY <1>1 DEF Unreported
<1> QED
  BY <1>1, <1>2, <1>3, <1>4 DEF ReaderInv, ProgressInv

LEMMA BeginKeeps ==
    ASSUME ReaderInv, NEW t \in Reader!Callers, NEW r \in [from : Nat, count : 0..MaxInt],
           Reader!Begin(t, r), t \in Loaders => r.from = offset
    PROVE  ReaderInv'
<1>1. PICK next \in {"reading", "ended"} :
        /\ stage' = [stage EXCEPT ![t] = next]
        /\ next = "ended" => ~Reader!Readable(r)
  BY DEF Reader!Begin, Reader!Goto
<1>2. /\ stage[t] = "idle"
      /\ request' = [request EXCEPT ![t] = r]
      /\ UNCHANGED <<fileLength, offset, readError, completedUnitCount, progressLock, filled,
                     pending, reportedBytes, delivered>>
  BY DEF Reader!Begin
<1>3. ReaderType'
  BY <1>1, <1>2 DEF ReaderInv, ReaderType, ReaderStages
<1>4. request'[t] = r /\ stage'[t] = next
      /\ \A u \in Reader!Callers \ {t} : request'[u] = request[u] /\ stage'[u] = stage[u]
  BY <1>1, <1>2 DEF ReaderInv, ReaderType
<1>5. 0 \in 0..r.count
  BY ObjectsAssumption
<1>6. Read(t, 0)'
  <2>1. PICK n \in 0..request[t].count : Read(t, n)
    BY DEF ReaderInv, ReadInv
  <2>2. DOMAIN filled[t] = 0..0-1
    BY <1>2, <2>1 DEF Read
  <2>3. next # "idle" /\ \A i \in 0..0-1 : FALSE
    BY <1>1
  <2> QED
    BY <1>1, <1>2, <1>4, <2>2, <2>3 DEF Read, Reader!Readable
<1>7. ReadInv'
  BY <1>2, <1>4, <1>5, <1>6, ReadKept DEF ReaderInv
<1>8. ProgressInv'
  BY <1>1, <1>2, ProgressKept DEF ReaderInv
<1> QED
  BY <1>3, <1>7, <1>8 DEF ReaderInv

LEMMA PreadKeeps ==
    ASSUME ReaderInv, NEW t \in Reader!Callers, Reader!Pread(t)
    PROVE  ReaderInv'
<1>1. PICK n \in 0..request[t].count : Read(t, n)
  BY DEF ReaderInv, ReadInv
<1>2. PICK r \in [from : Nat, count : 0..MaxInt] : r = request[t]
  BY DEF ReaderInv, ReaderType
<1>3. Reader!totalRead(t) = n /\ n \in Nat /\ n <= r.count
  BY <1>1, <1>2, ObjectsAssumption, TotalRead DEF Read
<1>4. PICK bytesRead \in 1..Reader!Smaller(Reader!Smaller(r.count - n, ChunkSize),
                                           fileLength - (r.from + n)) :
        /\ filled' = [filled EXCEPT ![t] =
                        [i \in 0..n + bytesRead - 1 |-> IF i < n THEN filled[t][i] ELSE r.from + n + i - n]]
        /\ pending' = [pending EXCEPT ![t] = bytesRead]
        /\ delivered' = delivered + bytesRead
  BY <1>2, <1>3 DEF Reader!Pread, Reader!Source
<1>5. bytesRead \in 1..ChunkSize /\ n + bytesRead <= r.count /\ bytesRead \in Nat
  <2>1. r.count \in Nat /\ r.from \in Nat /\ fileLength \in Int /\ ChunkSize \in Nat
    BY ObjectsAssumption DEF ReaderInv, ReaderType
  <2>i. r.count - n \in Int /\ fileLength - (r.from + n) \in Int
    BY <1>3, <2>1
  <2>2. PICK chunkSize \in Int : chunkSize = Reader!Smaller(r.count - n, ChunkSize)
    <3>1. Reader!Smaller(r.count - n, ChunkSize) \in Int
      BY <2>1, <2>i, SmallerIs
    <3> QED
      BY <3>1
  <2>3. chunkSize <= r.count - n /\ chunkSize <= ChunkSize
    BY <2>1, <2>i, <2>2, SmallerIs
  <2>4. PICK most \in Int : most = Reader!Smaller(chunkSize, fileLength - (r.from + n)) /\ most <= chunkSize
    BY <2>i, SmallerIs
  <2>5. bytesRead \in 1..most
    BY <2>2, <2>4
  <2> QED
    BY <1>3, <2>1, <2>3, <2>4, <2>5
<1>6. /\ stage[t] = "reading" /\ stage' = [stage EXCEPT ![t] = "reporting"]
      /\ UNCHANGED <<fileLength, offset, readError, completedUnitCount, progressLock, request,
                     reportedBytes>>
  BY DEF Reader!Pread, Reader!Goto
<1>7. ReaderType'
  <2>a. bytesRead \in Nat /\ delivered \in Nat /\ delivered' = delivered + bytesRead
    BY <1>4, <1>5 DEF ReaderInv, ReaderType
  <2>b. pending \in [Reader!Callers -> Nat] /\ pending' = [pending EXCEPT ![t] = bytesRead]
    BY <1>4 DEF ReaderInv, ReaderType
  <2>1. delivered' \in Nat /\ pending' \in [Reader!Callers -> Nat]
    BY <2>a, <2>b
  <2>2. stage' \in [Reader!Callers -> ReaderStages]
    BY <1>6 DEF ReaderInv, ReaderType, ReaderStages
  <2>3. DOMAIN filled' = Reader!Callers
    BY <1>4 DEF ReaderInv, ReaderType
  <2> QED
    BY <1>6, <2>1, <2>2, <2>3 DEF ReaderInv, ReaderType
<1>8. /\ stage'[t] = "reporting" /\ pending'[t] = bytesRead
      /\ \A u \in Reader!Callers \ {t} :
            filled'[u] = filled[u] /\ stage'[u] = stage[u] /\ pending'[u] = pending[u]
      /\ filled'[t] = [i \in 0..n + bytesRead - 1 |-> IF i < n THEN filled[t][i] ELSE r.from + n + i - n]
  BY <1>4, <1>6 DEF ReaderInv, ReaderType
<1>9. Read(t, n + bytesRead)'
  <2>1. DOMAIN filled'[t] = 0..(n + bytesRead) - 1
    BY <1>8
  <2>2. ASSUME NEW i \in 0..(n + bytesRead) - 1 PROVE filled'[t][i] = r.from + i
    <3>1. CASE i < n
      BY <1>1, <1>2, <1>3, <1>5, <1>8, <3>1 DEF Read
    <3>2. CASE ~(i < n)
      BY <1>2, <1>3, <1>5, <1>8, <3>2
    <3> QED
      BY <3>1, <3>2
  <2> QED
    BY <1>1, <1>2, <1>6, <1>8, <2>1, <2>2 DEF Read
<1>10. n + bytesRead \in 0..request'[t].count
  BY <1>2, <1>3, <1>5, <1>6
<1>11. ReadInv'
  BY <1>6, <1>8, <1>9, <1>10, ReadKept DEF ReaderInv
<1>13. Cardinality(Unreported') = Cardinality(Unreported) + bytesRead
  <2>1. PICK where, has, next, more :
          where = stage /\ has = pending /\ next = stage' /\ more = pending'
    OBVIOUS
  <2>2. Unreported = Holding(where, has) /\ Unreported' = Holding(next, more)
    BY <2>1 DEF Unreported, Holding
  <2>3. /\ where[t] # "reporting" /\ next[t] = "reporting" /\ more[t] = bytesRead
        /\ \A u \in Reader!Callers \ {t} : next[u] = where[u] /\ more[u] = has[u]
    BY <1>6, <1>8, <2>1
  <2>4. IsFiniteSet(Holding(where, has))
    BY <2>2, UnreportedFinite
  <2>5. Cardinality(Holding(next, more)) = Cardinality(Holding(where, has)) + bytesRead
    <3>1. HoldsToo(where, has, next, more, t, bytesRead)
      BY <1>5, <2>3 DEF HoldsToo
    <3> QED
      BY <2>4, <3>1, OneMoreHolding
  <2> QED
    BY <2>2, <2>5
<1>14. ProgressInv'
  <2>1. /\ delivered' - Cardinality(Unreported') = delivered - Cardinality(Unreported)
        /\ Cardinality(Unreported') <= delivered'
    <3>1. PICK before \in Nat, after \in Nat :
            /\ before = Cardinality(Unreported) /\ after = Cardinality(Unreported')
            /\ after = before + bytesRead
      BY <1>5, <1>13, UnreportedFinite
    <3>2. before <= delivered /\ delivered \in Nat
      BY <3>1 DEF ReaderInv, ReaderType, ProgressInv
    <3>3. delivered' - after = delivered - before /\ after <= delivered'
      BY <1>4, <1>5, <3>1, <3>2
    <3> QED
      BY <3>1, <3>3
  <2>2. completedUnitCount' = Reader!Smaller(totalUnitCount, delivered' - Cardinality(Unreported'))
    BY <1>6, <2>1 DEF ReaderInv, ProgressInv
  <2>3. ASSUME NEW u \in Reader!Callers
        PROVE  /\ stage'[u] = "reporting" => pending'[u] \in 1..ChunkSize
               /\ stage'[u] = "handling" <=> progressLock' = u
               /\ stage'[u] = "handling" => pending'[u] = completedUnitCount'
    <3>1. CASE u = t
      BY <1>5, <1>6, <1>8, <3>1 DEF ReaderInv, ProgressInv
    <3>2. CASE u # t
      BY <1>6, <1>8, <3>2 DEF ReaderInv, ProgressInv
    <3> QED
      BY <3>1, <3>2
  <2> QED
    BY <1>6, <2>1, <2>2, <2>3 DEF ReaderInv, ProgressInv
<1> QED
  BY <1>7, <1>11, <1>14 DEF ReaderInv

\* A step in the middle of a read leaves what was read.
LEMMA StageKeepsRead ==
    ASSUME ReaderType, ReadInv, NEW t \in Reader!Callers, NEW next \in ReaderStages \ {"idle"},
           stage[t] # "idle", stage' = [stage EXCEPT ![t] = next],
           UNCHANGED <<offset, request, filled>>,
           readError => readError',
           next = "ended" =>
              \A n \in Nat : n < request[t].count /\ DOMAIN filled[t] = 0..n-1
                 => readError' \/ ~Reader!Readable(request[t])
    PROVE  ReadInv'
<1>1. PICK n \in 0..request[t].count : Read(t, n)
  BY DEF ReadInv
<1>2. stage'[t] = next /\ \A u \in Reader!Callers \ {t} : stage'[u] = stage[u]
  BY DEF ReaderType
<1>3. n \in Nat
  BY <1>1 DEF ReaderType
<1>4. Read(t, n)'
  BY <1>1, <1>2, <1>3 DEF Read, Reader!Readable
<1> QED
  BY <1>1, <1>2, <1>4, ReadKept

LEMMA EndLoopKeeps ==
    ASSUME ReaderInv, NEW t \in Reader!Callers, Reader!EndLoop(t)
    PROVE  ReaderInv'
<1>1. PICK n \in 0..request[t].count : Read(t, n)
  BY DEF ReaderInv, ReadInv
<1>2. request[t].count \in 0..MaxInt /\ n \in Nat /\ n \in 0..MaxInt
  BY <1>1, ObjectsAssumption DEF ReaderInv, ReaderType
<1>3. Reader!totalRead(t) = n
  BY <1>1, <1>2, TotalRead DEF Read
<1>4. PICK next \in {"failing", "ended"} :
        /\ stage' = [stage EXCEPT ![t] = next]
        /\ next = "ended" => ~(n < request[t].count)
  BY <1>3 DEF Reader!EndLoop, Reader!Goto
<1>5. /\ stage[t] = "reading"
      /\ UNCHANGED <<fileLength, offset, readError, completedUnitCount, progressLock, request,
                     filled, pending, reportedBytes, delivered>>
  BY DEF Reader!EndLoop
<1>6. ReaderType'
  BY <1>4, <1>5 DEF ReaderInv, ReaderType, ReaderStages
<1>7. next = "ended" =>
         \A m \in Nat : m < request[t].count /\ DOMAIN filled[t] = 0..m-1
            => readError' \/ ~Reader!Readable(request[t])
  <2> SUFFICES ASSUME NEW m \in Nat, next = "ended", m < request[t].count,
                      DOMAIN filled[t] = 0..m-1
               PROVE  FALSE
    OBVIOUS
  <2>c. PICK most \in 0..MaxInt : most = request[t].count /\ m < most
    BY <1>2
  <2>1. m \in 0..MaxInt
    BY <2>c, ObjectsAssumption
  <2>2. Reader!totalRead(t) = m
    BY <2>1, TotalRead
  <2> QED
    BY <1>3, <1>4, <2>2
<1>8. ReadInv'
  BY <1>4, <1>5, <1>7, StageKeepsRead DEF ReaderInv, ReaderStages
<1>9. ProgressInv'
  BY <1>4, <1>5, ProgressKept DEF ReaderInv
<1> QED
  BY <1>6, <1>8, <1>9 DEF ReaderInv

LEMMA RecordReadErrorKeeps ==
    ASSUME ReaderInv, NEW t \in Reader!Callers, Reader!RecordReadError(t)
    PROVE  ReaderInv'
<1>1. /\ stage[t] = "failing" /\ stage' = [stage EXCEPT ![t] = "ended"] /\ readError' = TRUE
      /\ UNCHANGED <<fileLength, offset, completedUnitCount, progressLock, request,
                     filled, pending, reportedBytes, delivered>>
  BY DEF Reader!RecordReadError, Reader!Goto
<1>2. ReaderType'
  BY <1>1 DEF ReaderInv, ReaderType, ReaderStages
<1>3. ReadInv'
  BY <1>1, StageKeepsRead DEF ReaderInv, ReaderStages
<1>4. ProgressInv'
  BY <1>1, ProgressKept DEF ReaderInv
<1> QED
  BY <1>2, <1>3, <1>4 DEF ReaderInv

\* Under the lock, the bytes that t has read become completed ones.
LEMMA ReportProgressKeeps ==
    ASSUME ReaderInv, NEW t \in Reader!Callers, Reader!ReportProgress(t)
    PROVE  ReaderInv'
<1>1. PICK added : added = Reader!Smaller(totalUnitCount - completedUnitCount, pending[t])
  OBVIOUS
<1>2. /\ stage[t] = "reporting" /\ progressLock = Nobody
      /\ progressLock' = t
      /\ completedUnitCount' = completedUnitCount + added
      /\ pending' = [pending EXCEPT ![t] = completedUnitCount + added]
      /\ stage' = [stage EXCEPT ![t] = "handling"]
      /\ UNCHANGED <<fileLength, offset, readError, request, filled, reportedBytes, delivered>>
  BY <1>1 DEF Reader!ReportProgress, Reader!Goto, Reader!Locked
<1>3. PICK n \in 1..ChunkSize : n = pending[t]
  BY <1>2 DEF ReaderInv, ProgressInv
<1>4. n \in Nat /\ n <= ChunkSize
  BY <1>3, ObjectsAssumption
<1>5. /\ stage'[t] = "handling" /\ pending'[t] = completedUnitCount'
      /\ \A u \in Reader!Callers \ {t} : stage'[u] = stage[u] /\ pending'[u] = pending[u]
  BY <1>2 DEF ReaderInv, ReaderType
<1>s. Unreported' \subseteq Unreported
  <2> SUFFICES ASSUME NEW u \in Reader!Callers, NEW i \in 1..ChunkSize,
                      stage'[u] = "reporting", i <= pending'[u]
               PROVE  <<u, i>> \in Unreported
    BY DEF Unreported
  <2>1. u # t
    BY <1>5
  <2> QED
    BY <1>5, <2>1 DEF Unreported
<1>6. Cardinality(Unreported) = Cardinality(Unreported') + n
  <2>1. PICK where, has, next, more :
          where = stage' /\ has = pending' /\ next = stage /\ more = pending
    OBVIOUS
  <2>2. Unreported = Holding(next, more) /\ Unreported' = Holding(where, has)
    BY <2>1 DEF Unreported, Holding
  <2>3. HoldsToo(where, has, next, more, t, n)
    BY <1>2, <1>3, <1>4, <1>5, <2>1 DEF HoldsToo
  <2>5. IsFiniteSet(Holding(where, has))
    BY <1>s, <2>2, UnreportedFinite, FS_Subset
  <2>6. Cardinality(Holding(next, more)) = Cardinality(Holding(where, has)) + n
    BY <2>3, <2>5, OneMoreHolding
  <2> QED
    BY <2>2, <2>6
<1>7. PICK before \in Nat, after \in Nat :
        before = Cardinality(Unreported) /\ after = Cardinality(Unreported')
  <2>1. IsFiniteSet(Unreported')
    BY <1>s, UnreportedFinite, FS_Subset
  <2> QED
    BY <2>1, UnreportedFinite, FS_CardinalityType
<1>8. /\ before = after + n /\ before <= delivered /\ delivered \in Nat
      /\ completedUnitCount = Reader!Smaller(totalUnitCount, delivered - before)
      /\ completedUnitCount \in Nat /\ totalUnitCount \in Nat
  BY <1>6, <1>7, ObjectsAssumption DEF ReaderInv, ReaderType, ProgressInv
<1>9. /\ after <= delivered /\ completedUnitCount <= completedUnitCount'
      /\ completedUnitCount' \in Nat
      /\ completedUnitCount' = Reader!Smaller(totalUnitCount, delivered - after)
  <2>1. PICK done \in Nat, total \in Nat, bytes \in Nat :
          done = completedUnitCount /\ total = totalUnitCount /\ bytes = delivered
    BY <1>8
  <2>2. added = Reader!Smaller(total - done, n) /\ completedUnitCount' = done + added
    BY <1>1, <1>2, <1>3, <2>1
  <2>3. before = after + n /\ before <= bytes /\ done = Reader!Smaller(total, bytes - before)
    BY <1>8, <2>1
  <2>4. CASE total < bytes - before
    <3>1. done = total
      BY <2>3, <2>4 DEF Reader!Smaller
    <3>2. added = 0
      BY <1>3, <1>4, <2>2, <3>1 DEF Reader!Smaller
    <3>3. total < bytes - after
      BY <1>4, <2>3, <2>4
    <3>4. completedUnitCount' = total /\ Reader!Smaller(total, bytes - after) = total
      BY <2>2, <3>1, <3>2, <3>3 DEF Reader!Smaller
    <3> QED
      BY <1>4, <2>1, <2>3, <3>1, <3>4
  <2>5. CASE ~(total < bytes - before)
    <3>1. done = bytes - before
      BY <2>3, <2>5 DEF Reader!Smaller
    <3>2. CASE total - done < n
      <4>1. added = total - done
        BY <2>2, <3>2 DEF Reader!Smaller
      <4>2. total < bytes - after
        BY <1>4, <2>3, <3>1, <3>2
      <4>3. completedUnitCount' = total /\ Reader!Smaller(total, bytes - after) = total
        BY <2>2, <4>1, <4>2 DEF Reader!Smaller
      <4>4. done <= total
        BY <2>5, <3>1
      <4> QED
        BY <1>4, <2>1, <2>3, <4>3, <4>4
    <3>3. CASE ~(total - done < n)
      <4>1. added = n
        BY <2>2, <3>3 DEF Reader!Smaller
      <4>2. bytes - after = done + n /\ ~(total < bytes - after)
        BY <1>4, <2>3, <3>1, <3>3
      <4>3. completedUnitCount' = done + n /\ Reader!Smaller(total, bytes - after) = done + n
        BY <2>2, <4>1, <4>2 DEF Reader!Smaller
      <4> QED
        BY <1>4, <2>1, <2>3, <4>3
    <3> QED
      BY <3>2, <3>3
  <2> QED
    BY <2>4, <2>5
<1>10. ReaderType'
  BY <1>2, <1>9 DEF ReaderInv, ReaderType, ReaderStages
<1>11. ReadInv'
  <2>1. stage[t] # "idle" /\ readError' = readError
        /\ UNCHANGED <<offset, request, filled>>
    BY <1>2
  <2>2. PICK next \in ReaderStages \ {"idle"} : next = "handling" /\ next # "ended"
    BY DEF ReaderStages
  <2>3. ReaderType /\ ReadInv
    BY DEF ReaderInv
  <2>4. stage' = [stage EXCEPT ![t] = next]
    BY <1>2, <2>2
  <2> QED
    BY <2>1, <2>2, <2>3, <2>4, StageKeepsRead
<1>12. ProgressInv'
  <2>1. Cardinality(Unreported') <= delivered'
        /\ completedUnitCount' = Reader!Smaller(totalUnitCount, delivered' - Cardinality(Unreported'))
    BY <1>2, <1>7, <1>9
  <2>2. t # Nobody
    BY ObjectsAssumption DEF Reader!Callers
  <2>3. ASSUME NEW u \in Reader!Callers
        PROVE  /\ stage'[u] = "reporting" => pending'[u] \in 1..ChunkSize
               /\ stage'[u] = "handling" <=> progressLock' = u
               /\ stage'[u] = "handling" => pending'[u] = completedUnitCount'
    <3>1. CASE u = t
      BY <1>2, <1>5, <3>1
    <3>2. CASE u # t
      <4>1. stage[u] # "handling" /\ stage'[u] = stage[u] /\ pending'[u] = pending[u]
        BY <1>2, <1>5, <3>2, ObjectsAssumption DEF ReaderInv, ProgressInv, Reader!Callers
      <4> QED
        BY <1>2, <3>2, <4>1 DEF ReaderInv, ProgressInv
    <3> QED
      BY <3>1, <3>2
  <2>4. reportedBytes' <= completedUnitCount'
    BY <1>2, <1>8, <1>9 DEF ReaderInv, ReaderType, ProgressInv
  <2> QED
    BY <1>2, <2>1, <2>2, <2>3, <2>4 DEF ProgressInv
<1> QED
  BY <1>10, <1>11, <1>12 DEF ReaderInv

LEMMA ProgressHandlerKeeps ==
    ASSUME ReaderInv, NEW t \in Reader!Callers, Reader!ProgressHandler(t)
    PROVE  ReaderInv'
<1>1. /\ stage[t] = "handling" /\ progressLock' = Nobody
      /\ reportedBytes' = pending[t]
      /\ pending' = [pending EXCEPT ![t] = 0]
      /\ stage' = [stage EXCEPT ![t] = "reading"]
      /\ UNCHANGED <<fileLength, offset, readError, completedUnitCount, request, filled, delivered>>
  BY DEF Reader!ProgressHandler, Reader!Goto
<1>2. /\ stage'[t] = "reading" /\ pending'[t] = 0
      /\ \A u \in Reader!Callers \ {t} : stage'[u] = stage[u] /\ pending'[u] = pending[u]
  BY <1>1 DEF ReaderInv, ReaderType
<1>3. progressLock = t /\ pending[t] = completedUnitCount
  BY <1>1 DEF ReaderInv, ProgressInv
<1>4. ReaderType'
  BY <1>1, <1>3 DEF ReaderInv, ReaderType, ReaderStages
<1>5. ReadInv'
  <2>1. stage[t] # "idle" /\ readError' = readError
        /\ UNCHANGED <<offset, request, filled>>
    BY <1>1
  <2>2. PICK next \in ReaderStages \ {"idle"} : next = "reading" /\ next # "ended"
    BY DEF ReaderStages
  <2>3. ReaderType /\ ReadInv
    BY DEF ReaderInv
  <2>4. stage' = [stage EXCEPT ![t] = next]
    BY <1>1, <2>2
  <2> QED
    BY <2>1, <2>2, <2>3, <2>4, StageKeepsRead
<1>6. Unreported' = Unreported
  <2> SUFFICES ASSUME NEW u \in Reader!Callers, NEW i \in 1..ChunkSize
               PROVE  (stage'[u] = "reporting" /\ i <= pending'[u])
                         <=> (stage[u] = "reporting" /\ i <= pending[u])
    BY DEF Unreported
  <2>1. CASE u = t
    BY <1>1, <1>2, <2>1
  <2>2. CASE u # t
    BY <1>2, <2>2
  <2> QED
    BY <2>1, <2>2
<1>7. ProgressInv'
  <2>1. ASSUME NEW u \in Reader!Callers
        PROVE  /\ stage'[u] = "reporting" => pending'[u] \in 1..ChunkSize
               /\ stage'[u] = "handling" <=> progressLock' = u
               /\ stage'[u] = "handling" => pending'[u] = completedUnitCount'
    <3>1. u # Nobody
      BY ObjectsAssumption DEF Reader!Callers
    <3>2. CASE u = t
      BY <1>1, <1>2, <3>1, <3>2
    <3>3. CASE u # t
      BY <1>1, <1>2, <1>3, <3>1, <3>3 DEF ReaderInv, ProgressInv
    <3> QED
      BY <3>2, <3>3
  <2>2. reportedBytes' = completedUnitCount' /\ completedUnitCount' \in Nat
    BY <1>1, <1>3 DEF ReaderInv, ReaderType
  <2> QED
    BY <1>1, <1>6, <2>1, <2>2 DEF ReaderInv, ProgressInv
<1> QED
  BY <1>4, <1>5, <1>7 DEF ReaderInv

LEMMA ReturnKeeps ==
    ASSUME ReaderInv, NEW t \in Reader!Callers, Reader!Return(t)
    PROVE  ReaderInv'
<1>1. PICK n \in 0..request[t].count : Read(t, n)
  BY DEF ReaderInv, ReadInv
<1>2. request[t].count \in 0..MaxInt /\ n \in Nat /\ n \in 0..MaxInt
  BY <1>1, ObjectsAssumption DEF ReaderInv, ReaderType
<1>3. Reader!totalRead(t) = n
  BY <1>1, <1>2, TotalRead DEF Read
<1>4. /\ stage[t] = "ended" /\ stage' = [stage EXCEPT ![t] = "idle"]
      /\ offset' = IF t \in Loaders THEN offset + n ELSE offset
      /\ request' = [request EXCEPT ![t] = [from |-> 0, count |-> 0]]
      /\ filled' = [filled EXCEPT ![t] = [i \in {} |-> 0]]
      /\ UNCHANGED <<fileLength, readError, completedUnitCount, progressLock, pending,
                     reportedBytes, delivered>>
  BY <1>3 DEF Reader!Return, Reader!Goto, Reader!NoRequest, Reader!NoBytes
<1>5. ReaderType'
  <2>1. offset' \in Nat
    BY <1>2, <1>4 DEF ReaderInv, ReaderType
  <2>2. [from |-> 0, count |-> 0] \in [from : Nat, count : 0..MaxInt]
    BY ObjectsAssumption
  <2>3. stage' \in [Reader!Callers -> ReaderStages] /\ DOMAIN filled' = Reader!Callers
    BY <1>4 DEF ReaderInv, ReaderType, ReaderStages
  <2>4. request' \in [Reader!Callers -> [from : Nat, count : 0..MaxInt]]
    BY <1>4, <2>2 DEF ReaderInv, ReaderType
  <2> QED
    BY <1>4, <2>1, <2>3, <2>4 DEF ReaderInv, ReaderType
<1>6. /\ stage'[t] = "idle" /\ request'[t].count = 0 /\ DOMAIN filled'[t] = {}
      /\ \A u \in Reader!Callers \ {t} :
            filled'[u] = filled[u] /\ stage'[u] = stage[u] /\ request'[u] = request[u]
  BY <1>4 DEF ReaderInv, ReaderType
<1>7. Read(t, 0)' /\ 0 \in 0..request'[t].count
  <2>1. 0..0-1 = {}
    OBVIOUS
  <2> QED
    BY <1>6, <2>1 DEF Read
<1>8. ReadInv'
  BY <1>4, <1>6, <1>7, ReadKept DEF ReaderInv
<1>9. ProgressInv'
  BY <1>4, ProgressKept DEF ReaderInv
<1> QED
  BY <1>5, <1>8, <1>9 DEF ReaderInv

LEMMA TruncateKeeps ==
    ASSUME ReaderInv, Reader!Truncate
    PROVE  ReaderInv'
<1>1. /\ fileLength' \in 0..fileLength - 1
      /\ UNCHANGED <<offset, readError, completedUnitCount, progressLock, stage, request, filled,
                     pending, reportedBytes, delivered>>
  BY DEF Reader!Truncate
<1>2. fileLength' \in 0..totalUnitCount
  BY <1>1, ObjectsAssumption DEF ReaderInv, ReaderType
<1>3. ReaderType' /\ ReadInv'
  BY <1>1, <1>2 DEF ReaderInv, ReaderType, ReadInv, Read, Reader!Readable
<1>4. Unreported' = Unreported
  BY <1>1 DEF Unreported
<1> QED
  BY <1>1, <1>3, <1>4 DEF ReaderInv, ProgressInv

LEMMA ReaderStarts ==
    ASSUME Reader!Init
    PROVE  ReaderInv
<1>1. totalUnitCount \in Nat /\ MaxInt \in Nat
  BY ObjectsAssumption
<1> USE DEF Reader!Init, Reader!NoRequest, Reader!NoBytes
<1>2. ReaderType
  BY <1>1 DEF ReaderType, ReaderStages
<1>3. ReadInv
  <2> SUFFICES ASSUME NEW t \in Reader!Callers PROVE \E n \in 0..request[t].count : Read(t, n)
    BY DEF ReadInv
  <2>1. 0 \in 0..request[t].count /\ 0..0-1 = {} /\ DOMAIN filled[t] = {}
    OBVIOUS
  <2>2. stage[t] = "idle"
    OBVIOUS
  <2> QED
    BY <2>1, <2>2 DEF Read
<1>4. Unreported = {}
  BY DEF Unreported
<1>5. Cardinality(Unreported) = 0
  BY <1>4, FS_EmptySet
<1>6. ProgressInv
  <2>1. \A t \in Reader!Callers : t # Nobody
    BY ObjectsAssumption DEF Reader!Callers
  <2>2. Reader!Smaller(totalUnitCount, 0) = 0
    BY <1>1 DEF Reader!Smaller
  <2> QED
    BY <1>1, <1>5, <2>1, <2>2 DEF ProgressInv
<1> QED
  BY <1>2, <1>3, <1>6 DEF ReaderInv

LEMMA ReaderInductive ==
    ASSUME ReaderInv, Reader!Next \/ UNCHANGED readerVars
    PROVE  ReaderInv'
<1>1. CASE UNCHANGED readerVars
  <2>1. UNCHANGED <<fileLength, offset, readError, completedUnitCount, progressLock, stage,
                    request, filled, pending, reportedBytes, delivered>>
    BY <1>1 DEF readerVars
  <2>2. Unreported' = Unreported
    BY <2>1 DEF Unreported
  <2> QED
    BY <2>1, <2>2 DEF ReaderInv, ReaderType, ReadInv, Read, ProgressInv, Reader!Readable
<1>2. CASE \E t \in Loaders : Reader!Read(t)
  <2>1. PICK t \in Loaders, count \in Counts : Reader!Begin(t, [from |-> offset, count |-> count])
    BY <1>2 DEF Reader!Read
  <2>2. [from |-> offset, count |-> count] \in [from : Nat, count : 0..MaxInt]
    BY ObjectsAssumption DEF ReaderInv, ReaderType
  <2> QED
    BY <2>1, <2>2, BeginKeeps DEF Reader!Callers
<1>3. CASE \E t \in Workers : Reader!ReadAt(t)
  <2>1. PICK t \in Workers, from \in Offsets, count \in Counts :
          Reader!Begin(t, [from |-> from, count |-> count])
    BY <1>3 DEF Reader!ReadAt
  <2>2. [from |-> from, count |-> count] \in [from : Nat, count : 0..MaxInt]
    BY ObjectsAssumption
  <2>3. t \notin Loaders
    BY ObjectsAssumption
  <2> QED
    BY <2>1, <2>2, <2>3, BeginKeeps DEF Reader!Callers
<1>4. CASE \E t \in Loaders : Reader!Seek(t)
  BY <1>4, SeekKeeps
<1>5. CASE Reader!Truncate
  BY <1>5, TruncateKeeps
<1>6. ASSUME NEW t \in Reader!Callers,
             \/ Reader!Pread(t) \/ Reader!EndLoop(t) \/ Reader!RecordReadError(t)
             \/ Reader!ReportProgress(t) \/ Reader!ProgressHandler(t) \/ Reader!Return(t)
      PROVE  ReaderInv'
  BY <1>6, PreadKeeps, EndLoopKeeps, RecordReadErrorKeeps, ReportProgressKeeps,
     ProgressHandlerKeeps, ReturnKeeps
<1> QED
  BY <1>1, <1>2, <1>3, <1>4, <1>5, <1>6 DEF Reader!Next

(* FileReader's two properties follow from the invariant.                  *)
LEMMA ReadAsAsked ==
    ASSUME ReaderInv
    PROVE  Reader!ReadReturnsFile
<1> SUFFICES ASSUME NEW t \in Reader!Callers, stage[t] = "ended"
             PROVE  /\ \A i \in DOMAIN filled[t] : filled[t][i] = request[t].from + i
                    /\ Reader!totalRead(t) < request[t].count
                          => readError \/ ~Reader!Readable(request[t])
                    /\ t \in Loaders => offset = request[t].from
  BY DEF Reader!ReadReturnsFile
<1>1. PICK n \in 0..request[t].count : Read(t, n)
  BY DEF ReaderInv, ReadInv
<1>2. request[t].count \in 0..MaxInt /\ n \in 0..MaxInt
  BY <1>1, ObjectsAssumption DEF ReaderInv, ReaderType
<1>3. Reader!totalRead(t) = n
  BY <1>1, <1>2, TotalRead DEF Read
<1> QED
  BY <1>1, <1>3 DEF Read

ToldTruly == reportedBytes <= totalUnitCount /\ (Reader!Quiet => Reader!ToldAll)

LEMMA TrulyReported ==
    ASSUME ReaderInv
    PROVE  ToldTruly
<1>1. PICK unreported \in Nat : unreported = Cardinality(Unreported)
  BY UnreportedFinite
<1>2. /\ reportedBytes \in Nat /\ completedUnitCount \in Nat /\ delivered \in Nat
      /\ totalUnitCount \in Nat
      /\ reportedBytes <= completedUnitCount
      /\ completedUnitCount = Reader!Smaller(totalUnitCount, delivered - unreported)
  BY <1>1, ObjectsAssumption DEF ReaderInv, ReaderType, ProgressInv
<1>3. completedUnitCount <= totalUnitCount
  BY <1>1, <1>2, SmallerIs
<1>4. ASSUME Reader!Quiet PROVE Reader!ToldAll
  <2>1. Unreported = {}
    BY <1>4 DEF Reader!Quiet, Unreported
  <2>2. unreported = 0
    BY <1>1, <2>1, FS_EmptySet
  <2>3. progressLock = Nobody
    BY <1>4 DEF Reader!Quiet, ReaderInv, ProgressInv
  <2>4. reportedBytes = completedUnitCount
    BY <2>3 DEF ReaderInv, ProgressInv
  <2>5. delivered - unreported = delivered
    BY <1>2, <2>2
  <2> QED
    BY <1>2, <2>4, <2>5 DEF Reader!ToldAll
<1> QED
  BY <1>2, <1>3, <1>4 DEF ToldTruly

LEMMA ReaderHolds == ObjectsSpec => []ReaderInv
<1>1. ObjectsInit => ReaderInv
  BY ReaderStarts DEF ObjectsInit
<1>2. ReaderInv /\ [ObjectsNext]_ObjectsVars => ReaderInv'
  <2>1. [ObjectsNext]_ObjectsVars => Reader!Next \/ UNCHANGED readerVars
    BY DEF ObjectsNext, ObjectsVars
  <2> QED
    BY <2>1, ReaderInductive
<1> QED
  BY <1>1, <1>2, PTL DEF ObjectsSpec

(* A read that is about to return has filled its buffer with the file's    *)
(* bytes from the place it was asked for; a short one has marked the reader*)
(* unless no file could have them; the loader's position is still there    *)
(* (readBytes and read(to:count:) of IO.swift).                            *)
THEOREM ReadsReturnTheFile == ObjectsSpec => []ReadReturnsFile
<1>1. ReaderInv => ReadReturnsFile
  BY ReadAsAsked DEF ReadReturnsFile
<1> QED
  BY <1>1, ReaderHolds, PTL

(* The progress that the handler is told never goes back and never passes  *)
(* the file's size, and whenever no read has anything to report it has been*)
(* told of all that was read (reportProgress of IO.swift).                 *)
THEOREM ProgressNeverLies == ObjectsSpec => ProgressIsTrue
<1>1. ReaderInv /\ [ObjectsNext]_ObjectsVars => reportedBytes <= reportedBytes'
  <2> SUFFICES ASSUME ReaderInv, [ObjectsNext]_ObjectsVars
               PROVE  reportedBytes <= reportedBytes'
    OBVIOUS
  <2>1. Reader!Next \/ UNCHANGED readerVars
    BY DEF ObjectsNext, ObjectsVars
  <2>2. reportedBytes \in Nat /\ completedUnitCount \in Nat /\ reportedBytes <= completedUnitCount
    BY DEF ReaderInv, ReaderType, ProgressInv
  <2>3. CASE reportedBytes' = reportedBytes
    BY <2>2, <2>3
  <2>4. CASE \E t \in Reader!Callers : Reader!ProgressHandler(t)
    <3>1. PICK t \in Reader!Callers : stage[t] = "handling" /\ reportedBytes' = pending[t]
      BY <2>4 DEF Reader!ProgressHandler
    <3>2. reportedBytes' = completedUnitCount
      BY <3>1 DEF ReaderInv, ProgressInv
    <3> QED
      BY <2>2, <3>2
  <2> QED
    BY <2>1, <2>3, <2>4 DEF Reader!Next, readerVars, Reader!Seek, Reader!Read, Reader!ReadAt,
       Reader!Begin, Reader!Pread, Reader!EndLoop, Reader!RecordReadError, Reader!ReportProgress,
       Reader!Return, Reader!Truncate
<1>2. ReaderInv => ToldTruly
  BY TrulyReported
<1>3. ToldTruly' /\ reportedBytes <= reportedBytes'
         => [/\ reportedBytes <= reportedBytes' /\ reportedBytes' <= totalUnitCount
             /\ Reader!Quiet' => Reader!ToldAll']_(Reader!vars)
  BY DEF ToldTruly
<1> QED
  BY <1>1, <1>2, <1>3, ReaderHolds, PTL
     DEF ObjectsSpec, ProgressIsTrue, Reader!ProgressIsTrue

-----------------------------------------------------------------------------
(* The bounded cache.                                                      *)

\* The numbers of the entries are below the next one and are all different.
Numbered(entries, next) ==
    /\ next \in Nat
    /\ \A k \in DOMAIN entries : entries[k].serial \in 0..next-1
    /\ \A j, k \in DOMAIN entries : entries[j].serial = entries[k].serial => j = k

CacheInv == Numbered(contents, serial)

LEMMA LeastOf ==
    ASSUME NEW T, T \subseteq Nat, T # {}
    PROVE  \E m \in T : \A n \in T : m <= n
<1> DEFINE Less == {p \in Nat \X Nat : p[1] < p[2]}
<1>1. IsWellFoundedOn(OpToRel(<, Nat), Nat)
  BY NatLessThanWellFounded, Zenon
<1>2. OpToRel(<, Nat) = Less
  BY Zenon DEF OpToRel
<1>3. IsWellFoundedOn(Less, Nat)
  BY <1>1, <1>2, Zenon
<1> HIDE DEF Less
<1>4. PICK m \in T : \A n \in T : ~(<<n, m>> \in Less)
  BY <1>3, WFMin
<1>5. \A i, j \in Nat : <<i, j>> \in Less <=> i < j
  BY DEF Less
<1>6. ASSUME NEW n \in T PROVE m <= n
  <2>1. ~(n < m)
    BY <1>4, <1>5
  <2> QED
    BY <2>1
<1> QED
  BY <1>6

\* Of numbered entries exactly one, the oldest, has no older one.
LEMMA OldestIs ==
    ASSUME NEW entries, NEW next, Numbered(entries, next), DOMAIN entries # {}
    PROVE  \E oldest \in DOMAIN entries :
              /\ oldest = CHOOSE k \in DOMAIN entries :
                             \A j \in DOMAIN entries : entries[k].serial <= entries[j].serial
              /\ \A k \in DOMAIN entries :
                    k # oldest <=> \E j \in DOMAIN entries : entries[j].serial < entries[k].serial
<1> DEFINE numbers == {entries[k].serial : k \in DOMAIN entries}
<1> DEFINE oldest == CHOOSE k \in DOMAIN entries :
                        \A j \in DOMAIN entries : entries[k].serial <= entries[j].serial
<1>1. \A k \in DOMAIN entries : entries[k].serial \in Nat
  BY DEF Numbered
<1>2. PICK least \in numbers : \A n \in numbers : least <= n
  <2>1. numbers \subseteq Nat /\ numbers # {}
    BY <1>1
  <2> HIDE DEF numbers
  <2> QED
    BY <2>1, LeastOf
<1>3. \E k \in DOMAIN entries : \A j \in DOMAIN entries : entries[k].serial <= entries[j].serial
  BY <1>2
<1>4. oldest \in DOMAIN entries /\ \A j \in DOMAIN entries : entries[oldest].serial <= entries[j].serial
  BY <1>3
<1> HIDE DEF oldest
<1>5. ASSUME NEW k \in DOMAIN entries
      PROVE  k # oldest <=> \E j \in DOMAIN entries : entries[j].serial < entries[k].serial
  <2>1. CASE k = oldest
    BY <1>1, <1>4, <2>1
  <2>2. CASE k # oldest
    <3>1. entries[oldest].serial # entries[k].serial
      BY <1>4, <2>2 DEF Numbered
    <3> QED
      BY <1>1, <1>4, <2>2, <3>1
  <2> QED
    BY <2>1, <2>2
<1> QED
  BY <1>4, <1>5 DEF oldest

\* The cache and its list count alike.
LEMMA SameCardinality ==
    \A S : Cache!Cardinality(S) = Cardinality(S) /\ Cache!List!Cardinality(S) = Cardinality(S)
<1>1. \A S : Cache!Cardinality(S) = Cardinality(S)
  BY Zenon DEF Cache!Cardinality, Cardinality
<1>2. \A S : Cache!List!Cardinality(S) = Cardinality(S)
  BY Zenon DEF Cache!List!Cardinality, Cardinality
<1> QED
  BY <1>1, <1>2

\* Storing into some numbered entries is what the list does with them.
LEMMA PutImplements ==
    ASSUME NEW kept, NEW number, Numbered(kept, number), NEW key, NEW value,
           NEW others, others = (DOMAIN kept) \ {key},
           NEW before, before = {p \in others \X others : kept[p[1]].serial < kept[p[2]].serial},
           \A k \in others : kept[k].value = Cache!ValuesHeld[k],
           contents' = Cache!Bounded([k \in (DOMAIN kept) \union {key} |->
                          IF k = key THEN [value |-> value, serial |-> number] ELSE kept[k]]),
           serial' = number + 1
    PROVE  CacheInv' /\ Cache!List!Put(key, value, others, before)
<1>1. PICK grown, entries, order :
        /\ grown = others \union {key}
        /\ entries = [k \in grown |->
                        IF k = key THEN [value |-> value, serial |-> number] ELSE kept[k]]
        /\ order = before \union (others \X {key})
  OBVIOUS
<1>2. DOMAIN entries = grown /\ contents' = Cache!Bounded(entries)
  <2>1. (DOMAIN kept) \union {key} = grown
    BY <1>1
  <2> QED
    BY <1>1, <2>1
<1>3. /\ entries[key].serial = number /\ entries[key].value = value
      /\ \A k \in others : entries[k] = kept[k]
  BY <1>1
<1>4. number \in Nat /\ \A k \in others : kept[k].serial \in 0..number-1
  BY DEF Numbered
<1>5. Numbered(entries, number + 1)
  <2>1. \A k \in grown : entries[k].serial \in 0..(number + 1)-1
    BY <1>1, <1>3, <1>4
  <2>2. ASSUME NEW j \in grown, NEW k \in grown, entries[j].serial = entries[k].serial PROVE j = k
    <3>1. CASE j \in others /\ k \in others
      BY <1>3, <2>2, <3>1 DEF Numbered
    <3>2. CASE j = key \/ k = key
      BY <1>1, <1>3, <1>4, <2>2, <3>2
    <3> QED
      BY <1>1, <3>1, <3>2
  <2> QED
    BY <1>2, <1>4, <2>1, <2>2 DEF Numbered
<1>6. ASSUME NEW j \in grown, NEW k \in grown
      PROVE  entries[j].serial < entries[k].serial <=> <<j, k>> \in order
  <2>1. CASE j \in others /\ k \in others
    <3>1. <<j, k>> \in order <=> <<j, k>> \in before
      BY <1>1, <2>1
    <3> QED
      BY <1>3, <2>1, <3>1
  <2>2. CASE j \in others /\ k = key
    BY <1>1, <1>3, <1>4, <2>2
  <2>3. CASE j = key
    <3>1. <<j, k>> \notin order
      BY <1>1, <2>3
    <3>2. CASE k \in others
      BY <1>3, <1>4, <2>3, <3>1, <3>2
    <3>3. CASE k = key
      BY <1>3, <1>4, <2>3, <3>1, <3>3
    <3> QED
      BY <1>1, <3>1, <3>2, <3>3
  <2> QED
    BY <1>1, <2>1, <2>2, <2>3
<1>7. PICK stay : stay = IF Cardinality(grown) > maxSize
                           THEN {k \in grown : \E j \in grown : <<j, k>> \in order} ELSE grown
  OBVIOUS
<1>8. /\ DOMAIN contents' = stay /\ stay \subseteq grown
      /\ \A k \in stay : contents'[k] = entries[k]
  <2>1. CASE Cardinality(grown) > maxSize
    <3>1. PICK oldest \in grown :
            /\ oldest = CHOOSE k \in DOMAIN entries :
                           \A j \in DOMAIN entries : entries[k].serial <= entries[j].serial
            /\ \A k \in grown : k # oldest <=> \E j \in grown : entries[j].serial < entries[k].serial
      <4>1. DOMAIN entries # {}
        BY <1>1, <1>2
      <4> QED
        BY <1>2, <1>5, <4>1, OldestIs
    <3>2. contents' = Cache!Without(entries, oldest)
      BY <1>2, <2>1, <3>1, SameCardinality, Zenon DEF Cache!Bounded
    <3>3. contents' = [k \in grown \ {oldest} |-> entries[k]]
      BY <1>2, <3>2 DEF Cache!Without
    <3>4. stay = grown \ {oldest}
      BY <1>6, <1>7, <2>1, <3>1
    <3> QED
      BY <3>3, <3>4
  <2>2. CASE ~(Cardinality(grown) > maxSize)
    <3>1. contents' = entries
      BY <1>2, <2>2, SameCardinality, Zenon DEF Cache!Bounded
    <3> QED
      BY <1>2, <1>7, <2>2, <3>1
  <2> QED
    BY <2>1, <2>2
<1>9. CacheInv'
  <2>1. \A k \in DOMAIN contents' : contents'[k].serial \in 0..serial'-1
    BY <1>2, <1>5, <1>8 DEF Numbered
  <2>2. \A j, k \in DOMAIN contents' : contents'[j].serial = contents'[k].serial => j = k
    BY <1>2, <1>5, <1>8 DEF Numbered
  <2>3. serial' \in Nat
    BY <1>4
  <2>4. Numbered(contents', serial')
    BY <2>1, <2>2, <2>3 DEF Numbered
  <2> QED
    BY <2>4 DEF CacheInv
<1>10. Cache!ValuesHeld' = [k \in stay |-> IF k = key THEN value ELSE Cache!ValuesHeld[k]]
  <2>1. ASSUME NEW k \in stay
        PROVE  contents'[k].value = IF k = key THEN value ELSE Cache!ValuesHeld[k]
    BY <1>1, <1>3, <1>8
  <2> QED
    BY <1>8, <2>1 DEF Cache!ValuesHeld
<1>11. Cache!Older' = order \intersect (stay \X stay)
  <2>1. Cache!Older' = {p \in stay \X stay : contents'[p[1]].serial < contents'[p[2]].serial}
    BY <1>8 DEF Cache!Older
  <2>2. ASSUME NEW j \in stay, NEW k \in stay
        PROVE  contents'[j].serial < contents'[k].serial <=> <<j, k>> \in order
    <3>1. contents'[j] = entries[j] /\ contents'[k] = entries[k] /\ j \in grown /\ k \in grown
      BY <1>8
    <3> QED
      BY <1>6, <3>1
  <2>3. ASSUME NEW p \in stay \X stay PROVE p \in Cache!Older' <=> p \in order
    <3>1. p = <<p[1], p[2]>> /\ p[1] \in stay /\ p[2] \in stay
      OBVIOUS
    <3>2. p \in order <=> contents'[p[1]].serial < contents'[p[2]].serial
      BY <2>2, <3>1
    <3> QED
      BY <2>1, <3>2
  <2>4. Cache!Older' \subseteq stay \X stay
    BY <2>1
  <2> HIDE DEF Cache!Older
  <2> QED
    BY <2>3, <2>4
<1>12. /\ Cache!ValuesHeld' = [k \in stay |-> IF k = key THEN value ELSE Cache!ValuesHeld[k]]
       /\ Cache!Older' = Cache!List!Among(order, stay)
  BY <1>10, <1>11 DEF Cache!List!Among
<1> HIDE DEF Cache!ValuesHeld, Cache!Older
<1> QED
  BY <1>1, <1>7, <1>9, <1>12, SameCardinality, Zenon DEF Cache!List!Put

LEMMA SetImplements ==
    ASSUME CacheInv, NEW key, NEW value, Cache!Set(key, value)
    PROVE  CacheInv' /\ (Cache!List!Store(key, value) \/ Cache!List!StartOver(key, value))
<1>1. CASE serial = MaxInt
  <2>1. PICK kept, number : kept = Cache!NoContents /\ number = 0
    OBVIOUS
  <2>2. /\ contents' = Cache!Bounded([k \in (DOMAIN kept) \union {key} |->
                          IF k = key THEN [value |-> value, serial |-> number] ELSE kept[k]])
        /\ serial' = number + 1
    BY <1>1, <2>1 DEF Cache!Set, Cache!Wrapped
  <2>3. DOMAIN kept = {}
    BY <2>1 DEF Cache!NoContents
  <2>4. Numbered(kept, number)
    BY <2>1, <2>3 DEF Numbered
  <2>5. PICK others, before : others = {} /\ before = {}
    OBVIOUS
  <2>6. /\ others = (DOMAIN kept) \ {key}
        /\ before = {p \in others \X others : kept[p[1]].serial < kept[p[2]].serial}
        /\ \A k \in others : kept[k].value = Cache!ValuesHeld[k]
    BY <2>3, <2>5
  <2>7. CacheInv' /\ Cache!List!Put(key, value, others, before)
    BY <2>2, <2>4, <2>6, PutImplements
  <2> QED
    BY <2>5, <2>7 DEF Cache!List!StartOver
<1>2. CASE serial # MaxInt
  <2>1. PICK kept, number : kept = contents /\ number = serial
    OBVIOUS
  <2>2. /\ contents' = Cache!Bounded([k \in (DOMAIN kept) \union {key} |->
                          IF k = key THEN [value |-> value, serial |-> number] ELSE kept[k]])
        /\ serial' = number + 1
    BY <1>2, <2>1 DEF Cache!Set
  <2>3. Numbered(kept, number)
    BY <2>1 DEF CacheInv
  <2>4. PICK others, before :
          /\ others = (DOMAIN kept) \ {key}
          /\ before = {p \in others \X others : kept[p[1]].serial < kept[p[2]].serial}
    OBVIOUS
  <2>5. \A k \in others : kept[k].value = Cache!ValuesHeld[k]
    BY <2>1, <2>4 DEF Cache!ValuesHeld
  <2>6. CacheInv' /\ Cache!List!Put(key, value, others, before)
    BY <2>2, <2>3, <2>4, <2>5, PutImplements
  <2>7. others = Cache!List!Held \ {key} /\ before = Cache!List!Among(Cache!Older, others)
    BY <2>1, <2>4 DEF Cache!List!Held, Cache!ValuesHeld, Cache!List!Among, Cache!Older
  <2> QED
    BY <2>6, <2>7 DEF Cache!List!Store
<1> QED
  BY <1>1, <1>2

LEMMA ForgetImplements ==
    ASSUME CacheInv, NEW key, Cache!Forget(key)
    PROVE  CacheInv' /\ Cache!List!Remove(key)
<1>1. PICK others : others = (DOMAIN contents) \ {key}
  OBVIOUS
<1>2. contents' = [k \in others |-> contents[k]] /\ serial' = serial
  BY <1>1 DEF Cache!Forget, Cache!Without
<1>3. DOMAIN contents' = others /\ \A k \in others : contents'[k] = contents[k]
  BY <1>2
<1>4. CacheInv'
  BY <1>1, <1>2, <1>3 DEF CacheInv, Numbered
<1>5. Cache!ValuesHeld' = [k \in Cache!List!Held \ {key} |-> Cache!ValuesHeld[k]]
  BY <1>1, <1>3 DEF Cache!ValuesHeld, Cache!List!Held
<1>6. Cache!Older' = Cache!List!Among(Cache!Older, Cache!List!Held \ {key})
  BY <1>1, <1>3 DEF Cache!Older, Cache!List!Among, Cache!List!Held, Cache!ValuesHeld
<1> QED
  BY <1>4, <1>5, <1>6 DEF Cache!List!Remove

(* The cache implements the list of the values stored last: at most maxSize*)
(* of them, the oldest going first, also when a key is stored again and    *)
(* when the serial numbers end (Cache.subscript of Cache.swift).           *)
THEOREM OldestGoesFirst == ObjectsSpec => EvictsOldest
<1>1. ObjectsInit => CacheInv /\ Cache!List!Init
  <2> SUFFICES ASSUME contents = Cache!NoContents, serial = 0 PROVE CacheInv /\ Cache!List!Init
    BY DEF ObjectsInit, Cache!Init
  <2>1. DOMAIN contents = {}
    BY DEF Cache!NoContents
  <2>2. CacheInv
    BY <2>1 DEF CacheInv, Numbered
  <2>3. Cache!ValuesHeld = [k \in {} |-> 0]
    BY <2>1 DEF Cache!ValuesHeld
  <2>4. Cache!Older = {}
    BY <2>1 DEF Cache!Older
  <2> QED
    BY <2>2, <2>3, <2>4 DEF Cache!List!Init
<1>2. CacheInv /\ [ObjectsNext]_ObjectsVars
         => CacheInv' /\ [Cache!List!Next]_(Cache!List!vars)
  <2> SUFFICES ASSUME CacheInv, [ObjectsNext]_ObjectsVars
               PROVE  CacheInv' /\ (Cache!List!Next \/ UNCHANGED Cache!List!vars)
    OBVIOUS
  <2>1. CASE UNCHANGED cacheVars
    BY <2>1 DEF cacheVars, CacheInv, Cache!List!vars, Cache!ValuesHeld, Cache!Older
  <2>2. CASE Cache!Next
    <3>1. PICK key \in Keys : Cache!Forget(key) \/ \E value \in Values : Cache!Set(key, value)
      BY <2>2 DEF Cache!Next
    <3>2. CASE Cache!Forget(key)
      BY <3>2, ForgetImplements DEF Cache!List!Next
    <3>3. CASE \E value \in Values : Cache!Set(key, value)
      BY <3>3, SetImplements DEF Cache!List!Next
    <3> QED
      BY <3>1, <3>2, <3>3
  <2> QED
    BY <2>1, <2>2 DEF ObjectsNext, ObjectsVars
<1> QED
  BY <1>1, <1>2, PTL DEF ObjectsSpec, EvictsOldest, Cache!EvictsOldest, Cache!List!Spec
=============================================================================
