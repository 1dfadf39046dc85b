---------------------------- MODULE ConcurrentLoad ---------------------------
(***************************************************************************)
(* loadArraysAndMetadata(urls:) of Source/MLX/IO+Concurrent.swift.         *)
(*                                                                         *)
(* The files are prepared by several threads.  For each, the tensor names  *)
(* are planned from the header, in the order of their offsets, and the     *)
(* C++ loader reads the header again and makes lazy arrays.  When all are  *)
(* prepared, one checkedEval reads the payloads of every file in the       *)
(* planned order, and the dictionaries are merged.  The payloads may only  *)
(* be queued in part, or fail to be read: checkedEval then throws, and     *)
(* reads that were queued go on behind the caller.                         *)
(*                                                                         *)
(* A file may be replaced between the two reads of its header.             *)
(***************************************************************************)
EXTENDS Naturals, SequencesExt

CONSTANTS
    NumFiles,
    Names,
    MaxOffset,   \* bound of the offsets in each file's header
    MaxWorkers,  \* bound of the threads of concurrentPerform
    MaxReads,    \* bound of the reads in flight in the I/O pool
    NoError, NoNames, NoResult

ASSUME LoadAssumption ==
    /\ NumFiles \in Nat
    /\ MaxOffset \in [1..NumFiles -> Nat]
    /\ IsFiniteSet(Names)
    /\ NoError \notin {"prepare", "schedule", "read"} /\ NoNames \notin Seq(Names)

Files == 1..NumFiles
Span(f) == [begin : 0..MaxOffset[f], end : 0..MaxOffset[f]]
Headers(f) == UNION {[S -> Span(f)] : S \in SUBSET Names}

VARIABLES
    header,      \* what the loader finds in each file
    worker,      \* what concurrentPerform does for each file
    prepared,    \* perFileArrays: the names of each file's arrays
    planned,     \* namesPerFile
    firstError,
    phase,       \* of the caller
    submitted,   \* the arrays in the order their reads are queued, <<file, name>>
    started,     \* how many of them have been started
    loaded,      \* those that were read
    failed,      \* those whose read failed
    result       \* the merged dictionary, as the file of each name's array

vars == <<header, worker, prepared, planned, firstError, phase, submitted, started,
          loaded, failed, result>>

Init ==
    /\ header \in {h \in [Files -> UNION {Headers(f) : f \in Files}] :
                     \A f \in Files : h[f] \in Headers(f)}
    /\ worker = [f \in Files |-> "waiting"]
    /\ prepared = [f \in Files |-> {}]
    /\ planned = [f \in Files |-> NoNames]
    /\ firstError = NoError
    /\ phase = "prepare"
    /\ submitted = <<>> /\ started = 0 /\ loaded = {} /\ failed = {}
    /\ result = NoResult

-----------------------------------------------------------------------------
\* safetensorNamesInFileOrder

\* Faulty: sorted by the begin offset alone.
PrecedesFaulty(a, b) == a.begin <= b.begin

Precedes(a, b) == a.begin < b.begin \/ (a.begin = b.begin /\ a.end <= b.end)

\* The orders the sort can give; spans that compare equal are in any order.
Sorted(h) == {q \in SetToSeqs(DOMAIN h) : \A i, j \in DOMAIN q : i < j => Precedes(h[q[i]], h[q[j]])}

Contiguous(h, q) ==
    \A i \in DOMAIN q : h[q[i]].begin = IF i = 1 THEN 0 ELSE h[q[i - 1]].end

Accepted(h, q) == Contiguous(h, q) /\ \A n \in DOMAIN h : h[n].end >= h[n].begin

\* The result for the sorted order q, NoNames if the header is malformed.
NamesInFileOrder(h, q) == IF Accepted(h, q) THEN q ELSE NoNames

PlansOf(h) == {NamesInFileOrder(h, q) : q \in Sorted(h)}

\* The header may have been another one when the plan was made, or unreadable.
Plans == {NoNames} \union UNION {PlansOf(header[g]) : g \in Files}

-----------------------------------------------------------------------------
\* The preparation.

Begin(f) ==
    /\ phase = "prepare" /\ worker[f] = "waiting"
    /\ Cardinality({g \in Files : worker[g] = "busy"}) < MaxWorkers
    /\ worker' = [worker EXCEPT ![f] = "busy"]
    /\ UNCHANGED <<header, prepared, planned, firstError, phase, submitted, started,
                   loaded, failed, result>>

\* ConcurrentLoadPreparation.set
Set(f) ==
    /\ worker[f] = "busy"
    /\ worker' = [worker EXCEPT ![f] = "done"]
    /\ prepared' = [prepared EXCEPT ![f] = DOMAIN header[f]]
    /\ \E names \in Plans : planned' = [planned EXCEPT ![f] = names]
    /\ UNCHANGED <<header, firstError, phase, submitted, started, loaded, failed, result>>

\* ConcurrentLoadPreparation.record
Record(f) ==
    /\ worker[f] = "busy"
    /\ worker' = [worker EXCEPT ![f] = "done"]
    /\ firstError' = IF firstError = NoError THEN "prepare" ELSE firstError
    /\ UNCHANGED <<header, prepared, planned, phase, submitted, started, loaded, failed, result>>

-----------------------------------------------------------------------------
\* The evaluation order.

\* Faulty: the plan is followed though it misses arrays.
FollowsFaulty(f) == planned[f] # NoNames /\ ToSet(planned[f]) \subseteq prepared[f]

\* The plan names the loader's arrays, and no others.
Follows(f) ==
    /\ planned[f] # NoNames
    /\ Len(planned[f]) = Cardinality(prepared[f])
    /\ ToSet(planned[f]) \subseteq prepared[f]

\* The orders a file's arrays may be appended in: any, without a plan.
FileOrders(f) ==
    {[i \in DOMAIN q |-> <<f, q[i]>>] :
        q \in IF Follows(f) THEN {planned[f]} ELSE SetToSeqs(prepared[f])}

\* Faulty: each file's arrays are reversed, and the files stay in order.
EvaluationOrderFaulty(orders) == FlattenSeq([f \in Files |-> Reverse(orders[f])])

\* safetensorArraysInEvaluationOrder
EvaluationOrder(orders) == Reverse(FlattenSeq(orders))

\* External: MLX consumes its tape from the back.
ReadOrder(roots) == Reverse(roots)

\* Faulty: an error is thrown before all files are done.
PreparationEndsFaulty == firstError # NoError \/ \A f \in Files : worker[f] = "done"

\* concurrentPerform returns when every iteration has.
PreparationEnds == \A f \in Files : worker[f] = "done"

Result ==
    /\ phase = "prepare" /\ PreparationEnds
    /\ IF firstError # NoError
         THEN phase' = "threw" /\ UNCHANGED submitted
         ELSE /\ phase' = "schedule"
              /\ \E orders \in {o \in [Files -> UNION {FileOrders(f) : f \in Files}] :
                                  \A f \in Files : o[f] \in FileOrders(f)} :
                    submitted' = ReadOrder(EvaluationOrder(orders))
    /\ UNCHANGED <<header, worker, prepared, planned, firstError, started, loaded, failed, result>>

-----------------------------------------------------------------------------
\* The reads, queued in order on the I/O pool, and checkedEval's wait for them.

\* eval, outermost: mlx_async_eval queues the reads, or fails with a part of
\* them queued.  Then eval does not wait for these, and checkedEval throws.
Schedule ==
    /\ phase = "schedule"
    /\ \/ phase' = "eval" /\ UNCHANGED <<firstError, submitted>>
       \/ /\ phase' = "threw" /\ firstError' = "schedule"
          /\ \E n \in 0..Len(submitted) : submitted' = SubSeq(submitted, 1, n)
    /\ UNCHANGED <<header, worker, prepared, planned, started, loaded, failed, result>>

Started == {submitted[i] : i \in 1..started}

MoreToRead == started < Len(submitted)

\* The pool also starts what is left in its queue after the call threw.
StartRead ==
    /\ phase \in {"eval", "threw"} /\ MoreToRead
    /\ Cardinality(Started \ (loaded \union failed)) < MaxReads
    /\ started' = started + 1
    /\ UNCHANGED <<header, worker, prepared, planned, firstError, phase, submitted, loaded,
                   failed, result>>

FinishRead(a) ==
    /\ a \in Started \ (loaded \union failed)
    /\ \/ loaded' = loaded \union {a} /\ UNCHANGED failed
       \/ failed' = failed \union {a} /\ UNCHANGED loaded
    /\ UNCHANGED <<header, worker, prepared, planned, firstError, phase, submitted, started, result>>

\* arrays.merge(fileArrays) { _, new in new }
Merge(merged, f) ==
    [n \in DOMAIN merged \union prepared[f] |-> IF n \in prepared[f] THEN f ELSE merged[n]]

\* The wait of eval ends: every array is loaded, or a read failed and
\* checkedEval throws, perhaps before the other reads are over.
Finish ==
    /\ phase = "eval"
    /\ \/ /\ ToSet(submitted) = loaded
          /\ phase' = "returned"
          /\ result' = FoldLeft(Merge, [n \in {} |-> 0], [f \in Files |-> f])
          /\ UNCHANGED firstError
       \/ /\ failed # {}
          /\ phase' = "threw" /\ firstError' = "read"
          /\ UNCHANGED result
    /\ UNCHANGED <<header, worker, prepared, planned, submitted, started, loaded, failed>>

Next ==
    \/ \E f \in Files : Begin(f) \/ Set(f) \/ Record(f)
    \/ Result \/ Schedule \/ StartRead \/ Finish
    \/ \E a \in Files \X Names : FinishRead(a)

Spec == Init /\ [][Next]_vars

-----------------------------------------------------------------------------
\* Every byte up to the largest end is in one tensor, and an empty tensor
\* lies between two others.
Tiles(h) ==
    LET total == Max({0} \union {h[n].end : n \in DOMAIN h}) IN
    /\ \A n \in DOMAIN h : h[n].begin <= h[n].end
    /\ \A x \in 0..total - 1 :
          Cardinality({n \in DOMAIN h : h[n].begin <= x /\ x < h[n].end}) = 1
    /\ \A m, n \in DOMAIN h :
          h[n].begin = h[n].end => ~(h[m].begin < h[n].begin /\ h[n].begin < h[m].end)

(* safetensorNamesInFileOrder accepts exactly the headers whose tensors    *)
(* tile the data, whatever order the sort leaves equal spans in.           *)
PlansWhatTiles ==
    \A f \in Files : \A q \in Sorted(header[f]) : (NamesInFileOrder(header[f], q) # NoNames) <=> Tiles(header[f])

(* Payloads are read file by file in the order of the urls, and within a   *)
(* file whose header was readable and did not change, in ascending offsets.*)
ReadInFileOrder ==
    \A i, j \in DOMAIN submitted :
        i < j => LET a == submitted[i]
                     b == submitted[j] IN
                 /\ a[1] <= b[1]
                 /\ a[1] = b[1] /\ planned[a[1]] \in PlansOf(header[a[1]]) \ {NoNames}
                      => header[a[1]][a[2]].end <= header[a[1]][b[2]].begin

(* A call that returns has the dictionary of a serial loop over the urls,  *)
(* the later file winning, and every array of every file is loaded, the    *)
(* overwritten ones as well.                                               *)
ReturnsSerialMerge ==
    phase = "returned" =>
        /\ DOMAIN result = UNION {DOMAIN header[f] : f \in Files}
        /\ \A n \in DOMAIN result : result[n] = Max({f \in Files : n \in DOMAIN header[f]})
        /\ \A f \in Files : \A n \in DOMAIN header[f] : <<f, n>> \in loaded

(* One file that cannot be prepared fails the call before any payload is   *)
(* read, and the call is over, or goes on to the payloads, only when no    *)
(* worker prepares a file any more: perFileArrays is then complete.        *)
AllPreparedOrNoneRead ==
    /\ started > 0 =>
          /\ firstError # "prepare"
          /\ \A f \in Files : prepared[f] = DOMAIN header[f]
    /\ phase # "prepare" => \A f \in Files : worker[f] = "done"
=============================================================================
