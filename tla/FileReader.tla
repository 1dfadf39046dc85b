------------------------------ MODULE FileReader ------------------------------
(***************************************************************************)
(* FileIOState (Source/MLX/IO.swift): the reader through which the C++     *)
(* core loads a file.  One thread moves a position and reads the header    *)
(* there; worker threads then read the tensors at positions of their own,  *)
(* all of them at once.  Each read goes in chunks, and each chunk's bytes  *)
(* are added to the progress and reported to a handler.                    *)
(*                                                                         *)
(* The byte of the file at a position is the position.  An interrupted     *)
(* pread is tried again, which changes nothing and is not a step.          *)
(***************************************************************************)
EXTENDS Integers

CONSTANTS
    Loaders,          \* threads that use the position: one
    Workers,          \* threads that read at an offset
    totalUnitCount,   \* the size of the file when it was opened
    ChunkSize,        \* maximumReadChunkSize
    MaxInt,           \* Int64.max
    Counts, Offsets,  \* what is asked for
    MaxCalls,         \* bound of the calls
    Nobody

VARIABLES
    fileLength,       \* the size of the file now
    offset, readError, completedUnitCount,   \* FileIOState
    progressLock,
    stage,            \* where each thread is in its read
    request,          \* what it asks for
    filled,           \* the buffer it fills: a byte for each index
    pending,          \* the bytes it has to report, then the progress
    calls,            \* calls so far
    reported,         \* the progress the handler got last
    delivered         \* history: the bytes pread has delivered

vars == <<fileLength, offset, readError, completedUnitCount, progressLock, stage, request,
          filled, pending, calls, reported, delivered>>

Callers == Loaders \union Workers
Smaller(m, n) == IF m < n THEN m ELSE n

NoRequest == [from |-> 0, count |-> 0]
NoBytes == [i \in {} |-> 0]

Init ==
    /\ fileLength = totalUnitCount
    /\ offset = 0 /\ readError = FALSE /\ completedUnitCount = 0
    /\ progressLock = Nobody
    /\ stage = [t \in Callers |-> "idle"]
    /\ request = [t \in Callers |-> NoRequest]
    /\ filled = [t \in Callers |-> NoBytes]
    /\ pending = [t \in Callers |-> 0]
    /\ calls = 0
    /\ reported = 0 /\ delivered = 0

Goto(t, s) == stage' = [stage EXCEPT ![t] = s]

Called == calls < MaxCalls /\ calls' = calls + 1

\* seek: from the start, the position or the end; what does not fit is refused.
Seek(t) ==
    /\ stage[t] = "idle" /\ Called
    /\ \E whence \in {0, offset, totalUnitCount}, by \in Offsets \union {-1, MaxInt} :
          /\ whence + by \in 0..MaxInt
          /\ offset' = whence + by
    /\ UNCHANGED <<fileLength, readError, completedUnitCount, progressLock, stage, request,
                   filled, pending, reported, delivered>>

\* The guard of readBytes.
Readable(r) == r.from <= MaxInt - r.count

Begin(t, r) ==
    /\ stage[t] = "idle" /\ Called
    /\ request' = [request EXCEPT ![t] = r]
    /\ Goto(t, IF Readable(r) THEN "reading" ELSE "ended")
    /\ UNCHANGED <<fileLength, offset, readError, completedUnitCount, progressLock, filled,
                   pending, reported, delivered>>

\* read(to:count:) takes the position under the lock and reads without it.
Read(t) == \E count \in Counts : Begin(t, [from |-> offset, count |-> count])

\* read(to:count:offset:)
ReadAt(t) == \E from \in Offsets, count \in Counts : Begin(t, [from |-> from, count |-> count])

totalRead(t) == CHOOSE n \in 0..MaxInt : DOMAIN filled[t] = 0..n-1

\* Faulty: a read that goes on after a short one starts over.
SourceFaulty(t) == request[t].from

Source(t) == request[t].from + totalRead(t)

\* One pread, of as many bytes as the system likes.
Pread(t) ==
    LET n == totalRead(t)
        chunkSize == Smaller(request[t].count - n, ChunkSize)
    IN
    /\ stage[t] = "reading"
    /\ \E bytesRead \in 1..Smaller(chunkSize, fileLength - Source(t)) :
          /\ filled' = [filled EXCEPT ![t] =
                          [i \in 0..n + bytesRead - 1 |->
                              IF i < n THEN @[i] ELSE Source(t) + i - n]]
          /\ pending' = [pending EXCEPT ![t] = bytesRead]
          /\ delivered' = delivered + bytesRead
    /\ Goto(t, "reporting")
    /\ UNCHANGED <<fileLength, offset, readError, completedUnitCount, progressLock, request,
                   calls, reported>>

\* pread fails, or is at the end of the file; or there is nothing left to read.
EndLoop(t) ==
    /\ stage[t] = "reading"
    /\ Goto(t, IF totalRead(t) < request[t].count THEN "failing" ELSE "ended")
    /\ UNCHANGED <<fileLength, offset, readError, completedUnitCount, progressLock, request,
                   filled, pending, calls, reported, delivered>>

RecordReadError(t) ==
    /\ stage[t] = "failing"
    /\ readError' = TRUE
    /\ Goto(t, "ended")
    /\ UNCHANGED <<fileLength, offset, completedUnitCount, progressLock, request, filled,
                   pending, calls, reported, delivered>>

\* Faulty: the lock covers the count and not the call of the handler.
LockedFaulty(t) == Nobody

Locked(t) == t

\* reportProgress, under progressLock
ReportProgress(t) ==
    LET added == Smaller(totalUnitCount - completedUnitCount, pending[t]) IN
    /\ stage[t] = "reporting" /\ progressLock = Nobody
    /\ progressLock' = Locked(t)
    /\ completedUnitCount' = completedUnitCount + added
    /\ pending' = [pending EXCEPT ![t] = completedUnitCount + added]
    /\ Goto(t, "handling")
    /\ UNCHANGED <<fileLength, offset, readError, request, filled, calls, reported, delivered>>

ProgressHandler(t) ==
    /\ stage[t] = "handling"
    /\ reported' = pending[t]
    /\ pending' = [pending EXCEPT ![t] = 0]
    /\ progressLock' = Nobody
    /\ Goto(t, "reading")
    /\ UNCHANGED <<fileLength, offset, readError, completedUnitCount, request, filled, calls,
                   delivered>>

\* The read returns; one at the position advances it, under the lock.
Return(t) ==
    /\ stage[t] = "ended"
    /\ offset' = IF t \in Loaders THEN offset + totalRead(t) ELSE offset
    /\ request' = [request EXCEPT ![t] = NoRequest]
    /\ filled' = [filled EXCEPT ![t] = NoBytes]
    /\ Goto(t, "idle")
    /\ UNCHANGED <<fileLength, readError, completedUnitCount, progressLock, pending, calls,
                   reported, delivered>>

\* Another process truncates the file, once.
Truncate ==
    /\ fileLength = totalUnitCount
    /\ fileLength' \in 0..fileLength - 1
    /\ UNCHANGED <<offset, readError, completedUnitCount, progressLock, stage, request, filled,
                   pending, calls, reported, delivered>>

Next ==
    \/ \E t \in Loaders : Seek(t) \/ Read(t)
    \/ \E t \in Workers : ReadAt(t)
    \/ \E t \in Callers :
          \/ Pread(t) \/ EndLoop(t) \/ RecordReadError(t)
          \/ ReportProgress(t) \/ ProgressHandler(t) \/ Return(t)
    \/ Truncate

-----------------------------------------------------------------------------
(* A read that is about to return has filled its buffer with the bytes from*)
(* the place it was asked for, in order, through any number of short reads;*)
(* for the loader that place is still its position, whatever the workers   *)
(* do.  If it has fewer bytes than asked for the reader is not good any    *)
(* more, unless no file could have them.                                   *)
ReadReturnsFile ==
    \A t \in Callers : stage[t] = "ended" =>
        /\ \A i \in DOMAIN filled[t] : filled[t][i] = request[t].from + i
        /\ totalRead(t) < request[t].count => readError \/ ~Readable(request[t])
        /\ t \in Loaders => offset = request[t].from

\* No thread has bytes to report.
Quiet == \A t \in Callers : stage[t] \notin {"reporting", "handling"}

ToldAll == reported = Smaller(totalUnitCount, delivered)

(* The handler's progress never goes back and never passes the size, and   *)
(* when no read has anything to report it has been told of every byte that *)
(* was read, though threads read and report at once.                       *)
ProgressIsTrue ==
    [][/\ reported <= reported' /\ reported' <= totalUnitCount
       /\ Quiet' => ToldAll']_vars
=============================================================================
