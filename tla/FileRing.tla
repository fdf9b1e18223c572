------------------------------ MODULE FileRing ------------------------------
(* The retained log of one stream of a detached exec, d2b-exec-runner's        *)
(* filering.rs: a circular data file and a sidecar with the offsets.  The      *)
(* runner writes and guestd reads, in different processes and without a lock,  *)
(* so a read may overlap an append cell by cell.  The byte at logical offset o *)
(* is represented by o itself: a read is right when it returns the offsets it  *)
(* asked for.                                                                  *)
EXTENDS Integers, Sequences

CONSTANTS
    Cap,           \* StreamMeta.cap
    READ_RETRIES,  \* attempts of one read
    Reader,        \* guestd's concurrent reads
    MaxChunk,      \* bound: bytes of one append
    MaxEnd         \* bound: bytes drained from the child

ASSUME RingAssumption ==
    /\ Cap \in Nat \ {0} /\ READ_RETRIES \in Nat \ {0}
    /\ MaxChunk \in Nat \ {0} /\ MaxEnd \in Nat

VARIABLES
    cell,     \* the data file: the byte in each cell, Hole where none was written
    dataLen,  \* its length
    sidecar,  \* the published StreamMeta (dropped_bytes is start_offset)
    meta,     \* FileRing.meta, the writer's own copy
    writer,   \* where the drain thread stands
    target,   \* the append under way: new_start, new_end and the next offset to write
    drained,  \* bytes read from the child's pipe
    read      \* the reads under way and their results

ringVars == <<cell, dataLen, sidecar, meta, writer, target, drained, read>>

Hole == -1
Position == 0..(Cap - 1)
At(o) == o % Cap
Lower(a, b) == IF a < b THEN a ELSE b
Upper(a, b) == IF a > b THEN a ELSE b

Meta == [start : Nat, end : Nat, truncated : BOOLEAN, eof : BOOLEAN, lost : BOOLEAN]
NewMeta == [start |-> 0, end |-> 0, truncated |-> FALSE, eof |-> FALSE, lost |-> FALSE]
NoTarget == [start |-> 0, end |-> 0, next |-> 0]

\* A read: the offset and length asked for, the attempts left, the sidecar it
\* relies on, the bytes so far; then its result.
Idle == [pc |-> "idle", off |-> 0, max |-> 0, tries |-> 0, seen |-> NewMeta, out |-> <<>>]
Failed == {"expired", "future", "corrupt"}

\* The type invariant.
RingTypeOK ==
    /\ cell \in [Position -> Nat \union {Hole}] /\ dataLen \in 0..Cap
    /\ sidecar \in Meta /\ meta \in Meta
    /\ writer \in {"ready", "write", "discard", "closed", "dead"}
    /\ target \in [start : Nat, end : Nat, next : Nat]
    /\ drained \in Nat
    /\ read \in [Reader ->
          [pc : {"idle", "meta", "cells", "recheck", "done"} \union Failed, off : Nat,
           max : Nat, tries : Nat, seen : Meta, out : Seq(Nat \union {Hole})]]

RingInit ==
    /\ cell = [p \in Position |-> Hole] /\ dataLen = 0
    /\ sidecar = NewMeta /\ meta = NewMeta
    /\ writer = "ready" /\ target = NoTarget /\ drained = 0
    /\ read = [r \in Reader |-> Idle]
-----------------------------------------------------------------------------
(* The writer: the drain thread and FileRing::append.                          *)

\* Where the retained bytes start once n more have been appended.
NewStart(n) == Upper(meta.end + n - Cap, 0)

\* append, phase 1: if this append drops the oldest bytes, publish the advanced
\* start before any cell is overwritten.
Evicted(newStart) ==
    IF newStart > meta.start
    THEN [meta EXCEPT !.start = Lower(newStart, meta.end), !.truncated = TRUE]
    ELSE meta

\* A chunk arrives from the pipe and its append begins.
AppendBegin(n) ==
    /\ writer = "ready" /\ drained + n <= MaxEnd
    /\ drained' = drained + n
    /\ meta' = Evicted(NewStart(n))
    /\ sidecar' = IF meta' = meta THEN sidecar ELSE meta'
    /\ target' = [start |-> NewStart(n), end |-> meta.end + n,
                  next |-> Upper(NewStart(n), meta.end)]
    /\ writer' = "write"
    /\ UNCHANGED <<cell, dataLen, read>>

\* write_circular: the surviving tail of the chunk, one cell at a time.
WriteCell ==
    /\ writer = "write" /\ target.next < target.end
    /\ cell' = [cell EXCEPT ![At(target.next)] = target.next]
    /\ dataLen' = Upper(dataLen, At(target.next) + 1)
    /\ target' = [target EXCEPT !.next = @ + 1]
    /\ UNCHANGED <<sidecar, meta, writer, drained, read>>

\* Mutant: the sidecar is published before the data is written.
FlushedEarly == TRUE

\* sync_data has returned: the data is durable before the larger end is published.
Flushed == target.next = target.end

Appended ==
    [meta EXCEPT !.end = target.end, !.start = Upper(@, target.start),
                 !.truncated = @ \/ target.start > meta.start]

\* append, phase 4.
Publish ==
    /\ writer = "write" /\ Flushed
    /\ meta' = Appended /\ sidecar' = Appended
    /\ writer' = "ready" /\ target' = NoTarget
    /\ UNCHANGED <<cell, dataLen, drained, read>>

\* Mutant: a stream whose append failed is only closed.
ClosedMeta(m) == [m EXCEPT !.eof = TRUE]

\* Mutant: a fresh sidecar replaces the lost stream's.
LostFresh(m) == [NewMeta EXCEPT !.lost = TRUE, !.eof = TRUE]

\* mark_lost
LostMeta(m) == [m EXCEPT !.lost = TRUE, !.eof = TRUE]

\* The append fails with the writer's copy at m, before or after the sidecar was
\* replaced by p, and the drain marks the stream lost; that write may fail too,
\* and is then not repeated.
AppendFails(m, p) ==
    /\ meta' = LostMeta(m)
    /\ sidecar' \in {sidecar, p, LostMeta(m)}
    /\ writer' = "discard" /\ target' = NoTarget

\* The first sidecar write of the append fails: the writer's copy is unchanged.
EvictFails(n) ==
    /\ writer = "ready" /\ drained + n <= MaxEnd
    /\ Evicted(NewStart(n)) # meta
    /\ drained' = drained + n
    /\ AppendFails(meta, Evicted(NewStart(n)))
    /\ UNCHANGED <<cell, dataLen, read>>

\* A cell write or the flush fails.
DataFails ==
    /\ writer = "write"
    /\ AppendFails(meta, sidecar)
    /\ UNCHANGED <<cell, dataLen, drained, read>>

\* The second sidecar write fails, with the writer's copy already advanced.
PublishFails ==
    /\ writer = "write" /\ Flushed
    /\ AppendFails(Appended, Appended)
    /\ UNCHANGED <<cell, dataLen, drained, read>>

\* After a failed append the drain only empties the pipe.
Discard(n) ==
    /\ writer = "discard" /\ drained + n <= MaxEnd
    /\ drained' = drained + n
    /\ UNCHANGED <<cell, dataLen, sidecar, meta, writer, target, read>>

\* The pipe ends: mark_eof, which does nothing where the writer's copy has eof.
DrainEnds ==
    /\ writer \in {"ready", "discard"}
    /\ meta' = [meta EXCEPT !.eof = TRUE]
    /\ IF meta.eof THEN UNCHANGED sidecar ELSE sidecar' \in {sidecar, meta'}
    /\ writer' = "closed"
    /\ UNCHANGED <<cell, dataLen, target, drained, read>>

\* The runner is killed, or exits without waiting for a blocked drain.
RunnerDies ==
    /\ writer \in {"ready", "write", "discard"}
    /\ writer' = "dead"
    /\ UNCHANGED <<cell, dataLen, sidecar, meta, target, drained, read>>

\* mark_stream_lost: guestd found the unit gone.
MarkStreamLost ==
    /\ writer \in {"dead", "closed"}
    /\ sidecar' = LostMeta(sidecar)
    /\ UNCHANGED <<cell, dataLen, meta, writer, target, drained, read>>
-----------------------------------------------------------------------------
(* The reader: FileRingReader::read.                                           *)

ReadBegin(r, off, max) ==
    /\ read[r].pc = "idle"
    /\ read' = [read EXCEPT ![r] =
                  [Idle EXCEPT !.pc = "meta", !.off = off, !.max = max, !.tries = READ_RETRIES]]
    /\ UNCHANGED <<cell, dataLen, sidecar, meta, writer, target, drained>>

\* validate_meta
Valid(m) ==
    /\ m.start <= m.end /\ m.end - m.start <= Cap
    /\ dataLen >= Lower(m.end, Cap)

Fail(r, why) == read' = [read EXCEPT ![r].pc = why, ![r].out = <<>>]

Take(q) == Lower(q.seen.end - q.off, q.max)

\* One attempt begins with a validated sidecar.
ReadMeta(r) ==
    /\ read[r].pc = "meta"
    /\ IF ~Valid(sidecar) THEN Fail(r, "corrupt")
       ELSE IF read[r].off < sidecar.start THEN Fail(r, "expired")
       ELSE IF read[r].off > sidecar.end THEN Fail(r, "future")
       ELSE read' = [read EXCEPT ![r].pc = "cells", ![r].seen = sidecar, ![r].out = <<>>]
    /\ UNCHANGED <<cell, dataLen, sidecar, meta, writer, target, drained>>

\* read_circular, one cell at a time.
ReadCell(r) ==
    /\ read[r].pc = "cells"
    /\ LET q == read[r]
           byte == cell[At(q.off + Len(q.out))]
       IN read' = IF Len(q.out) < Take(q)
                  THEN [read EXCEPT ![r].out = Append(@, byte)]
                  ELSE [read EXCEPT ![r].pc = "recheck"]
    /\ UNCHANGED <<cell, dataLen, sidecar, meta, writer, target, drained>>

\* Mutant: the check compares the end of what was read.
StableEnd(q) == sidecar.start <= q.off + Len(q.out)

\* Torn-read detection: the start has not passed the offset meanwhile.
Stable(q) == sidecar.start <= q.off

\* The bytes stand if nothing dropped them during the read; otherwise retry.
Recheck(r) ==
    /\ read[r].pc = "recheck"
    /\ IF ~Valid(sidecar) THEN Fail(r, "corrupt")
       ELSE IF Stable(read[r]) THEN read' = [read EXCEPT ![r].pc = "done"]
       ELSE IF read[r].tries > 1
            THEN read' = [read EXCEPT ![r].pc = "meta", ![r].tries = @ - 1, ![r].out = <<>>]
       ELSE Fail(r, "expired")
    /\ UNCHANGED <<cell, dataLen, sidecar, meta, writer, target, drained>>

\* The caller takes the result; the reader may be used again.
Return(r) ==
    /\ read[r].pc \in {"done"} \union Failed
    /\ read' = [read EXCEPT ![r] = Idle]
    /\ UNCHANGED <<cell, dataLen, sidecar, meta, writer, target, drained>>

RingWrite ==
    \/ \E n \in 1..MaxChunk : AppendBegin(n) \/ EvictFails(n) \/ Discard(n)
    \/ WriteCell \/ Publish \/ DataFails \/ PublishFails
    \/ DrainEnds \/ RunnerDies \/ MarkStreamLost

RingRead ==
    \E r \in Reader :
        \/ \E off, max \in 0..MaxEnd : ReadBegin(r, off, max)
        \/ ReadMeta(r) \/ ReadCell(r) \/ Recheck(r) \/ Return(r)

RingNext == RingWrite \/ RingRead

RingSpec == RingInit /\ [][RingNext]_ringVars
-----------------------------------------------------------------------------
\* The chunk a finished read hands back.
ChunkEof(q) == q.seen.eof /\ q.off + Take(q) >= q.seen.end
ChunkTruncated(q) == q.seen.truncated \/ q.seen.lost

\* A read that succeeds returns, for every offset it covers, the byte that was
\* written there, however many appends overlapped it and wherever they stopped
\* (torn-read detection in FileRingReader::read).
ReadsAreTrue ==
    \A r \in Reader : read[r].pc = "done" =>
        /\ Len(read[r].out) = Take(read[r])
        /\ \A i \in 1..Len(read[r].out) : read[r].out[i] = read[r].off + i - 1

\* The sidecar never runs ahead of the data file: no reader meets a pair it must
\* call corrupt, at any point of an append, failed or killed.
SidecarValid ==
    /\ Valid(sidecar)
    /\ \A r \in Reader : read[r].pc # "corrupt"

\* A client that reads up to an EOF no chunk of which was marked truncated has
\* every byte the drain took from the child: output that was dropped by the
\* ring, by a failed append or by a dead runner is never reported as complete.
EofIsComplete ==
    \A r \in Reader :
        read[r].pc = "done" /\ ChunkEof(read[r]) /\ ~ChunkTruncated(read[r])
            => read[r].off + Take(read[r]) >= drained /\ sidecar.start = 0

\* What a client was told stays true: the end never moves back, a closed stream
\* stays closed and a lost one lost, whichever of the two processes writes next.
OffsetsKept ==
    [][/\ sidecar'.end >= sidecar.end
       /\ sidecar.eof => sidecar'.eof
       /\ sidecar.lost => sidecar'.lost]_sidecar
=============================================================================
