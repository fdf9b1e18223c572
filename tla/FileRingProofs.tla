--------------------------- MODULE FileRingProofs ---------------------------
(* A successful read of the retained log returns the bytes that were written,  *)
(* for every capacity, chunk size and number of readers.                       *)
EXTENDS FileRing, TLAPS

\* The retained bytes of m are in their cells, within the data file.
Window(m) ==
    /\ m.start <= m.end /\ m.end - m.start <= Cap
    /\ Lower(m.end, Cap) <= dataLen
    /\ \A o \in Nat : m.start <= o /\ o < m.end => cell[At(o)] = o

\* An append under way writes only cells whose bytes the sidecar no longer retains.
AppendOK ==
    writer = "write" =>
        /\ meta.end <= target.end
        /\ target.start = Upper(target.end - Cap, 0)
        /\ meta.start >= Lower(target.start, meta.end)
        /\ Upper(target.start, meta.end) <= target.next /\ target.next <= target.end
        /\ \A o \in Nat : Upper(target.start, meta.end) <= o /\ o < target.next
                          => cell[At(o)] = o /\ At(o) < dataLen

OutTrue(q) == \A i \in 1..Len(q.out) : q.out[i] = q.off + i - 1

\* What a read has copied is right as long as its offset is retained.
ReadOK(q) ==
    /\ q.pc \in {"cells", "recheck", "done"} =>
          /\ q.seen.start <= q.off /\ q.off <= q.seen.end /\ q.seen.end <= sidecar.end
          /\ Len(q.out) <= Take(q)
    /\ q.pc \in {"cells", "recheck"} /\ sidecar.start <= q.off => OutTrue(q)
    /\ q.pc \in {"recheck", "done"} => Len(q.out) = Take(q)
    /\ q.pc = "done" => OutTrue(q)
    /\ q.pc # "corrupt"

RingInv ==
    /\ RingTypeOK
    /\ writer \in {"ready", "write"} => sidecar = meta
    /\ writer = "discard" => meta.eof
    /\ Window(sidecar)
    /\ AppendOK
    /\ \A r \in Reader : ReadOK(read[r])
-----------------------------------------------------------------------------
\* Division with remainder by the capacity.
LEMMA DivMod ==
    \A o \in Nat : At(o) \in Position /\ o = Cap * (o \div Cap) + At(o) /\ o \div Cap \in Nat
<1>1. \A o \in Nat : o % Cap \in 0..(Cap - 1) /\ o = Cap * (o \div Cap) + (o % Cap) /\ o \div Cap \in Nat
  BY RingAssumption
<1> QED BY <1>1, Zenon DEF At, Position

\* The first lap fills the cells in order.
LEMMA SmallOffset ==
    ASSUME NEW o \in Nat, o < Cap
    PROVE  At(o) = o
<1> DEFINE q == o \div Cap
<1>1. q \in Nat /\ o = Cap * q + At(o) /\ At(o) \in 0..(Cap - 1) BY DivMod, Zenon DEF Position
<1> HIDE DEF q
<1>2. CASE q >= 1 BY <1>1, <1>2, RingAssumption
<1>3. CASE q = 0 BY <1>1, <1>3, RingAssumption
<1> QED BY <1>1, <1>2, <1>3

\* Two offsets less than the capacity apart live in different cells.
LEMMA DistinctCells ==
    ASSUME NEW a \in Nat, NEW b \in Nat, a < b, b - a < Cap
    PROVE  At(a) # At(b)
<1> DEFINE p == a \div Cap
           q == b \div Cap
<1>0. At(a) \in Position /\ At(b) \in Position BY DivMod, Zenon
<1>1. /\ p \in Nat /\ q \in Nat /\ a = Cap * p + At(a) /\ b = Cap * q + At(b)
      /\ At(a) \in Int /\ At(b) \in Int
  <2>1. p \in Nat /\ a = Cap * p + At(a) BY DivMod, Zenon
  <2>2. q \in Nat /\ b = Cap * q + At(b) BY DivMod, Zenon
  <2>3. At(a) \in Int /\ At(b) \in Int BY <1>0, RingAssumption DEF Position
  <2> QED BY <2>1, <2>2, <2>3, Zenon
<1> HIDE DEF p, q
<1>2. ASSUME At(a) = At(b) PROVE FALSE
  <2>1. b - a = Cap * (q - p) BY <1>1, <1>2, RingAssumption
  <2>2. CASE q <= p BY <2>1, <2>2, <1>1, RingAssumption
  <2>3. CASE q >= p + 1 BY <2>1, <2>3, <1>1, RingAssumption
  <2> QED BY <2>2, <2>3, <1>1
<1> QED BY <1>2, Zenon

\* The last cell holds the offsets that are one short of a multiple of the capacity.
LEMMA LastCell ==
    ASSUME NEW e \in Nat, e >= Cap
    PROVE  \E o \in Nat : e - Cap <= o /\ o < e /\ At(o) = Cap - 1
<1> DEFINE q == e \div Cap
           o == Cap * q - 1
<1>1. q \in Nat /\ e = Cap * q + At(e) /\ At(e) \in 0..(Cap - 1) BY DivMod, Zenon DEF Position
<1>2. q >= 1 BY <1>1, RingAssumption
<1>3. o \in Nat /\ o \div Cap \in Nat /\ o = Cap * (o \div Cap) + At(o) /\ At(o) \in 0..(Cap - 1)
  <2>1. Cap * q >= Cap /\ Cap * q \in Nat BY <1>1, <1>2, RingAssumption
  <2>2. o \in Nat BY <2>1, RingAssumption
  <2> HIDE DEF o
  <2> QED BY <2>2, DivMod, Zenon DEF Position
<1>4. At(o) = Cap - 1
  <2> DEFINE k == o \div Cap
  <2>1. k \in Nat /\ Cap * q - 1 = Cap * k + At(o) /\ At(o) \in 0..(Cap - 1) BY <1>3, Zenon
  <2> HIDE DEF k, o, q
  <2>2. Cap * (q - k) = At(o) + 1 BY <2>1, <1>1, RingAssumption
  <2>3. q - k >= 1 /\ q - k < 2
    <3>1. CASE q - k <= 0 BY <3>1, <2>1, <2>2, <1>1, RingAssumption
    <3>2. CASE q - k >= 2 BY <3>2, <2>1, <2>2, <1>1, RingAssumption
    <3> QED BY <3>1, <3>2, <2>1, <1>1
  <2>4. q - k = 1 BY <2>1, <2>3, <1>1
  <2> QED BY <2>1, <2>2, <2>4, RingAssumption
<1>5. e - Cap <= o /\ o < e BY <1>1, <1>3, RingAssumption
<1> QED BY <1>3, <1>4, <1>5, Zenon

\* A step of the writer that keeps the window right, and moves neither end of it
\* back, keeps every read right: what was copied while the offset was retained
\* was right, and an offset that is retained now was retained then.
LEMMA WriterKeepsReads ==
    ASSUME RingInv, RingTypeOK', UNCHANGED read,
           sidecar'.start >= sidecar.start, sidecar'.end >= sidecar.end
    PROVE  (\A r \in Reader : ReadOK(read[r]))'
<1> SUFFICES ASSUME NEW r \in Reader PROVE ReadOK(read[r])'
  BY Zenon
<1>1. ReadOK(read[r]) /\ read'[r] = read[r] BY Zenon DEF RingInv
<1>2. /\ sidecar.start \in Nat /\ sidecar.end \in Nat
      /\ sidecar'.start \in Nat /\ sidecar'.end \in Nat
      /\ read[r].off \in Nat /\ read[r].seen.end \in Nat
  BY Zenon DEF RingInv, RingTypeOK, Meta
<1>3. OutTrue(read[r]) = OutTrue(read'[r]) /\ Take(read[r]) = Take(read'[r]) BY <1>1, Zenon
<1>4. sidecar'.start <= read[r].off => sidecar.start <= read[r].off BY <1>2
<1>5. read[r].seen.end <= sidecar.end => read[r].seen.end <= sidecar'.end BY <1>2
<1> QED BY <1>1, <1>3, <1>4, <1>5, Zenon DEF ReadOK, OutTrue, Take, Lower

\* Every append begins by giving up the bytes it is going to overwrite.
LEMMA EvictedFacts ==
    ASSUME RingInv, writer = "ready", NEW n \in 1..MaxChunk
    PROVE  LET e == Evicted(NewStart(n)) IN
           /\ e \in Meta /\ e.end = meta.end /\ e.start >= meta.start /\ e.start <= e.end
           /\ e.eof = meta.eof /\ e.lost = meta.lost
           /\ NewStart(n) \in Nat
           /\ NewStart(n) = Upper(meta.end + n - Cap, 0)
           /\ e.start >= Lower(NewStart(n), meta.end)
<1>1. meta \in Meta /\ n \in Nat /\ Cap \in Nat BY RingAssumption DEF RingInv, RingTypeOK
<1>2. NewStart(n) \in Nat BY <1>1 DEF NewStart, Upper, Meta
<1>3. meta.start <= meta.end BY Zenon DEF RingInv, Window
<1>4. CASE NewStart(n) > meta.start
  <2>1. Evicted(NewStart(n)) = [meta EXCEPT !.start = Lower(NewStart(n), meta.end), !.truncated = TRUE]
    BY <1>4, Zenon DEF Evicted
  <2>2. Lower(NewStart(n), meta.end) \in Nat /\ Lower(NewStart(n), meta.end) <= meta.end
        /\ Lower(NewStart(n), meta.end) >= meta.start
    BY <1>1, <1>2, <1>3, <1>4 DEF Lower, Meta
  <2> DEFINE e == Evicted(NewStart(n))
  <2>3. /\ e \in Meta /\ e.end = meta.end /\ e.start = Lower(NewStart(n), meta.end)
        /\ e.eof = meta.eof /\ e.lost = meta.lost
    BY <1>1, <2>1, <2>2, Zenon DEF Meta
  <2> HIDE DEF e
  <2>4. e.start >= meta.start /\ e.start <= e.end /\ e.start >= Lower(NewStart(n), meta.end)
    BY <2>2, <2>3
  <2> QED BY <1>2, <2>3, <2>4, Zenon DEF NewStart, e
<1>5. CASE ~(NewStart(n) > meta.start)
  <2>1. Evicted(NewStart(n)) = meta BY <1>5, Zenon DEF Evicted
  <2> QED BY <1>1, <1>2, <1>3, <1>5, <2>1 DEF NewStart, Lower, Upper, Meta
<1> QED BY <1>4, <1>5, Zenon

\* What the sidecar says after an append succeeded.
LEMMA AppendedFacts ==
    ASSUME RingInv, writer = "write", Flushed
    PROVE  /\ Appended \in Meta /\ Appended.end = target.end
           /\ Appended.start = Upper(meta.start, target.start)
           /\ Appended.start >= meta.start /\ Appended.end >= meta.end
           /\ Window(Appended)
<1>1. meta \in Meta /\ target \in [start : Nat, end : Nat, next : Nat] /\ Cap \in Nat \ {0}
  BY RingAssumption, Zenon DEF RingInv, RingTypeOK
<1>2. /\ Appended.end = target.end /\ Appended.start = Upper(meta.start, target.start)
      /\ Appended \in Meta
  BY <1>1, Zenon DEF Appended, Upper, Meta
<1>3. AppendOK /\ Window(meta) /\ target.next = target.end BY Zenon DEF RingInv, Flushed
<1>4. ASSUME NEW o \in Nat, Appended.start <= o, o < Appended.end PROVE cell[At(o)] = o
  <2>1. CASE o < meta.end BY <1>1, <1>2, <1>3, <1>4, <2>1 DEF Window, Upper, Meta
  <2>2. CASE o >= meta.end BY <1>1, <1>2, <1>3, <1>4, <2>2 DEF AppendOK, Upper, Meta
  <2> QED BY <2>1, <2>2, <1>1 DEF Meta
<1>5. /\ Appended.start >= meta.start /\ Appended.end >= meta.end
      /\ Appended.start <= Appended.end /\ Appended.end - Appended.start <= Cap
  BY <1>1, <1>2, <1>3 DEF AppendOK, Window, Upper, Meta
<1>6. Lower(target.end, Cap) <= dataLen
  <2>1. dataLen \in Nat /\ Lower(meta.end, Cap) <= dataLen BY <1>3 DEF Window, RingInv, RingTypeOK
  <2>2. ASSUME NEW o \in Nat, Upper(target.start, meta.end) <= o, o < target.end PROVE At(o) < dataLen
    BY <1>3, <2>2, Zenon DEF AppendOK
  <2>3. CASE meta.end >= Cap \/ meta.end = target.end
    BY <1>1, <1>3, <2>1, <2>3 DEF Lower, AppendOK, Meta
  <2>4. CASE meta.end < target.end /\ target.end <= Cap
    <3>1. target.start = 0 BY <1>1, <1>3, <2>4 DEF AppendOK, Upper
    <3>2. target.end - 1 \in Nat /\ Upper(target.start, meta.end) <= target.end - 1
      BY <1>1, <2>4, <3>1 DEF Upper, Meta
    <3>3. At(target.end - 1) = target.end - 1 BY <1>1, <3>2, <2>4, SmallOffset
    <3>4. target.end - 1 < dataLen BY <1>1, <2>2, <3>2, <3>3
    <3> QED BY <1>1, <2>1, <2>4, <3>4 DEF Lower
  <2>5. CASE meta.end < Cap /\ target.end > Cap
    <3>1. PICK o \in Nat : target.start <= o /\ o < target.end /\ At(o) = Cap - 1 /\ meta.end <= o
      <4>1. target.start = target.end - Cap BY <1>1, <1>3, <2>5 DEF AppendOK, Upper
      <4>2. CASE target.start <= Cap - 1
        <5>1. At(Cap - 1) = Cap - 1 /\ Cap - 1 \in Nat BY <1>1, SmallOffset
        <5> QED BY <1>1, <2>5, <4>2, <5>1 DEF Meta
      <4>3. CASE target.start > Cap - 1
        <5>1. PICK o \in Nat : target.end - Cap <= o /\ o < target.end /\ At(o) = Cap - 1
          <6>1. target.end \in Nat /\ target.end >= Cap BY <1>1, <2>5
          <6> HIDE <2>5
          <6> QED BY <6>1, LastCell, Zenon
        <5> QED BY <1>1, <2>5, <4>1, <4>3, <5>1 DEF Meta
      <4> QED BY <4>2, <4>3, <1>1
    <3>2. Cap - 1 < dataLen BY <1>1, <2>2, <3>1, Zenon DEF Upper, Meta
    <3> QED BY <1>1, <2>1, <2>5, <3>2 DEF Lower
  <2> QED BY <1>1, <1>3, <2>3, <2>4, <2>5 DEF AppendOK, Meta
<1> QED BY <1>2, <1>4, <1>5, <1>6, Zenon DEF Window

LEMMA LostFacts ==
    ASSUME NEW m \in Meta
    PROVE  LostMeta(m) \in Meta /\ LostMeta(m).start = m.start /\ LostMeta(m).end = m.end /\ LostMeta(m).eof
BY Zenon DEF LostMeta, Meta
-----------------------------------------------------------------------------
\* Steps that leave the cells and the append alone.
LEMMA SidecarStep ==
    ASSUME RingInv, RingTypeOK', UNCHANGED <<cell, dataLen, read>>,
           writer' = "discard" => meta'.eof,
           writer' \notin {"ready", "write"} \/ (writer' = "ready" /\ sidecar' = meta'),
           Window(sidecar'), sidecar'.start >= sidecar.start, sidecar'.end >= sidecar.end
    PROVE  RingInv'
<1>1. Window(sidecar)' BY Zenon DEF Window
<1>2. AppendOK' BY Zenon DEF AppendOK
<1>3. (\A r \in Reader : ReadOK(read[r]))' BY WriterKeepsReads, Zenon
<1> QED BY <1>1, <1>2, <1>3, Zenon DEF RingInv

\* A failed append leaves a sidecar that retains less or more, never wrongly.
LEMMA FailStep ==
    ASSUME RingInv, NEW m \in Meta, NEW p \in Meta, AppendFails(m, p), drained' \in Nat,
           UNCHANGED <<cell, dataLen, read>>,
           Window(m), m.start >= sidecar.start, m.end >= sidecar.end,
           Window(p), p.start >= sidecar.start, p.end >= sidecar.end
    PROVE  RingInv'
<1> DEFINE l == LostMeta(m)
<1>1. l \in Meta /\ l.start = m.start /\ l.end = m.end /\ l.eof BY LostFacts, Zenon
<1>2. Window(l) BY <1>1, Zenon DEF Window
<1>3. sidecar \in Meta /\ Window(sidecar) /\ sidecar.start \in Nat /\ sidecar.end \in Nat
  BY Zenon DEF RingInv, RingTypeOK, Meta
<1>4. sidecar' \in {sidecar, p, l} /\ meta' = l /\ writer' = "discard" /\ target' = NoTarget
  BY Zenon DEF AppendFails
<1> HIDE DEF l
<1>5. /\ sidecar' \in Meta /\ Window(sidecar')
      /\ sidecar'.start >= sidecar.start /\ sidecar'.end >= sidecar.end
  BY <1>1, <1>2, <1>3, <1>4
<1>6. RingTypeOK' BY <1>1, <1>4, <1>5, Zenon DEF RingInv, RingTypeOK, NoTarget
<1> QED BY <1>1, <1>4, <1>5, <1>6, SidecarStep, Zenon

\* Writing a cell harms no retained byte: its offset is less than the capacity
\* ahead of each of them.
LEMMA WriteCellStep ==
    ASSUME RingInv, WriteCell
    PROVE  RingInv'
<1> DEFINE x == target.next
<1>1. /\ x \in Nat /\ target.end \in Nat /\ target.start \in Nat /\ x < target.end
      /\ meta.start \in Nat /\ meta.end \in Nat /\ sidecar = meta /\ Cap \in Nat \ {0}
      /\ target \in [start : Nat, end : Nat, next : Nat]
  BY RingAssumption, Zenon DEF RingInv, RingTypeOK, WriteCell, Meta
<1>2. At(x) \in Position BY <1>1, DivMod, Zenon
<1>3. cell' = [cell EXCEPT ![At(x)] = x] /\ cell \in [Position -> Nat \union {Hole}]
  BY Zenon DEF WriteCell, RingInv, RingTypeOK
<1>4. AppendOK /\ Window(meta) BY <1>1, Zenon DEF RingInv
<1>5. /\ Upper(target.start, meta.end) <= x /\ target.start = Upper(target.end - Cap, 0)
      /\ meta.start >= Lower(target.start, meta.end)
  BY <1>4, Zenon DEF AppendOK, WriteCell
<1> HIDE DEF x
<1>0. dataLen \in Nat /\ dataLen' = Upper(dataLen, At(x) + 1) /\ dataLen' >= dataLen /\ At(x) < dataLen'
      /\ dataLen' \in Nat
  BY <1>2, RingAssumption DEF WriteCell, RingInv, RingTypeOK, Upper, Position, x
<1>6. ASSUME NEW o \in Nat, o < x, x - o < Cap, cell[At(o)] = o PROVE cell'[At(o)] = o
  <2>1. At(o) # At(x) BY <1>1, <1>6, DistinctCells, Zenon
  <2>2. At(o) \in Position BY DivMod, Zenon
  <2> QED BY <1>3, <1>6, <2>1, <2>2, Zenon
<1>7. Window(sidecar)'
  <2>1. ASSUME NEW o \in Nat, meta.start <= o, o < meta.end PROVE cell'[At(o)] = o
    <3>1. cell[At(o)] = o BY <1>4, <2>1, Zenon DEF Window
    <3>2. o < x /\ x - o < Cap BY <1>1, <1>5, <2>1 DEF Upper, Lower
    <3> QED BY <1>6, <3>1, <3>2, Zenon
  <2>2. Lower(meta.end, Cap) <= dataLen' BY <1>0, <1>1, <1>4 DEF Window, Lower
  <2> QED BY <1>1, <1>4, <2>1, <2>2, Zenon DEF Window, WriteCell
<1>8. target' = [target EXCEPT !.next = x + 1] /\ writer' = "write" /\ meta' = meta
  BY Zenon DEF WriteCell, x
<1>9. target'.next = x + 1 /\ target'.end = target.end /\ target'.start = target.start
  BY <1>1, <1>8, Zenon
<1>10. AppendOK'
  <2>1. ASSUME NEW o \in Nat, Upper(target.start, meta.end) <= o, o < x + 1
        PROVE  cell'[At(o)] = o /\ At(o) < dataLen'
    <3>1. CASE o = x BY <1>0, <1>2, <1>3, <3>1, Zenon
    <3>2. CASE o < x
      <4>1. cell[At(o)] = o /\ At(o) < dataLen /\ At(o) \in Nat BY DivMod, RingAssumption, <1>4, <2>1, <3>2 DEF AppendOK, WriteCell, x, Position
      <4>2. x - o < Cap BY <1>1, <1>5, <2>1 DEF Upper
      <4>3. At(o) < dataLen' BY <1>0, <4>1
      <4> QED BY <1>6, <3>2, <4>1, <4>2, <4>3, Zenon
    <3> QED BY <3>1, <3>2, <2>1, <1>1
  <2>2. meta.end <= target.end /\ Upper(target.start, meta.end) <= x + 1 /\ x + 1 <= target.end
    BY <1>1, <1>4, <1>5 DEF AppendOK, WriteCell, Upper
  <2> QED BY <1>5, <1>8, <1>9, <2>1, <2>2, Zenon DEF AppendOK
<1>11. RingTypeOK'
  <2>1. cell' \in [Position -> Nat \union {Hole}] BY <1>1, <1>2, <1>3, Zenon
  <2>2. target' \in [start : Nat, end : Nat, next : Nat] BY <1>1, <1>8
  <2>3. dataLen' \in 0..Cap BY <1>1, <1>2 DEF WriteCell, RingInv, RingTypeOK, Upper, Position, x
  <2> QED BY <2>1, <2>2, <2>3, Zenon DEF WriteCell, RingInv, RingTypeOK
<1>12. (\A r \in Reader : ReadOK(read[r]))'
  BY <1>1, <1>11, WriterKeepsReads DEF WriteCell
<1> QED BY <1>1, <1>7, <1>10, <1>11, <1>12, Zenon DEF RingInv, WriteCell

LEMMA WriterStep ==
    ASSUME RingInv, RingWrite
    PROVE  RingInv'
<1>0. /\ meta \in Meta /\ sidecar \in Meta /\ drained \in Nat
      /\ sidecar.start \in Nat /\ sidecar.end \in Nat /\ Window(sidecar)
  BY Zenon DEF RingInv, RingTypeOK, Meta
<1>1. ASSUME NEW n \in 1..MaxChunk, AppendBegin(n) PROVE RingInv'
  <2> DEFINE e == Evicted(NewStart(n))
  <2>1. writer = "ready" /\ sidecar = meta BY <1>1, Zenon DEF AppendBegin, RingInv
  <2>2. /\ e \in Meta /\ e.end = meta.end /\ e.start >= meta.start /\ e.start <= e.end
        /\ NewStart(n) \in Nat /\ NewStart(n) = Upper(meta.end + n - Cap, 0)
        /\ e.start >= Lower(NewStart(n), meta.end)
    BY <2>1, EvictedFacts, Zenon
  <2>3. /\ meta' = e /\ sidecar' = e /\ writer' = "write" /\ cell' = cell /\ read' = read
        /\ dataLen' = dataLen /\ drained' = drained + n
        /\ target' = [start |-> NewStart(n), end |-> meta.end + n, next |-> Upper(NewStart(n), meta.end)]
    BY <1>1, <2>1, Zenon DEF AppendBegin
  <2> HIDE DEF e
  <2>4. /\ meta.end \in Nat /\ meta.start \in Nat /\ n \in Nat \ {0} /\ Cap \in Nat \ {0}
        /\ e.start \in Nat /\ e.end \in Nat
    BY <1>0, <2>2, RingAssumption DEF Meta
  <2>5. RingTypeOK'
    <3>1. Upper(NewStart(n), meta.end) \in Nat /\ meta.end + n \in Nat /\ drained + n \in Nat
      BY <1>0, <2>2, <2>4 DEF Upper
    <3>2. target' \in [start : Nat, end : Nat, next : Nat] BY <2>2, <2>3, <3>1, Zenon
    <3> QED BY <2>2, <2>3, <3>1, <3>2, Zenon DEF RingInv, RingTypeOK
  <2>6. Window(sidecar)'
    <3>1. e.end - e.start <= Cap BY <1>0, <2>1, <2>2, <2>4 DEF Window
    <3>2. ASSUME NEW o \in Nat, e.start <= o, o < e.end PROVE cell[At(o)] = o
      BY <1>0, <2>1, <2>2, <2>4, <3>2 DEF Window
    <3> QED BY <1>0, <2>1, <2>2, <2>3, <3>1, <3>2, Zenon DEF Window
  <2>7. AppendOK'
    <3>1. /\ target'.start = NewStart(n) /\ target'.end = meta.end + n
          /\ target'.next = Upper(NewStart(n), meta.end)
      BY <2>3, Zenon
    <3>2. Upper(NewStart(n), meta.end) <= meta.end + n /\ meta.end <= meta.end + n
      BY <2>2, <2>4 DEF Upper
    <3>3. ASSUME NEW o \in Nat PROVE ~(Upper(NewStart(n), meta.end) <= o /\ o < Upper(NewStart(n), meta.end))
      BY <2>2, <2>4 DEF Upper
    <3>4. Upper(NewStart(n), meta.end) <= Upper(NewStart(n), meta.end) BY <2>2, <2>4 DEF Upper
    <3>5. meta'.end = meta.end /\ meta'.start >= Lower(NewStart(n), meta.end) BY <2>2, <2>3, Zenon
    <3> HIDE DEF AppendOK
    <3>6. /\ meta'.end <= target'.end
          /\ target'.start = Upper(target'.end - Cap, 0)
          /\ meta'.start >= Lower(target'.start, meta'.end)
      <4>1. meta'.end <= target'.end BY <3>1, <3>2, <3>5, Zenon
      <4>2. target'.start = Upper(target'.end - Cap, 0) BY <2>2, <2>4, <3>1 DEF Upper
      <4>3. meta'.start >= Lower(target'.start, meta'.end) BY <3>1, <3>5, Zenon
      <4> QED BY <4>1, <4>2, <4>3, Zenon
    <3>7. Upper(target'.start, meta'.end) <= target'.next /\ target'.next <= target'.end
      BY <3>1, <3>2, <3>4, <3>5, Zenon
    <3>8. ASSUME NEW o \in Nat PROVE ~(Upper(target'.start, meta'.end) <= o /\ o < target'.next)
      BY <3>1, <3>3, <3>5, Zenon
    <3> QED BY <3>6, <3>7, <3>8, Zenon DEF AppendOK
  <2>8. (\A r \in Reader : ReadOK(read[r]))'
    <3>1. sidecar'.start >= sidecar.start /\ sidecar'.end >= sidecar.end BY <2>1, <2>2, <2>3, <2>4
    <3> QED BY <2>3, <2>5, <3>1, WriterKeepsReads, Zenon
  <2> QED BY <2>3, <2>5, <2>6, <2>7, <2>8, Zenon DEF RingInv
<1>2. ASSUME NEW n \in 1..MaxChunk, EvictFails(n) PROVE RingInv'
  <2> DEFINE e == Evicted(NewStart(n))
  <2>1. /\ writer = "ready" /\ sidecar = meta /\ AppendFails(meta, e) /\ drained' \in Nat
        /\ UNCHANGED <<cell, dataLen, read>>
    BY <1>0, <1>2 DEF EvictFails, RingInv
  <2>2. e \in Meta /\ e.end = meta.end /\ e.start >= meta.start /\ e.start <= e.end
    BY <2>1, EvictedFacts, Zenon
  <2> HIDE DEF e
  <2>3. meta.end \in Nat /\ meta.start \in Nat /\ e.start \in Nat /\ Cap \in Nat
    BY <1>0, <2>2, RingAssumption, Zenon DEF Meta
  <2>4. Window(e)
    <3>1. e.end - e.start <= Cap BY <1>0, <2>1, <2>2, <2>3 DEF Window
    <3>2. ASSUME NEW o \in Nat, e.start <= o, o < e.end PROVE cell[At(o)] = o
      BY <1>0, <2>1, <2>2, <2>3, <3>2 DEF Window
    <3> QED BY <1>0, <2>1, <2>2, <3>1, <3>2, Zenon DEF Window
  <2>5. meta.start >= sidecar.start /\ meta.end >= sidecar.end
        /\ e.start >= sidecar.start /\ e.end >= sidecar.end
    BY <2>1, <2>2, <2>3
  <2> QED BY <1>0, <2>1, <2>2, <2>4, <2>5, FailStep, Zenon
<1>3. ASSUME NEW n \in 1..MaxChunk, Discard(n) PROVE RingInv'
  <2>2. sidecar'.start >= sidecar.start /\ sidecar'.end >= sidecar.end /\ Window(sidecar')
        /\ (writer' = "discard" => meta'.eof) /\ writer' = "discard"
    BY <1>0, <1>3 DEF Discard, RingInv
  <2>1. RingTypeOK' BY <1>0, <1>3 DEF Discard, RingInv, RingTypeOK
  <2> QED BY <1>3, <2>1, <2>2, SidecarStep, Zenon DEF Discard
<1>4. CASE WriteCell BY <1>4, WriteCellStep, Zenon
<1>5. CASE Publish
  <2>1. writer = "write" /\ Flushed /\ meta' = Appended /\ sidecar' = Appended /\ writer' = "ready"
        /\ target' = NoTarget /\ UNCHANGED <<cell, dataLen, drained, read>> /\ sidecar = meta
    BY <1>5, Zenon DEF Publish, RingInv
  <2>2. Appended \in Meta /\ Appended.start >= meta.start /\ Appended.end >= meta.end /\ Window(Appended)
    BY <2>1, AppendedFacts, Zenon
  <2>3. RingTypeOK' BY <2>1, <2>2, Zenon DEF RingInv, RingTypeOK, NoTarget
  <2> QED BY <2>1, <2>2, <2>3, SidecarStep, Zenon
<1>6. CASE DataFails
  <2>1. /\ writer = "write" /\ sidecar = meta /\ AppendFails(meta, sidecar) /\ drained' \in Nat
        /\ UNCHANGED <<cell, dataLen, read>>
    BY <1>0, <1>6, Zenon DEF DataFails, RingInv
  <2> QED BY <1>0, <2>1, FailStep
<1>7. CASE PublishFails
  <2>1. /\ writer = "write" /\ Flushed /\ sidecar = meta /\ AppendFails(Appended, Appended)
        /\ drained' \in Nat /\ UNCHANGED <<cell, dataLen, read>>
    BY <1>0, <1>7, Zenon DEF PublishFails, RingInv
  <2>2. Appended \in Meta /\ Appended.start >= meta.start /\ Appended.end >= meta.end /\ Window(Appended)
    BY <2>1, AppendedFacts, Zenon
  <2> QED BY <2>1, <2>2, FailStep, Zenon
<1>8. CASE DrainEnds
  <2>1. /\ writer' = "closed" /\ meta' = [meta EXCEPT !.eof = TRUE]
        /\ UNCHANGED <<cell, dataLen, target, drained, read>>
        /\ sidecar' = sidecar \/ (sidecar = meta /\ sidecar' = meta')
    <3>1. CASE writer = "ready" BY <1>8, <3>1, Zenon DEF DrainEnds, RingInv
    <3>2. CASE writer = "discard" /\ meta.eof BY <1>8, <3>2, Zenon DEF DrainEnds
    <3>3. writer = "discard" => meta.eof BY Zenon DEF RingInv
    <3> QED BY <1>8, <3>1, <3>2, <3>3, Zenon DEF DrainEnds
  <2>2. meta' \in Meta /\ meta'.start = meta.start /\ meta'.end = meta.end BY <1>0, <2>1, Zenon DEF Meta
  <2>3. /\ sidecar' \in Meta /\ sidecar'.start = sidecar.start /\ sidecar'.end = sidecar.end
    BY <1>0, <2>1, <2>2, Zenon
  <2>4. Window(sidecar') BY <1>0, <2>3, Zenon DEF Window
  <2>5. RingTypeOK' BY <2>1, <2>2, <2>3, Zenon DEF RingInv, RingTypeOK
  <2>6. sidecar'.start >= sidecar.start /\ sidecar'.end >= sidecar.end BY <1>0, <2>3
  <2> QED BY <2>1, <2>4, <2>5, <2>6, SidecarStep, Zenon
<1>9. CASE RunnerDies
  <2>1. RingTypeOK' BY <1>9, Zenon DEF RunnerDies, RingInv, RingTypeOK
  <2>2. sidecar' = sidecar /\ sidecar'.start >= sidecar.start /\ sidecar'.end >= sidecar.end
    BY <1>0, <1>9 DEF RunnerDies
  <2> QED BY <1>0, <1>9, <2>1, <2>2, SidecarStep, Zenon DEF RunnerDies
<1>10. CASE MarkStreamLost
  <2>1. /\ sidecar' \in Meta /\ sidecar'.start = sidecar.start /\ sidecar'.end = sidecar.end
    BY <1>0, <1>10, LostFacts, Zenon DEF MarkStreamLost
  <2>2. Window(sidecar') BY <1>0, <2>1, Zenon DEF Window
  <2>3. RingTypeOK' BY <1>10, <2>1, Zenon DEF MarkStreamLost, RingInv, RingTypeOK
  <2>4. sidecar'.start >= sidecar.start /\ sidecar'.end >= sidecar.end BY <1>0, <2>1
  <2> QED BY <1>10, <2>2, <2>3, <2>4, SidecarStep, Zenon DEF MarkStreamLost
<1> QED BY <1>1, <1>2, <1>3, <1>4, <1>5, <1>6, <1>7, <1>8, <1>9, <1>10, Zenon DEF RingWrite
-----------------------------------------------------------------------------
Pc == {"idle", "meta", "cells", "recheck", "done"} \union Failed
Bytes == Seq(Nat \union {Hole})
Read == [pc : Pc, off : Nat, max : Nat, tries : Nat, seen : Meta, out : Bytes]

LEMMA ReadTypes ==
    /\ Pc = {"idle", "meta", "cells", "recheck", "done", "expired", "future", "corrupt"}
    /\ <<>> \in Bytes
    /\ RingInv => read \in [Reader -> Read]
<1>1. Pc = {"idle", "meta", "cells", "recheck", "done", "expired", "future", "corrupt"}
  BY Zenon DEF Pc, Failed
<1>2. <<>> \in Bytes BY DEF Bytes
<1>3. RingInv => read \in [Reader -> Read]
  BY Zenon DEF RingInv, RingTypeOK, Read, Pc, Bytes
<1> QED BY <1>1, <1>2, <1>3, Zenon

\* A step of one read touches no other, and nothing of the writer.
LEMMA OneRead ==
    ASSUME RingInv, NEW r \in Reader, NEW q \in Read, read' = [read EXCEPT ![r] = q],
           UNCHANGED <<cell, dataLen, sidecar, meta, writer, target, drained>>,
           ReadOK(q)
    PROVE  RingInv'
<1>1. read \in [Reader -> Read] BY ReadTypes, Zenon
<1>2. read' \in [Reader -> Read] BY <1>1, Zenon
<1>3. RingTypeOK' BY <1>2, Zenon DEF RingInv, RingTypeOK, Read, Pc, Bytes
<1>4. ASSUME NEW s \in Reader PROVE ReadOK(read'[s])
  <2>1. CASE s = r BY <1>1, <2>1, Zenon
  <2>2. CASE s # r BY <1>1, <2>2, Zenon DEF RingInv
  <2> QED BY <2>1, <2>2, Zenon
<1>5. ASSUME NEW s \in Reader PROVE ReadOK(read[s])'
  BY <1>4, Zenon DEF ReadOK, OutTrue, Take
<1>6. Window(sidecar)' BY Zenon DEF RingInv, Window
<1>7. AppendOK' BY Zenon DEF RingInv, AppendOK
<1> QED BY <1>3, <1>5, <1>6, <1>7, Zenon DEF RingInv

\* The sidecar always agrees with the data file.
LEMMA NeverCorrupt == RingInv => Valid(sidecar)
BY RingAssumption, Zenon DEF RingInv, RingTypeOK, Window, Valid, Lower, Meta

LEMMA ReaderStep ==
    ASSUME RingInv, RingRead
    PROVE  RingInv'
<1> PICK r \in Reader :
        \/ \E off, max \in 0..MaxEnd : ReadBegin(r, off, max)
        \/ ReadMeta(r) \/ ReadCell(r) \/ Recheck(r) \/ Return(r)
  BY Zenon DEF RingRead
<1>0. /\ read \in [Reader -> Read] /\ read[r] \in Read /\ ReadOK(read[r]) /\ Valid(sidecar)
      /\ sidecar \in Meta /\ Window(sidecar) /\ MaxEnd \in Nat /\ READ_RETRIES \in Nat
  BY NeverCorrupt, ReadTypes, RingAssumption, Zenon DEF RingInv, RingTypeOK
<1>1. Idle \in Read BY ReadTypes, Zenon DEF Idle, Read, NewMeta, Meta
<1>2. ASSUME NEW off \in 0..MaxEnd, NEW max \in 0..MaxEnd, ReadBegin(r, off, max) PROVE RingInv'
  <2> DEFINE q == [Idle EXCEPT !.pc = "meta", !.off = off, !.max = max, !.tries = READ_RETRIES]
  <2>1. off \in Nat /\ max \in Nat BY <1>0
  <2>2. q \in Read /\ q.pc = "meta" BY <1>0, <1>1, <2>1, ReadTypes, Zenon DEF Read
  <2> HIDE DEF q
  <2>3. ReadOK(q) BY <2>2, Zenon DEF ReadOK
  <2> QED BY <1>2, <2>2, <2>3, OneRead, Zenon DEF ReadBegin, q
<1>3. CASE ReadMeta(r)
  <2>1. ASSUME NEW why \in {"expired", "future"}, Fail(r, why) PROVE RingInv'
    <3> DEFINE q == [read[r] EXCEPT !.pc = why, !.out = <<>>]
    <3>1. q \in Read /\ q.pc = why BY <1>0, ReadTypes, Zenon DEF Read
    <3>2. ReadOK(q) BY <3>1, Zenon DEF ReadOK
    <3>3. read' = [read EXCEPT ![r] = q] BY <1>0, <2>1, Zenon DEF Fail
    <3> QED BY <1>3, <3>1, <3>2, <3>3, OneRead, Zenon DEF ReadMeta
  <2>2. CASE /\ sidecar.start <= read[r].off /\ read[r].off <= sidecar.end
             /\ read' = [read EXCEPT ![r].pc = "cells", ![r].seen = sidecar, ![r].out = <<>>]
    <3> DEFINE q == [read[r] EXCEPT !.pc = "cells", !.seen = sidecar, !.out = <<>>]
    <3>1. /\ q \in Read /\ q.pc = "cells" /\ q.seen = sidecar /\ q.out = <<>> /\ q.off = read[r].off
          /\ q.max = read[r].max
      BY <1>0, ReadTypes, Zenon DEF Read
    <3>2. read' = [read EXCEPT ![r] = q] BY <1>0, <2>2, Zenon
    <3> HIDE DEF q
    <3>3. /\ q.seen.start <= q.off /\ q.off <= q.seen.end /\ q.seen.end <= sidecar.end
          /\ Len(q.out) = 0 /\ 0 <= Take(q)
      BY <1>0, <2>2, <3>1 DEF Take, Lower, Meta, Read
    <3>4. ReadOK(q) BY <3>1, <3>3 DEF ReadOK, OutTrue
    <3> QED BY <1>3, <3>1, <3>2, <3>4, OneRead, Zenon DEF ReadMeta
  <2>3. read[r].off \in Nat /\ sidecar.start \in Nat /\ sidecar.end \in Nat BY <1>0, Zenon DEF Read, Meta
  <2> QED BY <1>0, <1>3, <2>1, <2>2, <2>3 DEF ReadMeta
<1>4. CASE ReadCell(r)
  <2>0. read[r].pc = "cells" BY <1>4, Zenon DEF ReadCell
  <2> DEFINE n == Len(read[r].out)
             t == Take(read[r])
             off == read[r].off
  <2>1. /\ n \in Nat /\ t \in Nat /\ off \in Nat /\ n <= t /\ off + t <= sidecar.end
        /\ off >= read[r].seen.start /\ sidecar.start \in Nat /\ sidecar.end \in Nat
    BY <1>0, <2>0 DEF ReadOK, Take, Lower, Read, Meta
  <2>2. CASE n < t
    <3> DEFINE byte == cell[At(off + n)]
               q == [read[r] EXCEPT !.out = Append(read[r].out, byte)]
    <3>1. byte \in Nat \union {Hole}
      <4>1. off + n \in Nat BY <2>1
      <4>2. At(off + n) \in Position BY <4>1, DivMod, Zenon
      <4> QED BY <4>2, Zenon DEF RingInv, RingTypeOK
    <3>2. sidecar.start <= off => byte = off + n
      <4>1. off + n \in Nat /\ off + n < sidecar.end /\ (sidecar.start <= off => sidecar.start <= off + n)
        BY <2>1, <2>2
      <4> QED BY <1>0, <4>1, Zenon DEF Window
    <3>3. read' = [read EXCEPT ![r] = q] BY <1>0, <1>4, <2>2, Zenon DEF ReadCell
    <3>4. /\ q \in Read /\ q.pc = "cells" /\ q.off = off /\ q.seen = read[r].seen /\ q.max = read[r].max
          /\ q.out = Append(read[r].out, byte)
      <4>1. Append(read[r].out, byte) \in Bytes BY <1>0, <3>1 DEF Read, Bytes
      <4> HIDE DEF byte
      <4> QED BY <1>0, <2>0, <4>1, Zenon DEF Read
    <3> HIDE DEF byte, q
    <3>5. Take(q) = t /\ Len(q.out) = n + 1 BY <1>0, <3>1, <3>4 DEF Take, Read
    <3>6. ASSUME sidecar.start <= off, NEW i \in 1..Len(q.out) PROVE q.out[i] = off + i - 1
      <4>1. OutTrue(read[r]) BY <1>0, <2>0, <3>6, Zenon DEF ReadOK
      <4>2. CASE i = n + 1
        <5>1. q.out[i] = byte BY <1>0, <3>1, <3>4, <4>2 DEF Read
        <5> QED BY <2>1, <3>2, <3>6, <4>2, <5>1
      <4>3. CASE i # n + 1
        <5>1. i \in 1..n BY <2>1, <3>5, <4>3
        <5>2. q.out[i] = read[r].out[i] BY <1>0, <3>1, <3>4, <5>1 DEF Read
        <5> QED BY <4>1, <5>1, <5>2, Zenon DEF OutTrue
      <4> QED BY <4>2, <4>3, Zenon
    <3>7. Len(q.out) <= Take(q) BY <2>1, <2>2, <3>5
    <3>8. ReadOK(q) BY <1>0, <2>0, <3>4, <3>6, <3>7, Zenon DEF ReadOK, OutTrue
    <3> QED BY <1>4, <3>3, <3>4, <3>8, OneRead, Zenon DEF ReadCell
  <2>3. CASE ~(n < t)
    <3> DEFINE q == [read[r] EXCEPT !.pc = "recheck"]
    <3>1. /\ q \in Read /\ q.pc = "recheck" /\ q.off = off /\ q.seen = read[r].seen
          /\ q.max = read[r].max /\ q.out = read[r].out
      BY <1>0, ReadTypes, Zenon DEF Read
    <3>2. read' = [read EXCEPT ![r] = q] BY <1>0, <1>4, <2>3, Zenon DEF ReadCell
    <3> HIDE DEF q
    <3>3. Take(q) = t /\ n = t BY <2>1, <2>3, <3>1 DEF Take
    <3>4. ReadOK(q) BY <1>0, <2>0, <3>1, <3>3, Zenon DEF ReadOK, OutTrue
    <3> QED BY <1>4, <3>1, <3>2, <3>4, OneRead, Zenon DEF ReadCell
  <2> QED BY <2>2, <2>3, Zenon
<1>5. CASE Recheck(r)
  <2>0. read[r].pc = "recheck" BY <1>5, Zenon DEF Recheck
  <2>1. CASE Stable(read[r]) /\ read' = [read EXCEPT ![r].pc = "done"]
    <3> DEFINE q == [read[r] EXCEPT !.pc = "done"]
    <3>1. /\ q \in Read /\ q.pc = "done" /\ q.off = read[r].off /\ q.seen = read[r].seen
          /\ q.max = read[r].max /\ q.out = read[r].out
      BY <1>0, ReadTypes, Zenon DEF Read
    <3>2. read' = [read EXCEPT ![r] = q] BY <1>0, <2>1, Zenon
    <3> HIDE DEF q
    <3>3. ReadOK(q) BY <1>0, <2>0, <2>1, <3>1, Zenon DEF ReadOK, OutTrue, Stable, Take
    <3> QED BY <1>5, <3>1, <3>2, <3>3, OneRead, Zenon DEF Recheck
  <2>2. CASE read' = [read EXCEPT ![r].pc = "meta", ![r].tries = @ - 1, ![r].out = <<>>] /\ read[r].tries > 1
    <3> DEFINE q == [read[r] EXCEPT !.pc = "meta", !.tries = @ - 1, !.out = <<>>]
    <3>1. q \in Read /\ q.pc = "meta" BY <1>0, <2>2, ReadTypes DEF Read
    <3>2. read' = [read EXCEPT ![r] = q] BY <1>0, <2>2, Zenon
    <3>3. ReadOK(q) BY <3>1, Zenon DEF ReadOK
    <3> QED BY <1>5, <3>1, <3>2, <3>3, OneRead, Zenon DEF Recheck
  <2>3. CASE Fail(r, "expired")
    <3> DEFINE q == [read[r] EXCEPT !.pc = "expired", !.out = <<>>]
    <3>1. q \in Read /\ q.pc = "expired" BY <1>0, ReadTypes, Zenon DEF Read
    <3>2. ReadOK(q) BY <3>1, Zenon DEF ReadOK
    <3>3. read' = [read EXCEPT ![r] = q] BY <1>0, <2>3, Zenon DEF Fail
    <3> QED BY <1>5, <3>1, <3>2, <3>3, OneRead, Zenon DEF Recheck
  <2> QED BY <1>0, <1>5, <2>1, <2>2, <2>3, Zenon DEF Recheck
<1>6. CASE Return(r)
  <2>1. ReadOK(Idle) BY Zenon DEF ReadOK, Idle
  <2> QED BY <1>1, <1>6, <2>1, OneRead, Zenon DEF Return
<1> QED BY <1>2, <1>3, <1>4, <1>5, <1>6, Zenon
-----------------------------------------------------------------------------
LEMMA RingInvHolds == RingSpec => []RingInv
<1>1. RingInit => RingInv
  <2> SUFFICES ASSUME RingInit PROVE RingInv BY Zenon
  <2>1. RingTypeOK
    BY RingAssumption DEF RingInit, RingTypeOK, NewMeta, NoTarget, Idle, Meta, Hole, Position
  <2>2. Window(sidecar) BY RingAssumption DEF RingInit, Window, NewMeta, Lower
  <2>3. \A r \in Reader : ReadOK(read[r]) BY Zenon DEF RingInit, ReadOK, Idle
  <2> QED BY <2>1, <2>2, <2>3, Zenon DEF RingInit, RingInv, AppendOK
<1>2. RingInv /\ [RingNext]_ringVars => RingInv'
  <2> SUFFICES ASSUME RingInv, [RingNext]_ringVars PROVE RingInv' BY Zenon
  <2>1. CASE RingWrite BY <2>1, WriterStep, Zenon
  <2>2. CASE RingRead BY <2>2, ReaderStep, Zenon
  <2>3. CASE UNCHANGED ringVars
    BY <2>3 DEF ringVars, RingInv, RingTypeOK, Window, AppendOK, ReadOK, OutTrue, Take
  <2> QED BY <2>1, <2>2, <2>3, Zenon DEF RingNext
<1> QED BY <1>1, <1>2, PTL DEF RingSpec

\* Type correctness of the ring.
THEOREM RingTypesHold == RingSpec => []RingTypeOK
<1>1. RingInv => RingTypeOK BY Zenon DEF RingInv
<1> QED BY <1>1, RingInvHolds, PTL

\* For every capacity, chunk size, number of readers and of retries: a read that
\* succeeds returns the bytes written at its offsets, although the writer holds
\* no lock and may overwrite, fail or die between any two cells.
THEOREM ReadsTrue == RingSpec => []ReadsAreTrue
<1>1. RingInv => ReadsAreTrue BY Zenon DEF RingInv, ReadOK, OutTrue, ReadsAreTrue
<1> QED BY <1>1, RingInvHolds, PTL

\* For every capacity: the sidecar never promises a byte the data file does not
\* have, so no read of an untampered ring is refused as corrupt.
THEOREM SidecarAgrees == RingSpec => []SidecarValid
<1>1. RingInv => SidecarValid BY NeverCorrupt, Zenon DEF RingInv, ReadOK, SidecarValid
<1> QED BY <1>1, RingInvHolds, PTL

Kept ==
    /\ sidecar'.end >= sidecar.end
    /\ sidecar.eof => sidecar'.eof
    /\ sidecar.lost => sidecar'.lost

\* What a client was told of a stream stays true, whichever process writes next.
THEOREM ToldStaysTrue == RingSpec => OffsetsKept
<1>1. RingInv /\ [RingNext]_ringVars => [Kept]_sidecar
  <2> SUFFICES ASSUME RingInv, RingNext PROVE Kept \/ sidecar' = sidecar
    BY Zenon DEF ringVars
  <2>0. sidecar \in Meta /\ meta \in Meta /\ sidecar.end \in Nat BY Zenon DEF RingInv, RingTypeOK, Meta
  <2>1. ASSUME NEW m \in Meta, NEW p \in Meta, AppendFails(m, p), m.end >= sidecar.end, p.end >= sidecar.end,
               p.eof = sidecar.eof, p.lost = sidecar.lost
        PROVE  Kept
    <3>1. LostMeta(m).end = m.end /\ LostMeta(m).eof = TRUE /\ LostMeta(m).lost = TRUE
      BY Zenon DEF LostMeta, Meta
    <3> QED BY <2>0, <2>1, <3>1 DEF AppendFails, Kept
  <2>2. ASSUME NEW n \in 1..MaxChunk, AppendBegin(n) \/ EvictFails(n) PROVE Kept \/ sidecar' = sidecar
    <3> DEFINE e == Evicted(NewStart(n))
    <3>1. writer = "ready" /\ sidecar = meta BY <2>2, Zenon DEF AppendBegin, EvictFails, RingInv
    <3>2. e \in Meta /\ e.end = meta.end /\ e.eof = meta.eof /\ e.lost = meta.lost
      BY <3>1, EvictedFacts, Zenon
    <3>3. e.end >= sidecar.end /\ meta.end >= sidecar.end BY <2>0, <3>1, <3>2
    <3>4. AppendBegin(n) => sidecar' = e \/ sidecar' = sidecar BY Zenon DEF AppendBegin
    <3>5. EvictFails(n) => AppendFails(meta, e) BY Zenon DEF EvictFails
    <3> HIDE DEF e
    <3> QED BY <2>0, <2>1, <2>2, <3>1, <3>2, <3>3, <3>4, <3>5, Zenon DEF Kept
  <2>3. ASSUME Publish \/ PublishFails PROVE Kept
    <3>1. writer = "write" /\ Flushed /\ sidecar = meta BY <2>3, Zenon DEF Publish, PublishFails, RingInv
    <3>2. Appended \in Meta /\ Appended.end >= meta.end BY <3>1, AppendedFacts, Zenon
    <3>3. Appended.eof = meta.eof /\ Appended.lost = meta.lost BY <2>0, Zenon DEF Appended, Meta
    <3>4. Publish => sidecar' = Appended BY Zenon DEF Publish
    <3>5. PublishFails => AppendFails(Appended, Appended) BY Zenon DEF PublishFails
    <3> QED BY <2>1, <2>3, <3>1, <3>2, <3>3, <3>4, <3>5, Zenon DEF Kept
  <2>4. CASE DataFails
    BY <2>0, <2>1, <2>4 DEF DataFails, RingInv
  <2>5. CASE DrainEnds
    <3>1. sidecar' = sidecar \/ (sidecar = meta /\ sidecar' = [meta EXCEPT !.eof = TRUE])
      BY <2>5, Zenon DEF DrainEnds, RingInv
    <3> QED BY <2>0, <3>1 DEF Kept, Meta
  <2>6. CASE MarkStreamLost
    BY <2>0, <2>6 DEF MarkStreamLost, LostMeta, Kept, Meta
  <2>7. ASSUME \/ \E n \in 1..MaxChunk : Discard(n)
               \/ WriteCell \/ RunnerDies \/ RingRead
        PROVE  sidecar' = sidecar
    BY <2>7, Zenon DEF Discard, WriteCell, RunnerDies, RingRead, ReadBegin, ReadMeta, ReadCell, Recheck, Return
  <2> QED BY <2>2, <2>3, <2>4, <2>5, <2>6, <2>7, Zenon DEF RingNext, RingWrite
<1> QED BY <1>1, RingInvHolds, PTL DEF RingSpec, OffsetsKept, Kept
-----------------------------------------------------------------------------
\* A sidecar that says eof and does not say lost is the last word: the pipe has
\* ended, and what was drained has been appended.
Final(m) == m.eof /\ ~m.lost => writer = "closed" /\ m.end = drained

\* Dropped bytes are owned up to.
Honest(m) == m.truncated \/ m.start = 0

Reading == {"cells", "recheck", "done"}

WriterInv ==
    /\ writer \in {"ready", "write"} => ~meta.eof
    /\ writer = "ready" => meta.end = drained
    /\ writer = "write" => target.end = drained
    /\ Honest(meta) /\ Honest(sidecar) /\ Final(sidecar)

\* What a reader relies on is as final as the sidecar it took it from.
SeenInv ==
    \A r \in Reader : read[r].pc \in Reading =>
        /\ Honest(read[r].seen) /\ Final(read[r].seen)
        /\ read[r].seen.eof /\ ~read[r].seen.lost => read[r].seen.start = sidecar.start

EofInv == WriterInv /\ SeenInv

\* What the metadata of an append under way says of dropped bytes.
LEMMA HonestFacts ==
    ASSUME RingInv, WriterInv
    PROVE  /\ \A n \in 1..MaxChunk : writer = "ready" => Honest(Evicted(NewStart(n)))
           /\ writer = "write" /\ Flushed => Honest(Appended) /\ Appended.eof = meta.eof
           /\ Honest(LostMeta(meta)) /\ Honest(LostMeta(sidecar))
           /\ writer = "write" /\ Flushed => Honest(LostMeta(Appended))
<1>1. meta \in Meta /\ sidecar \in Meta /\ Honest(meta) /\ Honest(sidecar)
  BY Zenon DEF RingInv, RingTypeOK, WriterInv
<1>2. ASSUME NEW n \in 1..MaxChunk PROVE Honest(Evicted(NewStart(n)))
  BY <1>1, Zenon DEF Honest, Evicted, Meta
<1>3. ASSUME writer = "write", Flushed PROVE Honest(Appended) /\ Appended.eof = meta.eof /\ Appended \in Meta
  <2>1. Appended \in Meta /\ Appended.start = Upper(meta.start, target.start)
    BY <1>3, AppendedFacts, Zenon
  <2>2. Appended.truncated = (meta.truncated \/ target.start > meta.start) /\ Appended.eof = meta.eof
    BY <1>1, Zenon DEF Appended, Meta
  <2>3. meta.start \in Nat /\ target.start \in Nat
    BY Zenon DEF RingInv, RingTypeOK, Meta
  <2>4. target.start > meta.start \/ Upper(meta.start, target.start) = meta.start
    BY <2>3 DEF Upper
  <2> QED BY <1>1, <2>1, <2>2, <2>4, Zenon DEF Honest
<1>4. ASSUME NEW m \in Meta, Honest(m) PROVE Honest(LostMeta(m))
  BY <1>4, Zenon DEF Honest, LostMeta, Meta
<1> QED BY <1>1, <1>2, <1>3, <1>4, Zenon

\* A failed append leaves a lost stream, or a sidecar that has no eof.
LEMMA FailedAppend ==
    ASSUME RingInv, WriterInv, NEW m \in Meta, NEW p \in Meta, AppendFails(m, p),
           Honest(LostMeta(m)), Honest(p), ~p.eof, ~sidecar.eof
    PROVE  WriterInv'
<1>1. LostMeta(m).lost = TRUE
  BY Zenon DEF LostMeta, Meta
<1>2. /\ meta' = LostMeta(m) /\ writer' = "discard"
      /\ sidecar' = sidecar \/ sidecar' = p \/ sidecar' = LostMeta(m)
  BY Zenon DEF AppendFails
<1>3. Final(sidecar)'
  BY <1>1, <1>2, Zenon DEF Final
<1>4. Honest(meta)' /\ Honest(sidecar)'
  BY <1>2, Zenon DEF WriterInv, Honest
<1> QED BY <1>2, <1>3, <1>4, Zenon DEF WriterInv

LEMMA WriterInvStep ==
    ASSUME RingInv, WriterInv, RingWrite
    PROVE  WriterInv'
<1>0. /\ meta \in Meta /\ sidecar \in Meta /\ meta.end \in Nat /\ drained \in Nat
      /\ writer \in {"ready", "write"} => sidecar = meta /\ ~meta.eof
      /\ writer = "discard" => meta.eof
  BY Zenon DEF RingInv, RingTypeOK, WriterInv, Meta
<1>1. ASSUME NEW n \in 1..MaxChunk, AppendBegin(n) PROVE WriterInv'
  <2> DEFINE e == Evicted(NewStart(n))
  <2>1. /\ writer = "ready" /\ writer' = "write" /\ meta' = e /\ drained' = drained + n
        /\ target'.end = meta.end + n /\ (sidecar' = sidecar \/ sidecar' = e)
    BY <1>1, Zenon DEF AppendBegin
  <2>2. Honest(e) /\ e.eof = meta.eof
    BY <2>1, HonestFacts, EvictedFacts, Zenon
  <2> HIDE DEF e
  <2>3. ~meta'.eof /\ ~sidecar'.eof
    BY <1>0, <2>1, <2>2, Zenon
  <2>4. Honest(meta)' /\ Honest(sidecar)' /\ Final(sidecar)'
    BY <2>1, <2>2, <2>3, Zenon DEF Honest, Final, WriterInv
  <2>5. meta.end = drained
    BY <2>1, Zenon DEF WriterInv
  <2>6. target'.end = drained'
    BY <2>1, <2>5, Zenon
  <2> QED BY <2>1, <2>3, <2>4, <2>6, Zenon DEF WriterInv
<1>2. ASSUME NEW n \in 1..MaxChunk, EvictFails(n) PROVE WriterInv'
  <2> DEFINE e == Evicted(NewStart(n))
  <2>1. writer = "ready" /\ AppendFails(meta, e)
    BY <1>2, Zenon DEF EvictFails
  <2>2. e \in Meta /\ Honest(e) /\ e.eof = meta.eof /\ Honest(LostMeta(meta))
    BY <2>1, HonestFacts, EvictedFacts, Zenon
  <2> HIDE DEF e
  <2> QED BY <1>0, <2>1, <2>2, FailedAppend, Zenon
<1>3. ASSUME NEW n \in 1..MaxChunk, Discard(n) PROVE WriterInv'
  <2>1. writer = "discard" /\ writer' = "discard" /\ UNCHANGED <<meta, sidecar, target>>
    BY <1>3, Zenon DEF Discard
  <2> QED BY <2>1, Zenon DEF WriterInv, Final, Honest
<1>4. CASE WriteCell
  <2>1. target'.end = target.end /\ UNCHANGED <<meta, sidecar, writer, drained>>
    BY <1>4, Zenon DEF WriteCell, RingInv, RingTypeOK
  <2> QED BY <2>1, Zenon DEF WriterInv, Final, Honest
<1>5. CASE Publish
  <2>1. /\ writer = "write" /\ Flushed /\ writer' = "ready" /\ meta' = Appended /\ sidecar' = Appended
        /\ drained' = drained
    BY <1>5, Zenon DEF Publish
  <2>2. Honest(Appended) /\ ~Appended.eof /\ Appended.end = target.end
    BY <1>0, <2>1, HonestFacts, AppendedFacts, Zenon
  <2>3. Honest(meta)' /\ Honest(sidecar)' /\ Final(sidecar)'
    BY <2>1, <2>2, Zenon DEF Honest, Final
  <2> QED BY <2>1, <2>2, <2>3, Zenon DEF WriterInv
<1>6. CASE DataFails
  <2>1. writer = "write" /\ AppendFails(meta, sidecar)
    BY <1>6, Zenon DEF DataFails
  <2> QED BY <1>0, <2>1, HonestFacts, FailedAppend, Zenon DEF WriterInv
<1>7. CASE PublishFails
  <2>1. writer = "write" /\ Flushed /\ AppendFails(Appended, Appended)
    BY <1>7, Zenon DEF PublishFails
  <2>2. Appended \in Meta /\ Honest(Appended) /\ ~Appended.eof /\ Honest(LostMeta(Appended))
    BY <1>0, <2>1, HonestFacts, AppendedFacts, Zenon
  <2> QED BY <1>0, <2>1, <2>2, FailedAppend, Zenon
<1>8. CASE DrainEnds
  <2> DEFINE m == [meta EXCEPT !.eof = TRUE]
  <2>1. /\ m.start = meta.start /\ m.end = meta.end /\ m.truncated = meta.truncated
    BY <1>0, Zenon DEF Meta
  <2>2. /\ writer \in {"ready", "discard"} /\ writer' = "closed" /\ meta' = m /\ drained' = drained
        /\ sidecar' = sidecar \/ (~meta.eof /\ sidecar' = m)
    BY <1>8, Zenon DEF DrainEnds
  <2> HIDE DEF m
  <2>3. Honest(meta)' /\ Honest(sidecar)'
    BY <2>1, <2>2, Zenon DEF Honest, WriterInv
  <2>4. Final(sidecar)'
    <3>1. CASE writer = "ready"
      BY <1>0, <2>1, <2>2, <3>1, Zenon DEF WriterInv, Final
    <3>2. CASE writer = "discard"
      BY <1>0, <2>2, <3>2, Zenon DEF WriterInv, Final
    <3> QED BY <2>2, <3>1, <3>2, Zenon
  <2> QED BY <2>2, <2>3, <2>4, Zenon DEF WriterInv
<1>9. CASE RunnerDies
  <2>1. writer # "closed" /\ writer' = "dead" /\ UNCHANGED <<meta, sidecar, target, drained>>
    BY <1>9, Zenon DEF RunnerDies
  <2> QED BY <2>1, Zenon DEF WriterInv, Final, Honest
<1>10. CASE MarkStreamLost
  <2>1. writer \in {"dead", "closed"} /\ sidecar' = LostMeta(sidecar) /\ UNCHANGED <<meta, writer>>
    BY <1>10, Zenon DEF MarkStreamLost
  <2>2. LostMeta(sidecar).lost = TRUE /\ Honest(LostMeta(sidecar))
    BY <1>0, HonestFacts, Zenon DEF LostMeta, Meta
  <2>3. Honest(meta)' /\ Honest(sidecar)' /\ Final(sidecar)'
    BY <2>1, <2>2, Zenon DEF Honest, Final, WriterInv
  <2> QED BY <2>1, <2>3, Zenon DEF WriterInv
<1> QED
  BY <1>1, <1>2, <1>3, <1>4, <1>5, <1>6, <1>7, <1>8, <1>9, <1>10, Zenon DEF RingWrite

\* A reader's sidecar is the one it had, or the one that is published now.
LEMMA ReadSeen ==
    ASSUME RingTypeOK, RingRead
    PROVE  \A u \in Reader : read'[u].pc \in Reading =>
               read'[u].seen = sidecar \/ (read[u].pc \in Reading /\ read'[u].seen = read[u].seen)
<1>1. PICK r \in Reader : \/ \E off, max \in 0..MaxEnd : ReadBegin(r, off, max)
                          \/ ReadMeta(r) \/ ReadCell(r) \/ Recheck(r) \/ Return(r)
  BY Zenon DEF RingRead
<1>2. \E q : /\ read' = [read EXCEPT ![r] = q]
             /\ q.pc \in Reading => q.seen = sidecar \/ (read[r].pc \in Reading /\ q.seen = read[r].seen)
  <2>0. read[r] \in Read
    BY Zenon DEF RingTypeOK, Read, Pc, Bytes
  <2> DEFINE Good(q) == /\ read' = [read EXCEPT ![r] = q]
                        /\ q.pc \in Reading => q.seen = sidecar \/ (read[r].pc \in Reading /\ q.seen = read[r].seen)
  <2> SUFFICES \E q : Good(q)
    OBVIOUS
  <2>a. ASSUME NEW why \in Failed, Fail(r, why) PROVE \E q : Good(q)
    <3> DEFINE q == [read[r] EXCEPT !.pc = why, !.out = <<>>]
    <3>1. q.pc = why /\ why \notin Reading
      BY <2>0, Zenon DEF Failed, Reading, Read
    <3>2. read' = [read EXCEPT ![r] = q]
      BY <2>a, Zenon DEF Fail
    <3>3. Good(q)
      BY <3>1, <3>2, Zenon
    <3> QED BY <3>3, Zenon
  <2>1. ASSUME NEW off \in 0..MaxEnd, NEW max \in 0..MaxEnd, ReadBegin(r, off, max) PROVE \E q : Good(q)
    <3> DEFINE q == [Idle EXCEPT !.pc = "meta", !.off = off, !.max = max, !.tries = READ_RETRIES]
    <3>1. q.pc = "meta"
      BY Zenon DEF Idle
    <3>2. read' = [read EXCEPT ![r] = q]
      BY <2>1, Zenon DEF ReadBegin
    <3>3. Good(q)
      BY <3>1, <3>2, Zenon DEF Reading
    <3> QED BY <3>3, Zenon
  <2>2. CASE ReadMeta(r)
    <3> DEFINE q == [read[r] EXCEPT !.pc = "cells", !.seen = sidecar, !.out = <<>>]
    <3>1. (\E why \in Failed : Fail(r, why)) \/ read' = [read EXCEPT ![r] = q]
      BY <2>2, Zenon DEF ReadMeta, Failed
    <3>2. q.seen = sidecar
      BY <2>0, Zenon DEF Read
    <3>3. CASE read' = [read EXCEPT ![r] = q]
      <4>1. Good(q)
        BY <3>2, <3>3, Zenon
      <4> QED BY <4>1, Zenon
    <3> QED BY <2>a, <3>1, <3>3, Zenon
  <2>3. CASE ReadCell(r)
    <3> DEFINE b == cell[At(read[r].off + Len(read[r].out))]
               q == [read[r] EXCEPT !.out = Append(@, b)]
               x == [read[r] EXCEPT !.pc = "recheck"]
    <3>1. read[r].pc \in Reading /\ (read' = [read EXCEPT ![r] = q] \/ read' = [read EXCEPT ![r] = x])
      BY <2>3, Zenon DEF ReadCell, Reading
    <3>2. q.seen = read[r].seen /\ x.seen = read[r].seen
      BY <2>0, Zenon DEF Read
    <3>3. Good(q) \/ Good(x)
      BY <3>1, <3>2, Zenon
    <3> QED BY <3>3, Zenon
  <2>4. CASE Recheck(r)
    <3> DEFINE q == [read[r] EXCEPT !.pc = "done"]
               x == [read[r] EXCEPT !.pc = "meta", !.tries = @ - 1, !.out = <<>>]
    <3>1. /\ read[r].pc \in Reading
          /\ \/ \E why \in Failed : Fail(r, why)
             \/ read' = [read EXCEPT ![r] = q] \/ read' = [read EXCEPT ![r] = x]
      BY <2>4, Zenon DEF Recheck, Reading, Failed
    <3>2. q.seen = read[r].seen /\ x.pc = "meta"
      BY <2>0, Zenon DEF Read
    <3>3. CASE read' = [read EXCEPT ![r] = q] \/ read' = [read EXCEPT ![r] = x]
      <4>1. Good(q) \/ Good(x)
        BY <3>1, <3>2, <3>3, Zenon DEF Reading
      <4> QED BY <4>1, Zenon
    <3> QED BY <2>a, <3>1, <3>3, Zenon
  <2>5. CASE Return(r)
    <3>1. Good(Idle)
      BY <2>5, Zenon DEF Return, Idle, Reading
    <3> QED BY <3>1, Zenon
  <2> QED BY <1>1, <2>1, <2>2, <2>3, <2>4, <2>5, Zenon
<1>3. PICK q : /\ read' = [read EXCEPT ![r] = q]
               /\ q.pc \in Reading => q.seen = sidecar \/ (read[r].pc \in Reading /\ q.seen = read[r].seen)
  BY <1>2, Zenon
<1>4. \A u \in Reader : read'[u] = IF u = r THEN q ELSE read[u]
  BY <1>3, Zenon DEF RingTypeOK
<1> QED BY <1>3, <1>4, Zenon

LEMMA EofStep ==
    ASSUME RingInv, EofInv, RingNext
    PROVE  EofInv'
<1>1. CASE RingWrite
  <2>1. WriterInv' /\ read' = read
    BY <1>1, WriterInvStep, Zenon
    DEF EofInv, RingWrite, AppendBegin, EvictFails, Discard, WriteCell, Publish, DataFails, PublishFails,
        DrainEnds, RunnerDies, MarkStreamLost
  <2>2. writer = "closed" => MarkStreamLost
    BY <1>1, Zenon
    DEF RingWrite, AppendBegin, EvictFails, Discard, WriteCell, Publish, DataFails, PublishFails,
        DrainEnds, RunnerDies
  <2>3. sidecar \in Meta
    BY Zenon DEF RingInv, RingTypeOK
  <2>4. MarkStreamLost => UNCHANGED <<writer, drained>> /\ sidecar'.start = sidecar.start
    BY <2>3, LostFacts, Zenon DEF MarkStreamLost
  <2>5. SeenInv'
    BY <2>1, <2>2, <2>4, Zenon DEF EofInv, SeenInv, Honest, Final
  <2> QED BY <2>1, <2>5, Zenon DEF EofInv
<1>2. CASE RingRead
  <2>1. UNCHANGED <<sidecar, meta, writer, target, drained>>
    BY <1>2, Zenon DEF RingRead, ReadBegin, ReadMeta, ReadCell, Recheck, Return
  <2>2. WriterInv'
    BY <2>1, Zenon DEF EofInv, WriterInv, Honest, Final
  <2>3. RingTypeOK
    BY Zenon DEF RingInv
  <2>4. SeenInv'
    <3> SUFFICES ASSUME NEW u \in Reader, read'[u].pc \in Reading
                 PROVE  /\ Honest(read[u].seen)' /\ Final(read[u].seen)'
                        /\ read'[u].seen.eof /\ ~read'[u].seen.lost => read'[u].seen.start = sidecar'.start
      BY Zenon DEF SeenInv
    <3>1. read'[u].seen = sidecar \/ (read[u].pc \in Reading /\ read'[u].seen = read[u].seen)
      BY <1>2, <2>3, ReadSeen, Zenon
    <3>2. CASE read'[u].seen = sidecar
      BY <2>1, <3>2, Zenon DEF EofInv, WriterInv, Honest, Final
    <3>3. CASE read[u].pc \in Reading /\ read'[u].seen = read[u].seen
      BY <2>1, <3>3, Zenon DEF EofInv, SeenInv, Honest, Final
    <3> QED BY <3>1, <3>2, <3>3, Zenon
  <2> QED BY <2>2, <2>4, Zenon DEF EofInv
<1> QED BY <1>1, <1>2, Zenon DEF RingNext

\* For every capacity, chunk size and number of readers: a client that reads up to
\* an EOF without a mark of truncation has all the child wrote (ReadChunk.eof and
\* .truncated of FileRingReader::read, mark_lost and mark_eof of the writer).
THEOREM EofComplete == RingSpec => []EofIsComplete
<1>1. RingInit => EofInv
  <2> SUFFICES ASSUME RingInit PROVE EofInv
    BY Zenon
  <2>1. NewMeta.start = 0 /\ NewMeta.end = 0 /\ NewMeta.eof = FALSE /\ Idle.pc = "idle"
    BY DEF NewMeta, Idle
  <2>2. WriterInv
    BY <2>1, Zenon DEF RingInit, WriterInv, Honest, Final
  <2>3. SeenInv
    BY <2>1, Zenon DEF RingInit, SeenInv, Reading
  <2> QED BY <2>2, <2>3, Zenon DEF EofInv
<1>2. RingInv /\ EofInv /\ [RingNext]_ringVars => EofInv'
  <2> SUFFICES ASSUME RingInv, EofInv, [RingNext]_ringVars PROVE EofInv'
    BY Zenon
  <2>1. CASE UNCHANGED ringVars
    BY <2>1, Zenon DEF ringVars, EofInv, WriterInv, SeenInv, Honest, Final
  <2> QED BY <2>1, EofStep, Zenon
<1>3. RingInv /\ EofInv => EofIsComplete
  <2> SUFFICES ASSUME RingInv, EofInv, NEW r \in Reader,
                      read[r].pc = "done", ChunkEof(read[r]), ~ChunkTruncated(read[r])
               PROVE  read[r].off + Take(read[r]) >= drained /\ sidecar.start = 0
    BY Zenon DEF EofIsComplete
  <2>1. /\ read[r].seen.eof /\ ~read[r].seen.lost /\ ~read[r].seen.truncated
        /\ read[r].off + Take(read[r]) >= read[r].seen.end
    BY Zenon DEF ChunkEof, ChunkTruncated
  <2>2. read[r].seen.end = drained /\ sidecar.start = 0
    BY <2>1, Zenon DEF EofInv, SeenInv, Final, Honest, Reading
  <2> QED BY <2>1, <2>2, Zenon
<1> QED BY <1>1, <1>2, <1>3, RingInvHolds, PTL DEF RingSpec
=============================================================================
