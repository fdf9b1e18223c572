-------------------------- MODULE MuxSessionProofs --------------------------
(* Proofs about StreamMux for any caller and any peer, for every set of        *)
(* streams, every cap and every bound; and about two sessions, which drive     *)
(* their muxes only through its calls, so that what is proved of the mux holds *)
(* in a session.                                                               *)
EXTENDS MuxSession, TLAPS, FiniteSetTheorems, SequenceTheorems

\* What has been counted and what is still granted never exceed the bound.
CountsBounded ==
    \A e \in Endpoint, s \in Stream :
        /\ expectedSeq[e][s] + recvCredit[e][s] <= MaxFrames
        /\ nextSendSeq[e][s] + sendCredit[e][s] <= MaxFrames

OpenFinite == \A e \in Endpoint : IsFiniteSet(open[e])

MuxInv == MuxTypeOK /\ IndexesAgree /\ CapsHold /\ CountsBounded /\ OpenFinite
-----------------------------------------------------------------------------
\* The parts of IndexesAgree and CapsHold, one endpoint at a time.
OpenIndex(e) == open[e] = {s \in Stream : state[e][s] = "open"}
SendIndex(e) ==
    /\ sendable[e] = {s \in Stream : sendCredit[e][s] > 0}
    /\ \A s \in Stream : sendCredit[e][s] > 0 => state[e][s] = "open"
ClosedIndex(e) ==
    /\ \A s \in Stream : state[e][s] = "closed" <=> \E k \in DOMAIN closedOrder[e] : closedOrder[e][k] = s
    /\ \A j, k \in DOMAIN closedOrder[e] : closedOrder[e][j] = closedOrder[e][k] => j = k
Caps(e) == Cardinality(open[e]) <= MaxOpen /\ Len(closedOrder[e]) <= MaxClosed

\* What remember_closed makes of the history q.
Remembered(q, s) == IF Len(q) >= MaxClosed THEN Append(Tail(q), s) ELSE Append(q, s)

\* remember_closed on a history without duplicates: the new one holds s, and of
\* the old ones all but the head if it was full.
LEMMA Remember ==
    ASSUME NEW q \in Seq(Stream), NEW s \in Stream,
           Len(q) <= MaxClosed,
           \A k \in DOMAIN q : q[k] # s,
           \A j, k \in DOMAIN q : q[j] = q[k] => j = k
    PROVE  /\ Remembered(q, s) \in Seq(Stream)
           /\ Len(Remembered(q, s)) <= MaxClosed
           /\ \A j, k \in DOMAIN Remembered(q, s) : Remembered(q, s)[j] = Remembered(q, s)[k] => j = k
           /\ Len(q) >= MaxClosed => q # <<>> /\ 1 \in DOMAIN q /\ Head(q) = q[1]
           /\ \A t \in Stream :
                (\E k \in DOMAIN Remembered(q, s) : Remembered(q, s)[k] = t) <=>
                    \/ t = s
                    \/ (\E k \in DOMAIN q : q[k] = t) /\ ~(Len(q) >= MaxClosed /\ t = Head(q))
<1> DEFINE r == Remembered(q, s)
           max == MaxClosed
<1>0. max \in Nat \ {0} /\ Len(q) <= max /\ r = IF Len(q) >= max THEN Append(Tail(q), s) ELSE Append(q, s)
  BY MuxAssumption, Zenon DEF Remembered
<1> SUFFICES /\ r \in Seq(Stream)
             /\ Len(r) <= max
             /\ \A j, k \in DOMAIN r : r[j] = r[k] => j = k
             /\ Len(q) >= max => q # <<>> /\ 1 \in DOMAIN q /\ Head(q) = q[1]
             /\ \A t \in Stream :
                  (\E k \in DOMAIN r : r[k] = t) <=>
                      \/ t = s
                      \/ (\E k \in DOMAIN q : q[k] = t) /\ ~(Len(q) >= max /\ t = Head(q))
  BY Zenon
<1> HIDE DEF r, max
<1>1. CASE Len(q) >= max
  <2>1. q # <<>> /\ Len(q) = max /\ 1 \in DOMAIN q /\ Head(q) = q[1] BY <1>0, <1>1
  <2>2. /\ Tail(q) \in Seq(Stream) /\ Len(Tail(q)) = max - 1
        /\ \A i \in 1..(max - 1) : Tail(q)[i] = q[i + 1]
    BY <1>0, <2>1, HeadTailProperties, Zenon
  <2>3. /\ r \in Seq(Stream) /\ Len(r) = max /\ r[max] = s
        /\ \A i \in 1..(max - 1) : r[i] = q[i + 1]
    BY <1>0, <1>1, <2>2, AppendProperties
  <2>4. DOMAIN r = 1..max /\ DOMAIN q = 1..max BY <1>0, <2>1, <2>3
  <2>5. \A j, k \in DOMAIN r : r[j] = r[k] => j = k BY <1>0, <2>3, <2>4
  <2>6. ASSUME NEW t \in Stream, NEW k \in DOMAIN r, r[k] = t, t # s
        PROVE  (\E i \in DOMAIN q : q[i] = t) /\ t # Head(q)
    BY <1>0, <2>1, <2>3, <2>4, <2>6
  <2>7. ASSUME NEW t \in Stream, NEW i \in DOMAIN q, q[i] = t, t # Head(q)
        PROVE  \E k \in DOMAIN r : r[k] = t
    <3>1. i - 1 \in 1..(max - 1) BY <1>0, <2>1, <2>4, <2>7
    <3>2. r[i - 1] = t BY <1>0, <2>3, <2>4, <2>7, <3>1
    <3> QED BY <1>0, <2>4, <3>1, <3>2
  <2>8. \E k \in DOMAIN r : r[k] = s BY <1>0, <2>3, <2>4
  <2> QED BY <1>0, <1>1, <2>1, <2>3, <2>5, <2>6, <2>7, <2>8, Zenon
<1>2. CASE Len(q) < max
  <2>1. PICK n \in Nat : n = Len(q) OBVIOUS
  <2>2. n < max /\ r = Append(q, s) BY <1>0, <1>2, <2>1
  <2>3. /\ r \in Seq(Stream) /\ Len(r) = n + 1 /\ r[n + 1] = s
        /\ \A i \in 1..n : r[i] = q[i]
    BY <1>0, <2>1, <2>2, AppendProperties
  <2>4. DOMAIN r = 1..(n + 1) /\ DOMAIN q = 1..n BY <1>0, <2>1, <2>3
  <2>5. \A k \in DOMAIN r : k = n + 1 \/ k \in 1..n BY <1>0, <2>4
  <2>6. \A j, k \in DOMAIN r : r[j] = r[k] => j = k BY <1>0, <2>3, <2>4, <2>5
  <2>7. ASSUME NEW t \in Stream, NEW k \in DOMAIN r, r[k] = t, t # s
        PROVE  \E i \in DOMAIN q : q[i] = t
    BY <1>0, <2>3, <2>4, <2>5, <2>7, Zenon
  <2>8. ASSUME NEW t \in Stream, NEW i \in DOMAIN q, q[i] = t
        PROVE  \E k \in DOMAIN r : r[k] = t
    <3>1. i \in DOMAIN r /\ r[i] = t BY <1>0, <2>3, <2>4, <2>8
    <3> QED BY <1>0, <3>1, Zenon
  <2>9. n + 1 \in DOMAIN r BY <1>0, <2>4
  <2>10. \E k \in DOMAIN r : r[k] = s BY <1>0, <2>3, <2>9, Zenon
  <2>11. Len(r) <= max /\ ~(Len(q) >= max) BY <1>0, <1>2, <2>1, <2>2, <2>3
  <2> QED BY <1>0, <2>3, <2>6, <2>7, <2>8, <2>10, <2>11, Zenon
<1> QED BY <1>0, <1>1, <1>2

\* The invariant, split by endpoint.
LEMMA Split ==
    /\ IndexesAgree <=> \A e \in Endpoint : OpenIndex(e) /\ SendIndex(e) /\ ClosedIndex(e)
    /\ CapsHold <=> \A e \in Endpoint : Caps(e)
BY Zenon DEF IndexesAgree, CapsHold, OpenIndex, SendIndex, ClosedIndex, Caps

\* The calls that move only numbers leave the maps and the caps alone.
LEMMA NumbersStep ==
    ASSUME MuxInv, NEW e \in Endpoint, NEW s \in Stream,
           UNCHANGED <<state, reason, open, closedOrder>>,
           \/ \E c \in 1..MaxFrames : GrantInbound(e, s, c) \/ ReceiveFlow(e, s, c)
           \/ AcceptData(e, s, expectedSeq[e][s])
           \/ ReserveSend(e, s)
    PROVE  MuxInv'
<1> USE MuxAssumption
<1>0. MuxTypeOK /\ CountsBounded /\ (\A x \in Endpoint : OpenIndex(x) /\ SendIndex(x) /\ ClosedIndex(x))
      /\ (\A x \in Endpoint : Caps(x)) /\ OpenFinite
  BY Split, Zenon DEF MuxInv
<1>1. (\A x \in Endpoint : OpenIndex(x))' /\ (\A x \in Endpoint : ClosedIndex(x))'
      /\ (\A x \in Endpoint : Caps(x))' /\ OpenFinite'
  BY <1>0 DEF OpenIndex, ClosedIndex, Caps, OpenFinite
<1>2. (state \in [Endpoint -> [Stream -> {"none", "open", "closed"}]])'
      /\ (reason \in [Endpoint -> [Stream -> Reason \union {"none"}]])'
      /\ (open \in [Endpoint -> SUBSET Stream])' /\ (closedOrder \in [Endpoint -> Seq(Stream)])'
  BY <1>0, Zenon DEF MuxTypeOK
<1>a. /\ expectedSeq \in Counters /\ recvCredit \in Counters
      /\ nextSendSeq \in Counters /\ sendCredit \in Counters /\ sendable \in [Endpoint -> SUBSET Stream]
  BY <1>0, Zenon DEF MuxTypeOK
<1>b. \A x \in Endpoint, t \in Stream :
        /\ expectedSeq[x][t] \in 0..MaxFrames /\ recvCredit[x][t] \in 0..MaxFrames
        /\ nextSendSeq[x][t] \in 0..MaxFrames /\ sendCredit[x][t] \in 0..MaxFrames
  BY <1>a DEF Counters
<1>3. CASE \E c \in 1..MaxFrames : GrantInbound(e, s, c)
  <2> PICK c \in 1..MaxFrames : GrantInbound(e, s, c) BY <1>3, Zenon
  <2>4a. recvCredit[e][s] + c \in 0..MaxFrames BY <1>0, <1>b DEF GrantInbound, CountsBounded
  <2>4. /\ recvCredit' \in Counters /\ recvCredit'[e][s] = recvCredit[e][s] + c
        /\ \A x \in Endpoint, t \in Stream : (x # e \/ t # s) => recvCredit'[x][t] = recvCredit[x][t]
    BY <1>a, <2>4a, Zenon DEF Counters, GrantInbound
  <2>1. MuxTypeOK' BY <1>2, <1>a, <2>4, SMTT(20) DEF MuxTypeOK, GrantInbound
  <2>2. CountsBounded' BY <1>0, <1>b, <2>4, SMTT(20) DEF GrantInbound, CountsBounded
  <2>3. (\A x \in Endpoint : SendIndex(x))' BY <1>0, Zenon DEF GrantInbound, SendIndex
  <2> QED BY <1>1, <2>1, <2>2, <2>3 DEF MuxInv, IndexesAgree, CapsHold, OpenIndex, SendIndex, ClosedIndex, Caps
<1>4. CASE \E c \in 1..MaxFrames : ReceiveFlow(e, s, c)
  <2> PICK c \in 1..MaxFrames : ReceiveFlow(e, s, c) BY <1>4, Zenon
  <2>4a. sendCredit[e][s] + c \in 0..MaxFrames BY <1>0, <1>b DEF ReceiveFlow, CountsBounded
  <2>4. /\ sendCredit' \in Counters /\ sendCredit'[e][s] = sendCredit[e][s] + c
        /\ \A x \in Endpoint, t \in Stream : (x # e \/ t # s) => sendCredit'[x][t] = sendCredit[x][t]
    BY <1>a, <2>4a, Zenon DEF Counters, ReceiveFlow
  <2>5. sendable' \in [Endpoint -> SUBSET Stream]
        /\ \A x \in Endpoint, t \in Stream : t \in sendable'[x] <=> sendCredit'[x][t] > 0
    <3>1. \A x \in Endpoint, t \in Stream : t \in sendable[x] <=> sendCredit[x][t] > 0 BY <1>0, Zenon DEF SendIndex
    <3>2. /\ sendable'[e] = IF sendCredit[e][s] = 0 THEN sendable[e] \union {s} ELSE sendable[e]
          /\ \A x \in Endpoint \ {e} : sendable'[x] = sendable[x]
      BY <1>a, Zenon DEF ReceiveFlow
    <3>3. sendable' \in [Endpoint -> SUBSET Stream] BY <1>a, Zenon DEF ReceiveFlow
    <3> QED BY <1>a, <1>b, <2>4, <3>1, <3>2, <3>3 DEF ReceiveFlow
  <2>1. MuxTypeOK' BY <1>2, <1>a, <2>4, <2>5, SMTT(20) DEF MuxTypeOK, ReceiveFlow
  <2>2. CountsBounded' BY <1>0, <1>b, <2>4, SMTT(20) DEF ReceiveFlow, CountsBounded
  <2>6. \A x \in Endpoint, t \in Stream : sendCredit'[x][t] > 0 => state'[x][t] = "open"
    BY <1>0, <1>b, <2>4 DEF SendIndex, ReceiveFlow
  <2>3. (\A x \in Endpoint : SendIndex(x))' BY <2>5, <2>6, SMTT(20) DEF SendIndex
  <2> QED BY <1>1, <2>1, <2>2, <2>3 DEF MuxInv, IndexesAgree, CapsHold, OpenIndex, SendIndex, ClosedIndex, Caps
<1>5. CASE AcceptData(e, s, expectedSeq[e][s])
  <2>4a. recvCredit[e][s] - 1 \in 0..MaxFrames BY <1>b, <1>5 DEF AcceptData, CountsBounded
  <2>4. /\ recvCredit' \in Counters /\ recvCredit'[e][s] = recvCredit[e][s] - 1
        /\ \A x \in Endpoint, t \in Stream : (x # e \/ t # s) => recvCredit'[x][t] = recvCredit[x][t]
    BY <1>a, <2>4a, <1>5, Zenon DEF Counters, AcceptData
  <2>5a. expectedSeq[e][s] + 1 \in 0..MaxFrames BY <1>0, <1>b, <1>5 DEF AcceptData, CountsBounded
  <2>5. /\ expectedSeq' \in Counters /\ expectedSeq'[e][s] = expectedSeq[e][s] + 1
        /\ \A x \in Endpoint, t \in Stream : (x # e \/ t # s) => expectedSeq'[x][t] = expectedSeq[x][t]
    BY <1>a, <2>5a, <1>5, Zenon DEF Counters, AcceptData
  <2>1. MuxTypeOK' BY <1>2, <1>5, <1>a, <2>4, <2>5, SMTT(20) DEF MuxTypeOK, AcceptData
  <2>2. CountsBounded' BY <1>0, <1>5, <1>b, <2>4, <2>5, SMTT(20) DEF AcceptData, CountsBounded
  <2>3. (\A x \in Endpoint : SendIndex(x))' BY <1>0, <1>5, Zenon DEF AcceptData, SendIndex
  <2> QED BY <1>1, <2>1, <2>2, <2>3 DEF MuxInv, IndexesAgree, CapsHold, OpenIndex, SendIndex, ClosedIndex, Caps
<1>6. CASE ReserveSend(e, s)
  <2>4a. sendCredit[e][s] - 1 \in 0..MaxFrames BY <1>b, <1>6 DEF ReserveSend, CountsBounded
  <2>4. /\ sendCredit' \in Counters /\ sendCredit'[e][s] = sendCredit[e][s] - 1
        /\ \A x \in Endpoint, t \in Stream : (x # e \/ t # s) => sendCredit'[x][t] = sendCredit[x][t]
    BY <1>a, <2>4a, <1>6, Zenon DEF Counters, ReserveSend
  <2>7a. nextSendSeq[e][s] + 1 \in 0..MaxFrames BY <1>0, <1>b, <1>6 DEF ReserveSend, CountsBounded
  <2>7. /\ nextSendSeq' \in Counters /\ nextSendSeq'[e][s] = nextSendSeq[e][s] + 1
        /\ \A x \in Endpoint, t \in Stream : (x # e \/ t # s) => nextSendSeq'[x][t] = nextSendSeq[x][t]
    BY <1>a, <2>7a, <1>6, Zenon DEF Counters, ReserveSend
  <2>5. sendable' \in [Endpoint -> SUBSET Stream]
        /\ \A x \in Endpoint, t \in Stream : t \in sendable'[x] <=> sendCredit'[x][t] > 0
    <3>1. \A x \in Endpoint, t \in Stream : t \in sendable[x] <=> sendCredit[x][t] > 0 BY <1>0, Zenon DEF SendIndex
    <3>2. /\ sendable'[e] = IF sendCredit[e][s] = 1 THEN sendable[e] \ {s} ELSE sendable[e]
          /\ \A x \in Endpoint \ {e} : sendable'[x] = sendable[x]
      BY <1>a, <1>6, Zenon DEF ReserveSend
    <3>3. sendable' \in [Endpoint -> SUBSET Stream] BY <1>a, <1>6, Zenon DEF ReserveSend
    <3> QED BY <1>a, <1>b, <1>6, <2>4, <3>1, <3>2, <3>3 DEF ReserveSend
  <2>1. MuxTypeOK' BY <1>2, <1>6, <1>a, <2>4, <2>5, <2>7, SMTT(20) DEF MuxTypeOK, ReserveSend
  <2>2. CountsBounded' BY <1>0, <1>6, <1>b, <2>4, <2>7, SMTT(20) DEF ReserveSend, CountsBounded
  <2>6. \A x \in Endpoint, t \in Stream : sendCredit'[x][t] > 0 => state'[x][t] = "open"
    BY <1>0, <1>b, <1>6, <2>4 DEF SendIndex, ReserveSend
  <2>3. (\A x \in Endpoint : SendIndex(x))' BY <2>5, <2>6, SMTT(20) DEF SendIndex
  <2> QED BY <1>1, <2>1, <2>2, <2>3 DEF MuxInv, IndexesAgree, CapsHold, OpenIndex, SendIndex, ClosedIndex, Caps
<1> QED BY <1>3, <1>4, <1>5, <1>6, Zenon

\* open_with_capabilities adds one stream below the cap.
LEMMA OpenStep ==
    ASSUME MuxInv, NEW e \in Endpoint, NEW s \in Stream, Open(e, s)
    PROVE  MuxInv'
<1> USE MuxAssumption
<1>0. MuxTypeOK /\ CountsBounded /\ (\A x \in Endpoint : OpenIndex(x) /\ SendIndex(x) /\ ClosedIndex(x))
      /\ (\A x \in Endpoint : Caps(x)) /\ OpenFinite
  BY Split, Zenon DEF MuxInv
<1>1. MuxTypeOK' BY <1>0, Zenon DEF MuxTypeOK, Open, numbers
<1>2. CountsBounded' BY <1>0, Zenon DEF CountsBounded, Open, numbers
<1>3. (\A x \in Endpoint : OpenIndex(x))' BY <1>0 DEF MuxTypeOK, OpenIndex, Open
<1>4. (\A x \in Endpoint : SendIndex(x))' BY <1>0, Zenon DEF MuxTypeOK, SendIndex, Open, numbers
<1>5. (\A x \in Endpoint : ClosedIndex(x))' BY <1>0 DEF MuxTypeOK, ClosedIndex, Open
<1>6. \A x \in Endpoint : IsFiniteSet(open'[x]) /\ Cardinality(open'[x]) <= MaxOpen
  <2>1. IsFiniteSet(open[e] \union {s}) /\ Cardinality(open[e] \union {s}) <= Cardinality(open[e]) + 1
    <3>1. IsFiniteSet(open[e]) BY <1>0, Zenon DEF OpenFinite
    <3>2. Cardinality(open[e]) \in Nat BY <3>1, FS_CardinalityType, Zenon
    <3>3. /\ IsFiniteSet(open[e] \union {s})
          /\ Cardinality(open[e] \union {s}) = IF s \in open[e] THEN Cardinality(open[e]) ELSE Cardinality(open[e]) + 1
      BY <3>1, FS_AddElement, Zenon
    <3> QED BY <3>2, <3>3
  <2>2. open'[e] = open[e] \union {s} /\ \A x \in Endpoint \ {e} : open'[x] = open[x]
    BY <1>0, Zenon DEF Open, MuxTypeOK
  <2>3. Cardinality(open[e]) < MaxOpen /\ Cardinality(open[e]) \in Nat
    BY <1>0, FS_CardinalityType, Zenon DEF Open, HasRoom, OpenFinite
  <2>4. Cardinality(open[e] \union {s}) <= MaxOpen BY <2>1, <2>3, FS_CardinalityType
  <2>5. \A x \in Endpoint : IsFiniteSet(open[x]) /\ Cardinality(open[x]) <= MaxOpen
    BY <1>0, Zenon DEF OpenFinite, Caps
  <2>6. TAKE x \in Endpoint
  <2>7. CASE x = e BY <2>1, <2>2, <2>4, <2>7, Zenon
  <2>8. CASE x # e BY <2>2, <2>5, <2>8, Zenon
  <2> QED BY <2>7, <2>8, Zenon
<1>7. OpenFinite' /\ (\A x \in Endpoint : Caps(x))' BY <1>0, <1>6, Zenon DEF OpenFinite, Caps, Open
<1> QED BY <1>1, <1>2, <1>3, <1>4, <1>5, <1>7 DEF MuxInv, IndexesAgree, CapsHold, OpenIndex, SendIndex, ClosedIndex, Caps

\* close and cancel: the closed history takes the stream and loses its head.
LEMMA EndStep ==
    ASSUME MuxInv, NEW e \in Endpoint, NEW s \in Stream, NEW r \in Reason, EndStream(e, s, r)
    PROVE  MuxInv'
<1> USE MuxAssumption
<1>0. MuxTypeOK /\ CountsBounded /\ (\A x \in Endpoint : OpenIndex(x) /\ SendIndex(x) /\ ClosedIndex(x))
      /\ (\A x \in Endpoint : Caps(x)) /\ OpenFinite
  BY Split, Zenon DEF MuxInv
<1> DEFINE q == closedOrder[e]
           h == Remembered(q, s)
<1>1. q \in Seq(Stream) /\ Len(q) <= MaxClosed /\ (\A k \in DOMAIN q : q[k] # s)
      /\ \A j, k \in DOMAIN q : q[j] = q[k] => j = k
  BY <1>0, Zenon DEF MuxTypeOK, Caps, ClosedIndex, EndStream
<1>2. /\ h \in Seq(Stream) /\ Len(h) <= MaxClosed
      /\ \A j, k \in DOMAIN h : h[j] = h[k] => j = k
      /\ Len(q) >= MaxClosed => q # <<>> /\ 1 \in DOMAIN q /\ Head(q) = q[1]
      /\ \A t \in Stream : (\E k \in DOMAIN h : h[k] = t) <=>
            \/ t = s
            \/ (\E k \in DOMAIN q : q[k] = t) /\ ~(Len(q) >= MaxClosed /\ t = Head(q))
  <2> HIDE DEF q
  <2> QED BY <1>1, Remember, Zenon
<1>3. \A t \in Stream : Pruned(e, t) => state[e][t] = "closed"
  BY <1>0, <1>2 DEF Pruned, ClosedIndex
<1>4. /\ closedOrder'[e] = h
      /\ \A x \in Endpoint \ {e} : closedOrder'[x] = closedOrder[x] /\ state'[x] = state[x]
      /\ \A t \in Stream : state'[e][t] = IF t = s THEN "closed" ELSE IF Pruned(e, t) THEN "none" ELSE state[e][t]
  BY <1>0, Zenon DEF MuxTypeOK, EndStream, Closing, Remembered
<1>a. /\ 0 \in 0..MaxFrames
      /\ expectedSeq \in Counters /\ recvCredit \in Counters
      /\ nextSendSeq \in Counters /\ sendCredit \in Counters
  BY <1>0 DEF MuxTypeOK
<1>c1. /\ expectedSeq' \in Counters /\ expectedSeq'[e][s] = 0
       /\ \A x \in Endpoint, t \in Stream : (x # e \/ t # s) => expectedSeq'[x][t] = expectedSeq[x][t]
  BY <1>a, Zenon DEF Counters, EndStream
<1>c2. /\ recvCredit' \in Counters /\ recvCredit'[e][s] = 0
       /\ \A x \in Endpoint, t \in Stream : (x # e \/ t # s) => recvCredit'[x][t] = recvCredit[x][t]
  BY <1>a, Zenon DEF Counters, EndStream
<1>c3. /\ nextSendSeq' \in Counters /\ nextSendSeq'[e][s] = 0
       /\ \A x \in Endpoint, t \in Stream : (x # e \/ t # s) => nextSendSeq'[x][t] = nextSendSeq[x][t]
  BY <1>a, Zenon DEF Counters, EndStream
<1>c4. /\ sendCredit' \in Counters /\ sendCredit'[e][s] = 0
       /\ \A x \in Endpoint, t \in Stream : (x # e \/ t # s) => sendCredit'[x][t] = sendCredit[x][t]
  BY <1>a, Zenon DEF Counters, EndStream
<1>5. MuxTypeOK'
  <2>1. (closedOrder \in [Endpoint -> Seq(Stream)])'
    <3> HIDE DEF h
    <3>1. closedOrder' = [closedOrder EXCEPT ![e] = h] BY <1>0, Zenon DEF EndStream, MuxTypeOK, h, Remembered
    <3> QED BY <1>0, <1>2, <3>1, Zenon DEF MuxTypeOK
  <2>2. (state \in [Endpoint -> [Stream -> {"none", "open", "closed"}]])'
        /\ (reason \in [Endpoint -> [Stream -> Reason \union {"none"}]])'
    BY <1>0, Zenon DEF MuxTypeOK, EndStream, Closing
  <2>3. (expectedSeq \in Counters)' /\ (recvCredit \in Counters)'
        /\ (nextSendSeq \in Counters)' /\ (sendCredit \in Counters)'
    BY <1>c1, <1>c2, <1>c3, <1>c4, Zenon
  <2>4. (open \in [Endpoint -> SUBSET Stream])' /\ (sendable \in [Endpoint -> SUBSET Stream])'
    BY <1>0, Zenon DEF MuxTypeOK, EndStream
  <2> QED BY <2>1, <2>2, <2>3, <2>4, Zenon DEF MuxTypeOK
<1>6. CountsBounded' BY <1>0, <1>a, <1>c1, <1>c2, <1>c3, <1>c4, SMTT(20) DEF CountsBounded
<1>7. (\A x \in Endpoint : OpenIndex(x))'
  <2>1. open'[e] = open[e] \ {s} /\ \A x \in Endpoint \ {e} : open'[x] = open[x]
    BY <1>0, Zenon DEF EndStream, MuxTypeOK
  <2>2. \A t \in Stream : state'[e][t] = "open" <=> t # s /\ state[e][t] = "open"
    BY <1>3, <1>4, Zenon
  <2> QED BY <1>0, <1>4, <2>1, <2>2 DEF OpenIndex
<1>8. (\A x \in Endpoint : SendIndex(x))'
  <2>1. sendable'[e] = sendable[e] \ {s} /\ \A x \in Endpoint \ {e} : sendable'[x] = sendable[x]
    BY <1>0, Zenon DEF EndStream, MuxTypeOK
  <2>2. \A x \in Endpoint, t \in Stream : t \in sendable'[x] <=> sendCredit'[x][t] > 0
    BY <1>0, <1>c4, <2>1 DEF SendIndex
  <2>3. \A x \in Endpoint, t \in Stream : sendCredit'[x][t] > 0 => state'[x][t] = "open"
    BY <1>0, <1>3, <1>4, <1>c4 DEF SendIndex
  <2>4. \A x \in Endpoint : sendable'[x] \subseteq Stream BY <1>0, <2>1, Zenon DEF MuxTypeOK
  <2> QED BY <2>2, <2>3, <2>4, Zenon DEF SendIndex
<1>9. (\A x \in Endpoint : ClosedIndex(x))'
  <2>1. \A x \in Endpoint \ {e} : ClosedIndex(x)' BY <1>0, <1>4 DEF ClosedIndex
  <2>2. ASSUME NEW t \in Stream
        PROVE  state'[e][t] = "closed" <=> \E k \in DOMAIN h : h[k] = t
    <3> HIDE DEF h
    <3> QED BY SMTT(20), <1>0, <1>2, <1>4 DEF ClosedIndex, Pruned
  <2>3. ClosedIndex(e)'
    <3> HIDE DEF h
    <3> QED BY <1>2, <1>4, <2>2, Zenon DEF ClosedIndex
  <2> QED BY <2>1, <2>3, Zenon
<1>10. OpenFinite' /\ (\A x \in Endpoint : Caps(x))'
  <2>1. open'[e] = open[e] \ {s} /\ \A x \in Endpoint \ {e} : open'[x] = open[x]
    BY <1>0, Zenon DEF EndStream, MuxTypeOK
  <2>2. IsFiniteSet(open[e]) /\ open[e] \ {s} \in SUBSET open[e] BY <1>0, Zenon DEF OpenFinite
  <2>3. IsFiniteSet(open'[e]) /\ Cardinality(open'[e]) <= Cardinality(open[e])
    BY <2>1, <2>2, FS_Subset, Zenon
  <2>4. Cardinality(open'[e]) <= MaxOpen BY <1>0, <2>2, <2>3, FS_CardinalityType DEF Caps
  <2>5. Len(closedOrder'[e]) <= MaxClosed BY <1>2, <1>4, Zenon
  <2> QED BY <1>0, <1>4, <2>1, <2>3, <2>4, <2>5, Zenon DEF OpenFinite, Caps
<1> QED BY <1>5, <1>6, <1>7, <1>8, <1>9, <1>10
        DEF MuxInv, IndexesAgree, CapsHold, OpenIndex, SendIndex, ClosedIndex, Caps

\* Every call on the mux keeps the invariant.
LEMMA MuxStep == MuxInv /\ [MuxNext]_muxVars => MuxInv'
<1> SUFFICES ASSUME MuxInv, [MuxNext]_muxVars PROVE MuxInv'
  BY Zenon
<1>1. CASE MuxNext
  <2> PICK e \in Endpoint, s \in Stream :
        \/ Open(e, s) \/ ReserveSend(e, s) \/ AcceptData(e, s, expectedSeq[e][s])
        \/ \E c \in 1..MaxFrames : GrantInbound(e, s, c) \/ ReceiveFlow(e, s, c)
        \/ \E r \in Reason : EndStream(e, s, r)
    BY <1>1, Zenon DEF MuxNext
  <2>1. CASE Open(e, s) BY <2>1, OpenStep, Zenon
  <2>2. CASE ReserveSend(e, s) BY <2>2, NumbersStep, Zenon DEF ReserveSend
  <2>3. CASE AcceptData(e, s, expectedSeq[e][s]) BY <2>3, NumbersStep, Zenon DEF AcceptData
  <2>4. CASE \E c \in 1..MaxFrames : GrantInbound(e, s, c) \/ ReceiveFlow(e, s, c)
    <3>1. UNCHANGED <<state, reason, open, closedOrder>> BY <2>4, Zenon DEF GrantInbound, ReceiveFlow
    <3> QED BY <2>4, <3>1, NumbersStep, Zenon
  <2>5. CASE \E r \in Reason : EndStream(e, s, r) BY <2>5, EndStep, Zenon
  <2> QED BY <2>1, <2>2, <2>3, <2>4, <2>5, Zenon
<1>2. CASE UNCHANGED muxVars
  <2> USE <1>2 DEF muxVars, numbers
  <2>1. MuxTypeOK' BY Zenon DEF MuxInv, MuxTypeOK
  <2>2. IndexesAgree' BY DEF MuxInv, IndexesAgree
  <2>3. CapsHold' BY Zenon DEF MuxInv, CapsHold
  <2>4. CountsBounded' /\ OpenFinite' BY Zenon DEF MuxInv, CountsBounded, OpenFinite
  <2> QED BY <2>1, <2>2, <2>3, <2>4, Zenon DEF MuxInv
<1> QED BY <1>1, <1>2, Zenon

LEMMA MuxStart == MuxInit => MuxInv
<1> SUFFICES ASSUME MuxInit PROVE MuxInv
  BY Zenon
<1> USE MuxAssumption DEF MuxInit, Each
<1>1. MuxTypeOK BY DEF MuxTypeOK, Counters
<1>2. IndexesAgree BY DEF IndexesAgree
<1>3. CapsHold BY FS_EmptySet DEF CapsHold
<1>4. CountsBounded BY DEF CountsBounded
<1>5. OpenFinite BY FS_EmptySet, Zenon DEF OpenFinite
<1> QED BY <1>1, <1>2, <1>3, <1>4, <1>5, Zenon DEF MuxInv

\* A mux driven by any caller and any peer: its types, its indexes and its caps.
THEOREM MuxInvariant == MuxSafety => [](MuxTypeOK /\ IndexesAgree /\ CapsHold)
<1>1. MuxInv => MuxTypeOK /\ IndexesAgree /\ CapsHold BY Zenon DEF MuxInv
<1> QED BY <1>1, MuxStart, MuxStep, PTL DEF MuxSafety
-----------------------------------------------------------------------------
\* The sessions: the frames in flight are well formed, and so every step of a
\* session is a call on its mux, or leaves it alone.
ChanOK == chan \in [Endpoint -> Seq(Frame)]

LEMMA PeerIsEndpoint == \A e \in Endpoint : Peer(e) \in Endpoint
<1> SUFFICES ASSUME NEW e \in Endpoint PROVE Peer(e) \in Endpoint
  BY Zenon
<1>1. Endpoint # {e}
  <2>1. Cardinality({e}) = 1 BY FS_Singleton, Zenon
  <2> QED BY <2>1, SessionAssumption
<1> QED BY <1>1, Zenon DEF Peer

LEMMA Sent ==
    ASSUME ChanOK, NEW e \in Endpoint, NEW f \in Frame, Send(e, f)
    PROVE  ChanOK'
<1>1. Peer(e) \in Endpoint BY PeerIsEndpoint, Zenon
<1>2. Append(chan[Peer(e)], f) \in Seq(Frame)
  <2>1. chan[Peer(e)] \in Seq(Frame) BY <1>1, Zenon DEF ChanOK
  <2> QED BY <2>1, AppendProperties, Zenon
<1> QED BY <1>1, <1>2, Zenon DEF ChanOK, Send

LEMMA Popped ==
    ASSUME ChanOK, NEW e \in Endpoint, chan[e] # <<>>
    PROVE  /\ Head(chan[e]) \in Frame
           /\ Tail(chan[e]) \in Seq(Frame)
           /\ Taken(e) => ChanOK'
<1>1. chan[e] \in Seq(Frame) BY Zenon DEF ChanOK
<1>2. Head(chan[e]) \in Frame /\ Tail(chan[e]) \in Seq(Frame) BY <1>1, HeadTailProperties, Zenon
<1> QED BY <1>2, Zenon DEF ChanOK, Taken

\* What a caller does.
LEMMA CallerStep ==
    ASSUME MuxTypeOK, ChanOK, NEW e \in Endpoint, Caller(e)
    PROVE  ChanOK' /\ [MuxNext]_muxVars
<1>1. ASSUME NEW o \in Operation,
             \/ SendOperationRequest(e, o) \/ AcceptOperation(e, o)
             \/ SendOperationResponse(e, o) \/ SendTypedError(e, o)
      PROVE  ChanOK' /\ [MuxNext]_muxVars
  <2>1. UNCHANGED muxVars
    BY <1>1, Zenon DEF SendOperationRequest, AcceptOperation, SendOperationResponse, SendTypedError
  <2>2. /\ [type |-> "request", op |-> o] \in Frame /\ [type |-> "response", op |-> o] \in Frame
        /\ [type |-> "error", op |-> o] \in Frame
    BY Zenon DEF Frame
  <2>3. CASE AcceptOperation(e, o) BY <2>1, <2>3, Zenon DEF AcceptOperation, ChanOK
  <2>4. CASE ~AcceptOperation(e, o)
    BY <1>1, <2>1, <2>2, <2>4, Sent, Zenon DEF SendOperationRequest, SendOperationResponse, SendTypedError
  <2> QED BY <2>3, <2>4, Zenon
<1>2. ASSUME NEW s \in Stream, NEW o \in Operation, OpenStream(e, s, o)
      PROVE  ChanOK' /\ [MuxNext]_muxVars
  <2>1. [type |-> "open", stream |-> s, op |-> o] \in Frame BY Zenon DEF Frame
  <2> QED BY <1>2, <2>1, Sent, Zenon DEF OpenStream, MuxNext
<1>3. ASSUME NEW s \in Stream, NEW c \in 1..MaxFrames, SendGrant(e, s, c)
      PROVE  ChanOK' /\ [MuxNext]_muxVars
  <2>1. [type |-> "flow", stream |-> s, credits |-> c] \in Frame BY Zenon DEF Frame
  <2> QED BY <1>3, <2>1, Sent, Zenon DEF SendGrant, MuxNext
<1>4. ASSUME NEW s \in Stream, NEW r \in Reason, CloseStream(e, s, r)
      PROVE  ChanOK' /\ [MuxNext]_muxVars
  <2>1. [type |-> "close", stream |-> s, reason |-> r] \in Frame BY Zenon DEF Frame
  <2> QED BY <1>4, <2>1, Sent, Zenon DEF CloseStream, Close, MuxNext
<1>5. ASSUME NEW s \in Stream, CancelStream(e, s)
      PROVE  ChanOK' /\ [MuxNext]_muxVars
  <2>1. "Cancelled" \in Reason BY Zenon DEF Reason
  <2>2. [type |-> "close", stream |-> s, reason |-> "Cancelled"] \in Frame BY <2>1, Zenon DEF Frame
  <2> QED BY <1>5, <2>1, <2>2, Sent, Zenon DEF CancelStream, FirstCancel, MuxNext
<1>6. ASSUME NEW s \in Stream, ResumeStream(e, s)
      PROVE  ChanOK' /\ [MuxNext]_muxVars
  <2>1. [type |-> "resume", stream |-> s] \in Frame BY Zenon DEF Frame
  <2> QED BY <1>6, <2>1, Sent, Zenon DEF ResumeStream
<1>7. ASSUME NEW s \in Stream, SendData(e, s)
      PROVE  ChanOK' /\ [MuxNext]_muxVars
  <2>1. nextSendSeq[e][s] \in 0..MaxFrames BY DEF MuxTypeOK, Counters
  <2>2. [type |-> "data", stream |-> s, seq |-> nextSendSeq[e][s]] \in Frame BY <2>1, Zenon DEF Frame
  <2> QED BY <1>7, <2>2, Sent, Zenon DEF SendData, MuxNext
<1> QED BY <1>1, <1>2, <1>3, <1>4, <1>5, <1>6, <1>7, Zenon DEF Caller

\* What recv does.
LEMMA ReceiveStep ==
    ASSUME ChanOK, NEW e \in Endpoint, Receive(e)
    PROVE  ChanOK' /\ [MuxNext]_muxVars
<1> DEFINE f == Head(chan[e])
<1>0. chan[e] # <<>> BY Zenon DEF Receive, Recv, RecvRefused
<1>1. f \in Frame /\ Tail(chan[e]) \in Seq(Frame) /\ (Taken(e) => ChanOK') BY <1>0, Popped, Zenon
<1>2. ASSUME Recv(e) PROVE ChanOK' /\ [MuxNext]_muxVars
  <2>1. Taken(e) BY <1>2, Zenon DEF Recv
  <2>2. /\ f.type \in {"open", "data", "flow", "close"} => f.stream \in Stream
        /\ f.type = "flow" => f.credits \in 1..MaxFrames
        /\ f.type = "close" => f.reason \in Reason
    <3> HIDE DEF f
    <3> QED BY <1>1, Zenon DEF Frame
  <2>3. \/ f.type = "open" /\ Open(e, f.stream)
        \/ f.type = "data" /\ AcceptData(e, f.stream, expectedSeq[e][f.stream])
        \/ f.type = "flow" /\ ReceiveFlow(e, f.stream, f.credits)
        \/ f.type = "close" /\ Close(e, f.stream, f.reason)
        \/ UNCHANGED muxVars
    BY <1>2, Zenon DEF Recv, AcceptData
  <2>4. [MuxNext]_muxVars
    <3> HIDE DEF f
    <3> QED BY <2>2, <2>3, Zenon DEF MuxNext, Close
  <2> QED BY <1>1, <2>1, <2>4, Zenon
<1>3. ASSUME RecvRefused(e) PROVE ChanOK' /\ [MuxNext]_muxVars
  <2>1. UNCHANGED muxVars BY <1>3, Zenon DEF RecvRefused
  <2>2. CASE f.type # "open"
    <3>1. Taken(e) BY <1>3, <2>2, Zenon DEF RecvRefused, Taken
    <3> QED BY <1>1, <2>1, <3>1, Zenon
  <2>3. CASE f.type = "open"
    <3> DEFINE a == [type |-> "audit", op |-> f.op]
    <3>1. f.op \in Operation
      <4> HIDE DEF f
      <4> QED BY <1>1, <2>3, Zenon DEF Frame
    <3>2. a \in Frame BY <3>1, Zenon DEF Frame
    <3>3. chan' = [chan EXCEPT ![e] = Tail(@), ![Peer(e)] = Append(@, a)] BY <1>3, <2>3, Zenon DEF RecvRefused
    <3>4. Peer(e) \in Endpoint /\ chan \in [Endpoint -> Seq(Frame)] BY PeerIsEndpoint, Zenon DEF ChanOK
    <3>5. \A q \in Seq(Frame) : Append(q, a) \in Seq(Frame) BY <3>2, AppendProperties, Zenon
    <3>6. ChanOK'
      <4> HIDE DEF a
      <4> QED BY <1>1, <3>3, <3>4, <3>5, Zenon DEF ChanOK
    <3> QED BY <2>1, <3>6, Zenon
  <2> QED BY <2>2, <2>3, Zenon
<1> QED BY <1>2, <1>3, Zenon DEF Receive

SessionInv == MuxInv /\ ChanOK

LEMMA SessionStep == SessionInv /\ [Next]_vars => SessionInv' /\ [MuxNext]_muxVars
<1> SUFFICES ASSUME SessionInv, [Next]_vars PROVE SessionInv' /\ [MuxNext]_muxVars
  BY Zenon
<1>1. MuxTypeOK /\ ChanOK BY Zenon DEF SessionInv, MuxInv
<1>2. CASE Next BY <1>1, <1>2, CallerStep, ReceiveStep, MuxStep, Zenon DEF Next, SessionInv
<1>3. CASE UNCHANGED vars
  <2>1. UNCHANGED muxVars /\ ChanOK' BY <1>1, <1>3, Zenon DEF vars, ChanOK
  <2> QED BY <2>1, MuxStep, Zenon DEF SessionInv
<1> QED BY <1>2, <1>3, Zenon

LEMMA SessionStart == Init => SessionInv /\ MuxInit
BY MuxStart DEF Init, SessionInv, ChanOK

\* Two sessions talking to each other use their muxes only through its calls.
THEOREM ImplementsMux == Safety => MuxSafety
BY SessionStart, SessionStep, PTL DEF Safety, MuxSafety

\* open_streams, sendable_streams and closed_order agree with the stream map,
\* whatever the two ends and the connection do.
THEOREM SessionIndexes == Safety => []IndexesAgree
BY ImplementsMux, MuxInvariant, PTL

\* Neither end's mux grows beyond max_open and max_closed.
THEOREM SessionCaps == Safety => []CapsHold
BY ImplementsMux, MuxInvariant, PTL
=============================================================================
