----------------------------- MODULE MCStreams -----------------------------
(* The two kinds of byte streams, side by side: a behaviour is one of a mux     *)
(* session or one of a log ring, and the other stays as it began.              *)
EXTENDS MuxSession, FileRing, TLC

CONSTANTS s1, s2, o1, o2, o3
VARIABLE part

\* The operations share one correlation id.
OneCorrelation == [o \in Operation |-> "correlation"]

\* A stream of either kind, or both, under one operation, or more operations than
\* a session keeps contexts for, and no stream.
StreamsOrContexts == {{s1, o1}, {s2, o1}, {s1, s2, o1}, {o1, o2, o3}}

\* The two ends are interchangeable, and so are the operations used alike.
Symmetry == Permutations(Endpoint) \union Permutations({o2, o3})

\* A bound: with two streams the credit of one frame on each in either direction.
OneFrameEach ==
    \A e \in Endpoint, s \in Stream : expectedSeq[e][s] + recvCredit[e][s] <= 1

StreamsInit ==
    /\ Init /\ RingInit
    /\ part \in {"session", "pair", "ring"}
    /\ part = "pair" <=> unused = {s1, s2, o1}
    /\ part = "ring" => unused = {o1, o2, o3}

StreamsNext ==
    /\ UNCHANGED part
    /\ \/ part # "ring" /\ Next /\ (part = "pair" => OneFrameEach') /\ UNCHANGED ringVars
       \/ part = "ring" /\ RingNext /\ UNCHANGED vars

StreamsSpec == StreamsInit /\ [][StreamsNext]_<<part, vars, ringVars>>
=============================================================================
