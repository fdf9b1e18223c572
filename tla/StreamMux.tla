------------------------------ MODULE StreamMux ------------------------------
(* The stream multiplexer of a realm peer session, d2b-realm-core's StreamMux: *)
(* one pure state machine per endpoint, driven by frames and by its caller.    *)
(* A call that fails changes nothing, so only the calls that succeed are       *)
(* steps here; what fails is what no step allows.                              *)
EXTENDS Naturals, Sequences, FiniteSets

CONSTANTS
    Endpoint,   \* the muxes
    Stream,     \* stream ids
    MaxOpen,    \* max_open, 256 in the code
    MaxClosed,  \* max_closed, 1024 in the code
    MaxFrames   \* bound: credit granted on one stream in one direction

ASSUME MuxAssumption == MaxOpen \in Nat \ {0} /\ MaxClosed \in Nat \ {0} /\ MaxFrames \in Nat

VARIABLES
    state,        \* state of the StreamEntry, "none" where there is none
    reason,       \* close_reason, "none" unless closed
    expectedSeq,  \* StreamEntry.expected_seq
    recvCredit,   \*     .recv_credit
    nextSendSeq,  \*     .next_send_seq
    sendCredit,   \*     .send_credit
    open,         \* open_streams
    sendable,     \* sendable_streams
    closedOrder   \* closed_order

numbers == <<expectedSeq, recvCredit, nextSendSeq, sendCredit>>
muxVars == <<state, reason, numbers, open, sendable, closedOrder>>

Reason == {"Cancelled", "Normal"}
Counters == [Endpoint -> [Stream -> 0..MaxFrames]]

\* The type invariant of the muxes.
MuxTypeOK ==
    /\ state \in [Endpoint -> [Stream -> {"none", "open", "closed"}]]
    /\ reason \in [Endpoint -> [Stream -> Reason \union {"none"}]]
    /\ expectedSeq \in Counters /\ recvCredit \in Counters
    /\ nextSendSeq \in Counters /\ sendCredit \in Counters
    /\ open \in [Endpoint -> SUBSET Stream]
    /\ sendable \in [Endpoint -> SUBSET Stream]
    /\ closedOrder \in [Endpoint -> Seq(Stream)]

Each(x) == [e \in Endpoint |-> [s \in Stream |-> x]]

MuxInit ==
    /\ state = Each("none") /\ reason = Each("none")
    /\ expectedSeq = Each(0) /\ recvCredit = Each(0)
    /\ nextSendSeq = Each(0) /\ sendCredit = Each(0)
    /\ open = [e \in Endpoint |-> {}] /\ sendable = [e \in Endpoint |-> {}]
    /\ closedOrder = [e \in Endpoint |-> <<>>]
-----------------------------------------------------------------------------
\* Mutant: the cap is compared with >, not >=.
RoomForOneMore(e) == Cardinality(open[e]) <= MaxOpen

HasRoom(e) == Cardinality(open[e]) < MaxOpen

\* open_with_capabilities: a new id, below the cap; no credit in either direction.
Open(e, s) ==
    /\ state[e][s] = "none"
    /\ HasRoom(e)
    /\ state' = [state EXCEPT ![e][s] = "open"]
    /\ open' = [open EXCEPT ![e] = @ \union {s}]
    /\ UNCHANGED <<reason, numbers, sendable, closedOrder>>

\* grant_inbound
GrantInbound(e, s, c) ==
    /\ c > 0
    /\ state[e][s] = "open"
    /\ expectedSeq[e][s] + recvCredit[e][s] + c <= MaxFrames
    /\ recvCredit' = [recvCredit EXCEPT ![e][s] = @ + c]
    /\ UNCHANGED <<state, reason, expectedSeq, nextSendSeq, sendCredit, open, sendable, closedOrder>>

\* accept_data: the next sequence number, within the credit.
AcceptData(e, s, q) ==
    /\ state[e][s] = "open"
    /\ q = expectedSeq[e][s]
    /\ recvCredit[e][s] > 0
    /\ recvCredit' = [recvCredit EXCEPT ![e][s] = @ - 1]
    /\ expectedSeq' = [expectedSeq EXCEPT ![e][s] = @ + 1]
    /\ UNCHANGED <<state, reason, nextSendSeq, sendCredit, open, sendable, closedOrder>>

\* receive_flow: the stream becomes sendable when it had no credit.
ReceiveFlow(e, s, c) ==
    /\ c > 0
    /\ state[e][s] = "open"
    /\ nextSendSeq[e][s] + sendCredit[e][s] + c <= MaxFrames
    /\ sendCredit' = [sendCredit EXCEPT ![e][s] = @ + c]
    /\ sendable' = IF sendCredit[e][s] = 0 THEN [sendable EXCEPT ![e] = @ \union {s}] ELSE sendable
    /\ UNCHANGED <<state, reason, expectedSeq, recvCredit, nextSendSeq, open, closedOrder>>

\* Mutant: the credit is not looked at.
ReserveSendUnchecked(e, s) ==
    /\ state[e][s] = "open"
    /\ sendCredit' = [sendCredit EXCEPT ![e][s] = @ - 1]
    /\ nextSendSeq' = [nextSendSeq EXCEPT ![e][s] = @ + 1]
    /\ UNCHANGED <<state, reason, expectedSeq, recvCredit, open, sendable, closedOrder>>

\* Mutant: the sequence number is taken and the credit is not spent.
ReserveSendUnspent(e, s) ==
    /\ state[e][s] = "open"
    /\ sendCredit[e][s] > 0 /\ nextSendSeq[e][s] < MaxFrames
    /\ nextSendSeq' = [nextSendSeq EXCEPT ![e][s] = @ + 1]
    /\ UNCHANGED <<state, reason, expectedSeq, recvCredit, sendCredit, open, sendable, closedOrder>>

\* Mutant: the stream stays sendable when its last credit is spent.
ReserveSendStaysSendable(e, s) ==
    /\ state[e][s] = "open"
    /\ sendCredit[e][s] > 0
    /\ sendCredit' = [sendCredit EXCEPT ![e][s] = @ - 1]
    /\ nextSendSeq' = [nextSendSeq EXCEPT ![e][s] = @ + 1]
    /\ UNCHANGED <<state, reason, expectedSeq, recvCredit, open, sendable, closedOrder>>

\* reserve_send spends one credit; without another the stream is not sendable.
ReserveSend(e, s) ==
    /\ state[e][s] = "open"
    /\ sendCredit[e][s] > 0
    /\ sendCredit' = [sendCredit EXCEPT ![e][s] = @ - 1]
    /\ nextSendSeq' = [nextSendSeq EXCEPT ![e][s] = @ + 1]
    /\ sendable' = IF sendCredit[e][s] = 1 THEN [sendable EXCEPT ![e] = @ \ {s}] ELSE sendable
    /\ UNCHANGED <<state, reason, expectedSeq, recvCredit, open, closedOrder>>

\* remember_closed drops the oldest record when the history is full.
Pruned(e, t) == Len(closedOrder[e]) >= MaxClosed /\ t = Head(closedOrder[e])

\* f with the value for s at e replaced, and the one of a pruned stream.
Closing(f, e, s, new, none) ==
    [f EXCEPT ![e] = [t \in Stream |-> IF t = s THEN new ELSE IF Pruned(e, t) THEN none ELSE f[e][t]]]

\* The transition of close and of cancel, remember_closed included.  The numbers
\* of a closed entry are not read again.
EndStream(e, s, r) ==
    /\ state[e][s] = "open"
    /\ state' = Closing(state, e, s, "closed", "none")
    /\ reason' = Closing(reason, e, s, r, "none")
    /\ expectedSeq' = [expectedSeq EXCEPT ![e][s] = 0]
    /\ recvCredit' = [recvCredit EXCEPT ![e][s] = 0]
    /\ nextSendSeq' = [nextSendSeq EXCEPT ![e][s] = 0]
    /\ sendCredit' = [sendCredit EXCEPT ![e][s] = 0]
    /\ open' = [open EXCEPT ![e] = @ \ {s}]
    /\ sendable' = [sendable EXCEPT ![e] = @ \ {s}]
    /\ closedOrder' = [closedOrder EXCEPT ![e] =
            IF Len(@) >= MaxClosed THEN Append(Tail(@), s) ELSE Append(@, s)]

\* close: repeating a cancel is accepted and does nothing.
Close(e, s, r) ==
    \/ EndStream(e, s, r)
    \/ state[e][s] = "closed" /\ reason[e][s] = "Cancelled" /\ r = "Cancelled" /\ UNCHANGED muxVars

\* cancel: TRUE when it is the first.
FirstCancel(e, s) == EndStream(e, s, "Cancelled")
-----------------------------------------------------------------------------
\* Any caller and any peer.
MuxNext ==
    \E e \in Endpoint, s \in Stream :
        \/ Open(e, s) \/ ReserveSend(e, s) \/ AcceptData(e, s, expectedSeq[e][s])
        \/ \E c \in 1..MaxFrames : GrantInbound(e, s, c) \/ ReceiveFlow(e, s, c)
        \/ \E r \in Reason : EndStream(e, s, r)

MuxSafety == MuxInit /\ [][MuxNext]_muxVars
-----------------------------------------------------------------------------
\* The indexes beside the stream map agree with it: open_streams holds the open
\* entries, sendable_streams those of them with credit, and closed_order every
\* closed entry once, so that each is pruned in its turn and none too early.
IndexesAgree ==
    \A e \in Endpoint :
        /\ open[e] = {s \in Stream : state[e][s] = "open"}
        /\ sendable[e] = {s \in Stream : sendCredit[e][s] > 0}
        /\ \A s \in Stream : sendCredit[e][s] > 0 => state[e][s] = "open"
        /\ \A s \in Stream : state[e][s] = "closed" <=> \E k \in DOMAIN closedOrder[e] : closedOrder[e][k] = s
        /\ \A j, k \in DOMAIN closedOrder[e] : closedOrder[e][j] = closedOrder[e][k] => j = k

\* A peer that opens and closes streams for ever cannot make the mux grow: the
\* open streams and the remembered ones keep to their caps.
CapsHold ==
    \A e \in Endpoint : Cardinality(open[e]) <= MaxOpen /\ Len(closedOrder[e]) <= MaxClosed
=============================================================================
