----------------------------- MODULE MuxSession -----------------------------
(* Two realm peers after the handshake: a MuxSession on either side, each with *)
(* its StreamMux and its table of accepted operations, and the connection      *)
(* between them, which keeps the order of the frames of one direction.  Every  *)
(* outbound frame is first applied to the sender's mux, every inbound one to   *)
(* the receiver's before its caller sees it; recv returns an error for a frame *)
(* the mux refuses, and the session goes on.                                   *)
EXTENDS StreamMux, FiniteSetsExt

CONSTANTS
    Operation,    \* operation ids
    Correlation,  \* the correlation id of each
    Control,      \* the streams of kind Control, bound to no operation
    Logs,         \* the streams of kind Logs
    Supply,       \* bound: the sets of ids a behaviour may draw on
    MaxOps,       \* MAX_OPERATION_CONTEXTS, 4096 in the code
    MaxInFlight   \* bound: frames of one direction the transport holds

ASSUME SessionAssumption ==
    /\ Cardinality(Endpoint) = 2
    /\ DOMAIN Correlation = Operation
    /\ Control \subseteq Stream /\ Logs \subseteq Stream \ Control
    /\ MaxOps \in Nat \ {0} /\ MaxInFlight \in Nat

ASSUME SupplyAssumption == Supply \subseteq SUBSET (Stream \union Operation)

VARIABLES
    chan,       \* frames on their way to an endpoint
    ops,        \* operations
    opOrder,    \* operation_order
    asked,      \* requests the caller has received and not answered
    unused      \* ids no caller has used yet: callers make fresh ones

opVars == <<ops, opOrder, asked>>
vars == <<muxVars, chan, opVars, unused>>

Peer(e) == CHOOSE p \in Endpoint : p # e

Frame ==
    [type : {"open"}, stream : Stream, op : Operation]
    \union [type : {"data"}, stream : Stream, seq : 0..MaxFrames]
    \union [type : {"flow"}, stream : Stream, credits : 1..MaxFrames]
    \union [type : {"close"}, stream : Stream, reason : Reason]
    \union [type : {"resume"}, stream : Stream]
    \union [type : {"request", "response", "error", "audit"}, op : Operation]

\* The type invariant of the two sessions; operation contexts keep to their cap.
SessionTypeOK ==
    /\ MuxTypeOK
    /\ DOMAIN chan = Endpoint /\ \A e \in Endpoint : \A k \in DOMAIN chan[e] : chan[e][k] \in Frame
    /\ ops \in [Endpoint -> SUBSET Operation] /\ asked \in [Endpoint -> SUBSET Operation]
    /\ opOrder \in [Endpoint -> Seq(Operation)] /\ \A e \in Endpoint : Len(opOrder[e]) <= MaxOps
    /\ unused \subseteq Stream \union Operation

Init ==
    /\ MuxInit
    /\ chan = [e \in Endpoint |-> <<>>]
    /\ ops = [e \in Endpoint |-> {}] /\ asked = [e \in Endpoint |-> {}]
    /\ opOrder = [e \in Endpoint |-> <<>>]
    /\ unused \in Supply

\* PeerSession::send
Send(e, f) ==
    /\ Len(chan[Peer(e)]) < MaxInFlight
    /\ chan' = [chan EXCEPT ![Peer(e)] = Append(@, f)]
-----------------------------------------------------------------------------
\* Operation contexts.

\* Mutant: the oldest context leaves the order and stays in the map.
RegisterKeepingOldest(e, o) ==
    /\ o \notin ops[e]
    /\ ops' = [ops EXCEPT ![e] = @ \union {o}]
    /\ opOrder' = [opOrder EXCEPT ![e] = Append(IF Len(@) >= MaxOps THEN Tail(@) ELSE @, o)]

\* register_operation: beyond the cap the oldest context is dropped.
RegisterOperation(e, o) ==
    /\ o \notin ops[e]
    /\ LET full == Len(opOrder[e]) >= MaxOps IN
        /\ ops' = [ops EXCEPT ![e] = (IF full THEN @ \ {Head(opOrder[e])} ELSE @) \union {o}]
        /\ opOrder' = [opOrder EXCEPT ![e] = Append(IF full THEN Tail(@) ELSE @, o)]

\* Mutant: the context stays.
UnregisterNothing(e, ended) == UNCHANGED <<ops, opOrder>>

\* unregister_operation and unregister_operations_by_correlation_id
Unregister(e, ended) ==
    /\ ops' = [ops EXCEPT ![e] = @ \ ended]
    /\ opOrder' = [opOrder EXCEPT ![e] = SelectSeq(@, LAMBDA o : o \notin ended)]

Correlated(o) == {p \in Operation : Correlation[p] = Correlation[o]}

\* send_operation_request registers, then sends.
SendOperationRequest(e, o) ==
    /\ o \in unused
    /\ RegisterOperation(e, o)
    /\ Send(e, [type |-> "request", op |-> o])
    /\ unused' = unused \ {o}
    /\ UNCHANGED <<muxVars, asked>>

\* The caller registers a request it accepts.
AcceptOperation(e, o) ==
    /\ o \in asked[e]
    /\ RegisterOperation(e, o)
    /\ UNCHANGED <<muxVars, chan, asked, unused>>

\* send_operation_response
SendOperationResponse(e, o) ==
    /\ o \in asked[e]
    /\ Unregister(e, {o})
    /\ Send(e, [type |-> "response", op |-> o])
    /\ asked' = [asked EXCEPT ![e] = @ \ {o}]
    /\ UNCHANGED <<muxVars, unused>>

\* send_typed_error ends every operation of the correlation id.
SendTypedError(e, o) ==
    /\ o \in asked[e]
    /\ Unregister(e, Correlated(o))
    /\ Send(e, [type |-> "error", op |-> o])
    /\ asked' = [asked EXCEPT ![e] = @ \ {o}]
    /\ UNCHANGED <<muxVars, unused>>
-----------------------------------------------------------------------------
\* Streams, outbound: the mux first, then the frame.

\* ensure_stream_admitted
Admitted(e, s, o) == s \in Control \/ o \in ops[e]

OpenStream(e, s, o) ==
    /\ s \in unused
    /\ Admitted(e, s, o)
    /\ Open(e, s)
    /\ Send(e, [type |-> "open", stream |-> s, op |-> o])
    /\ unused' = unused \ {s}
    /\ UNCHANGED opVars

SendGrant(e, s, c) ==
    /\ GrantInbound(e, s, c)
    /\ Send(e, [type |-> "flow", stream |-> s, credits |-> c])
    /\ UNCHANGED <<opVars, unused>>

SendData(e, s) ==
    /\ ReserveSend(e, s)
    /\ Send(e, [type |-> "data", stream |-> s, seq |-> nextSendSeq[e][s]])
    /\ UNCHANGED <<opVars, unused>>

CloseStream(e, s, r) ==
    /\ Close(e, s, r)
    /\ Send(e, [type |-> "close", stream |-> s, reason |-> r])
    /\ UNCHANGED <<opVars, unused>>

\* Mutant: the peer is not told.
CancelQuietly(e, s) ==
    /\ FirstCancel(e, s)
    /\ UNCHANGED <<chan, opVars, unused>>

\* cancel_stream tells the peer of the first cancel only; another one does nothing.
CancelStream(e, s) ==
    /\ FirstCancel(e, s)
    /\ Send(e, [type |-> "close", stream |-> s, reason |-> "Cancelled"])
    /\ UNCHANGED <<opVars, unused>>

\* resume_stream: a known stream of kind Logs.
ResumeStream(e, s) ==
    /\ state[e][s] # "none" /\ s \in Logs
    /\ Send(e, [type |-> "resume", stream |-> s])
    /\ UNCHANGED <<muxVars, opVars, unused>>
-----------------------------------------------------------------------------
\* Inbound: recv applies the head of the channel, apply_inbound by frame type.

Accepts(e, f) ==
    /\ f.type = "open" =>
        state[e][f.stream] = "none" /\ HasRoom(e) /\ Admitted(e, f.stream, f.op)
    /\ f.type = "data" =>
        state[e][f.stream] = "open" /\ recvCredit[e][f.stream] > 0 /\ f.seq = expectedSeq[e][f.stream]
    /\ f.type = "flow" => state[e][f.stream] = "open"
    /\ f.type = "close" =>
        \/ state[e][f.stream] = "open"
        \/ state[e][f.stream] = "closed" /\ reason[e][f.stream] = "Cancelled" /\ f.reason = "Cancelled"
    /\ f.type = "resume" => state[e][f.stream] # "none"

Taken(e) == chan' = [chan EXCEPT ![e] = Tail(@)]

Recv(e) ==
    /\ chan[e] # <<>>
    /\ LET f == Head(chan[e]) IN
        \/ /\ f.type \in {"open", "data", "flow", "close"}
           /\ \/ f.type = "open" /\ Admitted(e, f.stream, f.op) /\ Open(e, f.stream)
              \/ f.type = "data" /\ AcceptData(e, f.stream, f.seq)
              \/ f.type = "flow" /\ ReceiveFlow(e, f.stream, f.credits)
              \/ f.type = "close" /\ Close(e, f.stream, f.reason)
           /\ Taken(e)
           /\ UNCHANGED opVars
        \/ /\ f.type \in {"response", "error"}
           /\ Unregister(e, IF f.type = "error" THEN Correlated(f.op) ELSE {f.op})
           /\ Taken(e)
           /\ UNCHANGED <<muxVars, asked>>
        \/ /\ f.type \in {"request", "resume", "audit"} /\ Accepts(e, f)
           /\ asked' = IF f.type = "request" THEN [asked EXCEPT ![e] = @ \union {f.op}] ELSE asked
           /\ Taken(e)
           /\ UNCHANGED <<muxVars, ops, opOrder>>
    /\ UNCHANGED unused

\* recv returns an error; a refused open is answered with the admission record.
RecvRefused(e) ==
    /\ chan[e] # <<>>
    /\ LET f == Head(chan[e]) IN
        /\ ~Accepts(e, f)
        /\ chan' = IF f.type = "open"
                   THEN [chan EXCEPT ![e] = Tail(@), ![Peer(e)] = Append(@, [type |-> "audit", op |-> f.op])]
                   ELSE [chan EXCEPT ![e] = Tail(@)]
    /\ UNCHANGED <<muxVars, opVars, unused>>
-----------------------------------------------------------------------------
Caller(e) ==
    \/ \E o \in Operation :
        \/ SendOperationRequest(e, o) \/ AcceptOperation(e, o)
        \/ SendOperationResponse(e, o) \/ SendTypedError(e, o)
    \/ \E s \in Stream :
        \/ \E o \in Operation : OpenStream(e, s, o)
        \/ \E c \in 1..MaxFrames : SendGrant(e, s, c)
        \/ \E r \in Reason : CloseStream(e, s, r)
        \/ SendData(e, s) \/ CancelStream(e, s) \/ ResumeStream(e, s)

Receive(e) == Recv(e) \/ RecvRefused(e)

Next == \E e \in Endpoint : Caller(e) \/ Receive(e)

Safety == Init /\ [][Next]_vars
-----------------------------------------------------------------------------
\* Frames of a stream on their way to e, and the credit they carry.
InFlight(e, s, type) ==
    {k \in DOMAIN chan[e] : chan[e][k].type = type /\ chan[e][k].stream = s}
FlowInFlight(e, s) ==
    MapThenSumSet(LAMBDA k : chan[e][k].credits, InFlight(e, s, "flow"))

\* The two ends of an open stream agree on the window: the credit the receiver
\* counts is what the sender has left, what is still on its way to the sender and
\* what the sender has spent on data that has not arrived.
WindowsAgree ==
    \A e \in Endpoint, s \in Stream : LET p == Peer(e) IN
        (state[e][s] = "open" /\ state[p][s] = "open") =>
            recvCredit[e][s] =
                sendCredit[p][s] + FlowInFlight(p, s) + Cardinality(InFlight(e, s, "data"))

\* Between two such peers recv never fails on a stream that is open: data comes
\* in sequence and within the credit, whatever was closed, refused or dropped
\* from the history in between.  An error means that this end closed or refused
\* the stream before.
OpenStreamAccepts ==
    \A e \in Endpoint :
        chan[e] # <<>> =>
            LET f == Head(chan[e]) IN
                (f.type \in {"data", "flow", "close", "resume"} /\ state[e][f.stream] = "open")
                    => Accepts(e, f)

\* The map of operation contexts and the order in which they are dropped agree.
ContextsAgree ==
    \A e \in Endpoint :
        /\ ops[e] = {opOrder[e][k] : k \in DOMAIN opOrder[e]}
        /\ \A j, k \in DOMAIN opOrder[e] : opOrder[e][j] = opOrder[e][k] => j = k

\* No context outlives its operation, whichever end answered and with what: the
\* operation of a context is on its way to the peer, asked at one of the two ends,
\* or its answer is on its way back.
ContextsEnd ==
    \A e \in Endpoint : \A o \in ops[e] :
        \/ o \in asked[e] \union asked[Peer(e)]
        \/ \E k \in DOMAIN chan[Peer(e)] : chan[Peer(e)][k] = [type |-> "request", op |-> o]
        \/ \E k \in DOMAIN chan[e] :
              chan[e][k].type \in {"response", "error"} /\ chan[e][k].op = o

\* A stream closed or cancelled at one end does not stay open at the other: until
\* the peer has closed it too, a close frame is on its way.
CloseArrives ==
    \A e \in Endpoint, s \in Stream :
        (state[e][s] = "closed" /\ state[Peer(e)][s] = "open") =>
            InFlight(Peer(e), s, "close") # {}
=============================================================================
