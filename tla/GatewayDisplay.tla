-------------------------- MODULE GatewayDisplay --------------------------
(***************************************************************************)
(* Display sessions of the realm gateway: the session ledger and the       *)
(* orchestrator (packages/d2b-gateway/src/ledger.rs, orchestrator.rs), the *)
(* relay listener behind it (packages/d2b-gateway-runtime/src/             *)
(* display_listener.rs) and the gatewayDisplay requests of d2bd            *)
(* (packages/d2bd/src/lib.rs).                                             *)
(*                                                                         *)
(* Every request runs on a thread of its own, under no operation lock.  An *)
(* open is admitted by the ledger, arms a listener, spawns an agent in the *)
(* workload's sandbox, waits for the agent's handshake and then puts the   *)
(* session with its two handles into the table `sessions`.  A close, a     *)
(* stop of the target and the collection of expired sessions, which every  *)
(* request begins with, take sessions out of the table and tear them down. *)
(* An open with the operation id of an earlier one returns that session,   *)
(* with empty handles, and touches nothing but the table.                  *)
(*                                                                         *)
(* The daemon's audit sink is NoopGatewayAudit: its records are left out.  *)
(***************************************************************************)
EXTENDS Integers, FiniteSets

CONSTANTS
    Thread,           \* threads serving requests
    Session,          \* session ids; bound: the opens a behaviour admits
    Asks,             \* the requests clients make
    MaxRequests,      \* bound: how many of them a behaviour has
    OpenRequest,      \* [target : [realm, workload], principal, operation, hash]
    Peer,             \* principals of the peers that ask
    Admin,            \* those of them with the admin role
    Absent,           \* no record, no entry, no session
    MaxPerPrincipal,  \* LedgerLimits
    MaxPerRealm,
    MaxRecords

Target == {o.target : o \in OpenRequest}
GatewayRequest ==
    [verb : {"Open"}, args : OpenRequest]
        \union [verb : {"Close"}, id : Session, peer : Peer]
        \union [verb : {"Stop"}, target : Target]
        \union [verb : {"List"}]

ASSUME GatewayAssumption ==
    /\ Admin \subseteq Peer /\ Asks \subseteq GatewayRequest
    /\ \A o \in OpenRequest : o.principal \in Peer
    /\ MaxPerPrincipal \in Nat /\ MaxPerRealm \in Nat /\ MaxRecords \in Nat
    /\ IsFiniteSet(Session) /\ MaxRequests \in Nat

VARIABLES
    asked,      \* requests so far
    records,    \* SessionLedger.records
    issued,     \* ids new_session_id has returned
    sessions,   \* GatewayDisplayRuntime.sessions
    listener,   \* the relay listener of each session
    agent,      \* the agent in the sandbox of each session
    handshake,  \* its handshake: none, verified (armed is set), notified
    at,         \* where each thread is in its request,
    request,    \*     the request,
    expired,    \*     the sessions it has taken and still has to close,
    took,       \*     whether it has done more than collect,
    open,       \*     the OpenSession it opens or closes
    waiter      \*     and its place among those the listener notifies

ledgerVars == <<records, issued>>
resourceVars == <<listener, agent, handshake>>
callVars == <<request, expired, took, open, waiter>>
threadVars == <<at, callVars>>
gatewayVars == <<asked, ledgerVars, sessions, resourceVars, threadVars>>

SessionState ==
    {"Minting", "ListenerArming", "AgentSpawning", "AwaitingHandshake", "Running",
     "Degraded", "Stopping", "Closed", "Failed"}

\* SessionState::can_transition.
can_transition ==
    {<<"Minting", "ListenerArming">>, <<"ListenerArming", "AgentSpawning">>,
     <<"AgentSpawning", "AwaitingHandshake">>, <<"AwaitingHandshake", "Running">>,
     <<"Running", "Degraded">>, <<"Degraded", "ListenerArming">>, <<"Stopping", "Closed">>}
        \union ({"Minting", "AgentSpawning", "ListenerArming", "AwaitingHandshake", "Running",
                 "Degraded"} \X {"Stopping"})
        \union ({"Minting", "AgentSpawning", "ListenerArming", "AwaitingHandshake"} \X {"Failed"})

is_terminal(state) == state \in {"Closed", "Failed"}

\* An OpenSession has both of its handles or, after a replay, neither; so has its
\* entry of the table.
OpenSession == [id : Session, real : BOOLEAN]
SessionRecord == [args : OpenRequest, state : SessionState]
GatewayDisplaySession == [target : Target, principal : Peer, real : BOOLEAN]

ASSUME AbsentAssumption ==
    Absent \notin UNION {OpenSession, SessionRecord, GatewayDisplaySession, GatewayRequest}

\* The steps of a request: "next" before the next session to close or, with none
\* left, the request's own work; the steps of close; those of open.
At == {"idle", "next", "unlisten", "cleanup",
       "arming", "spawning", "abandon", "awaiting", "check", "register",
       "recheck", "wait", "running", "insert", "fail"}

\* The type invariant.
GatewayTypeOK ==
    /\ asked \in 0 .. MaxRequests
    /\ records \in [Session -> {Absent} \union SessionRecord]
    /\ issued \subseteq Session
    /\ sessions \in [Session -> {Absent} \union GatewayDisplaySession]
    /\ listener \in [Session -> {"none", "armed", "closed"}]
    /\ agent \in [Session -> {"none", "live", "cleaned"}]
    /\ handshake \in [Session -> {"none", "verified", "notified"}]
    /\ at \in [Thread -> At]
    /\ request \in [Thread -> {Absent} \union GatewayRequest]
    /\ expired \in [Thread -> SUBSET OpenSession]
    /\ took \in [Thread -> BOOLEAN]
    /\ open \in [Thread -> {Absent} \union OpenSession]
    /\ waiter \in [Thread -> {"none", "registered", "woken"}]

GatewayInit ==
    /\ asked = 0
    /\ records = [s \in Session |-> Absent] /\ issued = {}
    /\ sessions = [s \in Session |-> Absent]
    /\ listener = [s \in Session |-> "none"] /\ agent = [s \in Session |-> "none"]
    /\ handshake = [s \in Session |-> "none"]
    /\ at = [t \in Thread |-> "idle"] /\ request = [t \in Thread |-> Absent]
    /\ expired = [t \in Thread |-> {}] /\ took = [t \in Thread |-> FALSE]
    /\ open = [t \in Thread |-> Absent] /\ waiter = [t \in Thread |-> "none"]
-----------------------------------------------------------------------------
\* The ledger.
Tracked == {s \in Session : records[s] # Absent}
Active == {s \in Tracked : ~is_terminal(records[s].state)}

\* Whether SessionLedger::transition succeeds.
Legal(s, next) == records[s] # Absent /\ <<records[s].state, next>> \in can_transition

\* SessionLedger::transition, its error left to the caller.
Transition(s, next) ==
    records' = IF Legal(s, next) THEN [records EXCEPT ![s].state = next] ELSE records

\* Records with the operation id and the principal of o.
Same(o) ==
    {s \in Tracked : records[s].args.operation = o.operation
                  /\ records[s].args.principal = o.principal}

\* SessionLedger::gc_terminal, at the ceiling of records.
Collected ==
    IF Cardinality(Tracked) >= MaxRecords
        THEN [s \in Session |-> IF s \in Active THEN records[s] ELSE Absent]
        ELSE records

\* Mutant: a session that is still being opened does not count.
WithinRunningQuota(o) ==
    LET counted == {s \in Active : records[s].state = "Running"}
    IN /\ Cardinality({s \in Session : Collected[s] # Absent}) < MaxRecords
       /\ Cardinality({s \in counted : records[s].args.principal = o.principal}) < MaxPerPrincipal
       /\ Cardinality({s \in counted : records[s].args.target.realm = o.target.realm}) < MaxPerRealm

\* The ceiling and the quotas leave room for o.
WithinQuota(o) ==
    /\ Cardinality({s \in Session : Collected[s] # Absent}) < MaxRecords
    /\ Cardinality({s \in Active : records[s].args.principal = o.principal}) < MaxPerPrincipal
    /\ Cardinality({s \in Active : records[s].args.target.realm = o.target.realm}) < MaxPerRealm

Busy(o) == \E s \in Active : records[s].args.target = o.target
-----------------------------------------------------------------------------
\* The threads.
Goto(t, pc) == at' = [at EXCEPT ![t] = pc]

\* The request is answered.
Return(t) ==
    /\ Goto(t, "idle")
    /\ request' = [request EXCEPT ![t] = Absent]
    /\ expired' = [expired EXCEPT ![t] = {}]
    /\ took' = [took EXCEPT ![t] = FALSE]
    /\ open' = [open EXCEPT ![t] = Absent]
    /\ waiter' = [waiter EXCEPT ![t] = "none"]

\* Mutant: the entries stay in the table.
TakeCopies(t, ss) ==
    /\ expired' = [expired EXCEPT ![t] = {[id |-> s, real |-> sessions[s].real] : s \in ss}]
    /\ UNCHANGED sessions

\* The thread takes the sessions ss out of the table, to close them.
Take(t, ss) ==
    /\ expired' = [expired EXCEPT ![t] = {[id |-> s, real |-> sessions[s].real] : s \in ss}]
    /\ sessions' = [s \in Session |-> IF s \in ss THEN Absent ELSE sessions[s]]

\* A request arrives.  gateway_display_gc: the sessions past their time to live,
\* which may be any by now, are taken first.
Begin(t, r) ==
    /\ at[t] = "idle" /\ asked < MaxRequests
    /\ asked' = asked + 1
    /\ r.verb = "Close" => r.id \in issued
    /\ \E past \in SUBSET {s \in Session : sessions[s] # Absent} : Take(t, past)
    /\ request' = [request EXCEPT ![t] = r]
    /\ Goto(t, "next")
    /\ UNCHANGED <<ledgerVars, resourceVars, took, open, waiter>>
-----------------------------------------------------------------------------
\* GatewayOrchestrator::close, for one session after the other.
CloseBegin(t) ==
    /\ at[t] = "next"
    /\ \E s \in expired[t] :
        /\ open' = [open EXCEPT ![t] = s]
        /\ expired' = [expired EXCEPT ![t] = @ \ {s}]
        /\ Transition(s.id, "Stopping")
    /\ Goto(t, "unlisten")
    /\ UNCHANGED <<asked, issued, sessions, resourceVars, request, took, waiter>>

\* DisplayListener::close: an unknown handle is no error.
CloseListener(t) ==
    /\ at[t] = "unlisten"
    /\ listener' = [listener EXCEPT ![open[t].id] = IF open[t].real THEN "closed" ELSE @]
    /\ Goto(t, "cleanup")
    /\ UNCHANGED <<asked, ledgerVars, sessions, agent, handshake, callVars>>

\* Mutant: only the listener is closed.
CloseEndOnly(t) ==
    /\ at[t] = "cleanup"
    /\ Transition(open[t].id, "Closed")
    /\ Goto(t, "next")
    /\ open' = [open EXCEPT ![t] = Absent]
    /\ UNCHANGED <<asked, issued, sessions, resourceVars, request, expired, took, waiter>>

\* GatewayWorkload::cleanup, whatever closing the listener returned, and the end of
\* the close; an empty handle cannot be decoded.
CloseEnd(t) ==
    /\ at[t] = "cleanup"
    /\ agent' = [agent EXCEPT ![open[t].id] = IF open[t].real THEN "cleaned" ELSE @]
    /\ Transition(open[t].id, "Closed")
    /\ Goto(t, "next")
    /\ open' = [open EXCEPT ![t] = Absent]
    /\ UNCHANGED <<asked, issued, sessions, listener, handshake, request, expired, took, waiter>>

\* The thread has closed what it took.
Drained(t) == at[t] = "next" /\ expired[t] = {}

\* A list, or a close or stop whose sessions are closed, returns.
Answer(t) ==
    /\ Drained(t)
    /\ took[t] \/ request[t].verb = "List"
    /\ Return(t)
    /\ UNCHANGED <<asked, ledgerVars, sessions, resourceVars>>

\* GatewayDisplayOp::Close: the owner or an admin takes the session.
TakeClosed(t) ==
    /\ Drained(t) /\ request[t].verb = "Close" /\ ~took[t]
    /\ LET s == request[t].id
           allowed == request[t].peer \in Admin \union {sessions[s].principal}
       IN IF sessions[s] # Absent /\ allowed
          THEN /\ Take(t, {s})
               /\ took' = [took EXCEPT ![t] = TRUE]
               /\ UNCHANGED <<at, request, open, waiter>>
          ELSE Return(t) /\ UNCHANGED sessions
    /\ UNCHANGED <<asked, ledgerVars, resourceVars>>

\* GatewayDisplayOp::Stop: close_gateway_sessions_for_target.
TakeTarget(t) ==
    /\ Drained(t) /\ request[t].verb = "Stop" /\ ~took[t]
    /\ Take(t, {s \in Session : sessions[s] # Absent /\ sessions[s].target = request[t].target})
    /\ took' = [took EXCEPT ![t] = TRUE]
    /\ UNCHANGED <<asked, ledgerVars, resourceVars, at, request, open, waiter>>
-----------------------------------------------------------------------------
\* GatewayOrchestrator::open.
Opening(t) == Drained(t) /\ request[t].verb = "Open"

\* OpOutcome::Replay: the same operation is tracked, in whatever state.
OpenReplay(t) ==
    /\ Opening(t)
    /\ \E s \in Same(request[t].args) :
        /\ records[s].args.hash = request[t].args.hash
        /\ open' = [open EXCEPT ![t] = [id |-> s, real |-> FALSE]]
    /\ Goto(t, "insert")
    /\ UNCHANGED <<asked, ledgerVars, sessions, resourceVars, request, expired, took, waiter>>

\* Conflict, Busy, QuotaExceeded or, past the bound on ids, Internal for one that
\* is in use.
OpenDenied(t) ==
    /\ Opening(t)
    /\ LET o == request[t].args
       IN \/ /\ \E s \in Same(o) : records[s].args.hash # o.hash
             /\ UNCHANGED records
          \/ /\ Same(o) = {} /\ Busy(o)
             /\ UNCHANGED records
          \/ /\ Same(o) = {} /\ ~Busy(o) /\ (~WithinQuota(o) \/ issued = Session)
             /\ records' = Collected
    /\ Return(t)
    /\ UNCHANGED <<asked, issued, sessions, resourceVars>>

\* OpOutcome::Accepted, with an id never used before.
OpenAccepted(t) ==
    /\ Opening(t)
    /\ LET o == request[t].args
           s == CHOOSE s \in Session : s \notin issued
       IN /\ Same(o) = {} /\ ~Busy(o) /\ WithinQuota(o) /\ issued # Session
          /\ records' = [Collected EXCEPT ![s] = [args |-> o, state |-> "Minting"]]
          /\ issued' = issued \union {s}
          /\ open' = [open EXCEPT ![t] = [id |-> s, real |-> TRUE]]
    /\ Goto(t, "arming")
    /\ UNCHANGED <<asked, sessions, resourceVars, request, expired, took, waiter>>

\* drive_open.  Every step moves the ledger first, and an illegal move ends the
\* open.  DisplayListener::arm starts the listener, or fails;
Arm(t) ==
    /\ at[t] = "arming"
    /\ Transition(open[t].id, "ListenerArming")
    /\ \/ /\ Legal(open[t].id, "ListenerArming")
          /\ listener' = [listener EXCEPT ![open[t].id] = "armed"]
          /\ Goto(t, "spawning")
       \/ UNCHANGED listener /\ Goto(t, "fail")
    /\ UNCHANGED <<asked, issued, sessions, agent, handshake, callVars>>

\* GatewayWorkload::spawn_agent starts the agent, or fails.
SpawnAgent(t) ==
    /\ at[t] = "spawning"
    /\ Transition(open[t].id, "AgentSpawning")
    /\ \/ /\ Legal(open[t].id, "AgentSpawning")
          /\ agent' = [agent EXCEPT ![open[t].id] = "live"]
          /\ Goto(t, "awaiting")
       \/ /\ UNCHANGED agent
          /\ Goto(t, IF Legal(open[t].id, "AgentSpawning") THEN "abandon" ELSE "fail")
    /\ UNCHANGED <<asked, issued, sessions, listener, handshake, callVars>>

\* Mutant: the listener stays armed.
AbandonArmed(t) ==
    /\ at[t] = "abandon"
    /\ Goto(t, "fail")
    /\ UNCHANGED <<asked, ledgerVars, sessions, resourceVars, callVars>>

\* The listener of an open whose agent could not be spawned is closed.
Abandon(t) ==
    /\ at[t] = "abandon"
    /\ listener' = [listener EXCEPT ![open[t].id] = "closed"]
    /\ Goto(t, "fail")
    /\ UNCHANGED <<asked, ledgerVars, sessions, agent, handshake, callVars>>

\* A step that only moves the ledger.
Drive(t, from, state, next) ==
    /\ at[t] = from
    /\ Transition(open[t].id, state)
    /\ Goto(t, IF Legal(open[t].id, state) THEN next ELSE "fail")
    /\ UNCHANGED <<asked, issued, sessions, resourceVars, callVars>>

\* Mutant: the handshake is not waited for.
DriveWithoutHandshake(t) == Drive(t, "awaiting", "AwaitingHandshake", "running")

DriveAwaiting(t) == Drive(t, "awaiting", "AwaitingHandshake", "check")
DriveRunning(t) == Drive(t, "running", "Running", "insert")

\* DisplayListener::await_handshake: look at the flag, register for the
\* notification, look again, and only then wait.
Verified(t) == handshake[open[t].id] # "none"

AwaitCheck(t) ==
    /\ at[t] \in {"check", "recheck"}
    /\ Goto(t, IF Verified(t) THEN "running" ELSE IF at[t] = "check" THEN "register" ELSE "wait")
    /\ UNCHANGED <<asked, ledgerVars, sessions, resourceVars, callVars>>

\* Mutant: no second look.
AwaitRegisterOnce(t) ==
    /\ at[t] = "register"
    /\ waiter' = [waiter EXCEPT ![t] = "registered"]
    /\ Goto(t, "wait")
    /\ UNCHANGED <<asked, ledgerVars, sessions, resourceVars, request, expired, took, open>>

AwaitRegister(t) ==
    /\ at[t] = "register"
    /\ waiter' = [waiter EXCEPT ![t] = "registered"]
    /\ Goto(t, "recheck")
    /\ UNCHANGED <<asked, ledgerVars, sessions, resourceVars, request, expired, took, open>>

AwaitWoken(t) ==
    /\ at[t] = "wait" /\ waiter[t] = "woken"
    /\ Goto(t, "running")
    /\ UNCHANGED <<asked, ledgerVars, sessions, resourceVars, callVars>>

\* fail_session; the open returns an error.
Fail(t) ==
    /\ at[t] = "fail"
    /\ Transition(open[t].id, "Failed")
    /\ Return(t)
    /\ UNCHANGED <<asked, issued, sessions, resourceVars>>

\* The session goes into the table unless its id is there already.
Insert(t) ==
    /\ at[t] = "insert"
    /\ LET s == open[t].id
       IN sessions' = IF sessions[s] # Absent THEN sessions
                      ELSE [sessions EXCEPT ![s] =
                              [target |-> request[t].args.target,
                               principal |-> request[t].args.principal,
                               real |-> open[t].real]]
    /\ Return(t)
    /\ UNCHANGED <<asked, ledgerVars, resourceVars>>
-----------------------------------------------------------------------------
\* notifying_verifier: the listener verifies the handshake of the agent, sets
\* the flag and then wakes those who have registered.
Verify(s) ==
    /\ listener[s] = "armed" /\ agent[s] = "live" /\ handshake[s] = "none"
    /\ handshake' = [handshake EXCEPT ![s] = "verified"]
    /\ UNCHANGED <<asked, ledgerVars, sessions, listener, agent, threadVars>>

Notify(s) ==
    /\ handshake[s] = "verified"
    /\ handshake' = [handshake EXCEPT ![s] = "notified"]
    /\ waiter' = [t \in Thread |-> IF waiter[t] = "registered" /\ open[t].id = s
                                    THEN "woken" ELSE waiter[t]]
    /\ UNCHANGED <<asked, ledgerVars, sessions, listener, agent, at, request, expired, took, open>>

CloseStep(t) == CloseBegin(t) \/ CloseListener(t) \/ CloseEnd(t)
OpenStep(t) ==
    \/ OpenReplay(t) \/ OpenDenied(t) \/ OpenAccepted(t)
    \/ Arm(t) \/ SpawnAgent(t) \/ Abandon(t)
    \/ DriveAwaiting(t) \/ AwaitCheck(t) \/ AwaitRegister(t) \/ AwaitWoken(t) \/ DriveRunning(t)
    \/ Insert(t) \/ Fail(t)
ThreadStep(t) == CloseStep(t) \/ OpenStep(t) \/ Answer(t) \/ TakeClosed(t) \/ TakeTarget(t)

GatewayNext ==
    \/ \E t \in Thread, r \in Asks : Begin(t, r)
    \/ \E t \in Thread : ThreadStep(t)
    \/ \E s \in Session : Verify(s) \/ Notify(s)

\* Threads are scheduled again and again, and the listener's callback runs to its
\* end.  Nothing makes an agent dial.
GatewayFairness ==
    /\ \A t \in Thread : WF_gatewayVars(ThreadStep(t))
    /\ \A s \in Session : WF_gatewayVars(Notify(s))

GatewaySafety == GatewayInit /\ [][GatewayNext]_gatewayVars

GatewaySpec == GatewaySafety /\ GatewayFairness
-----------------------------------------------------------------------------
\* What the ledger admits stays within its limits: one active session for a
\* target, one record for an operation of a principal, the two quotas and the
\* ceiling of records.  It holds although opens, failures and closes of different
\* threads move the records between the admissions.
LedgerLimitsHold ==
    /\ \A s, u \in Tracked : s # u =>
        /\ ~({s, u} \subseteq Active /\ records[s].args.target = records[u].args.target)
        /\ ~(records[s].args.operation = records[u].args.operation
             /\ records[s].args.principal = records[u].args.principal)
    /\ \A s \in Active :
        /\ Cardinality({u \in Active : records[u].args.principal = records[s].args.principal})
              <= MaxPerPrincipal
        /\ Cardinality({u \in Active : records[u].args.target.realm = records[s].args.target.realm})
              <= MaxPerRealm
    /\ Cardinality(Tracked) <= MaxRecords

\* A session the ledger calls Running is served: its listener is armed, its agent
\* lives and its handshake has been verified.  Opening reaches Running last and
\* closing leaves it first, whichever threads open, replay and close it.
RunningIsServed ==
    \A s \in Tracked : records[s].state = "Running" =>
        listener[s] = "armed" /\ agent[s] = "live" /\ handshake[s] # "none"

\* "on any failure it runs compensating cleanup": the ledger calls a session
\* Failed only when its open has left neither a listener nor an agent behind.
FailedIsReleased ==
    \A s \in Tracked : records[s].state = "Failed" => listener[s] # "armed" /\ agent[s] # "live"

\* The handles in the table are good: nothing closes a listener or cleans up an
\* agent while the table offers them, so of a close, a stop and a collection that
\* meet only one tears a session down.
TableHandlesAreGood ==
    \A s \in Session : (sessions[s] # Absent /\ sessions[s].real) =>
        listener[s] = "armed" /\ agent[s] = "live"

\* A session taken out of the table with its handles is torn down: its listener
\* and its agent end, and the ledger lets go of its target.
TakenIsTornDown ==
    \A s \in Session :
        (\E t \in Thread : [id |-> s, real |-> TRUE] \in expired[t]) ~>
            (listener[s] = "closed" /\ agent[s] = "cleaned" /\ s \notin Active)

\* A verified handshake is seen: however setting the flag and notifying interleave
\* with the two looks and the registration, no open goes on waiting for it.
HandshakeIsSeen ==
    \A s \in Session :
        handshake[s] # "none" ~>
            \A t \in Thread : at[t] \in {"check", "register", "recheck", "wait"} => open[t].id # s
-----------------------------------------------------------------------------
\* gateway_display_replay_preserves_real_session_handles: once its open has
\* returned, the table's entry of a running session has its handles.
ReplayPreservesHandles ==
    \A s \in Tracked :
        (records[s].state = "Running" /\ sessions[s] # Absent
            /\ \A t \in Thread : at[t] = "insert" => open[t].id # s) => sessions[s].real
=============================================================================
