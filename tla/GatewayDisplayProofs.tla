----------------------- MODULE GatewayDisplayProofs -----------------------
(***************************************************************************)
(* Proofs about GatewayDisplay for any threads, sessions, requests and     *)
(* limits.                                                                 *)
(***************************************************************************)
EXTENDS GatewayDisplay, FiniteSetTheorems, TLAPS

\* The one OpenSession of s that has its handles.
Own(s) == [id |-> s, real |-> TRUE]

InTable(s) == sessions[s] # Absent /\ sessions[s].real
Holds(t, s) == open[t] = Own(s) \/ Own(s) \in expired[t]

\* The handles of a session are in one place: with the thread that opens it, in the
\* table, or with the thread that closes it.
OneHolder ==
    \A s \in Session :
        /\ \A t, u \in Thread : Holds(t, s) /\ Holds(u, s) => t = u
        /\ \A t \in Thread : ~(open[t] = Own(s) /\ Own(s) \in expired[t])
        /\ InTable(s) => \A t \in Thread : ~Holds(t, s)

\* Nothing is known of an id that has not been issued.
Fresh ==
    \A s \in Session \ issued :
        /\ records[s] = Absent /\ sessions[s] = Absent
        /\ listener[s] = "none" /\ agent[s] = "none" /\ handshake[s] = "none"
        /\ \A t \in Thread : (open[t] # Absent => open[t].id # s) /\ \A e \in expired[t] : e.id # s

\* The steps of drive_open.
Driving == {"arming", "spawning", "abandon", "awaiting", "check", "register", "recheck", "wait",
            "running", "fail"}

\* Where a thread has an OpenSession, and for which request.
ThreadOpens ==
    \A t \in Thread :
        /\ at[t] \in {"idle", "next"} <=> open[t] = Absent
        /\ at[t] \in Driving => open[t].real
        /\ at[t] # "idle" => request[t] # Absent
        /\ at[t] \in Driving \union {"insert"} => request[t].verb = "Open"
        /\ waiter[t] # "none" => at[t] \in {"recheck", "wait", "running", "insert", "fail"}
        /\ waiter[t] = "woken" => handshake[open[t].id] # "none"

\* The record of s is where drive_open left it, or a close of a replayed copy has
\* moved it to its end.
Ended(s) == records[s] = Absent \/ records[s].state \in {"Stopping", "Closed"}
In(s, states) == Ended(s) \/ records[s].state \in states

Armed(s) == listener[s] = "armed" /\ agent[s] # "live"
Served(s) == listener[s] = "armed" /\ agent[s] = "live"
Released(s) == listener[s] # "armed" /\ agent[s] # "live"

\* What an open has done for s when it is at each step.
Reached(s, step) ==
    /\ step = "arming" => In(s, {"Minting"}) /\ Released(s)
    /\ step = "spawning" => In(s, {"ListenerArming"}) /\ Armed(s)
    /\ step = "abandon" => In(s, {"AgentSpawning"}) /\ Armed(s)
    /\ step = "awaiting" => In(s, {"AgentSpawning"}) /\ Served(s)
    /\ step \in {"check", "register", "recheck", "wait", "running"} =>
        In(s, {"AwaitingHandshake"}) /\ Served(s)
    /\ step = "insert" => In(s, {"Running"}) /\ Served(s)
    /\ step \in {"running", "insert"} => handshake[s] # "none"
    /\ step = "fail" => In(s, {"ListenerArming", "AgentSpawning"}) /\ (Ended(s) \/ Released(s))
    /\ step \in {"unlisten", "cleanup"} => Ended(s)

Progress ==
    \A s \in Session :
        /\ \A t \in Thread : open[t] = Own(s) => Reached(s, at[t])
        /\ (InTable(s) \/ \E t \in Thread : Own(s) \in expired[t]) => Reached(s, "insert")

GatewayInv ==
    /\ GatewayTypeOK /\ OneHolder /\ Fresh /\ ThreadOpens /\ Progress
    /\ RunningIsServed /\ FailedIsReleased
-----------------------------------------------------------------------------
\* What the table of legal transitions says of the moves the code makes.
LEMMA TransitionTable ==
    /\ \A a \in SessionState :
        /\ <<a, "Stopping">> \in can_transition <=>
            a \in {"Minting", "AgentSpawning", "ListenerArming", "AwaitingHandshake", "Running", "Degraded"}
        /\ <<a, "Closed">> \in can_transition <=> a = "Stopping"
        /\ <<a, "Failed">> \in can_transition <=>
            a \in {"Minting", "AgentSpawning", "ListenerArming", "AwaitingHandshake"}
        /\ <<a, "ListenerArming">> \in can_transition <=> a \in {"Minting", "Degraded"}
        /\ <<a, "AgentSpawning">> \in can_transition <=> a = "ListenerArming"
        /\ <<a, "AwaitingHandshake">> \in can_transition <=> a = "AgentSpawning"
        /\ <<a, "Running">> \in can_transition <=> a = "AwaitingHandshake"
BY DEF SessionState, can_transition

\* What SessionLedger::transition does to the records.
Moved(s, next) ==
    /\ records' \in [Session -> {Absent} \union SessionRecord]
    /\ \A u \in Session \ {s} : records'[u] = records[u]
    /\ ~Legal(s, next) => records'[s] = records[s]
    /\ Legal(s, next) => /\ records'[s] # Absent
                         /\ records'[s].args = records[s].args
                         /\ records'[s].state = next

LEMMA Moves ==
    ASSUME GatewayTypeOK, NEW s \in Session, NEW next \in SessionState, Transition(s, next)
    PROVE  Moved(s, next)
<1>1. records \in [Session -> {Absent} \union SessionRecord]
  BY Zenon DEF GatewayTypeOK, SessionRecord
<1>2. CASE ~Legal(s, next)
  BY <1>1, <1>2, Zenon DEF Transition, Moved
<1>3. CASE Legal(s, next)
  <2>1. records' = [records EXCEPT ![s] = [records[s] EXCEPT !.state = next]]
    BY <1>3, Zenon DEF Transition
  <2>2. records[s] \in SessionRecord
    BY <1>1, <1>3, Zenon DEF Legal
  <2>3. [records[s] EXCEPT !.state = next] \in SessionRecord
    BY <2>2, Zenon DEF SessionRecord
  <2> QED BY <1>1, <1>3, <2>1, <2>2, <2>3, AbsentAssumption, Zenon DEF Moved, SessionRecord
<1> QED BY <1>2, <1>3, Zenon

\* The records after gc_terminal: active ones stay, others stay or go.
LEMMA Collects ==
    ASSUME GatewayTypeOK
    PROVE  /\ Collected \in [Session -> {Absent} \union SessionRecord]
           /\ \A s \in Session : Collected[s] \in {records[s], Absent}
           /\ \A s \in Active : Collected[s] = records[s]
BY Zenon DEF GatewayTypeOK, SessionRecord, Collected, Active, Tracked

\* The arguments of a request are those of its verb.
LEMMA Arguments ==
    ASSUME NEW r \in GatewayRequest
    PROVE  /\ r.verb = "Open" => r.args \in OpenRequest
           /\ r.verb = "Close" => r.id \in Session /\ r.peer \in Peer
           /\ r.verb = "Stop" => r.target \in Target
BY Zenon DEF GatewayRequest

\* Beyond "next" a thread has an OpenSession; while it drives an open, with handles.
LEMMA HasOpen ==
    ASSUME GatewayTypeOK, ThreadOpens, NEW t \in Thread, at[t] \notin {"idle", "next"}
    PROVE  /\ open[t] \in OpenSession /\ open[t].id \in Session
           /\ at[t] \in Driving => open[t] = Own(open[t].id)
<1>1. open[t] \in OpenSession
  BY Zenon DEF GatewayTypeOK, ThreadOpens
<1>2. open[t].id \in Session /\ open[t] = [id |-> open[t].id, real |-> open[t].real]
  BY <1>1, Zenon DEF OpenSession
<1>3. at[t] \in Driving => open[t].real = TRUE
  BY <1>1, Zenon DEF ThreadOpens, OpenSession
<1> QED BY <1>1, <1>2, <1>3, Zenon DEF Own

\* What taking sessions out of the table does, entry by entry.
Taken(t, ss) ==
    /\ expired' \in [Thread -> SUBSET OpenSession]
    /\ sessions' \in [Session -> {Absent} \union GatewayDisplaySession]
    /\ \A u \in Thread \ {t} : expired'[u] = expired[u]
    /\ \A s \in Session : Own(s) \in expired'[t] <=> s \in ss /\ sessions[s].real
    /\ \A s \in Session : sessions'[s] = IF s \in ss THEN Absent ELSE sessions[s]

LEMMA Takes ==
    ASSUME GatewayTypeOK, NEW t \in Thread, NEW ss \in SUBSET Session,
           \A s \in ss : sessions[s] # Absent, Take(t, ss)
    PROVE  Taken(t, ss)
<1>1. /\ sessions \in [Session -> {Absent} \union GatewayDisplaySession]
      /\ expired \in [Thread -> SUBSET OpenSession]
  BY Zenon DEF GatewayTypeOK
<1> DEFINE gone == {[id |-> s, real |-> sessions[s].real] : s \in ss}
<1>2. \A s \in ss : sessions[s].real \in BOOLEAN
  BY <1>1, Zenon DEF GatewayDisplaySession
<1>3. gone \in SUBSET OpenSession
  BY <1>2 DEF OpenSession
<1>4. \A s \in Session : Own(s) \in gone <=> s \in ss /\ sessions[s].real
  <2> TAKE s \in Session
  <2>1. ASSUME Own(s) \in gone PROVE s \in ss /\ sessions[s].real
    <3>1. PICK u \in ss : Own(s) = [id |-> u, real |-> sessions[u].real]
      BY <2>1, Zenon
    <3>2. Own(s).id = s /\ Own(s).real = TRUE
      BY Zenon DEF Own
    <3> QED BY <3>1, <3>2
  <2>2. ASSUME s \in ss, sessions[s].real PROVE Own(s) \in gone
    <3>1. sessions[s].real = TRUE
      BY <1>2, <2>2, Zenon
    <3> QED BY <2>2, <3>1, Zenon DEF Own
  <2> QED BY <2>1, <2>2, Zenon
<1>5. expired' = [expired EXCEPT ![t] = gone]
      /\ sessions' = [s \in Session |-> IF s \in ss THEN Absent ELSE sessions[s]]
  BY Zenon DEF Take
<1> HIDE DEF gone
<1> QED BY <1>1, <1>3, <1>4, <1>5, Zenon DEF Taken

\* What an admitted open does.
Admitted(t, s) ==
    /\ s \in Session \ issued /\ issued' = issued \union {s}
    /\ request[t].args \in OpenRequest
    /\ at[t] = "next" /\ expired[t] = {} /\ request[t].verb = "Open"
    /\ Same(request[t].args) = {} /\ ~Busy(request[t].args) /\ WithinQuota(request[t].args)
    /\ records' \in [Session -> {Absent} \union SessionRecord]
    /\ records'[s] = [args |-> request[t].args, state |-> "Minting"]
    /\ \A u \in Session \ {s} : records'[u] = Collected[u]
    /\ at' = [at EXCEPT ![t] = "arming"] /\ open' = [open EXCEPT ![t] = Own(s)]
    /\ UNCHANGED <<asked, sessions, listener, agent, handshake, request, expired, took, waiter>>

LEMMA Admits ==
    ASSUME GatewayTypeOK, ThreadOpens, NEW t \in Thread, OpenAccepted(t)
    PROVE  \E s \in Session : Admitted(t, s)
<1> DEFINE o == request[t].args
           s == CHOOSE s \in Session : s \notin issued
<1>1. issued # Session /\ issued \subseteq Session
  BY Zenon DEF OpenAccepted, GatewayTypeOK
<1>2. s \in Session \ issued
  BY <1>1, Zenon
<1>3. request[t] \in GatewayRequest /\ request[t].verb = "Open"
  BY Zenon DEF OpenAccepted, Opening, Drained, GatewayTypeOK, ThreadOpens
<1>4. o \in OpenRequest
  BY <1>3, Arguments, Zenon
<1>5. [args |-> o, state |-> "Minting"] \in SessionRecord
  BY <1>4, Zenon DEF SessionRecord, SessionState
<1>6. records' = [Collected EXCEPT ![s] = [args |-> o, state |-> "Minting"]]
  BY Zenon DEF OpenAccepted
<1>7. /\ records' \in [Session -> {Absent} \union SessionRecord]
      /\ records'[s] = [args |-> o, state |-> "Minting"]
      /\ \A u \in Session \ {s} : records'[u] = Collected[u]
  <2> HIDE DEF s, o
  <2> QED BY <1>2, <1>5, <1>6, Collects, Zenon
<1>8. Admitted(t, s)
  <2>1. /\ at[t] = "next" /\ expired[t] = {}
        /\ Same(o) = {} /\ ~Busy(o) /\ WithinQuota(o)
        /\ issued' = issued \union {s} /\ open' = [open EXCEPT ![t] = Own(s)]
        /\ at' = [at EXCEPT ![t] = "arming"]
        /\ UNCHANGED <<asked, sessions, listener, agent, handshake, request, expired, took, waiter>>
    BY Zenon DEF OpenAccepted, Opening, Drained, Goto, Own, resourceVars
  <2> HIDE DEF s, o
  <2> QED BY <1>2, <1>3, <1>4, <1>7, <2>1, Zenon DEF Admitted, o
<1> QED BY <1>2, <1>8, Zenon
-----------------------------------------------------------------------------
\* Every step keeps the types.
LEMMA TypesStep ==
    ASSUME GatewayInv, GatewayNext
    PROVE  GatewayTypeOK'
<1> DEFINE Goal == GatewayTypeOK'
<1>a. GatewayTypeOK /\ ThreadOpens
  BY Zenon DEF GatewayInv
<1>b. \A t \in Thread : at[t] \notin {"idle", "next"} => open[t] \in OpenSession /\ open[t].id \in Session
  BY <1>a, HasOpen, Zenon
<1>c. ASSUME NEW s \in Session, NEW next \in SessionState, Transition(s, next)
      PROVE  records' \in [Session -> {Absent} \union SessionRecord]
  BY <1>a, <1>c, Moves, Zenon DEF Moved
<1> USE <1>a DEF GatewayTypeOK, At, Goto, ledgerVars, resourceVars, callVars, threadVars, Return
<1>1. ASSUME NEW t \in Thread, NEW r \in Asks, Begin(t, r) PROVE Goal
  <2>1. PICK past \in SUBSET {s \in Session : sessions[s] # Absent} : Take(t, past)
    BY <1>1, Zenon DEF Begin
  <2>2. Taken(t, past)
    BY <2>1, Takes, Zenon
  <2>3. r \in GatewayRequest /\ asked' \in 0 .. MaxRequests
    BY <1>1, GatewayAssumption DEF Begin
  <2> QED BY <1>1, <2>2, <2>3, Zenon DEF Begin, Taken
<1>2. ASSUME NEW t \in Thread, CloseBegin(t) PROVE Goal
  <2>1. PICK e \in expired[t] : open' = [open EXCEPT ![t] = e] /\ Transition(e.id, "Stopping")
    BY <1>2, Zenon DEF CloseBegin
  <2>2. e \in OpenSession /\ e.id \in Session /\ "Stopping" \in SessionState
    BY DEF OpenSession, SessionState
  <2>3. records' \in [Session -> {Absent} \union SessionRecord]
    BY <1>c, <2>1, <2>2, Zenon
  <2> QED BY <1>2, <2>1, <2>2, <2>3 DEF CloseBegin
<1>3. ASSUME NEW t \in Thread, CloseListener(t) PROVE Goal
  BY <1>3, Zenon DEF CloseListener, callVars
<1>4. ASSUME NEW t \in Thread, CloseEnd(t) PROVE Goal
  <2>1. records' \in [Session -> {Absent} \union SessionRecord]
    BY <1>4, <1>b, <1>c, Zenon DEF CloseEnd, SessionState
  <2> QED BY <1>4, <1>b, <2>1, Zenon DEF CloseEnd
<1>5. ASSUME NEW t \in Thread, Answer(t) PROVE Goal
  BY <1>5, Zenon DEF Answer, Return, Drained
<1>6. ASSUME NEW t \in Thread, TakeClosed(t) PROVE Goal
  <2>1. CASE Return(t) /\ UNCHANGED sessions
    BY <1>6, <2>1, Zenon DEF TakeClosed
  <2>2. CASE ~(Return(t) /\ UNCHANGED sessions)
    <3>1. request[t].id \in Session /\ sessions[request[t].id] # Absent /\ Take(t, {request[t].id})
      BY <1>6, <2>2, Arguments, Zenon DEF TakeClosed, Drained, ThreadOpens
    <3>2. Taken(t, {request[t].id})
      BY <3>1, Takes, Zenon
    <3>3. /\ took' = [took EXCEPT ![t] = TRUE]
          /\ UNCHANGED <<at, request, open, waiter, asked, ledgerVars, resourceVars>>
      BY <1>6, <2>2, Zenon DEF TakeClosed
    <3> QED BY <3>2, <3>3, Zenon DEF Taken
  <2> QED BY <2>1, <2>2, Zenon
<1>7. ASSUME NEW t \in Thread, TakeTarget(t) PROVE Goal
  <2> DEFINE ss == {s \in Session : sessions[s] # Absent /\ sessions[s].target = request[t].target}
  <2>1. Take(t, ss)
    BY <1>7, Zenon DEF TakeTarget
  <2>2. Taken(t, ss)
    <3> HIDE DEF Goal
    <3> QED BY <2>1, Takes, Zenon
  <2> HIDE DEF ss
  <2> QED BY <1>7, <2>2, Zenon DEF TakeTarget, Taken
<1>8. ASSUME NEW t \in Thread, OpenReplay(t) PROVE Goal
  <2>1. PICK s \in Session : open' = [open EXCEPT ![t] = [id |-> s, real |-> FALSE]]
    BY <1>8, Zenon DEF OpenReplay, Same, Tracked
  <2>2. [id |-> s, real |-> FALSE] \in OpenSession
    BY Zenon DEF OpenSession
  <2> QED BY <1>8, <2>1, <2>2, Zenon DEF OpenReplay
<1>9. ASSUME NEW t \in Thread, OpenDenied(t) PROVE Goal
  <2>1. records' \in [Session -> {Absent} \union SessionRecord]
    BY <1>9, Collects DEF OpenDenied
  <2> QED BY <1>9, <2>1, Zenon DEF OpenDenied
<1>10. ASSUME NEW t \in Thread, OpenAccepted(t) PROVE Goal
  <2>1. PICK s \in Session : Admitted(t, s)
    BY <1>10, Admits, Zenon
  <2>2. Own(s) \in OpenSession
    BY Zenon DEF Own, OpenSession
  <2> QED BY <2>1, <2>2, Zenon DEF Admitted
<1>11. ASSUME NEW t \in Thread, Arm(t) PROVE Goal
  <2>1. records' \in [Session -> {Absent} \union SessionRecord]
    BY <1>11, <1>b, <1>c, Zenon DEF Arm, callVars, SessionState
  <2> QED BY <1>11, <1>b, <2>1 DEF Arm, callVars
<1>12. ASSUME NEW t \in Thread, SpawnAgent(t) PROVE Goal
  <2>1. records' \in [Session -> {Absent} \union SessionRecord]
    BY <1>12, <1>b, <1>c, Zenon DEF SpawnAgent, callVars, SessionState
  <2> QED BY <1>12, <1>b, <2>1 DEF SpawnAgent, callVars
<1>13. ASSUME NEW t \in Thread, Abandon(t) PROVE Goal
  BY <1>13, Zenon DEF Abandon, callVars
<1>14. ASSUME NEW t \in Thread, DriveAwaiting(t) PROVE Goal
  <2>1. records' \in [Session -> {Absent} \union SessionRecord]
    BY <1>14, <1>b, <1>c, Zenon DEF DriveAwaiting, Drive, callVars, SessionState
  <2> QED BY <1>14, <1>b, <2>1, Zenon DEF DriveAwaiting, Drive, callVars
<1>15. ASSUME NEW t \in Thread, AwaitCheck(t) PROVE Goal
  BY <1>15, Zenon DEF AwaitCheck, callVars, Verified
<1>16. ASSUME NEW t \in Thread, AwaitRegister(t) PROVE Goal
  BY <1>16, Zenon DEF AwaitRegister
<1>17. ASSUME NEW t \in Thread, AwaitWoken(t) PROVE Goal
  BY <1>17, Zenon DEF AwaitWoken, callVars
<1>18. ASSUME NEW t \in Thread, DriveRunning(t) PROVE Goal
  <2>1. records' \in [Session -> {Absent} \union SessionRecord]
    BY <1>18, <1>b, <1>c, Zenon DEF DriveRunning, Drive, callVars, SessionState
  <2> QED BY <1>18, <1>b, <2>1, Zenon DEF DriveRunning, Drive, callVars
<1>19. ASSUME NEW t \in Thread, Insert(t) PROVE Goal
  <2>1. request[t] \in GatewayRequest /\ request[t].verb = "Open" /\ open[t] \in OpenSession
    BY <1>19, <1>b, Zenon DEF Insert, ThreadOpens
  <2>2. [target |-> request[t].args.target, principal |-> request[t].args.principal,
         real |-> open[t].real] \in GatewayDisplaySession
    BY <2>1, Arguments, GatewayAssumption, Zenon DEF GatewayDisplaySession, OpenSession, Target
  <2>3. sessions' \in [Session -> {Absent} \union GatewayDisplaySession]
    BY <1>19, <2>1, <2>2, Zenon DEF Insert, OpenSession
  <2> QED BY <1>19, <2>3, Zenon DEF Insert
<1>20. ASSUME NEW t \in Thread, Fail(t) PROVE Goal
  <2>1. records' \in [Session -> {Absent} \union SessionRecord]
    BY <1>20, <1>b, <1>c, Zenon DEF Fail, Return, SessionState
  <2> QED BY <1>20, <1>b, <2>1, Zenon DEF Fail, Return
<1>21. ASSUME NEW s \in Session, Verify(s) PROVE Goal
  BY <1>21, Zenon DEF Verify, threadVars, callVars
<1>22. ASSUME NEW s \in Session, Notify(s) PROVE Goal
  BY <1>22, Zenon DEF Notify
<1> QED
  BY <1>1, <1>2, <1>3, <1>4, <1>5, <1>6, <1>7, <1>8, <1>9, <1>10, <1>11, <1>12, <1>13,
     <1>14, <1>15, <1>16, <1>17, <1>18, <1>19, <1>20, <1>21, <1>22, Zenon
  DEF GatewayNext, ThreadStep, CloseStep, OpenStep
-----------------------------------------------------------------------------
\* What distinguishes Own(s): its id, its handles, and that it is no Absent.
LEMMA OwnIsOwn ==
    /\ \A s \in Session : Own(s) \in OpenSession /\ Own(s) # Absent /\ Own(s).id = s /\ Own(s).real
    /\ \A s, u \in Session : Own(s) = Own(u) => s = u
    /\ \A s, u \in Session : Own(s) # [id |-> u, real |-> FALSE]
<1>1. \A s \in Session : Own(s) \in OpenSession /\ Own(s).id = s /\ Own(s).real = TRUE
  BY Zenon DEF Own, OpenSession
<1>2. \A u : [id |-> u, real |-> FALSE].real = FALSE
  BY Zenon
<1>3. Absent \notin OpenSession
  BY AbsentAssumption, Zenon
<1>4. \A s, u \in Session : Own(s) # [id |-> u, real |-> FALSE]
  BY <1>1, <1>2, Zenon
<1> QED BY <1>1, <1>3, <1>4, Zenon

\* A thread that returns holds nothing.
Returned(t) ==
    /\ \A s \in Session : ~Holds(t, s)'
    /\ \A u \in Thread \ {t} : at'[u] = at[u] /\ open'[u] = open[u] /\ expired'[u] = expired[u]
    /\ at'[t] = "idle" /\ open'[t] = Absent /\ expired'[t] = {}

LEMMA Returns ==
    ASSUME GatewayTypeOK, NEW t \in Thread, Return(t)
    PROVE  Returned(t)
BY OwnIsOwn DEF GatewayTypeOK, Return, Goto, Returned, Holds

\* Every step keeps the handles of a session in one place.
LEMMA HolderStep ==
    ASSUME GatewayInv, GatewayNext
    PROVE  OneHolder'
<1> DEFINE Goal == OneHolder'
<1>a. GatewayTypeOK /\ ThreadOpens /\ OneHolder /\ Fresh
  BY Zenon DEF GatewayInv
<1>b. ASSUME NEW t \in Thread, Return(t), UNCHANGED sessions PROVE Goal
  <2>1. Returned(t)
    BY <1>a, <1>b, Returns, Zenon
  <2> QED BY <1>a, <1>b, <2>1 DEF OneHolder, Returned, Holds, InTable
<1>c. ASSUME NEW t \in Thread, NEW ss \in SUBSET Session, \A s \in ss : sessions[s] # Absent,
             Take(t, ss), open[t] = Absent, UNCHANGED open
      PROVE  Goal
  <2>1. Taken(t, ss)
    BY <1>a, <1>c, Takes, Zenon
  <2>2. \A s \in Session : Holds(t, s)' => s \in ss /\ InTable(s)
    BY <1>c, <2>1, OwnIsOwn, Zenon DEF Taken, Holds, InTable
  <2>3. \A s \in Session, u \in Thread \ {t} : Holds(u, s)' <=> Holds(u, s)
    BY <1>c, <2>1, Zenon DEF Taken, Holds
  <2>4. \A s \in Session : InTable(s)' => InTable(s) /\ s \notin ss
    BY <2>1, Zenon DEF Taken, InTable
  <2>5. \A s \in Session, u \in Thread : ~(open[u] = Own(s) /\ Own(s) \in expired[u])'
    BY <1>a, <1>c, <2>1, OwnIsOwn, Zenon DEF Taken, OneHolder
  <2>6. \A s \in Session : \A u, v \in Thread : Holds(u, s)' /\ Holds(v, s)' => u = v
    BY <1>a, <2>2, <2>3, Zenon DEF OneHolder
  <2>7. \A s \in Session : InTable(s)' => \A u \in Thread : ~Holds(u, s)'
    BY <1>a, <2>2, <2>3, <2>4 DEF OneHolder
  <2> QED BY <2>5, <2>6, <2>7, Zenon DEF OneHolder, Holds, InTable
<1>d. ASSUME UNCHANGED <<sessions, open, expired>> PROVE Goal
  BY <1>a, <1>d, Zenon DEF OneHolder, Holds, InTable
<1>1. ASSUME NEW t \in Thread, NEW r \in Asks, Begin(t, r) PROVE Goal
  <2>1. PICK past \in SUBSET {s \in Session : sessions[s] # Absent} : Take(t, past)
    BY <1>1, Zenon DEF Begin
  <2> QED BY <1>1, <1>a, <1>c, <2>1, Zenon DEF Begin, ThreadOpens
<1>2. ASSUME NEW t \in Thread, CloseBegin(t) PROVE Goal
  <2>1. PICK e \in expired[t] : /\ open' = [open EXCEPT ![t] = e]
                                /\ expired' = [expired EXCEPT ![t] = expired[t] \ {e}]
    BY <1>2, Zenon DEF CloseBegin
  <2>2. open[t] = Absent /\ UNCHANGED sessions
    BY <1>2, <1>a, Zenon DEF CloseBegin, ThreadOpens
  <2>3. \A s \in Session, u \in Thread : Holds(u, s)' <=> Holds(u, s)
    BY <1>a, <2>1, <2>2, OwnIsOwn DEF GatewayTypeOK, Holds
  <2>4. \A s \in Session, u \in Thread : ~(open[u] = Own(s) /\ Own(s) \in expired[u])'
    BY <1>a, <2>1, Zenon DEF GatewayTypeOK, OneHolder
  <2> QED BY <1>a, <2>2, <2>3, <2>4, Zenon DEF OneHolder, Holds, InTable
<1>3. ASSUME NEW t \in Thread, CloseListener(t) PROVE Goal
  BY <1>3, <1>d, Zenon DEF CloseListener, callVars, threadVars
<1>4. ASSUME NEW t \in Thread, CloseEnd(t) PROVE Goal
  <2>1. open' = [open EXCEPT ![t] = Absent] /\ UNCHANGED <<sessions, expired>>
    BY <1>4, Zenon DEF CloseEnd
  <2>2. \A s \in Session, u \in Thread : open'[u] = Own(s) => open[u] = Own(s)
    BY <1>a, <2>1, OwnIsOwn, Zenon DEF GatewayTypeOK
  <2> QED BY <1>a, <2>1, <2>2, Zenon DEF OneHolder, Holds, InTable
<1>5. ASSUME NEW t \in Thread, Answer(t) PROVE Goal
  BY <1>5, <1>b, Zenon DEF Answer
<1>6. ASSUME NEW t \in Thread, TakeClosed(t) PROVE Goal
  <2>1. CASE Return(t) /\ UNCHANGED sessions
    BY <1>b, <2>1, Zenon
  <2>2. CASE ~(Return(t) /\ UNCHANGED sessions)
    <3>1. request[t].id \in Session /\ sessions[request[t].id] # Absent /\ Take(t, {request[t].id})
      BY <1>6, <1>a, <2>2, Arguments, Zenon DEF TakeClosed, Drained, ThreadOpens, GatewayTypeOK
    <3>2. open[t] = Absent /\ UNCHANGED open
      BY <1>6, <1>a, <2>2, Zenon DEF TakeClosed, Drained, ThreadOpens
    <3> QED BY <1>c, <3>1, <3>2, Zenon
  <2> QED BY <2>1, <2>2, Zenon
<1>7. ASSUME NEW t \in Thread, TakeTarget(t) PROVE Goal
  <2> DEFINE ss == {s \in Session : sessions[s] # Absent /\ sessions[s].target = request[t].target}
  <2>1. Take(t, ss) /\ open[t] = Absent /\ UNCHANGED open
    BY <1>7, <1>a, Zenon DEF TakeTarget, Drained, ThreadOpens
  <2>2. ss \in SUBSET Session /\ \A s \in ss : sessions[s] # Absent
    BY Zenon
  <2> HIDE DEF ss, Goal
  <2> QED BY <1>c, <2>1, <2>2, Zenon
<1>8. ASSUME NEW t \in Thread, OpenReplay(t) PROVE Goal
  <2>1. PICK s \in Session : open' = [open EXCEPT ![t] = [id |-> s, real |-> FALSE]]
    BY <1>8, Zenon DEF OpenReplay, Same, Tracked
  <2>2. UNCHANGED <<sessions, expired>>
    BY <1>8, Zenon DEF OpenReplay
  <2>3. \A r \in Session, u \in Thread : open'[u] = Own(r) => open[u] = Own(r)
    BY <1>a, <2>1, OwnIsOwn, Zenon DEF GatewayTypeOK
  <2> QED BY <1>a, <2>2, <2>3, Zenon DEF OneHolder, Holds, InTable
<1>9. ASSUME NEW t \in Thread, OpenDenied(t) PROVE Goal
  BY <1>9, <1>b, Zenon DEF OpenDenied
<1>10. ASSUME NEW t \in Thread, OpenAccepted(t) PROVE Goal
  <2>1. PICK s \in Session : Admitted(t, s)
    BY <1>10, <1>a, Admits, Zenon
  <2>2. s \notin issued /\ open' = [open EXCEPT ![t] = Own(s)] /\ UNCHANGED <<sessions, expired>>
    BY <2>1, Zenon DEF Admitted
  <2>3. ~InTable(s) /\ \A u \in Thread : ~Holds(u, s)
    BY <1>a, <2>2, OwnIsOwn DEF Fresh, InTable, Holds
  <2>4. \A r \in Session, u \in Thread : open'[u] = Own(r) => open[u] = Own(r) \/ (r = s /\ u = t)
    BY <1>a, <2>2, OwnIsOwn, Zenon DEF GatewayTypeOK
  <2> QED BY <1>a, <2>2, <2>3, <2>4 DEF OneHolder, Holds, InTable
<1>11. ASSUME NEW t \in Thread, Arm(t) PROVE Goal
  BY <1>11, <1>d, Zenon DEF Arm, callVars, threadVars
<1>12. ASSUME NEW t \in Thread, SpawnAgent(t) PROVE Goal
  BY <1>12, <1>d, Zenon DEF SpawnAgent, callVars, threadVars
<1>13. ASSUME NEW t \in Thread, Abandon(t) PROVE Goal
  BY <1>13, <1>d, Zenon DEF Abandon, callVars, threadVars
<1>14. ASSUME NEW t \in Thread, DriveAwaiting(t) PROVE Goal
  BY <1>14, <1>d, Zenon DEF DriveAwaiting, Drive, callVars, threadVars
<1>15. ASSUME NEW t \in Thread, AwaitCheck(t) PROVE Goal
  BY <1>15, <1>d, Zenon DEF AwaitCheck, callVars, threadVars
<1>16. ASSUME NEW t \in Thread, AwaitRegister(t) PROVE Goal
  BY <1>16, <1>d, Zenon DEF AwaitRegister, callVars, threadVars
<1>17. ASSUME NEW t \in Thread, AwaitWoken(t) PROVE Goal
  BY <1>17, <1>d, Zenon DEF AwaitWoken, callVars, threadVars
<1>18. ASSUME NEW t \in Thread, DriveRunning(t) PROVE Goal
  BY <1>18, <1>d, Zenon DEF DriveRunning, Drive, callVars, threadVars
<1>19. ASSUME NEW t \in Thread, Insert(t) PROVE Goal
  <2>1. Returned(t)
    BY <1>19, <1>a, Returns, Zenon DEF Insert
  <2>2. open[t] \in OpenSession /\ open[t].id \in Session
    BY <1>19, <1>a, HasOpen, Zenon DEF Insert
  <2>3. \A s \in Session : InTable(s)' => InTable(s) \/ open[t] = Own(s)
    BY <1>19, <1>a, <2>2, Zenon DEF Insert, InTable, GatewayTypeOK, Own, OpenSession
  <2>4. \A s \in Session, u \in Thread : Holds(u, s)' => u # t /\ Holds(u, s)
    BY <2>1, Zenon DEF Returned, Holds
  <2>5. \A s \in Session, u \in Thread : ~(open[u] = Own(s) /\ Own(s) \in expired[u])'
    BY <1>a, <2>1, Zenon DEF Returned, OneHolder, Holds
  <2>6. \A s \in Session : InTable(s)' => \A u \in Thread : ~Holds(u, s)'
    BY <1>a, <2>3, <2>4, Zenon DEF OneHolder, Holds
  <2> QED BY <1>a, <2>4, <2>5, <2>6, Zenon DEF OneHolder, Holds, InTable
<1>20. ASSUME NEW t \in Thread, Fail(t) PROVE Goal
  BY <1>20, <1>b, Zenon DEF Fail
<1>21. ASSUME NEW s \in Session, Verify(s) PROVE Goal
  BY <1>21, <1>d, Zenon DEF Verify, callVars, threadVars
<1>22. ASSUME NEW s \in Session, Notify(s) PROVE Goal
  BY <1>22, <1>d, Zenon DEF Notify, callVars, threadVars
<1> QED
  BY <1>1, <1>2, <1>3, <1>4, <1>5, <1>6, <1>7, <1>8, <1>9, <1>10, <1>11, <1>12, <1>13,
     <1>14, <1>15, <1>16, <1>17, <1>18, <1>19, <1>20, <1>21, <1>22, Zenon
  DEF GatewayNext, ThreadStep, CloseStep, OpenStep
-----------------------------------------------------------------------------
\* Every step keeps ids that were not issued unknown.
LEMMA FreshStep ==
    ASSUME GatewayInv, GatewayNext
    PROVE  Fresh'
<1> DEFINE Goal == Fresh'
<1>a. GatewayTypeOK /\ ThreadOpens /\ Fresh
  BY Zenon DEF GatewayInv
<1>b. \A t \in Thread : at[t] \notin {"idle", "next"} =>
        open[t] \in OpenSession /\ open[t].id \in Session /\ open[t].id \in issued
  BY <1>a, HasOpen, AbsentAssumption, Zenon DEF Fresh
<1>c. ASSUME NEW s \in Session, NEW next \in SessionState, Transition(s, next)
      PROVE  \A u \in Session \ issued : records'[u] = Absent
  BY <1>a, <1>c, Moves, Zenon DEF Moved, Legal, Fresh
<1>d. ASSUME NEW t \in Thread, NEW ss \in SUBSET Session, \A s \in ss : sessions[s] # Absent,
             Take(t, ss), UNCHANGED <<issued, records, listener, agent, handshake, open>>
      PROVE  Goal
  <2>1. Taken(t, ss)
    BY <1>a, <1>d, Takes, Zenon
  <2>2. \A e \in expired'[t] : e.id \in ss
    BY <1>a, <1>d DEF Take, GatewayTypeOK
  <2>3. \A s \in Session \ issued : s \notin ss
    BY <1>a, <1>d, Zenon DEF Fresh
  <2> QED BY <1>a, <1>d, <2>1, <2>2, <2>3 DEF Fresh, Taken
<1>e. ASSUME NEW t \in Thread, Return(t),
             UNCHANGED <<issued, sessions, listener, agent, handshake>>,
             \A s \in Session \ issued : records'[s] = Absent
      PROVE  Goal
  <2>1. Returned(t)
    BY <1>a, <1>e, Returns, Zenon
  <2> QED BY <1>a, <1>e, <2>1 DEF Fresh, Returned
<1>f. ASSUME UNCHANGED <<issued, sessions, open, expired>>,
             \A s \in Session \ issued :
                records'[s] = Absent /\ listener'[s] = "none" /\ agent'[s] = "none" /\ handshake'[s] = "none"
      PROVE  Goal
  BY <1>a, <1>f, Zenon DEF Fresh
<1>1. ASSUME NEW t \in Thread, NEW r \in Asks, Begin(t, r) PROVE Goal
  <2>1. PICK past \in SUBSET {s \in Session : sessions[s] # Absent} : Take(t, past)
    BY <1>1, Zenon DEF Begin
  <2> QED BY <1>1, <1>d, <2>1, Zenon DEF Begin, ledgerVars, resourceVars
<1>2. ASSUME NEW t \in Thread, CloseBegin(t) PROVE Goal
  <2>1. PICK e \in expired[t] : /\ open' = [open EXCEPT ![t] = e]
                                /\ expired' = [expired EXCEPT ![t] = expired[t] \ {e}]
                                /\ Transition(e.id, "Stopping")
    BY <1>2, Zenon DEF CloseBegin
  <2>2. e.id \in Session
    BY <1>a DEF GatewayTypeOK, OpenSession
  <2>3. \A s \in Session \ issued : records'[s] = Absent
    BY <1>c, <2>1, <2>2, Zenon DEF SessionState
  <2>4. \A s \in Session \ issued, u \in Thread :
            (open'[u] # Absent => open'[u].id # s) /\ \A x \in expired'[u] : x.id # s
    BY <1>a, <2>1 DEF GatewayTypeOK, Fresh
  <2> QED BY <1>2, <1>a, <2>3, <2>4, Zenon DEF CloseBegin, resourceVars, Fresh
<1>3. ASSUME NEW t \in Thread, CloseListener(t) PROVE Goal
  <2>1. UNCHANGED <<issued, sessions, open, expired>>
    BY <1>3, Zenon DEF CloseListener, Drive, ledgerVars, callVars, threadVars
  <2>2. \A r \in Session \ issued : records'[r] = Absent
    BY <1>3, <1>a, <1>b, <1>c, Zenon DEF CloseListener, Drive, ledgerVars, SessionState, Fresh
  <2>3. \A r \in Session \ issued : listener'[r] = "none" /\ agent'[r] = "none" /\ handshake'[r] = "none"
    BY <1>3, <1>a, <1>b DEF CloseListener, Drive, resourceVars, GatewayTypeOK, Fresh
  <2> QED BY <1>f, <2>1, <2>2, <2>3, Zenon
<1>4. ASSUME NEW t \in Thread, CloseEnd(t) PROVE Goal
  <2>1. \A s \in Session \ issued : records'[s] = Absent
    BY <1>4, <1>b, <1>c, Zenon DEF CloseEnd, SessionState
  <2>2. \A s \in Session \ issued : agent'[s] = "none"
    BY <1>4, <1>a, <1>b DEF CloseEnd, GatewayTypeOK, Fresh
  <2>3. \A s \in Session \ issued, u \in Thread : open'[u] # Absent => open'[u].id # s
    BY <1>4, <1>a DEF CloseEnd, GatewayTypeOK, Fresh
  <2> QED BY <1>4, <1>a, <2>1, <2>2, <2>3 DEF CloseEnd, Fresh
<1>5. ASSUME NEW t \in Thread, Answer(t) PROVE Goal
  <2>1. \A s \in Session \ issued : records'[s] = Absent
    BY <1>5, <1>a, Zenon DEF Answer, ledgerVars, Fresh
  <2> QED BY <1>5, <1>e, <2>1, Zenon DEF Answer, ledgerVars, resourceVars
<1>6. ASSUME NEW t \in Thread, TakeClosed(t) PROVE Goal
  <2>1. CASE Return(t) /\ UNCHANGED sessions
    BY <1>6, <1>a, <1>e, <2>1, Zenon DEF TakeClosed, ledgerVars, resourceVars, Fresh
  <2>2. CASE ~(Return(t) /\ UNCHANGED sessions)
    <3>1. request[t].id \in Session /\ sessions[request[t].id] # Absent /\ Take(t, {request[t].id})
      BY <1>6, <1>a, <2>2, Arguments, Zenon DEF TakeClosed, Drained, ThreadOpens, GatewayTypeOK
    <3>2. UNCHANGED <<issued, records, listener, agent, handshake, open>>
      BY <1>6, <2>2, Zenon DEF TakeClosed, ledgerVars, resourceVars
    <3> QED BY <1>d, <3>1, <3>2, Zenon
  <2> QED BY <2>1, <2>2, Zenon
<1>7. ASSUME NEW t \in Thread, TakeTarget(t) PROVE Goal
  <2> DEFINE ss == {s \in Session : sessions[s] # Absent /\ sessions[s].target = request[t].target}
  <2>1. Take(t, ss) /\ UNCHANGED <<issued, records, listener, agent, handshake, open>>
    BY <1>7, Zenon DEF TakeTarget, ledgerVars, resourceVars
  <2>2. ss \in SUBSET Session /\ \A s \in ss : sessions[s] # Absent
    BY Zenon
  <2> HIDE DEF ss, Goal
  <2> QED BY <1>d, <2>1, <2>2, Zenon
<1>8. ASSUME NEW t \in Thread, OpenReplay(t) PROVE Goal
  <2>1. PICK s \in Session : records[s] # Absent /\ open' = [open EXCEPT ![t] = [id |-> s, real |-> FALSE]]
    BY <1>8, Zenon DEF OpenReplay, Same, Tracked
  <2>2. \A r \in Session \ issued, u \in Thread : open'[u] # Absent => open'[u].id # r
    BY <1>a, <2>1 DEF GatewayTypeOK, Fresh
  <2> QED BY <1>8, <1>a, <2>2, Zenon DEF OpenReplay, ledgerVars, resourceVars, Fresh
<1>9. ASSUME NEW t \in Thread, OpenDenied(t) PROVE Goal
  <2>1. \A s \in Session \ issued : records'[s] = Absent
    BY <1>9, <1>a, Collects, Zenon DEF OpenDenied, Fresh
  <2> QED BY <1>9, <1>e, <2>1, Zenon DEF OpenDenied, ledgerVars, resourceVars
<1>10. ASSUME NEW t \in Thread, OpenAccepted(t) PROVE Goal
  <2>1. PICK s \in Session : Admitted(t, s)
    BY <1>10, <1>a, Admits, Zenon
  <2>2. \A r \in Session \ issued, u \in Thread : r # s /\ open'[u] # Absent => open'[u].id # r
    BY <1>a, <2>1, OwnIsOwn DEF Admitted, GatewayTypeOK, Fresh
  <2>3. \A r \in Session \ issued : r # s => records'[r] = Absent
    BY <1>a, <2>1, Collects DEF Admitted, Fresh
  <2> QED BY <1>a, <2>1, <2>2, <2>3 DEF Admitted, Fresh
<1>11. ASSUME NEW t \in Thread, Arm(t) PROVE Goal
  <2>1. UNCHANGED <<issued, sessions, open, expired>>
    BY <1>11, Zenon DEF Arm, Drive, ledgerVars, callVars, threadVars
  <2>2. \A r \in Session \ issued : records'[r] = Absent
    BY <1>11, <1>a, <1>b, <1>c, Zenon DEF Arm, Drive, ledgerVars, SessionState, Fresh
  <2>3. \A r \in Session \ issued : listener'[r] = "none" /\ agent'[r] = "none" /\ handshake'[r] = "none"
    BY <1>11, <1>a, <1>b DEF Arm, Drive, resourceVars, GatewayTypeOK, Fresh
  <2> QED BY <1>f, <2>1, <2>2, <2>3, Zenon
<1>12. ASSUME NEW t \in Thread, SpawnAgent(t) PROVE Goal
  <2>1. UNCHANGED <<issued, sessions, open, expired>>
    BY <1>12, Zenon DEF SpawnAgent, Drive, ledgerVars, callVars, threadVars
  <2>2. \A r \in Session \ issued : records'[r] = Absent
    BY <1>12, <1>a, <1>b, <1>c, Zenon DEF SpawnAgent, Drive, ledgerVars, SessionState, Fresh
  <2>3. \A r \in Session \ issued : listener'[r] = "none" /\ agent'[r] = "none" /\ handshake'[r] = "none"
    BY <1>12, <1>a, <1>b DEF SpawnAgent, Drive, resourceVars, GatewayTypeOK, Fresh
  <2> QED BY <1>f, <2>1, <2>2, <2>3, Zenon
<1>13. ASSUME NEW t \in Thread, Abandon(t) PROVE Goal
  <2>1. UNCHANGED <<issued, sessions, open, expired>>
    BY <1>13, Zenon DEF Abandon, Drive, ledgerVars, callVars, threadVars
  <2>2. \A r \in Session \ issued : records'[r] = Absent
    BY <1>13, <1>a, <1>b, <1>c, Zenon DEF Abandon, Drive, ledgerVars, SessionState, Fresh
  <2>3. \A r \in Session \ issued : listener'[r] = "none" /\ agent'[r] = "none" /\ handshake'[r] = "none"
    BY <1>13, <1>a, <1>b DEF Abandon, Drive, resourceVars, GatewayTypeOK, Fresh
  <2> QED BY <1>f, <2>1, <2>2, <2>3, Zenon
<1>14. ASSUME NEW t \in Thread, DriveAwaiting(t) PROVE Goal
  <2>1. UNCHANGED <<issued, sessions, open, expired>>
    BY <1>14, Zenon DEF DriveAwaiting, Drive, ledgerVars, callVars, threadVars
  <2>2. \A r \in Session \ issued : records'[r] = Absent
    BY <1>14, <1>a, <1>b, <1>c, Zenon DEF DriveAwaiting, Drive, ledgerVars, SessionState, Fresh
  <2>3. \A r \in Session \ issued : listener'[r] = "none" /\ agent'[r] = "none" /\ handshake'[r] = "none"
    BY <1>14, <1>a, <1>b, Zenon DEF DriveAwaiting, Drive, resourceVars, GatewayTypeOK, Fresh
  <2> QED BY <1>f, <2>1, <2>2, <2>3, Zenon
<1>15. ASSUME NEW t \in Thread, AwaitCheck(t) PROVE Goal
  <2>1. UNCHANGED <<issued, sessions, open, expired>>
    BY <1>15, Zenon DEF AwaitCheck, Drive, ledgerVars, callVars, threadVars
  <2>2. \A r \in Session \ issued : records'[r] = Absent
    BY <1>15, <1>a, <1>b, <1>c, Zenon DEF AwaitCheck, Drive, ledgerVars, SessionState, Fresh
  <2>3. \A r \in Session \ issued : listener'[r] = "none" /\ agent'[r] = "none" /\ handshake'[r] = "none"
    BY <1>15, <1>a, <1>b, Zenon DEF AwaitCheck, Drive, resourceVars, GatewayTypeOK, Fresh
  <2> QED BY <1>f, <2>1, <2>2, <2>3, Zenon
<1>16. ASSUME NEW t \in Thread, AwaitRegister(t) PROVE Goal
  <2>1. UNCHANGED <<issued, sessions, open, expired>>
    BY <1>16, Zenon DEF AwaitRegister, Drive, ledgerVars, callVars, threadVars
  <2>2. \A r \in Session \ issued : records'[r] = Absent
    BY <1>16, <1>a, <1>b, <1>c, Zenon DEF AwaitRegister, Drive, ledgerVars, SessionState, Fresh
  <2>3. \A r \in Session \ issued : listener'[r] = "none" /\ agent'[r] = "none" /\ handshake'[r] = "none"
    BY <1>16, <1>a, <1>b, Zenon DEF AwaitRegister, Drive, resourceVars, GatewayTypeOK, Fresh
  <2> QED BY <1>f, <2>1, <2>2, <2>3, Zenon
<1>17. ASSUME NEW t \in Thread, AwaitWoken(t) PROVE Goal
  <2>1. UNCHANGED <<issued, sessions, open, expired>>
    BY <1>17, Zenon DEF AwaitWoken, Drive, ledgerVars, callVars, threadVars
  <2>2. \A r \in Session \ issued : records'[r] = Absent
    BY <1>17, <1>a, <1>b, <1>c, Zenon DEF AwaitWoken, Drive, ledgerVars, SessionState, Fresh
  <2>3. \A r \in Session \ issued : listener'[r] = "none" /\ agent'[r] = "none" /\ handshake'[r] = "none"
    BY <1>17, <1>a, <1>b, Zenon DEF AwaitWoken, Drive, resourceVars, GatewayTypeOK, Fresh
  <2> QED BY <1>f, <2>1, <2>2, <2>3, Zenon
<1>18. ASSUME NEW t \in Thread, DriveRunning(t) PROVE Goal
  <2>1. UNCHANGED <<issued, sessions, open, expired>>
    BY <1>18, Zenon DEF DriveRunning, Drive, ledgerVars, callVars, threadVars
  <2>2. \A r \in Session \ issued : records'[r] = Absent
    BY <1>18, <1>a, <1>b, <1>c, Zenon DEF DriveRunning, Drive, ledgerVars, SessionState, Fresh
  <2>3. \A r \in Session \ issued : listener'[r] = "none" /\ agent'[r] = "none" /\ handshake'[r] = "none"
    BY <1>18, <1>a, <1>b, Zenon DEF DriveRunning, Drive, resourceVars, GatewayTypeOK, Fresh
  <2> QED BY <1>f, <2>1, <2>2, <2>3, Zenon
<1>19. ASSUME NEW t \in Thread, Insert(t) PROVE Goal
  <2>1. Returned(t)
    BY <1>19, <1>a, Returns, Zenon DEF Insert
  <2>2. \A s \in Session \ issued : sessions'[s] = Absent
    BY <1>19, <1>a, <1>b DEF Insert, GatewayTypeOK, Fresh
  <2> QED BY <1>19, <1>a, <2>1, <2>2 DEF Insert, ledgerVars, resourceVars, Fresh, Returned
<1>20. ASSUME NEW t \in Thread, Fail(t) PROVE Goal
  <2>1. \A s \in Session \ issued : records'[s] = Absent
    BY <1>20, <1>b, <1>c, Zenon DEF Fail, SessionState
  <2> QED BY <1>20, <1>e, <2>1, Zenon DEF Fail, ledgerVars, resourceVars
<1>21. ASSUME NEW s \in Session, Verify(s) PROVE Goal
  <2>1. UNCHANGED <<issued, sessions, open, expired>>
    BY <1>21, Zenon DEF Verify, Drive, ledgerVars, callVars, threadVars
  <2>2. \A r \in Session \ issued : records'[r] = Absent
    BY <1>21, <1>a, <1>b, <1>c, Zenon DEF Verify, Drive, ledgerVars, SessionState, Fresh
  <2>3. \A r \in Session \ issued : listener'[r] = "none" /\ agent'[r] = "none" /\ handshake'[r] = "none"
    BY <1>21, <1>a, <1>b, Zenon DEF Verify, Drive, resourceVars, GatewayTypeOK, Fresh
  <2> QED BY <1>f, <2>1, <2>2, <2>3, Zenon
<1>22. ASSUME NEW s \in Session, Notify(s) PROVE Goal
  <2>1. UNCHANGED <<issued, sessions, open, expired>>
    BY <1>22, Zenon DEF Notify, Drive, ledgerVars, callVars, threadVars
  <2>2. \A r \in Session \ issued : records'[r] = Absent
    BY <1>22, <1>a, <1>b, <1>c, Zenon DEF Notify, Drive, ledgerVars, SessionState, Fresh
  <2>3. \A r \in Session \ issued : listener'[r] = "none" /\ agent'[r] = "none" /\ handshake'[r] = "none"
    BY <1>22, <1>a, <1>b, Zenon DEF Notify, Drive, resourceVars, GatewayTypeOK, Fresh
  <2> QED BY <1>f, <2>1, <2>2, <2>3, Zenon
<1> QED
  BY <1>1, <1>2, <1>3, <1>4, <1>5, <1>6, <1>7, <1>8, <1>9, <1>10, <1>11, <1>12, <1>13,
     <1>14, <1>15, <1>16, <1>17, <1>18, <1>19, <1>20, <1>21, <1>22, Zenon
  DEF GatewayNext, ThreadStep, CloseStep, OpenStep
-----------------------------------------------------------------------------
\* Every step keeps what a thread has at each place.
LEMMA OpensStep ==
    ASSUME GatewayInv, GatewayNext
    PROVE  ThreadOpens'
<1> DEFINE Goal == ThreadOpens'
<1>a. GatewayTypeOK /\ ThreadOpens /\ Absent \notin OpenSession
  BY AbsentAssumption, Zenon DEF GatewayInv
<1>b. \A t \in Thread : at[t] \notin {"idle", "next"} => open[t] \in OpenSession /\ open[t].id \in Session
  BY <1>a, HasOpen, Zenon
<1>c. ASSUME NEW t \in Thread, Return(t), UNCHANGED handshake PROVE Goal
  BY <1>a, <1>c DEF GatewayTypeOK, ThreadOpens, Return, Goto, Driving
<1> USE <1>a DEF GatewayTypeOK, ThreadOpens, Driving, Goto, resourceVars, callVars, threadVars
<1>1. ASSUME NEW t \in Thread, NEW r \in Asks, Begin(t, r) PROVE Goal
  <2>1. Absent # r
    BY AbsentAssumption, GatewayAssumption
  <2> QED BY <1>1, <2>1 DEF Begin
<1>2. ASSUME NEW t \in Thread, CloseBegin(t) PROVE Goal
  <2>1. PICK e \in expired[t] : open' = [open EXCEPT ![t] = e]
    BY <1>2, Zenon DEF CloseBegin
  <2>2. e # Absent
    OBVIOUS
  <2> QED BY <1>2, <2>1, <2>2 DEF CloseBegin
<1>3. ASSUME NEW t \in Thread, CloseListener(t) PROVE Goal
  BY <1>3 DEF CloseListener
<1>4. ASSUME NEW t \in Thread, CloseEnd(t) PROVE Goal
  BY <1>4 DEF CloseEnd
<1>5. ASSUME NEW t \in Thread, Answer(t) PROVE Goal
  BY <1>5, <1>c, Zenon DEF Answer
<1>6. ASSUME NEW t \in Thread, TakeClosed(t) PROVE Goal
  <2>1. CASE Return(t)
    BY <1>6, <1>c, <2>1, Zenon DEF TakeClosed
  <2>2. CASE ~Return(t)
    <3>1. UNCHANGED <<at, request, open, waiter, handshake>>
      BY <1>6, <2>2, Zenon DEF TakeClosed
    <3> QED BY <3>1, Zenon
  <2> QED BY <2>1, <2>2, Zenon
<1>7. ASSUME NEW t \in Thread, TakeTarget(t) PROVE Goal
  BY <1>7, Zenon DEF TakeTarget
<1>8. ASSUME NEW t \in Thread, OpenReplay(t) PROVE Goal
  <2>1. PICK s \in Session : open' = [open EXCEPT ![t] = [id |-> s, real |-> FALSE]]
    BY <1>8, Zenon DEF OpenReplay, Same, Tracked
  <2>2. [id |-> s, real |-> FALSE] # Absent
    <3>1. [id |-> s, real |-> FALSE] \in OpenSession
      BY Zenon DEF OpenSession
    <3> QED BY <3>1, Zenon
  <2> QED BY <1>8, <2>1, <2>2 DEF OpenReplay, Opening, Drained
<1>9. ASSUME NEW t \in Thread, OpenDenied(t) PROVE Goal
  BY <1>9, <1>c, Zenon DEF OpenDenied
<1>10. ASSUME NEW t \in Thread, OpenAccepted(t) PROVE Goal
  <2>1. PICK s \in Session : Admitted(t, s)
    BY <1>10, Admits, Zenon
  <2> QED BY <2>1, OwnIsOwn DEF Admitted
<1>11. ASSUME NEW t \in Thread, Arm(t) PROVE Goal
  BY <1>11 DEF Arm
<1>12. ASSUME NEW t \in Thread, SpawnAgent(t) PROVE Goal
  BY <1>12 DEF SpawnAgent
<1>13. ASSUME NEW t \in Thread, Abandon(t) PROVE Goal
  BY <1>13 DEF Abandon
<1>14. ASSUME NEW t \in Thread, DriveAwaiting(t) PROVE Goal
  BY <1>14 DEF DriveAwaiting, Drive
<1>15. ASSUME NEW t \in Thread, AwaitCheck(t) PROVE Goal
  BY <1>15 DEF AwaitCheck
<1>16. ASSUME NEW t \in Thread, AwaitRegister(t) PROVE Goal
  BY <1>16 DEF AwaitRegister
<1>17. ASSUME NEW t \in Thread, AwaitWoken(t) PROVE Goal
  BY <1>17 DEF AwaitWoken
<1>18. ASSUME NEW t \in Thread, DriveRunning(t) PROVE Goal
  BY <1>18 DEF DriveRunning, Drive
<1>19. ASSUME NEW t \in Thread, Insert(t) PROVE Goal
  BY <1>19, <1>c, Zenon DEF Insert
<1>20. ASSUME NEW t \in Thread, Fail(t) PROVE Goal
  BY <1>20, <1>c, Zenon DEF Fail
<1>21. ASSUME NEW s \in Session, Verify(s) PROVE Goal
  BY <1>21, <1>b DEF Verify
<1>22. ASSUME NEW s \in Session, Notify(s) PROVE Goal
  BY <1>22, <1>b DEF Notify
<1> QED
  BY <1>1, <1>2, <1>3, <1>4, <1>5, <1>6, <1>7, <1>8, <1>9, <1>10, <1>11, <1>12, <1>13,
     <1>14, <1>15, <1>16, <1>17, <1>18, <1>19, <1>20, <1>21, <1>22, Zenon
  DEF GatewayNext, ThreadStep, CloseStep, OpenStep
-----------------------------------------------------------------------------
\* What the two invariants about the ledger's word say of one session.
Sound(s) ==
    /\ records[s] # Absent /\ records[s].state = "Running" => Served(s) /\ handshake[s] # "none"
    /\ records[s] # Absent /\ records[s].state = "Failed" => Released(s)

\* A step that, for s, at most ends its record or advances its handshake.
Kept(s) ==
    /\ records'[s] = records[s] \/ Ended(s)'
    /\ listener'[s] = listener[s] /\ agent'[s] = agent[s]
    /\ handshake[s] # "none" => handshake'[s] # "none"

LEMMA Keeps ==
    ASSUME NEW s \in Session, Kept(s)
    PROVE  /\ \A step : Reached(s, step) => Reached(s, step)'
           /\ Sound(s) => Sound(s)'
BY DEF Kept, Reached, In, Ended, Armed, Served, Released, Sound

\* A record that has ended stays ended, and the moves of a close end it.
LEMMA Ending ==
    ASSUME GatewayTypeOK, NEW s \in Session, NEW next \in SessionState, Transition(s, next)
    PROVE  /\ \A u \in Session : Ended(u) => Ended(u)'
           /\ next \in {"Stopping", "Closed"} => \A u \in Session : records'[u] = records[u] \/ Ended(u)'
           /\ next = "Stopping" /\ In(s, {"Running"}) => Ended(s)'
<1>1. Moved(s, next)
  BY Moves, Zenon
<1>2. \A u \in Session : records[u] # Absent => records[u].state \in SessionState
  BY Zenon DEF GatewayTypeOK, SessionRecord
<1>3. \A u \in Session : Ended(u) /\ Legal(u, next) => next = "Closed"
  BY <1>2, Zenon DEF Ended, Legal, can_transition
<1>4. In(s, {"Running"}) /\ next = "Stopping" => Ended(s) \/ Legal(s, next)
  BY <1>2, TransitionTable, Zenon DEF In, Ended, Legal
<1> QED BY <1>1, <1>3, <1>4, Zenon DEF Moved, Ended

\* What is left to show of a step of t: the sessions it changes are its own.
Accounted(t) ==
    /\ \A u \in Thread \ {t} : open'[u] = open[u] /\ expired'[u] = expired[u] /\ at'[u] = at[u]
    /\ \A s \in Session : Kept(s) \/ (Sound(s)' /\ \A u \in Thread \ {t} : ~Holds(u, s))
    /\ \A s \in Session : open'[t] = Own(s) => Reached(s, at[t])'
    /\ \A s \in Session : Own(s) \in expired'[t] => Reached(s, "insert")'
    /\ \A s \in Session : InTable(s)' => Reached(s, "insert")'

LEMMA ProgressFrom ==
    ASSUME GatewayInv, NEW t \in Thread, Accounted(t)
    PROVE  Progress' /\ RunningIsServed' /\ FailedIsReleased'
<1>1. \A s \in Session : Sound(s)
  BY Zenon DEF GatewayInv, RunningIsServed, FailedIsReleased, Sound, Tracked, Served, Released
<1>2. \A s \in Session : Sound(s)'
  BY <1>1, Keeps, Zenon DEF Accounted
<1>3. ASSUME NEW s \in Session, NEW u \in Thread, open'[u] = Own(s) PROVE Reached(s, at[u])'
  <2>1. CASE u = t
    BY <1>3, <2>1, Zenon DEF Accounted
  <2>2. CASE u # t
    <3>1. open[u] = Own(s) /\ at'[u] = at[u] /\ Kept(s)
      BY <1>3, <2>2, Zenon DEF Accounted, Holds
    <3>2. Reached(s, at[u])
      BY <3>1, Zenon DEF GatewayInv, Progress
    <3> DEFINE step == at[u]
    <3>3. step = at'[u]
      BY <3>1, Zenon
    <3>4. Reached(s, step)
      BY <3>2, Zenon
    <3> HIDE DEF step
    <3> QED BY <3>1, <3>3, <3>4, Zenon DEF Kept, Reached, In, Ended, Armed, Served, Released
  <2> QED BY <2>1, <2>2, Zenon
<1>4. ASSUME NEW s \in Session, NEW u \in Thread, Own(s) \in expired'[u] PROVE Reached(s, "insert")'
  <2>1. CASE u = t
    BY <1>4, <2>1, Zenon DEF Accounted
  <2>2. CASE u # t
    <3>1. Own(s) \in expired[u] /\ Kept(s)
      BY <1>4, <2>2, Zenon DEF Accounted, Holds
    <3> QED BY <3>1, Keeps, Zenon DEF GatewayInv, Progress
  <2> QED BY <2>1, <2>2, Zenon
<1>5. Progress'
  BY <1>3, <1>4, Zenon DEF Progress, Accounted, InTable
<1> QED BY <1>2, <1>5, Zenon DEF RunningIsServed, FailedIsReleased, Sound, Tracked, Served, Released

\* Every step keeps what drive_open and close have done for a session, and with it
\* the ledger's word for it.
LEMMA ProgressStep ==
    ASSUME GatewayInv, GatewayNext
    PROVE  Progress' /\ RunningIsServed' /\ FailedIsReleased'
<1> DEFINE Goal == Progress' /\ RunningIsServed' /\ FailedIsReleased'
<1>a. GatewayTypeOK /\ ThreadOpens /\ OneHolder /\ Fresh /\ Progress
  BY Zenon DEF GatewayInv
<1>b. \A t \in Thread : at[t] \notin {"idle", "next"} =>
        /\ open[t] \in OpenSession /\ open[t].id \in Session
        /\ at[t] \in Driving => open[t] = Own(open[t].id)
  BY <1>a, HasOpen, Zenon
<1>c. \A s \in Session : /\ InTable(s) => Reached(s, "insert")
                         /\ \A t \in Thread : /\ Own(s) \in expired[t] => Reached(s, "insert")
                                              /\ open[t] = Own(s) => Reached(s, at[t])
  BY <1>a, Zenon DEF Progress
<1>d. \A s \in Session : records[s] # Absent => records[s].state \in SessionState
  BY <1>a, Zenon DEF GatewayTypeOK, SessionRecord
\* A step of the thread that drives the open of a session.
<1>e. ASSUME NEW t \in Thread, at[t] \in Driving, UNCHANGED <<open, expired, sessions>>,
             NEW pc \in Driving \union {"insert"}, Goto(t, pc),
             NEW s \in Session, s = open[t].id, \A r \in Session \ {s} : Kept(r),
             Reached(s, pc)', Sound(s)'
      PROVE  Goal
  <2>1. open[t] = Own(s)
    BY <1>b, <1>e, Zenon DEF Driving
  <2>2. /\ ~InTable(s) /\ Own(s) \notin expired[t]
        /\ \A u \in Thread \ {t} : ~Holds(u, s)
    BY <1>a, <2>1, Zenon DEF OneHolder, Holds
  <2>3. \A r \in Session : open'[t] = Own(r) => Reached(r, at[t])'
    <3>1. \A r \in Session : open'[t] = Own(r) => r = s
      BY <1>e, <2>1, OwnIsOwn, Zenon
    <3>2. at'[t] = pc
      BY <1>a, <1>e, Zenon DEF Goto, GatewayTypeOK
    <3> QED BY <1>e, <3>1, <3>2, Zenon DEF Reached, In, Ended, Armed, Served, Released
  <2>4. \A r \in Session : Own(r) \in expired'[t] \/ InTable(r)' => Reached(r, "insert")'
    <3>1. \A r \in Session : Own(r) \in expired'[t] \/ InTable(r)' =>
            r # s /\ (Own(r) \in expired[t] \/ InTable(r))
      BY <1>e, <2>2, Zenon DEF InTable
    <3> QED BY <1>c, <1>e, <3>1, Keeps, Zenon
  <2>5. \A u \in Thread \ {t} : open'[u] = open[u] /\ expired'[u] = expired[u] /\ at'[u] = at[u]
    BY <1>a, <1>e, Zenon DEF Goto, GatewayTypeOK
  <2>6. Accounted(t)
    BY <1>e, <2>2, <2>3, <2>4, <2>5, Zenon DEF Accounted
  <2> QED BY <2>6, ProgressFrom, Zenon
\* A step that leaves every session as it is, or ends its record.
<1>f. ASSUME NEW t \in Thread, \A s \in Session : Kept(s),
             \A u \in Thread \ {t} : open'[u] = open[u] /\ expired'[u] = expired[u] /\ at'[u] = at[u],
             \A s \in Session : open'[t] = Own(s) => Reached(s, at[t])',
             \A s \in Session : Own(s) \in expired'[t] => InTable(s) \/ Own(s) \in expired[t],
             \A s \in Session : InTable(s)' => InTable(s) \/ (open[t] = Own(s) /\ at[t] = "insert")
      PROVE  Goal
  <2>1. \A s \in Session : Own(s) \in expired'[t] \/ InTable(s)' => Reached(s, "insert")'
    BY <1>c, <1>f, Keeps, Zenon
  <2>2. Accounted(t)
    BY <1>f, <2>1, Zenon DEF Accounted
  <2> QED BY <2>2, ProgressFrom, Zenon
<1>g. ASSUME NEW t \in Thread, NEW ss \in SUBSET Session, \A s \in ss : sessions[s] # Absent,
             Take(t, ss), open[t] = Absent,
             UNCHANGED <<records, listener, agent, handshake, open>>,
             \A u \in Thread \ {t} : at'[u] = at[u]
      PROVE  Goal
  <2>1. Taken(t, ss)
    BY <1>a, <1>g, Takes, Zenon
  <2>2. \A s \in Session : Kept(s)
    BY <1>g, Zenon DEF Kept
  <2>3. \A s \in Session : open'[t] # Own(s)
    BY <1>g, OwnIsOwn, Zenon
  <2>4. \A s \in Session : Own(s) \in expired'[t] \/ InTable(s)' => InTable(s)
    BY <1>g, <2>1, Zenon DEF Taken, InTable
  <2> QED BY <1>f, <1>g, <2>1, <2>2, <2>3, <2>4, Zenon DEF Taken
<1>h. ASSUME NEW t \in Thread, Return(t), UNCHANGED sessions, \A s \in Session : Kept(s)
      PROVE  Goal
  <2>1. Returned(t)
    BY <1>a, <1>h, Returns, Zenon
  <2>2. \A s \in Session : open'[t] # Own(s) /\ Own(s) \notin expired'[t]
    BY <2>1, Zenon DEF Returned, Holds
  <2> QED BY <1>f, <1>h, <2>1, <2>2, Zenon DEF Returned, InTable
<1>i. ASSUME UNCHANGED <<at, open, expired, sessions>>, \A s \in Session : Kept(s)
      PROVE  Goal
  <2>1. CASE Thread = {}
    <3>1. \A s \in Session : Sound(s)
      BY Zenon DEF GatewayInv, RunningIsServed, FailedIsReleased, Sound, Tracked, Served, Released
    <3>2. \A s \in Session : Sound(s)' /\ (Reached(s, "insert") => Reached(s, "insert")')
      BY <1>i, <3>1, Keeps, Zenon
    <3> QED BY <1>c, <1>i, <2>1, <3>2, Zenon DEF Progress, InTable, RunningIsServed, FailedIsReleased,
                                         Sound, Tracked, Served, Released
  <2>2. CASE Thread # {}
    <3>1. PICK t \in Thread : TRUE
      BY <2>2, Zenon
    <3>2. \A s \in Session : open'[t] = Own(s) => Reached(s, at[t])'
      <4> SUFFICES ASSUME NEW s \in Session, open'[t] = Own(s) PROVE Reached(s, at[t])'
        BY Zenon
      <4> DEFINE step == at[t]
      <4>1. Reached(s, step) /\ step = at'[t]
        BY <1>c, <1>i, Zenon
      <4> HIDE DEF step
      <4> QED BY <1>i, <4>1, Zenon DEF Kept, Reached, In, Ended, Armed, Served, Released
    <3> QED BY <1>f, <1>i, <3>1, <3>2, Zenon DEF InTable
  <2> QED BY <2>1, <2>2, Zenon
<1> HIDE DEF Goal
<1>1. ASSUME NEW t \in Thread, NEW r \in Asks, Begin(t, r) PROVE Goal
  <2>1. PICK past \in SUBSET {s \in Session : sessions[s] # Absent} : Take(t, past)
    BY <1>1, Zenon DEF Begin
  <2>2. open[t] = Absent /\ UNCHANGED <<records, listener, agent, handshake, open>>
    BY <1>1, <1>a, Zenon DEF Begin, ThreadOpens, ledgerVars, resourceVars
  <2>3. \A u \in Thread \ {t} : at'[u] = at[u]
    BY <1>1, <1>a, Zenon DEF Begin, Goto, GatewayTypeOK
  <2> QED BY <1>g, <2>1, <2>2, <2>3, Zenon
<1>2. ASSUME NEW t \in Thread, CloseBegin(t) PROVE Goal
  <2>1. PICK e \in expired[t] : /\ open' = [open EXCEPT ![t] = e]
                                /\ expired' = [expired EXCEPT ![t] = expired[t] \ {e}]
                                /\ Transition(e.id, "Stopping")
    BY <1>2, Zenon DEF CloseBegin
  <2>2. /\ e.id \in Session /\ at' = [at EXCEPT ![t] = "unlisten"]
        /\ UNCHANGED <<sessions, listener, agent, handshake>>
    BY <1>2, <1>a DEF CloseBegin, Goto, GatewayTypeOK, OpenSession, resourceVars
  <2>3. \A s \in Session : Kept(s)
    BY <1>a, <2>1, <2>2, Ending, Zenon DEF Kept, SessionState
  <2>4. \A s \in Session : open'[t] = Own(s) => Reached(s, at[t])'
    <3> SUFFICES ASSUME NEW s \in Session, open'[t] = Own(s) PROVE Reached(s, at[t])'
      BY Zenon
    <3>1. e = Own(s) /\ e.id = s /\ at'[t] = "unlisten"
      BY <1>a, <2>1, <2>2, OwnIsOwn, Zenon DEF GatewayTypeOK
    <3>2. In(s, {"Running"})
      BY <1>c, <3>1, Zenon DEF Reached
    <3>3. Ended(s)'
      BY <1>a, <2>1, <3>1, <3>2, Ending, Zenon DEF SessionState
    <3> QED BY <3>1, <3>3, Zenon DEF Reached, Ended
  <2>5. /\ \A u \in Thread \ {t} : open'[u] = open[u] /\ expired'[u] = expired[u] /\ at'[u] = at[u]
        /\ expired'[t] \subseteq expired[t]
    BY <1>a, <2>1, <2>2, Zenon DEF GatewayTypeOK
  <2> QED BY <1>f, <2>2, <2>3, <2>4, <2>5, Zenon DEF InTable
<1>3. ASSUME NEW t \in Thread, CloseListener(t) PROVE Goal
  <2>0. PICK s \in Session : s = open[t].id
    BY <1>3, <1>b, Zenon DEF CloseListener
  <2>1. s \in Session /\ open[t] \in OpenSession /\ at' = [at EXCEPT ![t] = "cleanup"]
    BY <1>3, <2>0, <1>b, Zenon DEF CloseListener, Goto
  <2>2. UNCHANGED <<records, agent, handshake, sessions, open, expired>>
    BY <1>3, <2>0, Zenon DEF CloseListener, ledgerVars, callVars
  <2>3. /\ \A u \in Thread \ {t} : at'[u] = at[u]
        /\ at'[t] = "cleanup"
    BY <1>a, <2>1, Zenon DEF GatewayTypeOK
  <2>4. \A r \in Session : Kept(r) \/ (r = s /\ open[t] = Own(s))
    BY <1>3, <2>0, <1>a, <2>1, <2>2, Zenon DEF CloseListener, Kept, GatewayTypeOK, OpenSession, Own
  <2>5. open[t] = Own(s) => Ended(s) /\ Ended(s)'
    BY <1>3, <2>0, <1>c, <2>1, <2>2, Zenon DEF CloseListener, Reached, Ended
  <2>6. open[t] = Own(s) => Sound(s)' /\ ~InTable(s) /\ Own(s) \notin expired[t]
                            /\ \A u \in Thread \ {t} : ~Holds(u, s)
    <3>1. open[t] = Own(s) => Sound(s)'
      BY <2>5, Zenon DEF Sound, Ended
    <3> QED BY <1>a, <2>1, <3>1, Zenon DEF OneHolder, Holds
  <2>7. \A r \in Session : open'[t] = Own(r) => Reached(r, at[t])'
    <3>1. \A r \in Session : open[t] = Own(r) => r = s
      BY <2>0, OwnIsOwn, Zenon
    <3>2. \A r \in Session : open'[t] = Own(r) => Ended(r)'
      BY <2>2, <2>5, <3>1, Zenon DEF Ended
    <3> QED BY <2>3, <3>2, Zenon DEF Reached
  <2>8. \A r \in Session : Own(r) \in expired'[t] \/ InTable(r)' => Reached(r, "insert")'
    <3>1. \A r \in Session : Own(r) \in expired'[t] \/ InTable(r)' =>
              Kept(r) /\ (Own(r) \in expired[t] \/ InTable(r))
      BY <2>2, <2>4, <2>6, Zenon DEF InTable
    <3> QED BY <1>c, <3>1, Keeps, Zenon
  <2>9. Accounted(t)
    BY <2>2, <2>3, <2>4, <2>6, <2>7, <2>8, Zenon DEF Accounted
  <2> QED BY <2>9, ProgressFrom, Zenon DEF Goal
<1>4. ASSUME NEW t \in Thread, CloseEnd(t) PROVE Goal
  <2>0. PICK s \in Session : s = open[t].id
    BY <1>4, <1>b, Zenon DEF CloseEnd
  <2>1. s \in Session /\ open[t] \in OpenSession /\ Transition(s, "Closed")
    BY <1>4, <2>0, <1>b, Zenon DEF CloseEnd
  <2>2. /\ UNCHANGED <<listener, handshake, sessions, expired>> /\ open' = [open EXCEPT ![t] = Absent]
        /\ at' = [at EXCEPT ![t] = "next"]
    BY <1>4, <2>0, Zenon DEF CloseEnd, Goto
  <2>3. /\ \A u \in Thread \ {t} : open'[u] = open[u] /\ at'[u] = at[u]
        /\ \A r \in Session : open'[t] # Own(r)
    BY <1>a, <2>2, OwnIsOwn, Zenon DEF GatewayTypeOK
  <2>4. \A r \in Session : records'[r] = records[r] \/ Ended(r)'
    BY <1>a, <2>1, Ending, Zenon DEF SessionState
  <2>5. \A r \in Session : Kept(r) \/ (r = s /\ open[t] = Own(s))
    BY <1>4, <2>0, <1>a, <2>1, <2>2, <2>4 DEF CloseEnd, Kept, GatewayTypeOK, OpenSession, Own
  <2>6. open[t] = Own(s) => Ended(s)'
    BY <1>4, <2>0, <1>a, <1>c, <2>1, Ending, Zenon DEF CloseEnd, Reached, SessionState
  <2>7. open[t] = Own(s) => Sound(s)' /\ ~InTable(s) /\ Own(s) \notin expired[t]
                            /\ \A u \in Thread \ {t} : ~Holds(u, s)
    BY <1>a, <2>1, <2>6, Zenon DEF Sound, Ended, OneHolder, Holds
  <2>8. \A r \in Session : Own(r) \in expired'[t] \/ InTable(r)' => Reached(r, "insert")'
    <3>1. \A r \in Session : Own(r) \in expired'[t] \/ InTable(r)' =>
              Kept(r) /\ (Own(r) \in expired[t] \/ InTable(r))
      BY <2>2, <2>5, <2>7, Zenon DEF InTable
    <3> QED BY <1>c, <3>1, Keeps, Zenon
  <2>9. Accounted(t)
    BY <2>2, <2>3, <2>5, <2>7, <2>8, Zenon DEF Accounted
  <2> QED BY <2>9, ProgressFrom, Zenon DEF Goal
<1>5. ASSUME NEW t \in Thread, Answer(t) PROVE Goal
  BY <1>5, <1>h, Zenon DEF Answer, ledgerVars, resourceVars, Kept
<1>6. ASSUME NEW t \in Thread, TakeClosed(t) PROVE Goal
  <2>1. CASE Return(t) /\ UNCHANGED sessions
    BY <1>6, <1>h, <2>1, Zenon DEF TakeClosed, ledgerVars, resourceVars, Kept
  <2>2. CASE ~(Return(t) /\ UNCHANGED sessions)
    <3>1. request[t].id \in Session /\ sessions[request[t].id] # Absent /\ Take(t, {request[t].id})
      BY <1>6, <1>a, <2>2, Arguments, Zenon DEF TakeClosed, Drained, ThreadOpens, GatewayTypeOK
    <3>2. open[t] = Absent /\ UNCHANGED <<records, listener, agent, handshake, open, at>>
      BY <1>6, <1>a, <2>2, Zenon DEF TakeClosed, Drained, ThreadOpens, ledgerVars, resourceVars
    <3> QED BY <1>g, <3>1, <3>2, Zenon
  <2> QED BY <2>1, <2>2, Zenon
<1>7. ASSUME NEW t \in Thread, TakeTarget(t) PROVE Goal
  <2> DEFINE ss == {s \in Session : sessions[s] # Absent /\ sessions[s].target = request[t].target}
  <2>1. /\ Take(t, ss) /\ open[t] = Absent
        /\ UNCHANGED <<records, listener, agent, handshake, open, at>>
    BY <1>7, <1>a, Zenon DEF TakeTarget, Drained, ThreadOpens, ledgerVars, resourceVars
  <2>2. ss \in SUBSET Session /\ \A s \in ss : sessions[s] # Absent
    BY Zenon
  <2> HIDE DEF ss, Goal
  <2> QED BY <1>g, <2>1, <2>2, Zenon
<1>8. ASSUME NEW t \in Thread, OpenReplay(t) PROVE Goal
  <2>1. PICK s \in Session : open' = [open EXCEPT ![t] = [id |-> s, real |-> FALSE]]
    BY <1>8, Zenon DEF OpenReplay, Same, Tracked
  <2>2. /\ UNCHANGED <<records, sessions, listener, agent, handshake, expired>>
        /\ at' = [at EXCEPT ![t] = "insert"]
    BY <1>8, Zenon DEF OpenReplay, ledgerVars, resourceVars, Goto
  <2>3. /\ \A u \in Thread \ {t} : open'[u] = open[u] /\ at'[u] = at[u]
        /\ \A r \in Session : open'[t] # Own(r)
    BY <1>a, <2>1, <2>2, OwnIsOwn, Zenon DEF GatewayTypeOK
  <2>4. \A r \in Session : Kept(r)
    BY <2>2, Zenon DEF Kept
  <2> QED BY <1>f, <2>2, <2>3, <2>4, Zenon DEF InTable
<1>9. ASSUME NEW t \in Thread, OpenDenied(t) PROVE Goal
  <2>1. \A s \in Session : records'[s] = records[s] \/ records'[s] = Absent
    BY <1>9, <1>a, Collects, Zenon DEF OpenDenied
  <2>2. \A s \in Session : Kept(s)
    BY <1>9, <2>1, Zenon DEF OpenDenied, resourceVars, Kept, Ended
  <2> QED BY <1>9, <1>h, <2>2, Zenon DEF OpenDenied
<1>10. ASSUME NEW t \in Thread, OpenAccepted(t) PROVE Goal
  <2>1. PICK s \in Session : Admitted(t, s)
    BY <1>10, <1>a, Admits, Zenon
  <2>2. /\ s \in Session \ issued /\ UNCHANGED <<listener, agent, handshake, sessions, expired>>
        /\ open' = [open EXCEPT ![t] = Own(s)] /\ at' = [at EXCEPT ![t] = "arming"]
    BY <2>1, Zenon DEF Admitted
  <2>3. \A r \in Session \ {s} : Kept(r)
    BY <1>a, <2>1, <2>2, Collects, Zenon DEF Admitted, Kept, Ended
  <2>4. ~InTable(s) /\ Released(s)' /\ \A u \in Thread : ~Holds(u, s)
    <3>1. sessions[s] = Absent /\ listener[s] = "none" /\ agent[s] = "none"
      BY <1>a, <2>2, Zenon DEF Fresh
    <3>2. \A u \in Thread : open[u] # Own(s) /\ Own(s) \notin expired[u]
      BY <1>a, <2>2, OwnIsOwn DEF Fresh
    <3> QED BY <2>2, <3>1, <3>2, Zenon DEF InTable, Holds, Released
  <2>5. Sound(s)' /\ In(s, {"Minting"})'
    <3>1. records'[s].state = "Minting"
      BY <2>1 DEF Admitted
    <3> QED BY <3>1, Zenon DEF Sound, In
  <2>6. /\ \A u \in Thread \ {t} : open'[u] = open[u] /\ at'[u] = at[u]
        /\ open'[t] = Own(s) /\ at'[t] = "arming"
    BY <1>a, <2>2, Zenon DEF GatewayTypeOK
  <2>7. \A r \in Session : open'[t] = Own(r) => Reached(r, at[t])'
    BY <2>4, <2>5, <2>6, OwnIsOwn, Zenon DEF Reached
  <2>8. \A r \in Session : Own(r) \in expired'[t] \/ InTable(r)' => Reached(r, "insert")'
    <3>1. \A r \in Session : Own(r) \in expired'[t] \/ InTable(r)' =>
              r # s /\ (Own(r) \in expired[t] \/ InTable(r))
      BY <2>2, <2>4, Zenon DEF InTable, Holds
    <3> QED BY <1>c, <2>3, <3>1, Keeps, Zenon
  <2>9. Accounted(t)
    BY <2>2, <2>3, <2>4, <2>5, <2>6, <2>7, <2>8, Zenon DEF Accounted
  <2> QED BY <2>9, ProgressFrom, Zenon DEF Goal
<1>11. ASSUME NEW t \in Thread, Arm(t) PROVE Goal
  <2>0. PICK s \in Session : s = open[t].id
    BY <1>11, <1>b, Zenon DEF Arm, Drive
  <2>1. s \in Session /\ open[t] = Own(s) /\ at[t] \in Driving /\ Reached(s, at[t])
    BY <1>11, <2>0, <1>b, <1>c, Zenon DEF Arm, Drive, Driving
  <2>2. UNCHANGED <<open, expired, sessions>>
    BY <1>11, <2>0, Zenon DEF Arm, Drive, callVars
  <2>3. Moved(s, "ListenerArming") /\ (Ended(s) => Ended(s)')
    BY <1>11, <2>0, <1>a, <2>1, Moves, Ending, Zenon DEF Arm, Drive, SessionState
  <2>4. Legal(s, "ListenerArming") \/ Ended(s)
    BY <1>11, <2>0, <1>d, <2>1, TransitionTable, Zenon DEF Arm, Drive, Reached, In, Ended, Legal
  <2>5. ~Legal(s, "ListenerArming") => Ended(s) /\ Ended(s)'
    BY <2>3, <2>4, Zenon
  <2>6. Legal(s, "ListenerArming") =>
            ~Ended(s) /\ records'[s] # Absent /\ records'[s].state = "ListenerArming"
    BY <1>d, <2>3, TransitionTable, Zenon DEF Moved, Legal, Ended
  <2>7. \A r \in Session \ {s} : Kept(r)
    BY <1>11, <2>0, <1>a, <2>1, <2>3, Zenon DEF Arm, Drive, Kept, Moved, GatewayTypeOK, resourceVars
  <2>8. CASE Legal(s, "ListenerArming") /\ listener' = [listener EXCEPT ![s] = "armed"] /\ Goto(t, "spawning")
    <3>1. Reached(s, "spawning")' /\ Sound(s)'
      BY <1>11, <2>0, <1>a, <2>1, <2>6, <2>8, Zenon
      DEF Arm, Reached, In, Ended, Armed, Released, Sound, GatewayTypeOK
    <3> QED BY <1>e, <2>0, <2>1, <2>2, <2>7, <2>8, <3>1, Zenon DEF Driving
  <2>9. CASE UNCHANGED listener /\ Goto(t, "fail")
    <3>1. Reached(s, "fail")' /\ Sound(s)'
      BY <1>11, <2>0, <1>a, <2>1, <2>4, <2>5, <2>6, <2>9, Zenon DEF Arm, Reached, In, Ended, Released, Sound
    <3> QED BY <1>e, <2>0, <2>1, <2>2, <2>7, <2>9, <3>1, Zenon DEF Driving
  <2> QED BY <1>11, <2>0, <2>8, <2>9, Zenon DEF Arm
<1>12. ASSUME NEW t \in Thread, SpawnAgent(t) PROVE Goal
  <2>0. PICK s \in Session : s = open[t].id
    BY <1>12, <1>b, Zenon DEF SpawnAgent, Drive
  <2>1. s \in Session /\ open[t] = Own(s) /\ at[t] \in Driving /\ Reached(s, at[t])
    BY <1>12, <2>0, <1>b, <1>c, Zenon DEF SpawnAgent, Drive, Driving
  <2>2. UNCHANGED <<open, expired, sessions>>
    BY <1>12, <2>0, Zenon DEF SpawnAgent, Drive, callVars
  <2>3. Moved(s, "AgentSpawning") /\ (Ended(s) => Ended(s)')
    BY <1>12, <2>0, <1>a, <2>1, Moves, Ending, Zenon DEF SpawnAgent, Drive, SessionState
  <2>4. Legal(s, "AgentSpawning") \/ Ended(s)
    BY <1>12, <2>0, <1>d, <2>1, TransitionTable, Zenon DEF SpawnAgent, Drive, Reached, In, Ended, Legal
  <2>5. ~Legal(s, "AgentSpawning") => Ended(s) /\ Ended(s)'
    BY <2>3, <2>4, Zenon
  <2>6. Legal(s, "AgentSpawning") =>
            ~Ended(s) /\ records'[s] # Absent /\ records'[s].state = "AgentSpawning"
    BY <1>d, <2>3, TransitionTable, Zenon DEF Moved, Legal, Ended
  <2>7. \A r \in Session \ {s} : Kept(r)
    BY <1>12, <2>0, <1>a, <2>1, <2>3, Zenon DEF SpawnAgent, Drive, Kept, Moved, GatewayTypeOK, resourceVars
  <2>8. CASE Legal(s, "AgentSpawning") /\ agent' = [agent EXCEPT ![s] = "live"] /\ Goto(t, "awaiting")
    <3>1. Reached(s, "awaiting")' /\ Sound(s)'
      BY <1>12, <2>0, <1>a, <2>1, <2>6, <2>8, Zenon
      DEF SpawnAgent, Reached, In, Ended, Armed, Served, Sound, GatewayTypeOK
    <3> QED BY <1>e, <2>0, <2>1, <2>2, <2>7, <2>8, <3>1, Zenon DEF Driving
  <2>9. CASE Legal(s, "AgentSpawning") /\ UNCHANGED agent /\ Goto(t, "abandon")
    <3>1. Reached(s, "abandon")' /\ Sound(s)'
      BY <1>12, <2>0, <1>a, <2>1, <2>6, <2>9, Zenon DEF SpawnAgent, Reached, In, Ended, Armed, Sound
    <3> QED BY <1>e, <2>0, <2>1, <2>2, <2>7, <2>9, <3>1, Zenon DEF Driving
  <2>10. CASE ~Legal(s, "AgentSpawning") /\ UNCHANGED agent /\ Goto(t, "fail")
    <3>1. Reached(s, "fail")' /\ Sound(s)'
      BY <2>5, <2>10, Zenon DEF Reached, In, Ended, Sound
    <3> QED BY <1>e, <2>0, <2>1, <2>2, <2>7, <2>10, <3>1, Zenon DEF Driving
  <2> QED BY <1>12, <2>0, <2>8, <2>9, <2>10, Zenon DEF SpawnAgent
<1>13. ASSUME NEW t \in Thread, Abandon(t) PROVE Goal
  <2>0. PICK s \in Session : s = open[t].id
    BY <1>13, <1>b, Zenon DEF Abandon, Drive
  <2>1. s \in Session /\ open[t] = Own(s) /\ at[t] \in Driving /\ Reached(s, at[t])
    BY <1>13, <2>0, <1>b, <1>c, Zenon DEF Abandon, Drive, Driving
  <2>2. UNCHANGED <<open, expired, sessions>>
    BY <1>13, <2>0, Zenon DEF Abandon, Drive, callVars
  <2>3. \A r \in Session \ {s} : Kept(r)
    BY <1>13, <2>0, <1>a, <2>1, Zenon DEF Abandon, Kept, GatewayTypeOK, ledgerVars
  <2>4. Reached(s, "fail")' /\ Sound(s)'
    BY <1>13, <2>0, <1>a, <2>1, Zenon
    DEF Abandon, Reached, In, Ended, Armed, Released, Sound, GatewayTypeOK, ledgerVars
  <2> QED BY <1>13, <1>e, <2>0, <2>1, <2>2, <2>3, <2>4, Zenon DEF Abandon, Driving
<1>14. ASSUME NEW t \in Thread, DriveAwaiting(t) PROVE Goal
  <2>0. PICK s \in Session : s = open[t].id
    BY <1>14, <1>b, Zenon DEF DriveAwaiting, Drive
  <2>1. s \in Session /\ open[t] = Own(s) /\ at[t] \in Driving /\ Reached(s, at[t])
    BY <1>14, <2>0, <1>b, <1>c, Zenon DEF DriveAwaiting, Drive, Driving
  <2>2. UNCHANGED <<open, expired, sessions>>
    BY <1>14, <2>0, Zenon DEF DriveAwaiting, Drive, callVars
  <2>3. Moved(s, "AwaitingHandshake") /\ (Ended(s) => Ended(s)')
    BY <1>14, <2>0, <1>a, <2>1, Moves, Ending, Zenon DEF DriveAwaiting, Drive, SessionState
  <2>4. Legal(s, "AwaitingHandshake") \/ Ended(s)
    BY <1>14, <2>0, <1>d, <2>1, TransitionTable, Zenon DEF DriveAwaiting, Drive, Reached, In, Ended, Legal
  <2>5. ~Legal(s, "AwaitingHandshake") => Ended(s) /\ Ended(s)'
    BY <2>3, <2>4, Zenon
  <2>6. Legal(s, "AwaitingHandshake") =>
            ~Ended(s) /\ records'[s] # Absent /\ records'[s].state = "AwaitingHandshake"
    BY <1>d, <2>3, TransitionTable, Zenon DEF Moved, Legal, Ended
  <2>7. \A r \in Session \ {s} : Kept(r)
    BY <1>14, <2>0, <1>a, <2>1, <2>3, Zenon
    DEF DriveAwaiting, Drive, Kept, Moved, GatewayTypeOK, resourceVars
  <2>8. CASE Legal(s, "AwaitingHandshake") /\ Goto(t, "check")
    <3>1. Reached(s, "check")' /\ Sound(s)'
      BY <1>14, <2>0, <2>1, <2>6, <2>8, Zenon
      DEF DriveAwaiting, Drive, resourceVars, Reached, In, Ended, Served, Sound
    <3> QED BY <1>e, <2>0, <2>1, <2>2, <2>7, <2>8, <3>1, Zenon DEF Driving
  <2>9. CASE ~Legal(s, "AwaitingHandshake") /\ Goto(t, "fail")
    <3>1. Reached(s, "fail")' /\ Sound(s)'
      BY <2>5, <2>9, Zenon DEF Reached, In, Ended, Sound
    <3> QED BY <1>e, <2>0, <2>1, <2>2, <2>7, <2>9, <3>1, Zenon DEF Driving
  <2> QED BY <1>14, <2>0, <2>8, <2>9, Zenon DEF DriveAwaiting, Drive
<1>15. ASSUME NEW t \in Thread, AwaitCheck(t) PROVE Goal
  <2>0. PICK s \in Session : s = open[t].id
    BY <1>15, <1>b, Zenon DEF AwaitCheck, Drive
  <2>1. s \in Session /\ open[t] = Own(s) /\ at[t] \in Driving /\ Reached(s, at[t])
    BY <1>15, <2>0, <1>b, <1>c, Zenon DEF AwaitCheck, Drive, Driving
  <2>2. UNCHANGED <<open, expired, sessions>>
    BY <1>15, <2>0, Zenon DEF AwaitCheck, Drive, callVars
  <2>3. UNCHANGED <<records, listener, agent, handshake>> /\ \A r \in Session : Kept(r)
    BY <1>15, <2>0, Zenon DEF AwaitCheck, ledgerVars, resourceVars, Kept
  <2>4. Sound(s)'
    <3>1. Sound(s)
      BY <2>1, Zenon DEF GatewayInv, RunningIsServed, FailedIsReleased, Sound, Tracked, Served, Released
    <3> QED BY <2>1, <2>3, <3>1, Keeps, Zenon
  <2>5. PICK pc \in {"running", "register", "wait"} :
            Goto(t, pc) /\ (pc = "running" => handshake[s] # "none")
    BY <1>15, <2>0, Zenon DEF AwaitCheck, Verified
  <2>6. Reached(s, pc)'
    BY <1>15, <2>0, <2>1, <2>3, <2>5, Zenon DEF AwaitCheck, Reached, In, Ended, Served
  <2> QED BY <1>e, <2>0, <2>1, <2>2, <2>3, <2>4, <2>5, <2>6, Zenon DEF Driving
<1>16. ASSUME NEW t \in Thread, AwaitRegister(t) PROVE Goal
  <2>0. PICK s \in Session : s = open[t].id
    BY <1>16, <1>b, Zenon DEF AwaitRegister, Drive
  <2>1. s \in Session /\ open[t] = Own(s) /\ at[t] \in Driving /\ Reached(s, at[t])
    BY <1>16, <2>0, <1>b, <1>c, Zenon DEF AwaitRegister, Drive, Driving
  <2>2. UNCHANGED <<open, expired, sessions>>
    BY <1>16, <2>0, Zenon DEF AwaitRegister, Drive, callVars
  <2>3. UNCHANGED <<records, listener, agent, handshake>> /\ \A r \in Session : Kept(r)
    BY <1>16, <2>0, Zenon DEF AwaitRegister, ledgerVars, resourceVars, Kept
  <2>4. Sound(s)'
    <3>1. Sound(s)
      BY <2>1, Zenon DEF GatewayInv, RunningIsServed, FailedIsReleased, Sound, Tracked, Served, Released
    <3> QED BY <2>1, <2>3, <3>1, Keeps, Zenon
  <2>5. Reached(s, "recheck")'
    BY <1>16, <2>0, <2>1, <2>3, Zenon DEF AwaitRegister, Reached, In, Ended, Served
  <2> QED BY <1>16, <1>e, <2>0, <2>1, <2>2, <2>3, <2>4, <2>5, Zenon DEF AwaitRegister, Driving
<1>17. ASSUME NEW t \in Thread, AwaitWoken(t) PROVE Goal
  <2>0. PICK s \in Session : s = open[t].id
    BY <1>17, <1>b, Zenon DEF AwaitWoken, Drive
  <2>1. s \in Session /\ open[t] = Own(s) /\ at[t] \in Driving /\ Reached(s, at[t])
    BY <1>17, <2>0, <1>b, <1>c, Zenon DEF AwaitWoken, Drive, Driving
  <2>2. UNCHANGED <<open, expired, sessions>>
    BY <1>17, <2>0, Zenon DEF AwaitWoken, Drive, callVars
  <2>3. UNCHANGED <<records, listener, agent, handshake>> /\ \A r \in Session : Kept(r)
    BY <1>17, <2>0, Zenon DEF AwaitWoken, ledgerVars, resourceVars, Kept
  <2>4. Sound(s)'
    <3>1. Sound(s)
      BY <2>1, Zenon DEF GatewayInv, RunningIsServed, FailedIsReleased, Sound, Tracked, Served, Released
    <3> QED BY <2>1, <2>3, <3>1, Keeps, Zenon
  <2>5. handshake[s] # "none"
    BY <1>17, <2>0, <1>a, Zenon DEF AwaitWoken, ThreadOpens
  <2>6. Reached(s, "running")'
    BY <1>17, <2>0, <2>1, <2>3, <2>5, Zenon DEF AwaitWoken, Reached, In, Ended, Served
  <2> QED BY <1>17, <1>e, <2>0, <2>1, <2>2, <2>3, <2>4, <2>6, Zenon DEF AwaitWoken, Driving
<1>18. ASSUME NEW t \in Thread, DriveRunning(t) PROVE Goal
  <2>0. PICK s \in Session : s = open[t].id
    BY <1>18, <1>b, Zenon DEF DriveRunning, Drive
  <2>1. s \in Session /\ open[t] = Own(s) /\ at[t] \in Driving /\ Reached(s, at[t])
    BY <1>18, <2>0, <1>b, <1>c, Zenon DEF DriveRunning, Drive, Driving
  <2>2. UNCHANGED <<open, expired, sessions>>
    BY <1>18, <2>0, Zenon DEF DriveRunning, Drive, callVars
  <2>3. Moved(s, "Running") /\ (Ended(s) => Ended(s)')
    BY <1>18, <2>0, <1>a, <2>1, Moves, Ending, Zenon DEF DriveRunning, Drive, SessionState
  <2>4. Legal(s, "Running") \/ Ended(s)
    BY <1>18, <2>0, <1>d, <2>1, TransitionTable, Zenon DEF DriveRunning, Drive, Reached, In, Ended, Legal
  <2>5. ~Legal(s, "Running") => Ended(s) /\ Ended(s)'
    BY <2>3, <2>4, Zenon
  <2>6. Legal(s, "Running") => ~Ended(s) /\ records'[s] # Absent /\ records'[s].state = "Running"
    BY <1>d, <2>3, TransitionTable, Zenon DEF Moved, Legal, Ended
  <2>7. \A r \in Session \ {s} : Kept(r)
    BY <1>18, <2>0, <1>a, <2>1, <2>3, Zenon
    DEF DriveRunning, Drive, Kept, Moved, GatewayTypeOK, resourceVars
  <2>8. CASE Legal(s, "Running") /\ Goto(t, "insert")
    <3>1. Reached(s, "insert")' /\ Sound(s)'
      BY <1>18, <2>0, <2>1, <2>6, <2>8, Zenon
      DEF DriveRunning, Drive, resourceVars, Reached, In, Ended, Served, Sound
    <3> QED BY <1>e, <2>0, <2>1, <2>2, <2>7, <2>8, <3>1, Zenon DEF Driving
  <2>9. CASE ~Legal(s, "Running") /\ Goto(t, "fail")
    <3>1. Reached(s, "fail")' /\ Sound(s)'
      BY <2>5, <2>9, Zenon DEF Reached, In, Ended, Sound
    <3> QED BY <1>e, <2>0, <2>1, <2>2, <2>7, <2>9, <3>1, Zenon DEF Driving
  <2> QED BY <1>18, <2>0, <2>8, <2>9, Zenon DEF DriveRunning, Drive
<1>19. ASSUME NEW t \in Thread, Insert(t) PROVE Goal
  <2>1. Returned(t)
    BY <1>19, <1>a, Returns, Zenon DEF Insert
  <2>2. open[t] \in OpenSession /\ open[t].id \in Session
    BY <1>19, <1>b, Zenon DEF Insert
  <2>3. \A s \in Session : InTable(s)' => InTable(s) \/ open[t] = Own(s)
    BY <1>19, <1>a, <2>2, Zenon DEF Insert, InTable, GatewayTypeOK, Own, OpenSession
  <2>4. \A s \in Session : Kept(s)
    BY <1>19, Zenon DEF Insert, ledgerVars, resourceVars, Kept
  <2>5. \A s \in Session : open'[t] # Own(s) /\ Own(s) \notin expired'[t]
    BY <2>1, Zenon DEF Returned, Holds
  <2>6. at[t] = "insert"
    BY <1>19, Zenon DEF Insert
  <2> QED BY <1>f, <2>1, <2>3, <2>4, <2>5, <2>6, Zenon DEF Returned
<1>20. ASSUME NEW t \in Thread, Fail(t) PROVE Goal
  <2>0. PICK s \in Session : s = open[t].id
    BY <1>20, <1>b, Zenon DEF Fail
  <2>1. s \in Session /\ open[t] = Own(s) /\ Reached(s, "fail")
    BY <1>20, <2>0, <1>b, <1>c, Zenon DEF Fail, Driving
  <2>2. Moved(s, "Failed") /\ UNCHANGED <<sessions, listener, agent, handshake>> /\ (Ended(s) => Ended(s)')
    BY <1>20, <2>0, <1>a, <2>1, Moves, Ending, Zenon DEF Fail, SessionState, resourceVars
  <2>3. \A r \in Session \ {s} : Kept(r)
    BY <2>2, Zenon DEF Moved, Kept
  <2>4. Legal(s, "Failed") => Released(s)
    BY <1>d, <2>1, TransitionTable, Zenon DEF Reached, Legal, Ended
  <2>5. Kept(s) \/ (Sound(s)' /\ \A u \in Thread \ {t} : ~Holds(u, s))
    <3>1. \A u \in Thread \ {t} : ~Holds(u, s)
      BY <1>a, <2>1, Zenon DEF OneHolder, Holds
    <3>2. Legal(s, "Failed") => Sound(s)'
      BY <2>2, <2>4, Zenon DEF Moved, Sound, Released
    <3>3. ~Legal(s, "Failed") => Kept(s)
      BY <2>1, <2>2, Zenon DEF Moved, Kept
    <3> QED BY <3>1, <3>2, <3>3, Zenon
  <2>6. ~InTable(s)
    BY <1>a, <2>1, Zenon DEF OneHolder, Holds
  <2>7. Returned(t)
    BY <1>20, <2>0, <1>a, Returns, Zenon DEF Fail
  <2>8. \A r \in Session : open'[t] # Own(r) /\ Own(r) \notin expired'[t]
    BY <2>7, Zenon DEF Returned, Holds
  <2>9. \A r \in Session : InTable(r)' => Reached(r, "insert")'
    <3>1. \A r \in Session : InTable(r)' => r # s /\ InTable(r)
      BY <2>2, <2>6, Zenon DEF InTable
    <3> QED BY <1>c, <2>3, <3>1, Keeps, Zenon
  <2>10. Accounted(t)
    BY <2>3, <2>5, <2>7, <2>8, <2>9, Zenon DEF Accounted, Returned
  <2> QED BY <2>10, ProgressFrom, Zenon DEF Goal
<1>21. ASSUME NEW s \in Session, Verify(s) PROVE Goal
  <2>1. \A r \in Session : Kept(r)
    BY <1>21, <1>a, Zenon DEF Verify, ledgerVars, Kept, GatewayTypeOK
  <2> QED BY <1>21, <1>i, <2>1, Zenon DEF Verify, threadVars, callVars
<1>22. ASSUME NEW s \in Session, Notify(s) PROVE Goal
  <2>1. \A r \in Session : Kept(r)
    BY <1>22, <1>a, Zenon DEF Notify, ledgerVars, Kept, GatewayTypeOK
  <2> QED BY <1>22, <1>i, <2>1, Zenon DEF Notify
<1> QED
  BY <1>1, <1>2, <1>3, <1>4, <1>5, <1>6, <1>7, <1>8, <1>9, <1>10, <1>11, <1>12, <1>13,
     <1>14, <1>15, <1>16, <1>17, <1>18, <1>19, <1>20, <1>21, <1>22, Zenon
  DEF Goal, GatewayNext, ThreadStep, CloseStep, OpenStep
-----------------------------------------------------------------------------
\* A step that admits nothing: records go, or stay with their arguments, and none
\* becomes active again.
Shrinks ==
    \A s \in Session : records'[s] # Absent =>
        /\ records[s] # Absent /\ records'[s].args = records[s].args
        /\ is_terminal(records[s].state) => is_terminal(records'[s].state)

\* The active sessions a quota counts.
OfPrincipal(p) == {u \in Active : records[u].args.principal = p}
OfRealm(m) == {u \in Active : records[u].args.target.realm = m}

LEMMA QuotaSets ==
    /\ IsFiniteSet(Tracked)
    /\ \A p : IsFiniteSet(OfPrincipal(p))
    /\ \A m : IsFiniteSet(OfRealm(m))
<1>1. IsFiniteSet(Session)
  BY GatewayAssumption, Zenon
<1>2. Tracked \subseteq Session /\ \A p : OfPrincipal(p) \subseteq Session /\ OfRealm(p) \subseteq Session
  BY Zenon DEF Tracked, Active, OfPrincipal, OfRealm
<1> QED BY <1>1, <1>2, FS_Subset, Zenon

LEMMA ShrinkKeeps ==
    ASSUME LedgerLimitsHold, Shrinks
    PROVE  LedgerLimitsHold'
<1>1. Tracked' \subseteq Tracked /\ Active' \subseteq Active
  BY Zenon DEF Shrinks, Tracked, Active
<1>2. \A s \in Tracked' : s \in Session /\ records'[s].args = records[s].args
  BY Zenon DEF Shrinks, Tracked
<1>3. \A s, u \in Tracked' : s # u =>
        /\ ~({s, u} \subseteq Active' /\ records'[s].args.target = records'[u].args.target)
        /\ ~(records'[s].args.operation = records'[u].args.operation
             /\ records'[s].args.principal = records'[u].args.principal)
  BY <1>1, <1>2 DEF LedgerLimitsHold
<1>4. Cardinality(Tracked') <= MaxRecords
  <2>1. /\ Cardinality(Tracked') \in Nat /\ Cardinality(Tracked) \in Nat
        /\ Cardinality(Tracked') <= Cardinality(Tracked)
    BY <1>1, QuotaSets, FS_Subset, FS_CardinalityType, Zenon
  <2> QED BY <2>1, GatewayAssumption DEF LedgerLimitsHold
<1>5. ASSUME NEW s \in Active'
      PROVE  /\ Cardinality({u \in Active' : records'[u].args.principal = records'[s].args.principal})
                    <= MaxPerPrincipal
             /\ Cardinality({u \in Active' : records'[u].args.target.realm = records'[s].args.target.realm})
                    <= MaxPerRealm
  <2> DEFINE p == records[s].args.principal
             m == records[s].args.target.realm
             pp == {u \in Active' : records'[u].args.principal = records'[s].args.principal}
             mm == {u \in Active' : records'[u].args.target.realm = records'[s].args.target.realm}
  <2>1. s \in Active /\ Active' \subseteq Tracked'
    BY <1>1, <1>5, Zenon DEF Active
  <2>2. pp \subseteq OfPrincipal(p) /\ mm \subseteq OfRealm(m)
    BY <1>1, <1>2, <2>1, Zenon DEF OfPrincipal, OfRealm
  <2>3. Cardinality(OfPrincipal(p)) <= MaxPerPrincipal /\ Cardinality(OfRealm(m)) <= MaxPerRealm
    BY <2>1, Zenon DEF LedgerLimitsHold, OfPrincipal, OfRealm
  <2> HIDE DEF pp, mm, p, m
  <2>4. /\ Cardinality(pp) \in Nat /\ Cardinality(OfPrincipal(p)) \in Nat
        /\ Cardinality(pp) <= Cardinality(OfPrincipal(p))
    BY <2>2, QuotaSets, FS_Subset, FS_CardinalityType, Zenon
  <2>5. /\ Cardinality(mm) \in Nat /\ Cardinality(OfRealm(m)) \in Nat
        /\ Cardinality(mm) <= Cardinality(OfRealm(m))
    BY <2>2, QuotaSets, FS_Subset, FS_CardinalityType, Zenon
  <2>6. Cardinality(pp) <= MaxPerPrincipal /\ Cardinality(mm) <= MaxPerRealm
    BY <2>3, <2>4, <2>5, GatewayAssumption
  <2> QED BY <2>6, Zenon DEF pp, mm
<1> QED BY <1>3, <1>4, <1>5, Zenon DEF LedgerLimitsHold

\* A set that grows by at most one element grows its cardinality by at most one.
LEMMA OneMore ==
    ASSUME NEW A, NEW B, NEW x, NEW n \in Nat, IsFiniteSet(A), Cardinality(A) < n,
           B \subseteq A \union {x}
    PROVE  Cardinality(B) <= n
<1>1. IsFiniteSet(A \union {x}) /\ Cardinality(A \union {x}) <= Cardinality(A) + 1
  <2>1. /\ IsFiniteSet(A \union {x})
        /\ Cardinality(A \union {x}) = IF x \in A THEN Cardinality(A) ELSE Cardinality(A) + 1
    BY FS_AddElement, Zenon
  <2>2. Cardinality(A) \in Nat
    BY FS_CardinalityType, Zenon
  <2> QED BY <2>1, <2>2
<1>2. IsFiniteSet(B) /\ Cardinality(B) <= Cardinality(A \union {x})
  BY <1>1, FS_Subset, Zenon
<1>3. Cardinality(A) \in Nat /\ Cardinality(B) \in Nat /\ Cardinality(A \union {x}) \in Nat
  BY <1>1, <1>2, FS_CardinalityType, Zenon
<1> QED BY <1>1, <1>2, <1>3

\* An admission keeps the limits it has checked.
LEMMA AdmissionKeeps ==
    ASSUME GatewayTypeOK, Fresh, LedgerLimitsHold, NEW t \in Thread, NEW s \in Session, Admitted(t, s)
    PROVE  LedgerLimitsHold'
<1> DEFINE o == request[t].args
           Left == {u \in Session : Collected[u] # Absent}
<1>1. s \notin Tracked /\ s \notin Active
  BY Zenon DEF Admitted, Fresh, Tracked, Active
<1>2. Left \subseteq Tracked /\ \A u \in Left : u \in Session /\ Collected[u] = records[u]
  BY Collects, Zenon DEF Tracked
<1>3. Tracked' = Left \union {s} /\ s \notin Left
  <2>1. records'[s] # Absent
    <3>1. records'[s] = [args |-> o, state |-> "Minting"] /\ o \in OpenRequest
      BY Zenon DEF Admitted
    <3>2. records'[s] \in SessionRecord
      BY <3>1 DEF SessionRecord, SessionState
    <3> QED BY <3>2, AbsentAssumption, Zenon
  <2>2. s \notin Left
    BY <1>1, <1>2, Zenon
  <2> QED BY <2>1, <2>2, Zenon DEF Admitted, Tracked
<1>4. \A u \in Left : records'[u] = records[u]
  <2>1. \A u \in Session : u # s => records'[u] = Collected[u]
    BY Zenon DEF Admitted
  <2> HIDE DEF Left
  <2> QED BY <1>2, <1>3, <2>1, Zenon
<1>5. records'[s] = [args |-> o, state |-> "Minting"] /\ records'[s].args = o
  BY DEF Admitted
<1>6. Active' \subseteq Active \union {s}
  BY <1>2, <1>3, <1>4, Zenon DEF Active
<1>7. /\ \A u \in Tracked : ~(records[u].args.operation = o.operation /\ records[u].args.principal = o.principal)
      /\ \A u \in Active : records[u].args.target # o.target
  BY Zenon DEF Admitted, Same, Busy
<1>8. \A u, v \in Tracked' : u # v =>
        /\ ~({u, v} \subseteq Active' /\ records'[u].args.target = records'[v].args.target)
        /\ ~(records'[u].args.operation = records'[v].args.operation
             /\ records'[u].args.principal = records'[v].args.principal)
  <2> SUFFICES ASSUME NEW u \in Tracked', NEW v \in Tracked', u # v
               PROVE /\ ~({u, v} \subseteq Active' /\ records'[u].args.target = records'[v].args.target)
                     /\ ~(records'[u].args.operation = records'[v].args.operation
                          /\ records'[u].args.principal = records'[v].args.principal)
    BY Zenon
  <2> HIDE DEF Left, o
  <2>1. CASE u # s /\ v # s
    BY <1>2, <1>3, <1>4, <1>6, <2>1 DEF LedgerLimitsHold
  <2>2. CASE u = s
    BY <1>2, <1>3, <1>4, <1>5, <1>6, <1>7, <2>2
  <2>3. CASE v = s
    BY <1>2, <1>3, <1>4, <1>5, <1>6, <1>7, <2>3
  <2> QED BY <2>1, <2>2, <2>3, Zenon
<1>9. Cardinality(Tracked') <= MaxRecords
  <2>1. IsFiniteSet(Left) /\ Cardinality(Left) < MaxRecords /\ MaxRecords \in Nat
    BY <1>2, QuotaSets, FS_Subset, GatewayAssumption, Zenon DEF Admitted, WithinQuota
  <2> HIDE DEF Left
  <2> QED BY <1>3, <2>1, OneMore, Zenon
<1>10. ASSUME NEW a \in Active'
       PROVE  Cardinality({u \in Active' : records'[u].args.principal = records'[a].args.principal})
                <= MaxPerPrincipal
  <2> DEFINE p == records'[a].args.principal
             B == {u \in Active' : records'[u].args.principal = p}
  <2>1. Active' \subseteq Tracked' /\ \A u \in Active' \ {s} : u \in Active /\ records'[u] = records[u]
    BY <1>3, <1>4, <1>6, Zenon DEF Active
  <2>2. B \subseteq OfPrincipal(p) \union {s}
    BY <2>1, Zenon DEF OfPrincipal
  <2>3. IsFiniteSet(OfPrincipal(p)) /\ MaxPerPrincipal \in Nat
    BY QuotaSets, GatewayAssumption, Zenon
  <2>4. CASE p = o.principal
    <3>1. Cardinality(OfPrincipal(p)) < MaxPerPrincipal
      BY <2>4, Zenon DEF Admitted, WithinQuota, OfPrincipal
    <3> HIDE DEF B, p
    <3>2. Cardinality(B) <= MaxPerPrincipal
      BY <2>2, <2>3, <3>1, OneMore, Zenon
    <3> QED BY <3>2, Zenon DEF B, p
  <2>5. CASE p # o.principal
    <3>1. a # s /\ s \notin B
      BY <1>5, <2>5, Zenon
    <3>2. B \subseteq OfPrincipal(p) /\ a \in Active /\ p = records[a].args.principal
      BY <2>1, <2>2, <3>1, <1>10, Zenon
    <3>3. Cardinality(OfPrincipal(p)) <= MaxPerPrincipal
      BY <3>2, Zenon DEF LedgerLimitsHold, OfPrincipal
    <3> HIDE DEF B, p
    <3>4. Cardinality(B) <= Cardinality(OfPrincipal(p))
      BY <2>3, <3>2, FS_Subset, Zenon
    <3>5. Cardinality(B) \in Nat /\ Cardinality(OfPrincipal(p)) \in Nat
      BY <2>3, <3>2, FS_Subset, FS_CardinalityType, Zenon
    <3>6. Cardinality(B) <= MaxPerPrincipal
      BY <2>3, <3>3, <3>4, <3>5
    <3> QED BY <3>6, Zenon DEF B, p
  <2> QED BY <2>4, <2>5, Zenon
<1>11. ASSUME NEW a \in Active'
       PROVE  Cardinality({u \in Active' : records'[u].args.target.realm = records'[a].args.target.realm})
                <= MaxPerRealm
  <2> DEFINE m == records'[a].args.target.realm
             B == {u \in Active' : records'[u].args.target.realm = m}
  <2>1. Active' \subseteq Tracked' /\ \A u \in Active' \ {s} : u \in Active /\ records'[u] = records[u]
    BY <1>3, <1>4, <1>6, Zenon DEF Active
  <2>2. B \subseteq OfRealm(m) \union {s}
    BY <2>1, Zenon DEF OfRealm
  <2>3. IsFiniteSet(OfRealm(m)) /\ MaxPerRealm \in Nat
    BY QuotaSets, GatewayAssumption, Zenon
  <2>4. CASE m = o.target.realm
    <3>1. Cardinality(OfRealm(m)) < MaxPerRealm
      BY <2>4, Zenon DEF Admitted, WithinQuota, OfRealm
    <3> HIDE DEF B, m
    <3>2. Cardinality(B) <= MaxPerRealm
      BY <2>2, <2>3, <3>1, OneMore, Zenon
    <3> QED BY <3>2, Zenon DEF B, m
  <2>5. CASE m # o.target.realm
    <3>1. a # s /\ s \notin B
      BY <1>5, <2>5, Zenon
    <3>2. B \subseteq OfRealm(m) /\ a \in Active /\ m = records[a].args.target.realm
      BY <2>1, <2>2, <3>1, <1>11, Zenon
    <3>3. Cardinality(OfRealm(m)) <= MaxPerRealm
      BY <3>2, Zenon DEF LedgerLimitsHold, OfRealm
    <3> HIDE DEF B, m
    <3>4. Cardinality(B) <= Cardinality(OfRealm(m))
      BY <2>3, <3>2, FS_Subset, Zenon
    <3>5. Cardinality(B) \in Nat /\ Cardinality(OfRealm(m)) \in Nat
      BY <2>3, <3>2, FS_Subset, FS_CardinalityType, Zenon
    <3>6. Cardinality(B) <= MaxPerRealm
      BY <2>3, <3>3, <3>4, <3>5
    <3> QED BY <3>6, Zenon DEF B, m
  <2> QED BY <2>4, <2>5, Zenon
<1> QED BY <1>8, <1>9, <1>10, <1>11, Zenon DEF LedgerLimitsHold

\* Every step keeps the limits of the ledger.
LEMMA LimitsStep ==
    ASSUME GatewayInv, LedgerLimitsHold, GatewayNext
    PROVE  LedgerLimitsHold'
<1> DEFINE Goal == LedgerLimitsHold'
<1>a. GatewayTypeOK /\ ThreadOpens /\ Fresh
  BY Zenon DEF GatewayInv
<1>b. \A t \in Thread : at[t] \notin {"idle", "next"} => open[t].id \in Session
  BY <1>a, HasOpen, Zenon
<1>c. ASSUME NEW s \in Session, NEW next \in SessionState, Transition(s, next) PROVE Goal
  <2>1. Moved(s, next)
    BY <1>a, <1>c, Moves, Zenon
  <2>2. Legal(s, next) => ~is_terminal(records[s].state)
    BY <1>a, TransitionTable, Zenon DEF Legal, is_terminal, can_transition
  <2>3. Shrinks
    BY <2>1, <2>2, Zenon DEF Moved, Shrinks, Legal
  <2> QED BY <2>3, ShrinkKeeps, Zenon
<1>d. ASSUME UNCHANGED records PROVE Goal
  BY <1>d, ShrinkKeeps, Zenon DEF Shrinks
<1> HIDE DEF Goal
<1>1. ASSUME NEW t \in Thread, NEW r \in Asks, Begin(t, r) PROVE Goal
  BY <1>1, <1>d, Zenon DEF Begin, ledgerVars
<1>2. ASSUME NEW t \in Thread, CloseBegin(t) PROVE Goal
  <2>1. PICK e \in expired[t] : Transition(e.id, "Stopping")
    BY <1>2, Zenon DEF CloseBegin
  <2>2. e.id \in Session
    BY <1>a DEF GatewayTypeOK, OpenSession
  <2> QED BY <1>c, <2>1, <2>2, Zenon DEF SessionState
<1>3. ASSUME NEW t \in Thread, CloseListener(t) PROVE Goal
  BY <1>3, <1>d, Zenon DEF CloseListener, ledgerVars
<1>4. ASSUME NEW t \in Thread, CloseEnd(t) PROVE Goal
  BY <1>4, <1>b, <1>c, Zenon DEF CloseEnd, SessionState
<1>5. ASSUME NEW t \in Thread, Answer(t) PROVE Goal
  BY <1>5, <1>d, Zenon DEF Answer, ledgerVars
<1>6. ASSUME NEW t \in Thread, TakeClosed(t) PROVE Goal
  BY <1>6, <1>d, Zenon DEF TakeClosed, ledgerVars
<1>7. ASSUME NEW t \in Thread, TakeTarget(t) PROVE Goal
  BY <1>7, <1>d, Zenon DEF TakeTarget, ledgerVars
<1>8. ASSUME NEW t \in Thread, OpenReplay(t) PROVE Goal
  BY <1>8, <1>d, Zenon DEF OpenReplay, ledgerVars
<1>9. ASSUME NEW t \in Thread, OpenDenied(t) PROVE Goal
  <2>1. \A s \in Session : records'[s] = records[s] \/ records'[s] = Absent
    BY <1>9, <1>a, Collects, Zenon DEF OpenDenied
  <2>2. Shrinks
    BY <2>1, Zenon DEF Shrinks
  <2> QED BY <2>2, ShrinkKeeps, Zenon DEF Goal
<1>10. ASSUME NEW t \in Thread, OpenAccepted(t) PROVE Goal
  <2>1. PICK s \in Session : Admitted(t, s)
    BY <1>10, <1>a, Admits, Zenon
  <2> QED BY <1>a, <2>1, AdmissionKeeps, Zenon DEF Goal
<1>11. ASSUME NEW t \in Thread, Arm(t) PROVE Goal
  BY <1>11, <1>b, <1>c, Zenon DEF Arm, SessionState
<1>12. ASSUME NEW t \in Thread, SpawnAgent(t) PROVE Goal
  BY <1>12, <1>b, <1>c, Zenon DEF SpawnAgent, SessionState
<1>13. ASSUME NEW t \in Thread, Abandon(t) PROVE Goal
  BY <1>13, <1>d, Zenon DEF Abandon, ledgerVars
<1>14. ASSUME NEW t \in Thread, DriveAwaiting(t) PROVE Goal
  BY <1>14, <1>b, <1>c, Zenon DEF DriveAwaiting, Drive, SessionState
<1>15. ASSUME NEW t \in Thread, AwaitCheck(t) PROVE Goal
  BY <1>15, <1>d, Zenon DEF AwaitCheck, ledgerVars
<1>16. ASSUME NEW t \in Thread, AwaitRegister(t) PROVE Goal
  BY <1>16, <1>d, Zenon DEF AwaitRegister, ledgerVars
<1>17. ASSUME NEW t \in Thread, AwaitWoken(t) PROVE Goal
  BY <1>17, <1>d, Zenon DEF AwaitWoken, ledgerVars
<1>18. ASSUME NEW t \in Thread, DriveRunning(t) PROVE Goal
  BY <1>18, <1>b, <1>c, Zenon DEF DriveRunning, Drive, SessionState
<1>19. ASSUME NEW t \in Thread, Insert(t) PROVE Goal
  BY <1>19, <1>d, Zenon DEF Insert, ledgerVars
<1>20. ASSUME NEW t \in Thread, Fail(t) PROVE Goal
  BY <1>20, <1>b, <1>c, Zenon DEF Fail, SessionState
<1>21. ASSUME NEW s \in Session, Verify(s) PROVE Goal
  BY <1>21, <1>d, Zenon DEF Verify, ledgerVars
<1>22. ASSUME NEW s \in Session, Notify(s) PROVE Goal
  BY <1>22, <1>d, Zenon DEF Notify, ledgerVars
<1> QED
  BY <1>1, <1>2, <1>3, <1>4, <1>5, <1>6, <1>7, <1>8, <1>9, <1>10, <1>11, <1>12, <1>13,
     <1>14, <1>15, <1>16, <1>17, <1>18, <1>19, <1>20, <1>21, <1>22, Zenon
  DEF Goal, GatewayNext, ThreadStep, CloseStep, OpenStep
-----------------------------------------------------------------------------
\* At the start nothing is open.
LEMMA GatewayStart ==
    ASSUME GatewayInit
    PROVE  GatewayInv /\ LedgerLimitsHold
<1>1. GatewayTypeOK
  BY GatewayAssumption DEF GatewayInit, GatewayTypeOK, At
<1>2. \A s \in Session : ~InTable(s) /\ \A t \in Thread : ~Holds(t, s)
  BY OwnIsOwn, Zenon DEF GatewayInit, Holds, InTable
<1>3. OneHolder /\ Fresh /\ Progress
  <2>1. /\ \A s \in Session : /\ records[s] = Absent /\ sessions[s] = Absent
                               /\ listener[s] = "none" /\ agent[s] = "none" /\ handshake[s] = "none"
        /\ \A t \in Thread : open[t] = Absent /\ expired[t] = {}
    BY Zenon DEF GatewayInit
  <2>2. OneHolder /\ Progress
    BY <1>2, Zenon DEF OneHolder, Progress, Holds
  <2>3. Fresh
    BY <2>1, Zenon DEF Fresh
  <2> QED BY <2>2, <2>3, Zenon
<1>4. ThreadOpens
  BY Zenon DEF GatewayInit, ThreadOpens, Driving
<1>5. Tracked = {} /\ Active = {}
  BY Zenon DEF GatewayInit, Tracked, Active
<1>6. LedgerLimitsHold
  <2>1. Cardinality(Tracked) = 0
    BY <1>5, FS_EmptySet, Zenon
  <2> QED BY <1>5, <2>1, GatewayAssumption DEF LedgerLimitsHold
<1> QED BY <1>1, <1>3, <1>4, <1>5, <1>6, Zenon DEF GatewayInv, RunningIsServed, FailedIsReleased

\* The invariant of the gateway.
THEOREM GatewaySafe == GatewaySafety => [](GatewayInv /\ LedgerLimitsHold)
<1>1. GatewayInit => GatewayInv /\ LedgerLimitsHold
  BY GatewayStart, Zenon
<1>2. GatewayInv /\ LedgerLimitsHold /\ [GatewayNext]_gatewayVars => (GatewayInv /\ LedgerLimitsHold)'
  <2> SUFFICES ASSUME GatewayInv, LedgerLimitsHold, [GatewayNext]_gatewayVars
               PROVE  GatewayInv' /\ LedgerLimitsHold'
    BY Zenon
  <2>1. CASE GatewayNext
    BY <2>1, TypesStep, HolderStep, FreshStep, OpensStep, ProgressStep, LimitsStep, Zenon DEF GatewayInv
  <2>2. CASE UNCHANGED gatewayVars
    <3>1. GatewayInv'
      <4> USE <2>2 DEF gatewayVars, ledgerVars, resourceVars, threadVars, callVars
      <4>1. GatewayTypeOK'
        BY Zenon DEF GatewayInv, GatewayTypeOK
      <4>2. OneHolder' /\ Fresh' /\ ThreadOpens'
        BY DEF GatewayInv, OneHolder, Holds, InTable, Fresh, ThreadOpens
      <4>3. Progress'
        <5>1. UNCHANGED <<records, sessions, listener, agent, handshake, at, open, expired>>
          BY Zenon
        <5>2. ASSUME NEW s \in Session, NEW step, Reached(s, step) PROVE Reached(s, step)'
          <6>1. Kept(s)
            BY <5>1, Zenon DEF Kept
          <6> QED BY <5>2, <6>1, Keeps, Zenon
        <5>3. ASSUME NEW s \in Session, NEW t \in Thread, open[t] = Own(s) PROVE Reached(s, at[t])'
          <6>1. Reached(s, at[t])
            BY <5>3, Zenon DEF GatewayInv, Progress
          <6> QED BY <5>1, <6>1, Zenon DEF Reached, In, Ended, Armed, Served, Released
        <5> QED BY <5>1, <5>2, <5>3, Zenon DEF GatewayInv, Progress, InTable
      <4>4. RunningIsServed' /\ FailedIsReleased'
        BY Zenon DEF GatewayInv, RunningIsServed, FailedIsReleased, Tracked
      <4> QED BY <4>1, <4>2, <4>3, <4>4, Zenon DEF GatewayInv
    <3>2. Shrinks
      BY <2>2, Zenon DEF gatewayVars, ledgerVars, Shrinks
    <3> QED BY <3>1, <3>2, ShrinkKeeps, Zenon
  <2> QED BY <2>1, <2>2, Zenon
<1> QED BY <1>1, <1>2, PTL DEF GatewaySafety

\* The types, for every behaviour of the gateway.
THEOREM GatewayTypes == GatewaySafety => []GatewayTypeOK
<1>1. GatewayInv => GatewayTypeOK
  BY Zenon DEF GatewayInv
<1> QED BY <1>1, GatewaySafe, PTL

\* The ledger never exceeds its limits: one active session for a target, one record
\* for an operation of a principal, the quotas and the ceiling (SessionLedger).
THEOREM LimitsHold == GatewaySafety => []LedgerLimitsHold
BY GatewaySafe, PTL

\* A session the ledger calls Running has its listener, its agent and its
\* handshake, whichever threads open, replay and close it.
THEOREM RunningServed == GatewaySafety => []RunningIsServed
<1>1. GatewayInv => RunningIsServed
  BY Zenon DEF GatewayInv
<1> QED BY <1>1, GatewaySafe, PTL

\* A session the ledger calls Failed has left no listener and no agent behind
\* (the compensating cleanup of drive_open).
THEOREM FailedReleased == GatewaySafety => []FailedIsReleased
<1>1. GatewayInv => FailedIsReleased
  BY Zenon DEF GatewayInv
<1> QED BY <1>1, GatewaySafe, PTL

\* Handles the table offers are good: no other request has closed the listener or
\* cleaned the agent up.
THEOREM HandlesGood == GatewaySafety => []TableHandlesAreGood
<1>1. GatewayInv => TableHandlesAreGood
  BY Zenon DEF GatewayInv, Progress, InTable, Reached, Served, TableHandlesAreGood
<1> QED BY <1>1, GatewaySafe, PTL
=============================================================================
