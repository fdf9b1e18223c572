----------------------------- MODULE MCRequests -----------------------------
(* The two ways the daemon's threads serve requests, side by side: under the   *)
(* operation locks, and the gateway's display requests under none.  A          *)
(* behaviour is one of the locks, one of requests about one workload, or one   *)
(* of fewer requests that open several.                                        *)
EXTENDS OpLocks, GatewayDisplay

CONSTANTS s1, s2
VARIABLE part

\* Three workloads of two realms, two peers.
w1 == [realm |-> "r1", workload |-> "w1"]
w2 == [realm |-> "r1", workload |-> "w2"]
w3 == [realm |-> "r2", workload |-> "w3"]

\* Two opens of w1; then one more of its realm and, of the other realm and by the
\* principal of the first, another operation and the first one's with another hash.
Asked(w, p, o, h) == [target |-> w, principal |-> p, operation |-> o, hash |-> h]
OpensOfOne == {Asked(w1, "p1", "o1", 1), Asked(w1, "p2", "o2", 1)}
OpensOfOthers ==
    {Asked(w2, "p2", "o2", 1), Asked(w3, "p1", "o2", 1), Asked(w3, "p1", "o1", 2)}
Opens == OpensOfOne \union OpensOfOthers

AboutOne ==
    [verb : {"Open"}, args : OpensOfOne]
        \union {[verb |-> "Close", id |-> s1, peer |-> "p1"],
                [verb |-> "Stop", target |-> w1], [verb |-> "List"]}
AboutSeveral == [verb : {"Open"}, args : {Asked(w1, "p1", "o1", 1)} \union OpensOfOthers]
DisplayRequests == AboutOne \union AboutSeveral

\* What the clients of a behaviour ask, and one request less about several.
Bounded ==
    \A t \in Thread : request'[t] # request[t] /\ request'[t] # Absent =>
        \/ part = "one" /\ request'[t] \in AboutOne
        \/ part = "several" /\ request'[t] \in AboutSeveral /\ asked' < MaxRequests

\* The gateway's clients ask no more.
Quiet == (\A t \in Thread : at[t] = "idle") /\ UNCHANGED gatewayVars

RequestsInit == LockInit /\ GatewayInit /\ part \in {"locks", "one", "several"}

RequestsNext ==
    /\ UNCHANGED part
    /\ \/ part = "locks" /\ LockNext /\ UNCHANGED gatewayVars
       \/ part # "locks" /\ (GatewayNext \/ Quiet) /\ Bounded /\ UNCHANGED lockVars

RequestsSpec ==
    /\ RequestsInit /\ [][RequestsNext]_<<part, lockVars, gatewayVars>>
    /\ LockFairness /\ GatewayFairness
=============================================================================
