--------------------------- MODULE MCCoordination ---------------------------
(***************************************************************************)
(* What the processes coordinate through Redis, for TLC: a key lock, a     *)
(* leader loop, the followers of a session's events and the registry of    *)
(* the nodes.  They share no state, so one run checks them side by side:   *)
(* the initial states choose a part, and only that part moves.             *)
(***************************************************************************)
EXTENDS KeyLock, LeaderLoop, TurnFollower, NodeRegistry

CONSTANTS c1, c2, c3, c4, r1, r2, A, B, s1, NoN

VARIABLE part

\* The registry under two bounds: two turns whatever happens to the nodes, or
\* every turn while the nodes only run or are killed.
Registry == {"nodes", "kills"}

\* A fresh owner per call (the append lock of turns.ts, leaderLoop).
MCUniqueOwner == [c \in Call |-> c]
\* Two nodes, two jobs of one session each: the worker passes its node id.
MCNodeOwner == [c \in Call |-> IF c \in {c1, c2} THEN "n1" ELSE "n2"]

CoordinationInit ==
    /\ part \in {"lock", "loop", "follower"} \cup Registry
    /\ Init /\ LoopInit /\ FollowerInit /\ RegInit

CoordinationNext ==
    /\ UNCHANGED part
    /\ \/ part = "lock" /\ Next /\ UNCHANGED <<loopVars, followerVars, regVars>>
       \/ part = "loop" /\ LoopNext /\ UNCHANGED <<vars, followerVars, regVars>>
       \/ part = "follower" /\ FollowerNext /\ UNCHANGED <<vars, loopVars, regVars>>
       \/ /\ part \in Registry /\ RegNext /\ UNCHANGED <<vars, loopVars, followerVars>>
          /\ IF part = "kills" THEN OnlyKills' ELSE route'.j < 3
       \* Followers and nodes may come to rest; a lock or a loop that does is stuck.
       \/ part \in {"follower"} \cup Registry /\ UNCHANGED <<vars, loopVars, followerVars, regVars>>

\* The fairness of each specification, for the part that moves.
LockFairness ==
    /\ WF_vars(part = "lock" /\ LapseGone)
    /\ \A c \in Call :
          WF_vars(part = "lock" /\ Extend(c)) /\ WF_vars(part = "lock" /\ StopsOnAbort(c))

LoopFairness ==
    /\ WF_loopVars(part = "loop" /\ LapseUnrenewed)
    /\ \A r \in Replica :
          /\ WF_loopVars(part = "loop" /\ Tick(r))
          /\ WF_loopVars(part = "loop" /\ ExecuteSet(r)) /\ WF_loopVars(part = "loop" /\ ExecuteExtend(r))
          /\ WF_loopVars(part = "loop" /\ ExecuteRelease(r))
          /\ WF_loopVars(part = "loop" /\ Won(r)) /\ WF_loopVars(part = "loop" /\ Lost(r))
          /\ WF_loopVars(part = "loop" /\ FnEnds(r)) /\ WF_loopVars(part = "loop" /\ StopReleases(r))

FollowerFairness ==
    /\ \A j \in Job : WF_followerVars(part = "follower" /\ Node(j))
    /\ \A r \in FReplica :
          WF_followerVars(part = "follower" /\ Dispatch(r)) /\ WF_followerVars(part = "follower" /\ Loop(r))

RegFairness ==
    /\ WF_regVars(part \in Registry /\ ReapStep) /\ WF_regVars(part \in Registry /\ EnqueueJob)
    /\ \A n \in RNode :
          /\ WF_regVars(part \in Registry /\ Beat(n)) /\ WF_regVars(part \in Registry /\ Resume(n))
          /\ WF_regVars(part \in Registry /\ NodeDown(n))
          /\ WF_regVars(part \in Registry /\ node[n] # "up" /\ KeyExpires(n))
          /\ \A j \in RJob : WF_regVars(part \in Registry /\ EndOfTurn(n, j))
    /\ \A s \in RSess : WF_regVars(part \in Registry /\ EntryExpires(s))

CoordinationSpec ==
    /\ CoordinationInit /\ [][CoordinationNext]_<<part, vars, loopVars, followerVars, regVars>>
    /\ LockFairness /\ LoopFairness /\ FollowerFairness /\ RegFairness

\* RoleIsLed is a claim about replicas that run: elsewhere nobody contends.
RunningRoleIsLed == part = "loop" => RoleIsLed

\* Leadership moves on: a leader whose key is gone stops, and the role of one
\* that died, stopped or does not know it leads is taken over (locks.ts:164-197).
LeadershipMovesOn == StaleLeaderStops /\ RunningRoleIsLed
=============================================================================
