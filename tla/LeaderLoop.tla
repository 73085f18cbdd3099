----------------------------- MODULE LeaderLoop -----------------------------
(***************************************************************************)
(* leaderLoop (src/queue/locks.ts): leader election for the singleton      *)
(* roles (cron, reaper, background).  Each replica ticks on a timer that   *)
(* does not wait for the previous tick; a tick sends one command and acts  *)
(* on its reply later.  Commands and replies of a replica travel one FIFO  *)
(* connection.  A leadership term is one run of fn.                        *)
(***************************************************************************)
EXTENDS Naturals, Sequences

CONSTANTS
    Replica,
    NoReplica,    \* the leader key does not exist
    MaxInFlight,  \* commands a replica has outstanding (1: replies beat ticks)
    MaxTerms,     \* bound: terms per replica
    MaxLeaseLapses,    \* bound: TTLs that run out under a replica that is up
    MaxErrors     \* bound: connections lost with the commands on them

ASSUME LeaderLoopAssumption ==
    /\ NoReplica \notin Replica
    /\ {MaxInFlight, MaxTerms} \subseteq Nat \ {0}
    /\ {MaxLeaseLapses, MaxErrors} \subseteq Nat

VARIABLES
    leaderKey,      \* owner of the leader key
    mode,      \* the replica: up, stopping (awaits fn), stopped, dead
    leader,    \* its `leader` flag
    fn,        \* fn[r][k]: the run of fn of r's k-th term
    sent,      \* commands Redis has not executed
    reply,     \* replies r has not handled (only those that change its state)
    leaseLapses, errors

loopVars == <<leaderKey, mode, leader, fn, sent, reply, leaseLapses, errors>>

Term == 1..MaxTerms

LoopInit ==
    /\ leaderKey = NoReplica
    /\ mode = [r \in Replica |-> "up"]
    /\ leader = [r \in Replica |-> FALSE]
    /\ fn = [r \in Replica |-> [k \in Term |-> "none"]]
    /\ sent = [r \in Replica |-> << >>]
    /\ reply = [r \in Replica |-> << >>]
    /\ leaseLapses = 0
    /\ errors = 0

Outstanding(r) == Len(sent[r]) + Len(reply[r])
TermsOf(r) == {k \in Term : fn[r][k] # "none"}
Working(r, k) == fn[r][k] = "running"

HasTerm(r) == mode[r] = "up" /\ TermsOf(r) # Term

(***************************************************************************)
(* tick: SET NX as a follower, compare-owner PEXPIRE as the leader.        *)
(***************************************************************************)
\* The interval is live; stop() clears it and a late tick returns at once.
Ticking(r) == mode[r] = "up"

Tick(r) ==
    /\ Ticking(r)
    /\ Outstanding(r) < MaxInFlight
    /\ leader[r] \/ TermsOf(r) # Term
    /\ sent' = [sent EXCEPT ![r] =
                   Append(@, IF leader[r] THEN "extend" ELSE "set")]
    /\ UNCHANGED <<leaderKey, mode, leader, fn, reply, leaseLapses, errors>>

SetNX(r) == leaderKey = NoReplica

\* Redis executes SET NX; a null reply changes nothing on the replica.
ExecuteSet(r) ==
    /\ sent[r] # << >> /\ Head(sent[r]) = "set"
    /\ sent' = [sent EXCEPT ![r] = Tail(@)]
    /\ IF SetNX(r)
       THEN /\ leaderKey' = r
            /\ reply' = [reply EXCEPT ![r] = Append(@, "won")]
       ELSE UNCHANGED <<leaderKey, reply>>
    /\ UNCHANGED <<mode, leader, fn, leaseLapses, errors>>

\* Redis executes EXTEND_IF_OWNER; success changes nothing on the replica.
ExecuteExtend(r) ==
    /\ sent[r] # << >> /\ Head(sent[r]) = "extend"
    /\ sent' = [sent EXCEPT ![r] = Tail(@)]
    /\ reply' = IF leaderKey = r THEN reply
                ELSE [reply EXCEPT ![r] = Append(@, "lost")]
    /\ UNCHANGED <<leaderKey, mode, leader, fn, leaseLapses, errors>>

\* RELEASE_IF_OWNER.
DelIfOwner(r) == IF leaderKey = r THEN NoReplica ELSE leaderKey

ExecuteRelease(r) ==
    /\ sent[r] # << >> /\ Head(sent[r]) = "release"
    /\ sent' = [sent EXCEPT ![r] = Tail(@)]
    /\ leaderKey' = DelIfOwner(r)
    /\ UNCHANGED <<mode, leader, fn, reply, leaseLapses, errors>>

\* The reply OK: the replica leads and fn starts.  `stopped` is not read again.
Won(r) ==
    /\ reply[r] # << >> /\ Head(reply[r]) = "won"
    /\ TermsOf(r) # Term
    /\ reply' = [reply EXCEPT ![r] = Tail(@)]
    /\ leader' = [leader EXCEPT ![r] = TRUE]
    /\ LET k == CHOOSE i \in Term : \A j \in Term : fn[r][j] = "none" <=> j >= i
       IN  fn' = [fn EXCEPT ![r][k] = "running"]
    /\ UNCHANGED <<leaderKey, mode, sent, leaseLapses, errors>>

\* Mutant: demote clears the flag and forgets the abort.
DemoteFn_NoAbort(r) == fn

\* demote aborts the controller of the latest term, the only one it keeps.
DemoteFn(r) ==
    [fn EXCEPT ![r] =
        [k \in Term |-> IF @[k] = "running" /\ leader[r]
                           /\ \A j \in TermsOf(r) : j <= k
                        THEN "aborted" ELSE @[k]]]

\* A failed renewal: demote.
Lost(r) ==
    /\ reply[r] # << >> /\ Head(reply[r]) = "lost"
    /\ reply' = [reply EXCEPT ![r] = Tail(@)]
    /\ leader' = [leader EXCEPT ![r] = FALSE]
    /\ fn' = DemoteFn(r)
    /\ UNCHANGED <<leaderKey, mode, sent, leaseLapses, errors>>

\* The connection fails under the outstanding commands: onError, the loop
\* keeps going.  A SET that was executed stays executed.
ConnectionLost(r) ==
    /\ Outstanding(r) > 0
    /\ errors < MaxErrors
    /\ sent' = [sent EXCEPT ![r] = << >>]
    /\ reply' = [reply EXCEPT ![r] = << >>]
    /\ errors' = errors + 1
    /\ UNCHANGED <<leaderKey, mode, leader, fn, leaseLapses>>

(***************************************************************************)
(* The environment: fn winds down after an abort, the TTL, a crash.        *)
(***************************************************************************)
FnEnds(r) ==
    /\ \E k \in Term :
          /\ fn[r][k] = "aborted"
          /\ fn' = [fn EXCEPT ![r][k] = "ended"]
    /\ UNCHANGED <<leaderKey, mode, leader, sent, reply, leaseLapses, errors>>

\* Nobody will renew the key: its owner is gone or does not know it leads.
Unrenewed(r) ==
    mode[r] # "up" \/ (~leader[r] /\ \A i \in DOMAIN reply[r] : reply[r][i] # "won")

\* Mutant: SET without PX.
LapseUnrenewed_NoTTL == FALSE /\ UNCHANGED loopVars

LapseUnrenewed ==
    /\ leaderKey # NoReplica
    /\ Unrenewed(leaderKey)
    /\ leaderKey' = NoReplica
    /\ UNCHANGED <<mode, leader, fn, sent, reply, leaseLapses, errors>>

LeaseRunsOut ==
    /\ leaderKey # NoReplica
    /\ ~Unrenewed(leaderKey)
    /\ leaseLapses < MaxLeaseLapses
    /\ leaderKey' = NoReplica
    /\ leaseLapses' = leaseLapses + 1
    /\ UNCHANGED <<mode, leader, fn, sent, reply, errors>>

ReplicaDies(r) ==
    /\ mode[r] # "dead"
    /\ mode' = [mode EXCEPT ![r] = "dead"]
    /\ leader' = [leader EXCEPT ![r] = FALSE]
    /\ fn' = [fn EXCEPT ![r] = [k \in Term |-> IF @[k] = "none" THEN "none" ELSE "ended"]]
    /\ sent' = [sent EXCEPT ![r] = << >>]
    /\ reply' = [reply EXCEPT ![r] = << >>]
    /\ UNCHANGED <<leaderKey, leaseLapses, errors>>

(***************************************************************************)
(* stop: clear the timer, demote, await the latest fn, release if leader.  *)
(***************************************************************************)
Stop(r) ==
    /\ mode[r] = "up"
    /\ mode' = [mode EXCEPT ![r] = IF leader[r] THEN "stopping" ELSE "stopped"]
    /\ leader' = [leader EXCEPT ![r] = FALSE]
    /\ fn' = DemoteFn(r)
    /\ UNCHANGED <<leaderKey, sent, reply, leaseLapses, errors>>

StopReleases(r) ==
    /\ mode[r] = "stopping"
    /\ \A k \in Term : (\A j \in TermsOf(r) : j <= k) => fn[r][k] # "aborted"
    /\ mode' = [mode EXCEPT ![r] = "stopped"]
    /\ sent' = [sent EXCEPT ![r] = Append(@, "release")]
    /\ UNCHANGED <<leaderKey, leader, fn, reply, leaseLapses, errors>>

\* Every replica is stopped or dead: nothing is left to happen.
LoopOver ==
    /\ \A r \in Replica : mode[r] \in {"stopped", "dead"} /\ Outstanding(r) = 0
    /\ UNCHANGED loopVars

LoopNext ==
    \/ \E r \in Replica :
          \/ Tick(r) \/ ExecuteSet(r) \/ ExecuteExtend(r) \/ ExecuteRelease(r)
          \/ Won(r) \/ Lost(r) \/ ConnectionLost(r)
          \/ FnEnds(r) \/ ReplicaDies(r) \/ Stop(r) \/ StopReleases(r)
    \/ LapseUnrenewed
    \/ LeaseRunsOut
    \/ LoopOver

LoopSpec == LoopInit /\ [][LoopNext]_loopVars

(***************************************************************************)
(* Fairness: timers fire, Redis answers, replies are handled, an aborted   *)
(* fn ends, a TTL nobody renews runs out.                                  *)
(***************************************************************************)
LoopFairSpec ==
    /\ LoopSpec
    /\ WF_loopVars(LapseUnrenewed)
    /\ \A r \in Replica :
          /\ WF_loopVars(Tick(r))
          /\ WF_loopVars(ExecuteSet(r)) /\ WF_loopVars(ExecuteExtend(r))
          /\ WF_loopVars(ExecuteRelease(r))
          /\ WF_loopVars(Won(r)) /\ WF_loopVars(Lost(r))
          /\ WF_loopVars(FnEnds(r)) /\ WF_loopVars(StopReleases(r))

-----------------------------------------------------------------------------
Mode == {"up", "stopping", "stopped", "dead"}
FnState == {"none", "running", "aborted", "ended"}

LoopTypeOK ==
    /\ leaderKey \in Replica \cup {NoReplica}
    /\ mode \in [Replica -> Mode]
    /\ leader \in [Replica -> BOOLEAN]
    /\ fn \in [Replica -> [Term -> FnState]]
    /\ sent \in [Replica -> Seq({"set", "extend", "release"})]
    /\ reply \in [Replica -> Seq({"won", "lost"})]
    /\ leaseLapses \in Nat
    /\ errors \in Nat

\* Until a TTL runs out under a replica that renews it, at most one replica
\* that is up runs an unaborted fn: a cron job, a reaper pass or a background
\* slot has one owner (locks.ts leaderLoop).
OneWorker ==
    leaseLapses = 0 =>
        \A r, s \in Replica : \A j, k \in Term :
            /\ mode[r] = "up" /\ Working(r, j)
            /\ mode[s] = "up" /\ Working(s, k)
            => r = s

\* A replica that does not lead runs no unaborted fn: losing the key aborts
\* the signal of the term (leaderLoop's demote).
OnlyLeadersWork ==
    \A r \in Replica : mode[r] = "up" =>
        \A k \in Term : Working(r, k) => leader[r]

\* A role has one worker, and it leads.
LeadersWorkAlone == OneWorker /\ OnlyLeadersWork

\* "stop contending" (locks.ts:130): after stop() returned, no fn starts.
StoppedIsIdle ==
    \A r \in Replica : mode[r] = "stopped" => \A k \in Term : ~Working(r, k)

\* A leader whose key is gone stops working: the next renewal aborts its fn.
StaleWork ==
    \E r \in Replica : mode[r] = "up" /\ leaderKey # r /\ \E k \in Term : Working(r, k)
StaleLeaderStops == StaleWork ~> ~StaleWork

\* A role does not stay unled: while some replica is up with a term left,
\* the key of a dead, stopped or unknowing leader is taken over.
RoleIsLed ==
    (\E r \in Replica : HasTerm(r))
        ~> (\E r \in Replica : leader[r] /\ mode[r] = "up")
           \/ ~(\E r \in Replica : HasTerm(r))
=============================================================================
