----------------------------- MODULE TurnAbort ------------------------------
(***************************************************************************)
(* Aborting a session's turn: the flag and the channel of                  *)
(* src/queue/pubsub.ts, the dispatch that clears the flag                  *)
(* (gateway/core/dispatch.ts), the claim that reads it and the turn that   *)
(* subscribes (node/worker.ts), and AgentManager.abort, which reaches a    *)
(* live child only.                                                        *)
(*                                                                         *)
(* One session.  Jobs are claimed in any order on any node; the session    *)
(* lock lets one of them run.  The flag's 10 min are longer than a         *)
(* behaviour.                                                              *)
(***************************************************************************)
EXTENDS Naturals, FiniteSets

CONSTANTS
    AMsg,        \* messages, in the order they are sent
    AJob,        \* jobs a dispatch may make, as many as messages
    MaxAborts,   \* bound: aborts asked for
    MaxTimeouts  \* bound: turns that reach the turn timeout

ASSUME AbortAssumption ==
    AMsg \subseteq Nat \ {0} /\ AJob = AMsg /\ MaxAborts \in Nat /\ MaxTimeouts \in Nat

VARIABLES
    msg,      \* msg[m]: "unsent", "cleared" the flag, or "queued"
    turn,     \* turn[j]: its messages, its state, how it ended
    abFlag,   \* the key abort:<session>
    aborter,  \* the gateway, between the two commands of publishAbort
    eaters,   \* GETDELs sent by abortAgent and not yet served
    asked,    \* messages sent before some abort set the flag
    owed,     \* jobs the last abort has to stop: unclaimed, or in flight
    abSpent

abVars == <<msg, turn, abFlag, aborter, eaters, asked, owed, abSpent>>

InFlight == {"claimed", "listening", "live"}
NoOwed == [queued |-> {}, flying |-> {}]

AbInit ==
    /\ msg = [m \in AMsg |-> "unsent"]
    /\ turn = [j \in AJob |-> [msgs |-> {}, st |-> "none", out |-> "open", warm |-> FALSE]]
    /\ abFlag = FALSE /\ aborter = "idle" /\ eaters = 0
    /\ asked = {} /\ owed = NoOwed
    /\ abSpent = [aborts |-> 0, timeouts |-> 0]

In(st) == {j \in AJob : turn[j].st \in st}
End(j, how) == [turn EXCEPT ![j].st = "over", ![j].out = how]

-----------------------------------------------------------------------------
(***************************************************************************)
(* The gateway                                                             *)
(***************************************************************************)
\* A fresh message supersedes an abort no turn has taken.
SendBegins(m) ==
    /\ msg[m] = "unsent" /\ \A k \in AMsg : k < m => msg[k] = "queued"
    /\ msg' = [msg EXCEPT ![m] = "cleared"]
    /\ abFlag' = FALSE
    /\ owed' = [owed EXCEPT !.queued = {}]
    /\ UNCHANGED <<turn, aborter, eaters, asked, abSpent>>

\* It joins the session's waiting job or is a job of its own.
SendEnqueues(m) ==
    /\ msg[m] = "cleared"
    /\ msg' = [msg EXCEPT ![m] = "queued"]
    /\ turn' = IF In({"waiting"}) = {}
               THEN [turn EXCEPT ![m].msgs = {m}, ![m].st = "waiting"]
               ELSE LET j == CHOOSE j \in In({"waiting"}) : TRUE
                    IN [turn EXCEPT ![j].msgs = @ \cup {m}]
    /\ UNCHANGED <<abFlag, aborter, eaters, asked, owed, abSpent>>

\* What an abort asked for now has to stop: the turn in flight, or the one job
\* that waits when there is no such turn and no late GETDEL of one.
OwedNow == [queued |-> IF /\ In(InFlight) = {} /\ eaters = 0
                          /\ \E j \in AJob : In({"waiting"}) = {j}
                       THEN In({"waiting"}) ELSE {},
            flying |-> In(InFlight)]

\* publishAbort: the flag, then the message.
SetAbortFlag ==
    /\ aborter = "idle" /\ abSpent.aborts < MaxAborts
    /\ aborter' = "set" /\ abFlag' = TRUE
    /\ asked' = {m \in AMsg : msg[m] # "unsent"} /\ owed' = OwedNow
    /\ abSpent' = [abSpent EXCEPT !.aborts = @ + 1]
    /\ UNCHANGED <<msg, turn, eaters>>

\* abortAgent: eat the flag, later, and abort the session's child.  A child
\* that is still booting is not in the manager's map.
Reached(j) == turn[j].st = "live" \/ (turn[j].st = "listening" /\ turn[j].warm)

PublishAbort ==
    /\ aborter = "set" /\ aborter' = "idle"
    /\ LET hear == In({"listening", "live"}) IN
       /\ eaters' = eaters + Cardinality(hear)
       /\ turn' = [j \in AJob |-> IF j \in hear /\ Reached(j)
                                  THEN [turn[j] EXCEPT !.st = "over", !.out = "aborted"] ELSE turn[j]]
    /\ UNCHANGED <<msg, abFlag, asked, owed, abSpent>>

FlagEaten ==
    /\ eaters > 0 /\ eaters' = eaters - 1 /\ abFlag' = FALSE
    /\ UNCHANGED <<msg, turn, aborter, asked, owed, abSpent>>

-----------------------------------------------------------------------------
(***************************************************************************)
(* The nodes                                                               *)
(***************************************************************************)
\* Mutant: the flag is left for whoever reads it next.
ClaimTurn_Peek(j) ==
    /\ turn[j].st = "waiting"
    /\ turn' = IF abFlag THEN End(j, "skipped") ELSE [turn EXCEPT ![j].st = "claimed"]
    /\ UNCHANGED <<msg, abFlag, aborter, eaters, asked, owed, abSpent>>

\* The claim reads and deletes the flag; a flagged turn is skipped.
ClaimTurn(j) ==
    /\ turn[j].st = "waiting"
    /\ abFlag' = FALSE
    /\ turn' = IF abFlag THEN End(j, "skipped") ELSE [turn EXCEPT ![j].st = "claimed"]
    /\ UNCHANGED <<msg, aborter, eaters, asked, owed, abSpent>>

\* The session is locked by the turn in flight: the job waits and is claimed
\* again, which reads the flag again.
Requeue(j) ==
    /\ turn[j].st = "claimed" /\ In({"listening", "live"}) # {}
    /\ turn' = [turn EXCEPT ![j].st = "waiting"]
    /\ UNCHANGED <<msg, abFlag, aborter, eaters, asked, owed, abSpent>>

\* The token is fresh, the lock is held, and runTurn has subscribed.
Listen(j, w) ==
    /\ turn[j].st = "claimed" /\ In({"listening", "live"}) = {}
    /\ turn' = [turn EXCEPT ![j].st = "listening", ![j].warm = w]
    /\ UNCHANGED <<msg, abFlag, aborter, eaters, asked, owed, abSpent>>

ChildIsLive(j) ==
    /\ turn[j].st = "listening"
    /\ turn' = [turn EXCEPT ![j].st = "live"]
    /\ UNCHANGED <<msg, abFlag, aborter, eaters, asked, owed, abSpent>>

TurnRan(j) ==
    /\ turn[j].st = "live"
    /\ turn' = End(j, "ran")
    /\ UNCHANGED <<msg, abFlag, aborter, eaters, asked, owed, abSpent>>

\* The timeout ends a turn the way an abort does.
TurnTimesOut(j) ==
    /\ turn[j].st = "live" /\ abSpent.timeouts < MaxTimeouts
    /\ turn' = End(j, "aborted")
    /\ eaters' = eaters + 1
    /\ abSpent' = [abSpent EXCEPT !.timeouts = @ + 1]
    /\ UNCHANGED <<msg, abFlag, aborter, asked, owed>>

-----------------------------------------------------------------------------
AbNext ==
    \/ \E m \in AMsg : SendBegins(m) \/ SendEnqueues(m)
    \/ SetAbortFlag \/ PublishAbort \/ FlagEaten
    \/ \E j \in AJob :
          \/ ClaimTurn(j) \/ Requeue(j) \/ ChildIsLive(j) \/ TurnRan(j) \/ TurnTimesOut(j)
          \/ \E w \in BOOLEAN : Listen(j, w)

AbSpec == AbInit /\ [][AbNext]_abVars

-----------------------------------------------------------------------------
(***************************************************************************)
(* Properties                                                              *)
(***************************************************************************)
AbTypeOK ==
    /\ msg \in [AMsg -> {"unsent", "cleared", "queued"}]
    /\ turn \in [AJob -> [msgs : SUBSET AMsg, st : {"none", "waiting", "over"} \cup InFlight,
                          out : {"open", "skipped", "aborted", "ran"}, warm : BOOLEAN]]
    /\ abFlag \in BOOLEAN /\ aborter \in {"idle", "set"}
    /\ eaters \in 0..(MaxAborts + MaxTimeouts)
    /\ asked \subseteq AMsg
    /\ owed \in [queued : SUBSET AJob, flying : SUBSET AJob]
    /\ abSpent \in [aborts : 0..MaxAborts, timeouts : 0..MaxTimeouts]

\* dispatch.ts:317 "A fresh user message supersedes any lingering abort": a turn
\* that is skipped holds only messages sent before the abort.
SkipsOnlyAborted == \A j \in AJob : turn[j].out = "skipped" => turn[j].msgs \subseteq asked

\* An abort of a turn nobody has claimed is found at its claim, on whichever
\* node and however late, unless a newer message superseded it.
UnclaimedIsSkipped == \A j \in owed.queued : turn[j].out # "ran"

\* One abort skips one turn: the flag is gone once it was read.
OneSkipPerAbort == Cardinality({j \in AJob : turn[j].out = "skipped"}) <= abSpent.aborts

\* An abort flag skips the turn it was set for, and only that one.
FlagSkipsItsTurn == SkipsOnlyAborted /\ UnclaimedIsSkipped /\ OneSkipPerAbort

\* pubsub.ts:83 "if no node is subscribed right now [..], whichever node starts
\* the turn finds the flag via consumeAbortFlag": an abort stops the turn in
\* flight, wherever it is between its claim and its end.  It does not: between
\* the flag's reading and the subscription nobody looks, and until the child is
\* live nobody hears.
AbortStops == \A j \in owed.flying : turn[j].st = "over" => turn[j].out # "ran" \/ aborter = "set"

\* worker.ts:743 the flag is consumed by the turn that is aborted "or it would
\* linger and silently skip the session's NEXT turn": it is, but later than the
\* next job, queued meanwhile, may be claimed and read it.
NextTurnKept ==
    [][\A j \in AJob : (\E k \in AJob \ {j} : k \in owed.flying /\ turn[k].out = "aborted")
            => ~(turn[j].out # "skipped" /\ turn'[j].out = "skipped")]_abVars
=============================================================================
