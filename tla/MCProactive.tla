----------------------------- MODULE MCProactive -----------------------------
(***************************************************************************)
(* What the background scheduler does of its own accord, for TLC: the      *)
(* checks of a promise, the heartbeat rounds over a watched source and the *)
(* wakes of an agent.  They share no state: the initial states choose a    *)
(* part, and only that part moves.                                         *)
(***************************************************************************)
EXTENDS Promises, HeartbeatRounds, Wakes

VARIABLE part

ProactiveInit ==
    /\ part \in {"promise", "rounds", "wakes"}
    /\ PromiseInit /\ HbInit /\ WakeInit
    /\ part # "promise" => promise.kind = "time"

ProactiveNext ==
    /\ UNCHANGED part
    /\ \/ part = "promise" /\ PromiseNext /\ UNCHANGED <<hbVars, wakeVars>>
       \/ part = "rounds" /\ HbNext /\ UNCHANGED <<promiseVars, wakeVars>>
       \/ part = "wakes" /\ WakeNext /\ UNCHANGED <<promiseVars, hbVars>>

\* The fairness of each specification, for the part that moves.
ProactiveFairness ==
    /\ WF_promiseVars(part = "promise" /\ PromiseTime)
    /\ WF_promiseVars(part = "promise" /\ \E s \in Scheduler : CheckStep(s))
    /\ WF_hbVars(part = "rounds" /\ \E r \in HbLeader : StartRound(r))
    /\ \A r \in HbLeader : WF_hbVars(part = "rounds" /\ RoundStep(r))

ProactiveSpec ==
    ProactiveInit /\ [][ProactiveNext]_<<part, promiseVars, hbVars, wakeVars>> /\ ProactiveFairness

\* What holds of every promise: its checks go out once and are counted, it does
\* not expire unheard, and whatever happens it ends.  (The promise of a behaviour
\* in which another part moves stays open.)
PromisesKept == []PromisesHold /\ <>(part = "promise" => PromiseEnded)

ProactiveTypeOK == PromiseTypeOK /\ HbTypeOK /\ WakeTypeOK
=============================================================================
