---------------------------- MODULE TurnFollower ----------------------------
(***************************************************************************)
(* The dispatcher's follower (src/gateway/core/dispatch.ts, followEvents): *)
(* one loop per session and gateway replica that reads the session's event *)
(* stream, polls the jobs it watches, shows one outcome per job and stops  *)
(* 3 s after an outcome.                                                   *)
(*                                                                         *)
(* The queue is abstract: jobs are numbered in the order they are added, a *)
(* message joins the job still waiting, and one turn runs at a time.  Moves *)
(* and re-dispatches are TurnSession's.  Only done/error entries of the     *)
(* stream are kept, each as the number of its turn, which the code cannot  *)
(* see.                                                                    *)
(***************************************************************************)
EXTENDS Naturals, Sequences, FiniteSets

CONSTANTS
    FReplica,     \* gateway replicas
    MaxJob,      \* bound: jobs of the session
    MaxLost,     \* bound: outcome events that never reach the stream
    MaxMessages, \* bound: messages dispatched
    Pipelined,   \* a message may be sent while a turn is in flight
    Lag          \* a job may settle within the pass its turn ended in, and the
                 \* 3 s linger may pass during one dispatch or before the pass
                 \* that would show an outcome

Job == 1..MaxJob

ASSUME TurnFollowerAssumption ==
    /\ {MaxJob, MaxLost, MaxMessages} \subseteq Nat
    /\ {Pipelined, Lag} \subseteq BOOLEAN

VARIABLES
    state,    \* state[j]: the job on its queue
    stream,   \* events:<session>, the turns whose outcome was appended
    budget,   \* events that may still be lost, messages still to come
    d,        \* d[r]: the dispatch under way in replica r
    f,        \* f[r]: the follower of replica r
    told,     \* history: told[r][j] outcomes of job j that r showed, up to 2
    left      \* history: jobs a follower stopped without showing

followerVars == <<state, stream, budget, d, f, told, left>>
queue == <<state, stream>>

NoDispatch == [pc |-> "idle", start |-> 0, job |-> 0]
NoFollower == [pc |-> "none", jobs |-> {}, emitted |-> {}, start |-> 0,
               cursor |-> 0, deadline |-> "max", todo |-> {}]

FollowerInit ==
    /\ state = [j \in Job |-> "none"]
    /\ stream = << >>
    /\ budget = [lost |-> MaxLost, messages |-> MaxMessages]
    /\ d = [r \in FReplica |-> NoDispatch]
    /\ f = [r \in FReplica |-> NoFollower]
    /\ told = [r \in FReplica |-> [j \in Job |-> 0]]
    /\ left = {}

Ended(j) == state[j] \in {"ended", "settled"}

-----------------------------------------------------------------------------
(***************************************************************************)
(* The node                                                                *)
(***************************************************************************)
Begin(j) ==
    /\ state[j] = "waiting"
    /\ \A k \in Job : state[k] # "active"
    /\ state' = [state EXCEPT ![j] = "active"]
    /\ UNCHANGED <<stream, budget, d, f, told, left>>

\* The turn's done or error is appended, fire and forget.
EndTurn(j) ==
    /\ state[j] = "active"
    /\ state' = [state EXCEPT ![j] = "ended"]
    /\ \/ /\ stream' = Append(stream, j)
          /\ UNCHANGED budget
       \/ /\ budget.lost > 0
          /\ budget' = [budget EXCEPT !.lost = @ - 1]
          /\ UNCHANGED stream
    /\ UNCHANGED <<d, f, told, left>>

\* A follower that read before j's event was appended is still polling.
Unread(r, j) ==
    /\ f[r].pc = "poll"
    /\ \E p \in DOMAIN stream : stream[p] = j /\ p > f[r].cursor

\* The ack, or the failure, of the job.
Settle(j) ==
    /\ state[j] = "ended"
    /\ Lag \/ \A r \in FReplica : ~Unread(r, j)
    /\ state' = [state EXCEPT ![j] = "settled"]
    /\ UNCHANGED <<stream, budget, d, f, told, left>>

-----------------------------------------------------------------------------
(***************************************************************************)
(* dispatch                                                                *)
(***************************************************************************)
Idle == \A j \in Job : state[j] \in {"none", "settled"}

\* The stream's last id is read before the job is added.
Capture(r) ==
    /\ d[r].pc = "idle"
    /\ budget.messages > 0
    /\ Pipelined \/ Idle
    /\ budget' = [budget EXCEPT !.messages = @ - 1]
    /\ d' = [d EXCEPT ![r] = [pc |-> "enqueue", start |-> Len(stream), job |-> 0]]
    /\ UNCHANGED <<queue, f, told, left>>

\* The job that takes the message: the waiting one, else the next.
JobFor(j) ==
    IF \E k \in Job : state[k] = "waiting"
    THEN state[j] = "waiting"
    ELSE state[j] = "none" /\ \A k \in Job : k < j => state[k] # "none"

Enqueue(r, j) ==
    /\ d[r].pc = "enqueue"
    /\ JobFor(j)
    /\ state' = [state EXCEPT ![j] = "waiting"]
    /\ d' = [d EXCEPT ![r].pc = "follow", ![r].job = j]
    /\ UNCHANGED <<stream, budget, f, told, left>>

\* Mutant: the stream's last id is read when the follower starts.
StartAfter_Now(r) == Len(stream)

StartAfter(r) == d[r].start

\* followEvents: join the running follower and give it 20 more minutes, or
\* start one.
Follow(r) ==
    LET j == d[r].job
        g == f[r]
    IN
    /\ d[r].pc = "follow"
    /\ d' = [d EXCEPT ![r] = NoDispatch]
    /\ f' = [f EXCEPT ![r] =
                IF g.pc = "none"
                THEN [NoFollower EXCEPT !.pc = "read", !.jobs = {j},
                         !.start = StartAfter(r), !.cursor = StartAfter(r)]
                ELSE [g EXCEPT !.jobs = @ \cup {j}, !.deadline = "max"]]
    /\ UNCHANGED <<queue, budget, told, left>>

-----------------------------------------------------------------------------
(***************************************************************************)
(* The follower's loop                                                     *)
(***************************************************************************)
\* The jobs still awaiting an outcome.  A replica follows its dispatches one by
\* one, so the Map's order is the order of the numbers.
Owed(g) == g.jobs \ g.emitted

\* The first n of them.
FirstOf(n, jobs) == {j \in jobs : Cardinality({k \in jobs : k <= j}) <= n}

\* Replica r shows the outcome of the jobs js.
Show(r, js) ==
    told' = [told EXCEPT ![r] =
                [j \in Job |-> IF j \in js /\ @[j] < 2 THEN @[j] + 1 ELSE @[j]]]

\* Each entry is the outcome of the first job that awaits one, if any does.
Read(r) ==
    LET g == f[r]
        answered == FirstOf(Len(stream) - g.cursor, Owed(g))
    IN
    /\ g.pc = "read"
    /\ f' = [f EXCEPT ![r] = [g EXCEPT
                !.pc = "poll", !.todo = g.jobs, !.cursor = Len(stream),
                !.emitted = @ \cup answered,
                !.deadline = IF answered # {} THEN "linger" ELSE @]]
    /\ Show(r, answered)
    /\ UNCHANGED <<queue, budget, d, left>>

OwesOutcome(g, j) == j \notin g.emitted

\* Mutant: a settled job is left to the stream.
Settled_Never(j) == FALSE

Settled(j) == state[j] = "settled"

\* The job's end is authoritative: show the outcome the stream did not bring.
PollJob(r) ==
    LET g == f[r]
        rest(j) == [g EXCEPT !.todo = @ \ {j}]
    IN
    /\ g.pc = "poll"
    /\ \E j \in g.todo :
          /\ \A k \in g.todo : j <= k
          /\ IF Settled(j)
             THEN /\ f' = [f EXCEPT ![r] = [rest(j) EXCEPT
                              !.jobs = @ \ {j}, !.emitted = @ \cup {j}, !.deadline = "linger"]]
                  /\ IF OwesOutcome(g, j)
                     THEN Show(r, {j})
                     ELSE UNCHANGED told
             ELSE /\ f' = [f EXCEPT ![r] = rest(j)]
                  /\ UNCHANGED told
    /\ UNCHANGED <<queue, budget, d, left>>

\* The pass is over; the next one starts after a pause.
Pause(r) ==
    /\ f[r].pc = "poll" /\ f[r].todo = {}
    /\ f' = [f EXCEPT ![r].pc = "read"]
    /\ UNCHANGED <<queue, budget, d, told, left>>

\* The deadline has passed: 3 s after an outcome.  No model step takes the 20
\* minutes of the other deadline.
StopFollowing(r) ==
    /\ f[r].pc = "read" /\ f[r].deadline = "linger"
    /\ \/ Lag
       \/ /\ d[r].pc = "idle"
          /\ \A j \in Owed(f[r]) : ~Ended(j)
    /\ f' = [f EXCEPT ![r] = NoFollower]
    /\ left' = left \cup Owed(f[r])
    /\ UNCHANGED <<queue, budget, d, told>>

-----------------------------------------------------------------------------
Node(j) == Begin(j) \/ EndTurn(j) \/ Settle(j)
Dispatch(r) == (\E j \in Job : Enqueue(r, j)) \/ Follow(r)
Loop(r) == Read(r) \/ PollJob(r) \/ Pause(r)

FollowerNext ==
    \/ \E j \in Job : Node(j)
    \/ \E r \in FReplica : Capture(r) \/ Dispatch(r) \/ Loop(r) \/ StopFollowing(r)

FollowerSpec == FollowerInit /\ [][FollowerNext]_followerVars

\* Turns end, dispatches and loops go on.  No message need come, and no
\* deadline need pass before the next one extends it.
Fairness ==
    /\ \A j \in Job : WF_followerVars(Node(j))
    /\ \A r \in FReplica : WF_followerVars(Dispatch(r)) /\ WF_followerVars(Loop(r))

FollowerFairSpec == FollowerSpec /\ Fairness

-----------------------------------------------------------------------------
(***************************************************************************)
(* Properties                                                              *)
(***************************************************************************)
Dispatches == [pc : {"idle", "enqueue", "follow"}, start : Nat, job : Job \cup {0}]
Followers ==
    [pc : {"none", "read", "poll"}, jobs : SUBSET Job, emitted : SUBSET Job,
     start : Nat, cursor : Nat, deadline : {"max", "linger"}, todo : SUBSET Job]

\* Every variable holds a value of its type; what was read is in the stream.
FollowerTypeOK ==
    /\ state \in [Job -> {"none", "waiting", "active", "ended", "settled"}]
    /\ stream \in Seq(Job)
    /\ budget \in [lost : 0..MaxLost, messages : 0..MaxMessages]
    /\ d \in [FReplica -> Dispatches]
    /\ f \in [FReplica -> Followers]
    /\ \A r \in FReplica :
          /\ d[r].start <= Len(stream) /\ (d[r].pc = "follow" => d[r].job \in Job)
          /\ f[r].start <= f[r].cursor /\ f[r].cursor <= Len(stream)
    /\ told \in [FReplica -> [Job -> 0..2]]
    /\ left \subseteq Job

\* dispatch.ts:395-400, 191-195: the events of a turn a follower watches are
\* never before its cursor's start, so none is skipped as backlog.
SkipsNothing ==
    \A r \in FReplica, p \in DOMAIN stream :
        stream[p] \in f[r].jobs => p > f[r].start

\* dispatch.ts:211-216, 232-237: no outcome is shown for a job whose turn has
\* not ended, while no follower has stopped early: the next follower would take
\* the forgotten turn's outcome for its own job's.
ShownAfterEnd ==
    left = {} => \A r \in FReplica, j \in Job : told[r][j] > 0 => Ended(j)

\* dispatch.ts:121-130, 215-217: a job's outcome is shown once, whichever of the
\* stream and the poll comes first and however many followers watch it in turn.
ShownOnce == left = {} => \A r \in FReplica, j \in Job : told[r][j] <= 1

\* dispatch.ts:191-237: a job's outcome is shown after its turn, once, and is not
\* passed over, whichever of the stream and the poll brings it.
OutcomesInTurn == SkipsNothing /\ ShownAfterEnd /\ ShownOnce

\* j is the oldest job of a follower that has shown nothing of what it watches.
Awaits(r, j) ==
    /\ left = {} /\ f[r].pc # "none" /\ f[r].deadline = "max"
    /\ j \in f[r].jobs /\ f[r].jobs = Owed(f[r]) /\ \A k \in f[r].jobs : j <= k

AwaitsFirst == \E r \in FReplica, j \in Job : Awaits(r, j) /\ told[r][j] = 0

\* dispatch.ts:232-237: the first outcome a follower owes is shown, also when
\* its event was lost.  Only an outcome takes it out of AwaitsFirst: a follower
\* that has shown nothing does not linger.
FirstOutcomeShown == AwaitsFirst ~> ~AwaitsFirst

\* dispatch.ts:222-223, 232-237: the outcome of every job a follower watches is
\* shown, a message sent while it lingers giving it more time.  It is not: see
\* the run follower_stops.
EveryOutcomeShown ==
    \A r \in FReplica, j \in Job : (f[r].pc # "none" /\ j \in f[r].jobs) ~> told[r][j] > 0
=============================================================================
