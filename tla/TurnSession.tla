---------------------------- MODULE TurnSession ----------------------------
(***************************************************************************)
(* TurnQueue composed with its users: the node workers that claim and run  *)
(* the jobs (src/node/worker.ts), the followers that wait for their end    *)
(* (src/gateway/core/dispatch.ts), BullMQ's timers and the TTLs of the     *)
(* keys, and the crashes of gateways, reapers and nodes.                   *)
(***************************************************************************)
EXTENDS TurnQueue

-----------------------------------------------------------------------------
(***************************************************************************)
(* The worker's job processor                                              *)
(***************************************************************************)
Serves(n, q) == n \in up \ silent /\ q \in Carries[n] \cup {n}

\* BullMQ's moveToActive: the data is read here and not again.
Claim(n, q, i) ==
    /\ Serves(n, q)
    /\ job[q][i].st = "waiting"
    /\ job' = [job EXCEPT ![q][i] = [@ EXCEPT !.st = "active",
                   !.snap = job[q][i].data, !.by = n, !.locked = TRUE, !.ph = "claimed"]]
    /\ UNCHANGED <<idx, moved, turnDone, senders, appendLock, redispatch,
                   op, world, nextId, view, hist>>

\* The job q, i is in phase ph of a live node's processor.
In(q, i, ph) ==
    job[q][i].st = "active" /\ job[q][i].ph = ph /\ job[q][i].by \in up

\* A job leaves its worker for state st; a failure keeps its reason in ph.
Leaves(q, i, st, ph) ==
    job' = [job EXCEPT ![q][i] = [@ EXCEPT !.st = st, !.ph = ph, !.locked = FALSE,
                                            !.by = NoNode, !.snap = NoData]]

ForgetSenders(d) == senders' = [senders EXCEPT ![d.tok] = {}]

\* Mutant: the turn-done marker is not read at the claim.
Skips_Never(i) == FALSE

\* A prior delivery finished this job's turn.
Skips(i) == i \in turnDone

SkipDone(q, i) ==
    /\ In(q, i, "claimed")
    /\ Skips(i)
    /\ ForgetSenders(job[q][i].snap)
    /\ Leaves(q, i, "completed", "none")
    /\ UNCHANGED <<idx, moved, turnDone, appendLock, redispatch,
                   op, world, nextId, view, hist>>

\* The node may run what it claimed: not done before, and its label is carried.
Runnable(q, i) ==
    /\ In(q, i, "claimed")
    /\ ~Skips(i)
    /\ job[q][i].snap.label \in Carries[job[q][i].by]

Running(q, i) == In(q, i, "running")
SessionHeld == \E q \in Queue, i \in Id : Running(q, i)

\* The session lock is taken and the model gets the job's messages.
BeginTurn(q, i) ==
    /\ Runnable(q, i)
    /\ ~SessionHeld
    /\ job' = [job EXCEPT ![q][i].ph = "running"]
    /\ hist' = [hist EXCEPT !.ran =
          [m \in Msg |-> IF m \in SeqSet(job[q][i].snap.msgs) /\ @[m] < 2
                         THEN @[m] + 1 ELSE @[m]]]
    /\ UNCHANGED <<idx, moved, turnDone, senders, appendLock, redispatch,
                   op, world, nextId, view>>

\* HELD_BY_OTHER: back to delayed.
Requeue(q, i) ==
    /\ Runnable(q, i)
    /\ SessionHeld
    /\ Leaves(q, i, "delayed", "none")
    /\ UNCHANGED <<idx, moved, turnDone, senders, appendLock, redispatch,
                   op, world, nextId, view, hist>>

\* A typed failure before the turn: the aging token is not refreshed because
\* the persona was relabelled, or the boot fails.
FailAtClaim(q, i) ==
    /\ Runnable(q, i)
    /\ Leaves(q, i, "failed",
              IF job[q][i].snap.label # runsOn THEN "mismatch" ELSE "other")
    /\ UNCHANGED <<idx, moved, turnDone, senders, appendLock, redispatch,
                   op, world, nextId, view, hist>>

\* The turn ends and its marker is written before the ack.  Denied: a gateway
\* call of the turn hit the label gate.
EndTurn(q, i, denied) ==
    /\ Running(q, i)
    /\ denied => job[q][i].snap.label # runsOn
    /\ turnDone' = turnDone \cup {i}
    /\ job' = [job EXCEPT ![q][i].ph = IF denied THEN "denied" ELSE "ended"]
    /\ hist' = IF denied THEN hist
               ELSE [hist EXCEPT !.fin = @ \cup SeqSet(job[q][i].snap.msgs)]
    /\ UNCHANGED <<idx, moved, senders, appendLock, redispatch,
                   op, world, nextId, view>>

Ack(q, i) ==
    /\ In(q, i, "ended")
    /\ ForgetSenders(job[q][i].snap)
    /\ Leaves(q, i, "completed", "none")
    /\ UNCHANGED <<idx, moved, turnDone, appendLock, redispatch,
                   op, world, nextId, view, hist>>

FailDenied(q, i) ==
    /\ In(q, i, "denied")
    /\ Leaves(q, i, "failed", "mismatch")
    /\ UNCHANGED <<idx, moved, turnDone, senders, appendLock, redispatch,
                   op, world, nextId, view, hist>>

\* The processor returns after moveTo: this copy completes.
CompleteMoved(q, i) ==
    /\ In(q, i, "moved")
    /\ Leaves(q, i, "completed", "none")
    /\ UNCHANGED <<idx, moved, turnDone, senders, appendLock, redispatch,
                   op, world, nextId, view, hist>>

-----------------------------------------------------------------------------
(***************************************************************************)
(* Timers: BullMQ's delays, locks and stall check, and the keys' TTLs      *)
(***************************************************************************)
RetryDue(q, i) ==
    /\ job[q][i].st = "delayed"
    /\ job' = [job EXCEPT ![q][i].st = "waiting"]
    /\ UNCHANGED <<idx, moved, turnDone, senders, appendLock, redispatch,
                   op, world, nextId, view, hist>>

\* The move's 30 s hold outlasts a live operation, unless SlowOps.
HoldLapse(q, i) ==
    /\ job[q][i].st = "held"
    /\ SlowOps \/ \A o \in Op : op[o].cp # <<q, i>>
    /\ job' = [job EXCEPT ![q][i].st = "waiting"]
    /\ UNCHANGED <<idx, moved, turnDone, senders, appendLock, redispatch,
                   op, world, nextId, view, hist>>

\* A dead node renews no job lock.
LockExpire(q, i) ==
    /\ job[q][i].st = "active" /\ job[q][i].locked /\ job[q][i].by \notin up
    /\ job' = [job EXCEPT ![q][i].locked = FALSE]
    /\ UNCHANGED <<idx, moved, turnDone, senders, appendLock, redispatch,
                   op, world, nextId, view, hist>>

\* The stall check of a live worker of the queue; maxStalledCount is 1.
Stall(q, i) ==
    /\ job[q][i].st = "active" /\ ~job[q][i].locked
    /\ \E n \in Node : Serves(n, q)
    /\ IF job[q][i].stalls = 0
       THEN job' = [job EXCEPT ![q][i] = [@ EXCEPT !.st = "waiting", !.ph = "none",
                        !.by = NoNode, !.snap = NoData, !.stalls = 1]]
       ELSE Leaves(q, i, "failed", "other")
    /\ UNCHANGED <<idx, moved, turnDone, senders, appendLock, redispatch,
                   op, world, nextId, view, hist>>

\* Coalesce-lock TTL: 2 s.  Its holder is dead, or slow.
AppendLockLapse ==
    /\ appendLock # NoOp
    /\ SlowOps \/ op[appendLock].pc \in {"idle", "acquire"}
    /\ appendLock' = NoOp
    /\ UNCHANGED <<job, idx, moved, turnDone, senders, redispatch,
                   op, world, nextId, view, hist>>

\* Coalesce-index TTL: 10 min, so no entry lapses before its job is added.
IndexLapse ==
    /\ idx # NoRef /\ budget.lapses > 0
    /\ \A o \in Op : op[o].pc = "add" => idx # <<op[o].want, op[o].id>>
    /\ idx' = NoRef
    /\ budget' = [budget EXCEPT !.lapses = @ - 1]
    /\ UNCHANGED <<job, moved, turnDone, senders, appendLock, redispatch,
                   op, up, silent, runsOn, nextId, view, hist>>

\* Once-guard TTL: 30 s.  Its winner is dead, or slow.
GuardLapse(i) ==
    /\ i \in redispatch
    /\ SlowOps \/ \A o \in Op : op[o].kind = "redispatch" => op[o].src[2] # i
    /\ redispatch' = redispatch \ {i}
    /\ UNCHANGED <<job, idx, moved, turnDone, senders, appendLock,
                   op, world, nextId, view, hist>>

-----------------------------------------------------------------------------
(***************************************************************************)
(* Crashes, pauses and relabels                                            *)
(***************************************************************************)
\* A gateway or the reaper dies half way through an operation.
OpCrash(o) ==
    /\ op[o].pc \notin {"idle", "acquire"} /\ op[o].by = NoNode
    /\ budget.crashes > 0
    /\ budget' = [budget EXCEPT !.crashes = @ - 1]
    /\ Set(o, IdleOp)
    /\ UNCHANGED <<redis, up, silent, runsOn, nextId, view, hist>>

\* A node dies, with the moves its processors were in.
NodeCrash(n) ==
    /\ n \in Mortal \cap up
    /\ up' = up \ {n}
    /\ op' = [o \in Op |-> IF op[o].by = n THEN IdleOp ELSE op[o]]
    /\ UNCHANGED <<redis, silent, runsOn, budget, nextId, view, hist>>

\* pauseForAuth: a node refused with a 401 stops claiming and beating; the
\* jobs it runs go on.
Silence(n) ==
    /\ n \in (Pausing \cap up) \ silent /\ budget.silences > 0
    /\ silent' = silent \cup {n}
    /\ budget' = [budget EXCEPT !.silences = @ - 1]
    /\ UNCHANGED <<redis, op, up, runsOn, nextId, view, hist>>

Resume(n) ==
    /\ n \in up \cap silent
    /\ silent' = silent \ {n}
    /\ UNCHANGED <<redis, op, up, runsOn, budget, nextId, view, hist>>

Relabel(l) ==
    /\ l # runsOn /\ budget.relabels > 0
    /\ runsOn' = l
    /\ budget' = [budget EXCEPT !.relabels = @ - 1]
    /\ UNCHANGED <<redis, op, up, silent, nextId, view, hist>>

-----------------------------------------------------------------------------
(***************************************************************************)
(* The follower of a message: polls the job it watches                     *)
(***************************************************************************)
Polls(m) == shown[m] = "no" /\ watch[m] # NoRef /\ Gone(At(watch[m]))

Follows(r) == MovedElsewhere(r)

FollowMove(m) ==
    /\ Polls(m) /\ Follows(watch[m])
    /\ watch' = [watch EXCEPT ![m] = moved[@[2]]]
    /\ hist' = IF watch'[m] \in hist.brief
               THEN [hist EXCEPT !.misled = @ \cup {m}] ELSE hist
    /\ UNCHANGED <<redis, op, world, nextId, shown>>

\* The outcome is synthesised once no move and no re-dispatch is due.
Close(m) ==
    /\ Polls(m) /\ ~Follows(watch[m]) /\ ~Redispatchable(At(watch[m]))
    /\ shown' = [shown EXCEPT ![m] = IF At(watch[m]).st = "failed" THEN "error" ELSE "done"]
    /\ UNCHANGED <<redis, op, world, nextId, watch, hist>>

-----------------------------------------------------------------------------
OpStep(o) ==
    \/ Acquire(o) \/ Release(o) \/ MarkFailed(o)
    \/ Look(o) \/ RecordSenders(o) \/ UpdateData(o) \/ Recheck(o)
    \/ Index(o) \/ Add(o) \/ MarkSource(o)
    \/ CheckMoved(o) \/ CheckClaimed(o) \/ CheckMerge(o) \/ CheckSwap(o)
    \/ AddCopy(o) \/ MarkCopy(o) \/ Take(o) \/ DropCopy(o) \/ Unmark(o)
    \/ Promote(o) \/ Reindex(o) \/ TakeHold(o) \/ MarkHold(o)

Process(q, i) ==
    \/ SkipDone(q, i) \/ BeginTurn(q, i) \/ Requeue(q, i) \/ FailAtClaim(q, i)
    \/ \E o \in Op : StartClaimedMove(o, q, i)
    \/ \E denied \in BOOLEAN : EndTurn(q, i, denied)
    \/ Ack(q, i) \/ FailDenied(q, i) \/ CompleteMoved(q, i)

Timer(q, i) == RetryDue(q, i) \/ HoldLapse(q, i) \/ LockExpire(q, i) \/ Stall(q, i)

Follow(m) == FollowMove(m) \/ Close(m)

Start(o) ==
    \/ \E m \in Msg, q \in Queue : StartEnqueue(o, m, q)
    \/ \E m \in Msg : StartRedispatch(o, m)
    \/ \E n \in Warm, i \in Id : StartReap(o, n, i)

Fault ==
    \/ AppendLockLapse
    \/ IndexLapse
    \/ \E i \in Id : GuardLapse(i)
    \/ \E o \in Op : OpCrash(o)
    \/ \E n \in Node : NodeCrash(n) \/ Silence(n) \/ Resume(n)
    \/ \E l \in Label : Relabel(l)

Next ==
    \/ \E o \in Op : Start(o) \/ OpStep(o)
    \/ \E q \in Queue, i \in Id :
          Process(q, i) \/ Timer(q, i) \/ \E n \in Node : Claim(n, q, i)
    \/ \E m \in Msg : Follow(m)
    \/ Fault

Spec == Init /\ [][Next]_vars

\* Processes that live take their next step, timers and TTLs run out, the
\* reaper and the followers keep polling.  Nothing forces a new message, a
\* crash, a pause or a relabel.
Fairness ==
    /\ \A o \in Op : WF_vars(OpStep(o))
    /\ WF_vars(\E o \in Op, n \in Warm, i \in Id : StartReap(o, n, i))
    /\ \A m \in Msg : WF_vars(Follow(m))
                      /\ WF_vars(\E o \in Op : StartRedispatch(o, m))
    /\ \A q \in Queue, i \in Id :
          /\ WF_vars(\E n \in Node : Claim(n, q, i))
          /\ WF_vars(Process(q, i))
          /\ WF_vars(Timer(q, i))
    /\ \A i \in Id : WF_vars(GuardLapse(i))
    /\ WF_vars(AppendLockLapse)

FairSpec == Spec /\ Fairness

-----------------------------------------------------------------------------
(***************************************************************************)
(* Properties                                                              *)
(***************************************************************************)
Ref == Queue \X Id

Data == [msgs : Seq(Msg), label : Label, tok : 0..MaxId, att : 0..2]

Job == [st : {"none", "waiting", "delayed", "held", "active", "completed", "failed"},
        data : Data, snap : Data, by : Node \cup {NoNode}, locked : BOOLEAN,
        ph : {"none", "claimed", "running", "ended", "denied", "moving", "moved",
              "mismatch", "other"},
        stalls : 0..1]

Operation ==
    [pc : {"idle", "acquire", "look", "senders", "update", "recheck", "index", "add",
           "marksrc", "check", "copy", "markcopy", "take", "drop", "unmark",
           "promote", "reindex", "takehold", "markhold", "release", "markfailed"},
     kind : {"none", "enqueue", "redispatch", "reap", "claimed", "merge", "swap"},
     by : Node \cup {NoNode}, d : Data, id : 0..MaxId, want : Queue \cup Ref \cup {NoRef},
     src : Ref \cup {NoRef}, ref : Ref \cup {NoRef}, rescue : BOOLEAN,
     prev : Data, cp : Ref \cup {NoRef}, res : Ref \cup {NoRef}]

\* Every variable holds a value of its type.
TypeOK ==
    /\ job \in [Queue -> [Id -> Job]]
    /\ idx \in Ref \cup {NoRef}
    /\ moved \in [Id -> Ref \cup {NoRef}]
    /\ turnDone \subseteq Id
    /\ senders \in [0..MaxId -> SUBSET Msg]
    /\ appendLock \in Op \cup {NoOp}
    /\ redispatch \subseteq Id
    /\ op \in [Op -> Operation]
    /\ up \subseteq Node /\ silent \subseteq Node
    /\ runsOn \in Label
    /\ nextId \in 1..(MaxId + 1)
    /\ watch \in [Msg -> Ref \cup {NoRef}]
    /\ shown \in [Msg -> {"no", "done", "error"}]

\* turns.ts:395-396: appenders of a session serialize on the lock.  An operation
\* past its acquisition holds it, so no two rewrite the job at once, unless one
\* outlasts the lock's TTL.
AppendersSerialize ==
    SlowOps \/ \A o \in Op :
        op[o].pc \notin {"idle", "acquire", "markfailed"} => appendLock = o

\* What a worker holds or will read: its snapshot while it lives, else the
\* data in Redis.
Effective(j) == IF j.st = "active" /\ j.by \in up THEN j.snap ELSE j.data

Accepted(m) == watch[m] # NoRef

\* A job that some worker can still run: its turn is not marked done and, on
\* the queue of a dead node, the reaper does not take it for moved (a refused
\* move that still runs deletes its marker next).
Recoverable(q, i) ==
    /\ job[q][i].st \notin {"none", "completed", "failed"}
    /\ i \in turnDone => job[q][i].st = "active" /\ job[q][i].by \in up
    /\ q \notin Label \cup up =>
          \/ ~MovedOff(i, q)
          \/ \E o \in Op : op[o].pc = "unmark" /\ Original(op[o]) = <<q, i>>

\* turns.ts:570-571 "at-least-once, never lost": a message whose enqueue
\* returned was in a finished turn, or is in a job that can still run or failed.
NoMessageLost ==
    \A m \in Msg : Accepted(m) =>
        \/ m \in hist.fin
        \/ \E q \in Queue, i \in Id :
              /\ m \in SeqSet(Effective(job[q][i]).msgs)
              /\ job[q][i].st = "failed" \/ Recoverable(q, i)

\* turns.ts:498-500: the senders recorded for a running turn cover every
\* message it holds, or are unknown (a refusal): never a false "one sender".
SendersCoverTurn ==
    \A q \in Queue, i \in Id : Running(q, i) =>
        LET d == job[q][i].snap
        IN  senders[d.tok] = {} \/ SeqSet(d.msgs) \subseteq senders[d.tok]

\* dispatch.ts:243-245: a follower never closes a turn as done before a turn
\* with its message finished, whatever moved the job.  Followers sent to a copy
\* that is taken away again, and those whose marker a refused move deletes, are
\* apart: see NeverClosesEarly.
ClosesAfterRun ==
    \A m \in Msg \ hist.misled : shown[m] = "done" => m \in hist.fin

Crashed == budget.crashes < MaxCrashes

\* turns.ts:561-567, 139-142: once a turn finished a message no other turn
\* starts with it, through moves, merges, node crashes and redelivery; only the
\* claim race's resend, an operation that died half way or another move's
\* marker deleted by a refused one may repeat it (see DuplicatesHarmless).  It is
\* a property of personas that keep their label: after a relabel a re-dispatch
\* may repeat a message whose guard lapsed.
FinishedRunsOnce ==
    [][\A m \in hist.fin \ (hist.raced \cup hist.misled) :
          hist'.ran[m] = hist.ran[m] \/ Crashed]_vars

\* turns.ts:454-456, dispatch.ts:261-263: merging a re-dispatched turn never
\* resets its count, so a message is re-dispatched from one failed job only.
RedispatchedOnce ==
    \A m \in Msg \ hist.raced : Cardinality(hist.again[m]) <= 1

\* turns.ts:566-571, reaper.ts:86-98: in the end every accepted message is in
\* a finished turn or in a failed job, whatever nodes died.
EveryMessageSettles ==
    \A m \in Msg : Accepted(m) ~>
        \/ m \in hist.fin
        \/ \E q \in Queue, i \in Id :
              job[q][i].st = "failed" /\ m \in SeqSet(job[q][i].data.msgs)

\* dispatch.ts:232-237: every follower renders an outcome.
EveryFollowerEnds == \A m \in Msg : Accepted(m) ~> shown[m] # "no"

-----------------------------------------------------------------------------
(***************************************************************************)
(* What comments of the code say and the code does not keep                *)
(***************************************************************************)
\* turns.ts:568-569 "so a follower never reads the move as the turn's end" and
\* dispatch.ts:244-245 "rather than closing the turn before it ran".
NeverClosesEarly == \A m \in Msg : shown[m] = "done" => m \in hist.fin

\* turns.ts:125 "How long a job-moved marker is kept: longer than a follower
\* lives": the marker a follower still needs is not deleted.
MarkersOutliveFollowers ==
    [][\A m \in Msg \ hist.fin :
          shown[m] = "no" /\ Accepted(m) /\ At(watch[m]).st = "none"
             /\ MovedElsewhere(watch[m])
          => moved'[watch[m][2]] # NoRef]_vars

\* turns.ts:23-25 "Slack ts-dedup on the consumer side make the duplicate
\* harmless" and turns.ts:835 "Once per failed job across every gateway
\* replica": no turn starts with a message another turn finished.
DuplicatesHarmless ==
    [][\A m \in hist.fin : hist'.ran[m] = hist.ran[m]]_vars

\* turns.ts:453-454 "so the session's messages still run in the order they were
\* sent": a pending job holds its messages in the order of their ts.
PendingSorted ==
    \A q \in Queue, i \in Id : Pending(job[q][i]) =>
        LET s == job[q][i].data.msgs
        IN  \A x, y \in DOMAIN s : x < y => s[x] < s[y]
=============================================================================
