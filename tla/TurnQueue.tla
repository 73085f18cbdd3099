----------------------------- MODULE TurnQueue -----------------------------
(***************************************************************************)
(* One session's turns on the BullMQ queues (src/queue/turns.ts): enqueue  *)
(* with coalescing, relabel, the reaper's and the worker's moveTo, and the *)
(* re-dispatch of a LABEL_MISMATCH failure, interleaved with the workers   *)
(* that claim the jobs and the followers that watch them.                  *)
(*                                                                         *)
(* Every Redis write is a step; reads that directly precede one another    *)
(* are one step when no lock-free writer changes what they read.  An       *)
(* operation runs in a slot `o`; a crash ends it between any two steps.    *)
(*                                                                         *)
(* A message is its Slack ts, so messages are ordered.  A token is the job *)
(* id it was minted for (its `job` claim).  Every message has a sender of  *)
(* its own, so a senders record is a set of messages.                      *)
(***************************************************************************)
EXTENDS Naturals, Sequences, FiniteSets

CONSTANTS
    Msg,            \* Slack timestamps
    Label,          \* node labels, each with a queue
    Node,           \* workers
    Carries,        \* the labels each node carries
    Mortal,         \* nodes that may crash
    Pausing,        \* nodes that may pause on a 401
    Warm,           \* nodes the session may be warm on, each with a queue
    Op,             \* slots for concurrent queue operations
    MaxId,          \* bound: job ids minted
    MaxCrashes,     \* bound: operations that die half way
    MaxRelabels,    \* bound: changes of the persona's label
    MaxIndexLapses, \* bound: coalesce index entries whose TTL runs out
    MaxSilences,    \* bound: pauses on a 401
    InOrder,        \* messages are sent in the order of their ts
    SlowOps,        \* a live operation may outlast its lock and its hold
    FirstLabel,     \* the persona's label at the start
    NoNode, NoRef, NoOp

\* A node the session is never warm on gets no job on its own queue.
Queue == Label \cup Warm
Id == 1..MaxId

ASSUME TurnQueueAssumption ==
    /\ Msg \subseteq Nat
    /\ Label \cap Node = {}
    /\ Carries \in [Node -> SUBSET Label]
    /\ Mortal \subseteq Node /\ Pausing \subseteq Node /\ Warm \subseteq Node
    /\ {MaxId, MaxCrashes, MaxRelabels, MaxIndexLapses, MaxSilences} \subseteq Nat
    /\ {InOrder, SlowOps} \subseteq BOOLEAN
    /\ FirstLabel \in Label
    /\ NoNode \notin Node
    /\ NoRef \notin Queue \X Id
    /\ NoOp \notin Op

VARIABLES
    job,        \* job[q][i]: the job with id i on queue q
    idx,        \* coalesce:<session>: where the pending job is
    moved,      \* job-moved:<id>
    turnDone,   \* turn-done:<id> markers
    senders,    \* turn-senders:<id>; {} = no record
    appendLock, \* coalesce-lock:<session>
    redispatch, \* redispatch:<id> once-guards
    op,         \* the operation in each slot
    up,         \* nodes whose process lives
    silent,     \* live nodes without a heartbeat (paused on a 401)
    runsOn,     \* the persona's label
    nextId,     \* ids minted so far, plus one
    budget,     \* what is left of each Max constant
    watch,      \* the job a message's follower watches
    shown,      \* the outcome the follower rendered
    hist        \* history, read by no step but StartEnqueue (sent): ran counts
                \* the turns begun with a message, fin what a turn finished,
                \* raced what the claim race sent again, again the failed jobs
                \* a message was re-dispatched from, brief the copies that a move
                \* removes again (refused moves' copies and merges' holds), misled
                \* the messages whose follower went to one of them, or whose
                \* marker, written by another move or a re-dispatch, a refused
                \* move deleted

redis == <<job, idx, moved, turnDone, senders, appendLock, redispatch>>
world == <<up, silent, runsOn, budget>>
view == <<watch, shown>>
vars == <<redis, op, world, nextId, view, hist>>

-----------------------------------------------------------------------------
(***************************************************************************)
(* Data                                                                    *)
(***************************************************************************)
SeqSet(s) == {s[i] : i \in DOMAIN s}

NoData == [msgs |-> << >>, label |-> FirstLabel, tok |-> 0, att |-> 0]

NoJob == [st |-> "none", data |-> NoData, snap |-> NoData,
          by |-> NoNode, locked |-> FALSE, ph |-> "none", stalls |-> 0]

IdleOp == [pc |-> "idle", kind |-> "none", by |-> NoNode, d |-> NoData,
           id |-> 0, want |-> NoRef, src |-> NoRef, ref |-> NoRef,
           rescue |-> FALSE, prev |-> NoData, cp |-> NoRef, res |-> NoRef]

At(r) == job[r[1]][r[2]]
Put(r, j) == job' = [job EXCEPT ![r[1]][r[2]] = j]

\* PENDING_STATES: delayed covers a requeued job and a held copy.
Pending(j) == j.st \in {"waiting", "delayed", "held"}
Gone(j) == j.st \in {"none", "completed", "failed"}

FreshJob(st, d) == [NoJob EXCEPT !.st = st, !.data = d]

\* Mutant: the merge takes the newer job's count.
MaxAttempts_Reset(a, b) == b.att

MaxAttempts(a, b) == IF a.att >= b.att THEN a.att ELSE b.att

\* The messages of extra that base does not have, in extra's order.
NewMessages(base, extra) ==
    LET picked[i \in 0..Len(extra)] ==
            IF i = 0 THEN << >>
            ELSE IF extra[i] \in SeqSet(base) THEN picked[i - 1]
                 ELSE Append(picked[i - 1], extra[i])
    IN  picked[Len(extra)]

Oldest(s) == CHOOSE m \in SeqSet(s) : \A k \in SeqSet(s) : m <= k

\* Whether inc goes before pend: the older birth, the hint on a tie.
MergesFirst(pend, inc, hint) ==
    \/ Oldest(inc.msgs) < Oldest(pend.msgs)
    \/ Oldest(inc.msgs) = Oldest(pend.msgs) /\ hint

\* tryAppend: the pending job's data with inc's new messages.
Appended(pend, inc, hint) ==
    LET fresh == NewMessages(pend.msgs, inc.msgs)
    IN  [pend EXCEPT
            !.msgs = IF MergesFirst(pend, inc, hint) THEN fresh \o @ ELSE @ \o fresh,
            !.att = MaxAttempts(pend, inc)]

\* #relocate: inc's id, label and token with both jobs' messages.
Relocated(pend, inc, hint) ==
    [inc EXCEPT
        !.msgs = IF MergesFirst(pend, inc, hint)
                 THEN @ \o NewMessages(@, pend.msgs)
                 ELSE pend.msgs \o NewMessages(pend.msgs, @),
        !.att = MaxAttempts(pend, inc)]

-----------------------------------------------------------------------------
Init ==
    /\ job = [q \in Queue |-> [i \in Id |-> NoJob]]
    /\ idx = NoRef
    /\ moved = [i \in Id |-> NoRef]
    /\ turnDone = {}
    /\ senders = [i \in 0..MaxId |-> {}]
    /\ appendLock = NoOp
    /\ redispatch = {}
    /\ op = [o \in Op |-> IdleOp]
    /\ up = Node
    /\ silent = {}
    /\ runsOn = FirstLabel
    /\ nextId = 1
    /\ budget = [crashes |-> MaxCrashes, relabels |-> MaxRelabels,
                 lapses |-> MaxIndexLapses, silences |-> MaxSilences]
    /\ watch = [m \in Msg |-> NoRef]
    /\ shown = [m \in Msg |-> "no"]
    /\ hist = [sent |-> {}, ran |-> [m \in Msg |-> 0], fin |-> {}, raced |-> {},
               again |-> [m \in Msg |-> {}], brief |-> {}, misled |-> {}]

-----------------------------------------------------------------------------
(***************************************************************************)
(* Starting an operation                                                   *)
(***************************************************************************)
Set(o, r) == op' = [op EXCEPT ![o] = r]
Go(o, l) == op' = [op EXCEPT ![o].pc = l]
Finish(o, r) == op' = [op EXCEPT ![o].pc = "release", ![o].res = r]

\* Mutant: a paused node goes on beating.
Beating_Paused == up

\* Nodes with a heartbeat; the reaper drains the others.
Beating == up \ silent

\* The label's queue, or the queue of a node that carries the label and was
\* warm and fresh when the registry was read (it may die before the add).
Target(l) == {l} \cup {n \in Beating \cap Warm : l \in Carries[n]}

\* dispatch: one message under a fresh id, its token minted for that id.
StartEnqueue(o, m, q) ==
    /\ op[o].pc = "idle"
    /\ m \notin hist.sent
    /\ InOrder => \A k \in Msg : k < m => k \in hist.sent
    /\ nextId <= MaxId
    /\ q \in Target(runsOn)
    /\ Set(o, [IdleOp EXCEPT !.pc = "acquire", !.kind = "enqueue",
                 !.d = [msgs |-> <<m>>, label |-> runsOn, tok |-> nextId, att |-> 0],
                 !.id = nextId, !.want = q])
    /\ nextId' = nextId + 1
    /\ hist' = [hist EXCEPT !.sent = @ \cup {m}]
    /\ UNCHANGED <<redis, world, view>>

\* The marker of the watched job sends its follower elsewhere.
MovedElsewhere(r) == moved[r[2]] # NoRef /\ moved[r[2]] # r

\* A first LABEL_MISMATCH.
Redispatchable(j) == j.st = "failed" /\ j.ph = "mismatch" /\ j.data.att < 1

\* A follower of m re-dispatches the LABEL_MISMATCH failure it watches, once
\* per failed job: SET NX on the guard, then enqueueTurn under a new id.
StartRedispatch(o, m) ==
    LET r == watch[m] IN
    /\ op[o].pc = "idle"
    /\ shown[m] = "no" /\ r # NoRef
    /\ Redispatchable(At(r))
    /\ ~MovedElsewhere(r)
    /\ r[2] \notin redispatch
    /\ nextId <= MaxId
    /\ redispatch' = redispatch \cup {r[2]}
    /\ Set(o, [IdleOp EXCEPT !.pc = "acquire", !.kind = "redispatch",
                 !.d = [At(r).data EXCEPT !.label = runsOn, !.tok = nextId, !.att = @ + 1],
                 !.id = nextId, !.want = runsOn, !.src = r])
    /\ nextId' = nextId + 1
    /\ hist' = [hist EXCEPT !.again =
                   [k \in Msg |-> IF k \in SeqSet(At(r).data.msgs)
                                  THEN @[k] \cup {r[2]} ELSE @[k]]]
    /\ UNCHANGED <<job, idx, moved, turnDone, senders, appendLock, world, view>>

\* The job-moved marker of job i sends it away from queue q.
MovedOff(i, q) == moved[i] # NoRef /\ moved[i][1] # q

\* The reaper drains the queue of a node without a heartbeat: every job a
\* worker does not hold.  Two reapers may be at one job; one that starts on a
\* job already moved off finds the marker and does nothing.
StartReap(o, n, i) ==
    /\ op[o].pc = "idle"
    /\ n \notin Beating
    /\ \/ Pending(job[n][i])
       \/ job[n][i].st = "active" /\ ~job[n][i].locked
    /\ ~MovedOff(i, n)
    /\ Set(o, [IdleOp EXCEPT !.pc = "acquire", !.kind = "reap",
                 !.rescue = (job[n][i].st = "active"),
                 !.want = job[n][i].data.label, !.src = <<n, i>>])
    /\ UNCHANGED <<redis, world, nextId, view, hist>>

\* A worker moves a job it claimed and does not carry the label of.
StartClaimedMove(o, q, i) ==
    LET j == job[q][i] IN
    /\ op[o].pc = "idle"
    /\ j.ph = "claimed" /\ j.by \in up
    /\ i \notin turnDone
    /\ j.snap.label \notin Carries[j.by]
    /\ q # j.snap.label
    /\ job' = [job EXCEPT ![q][i].ph = "moving"]
    /\ Set(o, [IdleOp EXCEPT !.pc = "acquire", !.kind = "claimed", !.by = j.by,
                 !.d = j.snap, !.id = i, !.want = j.snap.label, !.src = <<q, i>>])
    /\ UNCHANGED <<idx, moved, turnDone, senders, appendLock, redispatch,
                   world, nextId, view, hist>>

-----------------------------------------------------------------------------
(***************************************************************************)
(* The append lock                                                         *)
(***************************************************************************)
\* Mutant: the lock is not tested.
LockFree_Always(o) == TRUE

LockFree(o) == appendLock = NoOp

Acquire(o) ==
    /\ op[o].pc = "acquire"
    /\ LockFree(o)
    /\ appendLock' = o
    /\ Go(o, IF op[o].kind \in {"reap", "claimed"} THEN "check" ELSE "look")
    /\ UNCHANGED <<job, idx, moved, turnDone, senders, redispatch,
                   world, nextId, view, hist>>

\* The finally block, then what the caller does with the result: the gateway
\* follows the job, the worker completes the one it moved.
Release(o) ==
    LET p == op[o] IN
    /\ p.pc = "release"
    /\ appendLock' = IF appendLock = o THEN NoOp ELSE appendLock
    /\ IF p.kind = "redispatch" /\ p.res # NoRef
       THEN Go(o, "markfailed")
       ELSE Set(o, IdleOp)
    /\ watch' = IF p.kind = "enqueue"
                THEN [watch EXCEPT ![p.d.msgs[1]] = p.res]
                ELSE watch
    /\ job' = IF p.kind = "claimed"
              THEN [job EXCEPT ![p.src[1]][p.src[2]].ph =
                       IF p.res = NoRef THEN "claimed" ELSE "moved"]
              ELSE job
    /\ shown' = IF p.kind = "redispatch" /\ p.res = NoRef
                THEN [m \in Msg |-> IF watch[m] = p.src THEN "error" ELSE shown[m]]
                ELSE shown
    /\ UNCHANGED <<idx, moved, turnDone, senders, redispatch,
                   world, nextId, hist>>

\* redispatch: the winner's marker, written after the lock is released.
MarkFailed(o) ==
    /\ op[o].pc = "markfailed"
    /\ moved' = [moved EXCEPT ![op[o].src[2]] = op[o].res]
    /\ Set(o, IdleOp)
    /\ UNCHANGED <<job, idx, turnDone, senders, appendLock, redispatch,
                   world, nextId, view, hist>>

-----------------------------------------------------------------------------
(***************************************************************************)
(* tryAppend                                                               *)
(***************************************************************************)
\* The index entry, when it is a pending job whose turn has not run.
\* Mutant: the turn-done marker is not looked at.
AppendableAt_NoMarker(r) == r # NoRef /\ Pending(At(r))

AppendableAt(r) == r # NoRef /\ Pending(At(r)) /\ r[2] \notin turnDone

HasWant(p) == p.kind \in {"enqueue", "redispatch"}
Hint(p) == p.kind # "enqueue"

\* Only a label change relocates; a change of warm node does not.
MustRelocate(p, prev) ==
    HasWant(p) /\ idx[1] # p.want /\ prev.label # p.d.label

NothingNew(p, prev) ==
    NewMessages(prev.msgs, p.d.msgs) = << >> /\ p.d.att <= prev.att

\* What the caller does when tryAppend returns null.
NotAppended(p) == IF p.kind = "merge" THEN "promote" ELSE "index"

\* What the caller does once the messages are in the indexed job.
AppendedThen(p) ==
    CASE HasWant(p) -> "release"
      [] p.kind = "claimed" -> "marksrc"
      [] p.kind = "merge" -> "takehold"

Look(o) ==
    LET p == op[o]
        prev == At(idx).data
    IN
    /\ p.pc = "look"
    /\ IF ~AppendableAt(idx)
       THEN Go(o, NotAppended(p))
       ELSE IF MustRelocate(p, prev)
       THEN op' = [op EXCEPT ![o].pc = "senders", ![o].ref = idx,
                             ![o].prev = prev, ![o].cp = <<p.want, p.id>>]
       ELSE IF NothingNew(p, prev)
       THEN op' = [op EXCEPT ![o].pc = AppendedThen(p), ![o].res = idx]
       ELSE op' = [op EXCEPT ![o].pc = "senders", ![o].ref = idx, ![o].prev = prev]
    /\ UNCHANGED <<redis, world, nextId, view, hist>>

Relocating(p) == HasWant(p) /\ p.cp # NoRef

\* Mutant: only this call's sender is recorded.
SendersOf_Own(p) == SeqSet(p.d.msgs)

\* mergeSenders of the two jobs.
SendersOf(p) == SeqSet(p.prev.msgs) \cup SeqSet(p.d.msgs)

\* #recordSenders under the token the merged job runs with.
RecordSenders(o) ==
    LET p == op[o]
        tok == IF Relocating(p) THEN p.d.tok ELSE p.prev.tok
    IN
    /\ p.pc = "senders"
    /\ senders' = [senders EXCEPT ![tok] = SendersOf(p)]
    /\ Go(o, IF Relocating(p) THEN "copy" ELSE "update")
    /\ UNCHANGED <<job, idx, moved, turnDone, appendLock, redispatch,
                   world, nextId, view, hist>>

\* updateData throws on a job that is gone, and the operation fails.
UpdateData(o) ==
    LET p == op[o] IN
    /\ p.pc = "update"
    /\ IF At(p.ref).st = "none"
       THEN Finish(o, NoRef) /\ UNCHANGED job
       ELSE /\ Put(p.ref, [At(p.ref) EXCEPT !.data = Appended(p.prev, p.d, Hint(p))])
            /\ Go(o, "recheck")
    /\ UNCHANGED <<idx, moved, turnDone, senders, appendLock, redispatch,
                   world, nextId, view, hist>>

\* Mutant: the append is taken for granted.
StillPending_Assumed(r) == TRUE

StillPending(r) == AppendableAt(r)

\* The claim race: a job no longer pending may have been read without the
\* messages, so they are sent again in a job of their own.
Recheck(o) ==
    LET p == op[o] IN
    /\ p.pc = "recheck"
    /\ IF StillPending(p.ref)
       THEN /\ op' = [op EXCEPT ![o].pc = AppendedThen(p), ![o].res = p.ref]
            /\ UNCHANGED hist
       ELSE /\ Go(o, NotAppended(p))
            /\ hist' = [hist EXCEPT !.raced = @ \cup SeqSet(p.d.msgs)]
    /\ UNCHANGED <<redis, world, nextId, view>>

-----------------------------------------------------------------------------
(***************************************************************************)
(* addFresh                                                                *)
(***************************************************************************)
\* The index first, then the senders (one step: no reader tells them apart).
Index(o) ==
    LET p == op[o] IN
    /\ p.pc = "index"
    /\ idx' = <<p.want, p.id>>
    /\ senders' = [senders EXCEPT ![p.d.tok] = SeqSet(p.d.msgs)]
    /\ Go(o, "add")
    /\ UNCHANGED <<job, moved, turnDone, appendLock, redispatch,
                   world, nextId, view, hist>>

\* BullMQ ignores an add whose id the queue already has.
AddJob(r, j) == IF At(r).st = "none" THEN Put(r, j) ELSE UNCHANGED job

Add(o) ==
    LET p == op[o]
        r == <<p.want, p.id>>
    IN
    /\ p.pc = "add"
    /\ AddJob(r, FreshJob("waiting", p.d))
    /\ op' = [op EXCEPT ![o].pc = IF p.kind = "claimed" THEN "marksrc" ELSE "release",
                        ![o].res = r]
    /\ UNCHANGED <<idx, moved, turnDone, senders, appendLock, redispatch,
                   world, nextId, view, hist>>

\* moveTo: the marker that sends the source's followers to where it went.
MarkSource(o) ==
    LET p == op[o] IN
    /\ p.pc = "marksrc"
    /\ moved' = [moved EXCEPT ![p.src[2]] = p.res]
    /\ Go(o, "release")
    /\ UNCHANGED <<job, idx, turnDone, senders, appendLock, redispatch,
                   world, nextId, view, hist>>

-----------------------------------------------------------------------------
(***************************************************************************)
(* moveTo and #swap                                                        *)
(***************************************************************************)
\* The job a move takes off its queue.
Original(p) == IF Relocating(p) THEN p.ref ELSE p.src

\* "Already moved": the marker sends the job to another queue.
MovedAway(p) == MovedOff(p.src[2], p.src[1])

CheckMoved(o) ==
    LET p == op[o]
        copy == <<p.want, p.src[2]>>
    IN
    /\ p.pc = "check"
    /\ \/ /\ MovedAway(p)
          /\ Finish(o, moved[p.src[2]])
          /\ UNCHANGED moved
       \/ /\ ~MovedAway(p) /\ At(copy).st # "none"
          /\ moved' = [moved EXCEPT ![p.src[2]] = copy]
          /\ Finish(o, copy)
       \/ /\ ~MovedAway(p) /\ At(copy).st = "none"
          /\ p.kind = "reap" /\ At(p.src).st = "none"
          /\ Finish(o, p.src)
          /\ UNCHANGED moved
    /\ UNCHANGED <<job, idx, turnDone, senders, appendLock, redispatch,
                   world, nextId, view, hist>>

ToMove(p) ==
    /\ p.pc = "check"
    /\ ~MovedAway(p)
    /\ At(<<p.want, p.src[2]>>).st = "none"

\* The worker's job: append to another pending job, or add it on its label.
CheckClaimed(o) ==
    LET p == op[o] IN
    /\ ToMove(p) /\ p.kind = "claimed"
    /\ Go(o, IF idx # NoRef /\ idx # p.src THEN "look" ELSE "index")
    /\ UNCHANGED <<redis, world, nextId, view, hist>>

\* The reaper's job: merge it into the indexed job when that is another one.
IndexedElsewhere(p) == idx # NoRef /\ idx # p.src /\ Pending(At(idx))

CheckMerge(o) ==
    LET p == op[o] IN
    /\ ToMove(p) /\ p.kind = "reap" /\ At(p.src).st # "none"
    /\ IndexedElsewhere(p)
    /\ nextId <= MaxId
    /\ op' = [op EXCEPT ![o].pc = "copy", ![o].kind = "merge", ![o].id = nextId,
                        ![o].d = At(p.src).data, ![o].cp = <<idx[1], nextId>>]
    /\ nextId' = nextId + 1
    /\ hist' = [hist EXCEPT !.brief = @ \cup {<<idx[1], nextId>>}]
    /\ UNCHANGED <<redis, world, view>>

CheckSwap(o) ==
    LET p == op[o] IN
    /\ ToMove(p) /\ p.kind = "reap" /\ At(p.src).st # "none"
    /\ ~IndexedElsewhere(p)
    /\ op' = [op EXCEPT ![o].pc = "copy", ![o].kind = "swap", ![o].id = p.src[2],
                        ![o].d = At(p.src).data, ![o].cp = <<p.want, p.src[2]>>]
    /\ UNCHANGED <<redis, world, nextId, view, hist>>

CopyState == "held"

AddCopy(o) ==
    LET p == op[o] IN
    /\ p.pc = "copy"
    /\ AddJob(p.cp, FreshJob(CopyState,
          IF Relocating(p) THEN Relocated(p.prev, p.d, Hint(p)) ELSE p.d))
    /\ Go(o, "markcopy")
    /\ UNCHANGED <<idx, moved, turnDone, senders, appendLock, redispatch,
                   world, nextId, view, hist>>

\* Mutants: the marker names the queue alone; no marker before the original
\* goes.
CopyMarker_Queue(p) == p.cp[1]
CopyMarker_None(p) == NoRef

CopyMarker(p) == p.cp

MarkCopy(o) ==
    LET p == op[o] IN
    /\ p.pc = "markcopy"
    /\ moved' = [moved EXCEPT ![Original(p)[2]] = CopyMarker(p)]
    /\ Go(o, "take")
    /\ UNCHANGED <<job, idx, turnDone, senders, appendLock, redispatch,
                   world, nextId, view, hist>>

\* TAKE_UNCLAIMED_LUA: pending, or active with its lock gone (the reaper).
Takeable(p, j) ==
    \/ Pending(j)
    \/ j.st = "active" /\ ~j.locked /\ p.rescue

Take(o) ==
    LET p == op[o]
        r == Original(p)
        takes == Takeable(p, At(r))
    IN
    /\ p.pc = "take"
    /\ IF takes THEN Put(r, NoJob) ELSE UNCHANGED job
    /\ Go(o, IF ~takes \/ r[2] \in turnDone THEN "drop"
             ELSE IF p.kind = "merge" THEN "look" ELSE "promote")
    /\ UNCHANGED <<idx, moved, turnDone, senders, appendLock, redispatch,
                   world, nextId, view, hist>>

\* copy.remove() fails on a job a worker holds; the error is swallowed.
DropCopy(o) ==
    LET p == op[o] IN
    /\ p.pc = "drop"
    /\ IF At(p.cp).st = "active" /\ At(p.cp).locked
       THEN UNCHANGED job
       ELSE Put(p.cp, NoJob)
    /\ Go(o, "unmark")
    /\ hist' = [hist EXCEPT !.brief = @ \cup {p.cp},
                             !.misled = @ \cup {m \in Msg : watch[m] = p.cp}]
    /\ UNCHANGED <<idx, moved, turnDone, senders, appendLock, redispatch,
                   world, nextId, view>>

\* A refused relocate adds this call's messages only; a refused move ends.
Unmark(o) ==
    LET p == op[o]
        r == Original(p)
    IN
    /\ p.pc = "unmark"
    /\ moved' = [moved EXCEPT ![r[2]] = NoRef]
    /\ op' = [op EXCEPT ![o].pc = IF HasWant(p) THEN "index" ELSE "release",
                        ![o].res = IF HasWant(p) THEN NoRef ELSE p.src,
                        ![o].cp = NoRef]
    /\ hist' = [hist EXCEPT !.misled = @ \cup
          {m \in Msg : watch[m] \in (Queue \ {r[1]}) \X {r[2]} \/ r[2] \in hist.again[m]}]
    /\ UNCHANGED <<job, idx, turnDone, senders, appendLock, redispatch,
                   world, nextId, view>>

Promote(o) ==
    LET p == op[o] IN
    /\ p.pc = "promote"
    /\ IF At(p.cp).st = "held"
       THEN job' = [job EXCEPT ![p.cp[1]][p.cp[2]].st = "waiting"]
       ELSE UNCHANGED job
    /\ Go(o, "reindex")
    /\ UNCHANGED <<idx, moved, turnDone, senders, appendLock, redispatch,
                   world, nextId, view, hist>>

Reindex(o) ==
    LET p == op[o] IN
    /\ p.pc = "reindex"
    /\ idx' = p.cp
    /\ Finish(o, p.cp)
    /\ UNCHANGED <<job, moved, turnDone, senders, appendLock, redispatch,
                   world, nextId, view, hist>>

\* #moveIntoIndexed: the messages are in the indexed job, the copy goes.
TakeHold(o) ==
    LET p == op[o] IN
    /\ p.pc = "takehold"
    /\ IF Pending(At(p.cp)) THEN Put(p.cp, NoJob) ELSE UNCHANGED job
    /\ Go(o, "markhold")
    /\ UNCHANGED <<idx, moved, turnDone, senders, appendLock, redispatch,
                   world, nextId, view, hist>>

MarkHold(o) ==
    LET p == op[o] IN
    /\ p.pc = "markhold"
    /\ moved' = [moved EXCEPT ![p.cp[2]] = p.res]
    /\ Go(o, "marksrc")
    /\ UNCHANGED <<job, idx, turnDone, senders, appendLock, redispatch,
                   world, nextId, view, hist>>
=============================================================================
