---------------------------- MODULE NodeRegistry ----------------------------
(***************************************************************************)
(* Nodes, the session registry (src/queue/registry.ts), warm routing at    *)
(* dispatch (gateway/core/dispatch.ts), the node's life (node/worker.ts)   *)
(* and the leader's reaper (queue/reaper.ts): which queue a turn is put    *)
(* on, and who looks for it when that queue's node is gone.                *)
(*                                                                         *)
(* One label; a job is one turn of its session; moves keep the job (their  *)
(* merging and ordering are TurnSession's).  A node id is never used       *)
(* again: it ends in random bytes.                                         *)
(***************************************************************************)
EXTENDS Naturals, FiniteSets

CONSTANTS
    RNode, RSess, RJob,   \* nodes, sessions, turns dispatched
    NoRNode,
    SlowDispatch, \* a dispatch may read an entry before the reaper clears it and
                  \* enqueue after the pass has drained that node's queue
    MaxDeaths,   \* bound: nodes killed
    MaxQuiets    \* bound: nodes stopped, nodes paused for their credential,
                 \* and liveness keys that expire under a beating node

ASSUME RegistryAssumption ==
    /\ NoRNode \notin RNode
    /\ SlowDispatch \in BOOLEAN
    /\ {MaxDeaths, MaxQuiets} \subseteq Nat
    /\ RNode \cup RJob \subseteq Nat \ {0}

VARIABLES
    node,     \* node[n]: its process
    warm,     \* warm[n]: sessions with a live Query it knows of
    beat,     \* nodes whose liveness key nodes:<id> exists
    nodeset,  \* the reaper's work list
    entry,    \* entry[s]: the node named by sess:<s>, or NoRNode
    job,      \* job[j]: its session, its queue, its state
    route,    \* the dispatch under way
    reap,     \* the reaper's pass
    spent     \* the bounded events so far

regVars == <<node, warm, beat, nodeset, entry, job, route, reap, spent>>

Shared == NoRNode     \* the label's queue
Serving == {"up", "paused", "draining"}
NoRoute == [pc |-> "idle", j |-> 0, target |-> Shared]
NoReap == [pc |-> "nap", named |-> [s \in RSess |-> NoRNode], todo |-> {},
           cur |-> NoRNode, held |-> FALSE]

RegInit ==
    /\ node = [n \in RNode |-> "new"]
    /\ warm = [n \in RNode |-> {}]
    /\ beat = {} /\ nodeset = {}
    /\ entry = [s \in RSess |-> NoRNode]
    /\ job \in [RJob -> [sess : RSess, at : {Shared}, by : {NoRNode}, st : {"none"}]]
    /\ route = NoRoute
    /\ reap = NoReap
    /\ spent = [deaths |-> 0, quiets |-> 0]

Spend(what, max) == spent[what] < max /\ spent' = [spent EXCEPT ![what] = @ + 1]
\* A job in BullMQ's active list has a lock while its node renews it.
Locked(j) == job[j].st = "active" /\ node[job[j].by] \in Serving
OnQueue(q) == {j \in RJob : job[j].at = q /\ job[j].st \in {"waiting", "active"}}

-----------------------------------------------------------------------------
(***************************************************************************)
(* The node's process                                                      *)
(***************************************************************************)
NodeUp(n) ==
    /\ node[n] = "new"
    /\ \A m \in RNode : m < n => node[m] # "new"
    /\ node' = [node EXCEPT ![n] = "up"]
    /\ beat' = beat \cup {n} /\ nodeset' = nodeset \cup {n}
    /\ UNCHANGED <<warm, entry, job, route, reap, spent>>

\* The node's own queue, or the shared one.
Claim(n, j) ==
    /\ node[n] = "up"
    /\ job[j].st = "waiting" /\ job[j].at \in {n, Shared}
    /\ \A k \in RJob : job[k].st = "active" /\ Locked(k) => job[k].sess # job[j].sess
    /\ job' = [job EXCEPT ![j].st = "active", ![j].by = n]
    /\ UNCHANGED <<node, warm, beat, nodeset, entry, route, reap, spent>>

\* The turn ends and the job is done; the session stays warm or does not.
\* A node told to drain finishes its turn and registers like any other.
EndOfTurn(n, j) ==
    /\ node[n] \in Serving
    /\ job[j].st = "active" /\ job[j].by = n
    /\ job' = [job EXCEPT ![j].st = "done"]
    /\ LET s == job[j].sess IN
       \/ /\ warm' = [warm EXCEPT ![n] = @ \cup {s}]
          /\ entry' = [entry EXCEPT ![s] = n]
       \/ /\ warm' = [warm EXCEPT ![n] = @ \ {s}]
          /\ entry' = IF s \in warm[n] THEN [entry EXCEPT ![s] = NoRNode] ELSE entry
    /\ UNCHANGED <<node, beat, nodeset, route, reap, spent>>

\* The heartbeat keeps the liveness key, which it does not put back on the
\* work list, and registers a warm session whose entry is gone.  An entry
\* that exists is kept alive whichever node it names.
Beat(n) ==
    /\ node[n] = "up"
    /\ beat' = beat \cup {n}
    /\ entry' = [s \in RSess |-> IF s \in warm[n] /\ entry[s] = NoRNode THEN n ELSE entry[s]]
    /\ UNCHANGED <<node, warm, nodeset, job, route, reap, spent>>

\* The idle TTL closed the Query; the next beat unregisters it.
IdleOut(n, s) ==
    /\ node[n] = "up" /\ s \in warm[n]
    /\ \A j \in RJob : ~(job[j].by = n /\ job[j].sess = s /\ job[j].st = "active")
    /\ warm' = [warm EXCEPT ![n] = @ \ {s}]
    /\ entry' = [entry EXCEPT ![s] = NoRNode]
    /\ UNCHANGED <<node, beat, nodeset, job, route, reap, spent>>

\* A 401 pauses the claims and the heartbeat until the credential is accepted.
PauseForAuth(n) ==
    /\ node[n] = "up" /\ Spend("quiets", MaxQuiets)
    /\ node' = [node EXCEPT ![n] = "paused"]
    /\ UNCHANGED <<warm, beat, nodeset, entry, job, route, reap>>

Resume(n) ==
    /\ node[n] = "paused"
    /\ node' = [node EXCEPT ![n] = "up"]
    /\ beat' = beat \cup {n} /\ nodeset' = nodeset \cup {n}
    /\ UNCHANGED <<warm, entry, job, route, reap, spent>>

Kill(n) ==
    /\ node[n] \in Serving /\ Spend("deaths", MaxDeaths)
    /\ node' = [node EXCEPT ![n] = "dead"]
    /\ warm' = [warm EXCEPT ![n] = {}]
    /\ UNCHANGED <<beat, nodeset, entry, job, route, reap>>

\* SIGTERM: the claims and the heartbeat stop, turns in flight go on.
Drain(n) ==
    /\ node[n] = "up" /\ Spend("quiets", MaxQuiets)
    /\ node' = [node EXCEPT ![n] = "draining"]
    /\ UNCHANGED <<warm, beat, nodeset, entry, job, route, reap>>

\* The turns are over: the warm sessions and the node are deregistered.  What
\* waits on the node's own queue stays there.
NodeDown(n) ==
    /\ node[n] = "draining"
    /\ \A j \in RJob : ~(job[j].by = n /\ job[j].st = "active")
    /\ node' = [node EXCEPT ![n] = "stopped"]
    /\ entry' = [s \in RSess |-> IF s \in warm[n] THEN NoRNode ELSE entry[s]]
    /\ warm' = [warm EXCEPT ![n] = {}]
    /\ beat' = beat \ {n} /\ nodeset' = nodeset \ {n}
    /\ UNCHANGED <<job, route, reap, spent>>

-----------------------------------------------------------------------------
(***************************************************************************)
(* Keys that expire                                                        *)
(***************************************************************************)
\* The key lives 30 s from the last beat: longer than a dispatch, than a pass
\* that began before an entry was made, and than an entry (20 s) that no other
\* node's beat keeps alive.
KeyExpires(n) ==
    /\ n \in beat /\ route.target # n
    /\ \A s \in RSess : entry[s] = n =>
          /\ reap.pc = "nap" \/ reap.named[s] = n
          /\ \E m \in RNode \ {n} : node[m] = "up" /\ s \in warm[m]
    /\ IF node[n] = "up" THEN Spend("quiets", MaxQuiets) ELSE UNCHANGED spent
    /\ beat' = beat \ {n}
    /\ UNCHANGED <<node, warm, nodeset, entry, job, route, reap>>

\* Nobody who beats has the session warm.
EntryExpires(s) ==
    /\ entry[s] # NoRNode
    /\ \A n \in RNode : node[n] = "up" => s \notin warm[n]
    /\ entry' = [entry EXCEPT ![s] = NoRNode]
    /\ UNCHANGED <<node, warm, beat, nodeset, job, route, reap, spent>>

\* BullMQ's stalled check, run by the workers of a queue: the shared one's.
StallRecovered(j) ==
    /\ job[j].st = "active" /\ ~Locked(j) /\ job[j].at = Shared
    /\ \E n \in RNode : node[n] = "up"
    /\ job' = [job EXCEPT ![j].st = "waiting", ![j].by = NoRNode]
    /\ UNCHANGED <<node, warm, beat, nodeset, entry, route, reap, spent>>

-----------------------------------------------------------------------------
(***************************************************************************)
(* Dispatch                                                                *)
(***************************************************************************)
\* The registry's answer picks the queue; labels that have expired count as
\* the default label, so only the entry matters here.
Route(j) ==
    /\ route.pc = "idle" /\ job[j].st = "none"
    /\ \A k \in RJob : k < j => job[k].st # "none"
    /\ route' = [pc |-> "routed", j |-> j, target |-> entry[job[j].sess]]
    /\ UNCHANGED <<node, warm, beat, nodeset, entry, job, reap, spent>>

EnqueueJob ==
    /\ route.pc = "routed"
    /\ job' = [job EXCEPT ![route.j].st = "waiting", ![route.j].at = route.target]
    /\ route' = NoRoute
    /\ UNCHANGED <<node, warm, beat, nodeset, entry, reap, spent>>

-----------------------------------------------------------------------------
(***************************************************************************)
(* The reaper's pass                                                       *)
(***************************************************************************)
\* A node on the work list, or named by a session entry.
Candidates(named) == (nodeset \cup {named[s] : s \in RSess}) \ {NoRNode}

ReapScan ==
    /\ reap.pc = "nap"
    /\ reap' = [NoReap EXCEPT !.pc = "visit", !.named = entry, !.todo = Candidates(entry)]
    /\ UNCHANGED <<node, warm, beat, nodeset, entry, job, route, spent>>

ReapVisit(n) ==
    /\ reap.pc = "visit" /\ n \in reap.todo
    /\ reap' = [reap EXCEPT !.todo = @ \ {n}, !.cur = n,
                  !.pc = IF n \in beat THEN "visit" ELSE "clear"]
    /\ UNCHANGED <<node, warm, beat, nodeset, entry, job, route, spent>>

\* Mutant: the pass deletes no entry.
Leftover_None(s) == FALSE

\* The entries that named the node at the scan, whoever they name by now.
Leftover(s) == reap.named[s] = reap.cur

ReapClear ==
    /\ reap.pc = "clear"
    /\ entry' = [s \in RSess |-> IF Leftover(s) THEN NoRNode ELSE entry[s]]
    /\ reap' = [reap EXCEPT !.pc = "drain"]
    /\ UNCHANGED <<node, warm, beat, nodeset, job, route, spent>>

\* Mutant: the lock of an active job is not looked at.
Movable_Any(j) == TRUE

\* Mutant: only unclaimed jobs move.
Movable_Waiting(j) == job[j].st = "waiting"

\* A waiting job moves; an active one only when its lock has expired.
Movable(j) == job[j].st = "waiting" \/ ~Locked(j)

\* The dispatch's awaits between the lookup and the add are far shorter than the
\* reaper's between the scan and the drain, but nothing in the code orders them.
ReapDrain ==
    /\ reap.pc = "drain"
    /\ SlowDispatch \/ route.target # reap.cur
    /\ LET moved == {j \in OnQueue(reap.cur) : Movable(j)} IN
       /\ job' = [j \in RJob |->
              IF j \in moved
              THEN [job[j] EXCEPT !.at = Shared, !.st = "waiting", !.by = NoRNode]
              ELSE job[j]]
       /\ reap' = [reap EXCEPT !.pc = "forget", !.held = OnQueue(reap.cur) # moved]
    /\ UNCHANGED <<node, warm, beat, nodeset, entry, route, spent>>

\* Only a node without held jobs leaves the work list.
Forgettable == ~reap.held

ReapForget ==
    /\ reap.pc = "forget"
    /\ nodeset' = IF Forgettable THEN nodeset \ {reap.cur} ELSE nodeset
    /\ reap' = [reap EXCEPT !.pc = "visit", !.cur = NoRNode]
    /\ UNCHANGED <<node, warm, beat, entry, job, route, spent>>

ReapNap ==
    /\ reap.pc = "visit" /\ reap.todo = {}
    /\ reap' = NoReap
    /\ UNCHANGED <<node, warm, beat, nodeset, entry, job, route, spent>>

-----------------------------------------------------------------------------
ReapStep == ReapScan \/ ReapClear \/ ReapDrain \/ ReapForget \/ ReapNap
            \/ \E n \in RNode : ReapVisit(n)
NodeStep(n) ==
    \/ NodeUp(n) \/ Beat(n) \/ PauseForAuth(n) \/ Resume(n) \/ Kill(n) \/ Drain(n)
    \/ NodeDown(n) \/ KeyExpires(n)
    \/ \E j \in RJob : Claim(n, j) \/ EndOfTurn(n, j)
    \/ \E s \in RSess : IdleOut(n, s)

RegNext ==
    \/ \E n \in RNode : NodeStep(n)
    \/ \E s \in RSess : EntryExpires(s)
    \/ \E j \in RJob : Route(j) \/ StallRecovered(j)
    \/ EnqueueJob \/ ReapStep

RegSpec == RegInit /\ [][RegNext]_regVars

\* Timers run, keys of silent nodes expire, a dispatch under way ends, and a
\* turn in flight too.  Nobody need send, nor any node start.
RegFairSpec ==
    /\ RegSpec
    /\ WF_regVars(ReapStep) /\ WF_regVars(EnqueueJob)
    /\ \A n \in RNode :
          /\ WF_regVars(Beat(n)) /\ WF_regVars(Resume(n)) /\ WF_regVars(NodeDown(n))
          /\ WF_regVars(node[n] # "up" /\ KeyExpires(n))
          /\ \A j \in RJob : WF_regVars(EndOfTurn(n, j))
    /\ \A s \in RSess : WF_regVars(EntryExpires(s))

-----------------------------------------------------------------------------
(***************************************************************************)
(* Properties                                                              *)
(***************************************************************************)
RegTypeOK ==
    /\ node \in [RNode -> {"new", "up", "paused", "draining", "dead", "stopped"}]
    /\ warm \in [RNode -> SUBSET RSess]
    /\ beat \subseteq RNode /\ nodeset \subseteq RNode
    /\ entry \in [RSess -> RNode \cup {NoRNode}]
    /\ job \in [RJob -> [sess : RSess, at : RNode \cup {Shared}, by : RNode \cup {NoRNode},
                         st : {"none", "waiting", "active", "done"}]]
    /\ route \in [pc : {"idle", "routed"}, j : RJob \cup {0}, target : RNode \cup {Shared}]
    /\ reap \in [pc : {"nap", "visit", "clear", "drain", "forget"},
                 named : [RSess -> RNode \cup {NoRNode}], todo : SUBSET RNode,
                 cur : RNode \cup {NoRNode}, held : BOOLEAN]
    /\ spent \in [deaths : 0..MaxDeaths, quiets : 0..MaxQuiets]

\* The reaper looks at a node whose key is gone when it is on the work list or
\* an entry names it; the node of the pass is looked at.
LookedAt(n) == n \in beat \cup nodeset \cup {reap.cur} \/ \E s \in RSess : entry[s] = n

\* reaper.ts:6 "A node is dead when its heartbeat key is gone but it still has
\* leftovers: [..] or jobs parked on its per-node queue": no queue with jobs is
\* out of the reaper's reach.
NoJobOutOfReach == \A n \in RNode : OnQueue(n) # {} => LookedAt(n)

\* So it is as long as nodes only run or are killed.
OnlyKills == spent.quiets = 0
WorkListCovers == OnlyKills => NoJobOutOfReach

\* A job runs on one serving node: the reaper leaves a job whose node still
\* renews its lock, also when that node's liveness key is gone.
OneRunner ==
    [][\A j \in RJob : Locked(j) /\ node'[job[j].by] \in Serving
          => job'[j].st = "done" \/ job'[j] = job[j]]_regVars

\* What waits on the queue of a node that is gone is moved.
JobOnDeadNode ==
    \E j \in RJob : /\ job[j].at \in RNode /\ node[job[j].at] = "dead"
                    /\ job[j].st \in {"waiting", "active"}
JobsLeaveDeadNodes == JobOnDeadNode ~> ~JobOnDeadNode \/ ~OnlyKills

\* Sessions stop being routed to a node that is gone, also when another node's
\* stale Query keeps the entry alive.
RouteToDeadNode == \E s \in RSess : entry[s] \in RNode /\ node[entry[s]] = "dead"
RoutesLeaveDeadNodes == RouteToDeadNode ~> ~RouteToDeadNode

\* A node's warm session is found again, although the reaper may delete the
\* entry of a node that registered it after the scan.
WarmUnlisted == \E s \in RSess, n \in RNode : node[n] = "up" /\ s \in warm[n] /\ entry[s] = NoRNode
WarmIsFound == WarmUnlisted ~> ~WarmUnlisted

\* The registry heals: jobs and routes leave a node that is gone, and a live
\* node's warm session is found (reaper.ts:138-151, worker.ts:1036-1061).
RoutingHeals == JobsLeaveDeadNodes /\ RoutesLeaveDeadNodes /\ WarmIsFound
=============================================================================
