------------------------- MODULE CoordinationProofs -------------------------
(***************************************************************************)
(* Theorems about what the replicas and nodes share in Redis: the lock of  *)
(* KeyLock, the leases of LeaderLoop, the registry of NodeRegistry and the *)
(* stream that the followers of TurnFollower read.                         *)
(***************************************************************************)
EXTENDS KeyLock, LeaderLoop, NodeRegistry, TurnFollower, FiniteSetTheorems, TLAPS

-----------------------------------------------------------------------------
(***************************************************************************)
(* KeyLock, for every set of calls, every assignment of owner strings and  *)
(* every bound.  Only ReleasesOwnGrant needs the owner strings to be       *)
(* unique: MutexUntilLapse and AbortMeansLost also hold for the node       *)
(* worker, which passes its node id for every job it claims.               *)
(***************************************************************************)
\* Every reachable state has the types of TypeOK (the state of withKeyLock).
THEOREM Typing == Spec => []TypeOK
<1>1. Init => TypeOK
  BY KeyLockAssumption DEF Init, TypeOK, PC
<1>2. TypeOK /\ [Next]_vars => TypeOK'
  <2> SUFFICES ASSUME TypeOK, [Next]_vars PROVE TypeOK'
    OBVIOUS
  <2> USE KeyLockAssumption DEF TypeOK, PC, Goto
  <2>1. ASSUME NEW c \in Call, Acquire(c) PROVE TypeOK'
    BY <2>1 DEF Acquire, AcquireLock
  <2>2. ASSUME NEW c \in Call, Refused(c) PROVE TypeOK'
    BY <2>2 DEF Refused
  <2>3. ASSUME NEW c \in Call, Retry(c) PROVE TypeOK'
    BY <2>3 DEF Retry
  <2>4. ASSUME NEW c \in Call, Extend(c) PROVE TypeOK'
    BY <2>4 DEF Extend
  <2>5. ASSUME NEW c \in Call, FnSettles(c) PROVE TypeOK'
    BY <2>5 DEF FnSettles
  <2>6. ASSUME NEW c \in Call, Release(c) PROVE TypeOK'
    BY <2>6 DEF Release, ReleaseLock
  <2>7. ASSUME NEW c \in Call, ReleaseFails(c) PROVE TypeOK'
    BY <2>7 DEF ReleaseFails
  <2>8. ASSUME NEW c \in Call, Crash(c) PROVE TypeOK'
    BY <2>8 DEF Crash
  <2>9. CASE LapseLive
    BY <2>9 DEF LapseLive
  <2>10. CASE LapseGone
    BY <2>10 DEF LapseGone
  <2>11. CASE AllOver \/ UNCHANGED vars
    BY <2>11 DEF AllOver, vars
  <2> QED
    BY <2>1, <2>2, <2>3, <2>4, <2>5, <2>6, <2>7, <2>8, <2>9, <2>10, <2>11
       DEF Next
<1> QED
  BY <1>1, <1>2, PTL DEF Spec

-----------------------------------------------------------------------------
(***************************************************************************)
(* What the key's value says about the ghost `grant`, and what a call's    *)
(* place says about both: the strengthening the safety proofs share.       *)
(***************************************************************************)
KeyNamesGrant ==
    /\ lock = NoOwner <=> grant = NoCall
    /\ grant # NoCall => lock = OwnerOf[grant]

\* The grant is a call that acquired and has not released.
GrantHolds == grant # NoCall => pc[grant] \in {"running", "releasing", "gone"}

\* A call aborts only after acquiring, so it never acquires again.
AbortedRan ==
    \A c \in Call : aborted[c] => pc[c] \notin {"idle", "refused"}

HoldsUntilLapse ==
    lapses = 0 => \A c \in Call : Holding(c) => grant = c

IInv ==
    /\ TypeOK
    /\ KeyNamesGrant
    /\ GrantHolds
    /\ AbortedRan
    /\ HoldsUntilLapse
    /\ AbortMeansLost

\* The strengthening is an invariant: each conjunct is kept by each action.
THEOREM Inductive == Spec => []IInv
<1>1. Init => IInv
  BY KeyLockAssumption
     DEF Init, IInv, TypeOK, PC, KeyNamesGrant, GrantHolds, AbortedRan,
         HoldsUntilLapse, Holding, AbortMeansLost
<1>2. IInv /\ TypeOK' /\ [Next]_vars => IInv'
  <2> SUFFICES ASSUME IInv, TypeOK', [Next]_vars PROVE IInv'
    OBVIOUS
  <2> USE KeyLockAssumption
      DEF IInv, TypeOK, PC, KeyNamesGrant, GrantHolds, AbortedRan,
          HoldsUntilLapse, Holding, AbortMeansLost, Goto
  <2>1. ASSUME NEW c \in Call, Acquire(c) PROVE IInv'
    BY <2>1 DEF Acquire, AcquireLock
  <2>2. ASSUME NEW c \in Call, Refused(c) PROVE IInv'
    BY <2>2 DEF Refused
  <2>3. ASSUME NEW c \in Call, Retry(c) PROVE IInv'
    BY <2>3 DEF Retry
  <2>4. ASSUME NEW c \in Call, Extend(c) PROVE IInv'
    BY <2>4 DEF Extend, ExtendLock
  <2>5. ASSUME NEW c \in Call, FnSettles(c) PROVE IInv'
    BY <2>5 DEF FnSettles
  <2>6. ASSUME NEW c \in Call, Release(c) PROVE IInv'
    BY <2>6 DEF Release, ReleaseLock
  <2>7. ASSUME NEW c \in Call, ReleaseFails(c) PROVE IInv'
    BY <2>7 DEF ReleaseFails
  <2>8. ASSUME NEW c \in Call, Crash(c) PROVE IInv'
    BY <2>8 DEF Crash
  <2>9. CASE LapseLive
    BY <2>9 DEF LapseLive
  <2>10. CASE LapseGone
    BY <2>10 DEF LapseGone
  <2>11. CASE AllOver \/ UNCHANGED vars
    BY <2>11 DEF AllOver, vars
  <2> QED
    BY <2>1, <2>2, <2>3, <2>4, <2>5, <2>6, <2>7, <2>8, <2>9, <2>10, <2>11
       DEF Next
<1> QED
  BY <1>1, <1>2, Typing, PTL DEF Spec

\* Until a TTL runs out under a live call, at most one call runs its fn: two
\* turns of one session never run at once (withKeyLock), shared owner or not.
THEOREM Mutex == Spec => []MutexUntilLapse
<1>1. IInv => MutexUntilLapse
  BY DEF IInv, HoldsUntilLapse, MutexUntilLapse
<1> QED
  BY <1>1, Inductive, PTL

\* The extender never aborts a call that still holds the key.
THEOREM NoSpuriousAbort == Spec => []AbortMeansLost
<1>1. IInv => AbortMeansLost
  BY DEF IInv
<1> QED
  BY <1>1, Inductive, PTL

\* With unique owner strings the compare-owner release never frees another
\* call's key; nodes that reuse an owner string are exactly what is excluded.
THEOREM ReleaseIsOwn == ASSUME UniqueOwners PROVE Spec => ReleasesOwnGrant
<1>1. IInv /\ [Next]_vars =>
        [\A c \in Call :
            pc[c] = "releasing" /\ grant \notin {c, NoCall} /\ pc'[c] = "returned"
               => grant' = grant]_vars
  <2> SUFFICES ASSUME IInv, [Next]_vars, NEW c \in Call,
                      pc[c] = "releasing", grant \notin {c, NoCall},
                      pc'[c] = "returned"
               PROVE  grant' = grant
    BY DEF vars
  <2> USE KeyLockAssumption DEF IInv, TypeOK, PC, KeyNamesGrant, Goto
  <2>1. ASSUME NEW e \in Call, Release(e) PROVE grant' = grant
    <3>1. e = c
      BY <2>1 DEF Release
    <3>2. lock = OwnerOf[grant] /\ grant \in Call
      OBVIOUS
    <3>3. lock # OwnerOf[c]
      BY <3>2, UniqueOwners DEF UniqueOwners
    <3> QED
      BY <2>1, <3>1, <3>3 DEF Release, ReleaseLock
  <2>2. ASSUME NEW e \in Call,
               Acquire(e) \/ Refused(e) \/ Retry(e) \/ Extend(e)
                 \/ FnSettles(e) \/ ReleaseFails(e) \/ Crash(e)
        PROVE  FALSE
    BY <2>2 DEF Acquire, Refused, Retry, Extend, FnSettles, ReleaseFails, Crash
  <2>3. ~LapseLive /\ ~LapseGone
    BY DEF LapseLive, LapseGone
  <2>4. CASE AllOver \/ UNCHANGED vars
    BY <2>4 DEF AllOver, vars
  <2> QED
    BY <2>1, <2>2, <2>3, <2>4 DEF Next
<1> QED
  BY <1>1, Inductive, PTL DEF Spec, ReleasesOwnGrant

-----------------------------------------------------------------------------
(***************************************************************************)
(* NodeRegistry, for any sets of nodes, sessions and turns and any number  *)
(* of deaths, drains, pauses and expired keys: neither the reaper, the     *)
(* stalled check nor a dispatch takes a turn from a node that runs it.     *)
(***************************************************************************)
Jobs == [sess : RSess, at : RNode \cup {Shared}, by : RNode \cup {NoRNode},
         st : {"none", "waiting", "active", "done"}]
Routes == [pc : {"idle", "routed"}, j : RJob \cup {0}, target : RNode \cup {Shared}]

\* The values of what decides where a turn is.
RouteShape ==
    /\ job \in [RJob -> Jobs] /\ route \in Routes
    /\ entry \in [RSess -> RNode \cup {NoRNode}]
    /\ warm \in [RNode -> SUBSET RSess]

\* The dispatch under way is of a turn that is on no queue yet.
RoutedIsNew == route.pc = "routed" => route.j \in RJob /\ job[route.j].st = "none"

RInv == RouteShape /\ RoutedIsNew

\* What OneRunner says of a step.
KeepsRunner ==
    \A j \in RJob : Locked(j) /\ node'[job[j].by] \in Serving
        => job'[j].st = "done" \/ job'[j] = job[j]

\* A dispatch that has not begun leaves the invariant to the shapes.
LEMMA RInvInit == RegInit => RInv
<1> SUFFICES ASSUME RegInit PROVE RInv
  OBVIOUS
<1>1. job \in [RJob -> Jobs]
  BY DEF RegInit, Jobs, Shared
<1>2. entry \in [RSess -> RNode \cup {NoRNode}] /\ warm \in [RNode -> SUBSET RSess]
  BY DEF RegInit
<1>3. route \in Routes /\ route.pc = "idle"
  BY DEF RegInit, NoRoute, Routes, Shared
<1> QED
  BY <1>1, <1>2, <1>3 DEF RInv, RouteShape, RoutedIsNew

\* The steps that leave the jobs and the dispatch alone.
LEMMA JoblessStep ==
    ASSUME RInv, UNCHANGED <<job, route>>,
           entry' \in [RSess -> RNode \cup {NoRNode}], warm' \in [RNode -> SUBSET RSess]
    PROVE  RInv' /\ KeepsRunner
BY DEF RInv, RouteShape, RoutedIsNew, KeepsRunner

\* One turn moves on: it was on a queue, and nobody else runs it.
LEMMA OneJobStep ==
    ASSUME RInv, NEW j \in RJob, NEW new \in Jobs, job' = [job EXCEPT ![j] = new],
           job[j].st # "none", Locked(j) => new.st = "done", UNCHANGED route,
           entry' \in [RSess -> RNode \cup {NoRNode}], warm' \in [RNode -> SUBSET RSess]
    PROVE  RInv' /\ KeepsRunner
<1>1. /\ job' \in [RJob -> Jobs]
      /\ \A k \in RJob : job'[k] = IF k = j THEN new ELSE job[k]
  BY DEF RInv, RouteShape
<1>2. RInv'
  BY <1>1 DEF RInv, RouteShape, RoutedIsNew
<1>3. KeepsRunner
  BY <1>1 DEF KeepsRunner
<1> QED
  BY <1>2, <1>3

\* A step of a node: only a claim and the end of a turn touch a job.
LEMMA NodeMoves ==
    ASSUME RInv, NEW n \in RNode, NodeStep(n)
    PROVE  RInv' /\ KeepsRunner
<1>1. /\ entry \in [RSess -> RNode \cup {NoRNode}] /\ warm \in [RNode -> SUBSET RSess]
      /\ job \in [RJob -> Jobs]
  BY DEF RInv, RouteShape
<1>2. CASE NodeUp(n) \/ PauseForAuth(n) \/ Resume(n) \/ Drain(n) \/ KeyExpires(n)
  BY <1>1, <1>2, JoblessStep DEF NodeUp, PauseForAuth, Resume, Drain, KeyExpires
<1>3. CASE Beat(n) \/ Kill(n)
  BY <1>1, <1>3, JoblessStep DEF Beat, Kill
<1>4. CASE NodeDown(n)
  BY <1>1, <1>4, JoblessStep DEF NodeDown
<1>5. ASSUME NEW s \in RSess, IdleOut(n, s) PROVE RInv' /\ KeepsRunner
  BY <1>1, <1>5, JoblessStep DEF IdleOut
<1>6. ASSUME NEW j \in RJob, Claim(n, j) PROVE RInv' /\ KeepsRunner
  <2> DEFINE new == [job[j] EXCEPT !.st = "active", !.by = n]
  <2>1. new \in Jobs /\ job' = [job EXCEPT ![j] = new]
    BY <1>1, <1>6 DEF Claim, Jobs
  <2>2. job[j].st = "waiting" /\ ~Locked(j)
    BY <1>6 DEF Claim, Locked
  <2>3. UNCHANGED <<route, entry, warm>>
    BY <1>6 DEF Claim
  <2> HIDE DEF new
  <2> QED
    BY <1>1, <2>1, <2>2, <2>3, OneJobStep
<1>7. ASSUME NEW j \in RJob, EndOfTurn(n, j) PROVE RInv' /\ KeepsRunner
  <2> DEFINE new == [job[j] EXCEPT !.st = "done"]
  <2>1. /\ new \in Jobs /\ job' = [job EXCEPT ![j] = new]
        /\ new.st = "done" /\ job[j].st = "active" /\ job[j].sess \in RSess
    BY <1>1, <1>7 DEF EndOfTurn, Jobs
  <2>2. /\ entry' \in [RSess -> RNode \cup {NoRNode}] /\ warm' \in [RNode -> SUBSET RSess]
        /\ UNCHANGED route
    BY <1>1, <1>7, <2>1 DEF EndOfTurn
  <2> HIDE DEF new
  <2> QED
    BY <1>1, <2>1, <2>2, OneJobStep
<1> QED
  BY <1>2, <1>3, <1>4, <1>5, <1>6, <1>7 DEF NodeStep

\* The reaper moves what waits, and what nobody runs any more.
LEMMA ReaperMoves ==
    ASSUME RInv, ReapStep
    PROVE  RInv' /\ KeepsRunner
<1>1. /\ entry \in [RSess -> RNode \cup {NoRNode}] /\ warm \in [RNode -> SUBSET RSess]
      /\ job \in [RJob -> Jobs]
  BY DEF RInv, RouteShape
<1>2. CASE ReapScan \/ ReapForget \/ ReapNap \/ \E n \in RNode : ReapVisit(n)
  BY <1>1, <1>2, JoblessStep DEF ReapScan, ReapForget, ReapNap, ReapVisit
<1>3. CASE ReapClear
  BY <1>1, <1>3, JoblessStep DEF ReapClear, Leftover
<1>4. CASE ReapDrain
  <2> DEFINE moved == {j \in OnQueue(reap.cur) : Movable(j)}
             back(j) == [job[j] EXCEPT !.at = Shared, !.st = "waiting", !.by = NoRNode]
  <2>1. job' = [j \in RJob |-> IF j \in moved THEN back(j) ELSE job[j]]
    BY <1>4 DEF ReapDrain
  <2>2. \A j \in RJob : back(j) \in Jobs
    BY <1>1 DEF Jobs, Shared
  <2>3. \A j \in moved : ~Locked(j) /\ job[j].st # "none"
    BY DEF OnQueue, Movable, Locked
  <2> HIDE DEF moved, back
  <2>4. job' \in [RJob -> Jobs] /\ \A j \in RJob : j \in moved \/ job'[j] = job[j]
    BY <1>1, <2>1, <2>2
  <2>5. UNCHANGED <<warm, entry, route>>
    BY <1>4 DEF ReapDrain
  <2>6. RInv'
    BY <2>3, <2>4, <2>5 DEF RInv, RouteShape, RoutedIsNew
  <2>7. KeepsRunner
    BY <2>3, <2>4 DEF KeepsRunner
  <2> QED
    BY <2>6, <2>7
<1> QED
  BY <1>2, <1>3, <1>4 DEF ReapStep

\* A dispatch puts a turn on a queue that no node has heard of.
LEMMA DispatchMoves ==
    ASSUME RInv, EnqueueJob \/ \E j \in RJob : Route(j) \/ StallRecovered(j)
    PROVE  RInv' /\ KeepsRunner
<1>1. /\ entry \in [RSess -> RNode \cup {NoRNode}] /\ warm \in [RNode -> SUBSET RSess]
      /\ job \in [RJob -> Jobs] /\ route \in Routes
  BY DEF RInv, RouteShape
<1>2. ASSUME NEW j \in RJob, Route(j) PROVE RInv' /\ KeepsRunner
  <2>1. /\ route' \in Routes /\ route'.pc = "routed" /\ route'.j = j
        /\ job[j].st = "none" /\ UNCHANGED <<job, entry, warm>>
    BY <1>1, <1>2 DEF Route, Routes, Jobs, Shared
  <2> QED
    BY <1>1, <2>1 DEF RInv, RouteShape, RoutedIsNew, KeepsRunner
<1>3. CASE EnqueueJob
  <2> DEFINE new == [job[route.j] EXCEPT !.st = "waiting", !.at = route.target]
  <2>1. /\ route.j \in RJob /\ job[route.j].st = "none"
        /\ UNCHANGED <<entry, warm>> /\ route' = NoRoute
    BY <1>3 DEF EnqueueJob, RInv, RoutedIsNew
  <2>2. new \in Jobs /\ job' = [job EXCEPT ![route.j] = new]
    <3>1. job[route.j] \in Jobs
      BY <1>1, <2>1
    <3>2. route.target \in RNode \cup {Shared}
      BY <1>1 DEF Routes
    <3>3. new \in Jobs
      BY <3>1, <3>2 DEF Jobs
    <3>4. job' = [job EXCEPT ![route.j] = new]
      BY <1>3 DEF EnqueueJob
    <3> QED
      BY <3>3, <3>4
  <2> HIDE DEF new
  <2>3. job' \in [RJob -> Jobs] /\ \A k \in RJob : k = route.j \/ job'[k] = job[k]
    BY <1>1, <2>2
  <2>4. route' \in Routes /\ route'.pc = "idle"
    BY <2>1 DEF NoRoute, Routes, Shared
  <2>5. RInv'
    BY <1>1, <2>1, <2>3, <2>4 DEF RInv, RouteShape, RoutedIsNew
  <2>6. KeepsRunner
    BY <2>1, <2>3 DEF KeepsRunner, Locked
  <2> QED
    BY <2>5, <2>6
<1>4. ASSUME NEW j \in RJob, StallRecovered(j) PROVE RInv' /\ KeepsRunner
  <2> DEFINE new == [job[j] EXCEPT !.st = "waiting", !.by = NoRNode]
  <2>1. new \in Jobs /\ job' = [job EXCEPT ![j] = new]
    <3>1. job[j] \in Jobs
      BY <1>1
    <3>2. new \in Jobs
      BY <3>1 DEF Jobs
    <3>3. job' = [job EXCEPT ![j] = new]
      BY <1>4 DEF StallRecovered
    <3> QED
      BY <3>2, <3>3
  <2>2. job[j].st # "none" /\ ~Locked(j) /\ UNCHANGED <<route, entry, warm>>
    BY <1>4 DEF StallRecovered
  <2> HIDE DEF new
  <2> QED
    BY <1>1, <2>1, <2>2, OneJobStep
<1> QED
  BY <1>2, <1>3, <1>4

\* Every step keeps the invariant and the runner of each turn.
LEMMA RInvStep == RInv /\ [RegNext]_regVars => RInv' /\ [KeepsRunner]_regVars
<1> SUFFICES ASSUME RInv, [RegNext]_regVars PROVE RInv' /\ [KeepsRunner]_regVars
  OBVIOUS
<1>1. CASE UNCHANGED regVars
  BY <1>1 DEF regVars, RInv, RouteShape, RoutedIsNew
<1>2. ASSUME NEW s \in RSess, EntryExpires(s) PROVE RInv' /\ KeepsRunner
  <2>1. /\ entry' \in [RSess -> RNode \cup {NoRNode}] /\ UNCHANGED <<job, route, warm>>
    BY <1>2 DEF EntryExpires, RInv, RouteShape
  <2> QED
    BY <2>1, JoblessStep DEF RInv, RouteShape
<1> QED
  BY <1>1, <1>2, NodeMoves, ReaperMoves, DispatchMoves DEF RegNext

\* A turn runs on one node: as long as that node serves and renews the lock,
\* the reaper, the stalled check and a dispatch leave the turn to it.
THEOREM RunnerKept == RegSpec => OneRunner
<1>1. [KeepsRunner]_regVars =>
        [\A j \in RJob : Locked(j) /\ node'[job[j].by] \in Serving
            => job'[j].st = "done" \/ job'[j] = job[j]]_regVars
  BY DEF KeepsRunner
<1> QED
  BY <1>1, RInvInit, RInvStep, PTL DEF RegSpec, OneRunner

\* The values of what the reaper and the nodes' lives go by.
RestShape ==
    /\ node \in [RNode -> {"new", "up", "paused", "draining", "dead", "stopped"}]
    /\ beat \subseteq RNode /\ nodeset \subseteq RNode
    /\ reap \in [pc : {"nap", "visit", "clear", "drain", "forget"},
                 named : [RSess -> RNode \cup {NoRNode}], todo : SUBSET RNode,
                 cur : RNode \cup {NoRNode}, held : BOOLEAN]
    /\ spent \in [deaths : 0..MaxDeaths, quiets : 0..MaxQuiets]

\* A bounded event stays within its bound; what is not a kill leaves OnlyKills for good.
LEMMA SpendBounded ==
    ASSUME RestShape, NEW what \in {"deaths", "quiets"},
           Spend(what, IF what = "deaths" THEN MaxDeaths ELSE MaxQuiets)
    PROVE  /\ spent' \in [deaths : 0..MaxDeaths, quiets : 0..MaxQuiets]
           /\ OnlyKills' => OnlyKills /\ what = "deaths"
BY RegistryAssumption DEF RestShape, Spend, OnlyKills

\* The types are kept, and a bounded event stays spent.
LEMMA RestStep ==
    ASSUME RInv, RestShape, [RegNext]_regVars
    PROVE  RestShape' /\ (OnlyKills' => OnlyKills)
<1>0. /\ entry \in [RSess -> RNode \cup {NoRNode}] /\ warm \in [RNode -> SUBSET RSess]
      /\ job \in [RJob -> Jobs] /\ route \in Routes
  BY DEF RInv, RouteShape
<1> USE <1>0 DEF RestShape
<1>1. CASE UNCHANGED regVars
  BY <1>1 DEF regVars, OnlyKills
<1>2. ASSUME NEW n \in RNode, NodeStep(n) PROVE RestShape' /\ (OnlyKills' => OnlyKills)
  <2>1. CASE NodeUp(n) \/ Beat(n) \/ Resume(n) \/ NodeDown(n)
    BY <2>1 DEF NodeUp, Beat, Resume, NodeDown, OnlyKills
  <2>2. CASE PauseForAuth(n) \/ Drain(n)
    BY <2>2, SpendBounded DEF PauseForAuth, Drain
  <2>3. CASE Kill(n)
    BY <2>3, SpendBounded DEF Kill
  <2>4. CASE KeyExpires(n)
    <3>1. UNCHANGED <<node, nodeset, reap>> /\ beat' = beat \ {n}
      BY <2>4 DEF KeyExpires
    <3>2. CASE node[n] = "up"
      BY <2>4, <3>1, <3>2, SpendBounded DEF KeyExpires
    <3>3. CASE node[n] # "up"
      BY <2>4, <3>1, <3>3 DEF KeyExpires, OnlyKills
    <3> QED
      BY <3>2, <3>3
  <2>5. CASE \E j \in RJob : Claim(n, j) \/ EndOfTurn(n, j)
    BY <2>5 DEF Claim, EndOfTurn, OnlyKills
  <2>6. CASE \E s \in RSess : IdleOut(n, s)
    BY <2>6 DEF IdleOut, OnlyKills
  <2> QED
    BY <1>2, <2>1, <2>2, <2>3, <2>4, <2>5, <2>6 DEF NodeStep
<1>3. CASE ReapStep
  <2>1. CASE ReapScan
    <3>1. Candidates(entry) \in SUBSET RNode
      BY DEF Candidates
    <3> QED
      BY <2>1, <3>1 DEF ReapScan, NoReap, OnlyKills
  <2>2. ASSUME NEW n \in RNode, ReapVisit(n) PROVE RestShape' /\ (OnlyKills' => OnlyKills)
    BY <2>2 DEF ReapVisit, OnlyKills
  <2>3. CASE ReapClear \/ ReapForget \/ ReapNap
    <3>1. NoReap \in [pc : {"nap", "visit", "clear", "drain", "forget"},
                      named : [RSess -> RNode \cup {NoRNode}], todo : SUBSET RNode,
                      cur : RNode \cup {NoRNode}, held : BOOLEAN]
      BY DEF NoReap
    <3>2. CASE ReapClear
      BY <3>2 DEF ReapClear, OnlyKills
    <3>3. CASE ReapForget
      BY <3>3 DEF ReapForget, OnlyKills
    <3>4. CASE ReapNap
      BY <3>1, <3>4 DEF ReapNap, OnlyKills
    <3> QED
      BY <2>3, <3>2, <3>3, <3>4
  <2>4. CASE ReapDrain
    BY <2>4 DEF ReapDrain, OnlyKills
  <2> QED
    BY <1>3, <2>1, <2>2, <2>3, <2>4 DEF ReapStep
<1>4. CASE \/ \E s \in RSess : EntryExpires(s)
           \/ \E j \in RJob : Route(j) \/ StallRecovered(j)
           \/ EnqueueJob
  BY <1>4 DEF EntryExpires, Route, StallRecovered, EnqueueJob, OnlyKills
<1> QED
  BY <1>1, <1>2, <1>3, <1>4 DEF RegNext

\* The types hold before the first node starts.
LEMMA RestInit == RegInit => RestShape
BY RegistryAssumption DEF RegInit, RestShape, NoReap

\* Every variable of the registry keeps its type.
THEOREM RegistryTyped == RegSpec => []RegTypeOK
<1>1. RegInit => RInv /\ RestShape
  BY RInvInit, RestInit
<1>2. RInv /\ RestShape /\ [RegNext]_regVars => RInv' /\ RestShape'
  BY RInvStep, RestStep
<1>3. RInv /\ RestShape => RegTypeOK
  BY DEF RInv, RouteShape, RestShape, RegTypeOK, Jobs, Routes
<1> QED
  BY <1>1, <1>2, <1>3, PTL DEF RegSpec
-----
\* Where a node's name can be found.
RefersTo(n) ==
    \/ n \in beat \cup nodeset \cup reap.todo \cup {reap.cur, route.target}
    \/ OnQueue(n) # {}
    \/ \E s \in RSess : entry[s] = n \/ reap.named[s] = n

\* Nothing leads to the node's queue, and nothing is on it.
Unknown(n) == OnQueue(n) = {} /\ route.target # n /\ \A s \in RSess : entry[s] # n

\* A node runs and beats, or was killed; before it starts nobody knows of it.
NodeLives ==
    \A n \in RNode :
        /\ node[n] \in {"new", "up", "dead"}
        /\ node[n] = "new" => ~RefersTo(n)
        /\ node[n] = "up" => n \in beat

\* A node leaves the work list when it is dead and there is no way to it.
OnTheList ==
    \A n \in RNode : node[n] # "new" => n \in nodeset \/ (node[n] = "dead" /\ Unknown(n))

\* The scan saw every entry of a node whose key is gone.
ScanSaw ==
    reap.pc # "nap" => \A n \in RNode \ beat, s \in RSess : entry[s] = n => reap.named[s] = n

\* The pass clears the way to a node before it drains it, and drains it before
\* it forgets it.
PassClears ==
    /\ reap.pc \in {"clear", "drain", "forget"} =>
           reap.cur \in RNode \ beat /\ node[reap.cur] = "dead"
    /\ reap.pc \in {"drain", "forget"} => \A s \in RSess : entry[s] # reap.cur
    /\ reap.pc = "forget" =>
           route.target # reap.cur /\ (reap.held \/ OnQueue(reap.cur) = {})

Cover == NodeLives /\ OnTheList /\ ScanSaw /\ PassClears

\* Steps that put no node on a list, no turn on a queue, and only a running
\* node's name in an entry.
LEMMA CalmStep ==
    ASSUME RInv, RestShape, Cover, UNCHANGED <<node, nodeset, route, reap>>,
           beat' \subseteq RNode, \A n \in beat : node[n] # "dead" => n \in beat',
           \A n \in beat' : n \in beat \/ node[n] = "up",
           \A n \in RNode : OnQueue(n)' \subseteq OnQueue(n),
           \A s \in RSess : entry'[s] \in {entry[s], NoRNode} \/ (entry'[s] \in RNode /\ node[entry'[s]] = "up"),
           \A n \in beat \ beat', s \in RSess : reap.pc # "nap" /\ entry[s] = n => reap.named[s] = n
    PROVE  Cover'
<1>0. NoRNode \notin RNode
  BY RegistryAssumption
<1>1. \A n \in RNode, s \in RSess : entry'[s] = n => entry[s] = n \/ node[n] = "up"
  BY <1>0
<1>2. NodeLives'
  BY <1>1 DEF Cover, NodeLives, RefersTo
<1>3. OnTheList'
  BY <1>1 DEF Cover, OnTheList, Unknown
<1>4. ScanSaw'
  BY <1>1 DEF Cover, ScanSaw, NodeLives
<1>5. PassClears'
  <2>1. reap.pc \in {"clear", "drain", "forget"} =>
            reap.cur \in RNode \ beat' /\ node[reap.cur] = "dead"
    BY DEF Cover, PassClears
  <2>2. reap.pc \in {"drain", "forget"} => \A s \in RSess : entry'[s] # reap.cur
    BY <1>1, <2>1 DEF Cover, PassClears
  <2>3. reap.pc = "forget" => route.target # reap.cur /\ (reap.held \/ OnQueue(reap.cur)' = {})
    BY <2>1 DEF Cover, PassClears
  <2> QED
    BY <2>1, <2>2, <2>3 DEF PassClears, OnQueue
<1> QED
  BY <1>2, <1>3, <1>4, <1>5 DEF Cover

\* A turn that stays on its queue, ends, or goes back to the label's.
LEMMA QueueOf ==
    ASSUME RInv, NEW j \in RJob, NEW new \in Jobs, job' = [job EXCEPT ![j] = new],
           new.at \in {job[j].at, Shared}, job[j].st \in {"waiting", "active"}
    PROVE  \A n \in RNode : OnQueue(n)' \subseteq OnQueue(n)
<1>1. \A k \in RJob : job'[k] = IF k = j THEN new ELSE job[k]
  BY DEF RInv, RouteShape
<1> QED
  BY <1>1, RegistryAssumption DEF OnQueue, Shared

\* A step of a node, as long as nodes only run or are killed.
LEMMA NodeCovers ==
    ASSUME RInv, RestShape, Cover, OnlyKills', NEW n \in RNode, NodeStep(n)
    PROVE  Cover'
<1>0. /\ entry \in [RSess -> RNode \cup {NoRNode}] /\ warm \in [RNode -> SUBSET RSess]
      /\ job \in [RJob -> Jobs] /\ NoRNode \notin RNode
  BY RegistryAssumption DEF RInv, RouteShape
<1>1. node[n] \in {"new", "up", "dead"} /\ (node[n] \in Serving => node[n] = "up")
  BY DEF Cover, NodeLives, Serving
<1>2. CASE NodeUp(n)
  <2>1. /\ node[n] = "new" /\ node' = [node EXCEPT ![n] = "up"]
        /\ beat' = beat \cup {n} /\ nodeset' = nodeset \cup {n}
        /\ UNCHANGED <<warm, entry, job, route, reap>>
    BY <1>2 DEF NodeUp
  <2>2. ~RefersTo(n)
    BY <2>1 DEF Cover, NodeLives
  <2>3. NodeLives'
    BY <2>1 DEF Cover, NodeLives, RefersTo, OnQueue, RestShape
  <2>4. OnTheList'
    BY <2>1 DEF Cover, OnTheList, Unknown, OnQueue, RestShape
  <2>5. ScanSaw' /\ PassClears'
    BY <2>1, <2>2 DEF Cover, ScanSaw, PassClears, RefersTo, OnQueue, RestShape
  <2> QED
    BY <2>3, <2>4, <2>5 DEF Cover
<1>3. CASE Beat(n)
  <2>1. /\ node[n] = "up" /\ beat' = beat \cup {n} /\ UNCHANGED <<node, nodeset, job, route, reap>>
        /\ entry' = [s \in RSess |-> IF s \in warm[n] /\ entry[s] = NoRNode THEN n ELSE entry[s]]
    BY <1>3 DEF Beat
  <2>2. \A m \in RNode : OnQueue(m)' = OnQueue(m)
    BY <2>1 DEF OnQueue
  <2> QED
    BY <2>1, <2>2, CalmStep DEF RestShape
<1>4. CASE PauseForAuth(n) \/ Drain(n)
  BY <1>4, SpendBounded DEF PauseForAuth, Drain
<1>5. CASE Resume(n) \/ NodeDown(n)
  BY <1>5, <1>1 DEF Resume, NodeDown
<1>6. CASE Kill(n)
  <2>1. /\ node[n] = "up" /\ node' = [node EXCEPT ![n] = "dead"]
        /\ UNCHANGED <<beat, nodeset, entry, job, route, reap>>
    BY <1>1, <1>6 DEF Kill
  <2>2. n \in beat /\ n \in nodeset
    BY <2>1 DEF Cover, NodeLives, OnTheList
  <2>3. \A m \in RNode : node'[m] = IF m = n THEN "dead" ELSE node[m]
    BY <2>1 DEF RestShape
  <2>4. NodeLives'
    BY <2>1, <2>3 DEF Cover, NodeLives, RefersTo, OnQueue
  <2>5. OnTheList'
    BY <2>1, <2>2, <2>3 DEF Cover, OnTheList, Unknown, OnQueue
  <2>6. ScanSaw' /\ PassClears'
    BY <2>1, <2>2, <2>3 DEF Cover, ScanSaw, PassClears, OnQueue
  <2> QED
    BY <2>4, <2>5, <2>6 DEF Cover
<1>7. CASE KeyExpires(n)
  <2>1. /\ n \in beat /\ beat' = beat \ {n} /\ UNCHANGED <<node, nodeset, entry, job, route, reap>>
        /\ \A s \in RSess : entry[s] = n => reap.pc = "nap" \/ reap.named[s] = n
    BY <1>7 DEF KeyExpires
  <2>2. node[n] # "up"
    BY <1>7, SpendBounded DEF KeyExpires
  <2>3. node[n] = "dead"
    BY <1>1, <2>1, <2>2 DEF Cover, NodeLives, RefersTo
  <2>4. \A m \in RNode : OnQueue(m)' = OnQueue(m)
    BY <2>1 DEF OnQueue
  <2> QED
    BY <2>1, <2>3, <2>4, CalmStep DEF RestShape
<1>8. ASSUME NEW j \in RJob, Claim(n, j) PROVE Cover'
  <2> DEFINE new == [job[j] EXCEPT !.st = "active", !.by = n]
  <2>1. new \in Jobs /\ job' = [job EXCEPT ![j] = new] /\ new.at = job[j].at
    BY <1>0, <1>8 DEF Claim, Jobs
  <2>2. job[j].st = "waiting" /\ UNCHANGED <<node, beat, nodeset, entry, route, reap>>
    BY <1>8 DEF Claim
  <2> HIDE DEF new
  <2>3. \A m \in RNode : OnQueue(m)' \subseteq OnQueue(m)
    BY <2>1, <2>2, QueueOf
  <2> QED
    BY <2>2, <2>3, CalmStep DEF RestShape
<1>9. ASSUME NEW j \in RJob, EndOfTurn(n, j) PROVE Cover'
  <2> DEFINE new == [job[j] EXCEPT !.st = "done"]
  <2>1. /\ new \in Jobs /\ job' = [job EXCEPT ![j] = new] /\ new.at = job[j].at
        /\ job[j].st = "active" /\ job[j].sess \in RSess
    BY <1>0, <1>9 DEF EndOfTurn, Jobs
  <2>2. /\ node[n] = "up" /\ UNCHANGED <<node, beat, nodeset, route, reap>>
        /\ \A s \in RSess : entry'[s] \in {entry[s], NoRNode, n}
    BY <1>0, <1>1, <1>9, <2>1 DEF EndOfTurn
  <2> HIDE DEF new
  <2>3. \A m \in RNode : OnQueue(m)' \subseteq OnQueue(m)
    BY <2>1, QueueOf
  <2> QED
    BY <2>2, <2>3, CalmStep DEF RestShape
<1>10. ASSUME NEW s \in RSess, IdleOut(n, s) PROVE Cover'
  <2>1. /\ UNCHANGED <<node, beat, nodeset, job, route, reap>>
        /\ \A t \in RSess : entry'[t] \in {entry[t], NoRNode}
    BY <1>0, <1>10 DEF IdleOut
  <2>2. \A m \in RNode : OnQueue(m)' = OnQueue(m)
    BY <2>1 DEF OnQueue
  <2> QED
    BY <2>1, <2>2, CalmStep DEF RestShape
<1> QED
  BY <1>2, <1>3, <1>4, <1>5, <1>6, <1>7, <1>8, <1>9, <1>10 DEF NodeStep

\* A step of the reaper's pass.
LEMMA ReaperCovers ==
    ASSUME RInv, RestShape, Cover, ~SlowDispatch, ReapStep
    PROVE  Cover'
<1>0. /\ entry \in [RSess -> RNode \cup {NoRNode}] /\ job \in [RJob -> Jobs]
      /\ NoRNode \notin RNode /\ reap.cur \in RNode \cup {NoRNode}
  BY RegistryAssumption DEF RInv, RouteShape, RestShape
<1>1. CASE ReapScan
  <2>1. /\ UNCHANGED <<node, beat, nodeset, entry, job, route>>
        /\ reap'.pc = "visit" /\ reap'.named = entry /\ reap'.cur = NoRNode
        /\ reap'.todo = (nodeset \cup {entry[s] : s \in RSess}) \ {NoRNode}
    BY <1>1 DEF ReapScan, NoReap, Candidates
  <2>2. NodeLives'
    BY <1>0, <2>1 DEF Cover, NodeLives, RefersTo, OnQueue
  <2>3. OnTheList' /\ ScanSaw' /\ PassClears'
    BY <2>1 DEF Cover, OnTheList, ScanSaw, PassClears, Unknown, OnQueue
  <2> QED
    BY <2>2, <2>3 DEF Cover
<1>2. ASSUME NEW n \in RNode, ReapVisit(n) PROVE Cover'
  <2>1. /\ UNCHANGED <<node, beat, nodeset, entry, job, route>>
        /\ n \in reap.todo /\ reap'.named = reap.named /\ reap'.cur = n
        /\ reap'.todo = reap.todo \ {n} /\ reap.pc = "visit"
        /\ reap'.pc = IF n \in beat THEN "visit" ELSE "clear"
    BY <1>2 DEF ReapVisit, RestShape
  <2>2. NodeLives' /\ OnTheList' /\ ScanSaw'
    BY <2>1 DEF Cover, NodeLives, OnTheList, ScanSaw, Unknown, RefersTo, OnQueue
  <2>3. n \notin beat => node[n] = "dead"
    BY <2>1 DEF Cover, NodeLives, RefersTo
  <2>4. PassClears'
    BY <2>1, <2>3 DEF PassClears
  <2> QED
    BY <2>2, <2>4 DEF Cover
<1>3. CASE ReapClear
  <2>1. /\ UNCHANGED <<node, beat, nodeset, job, route>> /\ reap.pc = "clear"
        /\ entry' = [s \in RSess |-> IF reap.named[s] = reap.cur THEN NoRNode ELSE entry[s]]
        /\ reap'.pc = "drain" /\ reap'.named = reap.named /\ reap'.cur = reap.cur /\ reap'.todo = reap.todo
    BY <1>3 DEF ReapClear, Leftover, RestShape
  <2>2. NodeLives' /\ OnTheList'
    BY <1>0, <2>1 DEF Cover, NodeLives, OnTheList, Unknown, RefersTo, OnQueue
  <2>3. ScanSaw'
    BY <1>0, <2>1 DEF Cover, ScanSaw
  <2>4. reap.cur \in RNode \ beat /\ node[reap.cur] = "dead"
    BY <2>1 DEF Cover, PassClears
  <2>5. \A s \in RSess : entry'[s] # reap.cur
    BY <1>0, <2>1, <2>4 DEF Cover, ScanSaw
  <2>6. PassClears'
    BY <2>1, <2>4, <2>5 DEF PassClears
  <2> QED
    BY <2>2, <2>3, <2>6 DEF Cover
<1>4. CASE ReapDrain
  <2> DEFINE moved == {j \in OnQueue(reap.cur) : Movable(j)}
             back(j) == [job[j] EXCEPT !.at = Shared, !.st = "waiting", !.by = NoRNode]
  <2>1. /\ UNCHANGED <<node, beat, nodeset, entry, route>> /\ reap.pc = "drain"
        /\ route.target # reap.cur
        /\ reap'.pc = "forget" /\ reap'.named = reap.named /\ reap'.cur = reap.cur /\ reap'.todo = reap.todo
        /\ reap'.held = (OnQueue(reap.cur) # moved)
        /\ job' = [j \in RJob |-> IF j \in moved THEN back(j) ELSE job[j]]
    BY <1>4 DEF ReapDrain, RestShape
  <2>2. \A j \in RJob : back(j).at = Shared
    BY <1>0 DEF Jobs
  <2>3. \A j \in RJob : IF j \in moved THEN job'[j].at = Shared ELSE job'[j] = job[j]
    BY <2>1, <2>2
  <2>4. reap.cur \in RNode \ beat /\ node[reap.cur] = "dead" /\ \A s \in RSess : entry[s] # reap.cur
    BY <2>1 DEF Cover, PassClears
  <2>5. \A n \in RNode : OnQueue(n)' \subseteq OnQueue(n) \ moved
    BY <1>0, <2>3 DEF OnQueue, Shared
  <2>6. reap'.held \/ OnQueue(reap.cur)' = {}
    BY <2>1, <2>4, <2>5
  <2> HIDE DEF moved, back
  <2>7. NodeLives'
    BY <2>1, <2>5 DEF Cover, NodeLives, RefersTo
  <2>8. OnTheList'
    BY <2>1, <2>5 DEF Cover, OnTheList, Unknown
  <2>9. ScanSaw'
    BY <2>1 DEF Cover, ScanSaw
  <2>10. PassClears'
    BY <2>1, <2>4, <2>6 DEF PassClears, OnQueue
  <2> QED
    BY <2>7, <2>8, <2>9, <2>10 DEF Cover
<1>5. CASE ReapForget
  <2>1. /\ UNCHANGED <<node, beat, entry, job, route>> /\ reap.pc = "forget"
        /\ nodeset' = IF Forgettable THEN nodeset \ {reap.cur} ELSE nodeset
        /\ reap'.pc = "visit" /\ reap'.named = reap.named /\ reap'.cur = NoRNode /\ reap'.todo = reap.todo
    BY <1>5 DEF ReapForget, RestShape
  <2>2. /\ reap.cur \in RNode \ beat /\ node[reap.cur] = "dead"
        /\ Forgettable => Unknown(reap.cur)
    BY <2>1 DEF Cover, PassClears, Forgettable, Unknown
  <2>3. NodeLives'
    BY <1>0, <2>1 DEF Cover, NodeLives, RefersTo, OnQueue
  <2>4. \A n \in RNode : Unknown(n)' <=> Unknown(n)
    BY <2>1 DEF Unknown, OnQueue
  <2>5. OnTheList'
    BY <2>1, <2>2, <2>4 DEF Cover, OnTheList
  <2>6. ScanSaw' /\ PassClears'
    BY <2>1 DEF Cover, ScanSaw, PassClears
  <2> QED
    BY <2>3, <2>5, <2>6 DEF Cover
<1>6. CASE ReapNap
  <2>1. /\ UNCHANGED <<node, beat, nodeset, entry, job, route>>
        /\ reap'.pc = "nap" /\ reap'.named = [s \in RSess |-> NoRNode] /\ reap'.cur = NoRNode /\ reap'.todo = {}
    BY <1>6 DEF ReapNap, NoReap
  <2>2. NodeLives' /\ OnTheList'
    BY <1>0, <2>1 DEF Cover, NodeLives, OnTheList, Unknown, RefersTo, OnQueue
  <2>3. ScanSaw' /\ PassClears'
    BY <2>1 DEF ScanSaw, PassClears
  <2> QED
    BY <2>2, <2>3 DEF Cover
<1> QED
  BY <1>1, <1>2, <1>3, <1>4, <1>5, <1>6 DEF ReapStep

\* A dispatch goes where an entry sent it, and its node is known.
LEMMA DispatchCovers ==
    ASSUME RInv, RestShape, Cover, EnqueueJob \/ \E j \in RJob : Route(j) \/ StallRecovered(j)
    PROVE  Cover'
<1>0. /\ entry \in [RSess -> RNode \cup {NoRNode}] /\ job \in [RJob -> Jobs]
      /\ NoRNode \notin RNode
  BY RegistryAssumption DEF RInv, RouteShape
<1>1. ASSUME NEW j \in RJob, Route(j) PROVE Cover'
  <2>1. /\ UNCHANGED <<node, beat, nodeset, entry, job, reap>>
        /\ route'.target = entry[job[j].sess] /\ job[j].sess \in RSess
    BY <1>0, <1>1 DEF Route, Jobs
  <2>2. NodeLives' /\ OnTheList' /\ ScanSaw'
    BY <2>1 DEF Cover, NodeLives, OnTheList, ScanSaw, Unknown, RefersTo, OnQueue
  <2>3. PassClears'
    BY <2>1 DEF Cover, PassClears, OnQueue
  <2> QED
    BY <2>2, <2>3 DEF Cover
<1>2. CASE EnqueueJob
  <2> DEFINE new == [job[route.j] EXCEPT !.st = "waiting", !.at = route.target]
  <2>1. /\ UNCHANGED <<node, beat, nodeset, entry, reap>> /\ route.j \in RJob
        /\ route'.target = NoRNode /\ job' = [job EXCEPT ![route.j] = new]
    BY <1>2 DEF EnqueueJob, NoRoute, Shared, RInv, RoutedIsNew
  <2>2. new.at = route.target
    BY <1>0, <2>1 DEF Jobs
  <2> HIDE DEF new
  <2>3. \A k \in RJob : IF k = route.j THEN job'[k].at = route.target ELSE job'[k] = job[k]
    BY <1>0, <2>1, <2>2
  <2>4. \A n \in RNode : n # route.target => OnQueue(n)' \subseteq OnQueue(n)
    BY <2>3 DEF OnQueue
  <2>5. NodeLives'
    BY <1>0, <2>1, <2>4 DEF Cover, NodeLives, RefersTo
  <2>6. OnTheList'
    BY <1>0, <2>1, <2>4 DEF Cover, OnTheList, Unknown
  <2>7. ScanSaw'
    BY <2>1 DEF Cover, ScanSaw
  <2>8. PassClears'
    <3>1. \A n \in RNode : n = reap.cur /\ n # route.target /\ OnQueue(n) = {} => OnQueue(n)' = {}
      BY <2>4
    <3> QED
      BY <1>0, <2>1, <3>1 DEF Cover, PassClears, OnQueue
  <2> QED
    BY <2>5, <2>6, <2>7, <2>8 DEF Cover
<1>3. ASSUME NEW j \in RJob, StallRecovered(j) PROVE Cover'
  <2> DEFINE new == [job[j] EXCEPT !.st = "waiting", !.by = NoRNode]
  <2>1. /\ new \in Jobs /\ job' = [job EXCEPT ![j] = new] /\ new.at = job[j].at
        /\ job[j].st = "active" /\ UNCHANGED <<node, beat, nodeset, entry, route, reap>>
    <3>1. job[j] \in Jobs
      BY <1>0
    <3>2. new \in Jobs /\ new.at = job[j].at
      BY <3>1 DEF Jobs
    <3>3. /\ job' = [job EXCEPT ![j] = new] /\ job[j].st = "active"
          /\ UNCHANGED <<node, beat, nodeset, entry, route, reap>>
      BY <1>3 DEF StallRecovered
    <3> QED
      BY <3>2, <3>3
  <2> HIDE DEF new
  <2>2. \A m \in RNode : OnQueue(m)' \subseteq OnQueue(m)
    BY <2>1, QueueOf
  <2> QED
    BY <2>1, <2>2, CalmStep DEF RestShape
<1> QED
  BY <1>1, <1>2, <1>3

\* The invariant of the reaper's reach.
CoverInv == RInv /\ RestShape /\ (OnlyKills => Cover)

\* Before the first node starts nothing names a node.
LEMMA CoverInit == RegInit => CoverInv
<1> SUFFICES ASSUME RegInit PROVE CoverInv
  OBVIOUS
<1>1. \A n \in RNode : node[n] = "new" /\ ~RefersTo(n)
  BY RegistryAssumption DEF RegInit, RefersTo, OnQueue, NoReap, NoRoute, Shared
<1>2. Cover
  BY <1>1 DEF Cover, NodeLives, OnTheList, ScanSaw, PassClears, RegInit, NoReap
<1> QED
  BY <1>2, RInvInit, RestInit DEF CoverInv

\* Every step keeps the reaper's reach, as long as nodes only run or are killed.
LEMMA CoverStep == ~SlowDispatch /\ CoverInv /\ [RegNext]_regVars => CoverInv'
<1> SUFFICES ASSUME ~SlowDispatch, CoverInv, [RegNext]_regVars PROVE CoverInv'
  OBVIOUS
<1>1. RInv' /\ RestShape' /\ (OnlyKills' => OnlyKills)
  BY RInvStep, RestStep DEF CoverInv
<1>2. ASSUME OnlyKills' PROVE Cover'
  <2>1. RInv /\ RestShape /\ Cover
    BY <1>1, <1>2 DEF CoverInv
  <2>2. CASE UNCHANGED regVars
    BY <2>1, <2>2 DEF regVars, Cover, NodeLives, OnTheList, ScanSaw, PassClears, RefersTo, Unknown, OnQueue
  <2>3. ASSUME NEW s \in RSess, EntryExpires(s) PROVE Cover'
    <3>1. /\ UNCHANGED <<node, beat, nodeset, job, route, reap>>
          /\ \A t \in RSess : entry'[t] \in {entry[t], NoRNode}
      BY <2>1, <2>3 DEF EntryExpires, RInv, RouteShape
    <3>2. \A n \in RNode : OnQueue(n)' = OnQueue(n)
      BY <3>1 DEF OnQueue
    <3> QED
      BY <2>1, <3>1, <3>2, CalmStep DEF RestShape
  <2> QED
    BY <1>2, <2>1, <2>2, <2>3, NodeCovers, ReaperCovers, DispatchCovers DEF RegNext
<1> QED
  BY <1>1, <1>2 DEF CoverInv

\* The reaper can reach every turn on a node's queue, while nodes only run or
\* are killed and no dispatch outlasts the pass over the node it chose.
THEOREM ReaperReaches == ~SlowDispatch => (RegSpec => []WorkListCovers)
<1> SUFFICES ASSUME ~SlowDispatch PROVE RegSpec => []WorkListCovers
  OBVIOUS
<1>1. CoverInv /\ [RegNext]_regVars => CoverInv'
  BY CoverStep
<1>2. CoverInv => WorkListCovers
  BY DEF CoverInv, Cover, NodeLives, OnTheList, RefersTo, Unknown, WorkListCovers,
         NoJobOutOfReach, LookedAt
<1> QED
  BY <1>1, <1>2, CoverInit, PTL DEF RegSpec

-----------------------------------------------------------------------------
(***************************************************************************)
(* LeaderLoop, for any replicas and any number of terms, lapses and lost   *)
(* connections: one worker per role, and it leads.                         *)
(***************************************************************************)
Command == {"set", "extend", "release"}
Answer == {"won", "lost"}

\* x is queued on s.
Queued(s, x) == \E i \in 1..Len(s) : s[i] = x

\* What a queue holds once its head is taken or x is put behind it.
LEMMA QueueMoves ==
    ASSUME NEW S, NEW s \in Seq(S), NEW x
    PROVE  /\ s # << >> => /\ Queued(s, Head(s)) /\ Tail(s) \in Seq(S)
                           /\ Len(Tail(s)) = Len(s) - 1
                           /\ Queued(Tail(s), x) => Queued(s, x)
           /\ x \in S => Append(s, x) \in Seq(S)
           /\ Len(Append(s, x)) = Len(s) + 1
           /\ \A y : Queued(Append(s, x), y) => Queued(s, y) \/ y = x
<1>1. s # << >> => Queued(s, Head(s)) /\ Tail(s) \in Seq(S) /\ Len(Tail(s)) = Len(s) - 1
  BY DEF Queued
<1>2. ASSUME s # << >>, Queued(Tail(s), x) PROVE Queued(s, x)
  <2>1. PICK i \in 1..Len(Tail(s)) : Tail(s)[i] = x
    BY <1>2 DEF Queued
  <2>2. i + 1 \in 1..Len(s) /\ s[i + 1] = x
    BY <1>2, <2>1
  <2> QED
    BY <2>2 DEF Queued
<1>3. x \in S => Append(s, x) \in Seq(S)
  OBVIOUS
<1>4. Len(Append(s, x)) = Len(s) + 1
  OBVIOUS
<1>5. ASSUME NEW y, Queued(Append(s, x), y) PROVE Queued(s, y) \/ y = x
  <2>1. PICK i \in 1..Len(Append(s, x)) : Append(s, x)[i] = y
    BY <1>5 DEF Queued
  <2>2. CASE i = Len(s) + 1
    BY <2>1, <2>2
  <2>3. CASE i \in 1..Len(s)
    BY <2>1, <2>3 DEF Queued
  <2> QED
    BY <1>4, <2>1, <2>2, <2>3
<1> QED
  BY <1>1, <1>2, <1>3, <1>4, <1>5

\* An empty queue queues nothing.
LEMMA EmptyQueue == \A x : ~Queued(<< >>, x)
BY DEF Queued

-----------------------------------------------------------------------------
(***************************************************************************)
(* Before a lease runs out.  A replica claims to lead from the reply that  *)
(* is on its way until its flag is lowered.                                *)
(***************************************************************************)
Claims(r) == mode[r] = "up" /\ (leader[r] \/ Queued(reply[r], "won"))

\* The key is a claimer's until a lease runs out.
ClaimersOwnKey == leaseLapses = 0 => \A r \in Replica : Claims(r) => leaderKey = r

\* So no renewal fails, and the flag stays up.
NeverLost ==
    leaseLapses = 0 => \A r \in Replica : mode[r] = "up" =>
        /\ ~Queued(reply[r], "lost")
        /\ Queued(sent[r], "extend") => leader[r]
        /\ \A k \in Term : Working(r, k) => leader[r]

\* Only a replica that has stopped gives the key back.
ReleasedStopped == \A r \in Replica : Queued(sent[r], "release") => mode[r] # "up"

Inv == LoopTypeOK /\ ClaimersOwnKey /\ NeverLost /\ ReleasedStopped

\* Nobody claims anything at first.
LEMMA InvInit == LoopInit => Inv
<1> SUFFICES ASSUME LoopInit PROVE Inv
  OBVIOUS
<1>1. \A r \in Replica : /\ mode[r] = "up" /\ leader[r] = FALSE
                         /\ sent[r] = << >> /\ reply[r] = << >>
                         /\ \A k \in Term : fn[r][k] = "none"
  BY DEF LoopInit
<1>2. LoopTypeOK
  BY DEF LoopInit, LoopTypeOK, Mode, FnState
<1> QED
  BY <1>1, <1>2, EmptyQueue DEF Inv, ClaimersOwnKey, Claims, NeverLost, ReleasedStopped, Working

\* demote lowers no run of fn to "none", and starts none.
LEMMA Demoted ==
    ASSUME LoopTypeOK, NEW r \in Replica
    PROVE  /\ DemoteFn(r) \in [Replica -> [Term -> FnState]]
           /\ \A s \in Replica, k \in Term : DemoteFn(r)[s][k] \in {fn[s][k], "aborted"}
           /\ \A s \in Replica, k \in Term : DemoteFn(r)[s][k] = "none" <=> fn[s][k] = "none"
           /\ \A s \in Replica : s # r => DemoteFn(r)[s] = fn[s]
<1>1. fn \in [Replica -> [Term -> FnState]]
  BY DEF LoopTypeOK
<1>2. \A k \in Term : DemoteFn(r)[r][k] \in {fn[r][k], "aborted"}
                      /\ (DemoteFn(r)[r][k] = "aborted" => fn[r][k] \in {"running", "aborted"})
  BY <1>1 DEF DemoteFn
<1>3. \A s \in Replica : s # r => DemoteFn(r)[s] = fn[s]
  BY <1>1 DEF DemoteFn
<1>4. DemoteFn(r) \in [Replica -> [Term -> FnState]]
  BY <1>1 DEF DemoteFn, FnState
<1> QED
  BY <1>2, <1>3, <1>4

\* Every step keeps the types.
LEMMA TypeStep == LoopTypeOK /\ [LoopNext]_loopVars => LoopTypeOK'
<1> SUFFICES ASSUME LoopTypeOK, [LoopNext]_loopVars PROVE LoopTypeOK'
  OBVIOUS
<1> USE LeaderLoopAssumption
<1>1. CASE UNCHANGED loopVars
  BY <1>1 DEF loopVars, LoopTypeOK
<1>2. CASE LapseUnrenewed \/ LeaseRunsOut \/ LoopOver
  BY <1>2 DEF LapseUnrenewed, LeaseRunsOut, LoopOver, loopVars, LoopTypeOK
<1>3. ASSUME NEW r \in Replica, Tick(r) PROVE LoopTypeOK'
  <2>1. sent' \in [Replica -> Seq({"set", "extend", "release"})]
    <3> DEFINE cmd == IF leader[r] THEN "extend" ELSE "set"
    <3>1. sent[r] \in Seq({"set", "extend", "release"}) /\ cmd \in {"set", "extend", "release"}
      BY DEF LoopTypeOK
    <3>2. Append(sent[r], cmd) \in Seq({"set", "extend", "release"})
      BY <3>1, QueueMoves
    <3>3. sent' = [sent EXCEPT ![r] = Append(sent[r], cmd)]
      BY <1>3 DEF Tick
    <3> HIDE DEF cmd
    <3> QED
      BY <3>2, <3>3 DEF LoopTypeOK
  <2> QED
    BY <1>3, <2>1 DEF Tick, LoopTypeOK
<1>4. ASSUME NEW r \in Replica, ExecuteSet(r) \/ ExecuteExtend(r) \/ ExecuteRelease(r) PROVE LoopTypeOK'
  <2>1. /\ sent[r] \in Seq({"set", "extend", "release"}) /\ sent[r] # << >>
        /\ reply[r] \in Seq({"won", "lost"})
    BY <1>4 DEF LoopTypeOK, ExecuteSet, ExecuteExtend, ExecuteRelease
  <2>2. Tail(sent[r]) \in Seq({"set", "extend", "release"})
    BY <2>1, QueueMoves
  <2>3. sent' = [sent EXCEPT ![r] = Tail(sent[r])]
    BY <1>4 DEF ExecuteSet, ExecuteExtend, ExecuteRelease
  <2>4. sent' \in [Replica -> Seq({"set", "extend", "release"})]
    BY <2>2, <2>3 DEF LoopTypeOK
  <2>5. Append(reply[r], "won") \in Seq({"won", "lost"}) /\ Append(reply[r], "lost") \in Seq({"won", "lost"})
    BY <2>1, QueueMoves
  <2>6. reply' \in [Replica -> Seq({"won", "lost"})]
    BY <1>4, <2>5 DEF ExecuteSet, ExecuteExtend, ExecuteRelease, LoopTypeOK
  <2> QED
    BY <1>4, <2>4, <2>6 DEF ExecuteSet, ExecuteExtend, ExecuteRelease, DelIfOwner, LoopTypeOK
<1>5. ASSUME NEW r \in Replica, Won(r) \/ Lost(r) PROVE LoopTypeOK'
  <2>1. reply[r] \in Seq({"won", "lost"}) /\ reply[r] # << >>
    BY <1>5 DEF LoopTypeOK, Won, Lost
  <2>2. Tail(reply[r]) \in Seq({"won", "lost"})
    BY <2>1, QueueMoves
  <2>3. reply' \in [Replica -> Seq({"won", "lost"})]
    BY <1>5, <2>2 DEF Won, Lost, LoopTypeOK
  <2>4. fn' \in [Replica -> [Term -> FnState]]
    <3>1. CASE Won(r)
      BY <3>1 DEF Won, LoopTypeOK, FnState
    <3>2. CASE Lost(r)
      BY <3>2, Demoted DEF Lost
    <3> QED
      BY <1>5, <3>1, <3>2
  <2> QED
    BY <1>5, <2>3, <2>4 DEF Won, Lost, LoopTypeOK
<1>6. ASSUME NEW r \in Replica, ConnectionLost(r) \/ ReplicaDies(r) PROVE LoopTypeOK'
  <2>1. << >> \in Seq({"set", "extend", "release"}) /\ << >> \in Seq({"won", "lost"})
    OBVIOUS
  <2>2. /\ sent' \in [Replica -> Seq({"set", "extend", "release"})]
        /\ reply' \in [Replica -> Seq({"won", "lost"})]
    <3>1. sent' = [sent EXCEPT ![r] = << >>] /\ reply' = [reply EXCEPT ![r] = << >>]
      BY <1>6 DEF ConnectionLost, ReplicaDies
    <3> QED
      BY <2>1, <3>1 DEF LoopTypeOK
  <2>3. CASE ConnectionLost(r)
    BY <2>2, <2>3 DEF ConnectionLost, LoopTypeOK
  <2>4. CASE ReplicaDies(r)
    <3>1. fn' \in [Replica -> [Term -> FnState]]
      BY <2>4 DEF ReplicaDies, LoopTypeOK, FnState
    <3> QED
      BY <2>2, <2>4, <3>1 DEF ReplicaDies, LoopTypeOK, Mode
  <2> QED
    BY <1>6, <2>3, <2>4
<1>7. ASSUME NEW r \in Replica, FnEnds(r) PROVE LoopTypeOK'
  BY <1>7 DEF FnEnds, LoopTypeOK, FnState
<1>8. ASSUME NEW r \in Replica, Stop(r) PROVE LoopTypeOK'
  BY <1>8, Demoted DEF Stop, LoopTypeOK, Mode
<1>9. ASSUME NEW r \in Replica, StopReleases(r) PROVE LoopTypeOK'
  <2>1. sent[r] \in Seq({"set", "extend", "release"})
    BY DEF LoopTypeOK
  <2>2. Append(sent[r], "release") \in Seq({"set", "extend", "release"})
    BY <2>1, QueueMoves
  <2> QED
    BY <1>9, <2>2 DEF StopReleases, LoopTypeOK, Mode
<1> QED
  BY <1>1, <1>2, <1>3, <1>4, <1>5, <1>6, <1>7, <1>8, <1>9 DEF LoopNext

\* What a step of r leaves of the invariant is what it says of r: the key is
\* r's or stays, and nobody else's state is touched.
LEMMA OwnStep ==
    ASSUME Inv, LoopTypeOK', NEW r \in Replica, leaseLapses' = leaseLapses,
           \A s \in Replica \ {r} :
               /\ mode'[s] = mode[s] /\ leader'[s] = leader[s] /\ fn'[s] = fn[s]
               /\ sent'[s] = sent[s] /\ reply'[s] = reply[s],
           \A s \in Replica \ {r} : leaderKey = s => leaderKey' = s,
           leaseLapses = 0 => (Claims(r) => leaderKey = r)',
           leaseLapses = 0 /\ mode'[r] = "up" =>
               /\ ~Queued(reply[r], "lost")'
               /\ Queued(sent[r], "extend")' => leader'[r]
               /\ \A k \in Term : Working(r, k)' => leader'[r],
           Queued(sent[r], "release")' => mode'[r] # "up"
    PROVE  Inv'
<1>1. ClaimersOwnKey'
  BY DEF Inv, ClaimersOwnKey, Claims
<1>2. NeverLost'
  BY DEF Inv, NeverLost, Working
<1>3. ReleasedStopped'
  BY DEF Inv, ReleasedStopped
<1> QED
  BY <1>1, <1>2, <1>3 DEF Inv

\* The commands: the key changes hands only while nobody claims it.
LEMMA CommandStep ==
    ASSUME Inv, LoopTypeOK', NEW r \in Replica,
           Tick(r) \/ ExecuteSet(r) \/ ExecuteExtend(r) \/ ExecuteRelease(r)
    PROVE  Inv'
<1> USE LeaderLoopAssumption
<1>1. /\ sent[r] \in Seq(Command) /\ reply[r] \in Seq(Answer)
      /\ sent \in [Replica -> Seq(Command)] /\ reply \in [Replica -> Seq(Answer)]
  BY DEF Inv, LoopTypeOK, Command, Answer
<1>2. leaseLapses = 0 =>
        /\ Claims(r) => leaderKey = r
        /\ mode[r] = "up" => /\ ~Queued(reply[r], "lost")
                             /\ Queued(sent[r], "extend") => leader[r]
                             /\ \A k \in Term : Working(r, k) => leader[r]
  BY DEF Inv, ClaimersOwnKey, NeverLost
<1>3. Queued(sent[r], "release") => mode[r] # "up"
  BY DEF Inv, ReleasedStopped
<1>4. CASE Tick(r)
  <2> DEFINE cmd == IF leader[r] THEN "extend" ELSE "set"
  <2>1. /\ sent' = [sent EXCEPT ![r] = Append(sent[r], cmd)] /\ cmd \in Command /\ cmd # "release"
        /\ cmd = "extend" => leader[r]
        /\ UNCHANGED <<leaderKey, mode, leader, fn, reply, leaseLapses>>
    BY <1>4 DEF Tick, Command
  <2> HIDE DEF cmd
  <2>2. /\ sent'[r] = Append(sent[r], cmd) /\ \A s \in Replica \ {r} : sent'[s] = sent[s]
        /\ \A y : Queued(sent'[r], y) => Queued(sent[r], y) \/ y = cmd
    BY <1>1, <2>1, QueueMoves
  <2> QED
    BY <1>2, <1>3, <2>1, <2>2, OwnStep DEF Claims, Working
<1>5. CASE ExecuteSet(r) \/ ExecuteExtend(r) \/ ExecuteRelease(r)
  <2>1. /\ sent[r] # << >> /\ sent' = [sent EXCEPT ![r] = Tail(sent[r])]
        /\ UNCHANGED <<mode, leader, fn, leaseLapses>>
    BY <1>5 DEF ExecuteSet, ExecuteExtend, ExecuteRelease
  <2>2. /\ sent'[r] = Tail(sent[r]) /\ \A s \in Replica \ {r} : sent'[s] = sent[s]
        /\ \A y : Queued(sent'[r], y) => Queued(sent[r], y)
        /\ Queued(sent[r], Head(sent[r]))
    BY <1>1, <2>1, QueueMoves
  <2>3. ASSUME NEW x \in Answer, reply' = [reply EXCEPT ![r] = Append(reply[r], x)]
        PROVE  /\ \A s \in Replica \ {r} : reply'[s] = reply[s]
               /\ \A y : Queued(reply'[r], y) => Queued(reply[r], y) \/ y = x
    BY <1>1, <2>3, QueueMoves
  <2>4. CASE ExecuteSet(r)
    <3>1. CASE SetNX(r)
      <4>1. leaderKey = NoReplica /\ leaderKey' = r /\ reply' = [reply EXCEPT ![r] = Append(reply[r], "won")]
        BY <2>4, <3>1 DEF ExecuteSet, SetNX
      <4>2. /\ \A s \in Replica \ {r} : reply'[s] = reply[s]
            /\ Queued(reply'[r], "lost") => Queued(reply[r], "lost")
        BY <2>3, <4>1 DEF Answer
      <4> QED
        BY <1>2, <1>3, <2>1, <2>2, <4>1, <4>2, OwnStep DEF Working
    <3>2. CASE ~SetNX(r)
      <4>1. UNCHANGED <<leaderKey, reply>>
        BY <2>4, <3>2 DEF ExecuteSet
      <4> QED
        BY <1>2, <1>3, <2>1, <2>2, <4>1, OwnStep DEF Claims, Working
    <3> QED
      BY <3>1, <3>2
  <2>5. CASE ExecuteExtend(r)
    <3>1. CASE leaderKey = r
      <4>1. UNCHANGED <<leaderKey, reply>>
        BY <2>5, <3>1 DEF ExecuteExtend
      <4> QED
        BY <1>2, <1>3, <2>1, <2>2, <4>1, OwnStep DEF Claims, Working
    <3>2. CASE leaderKey # r
      <4>1. Queued(sent[r], "extend") /\ leaderKey' = leaderKey
            /\ reply' = [reply EXCEPT ![r] = Append(reply[r], "lost")]
        BY <2>2, <2>5, <3>2 DEF ExecuteExtend
      <4>2. ~(leaseLapses = 0 /\ mode[r] = "up")
        BY <1>2, <3>2, <4>1 DEF Claims
      <4>3. \A s \in Replica \ {r} : reply'[s] = reply[s]
        BY <2>3, <4>1 DEF Answer
      <4> QED
        BY <1>3, <2>1, <2>2, <4>1, <4>2, <4>3, OwnStep DEF Claims, Working
    <3> QED
      BY <3>1, <3>2
  <2>6. CASE ExecuteRelease(r)
    <3>1. /\ Queued(sent[r], "release") /\ UNCHANGED reply
          /\ \A s \in Replica \ {r} : leaderKey = s => leaderKey' = s
      BY <2>2, <2>6 DEF ExecuteRelease, DelIfOwner
    <3> QED
      BY <1>2, <1>3, <2>1, <2>2, <3>1, OwnStep DEF Claims, Working
  <2> QED
    BY <1>5, <2>4, <2>5, <2>6
<1> QED
  BY <1>4, <1>5

\* The replies: the flag goes up while the key is the replica's, and comes down
\* only after a lease ran out.
LEMMA ReplyStep ==
    ASSUME Inv, LoopTypeOK', NEW r \in Replica, Won(r) \/ Lost(r)
    PROVE  Inv'
<1>1. /\ reply[r] \in Seq(Answer) /\ reply \in [Replica -> Seq(Answer)]
      /\ leader \in [Replica -> BOOLEAN] /\ fn \in [Replica -> [Term -> FnState]]
  BY DEF Inv, LoopTypeOK, Answer
<1>2. leaseLapses = 0 =>
        /\ Claims(r) => leaderKey = r
        /\ mode[r] = "up" => /\ ~Queued(reply[r], "lost")
                             /\ Queued(sent[r], "extend") => leader[r]
  BY DEF Inv, ClaimersOwnKey, NeverLost
<1>3. Queued(sent[r], "release") => mode[r] # "up"
  BY DEF Inv, ReleasedStopped
<1>4. /\ reply[r] # << >> /\ reply' = [reply EXCEPT ![r] = Tail(reply[r])]
      /\ UNCHANGED <<leaderKey, mode, sent, leaseLapses>>
  BY DEF Won, Lost
<1>5. /\ reply'[r] = Tail(reply[r]) /\ \A s \in Replica \ {r} : reply'[s] = reply[s]
      /\ \A y : Queued(reply'[r], y) => Queued(reply[r], y)
      /\ Queued(reply[r], Head(reply[r]))
  BY <1>1, <1>4, QueueMoves
<1>6. CASE Won(r)
  <2>1. /\ Head(reply[r]) = "won" /\ leader'[r] = TRUE
        /\ \A s \in Replica \ {r} : leader'[s] = leader[s] /\ fn'[s] = fn[s]
    BY <1>1, <1>6 DEF Won
  <2>2. leaseLapses = 0 => (Claims(r) => leaderKey = r)'
    BY <1>2, <1>4, <1>5, <2>1 DEF Claims
  <2> QED
    BY <1>2, <1>3, <1>4, <1>5, <2>1, <2>2, OwnStep
<1>7. CASE Lost(r)
  <2>1. Head(reply[r]) = "lost" /\ leader' = [leader EXCEPT ![r] = FALSE] /\ fn' = DemoteFn(r)
    BY <1>7 DEF Lost
  <2>2. ~(leaseLapses = 0 /\ mode[r] = "up")
    BY <1>2, <1>5, <2>1
  <2>3. \A s \in Replica \ {r} : leader'[s] = leader[s] /\ fn'[s] = fn[s]
    BY <1>1, <2>1, Demoted DEF Inv
  <2> QED
    BY <1>3, <1>4, <1>5, <2>2, <2>3, OwnStep DEF Claims
<1> QED
  BY <1>6, <1>7

\* Stops, deaths, lost connections and ends of fn give up claims.
LEMMA EndStep ==
    ASSUME Inv, LoopTypeOK', NEW r \in Replica,
           ConnectionLost(r) \/ FnEnds(r) \/ ReplicaDies(r) \/ Stop(r) \/ StopReleases(r)
    PROVE  Inv'
<1>1. /\ sent \in [Replica -> Seq(Command)] /\ reply \in [Replica -> Seq(Answer)]
      /\ leader \in [Replica -> BOOLEAN] /\ fn \in [Replica -> [Term -> FnState]]
      /\ mode \in [Replica -> Mode]
  BY DEF Inv, LoopTypeOK, Answer, Command
<1>2. leaseLapses = 0 =>
        /\ Claims(r) => leaderKey = r
        /\ mode[r] = "up" => /\ ~Queued(reply[r], "lost")
                             /\ Queued(sent[r], "extend") => leader[r]
                             /\ \A k \in Term : Working(r, k) => leader[r]
  BY DEF Inv, ClaimersOwnKey, NeverLost
<1>3. Queued(sent[r], "release") => mode[r] # "up"
  BY DEF Inv, ReleasedStopped
<1>4. CASE ConnectionLost(r)
  <2>1. /\ sent'[r] = << >> /\ reply'[r] = << >>
        /\ \A s \in Replica \ {r} : sent'[s] = sent[s] /\ reply'[s] = reply[s]
        /\ UNCHANGED <<leaderKey, mode, leader, fn, leaseLapses>>
    BY <1>1, <1>4 DEF ConnectionLost
  <2> QED
    BY <1>2, <2>1, EmptyQueue, OwnStep DEF Claims, Working
<1>5. CASE FnEnds(r)
  <2>1. /\ \A s \in Replica \ {r} : fn'[s] = fn[s]
        /\ \A k \in Term : Working(r, k)' => Working(r, k)
        /\ UNCHANGED <<leaderKey, mode, leader, sent, reply, leaseLapses>>
    BY <1>1, <1>5 DEF FnEnds, Working
  <2> QED
    BY <1>2, <1>3, <2>1, OwnStep DEF Claims
<1>6. CASE ReplicaDies(r)
  <2>1. /\ mode'[r] = "dead"
        /\ \A s \in Replica \ {r} : /\ mode'[s] = mode[s] /\ leader'[s] = leader[s] /\ fn'[s] = fn[s]
                                    /\ sent'[s] = sent[s] /\ reply'[s] = reply[s]
        /\ UNCHANGED <<leaderKey, leaseLapses>>
    BY <1>1, <1>6 DEF ReplicaDies
  <2> QED
    BY <2>1, OwnStep DEF Claims
<1>7. CASE Stop(r)
  <2>1. /\ mode'[r] # "up"
        /\ \A s \in Replica \ {r} : mode'[s] = mode[s] /\ leader'[s] = leader[s] /\ fn'[s] = fn[s]
        /\ UNCHANGED <<leaderKey, sent, reply, leaseLapses>>
    BY <1>1, <1>7, Demoted DEF Stop, Inv
  <2> QED
    BY <2>1, OwnStep DEF Claims
<1>8. CASE StopReleases(r)
  <2>1. /\ mode'[r] = "stopped"
        /\ \A s \in Replica \ {r} : mode'[s] = mode[s] /\ sent'[s] = sent[s]
        /\ UNCHANGED <<leaderKey, leader, fn, reply, leaseLapses>>
    BY <1>1, <1>8 DEF StopReleases
  <2> QED
    BY <2>1, OwnStep DEF Claims
<1> QED
  BY <1>4, <1>5, <1>6, <1>7, <1>8

\* A TTL that runs out under a claimer ends what the invariant says of the key;
\* any other leaves the claimers theirs.
LEMMA InvStep == Inv /\ [LoopNext]_loopVars => Inv'
<1> SUFFICES ASSUME Inv, [LoopNext]_loopVars PROVE Inv'
  OBVIOUS
<1>1. LoopTypeOK'
  BY TypeStep DEF Inv
<1>2. CASE UNCHANGED loopVars \/ LoopOver
  BY <1>1, <1>2 DEF LoopOver, loopVars, Inv, ClaimersOwnKey, Claims, NeverLost, ReleasedStopped, Working
<1>3. CASE LapseUnrenewed
  <2>1. leaderKey \in Replica /\ ~Claims(leaderKey)
    <3>1. leaderKey \in Replica /\ Unrenewed(leaderKey) /\ reply[leaderKey] \in Seq(Answer)
      BY <1>3 DEF LapseUnrenewed, Inv, LoopTypeOK, Answer
    <3>2. DOMAIN reply[leaderKey] = 1..Len(reply[leaderKey])
      BY <3>1
    <3> QED
      BY <3>1, <3>2 DEF Unrenewed, Claims, Queued
  <2>2. /\ leaseLapses = 0 => \A r \in Replica : ~Claims(r)
        /\ UNCHANGED <<mode, leader, fn, sent, reply, leaseLapses>>
    BY <1>3, <2>1 DEF LapseUnrenewed, Inv, ClaimersOwnKey
  <2> QED
    BY <1>1, <2>2 DEF Inv, ClaimersOwnKey, Claims, NeverLost, ReleasedStopped, Working
<1>4. CASE LeaseRunsOut
  <2>1. leaseLapses' # 0 /\ UNCHANGED <<mode, sent>>
    BY <1>4 DEF LeaseRunsOut, Inv, LoopTypeOK
  <2> QED
    BY <1>1, <2>1 DEF Inv, ClaimersOwnKey, NeverLost, ReleasedStopped
<1> QED
  BY <1>1, <1>2, <1>3, <1>4, CommandStep, ReplyStep, EndStep DEF LoopNext

\* Every reachable state has the types of LoopTypeOK.
THEOREM LoopTyped == LoopSpec => []LoopTypeOK
<1>1. Inv => LoopTypeOK
  BY DEF Inv
<1> QED
  BY <1>1, InvInit, InvStep, PTL DEF LoopSpec

\* A role has one worker until a TTL runs out under a leader that renews it,
\* however commands, replies, stops, deaths and lost connections interleave.
THEOREM RoleHasOneWorker == LoopSpec => []OneWorker
<1>1. Inv => OneWorker
  <2> SUFFICES ASSUME Inv, leaseLapses = 0,
                      NEW r \in Replica, NEW s \in Replica, NEW j \in Term, NEW k \in Term,
                      mode[r] = "up", Working(r, j), mode[s] = "up", Working(s, k)
               PROVE  r = s
    BY DEF OneWorker
  <2>1. Claims(r) /\ Claims(s)
    BY DEF Inv, NeverLost, Claims
  <2> QED
    BY <2>1 DEF Inv, ClaimersOwnKey
<1> QED
  BY <1>1, InvInit, InvStep, PTL DEF LoopSpec

-----------------------------------------------------------------------------
(***************************************************************************)
(* When replies beat ticks (MaxInFlight = 1) one more thing holds, leases  *)
(* that run out or not: what a replica runs is its latest term, the one    *)
(* that demote aborts.                                                     *)
(***************************************************************************)
\* One command at a time, and no SET while it leads.
Alone(r) ==
    mode[r] = "up" => /\ Len(sent[r]) + Len(reply[r]) <= 1
                      /\ Queued(sent[r], "set") \/ Queued(reply[r], "won") => ~leader[r]

\* It works on its latest term, and leads.
LatestWorks(r) ==
    mode[r] = "up" => \A k \in Term : Working(r, k)
                          => leader[r] /\ \A j \in Term : fn[r][j] # "none" => j <= k

\* Terms begin in order.
TermsInOrder(r) == \E n \in 0..MaxTerms : \A j \in Term : fn[r][j] = "none" <=> j > n

Solo(r) == Alone(r) /\ LatestWorks(r) /\ TermsInOrder(r)
SoloInv == Inv /\ \A r \in Replica : Solo(r)

\* No replica has a term at first.
LEMMA SoloInit == LoopInit => SoloInv
<1> SUFFICES ASSUME LoopInit, NEW r \in Replica PROVE Solo(r)
  BY InvInit DEF SoloInv
<1>1. /\ sent[r] = << >> /\ reply[r] = << >> /\ \A k \in Term : fn[r][k] = "none"
  BY DEF LoopInit
<1>2. Alone(r) /\ LatestWorks(r)
  BY <1>1, EmptyQueue DEF Alone, LatestWorks, Working
<1>3. TermsInOrder(r)
  <2>1. 0 \in 0..MaxTerms /\ \A j \in Term : fn[r][j] = "none" <=> j > 0
    BY <1>1, LeaderLoopAssumption DEF Term
  <2> QED
    BY <2>1 DEF TermsInOrder
<1> QED
  BY <1>2, <1>3 DEF Solo

\* The commands of a replica take turns.
LEMMA SoloCommand ==
    ASSUME MaxInFlight = 1, SoloInv, NEW r \in Replica,
           Tick(r) \/ ExecuteSet(r) \/ ExecuteExtend(r) \/ ExecuteRelease(r)
    PROVE  Solo(r)'
<1>1. /\ sent[r] \in Seq(Command) /\ reply[r] \in Seq(Answer)
      /\ sent \in [Replica -> Seq(Command)] /\ reply \in [Replica -> Seq(Answer)]
      /\ leader[r] \in BOOLEAN
  BY DEF SoloInv, Inv, LoopTypeOK, Command, Answer
<1>2. Alone(r) /\ LatestWorks(r) /\ TermsInOrder(r)
  BY DEF SoloInv, Solo
<1>3. UNCHANGED <<mode, leader, fn>>
  BY DEF Tick, ExecuteSet, ExecuteExtend, ExecuteRelease
<1>4. LatestWorks(r)' /\ TermsInOrder(r)'
  BY <1>2, <1>3 DEF LatestWorks, TermsInOrder, Working
<1>5. CASE Tick(r)
  <2> DEFINE cmd == IF leader[r] THEN "extend" ELSE "set"
  <2>1. /\ sent' = [sent EXCEPT ![r] = Append(sent[r], cmd)] /\ cmd \in Command
        /\ cmd = "set" => ~leader[r]
        /\ Len(sent[r]) + Len(reply[r]) < 1 /\ UNCHANGED reply
    BY <1>5 DEF Tick, Outstanding, Command
  <2> HIDE DEF cmd
  <2>2. /\ Len(sent'[r]) = Len(sent[r]) + 1
        /\ \A y : Queued(sent'[r], y) => Queued(sent[r], y) \/ y = cmd
    BY <1>1, <2>1, QueueMoves
  <2>3. Alone(r)'
    BY <1>1, <1>2, <1>3, <2>1, <2>2 DEF Alone
  <2> QED
    BY <1>4, <2>3 DEF Solo
<1>6. CASE ExecuteSet(r) \/ ExecuteExtend(r) \/ ExecuteRelease(r)
  <2>1. sent[r] # << >> /\ sent' = [sent EXCEPT ![r] = Tail(sent[r])]
    BY <1>6 DEF ExecuteSet, ExecuteExtend, ExecuteRelease
  <2>2. /\ Len(sent'[r]) = Len(sent[r]) - 1
        /\ \A y : Queued(sent'[r], y) => Queued(sent[r], y)
        /\ Queued(sent[r], Head(sent[r]))
    BY <1>1, <2>1, QueueMoves
  <2>3. ASSUME NEW x \in Answer, reply' = [reply EXCEPT ![r] = Append(reply[r], x)]
        PROVE  /\ Len(reply'[r]) = Len(reply[r]) + 1
               /\ \A y : Queued(reply'[r], y) => Queued(reply[r], y) \/ y = x
    BY <1>1, <2>3, QueueMoves
  <2>4. CASE UNCHANGED reply
    <3>1. Alone(r)'
      BY <1>1, <1>2, <1>3, <2>2, <2>4 DEF Alone
    <3> QED
      BY <1>4, <3>1 DEF Solo
  <2>5. CASE ExecuteSet(r) /\ reply' # reply
    <3>1. Head(sent[r]) = "set" /\ reply' = [reply EXCEPT ![r] = Append(reply[r], "won")]
      BY <2>5 DEF ExecuteSet
    <3>2. Queued(sent[r], "set")
      BY <2>2, <3>1
    <3>3. Len(reply'[r]) = Len(reply[r]) + 1
      BY <2>3, <3>1 DEF Answer
    <3>4. Alone(r)'
      BY <1>1, <1>2, <1>3, <2>2, <3>2, <3>3 DEF Alone
    <3> QED
      BY <1>4, <3>4 DEF Solo
  <2>6. CASE ExecuteExtend(r) /\ reply' # reply
    <3>1. reply' = [reply EXCEPT ![r] = Append(reply[r], "lost")]
      BY <2>6 DEF ExecuteExtend
    <3>2. Len(reply'[r]) = Len(reply[r]) + 1 /\ (Queued(reply'[r], "won") => Queued(reply[r], "won"))
      BY <2>3, <3>1 DEF Answer
    <3>3. Alone(r)'
      BY <1>1, <1>2, <1>3, <2>2, <3>2 DEF Alone
    <3> QED
      BY <1>4, <3>3 DEF Solo
  <2> QED
    BY <1>6, <2>4, <2>5, <2>6 DEF ExecuteRelease
<1> QED
  BY <1>5, <1>6

\* The term that begins is the one after those begun.
LEMMA NextTerm ==
    ASSUME Inv, NEW r \in Replica, TermsInOrder(r), Won(r)
    PROVE  \E n \in 0..MaxTerms : /\ n + 1 \in Term
                                  /\ \A j \in Term : fn[r][j] = "none" <=> j > n
                                  /\ fn' = [fn EXCEPT ![r][n + 1] = "running"]
<1> USE LeaderLoopAssumption DEF Term
<1>1. PICK n \in 0..MaxTerms : \A j \in Term : fn[r][j] = "none" <=> j > n
  BY DEF TermsInOrder
<1> DEFINE First(i) == \A j \in Term : fn[r][j] = "none" <=> j >= i
           k == CHOOSE i \in Term : First(i)
<1>2. PICK m \in Term : fn[r][m] = "none"
  BY DEF Won, TermsOf
<1>3. n + 1 \in Term
  BY <1>1, <1>2
<1>4. First(n + 1)
  BY <1>1
<1>5. k \in Term /\ First(k)
  <2> HIDE DEF First
  <2> QED
    BY <1>3, <1>4
<1>6. k = n + 1
  <2> HIDE DEF k
  <2>1. fn[r][k] = "none" /\ fn[r][n + 1] = "none"
    BY <1>3, <1>4, <1>5
  <2>2. k > n /\ n + 1 >= k
    BY <1>1, <1>3, <1>5, <2>1
  <2> QED
    BY <1>5, <2>2
<1>7. fn' = [fn EXCEPT ![r][k] = "running"]
  BY DEF Won
<1> QED
  BY <1>1, <1>3, <1>6, <1>7

\* A reply finds no other command under way.
LEMMA SoloReply ==
    ASSUME SoloInv, NEW r \in Replica, Won(r) \/ Lost(r)
    PROVE  Solo(r)'
<1>1. /\ sent[r] \in Seq(Command) /\ reply[r] \in Seq(Answer) /\ reply \in [Replica -> Seq(Answer)]
      /\ leader \in [Replica -> BOOLEAN] /\ fn \in [Replica -> [Term -> FnState]]
  BY DEF SoloInv, Inv, LoopTypeOK, Command, Answer
<1>2. Alone(r) /\ LatestWorks(r) /\ TermsInOrder(r)
  BY DEF SoloInv, Solo
<1>3. /\ reply[r] # << >> /\ reply' = [reply EXCEPT ![r] = Tail(reply[r])]
      /\ UNCHANGED <<mode, sent>>
  BY DEF Won, Lost
<1>4. /\ Len(reply'[r]) = Len(reply[r]) - 1 /\ Queued(reply[r], Head(reply[r]))
      /\ reply[r] # << >> /\ Len(reply[r]) > 0
  BY <1>1, <1>3, QueueMoves
<1>5. mode[r] = "up" => /\ Len(sent'[r]) + Len(reply'[r]) <= 1
                        /\ ~Queued(sent'[r], "set") /\ ~Queued(reply'[r], "won")
  BY <1>1, <1>2, <1>3, <1>4 DEF Alone, Queued
<1>6. Alone(r)'
  BY <1>3, <1>5 DEF Alone
<1>7. CASE Won(r)
  <2>1. PICK n \in 0..MaxTerms : /\ n + 1 \in Term
                                 /\ \A j \in Term : fn[r][j] = "none" <=> j > n
                                 /\ fn' = [fn EXCEPT ![r][n + 1] = "running"]
    BY <1>2, <1>7, NextTerm DEF SoloInv
  <2>2. \A j \in Term : fn'[r][j] = IF j = n + 1 THEN "running" ELSE fn[r][j]
    BY <1>1, <2>1
  <2>3. /\ mode[r] = "up" => \A k \in Term : ~Working(r, k)
        /\ leader'[r] = TRUE
    BY <1>1, <1>2, <1>4, <1>7 DEF Won, Alone, LatestWorks
  <2>4. \A j \in Term : fn'[r][j] = "none" <=> j > n + 1
    BY <2>1, <2>2, LeaderLoopAssumption DEF Term
  <2>5. n + 1 \in 0..MaxTerms
    BY <2>1, LeaderLoopAssumption DEF Term
  <2>6. TermsInOrder(r)'
    BY <2>4, <2>5 DEF TermsInOrder
  <2>7. LatestWorks(r)'
    <3> SUFFICES ASSUME mode[r] = "up", NEW k \in Term, Working(r, k)'
                 PROVE  \A j \in Term : fn'[r][j] # "none" => j <= k
      BY <1>3, <2>3 DEF LatestWorks
    <3>1. k = n + 1
      BY <2>2, <2>3 DEF Working
    <3> QED
      BY <2>4, <3>1, LeaderLoopAssumption DEF Term
  <2> QED
    BY <1>6, <2>6, <2>7 DEF Solo
<1>8. CASE Lost(r)
  <2>1. fn' = DemoteFn(r) /\ leader'[r] = FALSE
    BY <1>1, <1>8 DEF Lost
  <2>2. \A k \in Term : fn'[r][k] = "none" <=> fn[r][k] = "none"
    BY <2>1, Demoted DEF SoloInv, Inv
  <2>3. TermsInOrder(r)'
    BY <1>2, <2>2 DEF TermsInOrder
  <2>4. mode[r] = "up" => \A k \in Term : fn'[r][k] # "running"
    BY <1>1, <1>2, <2>1 DEF DemoteFn, LatestWorks, Working, TermsOf
  <2>5. LatestWorks(r)'
    BY <1>3, <2>4 DEF LatestWorks, Working
  <2> QED
    BY <1>6, <2>3, <2>5 DEF Solo
<1> QED
  BY <1>7, <1>8

\* Stops, deaths and lost connections leave it less to do.
LEMMA SoloEnd ==
    ASSUME SoloInv, NEW r \in Replica,
           ConnectionLost(r) \/ FnEnds(r) \/ ReplicaDies(r) \/ Stop(r) \/ StopReleases(r)
    PROVE  Solo(r)'
<1>1. /\ sent \in [Replica -> Seq(Command)] /\ reply \in [Replica -> Seq(Answer)]
      /\ leader \in [Replica -> BOOLEAN] /\ fn \in [Replica -> [Term -> FnState]]
      /\ mode \in [Replica -> Mode]
  BY DEF SoloInv, Inv, LoopTypeOK, Answer, Command
<1>2. Alone(r) /\ LatestWorks(r) /\ TermsInOrder(r)
  BY DEF SoloInv, Solo
<1>3. CASE ConnectionLost(r)
  <2>1. sent'[r] = << >> /\ reply'[r] = << >> /\ UNCHANGED <<mode, leader, fn>>
    BY <1>1, <1>3 DEF ConnectionLost
  <2> QED
    BY <1>2, <2>1, EmptyQueue DEF Solo, Alone, LatestWorks, TermsInOrder, Working
<1>4. CASE FnEnds(r)
  <2>1. /\ \A k \in Term : /\ fn'[r][k] = "none" <=> fn[r][k] = "none"
                           /\ Working(r, k)' => Working(r, k)
        /\ UNCHANGED <<mode, leader, sent, reply>>
    BY <1>1, <1>4 DEF FnEnds, Working
  <2> QED
    BY <1>2, <2>1 DEF Solo, Alone, LatestWorks, TermsInOrder
<1>5. CASE ReplicaDies(r)
  <2>1. mode'[r] # "up" /\ \A k \in Term : fn'[r][k] = "none" <=> fn[r][k] = "none"
    BY <1>1, <1>5 DEF ReplicaDies
  <2> QED
    BY <1>2, <2>1 DEF Solo, Alone, LatestWorks, TermsInOrder
<1>6. CASE Stop(r)
  <2>1. mode'[r] # "up" /\ \A k \in Term : fn'[r][k] = "none" <=> fn[r][k] = "none"
    BY <1>1, <1>6, Demoted DEF Stop, SoloInv, Inv
  <2> QED
    BY <1>2, <2>1 DEF Solo, Alone, LatestWorks, TermsInOrder
<1>7. CASE StopReleases(r)
  <2>1. mode'[r] # "up" /\ UNCHANGED fn
    BY <1>1, <1>7 DEF StopReleases
  <2> QED
    BY <1>2, <2>1 DEF Solo, Alone, LatestWorks, TermsInOrder
<1> QED
  BY <1>3, <1>4, <1>5, <1>6, <1>7

\* A step is one replica's, or the key's alone.
LEMMA SoloStep ==
    ASSUME MaxInFlight = 1
    PROVE  SoloInv /\ [LoopNext]_loopVars => SoloInv'
<1> SUFFICES ASSUME SoloInv, [LoopNext]_loopVars, NEW s \in Replica PROVE Solo(s)'
  BY InvStep DEF SoloInv
<1>1. Solo(s)
  BY DEF SoloInv
<1>2. CASE UNCHANGED loopVars \/ LoopOver \/ LapseUnrenewed \/ LeaseRunsOut
  <2>1. UNCHANGED <<mode, leader, fn, sent, reply>>
    BY <1>2 DEF LoopOver, loopVars, LapseUnrenewed, LeaseRunsOut
  <2> QED
    BY <1>1, <2>1 DEF Solo, Alone, LatestWorks, TermsInOrder, Working
<1>3. ASSUME NEW r \in Replica,
             \/ Tick(r) \/ ExecuteSet(r) \/ ExecuteExtend(r) \/ ExecuteRelease(r)
             \/ Won(r) \/ Lost(r) \/ ConnectionLost(r)
             \/ FnEnds(r) \/ ReplicaDies(r) \/ Stop(r) \/ StopReleases(r)
      PROVE  Solo(s)'
  <2>1. CASE r = s
    BY <1>3, <2>1, SoloCommand, SoloReply, SoloEnd
  <2>2. CASE r # s
    <3>1. /\ sent \in [Replica -> Seq(Command)] /\ reply \in [Replica -> Seq(Answer)]
          /\ leader \in [Replica -> BOOLEAN] /\ fn \in [Replica -> [Term -> FnState]]
          /\ mode \in [Replica -> Mode] /\ DemoteFn(r)[s] = fn[s]
      BY <2>2, Demoted DEF SoloInv, Inv, LoopTypeOK, Answer, Command
    <3>2. /\ mode'[s] = mode[s] /\ leader'[s] = leader[s] /\ fn'[s] = fn[s]
          /\ sent'[s] = sent[s] /\ reply'[s] = reply[s]
      <4>1. CASE Tick(r) \/ ExecuteSet(r) \/ ExecuteExtend(r) \/ ExecuteRelease(r)
        BY <2>2, <3>1, <4>1 DEF Tick, ExecuteSet, ExecuteExtend, ExecuteRelease
      <4>2. CASE Won(r) \/ Lost(r)
        BY <2>2, <3>1, <4>2 DEF Won, Lost
      <4>3. CASE ConnectionLost(r) \/ FnEnds(r) \/ ReplicaDies(r)
        BY <2>2, <3>1, <4>3 DEF ConnectionLost, FnEnds, ReplicaDies
      <4>4. CASE Stop(r) \/ StopReleases(r)
        BY <2>2, <3>1, <4>4 DEF Stop, StopReleases
      <4> QED
        BY <1>3, <4>1, <4>2, <4>3, <4>4
    <3> QED
      BY <1>1, <3>2 DEF Solo, Alone, LatestWorks, TermsInOrder, Working
  <2> QED
    BY <2>1, <2>2
<1> QED
  BY <1>2, <1>3 DEF LoopNext

\* Where replies beat ticks a role's one worker leads, also after a lease ran
\* out: a failed renewal leaves no unaborted fn behind.
THEOREM WorkerLeads ==
    ASSUME MaxInFlight = 1
    PROVE  LoopSpec => []LeadersWorkAlone
<1>1. SoloInv => OnlyLeadersWork
  BY DEF SoloInv, Solo, LatestWorks, OnlyLeadersWork
<1>2. LoopSpec => []OnlyLeadersWork
  BY <1>1, SoloInit, SoloStep, PTL DEF LoopSpec
<1> QED
  BY <1>2, RoleHasOneWorker, PTL DEF LeadersWorkAlone

-----------------------------------------------------------------------------
(***************************************************************************)
(* TurnFollower, for any jobs, messages and lost events: no outcome is     *)
(* skipped as backlog, and with one replica whose follower is in time each *)
(* outcome is shown after its turn, once and with none passed over.        *)
(***************************************************************************)
JobState == {"none", "waiting", "active", "ended", "settled"}

\* The shapes that every step of the follower keeps.
LEMMA FollowerTypeInit == FollowerInit => FollowerTypeOK
BY TurnFollowerAssumption
   DEF FollowerInit, FollowerTypeOK, Dispatches, Followers, NoDispatch, NoFollower

\* What a sequence of jobs is after one more job joins its end.
LEMMA Appended ==
    ASSUME NEW s \in Seq(Job), NEW j \in Job
    PROVE  /\ Append(s, j) \in Seq(Job) /\ Len(Append(s, j)) = Len(s) + 1
           /\ \A p \in DOMAIN Append(s, j) :
                 IF p = Len(s) + 1 THEN Append(s, j)[p] = j
                 ELSE p \in DOMAIN s /\ Append(s, j)[p] = s[p]
           /\ \A p \in DOMAIN s : p <= Len(s) /\ p \in Nat
OBVIOUS

\* A replica that shows outcomes counts each of them once, up to two, and no other replica's
\* counts move.
LEMMA Shown ==
    ASSUME FollowerTypeOK, NEW r \in FReplica, NEW js, Show(r, js)
    PROVE  /\ told' \in [FReplica -> [Job -> 0..2]]
           /\ \A s \in FReplica, j \in Job :
                 told'[s][j] = IF s = r /\ j \in js /\ told[r][j] < 2 THEN told[r][j] + 1 ELSE told[s][j]
<1>1. [j \in Job |-> IF j \in js /\ told[r][j] < 2 THEN told[r][j] + 1 ELSE told[r][j]] \in [Job -> 0..2]
  BY DEF FollowerTypeOK
<1> QED
  BY <1>1 DEF Show, FollowerTypeOK

\* What joining or starting a follower makes of it.
LEMMA FollowDoes ==
    ASSUME FollowerTypeOK, NEW r \in FReplica, Follow(r)
    PROVE  \E new \in Followers :
              /\ f' = [f EXCEPT ![r] = new]
              /\ new.start <= new.cursor /\ new.cursor <= Len(stream) /\ new.pc # "none"
              /\ new.todo = f[r].todo \/ new.todo = {}
              /\ IF f[r].pc = "none"
                 THEN /\ new.jobs = {d[r].job} /\ new.emitted = {} /\ new.pc = "read"
                      /\ new.start = d[r].start /\ new.cursor = d[r].start /\ new.todo = {}
                 ELSE /\ new.jobs = f[r].jobs \cup {d[r].job} /\ new.emitted = f[r].emitted
                      /\ new.start = f[r].start /\ new.cursor = f[r].cursor /\ new.pc = f[r].pc
                      /\ new.todo = f[r].todo
<1>1. d[r].job \in Job /\ d[r].start \in Nat /\ d[r].start <= Len(stream) /\ f[r] \in Followers
  BY DEF Follow, FollowerTypeOK, Dispatches
<1>2. f[r].start <= f[r].cursor /\ f[r].cursor <= Len(stream)
  BY DEF FollowerTypeOK
<1>3. CASE f[r].pc = "none"
  <2> DEFINE new == [NoFollower EXCEPT !.pc = "read", !.jobs = {d[r].job},
                        !.start = StartAfter(r), !.cursor = StartAfter(r)]
  <2>1. f' = [f EXCEPT ![r] = new]
    BY <1>3 DEF Follow
  <2>2. /\ new \in Followers /\ new.jobs = {d[r].job} /\ new.emitted = {} /\ new.pc = "read"
        /\ new.start = d[r].start /\ new.cursor = d[r].start /\ new.todo = {}
    BY <1>1 DEF NoFollower, Followers, StartAfter
  <2> HIDE DEF new
  <2>3. new.start <= new.cursor /\ new.cursor <= Len(stream) /\ new.pc # "none"
    BY <1>1, <2>2
  <2> QED
    BY <1>3, <2>1, <2>2, <2>3
<1>4. CASE f[r].pc # "none"
  <2> DEFINE new == [f[r] EXCEPT !.jobs = @ \cup {d[r].job}, !.deadline = "max"]
  <2>1. f' = [f EXCEPT ![r] = new]
    BY <1>4 DEF Follow
  <2>2. /\ new \in Followers /\ new.jobs = f[r].jobs \cup {d[r].job} /\ new.emitted = f[r].emitted
        /\ new.start = f[r].start /\ new.cursor = f[r].cursor /\ new.pc = f[r].pc
        /\ new.todo = f[r].todo
    BY <1>1 DEF Followers
  <2> HIDE DEF new
  <2> QED
    BY <1>1, <1>2, <1>4, <2>1, <2>2
<1> QED
  BY <1>3, <1>4

\* What a read of the stream makes of the follower.
Answered(r) == FirstOf(Len(stream) - f[r].cursor, Owed(f[r]))

\* A read answers jobs that were watched and not answered yet, and moves the cursor to the
\* end of the stream.
LEMMA ReadDoes ==
    ASSUME FollowerTypeOK, NEW r \in FReplica, Read(r)
    PROVE  /\ f[r].pc = "read" /\ Answered(r) \subseteq f[r].jobs \ f[r].emitted
           /\ \E new \in Followers :
              /\ f' = [f EXCEPT ![r] = new] /\ new.pc = "poll"
              /\ new.start = f[r].start /\ new.cursor = Len(stream)
              /\ new.jobs = f[r].jobs /\ new.todo = f[r].jobs
              /\ new.emitted = f[r].emitted \cup Answered(r)
           /\ Show(r, Answered(r))
<1> DEFINE new == [f[r] EXCEPT !.pc = "poll", !.todo = f[r].jobs, !.cursor = Len(stream),
                      !.emitted = @ \cup Answered(r),
                      !.deadline = IF Answered(r) # {} THEN "linger" ELSE @]
<1>1. f' = [f EXCEPT ![r] = new] /\ Show(r, Answered(r)) /\ f[r].pc = "read"
  BY DEF Read, Answered
<1>2. Answered(r) \subseteq f[r].jobs \ f[r].emitted /\ f[r] \in Followers /\ Len(stream) \in Nat
  BY DEF Answered, FirstOf, Owed, FollowerTypeOK
<1> HIDE DEF Answered
<1>3. /\ new \in Followers /\ new.pc = "poll"
      /\ new.start = f[r].start /\ new.cursor = Len(stream)
      /\ new.jobs = f[r].jobs /\ new.todo = f[r].jobs
      /\ new.emitted = f[r].emitted \cup Answered(r)
  BY <1>2 DEF Followers
<1> HIDE DEF new
<1> QED
  BY <1>1, <1>2, <1>3

\* What the poll of a job makes of the follower.
LEMMA PollDoes ==
    ASSUME FollowerTypeOK, NEW r \in FReplica, PollJob(r)
    PROVE  /\ f[r].pc = "poll"
           /\ \E j \in f[r].todo, new \in Followers :
              /\ f' = [f EXCEPT ![r] = new] /\ new.pc = "poll"
              /\ new.start = f[r].start /\ new.cursor = f[r].cursor
              /\ new.todo = f[r].todo \ {j}
              /\ IF state[j] = "settled"
                 THEN /\ new.jobs = f[r].jobs \ {j} /\ new.emitted = f[r].emitted \cup {j}
                      /\ IF j \in f[r].emitted THEN told' = told ELSE Show(r, {j})
                 ELSE /\ new.jobs = f[r].jobs /\ new.emitted = f[r].emitted /\ told' = told
              /\ told' = told \/ Show(r, {j})
<1>1. f[r].pc = "poll" /\ f[r] \in Followers
  BY DEF PollJob, FollowerTypeOK
<1>2. PICK j \in f[r].todo :
         IF Settled(j)
         THEN /\ f' = [f EXCEPT ![r] = [[f[r] EXCEPT !.todo = @ \ {j}] EXCEPT
                          !.jobs = @ \ {j}, !.emitted = @ \cup {j}, !.deadline = "linger"]]
              /\ IF OwesOutcome(f[r], j) THEN Show(r, {j}) ELSE UNCHANGED told
         ELSE /\ f' = [f EXCEPT ![r] = [f[r] EXCEPT !.todo = @ \ {j}]]
              /\ UNCHANGED told
  BY DEF PollJob
<1>3. j \in Job
  BY <1>1 DEF Followers
<1>4. CASE Settled(j)
  <2> DEFINE new == [[f[r] EXCEPT !.todo = @ \ {j}] EXCEPT
                          !.jobs = @ \ {j}, !.emitted = @ \cup {j}, !.deadline = "linger"]
  <2>1. f' = [f EXCEPT ![r] = new]
    BY <1>2, <1>4
  <2>2. /\ new \in Followers /\ new.pc = "poll" /\ new.start = f[r].start /\ new.cursor = f[r].cursor
        /\ new.todo = f[r].todo \ {j} /\ new.jobs = f[r].jobs \ {j} /\ new.emitted = f[r].emitted \cup {j}
    BY <1>1, <1>3 DEF Followers
  <2> HIDE DEF new
  <2> QED
    BY <1>1, <1>2, <1>4, <2>1, <2>2 DEF OwesOutcome, Settled
<1>5. CASE ~Settled(j)
  <2> DEFINE new == [f[r] EXCEPT !.todo = @ \ {j}]
  <2>1. f' = [f EXCEPT ![r] = new] /\ told' = told
    BY <1>2, <1>5
  <2>2. /\ new \in Followers /\ new.pc = "poll" /\ new.start = f[r].start /\ new.cursor = f[r].cursor
        /\ new.todo = f[r].todo \ {j} /\ new.jobs = f[r].jobs /\ new.emitted = f[r].emitted
    BY <1>1 DEF Followers
  <2> HIDE DEF new
  <2> QED
    BY <1>1, <1>5, <2>1, <2>2 DEF Settled
<1> QED
  BY <1>4, <1>5

\* A step keeps the types.
LEMMA FollowerTypeStep == FollowerTypeOK /\ [FollowerNext]_followerVars => FollowerTypeOK'
<1> SUFFICES ASSUME FollowerTypeOK, [FollowerNext]_followerVars PROVE FollowerTypeOK'
  OBVIOUS
<1> USE DEF FollowerTypeOK
<1>1. CASE UNCHANGED followerVars
  BY <1>1 DEF followerVars
<1>2. ASSUME NEW j \in Job, Begin(j) \/ Settle(j) PROVE FollowerTypeOK'
  BY <1>2 DEF Begin, Settle
<1>3. ASSUME NEW j \in Job, EndTurn(j) PROVE FollowerTypeOK'
  <2>1. /\ state' \in [Job -> JobState] /\ UNCHANGED <<d, f, told, left>>
        /\ budget' \in [lost : 0..MaxLost, messages : 0..MaxMessages]
        /\ stream' \in {stream, Append(stream, j)}
    BY <1>3, TurnFollowerAssumption DEF EndTurn, JobState
  <2>2. stream' \in Seq(Job) /\ Len(stream) <= Len(stream')
    BY <2>1, Appended
  <2>3. \A r \in FReplica : d[r].start \in Nat /\ f[r].cursor \in Nat
    BY DEF Dispatches, Followers
  <2> QED
    BY <2>1, <2>2, <2>3 DEF JobState
<1>4. ASSUME NEW r \in FReplica, Capture(r) PROVE FollowerTypeOK'
  <2>1. [pc |-> "enqueue", start |-> Len(stream), job |-> 0] \in Dispatches
    BY DEF Dispatches
  <2> QED
    BY <1>4, <2>1, TurnFollowerAssumption DEF Capture, queue
<1>5. ASSUME NEW r \in FReplica, NEW j \in Job, Enqueue(r, j) PROVE FollowerTypeOK'
  <2>1. [d[r] EXCEPT !.pc = "follow", !.job = j] \in Dispatches
    <3>1. d[r] \in Dispatches
      OBVIOUS
    <3> HIDE DEF FollowerTypeOK
    <3> QED
      BY <3>1 DEF Dispatches
  <2>2. d' = [d EXCEPT ![r] = [d[r] EXCEPT !.pc = "follow", !.job = j]]
    BY <1>5 DEF Enqueue
  <2>3. d' \in [FReplica -> Dispatches] /\ \A s \in FReplica : d'[s].start = d[s].start
    BY <2>1, <2>2 DEF Dispatches
  <2> QED
    BY <1>5, <2>3 DEF Enqueue
<1>6. ASSUME NEW r \in FReplica, Follow(r) PROVE FollowerTypeOK'
  <2>1. /\ d' = [d EXCEPT ![r] = NoDispatch] /\ NoDispatch \in Dispatches
        /\ UNCHANGED <<state, stream, budget, told, left>>
    BY <1>6 DEF Follow, queue, NoDispatch, Dispatches
  <2>2. \A s \in FReplica : d'[s].start <= Len(stream) /\ (d'[s].pc = "follow" => d'[s].job \in Job)
    BY <2>1 DEF NoDispatch
  <2>3. PICK new \in Followers : f' = [f EXCEPT ![r] = new] /\ new.start <= new.cursor /\ new.cursor <= Len(stream)
    BY <1>6, FollowDoes
  <2> QED
    BY <2>1, <2>2, <2>3
<1>7. ASSUME NEW r \in FReplica, Read(r) PROVE FollowerTypeOK'
  <2>1. PICK new \in Followers : f' = [f EXCEPT ![r] = new] /\ new.start = f[r].start /\ new.cursor = Len(stream)
    BY <1>7, ReadDoes
  <2>2. told' \in [FReplica -> [Job -> 0..2]] /\ UNCHANGED <<state, stream, budget, d, left>>
    BY <1>7, Shown DEF Read, queue
  <2>3. f[r].start <= Len(stream)
    BY DEF Followers
  <2>4. /\ f' \in [FReplica -> Followers] /\ Len(stream) <= Len(stream)
        /\ \A s \in FReplica : f'[s] = f[s] \/ (f'[s].start = f[r].start /\ f'[s].cursor = Len(stream))
    BY <2>1
  <2>5. FollowerTypeOK
    OBVIOUS
  <2> HIDE DEF FollowerTypeOK
  <2> QED
    BY <2>2, <2>3, <2>4, <2>5 DEF FollowerTypeOK
<1>8. ASSUME NEW r \in FReplica, PollJob(r) PROVE FollowerTypeOK'
  <2>1. PICK j \in f[r].todo, new \in Followers :
             /\ f' = [f EXCEPT ![r] = new] /\ new.start = f[r].start /\ new.cursor = f[r].cursor
             /\ told' = told \/ Show(r, {j})
    BY <1>8, PollDoes
  <2>2. told' \in [FReplica -> [Job -> 0..2]] /\ UNCHANGED <<state, stream, budget, d, left>>
    BY <1>8, <2>1, Shown DEF PollJob, queue
  <2>3. f' \in [FReplica -> Followers]
        /\ \A s \in FReplica : f'[s].start = f[s].start /\ f'[s].cursor = f[s].cursor
    BY <2>1
  <2>4. FollowerTypeOK
    OBVIOUS
  <2> HIDE DEF FollowerTypeOK
  <2> QED
    BY <2>2, <2>3, <2>4 DEF FollowerTypeOK
<1>9. ASSUME NEW r \in FReplica, Pause(r) PROVE FollowerTypeOK'
  <2> DEFINE new == [f[r] EXCEPT !.pc = "read"]
  <2>1. f' = [f EXCEPT ![r] = new] /\ UNCHANGED <<state, stream, budget, d, told, left>>
    BY <1>9 DEF Pause, queue
  <2>2. new \in Followers /\ new.start = f[r].start /\ new.cursor = f[r].cursor
    <3>1. f[r] \in Followers
      OBVIOUS
    <3> HIDE DEF FollowerTypeOK
    <3> QED
      BY <3>1 DEF Followers
  <2> HIDE DEF new
  <2> QED
    BY <2>1, <2>2
<1>10. ASSUME NEW r \in FReplica, StopFollowing(r) PROVE FollowerTypeOK'
  <2>1. /\ f' = [f EXCEPT ![r] = NoFollower] /\ NoFollower \in Followers /\ Owed(f[r]) \subseteq Job
        /\ NoFollower.start = 0 /\ NoFollower.cursor = 0 
    BY <1>10 DEF StopFollowing, NoFollower, Followers, Owed
  <2>2. left' = left \cup Owed(f[r]) /\ UNCHANGED <<state, stream, budget, d, told>>
    BY <1>10 DEF StopFollowing, queue
  <2> QED
    BY <2>1, <2>2
<1> QED
  BY <1>1, <1>2, <1>3, <1>4, <1>5, <1>6, <1>7, <1>8, <1>9, <1>10
     DEF FollowerNext, Node, Dispatch, Loop

\* Every cursor, watch list and answer of a replica's follower stays of its type: the loop of
\* dispatch.ts has no cursor before its start or past the end of the stream.
THEOREM FollowerTyped == FollowerSpec => []FollowerTypeOK
  BY FollowerTypeInit, FollowerTypeStep, PTL DEF FollowerSpec

\* The end of a turn, and what it leaves alone.
LEMMA EndTurnDoes ==
    ASSUME FollowerTypeOK, NEW j \in Job, EndTurn(j)
    PROVE  /\ state[j] = "active" /\ \A k \in Job : state'[k] = IF k = j THEN "ended" ELSE state[k]
           /\ \A p \in DOMAIN stream : p \in DOMAIN stream' /\ stream'[p] = stream[p]
           /\ \A p \in DOMAIN stream' :
                 p \in DOMAIN stream \/ (p = Len(stream) + 1 /\ stream'[p] = j)
           /\ UNCHANGED <<d, f, told, left>>
<1>1. stream' \in {stream, Append(stream, j)} /\ stream \in Seq(Job)
  BY DEF EndTurn, FollowerTypeOK
<1>2. \A p \in DOMAIN stream : p \in DOMAIN stream' /\ stream'[p] = stream[p]
  BY <1>1
<1>3. \A p \in DOMAIN stream' : p \in DOMAIN stream \/ (p = Len(stream) + 1 /\ stream'[p] = j)
  BY <1>1
<1> QED
  BY <1>2, <1>3 DEF EndTurn, FollowerTypeOK

\* The message's job is the newest, and it still waits.
LEMMA EnqueueDoes ==
    ASSUME FollowerTypeOK, NEW r \in FReplica, NEW j \in Job, Enqueue(r, j)
    PROVE  /\ \A k \in Job : state'[k] = IF k = j THEN "waiting" ELSE state[k]
           /\ \/ state[j] = "waiting"
              \/ state[j] = "none" /\ \A k \in Job : /\ state[k] # "waiting"
                                                     /\ k < j => state[k] # "none"
           /\ d[r].pc = "enqueue" /\ d'[r].pc = "follow" /\ d'[r].job = j /\ d'[r].start = d[r].start
           /\ \A s \in FReplica : s # r => d'[s] = d[s]
           /\ UNCHANGED <<stream, budget, f, told, left>>
<1>1. /\ d' = [d EXCEPT ![r] = [d[r] EXCEPT !.pc = "follow", !.job = j]]
      /\ d \in [FReplica -> Dispatches] /\ state' = [state EXCEPT ![j] = "waiting"]
  BY DEF Enqueue, FollowerTypeOK
<1> QED
  BY <1>1 DEF Enqueue, JobFor, FollowerTypeOK, Dispatches

\* Turns end in the order of their jobs, each once.
TurnsInOrder ==
    /\ \A p \in DOMAIN stream : Ended(stream[p])
    /\ \A p, q \in DOMAIN stream : stream[p] = stream[q] => p = q
    /\ \A j, k \in Job : k < j =>
          /\ state[j] = "waiting" => state[k] \in {"active", "ended", "settled"}
          /\ state[j] \in {"active", "ended", "settled"} => Ended(k)

\* A step keeps the stream in the order in which the turns ran.
LEMMA TurnsInOrderStep ==
    ASSUME FollowerTypeOK, TurnsInOrder, [FollowerNext]_followerVars
    PROVE  TurnsInOrder'
<1>0. stream \in Seq(Job) /\ state \in [Job -> JobState] /\ Job \subseteq Nat
  BY DEF FollowerTypeOK, JobState, Job
<1>1. CASE UNCHANGED <<state, stream>>
  BY <1>1 DEF TurnsInOrder, Ended
<1>2. ASSUME NEW j \in Job, Begin(j) PROVE TurnsInOrder'
  <2>1. /\ UNCHANGED stream /\ state[j] = "waiting" /\ \A k \in Job : state[k] # "active"
        /\ \A k \in Job : state'[k] = IF k = j THEN "active" ELSE state[k]
    BY <1>0, <1>2 DEF Begin
  <2>2. (\A p \in DOMAIN stream : Ended(stream[p]))'
    <3>1. \A p \in DOMAIN stream : stream[p] \in Job /\ Ended(stream[p])
      BY <1>0 DEF TurnsInOrder
    <3> QED
      BY <2>1, <3>1 DEF Ended
  <2>3. ASSUME NEW i \in Job, NEW k \in Job, k < i
        PROVE  /\ state'[i] = "waiting" => state'[k] \in {"active", "ended", "settled"}
               /\ state'[i] \in {"active", "ended", "settled"} => Ended(k)'
    BY <1>0, <2>1, <2>3 DEF TurnsInOrder, Ended
  <2> QED
    BY <2>1, <2>2, <2>3 DEF TurnsInOrder
<1>3. ASSUME NEW j \in Job, Settle(j) PROVE TurnsInOrder'
  <2>1. /\ UNCHANGED stream /\ state[j] = "ended"
        /\ \A k \in Job : state'[k] = IF k = j THEN "settled" ELSE state[k]
    BY <1>0, <1>3 DEF Settle
  <2>2. (\A p \in DOMAIN stream : Ended(stream[p]))'
    <3>1. \A p \in DOMAIN stream : stream[p] \in Job /\ Ended(stream[p])
      BY <1>0 DEF TurnsInOrder
    <3> QED
      BY <2>1, <3>1 DEF Ended
  <2>3. ASSUME NEW i \in Job, NEW k \in Job, k < i
        PROVE  /\ state'[i] = "waiting" => state'[k] \in {"active", "ended", "settled"}
               /\ state'[i] \in {"active", "ended", "settled"} => Ended(k)'
    BY <1>0, <2>1, <2>3 DEF TurnsInOrder, Ended
  <2> QED
    BY <2>1, <2>2, <2>3 DEF TurnsInOrder
<1>4. ASSUME NEW j \in Job, EndTurn(j) PROVE TurnsInOrder'
  <2>1. /\ state[j] = "active" /\ \A k \in Job : state'[k] = IF k = j THEN "ended" ELSE state[k]
        /\ \A p \in DOMAIN stream' : \/ p \in DOMAIN stream /\ stream'[p] = stream[p]
                                     \/ p = Len(stream) + 1 /\ stream'[p] = j
    BY <1>4, EndTurnDoes
  <2>2. \A p \in DOMAIN stream : stream[p] \in Job /\ stream[p] # j
    BY <1>0, <2>1 DEF TurnsInOrder, Ended
  <2>3. (\A p \in DOMAIN stream : Ended(stream[p]))'
    BY <2>1, <2>2 DEF TurnsInOrder, Ended
  <2>4. (\A p, q \in DOMAIN stream : stream[p] = stream[q] => p = q)'
    BY <2>1, <2>2 DEF TurnsInOrder
  <2> QED
    BY <1>0, <2>1, <2>3, <2>4 DEF TurnsInOrder, Ended
<1>5. ASSUME NEW r \in FReplica, NEW j \in Job, Enqueue(r, j) PROVE TurnsInOrder'
  <2>1. /\ UNCHANGED stream /\ \A k \in Job : state'[k] = IF k = j THEN "waiting" ELSE state[k]
        /\ \/ state[j] = "waiting"
           \/ state[j] = "none" /\ \A k \in Job : state[k] # "waiting" /\ (k < j => state[k] # "none")
    BY <1>5, EnqueueDoes
  <2>2. \A p \in DOMAIN stream : stream[p] \in Job /\ stream[p] # j
    BY <1>0, <2>1 DEF TurnsInOrder, Ended
  <2>3. (\A p \in DOMAIN stream : Ended(stream[p]))'
    BY <2>1, <2>2 DEF TurnsInOrder, Ended
  <2>4. ASSUME NEW i \in Job, NEW k \in Job, k < i
        PROVE  /\ state'[i] = "waiting" => state'[k] \in {"active", "ended", "settled"}
               /\ state'[i] \in {"active", "ended", "settled"} => Ended(k)'
    <3>1. state[i] \in JobState /\ state[k] \in JobState
      BY <1>0
    <3> QED
      BY <1>0, <2>1, <2>4, <3>1 DEF TurnsInOrder, Ended, JobState
  <2> QED
    BY <2>1, <2>3, <2>4 DEF TurnsInOrder
<1>6. ASSUME NEW r \in FReplica, Capture(r) \/ Follow(r) \/ Loop(r) \/ StopFollowing(r)
      PROVE  UNCHANGED <<state, stream>>
  BY <1>6 DEF Capture, Follow, Loop, Read, PollJob, Pause, StopFollowing, queue
<1> QED
  BY <1>1, <1>2, <1>3, <1>4, <1>5, <1>6 DEF FollowerNext, Node, Dispatch, followerVars

\* No turn that a follower watches, or is about to watch, was in the stream
\* before the place it starts at.
StartsBefore ==
    \A r \in FReplica :
        /\ f[r].pc = "none" => f[r] = NoFollower
        /\ d[r].pc = "follow" => state[d[r].job] # "none"
        /\ \A p \in DOMAIN stream :
              /\ stream[p] \in f[r].jobs => p > f[r].start
              /\ d[r].pc = "follow" /\ stream[p] = d[r].job => p > d[r].start /\ p > f[r].start

\* What a step of the loop may make of a follower.
LoopMoves(r) ==
    /\ \A s \in FReplica : s # r => f'[s] = f[s]
    /\ f'[r].jobs \subseteq f[r].jobs /\ f'[r].start = f[r].start
    /\ f[r].pc # "none" /\ f'[r].pc # "none"
    /\ UNCHANGED <<state, stream, budget, d, left>>

\* Every step of the loop is one of the moves LoopMoves names.
LEMMA LoopDoes ==
    ASSUME FollowerTypeOK, NEW r \in FReplica, Loop(r)
    PROVE  LoopMoves(r)
<1>0. f \in [FReplica -> Followers]
  BY DEF FollowerTypeOK
<1>1. CASE Read(r)
  <2>1. PICK new \in Followers : f' = [f EXCEPT ![r] = new] /\ new.pc = "poll"
                                 /\ new.start = f[r].start /\ new.jobs = f[r].jobs
    BY <1>1, ReadDoes
  <2>2. f[r].pc = "read" /\ UNCHANGED <<state, stream, budget, d, left>>
    BY <1>1 DEF Read, queue
  <2> QED
    BY <1>0, <2>1, <2>2 DEF LoopMoves
<1>2. CASE PollJob(r)
  <2>1. PICK new \in Followers : f' = [f EXCEPT ![r] = new] /\ new.pc = "poll"
                                 /\ new.start = f[r].start /\ new.jobs \subseteq f[r].jobs
    BY <1>2, PollDoes
  <2>2. f[r].pc = "poll" /\ UNCHANGED <<state, stream, budget, d, left>>
    BY <1>2 DEF PollJob, queue
  <2> QED
    BY <1>0, <2>1, <2>2 DEF LoopMoves
<1>3. CASE Pause(r)
  BY <1>0, <1>3 DEF Pause, LoopMoves, Followers, queue
<1> QED
  BY <1>1, <1>2, <1>3 DEF Loop

\* A step keeps a follower's start before the entries of what it watches.
LEMMA StartsBeforeStep ==
    ASSUME FollowerTypeOK, TurnsInOrder, StartsBefore, [FollowerNext]_followerVars
    PROVE  StartsBefore'
<1>0. /\ stream \in Seq(Job) /\ state \in [Job -> JobState]
      /\ d \in [FReplica -> Dispatches] /\ f \in [FReplica -> Followers]
      /\ \A p \in DOMAIN stream : p \in Nat /\ p > 0 /\ p <= Len(stream) /\ stream[p] \in Job
  BY DEF FollowerTypeOK, JobState
<1>a. \A r \in FReplica : /\ d[r].start \in Nat /\ f[r].start \in Nat
                          /\ d[r].start <= Len(stream) /\ f[r].start <= Len(stream)
                          /\ d[r].pc = "follow" => d[r].job \in Job
  BY DEF FollowerTypeOK, Dispatches, Followers
<1>1. CASE UNCHANGED followerVars
  BY <1>1 DEF followerVars, StartsBefore
<1>2. ASSUME NEW j \in Job, Begin(j) \/ Settle(j) PROVE StartsBefore'
  <2>1. UNCHANGED <<stream, d, f>> /\ \A k \in Job : state[k] # "none" => state'[k] # "none"
    BY <1>0, <1>2 DEF Begin, Settle
  <2> QED
    BY <1>a, <2>1 DEF StartsBefore
<1>3. ASSUME NEW j \in Job, EndTurn(j) PROVE StartsBefore'
  <2>1. /\ UNCHANGED <<d, f>> /\ \A k \in Job : state[k] # "none" => state'[k] # "none"
        /\ \A p \in DOMAIN stream' : \/ p \in DOMAIN stream /\ stream'[p] = stream[p]
                                     \/ p = Len(stream) + 1 /\ stream'[p] = j
    BY <1>3, EndTurnDoes
  <2>2. \A r \in FReplica, p \in DOMAIN stream' :
            p \notin DOMAIN stream => p > d[r].start /\ p > f[r].start
    BY <1>0, <1>a, <2>1
  <2> QED
    BY <1>a, <2>1, <2>2 DEF StartsBefore
<1>4. ASSUME NEW r \in FReplica, Capture(r) PROVE StartsBefore'
  <2>1. /\ UNCHANGED <<state, stream, f>>
        /\ \A s \in FReplica : d'[s].pc = "follow" => d'[s] = d[s]
    BY <1>0, <1>4 DEF Capture, queue
  <2> QED
    BY <2>1 DEF StartsBefore
<1>5. ASSUME NEW r \in FReplica, NEW j \in Job, Enqueue(r, j) PROVE StartsBefore'
  <2>1. /\ \A k \in Job : state'[k] = IF k = j THEN "waiting" ELSE state[k]
        /\ state[j] \in {"waiting", "none"} /\ UNCHANGED <<stream, f>>
        /\ d'[r].job = j /\ \A s \in FReplica : s # r => d'[s] = d[s]
    BY <1>5, EnqueueDoes
  <2>2. \A p \in DOMAIN stream : stream[p] # j
    BY <2>1 DEF TurnsInOrder, Ended
  <2> QED
    BY <1>a, <2>1, <2>2 DEF StartsBefore
<1>6. ASSUME NEW r \in FReplica, Follow(r) PROVE StartsBefore'
  <2>1. PICK new \in Followers :
            /\ f' = [f EXCEPT ![r] = new] /\ new.pc # "none"
            /\ IF f[r].pc = "none" THEN new.jobs = {d[r].job} /\ new.start = d[r].start
                                   ELSE new.jobs = f[r].jobs \cup {d[r].job} /\ new.start = f[r].start
    BY <1>6, FollowDoes
  <2>2. /\ UNCHANGED <<state, stream>> /\ d[r].pc = "follow" /\ d'[r].pc = "idle"
        /\ \A s \in FReplica : s # r => d'[s] = d[s]
    BY <1>0, <1>6 DEF Follow, queue, NoDispatch
  <2>3. /\ f'[r] = new /\ \A s \in FReplica : s # r => f'[s] = f[s]
    BY <1>0, <2>1
  <2>4. \A p \in DOMAIN stream : stream[p] \in new.jobs => p > new.start
    BY <2>1, <2>2 DEF StartsBefore
  <2> QED
    BY <2>1, <2>2, <2>3, <2>4 DEF StartsBefore
<1>7. ASSUME NEW r \in FReplica, Loop(r) PROVE StartsBefore'
  BY <1>7, LoopDoes DEF LoopMoves, StartsBefore
<1>8. ASSUME NEW r \in FReplica, StopFollowing(r) PROVE StartsBefore'
  <2>1. /\ UNCHANGED <<state, stream, d>> /\ f'[r] = NoFollower
        /\ \A s \in FReplica : s # r => f'[s] = f[s]
    BY <1>0, <1>8 DEF StopFollowing, queue
  <2>2. NoFollower.jobs = {} /\ NoFollower.start = 0
    BY DEF NoFollower
  <2> QED
    BY <1>0, <2>1, <2>2 DEF StartsBefore
<1> QED
  BY <1>1, <1>2, <1>3, <1>4, <1>5, <1>6, <1>7, <1>8 DEF FollowerNext, Node, Dispatch

\* Both hold of the empty stream.
LEMMA TurnsStart == FollowerInit => TurnsInOrder /\ StartsBefore
BY DEF FollowerInit, TurnsInOrder, StartsBefore, NoFollower, NoDispatch, Ended

\* No outcome of a turn that a follower watches is skipped as backlog, for any
\* number of replicas, jobs and lost events.
THEOREM NoneSkipped == FollowerSpec => []SkipsNothing
<1>1. FollowerInit => FollowerTypeOK /\ TurnsInOrder /\ StartsBefore
  BY FollowerTypeInit, TurnsStart
<1>2. FollowerTypeOK /\ TurnsInOrder /\ StartsBefore /\ [FollowerNext]_followerVars
        => FollowerTypeOK' /\ TurnsInOrder' /\ StartsBefore'
  BY FollowerTypeStep, TurnsInOrderStep, StartsBeforeStep
<1>3. StartsBefore => SkipsNothing
  BY DEF StartsBefore, SkipsNothing
<1> QED
  BY <1>1, <1>2, <1>3, PTL DEF FollowerSpec
\* One gateway replica follows the session.
OneFollower == \A r, s \in FReplica : r = s

\* r is about to follow j.
ComingTo(r, j) == d[r].pc = "follow" /\ d[r].job = j

\* A dispatch follows the newest job.
ComesToNewest(r) ==
    d[r].pc = "follow" => \A j \in Job : state[j] # "none" => j <= d[r].job

\* What was shown: once, of a turn that has ended, and of a job not owed any more.
ToldOf(r) ==
    \A j \in Job :
        /\ told[r][j] <= 1
        /\ told[r][j] > 0 \/ j \in f[r].emitted => Ended(j)
        /\ (j \in f[r].jobs \/ ComingTo(r, j)) /\ j \notin f[r].emitted => told[r][j] = 0

\* Jobs that were added are watched until their turn has ended.
WatchesAll(r) ==
    /\ f[r].todo \subseteq f[r].jobs
    /\ \A j \in Job :
          /\ j \in f[r].jobs => state[j] # "none"
          /\ state[j] # "none" /\ ~Ended(j) => j \in f[r].jobs \/ ComingTo(r, j)

\* What the stream holds behind the cursor is of watched turns not shown yet.
StreamIsOwed(r) ==
    /\ \A j \in Job : f[r].pc = "poll" /\ state[j] = "settled" => ~Unread(r, j)
    /\ \A p \in DOMAIN stream :
          /\ f[r].pc # "none" /\ p > f[r].cursor =>
                /\ stream[p] \notin f[r].emitted
                /\ stream[p] \in f[r].jobs \/ ComingTo(r, stream[p])
          /\ f[r].pc = "none" /\ d[r].pc # "idle" /\ p > d[r].start => ComingTo(r, stream[p])

Follows(r) == ComesToNewest(r) /\ ToldOf(r) /\ WatchesAll(r) /\ StreamIsOwed(r)

\* A read answers only jobs whose turn has ended: of the jobs it still owes an
\* outcome, as many lie before one that has not as there are entries unread.
LEMMA ReadAnswersEnded ==
    ASSUME FollowerTypeOK, TurnsInOrder, NEW r \in FReplica, Follows(r), Read(r),
           NEW j \in Answered(r)
    PROVE  Ended(j)
<1> DEFINE n == Len(stream) - f[r].cursor
           unread == (f[r].cursor + 1)..Len(stream)
           before == {k \in Owed(f[r]) : k < j}
<1>0. /\ stream \in Seq(Job) /\ f[r] \in Followers /\ f[r].cursor \in Nat /\ f[r].cursor <= Len(stream)
      /\ Len(stream) \in Nat /\ d[r].pc = "follow" => d[r].job \in Job
      /\ f[r].pc = "read"
  BY DEF FollowerTypeOK, Followers, Read
<1>1. j \in Owed(f[r]) /\ Cardinality({k \in Owed(f[r]) : k <= j}) <= n
  BY DEF Answered, FirstOf
<1>2. Owed(f[r]) \subseteq Job /\ Job = 1..MaxJob /\ MaxJob \in Nat
  BY <1>0, TurnFollowerAssumption DEF Owed, Followers, Job
<1>3. SUFFICES ASSUME ~Ended(j) PROVE FALSE
  OBVIOUS
<1>4. ASSUME NEW p \in unread PROVE stream[p] \in before
  <2>1. p \in DOMAIN stream /\ p > f[r].cursor /\ stream[p] \in Job
    BY <1>0
  <2>2. Ended(stream[p]) /\ stream[p] \notin f[r].emitted
        /\ (stream[p] \in f[r].jobs \/ ComingTo(r, stream[p]))
    BY <1>0, <2>1 DEF TurnsInOrder, Follows, StreamIsOwed
  <2>3. stream[p] < j
    BY <1>1, <1>2, <1>3, <2>1, <2>2 DEF TurnsInOrder, Ended
  <2>4. state[j] # "none"
    BY <1>1, <1>2 DEF Follows, WatchesAll, Owed
  <2>5. ~ComingTo(r, stream[p])
    BY <1>1, <1>2, <2>1, <2>3, <2>4 DEF Follows, ComesToNewest, ComingTo
  <2> QED
    BY <2>2, <2>3, <2>5 DEF Owed
<1>5. \A p, q \in unread : stream[p] = stream[q] => p = q
  BY <1>0 DEF TurnsInOrder
<1>6. IsFiniteSet(unread) /\ Cardinality(unread) = n
  <2> DEFINE a == f[r].cursor + 1
             b == Len(stream)
  <2>1. a \in Int /\ b \in Int /\ n = b - a + 1 /\ b >= a - 1
    BY <1>0
  <2> HIDE DEF a, b
  <2>2. IsFiniteSet(a..b) /\ Cardinality(a..b) = IF a > b THEN 0 ELSE b - a + 1
    BY <2>1, FS_Interval
  <2>3. unread = a..b
    BY DEF a, b
  <2> HIDE DEF n, unread
  <2> QED
    BY <2>1, <2>2, <2>3
<1>7. IsFiniteSet(before) /\ IsFiniteSet({k \in Owed(f[r]) : k <= j})
  <2>1. IsFiniteSet(Job)
    BY <1>2, FS_Interval
  <2> QED
    BY <1>2, <2>1, FS_Subset
<1>8. Cardinality({k \in Owed(f[r]) : k <= j}) = Cardinality(before) + 1
  <2>1. {k \in Owed(f[r]) : k <= j} = before \cup {j} /\ j \notin before
    BY <1>1, <1>2
  <2> QED
    BY <1>7, <2>1, FS_AddElement
<1>9. Cardinality(before) \in Nat /\ Cardinality(before) < Cardinality(unread)
  BY <1>0, <1>1, <1>6, <1>7, <1>8, FS_CardinalityType
<1>10. [p \in unread |-> stream[p]] \in [unread -> before]
  BY <1>4
<1>11. \E p, q \in unread : p # q /\ stream[p] = stream[q]
  <2>1. \E p, q \in unread : p # q /\ [x \in unread |-> stream[x]][p] = [x \in unread |-> stream[x]][q]
    <3> DEFINE at == [x \in unread |-> stream[x]]
    <3>1. at \in [unread -> before]
      BY <1>10
    <3> HIDE DEF at, unread, before
    <3>2. \E p, q \in unread : p # q /\ at[p] = at[q]
      BY <1>6, <1>7, <1>9, <3>1, FS_PigeonHole
    <3> QED
      BY <3>2 DEF at
  <2> QED
    BY <2>1
<1> QED
  BY <1>5, <1>11

\* A step of the node.
LEMMA NodeFollowed ==
    ASSUME FollowerTypeOK, TurnsInOrder, StartsBefore, ~Lag, NEW r \in FReplica, Follows(r),
           NEW j \in Job, Node(j)
    PROVE  Follows(r)'
<1>0. /\ state \in [Job -> JobState] /\ stream \in Seq(Job) /\ f[r] \in Followers
      /\ \A p \in DOMAIN stream : stream[p] \in Job
  BY DEF FollowerTypeOK, JobState
<1>1. CASE Begin(j)
  <2>1. /\ state[j] = "waiting" /\ UNCHANGED <<stream, d, f, told>>
        /\ \A k \in Job : state'[k] = IF k = j THEN "active" ELSE state[k]
    BY <1>0, <1>1 DEF Begin
  <2>2. \A k \in Job : (Ended(k)' <=> Ended(k)) /\ (state'[k] # "none" <=> state[k] # "none")
                       /\ (state'[k] = "settled" <=> state[k] = "settled")
    BY <2>1 DEF Ended
  <2> QED
    BY <2>1, <2>2 DEF Follows, ComesToNewest, ToldOf, WatchesAll, StreamIsOwed, ComingTo, Unread
<1>2. CASE Settle(j)
  <2>1. /\ state[j] = "ended" /\ UNCHANGED <<stream, d, f, told>> /\ ~Unread(r, j)
        /\ \A k \in Job : state'[k] = IF k = j THEN "settled" ELSE state[k]
    BY <1>0, <1>2 DEF Settle
  <2>2. \A k \in Job : /\ Ended(k)' <=> Ended(k)
                       /\ state'[k] # "none" <=> state[k] # "none"
                       /\ state'[k] = "settled" => state[k] = "settled" \/ k = j
                       /\ Unread(r, k)' <=> Unread(r, k)
    BY <2>1 DEF Ended, Unread
  <2>3. ComesToNewest(r)' /\ ToldOf(r)' /\ WatchesAll(r)'
    BY <2>1, <2>2 DEF Follows, ComesToNewest, ToldOf, WatchesAll, ComingTo
  <2>4. StreamIsOwed(r)'
    BY <2>1, <2>2 DEF Follows, StreamIsOwed, ComingTo
  <2> QED
    BY <2>3, <2>4 DEF Follows
<1>3. CASE EndTurn(j)
  <2>1. /\ state[j] = "active" /\ \A k \in Job : state'[k] = IF k = j THEN "ended" ELSE state[k]
        /\ UNCHANGED <<d, f, told>>
        /\ \A p \in DOMAIN stream' : \/ p \in DOMAIN stream /\ stream'[p] = stream[p]
                                     \/ p = Len(stream) + 1 /\ stream'[p] = j
    BY <1>3, EndTurnDoes
  <2>2. \A k \in Job : /\ Ended(k) => Ended(k)' /\ state[k] # "none"
                       /\ Ended(k)' => Ended(k) \/ k = j
                       /\ state'[k] # "none" <=> state[k] # "none"
                       /\ state'[k] = "settled" => state[k] = "settled" /\ k # j
    BY <2>1 DEF Ended
  <2>3. ComesToNewest(r)' /\ ToldOf(r)' /\ WatchesAll(r)'
    BY <2>1, <2>2 DEF Follows, ComesToNewest, ToldOf, WatchesAll, ComingTo
  <2>4. \A k \in Job : state'[k] = "settled" /\ Unread(r, k)' => Unread(r, k)
    BY <2>1, <2>2 DEF Unread
  <2>5. /\ j \notin f[r].emitted /\ (j \in f[r].jobs \/ ComingTo(r, j))
        /\ f[r].pc = "none" => ComingTo(r, j)
    <3>1. ~Ended(j) /\ state[j] # "none"
      BY <2>1 DEF Ended
    <3>2. f[r].pc = "none" => f[r].jobs = {}
      BY DEF StartsBefore, NoFollower
    <3> QED
      BY <3>1, <3>2 DEF Follows, ToldOf, WatchesAll
  <2>6. StreamIsOwed(r)'
    BY <2>1, <2>2, <2>4, <2>5 DEF Follows, StreamIsOwed, ComingTo
  <2> QED
    BY <2>3, <2>6 DEF Follows
<1> QED
  BY <1>1, <1>2, <1>3 DEF Node

\* A step of a dispatch.
LEMMA DispatchFollowed ==
    ASSUME FollowerTypeOK, TurnsInOrder, StartsBefore, NEW r \in FReplica, Follows(r),
           Capture(r) \/ Dispatch(r)
    PROVE  Follows(r)'
<1>0. /\ state \in [Job -> JobState] /\ stream \in Seq(Job) /\ f \in [FReplica -> Followers]
      /\ d \in [FReplica -> Dispatches] /\ told \in [FReplica -> [Job -> 0..2]]
      /\ \A p \in DOMAIN stream : stream[p] \in Job /\ p \in Nat /\ p <= Len(stream)
      /\ d[r].pc = "follow" => d[r].job \in Job
  BY DEF FollowerTypeOK, JobState
<1>1. CASE Capture(r)
  <2>1. /\ UNCHANGED <<state, stream, f, told>> /\ d[r].pc = "idle"
        /\ d'[r].pc = "enqueue" /\ d'[r].start = Len(stream)
    BY <1>0, <1>1 DEF Capture, queue
  <2>2. \A k : ~ComingTo(r, k) /\ ~ComingTo(r, k)'
    BY <2>1 DEF ComingTo
  <2>3. ComesToNewest(r)' /\ ToldOf(r)' /\ WatchesAll(r)'
    BY <2>1, <2>2 DEF Follows, ComesToNewest, ToldOf, WatchesAll, Ended
  <2>4. StreamIsOwed(r)'
    <3>1. \A p \in DOMAIN stream : ~(p > Len(stream))
      BY <1>0
    <3> QED
      BY <2>1, <2>2, <3>1 DEF Follows, StreamIsOwed, Unread
  <2> QED
    BY <2>3, <2>4 DEF Follows
<1>2. ASSUME NEW j \in Job, Enqueue(r, j) PROVE Follows(r)'
  <2>1. /\ \A k \in Job : state'[k] = IF k = j THEN "waiting" ELSE state[k]
        /\ \/ state[j] = "waiting"
           \/ state[j] = "none" /\ \A k \in Job : state[k] # "waiting" /\ (k < j => state[k] # "none")
        /\ d[r].pc = "enqueue" /\ d'[r].pc = "follow" /\ d'[r].job = j /\ d'[r].start = d[r].start
        /\ UNCHANGED <<stream, f, told>>
    BY <1>2, EnqueueDoes
  <2>2. \A k \in Job : /\ Ended(k)' <=> Ended(k)
                       /\ state'[k] # "none" <=> state[k] # "none" \/ k = j
                       /\ state'[k] = "settled" => state[k] = "settled"
                       /\ ~ComingTo(r, k) /\ (ComingTo(r, k)' <=> k = j)
                       /\ Unread(r, k)' <=> Unread(r, k)
    BY <2>1 DEF Ended, ComingTo, Unread
  <2>3. ComesToNewest(r)'
    <3>1. ASSUME NEW k \in Job, state'[k] # "none" PROVE k <= j
      <4>1. SUFFICES ASSUME j < k, state[k] # "none" PROVE FALSE
        BY <2>1, <3>1 DEF Job
      <4>2. state[k] \in JobState
        BY <1>0
      <4> QED
        BY <2>1, <4>1, <4>2 DEF TurnsInOrder, Ended, JobState
    <3> QED
      BY <2>1, <3>1 DEF ComesToNewest
  <2>4. ToldOf(r)'
    <3>1. ~Ended(j) /\ told[r][j] \in 0..2
      BY <1>0, <2>1 DEF Ended
    <3>2. told[r][j] = 0
      BY <3>1 DEF Follows, ToldOf
    <3> QED
      BY <2>1, <2>2, <3>2 DEF Follows, ToldOf
  <2>5. WatchesAll(r)'
    BY <2>1, <2>2 DEF Follows, WatchesAll
  <2>6. StreamIsOwed(r)'
    BY <1>0, <2>1, <2>2 DEF Follows, StreamIsOwed
  <2> QED
    BY <2>3, <2>4, <2>5, <2>6 DEF Follows
<1>3. CASE Follow(r)
  <2>1. PICK new \in Followers :
              /\ f' = [f EXCEPT ![r] = new] /\ new.pc # "none"
              /\ IF f[r].pc = "none"
                 THEN /\ new.jobs = {d[r].job} /\ new.emitted = {} /\ new.pc = "read"
                      /\ new.cursor = d[r].start /\ new.todo = {}
                 ELSE /\ new.jobs = f[r].jobs \cup {d[r].job} /\ new.emitted = f[r].emitted
                      /\ new.cursor = f[r].cursor /\ new.pc = f[r].pc /\ new.todo = f[r].todo
    BY <1>3, FollowDoes
  <2>2. /\ UNCHANGED <<state, stream, told>> /\ f'[r] = new
        /\ d[r].pc = "follow" /\ d'[r].pc = "idle" /\ d[r].job \in Job
    BY <1>0, <1>3, <2>1 DEF Follow, queue, NoDispatch
  <2>3. /\ state[d[r].job] # "none"
        /\ f[r].pc = "none" => f[r].jobs = {} /\ f[r].emitted = {} /\ f[r].todo = {}
    BY <2>2 DEF StartsBefore, NoFollower
  <2>4. \A k : (ComingTo(r, k) <=> k = d[r].job) /\ ~ComingTo(r, k)'
    BY <2>2 DEF ComingTo
  <2>5. new.jobs = f[r].jobs \cup {d[r].job} /\ new.emitted = f[r].emitted /\ new.todo = f[r].todo
    BY <2>1, <2>3
  <2>6. ComesToNewest(r)' /\ ToldOf(r)' /\ WatchesAll(r)'
    BY <2>2, <2>3, <2>4, <2>5 DEF Follows, ComesToNewest, ToldOf, WatchesAll, Ended
  <2>7. StreamIsOwed(r)'
    <3>1. CASE f[r].pc = "none"
      BY <2>1, <2>2, <2>4, <3>1 DEF Follows, StreamIsOwed, Unread
    <3>2. CASE f[r].pc # "none"
      BY <2>1, <2>2, <2>4, <3>2 DEF Follows, StreamIsOwed, Unread
    <3> QED
      BY <3>1, <3>2
  <2> QED
    BY <2>6, <2>7 DEF Follows
<1> QED
  BY <1>1, <1>2, <1>3 DEF Dispatch

\* A step of the loop.
LEMMA LoopFollowed ==
    ASSUME FollowerTypeOK, TurnsInOrder, NEW r \in FReplica, Follows(r), Loop(r)
    PROVE  Follows(r)'
<1>0. /\ f \in [FReplica -> Followers] /\ stream \in Seq(Job)
      /\ \A p \in DOMAIN stream : stream[p] \in Job /\ ~(p > Len(stream))
      /\ \A j \in Job : told[r][j] \in 0..2
  BY DEF FollowerTypeOK
<1>1. CASE Read(r)
  <2>1. /\ Answered(r) \subseteq f[r].jobs \ f[r].emitted /\ f[r].pc = "read"
        /\ Show(r, Answered(r))
    BY <1>1, ReadDoes
  <2>2. PICK new \in Followers :
              /\ f' = [f EXCEPT ![r] = new] /\ new.pc = "poll" /\ new.cursor = Len(stream)
              /\ new.jobs = f[r].jobs /\ new.todo = f[r].jobs
              /\ new.emitted = f[r].emitted \cup Answered(r)
    BY <1>1, ReadDoes
  <2>3. UNCHANGED <<state, stream, d>> /\ f'[r] = new
    BY <1>0, <1>1, <2>2 DEF Read, queue
  <2>4. \A j \in Job :
            told'[r][j] = IF j \in Answered(r) /\ told[r][j] < 2 THEN told[r][j] + 1 ELSE told[r][j]
    BY <2>1, Shown
  <2>5. \A j \in Answered(r) : Ended(j)
    BY <1>1, ReadAnswersEnded
  <2> HIDE DEF Answered
  <2>6. \A j \in Job : (ComingTo(r, j)' <=> ComingTo(r, j)) /\ (Ended(j)' <=> Ended(j))
    BY <2>3 DEF ComingTo, Ended
  <2>7. ToldOf(r)'
    <3>1. ASSUME NEW j \in Answered(r) PROVE j \in Job /\ told[r][j] = 0
      BY <2>1, <3>1, <1>0 DEF Follows, ToldOf, Followers
    <3>2. \A j \in Job : told'[r][j] = IF j \in Answered(r) THEN 1 ELSE told[r][j]
      BY <2>4, <3>1
    <3> QED
      BY <2>2, <2>3, <2>5, <2>6, <3>2 DEF Follows, ToldOf
  <2>8. ComesToNewest(r)' /\ WatchesAll(r)'
    BY <2>2, <2>3, <2>6 DEF Follows, ComesToNewest, WatchesAll
  <2>9. StreamIsOwed(r)'
    BY <1>0, <2>2, <2>3 DEF StreamIsOwed, Unread
  <2> QED
    BY <2>7, <2>8, <2>9 DEF Follows
<1>2. CASE PollJob(r)
  <2>1. f[r].pc = "poll" /\ UNCHANGED <<state, stream, d>>
    BY <1>2 DEF PollJob, queue
  <2>2. PICK j \in f[r].todo, new \in Followers :
              /\ f' = [f EXCEPT ![r] = new] /\ new.pc = "poll" /\ new.cursor = f[r].cursor
              /\ new.todo = f[r].todo \ {j}
              /\ IF state[j] = "settled"
                 THEN /\ new.jobs = f[r].jobs \ {j} /\ new.emitted = f[r].emitted \cup {j}
                      /\ IF j \in f[r].emitted THEN told' = told ELSE Show(r, {j})
                 ELSE /\ new.jobs = f[r].jobs /\ new.emitted = f[r].emitted /\ told' = told
    BY <1>2, PollDoes
  <2>3. f'[r] = new /\ j \in Job /\ j \in f[r].jobs
    BY <1>0, <2>2 DEF Follows, WatchesAll, Followers
  <2>4. \A k \in Job : /\ ComingTo(r, k)' <=> ComingTo(r, k)
                       /\ Ended(k)' <=> Ended(k)
                       /\ Unread(r, k)' <=> Unread(r, k)
    BY <2>1, <2>2, <2>3 DEF ComingTo, Ended, Unread
  <2>5. ComesToNewest(r)'
    BY <2>1, <2>4 DEF Follows, ComesToNewest
  <2>6. CASE state[j] # "settled"
    <3>1. f'[r].jobs = f[r].jobs /\ f'[r].emitted = f[r].emitted /\ f'[r].cursor = f[r].cursor
          /\ f'[r].pc = "poll" /\ f'[r].todo \subseteq f[r].todo /\ told' = told
      BY <2>2, <2>3, <2>6
    <3>2. ToldOf(r)' /\ WatchesAll(r)'
      BY <2>1, <2>4, <3>1 DEF Follows, ToldOf, WatchesAll
    <3>3. StreamIsOwed(r)'
      BY <1>0, <2>1, <2>4, <3>1 DEF Follows, StreamIsOwed
    <3> QED
      BY <2>5, <3>2, <3>3 DEF Follows
  <2>7. CASE state[j] = "settled"
    <3>1. Ended(j) /\ ~Unread(r, j)
      BY <2>1, <2>3, <2>7 DEF Ended, Follows, StreamIsOwed
    <3>2. \A k \in Job : told'[r][k] = told[r][k] \/ (k = j /\ told'[r][k] = 1)
      <4>1. CASE j \in f[r].emitted
        BY <2>2, <2>7, <4>1
      <4>2. CASE j \notin f[r].emitted
        <5>1. Show(r, {j}) /\ told[r][j] = 0
          BY <2>2, <2>3, <2>7, <4>2 DEF Follows, ToldOf
        <5> QED
          BY <5>1, Shown
      <4> QED
        BY <4>1, <4>2
    <3>3. ToldOf(r)'
      BY <2>2, <2>3, <2>4, <2>7, <3>1, <3>2 DEF Follows, ToldOf
    <3>4. WatchesAll(r)'
      BY <2>1, <2>2, <2>3, <2>4, <2>7, <3>1 DEF Follows, WatchesAll
    <3>5. StreamIsOwed(r)'
      <4>1. \A p \in DOMAIN stream : p > f[r].cursor => stream[p] # j
        BY <2>1, <3>1 DEF Unread
      <4> QED
        BY <1>0, <2>1, <2>2, <2>3, <2>4, <2>7, <4>1 DEF Follows, StreamIsOwed
    <3> QED
      BY <2>5, <3>3, <3>4, <3>5 DEF Follows
  <2> QED
    BY <2>6, <2>7
<1>3. CASE Pause(r)
  <2> DEFINE new == [f[r] EXCEPT !.pc = "read"]
  <2>1. f'[r] = new /\ UNCHANGED <<state, stream, d, told>> /\ f[r].pc = "poll"
    BY <1>0, <1>3 DEF Pause, queue
  <2>2. /\ new.pc = "read" /\ new.jobs = f[r].jobs /\ new.emitted = f[r].emitted
        /\ new.todo = f[r].todo /\ new.cursor = f[r].cursor
    BY <1>0 DEF Followers
  <2> HIDE DEF new
  <2> QED
    BY <2>1, <2>2 DEF Follows, ComesToNewest, ToldOf, WatchesAll, StreamIsOwed, ComingTo, Ended, Unread
<1> QED
  BY <1>1, <1>2, <1>3 DEF Loop

\* A follower that stops owes nothing, or says so.
LEMMA StopFollowed ==
    ASSUME FollowerTypeOK, ~Lag, NEW r \in FReplica, Follows(r), StopFollowing(r), left' = {}
    PROVE  Follows(r)'
<1>1. /\ f'[r] = NoFollower /\ UNCHANGED <<state, stream, d, told>> /\ d[r].pc = "idle"
      /\ Owed(f[r]) = {}
  BY DEF StopFollowing, queue, FollowerTypeOK
<1>2. NoFollower.jobs = {} /\ NoFollower.emitted = {} /\ NoFollower.todo = {} /\ NoFollower.pc = "none"
  BY DEF NoFollower
<1>3. \A j \in Job : state[j] # "none" => Ended(j)
  BY <1>1 DEF Follows, WatchesAll, ToldOf, Owed, ComingTo
<1> QED
  BY <1>1, <1>2, <1>3 DEF Follows, ComesToNewest, ToldOf, WatchesAll, StreamIsOwed, ComingTo, Ended, Unread

\* Of the one replica that follows.
FollowsWell == \A r \in FReplica : left = {} => Follows(r)

\* A step of a lone follower that loses no entry keeps it showing outcomes in turn.
LEMMA FollowsStep ==
    ASSUME OneFollower, ~Lag, FollowerTypeOK, TurnsInOrder, StartsBefore, FollowsWell,
           [FollowerNext]_followerVars
    PROVE  FollowsWell'
<1> SUFFICES ASSUME NEW r \in FReplica, left' = {} PROVE Follows(r)'
  BY DEF FollowsWell
<1>1. CASE UNCHANGED followerVars
  BY <1>1 DEF followerVars, FollowsWell, Follows, ComesToNewest, ToldOf, WatchesAll, StreamIsOwed,
              ComingTo, Ended, Unread
<1>2. CASE \E j \in Job : Node(j)
  <2>1. left = {}
    BY <1>2 DEF Node, Begin, EndTurn, Settle
  <2> QED
    BY <1>2, <2>1, NodeFollowed DEF FollowsWell
<1>3. CASE Capture(r) \/ Dispatch(r) \/ Loop(r)
  <2>1. left = {}
    BY <1>3 DEF Capture, Dispatch, Enqueue, Follow, Loop, Read, PollJob, Pause
  <2> QED
    BY <1>3, <2>1, DispatchFollowed, LoopFollowed DEF FollowsWell
<1>4. CASE StopFollowing(r)
  <2>1. left = {}
    BY <1>4 DEF StopFollowing
  <2> QED
    BY <1>4, <2>1, StopFollowed DEF FollowsWell
<1> QED
  BY <1>1, <1>2, <1>3, <1>4 DEF FollowerNext, OneFollower

\* It holds before anything is followed.
LEMMA FollowsInit == FollowerInit => FollowsWell
BY DEF FollowerInit, FollowsWell, Follows, ComesToNewest, ToldOf, WatchesAll, StreamIsOwed,
       ComingTo, Ended, Unread, NoFollower, NoDispatch

\* With one replica and followers that are in time, an outcome is shown after
\* its turn, once, and none is passed over: for any jobs, messages and lost
\* events, whichever of the stream and the poll is first.
THEOREM FollowerTells == OneFollower /\ ~Lag => (FollowerSpec => []OutcomesInTurn)
<1> SUFFICES ASSUME OneFollower, ~Lag PROVE FollowerSpec => []OutcomesInTurn
  OBVIOUS
<1> DEFINE FI == FollowerTypeOK /\ TurnsInOrder /\ StartsBefore /\ FollowsWell
<1>1. FollowerInit => FI
  BY FollowerTypeInit, TurnsStart, FollowsInit
<1>2. FI /\ [FollowerNext]_followerVars => FI'
  BY FollowerTypeStep, TurnsInOrderStep, StartsBeforeStep, FollowsStep
<1>3. FI => OutcomesInTurn
  BY DEF StartsBefore, FollowsWell, Follows, ToldOf, OutcomesInTurn, SkipsNothing, ShownAfterEnd, ShownOnce
<1> QED
  BY <1>1, <1>2, <1>3, PTL DEF FollowerSpec
=============================================================================
