-------------------------------- MODULE Wakes --------------------------------
(***************************************************************************)
(* The wakes of one agent (src/proactive/wake.ts, wake-gate.ts,            *)
(* wake-settle.ts): the gate a heartbeat slot or "/heartbeat now" passes,  *)
(* the ledger run of the wake (db/background-runs.ts), the turn a node     *)
(* runs for it, and the row that says when to look next and how often it   *)
(* failed (db/heartbeat-wake-state.ts).  Time is counted in slots.         *)
(***************************************************************************)
EXTENDS Integers, FiniteSets

CONSTANTS
    Waker,        \* the runWakes that may be under way at once
    WakeRun,      \* 1..n, the ledger runs: bounds how often it wakes
    MaxSleep,     \* wakeMaxSleepHours
    Stale,        \* RUN_STALE_MS
    TurnLimit,    \* a node's turn timeout, inside of which a wake ends
    MaxSlots,     \* bound: the last instant
    MaxAsks,      \* bound: "/heartbeat now"
    MaxJobEdits,  \* bound: edits of the checklist or a mandate
    MaxWakeFaults \* bound: failed dispatches and lost turns

ASSUME WakeAssumption ==
    /\ {MaxSleep, Stale, TurnLimit, MaxSlots} \subseteq Nat \ {0} /\ TurnLimit < Stale
    /\ {MaxAsks, MaxJobEdits, MaxWakeFaults} \subseteq Nat
    /\ WakeRun = 1..Cardinality(WakeRun) /\ IsFiniteSet(WakeRun)

VARIABLES
    slotNow,
    slotRan,    \* the last slot whose heartbeat ran: one claims it
    job,        \* the checklist and the mandates
    wakeRow,    \* heartbeat_wake_state
    waker,      \* waker[w]: where a runWake stands
    wrun,       \* wrun[n]: its row, its turn and the settlement of its end
    missed,     \* wakes since the last that ended well, its notes written
    wakeSpent

wakeVars == <<slotNow, slotRan, job, wakeRow, waker, wrun, missed, wakeSpent>>

Unset == -1
Sooner(a, b) == IF a < b THEN a ELSE b
Rested == [pc |-> "idle", at |-> 0, job |-> 0, run |-> 0]
NoRun == [row |-> "none", turn |-> "none", at |-> 0, noted |-> FALSE, end |-> "none", seen |-> {}]
WakeFault == wakeSpent.faults < MaxWakeFaults /\ wakeSpent' = [wakeSpent EXCEPT !.faults = @ + 1]
OpenWakes == {n \in WakeRun : wrun[n].row = "open"}
Ending(n) == wrun[n].end # "none" \/ wrun[n].turn = "aborting"
GoingTurns == {n \in WakeRun : wrun[n].turn = "going"}

WakeInit ==
    /\ slotNow = 0 /\ slotRan = Unset /\ job = 0 /\ missed = 0
    /\ wakeRow = [next |-> Unset, last |-> Unset, finished |-> Unset, failures |-> 0, job |-> 0]
    /\ waker = [w \in Waker |-> Rested]
    /\ wrun = [n \in WakeRun |-> NoRun]
    /\ wakeSpent = [asks |-> 0, edits |-> 0, faults |-> 0, crossed |-> FALSE]

\* A slot passes: calls answer and a turn ends within it.
SlotPasses ==
    /\ slotNow < MaxSlots
    /\ \A w \in Waker : waker[w].pc = "idle"
    /\ \A n \in WakeRun : /\ ~Ending(n)
                          /\ n \in GoingTurns => slotNow < wrun[n].at + TurnLimit
    /\ slotNow' = slotNow + 1
    /\ UNCHANGED <<slotRan, job, wakeRow, waker, wrun, missed, wakeSpent>>

EditWakeJob ==
    /\ wakeSpent.edits < MaxJobEdits
    /\ job' = job + 1 /\ wakeSpent' = [wakeSpent EXCEPT !.edits = @ + 1]
    /\ UNCHANGED <<slotNow, slotRan, wakeRow, waker, wrun, missed>>

-----------------------------------------------------------------------------
(***************************************************************************)
(* A wake starts                                                           *)
(***************************************************************************)
Stands(w, pc) == waker' = [waker EXCEPT ![w] = IF pc = "idle" THEN Rested ELSE [@ EXCEPT !.pc = pc]]
\* Not in the instant of the last wake's start or of its notes.
Begin(w) ==
    /\ waker[w].pc = "idle" /\ wakeRow.last < slotNow /\ wakeRow.finished < slotNow
    /\ waker' = [waker EXCEPT ![w] = [Rested EXCEPT !.pc = "gate", !.at = slotNow, !.job = job]]

\* The heartbeat of a slot, which one scheduler claims.
RoundWakes(w) ==
    /\ slotRan < slotNow /\ slotRan' = slotNow /\ Begin(w)
    /\ UNCHANGED <<slotNow, job, wakeRow, wrun, missed, wakeSpent>>

\* wakeNow: marked due, then the normal path.
AskNow(w) ==
    /\ wakeSpent.asks < MaxAsks
    /\ wakeSpent' = [wakeSpent EXCEPT !.asks = @ + 1]
    /\ wakeRow' = IF wakeRow.last = Unset THEN wakeRow ELSE [wakeRow EXCEPT !.next = slotNow]
    /\ Begin(w)
    /\ UNCHANGED <<slotNow, slotRan, job, wrun, missed>>

\* wakeDue.
WakeDue(w) ==
    \/ wakeRow.last = Unset \/ wakeRow.job # waker[w].job
    \/ waker[w].at - wakeRow.last >= MaxSleep
    \/ wakeRow.next <= waker[w].at

Gate(w) ==
    /\ waker[w].pc = "gate"
    /\ Stands(w, IF WakeDue(w) THEN "due" ELSE "idle")
    /\ UNCHANGED <<slotNow, slotRan, job, wakeRow, wrun, missed, wakeSpent>>

\* Mutant: whether a wake is still running is not asked.
LookForOpen_Never(w) ==
    /\ waker[w].pc = "due"
    /\ Stands(w, "clear")
    /\ UNCHANGED <<slotNow, slotRan, job, wakeRow, wrun, missed, wakeSpent>>

\* "One at a time": a run that is open, the stale ones swept.
LookForOpen(w) ==
    /\ waker[w].pc = "due"
    /\ Stands(w, IF OpenWakes = {} THEN "clear" ELSE "idle")
    /\ UNCHANGED <<slotNow, slotRan, job, wakeRow, wrun, missed, wakeSpent>>

OpenWakeRun(w) ==
    /\ waker[w].pc = "clear"
    /\ \E n \in WakeRun :
          /\ wrun[n].row = "none" /\ \A k \in 1..(n - 1) : wrun[k].row # "none"
          /\ wrun' = [wrun EXCEPT ![n] = [NoRun EXCEPT !.row = "open", !.at = slotNow]]
          /\ waker' = [waker EXCEPT ![w].pc = "opened", ![w].run = n]
    /\ wakeSpent' = [wakeSpent EXCEPT !.crossed = @ \/ \E n \in WakeRun : Ending(n)]
    /\ UNCHANGED <<slotNow, slotRan, job, wakeRow, missed>>

\* No budget, no priced model, no team: the next slot tries again.
RefuseWake(w) ==
    /\ waker[w].pc = "clear" /\ Stands(w, "idle")
    /\ UNCHANGED <<slotNow, slotRan, job, wakeRow, wrun, missed, wakeSpent>>

NoteStart(w) ==
    /\ waker[w].pc = "opened"
    /\ wakeRow' = [wakeRow EXCEPT !.last = waker[w].at, !.job = waker[w].job]
    /\ Stands(w, "noted")
    /\ UNCHANGED <<slotNow, slotRan, job, wrun, missed, wakeSpent>>

DispatchWake(w) ==
    /\ waker[w].pc = "noted"
    /\ wrun' = [wrun EXCEPT ![waker[w].run].turn = "going"]
    /\ Stands(w, "idle")
    /\ UNCHANGED <<slotNow, slotRan, job, wakeRow, missed, wakeSpent>>

\* Its envelope, its row or its dispatch fails: the run ends as an error.
WakeFails(w) ==
    /\ waker[w].pc \in {"opened", "noted"} /\ WakeFault
    /\ wrun' = [wrun EXCEPT ![waker[w].run].row = "ended", ![waker[w].run].end = "error"]
    /\ Stands(w, "failed")
    /\ UNCHANGED <<slotNow, slotRan, job, wakeRow, missed>>

FailReturns(w) ==
    /\ waker[w].pc = "failed" /\ wrun[waker[w].run].end = "none"
    /\ Stands(w, "idle")
    /\ UNCHANGED <<slotNow, slotRan, job, wakeRow, wrun, missed, wakeSpent>>

-----------------------------------------------------------------------------
(***************************************************************************)
(* Its turn                                                                *)
(***************************************************************************)
\* finish_round: the agent's notes, and its proposal for the next check: what
\* the clamp leaves of it ranges from a slot to the longest sleep.
FinishRoundTool(n) ==
    /\ wrun[n].turn \in {"going", "aborting"} /\ ~wrun[n].noted
    /\ \E next \in {slotNow + 1, slotNow + MaxSleep} :
          wakeRow' = [wakeRow EXCEPT !.next = next, !.finished = slotNow]
    /\ wrun' = [wrun EXCEPT ![n].noted = TRUE]
    /\ wakeSpent' = [wakeSpent EXCEPT !.crossed = @ \/ \E w \in Waker : waker[w].pc # "idle"]
    /\ UNCHANGED <<slotNow, slotRan, job, waker, missed>>

\* The turn's result closes the run, unless it is closed already.
TurnEnds(n, end) ==
    /\ wrun[n].turn = "going"
    /\ wrun' = [wrun EXCEPT ![n].turn = "over",
                          ![n].row = "ended", ![n].end = IF wrun[n].row = "open" THEN end ELSE "none"]
    /\ UNCHANGED <<slotNow, slotRan, job, wakeRow, waker, missed, wakeSpent>>

\* The wake's wall clock closes the run, then aborts the turn.
WallClock(n) ==
    /\ wrun[n].turn = "going" /\ slotNow = wrun[n].at + TurnLimit /\ wrun[n].row = "open"
    /\ wrun' = [wrun EXCEPT ![n].turn = "aborting", ![n].row = "ended", ![n].end = "stopped"]
    /\ UNCHANGED <<slotNow, slotRan, job, wakeRow, waker, missed, wakeSpent>>

AbortLands(n) ==
    /\ wrun[n].turn = "aborting"
    /\ wrun' = [wrun EXCEPT ![n].turn = "over"]
    /\ UNCHANGED <<slotNow, slotRan, job, wakeRow, waker, missed, wakeSpent>>

\* The node dies, or the run's end does not reach the gateway.
TurnLost(n) ==
    /\ wrun[n].turn = "going" /\ WakeFault
    /\ wrun' = [wrun EXCEPT ![n].turn = "over"]
    /\ UNCHANGED <<slotNow, slotRan, job, wakeRow, waker, missed>>

\* sweepStaleRuns ends the row and settles nothing.
SweepWake(n) ==
    /\ wrun[n].row = "open" /\ slotNow > wrun[n].at + Stale
    /\ wrun' = [wrun EXCEPT ![n].row = "ended"]
    /\ UNCHANGED <<slotNow, slotRan, job, wakeRow, waker, missed, wakeSpent>>

-----------------------------------------------------------------------------
(***************************************************************************)
(* Its settlement                                                          *)
(***************************************************************************)
SettleReads(n) ==
    /\ wrun[n].end # "none" /\ wrun[n].seen = {}
    /\ wrun' = [wrun EXCEPT ![n].seen = {wakeRow}]
    /\ UNCHANGED <<slotNow, slotRan, job, wakeRow, waker, missed, wakeSpent>>

\* settleWake: a wake that ended well counts so if its notes are not older than
\* its start; a failure backs off.
Settled(row, end) ==
    LET failed == row.failures + 1
        wrote == row.finished # Unset /\ row.last # Unset /\ row.finished >= row.last
    IN CASE end = "ok" /\ wrote -> [failures |-> 0, next |-> Unset]
         [] end = "error" -> [failures |-> failed, next |-> slotNow + Sooner(2 ^ failed, MaxSleep)]
         [] OTHER -> [failures |-> failed, next |-> slotNow + 2]

SettleWrites(n) ==
    \E row \in wrun[n].seen :
       LET s == Settled(row, wrun[n].end) IN
       /\ wakeRow' = [wakeRow EXCEPT !.failures = s.failures, !.next = IF s.next = Unset THEN @ ELSE s.next]
       /\ wrun' = [wrun EXCEPT ![n].end = "none", ![n].seen = {}]
       /\ missed' = IF wrun[n].end = "ok" /\ wrun[n].noted THEN 0 ELSE missed + 1
       /\ UNCHANGED <<slotNow, slotRan, job, waker, wakeSpent>>

-----------------------------------------------------------------------------
WakerStep(w) ==
    \/ Gate(w) \/ LookForOpen(w) \/ OpenWakeRun(w) \/ RefuseWake(w) \/ NoteStart(w) \/ DispatchWake(w)
    \/ FailReturns(w)
WakeRunStep(n) ==
    \/ \E end \in {"ok", "error", "stopped"} : TurnEnds(n, end)
    \/ WallClock(n) \/ AbortLands(n) \/ SweepWake(n) \/ SettleReads(n) \/ SettleWrites(n)

WakeNext ==
    \/ SlotPasses \/ EditWakeJob
    \/ \E w \in Waker : RoundWakes(w) \/ AskNow(w) \/ WakerStep(w) \/ WakeFails(w)
    \/ \E n \in WakeRun : WakeRunStep(n) \/ FinishRoundTool(n) \/ TurnLost(n)

WakeSpec == WakeInit /\ [][WakeNext]_wakeVars

-----------------------------------------------------------------------------
(***************************************************************************)
(* Properties                                                              *)
(***************************************************************************)
WakeTypeOK ==
    /\ slotNow \in 0..MaxSlots /\ slotRan \in Unset..slotNow /\ job \in 0..MaxJobEdits
    /\ wakeRow \in [next : Int, last : Unset..slotNow, finished : Unset..slotNow, failures : Nat,
                    job : 0..job]
    /\ \A w \in Waker : waker[w].pc \in {"idle", "gate", "due", "clear", "opened", "noted", "failed"}
    /\ \A n \in WakeRun : /\ wrun[n].row \in {"none", "open", "ended"}
                          /\ wrun[n].turn \in {"none", "going", "aborting", "over"}
                          /\ wrun[n].end \in {"none", "ok", "error", "stopped"}
    /\ missed \in 0..Cardinality(WakeRun)

\* "One at a time": the turns of two wakes of an agent are not under way at once.
OneWakeRuns == Cardinality(GoingTurns) <= 1

\* The row's failures are the wakes since the last one that ended well with its
\* notes written; one that was lost and swept counts for nothing.
CountIsExact == (\A n \in WakeRun : wrun[n].end = "none") => wakeRow.failures = missed

\* It holds but for a wake that started while another settled, or whose notes
\* came while one started: "the failures since" then counts by the wrong notes.
FailuresCounted == wakeSpent.crossed \/ CountIsExact

WakesHold == OneWakeRuns /\ FailuresCounted
=============================================================================
