--------------------------- MODULE CronScheduler ----------------------------
(***************************************************************************)
(* One cron job: its row (src/db/cron-jobs.ts), the schedulers that poll   *)
(* it (gateway/slack/cron-scheduler.ts), which overlap when leadership     *)
(* moves, and the tools that edit it.  Dates are the minutes of a clock;   *)
(* the job is due every minute.  A replica follows the turns it dispatched *)
(* and hears the end of every turn of the job's session that it follows.   *)
(***************************************************************************)
EXTENDS Naturals, FiniteSets

CONSTANTS
    CReplica,     \* gateways
    MaxTime,      \* bound: the last minute
    MaxRuns,      \* bound: claims
    MaxEdits,     \* bound: edits of the job by a user
    MaxCronFaults \* bound: stops, crashes, failed sends, lost replies, foreign and unheard ends

NoReplica == "no replica"

ASSUME CronAssumption ==
    /\ NoReplica \notin CReplica
    /\ {MaxTime, MaxRuns, MaxEdits, MaxCronFaults} \subseteq Nat

VARIABLES
    minute,
    cronRow,   \* next_run_at, paused, active
    leading,   \* the replicas whose scheduler is started
    polls,     \* occurrences ticks have read, and asked to claim
    running,   \* running[r]: the job is in the scheduler's #running
    run,       \* run[i]: the i-th claim's #execute
    cronSpent

cronVars == <<minute, cronRow, leading, polls, running, run, cronSpent>>

Run == 1..MaxRuns
CronFault == cronSpent.faults < MaxCronFaults /\ cronSpent' = [cronSpent EXCEPT !.faults = @ + 1]

CronInit ==
    /\ minute = 0 /\ leading = {} /\ polls = {}
    /\ cronRow = [next |-> 0, paused |-> FALSE, active |-> TRUE]
    /\ running = [r \in CReplica |-> FALSE]
    /\ run = [i \in Run |-> [by |-> NoReplica, seen |-> 0, to |-> 0, pc |-> "none",
                             hears |-> FALSE, turn |-> "none", late |-> FALSE]]
    /\ cronSpent = [faults |-> 0, edits |-> 0]

NextRun == minute + 1
Due == cronRow.active /\ ~cronRow.paused /\ cronRow.next <= minute
Fresh == {i \in Run : run[i].pc = "none"}
FirstFresh == CHOOSE i \in Fresh : \A j \in Fresh : i <= j

MinutePasses == /\ minute < MaxTime /\ minute' = minute + 1
                /\ UNCHANGED <<cronRow, leading, polls, running, run, cronSpent>>

-----------------------------------------------------------------------------
(***************************************************************************)
(* The scheduler                                                           *)
(***************************************************************************)
StartCron(r) == /\ r \notin leading /\ leading' = leading \cup {r}
                /\ UNCHANGED <<minute, cronRow, polls, running, run, cronSpent>>

\* A tick under way goes on.
StopCron(r) == /\ r \in leading /\ CronFault /\ leading' = leading \ {r}
               /\ UNCHANGED <<minute, cronRow, polls, running, run>>

\* One poll of a replica at a time: a minute is longer than a poll.
FindDue(r) ==
    /\ r \in leading /\ Due /\ \A p \in polls : p.by # r
    /\ polls' = polls \cup {[by |-> r, seen |-> cronRow.next, to |-> 0]}
    /\ UNCHANGED <<minute, cronRow, leading, running, run, cronSpent>>

\* A job that runs here is passed over; another is claimed up to its next run.
AskClaim(p) ==
    /\ p.to = 0
    /\ polls' = (polls \ {p}) \cup (IF running[p.by] THEN {} ELSE {[p EXCEPT !.to = NextRun]})
    /\ UNCHANGED <<minute, cronRow, leading, running, run, cronSpent>>

Claimable(p) == cronRow.next = p.seen /\ cronRow.active /\ ~cronRow.paused

\* claimDue.  When its reply is lost the poll fails: the occurrence is spent.
ClaimLands(p, heard) ==
    /\ p.to > 0 /\ Fresh # {}
    /\ polls' = polls \ {p}
    /\ cronRow' = IF Claimable(p) THEN [cronRow EXCEPT !.next = p.to] ELSE cronRow
    /\ IF Claimable(p) /\ heard
       THEN /\ running' = [running EXCEPT ![p.by] = TRUE]
            /\ run' = [run EXCEPT ![FirstFresh].by = p.by, ![FirstFresh].seen = p.seen,
                                  ![FirstFresh].to = p.to, ![FirstFresh].pc = "claimed"]
       ELSE UNCHANGED <<running, run>>
    /\ IF heard THEN UNCHANGED cronSpent ELSE CronFault
    /\ UNCHANGED <<minute, leading>>

\* A legacy job, a persona that is not live, a live session the job waits for,
\* or an exception: the occurrence is spent.
SkipOccurrence(i) ==
    /\ run[i].pc = "claimed"
    /\ run' = [run EXCEPT ![i].pc = "over"]
    /\ running' = [running EXCEPT ![run[i].by] = FALSE]
    /\ UNCHANGED <<minute, cronRow, leading, polls, cronSpent>>

SendTurn(i) ==
    /\ run[i].pc = "claimed"
    /\ run' = [run EXCEPT ![i].pc = "sending", ![i].hears = TRUE]
    /\ UNCHANGED <<minute, cronRow, leading, polls, running, cronSpent>>

SendLands(i) ==
    /\ run[i].pc = "sending"
    /\ run' = [run EXCEPT ![i].pc = "sent", ![i].turn = "queued"]
    /\ UNCHANGED <<minute, cronRow, leading, polls, running, cronSpent>>

\* Nothing was sent, or it was and the reply is lost.
SendFails(i) ==
    /\ run[i].pc \in {"sending", "sent"}
    /\ run' = [run EXCEPT ![i].pc = "failing", ![i].hears = FALSE, ![i].late = run[i].pc = "sent"]
    /\ CronFault
    /\ UNCHANGED <<minute, cronRow, leading, polls, running>>

\* Mutant: the row is put back and the job stays in #running.
ReleaseOccurrence_Running(i) ==
    /\ run[i].pc = "failing"
    /\ run' = [run EXCEPT ![i].pc = "over"]
    /\ cronRow' = IF cronRow.next = run[i].to THEN [cronRow EXCEPT !.next = run[i].seen] ELSE cronRow
    /\ UNCHANGED <<minute, leading, polls, running, cronSpent>>

\* releaseClaim gives the occurrence back, unless the row has moved on.
ReleaseOccurrence(i) ==
    /\ run[i].pc = "failing"
    /\ run' = [run EXCEPT ![i].pc = "over"]
    /\ cronRow' = IF cronRow.next = run[i].to THEN [cronRow EXCEPT !.next = run[i].seen] ELSE cronRow
    /\ running' = [running EXCEPT ![run[i].by] = FALSE]
    /\ UNCHANGED <<minute, leading, polls, cronSpent>>

-----------------------------------------------------------------------------
(***************************************************************************)
(* The end of a turn of the session                                        *)
(***************************************************************************)
\* Every run of replica r that listens takes it for its own end.
Deafened(r) == [i \in Run |-> IF run[i].by = r /\ run[i].hears
                              THEN [run[i] EXCEPT !.hears = FALSE, !.pc = IF @ = "sent" THEN "over" ELSE @]
                              ELSE run[i]]
Listens(r) == \E i \in Run : run[i].by = r /\ run[i].hears

CronTurnEnds(i) ==
    /\ run[i].turn = "queued"
    /\ run' = [Deafened(run[i].by) EXCEPT ![i].turn = "ended"]
    /\ running' = IF Listens(run[i].by) THEN [running EXCEPT ![run[i].by] = FALSE] ELSE running
    /\ UNCHANGED <<minute, cronRow, leading, polls, cronSpent>>

\* The follower stopped before the turn's end.
CronTurnEndsUnheard(i) ==
    /\ run[i].turn = "queued" /\ CronFault
    /\ run' = [run EXCEPT ![i].turn = "unheard"]
    /\ UNCHANGED <<minute, cronRow, leading, polls, running>>

\* A turn of somebody else's message.
ForeignTurnEnds(r) ==
    /\ Listens(r) /\ CronFault
    /\ run' = Deafened(r)
    /\ running' = [running EXCEPT ![r] = FALSE]
    /\ UNCHANGED <<minute, cronRow, leading, polls>>

CronCrash(r) ==
    /\ CronFault
    /\ leading' = leading \ {r}
    /\ polls' = {p \in polls : p.by # r}
    /\ running' = [running EXCEPT ![r] = FALSE]
    /\ run' = [i \in Run |-> IF run[i].by = r
                             THEN [run[i] EXCEPT !.pc = "over", !.hears = FALSE] ELSE run[i]]
    /\ UNCHANGED <<minute, cronRow>>

-----------------------------------------------------------------------------
(***************************************************************************)
(* The job's tools: pause, resume, edit the schedule, remove               *)
(***************************************************************************)
EditJob ==
    /\ cronRow.active /\ cronSpent.edits < MaxEdits
    /\ \/ cronRow' = [cronRow EXCEPT !.paused = TRUE]
       \/ cronRow' = [cronRow EXCEPT !.paused = FALSE, !.next = NextRun]
       \/ cronRow' = [cronRow EXCEPT !.next = NextRun]
       \/ cronRow' = [cronRow EXCEPT !.active = FALSE]
    /\ cronSpent' = [cronSpent EXCEPT !.edits = @ + 1]
    /\ UNCHANGED <<minute, leading, polls, running, run>>

-----------------------------------------------------------------------------
RunStep(i) == \/ SkipOccurrence(i) \/ SendTurn(i) \/ SendLands(i) \/ SendFails(i)
              \/ ReleaseOccurrence(i) \/ CronTurnEnds(i) \/ CronTurnEndsUnheard(i)

CronNext ==
    \/ MinutePasses \/ EditJob
    \/ \E r \in CReplica : \/ StartCron(r) \/ StopCron(r) \/ FindDue(r)
                           \/ ForeignTurnEnds(r) \/ CronCrash(r)
    \/ \E p \in polls : AskClaim(p) \/ \E heard \in BOOLEAN : ClaimLands(p, heard)
    \/ \E i \in Run : RunStep(i)

CronSpec == CronInit /\ [][CronNext]_cronVars

\* A replica whose scheduler runs polls every minute, its database and its bus
\* answer, a turn ends, and some replica leads.
CronFairness ==
    /\ WF_cronVars(\E r \in CReplica : leading = {} /\ StartCron(r))
    /\ \A r \in CReplica : /\ WF_cronVars(FindDue(r))
                            /\ WF_cronVars(\E p \in polls : p.by = r /\ AskClaim(p))
                            /\ WF_cronVars(\E p \in polls : p.by = r /\ ClaimLands(p, TRUE))
    /\ \A i \in Run : /\ WF_cronVars(SendTurn(i) \/ SendLands(i) \/ ReleaseOccurrence(i))
                      /\ WF_cronVars(CronTurnEnds(i))

CronFairSpec == CronSpec /\ CronFairness

-----------------------------------------------------------------------------
(***************************************************************************)
(* Properties                                                              *)
(***************************************************************************)
CronTypeOK ==
    /\ minute \in 0..MaxTime /\ leading \subseteq CReplica
    /\ cronRow \in [next : 0..(MaxTime + 1), paused : BOOLEAN, active : BOOLEAN]
    /\ polls \subseteq [by : CReplica, seen : 0..MaxTime, to : 0..(MaxTime + 1)]
    /\ running \in [CReplica -> BOOLEAN]
    /\ run \in [Run -> [by : CReplica \cup {NoReplica}, seen : 0..MaxTime, to : 0..(MaxTime + 1),
                        pc : {"none", "claimed", "sending", "sent", "failing", "over"},
                        hears : BOOLEAN, turn : {"none", "queued", "ended", "unheard"}, late : BOOLEAN]]
    /\ cronSpent \in [faults : 0..MaxCronFaults, edits : 0..MaxEdits]

\* An occurrence is dispatched once, whoever polls it, whatever is edited and
\* whoever dies in between; twice only after a send failed once it had landed.
OccurrenceOnce ==
    \A i, j \in {k \in Run : run[k].turn # "none"} :
        i < j /\ run[i].seen = run[j].seen => run[i].late

\* A job never stays in #running with nothing left that takes it out: a run
\* before its send, one whose send failed, or a listener.
RunningIsAnswered ==
    \A r \in CReplica : running[r] => \E i \in Run : /\ run[i].by = r
                                                     /\ run[i].hears \/ run[i].pc \in {"claimed", "failing"}

\* An occurrence is dispatched once and leaves its job free for the next.
OccurrencesRunOnce == OccurrenceOnce /\ RunningIsAnswered

Unheard == \E i \in Run : run[i].turn = "unheard"

\* A due job is claimed, whatever happened to its earlier runs, unless the end
\* of a turn was never heard.
DueIsTaken ==
    \A d \in 0..MaxTime :
        (Due /\ cronRow.next = d) ~> (~Due \/ cronRow.next # d \/ Fresh = {} \/ Unheard)

\* "Same-job re-entry is still guarded by #running in #tick": the turns of two
\* occurrences that one replica dispatched are never both unfinished.  They
\* are, once the end of somebody else's turn was taken for the first one's.
RunsDontOverlap ==
    \A i, j \in Run : i # j /\ run[i].by = run[j].by => ~(run[i].turn = "queued" /\ run[j].turn = "queued")

\* "Nothing was dispatched, so give the occurrence back": an occurrence given
\* back was not dispatched.
GivenBackUndispatched ==
    [][\A i \in Run : run[i].pc = "failing" /\ run'[i].pc = "over" /\ cronRow'.next < cronRow.next
            => run[i].turn = "none"]_cronVars

\* An unheard end does not keep the job from its later occurrences.
NextOccurrenceRuns ==
    \A d \in 0..MaxTime : (Due /\ cronRow.next = d) ~> (~Due \/ cronRow.next # d \/ Fresh = {})
=============================================================================
