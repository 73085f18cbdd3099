------------------------------ MODULE Promises ------------------------------
(***************************************************************************)
(* Keeping one promise (src/proactive/promises.ts): its row                *)
(* (db/commitments.ts), the claims of its checks (db/background-slots.ts), *)
(* the background scheduler that checks it on the leading replica, the     *)
(* next leader once that one died, and the saves of the promise's page     *)
(* that re-date or settle it meanwhile.  An event promise is polled until  *)
(* it would expire; a time promise is checked at its time and once more at *)
(* its expiry.                                                             *)
(***************************************************************************)
EXTENDS Integers, FiniteSets

CONSTANTS
    Scheduler,   \* the replicas that may lead
    Poll,        \* SLAUDE_PROMISE_POLL_MINUTES
    Expire,      \* SLAUDE_PROMISE_EXPIRE_HOURS
    BusyRetry,   \* BUSY_RETRY_MS
    StaleClaim,  \* STALE_CLAIM_MS
    Quiet,       \* the instants of the beneficiary's quiet hours
    Overlap,     \* an earlier leader's tick may still be under way
    MaxNow,      \* bound: the last instant
    LastTrouble, \* bound: the last instant of a re-date, a refusal or a mishap
    MaxRedates,  \* bound: saves of the page with another due
    MaxHolds,    \* bound: busy threads and budgets that refuse
    MaxMishaps   \* bound: deaths and failed calls

ASSUME PromiseAssumption ==
    /\ {Poll, Expire, BusyRetry, StaleClaim, MaxNow} \subseteq Nat \ {0} /\ Overlap \in BOOLEAN
    /\ {LastTrouble, MaxRedates, MaxHolds, MaxMishaps} \subseteq Nat
    /\ Quiet \subseteq 0..(MaxNow - 1)

VARIABLES
    promiseNow,   \* the clock
    promise,      \* the row
    claims,       \* claims[n]: when the check due at n was claimed
    checker,      \* checker[s]: where s's runDueCommitments stands
    checks,       \* the check turns that went out
    lines,        \* the dues whose beneficiary was told the fixed line
    promiseSpent

promiseVars == <<promiseNow, promise, claims, checker, checks, lines, promiseSpent>>

Instant == 0..MaxNow
Unclaimed == -1
AtRest == [pc |-> "idle", t |-> 0, row |-> [status |-> "open"]]
Live == {s \in Scheduler : checker[s].pc # "dead"}
LaterOf(a, b) == IF a > b THEN a ELSE b
Mishap == /\ promiseSpent.mishaps < MaxMishaps /\ promiseNow <= LastTrouble
          /\ promiseSpent' = [promiseSpent EXCEPT !.mishaps = @ + 1]
Hold == /\ promiseSpent.holds < MaxHolds /\ promiseNow <= LastTrouble
        /\ promiseSpent' = [promiseSpent EXCEPT !.holds = @ + 1]

\* parseDue: when a due saved now is checked first, and when it expires.
Dues(kind) == IF kind = "event" THEN {[next |-> promiseNow + Poll, expires |-> promiseNow + Expire]}
              ELSE {[next |-> t, expires |-> t + Expire] : t \in promiseNow..(promiseNow + 1)}

PromiseInit ==
    /\ promiseNow = 0
    /\ \E kind \in {"time", "event"} :
          promise = [kind |-> kind, status |-> "open", due |-> 0, checks |-> 0,
                     next |-> IF kind = "event" THEN Poll ELSE 1,
                     expires |-> IF kind = "event" THEN Expire ELSE 1 + Expire]
    /\ claims = [n \in Instant |-> Unclaimed]
    /\ checker = [s \in Scheduler |-> AtRest]
    /\ checks = {} /\ lines = {}
    /\ promiseSpent = [redates |-> 0, holds |-> 0, mishaps |-> 0, crossed |-> FALSE]

Goes(s, pc) == checker' = [checker EXCEPT ![s] = IF pc \in {"idle", "dead"} THEN [AtRest EXCEPT !.pc = pc] ELSE [@ EXCEPT !.pc = pc]]
T(s) == checker[s].t
Row(s) == checker[s].row
At(s, pc) == checker[s].pc = pc

\* reschedule: only an open row moves.
MovedTo(next) == promise' = IF promise.status = "open" THEN [promise EXCEPT !.next = next] ELSE promise
Leaves(s, next) == MovedTo(next) /\ Goes(s, "idle")

\* isLastCheck, of the row as it was read.
IsLast(s) == IF Row(s).kind = "time" THEN Row(s).checks >= 1 \/ T(s) >= Row(s).expires
             ELSE T(s) + Poll >= Row(s).expires

\* Time passes; a tick that is under way takes less than a stale claim does.
PromiseTime ==
    /\ promiseNow < MaxNow
    /\ \A s \in Live : ~At(s, "idle") => promiseNow < T(s) + StaleClaim
    /\ promiseNow' = promiseNow + 1
    /\ UNCHANGED <<promise, claims, checker, checks, lines, promiseSpent>>

-----------------------------------------------------------------------------
(***************************************************************************)
(* The page of the promise                                                 *)
(***************************************************************************)
\* upsertOpen with another due: a new schedule, and its checks from none.
Redate ==
    /\ promise.status = "open" /\ promiseSpent.redates < MaxRedates /\ promiseNow <= LastTrouble
    /\ \E d \in Dues(promise.kind) :
       promise' = [promise EXCEPT !.due = @ + 1, !.next = d.next, !.expires = d.expires, !.checks = 0]
    /\ promiseSpent' = [promiseSpent EXCEPT !.redates = @ + 1,
                                            !.crossed = @ \/ \E s \in Live : ~At(s, "idle")]
    /\ UNCHANGED <<promiseNow, claims, checker, checks, lines>>

\* A page that says done or dropped closes an open row and an expired one.
SettlePage ==
    /\ promise.status \in {"open", "expired"}
    /\ promise' = [promise EXCEPT !.status = "settled"]
    /\ UNCHANGED <<promiseNow, claims, checker, checks, lines, promiseSpent>>

-----------------------------------------------------------------------------
(***************************************************************************)
(* A tick                                                                  *)
(***************************************************************************)
\* due: one replica leads at a time, and its ticks follow one another.
ReadDue(s) ==
    /\ s \in Live /\ At(s, "idle")
    /\ Overlap \/ \A r \in Live : At(r, "idle")
    /\ promise.status = "open" /\ promise.next <= promiseNow
    /\ checker' = [checker EXCEPT ![s] = [pc |-> "read", t |-> promiseNow, row |-> promise]]
    /\ UNCHANGED <<promiseNow, promise, claims, checks, lines, promiseSpent>>

DeferQuiet(s) ==
    /\ At(s, "read") /\ T(s) \in Quiet
    /\ Leaves(s, CHOOSE n \in Instant : /\ n > T(s) /\ n \notin Quiet
                                        /\ \A k \in (T(s) + 1)..(n - 1) : k \in Quiet)
    /\ UNCHANGED <<promiseNow, claims, checks, lines, promiseSpent>>

\* claimSlot: an insert that one caller wins.
ClaimSlot(s) ==
    /\ At(s, "read") /\ T(s) \notin Quiet /\ claims[Row(s).next] = Unclaimed
    /\ claims' = [claims EXCEPT ![Row(s).next] = T(s)]
    /\ Goes(s, "claimed")
    /\ UNCHANGED <<promiseNow, promise, checks, lines, promiseSpent>>

\* Mutant: a slot that is claimed is its claimer's, however long ago.
FindClaimed_Leaves(s) ==
    /\ At(s, "read") /\ T(s) \notin Quiet /\ claims[Row(s).next] # Unclaimed
    /\ Goes(s, "idle")
    /\ UNCHANGED <<promiseNow, promise, claims, checks, lines, promiseSpent>>

\* Claimed and never moved on: once the claim is stale the check is due anew.
FindClaimed(s) ==
    /\ At(s, "read") /\ T(s) \notin Quiet /\ claims[Row(s).next] # Unclaimed
    /\ IF T(s) - claims[Row(s).next] > StaleClaim THEN Leaves(s, T(s))
       ELSE Goes(s, "idle") /\ UNCHANGED promise
    /\ UNCHANGED <<promiseNow, claims, checks, lines, promiseSpent>>

\* A busy thread, or a check that is not the last without budget.
PutOff(s) ==
    /\ At(s, "claimed") /\ Hold
    /\ \/ Leaves(s, T(s) + BusyRetry)
       \/ ~IsLast(s) /\ Leaves(s, T(s) + Poll)
    /\ UNCHANGED <<promiseNow, claims, checks, lines>>

\* The last check has no budget, or could not be sent: one line tells them.
RefuseLast(s) ==
    /\ At(s, "claimed") /\ IsLast(s) /\ Hold
    /\ Goes(s, "telling")
    /\ UNCHANGED <<promiseNow, promise, claims, checks, lines>>

DispatchFails(s) ==
    /\ At(s, "claimed") /\ Mishap
    /\ IF IsLast(s) THEN Goes(s, "telling") /\ UNCHANGED promise ELSE Leaves(s, T(s) + Poll)
    /\ UNCHANGED <<promiseNow, claims, checks, lines>>

DispatchCheck(s) ==
    /\ At(s, "claimed")
    /\ checks' = checks \cup {[due |-> Row(s).due, slot |-> Row(s).next, by |-> s, last |-> IsLast(s),
                             early |-> T(s) < Row(s).expires]}
    /\ Goes(s, "sent")
    /\ UNCHANGED <<promiseNow, promise, claims, lines, promiseSpent>>

\* The line is posted or the post fails, which is logged.
TellLine(s) ==
    /\ At(s, "telling")
    /\ lines' = lines \cup {[due |-> Row(s).due, slot |-> Row(s).next, by |-> s]}
    /\ Goes(s, "expiring")
    /\ UNCHANGED <<promiseNow, promise, claims, checks, promiseSpent>>

\* markChecked: after the last check at the expiry, else at the next poll.
MarkChecked(s) ==
    /\ At(s, "sent")
    /\ LET next == IF IsLast(s) THEN Row(s).expires
                   ELSE IF Row(s).kind = "time" THEN LaterOf(Row(s).expires, T(s) + Poll) ELSE T(s) + Poll
       IN promise' = IF promise.status = "open" THEN [promise EXCEPT !.checks = @ + 1, !.next = next] ELSE promise
    /\ Goes(s, IF IsLast(s) THEN "expiring" ELSE "idle")
    /\ UNCHANGED <<promiseNow, claims, checks, lines, promiseSpent>>

CloseExpired(s) ==
    /\ At(s, "expiring")
    /\ promise' = IF promise.status = "open" THEN [promise EXCEPT !.status = "expired"] ELSE promise
    /\ Goes(s, "idle")
    /\ UNCHANGED <<promiseNow, claims, checks, lines, promiseSpent>>

\* A call throws.  Before the claim the row stays due; after it the finally
\* moves the row on, unless that throws too and the slot stays claimed.
CallFails(s) ==
    /\ checker[s].pc \in {"read", "claimed", "sent", "expiring"} /\ Mishap
    /\ \/ ~At(s, "read") /\ Leaves(s, T(s) + Poll)
       \/ Goes(s, "idle") /\ UNCHANGED promise
    /\ UNCHANGED <<promiseNow, claims, checks, lines>>

CheckerDies(s) ==
    /\ s \in Live /\ Live # {s} /\ Mishap
    /\ Goes(s, "dead")
    /\ UNCHANGED <<promiseNow, promise, claims, checks, lines>>

-----------------------------------------------------------------------------
CheckStep(s) ==
    \/ ReadDue(s) \/ DeferQuiet(s) \/ ClaimSlot(s) \/ FindClaimed(s)
    \/ DispatchCheck(s) \/ TellLine(s) \/ MarkChecked(s) \/ CloseExpired(s)

PromiseNext ==
    \/ PromiseTime \/ Redate \/ SettlePage
    \/ \E s \in Scheduler : CheckStep(s) \/ PutOff(s) \/ RefuseLast(s) \/ DispatchFails(s)
                            \/ CallFails(s) \/ CheckerDies(s)

PromiseSpec == PromiseInit /\ [][PromiseNext]_promiseVars

\* The clock goes on and the leading scheduler, or its successor, ticks.
PromiseFairness == WF_promiseVars(PromiseTime) /\ WF_promiseVars(\E s \in Scheduler : CheckStep(s))
PromiseFairSpec == PromiseSpec /\ PromiseFairness

-----------------------------------------------------------------------------
(***************************************************************************)
(* Properties                                                              *)
(***************************************************************************)
PromiseTypeOK ==
    /\ promiseNow \in Instant
    /\ promise \in [kind : {"time", "event"}, status : {"open", "expired", "settled"}, due : 0..MaxRedates,
                    checks : Nat, next : Nat, expires : Nat]
    /\ claims \in [Instant -> Instant \cup {Unclaimed}]
    /\ \A s \in Scheduler :
          checker[s].pc \in {"idle", "read", "claimed", "sent", "telling", "expiring", "dead"}
    /\ \A e \in checks \cup lines : e.due \in 0..promise.due /\ e.slot \in 0..promiseNow /\ e.by \in Scheduler

ChecksOf(due) == {c \in checks : c.due = due}
EndsOf(due) == {c \in ChecksOf(due) : c.last} \cup {l \in lines : l.due = due}

\* A claimed check goes out once, whoever dies or fails after it.
SlotCheckedOnce == \A c, d \in checks : c.slot = d.slot => c = d

\* The row counts the checks of its due that went out, but for those whose
\* scheduler died or failed before it counted them.
ChecksCounted ==
    promise.status # "settled" /\ ~promiseSpent.crossed =>
        Cardinality(ChecksOf(promise.due))
            <= promise.checks + promiseSpent.mishaps + Cardinality({s \in Scheduler : At(s, "sent")})

\* "The last check is dispatched" once, or the fixed line said once, and the
\* last check of a time promise comes "at its expiry".
LastIsLast ==
    ~promiseSpent.crossed =>
        /\ \A due \in 0..promise.due : Cardinality(EndsOf(due)) <= 1 + promiseSpent.mishaps
        /\ promise.kind = "time" => \A c \in checks : c.last => ~c.early

\* An expired promise had its last check, or its beneficiary the line.
RedateIsKept == promise.status = "expired" => EndsOf(promise.due) # {}

PromisesHold ==
    SlotCheckedOnce /\ ChecksCounted /\ LastIsLast /\ (promiseSpent.crossed \/ RedateIsKept)

\* Whoever dies, fails, is busy or out of budget meanwhile, the promise ends.
PromiseEnded == promise.status # "open"
=============================================================================
