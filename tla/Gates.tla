------------------------------- MODULE Gates --------------------------------
(***************************************************************************)
(* A human gate: a tool permission (src/gateway/slack/permission-gate.ts), *)
(* an approval (approval-gate.ts) or an MCP connect card (core/gateway.ts), *)
(* over the durable row of db/pending-gates.ts.  The asker waits in the    *)
(* gateway process that opened the gate ("perm", "approval"), or is a node *)
(* that long-polls /v1/pending ("permPoll", "approvalPoll").  Any replica  *)
(* takes a click.                                                          *)
(*                                                                         *)
(* Gates share nothing, so a behaviour is about one gate.  An await in a   *)
(* handler ends a step.                                                    *)
(***************************************************************************)
EXTENDS Naturals

CONSTANTS
    GateReplica, \* gateway processes
    Clicks,      \* bound: clicks on the card
    GateKinds,   \* kinds of gate explored
    HasBus,      \* Redis is configured: settled gates are published
    Lossy,       \* a subscription or a publish may fail
    Purges,      \* rows settled 24 h ago are deleted
    MaxCrash,    \* bound: processes that die
    NoReplica

ASSUME GatesAssumption ==
    /\ NoReplica \notin GateReplica
    /\ {HasBus, Lossy, Purges} \subseteq BOOLEAN
    /\ MaxCrash \in Nat
    /\ GateKinds \subseteq {"perm", "approval", "permPoll", "approvalPoll", "connect"}

VARIABLES
    ask,      \* the asker: its kind, its process, its progress
    row,      \* the row of pending_gates
    waiter,   \* #pending, the subscription and the timer of the asker's process
    answer,   \* what the asker was told
    card,     \* the Slack message
    click,    \* click[c]: the handler of click c
    wake,     \* a publish is on its way to the subscription
    cancel,   \* an un-awaited resolve(cancelled) is on its way to the database
    audits,   \* audit entries about the row's end
    verdict,  \* history: the first settled status of the row
    gateCrashes

gateVars == <<ask, row, waiter, answer, card, click, wake, cancel, audits,
              verdict, gateCrashes>>

Settled == {"approved", "denied", "expired", "cancelled"}
NoWaiter == [parked |-> FALSE, subscribed |-> FALSE, timer |-> FALSE]
NoClick == [at |-> NoReplica, verb |-> "deny", may |-> FALSE, held |-> FALSE,
            pc |-> "none"]

GateInit ==
    /\ \E k \in GateKinds :
          ask = [kind |-> k, home |-> NoReplica, pc |-> "idle", aborted |-> FALSE]
    /\ row = [status |-> "none", by |-> "nobody", overdue |-> FALSE]
    /\ waiter = NoWaiter
    /\ answer = "none"
    /\ card = "none"
    /\ click = [c \in Clicks |-> NoClick]
    /\ wake = FALSE /\ cancel = FALSE
    /\ audits = 0
    /\ verdict = "none"
    /\ gateCrashes = 0

InProcess == ask.kind \in {"perm", "approval"}
Polled == ask.kind \in {"permPoll", "approvalPoll"}
Approval == ask.kind \in {"approval", "approvalPoll"}

-----------------------------------------------------------------------------
(***************************************************************************)
(* The row                                                                 *)
(***************************************************************************)
\* resolve's UPDATE takes effect on a pending row only.
Resolves == row.status = "pending"

\* The winner of the UPDATE, and nobody else, writes the audit entry.
Resolve(status, by) ==
    /\ row' = [row EXCEPT !.status = status, !.by = by]
    /\ verdict' = status
    /\ audits' = audits + 1

KeepRow == UNCHANGED <<row, verdict, audits>>

PassDeadline ==
    /\ row.status # "none" /\ ~row.overdue
    /\ row' = [row EXCEPT !.overdue = TRUE]
    /\ UNCHANGED <<ask, waiter, answer, card, click, wake, cancel, audits,
                   verdict, gateCrashes>>

\* The five-minute sweep, and the one at boot.  It publishes nothing.
SweepExpired ==
    /\ row.overdue /\ Resolves
    /\ Resolve("expired", "system")
    /\ UNCHANGED <<ask, waiter, answer, card, click, wake, cancel, gateCrashes>>

\* A click's handler is between two of its steps.
Busy(c) == click[c].pc \in {"arrived", "stray", "deciding", "lost", "won", "answering"}

\* 24 hours outlast any handler, wake-up or poll under way.
PurgeSettled ==
    /\ Purges
    /\ row.status \in Settled
    /\ ~wake /\ ~cancel /\ (Polled => answer # "none")
    /\ \A c \in Clicks : ~Busy(c)
    /\ row' = [row EXCEPT !.status = "gone"]
    /\ UNCHANGED <<ask, waiter, answer, card, click, wake, cancel, audits,
                   verdict, gateCrashes>>

\* publish after a settlement wakes the asker's subscription.
Publish ==
    wake' \in (IF HasBus /\ waiter'.subscribed
               THEN IF Lossy THEN {wake, TRUE} ELSE {TRUE}
               ELSE {wake})

\* Mutant: a leg that finds the row gone tells the last thing it knew.
DecisionOf_Open(status) == IF status \in {"denied", "expired", "cancelled"} THEN "deny" ELSE "allow"

\* decisionFromPermRow and decisionFromApprovalRow.
DecisionOf(status) == IF status = "approved" THEN "allow" ELSE "deny"

\* A promise keeps its first resolution.
Tell(what) == answer' = IF answer = "none" THEN what ELSE answer

\* #pending.delete, with the unsubscription and the cleared timer.
Unpark == waiter' = NoWaiter

\* Whoever deletes the entry tells the asker.
Release(what) ==
    IF waiter.parked
    THEN Unpark /\ Tell(what)
    ELSE UNCHANGED <<waiter, answer>>

-----------------------------------------------------------------------------
(***************************************************************************)
(* Opening                                                                 *)
(***************************************************************************)
Insert(r) ==
    /\ ask.pc = "idle"
    /\ row' = [row EXCEPT !.status = "pending"]
    /\ ask' = [ask EXCEPT !.home = r, !.pc = IF InProcess THEN "inserted" ELSE "listening"]
    /\ waiter' = [NoWaiter EXCEPT !.timer = ask.kind = "approvalPoll"]
    /\ UNCHANGED <<answer, card, click, wake, cancel, audits, verdict, gateCrashes>>

\* The waiter is in place before the card; the auto-deny timer is an approval's.
Park ==
    /\ ask.pc = "inserted"
    /\ waiter' = [parked |-> TRUE, subscribed |-> FALSE, timer |-> Approval]
    /\ ask' = [ask EXCEPT !.pc = IF HasBus THEN "parked" ELSE "listening"]
    /\ UNCHANGED <<row, answer, card, click, wake, cancel, audits, verdict,
                   gateCrashes>>

\* The abort listener is registered when the subscription is answered.
Subscribe ==
    /\ ask.pc = "parked"
    /\ \E on \in (IF Lossy THEN BOOLEAN ELSE {TRUE}) :
          waiter' = [waiter EXCEPT !.subscribed = on /\ waiter.parked]
    /\ ask' = [ask EXCEPT !.pc = "listening"]
    /\ UNCHANGED <<row, answer, card, click, wake, cancel, audits, verdict,
                   gateCrashes>>

PostCard ==
    /\ ask.pc = "listening"
    /\ card' = "buttons"
    /\ ask' = [ask EXCEPT !.pc = "posted"]
    /\ UNCHANGED <<row, waiter, answer, click, wake, cancel, audits, verdict,
                   gateCrashes>>

\* The card never reached Slack: both stores are torn down, the asker fails.
PostFails ==
    /\ ask.pc = "listening" /\ ask.kind # "connect"
    /\ ask' = [ask EXCEPT !.pc = "failed"]
    /\ waiter' = IF InProcess THEN NoWaiter ELSE waiter
    /\ Tell("deny")
    /\ cancel' = TRUE
    /\ UNCHANGED <<row, card, click, wake, audits, verdict, gateCrashes>>

-----------------------------------------------------------------------------
(***************************************************************************)
(* The asker's other ways out                                              *)
(***************************************************************************)
\* The turn is aborted.  Without its listener an in-process gate is not told.
Abort ==
    /\ ask.pc \notin {"idle", "failed", "dead"} /\ ask.kind # "connect"
    /\ ~ask.aborted /\ answer = "none"
    /\ ask' = [ask EXCEPT !.aborted = TRUE]
    /\ IF InProcess /\ ask.pc \in {"listening", "posted"} /\ waiter.parked
       THEN Unpark /\ Tell("deny") /\ cancel' = TRUE
       ELSE UNCHANGED <<waiter, answer, cancel>>
    /\ UNCHANGED <<row, card, click, wake, audits, verdict, gateCrashes>>

CancelLands ==
    /\ cancel
    /\ cancel' = FALSE
    /\ IF Resolves THEN Resolve("cancelled", "system") ELSE KeepRow
    /\ UNCHANGED <<ask, waiter, answer, card, click, wake, gateCrashes>>

\* The auto-deny timer.  An approved or denied row is left to the click's
\* handler, or to the subscription; any other end is told here.
TimerFires ==
    /\ waiter.timer /\ row.overdue
    /\ IF Resolves THEN Resolve("expired", "system") ELSE KeepRow
    /\ IF row.status \in {"approved", "denied"} \/ ~waiter.parked
       THEN waiter' = [waiter EXCEPT !.timer = FALSE] /\ UNCHANGED answer
       ELSE Unpark /\ Tell("deny")
    /\ UNCHANGED <<ask, card, click, wake, cancel, gateCrashes>>

\* The subscription's callback reads the row.
Wake ==
    /\ wake
    /\ wake' = FALSE
    /\ IF row.status \in Settled
       THEN Release(DecisionOf(row.status))
       ELSE UNCHANGED <<waiter, answer>>
    /\ UNCHANGED <<ask, row, card, click, cancel, audits, verdict, gateCrashes>>

\* One leg of the node's poll that ends it.
Poll ==
    /\ Polled /\ ask.pc = "posted" /\ answer = "none"
    /\ \/ ask.aborted \/ row.status \notin {"none", "pending"} \/ row.overdue
    /\ Tell(IF ask.aborted THEN "deny" ELSE DecisionOf(row.status))
    /\ UNCHANGED <<ask, row, waiter, card, click, wake, cancel, audits, verdict,
                   gateCrashes>>

-----------------------------------------------------------------------------
(***************************************************************************)
(* Clicks                                                                  *)
(***************************************************************************)
ClickArrives(c, r) ==
    /\ card # "none" /\ click[c].pc = "none"
    /\ \E verb \in (IF ask.kind = "connect" THEN {"allow"} ELSE {"allow", "deny"}),
          may \in BOOLEAN :
          click' = [click EXCEPT ![c] =
              [at |-> r, verb |-> verb, may |-> may, pc |-> "arrived",
               held |-> InProcess /\ ask.home = r /\ waiter.parked]]
    /\ UNCHANGED <<ask, row, waiter, answer, card, wake, cancel, audits, verdict,
                   gateCrashes>>

To(c, pc) == click' = [click EXCEPT ![c].pc = pc]

\* An in-process gate of this process whose waiter is gone.
Stray(c) == InProcess /\ ask.home = click[c].at /\ ~click[c].held

\* This process can wake the asker, or the asker polls.
Reachable(c) == click[c].held \/ ~InProcess \/ HasBus

\* Mutant: with the waiter at hand nobody asks who clicked.
Authorised_Foreign(c) == click[c].may \/ click[c].held

\* mayDecide, the approver list.
Authorised(c) == click[c].may

\* The handler reads the row, unless it is a permission's with the waiter at
\* hand, and authorises the clicker before anything is decided.
ClickReads(c) ==
    /\ click[c].pc = "arrived"
    /\ IF row.status # "pending" /\ (Approval \/ ~click[c].held)
       THEN /\ To(c, "stale")
            /\ IF Approval /\ click[c].held /\ row.status \notin {"approved", "denied"}
               THEN Release("deny") ELSE UNCHANGED <<waiter, answer>>
       ELSE /\ UNCHANGED <<waiter, answer>>
            /\ To(c, IF Stray(c) THEN "stray"
                     ELSE IF Authorised(c) /\ Reachable(c) THEN "deciding" ELSE "refused")
    /\ UNCHANGED <<ask, row, card, wake, cancel, audits, verdict, gateCrashes>>

\* Nothing is decided by a click on a stray, so anyone's will do.
ClickCancels(c) ==
    /\ click[c].pc = "stray"
    /\ To(c, "stale")
    /\ IF Resolves THEN Resolve("cancelled", "clicker") ELSE KeepRow
    /\ UNCHANGED waiter
    /\ Publish
    /\ UNCHANGED <<ask, answer, card, cancel, gateCrashes>>

ClickSettles(c) ==
    /\ click[c].pc = "deciding"
    /\ IF Resolves
       THEN /\ Resolve(IF click[c].verb = "deny" THEN "denied" ELSE "approved",
                       IF click[c].may THEN "approver" ELSE "clicker")
            /\ To(c, "won")
       ELSE KeepRow /\ To(c, "lost")
    /\ UNCHANGED <<ask, waiter, answer, card, wake, cancel, gateCrashes>>

\* A sweep or an abort settled the row under the live waiter.
ClickLost(c) ==
    /\ click[c].pc = "lost"
    /\ To(c, "stale")
    /\ IF click[c].held /\ row.status \in {"expired", "cancelled"}
       THEN Release("deny") ELSE UNCHANGED <<waiter, answer>>
    /\ UNCHANGED <<ask, row, card, wake, cancel, audits, verdict, gateCrashes>>

\* Mutant: a click that wins on another process does not publish.
ClickPublishes_Quiet(c) ==
    /\ click[c].pc = "won"
    /\ IF click[c].held THEN Unpark ELSE UNCHANGED waiter
    /\ To(c, "answering")
    /\ UNCHANGED <<ask, row, answer, card, wake, cancel, audits, verdict, gateCrashes>>

ClickPublishes(c) ==
    /\ click[c].pc = "won"
    /\ IF click[c].held THEN Unpark ELSE UNCHANGED waiter
    /\ Publish
    /\ To(c, "answering")
    /\ UNCHANGED <<ask, row, answer, card, cancel, audits, verdict, gateCrashes>>

\* The card is rewritten; the process that held the waiter tells the asker.
ClickAnswers(c) ==
    /\ click[c].pc = "answering"
    /\ To(c, "decided")
    /\ card' = "decided"
    /\ IF click[c].held THEN Tell(click[c].verb) ELSE UNCHANGED answer
    /\ UNCHANGED <<ask, row, waiter, wake, cancel, audits, verdict, gateCrashes>>

-----------------------------------------------------------------------------
\* A process dies.  Its successor has another INSTANCE_ID, so the gate is
\* nobody's own; an asker in the process is gone with it.
GateCrash(r) ==
    /\ gateCrashes < MaxCrash
    /\ gateCrashes' = gateCrashes + 1
    /\ click' = [c \in Clicks |->
          IF click[c].at = r THEN [click[c] EXCEPT !.pc = "dead"] ELSE click[c]]
    /\ IF ask.home = r
       THEN /\ ask' = [ask EXCEPT !.home = NoReplica,
                         !.pc = IF InProcess \/ @ # "posted" THEN "dead" ELSE @]
            /\ Unpark
            /\ wake' = FALSE /\ cancel' = FALSE
       ELSE UNCHANGED <<ask, waiter, wake, cancel>>
    /\ UNCHANGED <<row, answer, card, audits, verdict>>

Opening == Park \/ Subscribe \/ PostCard \/ PostFails \/ \E r \in GateReplica : Insert(r)
Handler(c) ==
    ClickReads(c) \/ ClickCancels(c) \/ ClickSettles(c) \/ ClickLost(c)
    \/ ClickPublishes(c) \/ ClickAnswers(c)
Delivery == Wake \/ Poll \/ TimerFires \/ CancelLands

GateNext ==
    \/ PassDeadline \/ SweepExpired \/ PurgeSettled
    \/ Opening \/ Abort \/ Delivery
    \/ \E c \in Clicks : Handler(c) \/ \E r \in GateReplica : ClickArrives(c, r)
    \/ \E r \in GateReplica : GateCrash(r)

GateSpec == GateInit /\ [][GateNext]_gateVars

\* Handlers run on, deadlines pass, nodes poll, and the sweep recurs.  People
\* need not click, nor turns abort.
GateFairSpec ==
    /\ GateSpec
    /\ WF_gateVars(PassDeadline) /\ WF_gateVars(SweepExpired)
    /\ WF_gateVars(Opening) /\ WF_gateVars(Wake) /\ WF_gateVars(Poll)
    /\ WF_gateVars(TimerFires) /\ WF_gateVars(CancelLands)
    /\ \A c \in Clicks : WF_gateVars(Handler(c))
-----------------------------------------------------------------------------
(***************************************************************************)
(* Properties                                                              *)
(***************************************************************************)
\* Every variable keeps its type; the row is settled by a listed actor.
GateTypeOK ==
    /\ ask.kind \in GateKinds /\ ask.home \in GateReplica \cup {NoReplica}
    /\ ask.pc \in {"idle", "inserted", "parked", "listening", "posted", "failed", "dead"}
    /\ ask.aborted \in BOOLEAN
    /\ row.status \in Settled \cup {"none", "pending", "gone"}
    /\ row.by \in {"nobody", "system", "clicker", "approver"} /\ row.overdue \in BOOLEAN
    /\ waiter \in [parked : BOOLEAN, subscribed : BOOLEAN, timer : BOOLEAN]
    /\ answer \in {"none", "allow", "deny"} /\ card \in {"none", "buttons", "decided"}
    /\ click \in [Clicks -> [at : GateReplica \cup {NoReplica}, verb : {"allow", "deny"},
                   may : BOOLEAN, held : BOOLEAN,
                   pc : {"none", "arrived", "stray", "deciding", "lost", "won", "answering",
                         "stale", "refused", "decided", "dead"}]]
    /\ {wake, cancel} \subseteq BOOLEAN
    /\ audits \in 0..2 /\ gateCrashes \in 0..MaxCrash
    /\ verdict \in Settled \cup {"none"}

\* Only an approver's click approves or denies, on every path a click can
\* take: with the waiter at hand, on a sibling, on a polled row.
ApproverDecides == verdict \in {"approved", "denied"} => row.by = "approver"

\* However a row ends (click, stray click, abort, failed post, timer, sweep),
\* its end is audited exactly once.
AuditedOnce == audits = IF verdict = "none" THEN 0 ELSE 1

\* A gate ends once, and by whom it may: the audit names one end, and a verdict
\* is an approver's (pending-gates.ts:63-106).
GatesEndOnce == ApproverDecides /\ AuditedOnce

\* A decision made on another process cannot miss the waiter: while one is
\* still parked and subscribed, a publish is on its way or yet to be made.
NobodyLeftHanging ==
    waiter.parked /\ waiter.subscribed /\ verdict \in {"approved", "denied"}
        => wake \/ \E c \in Clicks : click[c].pc \in {"won", "dead"}

\* A click answered as stale has released the waiter it found, unless a
\* winning click is about to.
ReleasedByClick ==
    \A c \in Clicks :
        click[c].pc = "stale" /\ click[c].held /\ waiter.parked
            => \/ verdict \in {"approved", "denied"}
               \/ ask.kind = "perm" /\ row.status = "gone"

\* The gate, with its racing clicks, timers, sweeps and wake-ups, keeps the
\* promise of DecideOnce.
Once == INSTANCE DecideOnce WITH verdict <- verdict, answer <- answer
ImplementsDecideOnce == Once!OnceSpec

\* What is still to come by itself, once the card is posted: the deadline, the
\* sweep, a wake-up, a cancellation, the timer, the node's poll, and the handlers
\* of clicks already made.
StillToCome ==
    \/ row.status # "none" /\ ~row.overdue
    \/ row.overdue /\ (Resolves \/ waiter.timer)
    \/ wake \/ cancel
    \/ Polled /\ answer = "none" /\ (ask.aborted \/ row.status \notin {"none", "pending"} \/ row.overdue)
    \/ \E c \in Clicks : Busy(c)

\* A node that polls is answered, whatever publishes or processes are lost:
\* when nothing can happen by itself any more, and nobody clicks, it has its
\* answer.  (Such steps are finitely many, so it always gets there.)
PollerAnswered == Polled /\ ask.pc = "posted" /\ ~StillToCome => answer # "none"

\* An approval asked in-process is answered by a click or by its timer.
ApprovalAnswered ==
    ask.kind = "approval" /\ ask.pc = "posted" /\ gateCrashes = 0 /\ ~StillToCome => answer # "none"

\* Whoever asked hears the outcome, wherever it was decided and whoever settled
\* the row under it (permission-gate.ts:776-793, approval-gate.ts:178-209).
AskersAnswered == NobodyLeftHanging /\ ReleasedByClick /\ PollerAnswered /\ ApprovalAnswered

\* gate-bus.ts:5 "a missed publish costs one poll interval, never a decision".
DecisionReachesWaiter ==
    verdict \in {"approved", "denied"} /\ waiter.subscribed /\ ~ask.aborted
        ~> ~waiter.parked \/ ask.aborted

\* permission-gate.ts:794 "Honor abort signal": an aborted turn leaves no prompt
\* parked.  It can: the listener is registered two awaits after the insert, and
\* an abort before that is not looked at.
AbortedNotParked == ask.aborted /\ ask.pc = "posted" => ~waiter.parked

\* pending.ts:66 "a gate that can never resolve": a gate approved is not one
\* whose asker was told no, unless the turn was aborted.
ApprovedNotRefused == verdict = "approved" /\ ~ask.aborted => answer # "deny"
=============================================================================
