-------------------------- MODULE GatePanelProofs --------------------------
(***************************************************************************)
(* Theorems about Gates, for any number of replicas and clicks, every kind *)
(* of gate, with crashes, sweeps, purges and lost publications: a gate     *)
(* ends once and by whom it may, keeps the promise of DecideOnce, and who  *)
(* asked hears it.                                                         *)
(*                                                                         *)
(* Theorems about PanelControl, for any number of replicas, operators,     *)
(* messages and replies, with any loss of broadcasts: a deferred message   *)
(* is replayed at most once although four parties drain its queue, and a   *)
(* replica that was told of the lock lets nothing past it.                 *)
(***************************************************************************)
EXTENDS Gates, PanelControl, TLAPS
-----------------------------------------------------------------------------
(***************************************************************************)
(* Gates                                                                   *)
(***************************************************************************)
\* The values of the variables that the argument reads.
AskPlace == {"idle", "inserted", "parked", "listening", "posted", "failed", "dead"}
RowStatus == Settled \cup {"none", "pending", "gone"}
ClickPlace == {"none", "arrived", "stray", "deciding", "lost", "won", "answering",
               "stale", "refused", "decided", "dead"}

GateShape ==
    /\ ask \in [kind : GateKinds, home : GateReplica \cup {NoReplica}, pc : AskPlace,
                aborted : BOOLEAN]
    /\ row \in [status : RowStatus, by : {"nobody", "system", "clicker", "approver"},
                overdue : BOOLEAN]
    /\ waiter \in [parked : BOOLEAN, subscribed : BOOLEAN, timer : BOOLEAN]
    /\ answer \in {"none", "allow", "deny"} /\ card \in {"none", "buttons", "decided"}
    /\ click \in [Clicks -> [at : GateReplica \cup {NoReplica}, verb : {"allow", "deny"},
                             may : BOOLEAN, held : BOOLEAN, pc : ClickPlace]]
    /\ wake \in BOOLEAN /\ cancel \in BOOLEAN
    /\ audits \in {0, 1} /\ gateCrashes \in 0..MaxCrash
    /\ verdict \in Settled \cup {"none"}

\* A gate that was not opened has no row.
UnopenedHasNoRow == ask.pc = "idle" => row.status = "none"

\* The verdict is the row's end, which a purge does not change.
VerdictIsRows ==
    /\ verdict = "none" <=> row.status \in {"none", "pending"}
    /\ row.status \in Settled => verdict = row.status

\* Only an authorised click gets to decide, and the one that won is the verdict.
DeciderMay == \A c \in Clicks : click[c].pc = "deciding" => click[c].may
WinnerDecided ==
    \A c \in Clicks : click[c].pc \in {"won", "answering"}
        => verdict = IF click[c].verb = "deny" THEN "denied" ELSE "approved"

GInv ==
    /\ GateShape /\ UnopenedHasNoRow /\ VerdictIsRows /\ DeciderMay /\ WinnerDecided
    /\ ApproverDecides /\ AuditedOnce

\* The invariant holds of a gate nobody has asked for.
LEMMA GInvInit == GateInit => GInv
<1> SUFFICES ASSUME GateInit PROVE GInv
  OBVIOUS
<1> USE GatesAssumption DEF GateInit, NoWaiter, NoClick, Settled
<1>1. /\ audits \in {0, 1} /\ gateCrashes \in 0..MaxCrash
      /\ answer = "none" /\ card = "none" /\ verdict = "none" /\ wake = FALSE /\ cancel = FALSE
  OBVIOUS
<1>2. ask \in [kind : GateKinds, home : GateReplica \cup {NoReplica}, pc : AskPlace, aborted : BOOLEAN]
  BY DEF AskPlace
<1>3. /\ row \in [status : RowStatus, by : {"nobody", "system", "clicker", "approver"}, overdue : BOOLEAN]
      /\ waiter \in [parked : BOOLEAN, subscribed : BOOLEAN, timer : BOOLEAN]
  BY DEF RowStatus
<1>4. click \in [Clicks -> [at : GateReplica \cup {NoReplica}, verb : {"allow", "deny"},
                           may : BOOLEAN, held : BOOLEAN, pc : ClickPlace]]
  BY DEF ClickPlace
<1>5. UnopenedHasNoRow /\ VerdictIsRows /\ ApproverDecides /\ AuditedOnce
  BY DEF UnopenedHasNoRow, VerdictIsRows, ApproverDecides, AuditedOnce
<1>6. DeciderMay /\ WinnerDecided
  BY DEF DeciderMay, WinnerDecided
<1> QED
  BY <1>1, <1>2, <1>3, <1>4, <1>5, <1>6 DEF GInv, GateShape

\* What a step that leaves the row and the clicks alone may change.
LEMMA AskerStep ==
    ASSUME GInv, UNCHANGED <<row, verdict, audits, click, gateCrashes>>,
           ask' \in [kind : GateKinds, home : GateReplica \cup {NoReplica}, pc : AskPlace \ {"idle"},
                     aborted : BOOLEAN] \/ ask' = ask,
           waiter' \in [parked : BOOLEAN, subscribed : BOOLEAN, timer : BOOLEAN],
           answer' \in {"none", "allow", "deny"}, card' \in {"none", "buttons", "decided"},
           wake' \in BOOLEAN, cancel' \in BOOLEAN
    PROVE  GInv'
BY DEF GInv, GateShape, UnopenedHasNoRow, VerdictIsRows, DeciderMay, WinnerDecided,
       ApproverDecides, AuditedOnce, AskPlace

\* The end of a pending row is its verdict, and its only one.
LEMMA ResolveStep ==
    ASSUME GInv, NEW status \in Settled, NEW by \in {"system", "clicker", "approver"},
           Resolves, Resolve(status, by), status \in {"approved", "denied"} => by = "approver",
           UNCHANGED <<ask, card, gateCrashes>>,
           waiter' \in [parked : BOOLEAN, subscribed : BOOLEAN, timer : BOOLEAN],
           answer' \in {"none", "allow", "deny"}, wake' \in BOOLEAN, cancel' \in BOOLEAN,
           click' \in [Clicks -> [at : GateReplica \cup {NoReplica}, verb : {"allow", "deny"},
                                  may : BOOLEAN, held : BOOLEAN, pc : ClickPlace]],
           \A c \in Clicks : /\ click'[c].verb = click[c].verb /\ click'[c].may = click[c].may
                             /\ click'[c].pc = "deciding" => click[c].pc = "deciding"
                             /\ click'[c].pc \in {"won", "answering"} =>
                                   \/ click'[c].pc = click[c].pc
                                   \/ status = IF click[c].verb = "deny" THEN "denied" ELSE "approved"
    PROVE  GInv'
<1>1. ~(verdict # "none") /\ \A c \in Clicks : click[c].pc \notin {"won", "answering"}
  BY DEF GInv, VerdictIsRows, Resolves, WinnerDecided
<1>a. row \in [status : RowStatus, by : {"nobody", "system", "clicker", "approver"}, overdue : BOOLEAN]
  BY DEF GInv, GateShape
<1>b. row' = [row EXCEPT !.status = status, !.by = by] /\ verdict' = status /\ audits' = audits + 1
  BY DEF Resolve
<1>c. audits' = 1
  BY <1>1, <1>b DEF GInv, AuditedOnce
<1>d. status \in RowStatus
  BY DEF RowStatus
<1>e. /\ row' \in [status : RowStatus, by : {"nobody", "system", "clicker", "approver"}, overdue : BOOLEAN]
      /\ row'.status = status /\ row'.by = by
  BY <1>a, <1>b, <1>d
<1>2. /\ row' \in [status : RowStatus, by : {"nobody", "system", "clicker", "approver"}, overdue : BOOLEAN]
      /\ row'.status = status /\ row'.by = by /\ verdict' = status /\ audits' = 1
  BY <1>b, <1>c, <1>e
<1>3. GateShape'
  BY <1>2 DEF GInv, GateShape
<1>4. UnopenedHasNoRow' /\ VerdictIsRows' /\ ApproverDecides' /\ AuditedOnce'
  BY <1>2 DEF GInv, UnopenedHasNoRow, VerdictIsRows, ApproverDecides, AuditedOnce, Resolves, Settled
<1>5. DeciderMay'
  BY DEF GInv, DeciderMay
<1>6. WinnerDecided'
  BY <1>1, <1>2 DEF WinnerDecided
<1> QED
  BY <1>3, <1>4, <1>5, <1>6 DEF GInv

\* A click's handler moves on and leaves the row alone.
LEMMA ClickStep ==
    ASSUME GInv, UNCHANGED <<ask, row, verdict, audits, gateCrashes>>,
           waiter' \in [parked : BOOLEAN, subscribed : BOOLEAN, timer : BOOLEAN],
           answer' \in {"none", "allow", "deny"}, card' \in {"none", "buttons", "decided"},
           wake' \in BOOLEAN, cancel' \in BOOLEAN,
           NEW c \in Clicks,
           NEW new \in [at : GateReplica \cup {NoReplica}, verb : {"allow", "deny"},
                        may : BOOLEAN, held : BOOLEAN, pc : ClickPlace],
           click' = [click EXCEPT ![c] = new],
           new.pc = "deciding" => new.may,
           new.pc \in {"won", "answering"} =>
               verdict = IF new.verb = "deny" THEN "denied" ELSE "approved"
    PROVE  GInv'
<1>1. \A d \in Clicks : click'[d] = IF d = c THEN new ELSE click[d]
  BY DEF GInv, GateShape
<1>2. GateShape'
  BY DEF GInv, GateShape
<1>3. DeciderMay' /\ WinnerDecided'
  BY <1>1 DEF GInv, DeciderMay, WinnerDecided
<1> QED
  BY <1>2, <1>3 DEF GInv, UnopenedHasNoRow, VerdictIsRows, ApproverDecides, AuditedOnce

\* The values a step may give the waiter and the answer keep their types.
LEMMA ReleaseTyped ==
    ASSUME GInv, NEW what \in {"allow", "deny"}
    PROVE  /\ Tell(what) => answer' \in {"none", "allow", "deny"}
           /\ Unpark => waiter' \in [parked : BOOLEAN, subscribed : BOOLEAN, timer : BOOLEAN]
           /\ Release(what) => /\ answer' \in {"none", "allow", "deny"}
                              /\ waiter' \in [parked : BOOLEAN, subscribed : BOOLEAN, timer : BOOLEAN]
           /\ Publish => wake' \in BOOLEAN
<1>1. /\ answer \in {"none", "allow", "deny"} /\ wake \in BOOLEAN
      /\ waiter \in [parked : BOOLEAN, subscribed : BOOLEAN, timer : BOOLEAN]
  BY DEF GInv, GateShape
<1>2. Tell(what) => answer' \in {"none", "allow", "deny"}
  BY <1>1 DEF Tell
<1>3. Unpark => waiter' \in [parked : BOOLEAN, subscribed : BOOLEAN, timer : BOOLEAN]
  BY DEF Unpark, NoWaiter
<1>4. Publish => wake' \in BOOLEAN
  BY <1>1 DEF Publish
<1> QED
  BY <1>1, <1>2, <1>3, <1>4 DEF Release

\* The steps that leave the row and the clicks alone.
LEMMA AskersMove ==
    ASSUME GInv, Park \/ Subscribe \/ PostCard \/ PostFails \/ Abort \/ Wake \/ Poll
    PROVE  GInv'
<1>1. /\ ask \in [kind : GateKinds, home : GateReplica \cup {NoReplica}, pc : AskPlace, aborted : BOOLEAN]
      /\ waiter \in [parked : BOOLEAN, subscribed : BOOLEAN, timer : BOOLEAN]
      /\ answer \in {"none", "allow", "deny"} /\ card \in {"none", "buttons", "decided"}
      /\ wake \in BOOLEAN /\ cancel \in BOOLEAN
  BY DEF GInv, GateShape
<1>2. "deny" \in {"allow", "deny"} /\ DecisionOf(row.status) \in {"allow", "deny"}
  BY DEF DecisionOf
<1>3. CASE Park
  <2>1. waiter' \in [parked : BOOLEAN, subscribed : BOOLEAN, timer : BOOLEAN]
    BY <1>3 DEF Park, Approval
  <2>2. ask' \in [kind : GateKinds, home : GateReplica \cup {NoReplica}, pc : AskPlace \ {"idle"}, aborted : BOOLEAN]
    BY <1>1, <1>3 DEF Park, AskPlace
  <2> QED
    BY <1>1, <1>3, <2>1, <2>2, AskerStep DEF Park
<1>4. CASE Subscribe
  <2>1. waiter' \in [parked : BOOLEAN, subscribed : BOOLEAN, timer : BOOLEAN]
    BY <1>1, <1>4 DEF Subscribe
  <2>2. ask' \in [kind : GateKinds, home : GateReplica \cup {NoReplica}, pc : AskPlace \ {"idle"}, aborted : BOOLEAN]
    BY <1>1, <1>4 DEF Subscribe, AskPlace
  <2> QED
    BY <1>1, <1>4, <2>1, <2>2, AskerStep DEF Subscribe
<1>5. CASE PostCard
  <2>1. ask' \in [kind : GateKinds, home : GateReplica \cup {NoReplica}, pc : AskPlace \ {"idle"}, aborted : BOOLEAN]
    BY <1>1, <1>5 DEF PostCard, AskPlace
  <2> QED
    BY <1>1, <1>5, <2>1, AskerStep DEF PostCard
<1>6. CASE PostFails
  <2>1. ask' \in [kind : GateKinds, home : GateReplica \cup {NoReplica}, pc : AskPlace \ {"idle"}, aborted : BOOLEAN]
    BY <1>1, <1>6 DEF PostFails, AskPlace
  <2>2. /\ waiter' \in [parked : BOOLEAN, subscribed : BOOLEAN, timer : BOOLEAN]
        /\ answer' \in {"none", "allow", "deny"}
    BY <1>1, <1>2, <1>6, ReleaseTyped DEF PostFails, NoWaiter
  <2> QED
    BY <1>1, <1>6, <2>1, <2>2, AskerStep DEF PostFails
<1>7. CASE Abort
  <2>1. ask' \in [kind : GateKinds, home : GateReplica \cup {NoReplica}, pc : AskPlace \ {"idle"}, aborted : BOOLEAN]
    BY <1>1, <1>7 DEF Abort
  <2>2. /\ waiter' \in [parked : BOOLEAN, subscribed : BOOLEAN, timer : BOOLEAN]
        /\ answer' \in {"none", "allow", "deny"} /\ cancel' \in BOOLEAN
    BY <1>1, <1>2, <1>7, ReleaseTyped DEF Abort
  <2> QED
    BY <1>1, <1>7, <2>1, <2>2, AskerStep DEF Abort
<1>8. CASE Wake
  <2>1. /\ waiter' \in [parked : BOOLEAN, subscribed : BOOLEAN, timer : BOOLEAN]
        /\ answer' \in {"none", "allow", "deny"}
    BY <1>1, <1>2, <1>8, ReleaseTyped DEF Wake
  <2> QED
    BY <1>1, <1>8, <2>1, AskerStep DEF Wake
<1>9. CASE Poll
  <2>1. answer' \in {"none", "allow", "deny"}
    BY <1>1, <1>2, <1>9, ReleaseTyped DEF Poll
  <2> QED
    BY <1>1, <1>9, <2>1, AskerStep DEF Poll
<1> QED
  BY <1>3, <1>4, <1>5, <1>6, <1>7, <1>8, <1>9

\* The steps that insert, age, end or purge the row without a click.
LEMMA RowMoves ==
    ASSUME GInv,
           \/ PassDeadline \/ SweepExpired \/ PurgeSettled \/ CancelLands \/ TimerFires
           \/ \E r \in GateReplica : Insert(r)
    PROVE  GInv'
<1>1. /\ row \in [status : RowStatus, by : {"nobody", "system", "clicker", "approver"}, overdue : BOOLEAN]
      /\ ask \in [kind : GateKinds, home : GateReplica \cup {NoReplica}, pc : AskPlace, aborted : BOOLEAN]
      /\ waiter \in [parked : BOOLEAN, subscribed : BOOLEAN, timer : BOOLEAN]
      /\ answer \in {"none", "allow", "deny"} /\ card \in {"none", "buttons", "decided"}
      /\ wake \in BOOLEAN /\ cancel \in BOOLEAN
      /\ click \in [Clicks -> [at : GateReplica \cup {NoReplica}, verb : {"allow", "deny"},
                               may : BOOLEAN, held : BOOLEAN, pc : ClickPlace]]
  BY DEF GInv, GateShape
<1>2. CASE PassDeadline
  <2>1. /\ row' \in [status : RowStatus, by : {"nobody", "system", "clicker", "approver"}, overdue : BOOLEAN]
        /\ row'.status = row.status /\ row'.by = row.by
    BY <1>1, <1>2 DEF PassDeadline
  <2>2. GateShape'
    BY <1>2, <2>1 DEF PassDeadline, GInv, GateShape
  <2> QED
    BY <1>2, <2>1, <2>2 DEF PassDeadline, GInv, UnopenedHasNoRow, VerdictIsRows, DeciderMay,
       WinnerDecided, ApproverDecides, AuditedOnce
<1>3. CASE SweepExpired
  BY <1>1, <1>3, ResolveStep DEF SweepExpired, Settled
<1>4. CASE PurgeSettled
  <2>1. /\ row' \in [status : RowStatus, by : {"nobody", "system", "clicker", "approver"}, overdue : BOOLEAN]
        /\ row'.status = "gone" /\ row'.by = row.by /\ row.status \in Settled
    BY <1>1, <1>4 DEF PurgeSettled, RowStatus
  <2>2. GateShape'
    BY <1>4, <2>1 DEF PurgeSettled, GInv, GateShape
  <2>3. UnopenedHasNoRow' /\ VerdictIsRows'
    BY <1>4, <2>1 DEF PurgeSettled, GInv, UnopenedHasNoRow, VerdictIsRows, Settled
  <2> QED
    BY <1>4, <2>1, <2>2, <2>3 DEF PurgeSettled, GInv, DeciderMay, WinnerDecided, ApproverDecides, AuditedOnce
<1>5. CASE CancelLands
  <2>1. CASE Resolves
    BY <1>1, <1>5, <2>1, ResolveStep DEF CancelLands, Settled
  <2>2. CASE ~Resolves
    BY <1>1, <1>5, <2>2, AskerStep DEF CancelLands, KeepRow
  <2> QED
    BY <2>1, <2>2
<1>6. CASE TimerFires
  <2>1. /\ waiter' \in [parked : BOOLEAN, subscribed : BOOLEAN, timer : BOOLEAN]
        /\ answer' \in {"none", "allow", "deny"}
    BY <1>1, <1>6, ReleaseTyped DEF TimerFires
  <2>2. CASE Resolves
    BY <1>1, <1>6, <2>1, <2>2, ResolveStep DEF TimerFires, Settled
  <2>3. CASE ~Resolves
    BY <1>1, <1>6, <2>1, <2>3, AskerStep DEF TimerFires, KeepRow
  <2> QED
    BY <2>2, <2>3
<1>7. ASSUME NEW r \in GateReplica, Insert(r) PROVE GInv'
  <2>1. /\ row' \in [status : RowStatus, by : {"nobody", "system", "clicker", "approver"}, overdue : BOOLEAN]
        /\ row'.status = "pending" /\ row'.by = row.by
    BY <1>1, <1>7 DEF Insert, RowStatus
  <2>2. ask' \in [kind : GateKinds, home : GateReplica \cup {NoReplica}, pc : AskPlace \ {"idle"}, aborted : BOOLEAN]
    BY <1>1, <1>7 DEF Insert, AskPlace
  <2>3. waiter' \in [parked : BOOLEAN, subscribed : BOOLEAN, timer : BOOLEAN]
    BY <1>7 DEF Insert, NoWaiter
  <2>4. GateShape'
    BY <1>7, <2>1, <2>2, <2>3 DEF Insert, GInv, GateShape, AskPlace
  <2>5. UnopenedHasNoRow' /\ VerdictIsRows'
    BY <1>7, <2>1, <2>2 DEF Insert, GInv, UnopenedHasNoRow, VerdictIsRows, Settled
  <2> QED
    BY <1>7, <2>1, <2>4, <2>5 DEF Insert, GInv, DeciderMay, WinnerDecided, ApproverDecides, AuditedOnce
<1> QED
  BY <1>2, <1>3, <1>4, <1>5, <1>6, <1>7

\* A click arrives, or its handler takes a step.
LEMMA ClickMoves ==
    ASSUME GInv, NEW c \in Clicks,
           Handler(c) \/ \E r \in GateReplica : ClickArrives(c, r)
    PROVE  GInv'
<1> DEFINE Moved(pc) == [click[c] EXCEPT !.pc = pc]
<1>1. /\ row \in [status : RowStatus, by : {"nobody", "system", "clicker", "approver"}, overdue : BOOLEAN]
      /\ waiter \in [parked : BOOLEAN, subscribed : BOOLEAN, timer : BOOLEAN]
      /\ answer \in {"none", "allow", "deny"} /\ card \in {"none", "buttons", "decided"}
      /\ wake \in BOOLEAN /\ cancel \in BOOLEAN
      /\ click \in [Clicks -> [at : GateReplica \cup {NoReplica}, verb : {"allow", "deny"},
                               may : BOOLEAN, held : BOOLEAN, pc : ClickPlace]]
  BY DEF GInv, GateShape
<1>2. ASSUME NEW pc \in ClickPlace
      PROVE  /\ Moved(pc) \in [at : GateReplica \cup {NoReplica}, verb : {"allow", "deny"},
                               may : BOOLEAN, held : BOOLEAN, pc : ClickPlace]
             /\ Moved(pc).pc = pc /\ Moved(pc).verb = click[c].verb /\ Moved(pc).may = click[c].may
             /\ To(c, pc) => click' = [click EXCEPT ![c] = Moved(pc)]
  BY <1>1 DEF To
<1> HIDE DEF Moved
<1>3. {"stale", "stray", "deciding", "refused", "won", "lost", "answering", "decided"} \subseteq ClickPlace
  BY DEF ClickPlace
<1>4. ASSUME NEW r \in GateReplica, ClickArrives(c, r) PROVE GInv'
  <2>1. PICK verb \in {"allow", "deny"}, may \in BOOLEAN :
          click' = [click EXCEPT ![c] = [at |-> r, verb |-> verb, may |-> may, pc |-> "arrived",
                      held |-> InProcess /\ ask.home = r /\ waiter.parked]]
    BY <1>4 DEF ClickArrives
  <2>2. [at |-> r, verb |-> verb, may |-> may, pc |-> "arrived",
         held |-> InProcess /\ ask.home = r /\ waiter.parked]
          \in [at : GateReplica \cup {NoReplica}, verb : {"allow", "deny"},
              may : BOOLEAN, held : BOOLEAN, pc : ClickPlace]
    BY <1>1 DEF ClickPlace, InProcess
  <2> QED
    BY <1>1, <1>4, <2>1, <2>2, ClickStep DEF ClickArrives
<1>5. CASE ClickReads(c)
  <2>1. /\ waiter' \in [parked : BOOLEAN, subscribed : BOOLEAN, timer : BOOLEAN]
        /\ answer' \in {"none", "allow", "deny"}
    BY <1>1, <1>5, ReleaseTyped DEF ClickReads
  <2>2. /\ UNCHANGED <<ask, row, card, wake, cancel, audits, verdict, gateCrashes>>
        /\ \/ To(c, "stale") \/ To(c, "stray") \/ To(c, "refused")
           \/ To(c, "deciding") /\ click[c].may
    BY <1>5 DEF ClickReads, Authorised
  <2> QED
    BY <1>1, <1>2, <1>3, <2>1, <2>2, ClickStep
<1>6. CASE ClickCancels(c)
  <2>1. To(c, "stale") /\ wake' \in BOOLEAN
    BY <1>6, ReleaseTyped DEF ClickCancels
  <2>2. CASE Resolves
    <3>1. \A d \in Clicks : click'[d] = IF d = c THEN Moved("stale") ELSE click[d]
      BY <1>1, <1>2, <1>3, <2>1
    <3>2. click' \in [Clicks -> [at : GateReplica \cup {NoReplica}, verb : {"allow", "deny"},
                               may : BOOLEAN, held : BOOLEAN, pc : ClickPlace]]
      BY <1>1, <1>2, <1>3, <2>1
    <3> QED
      BY <1>1, <1>2, <1>3, <1>6, <2>1, <2>2, <3>1, <3>2, ResolveStep DEF ClickCancels, Settled
  <2>3. CASE ~Resolves
    BY <1>1, <1>2, <1>3, <1>6, <2>1, <2>3, ClickStep DEF ClickCancels, KeepRow
  <2> QED
    BY <2>2, <2>3
<1>7. CASE ClickSettles(c)
  <2>1. click[c].may
    BY <1>7 DEF GInv, DeciderMay, ClickSettles
  <2>2. CASE Resolves
    <3> DEFINE end == IF click[c].verb = "deny" THEN "denied" ELSE "approved"
    <3>1. Resolve(end, "approver") /\ To(c, "won") /\ end \in Settled
      BY <1>7, <2>1, <2>2 DEF ClickSettles, Settled
    <3>2. \A d \in Clicks : click'[d] = IF d = c THEN Moved("won") ELSE click[d]
      BY <1>1, <1>2, <1>3, <3>1
    <3>3. click' \in [Clicks -> [at : GateReplica \cup {NoReplica}, verb : {"allow", "deny"},
                               may : BOOLEAN, held : BOOLEAN, pc : ClickPlace]]
      BY <1>1, <1>2, <1>3, <3>1
    <3>4. \A d \in Clicks : /\ click'[d].verb = click[d].verb /\ click'[d].may = click[d].may
                            /\ click'[d].pc = "deciding" => click[d].pc = "deciding"
                            /\ click'[d].pc \in {"won", "answering"} =>
                                  \/ click'[d].pc = click[d].pc
                                  \/ end = IF click[d].verb = "deny" THEN "denied" ELSE "approved"
      BY <1>2, <1>3, <3>2
    <3> HIDE DEF end
    <3> QED
      BY <1>1, <1>7, <2>2, <3>1, <3>3, <3>4, ResolveStep DEF ClickSettles
  <2>3. CASE ~Resolves
    BY <1>1, <1>2, <1>3, <1>7, <2>3, ClickStep DEF ClickSettles, KeepRow
  <2> QED
    BY <2>2, <2>3
<1>8. CASE ClickLost(c)
  <2>1. /\ waiter' \in [parked : BOOLEAN, subscribed : BOOLEAN, timer : BOOLEAN]
        /\ answer' \in {"none", "allow", "deny"}
    BY <1>1, <1>8, ReleaseTyped DEF ClickLost
  <2> QED
    BY <1>1, <1>2, <1>3, <1>8, <2>1, ClickStep DEF ClickLost
<1>9. CASE ClickPublishes(c)
  <2>1. /\ waiter' \in [parked : BOOLEAN, subscribed : BOOLEAN, timer : BOOLEAN]
        /\ wake' \in BOOLEAN
    BY <1>1, <1>9, ReleaseTyped DEF ClickPublishes
  <2>2. verdict = IF click[c].verb = "deny" THEN "denied" ELSE "approved"
    BY <1>9 DEF ClickPublishes, GInv, WinnerDecided
  <2> QED
    BY <1>1, <1>2, <1>3, <1>9, <2>1, <2>2, ClickStep DEF ClickPublishes
<1>10. CASE ClickAnswers(c)
  <2>1. answer' \in {"none", "allow", "deny"}
    BY <1>1, <1>10, ReleaseTyped DEF ClickAnswers
  <2> QED
    BY <1>1, <1>2, <1>3, <1>10, <2>1, ClickStep DEF ClickAnswers
<1> QED
  BY <1>4, <1>5, <1>6, <1>7, <1>8, <1>9, <1>10 DEF Handler

\* A process dies: its handlers stop, and with it the waiter it held.
LEMMA CrashMoves ==
    ASSUME GInv, NEW r \in GateReplica, GateCrash(r)
    PROVE  GInv'
<1>1. /\ ask \in [kind : GateKinds, home : GateReplica \cup {NoReplica}, pc : AskPlace, aborted : BOOLEAN]
      /\ waiter \in [parked : BOOLEAN, subscribed : BOOLEAN, timer : BOOLEAN]
      /\ wake \in BOOLEAN /\ cancel \in BOOLEAN
      /\ click \in [Clicks -> [at : GateReplica \cup {NoReplica}, verb : {"allow", "deny"},
                               may : BOOLEAN, held : BOOLEAN, pc : ClickPlace]]
  BY DEF GInv, GateShape
<1>2. /\ click' \in [Clicks -> [at : GateReplica \cup {NoReplica}, verb : {"allow", "deny"},
                               may : BOOLEAN, held : BOOLEAN, pc : ClickPlace]]
      /\ \A c \in Clicks : /\ click'[c].verb = click[c].verb /\ click'[c].may = click[c].may
                           /\ click'[c].pc = click[c].pc \/ click'[c].pc = "dead"
  BY <1>1 DEF GateCrash, ClickPlace
<1>3. /\ ask' \in [kind : GateKinds, home : GateReplica \cup {NoReplica}, pc : AskPlace, aborted : BOOLEAN]
      /\ ask'.pc = "idle" => ask.pc = "idle"
  BY <1>1 DEF GateCrash, AskPlace
<1>a. gateCrashes' \in 0..MaxCrash
  BY GatesAssumption DEF GateCrash, GInv, GateShape
<1>b. NoWaiter \in [parked : BOOLEAN, subscribed : BOOLEAN, timer : BOOLEAN]
  BY DEF NoWaiter
<1>4. /\ waiter' \in [parked : BOOLEAN, subscribed : BOOLEAN, timer : BOOLEAN]
      /\ wake' \in BOOLEAN /\ cancel' \in BOOLEAN /\ gateCrashes' \in 0..MaxCrash
  BY <1>1, <1>a, <1>b DEF GateCrash, Unpark
<1>5. GateShape'
  BY <1>2, <1>3, <1>4 DEF GateCrash, GInv, GateShape
<1>6. DeciderMay' /\ WinnerDecided'
  BY <1>2 DEF GateCrash, GInv, DeciderMay, WinnerDecided
<1> QED
  BY <1>3, <1>5, <1>6 DEF GateCrash, GInv, UnopenedHasNoRow, VerdictIsRows, ApproverDecides, AuditedOnce

\* Every step keeps the invariant.
LEMMA GInvStep == GInv /\ [GateNext]_gateVars => GInv'
<1> SUFFICES ASSUME GInv, [GateNext]_gateVars PROVE GInv'
  OBVIOUS
<1>1. CASE UNCHANGED gateVars
  BY <1>1 DEF gateVars, GInv, GateShape, UnopenedHasNoRow, VerdictIsRows, DeciderMay,
     WinnerDecided, ApproverDecides, AuditedOnce
<1>2. CASE GateNext
  BY <1>2, AskersMove, RowMoves, ClickMoves, CrashMoves DEF GateNext, Opening, Delivery
<1> QED
  BY <1>1, <1>2

\* A gate ends once, and a verdict is an approver's, whatever races: any number
\* of clicks on any number of processes, the timer, the sweeps, an abort.
THEOREM EndsOnce == GateSpec => []GatesEndOnce
<1>1. GInv => GatesEndOnce
  BY DEF GInv, GatesEndOnce
<1> QED
  BY <1>1, GInvInit, GInvStep, PTL DEF GateSpec

-----------------------------------------------------------------------------
OnceNext == Once!Decide \/ Once!Allow \/ Once!Refuse \/ Once!Expire

\* Saying no, or nothing new, is always allowed; saying yes takes an approval.
LEMMA TellSimulates ==
    ASSUME NEW what \in {"allow", "deny"}, UNCHANGED verdict,
           Tell(what) \/ Release(what) \/ UNCHANGED answer,
           what = "allow" => verdict = "approved"
    PROVE  [OnceNext]_<<verdict, answer>>
BY DEF Tell, Release, OnceNext, Once!Allow, Once!Refuse

\* A row that ends is a decision.
LEMMA ResolveSimulates ==
    ASSUME GInv, NEW status \in Settled, NEW by, Resolves, Resolve(status, by), UNCHANGED answer
    PROVE  [OnceNext]_<<verdict, answer>>
BY DEF GInv, VerdictIsRows, Resolves, Resolve, OnceNext, Once!Decide, Once!Verdict, Settled

\* Each step of the asker or the row is a step of DecideOnce, or none.
LEMMA AskerSimulates ==
    ASSUME GInv, PassDeadline \/ SweepExpired \/ PurgeSettled \/ Opening \/ Abort \/ Delivery
    PROVE  [OnceNext]_<<verdict, answer>>
<1>0. "deny" \in {"allow", "deny"} /\ {"expired", "cancelled"} \subseteq Settled
  BY DEF Settled
<1>1. CASE PassDeadline \/ PurgeSettled \/ Park \/ Subscribe \/ PostCard \/ \E r \in GateReplica : Insert(r)
  BY <1>1 DEF PassDeadline, PurgeSettled, Park, Subscribe, PostCard, Insert
<1>2. CASE SweepExpired
  BY <1>0, <1>2, ResolveSimulates DEF SweepExpired
<1>3. CASE PostFails \/ Abort
  BY <1>0, <1>3, TellSimulates DEF PostFails, Abort
<1>4. CASE CancelLands
  BY <1>0, <1>4, ResolveSimulates DEF CancelLands, KeepRow
<1>5. CASE TimerFires
  <2>1. CASE ~Resolves
    BY <1>0, <1>5, <2>1, TellSimulates DEF TimerFires, KeepRow
  <2>2. CASE Resolves
    <3>1. verdict = "none" /\ verdict' = "expired"
      BY <1>5, <2>2 DEF TimerFires, Resolves, Resolve, GInv, VerdictIsRows
    <3>2. answer' = answer \/ (answer = "none" /\ answer' = "deny")
      BY <1>5 DEF TimerFires, Tell
    <3> QED
      BY <3>1, <3>2 DEF OnceNext, Once!Decide, Once!Expire, Once!Verdict
  <2> QED
    BY <2>1, <2>2
<1>6. CASE Wake
  <2>1. DecisionOf(row.status) \in {"allow", "deny"}
    BY DEF DecisionOf
  <2>2. DecisionOf(row.status) = "allow" => verdict = "approved"
    BY DEF DecisionOf, GInv, VerdictIsRows, Settled
  <2> QED
    BY <1>6, <2>1, <2>2, TellSimulates DEF Wake
<1>7. CASE Poll
  <2> DEFINE what == IF ask.aborted THEN "deny" ELSE DecisionOf(row.status)
  <2>1. what \in {"allow", "deny"}
    BY DEF DecisionOf
  <2>2. what = "allow" => verdict = "approved"
    BY DEF DecisionOf, GInv, VerdictIsRows, Settled
  <2>3. Tell(what) /\ UNCHANGED verdict
    BY <1>7 DEF Poll
  <2> HIDE DEF what
  <2> QED
    BY <2>1, <2>2, <2>3, TellSimulates
<1> QED
  BY <1>1, <1>2, <1>3, <1>4, <1>5, <1>6, <1>7 DEF Opening, Delivery

\* So is each step of a click.
LEMMA ClickSimulates ==
    ASSUME GInv, NEW c \in Clicks,
           Handler(c) \/ \E r \in GateReplica : ClickArrives(c, r)
    PROVE  [OnceNext]_<<verdict, answer>>
<1>0. "deny" \in {"allow", "deny"} /\ {"approved", "denied", "cancelled"} \subseteq Settled
  BY DEF Settled
<1>1. CASE ClickPublishes(c) \/ \E r \in GateReplica : ClickArrives(c, r)
  BY <1>1 DEF ClickPublishes, ClickArrives
<1>2. CASE ClickReads(c)
  BY <1>0, <1>2, TellSimulates DEF ClickReads
<1>3. CASE ClickCancels(c)
  BY <1>0, <1>3, ResolveSimulates DEF ClickCancels, KeepRow
<1>4. CASE ClickSettles(c)
  <2>1. CASE Resolves
    <3> DEFINE end == IF click[c].verb = "deny" THEN "denied" ELSE "approved"
               by == IF click[c].may THEN "approver" ELSE "clicker"
    <3>1. end \in Settled /\ Resolve(end, by) /\ UNCHANGED answer
      BY <1>0, <1>4, <2>1 DEF ClickSettles
    <3> HIDE DEF end, by
    <3> QED
      BY <2>1, <3>1, ResolveSimulates
  <2>2. CASE ~Resolves
    BY <1>4, <2>2 DEF ClickSettles, KeepRow
  <2> QED
    BY <2>1, <2>2
<1>5. CASE ClickLost(c)
  BY <1>0, <1>5, TellSimulates DEF ClickLost
<1>6. CASE ClickAnswers(c)
  <2>1. /\ click[c].verb \in {"allow", "deny"}
        /\ click[c].verb = "allow" => verdict = "approved"
    BY <1>6 DEF ClickAnswers, GInv, GateShape, WinnerDecided
  <2> QED
    BY <1>6, <2>1, TellSimulates DEF ClickAnswers
<1> QED
  BY <1>1, <1>2, <1>3, <1>4, <1>5, <1>6 DEF Handler

\* A gate, with its racing clicks, timers, sweeps, wake-ups and crashes, gives
\* one verdict and one answer, and says yes only on an approval.
THEOREM RefinesDecideOnce == GateSpec => ImplementsDecideOnce
<1>1. GateInit => Once!OnceInit
  BY DEF GateInit, Once!OnceInit
<1>2. GInv /\ [GateNext]_gateVars => [OnceNext]_<<verdict, answer>>
  <2> SUFFICES ASSUME GInv, [GateNext]_gateVars PROVE [OnceNext]_<<verdict, answer>>
    OBVIOUS
  <2>1. CASE UNCHANGED gateVars
    BY <2>1 DEF gateVars
  <2>2. CASE \E r \in GateReplica : GateCrash(r)
    BY <2>2 DEF GateCrash
  <2> QED
    BY <2>1, <2>2, AskerSimulates, ClickSimulates DEF GateNext
<1> QED
  BY <1>1, <1>2, GInvInit, GInvStep, PTL DEF GateSpec, ImplementsDecideOnce, Once!OnceSpec, OnceNext

-----------------------------------------------------------------------------
(***************************************************************************)
(* Who asked hears the outcome, where no publish or subscription is lost   *)
(***************************************************************************)
\* Nobody clicks before there is a card, and there is none before it is posted.
CardFirst ==
    /\ card = "none" => \A c \in Clicks : click[c].pc = "none"
    /\ ask.pc \in {"idle", "inserted", "parked", "listening"} => card = "none"
    /\ verdict \in {"approved", "denied"} => card # "none"

\* A gate that is open has a process and a row.
OpenedHasRow ==
    /\ ask.pc = "idle" => ask.home = NoReplica
    /\ ask.pc # "idle" => row.status # "none"

\* A waiter is an in-process gate's, and subscribed once its card may be out.
ParkedWhere ==
    /\ ask.pc \in {"inserted", "parked"} => InProcess
    /\ waiter.parked => /\ InProcess /\ ask.pc \in {"parked", "listening", "posted"}
                        /\ HasBus /\ ask.pc # "parked" => waiter.subscribed

GoneIsQuiet == row.status = "gone" => ~wake

\* What a handler remembers of the waiter and the row it met.
ClickKnows ==
    \A c \in Clicks :
        /\ click[c].pc = "none" => click[c].at = NoReplica
        /\ click[c].held => InProcess
        /\ click[c].pc = "stray" => ~click[c].held
        /\ click[c].pc \in {"deciding", "won"} /\ InProcess /\ ~click[c].held => HasBus
        /\ click[c].pc = "lost" => row.status \notin {"none", "pending"}
        /\ row.status = "gone" =>
              /\ click[c].pc \notin {"stray", "won"}
              /\ click[c].pc \in {"deciding", "lost"} /\ click[c].held => ask.kind = "perm"
        /\ gateCrashes = 0 => click[c].pc # "dead"

\* A decision finds the waiter: somebody is about to publish it, or has.
DecisionFinds ==
    waiter.parked /\ verdict \in {"approved", "denied"}
        => wake \/ \E c \in Clicks : click[c].pc \in {"won", "dead"}

\* An approval without an answer has its timer, its decision, or the handler
\* that took its waiter away and answers next.
ApprovalWaits ==
    ask.kind = "approval" /\ ask.pc \in {"parked", "listening", "posted"}
        /\ gateCrashes = 0 /\ answer = "none"
        => \/ waiter.parked /\ (waiter.timer \/ verdict \in {"approved", "denied"})
           \/ \E c \in Clicks : click[c].pc = "answering" /\ click[c].held

HearInv ==
    /\ GInv /\ CardFirst /\ OpenedHasRow /\ ParkedWhere /\ GoneIsQuiet /\ ClickKnows
    /\ DecisionFinds /\ ReleasedByClick /\ ApprovalWaits

LEMMA HearInit == GateInit => HearInv
<1> SUFFICES ASSUME GateInit PROVE HearInv
  OBVIOUS
<1>1. /\ ask.pc = "idle" /\ ask.home = NoReplica /\ row.status = "none" /\ waiter.parked = FALSE /\ card = "none"
      /\ verdict = "none" /\ wake = FALSE
      /\ \A c \in Clicks : click[c] = NoClick
      /\ \A c \in Clicks : click[c].pc = "none" /\ click[c].held = FALSE /\ click[c].at = NoReplica
  BY DEF GateInit, NoWaiter, NoClick
<1>2. CardFirst /\ OpenedHasRow /\ ParkedWhere /\ GoneIsQuiet /\ ClickKnows
  BY <1>1 DEF CardFirst, OpenedHasRow, ParkedWhere, GoneIsQuiet, ClickKnows
<1>3. DecisionFinds /\ ReleasedByClick /\ ApprovalWaits
  BY <1>1 DEF DecisionFinds, ReleasedByClick, ApprovalWaits
<1> QED
  BY <1>2, <1>3, GInvInit DEF HearInv

\* The fields of the records that a step writes.
LEMMA HearTypes ==
    ASSUME GInv
    PROVE  /\ ask \in [kind : GateKinds, home : GateReplica \cup {NoReplica}, pc : AskPlace, aborted : BOOLEAN]
           /\ row \in [status : RowStatus, by : {"nobody", "system", "clicker", "approver"}, overdue : BOOLEAN]
           /\ waiter \in [parked : BOOLEAN, subscribed : BOOLEAN, timer : BOOLEAN]
           /\ answer \in {"none", "allow", "deny"} /\ wake \in BOOLEAN
           /\ click \in [Clicks -> [at : GateReplica \cup {NoReplica}, verb : {"allow", "deny"},
                                    may : BOOLEAN, held : BOOLEAN, pc : ClickPlace]]
           /\ gateCrashes \in 0..MaxCrash
           /\ verdict = "none" <=> row.status \in {"none", "pending"}
           /\ row.status \in Settled => verdict = row.status
BY DEF GInv, GateShape, VerdictIsRows

\* A step that touches neither the clicks nor the row: the gate opens, or its
\* asker leaves.
LEMMA OpeningHears ==
    ASSUME HearInv, ~Lossy, Park \/ Subscribe \/ PostCard \/ PostFails \/ Abort
    PROVE  /\ CardFirst' /\ OpenedHasRow' /\ ParkedWhere' /\ GoneIsQuiet' /\ ClickKnows'
           /\ DecisionFinds' /\ ReleasedByClick' /\ ApprovalWaits'
<1>1. /\ ask \in [kind : GateKinds, home : GateReplica \cup {NoReplica}, pc : AskPlace, aborted : BOOLEAN]
      /\ waiter \in [parked : BOOLEAN, subscribed : BOOLEAN, timer : BOOLEAN]
      /\ answer \in {"none", "allow", "deny"}
  BY HearTypes DEF HearInv
<1>2. UNCHANGED <<row, click, wake, verdict, gateCrashes>>
  BY DEF Park, Subscribe, PostCard, PostFails, Abort
<1>3. /\ ask'.kind = ask.kind /\ ask.pc # "idle" /\ ask'.pc # "idle"
      /\ card' = card \/ (card' = "buttons" /\ ask'.pc = "posted")
      /\ ask'.pc \in {"inserted", "parked", "listening"} => ask.pc \in {"inserted", "parked", "listening"}
  BY <1>1 DEF Park, Subscribe, PostCard, PostFails, Abort
<1>4. CardFirst' /\ OpenedHasRow' /\ GoneIsQuiet' /\ ClickKnows'
  <2>1. InProcess' = InProcess
    BY <1>3 DEF InProcess
  <2> QED
    BY <1>2, <1>3, <2>1 DEF HearInv, CardFirst, OpenedHasRow, GoneIsQuiet, ClickKnows
<1>5. CASE Park
  <2>1. /\ waiter'.parked /\ waiter'.timer = Approval /\ ~(verdict \in {"approved", "denied"})
        /\ ask'.pc = (IF HasBus THEN "parked" ELSE "listening")
        /\ \A c \in Clicks : click[c].pc = "none"
    <3>1. ask.pc = "inserted" /\ card = "none" /\ waiter'.parked /\ waiter'.timer = Approval
      BY <1>5 DEF Park, HearInv, CardFirst
    <3>2. ~(verdict \in {"approved", "denied"}) /\ \A c \in Clicks : click[c].pc = "none"
      BY <3>1 DEF HearInv, CardFirst
    <3>3. ask'.pc = (IF HasBus THEN "parked" ELSE "listening")
      BY <1>1, <1>5 DEF Park
    <3> QED
      BY <1>3, <3>1, <3>2, <3>3
  <2>2. InProcess
    BY <1>5 DEF Park, HearInv, ParkedWhere
  <2> QED
    BY <1>2, <1>3, <1>4, <2>1, <2>2 DEF ParkedWhere, DecisionFinds, ReleasedByClick, ApprovalWaits, Approval,
       InProcess
<1>6. CASE Subscribe
  <2>1. /\ waiter'.parked = waiter.parked /\ waiter'.timer = waiter.timer
        /\ waiter.parked => waiter'.subscribed
        /\ ask.pc = "parked" /\ ask'.pc = "listening" /\ answer' = answer
    BY <1>1, <1>6 DEF Subscribe
  <2> QED
    BY <1>2, <1>3, <1>4, <2>1 DEF HearInv, ParkedWhere, DecisionFinds, ReleasedByClick, ApprovalWaits, InProcess
<1>7. CASE PostCard
  <2>1. waiter' = waiter /\ answer' = answer /\ ask.pc = "listening" /\ ask'.pc = "posted"
    BY <1>1, <1>7 DEF PostCard
  <2> QED
    BY <1>2, <1>3, <1>4, <2>1 DEF HearInv, ParkedWhere, DecisionFinds, ReleasedByClick, ApprovalWaits, InProcess
<1>8. CASE PostFails
  <2>1. waiter'.parked = FALSE /\ ask'.pc = "failed"
    BY <1>1, <1>8 DEF PostFails, NoWaiter, HearInv, ParkedWhere
  <2> QED
    BY <1>2, <1>3, <1>4, <2>1 DEF ParkedWhere, DecisionFinds, ReleasedByClick, ApprovalWaits
<1>9. CASE Abort
  <2>1. /\ ask'.pc = ask.pc
        /\ \/ waiter'.parked = FALSE /\ answer' # "none"
           \/ waiter' = waiter /\ answer' = answer
    BY <1>1, <1>9 DEF Abort, Unpark, NoWaiter, Tell
  <2> QED
    BY <1>2, <1>3, <1>4, <2>1 DEF HearInv, ParkedWhere, DecisionFinds, ReleasedByClick, ApprovalWaits, InProcess
<1> QED
  BY <1>4, <1>5, <1>6, <1>7, <1>8, <1>9

\* A step of the row, its timers and its readers.
LEMMA RowHears ==
    ASSUME HearInv,
           \/ PassDeadline \/ SweepExpired \/ PurgeSettled \/ CancelLands \/ TimerFires \/ Wake \/ Poll
           \/ \E r \in GateReplica : Insert(r)
    PROVE  /\ CardFirst' /\ OpenedHasRow' /\ ParkedWhere' /\ GoneIsQuiet' /\ ClickKnows'
           /\ DecisionFinds' /\ ReleasedByClick' /\ ApprovalWaits'
<1>1. /\ ask \in [kind : GateKinds, home : GateReplica \cup {NoReplica}, pc : AskPlace, aborted : BOOLEAN]
      /\ row \in [status : RowStatus, by : {"nobody", "system", "clicker", "approver"}, overdue : BOOLEAN]
      /\ waiter \in [parked : BOOLEAN, subscribed : BOOLEAN, timer : BOOLEAN]
      /\ answer \in {"none", "allow", "deny"} /\ wake \in BOOLEAN
      /\ verdict = "none" <=> row.status \in {"none", "pending"}
      /\ row.status \in Settled => verdict = row.status
  BY HearTypes DEF HearInv
<1>2. UNCHANGED <<click, card, gateCrashes>>
  BY DEF PassDeadline, SweepExpired, PurgeSettled, CancelLands, TimerFires, Wake, Poll, Insert
<1>3. CASE PassDeadline
  <2>1. UNCHANGED <<ask, waiter, answer, wake, verdict>> /\ row'.status = row.status
    BY <1>1, <1>3 DEF PassDeadline
  <2> QED
    BY <1>2, <2>1 DEF HearInv, CardFirst, OpenedHasRow, ParkedWhere, GoneIsQuiet, ClickKnows,
       DecisionFinds, ReleasedByClick, ApprovalWaits, InProcess
<1>4. CASE SweepExpired \/ (CancelLands /\ Resolves)
  <2>1. /\ UNCHANGED <<ask, waiter, answer, wake>> /\ row.status = "pending" /\ verdict = "none"
        /\ row'.status \in {"expired", "cancelled"} /\ verdict' \in {"expired", "cancelled"}
    BY <1>1, <1>4 DEF SweepExpired, CancelLands, Resolves, Resolve
  <2> QED
    BY <1>2, <2>1 DEF HearInv, CardFirst, OpenedHasRow, ParkedWhere, GoneIsQuiet, ClickKnows,
       DecisionFinds, ReleasedByClick, ApprovalWaits, InProcess
<1>5. CASE (CancelLands /\ ~Resolves) \/ Poll
  <2>1. UNCHANGED <<ask, row, waiter, wake, verdict>> /\ (answer' = answer \/ Polled)
    BY <1>5 DEF CancelLands, KeepRow, Poll
  <2> QED
    BY <1>2, <2>1 DEF HearInv, CardFirst, OpenedHasRow, ParkedWhere, GoneIsQuiet, ClickKnows,
       DecisionFinds, ReleasedByClick, ApprovalWaits, InProcess, Polled
<1>6. CASE PurgeSettled
  <2>1. /\ UNCHANGED <<ask, waiter, answer, wake, verdict>> /\ row'.status = "gone" /\ ~wake
        /\ row.status \in Settled
        /\ \A c \in Clicks : click[c].pc \notin {"stray", "deciding", "lost", "won"}
    BY <1>1, <1>6 DEF PurgeSettled, Busy
  <2> QED
    BY <1>2, <2>1 DEF HearInv, CardFirst, OpenedHasRow, ParkedWhere, GoneIsQuiet, ClickKnows,
       DecisionFinds, ReleasedByClick, ApprovalWaits, InProcess, Settled
<1>7. CASE TimerFires
  <2>1. /\ UNCHANGED <<ask, wake>>
        /\ \/ row' = row /\ verdict' = verdict
           \/ /\ row.status = "pending" /\ verdict = "none"
              /\ row'.status = "expired" /\ verdict' = "expired"
    BY <1>1, <1>7 DEF TimerFires, KeepRow, Resolves, Resolve
  <2>2. \/ /\ row.status \in {"approved", "denied"} \/ ~waiter.parked
           /\ waiter'.parked = waiter.parked /\ waiter'.subscribed = waiter.subscribed /\ answer' = answer
        \/ waiter'.parked = FALSE /\ answer' # "none"
    BY <1>1, <1>7 DEF TimerFires, Unpark, NoWaiter, Tell
  <2>3. row.status \in {"approved", "denied"} => verdict \in {"approved", "denied"} /\ verdict' = verdict
    BY <1>1, <2>1 DEF Settled
  <2> QED
    BY <1>2, <2>1, <2>2, <2>3 DEF HearInv, CardFirst, OpenedHasRow, ParkedWhere, GoneIsQuiet, ClickKnows,
       DecisionFinds, ReleasedByClick, ApprovalWaits, InProcess
<1>8. CASE Wake
  <2>1. UNCHANGED <<ask, row, verdict>> /\ wake /\ wake' = FALSE
    BY <1>8 DEF Wake
  <2>2. \/ waiter'.parked = FALSE /\ (waiter.parked => answer' # "none") /\ (~waiter.parked => answer' = answer)
        \/ waiter' = waiter /\ answer' = answer /\ verdict = "none"
    <3>1. row.status # "gone"
      BY <2>1 DEF HearInv, GoneIsQuiet
    <3>2. DecisionOf(row.status) # "none"
      BY DEF DecisionOf
    <3>3. CASE row.status \in Settled
      BY <1>1, <1>8, <3>2, <3>3 DEF Wake, Release, Unpark, NoWaiter, Tell
    <3>4. CASE row.status \notin Settled
      BY <1>1, <1>8, <3>1, <3>4 DEF Wake, RowStatus
    <3> QED
      BY <3>3, <3>4
  <2> QED
    BY <1>2, <2>1, <2>2 DEF HearInv, CardFirst, OpenedHasRow, ParkedWhere, GoneIsQuiet, ClickKnows,
       DecisionFinds, ReleasedByClick, ApprovalWaits, InProcess
<1>9. ASSUME NEW r \in GateReplica, Insert(r)
      PROVE  /\ CardFirst' /\ OpenedHasRow' /\ ParkedWhere' /\ GoneIsQuiet' /\ ClickKnows'
             /\ DecisionFinds' /\ ReleasedByClick' /\ ApprovalWaits'
  <2>1. /\ UNCHANGED <<answer, wake, verdict>> /\ waiter'.parked = FALSE /\ row'.status = "pending"
        /\ ask.pc = "idle" /\ ask'.kind = ask.kind
        /\ ask'.pc = IF InProcess THEN "inserted" ELSE "listening"
    <3>1. /\ UNCHANGED <<answer, wake, verdict>> /\ ask.pc = "idle"
          /\ waiter' = [NoWaiter EXCEPT !.timer = ask.kind = "approvalPoll"]
          /\ row' = [row EXCEPT !.status = "pending"]
          /\ ask' = [ask EXCEPT !.home = r, !.pc = IF InProcess THEN "inserted" ELSE "listening"]
      BY <1>9 DEF Insert
    <3>2. waiter'.parked = FALSE
      BY <3>1 DEF NoWaiter
    <3>3. ask'.kind = ask.kind /\ ask'.pc = IF InProcess THEN "inserted" ELSE "listening"
      BY <1>1, <3>1
    <3>4. row'.status = "pending"
      BY <1>1, <3>1
    <3> QED
      BY <3>1, <3>2, <3>3, <3>4
  <2>2. card = "none" /\ \A c \in Clicks : click[c].pc = "none"
    BY <2>1 DEF HearInv, CardFirst
  <2>3. CardFirst' /\ OpenedHasRow' /\ ParkedWhere' /\ GoneIsQuiet'
    BY <1>2, <2>1, <2>2 DEF HearInv, CardFirst, OpenedHasRow, ParkedWhere, GoneIsQuiet, InProcess
  <2>4. ClickKnows'
    BY <1>2, <2>1, <2>2 DEF HearInv, ClickKnows, InProcess
  <2>5. DecisionFinds' /\ ReleasedByClick' /\ ApprovalWaits'
    BY <1>2, <2>1, <2>2 DEF DecisionFinds, ReleasedByClick, ApprovalWaits, InProcess
  <2> QED
    BY <2>3, <2>4, <2>5
<1> QED
  BY <1>3, <1>4, <1>5, <1>6, <1>7, <1>8, <1>9

\* A click arrives, or its handler takes a step.
LEMMA ClickHears ==
    ASSUME HearInv, ~Lossy, NEW c \in Clicks,
           Handler(c) \/ \E r \in GateReplica : ClickArrives(c, r)
    PROVE  /\ CardFirst' /\ OpenedHasRow' /\ ParkedWhere' /\ GoneIsQuiet' /\ ClickKnows'
           /\ DecisionFinds' /\ ReleasedByClick' /\ ApprovalWaits'
<1>1. /\ ask \in [kind : GateKinds, home : GateReplica \cup {NoReplica}, pc : AskPlace, aborted : BOOLEAN]
      /\ row \in [status : RowStatus, by : {"nobody", "system", "clicker", "approver"}, overdue : BOOLEAN]
      /\ waiter \in [parked : BOOLEAN, subscribed : BOOLEAN, timer : BOOLEAN]
      /\ answer \in {"none", "allow", "deny"} /\ wake \in BOOLEAN
      /\ click \in [Clicks -> [at : GateReplica \cup {NoReplica}, verb : {"allow", "deny"},
                               may : BOOLEAN, held : BOOLEAN, pc : ClickPlace]]
      /\ verdict = "none" <=> row.status \in {"none", "pending"}
      /\ row.status \in Settled => verdict = row.status
  BY HearTypes DEF HearInv
<1>2. /\ UNCHANGED <<ask, gateCrashes>> /\ card # "none" /\ ask.pc # "idle" /\ row.status # "none"
      /\ card' # "none"
  <2>1. UNCHANGED <<ask, gateCrashes>> /\ (card' = card \/ card' = "decided")
    BY DEF Handler, ClickReads, ClickCancels, ClickSettles, ClickLost, ClickPublishes, ClickAnswers, ClickArrives
  <2>2. card # "none"
    BY DEF Handler, ClickReads, ClickCancels, ClickSettles, ClickLost, ClickPublishes, ClickAnswers, ClickArrives,
       HearInv, CardFirst
  <2>3. ask.pc # "idle"
    BY <2>2 DEF HearInv, CardFirst
  <2>4. row.status # "none"
    BY <2>3 DEF HearInv, OpenedHasRow
  <2> QED
    BY <2>1, <2>2, <2>3, <2>4
<1>3. CardFirst' /\ OpenedHasRow'
  <2>1. row'.status # "none"
    BY <1>1, <1>2 DEF Handler, ClickReads, ClickCancels, ClickSettles, ClickLost, ClickPublishes, ClickAnswers,
       ClickArrives, Resolves, Resolve, KeepRow
  <2> QED
    BY <1>2, <2>1 DEF HearInv, CardFirst, OpenedHasRow
<1>4. ASSUME NEW pc \in ClickPlace, To(c, pc)
      PROVE  /\ \A d \in Clicks : /\ d # c => click'[d] = click[d]
                                  /\ click'[d].held = click[d].held
             /\ click'[c].pc = pc
  BY <1>1, <1>4 DEF To
<1>5. {"stale", "stray", "deciding", "refused", "won", "lost", "answering", "decided"} \subseteq ClickPlace
  BY DEF ClickPlace
<1>6. ASSUME NEW r \in GateReplica, ClickArrives(c, r)
      PROVE  ParkedWhere' /\ GoneIsQuiet' /\ ClickKnows' /\ DecisionFinds' /\ ReleasedByClick' /\ ApprovalWaits'
  <2> DEFINE held == InProcess /\ ask.home = r /\ waiter.parked
  <2>0. PICK verb \in {"allow", "deny"}, may \in BOOLEAN :
           click' = [click EXCEPT ![c] = [at |-> r, verb |-> verb, may |-> may, pc |-> "arrived", held |-> held]]
    BY <1>6 DEF ClickArrives
  <2>1. /\ UNCHANGED <<row, waiter, answer, wake, verdict>> /\ click[c].pc = "none"
        /\ \A d \in Clicks : d # c => click'[d] = click[d]
        /\ click'[c].pc = "arrived" /\ (click'[c].held => InProcess)
    <3>1. UNCHANGED <<row, waiter, answer, wake, verdict>> /\ click[c].pc = "none"
      BY <1>6 DEF ClickArrives
    <3>2. click'[c].pc = "arrived" /\ click'[c].held = held
      BY <1>1, <2>0
    <3>3. \A d \in Clicks : d # c => click'[d] = click[d]
      BY <1>1, <2>0
    <3> QED
      BY <3>1, <3>2, <3>3
  <2>p. ParkedWhere' /\ GoneIsQuiet'
    BY <1>2, <2>1 DEF HearInv, ParkedWhere, GoneIsQuiet, InProcess
  <2>k. ClickKnows'
    BY <1>2, <2>1 DEF HearInv, ClickKnows, InProcess
  <2>d. DecisionFinds'
    BY <1>2, <2>1 DEF HearInv, DecisionFinds
  <2>r. ReleasedByClick'
    BY <1>2, <2>1 DEF HearInv, ReleasedByClick
  <2>w. ApprovalWaits'
    BY <1>2, <2>1 DEF HearInv, ApprovalWaits
  <2> QED
    BY <1>3, <2>p, <2>k, <2>d, <2>r, <2>w
<1>7. CASE ClickReads(c)
  <2>1. UNCHANGED <<row, wake, verdict>> /\ click[c].pc = "arrived"
    BY <1>7 DEF ClickReads
  <2>2. PICK pc \in {"stale", "stray", "deciding", "refused"} : To(c, pc)
    BY <1>7 DEF ClickReads
  <2>3. /\ \A d \in Clicks : (d # c => click'[d] = click[d]) /\ click'[d].held = click[d].held
        /\ click'[c].pc = pc
    BY <1>4, <1>5, <2>2
  <2>4. \/ waiter'.parked = FALSE /\ answer' # "none"
        \/ waiter' = waiter /\ answer' = answer
    BY <1>1, <1>7 DEF ClickReads, Release, Unpark, NoWaiter, Tell
  <2>5. CASE pc = "stale"
    <3>1. /\ row.status # "pending" /\ (Approval \/ ~click[c].held)
          /\ waiter'.parked /\ click[c].held => row.status \in {"approved", "denied"}
      <4>1. row.status # "pending" /\ (Approval \/ ~click[c].held)
        BY <1>4, <1>5, <1>7, <2>3, <2>5 DEF ClickReads
      <4>2. CASE click[c].held /\ row.status \notin {"approved", "denied"}
        <5>1. Release("deny")
          BY <1>7, <4>1, <4>2 DEF ClickReads
        <5>2. waiter'.parked = FALSE
          BY <1>1, <5>1 DEF Release, Unpark, NoWaiter
        <5> QED
          BY <4>1, <5>2
      <4> QED
        BY <4>1, <4>2
    <3>2. row.status \in {"approved", "denied"} => verdict \in {"approved", "denied"}
      BY <1>1 DEF Settled
    <3>p. ParkedWhere' /\ GoneIsQuiet'
      BY <1>2, <2>1, <2>3, <2>4, <2>5, <3>1, <3>2 DEF HearInv, ParkedWhere, GoneIsQuiet, InProcess
    <3>k. ClickKnows'
      BY <1>2, <2>1, <2>3, <2>4, <2>5, <3>1, <3>2 DEF HearInv, ClickKnows, InProcess
    <3>d. DecisionFinds'
      BY <1>2, <2>1, <2>3, <2>4, <2>5, <3>1, <3>2 DEF HearInv, DecisionFinds
    <3>r. ReleasedByClick'
      BY <1>2, <2>1, <2>3, <2>4, <2>5, <3>1, <3>2 DEF HearInv, ReleasedByClick
    <3>w. ApprovalWaits'
      BY <1>2, <2>1, <2>3, <2>4, <2>5, <3>1, <3>2 DEF HearInv, ApprovalWaits
    <3> QED
      BY <1>3, <3>p, <3>k, <3>d, <3>r, <3>w
  <2>6. CASE pc # "stale"
    <3>1. /\ waiter' = waiter /\ answer' = answer
          /\ row.status = "pending" \/ (~Approval /\ click[c].held)
          /\ pc = "stray" => Stray(c)
          /\ pc = "deciding" => Reachable(c)
      BY <1>4, <1>5, <1>7, <2>3, <2>6 DEF ClickReads
    <3>2. ~Approval /\ click[c].held => ask.kind = "perm"
      BY DEF HearInv, ClickKnows, InProcess, Approval
    <3>p. ParkedWhere' /\ GoneIsQuiet'
      BY <1>2, <2>1, <2>2, <2>3, <2>6, <3>1, <3>2 DEF HearInv, ParkedWhere, GoneIsQuiet, InProcess, Stray, Reachable
    <3>k. ClickKnows'
      BY <1>2, <2>1, <2>2, <2>3, <2>6, <3>1, <3>2 DEF HearInv, ClickKnows, InProcess, Stray, Reachable
    <3>d. DecisionFinds'
      BY <1>2, <2>1, <2>2, <2>3, <2>6, <3>1, <3>2 DEF HearInv, DecisionFinds, Stray, Reachable
    <3>r. ReleasedByClick'
      BY <1>2, <2>1, <2>2, <2>3, <2>6, <3>1, <3>2 DEF HearInv, ReleasedByClick, Stray, Reachable
    <3>w. ApprovalWaits'
      BY <1>2, <2>1, <2>2, <2>3, <2>6, <3>1, <3>2 DEF HearInv, ApprovalWaits, Stray, Reachable
    <3> QED
      BY <1>3, <3>p, <3>k, <3>d, <3>r, <3>w
  <2> QED
    BY <2>5, <2>6
<1>8. CASE ClickCancels(c)
  <2>1. /\ UNCHANGED <<waiter, answer>> /\ click[c].pc = "stray"
        /\ \A d \in Clicks : (d # c => click'[d] = click[d]) /\ click'[d].held = click[d].held
        /\ click'[c].pc = "stale" /\ ~click[c].held /\ row.status # "gone"
    BY <1>4, <1>5, <1>8 DEF ClickCancels, HearInv, ClickKnows
  <2>2. wake' \in {wake, TRUE}
    BY <1>1, <1>8 DEF ClickCancels, Publish
  <2>3. \/ row' = row /\ verdict' = verdict
        \/ /\ row.status = "pending" /\ verdict = "none"
           /\ row'.status = "cancelled" /\ verdict' = "cancelled"
    BY <1>1, <1>8 DEF ClickCancels, KeepRow, Resolves, Resolve
  <2>p. ParkedWhere' /\ GoneIsQuiet'
    BY <1>2, <2>1, <2>2, <2>3 DEF HearInv, ParkedWhere, GoneIsQuiet, InProcess
  <2>k. ClickKnows'
    BY <1>2, <2>1, <2>2, <2>3 DEF HearInv, ClickKnows, InProcess
  <2>d. DecisionFinds'
    BY <1>2, <2>1, <2>2, <2>3 DEF HearInv, DecisionFinds
  <2>r. ReleasedByClick'
    BY <1>2, <2>1, <2>2, <2>3 DEF HearInv, ReleasedByClick
  <2>w. ApprovalWaits'
    BY <1>2, <2>1, <2>2, <2>3 DEF HearInv, ApprovalWaits
  <2> QED
    BY <1>3, <2>p, <2>k, <2>d, <2>r, <2>w
<1>9. CASE ClickSettles(c)
  <2>1. UNCHANGED <<waiter, answer, wake>> /\ click[c].pc = "deciding"
    BY <1>9 DEF ClickSettles
  <2>2. CASE Resolves
    <3>1. /\ \A d \in Clicks : (d # c => click'[d] = click[d]) /\ click'[d].held = click[d].held
          /\ click'[c].pc = "won"
      BY <1>4, <1>5, <1>9, <2>2 DEF ClickSettles
    <3>2. /\ row.status = "pending" /\ verdict = "none"
          /\ row'.status \in {"approved", "denied"} /\ verdict' \in {"approved", "denied"}
      BY <1>1, <1>9, <2>2 DEF ClickSettles, Resolves, Resolve
    <3>p. ParkedWhere' /\ GoneIsQuiet'
      BY <1>2, <2>1, <3>1, <3>2 DEF HearInv, ParkedWhere, GoneIsQuiet, InProcess
    <3>k. ClickKnows'
      BY <1>2, <2>1, <3>1, <3>2 DEF HearInv, ClickKnows, InProcess
    <3>d. DecisionFinds'
      BY <1>2, <2>1, <3>1, <3>2 DEF HearInv, DecisionFinds
    <3>r. ReleasedByClick'
      BY <1>2, <2>1, <3>1, <3>2 DEF HearInv, ReleasedByClick
    <3>w. ApprovalWaits'
      BY <1>2, <2>1, <3>1, <3>2 DEF HearInv, ApprovalWaits
    <3> QED
      BY <1>3, <3>p, <3>k, <3>d, <3>r, <3>w
  <2>3. CASE ~Resolves
    <3>1. /\ \A d \in Clicks : (d # c => click'[d] = click[d]) /\ click'[d].held = click[d].held
          /\ click'[c].pc = "lost"
      BY <1>4, <1>5, <1>9, <2>3 DEF ClickSettles
    <3>2. UNCHANGED <<row, verdict>> /\ row.status # "pending"
      BY <1>9, <2>3 DEF ClickSettles, Resolves, KeepRow
    <3>p. ParkedWhere' /\ GoneIsQuiet'
      BY <1>2, <2>1, <3>1, <3>2 DEF HearInv, ParkedWhere, GoneIsQuiet, InProcess
    <3>k. ClickKnows'
      BY <1>2, <2>1, <3>1, <3>2 DEF HearInv, ClickKnows, InProcess
    <3>d. DecisionFinds'
      BY <1>2, <2>1, <3>1, <3>2 DEF HearInv, DecisionFinds
    <3>r. ReleasedByClick'
      BY <1>2, <2>1, <3>1, <3>2 DEF HearInv, ReleasedByClick
    <3>w. ApprovalWaits'
      BY <1>2, <2>1, <3>1, <3>2 DEF HearInv, ApprovalWaits
    <3> QED
      BY <1>3, <3>p, <3>k, <3>d, <3>r, <3>w
  <2> QED
    BY <2>2, <2>3
<1>10. CASE ClickLost(c)
  <2>1. /\ UNCHANGED <<row, wake, verdict>> /\ click[c].pc = "lost"
        /\ \A d \in Clicks : (d # c => click'[d] = click[d]) /\ click'[d].held = click[d].held
        /\ click'[c].pc = "stale" /\ row.status \notin {"none", "pending"}
    BY <1>4, <1>5, <1>10 DEF ClickLost, HearInv, ClickKnows
  <2>2. \/ waiter'.parked = FALSE /\ answer' # "none"
        \/ /\ waiter' = waiter /\ answer' = answer
           /\ waiter.parked /\ click[c].held => row.status \notin {"expired", "cancelled"}
    BY <1>1, <1>10 DEF ClickLost, Release, Unpark, NoWaiter, Tell
  <2>3. row.status \in RowStatus /\ (row.status \in {"approved", "denied"} => verdict \in {"approved", "denied"})
    BY <1>1 DEF Settled
  <2>4. row.status = "gone" /\ click[c].held => ask.kind = "perm"
    BY <2>1 DEF HearInv, ClickKnows
  <2>p. ParkedWhere' /\ GoneIsQuiet'
    BY <1>2, <2>1, <2>2, <2>3, <2>4 DEF HearInv, ParkedWhere, GoneIsQuiet, InProcess, RowStatus, Settled
  <2>k. ClickKnows'
    BY <1>2, <2>1, <2>2, <2>3, <2>4 DEF HearInv, ClickKnows, InProcess, RowStatus, Settled
  <2>d. DecisionFinds'
    BY <1>2, <2>1, <2>2, <2>3, <2>4 DEF HearInv, DecisionFinds, RowStatus, Settled
  <2>r. ReleasedByClick'
    BY <1>2, <2>1, <2>2, <2>3, <2>4 DEF HearInv, ReleasedByClick, RowStatus, Settled
  <2>w. ApprovalWaits'
    BY <1>2, <2>1, <2>2, <2>3, <2>4 DEF HearInv, ApprovalWaits, RowStatus, Settled
  <2> QED
    BY <1>3, <2>p, <2>k, <2>d, <2>r, <2>w
<1>11. CASE ClickPublishes(c)
  <2>1. /\ UNCHANGED <<row, verdict, answer>> /\ click[c].pc = "won" /\ row.status # "gone"
        /\ \A d \in Clicks : (d # c => click'[d] = click[d]) /\ click'[d].held = click[d].held
        /\ click'[c].pc = "answering"
    BY <1>4, <1>5, <1>11 DEF ClickPublishes, HearInv, ClickKnows
  <2>2. wake' \in {wake, TRUE}
    BY <1>1, <1>11 DEF ClickPublishes, Publish
  <2>3. CASE click[c].held
    <3>1. waiter'.parked = FALSE
      BY <1>11, <2>3 DEF ClickPublishes, Unpark, NoWaiter
    <3>p. ParkedWhere' /\ GoneIsQuiet'
      BY <1>2, <2>1, <2>2, <2>3, <3>1 DEF HearInv, ParkedWhere, GoneIsQuiet, InProcess
    <3>k. ClickKnows'
      BY <1>2, <2>1, <2>2, <2>3, <3>1 DEF HearInv, ClickKnows, InProcess
    <3>d. DecisionFinds'
      BY <1>2, <2>1, <2>2, <2>3, <3>1 DEF HearInv, DecisionFinds
    <3>r. ReleasedByClick'
      BY <1>2, <2>1, <2>2, <2>3, <3>1 DEF HearInv, ReleasedByClick
    <3>w. ApprovalWaits'
      BY <1>2, <2>1, <2>2, <2>3, <3>1 DEF HearInv, ApprovalWaits
    <3> QED
      BY <1>3, <3>p, <3>k, <3>d, <3>r, <3>w
  <2>4. CASE ~click[c].held
    <3>1. waiter' = waiter /\ Publish
      BY <1>11, <2>4 DEF ClickPublishes
    <3>2. waiter.parked => waiter.subscribed /\ HasBus
      BY <1>2, <2>1, <2>4 DEF HearInv, ParkedWhere, ClickKnows, CardFirst
    <3>3. waiter.parked => wake'
      BY <3>1, <3>2 DEF Publish
    <3>p. ParkedWhere' /\ GoneIsQuiet'
      BY <1>2, <2>1, <2>2, <2>4, <3>1, <3>3 DEF HearInv, ParkedWhere, GoneIsQuiet, InProcess
    <3>k. ClickKnows'
      BY <1>2, <2>1, <2>2, <2>4, <3>1, <3>3 DEF HearInv, ClickKnows, InProcess
    <3>d. DecisionFinds'
      BY <1>2, <2>1, <2>2, <2>4, <3>1, <3>3 DEF HearInv, DecisionFinds
    <3>r. ReleasedByClick'
      BY <1>2, <2>1, <2>2, <2>4, <3>1, <3>3 DEF HearInv, ReleasedByClick
    <3>w. ApprovalWaits'
      BY <1>2, <2>1, <2>2, <2>4, <3>1, <3>3 DEF HearInv, ApprovalWaits
    <3> QED
      BY <1>3, <3>p, <3>k, <3>d, <3>r, <3>w
  <2> QED
    BY <2>3, <2>4
<1>12. CASE ClickAnswers(c)
  <2>1. /\ UNCHANGED <<row, verdict, waiter, wake>> /\ click[c].pc = "answering"
        /\ \A d \in Clicks : (d # c => click'[d] = click[d]) /\ click'[d].held = click[d].held
        /\ click'[c].pc = "decided"
    BY <1>4, <1>5, <1>12 DEF ClickAnswers
  <2>2. /\ answer # "none" => answer' # "none"
        /\ click[c].held => answer' # "none"
    BY <1>1, <1>12 DEF ClickAnswers, Tell
  <2>p. ParkedWhere' /\ GoneIsQuiet'
    BY <1>2, <2>1, <2>2 DEF HearInv, ParkedWhere, GoneIsQuiet, InProcess
  <2>k. ClickKnows'
    BY <1>2, <2>1, <2>2 DEF HearInv, ClickKnows, InProcess
  <2>d. DecisionFinds'
    BY <1>2, <2>1, <2>2 DEF HearInv, DecisionFinds
  <2>r. ReleasedByClick'
    BY <1>2, <2>1, <2>2 DEF HearInv, ReleasedByClick
  <2>w. ApprovalWaits'
    BY <1>2, <2>1, <2>2 DEF HearInv, ApprovalWaits
  <2> QED
    BY <1>3, <2>p, <2>k, <2>d, <2>r, <2>w
<1> QED
  BY <1>3, <1>6, <1>7, <1>8, <1>9, <1>10, <1>11, <1>12 DEF Handler

\* A process dies.
LEMMA CrashHears ==
    ASSUME HearInv, NEW r \in GateReplica, GateCrash(r)
    PROVE  /\ CardFirst' /\ OpenedHasRow' /\ ParkedWhere' /\ GoneIsQuiet' /\ ClickKnows'
           /\ DecisionFinds' /\ ReleasedByClick' /\ ApprovalWaits'
<1>1. /\ ask \in [kind : GateKinds, home : GateReplica \cup {NoReplica}, pc : AskPlace, aborted : BOOLEAN]
      /\ click \in [Clicks -> [at : GateReplica \cup {NoReplica}, verb : {"allow", "deny"},
                               may : BOOLEAN, held : BOOLEAN, pc : ClickPlace]]
      /\ gateCrashes \in 0..MaxCrash
  BY HearTypes DEF HearInv
<1>2. /\ UNCHANGED <<row, answer, card, verdict>> /\ gateCrashes' # 0
  BY <1>1, GatesAssumption DEF GateCrash
<1>3. /\ \A c \in Clicks : /\ click'[c].held = click[c].held /\ click'[c].at = click[c].at
                           /\ click'[c].pc = click[c].pc \/ (click'[c].pc = "dead" /\ click[c].at = r)
      /\ r # NoReplica
  BY <1>1, GatesAssumption DEF GateCrash
<1>4. /\ ask'.kind = ask.kind
      /\ ask'.pc = ask.pc \/ (ask'.pc = "dead" /\ ask.home = r)
      /\ ask'.home = NoReplica \/ ask'.home = ask.home
  BY <1>1 DEF GateCrash
<1>5. \/ waiter'.parked = FALSE /\ wake' = FALSE
      \/ waiter' = waiter /\ wake' = wake /\ ask' = ask
  BY DEF GateCrash, Unpark, NoWaiter
<1>6. CardFirst' /\ OpenedHasRow'
  BY <1>2, <1>3, <1>4 DEF HearInv, CardFirst, OpenedHasRow, ClickKnows
<1>7. ParkedWhere' /\ GoneIsQuiet'
  BY <1>2, <1>4, <1>5 DEF HearInv, ParkedWhere, GoneIsQuiet, InProcess
<1>8. ClickKnows'
  BY <1>2, <1>3, <1>4 DEF HearInv, ClickKnows, InProcess
<1>9. DecisionFinds'
  BY <1>2, <1>3, <1>5 DEF HearInv, DecisionFinds
<1>10. ReleasedByClick'
  BY <1>2, <1>3, <1>4, <1>5 DEF HearInv, ReleasedByClick
<1>11. ApprovalWaits'
  BY <1>2 DEF ApprovalWaits
<1> QED
  BY <1>6, <1>7, <1>8, <1>9, <1>10, <1>11

\* Every step keeps the invariant, where no publish or subscription is lost.
LEMMA HearStep == ~Lossy /\ HearInv /\ [GateNext]_gateVars => HearInv'
<1> SUFFICES ASSUME ~Lossy, HearInv, [GateNext]_gateVars
             PROVE  /\ CardFirst' /\ OpenedHasRow' /\ ParkedWhere' /\ GoneIsQuiet' /\ ClickKnows'
                    /\ DecisionFinds' /\ ReleasedByClick' /\ ApprovalWaits'
  BY GInvStep DEF HearInv
<1>1. CASE UNCHANGED gateVars
  BY <1>1 DEF gateVars, HearInv, CardFirst, OpenedHasRow, ParkedWhere, GoneIsQuiet, ClickKnows,
     DecisionFinds, ReleasedByClick, ApprovalWaits, InProcess
<1>2. CASE GateNext
  BY <1>2, OpeningHears, RowHears, ClickHears, CrashHears DEF GateNext, Opening, Delivery
<1> QED
  BY <1>1, <1>2

\* permission-gate.ts:776-793, approval-gate.ts:178-209, gate-bus.ts:5: where no
\* publish or subscription is lost, and however clicks, timers, sweeps, purges,
\* aborts and crashes interleave, a decision made on another process finds the
\* waiter, a click answered as stale leaves none behind, and an approval or a
\* polling node has its answer once nothing more comes by itself.
THEOREM AskersHear == ~Lossy => (GateSpec => []AskersAnswered)
<1>1. HearInv => AskersAnswered
  <2> SUFFICES ASSUME HearInv PROVE AskersAnswered
    OBVIOUS
  <2>1. NobodyLeftHanging /\ ReleasedByClick
    BY DEF HearInv, NobodyLeftHanging, DecisionFinds
  <2>2. ask.pc = "posted" => row.status # "none"
    BY DEF HearInv, OpenedHasRow
  <2>3. PollerAnswered
    BY <2>2 DEF PollerAnswered, StillToCome
  <2>4. ApprovalAnswered
    <3> SUFFICES ASSUME ask.kind = "approval", ask.pc = "posted", gateCrashes = 0, ~StillToCome, answer = "none"
                 PROVE  FALSE
      BY DEF ApprovalAnswered
    <3>1. /\ ~waiter.timer /\ ~wake
          /\ \A c \in Clicks : click[c].pc \notin {"won", "answering"}
      BY <2>2 DEF StillToCome, Busy
    <3>2. waiter.parked /\ verdict \in {"approved", "denied"}
      BY <3>1 DEF HearInv, ApprovalWaits
    <3>3. \E c \in Clicks : click[c].pc = "dead"
      BY <3>1, <3>2 DEF HearInv, DecisionFinds
    <3> QED
      BY <3>3 DEF HearInv, ClickKnows
  <2> QED
    BY <2>1, <2>3, <2>4 DEF AskersAnswered
<1>2. SUFFICES ASSUME ~Lossy PROVE GateSpec => []AskersAnswered
  OBVIOUS
<1>3. HearInv /\ [GateNext]_gateVars => HearInv'
  BY <1>2, HearStep
<1> QED
  BY <1>1, <1>3, HearInit, PTL DEF GateSpec

\* The state keeps its types: in particular a row's end is audited at most twice
\* (once, by EndsOnce) and no click leaves the places its handler has.
THEOREM GatesTyped == GateSpec => []GateTypeOK
<1>1. GInv => GateTypeOK
  BY DEF GInv, GateShape, GateTypeOK, AskPlace, RowStatus, ClickPlace
<1> QED
  BY <1>1, GInvInit, GInvStep, PTL DEF GateSpec
-----------------------------------------------------------------------------
(***************************************************************************)
(* PanelControl                                                            *)
(***************************************************************************)
\* The queues of a replica: the deferred messages and the drains under way.
QueuesOf(r) == replay[r] \cup {deferq[r]}

\* Who is in a queue waits there, at the queue's replica.
QueuedIsDeferred ==
    \A r \in PReplica : \A s \in QueuesOf(r) : \A i \in 1..Len(s) :
        ask_[s[i]].st = "deferred" /\ ask_[s[i]].at = r

\* And has one place in one queue.
QueuedOnce ==
    \A r \in PReplica : \A s, t \in QueuesOf(r) : \A i \in 1..Len(s), j \in 1..Len(t) :
        s[i] = t[j] => s = t /\ i = j

\* A queue is taken whole: what is drained is not deferred any more, and a drain
\* with nothing left is over.
TakenWhole == \A r \in PReplica : deferq[r] \notin replay[r] /\ << >> \notin replay[r]

\* What went out has run once, and nothing else has run.
RunsCount == \A q \in Asks : ask_[q].runs = IF ask_[q].st = "out" THEN 1 ELSE 0

\* A replica is sure of the present lock only, has no cached "free" and no
\* lookup on its way that found the session free.
SureOfLock ==
    /\ plock = NoOper => sure = {}
    /\ \A r \in sure : owner[r] # "free"
    /\ \A q \in Asks : ask_[q].st = "sawFree" => ask_[q].at \notin sure

PanelInv ==
    /\ PanelTypeOK /\ QueuedIsDeferred /\ QueuedOnce /\ TakenWhole /\ RunsCount /\ SureOfLock

QueueInv == QueuedIsDeferred /\ QueuedOnce /\ TakenWhole

-----------------------------------------------------------------------------
(***************************************************************************)
(* What the steps have in common                                           *)
(***************************************************************************)
AskRecord == [st : {"new", "sawFree", "sawHeld", "deferred", "quiet", "out"}, at : PReplica, runs : Nat]
OpRecord == [pc : {"idle", "mark", "chatMark", "chat", "steal", "resume", "publish"},
             at : PReplica, had : BOOLEAN]

\* What goes out counts a run.
LEMMA OutTyped ==
    ASSUME PanelTypeOK, NEW q \in Asks, NEW r \in PReplica
    PROVE /\ [ask_[q] EXCEPT !.at = r, !.st = "out", !.runs = ask_[q].runs + 1] \in AskRecord
          /\ [ask_[q] EXCEPT !.st = "out", !.runs = ask_[q].runs + 1] \in AskRecord
<1>1. ask_[q] \in AskRecord
  BY DEF PanelTypeOK, AskRecord
<1> DEFINE n == ask_[q].runs + 1
<1>2. n \in Nat
  BY <1>1 DEF AskRecord
<1> HIDE DEF n
<1>3. /\ [ask_[q] EXCEPT !.at = r, !.st = "out", !.runs = n] \in AskRecord
      /\ [ask_[q] EXCEPT !.st = "out", !.runs = n] \in AskRecord
  BY <1>1, <1>2 DEF AskRecord
<1>4. QED
  BY <1>3 DEF n

\* A bound not yet reached has room for one more.
LEMMA RoomFor ==
    ASSUME PanelTypeOK
    PROVE /\ pspent.requests < MaxRequests => [pspent EXCEPT !.requests = pspent.requests + 1] \in
                                                 [requests : 0..MaxRequests, lost : 0..MaxPubLost]
          /\ pspent.lost < MaxPubLost => [pspent EXCEPT !.lost = pspent.lost + 1] \in
                                            [requests : 0..MaxRequests, lost : 0..MaxPubLost]
<1>1. pspent \in [requests : 0..MaxRequests, lost : 0..MaxPubLost]
  BY DEF PanelTypeOK
<1>2. MaxRequests \in Nat /\ MaxPubLost \in Nat /\ pspent.requests \in Nat /\ pspent.lost \in Nat
  BY <1>1, PanelAssumption
<1>3. /\ pspent.requests < MaxRequests => pspent.requests + 1 \in 0..MaxRequests
      /\ pspent.lost < MaxPubLost => pspent.lost + 1 \in 0..MaxPubLost
  BY <1>2
<1> DEFINE a == pspent.requests + 1  b == pspent.lost + 1
<1>4. /\ a \in 0..MaxRequests => [pspent EXCEPT !.requests = a] \in [requests : 0..MaxRequests, lost : 0..MaxPubLost]
      /\ b \in 0..MaxPubLost => [pspent EXCEPT !.lost = b] \in [requests : 0..MaxRequests, lost : 0..MaxPubLost]
  <2> HIDE DEF a, b
  <2>1. QED
    BY <1>1
<1>5. QED
  BY <1>3, <1>4

\* A request nobody made is a request.
LEMMA NoRequestTyped == NoRequest \in OpRecord
<1>1. (CHOOSE r \in PReplica : TRUE) \in PReplica
  BY PanelAssumption
<1>2. QED
  BY <1>1 DEF NoRequest, OpRecord

\* An answer moves its question on, and puts a deferred message last in its
\* replica's queue.
LEMMA AnsweredTyped ==
    ASSUME PanelTypeOK, NEW q \in Asks, NEW r \in PReplica, NEW held \in BOOLEAN, Answered(q, r, held)
    PROVE /\ ask_' \in [Asks -> AskRecord]
          /\ deferq' \in [PReplica -> Seq(PMsg)]
<1>1. ask_ \in [Asks -> AskRecord] /\ deferq \in [PReplica -> Seq(PMsg)]
  BY DEF PanelTypeOK, AskRecord
<1>2. CASE ~held
  <2> DEFINE v == [ask_[q] EXCEPT !.at = r, !.st = "out", !.runs = ask_[q].runs + 1]
  <2>1. v \in AskRecord
    BY OutTyped
  <2> DEFINE f == [ask_ EXCEPT ![q].at = r]
  <2>3. f[q] = [ask_[q] EXCEPT !.at = r] /\ f[q].runs = ask_[q].runs
    BY <1>1 DEF AskRecord
  <2>4. ask_' = [f EXCEPT ![q].st = "out", ![q].runs = @ + 1] /\ deferq' = deferq
    BY <1>2 DEF Answered, Out
  <2>5. ask_' = [f EXCEPT ![q] = [f[q] EXCEPT !.st = "out", !.runs = f[q].runs + 1]]
    BY <2>4
  <2>6. v = [f[q] EXCEPT !.st = "out", !.runs = f[q].runs + 1]
    BY <2>3
  <2>7. ask_' = [f EXCEPT ![q] = v]
    BY <2>5, <2>6
  <2>2. ask_' = [ask_ EXCEPT ![q] = v] /\ deferq' = deferq
    <3> HIDE DEF v
    <3>1. QED
      BY <2>4, <2>7
  <2> HIDE DEF v
  <2>8. QED
    BY <1>1, <2>1, <2>2
<1>3. CASE held /\ q \in PReply
  <2> DEFINE v == [ask_[q] EXCEPT !.at = r, !.st = "quiet"]
  <2>1. v \in AskRecord
    BY <1>1 DEF AskRecord
  <2>2. ask_' = [ask_ EXCEPT ![q] = v] /\ deferq' = deferq
    BY <1>1, <1>3 DEF Answered
  <2> HIDE DEF v
  <2>3. QED
    BY <1>1, <2>1, <2>2
<1>4. CASE held /\ q \notin PReply
  <2> DEFINE v == [ask_[q] EXCEPT !.at = r, !.st = "deferred"]
             s == Append(deferq[r], q)
  <2>1. v \in AskRecord
    BY <1>1 DEF AskRecord
  <2>2. ask_' = [ask_ EXCEPT ![q] = v] /\ deferq' = [deferq EXCEPT ![r] = s]
    BY <1>1, <1>4 DEF Answered
  <2>3. s \in Seq(PMsg)
    BY <1>1, <1>4 DEF Asks
  <2> HIDE DEF v, s
  <2>4. QED
    BY <1>1, <2>1, <2>2, <2>3
<1>5. QED
  BY <1>2, <1>3, <1>4

\* A drain leaves queues of messages.
LEMMA DrainTyped ==
    ASSUME PanelTypeOK, NEW r \in PReplica, Drain(r)
    PROVE /\ mark' \in [PReplica -> BOOLEAN]
          /\ owner' \in [PReplica -> {"none", "free", "held"}]
          /\ deferq' \in [PReplica -> Seq(PMsg)]
          /\ replay' \in [PReplica -> SUBSET Seq(PMsg)]
<1>1. mark' \in [PReplica -> BOOLEAN] /\ owner' \in [PReplica -> {"none", "free", "held"}]
  BY DEF PanelTypeOK, Drain
<1>2. deferq' \in [PReplica -> Seq(PMsg)]
  <2>1. << >> \in Seq(PMsg)
    OBVIOUS
  <2>2. QED
    BY <2>1 DEF PanelTypeOK, Drain
<1>3. replay' \in [PReplica -> SUBSET Seq(PMsg)]
  <2> DEFINE v == IF deferq[r] = << >> THEN replay[r] ELSE replay[r] \cup {deferq[r]}
  <2>1. v \in SUBSET Seq(PMsg) /\ replay' = [replay EXCEPT ![r] = v]
    BY DEF PanelTypeOK, Drain
  <2> HIDE DEF v
  <2>2. QED
    BY <2>1 DEF PanelTypeOK
<1>4. QED
  BY <1>1, <1>2, <1>3

\* The next message of a drain, and what the drain has left.
LEMMA ReplayTyped ==
    ASSUME PanelTypeOK, NEW r \in PReplica, NEW d \in replay[r], << >> \notin replay[r]
    PROVE /\ d \in Seq(PMsg) /\ Len(d) \in Nat /\ Len(d) # 0 /\ Head(d) = d[1] /\ d[1] \in PMsg
          /\ Tail(d) \in Seq(PMsg) /\ Len(Tail(d)) = Len(d) - 1
          /\ \A i \in 1..Len(Tail(d)) : Tail(d)[i] = d[i + 1]
<1>1. d \in Seq(PMsg) /\ d # << >>
  BY DEF PanelTypeOK
<1>2. QED
  BY <1>1

-----------------------------------------------------------------------------
(***************************************************************************)
(* Types                                                                   *)
(***************************************************************************)
\* Nothing is drained that is empty, so a replayed message is one.
LEMMA PanelTypeStep == ASSUME PanelTypeOK, TakenWhole, [PanelNext]_panelVars PROVE PanelTypeOK'
<1>0. /\ plock \in POper \cup {NoOper}
      /\ mark \in [PReplica -> BOOLEAN] /\ owner \in [PReplica -> {"none", "free", "held"}]
      /\ ask_ \in [Asks -> AskRecord]
      /\ deferq \in [PReplica -> Seq(PMsg)] /\ replay \in [PReplica -> SUBSET Seq(PMsg)]
      /\ op \in [POper -> OpRecord]
      /\ sweep \in [PReplica -> {"idle", "saw", "publish"}]
      /\ news \in [PReplica -> SUBSET {"hold", "resume"}] /\ sure \subseteq PReplica
      /\ pspent \in [requests : 0..MaxRequests, lost : 0..MaxPubLost]
  BY DEF PanelTypeOK, AskRecord, OpRecord
<1> DEFINE Typed ==
      /\ plock' \in POper \cup {NoOper}
      /\ mark' \in [PReplica -> BOOLEAN] /\ owner' \in [PReplica -> {"none", "free", "held"}]
      /\ ask_' \in [Asks -> AskRecord]
      /\ deferq' \in [PReplica -> Seq(PMsg)] /\ replay' \in [PReplica -> SUBSET Seq(PMsg)]
      /\ op' \in [POper -> OpRecord]
      /\ sweep' \in [PReplica -> {"idle", "saw", "publish"}]
      /\ news' \in [PReplica -> SUBSET {"hold", "resume"}] /\ sure' \subseteq PReplica
      /\ pspent' \in [requests : 0..MaxRequests, lost : 0..MaxPubLost]
<1> SUFFICES Typed
  BY DEF PanelTypeOK, AskRecord, OpRecord
<1>1. ASSUME NEW q \in Asks, NEW r \in PReplica, AskLocal(q, r) PROVE Typed
  <2>1. Answered(q, r, mark[r] \/ owner[r] = "held") /\ (mark[r] \/ owner[r] = "held") \in BOOLEAN
    BY <1>1 DEF AskLocal
  <2>2. ask_' \in [Asks -> AskRecord] /\ deferq' \in [PReplica -> Seq(PMsg)]
    BY <2>1, AnsweredTyped
  <2>3. QED
    BY <1>0, <1>1, <2>2 DEF AskLocal
<1>2. ASSUME NEW q \in Asks, NEW r \in PReplica, AskRedis(q, r) PROVE Typed
  <2> DEFINE v == [ask_[q] EXCEPT !.at = r, !.st = IF plock = NoOper THEN "sawFree" ELSE "sawHeld"]
  <2>1. v \in AskRecord
    <3>1. ask_[q] \in AskRecord
      BY <1>0
    <3>2. (IF plock = NoOper THEN "sawFree" ELSE "sawHeld") \in {"sawFree", "sawHeld"}
      OBVIOUS
    <3>3. \A st \in {"sawFree", "sawHeld"} : [ask_[q] EXCEPT !.at = r, !.st = st] \in AskRecord
      BY <3>1 DEF AskRecord
    <3>4. QED
      BY <3>2, <3>3
  <2>2. ask_' = [ask_ EXCEPT ![q] = v]
    BY <1>0, <1>2 DEF AskRedis
  <2> HIDE DEF v
  <2>3. ask_' \in [Asks -> AskRecord]
    BY <1>0, <2>1, <2>2
  <2>4. QED
    BY <1>0, <1>2, <2>3 DEF AskRedis
<1>3. ASSUME NEW q \in Asks, AskLands(q) PROVE Typed
  <2>1. ask_[q].at \in PReplica
    BY <1>0 DEF AskRecord
  <2>2. Answered(q, ask_[q].at, ask_[q].st = "sawHeld") /\ (ask_[q].st = "sawHeld") \in BOOLEAN
    BY <1>3 DEF AskLands
  <2>3. ask_' \in [Asks -> AskRecord] /\ deferq' \in [PReplica -> Seq(PMsg)]
    BY <2>1, <2>2, AnsweredTyped
  <2>4. owner' \in [PReplica -> {"none", "free", "held"}]
    BY <1>0, <1>3 DEF AskLands
  <2>5. QED
    BY <1>0, <1>3, <2>3, <2>4 DEF AskLands
<1>4. ASSUME NEW o \in POper, NEW r \in PReplica, NEW chat \in BOOLEAN, Take(o, r, chat) PROVE Typed
  <2> DEFINE v == [pc |-> IF chat THEN "chatMark" ELSE "mark", at |-> r, had |-> chat /\ plock = o]
  <2>1. v \in OpRecord
    BY DEF OpRecord
  <2>2. op' = [op EXCEPT ![o] = v]
    BY <1>4 DEF Take
  <2> HIDE DEF v
  <2>3. op' \in [POper -> OpRecord]
    BY <1>0, <2>1, <2>2
  <2>4. pspent' \in [requests : 0..MaxRequests, lost : 0..MaxPubLost]
    BY <1>0, <1>4, RoomFor DEF Take, Request
  <2>5. QED
    BY <1>0, <1>4, <2>3, <2>4 DEF Take
<1>5. ASSUME NEW o \in POper, NEW r \in PReplica, StealReads(o, r) PROVE Typed
  <2>1. [pc |-> "steal", at |-> r, had |-> FALSE] \in OpRecord
    BY DEF OpRecord
  <2>2. op' \in [POper -> OpRecord]
    BY <1>0, <1>5, <2>1 DEF StealReads
  <2>3. pspent' \in [requests : 0..MaxRequests, lost : 0..MaxPubLost]
    BY <1>0, <1>5, RoomFor DEF StealReads, Request
  <2>4. QED
    BY <1>0, <1>5, <2>2, <2>3 DEF StealReads
<1>6. ASSUME NEW o \in POper, StealSets(o) PROVE Typed
  <2>1. op' \in [POper -> OpRecord]
    <3> DEFINE v == [op[o] EXCEPT !.pc = "mark"]
    <3>1. op[o] \in OpRecord
      BY <1>0
    <3>2. v \in OpRecord
      BY <3>1 DEF OpRecord
    <3>3. op' = [op EXCEPT ![o] = v]
      BY <1>6 DEF StealSets
    <3> HIDE DEF v
    <3>4. QED
      BY <1>0, <3>2, <3>3
  <2>2. QED
    BY <1>0, <1>6, <2>1 DEF StealSets
<1>7. ASSUME NEW o \in POper, MarkHeld(o) PROVE Typed
  <2>1. op[o] \in OpRecord
    BY <1>0
  <2>2. [op[o] EXCEPT !.pc = "chat"] \in OpRecord
    BY <2>1 DEF OpRecord
  <2>3. op' = [op EXCEPT ![o] = IF op[o].pc = "mark" THEN NoRequest ELSE [op[o] EXCEPT !.pc = "chat"]]
    BY <1>7 DEF MarkHeld
  <2>4. op' \in [POper -> OpRecord]
    BY <1>0, <2>2, <2>3, NoRequestTyped
  <2>5. /\ mark' \in [PReplica -> BOOLEAN] /\ owner' \in [PReplica -> {"none", "free", "held"}]
        /\ news' \in [PReplica -> SUBSET {"hold", "resume"}]
    BY <1>0, <1>7 DEF MarkHeld
  <2>6. QED
    BY <1>0, <1>7, <2>4, <2>5 DEF MarkHeld
<1>8. ASSUME NEW o \in POper, ChatGoes(o) PROVE Typed
  BY <1>0, <1>8, NoRequestTyped DEF ChatGoes
<1>9. ASSUME NEW o \in POper, ChatFails(o) PROVE Typed
  <2>1. op' \in [POper -> OpRecord]
    <3> DEFINE v == [op[o] EXCEPT !.pc = "resume"]
    <3>1. op[o] \in OpRecord
      BY <1>0
    <3>2. v \in OpRecord
      BY <3>1 DEF OpRecord
    <3>3. op' = [op EXCEPT ![o] = v]
      BY <1>9 DEF ChatFails
    <3> HIDE DEF v
    <3>4. QED
      BY <1>0, <3>2, <3>3
  <2>2. QED
    BY <1>0, <1>9, <2>1 DEF ChatFails, Frees
<1>10. ASSUME NEW o \in POper, NEW r \in PReplica, PanelRelease(o, r) PROVE Typed
  <2>1. [pc |-> "resume", at |-> r, had |-> FALSE] \in OpRecord
    BY DEF OpRecord
  <2>2. op' \in [POper -> OpRecord]
    BY <1>0, <1>10, <2>1 DEF PanelRelease
  <2>3. pspent' \in [requests : 0..MaxRequests, lost : 0..MaxPubLost]
    BY <1>0, <1>10, RoomFor DEF PanelRelease, Request
  <2>4. QED
    BY <1>0, <1>10, <2>2, <2>3 DEF PanelRelease, Frees
<1>11. ASSUME PanelLapse PROVE Typed
  BY <1>0, <1>11 DEF PanelLapse
<1>12. ASSUME NEW o \in POper, OpResumes(o) PROVE Typed
  <2>1. op[o] \in OpRecord /\ op[o].at \in PReplica
    BY <1>0 DEF OpRecord
  <2>2. Drain(op[o].at)
    BY <1>12 DEF OpResumes
  <2>3. [op[o] EXCEPT !.pc = "publish"] \in OpRecord /\ op' = [op EXCEPT ![o] = [op[o] EXCEPT !.pc = "publish"]]
    BY <1>0, <1>12, <2>1 DEF OpResumes, OpRecord
  <2>4. op' \in [POper -> OpRecord]
    BY <1>0, <2>3
  <2>5. QED
    BY <1>0, <1>12, <2>1, <2>2, <2>4, DrainTyped DEF OpResumes
<1>13. ASSUME NEW o \in POper, OpPublishes(o) PROVE Typed
  <2>1. news' \in [PReplica -> SUBSET {"hold", "resume"}] /\ op' \in [POper -> OpRecord]
    BY <1>0, <1>13, NoRequestTyped DEF OpPublishes
  <2>2. QED
    BY <1>0, <1>13, <2>1 DEF OpPublishes
<1>14. ASSUME NEW r \in PReplica, SweepReads(r) PROVE Typed
  BY <1>0, <1>14 DEF SweepReads
<1>15. ASSUME NEW r \in PReplica, SweepResumes(r) PROVE Typed
  BY <1>0, <1>15, DrainTyped DEF SweepResumes
<1>16. ASSUME NEW r \in PReplica, SweepPublishes(r) PROVE Typed
  BY <1>0, <1>16 DEF SweepPublishes
<1>17. ASSUME NEW r \in PReplica, HearHold(r) PROVE Typed
  BY <1>0, <1>17 DEF HearHold
<1>18. ASSUME NEW r \in PReplica, HearResume(r) PROVE Typed
  <2>1. news' \in [PReplica -> SUBSET {"hold", "resume"}]
    BY <1>0, <1>18 DEF HearResume
  <2>2. QED
    BY <1>0, <1>18, <2>1, DrainTyped DEF HearResume
<1>19. ASSUME NEW r \in PReplica, NEW w \in {"hold", "resume"}, NewsLost(r, w) PROVE Typed
  <2>1. pspent' \in [requests : 0..MaxRequests, lost : 0..MaxPubLost]
    BY <1>0, <1>19, RoomFor DEF NewsLost
  <2>2. QED
    BY <1>0, <1>19, <2>1 DEF NewsLost
<1>20. ASSUME NEW r \in PReplica, NEW d \in replay[r], ReplayNext(r, d) PROVE Typed
  <2>1. Head(d) \in PMsg /\ Tail(d) \in Seq(PMsg)
    BY ReplayTyped DEF TakenWhole
  <2> DEFINE v == [ask_[Head(d)] EXCEPT !.st = "out", !.runs = ask_[Head(d)].runs + 1]
             w == (replay[r] \ {d}) \cup (IF Len(d) = 1 THEN {} ELSE {Tail(d)})
  <2>0. Head(d) \in Asks /\ PReplica # {}
    BY <2>1, PanelAssumption DEF Asks
  <2>2. Head(d) \in Asks /\ v \in AskRecord
    BY <2>0, OutTyped
  <2>3. w \in SUBSET Seq(PMsg)
    BY <1>0, <2>1
  <2>4. ask_' = [ask_ EXCEPT ![Head(d)] = v] /\ replay' = [replay EXCEPT ![r] = w]
    BY <1>0, <1>20, <2>2 DEF ReplayNext, Out
  <2> HIDE DEF v, w
  <2>5. ask_' \in [Asks -> AskRecord] /\ replay' \in [PReplica -> SUBSET Seq(PMsg)]
    BY <1>0, <2>2, <2>3, <2>4
  <2>6. QED
    BY <1>0, <1>20, <2>5 DEF ReplayNext
<1>21. ASSUME UNCHANGED panelVars PROVE Typed
  BY <1>0, <1>21 DEF panelVars
<1> HIDE DEF Typed
<1>22. QED
  BY <1>1, <1>2, <1>3, <1>4, <1>5, <1>6, <1>7, <1>8, <1>9, <1>10, <1>11, <1>12, <1>13, <1>14,
     <1>15, <1>16, <1>17, <1>18, <1>19, <1>20, <1>21 DEF PanelNext
-----------------------------------------------------------------------------
(***************************************************************************)
(* Runs                                                                    *)
(***************************************************************************)
\* What an answer does to its question, to the others and to the queues.
LEMMA AnswerIs ==
    ASSUME PanelTypeOK, NEW q \in Asks, NEW r \in PReplica, NEW held \in BOOLEAN, Answered(q, r, held)
    PROVE /\ \A x \in Asks : x # q => ask_'[x] = ask_[x]
          /\ ask_'[q].at = r
          /\ ask_'[q].st = IF ~held THEN "out" ELSE IF q \in PReply THEN "quiet" ELSE "deferred"
          /\ ask_'[q].runs = IF held THEN ask_[q].runs ELSE ask_[q].runs + 1
          /\ deferq' = IF held /\ q \notin PReply THEN [deferq EXCEPT ![r] = Append(deferq[r], q)] ELSE deferq
<1>1. ask_ \in [Asks -> AskRecord] /\ ask_[q] \in AskRecord
  BY DEF PanelTypeOK, AskRecord
<1>2. CASE ~held
  <2> DEFINE f == [ask_ EXCEPT ![q].at = r]
  <2>1. f \in [Asks -> AskRecord] /\ f[q].at = r /\ f[q].runs = ask_[q].runs
        /\ \A x \in Asks : x # q => f[x] = ask_[x]
    BY <1>1 DEF AskRecord
  <2>2. ask_' = [f EXCEPT ![q] = [f[q] EXCEPT !.st = "out", !.runs = f[q].runs + 1]] /\ deferq' = deferq
    BY <1>2 DEF Answered, Out
  <2> HIDE DEF f
  <2>3. f[q] \in AskRecord
    BY <2>1
  <2>4. /\ ask_'[q] = [f[q] EXCEPT !.st = "out", !.runs = f[q].runs + 1]
        /\ \A x \in Asks : x # q => ask_'[x] = f[x]
    BY <2>1, <2>2
  <2>5. ask_'[q].at = r /\ ask_'[q].st = "out" /\ ask_'[q].runs = ask_[q].runs + 1
    BY <2>1, <2>3, <2>4 DEF AskRecord
  <2>6. QED
    BY <1>2, <2>1, <2>2, <2>4, <2>5
<1>3. CASE held
  BY <1>1, <1>3 DEF Answered, AskRecord
<1>4. QED
  BY <1>2, <1>3

\* What a replay does.
LEMMA ReplayIs ==
    ASSUME PanelTypeOK, TakenWhole, NEW r \in PReplica, NEW d \in replay[r], ReplayNext(r, d)
    PROVE /\ d[1] \in PMsg /\ d[1] \in Asks /\ Len(d) \in Nat /\ Len(d) # 0
          /\ \A x \in Asks : x # d[1] => ask_'[x] = ask_[x]
          /\ ask_'[d[1]].at = ask_[d[1]].at /\ ask_'[d[1]].st = "out"
          /\ ask_'[d[1]].runs = ask_[d[1]].runs + 1
          /\ deferq' = deferq
          /\ replay' = [replay EXCEPT ![r] = (replay[r] \ {d}) \cup (IF Len(d) = 1 THEN {} ELSE {Tail(d)})]
<1>1. d[1] \in PMsg /\ Head(d) = d[1] /\ d[1] \in Asks /\ Len(d) \in Nat /\ Len(d) # 0
  BY ReplayTyped DEF TakenWhole, Asks
<1>2. ask_ \in [Asks -> AskRecord] /\ ask_[d[1]] \in AskRecord
  BY <1>1 DEF PanelTypeOK, AskRecord
<1>3. ask_' = [ask_ EXCEPT ![d[1]] = [ask_[d[1]] EXCEPT !.st = "out", !.runs = ask_[d[1]].runs + 1]]
  BY <1>1, <1>2 DEF ReplayNext, Out
<1>4. ask_'[d[1]] = [ask_[d[1]] EXCEPT !.st = "out", !.runs = ask_[d[1]].runs + 1]
  BY <1>1, <1>2, <1>3
<1>5. ask_'[d[1]].at = ask_[d[1]].at /\ ask_'[d[1]].st = "out"
      /\ ask_'[d[1]].runs = ask_[d[1]].runs + 1
  BY <1>2, <1>4 DEF AskRecord
<1>6. \A x \in Asks : x # d[1] => ask_'[x] = ask_[x]
  BY <1>2, <1>3
<1>7. QED
  BY <1>1, <1>5, <1>6 DEF ReplayNext

\* The three ways a question is answered, and the steps that touch none.
LEMMA AskCases ==
    ASSUME PanelTypeOK, TakenWhole, PanelNext
    PROVE \/ \E q \in Asks, r \in PReplica, held \in BOOLEAN :
                /\ Answered(q, r, held) /\ UNCHANGED <<replay, plock, sure>>
                /\ \/ /\ ask_[q].st = "new" /\ UNCHANGED owner
                      /\ ~held => owner[r] = "free"
                   \/ /\ ask_[q].st = IF held THEN "sawHeld" ELSE "sawFree"
                      /\ r = ask_[q].at
                      /\ owner' = [owner EXCEPT ![r] = IF held THEN "held" ELSE "free"]
          \/ \E q \in Asks, r \in PReplica :
                /\ ask_[q].st = "new" /\ UNCHANGED <<deferq, replay, plock, sure>>
                /\ owner' = [owner EXCEPT ![r] = "none"]
                /\ ask_' = [ask_ EXCEPT ![q].at = r,
                                        ![q].st = IF plock = NoOper THEN "sawFree" ELSE "sawHeld"]
          \/ \E r \in PReplica : \E d \in replay[r] :
                ReplayNext(r, d) /\ UNCHANGED <<owner, plock, sure>>
          \/ \E r \in PReplica : Drain(r) /\ UNCHANGED <<ask_, plock, sure>>
          \/ UNCHANGED <<ask_, deferq, replay>>
<1>1. ASSUME NEW q \in Asks, NEW r \in PReplica, AskLocal(q, r)
      PROVE \E held \in BOOLEAN :
                /\ Answered(q, r, held) /\ UNCHANGED <<replay, plock, sure>>
                /\ ask_[q].st = "new" /\ UNCHANGED owner /\ (~held => owner[r] = "free")
  <2>1. owner[r] \in {"none", "free", "held"}
    BY DEF PanelTypeOK
  <2>2. /\ (mark[r] \/ owner[r] = "held") \in BOOLEAN
        /\ Answered(q, r, mark[r] \/ owner[r] = "held") /\ UNCHANGED <<replay, plock, sure>>
        /\ ask_[q].st = "new" /\ UNCHANGED owner
        /\ (~(mark[r] \/ owner[r] = "held") => owner[r] = "free")
    BY <1>1, <2>1 DEF AskLocal
  <2>3. QED
    BY <2>2
<1>2. ASSUME NEW q \in Asks, AskLands(q)
      PROVE \E r \in PReplica, held \in BOOLEAN :
                /\ Answered(q, r, held) /\ UNCHANGED <<replay, plock, sure>>
                /\ ask_[q].st = IF held THEN "sawHeld" ELSE "sawFree"
                /\ r = ask_[q].at
                /\ owner' = [owner EXCEPT ![r] = IF held THEN "held" ELSE "free"]
  <2>1. ask_[q].at \in PReplica
    BY DEF PanelTypeOK
  <2>2. /\ (ask_[q].st = "sawHeld") \in BOOLEAN
        /\ Answered(q, ask_[q].at, ask_[q].st = "sawHeld") /\ UNCHANGED <<replay, plock, sure>>
        /\ ask_[q].st = IF ask_[q].st = "sawHeld" THEN "sawHeld" ELSE "sawFree"
        /\ owner' = [owner EXCEPT ![ask_[q].at] = IF ask_[q].st = "sawHeld" THEN "held" ELSE "free"]
    BY <1>2 DEF AskLands, Reading
  <2>3. QED
    BY <2>1, <2>2
<1>3. ASSUME NEW q \in Asks, NEW r \in PReplica, AskRedis(q, r)
      PROVE /\ ask_[q].st = "new" /\ UNCHANGED <<deferq, replay, plock, sure>>
            /\ owner' = [owner EXCEPT ![r] = "none"]
            /\ ask_' = [ask_ EXCEPT ![q].at = r,
                                    ![q].st = IF plock = NoOper THEN "sawFree" ELSE "sawHeld"]
  BY <1>3 DEF AskRedis
<1>4. ASSUME NEW r \in PReplica, NEW d \in replay[r], ReplayNext(r, d)
      PROVE ReplayNext(r, d) /\ UNCHANGED <<owner, plock, sure>>
  BY <1>4 DEF ReplayNext
<1>5. ASSUME NEW o \in POper, OpResumes(o)
      PROVE \E r \in PReplica : Drain(r) /\ UNCHANGED <<ask_, plock, sure>>
  <2>1. op[o].at \in PReplica
    BY DEF PanelTypeOK
  <2>2. QED
    BY <1>5, <2>1 DEF OpResumes
<1>6. ASSUME NEW r \in PReplica, SweepResumes(r) \/ HearResume(r)
      PROVE Drain(r) /\ UNCHANGED <<ask_, plock, sure>>
  BY <1>6 DEF SweepResumes, HearResume
<1>7. ASSUME NEW o \in POper,
             \/ StealSets(o) \/ MarkHeld(o) \/ ChatGoes(o) \/ ChatFails(o) \/ OpPublishes(o)
             \/ \E r \in PReplica :
                   \/ StealReads(o, r) \/ PanelRelease(o, r)
                   \/ \E chat \in BOOLEAN : Take(o, r, chat)
      PROVE UNCHANGED <<ask_, deferq, replay>>
  BY <1>7 DEF StealSets, MarkHeld, ChatGoes, ChatFails, OpPublishes, StealReads, PanelRelease, Take
<1>8. ASSUME \/ PanelLapse
             \/ \E r \in PReplica : SweepReads(r) \/ SweepPublishes(r) \/ HearHold(r)
                                    \/ (\E w \in {"hold", "resume"} : NewsLost(r, w))
      PROVE UNCHANGED <<ask_, deferq, replay>>
  BY <1>8 DEF PanelLapse, SweepReads, SweepPublishes, HearHold, NewsLost
<1>9. QED
  BY <1>1, <1>2, <1>3, <1>4, <1>5, <1>6, <1>7, <1>8 DEF PanelNext

\* A message is answered while it is new or its lookup is out, and replayed while
\* it is deferred: never when it is out.
LEMMA RunsStep ==
    ASSUME PanelInv, [PanelNext]_panelVars
    PROVE RunsCount'
<1> USE DEF PanelInv
<1>0. \A x \in Asks : ask_[x].runs \in Nat
  BY DEF PanelTypeOK
<1>1. CASE UNCHANGED ask_
  BY <1>1 DEF RunsCount
<1>2. ASSUME NEW q \in Asks, NEW r \in PReplica, NEW held \in BOOLEAN, Answered(q, r, held),
             ask_[q].st # "out"
      PROVE RunsCount'
  <2>1. /\ \A x \in Asks : x # q => ask_'[x] = ask_[x]
        /\ ask_'[q].st = IF ~held THEN "out" ELSE IF q \in PReply THEN "quiet" ELSE "deferred"
        /\ ask_'[q].runs = IF held THEN ask_[q].runs ELSE ask_[q].runs + 1
    BY <1>2, AnswerIs
  <2>2. ask_[q].runs = 0
    BY <1>2 DEF RunsCount
  <2>3. QED
    BY <2>1, <2>2 DEF RunsCount
<1>3. ASSUME NEW q \in Asks, NEW r \in PReplica, NEW v \in {"sawFree", "sawHeld"}, ask_[q].st = "new",
             ask_' = [ask_ EXCEPT ![q].at = r, ![q].st = v]
      PROVE RunsCount'
  <2>1. \A x \in Asks : ask_'[x].runs = ask_[x].runs /\ (x # q => ask_'[x] = ask_[x]) /\ ask_'[q].st = v
    BY <1>3 DEF PanelTypeOK
  <2>2. QED
    BY <1>3, <2>1 DEF RunsCount
<1>4. ASSUME NEW r \in PReplica, NEW d \in replay[r], ReplayNext(r, d) PROVE RunsCount'
  <2>1. /\ d[1] \in Asks /\ Len(d) \in Nat /\ Len(d) # 0
        /\ \A x \in Asks : x # d[1] => ask_'[x] = ask_[x]
        /\ ask_'[d[1]].st = "out" /\ ask_'[d[1]].runs = ask_[d[1]].runs + 1
    BY <1>4, ReplayIs
  <2>2. ask_[d[1]].st = "deferred"
    BY <2>1 DEF QueuedIsDeferred, QueuesOf
  <2>3. ask_[d[1]].runs = 0
    BY <2>1, <2>2 DEF RunsCount
  <2>4. QED
    BY <2>1, <2>3 DEF RunsCount
<1>5. CASE PanelNext
  BY <1>1, <1>2, <1>3, <1>4, <1>5, AskCases
<1>6. CASE UNCHANGED panelVars
  BY <1>1, <1>6 DEF panelVars
<1>7. QED
  BY <1>5, <1>6
-----------------------------------------------------------------------------
(***************************************************************************)
(* Queues                                                                  *)
(***************************************************************************)
\* Steps that leave the queues alone and touch no deferred message.
LEMMA QueuesStay ==
    ASSUME QueueInv, UNCHANGED <<deferq, replay>>,
           \A r \in PReplica : \A s \in QueuesOf(r) : \A i \in 1..Len(s) : ask_'[s[i]] = ask_[s[i]]
    PROVE QueueInv'
<1>1. \A r \in PReplica : QueuesOf(r)' = QueuesOf(r)
  BY DEF QueuesOf
<1>2. QueuedIsDeferred'
  BY <1>1 DEF QueueInv, QueuedIsDeferred
<1>3. QueuedOnce'
  BY <1>1 DEF QueueInv, QueuedOnce
<1>4. TakenWhole'
  BY DEF QueueInv, TakenWhole
<1>5. QED
  BY <1>2, <1>3, <1>4 DEF QueueInv

\* Queues hold messages.
LEMMA QueuedAreMessages ==
    ASSUME PanelTypeOK, NEW r \in PReplica, NEW s \in QueuesOf(r)
    PROVE s \in Seq(PMsg) /\ Len(s) \in Nat /\ \A i \in 1..Len(s) : s[i] \in PMsg /\ s[i] \in Asks
<1>1. s \in Seq(PMsg)
  BY DEF PanelTypeOK, QueuesOf
<1>2. QED
  BY <1>1 DEF Asks

\* An answer appends its message to one queue, in none of which it was.
LEMMA AnsweredQueues ==
    ASSUME PanelTypeOK, QueueInv, NEW q \in Asks, NEW r \in PReplica, NEW held \in BOOLEAN,
           Answered(q, r, held), UNCHANGED replay, ask_[q].st # "deferred"
    PROVE QueueInv'
<1>1. /\ \A x \in Asks : x # q => ask_'[x] = ask_[x]
      /\ ask_'[q].at = r
      /\ ask_'[q].st = IF ~held THEN "out" ELSE IF q \in PReply THEN "quiet" ELSE "deferred"
      /\ deferq' = IF held /\ q \notin PReply THEN [deferq EXCEPT ![r] = Append(deferq[r], q)] ELSE deferq
  BY AnswerIs
<1>2. \A x \in PReplica : \A s \in QueuesOf(x) : \A i \in 1..Len(s) :
          s[i] \in Asks /\ s[i] # q /\ ask_'[s[i]] = ask_[s[i]]
  BY <1>1, QueuedAreMessages DEF QueueInv, QueuedIsDeferred
<1>3. CASE ~held \/ q \in PReply
  BY <1>1, <1>2, <1>3, QueuesStay
<1>4. CASE held /\ q \notin PReply
  <2> DEFINE t == Append(deferq[r], q)
  <2>1. deferq \in [PReplica -> Seq(PMsg)] /\ q \in PMsg
    BY <1>4 DEF PanelTypeOK, Asks
  <2>2. /\ t \in Seq(PMsg) /\ Len(t) = Len(deferq[r]) + 1 /\ Len(deferq[r]) \in Nat /\ t[Len(t)] = q
        /\ \A i \in 1..Len(t) : i # Len(t) => i \in 1..Len(deferq[r]) /\ t[i] = deferq[r][i]
    BY <2>1
  <2>3. deferq' = [deferq EXCEPT ![r] = t] /\ replay' = replay
    BY <1>1, <1>4
  <2>4. /\ \A x \in PReplica : x # r => QueuesOf(x)' = QueuesOf(x)
        /\ QueuesOf(r)' = replay[r] \cup {t}
    <3> HIDE DEF t
    <3>1. QED
      BY <2>1, <2>3 DEF QueuesOf
  <2>5. deferq[r] \in QueuesOf(r) /\ replay[r] \subseteq QueuesOf(r)
    BY DEF QueuesOf
  <2> HIDE DEF t
  <2>6. QueuedIsDeferred'
    <3>1. ASSUME NEW x \in PReplica, NEW s \in QueuesOf(x)', NEW i \in 1..Len(s)
          PROVE ask_'[s[i]].st = "deferred" /\ ask_'[s[i]].at = x
      <4>1. CASE s \in QueuesOf(x)
        BY <1>2, <3>1, <4>1 DEF QueueInv, QueuedIsDeferred
      <4>2. CASE x = r /\ s = t /\ i = Len(t)
        BY <1>1, <1>4, <2>2, <4>2
      <4>3. CASE x = r /\ s = t /\ i # Len(t)
        <5>1. i \in 1..Len(deferq[r]) /\ t[i] = deferq[r][i]
          BY <2>2, <3>1, <4>3
        <5>2. QED
          BY <1>2, <2>5, <4>3, <5>1 DEF QueueInv, QueuedIsDeferred
      <4>4. QED
        BY <2>4, <2>5, <3>1, <4>1, <4>2, <4>3
    <3>2. QED
      BY <3>1 DEF QueuedIsDeferred
  <2>7. TakenWhole'
    <3>1. t \notin replay[r]
      <4>1. SUFFICES ASSUME t \in replay[r] PROVE FALSE
        OBVIOUS
      <4>2. Len(t) \in 1..Len(t)
        BY <2>2
      <4>3. QED
        BY <1>2, <2>2, <2>5, <4>1, <4>2
    <3>2. QED
      BY <2>1, <2>3, <3>1 DEF QueueInv, TakenWhole
  <2>8. QueuedOnce'
    <3>1. ASSUME NEW x \in PReplica, NEW s \in QueuesOf(x)', NEW u \in QueuesOf(x)',
                 NEW i \in 1..Len(s), NEW j \in 1..Len(u), s[i] = u[j]
          PROVE s = u /\ i = j
      <4>1. CASE s \in QueuesOf(x) /\ u \in QueuesOf(x)
        BY <3>1, <4>1 DEF QueueInv, QueuedOnce
      <4>2. ASSUME x = r, NEW a \in replay[r], NEW k \in 1..Len(a), NEW l \in 1..Len(t), a[k] = t[l]
            PROVE FALSE
        <5>1. CASE l = Len(t)
          BY <1>2, <2>2, <2>5, <4>2, <5>1
        <5>2. CASE l # Len(t)
          <6>1. l \in 1..Len(deferq[r]) /\ t[l] = deferq[r][l]
            BY <2>2, <4>2, <5>2
          <6>2. a = deferq[r]
            BY <2>5, <4>2, <6>1 DEF QueueInv, QueuedOnce
          <6>3. QED
            BY <6>2 DEF QueueInv, TakenWhole
        <5>3. QED
          BY <5>1, <5>2
      <4>3. ASSUME s = t, u = t, x = r PROVE i = j
        <5>1. CASE i = Len(t) /\ j = Len(t)
          BY <5>1
        <5>2. CASE i # Len(t) /\ j # Len(t)
          <6>1. /\ i \in 1..Len(deferq[r]) /\ t[i] = deferq[r][i]
                /\ j \in 1..Len(deferq[r]) /\ t[j] = deferq[r][j]
            BY <2>2, <3>1, <4>3, <5>2
          <6>2. QED
            BY <2>5, <3>1, <4>3, <6>1 DEF QueueInv, QueuedOnce
        <5>3. CASE i = Len(t) /\ j # Len(t)
          <6>1. j \in 1..Len(deferq[r]) /\ t[j] = deferq[r][j] /\ t[i] = q
            BY <2>2, <3>1, <4>3, <5>3
          <6>2. QED
            BY <1>2, <2>5, <3>1, <4>3, <6>1
        <5>4. CASE i # Len(t) /\ j = Len(t)
          <6>1. i \in 1..Len(deferq[r]) /\ t[i] = deferq[r][i] /\ t[j] = q
            BY <2>2, <3>1, <4>3, <5>4
          <6>2. QED
            BY <1>2, <2>5, <3>1, <4>3, <6>1
        <5>5. QED
          BY <5>1, <5>2, <5>3, <5>4
      <4>4. CASE x # r
        BY <2>4, <3>1, <4>1, <4>4
      <4>5. CASE x = r
        <5>1. s \in replay[r] \cup {t} /\ u \in replay[r] \cup {t}
          BY <2>4, <3>1, <4>5
        <5>2. CASE s \in replay[r] /\ u \in replay[r]
          BY <2>5, <4>1, <4>5, <5>2
        <5>3. CASE s = t /\ u = t
          BY <4>3, <4>5, <5>3
        <5>4. CASE s \in replay[r] /\ u = t
          BY <3>1, <4>2, <4>5, <5>4
        <5>5. CASE s = t /\ u \in replay[r]
          BY <3>1, <4>2, <4>5, <5>5
        <5>6. QED
          BY <5>1, <5>2, <5>3, <5>4, <5>5
      <4>6. QED
        BY <4>4, <4>5
    <3>2. QED
      BY <3>1 DEF QueuedOnce
  <2>9. QED
    BY <2>6, <2>7, <2>8 DEF QueueInv
<1>5. QED
  BY <1>3, <1>4

\* A drain takes the deferred queue whole: the queues are the same, and an
\* empty one.
LEMMA DrainQueues ==
    ASSUME PanelTypeOK, QueueInv, NEW r \in PReplica, Drain(r), UNCHANGED ask_
    PROVE QueueInv'
<1>1. deferq \in [PReplica -> Seq(PMsg)] /\ replay \in [PReplica -> SUBSET Seq(PMsg)]
  BY DEF PanelTypeOK
<1>2. /\ deferq' = [deferq EXCEPT ![r] = << >>]
      /\ replay' = [replay EXCEPT ![r] = IF deferq[r] = << >> THEN replay[r] ELSE replay[r] \cup {deferq[r]}]
  BY DEF Drain
<1>3. /\ \A x \in PReplica : x # r => deferq'[x] = deferq[x] /\ replay'[x] = replay[x]
      /\ deferq'[r] = << >> /\ replay'[r] \subseteq replay[r] \cup {deferq[r]} /\ << >> \notin replay'[r]
  BY <1>1, <1>2 DEF QueueInv, TakenWhole
<1>4. \A x \in PReplica : \A s \in QueuesOf(x)' : s \in QueuesOf(x) \/ s = << >>
  BY <1>3 DEF QueuesOf
<1>5. QueuedIsDeferred'
  BY <1>4 DEF QueueInv, QueuedIsDeferred
<1>6. QueuedOnce'
  BY <1>4 DEF QueueInv, QueuedOnce
<1>7. TakenWhole'
  BY <1>3 DEF QueueInv, TakenWhole
<1>8. QED
  BY <1>5, <1>6, <1>7 DEF QueueInv

\* A replay takes the first message of one drain out of every queue.
LEMMA ReplayQueues ==
    ASSUME PanelTypeOK, QueueInv, NEW r \in PReplica, NEW d \in replay[r], ReplayNext(r, d)
    PROVE QueueInv'
<1>1. /\ d[1] \in Asks /\ Len(d) \in Nat /\ Len(d) # 0
      /\ \A x \in Asks : x # d[1] => ask_'[x] = ask_[x]
      /\ deferq' = deferq
      /\ replay' = [replay EXCEPT ![r] = (replay[r] \ {d}) \cup (IF Len(d) = 1 THEN {} ELSE {Tail(d)})]
  BY ReplayIs DEF QueueInv
<1>2. /\ Tail(d) \in Seq(PMsg) /\ Len(Tail(d)) = Len(d) - 1
      /\ \A i \in 1..Len(Tail(d)) : Tail(d)[i] = d[i + 1]
  BY ReplayTyped DEF QueueInv, TakenWhole
<1> DEFINE t == Tail(d)
<1>3. \A i \in 1..Len(t) : i + 1 \in 1..Len(d) /\ t[i] = d[i + 1] /\ i + 1 # 1
  BY <1>1, <1>2
<1>4. replay \in [PReplica -> SUBSET Seq(PMsg)]
  BY DEF PanelTypeOK
<1>5. /\ \A x \in PReplica : x # r => replay'[x] = replay[x]
      /\ replay'[r] = (replay[r] \ {d}) \cup (IF Len(d) = 1 THEN {} ELSE {t})
  BY <1>1, <1>4
<1>6. d \in QueuesOf(r) /\ deferq[r] \in QueuesOf(r) /\ d # deferq[r] /\ 1 \in 1..Len(d)
  BY <1>1 DEF QueuesOf, QueueInv, TakenWhole
<1> HIDE DEF t
<1>7. \A x \in PReplica : \A s \in QueuesOf(x) : \A i \in 1..Len(s) :
          s # d \/ i # 1 => s[i] \in Asks /\ s[i] # d[1]
  <2>1. ASSUME NEW x \in PReplica, NEW s \in QueuesOf(x), NEW i \in 1..Len(s), s[i] = d[1]
        PROVE s = d /\ i = 1
    <3>1. x = r
      BY <1>6, <2>1 DEF QueueInv, QueuedIsDeferred
    <3>2. QED
      BY <1>6, <2>1, <3>1 DEF QueueInv, QueuedOnce
  <2>2. QED
    BY <2>1, QueuedAreMessages
<1>8. \A x \in PReplica : \A s \in QueuesOf(x)' :
          (s \in QueuesOf(x) /\ s # d) \/ (x = r /\ s = t /\ Len(d) # 1)
  <2>1. ASSUME NEW x \in PReplica, x # r, NEW s \in QueuesOf(x)' PROVE s \in QueuesOf(x)
    BY <1>1, <1>5, <2>1 DEF QueuesOf
  <2>2. ASSUME NEW x \in PReplica, x # r, NEW s \in QueuesOf(x), s = d PROVE FALSE
    BY <1>6, <2>2 DEF QueueInv, QueuedIsDeferred
  <2>3. ASSUME NEW s \in QueuesOf(r)' PROVE (s \in QueuesOf(r) /\ s # d) \/ (s = t /\ Len(d) # 1)
    BY <1>1, <1>5, <1>6, <2>3 DEF QueuesOf
  <2>4. QED
    BY <2>1, <2>2, <2>3
<1>9. QueuedIsDeferred'
  <2>1. ASSUME NEW x \in PReplica, NEW s \in QueuesOf(x)', NEW i \in 1..Len(s)
        PROVE ask_'[s[i]].st = "deferred" /\ ask_'[s[i]].at = x
    <3>1. CASE s \in QueuesOf(x) /\ s # d
      BY <1>1, <1>7, <2>1, <3>1 DEF QueueInv, QueuedIsDeferred
    <3>2. CASE x = r /\ s = t
      <4>1. i + 1 \in 1..Len(d) /\ t[i] = d[i + 1] /\ i + 1 # 1
        BY <1>3, <2>1, <3>2
      <4>2. d[i + 1] \in Asks /\ d[i + 1] # d[1]
        BY <1>6, <1>7, <4>1
      <4>3. ask_[d[i + 1]].st = "deferred" /\ ask_[d[i + 1]].at = r
        BY <1>6, <4>1 DEF QueueInv, QueuedIsDeferred
      <4>4. QED
        BY <1>1, <3>2, <4>1, <4>2, <4>3
    <3>3. QED
      BY <1>8, <2>1, <3>1, <3>2
  <2>2. QED
    BY <2>1 DEF QueuedIsDeferred
<1>10. QueuedOnce'
  <2>1. ASSUME NEW x \in PReplica, NEW s \in QueuesOf(x)', NEW u \in QueuesOf(x)',
               NEW i \in 1..Len(s), NEW j \in 1..Len(u), s[i] = u[j]
        PROVE s = u /\ i = j
    <3>1. CASE s \in QueuesOf(x) /\ s # d /\ u \in QueuesOf(x) /\ u # d
      BY <2>1, <3>1 DEF QueueInv, QueuedOnce
    <3>2. ASSUME NEW a \in QueuesOf(r), a # d, NEW k \in 1..Len(a), NEW l \in 1..Len(t), a[k] = t[l]
          PROVE FALSE
      <4>1. l + 1 \in 1..Len(d) /\ t[l] = d[l + 1]
        BY <1>3
      <4>2. QED
        BY <1>6, <3>2, <4>1 DEF QueueInv, QueuedOnce
    <3>3. ASSUME s = t, u = t PROVE i = j
      <4>1. i + 1 \in 1..Len(d) /\ t[i] = d[i + 1] /\ j + 1 \in 1..Len(d) /\ t[j] = d[j + 1]
        BY <1>3, <2>1, <3>3
      <4>2. i + 1 = j + 1
        BY <1>6, <2>1, <3>3, <4>1 DEF QueueInv, QueuedOnce
      <4>3. QED
        BY <1>1, <1>2, <2>1, <3>3, <4>2 DEF t
    <3>4. CASE s \in QueuesOf(x) /\ s # d /\ x = r /\ u = t
      BY <2>1, <3>2, <3>4
    <3>5. CASE u \in QueuesOf(x) /\ u # d /\ x = r /\ s = t
      BY <2>1, <3>2, <3>5
    <3>6. CASE s = t /\ u = t
      BY <3>3, <3>6
    <3>7. QED
      BY <1>8, <2>1, <3>1, <3>4, <3>5, <3>6
  <2>2. QED
    BY <2>1 DEF QueuedOnce
<1>11. TakenWhole'
  <2>1. Len(d) # 1 => t # << >> /\ t # deferq[r]
    <3>1. SUFFICES ASSUME Len(d) # 1 PROVE 1 \in 1..Len(t) /\ t # deferq[r]
      OBVIOUS
    <3>2. 1 \in 1..Len(t) /\ 2 \in 1..Len(d) /\ t[1] = d[2]
      BY <1>1, <1>2, <1>3, <3>1 DEF t
    <3>3. t # deferq[r]
      BY <1>6, <3>2 DEF QueueInv, QueuedOnce
    <3>4. QED
      BY <3>2, <3>3
  <2>2. QED
    BY <1>1, <1>5, <2>1 DEF QueueInv, TakenWhole
<1>12. QED
  BY <1>9, <1>10, <1>11 DEF QueueInv
\* Every step keeps the queues in order.
LEMMA QueueStep == ASSUME PanelInv, [PanelNext]_panelVars PROVE QueueInv'
<1>0. PanelTypeOK /\ QueueInv /\ TakenWhole
  BY DEF PanelInv, QueueInv
<1>1. CASE UNCHANGED <<ask_, deferq, replay>>
  BY <1>0, <1>1, QueuesStay
<1>2. ASSUME NEW q \in Asks, NEW r \in PReplica, NEW v \in {"sawFree", "sawHeld"}, ask_[q].st = "new",
             ask_' = [ask_ EXCEPT ![q].at = r, ![q].st = v], UNCHANGED <<deferq, replay>>
      PROVE QueueInv'
  <2>1. \A x \in Asks : x # q => ask_'[x] = ask_[x]
    BY <1>0, <1>2 DEF PanelTypeOK
  <2>2. \A x \in PReplica : \A s \in QueuesOf(x) : \A i \in 1..Len(s) : s[i] \in Asks /\ s[i] # q
    BY <1>0, <1>2, QueuedAreMessages DEF QueueInv, QueuedIsDeferred
  <2>3. QED
    BY <1>0, <1>2, <2>1, <2>2, QueuesStay
<1>3. CASE PanelNext
  <2>1. ASSUME NEW q \in Asks, NEW r \in PReplica, NEW held \in BOOLEAN, Answered(q, r, held),
               UNCHANGED replay, ask_[q].st \in {"new", "sawHeld", "sawFree"}
        PROVE QueueInv'
    BY <1>0, <2>1, AnsweredQueues
  <2>2. ASSUME NEW r \in PReplica, Drain(r), UNCHANGED ask_ PROVE QueueInv'
    BY <1>0, <2>2, DrainQueues
  <2>3. ASSUME NEW r \in PReplica, NEW d \in replay[r], ReplayNext(r, d) PROVE QueueInv'
    BY <1>0, <2>3, ReplayQueues
  <2>4. ASSUME NEW q \in Asks, NEW r \in PReplica, ask_[q].st = "new", UNCHANGED <<deferq, replay>>,
               ask_' = [ask_ EXCEPT ![q].at = r, ![q].st = IF plock = NoOper THEN "sawFree" ELSE "sawHeld"]
        PROVE QueueInv'
    BY <1>2, <2>4
  <2>5. QED
    BY <1>0, <1>1, <1>3, <2>1, <2>2, <2>3, <2>4, AskCases
<1>4. CASE UNCHANGED panelVars
  BY <1>1, <1>4 DEF panelVars
<1>5. QED
  BY <1>3, <1>4

-----------------------------------------------------------------------------
(***************************************************************************)
(* What a replica that was told knows                                      *)
(***************************************************************************)
\* The lock's end forgets who was told of it; a hold broadcast drops the cache,
\* and makes sure only a replica with no lookup out; a lookup made under the
\* lock sees it.
LEMMA SureStep == ASSUME PanelInv, [PanelNext]_panelVars PROVE SureOfLock'
<1> USE DEF PanelInv
<1>0. /\ owner \in [PReplica -> {"none", "free", "held"}] /\ sure \subseteq PReplica
      /\ ask_ \in [Asks -> AskRecord] /\ TakenWhole /\ PanelTypeOK
  BY DEF PanelTypeOK, AskRecord
<1>1. ASSUME UNCHANGED <<owner, ask_>>, sure' \subseteq sure, plock' = NoOper => sure' = {}
      PROVE SureOfLock'
  BY <1>1 DEF SureOfLock
<1>2. ASSUME NEW q \in Asks, NEW r \in PReplica, NEW held \in BOOLEAN, Answered(q, r, held),
             UNCHANGED <<plock, sure>>,
             \/ UNCHANGED owner
             \/ /\ ask_[q].st = IF held THEN "sawHeld" ELSE "sawFree"
                /\ r = ask_[q].at
                /\ owner' = [owner EXCEPT ![r] = IF held THEN "held" ELSE "free"]
      PROVE SureOfLock'
  <2>1. \A x \in Asks : ask_'[x].st = "sawFree" => ask_'[x] = ask_[x]
    BY <1>0, <1>2, AnswerIs
  <2>2. \A x \in sure : owner'[x] # "free"
    BY <1>0, <1>2 DEF SureOfLock
  <2>3. QED
    BY <1>2, <2>1, <2>2 DEF SureOfLock
<1>3. ASSUME NEW q \in Asks, NEW r \in PReplica, ask_[q].st = "new", UNCHANGED <<plock, sure>>,
             owner' = [owner EXCEPT ![r] = "none"],
             ask_' = [ask_ EXCEPT ![q].at = r,
                                  ![q].st = IF plock = NoOper THEN "sawFree" ELSE "sawHeld"]
      PROVE SureOfLock'
  <2>1. \A x \in sure : owner'[x] # "free"
    BY <1>0, <1>3 DEF SureOfLock
  <2>2. /\ \A x \in Asks : x # q => ask_'[x] = ask_[x]
        /\ ask_'[q].st = IF plock = NoOper THEN "sawFree" ELSE "sawHeld"
    BY <1>0, <1>3 DEF AskRecord
  <2>3. \A x \in Asks : ask_'[x].st = "sawFree" => ask_'[x].at \notin sure
    <3>1. CASE plock = NoOper
      BY <3>1 DEF SureOfLock
    <3>2. CASE plock # NoOper
      BY <2>2, <3>2 DEF SureOfLock
    <3>3. QED
      BY <3>1, <3>2
  <2>4. sure' = sure /\ plock' = plock
    BY <1>3
  <2>5. QED
    BY <2>1, <2>3, <2>4 DEF SureOfLock
<1>4. ASSUME NEW r \in PReplica, NEW d \in replay[r], ReplayNext(r, d), UNCHANGED <<owner, plock, sure>>
      PROVE SureOfLock'
  <2>1. \A x \in Asks : ask_'[x].st = "sawFree" => ask_'[x] = ask_[x]
    BY <1>0, <1>4, ReplayIs
  <2>2. QED
    BY <1>4, <2>1 DEF SureOfLock
<1>5. ASSUME NEW r \in PReplica, Drain(r), UNCHANGED <<ask_, plock, sure>> PROVE SureOfLock'
  <2>1. owner' = [owner EXCEPT ![r] = "none"]
    BY <1>5 DEF Drain
  <2>2. \A x \in sure : owner'[x] # "free"
    BY <1>0, <2>1 DEF SureOfLock
  <2>3. QED
    BY <1>5, <2>2 DEF SureOfLock
<1>6. ASSUME NEW q \in Asks, AskLands(q) \/ \E r \in PReplica : AskLocal(q, r) \/ AskRedis(q, r)
      PROVE SureOfLock'
  <2>1. CASE \E r \in PReplica : AskRedis(q, r)
    BY <1>3, <2>1 DEF AskRedis
  <2>2. ASSUME NEW r \in PReplica, AskLocal(q, r) PROVE SureOfLock'
    <3>1. /\ (mark[r] \/ owner[r] = "held") \in BOOLEAN /\ Answered(q, r, mark[r] \/ owner[r] = "held")
          /\ UNCHANGED <<plock, sure, owner>>
      BY <2>2 DEF AskLocal
    <3>2. QED
      BY <1>2, <3>1
  <2>3. CASE AskLands(q)
    <3>1. /\ ask_[q].at \in PReplica /\ (ask_[q].st = "sawHeld") \in BOOLEAN
          /\ Answered(q, ask_[q].at, ask_[q].st = "sawHeld") /\ UNCHANGED <<plock, sure>>
          /\ ask_[q].st = IF ask_[q].st = "sawHeld" THEN "sawHeld" ELSE "sawFree"
          /\ owner' = [owner EXCEPT ![ask_[q].at] = IF ask_[q].st = "sawHeld" THEN "held" ELSE "free"]
      BY <1>0, <2>3 DEF AskLands, Reading, AskRecord
    <3>2. QED
      BY <1>2, <3>1
  <2>4. QED
    BY <1>6, <2>1, <2>2, <2>3
<1>7. ASSUME NEW o \in POper,
             \/ StealSets(o) \/ ChatGoes(o) \/ ChatFails(o) \/ OpPublishes(o)
             \/ \E r \in PReplica :
                   \/ StealReads(o, r) \/ PanelRelease(o, r)
                   \/ \E chat \in BOOLEAN : Take(o, r, chat)
      PROVE SureOfLock'
  <2>1. UNCHANGED <<owner, ask_>>
    BY <1>7 DEF StealSets, ChatGoes, ChatFails, OpPublishes, StealReads, PanelRelease, Take
  <2>2. o # NoOper /\ (plock = NoOper => sure = {})
    BY PanelAssumption DEF SureOfLock
  <2>3. sure' \subseteq sure /\ (plock' = NoOper => sure' = {})
    BY <1>7, <2>2 DEF StealSets, ChatGoes, ChatFails, OpPublishes, StealReads, PanelRelease, Take, Frees
  <2>4. QED
    BY <1>1, <2>1, <2>3
<1>8. ASSUME NEW o \in POper, MarkHeld(o) PROVE SureOfLock'
  <2>1. \A x \in sure : owner'[x] # "free"
    BY <1>0, <1>8 DEF SureOfLock, MarkHeld
  <2>2. QED
    BY <1>8, <2>1 DEF SureOfLock, MarkHeld
<1>9. ASSUME NEW r \in PReplica, HearHold(r) PROVE SureOfLock'
  <2>1. UNCHANGED <<plock, ask_>> /\ owner' = [owner EXCEPT ![r] = "none"]
        /\ sure' = IF plock # NoOper /\ Reading(r) = {} THEN sure \cup {r} ELSE sure
    BY <1>9 DEF HearHold
  <2>2. Reading(r) = {} => \A q \in Asks : ask_[q].st = "sawFree" => ask_[q].at # r
    BY DEF Reading
  <2>3. owner'[r] # "free" /\ \A x \in sure : owner'[x] # "free"
    BY <1>0, <2>1 DEF SureOfLock
  <2>4. QED
    BY <2>1, <2>2, <2>3 DEF SureOfLock
<1>10. ASSUME NEW o \in POper, OpResumes(o) PROVE SureOfLock'
  <2>1. op[o].at \in PReplica
    BY <1>0 DEF PanelTypeOK
  <2>2. QED
    BY <1>5, <1>10, <2>1 DEF OpResumes
<1>11. ASSUME NEW r \in PReplica, SweepResumes(r) \/ HearResume(r) PROVE SureOfLock'
  BY <1>5, <1>11 DEF SweepResumes, HearResume
<1>12. ASSUME NEW r \in PReplica, NEW d \in replay[r], ReplayNext(r, d) PROVE SureOfLock'
  BY <1>4, <1>12 DEF ReplayNext
<1>13. ASSUME \/ PanelLapse \/ UNCHANGED panelVars
              \/ \E r \in PReplica : SweepReads(r) \/ SweepPublishes(r)
                                     \/ (\E w \in {"hold", "resume"} : NewsLost(r, w))
       PROVE SureOfLock'
  <2>1. UNCHANGED <<owner, ask_>>
    BY <1>13 DEF PanelLapse, SweepReads, SweepPublishes, NewsLost, panelVars
  <2>2. sure' \subseteq sure /\ (plock' = NoOper => sure' = {})
    BY <1>13 DEF PanelLapse, SweepReads, SweepPublishes, NewsLost, panelVars, SureOfLock
  <2>3. QED
    BY <1>1, <2>1, <2>2
<1>14. QED
  BY <1>6, <1>7, <1>8, <1>9, <1>10, <1>11, <1>12, <1>13 DEF PanelNext

-----------------------------------------------------------------------------
(***************************************************************************)
(* The theorems                                                            *)
(***************************************************************************)
\* The invariant holds of a session nobody has taken.
LEMMA PanelInvInit == PanelInit => PanelInv
<1> SUFFICES ASSUME PanelInit PROVE PanelInv
  OBVIOUS
<1>1. (CHOOSE r \in PReplica : TRUE) \in PReplica
  BY PanelAssumption
<1> DEFINE a == CHOOSE r \in PReplica : TRUE
<1>2. ask_ = [q \in Asks |-> [st |-> "new", at |-> a, runs |-> 0]]
  BY DEF PanelInit
<1>3. a \in PReplica
  BY <1>1
<1> HIDE DEF a
<1>4. ask_ \in [Asks -> AskRecord] /\ \A q \in Asks : ask_[q].st = "new" /\ ask_[q].runs = 0
  BY <1>2, <1>3 DEF AskRecord
<1>5. op \in [POper -> OpRecord]
  BY NoRequestTyped DEF PanelInit
<1>6. pspent \in [requests : 0..MaxRequests, lost : 0..MaxPubLost]
  <2>1. 0 \in 0..MaxRequests /\ 0 \in 0..MaxPubLost
    BY PanelAssumption
  <2>2. QED
    BY <2>1 DEF PanelInit
<1>7. PanelTypeOK
  BY <1>4, <1>5, <1>6 DEF PanelInit, PanelTypeOK, AskRecord, OpRecord
<1>8. QueuedIsDeferred /\ QueuedOnce /\ TakenWhole
  <2>1. \A r \in PReplica : deferq[r] = << >> /\ replay[r] = {} /\ QueuesOf(r) = {<< >>}
    BY DEF PanelInit, QueuesOf
  <2>2. Len(<< >>) = 0
    OBVIOUS
  <2>3. QED
    BY <2>1, <2>2 DEF QueuedIsDeferred, QueuedOnce, TakenWhole
<1>9. RunsCount /\ SureOfLock
  BY <1>4 DEF PanelInit, RunsCount, SureOfLock
<1>10. QED
  BY <1>7, <1>8, <1>9 DEF PanelInv

\* And after every step.
LEMMA PanelInvStep == PanelInv /\ [PanelNext]_panelVars => PanelInv'
<1> SUFFICES ASSUME PanelInv, [PanelNext]_panelVars PROVE PanelInv'
  OBVIOUS
<1>1. PanelTypeOK'
  BY PanelTypeStep DEF PanelInv
<1>2. QED
  BY <1>1, QueueStep, RunsStep, SureStep DEF PanelInv, QueueInv

\* Every variable of the panel's control keeps its type.
THEOREM PanelTyped == PanelSpec => []PanelTypeOK
<1>1. PanelInv => PanelTypeOK
  BY DEF PanelInv
<1>2. QED
  BY <1>1, PanelInvInit, PanelInvStep, PTL DEF PanelSpec

\* A deferred message reaches its session at most once, although the release of
\* one operator, the failed chat of another, every replica's sweeper and every
\* broadcast drain its queue (drainPanelDefer).
THEOREM DeferredReplayOnce == PanelSpec => []ReplayedOnce
<1>1. PanelInv => ReplayedOnce
  BY DEF PanelInv, RunsCount, ReplayedOnce, Asks
<1>2. QED
  BY <1>1, PanelInvInit, PanelInvStep, PTL DEF PanelSpec

\* A replica that dropped its cache for the present lock, with no lookup out,
\* answers no question "free" while the lock is held (panelHeldAsync).
THEOREM ToldReplicasHold == PanelSpec => ToldReplicaHolds
<1> DEFINE LetsNonePast ==
      \A q \in Asks : \A r \in sure :
          plock # NoOper => ~(/\ ask_[q].st \in {"new", "sawFree"}
                             /\ ask_'[q].st = "out" /\ ask_'[q].at = r)
<1>1. ASSUME PanelInv, [PanelNext]_panelVars PROVE [LetsNonePast]_panelVars
  <2>0. /\ PanelTypeOK /\ TakenWhole /\ SureOfLock
        /\ ask_ \in [Asks -> AskRecord]
    BY <1>1 DEF PanelInv, PanelTypeOK, AskRecord
  <2>1. SUFFICES ASSUME PanelNext, NEW x \in Asks, ask_[x].st \in {"new", "sawFree"},
                        ask_'[x].st = "out", ask_'[x].at \in sure
                 PROVE FALSE
    BY <1>1
  <2>2. ASSUME NEW q \in Asks, NEW r \in PReplica, NEW held \in BOOLEAN, Answered(q, r, held),
               \/ ask_[q].st = "new" /\ (~held => owner[r] = "free")
               \/ ask_[q].st = (IF held THEN "sawHeld" ELSE "sawFree") /\ r = ask_[q].at
        PROVE FALSE
    <3>1. /\ \A y \in Asks : y # q => ask_'[y] = ask_[y]
          /\ ask_'[q].at = r
          /\ ask_'[q].st = IF ~held THEN "out" ELSE IF q \in PReply THEN "quiet" ELSE "deferred"
      BY <2>0, <2>2, AnswerIs
    <3>2. x = q /\ ~held /\ r \in sure
      BY <2>1, <3>1
    <3>3. QED
      BY <2>0, <2>2, <3>2 DEF SureOfLock
  <2>3. ASSUME NEW q \in Asks, NEW r \in PReplica, NEW v \in {"sawFree", "sawHeld"},
               ask_' = [ask_ EXCEPT ![q].at = r, ![q].st = v]
        PROVE FALSE
    <3>1. ask_'[x].st = ask_[x].st \/ ask_'[x].st = v
      BY <2>0, <2>3 DEF AskRecord
    <3>2. QED
      BY <2>1, <2>3, <3>1
  <2>4. ASSUME NEW r \in PReplica, NEW d \in replay[r], ReplayNext(r, d) PROVE FALSE
    <3>1. /\ d[1] \in Asks /\ Len(d) \in Nat /\ Len(d) # 0
          /\ \A y \in Asks : y # d[1] => ask_'[y] = ask_[y]
      BY <2>0, <2>4, ReplayIs
    <3>2. ask_[d[1]].st = "deferred"
      BY <1>1, <3>1 DEF PanelInv, QueuedIsDeferred, QueuesOf
    <3>3. QED
      BY <2>1, <3>1, <3>2
  <2>5. CASE UNCHANGED ask_
    BY <2>1, <2>5
  <2>6. QED
    <3>1. ~\E q \in Asks, r \in PReplica, held \in BOOLEAN :
              /\ Answered(q, r, held)
              /\ \/ ask_[q].st = "new" /\ (~held => owner[r] = "free")
                 \/ ask_[q].st = (IF held THEN "sawHeld" ELSE "sawFree") /\ r = ask_[q].at
      BY <2>2
    <3>2. (IF plock = NoOper THEN "sawFree" ELSE "sawHeld") \in {"sawFree", "sawHeld"}
      OBVIOUS
    <3>3. ~\E q \in Asks, r \in PReplica :
              ask_' = [ask_ EXCEPT ![q].at = r, ![q].st = IF plock = NoOper THEN "sawFree" ELSE "sawHeld"]
      BY <2>3, <3>2
    <3>4. ~\E r \in PReplica : \E d \in replay[r] : ReplayNext(r, d)
      BY <2>4
    <3>5. ~UNCHANGED ask_
      BY <2>5
    <3>6. QED
      BY <2>0, <2>1, <3>1, <3>3, <3>4, <3>5, AskCases
<1>2. PanelInv /\ [PanelNext]_panelVars => [LetsNonePast]_panelVars
  BY <1>1
<1>3. QED
  BY <1>2, PanelInvInit, PanelInvStep, PTL DEF PanelSpec, ToldReplicaHolds
=============================================================================
