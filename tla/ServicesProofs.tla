--------------------------- MODULE ServicesProofs ---------------------------
(***************************************************************************)
(* Theorems about services of the gateway, for every value of their        *)
(* bounds: the abort flag of TurnAbort, the shared refresh of              *)
(* CredentialRefresh, the occurrences of CronScheduler, the sessions of    *)
(* LiveSession and the ledger of PassBudget.                               *)
(***************************************************************************)
EXTENDS TurnAbort, CredentialRefresh, CronScheduler, LiveSession, PassBudget,
        FiniteSetTheorems, WellFoundedInduction, TLAPS

-----------------------------------------------------------------------------
(***************************************************************************)
(* TurnAbort: an abort flag skips the turn it was set for, and only it     *)
(***************************************************************************)
Skipped == {j \in AJob : turn[j].out = "skipped"}
Heard == In({"listening", "live"})

\* The types of TurnAbort, without the bound on eaters.
Turn == [msgs : SUBSET AMsg, st : {"none", "waiting", "over", "claimed", "listening", "live"},
         out : {"open", "skipped", "aborted", "ran"}, warm : BOOLEAN]

AbTypes ==
    /\ msg \in [AMsg -> {"unsent", "cleared", "queued"}]
    /\ turn \in [AJob -> Turn]
    /\ abFlag \in BOOLEAN /\ aborter \in {"idle", "set"} /\ eaters \in Nat
    /\ asked \subseteq AMsg /\ owed \in [queued : SUBSET AJob, flying : SUBSET AJob]
    /\ abSpent \in [aborts : 0..MaxAborts, timeouts : 0..MaxTimeouts]

\* A job holds messages that were queued, and is new until its own is.
JobsHoldQueued ==
    /\ \A j \in AJob : \A m \in turn[j].msgs : msg[m] = "queued"
    /\ \A j \in AJob : msg[j] # "queued" => turn[j].st = "none" /\ turn[j].out = "open"
    /\ \A j \in AJob : turn[j].st # "over" => turn[j].out = "open"

\* While the flag is up no message was sent after its abort; `asked` grows only.
FlagIsFresh ==
    /\ asked \subseteq {m \in AMsg : msg[m] # "unsent"}
    /\ abFlag => {m \in AMsg : msg[m] # "unsent"} \subseteq asked

\* The job an abort found waiting is the only one, under the flag, with nobody
\* about to eat it; or it was skipped.
OwedIsFlagged ==
    \A j \in owed.queued :
        \/ /\ In({"waiting"}) = {j} /\ In(InFlight) = {}
           /\ abFlag /\ eaters = 0
        \/ turn[j].st = "over" /\ turn[j].out = "skipped"

\* An abort is spent for each job skipped, and for the flag.
SkipsArePaid ==
    /\ IsFiniteSet(Skipped)
    /\ Cardinality(Skipped) + (IF abFlag THEN 1 ELSE 0) <= abSpent.aborts

\* The session lock: one turn listens, so each abort and timeout sends one GETDEL.
OneListens == \A j, k \in Heard : j = k
EatersArePaid ==
    eaters + (IF aborter = "set" THEN 1 ELSE 0) <= abSpent.aborts + abSpent.timeouts

AbInv ==
    /\ AbTypes /\ JobsHoldQueued /\ FlagIsFresh /\ SkipsOnlyAborted /\ OwedIsFlagged
    /\ SkipsArePaid /\ OneListens /\ EatersArePaid

\* Nothing is asked for at first.
LEMMA AbInvInit == AbInit => AbInv
<1> SUFFICES ASSUME AbInit PROVE AbInv
  OBVIOUS
<1> USE AbortAssumption
<1>1. AbTypes
  <2>1. [msgs |-> {}, st |-> "none", out |-> "open", warm |-> FALSE] \in Turn
    BY DEF Turn
  <2>2. turn \in [AJob -> Turn] /\ msg \in [AMsg -> {"unsent", "cleared", "queued"}]
    BY <2>1 DEF AbInit
  <2>3. owed \in [queued : SUBSET AJob, flying : SUBSET AJob] /\ abSpent \in [aborts : 0..MaxAborts, timeouts : 0..MaxTimeouts]
    BY DEF AbInit, NoOwed
  <2> QED
    BY <2>2, <2>3 DEF AbInit, AbTypes
<1>2. JobsHoldQueued /\ FlagIsFresh /\ SkipsOnlyAborted /\ OwedIsFlagged /\ OneListens /\ EatersArePaid
  BY DEF AbInit, JobsHoldQueued, FlagIsFresh, SkipsOnlyAborted, OwedIsFlagged, OneListens, Heard, In,
         EatersArePaid, NoOwed
<1>3. Skipped = {}
  BY DEF AbInit, Skipped
<1>4. SkipsArePaid
  BY <1>3, FS_EmptySet DEF SkipsArePaid, AbInit
<1> QED
  BY <1>1, <1>2, <1>4 DEF AbInv

\* A step that changes job j alone, says what it becomes.
LEMMA OneTurnMoves ==
    ASSUME AbTypes, NEW j \in AJob, NEW new \in Turn, turn' = [turn EXCEPT ![j] = new]
    PROVE  /\ turn' \in [AJob -> Turn] /\ turn'[j] = new
           /\ \A k \in AJob : k # j => turn'[k] = turn[k]
           /\ new.out # "skipped" /\ turn[j].out # "skipped" => Skipped' = Skipped
           /\ new.st \notin {"listening", "live"} => Heard' = Heard \ {j}
<1>1. /\ turn' \in [AJob -> Turn] /\ turn'[j] = new /\ \A k \in AJob : k # j => turn'[k] = turn[k]
  BY DEF AbTypes
<1> QED
  BY <1>1 DEF Skipped, Heard, In

\* The session's waiting job takes the message, or it is a job of its own.
LEMMA EnqueueKeeps ==
    ASSUME AbInv, NEW m \in AMsg, SendEnqueues(m)
    PROVE  AbInv'
<1> USE AbortAssumption
<1>1. /\ m \in AJob /\ msg[m] = "cleared" /\ turn[m].st = "none" /\ turn[m].out = "open"
      /\ turn \in [AJob -> Turn] /\ msg \in [AMsg -> {"unsent", "cleared", "queued"}]
  BY DEF AbInv, JobsHoldQueued, SendEnqueues, AbTypes
<1>2. PICK j \in AJob, new \in Turn :
        /\ turn' = [turn EXCEPT ![j] = new]
        /\ new.st = "waiting" /\ new.out = "open" /\ new.msgs \subseteq turn[j].msgs \cup {m}
        /\ turn[j].out = "open" /\ turn[j].st \in {"none", "waiting"}
        /\ j = m \/ turn[j].st = "waiting"
        /\ In({"waiting"}) # {} => j \in In({"waiting"})
  <2>1. CASE In({"waiting"}) = {}
    <3> DEFINE new == [turn[m] EXCEPT !.msgs = {m}, !.st = "waiting"]
    <3>1. turn' = [turn EXCEPT ![m] = new]
      BY <1>1, <2>1 DEF SendEnqueues
    <3>2. new \in Turn /\ new.st = "waiting" /\ new.out = "open" /\ new.msgs = {m}
      BY <1>1 DEF Turn
    <3> QED
      BY <1>1, <2>1, <3>1, <3>2
  <2>2. CASE In({"waiting"}) # {}
    <3>1. PICK j \in In({"waiting"}) : j = (CHOOSE k \in In({"waiting"}) : TRUE)
      BY <2>2
    <3>2. j \in AJob /\ turn[j].st = "waiting"
      BY <3>1 DEF In
    <3> DEFINE new == [turn[j] EXCEPT !.msgs = @ \cup {m}]
    <3>3. turn' = [turn EXCEPT ![j] = new]
      BY <1>1, <2>2, <3>1 DEF SendEnqueues
    <3>4. new \in Turn /\ new.st = "waiting" /\ new.out = turn[j].out /\ new.msgs = turn[j].msgs \cup {m}
      BY <1>1, <3>2 DEF Turn
    <3>5. turn[j].out = "open"
      BY <3>2 DEF AbInv, JobsHoldQueued
    <3> QED
      BY <3>1, <3>2, <3>3, <3>4, <3>5
  <2> QED
    BY <2>1, <2>2
<1>3. /\ msg' = [msg EXCEPT ![m] = "queued"]
      /\ UNCHANGED <<abFlag, aborter, eaters, asked, owed, abSpent>>
  BY <1>1, <1>2 DEF SendEnqueues
<1>4. /\ turn' \in [AJob -> Turn] /\ turn'[j] = new /\ \A k \in AJob : k # j => turn'[k] = turn[k]
      /\ Skipped' = Skipped /\ Heard' = Heard
  BY <1>2, OneTurnMoves DEF AbInv, Heard, In
<1>5. AbTypes'
  BY <1>1, <1>3, <1>4 DEF AbInv, AbTypes
<1>6. JobsHoldQueued'
  <2>1. msg[j] = "queued" \/ j = m
    BY <1>2 DEF AbInv, JobsHoldQueued
  <2>2. /\ \A k \in AJob : \A x \in turn[k].msgs : x \in AMsg /\ msg[x] = "queued"
        /\ \A k \in AJob : msg[k] # "queued" => turn[k].st = "none" /\ turn[k].out = "open"
        /\ \A k \in AJob : turn[k].st # "over" => turn[k].out = "open"
    BY <1>1 DEF AbInv, JobsHoldQueued, Turn
  <2>3. \A x \in AMsg : msg'[x] = IF x = m THEN "queued" ELSE msg[x]
    BY <1>1, <1>3
  <2>4. ASSUME NEW k \in AJob, NEW x \in turn'[k].msgs PROVE msg'[x] = "queued"
    <3>1. CASE k = j
      <4>1. x \in turn[j].msgs \/ x = m
        BY <1>2, <1>4, <2>4, <3>1
      <4> QED
        BY <2>2, <2>3, <4>1
    <3>2. CASE k # j
      BY <1>4, <2>2, <2>3, <3>2
    <3> QED
      BY <3>1, <3>2
  <2>5. \A k \in AJob : msg'[k] # "queued" => turn'[k].st = "none" /\ turn'[k].out = "open"
    BY <1>1, <1>4, <2>1, <2>2, <2>3
  <2>6. \A k \in AJob : turn'[k].st # "over" => turn'[k].out = "open"
    BY <1>2, <1>4, <2>2
  <2> QED
    BY <2>4, <2>5, <2>6 DEF JobsHoldQueued
<1>7. FlagIsFresh' /\ EatersArePaid'
  BY <1>1, <1>3 DEF AbInv, FlagIsFresh, EatersArePaid
<1>8. SkipsOnlyAborted'
  BY <1>2, <1>3, <1>4 DEF AbInv, SkipsOnlyAborted
<1>9. OwedIsFlagged'
  <2>1. In({"waiting"})' = In({"waiting"}) \cup {j} /\ In(InFlight)' = In(InFlight)
    BY <1>2, <1>4 DEF In, InFlight
  <2>2. ASSUME NEW k \in owed.queued, In({"waiting"}) = {k} PROVE In({"waiting"})' = {k}
    BY <1>2, <2>1, <2>2
  <2>3. ASSUME NEW k \in owed.queued, turn[k].st = "over" PROVE turn'[k] = turn[k]
    <3>1. k \in AJob /\ k # j
      BY <1>2, <2>3 DEF AbInv, AbTypes
    <3> QED
      BY <1>4, <3>1
  <2> SUFFICES ASSUME NEW k \in owed.queued
               PROVE  \/ In({"waiting"})' = {k} /\ In(InFlight)' = {} /\ abFlag' /\ eaters' = 0
                      \/ turn'[k].st = "over" /\ turn'[k].out = "skipped"
    BY <1>3 DEF OwedIsFlagged
  <2>4. CASE In({"waiting"}) = {k} /\ In(InFlight) = {} /\ abFlag /\ eaters = 0
    BY <1>3, <2>1, <2>2, <2>4
  <2>5. CASE turn[k].st = "over" /\ turn[k].out = "skipped"
    BY <2>3, <2>5
  <2> QED
    BY <2>4, <2>5 DEF AbInv, OwedIsFlagged
<1>10. SkipsArePaid' /\ OneListens'
  BY <1>3, <1>4 DEF AbInv, SkipsArePaid, OneListens
<1> QED
  BY <1>5, <1>6, <1>7, <1>8, <1>9, <1>10 DEF AbInv

\* A new message lowers the flag and takes what it was owed.
LEMMA SendBeginsKeeps ==
    ASSUME AbInv, NEW m \in AMsg, SendBegins(m)
    PROVE  AbInv'
<1> USE AbortAssumption
<1>1. /\ msg \in [AMsg -> {"unsent", "cleared", "queued"}] /\ msg[m] = "unsent"
      /\ msg' = [msg EXCEPT ![m] = "cleared"] /\ abFlag' = FALSE /\ owed' = [owed EXCEPT !.queued = {}]
      /\ owed \in [queued : SUBSET AJob, flying : SUBSET AJob] /\ abSpent.aborts \in Nat
      /\ UNCHANGED <<turn, aborter, eaters, asked, abSpent>>
  BY DEF AbInv, AbTypes, SendBegins
<1>2. \A x \in AMsg : msg'[x] = IF x = m THEN "cleared" ELSE msg[x]
  BY <1>1
<1>3. owed'.queued = {} /\ owed' \in [queued : SUBSET AJob, flying : SUBSET AJob]
  BY <1>1
<1>4. AbTypes'
  BY <1>1, <1>3 DEF AbInv, AbTypes
<1>5. JobsHoldQueued'
  <2>1. \A j \in AJob : turn[j].msgs \subseteq AMsg
    BY DEF AbInv, AbTypes, Turn
  <2> QED
    BY <1>1, <1>2, <2>1 DEF AbInv, JobsHoldQueued
<1>6. FlagIsFresh' /\ SkipsOnlyAborted' /\ OwedIsFlagged' /\ OneListens' /\ EatersArePaid'
  BY <1>1, <1>2, <1>3
     DEF AbInv, FlagIsFresh, SkipsOnlyAborted, OwedIsFlagged, OneListens, Heard, In, EatersArePaid
<1>7. SkipsArePaid'
  <2>1. Skipped' = Skipped /\ IsFiniteSet(Skipped) /\ Cardinality(Skipped) \in Nat
    BY <1>1, FS_CardinalityType DEF AbInv, SkipsArePaid, Skipped
  <2> QED
    BY <1>1, <2>1 DEF AbInv, SkipsArePaid
<1> QED
  BY <1>4, <1>5, <1>6, <1>7 DEF AbInv

\* An abort raises the flag; the one job that waits, if it is alone, is owed.
LEMMA SetAbortFlagKeeps ==
    ASSUME AbInv, SetAbortFlag
    PROVE  AbInv'
<1> USE AbortAssumption
<1>1. /\ aborter = "idle" /\ aborter' = "set" /\ abFlag' = TRUE /\ owed' = OwedNow
      /\ asked' = {m \in AMsg : msg[m] # "unsent"}
      /\ abSpent' = [abSpent EXCEPT !.aborts = @ + 1] /\ abSpent.aborts < MaxAborts
      /\ abSpent \in [aborts : 0..MaxAborts, timeouts : 0..MaxTimeouts] /\ eaters \in Nat
      /\ UNCHANGED <<msg, turn, eaters>>
  BY DEF AbInv, AbTypes, SetAbortFlag
<1>2. /\ abSpent' \in [aborts : 0..MaxAborts, timeouts : 0..MaxTimeouts]
      /\ abSpent'.aborts = abSpent.aborts + 1 /\ abSpent'.timeouts = abSpent.timeouts
      /\ abSpent.aborts \in Nat /\ abSpent.timeouts \in Nat
  BY <1>1
<1>3. /\ In({"waiting"}) \subseteq AJob /\ In(InFlight) \subseteq AJob
      /\ OwedNow \in [queued : SUBSET AJob, flying : SUBSET AJob]
  BY DEF In, OwedNow
<1>4. AbTypes'
  BY <1>1, <1>2, <1>3 DEF AbInv, AbTypes
<1>5. JobsHoldQueued' /\ FlagIsFresh' /\ SkipsOnlyAborted' /\ OneListens'
  BY <1>1 DEF AbInv, JobsHoldQueued, FlagIsFresh, SkipsOnlyAborted, OneListens, Heard, In
<1>6. OwedIsFlagged'
  <2> SUFFICES ASSUME NEW j \in owed'.queued
               PROVE  In({"waiting"})' = {j} /\ In(InFlight)' = {} /\ abFlag' /\ eaters' = 0
    BY DEF OwedIsFlagged
  <2>1. /\ In(InFlight) = {} /\ eaters = 0
        /\ \E k \in AJob : In({"waiting"}) = {k}
        /\ j \in In({"waiting"})
    BY <1>1 DEF OwedNow
  <2>2. In({"waiting"}) = {j}
    BY <2>1
  <2> QED
    BY <1>1, <2>1, <2>2 DEF In, InFlight
<1>7. SkipsArePaid'
  <2>1. Skipped' = Skipped /\ IsFiniteSet(Skipped) /\ Cardinality(Skipped) \in Nat
    BY <1>1, FS_CardinalityType DEF AbInv, SkipsArePaid, Skipped
  <2> QED
    BY <1>1, <1>2, <2>1 DEF AbInv, SkipsArePaid
<1>8. EatersArePaid'
  BY <1>1, <1>2 DEF AbInv, EatersArePaid
<1> QED
  BY <1>4, <1>5, <1>6, <1>7, <1>8 DEF AbInv

\* A late GETDEL takes the flag; nothing is owed to a job while one is out.
LEMMA FlagEatenKeeps ==
    ASSUME AbInv, FlagEaten
    PROVE  AbInv'
<1>1. /\ eaters \in Nat /\ eaters > 0 /\ eaters' = eaters - 1 /\ abFlag' = FALSE
      /\ abSpent.aborts \in Nat /\ abSpent.timeouts \in Nat
      /\ UNCHANGED <<msg, turn, aborter, asked, owed, abSpent>>
  BY AbortAssumption DEF AbInv, AbTypes, FlagEaten
<1>2. AbTypes' /\ JobsHoldQueued' /\ FlagIsFresh' /\ SkipsOnlyAborted' /\ OneListens' /\ EatersArePaid'
  <2>1. AbTypes'
    <3>1. eaters' \in Nat
      BY <1>1
    <3> QED
      BY <1>1, <3>1 DEF AbInv, AbTypes
  <2>2. JobsHoldQueued' /\ FlagIsFresh' /\ SkipsOnlyAborted'
    BY <1>1 DEF AbInv, JobsHoldQueued, FlagIsFresh, SkipsOnlyAborted
  <2>3. OneListens'
    BY <1>1 DEF AbInv, OneListens, Heard, In
  <2>4. EatersArePaid'
    BY <1>1 DEF AbInv, EatersArePaid
  <2> QED
    BY <2>1, <2>2, <2>3, <2>4
<1>3. OwedIsFlagged'
  BY <1>1 DEF AbInv, OwedIsFlagged
<1>4. SkipsArePaid'
  <2>1. Skipped' = Skipped /\ IsFiniteSet(Skipped) /\ Cardinality(Skipped) \in Nat
    BY <1>1, FS_CardinalityType DEF AbInv, SkipsArePaid, Skipped
  <2> QED
    BY <1>1, <2>1 DEF AbInv, SkipsArePaid
<1> QED
  BY <1>2, <1>3, <1>4 DEF AbInv

\* A job in flight moves on without being skipped: nothing is owed to a waiting
\* job, and the messages stay.
LEMMA InFlightMoves ==
    ASSUME AbInv, NEW j \in AJob, turn[j].st \in InFlight,
           NEW new \in Turn, turn' = [turn EXCEPT ![j] = new],
           new.msgs = turn[j].msgs, new.st # "none", new.out # "skipped",
           new.st # "over" => new.out = "open",
           UNCHANGED <<msg, abFlag, asked, owed>>, abSpent'.aborts = abSpent.aborts
    PROVE  /\ turn' \in [AJob -> Turn]
           /\ JobsHoldQueued' /\ FlagIsFresh' /\ SkipsOnlyAborted' /\ OwedIsFlagged' /\ SkipsArePaid'
           /\ new.st \notin {"listening", "live"} => Heard' = Heard \ {j}
<1>1. turn[j].st \notin {"none", "over"} /\ turn[j].out = "open" /\ msg[j] = "queued"
  BY AbortAssumption DEF AbInv, JobsHoldQueued, InFlight
<1>2. /\ turn' \in [AJob -> Turn] /\ turn'[j] = new /\ \A k \in AJob : k # j => turn'[k] = turn[k]
      /\ Skipped' = Skipped /\ (new.st \notin {"listening", "live"} => Heard' = Heard \ {j})
  BY <1>1, OneTurnMoves DEF AbInv
<1>3. JobsHoldQueued'
  <2>1. ASSUME NEW k \in AJob
        PROVE  /\ \A x \in turn'[k].msgs : msg'[x] = "queued"
               /\ msg'[k] # "queued" => turn'[k].st = "none" /\ turn'[k].out = "open"
               /\ turn'[k].st # "over" => turn'[k].out = "open"
    <3>1. CASE k = j
      BY <1>1, <1>2, <3>1 DEF AbInv, JobsHoldQueued
    <3>2. CASE k # j
      BY <1>2, <3>2 DEF AbInv, JobsHoldQueued
    <3> QED
      BY <3>1, <3>2
  <2> QED
    BY <2>1 DEF JobsHoldQueued
<1>4. FlagIsFresh' /\ SkipsOnlyAborted' /\ SkipsArePaid'
  BY <1>2 DEF AbInv, FlagIsFresh, SkipsOnlyAborted, SkipsArePaid
<1>5. OwedIsFlagged'
  <2> SUFFICES ASSUME NEW k \in owed.queued PROVE turn'[k].st = "over" /\ turn'[k].out = "skipped"
    BY DEF OwedIsFlagged
  <2>1. j \in In(InFlight)
    BY DEF In
  <2>2. turn[k].st = "over" /\ turn[k].out = "skipped" /\ k \in AJob
    BY <2>1 DEF AbInv, OwedIsFlagged, AbTypes
  <2> QED
    BY <1>1, <1>2, <2>2
<1> QED
  BY <1>2, <1>3, <1>4, <1>5

\* The message reaches who listens, and he sends one GETDEL; the abort that
\* sent it pays for it.
LEMMA PublishAbortKeeps ==
    ASSUME AbInv, PublishAbort
    PROVE  AbInv'
<1> USE AbortAssumption
<1>1. /\ aborter = "set" /\ aborter' = "idle" /\ eaters' = eaters + Cardinality(Heard)
      /\ turn' = [j \in AJob |-> IF j \in Heard /\ Reached(j)
                                 THEN [turn[j] EXCEPT !.st = "over", !.out = "aborted"] ELSE turn[j]]
      /\ UNCHANGED <<msg, abFlag, asked, owed, abSpent>>
      /\ eaters \in Nat /\ abSpent.aborts \in Nat /\ abSpent.timeouts \in Nat /\ turn \in [AJob -> Turn]
  <2>1. /\ eaters \in Nat /\ abSpent.aborts \in Nat /\ abSpent.timeouts \in Nat
        /\ turn \in [AJob -> Turn]
    BY DEF AbInv, AbTypes
  <2> QED
    BY <2>1 DEF PublishAbort, Heard
<1>2. Cardinality(Heard) \in {0, 1}
  <2>1. CASE Heard = {}
    BY <2>1, FS_EmptySet
  <2>2. CASE Heard # {}
    <3>1. PICK j \in Heard : Heard = {j}
      BY <2>2 DEF AbInv, OneListens
    <3> QED
      BY <3>1, FS_Singleton
  <2> QED
    BY <2>1, <2>2
<1>3. EatersArePaid' /\ eaters' \in Nat
  <2>1. eaters + 1 <= abSpent.aborts + abSpent.timeouts
    <3>1. aborter = "set" /\ EatersArePaid
      BY <1>1 DEF AbInv
    <3> QED
      BY <3>1 DEF EatersArePaid
  <2>2. PICK c \in {0, 1} : eaters' = eaters + c
    BY <1>1, <1>2
  <2>3. eaters \in Nat /\ abSpent.aborts \in Nat /\ abSpent.timeouts \in Nat
    BY <1>1
  <2>4. eaters' <= abSpent.aborts + abSpent.timeouts /\ eaters' \in Nat
    BY <2>1, <2>2, <2>3
  <2>5. abSpent' = abSpent /\ aborter' = "idle"
    BY <1>1
  <2> QED
    BY <2>3, <2>4, <2>5 DEF EatersArePaid
<1>4. CASE \E j \in Heard : Reached(j)
  <2>1. PICK j \in Heard : Reached(j)
    BY <1>4
  <2>2. j \in AJob /\ Heard = {j} /\ turn[j].st \in InFlight /\ turn[j] \in Turn
    BY <1>1, <2>1 DEF AbInv, OneListens, Heard, In, InFlight
  <2> DEFINE new == [turn[j] EXCEPT !.st = "over", !.out = "aborted"]
  <2>3. new \in Turn /\ new.msgs = turn[j].msgs /\ new.st = "over" /\ new.out = "aborted"
    BY <2>2 DEF Turn
  <2>4. turn' = [turn EXCEPT ![j] = new]
    BY <1>1, <2>1, <2>2
  <2> HIDE DEF new
  <2>5. /\ turn' \in [AJob -> Turn]
        /\ JobsHoldQueued' /\ FlagIsFresh' /\ SkipsOnlyAborted' /\ OwedIsFlagged' /\ SkipsArePaid'
        /\ Heard' = Heard \ {j}
    BY <1>1, <2>2, <2>3, <2>4, InFlightMoves
  <2>6. AbTypes' /\ OneListens'
    BY <1>1, <1>3, <2>2, <2>5 DEF AbInv, AbTypes, OneListens
  <2> QED
    BY <1>3, <2>5, <2>6 DEF AbInv
<1>5. CASE ~\E j \in Heard : Reached(j)
  <2>1. turn' = turn
    BY <1>1, <1>5
  <2>2. Skipped' = Skipped /\ Heard' = Heard /\ In({"waiting"})' = In({"waiting"}) /\ In(InFlight)' = In(InFlight)
    BY <2>1 DEF Skipped, Heard, In, InFlight
  <2>3. AbTypes' /\ JobsHoldQueued' /\ FlagIsFresh' /\ SkipsOnlyAborted' /\ OneListens' /\ SkipsArePaid'
    BY <1>1, <1>3, <2>1, <2>2
       DEF AbInv, AbTypes, JobsHoldQueued, FlagIsFresh, SkipsOnlyAborted, OneListens, SkipsArePaid
  <2>4. OwedIsFlagged'
    <3> SUFFICES ASSUME NEW k \in owed.queued
                 PROVE  \/ In({"waiting"})' = {k} /\ In(InFlight)' = {} /\ abFlag' /\ eaters' = 0
                        \/ turn'[k].st = "over" /\ turn'[k].out = "skipped"
      BY <1>1 DEF OwedIsFlagged
    <3>1. In(InFlight) = {} => Heard = {}
      BY DEF In, InFlight, Heard
    <3>2. Heard = {} => eaters' = eaters
      BY <1>1, FS_EmptySet
    <3> QED
      BY <1>1, <2>1, <2>2, <3>1, <3>2 DEF AbInv, OwedIsFlagged
  <2> QED
    BY <1>3, <2>3, <2>4 DEF AbInv
<1> QED
  BY <1>4, <1>5

\* The claim takes the flag with it: the job that is skipped was the abort's.
LEMMA ClaimTurnKeeps ==
    ASSUME AbInv, NEW j \in AJob, ClaimTurn(j)
    PROVE  AbInv'
<1> USE AbortAssumption
<1> DEFINE new == IF abFlag THEN [turn[j] EXCEPT !.st = "over", !.out = "skipped"]
                  ELSE [turn[j] EXCEPT !.st = "claimed"]
<1>1. /\ turn \in [AJob -> Turn] /\ turn[j] \in Turn /\ turn[j].st = "waiting" /\ turn[j].out = "open"
      /\ msg[j] = "queued" /\ abFlag \in BOOLEAN
  BY DEF AbInv, AbTypes, JobsHoldQueued, ClaimTurn
<1>2. /\ abFlag' = FALSE
      /\ UNCHANGED <<msg, aborter, eaters, asked, owed, abSpent>>
  BY DEF ClaimTurn
<1>3. turn' = [turn EXCEPT ![j] = new]
  <2>1. CASE abFlag
    BY <1>1, <2>1 DEF ClaimTurn, End
  <2>2. CASE ~abFlag
    BY <1>1, <2>2 DEF ClaimTurn, End
  <2> QED
    BY <2>1, <2>2
<1>4. /\ new \in Turn /\ new.msgs = turn[j].msgs
      /\ new.st = (IF abFlag THEN "over" ELSE "claimed") /\ new.out = (IF abFlag THEN "skipped" ELSE "open")
  <2>1. CASE abFlag
    BY <1>1, <2>1 DEF Turn
  <2>2. CASE ~abFlag
    BY <1>1, <2>2 DEF Turn
  <2> QED
    BY <2>1, <2>2
<1> HIDE DEF new
<1>5. turn' \in [AJob -> Turn] /\ turn'[j] = new /\ \A k \in AJob : k # j => turn'[k] = turn[k]
  BY <1>1, <1>3, <1>4
<1>6. AbTypes'
  BY <1>2, <1>5 DEF AbInv, AbTypes
<1>7. JobsHoldQueued'
  <2>1. ASSUME NEW k \in AJob
        PROVE  /\ \A x \in turn'[k].msgs : msg'[x] = "queued"
               /\ msg'[k] # "queued" => turn'[k].st = "none" /\ turn'[k].out = "open"
               /\ turn'[k].st # "over" => turn'[k].out = "open"
    <3>1. CASE k = j
      BY <1>1, <1>2, <1>4, <1>5, <3>1 DEF AbInv, JobsHoldQueued
    <3>2. CASE k # j
      BY <1>2, <1>5, <3>2 DEF AbInv, JobsHoldQueued
    <3> QED
      BY <3>1, <3>2
  <2> QED
    BY <2>1 DEF JobsHoldQueued
<1>8. FlagIsFresh'
  BY <1>2 DEF AbInv, FlagIsFresh
<1>9. SkipsOnlyAborted'
  <2> SUFFICES ASSUME NEW k \in AJob, turn'[k].out = "skipped" PROVE turn'[k].msgs \subseteq asked
    BY <1>2 DEF SkipsOnlyAborted
  <2>1. CASE k # j
    BY <1>5, <2>1 DEF AbInv, SkipsOnlyAborted
  <2>2. CASE k = j
    <3>1. abFlag /\ turn'[k].msgs = turn[j].msgs
      BY <1>1, <1>4, <1>5, <2>2
    <3>2. \A x \in turn[j].msgs : x \in AMsg /\ msg[x] # "unsent"
      BY <1>1 DEF AbInv, JobsHoldQueued, Turn
    <3> QED
      BY <3>1, <3>2 DEF AbInv, FlagIsFresh
  <2> QED
    BY <2>1, <2>2
<1>10. OwedIsFlagged'
  <2> SUFFICES ASSUME NEW k \in owed.queued PROVE turn'[k].st = "over" /\ turn'[k].out = "skipped"
    BY <1>2 DEF OwedIsFlagged
  <2>1. k \in AJob /\ j \in In({"waiting"})
    BY <1>1 DEF AbInv, AbTypes, In
  <2>2. CASE In({"waiting"}) = {k} /\ abFlag
    BY <1>4, <1>5, <2>1, <2>2
  <2>3. CASE turn[k].st = "over" /\ turn[k].out = "skipped"
    BY <1>1, <1>5, <2>1, <2>3
  <2> QED
    BY <2>2, <2>3 DEF AbInv, OwedIsFlagged
<1>11. SkipsArePaid'
  <2>1. IsFiniteSet(Skipped) /\ Cardinality(Skipped) \in Nat /\ j \notin Skipped /\ abSpent.aborts \in Nat
    BY <1>1, FS_CardinalityType DEF AbInv, AbTypes, SkipsArePaid, Skipped
  <2>2. CASE abFlag
    <3>1. Skipped' = Skipped \cup {j}
      BY <1>4, <1>5, <2>2 DEF Skipped
    <3>2. IsFiniteSet(Skipped \cup {j}) /\ Cardinality(Skipped \cup {j}) = Cardinality(Skipped) + 1
      BY <2>1, FS_AddElement
    <3> QED
      BY <1>2, <2>1, <2>2, <3>1, <3>2 DEF AbInv, SkipsArePaid
  <2>3. CASE ~abFlag
    <3>1. Skipped' = Skipped
      BY <1>1, <1>4, <1>5, <2>3 DEF Skipped
    <3> QED
      BY <1>2, <2>1, <2>3, <3>1 DEF AbInv, SkipsArePaid
  <2> QED
    BY <1>1, <2>2, <2>3
<1>12. OneListens'
  <2>1. Heard' = Heard
    BY <1>1, <1>4, <1>5 DEF Heard, In
  <2> QED
    BY <2>1 DEF AbInv, OneListens
<1>13. EatersArePaid'
  BY <1>2 DEF AbInv, EatersArePaid
<1> QED
  BY <1>6, <1>7, <1>8, <1>9, <1>10, <1>11, <1>12, <1>13 DEF AbInv

\* The steps of a job in flight: it waits again, listens, is live, or is over.
LEMMA FlightKeeps ==
    ASSUME AbInv, NEW j \in AJob,
           Requeue(j) \/ ChildIsLive(j) \/ TurnRan(j) \/ TurnTimesOut(j) \/ \E w \in BOOLEAN : Listen(j, w)
    PROVE  AbInv'
<1> USE AbortAssumption
<1>1. PICK new \in Turn :
        /\ turn' = [turn EXCEPT ![j] = new] /\ new.msgs = turn[j].msgs
        /\ new.st # "none" /\ new.out # "skipped" /\ (new.st # "over" => new.out = "open")
        /\ turn[j].st \in InFlight
        /\ \/ new.st \notin {"listening", "live"}
           \/ new.st \in {"listening", "live"} /\ (Heard = {} \/ j \in Heard)
  <2>1. turn \in [AJob -> Turn] /\ turn[j] \in Turn /\ (turn[j].st # "over" => turn[j].out = "open")
    BY DEF AbInv, AbTypes, JobsHoldQueued
  <2>2. CASE Requeue(j)
    <3> DEFINE new == [turn[j] EXCEPT !.st = "waiting"]
    <3>1. new \in Turn /\ new.msgs = turn[j].msgs /\ new.st = "waiting" /\ new.out = turn[j].out
      BY <2>1 DEF Turn
    <3>2. turn' = [turn EXCEPT ![j] = new] /\ turn[j].st = "claimed"
      BY <2>2 DEF Requeue
    <3> QED
      BY <2>1, <3>1, <3>2 DEF InFlight
  <2>3. CASE ChildIsLive(j)
    <3> DEFINE new == [turn[j] EXCEPT !.st = "live"]
    <3>1. new \in Turn /\ new.msgs = turn[j].msgs /\ new.st = "live" /\ new.out = turn[j].out
      BY <2>1 DEF Turn
    <3>2. turn' = [turn EXCEPT ![j] = new] /\ turn[j].st = "listening"
      BY <2>3 DEF ChildIsLive
    <3>3. j \in Heard
      BY <3>2 DEF Heard, In
    <3> QED
      BY <2>1, <3>1, <3>2, <3>3 DEF InFlight
  <2>4. CASE TurnRan(j) \/ TurnTimesOut(j)
    <3>1. PICK how \in {"ran", "aborted"} : turn' = End(j, how) /\ turn[j].st = "live"
      BY <2>4 DEF TurnRan, TurnTimesOut
    <3> DEFINE new == [turn[j] EXCEPT !.st = "over", !.out = how]
    <3>2. new \in Turn /\ new.msgs = turn[j].msgs /\ new.st = "over" /\ new.out = how
      BY <2>1 DEF Turn
    <3>3. turn' = [turn EXCEPT ![j] = new]
      BY <2>1, <3>1 DEF End
    <3> QED
      BY <3>1, <3>2, <3>3 DEF InFlight
  <2>5. CASE \E w \in BOOLEAN : Listen(j, w)
    <3>1. PICK w \in BOOLEAN : Listen(j, w)
      BY <2>5
    <3> DEFINE new == [turn[j] EXCEPT !.st = "listening", !.warm = w]
    <3>2. new \in Turn /\ new.msgs = turn[j].msgs /\ new.st = "listening" /\ new.out = turn[j].out
      BY <2>1 DEF Turn
    <3>3. turn' = [turn EXCEPT ![j] = new] /\ turn[j].st = "claimed" /\ Heard = {}
      BY <2>1, <3>1 DEF Listen, Heard
    <3> QED
      BY <2>1, <3>2, <3>3 DEF InFlight
  <2> QED
    BY <2>2, <2>3, <2>4, <2>5
<1>2. /\ UNCHANGED <<msg, abFlag, asked, owed, aborter>>
      /\ \/ UNCHANGED <<eaters, abSpent>>
         \/ /\ abSpent.timeouts < MaxTimeouts /\ eaters' = eaters + 1
            /\ abSpent' = [abSpent EXCEPT !.timeouts = @ + 1]
  BY DEF Requeue, ChildIsLive, TurnRan, TurnTimesOut, Listen
<1>3. /\ eaters' \in Nat /\ abSpent' \in [aborts : 0..MaxAborts, timeouts : 0..MaxTimeouts]
      /\ abSpent'.aborts = abSpent.aborts
      /\ EatersArePaid'
  <2>1. /\ eaters \in Nat /\ abSpent \in [aborts : 0..MaxAborts, timeouts : 0..MaxTimeouts]
        /\ abSpent.aborts \in Nat /\ abSpent.timeouts \in Nat
    BY DEF AbInv, AbTypes
  <2>2. CASE UNCHANGED <<eaters, abSpent>>
    BY <1>2, <2>1, <2>2 DEF AbInv, EatersArePaid
  <2>3. CASE /\ abSpent.timeouts < MaxTimeouts /\ eaters' = eaters + 1
             /\ abSpent' = [abSpent EXCEPT !.timeouts = @ + 1]
    <3>1. /\ eaters' \in Nat /\ abSpent' \in [aborts : 0..MaxAborts, timeouts : 0..MaxTimeouts]
          /\ abSpent'.aborts = abSpent.aborts /\ abSpent'.timeouts = abSpent.timeouts + 1
      BY <2>1, <2>3
    <3> QED
      BY <1>2, <2>1, <2>3, <3>1 DEF AbInv, EatersArePaid
  <2> QED
    BY <1>2, <2>2, <2>3
<1>4. /\ turn' \in [AJob -> Turn]
      /\ JobsHoldQueued' /\ FlagIsFresh' /\ SkipsOnlyAborted' /\ OwedIsFlagged' /\ SkipsArePaid'
  BY <1>1, <1>2, <1>3, InFlightMoves
<1>5. AbTypes'
  BY <1>2, <1>3, <1>4 DEF AbInv, AbTypes
<1>6. OneListens'
  <2>1. turn \in [AJob -> Turn] /\ turn'[j] = new /\ \A k \in AJob : k # j => turn'[k] = turn[k]
    BY <1>1 DEF AbInv, AbTypes
  <2>2. \A k \in Heard' : k = j \/ k \in Heard
    BY <2>1 DEF Heard, In
  <2>3. CASE new.st \notin {"listening", "live"}
    <3>1. j \notin Heard'
      BY <2>1, <2>3 DEF Heard, In
    <3> QED
      BY <2>2, <3>1 DEF AbInv, OneListens
  <2>4. CASE Heard = {} \/ j \in Heard
    BY <2>2, <2>4 DEF AbInv, OneListens
  <2> QED
    BY <1>1, <2>3, <2>4
<1> QED
  BY <1>3, <1>4, <1>5, <1>6 DEF AbInv

\* The invariant holds in every state.
LEMMA AbInvHolds == AbSpec => []AbInv
<1>1. AbInv /\ [AbNext]_abVars => AbInv'
  <2> SUFFICES ASSUME AbInv, [AbNext]_abVars PROVE AbInv'
    OBVIOUS
  <2>1. ASSUME NEW m \in AMsg, SendBegins(m) \/ SendEnqueues(m) PROVE AbInv'
    BY <2>1, SendBeginsKeeps, EnqueueKeeps
  <2>2. CASE SetAbortFlag \/ PublishAbort \/ FlagEaten
    BY <2>2, SetAbortFlagKeeps, PublishAbortKeeps, FlagEatenKeeps
  <2>3. ASSUME NEW j \in AJob, ClaimTurn(j) PROVE AbInv'
    BY <2>3, ClaimTurnKeeps
  <2>4. ASSUME NEW j \in AJob,
               Requeue(j) \/ ChildIsLive(j) \/ TurnRan(j) \/ TurnTimesOut(j) \/ \E w \in BOOLEAN : Listen(j, w)
        PROVE  AbInv'
    BY <2>4, FlightKeeps
  <2>5. CASE UNCHANGED abVars
    <3>1. UNCHANGED <<msg, turn, abFlag, aborter, eaters, asked, owed, abSpent>>
      BY <2>5 DEF abVars
    <3>2. AbTypes' /\ JobsHoldQueued' /\ FlagIsFresh' /\ SkipsOnlyAborted' /\ EatersArePaid'
      BY <3>1 DEF AbInv, AbTypes, JobsHoldQueued, FlagIsFresh, SkipsOnlyAborted, EatersArePaid
    <3>3. OwedIsFlagged' /\ SkipsArePaid' /\ OneListens'
      BY <3>1 DEF AbInv, OwedIsFlagged, SkipsArePaid, Skipped, OneListens, Heard, In, InFlight
    <3> QED
      BY <3>2, <3>3 DEF AbInv
  <2> QED
    BY <2>1, <2>2, <2>3, <2>4, <2>5 DEF AbNext
<1> QED
  BY <1>1, AbInvInit, PTL DEF AbSpec

\* dispatch.ts:315, worker.ts:399, pubsub.ts:83: a turn that is skipped held only
\* what was sent before the abort; the one job an abort found waiting never runs;
\* and no abort skips two.
THEOREM AbortSkipsItsTurn == AbSpec => []FlagSkipsItsTurn
<1>1. AbInv => FlagSkipsItsTurn
  <2> SUFFICES ASSUME AbInv PROVE FlagSkipsItsTurn
    OBVIOUS
  <2>1. UnclaimedIsSkipped
    <3> SUFFICES ASSUME NEW j \in owed.queued PROVE turn[j].out # "ran"
      BY DEF UnclaimedIsSkipped
    <3>1. CASE In({"waiting"}) = {j}
      BY <3>1 DEF AbInv, JobsHoldQueued, In
    <3>2. CASE turn[j].out = "skipped"
      BY <3>2
    <3> QED
      BY <3>1, <3>2 DEF AbInv, OwedIsFlagged
  <2>2. OneSkipPerAbort
    <3>1. Cardinality(Skipped) \in Nat /\ abSpent.aborts \in Nat
      BY AbortAssumption, FS_CardinalityType DEF AbInv, AbTypes, SkipsArePaid
    <3>2. Cardinality(Skipped) <= abSpent.aborts
      BY <3>1 DEF AbInv, SkipsArePaid
    <3> QED
      BY <3>2 DEF OneSkipPerAbort, Skipped
  <2> QED
    BY <2>1, <2>2 DEF FlagSkipsItsTurn, AbInv
<1> QED
  BY <1>1, AbInvHolds, PTL

\* pubsub.ts:104: no more GETDELs are out than aborts and timeouts sent, and the
\* other types of the abort's state.
THEOREM AbortTypes == AbSpec => []AbTypeOK
<1>1. AbInv => AbTypeOK
  <2> SUFFICES ASSUME AbInv PROVE AbTypeOK
    OBVIOUS
  <2>1. /\ eaters \in Nat /\ eaters <= abSpent.aborts + abSpent.timeouts
        /\ abSpent.aborts \in 0..MaxAborts /\ abSpent.timeouts \in 0..MaxTimeouts
    <3>1. /\ eaters \in Nat /\ abSpent.aborts \in 0..MaxAborts /\ abSpent.timeouts \in 0..MaxTimeouts
      BY DEF AbInv, AbTypes
    <3> QED
      BY <3>1, AbortAssumption DEF AbInv, EatersArePaid
  <2>2. eaters \in 0..(MaxAborts + MaxTimeouts)
    BY <2>1, AbortAssumption
  <2>3. Turn = [msgs : SUBSET AMsg, st : {"none", "waiting", "over"} \cup InFlight,
                out : {"open", "skipped", "aborted", "ran"}, warm : BOOLEAN]
    <3>1. {"none", "waiting", "over"} \cup InFlight
            = {"none", "waiting", "over", "claimed", "listening", "live"}
      BY DEF InFlight
    <3> QED
      BY <3>1 DEF Turn
  <2> QED
    BY <2>2, <2>3 DEF AbTypeOK, AbInv, AbTypes
<1> QED
  BY <1>1, AbInvHolds, PTL

-----------------------------------------------------------------------------
(***************************************************************************)
(* CredentialRefresh: one expiry costs one grant                           *)
(***************************************************************************)
Leads == {"waiting", "rereading", "granting", "putting", "leaving"}
CallRec == [at : {"idle", "reading", "joined", "waiting", "rereading", "granting", "putting", "leaving",
                  "done", "dead"},
            failed : Nat, snap : Nat, new : Nat, out : {"-", "ok", "unknown", "reconnect", "error"},
            lead : CrCall \cup {NoCrCall}]

CrTypes ==
    /\ stored \in Nat /\ grants \in Nat /\ stored <= grants /\ used \subseteq 1..grants
    /\ call \in [CrCall -> CallRec] /\ inflight \in [CrReplica -> CrCall \cup {NoCrCall}]
    /\ crLock \in CrCall \cup {NoCrCall} /\ torn \in BOOLEAN

\* Under the lock only its holder reads, grants and writes.
HolderWorks ==
    /\ \A c \in CrCall : call[c].at \in {"rereading", "granting", "putting"} => crLock = c
    /\ crLock # NoCrCall => call[crLock].at \in {"rereading", "granting", "putting", "leaving", "dead"}

\* A promise that is shared is the one of a call under way on that replica.
PromisesAreLed ==
    /\ \A r \in CrReplica : inflight[r] # NoCrCall =>
          ReplicaOf[inflight[r]] = r /\ call[inflight[r]].at \in Leads
    /\ \A c \in CrCall : call[c].at = "joined" =>
          /\ call[c].lead # NoCrCall /\ call[call[c].lead].at \in Leads
          /\ ReplicaOf[call[c].lead] = ReplicaOf[c]

\* The token a grant will present is unspent, and the one a put will write.
GrantIsGood(c) ==
    /\ call[c].at = "granting" => call[c].snap \in 1..grants /\ (call[c].snap \in used => torn)
    /\ call[c].at = "putting" =>
          call[c].snap \in used /\ call[c].new \in 1..grants /\ call[c].new \notin used

CrInv ==
    /\ CrTypes /\ HolderWorks /\ PromisesAreLed /\ (\A c \in CrCall : GrantIsGood(c))
    /\ NobodyToldInVain /\ RowIsSpendable

\* Nobody asked yet, and the first grant is unspent.
LEMMA CrInvInit == CrInit => CrInv
<1> SUFFICES ASSUME CrInit PROVE CrInv
  OBVIOUS
<1>1. Fresh_ \in CallRec /\ Fresh_.at = "idle" /\ Fresh_.out = "-"
  BY DEF Fresh_, CallRec
<1>2. \A c \in CrCall : call[c] = Fresh_
  BY DEF CrInit
<1>3. CrTypes
  <2>1. call \in [CrCall -> CallRec]
    BY <1>1 DEF CrInit
  <2>2. inflight \in [CrReplica -> CrCall \cup {NoCrCall}]
    BY DEF CrInit
  <2>3. stored = 1 /\ grants = 1 /\ used = {} /\ crLock = NoCrCall /\ torn = FALSE
    BY DEF CrInit
  <2>4. stored \in Nat /\ grants \in Nat /\ stored <= grants /\ used \subseteq 1..grants
    BY <2>3
  <2>5. crLock \in CrCall \cup {NoCrCall} /\ torn \in BOOLEAN
    BY <2>3
  <2> QED
    BY <2>1, <2>2, <2>4, <2>5 DEF CrTypes
<1>4. HolderWorks /\ PromisesAreLed
  <2>1. crLock = NoCrCall /\ \A r \in CrReplica : inflight[r] = NoCrCall
    BY DEF CrInit
  <2> QED
    BY <1>1, <1>2, <2>1 DEF HolderWorks, PromisesAreLed
<1>6. NobodyToldInVain /\ RowIsSpendable
  BY <1>1, <1>2 DEF CrInit, NobodyToldInVain, RowIsSpendable
<1>5. \A c \in CrCall : GrantIsGood(c)
  BY <1>1, <1>2 DEF GrantIsGood
<1> QED
  BY <1>3, <1>4, <1>5, <1>6 DEF CrInv

\* One call moves, the tokens stay: what it may become for the invariant to hold.
LEMMA CallMoves ==
    ASSUME CrInv, NEW c \in CrCall, NEW new \in CallRec, call' = [call EXCEPT ![c] = new],
           UNCHANGED <<stored, grants, used, torn>>,
           call[c].at # "putting", new.at # "putting",
           new.at = "granting" => new.snap \in 1..grants /\ (new.snap \in used => torn),
           new.out = "reconnect" => torn,
           crLock' = crLock \/ (crLock = NoCrCall /\ crLock' = c),
           new.at \in {"rereading", "granting"} => crLock' = c,
           crLock' = c => new.at \in {"rereading", "granting", "leaving", "dead"},
           call[c].at \in Leads => new.at \in Leads,
           new.at = "joined" => /\ new.lead # NoCrCall /\ new.lead # c /\ call[new.lead].at \in Leads
                                /\ ReplicaOf[new.lead] = ReplicaOf[c],
           \/ inflight' = inflight
           \/ inflight' = [inflight EXCEPT ![ReplicaOf[c]] = c] /\ new.at \in Leads
    PROVE  CrInv'
<1> USE RefreshAssumption
<1>1. /\ call' \in [CrCall -> CallRec] /\ call \in [CrCall -> CallRec]
      /\ call'[c] = new /\ \A d \in CrCall : d # c => call'[d] = call[d]
  BY DEF CrInv, CrTypes
<1>2. /\ inflight' \in [CrReplica -> CrCall \cup {NoCrCall}]
      /\ \A r \in CrReplica : inflight'[r] = inflight[r] \/ (inflight'[r] = c /\ r = ReplicaOf[c] /\ new.at \in Leads)
  BY DEF CrInv, CrTypes, CrReplica
<1>3. CrTypes'
  BY <1>1, <1>2 DEF CrInv, CrTypes
<1>4. HolderWorks'
  <2>1. \A d \in CrCall : call'[d].at \in {"rereading", "granting", "putting"} => crLock' = d
    BY <1>1 DEF CrInv, HolderWorks
  <2>2. ASSUME crLock' # NoCrCall
        PROVE  call'[crLock'].at \in {"rereading", "granting", "putting", "leaving", "dead"}
    <3>1. CASE crLock' = c
      BY <1>1, <3>1
    <3>2. CASE crLock' # c
      <4>1. crLock' = crLock /\ crLock \in CrCall
        BY <2>2, <3>2 DEF CrInv, CrTypes
      <4> QED
        BY <1>1, <2>2, <3>2, <4>1 DEF CrInv, HolderWorks
    <3> QED
      BY <3>1, <3>2
  <2> QED
    BY <2>1, <2>2 DEF HolderWorks
<1>5. PromisesAreLed'
  <2>1. ASSUME NEW d \in CrCall, call[d].at \in Leads PROVE call'[d].at \in Leads
    BY <1>1, <2>1
  <2>2. ASSUME NEW r \in CrReplica, inflight'[r] # NoCrCall
        PROVE  ReplicaOf[inflight'[r]] = r /\ call'[inflight'[r]].at \in Leads
    <3>1. CASE inflight'[r] = inflight[r]
      <4>1. inflight[r] \in CrCall /\ ReplicaOf[inflight[r]] = r /\ call[inflight[r]].at \in Leads
        BY <2>2, <3>1 DEF CrInv, CrTypes, PromisesAreLed
      <4> QED
        BY <2>1, <3>1, <4>1
    <3>2. CASE inflight'[r] = c /\ r = ReplicaOf[c] /\ new.at \in Leads
      BY <1>1, <3>2
    <3> QED
      BY <1>2, <3>1, <3>2
  <2>3. ASSUME NEW d \in CrCall, call'[d].at = "joined"
        PROVE  /\ call'[d].lead # NoCrCall /\ call'[call'[d].lead].at \in Leads
               /\ ReplicaOf[call'[d].lead] = ReplicaOf[d]
    <3>1. CASE d = c
      <4>1. new.lead \in CrCall /\ call[new.lead].at \in Leads
        BY <1>1, <2>3, <3>1 DEF CallRec
      <4> QED
        BY <1>1, <2>1, <2>3, <3>1, <4>1
    <3>2. CASE d # c
      <4>1. call'[d] = call[d] /\ call[d] \in CallRec /\ call[d].at = "joined"
        BY <1>1, <2>3, <3>2
      <4>2. /\ call[d].lead \in CrCall /\ call[call[d].lead].at \in Leads
            /\ ReplicaOf[call[d].lead] = ReplicaOf[d]
        BY <4>1 DEF CrInv, PromisesAreLed, CallRec
      <4> QED
        BY <2>1, <4>1, <4>2
    <3> QED
      BY <3>1, <3>2
  <2> QED
    BY <2>2, <2>3 DEF PromisesAreLed
<1>6. ASSUME NEW d \in CrCall PROVE GrantIsGood(d)'
  <2>1. CASE d = c
    BY <1>1, <2>1 DEF GrantIsGood
  <2>2. CASE d # c
    BY <1>1, <2>2 DEF CrInv, GrantIsGood
  <2> QED
    BY <2>1, <2>2
<1>7. NobodyToldInVain'
  BY <1>1 DEF CrInv, NobodyToldInVain
<1>8. RowIsSpendable'
  <2>1. ASSUME NEW d \in CrCall, call[d].at = "putting" PROVE call'[d] = call[d]
    BY <1>1, <2>1
  <2> QED
    BY <2>1 DEF CrInv, RowIsSpendable, Is
<1> QED
  BY <1>3, <1>4, <1>5, <1>6, <1>7, <1>8 DEF CrInv

\* refresh() begins, or reads the row without the lock.
LEMMA ReadKeeps ==
    ASSUME CrInv, NEW c \in CrCall, ReadLands(c) \/ \E f \in Reports : Refresh(c, f)
    PROVE  CrInv'
<1> USE RefreshAssumption
<1>1. /\ call \in [CrCall -> CallRec] /\ call[c] \in CallRec /\ stored \in Nat /\ ReplicaOf[c] \in CrReplica
      /\ inflight \in [CrReplica -> CrCall \cup {NoCrCall}]
  BY DEF CrInv, CrTypes, CrReplica
<1>2. UNCHANGED <<stored, grants, used, torn, crLock>> /\ crLock \in CrCall \cup {NoCrCall}
  BY DEF ReadLands, Refresh, Quiet, CrInv, CrTypes
<1>3. call[c].at \in {"idle", "reading"} /\ crLock # c
  BY DEF ReadLands, Refresh, Is, CrInv, HolderWorks
<1>4. inflight[ReplicaOf[c]] # NoCrCall =>
          /\ inflight[ReplicaOf[c]] \in CrCall /\ call[inflight[ReplicaOf[c]]].at \in Leads
          /\ ReplicaOf[inflight[ReplicaOf[c]]] = ReplicaOf[c] /\ inflight[ReplicaOf[c]] # c
  BY <1>1, <1>3 DEF CrInv, PromisesAreLed, Leads
<1>5. PICK new \in CallRec :
        /\ call' = [call EXCEPT ![c] = new]
        /\ new.out # "reconnect" \/ new.out = call[c].out
        /\ new.at \in {"reading", "joined", "waiting", "done"}
        /\ new.at = "joined" => new.lead = inflight[ReplicaOf[c]] /\ new.lead # NoCrCall
        /\ inflight' = inflight \/ (inflight' = [inflight EXCEPT ![ReplicaOf[c]] = c] /\ new.at = "waiting")
  <2>1. ASSUME NEW f \in Reports, Refresh(c, f)
        PROVE  \E new \in CallRec :
                 /\ call' = [call EXCEPT ![c] = new] /\ new.at \in {"reading", "joined"} /\ new.out = "-"
                 /\ new.at = "joined" => new.lead = inflight[ReplicaOf[c]] /\ new.lead # NoCrCall
                 /\ inflight' = inflight
    <3> DEFINE new == [Fresh_ EXCEPT !.failed = f, !.lead = inflight[ReplicaOf[c]],
                                     !.at = IF inflight[ReplicaOf[c]] = NoCrCall THEN "reading" ELSE "joined"]
    <3>1. Fresh_ \in CallRec /\ Fresh_.out = "-" /\ f \in Nat
      BY DEF Fresh_, CallRec
    <3>2. /\ new \in CallRec /\ new.out = "-" /\ new.lead = inflight[ReplicaOf[c]]
          /\ new.at = IF inflight[ReplicaOf[c]] = NoCrCall THEN "reading" ELSE "joined"
      BY <1>1, <3>1 DEF CallRec
    <3>3. call' = [call EXCEPT ![c] = new] /\ inflight' = inflight
      BY <2>1 DEF Refresh
    <3> HIDE DEF new
    <3>4. new.at \in {"reading", "joined"} /\ (new.at = "joined" => new.lead # NoCrCall)
      BY <3>2
    <3> QED
      BY <3>2, <3>3, <3>4
  <2>2. CASE ReadLands(c) /\ stored = 0
    <3> DEFINE new == [call[c] EXCEPT !.at = "done", !.out = "unknown", !.snap = stored]
    <3>1. new \in CallRec /\ new.at = "done" /\ new.out = "unknown"
      BY <1>1 DEF CallRec
    <3>2. call' = [call EXCEPT ![c] = new] /\ inflight' = inflight
      BY <1>1, <2>2 DEF ReadLands, Answer_
    <3> QED
      BY <3>1, <3>2
  <2>3. CASE ReadLands(c) /\ stored # 0 /\ Usable(stored, call[c].failed)
    <3> DEFINE new == [call[c] EXCEPT !.at = "done", !.out = "ok", !.snap = stored]
    <3>1. new \in CallRec /\ new.at = "done" /\ new.out = "ok"
      BY <1>1 DEF CallRec
    <3>2. call' = [call EXCEPT ![c] = new] /\ inflight' = inflight
      BY <1>1, <2>3 DEF ReadLands, Answer_
    <3> QED
      BY <3>1, <3>2
  <2>4. CASE /\ ReadLands(c) /\ stored # 0 /\ ~Usable(stored, call[c].failed)
             /\ inflight[ReplicaOf[c]] # NoCrCall
    <3> DEFINE new == [call[c] EXCEPT !.at = "joined", !.lead = inflight[ReplicaOf[c]]]
    <3>1. /\ new \in CallRec /\ new.at = "joined" /\ new.out = call[c].out
          /\ new.lead = inflight[ReplicaOf[c]]
      BY <1>1 DEF CallRec
    <3>2. call' = [call EXCEPT ![c] = new] /\ inflight' = inflight
      BY <1>1, <2>4 DEF ReadLands
    <3> QED
      BY <2>4, <3>1, <3>2
  <2>5. CASE /\ ReadLands(c) /\ stored # 0 /\ ~Usable(stored, call[c].failed)
             /\ inflight[ReplicaOf[c]] = NoCrCall
    <3> DEFINE new == [call[c] EXCEPT !.at = "waiting"]
    <3>1. new \in CallRec /\ new.at = "waiting" /\ new.out = call[c].out
      BY <1>1 DEF CallRec
    <3>2. call' = [call EXCEPT ![c] = new] /\ inflight' = [inflight EXCEPT ![ReplicaOf[c]] = c]
      BY <1>1, <2>5 DEF ReadLands, Moves
    <3> QED
      BY <3>1, <3>2
  <2> QED
    BY <2>1, <2>2, <2>3, <2>4, <2>5
<1>6. new.out = "reconnect" => torn
  BY <1>5 DEF CrInv, NobodyToldInVain
<1>7. "waiting" \in Leads /\ call[c].at \notin Leads /\ call[c].at # "putting"
  BY <1>3 DEF Leads
<1> QED
  BY <1>2, <1>3, <1>4, <1>5, <1>6, <1>7, CallMoves

\* The lock is taken, or not in time.
LEMMA LockKeeps ==
    ASSUME CrInv, NEW c \in CrCall, TakeLock(c) \/ WaitRunsOut(c)
    PROVE  CrInv'
<1> USE RefreshAssumption
<1>1. /\ call \in [CrCall -> CallRec] /\ call[c] \in CallRec /\ call[c].at = "waiting"
      /\ crLock \in CrCall \cup {NoCrCall}
      /\ UNCHANGED <<stored, grants, used, torn, inflight>>
  BY DEF CrInv, CrTypes, TakeLock, WaitRunsOut, Is, Quiet
<1>2. CASE TakeLock(c)
  <2> DEFINE new == [call[c] EXCEPT !.at = "rereading"]
  <2>1. new \in CallRec /\ new.at = "rereading" /\ new.out = call[c].out
    BY <1>1 DEF CallRec
  <2>2. call' = [call EXCEPT ![c] = new] /\ crLock = NoCrCall /\ crLock' = c
    BY <1>1, <1>2 DEF TakeLock, Moves, Grants
  <2>3. new.out = "reconnect" => torn
    BY <2>1 DEF CrInv, NobodyToldInVain
  <2> HIDE DEF new
  <2> QED
    BY <1>1, <2>1, <2>2, <2>3, CallMoves DEF Leads
<1>3. CASE WaitRunsOut(c)
  <2> DEFINE new == [call[c] EXCEPT !.at = "leaving", !.out = "error"]
  <2>1. new \in CallRec /\ new.at = "leaving" /\ new.out = "error"
    BY <1>1 DEF CallRec
  <2>2. call' = [call EXCEPT ![c] = new] /\ crLock' = crLock
    BY <1>1, <1>3 DEF WaitRunsOut
  <2> HIDE DEF new
  <2> QED
    BY <1>1, <2>1, <2>2, CallMoves DEF Leads
<1> QED
  BY <1>2, <1>3

\* Under the lock the row's token is unspent, or one was lost.
LEMMA RereadKeeps ==
    ASSUME CrInv, NEW c \in CrCall, RereadLands(c)
    PROVE  CrInv'
<1> USE RefreshAssumption
<1>1. /\ call \in [CrCall -> CallRec] /\ call[c] \in CallRec /\ call[c].at = "rereading" /\ crLock = c
      /\ stored \in Nat /\ stored <= grants /\ grants \in Nat
      /\ UNCHANGED <<stored, grants, used, torn, inflight, crLock>>
  BY DEF CrInv, CrTypes, HolderWorks, RereadLands, Is, Quiet
<1>2. PICK out \in {"unknown", "ok", "-"} :
        /\ out = (IF stored = 0 THEN "unknown" ELSE IF Usable(stored, call[c].failed) THEN "ok" ELSE "-")
        /\ call' = [call EXCEPT ![c].snap = stored, ![c].out = out,
                                ![c].at = IF out = "-" THEN "granting" ELSE "leaving"]
  BY DEF RereadLands
<1> DEFINE new == [call[c] EXCEPT !.snap = stored, !.out = out,
                                  !.at = IF out = "-" THEN "granting" ELSE "leaving"]
<1>3. /\ new \in CallRec /\ new.out = out /\ new.snap = stored
      /\ new.at = IF out = "-" THEN "granting" ELSE "leaving"
  BY <1>1, <1>2 DEF CallRec
<1>4. call' = [call EXCEPT ![c] = new]
  BY <1>1, <1>2
<1> HIDE DEF new
<1>5. stored \in used => torn
  BY <1>1 DEF CrInv, HolderWorks, RowIsSpendable, Is
<1>6. new.at = "granting" => new.snap \in 1..grants
  BY <1>1, <1>2, <1>3
<1> QED
  BY <1>1, <1>2, <1>3, <1>4, <1>5, <1>6, CallMoves DEF Leads

\* A refused or failed request writes nothing; a lost reply is a torn token.
LEMMA RefusedKeeps ==
    ASSUME CrInv, NEW c \in CrCall, call[c].at = "granting",
           NEW out \in {"reconnect", "error"}, out = "reconnect" => torn,
           call' = [call EXCEPT ![c].at = "leaving", ![c].out = out],
           UNCHANGED <<stored, grants, inflight, crLock>>,
           \/ UNCHANGED <<used, torn>>
           \/ call[c].snap \notin used /\ used' = used \cup {call[c].snap} /\ torn' = TRUE
    PROVE  CrInv'
<1> USE RefreshAssumption
<1> DEFINE new == [call[c] EXCEPT !.at = "leaving", !.out = out]
<1>1. /\ call \in [CrCall -> CallRec] /\ call[c] \in CallRec /\ crLock = c
      /\ grants \in Nat /\ used \subseteq 1..grants /\ call[c].snap \in 1..grants
  BY DEF CrInv, CrTypes, HolderWorks, GrantIsGood
<1>2. new \in CallRec /\ new.at = "leaving" /\ new.out = out
  BY <1>1 DEF CallRec
<1>3. call' = [call EXCEPT ![c] = new]
  BY <1>1
<1> HIDE DEF new
<1>4. CASE UNCHANGED <<used, torn>>
  BY <1>1, <1>2, <1>3, <1>4, CallMoves DEF Leads
<1>5. CASE used' = used \cup {call[c].snap} /\ torn' = TRUE
  <2>1. call' \in [CrCall -> CallRec] /\ call'[c] = new /\ \A d \in CrCall : d # c => call'[d] = call[d]
    BY <1>1, <1>2, <1>3
  <2>2. CrTypes'
    BY <1>1, <1>5, <2>1 DEF CrInv, CrTypes
  <2>3. HolderWorks'
    BY <1>1, <1>2, <2>1 DEF CrInv, HolderWorks
  <2>4. \A d \in CrCall : call[d].at \in Leads => call'[d].at \in Leads
    BY <1>2, <2>1 DEF Leads
  <2>5. PromisesAreLed'
    <3>1. ASSUME NEW r \in CrReplica, inflight[r] # NoCrCall
          PROVE  ReplicaOf[inflight[r]] = r /\ call'[inflight[r]].at \in Leads
      BY <2>4, <3>1 DEF CrInv, CrTypes, PromisesAreLed
    <3>2. ASSUME NEW d \in CrCall, call'[d].at = "joined"
          PROVE  /\ call'[d].lead # NoCrCall /\ call'[call'[d].lead].at \in Leads
                 /\ ReplicaOf[call'[d].lead] = ReplicaOf[d]
      <4>1. call'[d] = call[d] /\ call[d] \in CallRec
        BY <1>1, <1>2, <2>1, <3>2
      <4> QED
        BY <2>4, <3>2, <4>1 DEF CrInv, PromisesAreLed, CallRec
    <3> QED
      BY <3>1, <3>2 DEF PromisesAreLed
  <2>6. ASSUME NEW d \in CrCall PROVE GrantIsGood(d)'
    <3>1. CASE d = c
      BY <1>2, <2>1, <3>1 DEF GrantIsGood
    <3>2. CASE d # c
      <4>1. call[d].at \notin {"granting", "putting"}
        BY <1>1, <3>2 DEF CrInv, HolderWorks
      <4> QED
        BY <2>1, <3>2, <4>1 DEF GrantIsGood
    <3> QED
      BY <3>1, <3>2
  <2>7. NobodyToldInVain' /\ RowIsSpendable'
    BY <1>5 DEF NobodyToldInVain, RowIsSpendable
  <2> QED
    BY <2>2, <2>3, <2>5, <2>6, <2>7 DEF CrInv
<1> QED
  BY <1>4, <1>5

\* The provider rotates: the spent token is the row's, the new one unspent.
LEMMA GrantKeeps ==
    ASSUME CrInv, NEW c \in CrCall, GrantLands(c) \/ GrantFails(c)
    PROVE  CrInv'
<1> USE RefreshAssumption
<1>1. /\ call \in [CrCall -> CallRec] /\ call[c] \in CallRec /\ call[c].at = "granting" /\ crLock = c
      /\ grants \in Nat /\ used \subseteq 1..grants /\ call[c].snap \in 1..grants
      /\ (call[c].snap \in used => torn) /\ stored \in Nat /\ stored <= grants
  BY DEF CrInv, CrTypes, HolderWorks, GrantIsGood, GrantLands, GrantFails, Is
<1>2. CASE GrantFails(c)
  <2>1. /\ call' = [call EXCEPT ![c].at = "leaving", ![c].out = "error"]
        /\ UNCHANGED <<stored, grants, inflight, crLock>>
        /\ \/ UNCHANGED <<used, torn>>
           \/ call[c].snap \notin used /\ used' = used \cup {call[c].snap} /\ torn' = TRUE
    BY <1>2 DEF GrantFails
  <2> QED
    BY <1>1, <2>1, RefusedKeeps
<1>3. CASE GrantLands(c) /\ call[c].snap \in used
  <2>1. /\ call' = [call EXCEPT ![c].at = "leaving", ![c].out = "reconnect"]
        /\ UNCHANGED <<stored, grants, inflight, crLock, used, torn>>
    BY <1>3 DEF GrantLands, Quiet
  <2> QED
    BY <1>1, <1>3, <2>1, RefusedKeeps
<1>4. CASE GrantLands(c) /\ call[c].snap \notin used
  <2> DEFINE new == [call[c] EXCEPT !.at = "putting", !.new = grants + 1]
  <2>1. /\ new \in CallRec /\ new.at = "putting" /\ new.new = grants + 1 /\ new.snap = call[c].snap
        /\ new.out = call[c].out
    <3>1. grants + 1 \in Nat
      BY <1>1
    <3> QED
      BY <1>1, <3>1 DEF CallRec
  <2>2. /\ grants' = grants + 1 /\ used' = used \cup {call[c].snap} /\ call' = [call EXCEPT ![c] = new]
        /\ UNCHANGED <<stored, inflight, crLock, torn>>
    BY <1>1, <1>4 DEF GrantLands, Quiet
  <2> HIDE DEF new
  <2>3. call' \in [CrCall -> CallRec] /\ call'[c] = new /\ \A d \in CrCall : d # c => call'[d] = call[d]
    BY <1>1, <2>1, <2>2
  <2>4. CrTypes'
    <3>1. grants \in Nat /\ stored \in Nat /\ stored <= grants /\ grants' = grants + 1 /\ stored' = stored
      BY <1>1, <2>2
    <3>2. grants' \in Nat /\ stored' <= grants' /\ 1..grants \subseteq 1..grants'
      BY <3>1
    <3>3. used' \subseteq 1..grants'
      BY <1>1, <2>2, <3>2
    <3> QED
      BY <2>2, <2>3, <3>2, <3>3 DEF CrInv, CrTypes
  <2>5. HolderWorks'
    BY <1>1, <2>1, <2>2, <2>3 DEF CrInv, HolderWorks
  <2>6. \A d \in CrCall : call[d].at \in Leads => call'[d].at \in Leads
    BY <2>1, <2>3 DEF Leads
  <2>7. PromisesAreLed'
    <3>1. ASSUME NEW r \in CrReplica, inflight[r] # NoCrCall
          PROVE  ReplicaOf[inflight[r]] = r /\ call'[inflight[r]].at \in Leads
      BY <2>6, <3>1 DEF CrInv, CrTypes, PromisesAreLed
    <3>2. ASSUME NEW d \in CrCall, call'[d].at = "joined"
          PROVE  /\ call'[d].lead # NoCrCall /\ call'[call'[d].lead].at \in Leads
                 /\ ReplicaOf[call'[d].lead] = ReplicaOf[d]
      <4>1. call'[d] = call[d] /\ call[d] \in CallRec
        BY <1>1, <2>1, <2>3, <3>2
      <4> QED
        BY <2>6, <3>2, <4>1 DEF CrInv, PromisesAreLed, CallRec
    <3> QED
      BY <2>2, <3>1, <3>2 DEF PromisesAreLed
  <2>8. ASSUME NEW d \in CrCall PROVE GrantIsGood(d)'
    <3>1. CASE d = c
      <4>1. grants + 1 \in 1..(grants + 1) /\ grants + 1 \notin used \cup {call[c].snap}
        BY <1>1
      <4> QED
        BY <2>1, <2>2, <2>3, <3>1, <4>1 DEF GrantIsGood
    <3>2. CASE d # c
      <4>1. call[d].at \notin {"granting", "putting"}
        BY <1>1, <3>2 DEF CrInv, HolderWorks
      <4> QED
        BY <2>3, <3>2, <4>1 DEF GrantIsGood
    <3> QED
      BY <3>1, <3>2
  <2>9. NobodyToldInVain'
    BY <2>1, <2>2, <2>3 DEF CrInv, NobodyToldInVain
  <2>10. RowIsSpendable'
    <3>1. CASE stored \in used
      <4>1. \A d \in CrCall : d # c => call[d].at # "putting"
        BY <1>1 DEF CrInv, HolderWorks
      <4>2. torn
        BY <1>1, <3>1, <4>1 DEF CrInv, RowIsSpendable, Is
      <4> QED
        BY <2>2, <4>2 DEF RowIsSpendable
    <3>2. CASE stored \notin used
      BY <2>1, <2>2, <2>3, <3>2 DEF RowIsSpendable, Is
    <3> QED
      BY <3>1, <3>2
  <2> QED
    BY <2>4, <2>5, <2>7, <2>8, <2>9, <2>10 DEF CrInv
<1> QED
  BY <1>2, <1>3, <1>4 DEF GrantLands

\* The row gets the token of the grant, which nobody has spent.
LEMMA PutKeeps ==
    ASSUME CrInv, NEW c \in CrCall, PutLands(c)
    PROVE  CrInv'
<1> USE RefreshAssumption
<1> DEFINE new == [call[c] EXCEPT !.at = "leaving", !.out = "ok", !.snap = call[c].new]
<1>1. /\ call \in [CrCall -> CallRec] /\ call[c] \in CallRec /\ call[c].at = "putting" /\ crLock = c
      /\ grants \in Nat /\ call[c].new \in 1..grants /\ call[c].new \notin used
      /\ stored' = call[c].new /\ UNCHANGED <<grants, used, inflight, crLock, torn>>
  BY DEF CrInv, CrTypes, HolderWorks, GrantIsGood, PutLands, Is, Written, Quiet
<1>2. new \in CallRec /\ new.at = "leaving" /\ new.out = "ok"
  BY <1>1 DEF CallRec
<1>3. call' = [call EXCEPT ![c] = new]
  BY <1>1 DEF PutLands
<1> HIDE DEF new
<1>4. call' \in [CrCall -> CallRec] /\ call'[c] = new /\ \A d \in CrCall : d # c => call'[d] = call[d]
  BY <1>1, <1>2, <1>3
<1>5. CrTypes'
  <2>1. stored' \in Nat /\ stored' <= grants
    BY <1>1
  <2> QED
    BY <1>1, <1>4, <2>1 DEF CrInv, CrTypes
<1>6. HolderWorks'
  BY <1>1, <1>2, <1>4 DEF CrInv, HolderWorks
<1>7. \A d \in CrCall : call[d].at \in Leads => call'[d].at \in Leads
  BY <1>2, <1>4 DEF Leads
<1>8. PromisesAreLed'
  <2>1. ASSUME NEW r \in CrReplica, inflight[r] # NoCrCall
        PROVE  ReplicaOf[inflight[r]] = r /\ call'[inflight[r]].at \in Leads
    BY <1>7, <2>1 DEF CrInv, CrTypes, PromisesAreLed
  <2>2. ASSUME NEW d \in CrCall, call'[d].at = "joined"
        PROVE  /\ call'[d].lead # NoCrCall /\ call'[call'[d].lead].at \in Leads
               /\ ReplicaOf[call'[d].lead] = ReplicaOf[d]
    <3>1. call'[d] = call[d] /\ call[d] \in CallRec
      BY <1>1, <1>2, <1>4, <2>2
    <3> QED
      BY <1>7, <2>2, <3>1 DEF CrInv, PromisesAreLed, CallRec
  <2> QED
    BY <1>1, <2>1, <2>2 DEF PromisesAreLed
<1>9. ASSUME NEW d \in CrCall PROVE GrantIsGood(d)'
  <2>1. CASE d = c
    BY <1>2, <1>4, <2>1 DEF GrantIsGood
  <2>2. CASE d # c
    BY <1>1, <1>4, <2>2 DEF CrInv, GrantIsGood
  <2> QED
    BY <2>1, <2>2
<1>10. NobodyToldInVain' /\ RowIsSpendable'
  BY <1>1, <1>2, <1>4 DEF CrInv, NobodyToldInVain, RowIsSpendable
<1> QED
  BY <1>5, <1>6, <1>8, <1>9, <1>10 DEF CrInv

\* The finally: the lock, the promise, and those who shared it.
LEMMA LeaveKeeps ==
    ASSUME CrInv, NEW c \in CrCall, Leave(c)
    PROVE  CrInv'
<1> USE RefreshAssumption
<1> DEFINE Ends_(d) == d = c \/ (call[d].at = "joined" /\ call[d].lead = c)
<1>1. /\ call \in [CrCall -> CallRec] /\ call[c] \in CallRec /\ call[c].at = "leaving"
      /\ inflight \in [CrReplica -> CrCall \cup {NoCrCall}] /\ crLock \in CrCall \cup {NoCrCall}
      /\ crLock' = (IF crLock = c THEN NoCrCall ELSE crLock)
      /\ inflight' = [inflight EXCEPT ![ReplicaOf[c]] = NoCrCall]
      /\ UNCHANGED <<stored, grants, used, torn>>
  BY DEF CrInv, CrTypes, Leave, Is, Forgets, Quiet
<1>2. call' = [d \in CrCall |-> IF Ends_(d)
                 THEN [call[d] EXCEPT !.at = "done", !.out = call[c].out, !.snap = call[c].snap, !.new = 0]
                 ELSE call[d]]
  BY DEF Leave, Is
<1>3. ASSUME NEW d \in CrCall
      PROVE  /\ call'[d] \in CallRec
             /\ Ends_(d) => call'[d].at = "done" /\ call'[d].out = call[c].out
             /\ ~Ends_(d) => call'[d] = call[d]
  <2>1. call[d] \in CallRec
    BY <1>1
  <2>2. [call[d] EXCEPT !.at = "done", !.out = call[c].out, !.snap = call[c].snap, !.new = 0] \in CallRec
    BY <1>1, <2>1 DEF CallRec
  <2> DEFINE over == [call[d] EXCEPT !.at = "done", !.out = call[c].out, !.snap = call[c].snap, !.new = 0]
  <2>3. over.at = "done" /\ over.out = call[c].out
    BY <2>1 DEF CallRec
  <2>4. call'[d] = IF Ends_(d) THEN over ELSE call[d]
    BY <1>2
  <2> HIDE DEF over, Ends_
  <2>5. over \in CallRec
    BY <2>2 DEF over
  <2> QED
    BY <2>1, <2>3, <2>4, <2>5
<1>4. \A d \in CrCall : Ends_(d) => call[d].at \in {"leaving", "joined"}
  BY <1>1
<1>5. call' \in [CrCall -> CallRec]
  <2> HIDE DEF Ends_
  <2> QED
    BY <1>2, <1>3
<1>6. c \in CrCall /\ Ends_(c)
  OBVIOUS
<1>7. \A d \in CrCall : call[d].at \in Leads /\ d # c => ~Ends_(d)
  BY DEF Leads
<1>8. \A d \in CrCall : ~Ends_(d) /\ call[d].at = "joined" => call[d].lead # c
  OBVIOUS
<1> HIDE DEF Ends_
<1>9. CrTypes'
  BY <1>1, <1>5 DEF CrInv, CrTypes
<1>10. HolderWorks'
  <2>1. ASSUME NEW d \in CrCall, call'[d].at \in {"rereading", "granting", "putting"} PROVE crLock' = d
    <3>1. ~Ends_(d) /\ call'[d] = call[d] /\ d # c
      BY <1>3, <1>6, <2>1
    <3> QED
      BY <1>1, <2>1, <3>1 DEF CrInv, HolderWorks
  <2>2. ASSUME crLock' # NoCrCall
        PROVE  call'[crLock'].at \in {"rereading", "granting", "putting", "leaving", "dead"}
    <3>1. crLock' = crLock /\ crLock \in CrCall /\ crLock # c
      BY <1>1, <2>2
    <3>2. call[crLock].at \in {"rereading", "granting", "putting", "leaving", "dead"}
      BY <2>2, <3>1 DEF CrInv, HolderWorks
    <3>3. call'[crLock] = call[crLock]
      BY <1>3, <1>4, <1>7, <3>1, <3>2 DEF Leads
    <3> QED
      BY <3>1, <3>2, <3>3
  <2> QED
    BY <2>1, <2>2 DEF HolderWorks
<1>11. PromisesAreLed'
  <2>1. ASSUME NEW r \in CrReplica, inflight'[r] # NoCrCall
        PROVE  ReplicaOf[inflight'[r]] = r /\ call'[inflight'[r]].at \in Leads
    <3>1. r # ReplicaOf[c] /\ inflight'[r] = inflight[r] /\ inflight[r] \in CrCall
      BY <1>1, <2>1
    <3>2. ReplicaOf[inflight[r]] = r /\ call[inflight[r]].at \in Leads
      BY <2>1, <3>1 DEF CrInv, PromisesAreLed
    <3>3. call'[inflight[r]] = call[inflight[r]]
      BY <1>3, <1>7, <3>1, <3>2
    <3> QED
      BY <3>1, <3>2, <3>3
  <2>2. ASSUME NEW d \in CrCall, call'[d].at = "joined"
        PROVE  /\ call'[d].lead # NoCrCall /\ call'[call'[d].lead].at \in Leads
               /\ ReplicaOf[call'[d].lead] = ReplicaOf[d]
    <3>1. ~Ends_(d) /\ call'[d] = call[d] /\ call[d] \in CallRec /\ call[d].at = "joined"
      BY <1>1, <1>3, <2>2
    <3>2. /\ call[d].lead \in CrCall /\ call[call[d].lead].at \in Leads /\ call[d].lead # NoCrCall
          /\ ReplicaOf[call[d].lead] = ReplicaOf[d] /\ call[d].lead # c
      BY <1>8, <3>1 DEF CrInv, PromisesAreLed, CallRec
    <3>3. call'[call[d].lead] = call[call[d].lead]
      BY <1>3, <1>7, <3>2
    <3> QED
      BY <3>1, <3>2, <3>3
  <2> QED
    BY <2>1, <2>2 DEF PromisesAreLed
<1>12. ASSUME NEW d \in CrCall PROVE GrantIsGood(d)'
  <2>1. CASE Ends_(d)
    BY <1>3, <2>1 DEF GrantIsGood
  <2>2. CASE ~Ends_(d)
    BY <1>1, <1>3, <2>2 DEF CrInv, GrantIsGood
  <2> QED
    BY <2>1, <2>2
<1>13. NobodyToldInVain'
  BY <1>1, <1>3 DEF CrInv, NobodyToldInVain
<1>14. RowIsSpendable'
  <2>1. \A d \in CrCall : call[d].at = "putting" => call'[d] = call[d]
    BY <1>3, <1>4
  <2> QED
    BY <1>1, <2>1 DEF CrInv, RowIsSpendable, Is
<1> QED
  BY <1>9, <1>10, <1>11, <1>12, <1>13, <1>14 DEF CrInv

\* Time and the owner: a connect's own grant is unspent.
LEMMA OwnerKeeps ==
    ASSUME CrInv, Age \/ Reconnect \/ Disconnect \/ LapseDead
    PROVE  CrInv'
<1> USE RefreshAssumption
<1>1. /\ stored \in Nat /\ grants \in Nat /\ stored <= grants /\ used \subseteq 1..grants
      /\ UNCHANGED <<call, used, inflight, torn>>
      /\ crLock' = crLock \/ (crLock' = NoCrCall /\ crLock # NoCrCall /\ call[crLock].at = "dead")
  BY DEF CrInv, CrTypes, Age, Reconnect, Disconnect, LapseDead, Dead, Is, Quiet
<1>2. \/ UNCHANGED <<stored, grants>>
      \/ stored' = 0 /\ grants' = grants
      \/ grants' = grants + 1 /\ stored' = grants + 1
  BY DEF Age, Reconnect, Disconnect, LapseDead
<1>3. grants' \in Nat /\ stored' \in Nat /\ stored' <= grants' /\ grants <= grants'
  BY <1>1, <1>2
<1>4. CrTypes'
  <2>1. 1..grants \subseteq 1..grants'
    BY <1>1, <1>3
  <2>2. used' \subseteq 1..grants' /\ crLock' \in CrCall \cup {NoCrCall}
    BY <1>1, <2>1 DEF CrInv, CrTypes
  <2> QED
    BY <1>1, <1>3, <2>2 DEF CrInv, CrTypes
<1>5. HolderWorks' /\ PromisesAreLed' /\ NobodyToldInVain'
  BY <1>1 DEF CrInv, HolderWorks, PromisesAreLed, NobodyToldInVain
<1>6. ASSUME NEW c \in CrCall PROVE GrantIsGood(c)'
  <2>1. 1..grants \subseteq 1..grants'
    BY <1>1, <1>3
  <2> QED
    BY <1>1, <2>1 DEF CrInv, GrantIsGood
<1>7. RowIsSpendable'
  <2>1. stored' \in used => stored' = stored
    BY <1>1, <1>2
  <2> QED
    BY <1>1, <2>1 DEF CrInv, RowIsSpendable, Is
<1> QED
  BY <1>4, <1>5, <1>6, <1>7 DEF CrInv

\* A replica dies with its calls; a rotated token it had not written is lost.
LEMMA CrashKeeps ==
    ASSUME CrInv, NEW r \in CrReplica, CrCrash(r)
    PROVE  CrInv'
<1> USE RefreshAssumption
<1> DEFINE On(c) == ReplicaOf[c] = r /\ call[c].at \notin {"done", "idle"}
<1>1. /\ call \in [CrCall -> CallRec] /\ torn \in BOOLEAN
      /\ inflight \in [CrReplica -> CrCall \cup {NoCrCall}] /\ crLock \in CrCall \cup {NoCrCall}
      /\ inflight' = [inflight EXCEPT ![r] = NoCrCall]
      /\ UNCHANGED <<stored, grants, used, crLock>>
  BY DEF CrInv, CrTypes, CrCrash
<1>2. /\ call' = [c \in CrCall |-> IF On(c) THEN [call[c] EXCEPT !.at = "dead"] ELSE call[c]]
      /\ torn' = (torn \/ \E c \in CrCall : On(c) /\ call[c].at = "putting")
  BY DEF CrCrash, Is
<1>3. \A c \in CrCall : call[c].at \in Leads \cup {"joined", "reading", "dead"} /\ ReplicaOf[c] = r => On(c)
  BY DEF Leads
<1>4. \A c \in CrCall : On(c) => ReplicaOf[c] = r
  OBVIOUS
<1> HIDE DEF On
<1>5. ASSUME NEW c \in CrCall
      PROVE  /\ call'[c] \in CallRec /\ call'[c].out = call[c].out
             /\ On(c) => call'[c].at = "dead"
             /\ ~On(c) => call'[c] = call[c]
  <2> DEFINE over == [call[c] EXCEPT !.at = "dead"]
  <2>1. call[c] \in CallRec /\ over \in CallRec /\ over.at = "dead" /\ over.out = call[c].out
    BY <1>1 DEF CallRec
  <2>2. call'[c] = IF On(c) THEN over ELSE call[c]
    BY <1>2
  <2> HIDE DEF over
  <2> QED
    BY <2>1, <2>2
<1>6. call' \in [CrCall -> CallRec] /\ torn' \in BOOLEAN
  BY <1>1, <1>2, <1>5
<1>7. CrTypes'
  BY <1>1, <1>6 DEF CrInv, CrTypes
<1>8. HolderWorks'
  <2>1. ASSUME NEW c \in CrCall, call'[c].at \in {"rereading", "granting", "putting"} PROVE crLock' = c
    BY <1>1, <1>5, <2>1 DEF CrInv, HolderWorks
  <2>2. ASSUME crLock # NoCrCall
        PROVE  call'[crLock].at \in {"rereading", "granting", "putting", "leaving", "dead"}
    BY <1>1, <1>5, <2>2 DEF CrInv, HolderWorks
  <2> QED
    BY <1>1, <2>1, <2>2 DEF HolderWorks
<1>9. PromisesAreLed'
  <2>1. ASSUME NEW q \in CrReplica, inflight'[q] # NoCrCall
        PROVE  ReplicaOf[inflight'[q]] = q /\ call'[inflight'[q]].at \in Leads
    <3>1. q # r /\ inflight'[q] = inflight[q] /\ inflight[q] \in CrCall
      BY <1>1, <2>1
    <3>2. ReplicaOf[inflight[q]] = q /\ call[inflight[q]].at \in Leads
      BY <2>1, <3>1 DEF CrInv, PromisesAreLed
    <3>3. call'[inflight[q]] = call[inflight[q]]
      BY <1>4, <1>5, <3>1, <3>2
    <3> QED
      BY <3>1, <3>2, <3>3
  <2>2. ASSUME NEW d \in CrCall, call'[d].at = "joined"
        PROVE  /\ call'[d].lead # NoCrCall /\ call'[call'[d].lead].at \in Leads
               /\ ReplicaOf[call'[d].lead] = ReplicaOf[d]
    <3>1. ~On(d) /\ call'[d] = call[d] /\ call[d] \in CallRec /\ call[d].at = "joined"
      BY <1>1, <1>5, <2>2
    <3>2. /\ call[d].lead \in CrCall /\ call[call[d].lead].at \in Leads /\ call[d].lead # NoCrCall
          /\ ReplicaOf[call[d].lead] = ReplicaOf[d]
      BY <3>1 DEF CrInv, PromisesAreLed, CallRec
    <3>3. call'[call[d].lead] = call[call[d].lead]
      BY <1>3, <1>4, <1>5, <3>1, <3>2
    <3> QED
      BY <3>1, <3>2, <3>3
  <2> QED
    BY <2>1, <2>2 DEF PromisesAreLed
<1>10. torn => torn'
  BY <1>2
<1>11. ASSUME NEW c \in CrCall PROVE GrantIsGood(c)'
  <2>1. CASE On(c)
    BY <1>5, <2>1 DEF GrantIsGood
  <2>2. CASE ~On(c)
    BY <1>1, <1>5, <1>10, <2>2 DEF CrInv, GrantIsGood
  <2> QED
    BY <2>1, <2>2
<1>12. NobodyToldInVain'
  BY <1>5, <1>10 DEF CrInv, NobodyToldInVain
<1>13. RowIsSpendable'
  <2>1. \A c \in CrCall : call[c].at = "putting" => torn' \/ call'[c] = call[c]
    BY <1>2, <1>5
  <2> QED
    BY <1>1, <1>10, <2>1 DEF CrInv, RowIsSpendable, Is
<1> QED
  BY <1>7, <1>8, <1>9, <1>11, <1>12, <1>13 DEF CrInv

\* The invariant holds in every state, while no holder outlives its lock.
LEMMA CrInvHolds == CrSpec => []CrInv
<1>1. CrInv /\ [CrNext]_crVars => CrInv'
  <2> SUFFICES ASSUME CrInv, [CrNext]_crVars PROVE CrInv'
    OBVIOUS
  <2>1. ASSUME NEW c \in CrCall,
               \/ ReadLands(c) \/ (\E f \in Reports : Refresh(c, f)) \/ TakeLock(c) \/ WaitRunsOut(c)
               \/ RereadLands(c) \/ GrantLands(c) \/ GrantFails(c) \/ PutLands(c) \/ Leave(c)
        PROVE  CrInv'
    BY <2>1, ReadKeeps, LockKeeps, RereadKeeps, GrantKeeps, PutKeeps, LeaveKeeps
  <2>2. CASE Age \/ Reconnect \/ Disconnect \/ LapseDead
    BY <2>2, OwnerKeeps
  <2>3. ASSUME NEW r \in CrReplica, CrCrash(r) PROVE CrInv'
    BY <2>3, CrashKeeps
  <2>4. CASE UNCHANGED crVars
    BY <2>4 DEF crVars, CrInv, CrTypes, HolderWorks, PromisesAreLed, GrantIsGood, NobodyToldInVain,
                RowIsSpendable, Is
  <2> QED
    BY <2>1, <2>2, <2>3, <2>4 DEF CrNext
<1> QED
  BY <1>1, CrInvInit, PTL DEF CrSpec

\* credential-refresh.ts:6, :135: however many calls, replicas, expiries,
\* connects and crashes: nobody is told to sign in again and the row's token can
\* be spent, unless a rotated token was lost on its way; and while a call has no
\* answer somebody can move.
THEOREM OneGrantServesAll == CrSpec => []OneGrantPerExpiry
<1>1. CrInv => OneGrantPerExpiry
  <2> SUFFICES ASSUME CrInv PROVE OneGrantPerExpiry
    OBVIOUS
  <2>1. ASSUME NEW c \in CrCall, call[c].at \notin {"idle", "done", "dead"},
               ~(crLock # NoCrCall /\ Dead(crLock))
        PROVE  \E d \in CrCall : CanMove(d)
    <3>1. call[c] \in CallRec /\ crLock \in CrCall \cup {NoCrCall}
      BY DEF CrInv, CrTypes
    <3>2. ASSUME NEW d \in CrCall, call[d].at \in Leads PROVE \E e \in CrCall : CanMove(e)
      <4>1. CASE crLock = NoCrCall
        BY <3>2, <4>1 DEF Leads, CanMove, Is, Grants
      <4>2. CASE crLock # NoCrCall
        <5>1. crLock \in CrCall /\ call[crLock].at \in {"rereading", "granting", "putting", "leaving"}
          BY <2>1, <3>1, <4>2 DEF CrInv, HolderWorks, Dead, Is
        <5> QED
          BY <5>1 DEF CanMove
      <4> QED
        BY <4>1, <4>2
    <3>3. CASE call[c].at = "joined"
      <4>1. call[c].lead \in CrCall /\ call[call[c].lead].at \in Leads
        BY <3>1, <3>3 DEF CrInv, PromisesAreLed, CallRec
      <4> QED
        BY <3>2, <4>1
    <3>4. CASE call[c].at = "reading"
      BY <3>4 DEF CanMove
    <3>5. CASE call[c].at \in Leads
      BY <3>2, <3>5
    <3> QED
      BY <2>1, <3>1, <3>3, <3>4, <3>5 DEF CallRec, Leads
  <2>2. CallIsAnswered
    BY <2>1 DEF CallIsAnswered
  <2> QED
    BY <2>2 DEF OneGrantPerExpiry, CrInv
<1> QED
  BY <1>1, CrInvHolds, PTL

-----------------------------------------------------------------------------
(***************************************************************************)
(* CronScheduler: an occurrence is dispatched once                         *)
(***************************************************************************)
CronRun == [by : CReplica \cup {NoReplica}, seen : Nat, to : Nat,
            pc : {"none", "claimed", "sending", "sent", "failing", "over"},
            hears : BOOLEAN, turn : {"none", "queued", "ended", "unheard"}, late : BOOLEAN]

CronTypes ==
    /\ minute \in Nat /\ cronRow \in [next : Nat, paused : BOOLEAN, active : BOOLEAN]
    /\ polls \subseteq [by : CReplica, seen : Nat, to : Nat]
    /\ running \in [CReplica -> BOOLEAN] /\ run \in [Run -> CronRun]

\* The row is never ahead of the next minute, and a claim moves it forward.
ClaimsMoveOn ==
    /\ cronRow.next <= minute + 1
    /\ \A p \in polls : /\ p.seen <= minute
                        /\ p.to > 0 => p.seen < p.to /\ p.to <= minute + 1

\* What a run's places say of its turn.
RunShape(i) ==
    /\ IF run[i].pc = "none" THEN run[i].by = NoReplica
       ELSE run[i].by \in CReplica /\ run[i].seen < run[i].to
    /\ run[i].pc \in {"none", "claimed", "sending"} => run[i].turn = "none"
    /\ run[i].pc = "failing" /\ run[i].turn # "none" => run[i].late

\* A run that dispatched its occurrence, or may still do so, or give it back.
Holds(i) == \/ run[i].pc \in {"claimed", "sending", "sent", "failing"}
            \/ run[i].turn # "none" /\ ~run[i].late

\* The row, and every later claim, is past the occurrence of a run that holds it.
ClaimsInOrder ==
    /\ \E n \in 0..MaxRuns : \A i \in Run : run[i].pc = "none" <=> n < i
    /\ \A i \in Run : Holds(i) => run[i].to <= cronRow.next
    /\ \A i, j \in Run : i < j /\ Holds(i) /\ run[j].pc # "none" => run[i].to <= run[j].seen

CronInv ==
    /\ CronTypes /\ ClaimsMoveOn /\ (\A i \in Run : RunShape(i)) /\ ClaimsInOrder
    /\ RunningIsAnswered

\* Nothing is claimed.
LEMMA CronInvInit == CronInit => CronInv
<1> SUFFICES ASSUME CronInit PROVE CronInv
  OBVIOUS
<1> DEFINE none == [by |-> NoReplica, seen |-> 0, to |-> 0, pc |-> "none",
                    hears |-> FALSE, turn |-> "none", late |-> FALSE]
<1>1. /\ none \in CronRun /\ none.pc = "none" /\ none.by = NoReplica /\ none.turn = "none"
  BY DEF CronRun
<1>2. run = [i \in Run |-> none]
  BY DEF CronInit
<1> HIDE DEF none
<1>3. \A i \in Run : run[i] = none
  BY <1>2
<1>4. CronTypes
  <2>1. run \in [Run -> CronRun]
    BY <1>1, <1>2
  <2>2. cronRow \in [next : Nat, paused : BOOLEAN, active : BOOLEAN]
    BY DEF CronInit
  <2>3. minute \in Nat /\ polls = {} /\ running \in [CReplica -> BOOLEAN]
    BY DEF CronInit
  <2> QED
    BY <2>1, <2>2, <2>3 DEF CronTypes
<1>5. ClaimsMoveOn /\ RunningIsAnswered
  BY DEF CronInit, ClaimsMoveOn, RunningIsAnswered
<1>6. \A i \in Run : RunShape(i) /\ ~Holds(i) /\ run[i].pc = "none" /\ 0 < i
  BY <1>1, <1>3 DEF RunShape, Holds, Run
<1>7. ClaimsInOrder
  <2>1. 0 \in 0..MaxRuns
    BY CronAssumption
  <2> QED
    BY <1>6, <2>1 DEF ClaimsInOrder
<1> QED
  BY <1>4, <1>5, <1>6, <1>7 DEF CronInv

\* The runs go on, and none comes to hold an occurrence.
LEMMA RunsGoOn ==
    ASSUME CronInv, run' \in [Run -> CronRun], UNCHANGED <<minute, cronRow>>,
           polls' \subseteq polls, running' \in [CReplica -> BOOLEAN], RunningIsAnswered',
           \A i \in Run : /\ run'[i].by = run[i].by /\ run'[i].seen = run[i].seen /\ run'[i].to = run[i].to
                          /\ run'[i].pc = "none" <=> run[i].pc = "none"
                          /\ RunShape(i)' /\ (Holds(i)' => Holds(i))
    PROVE  CronInv'
<1>1. CronTypes' /\ ClaimsMoveOn'
  BY DEF CronInv, CronTypes, ClaimsMoveOn
<1>2. ClaimsInOrder'
  <2>1. PICK n \in 0..MaxRuns : \A i \in Run : run[i].pc = "none" <=> n < i
    BY DEF CronInv, ClaimsInOrder
  <2>2. \A i \in Run : run'[i].pc = "none" <=> n < i
    BY <2>1
  <2>3. \A i \in Run : Holds(i)' => run'[i].to <= cronRow'.next
    BY DEF CronInv, ClaimsInOrder
  <2>4. \A i, j \in Run : i < j /\ Holds(i)' /\ run'[j].pc # "none" => run'[i].to <= run'[j].seen
    BY DEF CronInv, ClaimsInOrder
  <2> QED
    BY <2>2, <2>3, <2>4 DEF ClaimsInOrder
<1> QED
  BY <1>1, <1>2 DEF CronInv

\* The clock, the schedulers' starts, the polls and the edits: the row never
\* goes back, and what a poll asks for is ahead of what it read.
LEMMA RowKeeps ==
    ASSUME CronInv,
           \/ MinutePasses \/ EditJob \/ (\E r \in CReplica : StartCron(r) \/ StopCron(r) \/ FindDue(r))
           \/ \E p \in polls : AskClaim(p)
    PROVE  CronInv'
<1>1. /\ minute \in Nat /\ cronRow \in [next : Nat, paused : BOOLEAN, active : BOOLEAN]
      /\ polls \subseteq [by : CReplica, seen : Nat, to : Nat] /\ cronRow.next <= minute + 1
  BY DEF CronInv, CronTypes, ClaimsMoveOn
<1>2. UNCHANGED <<run, running>> /\ (minute' = minute \/ minute' = minute + 1)
  BY DEF MinutePasses, EditJob, StartCron, StopCron, FindDue, AskClaim
<1>3. /\ cronRow' \in [next : Nat, paused : BOOLEAN, active : BOOLEAN]
      /\ cronRow.next <= cronRow'.next /\ cronRow'.next <= minute + 1
  <2>1. CASE EditJob
    <3>1. minute + 1 \in Nat
      BY <1>1
    <3>2. \/ cronRow' = [cronRow EXCEPT !.paused = TRUE]
          \/ cronRow' = [cronRow EXCEPT !.paused = FALSE, !.next = minute + 1]
          \/ cronRow' = [cronRow EXCEPT !.next = minute + 1]
          \/ cronRow' = [cronRow EXCEPT !.active = FALSE]
      BY <2>1 DEF EditJob, NextRun
    <3>3. cronRow'.next \in {cronRow.next, minute + 1}
      BY <1>1, <3>2
    <3>4. cronRow' \in [next : Nat, paused : BOOLEAN, active : BOOLEAN]
      BY <1>1, <3>1, <3>2
    <3> QED
      BY <1>1, <3>1, <3>3, <3>4
  <2>2. CASE cronRow' = cronRow
    BY <1>1, <2>2
  <2> QED
    BY <2>1, <2>2 DEF MinutePasses, StartCron, StopCron, FindDue, AskClaim
<1>4. /\ polls' \subseteq [by : CReplica, seen : Nat, to : Nat]
      /\ \A p \in polls' : p.seen <= minute /\ (p.to > 0 => p.seen < p.to /\ p.to <= minute + 1)
  <2>1. \A p \in polls : p.seen <= minute /\ (p.to > 0 => p.seen < p.to /\ p.to <= minute + 1)
    BY DEF CronInv, ClaimsMoveOn
  <2>2. ASSUME NEW r \in CReplica, FindDue(r)
        PROVE  /\ polls' \subseteq [by : CReplica, seen : Nat, to : Nat]
               /\ \A p \in polls' : p.seen <= minute /\ (p.to > 0 => p.seen < p.to /\ p.to <= minute + 1)
    <3> DEFINE q == [by |-> r, seen |-> cronRow.next, to |-> 0]
    <3>1. polls' = polls \cup {q} /\ cronRow.next <= minute
      BY <2>2 DEF FindDue, Due
    <3>2. q \in [by : CReplica, seen : Nat, to : Nat] /\ q.seen = cronRow.next /\ q.to = 0
      BY <1>1
    <3> HIDE DEF q
    <3> QED
      BY <1>1, <2>1, <3>1, <3>2
  <2>3. ASSUME NEW p \in polls, AskClaim(p)
        PROVE  /\ polls' \subseteq [by : CReplica, seen : Nat, to : Nat]
               /\ \A q \in polls' : q.seen <= minute /\ (q.to > 0 => q.seen < q.to /\ q.to <= minute + 1)
    <3> DEFINE q == [p EXCEPT !.to = minute + 1]
    <3>1. polls' \subseteq polls \cup {q}
      BY <2>3 DEF AskClaim, NextRun
    <3>2. /\ q \in [by : CReplica, seen : Nat, to : Nat] /\ q.seen = p.seen /\ q.to = minute + 1
          /\ p.seen \in Nat /\ minute + 1 \in Nat
      BY <1>1
    <3> HIDE DEF q
    <3>3. q.seen <= minute /\ q.seen < q.to /\ q.to <= minute + 1
      BY <1>1, <2>1, <3>2
    <3> QED
      BY <1>1, <2>1, <3>1, <3>2, <3>3
  <2>4. CASE polls' = polls
    BY <1>1, <2>1, <2>4
  <2> QED
    BY <2>2, <2>3, <2>4 DEF MinutePasses, EditJob, StartCron, StopCron
<1>5. CronTypes' /\ ClaimsMoveOn'
  <2>1. minute' \in Nat /\ minute <= minute' /\ minute + 1 \in Nat /\ minute' + 1 \in Nat
        /\ minute + 1 <= minute' + 1
    BY <1>1, <1>2
  <2>2. CronTypes'
    BY <1>2, <1>3, <1>4, <2>1 DEF CronInv, CronTypes
  <2>3. \A p \in polls' : p.seen <= minute' /\ (p.to > 0 => p.seen < p.to /\ p.to <= minute' + 1)
    BY <1>1, <1>4, <2>1
  <2>4. cronRow'.next <= minute' + 1
    BY <1>1, <1>3, <2>1
  <2> QED
    BY <2>2, <2>3, <2>4 DEF ClaimsMoveOn
<1>6. (\A i \in Run : RunShape(i)') /\ RunningIsAnswered'
  BY <1>2 DEF CronInv, RunShape, RunningIsAnswered
<1>7. ClaimsInOrder'
  <2>1. \A i \in Run : Holds(i)' <=> Holds(i)
    BY <1>2 DEF Holds
  <2>2. \A i \in Run : run[i].to \in Nat
    BY DEF CronInv, CronTypes, CronRun
  <2>3. cronRow.next \in Nat /\ cronRow'.next \in Nat
    BY <1>1, <1>3
  <2>4. \A i \in Run : Holds(i) => run[i].to <= cronRow'.next
    BY <1>3, <2>2, <2>3 DEF CronInv, ClaimsInOrder
  <2> QED
    BY <1>2, <2>1, <2>4 DEF CronInv, ClaimsInOrder
<1> QED
  BY <1>5, <1>6, <1>7 DEF CronInv

\* A run passes its occurrence over, sends, fails, or its turn ends unheard.
LEMMA RunStepKeeps ==
    ASSUME CronInv, NEW i \in Run,
           SkipOccurrence(i) \/ SendTurn(i) \/ SendLands(i) \/ SendFails(i) \/ CronTurnEndsUnheard(i)
    PROVE  CronInv'
<1>1. /\ run \in [Run -> CronRun] /\ run[i] \in CronRun /\ RunShape(i) /\ running \in [CReplica -> BOOLEAN]
      /\ run[i].turn = "queued" => run[i].pc # "none"
  BY DEF CronInv, CronTypes, RunShape
<1>2. UNCHANGED <<minute, cronRow, polls>> /\ run[i].by \in CReplica
  BY <1>1 DEF SkipOccurrence, SendTurn, SendLands, SendFails, CronTurnEndsUnheard, RunShape
<1>3. PICK new \in CronRun :
        /\ run' = [run EXCEPT ![i] = new]
        /\ new.by = run[i].by /\ new.seen = run[i].seen /\ new.to = run[i].to
        /\ \/ /\ run[i].pc = "claimed" /\ new.pc = "over" /\ new.turn = run[i].turn /\ new.late = run[i].late
              /\ running' = [running EXCEPT ![run[i].by] = FALSE]
           \/ /\ run[i].pc = "claimed" /\ new.pc = "sending" /\ new.turn = run[i].turn /\ new.hears
              /\ running' = running
           \/ /\ run[i].pc = "sending" /\ new.pc = "sent" /\ new.hears = run[i].hears
              /\ running' = running
           \/ /\ run[i].pc \in {"sending", "sent"} /\ new.pc = "failing" /\ new.turn = run[i].turn
              /\ (run[i].pc = "sent" => new.late) /\ running' = running
           \/ /\ run[i].turn = "queued" /\ new.turn # "none" /\ new.pc = run[i].pc
              /\ new.late = run[i].late /\ new.hears = run[i].hears /\ running' = running
  <2>1. CASE SkipOccurrence(i)
    <3> DEFINE new == [run[i] EXCEPT !.pc = "over"]
    <3>1. /\ new \in CronRun /\ new.by = run[i].by /\ new.seen = run[i].seen /\ new.to = run[i].to
          /\ new.pc = "over" /\ new.turn = run[i].turn /\ new.late = run[i].late
      BY <1>1 DEF CronRun
    <3>2. /\ run' = [run EXCEPT ![i] = new] /\ run[i].pc = "claimed"
          /\ running' = [running EXCEPT ![run[i].by] = FALSE]
      BY <1>1, <2>1 DEF SkipOccurrence
    <3> HIDE DEF new
    <3> QED
      BY <3>1, <3>2
  <2>2. CASE SendTurn(i)
    <3> DEFINE new == [run[i] EXCEPT !.pc = "sending", !.hears = TRUE]
    <3>1. /\ new \in CronRun /\ new.by = run[i].by /\ new.seen = run[i].seen /\ new.to = run[i].to
          /\ new.pc = "sending" /\ new.turn = run[i].turn /\ new.hears
      BY <1>1 DEF CronRun
    <3>2. run' = [run EXCEPT ![i] = new] /\ run[i].pc = "claimed" /\ running' = running
      BY <1>1, <2>2 DEF SendTurn
    <3> HIDE DEF new
    <3> QED
      BY <3>1, <3>2
  <2>3. CASE SendLands(i)
    <3> DEFINE new == [run[i] EXCEPT !.pc = "sent", !.turn = "queued"]
    <3>1. /\ new \in CronRun /\ new.by = run[i].by /\ new.seen = run[i].seen /\ new.to = run[i].to
          /\ new.pc = "sent" /\ new.hears = run[i].hears
      BY <1>1 DEF CronRun
    <3>2. run' = [run EXCEPT ![i] = new] /\ run[i].pc = "sending" /\ running' = running
      BY <1>1, <2>3 DEF SendLands
    <3> HIDE DEF new
    <3> QED
      BY <3>1, <3>2
  <2>4. CASE SendFails(i)
    <3> DEFINE new == [run[i] EXCEPT !.pc = "failing", !.hears = FALSE, !.late = run[i].pc = "sent"]
    <3>1. /\ new \in CronRun /\ new.by = run[i].by /\ new.seen = run[i].seen /\ new.to = run[i].to
          /\ new.pc = "failing" /\ new.turn = run[i].turn /\ new.late = (run[i].pc = "sent")
      BY <1>1 DEF CronRun
    <3>2. run' = [run EXCEPT ![i] = new] /\ run[i].pc \in {"sending", "sent"} /\ running' = running
      BY <1>1, <2>4 DEF SendFails
    <3> HIDE DEF new
    <3> QED
      BY <3>1, <3>2
  <2>5. CASE CronTurnEndsUnheard(i)
    <3> DEFINE new == [run[i] EXCEPT !.turn = "unheard"]
    <3>1. /\ new \in CronRun /\ new.by = run[i].by /\ new.seen = run[i].seen /\ new.to = run[i].to
          /\ new.pc = run[i].pc /\ new.late = run[i].late /\ new.turn = "unheard" /\ new.hears = run[i].hears
      BY <1>1 DEF CronRun
    <3>2. run' = [run EXCEPT ![i] = new] /\ run[i].turn = "queued" /\ running' = running
      BY <1>1, <2>5 DEF CronTurnEndsUnheard
    <3> HIDE DEF new
    <3> QED
      BY <3>1, <3>2
  <2> QED
    BY <2>1, <2>2, <2>3, <2>4, <2>5
<1>4. run' \in [Run -> CronRun] /\ run'[i] = new /\ \A j \in Run : j # i => run'[j] = run[j]
  BY <1>1, <1>3
<1>5. running' \in [CReplica -> BOOLEAN]
  BY <1>1, <1>3
<1>6. ASSUME NEW j \in Run
      PROVE  /\ run'[j].by = run[j].by /\ run'[j].seen = run[j].seen /\ run'[j].to = run[j].to
             /\ run'[j].pc = "none" <=> run[j].pc = "none"
             /\ RunShape(j)' /\ (Holds(j)' => Holds(j))
  <2>1. CASE j = i
    BY <1>1, <1>3, <1>4, <2>1 DEF RunShape, Holds
  <2>2. CASE j # i
    BY <1>4, <2>2 DEF CronInv, RunShape, Holds
  <2> QED
    BY <2>1, <2>2
<1>7. RunningIsAnswered'
  <2> SUFFICES ASSUME NEW r \in CReplica, running'[r]
               PROVE  \E j \in Run : run'[j].by = r /\ (run'[j].hears \/ run'[j].pc \in {"claimed", "failing"})
    BY DEF RunningIsAnswered
  <2>1. running[r] /\ ~(run[i].by = r /\ running' = [running EXCEPT ![run[i].by] = FALSE])
    BY <1>1, <1>2, <1>3
  <2>2. PICK j \in Run : run[j].by = r /\ (run[j].hears \/ run[j].pc \in {"claimed", "failing"})
    BY <2>1 DEF CronInv, RunningIsAnswered
  <2>3. CASE j # i
    BY <1>4, <2>2, <2>3
  <2>4. CASE j = i
    BY <1>3, <1>4, <2>1, <2>2, <2>4
  <2> QED
    BY <2>3, <2>4
<1> QED
  BY <1>2, <1>4, <1>5, <1>6, <1>7, RunsGoOn

\* The runs of a replica that listen are over.
LEMMA DeafenedRuns ==
    ASSUME CronTypes, NEW r, NEW j \in Run
    PROVE  /\ Deafened(r)[j] \in CronRun
           /\ Deafened(r)[j].by = run[j].by /\ Deafened(r)[j].seen = run[j].seen
           /\ Deafened(r)[j].to = run[j].to /\ Deafened(r)[j].turn = run[j].turn
           /\ Deafened(r)[j].late = run[j].late
           /\ Deafened(r)[j].pc = run[j].pc \/ (run[j].pc = "sent" /\ Deafened(r)[j].pc = "over")
           /\ ~(run[j].by = r /\ run[j].hears) => Deafened(r)[j] = run[j]
<1>1. run[j] \in CronRun
  BY DEF CronTypes
<1> DEFINE deaf == [run[j] EXCEPT !.hears = FALSE, !.pc = IF @ = "sent" THEN "over" ELSE @]
<1>2. /\ deaf \in CronRun /\ deaf.by = run[j].by /\ deaf.seen = run[j].seen /\ deaf.to = run[j].to
      /\ deaf.turn = run[j].turn /\ deaf.late = run[j].late
      /\ deaf.pc = IF run[j].pc = "sent" THEN "over" ELSE run[j].pc
  BY <1>1 DEF CronRun
<1>3. Deafened(r)[j] = IF run[j].by = r /\ run[j].hears THEN deaf ELSE run[j]
  BY DEF Deafened
<1> HIDE DEF deaf
<1> QED
  BY <1>1, <1>2, <1>3

\* Runs of one replica end; the job leaves its #running.
LEMMA ReplicaKeeps ==
    ASSUME CronInv, NEW r \in CReplica, run' \in [Run -> CronRun], UNCHANGED <<minute, cronRow>>,
           polls' \subseteq polls,
           \A j \in Run : /\ run'[j].by = run[j].by /\ run'[j].seen = run[j].seen /\ run'[j].to = run[j].to
                          /\ run'[j].late = run[j].late
                          /\ run'[j].turn = run[j].turn \/ (run[j].turn # "none" /\ run'[j].turn # "none")
                          /\ \/ run'[j].pc = run[j].pc
                             \/ run[j].pc # "none" /\ run'[j].pc = "over"
                          /\ run[j].by # r => run'[j].hears = run[j].hears /\ run'[j].pc = run[j].pc,
           \/ running' = [running EXCEPT ![r] = FALSE]
           \/ running' = running /\ \A j \in Run : run'[j].hears = run[j].hears /\ run'[j].pc = run[j].pc
    PROVE  CronInv'
<1>1. running \in [CReplica -> BOOLEAN] /\ run \in [Run -> CronRun]
  BY DEF CronInv, CronTypes
<1>2. running' \in [CReplica -> BOOLEAN]
  BY <1>1
<1>3. ASSUME NEW j \in Run
      PROVE  run'[j].pc = "none" <=> run[j].pc = "none"
  OBVIOUS
<1>4. ASSUME NEW j \in Run PROVE RunShape(j)' /\ (Holds(j)' => Holds(j))
  <2>1. RunShape(j)
    BY DEF CronInv
  <2>2. CASE run'[j].pc = run[j].pc
    BY <2>1, <2>2 DEF RunShape, Holds
  <2>3. CASE run[j].pc # "none" /\ run'[j].pc = "over"
    BY <2>1, <2>3 DEF RunShape, Holds
  <2> QED
    BY <2>2, <2>3
<1>5. RunningIsAnswered'
  <2> SUFFICES ASSUME NEW q \in CReplica, running'[q]
               PROVE  \E j \in Run : run'[j].by = q /\ (run'[j].hears \/ run'[j].pc \in {"claimed", "failing"})
    BY DEF RunningIsAnswered
  <2>1. running[q] /\ (q # r \/ \A j \in Run : run'[j].hears = run[j].hears /\ run'[j].pc = run[j].pc)
    BY <1>1
  <2>2. PICK j \in Run : run[j].by = q /\ (run[j].hears \/ run[j].pc \in {"claimed", "failing"})
    BY <2>1 DEF CronInv, RunningIsAnswered
  <2> QED
    BY <2>1, <2>2
<1> QED
  BY <1>2, <1>3, <1>4, <1>5, RunsGoOn

\* A turn's end is heard by every run of its replica that listens; a replica dies.
LEMMA EndKeeps ==
    ASSUME CronInv,
           \/ \E i \in Run : CronTurnEnds(i)
           \/ \E r \in CReplica : ForeignTurnEnds(r) \/ CronCrash(r)
    PROVE  CronInv'
<1>1. run \in [Run -> CronRun] /\ CronTypes /\ NoReplica \notin CReplica
  BY CronAssumption DEF CronInv, CronTypes
<1>2. ASSUME NEW i \in Run, CronTurnEnds(i) PROVE CronInv'
  <2> DEFINE r == run[i].by
  <2>1. /\ run[i] \in CronRun /\ r \in CReplica /\ run[i].turn = "queued"
        /\ run' = [Deafened(r) EXCEPT ![i].turn = "ended"]
        /\ running' = (IF Listens(r) THEN [running EXCEPT ![r] = FALSE] ELSE running)
        /\ UNCHANGED <<minute, cronRow, polls>>
    BY <1>1, <1>2 DEF CronTurnEnds, CronInv, RunShape
  <2> HIDE DEF r
  <2> DEFINE D == Deafened(r)
  <2>2. /\ D \in [Run -> CronRun]
        /\ \A j \in Run : /\ D[j].by = run[j].by /\ D[j].seen = run[j].seen /\ D[j].to = run[j].to
                          /\ D[j].turn = run[j].turn /\ D[j].late = run[j].late
                          /\ D[j].pc = run[j].pc \/ (run[j].pc = "sent" /\ D[j].pc = "over")
                          /\ ~(run[j].by = r /\ run[j].hears) => D[j] = run[j]
    <3>1. D = [j \in Run |-> D[j]]
      BY DEF Deafened
    <3>2. \A j \in Run : D[j] \in CronRun
      BY <1>1, DeafenedRuns
    <3> QED
      BY <1>1, <3>1, <3>2, DeafenedRuns
  <2>3. run' = [D EXCEPT ![i].turn = "ended"]
    BY <2>1
  <2> HIDE DEF D
  <2> DEFINE new == [D[i] EXCEPT !.turn = "ended"]
  <2>4. /\ new \in CronRun /\ new.by = D[i].by /\ new.seen = D[i].seen /\ new.to = D[i].to
        /\ new.late = D[i].late /\ new.pc = D[i].pc /\ new.hears = D[i].hears /\ new.turn = "ended"
    <3>1. D[i] \in CronRun
      BY <2>2
    <3> QED
      BY <3>1 DEF CronRun
  <2>5. run' = [D EXCEPT ![i] = new]
    BY <2>3
  <2> HIDE DEF new
  <2>6. run' \in [Run -> CronRun] /\ run'[i] = new /\ \A j \in Run : j # i => run'[j] = D[j]
    BY <2>2, <2>4, <2>5
  <2>7. ASSUME NEW j \in Run
        PROVE  /\ run'[j].by = run[j].by /\ run'[j].seen = run[j].seen /\ run'[j].to = run[j].to
               /\ run'[j].late = run[j].late
               /\ run'[j].turn = run[j].turn \/ (run[j].turn # "none" /\ run'[j].turn # "none")
               /\ run'[j].pc = run[j].pc \/ (run[j].pc # "none" /\ run'[j].pc = "over")
               /\ run'[j].pc = D[j].pc /\ run'[j].hears = D[j].hears
               /\ run[j].by # r => run'[j].hears = run[j].hears /\ run'[j].pc = run[j].pc
    <3>1. CASE j = i
      BY <2>1, <2>2, <2>4, <2>6, <3>1
    <3>2. CASE j # i
      BY <2>2, <2>6, <3>2
    <3> QED
      BY <3>1, <3>2
  <2>8. \/ running' = [running EXCEPT ![r] = FALSE]
        \/ running' = running /\ \A j \in Run : run'[j].hears = run[j].hears /\ run'[j].pc = run[j].pc
    <3>1. ~Listens(r) => \A j \in Run : D[j] = run[j]
      BY <2>2 DEF Listens
    <3> QED
      BY <2>1, <2>7, <3>1
  <2> QED
    BY <2>1, <2>6, <2>7, <2>8, ReplicaKeeps, SMTT(30)
<1>3. ASSUME NEW r \in CReplica, ForeignTurnEnds(r) PROVE CronInv'
  <2>1. /\ run' = Deafened(r) /\ running' = [running EXCEPT ![r] = FALSE]
        /\ UNCHANGED <<minute, cronRow, polls>>
    BY <1>3 DEF ForeignTurnEnds
  <2>2. \A j \in Run : /\ run'[j] \in CronRun
                       /\ run'[j].by = run[j].by /\ run'[j].seen = run[j].seen /\ run'[j].to = run[j].to
                       /\ run'[j].turn = run[j].turn /\ run'[j].late = run[j].late
                       /\ run'[j].pc = run[j].pc \/ (run[j].pc = "sent" /\ run'[j].pc = "over")
                       /\ ~(run[j].by = r /\ run[j].hears) => run'[j] = run[j]
    BY <1>1, <2>1, DeafenedRuns
  <2>3. run' \in [Run -> CronRun]
    <3>1. run' = [j \in Run |-> run'[j]]
      BY <2>1 DEF Deafened
    <3> QED
      BY <2>2, <3>1
  <2>4. \A j \in Run : /\ run'[j].by = run[j].by /\ run'[j].seen = run[j].seen /\ run'[j].to = run[j].to
                       /\ run'[j].late = run[j].late
                       /\ run'[j].turn = run[j].turn \/ (run[j].turn # "none" /\ run'[j].turn # "none")
                       /\ \/ run'[j].pc = run[j].pc
                          \/ run[j].pc # "none" /\ run'[j].pc = "over"
                       /\ run[j].by # r => run'[j].hears = run[j].hears /\ run'[j].pc = run[j].pc
    BY <2>2
  <2>5. polls' \subseteq polls /\ running' = [running EXCEPT ![r] = FALSE] /\ UNCHANGED <<minute, cronRow>>
    BY <2>1
  <2> QED
    BY <2>3, <2>4, <2>5, ReplicaKeeps
<1>4. ASSUME NEW r \in CReplica, CronCrash(r) PROVE CronInv'
  <2>1. /\ running' = [running EXCEPT ![r] = FALSE] /\ polls' \subseteq polls
        /\ run' = [i \in Run |-> IF run[i].by = r
                                 THEN [run[i] EXCEPT !.pc = "over", !.hears = FALSE] ELSE run[i]]
        /\ UNCHANGED <<minute, cronRow>>
    BY <1>4 DEF CronCrash
  <2>2. ASSUME NEW j \in Run
        PROVE  /\ run'[j] \in CronRun
               /\ run'[j].by = run[j].by /\ run'[j].seen = run[j].seen /\ run'[j].to = run[j].to
               /\ run'[j].turn = run[j].turn /\ run'[j].late = run[j].late
               /\ run'[j].pc = run[j].pc \/ (run[j].pc # "none" /\ run'[j].pc = "over")
               /\ run[j].by # r => run'[j] = run[j]
    <3> DEFINE over == [run[j] EXCEPT !.pc = "over", !.hears = FALSE]
    <3>1. run[j] \in CronRun /\ (run[j].pc = "none" => run[j].by # r)
      BY <1>1 DEF CronInv, RunShape
    <3>2. /\ over \in CronRun /\ over.by = run[j].by /\ over.seen = run[j].seen /\ over.to = run[j].to
          /\ over.turn = run[j].turn /\ over.late = run[j].late /\ over.pc = "over"
      BY <3>1 DEF CronRun
    <3>3. run'[j] = IF run[j].by = r THEN over ELSE run[j]
      BY <2>1
    <3> HIDE DEF over
    <3> QED
      BY <3>1, <3>2, <3>3
  <2>3. run' \in [Run -> CronRun]
    BY <2>1, <2>2
  <2>4. \A j \in Run : /\ run'[j].by = run[j].by /\ run'[j].seen = run[j].seen /\ run'[j].to = run[j].to
                       /\ run'[j].late = run[j].late
                       /\ run'[j].turn = run[j].turn \/ (run[j].turn # "none" /\ run'[j].turn # "none")
                       /\ \/ run'[j].pc = run[j].pc
                          \/ run[j].pc # "none" /\ run'[j].pc = "over"
                       /\ run[j].by # r => run'[j].hears = run[j].hears /\ run'[j].pc = run[j].pc
    BY <2>2
  <2>5. polls' \subseteq polls /\ running' = [running EXCEPT ![r] = FALSE] /\ UNCHANGED <<minute, cronRow>>
    BY <2>1
  <2> QED
    BY <2>3, <2>4, <2>5, ReplicaKeeps
<1> QED
  BY <1>2, <1>3, <1>4

\* releaseClaim: the row goes back to the last occurrence claimed, which nobody
\* else holds.
LEMMA ReleaseKeeps ==
    ASSUME CronInv, NEW i \in Run, ReleaseOccurrence(i)
    PROVE  CronInv'
<1> DEFINE new == [run[i] EXCEPT !.pc = "over"]
<1>1. /\ run \in [Run -> CronRun] /\ run[i] \in CronRun /\ run[i].pc = "failing" /\ RunShape(i)
      /\ run[i].by \in CReplica /\ run[i].seen < run[i].to /\ minute \in Nat
      /\ running \in [CReplica -> BOOLEAN] /\ run[i].seen \in Nat /\ run[i].to \in Nat
      /\ cronRow \in [next : Nat, paused : BOOLEAN, active : BOOLEAN]
  BY DEF CronInv, CronTypes, RunShape, ReleaseOccurrence, CronRun
<1>2. /\ run' = [run EXCEPT ![i] = new]
      /\ cronRow' = (IF cronRow.next = run[i].to THEN [cronRow EXCEPT !.next = run[i].seen] ELSE cronRow)
      /\ running' = [running EXCEPT ![run[i].by] = FALSE]
      /\ UNCHANGED <<minute, polls>>
  BY <1>1 DEF ReleaseOccurrence
<1>3. /\ new \in CronRun /\ new.by = run[i].by /\ new.seen = run[i].seen /\ new.to = run[i].to
      /\ new.pc = "over" /\ new.turn = run[i].turn /\ new.late = run[i].late
  BY <1>1 DEF CronRun
<1> HIDE DEF new
<1>4. run' \in [Run -> CronRun] /\ run'[i] = new /\ \A j \in Run : j # i => run'[j] = run[j]
  BY <1>1, <1>2, <1>3
<1>5. /\ cronRow' \in [next : Nat, paused : BOOLEAN, active : BOOLEAN]
      /\ cronRow'.next = IF cronRow.next = run[i].to THEN run[i].seen ELSE cronRow.next
  BY <1>1, <1>2
<1>6. CronTypes' /\ ClaimsMoveOn'
  <2>1. cronRow'.next <= minute + 1
    BY <1>1, <1>5 DEF CronInv, ClaimsMoveOn
  <2> QED
    BY <1>1, <1>2, <1>4, <1>5, <2>1 DEF CronInv, CronTypes, ClaimsMoveOn
<1>7. ~Holds(i)'
  BY <1>1, <1>3, <1>4 DEF Holds, RunShape
<1>8. ASSUME NEW j \in Run PROVE RunShape(j)'
  <2>1. CASE j = i
    BY <1>1, <1>3, <1>4, <2>1 DEF RunShape
  <2>2. CASE j # i
    BY <1>4, <2>2 DEF CronInv, RunShape
  <2> QED
    BY <2>1, <2>2
<1>9. ASSUME NEW j \in Run, Holds(j)'
      PROVE  j # i /\ Holds(j) /\ run'[j] = run[j] /\ run[j].to \in Nat /\ run[j].seen \in Nat
  BY <1>1, <1>4, <1>7, <1>9 DEF Holds, CronRun
<1>10. ASSUME NEW j \in Run, Holds(j)' PROVE run'[j].to <= cronRow'.next
  <2>1. j # i /\ Holds(j) /\ run'[j] = run[j] /\ run[j].to <= cronRow.next /\ run[j].to \in Nat /\ run[j].seen \in Nat
    BY <1>9, <1>10 DEF CronInv, ClaimsInOrder
  <2>2. CASE cronRow.next # run[i].to
    BY <1>5, <2>1, <2>2
  <2>3. CASE cronRow.next = run[i].to /\ j < i
    BY <1>1, <1>5, <2>1, <2>3 DEF CronInv, ClaimsInOrder
  <2>4. CASE cronRow.next = run[i].to /\ i < j
    <3>1. Holds(i) /\ run[j].pc # "none" /\ run[j].seen < run[j].to
      BY <1>1, <2>1 DEF CronInv, RunShape, Holds
    <3>2. run[i].to <= run[j].seen
      BY <2>4, <3>1 DEF CronInv, ClaimsInOrder
    <3> QED
      BY <1>1, <2>1, <2>4, <3>1, <3>2
  <2>5. j < i \/ i < j
    BY <2>1, CronAssumption DEF Run
  <2> QED
    BY <2>2, <2>3, <2>4, <2>5
<1>11. ClaimsInOrder'
  <2>1. PICK n \in 0..MaxRuns : \A j \in Run : run[j].pc = "none" <=> n < j
    BY DEF CronInv, ClaimsInOrder
  <2>2. \A j \in Run : (run'[j].pc = "none" <=> run[j].pc = "none") /\ run'[j].seen = run[j].seen
    BY <1>1, <1>3, <1>4
  <2>3. \A j \in Run : run'[j].pc = "none" <=> n < j
    BY <2>1, <2>2
  <2>4. ASSUME NEW j \in Run, NEW k \in Run, j < k, Holds(j)', run'[k].pc # "none"
        PROVE  run'[j].to <= run'[k].seen
    BY <1>9, <2>2, <2>4 DEF CronInv, ClaimsInOrder
  <2> QED
    BY <1>10, <2>3, <2>4 DEF ClaimsInOrder
<1>12. RunningIsAnswered'
  <2> SUFFICES ASSUME NEW r \in CReplica, running'[r]
               PROVE  \E j \in Run : run'[j].by = r /\ (run'[j].hears \/ run'[j].pc \in {"claimed", "failing"})
    BY DEF RunningIsAnswered
  <2>1. running[r] /\ run[i].by # r
    BY <1>1, <1>2
  <2>2. PICK j \in Run : run[j].by = r /\ (run[j].hears \/ run[j].pc \in {"claimed", "failing"})
    BY <2>1 DEF CronInv, RunningIsAnswered
  <2> QED
    BY <1>4, <2>1, <2>2
<1> QED
  BY <1>6, <1>8, <1>11, <1>12 DEF CronInv

\* claimDue: the row is at the occurrence the poll read, past every one that is
\* held, and moves past this one.
LEMMA ClaimKeeps ==
    ASSUME CronInv, NEW p \in polls, NEW heard \in BOOLEAN, ClaimLands(p, heard)
    PROVE  CronInv'
<1> USE CronAssumption
<1>1. /\ run \in [Run -> CronRun] /\ running \in [CReplica -> BOOLEAN] /\ minute \in Nat
      /\ cronRow \in [next : Nat, paused : BOOLEAN, active : BOOLEAN]
      /\ p.by \in CReplica /\ p.seen \in Nat /\ p.to \in Nat /\ p.seen < p.to /\ p.to <= minute + 1
      /\ polls' \subseteq polls /\ minute' = minute /\ Fresh # {}
  BY DEF CronInv, CronTypes, ClaimsMoveOn, ClaimLands
<1>2. /\ cronRow' \in [next : Nat, paused : BOOLEAN, active : BOOLEAN]
      /\ cronRow'.next = IF Claimable(p) THEN p.to ELSE cronRow.next
  BY <1>1 DEF ClaimLands
<1>3. cronRow.next <= cronRow'.next /\ cronRow'.next <= minute + 1
  BY <1>1, <1>2 DEF Claimable, CronInv, ClaimsMoveOn
<1>4. ClaimsMoveOn'
  BY <1>1, <1>3 DEF CronInv, ClaimsMoveOn
<1>5. \A j \in Run : Holds(j) => run[j].to <= cronRow'.next
  <2>1. \A j \in Run : run[j].to \in Nat
    BY <1>1 DEF CronRun
  <2> QED
    BY <1>1, <1>2, <1>3, <2>1 DEF CronInv, ClaimsInOrder
<1>6. CASE ~(Claimable(p) /\ heard)
  <2>1. UNCHANGED <<running, run>>
    BY <1>6 DEF ClaimLands
  <2>2. CronTypes'
    BY <1>1, <1>2, <2>1 DEF CronInv, CronTypes
  <2>3. \A j \in Run : Holds(j)' <=> Holds(j)
    BY <2>1 DEF Holds
  <2>4. ClaimsInOrder'
    BY <1>5, <2>1, <2>3 DEF CronInv, ClaimsInOrder
  <2>5. (\A j \in Run : RunShape(j)') /\ RunningIsAnswered'
    BY <2>1 DEF CronInv, RunShape, RunningIsAnswered
  <2> QED
    BY <1>4, <2>2, <2>4, <2>5 DEF CronInv
<1>7. CASE Claimable(p) /\ heard
  <2>1. PICK n \in 0..MaxRuns : \A j \in Run : run[j].pc = "none" <=> n < j
    BY DEF CronInv, ClaimsInOrder
  <2>2. n + 1 \in Run /\ FirstFresh = n + 1 /\ n + 1 \in 0..MaxRuns
    <3>1. Fresh = {j \in Run : n < j}
      BY <2>1 DEF Fresh
    <3>2. PICK k \in Run : n < k
      BY <1>1, <3>1
    <3>3. n \in Nat /\ k \in Nat /\ k <= MaxRuns /\ n + 1 <= k
      BY <3>2 DEF Run
    <3>4. n + 1 \in Run /\ n + 1 \in Fresh /\ n + 1 \in 0..MaxRuns
      BY <3>1, <3>3 DEF Run
    <3>5. \A j \in Fresh : j \in Nat /\ n + 1 <= j
      BY <3>1, <3>3 DEF Run
    <3>6. \A j \in Fresh : (\A m \in Fresh : j <= m) => j = n + 1
      BY <3>3, <3>4, <3>5
    <3> QED
      BY <3>4, <3>5, <3>6 DEF FirstFresh
  <2> DEFINE i == n + 1
             new == [run[i] EXCEPT !.by = p.by, !.seen = p.seen, !.to = p.to, !.pc = "claimed"]
  <2>3. i \in Run /\ run[i] \in CronRun /\ run[i].pc = "none"
    <3>1. n < n + 1
      BY <2>1
    <3> QED
      BY <1>1, <2>1, <2>2, <3>1
  <2>4. /\ new \in CronRun /\ new.by = p.by /\ new.seen = p.seen /\ new.to = p.to
        /\ new.pc = "claimed" /\ new.turn = run[i].turn /\ new.late = run[i].late
    <3> HIDE DEF i
    <3> QED
      BY <1>1, <2>3 DEF CronRun
  <2>5. /\ run' = [run EXCEPT ![i] = new] /\ running' = [running EXCEPT ![p.by] = TRUE]
    BY <1>1, <1>7, <2>2, <2>3 DEF ClaimLands
  <2>6. \A j \in Run : j # i => (j < i \/ run[j].pc = "none")
    BY <2>1, <2>3 DEF Run
  <2>7. \A j \in Run : j # i => (run[j].pc = "none" <=> i < j)
    BY <2>1, <2>3 DEF Run
  <2>8. i \in 0..MaxRuns /\ ~(i < i)
    BY <2>1, <2>2
  <2> HIDE DEF new, i
  <2>9. run' \in [Run -> CronRun] /\ run'[i] = new /\ \A j \in Run : j # i => run'[j] = run[j]
    BY <1>1, <2>3, <2>4, <2>5
  <2>10. CronTypes'
    BY <1>1, <1>2, <2>5, <2>9 DEF CronInv, CronTypes
  <2>11. ASSUME NEW j \in Run PROVE RunShape(j)'
    <3>1. CASE j = i
      BY <1>1, <2>3, <2>4, <2>9, <3>1 DEF CronInv, RunShape
    <3>2. CASE j # i
      BY <2>9, <3>2 DEF CronInv, RunShape
    <3> QED
      BY <3>1, <3>2
  <2>12. p.seen = cronRow.next /\ cronRow'.next = p.to
    BY <1>2, <1>7 DEF Claimable
  <2>13. ASSUME NEW j \in Run, j # i, Holds(j)' PROVE Holds(j) /\ run[j].pc # "none" /\ run'[j] = run[j]
    BY <2>9, <2>13 DEF Holds, CronInv, RunShape
  <2>14. ASSUME NEW j \in Run, Holds(j)' PROVE run'[j].to <= cronRow'.next
    <3>1. CASE j = i
      BY <1>1, <2>4, <2>9, <2>12, <3>1
    <3>2. CASE j # i
      BY <1>5, <2>13, <2>14, <3>2
    <3> QED
      BY <3>1, <3>2
  <2>15. ASSUME NEW j \in Run, NEW k \in Run, j < k, Holds(j)', run'[k].pc # "none"
         PROVE  run'[j].to <= run'[k].seen
    <3>1. CASE k = i
      <4>1. j # i
        BY <2>8, <2>15, <3>1
      <4>2. Holds(j) /\ run'[j] = run[j] /\ run'[k].seen = cronRow.next
        BY <2>4, <2>9, <2>12, <2>13, <2>15, <3>1, <4>1
      <4> QED
        BY <4>2 DEF CronInv, ClaimsInOrder
    <3>2. CASE k # i
      <4>1. run'[k] = run[k] /\ run[k].pc # "none" /\ ~(i < k)
        BY <2>7, <2>9, <2>15, <3>2
      <4>2. j # i
        BY <2>15, <4>1
      <4> QED
        BY <2>13, <2>15, <4>1, <4>2 DEF CronInv, ClaimsInOrder
    <3> QED
      BY <3>1, <3>2
  <2>16. \A j \in Run : run'[j].pc = "none" <=> i < j
    BY <2>4, <2>7, <2>8, <2>9
  <2>17. ClaimsInOrder'
    BY <2>8, <2>14, <2>15, <2>16 DEF ClaimsInOrder
  <2>18. RunningIsAnswered'
    <3> SUFFICES ASSUME NEW r \in CReplica, running'[r]
                 PROVE  \E j \in Run : run'[j].by = r /\ (run'[j].hears \/ run'[j].pc \in {"claimed", "failing"})
      BY DEF RunningIsAnswered
    <3>1. CASE r = p.by
      BY <2>3, <2>4, <2>9, <3>1
    <3>2. CASE r # p.by
      <4>1. running[r]
        BY <1>1, <2>5, <3>2
      <4>2. PICK j \in Run : run[j].by = r /\ (run[j].hears \/ run[j].pc \in {"claimed", "failing"})
        BY <4>1 DEF CronInv, RunningIsAnswered
      <4>3. j # i
        BY <2>3, <4>2 DEF CronInv, RunShape
      <4> QED
        BY <2>9, <4>2, <4>3
    <3> QED
      BY <3>1, <3>2
  <2> QED
    BY <1>4, <2>10, <2>11, <2>17, <2>18 DEF CronInv
<1> QED
  BY <1>6, <1>7

\* The invariant holds in every state.
LEMMA CronInvHolds == CronSpec => []CronInv
<1>1. CronInv /\ [CronNext]_cronVars => CronInv'
  <2> SUFFICES ASSUME CronInv, [CronNext]_cronVars PROVE CronInv'
    OBVIOUS
  <2>1. CASE \/ MinutePasses \/ EditJob \/ (\E r \in CReplica : StartCron(r) \/ StopCron(r) \/ FindDue(r))
             \/ \E p \in polls : AskClaim(p)
    BY <2>1, RowKeeps
  <2>2. ASSUME NEW p \in polls, NEW heard \in BOOLEAN, ClaimLands(p, heard) PROVE CronInv'
    BY <2>2, ClaimKeeps
  <2>3. ASSUME NEW i \in Run, RunStep(i) PROVE CronInv'
    BY <2>3, RunStepKeeps, ReleaseKeeps, EndKeeps DEF RunStep
  <2>4. ASSUME NEW r \in CReplica, ForeignTurnEnds(r) \/ CronCrash(r) PROVE CronInv'
    BY <2>4, EndKeeps
  <2>5. CASE UNCHANGED cronVars
    <3>1. UNCHANGED <<minute, cronRow, polls, running, run>>
      BY <2>5 DEF cronVars
    <3>2. CronTypes' /\ ClaimsMoveOn' /\ RunningIsAnswered' /\ \A i \in Run : RunShape(i)'
      BY <3>1 DEF CronInv, CronTypes, ClaimsMoveOn, RunningIsAnswered, RunShape
    <3>3. ClaimsInOrder'
      BY <3>1 DEF CronInv, ClaimsInOrder, Holds
    <3> QED
      BY <3>2, <3>3 DEF CronInv
  <2> QED
    BY <2>1, <2>2, <2>3, <2>4, <2>5 DEF CronNext
<1> QED
  BY <1>1, CronInvInit, PTL DEF CronSpec

\* cron-scheduler.ts:85, :197: for any number of replicas, minutes, edits and
\* faults, two turns of one occurrence need a send that failed after it landed,
\* and a job in #running has something left that takes it out.
THEOREM CronRunsOnce == CronSpec => []OccurrencesRunOnce
<1>1. CronInv => OccurrencesRunOnce
  <2> SUFFICES ASSUME CronInv PROVE OccurrenceOnce
    BY DEF CronInv, OccurrencesRunOnce
  <2> SUFFICES ASSUME NEW i \in Run, NEW j \in Run, run[i].turn # "none", run[j].turn # "none",
                      i < j, run[i].seen = run[j].seen, ~run[i].late
               PROVE  FALSE
    BY DEF OccurrenceOnce, CronInv, CronTypes, CronRun
  <2>1. Holds(i) /\ run[i].pc # "none" /\ run[j].pc # "none" /\ run[i].seen < run[i].to
    BY DEF CronInv, RunShape, Holds
  <2>2. run[i].to <= run[j].seen /\ run[i].to \in Nat /\ run[i].seen \in Nat
    BY <2>1 DEF CronInv, ClaimsInOrder, CronTypes, CronRun
  <2> QED
    BY <2>1, <2>2
<1> QED
  BY <1>1, CronInvHolds, PTL

-----------------------------------------------------------------------------
(***************************************************************************)
(* LiveSession: turns keep apart                                           *)
(***************************************************************************)
Live == {"open", "closing", "ended"}

\* An instance that is not live yet is as it was made, and a check's run is open
\* only while the next result is the check's.
InstanceOK(i) ==
    /\ i.st \in {"none", "boot"} => i.queue = <<>> /\ ~i.check /\ ~i.run
    /\ i.run => i.evolve /\ (i.st \in {"open", "closing"} \/ i.dead > 0)

InstancesOK == (\A k \in Inst : InstanceOK(inst[k])) /\ (cur # 0 => inst[cur].st \in Live)

\* Each boot has a sender of its own; a sent message is in an instance.
BootsAreSent ==
    \A m \in Sender :
        /\ send[m].pc = "boot" => send[m].old \in Boots
        /\ send[m].pc = "in" => send[m].old \in Inst /\ inst[send[m].old].st # "none"
        /\ \A n \in Sender : n # m /\ send[m].pc = "boot" /\ send[n].pc = "boot"
                                => send[m].old # send[n].old

\* What was found current may run in whatever is live or boots, save the boots it
\* was found amid of.
Went(m) == send[m].pc \notin {"idle", "ensuring", "over"}
ConfigsKept ==
    onNode =>
      /\ config.desired <= config.now
      /\ \A m \in UMsg :
           /\ send[m].fp <= config.desired
           /\ Went(m) =>
                \A k \in Inst \ send[m].amid :
                    k = cur \/ inst[k].st = "boot" => inst[k].fp >= send[m].fp

LsInv == LsTypeOK /\ InstancesOK /\ BootsAreSent /\ CheckRunsAlone /\ ConfigsKept /\ RunsUnderItsConfig /\ RunsAreEnded

\* What a step may make of an instance: i before it, n after it.
Ages(i, n) ==
    /\ \/ n.st = i.st
       \/ i.st = "none" /\ n.st = "boot"
       \/ i.st = "boot" /\ n.st \in {"open", "gone"}
       \/ i.st \in {"open", "closing"} /\ n.st \in {"closing", "ended", "gone"}
       \/ i.st = "ended" /\ n.st = "gone"
    /\ n.fp = IF i.st = "none" /\ n.st = "boot" THEN config.desired ELSE i.fp

\* No input joins a check.
KeepsCheck(i, n) == n.check => n.queue = <<Check>> \/ (i.check /\ n.queue = i.queue)

Joinable(k) == k = cur \/ inst[k].st = "boot"
Becomes(i, n) == Ages(i, n) /\ KeepsCheck(i, n)

\* What is typed beside the instances and the sends.
LsOthers ==
    /\ onNode \in BOOLEAN /\ cur \in 0..MaxInst /\ flight \subseteq UMsg
    /\ config \in [now : Fp, desired : Fp] /\ flags \in [continue : BOOLEAN, afterTurn : BOOLEAN]
    /\ starting \subseteq [of : Inst, seq : Nat] /\ runs \in [opened : Nat, ended : Nat]
    /\ lsSpent \in [faults : 0..MaxLsFaults, checks : 0..MaxChecks]

\* A step that changes one instance.
Changes(k, n) ==
    /\ k \in Inst /\ n \in Instance /\ inst' = [inst EXCEPT ![k] = n]
    /\ Ages(inst[k], n) /\ (Joinable(k) => KeepsCheck(inst[k], n)) /\ InstanceOK(n)

InstancesMove ==
    /\ inst' \in [Inst -> Instance]
    /\ \A k \in Inst : Ages(inst[k], inst'[k]) /\ InstanceOK(inst'[k])
    /\ \A k \in Inst : Joinable(k) => KeepsCheck(inst[k], inst'[k])

\* A step that changes one instance, or none, is a move of the instances.
LEMMA Changed ==
    ASSUME LsTypeOK, InstancesOK, UNCHANGED inst \/ \E k \in Inst, n \in Instance : Changes(k, n)
    PROVE  InstancesMove
  BY DEF Changes, InstancesMove, InstancesOK, LsTypeOK, Ages, KeepsCheck

\* What closing makes of an instance.
LEMMA Closes ==
    ASSUME NEW i \in Instance, NEW w \in {"", "idle", "config", "stream", "asked"}
    PROVE  /\ Close(i, w) \in Instance
           /\ Close(i, w).st = "closing" /\ Close(i, w).fp = i.fp /\ Close(i, w).check = i.check
           /\ Close(i, w).queue = i.queue /\ Close(i, w).why = w
           /\ Close(i, w).run = i.run /\ Close(i, w).evolve = i.evolve /\ Close(i, w).dead = i.dead
  BY DEF Close, Instance

\* What is read of an instance.
LEMMA Fields ==
    ASSUME NEW i \in Instance
    PROVE  /\ i.queue \in Seq(Sender \cup {Check}) /\ i.seq \in Nat /\ i.dead \in Nat /\ i.fp \in Fp
           /\ i.evolve \in BOOLEAN /\ i.check \in BOOLEAN /\ i.run \in BOOLEAN
           /\ i.st \in {"none", "boot", "open", "closing", "ended", "gone"}
           /\ i.why \in {"", "idle", "config", "stream", "asked"}
           /\ i.queue # <<>> => Tail(i.queue) \in Seq(Sender \cup {Check})
                                /\ Head(i.queue) \in Sender \cup {Check}
           /\ Len(i.queue) > 0 <=> i.queue # <<>>
<1> DEFINE Inputs == Sender \cup {Check}
<1>1. i.queue \in Seq(Inputs)
  BY DEF Instance
<1> HIDE DEF Inputs
<1>2. /\ i.queue # <<>> => Tail(i.queue) \in Seq(Inputs) /\ Head(i.queue) \in Inputs
      /\ Len(i.queue) > 0 <=> i.queue # <<>>
  BY <1>1
<1>3. /\ i.seq \in Nat /\ i.dead \in Nat /\ i.fp \in Fp
      /\ i.evolve \in BOOLEAN /\ i.check \in BOOLEAN /\ i.run \in BOOLEAN
      /\ i.st \in {"none", "boot", "open", "closing", "ended", "gone"}
      /\ i.why \in {"", "idle", "config", "stream", "asked"}
  BY DEF Instance
<1> QED
  BY <1>1, <1>2, <1>3 DEF Inputs

\* What the end of a turn makes of an instance that runs.
LEMMA TurnEndedIs ==
    ASSUME LsTypeOK, InstancesOK, NEW k \in Inst, Running(k), inst[k].queue # <<>>
    PROVE  /\ TurnEnded(k) \in Instance /\ TurnEnded(k).st = inst[k].st /\ TurnEnded(k).fp = inst[k].fp
           /\ ~TurnEnded(k).check /\ TurnEnded(k).queue = Rest(k) /\ ~TurnEnded(k).run
           /\ TurnEnded(k).evolve = inst[k].evolve
<1> DEFINE q == Rest(k)
           u == IF inst[k].evolve THEN FALSE ELSE inst[k].run
           n == [inst[k] EXCEPT !.queue = q, !.check = FALSE, !.run = u]
<1>0. inst[k] \in Instance /\ InstanceOK(inst[k])
  BY DEF LsTypeOK, InstancesOK
<1>1. q \in Seq(Sender \cup {Check}) /\ u = FALSE
  BY <1>0, Fields DEF Rest, InstanceOK
<1>2. TurnEnded(k) = n
  BY DEF TurnEnded
<1> HIDE DEF q, u
<1>3. n \in Instance
  BY <1>0, <1>1 DEF Instance
<1>4. n.st = inst[k].st /\ n.fp = inst[k].fp /\ ~n.check /\ ~n.run /\ n.queue = q /\ n.evolve = inst[k].evolve
  BY <1>0, <1>1 DEF Instance
<1> QED
  BY <1>2, <1>3, <1>4 DEF q

\* What each step makes of the instances.
LEMMA InstancesStep ==
    ASSUME LsTypeOK, InstancesOK, BootsAreSent, [LsNext]_lsVars
    PROVE  InstancesMove
<1> USE LiveAssumption
<1>0. /\ inst \in [Inst -> Instance] /\ send \in [Sender -> Sending] /\ cur \in 0..MaxInst
      /\ cur # 0 => cur \in Inst /\ inst[cur] \in Instance /\ inst[cur].st \in Live
      /\ \A k \in Inst : InstanceOK(inst[k])
      /\ config.desired \in Fp /\ \A s \in starting : s.of \in Inst
  BY DEF LsTypeOK, InstancesOK, Inst
<1> DEFINE One == \E k \in Inst, n \in Instance : Changes(k, n)
<1>1. ASSUME AbortSession PROVE One
  <2> DEFINE n == [inst[cur] EXCEPT !.aborted = TRUE]
  <2>1. cur \in Inst /\ inst' = [inst EXCEPT ![cur] = n]
    BY <1>0, <1>1 DEF AbortSession
  <2>2. n \in Instance /\ Becomes(inst[cur], n) /\ InstanceOK(n)
    BY <1>0, <2>1 DEF Becomes, Ages, KeepsCheck, InstanceOK, Instance
  <2> QED
    BY <2>1, <2>2 DEF Changes, Becomes
<1>2. ASSUME NEW k \in Inst, NEW w \in {"idle", "config", "stream", "asked"}, inst[k].st \in {"open", "closing"},
             inst' = [inst EXCEPT ![k] = Close(inst[k], w)]
      PROVE  One
  <2> DEFINE n == Close(inst[k], w)
  <2>1. inst[k] \in Instance /\ InstanceOK(inst[k])
    BY <1>0
  <2>2. n \in Instance /\ n.st = "closing" /\ n.fp = inst[k].fp /\ n.check = inst[k].check /\ n.queue = inst[k].queue
        /\ n.run = inst[k].run /\ n.evolve = inst[k].evolve /\ n.dead = inst[k].dead
    <3>1. w \in {"", "idle", "config", "stream", "asked"}
      OBVIOUS
    <3>2. n \in Instance
      BY <2>1, <3>1, Closes
    <3>3. n.st = "closing" /\ n.fp = inst[k].fp /\ n.check = inst[k].check
      BY <2>1, <3>1, Closes, ZenonT(60)
    <3>4. n.queue = inst[k].queue /\ n.run = inst[k].run
      BY <2>1, <3>1, Closes, ZenonT(60)
    <3>5. n.evolve = inst[k].evolve /\ n.dead = inst[k].dead
      BY <2>1, <3>1, Closes
    <3> QED
      BY <3>2, <3>3, <3>4, <3>5
  <2>3. Becomes(inst[k], n) /\ InstanceOK(n)
    BY <1>2, <2>1, <2>2 DEF Becomes, Ages, KeepsCheck, InstanceOK
  <2> QED
    BY <1>2, <2>2, <2>3 DEF Changes, Becomes
<1>3. ASSUME NEW k \in Inst, inst[k].st = "none",
             inst' = [inst EXCEPT ![k].st = "boot", ![k].fp = config.desired]
      PROVE  One
  <2> DEFINE n == [inst[k] EXCEPT !.st = "boot", !.fp = config.desired]
  <2>1. n \in Instance /\ Becomes(inst[k], n) /\ InstanceOK(n)
    BY <1>0, <1>3, ZenonT(60) DEF Becomes, Ages, KeepsCheck, InstanceOK, Instance
  <2>2. inst' = [inst EXCEPT ![k] = n]
    BY <1>3
  <2> QED
    BY <2>1, <2>2 DEF Changes, Becomes
<1>4. ASSUME NEW m \in Sender, EnterSession(m) PROVE One \/ UNCHANGED inst
  <2>1. CASE cur = 0
    <3>1. Unused # {} /\ NextInst \in Unused
          /\ inst' = [inst EXCEPT ![NextInst].st = "boot", ![NextInst].fp = config.desired]
      BY <1>4, <2>1 DEF EnterSession, StartSession, NextInst
    <3>2. PICK k \in Inst : k = NextInst /\ inst[k].st = "none"
      BY <3>1 DEF Unused
    <3> QED
      BY <1>3, <3>1, <3>2
  <2>2. CASE cur # 0 /\ (Leaving(cur) \/ inst[cur].check)
    BY <1>4, <2>2 DEF EnterSession
  <2>3. CASE cur # 0 /\ ~Leaving(cur) /\ ~inst[cur].check
    <3> DEFINE n == [inst[cur] EXCEPT !.queue = Append(inst[cur].queue, m), !.seq = inst[cur].seq + 1,
                        !.dead = IF inst[cur].st = "ended" THEN inst[cur].dead + 1 ELSE inst[cur].dead]
    <3>1. inst' = [inst EXCEPT ![cur] = n]
      BY <1>0, <1>4, <2>3 DEF EnterSession
    <3>2. /\ cur \in Inst /\ inst[cur] \in Instance /\ inst[cur].st \in Live /\ InstanceOK(inst[cur])
          /\ Append(inst[cur].queue, m) \in Seq(Sender \cup {Check}) /\ inst[cur].seq + 1 \in Nat
          /\ (IF inst[cur].st = "ended" THEN inst[cur].dead + 1 ELSE inst[cur].dead) \in Nat
          /\ ~inst[cur].check
      <4>1. cur \in Inst /\ inst[cur] \in Instance /\ inst[cur].st \in Live /\ InstanceOK(inst[cur])
        BY <1>0, <2>3
      <4>2. inst[cur].queue \in Seq(Sender \cup {Check}) /\ inst[cur].seq \in Nat /\ inst[cur].dead \in Nat
        BY <4>1, Fields
      <4> QED
        BY <2>3, <4>1, <4>2
    <3>3. n \in Instance
      BY <3>2 DEF Instance
    <3>4. n.st = inst[cur].st /\ n.fp = inst[cur].fp /\ ~n.check /\ n.run = inst[cur].run
          /\ n.evolve = inst[cur].evolve /\ inst[cur].dead \in Nat
          /\ (n.dead = inst[cur].dead \/ n.dead = inst[cur].dead + 1)
      BY <3>2, Fields DEF Instance
    <3> HIDE DEF n
    <3>5. Becomes(inst[cur], n) /\ InstanceOK(n)
      BY <3>2, <3>4 DEF Becomes, Ages, KeepsCheck, InstanceOK, Live
    <3> QED
      BY <3>1, <3>2, <3>3, <3>5 DEF Changes, Becomes
  <2> QED
    BY <2>1, <2>2, <2>3
<1>5. ASSUME NEW m \in Sender, ExitTimesOut(m) PROVE InstancesMove
  <2>0. NextInst \in Unused
    BY <1>5 DEF ExitTimesOut, NextInst
  <2>1. NextInst \in Inst /\ inst[NextInst].st = "none" /\ inst[NextInst] \in Instance
    BY <1>0, <2>0 DEF Unused
  <2> DEFINE a == [k \in Inst |-> [inst[k] EXCEPT !.aborted = TRUE]]
             n == [inst[NextInst] EXCEPT !.st = "boot", !.fp = config.desired]
  <2>2. ASSUME NEW k \in Inst PROVE a[k] \in Instance /\ Becomes(inst[k], a[k]) /\ InstanceOK(a[k])
    <3>1. inst[k] \in Instance /\ InstanceOK(inst[k])
      BY <1>0
    <3> QED
      BY <3>1 DEF Becomes, Ages, KeepsCheck, InstanceOK, Instance
  <2>3. n \in Instance /\ Becomes(inst[NextInst], n) /\ InstanceOK(n)
    BY <1>0, <2>1 DEF Becomes, Ages, KeepsCheck, InstanceOK, Instance
  <2>4. inst' = [k \in Inst |-> IF k = cur THEN a[k] ELSE IF k = NextInst THEN n ELSE inst[k]]
    BY <1>5 DEF ExitTimesOut
  <2>5. \A k \in Inst : Becomes(inst[k], inst[k])
    BY DEF Becomes, Ages, KeepsCheck
  <2> HIDE DEF a, n
  <2> QED
    BY <1>0, <2>1, <2>2, <2>3, <2>4, <2>5 DEF InstancesMove, Becomes
<1>6. ASSUME NEW m \in Sender, BootOk(m) PROVE One
  <2> DEFINE k == send[m].old
             n == [inst[k] EXCEPT !.st = "open", !.queue = <<m>>, !.seq = 1]
  <2>1. k \in Inst /\ inst[k].st = "boot" /\ inst[k] \in Instance /\ inst' = [inst EXCEPT ![k] = n]
    BY <1>0, <1>6 DEF BootOk, BootsAreSent, Boots
  <2>2. <<m>> \in Seq(Sender \cup {Check})
    OBVIOUS
  <2>3. n \in Instance
    BY <2>1, <2>2 DEF Instance
  <2>4. Becomes(inst[k], n) /\ InstanceOK(n)
    BY <1>0, <2>1 DEF Becomes, Ages, KeepsCheck, InstanceOK, Instance
  <2> QED
    BY <2>1, <2>3, <2>4 DEF Changes, Becomes
<1>7. ASSUME NEW m \in Sender, BootFails(m) PROVE One
  <2> DEFINE k == send[m].old
             n == [inst[k] EXCEPT !.st = "gone"]
  <2>1. k \in Inst /\ inst[k].st = "boot" /\ inst[k] \in Instance /\ inst' = [inst EXCEPT ![k] = n]
    BY <1>0, <1>7 DEF BootFails, BootsAreSent, Boots
  <2>3. n \in Instance /\ Becomes(inst[k], n) /\ InstanceOK(n)
    BY <1>0, <2>1 DEF Becomes, Ages, KeepsCheck, InstanceOK, Instance
  <2> QED
    BY <2>1, <2>3 DEF Changes, Becomes
<1>8. ASSUME NEW k \in Inst, DetachedResult(k) PROVE One
  <2> DEFINE n == [inst[k] EXCEPT !.queue = Tail(inst[k].queue)]
  <2>1. inst[k] \in Instance /\ inst' = [inst EXCEPT ![k] = n] /\ inst[k].queue # <<>> /\ Running(k) /\ k # cur
    BY <1>0, <1>8 DEF DetachedResult
  <2>2. Tail(inst[k].queue) \in Seq(Sender \cup {Check})
    BY <2>1, Fields
  <2>3. n \in Instance
    BY <2>1, <2>2 DEF Instance
  <2>4. Ages(inst[k], n) /\ InstanceOK(n)
    BY <1>0, <2>1 DEF Ages, InstanceOK, Instance, Running
  <2> QED
    BY <2>1, <2>3, <2>4 DEF Changes, Joinable, Running
<1>9. ASSUME NEW k \in Inst, QueryEnds(k) PROVE One
  <2> DEFINE n == [inst[k] EXCEPT !.st = IF k = cur THEN "ended" ELSE "gone", !.run = FALSE]
  <2>1. inst[k] \in Instance /\ inst' = [inst EXCEPT ![k] = n] /\ Running(k)
    BY <1>0, <1>9 DEF QueryEnds
  <2>3. n \in Instance /\ Becomes(inst[k], n) /\ InstanceOK(n)
    BY <1>0, <2>1, ZenonT(60) DEF Becomes, Ages, KeepsCheck, InstanceOK, Instance, Running
  <2> QED
    BY <2>1, <2>3 DEF Changes, Becomes
<1>10. ASSUME NEW k \in Inst, Teardown(k) PROVE One
  <2> DEFINE n == [inst[k] EXCEPT !.st = "gone"]
  <2>1. inst[k] \in Instance /\ inst' = [inst EXCEPT ![k] = n] /\ inst[k].st = "ended"
    BY <1>0, <1>10 DEF Teardown
  <2>3. n \in Instance /\ Becomes(inst[k], n) /\ InstanceOK(n)
    BY <1>0, <2>1 DEF Becomes, Ages, KeepsCheck, InstanceOK, Instance
  <2> QED
    BY <2>1, <2>3 DEF Changes, Becomes
<1>11. ASSUME NEW k \in Inst, Running(k), inst[k].queue # <<>>
       PROVE  /\ TurnEnded(k) \in Instance /\ TurnEnded(k).st = inst[k].st /\ TurnEnded(k).fp = inst[k].fp
              /\ ~TurnEnded(k).check /\ ~TurnEnded(k).run
  BY <1>11, TurnEndedIs
<1>12. ASSUME NEW k \in Inst, NEW i \in Instance, Running(k), i.st = inst[k].st, i.fp = inst[k].fp, ~i.check,
              ~i.run, inst' = [inst EXCEPT ![k] = i] \/ \E w \in {"config", "stream"} : inst' = [inst EXCEPT ![k] = Close(i, w)]
       PROVE  One
  <2>1. CASE inst' = [inst EXCEPT ![k] = i]
    BY <1>12, <2>1 DEF Changes, Ages, KeepsCheck, InstanceOK, Running
  <2>2. ASSUME NEW w \in {"config", "stream"}, inst' = [inst EXCEPT ![k] = Close(i, w)] PROVE One
    <3> DEFINE n == Close(i, w)
    <3>1. n \in Instance /\ n.st = "closing" /\ n.fp = i.fp /\ n.check = i.check /\ n.run = i.run
      <4>1. w \in {"", "idle", "config", "stream", "asked"}
        OBVIOUS
      <4> QED
        BY <4>1, Closes, ZenonT(60)
    <3> HIDE DEF n
    <3>2. Becomes(inst[k], n) /\ InstanceOK(n)
      BY <1>12, <3>1 DEF Becomes, Ages, KeepsCheck, InstanceOK, Running
    <3>3. inst' = [inst EXCEPT ![k] = n]
      BY <2>2 DEF n
    <3> QED
      BY <3>1, <3>2, <3>3 DEF Changes, Becomes
  <2> QED
    BY <1>12, <2>1, <2>2
<1>13. ASSUME NEW k \in Inst, NEW b \in BOOLEAN, Result(k, b) PROVE One
  <2> DEFINE i == [TurnEnded(k) EXCEPT !.evolve = FALSE]
  <2>1. Running(k) /\ inst[k].queue # <<>>
        /\ inst' = [inst EXCEPT ![k] = IF DeferredReload(k) THEN Close(i, "config") ELSE i]
    BY <1>13 DEF Result
  <2>2. i \in Instance /\ i.st = inst[k].st /\ i.fp = inst[k].fp /\ ~i.check /\ ~i.run
    BY <1>11, <2>1 DEF Instance
  <2> HIDE DEF i
  <2>3. inst' = [inst EXCEPT ![k] = i] \/ \E w \in {"config", "stream"} : inst' = [inst EXCEPT ![k] = Close(i, w)]
    BY <2>1
  <2> HIDE DEF One
  <2> QED
    BY <1>12, <2>1, <2>2, <2>3
<1>14. ASSUME NEW k \in Inst, NEW b \in BOOLEAN, ResultStreamLost(k, b) PROVE One
  <2> DEFINE i == TurnEnded(k)
  <2>1. /\ Running(k) /\ inst[k].queue # <<>>
        /\ inst' = [inst EXCEPT ![k] = IF ~b THEN Close(i, "stream")
                                       ELSE IF DeferredReload(k) THEN Close(i, "config") ELSE i]
    BY <1>14 DEF ResultStreamLost
  <2>2. i \in Instance /\ i.st = inst[k].st /\ i.fp = inst[k].fp /\ ~i.check /\ ~i.run
    BY <1>11, <2>1
  <2> HIDE DEF i
  <2>3. inst' = [inst EXCEPT ![k] = i] \/ \E w \in {"config", "stream"} : inst' = [inst EXCEPT ![k] = Close(i, w)]
    BY <2>1
  <2> HIDE DEF One
  <2> QED
    BY <1>12, <2>1, <2>2, <2>3
<1>15. ASSUME NEW s \in starting, CheckStarts(s) PROVE One \/ UNCHANGED inst
  <2>1. CASE MovedOn(s)
    BY <1>15, <2>1 DEF CheckStarts
  <2>2. CASE ~MovedOn(s)
    <3> DEFINE k == s.of
               q == Append(inst[k].queue, Check)
               d == IF inst[k].st = "ended" THEN inst[k].dead + 1 ELSE inst[k].dead
               n == [inst[k] EXCEPT !.queue = q, !.seq = inst[k].seq + 1, !.evolve = TRUE, !.check = TRUE,
                                    !.run = TRUE, !.dead = d]
    <3>1. /\ k = cur /\ k \in Inst /\ inst[k] \in Instance /\ inst[k].st \in Live /\ ~(Pending(k) > 0)
          /\ inst' = [inst EXCEPT ![k] = n]
      <4>1. k = cur /\ ~(Pending(k) > 0) /\ inst' = [inst EXCEPT ![k] = n]
        BY <1>15, <2>2 DEF CheckStarts, MovedOn
      <4>2. k \in Inst
        BY <1>0
      <4>3. cur # 0
        BY <4>1, <4>2, <1>0 DEF Inst
      <4> QED
        BY <1>0, <4>1, <4>2, <4>3
    <3>2. inst[k].queue = <<>> /\ inst[k].dead \in Nat /\ inst[k].seq + 1 \in Nat
      <4>1. inst[k].queue = <<>> /\ inst[k].dead \in Nat /\ inst[k].seq \in Nat
        BY <3>1, Fields DEF Pending
      <4> QED
        BY <4>1
    <3>3. q = <<Check>> /\ q \in Seq(Sender \cup {Check})
      BY <3>2
    <3>4. d \in Nat /\ (inst[k].st = "ended" => d > 0)
      BY <3>2
    <3> HIDE DEF q, d
    <3>5. n \in Instance
      BY <3>1, <3>2, <3>3, <3>4 DEF Instance
    <3>6. n.st = inst[k].st /\ n.fp = inst[k].fp /\ n.queue = <<Check>> /\ n.run /\ n.evolve /\ n.dead = d
      BY <3>1, <3>3, <3>4 DEF Instance
    <3>7. inst' = [inst EXCEPT ![k] = n]
      BY <3>1
    <3> HIDE DEF n
    <3>8. Becomes(inst[k], n) /\ InstanceOK(n)
      BY <3>1, <3>4, <3>6 DEF Becomes, Ages, KeepsCheck, InstanceOK, Live
    <3> QED
      BY <3>1, <3>5, <3>7, <3>8 DEF Changes, Becomes
  <2> QED
    BY <2>1, <2>2
<1>16. ASSUME ConfigChanges \/ \E m \in Sender : Ensured(m) \/ ReadSession(m) PROVE UNCHANGED inst
  BY <1>16 DEF ConfigChanges, Ensured, ReadSession
<1>17. ASSUME TenantReload \/ \E m \in Sender : Ensure(m) PROVE One \/ UNCHANGED inst
  <2> SUFFICES ASSUME inst' = [inst EXCEPT ![cur] = Close(inst[cur], "config")], cur # 0, inst[cur].st # "ended"
               PROVE  One
    BY <1>17 DEF TenantReload, Ensure
  <2> QED
    BY <1>0, <1>2 DEF Live
<1>18. ASSUME NEW k \in Inst, IdleFires(k) \/ Reload(k) PROVE One
  <2>1. PICK w \in {"idle", "asked"} : inst[k].st \in {"open", "closing"} /\ inst' = [inst EXCEPT ![k] = Close(inst[k], w)]
    BY <1>18 DEF IdleFires, Reload, Running
  <2> QED
    BY <1>2, <2>1
<1>19. ASSUME NEW s \in starting, CheckRefused(s) PROVE UNCHANGED inst
  BY <1>19 DEF CheckRefused
<1>20. CASE UNCHANGED lsVars
  BY <1>20, Changed DEF lsVars
<1> HIDE DEF One
<1>21. CASE One \/ UNCHANGED inst
  BY <1>21, Changed DEF One
<1> QED
  BY <1>1, <1>4, <1>5, <1>6, <1>7, <1>8, <1>9, <1>10, <1>13, <1>14, <1>15, <1>16, <1>17, <1>18, <1>19, <1>20, <1>21
     DEF LsNext

\* The rest of the types, and that #live holds a live instance.
LsRest == LsOthers /\ send \in [Sender -> Sending] /\ (cur # 0 => inst[cur].st \in Live)

\* What each step but those of boots and pushes makes of the sends: nobody starts
\* to boot or gets in, and no boot ends.
SendsCalm ==
    /\ \A m \in Sender : send'[m].pc \in {"boot", "in"} => send'[m].pc = send[m].pc /\ send'[m].old = send[m].old
    /\ \A k \in Inst : inst[k].st = "boot" => inst'[k].st = "boot"

\* What a move makes of each instance.
LEMMA Moved ==
    ASSUME InstancesMove, NEW k \in Inst
    PROVE  /\ inst'[k] \in Instance
           /\ inst[k].st # "none" => inst'[k].st # "none"
           /\ inst'[k].st \in {"none", "boot"} => inst'[k].st = inst[k].st \/ inst[k].st = "none"
           /\ inst'[k].fp = IF inst[k].st = "none" /\ inst'[k].st = "boot" THEN config.desired ELSE inst[k].fp
           /\ inst'[k].st \in {"none", "boot"} => inst'[k].queue = <<>> /\ ~inst'[k].check /\ ~inst'[k].run
           /\ inst'[k].run => inst'[k].evolve /\ (inst'[k].st \in {"open", "closing"} \/ inst'[k].dead > 0)
           /\ Joinable(k) /\ inst'[k].check => inst'[k].queue = <<Check>> \/ (inst[k].check /\ inst'[k].queue = inst[k].queue)
<1>1. inst'[k] \in Instance
  BY DEF InstancesMove
<1>2. Ages(inst[k], inst'[k])
  BY Zenon DEF InstancesMove
<1>3. InstanceOK(inst'[k])
  BY Zenon DEF InstancesMove
<1>4. Joinable(k) => KeepsCheck(inst[k], inst'[k])
  BY DEF InstancesMove
<1>5. /\ inst[k].st # "none" => inst'[k].st # "none"
      /\ inst'[k].st \in {"none", "boot"} => inst'[k].st = inst[k].st \/ inst[k].st = "none"
      /\ inst'[k].fp = IF inst[k].st = "none" /\ inst'[k].st = "boot" THEN config.desired ELSE inst[k].fp
  BY <1>2 DEF Ages
<1>6. /\ inst'[k].st \in {"none", "boot"} => inst'[k].queue = <<>> /\ ~inst'[k].check /\ ~inst'[k].run
      /\ inst'[k].run => inst'[k].evolve /\ (inst'[k].st \in {"open", "closing"} \/ inst'[k].dead > 0)
  BY <1>3 DEF InstanceOK
<1>7. Joinable(k) /\ inst'[k].check => inst'[k].queue = <<Check>> \/ (inst[k].check /\ inst'[k].queue = inst[k].queue)
  BY <1>4 DEF KeepsCheck
<1> QED
  BY <1>1, <1>5, <1>6, <1>7

\* Where nobody gets in and no boot ends, boots keep their senders.
LEMMA CalmSends ==
    ASSUME LsTypeOK, BootsAreSent, InstancesMove, SendsCalm, send' \in [Sender -> Sending]
    PROVE  BootsAreSent'
<1>1. ASSUME NEW m \in Sender, send'[m].pc = "boot"
      PROVE  send[m].pc = "boot" /\ send'[m].old = send[m].old /\ send[m].old \in Inst
             /\ inst[send[m].old].st = "boot" /\ inst'[send[m].old].st = "boot"
  BY <1>1 DEF SendsCalm, BootsAreSent, Boots
<1>2. ASSUME NEW m \in Sender, send'[m].pc = "in"
      PROVE  send'[m].old \in Inst /\ inst'[send'[m].old].st # "none"
  <2>1. PICK k \in Inst : send'[m].old = k /\ inst[k].st # "none"
    BY <1>2 DEF SendsCalm, BootsAreSent
  <2>2. inst'[k].st # "none"
    BY <2>1, Moved
  <2> QED
    BY <1>2, <2>1, <2>2
<1>3. \A m, n \in Sender : n # m /\ send'[m].pc = "boot" /\ send'[n].pc = "boot" => send'[m].old # send'[n].old
  BY <1>1 DEF BootsAreSent
<1> QED
  BY <1>1, <1>2, <1>3 DEF BootsAreSent, Boots

\* A send that goes to another point of its way.
LEMMA Sent ==
    ASSUME LsTypeOK, NEW m \in Sender, NEW o \in 0..MaxInst, NEW a \in SUBSET Inst,
           NEW p \in {"idle", "go", "waitExit", "waitCheck", "boot", "in"},
           \/ send' = [send EXCEPT ![m].pc = p, ![m].old = o]
           \/ send' = [send EXCEPT ![m].pc = p, ![m].amid = a] /\ o = send[m].old
    PROVE  send' \in [Sender -> Sending] /\ send'[m].pc = p /\ send'[m].old = o
           /\ \A n \in Sender \ {m} : send'[n] = send[n]
<1>0. send \in [Sender -> Sending] /\ send[m] \in Sending
  BY DEF LsTypeOK
<1> DEFINE x == [send[m] EXCEPT !.pc = p, !.old = o]
           y == [send[m] EXCEPT !.pc = p, !.amid = a]
<1>1. x \in Sending /\ y \in Sending /\ x.pc = p /\ y.pc = p /\ x.old = o /\ y.old = send[m].old
  BY <1>0 DEF Sending
<1>2. send' = [send EXCEPT ![m] = x] \/ (send' = [send EXCEPT ![m] = y] /\ o = send[m].old)
  OBVIOUS
<1> HIDE DEF x, y
<1> QED
  BY <1>0, <1>1, <1>2

\* A sender that starts to boot an unused instance.
LEMMA BootStarts ==
    ASSUME LsTypeOK, BootsAreSent, NEW m \in Sender, NEW k \in Inst, inst[k].st = "none", InstancesMove,
           inst'[k].st = "boot", \A j \in Inst \ {k} : inst'[j].st = inst[j].st,
           send' = [send EXCEPT ![m].pc = "boot", ![m].old = k]
    PROVE  BootsAreSent' /\ send' \in [Sender -> Sending]
<1>0. send \in [Sender -> Sending] /\ k \in 0..MaxInst
  BY DEF LsTypeOK, Inst
<1>1. /\ send' \in [Sender -> Sending] /\ \A n \in Sender \ {m} : send'[n] = send[n]
      /\ send'[m].pc = "boot" /\ send'[m].old = k
  BY <1>0 DEF Sending
<1>2. \A n \in Sender : send[n].pc = "boot" => send[n].old \in Inst \ {k} /\ inst'[send[n].old].st = "boot"
  BY DEF BootsAreSent, Boots
<1>3. \A n \in Sender : send[n].pc = "in" => send[n].old \in Inst \ {k} /\ inst'[send[n].old].st # "none"
  BY DEF BootsAreSent
<1> QED
  BY <1>1, <1>2, <1>3 DEF BootsAreSent, Boots

\* A sender whose boot ends, well or not.
LEMMA BootEnds ==
    ASSUME LsTypeOK, BootsAreSent, NEW m \in Sender, send[m].pc = "boot",
           \A j \in Inst \ {send[m].old} : inst'[j].st = inst[j].st,
           inst'[send[m].old].st # "none",
           NEW p \in {"in", "idle", "over"}, send' = [send EXCEPT ![m].pc = p]
    PROVE  BootsAreSent' /\ send' \in [Sender -> Sending]
<1>0. send \in [Sender -> Sending]
  BY DEF LsTypeOK
<1>1. /\ send' \in [Sender -> Sending] /\ \A n \in Sender \ {m} : send'[n] = send[n]
      /\ send'[m].pc = p /\ send'[m].old = send[m].old
  BY <1>0 DEF Sending
<1>2. \A n \in Sender \ {m} : send[n].pc = "boot" => send[n].old \in Inst \ {send[m].old} /\ inst'[send[n].old].st = "boot"
  BY DEF BootsAreSent, Boots
<1>3. \A n \in Sender : send[n].pc = "in" => send[n].old \in Inst /\ inst'[send[n].old].st # "none"
  BY DEF BootsAreSent
<1>4. send[m].old \in Inst
  BY DEF BootsAreSent, Boots
<1> QED
  BY <1>1, <1>2, <1>3, <1>4 DEF BootsAreSent, Boots

\* Each step keeps the rest of the types.
LEMMA SendsStep ==
    ASSUME LsTypeOK, InstancesOK, BootsAreSent, InstancesMove, [LsNext]_lsVars
    PROVE  LsRest' /\ BootsAreSent'
<1> USE LiveAssumption
<1>0. /\ inst \in [Inst -> Instance] /\ send \in [Sender -> Sending] /\ cur \in 0..MaxInst /\ LsOthers
      /\ cur # 0 => cur \in Inst /\ inst[cur] \in Instance /\ inst[cur].st \in Live
      /\ config \in [now : Fp, desired : Fp] /\ flags \in [continue : BOOLEAN, afterTurn : BOOLEAN]
      /\ runs \in [opened : Nat, ended : Nat] /\ flight \subseteq UMsg
      /\ starting \subseteq [of : Inst, seq : Nat]
      /\ lsSpent \in [faults : 0..MaxLsFaults, checks : 0..MaxChecks]
  BY DEF LsTypeOK, InstancesOK, Inst, LsOthers
<1>a. LsFault => lsSpent' \in [faults : 0..MaxLsFaults, checks : 0..MaxChecks]
  BY <1>0 DEF LsFault
<1>b. ASSUME NEW c \in BOOLEAN, NEW a \in BOOLEAN,
             flags' \in {flags, [flags EXCEPT !.afterTurn = a], [flags EXCEPT !.continue = c],
                         [continue |-> c, afterTurn |-> a]}
      PROVE  flags' \in [continue : BOOLEAN, afterTurn : BOOLEAN]
  BY <1>0, <1>b
<1> DEFINE Goal == LsOthers' /\ send' \in [Sender -> Sending] /\ (cur' # 0 => inst'[cur'].st \in Live) /\ SendsCalm
<1>1. ASSUME ConfigChanges PROVE Goal
  BY <1>0, <1>1 DEF ConfigChanges, LsOthers, LsFault, SendsCalm
<1>2. ASSUME AbortSession PROVE Goal
  <2>1. LsOthers'
    BY <1>0, <1>2 DEF AbortSession, LsOthers, LsFault
  <2>2. \A k \in Inst : inst'[k].st = inst[k].st
    BY <1>0, <1>2 DEF AbortSession
  <2>3. UNCHANGED <<send, cur>>
    BY <1>2 DEF AbortSession
  <2> QED
    BY <1>0, <2>1, <2>2, <2>3 DEF SendsCalm
<1>3. ASSUME inst' = inst \/ (\E w \in {"idle", "config", "asked"} : inst' = [inst EXCEPT ![cur] = Close(@, w)]), UNCHANGED cur
      PROVE  /\ \A k \in Inst : inst[k].st = "boot" => inst'[k].st = "boot"
             /\ cur' # 0 => inst'[cur'].st \in Live
  <2>1. \A k \in Inst : k # cur => inst'[k] = inst[k]
    BY <1>0, <1>3
  <2>2. cur # 0 => inst'[cur].st \in Live
    <3>1. \A w \in {"idle", "config", "asked"} : cur # 0 => Close(inst[cur], w).st = "closing"
      BY <1>0 DEF Close, Instance
    <3> QED
      BY <1>0, <1>3, <3>1 DEF Live
  <2>3. inst' \in [Inst -> Instance] /\ 0 \notin Inst
    BY DEF InstancesMove, Inst
  <2> QED
    BY <1>0, <1>3, <2>1, <2>2, <2>3 DEF Live
<1>4. ASSUME TenantReload PROVE Goal
  <2>1. LsOthers'
    <3>1. /\ UNCHANGED <<onNode, cur, flight, config, starting, runs>> /\ LsFault
          /\ flags' \in {flags, [flags EXCEPT !.afterTurn = TRUE]}
      BY <1>4 DEF TenantReload
    <3>2. flags' \in [continue : BOOLEAN, afterTurn : BOOLEAN]
      BY <1>b, <3>1
    <3> QED
      BY <1>0, <1>a, <3>1, <3>2 DEF LsOthers
  <2>2. UNCHANGED <<send, cur>> /\ (inst' = inst \/ inst' = [inst EXCEPT ![cur] = Close(@, "config")])
    BY <1>4 DEF TenantReload
  <2>3. "config" \in {"idle", "config", "asked"}
    OBVIOUS
  <2> QED
    BY <1>0, <1>3, <2>1, <2>2, <2>3 DEF SendsCalm
<1>5. ASSUME NEW m \in Sender, Ensure(m) PROVE Goal
  <2>1. LsOthers'
    BY <1>0, <1>5 DEF Ensure, LsOthers
  <2>2. UNCHANGED cur /\ (inst' = inst \/ inst' = [inst EXCEPT ![cur] = Close(@, "config")])
    BY <1>5 DEF Ensure
  <2>3. "config" \in {"idle", "config", "asked"}
    OBVIOUS
  <2>4. Boots \in SUBSET Inst /\ config.now \in Fp /\ 0 \in 0..MaxInst
    BY <1>0 DEF Boots
  <2>5. \E x \in Sending : x.pc \in {"go", "ensuring"} /\ (send' = send \/ send' = [send EXCEPT ![m] = x])
    <3>1. [pc |-> "go", fp |-> config.now, old |-> 0, amid |-> Boots] \in Sending
          /\ [pc |-> "ensuring", fp |-> config.now, old |-> cur, amid |-> {}] \in Sending
      BY <1>0, <2>4 DEF Sending
    <3> QED
      BY <1>5, <3>1 DEF Ensure
  <2>6. send' \in [Sender -> Sending] /\ \A n \in Sender : send'[n] = send[n] \/ send'[n].pc \in {"go", "ensuring"}
    BY <1>0, <2>5
  <2> QED
    BY <1>0, <1>3, <2>1, <2>2, <2>3, <2>6 DEF SendsCalm
<1>6. ASSUME NEW m \in Sender, Ensured(m) PROVE Goal
  <2>1. LsOthers' /\ UNCHANGED <<cur, inst>>
    BY <1>0, <1>6 DEF Ensured, LsOthers
  <2>2. Boots \in SUBSET Inst
    BY DEF Boots
  <2>3. PICK p \in {"go", "idle"}, a \in SUBSET Inst : send' = [send EXCEPT ![m].pc = p, ![m].amid = a]
    BY <1>6, <2>2 DEF Ensured
  <2>4. send' \in [Sender -> Sending] /\ \A n \in Sender : send'[n] = send[n] \/ send'[n].pc \in {"go", "idle"}
    <3>1. send[m].old \in 0..MaxInst
      BY <1>0 DEF Sending
    <3>2. p \in {"idle", "go", "waitExit", "waitCheck", "boot", "in"} /\ LsTypeOK
      BY <1>0
    <3>3. send' \in [Sender -> Sending] /\ send'[m].pc = p /\ \A n \in Sender \ {m} : send'[n] = send[n]
      BY <2>3, <3>1, <3>2, Sent
    <3> QED
      BY <3>3
  <2> QED
    BY <1>0, <2>1, <2>4 DEF SendsCalm
<1>7. ASSUME NEW m \in Sender, ReadSession(m) PROVE Goal
  <2>1. LsOthers' /\ UNCHANGED <<cur, inst>>
    BY <1>0, <1>7 DEF ReadSession, LsOthers, SetFlight
  <2>4. send' \in [Sender -> Sending] /\ \A n \in Sender : send'[n] = send[n] \/ send'[n].pc = "reading"
    BY <1>0, <1>7 DEF Sending, ReadSession
  <2> QED
    BY <1>0, <2>1, <2>4 DEF SendsCalm
<1>8. ASSUME NEW k \in Inst, DetachedResult(k) \/ IdleFires(k) \/ Reload(k) PROVE Goal
  <2>1. LsOthers' /\ UNCHANGED <<cur, send>>
    BY <1>0, <1>8 DEF DetachedResult, IdleFires, Reload, LsOthers, LsFault
  <2>2. \/ inst' = [inst EXCEPT ![k].queue = Tail(@)]
        \/ k = cur /\ inst' = [inst EXCEPT ![cur] = Close(@, "idle")]
        \/ k = cur /\ inst' = [inst EXCEPT ![cur] = Close(@, "asked")]
    BY <1>8 DEF DetachedResult, IdleFires, Reload
  <2>3. CASE inst' = [inst EXCEPT ![k].queue = Tail(@)]
    <3>1. \A j \in Inst : inst'[j].st = inst[j].st
      BY <1>0, <2>3
    <3> QED
      BY <1>0, <2>1, <3>1 DEF SendsCalm
  <2>4. CASE \E w \in {"idle", "config", "asked"} : inst' = [inst EXCEPT ![cur] = Close(@, w)]
    BY <1>0, <1>3, <2>1, <2>4 DEF SendsCalm
  <2> QED
    BY <2>2, <2>3, <2>4
<1>9. ASSUME NEW k \in Inst, QueryEnds(k) PROVE Goal
  <2>1. runs' \in [opened : Nat, ended : Nat] /\ flags' \in [continue : BOOLEAN, afterTurn : BOOLEAN]
        /\ flight' \subseteq UMsg /\ lsSpent' \in [faults : 0..MaxLsFaults, checks : 0..MaxChecks]
    <3>1. runs' \in [opened : Nat, ended : Nat]
      BY <1>0, <1>9 DEF QueryEnds
    <3>2. flags' \in [continue : BOOLEAN, afterTurn : BOOLEAN] /\ flight' \subseteq UMsg
      BY <1>0, <1>9 DEF QueryEnds, ToldEnd
    <3>3. lsSpent' = lsSpent \/ LsFault
      BY <1>9 DEF QueryEnds
    <3>4. lsSpent' \in [faults : 0..MaxLsFaults, checks : 0..MaxChecks]
      BY <1>0, <3>3 DEF LsFault
    <3> QED
      BY <3>1, <3>2, <3>4
  <2>2. UNCHANGED <<onNode, cur, send, config, starting>> /\ Running(k)
        /\ inst' = [inst EXCEPT ![k].st = IF k = cur THEN "ended" ELSE "gone", ![k].run = FALSE]
    BY <1>9 DEF QueryEnds
  <2>3. \A j \in Inst : inst'[j].st = IF j = k THEN (IF k = cur THEN "ended" ELSE "gone") ELSE inst[j].st
    <3>1. \A j \in Inst \ {k} : inst'[j] = inst[j]
      BY <1>0, <2>2
    <3>2. inst[k] \in Instance /\ inst'[k] = [inst[k] EXCEPT !.st = IF k = cur THEN "ended" ELSE "gone", !.run = FALSE]
      BY <1>0, <2>2
    <3>3. inst'[k].st = IF k = cur THEN "ended" ELSE "gone"
      BY <3>2 DEF Instance
    <3> QED
      BY <3>1, <3>3
  <2> QED
    BY <1>0, <2>1, <2>2, <2>3 DEF SendsCalm, LsOthers, Live, Running
<1>10. ASSUME NEW k \in Inst, Teardown(k) PROVE Goal
  <2>1. /\ UNCHANGED <<onNode, flight, config, starting, runs, lsSpent>> /\ inst[k].st = "ended"
        /\ inst' = [inst EXCEPT ![k].st = "gone"] /\ (cur' = 0 \/ (k # cur /\ cur' = cur))
    <3>1. CASE k = cur
      BY <1>10, <3>1 DEF Teardown
    <3>2. CASE k # cur
      BY <1>10, <3>2 DEF Teardown
    <3> QED
      BY <3>1, <3>2
  <2>2. flags' \in [continue : BOOLEAN, afterTurn : BOOLEAN]
    <3>1. PICK c \in BOOLEAN : c = (flags.continue /\ ~Reloading(k))
      OBVIOUS
    <3>2. flags' = flags \/ flags' = [continue |-> c, afterTurn |-> FALSE]
      BY <1>10, <3>1 DEF Teardown
    <3> QED
      BY <1>b, <3>2
  <2>3. send' = send \/ send' = [send EXCEPT ![Continue].pc = "go"]
    BY <1>10 DEF Teardown
  <2>4. send' \in [Sender -> Sending] /\ \A n \in Sender : send'[n] = send[n] \/ send'[n].pc = "go"
    BY <1>0, <2>3 DEF Sending, Sender
  <2>5. \A j \in Inst : inst'[j].st = IF j = k THEN "gone" ELSE inst[j].st
    BY <1>0, <2>1, ZenonT(60) DEF Instance
  <2> QED
    BY <1>0, <2>1, <2>2, <2>4, <2>5 DEF SendsCalm, LsOthers
<1>11. ASSUME NEW k \in Inst, NEW b \in BOOLEAN, Result(k, b) \/ ResultStreamLost(k, b) PROVE Goal
  <2>1. /\ k = cur /\ Running(k) /\ inst[k].queue # <<>> /\ UNCHANGED <<onNode, cur, config>>
        /\ RunEnds(k) /\ Answer(k) /\ flight' \in {flight, ToldEnd}
        /\ \E i : inst' = [inst EXCEPT ![k] = i]
    BY <1>11 DEF Result, ResultStreamLost
  <2>2. runs' \in [opened : Nat, ended : Nat] /\ flight' \subseteq UMsg
    BY <1>0, <2>1 DEF RunEnds, ToldEnd
  <2>3. flags' \in [continue : BOOLEAN, afterTurn : BOOLEAN]
    <3>1. PICK c \in BOOLEAN, a \in BOOLEAN : c = (flags.continue \/ ~b) /\ a = (flags.afterTurn /\ ~DeferredReload(k))
      OBVIOUS
    <3>2. flags' \in {flags, [flags EXCEPT !.afterTurn = FALSE], [continue |-> c, afterTurn |-> a]}
      BY <1>11, <3>1 DEF Result, ResultStreamLost
    <3> QED
      BY <1>b, <3>2
  <2>4. lsSpent' \in [faults : 0..MaxLsFaults, checks : 0..MaxChecks]
    BY <1>0, <1>11, SMTT(30) DEF Result, ResultStreamLost, LsFault
  <2>5. starting' \subseteq [of : Inst, seq : Nat]
    <3>1. [of |-> k, seq |-> inst[k].seq] \in [of : Inst, seq : Nat]
      BY <1>0, Fields
    <3> QED
      BY <1>0, <1>11, <3>1 DEF Result, ResultStreamLost
  <2>6. send' \in [Sender -> Sending] /\ \A n \in Sender : send'[n] = send[n] \/ send'[n].pc \in {"idle", "over"}
    <3>1. Head(inst[k].queue) \in Sender \cup {Check}
      BY <1>0, <2>1, Fields
    <3>2. send' = send \/ \E m \in Sender, p \in {"idle", "over"} : send' = [send EXCEPT ![m].pc = p]
      BY <2>1, <3>1 DEF Answer
    <3> QED
      BY <1>0, <3>2 DEF Sending
  <2>7. \A j \in Inst : j # k => inst'[j] = inst[j]
    BY <1>0, <2>1
  <2>8. inst[k].st # "boot" /\ inst'[k].st \in Live
    <3>0. inst[k] \in Instance
      BY <1>0
    <3>1. \E u \in Instance : u.st = inst[k].st /\ (inst'[k] = u \/ inst'[k] = Close(u, "config") \/ inst'[k] = Close(u, "stream"))
      <4> DEFINE u == TurnEnded(k)
                 v == [u EXCEPT !.evolve = FALSE]
      <4>1. u \in Instance /\ u.st = inst[k].st
        BY <1>11, <2>1, TurnEndedIs DEF InstancesOK
      <4>2. v \in Instance /\ v.st = inst[k].st
        BY <4>1 DEF Instance
      <4>3. inst'[k] \in {u, v, Close(u, "config"), Close(u, "stream"), Close(v, "config")}
        BY <1>0, <1>11 DEF Result, ResultStreamLost
      <4> HIDE DEF u, v
      <4> QED
        BY <4>1, <4>2, <4>3
    <3>2. inst'[k].st \in {inst[k].st, "closing"}
      <4>1. PICK u \in Instance : u.st = inst[k].st
                /\ (inst'[k] = u \/ inst'[k] = Close(u, "config") \/ inst'[k] = Close(u, "stream"))
        BY <3>1
      <4>2. Close(u, "config").st = "closing" /\ Close(u, "stream").st = "closing"
        BY Closes
      <4> QED
        BY <4>1, <4>2
    <3> QED
      BY <2>1, <3>2 DEF Running, Live
  <2> QED
    BY <1>0, <2>1, <2>2, <2>3, <2>4, <2>5, <2>6, <2>7, <2>8 DEF SendsCalm, LsOthers
<1>12. ASSUME NEW s \in starting, CheckStarts(s) \/ CheckRefused(s) PROVE Goal
  <2>1. LsOthers' /\ UNCHANGED <<cur, send>>
    <3>1. runs' \in [opened : Nat, ended : Nat] /\ starting' \subseteq [of : Inst, seq : Nat]
      BY <1>0, <1>12, SMTT(30) DEF CheckStarts, CheckRefused
    <3> QED
      BY <1>0, <1>12, <3>1 DEF CheckStarts, CheckRefused, LsOthers
  <2>2. \A k \in Inst : inst'[k].st = inst[k].st
    <3>1. CASE UNCHANGED inst
      BY <3>1
    <3>2. CASE CheckStarts(s) /\ inst' # inst
      <4>1. s.of \in Inst
        BY <1>0
      <4>2. inst' = [inst EXCEPT ![s.of].queue = Append(@, Check), ![s.of].seq = @ + 1,
                                 ![s.of].evolve = TRUE, ![s.of].check = TRUE, ![s.of].run = TRUE,
                                 ![s.of].dead = IF inst[s.of].st = "ended" THEN @ + 1 ELSE @]
        BY <3>2 DEF CheckStarts
      <4> QED
        BY <1>0, <4>1, <4>2
    <3> QED
      BY <1>12, <3>1, <3>2 DEF CheckRefused
  <2> QED
    BY <1>0, <2>1, <2>2 DEF SendsCalm
<1>13. ASSUME Goal PROVE LsRest' /\ BootsAreSent'
  BY <1>13, CalmSends DEF LsRest
<1>14. ASSUME NEW m \in Sender, EnterSession(m) PROVE LsRest' /\ BootsAreSent'
  <2>1. UNCHANGED <<onNode, cur, config, flags, starting, runs, lsSpent>> /\ flight' \subseteq UMsg
    BY <1>0, <1>14 DEF EnterSession, SetFlight
  <2>2. LsOthers'
    BY <1>0, <2>1 DEF LsOthers
  <2>3. CASE cur = 0
    <3>1. NextInst \in Unused /\ inst' = [inst EXCEPT ![NextInst].st = "boot", ![NextInst].fp = config.desired]
          /\ send' = [send EXCEPT ![m].pc = "boot", ![m].old = NextInst]
      BY <1>14, <2>3 DEF EnterSession, StartSession, NextInst
    <3>2. PICK k \in Inst : k = NextInst /\ inst[k].st = "none"
      BY <3>1 DEF Unused
    <3>3. inst'[k].st = "boot" /\ \A j \in Inst \ {k} : inst'[j].st = inst[j].st
      BY <1>0, <3>1, <3>2 DEF Instance
    <3>4. send' = [send EXCEPT ![m].pc = "boot", ![m].old = k]
      BY <3>1, <3>2
    <3> QED
      BY <2>1, <2>2, <2>3, <3>2, <3>3, <3>4, BootStarts DEF LsRest
  <2>4. CASE cur # 0 /\ (Leaving(cur) \/ inst[cur].check)
    <3>1. PICK p \in {"waitExit", "waitCheck"} : UNCHANGED inst /\ send' = [send EXCEPT ![m].pc = p, ![m].old = cur]
      BY <1>14, <2>4 DEF EnterSession
    <3>2. send' \in [Sender -> Sending]
          /\ \A n \in Sender : send'[n] = send[n] \/ send'[n].pc \in {"waitExit", "waitCheck"}
      BY <1>0, <3>1, Sent, ZenonT(60)
    <3>3. SendsCalm
      BY <3>1, <3>2 DEF SendsCalm
    <3> QED
      BY <1>0, <2>1, <2>2, <3>1, <3>2, <3>3, CalmSends DEF LsRest
  <2>5. CASE cur # 0 /\ ~Leaving(cur) /\ ~inst[cur].check
    <3>1. /\ inst' = [inst EXCEPT ![cur].queue = Append(@, m), ![cur].seq = @ + 1,
                                  ![cur].dead = IF inst[cur].st = "ended" THEN @ + 1 ELSE @]
          /\ send' = [send EXCEPT ![m].pc = "in", ![m].old = cur]
      BY <1>14, <2>5 DEF EnterSession
    <3>2. \A k \in Inst : inst'[k].st = inst[k].st
      BY <1>0, <3>1
    <3>3. send' \in [Sender -> Sending] /\ \A n \in Sender \ {m} : send'[n] = send[n]
      BY <1>0, <3>1, Sent
    <3>4. send'[m].pc = "in" /\ send'[m].old = cur
      BY <1>0, <3>1, Sent
    <3>5. BootsAreSent'
      BY <1>0, <2>5, <3>2, <3>3, <3>4 DEF BootsAreSent, Boots, Live
    <3> QED
      BY <1>0, <2>1, <2>2, <3>2, <3>3, <3>5 DEF LsRest
  <2> QED
    BY <2>3, <2>4, <2>5
<1>15. ASSUME NEW m \in Sender, ExitTimesOut(m) PROVE LsRest' /\ BootsAreSent'
  <2>1. /\ UNCHANGED <<onNode, flight, config, starting, runs>> /\ (cur' = 0 \/ cur' = cur)
        /\ flags' = [continue |-> FALSE, afterTurn |-> FALSE] /\ LsFault /\ NextInst \in Unused
        /\ send' = [send EXCEPT ![m].pc = "boot", ![m].old = NextInst]
        /\ inst' = [k \in Inst |-> IF k = cur THEN [inst[k] EXCEPT !.aborted = TRUE]
                                   ELSE IF k = NextInst THEN [inst[k] EXCEPT !.st = "boot", !.fp = config.desired]
                                   ELSE inst[k]]
    <3>1. NextInst \in Unused
      BY <1>15 DEF ExitTimesOut, NextInst
    <3>2. cur' = 0 \/ cur' = cur
      BY <1>15 DEF ExitTimesOut
    <3>3. UNCHANGED <<onNode, flight, config, starting, runs>> /\ LsFault
          /\ flags' = [continue |-> FALSE, afterTurn |-> FALSE]
      BY <1>15 DEF ExitTimesOut
    <3> QED
      BY <1>15, <3>1, <3>2, <3>3 DEF ExitTimesOut
  <2>2. lsSpent' \in [faults : 0..MaxLsFaults, checks : 0..MaxChecks]
    BY <1>a, <2>1
  <2>3. LsOthers'
    <3>1. cur' \in 0..MaxInst /\ flags' \in [continue : BOOLEAN, afterTurn : BOOLEAN]
      <4>0. MaxInst \in Nat
        OBVIOUS
      <4>1. cur' \in 0..MaxInst
        <5>1. cur' = 0 \/ cur' = cur
          BY <2>1
        <5>2. cur \in 0..MaxInst /\ 0 \in 0..MaxInst
          BY <1>0, <4>0
        <5> QED
          BY <5>1, <5>2
      <4>2. [continue |-> FALSE, afterTurn |-> FALSE] \in [continue : BOOLEAN, afterTurn : BOOLEAN]
        OBVIOUS
      <4> QED
        BY <2>1, <4>1, <4>2
    <3> QED
      BY <1>0, <2>1, <2>2, <3>1 DEF LsOthers
  <2>4. PICK k \in Inst : k = NextInst /\ inst[k].st = "none"
    BY <2>1 DEF Unused
  <2>5. k # cur /\ inst[k] \in Instance
    BY <1>0, <2>4 DEF Live, Inst
  <2>6. inst'[k].st = "boot" /\ \A j \in Inst \ {k} : inst'[j].st = inst[j].st
    BY <1>0, <2>1, <2>4, <2>5 DEF Instance
  <2>7. send' = [send EXCEPT ![m].pc = "boot", ![m].old = k]
    BY <2>1, <2>4
  <2>8. BootsAreSent' /\ send' \in [Sender -> Sending]
    BY <2>4, <2>6, <2>7, BootStarts
  <2> QED
    BY <1>0, <2>1, <2>3, <2>5, <2>6, <2>8 DEF LsRest
<1>16. ASSUME NEW m \in Sender, BootOk(m) PROVE LsRest' /\ BootsAreSent'
  <2> DEFINE k == send[m].old
  <2>1. /\ send[m].pc = "boot" /\ k \in Inst /\ k \in 0..MaxInst /\ cur' = k /\ send' = [send EXCEPT ![m].pc = "in"]
        /\ inst' = [inst EXCEPT ![k].st = "open", ![k].queue = <<m>>, ![k].seq = 1]
        /\ UNCHANGED <<onNode, flight, config, flags, starting, runs, lsSpent>>
    BY <1>16 DEF BootOk, BootsAreSent, Boots, Inst
  <2>2. inst'[k].st = "open" /\ \A j \in Inst \ {k} : inst'[j].st = inst[j].st
    <3>1. inst' = [inst EXCEPT ![k] = [inst[k] EXCEPT !.st = "open", !.queue = <<m>>, !.seq = 1]] /\ inst[k] \in Instance
      BY <1>0, <2>1
    <3>2. [inst[k] EXCEPT !.st = "open", !.queue = <<m>>, !.seq = 1].st = "open"
      BY <3>1 DEF Instance
    <3> QED
      BY <1>0, <2>1, <3>1, <3>2
  <2>3. BootsAreSent' /\ send' \in [Sender -> Sending]
    BY <2>1, <2>2, BootEnds
  <2> QED
    BY <1>0, <2>1, <2>2, <2>3 DEF LsRest, LsOthers, Live
<1>17. ASSUME NEW m \in Sender, BootFails(m) PROVE LsRest' /\ BootsAreSent'
  <2> DEFINE k == send[m].old
  <2>1. /\ send[m].pc = "boot" /\ k \in Inst /\ inst[k].st = "boot"
        /\ send' = [send EXCEPT ![m].pc = IF m = Continue THEN "idle" ELSE "over"]
        /\ inst' = [inst EXCEPT ![k].st = "gone"] /\ LsFault
        /\ UNCHANGED <<onNode, cur, config, flags, starting, runs>> /\ flight' \subseteq UMsg
    BY <1>0, <1>17 DEF BootFails, BootsAreSent, Boots, ToldEnd
  <2>2. inst'[k].st = "gone" /\ \A j \in Inst \ {k} : inst'[j].st = inst[j].st
    BY <1>0, <2>1, ZenonT(60) DEF Instance
  <2>3. lsSpent' \in [faults : 0..MaxLsFaults, checks : 0..MaxChecks]
    BY <1>0, <2>1 DEF LsFault
  <2>4. PICK p \in {"in", "idle", "over"} : send' = [send EXCEPT ![m].pc = p]
    BY <2>1
  <2>5. BootsAreSent' /\ send' \in [Sender -> Sending]
    BY <2>1, <2>2, <2>4, BootEnds
  <2> QED
    BY <1>0, <2>1, <2>2, <2>3, <2>5 DEF LsRest, LsOthers, Live
<1>18. CASE UNCHANGED lsVars
  <2>1. Goal
    BY <1>0, <1>18 DEF lsVars, LsOthers, SendsCalm
  <2> QED
    BY <1>13, <2>1
<1> HIDE DEF Goal
<1> QED
  BY <1>1, <1>2, <1>4, <1>5, <1>6, <1>7, <1>8, <1>9, <1>10, <1>11, <1>12, <1>13, <1>14, <1>15, <1>16, <1>17, <1>18
     DEF LsNext

\* The session's instance stays, goes, or is one that was booting.
CurMoves == cur' = 0 \/ cur' = cur \/ (cur' \in Inst /\ inst[cur'].st = "boot")

\* Only the end of a boot and of an instance change #live.
LEMMA CurStep ==
    ASSUME LsTypeOK, BootsAreSent, [LsNext]_lsVars
    PROVE  CurMoves
<1>1. ASSUME NEW m \in Sender, BootOk(m) PROVE CurMoves
  BY <1>1 DEF BootOk, BootsAreSent, Boots, CurMoves
<1>2. ASSUME NEW k \in Inst, Teardown(k) PROVE CurMoves
  <2>1. CASE k = cur
    BY <1>2, <2>1 DEF Teardown, CurMoves
  <2>2. CASE k # cur
    BY <1>2, <2>2 DEF Teardown, CurMoves
  <2> QED
    BY <2>1, <2>2
<1>3. ASSUME NEW m \in Sender, ExitTimesOut(m) PROVE CurMoves
  BY <1>3 DEF ExitTimesOut, CurMoves
<1>4. ASSUME NEW m \in Sender, Ensure(m) \/ Ensured(m) \/ ReadSession(m) \/ EnterSession(m) \/ BootFails(m)
      PROVE  UNCHANGED cur
  BY <1>4 DEF Ensure, Ensured, ReadSession, EnterSession, BootFails
<1>5. ASSUME NEW k \in Inst, NEW b \in BOOLEAN,
             DetachedResult(k) \/ IdleFires(k) \/ Reload(k) \/ QueryEnds(k) \/ Result(k, b) \/ ResultStreamLost(k, b)
      PROVE  UNCHANGED cur
  BY <1>5 DEF DetachedResult, IdleFires, Reload, QueryEnds, Result, ResultStreamLost
<1>6. ASSUME ConfigChanges \/ AbortSession \/ TenantReload \/ \E s \in starting : CheckStarts(s) \/ CheckRefused(s)
      PROVE  UNCHANGED cur
  BY <1>6 DEF ConfigChanges, AbortSession, TenantReload, CheckStarts, CheckRefused
<1>7. CASE UNCHANGED lsVars
  BY <1>7 DEF lsVars, CurMoves
<1>8. CASE UNCHANGED cur
  BY <1>8 DEF CurMoves
<1>9. TRUE \in BOOLEAN
  OBVIOUS
<1> QED
  BY <1>1, <1>2, <1>3, <1>4, <1>5, <1>6, <1>7, <1>8, <1>9 DEF LsNext

\* The session's instance stays live and its check alone.
LEMMA ChecksStep ==
    ASSUME LsTypeOK, InstancesOK, CheckRunsAlone, InstancesMove, CurMoves, LsRest'
    PROVE  LsTypeOK' /\ InstancesOK' /\ CheckRunsAlone'
<1>1. LsTypeOK'
  BY DEF LsTypeOK, LsRest, LsOthers, InstancesMove
<1>2. InstancesOK'
  BY DEF InstancesOK, LsRest, InstancesMove
<1>3. ASSUME NEW k \in Inst, k = cur', inst'[k].check PROVE inst'[k].queue = <<Check>>
  <2>1. CASE k = cur
    BY <1>3, <2>1, Moved DEF CheckRunsAlone, Joinable
  <2>2. CASE k # cur
    <3>1. inst[k].st = "boot" /\ ~inst[k].check
      BY <1>3, <2>2 DEF CurMoves, Inst, InstancesOK, InstanceOK
    <3> QED
      BY <1>3, <3>1, Moved DEF Joinable
  <2> QED
    BY <2>1, <2>2
<1> QED
  BY <1>1, <1>2, <1>3 DEF CheckRunsAlone

\* How the send of a user's message goes on a node: as it went, found current
\* anew, or into an instance that is live or boots.
Goes(m) ==
    \/ /\ send'[m].fp = send[m].fp
       /\ Went(m)' => Went(m) /\ send'[m].amid = send[m].amid
       /\ send'[m].pc = "in" => \/ send[m].pc = "in" /\ send'[m].old = send[m].old
                                \/ send'[m].old \in Inst /\ (send'[m].old = cur \/ inst[send'[m].old].st = "boot")
    \/ /\ send'[m].pc = "ensuring" /\ send'[m].fp = config.now /\ config'.desired = config.now
    \/ /\ send'[m].pc = "go" /\ send'[m].amid = Boots /\ UNCHANGED <<inst, cur>>
       /\ cur # 0 => inst[cur].fp = send'[m].fp
       /\ \/ send'[m].fp = config.now /\ config'.desired = config.now
          \/ send'[m].fp = send[m].fp /\ UNCHANGED config

\* What a step makes of the configs and the messages.
ConfigMoves ==
    onNode => /\ config'.now >= config.now /\ config'.desired \in {config.desired, config.now}
              /\ \A m \in UMsg : Goes(m)

\* Another message's sender changes nothing of this one's.
LEMMA OthersGo ==
    ASSUME LsTypeOK, NEW m \in Sender, NEW x, send' = [send EXCEPT ![m] = x],
           NEW n \in UMsg \ {m}
    PROVE  Goes(n)
<1>1. send'[n] = send[n] /\ n \in Sender
  BY DEF LsTypeOK, Sender
<1> QED
  BY <1>1 DEF Goes, Went

\* Each step is a move of the configs and the messages.
LEMMA ConfigStep ==
    ASSUME LsTypeOK, InstancesOK, BootsAreSent, [LsNext]_lsVars
    PROVE  ConfigMoves
<1> USE LiveAssumption
<1>0. /\ send \in [Sender -> Sending] /\ config.now \in Fp /\ config.desired \in Fp /\ Fp \subseteq Nat
      /\ config \in [now : Fp, desired : Fp] /\ UMsg \subseteq Sender /\ Continue \notin UMsg /\ Check \notin UMsg
      /\ cur # 0 => cur \in Inst
  BY DEF LsTypeOK, Sender, Continue, Check, Inst
<1>1. ASSUME UNCHANGED send PROVE \A m \in UMsg : Goes(m)
  BY <1>1 DEF Goes, Went
<1>2. /\ config.now >= config.now
      /\ UNCHANGED config => config'.now >= config.now /\ config'.desired \in {config.desired, config.now}
  <2>1. config.now \in Nat
    BY <1>0
  <2> QED
    BY <2>1
<1>3. ASSUME NEW m \in Sender, NEW p \in {"idle", "ensuring", "go", "reading", "waitExit", "waitCheck", "boot", "in", "over"},
             NEW o, send' = [send EXCEPT ![m].pc = p, ![m].old = o] \/ (send' = [send EXCEPT ![m].pc = p] /\ o = send[m].old),
             m \in UMsg => /\ p \in {"idle", "over"} \/ Went(m)
                           /\ p = "in" => o \in Inst /\ (o = cur \/ inst[o].st = "boot")
      PROVE  \A n \in UMsg : Goes(n)
  <2> DEFINE x == [send[m] EXCEPT !.pc = p, !.old = o]
             y == [send[m] EXCEPT !.pc = p]
  <2>1. send[m] \in Sending /\ (send' = [send EXCEPT ![m] = x] \/ (send' = [send EXCEPT ![m] = y] /\ o = send[m].old))
    BY <1>0, <1>3
  <2>2. /\ x.pc = p /\ x.old = o /\ x.fp = send[m].fp /\ x.amid = send[m].amid
        /\ y.pc = p /\ y.old = send[m].old /\ y.fp = send[m].fp /\ y.amid = send[m].amid
    BY <2>1 DEF Sending
  <2> HIDE DEF x, y
  <2>3. m \in UMsg => Goes(m)
    BY <1>0, <1>3, <2>1, <2>2 DEF Goes, Went
  <2>4. \A n \in UMsg \ {m} : Goes(n)
    BY <2>1, OthersGo
  <2> QED
    BY <2>3, <2>4
<1>4. ASSUME NEW m \in Sender, Ensure(m) PROVE ConfigMoves
  <2>1. m \in UMsg /\ config' = [config EXCEPT !.desired = config.now]
    BY <1>4 DEF Ensure
  <2>2. config'.now = config.now /\ config'.desired = config.now
    BY <1>0, <2>1
  <2>7. config'.now >= config.now /\ config'.desired \in {config.desired, config.now}
    BY <1>2, <2>2
  <2> DEFINE g == [pc |-> "go", fp |-> config.now, old |-> 0, amid |-> Boots]
             e == [pc |-> "ensuring", fp |-> config.now, old |-> cur, amid |-> {}]
  <2>3. \/ UNCHANGED send
        \/ send' = [send EXCEPT ![m] = g] /\ UNCHANGED <<inst, cur>> /\ (cur # 0 => inst[cur].fp = config.now)
        \/ send' = [send EXCEPT ![m] = e]
    BY <1>4 DEF Ensure
  <2>4. CASE send' = [send EXCEPT ![m] = g] /\ UNCHANGED <<inst, cur>> /\ (cur # 0 => inst[cur].fp = config.now)
    <3>1. send'[m] = g
      BY <1>0, <2>4
    <3>2. Goes(m)
      BY <2>2, <2>4, <3>1 DEF Goes, Went
    <3> HIDE DEF g
    <3>3. \A n \in UMsg \ {m} : Goes(n)
      BY <2>4, OthersGo
    <3> QED
      BY <2>7, <3>2, <3>3 DEF ConfigMoves
  <2>5. CASE send' = [send EXCEPT ![m] = e]
    <3>1. send'[m] = e
      BY <1>0, <2>5
    <3>2. Goes(m)
      BY <2>2, <3>1 DEF Goes, Went
    <3> HIDE DEF e
    <3>3. \A n \in UMsg \ {m} : Goes(n)
      BY <2>5, OthersGo
    <3> QED
      BY <2>7, <3>2, <3>3 DEF ConfigMoves
  <2>6. CASE UNCHANGED send
    BY <1>1, <2>6, <2>7 DEF ConfigMoves
  <2> QED
    BY <2>3, <2>4, <2>5, <2>6
<1>5. ASSUME NEW m \in Sender, Ensured(m) PROVE ConfigMoves
  <2> DEFINE ok == cur # send[m].old /\ (cur = 0 \/ inst[cur].fp = send[m].fp)
             x == [send[m] EXCEPT !.pc = IF ok THEN "go" ELSE "idle", !.amid = IF ok THEN Boots ELSE {}]
  <2>1. send' = [send EXCEPT ![m] = x] /\ UNCHANGED <<inst, cur, config>> /\ send[m].pc = "ensuring" /\ send[m] \in Sending
    BY <1>0, <1>5 DEF Ensured
  <2>2. CASE ok
    <3>1. x.pc = "go" /\ x.amid = Boots /\ x.fp = send[m].fp /\ (cur # 0 => inst[cur].fp = x.fp)
      BY <2>1, <2>2 DEF Sending
    <3> HIDE DEF x
    <3>2. send'[m] = x
      BY <1>0, <2>1
    <3>3. Goes(m)
      BY <2>1, <3>1, <3>2 DEF Goes
    <3> QED
      BY <1>2, <2>1, <3>3, OthersGo DEF ConfigMoves
  <2>3. CASE ~ok
    <3>1. m \in UMsg => send'[m].pc = "idle" /\ send'[m].fp = send[m].fp /\ send'[m].amid = {}
      BY <1>0, <2>1, <2>3 DEF Sending
    <3>2. m \in UMsg => Goes(m)
      BY <3>1 DEF Goes, Went
    <3> HIDE DEF x
    <3> QED
      BY <1>2, <2>1, <3>2, OthersGo DEF ConfigMoves
  <2> QED
    BY <2>2, <2>3
<1>6. ASSUME NEW m \in Sender, ReadSession(m), onNode PROVE \A n \in UMsg : Goes(n)
  <2>1. send' = [send EXCEPT ![m].pc = "reading"] /\ (m \in UMsg => Went(m))
    BY <1>6 DEF ReadSession, Sendable, Went
  <2> QED
    BY <1>3, <2>1
<1>7. ASSUME NEW m \in Sender, EnterSession(m), onNode PROVE \A n \in UMsg : Goes(n)
  <2>1. m \in UMsg => Went(m)
    BY <1>7 DEF EnterSession, Awake, Sendable, Went
  <2>2. \/ send' = [send EXCEPT ![m].pc = "boot", ![m].old = NextInst]
        \/ send' = [send EXCEPT ![m].pc = "waitExit", ![m].old = cur]
        \/ send' = [send EXCEPT ![m].pc = "waitCheck", ![m].old = cur]
        \/ send' = [send EXCEPT ![m].pc = "in", ![m].old = cur] /\ cur # 0
    BY <1>7 DEF EnterSession, StartSession
  <2>3. PICK o : o = cur
    OBVIOUS
  <2>4. PICK k : k = NextInst
    OBVIOUS
  <2>5. CASE send' = [send EXCEPT ![m].pc = "boot", ![m].old = k]
    BY <1>3, <2>1, <2>5
  <2>6. CASE send' = [send EXCEPT ![m].pc = "waitExit", ![m].old = o]
    BY <1>3, <2>1, <2>6
  <2>7. CASE send' = [send EXCEPT ![m].pc = "waitCheck", ![m].old = o]
    BY <1>3, <2>1, <2>7
  <2>8. CASE send' = [send EXCEPT ![m].pc = "in", ![m].old = o] /\ cur # 0
    BY <1>0, <1>3, <2>1, <2>3, <2>8
  <2> QED
    BY <2>2, <2>3, <2>4, <2>5, <2>6, <2>7, <2>8
<1>8. ASSUME NEW m \in Sender, ExitTimesOut(m) \/ BootOk(m) \/ BootFails(m) PROVE \A n \in UMsg : Goes(n)
  <2>1. CASE ExitTimesOut(m)
    <3>1. Went(m) /\ send' = [send EXCEPT ![m].pc = "boot", ![m].old = NextInst]
      BY <2>1 DEF ExitTimesOut, Went
    <3>2. PICK k : k = NextInst
      OBVIOUS
    <3> QED
      BY <1>3, <3>1, <3>2
  <2>2. CASE BootOk(m)
    <3>1. /\ Went(m) /\ send' = [send EXCEPT ![m].pc = "in"]
          /\ send[m].old \in Inst /\ inst[send[m].old].st = "boot"
      BY <2>2 DEF BootOk, Went, BootsAreSent, Boots
    <3>2. PICK k : k = send[m].old
      OBVIOUS
    <3> QED
      BY <1>3, <3>1, <3>2
  <2>3. CASE BootFails(m)
    <3>1. \E p \in {"idle", "over"} : send' = [send EXCEPT ![m].pc = p]
      BY <2>3 DEF BootFails
    <3>2. PICK k : k = send[m].old
      OBVIOUS
    <3> QED
      BY <1>3, <3>1, <3>2
  <2> QED
    BY <1>8, <2>1, <2>2, <2>3
<1>9. ASSUME NEW k \in Inst, NEW b \in BOOLEAN, Result(k, b) \/ ResultStreamLost(k, b) PROVE \A n \in UMsg : Goes(n)
  <2>1. Answer(k) /\ Head(inst[k].queue) \in Sender \cup {Check}
    <3>1. Answer(k) /\ inst[k].queue # <<>> /\ inst[k] \in Instance
      BY <1>9 DEF Result, ResultStreamLost, LsTypeOK
    <3> QED
      BY <3>1, Fields
  <2>2. UNCHANGED send \/ \E m \in Sender, p \in {"idle", "over"} : send' = [send EXCEPT ![m].pc = p]
    BY <2>1 DEF Answer
  <2>3. ASSUME NEW m \in Sender, NEW p \in {"idle", "over"}, send' = [send EXCEPT ![m].pc = p]
        PROVE  \A n \in UMsg : Goes(n)
    <3>2. PICK o : o = send[m].old
      OBVIOUS
    <3> QED
      BY <1>3, <2>3, <3>2
  <2> QED
    BY <1>1, <2>2, <2>3
<1>10. ASSUME NEW k \in Inst, Teardown(k) PROVE \A n \in UMsg : Goes(n)
  <2>1. send' = send \/ send' = [send EXCEPT ![Continue].pc = "go"]
    <3>1. CASE k = cur
      BY <1>10, <3>1 DEF Teardown
    <3>2. CASE k # cur
      BY <1>10, <3>2 DEF Teardown
    <3> QED
      BY <3>1, <3>2
  <2>2. CASE send' = [send EXCEPT ![Continue].pc = "go"]
    <3>1. \A n \in UMsg : send'[n] = send[n]
      BY <1>0, <2>2
    <3> QED
      BY <3>1 DEF Goes, Went
  <2> QED
    BY <1>1, <2>1, <2>2
<1>11. ASSUME NEW k \in Inst, DetachedResult(k) \/ IdleFires(k) \/ Reload(k) \/ QueryEnds(k) PROVE UNCHANGED <<send, config>>
  BY <1>11 DEF DetachedResult, IdleFires, Reload, QueryEnds
<1>12. ASSUME AbortSession \/ TenantReload \/ \E s \in starting : CheckStarts(s) \/ CheckRefused(s) PROVE UNCHANGED <<send, config>>
  BY <1>12 DEF AbortSession, TenantReload, CheckStarts, CheckRefused
<1>13. ASSUME ConfigChanges PROVE ConfigMoves
  <2>1. UNCHANGED send /\ \E f \in Fp : f > config.now /\ config' = [config EXCEPT !.now = f]
    BY <1>13 DEF ConfigChanges
  <2>2. config'.now >= config.now /\ config'.desired = config.desired
    BY <1>0, <2>1
  <2> QED
    BY <1>1, <2>1, <2>2 DEF ConfigMoves
<1>14. ASSUME UNCHANGED config, \A n \in UMsg : Goes(n) PROVE ConfigMoves
  BY <1>2, <1>14 DEF ConfigMoves
<1>15. ASSUME NEW m \in Sender, ReadSession(m) \/ EnterSession(m) \/ ExitTimesOut(m) \/ BootOk(m) \/ BootFails(m)
       PROVE  UNCHANGED config
  BY <1>15 DEF ReadSession, EnterSession, ExitTimesOut, BootOk, BootFails
<1>16. ASSUME NEW k \in Inst, NEW b \in BOOLEAN, Result(k, b) \/ ResultStreamLost(k, b) \/ Teardown(k)
       PROVE  UNCHANGED config
  <2>1. CASE Teardown(k)
    BY <2>1 DEF Teardown
  <2> QED
    BY <1>16, <2>1 DEF Result, ResultStreamLost
<1>17. CASE UNCHANGED lsVars
  BY <1>1, <1>14, <1>17 DEF lsVars
<1>18. CASE UNCHANGED <<send, config>>
  BY <1>1, <1>14, <1>18
<1>19. CASE ~onNode
  BY <1>19 DEF ConfigMoves
<1>20. ASSUME NEW m \in Sender, ReadSession(m) \/ EnterSession(m) \/ ExitTimesOut(m) \/ BootOk(m) \/ BootFails(m)
       PROVE  ConfigMoves
  BY <1>6, <1>7, <1>8, <1>14, <1>15, <1>19, <1>20
<1>21. ASSUME NEW k \in Inst, NEW b \in BOOLEAN, Result(k, b) \/ ResultStreamLost(k, b) \/ Teardown(k)
       PROVE  ConfigMoves
  BY <1>9, <1>10, <1>14, <1>16, <1>21
<1>22. TRUE \in BOOLEAN
  OBVIOUS
<1> QED
  BY <1>4, <1>5, <1>11, <1>12, <1>13, <1>17, <1>18, <1>20, <1>21, <1>22 DEF LsNext

\* An instance keeps its config, and a turn runs in none of an older one.
LEMMA ConfigsStep ==
    ASSUME LsTypeOK, LsTypeOK', InstancesOK, BootsAreSent, ConfigsKept, RunsUnderItsConfig,
           InstancesMove, CurMoves, ConfigMoves, UNCHANGED onNode
    PROVE  ConfigsKept' /\ RunsUnderItsConfig'
<1> USE LiveAssumption
<1>1. SUFFICES ASSUME onNode
               PROVE  /\ config'.desired <= config'.now
                      /\ \A m \in UMsg :
                           /\ send'[m].fp <= config'.desired
                           /\ Went(m)' => \A k \in Inst \ send'[m].amid :
                                  k = cur' \/ inst'[k].st = "boot" => inst'[k].fp >= send'[m].fp
                           /\ send'[m].pc = "in" /\ send'[m].old \notin send'[m].amid
                                => inst'[send'[m].old].fp >= send'[m].fp
  BY DEF ConfigsKept, RunsUnderItsConfig
<1>2. /\ config.now \in Nat /\ config.desired \in Nat /\ config'.now \in Nat /\ config'.desired \in Nat
      /\ \A m \in UMsg : send[m].fp \in Nat /\ send'[m].fp \in Nat
      /\ \A k \in Inst : inst[k].fp \in Nat /\ inst'[k].fp \in Nat
  <2>1. config \in [now : Fp, desired : Fp] /\ config' \in [now : Fp, desired : Fp]
    BY DEF LsTypeOK
  <2>2. \A m \in UMsg : send[m] \in Sending /\ send'[m] \in Sending
    BY DEF LsTypeOK, Sender
  <2>3. \A k \in Inst : inst[k] \in Instance /\ inst'[k] \in Instance
    BY DEF LsTypeOK
  <2>4. \A m \in UMsg : send[m].fp \in Fp /\ send'[m].fp \in Fp
    BY <2>2 DEF Sending
  <2>5. \A k \in Inst : inst[k].fp \in Fp /\ inst'[k].fp \in Fp
    BY <2>3, Fields
  <2> QED
    BY <2>1, <2>4, <2>5
<1>3. /\ config.desired <= config.now
      /\ config'.now >= config.now /\ config'.desired \in {config.desired, config.now}
  BY <1>1 DEF ConfigsKept, ConfigMoves
<1>4. config'.desired <= config'.now /\ config.desired <= config'.desired
  BY <1>2, <1>3
<1>5. ASSUME NEW k \in Inst, Joinable(k) \/ inst[k].st # "none" PROVE inst'[k].fp = inst[k].fp
  BY <1>5, Moved DEF Joinable, InstancesOK, Live, Inst
<1>6. ASSUME NEW m \in UMsg
      PROVE  /\ send'[m].fp <= config'.desired
             /\ Went(m)' => \A k \in Inst \ send'[m].amid :
                    k = cur' \/ inst'[k].st = "boot" => inst'[k].fp >= send'[m].fp
             /\ send'[m].pc = "in" /\ send'[m].old \notin send'[m].amid => inst'[send'[m].old].fp >= send'[m].fp
  <2>0. /\ send[m].fp <= config.desired /\ Goes(m)
        /\ Went(m) => \A k \in Inst \ send[m].amid : k = cur \/ inst[k].st = "boot" => inst[k].fp >= send[m].fp
    BY <1>1 DEF ConfigsKept, ConfigMoves
  <2>1. CASE /\ send'[m].fp = send[m].fp /\ (Went(m)' => Went(m) /\ send'[m].amid = send[m].amid)
             /\ send'[m].pc = "in" => \/ send[m].pc = "in" /\ send'[m].old = send[m].old
                                      \/ send'[m].old \in Inst /\ (send'[m].old = cur \/ inst[send'[m].old].st = "boot")
    <3>1. send'[m].fp <= config'.desired
      BY <1>2, <1>4, <2>0, <2>1
    <3>2. ASSUME Went(m)', NEW k \in Inst \ send'[m].amid, k = cur' \/ inst'[k].st = "boot"
          PROVE  inst'[k].fp >= send'[m].fp
      <4>1. CASE Joinable(k)
        BY <1>5, <2>0, <2>1, <3>2, <4>1 DEF Joinable
      <4>2. CASE ~Joinable(k)
        <5>1. inst'[k].st = "boot" /\ inst[k].st = "none"
          BY <3>2, <4>2, Moved DEF CurMoves, Joinable, Inst
        <5>2. inst'[k].fp = config.desired
          BY <5>1, Moved
        <5> QED
          BY <1>2, <2>0, <2>1, <5>2
      <4> QED
        BY <4>1, <4>2
    <3>3. ASSUME send'[m].pc = "in", send'[m].old \notin send'[m].amid
          PROVE  inst'[send'[m].old].fp >= send'[m].fp
      <4>0. Went(m)'
        BY <3>3 DEF Went
      <4>1. CASE send[m].pc = "in" /\ send'[m].old = send[m].old
        <5>1. PICK k \in Inst : k = send[m].old /\ inst[k].st # "none"
          BY <4>1 DEF BootsAreSent, Sender
        <5>2. inst[k].fp >= send[m].fp
          BY <1>1, <2>1, <3>3, <4>0, <4>1, <5>1 DEF RunsUnderItsConfig
        <5> QED
          BY <1>5, <2>1, <4>1, <5>1, <5>2
      <4>2. CASE send'[m].old \in Inst /\ (send'[m].old = cur \/ inst[send'[m].old].st = "boot")
        BY <1>5, <2>0, <2>1, <3>3, <4>0, <4>2 DEF Joinable
      <4> QED
        BY <2>1, <3>3, <4>1, <4>2
    <3> QED
      BY <3>1, <3>2, <3>3
  <2>2. CASE send'[m].pc = "ensuring" /\ send'[m].fp = config.now /\ config'.desired = config.now
    BY <1>2, <2>2 DEF Went
  <2>3. CASE /\ send'[m].pc = "go" /\ send'[m].amid = Boots /\ UNCHANGED <<inst, cur>>
             /\ cur # 0 => inst[cur].fp = send'[m].fp
             /\ \/ send'[m].fp = config.now /\ config'.desired = config.now
                \/ send'[m].fp = send[m].fp /\ UNCHANGED config
    <3>1. send'[m].fp <= config'.desired
      BY <1>2, <2>0, <2>3
    <3>2. ASSUME NEW k \in Inst \ send'[m].amid, k = cur' \/ inst'[k].st = "boot"
          PROVE  inst'[k].fp >= send'[m].fp
      <4>1. k = cur /\ cur # 0 /\ inst'[k].fp = send'[m].fp
        BY <2>3, <3>2 DEF Boots, Inst
      <4> QED
        BY <1>2, <4>1
    <3> QED
      BY <2>3, <3>1, <3>2
  <2> QED
    BY <2>0, <2>1, <2>2, <2>3 DEF Goes
<1> QED
  BY <1>4, <1>6

\* What a step makes of the runs: one run ends, one opens, or one opens and ends.
RunKept(k) == inst'[k].run = inst[k].run
RunsMove ==
    \/ UNCHANGED runs /\ \A k \in Inst : RunKept(k)
    \/ /\ runs'.opened = runs.opened + 1 /\ runs'.ended = runs.ended + 1
       /\ \A k \in Inst : RunKept(k)
    \/ \E k \in Inst :
         /\ \A j \in Inst \ {k} : RunKept(j)
         /\ \/ inst[k].run /\ ~inst'[k].run /\ runs'.opened = runs.opened /\ runs'.ended = runs.ended + 1
            \/ ~inst[k].run /\ inst'[k].run /\ runs'.opened = runs.opened + 1 /\ runs'.ended = runs.ended

\* A run that is closed is counted.
LEMMA RunCloses ==
    ASSUME LsTypeOK, NEW k \in Inst, NEW n \in Instance, inst' = [inst EXCEPT ![k] = n], ~n.run,
           runs' = [runs EXCEPT !.ended = @ + (IF inst[k].run THEN 1 ELSE 0)]
    PROVE  RunsMove
<1>1. /\ inst \in [Inst -> Instance] /\ inst[k].run \in BOOLEAN /\ runs.ended \in Nat /\ runs \in [opened : Nat, ended : Nat]
  BY Fields DEF LsTypeOK
<1>2. inst'[k] = n /\ \A j \in Inst \ {k} : RunKept(j)
  BY <1>1 DEF RunKept
<1>3. CASE inst[k].run
  BY <1>1, <1>2, <1>3 DEF RunsMove
<1>4. CASE ~inst[k].run
  <2>1. runs' = runs
    BY <1>1, <1>4
  <2>2. RunKept(k)
    <3>1. n.run \in BOOLEAN
      BY Fields
    <3> QED
      BY <1>1, <1>2, <1>4, <3>1 DEF RunKept
  <2> QED
    BY <1>2, <2>1, <2>2 DEF RunsMove
<1> QED
  BY <1>3, <1>4

\* Each step is a move of the runs.
LEMMA RunsStep ==
    ASSUME LsTypeOK, InstancesOK, BootsAreSent, [LsNext]_lsVars
    PROVE  RunsMove /\ UNCHANGED onNode
<1> USE LiveAssumption
<1>0. /\ inst \in [Inst -> Instance] /\ runs \in [opened : Nat, ended : Nat] /\ cur \in 0..MaxInst
      /\ cur # 0 => cur \in Inst
      /\ \A k \in Inst : inst[k] \in Instance /\ InstanceOK(inst[k])
      /\ \A s \in starting : s.of \in Inst
  BY DEF LsTypeOK, InstancesOK, Inst
<1> DEFINE Kept == UNCHANGED <<onNode, runs>> /\ \A k \in Inst : RunKept(k)
<1>k. Kept => RunsMove /\ UNCHANGED onNode
  BY DEF RunsMove
<1>1. ASSUME AbortSession \/ TenantReload \/ ConfigChanges PROVE Kept
  <2>1. CASE AbortSession
    BY <1>0, <2>1 DEF AbortSession, RunKept, Instance
  <2>2. CASE ConfigChanges
    BY <2>2 DEF ConfigChanges, RunKept
  <2>3. CASE TenantReload
    <3>1. cur \in Inst /\ UNCHANGED <<onNode, runs>>
          /\ (UNCHANGED inst \/ inst' = [inst EXCEPT ![cur] = Close(inst[cur], "config")])
      BY <1>0, <2>3 DEF TenantReload
    <3>2. Close(inst[cur], "config").run = inst[cur].run
      BY <1>0, <3>1, Closes
    <3> QED
      BY <1>0, <3>1, <3>2 DEF RunKept
  <2> QED
    BY <1>1, <2>1, <2>2, <2>3
<1>2. ASSUME NEW m \in Sender, Ensure(m) \/ Ensured(m) \/ ReadSession(m) PROVE Kept
  <2>1. CASE Ensure(m)
    <3>1. UNCHANGED <<onNode, runs>>
          /\ (UNCHANGED inst \/ (cur # 0 /\ inst' = [inst EXCEPT ![cur] = Close(inst[cur], "config")]))
      BY <2>1 DEF Ensure
    <3>2. cur # 0 => Close(inst[cur], "config").run = inst[cur].run
      BY <1>0, <3>1, Closes
    <3> QED
      BY <1>0, <3>1, <3>2 DEF RunKept
  <2> QED
    BY <1>2, <2>1 DEF Ensured, ReadSession, RunKept
<1>3. ASSUME NEW m \in Sender, EnterSession(m) PROVE Kept
  <2>1. UNCHANGED <<onNode, runs>>
    BY <1>3 DEF EnterSession
  <2>2. PICK k : k = NextInst
    OBVIOUS
  <2>3. \/ UNCHANGED inst
        \/ inst' = [inst EXCEPT ![k].st = "boot", ![k].fp = config.desired]
        \/ /\ cur # 0
           /\ inst' = [inst EXCEPT ![cur].queue = Append(@, m), ![cur].seq = @ + 1,
                                   ![cur].dead = IF inst[cur].st = "ended" THEN @ + 1 ELSE @]
    BY <1>3, <2>2 DEF EnterSession, StartSession
  <2> DEFINE q == Append(inst[cur].queue, m)
             s == inst[cur].seq + 1
             d == IF inst[cur].st = "ended" THEN inst[cur].dead + 1 ELSE inst[cur].dead
             n == [inst[cur] EXCEPT !.queue = q, !.seq = s, !.dead = d]
             b == [inst[k] EXCEPT !.st = "boot", !.fp = config.desired]
  <2>4. (cur # 0 => n.run = inst[cur].run) /\ (k \in Inst => b.run = inst[k].run)
    <3>1. /\ cur # 0 => inst[cur] \in Instance
          /\ k \in Inst => inst[k] \in Instance
      BY <1>0
    <3> HIDE DEF q, s, d
    <3>2. PICK i : i = inst[cur]
      OBVIOUS
    <3>3. PICK j : j = inst[k]
      OBVIOUS
    <3>4. i \in Instance => [i EXCEPT !.queue = q, !.seq = s, !.dead = d].run = i.run
      BY DEF Instance
    <3>5. j \in Instance => [j EXCEPT !.st = "boot", !.fp = config.desired].run = j.run
      BY DEF Instance
    <3> QED
      BY <3>1, <3>2, <3>3, <3>4, <3>5
  <2>5. UNCHANGED inst \/ inst' = [inst EXCEPT ![k] = b] \/ (cur # 0 /\ inst' = [inst EXCEPT ![cur] = n])
    BY <2>3
  <2> HIDE DEF n, b
  <2> QED
    BY <1>0, <2>1, <2>4, <2>5 DEF RunKept
<1>4. ASSUME NEW m \in Sender, ExitTimesOut(m) PROVE Kept
  <2>1. PICK x : x = NextInst
    OBVIOUS
  <2>2. /\ inst' = [k \in Inst |-> IF k = cur THEN [inst[k] EXCEPT !.aborted = TRUE]
                                   ELSE IF k = x THEN [inst[k] EXCEPT !.st = "boot", !.fp = config.desired]
                                   ELSE inst[k]]
        /\ UNCHANGED <<onNode, runs>>
    BY <1>4, <2>1 DEF ExitTimesOut
  <2>3. ASSUME NEW k \in Inst PROVE RunKept(k)
    <3>1. inst[k] \in Instance
      BY <1>0
    <3>2. inst'[k] \in {inst[k], [inst[k] EXCEPT !.aborted = TRUE], [inst[k] EXCEPT !.st = "boot", !.fp = config.desired]}
      BY <2>2
    <3> QED
      BY <3>1, <3>2 DEF RunKept, Instance
  <2> QED
    BY <2>2, <2>3
<1>5. ASSUME NEW m \in Sender, BootOk(m) \/ BootFails(m) PROVE Kept
  <2>1. CASE BootOk(m)
    BY <1>0, <2>1, ZenonT(60) DEF BootOk, RunKept, Instance
  <2>2. CASE BootFails(m)
    BY <1>0, <2>2 DEF BootFails, RunKept, Instance
  <2> QED
    BY <1>5, <2>1, <2>2
<1>6. ASSUME NEW k \in Inst, DetachedResult(k) \/ IdleFires(k) \/ Reload(k) \/ Teardown(k) PROVE Kept
  <2>1. CASE DetachedResult(k)
    BY <1>0, <2>1 DEF DetachedResult, RunKept, Instance
  <2>2. CASE IdleFires(k)
    BY <1>0, <2>2 DEF IdleFires, RunKept, Close, Instance
  <2>3. CASE Reload(k)
    BY <1>0, <2>3 DEF Reload, RunKept, Close, Instance
  <2>4. CASE Teardown(k)
    BY <1>0, <2>4 DEF Teardown, RunKept, Instance
  <2> QED
    BY <1>6, <2>1, <2>2, <2>3, <2>4
<1>7. ASSUME NEW k \in Inst, NEW b \in BOOLEAN, Result(k, b) \/ ResultStreamLost(k, b)
      PROVE  RunsMove /\ UNCHANGED onNode
  <2>1. Running(k) /\ inst[k].queue # <<>> /\ RunEnds(k) /\ UNCHANGED onNode
    BY <1>7 DEF Result, ResultStreamLost
  <2>2. TurnEnded(k) \in Instance /\ ~TurnEnded(k).run
    BY <2>1, TurnEndedIs
  <2> DEFINE n == [TurnEnded(k) EXCEPT !.evolve = FALSE]
  <2>3. n \in Instance /\ ~n.run
    BY <2>2 DEF Instance
  <2>4. inst' \in {[inst EXCEPT ![k] = x] : x \in {n, TurnEnded(k), Close(n, "config"), Close(TurnEnded(k), "stream"), Close(TurnEnded(k), "config")}}
    BY <1>7 DEF Result, ResultStreamLost
  <2> HIDE DEF n
  <2>5. \E x \in Instance : ~x.run /\ inst' = [inst EXCEPT ![k] = x]
    <3>1. \A i \in Instance, w \in {"", "idle", "config", "stream", "asked"} : Close(i, w) \in Instance /\ Close(i, w).run = i.run
      BY Closes, ZenonT(60)
    <3>2. PICK x : x = TurnEnded(k)
      OBVIOUS
    <3>3. \A y \in {n, x, Close(n, "config"), Close(x, "stream"), Close(x, "config")} : y \in Instance /\ ~y.run
      <4>1. x \in Instance /\ ~x.run
        BY <2>2, <3>2
      <4>2. Close(n, "config") \in Instance /\ ~Close(n, "config").run
        BY <2>3, <3>1
      <4>3. Close(x, "config") \in Instance /\ ~Close(x, "config").run
        BY <4>1, <3>1
      <4>4. Close(x, "stream") \in Instance /\ ~Close(x, "stream").run
        BY <4>1, <3>1
      <4> QED
        BY <2>3, <4>1, <4>2, <4>3, <4>4
    <3> QED
      BY <2>4, <3>2, <3>3
  <2>6. inst[k].run => inst[k].evolve
    BY <1>0 DEF InstanceOK
  <2>7. inst[k].run \in BOOLEAN /\ inst[k].evolve \in BOOLEAN
    BY <1>0, Fields
  <2>8. runs' = [runs EXCEPT !.ended = @ + (IF inst[k].run THEN 1 ELSE 0)]
    BY <2>1, <2>6, <2>7 DEF RunEnds
  <2> QED
    BY <2>1, <2>5, <2>8, RunCloses
<1>8. ASSUME NEW k \in Inst, QueryEnds(k) PROVE RunsMove /\ UNCHANGED onNode
  <2> DEFINE n == [inst[k] EXCEPT !.st = IF k = cur THEN "ended" ELSE "gone", !.run = FALSE]
  <2>1. n \in Instance /\ ~n.run
    BY <1>0, ZenonT(60) DEF Instance
  <2>2. inst' = [inst EXCEPT ![k] = n] /\ UNCHANGED onNode
        /\ runs' = [runs EXCEPT !.ended = @ + (IF inst[k].run THEN 1 ELSE 0)]
    BY <1>0, <1>8 DEF QueryEnds
  <2> HIDE DEF n
  <2> QED
    BY <2>1, <2>2, RunCloses
<1>9. ASSUME NEW s \in starting, CheckStarts(s) PROVE RunsMove /\ UNCHANGED onNode
  <2>1. CASE MovedOn(s)
    BY <1>0, <1>9, <2>1 DEF CheckStarts, RunsMove, RunKept
  <2>2. CASE ~MovedOn(s)
    <3>1. s.of \in Inst /\ ~inst[s.of].run
      BY <1>0, <2>2 DEF MovedOn, InstanceOK
    <3>2. inst'[s.of].run /\ \A j \in Inst \ {s.of} : RunKept(j)
      <4> DEFINE i == inst[s.of]
                 q == Append(i.queue, Check)
                 e == i.seq + 1
                 d == IF i.st = "ended" THEN i.dead + 1 ELSE i.dead
                 n == [i EXCEPT !.queue = q, !.seq = e, !.evolve = TRUE, !.check = TRUE, !.run = TRUE, !.dead = d]
      <4>1. inst' = [inst EXCEPT ![s.of] = n]
        BY <1>9, <2>2 DEF CheckStarts
      <4>2. n.run
        <5>1. i \in Instance
          BY <1>0, <3>1
        <5> HIDE DEF i, q, e, d
        <5> QED
          BY <5>1 DEF Instance
      <4> HIDE DEF n
      <4> QED
        BY <1>0, <3>1, <4>1, <4>2 DEF RunKept
    <3>3. runs'.opened = runs.opened + 1 /\ runs'.ended = runs.ended /\ UNCHANGED onNode
      BY <1>0, <1>9, <2>2 DEF CheckStarts
    <3> QED
      BY <3>1, <3>2, <3>3 DEF RunsMove
  <2> QED
    BY <2>1, <2>2
<1>10. ASSUME NEW s \in starting, CheckRefused(s) PROVE Kept
  BY <1>10 DEF CheckRefused, RunKept
<1>11. CASE UNCHANGED lsVars
  BY <1>11, <1>k DEF lsVars, RunKept
<1>12. TRUE \in BOOLEAN
  OBVIOUS
<1> HIDE DEF Kept
<1> QED
  BY <1>k, <1>1, <1>2, <1>3, <1>4, <1>5, <1>6, <1>7, <1>8, <1>9, <1>10, <1>11, <1>12 DEF LsNext

\* A move of the runs keeps them counted.
LEMMA RunsEndedStep ==
    ASSUME LsTypeOK, LsTypeOK', InstancesOK', RunsAreEnded, RunsMove
    PROVE  RunsAreEnded'
<1> DEFINE R == {k \in Inst : inst[k].run}
<1>0. IsFiniteSet(Inst) /\ IsFiniteSet(R) /\ R \subseteq Inst
  <2>1. IsFiniteSet(Inst)
    BY FS_Interval, LiveAssumption DEF Inst
  <2> QED
    BY <2>1, FS_Subset
<1>1. /\ Cardinality(R) \in Nat /\ runs.opened \in Nat /\ runs.ended \in Nat
      /\ runs.opened = runs.ended + Cardinality(R)
  BY <1>0, FS_CardinalityType DEF LsTypeOK, RunsAreEnded
<1>2. \A k \in Inst : inst[k].run \in BOOLEAN /\ inst'[k].run \in BOOLEAN
  <2>1. \A k \in Inst : inst[k] \in Instance /\ inst'[k] \in Instance
    BY DEF LsTypeOK
  <2> QED
    BY <2>1, Fields
<1>3. \A k \in Inst : inst'[k].run => Running(k)' \/ inst'[k].dead > 0
  BY DEF InstancesOK, InstanceOK, Running
<1>4. runs'.opened = runs'.ended + Cardinality(R')
  <2>1. CASE \A k \in Inst : RunKept(k)
    <3>1. R' = R
      BY <2>1 DEF RunKept
    <3>2. UNCHANGED runs \/ (runs'.opened = runs.opened + 1 /\ runs'.ended = runs.ended + 1)
      BY <2>1 DEF RunsMove, RunKept
    <3> HIDE DEF R
    <3> QED
      BY <1>1, <3>1, <3>2
  <2>2. ASSUME NEW k \in Inst, \A j \in Inst \ {k} : RunKept(j),
               inst[k].run, ~inst'[k].run, runs'.opened = runs.opened, runs'.ended = runs.ended + 1
        PROVE  runs'.opened = runs'.ended + Cardinality(R')
    <3>1. R' = R \ {k} /\ k \in R
      BY <1>2, <2>2 DEF RunKept
    <3>2. Cardinality(R') = Cardinality(R) - 1
      BY <1>0, <3>1, FS_RemoveElement
    <3> QED
      BY <1>1, <2>2, <3>2
  <2>3. ASSUME NEW k \in Inst, \A j \in Inst \ {k} : RunKept(j),
               ~inst[k].run, inst'[k].run, runs'.opened = runs.opened + 1, runs'.ended = runs.ended
        PROVE  runs'.opened = runs'.ended + Cardinality(R')
    <3>1. R' = R \cup {k} /\ k \notin R
      BY <1>2, <2>3 DEF RunKept
    <3>2. Cardinality(R') = Cardinality(R) + 1
      BY <1>0, <3>1, FS_AddElement
    <3> QED
      BY <1>1, <2>3, <3>2
  <2> QED
    BY <2>1, <2>2, <2>3 DEF RunsMove
<1> QED
  BY <1>3, <1>4 DEF RunsAreEnded

\* A changed config closes no input of an outstanding turn.
ConfigWaits(k) == inst[k].why # "config" /\ inst'[k].why = "config" => inst'[k].queue = <<>>

\* A step that changes one instance, and closes none with an input for a config.
LEMMA OneWaits ==
    ASSUME LsTypeOK, NEW k \in Inst, NEW n, inst' = [inst EXCEPT ![k] = n],
           n.why = inst[k].why \/ n.why # "config" \/ n.queue = <<>>
    PROVE  \A j \in Inst : ConfigWaits(j)
<1>1. inst \in [Inst -> Instance]
  BY DEF LsTypeOK
<1> QED
  BY <1>1 DEF ConfigWaits

\* What a step makes of an instance's reason to leave, when it is not closed.
LEMMA WhyKept ==
    ASSUME NEW i \in Instance, NEW q, NEW s, NEW d, NEW t, NEW f
    PROVE  /\ [i EXCEPT !.queue = q, !.seq = s, !.dead = d].why = i.why
           /\ [i EXCEPT !.st = t, !.fp = f].why = i.why
           /\ [i EXCEPT !.st = t, !.queue = q, !.seq = s].why = i.why
           /\ [i EXCEPT !.st = t].why = i.why
           /\ [i EXCEPT !.queue = q].why = i.why
           /\ [i EXCEPT !.st = t, !.run = FALSE].why = i.why
           /\ [i EXCEPT !.aborted = TRUE].why = i.why
           /\ [i EXCEPT !.evolve = FALSE].why = i.why
           /\ [i EXCEPT !.evolve = FALSE].queue = i.queue
           /\ [i EXCEPT !.queue = q, !.seq = s, !.evolve = TRUE, !.check = TRUE, !.run = TRUE, !.dead = d].why = i.why
  BY DEF Instance

\* No step closes an instance with an input for a changed config.
LEMMA WaitsStep ==
    ASSUME LsTypeOK, InstancesOK, BootsAreSent, [LsNext]_lsVars
    PROVE  \A k \in Inst : ConfigWaits(k)
<1> USE LiveAssumption
<1>0. /\ inst \in [Inst -> Instance] /\ cur \in 0..MaxInst
      /\ cur # 0 => cur \in Inst
      /\ \A k \in Inst : inst[k] \in Instance
      /\ \A s \in starting : s.of \in Inst
      /\ \A m \in Sender : send[m].pc = "boot" => send[m].old \in Inst
  BY SMTT(30) DEF LsTypeOK, Inst, BootsAreSent, Boots
<1> DEFINE Waits == \A k \in Inst : ConfigWaits(k)
<1>u. ASSUME UNCHANGED inst PROVE Waits
  BY <1>u DEF ConfigWaits
<1>c. ASSUME NEW k \in Inst, NEW w \in {"", "idle", "config", "stream", "asked"},
             inst' = [inst EXCEPT ![k] = Close(inst[k], w)], w # "config" \/ inst[k].queue = <<>>
      PROVE  Waits
  <2>1. inst[k] \in Instance
    BY <1>0
  <2>2. Close(inst[k], w).why = w /\ Close(inst[k], w).queue = inst[k].queue
    BY <2>1, Closes
  <2> QED
    BY <1>c, <2>2, OneWaits
<1>p. \A k \in Inst : ~(Pending(k) > 0) => inst[k].queue = <<>>
  <2>1. ASSUME NEW k \in Inst PROVE Pending(k) > 0 <=> inst[k].queue # <<>>
    <3>1. inst[k] \in Instance
      BY <1>0
    <3> QED
      BY <3>1, Fields DEF Pending
  <2> QED
    BY <2>1
<1>1. ASSUME AbortSession PROVE Waits
  <2>1. cur \in Inst /\ inst[cur] \in Instance /\ inst' = [inst EXCEPT ![cur] = [inst[cur] EXCEPT !.aborted = TRUE]]
    BY <1>0, <1>1 DEF AbortSession
  <2>2. [inst[cur] EXCEPT !.aborted = TRUE].why = inst[cur].why
    BY <2>1, WhyKept
  <2> QED
    BY <2>1, <2>2, OneWaits
<1>2. ASSUME TenantReload PROVE Waits
  <2>1. cur \in Inst /\ (UNCHANGED inst \/ (~(Pending(cur) > 0) /\ inst' = [inst EXCEPT ![cur] = Close(inst[cur], "config")]))
    BY <1>0, <1>2 DEF TenantReload
  <2> QED
    BY <1>c, <1>p, <1>u, <2>1
<1>3. ASSUME NEW m \in Sender, Ensure(m) PROVE Waits
  <2>1. \/ UNCHANGED inst
        \/ /\ cur # 0 /\ ~(Pending(cur) > 0)
           /\ inst' = [inst EXCEPT ![cur] = Close(inst[cur], "config")]
    BY <1>3 DEF Ensure
  <2> QED
    BY <1>0, <1>c, <1>p, <1>u, <2>1
<1>4. ASSUME NEW m \in Sender, EnterSession(m) PROVE Waits
  <2>2. PICK k : k = NextInst
    OBVIOUS
  <2>3. \/ UNCHANGED inst
        \/ Unused # {} /\ inst' = [inst EXCEPT ![k].st = "boot", ![k].fp = config.desired]
        \/ /\ cur # 0
           /\ inst' = [inst EXCEPT ![cur].queue = Append(@, m), ![cur].seq = @ + 1,
                                   ![cur].dead = IF inst[cur].st = "ended" THEN @ + 1 ELSE @]
    BY <1>4, <2>2 DEF EnterSession, StartSession
  <2>4. Unused # {} => k \in Inst
    BY <2>2 DEF Unused, NextInst
  <2> DEFINE q == Append(inst[cur].queue, m)
             s == inst[cur].seq + 1
             d == IF inst[cur].st = "ended" THEN inst[cur].dead + 1 ELSE inst[cur].dead
             n == [inst[cur] EXCEPT !.queue = q, !.seq = s, !.dead = d]
             b == [inst[k] EXCEPT !.st = "boot", !.fp = config.desired]
  <2>5. UNCHANGED inst \/ (k \in Inst /\ inst' = [inst EXCEPT ![k] = b]) \/ (cur \in Inst /\ inst' = [inst EXCEPT ![cur] = n])
    BY <1>0, <2>3, <2>4
  <2>6. (cur \in Inst => n.why = inst[cur].why) /\ (k \in Inst => b.why = inst[k].why)
    BY <1>0, WhyKept
  <2> HIDE DEF n, b
  <2> QED
    BY <1>u, <2>5, <2>6, OneWaits
<1>5. ASSUME NEW m \in Sender, ExitTimesOut(m) PROVE Waits
  <2>1. PICK x : x = NextInst
    OBVIOUS
  <2>2. inst' = [k \in Inst |-> IF k = cur THEN [inst[k] EXCEPT !.aborted = TRUE]
                                ELSE IF k = x THEN [inst[k] EXCEPT !.st = "boot", !.fp = config.desired]
                                ELSE inst[k]]
    BY <1>5, <2>1 DEF ExitTimesOut
  <2>3. ASSUME NEW k \in Inst PROVE inst'[k].why = inst[k].why
    <3>1. /\ [inst[k] EXCEPT !.aborted = TRUE].why = inst[k].why
          /\ [inst[k] EXCEPT !.st = "boot", !.fp = config.desired].why = inst[k].why
      BY <1>0, WhyKept
    <3> QED
      BY <2>2, <3>1
  <2> QED
    BY <2>3 DEF ConfigWaits
<1>6. ASSUME NEW m \in Sender, BootOk(m) PROVE Waits
  <2> DEFINE k == send[m].old
             n == [inst[k] EXCEPT !.st = "open", !.queue = <<m>>, !.seq = 1]
  <2>1. k \in Inst /\ inst' = [inst EXCEPT ![k] = n]
    BY <1>0, <1>6 DEF BootOk
  <2>2. n.why = inst[k].why
    BY <1>0, <2>1, WhyKept
  <2> HIDE DEF n, k
  <2> QED
    BY <2>1, <2>2, OneWaits
<1>7. ASSUME NEW m \in Sender, BootFails(m) PROVE Waits
  <2> DEFINE k == send[m].old
             n == [inst[k] EXCEPT !.st = "gone"]
  <2>1. k \in Inst /\ inst' = [inst EXCEPT ![k] = n]
    BY <1>0, <1>7 DEF BootFails
  <2>2. n.why = inst[k].why
    BY <1>0, <2>1, WhyKept
  <2> HIDE DEF n, k
  <2> QED
    BY <2>1, <2>2, OneWaits
<1>8. ASSUME NEW k \in Inst, DetachedResult(k) \/ QueryEnds(k) \/ Teardown(k) PROVE Waits
  <2> DEFINE q == Tail(inst[k].queue)
             t == IF k = cur THEN "ended" ELSE "gone"
             a == [inst[k] EXCEPT !.queue = q]
             b == [inst[k] EXCEPT !.st = t, !.run = FALSE]
             c == [inst[k] EXCEPT !.st = "gone"]
  <2>1. inst' \in {[inst EXCEPT ![k] = a], [inst EXCEPT ![k] = b], [inst EXCEPT ![k] = c]}
    BY <1>8 DEF DetachedResult, QueryEnds, Teardown
  <2>2. a.why = inst[k].why /\ b.why = inst[k].why /\ c.why = inst[k].why
    BY <1>0, WhyKept
  <2> HIDE DEF a, b, c
  <2> QED
    BY <2>1, <2>2, OneWaits
<1>9. ASSUME NEW k \in Inst, IdleFires(k) \/ Reload(k) PROVE Waits
  <2>1. inst' = [inst EXCEPT ![k] = Close(inst[k], "idle")] \/ inst' = [inst EXCEPT ![k] = Close(inst[k], "asked")]
    BY <1>9 DEF IdleFires, Reload
  <2> QED
    BY <1>c, <2>1
<1>10. ASSUME NEW k \in Inst, NEW b \in BOOLEAN, Result(k, b) \/ ResultStreamLost(k, b) PROVE Waits
  <2>1. Running(k) /\ inst[k].queue # <<>>
    BY <1>10 DEF Result, ResultStreamLost
  <2>2. PICK x : x = TurnEnded(k)
    OBVIOUS
  <2>3. x \in Instance /\ x.queue = Rest(k) /\ x.why = inst[k].why
    <3>1. PICK q : q = Rest(k)
      OBVIOUS
    <3>2. PICK u : u = IF inst[k].evolve THEN FALSE ELSE inst[k].run
      OBVIOUS
    <3>3. x = [inst[k] EXCEPT !.queue = q, !.check = FALSE, !.run = u]
      BY <2>2, <3>1, <3>2 DEF TurnEnded
    <3>4. x.why = inst[k].why
      BY <1>0, <3>3, ZenonT(60) DEF Instance
    <3> QED
      BY <2>1, <2>2, <3>4, TurnEndedIs
  <2> DEFINE n == [x EXCEPT !.evolve = FALSE]
  <2>4. n \in Instance /\ n.why = x.why /\ n.queue = x.queue
    BY <2>3 DEF Instance
  <2>5. \E y : inst' = [inst EXCEPT ![k] = y] /\ \/ y \in {n, x, Close(x, "stream")}
                                                 \/ y \in {Close(n, "config"), Close(x, "config")} /\ Rest(k) = <<>>
    BY <1>10, <2>2 DEF Result, ResultStreamLost, DeferredReload
  <2> HIDE DEF n
  <2>6. /\ Close(x, "stream").why = "stream"
        /\ Close(n, "config").queue = Rest(k) /\ Close(x, "config").queue = Rest(k)
    BY <2>3, <2>4, Closes
  <2> QED
    BY <2>3, <2>4, <2>5, <2>6, OneWaits
<1>11. ASSUME NEW s \in starting, CheckStarts(s) PROVE Waits
  <2> DEFINE i == inst[s.of]
             q == Append(i.queue, Check)
             e == i.seq + 1
             d == IF i.st = "ended" THEN i.dead + 1 ELSE i.dead
             n == [i EXCEPT !.queue = q, !.seq = e, !.evolve = TRUE, !.check = TRUE, !.run = TRUE, !.dead = d]
  <2>1. s.of \in Inst /\ (UNCHANGED inst \/ inst' = [inst EXCEPT ![s.of] = n])
    BY <1>0, <1>11 DEF CheckStarts
  <2>2. n.why = inst[s.of].why
    BY <1>0, <2>1, WhyKept
  <2> HIDE DEF n, i
  <2> QED
    BY <1>u, <2>1, <2>2, OneWaits
<1>12. ASSUME NEW m \in Sender, Ensured(m) \/ ReadSession(m) PROVE Waits
  BY <1>12, <1>u DEF Ensured, ReadSession
<1>13. ASSUME ConfigChanges \/ \E s \in starting : CheckRefused(s) PROVE Waits
  BY <1>13, <1>u DEF ConfigChanges, CheckRefused
<1>14. ASSUME UNCHANGED lsVars PROVE Waits
  BY <1>14, <1>u DEF lsVars
<1> HIDE DEF Waits
<1>16. ASSUME \E m \in Sender : \/ Ensure(m) \/ Ensured(m) \/ ReadSession(m) \/ EnterSession(m)
                                  \/ ExitTimesOut(m) \/ BootOk(m) \/ BootFails(m)
       PROVE  Waits
  BY <1>3, <1>4, <1>5, <1>6, <1>7, <1>12, <1>16
<1>17. ASSUME \E k \in Inst : \/ DetachedResult(k) \/ IdleFires(k) \/ Reload(k) \/ QueryEnds(k) \/ Teardown(k)
                                \/ \E b \in BOOLEAN : Result(k, b) \/ ResultStreamLost(k, b)
       PROVE  Waits
  BY <1>8, <1>9, <1>10, <1>17
<1>18. ASSUME \E s \in starting : CheckStarts(s) \/ CheckRefused(s) PROVE Waits
  BY <1>11, <1>13, <1>18
<1>19. Waits
  BY <1>1, <1>2, <1>13, <1>14, <1>16, <1>17, <1>18 DEF LsNext
<1> QED
  BY <1>19 DEF Waits

\* The invariant holds at first,
LEMMA LsStart == LsInit => LsInv
<1> SUFFICES ASSUME LsInit PROVE LsInv
  OBVIOUS
<1> USE LiveAssumption
<1>1. NoInst \in Instance /\ NoSend \in Sending
  <2>1. <<>> \in Seq(Sender \cup {Check}) /\ 0 \in 0..MaxInst
    OBVIOUS
  <2> QED
    BY <2>1 DEF NoInst, NoSend, Instance, Sending
<1>2. LsTypeOK
  BY <1>1 DEF LsInit, LsTypeOK
<1>3. /\ \A k \in Inst : inst[k] = NoInst
      /\ \A m \in Sender : send[m] = NoSend
  BY DEF LsInit
<1>9. /\ \A k \in Inst : ~inst[k].check /\ ~inst[k].run /\ inst[k].st = "none" /\ inst[k].queue = <<>>
      /\ \A m \in Sender : send[m].pc = "idle"
      /\ cur = 0
  BY <1>3 DEF NoInst, NoSend, LsInit
<1>4. InstancesOK
  BY <1>9 DEF InstancesOK, InstanceOK
<1>5. BootsAreSent
  BY <1>9 DEF BootsAreSent
<1>6. CheckRunsAlone
  BY <1>9 DEF CheckRunsAlone
<1>7. ConfigsKept /\ RunsUnderItsConfig
  <2>1. \A m \in UMsg : send[m].fp = 0 /\ send[m].pc = "idle"
    BY <1>3 DEF NoSend, Sender
  <2>2. config.now = 0 /\ config.desired = 0
    BY DEF LsInit
  <2> QED
    BY <2>1, <2>2 DEF ConfigsKept, RunsUnderItsConfig, Went
<1>8. RunsAreEnded
  <2>1. {k \in Inst : inst[k].run} = {}
    BY <1>9
  <2>2. runs.opened = 0 /\ runs.ended = 0
    BY DEF LsInit
  <2>3. Cardinality({k \in Inst : inst[k].run}) = 0
    BY <2>1, FS_EmptySet
  <2> QED
    BY <1>9, <2>2, <2>3 DEF RunsAreEnded
<1> QED
  BY <1>2, <1>4, <1>5, <1>6, <1>7, <1>8 DEF LsInv

\* and every step keeps it.
LEMMA LsStep == LsInv /\ [LsNext]_lsVars => LsInv'
<1> SUFFICES ASSUME LsInv, [LsNext]_lsVars PROVE LsInv'
  OBVIOUS
<1> USE DEF LsInv
<1>1. InstancesMove
  BY InstancesStep
<1>2. LsRest' /\ BootsAreSent'
  BY <1>1, SendsStep
<1>3. CurMoves
  BY CurStep
<1>4. LsTypeOK' /\ InstancesOK' /\ CheckRunsAlone'
  BY <1>1, <1>2, <1>3, ChecksStep
<1>5. ConfigMoves
  BY ConfigStep
<1>6. RunsMove /\ UNCHANGED onNode
  BY RunsStep
<1>7. ConfigsKept' /\ RunsUnderItsConfig'
  BY <1>1, <1>3, <1>4, <1>5, <1>6, ConfigsStep
<1>8. RunsAreEnded'
  BY <1>4, <1>6, RunsEndedStep
<1> QED
  BY <1>2, <1>4, <1>7, <1>8

\* The types of the agent manager's sessions hold.
THEOREM LiveSessionTyped == LsSpec => []LsTypeOK
<1>1. LsInv => LsTypeOK
  BY DEF LsInv
<1> QED
  BY <1>1, LsStart, LsStep, PTL DEF LsSpec

\* Turns keep apart, however sends, boots, reloads and checks interleave: no input
\* joins a check, no turn runs in a session older than what its config was found
\* current in, every check's run is ended once, and a changed config closes no
\* input that is outstanding.
THEOREM TurnsAreKeptApart == LsSpec => TurnsKeepApart
<1>1. LsInv => CheckRunsAlone /\ RunsUnderItsConfig /\ RunsAreEnded
  BY DEF LsInv
<1>2. LsInv /\ [LsNext]_lsVars
        => [\A k \in Inst : inst[k].why # "config" /\ inst'[k].why = "config" => inst'[k].queue = <<>>]_lsVars
  BY WaitsStep DEF LsInv, ConfigWaits
<1> QED
  BY <1>1, <1>2, LsStart, LsStep, PTL DEF LsSpec, TurnsKeepApart, ConfigReloadWaits

-----------------------------------------------------------------------------
(***************************************************************************)
(* PassBudget: sums over the runs                                          *)
(***************************************************************************)
\* The sums of F over the subsets of T, as MapThenSumSet makes them.
Pick(s) == CHOOSE x \in s : TRUE
SumsUpTo(n, F, T, g) ==
    /\ g = [s \in SUBSET T |-> g[s]]
    /\ \A s \in SUBSET T : Cardinality(s) <= n
          => g[s] = IF s = {} THEN 0 ELSE F[Pick(s)] + g[s \ {Pick(s)}]
SumsOf(F, T, g) == g = [s \in SUBSET T |-> IF s = {} THEN 0 ELSE F[Pick(s)] + g[s \ {Pick(s)}]]

\* A set of numbers with 0 and every successor has all of them.
LEMMA NumbersFollow ==
    ASSUME NEW T, 0 \in T, \A n \in Nat : n \in T => n + 1 \in T
    PROVE  \A n \in Nat : n \in T
<1> SUFFICES ASSUME Nat \ T # {} PROVE FALSE
  OBVIOUS
<1>1. IsWellFoundedOn(OpToRel(<, Nat), Nat)
  BY NatLessThanWellFounded
<1>2. PICK x \in Nat \ T : \A y \in Nat \ T : ~(<<y, x>> \in OpToRel(<, Nat))
  BY <1>1, WFMin
<1>3. \A y \in Nat \ T : ~(y < x)
  BY <1>2 DEF OpToRel
<1>5. x \in Nat /\ x # 0
  BY <1>2
<1>4. x - 1 \in Nat /\ x - 1 < x /\ (x - 1) + 1 = x
  BY <1>5
<1> QED
  BY <1>2, <1>3, <1>4

\* Taking an element out of a finite set.
LEMMA OneLess ==
    ASSUME NEW T, IsFiniteSet(T), NEW s \in SUBSET T, NEW x \in s
    PROVE  /\ IsFiniteSet(s) /\ Cardinality(s) \in Nat /\ Cardinality(s \ {x}) = Cardinality(s) - 1
           /\ Cardinality(s \ {x}) \in Nat /\ s \ {x} \in SUBSET T
<1>1. IsFiniteSet(s)
  BY FS_Subset
<1>2. IsFiniteSet(s \ {x}) /\ Cardinality(s \ {x}) = Cardinality(s) - 1
  BY <1>1, FS_RemoveElement
<1> QED
  BY <1>1, <1>2, FS_CardinalityType

\* What is picked of a set is in it.
LEMMA Picks == ASSUME NEW s, s # {} PROVE Pick(s) \in s
  BY DEF Pick

\* The sums up to n elements exist,
LEMMA SumsStep ==
    ASSUME NEW T, IsFiniteSet(T), NEW F, NEW n \in Nat, NEW g, SumsUpTo(n, F, T, g)
    PROVE  \E h : SumsUpTo(n + 1, F, T, h)
<1> DEFINE h == [s \in SUBSET T |-> IF Cardinality(s) = n + 1 THEN F[Pick(s)] + g[s \ {Pick(s)}] ELSE g[s]]
<1>1. ASSUME NEW s \in SUBSET T, Cardinality(s) <= n + 1
      PROVE  h[s] = IF s = {} THEN 0 ELSE F[Pick(s)] + h[s \ {Pick(s)}]
  <2>1. CASE s = {}
    <3>2. Cardinality(s) = 0
      BY <2>1, FS_EmptySet
    <3>3. Cardinality(s) <= n
      BY <3>2
    <3>4. g[s] = IF s = {} THEN 0 ELSE F[Pick(s)] + g[s \ {Pick(s)}]
      BY <3>3 DEF SumsUpTo
    <3>1. Cardinality(s) = 0 /\ g[s] = 0
      BY <2>1, <3>2, <3>4
    <3> QED
      BY <2>1, <3>1
  <2>2. CASE s # {}
    <3>1. Pick(s) \in s
      BY <2>2, Picks
    <3>2. /\ Cardinality(s) \in Nat /\ Cardinality(s \ {Pick(s)}) = Cardinality(s) - 1
          /\ s \ {Pick(s)} \in SUBSET T
      BY <3>1, OneLess
    <3>3. h[s \ {Pick(s)}] = g[s \ {Pick(s)}]
      BY <1>1, <3>2
    <3>5. CASE Cardinality(s) = n + 1
      BY <2>2, <3>3, <3>5
    <3>6. CASE Cardinality(s) # n + 1
      <4>1. Cardinality(s) <= n
        BY <1>1, <3>2, <3>6
      <4>2. h[s] = g[s] /\ g[s] = F[Pick(s)] + g[s \ {Pick(s)}]
        BY <2>2, <3>6, <4>1 DEF SumsUpTo
      <4> QED
        BY <2>2, <3>3, <4>2
    <3> QED
      BY <3>5, <3>6
  <2> QED
    BY <2>1, <2>2
<1>2. h = [s \in SUBSET T |-> h[s]]
  OBVIOUS
<1> HIDE DEF h
<1>3. SumsUpTo(n + 1, F, T, h)
  BY <1>1, <1>2 DEF SumsUpTo
<1> QED
  BY <1>3

\* and so those of all.
LEMMA SumsExist == ASSUME NEW T, IsFiniteSet(T), NEW F PROVE \E g : SumsOf(F, T, g)
<1> DEFINE U == {n \in Nat : \E g : SumsUpTo(n, F, T, g)}
<1>1. 0 \in U
  <2> DEFINE g == [s \in SUBSET T |-> 0]
  <2>1. \A s \in SUBSET T : Cardinality(s) <= 0 => s = {}
    <3> SUFFICES ASSUME NEW s \in SUBSET T, Cardinality(s) <= 0 PROVE s = {}
      OBVIOUS
    <3>1. IsFiniteSet(s)
      BY FS_Subset
    <3> QED
      BY <3>1, FS_EmptySet, FS_CardinalityType
  <2>2. g = [s \in SUBSET T |-> g[s]] /\ \A s \in SUBSET T : g[s] = 0
    OBVIOUS
  <2> HIDE DEF g
  <2>3. SumsUpTo(0, F, T, g)
    BY <2>1, <2>2 DEF SumsUpTo
  <2> QED
    BY <2>3
<1>2. ASSUME NEW n \in Nat, n \in U PROVE n + 1 \in U
  <2>1. PICK g : SumsUpTo(n, F, T, g)
    BY <1>2
  <2>2. \E h : SumsUpTo(n + 1, F, T, h)
    BY <2>1, SumsStep
  <2> QED
    BY <2>2
<1>3. Cardinality(T) \in U
  <2> HIDE DEF U
  <2> QED
    BY <1>1, <1>2, NumbersFollow, FS_CardinalityType
<1>4. \A s \in SUBSET T : Cardinality(s) <= Cardinality(T)
  BY FS_Subset
<1>5. PICK g : SumsUpTo(Cardinality(T), F, T, g)
  BY <1>3
<1>6. /\ g = [s \in SUBSET T |-> g[s]]
      /\ \A s \in SUBSET T : g[s] = IF s = {} THEN 0 ELSE F[Pick(s)] + g[s \ {Pick(s)}]
  BY <1>4, <1>5 DEF SumsUpTo
<1> QED
  BY <1>6 DEF SumsOf

\* The sum of one set more, however its elements are picked.
LEMMA SumsTake ==
    ASSUME NEW T, IsFiniteSet(T), NEW F, \A x \in T : F[x] \in Nat, NEW g, SumsOf(F, T, g)
    PROVE  /\ g[{}] = 0
           /\ \A s \in SUBSET T : g[s] \in Nat /\ \A x \in s : g[s] = F[x] + g[s \ {x}]
<1>0. \A s \in SUBSET T : g[s] = IF s = {} THEN 0 ELSE F[Pick(s)] + g[s \ {Pick(s)}]
  <2>1. g = [s \in SUBSET T |-> IF s = {} THEN 0 ELSE F[Pick(s)] + g[s \ {Pick(s)}]]
    BY DEF SumsOf
  <2> QED
    BY <2>1
<1>1. g[{}] = 0
  BY <1>0
<1> DEFINE Fine(s) == g[s] \in Nat /\ \A x \in s : g[s] = F[x] + g[s \ {x}]
           U == {n \in Nat : \A s \in SUBSET T : Cardinality(s) <= n => Fine(s)}
<1>2. 0 \in U
  <2>1. \A s \in SUBSET T : Cardinality(s) <= 0 => s = {}
    BY FS_Subset, FS_EmptySet, FS_CardinalityType
  <2>2. Fine({})
    BY <1>1
  <2> HIDE DEF Fine
  <2> QED
    BY <2>1, <2>2
<1>3. ASSUME NEW n \in Nat, n \in U PROVE n + 1 \in U
  <2>1. SUFFICES ASSUME NEW s \in SUBSET T, Cardinality(s) <= n + 1 PROVE Fine(s)
    OBVIOUS
  <2>2. CASE s = {}
    BY <1>1, <2>2
  <2>3. CASE s # {}
    <3>1. PICK c \in s : c = Pick(s)
      BY <2>3, Picks
    <3>2. g[s] = F[c] + g[s \ {c}]
      BY <1>0, <2>3, <3>1
    <3>3. ASSUME NEW x \in s PROVE Fine(s \ {x}) /\ F[x] \in Nat /\ \A y \in s \ {x} : Fine((s \ {x}) \ {y})
      <4>1. s \ {x} \in SUBSET T /\ Cardinality(s \ {x}) <= n
        BY <2>1, OneLess
      <4>2. ASSUME NEW y \in s \ {x} PROVE Fine((s \ {x}) \ {y})
        <5>1. (s \ {x}) \ {y} \in SUBSET T /\ Cardinality((s \ {x}) \ {y}) <= n
          BY <4>1, OneLess
        <5> HIDE DEF Fine
        <5> QED
          BY <1>3, <5>1
      <4> HIDE DEF Fine
      <4> QED
        BY <1>3, <4>1, <4>2
    <3>4. ASSUME NEW x \in s PROVE g[s] = F[x] + g[s \ {x}]
      <4>1. CASE x = c
        BY <3>2, <4>1
      <4>2. CASE x # c
        <5>1. x \in s \ {c} /\ c \in s \ {x} /\ (s \ {c}) \ {x} = (s \ {x}) \ {c}
          BY <4>2
        <5>2. PICK r : r = (s \ {x}) \ {c}
          OBVIOUS
        <5>6. (s \ {c}) \ {x} = r /\ c \in s /\ x \in s
          BY <5>1, <5>2, <3>1
        <5>7. Fine(s \ {c}) /\ Fine(s \ {x}) /\ F[x] \in Nat /\ F[c] \in Nat /\ Fine((s \ {x}) \ {c})
          <6> HIDE DEF Fine
          <6> QED
            BY <3>3, <5>1, <5>6
        <5>3. g[s \ {c}] = F[x] + g[(s \ {c}) \ {x}]
          BY <5>1, <5>7
        <5>4. g[s \ {x}] = F[c] + g[(s \ {x}) \ {c}]
          BY <5>1, <5>7
        <5>5. g[r] \in Nat
          BY <5>2, <5>7
        <5>8. g[s \ {c}] = F[x] + g[r]
          BY <5>3, <5>6
        <5>9. g[s \ {x}] = F[c] + g[r]
          BY <5>2, <5>4
        <5>10. F[c] + (F[x] + g[r]) = F[x] + (F[c] + g[r])
          BY <5>5, <5>7
        <5> QED
          BY <3>2, <5>8, <5>9, <5>10
      <4> QED
        BY <4>1, <4>2
    <3>5. g[s] \in Nat
      <4>1. Fine(s \ {c}) /\ F[c] \in Nat
        <5> HIDE DEF Fine
        <5> QED
          BY <3>1, <3>3
      <4> QED
        BY <3>2, <4>1
    <3> QED
      BY <3>4, <3>5
  <2> QED
    BY <2>2, <2>3
<1>4. ASSUME NEW s \in SUBSET T PROVE Fine(s)
  <2>1. Cardinality(s) \in Nat /\ Cardinality(s) <= Cardinality(s)
    BY FS_Subset, FS_CardinalityType
  <2>2. Cardinality(s) \in U
    <3> HIDE DEF U
    <3> QED
      BY <1>2, <1>3, <2>1, NumbersFollow
  <2> HIDE DEF Fine
  <2> QED
    BY <2>1, <2>2
<1> QED
  BY <1>1, <1>4

\* The sums over a smaller set are the same.
LEMMA SumsAgree ==
    ASSUME NEW T, IsFiniteSet(T), NEW S \in SUBSET T, NEW F, NEW g, NEW h, SumsOf(F, T, g), SumsOf(F, S, h)
    PROVE  h[S] = g[S]
<1>0. /\ \A s \in SUBSET T : g[s] = IF s = {} THEN 0 ELSE F[Pick(s)] + g[s \ {Pick(s)}]
      /\ \A s \in SUBSET S : h[s] = IF s = {} THEN 0 ELSE F[Pick(s)] + h[s \ {Pick(s)}]
  <2>1. g = [s \in SUBSET T |-> IF s = {} THEN 0 ELSE F[Pick(s)] + g[s \ {Pick(s)}]]
    BY DEF SumsOf
  <2>2. h = [s \in SUBSET S |-> IF s = {} THEN 0 ELSE F[Pick(s)] + h[s \ {Pick(s)}]]
    BY DEF SumsOf
  <2>3. \A s \in SUBSET T : g[s] = IF s = {} THEN 0 ELSE F[Pick(s)] + g[s \ {Pick(s)}]
    BY <2>1
  <2>4. \A s \in SUBSET S : h[s] = IF s = {} THEN 0 ELSE F[Pick(s)] + h[s \ {Pick(s)}]
    BY <2>2
  <2> QED
    BY <2>3, <2>4
<1> DEFINE U == {n \in Nat : \A s \in SUBSET S : Cardinality(s) = n => h[s] = g[s]}
<1>1. 0 \in U
  <2>1. \A s \in SUBSET S : Cardinality(s) = 0 => s = {}
    BY FS_Subset, FS_EmptySet
  <2> QED
    BY <1>0, <2>1
<1>2. ASSUME NEW n \in Nat, n \in U PROVE n + 1 \in U
  <2>1. SUFFICES ASSUME NEW s \in SUBSET S, Cardinality(s) = n + 1 PROVE h[s] = g[s]
    OBVIOUS
  <2>2. s # {} /\ s \in SUBSET T
    BY <2>1, FS_EmptySet
  <2>3. PICK c \in s : c = Pick(s)
    BY <2>2, Picks
  <2>4. Cardinality(s \ {c}) = n /\ s \ {c} \in SUBSET S
    BY <2>1, <2>2, OneLess
  <2>5. h[s \ {c}] = g[s \ {c}]
    BY <1>2, <2>4
  <2> QED
    BY <1>0, <2>2, <2>3, <2>5
<1>3. Cardinality(S) \in Nat
  BY FS_Subset, FS_CardinalityType
<1>4. Cardinality(S) \in U
  <2> HIDE DEF U
  <2> QED
    BY <1>1, <1>2, <1>3, NumbersFollow
<1> QED
  BY <1>4

\* The sums of F over subsets of the runs.
Sums(F) == CHOOSE g : SumsOf(F, BRun, g)

LEMMA SumIs ==
    ASSUME NEW F, NEW S \in SUBSET BRun, NEW h, h = CHOOSE f : SumsOf(F, S, f)
    PROVE  h[S] = Sums(F)[S] /\ SumsOf(F, BRun, Sums(F))
<1>1. IsFiniteSet(BRun) /\ IsFiniteSet(S)
  BY BudgetAssumption, FS_Subset
<1>2. SumsOf(F, BRun, Sums(F))
  BY <1>1, SumsExist DEF Sums
<1>3. SumsOf(F, S, h)
  BY <1>1, SumsExist
<1> QED
  BY <1>1, <1>2, <1>3, SumsAgree

LEMMA EstSum == \A S \in SUBSET BRun : MapThenSumSet(Est, S) = Sums(Estimate)[S]
<1> SUFFICES ASSUME NEW S \in SUBSET BRun PROVE MapThenSumSet(Est, S) = Sums(Estimate)[S]
  OBVIOUS
<1> DEFINE h == CHOOSE f : SumsOf(Estimate, S, f)
<1>1. MapThenSumSet(Est, S) = h[S]
  BY DEF MapThenSumSet, MapThenFoldSet, Est, SumsOf, Pick
<1> HIDE DEF h
<1>2. h = CHOOSE f : SumsOf(Estimate, S, f)
  BY DEF h
<1> QED
  BY <1>1, <1>2, SumIs

\* The runs' sums: none, and one run more.
Weights(F) == \A x \in BRun : F[x] \in Nat
Total(F, S) == Sums(F)[S]

LEMMA TotalNone == ASSUME NEW F, Weights(F) PROVE Total(F, {}) = 0
<1>1. IsFiniteSet(BRun) /\ SumsOf(F, BRun, Sums(F))
  BY BudgetAssumption, SumsExist DEF Sums
<1> QED
  BY <1>1, SumsTake DEF Total, Weights

LEMMA TotalTake ==
    ASSUME NEW F, Weights(F), NEW S \in SUBSET BRun
    PROVE  /\ Total(F, S) \in Nat
           /\ \A x \in S : Total(F, S) = F[x] + Total(F, S \ {x}) /\ Total(F, S \ {x}) \in Nat /\ F[x] \in Nat
<1>1. IsFiniteSet(BRun) /\ SumsOf(F, BRun, Sums(F))
  BY BudgetAssumption, SumsExist DEF Sums
<1>2. \A s \in SUBSET BRun : Sums(F)[s] \in Nat /\ \A x \in s : Sums(F)[s] = F[x] + Sums(F)[s \ {x}]
  <2>1. \A x \in BRun : F[x] \in Nat
    BY DEF Weights
  <2>2. PICK g : g = Sums(F)
    OBVIOUS
  <2>3. SumsOf(F, BRun, g) /\ IsFiniteSet(BRun)
    BY <1>1, <2>2
  <2>4. \A s \in SUBSET BRun : g[s] \in Nat /\ \A x \in s : g[s] = F[x] + g[s \ {x}]
    BY <2>1, <2>3, SumsTake
  <2> QED
    BY <2>2, <2>4
<1>3. \A x \in S : S \ {x} \in SUBSET BRun /\ F[x] \in Nat
  BY DEF Weights
<1> QED
  BY <1>2, <1>3 DEF Total

LEMMA CostSum == SpentOn = Total([r \in BRun |-> ledger[r].cost], BRun)
<1> DEFINE F == [r \in BRun |-> ledger[r].cost]
           h == CHOOSE f : SumsOf(F, BRun, f)
<1>1. SpentOn = h[BRun]
  BY DEF SpentOn, MapThenSumSet, MapThenFoldSet, Cost, SumsOf, Pick
<1> QED
  BY <1>1 DEF Total, Sums

\* What the runs spent.
AllSpent == LET Spent(r) == pass[r].spent IN MapThenSumSet(Spent, BRun)
LEMMA SpentSum == AllSpent = Total([r \in BRun |-> pass[r].spent], BRun)
<1> DEFINE F == [r \in BRun |-> pass[r].spent]
           h == CHOOSE f : SumsOf(F, BRun, f)
<1>1. AllSpent = h[BRun]
  BY DEF AllSpent, MapThenSumSet, MapThenFoldSet, SumsOf, Pick
<1> QED
  BY <1>1 DEF Total, Sums

\* Induction over the subsets of the runs, by their size: A(S) is S \in A.
LEMMA SubsetsFollow ==
    ASSUME NEW A, {} \in A,
           \A S \in SUBSET BRun : \A x \in S : S \ {x} \in A => S \in A
    PROVE  \A S \in SUBSET BRun : S \in A
<1> DEFINE U == {n \in Nat : \A S \in SUBSET BRun : Cardinality(S) = n => S \in A}
<1>0. IsFiniteSet(BRun)
  BY BudgetAssumption
<1>1. 0 \in U
  <2>1. \A S \in SUBSET BRun : Cardinality(S) = 0 => S = {}
    BY <1>0, FS_Subset, FS_EmptySet
  <2> QED
    BY <2>1
<1>2. ASSUME NEW n \in Nat, n \in U PROVE n + 1 \in U
  <2>1. SUFFICES ASSUME NEW S \in SUBSET BRun, Cardinality(S) = n + 1 PROVE S \in A
    OBVIOUS
  <2>2. S # {}
    BY <2>1, FS_EmptySet
  <2>3. PICK c \in S : TRUE
    BY <2>2
  <2>4. Cardinality(S \ {c}) = n /\ S \ {c} \in SUBSET BRun
    BY <1>0, <2>1, OneLess
  <2>5. S \ {c} \in A
    BY <1>2, <2>4
  <2> QED
    BY <2>3, <2>5
<1>3. ASSUME NEW S \in SUBSET BRun PROVE S \in A
  <2>1. Cardinality(S) \in Nat
    BY <1>0, FS_Subset, FS_CardinalityType
  <2>2. Cardinality(S) \in U
    <3> HIDE DEF U
    <3> QED
      BY <1>1, <1>2, <2>1, NumbersFollow
  <2> QED
    BY <2>2
<1> QED
  BY <1>3

\* Sums compare as what is summed does.
LEMMA TotalBelow ==
    ASSUME NEW F, Weights(F), NEW G, Weights(G), NEW S \in SUBSET BRun, \A x \in S : F[x] <= G[x]
    PROVE  Total(F, S) <= Total(G, S)
<1> DEFINE A == {R \in SUBSET BRun : R \in SUBSET S => Total(F, R) <= Total(G, R)}
<1>1. {} \in A
  BY TotalNone
<1>2. ASSUME NEW R \in SUBSET BRun, NEW x \in R, R \ {x} \in A PROVE R \in A
  <2>1. SUFFICES ASSUME R \in SUBSET S PROVE Total(F, R) <= Total(G, R)
    OBVIOUS
  <2>2. Total(F, R \ {x}) <= Total(G, R \ {x}) /\ F[x] <= G[x]
    BY <1>2, <2>1
  <2>3. Total(F, R) = F[x] + Total(F, R \ {x}) /\ Total(F, R \ {x}) \in Nat /\ F[x] \in Nat
    BY TotalTake
  <2>4. Total(G, R) = G[x] + Total(G, R \ {x}) /\ Total(G, R \ {x}) \in Nat /\ G[x] \in Nat
    BY TotalTake
  <2> QED
    BY <2>2, <2>3, <2>4
<1>3. \A R \in SUBSET BRun : R \in A
  <2> HIDE DEF A
  <2> QED
    BY <1>1, <1>2, SubsetsFollow
<1> QED
  BY <1>3

\* The sum of two weights is the sum of their sums.
LEMMA TotalPlus ==
    ASSUME NEW F, Weights(F), NEW G, Weights(G), NEW H, \A x \in BRun : H[x] = F[x] + G[x]
    PROVE  Weights(H) /\ \A S \in SUBSET BRun : Total(H, S) = Total(F, S) + Total(G, S)
<1> DEFINE A == {R \in SUBSET BRun : Total(H, R) = Total(F, R) + Total(G, R)}
<1>0. Weights(H)
  BY DEF Weights
<1>1. {} \in A
  BY <1>0, TotalNone
<1>2. ASSUME NEW R \in SUBSET BRun, NEW x \in R, R \ {x} \in A PROVE R \in A
  <2>2. Total(H, R \ {x}) = Total(F, R \ {x}) + Total(G, R \ {x}) /\ H[x] = F[x] + G[x]
    BY <1>2
  <2>3. /\ Total(F, R) = F[x] + Total(F, R \ {x}) /\ Total(F, R \ {x}) \in Nat /\ F[x] \in Nat
        /\ Total(G, R) = G[x] + Total(G, R \ {x}) /\ Total(G, R \ {x}) \in Nat /\ G[x] \in Nat
        /\ Total(H, R) = H[x] + Total(H, R \ {x})
    BY <1>0, TotalTake
  <2> QED
    BY <2>2, <2>3
<1>3. \A R \in SUBSET BRun : R \in A
  <2> HIDE DEF A
  <2> QED
    BY <1>1, <1>2, SubsetsFollow
<1> QED
  BY <1>0, <1>3

\* A weight of M on the runs of X, nothing elsewhere.
LEMMA TotalOf ==
    ASSUME NEW M \in Nat, NEW X \in SUBSET BRun, NEW F, \A x \in BRun : F[x] = IF x \in X THEN M ELSE 0
    PROVE  Weights(F) /\ Total(F, BRun) = M * Cardinality(X)
<1> DEFINE A == {R \in SUBSET BRun : Total(F, R) = M * Cardinality(R \cap X)}
<1>0. Weights(F) /\ IsFiniteSet(BRun)
  BY BudgetAssumption DEF Weights
<1>1. {} \in A
  BY <1>0, TotalNone, FS_EmptySet
<1>2. ASSUME NEW R \in SUBSET BRun, NEW x \in R, R \ {x} \in A PROVE R \in A
  <2>1. Total(F, R \ {x}) = M * Cardinality((R \ {x}) \cap X) /\ Total(F, R) = F[x] + Total(F, R \ {x})
    BY <1>0, <1>2, TotalTake
  <2>2. CASE x \in X
    <3>1. (R \ {x}) \cap X = (R \cap X) \ {x} /\ x \in R \cap X /\ R \cap X \in SUBSET BRun
      BY <2>2
    <3>2. PICK k \in Nat, l \in Nat : k = Cardinality(R \cap X) /\ l = Cardinality((R \cap X) \ {x}) /\ l = k - 1
      BY <1>0, <3>1, OneLess
    <3>3. M * k = M + M * l
      BY <3>2
    <3> QED
      BY <2>1, <2>2, <3>1, <3>2, <3>3
  <2>3. CASE x \notin X
    <3>1. (R \ {x}) \cap X = R \cap X /\ F[x] = 0 /\ Total(F, R \ {x}) \in Nat
      BY <1>0, <2>3, TotalTake
    <3>2. Total(F, R) = Total(F, R \ {x})
      BY <2>1, <3>1
    <3> QED
      BY <2>1, <3>1, <3>2
  <2> QED
    BY <2>2, <2>3
<1>3. \A R \in SUBSET BRun : R \in A
  <2> HIDE DEF A
  <2> QED
    BY <1>1, <1>2, SubsetsFollow
<1>4. BRun \cap X = X
  OBVIOUS
<1> QED
  BY <1>0, <1>3, <1>4

\* Weights that differ in one run.
LEMMA TotalMoves ==
    ASSUME NEW F, Weights(F), NEW G, Weights(G), NEW r \in BRun, \A x \in BRun \ {r} : F[x] = G[x]
    PROVE  /\ Total(G, BRun) + F[r] = Total(F, BRun) + G[r]
           /\ Total(F, BRun) \in Nat /\ Total(G, BRun) \in Nat
<1> DEFINE R == BRun \ {r}
<1>1. R \in SUBSET BRun /\ BRun \in SUBSET BRun
  OBVIOUS
<1>2. \A x \in R : F[x] <= G[x] /\ G[x] <= F[x]
  BY DEF Weights
<1>3. Total(F, R) <= Total(G, R)
  BY <1>1, <1>2, TotalBelow
<1>4. Total(G, R) <= Total(F, R)
  BY <1>1, <1>2, TotalBelow
<1>5. Total(F, BRun) = F[r] + Total(F, R) /\ Total(F, R) \in Nat /\ F[r] \in Nat /\ Total(F, BRun) \in Nat
  BY <1>1, TotalTake
<1>6. Total(G, BRun) = G[r] + Total(G, R) /\ Total(G, R) \in Nat /\ G[r] \in Nat /\ Total(G, BRun) \in Nat
  BY <1>1, TotalTake
<1> HIDE DEF R
<1> QED
  BY <1>3, <1>4, <1>5, <1>6

\* Fewer runs, a smaller sum.
LEMMA TotalOfFewer ==
    ASSUME NEW F, Weights(F), NEW R \in SUBSET BRun, NEW S \in SUBSET R
    PROVE  Total(F, S) <= Total(F, R)
<1> DEFINE A == {Q \in SUBSET BRun : Total(F, Q \cap S) <= Total(F, Q)}
<1>1. {} \in A
  <2>1. {} \cap S = {}
    OBVIOUS
  <2> QED
    BY <2>1, TotalNone
<1>2. ASSUME NEW Q \in SUBSET BRun, NEW x \in Q, Q \ {x} \in A PROVE Q \in A
  <2>1. Total(F, (Q \ {x}) \cap S) <= Total(F, Q \ {x})
    BY <1>2
  <2>2. Total(F, Q) = F[x] + Total(F, Q \ {x}) /\ Total(F, Q \ {x}) \in Nat /\ F[x] \in Nat
    BY TotalTake
  <2>3. CASE x \in S
    <3>1. (Q \ {x}) \cap S = (Q \cap S) \ {x} /\ x \in Q \cap S /\ Q \cap S \in SUBSET BRun
      BY <2>3
    <3>2. Total(F, Q \cap S) = F[x] + Total(F, (Q \cap S) \ {x}) /\ Total(F, (Q \cap S) \ {x}) \in Nat
      BY <3>1, TotalTake
    <3>3. Total(F, (Q \cap S) \ {x}) <= Total(F, Q \ {x})
      BY <2>1, <3>1
    <3>4. Total(F, Q \cap S) <= Total(F, Q)
      BY <2>2, <3>2, <3>3
    <3> QED
      BY <3>4
  <2>4. CASE x \notin S
    <3>1. (Q \ {x}) \cap S = Q \cap S /\ Q \cap S \in SUBSET BRun
      BY <2>4
    <3>2. Total(F, Q \cap S) \in Nat /\ Total(F, Q \cap S) <= Total(F, Q \ {x})
      BY <2>1, <3>1, TotalTake
    <3>3. Total(F, Q \cap S) <= Total(F, Q)
      BY <2>2, <3>2
    <3> QED
      BY <3>3
  <2> QED
    BY <2>3, <2>4
<1>3. \A Q \in SUBSET BRun : Q \in A
  <2> HIDE DEF A
  <2> QED
    BY <1>1, <1>2, SubsetsFollow
<1>4. R \cap S = S
  OBVIOUS
<1> QED
  BY <1>3, <1>4

\* A turn costs MaxCost at most.
LEMMA MaxCostIs == MaxCost \in Nat \ {0} /\ \A c \in TurnCosts : c \in Nat \ {0} /\ c <= MaxCost
<1> DEFINE A == {S \in SUBSET TurnCosts : S # {} => \E m \in S : \A c \in S : c <= m}
           U == {n \in Nat : \A S \in SUBSET TurnCosts : Cardinality(S) = n => S \in A}
<1>0. IsFiniteSet(TurnCosts) /\ TurnCosts # {} /\ TurnCosts \subseteq Nat \ {0}
  BY BudgetAssumption
<1>1. 0 \in U
  <2>1. \A S \in SUBSET TurnCosts : Cardinality(S) = 0 => S = {}
    BY <1>0, FS_Subset, FS_EmptySet
  <2> QED
    BY <2>1
<1>2. ASSUME NEW n \in Nat, n \in U PROVE n + 1 \in U
  <2>1. SUFFICES ASSUME NEW S \in SUBSET TurnCosts, Cardinality(S) = n + 1 PROVE S \in A
    OBVIOUS
  <2>2. PICK c \in S : TRUE
    BY <2>1, FS_EmptySet
  <2>3. Cardinality(S \ {c}) = n /\ S \ {c} \in SUBSET TurnCosts
    <3>1. IsFiniteSet(TurnCosts)
      BY <1>0
    <3>2. Cardinality(S \ {c}) = Cardinality(S) - 1 /\ S \ {c} \in SUBSET TurnCosts
      BY <2>2, <3>1, OneLess
    <3> QED
      BY <2>1, <3>2
  <2>4. S \ {c} = {} \/ \E m \in S \ {c} : \A d \in S \ {c} : d <= m
    BY <1>2, <2>3
  <2>5. CASE S \ {c} = {}
    <3>1. \A d \in S : d = c /\ c \in Nat
      BY <1>0, <2>5
    <3> QED
      BY <2>2, <3>1
  <2>6. CASE \E m \in S \ {c} : \A d \in S \ {c} : d <= m
    <3>1. PICK m \in S \ {c} : \A d \in S \ {c} : d <= m
      BY <2>6
    <3>2. c \in Nat /\ m \in Nat /\ \A d \in S : d \in Nat
      BY <1>0
    <3>3. CASE c <= m
      <4>1. \A d \in S : d <= m
        BY <3>1, <3>3
      <4> QED
        BY <4>1
    <3>4. CASE ~(c <= m)
      <4>1. \A d \in S : d <= c
        BY <3>1, <3>2, <3>4
      <4> QED
        BY <4>1
    <3> QED
      BY <3>3, <3>4
  <2> QED
    BY <2>4, <2>5, <2>6
<1>3. TurnCosts \in A
  <2>1. Cardinality(TurnCosts) \in Nat
    BY <1>0, FS_CardinalityType
  <2>2. Cardinality(TurnCosts) \in U
    <3> HIDE DEF U
    <3> QED
      BY <1>1, <1>2, <2>1, NumbersFollow
  <2> QED
    BY <2>2
<1>4. \E m \in TurnCosts : \A c \in TurnCosts : c <= m
  BY <1>0, <1>3
<1>5. MaxCost \in TurnCosts /\ \A c \in TurnCosts : MaxCost >= c
  <2>1. MaxCost = CHOOSE m \in TurnCosts : \A c \in TurnCosts : m >= c
    BY DEF MaxCost, Max
  <2>2. \E m \in TurnCosts : \A c \in TurnCosts : m >= c
    BY <1>0, <1>4
  <2> QED
    BY <2>1, <2>2
<1> QED
  BY <1>0, <1>5

-----------------------------------------------------------------------------
(***************************************************************************)
(* PassBudget: one run and its row                                         *)
(***************************************************************************)
PassRec == [pc : {"idle", "may", "open", "going", "turning", "recorded", "settling", "over", "dead"},
            spent : Nat, turns : 0..TurnCap, how : {"ok", "stopped", "error"}, last : Nat,
            noted : BOOLEAN, slow : BOOLEAN]
RowRec == [out : {"none", "open", "ok", "skipped", "stopped", "error"}, cost : Nat]

AtWork == {"open", "going", "turning", "recorded", "settling"}
Knows(p) == ~p.slow /\ ~(p.how = "error" /\ p.last < p.spent)
\* The run has a turn its last reading of the ledger did not count.
Beyond(p) == p.turns > 0 /\ p.pc # "going"
\* It has one that its row does not show.
Unseen(r, p) == p.turns > 0 /\ (p.pc \in {"turning", "dead"} \/ (p.pc = "settling" /\ r \in CheckRun))
Going(p, l) == p.pc \in {"going", "turning", "recorded", "settling"} /\ l.out = "open"

\* Where a run may be before its first turn and after it, and its row then.
RunPaced(r, p, l) ==
    /\ p.turns = 0 => p.spent = 0 /\ p.pc \in {"idle", "may", "open", "going", "over", "dead"}
    /\ p.turns > 0 => p.pc \in {"going", "turning", "recorded", "settling", "over", "dead"}
    /\ p.pc \in {"turning", "recorded"} => r \in PassRun
    /\ p.pc = "going" /\ r \in CheckRun => p.turns = 0
    /\ p.pc \in {"idle", "may"} => l.out = "none"
    /\ p.pc \in AtWork => l.out \in {"open", "error"} /\ (~p.slow => l.out = "open")
    /\ l.out = "open" => p.pc \in AtWork \cup {"dead"}
    /\ p.pc \in {"idle", "may", "open", "going", "turning", "recorded"} => p.how = "ok"

\* What is on record of it.
RunPriced(r, p, l) ==
    /\ p.pc \in AtWork => l.cost > 0
    /\ p.pc = "dead" /\ p.spent > 0 => l.cost > 0
    /\ p.pc = "open" \/ (p.turns = 0 /\ l.out = "open") => l.cost = Estimate[r]
    /\ p.pc \in {"idle", "may", "open", "going", "recorded"} => p.last = p.spent
    /\ p.pc = "turning" => p.last < p.spent
    /\ p.pc = "settling" /\ p.how # "error" => p.last = p.spent
    /\ p.spent > 0 /\ ~(p.how = "error" /\ p.last = 0) => l.cost > 0
    /\ Knows(p) => p.spent <= l.cost + (IF Unseen(r, p) THEN MaxCost ELSE 0)

\* What a step of it from p, l to q, m may do to the day: a turn the ledger did
\* not count is one more, save one the run has just read it for; a run starts
\* when what remains allows it; and the nightly review's estimate.
RunMoves(r, p, l, q, m) ==
    /\ q.turns >= p.turns /\ (Knows(q) => Knows(p))
    /\ \/ q.spent = p.spent /\ (Beyond(p) => Beyond(q))
       \/ q.spent <= p.spent + MaxCost /\ ~Beyond(p) /\ Beyond(q)
       \/ q.spent = p.spent /\ m = l /\ SpentOn <= Limit
    /\ q.turns = 0 /\ Going(q, m) /\ ~Going(p, l) => m = l /\ Remaining(r) >= 0
    /\ q.turns = 0 /\ (m.out \notin {"ok", "stopped", "error"} \/ q.pc = "open") /\ ~Going(q, m) /\ ~Going(p, l)
          => l.out \notin {"ok", "stopped", "error"} \/ p.pc = "open"

BudgetTyped == pass \in [BRun -> PassRec] /\ ledger \in [BRun -> RowRec]
RunFine(r, p, l) == RunPaced(r, p, l) /\ RunPriced(r, p, l)
Stepped(r, q, m) ==
    /\ q \in PassRec /\ m \in RowRec
    /\ pass' = [pass EXCEPT ![r] = q] /\ ledger' = [ledger EXCEPT ![r] = m]
    /\ RunFine(r, q, m) /\ RunMoves(r, pass[r], ledger[r], q, m)

\* Sums and MaxCost stay folded from here on.
LEMMA RunNumbers ==
    ASSUME BudgetTyped
    PROVE  SpentOn \in Nat /\ \A r \in BRun : Estimate[r] \in Nat \ {0} /\ Remaining(r) \in Int
<1> DEFINE F == [x \in BRun |-> ledger[x].cost]
<1>1. \A x \in BRun : F[x] \in Nat
  BY DEF BudgetTyped, RowRec
<1> HIDE DEF F
<1>2. Total(F, BRun) \in Nat
  BY <1>1, TotalTake DEF Weights
<1>3. SpentOn \in Nat
  BY <1>2, CostSum DEF F
<1>4. \A r \in BRun : Estimate[r] \in Nat \ {0}
  BY BudgetAssumption
<1>5. Nightly \in BRun
  BY BudgetAssumption DEF BRun
<1> QED
  BY <1>3, <1>4, <1>5, BudgetAssumption DEF Remaining, Reserve

\* A refused run has a row for nothing, and spent nothing.
LEMMA CheckBudgetSteps ==
    ASSUME NEW r \in BRun, BudgetTyped, RunFine(r, pass[r], ledger[r]), CheckBudget(r)
    PROVE  \E q, m : Stepped(r, q, m)
<1>1. PICK p \in PassRec, l \in RowRec : p = pass[r] /\ l = ledger[r]
  BY DEF BudgetTyped
<1>2. p.pc = "idle"
  BY <1>1 DEF CheckBudget, At
<1>3. RunPaced(r, p, l) /\ RunPriced(r, p, l)
  BY <1>1 DEF RunFine
<1>4. /\ Estimate[r] \in Nat \ {0} /\ MaxCost \in Nat \ {0} /\ TurnCap \in Nat \ {0}
      /\ SpentOn \in Nat /\ Limit \in Nat /\ Remaining(r) \in Int /\ (r \in CheckRun <=> r \notin PassRun)
  BY RunNumbers, MaxCostIs, BudgetAssumption DEF BRun
<1>6. CASE CanStart(r) /\ ~unpriced
  <2> DEFINE q == [p EXCEPT !.pc = "may"]
             m == l
  <2>1. pass' = [pass EXCEPT ![r] = q]
    BY <1>1, <1>6 DEF CheckBudget, Go, Write, BudgetTyped, PassRec, RowRec
  <2>2. ledger' = [ledger EXCEPT ![r] = m]
    BY <1>1, <1>6 DEF CheckBudget, Go, Write, BudgetTyped, PassRec, RowRec
  <2>3. q.pc = "may" /\ q.spent = p.spent /\ q.turns = p.turns /\ q.how = p.how /\ q.last = p.last /\ q.slow = p.slow
    BY DEF PassRec
  <2>4. m = l
    OBVIOUS
  <2>5. q \in PassRec /\ m \in RowRec
    BY <1>2, <1>3, <1>4 DEF PassRec, RowRec, RunPaced
  <2> HIDE DEF q, m
  <2>6. RunPaced(r, q, m)
    BY <1>2, <1>3, <1>4, <2>3, <2>4, <1>6 DEF RunPaced, AtWork, PassRec, RowRec
  <2>7. RunPriced(r, q, m)
    BY <1>2, <1>3, <1>4, <2>3, <2>4, <1>6 DEF RunPaced, RunPriced, AtWork, Knows, Unseen, PassRec, RowRec
  <2>8. RunMoves(r, p, l, q, m)
    BY <1>2, <1>3, <1>4, <2>3, <2>4, <1>6 DEF RunMoves, RunPaced, AtWork, Knows, Beyond, Going, PassRec, RowRec
  <2> QED
    BY <1>1, <2>1, <2>2, <2>5, <2>6, <2>7, <2>8 DEF Stepped, RunFine
<1>7. CASE ~(CanStart(r) /\ ~unpriced)
  <2> DEFINE q == [p EXCEPT !.pc = "over"]
             m == [out |-> IF unpriced THEN "error" ELSE "skipped", cost |-> 0]
  <2>1. pass' = [pass EXCEPT ![r] = q]
    BY <1>1, <1>7 DEF CheckBudget, Go, Write, BudgetTyped, PassRec, RowRec
  <2>2. ledger' = [ledger EXCEPT ![r] = m]
    BY <1>1, <1>7 DEF CheckBudget, Go, Write, BudgetTyped, PassRec, RowRec
  <2>3. q.pc = "over" /\ q.spent = p.spent /\ q.turns = p.turns /\ q.how = p.how /\ q.last = p.last /\ q.slow = p.slow
    BY DEF PassRec
  <2>4. m.out = (IF unpriced THEN "error" ELSE "skipped") /\ m.cost = 0
    OBVIOUS
  <2>5. q \in PassRec /\ m \in RowRec
    BY <1>2, <1>3, <1>4 DEF PassRec, RowRec, RunPaced
  <2> HIDE DEF q, m
  <2>6. RunPaced(r, q, m)
    BY <1>2, <1>3, <1>4, <2>3, <2>4, <1>7 DEF RunPaced, AtWork, PassRec, RowRec
  <2>7. RunPriced(r, q, m)
    BY <1>2, <1>3, <1>4, <2>3, <2>4, <1>7 DEF RunPaced, RunPriced, AtWork, Knows, Unseen, PassRec, RowRec
  <2>8. RunMoves(r, p, l, q, m)
    BY <1>2, <1>3, <1>4, <2>3, <2>4, <1>7 DEF RunMoves, RunPaced, AtWork, Knows, Beyond, Going, PassRec, RowRec
  <2> QED
    BY <1>1, <2>1, <2>2, <2>5, <2>6, <2>7, <2>8 DEF Stepped, RunFine
<1> QED
  BY <1>6, <1>7

\* An opened run is on record for its estimate.
LEMMA OpenRunSteps ==
    ASSUME NEW r \in BRun, BudgetTyped, RunFine(r, pass[r], ledger[r]), OpenRun(r)
    PROVE  \E q, m : Stepped(r, q, m)
<1>1. PICK p \in PassRec, l \in RowRec : p = pass[r] /\ l = ledger[r]
  BY DEF BudgetTyped
<1>2. p.pc = "may"
  BY <1>1 DEF OpenRun, At
<1>3. RunPaced(r, p, l) /\ RunPriced(r, p, l)
  BY <1>1 DEF RunFine
<1>4. /\ Estimate[r] \in Nat \ {0} /\ MaxCost \in Nat \ {0} /\ TurnCap \in Nat \ {0}
      /\ SpentOn \in Nat /\ Limit \in Nat /\ Remaining(r) \in Int /\ (r \in CheckRun <=> r \notin PassRun)
  BY RunNumbers, MaxCostIs, BudgetAssumption DEF BRun
<1>6. \E q, m : Stepped(r, q, m)
  <2> DEFINE q == [p EXCEPT !.pc = "open"]
             m == [out |-> "open", cost |-> Estimate[r]]
  <2>1. pass' = [pass EXCEPT ![r] = q]
    BY <1>1 DEF OpenRun, Go, Write, BudgetTyped, PassRec, RowRec
  <2>2. ledger' = [ledger EXCEPT ![r] = m]
    BY <1>1 DEF OpenRun, Go, Write, BudgetTyped, PassRec, RowRec
  <2>3. q.pc = "open" /\ q.spent = p.spent /\ q.turns = p.turns /\ q.how = p.how /\ q.last = p.last /\ q.slow = p.slow
    BY DEF PassRec
  <2>4. m.out = "open" /\ m.cost = Estimate[r]
    OBVIOUS
  <2>5. q \in PassRec /\ m \in RowRec
    BY <1>2, <1>3, <1>4 DEF PassRec, RowRec, RunPaced
  <2> HIDE DEF q, m
  <2>6. RunPaced(r, q, m)
    BY <1>2, <1>3, <1>4, <2>3, <2>4 DEF RunPaced, AtWork, PassRec, RowRec
  <2>7. RunPriced(r, q, m)
    BY <1>2, <1>3, <1>4, <2>3, <2>4 DEF RunPaced, RunPriced, AtWork, Knows, Unseen, PassRec, RowRec
  <2>8. RunMoves(r, p, l, q, m)
    BY <1>2, <1>3, <1>4, <2>3, <2>4 DEF RunMoves, RunPaced, AtWork, Knows, Beyond, Going, PassRec, RowRec
  <2> QED
    BY <1>1, <2>1, <2>2, <2>5, <2>6, <2>7, <2>8 DEF Stepped, RunFine
<1> QED
  BY <1>6

\* A run goes on when what remains allows it.
LEMMA CheckAgainSteps ==
    ASSUME NEW r \in BRun, BudgetTyped, RunFine(r, pass[r], ledger[r]), CheckAgain(r)
    PROVE  \E q, m : Stepped(r, q, m)
<1>1. PICK p \in PassRec, l \in RowRec : p = pass[r] /\ l = ledger[r]
  BY DEF BudgetTyped
<1>2. p.pc = "open"
  BY <1>1 DEF CheckAgain, At
<1>3. RunPaced(r, p, l) /\ RunPriced(r, p, l)
  BY <1>1 DEF RunFine
<1>4. /\ Estimate[r] \in Nat \ {0} /\ MaxCost \in Nat \ {0} /\ TurnCap \in Nat \ {0}
      /\ SpentOn \in Nat /\ Limit \in Nat /\ Remaining(r) \in Int /\ (r \in CheckRun <=> r \notin PassRun)
  BY RunNumbers, MaxCostIs, BudgetAssumption DEF BRun
<1>6. CASE OverAfterStart(r)
  <2> DEFINE q == [p EXCEPT !.pc = "over"]
             m == [out |-> "skipped", cost |-> 0]
  <2>1. pass' = [pass EXCEPT ![r] = q]
    BY <1>1, <1>6 DEF CheckAgain, Go, Write, BudgetTyped, PassRec, RowRec
  <2>2. ledger' = [ledger EXCEPT ![r] = m]
    BY <1>1, <1>6 DEF CheckAgain, Go, Write, BudgetTyped, PassRec, RowRec
  <2>3. q.pc = "over" /\ q.spent = p.spent /\ q.turns = p.turns /\ q.how = p.how /\ q.last = p.last /\ q.slow = p.slow
    BY DEF PassRec
  <2>4. m.out = "skipped" /\ m.cost = 0
    OBVIOUS
  <2>5. q \in PassRec /\ m \in RowRec
    BY <1>2, <1>3, <1>4 DEF PassRec, RowRec, RunPaced
  <2> HIDE DEF q, m
  <2>6. RunPaced(r, q, m)
    BY <1>2, <1>3, <1>4, <2>3, <2>4, <1>6 DEF RunPaced, AtWork, PassRec, RowRec
  <2>7. RunPriced(r, q, m)
    BY <1>2, <1>3, <1>4, <2>3, <2>4, <1>6 DEF RunPaced, RunPriced, AtWork, Knows, Unseen, PassRec, RowRec
  <2>8. RunMoves(r, p, l, q, m)
    BY <1>2, <1>3, <1>4, <2>3, <2>4, <1>6 DEF RunMoves, RunPaced, AtWork, Knows, Beyond, Going, PassRec, RowRec, OverAfterStart
  <2> QED
    BY <1>1, <2>1, <2>2, <2>5, <2>6, <2>7, <2>8 DEF Stepped, RunFine
<1>7. CASE ~OverAfterStart(r)
  <2> DEFINE q == [p EXCEPT !.pc = "going"]
             m == l
  <2>1. pass' = [pass EXCEPT ![r] = q]
    BY <1>1, <1>7 DEF CheckAgain, Go, Write, BudgetTyped, PassRec, RowRec
  <2>2. ledger' = [ledger EXCEPT ![r] = m]
    BY <1>1, <1>7 DEF CheckAgain, Go, Write, BudgetTyped, PassRec, RowRec
  <2>3. q.pc = "going" /\ q.spent = p.spent /\ q.turns = p.turns /\ q.how = p.how /\ q.last = p.last /\ q.slow = p.slow
    BY DEF PassRec
  <2>4. m = l
    OBVIOUS
  <2>5. q \in PassRec /\ m \in RowRec
    BY <1>2, <1>3, <1>4 DEF PassRec, RowRec, RunPaced
  <2> HIDE DEF q, m
  <2>6. RunPaced(r, q, m)
    BY <1>2, <1>3, <1>4, <2>3, <2>4, <1>7 DEF RunPaced, AtWork, PassRec, RowRec
  <2>7. RunPriced(r, q, m)
    BY <1>2, <1>3, <1>4, <2>3, <2>4, <1>7 DEF RunPaced, RunPriced, AtWork, Knows, Unseen, PassRec, RowRec
  <2>8. RunMoves(r, p, l, q, m)
    BY <1>2, <1>3, <1>4, <2>3, <2>4, <1>7 DEF RunMoves, RunPaced, AtWork, Knows, Beyond, Going, PassRec, RowRec, OverAfterStart
  <2> QED
    BY <1>1, <2>1, <2>2, <2>5, <2>6, <2>7, <2>8 DEF Stepped, RunFine
<1> QED
  BY <1>6, <1>7

\* A run that fails before its first turn spent nothing.
LEMMA StartFailsSteps ==
    ASSUME NEW r \in BRun, BudgetTyped, RunFine(r, pass[r], ledger[r]), StartFails(r)
    PROVE  \E q, m : Stepped(r, q, m)
<1>1. PICK p \in PassRec, l \in RowRec : p = pass[r] /\ l = ledger[r]
  BY DEF BudgetTyped
<1>2. r \in PassRun /\ p.pc \in {"open", "going"} /\ p.turns = 0
  BY <1>1 DEF StartFails, At
<1>3. RunPaced(r, p, l) /\ RunPriced(r, p, l)
  BY <1>1 DEF RunFine
<1>4. /\ Estimate[r] \in Nat \ {0} /\ MaxCost \in Nat \ {0} /\ TurnCap \in Nat \ {0}
      /\ SpentOn \in Nat /\ Limit \in Nat /\ Remaining(r) \in Int /\ (r \in CheckRun <=> r \notin PassRun)
  BY RunNumbers, MaxCostIs, BudgetAssumption DEF BRun
<1>6. \E q, m : Stepped(r, q, m)
  <2> DEFINE q == [p EXCEPT !.pc = "over"]
             m == [out |-> "error", cost |-> 0]
  <2>1. pass' = [pass EXCEPT ![r] = q]
    BY <1>1 DEF StartFails, Go, Write, BudgetTyped, PassRec, RowRec
  <2>2. ledger' = [ledger EXCEPT ![r] = m]
    BY <1>1 DEF StartFails, Go, Write, BudgetTyped, PassRec, RowRec
  <2>3. q.pc = "over" /\ q.spent = p.spent /\ q.turns = p.turns /\ q.how = p.how /\ q.last = p.last /\ q.slow = p.slow
    BY DEF PassRec
  <2>4. m.out = "error" /\ m.cost = 0
    OBVIOUS
  <2>5. q \in PassRec /\ m \in RowRec
    BY <1>2, <1>3, <1>4 DEF PassRec, RowRec, RunPaced
  <2> HIDE DEF q, m
  <2>6. RunPaced(r, q, m)
    BY <1>2, <1>3, <1>4, <2>3, <2>4 DEF RunPaced, AtWork, PassRec, RowRec
  <2>7. RunPriced(r, q, m)
    BY <1>2, <1>3, <1>4, <2>3, <2>4 DEF RunPaced, RunPriced, AtWork, Knows, Unseen, PassRec, RowRec
  <2>8. RunMoves(r, p, l, q, m)
    BY <1>2, <1>3, <1>4, <2>3, <2>4 DEF RunMoves, RunPaced, AtWork, Knows, Beyond, Going, PassRec, RowRec
  <2> QED
    BY <1>1, <2>1, <2>2, <2>5, <2>6, <2>7, <2>8 DEF Stepped, RunFine
<1> QED
  BY <1>6

\* A turn is on top of what the row shows.
LEMMA PassTurnSteps ==
    ASSUME NEW r \in BRun, NEW c \in TurnCosts, BudgetTyped, RunFine(r, pass[r], ledger[r]), PassTurn(r, c)
    PROVE  \E q, m : Stepped(r, q, m)
<1>1. PICK p \in PassRec, l \in RowRec : p = pass[r] /\ l = ledger[r]
  BY DEF BudgetTyped
<1>2. r \in PassRun /\ p.pc = "going" /\ p.turns < TurnCap
  BY <1>1 DEF PassTurn, At
<1>3. RunPaced(r, p, l) /\ RunPriced(r, p, l)
  BY <1>1 DEF RunFine
<1>4. /\ Estimate[r] \in Nat \ {0} /\ MaxCost \in Nat \ {0} /\ TurnCap \in Nat \ {0}
      /\ SpentOn \in Nat /\ Limit \in Nat /\ Remaining(r) \in Int /\ (r \in CheckRun <=> r \notin PassRun)
  BY RunNumbers, MaxCostIs, BudgetAssumption DEF BRun
<1>5. c \in Nat \ {0} /\ c <= MaxCost
  BY MaxCostIs
<1>6. \E q, m : Stepped(r, q, m)
  <2> DEFINE q == [p EXCEPT !.pc = "turning", !.spent = p.spent + c, !.turns = p.turns + 1]
             m == l
  <2>1. pass' = [pass EXCEPT ![r] = q]
    BY <1>1 DEF PassTurn, TurnCosts_, BudgetTyped, PassRec, RowRec
  <2>2. ledger' = [ledger EXCEPT ![r] = m]
    BY <1>1 DEF PassTurn, TurnCosts_, BudgetTyped, PassRec, RowRec
  <2>3. q.pc = "turning" /\ q.spent = p.spent + c /\ q.turns = p.turns + 1 /\ q.how = p.how /\ q.last = p.last /\ q.slow = p.slow
    BY DEF PassRec
  <2>4. m = l
    OBVIOUS
  <2>5. q \in PassRec /\ m \in RowRec
    <3>1. p.spent + c \in Nat /\ p.turns + 1 \in 0..TurnCap
      BY <1>2, <1>3, <1>4, <1>5 DEF PassRec, RunPaced
    <3> QED
      BY <1>2, <3>1 DEF PassRec
  <2> HIDE DEF q, m
  <2>6. RunPaced(r, q, m)
    BY <1>2, <1>3, <1>4, <1>5, <2>3, <2>4 DEF RunPaced, AtWork, PassRec, RowRec
  <2>7. RunPriced(r, q, m)
    BY <1>2, <1>3, <1>4, <1>5, <2>3, <2>4 DEF RunPaced, RunPriced, AtWork, Knows, Unseen, PassRec, RowRec
  <2>8. RunMoves(r, p, l, q, m)
    BY <1>2, <1>3, <1>4, <1>5, <2>3, <2>4 DEF RunMoves, RunPaced, AtWork, Knows, Beyond, Going, PassRec, RowRec
  <2> QED
    BY <1>1, <2>1, <2>2, <2>5, <2>6, <2>7, <2>8 DEF Stepped, RunFine
<1> QED
  BY <1>6

\* A recorded turn is in the row, if the row is open.
LEMMA RecordTurnSteps ==
    ASSUME NEW r \in BRun, BudgetTyped, RunFine(r, pass[r], ledger[r]), RecordTurn(r)
    PROVE  \E q, m : Stepped(r, q, m)
<1>1. PICK p \in PassRec, l \in RowRec : p = pass[r] /\ l = ledger[r]
  BY DEF BudgetTyped
<1>2. p.pc = "turning"
  BY <1>1 DEF RecordTurn, At
<1>3. RunPaced(r, p, l) /\ RunPriced(r, p, l)
  BY <1>1 DEF RunFine
<1>4. /\ Estimate[r] \in Nat \ {0} /\ MaxCost \in Nat \ {0} /\ TurnCap \in Nat \ {0}
      /\ SpentOn \in Nat /\ Limit \in Nat /\ Remaining(r) \in Int /\ (r \in CheckRun <=> r \notin PassRun)
  BY RunNumbers, MaxCostIs, BudgetAssumption DEF BRun
<1>6. CASE l.out = "open"
  <2> DEFINE q == [p EXCEPT !.pc = "recorded", !.last = p.spent]
             m == [out |-> "open", cost |-> p.spent]
  <2>1. pass' = [pass EXCEPT ![r] = q]
    BY <1>1, <1>6 DEF RecordTurn, Write, BudgetTyped, PassRec, RowRec
  <2>2. ledger' = [ledger EXCEPT ![r] = m]
    BY <1>1, <1>6 DEF RecordTurn, Write, BudgetTyped, PassRec, RowRec
  <2>3. q.pc = "recorded" /\ q.spent = p.spent /\ q.turns = p.turns /\ q.how = p.how /\ q.last = p.spent /\ q.slow = p.slow
    BY DEF PassRec
  <2>4. m.out = "open" /\ m.cost = p.spent
    OBVIOUS
  <2>5. q \in PassRec /\ m \in RowRec
    BY <1>2, <1>3, <1>4 DEF PassRec, RowRec, RunPaced
  <2> HIDE DEF q, m
  <2>6. RunPaced(r, q, m)
    BY <1>2, <1>3, <1>4, <2>3, <2>4, <1>6 DEF RunPaced, AtWork, PassRec, RowRec
  <2>7. RunPriced(r, q, m)
    BY <1>2, <1>3, <1>4, <2>3, <2>4, <1>6 DEF RunPaced, RunPriced, AtWork, Knows, Unseen, PassRec, RowRec
  <2>8. RunMoves(r, p, l, q, m)
    BY <1>2, <1>3, <1>4, <2>3, <2>4, <1>6 DEF RunMoves, RunPaced, AtWork, Knows, Beyond, Going, PassRec, RowRec
  <2> QED
    BY <1>1, <2>1, <2>2, <2>5, <2>6, <2>7, <2>8 DEF Stepped, RunFine
<1>7. CASE l.out # "open"
  <2> DEFINE q == [p EXCEPT !.pc = "recorded", !.last = p.spent]
             m == l
  <2>1. pass' = [pass EXCEPT ![r] = q]
    BY <1>1, <1>7 DEF RecordTurn, Write, BudgetTyped, PassRec, RowRec
  <2>2. ledger' = [ledger EXCEPT ![r] = m]
    BY <1>1, <1>7 DEF RecordTurn, Write, BudgetTyped, PassRec, RowRec
  <2>3. q.pc = "recorded" /\ q.spent = p.spent /\ q.turns = p.turns /\ q.how = p.how /\ q.last = p.spent /\ q.slow = p.slow
    BY DEF PassRec
  <2>4. m = l
    OBVIOUS
  <2>5. q \in PassRec /\ m \in RowRec
    BY <1>2, <1>3, <1>4 DEF PassRec, RowRec, RunPaced
  <2> HIDE DEF q, m
  <2>6. RunPaced(r, q, m)
    BY <1>2, <1>3, <1>4, <2>3, <2>4, <1>7 DEF RunPaced, AtWork, PassRec, RowRec
  <2>7. RunPriced(r, q, m)
    BY <1>2, <1>3, <1>4, <2>3, <2>4, <1>7 DEF RunPaced, RunPriced, AtWork, Knows, Unseen, PassRec, RowRec
  <2>8. RunMoves(r, p, l, q, m)
    BY <1>2, <1>3, <1>4, <2>3, <2>4, <1>7 DEF RunMoves, RunPaced, AtWork, Knows, Beyond, Going, PassRec, RowRec
  <2> QED
    BY <1>1, <2>1, <2>2, <2>5, <2>6, <2>7, <2>8 DEF Stepped, RunFine
<1> QED
  BY <1>6, <1>7

\* One without a price leaves at least the estimate.
LEMMA RecordUnpricedSteps ==
    ASSUME NEW r \in BRun, BudgetTyped, RunFine(r, pass[r], ledger[r]), RecordUnpriced(r)
    PROVE  \E q, m : Stepped(r, q, m)
<1>1. PICK p \in PassRec, l \in RowRec : p = pass[r] /\ l = ledger[r]
  BY DEF BudgetTyped
<1>2. p.pc = "turning"
  BY <1>1 DEF RecordUnpriced, At
<1>3. RunPaced(r, p, l) /\ RunPriced(r, p, l)
  BY <1>1 DEF RunFine
<1>4. /\ Estimate[r] \in Nat \ {0} /\ MaxCost \in Nat \ {0} /\ TurnCap \in Nat \ {0}
      /\ SpentOn \in Nat /\ Limit \in Nat /\ Remaining(r) \in Int /\ (r \in CheckRun <=> r \notin PassRun)
  BY RunNumbers, MaxCostIs, BudgetAssumption DEF BRun
<1>5. PICK k \in Nat : k = IF pass[r].spent > Estimate[r] THEN pass[r].spent ELSE Estimate[r]
  BY <1>1, <1>4 DEF PassRec
<1>6. CASE l.out = "open"
  <2> DEFINE q == [p EXCEPT !.pc = "settling", !.how = "error", !.last = k, !.noted = TRUE]
             m == [out |-> "open", cost |-> k]
  <2>1. pass' = [pass EXCEPT ![r] = q]
    BY <1>1, <1>5, <1>6 DEF RecordUnpriced, Write, BudgetTyped, PassRec, RowRec
  <2>2. ledger' = [ledger EXCEPT ![r] = m]
    BY <1>1, <1>5, <1>6 DEF RecordUnpriced, Write, BudgetTyped, PassRec, RowRec
  <2>3. q.pc = "settling" /\ q.spent = p.spent /\ q.turns = p.turns /\ q.how = "error" /\ q.last = k /\ q.slow = p.slow
    BY DEF PassRec
  <2>4. m.out = "open" /\ m.cost = k
    OBVIOUS
  <2>5. q \in PassRec /\ m \in RowRec
    BY <1>2, <1>3, <1>4, <1>5 DEF PassRec, RowRec, RunPaced
  <2> HIDE DEF q, m
  <2>6. RunPaced(r, q, m)
    BY <1>2, <1>3, <1>4, <1>5, <2>3, <2>4, <1>6 DEF RunPaced, AtWork, PassRec, RowRec
  <2>7. RunPriced(r, q, m)
    BY <1>2, <1>3, <1>4, <1>5, <2>3, <2>4, <1>6 DEF RunPaced, RunPriced, AtWork, Knows, Unseen, PassRec, RowRec
  <2>8. RunMoves(r, p, l, q, m)
    BY <1>2, <1>3, <1>4, <1>5, <2>3, <2>4, <1>6 DEF RunMoves, RunPaced, AtWork, Knows, Beyond, Going, PassRec, RowRec
  <2> QED
    BY <1>1, <2>1, <2>2, <2>5, <2>6, <2>7, <2>8 DEF Stepped, RunFine
<1>7. CASE l.out # "open"
  <2> DEFINE q == [p EXCEPT !.pc = "settling", !.how = "error", !.last = k, !.noted = TRUE]
             m == l
  <2>1. pass' = [pass EXCEPT ![r] = q]
    BY <1>1, <1>5, <1>7 DEF RecordUnpriced, Write, BudgetTyped, PassRec, RowRec
  <2>2. ledger' = [ledger EXCEPT ![r] = m]
    BY <1>1, <1>5, <1>7 DEF RecordUnpriced, Write, BudgetTyped, PassRec, RowRec
  <2>3. q.pc = "settling" /\ q.spent = p.spent /\ q.turns = p.turns /\ q.how = "error" /\ q.last = k /\ q.slow = p.slow
    BY DEF PassRec
  <2>4. m = l
    OBVIOUS
  <2>5. q \in PassRec /\ m \in RowRec
    BY <1>2, <1>3, <1>4, <1>5 DEF PassRec, RowRec, RunPaced
  <2> HIDE DEF q, m
  <2>6. RunPaced(r, q, m)
    BY <1>2, <1>3, <1>4, <1>5, <2>3, <2>4, <1>7 DEF RunPaced, AtWork, PassRec, RowRec
  <2>7. RunPriced(r, q, m)
    BY <1>2, <1>3, <1>4, <1>5, <2>3, <2>4, <1>7 DEF RunPaced, RunPriced, AtWork, Knows, Unseen, PassRec, RowRec
  <2>8. RunMoves(r, p, l, q, m)
    BY <1>2, <1>3, <1>4, <1>5, <2>3, <2>4, <1>7 DEF RunMoves, RunPaced, AtWork, Knows, Beyond, Going, PassRec, RowRec
  <2> QED
    BY <1>1, <2>1, <2>2, <2>5, <2>6, <2>7, <2>8 DEF Stepped, RunFine
<1> QED
  BY <1>6, <1>7

\* A run goes on when the ledger is within the limit.
LEMMA CheckLimitSteps ==
    ASSUME NEW r \in BRun, BudgetTyped, RunFine(r, pass[r], ledger[r]), CheckLimit(r)
    PROVE  \E q, m : Stepped(r, q, m)
<1>1. PICK p \in PassRec, l \in RowRec : p = pass[r] /\ l = ledger[r]
  BY DEF BudgetTyped
<1>2. p.pc = "recorded"
  BY <1>1 DEF CheckLimit, At
<1>3. RunPaced(r, p, l) /\ RunPriced(r, p, l)
  BY <1>1 DEF RunFine
<1>4. /\ Estimate[r] \in Nat \ {0} /\ MaxCost \in Nat \ {0} /\ TurnCap \in Nat \ {0}
      /\ SpentOn \in Nat /\ Limit \in Nat /\ Remaining(r) \in Int /\ (r \in CheckRun <=> r \notin PassRun)
  BY RunNumbers, MaxCostIs, BudgetAssumption DEF BRun
<1>6. CASE OverLimit(r)
  <2> DEFINE q == [p EXCEPT !.pc = "settling", !.how = "stopped"]
             m == l
  <2>1. pass' = [pass EXCEPT ![r] = q]
    BY <1>1, <1>6 DEF CheckLimit, BudgetTyped, PassRec, RowRec
  <2>2. ledger' = [ledger EXCEPT ![r] = m]
    BY <1>1, <1>6 DEF CheckLimit, BudgetTyped, PassRec, RowRec
  <2>3. q.pc = "settling" /\ q.spent = p.spent /\ q.turns = p.turns /\ q.how = "stopped" /\ q.last = p.last /\ q.slow = p.slow
    BY DEF PassRec
  <2>4. m = l
    OBVIOUS
  <2>5. q \in PassRec /\ m \in RowRec
    BY <1>2, <1>3, <1>4 DEF PassRec, RowRec, RunPaced
  <2> HIDE DEF q, m
  <2>6. RunPaced(r, q, m)
    BY <1>2, <1>3, <1>4, <2>3, <2>4, <1>6 DEF RunPaced, AtWork, PassRec, RowRec
  <2>7. RunPriced(r, q, m)
    BY <1>2, <1>3, <1>4, <2>3, <2>4, <1>6 DEF RunPaced, RunPriced, AtWork, Knows, Unseen, PassRec, RowRec
  <2>8. RunMoves(r, p, l, q, m)
    BY <1>2, <1>3, <1>4, <2>3, <2>4, <1>6 DEF RunMoves, RunPaced, AtWork, Knows, Beyond, Going, PassRec, RowRec, OverLimit
  <2> QED
    BY <1>1, <2>1, <2>2, <2>5, <2>6, <2>7, <2>8 DEF Stepped, RunFine
<1>7. CASE ~OverLimit(r)
  <2> DEFINE q == [p EXCEPT !.pc = "going"]
             m == l
  <2>1. pass' = [pass EXCEPT ![r] = q]
    BY <1>1, <1>7 DEF CheckLimit, BudgetTyped, PassRec, RowRec
  <2>2. ledger' = [ledger EXCEPT ![r] = m]
    BY <1>1, <1>7 DEF CheckLimit, BudgetTyped, PassRec, RowRec
  <2>3. q.pc = "going" /\ q.spent = p.spent /\ q.turns = p.turns /\ q.how = p.how /\ q.last = p.last /\ q.slow = p.slow
    BY DEF PassRec
  <2>4. m = l
    OBVIOUS
  <2>5. q \in PassRec /\ m \in RowRec
    BY <1>2, <1>3, <1>4 DEF PassRec, RowRec, RunPaced
  <2> HIDE DEF q, m
  <2>6. RunPaced(r, q, m)
    BY <1>2, <1>3, <1>4, <2>3, <2>4, <1>7 DEF RunPaced, AtWork, PassRec, RowRec
  <2>7. RunPriced(r, q, m)
    BY <1>2, <1>3, <1>4, <2>3, <2>4, <1>7 DEF RunPaced, RunPriced, AtWork, Knows, Unseen, PassRec, RowRec
  <2>8. RunMoves(r, p, l, q, m)
    BY <1>2, <1>3, <1>4, <2>3, <2>4, <1>7 DEF RunMoves, RunPaced, AtWork, Knows, Beyond, Going, PassRec, RowRec, OverLimit
  <2> QED
    BY <1>1, <2>1, <2>2, <2>5, <2>6, <2>7, <2>8 DEF Stepped, RunFine
<1> QED
  BY <1>6, <1>7

\* A run that ends has its turns on record.
LEMMA PassEndsSteps ==
    ASSUME NEW r \in BRun, BudgetTyped, RunFine(r, pass[r], ledger[r]), PassEnds(r)
    PROVE  \E q, m : Stepped(r, q, m)
<1>1. PICK p \in PassRec, l \in RowRec : p = pass[r] /\ l = ledger[r]
  BY DEF BudgetTyped
<1>2. r \in PassRun /\ p.pc = "going" /\ p.turns > 0
  BY <1>1 DEF PassEnds, At
<1>3. RunPaced(r, p, l) /\ RunPriced(r, p, l)
  BY <1>1 DEF RunFine
<1>4. /\ Estimate[r] \in Nat \ {0} /\ MaxCost \in Nat \ {0} /\ TurnCap \in Nat \ {0}
      /\ SpentOn \in Nat /\ Limit \in Nat /\ Remaining(r) \in Int /\ (r \in CheckRun <=> r \notin PassRun)
  BY RunNumbers, MaxCostIs, BudgetAssumption DEF BRun
<1>6. \E q, m : Stepped(r, q, m)
  <2> DEFINE q == [p EXCEPT !.pc = "settling"]
             m == l
  <2>1. pass' = [pass EXCEPT ![r] = q]
    BY <1>1 DEF PassEnds, Go, BudgetTyped, PassRec, RowRec
  <2>2. ledger' = [ledger EXCEPT ![r] = m]
    BY <1>1 DEF PassEnds, Go, BudgetTyped, PassRec, RowRec
  <2>3. q.pc = "settling" /\ q.spent = p.spent /\ q.turns = p.turns /\ q.how = p.how /\ q.last = p.last /\ q.slow = p.slow
    BY DEF PassRec
  <2>4. m = l
    OBVIOUS
  <2>5. q \in PassRec /\ m \in RowRec
    BY <1>2, <1>3, <1>4 DEF PassRec, RowRec, RunPaced
  <2> HIDE DEF q, m
  <2>6. RunPaced(r, q, m)
    BY <1>2, <1>3, <1>4, <2>3, <2>4 DEF RunPaced, AtWork, PassRec, RowRec
  <2>7. RunPriced(r, q, m)
    BY <1>2, <1>3, <1>4, <2>3, <2>4 DEF RunPaced, RunPriced, AtWork, Knows, Unseen, PassRec, RowRec
  <2>8. RunMoves(r, p, l, q, m)
    BY <1>2, <1>3, <1>4, <2>3, <2>4 DEF RunMoves, RunPaced, AtWork, Knows, Beyond, Going, PassRec, RowRec
  <2> QED
    BY <1>1, <2>1, <2>2, <2>5, <2>6, <2>7, <2>8 DEF Stepped, RunFine
<1> QED
  BY <1>6

\* A turn that fails is not.
LEMMA QueryFailsSteps ==
    ASSUME NEW r \in BRun, BudgetTyped, RunFine(r, pass[r], ledger[r]), QueryFails(r)
    PROVE  \E q, m : Stepped(r, q, m)
<1>1. PICK p \in PassRec, l \in RowRec : p = pass[r] /\ l = ledger[r]
  BY DEF BudgetTyped
<1>2. p.pc = "turning"
  BY <1>1 DEF QueryFails, At
<1>3. RunPaced(r, p, l) /\ RunPriced(r, p, l)
  BY <1>1 DEF RunFine
<1>4. /\ Estimate[r] \in Nat \ {0} /\ MaxCost \in Nat \ {0} /\ TurnCap \in Nat \ {0}
      /\ SpentOn \in Nat /\ Limit \in Nat /\ Remaining(r) \in Int /\ (r \in CheckRun <=> r \notin PassRun)
  BY RunNumbers, MaxCostIs, BudgetAssumption DEF BRun
<1>6. \E q, m : Stepped(r, q, m)
  <2> DEFINE q == [p EXCEPT !.pc = "settling", !.how = "error"]
             m == l
  <2>1. pass' = [pass EXCEPT ![r] = q]
    BY <1>1 DEF QueryFails, BudgetTyped, PassRec, RowRec
  <2>2. ledger' = [ledger EXCEPT ![r] = m]
    BY <1>1 DEF QueryFails, BudgetTyped, PassRec, RowRec
  <2>3. q.pc = "settling" /\ q.spent = p.spent /\ q.turns = p.turns /\ q.how = "error" /\ q.last = p.last /\ q.slow = p.slow
    BY DEF PassRec
  <2>4. m = l
    OBVIOUS
  <2>5. q \in PassRec /\ m \in RowRec
    BY <1>2, <1>3, <1>4 DEF PassRec, RowRec, RunPaced
  <2> HIDE DEF q, m
  <2>6. RunPaced(r, q, m)
    BY <1>2, <1>3, <1>4, <2>3, <2>4 DEF RunPaced, AtWork, PassRec, RowRec
  <2>7. RunPriced(r, q, m)
    BY <1>2, <1>3, <1>4, <2>3, <2>4 DEF RunPaced, RunPriced, AtWork, Knows, Unseen, PassRec, RowRec
  <2>8. RunMoves(r, p, l, q, m)
    BY <1>2, <1>3, <1>4, <2>3, <2>4 DEF RunMoves, RunPaced, AtWork, Knows, Beyond, Going, PassRec, RowRec
  <2> QED
    BY <1>1, <2>1, <2>2, <2>5, <2>6, <2>7, <2>8 DEF Stepped, RunFine
<1> QED
  BY <1>6

\* A check's turn is known when it ends.
LEMMA CheckTurnSteps ==
    ASSUME NEW r \in BRun, NEW c \in TurnCosts, BudgetTyped, RunFine(r, pass[r], ledger[r]), CheckTurn(r, c)
    PROVE  \E q, m : Stepped(r, q, m)
<1>1. PICK p \in PassRec, l \in RowRec : p = pass[r] /\ l = ledger[r]
  BY DEF BudgetTyped
<1>2. r \in CheckRun /\ p.pc = "going"
  BY <1>1 DEF CheckTurn, At
<1>3. RunPaced(r, p, l) /\ RunPriced(r, p, l)
  BY <1>1 DEF RunFine
<1>4. /\ Estimate[r] \in Nat \ {0} /\ MaxCost \in Nat \ {0} /\ TurnCap \in Nat \ {0}
      /\ SpentOn \in Nat /\ Limit \in Nat /\ Remaining(r) \in Int /\ (r \in CheckRun <=> r \notin PassRun)
  BY RunNumbers, MaxCostIs, BudgetAssumption DEF BRun
<1>5. c \in Nat \ {0} /\ c <= MaxCost
  BY MaxCostIs
<1>6. \E q, m : Stepped(r, q, m)
  <2> DEFINE q == [p EXCEPT !.pc = "settling", !.spent = p.spent + c, !.turns = p.turns + 1, !.last = p.spent + c]
             m == l
  <2>1. pass' = [pass EXCEPT ![r] = q]
    BY <1>1 DEF CheckTurn, TurnCosts_, BudgetTyped, PassRec, RowRec
  <2>2. ledger' = [ledger EXCEPT ![r] = m]
    BY <1>1 DEF CheckTurn, TurnCosts_, BudgetTyped, PassRec, RowRec
  <2>3. q.pc = "settling" /\ q.spent = p.spent + c /\ q.turns = p.turns + 1 /\ q.how = p.how /\ q.last = p.spent + c /\ q.slow = p.slow
    BY DEF PassRec
  <2>4. m = l
    OBVIOUS
  <2>5. q \in PassRec /\ m \in RowRec
    <3>1. p.spent + c \in Nat /\ p.turns + 1 \in 0..TurnCap
      BY <1>2, <1>3, <1>4, <1>5 DEF PassRec, RunPaced
    <3> QED
      BY <1>2, <3>1 DEF PassRec
  <2> HIDE DEF q, m
  <2>6. RunPaced(r, q, m)
    BY <1>2, <1>3, <1>4, <1>5, <2>3, <2>4 DEF RunPaced, AtWork, PassRec, RowRec
  <2>7. RunPriced(r, q, m)
    BY <1>2, <1>3, <1>4, <1>5, <2>3, <2>4 DEF RunPaced, RunPriced, AtWork, Knows, Unseen, PassRec, RowRec
  <2>8. RunMoves(r, p, l, q, m)
    BY <1>2, <1>3, <1>4, <1>5, <2>3, <2>4 DEF RunMoves, RunPaced, AtWork, Knows, Beyond, Going, PassRec, RowRec
  <2> QED
    BY <1>1, <2>1, <2>2, <2>5, <2>6, <2>7, <2>8 DEF Stepped, RunFine
<1> QED
  BY <1>6

\* A settled run's row shows what it last recorded.
LEMMA SettleSteps ==
    ASSUME NEW r \in BRun, BudgetTyped, RunFine(r, pass[r], ledger[r]), Settle(r)
    PROVE  \E q, m : Stepped(r, q, m)
<1>1. PICK p \in PassRec, l \in RowRec : p = pass[r] /\ l = ledger[r]
  BY DEF BudgetTyped
<1>2. p.pc = "settling"
  BY <1>1 DEF Settle, At
<1>3. RunPaced(r, p, l) /\ RunPriced(r, p, l)
  BY <1>1 DEF RunFine
<1>4. /\ Estimate[r] \in Nat \ {0} /\ MaxCost \in Nat \ {0} /\ TurnCap \in Nat \ {0}
      /\ SpentOn \in Nat /\ Limit \in Nat /\ Remaining(r) \in Int /\ (r \in CheckRun <=> r \notin PassRun)
  BY RunNumbers, MaxCostIs, BudgetAssumption DEF BRun
<1>6. CASE r \in PassRun \/ l.out = "open"
  <2> DEFINE q == [p EXCEPT !.pc = "over"]
             m == [out |-> p.how, cost |-> p.last]
  <2>1. pass' = [pass EXCEPT ![r] = q]
    BY <1>1, <1>6 DEF Settle, Go, Write, BudgetTyped, PassRec, RowRec
  <2>2. ledger' = [ledger EXCEPT ![r] = m]
    BY <1>1, <1>6 DEF Settle, Go, Write, BudgetTyped, PassRec, RowRec
  <2>3. q.pc = "over" /\ q.spent = p.spent /\ q.turns = p.turns /\ q.how = p.how /\ q.last = p.last /\ q.slow = p.slow
    BY DEF PassRec
  <2>4. m.out = p.how /\ m.cost = p.last
    OBVIOUS
  <2>5. q \in PassRec /\ m \in RowRec
    BY <1>2, <1>3, <1>4 DEF PassRec, RowRec, RunPaced
  <2> HIDE DEF q, m
  <2>6. RunPaced(r, q, m)
    BY <1>2, <1>3, <1>4, <2>3, <2>4, <1>6 DEF RunPaced, AtWork, PassRec, RowRec
  <2>7. RunPriced(r, q, m)
    BY <1>2, <1>3, <1>4, <2>3, <2>4, <1>6 DEF RunPaced, RunPriced, AtWork, Knows, Unseen, PassRec, RowRec
  <2>8. RunMoves(r, p, l, q, m)
    BY <1>2, <1>3, <1>4, <2>3, <2>4, <1>6 DEF RunMoves, RunPaced, AtWork, Knows, Beyond, Going, PassRec, RowRec
  <2> QED
    BY <1>1, <2>1, <2>2, <2>5, <2>6, <2>7, <2>8 DEF Stepped, RunFine
<1>7. CASE ~(r \in PassRun \/ l.out = "open")
  <2> DEFINE q == [p EXCEPT !.pc = "over"]
             m == l
  <2>1. pass' = [pass EXCEPT ![r] = q]
    BY <1>1, <1>7 DEF Settle, Go, Write, BudgetTyped, PassRec, RowRec
  <2>2. ledger' = [ledger EXCEPT ![r] = m]
    BY <1>1, <1>7 DEF Settle, Go, Write, BudgetTyped, PassRec, RowRec
  <2>3. q.pc = "over" /\ q.spent = p.spent /\ q.turns = p.turns /\ q.how = p.how /\ q.last = p.last /\ q.slow = p.slow
    BY DEF PassRec
  <2>4. m = l
    OBVIOUS
  <2>5. q \in PassRec /\ m \in RowRec
    BY <1>2, <1>3, <1>4 DEF PassRec, RowRec, RunPaced
  <2> HIDE DEF q, m
  <2>6. RunPaced(r, q, m)
    BY <1>2, <1>3, <1>4, <2>3, <2>4, <1>7 DEF RunPaced, AtWork, PassRec, RowRec
  <2>7. RunPriced(r, q, m)
    BY <1>2, <1>3, <1>4, <2>3, <2>4, <1>7 DEF RunPaced, RunPriced, AtWork, Knows, Unseen, PassRec, RowRec
  <2>8. RunMoves(r, p, l, q, m)
    BY <1>2, <1>3, <1>4, <2>3, <2>4, <1>7 DEF RunMoves, RunPaced, AtWork, Knows, Beyond, Going, PassRec, RowRec
  <2> QED
    BY <1>1, <2>1, <2>2, <2>5, <2>6, <2>7, <2>8 DEF Stepped, RunFine
<1> QED
  BY <1>6, <1>7

\* A dead run's row stays.
LEMMA BudgetCrashSteps ==
    ASSUME NEW r \in BRun, BudgetTyped, RunFine(r, pass[r], ledger[r]), BudgetCrash(r)
    PROVE  \E q, m : Stepped(r, q, m)
<1>1. PICK p \in PassRec, l \in RowRec : p = pass[r] /\ l = ledger[r]
  BY DEF BudgetTyped
<1>2. p.pc \notin {"idle", "over", "dead"}
  BY <1>1 DEF BudgetCrash, At
<1>3. RunPaced(r, p, l) /\ RunPriced(r, p, l)
  BY <1>1 DEF RunFine
<1>4. /\ Estimate[r] \in Nat \ {0} /\ MaxCost \in Nat \ {0} /\ TurnCap \in Nat \ {0}
      /\ SpentOn \in Nat /\ Limit \in Nat /\ Remaining(r) \in Int /\ (r \in CheckRun <=> r \notin PassRun)
  BY RunNumbers, MaxCostIs, BudgetAssumption DEF BRun
<1>6. \E q, m : Stepped(r, q, m)
  <2> DEFINE q == [p EXCEPT !.pc = "dead"]
             m == l
  <2>1. pass' = [pass EXCEPT ![r] = q]
    BY <1>1 DEF BudgetCrash, Go, BudgetTyped, PassRec, RowRec
  <2>2. ledger' = [ledger EXCEPT ![r] = m]
    BY <1>1 DEF BudgetCrash, Go, BudgetTyped, PassRec, RowRec
  <2>3. q.pc = "dead" /\ q.spent = p.spent /\ q.turns = p.turns /\ q.how = p.how /\ q.last = p.last /\ q.slow = p.slow
    BY DEF PassRec
  <2>4. m = l
    OBVIOUS
  <2>5. q \in PassRec /\ m \in RowRec
    BY <1>2, <1>3, <1>4 DEF PassRec, RowRec, RunPaced
  <2> HIDE DEF q, m
  <2>6. RunPaced(r, q, m)
    BY <1>2, <1>3, <1>4, <2>3, <2>4 DEF RunPaced, AtWork, PassRec, RowRec
  <2>7. RunPriced(r, q, m)
    BY <1>2, <1>3, <1>4, <2>3, <2>4 DEF RunPaced, RunPriced, AtWork, Knows, Unseen, PassRec, RowRec
  <2>8. RunMoves(r, p, l, q, m)
    BY <1>2, <1>3, <1>4, <2>3, <2>4 DEF RunMoves, RunPaced, AtWork, Knows, Beyond, Going, PassRec, RowRec
  <2> QED
    BY <1>1, <2>1, <2>2, <2>5, <2>6, <2>7, <2>8 DEF Stepped, RunFine
<1> QED
  BY <1>6

\* A swept row keeps its cost.
LEMMA SweepStaleSteps ==
    ASSUME NEW r \in BRun, BudgetTyped, RunFine(r, pass[r], ledger[r]), SweepStale(r)
    PROVE  \E q, m : Stepped(r, q, m)
<1>1. PICK p \in PassRec, l \in RowRec : p = pass[r] /\ l = ledger[r]
  BY DEF BudgetTyped
<1>2. l.out = "open"
  BY <1>1 DEF SweepStale, At, Swept
<1>3. RunPaced(r, p, l) /\ RunPriced(r, p, l)
  BY <1>1 DEF RunFine
<1>4. /\ Estimate[r] \in Nat \ {0} /\ MaxCost \in Nat \ {0} /\ TurnCap \in Nat \ {0}
      /\ SpentOn \in Nat /\ Limit \in Nat /\ Remaining(r) \in Int /\ (r \in CheckRun <=> r \notin PassRun)
  BY RunNumbers, MaxCostIs, BudgetAssumption DEF BRun
<1>6. CASE p.pc = "dead"
  <2> DEFINE q == p
             m == [out |-> "error", cost |-> l.cost]
  <2>1. pass' = [pass EXCEPT ![r] = q]
    BY <1>1, <1>6 DEF SweepStale, Write, Cost, BudgetTyped, PassRec, RowRec, Swept, At
  <2>2. ledger' = [ledger EXCEPT ![r] = m]
    BY <1>1, <1>6 DEF SweepStale, Write, Cost, BudgetTyped, PassRec, RowRec
  <2>3. q.pc = p.pc /\ q.spent = p.spent /\ q.turns = p.turns /\ q.how = p.how /\ q.last = p.last /\ q.slow = p.slow
    BY DEF PassRec
  <2>4. m.out = "error" /\ m.cost = l.cost
    OBVIOUS
  <2>5. q \in PassRec /\ m \in RowRec
    BY <1>2, <1>3, <1>4 DEF PassRec, RowRec, RunPaced
  <2> HIDE DEF q, m
  <2>6. RunPaced(r, q, m)
    BY <1>2, <1>3, <1>4, <2>3, <2>4, <1>6 DEF RunPaced, AtWork, PassRec, RowRec
  <2>7. RunPriced(r, q, m)
    BY <1>2, <1>3, <1>4, <2>3, <2>4, <1>6 DEF RunPaced, RunPriced, AtWork, Knows, Unseen, PassRec, RowRec
  <2>8. RunMoves(r, p, l, q, m)
    BY <1>2, <1>3, <1>4, <2>3, <2>4, <1>6 DEF RunMoves, RunPaced, AtWork, Knows, Beyond, Going, PassRec, RowRec
  <2> QED
    BY <1>1, <2>1, <2>2, <2>5, <2>6, <2>7, <2>8 DEF Stepped, RunFine
<1>7. CASE p.pc # "dead"
  <2> DEFINE q == [p EXCEPT !.slow = TRUE]
             m == [out |-> "error", cost |-> l.cost]
  <2>1. pass' = [pass EXCEPT ![r] = q]
    BY <1>1, <1>7 DEF SweepStale, Write, Cost, BudgetTyped, PassRec, RowRec, Swept, At
  <2>2. ledger' = [ledger EXCEPT ![r] = m]
    BY <1>1, <1>7 DEF SweepStale, Write, Cost, BudgetTyped, PassRec, RowRec
  <2>3. q.pc = p.pc /\ q.spent = p.spent /\ q.turns = p.turns /\ q.how = p.how /\ q.last = p.last /\ q.slow = TRUE
    BY DEF PassRec
  <2>4. m.out = "error" /\ m.cost = l.cost
    OBVIOUS
  <2>5. q \in PassRec /\ m \in RowRec
    BY <1>2, <1>3, <1>4 DEF PassRec, RowRec, RunPaced
  <2> HIDE DEF q, m
  <2>6. RunPaced(r, q, m)
    BY <1>2, <1>3, <1>4, <2>3, <2>4, <1>7 DEF RunPaced, AtWork, PassRec, RowRec
  <2>7. RunPriced(r, q, m)
    BY <1>2, <1>3, <1>4, <2>3, <2>4, <1>7 DEF RunPaced, RunPriced, AtWork, Knows, Unseen, PassRec, RowRec
  <2>8. RunMoves(r, p, l, q, m)
    BY <1>2, <1>3, <1>4, <2>3, <2>4, <1>7 DEF RunMoves, RunPaced, AtWork, Knows, Beyond, Going, PassRec, RowRec
  <2> QED
    BY <1>1, <2>1, <2>2, <2>5, <2>6, <2>7, <2>8 DEF Stepped, RunFine
<1> QED
  BY <1>6, <1>7

-----------------------------------------------------------------------------
(***************************************************************************)
(* PassBudget: the day                                                     *)
(***************************************************************************)
SpentBy(P) == [x \in BRun |-> P[x].spent]
BeyondRuns(P) == {x \in BRun : Beyond(P[x])}
GoingRuns(P, L) == {x \in BRun : Going(P[x], L[x])}
\* The nightly review is still to come, or has not read the ledger again.
NightAhead(p, l) == l.out \notin {"ok", "stopped", "error"} \/ p.pc = "open"

\* Stronger than OvershootBounded: a run that is going has no turn beyond the limit.
DayBounded(P) ==
    (\A x \in BRun : Knows(P[x])) => Total(SpentBy(P), BRun) <= Limit + MaxCost * Cardinality(BeyondRuns(P))

\* Stronger than StartsFit: the estimate is left for a nightly review that was
\* swept before it read the ledger again, too.
DayFits(P, L) ==
    (\A x \in BRun : P[x].turns = 0) =>
        /\ Total(Estimate, GoingRuns(P, L)) <= Limit
        /\ Nightly \notin GoingRuns(P, L) /\ GoingRuns(P, L) # {} /\ NightAhead(P[Nightly], L[Nightly])
              => Total(Estimate, GoingRuns(P, L)) + Estimate[Nightly] <= Limit

\* More runs, more turns.
LEMMA TimesGrows == \A n, a, b \in Nat : a <= b => n * a <= n * b /\ n * (a + 1) = n * a + n /\ n * a \in Nat
<1> SUFFICES ASSUME NEW n \in Nat, NEW a \in Nat, NEW b \in Nat, a <= b
             PROVE  n * a <= n * b /\ n * (a + 1) = n * a + n /\ n * a \in Nat
  OBVIOUS
<1>1. PICK d \in Nat : b = a + d
  <2>1. b - a \in Nat /\ b = a + (b - a)
    OBVIOUS
  <2> QED
    BY <2>1
<1>2. n * (a + d) = n * a + n * d /\ n * d \in Nat /\ n * a \in Nat
  OBVIOUS
<1>3. n * (a + 1) = n * a + n
  OBVIOUS
<1> QED
  BY <1>1, <1>2, <1>3

LEMMA BeyondCounts ==
    ASSUME NEW P, NEW X \in SUBSET BeyondRuns(P)
    PROVE  /\ IsFiniteSet(X) /\ IsFiniteSet(BeyondRuns(P)) /\ Cardinality(X) \in Nat
           /\ Cardinality(BeyondRuns(P)) \in Nat /\ Cardinality(X) <= Cardinality(BeyondRuns(P))
<1>1. IsFiniteSet(BeyondRuns(P))
  <2>1. BeyondRuns(P) \in SUBSET BRun /\ IsFiniteSet(BRun)
    BY BudgetAssumption DEF BeyondRuns
  <2> QED
    BY <2>1, FS_Subset
<1> QED
  BY <1>1, FS_Subset, FS_CardinalityType

\* What a run's step leaves of the bound on the day's spend.
LEMMA DayStaysBounded ==
    ASSUME BudgetTyped, \A x \in BRun : RunFine(x, pass[x], ledger[x]), DayBounded(pass),
           NEW r \in BRun, NEW q, NEW m, Stepped(r, q, m)
    PROVE  DayBounded(pass')
<1>1. PICK P, Q : P = pass /\ Q = pass'
  OBVIOUS
<1>2. /\ P \in [BRun -> PassRec] /\ Q = [P EXCEPT ![r] = q] /\ q \in PassRec /\ Q \in [BRun -> PassRec]
      /\ Q[r] = q /\ \A x \in BRun \ {r} : Q[x] = P[x]
  BY <1>1 DEF BudgetTyped, Stepped
<1>3. RunMoves(r, P[r], ledger[r], q, m)
  BY <1>1 DEF Stepped
<1>4. (Knows(q) => Knows(P[r])) /\ (\A x \in BRun : Knows(Q[x])) => \A x \in BRun : Knows(P[x])
  BY <1>2, <1>3 DEF RunMoves
<1>5. Knows(q) => Knows(P[r])
  BY <1>3 DEF RunMoves
<1>6. SUFFICES ASSUME \A x \in BRun : Knows(Q[x])
               PROVE  Total(SpentBy(Q), BRun) <= Limit + MaxCost * Cardinality(BeyondRuns(Q))
  BY <1>1 DEF DayBounded
<1>7. Total(SpentBy(P), BRun) <= Limit + MaxCost * Cardinality(BeyondRuns(P))
  BY <1>1, <1>4, <1>5, <1>6 DEF DayBounded
<1>8. /\ Weights(SpentBy(P)) /\ Weights(SpentBy(Q))
      /\ \A x \in BRun \ {r} : SpentBy(P)[x] = SpentBy(Q)[x]
      /\ SpentBy(P)[r] = P[r].spent /\ SpentBy(Q)[r] = q.spent /\ P[r].spent \in Nat /\ q.spent \in Nat
  BY <1>2 DEF SpentBy, Weights, PassRec
<1>9. /\ Total(SpentBy(Q), BRun) + P[r].spent = Total(SpentBy(P), BRun) + q.spent
      /\ Total(SpentBy(Q), BRun) \in Nat /\ Total(SpentBy(P), BRun) \in Nat
  <2> HIDE DEF SpentBy
  <2>1. PICK F, G : F = SpentBy(P) /\ G = SpentBy(Q)
    OBVIOUS
  <2>2. /\ Total(G, BRun) + F[r] = Total(F, BRun) + G[r]
        /\ Total(F, BRun) \in Nat /\ Total(G, BRun) \in Nat
    BY <1>8, <2>1, TotalMoves
  <2> QED
    BY <1>8, <2>1, <2>2
<1>10. PICK M \in Nat : M = MaxCost
  BY MaxCostIs
<1>11. PICK k \in Nat, n \in Nat : k = Cardinality(BeyondRuns(P)) /\ n = Cardinality(BeyondRuns(Q))
  BY BeyondCounts
<1>12. Limit \in Nat
  BY BudgetAssumption
<1>13. CASE q.spent = P[r].spent /\ (Beyond(P[r]) => Beyond(q))
  <2>1. BeyondRuns(P) \in SUBSET BeyondRuns(Q)
    BY <1>2, <1>13 DEF BeyondRuns
  <2>2. k <= n
    BY <1>11, <2>1, BeyondCounts
  <2>3. M * k <= M * n /\ M * k \in Nat /\ M * n \in Nat
    BY <2>2, TimesGrows
  <2>4. Total(SpentBy(Q), BRun) = Total(SpentBy(P), BRun)
    BY <1>8, <1>9, <1>13
  <2> QED
    BY <1>7, <1>9, <1>10, <1>11, <1>12, <2>3, <2>4
<1>14. CASE q.spent <= P[r].spent + MaxCost /\ ~Beyond(P[r]) /\ Beyond(q)
  <2>1. BeyondRuns(Q) = BeyondRuns(P) \cup {r} /\ r \notin BeyondRuns(P)
    BY <1>2, <1>14 DEF BeyondRuns
  <2>2. n = k + 1
    BY <1>11, <2>1, BeyondCounts, FS_AddElement
  <2>3. M * n = M * k + M /\ M * k \in Nat
    BY <2>2, TimesGrows
  <2>4. Total(SpentBy(Q), BRun) <= Total(SpentBy(P), BRun) + M
    BY <1>8, <1>9, <1>10, <1>14
  <2> QED
    BY <1>7, <1>9, <1>10, <1>11, <1>12, <2>3, <2>4
<1>15. CASE q.spent = P[r].spent /\ m = ledger[r] /\ SpentOn <= Limit
  <2> DEFINE X == {x \in BRun : Unseen(x, Q[x])}
             C == [x \in BRun |-> ledger[x].cost]
             W == [x \in BRun |-> IF x \in X THEN M ELSE 0]
             H == [x \in BRun |-> C[x] + W[x]]
  <2>1. \A x \in BRun : Q[x].spent <= C[x] + W[x] /\ C[x] \in Nat /\ W[x] \in Nat
    <3>1. SUFFICES ASSUME NEW x \in BRun PROVE Q[x].spent <= C[x] + W[x] /\ C[x] \in Nat /\ W[x] \in Nat
      OBVIOUS
    <3>2. RunPriced(x, Q[x], ledger[x])
      BY <1>1, <1>2, <1>15 DEF RunFine, Stepped
    <3>3. Q[x].spent <= ledger[x].cost + (IF Unseen(x, Q[x]) THEN M ELSE 0)
      BY <1>6, <1>10, <3>2 DEF RunPriced
    <3>4. ledger[x].cost \in Nat
      BY DEF BudgetTyped, RowRec
    <3> QED
      BY <3>3, <3>4
  <2>2. X \in SUBSET BRun /\ (\A x \in BRun : W[x] = IF x \in X THEN M ELSE 0) /\ \A x \in BRun : H[x] = C[x] + W[x]
    OBVIOUS
  <2>3. X \in SUBSET BeyondRuns(Q)
    BY DEF BeyondRuns, Unseen, Beyond
  <2>4. SpentOn = Total(C, BRun)
    BY CostSum
  <2>5. \A x \in BRun : SpentBy(Q)[x] <= H[x]
    BY <2>1 DEF SpentBy
  <2> HIDE DEF X, C, W, H
  <2>6. Weights(C)
    BY <2>1 DEF Weights
  <2>7. Weights(W) /\ Total(W, BRun) = M * Cardinality(X)
    BY <2>2, TotalOf
  <2>8. Weights(H) /\ Total(H, BRun) = Total(C, BRun) + Total(W, BRun)
    BY <2>2, <2>6, <2>7, TotalPlus
  <2>9. Total(SpentBy(Q), BRun) <= Total(H, BRun)
    BY <1>8, <2>5, <2>8, TotalBelow
  <2>10. Cardinality(X) <= n /\ Cardinality(X) \in Nat
    BY <1>11, <2>3, BeyondCounts
  <2>11. M * Cardinality(X) <= M * n /\ M * n \in Nat /\ M * Cardinality(X) \in Nat
    BY <2>10, TimesGrows
  <2>12. Total(C, BRun) \in Nat
    BY <2>6, TotalTake
  <2> QED
    BY <1>9, <1>10, <1>11, <1>12, <1>15, <2>4, <2>7, <2>8, <2>9, <2>11, <2>12
<1> QED
  BY <1>3, <1>13, <1>14, <1>15 DEF RunMoves

\* What it leaves of the estimates of the runs that go.
LEMMA DayStillFits ==
    ASSUME BudgetTyped, \A x \in BRun : RunFine(x, pass[x], ledger[x]), DayFits(pass, ledger),
           NEW r \in BRun, NEW q, NEW m, Stepped(r, q, m)
    PROVE  DayFits(pass', ledger')
<1>1. PICK P, Q, L, N : P = pass /\ Q = pass' /\ L = ledger /\ N = ledger'
  OBVIOUS
<1>2. /\ P \in [BRun -> PassRec] /\ Q \in [BRun -> PassRec] /\ Q[r] = q /\ \A x \in BRun \ {r} : Q[x] = P[x]
      /\ L \in [BRun -> RowRec] /\ N = [L EXCEPT ![r] = m] /\ N[r] = m /\ \A x \in BRun \ {r} : N[x] = L[x]
  BY <1>1 DEF BudgetTyped, Stepped
<1>3. RunMoves(r, P[r], L[r], q, m) /\ RunFine(r, q, m)
  BY <1>1 DEF Stepped
<1> DEFINE G == GoingRuns(P, L)
           H == GoingRuns(Q, N)
<1>4. SUFFICES ASSUME \A x \in BRun : Q[x].turns = 0
               PROVE  /\ Total(Estimate, H) <= Limit
                      /\ Nightly \notin H /\ H # {} /\ NightAhead(Q[Nightly], N[Nightly])
                            => Total(Estimate, H) + Estimate[Nightly] <= Limit
  BY <1>1 DEF DayFits
<1>5. \A x \in BRun : P[x].turns = 0
  <2>1. P[r].turns = 0
    BY <1>2, <1>3, <1>4 DEF RunMoves, PassRec
  <2> QED
    BY <1>2, <1>4, <2>1
<1>6. /\ Total(Estimate, G) <= Limit
      /\ Nightly \notin G /\ G # {} /\ NightAhead(P[Nightly], L[Nightly])
            => Total(Estimate, G) + Estimate[Nightly] <= Limit
  BY <1>1, <1>5 DEF DayFits
<1>7. /\ G \in SUBSET BRun /\ H \in SUBSET BRun /\ Nightly \in BRun /\ Weights(Estimate) /\ Limit \in Nat
      /\ Estimate[Nightly] \in Nat
  BY BudgetAssumption DEF GoingRuns, Weights, BRun
<1>8. q.turns = 0
  BY <1>2, <1>4
<1>9. CASE Going(q, m) /\ ~Going(P[r], L[r])
  <2>1. m = L[r] /\ N = L /\ Remaining(r) >= 0
    BY <1>2, <1>3, <1>8, <1>9 DEF RunMoves
  <2> DEFINE C == [x \in BRun |-> L[x].cost]
  <2>2. \A x \in BRun : C[x] \in Nat
    BY <1>2 DEF RowRec
  <2>3. \A x \in BRun : RunPriced(x, Q[x], L[x])
    BY <1>1, <1>2, <1>3, <2>1 DEF RunFine
  <2>4. ASSUME NEW x \in BRun, x \in H \/ Q[x].pc = "open" PROVE C[x] = Estimate[x]
    <3>1. RunPriced(x, Q[x], L[x]) /\ Q[x].turns = 0
      BY <1>4, <2>3
    <3>2. Q[x].pc = "open" \/ L[x].out = "open"
      BY <2>1, <2>4 DEF GoingRuns, Going
    <3> QED
      BY <3>1, <3>2 DEF RunPriced
  <2>5. SpentOn = Total(C, BRun)
    BY <1>1, CostSum
  <2> HIDE DEF C, H
  <2>6. Weights(C)
    BY <2>2 DEF Weights
  <2>7. \A S \in SUBSET BRun : Total(C, S) <= Total(C, BRun) /\ Total(C, S) \in Nat
    BY <2>6, TotalOfFewer, TotalTake
  <2>8. \A x \in H : Estimate[x] <= C[x] /\ Estimate[x] \in Nat
    BY <1>7, <2>4 DEF Weights
  <2>9. Total(Estimate, H) <= Total(C, H)
    BY <1>7, <2>6, <2>8, TotalBelow
  <2>10. Total(Estimate, H) \in Nat /\ Total(C, H) <= SpentOn /\ Total(C, H) \in Nat /\ SpentOn \in Nat
    BY <1>7, <2>5, <2>7, TotalTake
  <2>11. Reserve(r) \in Nat /\ SpentOn <= Limit - Reserve(r)
    BY <1>7, <2>1, <2>10 DEF Remaining, Reserve
  <2>12. Total(Estimate, H) <= Limit
    BY <1>7, <2>9, <2>10, <2>11
  <2>13. ASSUME Nightly \notin H, NightAhead(Q[Nightly], N[Nightly])
         PROVE  Total(Estimate, H) + Estimate[Nightly] <= Limit
    <3>1. r # Nightly
      BY <1>2, <1>9, <2>13 DEF H, GoingRuns
    <3>2. CASE ~RanNightly
      <4>1. Reserve(r) = Estimate[Nightly]
        BY <3>1, <3>2 DEF Reserve
      <4> QED
        BY <1>7, <2>9, <2>10, <2>11, <4>1
    <3>3. CASE RanNightly
      <4>1. Q[Nightly].pc = "open"
        BY <1>1, <2>1, <2>13, <3>3 DEF RanNightly, NightAhead
      <4>2. C[Nightly] = Estimate[Nightly]
        BY <1>7, <2>4, <4>1
      <4>3. PICK R \in SUBSET BRun : R = H \cup {Nightly}
        BY <1>7
      <4>4. Nightly \in R /\ R \ {Nightly} = H
        BY <2>13, <4>3
      <4>5. Total(C, R) = C[Nightly] + Total(C, H)
        BY <2>6, <4>4, TotalTake
      <4>6. Total(C, R) <= SpentOn
        BY <2>5, <2>7
      <4> QED
        BY <1>7, <2>9, <2>10, <2>11, <4>2, <4>5, <4>6
    <3> QED
      BY <3>2, <3>3
  <2> QED
    BY <2>12, <2>13 DEF H
<1>10. CASE ~(Going(q, m) /\ ~Going(P[r], L[r]))
  <2>1. H \in SUBSET G
    BY <1>2, <1>10 DEF GoingRuns
  <2> HIDE DEF H, G
  <2>2. Total(Estimate, H) <= Total(Estimate, G) /\ Total(Estimate, H) \in Nat /\ Total(Estimate, G) \in Nat
    BY <1>7, <2>1, TotalOfFewer, TotalTake
  <2>3. ASSUME Nightly \notin H, H # {}, NightAhead(Q[Nightly], N[Nightly])
        PROVE  Total(Estimate, H) + Estimate[Nightly] <= Limit
    <3>1. CASE Nightly \in G
      <4>1. PICK R \in SUBSET BRun : R = G \ {Nightly}
        BY <1>7
      <4>2. Total(Estimate, G) = Estimate[Nightly] + Total(Estimate, R) /\ Total(Estimate, R) \in Nat
        BY <1>7, <3>1, <4>1, TotalTake
      <4>3. H \in SUBSET R
        BY <2>1, <2>3, <4>1
      <4>4. Total(Estimate, H) <= Total(Estimate, R)
        BY <1>7, <4>3, TotalOfFewer
      <4> QED
        BY <1>6, <1>7, <2>2, <4>2, <4>4
    <3>2. CASE Nightly \notin G
      <4>1. NightAhead(P[Nightly], L[Nightly])
        <5>1. CASE r # Nightly
          BY <1>2, <1>7, <2>3, <5>1
        <5>2. CASE r = Nightly
          <6>1. ~Going(q, m) /\ ~Going(P[r], L[r]) /\ NightAhead(q, m)
            BY <1>2, <1>7, <2>3, <3>2, <5>2 DEF G, H, GoingRuns
          <6> QED
            BY <1>3, <1>8, <5>2, <6>1 DEF RunMoves, NightAhead
        <5> QED
          BY <5>1, <5>2
      <4>2. Total(Estimate, G) + Estimate[Nightly] <= Limit
        BY <1>6, <2>1, <2>3, <3>2, <4>1
      <4> QED
        BY <1>7, <2>2, <4>2
    <3> QED
      BY <3>1, <3>2
  <2> QED
    BY <1>6, <1>7, <2>2, <2>3 DEF H, G
<1> QED
  BY <1>9, <1>10

\* Every step is a step of one run and its row.
LEMMA EveryStepSteps ==
    ASSUME BudgetTyped, \A x \in BRun : RunFine(x, pass[x], ledger[x]), BudgetNext
    PROVE  \E r \in BRun : \E q, m : Stepped(r, q, m)
<1>1. PICK r \in BRun : BudgetStep(r) \/ StartFails(r) \/ RecordUnpriced(r) \/ QueryFails(r)
                        \/ BudgetCrash(r) \/ SweepStale(r)
  BY DEF BudgetNext
<1>2. RunFine(r, pass[r], ledger[r])
  OBVIOUS
<1>3. CASE CheckBudget(r) \/ OpenRun(r) \/ CheckAgain(r) \/ RecordTurn(r)
  BY <1>2, <1>3, CheckBudgetSteps, OpenRunSteps, CheckAgainSteps, RecordTurnSteps
<1>4. CASE CheckLimit(r) \/ PassEnds(r) \/ Settle(r)
  BY <1>2, <1>4, CheckLimitSteps, PassEndsSteps, SettleSteps
<1>5. CASE \E c \in TurnCosts : PassTurn(r, c) \/ CheckTurn(r, c)
  BY <1>2, <1>5, PassTurnSteps, CheckTurnSteps
<1>6. CASE StartFails(r) \/ RecordUnpriced(r) \/ QueryFails(r)
  BY <1>2, <1>6, StartFailsSteps, RecordUnpricedSteps, QueryFailsSteps
<1>7. CASE BudgetCrash(r) \/ SweepStale(r)
  BY <1>2, <1>7, BudgetCrashSteps, SweepStaleSteps
<1> QED
  BY <1>1, <1>3, <1>4, <1>5, <1>6, <1>7 DEF BudgetStep

\* The flag of the day and the bound on failures keep their types.
LEMMA FlagsTyped ==
    ASSUME BudgetTyped, unpriced \in BOOLEAN, budgetFaults \in 0..MaxBudgetFaults, BudgetNext
    PROVE  unpriced' \in BOOLEAN /\ budgetFaults' \in 0..MaxBudgetFaults
<1>1. PICK r \in BRun : BudgetStep(r) \/ StartFails(r) \/ RecordUnpriced(r) \/ QueryFails(r)
                        \/ BudgetCrash(r) \/ SweepStale(r)
  BY DEF BudgetNext
<1>2. UNCHANGED unpriced \/ unpriced' = (unpriced \/ pass[r].noted)
  BY <1>1 DEF BudgetStep, CheckBudget, OpenRun, CheckAgain, RecordTurn, CheckLimit, PassEnds, Settle,
              PassTurn, CheckTurn, StartFails, RecordUnpriced, QueryFails, BudgetCrash, SweepStale
<1>3. UNCHANGED budgetFaults \/ (budgetFaults < MaxBudgetFaults /\ budgetFaults' = budgetFaults + 1)
  BY <1>1 DEF BudgetStep, CheckBudget, OpenRun, CheckAgain, RecordTurn, CheckLimit, PassEnds, Settle,
              PassTurn, CheckTurn, StartFails, RecordUnpriced, QueryFails, BudgetCrash, SweepStale, BudgetFault
<1>4. unpriced' \in BOOLEAN
  BY <1>2
<1>5. budgetFaults' \in 0..MaxBudgetFaults
  BY <1>3, BudgetAssumption
<1> QED
  BY <1>4, <1>5

\* The inductive invariant.
BudgetFine ==
    /\ BudgetTyped /\ unpriced \in BOOLEAN /\ budgetFaults \in 0..MaxBudgetFaults
    /\ \A x \in BRun : RunFine(x, pass[x], ledger[x])
    /\ DayFits(pass, ledger) /\ DayBounded(pass)

LEMMA BudgetStarts == BudgetInit => BudgetFine
<1> SUFFICES ASSUME BudgetInit PROVE BudgetFine
  OBVIOUS
<1>1. /\ Limit \in Nat /\ MaxBudgetFaults \in Nat /\ TurnCap \in Nat \ {0} /\ Nightly \in BRun
      /\ \A x \in BRun : Estimate[x] \in Nat
  BY BudgetAssumption DEF BRun
<1>2. BudgetTyped /\ unpriced \in BOOLEAN /\ budgetFaults \in 0..MaxBudgetFaults
  <2>1. 0 \in 0..MaxBudgetFaults /\ 0 \in 0..TurnCap /\ 0 \in Nat
    BY <1>1
  <2>2. pass \in [BRun -> PassRec]
    BY <2>1 DEF BudgetInit, PassRec
  <2>3. ledger \in [BRun -> RowRec]
    BY DEF BudgetInit, RowRec, NoRow
  <2> QED
    BY <2>1, <2>2, <2>3 DEF BudgetTyped, BudgetInit
<1>3. /\ \A x \in BRun : /\ pass[x].pc = "idle" /\ pass[x].spent = 0 /\ pass[x].turns = 0 /\ pass[x].how = "ok"
                         /\ pass[x].last = 0 /\ ledger[x].out = "none" /\ ledger[x].cost = 0
  BY DEF BudgetInit, NoRow
<1>4. ASSUME NEW x \in BRun PROVE RunFine(x, pass[x], ledger[x])
  BY <1>3, MaxCostIs DEF RunFine, RunPaced, RunPriced, AtWork, Unseen
<1>5. DayFits(pass, ledger)
  <2>1. GoingRuns(pass, ledger) = {}
    BY <1>3 DEF GoingRuns, Going
  <2>2. Total(Estimate, {}) = 0
    BY <1>1, TotalNone DEF Weights
  <2> QED
    BY <1>1, <2>1, <2>2 DEF DayFits
<1>6. DayBounded(pass)
  <2> DEFINE F == SpentBy(pass)
  <2>1. \A x \in BRun : F[x] = IF x \in {} THEN MaxCost ELSE 0
    BY <1>3 DEF SpentBy
  <2>2. BeyondRuns(pass) = {}
    BY <1>3 DEF BeyondRuns, Beyond
  <2> HIDE DEF F
  <2>3. Total(F, BRun) = MaxCost * Cardinality({})
    BY <2>1, TotalOf, MaxCostIs
  <2>4. Cardinality({}) = 0 /\ MaxCost * 0 = 0
    BY FS_EmptySet, MaxCostIs
  <2> QED
    BY <1>1, <2>2, <2>3, <2>4 DEF DayBounded, F
<1> QED
  BY <1>2, <1>4, <1>5, <1>6 DEF BudgetFine

LEMMA BudgetKept == BudgetFine /\ [BudgetNext]_budgetVars => BudgetFine'
<1> SUFFICES ASSUME BudgetFine, [BudgetNext]_budgetVars PROVE BudgetFine'
  OBVIOUS
<1>1. /\ BudgetTyped /\ unpriced \in BOOLEAN /\ budgetFaults \in 0..MaxBudgetFaults
      /\ \A x \in BRun : RunFine(x, pass[x], ledger[x])
      /\ DayFits(pass, ledger) /\ DayBounded(pass)
  BY DEF BudgetFine
<1>2. CASE UNCHANGED budgetVars
  BY <1>1, <1>2 DEF BudgetFine, BudgetTyped, DayFits, DayBounded, RunFine, RunPaced, RunPriced, budgetVars,
                    SpentBy, BeyondRuns, GoingRuns
<1>3. CASE BudgetNext
  <2>1. unpriced' \in BOOLEAN /\ budgetFaults' \in 0..MaxBudgetFaults
    BY <1>1, <1>3, FlagsTyped
  <2>0. PICK r \in BRun : \E q, m : Stepped(r, q, m)
    BY <1>1, <1>3, EveryStepSteps
  <2>2. PICK q, m : Stepped(r, q, m)
    BY <2>0
  <2>3. DayFits(pass', ledger')
    BY <1>1, <2>2, DayStillFits
  <2>4. DayBounded(pass')
    BY <1>1, <2>2, DayStaysBounded
  <2>5. /\ pass' \in [BRun -> PassRec] /\ ledger' \in [BRun -> RowRec]
        /\ pass'[r] = q /\ ledger'[r] = m /\ \A x \in BRun \ {r} : pass'[x] = pass[x] /\ ledger'[x] = ledger[x]
    BY <1>1, <2>2 DEF Stepped, BudgetTyped
  <2>6. \A x \in BRun : RunFine(x, pass'[x], ledger'[x])
    BY <1>1, <2>2, <2>5 DEF Stepped
  <2>7. BudgetTyped'
    BY <2>5 DEF BudgetTyped, PassRec, RowRec
  <2>9. DayFits(pass, ledger)'
    BY <2>3
  <2>10. DayBounded(pass)'
    BY <2>4
  <2> QED
    BY <2>1, <2>7, <2>6, <2>9, <2>10 DEF BudgetFine
<1> QED
  BY <1>2, <1>3

-----------------------------------------------------------------------------
LEMMA BudgetIsTyped == BudgetFine => BudgetTypeOK
<1> SUFFICES ASSUME BudgetFine PROVE BudgetTypeOK
  OBVIOUS
<1>1. BudgetTyped /\ unpriced \in BOOLEAN /\ budgetFaults \in 0..MaxBudgetFaults
  BY DEF BudgetFine
<1>2. \A r \in BRun : pass[r] \in PassRec
  BY <1>1 DEF BudgetTyped
<1>3. ledger \in [BRun -> RowRec]
  BY <1>1 DEF BudgetTyped
<1> QED
  BY <1>1, <1>2, <1>3 DEF BudgetTypeOK, PassRec, RowRec

LEMMA BudgetStartsFit == BudgetFine => StartsFit
<1> SUFFICES ASSUME BudgetFine, \A r \in BRun : pass[r].turns = 0
             PROVE  LET going == {r \in Started : ledger[r].out = "open"} IN
                    /\ MapThenSumSet(Est, going) <= Limit
                    /\ Nightly \notin going /\ ~RanNightly
                          => MapThenSumSet(Est, going) + (IF going = {} THEN 0 ELSE Est(Nightly)) <= Limit
  BY DEF StartsFit
<1> DEFINE going == {r \in Started : ledger[r].out = "open"}
<1>1. DayFits(pass, ledger)
  BY DEF BudgetFine
<1>2. going = GoingRuns(pass, ledger) /\ going \in SUBSET BRun
  BY DEF Started, At, GoingRuns, Going
<1> HIDE DEF going
<1>3. MapThenSumSet(Est, going) = Total(Estimate, going)
  BY <1>2, EstSum DEF Total
<1>4. Weights(Estimate) /\ Limit \in Nat
  BY BudgetAssumption DEF Weights
<1>5. Total(Estimate, going) \in Nat /\ Total(Estimate, going) <= Limit
  BY <1>1, <1>2, <1>4, TotalTake DEF DayFits
<1>6. ASSUME Nightly \notin going, ~RanNightly
      PROVE  MapThenSumSet(Est, going) + (IF going = {} THEN 0 ELSE Est(Nightly)) <= Limit
  <2>1. CASE going = {}
    BY <1>3, <1>4, <1>5, <2>1
  <2>2. CASE going # {}
    <3>1. NightAhead(pass[Nightly], ledger[Nightly])
      BY <1>6 DEF NightAhead, RanNightly
    <3>2. Total(Estimate, going) + Estimate[Nightly] <= Limit
      BY <1>1, <1>2, <1>6, <2>2, <3>1 DEF DayFits
    <3> QED
      BY <1>3, <2>2, <3>2 DEF Est
  <2> QED
    BY <2>1, <2>2
<1> QED
  BY <1>3, <1>5, <1>6 DEF going

LEMMA BudgetOvershoot == BudgetFine => OvershootBounded
<1> SUFFICES ASSUME BudgetFine, \A r \in BRun : Known(r)
             PROVE  AllSpent <= Limit + MaxCost * Cardinality({r \in BRun : pass[r].turns > 0})
  BY DEF OvershootBounded, AllSpent
<1> DEFINE X == {r \in BRun : pass[r].turns > 0}
<1>1. DayBounded(pass) /\ BudgetTyped
  BY DEF BudgetFine
<1>2. \A r \in BRun : Knows(pass[r])
  BY DEF Known, Knows
<1>3. Total(SpentBy(pass), BRun) <= Limit + MaxCost * Cardinality(BeyondRuns(pass))
  BY <1>1, <1>2 DEF DayBounded
<1>4. AllSpent = Total(SpentBy(pass), BRun)
  BY SpentSum DEF SpentBy
<1>5. Weights(SpentBy(pass))
  BY <1>1 DEF SpentBy, Weights, BudgetTyped, PassRec
<1>6. Total(SpentBy(pass), BRun) \in Nat
  BY <1>5, TotalTake
<1>7. BeyondRuns(pass) \in SUBSET X /\ X \in SUBSET BRun /\ IsFiniteSet(BRun)
  BY BudgetAssumption DEF BeyondRuns, Beyond
<1>8. PICK k \in Nat, n \in Nat : k = Cardinality(BeyondRuns(pass)) /\ n = Cardinality(X) /\ k <= n
  <2> HIDE DEF X
  <2>1. IsFiniteSet(X)
    BY <1>7, FS_Subset
  <2>2. Cardinality(BeyondRuns(pass)) <= Cardinality(X) /\ IsFiniteSet(BeyondRuns(pass))
    BY <1>7, <2>1, FS_Subset
  <2> QED
    BY <2>1, <2>2, FS_CardinalityType
<1>9. PICK M \in Nat : M = MaxCost
  BY MaxCostIs
<1>10. M * k <= M * n /\ M * k \in Nat /\ M * n \in Nat
  BY <1>8, TimesGrows
<1>11. Limit \in Nat
  BY BudgetAssumption
<1> QED
  BY <1>3, <1>4, <1>6, <1>8, <1>9, <1>10, <1>11

LEMMA BudgetRows == BudgetFine => NeverFree /\ RowsAreEnded
<1> SUFFICES ASSUME BudgetFine, NEW r \in BRun
             PROVE  /\ pass[r].spent > 0 /\ ~(pass[r].how = "error" /\ pass[r].last = 0) => ledger[r].cost > 0
                    /\ ledger[r].out = "open" => HasStep(r) \/ At(r, {"dead"})
  BY DEF NeverFree, RowsAreEnded
<1>1. RunPaced(r, pass[r], ledger[r]) /\ RunPriced(r, pass[r], ledger[r])
  BY DEF BudgetFine, RunFine
<1>2. pass[r].turns \in 0..TurnCap /\ TurnCap \in Nat \ {0} /\ (r \in PassRun \/ r \in CheckRun)
  BY BudgetAssumption DEF BudgetFine, BudgetTyped, PassRec, BRun
<1>3. pass[r].spent > 0 /\ ~(pass[r].how = "error" /\ pass[r].last = 0) => ledger[r].cost > 0
  BY <1>1 DEF RunPriced
<1>4. ASSUME ledger[r].out = "open" PROVE HasStep(r) \/ At(r, {"dead"})
  <2>1. pass[r].pc \in AtWork \cup {"dead"}
    BY <1>1, <1>4 DEF RunPaced
  <2>2. pass[r].pc = "going" => pass[r].turns < TurnCap \/ (r \in PassRun /\ pass[r].turns > 0)
    BY <1>1, <1>2 DEF RunPaced
  <2> QED
    BY <2>1, <2>2 DEF HasStep, At, AtWork
<1> QED
  BY <1>3, <1>4

\* The ledger of a day and its runs keep their types (budget.ts, runner.ts,
\* db/background-runs.ts).
THEOREM LedgerTyped == BudgetSpec => []BudgetTypeOK
  BY BudgetStarts, BudgetKept, BudgetIsTyped, PTL DEF BudgetSpec

\* The day's ledger bounds what is spent and closes, whatever the limit, the
\* estimates, the costs, the turns and the failures: the starts nobody has taken
\* a turn after fit the limit together, and leave the nightly review its
\* estimate (budget.ts's canStart and overAfterStart); the limit is overshot by
\* one turn of each run at most (overLimit); a run that spent something is never
\* on record for nothing; and no row stays open without a step that ends it.
THEOREM TheLedgerHolds == BudgetSpec => []LedgerHolds
<1>1. BudgetFine => LedgerHolds
  BY BudgetStartsFit, BudgetOvershoot, BudgetRows DEF LedgerHolds
<1> QED
  BY <1>1, BudgetStarts, BudgetKept, PTL DEF BudgetSpec
=============================================================================
