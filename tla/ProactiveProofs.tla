-------------------------- MODULE ProactiveProofs --------------------------
(***************************************************************************)
(* Theorems about what the scheduler does of its own accord: the checks of *)
(* a promise, the heartbeat rounds over a source and the wakes of an       *)
(* agent.  The safety theorems keep their hypotheses because TLC has a     *)
(* counterexample without each.                                            *)
(***************************************************************************)
EXTENDS Promises, HeartbeatRounds, Wakes, FiniteSetTheorems, NaturalsInduction, WellFoundedInduction, TLAPS

-----------------------------------------------------------------------------
(***************************************************************************)
(* A promise, with one scheduler's tick at a time                          *)
(***************************************************************************)
\* s has a tick under way.
Busy(s) == ~At(s, "idle") /\ ~At(s, "dead")
OneTicks == \A s, r \in Scheduler : Busy(s) /\ Busy(r) => s = r

\* The end of the due s checks is still to go out, or out.
Before(s) == checker[s].pc \in {"read", "claimed", "telling"} \/ (At(s, "sent") /\ ~IsLast(s))
After(s) == At(s, "expiring") \/ (At(s, "sent") /\ IsLast(s))

Rows == [kind : {"time", "event"}, status : {"open", "expired", "settled"}, due : Nat, checks : Nat,
         next : Nat, expires : Nat]

\* The row s read: of this promise, when it was due.
RowRead ==
    \A s \in Scheduler : Busy(s) =>
        /\ checker[s].pc \in {"read", "claimed", "sent", "telling", "expiring"}
        /\ T(s) \in Instant /\ T(s) <= promiseNow
        /\ Row(s) \in Rows /\ Row(s).kind = promise.kind
        /\ Row(s).next <= T(s) /\ Row(s).due <= promise.due
        /\ checker[s].pc \in {"telling", "expiring"} => IsLast(s)

\* Without a re-date under a tick it is the row, until the tick writes it.
RowIsCurrent ==
    ~promiseSpent.crossed => \A s \in Scheduler : Busy(s) =>
        /\ Row(s).due = promise.due /\ Row(s).expires = promise.expires
        /\ ~At(s, "expiring") => Row(s).checks = promise.checks /\ Row(s).next = promise.next

\* A promise expires at the end of a tick.
ExpiredAtRest == promise.status = "expired" => \A s \in Scheduler : ~Busy(s)

\* Whoever is past the claim claimed its slot; before it sends no check of the slot is out.
ClaimedSlots ==
    /\ \A s \in Scheduler : Busy(s) /\ ~At(s, "read") => claims[Row(s).next] # Unclaimed
    /\ \A s \in Scheduler : checker[s].pc \in {"claimed", "telling"} => \A c \in checks : c.slot # Row(s).next
    /\ \A c \in checks : c.slot \in Instant /\ claims[c.slot] # Unclaimed

\* What went out is of a due of the promise; there are finitely many.
OutIsDue ==
    /\ IsFiniteSet(checks) /\ IsFiniteSet(lines)
    /\ \A e \in checks \cup lines : e.due \in Nat /\ e.due <= promise.due

Sending == IF \E s \in Scheduler : At(s, "sent") THEN 1 ELSE 0
CountedSoFar ==
    promise.status # "settled" /\ ~promiseSpent.crossed =>
        Cardinality(ChecksOf(promise.due)) <= promise.checks + promiseSpent.mishaps + Sending

\* The due had its end, but for mishaps.
Over(due) ==
    due = promise.due => \/ \E s \in Scheduler : After(s)
                         \/ promise.status # "open" /\ \A s \in Scheduler : ~Busy(s)
EndedOnce ==
    ~promiseSpent.crossed =>
        \A due \in 0..promise.due :
            Cardinality(EndsOf(due)) <= promiseSpent.mishaps + (IF Over(due) THEN 1 ELSE 0)

EndIsOut == \A s \in Scheduler : After(s) => EndsOf(Row(s).due) # {}

\* A time promise that was checked is due again when it expires.
NextAtExpiry ==
    ~promiseSpent.crossed /\ promise.kind = "time" =>
        /\ promise.checks >= 1 => promise.next >= promise.expires
        /\ \A s \in Scheduler : Busy(s) /\ Row(s).checks >= 1 => T(s) >= Row(s).expires
        /\ \A c \in checks : c.last => ~c.early

ExpiredHadEnd == ~promiseSpent.crossed => RedateIsKept

PrTyped ==
    /\ promiseNow \in Instant /\ promise \in Rows
    /\ claims \in [Instant -> Instant \cup {Unclaimed}]
    /\ DOMAIN checker = Scheduler /\ \A s \in Scheduler : DOMAIN checker[s] = {"pc", "t", "row"}
    /\ promiseSpent.mishaps \in Nat /\ DOMAIN promiseSpent = {"redates", "holds", "mishaps", "crossed"}

PrInv ==
    /\ PrTyped /\ OneTicks /\ RowRead /\ RowIsCurrent /\ ExpiredAtRest /\ ClaimedSlots /\ OutIsDue
    /\ SlotCheckedOnce /\ CountedSoFar /\ EndedOnce /\ EndIsOut /\ NextAtExpiry /\ ExpiredHadEnd

-----------------------------------------------------------------------------
\* The steps of a tick, by what they do.
MovesOn(s) ==
    \/ promise' = promise
    \/ promise.status = "open" /\ \E n \in Nat : n >= T(s) /\ promise' = [promise EXCEPT !.next = n]
Paid == promiseSpent' = [promiseSpent EXCEPT !.mishaps = @ + 1]
Spends == Paid \/ promiseSpent' = [promiseSpent EXCEPT !.holds = @ + 1] \/ promiseSpent' = promiseSpent

\* A tick ends: its scheduler rests or is dead.
Quits(s) ==
    /\ Busy(s) /\ MovesOn(s) /\ Spends
    /\ checker[s].pc \in {"sent", "telling", "expiring"} => Paid
    /\ \E pc \in {"idle", "dead"} : checker' = [checker EXCEPT ![s] = [AtRest EXCEPT !.pc = pc]]
    /\ UNCHANGED <<promiseNow, claims, checks, lines>>

ToTell(s) ==
    /\ At(s, "claimed") /\ IsLast(s) /\ Spends
    /\ checker' = [checker EXCEPT ![s] = [@ EXCEPT !.pc = "telling"]]
    /\ UNCHANGED <<promiseNow, promise, claims, checks, lines>>

LEMMA QuitsKeeps == ASSUME PrInv, NEW s \in Scheduler, Quits(s) PROVE PrInv'
<1> USE DEF PrInv
<1>1. PICK pc \in {"idle", "dead"} : checker' = [checker EXCEPT ![s] = [AtRest EXCEPT !.pc = pc]]
  BY DEF Quits
<1>2. checker'[s].pc = pc /\ DOMAIN checker' = Scheduler /\ DOMAIN checker'[s] = {"pc", "t", "row"} /\ \A r \in Scheduler : r # s => checker'[r] = checker[r]
  BY <1>1 DEF PrTyped, AtRest
<1>3. ~Busy(s)' /\ ~After(s)' /\ ~Before(s)'
  BY <1>2 DEF Busy, After, Before, At
<1>4. ASSUME NEW r \in Scheduler, Busy(r)' PROVE FALSE
  BY <1>2, <1>3, <1>4 DEF Busy, At, Quits, OneTicks
<1>5. PrTyped'
  BY <1>2 DEF PrTyped, Quits, MovesOn, Spends, Paid, Rows
<1>6. OneTicks' /\ RowRead' /\ RowIsCurrent' /\ ExpiredAtRest'
  BY <1>4 DEF OneTicks, RowRead, RowIsCurrent, ExpiredAtRest
<1>7. \A r \in Scheduler : checker'[r].pc \in {"idle", "dead"}
  BY <1>4 DEF Busy, At
<1>8. ClaimedSlots' /\ SlotCheckedOnce'
  BY <1>7, <1>4 DEF ClaimedSlots, SlotCheckedOnce, Quits
<1>9. promise'.kind = promise.kind /\ promise'.status = promise.status /\ promise'.due = promise.due
      /\ promise'.checks = promise.checks /\ promise'.expires = promise.expires
  BY DEF Quits, MovesOn, PrTyped, Rows
<1>10. OutIsDue'
  BY <1>9 DEF OutIsDue, Quits
<1>11. promiseSpent'.crossed = promiseSpent.crossed /\ promiseSpent'.mishaps \in {promiseSpent.mishaps, promiseSpent.mishaps + 1}
       /\ promiseSpent.mishaps \in Nat
       /\ (checker[s].pc \in {"sent", "telling", "expiring"} => promiseSpent'.mishaps = promiseSpent.mishaps + 1)
  BY DEF Quits, Spends, Paid, PrTyped
<1>12. ChecksOf(promise.due) = ChecksOf(promise.due)' /\ \A d : EndsOf(d) = EndsOf(d)'
  BY <1>9 DEF ChecksOf, EndsOf, Quits
<1>13. \A r \in Scheduler : Busy(r) => r = s
  BY DEF OneTicks, Quits
<1>14. CountedSoFar'
  <2>1. Sending' = 0 /\ Sending \in {0, 1}
    BY <1>7 DEF Sending, At
  <2>2. Sending = 1 => checker[s].pc = "sent"
    BY <1>13 DEF Sending, At, Busy
  <2>3. IsFiniteSet(ChecksOf(promise.due))
    BY FS_Subset DEF ChecksOf, OutIsDue
  <2>4. Cardinality(ChecksOf(promise.due)) \in Nat /\ promise.checks \in Nat
    BY <2>3, FS_CardinalityType DEF PrTyped, Rows
  <2>5. promise'.status = promise.status /\ promise'.checks = promise.checks
    BY <1>9
  <2> QED
    BY <2>1, <2>2, <2>4, <2>5, <1>11, <1>12 DEF CountedSoFar
<1>15. EndedOnce'
  <2> SUFFICES ASSUME ~promiseSpent.crossed, NEW due \in 0..promise.due
               PROVE Cardinality(EndsOf(due)) <= promiseSpent'.mishaps + (IF Over(due)' THEN 1 ELSE 0)
    BY <1>9, <1>11, <1>12 DEF EndedOnce
  <2>1. Cardinality(EndsOf(due)) <= promiseSpent.mishaps + (IF Over(due) THEN 1 ELSE 0)
    BY DEF EndedOnce
  <2>2. Cardinality(EndsOf(due)) \in Nat
    <3>1. IsFiniteSet(ChecksOf(due)) /\ IsFiniteSet({c \in ChecksOf(due) : c.last}) /\ IsFiniteSet({l \in lines : l.due = due})
      BY FS_Subset DEF ChecksOf, OutIsDue
    <3> QED
      BY <3>1, FS_Union, FS_CardinalityType DEF EndsOf
  <2>3. CASE checker[s].pc \in {"sent", "expiring"}
    BY <2>1, <2>2, <2>3, <1>11
  <2>4. CASE checker[s].pc \notin {"sent", "expiring"}
    <3>1. \A r \in Scheduler : ~After(r)
      BY <1>13, <2>4 DEF After, At, Busy
    <3>2. Over(due) => Over(due)'
      BY <3>1, <1>9, <1>4 DEF Over
    <3> QED
      BY <3>2, <2>1, <2>2, <1>11
  <2> QED
    BY <2>3, <2>4
<1>16. EndIsOut'
  BY <1>7 DEF EndIsOut, After, At
<1>17. NextAtExpiry'
  <2> SUFFICES ASSUME ~promiseSpent.crossed, promise.kind = "time"
               PROVE /\ promise.checks >= 1 => promise'.next >= promise.expires
                     /\ \A c \in checks : c.last => ~c.early
    BY <1>4, <1>9, <1>11 DEF NextAtExpiry, Quits
  <2>1. \A c \in checks : c.last => ~c.early
    BY DEF NextAtExpiry
  <2>2. ASSUME promise.checks >= 1 PROVE T(s) >= promise.expires
    <3>1. CASE At(s, "expiring")
      <4>1. Row(s).kind = "time" /\ IsLast(s) /\ Row(s).expires = promise.expires
        BY <3>1 DEF RowRead, RowIsCurrent, Quits, At
      <4>2. Row(s).checks >= 1 => T(s) >= Row(s).expires
        BY DEF NextAtExpiry, Quits
      <4>3. QED
        BY <4>1, <4>2 DEF IsLast
    <3>2. CASE ~At(s, "expiring")
      <4>1. Row(s).next = promise.next /\ Row(s).next <= T(s) /\ promise.next >= promise.expires
        BY <2>2, <3>2 DEF RowRead, RowIsCurrent, NextAtExpiry, Quits
      <4>2. QED
        BY <4>1 DEF PrTyped, Rows, RowRead, Quits, Instant
    <3> QED
      BY <3>1, <3>2
  <2>3. promise.checks >= 1 => promise'.next >= promise.expires
    BY <2>2 DEF Quits, MovesOn, PrTyped, Rows, NextAtExpiry, RowRead, Instant
  <2> QED
    BY <2>1, <2>3
<1>18. ExpiredHadEnd'
  BY <1>9, <1>11, <1>12 DEF ExpiredHadEnd, RedateIsKept
<1> QED
  BY <1>5, <1>6, <1>8, <1>10, <1>14, <1>15, <1>16, <1>17, <1>18

\* What the counts rest on.
LEMMA OutIsFinite ==
    ASSUME OutIsDue, NEW d
    PROVE  /\ IsFiniteSet(ChecksOf(d)) /\ IsFiniteSet(EndsOf(d))
           /\ Cardinality(ChecksOf(d)) \in Nat /\ Cardinality(EndsOf(d)) \in Nat
<1>1. IsFiniteSet(ChecksOf(d)) /\ IsFiniteSet({c \in ChecksOf(d) : c.last}) /\ IsFiniteSet({l \in lines : l.due = d})
  BY FS_Subset DEF ChecksOf, OutIsDue
<1>2. QED
  BY <1>1, FS_Union, FS_CardinalityType DEF EndsOf

LEMMA OneMore ==
    ASSUME NEW A, IsFiniteSet(A), NEW e, NEW B, B \in {A, A \cup {e}}
    PROVE  Cardinality(A) \in Nat /\ Cardinality(B) \in Nat /\ Cardinality(B) \in {Cardinality(A), Cardinality(A) + 1}
<1>1. Cardinality(A) \in Nat /\ Cardinality(A \cup {e}) \in {Cardinality(A), Cardinality(A) + 1}
  BY FS_CardinalityType, FS_AddElement
<1>2. CASE B = A
  BY <1>1, <1>2
<1>3. CASE B = A \cup {e}
  BY <1>1, <1>3
<1> QED
  BY <1>2, <1>3

\* Nothing of a due to come is out.
LEMMA NothingYet ==
    ASSUME OutIsDue, promise.due \in Nat, NEW d \in Nat, d > promise.due PROVE ChecksOf(d) = {} /\ EndsOf(d) = {}
BY DEF OutIsDue, ChecksOf, EndsOf

LEMMA PromiseTimeKeeps == ASSUME PrInv, PromiseTime PROVE PrInv'
<1> USE DEF PrInv
<1>1. promiseNow' = promiseNow + 1 /\ promiseNow < MaxNow
      /\ UNCHANGED <<promise, claims, checker, checks, lines, promiseSpent>>
  BY DEF PromiseTime
<1>2. PrTyped' /\ OneTicks' /\ RowIsCurrent' /\ ExpiredAtRest' /\ ClaimedSlots' /\ OutIsDue' /\ SlotCheckedOnce'
  BY <1>1, PromiseAssumption
     DEF PrTyped, Instant, OneTicks, RowIsCurrent, ExpiredAtRest, ClaimedSlots, OutIsDue, SlotCheckedOnce,
         Busy, At, Row
<1>3. RowRead'
  <2>1. SUFFICES ASSUME NEW s \in Scheduler, Busy(s), T(s) \in Instant, T(s) <= promiseNow PROVE T(s) <= promiseNow'
    BY <1>1 DEF RowRead, Busy, At, T, Row, IsLast
  <2>2. QED
    BY <2>1, <1>1, PromiseAssumption DEF PrTyped, Instant
<1>4. CountedSoFar' /\ EndedOnce' /\ EndIsOut' /\ NextAtExpiry' /\ ExpiredHadEnd'
  <2>1. Sending' = Sending /\ \A d : ChecksOf(d)' = ChecksOf(d) /\ EndsOf(d)' = EndsOf(d) /\ Over(d)' = Over(d)
    BY <1>1 DEF Sending, ChecksOf, EndsOf, Over, After, Busy, At, IsLast, T, Row
  <2>2. QED
    BY <2>1, <1>1 DEF CountedSoFar, EndedOnce, EndIsOut, NextAtExpiry, ExpiredHadEnd, RedateIsKept,
                      After, Busy, At, IsLast, T, Row
<1> QED
  BY <1>2, <1>3, <1>4

LEMMA RedateKeeps == ASSUME PrInv, Redate PROVE PrInv'
<1> USE DEF PrInv
<1>1. PICK d \in Dues(promise.kind) :
        promise' = [promise EXCEPT !.due = @ + 1, !.next = d.next, !.expires = d.expires, !.checks = 0]
  BY DEF Redate
<1>2. /\ promise.status = "open" /\ UNCHANGED <<promiseNow, claims, checker, checks, lines>>
      /\ promiseSpent' = [promiseSpent EXCEPT !.redates = @ + 1,
                                              !.crossed = @ \/ \E s \in Live : ~At(s, "idle")]
  BY DEF Redate
<1>3. d.next \in Nat /\ d.expires \in Nat
  BY PromiseAssumption DEF Dues, PrTyped, Instant
<1>5. /\ promise'.kind = promise.kind /\ promise'.status = "open" /\ promise'.due = promise.due + 1 /\ promise.due \in Nat
      /\ promise'.checks = 0
  BY <1>1, <1>2 DEF PrTyped, Rows
<1>6. promiseSpent'.mishaps = promiseSpent.mishaps /\ promiseSpent.mishaps \in Nat
      /\ (~promiseSpent'.crossed => ~promiseSpent.crossed /\ \A s \in Scheduler : ~Busy(s))
  BY <1>2 DEF PrTyped, Live, Busy, At
<1>20. PrTyped'
  <2>1. DOMAIN promiseSpent' = DOMAIN promiseSpent
    BY <1>2
  <2>2. promiseSpent'.mishaps \in Nat
    BY <1>6
  <2>3. promise' \in Rows
    <3>1. promise \in Rows
      BY DEF PrTyped
    <3>2. promise' = [kind |-> promise.kind, status |-> promise.status, due |-> promise.due + 1,
                      checks |-> 0, next |-> d.next, expires |-> d.expires]
      BY <3>1, <1>1 DEF Rows
    <3>3. QED
      BY <3>1, <3>2, <1>3 DEF Rows
  <2>4. UNCHANGED <<promiseNow, claims, checker>>
    BY <1>2
  <2>5. QED
    BY <2>1, <2>2, <2>3, <2>4 DEF PrTyped
<1>7. OneTicks' /\ ClaimedSlots' /\ SlotCheckedOnce' /\ EndIsOut'
  BY <1>2 DEF OneTicks, ClaimedSlots, SlotCheckedOnce, EndIsOut, After, EndsOf, ChecksOf, IsLast, Busy, At, Row, T
<1>8. RowRead'
  <2>1. SUFFICES ASSUME NEW s \in Scheduler, Busy(s), Row(s) \in Rows, Row(s).due <= promise.due
                 PROVE Row(s).due <= promise'.due
    BY <1>2, <1>5 DEF RowRead, Busy, At, T, Row, IsLast
  <2>2. QED
    BY <2>1, <1>5 DEF Rows
<1>9. OutIsDue'
  BY <1>2, <1>5 DEF OutIsDue
<1>10. RowIsCurrent' /\ ExpiredAtRest' /\ ExpiredHadEnd'
  BY <1>2, <1>5, <1>6 DEF RowIsCurrent, ExpiredAtRest, ExpiredHadEnd, RedateIsKept, Busy, At
<1>11. \A x : ChecksOf(x)' = ChecksOf(x) /\ EndsOf(x)' = EndsOf(x)
  BY <1>2 DEF ChecksOf, EndsOf
<1>12. ChecksOf(promise'.due) = {} /\ EndsOf(promise'.due) = {}
  BY <1>5, NothingYet
<1>13. CountedSoFar'
  <2>1. Sending' \in {0, 1}
    BY DEF Sending
  <2>2. Cardinality(ChecksOf(promise.due)') = 0
    BY <1>11, <1>12, FS_EmptySet
  <2>3. QED
    BY <2>1, <2>2, <1>5, <1>6 DEF CountedSoFar
<1>14. EndedOnce'
  <2>1. SUFFICES ASSUME ~promiseSpent'.crossed, NEW x \in 0..promise'.due
                 PROVE Cardinality(EndsOf(x)) <= promiseSpent.mishaps + (IF Over(x)' THEN 1 ELSE 0)
    BY <1>11, <1>6 DEF EndedOnce
  <2>2. CASE x = promise'.due
    BY <2>2, <1>12, <1>6, FS_EmptySet
  <2>3. CASE x # promise'.due
    <3>1. x \in 0..promise.due /\ Over(x)'
      BY <2>3, <2>1, <1>5 DEF Over
    <3>2. Cardinality(EndsOf(x)) <= promiseSpent.mishaps + (IF Over(x) THEN 1 ELSE 0)
      BY <3>1, <2>1, <1>6 DEF EndedOnce
    <3>3. Cardinality(EndsOf(x)) \in Nat
      BY OutIsFinite
    <3>4. QED
      BY <3>1, <3>2, <3>3, <1>6
  <2>4. QED
    BY <2>2, <2>3
<1>15. NextAtExpiry'
  BY <1>2, <1>5, <1>6 DEF NextAtExpiry, Busy, At
<1> QED
  BY <1>20, <1>7, <1>8, <1>9, <1>10, <1>13, <1>14, <1>15

LEMMA SettlePageKeeps == ASSUME PrInv, SettlePage PROVE PrInv'
<1> USE DEF PrInv
<1>1. /\ promise' = [promise EXCEPT !.status = "settled"]
      /\ UNCHANGED <<promiseNow, claims, checker, checks, lines, promiseSpent>>
  BY DEF SettlePage
<1>2. PrTyped'
  BY <1>1 DEF PrTyped, Rows
<1>3. /\ promise'.kind = promise.kind /\ promise'.status = "settled" /\ promise'.due = promise.due
      /\ promise'.checks = promise.checks /\ promise'.next = promise.next /\ promise'.expires = promise.expires
  BY <1>1 DEF PrTyped, Rows
<1>4. /\ OneTicks' /\ RowRead' /\ RowIsCurrent' /\ ExpiredAtRest' /\ ClaimedSlots' /\ OutIsDue' /\ SlotCheckedOnce'
      /\ CountedSoFar' /\ NextAtExpiry' /\ ExpiredHadEnd'
  BY <1>1, <1>3 DEF OneTicks, RowRead, RowIsCurrent, ExpiredAtRest, ClaimedSlots, OutIsDue, SlotCheckedOnce,
                    CountedSoFar, NextAtExpiry, ExpiredHadEnd, RedateIsKept, Busy, At, IsLast, T, Row
<1>5. EndIsOut'
  BY <1>1 DEF EndIsOut, After, EndsOf, ChecksOf, IsLast, Busy, At, Row, T
<1>6. EndedOnce'
  <2>1. SUFFICES ASSUME ~promiseSpent.crossed, NEW x \in 0..promise.due
                 PROVE Cardinality(EndsOf(x)) <= promiseSpent.mishaps + (IF Over(x)' THEN 1 ELSE 0)
    BY <1>1, <1>3 DEF EndedOnce, EndsOf, ChecksOf
  <2>2. Over(x) => Over(x)'
    BY <1>1, <1>3 DEF Over, After, Busy, At, IsLast, T, Row
  <2>3. Cardinality(EndsOf(x)) \in Nat /\ promiseSpent.mishaps \in Nat
    BY OutIsFinite DEF PrTyped
  <2>4. Cardinality(EndsOf(x)) <= promiseSpent.mishaps + (IF Over(x) THEN 1 ELSE 0)
    BY <2>1 DEF EndedOnce
  <2>5. QED
    BY <2>2, <2>3, <2>4
<1> QED
  BY <1>2, <1>4, <1>5, <1>6

LEMMA ReadDueKeeps == ASSUME PrInv, ~Overlap, NEW s \in Scheduler, ReadDue(s) PROVE PrInv'
<1> USE DEF PrInv
<1>1. /\ At(s, "idle") /\ promise.status = "open" /\ promise.next <= promiseNow
      /\ checker' = [checker EXCEPT ![s] = [pc |-> "read", t |-> promiseNow, row |-> promise]]
      /\ UNCHANGED <<promiseNow, promise, claims, checks, lines, promiseSpent>>
  BY DEF ReadDue
<1>2. \A r \in Scheduler : ~Busy(r)
  BY DEF ReadDue, Live, Busy, At
<1>3. /\ checker'[s] = [pc |-> "read", t |-> promiseNow, row |-> promise] /\ DOMAIN checker' = Scheduler
      /\ \A r \in Scheduler : r # s => checker'[r] = checker[r]
  BY <1>1 DEF PrTyped
<1>4. /\ At(s, "read")' /\ Busy(s)' /\ T(s)' = promiseNow /\ Row(s)' = promise
      /\ \A r \in Scheduler : Busy(r)' => r = s
      /\ \A r \in Scheduler : r # s => checker'[r].pc \in {"idle", "dead"}
  BY <1>2, <1>3 DEF Busy, At, T, Row
<1>5. PrTyped' /\ OneTicks' /\ ExpiredAtRest' /\ OutIsDue' /\ SlotCheckedOnce'
  BY <1>1, <1>3, <1>4 DEF PrTyped, OneTicks, ExpiredAtRest, OutIsDue, SlotCheckedOnce
<1>6. RowRead' /\ RowIsCurrent'
  BY <1>1, <1>3, <1>4 DEF RowRead, RowIsCurrent, At, PrTyped, Rows, Instant
<1>7. ClaimedSlots'
  BY <1>1, <1>3, <1>4 DEF ClaimedSlots, At, Busy
<1>8. ~After(s)' /\ \A r \in Scheduler : ~After(r)'
  BY <1>3, <1>4 DEF After, At
<1>9. EndIsOut'
  BY <1>8 DEF EndIsOut
<1>10. Sending = 0 /\ Sending' = 0 /\ \A d : ChecksOf(d)' = ChecksOf(d) /\ EndsOf(d)' = EndsOf(d)
  BY <1>1, <1>2, <1>4 DEF Sending, At, Busy, ChecksOf, EndsOf
<1>11. CountedSoFar' /\ ExpiredHadEnd'
  BY <1>1, <1>10 DEF CountedSoFar, ExpiredHadEnd, RedateIsKept
<1>12. EndedOnce'
  <2>1. \A d : Over(d)' <=> Over(d)
    BY <1>1, <1>2, <1>8 DEF Over, After, Busy, At
  <2>2. QED
    BY <2>1, <1>1, <1>10 DEF EndedOnce
<1>13. NextAtExpiry'
  <2>1. ASSUME ~promiseSpent.crossed, promise.kind = "time", promise.checks >= 1 PROVE promiseNow >= promise.expires
    BY <2>1, <1>1 DEF NextAtExpiry, PrTyped, Rows, Instant
  <2>2. QED
    BY <2>1, <1>1, <1>4 DEF NextAtExpiry
<1> QED
  BY <1>5, <1>6, <1>7, <1>9, <1>11, <1>12, <1>13

-----------------------------------------------------------------------------
\* A tick that goes on; the others are at rest.
Stays(s, pc) == Busy(s) /\ checker' = [checker EXCEPT ![s] = [@ EXCEPT !.pc = pc]]

LEMMA TickGoesOn ==
    ASSUME PrInv, NEW s \in Scheduler, NEW pc \in {"claimed", "sent", "telling", "expiring"}, Stays(s, pc)
    PROVE  /\ DOMAIN checker' = Scheduler /\ \A r \in Scheduler : DOMAIN checker'[r] = {"pc", "t", "row"}
           /\ checker'[s].pc = pc /\ checker'[s].t = checker[s].t /\ checker'[s].row = checker[s].row
           /\ \A r \in Scheduler : r # s => checker'[r] = checker[r] /\ checker[r].pc \in {"idle", "dead"}
           /\ Busy(s)' /\ \A r \in Scheduler : Busy(r) \/ Busy(r)' => r = s
<1>1. /\ DOMAIN checker = Scheduler /\ \A r \in Scheduler : DOMAIN checker[r] = {"pc", "t", "row"}
      /\ \A r \in Scheduler : Busy(r) => r = s
  BY DEF PrInv, PrTyped, OneTicks, Stays
<1>2. DOMAIN checker' = Scheduler /\ \A r \in Scheduler : r # s => checker'[r] = checker[r]
  BY <1>1 DEF Stays
<1>3. checker'[s] = [checker[s] EXCEPT !.pc = pc]
  BY <1>1 DEF Stays
<1>4. DOMAIN checker'[s] = {"pc", "t", "row"} /\ checker'[s].pc = pc /\ checker'[s].t = checker[s].t
      /\ checker'[s].row = checker[s].row
  BY <1>1, <1>3
<1> QED
  BY <1>1, <1>2, <1>4 DEF Busy, At

\* The row it read is still what it works on.
LEMMA RowStays ==
    ASSUME PrInv, NEW s \in Scheduler, NEW pc \in {"claimed", "sent", "telling", "expiring"}, Stays(s, pc),
           promiseNow' = promiseNow, promise' = promise, promiseSpent'.crossed = promiseSpent.crossed,
           ~At(s, "expiring"), pc \in {"telling", "expiring"} => IsLast(s)
    PROVE  OneTicks' /\ RowRead' /\ RowIsCurrent' /\ ExpiredAtRest'
<1>1. /\ checker'[s].pc = pc /\ T(s)' = T(s) /\ Row(s)' = Row(s) /\ IsLast(s)' = IsLast(s)
      /\ \A r \in Scheduler : Busy(r) \/ Busy(r)' => r = s
      /\ Busy(s)
  <2>1. /\ checker'[s].pc = pc /\ checker'[s].t = checker[s].t /\ checker'[s].row = checker[s].row
        /\ \A r \in Scheduler : Busy(r) \/ Busy(r)' => r = s
    BY TickGoesOn
  <2>2. promise' = promise /\ promiseSpent'.crossed = promiseSpent.crossed
    OBVIOUS
  <2>3. Busy(s)
    BY DEF Stays
  <2> QED
    BY <2>1, <2>2, <2>3 DEF T, Row, IsLast
<1>2. OneTicks' /\ ExpiredAtRest'
  BY <1>1 DEF OneTicks, ExpiredAtRest, PrInv
<1>3. RowRead'
  BY <1>1 DEF RowRead, PrInv
<1>4. RowIsCurrent'
  BY <1>1 DEF RowIsCurrent, PrInv, At
<1> QED
  BY <1>2, <1>3, <1>4

\* What went out stays as it was, and nobody's turn came to send.
LEMMA CountsStay ==
    ASSUME PrInv, NEW s \in Scheduler, NEW pc \in {"claimed", "telling"}, Stays(s, pc),
           UNCHANGED <<promise, checks, lines, promiseSpent>>, ~After(s), ~At(s, "sent")
    PROVE  OutIsDue' /\ SlotCheckedOnce' /\ CountedSoFar' /\ EndedOnce' /\ EndIsOut' /\ NextAtExpiry' /\ ExpiredHadEnd'
<1>1. /\ checker'[s].pc = pc /\ T(s)' = T(s) /\ Row(s)' = Row(s)
      /\ \A r \in Scheduler : Busy(r) \/ Busy(r)' => r = s
      /\ \A r \in Scheduler : r # s => checker'[r].pc \in {"idle", "dead"} /\ checker[r].pc \in {"idle", "dead"}
      /\ Busy(s) /\ Busy(s)'
  BY TickGoesOn DEF T, Row, Stays
<1>2. \A d : ChecksOf(d)' = ChecksOf(d) /\ EndsOf(d)' = EndsOf(d)
  BY DEF ChecksOf, EndsOf
<1>3. \A r \in Scheduler : ~After(r) /\ ~After(r)' /\ ~At(r, "sent") /\ ~At(r, "sent")'
  BY <1>1 DEF After, At
<1>4. \A d : Over(d)' <=> Over(d)
  BY <1>1, <1>3 DEF Over
<1>5. Sending' = Sending
  BY <1>3 DEF Sending
<1> QED
  BY <1>1, <1>2, <1>3, <1>4, <1>5
     DEF PrInv, OutIsDue, SlotCheckedOnce, CountedSoFar, EndedOnce, EndIsOut, NextAtExpiry, ExpiredHadEnd, RedateIsKept

LEMMA ClaimSlotKeeps == ASSUME PrInv, NEW s \in Scheduler, ClaimSlot(s) PROVE PrInv'
<1>1. /\ At(s, "read") /\ claims[Row(s).next] = Unclaimed /\ claims' = [claims EXCEPT ![Row(s).next] = T(s)]
      /\ checker' = [checker EXCEPT ![s] = [@ EXCEPT !.pc = "claimed"]]
      /\ UNCHANGED <<promiseNow, promise, checks, lines, promiseSpent>>
  BY DEF ClaimSlot, Goes
<1>2. Stays(s, "claimed") /\ ~After(s) /\ ~At(s, "sent") /\ Busy(s)
  BY <1>1 DEF Stays, Busy, At, After
<1>3. OneTicks' /\ RowRead' /\ RowIsCurrent' /\ ExpiredAtRest'
  BY <1>1, <1>2, RowStays DEF At
<1>4. OutIsDue' /\ SlotCheckedOnce' /\ CountedSoFar' /\ EndedOnce' /\ EndIsOut' /\ NextAtExpiry' /\ ExpiredHadEnd'
  BY <1>1, <1>2, CountsStay
<1>5. T(s) \in Instant /\ Row(s).next \in Instant /\ T(s) # Unclaimed
  <2>1. promiseNow \in Instant /\ T(s) \in Instant /\ T(s) <= promiseNow
    BY <1>2 DEF PrInv, RowRead, PrTyped
  <2>2. Row(s).next \in Nat /\ Row(s).next <= T(s)
    BY <1>2 DEF PrInv, RowRead, Rows
  <2>3. MaxNow \in Nat
    BY PromiseAssumption
  <2> QED
    BY <2>1, <2>2, <2>3 DEF Instant, Unclaimed
<1>6. PrTyped'
  BY <1>1, <1>2, <1>5, TickGoesOn DEF PrInv, PrTyped
<1>7. ClaimedSlots'
  <2>1. /\ checker'[s].pc = "claimed" /\ Row(s)' = Row(s)
        /\ \A r \in Scheduler : Busy(r)' => r = s
        /\ \A r \in Scheduler : r # s => checker'[r].pc \in {"idle", "dead"}
    BY <1>2, TickGoesOn DEF Row
  <2>2. claims'[Row(s).next] # Unclaimed /\ \A n \in Instant : claims[n] # Unclaimed => claims'[n] # Unclaimed
    BY <1>1, <1>5 DEF PrInv, PrTyped
  <2>3. \A c \in checks : c.slot # Row(s).next
    BY <1>1 DEF PrInv, ClaimedSlots
  <2>4. QED
    BY <1>1, <2>1, <2>2, <2>3 DEF PrInv, ClaimedSlots
<1> QED
  BY <1>3, <1>4, <1>6, <1>7 DEF PrInv

LEMMA ToTellKeeps == ASSUME PrInv, NEW s \in Scheduler, ToTell(s) PROVE PrInv'
<1>1. /\ At(s, "claimed") /\ IsLast(s) /\ Spends
      /\ checker' = [checker EXCEPT ![s] = [@ EXCEPT !.pc = "telling"]]
      /\ UNCHANGED <<promiseNow, promise, claims, checks, lines>>
  BY DEF ToTell
<1>2. Stays(s, "telling") /\ ~After(s) /\ ~At(s, "sent") /\ Busy(s)
  BY <1>1 DEF Stays, Busy, At, After
<1>3. promiseSpent'.crossed = promiseSpent.crossed /\ promiseSpent.mishaps \in Nat
      /\ promiseSpent'.mishaps \in {promiseSpent.mishaps, promiseSpent.mishaps + 1}
      /\ DOMAIN promiseSpent' = DOMAIN promiseSpent
  BY <1>1 DEF Spends, Paid, PrInv, PrTyped
<1>4. OneTicks' /\ RowRead' /\ RowIsCurrent' /\ ExpiredAtRest'
  BY <1>1, <1>2, <1>3, RowStays DEF At
<1>5. /\ checker'[s].pc = "telling" /\ Row(s)' = Row(s) /\ T(s)' = T(s)
      /\ \A r \in Scheduler : Busy(r)' => r = s
      /\ \A r \in Scheduler : r # s => checker'[r].pc \in {"idle", "dead"} /\ checker[r].pc \in {"idle", "dead"}
      /\ Busy(s)'
  BY <1>2, TickGoesOn DEF Row, T
<1>6. PrTyped' /\ ClaimedSlots'
  BY <1>1, <1>2, <1>3, <1>5, TickGoesOn DEF PrInv, PrTyped, ClaimedSlots, At
<1>7. OutIsDue' /\ SlotCheckedOnce'
  BY <1>1 DEF PrInv, OutIsDue, SlotCheckedOnce
<1>8. \A d : ChecksOf(d)' = ChecksOf(d) /\ EndsOf(d)' = EndsOf(d)
  BY <1>1 DEF ChecksOf, EndsOf
<1>9. \A r \in Scheduler : ~After(r) /\ ~After(r)' /\ ~At(r, "sent") /\ ~At(r, "sent")'
  BY <1>1, <1>5 DEF After, At
<1>10. (\A d : Over(d)' <=> Over(d)) /\ Sending' = 0 /\ Sending = 0
  BY <1>1, <1>2, <1>5, <1>9 DEF Over, Sending
<1>11. CountedSoFar'
  <2>1. Cardinality(ChecksOf(promise.due)) \in Nat /\ promise.checks \in Nat
    BY OutIsFinite DEF PrInv, PrTyped, Rows
  <2>2. QED
    BY <2>1, <1>1, <1>3, <1>8, <1>10 DEF PrInv, CountedSoFar
<1>12. EndedOnce'
  <2>1. SUFFICES ASSUME ~promiseSpent.crossed, NEW x \in 0..promise.due
                 PROVE Cardinality(EndsOf(x)) <= promiseSpent'.mishaps + (IF Over(x) THEN 1 ELSE 0)
    BY <1>1, <1>3, <1>8, <1>10 DEF EndedOnce
  <2>2. Cardinality(EndsOf(x)) \in Nat
    BY OutIsFinite DEF PrInv
  <2>3. Cardinality(EndsOf(x)) <= promiseSpent.mishaps + (IF Over(x) THEN 1 ELSE 0)
    BY <2>1 DEF PrInv, EndedOnce
  <2>4. QED
    BY <2>2, <2>3, <1>3
<1>13. EndIsOut' /\ NextAtExpiry' /\ ExpiredHadEnd'
  BY <1>1, <1>2, <1>3, <1>5, <1>8, <1>9 DEF PrInv, EndIsOut, NextAtExpiry, ExpiredHadEnd, RedateIsKept
<1> QED
  BY <1>4, <1>6, <1>7, <1>11, <1>12, <1>13 DEF PrInv

LEMMA DispatchCheckKeeps == ASSUME PrInv, NEW s \in Scheduler, DispatchCheck(s) PROVE PrInv'
<1> DEFINE c == [due |-> Row(s).due, slot |-> Row(s).next, by |-> s, last |-> IsLast(s), early |-> T(s) < Row(s).expires]
<1>1. /\ At(s, "claimed") /\ checks' = checks \cup {c}
      /\ checker' = [checker EXCEPT ![s] = [@ EXCEPT !.pc = "sent"]]
      /\ UNCHANGED <<promiseNow, promise, claims, lines, promiseSpent>>
  BY DEF DispatchCheck, Goes
<1>2. Stays(s, "sent") /\ ~After(s) /\ ~At(s, "sent") /\ Busy(s)
  BY <1>1 DEF Stays, Busy, At, After
<1>3. OneTicks' /\ RowRead' /\ RowIsCurrent' /\ ExpiredAtRest'
  BY <1>1, <1>2, RowStays DEF At
<1>4. /\ checker'[s].pc = "sent" /\ T(s)' = T(s) /\ Row(s)' = Row(s) /\ IsLast(s)' = IsLast(s)
      /\ \A r \in Scheduler : Busy(r) \/ Busy(r)' => r = s
      /\ \A r \in Scheduler : r # s => checker'[r].pc \in {"idle", "dead"} /\ checker[r].pc \in {"idle", "dead"}
      /\ Busy(s)'
  BY <1>2, TickGoesOn DEF T, Row, IsLast
<1>5. /\ T(s) \in Instant /\ Row(s).next \in Instant /\ Row(s) \in Rows /\ Row(s).due <= promise.due
      /\ Row(s).kind = promise.kind /\ claims[Row(s).next] # Unclaimed /\ Row(s).next <= T(s)
      /\ \A e \in checks : e.slot # Row(s).next
  BY <1>1, <1>2, PromiseAssumption DEF PrInv, RowRead, ClaimedSlots, Instant, Rows, At
<1>6. c.due = Row(s).due /\ c.slot = Row(s).next /\ (c.last <=> IsLast(s)) /\ (c.early <=> T(s) < Row(s).expires)
  OBVIOUS
<1> HIDE DEF c
<1>7. PrTyped'
  BY <1>1, <1>2, TickGoesOn DEF PrInv, PrTyped
<1>8. ClaimedSlots'
  BY <1>1, <1>2, <1>4, <1>5, <1>6 DEF PrInv, ClaimedSlots
<1>9. OutIsDue'
  <2>1. IsFiniteSet(checks')
    BY <1>1, FS_AddElement DEF PrInv, OutIsDue
  <2>2. QED
    BY <2>1, <1>1, <1>5, <1>6 DEF PrInv, OutIsDue, Rows
<1>10. SlotCheckedOnce'
  BY <1>1, <1>5, <1>6 DEF PrInv, SlotCheckedOnce
<1>11. \A r \in Scheduler : ~After(r) /\ ~At(r, "sent")
  BY <1>1, <1>4 DEF After, At
<1>12. Sending = 0 /\ Sending' = 1
  BY <1>4, <1>11 DEF Sending, At
<1>13. ASSUME NEW d
       PROVE  /\ Cardinality(ChecksOf(d)') <= Cardinality(ChecksOf(d)) + 1 /\ Cardinality(ChecksOf(d)) \in Nat
              /\ Cardinality(EndsOf(d)') <= Cardinality(EndsOf(d)) + 1 /\ Cardinality(EndsOf(d)) \in Nat
              /\ Cardinality(ChecksOf(d)') \in Nat /\ Cardinality(EndsOf(d)') \in Nat
              /\ ~IsLast(s) \/ d # c.due => EndsOf(d)' = EndsOf(d)
  <2>1. ChecksOf(d)' \in {ChecksOf(d), ChecksOf(d) \cup {c}}
    BY <1>1 DEF ChecksOf
  <2>2. EndsOf(d)' \in {EndsOf(d), EndsOf(d) \cup {c}} /\ (~IsLast(s) \/ d # c.due => EndsOf(d)' = EndsOf(d))
    BY <1>1, <1>6 DEF EndsOf, ChecksOf
  <2>3. IsFiniteSet(ChecksOf(d)) /\ IsFiniteSet(EndsOf(d))
    BY OutIsFinite DEF PrInv
  <2>4. /\ Cardinality(ChecksOf(d)) \in Nat /\ Cardinality(ChecksOf(d)') \in Nat
        /\ Cardinality(ChecksOf(d)') \in {Cardinality(ChecksOf(d)), Cardinality(ChecksOf(d)) + 1}
    BY <2>1, <2>3, OneMore
  <2>5. /\ Cardinality(EndsOf(d)) \in Nat /\ Cardinality(EndsOf(d)') \in Nat
        /\ Cardinality(EndsOf(d)') \in {Cardinality(EndsOf(d)), Cardinality(EndsOf(d)) + 1}
    BY <2>2, <2>3, OneMore
  <2>6. QED
    BY <2>2, <2>4, <2>5
<1>14. CountedSoFar'
  <2>0. PICK k : k = promise.due /\ k = promise'.due
    BY <1>1
  <2>1. SUFFICES ASSUME promise.status # "settled", ~promiseSpent.crossed
                 PROVE Cardinality(ChecksOf(promise.due)') <= promise.checks + promiseSpent.mishaps + 1
    BY <1>1, <1>12 DEF CountedSoFar, ChecksOf
  <2>2. Cardinality(ChecksOf(promise.due)) <= promise.checks + promiseSpent.mishaps
    BY <2>1, <1>12 DEF PrInv, CountedSoFar, PrTyped, Rows
  <2>3. promise.checks \in Nat /\ promiseSpent.mishaps \in Nat
    BY DEF PrInv, PrTyped, Rows
  <2>4. /\ Cardinality(ChecksOf(k)') <= Cardinality(ChecksOf(k)) + 1 /\ Cardinality(ChecksOf(k)) \in Nat
        /\ Cardinality(ChecksOf(k)') \in Nat
    BY <1>13
  <2>5. Cardinality(ChecksOf(k)) <= promise.checks + promiseSpent.mishaps
    BY <2>0, <2>2
  <2>6. Cardinality(ChecksOf(k)') <= promise.checks + promiseSpent.mishaps + 1
    BY <2>3, <2>4, <2>5
  <2>7. ChecksOf(promise.due)' = ChecksOf(k)'
    BY <2>0 DEF ChecksOf
  <2>8. QED
    BY <2>6, <2>7
<1>15. EndedOnce'
  <2>1. SUFFICES ASSUME ~promiseSpent.crossed, NEW x \in 0..promise.due
                 PROVE Cardinality(EndsOf(x)') <= promiseSpent.mishaps + (IF Over(x)' THEN 1 ELSE 0)
    BY <1>1 DEF EndedOnce
  <2>2. Cardinality(EndsOf(x)) <= promiseSpent.mishaps + (IF Over(x) THEN 1 ELSE 0) /\ promiseSpent.mishaps \in Nat
    BY <2>1 DEF PrInv, EndedOnce, PrTyped
  <2>3. CASE IsLast(s) /\ x = c.due
    <3>1. c.due = promise.due
      BY <1>2, <1>6, <2>1 DEF PrInv, RowIsCurrent
    <3>2. ~Over(x) /\ Over(x)'
      BY <2>3, <3>1, <1>1, <1>2, <1>4, <1>11 DEF Over, After, At
    <3>3. QED
      BY <2>2, <3>2, <1>13
  <2>4. CASE ~(IsLast(s) /\ x = c.due)
    <3>1. EndsOf(x)' = EndsOf(x)
      BY <2>4, <1>13
    <3>2. Over(x) => Over(x)'
      BY <1>1, <1>2, <1>11 DEF Over
    <3>3. QED
      BY <2>2, <3>1, <3>2, <1>13
  <2>5. QED
    BY <2>3, <2>4
<1>16. EndIsOut'
  <2>1. SUFFICES ASSUME NEW r \in Scheduler, After(r)' PROVE EndsOf(Row(r).due)' # {}
    BY DEF EndIsOut
  <2>2. r = s /\ IsLast(s)
    BY <2>1, <1>4 DEF After, At
  <2>3. QED
    BY <2>2, <1>1, <1>4, <1>6 DEF EndsOf, ChecksOf
<1>17. NextAtExpiry'
  <2>1. SUFFICES ASSUME ~promiseSpent.crossed, promise.kind = "time"
                 PROVE  /\ promise.checks >= 1 => promise.next >= promise.expires
                        /\ Row(s).checks >= 1 => T(s) >= Row(s).expires
                        /\ \A e \in checks' : e.last => ~e.early
    BY <1>1, <1>4 DEF NextAtExpiry
  <2>2. /\ promise.checks >= 1 => promise.next >= promise.expires
        /\ Row(s).checks >= 1 => T(s) >= Row(s).expires
        /\ \A e \in checks : e.last => ~e.early
    BY <2>1, <1>2 DEF PrInv, NextAtExpiry
  <2>3. IsLast(s) => T(s) >= Row(s).expires
    BY <2>1, <2>2, <1>5 DEF IsLast
  <2>4. T(s) \in Nat /\ Row(s).expires \in Nat
    BY <1>5, PromiseAssumption DEF Instant, Rows
  <2>5. IsLast(s) => ~(T(s) < Row(s).expires)
    BY <2>3, <2>4
  <2>6. c.last => ~c.early
    BY <2>5, <1>6
  <2>7. QED
    BY <2>2, <2>6, <1>1
<1>18. ExpiredHadEnd'
  BY <1>1, <1>2 DEF PrInv, ExpiredHadEnd, RedateIsKept, ExpiredAtRest
<1> QED
  BY <1>3, <1>7, <1>8, <1>9, <1>10, <1>14, <1>15, <1>16, <1>17, <1>18 DEF PrInv

LEMMA TellLineKeeps == ASSUME PrInv, NEW s \in Scheduler, TellLine(s) PROVE PrInv'
<1> DEFINE l == [due |-> Row(s).due, slot |-> Row(s).next, by |-> s]
<1>1. /\ At(s, "telling") /\ lines' = lines \cup {l}
      /\ checker' = [checker EXCEPT ![s] = [@ EXCEPT !.pc = "expiring"]]
      /\ UNCHANGED <<promiseNow, promise, claims, checks, promiseSpent>>
  BY DEF TellLine, Goes
<1>2. Stays(s, "expiring") /\ ~After(s) /\ ~At(s, "sent") /\ ~At(s, "expiring") /\ Busy(s)
  BY <1>1 DEF Stays, Busy, At, After
<1>3. IsLast(s)
  BY <1>1, <1>2 DEF PrInv, RowRead, At
<1>4. OneTicks' /\ RowRead' /\ RowIsCurrent' /\ ExpiredAtRest'
  BY <1>1, <1>2, <1>3, RowStays
<1>5. /\ checker'[s].pc = "expiring" /\ T(s)' = T(s) /\ Row(s)' = Row(s)
      /\ \A r \in Scheduler : Busy(r) \/ Busy(r)' => r = s
      /\ \A r \in Scheduler : r # s => checker'[r].pc \in {"idle", "dead"} /\ checker[r].pc \in {"idle", "dead"}
      /\ Busy(s)'
  BY <1>2, TickGoesOn DEF T, Row
<1>6. Row(s) \in Rows /\ Row(s).due <= promise.due /\ l.due = Row(s).due
  BY <1>2 DEF PrInv, RowRead
<1> HIDE DEF l
<1>7. PrTyped' /\ ClaimedSlots'
  BY <1>1, <1>2, <1>5, TickGoesOn DEF PrInv, PrTyped, ClaimedSlots, At
<1>8. OutIsDue'
  <2>1. IsFiniteSet(lines')
    BY <1>1, FS_AddElement DEF PrInv, OutIsDue
  <2>2. QED
    BY <2>1, <1>1, <1>6 DEF PrInv, OutIsDue, Rows
<1>9. SlotCheckedOnce'
  BY <1>1 DEF PrInv, SlotCheckedOnce
<1>10. \A r \in Scheduler : ~After(r) /\ ~At(r, "sent") /\ ~At(r, "sent")'
  BY <1>1, <1>2, <1>5 DEF After, At
<1>11. CountedSoFar' /\ NextAtExpiry'
  BY <1>1, <1>2, <1>5, <1>10 DEF PrInv, CountedSoFar, NextAtExpiry, Sending, ChecksOf
<1>12. ASSUME NEW d
       PROVE  /\ Cardinality(EndsOf(d)') <= Cardinality(EndsOf(d)) + 1 /\ Cardinality(EndsOf(d)) \in Nat
              /\ Cardinality(EndsOf(d)') \in Nat
              /\ d # l.due => EndsOf(d)' = EndsOf(d)
  <2>1. EndsOf(d)' \in {EndsOf(d), EndsOf(d) \cup {l}} /\ (d # l.due => EndsOf(d)' = EndsOf(d))
    BY <1>1 DEF EndsOf, ChecksOf
  <2>2. IsFiniteSet(EndsOf(d)) /\ Cardinality(EndsOf(d)) \in Nat
    BY OutIsFinite DEF PrInv
  <2>3. /\ Cardinality(EndsOf(d)) \in Nat /\ Cardinality(EndsOf(d)') \in Nat
        /\ Cardinality(EndsOf(d)') \in {Cardinality(EndsOf(d)), Cardinality(EndsOf(d)) + 1}
    BY <2>1, <2>2, OneMore
  <2>4. QED
    BY <2>1, <2>3
<1>13. EndedOnce'
  <2>1. SUFFICES ASSUME ~promiseSpent.crossed, NEW x \in 0..promise.due
                 PROVE Cardinality(EndsOf(x)') <= promiseSpent.mishaps + (IF Over(x)' THEN 1 ELSE 0)
    BY <1>1 DEF EndedOnce
  <2>2. Cardinality(EndsOf(x)) <= promiseSpent.mishaps + (IF Over(x) THEN 1 ELSE 0) /\ promiseSpent.mishaps \in Nat
    BY <2>1 DEF PrInv, EndedOnce, PrTyped
  <2>3. CASE x = l.due
    <3>1. l.due = promise.due
      BY <1>2, <1>6, <2>1 DEF PrInv, RowIsCurrent
    <3>2. ~Over(x) /\ Over(x)'
      BY <2>3, <3>1, <1>1, <1>2, <1>5, <1>10 DEF Over, After, At
    <3>3. QED
      BY <2>2, <3>2, <1>12
  <2>4. CASE x # l.due
    <3>1. EndsOf(x)' = EndsOf(x)
      BY <2>4, <1>12
    <3>2. Over(x) => Over(x)'
      BY <1>1, <1>2, <1>10 DEF Over
    <3>3. QED
      BY <2>2, <3>1, <3>2, <1>12
  <2>5. QED
    BY <2>3, <2>4
<1>14. EndIsOut'
  <2>1. SUFFICES ASSUME NEW r \in Scheduler, After(r)' PROVE EndsOf(Row(r).due)' # {}
    BY DEF EndIsOut
  <2>2. r = s
    BY <2>1, <1>5 DEF After, At
  <2>3. QED
    BY <2>2, <1>1, <1>5, <1>6 DEF EndsOf
<1>15. ExpiredHadEnd'
  BY <1>1, <1>2 DEF PrInv, ExpiredHadEnd, RedateIsKept, ExpiredAtRest
<1> QED
  BY <1>4, <1>7, <1>8, <1>9, <1>11, <1>13, <1>14, <1>15 DEF PrInv

LEMMA MarkCheckedKeeps == ASSUME PrInv, NEW s \in Scheduler, MarkChecked(s) PROVE PrInv'
<1> DEFINE nx == IF IsLast(s) THEN Row(s).expires
                 ELSE IF Row(s).kind = "time" THEN LaterOf(Row(s).expires, T(s) + Poll) ELSE T(s) + Poll
<1>1. /\ At(s, "sent")
      /\ promise' = IF promise.status = "open" THEN [promise EXCEPT !.checks = @ + 1, !.next = nx] ELSE promise
      /\ checker' = [checker EXCEPT ![s] = IF IsLast(s) THEN [@ EXCEPT !.pc = "expiring"] ELSE [AtRest EXCEPT !.pc = "idle"]]
      /\ UNCHANGED <<promiseNow, claims, checks, lines, promiseSpent>>
  BY DEF MarkChecked, Goes
<1>2. Busy(s)
  BY <1>1 DEF Busy, At
<1>3. /\ T(s) \in Nat /\ Row(s) \in Rows /\ Row(s).due <= promise.due
      /\ Row(s).kind = promise.kind /\ Row(s).next <= T(s) /\ Poll \in Nat
      /\ T(s) \in Instant /\ T(s) <= promiseNow
  BY <1>2, PromiseAssumption DEF PrInv, RowRead, Instant
<1>4. nx \in Nat /\ (Row(s).kind = "time" => nx >= Row(s).expires)
  BY <1>3 DEF Rows, LaterOf
<1> HIDE DEF nx
<1>5. /\ promise'.kind = promise.kind /\ promise'.status = promise.status /\ promise'.due = promise.due
      /\ promise'.expires = promise.expires /\ promise' \in Rows /\ promise \in Rows
      /\ IF promise.status = "open" THEN promise'.checks = promise.checks + 1 /\ promise'.next = nx
                                    ELSE promise'.checks = promise.checks /\ promise'.next = promise.next
  <2>1. promise \in Rows
    BY DEF PrInv, PrTyped
  <2>2. CASE promise.status = "open"
    <3>1. promise' = [kind |-> promise.kind, status |-> promise.status, due |-> promise.due,
                      checks |-> promise.checks + 1, next |-> nx, expires |-> promise.expires]
      BY <1>1, <2>1, <2>2 DEF Rows
    <3>2. promise' \in Rows
      BY <2>1, <3>1, <1>4 DEF Rows
    <3>3. QED
      BY <2>1, <2>2, <3>1, <3>2
  <2>3. CASE promise.status # "open"
    BY <1>1, <2>1, <2>3
  <2>4. QED
    BY <2>2, <2>3
<1>6. /\ DOMAIN checker' = Scheduler /\ \A r \in Scheduler : DOMAIN checker'[r] = {"pc", "t", "row"}
      /\ \A r \in Scheduler : r # s => checker'[r] = checker[r] /\ checker[r].pc \in {"idle", "dead"}
      /\ IF IsLast(s) THEN checker'[s].pc = "expiring" /\ checker'[s].t = checker[s].t /\ checker'[s].row = checker[s].row
                      ELSE checker'[s].pc = "idle"
  <2>1. IsLast(s) => Stays(s, "expiring")
    BY <1>1, <1>2 DEF Stays
  <2>2. CASE IsLast(s)
    BY <2>1, <2>2, TickGoesOn
  <2>3. CASE ~IsLast(s)
    BY <2>3, <1>1, <1>2 DEF PrInv, PrTyped, OneTicks, AtRest, Busy, At
  <2>4. QED
    BY <2>2, <2>3
<1>7. /\ \A r \in Scheduler : Busy(r) => r = s
      /\ \A r \in Scheduler : Busy(r)' => r = s /\ IsLast(s)
      /\ IsLast(s) => T(s)' = T(s) /\ Row(s)' = Row(s) /\ IsLast(s)' /\ Busy(s)'
      /\ \A r \in Scheduler : ~At(r, "sent")'
      /\ \A r \in Scheduler : After(r)' <=> r = s /\ IsLast(s)
      /\ \A r \in Scheduler : After(r) <=> r = s /\ IsLast(s)
  BY <1>1, <1>6 DEF Busy, At, T, Row, IsLast, After
<1>8. PrTyped'
  BY <1>1, <1>5, <1>6 DEF PrInv, PrTyped
<1>9. OneTicks' /\ OutIsDue' /\ SlotCheckedOnce'
  BY <1>1, <1>5, <1>7 DEF PrInv, OneTicks, OutIsDue, SlotCheckedOnce
<1>10. RowRead'
  BY <1>1, <1>3, <1>5, <1>6, <1>7 DEF RowRead
<1>11. RowIsCurrent'
  BY <1>1, <1>2, <1>5, <1>6, <1>7 DEF PrInv, RowIsCurrent, At
<1>12. ExpiredAtRest'
  BY <1>2, <1>5 DEF PrInv, ExpiredAtRest
<1>13. ClaimedSlots'
  BY <1>1, <1>2, <1>6, <1>7 DEF PrInv, ClaimedSlots, At
<1>14. \A d : ChecksOf(d)' = ChecksOf(d) /\ EndsOf(d)' = EndsOf(d)
  BY <1>1 DEF ChecksOf, EndsOf
<1>15. Sending = 1 /\ Sending' = 0
  BY <1>1, <1>7 DEF Sending
<1>16. CountedSoFar'
  <2>1. SUFFICES ASSUME promise.status # "settled", ~promiseSpent.crossed
                 PROVE Cardinality(ChecksOf(promise.due)) <= promise'.checks + promiseSpent.mishaps
    BY <1>1, <1>5, <1>14, <1>15 DEF CountedSoFar, PrInv, PrTyped, Rows
  <2>2. Cardinality(ChecksOf(promise.due)) <= promise.checks + promiseSpent.mishaps + 1
    BY <2>1, <1>15 DEF PrInv, CountedSoFar
  <2>3. promise.status = "open"
    BY <2>1, <1>2, <1>5 DEF PrInv, ExpiredAtRest, Rows
  <2>4. promise'.checks = promise.checks + 1 /\ promise.checks \in Nat /\ promiseSpent.mishaps \in Nat
        /\ Cardinality(ChecksOf(promise.due)) \in Nat
    BY <2>3, <1>5, OutIsFinite DEF PrInv, PrTyped, Rows
  <2>5. QED
    BY <2>2, <2>4
<1>17. EndedOnce'
  <2>1. SUFFICES ASSUME ~promiseSpent.crossed, NEW x \in 0..promise.due
                 PROVE Cardinality(EndsOf(x)) <= promiseSpent.mishaps + (IF Over(x)' THEN 1 ELSE 0)
    BY <1>1, <1>5, <1>14 DEF EndedOnce
  <2>2. Cardinality(EndsOf(x)) <= promiseSpent.mishaps + (IF Over(x) THEN 1 ELSE 0) /\ promiseSpent.mishaps \in Nat
        /\ Cardinality(EndsOf(x)) \in Nat
    BY <2>1, OutIsFinite DEF PrInv, EndedOnce, PrTyped
  <2>3. Over(x) => Over(x)'
    BY <1>5, <1>7, <1>2 DEF Over
  <2>4. QED
    BY <2>2, <2>3
<1>18. EndIsOut'
  <2>1. SUFFICES ASSUME IsLast(s) PROVE EndsOf(Row(s).due) # {}
    BY <1>1, <1>7 DEF EndIsOut, EndsOf, ChecksOf
  <2>2. QED
    BY <2>1, <1>7 DEF PrInv, EndIsOut
<1>19. NextAtExpiry'
  <2>1. SUFFICES ASSUME ~promiseSpent.crossed, promise.kind = "time"
                 PROVE  /\ promise'.checks >= 1 => promise'.next >= promise.expires
                        /\ Row(s).checks >= 1 => T(s) >= Row(s).expires
                        /\ \A c \in checks : c.last => ~c.early
    BY <1>1, <1>5, <1>7 DEF NextAtExpiry
  <2>2. /\ promise.checks >= 1 => promise.next >= promise.expires
        /\ Row(s).checks >= 1 => T(s) >= Row(s).expires
        /\ \A c \in checks : c.last => ~c.early
    BY <2>1, <1>2 DEF PrInv, NextAtExpiry
  <2>3. Row(s).expires = promise.expires
    BY <2>1, <1>2 DEF PrInv, RowIsCurrent
  <2>4. QED
    BY <2>1, <2>2, <2>3, <1>3, <1>4, <1>5
<1>20. ExpiredHadEnd'
  BY <1>1, <1>5, <1>14 DEF PrInv, ExpiredHadEnd, RedateIsKept
<1> QED
  BY <1>8, <1>9, <1>10, <1>11, <1>12, <1>13, <1>16, <1>17, <1>18, <1>19, <1>20 DEF PrInv

LEMMA CloseExpiredKeeps == ASSUME PrInv, NEW s \in Scheduler, CloseExpired(s) PROVE PrInv'
<1>1. /\ At(s, "expiring")
      /\ promise' = IF promise.status = "open" THEN [promise EXCEPT !.status = "expired"] ELSE promise
      /\ checker' = [checker EXCEPT ![s] = [AtRest EXCEPT !.pc = "idle"]]
      /\ UNCHANGED <<promiseNow, claims, checks, lines, promiseSpent>>
  BY DEF CloseExpired, Goes
<1>2. Busy(s) /\ After(s)
  BY <1>1 DEF Busy, At, After
<1>3. /\ promise'.kind = promise.kind /\ promise'.due = promise.due
      /\ promise'.expires = promise.expires /\ promise' \in Rows /\ promise \in Rows
      /\ promise'.checks = promise.checks /\ promise'.next = promise.next
      /\ promise'.status = IF promise.status = "open" THEN "expired" ELSE promise.status
  BY <1>1 DEF PrInv, PrTyped, Rows
<1>4. /\ DOMAIN checker' = Scheduler /\ \A r \in Scheduler : DOMAIN checker'[r] = {"pc", "t", "row"}
      /\ \A r \in Scheduler : checker'[r].pc \in {"idle", "dead"}
      /\ \A r \in Scheduler : r # s => ~Busy(r)
  BY <1>1, <1>2 DEF PrInv, PrTyped, OneTicks, AtRest, Busy, At
<1>5. \A r \in Scheduler : ~Busy(r)' /\ ~After(r)' /\ ~At(r, "sent") /\ ~At(r, "sent")'
  BY <1>1, <1>4 DEF Busy, At, After
<1>6. PrTyped'
  BY <1>1, <1>3, <1>4 DEF PrInv, PrTyped
<1>7. OneTicks' /\ RowRead' /\ RowIsCurrent' /\ ExpiredAtRest' /\ OutIsDue' /\ SlotCheckedOnce' /\ EndIsOut'
  BY <1>1, <1>3, <1>5 DEF PrInv, OneTicks, RowRead, RowIsCurrent, ExpiredAtRest, OutIsDue, SlotCheckedOnce, EndIsOut
<1>8. ClaimedSlots'
  BY <1>1, <1>4, <1>5 DEF PrInv, ClaimedSlots
<1>9. \A d : ChecksOf(d)' = ChecksOf(d) /\ EndsOf(d)' = EndsOf(d)
  BY <1>1 DEF ChecksOf, EndsOf
<1>10. Sending = 0 /\ Sending' = 0
  BY <1>5 DEF Sending
<1>11. CountedSoFar'
  BY <1>1, <1>3, <1>9, <1>10 DEF PrInv, CountedSoFar, Rows
<1>12. EndedOnce'
  <2>1. SUFFICES ASSUME ~promiseSpent.crossed, NEW x \in 0..promise.due
                 PROVE Cardinality(EndsOf(x)) <= promiseSpent.mishaps + (IF Over(x)' THEN 1 ELSE 0)
    BY <1>1, <1>3, <1>9 DEF EndedOnce
  <2>2. Cardinality(EndsOf(x)) <= promiseSpent.mishaps + (IF Over(x) THEN 1 ELSE 0) /\ promiseSpent.mishaps \in Nat
        /\ Cardinality(EndsOf(x)) \in Nat
    BY <2>1, OutIsFinite DEF PrInv, EndedOnce, PrTyped
  <2>3. Over(x)'
    BY <1>3, <1>5 DEF Over
  <2>4. QED
    BY <2>2, <2>3
<1>13. NextAtExpiry'
  BY <1>1, <1>3, <1>5 DEF PrInv, NextAtExpiry
<1>14. ExpiredHadEnd'
  <2>1. SUFFICES ASSUME ~promiseSpent.crossed PROVE EndsOf(promise.due) # {}
    BY <1>1, <1>3, <1>9 DEF ExpiredHadEnd, RedateIsKept
  <2>2. EndsOf(Row(s).due) # {} /\ Row(s).due = promise.due
    BY <2>1, <1>2 DEF PrInv, EndIsOut, RowIsCurrent
  <2>3. QED
    BY <2>2
<1> QED
  BY <1>6, <1>7, <1>8, <1>11, <1>12, <1>13, <1>14 DEF PrInv

\* A scheduler that rests dies.
LEMMA IdleDiesKeeps ==
    ASSUME PrInv, NEW s \in Scheduler, At(s, "idle"), Paid, checker' = [checker EXCEPT ![s] = [AtRest EXCEPT !.pc = "dead"]],
           UNCHANGED <<promiseNow, promise, claims, checks, lines>>
    PROVE  PrInv'
<1>1. /\ DOMAIN checker' = Scheduler /\ \A r \in Scheduler : DOMAIN checker'[r] = {"pc", "t", "row"}
      /\ checker'[s].pc = "dead" /\ \A r \in Scheduler : r # s => checker'[r] = checker[r]
  BY DEF PrInv, PrTyped, AtRest
<1>2. /\ promiseSpent'.crossed = promiseSpent.crossed /\ promiseSpent'.mishaps = promiseSpent.mishaps + 1
      /\ promiseSpent.mishaps \in Nat /\ DOMAIN promiseSpent' = DOMAIN promiseSpent
  BY DEF Paid, PrInv, PrTyped
<1>3. \A r \in Scheduler : /\ Busy(r)' <=> Busy(r)
                           /\ At(r, "sent")' <=> At(r, "sent")
                           /\ After(r)' <=> After(r)
                           /\ Busy(r) => r # s /\ checker'[r] = checker[r]
  BY <1>1 DEF Busy, At, After, IsLast, T, Row
<1>4. PrTyped'
  BY <1>1, <1>2 DEF PrInv, PrTyped
<1>5. OneTicks' /\ ExpiredAtRest' /\ OutIsDue' /\ SlotCheckedOnce'
  BY <1>3 DEF PrInv, OneTicks, ExpiredAtRest, OutIsDue, SlotCheckedOnce
<1>6. RowRead' /\ RowIsCurrent'
  BY <1>2, <1>3 DEF PrInv, RowRead, RowIsCurrent, At, T, Row, IsLast
<1>7. ClaimedSlots'
  BY <1>1, <1>3 DEF PrInv, ClaimedSlots, At, Row
<1>8. \A d : ChecksOf(d)' = ChecksOf(d) /\ EndsOf(d)' = EndsOf(d) /\ (Over(d)' <=> Over(d))
  BY <1>3 DEF ChecksOf, EndsOf, Over
<1>9. Sending' = Sending /\ Sending \in {0, 1}
  BY <1>3 DEF Sending
<1>10. CountedSoFar'
  <2>1. Cardinality(ChecksOf(promise.due)) \in Nat /\ promise.checks \in Nat
    BY OutIsFinite DEF PrInv, PrTyped, Rows
  <2>2. QED
    BY <2>1, <1>2, <1>8, <1>9 DEF PrInv, CountedSoFar
<1>11. EndedOnce'
  <2>1. SUFFICES ASSUME ~promiseSpent.crossed, NEW x \in 0..promise.due
                 PROVE Cardinality(EndsOf(x)) <= promiseSpent'.mishaps + (IF Over(x) THEN 1 ELSE 0)
    BY <1>2, <1>8 DEF EndedOnce
  <2>2. Cardinality(EndsOf(x)) <= promiseSpent.mishaps + (IF Over(x) THEN 1 ELSE 0) /\ Cardinality(EndsOf(x)) \in Nat
    BY <2>1, OutIsFinite DEF PrInv, EndedOnce
  <2>3. QED
    BY <2>2, <1>2
<1>12. EndIsOut'
  <2>1. SUFFICES ASSUME NEW r \in Scheduler, After(r) PROVE EndsOf(Row(r).due) # {} /\ Row(r)' = Row(r)
    BY <1>3, <1>8 DEF EndIsOut, EndsOf, ChecksOf
  <2>2. Busy(r)
    BY <2>1 DEF After, Busy, At
  <2>3. QED
    BY <2>1, <2>2, <1>3 DEF PrInv, EndIsOut, Row
<1>13. NextAtExpiry' /\ ExpiredHadEnd'
  BY <1>2, <1>3, <1>8 DEF PrInv, NextAtExpiry, ExpiredHadEnd, RedateIsKept, Row, T
<1> QED
  BY <1>4, <1>5, <1>6, <1>7, <1>10, <1>11, <1>12, <1>13 DEF PrInv

-----------------------------------------------------------------------------
LEMMA LeastNumber ==
    ASSUME NEW S, S \subseteq Nat, S # {}
    PROVE \E x \in S : \A y \in S : ~(y < x)
<1>1. IsWellFoundedOn(OpToRel(<, Nat), Nat)
  BY NatLessThanWellFounded
<1>2. PICK x \in S : \A y \in S : ~(<<y, x>> \in OpToRel(<, Nat))
  BY <1>1, WFMin
<1>3. \A y \in S : <<y, x>> \in OpToRel(<, Nat) <=> y < x
  BY DEF OpToRel
<1>4. QED
  BY <1>2, <1>3

\* The quiet hours end before the last instant.
LEMMA QuietEnds ==
    ASSUME NEW t \in Quiet
    PROVE  \E n \in Instant : n > t /\ n \notin Quiet /\ \A k \in (t + 1)..(n - 1) : k \in Quiet
<1>1. t \in Nat /\ MaxNow \in Nat /\ t < MaxNow /\ MaxNow \notin Quiet
  BY PromiseAssumption
<1> DEFINE S == {n \in Instant : n > t /\ n \notin Quiet}
<1>2. S \subseteq Nat /\ MaxNow \in S
  BY <1>1 DEF Instant
<1>3. PICK n \in S : \A y \in S : ~(y < n)
  BY <1>2, LeastNumber
<1>4. n \in Instant /\ n > t /\ n \notin Quiet /\ n \in Nat
  BY <1>2, <1>3
<1>5. \A k \in (t + 1)..(n - 1) : k \in Instant /\ k > t /\ k < n
  BY <1>1, <1>4 DEF Instant
<1>6. QED
  BY <1>3, <1>4, <1>5

\* A tick's call fails, its scheduler dies, or the check is put off: it ends.
LEMMA LeavesIs ==
    ASSUME NEW s \in Scheduler, NEW n \in Nat, n >= T(s), Leaves(s, n)
    PROVE  MovesOn(s) /\ checker' = [checker EXCEPT ![s] = [AtRest EXCEPT !.pc = "idle"]]
BY DEF Leaves, MovedTo, MovesOn, Goes

LEMMA TickEnds ==
    ASSUME PrInv, NEW s \in Scheduler,
           \/ DeferQuiet(s) \/ FindClaimed(s) \/ PutOff(s) \/ CallFails(s)
           \/ DispatchFails(s) /\ ~IsLast(s) 
           \/ CheckerDies(s) /\ Busy(s)
    PROVE  Quits(s)
<1>1. Busy(s)
  BY DEF Busy, At, DeferQuiet, FindClaimed, PutOff, CallFails, DispatchFails
<1>2. T(s) \in Nat /\ Poll \in Nat /\ BusyRetry \in Nat
  BY <1>1, PromiseAssumption DEF PrInv, RowRead, Instant
<1>3. CASE DeferQuiet(s)
  <2> DEFINE n == CHOOSE n \in Instant : /\ n > T(s) /\ n \notin Quiet
                                         /\ \A k \in (T(s) + 1)..(n - 1) : k \in Quiet
  <2>1. /\ At(s, "read") /\ T(s) \in Quiet /\ Leaves(s, n) /\ UNCHANGED <<promiseNow, claims, checks, lines, promiseSpent>>
    BY <1>3 DEF DeferQuiet
  <2>2. n \in Instant /\ n > T(s)
    BY <2>1, QuietEnds
  <2>3. n \in Nat /\ n >= T(s)
    BY <2>2, <1>2, PromiseAssumption DEF Instant
  <2> HIDE DEF n
  <2>4. QED
    BY <2>1, <2>3, <1>1, LeavesIs DEF Quits, Spends, At
<1>4. CASE FindClaimed(s)
  <2>1. At(s, "read") /\ UNCHANGED <<promiseNow, claims, checks, lines, promiseSpent>>
    BY <1>4 DEF FindClaimed
  <2>2. Leaves(s, T(s)) \/ (Goes(s, "idle") /\ UNCHANGED promise)
    BY <1>4 DEF FindClaimed
  <2>3. MovesOn(s) /\ checker' = [checker EXCEPT ![s] = [AtRest EXCEPT !.pc = "idle"]]
    BY <2>2, <1>2, LeavesIs DEF Goes, MovesOn
  <2>4. QED
    BY <2>1, <2>3, <1>1 DEF Quits, Spends, At
<1>5. CASE PutOff(s)
  <2>1. At(s, "claimed") /\ UNCHANGED <<promiseNow, claims, checks, lines>> /\ Spends
    BY <1>5 DEF PutOff, Hold, Spends
  <2>2. Leaves(s, T(s) + BusyRetry) \/ Leaves(s, T(s) + Poll)
    BY <1>5 DEF PutOff
  <2>3. MovesOn(s) /\ checker' = [checker EXCEPT ![s] = [AtRest EXCEPT !.pc = "idle"]]
    BY <2>2, <1>2, LeavesIs
  <2>4. QED
    BY <2>1, <2>3, <1>1 DEF Quits, At
<1>6. CASE CallFails(s)
  <2>1. UNCHANGED <<promiseNow, claims, checks, lines>> /\ Paid
    BY <1>6 DEF CallFails, Mishap, Paid
  <2>2. Leaves(s, T(s) + Poll) \/ (Goes(s, "idle") /\ UNCHANGED promise)
    BY <1>6 DEF CallFails
  <2>3. MovesOn(s) /\ checker' = [checker EXCEPT ![s] = [AtRest EXCEPT !.pc = "idle"]]
    BY <2>2, <1>2, LeavesIs DEF Goes, MovesOn
  <2>4. QED
    BY <2>1, <2>3, <1>1 DEF Quits, Spends
<1>7. CASE DispatchFails(s) /\ ~IsLast(s)
  <2>1. UNCHANGED <<promiseNow, claims, checks, lines>> /\ Paid /\ Leaves(s, T(s) + Poll)
    BY <1>7 DEF DispatchFails, Mishap, Paid
  <2>2. MovesOn(s) /\ checker' = [checker EXCEPT ![s] = [AtRest EXCEPT !.pc = "idle"]]
    BY <2>1, <1>2, LeavesIs
  <2>3. QED
    BY <2>1, <2>2, <1>1 DEF Quits, Spends
<1>8. CASE CheckerDies(s)
  BY <1>8, <1>1 DEF CheckerDies, Mishap, Paid, Quits, Spends, MovesOn, Goes
<1> QED
  BY <1>3, <1>4, <1>5, <1>6, <1>7, <1>8

LEMMA PrNextKeeps == ASSUME PrInv, ~Overlap, [PromiseNext]_promiseVars PROVE PrInv'
<1>1. CASE PromiseTime \/ Redate \/ SettlePage
  BY <1>1, PromiseTimeKeeps, RedateKeeps, SettlePageKeeps
<1>2. ASSUME NEW s \in Scheduler, CheckStep(s) PROVE PrInv'
  <2>1. CASE ReadDue(s) \/ ClaimSlot(s) \/ DispatchCheck(s) \/ TellLine(s) \/ MarkChecked(s) \/ CloseExpired(s)
    BY <2>1, ReadDueKeeps, ClaimSlotKeeps, DispatchCheckKeeps, TellLineKeeps, MarkCheckedKeeps, CloseExpiredKeeps
  <2>2. CASE DeferQuiet(s) \/ FindClaimed(s)
    BY <2>2, TickEnds, QuitsKeeps
  <2>3. QED
    BY <1>2, <2>1, <2>2 DEF CheckStep
<1>3. ASSUME NEW s \in Scheduler, PutOff(s) \/ CallFails(s) PROVE PrInv'
  BY <1>3, TickEnds, QuitsKeeps
<1>4. ASSUME NEW s \in Scheduler, RefuseLast(s) PROVE PrInv'
  <2>1. ToTell(s)
    BY <1>4 DEF RefuseLast, ToTell, Goes, Hold, Spends
  <2>2. QED
    BY <2>1, ToTellKeeps
<1>5. ASSUME NEW s \in Scheduler, DispatchFails(s) PROVE PrInv'
  <2>1. IsLast(s) => ToTell(s)
    BY <1>5 DEF DispatchFails, ToTell, Goes, Mishap, Spends, Paid
  <2>2. QED
    BY <1>5, <2>1, ToTellKeeps, TickEnds, QuitsKeeps
<1>6. ASSUME NEW s \in Scheduler, CheckerDies(s) PROVE PrInv'
  <2>1. CASE Busy(s)
    BY <1>6, <2>1, TickEnds, QuitsKeeps
  <2>2. CASE ~Busy(s)
    <3>1. At(s, "idle") /\ Paid /\ checker' = [checker EXCEPT ![s] = [AtRest EXCEPT !.pc = "dead"]]
          /\ UNCHANGED <<promiseNow, promise, claims, checks, lines>>
      BY <1>6, <2>2 DEF CheckerDies, Live, Mishap, Paid, Goes, Busy, At
    <3>2. QED
      BY <3>1, IdleDiesKeeps
  <2>3. QED
    BY <2>1, <2>2
<1>7. ASSUME UNCHANGED promiseVars PROVE PrInv'
  <2>1. \A d : ChecksOf(d)' = ChecksOf(d) /\ EndsOf(d)' = EndsOf(d) /\ (Over(d)' <=> Over(d))
    BY <1>7 DEF promiseVars, ChecksOf, EndsOf, Over, After, Busy, At, IsLast, T, Row
  <2>2. Sending' = Sending
    BY <1>7 DEF promiseVars, Sending, At
  <2>3. PrTyped' /\ OneTicks' /\ RowRead' /\ RowIsCurrent' /\ ExpiredAtRest' /\ ClaimedSlots' /\ OutIsDue' /\ SlotCheckedOnce'
    BY <1>7 DEF promiseVars, PrInv, PrTyped, OneTicks, RowRead, RowIsCurrent, ExpiredAtRest, ClaimedSlots, OutIsDue,
                SlotCheckedOnce, Busy, At, T, Row, IsLast
  <2>4. CountedSoFar' /\ EndedOnce' /\ EndIsOut' /\ NextAtExpiry' /\ ExpiredHadEnd'
    BY <1>7, <2>1, <2>2 DEF promiseVars, PrInv, CountedSoFar, EndedOnce, EndIsOut, NextAtExpiry, ExpiredHadEnd,
                            RedateIsKept, After, Busy, At, T, Row, IsLast
  <2>5. QED
    BY <2>3, <2>4 DEF PrInv
<1>8. QED
  BY <1>1, <1>2, <1>3, <1>4, <1>5, <1>6, <1>7 DEF PromiseNext

LEMMA PrInitKeeps == ASSUME PromiseInit PROVE PrInv
<1> USE DEF PromiseInit
<1>1. PrTyped
  BY PromiseAssumption DEF PrTyped, Rows, Instant, AtRest
<1>2. \A s \in Scheduler : ~Busy(s) /\ ~After(s) /\ checker[s].pc = "idle"
  BY DEF AtRest, Busy, After, At
<1>3. OneTicks /\ RowRead /\ RowIsCurrent /\ ExpiredAtRest /\ ClaimedSlots /\ SlotCheckedOnce /\ EndIsOut /\ NextAtExpiry
  BY <1>2 DEF OneTicks, RowRead, RowIsCurrent, ExpiredAtRest, ClaimedSlots, SlotCheckedOnce, EndIsOut, NextAtExpiry
<1>4. OutIsDue /\ \A d : ChecksOf(d) = {} /\ EndsOf(d) = {}
  BY FS_EmptySet DEF OutIsDue, ChecksOf, EndsOf
<1>5. ExpiredHadEnd
  BY DEF ExpiredHadEnd, RedateIsKept
<1>6. CountedSoFar /\ EndedOnce
  <2>1. Cardinality(ChecksOf(promise.due)) = 0 /\ \A d : Cardinality(EndsOf(d)) = 0
    BY <1>4, FS_EmptySet
  <2>2. promise.checks \in Nat /\ promiseSpent.mishaps \in Nat /\ Sending \in {0, 1}
    BY <1>1 DEF PrTyped, Rows, Sending
  <2>3. CountedSoFar
    BY <2>1, <2>2 DEF CountedSoFar
  <2>4. EndedOnce
    BY <2>1, <2>2 DEF EndedOnce
  <2>5. QED
    BY <2>3, <2>4
<1> QED
  BY <1>1, <1>3, <1>4, <1>5, <1>6 DEF PrInv

\* What PromisesHold says follows.
LEMMA PrInvHolds == ASSUME PrInv PROVE PromisesHold
<1>1. ChecksCounted
  <2>1. SUFFICES ASSUME promise.status # "settled", ~promiseSpent.crossed
                 PROVE Cardinality(ChecksOf(promise.due))
                          <= promise.checks + promiseSpent.mishaps + Cardinality({s \in Scheduler : At(s, "sent")})
    BY DEF ChecksCounted
  <2>2. Sending = Cardinality({s \in Scheduler : At(s, "sent")})
    <3>1. CASE \E s \in Scheduler : At(s, "sent")
      <4>1. PICK s \in Scheduler : At(s, "sent")
        BY <3>1
      <4>2. {r \in Scheduler : At(r, "sent")} = {s}
        BY <4>1 DEF PrInv, OneTicks, Busy, At
      <4>3. QED
        BY <3>1, <4>2, FS_Singleton DEF Sending
    <3>2. CASE ~\E s \in Scheduler : At(s, "sent")
      <4>1. {r \in Scheduler : At(r, "sent")} = {}
        BY <3>2
      <4>2. QED
        BY <3>2, <4>1, FS_EmptySet DEF Sending
    <3>3. QED
      BY <3>1, <3>2
  <2>3. QED
    BY <2>1, <2>2 DEF PrInv, CountedSoFar
<1>2. LastIsLast
  <2>1. SUFFICES ASSUME ~promiseSpent.crossed
                 PROVE  /\ \A due \in 0..promise.due : Cardinality(EndsOf(due)) <= 1 + promiseSpent.mishaps
                        /\ promise.kind = "time" => \A c \in checks : c.last => ~c.early
    BY DEF LastIsLast
  <2>2. ASSUME NEW due \in 0..promise.due PROVE Cardinality(EndsOf(due)) <= 1 + promiseSpent.mishaps
    <3>1. Cardinality(EndsOf(due)) \in Nat /\ promiseSpent.mishaps \in Nat
      BY OutIsFinite DEF PrInv, PrTyped
    <3>2. Cardinality(EndsOf(due)) <= promiseSpent.mishaps + (IF Over(due) THEN 1 ELSE 0)
      BY <2>1 DEF PrInv, EndedOnce
    <3>3. QED
      BY <3>1, <3>2
  <2>3. QED
    BY <2>1, <2>2 DEF PrInv, NextAtExpiry
<1>3. promiseSpent.crossed \/ RedateIsKept
  BY DEF PrInv, ExpiredHadEnd
<1> QED
  BY <1>1, <1>2, <1>3 DEF PromisesHold, PrInv

\* A promise's checks go out once per slot and are counted, its end once and on
\* time, and it does not expire unheard, for any schedule, quiet hours and bounds,
\* when the ticks of the leading replicas follow one another (runDueCommitments).
THEOREM PromisesKeptSafe == ~Overlap => (PromiseSpec => []PromisesHold)
<1> SUFFICES ASSUME ~Overlap PROVE PromiseSpec => []PromisesHold
  OBVIOUS
<1>1. PromiseInit => PrInv
  BY PrInitKeeps
<1>2. PrInv /\ [PromiseNext]_promiseVars => PrInv'
  BY PrNextKeeps
<1>3. PrInv => PromisesHold
  BY PrInvHolds
<1> QED
  BY <1>1, <1>2, <1>3, PTL DEF PromiseSpec

-----------------------------------------------------------------------------
(***************************************************************************)
(* A slot of a promise, also when the ticks of two leaders overlap         *)
(***************************************************************************)
SlotTyped ==
    /\ promiseNow \in Instant /\ promise \in Rows
    /\ claims \in [Instant -> Instant \cup {Unclaimed}]
    /\ DOMAIN checker = Scheduler
    /\ \A s \in Scheduler : /\ DOMAIN checker[s] = {"pc", "t", "row"}
                            /\ Busy(s) => T(s) \in Instant /\ Row(s) \in Rows /\ Row(s).next <= T(s)

\* s may dispatch the check of the slot n.
MayCheck(s, n) == At(s, "claimed") /\ Row(s).next = n

\* A slot has one scheduler that may dispatch its check, or the check is out, and
\* in either case it is claimed.
SlotHasOne ==
    /\ \A s \in Scheduler, n \in Instant : MayCheck(s, n) =>
          /\ claims[n] # Unclaimed /\ \A c \in checks : c.slot # n
          /\ \A r \in Scheduler : MayCheck(r, n) => r = s
    /\ \A c \in checks : c.slot \in Instant /\ claims[c.slot] # Unclaimed

SlotInv == SlotTyped /\ SlotHasOne /\ SlotCheckedOnce

\* A step of s that leaves it without a claim.
LEMMA SlotStep ==
    ASSUME SlotInv, NEW s \in Scheduler, NEW v, checker' = [checker EXCEPT ![s] = v],
           DOMAIN v = {"pc", "t", "row"}, v.pc # "claimed",
           v.pc \notin {"idle", "dead"} => v.t \in Instant /\ v.row \in Rows /\ v.row.next <= v.t,
           promise' \in Rows, UNCHANGED <<promiseNow, claims, checks>>
    PROVE  SlotInv'
<1>1. checker'[s] = v /\ DOMAIN checker' = Scheduler /\ \A r \in Scheduler : r # s => checker'[r] = checker[r]
  BY DEF SlotInv, SlotTyped
<1>2. SlotTyped'
  BY <1>1 DEF SlotInv, SlotTyped, Busy, At, T, Row
<1>3. \A r \in Scheduler, n \in Instant : MayCheck(r, n)' => MayCheck(r, n)
  BY <1>1 DEF MayCheck, At, Row
<1> QED
  BY <1>2, <1>3 DEF SlotInv, SlotHasOne, SlotCheckedOnce

\* A tick that moves the row on leaves a row.
LEMMA MovedIs == ASSUME promise \in Rows, NEW n \in Nat, MovedTo(n) PROVE promise' \in Rows
<1>1. promise' \in {promise, [kind |-> promise.kind, status |-> promise.status, due |-> promise.due,
                              checks |-> promise.checks, next |-> n, expires |-> promise.expires]}
  BY DEF MovedTo, Rows
<1> QED
  BY <1>1 DEF Rows

\* s goes on to pc, or rests.
LEMMA SlotGoes ==
    ASSUME SlotInv, NEW s \in Scheduler, NEW pc, Goes(s, pc), pc # "claimed", Busy(s) \/ pc \in {"idle", "dead"},
           promise' \in Rows, UNCHANGED <<promiseNow, claims, checks>>
    PROVE  SlotInv'
<1>1. CASE pc \in {"idle", "dead"}
  <2> DEFINE v == [AtRest EXCEPT !.pc = pc]
  <2>1. checker' = [checker EXCEPT ![s] = v]
    BY <1>1 DEF Goes
  <2>2. DOMAIN v = {"pc", "t", "row"} /\ v.pc = pc
    BY DEF AtRest
  <2> HIDE DEF v
  <2>3. QED
    BY <1>1, <2>1, <2>2, SlotStep
<1>2. CASE pc \notin {"idle", "dead"}
  <2> DEFINE v == [checker[s] EXCEPT !.pc = pc]
  <2>1. checker' = [checker EXCEPT ![s] = v]
    BY <1>2 DEF Goes
  <2>2. DOMAIN v = {"pc", "t", "row"} /\ v.pc = pc /\ v.t = T(s) /\ v.row = Row(s)
    BY DEF SlotInv, SlotTyped, T, Row
  <2>3. T(s) \in Instant /\ Row(s) \in Rows /\ Row(s).next <= T(s)
    BY <1>2 DEF SlotInv, SlotTyped
  <2> HIDE DEF v
  <2>4. QED
    BY <1>2, <2>1, <2>2, <2>3, SlotStep
<1> QED
  BY <1>1, <1>2

LEMMA SlotTickKeeps ==
    ASSUME SlotInv, NEW s \in Scheduler,
           \/ DeferQuiet(s) \/ FindClaimed(s) \/ PutOff(s) \/ RefuseLast(s) \/ DispatchFails(s)
           \/ TellLine(s) \/ MarkChecked(s) \/ CloseExpired(s) \/ CallFails(s) \/ CheckerDies(s)
    PROVE  SlotInv'
<1>1. promise \in Rows /\ (Busy(s) => T(s) \in Nat /\ Row(s) \in Rows) /\ Poll \in Nat /\ BusyRetry \in Nat
  BY PromiseAssumption DEF SlotInv, SlotTyped, Instant
<1>2. CASE DeferQuiet(s)
  <2> DEFINE n == CHOOSE n \in Instant : /\ n > T(s) /\ n \notin Quiet
                                         /\ \A k \in (T(s) + 1)..(n - 1) : k \in Quiet
  <2>1. T(s) \in Quiet /\ Leaves(s, n) /\ UNCHANGED <<promiseNow, claims, checks>>
    BY <1>2 DEF DeferQuiet
  <2>2. n \in Instant
    BY <2>1, QuietEnds
  <2>3. n \in Nat
    BY <2>2, PromiseAssumption DEF Instant
  <2> HIDE DEF n
  <2>4. promise' \in Rows /\ Goes(s, "idle")
    BY <1>1, <2>1, <2>3, MovedIs DEF Leaves
  <2>5. QED
    BY <2>1, <2>4, SlotGoes
<1>3. CASE \/ FindClaimed(s) \/ PutOff(s) \/ CallFails(s) \/ (DispatchFails(s) /\ ~IsLast(s))
  <2>1. Busy(s) /\ UNCHANGED <<promiseNow, claims, checks>>
    BY <1>3 DEF FindClaimed, PutOff, CallFails, DispatchFails, Busy, At
  <2>2. \/ Leaves(s, T(s)) \/ Leaves(s, T(s) + Poll) \/ Leaves(s, T(s) + BusyRetry)
        \/ Goes(s, "idle") /\ UNCHANGED promise
    BY <1>3 DEF FindClaimed, PutOff, CallFails, DispatchFails
  <2>3. T(s) \in Nat /\ T(s) + Poll \in Nat /\ T(s) + BusyRetry \in Nat
    BY <1>1, <2>1
  <2>4. promise' \in Rows /\ Goes(s, "idle")
    BY <1>1, <2>2, <2>3, MovedIs DEF Leaves
  <2>5. QED
    BY <2>1, <2>4, SlotGoes
<1>4. CASE RefuseLast(s) \/ TellLine(s) \/ CheckerDies(s) \/ (DispatchFails(s) /\ IsLast(s))
  <2>1. UNCHANGED <<promiseNow, promise, claims, checks>>
    BY <1>4 DEF RefuseLast, TellLine, CheckerDies, DispatchFails
  <2>2. \/ Busy(s) /\ (Goes(s, "telling") \/ Goes(s, "expiring"))
        \/ Goes(s, "dead")
    BY <1>4 DEF RefuseLast, TellLine, CheckerDies, DispatchFails, Busy, At
  <2>3. QED
    BY <1>1, <2>1, <2>2, SlotGoes
<1>5. CASE MarkChecked(s)
  <2>1. Busy(s) /\ UNCHANGED <<promiseNow, claims, checks>> /\ (Goes(s, "expiring") \/ Goes(s, "idle"))
    BY <1>5 DEF MarkChecked, Busy, At
  <2> DEFINE next == IF IsLast(s) THEN Row(s).expires
                     ELSE IF Row(s).kind = "time" THEN LaterOf(Row(s).expires, T(s) + Poll) ELSE T(s) + Poll
  <2>2. promise' = IF promise.status = "open" THEN [promise EXCEPT !.checks = @ + 1, !.next = next] ELSE promise
    BY <1>5 DEF MarkChecked
  <2>3. next \in Nat
    BY <1>1, <2>1 DEF Rows, LaterOf
  <2> HIDE DEF next
  <2>4. promise' \in {promise, [kind |-> promise.kind, status |-> promise.status, due |-> promise.due,
                                checks |-> promise.checks + 1, next |-> next, expires |-> promise.expires]}
    BY <1>1, <2>2 DEF Rows
  <2>5. promise' \in Rows
    BY <1>1, <2>3, <2>4 DEF Rows
  <2>6. QED
    BY <2>1, <2>5, SlotGoes
<1>6. CASE CloseExpired(s)
  <2>1. Busy(s) /\ UNCHANGED <<promiseNow, claims, checks>> /\ Goes(s, "idle")
    BY <1>6 DEF CloseExpired, Busy, At
  <2>2. promise' \in Rows
    BY <1>1, <1>6 DEF CloseExpired, Rows
  <2>3. QED
    BY <2>1, <2>2, SlotGoes
<1> QED
  BY <1>2, <1>3, <1>4, <1>5, <1>6

LEMMA SlotReadKeeps == ASSUME SlotInv, NEW s \in Scheduler, ReadDue(s) PROVE SlotInv'
<1> DEFINE v == [pc |-> "read", t |-> promiseNow, row |-> promise]
<1>1. checker' = [checker EXCEPT ![s] = v] /\ promise.next <= promiseNow /\ UNCHANGED <<promiseNow, promise, claims, checks>>
  BY DEF ReadDue
<1>2. DOMAIN v = {"pc", "t", "row"} /\ v.pc = "read" /\ v.t = promiseNow /\ v.row = promise
  OBVIOUS
<1>3. promiseNow \in Instant /\ promise \in Rows
  BY DEF SlotInv, SlotTyped
<1> HIDE DEF v
<1> QED
  BY <1>1, <1>2, <1>3, SlotStep

\* What s goes on with is what it read.
LEMMA SlotClaimed ==
    ASSUME SlotInv, NEW s \in Scheduler, Busy(s), NEW pc, pc \notin {"idle", "dead"}, Goes(s, pc)
    PROVE  /\ At(s, pc)' /\ Row(s)' = Row(s) /\ T(s)' = T(s) /\ Row(s).next \in Instant
           /\ T(s) \in Instant /\ Row(s) \in Rows /\ Row(s).next <= T(s)
           /\ DOMAIN checker' = Scheduler /\ DOMAIN checker'[s] = {"pc", "t", "row"}
           /\ \A r \in Scheduler : r # s => checker'[r] = checker[r]
<1>1. checker' = [checker EXCEPT ![s] = [checker[s] EXCEPT !.pc = pc]]
  BY DEF Goes
<1>2. DOMAIN checker = Scheduler /\ DOMAIN checker[s] = {"pc", "t", "row"} /\ T(s) \in Instant /\ Row(s) \in Rows
      /\ Row(s).next <= T(s)
  BY DEF SlotInv, SlotTyped
<1>3. Row(s).next \in Instant
  BY <1>2, PromiseAssumption DEF Instant, Rows
<1> QED
  BY <1>1, <1>2, <1>3 DEF At, Row, T

LEMMA SlotClaimKeeps == ASSUME SlotInv, NEW s \in Scheduler, ClaimSlot(s) PROVE SlotInv'
<1> DEFINE n == Row(s).next
<1>1. /\ At(s, "read") /\ claims[n] = Unclaimed /\ claims' = [claims EXCEPT ![n] = T(s)] /\ Goes(s, "claimed")
      /\ UNCHANGED <<promiseNow, promise, checks>>
  BY DEF ClaimSlot
<1>2. Busy(s)
  BY <1>1 DEF Busy, At
<1>3. /\ At(s, "claimed")' /\ Row(s)' = Row(s) /\ T(s)' = T(s) /\ n \in Instant
      /\ T(s) \in Instant /\ Row(s) \in Rows /\ n <= T(s)
      /\ DOMAIN checker' = Scheduler /\ DOMAIN checker'[s] = {"pc", "t", "row"}
      /\ \A r \in Scheduler : r # s => checker'[r] = checker[r]
  BY <1>1, <1>2, SlotClaimed
<1>4. SlotTyped'
  BY <1>1, <1>3 DEF SlotInv, SlotTyped, Busy, At, T, Row
<1>5. /\ claims'[n] = T(s) /\ T(s) # Unclaimed /\ \A k \in Instant : k # n => claims'[k] = claims[k]
  BY <1>1, <1>3, PromiseAssumption DEF SlotInv, SlotTyped, Instant, Unclaimed
<1>6. \A r \in Scheduler, k \in Instant : MayCheck(r, k)' <=> IF r = s THEN k = n ELSE MayCheck(r, k)
  BY <1>3 DEF MayCheck, At, Row
<1>7. (\A r \in Scheduler : ~MayCheck(r, n)) /\ \A c \in checks : c.slot # n
  BY <1>1, <1>3 DEF SlotInv, SlotHasOne
<1>8. SlotHasOne'
  <2>1. ASSUME NEW r \in Scheduler, NEW k \in Instant, MayCheck(r, k)'
        PROVE  /\ claims'[k] # Unclaimed /\ \A c \in checks : c.slot # k
               /\ \A q \in Scheduler : MayCheck(q, k)' => q = r
    <3>1. CASE k = n
      BY <3>1, <2>1, <1>5, <1>6, <1>7
    <3>2. CASE k # n
      BY <3>2, <2>1, <1>5, <1>6 DEF SlotInv, SlotHasOne
    <3>3. QED
      BY <3>1, <3>2
  <2>2. \A c \in checks : c.slot \in Instant /\ claims'[c.slot] # Unclaimed
    BY <1>5 DEF SlotInv, SlotHasOne
  <2>3. QED
    BY <1>1, <2>1, <2>2 DEF SlotHasOne
<1> QED
  BY <1>1, <1>4, <1>8 DEF SlotInv, SlotCheckedOnce

LEMMA SlotCheckKeeps == ASSUME SlotInv, NEW s \in Scheduler, DispatchCheck(s) PROVE SlotInv'
<1> DEFINE n == Row(s).next
<1>1. PICK c : c.slot = n /\ checks' = checks \cup {c}
  BY DEF DispatchCheck
<1>2. At(s, "claimed") /\ Goes(s, "sent") /\ UNCHANGED <<promiseNow, promise, claims>>
  BY DEF DispatchCheck
<1>3. Busy(s)
  BY <1>2 DEF Busy, At
<1>4. /\ At(s, "sent")' /\ Row(s)' = Row(s) /\ T(s)' = T(s) /\ n \in Instant
      /\ T(s) \in Instant /\ Row(s) \in Rows /\ n <= T(s)
      /\ DOMAIN checker' = Scheduler /\ DOMAIN checker'[s] = {"pc", "t", "row"}
      /\ \A r \in Scheduler : r # s => checker'[r] = checker[r]
  BY <1>2, <1>3, SlotClaimed
<1>5. SlotTyped'
  BY <1>2, <1>4 DEF SlotInv, SlotTyped, Busy, At, T, Row
<1>6. MayCheck(s, n) /\ \A r \in Scheduler, k \in Instant : MayCheck(r, k)' <=> MayCheck(r, k) /\ r # s
  BY <1>2, <1>4 DEF MayCheck, At, Row
<1>7. claims[n] # Unclaimed /\ (\A d \in checks : d.slot # n) /\ \A r \in Scheduler : MayCheck(r, n) => r = s
  BY <1>4, <1>6 DEF SlotInv, SlotHasOne
<1>8. SlotHasOne'
  <2>1. ASSUME NEW r \in Scheduler, NEW k \in Instant, MayCheck(r, k)'
        PROVE  /\ claims'[k] # Unclaimed /\ \A d \in checks' : d.slot # k
               /\ \A q \in Scheduler : MayCheck(q, k)' => q = r
    <3>1. k # n
      BY <2>1, <1>6, <1>7
    <3>2. QED
      BY <3>1, <2>1, <1>1, <1>2, <1>6 DEF SlotInv, SlotHasOne
  <2>2. \A d \in checks' : d.slot \in Instant /\ claims'[d.slot] # Unclaimed
    BY <1>1, <1>2, <1>4, <1>7 DEF SlotInv, SlotHasOne
  <2>3. QED
    BY <2>1, <2>2 DEF SlotHasOne
<1>9. SlotCheckedOnce'
  BY <1>1, <1>7 DEF SlotInv, SlotCheckedOnce
<1> QED
  BY <1>5, <1>8, <1>9 DEF SlotInv

\* The clock and the page move no tick.
LEMMA SlotOthersKeep == ASSUME SlotInv, PromiseTime \/ Redate \/ SettlePage PROVE SlotInv'
<1>1. UNCHANGED <<claims, checker, checks>>
  BY DEF PromiseTime, Redate, SettlePage
<1>2. promiseNow' \in Instant /\ promise' \in Rows
  <2>1. promiseNow \in Nat /\ MaxNow \in Nat /\ promiseNow \in Instant /\ promise \in Rows /\ Poll \in Nat /\ Expire \in Nat
    BY PromiseAssumption DEF SlotInv, SlotTyped, Instant
  <2>2. CASE PromiseTime \/ SettlePage
    BY <2>1, <2>2 DEF PromiseTime, SettlePage, Instant, Rows
  <2>3. CASE Redate
    <3>1. \A d \in Dues(promise.kind) : d.next \in Nat /\ d.expires \in Nat
      BY <2>1 DEF Dues
    <3>2. PICK d \in Dues(promise.kind) :
             promise' = [promise EXCEPT !.due = @ + 1, !.next = d.next, !.expires = d.expires, !.checks = 0]
      BY <2>3 DEF Redate
    <3>3. promise' = [kind |-> promise.kind, status |-> promise.status, due |-> promise.due + 1,
                      checks |-> 0, next |-> d.next, expires |-> d.expires]
      BY <2>1, <3>2 DEF Rows
    <3>4. /\ d.next \in Nat /\ d.expires \in Nat /\ promise.due + 1 \in Nat
          /\ promise.kind \in {"time", "event"} /\ promise.status \in {"open", "expired", "settled"}
      BY <2>1, <3>1 DEF Rows
    <3>5. promise' \in Rows
      BY <3>3, <3>4 DEF Rows
    <3>6. QED
      BY <2>1, <2>3, <3>5 DEF Redate
  <2>4. QED
    BY <2>2, <2>3
<1>3. SlotTyped'
  BY <1>1, <1>2 DEF SlotInv, SlotTyped, Busy, At, T, Row
<1>4. \A r \in Scheduler, k \in Instant : MayCheck(r, k)' <=> MayCheck(r, k)
  BY <1>1 DEF MayCheck, At, Row
<1> QED
  BY <1>1, <1>3, <1>4 DEF SlotInv, SlotHasOne, SlotCheckedOnce

\* The check of a slot goes out once, for any schedule, bounds and faults, also while an
\* earlier leader's tick is still under way (claimSlot, runDueCommitments).
THEOREM SlotGoesOutOnce == PromiseSpec => []SlotCheckedOnce
<1>1. PromiseInit => SlotInv
  <2>1. SUFFICES ASSUME PromiseInit PROVE SlotInv
    OBVIOUS
  <2>2. promise \in Rows /\ promiseNow \in Instant /\ claims \in [Instant -> Instant \cup {Unclaimed}]
    BY <2>1, PromiseAssumption DEF PromiseInit, Rows, Instant
  <2>3. \A s \in Scheduler : checker[s].pc = "idle" /\ DOMAIN checker[s] = {"pc", "t", "row"}
    BY <2>1 DEF PromiseInit, AtRest
  <2>4. QED
    BY <2>1, <2>2, <2>3 DEF PromiseInit, SlotInv, SlotTyped, SlotHasOne, SlotCheckedOnce, MayCheck, Busy, At
<1>2. SlotInv /\ [PromiseNext]_promiseVars => SlotInv'
  <2> SUFFICES ASSUME SlotInv, [PromiseNext]_promiseVars PROVE SlotInv'
    OBVIOUS
  <2>1. CASE UNCHANGED promiseVars
    BY <2>1 DEF promiseVars, SlotInv, SlotTyped, SlotHasOne, SlotCheckedOnce, MayCheck, Busy, At, T, Row
  <2>2. CASE PromiseTime \/ Redate \/ SettlePage
    BY <2>2, SlotOthersKeep
  <2>3. ASSUME NEW s \in Scheduler,
               CheckStep(s) \/ PutOff(s) \/ RefuseLast(s) \/ DispatchFails(s) \/ CallFails(s) \/ CheckerDies(s)
        PROVE  SlotInv'
    BY <2>3, SlotTickKeeps, SlotReadKeeps, SlotClaimKeeps, SlotCheckKeeps DEF CheckStep
  <2>4. QED
    BY <2>1, <2>2, <2>3 DEF PromiseNext
<1>3. SlotInv => SlotCheckedOnce
  BY DEF SlotInv
<1> QED
  BY <1>1, <1>2, <1>3, PTL DEF PromiseSpec

-----------------------------------------------------------------------------
(***************************************************************************)
(* Heartbeat rounds over one source, for any leaders, items and faults     *)
(***************************************************************************)
\* It went out or was refused for good.
Dealt(i) == i \in settled \/ posts[i].out > 0

HbRounds == [pc : {"idle", "triage", "deciding", "posting", "posted", "acting"}, start : 0..MaxClock,
             todo : SUBSET Item, item : SUBSET Item, count : 0..MaxPosts, ok : BOOLEAN, held : BOOLEAN]

HbTyped ==
    /\ clock \in 0..MaxClock /\ watermark \in 0..MaxClock
    /\ watermark = 0 \/ watermark <= clock - Margin
    /\ stamp \in [Item -> {Never} \cup 0..MaxClock]
    /\ round \in [HbLeader -> HbRounds]
    /\ posts \in [Item -> [out : Nat, kept : Nat, turns : Nat]]
    /\ settled \subseteq Item
    /\ hbSpent \in [faults : 0..MaxHbFaults, notNow : 0..MaxNotNow]
    /\ \A r \in HbLeader : /\ round[r].start <= clock
                           /\ round[r].pc = "posting" => round[r].count < MaxPosts

\* What is recorded was posted, and so was the item a round is to record or to take further.
RecordedIsOut ==
    /\ \A i \in Item : Recorded(i) => posts[i].out > 0
    /\ \A r \in HbLeader : round[r].pc \in {"posted", "acting"} => \A i \in round[r].item : posts[i].out > 0

\* A round that may move the watermark has every item older than that before it, or
\* it is dealt with: what appears under way is younger than Lag.
RoundHasAll ==
    \A r \in HbLeader : round[r].pc \notin {"idle", "triage"} /\ round[r].ok /\ ~round[r].held =>
        \A i \in Item : stamp[i] # Never /\ stamp[i] < round[r].start - Margin
                        => i \in round[r].todo \/ Dealt(i)

ReadsAll == Lag <= Margin /\ IsFiniteSet(Item) /\ Cardinality(Item) <= MaxItems

HbInv == HbTyped /\ RecordedIsOut /\ (ReadsAll => RoundHasAll /\ NoItemSkipped)

-----------------------------------------------------------------------------
\* A step of one round, to x: what it may do to the rest.
RoundTo(r, x) == x \in HbRounds /\ round' = [round EXCEPT ![r] = x]

LEMMA RoundMoves ==
    ASSUME HbInv, NEW r \in HbLeader, NEW x, RoundTo(r, x),
           UNCHANGED <<clock, stamp>>,
           watermark' \in 0..MaxClock, watermark' = 0 \/ watermark' <= clock - Margin, hbSpent' \in [faults : 0..MaxHbFaults, notNow : 0..MaxNotNow],
           posts' \in [Item -> [out : Nat, kept : Nat, turns : Nat]], settled' \subseteq Item,
           settled \subseteq settled', \A i \in Item : posts[i].out <= posts'[i].out,
           \A i \in Item : posts'[i].kept > 0 => posts'[i].out > 0,
           x.start <= clock, x.pc = "posting" => x.count < MaxPosts,
           x.pc \in {"posted", "acting"} => \A i \in x.item : posts'[i].out > 0,
           ReadsAll /\ x.pc \notin {"idle", "triage"} /\ x.ok /\ ~x.held =>
               \A i \in Item : stamp[i] # Never /\ stamp[i] < x.start - Margin => i \in x.todo \/ Dealt(i)',
           ReadsAll => \A i \in Item : stamp[i] # Never /\ stamp[i] < watermark' => stamp[i] < watermark \/ Dealt(i)'
    PROVE  HbInv'
<1>1. /\ DOMAIN round = HbLeader /\ round'[r] = x
      /\ \A q \in HbLeader : q # r => round'[q] = round[q]
  BY DEF HbInv, HbTyped, RoundTo
<1>2. \A i \in Item : Dealt(i) => Dealt(i)'
  BY DEF HbInv, HbTyped, Dealt
<1>3. HbTyped'
  BY <1>1 DEF HbInv, HbTyped, RoundTo
<1>4. RecordedIsOut'
  <2>1. \A i \in Item : Recorded(i)' => posts'[i].out > 0
    BY DEF Recorded
  <2>2. ASSUME NEW q \in HbLeader, round'[q].pc \in {"posted", "acting"}, NEW i \in round'[q].item
        PROVE  posts'[i].out > 0
    <3>1. CASE q = r
      BY <2>2, <3>1, <1>1
    <3>2. CASE q # r
      <4>1. posts[i].out > 0 /\ i \in Item
        BY <2>2, <3>2, <1>1 DEF HbInv, RecordedIsOut, HbTyped, HbRounds
      <4>2. posts[i].out \in Nat /\ posts'[i].out \in Nat /\ posts[i].out <= posts'[i].out
        BY <4>1 DEF HbInv, HbTyped
      <4>3. QED
        BY <4>1, <4>2
    <3>3. QED
      BY <3>1, <3>2
  <2>3. QED
    BY <2>1, <2>2 DEF RecordedIsOut
<1>5. ASSUME ReadsAll PROVE RoundHasAll'
  <2>1. SUFFICES ASSUME NEW q \in HbLeader, round'[q].pc \notin {"idle", "triage"}, round'[q].ok, ~round'[q].held,
                        NEW i \in Item, stamp[i] # Never, stamp[i] < round'[q].start - Margin
                 PROVE  i \in round'[q].todo \/ Dealt(i)'
    BY DEF RoundHasAll
  <2>2. CASE q = r
    BY <2>1, <2>2, <1>1, <1>5
  <2>3. CASE q # r
    BY <2>1, <2>3, <1>1, <1>2, <1>5 DEF HbInv, RoundHasAll
  <2>4. QED
    BY <2>2, <2>3
<1>6. ASSUME ReadsAll PROVE NoItemSkipped'
  <2>1. SUFFICES ASSUME NEW i \in Item, stamp[i] # Never, stamp[i] < watermark' PROVE Dealt(i)'
    BY DEF NoItemSkipped, Dealt
  <2>2. stamp[i] < watermark \/ Dealt(i)'
    BY <2>1, <1>6
  <2>3. QED
    BY <2>1, <2>2, <1>2, <1>6 DEF HbInv, NoItemSkipped, Dealt
<1>7. ReadsAll' <=> ReadsAll
  BY DEF ReadsAll
<1> QED
  BY <1>3, <1>4, <1>5, <1>6, <1>7 DEF HbInv

\* A step that keeps watermark, posts and what is settled.
LEMMA QuietStep ==
    ASSUME HbInv, NEW r \in HbLeader, NEW x, RoundTo(r, x),
           UNCHANGED <<clock, stamp, watermark, posts, settled>>,
           hbSpent' \in [faults : 0..MaxHbFaults, notNow : 0..MaxNotNow],
           x.start <= clock, x.pc = "posting" => x.count < MaxPosts,
           x.pc \in {"posted", "acting"} => \A i \in x.item : posts[i].out > 0,
           ReadsAll /\ x.pc \notin {"idle", "triage"} /\ x.ok /\ ~x.held =>
               \A i \in Item : stamp[i] # Never /\ stamp[i] < x.start - Margin => i \in x.todo \/ Dealt(i)
    PROVE  HbInv'
<1>1. \A i \in Item : Dealt(i)' <=> Dealt(i)
  BY DEF Dealt
<1>2. /\ \A i \in Item : posts[i].out <= posts'[i].out
      /\ \A i \in Item : posts'[i].kept > 0 => posts'[i].out > 0
      /\ posts' \in [Item -> [out : Nat, kept : Nat, turns : Nat]] /\ settled' \subseteq Item
      /\ settled \subseteq settled' /\ watermark' \in 0..MaxClock /\ (watermark' = 0 \/ watermark' <= clock - Margin)
  BY DEF HbInv, HbTyped, RecordedIsOut, Recorded
<1> QED
  BY <1>1, <1>2, RoundMoves

LEMMA HbSpends ==
    ASSUME HbInv, HbFault \/ NotNow \/ UNCHANGED hbSpent
    PROVE  hbSpent' \in [faults : 0..MaxHbFaults, notNow : 0..MaxNotNow]
  BY HeartbeatAssumption DEF HbInv, HbTyped, HbFault, NotNow

LEMMA RoundIs ==
    ASSUME HbInv, NEW r \in HbLeader
    PROVE  /\ round[r] \in HbRounds /\ NoRound \in HbRounds /\ round[r].start <= clock /\ DOMAIN round = HbLeader
           /\ MaxClock \in Nat /\ MaxPosts \in Nat /\ Margin \in Nat /\ clock \in 0..MaxClock
           /\ round[r].pc \in {"posted", "acting"} => \A i \in round[r].item : posts[i].out > 0
           /\ \A i \in Item : posts[i] \in [out : Nat, kept : Nat, turns : Nat] /\ stamp[i] \in {Never} \cup 0..MaxClock
           /\ ReadsAll /\ round[r].pc \notin {"idle", "triage"} /\ round[r].ok /\ ~round[r].held =>
               \A i \in Item : stamp[i] # Never /\ stamp[i] < round[r].start - Margin => i \in round[r].todo \/ Dealt(i)
  BY HeartbeatAssumption DEF HbInv, HbTyped, HbRounds, NoRound, RecordedIsOut, RoundHasAll

LEMMA EndsKeep ==
    ASSUME HbInv, NEW r \in HbLeader, TriageErrs(r) \/ LeaderDies(r) \/ StartRound(r)
    PROVE  HbInv'
<1>1. CASE TriageErrs(r) \/ LeaderDies(r)
  <2>1. RoundTo(r, NoRound) /\ UNCHANGED <<clock, stamp, watermark, posts, settled>> /\ HbFault
    BY <1>1, RoundIs DEF TriageErrs, LeaderDies, RoundTo
  <2>2. NoRound.pc = "idle" /\ NoRound.start <= clock
    BY RoundIs DEF NoRound
  <2>3. QED
    BY <2>1, <2>2, HbSpends, QuietStep
<1>2. CASE StartRound(r)
  <2> DEFINE x == [NoRound EXCEPT !.pc = "triage", !.start = clock]
  <2>1. RoundTo(r, x) /\ UNCHANGED <<clock, stamp, watermark, posts, settled, hbSpent>>
    BY <1>2, RoundIs DEF StartRound, RoundTo, HbRounds, NoRound
  <2>2. x.pc = "triage" /\ x.start <= clock
    BY RoundIs DEF NoRound
  <2> HIDE DEF x
  <2>3. QED
    BY <2>1, <2>2, HbSpends, QuietStep
<1> QED
  BY <1>1, <1>2

LEMMA TriageKeeps ==
    ASSUME HbInv, NEW r \in HbLeader, NEW ok \in BOOLEAN, Triage(r, ok)
    PROVE  HbInv'
<1>1. PICK routed \in SUBSET Since(watermark) :
          /\ Cardinality(routed) <= MaxItems
          /\ ok => routed = Since(watermark) \/ Cardinality(routed) = MaxItems
          /\ round' = [round EXCEPT ![r].pc = "deciding", ![r].todo = routed, ![r].ok = ok]
  BY DEF Triage
<1> DEFINE x == [round[r] EXCEPT !.pc = "deciding", !.todo = routed, !.ok = ok]
<1>2. routed \subseteq Item /\ Since(watermark) \subseteq Item
  BY DEF Since
<1>3. RoundTo(r, x)
  BY <1>1, <1>2, RoundIs DEF RoundTo, HbRounds
<1>4. x.pc = "deciding" /\ x.start = round[r].start /\ x.todo = routed /\ (x.ok <=> ok)
  BY RoundIs DEF HbRounds
<1> HIDE DEF x
<1>5. ASSUME ReadsAll, ok PROVE Since(watermark) \subseteq routed
  <2>1. CASE Cardinality(routed) = MaxItems
    <3>1. Cardinality(Item) <= Cardinality(routed) /\ IsFiniteSet(Item)
      BY <2>1, <1>5 DEF ReadsAll
    <3>2. routed = Item
      BY <3>1, <1>2, FS_Subset, FS_CardinalityType
    <3>3. QED
      BY <3>2, <1>2
  <2>2. QED
    BY <2>1, <1>1, <1>5
<1>6. ASSUME ReadsAll, ok, NEW i \in Item, stamp[i] # Never PROVE i \in routed \/ Dealt(i)
  <2>1. CASE stamp[i] >= watermark
    BY <2>1, <1>5, <1>6 DEF Since
  <2>2. CASE stamp[i] < watermark
    BY <2>2, <1>6 DEF HbInv, NoItemSkipped, Dealt
  <2>3. watermark \in Nat /\ stamp[i] \in Nat
    BY <1>6 DEF HbInv, HbTyped
  <2>4. QED
    BY <2>1, <2>2, <2>3
<1>7. hbSpent' \in [faults : 0..MaxHbFaults, notNow : 0..MaxNotNow] /\ UNCHANGED <<clock, stamp, watermark, posts, settled>>
  BY HbSpends DEF Triage
<1>8. x.start <= clock
  BY <1>4, RoundIs
<1> QED
  BY <1>3, <1>4, <1>6, <1>7, <1>8, QuietStep

LEMMA TakenIs ==
    ASSUME HbInv, NEW r \in HbLeader, NEW i \in Item
    PROVE  /\ Taken(r, i) \in HbRounds /\ Dropped(r, i) \in HbRounds
           /\ Taken(r, i).pc = "deciding" /\ Dropped(r, i).pc = "deciding"
           /\ Taken(r, i).start = round[r].start /\ Dropped(r, i).start = round[r].start
           /\ Taken(r, i).todo = round[r].todo \ {i} /\ Dropped(r, i).held = TRUE
           /\ (Taken(r, i).ok <=> round[r].ok) /\ (Taken(r, i).held <=> round[r].held)
  BY RoundIs DEF HbRounds, Taken, Dropped

LEMMA TakenDecides ==
    ASSUME HbInv, NEW r \in HbLeader, NEW i \in Item
    PROVE  Taken(r, i).pc = "deciding" /\ Dropped(r, i).pc = "deciding"
  BY TakenIs

\* An item that is put aside for the next round, one that is dealt with.
LEMMA DropKeeps ==
    ASSUME HbInv, NEW r \in HbLeader, NEW i \in Item,
           AlreadyPosted(r, i) \/ NotDelivered(r, i) \/ MayPost(r, i)
    PROVE  HbInv'
<1>1. CASE AlreadyPosted(r, i)
  <2>1. RoundTo(r, Taken(r, i)) /\ UNCHANGED <<clock, stamp, watermark, posts, settled, hbSpent>> /\ Dealt(i)
        /\ round[r].pc = "deciding"
    BY <1>1, RoundIs, TakenIs DEF AlreadyPosted, RoundTo, Dealt, HbInv, RecordedIsOut
  <2>2. ASSUME ReadsAll, Taken(r, i).ok, ~Taken(r, i).held, NEW k \in Item, stamp[k] # Never,
               stamp[k] < Taken(r, i).start - Margin
        PROVE  k \in Taken(r, i).todo \/ Dealt(k)
    <3>1. round[r].ok /\ ~round[r].held /\ stamp[k] < round[r].start - Margin
      BY <2>2, TakenIs
    <3>2. k \in round[r].todo \/ Dealt(k)
      BY <2>1, <2>2, <3>1, RoundIs
    <3>3. QED
      BY <3>2, <2>1, TakenIs
  <2>3. Taken(r, i).start <= clock /\ Taken(r, i).pc \notin {"posting", "posted", "acting"}
        /\ hbSpent' \in [faults : 0..MaxHbFaults, notNow : 0..MaxNotNow]
    BY <2>1, RoundIs, TakenIs, HbSpends
  <2>4. QED
    BY <2>1, <2>2, <2>3, QuietStep
<1>2. CASE NotDelivered(r, i)
  <2>1. RoundTo(r, Dropped(r, i)) /\ UNCHANGED <<clock, stamp, watermark, posts, settled>>
        /\ (HbFault \/ NotNow \/ UNCHANGED hbSpent)
    BY <1>2, RoundIs, TakenIs DEF NotDelivered, RoundTo
  <2>2. QED
    BY <2>1, RoundIs, TakenIs, HbSpends, QuietStep
<1>3. CASE MayPost(r, i)
  <2> DEFINE x == [round[r] EXCEPT !.pc = "posting", !.item = {i}]
  <2>1. RoundTo(r, x) /\ UNCHANGED <<clock, stamp, watermark, posts, settled, hbSpent>> /\ round[r].pc = "deciding"
        /\ round[r].count < MaxPosts
    BY <1>3, RoundIs DEF MayPost, RoundTo, HbRounds
  <2>2. x.pc = "posting" /\ x.start = round[r].start /\ x.todo = round[r].todo /\ (x.ok <=> round[r].ok)
        /\ (x.held <=> round[r].held) /\ x.count = round[r].count
    BY RoundIs DEF HbRounds
  <2> HIDE DEF x
  <2>3. QED
    BY <2>1, <2>2, RoundIs, HbSpends, QuietStep
<1> QED
  BY <1>1, <1>2, <1>3

LEMMA NotPostedKeeps == ASSUME HbInv, NEW r \in HbLeader, NEW i \in Item, NotPosted(r, i) PROVE HbInv'
<1>1. RoundTo(r, Taken(r, i)) /\ UNCHANGED <<clock, stamp, watermark, posts, hbSpent>> /\ settled' = settled \cup {i}
      /\ round[r].pc = "deciding"
  BY RoundIs, TakenIs DEF NotPosted, RoundTo
<1>2. Dealt(i)' /\ \A k \in Item : Dealt(k) => Dealt(k)'
  BY <1>1 DEF Dealt
<1>3. /\ \A k \in Item : posts[k].out <= posts'[k].out
      /\ \A k \in Item : posts'[k].kept > 0 => posts'[k].out > 0
      /\ posts' \in [Item -> [out : Nat, kept : Nat, turns : Nat]] /\ settled' \subseteq Item
      /\ settled \subseteq settled' /\ watermark' \in 0..MaxClock /\ (watermark' = 0 \/ watermark' <= clock - Margin)
  BY <1>1 DEF HbInv, HbTyped, RecordedIsOut, Recorded
<1>4. ReadsAll /\ Taken(r, i).pc \notin {"idle", "triage"} /\ Taken(r, i).ok /\ ~Taken(r, i).held =>
        \A k \in Item : stamp[k] # Never /\ stamp[k] < Taken(r, i).start - Margin => k \in Taken(r, i).todo \/ Dealt(k)'
  <2>1. ASSUME ReadsAll, Taken(r, i).ok, ~Taken(r, i).held, NEW k \in Item, stamp[k] # Never,
               stamp[k] < Taken(r, i).start - Margin
        PROVE  k \in Taken(r, i).todo \/ Dealt(k)'
    <3>1. round[r].ok /\ ~round[r].held /\ stamp[k] < round[r].start - Margin
      BY <2>1, TakenIs
    <3>2. k \in round[r].todo \/ Dealt(k)
      BY <1>1, <2>1, <3>1, RoundIs
    <3>3. QED
      BY <3>2, <1>2, TakenIs
  <2>2. QED
    BY <2>1
<1>5. Taken(r, i).start <= clock /\ Taken(r, i).pc \notin {"posting", "posted", "acting"}
      /\ hbSpent' \in [faults : 0..MaxHbFaults, notNow : 0..MaxNotNow]
  BY <1>1, RoundIs, TakenIs, HbSpends
<1> QED
  BY <1>1, <1>3, <1>4, <1>5, RoundMoves

LEMMA PostItemKeeps == ASSUME HbInv, NEW r \in HbLeader, NEW i \in Item, PostItem(r, i) PROVE HbInv'
<1> DEFINE x == [round[r] EXCEPT !.pc = "posted", !.count = @ + 1]
<1>1. /\ round[r].pc = "posting" /\ round[r].item = {i} /\ round[r].count < MaxPosts
      /\ round' = [round EXCEPT ![r] = x] /\ posts' = [posts EXCEPT ![i].out = @ + 1]
      /\ UNCHANGED <<clock, stamp, watermark, settled, hbSpent>>
  BY DEF PostItem, HbInv, HbTyped
<1>2. RoundTo(r, x)
  <2>1. round[r].count + 1 \in 0..MaxPosts
    BY <1>1, RoundIs DEF HbRounds
  <2>2. x \in HbRounds
    BY <2>1, RoundIs DEF HbRounds
  <2>3. QED
    BY <1>1, <2>2 DEF RoundTo
<1>3. x.pc = "posted" /\ x.start = round[r].start /\ x.todo = round[r].todo /\ (x.ok <=> round[r].ok)
      /\ (x.held <=> round[r].held) /\ x.item = {i}
  BY <1>1, RoundIs DEF HbRounds
<1> HIDE DEF x
<1>4. /\ \A k \in Item : posts[k].out <= posts'[k].out
      /\ \A k \in Item : posts'[k].kept > 0 => posts'[k].out > 0
      /\ posts' \in [Item -> [out : Nat, kept : Nat, turns : Nat]] /\ settled' \subseteq Item
      /\ settled \subseteq settled' /\ watermark' \in 0..MaxClock /\ (watermark' = 0 \/ watermark' <= clock - Margin) /\ posts'[i].out > 0
  BY <1>1 DEF HbInv, HbTyped, RecordedIsOut, Recorded
<1>5. \A k \in Item : Dealt(k) => Dealt(k)'
  BY <1>1, <1>4, RoundIs DEF Dealt
<1> QED
  BY <1>1, <1>2, <1>3, <1>4, <1>5, RoundIs, HbSpends, RoundMoves

LEMMA RecordPostKeeps ==
    ASSUME HbInv, NEW r \in HbLeader, NEW i \in Item, NEW ok \in BOOLEAN, RecordPost(r, i, ok)
    PROVE  HbInv'
<1> DEFINE y == [round[r] EXCEPT !.pc = "acting"]
           x == IF i \notin Acts THEN Taken(r, i) ELSE IF ok THEN y ELSE Dropped(r, i)
<1>1. /\ round[r].pc = "posted" /\ round[r].item = {i} /\ posts[i].out > 0
      /\ round' = [round EXCEPT ![r] = x]
      /\ posts' = IF ok THEN [posts EXCEPT ![i].kept = @ + 1] ELSE posts
      /\ UNCHANGED <<clock, stamp, watermark, settled>> /\ (HbFault \/ NotNow \/ UNCHANGED hbSpent)
  BY RoundIs DEF RecordPost
<1>2. /\ y \in HbRounds /\ y.pc = "acting" /\ y.start = round[r].start /\ y.todo = round[r].todo
      /\ (y.ok <=> round[r].ok) /\ (y.held <=> round[r].held) /\ y.item = {i}
  BY <1>1, RoundIs DEF HbRounds
<1> HIDE DEF y
<1>3. /\ RoundTo(r, x) /\ x.start = round[r].start /\ x.pc \in {"deciding", "acting"}
      /\ (x.ok <=> round[r].ok) \/ x.held
      /\ x.held \/ (x.todo \in {round[r].todo, round[r].todo \ {i}} /\ (x.held <=> round[r].held))
      /\ x.pc = "acting" => x.item = {i}
  BY <1>1, <1>2, RoundIs, TakenIs DEF RoundTo
<1> HIDE DEF x
<1>4. /\ \A k \in Item : posts[k].out = posts'[k].out
      /\ \A k \in Item : posts'[k].kept > 0 => posts'[k].out > 0
      /\ posts' \in [Item -> [out : Nat, kept : Nat, turns : Nat]] /\ settled' \subseteq Item
      /\ settled \subseteq settled' /\ watermark' \in 0..MaxClock /\ (watermark' = 0 \/ watermark' <= clock - Margin)
  BY <1>1 DEF HbInv, HbTyped, RecordedIsOut, Recorded
<1>5. Dealt(i)' /\ \A k \in Item : Dealt(k) => Dealt(k)'
  BY <1>1, <1>4 DEF Dealt
<1>6. \A k \in Item : posts[k].out <= posts'[k].out
  BY <1>4, RoundIs
<1>7. hbSpent' \in [faults : 0..MaxHbFaults, notNow : 0..MaxNotNow]
  BY <1>1, HbSpends
<1>8. ReadsAll /\ x.pc \notin {"idle", "triage"} /\ x.ok /\ ~x.held =>
        \A k \in Item : stamp[k] # Never /\ stamp[k] < x.start - Margin => k \in x.todo \/ Dealt(k)'
  BY <1>1, <1>3, <1>5, RoundIs
<1>9. x.start <= clock /\ x.pc # "posting" /\ (x.pc \in {"posted", "acting"} => \A k \in x.item : posts'[k].out > 0)
  BY <1>1, <1>3, <1>4, RoundIs
<1> QED
  BY <1>1, <1>3, <1>4, <1>6, <1>7, <1>8, <1>9, RoundMoves

LEMMA ActOnKeeps ==
    ASSUME HbInv, NEW r \in HbLeader, NEW i \in Item, NEW ok \in BOOLEAN, ActOn(r, i, ok)
    PROVE  HbInv'
<1> DEFINE x == IF ok THEN Taken(r, i) ELSE Dropped(r, i)
<1>1. /\ round[r].pc = "acting" /\ round[r].item = {i} /\ posts[i].out > 0
      /\ round' = [round EXCEPT ![r] = x]
      /\ posts' = IF ok THEN [posts EXCEPT ![i].turns = @ + 1] ELSE posts
      /\ UNCHANGED <<clock, stamp, watermark, settled>> /\ (HbFault \/ NotNow \/ UNCHANGED hbSpent)
  BY RoundIs DEF ActOn
<1>2. /\ RoundTo(r, x) /\ x.start = round[r].start /\ x.pc = "deciding"
      /\ x.held \/ (x.todo = round[r].todo \ {i} /\ (x.ok <=> round[r].ok) /\ (x.held <=> round[r].held))
  BY <1>1, RoundIs, TakenIs DEF RoundTo
<1> HIDE DEF x
<1>3. /\ \A k \in Item : posts[k].out = posts'[k].out
      /\ \A k \in Item : posts'[k].kept > 0 => posts'[k].out > 0
      /\ posts' \in [Item -> [out : Nat, kept : Nat, turns : Nat]] /\ settled' \subseteq Item
      /\ settled \subseteq settled' /\ watermark' \in 0..MaxClock /\ (watermark' = 0 \/ watermark' <= clock - Margin)
  BY <1>1 DEF HbInv, HbTyped, RecordedIsOut, Recorded
<1>4. Dealt(i)' /\ \A k \in Item : Dealt(k) => Dealt(k)'
  BY <1>1, <1>3 DEF Dealt
<1>5. \A k \in Item : posts[k].out <= posts'[k].out
  BY <1>3, RoundIs
<1>6. hbSpent' \in [faults : 0..MaxHbFaults, notNow : 0..MaxNotNow]
  BY <1>1, HbSpends
<1>7. ReadsAll /\ x.pc \notin {"idle", "triage"} /\ x.ok /\ ~x.held =>
        \A k \in Item : stamp[k] # Never /\ stamp[k] < x.start - Margin => k \in x.todo \/ Dealt(k)'
  BY <1>1, <1>2, <1>4, RoundIs
<1>8. x.start <= clock
  BY <1>2, RoundIs
<1> QED
  BY <1>1, <1>2, <1>3, <1>5, <1>6, <1>7, <1>8, RoundMoves

LEMMA FinishKeeps ==
    ASSUME HbInv, NEW r \in HbLeader, NEW stored \in BOOLEAN, FinishRound(r, stored)
    PROVE  HbInv'
<1> DEFINE w == round[r].start - Margin
<1>1. /\ round[r].pc = "deciding" /\ round[r].todo = {} /\ RoundTo(r, NoRound)
      /\ watermark' = watermark \/ (watermark' = HigherOf(watermark, w) /\ round[r].ok /\ ~round[r].held)
      /\ UNCHANGED <<clock, stamp, posts, settled>> /\ (HbFault \/ NotNow \/ UNCHANGED hbSpent)
  BY RoundIs DEF FinishRound, RoundTo
<1>2. \A i \in Item : Dealt(i)' <=> Dealt(i)
  BY <1>1 DEF Dealt
<1>3. w \in Int /\ w <= MaxClock /\ watermark \in 0..MaxClock /\ MaxClock \in Nat
  BY RoundIs DEF HbInv, HbTyped, HbRounds
<1>4. watermark' \in 0..MaxClock /\ (watermark' = 0 \/ watermark' <= clock - Margin) /\ (watermark' = watermark \/ (watermark' = w /\ round[r].ok /\ ~round[r].held))
  BY <1>1, <1>3, RoundIs DEF HigherOf, HbInv, HbTyped, HbRounds
<1>5. ASSUME ReadsAll, NEW i \in Item, stamp[i] # Never, stamp[i] < watermark'
      PROVE  stamp[i] < watermark \/ Dealt(i)'
  BY <1>1, <1>2, <1>4, <1>5, RoundIs
<1>6. /\ \A k \in Item : posts[k].out <= posts'[k].out
      /\ \A k \in Item : posts'[k].kept > 0 => posts'[k].out > 0
      /\ posts' \in [Item -> [out : Nat, kept : Nat, turns : Nat]] /\ settled' \subseteq Item
      /\ settled \subseteq settled'
  BY <1>1 DEF HbInv, HbTyped, RecordedIsOut, Recorded
<1>7. NoRound.pc = "idle" /\ NoRound.start <= clock
  BY RoundIs DEF NoRound
<1>8. hbSpent' \in [faults : 0..MaxHbFaults, notNow : 0..MaxNotNow]
  BY <1>1, HbSpends
<1> QED
  BY <1>1, <1>4, <1>5, <1>6, <1>7, <1>8, RoundMoves

LEMMA WorldKeeps == ASSUME HbInv, HbTime \/ \E i \in Item : ItemAppears(i) PROVE HbInv'
<1>0. MaxClock \in Nat /\ Lag \in Nat /\ Margin \in Nat /\ clock \in 0..MaxClock
  BY HeartbeatAssumption DEF HbInv, HbTyped
<1>1. CASE HbTime
  <2>1. clock' = clock + 1 /\ clock < MaxClock /\ UNCHANGED <<stamp, watermark, round, posts, settled, hbSpent>>
    BY <1>1 DEF HbTime
  <2>2. HbTyped'
    BY <1>0, <2>1 DEF HbInv, HbTyped, HbRounds
  <2>3. QED
    BY <2>1, <2>2 DEF HbInv, RecordedIsOut, Recorded, RoundHasAll, NoItemSkipped, Dealt, ReadsAll
<1>2. ASSUME NEW i \in Item, ItemAppears(i) PROVE HbInv'
  <2>1. PICK t \in (clock - Lag)..clock : t >= 0 /\ stamp' = [stamp EXCEPT ![i] = t]
    BY <1>2 DEF ItemAppears
  <2>2. UNCHANGED <<clock, watermark, round, posts, settled, hbSpent>>
    BY <1>2 DEF ItemAppears
  <2>3. t \in 0..MaxClock /\ t >= clock - Lag
    BY <1>0, <2>1
  <2>4. HbTyped' /\ RecordedIsOut'
    BY <2>1, <2>2, <2>3 DEF HbInv, HbTyped, RecordedIsOut, Recorded
  <2>5. \A k \in Item : (Dealt(k)' <=> Dealt(k)) /\ (k # i => stamp'[k] = stamp[k]) /\ stamp'[i] = t
    BY <2>1, <2>2 DEF Dealt, HbInv, HbTyped
  <2>6. ASSUME ReadsAll PROVE RoundHasAll'
    <3>1. \A r \in HbLeader : round[r].start \in Nat /\ round[r].start <= clock
      BY RoundIs DEF HbRounds
    <3>2. \A r \in HbLeader : ~(t < round[r].start - Margin)
      BY <3>1, <1>0, <2>3, <2>6 DEF ReadsAll
    <3>3. QED
      BY <3>2, <2>2, <2>5, <2>6 DEF HbInv, RoundHasAll
  <2>7. ASSUME ReadsAll PROVE NoItemSkipped'
    <3>1. ~(t < watermark)
      BY <1>0, <2>3, <2>7 DEF ReadsAll, HbInv, HbTyped
    <3>2. QED
      BY <3>1, <2>2, <2>5, <2>7 DEF HbInv, NoItemSkipped, Dealt
  <2>8. QED
    BY <2>4, <2>6, <2>7 DEF HbInv, ReadsAll
<1> QED
  BY <1>1, <1>2

LEMMA HbNextKeeps == HbInv /\ [HbNext]_hbVars => HbInv'
<1> SUFFICES ASSUME HbInv, [HbNext]_hbVars PROVE HbInv'
  OBVIOUS
<1>1. CASE UNCHANGED hbVars
  BY <1>1 DEF hbVars, HbInv, HbTyped, RecordedIsOut, Recorded, RoundHasAll, NoItemSkipped, Dealt, ReadsAll
<1>2. CASE HbTime \/ \E i \in Item : ItemAppears(i)
  BY <1>2, WorldKeeps
<1>3. ASSUME NEW r \in HbLeader, NEW ok \in BOOLEAN,
             StartRound(r) \/ TriageErrs(r) \/ LeaderDies(r) \/ Triage(r, ok) \/ FinishRound(r, ok)
      PROVE  HbInv'
  BY <1>3, EndsKeep, TriageKeeps, FinishKeeps
<1>4. ASSUME NEW r \in HbLeader, NEW i \in Item,
             \/ ItemStep(r, i) \/ NotPosted(r, i) \/ NotDelivered(r, i)
             \/ RecordPost(r, i, FALSE) \/ ActOn(r, i, FALSE)
      PROVE  HbInv'
  BY <1>4, DropKeeps, NotPostedKeeps, PostItemKeeps, RecordPostKeeps, ActOnKeeps DEF ItemStep
<1> QED
  BY <1>1, <1>2, <1>3, <1>4 DEF HbNext

LEMMA HbInitKeeps == HbInit => HbInv
<1> SUFFICES ASSUME HbInit PROVE HbInv
  OBVIOUS
<1>1. HbTyped
  BY HeartbeatAssumption DEF HbInit, HbTyped, HbRounds, NoRound
<1>2. RecordedIsOut /\ RoundHasAll /\ NoItemSkipped
  BY <1>1 DEF HbInit, RecordedIsOut, Recorded, RoundHasAll, NoItemSkipped, NoRound, Never
<1> QED
  BY <1>1, <1>2 DEF HbInv

\* No item of a watched source falls behind its watermark unposted, for any items,
\* leaders and faults, where the watermark lags by what an item takes to show up and
\* a pass can route all items (runHeartbeat).
THEOREM NothingSkipped == ReadsAll => (HbSpec => []NoItemSkipped)
<1> SUFFICES ASSUME ReadsAll PROVE HbSpec => []NoItemSkipped
  OBVIOUS
<1>1. HbInv => NoItemSkipped
  BY DEF HbInv
<1> QED
  BY <1>1, HbInitKeeps, HbNextKeeps, PTL DEF HbSpec

-----------------------------------------------------------------------------
\* One leader: how far an item is.
OneLeader == \A r, q \in HbLeader : r = q
Has(r, pc, i) == round[r].pc = pc /\ i \in round[r].item

\* What is not recorded has no turn, and went out once per failed record, and once
\* more while its round is about to record it; what is recorded went out once more.
ItemCounted(i) ==
    /\ posts[i].kept <= 1 /\ posts[i].turns <= posts[i].kept /\ posts[i].kept <= posts[i].out
    /\ posts[i].out <= 1 + hbSpent.faults
    /\ Recorded(i) \/ posts[i].out <= hbSpent.faults \/ \E r \in HbLeader : Has(r, "posted", i)
    /\ \A r \in HbLeader : /\ Has(r, "posting", i) \/ Has(r, "posted", i) => ~Recorded(i)
                           /\ Has(r, "posted", i) => posts[i].out > 0
                           /\ Has(r, "acting", i) => Recorded(i) /\ posts[i].turns = 0

OnceInv == HbInv /\ \A i \in Item : ItemCounted(i)

\* A step of the leader that posts, records and takes further nothing: it may
\* forget a post only when something failed.
LEMMA PostsStay ==
    ASSUME OneLeader, OnceInv, HbInv', UNCHANGED posts, NEW r \in HbLeader,
           hbSpent'.faults \in Nat, hbSpent.faults <= hbSpent'.faults,
           round'[r].pc \notin {"posted", "acting"},
           round'[r].pc = "posting" => \A i \in round'[r].item : ~Recorded(i),
           round[r].pc = "posted" => hbSpent'.faults = hbSpent.faults + 1
    PROVE  OnceInv'
<1>1. \A q \in HbLeader : q = r
  BY DEF OneLeader
<1>2. ASSUME NEW i \in Item PROVE ItemCounted(i)'
  <2>1. ItemCounted(i) /\ posts[i] \in [out : Nat, kept : Nat, turns : Nat] /\ hbSpent.faults \in Nat
    BY DEF OnceInv, HbInv, HbTyped
  <2>2. Recorded(i)' <=> Recorded(i)
    BY DEF Recorded
  <2>3. (Recorded(i) \/ posts[i].out <= hbSpent'.faults) /\ posts[i].out <= 1 + hbSpent'.faults
    BY <1>1, <2>1 DEF ItemCounted, Has
  <2>4. QED
    BY <1>1, <2>1, <2>2, <2>3 DEF ItemCounted, Has
<1>3. QED
  BY <1>2 DEF OnceInv

LEMMA FaultIs ==
    ASSUME HbInv
    PROVE  /\ hbSpent.faults \in Nat
           /\ HbFault => hbSpent'.faults = hbSpent.faults + 1
           /\ NotNow \/ UNCHANGED hbSpent => hbSpent'.faults = hbSpent.faults
  BY HeartbeatAssumption DEF HbInv, HbTyped, HbFault, NotNow

\* Where the leader goes without a post.
LEMMA QuietOnce ==
    ASSUME OneLeader, OnceInv, HbInv', NEW r \in HbLeader, NEW ok \in BOOLEAN, NEW i \in Item,
           \/ StartRound(r) \/ TriageErrs(r) \/ LeaderDies(r) \/ Triage(r, ok) \/ FinishRound(r, ok)
           \/ AlreadyPosted(r, i) \/ NotPosted(r, i) \/ NotDelivered(r, i) \/ MayPost(r, i)
    PROVE  OnceInv'
<1>1. HbInv /\ DOMAIN round = HbLeader /\ round'[r] \in HbRounds /\ round[r] \in HbRounds
  BY RoundIs DEF OnceInv, HbInv, HbTyped
<1>2. /\ UNCHANGED posts
      /\ round'[r].pc \in {"idle", "triage", "deciding", "posting"}
      /\ round'[r].pc = "posting" => round'[r].item = {i} /\ ~Recorded(i)
      /\ HbFault \/ NotNow \/ UNCHANGED hbSpent
      /\ round[r].pc = "posted" => HbFault
  <2>1. CASE StartRound(r) \/ TriageErrs(r) \/ LeaderDies(r)
    <3>1. CASE StartRound(r)
      BY <1>1, <3>1 DEF StartRound, NoRound
    <3>2. CASE TriageErrs(r) \/ LeaderDies(r)
      BY <1>1, <3>2 DEF TriageErrs, LeaderDies, NoRound
    <3>3. QED
      BY <2>1, <3>1, <3>2
  <2>2. CASE Triage(r, ok)
    <3>1. round[r].pc = "triage" /\ UNCHANGED posts
      BY <2>2 DEF Triage
    <3>2. PICK todo : round' = [round EXCEPT ![r].pc = "deciding", ![r].todo = todo, ![r].ok = ok]
      BY <2>2 DEF Triage
    <3>3. round'[r].pc = "deciding"
      BY <1>1, <3>2 DEF HbRounds
    <3>4. HbFault \/ UNCHANGED hbSpent
      BY <2>2 DEF Triage
    <3>5. QED
      BY <3>1, <3>3, <3>4
  <2>3. CASE FinishRound(r, ok)
    BY <1>1, <2>3 DEF FinishRound, NoRound
  <2>4. CASE AlreadyPosted(r, i) \/ NotPosted(r, i) \/ NotDelivered(r, i)
    <3>1. round'[r] \in {Taken(r, i), Dropped(r, i)} /\ round[r].pc = "deciding" /\ UNCHANGED posts
      BY <1>1, <2>4 DEF AlreadyPosted, NotPosted, NotDelivered
    <3>2. HbFault \/ NotNow \/ UNCHANGED hbSpent
      BY <2>4 DEF AlreadyPosted, NotPosted, NotDelivered
    <3>3. round'[r].pc = "deciding"
      <4>1. Taken(r, i).pc = "deciding" /\ Dropped(r, i).pc = "deciding"
        BY <1>1, TakenDecides
      <4>2. QED
        BY <3>1, <4>1
    <3>4. QED
      BY <3>1, <3>2, <3>3
  <2>5. CASE MayPost(r, i)
    BY <1>1, <2>5 DEF MayPost, HbRounds
  <2> QED
    BY <2>1, <2>2, <2>3, <2>4, <2>5
<1> QED
  BY <1>1, <1>2, FaultIs, PostsStay

\* A step at an item leaves the others.
LEMMA OneItem ==
    ASSUME OneLeader, OnceInv, HbInv', NEW r \in HbLeader, NEW i \in Item,
           round[r].pc \in {"posting", "posted", "acting"}, round[r].item = {i},
           \A k \in Item : k # i => posts'[k] = posts[k],
           round'[r].pc \in {"posted", "acting"} => round'[r].item = {i}, round'[r].pc # "posting",
           hbSpent.faults <= hbSpent'.faults
    PROVE  \A k \in Item : k # i => ItemCounted(k)'
<1>1. \A q \in HbLeader : q = r
  BY DEF OneLeader
<1>2. ASSUME NEW k \in Item, k # i PROVE ItemCounted(k)'
  <2>1. ItemCounted(k) /\ posts[k] \in [out : Nat, kept : Nat, turns : Nat] /\ posts'[k] = posts[k]
        /\ hbSpent.faults \in Nat /\ hbSpent'.faults \in Nat
    BY <1>2 DEF OnceInv, HbInv, HbTyped
  <2>2. \A q \in HbLeader, pc \in {"posting", "posted", "acting"} : ~Has(q, pc, k) /\ ~Has(q, pc, k)'
    BY <1>1, <1>2 DEF Has
  <2>3. Recorded(k)' <=> Recorded(k)
    BY <2>1 DEF Recorded
  <2>4. QED
    BY <2>1, <2>2, <2>3 DEF ItemCounted
<1> QED
  BY <1>2

LEMMA PostOnce ==
    ASSUME OneLeader, OnceInv, HbInv', NEW r \in HbLeader, NEW i \in Item, NEW ok \in BOOLEAN,
           PostItem(r, i) \/ RecordPost(r, i, ok) \/ ActOn(r, i, ok)
    PROVE  OnceInv'
<1>1. /\ HbInv /\ DOMAIN round = HbLeader /\ round[r] \in HbRounds /\ ItemCounted(i) /\ \A q \in HbLeader : q = r
      /\ posts[i] \in [out : Nat, kept : Nat, turns : Nat] /\ DOMAIN posts = Item
      /\ hbSpent.faults \in Nat /\ hbSpent'.faults \in Nat
  BY RoundIs DEF OnceInv, HbInv, HbTyped, OneLeader
<1>2. CASE PostItem(r, i)
  <2>1. /\ round[r].pc = "posting" /\ round[r].item = {i} /\ round'[r].pc = "posted" /\ round'[r].item = {i}
        /\ posts'[i] = [posts[i] EXCEPT !.out = @ + 1] /\ UNCHANGED hbSpent
        /\ \A k \in Item : k # i => posts'[k] = posts[k]
    BY <1>1, <1>2 DEF PostItem, HbRounds
  <2>2. Has(r, "posting", i) /\ ~Has(r, "posted", i)
    BY <2>1 DEF Has
  <2>3. ~Recorded(i) /\ posts[i].out <= hbSpent.faults
    BY <1>1, <2>2 DEF ItemCounted
  <2>4. posts'[i].out = posts[i].out + 1 /\ posts'[i].kept = posts[i].kept /\ posts'[i].turns = posts[i].turns
    BY <1>1, <2>1
  <2>5. Has(r, "posted", i)' /\ ~Has(r, "posting", i)' /\ ~Has(r, "acting", i)'
    BY <2>1 DEF Has
  <2>6. ItemCounted(i)'
    BY <1>1, <2>1, <2>3, <2>4, <2>5 DEF ItemCounted, Recorded
  <2>7. QED
    BY <1>1, <2>1, <2>6, OneItem DEF OnceInv
<1>3. CASE RecordPost(r, i, ok)
  <2>1. /\ round[r].pc = "posted" /\ round[r].item = {i}
        /\ round'[r].pc \in {"deciding", "acting"} /\ (round'[r].pc = "acting" => ok /\ round'[r].item = {i})
        /\ posts' = IF ok THEN [posts EXCEPT ![i].kept = @ + 1] ELSE posts
        /\ hbSpent'.faults = IF ok THEN hbSpent.faults ELSE hbSpent.faults + 1
    <3>1. ok \/ HbFault
      BY <1>3 DEF RecordPost
    <3>2. ok => UNCHANGED hbSpent
      BY <1>3 DEF RecordPost
    <3>3. hbSpent'.faults = IF ok THEN hbSpent.faults ELSE hbSpent.faults + 1
      BY <1>1, <3>1, <3>2, FaultIs
    <3>4. \/ round'[r] \in {Taken(r, i), Dropped(r, i)}
          \/ ok /\ round'[r] = [round[r] EXCEPT !.pc = "acting"]
      BY <1>1, <1>3 DEF RecordPost
    <3>5. /\ round[r].pc = "posted" /\ round[r].item = {i}
          /\ posts' = IF ok THEN [posts EXCEPT ![i].kept = @ + 1] ELSE posts
      BY <1>3 DEF RecordPost
    <3>6. round'[r].pc \in {"deciding", "acting"} /\ (round'[r].pc = "acting" => ok /\ round'[r].item = {i})
      <4>1. Taken(r, i).pc = "deciding" /\ Dropped(r, i).pc = "deciding"
        BY <1>1, TakenDecides
      <4>2. QED
        BY <1>1, <3>4, <3>5, <4>1 DEF HbRounds
    <3>7. QED
      BY <3>3, <3>5, <3>6
  <2>2. \A k \in Item : k # i => posts'[k] = posts[k]
    BY <1>1, <2>1
  <2>3. Has(r, "posted", i)
    BY <2>1 DEF Has
  <2>4. ~Recorded(i) /\ posts[i].kept = 0 /\ posts[i].turns = 0 /\ posts[i].out > 0 /\ posts[i].out <= 1 + hbSpent.faults
    BY <1>1, <2>3 DEF ItemCounted, Recorded
  <2>5. /\ posts'[i].out = posts[i].out /\ posts'[i].turns = 0
        /\ posts'[i].kept = IF ok THEN 1 ELSE 0
    BY <1>1, <2>1, <2>4
  <2>6. ~Has(r, "posted", i)' /\ ~Has(r, "posting", i)' /\ (Has(r, "acting", i)' => ok)
    BY <2>1 DEF Has
  <2>7. ItemCounted(i)'
    BY <1>1, <2>1, <2>4, <2>5, <2>6 DEF ItemCounted, Recorded
  <2>8. QED
    BY <1>1, <2>1, <2>2, <2>7, OneItem DEF OnceInv
<1>4. CASE ActOn(r, i, ok)
  <2>1. /\ round[r].pc = "acting" /\ round[r].item = {i} /\ round'[r].pc = "deciding"
        /\ posts' = IF ok THEN [posts EXCEPT ![i].turns = @ + 1] ELSE posts
        /\ hbSpent'.faults \in {hbSpent.faults, hbSpent.faults + 1}
    <3>1. HbFault \/ UNCHANGED hbSpent
      BY <1>4 DEF ActOn
    <3>2. round'[r] \in {Taken(r, i), Dropped(r, i)}
      BY <1>1, <1>4 DEF ActOn
    <3>3. /\ round[r].pc = "acting" /\ round[r].item = {i}
          /\ posts' = IF ok THEN [posts EXCEPT ![i].turns = @ + 1] ELSE posts
      BY <1>4 DEF ActOn
    <3>4. Taken(r, i).pc = "deciding" /\ Dropped(r, i).pc = "deciding"
      BY <1>1, TakenDecides
    <3>5. hbSpent'.faults \in {hbSpent.faults, hbSpent.faults + 1}
      BY <1>1, <3>1, FaultIs
    <3>6. QED
      BY <3>2, <3>3, <3>4, <3>5
  <2>2. \A k \in Item : k # i => posts'[k] = posts[k]
    BY <1>1, <2>1
  <2>3. Has(r, "acting", i)
    BY <2>1 DEF Has
  <2>4. Recorded(i) /\ posts[i].turns = 0 /\ posts[i].kept = 1
    BY <1>1, <2>3 DEF ItemCounted, Recorded
  <2>5. posts'[i].out = posts[i].out /\ posts'[i].kept = 1 /\ posts'[i].turns \in {0, 1}
    BY <1>1, <2>1, <2>4
  <2>6. ~Has(r, "posted", i)' /\ ~Has(r, "posting", i)' /\ ~Has(r, "acting", i)'
    BY <2>1 DEF Has
  <2>7. ItemCounted(i)'
    BY <1>1, <2>1, <2>4, <2>5, <2>6 DEF ItemCounted, Recorded
  <2>8. QED
    BY <1>1, <2>1, <2>2, <2>7, OneItem DEF OnceInv
<1> QED
  BY <1>2, <1>3, <1>4

LEMMA OnceNextKeeps == OneLeader /\ OnceInv /\ [HbNext]_hbVars => OnceInv'
<1> SUFFICES ASSUME OneLeader, OnceInv, [HbNext]_hbVars PROVE OnceInv'
  OBVIOUS
<1>0. HbInv'
  BY HbNextKeeps DEF OnceInv
<1>1. CASE UNCHANGED <<round, posts, hbSpent>>
  <2>1. \A i \in Item : ItemCounted(i)' <=> ItemCounted(i)
    BY <1>1 DEF ItemCounted, Recorded, Has
  <2>2. QED
    BY <2>1, <1>0 DEF OnceInv
<1>2. ASSUME NEW r \in HbLeader, NEW ok \in BOOLEAN,
             StartRound(r) \/ TriageErrs(r) \/ LeaderDies(r) \/ Triage(r, ok) \/ FinishRound(r, ok)
      PROVE  OnceInv'
  <2>1. CASE Item = {}
    BY <2>1, <1>0 DEF OnceInv
  <2>2. CASE Item # {}
    BY <2>2, <1>0, <1>2, QuietOnce
  <2>3. QED
    BY <2>1, <2>2
<1>3. ASSUME NEW r \in HbLeader, NEW i \in Item,
             \/ ItemStep(r, i) \/ NotPosted(r, i) \/ NotDelivered(r, i)
             \/ RecordPost(r, i, FALSE) \/ ActOn(r, i, FALSE)
      PROVE  OnceInv'
  BY <1>0, <1>3, QuietOnce, PostOnce DEF ItemStep
<1>4. HbTime \/ (\E i \in Item : ItemAppears(i)) \/ UNCHANGED hbVars => UNCHANGED <<round, posts, hbSpent>>
  BY DEF HbTime, ItemAppears, hbVars
<1> QED
  BY <1>1, <1>2, <1>3, <1>4 DEF HbNext

LEMMA OnceInit == HbInit => OnceInv
<1> SUFFICES ASSUME HbInit PROVE OnceInv
  OBVIOUS
<1>1. \A i \in Item : ItemCounted(i)
  BY DEF HbInit, ItemCounted, Has, NoRound, Recorded
<1> QED
  BY <1>1, HbInitKeeps DEF OnceInv

\* With one leader an item is recorded and taken further once, and goes out again only
\* after its record failed (runHeartbeat, sendProactive).
THEOREM ItemOutOnce == OneLeader => (HbSpec => []ItemGoesOutOnce)
<1> SUFFICES ASSUME OneLeader PROVE HbSpec => []ItemGoesOutOnce
  OBVIOUS
<1>1. OnceInv => ItemGoesOutOnce
  <2>1. SUFFICES ASSUME OnceInv, NEW i \in Item PROVE posts[i].turns <= 1 /\ posts[i].kept <= 1 /\ posts[i].out <= 1 + hbSpent.faults
    BY DEF ItemGoesOutOnce
  <2>2. ItemCounted(i) /\ posts[i] \in [out : Nat, kept : Nat, turns : Nat]
    BY <2>1 DEF OnceInv, HbInv, HbTyped
  <2>3. QED
    BY <2>2 DEF ItemCounted
<1>2. OnceInv /\ [HbNext]_hbVars => OnceInv'
  BY OnceNextKeeps
<1> QED
  BY <1>1, <1>2, OnceInit, PTL DEF HbSpec

\* The state of a round and its items keeps its types (HbTypeOK), with one leader.
THEOREM RoundsTyped == OneLeader => (HbSpec => []HbTypeOK)
<1> SUFFICES ASSUME OneLeader PROVE HbSpec => []HbTypeOK
  OBVIOUS
<1>1. OnceInv => HbTypeOK
  <2>1. SUFFICES ASSUME OnceInv PROVE HbTypeOK
    OBVIOUS
  <2>2. HbTyped /\ \A i \in Item : posts[i].turns <= posts[i].kept /\ posts[i].kept <= posts[i].out
    BY <2>1 DEF OnceInv, HbInv, ItemCounted
  <2>3. QED
    BY <2>2 DEF HbTyped, HbTypeOK, HbRounds
<1>2. OnceInv /\ [HbNext]_hbVars => OnceInv'
  BY OnceNextKeeps
<1> QED
  BY <1>1, <1>2, OnceInit, PTL DEF HbSpec

-----------------------------------------------------------------------------
(***************************************************************************)
(* The wakes of an agent, with one runWake at a time                       *)
(***************************************************************************)
OneWaker == \A v, w \in Waker : v = w

WkTyped ==
    /\ slotNow \in Nat /\ missed \in Nat /\ wakeRow.failures \in Nat
    /\ DOMAIN wakeRow = {"next", "last", "finished", "failures", "job"}
    /\ wakeRow.last \in Int /\ wakeRow.finished \in Int
    /\ DOMAIN wakeSpent = {"asks", "edits", "faults", "crossed"}
    /\ DOMAIN waker = Waker /\ \A w \in Waker :
          /\ DOMAIN waker[w] = {"pc", "at", "job", "run"}
          /\ waker[w].pc \in {"idle", "gate", "due", "clear", "opened", "noted", "failed"}
          /\ waker[w].pc # "idle" => waker[w].at = slotNow
    /\ DOMAIN wrun = WakeRun /\ \A n \in WakeRun :
          /\ DOMAIN wrun[n] = {"row", "turn", "at", "noted", "end", "seen"}
          /\ wrun[n].at \in Nat
          /\ wrun[n].row \in {"none", "open", "ended"}
          /\ wrun[n].turn \in {"none", "going", "aborting", "over"}
          /\ wrun[n].end \in {"none", "ok", "error", "stopped"}

\* One run is open, none while a waker found it clear; the waker's own until it dispatched.
OneOpen ==
    /\ \A m, n \in OpenWakes : m = n
    /\ \A w \in Waker : waker[w].pc = "clear" => OpenWakes = {}
    /\ \A w \in Waker : waker[w].pc \in {"opened", "noted"} =>
          /\ waker[w].run \in OpenWakes
          /\ wrun[waker[w].run].turn = "none" /\ wrun[waker[w].run].at = slotNow
          /\ wrun[waker[w].run].end = "none" /\ ~wrun[waker[w].run].noted
    /\ \A w \in Waker : waker[w].pc = "failed" => waker[w].run \in WakeRun

\* A turn under way is that of an open run, and young.
GoingIsOpen == \A n \in GoingTurns : wrun[n].row = "open" /\ wrun[n].end = "none"
                                  /\ wrun[n].at <= slotNow /\ slotNow <= wrun[n].at + TurnLimit

\* An aborted turn's run was stopped; an open run has not ended; nobody reads for one that has not ended.
EndsAre ==
    \A n \in WakeRun :
        /\ wrun[n].turn = "aborting" => wrun[n].row = "ended" /\ wrun[n].end \in {"none", "stopped"}
        /\ wrun[n].end # "none" => wrun[n].row = "ended"
        /\ wrun[n].end = "none" => wrun[n].seen = {}
        /\ \A row \in wrun[n].seen : row.failures \in Nat
        /\ wrun[n].row = "none" => wrun[n] = NoRun

\* Nothing is open, and one run at most is ending, while one is.
OneEnding ==
    \A m \in WakeRun : Ending(m) => OpenWakes = {} /\ \A n \in WakeRun : Ending(n) => n = m

\* A wake starts after the last one's notes, and notes where it started.
StartsAfterNotes ==
    /\ \A w \in Waker : waker[w].pc \in {"gate", "due", "clear", "opened", "noted"} => wakeRow.finished < slotNow
    /\ \A w \in Waker : waker[w].pc = "noted" => wakeRow.last = slotNow

\* The row tells whether the notes of a turn that runs or ended well were written.
NotesAre ==
    \A n \in WakeRun : wrun[n].turn = "going" \/ wrun[n].end = "ok" =>
        /\ wakeRow.last = wrun[n].at
        /\ wrun[n].noted <=> wakeRow.finished >= wakeRow.last

\* What a settlement has read of the row is so.
SeenIsSo ==
    \A n \in WakeRun : \A row \in wrun[n].seen :
        /\ row.failures = wakeRow.failures
        /\ wrun[n].end = "ok" => row.last = wakeRow.last /\ row.finished = wakeRow.finished

WkInv ==
    /\ WkTyped /\ OneOpen /\ GoingIsOpen /\ EndsAre
    /\ ~wakeSpent.crossed => OneEnding /\ StartsAfterNotes /\ NotesAre /\ SeenIsSo /\ wakeRow.failures = missed

-----------------------------------------------------------------------------
\* The steps by what they move: one run or none, one waker or none.
OnlyRun(n) ==
    /\ DOMAIN wrun' = WakeRun /\ DOMAIN wrun'[n] = {"row", "turn", "at", "noted", "end", "seen"}
    /\ wrun'[n].at = wrun[n].at
    /\ \A k \in WakeRun : k # n => wrun'[k] = wrun[k]
OnlyWaker(w) ==
    /\ DOMAIN waker' = Waker /\ DOMAIN waker'[w] = {"pc", "at", "job", "run"}
    /\ \A v \in Waker : v # w => waker'[v] = waker[v]

LEMMA SlotPassesKeeps == ASSUME WkInv, SlotPasses PROVE WkInv'
<1>1. /\ slotNow' = slotNow + 1 /\ UNCHANGED <<slotRan, job, wakeRow, waker, wrun, missed, wakeSpent>>
      /\ \A w \in Waker : waker[w].pc = "idle"
      /\ \A n \in WakeRun : ~Ending(n) /\ (n \in GoingTurns => slotNow < wrun[n].at + TurnLimit)
  BY DEF SlotPasses
<1>2. slotNow \in Nat /\ TurnLimit \in Nat /\ \A n \in WakeRun : wrun[n].at \in Nat
  BY WakeAssumption DEF WkInv, WkTyped
<1>3. GoingTurns' = GoingTurns /\ OpenWakes' = OpenWakes
  BY <1>1 DEF GoingTurns, OpenWakes
<1>4. WkTyped'
  BY <1>1 DEF WkInv, WkTyped
<1>5. OneOpen' /\ EndsAre'
  BY <1>1, <1>3 DEF WkInv, OneOpen, EndsAre
<1>6. GoingIsOpen'
  <2>1. \A n \in GoingTurns : n \in WakeRun
    BY DEF GoingTurns
  <2>2. QED
    BY <2>1, <1>1, <1>2, <1>3 DEF WkInv, GoingIsOpen
<1>7. ~wakeSpent.crossed => OneEnding' /\ StartsAfterNotes' /\ NotesAre' /\ SeenIsSo' /\ wakeRow.failures = missed
  BY <1>1, <1>3 DEF WkInv, OneEnding, StartsAfterNotes, NotesAre, SeenIsSo, Ending
<1> QED
  BY <1>1, <1>4, <1>5, <1>6, <1>7 DEF WkInv

LEMMA EditKeeps == ASSUME WkInv, EditWakeJob PROVE WkInv'
<1>1. UNCHANGED <<slotNow, slotRan, wakeRow, waker, wrun, missed>>
  BY DEF EditWakeJob
<1>2. wakeSpent'.crossed = wakeSpent.crossed /\ DOMAIN wakeSpent' = DOMAIN wakeSpent
  BY DEF EditWakeJob, WkInv, WkTyped
<1>3. GoingTurns' = GoingTurns /\ OpenWakes' = OpenWakes
  BY <1>1 DEF GoingTurns, OpenWakes
<1>4. WkTyped' /\ OneOpen' /\ EndsAre' /\ GoingIsOpen'
  BY <1>1, <1>2, <1>3 DEF WkInv, WkTyped, OneOpen, EndsAre, GoingIsOpen
<1>5. ~wakeSpent.crossed => OneEnding' /\ StartsAfterNotes' /\ NotesAre' /\ SeenIsSo' /\ wakeRow'.failures = missed'
  BY <1>1, <1>3 DEF WkInv, OneEnding, StartsAfterNotes, NotesAre, SeenIsSo, Ending
<1> QED
  BY <1>2, <1>4, <1>5 DEF WkInv

-----------------------------------------------------------------------------
\* A waker's step that opens nothing: from the gate on it needs the notes to be
\* older, and to find it clear nothing to be open.
LEMMA WakerMoves ==
    ASSUME WkInv, NEW w \in Waker, OnlyWaker(w), UNCHANGED <<slotNow, wrun, missed>>,
           wakeSpent'.crossed = wakeSpent.crossed, DOMAIN wakeSpent' = DOMAIN wakeSpent,
           DOMAIN wakeRow' = DOMAIN wakeRow, wakeRow'.last = wakeRow.last, wakeRow'.finished = wakeRow.finished,
           wakeRow'.failures = wakeRow.failures,
           waker'[w].pc \in {"idle", "gate", "due", "clear"},
           waker'[w].pc # "idle" => waker'[w].at = slotNow /\ wakeRow.finished < slotNow,
           waker'[w].pc = "clear" => OpenWakes = {}
    PROVE  WkInv'
<1>1. GoingTurns' = GoingTurns /\ OpenWakes' = OpenWakes
  BY DEF GoingTurns, OpenWakes
<1>2. WkTyped'
  BY DEF WkInv, WkTyped, OnlyWaker
<1>3. OneOpen'
  BY <1>1 DEF WkInv, OneOpen, OnlyWaker
<1>4. GoingIsOpen' /\ EndsAre'
  BY <1>1 DEF WkInv, GoingIsOpen, EndsAre
<1>5. ASSUME ~wakeSpent.crossed PROVE OneEnding' /\ StartsAfterNotes' /\ NotesAre' /\ SeenIsSo' /\ wakeRow'.failures = missed'
  <2>1. OneEnding'
    BY <1>1, <1>5 DEF WkInv, OneEnding, Ending
  <2>2. StartsAfterNotes'
    BY <1>5 DEF WkInv, StartsAfterNotes, OnlyWaker
  <2>3. NotesAre' /\ SeenIsSo'
    BY <1>5 DEF WkInv, NotesAre, SeenIsSo
  <2>4. QED
    BY <2>1, <2>2, <2>3, <1>5 DEF WkInv
<1> QED
  BY <1>2, <1>3, <1>4, <1>5 DEF WkInv

\* The waker's record after one of its steps.
LEMMA StandsIs ==
    ASSUME WkInv, NEW w \in Waker, NEW pc \in {"idle", "due", "clear", "noted", "failed"}, Stands(w, pc)
    PROVE  OnlyWaker(w) /\ waker'[w].pc = pc /\ (pc # "idle" => waker'[w].at = waker[w].at /\ waker'[w].run = waker[w].run)
BY DEF WkInv, WkTyped, Stands, OnlyWaker, Rested

LEMMA BeginKeeps ==
    ASSUME WkInv, NEW w \in Waker, Begin(w), UNCHANGED <<slotNow, wrun, missed>>,
           wakeSpent'.crossed = wakeSpent.crossed, DOMAIN wakeSpent' = DOMAIN wakeSpent,
           DOMAIN wakeRow' = DOMAIN wakeRow, wakeRow'.last = wakeRow.last, wakeRow'.finished = wakeRow.finished,
           wakeRow'.failures = wakeRow.failures
    PROVE  WkInv'
<1>1. OnlyWaker(w) /\ waker'[w].pc = "gate" /\ waker'[w].at = slotNow /\ wakeRow.finished < slotNow
  BY DEF WkInv, WkTyped, Begin, OnlyWaker, Rested
<1> QED
  BY <1>1, WakerMoves

LEMMA WakeStartsKeeps ==
    ASSUME WkInv, NEW w \in Waker,
           RoundWakes(w) \/ AskNow(w) \/ Gate(w) \/ LookForOpen(w) \/ RefuseWake(w) \/ FailReturns(w)
    PROVE  WkInv'
<1>1. CASE RoundWakes(w)
  BY <1>1, BeginKeeps DEF RoundWakes
<1>2. CASE AskNow(w)
  <2>1. /\ Begin(w) /\ UNCHANGED <<slotNow, wrun, missed>> /\ wakeSpent'.crossed = wakeSpent.crossed
        /\ DOMAIN wakeSpent' = DOMAIN wakeSpent
        /\ wakeRow' = IF wakeRow.last = Unset THEN wakeRow ELSE [wakeRow EXCEPT !.next = slotNow]
    BY <1>2 DEF AskNow, WkInv, WkTyped
  <2>2. DOMAIN wakeRow' = DOMAIN wakeRow /\ wakeRow'.last = wakeRow.last /\ wakeRow'.finished = wakeRow.finished
        /\ wakeRow'.failures = wakeRow.failures
    BY <2>1 DEF WkInv, WkTyped
  <2>3. QED
    BY <2>1, <2>2, BeginKeeps
<1>3. CASE Gate(w) \/ LookForOpen(w)
  <2>1. /\ waker[w].pc \in {"gate", "due"} /\ UNCHANGED <<slotNow, wakeRow, wrun, missed, wakeSpent>>
        /\ \/ Stands(w, "idle") \/ Stands(w, "due") 
           \/ Stands(w, "clear") /\ OpenWakes = {}
    BY <1>3 DEF Gate, LookForOpen
  <2>2. OnlyWaker(w) /\ waker'[w].pc \in {"idle", "due", "clear"} /\ (waker'[w].pc # "idle" => waker'[w].at = waker[w].at)
        /\ (waker'[w].pc = "clear" => OpenWakes = {})
    BY <2>1, StandsIs
  <2>3. waker[w].at = slotNow
    BY <2>1 DEF WkInv, WkTyped
  <2>4. CASE wakeRow.finished < slotNow
    BY <2>1, <2>2, <2>3, <2>4, WakerMoves
  <2>5. CASE ~(wakeRow.finished < slotNow)
    <3>1. wakeSpent.crossed
      BY <2>1, <2>5 DEF WkInv, StartsAfterNotes
    <3>2. GoingTurns' = GoingTurns /\ OpenWakes' = OpenWakes
      BY <2>1 DEF GoingTurns, OpenWakes
    <3>3. WkTyped' /\ OneOpen' /\ GoingIsOpen' /\ EndsAre'
      BY <2>1, <2>2, <2>3, <3>2 DEF WkInv, WkTyped, OneOpen, GoingIsOpen, EndsAre, OnlyWaker
    <3>4. QED
      BY <2>1, <3>1, <3>3 DEF WkInv
  <2>6. QED
    BY <2>4, <2>5
<1>4. CASE RefuseWake(w) \/ FailReturns(w)
  <2>1. UNCHANGED <<slotNow, wakeRow, wrun, missed, wakeSpent>> /\ Stands(w, "idle")
    BY <1>4 DEF RefuseWake, FailReturns
  <2>2. OnlyWaker(w) /\ waker'[w].pc = "idle"
    BY <2>1, StandsIs
  <2>3. QED
    BY <2>1, <2>2, WakerMoves
<1> QED
  BY <1>1, <1>2, <1>3, <1>4

-----------------------------------------------------------------------------
\* The run is open and none else: its waker works on it alone.
LEMMA OpenWakeRunKeeps == ASSUME WkInv, OneWaker, NEW w \in Waker, OpenWakeRun(w) PROVE WkInv'
<1>1. PICK n \in WakeRun :
        /\ wrun[n].row = "none"
        /\ wrun' = [wrun EXCEPT ![n] = [NoRun EXCEPT !.row = "open", !.at = slotNow]]
        /\ waker' = [waker EXCEPT ![w].pc = "opened", ![w].run = n]
  BY DEF OpenWakeRun
<1>2. waker[w].pc = "clear" /\ UNCHANGED <<slotNow, wakeRow, missed>>
  BY DEF OpenWakeRun
<1>3. /\ DOMAIN wakeSpent' = DOMAIN wakeSpent
      /\ ~wakeSpent'.crossed => ~wakeSpent.crossed /\ \A k \in WakeRun : ~Ending(k)
  BY DEF OpenWakeRun, WkInv, WkTyped
<1>4. /\ DOMAIN wrun' = WakeRun /\ DOMAIN wrun'[n] = {"row", "turn", "at", "noted", "end", "seen"}
      /\ wrun'[n].row = "open" /\ wrun'[n].turn = "none" /\ wrun'[n].at = slotNow /\ ~wrun'[n].noted
      /\ wrun'[n].end = "none" /\ wrun'[n].seen = {}
      /\ \A k \in WakeRun : k # n => wrun'[k] = wrun[k]
  BY <1>1 DEF WkInv, WkTyped, NoRun
<1>5. /\ OnlyWaker(w) /\ waker'[w].pc = "opened" /\ waker'[w].run = n /\ waker'[w].at = waker[w].at
      /\ \A v \in Waker : v = w
  BY <1>1 DEF WkInv, WkTyped, OnlyWaker, OneWaker
<1>6. OpenWakes = {} /\ OpenWakes' = {n}
  BY <1>2, <1>4 DEF WkInv, OneOpen, OpenWakes
<1>7. \A k \in WakeRun : wrun[k].turn # "going"
  BY <1>6 DEF WkInv, GoingIsOpen, GoingTurns, OpenWakes
<1>8. WkTyped'
  BY <1>2, <1>3, <1>4, <1>5 DEF WkInv, WkTyped, OnlyWaker
<1>9. OneOpen'
  BY <1>2, <1>4, <1>5, <1>6 DEF OneOpen
<1>10. GoingIsOpen'
  BY <1>4, <1>7 DEF GoingIsOpen, GoingTurns
<1>11. EndsAre'
  BY <1>4 DEF WkInv, EndsAre
<1>12. ASSUME ~wakeSpent'.crossed PROVE OneEnding' /\ StartsAfterNotes' /\ NotesAre' /\ SeenIsSo' /\ wakeRow'.failures = missed'
  <2>1. \A k \in WakeRun : ~Ending(k) /\ ~Ending(k)'
    BY <1>3, <1>4, <1>12 DEF Ending
  <2>2. OneEnding'
    BY <2>1 DEF OneEnding
  <2>3. StartsAfterNotes'
    BY <1>2, <1>3, <1>5, <1>12 DEF WkInv, StartsAfterNotes
  <2>4. NotesAre' /\ SeenIsSo'
    BY <1>2, <1>3, <1>4, <1>7, <1>12, <2>1 DEF WkInv, NotesAre, SeenIsSo, Ending
  <2>5. QED
    BY <2>2, <2>3, <2>4, <1>2, <1>3, <1>12 DEF WkInv
<1> QED
  BY <1>8, <1>9, <1>10, <1>11, <1>12 DEF WkInv

\* While a run is open nothing is ending.
LEMMA OpenIsQuiet ==
    ASSUME WkInv, ~wakeSpent.crossed, NEW n \in WakeRun, wrun[n].row = "open"
    PROVE  /\ \A k \in WakeRun : ~Ending(k) /\ wrun[k].end = "none" /\ wrun[k].seen = {}
           /\ \A k \in GoingTurns : k = n
<1>1. n \in OpenWakes
  BY DEF OpenWakes
<1>2. \A k \in WakeRun : ~Ending(k)
  BY <1>1 DEF WkInv, OneEnding
<1>3. \A k \in WakeRun : wrun[k].end = "none" /\ wrun[k].seen = {}
  BY <1>2 DEF Ending, WkInv, EndsAre
<1>4. \A k \in GoingTurns : k \in OpenWakes
  BY DEF WkInv, GoingIsOpen, GoingTurns, OpenWakes
<1> QED
  BY <1>1, <1>2, <1>3, <1>4 DEF WkInv, OneOpen

LEMMA NoteStartKeeps == ASSUME WkInv, OneWaker, NEW w \in Waker, NoteStart(w) PROVE WkInv'
<1> DEFINE n == waker[w].run
<1>1. /\ waker[w].pc = "opened" /\ wakeRow' = [wakeRow EXCEPT !.last = waker[w].at, !.job = waker[w].job]
      /\ Stands(w, "noted") /\ UNCHANGED <<slotNow, wrun, missed, wakeSpent>>
  BY DEF NoteStart
<1>2. OnlyWaker(w) /\ waker'[w].pc = "noted" /\ waker'[w].at = waker[w].at /\ waker'[w].run = n
      /\ waker[w].at = slotNow /\ \A v \in Waker : v = w
  BY <1>1, StandsIs DEF OneWaker, WkInv, WkTyped
<1>3. DOMAIN wakeRow' = DOMAIN wakeRow /\ wakeRow'.last = slotNow /\ wakeRow'.finished = wakeRow.finished
      /\ wakeRow'.failures = wakeRow.failures
  BY <1>1, <1>2 DEF WkInv, WkTyped
<1>4. OpenWakes' = OpenWakes /\ GoingTurns' = GoingTurns
  BY <1>1 DEF OpenWakes, GoingTurns
<1>5. /\ n \in WakeRun /\ wrun[n].row = "open" /\ wrun[n].turn = "none" /\ wrun[n].end = "none"
      /\ ~wrun[n].noted /\ wrun[n].at = slotNow
  BY <1>1 DEF WkInv, OneOpen, OpenWakes
<1>6. WkTyped'
  BY <1>1, <1>2, <1>3 DEF WkInv, WkTyped, OnlyWaker
<1>7. OneOpen' /\ GoingIsOpen' /\ EndsAre'
  BY <1>1, <1>2, <1>4 DEF WkInv, OneOpen, GoingIsOpen, EndsAre
<1>8. ASSUME ~wakeSpent.crossed PROVE OneEnding' /\ StartsAfterNotes' /\ NotesAre' /\ SeenIsSo' /\ wakeRow'.failures = missed'
  <2>1. \A k \in WakeRun : ~Ending(k) /\ ~Ending(k)' /\ wrun[k].end = "none" /\ wrun[k].seen = {} /\ wrun[k].turn # "going"
    BY <1>1, <1>5, <1>8, OpenIsQuiet DEF Ending, GoingTurns
  <2>2. OneEnding' /\ SeenIsSo' /\ NotesAre'
    BY <1>1, <2>1 DEF OneEnding, SeenIsSo, NotesAre
  <2>3. StartsAfterNotes'
    BY <1>1, <1>2, <1>3, <1>8 DEF WkInv, StartsAfterNotes
  <2>4. QED
    BY <2>2, <2>3, <1>1, <1>3, <1>8 DEF WkInv
<1> QED
  BY <1>1, <1>6, <1>7, <1>8 DEF WkInv

LEMMA DispatchWakeKeeps == ASSUME WkInv, OneWaker, NEW w \in Waker, DispatchWake(w) PROVE WkInv'
<1>0. PICK n : n = waker[w].run
  OBVIOUS
<1>1. /\ waker[w].pc = "noted" /\ wrun' = [wrun EXCEPT ![n].turn = "going"]
      /\ Stands(w, "idle") /\ UNCHANGED <<slotNow, wakeRow, missed, wakeSpent>>
  BY <1>0 DEF DispatchWake
<1>2. OnlyWaker(w) /\ waker'[w].pc = "idle" /\ \A v \in Waker : v = w
  BY <1>1, StandsIs DEF OneWaker
<1>3. /\ n \in WakeRun /\ wrun[n].row = "open" /\ wrun[n].turn = "none" /\ wrun[n].end = "none"
      /\ ~wrun[n].noted /\ wrun[n].at = slotNow /\ n \in OpenWakes
  BY <1>0, <1>1 DEF WkInv, OneOpen, OpenWakes
<1>4. /\ OnlyRun(n) /\ wrun'[n].row = "open" /\ wrun'[n].turn = "going" /\ wrun'[n].end = "none" /\ ~wrun'[n].noted
      /\ wrun'[n].seen = wrun[n].seen /\ wrun'[n].at = slotNow
  BY <1>1, <1>3 DEF WkInv, WkTyped, OnlyRun
<1>5. OpenWakes' = OpenWakes
  BY <1>3, <1>4 DEF OpenWakes, OnlyRun
<1>6. WkTyped'
  BY <1>1, <1>2, <1>4, <1>3 DEF WkInv, WkTyped, OnlyWaker, OnlyRun
<1>7. OneOpen'
  BY <1>1, <1>2, <1>5 DEF WkInv, OneOpen
<1>8. GoingIsOpen'
  BY <1>1, <1>3, <1>4, WakeAssumption DEF WkInv, WkTyped, GoingIsOpen, GoingTurns, OnlyRun
<1>9. EndsAre'
  BY <1>3, <1>4 DEF WkInv, EndsAre, OnlyRun
<1>10. ASSUME ~wakeSpent.crossed PROVE OneEnding' /\ StartsAfterNotes' /\ NotesAre' /\ SeenIsSo' /\ wakeRow'.failures = missed'
  <2>1. \A k \in WakeRun : ~Ending(k) /\ ~Ending(k)' /\ wrun[k].end = "none" /\ wrun[k].seen = {} /\ wrun[k].turn # "going"
    BY <1>3, <1>4, <1>10, OpenIsQuiet DEF Ending, GoingTurns, OnlyRun
  <2>2. OneEnding' /\ SeenIsSo'
    BY <2>1, <1>3, <1>4 DEF OneEnding, SeenIsSo, OnlyRun
  <2>3. StartsAfterNotes'
    BY <1>2 DEF StartsAfterNotes
  <2>4. wakeRow.last = slotNow /\ wakeRow.finished < slotNow
    BY <1>1, <1>10 DEF WkInv, StartsAfterNotes
  <2>5. NotesAre'
    <3>1. ~(wakeRow.finished >= wakeRow.last)
      BY <2>4 DEF WkInv, WkTyped
    <3>2. QED
      BY <3>1, <2>1, <2>4, <1>1, <1>3, <1>4 DEF NotesAre, OnlyRun
  <2>6. QED
    BY <2>2, <2>3, <2>5, <1>1, <1>10 DEF WkInv
<1> QED
  BY <1>1, <1>6, <1>7, <1>8, <1>9, <1>10 DEF WkInv

LEMMA WakeFailsKeeps == ASSUME WkInv, OneWaker, NEW w \in Waker, WakeFails(w) PROVE WkInv'
<1>0. PICK n : n = waker[w].run
  OBVIOUS
<1>1. /\ waker[w].pc \in {"opened", "noted"} /\ wrun' = [wrun EXCEPT ![n].row = "ended", ![n].end = "error"]
      /\ Stands(w, "failed") /\ UNCHANGED <<slotNow, wakeRow, missed>>
  BY <1>0 DEF WakeFails
<1>2. OnlyWaker(w) /\ waker'[w].pc = "failed" /\ waker'[w].at = waker[w].at /\ waker'[w].run = n /\ \A v \in Waker : v = w
  BY <1>0, <1>1, StandsIs DEF OneWaker
<1>3. /\ n \in WakeRun /\ wrun[n].row = "open" /\ wrun[n].turn = "none" /\ wrun[n].end = "none"
      /\ n \in OpenWakes
  BY <1>0, <1>1 DEF WkInv, OneOpen, OpenWakes
<1>4. /\ OnlyRun(n) /\ wrun'[n].row = "ended" /\ wrun'[n].turn = "none" /\ wrun'[n].end = "error"
      /\ wrun'[n].seen = wrun[n].seen /\ wrun'[n].noted = wrun[n].noted
  BY <1>1, <1>3 DEF WkInv, WkTyped, OnlyRun
<1>5. OpenWakes' = {}
  BY <1>3, <1>4 DEF OpenWakes, OnlyRun, WkInv, OneOpen
<1>6. wakeSpent'.crossed = wakeSpent.crossed /\ DOMAIN wakeSpent' = DOMAIN wakeSpent
  BY DEF WakeFails, WakeFault, WkInv, WkTyped
<1>7. WkTyped'
  BY <1>1, <1>2, <1>3, <1>4, <1>6 DEF WkInv, WkTyped, OnlyWaker, OnlyRun
<1>8. OneOpen' /\ GoingIsOpen' /\ EndsAre'
  BY <1>1, <1>2, <1>3, <1>4, <1>5 DEF WkInv, OneOpen, GoingIsOpen, GoingTurns, EndsAre, OnlyRun
<1>9. ASSUME ~wakeSpent.crossed PROVE OneEnding' /\ StartsAfterNotes' /\ NotesAre' /\ SeenIsSo' /\ wakeRow'.failures = missed'
  <2>1. \A k \in WakeRun : ~Ending(k) /\ wrun[k].end = "none" /\ wrun[k].seen = {}
    BY <1>3, <1>9, OpenIsQuiet
  <2>2. OneEnding'
    BY <2>1, <1>3, <1>4, <1>5 DEF OneEnding, Ending, OnlyRun
  <2>3. SeenIsSo'
    BY <2>1, <1>3, <1>4 DEF SeenIsSo, OnlyRun
  <2>4. StartsAfterNotes'
    BY <1>2 DEF StartsAfterNotes
  <2>5. NotesAre'
    BY <2>1, <1>1, <1>3, <1>4, <1>9 DEF WkInv, NotesAre, OnlyRun
  <2>6. QED
    BY <2>2, <2>3, <2>4, <2>5, <1>1, <1>9 DEF WkInv
<1> QED
  BY <1>6, <1>7, <1>8, <1>9 DEF WkInv

-----------------------------------------------------------------------------
\* A run's step that opens nothing, with the wakers where they were.
LEMMA RunMoves ==
    ASSUME WkInv, NEW n \in WakeRun, OnlyRun(n), UNCHANGED <<slotNow, waker>>,
           DOMAIN wakeSpent' = DOMAIN wakeSpent,
           wrun[n].row # "none", wrun'[n].row \in {wrun[n].row, "ended"},
           wrun'[n].turn \in {"none", "going", "aborting", "over"}, wrun'[n].end \in {"none", "ok", "error", "stopped"},
           wrun'[n].turn = "going" => wrun[n].turn = "going" /\ wrun'[n].row = "open" /\ wrun'[n].end = "none",
           wrun'[n].turn = "aborting" => wrun'[n].row = "ended" /\ wrun'[n].end \in {"none", "stopped"},
           wrun'[n].end # "none" => wrun'[n].row = "ended",
           wrun'[n].end = "none" => wrun'[n].seen = {}, \A row \in wrun'[n].seen : row.failures \in Nat,
           \A w \in Waker : waker[w].pc \in {"opened", "noted"} => waker[w].run # n,
           missed' \in Nat, wakeRow'.failures \in Nat, DOMAIN wakeRow' = DOMAIN wakeRow,
           wakeRow'.last = wakeRow.last, wakeRow'.finished \in {wakeRow.finished, slotNow}
    PROVE  /\ WkTyped' /\ OneOpen' /\ GoingIsOpen' /\ EndsAre'
           /\ OpenWakes' \subseteq OpenWakes /\ GoingTurns' \subseteq GoingTurns
<1>1. OpenWakes' \subseteq OpenWakes /\ GoingTurns' \subseteq GoingTurns
  BY DEF OpenWakes, GoingTurns, OnlyRun, WkInv, WkTyped
<1>2. WkTyped'
  BY DEF WkInv, WkTyped, OnlyRun
<1>3. OneOpen'
  <2>1. \A m, k \in OpenWakes' : m = k
    BY <1>1 DEF WkInv, OneOpen
  <2>2. \A w \in Waker : waker[w].pc \in {"opened", "noted"} => waker[w].run \in OpenWakes'
    BY DEF WkInv, OneOpen, OpenWakes, OnlyRun
  <2>3. QED
    BY <1>1, <2>1, <2>2 DEF WkInv, OneOpen, OpenWakes, OnlyRun
<1>4. GoingIsOpen'
  BY <1>1 DEF WkInv, GoingIsOpen, GoingTurns, OnlyRun
<1>5. EndsAre'
  BY DEF WkInv, EndsAre, OnlyRun
<1> QED
  BY <1>1, <1>2, <1>3, <1>4, <1>5

\* The run of a waker that has not dispatched has no turn, and the instant is its start.
LEMMA NotYetSent ==
    ASSUME WkInv, NEW n \in WakeRun, wrun[n].turn # "none" \/ wrun[n].at # slotNow \/ wrun[n].row = "ended"
    PROVE  \A w \in Waker : waker[w].pc \in {"opened", "noted"} => waker[w].run # n
BY DEF WkInv, OneOpen, OpenWakes

LEMMA FinishRoundKeeps == ASSUME WkInv, NEW n \in WakeRun, FinishRoundTool(n) PROVE WkInv'
<1>1. PICK next : wakeRow' = [wakeRow EXCEPT !.next = next, !.finished = slotNow]
  BY DEF FinishRoundTool
<1>2. /\ wrun[n].turn \in {"going", "aborting"} /\ wrun' = [wrun EXCEPT ![n].noted = TRUE]
      /\ UNCHANGED <<slotNow, waker, missed>>
  BY DEF FinishRoundTool
<1>3. /\ DOMAIN wakeSpent' = DOMAIN wakeSpent
      /\ ~wakeSpent'.crossed => ~wakeSpent.crossed /\ \A w \in Waker : waker[w].pc = "idle"
  BY DEF FinishRoundTool, WkInv, WkTyped
<1>4. /\ OnlyRun(n) /\ wrun'[n].noted /\ wrun'[n].row = wrun[n].row /\ wrun'[n].turn = wrun[n].turn
      /\ wrun'[n].end = wrun[n].end /\ wrun'[n].seen = wrun[n].seen
  BY <1>2 DEF WkInv, WkTyped, OnlyRun
<1>5. DOMAIN wakeRow' = DOMAIN wakeRow /\ wakeRow'.last = wakeRow.last /\ wakeRow'.finished = slotNow
      /\ wakeRow'.failures = wakeRow.failures
  BY <1>1 DEF WkInv, WkTyped
<1>6. wrun[n].row # "none" /\ (wrun[n].turn = "going" => wrun[n].row = "open" /\ wrun[n].end = "none")
  BY <1>2 DEF WkInv, EndsAre, NoRun, GoingIsOpen, GoingTurns
<1>7. WkTyped' /\ OneOpen' /\ GoingIsOpen' /\ EndsAre'
  <2>1. missed' \in Nat /\ wakeRow'.failures \in Nat
    BY <1>2, <1>5 DEF WkInv, WkTyped
  <2>2. /\ wrun[n].turn = "aborting" => wrun[n].row = "ended" /\ wrun[n].end \in {"none", "stopped"}
        /\ wrun[n].end # "none" => wrun[n].row = "ended"
        /\ wrun[n].end = "none" => wrun[n].seen = {}
        /\ \A row \in wrun[n].seen : row.failures \in Nat
        /\ wrun[n].turn \in {"none", "going", "aborting", "over"} /\ wrun[n].end \in {"none", "ok", "error", "stopped"}
    BY DEF WkInv, EndsAre, WkTyped
  <2>3. \A w \in Waker : waker[w].pc \in {"opened", "noted"} => waker[w].run # n
    BY <1>2, NotYetSent
  <2>4. QED
    BY <1>2, <1>3, <1>4, <1>5, <1>6, <2>1, <2>2, <2>3, RunMoves
<1>8. ASSUME ~wakeSpent'.crossed PROVE OneEnding' /\ StartsAfterNotes' /\ NotesAre' /\ SeenIsSo' /\ wakeRow'.failures = missed'
  <2>1. ~wakeSpent.crossed
    BY <1>3, <1>8
  <2>2. \A k \in WakeRun : (Ending(k)' <=> Ending(k)) /\ wrun'[k].end = wrun[k].end /\ wrun'[k].turn = wrun[k].turn
                           /\ wrun'[k].seen = wrun[k].seen /\ wrun'[k].at = wrun[k].at /\ wrun'[k].row = wrun[k].row
    BY <1>4 DEF Ending, OnlyRun
  <2>3. OneEnding' /\ StartsAfterNotes'
    BY <1>3, <1>2, <1>8, <2>1, <2>2 DEF WkInv, OneEnding, StartsAfterNotes, OpenWakes
  <2>4. \A k \in WakeRun : wrun[k].end # "ok"
    <3>1. CASE wrun[n].turn = "going"
      BY <3>1, <1>6, <2>1, OpenIsQuiet
    <3>2. CASE wrun[n].turn = "aborting"
      BY <3>2, <2>1 DEF WkInv, OneEnding, Ending, EndsAre
    <3>3. QED
      BY <3>1, <3>2, <1>2
  <2>5. \A k \in WakeRun : wrun[k].turn = "going" => k = n
    <3>1. CASE wrun[n].turn = "going"
      BY <3>1, <1>6, <2>1, OpenIsQuiet DEF GoingTurns
    <3>2. CASE wrun[n].turn = "aborting"
      BY <3>2, <2>1 DEF WkInv, OneEnding, Ending, GoingIsOpen, GoingTurns, OpenWakes
    <3>3. QED
      BY <3>1, <3>2, <1>2
  <2>6. NotesAre'
    <3>1. SUFFICES ASSUME wrun[n].turn = "going" PROVE wakeRow.last = wrun[n].at /\ slotNow >= wakeRow.last
      BY <1>4, <1>5, <2>2, <2>4, <2>5 DEF NotesAre
    <3>2. QED
      BY <3>1, <2>1 DEF WkInv, NotesAre, GoingIsOpen, GoingTurns, WkTyped
  <2>7. SeenIsSo'
    BY <1>5, <2>1, <2>2, <2>4 DEF WkInv, SeenIsSo
  <2>8. QED
    BY <2>1, <2>3, <2>6, <2>7, <1>2, <1>5 DEF WkInv
<1> QED
  BY <1>7, <1>8 DEF WkInv

\* A turn ends, its run with it; the wall clock closes its run first; it is lost.
LEMMA TurnMoves ==
    ASSUME WkInv, NEW n \in WakeRun, (\E end \in {"ok", "error", "stopped"} : TurnEnds(n, end)) \/ WallClock(n) \/ TurnLost(n)
    PROVE  WkInv'
<1>1. wrun[n].turn = "going" /\ wrun[n].row = "open" /\ wrun[n].end = "none" /\ wrun[n].seen = {}
  BY DEF TurnEnds, WallClock, TurnLost, WkInv, GoingIsOpen, GoingTurns, EndsAre
<1>2. /\ OnlyRun(n) /\ wrun'[n].seen = wrun[n].seen /\ wrun'[n].noted = wrun[n].noted
      /\ UNCHANGED <<slotNow, waker, wakeRow, missed>>
      /\ \/ wrun'[n].turn = "over" /\ wrun'[n].row = "ended" /\ wrun'[n].end \in {"ok", "error", "stopped"}
         \/ wrun'[n].turn = "aborting" /\ wrun'[n].row = "ended" /\ wrun'[n].end = "stopped"
         \/ wrun'[n].turn = "over" /\ wrun'[n].row = "open" /\ wrun'[n].end = "none"
  <2>1. CASE \E end \in {"ok", "error", "stopped"} : TurnEnds(n, end)
    BY <2>1, <1>1 DEF TurnEnds, WkInv, WkTyped, OnlyRun
  <2>2. CASE WallClock(n)
    BY <2>2, <1>1 DEF WallClock, WkInv, WkTyped, OnlyRun
  <2>3. CASE TurnLost(n)
    BY <2>3, <1>1 DEF TurnLost, WkInv, WkTyped, OnlyRun
  <2>4. QED
    BY <2>1, <2>2, <2>3
<1>3. wakeSpent'.crossed = wakeSpent.crossed /\ DOMAIN wakeSpent' = DOMAIN wakeSpent
  BY DEF TurnEnds, WallClock, TurnLost, WakeFault, WkInv, WkTyped
<1>4. WkTyped' /\ OneOpen' /\ GoingIsOpen' /\ EndsAre' /\ OpenWakes' \subseteq OpenWakes
  <2>1. \A w \in Waker : waker[w].pc \in {"opened", "noted"} => waker[w].run # n
    BY <1>1, NotYetSent
  <2>2. missed' \in Nat /\ wakeRow'.failures \in Nat /\ DOMAIN wakeRow' = DOMAIN wakeRow /\ wakeRow'.last = wakeRow.last
        /\ wakeRow'.finished = wakeRow.finished
    BY <1>2 DEF WkInv, WkTyped
  <2>3. QED
    BY <1>1, <1>2, <1>3, <2>1, <2>2, RunMoves
<1>5. ASSUME ~wakeSpent.crossed PROVE OneEnding' /\ StartsAfterNotes' /\ NotesAre' /\ SeenIsSo' /\ wakeRow'.failures = missed'
  <2>1. /\ \A k \in WakeRun : ~Ending(k) /\ wrun[k].end = "none" /\ wrun[k].seen = {}
        /\ \A k \in WakeRun : wrun[k].turn = "going" => k = n
        /\ \A k \in OpenWakes : k = n
    BY <1>1, <1>5, OpenIsQuiet DEF GoingTurns, WkInv, OneOpen, OpenWakes
  <2>2. \A k \in WakeRun : Ending(k)' => k = n /\ wrun'[n].row = "ended"
    BY <2>1, <1>2 DEF Ending, OnlyRun
  <2>3. OneEnding'
    BY <2>1, <2>2, <1>4 DEF OneEnding, OpenWakes
  <2>4. StartsAfterNotes'
    BY <1>2, <1>5 DEF WkInv, StartsAfterNotes
  <2>5. NotesAre'
    BY <1>1, <1>2, <1>5, <2>1 DEF WkInv, NotesAre, OnlyRun
  <2>6. SeenIsSo'
    BY <1>1, <1>2, <2>1 DEF SeenIsSo, OnlyRun
  <2>7. QED
    BY <2>3, <2>4, <2>5, <2>6, <1>2, <1>5 DEF WkInv
<1> QED
  BY <1>3, <1>4, <1>5 DEF WkInv

LEMMA AbortSweepKeeps == ASSUME WkInv, NEW n \in WakeRun, AbortLands(n) \/ SweepWake(n) PROVE WkInv'
<1>1. UNCHANGED <<slotNow, waker, wakeRow, missed, wakeSpent>>
  BY DEF AbortLands, SweepWake
<1>2. wrun[n].turn # "going" /\ wrun[n].row # "none" /\ \A w \in Waker : waker[w].pc \in {"opened", "noted"} => waker[w].run # n
  <2>1. CASE AbortLands(n)
    BY <2>1, NotYetSent DEF AbortLands, WkInv, EndsAre, NoRun
  <2>2. CASE SweepWake(n)
    <3>1. slotNow > wrun[n].at + Stale /\ wrun[n].row = "open"
      BY <2>2 DEF SweepWake
    <3>2. wrun[n].at # slotNow /\ ~(slotNow <= wrun[n].at + TurnLimit)
      BY <3>1, WakeAssumption DEF WkInv, WkTyped
    <3>3. QED
      BY <3>1, <3>2, NotYetSent DEF WkInv, GoingIsOpen, GoingTurns
  <2>3. QED
    BY <2>1, <2>2
<1>3. /\ OnlyRun(n) /\ wrun'[n].seen = wrun[n].seen /\ wrun'[n].noted = wrun[n].noted /\ wrun'[n].end = wrun[n].end
      /\ \/ wrun[n].turn = "aborting" /\ wrun'[n].turn = "over" /\ wrun'[n].row = wrun[n].row
         \/ wrun'[n].turn = wrun[n].turn /\ wrun'[n].row = "ended"
  <2>1. CASE AbortLands(n)
    BY <2>1 DEF AbortLands, WkInv, WkTyped, OnlyRun
  <2>2. CASE SweepWake(n)
    BY <2>2 DEF SweepWake, WkInv, WkTyped, OnlyRun
  <2>3. QED
    BY <2>1, <2>2
<1>4. WkTyped' /\ OneOpen' /\ GoingIsOpen' /\ EndsAre' /\ OpenWakes' \subseteq OpenWakes /\ GoingTurns' \subseteq GoingTurns
  <2>1. /\ wrun[n].turn = "aborting" => wrun[n].row = "ended" /\ wrun[n].end \in {"none", "stopped"}
        /\ wrun[n].end # "none" => wrun[n].row = "ended"
        /\ wrun[n].end = "none" => wrun[n].seen = {}
        /\ \A row \in wrun[n].seen : row.failures \in Nat
        /\ wrun[n].turn \in {"none", "going", "aborting", "over"} /\ wrun[n].end \in {"none", "ok", "error", "stopped"}
    BY DEF WkInv, EndsAre, WkTyped
  <2>2. missed' \in Nat /\ wakeRow'.failures \in Nat /\ DOMAIN wakeRow' = DOMAIN wakeRow /\ wakeRow'.last = wakeRow.last
        /\ wakeRow'.finished = wakeRow.finished /\ DOMAIN wakeSpent' = DOMAIN wakeSpent
    BY <1>1 DEF WkInv, WkTyped
  <2>3. QED
    BY <1>1, <1>2, <1>3, <2>1, <2>2, RunMoves
<1>5. ASSUME ~wakeSpent.crossed PROVE OneEnding' /\ StartsAfterNotes' /\ NotesAre' /\ SeenIsSo' /\ wakeRow'.failures = missed'
  <2>1. \A k \in WakeRun : Ending(k)' => Ending(k)
    BY <1>2, <1>3 DEF Ending, OnlyRun
  <2>2. OneEnding'
    BY <2>1, <1>4, <1>5 DEF WkInv, OneEnding
  <2>3. StartsAfterNotes'
    BY <1>1, <1>5 DEF WkInv, StartsAfterNotes
  <2>4. NotesAre' /\ SeenIsSo'
    BY <1>1, <1>2, <1>3, <1>5 DEF WkInv, NotesAre, SeenIsSo, OnlyRun
  <2>5. QED
    BY <2>2, <2>3, <2>4, <1>1, <1>5 DEF WkInv
<1> QED
  BY <1>1, <1>4, <1>5 DEF WkInv

LEMMA SettleReadsKeeps == ASSUME WkInv, NEW n \in WakeRun, SettleReads(n) PROVE WkInv'
<1>1. /\ UNCHANGED <<slotNow, waker, wakeRow, missed, wakeSpent>> /\ wrun[n].end # "none"
      /\ wrun' = [wrun EXCEPT ![n].seen = {wakeRow}]
  BY DEF SettleReads
<1>2. /\ OnlyRun(n) /\ wrun'[n].seen = {wakeRow} /\ wrun'[n].noted = wrun[n].noted /\ wrun'[n].end = wrun[n].end
      /\ wrun'[n].turn = wrun[n].turn /\ wrun'[n].row = wrun[n].row
  BY <1>1 DEF WkInv, WkTyped, OnlyRun
<1>3. wrun[n].row = "ended" /\ wrun[n].turn # "going" /\ \A w \in Waker : waker[w].pc \in {"opened", "noted"} => waker[w].run # n
  BY <1>1, NotYetSent DEF WkInv, EndsAre, GoingIsOpen, GoingTurns
<1>4. WkTyped' /\ OneOpen' /\ GoingIsOpen' /\ EndsAre' /\ OpenWakes' \subseteq OpenWakes
  <2>1. /\ wrun[n].turn = "aborting" => wrun[n].end \in {"none", "stopped"}
        /\ wrun[n].turn \in {"none", "going", "aborting", "over"} /\ wrun[n].end \in {"none", "ok", "error", "stopped"}
    BY DEF WkInv, EndsAre, WkTyped
  <2>2. missed' \in Nat /\ wakeRow'.failures \in Nat /\ DOMAIN wakeRow' = DOMAIN wakeRow /\ wakeRow'.last = wakeRow.last
        /\ wakeRow'.finished = wakeRow.finished /\ DOMAIN wakeSpent' = DOMAIN wakeSpent
        /\ \A row \in wrun'[n].seen : row.failures \in Nat
    BY <1>1, <1>2 DEF WkInv, WkTyped
  <2>3. QED
    BY <1>1, <1>2, <1>3, <2>1, <2>2, RunMoves
<1>5. ASSUME ~wakeSpent.crossed PROVE OneEnding' /\ StartsAfterNotes' /\ NotesAre' /\ SeenIsSo' /\ wakeRow'.failures = missed'
  <2>1. \A k \in WakeRun : Ending(k)' <=> Ending(k)
    BY <1>2 DEF Ending, OnlyRun
  <2>2. OneEnding'
    BY <2>1, <1>4, <1>5 DEF WkInv, OneEnding
  <2>3. StartsAfterNotes'
    BY <1>1, <1>5 DEF WkInv, StartsAfterNotes
  <2>4. NotesAre' /\ SeenIsSo'
    BY <1>1, <1>2, <1>3, <1>5 DEF WkInv, NotesAre, SeenIsSo, OnlyRun
  <2>5. QED
    BY <2>2, <2>3, <2>4, <1>1, <1>5 DEF WkInv
<1> QED
  BY <1>1, <1>4, <1>5 DEF WkInv

\* What a settlement makes of the row it read.
Wrote(row) == row.finished # Unset /\ row.last # Unset /\ row.finished >= row.last
LEMMA SettledIs ==
    ASSUME NEW row, row.failures \in Nat, NEW end
    PROVE  /\ end = "ok" /\ Wrote(row) => Settled(row, end).failures = 0
           /\ ~(end = "ok" /\ Wrote(row)) => Settled(row, end).failures = row.failures + 1
<1>1. CASE end = "ok" /\ Wrote(row)
  BY <1>1 DEF Settled, Wrote
<1>2. CASE end = "error"
  BY <1>2 DEF Settled, Wrote
<1>3. CASE ~(end = "ok" /\ Wrote(row)) /\ end # "error"
  BY <1>3 DEF Settled, Wrote
<1> QED
  BY <1>1, <1>2, <1>3

LEMMA SettleWritesKeeps == ASSUME WkInv, NEW n \in WakeRun, SettleWrites(n) PROVE WkInv'
<1>1. PICK row, f, nx :
        /\ row \in wrun[n].seen
        /\ f = Settled(row, wrun[n].end).failures
        /\ wakeRow' = [wakeRow EXCEPT !.failures = f, !.next = nx]
        /\ wrun' = [wrun EXCEPT ![n].end = "none", ![n].seen = {}]
        /\ missed' = IF wrun[n].end = "ok" /\ wrun[n].noted THEN 0 ELSE missed + 1
        /\ UNCHANGED <<slotNow, slotRan, job, waker, wakeSpent>>
  BY DEF SettleWrites
<1>2. /\ OnlyRun(n) /\ wrun'[n].seen = {} /\ wrun'[n].noted = wrun[n].noted /\ wrun'[n].end = "none"
      /\ wrun'[n].turn = wrun[n].turn /\ wrun'[n].row = wrun[n].row
  BY <1>1 DEF WkInv, WkTyped, OnlyRun
<1>3. wrun[n].end # "none" /\ wrun[n].row = "ended" /\ wrun[n].turn # "going"
      /\ \A w \in Waker : waker[w].pc \in {"opened", "noted"} => waker[w].run # n
  BY <1>1, NotYetSent DEF WkInv, EndsAre, GoingIsOpen, GoingTurns
<1>4. row.failures \in Nat
  BY <1>1 DEF WkInv, EndsAre
<1>5. (f = 0 /\ wrun[n].end = "ok" /\ Wrote(row)) \/ (f = row.failures + 1 /\ ~(wrun[n].end = "ok" /\ Wrote(row)))
  BY <1>1, <1>4, SettledIs
<1>6. f \in Nat /\ missed' \in Nat
  BY <1>1, <1>4, <1>5 DEF WkInv, WkTyped
<1>7. /\ DOMAIN wakeRow' = DOMAIN wakeRow /\ wakeRow'.failures = f /\ wakeRow'.last = wakeRow.last
      /\ wakeRow'.finished = wakeRow.finished
  BY <1>1 DEF WkInv, WkTyped
<1>8. WkTyped' /\ OneOpen' /\ GoingIsOpen' /\ EndsAre' /\ OpenWakes' \subseteq OpenWakes
  <2>1. /\ wrun[n].turn \in {"none", "going", "aborting", "over"} /\ DOMAIN wakeSpent' = DOMAIN wakeSpent
    BY <1>1 DEF WkInv, WkTyped
  <2>2. QED
    BY <1>1, <1>2, <1>3, <1>6, <1>7, <2>1, RunMoves
<1>9. ASSUME ~wakeSpent.crossed PROVE OneEnding' /\ StartsAfterNotes' /\ NotesAre' /\ SeenIsSo' /\ wakeRow'.failures = missed'
  <2>1. OpenWakes = {} /\ \A k \in WakeRun : Ending(k) => k = n
    BY <1>3, <1>9 DEF WkInv, OneEnding, Ending
  <2>2. \A k \in WakeRun : Ending(k)' => k = n
    BY <1>2, <2>1 DEF Ending, OnlyRun
  <2>3. OneEnding'
    BY <1>8, <2>1, <2>2 DEF OneEnding
  <2>4. StartsAfterNotes'
    BY <1>1, <1>7, <1>9 DEF WkInv, StartsAfterNotes
  <2>5. \A k \in WakeRun : wrun'[k].end = "none" /\ wrun'[k].seen = {}
    BY <1>2, <2>1 DEF Ending, OnlyRun, WkInv, EndsAre
  <2>6. \A k \in WakeRun : wrun'[k].turn # "going"
    BY <1>2, <1>3, <2>1 DEF OnlyRun, WkInv, GoingIsOpen, GoingTurns, OpenWakes
  <2>7. NotesAre' /\ SeenIsSo'
    BY <2>5, <2>6 DEF NotesAre, SeenIsSo
  <2>8. row.failures = missed /\ (wrun[n].end = "ok" => (Wrote(row) <=> wrun[n].noted))
    <3>1. row.failures = wakeRow.failures /\ wakeRow.failures = missed
          /\ (wrun[n].end = "ok" => row.last = wakeRow.last /\ row.finished = wakeRow.finished)
      BY <1>1, <1>9 DEF WkInv, SeenIsSo
    <3>2. wrun[n].end = "ok" => wakeRow.last = wrun[n].at /\ (wrun[n].noted <=> wakeRow.finished >= wakeRow.last)
      BY <1>9 DEF WkInv, NotesAre
    <3>3. wrun[n].at \in Nat /\ wakeRow.finished \in Int
      BY DEF WkInv, WkTyped
    <3>4. wrun[n].end = "ok" => (Wrote(row) <=> wakeRow.finished >= wakeRow.last)
      BY <3>1, <3>2, <3>3 DEF Wrote, Unset
    <3>5. QED
      BY <3>1, <3>2, <3>4
  <2>9. wakeRow'.failures = missed'
    BY <2>8, <1>1, <1>5, <1>7
  <2>10. QED
    BY <2>3, <2>4, <2>7, <2>9
<1> QED
  BY <1>1, <1>8, <1>9 DEF WkInv

LEMMA WkNextKeeps == ASSUME WkInv, OneWaker, [WakeNext]_wakeVars PROVE WkInv'
<1>1. CASE SlotPasses \/ EditWakeJob
  BY <1>1, SlotPassesKeeps, EditKeeps
<1>2. ASSUME NEW w \in Waker, RoundWakes(w) \/ AskNow(w) \/ WakerStep(w) \/ WakeFails(w) PROVE WkInv'
  BY <1>2, WakeStartsKeeps, OpenWakeRunKeeps, NoteStartKeeps, DispatchWakeKeeps, WakeFailsKeeps DEF WakerStep
<1>3. ASSUME NEW n \in WakeRun, WakeRunStep(n) \/ FinishRoundTool(n) \/ TurnLost(n) PROVE WkInv'
  BY <1>3, FinishRoundKeeps, TurnMoves, AbortSweepKeeps, SettleReadsKeeps, SettleWritesKeeps DEF WakeRunStep
<1>4. CASE UNCHANGED wakeVars
  <2>1. OpenWakes' = OpenWakes /\ GoingTurns' = GoingTurns
    BY <1>4 DEF wakeVars, OpenWakes, GoingTurns
  <2>2. WkTyped' /\ OneOpen' /\ GoingIsOpen' /\ EndsAre'
    BY <1>4, <2>1 DEF wakeVars, WkInv, WkTyped, OneOpen, GoingIsOpen, EndsAre
  <2>3. ~wakeSpent.crossed => OneEnding' /\ StartsAfterNotes' /\ NotesAre' /\ SeenIsSo' /\ wakeRow'.failures = missed'
    BY <1>4, <2>1 DEF wakeVars, WkInv, OneEnding, StartsAfterNotes, NotesAre, SeenIsSo, Ending
  <2>4. QED
    BY <1>4, <2>2, <2>3 DEF WkInv, wakeVars
<1> QED
  BY <1>1, <1>2, <1>3, <1>4 DEF WakeNext

LEMMA WkInitKeeps == ASSUME WakeInit PROVE WkInv
<1> USE DEF WakeInit
<1>1. WkTyped /\ EndsAre
  BY DEF WkTyped, EndsAre, NoRun, Rested, Unset
<1>2. OpenWakes = {} /\ GoingTurns = {} /\ \A n \in WakeRun : ~Ending(n)
  BY DEF OpenWakes, GoingTurns, NoRun, Ending
<1>3. OneOpen /\ GoingIsOpen
  BY <1>2 DEF OneOpen, GoingIsOpen, Rested
<1>4. OneEnding /\ StartsAfterNotes /\ NotesAre /\ SeenIsSo /\ wakeRow.failures = missed
  BY <1>2 DEF OneEnding, StartsAfterNotes, NotesAre, SeenIsSo, NoRun, Rested
<1> QED
  BY <1>1, <1>3, <1>4 DEF WkInv

\* The wakes of an agent run one at a time, and the failures on its row are the
\* wakes since the last that ended well with its notes written, but for a start
\* that crossed a settlement, for any number of runs, sleeps, edits and faults,
\* when the agent's runWakes follow one another (runWake, settleWake).
THEOREM WakesKept == OneWaker => (WakeSpec => []WakesHold)
<1> SUFFICES ASSUME OneWaker PROVE WakeSpec => []WakesHold
  OBVIOUS
<1>1. WakeInit => WkInv
  BY WkInitKeeps
<1>2. WkInv /\ [WakeNext]_wakeVars => WkInv'
  BY WkNextKeeps
<1>3. ASSUME WkInv PROVE WakesHold
  <2>1. \A m, n \in GoingTurns : m = n
    BY <1>3 DEF WkInv, OneOpen, GoingIsOpen, GoingTurns, OpenWakes
  <2>2. OneWakeRuns
    <3>1. CASE GoingTurns = {}
      BY <3>1, FS_EmptySet DEF OneWakeRuns
    <3>2. CASE GoingTurns # {}
      <4>1. PICK n : GoingTurns = {n}
        BY <2>1, <3>2
      <4>2. QED
        BY <4>1, FS_Singleton DEF OneWakeRuns
    <3>3. QED
      BY <3>1, <3>2
  <2>3. FailuresCounted
    BY <1>3 DEF WkInv, FailuresCounted, CountIsExact
  <2>4. QED
    BY <2>2, <2>3 DEF WakesHold
<1> QED
  BY <1>1, <1>2, <1>3, PTL DEF WakeSpec
============================================================================
