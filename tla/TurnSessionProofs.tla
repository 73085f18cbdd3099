------------------------- MODULE TurnSessionProofs -------------------------
(***************************************************************************)
(* Proofs about TurnSession for every set of messages, labels, nodes,      *)
(* operation slots and every bound.                                        *)
(***************************************************************************)
EXTENDS TurnSession, WellFoundedInduction, TLAPS

\* An operation in one of these steps does not hold the append lock.
Free == {"idle", "acquire", "markfailed"}

\* The inductive invariant: AppendersSerialize, that the lock's value names a
\* slot, and as much of op's shape as an update of pc needs.
LockInv ==
    /\ DOMAIN op = Op
    /\ \A o \in Op : "pc" \in DOMAIN op[o]
    /\ appendLock \in Op \cup {NoOp}
    /\ AppendersSerialize

-----------------------------------------------------------------------------
\* A step of the operation that holds the lock keeps LockInv, whatever it does
\* to its own slot.
LEMMA HolderStep ==
    ASSUME NEW o \in Op, NEW r, LockInv,
           op[o].pc \notin Free, "pc" \in DOMAIN r,
           op' = [op EXCEPT ![o] = r],
           appendLock' = appendLock
    PROVE  LockInv'
  BY DEF LockInv, AppendersSerialize, Free

\* So does a step of an operation that ends, or stays, outside the lock.
LEMMA FreeStep ==
    ASSUME NEW o \in Op, NEW r, LockInv,
           r.pc \in Free, "pc" \in DOMAIN r,
           op' = [op EXCEPT ![o] = r],
           appendLock' = appendLock
    PROVE  LockInv'
  BY DEF LockInv, AppendersSerialize, Free

\* And a step that changes neither the operations nor the lock.
LEMMA OtherStep ==
    ASSUME LockInv, UNCHANGED <<op, appendLock>>
    PROVE  LockInv'
  BY DEF LockInv, AppendersSerialize

LEMMA HolderSteps ==
    ASSUME NEW o \in Op, LockInv,
           \/ Look(o) \/ RecordSenders(o) \/ UpdateData(o) \/ Recheck(o)
           \/ Index(o) \/ Add(o) \/ MarkSource(o)
           \/ CheckMoved(o) \/ CheckClaimed(o) \/ CheckMerge(o) \/ CheckSwap(o)
           \/ AddCopy(o) \/ MarkCopy(o) \/ Take(o) \/ DropCopy(o) \/ Unmark(o)
           \/ Promote(o) \/ Reindex(o) \/ TakeHold(o) \/ MarkHold(o)
    PROVE  LockInv'
<1>1. "pc" \in DOMAIN op[o]
  BY DEF LockInv
<1>2. SUFFICES \E r : /\ op[o].pc \notin Free /\ "pc" \in DOMAIN r
                     /\ op' = [op EXCEPT ![o] = r] /\ appendLock' = appendLock
  BY HolderStep
<1>3. CASE Look(o)
  BY <1>1, <1>3 DEF Free, Go, Look, redis
<1>4. CASE RecordSenders(o)
  BY <1>1, <1>4 DEF Free, Go, RecordSenders
<1>5. CASE UpdateData(o)
  BY <1>1, <1>5 DEF Free, Go, UpdateData, Finish
<1>6. CASE Recheck(o)
  <2>1. CASE StillPending(op[o].ref)
    <3> DEFINE r == [op[o] EXCEPT !.pc = AppendedThen(op[o]), !.res = op[o].ref]
    <3>1. "pc" \in DOMAIN r
      BY <1>1
    <3>2. op' = [op EXCEPT ![o] = r]
      BY <1>6, <2>1 DEF Recheck
    <3> QED
      BY <1>6, <3>1, <3>2 DEF Free, Recheck, redis
  <2>2. CASE ~StillPending(op[o].ref)
    BY <1>1, <1>6, <2>2 DEF Free, Go, Recheck, redis
  <2> QED
    BY <2>1, <2>2
<1>7. CASE Index(o)
  BY <1>1, <1>7 DEF Free, Go, Index
<1>8. CASE Add(o)
  <2> DEFINE r == [op[o] EXCEPT !.pc = IF op[o].kind = "claimed" THEN "marksrc" ELSE "release",
                              !.res = <<op[o].want, op[o].id>>]
  <2>1. "pc" \in DOMAIN r
    BY <1>1
  <2>2. op' = [op EXCEPT ![o] = r]
    BY <1>8 DEF Add
  <2> QED
    BY <1>8, <2>1, <2>2 DEF Free, Add
<1>9. CASE MarkSource(o)
  BY <1>1, <1>9 DEF Free, Go, MarkSource
<1>10. CASE CheckMoved(o)
  BY <1>1, <1>10 DEF Free, Go, CheckMoved, Finish
<1>11. CASE CheckClaimed(o)
  BY <1>1, <1>11 DEF Free, Go, CheckClaimed, ToMove, redis
<1>12. CASE CheckMerge(o)
  <2> DEFINE r == [op[o] EXCEPT !.pc = "copy", !.kind = "merge", !.id = nextId,
                              !.d = At(op[o].src).data, !.cp = <<idx[1], nextId>>]
  <2>1. "pc" \in DOMAIN r
    BY <1>1
  <2>2. op' = [op EXCEPT ![o] = r]
    BY <1>12 DEF CheckMerge
  <2> QED
    BY <1>12, <2>1, <2>2 DEF Free, CheckMerge, ToMove, redis
<1>13. CASE CheckSwap(o)
  <2> DEFINE r == [op[o] EXCEPT !.pc = "copy", !.kind = "swap", !.id = op[o].src[2],
                              !.d = At(op[o].src).data,
                              !.cp = <<op[o].want, op[o].src[2]>>]
  <2>1. "pc" \in DOMAIN r
    BY <1>1
  <2>2. op' = [op EXCEPT ![o] = r]
    BY <1>13 DEF CheckSwap
  <2> QED
    BY <1>13, <2>1, <2>2 DEF Free, CheckSwap, ToMove, redis
<1>14. CASE AddCopy(o)
  BY <1>1, <1>14 DEF Free, Go, AddCopy
<1>15. CASE MarkCopy(o)
  BY <1>1, <1>15 DEF Free, Go, MarkCopy
<1>16. CASE Take(o)
  BY <1>1, <1>16 DEF Free, Go, Take
<1>17. CASE DropCopy(o)
  BY <1>1, <1>17 DEF Free, Go, DropCopy
<1>18. CASE Unmark(o)
  <2> DEFINE r == [op[o] EXCEPT !.pc = IF HasWant(op[o]) THEN "index" ELSE "release",
                              !.res = IF HasWant(op[o]) THEN NoRef ELSE op[o].src,
                              !.cp = NoRef]
  <2>1. "pc" \in DOMAIN r
    BY <1>1
  <2>2. op' = [op EXCEPT ![o] = r]
    BY <1>18 DEF Unmark
  <2> QED
    BY <1>18, <2>1, <2>2 DEF Free, Unmark
<1>19. CASE Promote(o)
  BY <1>1, <1>19 DEF Free, Go, Promote
<1>20. CASE Reindex(o)
  <2> DEFINE r == [op[o] EXCEPT !.pc = "release", !.res = op[o].cp]
  <2>1. "pc" \in DOMAIN r
    BY <1>1
  <2>2. op' = [op EXCEPT ![o] = r]
    BY <1>20 DEF Reindex, Finish
  <2> QED
    BY <1>20, <2>1, <2>2 DEF Free, Reindex
<1>21. CASE TakeHold(o)
  BY <1>1, <1>21 DEF Free, Go, TakeHold
<1>22. CASE MarkHold(o)
  BY <1>1, <1>22 DEF Free, Go, MarkHold
<1> QED
  BY <1>3, <1>4, <1>5, <1>6, <1>7, <1>8, <1>9, <1>10, <1>11, <1>12, <1>13, <1>14, <1>15, <1>16, <1>17, <1>18, <1>19, <1>20, <1>21, <1>22

\* The steps that take the lock, give it back, or run without it.
LEMMA EdgeSteps ==
    ASSUME NEW o \in Op, LockInv, NoOp \notin Op,
           Acquire(o) \/ Release(o) \/ MarkFailed(o) \/ Start(o)
    PROVE  LockInv'
<1>1. "pc" \in DOMAIN op[o]
  BY DEF LockInv
<1>2. CASE Acquire(o)
  BY <1>1, <1>2 DEF Acquire, LockFree, Go, LockInv, AppendersSerialize
<1>3. CASE Release(o)
  <2>1. PICK r : r.pc \in Free /\ "pc" \in DOMAIN r /\ op' = [op EXCEPT ![o] = r]
    BY <1>1, <1>3 DEF Release, Go, Set, Free, IdleOp
  <2>2. CASE appendLock = o
    <3>1. appendLock' = NoOp
      BY <1>3, <2>2 DEF Release
    <3> QED
      BY <1>3, <2>1, <2>2, <3>1 DEF Release, LockInv, AppendersSerialize, Free
  <2>3. CASE appendLock # o
    <3>1. appendLock' = appendLock
      BY <1>3, <2>3 DEF Release
    <3> QED
      BY <2>1, <3>1, FreeStep
  <2> QED
    BY <2>2, <2>3
<1>4. CASE MarkFailed(o)
  <2>1. IdleOp.pc \in Free /\ "pc" \in DOMAIN IdleOp
    BY DEF IdleOp, Free
  <2> QED
    BY <1>4, <2>1, FreeStep DEF MarkFailed, Set
<1>5. CASE \E m \in Msg, q \in Queue : StartEnqueue(o, m, q)
  <2>1. PICK m \in Msg, q \in Queue : StartEnqueue(o, m, q)
    BY <1>5
  <2>2. PICK r : r.pc \in Free /\ "pc" \in DOMAIN r /\ op' = [op EXCEPT ![o] = r]
    BY <2>1 DEF StartEnqueue, Set, IdleOp, Free
  <2> QED
    BY <2>1, <2>2, FreeStep DEF StartEnqueue, redis
<1>6. CASE \E m \in Msg : StartRedispatch(o, m)
  <2>1. PICK m \in Msg : StartRedispatch(o, m)
    BY <1>6
  <2>2. PICK r : r.pc \in Free /\ "pc" \in DOMAIN r /\ op' = [op EXCEPT ![o] = r]
    BY <2>1 DEF StartRedispatch, Set, IdleOp, Free
  <2> QED
    BY <2>1, <2>2, FreeStep DEF StartRedispatch
<1>7. CASE \E n \in Warm, i \in Id : StartReap(o, n, i)
  <2>1. PICK n \in Warm, i \in Id : StartReap(o, n, i)
    BY <1>7
  <2> DEFINE r == [IdleOp EXCEPT !.pc = "acquire", !.kind = "reap",
                      !.rescue = (job[n][i].st = "active"),
                      !.want = job[n][i].data.label, !.src = <<n, i>>]
  <2>2. r.pc \in Free /\ "pc" \in DOMAIN r
    BY DEF IdleOp, Free
  <2>3. op' = [op EXCEPT ![o] = r] /\ appendLock' = appendLock
    BY <2>1 DEF StartReap, Set, redis
  <2> QED
    BY <2>2, <2>3, FreeStep
<1> QED
  BY <1>2, <1>3, <1>4, <1>5, <1>6, <1>7 DEF Start

\* The worker's processor touches the lock only through the move it starts.
LEMMA ProcessSteps ==
    ASSUME NEW q \in Queue, NEW i \in Id, LockInv, Process(q, i)
    PROVE  LockInv'
<1>1. CASE \E o \in Op : StartClaimedMove(o, q, i)
  <2>1. PICK o \in Op : StartClaimedMove(o, q, i)
    BY <1>1
  <2>2. PICK r : r.pc \in Free /\ "pc" \in DOMAIN r /\ op' = [op EXCEPT ![o] = r]
    BY <2>1 DEF StartClaimedMove, Set, IdleOp, Free
  <2> QED
    BY <2>1, <2>2, FreeStep DEF StartClaimedMove
<1>2. CASE SkipDone(q, i) \/ BeginTurn(q, i) \/ Requeue(q, i) \/ FailAtClaim(q, i)
  BY <1>2, OtherStep DEF SkipDone, BeginTurn, Requeue, FailAtClaim
<1>3. CASE \E denied \in BOOLEAN : EndTurn(q, i, denied)
  BY <1>3, OtherStep DEF EndTurn
<1>4. CASE Ack(q, i) \/ FailDenied(q, i) \/ CompleteMoved(q, i)
  BY <1>4, OtherStep DEF Ack, FailDenied, CompleteMoved
<1> QED
  BY <1>1, <1>2, <1>3, <1>4 DEF Process

-----------------------------------------------------------------------------
LEMMA LockInit == Init => LockInv
  BY DEF Init, IdleOp, LockInv, AppendersSerialize

\* A lapse of the lock under a live operation needs SlowOps; crashes end in
\* IdleOp; nothing else that fails or runs out touches the lock.
LEMMA FaultSteps ==
    ASSUME LockInv, NoOp \notin Op, Fault
    PROVE  LockInv'
<1>1. CASE AppendLockLapse
  <2>1. SlowOps \/ op[appendLock].pc \in {"idle", "acquire"}
    BY <1>1 DEF AppendLockLapse
  <2> QED
    BY <1>1, <2>1 DEF AppendLockLapse, LockInv, AppendersSerialize
<1>2. CASE IndexLapse \/ \E i \in Id : GuardLapse(i)
  BY <1>2, OtherStep DEF IndexLapse, GuardLapse
<1>3. CASE \E o \in Op : OpCrash(o)
  <2>1. PICK o \in Op : OpCrash(o)
    BY <1>3
  <2>2. IdleOp.pc \in Free /\ "pc" \in DOMAIN IdleOp
    BY DEF IdleOp, Free
  <2> QED
    BY <2>1, <2>2, FreeStep DEF OpCrash, Set, redis
<1>4. CASE \E n \in Node : NodeCrash(n)
  <2>1. PICK n \in Node : NodeCrash(n)
    BY <1>4
  <2>2. IdleOp.pc \in {"idle", "acquire"} /\ "pc" \in DOMAIN IdleOp
    BY DEF IdleOp
  <2>3. /\ appendLock' = appendLock
        /\ op' = [o \in Op |-> IF op[o].by = n THEN IdleOp ELSE op[o]]
    BY <2>1 DEF NodeCrash, redis
  <2>4. \A o \in Op : op'[o] = IdleOp \/ op'[o] = op[o]
    BY <2>3
  <2> QED
    BY <2>2, <2>3, <2>4 DEF LockInv, AppendersSerialize
<1>5. CASE \E n \in Node : Silence(n) \/ Resume(n)
  BY <1>5, OtherStep DEF Silence, Resume, redis
<1>6. CASE \E l \in Label : Relabel(l)
  BY <1>6, OtherStep DEF Relabel, redis
<1> QED
  BY <1>1, <1>2, <1>3, <1>4, <1>5, <1>6 DEF Fault

LEMMA LockNext == LockInv /\ NoOp \notin Op /\ [Next]_vars => LockInv'
<1> SUFFICES ASSUME LockInv, NoOp \notin Op, [Next]_vars
             PROVE  LockInv'
  OBVIOUS
<1>1. CASE \E o \in Op : Start(o) \/ OpStep(o)
  BY <1>1, HolderSteps, EdgeSteps DEF OpStep
<1>2. CASE \E q \in Queue, i \in Id : Process(q, i)
  BY <1>2, ProcessSteps
<1>3. CASE \E q \in Queue, i \in Id : Timer(q, i)
  BY <1>3, OtherStep DEF Timer, RetryDue, HoldLapse, LockExpire, Stall
<1>4. CASE \E q \in Queue, i \in Id, n \in Node : Claim(n, q, i)
  BY <1>4, OtherStep DEF Claim
<1>5. CASE \E m \in Msg : Follow(m)
  BY <1>5, OtherStep DEF Follow, FollowMove, Close, redis
<1>6. CASE Fault
  BY <1>6, FaultSteps
<1>7. CASE UNCHANGED vars
  BY <1>7, OtherStep DEF vars, redis
<1> QED
  BY <1>1, <1>2, <1>3, <1>4, <1>5, <1>6, <1>7 DEF Next

\* turns.ts:395-396: the critical sections of enqueue, relocate, moveTo and
\* re-dispatch exclude one another, for any number of gateways, reapers and
\* nodes and through their crashes, while none outlasts the lock's TTL.
THEOREM Serialized == Spec => []AppendersSerialize
<1>1. NoOp \notin Op
  BY TurnQueueAssumption
<1>2. LockInv => AppendersSerialize
  BY DEF LockInv
<1> QED
  BY <1>1, <1>2, LockInit, LockNext, PTL DEF Spec

LEMMA LeastNumber ==
    ASSUME NEW T, T \subseteq Nat, T # {}
    PROVE \E x \in T : \A y \in T : ~(y < x)
<1>1. IsWellFoundedOn(OpToRel(<, Nat), Nat)
  BY NatLessThanWellFounded
<1>2. PICK x \in T : \A y \in T : ~(<<y, x>> \in OpToRel(<, Nat))
  BY <1>1, WFMin
<1>3. \A y \in T : <<y, x>> \in OpToRel(<, Nat) <=> y < x
  BY DEF OpToRel
<1>4. QED
  BY <1>2, <1>3
LEMMA SetInduction ==
    ASSUME NEW T, 0 \in T, \A n \in Nat : n \in T => n + 1 \in T
    PROVE \A n \in Nat : n \in T
<1> SUFFICES ASSUME Nat \ T # {} PROVE FALSE
  OBVIOUS
<1>1. PICK x \in Nat \ T : \A y \in Nat \ T : ~(y < x)
  BY LeastNumber
<1>2. x # 0 /\ x - 1 \in Nat /\ x - 1 < x
  BY <1>1
<1>3. x - 1 \in T
  BY <1>1, <1>2
<1>4. (x - 1) + 1 = x
  OBVIOUS
<1>5. QED
  BY <1>1, <1>2, <1>3, <1>4

Picked(base, extra, f, i) ==
    IF i = 0 THEN << >>
    ELSE IF extra[i] \in SeqSet(base) THEN f[i - 1] ELSE Append(f[i - 1], extra[i])
Upto(base, extra, n) == {extra[i] : i \in 1..n} \ SeqSet(base)
Picking(S, base, extra, f, n) ==
    /\ f = [i \in 0..n |-> f[i]]
    /\ \A i \in 0..n : f[i] = Picked(base, extra, f, i) /\ f[i] \in Seq(S) /\ SeqSet(f[i]) = Upto(base, extra, i)

LEMMA AppendSet == ASSUME NEW S, NEW h \in Seq(S), NEW e PROVE SeqSet(Append(h, e)) = SeqSet(h) \cup {e}
<1>1. /\ DOMAIN Append(h, e) = 1..(Len(h) + 1) /\ DOMAIN h = 1..Len(h) /\ Len(h) \in Nat
          /\ Append(h, e)[Len(h) + 1] = e /\ \A i \in 1..Len(h) : Append(h, e)[i] = h[i]
  OBVIOUS
<1>2. QED
  BY <1>1 DEF SeqSet

LEMMA PickOne ==
    ASSUME NEW S, NEW base, NEW extra \in Seq(S), NEW n \in Nat, n + 1 <= Len(extra),
           NEW f, Picking(S, base, extra, f, n)
    PROVE \E g : Picking(S, base, extra, g, n + 1)
<1> DEFINE v == IF extra[n + 1] \in SeqSet(base) THEN f[n] ELSE Append(f[n], extra[n + 1])
           g == [i \in 0..(n + 1) |-> IF i = n + 1 THEN v ELSE f[i]]
<1>2. f[n] \in Seq(S) /\ SeqSet(f[n]) = Upto(base, extra, n) /\ extra[n + 1] \in S
  BY DEF Picking
<1>3. v \in Seq(S)
  BY <1>2
<1>4. Upto(base, extra, n + 1) = IF extra[n + 1] \in SeqSet(base) THEN Upto(base, extra, n) ELSE Upto(base, extra, n) \cup {extra[n + 1]}
  BY DEF Upto
<1>6. SeqSet(v) = Upto(base, extra, n + 1)
  BY <1>2, <1>4, AppendSet
<1> HIDE DEF v
<1>7. g[n + 1] = v /\ (\A i \in 0..n : g[i] = f[i]) /\ g = [i \in 0..(n + 1) |-> g[i]]
  OBVIOUS
<1> HIDE DEF g
<1>a. (n + 1) - 1 = n /\ n + 1 # 0 /\ n \in 0..n /\ \A i \in 0..n : i # 0 => i - 1 \in 0..n
  OBVIOUS
<1>8. \A i \in 0..n : Picked(base, extra, g, i) = Picked(base, extra, f, i)
  BY <1>7, <1>a DEF Picked
<1>9. Picked(base, extra, g, n + 1) = v
  BY <1>7, <1>a DEF v, Picked
<1>10. \A i \in 0..n : g[i] = Picked(base, extra, g, i) /\ g[i] \in Seq(S) /\ SeqSet(g[i]) = Upto(base, extra, i)
  BY <1>7, <1>8 DEF Picking
<1>11. \A i \in 0..(n + 1) : i = n + 1 \/ i \in 0..n
  OBVIOUS
<1>12. Picking(S, base, extra, g, n + 1)
  BY <1>3, <1>6, <1>7, <1>9, <1>10, <1>11 DEF Picking
<1>13. QED
  BY <1>12

LEMMA NewMessagesAre ==
    ASSUME NEW S, NEW base, NEW extra \in Seq(S)
    PROVE NewMessages(base, extra) \in Seq(S) /\ SeqSet(NewMessages(base, extra)) = SeqSet(extra) \ SeqSet(base)
<1> DEFINE N == Len(extra)
           T == {n \in Nat : n <= N => \E f : Picking(S, base, extra, f, n)}
           F == CHOOSE f : f = [i \in 0..N |-> Picked(base, extra, f, i)]
<1>0. N \in Nat /\ \A i \in 1..N : extra[i] \in S
  OBVIOUS
<1>1. NewMessages(base, extra) = F[N]
  BY DEF NewMessages, Picked
<1>2. 0 \in T
  <2> DEFINE f == [i \in 0..0 |-> << >>]
  <2>1. f[0] = << >> /\ << >> \in Seq(S) /\ f = [i \in 0..0 |-> f[i]] /\ \A i \in 0..0 : i = 0
    OBVIOUS
  <2>2. SeqSet(<< >>) = {} /\ Upto(base, extra, 0) = {}
    BY DEF SeqSet, Upto
  <2> HIDE DEF f
  <2>3. Picking(S, base, extra, f, 0)
    BY <2>1, <2>2 DEF Picking, Picked
  <2>4. QED
    BY <2>3
<1>3. ASSUME NEW n \in Nat, n \in T PROVE n + 1 \in T
  <2>1. SUFFICES ASSUME n + 1 <= N PROVE \E g : Picking(S, base, extra, g, n + 1)
    OBVIOUS
  <2>2. PICK f : Picking(S, base, extra, f, n)
    BY <1>0, <1>3, <2>1
  <2>3. QED
    BY <2>1, <2>2, PickOne
<1>4. N \in T
  <2> HIDE DEF T, N
  <2>1. QED
    BY <1>0, <1>2, <1>3, SetInduction
<1>5. PICK f : Picking(S, base, extra, f, N)
  BY <1>0, <1>4
<1> HIDE DEF N
<1>6. f = [i \in 0..N |-> Picked(base, extra, f, i)]
  BY <1>5 DEF Picking
<1>7. F = [i \in 0..N |-> Picked(base, extra, F, i)]
  BY <1>6
<1> DEFINE U == {n \in Nat : n <= N => F[n] = f[n]}
<1> HIDE DEF F
<1>8. 0 \in U
  BY <1>0, <1>6, <1>7 DEF Picked
<1>9. ASSUME NEW n \in Nat, n \in U PROVE n + 1 \in U
  <2>1. SUFFICES ASSUME n + 1 <= N PROVE F[n + 1] = f[n + 1]
    OBVIOUS
  <2>2. F[n] = f[n] /\ n + 1 \in 0..N
    BY <1>0, <1>9, <2>1
  <2>3. F[n + 1] = Picked(base, extra, F, n + 1) /\ f[n + 1] = Picked(base, extra, f, n + 1)
    BY <1>6, <1>7, <2>2
  <2>4. QED
    BY <2>2, <2>3 DEF Picked
<1>10. N \in U
  <2> HIDE DEF U
  <2>1. QED
    BY <1>0, <1>8, <1>9, SetInduction
<1>11. F[N] = f[N]
  BY <1>0, <1>10
<1>12. f[N] \in Seq(S) /\ SeqSet(f[N]) = Upto(base, extra, N)
  BY <1>0, <1>5 DEF Picking
<1>13. Upto(base, extra, N) = SeqSet(extra) \ SeqSet(base)
  BY DEF Upto, SeqSet, N
<1>14. QED
  BY <1>1, <1>11, <1>12, <1>13

LEMMA ConcatSet ==
    ASSUME NEW S, NEW s \in Seq(S), NEW t \in Seq(S)
    PROVE  s \o t \in Seq(S) /\ SeqSet(s \o t) = SeqSet(s) \cup SeqSet(t)
<1>1. /\ s \o t \in Seq(S) /\ Len(s) \in Nat /\ Len(t) \in Nat
      /\ DOMAIN s = 1..Len(s) /\ DOMAIN t = 1..Len(t) /\ DOMAIN (s \o t) = 1..(Len(s) + Len(t))
      /\ \A i \in 1..Len(s) : (s \o t)[i] = s[i]
      /\ \A i \in 1..Len(t) : (s \o t)[Len(s) + i] = t[i]
  OBVIOUS
<1> DEFINE u == s \o t
<1>2. u = s \o t
  OBVIOUS
<1> HIDE DEF u
<1>3. ASSUME NEW x \in SeqSet(u) PROVE x \in SeqSet(s) \cup SeqSet(t)
  <2>1. PICK i \in 1..(Len(s) + Len(t)) : x = u[i]
    BY <1>1, <1>2 DEF SeqSet
  <2>2. CASE i <= Len(s)
    BY <1>1, <1>2, <2>1, <2>2 DEF SeqSet
  <2>3. CASE i > Len(s)
    <3>1. i - Len(s) \in 1..Len(t) /\ Len(s) + (i - Len(s)) = i
      BY <1>1, <2>1, <2>3
    <3>2. u[i] = t[i - Len(s)]
      BY <1>1, <1>2, <3>1
    <3> QED
      BY <1>1, <2>1, <3>1, <3>2 DEF SeqSet
  <2> QED
    BY <1>1, <2>1, <2>2, <2>3
<1>4. ASSUME NEW x \in SeqSet(s) \cup SeqSet(t) PROVE x \in SeqSet(u)
  <2>1. CASE x \in SeqSet(s)
    <3>1. PICK i \in 1..Len(s) : x = s[i]
      BY <1>1, <2>1 DEF SeqSet
    <3>2. i \in 1..(Len(s) + Len(t)) /\ u[i] = x
      BY <1>1, <1>2, <3>1
    <3> QED
      BY <1>1, <1>2, <3>2 DEF SeqSet
  <2>2. CASE x \in SeqSet(t)
    <3>1. PICK i \in 1..Len(t) : x = t[i]
      BY <1>1, <2>2 DEF SeqSet
    <3>2. Len(s) + i \in 1..(Len(s) + Len(t)) /\ u[Len(s) + i] = x
      BY <1>1, <1>2, <3>1
    <3> QED
      BY <1>1, <1>2, <3>2 DEF SeqSet
  <2> QED
    BY <2>1, <2>2
<1> QED
  BY <1>1, <1>2, <1>3, <1>4

\* What an append and a relocation make of two jobs' data: both jobs' messages,
\* under the label and token of the job that stays.
LEMMA AppendedIs ==
    ASSUME NEW pend \in Data, NEW inc \in Data, NEW hint
    PROVE  LET new == Appended(pend, inc, hint) IN
           /\ new \in Data /\ new.label = pend.label /\ new.tok = pend.tok
           /\ SeqSet(new.msgs) = SeqSet(pend.msgs) \cup SeqSet(inc.msgs)
<1> DEFINE fresh == NewMessages(pend.msgs, inc.msgs)
           ms == IF MergesFirst(pend, inc, hint) THEN fresh \o pend.msgs ELSE pend.msgs \o fresh
           at == MaxAttempts(pend, inc)
<1>1. pend.msgs \in Seq(Msg) /\ inc.msgs \in Seq(Msg)
  BY DEF Data
<1>2. fresh \in Seq(Msg) /\ SeqSet(fresh) = SeqSet(inc.msgs) \ SeqSet(pend.msgs)
  BY <1>1, NewMessagesAre
<1>3. ms \in Seq(Msg) /\ SeqSet(ms) = SeqSet(pend.msgs) \cup SeqSet(inc.msgs)
  <2> HIDE DEF fresh
  <2>1. /\ fresh \o pend.msgs \in Seq(Msg) /\ pend.msgs \o fresh \in Seq(Msg)
        /\ SeqSet(fresh \o pend.msgs) = SeqSet(fresh) \cup SeqSet(pend.msgs)
        /\ SeqSet(pend.msgs \o fresh) = SeqSet(pend.msgs) \cup SeqSet(fresh)
    BY <1>1, <1>2, ConcatSet
  <2> QED
    BY <1>2, <2>1
<1>4. at \in 0..2
  BY DEF MaxAttempts, Data
<1>5. Appended(pend, inc, hint) = [pend EXCEPT !.msgs = ms, !.att = at]
  BY DEF Appended
<1> HIDE DEF ms, at, fresh
<1> QED
  BY <1>3, <1>4, <1>5 DEF Data

LEMMA RelocatedIs ==
    ASSUME NEW pend \in Data, NEW inc \in Data, NEW hint
    PROVE  LET new == Relocated(pend, inc, hint) IN
           /\ new \in Data /\ new.label = inc.label /\ new.tok = inc.tok
           /\ SeqSet(new.msgs) = SeqSet(pend.msgs) \cup SeqSet(inc.msgs)
<1> DEFINE n1 == NewMessages(inc.msgs, pend.msgs)
           n2 == NewMessages(pend.msgs, inc.msgs)
           ms == IF MergesFirst(pend, inc, hint) THEN inc.msgs \o n1 ELSE pend.msgs \o n2
           at == MaxAttempts(pend, inc)
<1>1. pend.msgs \in Seq(Msg) /\ inc.msgs \in Seq(Msg)
  BY DEF Data
<1>2. /\ n1 \in Seq(Msg) /\ SeqSet(n1) = SeqSet(pend.msgs) \ SeqSet(inc.msgs)
      /\ n2 \in Seq(Msg) /\ SeqSet(n2) = SeqSet(inc.msgs) \ SeqSet(pend.msgs)
  BY <1>1, NewMessagesAre
<1>3. ms \in Seq(Msg) /\ SeqSet(ms) = SeqSet(pend.msgs) \cup SeqSet(inc.msgs)
  <2> HIDE DEF n1, n2
  <2>1. /\ inc.msgs \o n1 \in Seq(Msg) /\ pend.msgs \o n2 \in Seq(Msg)
        /\ SeqSet(inc.msgs \o n1) = SeqSet(inc.msgs) \cup SeqSet(n1)
        /\ SeqSet(pend.msgs \o n2) = SeqSet(pend.msgs) \cup SeqSet(n2)
    BY <1>1, <1>2, ConcatSet
  <2> QED
    BY <1>2, <2>1
<1>4. at \in 0..2
  BY DEF MaxAttempts, Data
<1>5. Relocated(pend, inc, hint) = [inc EXCEPT !.msgs = ms, !.att = at]
  BY DEF Relocated
<1> HIDE DEF ms, at, n1, n2
<1> QED
  BY <1>3, <1>4, <1>5 DEF Data

\* The parts of both for any two jobs' data at once, each in a form the provers
\* instantiate.
LEMMA AppendedMsgs ==
    \A pend \in Data, inc \in Data : \A hint :
        SeqSet(Appended(pend, inc, hint).msgs) = SeqSet(pend.msgs) \cup SeqSet(inc.msgs)
BY AppendedIs

LEMMA AppendedData ==
    \A pend \in Data, inc \in Data : \A hint : Appended(pend, inc, hint) \in Data
BY AppendedIs

LEMMA AppendedTok ==
    \A pend \in Data, inc \in Data : \A hint : Appended(pend, inc, hint).tok = pend.tok
BY AppendedIs

LEMMA AppendedLabel ==
    \A pend \in Data, inc \in Data : \A hint : Appended(pend, inc, hint).label = pend.label
BY AppendedIs

LEMMA RelocatedMsgs ==
    \A pend \in Data, inc \in Data : \A hint :
        SeqSet(Relocated(pend, inc, hint).msgs) = SeqSet(pend.msgs) \cup SeqSet(inc.msgs)
BY RelocatedIs

LEMMA RelocatedData ==
    \A pend \in Data, inc \in Data : \A hint : Relocated(pend, inc, hint) \in Data
BY RelocatedIs

LEMMA RelocatedTok ==
    \A pend \in Data, inc \in Data : \A hint : Relocated(pend, inc, hint).tok = inc.tok
BY RelocatedIs

LEMMA RelocatedLabel ==
    \A pend \in Data, inc \in Data : \A hint : Relocated(pend, inc, hint).label = inc.label
BY RelocatedIs

\* The steps of tryAppend and addFresh, and those of a move's copy.
OpenPcs == {"look", "senders", "update", "recheck", "index", "add"}
CopyPcs == {"copy", "markcopy", "take", "drop", "unmark"}

\* Where an operation of each kind can be.
KindPc(p) ==
    \/ p.kind = "none" /\ p.pc = "idle"
    \/ /\ p.kind = "enqueue"
       /\ p.pc \in {"acquire", "promote", "reindex", "release"} \cup OpenPcs \cup CopyPcs
    \/ /\ p.kind = "redispatch"
       /\ p.pc \in {"acquire", "promote", "reindex", "release", "markfailed"} \cup OpenPcs \cup CopyPcs
    \/ p.kind = "claimed" /\ p.pc \in {"acquire", "check", "marksrc", "release"} \cup OpenPcs
    \/ p.kind = "reap" /\ p.pc \in {"acquire", "check", "release"}
    \/ /\ p.kind = "merge"
       /\ p.pc \in {"look", "senders", "update", "recheck", "takehold", "markhold", "marksrc",
                    "promote", "reindex", "release"} \cup CopyPcs
    \/ p.kind = "swap" /\ p.pc \in {"promote", "reindex", "release"} \cup CopyPcs

\* The place an enqueue, a re-dispatch or a claimed move would add its job at.
Wanted(p) == <<p.want, p.id>>
Appending(p) == p.pc \in {"senders", "update", "recheck"}
Moves(p) == p.kind \in {"redispatch", "reap", "claimed", "merge", "swap"}

\* What an operation knows at each place.
Shape(p) ==
    /\ KindPc(p)
    /\ p.by # NoNode <=> p.kind = "claimed"
    /\ HasWant(p) =>
          /\ p.want \in Queue /\ p.id \in Id
          /\ p.cp # NoRef => p.cp = Wanted(p) /\ p.ref \in Ref
          /\ p.pc \in CopyPcs \cup {"promote", "reindex"} => p.cp # NoRef
          /\ p.pc \in (OpenPcs \ {"senders"}) \cup {"acquire"} => p.cp = NoRef
    /\ p.kind = "enqueue" => p.d.msgs # << >>
    /\ Moves(p) => p.src \in Ref
    /\ p.kind \in {"reap", "claimed", "swap"} => p.want \in Label
    /\ p.kind \in {"reap", "merge", "swap"} => p.src[1] \in Warm
    /\ p.kind = "claimed" => p.want = p.d.label /\ p.id = p.src[2] /\ p.want # p.src[1]
    /\ p.kind \in {"claimed", "reap"} => p.cp = NoRef
    /\ p.kind = "merge" => p.id \in Id
    /\ p.kind = "merge" /\ p.pc # "release" => p.cp \in Ref /\ p.cp[2] = p.id
    /\ p.kind = "swap" /\ p.pc # "release" => p.cp = <<p.want, p.src[2]>>
    /\ Appending(p) => p.ref \in Ref
    /\ p.pc \in {"marksrc", "markhold", "takehold"} => p.res \in Ref

History == [sent : SUBSET Msg, ran : [Msg -> 0..2], fin : SUBSET Msg, raced : SUBSET Msg,
            again : [Msg -> SUBSET Id], brief : SUBSET Ref, misled : SUBSET Msg]
Budget == [crashes : 0..MaxCrashes, relabels : 0..MaxRelabels, lapses : 0..MaxIndexLapses,
           silences : 0..MaxSilences]

Shapes == \A o \in Op : Shape(op[o])

\* The types, with what an operation's place says of its fields.
Typed == TypeOK /\ hist \in History /\ budget \in Budget /\ Shapes

-----------------------------------------------------------------------------
(***************************************************************************)
(* What the steps of an operation change                                   *)
(***************************************************************************)
\* A step gives slot o the record n, and leaves the others.
OpBecomes(o, n) == op' \in [Op -> Operation] /\ op'[o] = n /\ \A x \in Op : x # o => op'[x] = op[x]

\* A step makes j of the job at r, and leaves the others.
JobBecomes(r, j) ==
    /\ job' \in [Queue -> [Id -> Job]]
    /\ \A s \in Ref : job'[s[1]][s[2]] = IF s = r THEN j ELSE job[s[1]][s[2]]

\* A step of slot o moves it to l, with these places and data, and leaves the
\* rest of its record and the other slots.
Becomes(o, l, ref, prev, cp, res) ==
    LET p == op[o]
        n == op'[o]
    IN
    /\ op' \in [Op -> Operation] /\ \A x \in Op : x # o => op'[x] = op[x]
    /\ n.pc = l /\ n.ref = ref /\ n.prev = prev /\ n.cp = cp /\ n.res = res
    /\ n.kind = p.kind /\ n.by = p.by /\ n.d = p.d /\ n.id = p.id
    /\ n.want = p.want /\ n.src = p.src /\ n.rescue = p.rescue

LEMMA RefIs == \A r \in Ref : r[1] \in Queue /\ r[2] \in Id /\ r = <<r[1], r[2]>>
BY DEF Ref

LEMMA OpSetIs ==
    ASSUME op \in [Op -> Operation], NEW o \in Op, NEW n \in Operation, op' = [op EXCEPT ![o] = n]
    PROVE  OpBecomes(o, n)
BY DEF OpBecomes

LEMMA PutIs ==
    ASSUME job \in [Queue -> [Id -> Job]], NEW r \in Ref, NEW j \in Job, Put(r, j)
    PROVE  JobBecomes(r, j)
<1>1. r[1] \in Queue /\ r[2] \in Id /\ \A s \in Ref : s[1] \in Queue /\ s[2] \in Id /\ s = <<s[1], s[2]>>
  BY RefIs
<1>2. job' = [job EXCEPT ![r[1]] = [job[r[1]] EXCEPT ![r[2]] = j]]
  BY <1>1 DEF Put
<1>3. job' \in [Queue -> [Id -> Job]] /\ job'[r[1]][r[2]] = j
  BY <1>1, <1>2
<1>4. ASSUME NEW s \in Ref, s # r PROVE job'[s[1]][s[2]] = job[s[1]][s[2]]
  <2>1. s[1] # r[1] \/ s[2] # r[2]
    BY <1>1, <1>4
  <2> QED
    BY <1>1, <1>2, <2>1
<1> QED
  BY <1>3, <1>4 DEF JobBecomes

\* The forms of Becomes.
LEMMA PcIs ==
    ASSUME op \in [Op -> Operation], NEW o \in Op, NEW l, 
           op' = [op EXCEPT ![o] = [op[o] EXCEPT !.pc = l]],
           [op[o] EXCEPT !.pc = l] \in Operation
    PROVE  LET p == op[o] IN Becomes(o, l, p.ref, p.prev, p.cp, p.res)
<1> DEFINE p == op[o]
           n == [p EXCEPT !.pc = l]
<1>1. p \in Operation
  OBVIOUS
<1>2. /\ n.pc = l /\ n.ref = p.ref /\ n.prev = p.prev /\ n.cp = p.cp /\ n.res = p.res /\ n.kind = p.kind /\ n.by = p.by /\ n.d = p.d /\ n.id = p.id /\ n.want = p.want /\ n.src = p.src /\ n.rescue = p.rescue
  BY <1>1 DEF Operation
<1> HIDE DEF n
<1>3. op' = [op EXCEPT ![o] = n] /\ n \in Operation
  BY DEF n
<1> QED
  BY <1>2, <1>3 DEF Becomes

LEMMA ResIs ==
    ASSUME op \in [Op -> Operation], NEW o \in Op, NEW l, NEW res, 
           op' = [op EXCEPT ![o] = [op[o] EXCEPT !.pc = l, !.res = res]],
           [op[o] EXCEPT !.pc = l, !.res = res] \in Operation
    PROVE  LET p == op[o] IN Becomes(o, l, p.ref, p.prev, p.cp, res)
<1> DEFINE p == op[o]
           n == [p EXCEPT !.pc = l, !.res = res]
<1>1. p \in Operation
  OBVIOUS
<1>2. /\ n.pc = l /\ n.ref = p.ref /\ n.prev = p.prev /\ n.cp = p.cp /\ n.res = res /\ n.kind = p.kind /\ n.by = p.by /\ n.d = p.d /\ n.id = p.id /\ n.want = p.want /\ n.src = p.src /\ n.rescue = p.rescue
  BY <1>1 DEF Operation
<1> HIDE DEF n
<1>3. op' = [op EXCEPT ![o] = n] /\ n \in Operation
  BY DEF n
<1> QED
  BY <1>2, <1>3 DEF Becomes

LEMMA RefPrevIs ==
    ASSUME op \in [Op -> Operation], NEW o \in Op, NEW l, NEW ref, NEW prev, 
           op' = [op EXCEPT ![o] = [op[o] EXCEPT !.pc = l, !.ref = ref, !.prev = prev]],
           [op[o] EXCEPT !.pc = l, !.ref = ref, !.prev = prev] \in Operation
    PROVE  LET p == op[o] IN Becomes(o, l, ref, prev, p.cp, p.res)
<1> DEFINE p == op[o]
           n == [p EXCEPT !.pc = l, !.ref = ref, !.prev = prev]
<1>1. p \in Operation
  OBVIOUS
<1>2. /\ n.pc = l /\ n.ref = ref /\ n.prev = prev /\ n.cp = p.cp /\ n.res = p.res /\ n.kind = p.kind /\ n.by = p.by /\ n.d = p.d /\ n.id = p.id /\ n.want = p.want /\ n.src = p.src /\ n.rescue = p.rescue
  BY <1>1 DEF Operation
<1> HIDE DEF n
<1>3. op' = [op EXCEPT ![o] = n] /\ n \in Operation
  BY DEF n
<1> QED
  BY <1>2, <1>3 DEF Becomes

LEMMA RefPrevCpIs ==
    ASSUME op \in [Op -> Operation], NEW o \in Op, NEW l, NEW ref, NEW prev, NEW cp, 
           op' = [op EXCEPT ![o] = [op[o] EXCEPT !.pc = l, !.ref = ref, !.prev = prev, !.cp = cp]],
           [op[o] EXCEPT !.pc = l, !.ref = ref, !.prev = prev, !.cp = cp] \in Operation
    PROVE  LET p == op[o] IN Becomes(o, l, ref, prev, cp, p.res)
<1> DEFINE p == op[o]
           n == [p EXCEPT !.pc = l, !.ref = ref, !.prev = prev, !.cp = cp]
<1>1. p \in Operation
  OBVIOUS
<1>2. /\ n.pc = l /\ n.ref = ref /\ n.prev = prev /\ n.cp = cp /\ n.res = p.res /\ n.kind = p.kind /\ n.by = p.by /\ n.d = p.d /\ n.id = p.id /\ n.want = p.want /\ n.src = p.src /\ n.rescue = p.rescue
  BY <1>1 DEF Operation
<1> HIDE DEF n
<1>3. op' = [op EXCEPT ![o] = n] /\ n \in Operation
  BY DEF n
<1> QED
  BY <1>2, <1>3 DEF Becomes

LEMMA ResCpIs ==
    ASSUME op \in [Op -> Operation], NEW o \in Op, NEW l, NEW res, NEW cp, 
           op' = [op EXCEPT ![o] = [op[o] EXCEPT !.pc = l, !.res = res, !.cp = cp]],
           [op[o] EXCEPT !.pc = l, !.res = res, !.cp = cp] \in Operation
    PROVE  LET p == op[o] IN Becomes(o, l, p.ref, p.prev, cp, res)
<1> DEFINE p == op[o]
           n == [p EXCEPT !.pc = l, !.res = res, !.cp = cp]
<1>1. p \in Operation
  OBVIOUS
<1>2. /\ n.pc = l /\ n.ref = p.ref /\ n.prev = p.prev /\ n.cp = cp /\ n.res = res /\ n.kind = p.kind /\ n.by = p.by /\ n.d = p.d /\ n.id = p.id /\ n.want = p.want /\ n.src = p.src /\ n.rescue = p.rescue
  BY <1>1 DEF Operation
<1> HIDE DEF n
<1>3. op' = [op EXCEPT ![o] = n] /\ n \in Operation
  BY DEF n
<1> QED
  BY <1>2, <1>3 DEF Becomes

LEMMA GoIs ==
    ASSUME op \in [Op -> Operation], NEW o \in Op, NEW l, Go(o, l),
           [op[o] EXCEPT !.pc = l] \in Operation
    PROVE  LET p == op[o] IN Becomes(o, l, p.ref, p.prev, p.cp, p.res)
<1>1. op' = [op EXCEPT ![o] = [op[o] EXCEPT !.pc = l]]
  BY DEF Go
<1> QED
  BY <1>1, PcIs

LEMMA FinishIs ==
    ASSUME op \in [Op -> Operation], NEW o \in Op, NEW r, Finish(o, r),
           [op[o] EXCEPT !.pc = "release", !.res = r] \in Operation
    PROVE  LET p == op[o] IN Becomes(o, "release", p.ref, p.prev, p.cp, r)
<1>1. op' = [op EXCEPT ![o] = [op[o] EXCEPT !.pc = "release", !.res = r]]
  BY DEF Finish
<1> QED
  BY <1>1, ResIs

LEMMA PlaceIs ==
    ASSUME Typed, NEW r \in Ref
    PROVE  /\ At(r) \in Job /\ At(r).data \in Data /\ At(r).snap \in Data
           /\ At(r) = job[r[1]][r[2]]
<1>1. At(r) \in Job
  BY RefIs DEF Typed, TypeOK, At
<1> QED
  BY <1>1 DEF Job, At

LEMMA AnOperation ==
    ASSUME Typed, NEW o \in Op
    PROVE  /\ op[o] \in Operation /\ op \in [Op -> Operation] /\ Shape(op[o])
           /\ op[o].d \in Data /\ op[o].prev \in Data
<1>1. op[o] \in Operation /\ op \in [Op -> Operation] /\ Shape(op[o])
  BY DEF Typed, TypeOK, Shapes
<1> QED
  BY <1>1 DEF Operation

LEMMA IdleTyped == IdleOp \in Operation /\ Shape(IdleOp) /\ NoData \in Data /\ NoJob \in Job
<1>1. NoData \in Data
  BY TurnQueueAssumption DEF NoData, Data
<1>2. IdleOp \in Operation
  BY <1>1, TurnQueueAssumption DEF IdleOp, Operation
<1>3. Shape(IdleOp)
  BY DEF Shape, IdleOp, KindPc, HasWant, Appending, Moves
<1>4. NoJob \in Job
  BY <1>1 DEF NoJob, Job
<1> QED
  BY <1>1, <1>2, <1>3, <1>4

LEMMA FreshIs ==
    ASSUME NEW st \in {"waiting", "held"}, NEW d \in Data
    PROVE  FreshJob(st, d) \in Job
<1>1. NoJob \in Job
  BY IdleTyped
<1> QED
  BY <1>1 DEF FreshJob, Job

LEMMA AcquireDoes ==
    ASSUME Typed, NEW o \in Op, Acquire(o)
    PROVE  LET p == op[o] IN
           /\ p.pc = "acquire" /\ Becomes(o, IF p.kind \in {"reap", "claimed"} THEN "check" ELSE "look", p.ref, p.prev, p.cp, p.res)
           /\ LockFree(o)
           /\ appendLock' = o
           /\ UNCHANGED <<job, idx, moved, turnDone, senders, redispatch, up, silent, runsOn, budget, nextId, watch, shown, hist>>
<1> DEFINE p == op[o]
<1>0. p \in Operation /\ op \in [Op -> Operation] /\ Shape(p) /\ p.d \in Data /\ p.prev \in Data
  BY AnOperation
<1>1. p.pc = "acquire" /\ Go(o, IF p.kind \in {"reap", "claimed"} THEN "check" ELSE "look")
  BY DEF Acquire
<1>2. [p EXCEPT !.pc = IF p.kind \in {"reap", "claimed"} THEN "check" ELSE "look"] \in Operation
  BY <1>0 DEF Operation
<1>3. Becomes(o, IF p.kind \in {"reap", "claimed"} THEN "check" ELSE "look", p.ref, p.prev, p.cp, p.res)
  BY <1>0, <1>1, <1>2, GoIs
<1> QED
  BY <1>1, <1>3 DEF Acquire, redis, world, view

LEMMA RecordSendersDoes ==
    ASSUME Typed, NEW o \in Op, RecordSenders(o)
    PROVE  LET p == op[o] IN
           /\ p.pc = "senders" /\ Becomes(o, IF Relocating(p) THEN "copy" ELSE "update", p.ref, p.prev, p.cp, p.res)
           /\ senders' = [senders EXCEPT ![IF Relocating(p) THEN p.d.tok ELSE p.prev.tok] = SendersOf(p)]
           /\ UNCHANGED <<job, idx, moved, turnDone, appendLock, redispatch, up, silent, runsOn, budget, nextId, watch, shown, hist>>
<1> DEFINE p == op[o]
<1>0. p \in Operation /\ op \in [Op -> Operation] /\ Shape(p) /\ p.d \in Data /\ p.prev \in Data
  BY AnOperation
<1>1. p.pc = "senders" /\ Go(o, IF Relocating(p) THEN "copy" ELSE "update")
  BY DEF RecordSenders
<1>2. [p EXCEPT !.pc = IF Relocating(p) THEN "copy" ELSE "update"] \in Operation
  BY <1>0 DEF Operation
<1>3. Becomes(o, IF Relocating(p) THEN "copy" ELSE "update", p.ref, p.prev, p.cp, p.res)
  BY <1>0, <1>1, <1>2, GoIs
<1> QED
  BY <1>1, <1>3 DEF RecordSenders, redis, world, view

LEMMA IndexDoes ==
    ASSUME Typed, NEW o \in Op, Index(o)
    PROVE  LET p == op[o] IN
           /\ p.pc = "index" /\ Becomes(o, "add", p.ref, p.prev, p.cp, p.res)
           /\ idx' = Wanted(p)
           /\ senders' = [senders EXCEPT ![p.d.tok] = SeqSet(p.d.msgs)]
           /\ UNCHANGED <<job, moved, turnDone, appendLock, redispatch, up, silent, runsOn, budget, nextId, watch, shown, hist>>
<1> DEFINE p == op[o]
<1>0. p \in Operation /\ op \in [Op -> Operation] /\ Shape(p) /\ p.d \in Data /\ p.prev \in Data
  BY AnOperation
<1>1. p.pc = "index" /\ Go(o, "add")
  BY DEF Index, Wanted
<1>2. [p EXCEPT !.pc = "add"] \in Operation
  BY <1>0 DEF Operation
<1>3. Becomes(o, "add", p.ref, p.prev, p.cp, p.res)
  BY <1>0, <1>1, <1>2, GoIs
<1> QED
  BY <1>1, <1>3 DEF Index, redis, world, view, Wanted

LEMMA MarkSourceDoes ==
    ASSUME Typed, NEW o \in Op, MarkSource(o)
    PROVE  LET p == op[o] IN
           /\ p.pc = "marksrc" /\ Becomes(o, "release", p.ref, p.prev, p.cp, p.res)
           /\ moved' = [moved EXCEPT ![p.src[2]] = p.res]
           /\ UNCHANGED <<job, idx, turnDone, senders, appendLock, redispatch, up, silent, runsOn, budget, nextId, watch, shown, hist>>
<1> DEFINE p == op[o]
<1>0. p \in Operation /\ op \in [Op -> Operation] /\ Shape(p) /\ p.d \in Data /\ p.prev \in Data
  BY AnOperation
<1>1. p.pc = "marksrc" /\ Go(o, "release")
  BY DEF MarkSource
<1>2. [p EXCEPT !.pc = "release"] \in Operation
  BY <1>0 DEF Operation
<1>3. Becomes(o, "release", p.ref, p.prev, p.cp, p.res)
  BY <1>0, <1>1, <1>2, GoIs
<1> QED
  BY <1>1, <1>3 DEF MarkSource, redis, world, view

LEMMA CheckClaimedDoes ==
    ASSUME Typed, NEW o \in Op, CheckClaimed(o)
    PROVE  LET p == op[o] IN
           /\ p.pc = "check" /\ Becomes(o, IF idx # NoRef /\ idx # p.src THEN "look" ELSE "index", p.ref, p.prev, p.cp, p.res)
           /\ ToMove(p) /\ p.kind = "claimed"
           /\ UNCHANGED <<job, idx, moved, turnDone, senders, appendLock, redispatch, up, silent, runsOn, budget, nextId, watch, shown, hist>>
<1> DEFINE p == op[o]
<1>0. p \in Operation /\ op \in [Op -> Operation] /\ Shape(p) /\ p.d \in Data /\ p.prev \in Data
  BY AnOperation
<1>1. p.pc = "check" /\ Go(o, IF idx # NoRef /\ idx # p.src THEN "look" ELSE "index")
  BY DEF CheckClaimed, ToMove
<1>2. [p EXCEPT !.pc = IF idx # NoRef /\ idx # p.src THEN "look" ELSE "index"] \in Operation
  BY <1>0 DEF Operation
<1>3. Becomes(o, IF idx # NoRef /\ idx # p.src THEN "look" ELSE "index", p.ref, p.prev, p.cp, p.res)
  BY <1>0, <1>1, <1>2, GoIs
<1> QED
  BY <1>1, <1>3 DEF CheckClaimed, redis, world, view, ToMove

LEMMA MarkCopyDoes ==
    ASSUME Typed, NEW o \in Op, MarkCopy(o)
    PROVE  LET p == op[o] IN
           /\ p.pc = "markcopy" /\ Becomes(o, "take", p.ref, p.prev, p.cp, p.res)
           /\ moved' = [moved EXCEPT ![Original(p)[2]] = p.cp]
           /\ UNCHANGED <<job, idx, turnDone, senders, appendLock, redispatch, up, silent, runsOn, budget, nextId, watch, shown, hist>>
<1> DEFINE p == op[o]
<1>0. p \in Operation /\ op \in [Op -> Operation] /\ Shape(p) /\ p.d \in Data /\ p.prev \in Data
  BY AnOperation
<1>1. p.pc = "markcopy" /\ Go(o, "take")
  BY DEF MarkCopy, CopyMarker
<1>2. [p EXCEPT !.pc = "take"] \in Operation
  BY <1>0 DEF Operation
<1>3. Becomes(o, "take", p.ref, p.prev, p.cp, p.res)
  BY <1>0, <1>1, <1>2, GoIs
<1> QED
  BY <1>1, <1>3 DEF MarkCopy, redis, world, view, CopyMarker

LEMMA MarkHoldDoes ==
    ASSUME Typed, NEW o \in Op, MarkHold(o)
    PROVE  LET p == op[o] IN
           /\ p.pc = "markhold" /\ Becomes(o, "marksrc", p.ref, p.prev, p.cp, p.res)
           /\ moved' = [moved EXCEPT ![p.cp[2]] = p.res]
           /\ UNCHANGED <<job, idx, turnDone, senders, appendLock, redispatch, up, silent, runsOn, budget, nextId, watch, shown, hist>>
<1> DEFINE p == op[o]
<1>0. p \in Operation /\ op \in [Op -> Operation] /\ Shape(p) /\ p.d \in Data /\ p.prev \in Data
  BY AnOperation
<1>1. p.pc = "markhold" /\ Go(o, "marksrc")
  BY DEF MarkHold
<1>2. [p EXCEPT !.pc = "marksrc"] \in Operation
  BY <1>0 DEF Operation
<1>3. Becomes(o, "marksrc", p.ref, p.prev, p.cp, p.res)
  BY <1>0, <1>1, <1>2, GoIs
<1> QED
  BY <1>1, <1>3 DEF MarkHold, redis, world, view

LEMMA ReindexDoes ==
    ASSUME Typed, NEW o \in Op, Reindex(o)
    PROVE  LET p == op[o] IN
           /\ p.pc = "reindex" /\ Becomes(o, "release", p.ref, p.prev, p.cp, p.cp)
           /\ idx' = p.cp
           /\ UNCHANGED <<job, moved, turnDone, senders, appendLock, redispatch, up, silent, runsOn, budget, nextId, watch, shown, hist>>
<1> DEFINE p == op[o]
<1>0. p \in Operation /\ op \in [Op -> Operation] /\ Shape(p) /\ p.d \in Data /\ p.prev \in Data
  BY AnOperation
<1>1. p.pc = "reindex" /\ Finish(o, p.cp)
  BY DEF Reindex
<1>2. [p EXCEPT !.pc = "release", !.res = p.cp] \in Operation
  BY <1>0 DEF Operation
<1>3. Becomes(o, "release", p.ref, p.prev, p.cp, p.cp)
  BY <1>0, <1>1, <1>2, FinishIs
<1> QED
  BY <1>1, <1>3 DEF Reindex, world, view

LEMMA MarkFailedDoes ==
    ASSUME Typed, NEW o \in Op, MarkFailed(o)
    PROVE  LET p == op[o] IN
           /\ p.pc = "markfailed" /\ OpBecomes(o, IdleOp)
           /\ moved' = [moved EXCEPT ![p.src[2]] = p.res]
           /\ UNCHANGED <<job, idx, turnDone, senders, appendLock, redispatch, up, silent, runsOn, budget, nextId, watch, shown, hist>>
<1> DEFINE p == op[o]
<1>0. p \in Operation /\ op \in [Op -> Operation] /\ Shape(p) /\ p.d \in Data /\ p.prev \in Data
  BY AnOperation
<1>1. p.pc = "markfailed" /\ op' = [op EXCEPT ![o] = IdleOp]
  BY DEF MarkFailed, Set
<1>2. OpBecomes(o, IdleOp)
  BY <1>0, <1>1, IdleTyped, OpSetIs
<1> QED
  BY <1>1, <1>2 DEF MarkFailed, world, view

LEMMA LookDoes ==
    ASSUME Typed, NEW o \in Op, Look(o)
    PROVE  LET p == op[o] IN
           /\ p.pc = "look"
           /\ \/ /\ ~AppendableAt(idx)
                 /\ Becomes(o, NotAppended(p), p.ref, p.prev, p.cp, p.res)
              \/ /\ AppendableAt(idx) /\ MustRelocate(p, At(idx).data)
                 /\ Becomes(o, "senders", idx, At(idx).data, Wanted(p), p.res)
              \/ /\ AppendableAt(idx) /\ NothingNew(p, At(idx).data)
                 /\ Becomes(o, AppendedThen(p), p.ref, p.prev, p.cp, idx)
              \/ /\ AppendableAt(idx)
                 /\ Becomes(o, "senders", idx, At(idx).data, p.cp, p.res)
           /\ UNCHANGED <<job, idx, moved, turnDone, senders, appendLock, redispatch, up, silent, runsOn, budget, nextId, watch, shown, hist>>
<1> DEFINE p == op[o]
<1>0. p \in Operation /\ op \in [Op -> Operation] /\ Shape(p) /\ p.d \in Data /\ p.prev \in Data
  BY AnOperation
<1>1. p.pc = "look" /\ UNCHANGED <<job, idx, moved, turnDone, senders, appendLock, redispatch, up, silent, runsOn, budget, nextId, watch, shown, hist>>
  BY DEF Look, redis, world, view
<1>2. CASE ~AppendableAt(idx)
  <2>1. Go(o, NotAppended(p))
    BY <1>2 DEF Look
  <2>2. [p EXCEPT !.pc = NotAppended(p)] \in Operation
    BY <1>0 DEF Operation, NotAppended
  <2> QED
    BY <1>0, <1>1, <1>2, <2>1, <2>2, GoIs
<1>3. CASE AppendableAt(idx)
  <2>1. idx \in Ref /\ At(idx).data \in Data
    BY <1>3, PlaceIs DEF AppendableAt, Typed, TypeOK
  <2>2. CASE MustRelocate(p, At(idx).data)
    <3> DEFINE n == [p EXCEPT !.pc = "senders", !.ref = idx, !.prev = At(idx).data, !.cp = Wanted(p)]
    <3>1. Wanted(p) \in Ref
      BY <1>0, <2>2 DEF MustRelocate, Shape, Wanted, Ref
    <3>2. n \in Operation
      <4> HIDE DEF Wanted
      <4> QED
        BY <1>0, <2>1, <3>1 DEF Operation
    <3>3. op' = [op EXCEPT ![o] = n]
      BY <1>3, <2>2 DEF Look, Wanted
    <3> QED
      BY <1>0, <1>1, <1>3, <2>2, <3>2, <3>3, RefPrevCpIs
  <2>3. CASE ~MustRelocate(p, At(idx).data) /\ NothingNew(p, At(idx).data)
    <3> DEFINE n == [p EXCEPT !.pc = AppendedThen(p), !.res = idx]
    <3>1. AppendedThen(p) \in {"release", "marksrc", "takehold"}
      BY <1>0, <1>1 DEF AppendedThen, HasWant, Shape, KindPc, OpenPcs, CopyPcs
    <3>2. n \in Operation
      BY <1>0, <2>1, <3>1 DEF Operation
    <3>3. op' = [op EXCEPT ![o] = n]
      BY <1>3, <2>3 DEF Look
    <3> QED
      BY <1>0, <1>1, <1>3, <2>3, <3>2, <3>3, ResIs
  <2>4. CASE ~MustRelocate(p, At(idx).data) /\ ~NothingNew(p, At(idx).data)
    <3> DEFINE n == [p EXCEPT !.pc = "senders", !.ref = idx, !.prev = At(idx).data]
    <3>2. n \in Operation
      BY <1>0, <2>1 DEF Operation
    <3>3. op' = [op EXCEPT ![o] = n]
      BY <1>3, <2>4 DEF Look
    <3> QED
      BY <1>0, <1>1, <1>3, <2>4, <3>2, <3>3, RefPrevIs
  <2> QED
    BY <2>2, <2>3, <2>4
<1> QED
  BY <1>2, <1>3

LEMMA UpdateDataDoes ==
    ASSUME Typed, NEW o \in Op, UpdateData(o)
    PROVE  LET p == op[o] IN
           /\ p.pc = "update" /\ p.ref \in Ref
           /\ \/ /\ At(p.ref).st = "none" /\ job' = job
                 /\ Becomes(o, "release", p.ref, p.prev, p.cp, NoRef)
              \/ /\ At(p.ref).st # "none"
                 /\ JobBecomes(p.ref, [At(p.ref) EXCEPT !.data = Appended(p.prev, p.d, Hint(p))])
                 /\ Becomes(o, "recheck", p.ref, p.prev, p.cp, p.res)
           /\ UNCHANGED <<idx, moved, turnDone, senders, appendLock, redispatch, up, silent, runsOn, budget, nextId, watch, shown, hist>>
<1> DEFINE p == op[o]
<1>0. p \in Operation /\ op \in [Op -> Operation] /\ Shape(p) /\ p.d \in Data /\ p.prev \in Data
  BY AnOperation
<1>1. p.pc = "update" /\ UNCHANGED <<idx, moved, turnDone, senders, appendLock, redispatch, up, silent, runsOn, budget, nextId, watch, shown, hist>>
  BY DEF UpdateData, world, view
<1>2. p.ref \in Ref
  BY <1>0, <1>1 DEF Shape, Appending
<1>3. CASE At(p.ref).st = "none"
  <2>1. Finish(o, NoRef) /\ job' = job
    BY <1>3 DEF UpdateData
  <2>2. [p EXCEPT !.pc = "release", !.res = NoRef] \in Operation
    BY <1>0 DEF Operation
  <2> QED
    BY <1>0, <1>1, <1>2, <1>3, <2>1, <2>2, FinishIs
<1>4. CASE At(p.ref).st # "none"
  <2> DEFINE j == [At(p.ref) EXCEPT !.data = Appended(p.prev, p.d, Hint(p))]
  <2>1. Go(o, "recheck") /\ Put(p.ref, j)
    BY <1>4 DEF UpdateData
  <2>2. [p EXCEPT !.pc = "recheck"] \in Operation
    BY <1>0 DEF Operation
  <2>3. Appended(p.prev, p.d, Hint(p)) \in Data /\ At(p.ref) \in Job
    BY <1>0, <1>2, AppendedData, PlaceIs
  <2>4. j \in Job
    BY <2>3 DEF Job
  <2>5. JobBecomes(p.ref, j)
    <3> HIDE DEF j
    <3> QED
      BY <1>2, <2>1, <2>4, PutIs DEF Typed, TypeOK
  <2> QED
    BY <1>0, <1>1, <1>2, <1>4, <2>1, <2>2, <2>5, GoIs
<1> QED
  BY <1>3, <1>4

LEMMA RecheckDoes ==
    ASSUME Typed, NEW o \in Op, Recheck(o)
    PROVE  LET p == op[o] IN
           /\ p.pc = "recheck"
           /\ \/ /\ AppendableAt(p.ref) /\ hist' = hist
                 /\ Becomes(o, AppendedThen(p), p.ref, p.prev, p.cp, p.ref)
              \/ /\ ~AppendableAt(p.ref)
                 /\ hist' = [hist EXCEPT !.raced = @ \cup SeqSet(p.d.msgs)]
                 /\ Becomes(o, NotAppended(p), p.ref, p.prev, p.cp, p.res)
           /\ UNCHANGED <<job, idx, moved, turnDone, senders, appendLock, redispatch, up, silent, runsOn, budget, nextId, watch, shown>>
<1> DEFINE p == op[o]
<1>0. p \in Operation /\ op \in [Op -> Operation] /\ Shape(p) /\ p.d \in Data /\ p.prev \in Data
  BY AnOperation
<1>1. p.pc = "recheck" /\ UNCHANGED <<job, idx, moved, turnDone, senders, appendLock, redispatch, up, silent, runsOn, budget, nextId, watch, shown>>
  BY DEF Recheck, redis, world, view
<1>2. p.ref \in Ref
  BY <1>0, <1>1 DEF Shape, Appending
<1>3. CASE AppendableAt(p.ref)
  <2> DEFINE n == [p EXCEPT !.pc = AppendedThen(p), !.res = p.ref]
  <2>1. op' = [op EXCEPT ![o] = n] /\ hist' = hist
    BY <1>3 DEF Recheck, StillPending
  <2>2. AppendedThen(p) \in {"release", "marksrc", "takehold"}
    BY <1>0, <1>1 DEF AppendedThen, HasWant, Shape, KindPc, OpenPcs, CopyPcs
  <2>3. n \in Operation
    BY <1>0, <1>2, <2>2 DEF Operation
  <2> QED
    BY <1>0, <1>1, <1>3, <2>1, <2>3, ResIs
<1>4. CASE ~AppendableAt(p.ref)
  <2>1. Go(o, NotAppended(p)) /\ hist' = [hist EXCEPT !.raced = @ \cup SeqSet(p.d.msgs)]
    BY <1>4 DEF Recheck, StillPending
  <2>2. [p EXCEPT !.pc = NotAppended(p)] \in Operation
    BY <1>0 DEF Operation, NotAppended
  <2> QED
    BY <1>0, <1>1, <1>4, <2>1, <2>2, GoIs
<1> QED
  BY <1>3, <1>4

LEMMA AddDoes ==
    ASSUME Typed, NEW o \in Op, Add(o)
    PROVE  LET p == op[o] IN
           /\ p.pc = "add" /\ Wanted(p) \in Ref
           /\ IF At(Wanted(p)).st = "none" THEN JobBecomes(Wanted(p), FreshJob("waiting", p.d))
              ELSE job' = job
           /\ Becomes(o, IF p.kind = "claimed" THEN "marksrc" ELSE "release", p.ref, p.prev, p.cp, Wanted(p))
           /\ UNCHANGED <<idx, moved, turnDone, senders, appendLock, redispatch, up, silent, runsOn, budget, nextId, watch, shown, hist>>
<1> DEFINE p == op[o]
<1>0. p \in Operation /\ op \in [Op -> Operation] /\ Shape(p) /\ p.d \in Data /\ p.prev \in Data
  BY AnOperation
<1> DEFINE n == [p EXCEPT !.pc = IF p.kind = "claimed" THEN "marksrc" ELSE "release", !.res = Wanted(p)]
<1>1. p.pc = "add" /\ UNCHANGED <<idx, moved, turnDone, senders, appendLock, redispatch, up, silent, runsOn, budget, nextId, watch, shown, hist>>
  BY DEF Add, world, view
<1>2. Wanted(p) \in Ref
  <2>1. HasWant(p) \/ p.kind = "claimed"
    BY <1>0, <1>1 DEF Shape, KindPc, HasWant, CopyPcs
  <2>2. p.want \in Queue /\ p.id \in Id
    BY <1>0, <2>1, RefIs DEF Shape, Moves, Queue, HasWant
  <2> QED
    BY <2>2 DEF Wanted, Ref
<1>3. op' = [op EXCEPT ![o] = n] /\ AddJob(Wanted(p), FreshJob("waiting", p.d))
  BY DEF Add, Wanted
<1>4. n \in Operation
  <2> DEFINE l == IF p.kind = "claimed" THEN "marksrc" ELSE "release"
             r == Wanted(p)
  <2>1. l \in {"marksrc", "release"} /\ r \in Ref
    BY <1>2
  <2> HIDE DEF l, r
  <2>2. [p EXCEPT !.pc = l, !.res = r] \in Operation
    BY <1>0, <2>1 DEF Operation
  <2> QED
    BY <2>2 DEF l, r
<1>5. Becomes(o, IF p.kind = "claimed" THEN "marksrc" ELSE "release", p.ref, p.prev, p.cp, Wanted(p))
  <2> DEFINE l == IF p.kind = "claimed" THEN "marksrc" ELSE "release"
             r == Wanted(p)
  <2>1. op' = [op EXCEPT ![o] = [op[o] EXCEPT !.pc = l, !.res = r]]
    BY <1>3
  <2>2. [op[o] EXCEPT !.pc = l, !.res = r] \in Operation
    BY <1>4
  <2> HIDE DEF l, r
  <2>3. Becomes(o, l, op[o].ref, op[o].prev, op[o].cp, r)
    BY <1>0, <2>1, <2>2, ResIs
  <2> QED
    BY <2>3 DEF l, r
<1>6. FreshJob("waiting", p.d) \in Job
  BY <1>0, FreshIs
<1>7. IF At(Wanted(p)).st = "none" THEN JobBecomes(Wanted(p), FreshJob("waiting", p.d))
      ELSE job' = job
  BY <1>2, <1>3, <1>6, PutIs DEF AddJob, Typed, TypeOK
<1> QED
  BY <1>1, <1>2, <1>5, <1>7

LEMMA PairIs ==
    ASSUME NEW q \in Queue, NEW i \in Id
    PROVE  <<q, i>> \in Ref /\ At(<<q, i>>) = job[q][i]
BY DEF Ref, At

LEMMA PairPutIs ==
    ASSUME job \in [Queue -> [Id -> Job]], NEW q \in Queue, NEW i \in Id, NEW j \in Job,
           job' = [job EXCEPT ![q][i] = j]
    PROVE  JobBecomes(<<q, i>>, j)
<1>1. Put(<<q, i>>, j)
  BY DEF Put
<1> QED
  BY <1>1, PairIs, PutIs

\* The places an operation's record names.
LEMMA PlacesAre ==
    ASSUME Typed, NEW o \in Op
    PROVE  LET p == op[o] IN
           /\ p.pc \in CopyPcs \cup {"promote", "reindex", "takehold", "markhold"} => p.cp \in Ref
           /\ p.pc \in CopyPcs => Original(p) \in Ref
           /\ p.pc = "check" => p.src \in Ref /\ <<p.want, p.src[2]>> \in Ref
           /\ p.pc = "marksrc" => p.src \in Ref
           /\ p.kind = "claimed" => p.src \in Ref /\ p.src # Wanted(p)
<1> DEFINE p == op[o]
<1>0. p \in Operation /\ Shape(p)
  BY AnOperation
<1>1. p.pc \in CopyPcs \cup {"promote", "reindex", "takehold", "markhold"} => p.cp \in Ref /\ p.cp # NoRef
  <2> SUFFICES ASSUME p.pc \in CopyPcs \cup {"promote", "reindex", "takehold", "markhold"}
               PROVE  p.cp # NoRef
    BY <1>0 DEF Operation
  <2>1. HasWant(p) \/ p.kind \in {"merge", "swap"}
    BY <1>0 DEF Shape, KindPc, CopyPcs, OpenPcs, HasWant
  <2>2. CASE HasWant(p)
    <3>1. p.pc \in CopyPcs \cup {"promote", "reindex"}
      BY <1>0, <2>2 DEF Shape, KindPc, CopyPcs, OpenPcs, HasWant
    <3> QED
      BY <1>0, <2>2, <3>1 DEF Shape
  <2>3. CASE p.kind = "merge"
    <3>1. p.pc # "release"
      BY DEF CopyPcs
    <3> QED
      BY <1>0, <2>3, <3>1, TurnQueueAssumption DEF Shape, Ref
  <2>4. CASE p.kind = "swap"
    <3>1. p.pc # "release"
      BY DEF CopyPcs
    <3>2. p.cp = <<p.want, p.src[2]>> /\ p.want \in Queue /\ p.src \in Ref
      BY <1>0, <2>4, <3>1 DEF Shape, Moves, Queue
    <3>3. p.cp \in Ref
      BY <3>2, RefIs DEF Ref
    <3> QED
      BY <3>3, TurnQueueAssumption DEF Ref
  <2> QED
    BY <2>1, <2>2, <2>3, <2>4
<1>2. p.pc \in CopyPcs => Original(p) \in Ref
  <2>1. CASE p.pc \in CopyPcs /\ HasWant(p)
    BY <1>0, <1>1, <2>1 DEF Original, Relocating, Shape, HasWant, CopyPcs, Wanted
  <2>2. CASE p.pc \in CopyPcs /\ p.kind = "merge"
    BY <1>0, <1>1, <2>2 DEF Original, Relocating, Shape, HasWant, CopyPcs, Moves
  <2>3. CASE p.pc \in CopyPcs /\ p.kind = "swap"
    BY <1>0, <1>1, <2>3, TurnQueueAssumption DEF Original, Relocating, Shape, HasWant, CopyPcs, Moves
  <2> QED
    BY <1>0, <2>1, <2>2, <2>3 DEF Shape, KindPc, HasWant, CopyPcs, OpenPcs
<1>3. p.pc = "check" => p.src \in Ref /\ p.want \in Queue
  BY <1>0 DEF Shape, KindPc, OpenPcs, CopyPcs, Moves, Queue
<1>4. p.pc = "check" => <<p.want, p.src[2]>> \in Ref
  BY <1>3, RefIs DEF Ref
<1>5. p.pc = "marksrc" => p.src \in Ref
  BY <1>0 DEF Shape, KindPc, OpenPcs, CopyPcs, Moves
<1>6. p.kind = "claimed" => p.src \in Ref /\ p.src # Wanted(p)
  BY <1>0 DEF Shape, Moves, Wanted
<1> QED
  BY <1>1, <1>2, <1>3, <1>4, <1>5, <1>6

LEMMA ReleaseDoes ==
    ASSUME Typed, NEW o \in Op, Release(o)
    PROVE  LET p == op[o] IN
           /\ p.pc = "release"
           /\ appendLock' = (IF appendLock = o THEN NoOp ELSE appendLock)
           /\ \/ /\ p.kind = "enqueue" /\ OpBecomes(o, IdleOp)
                 /\ watch' = [watch EXCEPT ![p.d.msgs[1]] = p.res] /\ UNCHANGED <<job, shown>>
              \/ /\ p.kind = "redispatch" /\ p.res # NoRef
                 /\ Becomes(o, "markfailed", p.ref, p.prev, p.cp, p.res) /\ UNCHANGED <<job, watch, shown>>
              \/ /\ p.kind = "redispatch" /\ p.res = NoRef /\ OpBecomes(o, IdleOp)
                 /\ shown' = [m \in Msg |-> IF watch[m] = p.src THEN "error" ELSE shown[m]]
                 /\ UNCHANGED <<job, watch>>
              \/ /\ p.kind = "claimed" /\ p.src \in Ref /\ OpBecomes(o, IdleOp)
                 /\ JobBecomes(p.src, [At(p.src) EXCEPT !.ph = IF p.res = NoRef THEN "claimed" ELSE "moved"])
                 /\ UNCHANGED <<watch, shown>>
              \/ /\ p.kind \in {"reap", "merge", "swap"} /\ OpBecomes(o, IdleOp)
                 /\ UNCHANGED <<job, watch, shown>>
           /\ UNCHANGED <<idx, moved, turnDone, senders, redispatch, up, silent, runsOn, budget, nextId, hist>>
<1> DEFINE p == op[o]
<1>0. p \in Operation /\ op \in [Op -> Operation] /\ Shape(p) /\ p.d \in Data /\ p.prev \in Data
  BY AnOperation
<1>1. /\ p.pc = "release" /\ UNCHANGED <<idx, moved, turnDone, senders, redispatch, up, silent, runsOn, budget, nextId, hist>>
      /\ appendLock' = (IF appendLock = o THEN NoOp ELSE appendLock)
  BY DEF Release, world
<1>2. p.kind \in {"enqueue", "redispatch", "claimed", "reap", "merge", "swap"}
  BY <1>0, <1>1 DEF Shape, KindPc
<1>3. ~(p.kind = "redispatch" /\ p.res # NoRef) => OpBecomes(o, IdleOp)
  <2> HAVE ~(p.kind = "redispatch" /\ p.res # NoRef)
  <2>1. op' = [op EXCEPT ![o] = IdleOp]
    BY DEF Release, Set
  <2> QED
    BY <1>0, <2>1, IdleTyped, OpSetIs
<1>4. p.kind # "claimed" => job' = job
  BY DEF Release
<1>5. p.kind # "enqueue" => watch' = watch
  BY DEF Release
<1>6. ~(p.kind = "redispatch" /\ p.res = NoRef) => shown' = shown
  BY DEF Release
<1>7. CASE p.kind = "enqueue"
  <2>1. watch' = [watch EXCEPT ![p.d.msgs[1]] = p.res]
    BY <1>7 DEF Release
  <2> QED
    BY <1>1, <1>3, <1>4, <1>6, <1>7, <2>1
<1>8. CASE p.kind = "redispatch" /\ p.res # NoRef
  <2>1. Go(o, "markfailed")
    BY <1>8 DEF Release
  <2>2. [p EXCEPT !.pc = "markfailed"] \in Operation
    BY <1>0 DEF Operation
  <2>3. Becomes(o, "markfailed", p.ref, p.prev, p.cp, p.res)
    BY <1>0, <2>1, <2>2, GoIs
  <2> QED
    BY <1>1, <1>4, <1>5, <1>6, <1>8, <2>3
<1>9. CASE p.kind = "redispatch" /\ p.res = NoRef
  <2>1. shown' = [m \in Msg |-> IF watch[m] = p.src THEN "error" ELSE shown[m]]
    BY <1>9 DEF Release
  <2> QED
    BY <1>1, <1>3, <1>4, <1>5, <1>9, <2>1
<1>10. CASE p.kind = "claimed"
  <2> DEFINE j == [At(p.src) EXCEPT !.ph = IF p.res = NoRef THEN "claimed" ELSE "moved"]
             ph == IF p.res = NoRef THEN "claimed" ELSE "moved"
  <2>1. p.src \in Ref
    BY <1>10, PlacesAre
  <2>2. p.src[1] \in Queue /\ p.src[2] \in Id /\ At(p.src) \in Job /\ At(p.src) = job[p.src[1]][p.src[2]]
    BY <2>1, RefIs, PlaceIs
  <2>3. ph \in {"claimed", "moved"}
    OBVIOUS
  <2>4. [At(p.src) EXCEPT !.ph = ph] \in Job
    <3> HIDE DEF ph
    <3> QED
      BY <2>2, <2>3 DEF Job
  <2>5. job' = [job EXCEPT ![p.src[1]][p.src[2]].ph = ph]
    BY <1>10 DEF Release
  <2>6. Put(p.src, j)
    BY <2>2, <2>5 DEF Put
  <2>7. JobBecomes(p.src, j)
    <3>1. j \in Job
      BY <2>4
    <3> HIDE DEF j
    <3> QED
      BY <2>1, <2>6, <3>1, PutIs DEF Typed, TypeOK
  <2> QED
    BY <1>1, <1>3, <1>5, <1>6, <1>10, <2>1, <2>7
<1>11. CASE p.kind \in {"reap", "merge", "swap"}
  BY <1>1, <1>3, <1>4, <1>5, <1>6, <1>11
<1> QED
  BY <1>2, <1>7, <1>8, <1>9, <1>10, <1>11

LEMMA CheckMovedDoes ==
    ASSUME Typed, NEW o \in Op, CheckMoved(o)
    PROVE  LET p == op[o] IN
           /\ p.pc = "check"
           /\ \/ /\ MovedAway(p) /\ moved' = moved
                 /\ Becomes(o, "release", p.ref, p.prev, p.cp, moved[p.src[2]])
              \/ /\ ~MovedAway(p) /\ At(<<p.want, p.src[2]>>).st # "none"
                 /\ moved' = [moved EXCEPT ![p.src[2]] = <<p.want, p.src[2]>>]
                 /\ Becomes(o, "release", p.ref, p.prev, p.cp, <<p.want, p.src[2]>>)
              \/ /\ ~MovedAway(p) /\ moved' = moved
                 /\ p.kind = "reap" /\ At(p.src).st = "none"
                 /\ Becomes(o, "release", p.ref, p.prev, p.cp, p.src)
           /\ UNCHANGED <<job, idx, turnDone, senders, appendLock, redispatch, up, silent, runsOn, budget, nextId, watch, shown, hist>>
<1> DEFINE p == op[o]
<1>0. p \in Operation /\ op \in [Op -> Operation] /\ Shape(p) /\ p.d \in Data /\ p.prev \in Data
  BY AnOperation
<1>1. p.pc = "check" /\ UNCHANGED <<job, idx, turnDone, senders, appendLock, redispatch, up, silent, runsOn, budget, nextId, watch, shown, hist>>
  BY DEF CheckMoved, world, view
<1>2. p.src \in Ref /\ <<p.want, p.src[2]>> \in Ref /\ p.src[2] \in Id
  BY <1>1, PlacesAre, RefIs
<1>3. moved[p.src[2]] \in Ref \cup {NoRef}
  BY <1>2 DEF Typed, TypeOK
<1>4. ASSUME NEW r \in Ref \cup {NoRef}, Finish(o, r)
      PROVE  Becomes(o, "release", p.ref, p.prev, p.cp, r)
  <2>1. [p EXCEPT !.pc = "release", !.res = r] \in Operation
    BY <1>0, <1>4 DEF Operation
  <2> QED
    BY <1>0, <1>4, <2>1, FinishIs
<1>5. CASE MovedAway(p) /\ Finish(o, moved[p.src[2]]) /\ moved' = moved
  BY <1>1, <1>3, <1>4, <1>5
<1>6. CASE /\ ~MovedAway(p) /\ At(<<p.want, p.src[2]>>).st # "none" /\ Finish(o, <<p.want, p.src[2]>>)
           /\ moved' = [moved EXCEPT ![p.src[2]] = <<p.want, p.src[2]>>]
  BY <1>1, <1>2, <1>4, <1>6
<1>7. CASE /\ ~MovedAway(p) /\ p.kind = "reap" /\ At(p.src).st = "none"
           /\ Finish(o, p.src) /\ moved' = moved
  BY <1>1, <1>2, <1>4, <1>7
<1> QED
  BY <1>5, <1>6, <1>7 DEF CheckMoved

LEMMA CheckMergeDoes ==
    ASSUME Typed, NEW o \in Op, CheckMerge(o)
    PROVE  LET p == op[o] IN
           /\ p.pc = "check" /\ ToMove(p) /\ p.kind = "reap" /\ At(p.src).st # "none"
           /\ IndexedElsewhere(p) /\ idx \in Ref /\ nextId \in Id /\ <<idx[1], nextId>> \in Ref
           /\ OpBecomes(o, [p EXCEPT !.pc = "copy", !.kind = "merge", !.id = nextId,
                                     !.d = At(p.src).data, !.cp = <<idx[1], nextId>>])
           /\ nextId' = nextId + 1 /\ hist' = [hist EXCEPT !.brief = @ \cup {<<idx[1], nextId>>}]
           /\ UNCHANGED <<job, idx, moved, turnDone, senders, appendLock, redispatch, up, silent, runsOn, budget, watch, shown>>
<1> DEFINE p == op[o]
<1>0. p \in Operation /\ op \in [Op -> Operation] /\ Shape(p) /\ p.d \in Data /\ p.prev \in Data
  BY AnOperation
<1> DEFINE c == <<idx[1], nextId>>
           n == [p EXCEPT !.pc = "copy", !.kind = "merge", !.id = nextId, !.d = At(p.src).data, !.cp = c]
<1>1. /\ p.pc = "check" /\ ToMove(p) /\ p.kind = "reap" /\ At(p.src).st # "none"
      /\ IndexedElsewhere(p) /\ nextId <= MaxId /\ nextId' = nextId + 1
      /\ hist' = [hist EXCEPT !.brief = @ \cup {<<idx[1], nextId>>}]
      /\ op' = [op EXCEPT ![o] = n]
      /\ UNCHANGED <<job, idx, moved, turnDone, senders, appendLock, redispatch, up, silent, runsOn, budget, watch, shown>>
  BY DEF CheckMerge, ToMove, redis, world, view
<1>2. idx \in Ref /\ nextId \in Id
  BY <1>1, TurnQueueAssumption DEF IndexedElsewhere, Typed, TypeOK, Id
<1>3. c \in Ref
  BY <1>2, RefIs DEF Ref
<1>4. At(p.src).data \in Data
  BY <1>1, PlacesAre, PlaceIs
<1>5. n \in Operation
  <2> HIDE DEF c
  <2>1. nextId \in 0..MaxId
    BY <1>2 DEF Id
  <2> QED
    BY <1>0, <1>3, <1>4, <2>1 DEF Operation
<1>6. OpBecomes(o, n)
  BY <1>0, <1>1, <1>5, OpSetIs
<1> QED
  BY <1>1, <1>2, <1>3, <1>6

LEMMA CheckSwapDoes ==
    ASSUME Typed, NEW o \in Op, CheckSwap(o)
    PROVE  LET p == op[o] IN
           /\ p.pc = "check" /\ ToMove(p) /\ p.kind = "reap" /\ At(p.src).st # "none"
           /\ OpBecomes(o, [p EXCEPT !.pc = "copy", !.kind = "swap", !.id = p.src[2],
                                     !.d = At(p.src).data, !.cp = <<p.want, p.src[2]>>])
           /\ UNCHANGED <<job, idx, moved, turnDone, senders, appendLock, redispatch, up, silent, runsOn, budget, nextId, watch, shown, hist>>
<1> DEFINE p == op[o]
<1>0. p \in Operation /\ op \in [Op -> Operation] /\ Shape(p) /\ p.d \in Data /\ p.prev \in Data
  BY AnOperation
<1> DEFINE c == <<p.want, p.src[2]>>
           n == [p EXCEPT !.pc = "copy", !.kind = "swap", !.id = p.src[2], !.d = At(p.src).data, !.cp = c]
<1>1. /\ p.pc = "check" /\ ToMove(p) /\ p.kind = "reap" /\ At(p.src).st # "none"
      /\ op' = [op EXCEPT ![o] = n]
      /\ UNCHANGED <<job, idx, moved, turnDone, senders, appendLock, redispatch, up, silent, runsOn, budget, nextId, watch, shown, hist>>
  BY DEF CheckSwap, ToMove, redis, world, view
<1>2. p.src \in Ref /\ c \in Ref
  BY <1>1, PlacesAre
<1>3. At(p.src).data \in Data /\ p.src[2] \in 0..MaxId
  BY <1>2, PlaceIs, RefIs, TurnQueueAssumption DEF Id
<1>4. n \in Operation
  <2> HIDE DEF c
  <2> QED
    BY <1>0, <1>2, <1>3 DEF Operation
<1>5. OpBecomes(o, n)
  BY <1>0, <1>1, <1>4, OpSetIs
<1> QED
  BY <1>1, <1>5

\* The data of the copy an operation adds.
CopyData(p) == IF Relocating(p) THEN Relocated(p.prev, p.d, Hint(p)) ELSE p.d

LEMMA AddCopyDoes ==
    ASSUME Typed, NEW o \in Op, AddCopy(o)
    PROVE  LET p == op[o] IN
           /\ p.pc = "copy"
           /\ p.cp \in Ref /\ Becomes(o, "markcopy", p.ref, p.prev, p.cp, p.res)
           /\ CopyData(p) \in Data
           /\ IF At(p.cp).st = "none" THEN JobBecomes(p.cp, FreshJob("held", CopyData(p)))
              ELSE job' = job
           /\ UNCHANGED <<idx, moved, turnDone, senders, appendLock, redispatch, up, silent, runsOn, budget, nextId, watch, shown, hist>>
<1> DEFINE p == op[o]
<1>0. p \in Operation /\ op \in [Op -> Operation] /\ Shape(p) /\ p.d \in Data /\ p.prev \in Data
  BY AnOperation
<1>1. p.pc = "copy" /\ UNCHANGED <<idx, moved, turnDone, senders, appendLock, redispatch, up, silent, runsOn, budget, nextId, watch, shown, hist>>
  BY DEF AddCopy, world, view
<1>2. Go(o, "markcopy")
  BY DEF AddCopy
<1>2a. [p EXCEPT !.pc = "markcopy"] \in Operation
  BY <1>0 DEF Operation
<1>2b. Becomes(o, "markcopy", p.ref, p.prev, p.cp, p.res)
  BY <1>0, <1>2, <1>2a, GoIs
<1>3. p.cp \in Ref
  BY <1>1, PlacesAre DEF CopyPcs
<1>4. CopyData(p) \in Data
  BY <1>0, RelocatedData DEF CopyData
<1>5. FreshJob("held", CopyData(p)) \in Job
  BY <1>4, FreshIs
<1>6. AddJob(p.cp, FreshJob("held", CopyData(p)))
  BY DEF AddCopy, CopyState, CopyData
<1>7. IF At(p.cp).st = "none" THEN JobBecomes(p.cp, FreshJob("held", CopyData(p))) ELSE job' = job
  BY <1>3, <1>5, <1>6, PutIs DEF AddJob, Typed, TypeOK
<1> QED
  BY <1>1, <1>2b, <1>3, <1>4, <1>7

LEMMA TakeDoes ==
    ASSUME Typed, NEW o \in Op, Take(o)
    PROVE  LET p == op[o] IN
           LET r == Original(p) IN
           /\ p.pc = "take" /\ r \in Ref
           /\ Becomes(o, IF ~Takeable(p, At(r)) \/ r[2] \in turnDone THEN "drop"
                          ELSE IF p.kind = "merge" THEN "look" ELSE "promote",
                       p.ref, p.prev, p.cp, p.res)
           /\ IF Takeable(p, At(r)) THEN JobBecomes(r, NoJob) ELSE job' = job
           /\ UNCHANGED <<idx, moved, turnDone, senders, appendLock, redispatch, up, silent, runsOn, budget, nextId, watch, shown, hist>>
<1> DEFINE p == op[o]
<1>0. p \in Operation /\ op \in [Op -> Operation] /\ Shape(p) /\ p.d \in Data /\ p.prev \in Data
  BY AnOperation
<1> DEFINE r == Original(p)
           l == IF ~Takeable(p, At(r)) \/ r[2] \in turnDone THEN "drop"
                ELSE IF p.kind = "merge" THEN "look" ELSE "promote"
<1>1. p.pc = "take" /\ UNCHANGED <<idx, moved, turnDone, senders, appendLock, redispatch, up, silent, runsOn, budget, nextId, watch, shown, hist>> /\ Go(o, l)
      /\ IF Takeable(p, At(r)) THEN Put(r, NoJob) ELSE job' = job
  BY DEF Take, world, view
<1>2. r \in Ref
  BY <1>1, PlacesAre DEF CopyPcs
<1>3. Becomes(o, l, p.ref, p.prev, p.cp, p.res)
  <2>1. l \in {"drop", "look", "promote"}
    OBVIOUS
  <2> HIDE DEF l
  <2>2. [p EXCEPT !.pc = l] \in Operation
    BY <1>0, <2>1 DEF Operation
  <2> QED
    BY <1>0, <1>1, <2>2, GoIs
<1>4. IF Takeable(p, At(r)) THEN JobBecomes(r, NoJob) ELSE job' = job
  BY <1>1, <1>2, IdleTyped, PutIs DEF Typed, TypeOK
<1> QED
  BY <1>1, <1>2, <1>3, <1>4

LEMMA DropCopyDoes ==
    ASSUME Typed, NEW o \in Op, DropCopy(o)
    PROVE  LET p == op[o] IN
           /\ p.pc = "drop"
           /\ p.cp \in Ref /\ Becomes(o, "unmark", p.ref, p.prev, p.cp, p.res)
           /\ IF At(p.cp).st = "active" /\ At(p.cp).locked THEN job' = job
              ELSE JobBecomes(p.cp, NoJob)
           /\ hist' = [hist EXCEPT !.brief = @ \cup {p.cp},
                                   !.misled = @ \cup {m \in Msg : watch[m] = p.cp}]
           /\ UNCHANGED <<idx, moved, turnDone, senders, appendLock, redispatch, up, silent, runsOn, budget, nextId, watch, shown>>
<1> DEFINE p == op[o]
<1>0. p \in Operation /\ op \in [Op -> Operation] /\ Shape(p) /\ p.d \in Data /\ p.prev \in Data
  BY AnOperation
<1>1. p.pc = "drop" /\ UNCHANGED <<idx, moved, turnDone, senders, appendLock, redispatch, up, silent, runsOn, budget, nextId, watch, shown>>
  BY DEF DropCopy, world, view
<1>2. Go(o, "unmark")
  BY DEF DropCopy
<1>2a. [p EXCEPT !.pc = "unmark"] \in Operation
  BY <1>0 DEF Operation
<1>2b. Becomes(o, "unmark", p.ref, p.prev, p.cp, p.res)
  BY <1>0, <1>2, <1>2a, GoIs
<1>3. p.cp \in Ref
  BY <1>1, PlacesAre DEF CopyPcs
<1>4. IF At(p.cp).st = "active" /\ At(p.cp).locked THEN job' = job ELSE Put(p.cp, NoJob)
  BY DEF DropCopy
<1>5. IF At(p.cp).st = "active" /\ At(p.cp).locked THEN job' = job ELSE JobBecomes(p.cp, NoJob)
  BY <1>3, <1>4, IdleTyped, PutIs DEF Typed, TypeOK
<1>6. hist' = [hist EXCEPT !.brief = @ \cup {p.cp},
                           !.misled = @ \cup {m \in Msg : watch[m] = p.cp}]
  BY DEF DropCopy
<1> QED
  BY <1>1, <1>2b, <1>3, <1>5, <1>6

LEMMA UnmarkDoes ==
    ASSUME Typed, NEW o \in Op, Unmark(o)
    PROVE  LET p == op[o] IN
           /\ p.pc = "unmark"
           /\ Original(p) \in Ref /\ moved' = [moved EXCEPT ![Original(p)[2]] = NoRef]
           /\ \/ HasWant(p) /\ Becomes(o, "index", p.ref, p.prev, NoRef, NoRef)
              \/ ~HasWant(p) /\ p.src \in Ref
                 /\ Becomes(o, "release", p.ref, p.prev, NoRef, p.src)
           /\ \E S \in SUBSET Msg : hist' = [hist EXCEPT !.misled = @ \cup S]
           /\ UNCHANGED <<job, idx, turnDone, senders, appendLock, redispatch, up, silent, runsOn, budget, nextId, watch, shown>>
<1> DEFINE p == op[o]
<1>0. p \in Operation /\ op \in [Op -> Operation] /\ Shape(p) /\ p.d \in Data /\ p.prev \in Data
  BY AnOperation
<1>1. p.pc = "unmark" /\ UNCHANGED <<job, idx, turnDone, senders, appendLock, redispatch, up, silent, runsOn, budget, nextId, watch, shown>>
  BY DEF Unmark, world, view
<1>2. Original(p) \in Ref /\ moved' = [moved EXCEPT ![Original(p)[2]] = NoRef]
  BY <1>1, PlacesAre DEF CopyPcs, Unmark
<1>3. \E S \in SUBSET Msg : hist' = [hist EXCEPT !.misled = @ \cup S]
  BY DEF Unmark
<1> DEFINE l == IF HasWant(p) THEN "index" ELSE "release"
           s == IF HasWant(p) THEN NoRef ELSE p.src
<1>4. op' = [op EXCEPT ![o] = [p EXCEPT !.pc = l, !.res = s, !.cp = NoRef]]
  BY DEF Unmark
<1>5. CASE HasWant(p)
  <2>1. [p EXCEPT !.pc = "index", !.res = NoRef, !.cp = NoRef] \in Operation
    BY <1>0 DEF Operation
  <2>2. op' = [op EXCEPT ![o] = [p EXCEPT !.pc = "index", !.res = NoRef, !.cp = NoRef]]
    BY <1>4, <1>5
  <2> QED
    BY <1>0, <1>1, <1>2, <1>3, <1>5, <2>1, <2>2, ResCpIs
<1>6. CASE ~HasWant(p)
  <2>1. p.src \in Ref
    BY <1>0, <1>1, <1>6 DEF Shape, KindPc, Moves, HasWant, CopyPcs, OpenPcs
  <2>2. [p EXCEPT !.pc = "release", !.res = p.src, !.cp = NoRef] \in Operation
    BY <1>0 DEF Operation
  <2>3. op' = [op EXCEPT ![o] = [p EXCEPT !.pc = "release", !.res = p.src, !.cp = NoRef]]
    BY <1>4, <1>6
  <2> QED
    BY <1>0, <1>1, <1>2, <1>3, <1>6, <2>1, <2>2, <2>3, ResCpIs
<1> QED
  BY <1>5, <1>6

LEMMA PromoteDoes ==
    ASSUME Typed, NEW o \in Op, Promote(o)
    PROVE  LET p == op[o] IN
           /\ p.pc = "promote"
           /\ p.cp \in Ref /\ Becomes(o, "reindex", p.ref, p.prev, p.cp, p.res)
           /\ IF At(p.cp).st = "held" THEN JobBecomes(p.cp, [At(p.cp) EXCEPT !.st = "waiting"])
              ELSE job' = job
           /\ UNCHANGED <<idx, moved, turnDone, senders, appendLock, redispatch, up, silent, runsOn, budget, nextId, watch, shown, hist>>
<1> DEFINE p == op[o]
<1>0. p \in Operation /\ op \in [Op -> Operation] /\ Shape(p) /\ p.d \in Data /\ p.prev \in Data
  BY AnOperation
<1>1. p.pc = "promote" /\ UNCHANGED <<idx, moved, turnDone, senders, appendLock, redispatch, up, silent, runsOn, budget, nextId, watch, shown, hist>>
  BY DEF Promote, world, view
<1>2. Go(o, "reindex")
  BY DEF Promote
<1>2a. [p EXCEPT !.pc = "reindex"] \in Operation
  BY <1>0 DEF Operation
<1>2b. Becomes(o, "reindex", p.ref, p.prev, p.cp, p.res)
  BY <1>0, <1>2, <1>2a, GoIs
<1>3. p.cp \in Ref /\ p.cp[1] \in Queue /\ p.cp[2] \in Id
  BY <1>1, PlacesAre, RefIs
<1>4. At(p.cp) \in Job /\ At(p.cp) = job[p.cp[1]][p.cp[2]]
  BY <1>3, PlaceIs
<1> DEFINE j == [At(p.cp) EXCEPT !.st = "waiting"]
<1>5. j \in Job
  BY <1>4 DEF Job
<1>6. CASE At(p.cp).st = "held"
  <2>1. job' = [job EXCEPT ![p.cp[1]][p.cp[2]].st = "waiting"]
    BY <1>6 DEF Promote
  <2>2. Put(p.cp, j)
    BY <1>3, <1>4, <2>1 DEF Put
  <2>3. JobBecomes(p.cp, j)
    <3> HIDE DEF j
    <3> QED
      BY <1>3, <1>5, <2>2, PutIs DEF Typed, TypeOK
  <2> QED
    BY <1>1, <1>2b, <1>3, <1>6, <2>3
<1>7. CASE At(p.cp).st # "held"
  <2>1. job' = job
    BY <1>7 DEF Promote
  <2> QED
    BY <1>1, <1>2b, <1>3, <1>7, <2>1
<1> QED
  BY <1>6, <1>7

LEMMA TakeHoldDoes ==
    ASSUME Typed, NEW o \in Op, TakeHold(o)
    PROVE  LET p == op[o] IN
           /\ p.pc = "takehold"
           /\ p.cp \in Ref /\ Becomes(o, "markhold", p.ref, p.prev, p.cp, p.res)
           /\ IF Pending(At(p.cp)) THEN JobBecomes(p.cp, NoJob) ELSE job' = job
           /\ UNCHANGED <<idx, moved, turnDone, senders, appendLock, redispatch, up, silent, runsOn, budget, nextId, watch, shown, hist>>
<1> DEFINE p == op[o]
<1>0. p \in Operation /\ op \in [Op -> Operation] /\ Shape(p) /\ p.d \in Data /\ p.prev \in Data
  BY AnOperation
<1>1. p.pc = "takehold" /\ UNCHANGED <<idx, moved, turnDone, senders, appendLock, redispatch, up, silent, runsOn, budget, nextId, watch, shown, hist>>
  BY DEF TakeHold, world, view
<1>2. Go(o, "markhold")
  BY DEF TakeHold
<1>2a. [p EXCEPT !.pc = "markhold"] \in Operation
  BY <1>0 DEF Operation
<1>2b. Becomes(o, "markhold", p.ref, p.prev, p.cp, p.res)
  BY <1>0, <1>2, <1>2a, GoIs
<1>3. p.cp \in Ref
  BY <1>1, PlacesAre
<1>4. IF Pending(At(p.cp)) THEN Put(p.cp, NoJob) ELSE job' = job
  BY DEF TakeHold
<1>5. IF Pending(At(p.cp)) THEN JobBecomes(p.cp, NoJob) ELSE job' = job
  BY <1>3, <1>4, IdleTyped, PutIs DEF Typed, TypeOK
<1> QED
  BY <1>1, <1>2b, <1>3, <1>5

\* The records operations start with.
Enqueues(m, q) ==
    [IdleOp EXCEPT !.pc = "acquire", !.kind = "enqueue",
                   !.d = [msgs |-> <<m>>, label |-> runsOn, tok |-> nextId, att |-> 0],
                   !.id = nextId, !.want = q]
Redispatches(r) ==
    [IdleOp EXCEPT !.pc = "acquire", !.kind = "redispatch",
                   !.d = [At(r).data EXCEPT !.label = runsOn, !.tok = nextId, !.att = @ + 1],
                   !.id = nextId, !.want = runsOn, !.src = r]
Reaps(r) ==
    [IdleOp EXCEPT !.pc = "acquire", !.kind = "reap", !.rescue = (At(r).st = "active"),
                   !.want = At(r).data.label, !.src = r]
MovesClaimed(r) ==
    [IdleOp EXCEPT !.pc = "acquire", !.kind = "claimed", !.by = At(r).by,
                   !.d = At(r).snap, !.id = r[2], !.want = At(r).snap.label, !.src = r]

\* A job that left its worker.
Left(j, st, ph) ==
    [j EXCEPT !.st = st, !.ph = ph, !.locked = FALSE, !.by = NoNode, !.snap = NoData]

LEMMA StalledIs ==
    ASSUME NEW j \in Job
    PROVE  [j EXCEPT !.st = "waiting", !.ph = "none", !.by = NoNode, !.snap = NoData, !.stalls = 1] \in Job
<1>1. [j EXCEPT !.st = "waiting", !.ph = "none", !.by = NoNode, !.snap = NoData] \in Job
  BY IdleTyped DEF Job
<1> DEFINE k == [j EXCEPT !.st = "waiting", !.ph = "none", !.by = NoNode, !.snap = NoData]
<1>2. k \in Job
  BY <1>1
<1>3. [k EXCEPT !.stalls = 1] \in Job
  <2> HIDE DEF k
  <2> QED
    BY <1>2 DEF Job
<1> QED
  BY <1>3

LEMMA LeavesIs ==
    ASSUME Typed, NEW q \in Queue, NEW i \in Id, NEW st, NEW ph, Leaves(q, i, st, ph),
           st \in {"waiting", "delayed", "completed", "failed"}, ph \in {"none", "mismatch", "other"}
    PROVE  JobBecomes(<<q, i>>, Left(At(<<q, i>>), st, ph))
<1>1. job[q][i] \in Job /\ At(<<q, i>>) = job[q][i]
  BY PairIs, PlaceIs
<1> DEFINE j == Left(job[q][i], st, ph)
<1>2. j \in Job
  BY <1>1, IdleTyped DEF Left, Job
<1>3. job' = [job EXCEPT ![q][i] = j]
  BY DEF Leaves, Left
<1>4. JobBecomes(<<q, i>>, j)
  <2> HIDE DEF j
  <2> QED
    BY <1>2, <1>3, PairPutIs DEF Typed, TypeOK
<1> QED
  BY <1>1, <1>4

LEMMA ClaimDoes ==
    ASSUME Typed, NEW q \in Queue, NEW i \in Id, NEW n \in Node, Claim(n, q, i)
    PROVE  LET r == <<q, i>>
               j == At(r) IN
           /\ r \in Ref /\ j \in Job
           /\ Serves(n, q) /\ j.st = "waiting"
           /\ JobBecomes(r, [j EXCEPT !.st = "active", !.snap = j.data, !.by = n, !.locked = TRUE, !.ph = "claimed"])
           /\ op' = op
           /\ UNCHANGED <<idx, moved, turnDone, senders, appendLock, redispatch, up, silent, runsOn, budget, nextId, watch, shown, hist>>
<1> DEFINE r == <<q, i>>
           j == At(r)
<1>0. r \in Ref /\ j \in Job /\ j = job[q][i]
  BY PairIs, PlaceIs
<1> DEFINE k == [j EXCEPT !.st = "active", !.snap = j.data, !.by = n, !.locked = TRUE, !.ph = "claimed"]
<1>1. Serves(n, q) /\ j.st = "waiting" /\ UNCHANGED <<op, idx, moved, turnDone, senders, appendLock, redispatch, up, silent, runsOn, budget, nextId, watch, shown, hist>>
  BY <1>0 DEF Claim, world, view
<1>2. k \in Job
  BY <1>0 DEF Job
<1>3. job' = [job EXCEPT ![q][i] = k]
  BY <1>0 DEF Claim
<1>4. JobBecomes(r, k)
  <2> HIDE DEF k
  <2> QED
    BY <1>2, <1>3, PairPutIs DEF Typed, TypeOK
<1> QED
  BY <1>0, <1>1, <1>4

LEMMA SkipDoneDoes ==
    ASSUME Typed, NEW q \in Queue, NEW i \in Id, SkipDone(q, i)
    PROVE  LET r == <<q, i>>
               j == At(r) IN
           /\ r \in Ref /\ j \in Job
           /\ j.st = "active" /\ j.ph = "claimed" /\ j.by \in up
           /\ i \in turnDone
           /\ senders' = [senders EXCEPT ![j.snap.tok] = {}]
           /\ JobBecomes(r, Left(j, "completed", "none"))
           /\ op' = op
           /\ UNCHANGED <<idx, moved, turnDone, appendLock, redispatch, up, silent, runsOn, budget, nextId, watch, shown, hist>>
<1> DEFINE r == <<q, i>>
           j == At(r)
<1>0. r \in Ref /\ j \in Job /\ j = job[q][i]
  BY PairIs, PlaceIs
<1>1. j.st = "active" /\ j.ph = "claimed" /\ j.by \in up /\ UNCHANGED <<op, idx, moved, turnDone, appendLock, redispatch, up, silent, runsOn, budget, nextId, watch, shown, hist>>
  BY <1>0 DEF SkipDone, In, world, view, Skips
<1>a. i \in turnDone /\ senders' = [senders EXCEPT ![j.snap.tok] = {}]
  BY <1>0 DEF SkipDone, In, Skips, ForgetSenders
<1>2. Leaves(q, i, "completed", "none")
  BY <1>0 DEF SkipDone
<1>3. JobBecomes(r, Left(j, "completed", "none"))
  BY <1>0, <1>2, LeavesIs
<1> QED
  BY <1>0, <1>1, <1>3, <1>a

LEMMA RequeueDoes ==
    ASSUME Typed, NEW q \in Queue, NEW i \in Id, Requeue(q, i)
    PROVE  LET r == <<q, i>>
               j == At(r) IN
           /\ r \in Ref /\ j \in Job
           /\ j.st = "active" /\ j.ph = "claimed" /\ j.by \in up
           /\ i \notin turnDone
           /\ j.snap.label \in Carries[j.by]
           /\ JobBecomes(r, Left(j, "delayed", "none"))
           /\ op' = op
           /\ UNCHANGED <<idx, moved, turnDone, senders, appendLock, redispatch, up, silent, runsOn, budget, nextId, watch, shown, hist>>
<1> DEFINE r == <<q, i>>
           j == At(r)
<1>0. r \in Ref /\ j \in Job /\ j = job[q][i]
  BY PairIs, PlaceIs
<1>1. j.st = "active" /\ j.ph = "claimed" /\ j.by \in up /\ UNCHANGED <<op, idx, moved, turnDone, senders, appendLock, redispatch, up, silent, runsOn, budget, nextId, watch, shown, hist>>
  BY <1>0 DEF Requeue, In, world, view, Runnable, Skips
<1>a. i \notin turnDone /\ j.snap.label \in Carries[j.by]
  BY <1>0 DEF Requeue, In, Runnable, Skips, ForgetSenders
<1>2. Leaves(q, i, "delayed", "none")
  BY <1>0 DEF Requeue
<1>3. JobBecomes(r, Left(j, "delayed", "none"))
  BY <1>0, <1>2, LeavesIs
<1> QED
  BY <1>0, <1>1, <1>3, <1>a

LEMMA FailAtClaimDoes ==
    ASSUME Typed, NEW q \in Queue, NEW i \in Id, FailAtClaim(q, i)
    PROVE  LET r == <<q, i>>
               j == At(r) IN
           /\ r \in Ref /\ j \in Job
           /\ j.st = "active" /\ j.ph = "claimed" /\ j.by \in up
           /\ i \notin turnDone
           /\ j.snap.label \in Carries[j.by]
           /\ JobBecomes(r, Left(j, "failed", IF j.snap.label # runsOn THEN "mismatch" ELSE "other"))
           /\ op' = op
           /\ UNCHANGED <<idx, moved, turnDone, senders, appendLock, redispatch, up, silent, runsOn, budget, nextId, watch, shown, hist>>
<1> DEFINE r == <<q, i>>
           j == At(r)
<1>0. r \in Ref /\ j \in Job /\ j = job[q][i]
  BY PairIs, PlaceIs
<1>1. j.st = "active" /\ j.ph = "claimed" /\ j.by \in up /\ UNCHANGED <<op, idx, moved, turnDone, senders, appendLock, redispatch, up, silent, runsOn, budget, nextId, watch, shown, hist>>
  BY <1>0 DEF FailAtClaim, In, world, view, Runnable, Skips
<1>a. i \notin turnDone /\ j.snap.label \in Carries[j.by]
  BY <1>0 DEF FailAtClaim, In, Runnable, Skips, ForgetSenders
<1>2. Leaves(q, i, "failed", IF j.snap.label # runsOn THEN "mismatch" ELSE "other")
  BY <1>0 DEF FailAtClaim
<1>3. JobBecomes(r, Left(j, "failed", IF j.snap.label # runsOn THEN "mismatch" ELSE "other"))
  BY <1>0, <1>2, LeavesIs
<1> QED
  BY <1>0, <1>1, <1>3, <1>a

LEMMA AckDoes ==
    ASSUME Typed, NEW q \in Queue, NEW i \in Id, Ack(q, i)
    PROVE  LET r == <<q, i>>
               j == At(r) IN
           /\ r \in Ref /\ j \in Job
           /\ j.st = "active" /\ j.ph = "ended" /\ j.by \in up
           /\ senders' = [senders EXCEPT ![j.snap.tok] = {}]
           /\ JobBecomes(r, Left(j, "completed", "none"))
           /\ op' = op
           /\ UNCHANGED <<idx, moved, turnDone, appendLock, redispatch, up, silent, runsOn, budget, nextId, watch, shown, hist>>
<1> DEFINE r == <<q, i>>
           j == At(r)
<1>0. r \in Ref /\ j \in Job /\ j = job[q][i]
  BY PairIs, PlaceIs
<1>1. j.st = "active" /\ j.ph = "ended" /\ j.by \in up /\ UNCHANGED <<op, idx, moved, turnDone, appendLock, redispatch, up, silent, runsOn, budget, nextId, watch, shown, hist>>
  BY <1>0 DEF Ack, In, world, view
<1>a. senders' = [senders EXCEPT ![j.snap.tok] = {}]
  BY <1>0 DEF Ack, In, ForgetSenders
<1>2. Leaves(q, i, "completed", "none")
  BY <1>0 DEF Ack
<1>3. JobBecomes(r, Left(j, "completed", "none"))
  BY <1>0, <1>2, LeavesIs
<1> QED
  BY <1>0, <1>1, <1>3, <1>a

LEMMA FailDeniedDoes ==
    ASSUME Typed, NEW q \in Queue, NEW i \in Id, FailDenied(q, i)
    PROVE  LET r == <<q, i>>
               j == At(r) IN
           /\ r \in Ref /\ j \in Job
           /\ j.st = "active" /\ j.ph = "denied" /\ j.by \in up
           /\ JobBecomes(r, Left(j, "failed", "mismatch"))
           /\ op' = op
           /\ UNCHANGED <<idx, moved, turnDone, senders, appendLock, redispatch, up, silent, runsOn, budget, nextId, watch, shown, hist>>
<1> DEFINE r == <<q, i>>
           j == At(r)
<1>0. r \in Ref /\ j \in Job /\ j = job[q][i]
  BY PairIs, PlaceIs
<1>1. j.st = "active" /\ j.ph = "denied" /\ j.by \in up /\ UNCHANGED <<op, idx, moved, turnDone, senders, appendLock, redispatch, up, silent, runsOn, budget, nextId, watch, shown, hist>>
  BY <1>0 DEF FailDenied, In, world, view
<1>2. Leaves(q, i, "failed", "mismatch")
  BY <1>0 DEF FailDenied
<1>3. JobBecomes(r, Left(j, "failed", "mismatch"))
  BY <1>0, <1>2, LeavesIs
<1> QED
  BY <1>0, <1>1, <1>3

LEMMA CompleteMovedDoes ==
    ASSUME Typed, NEW q \in Queue, NEW i \in Id, CompleteMoved(q, i)
    PROVE  LET r == <<q, i>>
               j == At(r) IN
           /\ r \in Ref /\ j \in Job
           /\ j.st = "active" /\ j.ph = "moved" /\ j.by \in up
           /\ JobBecomes(r, Left(j, "completed", "none"))
           /\ op' = op
           /\ UNCHANGED <<idx, moved, turnDone, senders, appendLock, redispatch, up, silent, runsOn, budget, nextId, watch, shown, hist>>
<1> DEFINE r == <<q, i>>
           j == At(r)
<1>0. r \in Ref /\ j \in Job /\ j = job[q][i]
  BY PairIs, PlaceIs
<1>1. j.st = "active" /\ j.ph = "moved" /\ j.by \in up /\ UNCHANGED <<op, idx, moved, turnDone, senders, appendLock, redispatch, up, silent, runsOn, budget, nextId, watch, shown, hist>>
  BY <1>0 DEF CompleteMoved, In, world, view
<1>2. Leaves(q, i, "completed", "none")
  BY <1>0 DEF CompleteMoved
<1>3. JobBecomes(r, Left(j, "completed", "none"))
  BY <1>0, <1>2, LeavesIs
<1> QED
  BY <1>0, <1>1, <1>3

LEMMA BeginTurnDoes ==
    ASSUME Typed, NEW q \in Queue, NEW i \in Id, BeginTurn(q, i)
    PROVE  LET r == <<q, i>>
               j == At(r) IN
           /\ r \in Ref /\ j \in Job
           /\ j.st = "active" /\ j.ph = "claimed" /\ j.by \in up
           /\ i \notin turnDone
           /\ j.snap.label \in Carries[j.by]
           /\ hist' = [hist EXCEPT !.ran =
                         [m \in Msg |-> IF m \in SeqSet(j.snap.msgs) /\ @[m] < 2 THEN @[m] + 1 ELSE @[m]]]
           /\ JobBecomes(r, [j EXCEPT !.ph = "running"])
           /\ op' = op
           /\ UNCHANGED <<idx, moved, turnDone, senders, appendLock, redispatch, up, silent, runsOn, budget, nextId, watch, shown>>
<1> DEFINE r == <<q, i>>
           j == At(r)
<1>0. r \in Ref /\ j \in Job /\ j = job[q][i]
  BY PairIs, PlaceIs
<1> DEFINE k == [j EXCEPT !.ph = "running"]
<1>1. j.st = "active" /\ j.ph = "claimed" /\ j.by \in up /\ UNCHANGED <<op, idx, moved, turnDone, senders, appendLock, redispatch, up, silent, runsOn, budget, nextId, watch, shown>>
  BY <1>0 DEF BeginTurn, In, world, view, Runnable, Skips
<1>a. i \notin turnDone /\ j.snap.label \in Carries[j.by] /\ hist' = [hist EXCEPT !.ran =
                         [m \in Msg |-> IF m \in SeqSet(j.snap.msgs) /\ @[m] < 2 THEN @[m] + 1 ELSE @[m]]]
  BY <1>0 DEF BeginTurn, In, Runnable, Skips
<1>2. k \in Job
  BY <1>0 DEF Job
<1>3. job' = [job EXCEPT ![q][i] = k]
  BY <1>0 DEF BeginTurn
<1>4. JobBecomes(r, k)
  <2> HIDE DEF k
  <2> QED
    BY <1>2, <1>3, PairPutIs DEF Typed, TypeOK
<1> QED
  BY <1>0, <1>1, <1>4, <1>a

LEMMA EndTurnDoes ==
    ASSUME Typed, NEW q \in Queue, NEW i \in Id, NEW denied \in BOOLEAN, EndTurn(q, i, denied)
    PROVE  LET r == <<q, i>>
               j == At(r) IN
           /\ r \in Ref /\ j \in Job
           /\ j.st = "active" /\ j.ph = "running" /\ j.by \in up
           /\ (denied => j.snap.label # runsOn)
           /\ turnDone' = turnDone \cup {i}
           /\ hist' = (IF denied THEN hist ELSE [hist EXCEPT !.fin = @ \cup SeqSet(j.snap.msgs)])
           /\ JobBecomes(r, [j EXCEPT !.ph = IF denied THEN "denied" ELSE "ended"])
           /\ op' = op
           /\ UNCHANGED <<idx, moved, senders, appendLock, redispatch, up, silent, runsOn, budget, nextId, watch, shown>>
<1> DEFINE r == <<q, i>>
           j == At(r)
<1>0. r \in Ref /\ j \in Job /\ j = job[q][i]
  BY PairIs, PlaceIs
<1> DEFINE k == [j EXCEPT !.ph = IF denied THEN "denied" ELSE "ended"]
<1>1. j.st = "active" /\ j.ph = "running" /\ j.by \in up /\ UNCHANGED <<op, idx, moved, senders, appendLock, redispatch, up, silent, runsOn, budget, nextId, watch, shown>>
  BY <1>0 DEF EndTurn, In, world, view, Running
<1>a. (denied => j.snap.label # runsOn) /\ turnDone' = turnDone \cup {i} /\ hist' = (IF denied THEN hist ELSE [hist EXCEPT !.fin = @ \cup SeqSet(j.snap.msgs)])
  BY <1>0 DEF EndTurn, In, Running
<1>2. k \in Job
  BY <1>0 DEF Job
<1>3. job' = [job EXCEPT ![q][i] = k]
  BY <1>0 DEF EndTurn
<1>4. JobBecomes(r, k)
  <2> HIDE DEF k
  <2> QED
    BY <1>2, <1>3, PairPutIs DEF Typed, TypeOK
<1> QED
  BY <1>0, <1>1, <1>4, <1>a

LEMMA RetryDueDoes ==
    ASSUME Typed, NEW q \in Queue, NEW i \in Id, RetryDue(q, i)
    PROVE  LET r == <<q, i>>
               j == At(r) IN
           /\ r \in Ref /\ j \in Job
           /\ j.st = "delayed"
           /\ JobBecomes(r, [j EXCEPT !.st = "waiting"])
           /\ op' = op
           /\ UNCHANGED <<idx, moved, turnDone, senders, appendLock, redispatch, up, silent, runsOn, budget, nextId, watch, shown, hist>>
<1> DEFINE r == <<q, i>>
           j == At(r)
<1>0. r \in Ref /\ j \in Job /\ j = job[q][i]
  BY PairIs, PlaceIs
<1> DEFINE k == [j EXCEPT !.st = "waiting"]
<1>1. j.st = "delayed" /\ UNCHANGED <<op, idx, moved, turnDone, senders, appendLock, redispatch, up, silent, runsOn, budget, nextId, watch, shown, hist>>
  BY <1>0 DEF RetryDue, In, world, view
<1>2. k \in Job
  BY <1>0 DEF Job
<1>3. job' = [job EXCEPT ![q][i] = k]
  BY <1>0 DEF RetryDue
<1>4. JobBecomes(r, k)
  <2> HIDE DEF k
  <2> QED
    BY <1>2, <1>3, PairPutIs DEF Typed, TypeOK
<1> QED
  BY <1>0, <1>1, <1>4

LEMMA HoldLapseDoes ==
    ASSUME Typed, NEW q \in Queue, NEW i \in Id, HoldLapse(q, i)
    PROVE  LET r == <<q, i>>
               j == At(r) IN
           /\ r \in Ref /\ j \in Job
           /\ j.st = "held"
           /\ (SlowOps \/ \A o \in Op : op[o].cp # r)
           /\ JobBecomes(r, [j EXCEPT !.st = "waiting"])
           /\ op' = op
           /\ UNCHANGED <<idx, moved, turnDone, senders, appendLock, redispatch, up, silent, runsOn, budget, nextId, watch, shown, hist>>
<1> DEFINE r == <<q, i>>
           j == At(r)
<1>0. r \in Ref /\ j \in Job /\ j = job[q][i]
  BY PairIs, PlaceIs
<1> DEFINE k == [j EXCEPT !.st = "waiting"]
<1>1. j.st = "held" /\ UNCHANGED <<op, idx, moved, turnDone, senders, appendLock, redispatch, up, silent, runsOn, budget, nextId, watch, shown, hist>>
  BY <1>0 DEF HoldLapse, In, world, view
<1>a. (SlowOps \/ \A o \in Op : op[o].cp # r)
  BY <1>0 DEF HoldLapse, In
<1>2. k \in Job
  BY <1>0 DEF Job
<1>3. job' = [job EXCEPT ![q][i] = k]
  BY <1>0 DEF HoldLapse
<1>4. JobBecomes(r, k)
  <2> HIDE DEF k
  <2> QED
    BY <1>2, <1>3, PairPutIs DEF Typed, TypeOK
<1> QED
  BY <1>0, <1>1, <1>4, <1>a

LEMMA LockExpireDoes ==
    ASSUME Typed, NEW q \in Queue, NEW i \in Id, LockExpire(q, i)
    PROVE  LET r == <<q, i>>
               j == At(r) IN
           /\ r \in Ref /\ j \in Job
           /\ j.st = "active" /\ j.locked /\ j.by \notin up
           /\ JobBecomes(r, [j EXCEPT !.locked = FALSE])
           /\ op' = op
           /\ UNCHANGED <<idx, moved, turnDone, senders, appendLock, redispatch, up, silent, runsOn, budget, nextId, watch, shown, hist>>
<1> DEFINE r == <<q, i>>
           j == At(r)
<1>0. r \in Ref /\ j \in Job /\ j = job[q][i]
  BY PairIs, PlaceIs
<1> DEFINE k == [j EXCEPT !.locked = FALSE]
<1>1. j.st = "active" /\ j.locked /\ j.by \notin up /\ UNCHANGED <<op, idx, moved, turnDone, senders, appendLock, redispatch, up, silent, runsOn, budget, nextId, watch, shown, hist>>
  BY <1>0 DEF LockExpire, In, world, view
<1>2. k \in Job
  BY <1>0 DEF Job
<1>3. job' = [job EXCEPT ![q][i] = k]
  BY <1>0 DEF LockExpire
<1>4. JobBecomes(r, k)
  <2> HIDE DEF k
  <2> QED
    BY <1>2, <1>3, PairPutIs DEF Typed, TypeOK
<1> QED
  BY <1>0, <1>1, <1>4

LEMMA StallDoes ==
    ASSUME Typed, NEW q \in Queue, NEW i \in Id, Stall(q, i)
    PROVE  LET r == <<q, i>>
               j == At(r) IN
           /\ r \in Ref /\ j \in Job
           /\ j.st = "active" /\ ~j.locked
           /\ \/ JobBecomes(r, [j EXCEPT !.st = "waiting", !.ph = "none", !.by = NoNode,
                                         !.snap = NoData, !.stalls = 1])
              \/ JobBecomes(r, Left(j, "failed", "other"))
           /\ op' = op
           /\ UNCHANGED <<idx, moved, turnDone, senders, appendLock, redispatch, up, silent, runsOn, budget, nextId, watch, shown, hist>>
<1> DEFINE r == <<q, i>>
           j == At(r)
<1>0. r \in Ref /\ j \in Job /\ j = job[q][i]
  BY PairIs, PlaceIs
<1> DEFINE k == [j EXCEPT !.st = "waiting", !.ph = "none", !.by = NoNode, !.snap = NoData, !.stalls = 1]
<1>1. j.st = "active" /\ ~j.locked /\ UNCHANGED <<op, idx, moved, turnDone, senders, appendLock, redispatch, up, silent, runsOn, budget, nextId, watch, shown, hist>>
  BY <1>0 DEF Stall, world, view
<1>2. k \in Job
  BY <1>0, StalledIs
<1>3. CASE job[q][i].stalls = 0
  <2>1. job' = [job EXCEPT ![q][i] = k]
    BY <1>0, <1>3 DEF Stall
  <2>2. JobBecomes(r, k)
    <3> HIDE DEF k
    <3> QED
      BY <1>2, <2>1, PairPutIs DEF Typed, TypeOK
  <2> QED
    BY <1>0, <1>1, <2>2
<1>4. CASE job[q][i].stalls # 0
  <2>1. Leaves(q, i, "failed", "other")
    BY <1>4 DEF Stall
  <2>2. JobBecomes(r, Left(j, "failed", "other"))
    BY <1>0, <2>1, LeavesIs
  <2> QED
    BY <1>0, <1>1, <2>2
<1> QED
  BY <1>3, <1>4

LEMMA StartClaimedMoveDoes ==
    ASSUME Typed, NEW q \in Queue, NEW i \in Id, NEW o \in Op, StartClaimedMove(o, q, i)
    PROVE  LET r == <<q, i>>
               j == At(r) IN
           /\ r \in Ref /\ j \in Job
           /\ op[o].pc = "idle" /\ j.ph = "claimed" /\ j.by \in up /\ i \notin turnDone
           /\ j.snap.label \notin Carries[j.by] /\ q # j.snap.label
           /\ JobBecomes(r, [j EXCEPT !.ph = "moving"]) /\ OpBecomes(o, MovesClaimed(r))
           /\ UNCHANGED <<idx, moved, turnDone, senders, appendLock, redispatch, up, silent, runsOn, budget, nextId, watch, shown, hist>>
<1> DEFINE r == <<q, i>>
           j == At(r)
<1>0. r \in Ref /\ j \in Job /\ j = job[q][i]
  BY PairIs, PlaceIs
<1> DEFINE k == [j EXCEPT !.ph = "moving"]
<1>1. /\ op[o].pc = "idle" /\ j.ph = "claimed" /\ j.by \in up /\ i \notin turnDone
      /\ j.snap.label \notin Carries[j.by] /\ q # j.snap.label /\ UNCHANGED <<idx, moved, turnDone, senders, appendLock, redispatch, up, silent, runsOn, budget, nextId, watch, shown, hist>>
      /\ op' = [op EXCEPT ![o] = MovesClaimed(r)]
  BY <1>0 DEF StartClaimedMove, MovesClaimed, Set, world, view
<1>2. k \in Job
  BY <1>0 DEF Job
<1>3. job' = [job EXCEPT ![q][i] = k]
  BY <1>0 DEF StartClaimedMove
<1>4. JobBecomes(r, k)
  <2> HIDE DEF k
  <2> QED
    BY <1>2, <1>3, PairPutIs DEF Typed, TypeOK
<1>5. MovesClaimed(r) \in Operation
  <2>1. j.snap \in Data /\ j.by \in Node \cup {NoNode} /\ i \in 0..MaxId /\ j.snap.label \in Queue
    BY <1>0, TurnQueueAssumption DEF Job, Id, Data, Queue
  <2>2. <<q, i>>[2] = i
    OBVIOUS
  <2> HIDE DEF j
  <2> QED
    BY <1>0, <2>1, <2>2, IdleTyped, ZenonT(60) DEF MovesClaimed, Operation, j
<1>6. OpBecomes(o, MovesClaimed(r))
  BY <1>1, <1>5, OpSetIs DEF Typed, TypeOK
<1> QED
  BY <1>0, <1>1, <1>4, <1>6

LEMMA DataIs ==
    ASSUME NEW d \in Data, NEW l \in Label, NEW t \in 0..MaxId, NEW a \in 0..2
    PROVE  [d EXCEPT !.label = l, !.tok = t, !.att = a] \in Data
BY DEF Data

\* An operation with another target and source, or another id, is one.
LEMMA WantTyped ==
    ASSUME NEW x \in Operation, NEW w \in Queue, NEW s \in Ref
    PROVE  [x EXCEPT !.want = w, !.src = s] \in Operation
BY DEF Operation

LEMMA IdTyped ==
    ASSUME NEW x \in Operation, NEW i \in 0..MaxId
    PROVE  [x EXCEPT !.id = i] \in Operation
BY DEF Operation

LEMMA StartEnqueueDoes ==
    ASSUME Typed, NEW o \in Op, NEW m \in Msg, NEW q \in Queue, StartEnqueue(o, m, q)
    PROVE  /\ op[o].pc = "idle" /\ m \notin hist.sent /\ nextId \in Id /\ q \in Target(runsOn)
           /\ OpBecomes(o, Enqueues(m, q)) /\ nextId' = nextId + 1
           /\ hist' = [hist EXCEPT !.sent = @ \cup {m}]
           /\ UNCHANGED <<job, idx, moved, turnDone, senders, appendLock, redispatch, up, silent, runsOn, budget, watch, shown>>
<1>1. /\ op[o].pc = "idle" /\ m \notin hist.sent /\ nextId <= MaxId /\ q \in Target(runsOn)
      /\ nextId' = nextId + 1 /\ hist' = [hist EXCEPT !.sent = @ \cup {m}]
      /\ op' = [op EXCEPT ![o] = Enqueues(m, q)]
      /\ UNCHANGED <<job, idx, moved, turnDone, senders, appendLock, redispatch, up, silent, runsOn, budget, watch, shown>>
  BY DEF StartEnqueue, Set, Enqueues, redis, world, view
<1>2. nextId \in Id /\ nextId \in 0..MaxId /\ runsOn \in Label
  BY <1>1, TurnQueueAssumption DEF Typed, TypeOK, Id
<1>3. [msgs |-> <<m>>, label |-> runsOn, tok |-> nextId, att |-> 0] \in Data
  <2>1. <<m>> \in Seq(Msg) /\ 0 \in 0..2
    OBVIOUS
  <2> QED
    BY <1>2, <2>1 DEF Data
<1>4. Enqueues(m, q) \in Operation
  BY <1>2, <1>3, IdleTyped DEF Enqueues, Operation
<1>5. OpBecomes(o, Enqueues(m, q))
  BY <1>1, <1>4, OpSetIs DEF Typed, TypeOK
<1> QED
  BY <1>1, <1>2, <1>5

LEMMA StartRedispatchDoes ==
    ASSUME Typed, NEW o \in Op, NEW m \in Msg, StartRedispatch(o, m)
    PROVE  LET r == watch[m] IN
           /\ op[o].pc = "idle" /\ r \in Ref /\ Redispatchable(At(r)) /\ nextId \in Id
           /\ r[2] \notin redispatch /\ redispatch' = redispatch \cup {r[2]}
           /\ OpBecomes(o, Redispatches(r)) /\ nextId' = nextId + 1
           /\ hist' = [hist EXCEPT !.again =
                          [k \in Msg |-> IF k \in SeqSet(At(r).data.msgs) THEN @[k] \cup {r[2]} ELSE @[k]]]
           /\ UNCHANGED <<job, idx, moved, turnDone, senders, appendLock, up, silent, runsOn, budget, watch, shown>>
<1> DEFINE r == watch[m]
<1>1. /\ op[o].pc = "idle" /\ r # NoRef /\ Redispatchable(At(r)) /\ nextId <= MaxId
      /\ r[2] \notin redispatch /\ redispatch' = redispatch \cup {r[2]}
      /\ nextId' = nextId + 1
      /\ UNCHANGED <<job, idx, moved, turnDone, senders, appendLock, up, silent, runsOn, budget, watch, shown>>
  BY DEF StartRedispatch, world, view
<1>2. op' = [op EXCEPT ![o] = Redispatches(r)]
  BY DEF StartRedispatch, Set, Redispatches
<1>3. hist' = [hist EXCEPT !.again =
                  [k \in Msg |-> IF k \in SeqSet(At(r).data.msgs) THEN @[k] \cup {r[2]} ELSE @[k]]]
  BY DEF StartRedispatch
<1>4. nextId \in Id /\ nextId \in 0..MaxId /\ runsOn \in Label /\ r \in Ref
  BY <1>1, TurnQueueAssumption DEF Typed, TypeOK, Id
<1>5. At(r).data \in Data /\ At(r).data.att + 1 \in 0..2
  <2>1. At(r).data \in Data /\ At(r).data.att < 1
    BY <1>1, <1>4, PlaceIs DEF Redispatchable
  <2> QED
    BY <2>1 DEF Data
<1>6. [At(r).data EXCEPT !.label = runsOn, !.tok = nextId, !.att = @ + 1] \in Data
  BY <1>4, <1>5, DataIs
<1>7. Redispatches(r) \in Operation
  <2> DEFINE d == [At(r).data EXCEPT !.label = runsOn, !.tok = nextId, !.att = @ + 1]
  <2>1. d \in Data /\ runsOn \in Queue
    BY <1>4, <1>6 DEF Queue
  <2>2. Redispatches(r) = [IdleOp EXCEPT !.pc = "acquire", !.kind = "redispatch", !.d = d,
                                         !.id = nextId, !.want = runsOn, !.src = r]
    BY DEF Redispatches
  <2> HIDE DEF d, r
  <2> DEFINE x == [IdleOp EXCEPT !.pc = "acquire", !.kind = "redispatch", !.d = d]
             y == [x EXCEPT !.id = nextId]
  <2>3. x \in Operation
    BY <2>1, IdleTyped DEF Operation
  <2>4. Redispatches(r) = [y EXCEPT !.want = runsOn, !.src = r]
    BY <2>2
  <2> HIDE DEF x
  <2>5. y \in Operation
    BY <1>4, <2>3, IdTyped
  <2> HIDE DEF y
  <2> QED
    BY <1>4, <2>1, <2>4, <2>5, WantTyped
<1>8. OpBecomes(o, Redispatches(r))
  BY <1>2, <1>7, OpSetIs DEF Typed, TypeOK
<1> QED
  BY <1>1, <1>3, <1>4, <1>8

LEMMA StartReapDoes ==
    ASSUME Typed, NEW o \in Op, NEW n \in Warm, NEW i \in Id, StartReap(o, n, i)
    PROVE  LET r == <<n, i>> IN
           /\ op[o].pc = "idle" /\ r \in Ref /\ n \notin Beating /\ ~MovedOff(i, n)
           /\ Pending(At(r)) \/ (At(r).st = "active" /\ ~At(r).locked)
           /\ OpBecomes(o, Reaps(r))
           /\ UNCHANGED <<job, idx, moved, turnDone, senders, appendLock, redispatch, up, silent, runsOn, budget, nextId, watch, shown, hist>>
<1> DEFINE r == <<n, i>>
<1>0. n \in Queue /\ r \in Ref /\ At(r) = job[n][i]
  BY PairIs DEF Queue
<1>1. /\ op[o].pc = "idle" /\ n \notin Beating /\ ~MovedOff(i, n)
      /\ Pending(At(r)) \/ (At(r).st = "active" /\ ~At(r).locked)
      /\ UNCHANGED <<job, idx, moved, turnDone, senders, appendLock, redispatch, up, silent, runsOn, budget, nextId, watch, shown, hist>>
  BY <1>0 DEF StartReap, redis, world, view
<1>2. op' = [op EXCEPT ![o] = Reaps(r)]
  BY <1>0 DEF StartReap, Set, Reaps
<1>3. Reaps(r) \in Operation
  <2>1. At(r).data.label \in Queue
    BY <1>0, PlaceIs DEF Data, Queue
  <2>2. (At(r).st = "active") \in BOOLEAN
    OBVIOUS
  <2> DEFINE l == At(r).data.label
             b == At(r).st = "active"
  <2>3. Reaps(r) = [IdleOp EXCEPT !.pc = "acquire", !.kind = "reap", !.rescue = b, !.want = l, !.src = r]
    BY DEF Reaps
  <2>4. l \in Queue /\ b \in BOOLEAN
    BY <2>1
  <2> HIDE DEF l, b, r
  <2> QED
    <3> DEFINE x == [IdleOp EXCEPT !.pc = "acquire", !.kind = "reap", !.rescue = b]
    <3>1. x \in Operation
      BY <2>4, IdleTyped DEF Operation
    <3>2. Reaps(r) = [x EXCEPT !.want = l, !.src = r]
      BY <2>3
    <3>3. r \in Ref
      BY <1>0
    <3> DEFINE y == [x EXCEPT !.want = l, !.src = r]
    <3> HIDE DEF x
    <3>4. y \in Operation
      BY <2>4, <3>1, <3>3, WantTyped
    <3> QED
      BY <3>2, <3>4
<1>4. OpBecomes(o, Reaps(r))
  BY <1>2, <1>3, OpSetIs DEF Typed, TypeOK
<1> QED
  BY <1>0, <1>1, <1>4

LEMMA OpCrashDoes ==
    ASSUME Typed, NEW o \in Op, OpCrash(o)
    PROVE  /\ op[o].pc \notin {"idle", "acquire"} /\ op[o].by = NoNode /\ budget.crashes > 0
           /\ OpBecomes(o, IdleOp) /\ budget' = [budget EXCEPT !.crashes = @ - 1]
           /\ UNCHANGED <<job, idx, moved, turnDone, senders, appendLock, redispatch, up, silent, runsOn, nextId, watch, shown, hist>>
<1>1. /\ op[o].pc \notin {"idle", "acquire"} /\ op[o].by = NoNode /\ budget.crashes > 0
      /\ op' = [op EXCEPT ![o] = IdleOp] /\ budget' = [budget EXCEPT !.crashes = @ - 1]
      /\ UNCHANGED <<job, idx, moved, turnDone, senders, appendLock, redispatch, up, silent, runsOn, nextId, watch, shown, hist>>
  BY DEF OpCrash, Set, redis, view
<1>2. OpBecomes(o, IdleOp)
  BY <1>1, IdleTyped, OpSetIs DEF Typed, TypeOK
<1> QED
  BY <1>1, <1>2

LEMMA NodeCrashDoes ==
    ASSUME Typed, NEW n \in Node, NodeCrash(n)
    PROVE  /\ n \in Mortal /\ n \in up /\ up' = up \ {n}
           /\ op' \in [Op -> Operation]
           /\ \A o \in Op : op'[o] = IF op[o].by = n THEN IdleOp ELSE op[o]
           /\ UNCHANGED <<job, idx, moved, turnDone, senders, appendLock, redispatch, silent, runsOn, budget, nextId, watch, shown, hist>>
<1>1. /\ n \in Mortal /\ n \in up /\ up' = up \ {n}
      /\ op' = [o \in Op |-> IF op[o].by = n THEN IdleOp ELSE op[o]]
      /\ UNCHANGED <<job, idx, moved, turnDone, senders, appendLock, redispatch, silent, runsOn, budget, nextId, watch, shown, hist>>
  BY DEF NodeCrash, redis, view
<1>2. \A o \in Op : op[o] \in Operation /\ IdleOp \in Operation
  BY IdleTyped DEF Typed, TypeOK
<1> QED
  BY <1>1, <1>2

-----------------------------------------------------------------------------
(***************************************************************************)
(* Type correctness                                                        *)
(***************************************************************************)
\* The types of the variables other than op.
Rest ==
    /\ job \in [Queue -> [Id -> Job]] /\ idx \in Ref \cup {NoRef}
    /\ moved \in [Id -> Ref \cup {NoRef}] /\ turnDone \subseteq Id
    /\ senders \in [0..MaxId -> SUBSET Msg] /\ appendLock \in Op \cup {NoOp}
    /\ redispatch \subseteq Id
    /\ up \subseteq Node /\ silent \subseteq Node /\ runsOn \in Label
    /\ nextId \in 1..(MaxId + 1) /\ watch \in [Msg -> Ref \cup {NoRef}]
    /\ shown \in [Msg -> {"no", "done", "error"}]
    /\ hist \in History /\ budget \in Budget

LEMMA ShapesKept ==
    ASSUME Typed, NEW o \in Op, NEW n, OpBecomes(o, n), Shape(n), Rest'
    PROVE  Typed'
<1>1. Shapes'
  BY DEF Typed, Shapes, OpBecomes
<1>2. op' \in [Op -> Operation]
  BY DEF OpBecomes
<1> QED
  BY <1>1, <1>2 DEF Typed, TypeOK, Rest

\* The slot that moves keeps its shape; the others are as before.
LEMMA ShapeKept ==
    ASSUME Typed, NEW o \in Op, NEW l, NEW ref, NEW prev, NEW cp, NEW res,
           Becomes(o, l, ref, prev, cp, res), Shape(op'[o]), Rest'
    PROVE  Typed'
<1>1. Shapes'
  BY DEF Typed, Shapes, Becomes
<1>2. op' \in [Op -> Operation]
  BY DEF Becomes
<1> QED
  BY <1>1, <1>2 DEF Typed, TypeOK, Rest

LEMMA OpsKept == ASSUME Typed, op' = op, Rest' PROVE Typed'
<1>1. Shapes'
  BY DEF Typed, Shapes
<1> QED
  BY <1>1 DEF Typed, TypeOK, Rest

LEMMA RestIs == Typed => Rest
BY DEF Typed, TypeOK, Rest

LEMMA DataMsgs == ASSUME NEW d \in Data PROVE SeqSet(d.msgs) \subseteq Msg
<1>1. d.msgs \in Seq(Msg)
  BY DEF Data
<1> QED
  BY <1>1 DEF SeqSet

\* Where a job is to be added is a place.
LEMMA WantedIs ==
    ASSUME NEW p, Shape(p), p.pc \in {"index", "add"} \/ HasWant(p) \/ p.kind = "claimed"
    PROVE  Wanted(p) \in Ref
<1>1. HasWant(p) \/ p.kind = "claimed"
  BY DEF Shape, KindPc, HasWant, CopyPcs
<1>2. p.want \in Queue /\ p.id \in Id
  BY <1>1, RefIs DEF Shape, Moves, Queue, HasWant
<1> QED
  BY <1>2 DEF Wanted, Ref

LEMMA AcquireTyped == ASSUME Typed, NEW o \in Op, Acquire(o) PROVE Typed'
<1> DEFINE p == op[o]
           n == op'[o]
<1>0. p \in Operation /\ Shape(p) /\ p.d \in Data /\ p.prev \in Data
  BY AnOperation
<1>1. Rest'
  BY AcquireDoes, RestIs DEF Rest, JobBecomes
<1>2. Becomes(o, IF p.kind \in {"reap", "claimed"} THEN "check" ELSE "look", p.ref, p.prev, p.cp, p.res)
  BY AcquireDoes
<1>3. KindPc(n)
  BY <1>0, <1>2, AcquireDoes DEF Becomes, Shape, KindPc, HasWant, OpenPcs, CopyPcs
<1>4. Shape(n)
  BY <1>0, <1>2, <1>3, AcquireDoes DEF Becomes, Shape, KindPc, HasWant, Appending, Moves, OpenPcs, CopyPcs, Wanted
<1> QED
  BY <1>1, <1>2, <1>4, ShapeKept

LEMMA RecordSendersTyped == ASSUME Typed, NEW o \in Op, RecordSenders(o) PROVE Typed'
<1> DEFINE p == op[o]
           n == op'[o]
<1>0. p \in Operation /\ Shape(p) /\ p.d \in Data /\ p.prev \in Data
  BY AnOperation
<1>1. Rest'
  <2>1. SendersOf(p) \subseteq Msg
    BY <1>0, DataMsgs DEF SendersOf
  <2>2. p.d.tok \in 0..MaxId /\ p.prev.tok \in 0..MaxId
    BY <1>0 DEF Data
  <2> QED
    BY <2>1, <2>2, RecordSendersDoes, RestIs DEF Rest
<1>2. Becomes(o, IF Relocating(p) THEN "copy" ELSE "update", p.ref, p.prev, p.cp, p.res)
  BY RecordSendersDoes
<1>3. KindPc(n)
  BY <1>0, <1>2, RecordSendersDoes DEF Becomes, Shape, KindPc, HasWant, OpenPcs, CopyPcs, Relocating
<1>4. Shape(n)
  BY <1>0, <1>2, <1>3, RecordSendersDoes DEF Becomes, Shape, KindPc, HasWant, Appending, Moves, OpenPcs, CopyPcs, Wanted, Relocating
<1> QED
  BY <1>1, <1>2, <1>4, ShapeKept

LEMMA IndexTyped == ASSUME Typed, NEW o \in Op, Index(o) PROVE Typed'
<1> DEFINE p == op[o]
           n == op'[o]
<1>0. p \in Operation /\ Shape(p) /\ p.d \in Data /\ p.prev \in Data
  BY AnOperation
<1>1. Rest'
  <2>1. SeqSet(p.d.msgs) \subseteq Msg /\ p.d.tok \in 0..MaxId
    BY <1>0, DataMsgs DEF Data
  <2>2. Wanted(p) \in Ref
    BY <1>0, IndexDoes, WantedIs
  <2> QED
    BY <2>1, <2>2, IndexDoes, RestIs DEF Rest
<1>2. Becomes(o, "add", p.ref, p.prev, p.cp, p.res)
  BY IndexDoes
<1>3. KindPc(n)
  BY <1>0, <1>2, IndexDoes DEF Becomes, Shape, KindPc, HasWant, OpenPcs, CopyPcs
<1>4. Shape(n)
  BY <1>0, <1>2, <1>3, IndexDoes DEF Becomes, Shape, KindPc, HasWant, Appending, Moves, OpenPcs, CopyPcs, Wanted
<1> QED
  BY <1>1, <1>2, <1>4, ShapeKept

LEMMA MarkSourceTyped == ASSUME Typed, NEW o \in Op, MarkSource(o) PROVE Typed'
<1> DEFINE p == op[o]
           n == op'[o]
<1>0. p \in Operation /\ Shape(p) /\ p.d \in Data /\ p.prev \in Data
  BY AnOperation
<1>1. Rest'
  BY <1>0, MarkSourceDoes, PlacesAre, RefIs, RestIs DEF Rest, Operation
<1>2. Becomes(o, "release", p.ref, p.prev, p.cp, p.res)
  BY MarkSourceDoes
<1>3. KindPc(n)
  BY <1>0, <1>2, MarkSourceDoes DEF Becomes, Shape, KindPc, HasWant, OpenPcs, CopyPcs
<1>4. Shape(n)
  BY <1>0, <1>2, <1>3, MarkSourceDoes DEF Becomes, Shape, KindPc, HasWant, Appending, Moves, OpenPcs, CopyPcs, Wanted
<1> QED
  BY <1>1, <1>2, <1>4, ShapeKept

LEMMA CheckClaimedTyped == ASSUME Typed, NEW o \in Op, CheckClaimed(o) PROVE Typed'
<1> DEFINE p == op[o]
           n == op'[o]
<1>0. p \in Operation /\ Shape(p) /\ p.d \in Data /\ p.prev \in Data
  BY AnOperation
<1>1. Rest'
  BY CheckClaimedDoes, RestIs DEF Rest, JobBecomes
<1>2. Becomes(o, IF idx # NoRef /\ idx # p.src THEN "look" ELSE "index", p.ref, p.prev, p.cp, p.res)
  BY CheckClaimedDoes
<1>3. KindPc(n)
  BY <1>0, <1>2, CheckClaimedDoes DEF Becomes, Shape, KindPc, HasWant, OpenPcs, CopyPcs
<1>4. Shape(n)
  BY <1>0, <1>2, <1>3, CheckClaimedDoes DEF Becomes, Shape, KindPc, HasWant, Appending, Moves, OpenPcs, CopyPcs, Wanted
<1> QED
  BY <1>1, <1>2, <1>4, ShapeKept

LEMMA MarkCopyTyped == ASSUME Typed, NEW o \in Op, MarkCopy(o) PROVE Typed'
<1> DEFINE p == op[o]
           n == op'[o]
<1>0. p \in Operation /\ Shape(p) /\ p.d \in Data /\ p.prev \in Data
  BY AnOperation
<1>1. Rest'
  <2>1. p.cp \in Ref /\ Original(p)[2] \in Id
    BY MarkCopyDoes, PlacesAre, RefIs DEF CopyPcs
  <2> QED
    BY <2>1, MarkCopyDoes, RestIs DEF Rest
<1>2. Becomes(o, "take", p.ref, p.prev, p.cp, p.res)
  BY MarkCopyDoes
<1>3. KindPc(n)
  BY <1>0, <1>2, MarkCopyDoes DEF Becomes, Shape, KindPc, HasWant, OpenPcs, CopyPcs
<1>4. Shape(n)
  BY <1>0, <1>2, <1>3, MarkCopyDoes DEF Becomes, Shape, KindPc, HasWant, Appending, Moves, OpenPcs, CopyPcs, Wanted
<1> QED
  BY <1>1, <1>2, <1>4, ShapeKept

LEMMA MarkHoldTyped == ASSUME Typed, NEW o \in Op, MarkHold(o) PROVE Typed'
<1> DEFINE p == op[o]
           n == op'[o]
<1>0. p \in Operation /\ Shape(p) /\ p.d \in Data /\ p.prev \in Data
  BY AnOperation
<1>1. Rest'
  <2>1. p.cp \in Ref /\ p.cp[2] \in Id /\ p.res \in Ref \cup {NoRef}
    BY <1>0, MarkHoldDoes, PlacesAre, RefIs DEF Operation
  <2> QED
    BY <2>1, MarkHoldDoes, RestIs DEF Rest
<1>2. Becomes(o, "marksrc", p.ref, p.prev, p.cp, p.res)
  BY MarkHoldDoes
<1>3. KindPc(n)
  BY <1>0, <1>2, MarkHoldDoes DEF Becomes, Shape, KindPc, HasWant, OpenPcs, CopyPcs
<1>4. Shape(n)
  BY <1>0, <1>2, <1>3, MarkHoldDoes DEF Becomes, Shape, KindPc, HasWant, Appending, Moves, OpenPcs, CopyPcs, Wanted
<1> QED
  BY <1>1, <1>2, <1>4, ShapeKept

LEMMA ReindexTyped == ASSUME Typed, NEW o \in Op, Reindex(o) PROVE Typed'
<1> DEFINE p == op[o]
           n == op'[o]
<1>0. p \in Operation /\ Shape(p) /\ p.d \in Data /\ p.prev \in Data
  BY AnOperation
<1>1. Rest'
  <2>1. p.cp \in Ref
    BY ReindexDoes, PlacesAre
  <2> QED
    BY <2>1, ReindexDoes, RestIs DEF Rest
<1>2. Becomes(o, "release", p.ref, p.prev, p.cp, p.cp)
  BY ReindexDoes
<1>3. KindPc(n)
  BY <1>0, <1>2, ReindexDoes DEF Becomes, Shape, KindPc, HasWant, OpenPcs, CopyPcs
<1>4. Shape(n)
  BY <1>0, <1>2, <1>3, ReindexDoes DEF Becomes, Shape, KindPc, HasWant, Appending, Moves, OpenPcs, CopyPcs, Wanted
<1> QED
  BY <1>1, <1>2, <1>4, ShapeKept

LEMMA MarkFailedTyped == ASSUME Typed, NEW o \in Op, MarkFailed(o) PROVE Typed'
<1> DEFINE p == op[o]
<1>0. p \in Operation /\ Shape(p)
  BY AnOperation
<1>1. p.src \in Ref
  BY <1>0, MarkFailedDoes DEF Shape, KindPc, Moves, OpenPcs, CopyPcs
<1>2. p.src[2] \in Id /\ p.res \in Ref \cup {NoRef}
  BY <1>0, <1>1, RefIs DEF Operation
<1>3. Rest'
  BY <1>2, MarkFailedDoes, RestIs DEF Rest
<1> QED
  BY <1>3, MarkFailedDoes, IdleTyped, ShapesKept

LEMMA LookTyped == ASSUME Typed, NEW o \in Op, Look(o) PROVE Typed'
<1> DEFINE p == op[o]
           n == op'[o]
<1>0. p \in Operation /\ Shape(p) /\ p.d \in Data /\ p.prev \in Data
  BY AnOperation
<1>a. AppendableAt(idx) => idx \in Ref
  BY DEF AppendableAt, Typed, TypeOK
<1>1. Rest'
  BY LookDoes, RestIs DEF Rest, JobBecomes
<1>2. CASE ~AppendableAt(idx) /\ Becomes(o, NotAppended(p), p.ref, p.prev, p.cp, p.res)
  <2>1. KindPc(n)
    BY <1>0, <1>2, LookDoes DEF Becomes, Shape, KindPc, HasWant, OpenPcs, CopyPcs, NotAppended, AppendedThen, MustRelocate
  <2>2. Shape(n)
    BY <1>0, <1>2, <2>1, LookDoes, <1>a DEF Becomes, Shape, KindPc, HasWant, Appending, Moves, OpenPcs, CopyPcs, Wanted, NotAppended, AppendedThen, MustRelocate
  <2> QED
    BY <1>1, <1>2, <2>2, ShapeKept
<1>3. CASE AppendableAt(idx) /\ MustRelocate(p, At(idx).data) /\ Becomes(o, "senders", idx, At(idx).data, Wanted(p), p.res)
  <2>1. KindPc(n)
    BY <1>0, <1>3, LookDoes DEF Becomes, Shape, KindPc, HasWant, OpenPcs, CopyPcs, NotAppended, AppendedThen, MustRelocate
  <2>2. Shape(n)
    BY <1>0, <1>3, <2>1, LookDoes, <1>a DEF Becomes, Shape, KindPc, HasWant, Appending, Moves, OpenPcs, CopyPcs, Wanted, NotAppended, AppendedThen, MustRelocate
  <2> QED
    BY <1>1, <1>3, <2>2, ShapeKept
<1>4. CASE AppendableAt(idx) /\ Becomes(o, AppendedThen(p), p.ref, p.prev, p.cp, idx)
  <2>1. KindPc(n)
    BY <1>0, <1>4, LookDoes DEF Becomes, Shape, KindPc, HasWant, OpenPcs, CopyPcs, NotAppended, AppendedThen, MustRelocate
  <2>2. Shape(n)
    BY <1>0, <1>4, <2>1, LookDoes, <1>a DEF Becomes, Shape, KindPc, HasWant, Appending, Moves, OpenPcs, CopyPcs, Wanted, NotAppended, AppendedThen, MustRelocate
  <2> QED
    BY <1>1, <1>4, <2>2, ShapeKept
<1>5. CASE AppendableAt(idx) /\ Becomes(o, "senders", idx, At(idx).data, p.cp, p.res)
  <2>1. KindPc(n)
    BY <1>0, <1>5, LookDoes DEF Becomes, Shape, KindPc, HasWant, OpenPcs, CopyPcs, NotAppended, AppendedThen, MustRelocate
  <2>2. Shape(n)
    BY <1>0, <1>5, <2>1, LookDoes, <1>a DEF Becomes, Shape, KindPc, HasWant, Appending, Moves, OpenPcs, CopyPcs, Wanted, NotAppended, AppendedThen, MustRelocate
  <2> QED
    BY <1>1, <1>5, <2>2, ShapeKept
<1> QED
  BY <1>2, <1>3, <1>4, <1>5, LookDoes

LEMMA UpdateDataTyped == ASSUME Typed, NEW o \in Op, UpdateData(o) PROVE Typed'
<1> DEFINE p == op[o]
           n == op'[o]
<1>0. p \in Operation /\ Shape(p) /\ p.d \in Data /\ p.prev \in Data
  BY AnOperation
<1>1. Rest'
  BY UpdateDataDoes, RestIs DEF Rest, JobBecomes
<1>2. CASE Becomes(o, "release", p.ref, p.prev, p.cp, NoRef)
  <2>1. KindPc(n)
    BY <1>0, <1>2, UpdateDataDoes DEF Becomes, Shape, KindPc, HasWant, OpenPcs, CopyPcs
  <2>2. Shape(n)
    BY <1>0, <1>2, <2>1, UpdateDataDoes DEF Becomes, Shape, KindPc, HasWant, Appending, Moves, OpenPcs, CopyPcs, Wanted
  <2> QED
    BY <1>1, <1>2, <2>2, ShapeKept
<1>3. CASE Becomes(o, "recheck", p.ref, p.prev, p.cp, p.res)
  <2>1. KindPc(n)
    BY <1>0, <1>3, UpdateDataDoes DEF Becomes, Shape, KindPc, HasWant, OpenPcs, CopyPcs
  <2>2. Shape(n)
    BY <1>0, <1>3, <2>1, UpdateDataDoes DEF Becomes, Shape, KindPc, HasWant, Appending, Moves, OpenPcs, CopyPcs, Wanted
  <2> QED
    BY <1>1, <1>3, <2>2, ShapeKept
<1> QED
  BY <1>2, <1>3, UpdateDataDoes

LEMMA RecheckTyped == ASSUME Typed, NEW o \in Op, Recheck(o) PROVE Typed'
<1> DEFINE p == op[o]
           n == op'[o]
<1>0. p \in Operation /\ Shape(p) /\ p.d \in Data /\ p.prev \in Data
  BY AnOperation
<1>1. Rest'
  <2>1. hist' \in History
    BY <1>0, RecheckDoes, RestIs, DataMsgs DEF Rest, History
  <2> QED
    BY <2>1, RecheckDoes, RestIs DEF Rest
<1>2. CASE AppendableAt(p.ref) /\ Becomes(o, AppendedThen(p), p.ref, p.prev, p.cp, p.ref)
  <2>1. KindPc(n)
    BY <1>0, <1>2, RecheckDoes DEF Becomes, Shape, KindPc, HasWant, OpenPcs, CopyPcs, NotAppended, AppendedThen
  <2>2. Shape(n)
    BY <1>0, <1>2, <2>1, RecheckDoes DEF Becomes, Shape, KindPc, HasWant, Appending, Moves, OpenPcs, CopyPcs, Wanted, NotAppended, AppendedThen
  <2> QED
    BY <1>1, <1>2, <2>2, ShapeKept
<1>3. CASE ~AppendableAt(p.ref) /\ Becomes(o, NotAppended(p), p.ref, p.prev, p.cp, p.res)
  <2>1. KindPc(n)
    BY <1>0, <1>3, RecheckDoes DEF Becomes, Shape, KindPc, HasWant, OpenPcs, CopyPcs, NotAppended, AppendedThen
  <2>2. Shape(n)
    BY <1>0, <1>3, <2>1, RecheckDoes DEF Becomes, Shape, KindPc, HasWant, Appending, Moves, OpenPcs, CopyPcs, Wanted, NotAppended, AppendedThen
  <2> QED
    BY <1>1, <1>3, <2>2, ShapeKept
<1> QED
  BY <1>2, <1>3, RecheckDoes

LEMMA AddTyped == ASSUME Typed, NEW o \in Op, Add(o) PROVE Typed'
<1> DEFINE p == op[o]
           n == op'[o]
<1>0. p \in Operation /\ Shape(p) /\ p.d \in Data /\ p.prev \in Data
  BY AnOperation
<1>1. Rest'
  BY AddDoes, RestIs DEF Rest, JobBecomes
<1>2. Becomes(o, IF p.kind = "claimed" THEN "marksrc" ELSE "release", p.ref, p.prev, p.cp, Wanted(p))
  BY AddDoes
<1>3. KindPc(n)
  BY <1>0, <1>2, AddDoes DEF Becomes, Shape, KindPc, HasWant, OpenPcs, CopyPcs
<1>4. Shape(n)
  BY <1>0, <1>2, <1>3, AddDoes DEF Becomes, Shape, KindPc, HasWant, Appending, Moves, OpenPcs, CopyPcs, Wanted
<1> QED
  BY <1>1, <1>2, <1>4, ShapeKept

LEMMA CheckMovedTyped == ASSUME Typed, NEW o \in Op, CheckMoved(o) PROVE Typed'
<1> DEFINE p == op[o]
           n == op'[o]
<1>0. p \in Operation /\ Shape(p) /\ p.d \in Data /\ p.prev \in Data
  BY AnOperation
<1>1. Rest'
  <2>1. /\ p.src[2] \in Id /\ <<p.want, p.src[2]>> \in Ref
    BY CheckMovedDoes, PlacesAre, RefIs
  <2>2. moved' \in [Id -> Ref \cup {NoRef}]
    BY <2>1, CheckMovedDoes, RestIs DEF Rest
  <2> QED
    BY <2>2, CheckMovedDoes, RestIs DEF Rest
<1>2. CASE Becomes(o, "release", p.ref, p.prev, p.cp, moved[p.src[2]])
  <2>1. KindPc(n)
    BY <1>0, <1>2, CheckMovedDoes DEF Becomes, Shape, KindPc, HasWant, OpenPcs, CopyPcs
  <2>2. Shape(n)
    BY <1>0, <1>2, <2>1, CheckMovedDoes DEF Becomes, Shape, KindPc, HasWant, Appending, Moves, OpenPcs, CopyPcs, Wanted
  <2> QED
    BY <1>1, <1>2, <2>2, ShapeKept
<1>3. CASE Becomes(o, "release", p.ref, p.prev, p.cp, <<p.want, p.src[2]>>)
  <2>1. KindPc(n)
    BY <1>0, <1>3, CheckMovedDoes DEF Becomes, Shape, KindPc, HasWant, OpenPcs, CopyPcs
  <2>2. Shape(n)
    BY <1>0, <1>3, <2>1, CheckMovedDoes DEF Becomes, Shape, KindPc, HasWant, Appending, Moves, OpenPcs, CopyPcs, Wanted
  <2> QED
    BY <1>1, <1>3, <2>2, ShapeKept
<1>4. CASE Becomes(o, "release", p.ref, p.prev, p.cp, p.src)
  <2>1. KindPc(n)
    BY <1>0, <1>4, CheckMovedDoes DEF Becomes, Shape, KindPc, HasWant, OpenPcs, CopyPcs
  <2>2. Shape(n)
    BY <1>0, <1>4, <2>1, CheckMovedDoes DEF Becomes, Shape, KindPc, HasWant, Appending, Moves, OpenPcs, CopyPcs, Wanted
  <2> QED
    BY <1>1, <1>4, <2>2, ShapeKept
<1> QED
  BY <1>2, <1>3, <1>4, CheckMovedDoes

LEMMA ReleaseTyped == ASSUME Typed, NEW o \in Op, Release(o) PROVE Typed'
<1> DEFINE p == op[o]
<1>0. p \in Operation /\ Shape(p) /\ p.d \in Data
  BY AnOperation
<1>1. p.kind = "enqueue" => p.d.msgs[1] \in Msg
  <2>1. p.d.msgs \in Seq(Msg)
    BY <1>0 DEF Data
  <2>2. p.kind = "enqueue" => p.d.msgs # << >>
    BY <1>0 DEF Shape
  <2> QED
    BY <2>1, <2>2
<1>2. watch' \in [Msg -> Ref \cup {NoRef}]
  BY <1>0, <1>1, ReleaseDoes, RestIs, ZenonT(60) DEF Rest, Operation
<1>3. shown' \in [Msg -> {"no", "done", "error"}]
  BY ReleaseDoes, RestIs DEF Rest
<1>4. job' \in [Queue -> [Id -> Job]]
  BY ReleaseDoes, RestIs DEF Rest, JobBecomes
<1>5. appendLock' \in Op \cup {NoOp}
  BY ReleaseDoes, RestIs DEF Rest
<1>6. Rest'
  BY <1>2, <1>3, <1>4, <1>5, ReleaseDoes, RestIs DEF Rest
<1>7. CASE OpBecomes(o, IdleOp)
  BY <1>6, <1>7, IdleTyped, ShapesKept
<1>8. CASE p.kind = "redispatch" /\ Becomes(o, "markfailed", p.ref, p.prev, p.cp, p.res)
  <2>1. Shape(op'[o])
    BY <1>0, <1>8, ReleaseDoes DEF Becomes, Shape, KindPc, HasWant, Appending, Moves, OpenPcs, CopyPcs, Wanted
  <2> QED
    BY <1>6, <1>8, <2>1, ShapeKept
<1> QED
  BY <1>7, <1>8, ReleaseDoes

LEMMA CheckMergeTyped == ASSUME Typed, NEW o \in Op, CheckMerge(o) PROVE Typed'
<1> DEFINE p == op[o]
           n == [p EXCEPT !.pc = "copy", !.kind = "merge", !.id = nextId, !.d = At(p.src).data, !.cp = <<idx[1], nextId>>]
<1>0. p \in Operation /\ Shape(p)
  BY AnOperation
<1>1. Rest'
  <2>1. nextId' \in 1..(MaxId + 1)
    <3>1. nextId \in Id /\ nextId' = nextId + 1
      BY CheckMergeDoes
    <3> QED
      BY <3>1, TurnQueueAssumption DEF Id
  <2>2. hist' \in History
    <3> DEFINE x == hist.brief \cup {<<idx[1], nextId>>}
    <3>1. hist \in History /\ x \in SUBSET Ref /\ hist' = [hist EXCEPT !.brief = x]
      BY CheckMergeDoes, RestIs DEF Rest, History
    <3> HIDE DEF x
    <3> QED
      BY <3>1 DEF History
  <2> QED
    BY <2>1, <2>2, CheckMergeDoes, RestIs DEF Rest
<1>2. p.pc = "check" /\ p.kind = "reap" /\ OpBecomes(o, n)
  BY CheckMergeDoes
<1>3. /\ n.pc = "copy" /\ n.kind = "merge" /\ n.by = p.by /\ n.d = At(p.src).data /\ n.id = nextId /\ n.want = p.want /\ n.src = p.src /\ n.ref = p.ref /\ n.rescue = p.rescue /\ n.prev = p.prev /\ n.cp = <<idx[1], nextId>> /\ n.res = p.res
  BY <1>0 DEF Operation
<1>4. p.src \in Ref /\ <<p.want, p.src[2]>> \in Ref
  BY <1>2, PlacesAre
<1>b. nextId \in Id /\ <<idx[1], nextId>> \in Ref /\ <<idx[1], nextId>>[2] = nextId
  BY CheckMergeDoes
<1>5. Shape(n)
  <2> HIDE DEF n
  <2>1. KindPc(n)
    BY <1>3 DEF Shape, KindPc, HasWant, OpenPcs, CopyPcs
  <2> QED
    BY <1>0, <1>2, <1>3, <1>4, <2>1, <1>b DEF Shape, KindPc, HasWant, Appending, Moves, OpenPcs, CopyPcs, Wanted
<1> QED
  BY <1>1, <1>2, <1>5, ShapesKept

LEMMA CheckSwapTyped == ASSUME Typed, NEW o \in Op, CheckSwap(o) PROVE Typed'
<1> DEFINE p == op[o]
           n == [p EXCEPT !.pc = "copy", !.kind = "swap", !.id = p.src[2], !.d = At(p.src).data, !.cp = <<p.want, p.src[2]>>]
<1>0. p \in Operation /\ Shape(p)
  BY AnOperation
<1>1. Rest'
  BY CheckSwapDoes, RestIs DEF Rest
<1>2. p.pc = "check" /\ p.kind = "reap" /\ OpBecomes(o, n)
  BY CheckSwapDoes
<1>3. /\ n.pc = "copy" /\ n.kind = "swap" /\ n.by = p.by /\ n.d = At(p.src).data /\ n.id = p.src[2] /\ n.want = p.want /\ n.src = p.src /\ n.ref = p.ref /\ n.rescue = p.rescue /\ n.prev = p.prev /\ n.cp = <<p.want, p.src[2]>> /\ n.res = p.res
  BY <1>0 DEF Operation
<1>4. p.src \in Ref /\ <<p.want, p.src[2]>> \in Ref
  BY <1>2, PlacesAre
<1>5. Shape(n)
  <2> HIDE DEF n
  <2>1. KindPc(n)
    BY <1>3 DEF Shape, KindPc, HasWant, OpenPcs, CopyPcs
  <2> QED
    BY <1>0, <1>2, <1>3, <1>4, <2>1 DEF Shape, KindPc, HasWant, Appending, Moves, OpenPcs, CopyPcs, Wanted
<1> QED
  BY <1>1, <1>2, <1>5, ShapesKept

LEMMA AddCopyTyped == ASSUME Typed, NEW o \in Op, AddCopy(o) PROVE Typed'
<1> DEFINE p == op[o]
           n == op'[o]
<1>0. p \in Operation /\ Shape(p) /\ p.d \in Data /\ p.prev \in Data
  BY AnOperation
<1>1. Rest'
  BY AddCopyDoes, RestIs DEF Rest, JobBecomes
<1>2. Becomes(o, "markcopy", p.ref, p.prev, p.cp, p.res)
  BY AddCopyDoes
<1>3. KindPc(n)
  BY <1>0, <1>2, AddCopyDoes DEF Becomes, Shape, KindPc, HasWant, OpenPcs, CopyPcs
<1>4. Shape(n)
  BY <1>0, <1>2, <1>3, AddCopyDoes DEF Becomes, Shape, KindPc, HasWant, Appending, Moves, OpenPcs, CopyPcs, Wanted
<1> QED
  BY <1>1, <1>2, <1>4, ShapeKept

LEMMA TakeTyped == ASSUME Typed, NEW o \in Op, Take(o) PROVE Typed'
<1> DEFINE p == op[o]
           n == op'[o]
<1>0. p \in Operation /\ Shape(p) /\ p.d \in Data /\ p.prev \in Data
  BY AnOperation
<1>1. Rest'
  BY TakeDoes, RestIs DEF Rest, JobBecomes
<1>2. Becomes(o, IF ~Takeable(p, At(Original(p))) \/ Original(p)[2] \in turnDone THEN "drop"
                ELSE IF p.kind = "merge" THEN "look" ELSE "promote",
             p.ref, p.prev, p.cp, p.res)
  BY TakeDoes
<1>3. KindPc(n)
  BY <1>0, <1>2, TakeDoes DEF Becomes, Shape, KindPc, HasWant, OpenPcs, CopyPcs
<1>4. Shape(n)
  BY <1>0, <1>2, <1>3, TakeDoes DEF Becomes, Shape, KindPc, HasWant, Appending, Moves, OpenPcs, CopyPcs, Wanted
<1> QED
  BY <1>1, <1>2, <1>4, ShapeKept

LEMMA DropCopyTyped == ASSUME Typed, NEW o \in Op, DropCopy(o) PROVE Typed'
<1> DEFINE p == op[o]
           n == op'[o]
<1>0. p \in Operation /\ Shape(p) /\ p.d \in Data /\ p.prev \in Data
  BY AnOperation
<1>1. Rest'
  <2>1. hist' \in History
    <3> DEFINE x == hist.brief \cup {p.cp}
               y == hist.misled \cup {m \in Msg : watch[m] = p.cp}
    <3>1. /\ hist \in History /\ x \in SUBSET Ref /\ y \in SUBSET Msg
          /\ hist' = [hist EXCEPT !.brief = x, !.misled = y]
      BY DropCopyDoes, RestIs DEF Rest, History
    <3> HIDE DEF x, y
    <3> QED
      BY <3>1 DEF History
  <2> QED
    BY <2>1, DropCopyDoes, RestIs DEF Rest, JobBecomes
<1>2. Becomes(o, "unmark", p.ref, p.prev, p.cp, p.res)
  BY DropCopyDoes
<1>3. KindPc(n)
  BY <1>0, <1>2, DropCopyDoes DEF Becomes, Shape, KindPc, HasWant, OpenPcs, CopyPcs
<1>4. Shape(n)
  BY <1>0, <1>2, <1>3, DropCopyDoes, ZenonT(60) DEF Becomes, Shape, KindPc, HasWant, Appending, Moves, OpenPcs, CopyPcs, Wanted
<1> QED
  BY <1>1, <1>2, <1>4, ShapeKept

LEMMA UnmarkTyped == ASSUME Typed, NEW o \in Op, Unmark(o) PROVE Typed'
<1> DEFINE p == op[o]
           n == op'[o]
<1>0. p \in Operation /\ Shape(p) /\ p.d \in Data /\ p.prev \in Data
  BY AnOperation
<1>1. Rest'
  <2>1. hist' \in History
    BY UnmarkDoes, RestIs DEF Rest, History
  <2>2. Original(p)[2] \in Id
    BY UnmarkDoes, RefIs
  <2> QED
    BY <2>1, <2>2, UnmarkDoes, RestIs DEF Rest
<1>2. CASE HasWant(p) /\ Becomes(o, "index", p.ref, p.prev, NoRef, NoRef)
  <2>1. KindPc(n)
    BY <1>0, <1>2, UnmarkDoes DEF Becomes, Shape, KindPc, HasWant, OpenPcs, CopyPcs
  <2>2. Shape(n)
    BY <1>0, <1>2, <2>1, UnmarkDoes DEF Becomes, Shape, KindPc, HasWant, Appending, Moves, OpenPcs, CopyPcs, Wanted
  <2> QED
    BY <1>1, <1>2, <2>2, ShapeKept
<1>3. CASE ~HasWant(p) /\ Becomes(o, "release", p.ref, p.prev, NoRef, p.src)
  <2>1. KindPc(n)
    BY <1>0, <1>3, UnmarkDoes DEF Becomes, Shape, KindPc, HasWant, OpenPcs, CopyPcs
  <2>2. Shape(n)
    BY <1>0, <1>3, <2>1, UnmarkDoes DEF Becomes, Shape, KindPc, HasWant, Appending, Moves, OpenPcs, CopyPcs, Wanted
  <2> QED
    BY <1>1, <1>3, <2>2, ShapeKept
<1> QED
  BY <1>2, <1>3, UnmarkDoes

LEMMA PromoteTyped == ASSUME Typed, NEW o \in Op, Promote(o) PROVE Typed'
<1> DEFINE p == op[o]
           n == op'[o]
<1>0. p \in Operation /\ Shape(p) /\ p.d \in Data /\ p.prev \in Data
  BY AnOperation
<1>1. Rest'
  BY PromoteDoes, RestIs DEF Rest, JobBecomes
<1>2. Becomes(o, "reindex", p.ref, p.prev, p.cp, p.res)
  BY PromoteDoes
<1>3. KindPc(n)
  BY <1>0, <1>2, PromoteDoes DEF Becomes, Shape, KindPc, HasWant, OpenPcs, CopyPcs
<1>4. Shape(n)
  BY <1>0, <1>2, <1>3, PromoteDoes DEF Becomes, Shape, KindPc, HasWant, Appending, Moves, OpenPcs, CopyPcs, Wanted
<1> QED
  BY <1>1, <1>2, <1>4, ShapeKept

LEMMA TakeHoldTyped == ASSUME Typed, NEW o \in Op, TakeHold(o) PROVE Typed'
<1> DEFINE p == op[o]
           n == op'[o]
<1>0. p \in Operation /\ Shape(p) /\ p.d \in Data /\ p.prev \in Data
  BY AnOperation
<1>1. Rest'
  BY TakeHoldDoes, RestIs DEF Rest, JobBecomes
<1>2. Becomes(o, "markhold", p.ref, p.prev, p.cp, p.res)
  BY TakeHoldDoes
<1>3. KindPc(n)
  BY <1>0, <1>2, TakeHoldDoes DEF Becomes, Shape, KindPc, HasWant, OpenPcs, CopyPcs
<1>4. Shape(n)
  BY <1>0, <1>2, <1>3, TakeHoldDoes DEF Becomes, Shape, KindPc, HasWant, Appending, Moves, OpenPcs, CopyPcs, Wanted
<1> QED
  BY <1>1, <1>2, <1>4, ShapeKept

LEMMA StartEnqueueTyped == ASSUME Typed, NEW o \in Op, NEW m \in Msg, NEW q \in Queue, StartEnqueue(o, m, q) PROVE Typed'
<1> DEFINE n == Enqueues(m, q)
<1>1. Rest'
  <2>1. nextId' \in 1..(MaxId + 1)
    BY StartEnqueueDoes, TurnQueueAssumption DEF Id
  <2>2. hist' \in History
    <3> DEFINE x == hist.sent \cup {m}
    <3>1. hist \in History /\ x \in SUBSET Msg /\ hist' = [hist EXCEPT !.sent = x]
      BY StartEnqueueDoes, RestIs DEF Rest, History
    <3> HIDE DEF x
    <3> QED
      BY <3>1 DEF History
  <2> QED
    BY <2>1, <2>2, StartEnqueueDoes, RestIs DEF Rest
<1>2. n.pc = "acquire" /\ n.kind = "enqueue" /\ n.by = NoNode /\ n.d.msgs = <<m>> /\ n.id = nextId
      /\ n.want = q /\ n.cp = NoRef
  BY DEF Enqueues, IdleOp
<1>3. Shape(n)
  <2> HIDE DEF n
  <2>1. <<m>> # << >> /\ nextId \in Id
    BY StartEnqueueDoes
  <2> QED
    BY <1>2, <2>1 DEF Shape, KindPc, HasWant, Appending, Moves, OpenPcs, CopyPcs, Wanted
<1> QED
  BY <1>1, <1>3, StartEnqueueDoes, ShapesKept

LEMMA StartRedispatchTyped == ASSUME Typed, NEW o \in Op, NEW m \in Msg, StartRedispatch(o, m) PROVE Typed'
<1> DEFINE r == watch[m]
           n == Redispatches(r)
<1>0. r \in Ref /\ r[2] \in Id /\ At(r).data \in Data /\ nextId \in Id
  BY StartRedispatchDoes, RefIs, PlaceIs
<1>1. Rest'
  <2>1. nextId' \in 1..(MaxId + 1)
    BY StartRedispatchDoes, TurnQueueAssumption DEF Id
  <2>2. hist' \in History
    <3> DEFINE x == [k \in Msg |-> IF k \in SeqSet(At(r).data.msgs) THEN hist.again[k] \cup {r[2]} ELSE hist.again[k]]
    <3>1. hist \in History /\ x \in [Msg -> SUBSET Id] /\ hist' = [hist EXCEPT !.again = x]
      BY <1>0, StartRedispatchDoes, RestIs DEF Rest, History
    <3> HIDE DEF x
    <3> QED
      BY <3>1 DEF History
  <2> QED
    BY <1>0, <2>1, <2>2, StartRedispatchDoes, RestIs DEF Rest
<1>2. n.pc = "acquire" /\ n.kind = "redispatch" /\ n.by = NoNode /\ n.id = nextId
      /\ n.want = runsOn /\ n.cp = NoRef /\ n.src = r
  BY DEF Redispatches, IdleOp
<1>3. runsOn \in Queue
  BY RestIs DEF Rest, Queue
<1>4. Shape(n)
  <2> HIDE DEF n, r
  <2> QED
    BY <1>0, <1>2, <1>3 DEF Shape, KindPc, HasWant, Appending, Moves, OpenPcs, CopyPcs, Wanted
<1> QED
  BY <1>1, <1>4, StartRedispatchDoes, ShapesKept

LEMMA StartReapTyped == ASSUME Typed, NEW o \in Op, NEW k \in Warm, NEW i \in Id, StartReap(o, k, i) PROVE Typed'
<1> DEFINE r == <<k, i>>
           n == Reaps(r)
<1>0. r \in Ref /\ At(r).data.label \in Label /\ r[1] = k
  BY StartReapDoes, PlaceIs DEF Data
<1>1. Rest'
  BY StartReapDoes, RestIs DEF Rest
<1>2. n.pc = "acquire" /\ n.kind = "reap" /\ n.by = NoNode
      /\ n.want = At(r).data.label /\ n.cp = NoRef /\ n.src = r
  BY DEF Reaps, IdleOp
<1>3. Shape(n)
  <2> HIDE DEF n, r
  <2> QED
    BY <1>0, <1>2 DEF Shape, KindPc, HasWant, Appending, Moves, OpenPcs, CopyPcs, Wanted
<1> QED
  BY <1>1, <1>3, StartReapDoes, ShapesKept

LEMMA StartClaimedMoveTyped == ASSUME Typed, NEW o \in Op, NEW q \in Queue, NEW i \in Id, StartClaimedMove(o, q, i) PROVE Typed'
<1> DEFINE r == <<q, i>>
           n == MovesClaimed(r)
<1>0. r \in Ref /\ At(r).snap \in Data /\ r[1] = q /\ r[2] = i /\ q # At(r).snap.label
      /\ At(r).by \in up
  BY StartClaimedMoveDoes, PlaceIs
<1>a. At(r).snap.label \in Label /\ At(r).by \in Node /\ NoNode \notin Node
  BY <1>0, RestIs, TurnQueueAssumption DEF Rest, Data
<1>1. Rest'
  BY StartClaimedMoveDoes, RestIs DEF Rest, JobBecomes
<1>2. n.pc = "acquire" /\ n.kind = "claimed" /\ n.by = At(r).by /\ n.d = At(r).snap
      /\ n.id = r[2] /\ n.want = At(r).snap.label /\ n.cp = NoRef /\ n.src = r
  BY DEF MovesClaimed, IdleOp
<1>3. Shape(n)
  <2> HIDE DEF n, r
  <2> QED
    BY <1>0, <1>a, <1>2 DEF Shape, KindPc, HasWant, Appending, Moves, OpenPcs, CopyPcs, Wanted
<1> QED
  BY <1>1, <1>3, StartClaimedMoveDoes, ShapesKept

LEMMA ClaimTyped == ASSUME Typed, NEW n \in Node, NEW q \in Queue, NEW i \in Id, Claim(n, q, i) PROVE Typed'
<1>1. Rest'
  BY ClaimDoes, RestIs DEF Rest, JobBecomes
<1> QED
  BY <1>1, ClaimDoes, OpsKept

LEMMA RequeueTyped == ASSUME Typed, NEW q \in Queue, NEW i \in Id, Requeue(q, i) PROVE Typed'
<1>1. Rest'
  BY RequeueDoes, RestIs DEF Rest, JobBecomes
<1> QED
  BY <1>1, RequeueDoes, OpsKept

LEMMA FailAtClaimTyped == ASSUME Typed, NEW q \in Queue, NEW i \in Id, FailAtClaim(q, i) PROVE Typed'
<1>1. Rest'
  BY FailAtClaimDoes, RestIs DEF Rest, JobBecomes
<1> QED
  BY <1>1, FailAtClaimDoes, OpsKept

LEMMA FailDeniedTyped == ASSUME Typed, NEW q \in Queue, NEW i \in Id, FailDenied(q, i) PROVE Typed'
<1>1. Rest'
  BY FailDeniedDoes, RestIs DEF Rest, JobBecomes
<1> QED
  BY <1>1, FailDeniedDoes, OpsKept

LEMMA CompleteMovedTyped == ASSUME Typed, NEW q \in Queue, NEW i \in Id, CompleteMoved(q, i) PROVE Typed'
<1>1. Rest'
  BY CompleteMovedDoes, RestIs DEF Rest, JobBecomes
<1> QED
  BY <1>1, CompleteMovedDoes, OpsKept

LEMMA RetryDueTyped == ASSUME Typed, NEW q \in Queue, NEW i \in Id, RetryDue(q, i) PROVE Typed'
<1>1. Rest'
  BY RetryDueDoes, RestIs DEF Rest, JobBecomes
<1> QED
  BY <1>1, RetryDueDoes, OpsKept

LEMMA HoldLapseTyped == ASSUME Typed, NEW q \in Queue, NEW i \in Id, HoldLapse(q, i) PROVE Typed'
<1>1. Rest'
  BY HoldLapseDoes, RestIs DEF Rest, JobBecomes
<1> QED
  BY <1>1, HoldLapseDoes, OpsKept

LEMMA LockExpireTyped == ASSUME Typed, NEW q \in Queue, NEW i \in Id, LockExpire(q, i) PROVE Typed'
<1>1. Rest'
  BY LockExpireDoes, RestIs DEF Rest, JobBecomes
<1> QED
  BY <1>1, LockExpireDoes, OpsKept

LEMMA StallTyped == ASSUME Typed, NEW q \in Queue, NEW i \in Id, Stall(q, i) PROVE Typed'
<1>1. Rest'
  BY StallDoes, RestIs DEF Rest, JobBecomes
<1> QED
  BY <1>1, StallDoes, OpsKept

LEMMA SkipDoneTyped == ASSUME Typed, NEW q \in Queue, NEW i \in Id, SkipDone(q, i) PROVE Typed'
<1>1. At(<<q, i>>).snap.tok \in 0..MaxId
  BY PairIs, PlaceIs DEF Data
<1>2. Rest'
  BY <1>1, SkipDoneDoes, RestIs DEF Rest, JobBecomes
<1> QED
  BY <1>2, SkipDoneDoes, OpsKept

LEMMA AckTyped == ASSUME Typed, NEW q \in Queue, NEW i \in Id, Ack(q, i) PROVE Typed'
<1>1. At(<<q, i>>).snap.tok \in 0..MaxId
  BY PairIs, PlaceIs DEF Data
<1>2. Rest'
  BY <1>1, AckDoes, RestIs DEF Rest, JobBecomes
<1> QED
  BY <1>2, AckDoes, OpsKept

LEMMA BeginTurnTyped == ASSUME Typed, NEW q \in Queue, NEW i \in Id, BeginTurn(q, i) PROVE Typed'
<1>1. hist' \in History
  <2> DEFINE f == [m \in Msg |-> IF m \in SeqSet(At(<<q, i>>).snap.msgs) /\ hist.ran[m] < 2
                                THEN hist.ran[m] + 1 ELSE hist.ran[m]]
  <2>1. hist \in History /\ hist.ran \in [Msg -> 0..2]
    BY RestIs DEF Rest, History
  <2>2. f \in [Msg -> 0..2]
    BY <2>1
  <2>3. hist' = [hist EXCEPT !.ran = f]
    BY <2>1, BeginTurnDoes
  <2> HIDE DEF f
  <2> QED
    BY <2>1, <2>2, <2>3 DEF History
<1>2. Rest'
  BY <1>1, BeginTurnDoes, RestIs DEF Rest, JobBecomes
<1> QED
  BY <1>2, BeginTurnDoes, OpsKept

LEMMA EndTurnTyped == ASSUME Typed, NEW q \in Queue, NEW i \in Id, NEW denied \in BOOLEAN, EndTurn(q, i, denied) PROVE Typed'
<1>1. SeqSet(At(<<q, i>>).snap.msgs) \subseteq Msg
  BY PairIs, PlaceIs, DataMsgs
<1>2. hist' \in History
  <2> DEFINE x == hist.fin \cup SeqSet(At(<<q, i>>).snap.msgs)
  <2>1. hist \in History /\ x \in SUBSET Msg /\ (hist' = hist \/ hist' = [hist EXCEPT !.fin = x])
    BY <1>1, EndTurnDoes, RestIs, ZenonT(60) DEF Rest, History
  <2> HIDE DEF x
  <2> QED
    BY <2>1 DEF History
<1>3. Rest'
  <2>1. /\ job' \in [Queue -> [Id -> Job]] /\ turnDone' = turnDone \cup {i}
        /\ UNCHANGED <<idx, moved, senders, appendLock, redispatch, up, silent, runsOn, budget, nextId, watch, shown>>
    BY EndTurnDoes DEF JobBecomes
  <2> QED
    BY <1>2, <2>1, RestIs DEF Rest
<1> QED
  BY <1>3, EndTurnDoes, OpsKept

LEMMA FaultTyped == ASSUME Typed, Fault PROVE Typed'
<1>1. CASE AppendLockLapse
  BY <1>1, RestIs, OpsKept DEF AppendLockLapse, Rest, world, view
<1>2. CASE IndexLapse
  <2>1. budget' \in Budget
    <3>1. budget \in Budget /\ budget.lapses > 0 /\ budget' = [budget EXCEPT !.lapses = @ - 1]
      BY <1>2, RestIs DEF IndexLapse, Rest
    <3> QED
      BY <3>1, TurnQueueAssumption DEF Budget
  <2> QED
    BY <1>2, <2>1, RestIs, OpsKept DEF IndexLapse, Rest, view
<1>3. ASSUME NEW i \in Id, GuardLapse(i) PROVE Typed'
  BY <1>3, RestIs, OpsKept DEF GuardLapse, Rest, world, view
<1>4. ASSUME NEW o \in Op, OpCrash(o) PROVE Typed'
  <2>1. budget' \in Budget
    BY <1>4, OpCrashDoes, RestIs, TurnQueueAssumption DEF Rest, Budget
  <2>2. Rest'
    BY <1>4, <2>1, OpCrashDoes, RestIs DEF Rest
  <2> QED
    BY <1>4, <2>2, OpCrashDoes, IdleTyped, ShapesKept
<1>5. ASSUME NEW n \in Node, NodeCrash(n) PROVE Typed'
  <2>1. Rest'
    BY <1>5, NodeCrashDoes, RestIs DEF Rest
  <2>2. Shapes'
    <3> SUFFICES ASSUME NEW o \in Op PROVE Shape(op'[o])
      BY DEF Shapes
    <3> QED
      BY <1>5, NodeCrashDoes, IdleTyped, AnOperation
  <2>3. op' \in [Op -> Operation]
    BY <1>5, NodeCrashDoes
  <2> QED
    BY <2>1, <2>2, <2>3 DEF Typed, TypeOK, Rest
<1>6. ASSUME NEW n \in Node, Silence(n) PROVE Typed'
  <2>1. budget' \in Budget
    <3>1. budget \in Budget /\ budget.silences > 0 /\ budget' = [budget EXCEPT !.silences = @ - 1]
      BY <1>6, RestIs DEF Silence, Rest
    <3> QED
      BY <3>1, TurnQueueAssumption DEF Budget
  <2> QED
    BY <1>6, <2>1, RestIs, OpsKept DEF Silence, Rest, redis, view
<1>7. ASSUME NEW n \in Node, Resume(n) PROVE Typed'
  BY <1>7, RestIs, OpsKept DEF Resume, Rest, redis, view
<1>8. ASSUME NEW l \in Label, Relabel(l) PROVE Typed'
  <2>1. budget' \in Budget
    <3>1. budget \in Budget /\ budget.relabels > 0 /\ budget' = [budget EXCEPT !.relabels = @ - 1]
      BY <1>8, RestIs DEF Relabel, Rest
    <3> QED
      BY <3>1, TurnQueueAssumption DEF Budget
  <2> QED
    BY <1>8, <2>1, RestIs, OpsKept DEF Relabel, Rest, redis, view
<1> QED
  BY <1>1, <1>2, <1>3, <1>4, <1>5, <1>6, <1>7, <1>8 DEF Fault

LEMMA FollowTyped == ASSUME Typed, NEW m \in Msg, Follow(m) PROVE Typed'
<1>1. CASE FollowMove(m)
  <2>1. watch[m] \in Ref /\ watch[m][2] \in Id
    BY <1>1, RestIs, RefIs DEF FollowMove, Polls, Rest
  <2>2. watch' \in [Msg -> Ref \cup {NoRef}]
    BY <1>1, <2>1, RestIs DEF FollowMove, Rest
  <2>3. hist' \in History
    BY <1>1, RestIs DEF FollowMove, Rest, History
  <2> QED
    BY <1>1, <2>2, <2>3, RestIs, OpsKept DEF FollowMove, Rest, redis, world
<1>2. CASE Close(m)
  BY <1>2, RestIs, OpsKept DEF Close, Rest, redis, world
<1> QED
  BY <1>1, <1>2 DEF Follow

LEMMA TypedInit == Init => Typed
<1> SUFFICES ASSUME Init PROVE Typed
  OBVIOUS
<1>1. job \in [Queue -> [Id -> Job]] /\ op \in [Op -> Operation]
  BY IdleTyped DEF Init
<1>2. 1 \in 1..(MaxId + 1)
  BY TurnQueueAssumption
<1>3. hist \in History
  BY DEF Init, History
<1>4. budget \in Budget
  BY TurnQueueAssumption DEF Init, Budget
<1>5. TypeOK
  BY <1>1, <1>2, TurnQueueAssumption DEF Init, TypeOK
<1>6. Shapes
  BY IdleTyped DEF Init, Shapes
<1> QED
  BY <1>3, <1>4, <1>5, <1>6 DEF Typed

LEMMA TypedNext == Typed /\ [Next]_vars => Typed'
<1> SUFFICES ASSUME Typed, [Next]_vars PROVE Typed'
  OBVIOUS
<1>1. ASSUME NEW o \in Op, Start(o) PROVE Typed'
  BY <1>1, StartEnqueueTyped, StartRedispatchTyped, StartReapTyped DEF Start
<1>2. ASSUME NEW o \in Op, OpStep(o) PROVE Typed'
  BY <1>2, AcquireTyped, ReleaseTyped, MarkFailedTyped, LookTyped, RecordSendersTyped,
     UpdateDataTyped, RecheckTyped, IndexTyped, AddTyped, MarkSourceTyped, CheckMovedTyped,
     CheckClaimedTyped, CheckMergeTyped, CheckSwapTyped, AddCopyTyped, MarkCopyTyped, TakeTyped,
     DropCopyTyped, UnmarkTyped, PromoteTyped, ReindexTyped, TakeHoldTyped, MarkHoldTyped DEF OpStep
<1>3. ASSUME NEW q \in Queue, NEW i \in Id, Process(q, i) PROVE Typed'
  BY <1>3, SkipDoneTyped, BeginTurnTyped, RequeueTyped, FailAtClaimTyped, StartClaimedMoveTyped,
     EndTurnTyped, AckTyped, FailDeniedTyped, CompleteMovedTyped DEF Process
<1>4. ASSUME NEW q \in Queue, NEW i \in Id, Timer(q, i) PROVE Typed'
  BY <1>4, RetryDueTyped, HoldLapseTyped, LockExpireTyped, StallTyped DEF Timer
<1>5. ASSUME NEW q \in Queue, NEW i \in Id, NEW n \in Node, Claim(n, q, i) PROVE Typed'
  BY <1>5, ClaimTyped
<1>6. CASE UNCHANGED vars
  BY <1>6, RestIs, OpsKept DEF vars, redis, world, view, Rest
<1> QED
  BY <1>1, <1>2, <1>3, <1>4, <1>5, <1>6, FaultTyped, FollowTyped DEF Next

\* turns.ts, worker.ts, reaper.ts: every step of every process leaves jobs, markers,
\* operations and the follower with values of their types, an operation's step
\* among those its kind goes through, and its copy and its job on session queues.
THEOREM TurnSessionTyped == Spec => []TypeOK
<1>1. Typed => TypeOK
  BY DEF Typed
<1> QED
  BY <1>1, TypedInit, TypedNext, PTL DEF Spec

-----------------------------------------------------------------------------
(***************************************************************************)
(* The invariant: jobs, ids and what the append lock protects              *)
(***************************************************************************)
JobShape(j, q) ==
    /\ j.st = "active" =>
          /\ j.by \in Node /\ q \in Carries[j.by] \cup {j.by}
          /\ j.by \in up => j.locked
          /\ j.ph \in {"claimed", "running", "ended", "denied", "moving", "moved"}
          /\ j.snap.label = j.data.label /\ j.snap.tok = j.data.tok
          /\ SeqSet(j.snap.msgs) \subseteq SeqSet(j.data.msgs)
    /\ j.st # "active" => j.by = NoNode
    /\ Pending(j) => j.ph = "none"

\* A worker has the job it claimed, with the label and some of the messages of
\* the job's data.
JobShapes == \A r \in Ref : JobShape(At(r), r[1])

\* The operations that minted an id of their own, and those whose id no job
\* that a worker may see has yet.
OwnsId(p) == HasWant(p) \/ p.kind = "merge"
Unused(p) ==
    \/ HasWant(p) /\ p.pc \notin {"promote", "reindex", "release", "markfailed"}
    \/ p.kind = "merge" /\ p.pc \notin {"promote", "reindex", "release"}

IdsMinted ==
    /\ \A r \in Ref : At(r).st # "none" => r[2] < nextId
    /\ \A i \in turnDone : i < nextId
    /\ \A i \in Id : moved[i] # NoRef => i < nextId
    /\ idx # NoRef => idx[2] < nextId
    /\ \A o \in Op : OwnsId(op[o]) => op[o].id < nextId
    /\ \A o \in Op : Moves(op[o]) => op[o].src[2] < nextId
    /\ \A o, x \in Op : OwnsId(op[o]) /\ OwnsId(op[x]) /\ op[o].id = op[x].id => o = x

\* The operation's copy is on its queue.
HasCopy(p) ==
    \/ p.pc \in {"markcopy", "take", "drop"}
    \/ p.kind = "merge" /\ p.pc \in {"look", "senders", "update", "recheck", "takehold"}

\* An unused id has no turn, no marker before the merge's own, and no job but
\* the operation's copy.
UnusedIs(p) ==
    /\ p.id \notin turnDone
    /\ p.pc # "marksrc" => moved[p.id] = NoRef
    /\ \A r \in Ref : r[2] = p.id /\ At(r).st # "none" => HasCopy(p) /\ p.cp = r
UnusedIds == \A o \in Op : Unused(op[o]) => UnusedIs(op[o])

\* The job a copy is made of has another id, unless it is moved as it is.
Apart(p) ==
    /\ HasWant(p) /\ p.cp # NoRef => p.ref[2] # p.id
    /\ p.kind = "merge" => p.src[2] # p.id
Apartness == \A o \in Op : Apart(op[o])

\* What the holder of the append lock read is still so.
ReadStill(p) ==
    /\ p.pc \in {"senders", "update"} => At(p.ref).st # "none" /\ At(p.ref).data = p.prev
    /\ p.pc = "recheck" =>
          /\ At(p.ref).st # "none"
          /\ SeqSet(p.d.msgs) \subseteq SeqSet(At(p.ref).data.msgs)
    /\ p.pc \in {"copy", "markcopy", "take"} =>
          /\ At(Original(p)).st # "none"
          /\ At(Original(p)).data = IF Relocating(p) THEN p.prev ELSE p.d
    /\ p.pc = "drop" /\ At(Original(p)).st # "none" =>
          At(Original(p)).data = IF Relocating(p) THEN p.prev ELSE p.d

\* Its copy is held, as it was added, and the job it will add is not there yet.
CopyStays(p) ==
    /\ p.pc \in {"copy", "unmark"} => At(p.cp).st = "none"
    /\ HasCopy(p) => At(p.cp).st = "held" /\ At(p.cp).data = CopyData(p)
    /\ p.kind = "merge" /\ (HasCopy(p) \/ p.pc = "copy") =>
          idx # p.cp /\ (Appending(p) => p.ref # p.cp)
    /\ p.kind = "merge" /\ p.pc \in {"markhold", "marksrc"} => At(p.cp).st = "none"
    /\ p.pc \in {"index", "add"} \/ (p.kind = "claimed" /\ p.pc \in OpenPcs) =>
          At(Wanted(p)).st = "none"
LockKeeps == \A o \in Op : ReadStill(op[o]) /\ CopyStays(op[o])

\* The failed job a re-dispatch started from is still failed.
FailedStays == \A o \in Op : op[o].kind = "redispatch" => At(op[o].src).st = "failed"

\* The job a worker moves is in its hands.
ClaimStays ==
    /\ \A o \in Op : op[o].kind = "claimed" =>
          LET j == At(op[o].src) IN
          j.st = "active" /\ j.ph = "moving" /\ j.by = op[o].by /\ j.by \in up /\ j.snap = op[o].d
    /\ \A o, x \in Op :
          op[o].kind = "claimed" /\ op[x].kind = "claimed" /\ op[o].src = op[x].src => o = x

\* Nobody moves a job under an id that is still to be used.
FreshIds ==
    \A o, x \in Op :
        op[x].pc = "acquire" /\ HasWant(op[x]) /\ Moves(op[o]) => op[o].src[2] # op[x].id

\* The jobs of an id have one label, a move's too.
Labelled(p) ==
    p.kind \in {"reap", "swap"} =>
        /\ \A r \in Ref : r[2] = p.src[2] /\ At(r).st # "none" => At(r).data.label = p.want
        /\ \A x \in Op : Unused(op[x]) /\ op[x].id = p.src[2] => op[x].d.label = p.want
SameLabel ==
    /\ \A r, s \in Ref : r[2] = s[2] /\ At(r).st # "none" /\ At(s).st # "none"
                            => At(r).data.label = At(s).data.label
    /\ \A o \in Op : Labelled(op[o])

\* Of two jobs of an id one is on the label's queue.
Placed ==
    \A r, s \in Ref : r[2] = s[2] /\ At(r).st # "none" /\ At(s).st # "none" /\ r # s
                         => r[1] = At(r).data.label \/ s[1] = At(s).data.label

\* All of it.
Base ==
    /\ Typed /\ LockInv /\ JobShapes /\ IdsMinted /\ UnusedIds /\ Apartness
    /\ LockKeeps /\ FailedStays /\ ClaimStays /\ FreshIds /\ SameLabel /\ Placed

-----------------------------------------------------------------------------
\* A step of a worker or a timer on the job at r, which becomes k.
Works(r, k) ==
    /\ r \in Ref /\ k \in Job /\ JobBecomes(r, k) /\ JobShape(k, r[1])
    /\ ~Gone(At(r)) /\ k.st \notin {"none", "held"} /\ k.data = At(r).data
    /\ At(r).st = "held" => SlowOps \/ \A o \in Op : op[o].cp # r
    /\ ~(At(r).st = "active" /\ At(r).ph = "moving" /\ At(r).by \in up)
    /\ UNCHANGED <<idx, moved, appendLock, redispatch, up, silent, runsOn, budget, nextId,
                   watch, shown>>

LEMMA BaseTyped == Base => Typed /\ JobShapes /\ LockInv
BY DEF Base

LEMMA LeftIs ==
    ASSUME NEW j \in Job, NEW st, NEW ph
    PROVE  /\ Left(j, st, ph).st = st /\ Left(j, st, ph).ph = ph /\ Left(j, st, ph).by = NoNode
           /\ Left(j, st, ph).data = j.data
<1>1. Left(j, st, ph).st = st /\ Left(j, st, ph).data = j.data
  BY DEF Left, Job
<1>2. Left(j, st, ph).ph = ph
  BY DEF Left, Job
<1>3. Left(j, st, ph).by = NoNode
  <2> DEFINE a == [j EXCEPT !.st = st, !.ph = ph, !.locked = FALSE]
             b == [a EXCEPT !.by = NoNode]
  <2>1. b.by = NoNode
    BY DEF Job
  <2>2. Left(j, st, ph) = [b EXCEPT !.snap = NoData]
    BY DEF Left
  <2> HIDE DEF b
  <2> QED
    BY <2>1, <2>2
<1> QED
  BY <1>1, <1>2, <1>3

LEMMA WorkIs ==
    ASSUME Base, NEW q \in Queue, NEW i \in Id,
           \/ SkipDone(q, i) \/ BeginTurn(q, i) \/ Requeue(q, i) \/ FailAtClaim(q, i)
           \/ \E denied \in BOOLEAN : EndTurn(q, i, denied)
           \/ Ack(q, i) \/ FailDenied(q, i) \/ CompleteMoved(q, i)
           \/ Timer(q, i) \/ \E n \in Node : Claim(n, q, i)
    PROVE  op' = op /\ \E k \in Job : Works(<<q, i>>, k)
<1> DEFINE r == <<q, i>>
           j == At(r)
<1>0. Typed /\ r \in Ref /\ j \in Job /\ JobShape(j, r[1]) /\ up \subseteq Node /\ NoNode \notin Node
  BY BaseTyped, PairIs, PlaceIs, TurnQueueAssumption DEF JobShapes, Typed, TypeOK
<1>1. ASSUME NEW st \in {"delayed", "completed", "failed"}, NEW ph \in {"none", "mismatch", "other"},
             st = "delayed" => ph = "none"
      PROVE  /\ Left(j, st, ph) \in Job /\ Left(j, st, ph).st = st /\ Left(j, st, ph).data = j.data
             /\ JobShape(Left(j, st, ph), r[1])
  <2> DEFINE k == Left(j, st, ph)
  <2>1. k \in Job /\ k.st = st /\ k.data = j.data
    BY <1>0, IdleTyped DEF Left, Job
  <2>2. k.ph = ph /\ k.by = NoNode
    BY <1>0, LeftIs
  <2>3. JobShape(k, r[1])
    <3> HIDE DEF k
    <3> QED
      BY <1>1, <2>1, <2>2 DEF JobShape, Pending
  <2> QED
    BY <2>1, <2>3
\* The parts of an active job's shape that are about its worker.
<1>a. ASSUME NEW k \in Job, k.st = "active", k.by = j.by, k.snap = j.snap, k.data = j.data, j.st = "active",
             j.by \in up => k.locked,
             k.ph \in {"claimed", "running", "ended", "denied", "moving", "moved"}
      PROVE  JobShape(k, r[1])
  BY <1>0, <1>a DEF JobShape, Pending
<1> DEFINE U == UNCHANGED <<idx, moved, appendLock, redispatch, up, silent, runsOn, budget, nextId, watch, shown>>
<1>2. CASE SkipDone(q, i)
  <2>1. Works(r, Left(j, "completed", "none"))
    BY <1>0, <1>1, <1>2, SkipDoneDoes DEF Works, Gone
  <2> QED
    BY <1>0, <1>1, <1>2, <2>1, SkipDoneDoes
<1>3. CASE BeginTurn(q, i)
  <2> DEFINE k == [j EXCEPT !.ph = "running"]
  <2>1. /\ k \in Job /\ k.st = j.st /\ k.data = j.data /\ k.by = j.by /\ k.snap = j.snap
        /\ k.locked = j.locked /\ k.ph = "running"
    BY <1>0 DEF Job
  <2>2. j.st = "active" /\ j.ph = "claimed" /\ JobBecomes(r, k) /\ op' = op /\ U
    BY <1>0, <1>3, BeginTurnDoes
  <2> HIDE DEF k
  <2>b. JobShape(k, r[1])
    BY <1>0, <1>a, <2>1, <2>2 DEF JobShape
  <2>3. Works(r, k)
    BY <1>0, <2>1, <2>2, <2>b DEF Works, Gone
  <2> QED
    BY <2>1, <2>2, <2>3
<1>4. CASE Requeue(q, i)
  <2>1. Works(r, Left(j, "delayed", "none"))
    BY <1>0, <1>1, <1>4, RequeueDoes DEF Works, Gone
  <2> QED
    BY <1>0, <1>1, <1>4, <2>1, RequeueDoes
<1>5. CASE FailAtClaim(q, i)
  <2> DEFINE ph == IF j.snap.label # runsOn THEN "mismatch" ELSE "other"
  <2>1. ph \in {"mismatch", "other"}
    OBVIOUS
  <2>2. j.st = "active" /\ j.ph = "claimed" /\ JobBecomes(r, Left(j, "failed", ph)) /\ op' = op /\ U
    BY <1>0, <1>5, FailAtClaimDoes
  <2> HIDE DEF ph
  <2>3. Works(r, Left(j, "failed", ph))
    BY <1>0, <1>1, <2>1, <2>2 DEF Works, Gone
  <2> QED
    BY <1>1, <2>1, <2>2, <2>3
<1>6. CASE \E denied \in BOOLEAN : EndTurn(q, i, denied)
  <2>1. PICK denied \in BOOLEAN : EndTurn(q, i, denied)
    BY <1>6
  <2> DEFINE ph == IF denied THEN "denied" ELSE "ended"
             k == [j EXCEPT !.ph = ph]
  <2>2. ph \in {"denied", "ended"}
    OBVIOUS
  <2>3. j.st = "active" /\ j.ph = "running" /\ JobBecomes(r, k) /\ op' = op /\ U
    BY <1>0, <2>1, EndTurnDoes
  <2> HIDE DEF ph
  <2>4. /\ k \in Job /\ k.st = j.st /\ k.data = j.data /\ k.by = j.by /\ k.snap = j.snap
        /\ k.locked = j.locked /\ k.ph = ph
    BY <1>0, <2>2 DEF Job
  <2> HIDE DEF k
  <2>b. JobShape(k, r[1])
    BY <1>0, <1>a, <2>2, <2>3, <2>4 DEF JobShape
  <2>5. Works(r, k)
    BY <1>0, <2>3, <2>4, <2>b DEF Works, Gone
  <2> QED
    BY <2>3, <2>4, <2>5
<1>7. CASE Ack(q, i)
  <2>1. Works(r, Left(j, "completed", "none"))
    BY <1>0, <1>1, <1>7, AckDoes DEF Works, Gone
  <2> QED
    BY <1>0, <1>1, <1>7, <2>1, AckDoes
<1>8. CASE FailDenied(q, i)
  <2>1. Works(r, Left(j, "failed", "mismatch"))
    BY <1>0, <1>1, <1>8, FailDeniedDoes DEF Works, Gone
  <2> QED
    BY <1>0, <1>1, <1>8, <2>1, FailDeniedDoes
<1>9. CASE CompleteMoved(q, i)
  <2>1. Works(r, Left(j, "completed", "none"))
    BY <1>0, <1>1, <1>9, CompleteMovedDoes DEF Works, Gone
  <2> QED
    BY <1>0, <1>1, <1>9, <2>1, CompleteMovedDoes
<1>10. ASSUME RetryDue(q, i) \/ HoldLapse(q, i)
       PROVE  op' = op /\ \E k \in Job : Works(r, k)
  <2> DEFINE k == [j EXCEPT !.st = "waiting"]
  <2>1. /\ j.st \in {"delayed", "held"} /\ JobBecomes(r, k) /\ op' = op /\ U
        /\ j.st = "held" => SlowOps \/ \A o \in Op : op[o].cp # r
    BY <1>0, <1>10, RetryDueDoes, HoldLapseDoes
  <2>2. k \in Job /\ k.st = "waiting" /\ k.data = j.data /\ k.by = j.by /\ k.ph = j.ph
    BY <1>0 DEF Job
  <2> HIDE DEF k
  <2>b. JobShape(k, r[1])
    BY <1>0, <2>1, <2>2 DEF JobShape, Pending
  <2>3. Works(r, k)
    BY <1>0, <2>1, <2>2, <2>b DEF Works, Gone
  <2> QED
    BY <2>1, <2>2, <2>3
<1>11. CASE LockExpire(q, i)
  <2> DEFINE k == [j EXCEPT !.locked = FALSE]
  <2>1. /\ k \in Job /\ k.st = j.st /\ k.data = j.data /\ k.by = j.by /\ k.snap = j.snap
        /\ k.ph = j.ph
    BY <1>0 DEF Job
  <2>2. j.st = "active" /\ j.by \notin up /\ JobBecomes(r, k) /\ op' = op /\ U
    BY <1>0, <1>11, LockExpireDoes
  <2> HIDE DEF k
  <2>b. JobShape(k, r[1])
    BY <1>0, <1>a, <2>1, <2>2 DEF JobShape
  <2>3. Works(r, k)
    BY <1>0, <2>1, <2>2, <2>b DEF Works, Gone
  <2> QED
    BY <2>1, <2>2, <2>3
<1>12. CASE Stall(q, i)
  <2> DEFINE k == [j EXCEPT !.st = "waiting", !.ph = "none", !.by = NoNode, !.snap = NoData, !.stalls = 1]
  <2>1. k \in Job /\ k.st = "waiting" /\ k.data = j.data /\ k.ph = "none" /\ k.by = NoNode
    BY <1>0, StalledIs DEF Job
  <2>2. j.st = "active" /\ ~j.locked /\ op' = op /\ U /\ (JobBecomes(r, k) \/ JobBecomes(r, Left(j, "failed", "other")))
    BY <1>0, <1>12, StallDoes
  <2>3. j.by \notin up
    BY <1>0, <2>2 DEF JobShape
  <2> HIDE DEF k
  <2>b. JobShape(k, r[1])
    BY <2>1 DEF JobShape, Pending
  <2>4. CASE JobBecomes(r, k)
    <3>1. Works(r, k)
      BY <1>0, <2>1, <2>2, <2>3, <2>4, <2>b DEF Works, Gone
    <3> QED
      BY <2>1, <2>2, <3>1
  <2>5. CASE JobBecomes(r, Left(j, "failed", "other"))
    <3>1. Works(r, Left(j, "failed", "other"))
      BY <1>0, <1>1, <2>2, <2>3, <2>5 DEF Works, Gone
    <3> QED
      BY <1>1, <2>2, <3>1
  <2> QED
    BY <2>2, <2>4, <2>5
<1>13. CASE \E n \in Node : Claim(n, q, i)
  <2>1. PICK n \in Node : Claim(n, q, i)
    BY <1>13
  <2> DEFINE k == [j EXCEPT !.st = "active", !.snap = j.data, !.by = n, !.locked = TRUE, !.ph = "claimed"]
  <2>2. /\ k \in Job /\ k.st = "active" /\ k.data = j.data /\ k.snap = j.data /\ k.by = n
        /\ k.locked = TRUE /\ k.ph = "claimed"
    BY <1>0 DEF Job
  <2>3. j.st = "waiting" /\ JobBecomes(r, k) /\ op' = op /\ U /\ n \in Node /\ q \in Carries[n] \cup {n}
    BY <1>0, <2>1, ClaimDoes DEF Serves
  <2> HIDE DEF k
  <2>b. JobShape(k, r[1])
    BY <1>0, <2>2, <2>3 DEF JobShape, Pending
  <2>4. Works(r, k)
    BY <1>0, <2>2, <2>3, <2>b DEF Works, Gone
  <2> QED
    BY <2>2, <2>3, <2>4
<1> QED
  BY <1>2, <1>3, <1>4, <1>5, <1>6, <1>7, <1>8, <1>9, <1>10, <1>11, <1>12, <1>13 DEF Timer

LEMMA BaseIs ==
    ASSUME Base, NEW o \in Op
    PROVE  /\ Typed /\ op[o] \in Operation /\ Shape(op[o]) /\ op[o].d \in Data /\ op[o].prev \in Data
           /\ ReadStill(op[o]) /\ CopyStays(op[o]) /\ Apart(op[o])
           /\ Unused(op[o]) => UnusedIs(op[o])
BY AnOperation DEF Base, LockKeeps, UnusedIds, Apartness

\* The places of an operation's record.
LEMMA RefsAre ==
    ASSUME Base, NEW o \in Op
    PROVE  LET p == op[o] IN
           /\ Appending(p) => p.ref \in Ref
           /\ p.pc \in CopyPcs => Original(p) \in Ref
           /\ p.pc \in CopyPcs \cup {"promote", "reindex", "takehold", "markhold"} => p.cp \in Ref
           /\ HasCopy(p) \/ (p.kind = "merge" /\ p.pc # "release") => p.cp \in Ref
           /\ p.pc \in {"index", "add"} \/ HasWant(p) \/ p.kind = "claimed" => Wanted(p) \in Ref
<1>1. Typed /\ Shape(op[o])
  BY BaseIs
<1>2. op[o].pc \in {"index", "add"} \/ HasWant(op[o]) \/ op[o].kind = "claimed" => Wanted(op[o]) \in Ref
  BY <1>1, WantedIs
<1> QED
  BY <1>1, <1>2, PlacesAre DEF Shape, HasCopy, CopyPcs

\* Without the append lock there is nothing to keep.
LEMMA FreeKeeps ==
    ASSUME NEW p, p.pc \in Free, Shape(p)
    PROVE  ReadStill(p) /\ CopyStays(p) /\ ~HasCopy(p)
<1>1. ~HasCopy(p)
  BY DEF HasCopy, Free
<1> QED
  BY <1>1 DEF ReadStill, CopyStays, Free, OpenPcs

\* What a step keeps of every job: its data, whether it is there, and a held
\* copy of an operation.
JobsKept ==
    \A s \in Ref :
        LET j == job[s[1]][s[2]]
            k == job'[s[1]][s[2]]
        IN  /\ k.data = j.data /\ (k.st = "none" <=> j.st = "none")
            /\ j.st = "held" /\ (\E o \in Op : op[o].cp = s) => k.st = "held"

LEMMA WorksKeep ==
    ASSUME Base, ~SlowOps, NEW r, NEW k, Works(r, k)
    PROVE  JobsKept
<1> SUFFICES ASSUME NEW s \in Ref
             PROVE  LET j == job[s[1]][s[2]]
                        h == job'[s[1]][s[2]]
                    IN  /\ h.data = j.data /\ (h.st = "none" <=> j.st = "none")
                        /\ j.st = "held" /\ (\E o \in Op : op[o].cp = s) => h.st = "held"
  BY DEF JobsKept
<1>1. CASE s = r
  BY <1>1 DEF Works, JobBecomes, At, Gone
<1>2. CASE s # r
  BY <1>2 DEF Works, JobBecomes
<1> QED
  BY <1>1, <1>2

LEMMA OtherKeeps ==
    ASSUME Base, JobsKept, idx' \in {idx, NoRef}, NEW o \in Op, op'[o] = op[o]
    PROVE  ReadStill(op[o])' /\ CopyStays(op[o])'
<1> DEFINE p == op[o]
<1>0. Shape(p) /\ ReadStill(p) /\ CopyStays(p)
  BY BaseIs
<1>1. ReadStill(p)'
  <2>1. p.pc \in {"senders", "update"} =>
            job'[p.ref[1]][p.ref[2]].st # "none" /\ job'[p.ref[1]][p.ref[2]].data = p.prev
    BY <1>0, RefsAre DEF JobsKept, ReadStill, At, Appending
  <2>2. p.pc = "recheck" =>
            /\ job'[p.ref[1]][p.ref[2]].st # "none"
            /\ SeqSet(p.d.msgs) \subseteq SeqSet(job'[p.ref[1]][p.ref[2]].data.msgs)
    BY <1>0, RefsAre DEF JobsKept, ReadStill, At, Appending
  <2>3. p.pc \in {"copy", "markcopy", "take"} =>
            LET s == Original(p) IN
            /\ job'[s[1]][s[2]].st # "none"
            /\ job'[s[1]][s[2]].data = IF Relocating(p) THEN p.prev ELSE p.d
    BY <1>0, RefsAre DEF JobsKept, ReadStill, At, CopyPcs
  <2>4. p.pc = "drop" =>
            LET s == Original(p) IN
            job'[s[1]][s[2]].st # "none" =>
                job'[s[1]][s[2]].data = IF Relocating(p) THEN p.prev ELSE p.d
    BY <1>0, RefsAre DEF JobsKept, ReadStill, At, CopyPcs
  <2>5. Original(op[o])' = Original(op[o]) /\ Relocating(op[o])' = Relocating(op[o])
    BY DEF Original, Relocating, HasWant
  <2> QED
    BY <2>1, <2>2, <2>3, <2>4, <2>5 DEF ReadStill, At
<1>2. CopyStays(p)'
  <2>1. HasCopy(p) => p.cp \in Ref /\ p.cp # NoRef
    BY RefsAre, TurnQueueAssumption DEF Ref
  <2>2. HasCopy(p) => job'[p.cp[1]][p.cp[2]].st = "held" /\ job'[p.cp[1]][p.cp[2]].data = CopyData(p)
    BY <1>0, <2>1 DEF JobsKept, CopyStays, At
  <2>3. p.pc \in {"copy", "unmark"} => p.cp \in Ref /\ job'[p.cp[1]][p.cp[2]].st = "none"
    BY <1>0, RefsAre DEF JobsKept, CopyStays, At, CopyPcs
  <2>4. p.kind = "merge" /\ p.pc \in {"markhold", "marksrc"} => job'[p.cp[1]][p.cp[2]].st = "none"
    BY <1>0, RefsAre DEF JobsKept, CopyStays, At
  <2>5. p.pc \in {"index", "add"} \/ (p.kind = "claimed" /\ p.pc \in OpenPcs) =>
            job'[Wanted(p)[1]][Wanted(p)[2]].st = "none"
    BY <1>0, RefsAre DEF JobsKept, CopyStays, At
  <2>6. p.kind = "merge" /\ (HasCopy(p) \/ p.pc = "copy") =>
          idx' # p.cp /\ (Appending(p) => p.ref # p.cp)
    <3>1. p.kind = "merge" /\ p.pc = "copy" => p.cp \in Ref
      BY RefsAre DEF CopyPcs
    <3> QED
      BY <1>0, <2>1, <3>1, TurnQueueAssumption DEF CopyStays, Ref
  <2> QED
    BY <2>2, <2>3, <2>4, <2>5, <2>6 DEF CopyStays, HasCopy, CopyData, At, Wanted, Relocating, HasWant, Hint, Appending
<1> QED
  BY <1>1, <1>2

\* Only the holder of the lock is past its acquisition.
LEMMA HolderAlone ==
    ASSUME Base, ~SlowOps, NEW o \in Op, op[o].pc \notin Free \/ appendLock = NoOp
    PROVE  \A x \in Op : x # o => op[x].pc \in Free
<1>1. AppendersSerialize /\ NoOp \notin Op
  BY TurnQueueAssumption DEF Base, LockInv
<1> QED
  BY <1>1 DEF AppendersSerialize, Free

\* So a step of the holder has only its own record to account for.
LEMMA OwnKeeps ==
    ASSUME Base, ~SlowOps, NEW o \in Op, op[o].pc \notin Free \/ appendLock = NoOp,
           \A x \in Op : x # o => op'[x] = op[x],
           ReadStill(op[o])', CopyStays(op[o])'
    PROVE  LockKeeps'
<1> SUFFICES ASSUME NEW x \in Op PROVE ReadStill(op[x])' /\ CopyStays(op[x])'
  BY DEF LockKeeps
<1>1. CASE x = o
  BY <1>1
<1>2. CASE x # o
  <2>1. op'[x].pc \in Free
    BY <1>2, HolderAlone
  <2> QED
    BY <2>1 DEF ReadStill, CopyStays, HasCopy, Free, OpenPcs
<1> QED
  BY <1>1, <1>2

\* Steps that leave the critical reads and the copy behind.
LEMMA AfterwardsKeeps ==
    ASSUME Base, ~SlowOps, NEW o \in Op, op[o].pc \notin Free \/ appendLock = NoOp,
           \A x \in Op : x # o => op'[x] = op[x],
           \/ op'[o].pc \in {"idle", "release", "promote", "reindex", "markfailed", "check"}
           \/ op'[o].pc \in {"look", "marksrc"} /\ op'[o].kind \notin {"claimed", "merge"}
           \/ op'[o].pc = "marksrc" /\ op'[o].kind = "claimed"
    PROVE  LockKeeps'
<1>1. ReadStill(op[o])' /\ CopyStays(op[o])'
  BY DEF ReadStill, CopyStays, HasCopy, OpenPcs
<1> QED
  BY <1>1, OwnKeeps

LEMMA AcquireKeeps == ASSUME Base, ~SlowOps, NEW o \in Op, Acquire(o) PROVE LockKeeps'
<1> DEFINE p == op[o]
           n == op'[o]
<1>0. /\ Typed /\ p \in Operation /\ Shape(p) /\ p.d \in Data /\ p.prev \in Data
      /\ ReadStill(p) /\ CopyStays(p) /\ Apart(p) /\ (Unused(p) => UnusedIs(p))
  BY BaseIs
<1>1. /\ p.pc \notin Free \/ appendLock = NoOp
      /\ \A x \in Op : x # o => op'[x] = op[x]
      /\ \/ n.pc \in {"idle", "release", "promote", "reindex", "markfailed", "check"}
         \/ n.pc \in {"look", "marksrc"} /\ n.kind \notin {"claimed", "merge"}
         \/ n.pc = "marksrc" /\ n.kind = "claimed"
  BY <1>0, AcquireDoes DEF Becomes, LockFree, Shape, KindPc, HasWant, OpenPcs, CopyPcs, Free
<1> QED
  BY <1>1, AfterwardsKeeps

LEMMA MarkSourceKeeps == ASSUME Base, ~SlowOps, NEW o \in Op, MarkSource(o) PROVE LockKeeps'
<1> DEFINE p == op[o]
           n == op'[o]
<1>0. /\ Typed /\ p \in Operation /\ Shape(p) /\ p.d \in Data /\ p.prev \in Data
      /\ ReadStill(p) /\ CopyStays(p) /\ Apart(p) /\ (Unused(p) => UnusedIs(p))
  BY BaseIs
<1>1. /\ p.pc \notin Free \/ appendLock = NoOp
      /\ \A x \in Op : x # o => op'[x] = op[x]
      /\ \/ n.pc \in {"idle", "release", "promote", "reindex", "markfailed", "check"}
         \/ n.pc \in {"look", "marksrc"} /\ n.kind \notin {"claimed", "merge"}
         \/ n.pc = "marksrc" /\ n.kind = "claimed"
  BY <1>0, MarkSourceDoes DEF Becomes, Shape, KindPc, HasWant, OpenPcs, CopyPcs, Free
<1> QED
  BY <1>1, AfterwardsKeeps

LEMMA CheckMovedKeeps == ASSUME Base, ~SlowOps, NEW o \in Op, CheckMoved(o) PROVE LockKeeps'
<1> DEFINE p == op[o]
           n == op'[o]
<1>0. /\ Typed /\ p \in Operation /\ Shape(p) /\ p.d \in Data /\ p.prev \in Data
      /\ ReadStill(p) /\ CopyStays(p) /\ Apart(p) /\ (Unused(p) => UnusedIs(p))
  BY BaseIs
<1>1. /\ p.pc \notin Free \/ appendLock = NoOp
      /\ \A x \in Op : x # o => op'[x] = op[x]
      /\ \/ n.pc \in {"idle", "release", "promote", "reindex", "markfailed", "check"}
         \/ n.pc \in {"look", "marksrc"} /\ n.kind \notin {"claimed", "merge"}
         \/ n.pc = "marksrc" /\ n.kind = "claimed"
  BY <1>0, CheckMovedDoes DEF Becomes, Shape, KindPc, HasWant, OpenPcs, CopyPcs, Free
<1> QED
  BY <1>1, AfterwardsKeeps

LEMMA PromoteKeeps == ASSUME Base, ~SlowOps, NEW o \in Op, Promote(o) PROVE LockKeeps'
<1> DEFINE p == op[o]
           n == op'[o]
<1>0. /\ Typed /\ p \in Operation /\ Shape(p) /\ p.d \in Data /\ p.prev \in Data
      /\ ReadStill(p) /\ CopyStays(p) /\ Apart(p) /\ (Unused(p) => UnusedIs(p))
  BY BaseIs
<1>1. /\ p.pc \notin Free \/ appendLock = NoOp
      /\ \A x \in Op : x # o => op'[x] = op[x]
      /\ \/ n.pc \in {"idle", "release", "promote", "reindex", "markfailed", "check"}
         \/ n.pc \in {"look", "marksrc"} /\ n.kind \notin {"claimed", "merge"}
         \/ n.pc = "marksrc" /\ n.kind = "claimed"
  BY <1>0, PromoteDoes DEF Becomes, Shape, KindPc, HasWant, OpenPcs, CopyPcs, Free
<1> QED
  BY <1>1, AfterwardsKeeps

LEMMA ReindexKeeps == ASSUME Base, ~SlowOps, NEW o \in Op, Reindex(o) PROVE LockKeeps'
<1> DEFINE p == op[o]
           n == op'[o]
<1>0. /\ Typed /\ p \in Operation /\ Shape(p) /\ p.d \in Data /\ p.prev \in Data
      /\ ReadStill(p) /\ CopyStays(p) /\ Apart(p) /\ (Unused(p) => UnusedIs(p))
  BY BaseIs
<1>1. /\ p.pc \notin Free \/ appendLock = NoOp
      /\ \A x \in Op : x # o => op'[x] = op[x]
      /\ \/ n.pc \in {"idle", "release", "promote", "reindex", "markfailed", "check"}
         \/ n.pc \in {"look", "marksrc"} /\ n.kind \notin {"claimed", "merge"}
         \/ n.pc = "marksrc" /\ n.kind = "claimed"
  BY <1>0, ReindexDoes DEF Becomes, Shape, KindPc, HasWant, OpenPcs, CopyPcs, Free
<1> QED
  BY <1>1, AfterwardsKeeps

LEMMA AddKeeps == ASSUME Base, ~SlowOps, NEW o \in Op, Add(o) PROVE LockKeeps'
<1> DEFINE p == op[o]
           n == op'[o]
<1>0. /\ Typed /\ p \in Operation /\ Shape(p) /\ p.d \in Data /\ p.prev \in Data
      /\ ReadStill(p) /\ CopyStays(p) /\ Apart(p) /\ (Unused(p) => UnusedIs(p))
  BY BaseIs
<1>1. /\ p.pc \notin Free \/ appendLock = NoOp
      /\ \A x \in Op : x # o => op'[x] = op[x]
      /\ \/ n.pc \in {"idle", "release", "promote", "reindex", "markfailed", "check"}
         \/ n.pc \in {"look", "marksrc"} /\ n.kind \notin {"claimed", "merge"}
         \/ n.pc = "marksrc" /\ n.kind = "claimed"
  BY <1>0, AddDoes DEF Becomes, Shape, KindPc, HasWant, OpenPcs, CopyPcs, Free
<1> QED
  BY <1>1, AfterwardsKeeps

LEMMA ReleaseKeeps == ASSUME Base, ~SlowOps, NEW o \in Op, Release(o) PROVE LockKeeps'
<1>0. Typed
  BY BaseTyped
<1>1. op[o].pc \notin Free
  BY <1>0, ReleaseDoes DEF Free
<1>2. CASE OpBecomes(o, IdleOp)
  <2>1. op'[o].pc = "idle" /\ \A x \in Op : x # o => op'[x] = op[x]
    BY <1>2 DEF OpBecomes, IdleOp
  <2> QED
    BY <1>1, <2>1, AfterwardsKeeps
<1>3. CASE LET p == op[o] IN Becomes(o, "markfailed", p.ref, p.prev, p.cp, p.res)
  BY <1>1, <1>3, AfterwardsKeeps DEF Becomes
<1> QED
  BY <1>0, <1>2, <1>3, ReleaseDoes

\* The job an unused id will be added as is not there.
LEMMA WantedGone ==
    ASSUME Base, NEW o \in Op, Unused(op[o]), HasWant(op[o]), ~HasCopy(op[o])
    PROVE  At(Wanted(op[o])).st = "none"
<1>1. Wanted(op[o]) \in Ref /\ Wanted(op[o])[2] = op[o].id /\ UnusedIs(op[o])
  BY BaseIs, RefsAre DEF Wanted
<1> QED
  BY <1>1 DEF UnusedIs

\* The messages are in the indexed job: a merge goes on to take its hold back.
LEMMA AppendedKeeps ==
    ASSUME Base, ~SlowOps, NEW o \in Op, op[o].pc \in {"look", "recheck"},
           NEW res, Becomes(o, AppendedThen(op[o]), op[o].ref, op[o].prev, op[o].cp, res),
           job' = job, idx' = idx
    PROVE  LockKeeps'
<1> DEFINE p == op[o]
           n == op'[o]
<1>0. /\ Typed /\ p \in Operation /\ Shape(p) /\ p.d \in Data /\ p.prev \in Data
      /\ ReadStill(p) /\ CopyStays(p) /\ Apart(p) /\ (Unused(p) => UnusedIs(p))
  BY BaseIs
<1>1. p.pc \notin Free
  BY DEF Free
<1>2. CASE p.kind = "merge"
  <2>1. n.pc = "takehold" /\ n.kind = "merge" /\ n.cp = p.cp /\ n.d = p.d
    BY <1>2 DEF Becomes, AppendedThen, HasWant
  <2>2. At(p.cp).st = "held" /\ At(p.cp).data = p.d /\ idx # p.cp
    BY <1>0, <1>2 DEF CopyStays, HasCopy, CopyData, Relocating, HasWant
  <2>3. job'[n.cp[1]][n.cp[2]].st = "held" /\ job'[n.cp[1]][n.cp[2]].data = n.d /\ idx' # n.cp
    BY <2>1, <2>2 DEF At
  <2>4. ReadStill(op[o])' /\ CopyStays(op[o])'
    BY <2>1, <2>3 DEF ReadStill, CopyStays, HasCopy, CopyData, Relocating, HasWant, At, Appending, OpenPcs
  <2> QED
    BY <1>1, <2>4, OwnKeeps DEF Becomes
<1>3. CASE p.kind # "merge"
  <2>1. n.pc = "release" \/ (n.pc = "marksrc" /\ n.kind = "claimed")
    BY <1>0, <1>3 DEF Becomes, AppendedThen, HasWant, Shape, KindPc, OpenPcs, CopyPcs
  <2> QED
    BY <1>1, <2>1, AfterwardsKeeps DEF Becomes
<1> QED
  BY <1>2, <1>3

LEMMA LookKeeps == ASSUME Base, ~SlowOps, NEW o \in Op, Look(o) PROVE LockKeeps'
<1> DEFINE p == op[o]
           n == op'[o]
<1>0. /\ Typed /\ p \in Operation /\ Shape(p) /\ p.d \in Data /\ p.prev \in Data
      /\ ReadStill(p) /\ CopyStays(p) /\ Apart(p) /\ (Unused(p) => UnusedIs(p))
  BY BaseIs
<1>1. p.pc = "look" /\ p.pc \notin Free /\ job' = job /\ idx' = idx
  BY <1>0, LookDoes DEF Free
<1>2. CASE ~AppendableAt(idx) /\ Becomes(o, NotAppended(p), p.ref, p.prev, p.cp, p.res)
  <2>1. CASE p.kind = "merge"
    BY <1>1, <1>2, <2>1, AfterwardsKeeps DEF Becomes, NotAppended
  <2>2. CASE p.kind # "merge"
    <3>1. At(Wanted(p)).st = "none"
      <4>1. p.kind = "claimed" => At(Wanted(p)).st = "none"
        BY <1>0, <1>1 DEF CopyStays, OpenPcs
      <4>2. p.kind # "claimed" => HasWant(p) /\ Unused(p) /\ ~HasCopy(p)
        BY <1>0, <1>1, <2>2 DEF Shape, KindPc, HasWant, Unused, HasCopy, OpenPcs, CopyPcs
      <4> QED
        BY <4>1, <4>2, WantedGone
    <3>2. n.pc = "index" /\ Wanted(n) = Wanted(p) /\ n.kind = p.kind
      BY <1>2, <2>2 DEF Becomes, NotAppended, Wanted
    <3>3. ReadStill(op[o])'
      BY <3>2 DEF ReadStill
    <3>4. job'[Wanted(n)[1]][Wanted(n)[2]].st = "none"
      BY <1>1, <3>1, <3>2 DEF At
    <3>5. CopyStays(op[o])'
      BY <2>2, <3>2, <3>4 DEF CopyStays, HasCopy, At, Wanted
    <3> QED
      BY <1>1, <1>2, <3>3, <3>5, OwnKeeps DEF Becomes
  <2> QED
    BY <2>1, <2>2
<1>3. ASSUME AppendableAt(idx), NEW c, Becomes(o, "senders", idx, At(idx).data, c, p.res), p.kind = "merge" => c = p.cp
      PROVE  LockKeeps'
  <2>1. idx \in Ref /\ At(idx).st # "none"
    BY <1>0, <1>3 DEF AppendableAt, Pending, Typed, TypeOK
  <2>2. n.pc = "senders" /\ n.ref = idx /\ n.prev = At(idx).data /\ n.kind = p.kind /\ n.d = p.d /\ n.cp = c
        /\ Wanted(n) = Wanted(p)
    BY <1>3 DEF Becomes, Wanted
  <2>3. ReadStill(op[o])'
    BY <1>1, <2>1, <2>2 DEF ReadStill, At
  <2>4. p.kind = "merge" => At(p.cp).st = "held" /\ At(p.cp).data = p.d /\ idx # p.cp
    BY <1>0, <1>1 DEF CopyStays, HasCopy, CopyData, Relocating, HasWant
  <2>5. p.kind = "claimed" => At(Wanted(p)).st = "none"
    BY <1>0, <1>1 DEF CopyStays, OpenPcs
  <2>6. n.kind = "merge" => job'[n.cp[1]][n.cp[2]].st = "held" /\ job'[n.cp[1]][n.cp[2]].data = n.d /\ idx' # n.cp /\ n.ref # n.cp
    BY <1>1, <1>3, <2>2, <2>4 DEF At
  <2>7. n.kind = "claimed" => job'[Wanted(n)[1]][Wanted(n)[2]].st = "none"
    BY <1>1, <2>2, <2>5 DEF At
  <2>8. CopyStays(op[o])'
    BY <2>2, <2>6, <2>7 DEF CopyStays, HasCopy, CopyData, Relocating, HasWant, At, Wanted
  <2> QED
    BY <1>1, <1>3, <2>3, <2>8, OwnKeeps DEF Becomes
<1>4. CASE AppendableAt(idx) /\ MustRelocate(p, At(idx).data)
           /\ Becomes(o, "senders", idx, At(idx).data, Wanted(p), p.res)
  BY <1>3, <1>4 DEF MustRelocate, HasWant
<1>5. CASE AppendableAt(idx) /\ Becomes(o, "senders", idx, At(idx).data, p.cp, p.res)
  BY <1>3, <1>5
<1>6. CASE Becomes(o, AppendedThen(p), p.ref, p.prev, p.cp, idx)
  BY <1>0, <1>1, <1>6, AppendedKeeps
<1> QED
  BY <1>0, <1>2, <1>4, <1>5, <1>6, LookDoes

LEMMA RecordSendersKeeps == ASSUME Base, ~SlowOps, NEW o \in Op, RecordSenders(o) PROVE LockKeeps'
<1> DEFINE p == op[o]
           n == op'[o]
<1>0. /\ Typed /\ p \in Operation /\ Shape(p) /\ p.d \in Data /\ p.prev \in Data
      /\ ReadStill(p) /\ CopyStays(p) /\ Apart(p) /\ (Unused(p) => UnusedIs(p))
  BY BaseIs
<1>1. p.pc = "senders" /\ p.pc \notin Free /\ job' = job /\ idx' = idx
      /\ Becomes(o, IF Relocating(p) THEN "copy" ELSE "update", p.ref, p.prev, p.cp, p.res)
  BY <1>0, RecordSendersDoes DEF Free
<1>2. /\ n.pc = (IF Relocating(p) THEN "copy" ELSE "update") /\ n.ref = p.ref /\ n.prev = p.prev
      /\ n.cp = p.cp /\ n.kind = p.kind /\ n.d = p.d /\ Wanted(n) = Wanted(p)
      /\ (Relocating(n) <=> Relocating(p)) /\ \A x \in Op : x # o => op'[x] = op[x]
  BY <1>1 DEF Becomes, Wanted, Relocating, HasWant
<1>3. At(p.ref).st # "none" /\ At(p.ref).data = p.prev
  BY <1>0, <1>1 DEF ReadStill
<1>4. ReadStill(op[o])'
  BY <1>1, <1>2, <1>3 DEF ReadStill, At, Original, Relocating, HasWant
<1>5. Relocating(p) => At(p.cp).st = "none"
  <2>1. Relocating(p) => p.cp = Wanted(p) /\ HasWant(p) /\ Unused(p) /\ ~HasCopy(p)
    BY <1>0, <1>1 DEF Relocating, Shape, Unused, HasCopy, HasWant
  <2> QED
    BY <2>1, WantedGone
<1>6. p.kind = "merge" => At(p.cp).st = "held" /\ At(p.cp).data = p.d /\ idx # p.cp /\ p.ref # p.cp
  BY <1>0, <1>1 DEF CopyStays, HasCopy, CopyData, Relocating, HasWant, Appending
<1>7. p.kind = "claimed" => At(Wanted(p)).st = "none"
  BY <1>0, <1>1 DEF CopyStays, OpenPcs
<1>8. /\ Relocating(n) => job'[n.cp[1]][n.cp[2]].st = "none"
      /\ n.kind = "merge" => /\ job'[n.cp[1]][n.cp[2]].st = "held" /\ job'[n.cp[1]][n.cp[2]].data = n.d
                             /\ idx' # n.cp /\ n.ref # n.cp
      /\ n.kind = "claimed" => job'[Wanted(n)[1]][Wanted(n)[2]].st = "none"
  BY <1>1, <1>2, <1>5, <1>6, <1>7 DEF At
<1>9. CopyStays(op[o])'
  BY <1>2, <1>8 DEF CopyStays, HasCopy, CopyData, Relocating, HasWant, At, Wanted
<1> QED
  BY <1>1, <1>2, <1>4, <1>9, OwnKeeps

LEMMA UpdateDataKeeps == ASSUME Base, ~SlowOps, NEW o \in Op, UpdateData(o) PROVE LockKeeps'
<1> DEFINE p == op[o]
           n == op'[o]
<1>0. /\ Typed /\ p \in Operation /\ Shape(p) /\ p.d \in Data /\ p.prev \in Data
      /\ ReadStill(p) /\ CopyStays(p) /\ Apart(p) /\ (Unused(p) => UnusedIs(p))
  BY BaseIs
<1>1. p.pc = "update" /\ p.pc \notin Free /\ idx' = idx /\ p.ref \in Ref
  BY <1>0, UpdateDataDoes DEF Free
<1>2. CASE Becomes(o, "release", p.ref, p.prev, p.cp, NoRef)
  BY <1>1, <1>2, AfterwardsKeeps DEF Becomes
<1>3. CASE /\ JobBecomes(p.ref, [At(p.ref) EXCEPT !.data = Appended(p.prev, p.d, Hint(p))])
           /\ Becomes(o, "recheck", p.ref, p.prev, p.cp, p.res)
  <2> DEFINE j == [At(p.ref) EXCEPT !.data = Appended(p.prev, p.d, Hint(p))]
  <2>1. j.st = At(p.ref).st /\ j.data = Appended(p.prev, p.d, Hint(p))
    BY <1>0, <1>1, PlaceIs DEF Job
  <2> DEFINE new == Appended(p.prev, p.d, Hint(p))
  <2>a. SeqSet(new.msgs) = SeqSet(p.prev.msgs) \cup SeqSet(p.d.msgs)
    BY <1>0, AppendedMsgs
  <2>2. SeqSet(p.d.msgs) \subseteq SeqSet(j.data.msgs)
    BY <2>1, <2>a
  <2>3. \A s \in Ref : job'[s[1]][s[2]] = IF s = p.ref THEN j ELSE At(s)
    BY <1>3 DEF JobBecomes, At
  <2> HIDE DEF j
  <2>4. At(p.ref).st # "none"
    BY <1>0, <1>1 DEF ReadStill
  <2>5. /\ n.pc = "recheck" /\ n.ref = p.ref /\ n.kind = p.kind /\ n.d = p.d /\ n.cp = p.cp
        /\ Wanted(n) = Wanted(p) /\ \A x \in Op : x # o => op'[x] = op[x]
    BY <1>3 DEF Becomes, Wanted
  <2>6. ReadStill(op[o])'
    BY <1>1, <2>1, <2>2, <2>3, <2>4, <2>5 DEF ReadStill, At
  <2>7. p.kind = "merge" => /\ At(p.cp).st = "held" /\ At(p.cp).data = p.d /\ idx # p.cp
                            /\ p.ref # p.cp /\ p.cp \in Ref
    BY <1>0, <1>1, RefsAre DEF CopyStays, HasCopy, CopyData, Relocating, HasWant, Appending
  <2>8. p.kind = "claimed" => At(Wanted(p)).st = "none" /\ Wanted(p) \in Ref
    BY <1>0, <1>1, RefsAre DEF CopyStays, OpenPcs
  <2>9. /\ n.kind = "merge" => /\ job'[n.cp[1]][n.cp[2]].st = "held" /\ job'[n.cp[1]][n.cp[2]].data = n.d
                               /\ idx' # n.cp /\ n.ref # n.cp
        /\ n.kind = "claimed" => job'[Wanted(n)[1]][Wanted(n)[2]].st = "none"
    BY <1>1, <2>3, <2>4, <2>5, <2>7, <2>8
  <2>10. CopyStays(op[o])'
    BY <2>5, <2>9 DEF CopyStays, HasCopy, CopyData, Relocating, HasWant, At, Wanted
  <2> QED
    BY <1>1, <2>5, <2>6, <2>10, OwnKeeps
<1> QED
  BY <1>0, <1>2, <1>3, UpdateDataDoes

LEMMA RecheckKeeps == ASSUME Base, ~SlowOps, NEW o \in Op, Recheck(o) PROVE LockKeeps'
<1> DEFINE p == op[o]
           n == op'[o]
<1>0. /\ Typed /\ p \in Operation /\ Shape(p) /\ p.d \in Data /\ p.prev \in Data
      /\ ReadStill(p) /\ CopyStays(p) /\ Apart(p) /\ (Unused(p) => UnusedIs(p))
  BY BaseIs
<1>1. p.pc = "recheck" /\ p.pc \notin Free /\ job' = job /\ idx' = idx
  BY <1>0, RecheckDoes DEF Free
<1>2. CASE Becomes(o, AppendedThen(p), p.ref, p.prev, p.cp, p.ref)
  BY <1>1, <1>2, AppendedKeeps
<1>3. CASE Becomes(o, NotAppended(p), p.ref, p.prev, p.cp, p.res)
  <2>1. CASE p.kind = "merge"
    BY <1>1, <1>3, <2>1, AfterwardsKeeps DEF Becomes, NotAppended
  <2>2. CASE p.kind # "merge"
    <3>1. At(Wanted(p)).st = "none"
      <4>1. p.kind = "claimed" => At(Wanted(p)).st = "none"
        BY <1>0, <1>1 DEF CopyStays, OpenPcs
      <4>2. p.kind # "claimed" => HasWant(p) /\ Unused(p) /\ ~HasCopy(p)
        BY <1>0, <1>1, <2>2 DEF Shape, KindPc, HasWant, Unused, HasCopy, OpenPcs, CopyPcs
      <4> QED
        BY <4>1, <4>2, WantedGone
    <3>2. n.pc = "index" /\ Wanted(n) = Wanted(p) /\ n.kind = p.kind
      BY <1>3, <2>2 DEF Becomes, NotAppended, Wanted
    <3>3. ReadStill(op[o])'
      BY <3>2 DEF ReadStill
    <3>4. job'[Wanted(n)[1]][Wanted(n)[2]].st = "none"
      BY <1>1, <3>1, <3>2 DEF At
    <3>5. CopyStays(op[o])'
      BY <2>2, <3>2, <3>4 DEF CopyStays, HasCopy, At, Wanted
    <3> QED
      BY <1>1, <1>3, <3>3, <3>5, OwnKeeps DEF Becomes
  <2> QED
    BY <2>1, <2>2
<1> QED
  BY <1>0, <1>2, <1>3, RecheckDoes

LEMMA IndexKeeps == ASSUME Base, ~SlowOps, NEW o \in Op, Index(o) PROVE LockKeeps'
<1> DEFINE p == op[o]
           n == op'[o]
<1>0. /\ Typed /\ p \in Operation /\ Shape(p) /\ p.d \in Data /\ p.prev \in Data
      /\ ReadStill(p) /\ CopyStays(p) /\ Apart(p) /\ (Unused(p) => UnusedIs(p))
  BY BaseIs
<1>1. p.pc = "index" /\ p.pc \notin Free /\ job' = job
      /\ Becomes(o, "add", p.ref, p.prev, p.cp, p.res)
  BY <1>0, IndexDoes DEF Free
<1>2. p.kind # "merge" /\ At(Wanted(p)).st = "none"
  BY <1>0, <1>1 DEF Shape, KindPc, OpenPcs, CopyPcs, CopyStays
<1>3. n.pc = "add" /\ n.kind = p.kind /\ Wanted(n) = Wanted(p) /\ \A x \in Op : x # o => op'[x] = op[x]
  BY <1>1 DEF Becomes, Wanted
<1>4. job'[Wanted(n)[1]][Wanted(n)[2]].st = "none"
  BY <1>1, <1>2, <1>3 DEF At
<1>5. ReadStill(op[o])' /\ CopyStays(op[o])'
  BY <1>2, <1>3, <1>4 DEF ReadStill, CopyStays, HasCopy, At, Wanted
<1> QED
  BY <1>1, <1>3, <1>5, OwnKeeps

LEMMA CheckClaimedKeeps == ASSUME Base, ~SlowOps, NEW o \in Op, CheckClaimed(o) PROVE LockKeeps'
<1> DEFINE p == op[o]
           n == op'[o]
<1>0. /\ Typed /\ p \in Operation /\ Shape(p) /\ p.d \in Data /\ p.prev \in Data
      /\ ReadStill(p) /\ CopyStays(p) /\ Apart(p) /\ (Unused(p) => UnusedIs(p))
  BY BaseIs
<1>1. /\ p.pc = "check" /\ p.kind = "claimed" /\ p.pc \notin Free /\ job' = job /\ ToMove(p)
      /\ Becomes(o, IF idx # NoRef /\ idx # p.src THEN "look" ELSE "index", p.ref, p.prev, p.cp, p.res)
  BY <1>0, CheckClaimedDoes DEF Free
<1>2. At(Wanted(p)).st = "none"
  BY <1>0, <1>1 DEF ToMove, Shape, Wanted
<1>3. n.pc \in {"look", "index"} /\ n.kind = "claimed" /\ Wanted(n) = Wanted(p) /\ \A x \in Op : x # o => op'[x] = op[x]
  BY <1>1 DEF Becomes, Wanted
<1>4. job'[Wanted(n)[1]][Wanted(n)[2]].st = "none"
  BY <1>1, <1>2, <1>3 DEF At
<1>5. ReadStill(op[o])' /\ CopyStays(op[o])'
  BY <1>3, <1>4 DEF ReadStill, CopyStays, HasCopy, At, Wanted
<1> QED
  BY <1>1, <1>3, <1>5, OwnKeeps

\* What stays of an operation's record when a step changes its place alone.
LEMMA SameRecord ==
    ASSUME NEW o \in Op, NEW l, NEW res, Becomes(o, l, op[o].ref, op[o].prev, op[o].cp, res)
    PROVE  LET p == op[o]
               n == op'[o]
           IN
           /\ n.pc = l /\ n.res = res /\ n.kind = p.kind /\ n.cp = p.cp /\ n.d = p.d /\ n.src = p.src
           /\ n.ref = p.ref /\ n.id = p.id /\ n.want = p.want /\ n.by = p.by /\ n.prev = p.prev
           /\ Wanted(n) = Wanted(p) /\ Original(n) = Original(p)
           /\ Relocating(n) = Relocating(p) /\ HasWant(n) = HasWant(p) /\ CopyData(n) = CopyData(p)
           /\ \A x \in Op : x # o => op'[x] = op[x]
<1> DEFINE p == op[o]
           n == op'[o]
<1>1. /\ n.pc = l /\ n.res = res /\ n.kind = p.kind /\ n.cp = p.cp /\ n.d = p.d /\ n.src = p.src
      /\ n.ref = p.ref /\ n.id = p.id /\ n.want = p.want /\ n.by = p.by /\ n.prev = p.prev
      /\ \A x \in Op : x # o => op'[x] = op[x]
  BY DEF Becomes
<1> HIDE DEF p, n
<1>2. Relocating(n) = Relocating(p) /\ HasWant(n) = HasWant(p) /\ Hint(n) = Hint(p)
  BY <1>1 DEF Relocating, HasWant, Hint
<1>3. Wanted(n) = Wanted(p) /\ Original(n) = Original(p) /\ CopyData(n) = CopyData(p)
  BY <1>1, <1>2 DEF Wanted, Original, CopyData
<1> QED
  BY <1>1, <1>2, <1>3 DEF p, n

LEMMA OutsideKeeps ==
    ASSUME Base, JobsKept, idx' \in {idx, NoRef}, \A x \in Op : op'[x] = op[x] \/ op'[x].pc \in Free
    PROVE  LockKeeps'
<1> SUFFICES ASSUME NEW x \in Op PROVE ReadStill(op[x])' /\ CopyStays(op[x])'
  BY DEF LockKeeps
<1>1. CASE op'[x] = op[x]
  BY <1>1, OtherKeeps
<1>2. CASE op'[x].pc \in Free
  BY <1>2 DEF ReadStill, CopyStays, HasCopy, Free, OpenPcs
<1> QED
  BY <1>1, <1>2

LEMMA MarkFailedKeeps == ASSUME Base, NEW o \in Op, MarkFailed(o) PROVE LockKeeps'
<1>1. job' = job /\ idx' = idx /\ OpBecomes(o, IdleOp)
  BY BaseTyped, MarkFailedDoes
<1>2. JobsKept
  BY <1>1 DEF JobsKept
<1>3. \A x \in Op : op'[x] = op[x] \/ op'[x].pc \in Free
  BY <1>1 DEF OpBecomes, IdleOp, Free
<1> QED
  BY <1>1, <1>2, <1>3, OutsideKeeps

\* A copy is not the job it is made of.
LEMMA OriginalApart ==
    ASSUME Base, NEW o \in Op, op[o].pc \in CopyPcs
    PROVE  Original(op[o]) # op[o].cp /\ Original(op[o]) \in Ref /\ op[o].cp \in Ref
<1> DEFINE p == op[o]
<1>1. Shape(p) /\ Apart(p) /\ Original(p) \in Ref /\ p.cp \in Ref
  BY BaseIs, RefsAre
<1>2. CASE Relocating(p)
  BY <1>1, <1>2 DEF Relocating, Apart, Original, Wanted, Shape
<1>3. CASE p.kind = "merge"
  BY <1>1, <1>3 DEF Relocating, HasWant, Apart, Original, Shape, CopyPcs
<1>4. CASE p.kind = "swap"
  <2>1. p.cp = <<p.want, p.src[2]>> /\ p.want \in Label /\ p.src[1] \in Node /\ Original(p) = p.src
    BY <1>1, <1>4, TurnQueueAssumption DEF Relocating, HasWant, Original, Shape, CopyPcs
  <2> QED
    BY <1>1, <2>1, TurnQueueAssumption
<1> QED
  BY <1>1, <1>2, <1>3, <1>4 DEF Shape, KindPc, HasWant, Relocating, CopyPcs, OpenPcs

LEMMA CheckMergeKeeps == ASSUME Base, ~SlowOps, NEW o \in Op, CheckMerge(o) PROVE LockKeeps'
<1> DEFINE p == op[o]
           n == [p EXCEPT !.pc = "copy", !.kind = "merge", !.id = nextId,
                          !.d = At(p.src).data, !.cp = <<idx[1], nextId>>]
<1>0. Typed /\ p \in Operation /\ IdsMinted
  BY BaseIs DEF Base
<1>1. /\ p.pc = "check" /\ At(p.src).st # "none" /\ IndexedElsewhere(p) /\ idx \in Ref
      /\ <<idx[1], nextId>> \in Ref /\ OpBecomes(o, n) /\ job' = job /\ idx' = idx
  BY <1>0, CheckMergeDoes
<1>2. /\ n.pc = "copy" /\ n.kind = "merge" /\ n.d = At(p.src).data /\ n.cp = <<idx[1], nextId>>
      /\ n.src = p.src
  BY <1>0 DEF Operation
<1> HIDE DEF n
<1>3. At(n.cp).st = "none" /\ idx # n.cp
  <2>1. nextId \in Nat /\ idx[2] \in Nat /\ idx[2] < nextId /\ n.cp[2] = nextId /\ n.cp \in Ref
    BY <1>0, <1>1, <1>2, RefIs, TurnQueueAssumption DEF IdsMinted, IndexedElsewhere, Typed, TypeOK, Id
  <2> QED
    BY <1>0, <2>1 DEF IdsMinted
<1>4. op'[o] = n /\ \A x \in Op : x # o => op'[x] = op[x]
  BY <1>1 DEF OpBecomes
<1>5. ReadStill(op[o])'
  BY <1>1, <1>2, <1>4 DEF ReadStill, At, Original, Relocating, HasWant
<1>6. CopyStays(op[o])'
  BY <1>1, <1>2, <1>3, <1>4 DEF CopyStays, HasCopy, At, Appending
<1> QED
  BY <1>1, <1>4, <1>5, <1>6, OwnKeeps DEF Free

LEMMA CheckSwapKeeps == ASSUME Base, ~SlowOps, NEW o \in Op, CheckSwap(o) PROVE LockKeeps'
<1> DEFINE p == op[o]
           n == [p EXCEPT !.pc = "copy", !.kind = "swap", !.id = p.src[2],
                          !.d = At(p.src).data, !.cp = <<p.want, p.src[2]>>]
<1>0. Typed /\ p \in Operation
  BY BaseIs
<1>1. /\ p.pc = "check" /\ At(p.src).st # "none" /\ ToMove(p)
      /\ OpBecomes(o, n) /\ job' = job /\ idx' = idx
  BY <1>0, CheckSwapDoes
<1>2. /\ n.pc = "copy" /\ n.kind = "swap" /\ n.d = At(p.src).data /\ n.cp = <<p.want, p.src[2]>>
      /\ n.src = p.src
  BY <1>0 DEF Operation
<1> HIDE DEF n
<1>3. At(n.cp).st = "none"
  BY <1>1, <1>2 DEF ToMove
<1>4. op'[o] = n /\ \A x \in Op : x # o => op'[x] = op[x]
  BY <1>1 DEF OpBecomes
<1>5. ReadStill(op[o])'
  BY <1>1, <1>2, <1>4 DEF ReadStill, At, Original, Relocating, HasWant
<1>6. CopyStays(op[o])'
  BY <1>1, <1>2, <1>3, <1>4 DEF CopyStays, HasCopy, At
<1> QED
  BY <1>1, <1>4, <1>5, <1>6, OwnKeeps DEF Free

LEMMA AddCopyKeeps == ASSUME Base, ~SlowOps, NEW o \in Op, AddCopy(o) PROVE LockKeeps'
<1> DEFINE p == op[o]
           n == op'[o]
           r == Original(p)
           k == FreshJob("held", CopyData(p))
<1>0. Typed /\ ReadStill(p) /\ CopyStays(p)
  BY BaseIs
<1>1. /\ p.pc = "copy" /\ p.cp \in Ref /\ Becomes(o, "markcopy", p.ref, p.prev, p.cp, p.res)
      /\ idx' = idx
      /\ IF At(p.cp).st = "none" THEN JobBecomes(p.cp, k) ELSE job' = job
  BY <1>0, AddCopyDoes
<1>2. At(p.cp).st = "none" /\ JobBecomes(p.cp, k)
  BY <1>0, <1>1 DEF CopyStays
<1>3. k.st = "held" /\ k.data = CopyData(p)
  BY DEF FreshJob, NoJob
<1>4. r \in Ref /\ r # p.cp /\ At(r).st # "none" /\ At(r).data = IF Relocating(p) THEN p.prev ELSE p.d
  BY <1>0, <1>1, OriginalApart DEF ReadStill, CopyPcs
<1> HIDE DEF k, r
<1>5. /\ job'[p.cp[1]][p.cp[2]].st = "held" /\ job'[p.cp[1]][p.cp[2]].data = CopyData(p)
      /\ job'[r[1]][r[2]].st # "none"
      /\ job'[r[1]][r[2]].data = IF Relocating(p) THEN p.prev ELSE p.d
  BY <1>1, <1>2, <1>3, <1>4 DEF JobBecomes, At
<1>6. /\ n.pc = "markcopy" /\ n.kind = p.kind /\ n.cp = p.cp /\ n.d = p.d /\ n.prev = p.prev
      /\ Original(n) = r /\ Relocating(n) = Relocating(p) /\ CopyData(n) = CopyData(p)
      /\ \A x \in Op : x # o => op'[x] = op[x]
  BY <1>1, SameRecord DEF r
<1>7. p.kind = "merge" => idx # p.cp
  BY <1>0, <1>1 DEF CopyStays
<1>8. ReadStill(op[o])'
  BY <1>5, <1>6 DEF ReadStill, At, Original, Relocating, HasWant
<1>9. CopyStays(op[o])'
  BY <1>1, <1>5, <1>6, <1>7 DEF CopyStays, HasCopy, At, CopyData, Relocating, HasWant, Hint, Appending, OpenPcs
<1> QED
  BY <1>1, <1>6, <1>8, <1>9, OwnKeeps DEF Free

LEMMA MarkCopyKeeps == ASSUME Base, ~SlowOps, NEW o \in Op, MarkCopy(o) PROVE LockKeeps'
<1> DEFINE p == op[o]
           n == op'[o]
           r == Original(p)
<1>0. Typed /\ ReadStill(p) /\ CopyStays(p)
  BY BaseIs
<1>1. /\ p.pc = "markcopy" /\ Becomes(o, "take", p.ref, p.prev, p.cp, p.res)
      /\ job' = job /\ idx' = idx
  BY <1>0, MarkCopyDoes
<1>2. /\ n.pc = "take" /\ n.kind = p.kind /\ n.cp = p.cp /\ n.d = p.d /\ n.prev = p.prev
      /\ Original(n) = r /\ Relocating(n) = Relocating(p) /\ CopyData(n) = CopyData(p)
      /\ \A x \in Op : x # o => op'[x] = op[x]
  BY <1>1, SameRecord
<1> HIDE DEF r
<1>3. /\ job'[r[1]][r[2]].st # "none"
      /\ job'[r[1]][r[2]].data = IF Relocating(p) THEN p.prev ELSE p.d
  BY <1>0, <1>1 DEF ReadStill, At, r
<1>4. /\ job'[p.cp[1]][p.cp[2]].st = "held" /\ job'[p.cp[1]][p.cp[2]].data = CopyData(p)
      /\ p.kind = "merge" => idx # p.cp
  BY <1>0, <1>1 DEF CopyStays, HasCopy, At
<1>5. ReadStill(op[o])'
  BY <1>2, <1>3 DEF ReadStill, At, Original, Relocating, HasWant
<1>6. CopyStays(op[o])'
  BY <1>1, <1>2, <1>4 DEF CopyStays, HasCopy, At, CopyData, Relocating, HasWant, Hint, Appending, OpenPcs
<1> QED
  BY <1>1, <1>2, <1>5, <1>6, OwnKeeps DEF Free

LEMMA TakeKeeps == ASSUME Base, ~SlowOps, NEW o \in Op, Take(o) PROVE LockKeeps'
<1> DEFINE p == op[o]
           n == op'[o]
           r == Original(p)
           l == IF ~Takeable(p, At(r)) \/ r[2] \in turnDone THEN "drop"
                ELSE IF p.kind = "merge" THEN "look" ELSE "promote"
<1>0. Typed /\ ReadStill(p) /\ CopyStays(p)
  BY BaseIs
<1>1. /\ p.pc = "take" /\ r \in Ref /\ Becomes(o, l, p.ref, p.prev, p.cp, p.res) /\ idx' = idx
      /\ IF Takeable(p, At(r)) THEN JobBecomes(r, NoJob) ELSE job' = job
  BY <1>0, TakeDoes
<1>2. /\ n.pc = l /\ n.kind = p.kind /\ n.cp = p.cp /\ n.d = p.d /\ n.prev = p.prev
      /\ Original(n) = r /\ Relocating(n) = Relocating(p) /\ CopyData(n) = CopyData(p)
      /\ \A x \in Op : x # o => op'[x] = op[x]
  <2>1. Becomes(o, l, p.ref, p.prev, p.cp, p.res)
    BY <1>1
  <2>2. n.pc = l /\ n.kind = p.kind /\ n.cp = p.cp /\ n.d = p.d /\ n.prev = p.prev
        /\ \A x \in Op : x # o => op'[x] = op[x]
    BY <2>1 DEF Becomes
  <2> HIDE DEF l
  <2>3. Original(n) = Original(p) /\ Relocating(n) = Relocating(p) /\ CopyData(n) = CopyData(p)
    BY <2>1, SameRecord
  <2> QED
    BY <2>2, <2>3
<1>a. r # p.cp /\ p.cp \in Ref
  BY <1>1, OriginalApart DEF CopyPcs
<1>b. l = "drop" \/ (l = "look" /\ p.kind = "merge") \/ l = "promote"
  OBVIOUS
<1> HIDE DEF r, l
<1>3. job'[r[1]][r[2]].st # "none" =>
          job'[r[1]][r[2]].data = IF Relocating(p) THEN p.prev ELSE p.d
  BY <1>0, <1>1 DEF ReadStill, At, r, JobBecomes, NoJob
<1>4. /\ job'[p.cp[1]][p.cp[2]].st = "held" /\ job'[p.cp[1]][p.cp[2]].data = CopyData(p)
      /\ p.kind = "merge" => idx # p.cp
  BY <1>0, <1>1, <1>a DEF CopyStays, HasCopy, At, JobBecomes
<1>5. ReadStill(op[o])'
  BY <1>2, <1>3, <1>b DEF ReadStill, At, Original, Relocating, HasWant
<1>6. CopyStays(op[o])'
  BY <1>1, <1>2, <1>4, <1>b DEF CopyStays, HasCopy, At, CopyData, Relocating, HasWant, Hint, Appending, OpenPcs
<1> QED
  BY <1>1, <1>2, <1>5, <1>6, OwnKeeps DEF Free

LEMMA DropCopyKeeps == ASSUME Base, ~SlowOps, NEW o \in Op, DropCopy(o) PROVE LockKeeps'
<1> DEFINE p == op[o]
           n == op'[o]
<1>0. Typed /\ CopyStays(p)
  BY BaseIs
<1>1. /\ p.pc = "drop" /\ p.cp \in Ref /\ Becomes(o, "unmark", p.ref, p.prev, p.cp, p.res) /\ idx' = idx
      /\ IF At(p.cp).st = "active" /\ At(p.cp).locked THEN job' = job ELSE JobBecomes(p.cp, NoJob)
  BY <1>0, DropCopyDoes
<1>2. At(p.cp).st = "held"
  BY <1>0, <1>1 DEF CopyStays, HasCopy
<1>3. job'[p.cp[1]][p.cp[2]].st = "none"
  BY <1>1, <1>2 DEF JobBecomes, NoJob
<1>4. n.pc = "unmark" /\ n.cp = p.cp /\ n.kind = p.kind /\ \A x \in Op : x # o => op'[x] = op[x]
  BY <1>1, SameRecord
<1>5. ReadStill(op[o])' /\ CopyStays(op[o])'
  BY <1>3, <1>4 DEF ReadStill, CopyStays, HasCopy, At, OpenPcs
<1> QED
  BY <1>1, <1>4, <1>5, OwnKeeps DEF Free

LEMMA UnmarkKeeps == ASSUME Base, ~SlowOps, NEW o \in Op, Unmark(o) PROVE LockKeeps'
<1> DEFINE p == op[o]
           n == op'[o]
<1>0. Typed /\ CopyStays(p) /\ Shape(p)
  BY BaseIs
<1>1. p.pc = "unmark" /\ job' = job /\ idx' = idx
  BY <1>0, UnmarkDoes
<1>2. CASE HasWant(p) /\ Becomes(o, "index", p.ref, p.prev, NoRef, NoRef)
  <2>1. /\ n.pc = "index" /\ n.kind = p.kind /\ n.kind # "merge" /\ n.want = p.want /\ n.id = p.id
        /\ \A x \in Op : x # o => op'[x] = op[x]
    BY <1>2 DEF Becomes, HasWant
  <2>2. p.cp = Wanted(p)
    BY <1>0, <1>1, <1>2 DEF Shape, HasWant, CopyPcs
  <2>3. job'[n.want][n.id].st = "none"
    BY <1>0, <1>1, <2>1, <2>2 DEF CopyStays, At, Wanted
  <2>4. ReadStill(op[o])' /\ CopyStays(op[o])'
    BY <2>1, <2>3 DEF ReadStill, CopyStays, HasCopy, At, Wanted
  <2> QED
    BY <1>1, <2>1, <2>4, OwnKeeps DEF Free
<1>3. CASE Becomes(o, "release", p.ref, p.prev, NoRef, p.src)
  BY <1>1, <1>3, AfterwardsKeeps DEF Becomes, Free
<1> QED
  BY <1>0, <1>2, <1>3, UnmarkDoes

LEMMA TakeHoldKeeps == ASSUME Base, ~SlowOps, NEW o \in Op, TakeHold(o) PROVE LockKeeps'
<1> DEFINE p == op[o]
           n == op'[o]
<1>0. Typed /\ CopyStays(p) /\ Shape(p)
  BY BaseIs
<1>1. /\ p.pc = "takehold" /\ p.cp \in Ref /\ Becomes(o, "markhold", p.ref, p.prev, p.cp, p.res) /\ idx' = idx
      /\ IF Pending(At(p.cp)) THEN JobBecomes(p.cp, NoJob) ELSE job' = job
  BY <1>0, TakeHoldDoes
<1>2. p.kind = "merge"
  BY <1>0, <1>1 DEF Shape, KindPc, OpenPcs, CopyPcs
<1>3. At(p.cp).st = "held"
  BY <1>0, <1>1, <1>2 DEF CopyStays, HasCopy
<1>4. job'[p.cp[1]][p.cp[2]].st = "none"
  BY <1>1, <1>3 DEF JobBecomes, NoJob, Pending
<1>5. n.pc = "markhold" /\ n.cp = p.cp /\ n.kind = "merge" /\ \A x \in Op : x # o => op'[x] = op[x]
  BY <1>1, <1>2, SameRecord
<1>6. ReadStill(op[o])' /\ CopyStays(op[o])'
  BY <1>4, <1>5 DEF ReadStill, CopyStays, HasCopy, At, OpenPcs
<1> QED
  BY <1>1, <1>5, <1>6, OwnKeeps DEF Free

LEMMA MarkHoldKeeps == ASSUME Base, ~SlowOps, NEW o \in Op, MarkHold(o) PROVE LockKeeps'
<1> DEFINE p == op[o]
           n == op'[o]
<1>0. Typed /\ CopyStays(p) /\ Shape(p)
  BY BaseIs
<1>1. /\ p.pc = "markhold" /\ Becomes(o, "marksrc", p.ref, p.prev, p.cp, p.res) /\ idx' = idx /\ job' = job
  BY <1>0, MarkHoldDoes
<1>2. p.kind = "merge"
  BY <1>0, <1>1 DEF Shape, KindPc, OpenPcs, CopyPcs
<1>3. job'[p.cp[1]][p.cp[2]].st = "none"
  BY <1>0, <1>1, <1>2 DEF CopyStays, At
<1>4. n.pc = "marksrc" /\ n.cp = p.cp /\ n.kind = "merge" /\ \A x \in Op : x # o => op'[x] = op[x]
  BY <1>1, <1>2, SameRecord
<1>5. ReadStill(op[o])' /\ CopyStays(op[o])'
  BY <1>3, <1>4 DEF ReadStill, CopyStays, HasCopy, At, OpenPcs
<1> QED
  BY <1>1, <1>4, <1>5, OwnKeeps DEF Free

-----------------------------------------------------------------------------
\* What an operation's step may make of a job.
Grown(j, k) ==
    /\ j.st # "none" /\ k.st = j.st /\ k.ph = j.ph /\ k.by = j.by /\ k.snap = j.snap /\ k.locked = j.locked
    /\ k.data.label = j.data.label /\ k.data.tok = j.data.tok
    /\ SeqSet(j.data.msgs) \subseteq SeqSet(k.data.msgs)
Added(j, k) == j.st = "none" /\ k.st \in {"waiting", "held"} /\ k.by = NoNode /\ k.ph = "none"
Removed(j, k) == k = NoJob /\ (Pending(j) \/ (j.st = "active" /\ ~j.locked))
Promoted(j, k) == j.st = "held" /\ k.st = "waiting" /\ k.ph = j.ph /\ k.by = j.by /\ k.data = j.data
Returned(j, k) ==
    /\ j.st = "active" /\ j.ph = "moving" /\ k.st = "active" /\ k.ph \in {"claimed", "moved"}
    /\ k.by = j.by /\ k.snap = j.snap /\ k.locked = j.locked /\ k.data = j.data

Touches(r, k) ==
    /\ r \in Ref /\ JobBecomes(r, k)
    /\ \/ Grown(At(r), k) \/ Added(At(r), k) \/ Removed(At(r), k) \/ Promoted(At(r), k) \/ Returned(At(r), k)

LEMMA UpdateDataTouches ==
    ASSUME Base, NEW o \in Op, UpdateData(o)
    PROVE  LET p == op[o]
               k == [At(p.ref) EXCEPT !.data = Appended(p.prev, p.d, Hint(p))]
           IN  /\ p.ref \in Ref /\ JobBecomes(p.ref, k) /\ Grown(At(p.ref), k)
               /\ Becomes(o, "recheck", p.ref, p.prev, p.cp, p.res)
<1> DEFINE p == op[o]
           j == At(p.ref)
           new == Appended(p.prev, p.d, Hint(p))
           k == [j EXCEPT !.data = new]
<1>0. Typed /\ p.d \in Data /\ p.prev \in Data /\ ReadStill(p)
  BY BaseIs
<1>1. p.pc = "update" /\ p.ref \in Ref
  BY <1>0, UpdateDataDoes
<1>2. j.st # "none" /\ j.data = p.prev /\ j \in Job
  BY <1>0, <1>1, PlaceIs DEF ReadStill
<1>3. new.label = p.prev.label /\ new.tok = p.prev.tok /\ SeqSet(new.msgs) = SeqSet(p.prev.msgs) \cup SeqSet(p.d.msgs)
  <2>1. new.label = p.prev.label
    BY <1>0, AppendedLabel
  <2>2. new.tok = p.prev.tok
    BY <1>0, AppendedTok
  <2>3. SeqSet(new.msgs) = SeqSet(p.prev.msgs) \cup SeqSet(p.d.msgs)
    BY <1>0, AppendedMsgs
  <2> QED
    BY <2>1, <2>2, <2>3
<1>4. JobBecomes(p.ref, k) /\ Becomes(o, "recheck", p.ref, p.prev, p.cp, p.res)
  BY <1>0, <1>2, UpdateDataDoes
<1> HIDE DEF new
<1>5. k.st = j.st /\ k.ph = j.ph /\ k.by = j.by /\ k.snap = j.snap /\ k.locked = j.locked /\ k.data = new
  BY <1>2 DEF Job
<1> HIDE DEF k
<1>6. Grown(j, k)
  BY <1>2, <1>3, <1>5 DEF Grown
<1> QED
  BY <1>1, <1>4, <1>6 DEF k, new

LEMMA AddTouches ==
    ASSUME Base, NEW o \in Op, Add(o)
    PROVE  LET p == op[o]
               k == FreshJob("waiting", p.d)
           IN  Wanted(p) \in Ref /\ JobBecomes(Wanted(p), k) /\ Added(At(Wanted(p)), k) /\ k.data = p.d
<1> DEFINE p == op[o]
           k == FreshJob("waiting", p.d)
<1>0. Typed /\ CopyStays(p)
  BY BaseIs
<1>1. /\ p.pc = "add" /\ Wanted(p) \in Ref
      /\ IF At(Wanted(p)).st = "none" THEN JobBecomes(Wanted(p), k) ELSE job' = job
  BY <1>0, AddDoes
<1>2. At(Wanted(p)).st = "none"
  BY <1>0, <1>1 DEF CopyStays
<1>3. k.st = "waiting" /\ k.by = NoNode /\ k.ph = "none" /\ k.data = p.d
  BY DEF FreshJob, NoJob
<1> HIDE DEF k
<1>4. Added(At(Wanted(p)), k)
  BY <1>2, <1>3 DEF Added
<1> QED
  BY <1>1, <1>2, <1>3, <1>4 DEF k

LEMMA AddCopyTouches ==
    ASSUME Base, NEW o \in Op, AddCopy(o)
    PROVE  LET p == op[o]
               k == FreshJob("held", CopyData(p))
           IN  p.cp \in Ref /\ JobBecomes(p.cp, k) /\ Added(At(p.cp), k) /\ k.st = "held" /\ k.data = CopyData(p)
<1> DEFINE p == op[o]
           k == FreshJob("held", CopyData(p))
<1>0. Typed /\ CopyStays(p)
  BY BaseIs
<1>1. /\ p.pc = "copy" /\ p.cp \in Ref
      /\ IF At(p.cp).st = "none" THEN JobBecomes(p.cp, k) ELSE job' = job
  BY <1>0, AddCopyDoes
<1>2. At(p.cp).st = "none"
  BY <1>0, <1>1 DEF CopyStays
<1>3. k.st = "held" /\ k.by = NoNode /\ k.ph = "none" /\ k.data = CopyData(p)
  BY DEF FreshJob, NoJob
<1> HIDE DEF k
<1>4. Added(At(p.cp), k)
  BY <1>2, <1>3 DEF Added
<1> QED
  BY <1>1, <1>2, <1>3, <1>4 DEF k

LEMMA TakeTouches ==
    ASSUME Base, NEW o \in Op, Take(o)
    PROVE  LET p == op[o]
               r == Original(p)
           IN  r \in Ref /\ \/ JobBecomes(r, NoJob) /\ Takeable(p, At(r)) /\ Removed(At(r), NoJob)
                            \/ job' = job /\ ~Takeable(p, At(r))
BY BaseTyped, TakeDoes DEF Removed, Takeable

LEMMA DropCopyTouches ==
    ASSUME Base, NEW o \in Op, DropCopy(o)
    PROVE  LET p == op[o] IN p.cp \in Ref /\ JobBecomes(p.cp, NoJob) /\ Removed(At(p.cp), NoJob)
<1> DEFINE p == op[o]
<1>0. Typed /\ CopyStays(p)
  BY BaseIs
<1>1. /\ p.pc = "drop" /\ p.cp \in Ref
      /\ IF At(p.cp).st = "active" /\ At(p.cp).locked THEN job' = job ELSE JobBecomes(p.cp, NoJob)
  BY <1>0, DropCopyDoes
<1>2. At(p.cp).st = "held"
  BY <1>0, <1>1 DEF CopyStays, HasCopy
<1> QED
  BY <1>1, <1>2 DEF Removed, Pending

LEMMA TakeHoldTouches ==
    ASSUME Base, NEW o \in Op, TakeHold(o)
    PROVE  LET p == op[o] IN
           p.cp \in Ref /\ p.kind = "merge" /\ JobBecomes(p.cp, NoJob) /\ Removed(At(p.cp), NoJob)
<1> DEFINE p == op[o]
<1>0. Typed /\ CopyStays(p) /\ Shape(p)
  BY BaseIs
<1>1. /\ p.pc = "takehold" /\ p.cp \in Ref
      /\ IF Pending(At(p.cp)) THEN JobBecomes(p.cp, NoJob) ELSE job' = job
  BY <1>0, TakeHoldDoes
<1>2. p.kind = "merge"
  BY <1>0, <1>1 DEF Shape, KindPc, OpenPcs, CopyPcs
<1>3. At(p.cp).st = "held"
  BY <1>0, <1>1, <1>2 DEF CopyStays, HasCopy
<1> QED
  BY <1>1, <1>2, <1>3 DEF Removed, Pending

LEMMA PromoteTouches ==
    ASSUME Base, NEW o \in Op, Promote(o)
    PROVE  LET p == op[o]
               k == [At(p.cp) EXCEPT !.st = "waiting"]
           IN  p.cp \in Ref /\ \/ JobBecomes(p.cp, k) /\ Promoted(At(p.cp), k)
                               \/ job' = job
<1> DEFINE p == op[o]
           j == At(p.cp)
           k == [j EXCEPT !.st = "waiting"]
<1>0. Typed
  BY BaseIs
<1>1. /\ p.cp \in Ref /\ IF j.st = "held" THEN JobBecomes(p.cp, k) ELSE job' = job
  BY <1>0, PromoteDoes
<1>2. k.st = "waiting" /\ k.ph = j.ph /\ k.by = j.by /\ k.data = j.data
  BY <1>0, <1>1, PlaceIs DEF Job
<1> HIDE DEF k
<1> QED
  BY <1>1, <1>2 DEF Promoted, k

LEMMA ReleaseTouches ==
    ASSUME Base, NEW o \in Op, Release(o)
    PROVE  LET p == op[o]
               k == [At(p.src) EXCEPT !.ph = IF p.res = NoRef THEN "claimed" ELSE "moved"]
           IN  \/ p.kind # "claimed" /\ job' = job
               \/ /\ p.kind = "claimed" /\ p.src \in Ref /\ OpBecomes(o, IdleOp)
                  /\ JobBecomes(p.src, k) /\ Returned(At(p.src), k)
                  /\ k.ph = IF p.res = NoRef THEN "claimed" ELSE "moved"
<1> DEFINE p == op[o]
           j == At(p.src)
           ph == IF p.res = NoRef THEN "claimed" ELSE "moved"
           k == [j EXCEPT !.ph = ph]
<1>0. Typed /\ ClaimStays
  BY BaseIs DEF Base
<1>1. CASE p.kind # "claimed"
  BY <1>0, <1>1, ReleaseDoes
<1>2. CASE p.kind = "claimed"
  <2>1. p.src \in Ref /\ OpBecomes(o, IdleOp) /\ JobBecomes(p.src, k)
    BY <1>0, <1>2, ReleaseDoes
  <2>2. j.st = "active" /\ j.ph = "moving" /\ j \in Job
    BY <1>0, <1>2, <2>1, PlaceIs DEF ClaimStays
  <2>3. ph \in {"claimed", "moved"}
    OBVIOUS
  <2> HIDE DEF ph
  <2>4. k.st = j.st /\ k.ph = ph /\ k.by = j.by /\ k.snap = j.snap /\ k.locked = j.locked /\ k.data = j.data
    BY <2>2 DEF Job
  <2> HIDE DEF k
  <2>5. Returned(j, k)
    BY <2>2, <2>3, <2>4 DEF Returned
  <2> QED
    BY <1>2, <2>1, <2>4, <2>5 DEF k, ph
<1> QED
  BY <1>1, <1>2

-----------------------------------------------------------------------------
\* The record n an operation goes on with has nothing that p did not have.
Inherits(p, n) ==
    /\ OwnsId(n) => OwnsId(p) /\ n.id = p.id
    /\ Unused(n) => Unused(p) /\ n.d = p.d
    /\ Moves(n) => Moves(p) /\ n.src = p.src
    /\ n.kind \in {"claimed", "redispatch"} => n.kind = p.kind /\ n.by = p.by /\ n.d = p.d
    /\ n.kind \in {"reap", "swap"} => p.kind \in {"reap", "swap"} /\ n.want = p.want
    /\ n.pc = "acquire" /\ HasWant(n) => p.pc = "acquire" /\ HasWant(p)

LEMMA InheritsSelf == ASSUME NEW p PROVE Inherits(p, p)
BY DEF Inherits

LEMMA InheritsIdle == ASSUME NEW p PROVE Inherits(p, IdleOp)
<1>1. IdleOp.pc = "idle" /\ IdleOp.kind = "none"
  BY DEF IdleOp
<1> QED
  BY <1>1 DEF Inherits, OwnsId, Unused, Moves, HasWant

\* The operation of slot o goes on, with the rest of its record.
Onward(o) ==
    LET p == op[o]
        n == op'[o]
    IN  /\ \A x \in Op : x # o => op'[x] = op[x]
        /\ n.kind = p.kind /\ n.by = p.by /\ n.d = p.d /\ n.id = p.id
        /\ n.want = p.want /\ n.src = p.src /\ n.rescue = p.rescue

LEMMA BecomesOnward ==
    ASSUME NEW o \in Op, NEW l, NEW ref, NEW prev, NEW cp, NEW res, Becomes(o, l, ref, prev, cp, res)
    PROVE  Onward(o) /\ op'[o].pc = l
BY DEF Becomes, Onward

LEMMA OnwardInherits ==
    ASSUME NEW o \in Op, Onward(o), op'[o].pc # "acquire", Unused(op'[o]) => Unused(op[o])
    PROVE  Inherits(op[o], op'[o]) /\ \A x \in Op : x # o => op'[x] = op[x]
BY DEF Onward, Inherits, OwnsId, Moves, HasWant

\* What is common to the steps of an operation, but a merge's first.
Steps(o) ==
    /\ Inherits(op[o], op'[o]) /\ \A x \in Op : x # o => op'[x] = op[x]
    /\ UNCHANGED <<turnDone, up, silent, runsOn, budget, nextId>>

LEMMA AcquireInherits == ASSUME Base, NEW o \in Op, Acquire(o) PROVE Steps(o)
<1> DEFINE p == op[o]
           n == op'[o]
<1>0. Typed /\ Shape(p)
  BY BaseIs
<1>1. Onward(o) /\ p.kind = n.kind
  BY <1>0, AcquireDoes, BecomesOnward DEF Onward
<1>a. /\ n.pc # "acquire"
      /\ p.pc \in {"promote", "reindex", "release", "markfailed"} => n.pc \in {"reindex", "release"}
  BY <1>0, AcquireDoes DEF Becomes, AppendedThen, NotAppended, Shape, KindPc, OpenPcs, CopyPcs, HasWant
<1>2. Unused(n) => Unused(p)
  BY <1>1, <1>a DEF Onward, Unused, HasWant
<1>3. UNCHANGED <<turnDone, up, silent, runsOn, budget, nextId>>
  BY <1>0, AcquireDoes
<1> QED
  BY <1>1, <1>2, <1>3, <1>a, OnwardInherits DEF Steps

LEMMA RecordSendersInherits == ASSUME Base, NEW o \in Op, RecordSenders(o) PROVE Steps(o)
<1> DEFINE p == op[o]
           n == op'[o]
<1>0. Typed /\ Shape(p)
  BY BaseIs
<1>1. Onward(o) /\ p.kind = n.kind
  BY <1>0, RecordSendersDoes, BecomesOnward DEF Onward
<1>a. /\ n.pc # "acquire"
      /\ p.pc \in {"promote", "reindex", "release", "markfailed"} => n.pc \in {"reindex", "release"}
  BY <1>0, RecordSendersDoes DEF Becomes, AppendedThen, NotAppended, Shape, KindPc, OpenPcs, CopyPcs, HasWant
<1>2. Unused(n) => Unused(p)
  BY <1>1, <1>a DEF Onward, Unused, HasWant
<1>3. UNCHANGED <<turnDone, up, silent, runsOn, budget, nextId>>
  BY <1>0, RecordSendersDoes
<1> QED
  BY <1>1, <1>2, <1>3, <1>a, OnwardInherits DEF Steps

LEMMA IndexInherits == ASSUME Base, NEW o \in Op, Index(o) PROVE Steps(o)
<1> DEFINE p == op[o]
           n == op'[o]
<1>0. Typed /\ Shape(p)
  BY BaseIs
<1>1. Onward(o) /\ p.kind = n.kind
  BY <1>0, IndexDoes, BecomesOnward DEF Onward
<1>a. /\ n.pc # "acquire"
      /\ p.pc \in {"promote", "reindex", "release", "markfailed"} => n.pc \in {"reindex", "release"}
  BY <1>0, IndexDoes DEF Becomes, AppendedThen, NotAppended, Shape, KindPc, OpenPcs, CopyPcs, HasWant
<1>2. Unused(n) => Unused(p)
  BY <1>1, <1>a DEF Onward, Unused, HasWant
<1>3. UNCHANGED <<turnDone, up, silent, runsOn, budget, nextId>>
  BY <1>0, IndexDoes
<1> QED
  BY <1>1, <1>2, <1>3, <1>a, OnwardInherits DEF Steps

LEMMA AddInherits == ASSUME Base, NEW o \in Op, Add(o) PROVE Steps(o)
<1> DEFINE p == op[o]
           n == op'[o]
<1>0. Typed /\ Shape(p)
  BY BaseIs
<1>1. Onward(o) /\ p.kind = n.kind
  BY <1>0, AddDoes, BecomesOnward DEF Onward
<1>a. /\ n.pc # "acquire"
      /\ p.pc \in {"promote", "reindex", "release", "markfailed"} => n.pc \in {"reindex", "release"}
  BY <1>0, AddDoes DEF Becomes, AppendedThen, NotAppended, Shape, KindPc, OpenPcs, CopyPcs, HasWant
<1>2. Unused(n) => Unused(p)
  BY <1>1, <1>a DEF Onward, Unused, HasWant
<1>3. UNCHANGED <<turnDone, up, silent, runsOn, budget, nextId>>
  BY <1>0, AddDoes
<1> QED
  BY <1>1, <1>2, <1>3, <1>a, OnwardInherits DEF Steps

LEMMA MarkSourceInherits == ASSUME Base, NEW o \in Op, MarkSource(o) PROVE Steps(o)
<1> DEFINE p == op[o]
           n == op'[o]
<1>0. Typed /\ Shape(p)
  BY BaseIs
<1>1. Onward(o) /\ p.kind = n.kind
  BY <1>0, MarkSourceDoes, BecomesOnward DEF Onward
<1>a. /\ n.pc # "acquire"
      /\ p.pc \in {"promote", "reindex", "release", "markfailed"} => n.pc \in {"reindex", "release"}
  BY <1>0, MarkSourceDoes DEF Becomes, AppendedThen, NotAppended, Shape, KindPc, OpenPcs, CopyPcs, HasWant
<1>2. Unused(n) => Unused(p)
  BY <1>1, <1>a DEF Onward, Unused, HasWant
<1>3. UNCHANGED <<turnDone, up, silent, runsOn, budget, nextId>>
  BY <1>0, MarkSourceDoes
<1> QED
  BY <1>1, <1>2, <1>3, <1>a, OnwardInherits DEF Steps

LEMMA CheckClaimedInherits == ASSUME Base, NEW o \in Op, CheckClaimed(o) PROVE Steps(o)
<1> DEFINE p == op[o]
           n == op'[o]
<1>0. Typed /\ Shape(p)
  BY BaseIs
<1>1. Onward(o) /\ p.kind = n.kind
  BY <1>0, CheckClaimedDoes, BecomesOnward DEF Onward
<1>a. /\ n.pc # "acquire"
      /\ p.pc \in {"promote", "reindex", "release", "markfailed"} => n.pc \in {"reindex", "release"}
  BY <1>0, CheckClaimedDoes DEF Becomes, AppendedThen, NotAppended, Shape, KindPc, OpenPcs, CopyPcs, HasWant
<1>2. Unused(n) => Unused(p)
  BY <1>1, <1>a DEF Onward, Unused, HasWant
<1>3. UNCHANGED <<turnDone, up, silent, runsOn, budget, nextId>>
  BY <1>0, CheckClaimedDoes
<1> QED
  BY <1>1, <1>2, <1>3, <1>a, OnwardInherits DEF Steps

LEMMA AddCopyInherits == ASSUME Base, NEW o \in Op, AddCopy(o) PROVE Steps(o)
<1> DEFINE p == op[o]
           n == op'[o]
<1>0. Typed /\ Shape(p)
  BY BaseIs
<1>1. Onward(o) /\ p.kind = n.kind
  BY <1>0, AddCopyDoes, BecomesOnward DEF Onward
<1>a. /\ n.pc # "acquire"
      /\ p.pc \in {"promote", "reindex", "release", "markfailed"} => n.pc \in {"reindex", "release"}
  BY <1>0, AddCopyDoes DEF Becomes, AppendedThen, NotAppended, Shape, KindPc, OpenPcs, CopyPcs, HasWant
<1>2. Unused(n) => Unused(p)
  BY <1>1, <1>a DEF Onward, Unused, HasWant
<1>3. UNCHANGED <<turnDone, up, silent, runsOn, budget, nextId>>
  BY <1>0, AddCopyDoes
<1> QED
  BY <1>1, <1>2, <1>3, <1>a, OnwardInherits DEF Steps

LEMMA MarkCopyInherits == ASSUME Base, NEW o \in Op, MarkCopy(o) PROVE Steps(o)
<1> DEFINE p == op[o]
           n == op'[o]
<1>0. Typed /\ Shape(p)
  BY BaseIs
<1>1. Onward(o) /\ p.kind = n.kind
  BY <1>0, MarkCopyDoes, BecomesOnward DEF Onward
<1>a. /\ n.pc # "acquire"
      /\ p.pc \in {"promote", "reindex", "release", "markfailed"} => n.pc \in {"reindex", "release"}
  BY <1>0, MarkCopyDoes DEF Becomes, AppendedThen, NotAppended, Shape, KindPc, OpenPcs, CopyPcs, HasWant
<1>2. Unused(n) => Unused(p)
  BY <1>1, <1>a DEF Onward, Unused, HasWant
<1>3. UNCHANGED <<turnDone, up, silent, runsOn, budget, nextId>>
  BY <1>0, MarkCopyDoes
<1> QED
  BY <1>1, <1>2, <1>3, <1>a, OnwardInherits DEF Steps

LEMMA TakeInherits == ASSUME Base, NEW o \in Op, Take(o) PROVE Steps(o)
<1> DEFINE p == op[o]
           n == op'[o]
<1>0. Typed /\ Shape(p)
  BY BaseIs
<1>1. Onward(o) /\ p.kind = n.kind
  BY <1>0, TakeDoes, BecomesOnward DEF Onward
<1>a. /\ n.pc # "acquire"
      /\ p.pc \in {"promote", "reindex", "release", "markfailed"} => n.pc \in {"reindex", "release"}
  BY <1>0, TakeDoes DEF Becomes, AppendedThen, NotAppended, Shape, KindPc, OpenPcs, CopyPcs, HasWant
<1>2. Unused(n) => Unused(p)
  BY <1>1, <1>a DEF Onward, Unused, HasWant
<1>3. UNCHANGED <<turnDone, up, silent, runsOn, budget, nextId>>
  BY <1>0, TakeDoes
<1> QED
  BY <1>1, <1>2, <1>3, <1>a, OnwardInherits DEF Steps

LEMMA DropCopyInherits == ASSUME Base, NEW o \in Op, DropCopy(o) PROVE Steps(o)
<1> DEFINE p == op[o]
           n == op'[o]
<1>0. Typed /\ Shape(p)
  BY BaseIs
<1>1. Onward(o) /\ p.kind = n.kind
  BY <1>0, DropCopyDoes, BecomesOnward DEF Onward
<1>a. /\ n.pc # "acquire"
      /\ p.pc \in {"promote", "reindex", "release", "markfailed"} => n.pc \in {"reindex", "release"}
  BY <1>0, DropCopyDoes DEF Becomes, AppendedThen, NotAppended, Shape, KindPc, OpenPcs, CopyPcs, HasWant
<1>2. Unused(n) => Unused(p)
  BY <1>1, <1>a DEF Onward, Unused, HasWant
<1>3. UNCHANGED <<turnDone, up, silent, runsOn, budget, nextId>>
  BY <1>0, DropCopyDoes
<1> QED
  BY <1>1, <1>2, <1>3, <1>a, OnwardInherits DEF Steps

LEMMA PromoteInherits == ASSUME Base, NEW o \in Op, Promote(o) PROVE Steps(o)
<1> DEFINE p == op[o]
           n == op'[o]
<1>0. Typed /\ Shape(p)
  BY BaseIs
<1>1. Onward(o) /\ p.kind = n.kind
  BY <1>0, PromoteDoes, BecomesOnward DEF Onward
<1>a. /\ n.pc # "acquire"
      /\ p.pc \in {"promote", "reindex", "release", "markfailed"} => n.pc \in {"reindex", "release"}
  BY <1>0, PromoteDoes DEF Becomes, AppendedThen, NotAppended, Shape, KindPc, OpenPcs, CopyPcs, HasWant
<1>2. Unused(n) => Unused(p)
  BY <1>1, <1>a DEF Onward, Unused, HasWant
<1>3. UNCHANGED <<turnDone, up, silent, runsOn, budget, nextId>>
  BY <1>0, PromoteDoes
<1> QED
  BY <1>1, <1>2, <1>3, <1>a, OnwardInherits DEF Steps

LEMMA ReindexInherits == ASSUME Base, NEW o \in Op, Reindex(o) PROVE Steps(o)
<1> DEFINE p == op[o]
           n == op'[o]
<1>0. Typed /\ Shape(p)
  BY BaseIs
<1>1. Onward(o) /\ p.kind = n.kind
  BY <1>0, ReindexDoes, BecomesOnward DEF Onward
<1>a. /\ n.pc # "acquire"
      /\ p.pc \in {"promote", "reindex", "release", "markfailed"} => n.pc \in {"reindex", "release"}
  BY <1>0, ReindexDoes DEF Becomes, AppendedThen, NotAppended, Shape, KindPc, OpenPcs, CopyPcs, HasWant
<1>2. Unused(n) => Unused(p)
  BY <1>1, <1>a DEF Onward, Unused, HasWant
<1>3. UNCHANGED <<turnDone, up, silent, runsOn, budget, nextId>>
  BY <1>0, ReindexDoes
<1> QED
  BY <1>1, <1>2, <1>3, <1>a, OnwardInherits DEF Steps

LEMMA TakeHoldInherits == ASSUME Base, NEW o \in Op, TakeHold(o) PROVE Steps(o)
<1> DEFINE p == op[o]
           n == op'[o]
<1>0. Typed /\ Shape(p)
  BY BaseIs
<1>1. Onward(o) /\ p.kind = n.kind
  BY <1>0, TakeHoldDoes, BecomesOnward DEF Onward
<1>a. /\ n.pc # "acquire"
      /\ p.pc \in {"promote", "reindex", "release", "markfailed"} => n.pc \in {"reindex", "release"}
  BY <1>0, TakeHoldDoes DEF Becomes, AppendedThen, NotAppended, Shape, KindPc, OpenPcs, CopyPcs, HasWant
<1>2. Unused(n) => Unused(p)
  BY <1>1, <1>a DEF Onward, Unused, HasWant
<1>3. UNCHANGED <<turnDone, up, silent, runsOn, budget, nextId>>
  BY <1>0, TakeHoldDoes
<1> QED
  BY <1>1, <1>2, <1>3, <1>a, OnwardInherits DEF Steps

LEMMA MarkHoldInherits == ASSUME Base, NEW o \in Op, MarkHold(o) PROVE Steps(o)
<1> DEFINE p == op[o]
           n == op'[o]
<1>0. Typed /\ Shape(p)
  BY BaseIs
<1>1. Onward(o) /\ p.kind = n.kind
  BY <1>0, MarkHoldDoes, BecomesOnward DEF Onward
<1>a. /\ n.pc # "acquire"
      /\ p.pc \in {"promote", "reindex", "release", "markfailed"} => n.pc \in {"reindex", "release"}
  BY <1>0, MarkHoldDoes DEF Becomes, AppendedThen, NotAppended, Shape, KindPc, OpenPcs, CopyPcs, HasWant
<1>2. Unused(n) => Unused(p)
  BY <1>1, <1>a DEF Onward, Unused, HasWant
<1>3. UNCHANGED <<turnDone, up, silent, runsOn, budget, nextId>>
  BY <1>0, MarkHoldDoes
<1> QED
  BY <1>1, <1>2, <1>3, <1>a, OnwardInherits DEF Steps

LEMMA LookInherits == ASSUME Base, NEW o \in Op, Look(o) PROVE Steps(o)
<1> DEFINE p == op[o]
           n == op'[o]
<1>0. Typed /\ Shape(p)
  BY BaseIs
<1>1. Onward(o) /\ p.kind = n.kind
  BY <1>0, LookDoes, BecomesOnward DEF Onward
<1>a. /\ n.pc # "acquire"
      /\ p.pc \in {"promote", "reindex", "release", "markfailed"} => n.pc \in {"reindex", "release"}
  BY <1>0, LookDoes DEF Becomes, AppendedThen, NotAppended, Shape, KindPc, OpenPcs, CopyPcs, HasWant
<1>2. Unused(n) => Unused(p)
  BY <1>1, <1>a DEF Onward, Unused, HasWant
<1>3. UNCHANGED <<turnDone, up, silent, runsOn, budget, nextId>>
  BY <1>0, LookDoes
<1> QED
  BY <1>1, <1>2, <1>3, <1>a, OnwardInherits DEF Steps

LEMMA UpdateDataInherits == ASSUME Base, NEW o \in Op, UpdateData(o) PROVE Steps(o)
<1> DEFINE p == op[o]
           n == op'[o]
<1>0. Typed /\ Shape(p)
  BY BaseIs
<1>1. Onward(o) /\ p.kind = n.kind
  BY <1>0, UpdateDataDoes, BecomesOnward DEF Onward
<1>a. /\ n.pc # "acquire"
      /\ p.pc \in {"promote", "reindex", "release", "markfailed"} => n.pc \in {"reindex", "release"}
  BY <1>0, UpdateDataDoes DEF Becomes, AppendedThen, NotAppended, Shape, KindPc, OpenPcs, CopyPcs, HasWant
<1>2. Unused(n) => Unused(p)
  BY <1>1, <1>a DEF Onward, Unused, HasWant
<1>3. UNCHANGED <<turnDone, up, silent, runsOn, budget, nextId>>
  BY <1>0, UpdateDataDoes
<1> QED
  BY <1>1, <1>2, <1>3, <1>a, OnwardInherits DEF Steps

LEMMA RecheckInherits == ASSUME Base, NEW o \in Op, Recheck(o) PROVE Steps(o)
<1> DEFINE p == op[o]
           n == op'[o]
<1>0. Typed /\ Shape(p)
  BY BaseIs
<1>1. Onward(o) /\ p.kind = n.kind
  BY <1>0, RecheckDoes, BecomesOnward DEF Onward
<1>a. /\ n.pc # "acquire"
      /\ p.pc \in {"promote", "reindex", "release", "markfailed"} => n.pc \in {"reindex", "release"}
  BY <1>0, RecheckDoes DEF Becomes, AppendedThen, NotAppended, Shape, KindPc, OpenPcs, CopyPcs, HasWant
<1>2. Unused(n) => Unused(p)
  BY <1>1, <1>a DEF Onward, Unused, HasWant
<1>3. UNCHANGED <<turnDone, up, silent, runsOn, budget, nextId>>
  BY <1>0, RecheckDoes
<1> QED
  BY <1>1, <1>2, <1>3, <1>a, OnwardInherits DEF Steps

LEMMA CheckMovedInherits == ASSUME Base, NEW o \in Op, CheckMoved(o) PROVE Steps(o)
<1> DEFINE p == op[o]
           n == op'[o]
<1>0. Typed /\ Shape(p)
  BY BaseIs
<1>1. Onward(o) /\ p.kind = n.kind
  BY <1>0, CheckMovedDoes, BecomesOnward, ZenonT(60) DEF Onward
<1>a. /\ n.pc # "acquire"
      /\ p.pc \in {"promote", "reindex", "release", "markfailed"} => n.pc \in {"reindex", "release"}
  BY <1>0, CheckMovedDoes DEF Becomes, AppendedThen, NotAppended, Shape, KindPc, OpenPcs, CopyPcs, HasWant
<1>2. Unused(n) => Unused(p)
  BY <1>1, <1>a DEF Onward, Unused, HasWant
<1>3. UNCHANGED <<turnDone, up, silent, runsOn, budget, nextId>>
  BY <1>0, CheckMovedDoes
<1> QED
  BY <1>1, <1>2, <1>3, <1>a, OnwardInherits DEF Steps

LEMMA UnmarkInherits == ASSUME Base, NEW o \in Op, Unmark(o) PROVE Steps(o)
<1> DEFINE p == op[o]
           n == op'[o]
<1>0. Typed /\ Shape(p)
  BY BaseIs
<1>1. Onward(o) /\ p.kind = n.kind
  BY <1>0, UnmarkDoes, BecomesOnward DEF Onward
<1>a. /\ n.pc # "acquire"
      /\ p.pc \in {"promote", "reindex", "release", "markfailed"} => n.pc \in {"reindex", "release"}
  BY <1>0, UnmarkDoes DEF Becomes, AppendedThen, NotAppended, Shape, KindPc, OpenPcs, CopyPcs, HasWant
<1>2. Unused(n) => Unused(p)
  BY <1>1, <1>a DEF Onward, Unused, HasWant
<1>3. UNCHANGED <<turnDone, up, silent, runsOn, budget, nextId>>
  BY <1>0, UnmarkDoes
<1> QED
  BY <1>1, <1>2, <1>3, <1>a, OnwardInherits DEF Steps

LEMMA CheckSwapInherits == ASSUME Base, NEW o \in Op, CheckSwap(o) PROVE Steps(o)
<1> DEFINE p == op[o]
           n == [p EXCEPT !.pc = "copy", !.kind = "swap", !.id = p.src[2],
                          !.d = At(p.src).data, !.cp = <<p.want, p.src[2]>>]
<1>0. Typed /\ p \in Operation
  BY BaseIs
<1>1. p.kind = "reap" /\ OpBecomes(o, n) /\ UNCHANGED <<turnDone, up, silent, runsOn, budget, nextId>>
  BY <1>0, CheckSwapDoes
<1>2. n.pc = "copy" /\ n.kind = "swap" /\ n.src = p.src /\ n.want = p.want
  BY <1>0 DEF Operation
<1> HIDE DEF n
<1>3. Inherits(p, n)
  BY <1>1, <1>2 DEF Inherits, OwnsId, Unused, Moves, HasWant
<1> QED
  BY <1>1, <1>3 DEF Steps, OpBecomes

LEMMA ReleaseInherits == ASSUME Base, NEW o \in Op, Release(o) PROVE Steps(o)
<1> DEFINE p == op[o]
           n == op'[o]
<1>0. Typed
  BY BaseIs
<1>1. UNCHANGED <<turnDone, up, silent, runsOn, budget, nextId>> /\ p.pc = "release"
  BY <1>0, ReleaseDoes
<1>2. CASE OpBecomes(o, IdleOp)
  BY <1>1, <1>2, InheritsIdle DEF Steps, OpBecomes
<1>3. CASE p.kind = "redispatch" /\ Becomes(o, "markfailed", p.ref, p.prev, p.cp, p.res)
  <2>1. Onward(o) /\ n.pc = "markfailed"
    BY <1>3, BecomesOnward
  <2>2. ~Unused(n)
    BY <1>3, <2>1 DEF Onward, Unused, HasWant
  <2> QED
    BY <1>1, <2>1, <2>2, OnwardInherits DEF Steps
<1> QED
  BY <1>0, <1>2, <1>3, ReleaseDoes

LEMMA MarkFailedInherits == ASSUME Base, NEW o \in Op, MarkFailed(o) PROVE Steps(o)
<1>1. OpBecomes(o, IdleOp) /\ UNCHANGED <<turnDone, up, silent, runsOn, budget, nextId>>
  BY BaseTyped, MarkFailedDoes
<1> QED
  BY <1>1, InheritsIdle DEF Steps, OpBecomes

LEMMA OpStepInherits == ASSUME Base, NEW o \in Op, OpStep(o), ~CheckMerge(o) PROVE Steps(o)
BY AcquireInherits,
   RecordSendersInherits,
   IndexInherits,
   AddInherits,
   MarkSourceInherits,
   CheckClaimedInherits,
   AddCopyInherits,
   MarkCopyInherits,
   TakeInherits,
   DropCopyInherits,
   PromoteInherits,
   ReindexInherits,
   TakeHoldInherits,
   MarkHoldInherits,
   LookInherits,
   UpdateDataInherits,
   RecheckInherits,
   CheckMovedInherits,
   UnmarkInherits,
   CheckSwapInherits,
   ReleaseInherits,
   MarkFailedInherits
   DEF OpStep

-----------------------------------------------------------------------------
(***************************************************************************)
(* The steps of an operation keep the invariant                            *)
(***************************************************************************)
\* The job at s after a step.
After(s) == job'[s[1]][s[2]]

LEMMA AfterIs ==
    ASSUME NEW r, NEW k, JobBecomes(r, k)
    PROVE  \A s \in Ref : After(s) = IF s = r THEN k ELSE At(s)
BY DEF JobBecomes, After, At

\* What a step of slot o makes of the job at r, and where in the operation.
Changes(o, r, k) ==
    LET p == op[o] IN
    /\ r \in Ref /\ JobBecomes(r, k)
    /\ \/ Grown(At(r), k)
       \/ /\ Added(At(r), k)
          /\ \/ p.pc = "add" /\ r = Wanted(p) /\ k.data = p.d
             \/ p.pc = "copy" /\ r = p.cp /\ k.data = CopyData(p)
       \/ /\ Removed(At(r), k)
          /\ \/ p.pc = "take" /\ r = Original(p) /\ Takeable(p, At(r))
             \/ p.pc \in {"drop", "takehold"} /\ HasCopy(p) /\ r = p.cp
       \/ Promoted(At(r), k) /\ p.pc = "promote" /\ r = p.cp
       \/ Returned(At(r), k) /\ p.kind = "claimed" /\ r = p.src /\ op'[o] = IdleOp

LEMMA OpStepChanges ==
    ASSUME Base, NEW o \in Op, OpStep(o)
    PROVE  job' = job \/ \E r, k : Changes(o, r, k)
<1>0. Typed
  BY BaseTyped
<1>1. ASSUME Acquire(o) \/ MarkFailed(o) \/ Look(o) \/ RecordSenders(o) \/ Recheck(o)
             \/ Index(o) \/ MarkSource(o) PROVE job' = job
  BY <1>0, <1>1, AcquireDoes, MarkFailedDoes, LookDoes, RecordSendersDoes, RecheckDoes, IndexDoes,
     MarkSourceDoes
<1>2. ASSUME CheckMoved(o) \/ CheckClaimed(o) \/ CheckMerge(o) \/ CheckSwap(o) \/ MarkCopy(o)
             \/ Unmark(o) \/ Reindex(o) \/ MarkHold(o) PROVE job' = job
  BY <1>0, <1>2, CheckMovedDoes, CheckClaimedDoes, CheckMergeDoes, CheckSwapDoes, MarkCopyDoes,
     UnmarkDoes, ReindexDoes, MarkHoldDoes
<1>3. CASE UpdateData(o)
  BY <1>3, UpdateDataTouches DEF Changes
<1>4. CASE Add(o)
  <2>1. op[o].pc = "add"
    BY <1>0, <1>4, AddDoes
  <2> QED
    BY <1>4, <2>1, AddTouches DEF Changes
<1>5. CASE AddCopy(o)
  <2>1. op[o].pc = "copy"
    BY <1>0, <1>5, AddCopyDoes
  <2> QED
    BY <1>5, <2>1, AddCopyTouches DEF Changes
<1>6. CASE Take(o)
  <2>1. op[o].pc = "take"
    BY <1>0, <1>6, TakeDoes
  <2> QED
    BY <1>6, <2>1, TakeTouches DEF Changes
<1>7. CASE DropCopy(o)
  <2>1. op[o].pc = "drop" /\ HasCopy(op[o])
    BY <1>0, <1>7, DropCopyDoes DEF HasCopy
  <2> QED
    BY <1>7, <2>1, DropCopyTouches DEF Changes
<1>8. CASE TakeHold(o)
  <2>1. op[o].pc = "takehold"
    BY <1>0, <1>8, TakeHoldDoes
  <2> QED
    BY <1>8, <2>1, TakeHoldTouches DEF Changes, HasCopy
<1>9. CASE Promote(o)
  <2>1. op[o].pc = "promote"
    BY <1>0, <1>9, PromoteDoes
  <2> QED
    BY <1>9, <2>1, PromoteTouches DEF Changes
<1>10. CASE Release(o)
  <2>1. CASE op[o].kind # "claimed" /\ job' = job
    BY <2>1
  <2>2. CASE op[o].kind = "claimed" /\ OpBecomes(o, IdleOp)
             /\ \E k : op[o].src \in Ref /\ JobBecomes(op[o].src, k) /\ Returned(At(op[o].src), k)
    BY <2>2 DEF Changes, OpBecomes
  <2> QED
    BY <1>10, <2>1, <2>2, ReleaseTouches
<1> QED
  BY <1>1, <1>2, <1>3, <1>4, <1>5, <1>6, <1>7, <1>8, <1>9, <1>10 DEF OpStep

\* What an operation's step can do to a job, whichever it is.
LEMMA ChangesTouch ==
    ASSUME NEW o, NEW r, NEW k, Changes(o, r, k)
    PROVE  Touches(r, k)
BY DEF Changes, Touches

LEMMA ShapesTouched ==
    ASSUME Base, up' \subseteq up,
           job' = job \/ \E r, k : Touches(r, k) \/ (r \in Ref /\ JobBecomes(r, k) /\ JobShape(k, r[1]))
    PROVE  JobShapes'
<1>1. \A s \in Ref : JobShape(At(s), s[1])
  BY BaseTyped DEF JobShapes
<1>2. ASSUME NEW s \in Ref, JobShape(At(s), s[1]), job'[s[1]][s[2]] = At(s) PROVE JobShape(At(s), s[1])'
  BY <1>2 DEF JobShape, At, Pending
<1>3. ASSUME NEW s \in Ref, NEW k, JobShape(k, s[1]), job'[s[1]][s[2]] = k PROVE JobShape(At(s), s[1])'
  BY <1>3 DEF JobShape, At, Pending
<1>4. CASE job' = job
  BY <1>1, <1>2, <1>4 DEF JobShapes, At
<1>5. CASE \E r, k : r \in Ref /\ JobBecomes(r, k) /\ JobShape(k, r[1])
  <2>1. PICK r, k : r \in Ref /\ JobBecomes(r, k) /\ JobShape(k, r[1])
    BY <1>5
  <2>2. \A s \in Ref : job'[s[1]][s[2]] = IF s = r THEN k ELSE At(s)
    BY <2>1 DEF JobBecomes, At
  <2>3. ASSUME NEW s \in Ref PROVE JobShape(At(s), s[1])'
    BY <1>1, <1>2, <1>3, <2>1, <2>2
  <2> QED
    BY <2>3 DEF JobShapes
<1>6. ASSUME NEW r, NEW k, Touches(r, k) PROVE JobShape(k, r[1])
  <2> DEFINE j == At(r)
  <2>1. JobShape(j, r[1])
    BY <1>1, <1>6 DEF Touches
  <2>2. CASE Grown(j, k)
    BY <2>1, <2>2 DEF JobShape, Grown, Pending
  <2>3. CASE Added(j, k)
    BY <2>3 DEF JobShape, Added, Pending
  <2>4. CASE Removed(j, k)
    BY <2>4 DEF JobShape, Removed, Pending, NoJob
  <2>5. CASE Promoted(j, k)
    BY <2>1, <2>5 DEF JobShape, Promoted, Pending
  <2>6. CASE Returned(j, k)
    BY <2>1, <2>6 DEF JobShape, Returned, Pending
  <2> QED
    BY <1>6, <2>2, <2>3, <2>4, <2>5, <2>6 DEF Touches
<1> QED
  BY <1>4, <1>5, <1>6 DEF Touches

\* A failed job stays, and so does the job a worker moves while the move goes on.
LEMMA ChangesKeep ==
    ASSUME Base, NEW o \in Op, OpStep(o), NEW s \in Ref
    PROVE  /\ At(s).st = "failed" => After(s).st = "failed"
           /\ At(s).st = "active" /\ At(s).ph = "moving" /\ At(s).by \in up =>
                \/ /\ After(s).st = "active" /\ After(s).ph = "moving" /\ After(s).by = At(s).by
                   /\ After(s).snap = At(s).snap
                \/ op[o].kind = "claimed" /\ op[o].src = s /\ op'[o] = IdleOp
<1>1. CASE job' = job
  BY <1>1 DEF After, At
<1>2. ASSUME NEW r, NEW k, Changes(o, r, k), s = r
      PROVE  /\ At(s).st = "failed" => k.st = "failed"
             /\ At(s).st = "active" /\ At(s).ph = "moving" /\ At(s).by \in up =>
                \/ k.st = "active" /\ k.ph = "moving" /\ k.by = At(s).by /\ k.snap = At(s).snap
                \/ op[o].kind = "claimed" /\ op[o].src = s /\ op'[o] = IdleOp
  <2>1. JobShape(At(s), s[1])
    BY BaseTyped DEF JobShapes
  <2>2. At(s).st = "active" /\ At(s).by \in up => At(s).locked
    BY <2>1 DEF JobShape
  <2> QED
    BY <1>2, <2>2 DEF Changes, Grown, Added, Removed, Promoted, Returned, Pending
<1>3. CASE \E r, k : Changes(o, r, k)
  <2>1. PICK r, k : Changes(o, r, k)
    BY <1>3
  <2>2. After(s) = IF s = r THEN k ELSE At(s)
    BY <2>1, AfterIs DEF Changes
  <2> QED
    BY <1>2, <2>1, <2>2
<1> QED
  BY <1>1, <1>3, OpStepChanges

\* The kinds that a step of slot o cannot start.
Keeps(o) ==
    \A x \in Op :
        LET p == op[x]
            n == op'[x]
        IN  /\ n.kind \in {"claimed", "redispatch"} =>
                  n.kind = p.kind /\ n.by = p.by /\ n.d = p.d /\ n.src = p.src
            /\ Moves(n) => Moves(p) /\ n.src = p.src
            /\ n.kind \in {"reap", "swap"} => p.kind \in {"reap", "swap"} /\ n.want = p.want
            /\ n.pc = "acquire" /\ HasWant(n) => p.pc = "acquire" /\ HasWant(p) /\ n.id = p.id

LEMMA MergeKeeps ==
    ASSUME Base, NEW o \in Op, CheckMerge(o)
    PROVE  LET p == op[o]
               n == op'[o] IN
           /\ p.kind = "reap" /\ n.kind = "merge" /\ n.pc = "copy" /\ n.src = p.src /\ n.id = nextId
           /\ n.d = At(p.src).data /\ n.cp = <<idx[1], nextId>> /\ n.by = p.by
           /\ \A x \in Op : x # o => op'[x] = op[x]
           /\ nextId' = nextId + 1 /\ nextId \in Nat
           /\ UNCHANGED <<job, idx, moved, turnDone, up, silent, runsOn, budget>>
<1> DEFINE p == op[o]
           c == <<idx[1], nextId>>
           m == [p EXCEPT !.pc = "copy", !.kind = "merge", !.id = nextId, !.d = At(p.src).data, !.cp = c]
<1>0. Typed /\ p \in Operation
  BY BaseIs
<1>1. /\ p.kind = "reap" /\ OpBecomes(o, m) /\ nextId' = nextId + 1 /\ nextId \in Id
      /\ UNCHANGED <<job, idx, moved, turnDone, up, silent, runsOn, budget>>
  BY <1>0, CheckMergeDoes
<1> DEFINE a == [p EXCEPT !.pc = "copy", !.kind = "merge", !.id = nextId]
<1>2. a.pc = "copy" /\ a.kind = "merge" /\ a.id = nextId /\ a.src = p.src /\ a.by = p.by
  BY <1>0 DEF Operation
<1>3. m = [a EXCEPT !.d = At(p.src).data, !.cp = c]
  BY <1>0 DEF Operation
<1>3a. a.d = p.d /\ DOMAIN a = DOMAIN p /\ {"pc", "kind", "id", "d", "cp", "src", "by"} \subseteq DOMAIN p
  BY <1>0 DEF Operation
<1> HIDE DEF c
<1>4. /\ m.pc = "copy" /\ m.kind = "merge" /\ m.id = nextId /\ m.src = p.src /\ m.by = p.by
      /\ m.d = At(p.src).data /\ m.cp = c
  BY <1>0 DEF Operation
<1> HIDE DEF m
<1> QED
  BY <1>1, <1>4 DEF OpBecomes, c, Id

LEMMA OpStepKeeps == ASSUME Base, NEW o \in Op, OpStep(o) PROVE Keeps(o)
<1>1. CASE CheckMerge(o)
  BY <1>1, MergeKeeps DEF Keeps, Moves, HasWant
<1>2. CASE ~CheckMerge(o)
  <2>1. Inherits(op[o], op'[o]) /\ \A x \in Op : x # o => op'[x] = op[x]
    BY <1>2, OpStepInherits DEF Steps
  <2>2. \A x \in Op : Inherits(op[x], op'[x])
    BY <2>1, InheritsSelf
  <2> QED
    BY <2>2 DEF Keeps, Inherits, Moves, OwnsId
<1> QED
  BY <1>1, <1>2

LEMMA OpStepCalm ==
    ASSUME Base, NEW o \in Op, OpStep(o)
    PROVE  UNCHANGED <<turnDone, up, silent, runsOn, budget>> /\ (nextId' = nextId \/ nextId' = nextId + 1)
BY OpStepInherits, MergeKeeps DEF Steps

LEMMA OpStepStays ==
    ASSUME Base, NEW o \in Op, OpStep(o)
    PROVE  JobShapes' /\ FailedStays' /\ ClaimStays'
<1>0. FailedStays /\ ClaimStays /\ Typed /\ \A x \in Op : Shape(op[x])
  BY BaseIs DEF Base
<1>1. up' = up /\ Keeps(o)
  BY OpStepCalm, OpStepKeeps
<1>2. JobShapes'
  BY <1>1, OpStepChanges, ChangesTouch, ShapesTouched
<1>3. \A x \in Op : op[x].kind \in {"claimed", "redispatch"} => op[x].src \in Ref
  BY <1>0 DEF Shape, Moves
<1>4. FailedStays'
  <2> SUFFICES ASSUME NEW x \in Op, op'[x].kind = "redispatch" PROVE After(op'[x].src).st = "failed"
    BY DEF FailedStays, After, At
  <2>1. op[x].kind = "redispatch" /\ op'[x].src = op[x].src
    BY <1>1 DEF Keeps
  <2> QED
    BY <1>0, <1>3, <2>1, ChangesKeep DEF FailedStays
<1>5. ASSUME NEW x \in Op, op'[x].kind = "claimed"
      PROVE  LET j == After(op'[x].src) IN
             j.st = "active" /\ j.ph = "moving" /\ j.by = op'[x].by /\ j.by \in up' /\ j.snap = op'[x].d
  <2>1. op[x].kind = "claimed" /\ op'[x].src = op[x].src /\ op'[x].by = op[x].by /\ op'[x].d = op[x].d
    BY <1>1, <1>5 DEF Keeps
  <2> DEFINE s == op[x].src
  <2>2. s \in Ref /\ At(s).st = "active" /\ At(s).ph = "moving" /\ At(s).by = op[x].by
        /\ At(s).by \in up /\ At(s).snap = op[x].d
    BY <1>0, <1>3, <2>1 DEF ClaimStays
  <2>3. ~(op[o].kind = "claimed" /\ op[o].src = s /\ op'[o] = IdleOp)
    BY <1>0, <1>5, <2>1 DEF ClaimStays, IdleOp
  <2> QED
    BY <1>1, <2>1, <2>2, <2>3, ChangesKeep
<1>6. ASSUME NEW x \in Op, NEW y \in Op, op'[x].kind = "claimed", op'[y].kind = "claimed",
             op'[x].src = op'[y].src
      PROVE  x = y
  BY <1>0, <1>1, <1>6 DEF Keeps, ClaimStays
<1>7. ClaimStays'
  BY <1>5, <1>6 DEF ClaimStays, After, At
<1> QED
  BY <1>2, <1>4, <1>7

\* Where an operation adds its job or its copy: at an id of its own that no job
\* has, or beside the job it moves, on the label's queue.
LEMMA AddedAt ==
    ASSUME Base, NEW o \in Op, NEW r \in Ref, NEW d,
           \/ op[o].pc = "add" /\ r = Wanted(op[o]) /\ d = op[o].d
           \/ op[o].pc = "copy" /\ r = op[o].cp /\ d = CopyData(op[o])
    PROVE  LET p == op[o] IN
           /\ d.label = p.d.label /\ p.pc \notin Free
           /\ \/ /\ OwnsId(p) /\ Unused(p) /\ r[2] = p.id
                 /\ \A s \in Ref : s[2] = r[2] => At(s).st = "none"
              \/ /\ p.kind \in {"claimed", "swap"} /\ Moves(p) /\ p.src \in Ref /\ r[2] = p.src[2]
                 /\ At(p.src).st # "none" /\ At(p.src).data.label = d.label /\ r[1] = d.label
<1> DEFINE p == op[o]
<1>0. /\ Typed /\ p \in Operation /\ Shape(p) /\ p.d \in Data /\ p.prev \in Data
      /\ ReadStill(p) /\ CopyStays(p) /\ (Unused(p) => UnusedIs(p))
  BY BaseIs
<1>1. d.label = p.d.label
  BY <1>0, RelocatedLabel DEF CopyData
<1>2. p.pc \notin Free
  BY DEF Free
<1>3. CASE HasWant(p) \/ p.kind = "merge"
  <2>1. OwnsId(p) /\ Unused(p) /\ ~HasCopy(p)
    BY <1>3 DEF OwnsId, Unused, HasCopy
  <2>2. r[2] = p.id
    BY <1>0, <1>3 DEF Shape, Wanted, KindPc, CopyPcs, OpenPcs, HasWant
  <2>3. \A s \in Ref : s[2] = r[2] => At(s).st = "none"
    BY <1>0, <2>1, <2>2 DEF UnusedIs
  <2> QED
    BY <1>1, <1>2, <2>1, <2>2, <2>3
<1>4. CASE p.kind = "claimed"
  <2>1. p.pc = "add" /\ p.src \in Ref /\ r[2] = p.src[2] /\ r[1] = p.d.label
    BY <1>0, <1>4 DEF Shape, Wanted, KindPc, OpenPcs, Moves, HasWant
  <2>2. At(p.src).st = "active" /\ At(p.src).snap = p.d
    BY <1>4 DEF Base, ClaimStays
  <2>3. At(p.src).data.label = p.d.label
    BY <2>1, <2>2, BaseTyped DEF JobShapes, JobShape
  <2> QED
    BY <1>1, <1>2, <1>4, <2>1, <2>2, <2>3 DEF Moves
<1>5. CASE p.kind = "swap"
  <2>1. p.pc = "copy" /\ p.src \in Ref /\ r[2] = p.src[2] /\ r[1] = p.want /\ ~Relocating(p)
    BY <1>0, <1>5 DEF Shape, KindPc, OpenPcs, Moves, HasWant, CopyPcs, Relocating
  <2>2. Original(p) = p.src
    BY <2>1 DEF Original
  <2>3. At(p.src).st # "none" /\ At(p.src).data = p.d
    BY <1>0, <2>1, <2>2 DEF ReadStill
  <2>4. At(p.src).data.label = p.want
    BY <1>5, <2>1, <2>3 DEF Base, SameLabel, Labelled
  <2> QED
    BY <1>1, <1>2, <1>5, <2>1, <2>3, <2>4 DEF Moves
<1>6. HasWant(p) \/ p.kind \in {"merge", "claimed", "swap"}
  BY <1>0 DEF Shape, KindPc, OpenPcs, CopyPcs, HasWant
<1> QED
  BY <1>3, <1>4, <1>5, <1>6

\* The job-moved marker that a step of slot o writes.
Marks(o, i, v) ==
    LET p == op[o] IN
    /\ i \in Id /\ moved' = [moved EXCEPT ![i] = v]
    /\ \/ p.pc = "marksrc" /\ p.kind \in {"claimed", "merge"} /\ i = p.src[2] /\ v = p.res /\ op'[o].pc = "release"
       \/ p.pc = "markfailed" /\ p.kind = "redispatch" /\ i = p.src[2] /\ v = p.res /\ op'[o] = IdleOp
       \/ /\ p.pc = "check" /\ p.kind \in {"reap", "claimed"} /\ i = p.src[2] /\ v = <<p.want, i>>
          /\ ~MovedAway(p) /\ At(v).st # "none" /\ op'[o].pc = "release" /\ op'[o].res = v
       \/ p.pc = "markcopy" /\ i = Original(p)[2] /\ v = p.cp /\ op'[o].pc = "take"
       \/ p.pc = "unmark" /\ i = Original(p)[2] /\ v = NoRef /\ op'[o].pc \in {"index", "release"}
       \/ p.pc = "markhold" /\ p.kind = "merge" /\ i = p.cp[2] /\ v = p.res /\ op'[o].pc = "marksrc"

LEMMA OpStepMarks ==
    ASSUME Base, NEW o \in Op, OpStep(o)
    PROVE  /\ moved' = moved \/ \E i, v : Marks(o, i, v)
           /\ op[o].pc = "marksrc" => op'[o].pc = "release"
<1> DEFINE p == op[o]
<1>0. Typed /\ Shape(p)
  BY BaseIs
<1>p. p.pc \in {"marksrc", "markhold", "markcopy", "unmark"} =>
          \/ p.pc = "marksrc" /\ MarkSource(o)
          \/ p.pc = "markhold" /\ MarkHold(o)
          \/ p.pc = "markcopy" /\ MarkCopy(o)
          \/ p.pc = "unmark" /\ Unmark(o)
  BY ZenonT(60) DEF OpStep, Acquire, Release, MarkFailed, Look, RecordSenders, UpdateData, Recheck, Index, Add,
     MarkSource, CheckMoved, CheckClaimed, CheckMerge, CheckSwap, AddCopy, MarkCopy, Take, DropCopy,
     Unmark, Promote, Reindex, TakeHold, MarkHold, ToMove
<1>1. CASE MarkSource(o)
  <2>1. p.pc = "marksrc" /\ p.kind \in {"claimed", "merge"} /\ p.src \in Ref
    BY <1>0, <1>1, MarkSourceDoes DEF Shape, KindPc, OpenPcs, CopyPcs, Moves
  <2>2. moved' = [moved EXCEPT ![p.src[2]] = p.res] /\ op'[o].pc = "release"
    BY <1>0, <1>1, MarkSourceDoes, BecomesOnward
  <2> QED
    BY <2>1, <2>2, RefIs DEF Marks
<1>2. CASE MarkFailed(o)
  <2>1. p.pc = "markfailed" /\ p.kind = "redispatch" /\ p.src \in Ref
    BY <1>0, <1>2, MarkFailedDoes DEF Shape, KindPc, OpenPcs, CopyPcs, Moves
  <2>2. moved' = [moved EXCEPT ![p.src[2]] = p.res] /\ op'[o] = IdleOp
    BY <1>0, <1>2, MarkFailedDoes DEF OpBecomes
  <2> QED
    BY <2>1, <2>2, RefIs DEF Marks
<1>3. CASE CheckMoved(o)
  <2>1. p.pc = "check" /\ p.kind \in {"reap", "claimed"} /\ p.src \in Ref
    BY <1>0, <1>3, CheckMovedDoes DEF Shape, KindPc, OpenPcs, CopyPcs, Moves
  <2>2. CASE moved' = moved
    BY <2>1, <2>2
  <2>3. CASE /\ ~MovedAway(p) /\ At(<<p.want, p.src[2]>>).st # "none"
             /\ moved' = [moved EXCEPT ![p.src[2]] = <<p.want, p.src[2]>>]
             /\ Becomes(o, "release", p.ref, p.prev, p.cp, <<p.want, p.src[2]>>)
    <3>1. op'[o].pc = "release" /\ op'[o].res = <<p.want, p.src[2]>>
      BY <2>3 DEF Becomes
    <3> QED
      BY <2>1, <2>3, <3>1, RefIs DEF Marks
  <2> QED
    BY <1>0, <1>3, <2>1, <2>2, <2>3, CheckMovedDoes
<1>4. CASE MarkCopy(o)
  <2>1. /\ p.pc = "markcopy" /\ Original(p) \in Ref /\ moved' = [moved EXCEPT ![Original(p)[2]] = p.cp]
        /\ op'[o].pc = "take"
    BY <1>0, <1>4, MarkCopyDoes, BecomesOnward, RefsAre DEF CopyPcs
  <2> QED
    BY <2>1, RefIs DEF Marks
<1>5. CASE Unmark(o)
  <2>1. /\ p.pc = "unmark" /\ Original(p) \in Ref /\ moved' = [moved EXCEPT ![Original(p)[2]] = NoRef]
        /\ op'[o].pc \in {"index", "release"}
    BY <1>0, <1>5, UnmarkDoes, BecomesOnward
  <2> QED
    BY <2>1, RefIs DEF Marks
<1>6. CASE MarkHold(o)
  <2>1. p.pc = "markhold" /\ p.kind = "merge" /\ p.cp \in Ref
    BY <1>0, <1>6, MarkHoldDoes DEF Shape, KindPc, OpenPcs, CopyPcs, HasWant
  <2>2. moved' = [moved EXCEPT ![p.cp[2]] = p.res] /\ op'[o].pc = "marksrc"
    BY <1>0, <1>6, MarkHoldDoes, BecomesOnward
  <2> QED
    BY <2>1, <2>2, RefIs DEF Marks
<1>7. ASSUME \/ Acquire(o) \/ Release(o) \/ Look(o) \/ RecordSenders(o) \/ UpdateData(o) \/ Recheck(o)
             \/ Index(o) \/ Add(o) \/ CheckClaimed(o)
      PROVE  moved' = moved
  BY <1>0, <1>7, AcquireDoes, ReleaseDoes, LookDoes, RecordSendersDoes, UpdateDataDoes, RecheckDoes,
     IndexDoes, AddDoes, CheckClaimedDoes
<1>8. ASSUME \/ CheckMerge(o) \/ CheckSwap(o) \/ AddCopy(o) \/ Take(o) \/ DropCopy(o) \/ Promote(o)
             \/ Reindex(o) \/ TakeHold(o)
      PROVE  moved' = moved
  BY <1>0, <1>8, CheckMergeDoes, CheckSwapDoes, AddCopyDoes, TakeDoes, DropCopyDoes, PromoteDoes,
     ReindexDoes, TakeHoldDoes
<1>9. p.pc = "marksrc" => op'[o].pc = "release"
  BY <1>0, <1>p, MarkSourceDoes, BecomesOnward
<1> QED
  BY <1>1, <1>2, <1>3, <1>4, <1>5, <1>6, <1>7, <1>8, <1>9 DEF OpStep

LEMMA OpStepIndex ==
    ASSUME Base, NEW o \in Op, OpStep(o)
    PROVE  \/ idx' = idx
           \/ op[o].pc = "index" /\ idx' = Wanted(op[o])
           \/ op[o].pc = "reindex" /\ idx' = op[o].cp
<1>0. Typed
  BY BaseIs
<1>1. ASSUME \/ Acquire(o) \/ Release(o) \/ Look(o) \/ RecordSenders(o) \/ UpdateData(o) \/ Recheck(o)
             \/ Add(o) \/ CheckClaimed(o) \/ MarkFailed(o) \/ MarkSource(o) \/ CheckMoved(o)
      PROVE  idx' = idx
  BY <1>0, <1>1, AcquireDoes, ReleaseDoes, LookDoes, RecordSendersDoes, UpdateDataDoes, RecheckDoes,
     AddDoes, CheckClaimedDoes, MarkFailedDoes, MarkSourceDoes, CheckMovedDoes
<1>2. ASSUME \/ CheckMerge(o) \/ CheckSwap(o) \/ AddCopy(o) \/ Take(o) \/ DropCopy(o) \/ Promote(o)
             \/ TakeHold(o) \/ MarkHold(o) \/ Unmark(o) \/ MarkCopy(o)
      PROVE  idx' = idx
  BY <1>0, <1>2, CheckMergeDoes, CheckSwapDoes, AddCopyDoes, TakeDoes, DropCopyDoes, PromoteDoes,
     TakeHoldDoes, MarkHoldDoes, UnmarkDoes, MarkCopyDoes
<1> QED
  BY <1>0, <1>1, <1>2, IndexDoes, ReindexDoes DEF OpStep

\* An operation that has yet to use its id waits for the lock, or has it.
LEMMA UnusedWaits ==
    ASSUME Base, ~SlowOps, NEW o \in Op, NEW x \in Op, x # o, op[o].pc \notin Free, Unused(op[x])
    PROVE  op[x].pc = "acquire" /\ HasWant(op[x])
<1>1. op[x].pc \in Free /\ Shape(op[x])
  BY HolderAlone, BaseIs
<1> QED
  BY <1>1 DEF Unused, Free, Shape, KindPc, HasWant, OpenPcs, CopyPcs

\* A marker is never written at an id that is still to be used, but by a merge
\* that takes its hold back.
LEMMA MarksUnused ==
    ASSUME Base, ~SlowOps, NEW o \in Op, NEW i, NEW v, Marks(o, i, v), NEW x \in Op, Unused(op[x])
    PROVE  op[x].id # i \/ v = NoRef \/ (x = o /\ op[o].pc \in {"marksrc", "markhold"})
<1> DEFINE p == op[o]
           w == op[x]
<1>0. Typed /\ Shape(p) /\ ReadStill(p) /\ CopyStays(p) /\ Apart(p) /\ UnusedIs(w) /\ Shape(w) /\ CopyStays(w)
  BY BaseIs
<1>1. CASE x = o
  <2>1. p.pc \in {"marksrc", "markcopy", "unmark", "markhold"}
    BY <1>0, <1>1 DEF Marks, Unused, HasWant
  <2>2. CASE p.pc = "markcopy" /\ HasWant(p)
    BY <1>0, <1>1, <2>2 DEF Marks, Apart, Shape, CopyPcs, Original, Relocating
  <2>3. CASE p.pc = "markcopy" /\ p.kind = "merge"
    BY <1>0, <1>1, <2>3 DEF Marks, Apart, Original, Relocating, HasWant
  <2>4. p.pc = "unmark" => v = NoRef
    BY DEF Marks
  <2> QED
    BY <1>1, <2>1, <2>2, <2>3, <2>4 DEF Unused
<1>2. CASE x # o /\ p.pc # "markfailed"
  <2>1. p.pc \notin Free
    BY <1>2 DEF Marks, Free
  <2>2. w.pc = "acquire" /\ HasWant(w)
    BY <1>2, <2>1, UnusedWaits
  <2>3. Moves(p) => p.src[2] # w.id
    BY <2>2 DEF Base, FreshIds
  <2>4. \A s \in Ref : s[2] = w.id => At(s).st = "none"
    BY <1>0, <2>2 DEF UnusedIs, HasCopy
  <2>5. CASE p.pc \in {"marksrc", "check"}
    BY <2>3, <2>5 DEF Marks, Moves
  <2>6. CASE p.pc = "markcopy"
    <3>1. Original(p) \in Ref /\ At(Original(p)).st # "none"
      BY <1>0, <2>6, RefsAre DEF ReadStill, CopyPcs
    <3> QED
      BY <2>4, <2>6, <3>1 DEF Marks
  <2>7. CASE p.pc = "markhold"
    <3>1. p.kind = "merge" /\ i = p.id
      BY <1>0, <2>7 DEF Marks, Shape
    <3> QED
      BY <1>2, <2>2, <3>1 DEF Base, IdsMinted, OwnsId
  <2> QED
    BY <1>2, <2>5, <2>6, <2>7 DEF Marks
<1>3. CASE x # o /\ p.pc = "markfailed"
  <2>1. p.kind = "redispatch" /\ i = p.src[2] /\ p.src \in Ref
    BY <1>0, <1>3 DEF Marks, Shape, Moves
  <2>2. At(p.src).st = "failed"
    BY <2>1 DEF Base, FailedStays
  <2>3. HasCopy(w) /\ w.cp = p.src => At(p.src).st = "held"
    BY <1>0 DEF CopyStays
  <2> QED
    BY <1>0, <2>1, <2>2, <2>3 DEF UnusedIs
<1> QED
  BY <1>1, <1>2, <1>3

\* A job is not added at another operation's unused id.
LEMMA AddedUnused ==
    ASSUME Base, ~SlowOps, NEW o \in Op, NEW r \in Ref, NEW d,
           \/ op[o].pc = "add" /\ r = Wanted(op[o]) /\ d = op[o].d
           \/ op[o].pc = "copy" /\ r = op[o].cp /\ d = CopyData(op[o]),
           NEW x \in Op, Unused(op[x]), x # o
    PROVE  op[x].id # r[2]
<1>1. op[x].pc = "acquire" /\ HasWant(op[x])
  BY AddedAt, UnusedWaits
<1> QED
  BY <1>1, AddedAt DEF Base, IdsMinted, OwnsId, FreshIds

\* The copy goes on with its operation, or is gone.
LEMMA CopyGoesOn ==
    ASSUME Base, NEW o \in Op, OpStep(o), ~CheckMerge(o), HasCopy(op[o]), Unused(op'[o])
    PROVE  (HasCopy(op'[o]) /\ op'[o].cp = op[o].cp) \/ After(op[o].cp).st = "none"
<1> DEFINE p == op[o]
           n == op'[o]
<1>0. Typed /\ Shape(p) /\ ReadStill(p)
  BY BaseIs
<1>1. p.pc \in {"markcopy", "take", "drop"} \/
      (p.kind = "merge" /\ p.pc \in {"look", "senders", "update", "recheck", "takehold"})
  BY DEF HasCopy
<1>2. CASE MarkCopy(o)
  <2>1. Becomes(o, "take", p.ref, p.prev, p.cp, p.res)
    BY <1>0, <1>2, MarkCopyDoes
  <2> QED
    BY <2>1 DEF Becomes, HasCopy
<1>3. CASE Take(o)
  <2>1. \E l \in {"drop", "look", "promote"} : /\ Becomes(o, l, p.ref, p.prev, p.cp, p.res)
                                               /\ l = "look" => p.kind = "merge"
    BY <1>0, <1>3, TakeDoes
  <2>2. n.cp = p.cp /\ n.pc \in {"drop", "look", "promote"} /\ n.kind = p.kind /\ (n.pc = "look" => p.kind = "merge")
    BY <2>1 DEF Becomes
  <2> QED
    BY <2>2 DEF HasCopy, Unused
<1>4. CASE DropCopy(o)
  BY <1>4, DropCopyTouches, AfterIs, IdleTyped DEF NoJob
<1>5. CASE Look(o)
  <2>1. p.kind = "merge" /\ ~HasWant(p)
    BY <1>0, <1>1, <1>5, LookDoes DEF HasWant
  <2>2. \/ Becomes(o, "promote", p.ref, p.prev, p.cp, p.res)
        \/ Becomes(o, "takehold", p.ref, p.prev, p.cp, idx)
        \/ Becomes(o, "senders", idx, At(idx).data, p.cp, p.res)
    BY <1>0, <1>5, <2>1, LookDoes DEF NotAppended, AppendedThen, MustRelocate, HasWant
  <2>3. n.cp = p.cp /\ n.kind = "merge" /\ n.pc \in {"promote", "takehold", "senders"}
    BY <2>1, <2>2 DEF Becomes
  <2> QED
    BY <2>3 DEF HasCopy, Unused, HasWant
<1>6. CASE RecordSenders(o)
  <2>1. p.kind = "merge" /\ ~HasWant(p)
    BY <1>0, <1>1, <1>6, RecordSendersDoes DEF HasWant
  <2>2. Becomes(o, "update", p.ref, p.prev, p.cp, p.res)
    BY <1>0, <1>6, <2>1, RecordSendersDoes DEF Relocating
  <2> QED
    BY <2>1, <2>2 DEF Becomes, HasCopy
<1>7. CASE UpdateData(o)
  <2>1. p.kind = "merge" /\ p.pc = "update"
    BY <1>0, <1>1, <1>7, UpdateDataDoes
  <2>2. Becomes(o, "recheck", p.ref, p.prev, p.cp, p.res)
    BY <1>7, UpdateDataTouches
  <2> QED
    BY <2>1, <2>2 DEF Becomes, HasCopy
<1>8. CASE Recheck(o)
  <2>1. p.kind = "merge" /\ ~HasWant(p)
    BY <1>0, <1>1, <1>8, RecheckDoes DEF HasWant
  <2>2. \/ Becomes(o, "promote", p.ref, p.prev, p.cp, p.res)
        \/ Becomes(o, "takehold", p.ref, p.prev, p.cp, p.ref)
    BY <1>0, <1>8, <2>1, RecheckDoes DEF NotAppended, AppendedThen, HasWant
  <2>3. n.cp = p.cp /\ n.kind = "merge" /\ n.pc \in {"promote", "takehold"}
    BY <2>1, <2>2 DEF Becomes
  <2> QED
    BY <2>3 DEF HasCopy, Unused, HasWant
<1>9. CASE TakeHold(o)
  BY <1>9, TakeHoldTouches, AfterIs DEF NoJob
<1> QED
  BY <1>1, <1>2, <1>3, <1>4, <1>5, <1>6, <1>7, <1>8, <1>9
  DEF OpStep, Acquire, Release, MarkFailed, Index, Add,
      MarkSource, CheckMoved, CheckClaimed, CheckSwap, AddCopy,
      Unmark, Promote, Reindex, MarkHold, ToMove

\* What a step of slot o that is not a merge's first leaves of every record.
LEMMA OpStepRecords ==
    ASSUME Base, NEW o \in Op, OpStep(o), ~CheckMerge(o)
    PROVE  /\ \A x \in Op : Inherits(op[x], op'[x]) /\ (x # o => op'[x] = op[x])
           /\ nextId' = nextId /\ turnDone' = turnDone
BY OpStepInherits, InheritsSelf DEF Steps

LEMMA OpStepUnused == ASSUME Base, ~SlowOps, NEW o \in Op, OpStep(o) PROVE UnusedIds'
<1>0. Typed /\ \A x \in Op : Unused(op[x]) => UnusedIs(op[x])
  BY BaseTyped DEF Base, UnusedIds
<1>1. CASE CheckMerge(o)
  <2> DEFINE n == op'[o]
  <2>1. /\ n.id = nextId /\ nextId \in Nat /\ \A x \in Op : x # o => op'[x] = op[x]
        /\ UNCHANGED <<job, moved, turnDone>>
    BY <1>1, MergeKeeps
  <2>2. nextId \in Id
    BY <1>0, <1>1, CheckMergeDoes
  <2>3. nextId \notin turnDone /\ moved[nextId] = NoRef /\ \A r \in Ref : r[2] = nextId => At(r).st = "none"
    BY <2>1, <2>2 DEF Base, IdsMinted
  <2>4. UnusedIs(op[o])'
    <3>1. op'[o].id \notin turnDone' /\ moved'[op'[o].id] = NoRef
      BY <2>1, <2>3
    <3>2. \A r \in Ref : r[2] = op'[o].id => job'[r[1]][r[2]].st = "none"
      BY <2>1, <2>3 DEF At
    <3> QED
      BY <3>1, <3>2 DEF UnusedIs, At
  <2>5. ASSUME NEW x \in Op, x # o, Unused(op[x])' PROVE UnusedIs(op[x])'
    <3>1. Unused(op[x]) /\ op'[x] = op[x]
      BY <2>1, <2>5
    <3>2. UnusedIs(op[x])
      BY <1>0, <3>1
    <3>3. op'[x].id \notin turnDone' /\ (op'[x].pc # "marksrc" => moved'[op'[x].id] = NoRef)
      BY <2>1, <3>1, <3>2 DEF UnusedIs
    <3>4. \A r \in Ref : r[2] = op'[x].id /\ job'[r[1]][r[2]].st # "none" => HasCopy(op'[x]) /\ op'[x].cp = r
      BY <2>1, <3>1, <3>2 DEF UnusedIs, At
    <3> QED
      BY <3>3, <3>4 DEF UnusedIs, At, HasCopy
  <2> QED
    BY <2>4, <2>5 DEF UnusedIds
<1>2. CASE ~CheckMerge(o)
  <2> SUFFICES ASSUME NEW x \in Op, Unused(op'[x])
               PROVE  /\ op'[x].id \notin turnDone'
                      /\ op'[x].pc # "marksrc" => moved'[op'[x].id] = NoRef
                      /\ \A s \in Ref : s[2] = op'[x].id /\ After(s).st # "none" =>
                              HasCopy(op'[x]) /\ op'[x].cp = s
    BY DEF UnusedIds, UnusedIs, After, At
  <2> DEFINE p == op[x]
             n == op'[x]
  <2>1. /\ Inherits(p, n) /\ (x # o => n = p) /\ turnDone' = turnDone
    BY <1>2, OpStepRecords
  <2>2. Unused(p) /\ OwnsId(n) /\ OwnsId(p) /\ n.id = p.id
    BY <2>1 DEF Inherits, Unused, OwnsId
  <2>3. UnusedIs(p) /\ CopyStays(p) /\ Shape(p)
    BY <1>0, <2>2, BaseIs
  <2>4. n.id \notin turnDone'
    BY <2>1, <2>2, <2>3 DEF UnusedIs
  <2>5. ASSUME n.pc # "marksrc" PROVE moved'[n.id] = NoRef
    <3>1. p.pc # "marksrc"
      <4>1. x = o /\ p.pc = "marksrc" => n.pc = "release" /\ p.kind \in {"claimed", "merge"}
        BY <2>3, OpStepMarks DEF Shape, KindPc, OpenPcs, CopyPcs
      <4> QED
        BY <2>1, <2>2, <2>5, <4>1 DEF Unused, HasWant, Inherits, OwnsId
    <3>2. moved[p.id] = NoRef
      BY <2>3, <3>1 DEF UnusedIs
    <3>3. CASE moved' = moved
      BY <2>2, <3>2, <3>3
    <3>4. CASE \E i, v : Marks(o, i, v)
      <4>1. PICK i, v : Marks(o, i, v)
        BY <3>4
      <4>2. p.id # i \/ v = NoRef \/ (x = o /\ op[o].pc = "markhold" /\ n.pc = "marksrc")
        <5>1. op[x].id # i \/ v = NoRef \/ (x = o /\ op[o].pc \in {"marksrc", "markhold"})
          BY <2>2, <4>1, MarksUnused
        <5>2. op[o].pc = "markhold" => op'[o].pc = "marksrc"
          BY <4>1 DEF Marks
        <5> QED
          BY <3>1, <5>1, <5>2
      <4>3. moved' = [moved EXCEPT ![i] = v] /\ i \in Id
        BY <4>1 DEF Marks
      <4>4. moved \in [Id -> Ref \cup {NoRef}]
        BY <1>0 DEF Typed, TypeOK
      <4>5. p.id \in Id
        BY <2>2, <2>3 DEF Shape, OwnsId
      <4> QED
        BY <2>2, <2>5, <3>2, <4>2, <4>3, <4>4, <4>5
    <3> QED
      BY <3>3, <3>4, OpStepMarks
  <2>6. ASSUME NEW s \in Ref, s[2] = n.id, After(s).st # "none" PROVE HasCopy(n) /\ n.cp = s
    <3>1. CASE At(s).st # "none"
      <4>1. HasCopy(p) /\ p.cp = s
        BY <2>2, <2>3, <2>6, <3>1 DEF UnusedIs
      <4>2. CASE x = o
        <5>1. HasCopy(op[o]) /\ op[o].cp = s /\ Unused(op'[o])
          BY <4>1, <4>2
        <5>2. (HasCopy(op'[o]) /\ op'[o].cp = op[o].cp) \/ After(op[o].cp).st = "none"
          BY <1>2, <5>1, CopyGoesOn
        <5> QED
          BY <2>6, <4>2, <5>1, <5>2
      <4>3. CASE x # o
        <5>1. n = p
          BY <2>1, <4>3
        <5> HIDE DEF n, p
        <5> QED
          BY <4>1, <5>1
      <4> QED
        BY <4>2, <4>3
    <3>2. CASE At(s).st = "none"
      <4>1. job' # job
        BY <2>6, <3>2 DEF After, At
      <4>2. PICK r, k : Changes(o, r, k)
        BY <4>1, OpStepChanges
      <4>3. After(s) = IF s = r THEN k ELSE At(s)
        BY <4>2, AfterIs DEF Changes
      <4>4. s = r /\ k.st # "none"
        BY <2>6, <3>2, <4>3
      <4>5. Added(At(r), k)
        BY <3>2, <4>2, <4>4 DEF Changes, Grown, Removed, Promoted, Returned, Pending
      <4>6. \/ op[o].pc = "add" /\ r = Wanted(op[o]) /\ k.data = op[o].d
            \/ op[o].pc = "copy" /\ r = op[o].cp /\ k.data = CopyData(op[o])
        BY <3>2, <4>2, <4>4, <4>5 DEF Changes, Grown, Added, Removed, Promoted, Returned, Pending
      <4>7. x = o
        BY <2>2, <2>6, <4>2, <4>4, <4>6, AddedUnused DEF Changes
      <4>8. CASE p.pc = "copy" /\ s = p.cp
        <5>1. AddCopy(o)
          BY <1>2, <4>7, <4>8 DEF OpStep, Acquire, Release, MarkFailed, Look, RecordSenders, UpdateData,
             Recheck, Index, Add, MarkSource, CheckMoved, CheckClaimed, CheckSwap, MarkCopy, Take,
             DropCopy, Unmark, Promote, Reindex, TakeHold, MarkHold, ToMove
        <5>2. Becomes(o, "markcopy", p.ref, p.prev, p.cp, p.res)
          BY <1>0, <4>7, <5>1, AddCopyDoes
        <5> QED
          BY <4>7, <4>8, <5>2 DEF Becomes, HasCopy
      <4>9. CASE p.pc = "add"
        <5>1. Add(o)
          BY <1>2, <4>7, <4>9 DEF OpStep, Acquire, Release, MarkFailed, Look, RecordSenders, UpdateData,
             Recheck, Index, AddCopy, MarkSource, CheckMoved, CheckClaimed, CheckSwap, MarkCopy, Take,
             DropCopy, Unmark, Promote, Reindex, TakeHold, MarkHold, ToMove
        <5>2. Becomes(o, IF p.kind = "claimed" THEN "marksrc" ELSE "release", p.ref, p.prev, p.cp, Wanted(p))
          BY <1>0, <4>7, <5>1, AddDoes
        <5>3. p.kind # "merge" /\ n.kind = p.kind /\ (p.kind # "claimed" => n.pc = "release")
          BY <2>3, <4>7, <4>9, <5>2 DEF Becomes, Shape, KindPc, CopyPcs
        <5> QED
          BY <5>3 DEF Unused, HasWant
      <4> QED
        BY <4>4, <4>6, <4>7, <4>8, <4>9
    <3> QED
      BY <3>1, <3>2
  <2> QED
    BY <2>4, <2>5, <2>6
<1> QED
  BY <1>1, <1>2

\* A job that was not there before the step of slot o is the one it added.
LEMMA NewJobs ==
    ASSUME Base, NEW o \in Op, OpStep(o), NEW s \in Ref, After(s).st # "none", At(s).st = "none"
    PROVE  \/ op[o].pc = "add" /\ s = Wanted(op[o]) /\ After(s).data = op[o].d
           \/ op[o].pc = "copy" /\ s = op[o].cp /\ After(s).data = CopyData(op[o])
<1>1. job' # job
  BY DEF After, At
<1>2. PICK r, k : Changes(o, r, k)
  BY <1>1, OpStepChanges
<1>3. After(s) = IF s = r THEN k ELSE At(s)
  BY <1>2, AfterIs DEF Changes
<1>4. s = r /\ k.st # "none" /\ After(s) = k
  BY <1>3
<1> QED
  BY <1>2, <1>4 DEF Changes, Grown, Added, Removed, Promoted, Returned, Pending

\* The label of a job never changes.
LEMMA LabelStays ==
    ASSUME Base, NEW o \in Op, OpStep(o), NEW s \in Ref, After(s).st # "none", At(s).st # "none"
    PROVE  After(s).data.label = At(s).data.label
<1>1. CASE job' = job
  BY <1>1 DEF After, At
<1>2. CASE \E r, k : Changes(o, r, k)
  <2>1. PICK r, k : Changes(o, r, k)
    BY <1>2
  <2>2. After(s) = IF s = r THEN k ELSE At(s)
    BY <2>1, AfterIs DEF Changes
  <2>3. CASE s = r
    BY <2>1, <2>2, <2>3 DEF Changes, Grown, Added, Removed, Promoted, Returned, Pending, NoJob
  <2> QED
    BY <2>2, <2>3
<1> QED
  BY <1>1, <1>2, OpStepChanges

LEMMA OpStepMinted == ASSUME Base, NEW o \in Op, OpStep(o) PROVE IdsMinted'
<1> DEFINE p == op[o]
<1>0. Typed /\ IdsMinted /\ Shape(p) /\ ReadStill(p)
  BY BaseIs DEF Base
<1>1. nextId \in Nat /\ nextId' \in Nat /\ nextId <= nextId' /\ turnDone' = turnDone /\ turnDone \subseteq Nat
  BY <1>0, OpStepCalm, TurnQueueAssumption DEF Typed, TypeOK, Id
<1>2. ASSUME NEW s \in Ref, After(s).st # "none" PROVE s[2] < nextId'
  <2>0. s[2] \in Nat
    BY RefIs DEF Id
  <2>1. CASE At(s).st # "none"
    BY <1>0, <1>1, <2>0, <2>1 DEF IdsMinted
  <2>2. CASE At(s).st = "none"
    <3>1. s[2] < nextId
      BY <1>0, <1>2, <2>2, NewJobs, AddedAt DEF IdsMinted
    <3> QED
      BY <1>1, <2>0, <3>1
  <2> QED
    BY <2>1, <2>2
<1>3. \A i \in turnDone' : i < nextId'
  BY <1>0, <1>1 DEF IdsMinted
<1>4. ASSUME NEW i, NEW v, Marks(o, i, v), v # NoRef PROVE i < nextId
  <2>1. CASE p.pc \in {"marksrc", "markfailed", "check"}
    BY <1>0, <1>4, <2>1 DEF Marks, IdsMinted, Moves
  <2>2. CASE p.pc = "markcopy"
    <3>1. Original(p) \in Ref /\ At(Original(p)).st # "none"
      BY <1>0, <2>2, RefsAre DEF ReadStill, CopyPcs
    <3> QED
      BY <1>0, <1>4, <2>2, <3>1 DEF Marks, IdsMinted
  <2>3. CASE p.pc = "markhold"
    BY <1>0, <1>4, <2>3 DEF Marks, IdsMinted, Shape, OwnsId
  <2> QED
    BY <1>4, <2>1, <2>2, <2>3 DEF Marks
<1>5. ASSUME NEW i \in Id, moved'[i] # NoRef PROVE i < nextId'
  <2>0. i \in Nat /\ moved \in [Id -> Ref \cup {NoRef}]
    BY <1>0 DEF Id, Typed, TypeOK
  <2>1. moved[i] # NoRef => i < nextId
    BY <1>0 DEF IdsMinted
  <2>2. CASE moved' = moved
    BY <1>1, <1>5, <2>0, <2>1, <2>2
  <2>3. CASE \E h, v : Marks(o, h, v)
    <3>1. PICK h, v : Marks(o, h, v)
      BY <2>3
    <3>2. moved' = [moved EXCEPT ![h] = v]
      BY <3>1 DEF Marks
    <3>3. (h = i /\ v # NoRef) \/ moved[i] # NoRef
      BY <1>5, <2>0, <3>2
    <3> QED
      BY <1>1, <1>4, <2>0, <2>1, <3>1, <3>3
  <2> QED
    BY <2>2, <2>3, OpStepMarks
<1>6. ASSUME idx' # NoRef PROVE idx'[2] < nextId'
  <2>1. CASE idx' = idx
    <3>1. idx \in Ref
      BY <1>0, <1>6, <2>1 DEF Typed, TypeOK
    <3> QED
      BY <1>0, <1>1, <1>6, <2>1, <3>1, RefIs DEF IdsMinted, Id
  <2>2. CASE p.pc = "index" /\ idx' = Wanted(p)
    <3>1. p.id \in Nat /\ p.id < nextId
      <4>1. CASE HasWant(p)
        BY <1>0, <4>1 DEF IdsMinted, OwnsId, Shape, Id
      <4>2. CASE p.kind = "claimed"
        <5>1. p.src \in Ref /\ p.id = p.src[2] /\ p.src[2] < nextId
          BY <1>0, <4>2 DEF IdsMinted, Moves, Shape
        <5> QED
          BY <5>1, RefIs DEF Id
      <4> QED
        BY <1>0, <2>2, <4>1, <4>2 DEF Shape, KindPc, HasWant, CopyPcs
    <3> QED
      BY <1>1, <2>2, <3>1 DEF Wanted
  <2>3. CASE p.pc = "reindex" /\ idx' = p.cp
    <3>1. p.cp[2] \in Nat /\ p.cp[2] < nextId
      <4>1. CASE HasWant(p)
        BY <1>0, <2>3, <4>1 DEF IdsMinted, OwnsId, Shape, Id, Wanted
      <4>2. CASE p.kind = "merge"
        BY <1>0, <2>3, <4>2 DEF IdsMinted, OwnsId, Shape, Id
      <4>3. CASE p.kind = "swap"
        <5>1. p.src \in Ref /\ p.cp[2] = p.src[2] /\ p.src[2] < nextId
          BY <1>0, <2>3, <4>3 DEF IdsMinted, Moves, Shape
        <5> QED
          BY <5>1, RefIs DEF Id
      <4> QED
        BY <1>0, <2>3, <4>1, <4>2, <4>3 DEF Shape, KindPc, HasWant, OpenPcs
    <3> QED
      BY <1>1, <2>3, <3>1
  <2> QED
    BY <2>1, <2>2, <2>3, OpStepIndex
<1>7. ASSUME NEW x \in Op, Moves(op'[x]) PROVE op'[x].src[2] < nextId'
  <2>1. Moves(op[x]) /\ op'[x].src = op[x].src
    BY <1>7, OpStepKeeps DEF Keeps
  <2>2. op[x].src \in Ref /\ op[x].src[2] < nextId
    BY <1>0, <2>1, BaseIs DEF IdsMinted, Shape
  <2> QED
    BY <1>1, <2>1, <2>2, RefIs DEF Id
<1>8. ASSUME NEW x \in Op, OwnsId(op[x]) PROVE op[x].id \in Nat /\ op[x].id < nextId
  BY <1>0, <1>8, BaseIs DEF IdsMinted, Shape, OwnsId, Id
<1>9. /\ \A x \in Op : OwnsId(op'[x]) => op'[x].id < nextId'
      /\ \A x, y \in Op : OwnsId(op'[x]) /\ OwnsId(op'[y]) /\ op'[x].id = op'[y].id => x = y
  <2>1. CASE CheckMerge(o)
    BY <1>0, <1>1, <1>8, <2>1, MergeKeeps DEF IdsMinted
  <2>2. CASE ~CheckMerge(o)
    <3>1. \A x \in Op : OwnsId(op'[x]) => OwnsId(op[x]) /\ op'[x].id = op[x].id
      BY <2>2, OpStepRecords DEF Inherits
    <3> QED
      BY <1>0, <1>1, <1>8, <3>1 DEF IdsMinted
  <2> QED
    BY <2>1, <2>2
<1>10. \A r \in Ref : At(r)'.st # "none" => r[2] < nextId'
  BY <1>2 DEF After, At
<1>11. /\ \A x \in Op : OwnsId(op[x])' => op'[x].id < nextId'
       /\ \A x \in Op : Moves(op[x])' => op'[x].src[2] < nextId'
       /\ \A x, y \in Op : OwnsId(op[x])' /\ OwnsId(op[y])' /\ op'[x].id = op'[y].id => x = y
  BY <1>7, <1>9 DEF OwnsId, Moves, HasWant
<1> QED
  BY <1>3, <1>5, <1>6, <1>10, <1>11 DEF IdsMinted

\* Only a look and the first steps of a move give an operation a place.
LEMMA PlacesStay ==
    ASSUME Base, NEW o \in Op, OpStep(o), ~Look(o), ~CheckMerge(o), ~CheckSwap(o)
    PROVE  LET p == op[o]
               n == op'[o] IN
           \/ n = IdleOp
           \/ /\ n.kind = p.kind /\ n.id = p.id /\ n.src = p.src /\ n.ref = p.ref /\ n.want = p.want /\ n.d = p.d
              /\ n.prev = p.prev
              /\ (n.cp = p.cp \/ (n.cp = NoRef /\ p.pc = "unmark"))
<1>0. Typed
  BY BaseTyped
<1>1. ASSUME \/ Acquire(o) \/ RecordSenders(o) \/ Recheck(o) \/ Index(o) \/ Add(o) \/ CheckClaimed(o)
             \/ MarkSource(o) \/ CheckMoved(o)
      PROVE  \E l, res : Becomes(o, l, op[o].ref, op[o].prev, op[o].cp, res)
  BY <1>0, <1>1, AcquireDoes, RecordSendersDoes, RecheckDoes, IndexDoes, AddDoes, CheckClaimedDoes,
     MarkSourceDoes, CheckMovedDoes
<1>2. ASSUME \/ AddCopy(o) \/ MarkCopy(o) \/ Take(o) \/ DropCopy(o) \/ Promote(o) \/ Reindex(o)
             \/ TakeHold(o) \/ MarkHold(o)
      PROVE  \E l, res : Becomes(o, l, op[o].ref, op[o].prev, op[o].cp, res)
  BY <1>0, <1>2, AddCopyDoes, MarkCopyDoes, TakeDoes, DropCopyDoes, PromoteDoes, ReindexDoes,
     TakeHoldDoes, MarkHoldDoes
<1>3. CASE UpdateData(o)
  BY <1>3, UpdateDataTouches, SameRecord
<1>4. CASE Unmark(o)
  <2>1. op[o].pc = "unmark" /\ \E l, res : Becomes(o, l, op[o].ref, op[o].prev, NoRef, res)
    BY <1>0, <1>4, UnmarkDoes
  <2> QED
    BY <2>1 DEF Becomes
<1>5. CASE Release(o)
  <2>1. op'[o] = IdleOp \/ \E l, res : Becomes(o, l, op[o].ref, op[o].prev, op[o].cp, res)
    BY <1>0, <1>5, ReleaseDoes DEF OpBecomes
  <2> QED
    BY <2>1, SameRecord
<1>6. CASE MarkFailed(o)
  BY <1>0, <1>6, MarkFailedDoes DEF OpBecomes
<1> QED
  BY <1>1, <1>2, <1>3, <1>4, <1>5, <1>6, SameRecord DEF OpStep

LEMMA SwapIs ==
    ASSUME Base, NEW o \in Op, CheckSwap(o)
    PROVE  LET p == op[o]
               n == op'[o] IN
           /\ p.pc = "check" /\ p.kind = "reap" /\ n.kind = "swap" /\ n.pc = "copy" /\ n.src = p.src
           /\ n.want = p.want /\ n.cp = <<p.want, p.src[2]>> /\ n.d = At(p.src).data /\ p.src \in Ref
           /\ At(p.src).st # "none"
           /\ UNCHANGED <<job, idx, moved, turnDone, up, silent, runsOn, budget, nextId>>
<1> DEFINE p == op[o]
           c == <<p.want, p.src[2]>>
           m == [p EXCEPT !.pc = "copy", !.kind = "swap", !.id = p.src[2], !.d = At(p.src).data, !.cp = c]
<1>0. Typed /\ p \in Operation /\ Shape(p)
  BY BaseIs
<1>1. /\ p.kind = "reap" /\ p.pc = "check" /\ OpBecomes(o, m) /\ At(p.src).st # "none"
      /\ UNCHANGED <<job, idx, moved, turnDone, up, silent, runsOn, budget, nextId>>
  BY <1>0, CheckSwapDoes
<1>2. p.src \in Ref
  BY <1>0, <1>1 DEF Shape, Moves
<1> DEFINE i == p.src[2]
           d == At(p.src).data
           a == [p EXCEPT !.pc = "copy", !.kind = "swap", !.id = i]
<1> HIDE DEF i, d, c
<1>3. a.pc = "copy" /\ a.kind = "swap" /\ a.src = p.src /\ a.want = p.want
  BY <1>0 DEF Operation
<1>4. m = [a EXCEPT !.d = d, !.cp = c]
  BY <1>0 DEF Operation, i, d
<1>5. m.pc = "copy" /\ m.kind = "swap" /\ m.src = p.src /\ m.want = p.want /\ m.d = d /\ m.cp = c
  BY <1>0, <1>3, <1>4 DEF Operation
<1> HIDE DEF m
<1> QED
  BY <1>1, <1>2, <1>5 DEF OpBecomes, c, d

LEMMA OpStepApart == ASSUME Base, NEW o \in Op, OpStep(o) PROVE Apartness'
<1> DEFINE p == op[o]
           n == op'[o]
<1>0. Typed /\ Shape(p) /\ Apart(p) /\ \A x \in Op : Apart(op[x])
  BY BaseIs
<1>1. \A x \in Op : x # o => op'[x] = op[x]
  BY OpStepInherits, MergeKeeps DEF Steps
<1>2. Apart(n)
  <2>1. CASE Look(o)
    <3>1. p.pc = "look" /\ Onward(o)
      BY <1>0, <2>1, LookDoes, BecomesOnward
    <3>2. CASE n.ref = p.ref /\ n.cp = p.cp
      BY <1>0, <3>1, <3>2 DEF Onward, Apart, HasWant
    <3>3. CASE AppendableAt(idx) /\ n.ref = idx /\ HasWant(p)
      <4>1. idx \in Ref /\ At(idx).st # "none"
        BY <1>0, <3>3 DEF AppendableAt, Pending, Typed, TypeOK
      <4>2. Unused(p) /\ ~HasCopy(p) /\ UnusedIs(p)
        BY <3>1, <3>3, BaseIs DEF Unused, HasCopy, HasWant
      <4>3. idx[2] # p.id
        BY <4>1, <4>2 DEF UnusedIs
      <4> QED
        BY <1>0, <3>1, <3>3, <4>3 DEF Onward, Apart, HasWant
    <3>4. CASE ~HasWant(p)
      BY <1>0, <3>1, <3>4 DEF Onward, Apart, HasWant
    <3>5. \/ n.ref = p.ref /\ n.cp = p.cp
          \/ AppendableAt(idx) /\ n.ref = idx
      <4>1. \/ \E l, res : Becomes(o, l, p.ref, p.prev, p.cp, res)
            \/ AppendableAt(idx) /\ \E cp : Becomes(o, "senders", idx, At(idx).data, cp, p.res)
        BY <1>0, <2>1, LookDoes
      <4> QED
        BY <4>1 DEF Becomes
    <3> QED
      BY <3>2, <3>3, <3>4, <3>5
  <2>2. CASE CheckMerge(o)
    <3>1. n.kind = "merge" /\ n.src = p.src /\ n.id = nextId /\ p.kind = "reap" /\ nextId \in Nat
      BY <2>2, MergeKeeps
    <3>2. p.src \in Ref /\ p.src[2] < nextId
      BY <1>0, <3>1 DEF Base, IdsMinted, Moves, Shape
    <3>3. p.src[2] # nextId
      BY <3>1, <3>2, RefIs DEF Id
    <3> QED
      BY <3>1, <3>3 DEF Apart, HasWant
  <2>3. CASE CheckSwap(o)
    BY <2>3, SwapIs DEF Apart, HasWant
  <2>4. CASE ~Look(o) /\ ~CheckMerge(o) /\ ~CheckSwap(o)
    <3>1. CASE n = IdleOp
      BY <3>1 DEF Apart, HasWant, IdleOp
    <3>2. CASE n # IdleOp
      BY <1>0, <2>4, <3>2, PlacesStay DEF Apart, HasWant
    <3> QED
      BY <3>1, <3>2
  <2> QED
    BY <2>1, <2>2, <2>3, <2>4
<1>3. \A x \in Op : Apart(op'[x])
  BY <1>0, <1>1, <1>2
<1> QED
  BY <1>3 DEF Apartness, Apart, HasWant

LEMMA OpStepFresh == ASSUME Base, NEW o \in Op, OpStep(o) PROVE FreshIds'
<1>1. \A x, y \in Op : op'[y].pc = "acquire" /\ HasWant(op'[y]) /\ Moves(op'[x]) => op'[x].src[2] # op'[y].id
  BY OpStepKeeps DEF Keeps, Base, FreshIds
<1> QED
  BY <1>1 DEF FreshIds, HasWant, Moves

LEMMA OpStepPlaced == ASSUME Base, NEW o \in Op, OpStep(o) PROVE Placed'
<1> SUFFICES ASSUME NEW r \in Ref, NEW s \in Ref, r[2] = s[2], After(r).st # "none", After(s).st # "none", r # s
             PROVE  r[1] = After(r).data.label \/ s[1] = After(s).data.label
  BY DEF Placed, After, At
<1>1. CASE At(r).st # "none" /\ At(s).st # "none"
  BY <1>1, LabelStays DEF Base, Placed
<1>2. ASSUME NEW a \in Ref, NEW b \in Ref, a[2] = b[2], a # b, After(a).st # "none", After(b).st # "none",
             At(a).st = "none"
      PROVE  a[1] = After(a).data.label
  <2>1. \/ op[o].pc = "add" /\ a = Wanted(op[o]) /\ After(a).data = op[o].d
        \/ op[o].pc = "copy" /\ a = op[o].cp /\ After(a).data = CopyData(op[o])
    BY <1>2, NewJobs
  <2>2. CASE \A c \in Ref : c[2] = a[2] => At(c).st = "none"
    <3>1. At(b).st = "none"
      BY <1>2, <2>2
    <3>2. \/ op[o].pc = "add" /\ b = Wanted(op[o])
          \/ op[o].pc = "copy" /\ b = op[o].cp
      BY <1>2, <3>1, NewJobs
    <3> QED
      BY <1>2, <2>1, <3>2
  <2> QED
    BY <1>2, <2>1, <2>2, AddedAt
<1>3. CASE At(r).st = "none"
  BY <1>2, <1>3
<1>4. CASE At(s).st = "none"
  BY <1>2, <1>4
<1> QED
  BY <1>1, <1>3, <1>4

LEMMA OpStepLabels == ASSUME Base, NEW o \in Op, OpStep(o) PROVE SameLabel'
<1>0. Typed /\ SameLabel /\ IdsMinted
  BY BaseTyped DEF Base
<1>1. ASSUME NEW a \in Ref, After(a).st # "none", At(a).st = "none"
      PROVE  /\ \/ op[o].pc = "add" /\ a = Wanted(op[o]) /\ After(a).data = op[o].d
                \/ op[o].pc = "copy" /\ a = op[o].cp /\ After(a).data = CopyData(op[o])
             /\ \/ /\ Unused(op[o]) /\ a[2] = op[o].id /\ After(a).data.label = op[o].d.label
                   /\ \A c \in Ref : c[2] = a[2] => At(c).st = "none"
                \/ \E c \in Ref : c[2] = a[2] /\ At(c).st # "none" /\ At(c).data.label = After(a).data.label
  <2>1. \/ op[o].pc = "add" /\ a = Wanted(op[o]) /\ After(a).data = op[o].d
        \/ op[o].pc = "copy" /\ a = op[o].cp /\ After(a).data = CopyData(op[o])
    BY <1>1, NewJobs
  <2> QED
    BY <2>1, AddedAt
<1>2. ASSUME NEW a \in Ref, NEW b \in Ref, a[2] = b[2], After(a).st # "none", After(b).st # "none"
      PROVE  After(a).data.label = After(b).data.label
  <2>1. CASE At(a).st # "none" /\ At(b).st # "none"
    BY <1>0, <1>2, <2>1, LabelStays DEF SameLabel
  <2>2. ASSUME NEW c \in Ref, NEW e \in Ref, c[2] = e[2], After(c).st # "none", After(e).st # "none",
               At(c).st = "none", At(e).st # "none"
        PROVE  After(c).data.label = After(e).data.label
    <3>1. PICK h \in Ref : h[2] = c[2] /\ At(h).st # "none" /\ At(h).data.label = After(c).data.label
      BY <1>1, <2>2
    <3>2. At(h).data.label = At(e).data.label
      BY <1>0, <2>2, <3>1 DEF SameLabel
    <3> QED
      BY <2>2, <3>1, <3>2, LabelStays
  <2>3. CASE At(a).st = "none" /\ At(b).st = "none"
    <3>1. a = b
      BY <1>1, <1>2, <2>3
    <3> QED
      BY <3>1
  <2> QED
    BY <1>2, <2>1, <2>2, <2>3
<1>3. ASSUME NEW x \in Op, op'[x].kind \in {"reap", "swap"}
      PROVE  /\ \A r \in Ref : r[2] = op'[x].src[2] /\ After(r).st # "none" => After(r).data.label = op'[x].want
             /\ \A y \in Op : Unused(op'[y]) /\ op'[y].id = op'[x].src[2] => op'[y].d.label = op'[x].want
  <2> DEFINE p == op[x]
             n == op'[x]
  <2>1. p.kind \in {"reap", "swap"} /\ n.want = p.want /\ n.src = p.src
    BY <1>3, OpStepKeeps DEF Keeps, Moves
  <2>2. /\ \A r \in Ref : r[2] = p.src[2] /\ At(r).st # "none" => At(r).data.label = p.want
        /\ \A y \in Op : Unused(op[y]) /\ op[y].id = p.src[2] => op[y].d.label = p.want
    BY <1>0, <2>1 DEF SameLabel, Labelled
  <2>3. ASSUME NEW r \in Ref, r[2] = p.src[2], After(r).st # "none" PROVE After(r).data.label = p.want
    <3>1. CASE At(r).st # "none"
      BY <2>2, <2>3, <3>1, LabelStays
    <3>2. CASE At(r).st = "none"
      BY <1>1, <2>2, <2>3, <3>2
    <3> QED
      BY <3>1, <3>2
  <2>4. ASSUME NEW y \in Op, Unused(op'[y]), op'[y].id = p.src[2] PROVE op'[y].d.label = p.want
    <3>1. CASE CheckMerge(o)
      <4>1. op'[o].id = nextId /\ nextId \in Nat /\ \A z \in Op : z # o => op'[z] = op[z]
        BY <3>1, MergeKeeps
      <4>2. p.src \in Ref /\ p.src[2] < nextId
        BY <1>0, <2>1, BaseIs DEF IdsMinted, Moves, Shape
      <4>3. p.src[2] # nextId
        BY <4>1, <4>2, RefIs DEF Id
      <4>4. y # o
        BY <2>4, <4>1, <4>3
      <4> QED
        BY <2>2, <2>4, <4>1, <4>4
    <3>2. CASE ~CheckMerge(o)
      <4>1. Inherits(op[y], op'[y])
        BY <3>2, OpStepRecords
      <4>2. Unused(op[y]) /\ op'[y].d = op[y].d /\ op'[y].id = op[y].id
        BY <2>4, <4>1 DEF Inherits, OwnsId, Unused
      <4> QED
        BY <2>2, <2>4, <4>2
    <3> QED
      BY <3>1, <3>2
  <2> QED
    BY <2>1, <2>3, <2>4
<1>4. \A r, s \in Ref : r[2] = s[2] /\ At(r)'.st # "none" /\ At(s)'.st # "none"
                            => At(r)'.data.label = At(s)'.data.label
  BY <1>2 DEF After, At
<1>5. \A x \in Op : Labelled(op[x])'
  BY <1>3 DEF Labelled, After, At, Unused, HasWant
<1> QED
  BY <1>4, <1>5 DEF SameLabel

LEMMA OpStepLocks == ASSUME Base, ~SlowOps, NEW o \in Op, OpStep(o) PROVE LockKeeps'
BY AcquireKeeps, MarkSourceKeeps, CheckMovedKeeps, PromoteKeeps, ReindexKeeps, AddKeeps, ReleaseKeeps,
   LookKeeps, RecordSendersKeeps, UpdateDataKeeps, RecheckKeeps, IndexKeeps, CheckClaimedKeeps,
   MarkFailedKeeps, CheckMergeKeeps, CheckSwapKeeps, AddCopyKeeps, MarkCopyKeeps, TakeKeeps,
   DropCopyKeeps, UnmarkKeeps, TakeHoldKeeps, MarkHoldKeeps
   DEF OpStep

LEMMA OpStepBase == ASSUME Base, ~SlowOps, NEW o \in Op, OpStep(o), Typed', LockInv' PROVE Base'
BY OpStepStays, OpStepMinted, OpStepUnused, OpStepApart, OpStepLocks, OpStepFresh, OpStepLabels,
   OpStepPlaced
   DEF Base

-----------------------------------------------------------------------------
(***************************************************************************)
(* The steps of workers, timers, followers and faults keep it too          *)
(***************************************************************************)
\* No job comes, no operation starts, and a turn that ends was running.
Mild ==
    /\ JobsKept /\ idx' \in {idx, NoRef} /\ moved' = moved /\ nextId' = nextId
    /\ \/ turnDone' = turnDone
       \/ \E r \in Ref : At(r).st = "active" /\ turnDone' = turnDone \cup {r[2]}
    /\ \A x \in Op : op'[x] = op[x] \/ op'[x] = IdleOp
    /\ \A x \in Op : op'[x].kind = "claimed" => op[x].by \in up'
    /\ \A s \in Ref :
          /\ At(s).st = "failed" => After(s).st = "failed"
          /\ At(s).st = "active" /\ At(s).ph = "moving" /\ At(s).by \in up =>
                /\ After(s).st = "active" /\ After(s).ph = "moving" /\ After(s).by = At(s).by
                /\ After(s).snap = At(s).snap

LEMMA IdleIs ==
    /\ IdleOp.pc = "idle" /\ IdleOp.kind = "none" /\ ~Unused(IdleOp) /\ ~OwnsId(IdleOp) /\ ~Moves(IdleOp)
    /\ ~HasWant(IdleOp) /\ Apart(IdleOp)
<1>1. IdleOp.pc = "idle" /\ IdleOp.kind = "none"
  BY DEF IdleOp
<1> QED
  BY <1>1 DEF Unused, OwnsId, Moves, HasWant, Apart

LEMMA MildBase == ASSUME Base, Mild, Typed', LockInv', JobShapes' PROVE Base'
<1>0. Typed /\ \A x \in Op : Unused(op[x]) => UnusedIs(op[x])
  BY BaseTyped DEF Base, UnusedIds
<1>1. \A s \in Ref : (After(s).st = "none" <=> At(s).st = "none") /\ After(s).data = At(s).data
  BY DEF Mild, JobsKept, After, At
<1>2. ASSUME NEW x \in Op, op'[x].kind # "none" PROVE op'[x] = op[x]
  BY <1>2, IdleIs DEF Mild
<1>3. ASSUME NEW x \in Op, Unused(op'[x]) \/ OwnsId(op'[x]) \/ Moves(op'[x]) \/ HasWant(op'[x]) PROVE op'[x] = op[x]
  BY <1>3, IdleIs DEF Mild
<1>4. UnusedIds'
  <2> SUFFICES ASSUME NEW x \in Op, Unused(op'[x])
               PROVE  /\ op'[x].id \notin turnDone'
                      /\ op'[x].pc # "marksrc" => moved'[op'[x].id] = NoRef
                      /\ \A s \in Ref : s[2] = op'[x].id /\ After(s).st # "none" =>
                              HasCopy(op'[x]) /\ op'[x].cp = s
    BY DEF UnusedIds, UnusedIs, After, At
  <2>1. op'[x] = op[x]
    BY <1>3
  <2>2. UnusedIs(op[x]) /\ CopyStays(op[x])
    BY <1>0, <2>1, BaseIs
  <2>3. ASSUME NEW s \in Ref, At(s).st = "active" PROVE op[x].id # s[2]
    BY <2>2, <2>3 DEF UnusedIs, CopyStays
  <2>4. op[x].id \notin turnDone'
    BY <2>2, <2>3 DEF UnusedIs, Mild
  <2>5. op[x].pc # "marksrc" => moved'[op[x].id] = NoRef
    BY <2>2 DEF UnusedIs, Mild
  <2>6. \A s \in Ref : s[2] = op[x].id /\ After(s).st # "none" => HasCopy(op[x]) /\ op[x].cp = s
    BY <1>1, <2>2 DEF UnusedIs
  <2> QED
    BY <2>1, <2>4, <2>5, <2>6
<1>5. IdsMinted'
  <2>1. \A r \in Ref : At(r)'.st # "none" => r[2] < nextId'
    BY <1>1 DEF Base, IdsMinted, Mild, After, At
  <2>2. \A i \in turnDone' : i < nextId'
    BY DEF Base, IdsMinted, Mild
  <2>3. (\A i \in Id : moved'[i] # NoRef => i < nextId') /\ (idx' # NoRef => idx'[2] < nextId')
    BY DEF Base, IdsMinted, Mild
  <2>4. \A x \in Op : /\ OwnsId(op'[x]) => op'[x].id < nextId'
                      /\ Moves(op'[x]) => op'[x].src[2] < nextId'
    BY <1>3 DEF Base, IdsMinted, Mild
  <2>5. \A x, y \in Op : OwnsId(op'[x]) /\ OwnsId(op'[y]) /\ op'[x].id = op'[y].id => x = y
    BY <1>3 DEF Base, IdsMinted, Mild
  <2> QED
    BY <2>1, <2>2, <2>3, <2>4, <2>5 DEF IdsMinted, OwnsId, Moves, HasWant
<1>6. Apartness'
  <2>1. \A x \in Op : Apart(op'[x])
    BY IdleIs DEF Base, Apartness, Mild
  <2> QED
    BY <2>1 DEF Apartness, Apart, HasWant
<1>7. LockKeeps'
  <2>1. \A x \in Op : op'[x] = op[x] \/ op'[x].pc \in Free
    BY IdleIs DEF Mild, Free
  <2> QED
    BY <2>1, OutsideKeeps DEF Mild
<1>8. FailedStays'
  <2> SUFFICES ASSUME NEW x \in Op, op'[x].kind = "redispatch" PROVE After(op'[x].src).st = "failed"
    BY DEF FailedStays, After, At
  <2>1. op'[x] = op[x]
    BY <1>2
  <2>2. op[x].src \in Ref /\ At(op[x].src).st = "failed"
    BY <2>1, BaseIs DEF Base, FailedStays, Shape, Moves
  <2> QED
    BY <2>1, <2>2 DEF Mild
<1>9. ClaimStays'
  <2>1. ASSUME NEW x \in Op, op'[x].kind = "claimed"
        PROVE  LET j == After(op'[x].src) IN
               j.st = "active" /\ j.ph = "moving" /\ j.by = op'[x].by /\ j.by \in up' /\ j.snap = op'[x].d
    <3>1. op'[x] = op[x] /\ op[x].by \in up'
      BY <1>2, <2>1 DEF Mild
    <3>2. op[x].src \in Ref
      BY <2>1, <3>1, BaseIs DEF Shape, Moves
    <3>3. /\ At(op[x].src).st = "active" /\ At(op[x].src).ph = "moving" /\ At(op[x].src).by = op[x].by
          /\ At(op[x].src).by \in up /\ At(op[x].src).snap = op[x].d
      BY <2>1, <3>1 DEF Base, ClaimStays
    <3> QED
      BY <3>1, <3>2, <3>3 DEF Mild
  <2>2. \A x, y \in Op : op'[x].kind = "claimed" /\ op'[y].kind = "claimed" /\ op'[x].src = op'[y].src => x = y
    BY <1>2 DEF Base, ClaimStays
  <2> QED
    BY <2>1, <2>2 DEF ClaimStays, After, At
<1>10. FreshIds'
  <2>1. \A x, y \in Op : op'[y].pc = "acquire" /\ HasWant(op'[y]) /\ Moves(op'[x]) => op'[x].src[2] # op'[y].id
    BY <1>3 DEF Base, FreshIds
  <2> QED
    BY <2>1 DEF FreshIds, HasWant, Moves
<1>11. SameLabel'
  <2>1. \A r, s \in Ref : r[2] = s[2] /\ At(r)'.st # "none" /\ At(s)'.st # "none"
                            => At(r)'.data.label = At(s)'.data.label
    BY <1>1 DEF Base, SameLabel, After, At
  <2>2. ASSUME NEW x \in Op, op'[x].kind \in {"reap", "swap"}
        PROVE  /\ \A r \in Ref : r[2] = op'[x].src[2] /\ After(r).st # "none" => After(r).data.label = op'[x].want
               /\ \A y \in Op : Unused(op'[y]) /\ op'[y].id = op'[x].src[2] => op'[y].d.label = op'[x].want
    <3>1. op'[x] = op[x] /\ Labelled(op[x])
      BY <1>2, <2>2 DEF Base, SameLabel
    <3>2. \A r \in Ref : r[2] = op[x].src[2] /\ After(r).st # "none" => After(r).data.label = op[x].want
      BY <1>1, <2>2, <3>1 DEF Labelled
    <3>3. \A y \in Op : Unused(op'[y]) /\ op'[y].id = op[x].src[2] => op'[y].d.label = op[x].want
      BY <1>3, <2>2, <3>1 DEF Labelled
    <3> QED
      BY <3>1, <3>2, <3>3
  <2>3. \A x \in Op : Labelled(op[x])'
    BY <2>2 DEF Labelled, After, At, Unused, HasWant
  <2> QED
    BY <2>1, <2>3 DEF SameLabel
<1>12. Placed'
  BY <1>1 DEF Base, Placed, After, At
<1> QED
  BY <1>4, <1>5, <1>6, <1>7, <1>8, <1>9, <1>10, <1>11, <1>12 DEF Base

LEMMA WorksBase ==
    ASSUME Base, ~SlowOps, NEW r, NEW k, Works(r, k), op' = op, Typed', LockInv',
           turnDone' = turnDone \/ (At(r).st = "active" /\ turnDone' = turnDone \cup {r[2]})
    PROVE  Base'
<1>1. JobsKept
  BY WorksKeep
<1>2. JobShapes'
  BY ShapesTouched DEF Works
<1>3. \A s \in Ref : After(s) = IF s = r THEN k ELSE At(s)
  BY AfterIs DEF Works
<1>4. \A x \in Op : op'[x].kind = "claimed" => op[x].by \in up'
  BY DEF Base, ClaimStays, Works
<1>5. Mild
  <2>1. \A s \in Ref :
          /\ At(s).st = "failed" => After(s).st = "failed"
          /\ At(s).st = "active" /\ At(s).ph = "moving" /\ At(s).by \in up =>
                /\ After(s).st = "active" /\ After(s).ph = "moving" /\ After(s).by = At(s).by
                /\ After(s).snap = At(s).snap
    BY <1>3 DEF Works, Gone
  <2> QED
    BY <1>1, <1>4, <2>1 DEF Mild, Works
<1> QED
  BY <1>2, <1>5, MildBase

-----------------------------------------------------------------------------
(***************************************************************************)
(* The starts of operations keep it                                        *)
(***************************************************************************)
\* Slot o gets the record n of an operation that waits for the append lock.
Begins(o, n) ==
    /\ op[o].pc = "idle" /\ OpBecomes(o, n) /\ n.pc = "acquire" /\ n.cp = NoRef
    /\ n.kind \in {"enqueue", "redispatch", "reap", "claimed"}
    /\ HasWant(n) => n.id = nextId
    /\ nextId' = IF HasWant(n) THEN nextId + 1 ELSE nextId
    /\ Moves(n) => n.src \in Ref /\ At(n.src).st # "none"
    /\ n.kind = "redispatch" => At(n.src).st = "failed"
    /\ n.kind = "reap" => n.want = At(n.src).data.label
    /\ n.kind = "claimed" =>
          /\ At(n.src).ph = "claimed" /\ n.by \in up
          /\ After(n.src).st = "active" /\ After(n.src).ph = "moving" /\ After(n.src).by = n.by
          /\ After(n.src).snap = n.d
    /\ \A s \in Ref :
          /\ After(s).st = At(s).st /\ After(s).data = At(s).data
          /\ (n.kind = "claimed" /\ s = n.src) \/ After(s) = At(s)
    /\ UNCHANGED <<idx, moved, turnDone, appendLock, up>>

LEMMA BeginsBase ==
    ASSUME Base, NEW o \in Op, NEW n, Begins(o, n), Typed', LockInv', JobShapes'
    PROVE  Base'
<1>0. Typed /\ op[o].pc = "idle" /\ op'[o] = n /\ (\A x \in Op : x # o => op'[x] = op[x])
  BY BaseTyped DEF Begins, OpBecomes
<1>1. \A s \in Ref : After(s).st = At(s).st /\ After(s).data = At(s).data
  BY DEF Begins
<1>2. nextId \in Nat /\ nextId' \in Nat /\ nextId <= nextId'
  BY TurnQueueAssumption DEF Begins, Base, Typed, TypeOK
<1>3. n.pc = "acquire" /\ ~HasCopy(n) /\ n.kind # "merge" /\ n.kind # "swap" /\ (OwnsId(n) <=> HasWant(n))
  BY DEF Begins, HasCopy, OwnsId
<1>4. UnusedIds'
  <2> SUFFICES ASSUME NEW x \in Op, Unused(op'[x])
               PROVE  /\ op'[x].id \notin turnDone
                      /\ op'[x].pc # "marksrc" => moved[op'[x].id] = NoRef
                      /\ \A s \in Ref : s[2] = op'[x].id /\ After(s).st # "none" =>
                              HasCopy(op'[x]) /\ op'[x].cp = s
    BY DEF UnusedIds, UnusedIs, After, At, Begins
  <2>1. CASE x # o
    <3>1. UnusedIs(op[x])
      BY <1>0, <2>1, BaseIs
    <3> QED
      BY <1>0, <1>1, <2>1, <3>1 DEF UnusedIs
  <2>2. CASE x = o
    <3>1. n.id = nextId /\ nextId' = nextId + 1
      BY <1>0, <1>3, <2>2 DEF Begins, Unused
    <3>2. nextId \in Id
      <4>1. nextId' \in 1..(MaxId + 1) /\ nextId \in 1..(MaxId + 1)
        BY <1>0 DEF Typed, TypeOK
      <4> QED
        BY <1>2, <3>1, <4>1, TurnQueueAssumption DEF Id
    <3>3. nextId \notin turnDone /\ moved[nextId] = NoRef
      BY <1>2, <3>2 DEF Base, IdsMinted
    <3>4. \A s \in Ref : s[2] = nextId => At(s).st = "none"
      BY <1>2 DEF Base, IdsMinted
    <3> QED
      BY <1>0, <1>1, <2>2, <3>1, <3>3, <3>4
  <2> QED
    BY <2>1, <2>2
<1>5. IdsMinted'
  <2> USE <1>2 DEF Begins, Base, IdsMinted
  <2>i. /\ \A i \in turnDone : i \in Nat
        /\ \A s \in Ref : s[2] \in Nat
        /\ \A x \in Op : op[x].id \in Nat
    BY <1>0, RefIs, TurnQueueAssumption DEF Typed, TypeOK, Id, Operation
  <2>0. /\ \A s \in Ref : At(s).st # "none" => s[2] < nextId'
        /\ \A i \in turnDone : i < nextId'
        /\ \A i \in Id : moved[i] # NoRef => i < nextId'
    BY <2>i, TurnQueueAssumption DEF Id
  <2>1. \A r \in Ref : At(r)'.st # "none" => r[2] < nextId'
    BY <1>1, <2>0 DEF After, At
  <2>2. \A i \in turnDone' : i < nextId'
    BY <2>0
  <2>3. (\A i \in Id : moved'[i] # NoRef => i < nextId')
    BY <2>0
  <2>c. idx' # NoRef => idx'[2] < nextId'
    <3>1. idx \in Ref \cup {NoRef}
      BY <1>0 DEF Typed, TypeOK
    <3> QED
      BY <2>i, <3>1
  <2>4. \A x \in Op : OwnsId(op'[x]) => op'[x].id < nextId'
    BY <1>0, <1>3, <2>i
  <2>5. \A x \in Op : Moves(op'[x]) => op'[x].src[2] < nextId'
    <3>1. ASSUME NEW x \in Op, Moves(op[x]) PROVE op[x].src[2] < nextId'
      <4>1. op[x].src \in Ref
        BY <3>1, BaseIs DEF Shape
      <4> QED
        BY <2>i, <3>1, <4>1
    <3> QED
      BY <1>0, <2>0, <3>1
  <2>6. \A x, y \in Op : OwnsId(op'[x]) /\ OwnsId(op'[y]) /\ op'[x].id = op'[y].id => x = y
    <3>1. \A x \in Op : x # o /\ OwnsId(op'[x]) => op'[x].id # nextId
      BY <1>0, <2>i
    <3>2. OwnsId(op'[o]) => op'[o].id = nextId
      BY <1>0, <1>3
    <3>3. \A x, y \in Op : x # o /\ y # o /\ OwnsId(op'[x]) /\ OwnsId(op'[y]) /\ op'[x].id = op'[y].id => x = y
      BY <1>0
    <3> QED
      BY <3>1, <3>2, <3>3
  <2> QED
    BY <2>1, <2>2, <2>3, <2>c, <2>4, <2>5, <2>6 DEF IdsMinted, OwnsId, Moves, HasWant
<1>6. Apartness'
  <2>1. \A x \in Op : Apart(op'[x])
    BY <1>0, <1>3 DEF Base, Apartness, Apart, Begins
  <2> QED
    BY <2>1 DEF Apartness, Apart, HasWant
<1>7. LockKeeps'
  <2>1. JobsKept
    BY <1>1 DEF JobsKept, After, At
  <2>2. \A x \in Op : op'[x] = op[x] \/ op'[x].pc \in Free
    BY <1>0, <1>3 DEF Free
  <2> QED
    BY <2>1, <2>2, OutsideKeeps DEF Begins
<1>8. FailedStays'
  <2> SUFFICES ASSUME NEW x \in Op, op'[x].kind = "redispatch" PROVE After(op'[x].src).st = "failed"
    BY DEF FailedStays, After, At
  <2>1. ASSUME x # o PROVE op[x].src \in Ref /\ At(op[x].src).st = "failed"
    BY <1>0, <2>1, BaseIs DEF Base, FailedStays, Shape, Moves
  <2> QED
    BY <1>0, <1>1, <2>1 DEF Begins, Moves
<1>9. ClaimStays'
  <2>0. ASSUME NEW x \in Op, op[x].kind = "claimed"
        PROVE  /\ op[x].src \in Ref /\ At(op[x].src).st = "active" /\ At(op[x].src).ph = "moving"
               /\ At(op[x].src).by = op[x].by /\ At(op[x].src).by \in up /\ At(op[x].src).snap = op[x].d
               /\ After(op[x].src) = At(op[x].src) /\ (n.kind = "claimed" => op[x].src # n.src)
    <3>1. op[x].src \in Ref
      BY <2>0, BaseIs DEF Shape, Moves
    <3> QED
      BY <2>0, <3>1 DEF Base, ClaimStays, Begins
  <2>1. ASSUME NEW x \in Op, op'[x].kind = "claimed"
        PROVE  LET j == After(op'[x].src) IN
               j.st = "active" /\ j.ph = "moving" /\ j.by = op'[x].by /\ j.by \in up' /\ j.snap = op'[x].d
    <3>1. CASE x = o
      BY <1>0, <2>1, <3>1 DEF Begins
    <3>2. CASE x # o
      BY <1>0, <2>0, <2>1, <3>2 DEF Begins
    <3> QED
      BY <3>1, <3>2
  <2>2. \A x, y \in Op : op'[x].kind = "claimed" /\ op'[y].kind = "claimed" /\ op'[x].src = op'[y].src => x = y
    BY <1>0, <2>0 DEF Base, ClaimStays
  <2> QED
    BY <2>1, <2>2 DEF ClaimStays, After, At
<1>10. FreshIds'
  <2>1. ASSUME NEW x \in Op, NEW y \in Op, op'[y].pc = "acquire", HasWant(op'[y]), Moves(op'[x])
        PROVE  op'[x].src[2] # op'[y].id
    <3>1. op'[x].src \in Ref /\ op'[x].src[2] < nextId
      <4>1. CASE x = o
        BY <1>0, <2>1, <4>1 DEF Begins, Base, IdsMinted
      <4>2. CASE x # o
        BY <1>0, <2>1, <4>2, BaseIs DEF Shape, Base, IdsMinted
      <4> QED
        BY <4>1, <4>2
    <3>2. CASE y = o
      BY <1>0, <1>2, <2>1, <3>1, <3>2 DEF Begins
    <3>3. CASE y # o /\ x # o
      BY <1>0, <2>1, <3>3 DEF Base, FreshIds
    <3>4. CASE y # o /\ x = o
      <4>1. Unused(op[y]) /\ ~HasCopy(op[y])
        BY <1>0, <2>1, <3>4 DEF Unused, HasCopy, HasWant
      <4>2. UnusedIs(op[y])
        BY <4>1, BaseIs
      <4> QED
        BY <1>0, <2>1, <3>1, <3>4, <4>1, <4>2 DEF UnusedIs, Begins
    <3> QED
      BY <3>2, <3>3, <3>4
  <2> QED
    BY <2>1 DEF FreshIds, HasWant, Moves
<1>11. SameLabel'
  <2>1. \A r, s \in Ref : r[2] = s[2] /\ At(r)'.st # "none" /\ At(s)'.st # "none"
                            => At(r)'.data.label = At(s)'.data.label
    BY <1>1, ZenonT(60) DEF Base, SameLabel, After, At
  <2>2. ASSUME NEW x \in Op, op'[x].kind \in {"reap", "swap"}
        PROVE  /\ \A r \in Ref : r[2] = op'[x].src[2] /\ After(r).st # "none" => After(r).data.label = op'[x].want
               /\ \A y \in Op : Unused(op'[y]) /\ op'[y].id = op'[x].src[2] => op'[y].d.label = op'[x].want
    <3>1. CASE x = o
      <4>1. n.kind = "reap" /\ n.src \in Ref /\ At(n.src).st # "none" /\ n.want = At(n.src).data.label
        BY <1>0, <1>3, <2>2, <3>1 DEF Begins, Moves
      <4>2. \A r \in Ref : r[2] = n.src[2] /\ After(r).st # "none" => After(r).data.label = n.want
        BY <1>1, <4>1 DEF Base, SameLabel
      <4>3. ASSUME NEW y \in Op, Unused(op'[y]), op'[y].id = n.src[2] PROVE op'[y].d.label = n.want
        <5>1. y # o /\ op'[y] = op[y]
          BY <1>0, <4>1, <4>3 DEF Unused, HasWant
        <5>2. UnusedIs(op[y]) /\ CopyStays(op[y]) /\ op[y].d \in Data /\ op[y].prev \in Data
          BY <4>3, <5>1, BaseIs
        <5>3. HasCopy(op[y]) /\ op[y].cp = n.src
          BY <4>1, <4>3, <5>1, <5>2 DEF UnusedIs
        <5>4. At(n.src).data = CopyData(op[y])
          BY <5>2, <5>3 DEF CopyStays
        <5>5. CopyData(op[y]).label = op[y].d.label
          <6>1. op[y].d \in Data /\ op[y].prev \in Data
            BY <5>2
          <6>2. Relocated(op[y].prev, op[y].d, Hint(op[y])).label = op[y].d.label
            BY <6>1, RelocatedLabel
          <6> QED
            BY <6>2 DEF CopyData
        <5> QED
          BY <4>1, <5>1, <5>4, <5>5
      <4> QED
        BY <1>0, <3>1, <4>2, <4>3
    <3>2. CASE x # o
      <4>1. op'[x] = op[x] /\ Labelled(op[x])
        BY <1>0, <2>2, <3>2 DEF Base, SameLabel
      <4>2. op[x].src \in Ref /\ op[x].src[2] < nextId
        BY <2>2, <4>1, BaseIs DEF Shape, Moves, Base, IdsMinted
      <4>3. Unused(n) => n.id # op[x].src[2]
        BY <1>2, <1>3, <4>2 DEF Begins, Unused
      <4> QED
        BY <1>0, <1>1, <2>2, <4>1, <4>3 DEF Labelled
    <3> QED
      BY <3>1, <3>2
  <2>3. \A x \in Op : Labelled(op[x])'
    BY <2>2 DEF Labelled, After, At, Unused, HasWant
  <2> QED
    BY <2>1, <2>3 DEF SameLabel
<1>12. Placed'
  BY <1>1 DEF Base, Placed, After, At
<1> QED
  BY <1>4, <1>5, <1>6, <1>7, <1>8, <1>9, <1>10, <1>11, <1>12 DEF Base

LEMMA StartEnqueueBase ==
    ASSUME Base, NEW o \in Op, NEW m \in Msg, NEW q \in Queue, StartEnqueue(o, m, q), Typed', LockInv'
    PROVE  Base'
<1> DEFINE n == Enqueues(m, q)
<1>1. /\ op[o].pc = "idle" /\ OpBecomes(o, n) /\ nextId' = nextId + 1
      /\ UNCHANGED <<job, idx, moved, turnDone, appendLock, up>>
  BY BaseTyped, StartEnqueueDoes
<1>2. n.pc = "acquire" /\ n.kind = "enqueue" /\ n.cp = NoRef /\ n.id = nextId
  BY DEF Enqueues, IdleOp
<1>3. JobShapes'
  BY <1>1, ShapesTouched
<1> HIDE DEF n
<1>4. HasWant(n) /\ ~Moves(n)
  BY <1>2 DEF HasWant, Moves
<1>5. Begins(o, n)
  BY <1>1, <1>2, <1>4 DEF Begins, After, At
<1> QED
  BY <1>3, <1>5, BeginsBase

LEMMA StartRedispatchBase ==
    ASSUME Base, NEW o \in Op, NEW m \in Msg, StartRedispatch(o, m), Typed', LockInv'
    PROVE  Base'
<1> DEFINE r == watch[m]
           n == Redispatches(r)
<1>1. /\ op[o].pc = "idle" /\ OpBecomes(o, n) /\ nextId' = nextId + 1
      /\ r \in Ref /\ At(r).st = "failed"
      /\ UNCHANGED <<job, idx, moved, turnDone, appendLock, up>>
  BY BaseTyped, StartRedispatchDoes DEF Redispatchable
<1>2. n.pc = "acquire" /\ n.kind = "redispatch" /\ n.cp = NoRef /\ n.id = nextId /\ n.src = r
  BY DEF Redispatches, IdleOp
<1>3. JobShapes'
  BY <1>1, ShapesTouched
<1> HIDE DEF n, r
<1>4. HasWant(n)
  BY <1>2 DEF HasWant
<1>5. Begins(o, n)
  BY <1>1, <1>2, <1>4 DEF Begins, After, At
<1> QED
  BY <1>3, <1>5, BeginsBase

LEMMA StartReapBase ==
    ASSUME Base, NEW o \in Op, NEW w \in Warm, NEW i \in Id, StartReap(o, w, i), Typed', LockInv'
    PROVE  Base'
<1> DEFINE r == <<w, i>>
           n == Reaps(r)
<1>1. /\ op[o].pc = "idle" /\ OpBecomes(o, n) /\ nextId' = nextId
      /\ r \in Ref /\ (Pending(At(r)) \/ At(r).st = "active")
      /\ UNCHANGED <<job, idx, moved, turnDone, appendLock, up>>
  BY BaseTyped, StartReapDoes
<1>2. n.pc = "acquire" /\ n.kind = "reap" /\ n.cp = NoRef /\ n.src = r /\ n.want = At(r).data.label
  BY DEF Reaps, IdleOp
<1>3. JobShapes'
  BY <1>1, ShapesTouched
<1> HIDE DEF n, r
<1>4. ~HasWant(n) /\ At(r).st # "none"
  BY <1>1, <1>2 DEF HasWant, Pending
<1>5. Begins(o, n)
  BY <1>1, <1>2, <1>4 DEF Begins, After, At
<1> QED
  BY <1>3, <1>5, BeginsBase

LEMMA StartClaimedMoveBegins ==
    ASSUME Base, NEW o \in Op, NEW q \in Queue, NEW i \in Id, StartClaimedMove(o, q, i)
    PROVE  /\ Begins(o, MovesClaimed(<<q, i>>)) /\ JobShapes'
           /\ At(<<q, i>>).st = "active"
<1> DEFINE r == <<q, i>>
           j == At(r)
           k == [j EXCEPT !.ph = "moving"]
           n == MovesClaimed(r)
<1>0. Typed
  BY BaseTyped
<1>1. /\ r \in Ref /\ j \in Job /\ op[o].pc = "idle" /\ j.ph = "claimed" /\ j.by \in up /\ OpBecomes(o, n) /\ JobBecomes(r, k)
      /\ UNCHANGED <<idx, moved, turnDone, appendLock, up, nextId>>
  BY <1>0, StartClaimedMoveDoes
<1>2. n.pc = "acquire" /\ n.kind = "claimed" /\ n.cp = NoRef /\ n.src = r /\ n.by = j.by /\ n.d = j.snap
  BY DEF MovesClaimed, IdleOp
<1>a. JobShape(j, r[1]) /\ NoNode \notin up
  BY <1>0, <1>1, BaseTyped, TurnQueueAssumption DEF JobShapes, Typed, TypeOK
<1>3. /\ k.st = j.st /\ k.data = j.data /\ k.by = j.by /\ k.snap = j.snap /\ k.locked = j.locked
      /\ k.ph = "moving"
  BY <1>1 DEF Job
<1> HIDE DEF n, k, j
<1>4. j.st = "active"
  BY <1>1, <1>a DEF JobShape
<1>5. JobShape(k, r[1])
  BY <1>3, <1>4, <1>a DEF JobShape, Pending
<1>6. JobShapes'
  BY <1>1, <1>5, ShapesTouched
<1>7. ~HasWant(n)
  BY <1>2 DEF HasWant
<1>8. \A s \in Ref : After(s) = IF s = r THEN k ELSE At(s)
  BY <1>1, AfterIs
<1>9. j = At(r)
  BY DEF j
<1> HIDE DEF r
<1>10. Begins(o, n)
  BY <1>1, <1>2, <1>3, <1>4, <1>7, <1>8, <1>9 DEF Begins
<1> QED
  BY <1>4, <1>6, <1>10 DEF n, r, j

LEMMA StartClaimedMoveBase ==
    ASSUME Base, NEW o \in Op, NEW q \in Queue, NEW i \in Id, StartClaimedMove(o, q, i), Typed', LockInv'
    PROVE  Base'
BY StartClaimedMoveBegins, BeginsBase

-----------------------------------------------------------------------------
(***************************************************************************)
(* Every step keeps it                                                     *)
(***************************************************************************)
\* What a worker or a timer does with the turn-done markers.
LEMMA WorkMarks ==
    ASSUME Base, NEW q \in Queue, NEW i \in Id,
           \/ SkipDone(q, i) \/ BeginTurn(q, i) \/ Requeue(q, i) \/ FailAtClaim(q, i)
           \/ \E denied \in BOOLEAN : EndTurn(q, i, denied)
           \/ Ack(q, i) \/ FailDenied(q, i) \/ CompleteMoved(q, i)
           \/ Timer(q, i) \/ \E n \in Node : Claim(n, q, i)
    PROVE  turnDone' = turnDone \/ (At(<<q, i>>).st = "active" /\ turnDone' = turnDone \cup {<<q, i>>[2]})
<1>0. Typed
  BY BaseTyped
<1>1. CASE \E denied \in BOOLEAN : EndTurn(q, i, denied)
  <2>1. PICK denied \in BOOLEAN : EndTurn(q, i, denied)
    BY <1>1
  <2>2. At(<<q, i>>).st = "active" /\ <<q, i>>[2] = i
    BY <2>1 DEF EndTurn, Running, In, At
  <2>3. turnDone' = turnDone \cup {i}
    BY <2>1 DEF EndTurn
  <2> QED
    BY <2>2, <2>3
<1>2. CASE SkipDone(q, i) \/ BeginTurn(q, i) \/ Requeue(q, i) \/ FailAtClaim(q, i)
           \/ Ack(q, i) \/ FailDenied(q, i) \/ CompleteMoved(q, i)
  BY <1>2 DEF SkipDone, BeginTurn, Requeue, FailAtClaim, Ack, FailDenied, CompleteMoved
<1>3. CASE Timer(q, i) \/ \E n \in Node : Claim(n, q, i)
  BY <1>3 DEF Timer, RetryDue, HoldLapse, LockExpire, Stall, Claim
<1> QED
  BY <1>1, <1>2, <1>3

\* Faults and followers leave the jobs and the markers alone.
LEMMA FaultMild == ASSUME Base, Fault PROVE Mild /\ JobShapes'
<1>0. Typed
  BY BaseTyped
<1>1. ASSUME job' = job, moved' = moved, nextId' = nextId, turnDone' = turnDone, idx' \in {idx, NoRef}, up' \subseteq up,
             \A x \in Op : op'[x] = op[x] \/ op'[x] = IdleOp,
             \A x \in Op : op'[x].kind = "claimed" => op[x].by \in up'
      PROVE  Mild /\ JobShapes'
  <2>1. JobShapes'
    BY <1>1, ShapesTouched
  <2>2. JobsKept
    BY <1>1 DEF JobsKept
  <2>3. \A s \in Ref : After(s) = At(s)
    BY <1>1 DEF After, At
  <2> QED
    BY <1>1, <2>1, <2>2, <2>3 DEF Mild
<1>2. \A x \in Op : op[x].kind = "claimed" => op[x].by \in up
  BY DEF Base, ClaimStays
<1>3. CASE AppendLockLapse \/ IndexLapse \/ \E i \in Id : GuardLapse(i)
  BY <1>1, <1>2, <1>3 DEF AppendLockLapse, IndexLapse, GuardLapse, world, view
<1>4. CASE \E n \in Node : Silence(n) \/ Resume(n)
  BY <1>1, <1>2, <1>4 DEF Silence, Resume, redis, view
<1>5. CASE \E l \in Label : Relabel(l)
  BY <1>1, <1>2, <1>5 DEF Relabel, redis, view
<1>6. CASE \E o \in Op : OpCrash(o)
  <2>1. PICK o \in Op : OpCrash(o)
    BY <1>6
  <2>2. OpBecomes(o, IdleOp) /\ UNCHANGED <<job, idx, moved, turnDone, up, nextId>>
    BY <1>0, <2>1, OpCrashDoes
  <2>3. /\ \A x \in Op : op'[x] = op[x] \/ op'[x] = IdleOp
        /\ \A x \in Op : op'[x].kind = "claimed" => op[x].by \in up'
    BY <1>2, <2>2, IdleIs DEF OpBecomes
  <2> QED
    BY <1>1, <2>2, <2>3
<1>7. CASE \E n \in Node : NodeCrash(n)
  <2>1. PICK n \in Node : NodeCrash(n)
    BY <1>7
  <2>2. /\ up' = up \ {n} /\ \A o \in Op : op'[o] = IF op[o].by = n THEN IdleOp ELSE op[o]
        /\ UNCHANGED <<job, idx, moved, turnDone, nextId>>
    BY <1>0, <2>1, NodeCrashDoes
  <2>3. /\ \A x \in Op : op'[x] = op[x] \/ op'[x] = IdleOp
        /\ \A x \in Op : op'[x].kind = "claimed" => op[x].by \in up'
    BY <1>2, <2>2, IdleIs
  <2> QED
    BY <1>1, <2>2, <2>3
<1> QED
  BY <1>3, <1>4, <1>5, <1>6, <1>7 DEF Fault

LEMMA StillMild ==
    ASSUME Base, UNCHANGED vars \/ \E m \in Msg : Follow(m)
    PROVE  Mild /\ JobShapes'
<1>1. UNCHANGED <<job, idx, moved, turnDone, nextId, op, up>>
  BY DEF Follow, FollowMove, Close, vars, redis, world
<1>2. JobShapes'
  BY <1>1, ShapesTouched
<1>3. JobsKept
  BY <1>1 DEF JobsKept
<1>4. \A s \in Ref : After(s) = At(s)
  BY <1>1 DEF After, At
<1>5. \A x \in Op : op[x].kind = "claimed" => op[x].by \in up
  BY DEF Base, ClaimStays
<1> QED
  BY <1>1, <1>2, <1>3, <1>4, <1>5 DEF Mild

LEMMA BaseNext == Base /\ ~SlowOps /\ [Next]_vars => Base'
<1> SUFFICES ASSUME Base, ~SlowOps, [Next]_vars PROVE Base'
  OBVIOUS
<1>1. Typed'
  BY BaseTyped, TypedNext
<1>2. LockInv'
  BY BaseTyped, LockNext, TurnQueueAssumption
<1>3. ASSUME NEW o \in Op, OpStep(o) PROVE Base'
  BY <1>1, <1>2, <1>3, OpStepBase
<1>4. ASSUME NEW o \in Op, Start(o) PROVE Base'
  BY <1>1, <1>2, <1>4, StartEnqueueBase, StartRedispatchBase, StartReapBase DEF Start
<1>5. ASSUME NEW q \in Queue, NEW i \in Id, Process(q, i) \/ Timer(q, i) \/ \E n \in Node : Claim(n, q, i)
      PROVE  Base'
  <2>1. CASE \E o \in Op : StartClaimedMove(o, q, i)
    BY <1>1, <1>2, <2>1, StartClaimedMoveBase
  <2>2. CASE ~\E o \in Op : StartClaimedMove(o, q, i)
    <3>1. /\ op' = op /\ \E k \in Job : Works(<<q, i>>, k)
          /\ turnDone' = turnDone \/ (At(<<q, i>>).st = "active" /\ turnDone' = turnDone \cup {<<q, i>>[2]})
      BY <1>5, <2>2, WorkIs, WorkMarks DEF Process
    <3>2. PICK k \in Job : Works(<<q, i>>, k)
      BY <3>1
    <3> QED
      BY <1>1, <1>2, <3>1, <3>2, WorksBase
  <2> QED
    BY <2>1, <2>2
<1>6. ASSUME Fault \/ UNCHANGED vars \/ \E m \in Msg : Follow(m) PROVE Base'
  BY <1>1, <1>2, <1>6, FaultMild, StillMild, MildBase
<1> QED
  BY <1>3, <1>4, <1>5, <1>6 DEF Next

LEMMA BaseInit == ASSUME Init PROVE Base
<1>1. Typed
  BY TypedInit
<1>2. LockInv
  BY DEF Init, LockInv, AppendersSerialize, Free, IdleOp
<1>3. \A r \in Ref : At(r) = NoJob
  BY RefIs DEF Init, At
<1>4. NoJob.st = "none" /\ NoJob.by = NoNode
  BY DEF NoJob
<1>5. \A o \in Op : op[o] = IdleOp
  BY DEF Init
<1>6. JobShapes
  BY <1>3, <1>4 DEF JobShapes, JobShape, Pending
<1>7. IdsMinted /\ UnusedIds /\ Apartness
  BY <1>3, <1>4, <1>5, IdleIs DEF Init, IdsMinted, UnusedIds, Apartness
<1>8. LockKeeps
  BY <1>5, IdleIs DEF LockKeeps, ReadStill, CopyStays, HasCopy, OpenPcs
<1>9. FailedStays /\ ClaimStays /\ FreshIds
  BY <1>5, IdleIs DEF FailedStays, ClaimStays, FreshIds
<1>10. SameLabel /\ Placed
  BY <1>3, <1>4, <1>5, IdleIs DEF SameLabel, Labelled, Placed
<1> QED
  BY <1>1, <1>2, <1>6, <1>7, <1>8, <1>9, <1>10 DEF Base

-----------------------------------------------------------------------------
\* turns.ts:395-396: the append lock makes check and write one step.  What its
\* holder read is still so when it writes: the job it appends to, or makes a copy
\* of, is there with the data it read until the operation takes it, the copy is
\* held as it was added, and no job is where it will add its own, whatever the
\* workers, timers and other operations do.
THEOREM ReadsStay == ~SlowOps => (Spec => []LockKeeps)
<1> SUFFICES ASSUME ~SlowOps PROVE Spec => []LockKeeps
  OBVIOUS
<1>1. Base => LockKeeps
  BY DEF Base
<1>2. Base /\ [Next]_vars => Base'
  BY BaseNext
<1>3. Init => Base
  BY BaseInit
<1> QED
  BY <1>1, <1>2, <1>3, PTL DEF Spec
=============================================================================
