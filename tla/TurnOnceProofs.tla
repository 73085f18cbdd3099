-------------------------- MODULE TurnOnceProofs --------------------------
(***************************************************************************)
(* A message is re-dispatched from one failed job only (TurnSession's      *)
(* RedispatchedOnce), and one of a finished turn runs in no other          *)
(* (FinishedRunsOnce), under the faults and for the sets and bounds of     *)
(* TurnLossProofs.                                                         *)
(*                                                                         *)
(* The invariant, Onces, on top of TurnsKept: until it is re-dispatched a  *)
(* message has one carrier, none but a late append's once its turn ended   *)
(* (One, Finished); what has a message that was re-dispatched counts it    *)
(* (Heavy), but for an append whose job failed meanwhile (Torn, Unbound).  *)
(***************************************************************************)
EXTENDS TurnLossProofs, FiniteSetTheorems
-----------------------------------------------------------------------------
(***************************************************************************)
(* What carries a message to its next turn                                 *)
(***************************************************************************)
\* A live job whose turn is to come, or one that failed and is to be
\* re-dispatched.
Open(r) == LiveAt(r) /\ (r[2] \in turnDone => At(r).ph = "denied")
Failing(r, m) == At(r).st = "failed" /\ At(r).ph = "mismatch" /\ r[2] \notin hist.again[m]
HasMsg(r, m) == m \in SeqSet(At(r).data.msgs) /\ (Open(r) \/ Failing(r, m))

\* From the write of an append to its re-check the job has messages that are
\* still its operation's, or its giver's: the job a move takes them from.
Adding(p, m) == Appending(p) /\ ~Relocating(p) /\ m \in SeqSet(p.d.msgs)
Hands(p, m) == p.pc = "recheck" /\ m \in SeqSet(p.d.msgs)
Giver(p) == IF p.kind = "merge" THEN p.cp ELSE p.src
Gives(p, r, m) == Hands(p, m) /\ ~HasWant(p) /\ r = Giver(p)
Appends(r, m) == \E o \in Op : Hands(op[o], m) /\ op[o].ref = r
Carrier(r, m) == HasMsg(r, m) /\ ~Appends(r, m)

\* An enqueue or a re-dispatch that brings it to a job.
Brings(p, m) == HasWant(p) /\ Unused(p) /\ m \in SeqSet(p.d.msgs)

\* At most one job or operation carries it.
One(m) ==
    /\ \A r, s \in Ref : Carrier(r, m) /\ Carrier(s, m) => r = s
    /\ \A o, x \in Op : Brings(op[o], m) /\ Brings(op[x], m) => o = x
    /\ \A o \in Op, r \in Ref : Brings(op[o], m) => ~Carrier(r, m)

\* A worker's move appends to another job than the one it moves.
Aims == \A o \in Op : op[o].kind = "claimed" /\ Appending(op[o]) => op[o].ref # op[o].src

\* An operation that appends holds the lock, and has its messages or the job
\* that gives them.
LEMMA SourceIs ==
    ASSUME Base, ~SlowOps, NotDone, Aims, NEW o \in Op, NEW m, Adding(op[o], m)
    PROVE  /\ \A x \in Op : x # o => op[x].pc \in Free /\ \A k : ~Hands(op[x], k)
           /\ op[o].ref \in Ref
           /\ HasWant(op[o]) => Brings(op[o], m)
           /\ ~HasWant(op[o]) =>
                 LET h == Giver(op[o]) IN
                 /\ h \in Ref /\ Carrier(h, m) /\ h # op[o].ref
                 /\ \/ At(h).st = "held" /\ At(h).data = op[o].d
                    \/ At(h).st = "active" /\ At(h).ph = "moving" /\ At(h).snap = op[o].d
<1> DEFINE p == op[o]
           h == Giver(p)
<1>0. Typed /\ Shape(p) /\ CopyStays(p) /\ (Unused(p) => UnusedIs(p))
      /\ Appending(p) /\ ~Relocating(p) /\ m \in SeqSet(p.d.msgs)
      /\ (p.kind = "claimed" => p.ref # p.src)
  BY BaseIs DEF Adding, Aims
<1>1. \A x \in Op : x # o => op[x].pc \in Free /\ \A k : ~Hands(op[x], k)
  <2>1. p.pc \notin Free
    BY <1>0 DEF Free, Appending
  <2>2. \A x \in Op : x # o => op[x].pc \in Free
    BY <2>1, HolderAlone
  <2> QED
    BY <2>2 DEF Hands, Free
<1>2. p.ref \in Ref
  BY <1>0, RefsAre
<1>3. HasWant(p) => Brings(p, m)
  BY <1>0 DEF Brings, Unused, Appending
<1>4. ASSUME NEW r \in Ref, LiveAt(r), r[2] \notin turnDone, m \in SeqSet(At(r).data.msgs), r # p.ref
      PROVE  Carrier(r, m)
  <2>1. ~Appends(r, m)
    BY <1>1, <1>4 DEF Appends
  <2> QED
    BY <1>4, <2>1 DEF Carrier, HasMsg, Open
<1>5. ASSUME p.kind = "claimed"
      PROVE  /\ h \in Ref /\ Carrier(h, m) /\ h # p.ref
             /\ At(h).st = "active" /\ At(h).ph = "moving" /\ At(h).snap = p.d
  <2>1. h = p.src /\ ~Leaving(p, p.src)
    BY <1>0, <1>5 DEF Giver, Leaving, Appending
  <2>2. LiveAt(h) /\ h \in Ref /\ At(h).st = "active" /\ At(h).ph = "moving" /\ At(h).snap = p.d /\ h[2] = p.id
    BY <1>5, <2>1, ClaimLives, MovingLives
  <2>3. h[2] \notin turnDone
    BY <1>5, <2>1, <2>2 DEF NotDone
  <2>4. m \in SeqSet(At(h).data.msgs)
    BY <1>0, <2>2, BaseTyped DEF JobShapes, JobShape
  <2>5. h # p.ref
    BY <1>0, <1>5, <2>1
  <2> QED
    BY <1>4, <2>2, <2>3, <2>4, <2>5
<1>6. ASSUME p.kind = "merge"
      PROVE  h \in Ref /\ Carrier(h, m) /\ h # p.ref /\ At(h).st = "held" /\ At(h).data = p.d
  <2>1. h = p.cp /\ HasCopy(p) /\ Unused(p) /\ p.cp[2] = p.id /\ p.cp \in Ref
    BY <1>0, <1>6, RefsAre DEF Giver, HasCopy, Unused, Shape, Appending
  <2>2. At(h).st = "held" /\ At(h).data = p.d /\ h # p.ref
    BY <1>0, <1>6, <2>1 DEF CopyStays, CopyData
  <2>3. LiveAt(h)
    <3>1. \A x \in Op : ~Leaving(op[x], h)
      <4>1. ~Leaving(p, h)
        BY <1>0, <1>6 DEF Leaving, Appending
      <4> QED
        BY <1>1, <4>1, FreeLeaves
    <3> QED
      BY <2>2, <3>1 DEF LiveAt, LeftBehind, Runs, Pending
  <2>4. h[2] \notin turnDone
    BY <1>0, <2>1 DEF UnusedIs
  <2> QED
    BY <1>0, <1>4, <2>1, <2>2, <2>3, <2>4
<1>7. p.kind \in {"enqueue", "redispatch", "claimed", "merge"}
  BY <1>0 DEF Shape, KindPc, OpenPcs, CopyPcs, Appending
<1>8. CASE HasWant(p)
  BY <1>2, <1>3, <1>8, <1>1
<1>9. CASE ~HasWant(p)
  <2>1. p.kind = "claimed" \/ p.kind = "merge"
    BY <1>7, <1>9 DEF HasWant
  <2>2. h \in Ref /\ Carrier(h, m) /\ h # p.ref
        /\ ((At(h).st = "held" /\ At(h).data = p.d) \/ (At(h).st = "active" /\ At(h).ph = "moving" /\ At(h).snap = p.d))
    BY <1>5, <1>6, <2>1
  <2> QED
    BY <1>1, <1>2, <1>9, <2>2
<1> QED
  BY <1>8, <1>9
-----------------------------------------------------------------------------
\* What an operation's step writes of the history.
LEMMA OpStepHist ==
    ASSUME Base, NEW o \in Op, OpStep(o)
    PROVE  /\ hist'.sent = hist.sent /\ hist'.again = hist.again /\ hist'.ran = hist.ran
           /\ hist.raced \subseteq hist'.raced
           /\ op[o].pc = "recheck" =>
                 \/ AppendableAt(op[o].ref) /\ op'[o].pc = AppendedThen(op[o])
                 \/ SeqSet(op[o].d.msgs) \subseteq hist'.raced
<1>1. hist \in History /\ Typed
  BY BaseTyped DEF Typed
<1>2. \A S, T : /\ [hist EXCEPT !.brief = S].sent = hist.sent /\ [hist EXCEPT !.brief = S].again = hist.again
                /\ [hist EXCEPT !.brief = S].ran = hist.ran /\ [hist EXCEPT !.brief = S].raced = hist.raced
                /\ [hist EXCEPT !.misled = S].sent = hist.sent /\ [hist EXCEPT !.misled = S].again = hist.again
                /\ [hist EXCEPT !.misled = S].ran = hist.ran /\ [hist EXCEPT !.misled = S].raced = hist.raced
                /\ [hist EXCEPT !.brief = S, !.misled = T].sent = hist.sent
                /\ [hist EXCEPT !.brief = S, !.misled = T].again = hist.again
                /\ [hist EXCEPT !.brief = S, !.misled = T].ran = hist.ran
                /\ [hist EXCEPT !.brief = S, !.misled = T].raced = hist.raced
  BY <1>1 DEF History
<1>3. CASE op[o].pc = "recheck"
  <2>1. \/ AppendableAt(op[o].ref) /\ hist' = hist /\ op'[o].pc = AppendedThen(op[o])
        \/ hist' = [hist EXCEPT !.raced = @ \cup SeqSet(op[o].d.msgs)]
    BY <1>1, <1>3, StepAt, RecheckDoes DEF Becomes
  <2>2. CASE hist' = hist /\ AppendableAt(op[o].ref) /\ op'[o].pc = AppendedThen(op[o])
    BY <2>2
  <2>3. CASE hist' = [hist EXCEPT !.raced = @ \cup SeqSet(op[o].d.msgs)]
    BY <1>1, <2>3 DEF History
  <2> QED
    BY <2>1, <2>2, <2>3
<1>4. CASE op[o].pc # "recheck"
  <2>1. ~Recheck(o)
    BY <1>4 DEF Recheck
  <2>2. CASE CheckMerge(o)
    <3>1. \E S : hist' = [hist EXCEPT !.brief = S]
      BY <2>2 DEF CheckMerge
    <3> QED
      BY <1>2, <1>4, <3>1
  <2>3. CASE DropCopy(o)
    <3>1. \E S, T : hist' = [hist EXCEPT !.brief = S, !.misled = T]
      BY <2>3 DEF DropCopy
    <3> QED
      BY <1>2, <1>4, <3>1
  <2>4. CASE Unmark(o)
    <3>1. \E S : hist' = [hist EXCEPT !.misled = S]
      BY <2>4 DEF Unmark
    <3> QED
      BY <1>2, <1>4, <3>1
  <2>5. CASE Acquire(o) \/ Release(o) \/ MarkFailed(o) \/ Look(o) \/ RecordSenders(o) \/ UpdateData(o) \/ Index(o)
    BY <1>4, <2>5 DEF Acquire, Release, MarkFailed, Look, RecordSenders, UpdateData, Index
  <2>6. CASE Add(o) \/ MarkSource(o) \/ CheckMoved(o) \/ CheckClaimed(o) \/ CheckSwap(o) \/ AddCopy(o) \/ MarkCopy(o)
    BY <1>4, <2>6 DEF Add, MarkSource, CheckMoved, CheckClaimed, CheckSwap, AddCopy, MarkCopy
  <2>7. CASE Take(o) \/ Promote(o) \/ Reindex(o) \/ TakeHold(o) \/ MarkHold(o)
    BY <1>4, <2>7 DEF Take, Promote, Reindex, TakeHold, MarkHold
  <2> QED
    BY <2>1, <2>2, <2>3, <2>4, <2>5, <2>6, <2>7 DEF OpStep
<1> QED
  BY <1>3, <1>4

\* Where an append reads its job it finds what it read.
LEMMA UpdateIs ==
    ASSUME Base, NEW o \in Op, OpStep(o), op[o].pc = "update"
    PROVE  LET p == op[o] IN
           /\ p.ref \in Ref /\ At(p.ref).st # "none" /\ At(p.ref).data = p.prev
           /\ After(p.ref).data = Appended(p.prev, p.d, Hint(p))
           /\ After(p.ref).snap = At(p.ref).snap /\ After(p.ref).st = At(p.ref).st
           /\ \A s \in Ref : s # p.ref => After(s) = At(s)
           /\ op'[o].pc = "recheck" /\ op'[o].d = p.d /\ op'[o].ref = p.ref
           /\ p.prev \in Data /\ p.d \in Data
<1> DEFINE p == op[o]
<1>1. UpdateData(o)
  BY StepAt
<1>2. At(p.ref).st # "none" /\ At(p.ref).data = p.prev /\ p.prev \in Data /\ p.d \in Data
  BY BaseIs DEF ReadStill
<1> DEFINE k == [At(p.ref) EXCEPT !.data = Appended(p.prev, p.d, Hint(p))]
<1>3. p.ref \in Ref /\ JobBecomes(p.ref, k) /\ Becomes(o, "recheck", p.ref, p.prev, p.cp, p.res)
  BY <1>1, UpdateDataTouches
<1>4. \A s \in Ref : After(s) = IF s = p.ref THEN k ELSE At(s)
  BY <1>3, AfterIs
<1>5. k.data = Appended(p.prev, p.d, Hint(p)) /\ k.snap = At(p.ref).snap /\ k.st = At(p.ref).st
  <2>1. At(p.ref) \in Job
    BY <1>3, BaseTyped, PlaceIs
  <2> QED
    BY <2>1 DEF Job
<1>6. op'[o].pc = "recheck" /\ op'[o].d = p.d /\ op'[o].ref = p.ref
  BY <1>3 DEF Becomes
<1> HIDE DEF k
<1> QED
  BY <1>2, <1>3, <1>4, <1>5, <1>6

\* A job that had no message for its next turn has it of an append, or of a
\* turn that comes to its place.
LEMMA HasStays ==
    ASSUME Base, ~SlowOps, NEW o \in Op, OpStep(o), NEW m, NEW s \in Ref, HasMsg(s, m)'
    PROVE  \/ HasMsg(s, m) /\ After(s).data = At(s).data
           \/ /\ op[o].pc = "update" /\ s = op[o].ref
              /\ Open(s) \/ Failing(s, m)
              /\ m \in SeqSet(At(s).data.msgs) \/ Adding(op[o], m)
           \/ Arrives(o, s) /\ Open(s)' /\ m \in SeqSet(After(s).data.msgs)
<1> DEFINE p == op[o]
<1>0. m \in SeqSet(After(s).data.msgs) /\ (Open(s)' \/ Failing(s, m)') /\ turnDone' = turnDone /\ hist'.again = hist.again
  <2>1. After(s) = At(s)'
    BY DEF After, At
  <2> QED
    BY <2>1, OpStepHist, OpStepCalm DEF HasMsg
<1>1. CASE Open(s)' /\ ~LiveAt(s)
  <2>1. LiveAt(s)'
    BY <1>1 DEF Open
  <2> QED
    BY <1>0, <1>1, <2>1, OpStepLives
<1>2. CASE (Open(s)' /\ LiveAt(s)) \/ Failing(s, m)'
  <2>1. ASSUME Open(s)', LiveAt(s)
        PROVE  Open(s) /\ At(s).st # "none" /\ After(s).st # "none"
    <3>1. LiveAt(s)' /\ (s[2] \in turnDone => After(s).ph = "denied")
      BY <1>0, <2>1 DEF Open, After, At
    <3>2. At(s).st # "none" /\ After(s).st # "none"
      BY <2>1, <3>1 DEF LiveAt, Runs, Pending, After, At
    <3>3. s[2] \in turnDone => At(s).ph = "denied"
      <4>1. After(s).ph # "none" => After(s).ph = At(s).ph \/ After(s).ph \in {"claimed", "moved"}
        BY PhasesStay
      <4> QED
        BY <3>1, <4>1
    <3> QED
      BY <2>1, <3>2, <3>3 DEF Open
  <2>2. ASSUME Failing(s, m)'
        PROVE  Failing(s, m) /\ At(s).st # "none" /\ After(s).st # "none"
    <3>1. After(s).st = "failed" /\ After(s).ph = "mismatch" /\ s[2] \notin hist.again[m]
      BY <1>0, <2>2 DEF Failing, After, At
    <3>2. At(s).st = "failed"
      BY <3>1, OpStepLives
    <3>3. At(s).ph = "mismatch"
      <4>1. After(s).ph # "none" => After(s).ph = At(s).ph \/ After(s).ph \in {"claimed", "moved"}
        BY PhasesStay
      <4> QED
        BY <3>1, <4>1
    <3> QED
      BY <3>1, <3>2, <3>3 DEF Failing
  <2>3. (Open(s) \/ Failing(s, m)) /\ At(s).st # "none" /\ After(s).st # "none"
    BY <1>2, <2>1, <2>2
  <2>4. CASE After(s).data = At(s).data
    BY <1>0, <2>3, <2>4 DEF HasMsg
  <2>5. CASE After(s).data # At(s).data
    <3>1. p.pc = "update"
      BY <2>3, <2>5, OpStepGrows
    <3>2. s = p.ref /\ After(s).data = Appended(p.prev, p.d, Hint(p)) /\ At(s).data = p.prev
      BY <2>5, <3>1, UpdateIs
    <3>3. SeqSet(After(s).data.msgs) = SeqSet(p.prev.msgs) \cup SeqSet(p.d.msgs)
      <4>1. p.prev \in Data /\ p.d \in Data
        BY BaseIs
      <4>2. SeqSet(Appended(p.prev, p.d, Hint(p)).msgs) = SeqSet(p.prev.msgs) \cup SeqSet(p.d.msgs)
        BY <4>1, AppendedMsgs
      <4> QED
        BY <3>2, <4>2
    <3>4. m \in SeqSet(At(s).data.msgs) \/ Adding(p, m)
      <4>1. ~Relocating(p)
        BY <3>1, BaseIs DEF Shape, Relocating, HasWant, OpenPcs
      <4> QED
        BY <1>0, <3>1, <3>2, <3>3, <4>1 DEF Adding, Appending
    <3> QED
      BY <2>3, <3>1, <3>2, <3>4
  <2> QED
    BY <2>4, <2>5
<1> QED
  BY <1>0, <1>1, <1>2 DEF HasMsg
-----------------------------------------------------------------------------
\* The re-checks of messages, before and after the holder's step.
LEMMA AppendsAre ==
    ASSUME Base, ~SlowOps, NEW o \in Op, OpStep(o), ~MarkFailed(o), NEW s, NEW m
    PROVE  /\ Appends(s, m) <=> Hands(op[o], m) /\ op[o].ref = s
           /\ Appends(s, m)' <=> Hands(op'[o], m) /\ op'[o].ref = s
<1>1. \A x \in Op : x # o => op[x].pc \in Free /\ op'[x] = op[x]
  BY HolderIs
<1>2. \A x \in Op : x # o => ~Hands(op[x], m) /\ ~Hands(op'[x], m)
  BY <1>1 DEF Hands, Free
<1>3. Appends(s, m)' <=> \E x \in Op : Hands(op'[x], m) /\ op'[x].ref = s
  BY DEF Appends, Hands
<1> QED
  BY <1>2, <1>3 DEF Appends

\* A job left behind, or not there, carries nothing.
LEMMA CarriesNot ==
    ASSUME NEW h \in Ref, NEW m, LeftBehind(h)' \/ ~Runs(After(h)), After(h).st # "failed"
    PROVE  ~Carrier(h, m)'
<1>1. ~LiveAt(h)'
  BY DEF LiveAt, Runs, Pending, After, At
<1>2. ~Failing(h, m)'
  BY DEF Failing, After, At
<1> QED
  BY <1>1, <1>2 DEF Carrier, HasMsg, Open

\* What carries a message after an operation's step did before, or took it over
\* from what did.
Goal(p) == IF p.pc = "add" THEN Wanted(p) ELSE IF p.pc = "take" THEN p.cp ELSE p.ref
Yields(o, m) ==
    \/ Brings(op[o], m) /\ ~Brings(op'[o], m)
    \/ \E h \in Ref : Carrier(h, m) /\ ~Carrier(h, m)'

\* An operation that re-checks, or adds its job, is done with its messages.
LEMMA AppendYields ==
    ASSUME Base, ~SlowOps, NotDone, Aims, NEW o \in Op, OpStep(o), NEW m, Adding(op[o], m),
           op[o].pc = "recheck", op'[o].pc = AppendedThen(op[o])
    PROVE  Yields(o, m)
<1> DEFINE p == op[o]
           n == op'[o]
<1>1. n.kind = p.kind /\ n.src = p.src /\ n.cp = p.cp
  BY StepAt, BaseTyped, RecheckDoes DEF Becomes
<1>2. CASE HasWant(p)
  <2>1. n.pc = "release"
    BY <1>2 DEF AppendedThen, HasWant
  <2>2. ~Brings(n, m)
    BY <1>1, <1>2, <2>1 DEF Brings, Unused, HasWant
  <2> QED
    BY <1>2, <2>2, SourceIs DEF Yields
<1>3. CASE ~HasWant(p)
  <2>h. PICK h \in Ref : h = Giver(p)
    BY <1>3, SourceIs
  <2>1. Carrier(h, m) /\ At(h).st \in {"held", "active"}
    BY <1>3, <2>h, SourceIs
  <2>2. p.kind = "claimed" \/ p.kind = "merge"
    BY <1>3, BaseIs DEF Shape, KindPc, OpenPcs, CopyPcs, HasWant
  <2>3. Leaving(n, h)
    BY <1>1, <2>2, <2>h DEF Leaving, AppendedThen, HasWant, Giver
  <2>4. ~MarkFailed(o)
    BY MarkFailedLeaves
  <2>5. LeftBehind(h)'
    BY <2>3, <2>4, HolderIs
  <2>6. After(h).st # "failed"
    BY <2>1, OpStepLives
  <2>7. ~Carrier(h, m)'
    BY <2>1, <2>5, <2>6, CarriesNot
  <2> QED
    BY <2>1, <2>7 DEF Yields
<1> QED
  BY <1>2, <1>3

LEMMA AddYields ==
    ASSUME Base, ~SlowOps, NotDone, NEW o \in Op, OpStep(o), op[o].pc = "add", NEW m, m \in SeqSet(op[o].d.msgs)
    PROVE  Yields(o, m)
<1> DEFINE p == op[o]
           n == op'[o]
<1>0. Shape(p) /\ Typed
  BY BaseIs
<1>1. n.kind = p.kind /\ n.src = p.src /\ n.pc = IF p.kind = "claimed" THEN "marksrc" ELSE "release"
  BY <1>0, StepAt, AddDoes DEF Becomes
<1>2. ~MarkFailed(o)
  BY MarkFailedLeaves
<1>3. CASE HasWant(p)
  <2>1. Brings(p, m)
    BY <1>3 DEF Brings, Unused
  <2>2. ~Brings(n, m)
    BY <1>1, <1>3 DEF Brings, Unused, HasWant
  <2> QED
    BY <2>1, <2>2 DEF Yields
<1>4. CASE p.kind = "claimed"
  <2>h. PICK h \in Ref : h = p.src
    BY <1>4, ClaimLives
  <2>1. LiveAt(h) /\ At(h).st = "active" /\ At(h).ph = "moving" /\ At(h).snap = p.d /\ h[2] = p.id
        /\ ~Leaving(p, p.src)
    <3>1. ~Leaving(p, p.src)
      BY DEF Leaving
    <3> QED
      BY <1>4, <2>h, <3>1, ClaimLives, MovingLives
  <2>2. h[2] \notin turnDone
    BY <1>4, <2>1 DEF NotDone
  <2>3. m \in SeqSet(At(h).data.msgs)
    BY <2>1, BaseTyped DEF JobShapes, JobShape
  <2>4. ~Appends(h, m)
    BY <1>2, AppendsAre DEF Hands
  <2>5. Carrier(h, m)
    BY <2>1, <2>2, <2>3, <2>4 DEF Carrier, HasMsg, Open
  <2>6. LeftBehind(h)'
    <3>1. Leaving(n, h)
      BY <1>1, <1>4, <2>h DEF Leaving
    <3> QED
      BY <1>2, <3>1, HolderIs
  <2>7. After(h).st # "failed"
    BY <2>1, OpStepLives
  <2>8. ~Carrier(h, m)'
    BY <2>6, <2>7, CarriesNot
  <2> QED
    BY <2>5, <2>8 DEF Yields
<1> QED
  BY <1>0, <1>3, <1>4 DEF Shape, KindPc, OpenPcs, CopyPcs, HasWant

LEMMA TakeYields ==
    ASSUME Base, Settings, Few, ~SlowOps, NEW o \in Op, OpStep(o), TakesOver(o), NEW m,
           m \in SeqSet(CopyData(op[o]).msgs)
    PROVE  Yields(o, m)
<1> DEFINE p == op[o]
           n == op'[o]
<1>r. PICK r \in Ref : r = Original(p)
  BY BaseIs, RefsAre DEF TakesOver, CopyPcs
<1>0. Shape(p) /\ Typed /\ p.pc = "take" /\ Takeable(p, At(r)) /\ r[2] \notin turnDone
      /\ p.d \in Data /\ p.prev \in Data /\ ReadStill(p)
  BY <1>r, BaseIs DEF TakesOver
<1>1. ~MarkFailed(o)
  BY <1>0, MarkFailedLeaves
<1>2. n.kind = p.kind /\ n.d = p.d /\ n.pc = IF p.kind = "merge" THEN "look" ELSE "promote"
  BY <1>r, <1>0, StepAt, TakeDoes DEF Becomes
<1>3. r \in Ref /\ LiveAt(r) /\ At(r).data = IF Relocating(p) THEN p.prev ELSE p.d
  BY <1>r, <1>0, TakenLives DEF ReadStill
<1>4. \A s \in Ref : After(s) = IF s = r THEN NoJob ELSE At(s)
  BY <1>r, <1>0, StepAt, TakeTouches, AfterIs
<1>5. ASSUME m \in SeqSet(At(r).data.msgs) PROVE Yields(o, m)
  <2>1. ~Appends(r, m)
    BY <1>0, <1>1, AppendsAre DEF Hands
  <2>2. Carrier(r, m)
    BY <1>0, <1>3, <1>5, <2>1 DEF Carrier, HasMsg, Open
  <2>3. After(r) = NoJob /\ ~Runs(NoJob) /\ NoJob.st # "failed"
    BY <1>3, <1>4 DEF NoJob, Runs, Pending
  <2>4. ~Carrier(r, m)'
    BY <1>3, <2>3, CarriesNot
  <2> QED
    BY <1>3, <2>2, <2>4 DEF Yields
<1>6. ASSUME m \in SeqSet(p.d.msgs), Relocating(p) PROVE Yields(o, m)
  <2>1. Brings(p, m)
    BY <1>0, <1>6 DEF Brings, Unused, Relocating
  <2>2. ~Brings(n, m)
    BY <1>2, <1>6 DEF Brings, Unused, Relocating, HasWant
  <2> QED
    BY <2>1, <2>2 DEF Yields
<1>7. CASE Relocating(p)
  <2>1. SeqSet(CopyData(p).msgs) = SeqSet(p.prev.msgs) \cup SeqSet(p.d.msgs)
    BY <1>0, <1>7, RelocatedMsgs DEF CopyData
  <2> QED
    BY <1>3, <1>5, <1>6, <1>7, <2>1
<1>8. CASE ~Relocating(p)
  BY <1>3, <1>5, <1>8 DEF CopyData
<1> QED
  BY <1>7, <1>8

\* A step of an operation gives a message a new carrier only for another.
LEMMA OpStepCarries ==
    ASSUME Base, Settings, Few, ~SlowOps, NotDone, Aims, NEW o \in Op, OpStep(o),
           NEW m, m \notin hist'.raced, NEW s \in Ref, Carrier(s, m)', ~Carrier(s, m)
    PROVE  s = Goal(op[o]) /\ op[o].pc \in {"add", "take", "recheck"} /\ Yields(o, m)
<1> DEFINE p == op[o]
           n == op'[o]
<1>0. HasMsg(s, m)' /\ ~Appends(s, m)'
  BY DEF Carrier
<1>1. ~MarkFailed(o)
  <2> SUFFICES ASSUME MarkFailed(o) PROVE FALSE
    OBVIOUS
  <2>1. op'[o] = IdleOp /\ \A x \in Op : x # o => op'[x] = op[x]
    BY MarkFailedLeaves
  <2>2. Appends(s, m) => Appends(s, m)'
    <3>1. \A x \in Op : Hands(op[x], m) => op'[x] = op[x]
      BY <2>1, MarkFailedLeaves DEF Hands
    <3>2. Appends(s, m)' <=> \E x \in Op : Hands(op'[x], m) /\ op'[x].ref = s
      BY DEF Appends, Hands
    <3> QED
      BY <3>1, <3>2 DEF Appends
  <2>3. p.pc = "markfailed"
    BY MarkFailedLeaves
  <2> QED
    BY <1>0, <2>2, <2>3, HasStays DEF Carrier, Arrives, TakesOver
<1>2. CASE HasMsg(s, m)
  <2>1. Hands(p, m) /\ p.ref = s
    BY <1>1, <1>2, AppendsAre DEF Carrier
  <2>2. Adding(p, m) /\ p.pc = "recheck"
    <3>1. ~Relocating(p)
      BY <2>1, BaseIs DEF Hands, Shape, Relocating, HasWant, OpenPcs
    <3> QED
      BY <2>1, <3>1 DEF Hands, Adding, Appending
  <2>3. n.pc = AppendedThen(p)
    BY <2>2, OpStepHist DEF Adding
  <2> QED
    BY <2>1, <2>2, <2>3, AppendYields DEF Goal
<1>3. CASE ~HasMsg(s, m)
  <2>1. ~(p.pc = "update" /\ s = p.ref /\ (m \in SeqSet(At(s).data.msgs) \/ Adding(p, m)) /\ (Open(s) \/ Failing(s, m)))
    <3> SUFFICES ASSUME p.pc = "update", s = p.ref, Adding(p, m) PROVE FALSE
      BY <1>3 DEF HasMsg
    <3>1. Hands(n, m) /\ n.ref = s
      BY UpdateIs DEF Hands, Adding
    <3> QED
      BY <1>0, <1>1, <3>1, AppendsAre
  <2>2. Arrives(o, s) /\ m \in SeqSet(After(s).data.msgs)
    BY <1>0, <1>3, <2>1, HasStays
  <2>3. CASE p.pc = "add"
    BY <2>2, <2>3, ArrivesWith, AddYields DEF Arrives, TakesOver, Goal
  <2>4. CASE p.pc # "add"
    BY <2>2, <2>4, ArrivesWith, TakeYields DEF TakesOver, Goal
  <2> QED
    BY <2>3, <2>4
<1> QED
  BY <1>2, <1>3
-----------------------------------------------------------------------------
(***************************************************************************)
(* A message is re-dispatched once: the invariant of each message          *)
(***************************************************************************)
\* The job an operation re-checks failed, and its messages were re-dispatched.
Torn(m) == \E o \in Op : Hands(op[o], m) /\ At(op[o].ref).st = "failed" /\ op[o].ref[2] \in hist.again[m]

\* What has a message that was re-dispatched counts it.
Heavy(m) ==
    /\ \A r \in Ref : HasMsg(r, m) =>
          /\ At(r).data.att >= 1
          /\ At(r).st = "active" /\ m \in SeqSet(At(r).snap.msgs) => At(r).snap.att >= 1
    /\ \A o \in Op : Brings(op[o], m) => op[o].d.att >= 1

\* A finished message is carried only while an append to a job whose turn
\* ended is re-checked.
Spent(r) == r[2] \in turnDone /\ At(r).ph \notin {"denied", "mismatch"}
Finished(m) ==
    /\ \A r \in Ref : Carrier(r, m) => \E o \in Op : Gives(op[o], r, m) /\ Spent(op[o].ref)
    /\ \A o \in Op : Brings(op[o], m) => Hands(op[o], m) /\ Spent(op[o].ref)

\* An append is not under way to a job its messages were re-dispatched from.
Unbound(m) ==
    \A o \in Op : Adding(op[o], m) /\ op[o].pc # "recheck" /\ At(op[o].ref).st = "failed"
                     => op[o].ref[2] \notin hist.again[m]

Once(m) ==
    /\ hist.again[m] = {} => One(m) /\ (m \in hist.fin => Finished(m))
    /\ hist.again[m] # {} /\ ~Torn(m) => Heavy(m)
    /\ Torn(m) => \A s \in Ref : Carrier(s, m) => \E o \in Op : Gives(op[o], s, m)
    /\ \A i, j \in hist.again[m] : i = j
    /\ Unbound(m)
-----------------------------------------------------------------------------
\* A merged job's count is neither job's reset.
LEMMA AttIs ==
    ASSUME NEW pend \in Data, NEW inc \in Data, NEW hint
    PROVE  /\ Appended(pend, inc, hint).att \in Nat /\ Relocated(pend, inc, hint).att \in Nat
           /\ Appended(pend, inc, hint).att >= pend.att /\ Appended(pend, inc, hint).att >= inc.att
           /\ Relocated(pend, inc, hint).att >= pend.att /\ Relocated(pend, inc, hint).att >= inc.att
<1>1. pend.att \in 0..2 /\ inc.att \in 0..2
  BY DEF Data
<1>2. MaxAttempts(pend, inc) \in Nat /\ MaxAttempts(pend, inc) >= pend.att /\ MaxAttempts(pend, inc) >= inc.att
  BY <1>1 DEF MaxAttempts
<1>3. \A s : [pend EXCEPT !.msgs = s, !.att = MaxAttempts(pend, inc)].att = MaxAttempts(pend, inc)
             /\ [inc EXCEPT !.msgs = s, !.att = MaxAttempts(pend, inc)].att = MaxAttempts(pend, inc)
  BY DEF Data
<1>4. Appended(pend, inc, hint).att = MaxAttempts(pend, inc)
  <2> DEFINE s == IF MergesFirst(pend, inc, hint) THEN NewMessages(pend.msgs, inc.msgs) \o pend.msgs
                  ELSE pend.msgs \o NewMessages(pend.msgs, inc.msgs)
  <2>1. Appended(pend, inc, hint) = [pend EXCEPT !.msgs = s, !.att = MaxAttempts(pend, inc)]
    BY DEF Appended
  <2> HIDE DEF s
  <2> QED
    BY <1>3, <2>1
<1>5. Relocated(pend, inc, hint).att = MaxAttempts(pend, inc)
  <2> DEFINE s == IF MergesFirst(pend, inc, hint) THEN inc.msgs \o NewMessages(inc.msgs, pend.msgs)
                  ELSE pend.msgs \o NewMessages(pend.msgs, inc.msgs)
  <2>1. Relocated(pend, inc, hint) = [inc EXCEPT !.msgs = s, !.att = MaxAttempts(pend, inc)]
    BY DEF Relocated
  <2> HIDE DEF s
  <2> QED
    BY <1>3, <2>1
<1> QED
  BY <1>2, <1>4, <1>5

\* An enqueue or a re-dispatch keeps its messages until it ends.
LEMMA BringsStay ==
    ASSUME Base, NEW o \in Op, OpStep(o), NEW x \in Op, NEW m, Brings(op'[x], m)
    PROVE  Brings(op[x], m) /\ op'[x].d = op[x].d
<1>0. CASE x # o
  BY <1>0, RecordGoesOn DEF Brings, HasWant, Unused
<1>1. CASE x = o /\ CheckMerge(o)
  BY <1>1, MergeKeeps DEF Brings, HasWant
<1>2. CASE x = o /\ ~CheckMerge(o)
  <2>1. Unused(op[o]) /\ op'[o].d = op[o].d
    BY <1>2, OpStepInherits DEF Steps, Inherits, Brings
  <2>2. op'[o].kind = op[o].kind
    BY <1>2, OpStepData DEF Brings, HasWant
  <2> QED
    BY <1>2, <2>1, <2>2 DEF Brings, HasWant
<1> QED
  BY <1>0, <1>1, <1>2

\* The job a worker moves has the messages of its move.
LEMMA MovedHas ==
    ASSUME Base, ~SlowOps, NotDone, NEW o \in Op, op[o].kind = "claimed", ~Leaving(op[o], op[o].src),
           NEW m, m \in SeqSet(op[o].d.msgs)
    PROVE  \E h \in Ref : HasMsg(h, m) /\ At(h).st = "active" /\ At(h).snap = op[o].d
<1>h. PICK h \in Ref : h = op[o].src
  BY ClaimLives
<1>1. LiveAt(h) /\ At(h).st = "active" /\ At(h).snap = op[o].d /\ h[2] = op[o].id
  BY <1>h, ClaimLives, MovingLives
<1>2. h[2] \notin turnDone
  BY <1>1 DEF NotDone
<1>3. m \in SeqSet(At(h).data.msgs)
  BY <1>1, BaseTyped DEF JobShapes, JobShape
<1> QED
  BY <1>1, <1>2, <1>3 DEF HasMsg, Open

\* What an append adds to a job counts its re-dispatch.
LEMMA AddingHeavy ==
    ASSUME Base, ~SlowOps, NotDone, Aims, NEW m, Heavy(m), NEW o \in Op, Adding(op[o], m)
    PROVE  op[o].d.att >= 1
<1>1. CASE HasWant(op[o])
  BY <1>1, SourceIs DEF Heavy
<1>2. CASE ~HasWant(op[o])
  <2>h. PICK h \in Ref : h = Giver(op[o])
    BY <1>2, SourceIs
  <2>1. Carrier(h, m) /\ (At(h).data = op[o].d \/ (At(h).st = "active" /\ At(h).snap = op[o].d))
    BY <1>2, <2>h, SourceIs
  <2>2. HasMsg(h, m) /\ m \in SeqSet(op[o].d.msgs)
    BY <2>1 DEF Carrier, Adding
  <2> QED
    BY <2>1, <2>2 DEF Heavy
<1> QED
  BY <1>1, <1>2

\* So does the job an operation brings to a place.
LEMMA ArrivesHeavy ==
    ASSUME Base, Settings, Few, ~SlowOps, NotDone, NEW m, Heavy(m), NEW o \in Op, OpStep(o),
           NEW s \in Ref, Arrives(o, s), m \in SeqSet(After(s).data.msgs)
    PROVE  After(s).data.att >= 1
<1> DEFINE p == op[o]
<1>0. Shape(p) /\ p.d \in Data /\ p.prev \in Data /\ ReadStill(p)
  BY BaseIs
<1>1. CASE p.pc = "add"
  <2>1. After(s).data = p.d
    BY <1>1, ArrivesWith
  <2>2. CASE HasWant(p)
    <3>1. Brings(p, m)
      BY <1>1, <2>1, <2>2 DEF Brings, Unused
    <3> QED
      BY <2>1, <3>1 DEF Heavy
  <2>3. CASE p.kind = "claimed"
    <3>1. ~Leaving(p, p.src)
      BY <1>1 DEF Leaving
    <3>2. PICK h \in Ref : HasMsg(h, m) /\ At(h).st = "active" /\ At(h).snap = p.d
      BY <2>1, <2>3, <3>1, MovedHas
    <3> QED
      BY <2>1, <3>2 DEF Heavy
  <2> QED
    BY <1>0, <1>1, <2>2, <2>3 DEF Shape, KindPc, OpenPcs, CopyPcs, HasWant
<1>2. CASE p.pc # "add"
  <2>1. TakesOver(o) /\ s = p.cp /\ After(s).data = CopyData(p)
    BY <1>2, ArrivesWith
  <2>r. PICK r \in Ref : r = Original(p)
    BY <2>1, RefsAre DEF TakesOver, CopyPcs
  <2>2. p.pc = "take" /\ Takeable(p, At(r)) /\ r[2] \notin turnDone
    BY <2>1, <2>r DEF TakesOver
  <2>3. LiveAt(r) /\ At(r).data = IF Relocating(p) THEN p.prev ELSE p.d
    BY <1>0, <2>2, <2>r, TakenLives DEF ReadStill
  <2>4. m \in SeqSet(At(r).data.msgs) => At(r).data.att >= 1
    BY <2>2, <2>3 DEF Heavy, HasMsg, Open
  <2>5. CASE Relocating(p)
    <3>1. CopyData(p) = Relocated(p.prev, p.d, Hint(p))
      BY <2>5 DEF CopyData
    <3>2. SeqSet(CopyData(p).msgs) = SeqSet(p.prev.msgs) \cup SeqSet(p.d.msgs)
      <4>1. \A hint : SeqSet(Relocated(p.prev, p.d, hint).msgs) = SeqSet(p.prev.msgs) \cup SeqSet(p.d.msgs)
        BY <1>0, RelocatedMsgs
      <4> QED
        BY <3>1, <4>1
    <3>3. CopyData(p).att \in Nat /\ CopyData(p).att >= p.prev.att /\ CopyData(p).att >= p.d.att
          /\ p.prev.att \in Nat /\ p.d.att \in Nat
      <4>1. p.prev.att \in 0..2 /\ p.d.att \in 0..2
        BY <1>0 DEF Data
      <4> QED
        BY <1>0, <3>1, <4>1, AttIs
    <3>4. m \in SeqSet(p.d.msgs) => p.d.att >= 1
      BY <2>2, <2>5 DEF Heavy, Brings, Unused, Relocating
    <3>5. m \in SeqSet(p.prev.msgs) => p.prev.att >= 1
      BY <2>3, <2>4, <2>5
    <3>6. p.prev.att >= 1 \/ p.d.att >= 1
      BY <2>1, <3>2, <3>4, <3>5
    <3>7. CopyData(p).att >= 1
      BY <3>3, <3>6
    <3> QED
      BY <2>1, <3>7
  <2>6. CASE ~Relocating(p)
    BY <2>1, <2>3, <2>4, <2>6 DEF CopyData
  <2> QED
    BY <2>5, <2>6
<1> QED
  BY <1>1, <1>2
-----------------------------------------------------------------------------
\* An operation keeps the count of a message that was re-dispatched.
LEMMA OpStepHeavy ==
    ASSUME Base, Settings, Few, ~SlowOps, NotDone, Aims, NEW m, Heavy(m), NEW o \in Op, OpStep(o)
    PROVE  Heavy(m)'
<1>1. ASSUME NEW s \in Ref, HasMsg(s, m)'
      PROVE  /\ After(s).data.att >= 1
             /\ After(s).st = "active" /\ m \in SeqSet(After(s).snap.msgs) => After(s).snap.att >= 1
  <2>1. CASE HasMsg(s, m) /\ After(s).data = At(s).data
    <3>1. After(s).st = "active" => At(s).st = "active" /\ After(s).snap = At(s).snap
      BY ActiveStays
    <3> QED
      BY <2>1, <3>1 DEF Heavy
  <2>2. CASE op[o].pc = "update" /\ s = op[o].ref /\ (Open(s) \/ Failing(s, m))
             /\ (m \in SeqSet(At(s).data.msgs) \/ Adding(op[o], m))
    <3>1. /\ At(s).data = op[o].prev /\ After(s).data = Appended(op[o].prev, op[o].d, Hint(op[o]))
          /\ After(s).snap = At(s).snap /\ After(s).st = At(s).st
          /\ op[o].prev \in Data /\ op[o].d \in Data
      BY <2>2, UpdateIs
    <3>2. op[o].prev.att \in 0..2 /\ op[o].d.att \in 0..2
      BY <3>1 DEF Data
    <3>3. /\ After(s).data.att \in Nat
          /\ After(s).data.att >= op[o].prev.att /\ After(s).data.att >= op[o].d.att
      BY <3>1, AttIs
    <3>4. m \in SeqSet(At(s).data.msgs) => HasMsg(s, m)
      BY <2>2 DEF HasMsg
    <3>5. HasMsg(s, m) => op[o].prev.att >= 1 /\ (At(s).st = "active" /\ m \in SeqSet(At(s).snap.msgs) => At(s).snap.att >= 1)
      BY <3>1 DEF Heavy
    <3>6. Adding(op[o], m) => op[o].d.att >= 1
      BY AddingHeavy
    <3>7. op[o].prev.att >= 1 \/ op[o].d.att >= 1
      BY <2>2, <3>4, <3>5, <3>6
    <3>8. After(s).data.att >= 1
      BY <3>2, <3>3, <3>7
    <3>9. At(s).st = "active" => SeqSet(At(s).snap.msgs) \subseteq SeqSet(At(s).data.msgs)
      BY BaseTyped DEF JobShapes, JobShape
    <3> QED
      BY <3>1, <3>4, <3>5, <3>8, <3>9
  <2>3. CASE Arrives(o, s) /\ Open(s)' /\ m \in SeqSet(After(s).data.msgs)
    <3>1. After(s).st \in {"waiting", "held"}
      BY <2>3, Arrival
    <3> QED
      BY <2>3, <3>1, ArrivesHeavy
  <2> QED
    BY <1>1, <2>1, <2>2, <2>3, HasStays
<1>2. ASSUME NEW x \in Op, Brings(op'[x], m)
      PROVE  op'[x].d.att >= 1
  BY <1>2, BringsStay DEF Heavy
<1> QED
  BY <1>1, <1>2 DEF Heavy, After, At

\* A finished turn stays so.
LEMMA SpentStays ==
    ASSUME Base, NEW o \in Op, OpStep(o), NEW r \in Ref, Spent(r)
    PROVE  Spent(r)'
<1>1. turnDone' = turnDone
  BY OpStepCalm
<1>2. After(r).ph # "none" => After(r).ph = At(r).ph \/ After(r).ph \in {"claimed", "moved"}
  BY PhasesStay
<1> QED
  BY <1>1, <1>2 DEF Spent, After, At

\* A re-check of a job whose turn ended sends its messages again.
LEMMA HandsSpent ==
    ASSUME Base, NEW o \in Op, OpStep(o), NEW m, m \notin hist'.raced,
           NEW x \in Op, Hands(op[x], m), Spent(op[x].ref) \/ At(op[x].ref).st = "failed"
    PROVE  x # o
<1> SUFFICES ASSUME x = o PROVE FALSE
  OBVIOUS
<1>1. ~AppendableAt(op[o].ref)
  BY DEF AppendableAt, Spent, Pending
<1>2. SeqSet(op[o].d.msgs) \subseteq hist'.raced
  BY <1>1, OpStepHist DEF Hands
<1> QED
  BY <1>2 DEF Hands
-----------------------------------------------------------------------------
\* Only an append's write goes on to its re-check.
LEMMA RecheckFrom ==
    ASSUME Base, NEW o \in Op, OpStep(o), op'[o].pc = "recheck"
    PROVE  op[o].pc = "update"
<1>0. Typed /\ Shape(op[o])
  BY BaseIs
<1>1. CASE Acquire(o) \/ RecordSenders(o) \/ CheckClaimed(o) \/ Index(o) \/ Reindex(o)
  BY <1>0, <1>1, AcquireDoes, RecordSendersDoes, CheckClaimedDoes, IndexDoes, ReindexDoes DEF Becomes
<1>2. CASE MarkSource(o) \/ Add(o) \/ MarkCopy(o) \/ MarkHold(o) \/ AddCopy(o) \/ DropCopy(o)
  BY <1>0, <1>2, MarkSourceDoes, AddDoes, MarkCopyDoes, MarkHoldDoes, AddCopyDoes, DropCopyDoes DEF Becomes
<1>3. CASE Promote(o) \/ TakeHold(o) \/ Take(o) \/ Unmark(o) \/ CheckMoved(o)
  BY <1>0, <1>3, PromoteDoes, TakeHoldDoes, TakeDoes, UnmarkDoes, CheckMovedDoes DEF Becomes
<1>4. CASE UpdateData(o)
  BY <1>0, <1>4, UpdateDataDoes
<1>5. CASE Look(o)
  <2>1. AppendedThen(op[o]) \in {"release", "marksrc", "takehold"} /\ NotAppended(op[o]) \in {"promote", "index"}
    BY <1>0, <1>5 DEF AppendedThen, NotAppended, HasWant, Look, Shape, KindPc, CopyPcs
  <2> QED
    BY <1>0, <1>5, <2>1, LookDoes DEF Becomes
<1>6. CASE Recheck(o)
  <2>1. AppendedThen(op[o]) \in {"release", "marksrc", "takehold"} /\ NotAppended(op[o]) \in {"promote", "index"}
    BY <1>0, <1>6 DEF AppendedThen, NotAppended, HasWant, Recheck, Shape, KindPc, CopyPcs
  <2> QED
    BY <1>0, <1>6, <2>1, RecheckDoes DEF Becomes
<1>7. CASE CheckMerge(o) \/ CheckSwap(o)
  BY <1>0, <1>7, MergeKeeps, SwapIs
<1>8. CASE Release(o)
  BY <1>0, <1>8, ReleaseDoes, IdleIs DEF Becomes, OpBecomes
<1>9. CASE MarkFailed(o)
  BY <1>0, <1>9, MarkFailedDoes, IdleIs DEF OpBecomes
<1> QED
  BY <1>1, <1>2, <1>3, <1>4, <1>5, <1>6, <1>7, <1>8, <1>9 DEF OpStep

\* An operation that is to append comes from its look at the pending job, with
\* the messages it had.
LEMMA AppendsFrom ==
    ASSUME Base, NEW o \in Op, OpStep(o), Appending(op'[o]), ~Relocating(op'[o])
    PROVE  LET p == op[o]
               n == op'[o] IN
           /\ n.kind = p.kind /\ n.d = p.d /\ n.src = p.src
           /\ n.pc = "senders" => AppendableAt(n.ref)
           /\ n.pc # "senders" => Appending(p) /\ ~Relocating(p) /\ n.ref = p.ref /\ p.pc # "recheck"
           /\ n.pc \in {"senders", "update"} => job' = job
<1>0. Typed /\ Shape(op[o]) /\ WritesFrom(o)
  BY BaseIs, OpStepWrites
<1>1. CASE op'[o].pc = "senders"
  <2>1. Look(o)
    BY <1>0, <1>1 DEF WritesFrom
  <2>2. AppendedThen(op[o]) \in {"release", "marksrc", "takehold"} /\ NotAppended(op[o]) \in {"promote", "index"}
    BY <1>0, <2>1 DEF AppendedThen, NotAppended, HasWant, Look, Shape, KindPc, CopyPcs
  <2>3. job' = job
    BY <1>0, <2>1, LookDoes
  <2> QED
    BY <1>0, <1>1, <2>1, <2>2, <2>3, LookDoes DEF Becomes
<1>2. CASE op'[o].pc = "update"
  <2>1. RecordSenders(o)
    BY <1>0, <1>2 DEF WritesFrom
  <2> QED
    BY <1>0, <1>2, <2>1, RecordSendersDoes DEF Becomes, Appending, Relocating, HasWant
<1>3. CASE op'[o].pc = "recheck"
  <2>1. UpdateData(o)
    BY <1>3, RecheckFrom, StepAt
  <2> QED
    BY <1>0, <1>3, <2>1, UpdateDataDoes DEF Becomes, Appending, Relocating, HasWant
<1> QED
  BY <1>1, <1>2, <1>3 DEF Appending
-----------------------------------------------------------------------------
(***************************************************************************)
(* An operation's step keeps what a message's re-dispatch means            *)
(***************************************************************************)
\* A re-check is of an append.
LEMMA HandsAdd ==
    ASSUME Base, NEW o \in Op, NEW m, Hands(op[o], m)
    PROVE  Adding(op[o], m) /\ op[o].ref \in Ref
<1>1. Shape(op[o]) /\ op[o].pc = "recheck"
  BY BaseIs DEF Hands
<1>2. ~Relocating(op[o])
  BY <1>1 DEF Shape, Relocating, OpenPcs
<1> QED
  BY <1>1, <1>2, RefsAre DEF Adding, Appending, Hands

\* The slots that do not step, and where an operation that re-checks steps.
LEMMA OthersStay ==
    ASSUME Base, NEW o \in Op, OpStep(o)
    PROVE  \A x \in Op : x # o => op'[x] = op[x]
BY RecordGoesOn

\* One job, or operation, goes on carrying the message.
LEMMA OpStepOne ==
    ASSUME Base, Settings, Few, ~SlowOps, NotDone, Aims, NEW o \in Op, OpStep(o),
           NEW m, m \notin hist'.raced, One(m)
    PROVE  One(m)'
<1>1. ASSUME NEW x \in Op, Brings(op'[x], m) PROVE Brings(op[x], m)
  BY <1>1, BringsStay
<1>2. ASSUME NEW r \in Ref, NEW s \in Ref, Carrier(r, m)', Carrier(s, m)', ~Carrier(r, m)
      PROVE  r = s
  <2>1. r = Goal(op[o]) /\ Yields(o, m)
    BY <1>2, OpStepCarries
  <2>2. CASE Carrier(s, m)
    BY <1>2, <2>1, <2>2 DEF Yields, One
  <2>3. CASE ~Carrier(s, m)
    BY <1>2, <2>1, <2>3, OpStepCarries
  <2> QED
    BY <2>2, <2>3
<1>3. ASSUME NEW r \in Ref, NEW s \in Ref, Carrier(r, m)', Carrier(s, m)'
      PROVE  r = s
  <2>1. CASE Carrier(r, m) /\ Carrier(s, m)
    BY <2>1 DEF One
  <2>2. CASE ~Carrier(r, m) \/ ~Carrier(s, m)
    BY <1>2, <1>3, <2>2
  <2> QED
    BY <2>1, <2>2
<1>4. ASSUME NEW x \in Op, NEW r \in Ref, Brings(op'[x], m), Carrier(r, m)'
      PROVE  FALSE
  <2>1. Brings(op[x], m)
    BY <1>1, <1>4
  <2>2. CASE Carrier(r, m)
    BY <2>1, <2>2 DEF One
  <2>3. CASE ~Carrier(r, m)
    <3>1. Yields(o, m)
      BY <1>4, <2>3, OpStepCarries
    <3> QED
      BY <1>4, <2>1, <3>1 DEF Yields, One
  <2> QED
    BY <2>2, <2>3
<1>5. \A x, y \in Op : Brings(op'[x], m) /\ Brings(op'[y], m) => x = y
  BY <1>1 DEF One
<1> QED
  BY <1>3, <1>4, <1>5 DEF One

\* A finished message stays finished.
LEMMA OpStepFinished ==
    ASSUME Base, Settings, Few, ~SlowOps, NotDone, Aims, NEW o \in Op, OpStep(o),
           NEW m, m \notin hist'.raced, Finished(m)
    PROVE  Finished(m)'
<1>1. ASSUME NEW x \in Op, Hands(op[x], m), Spent(op[x].ref)
      PROVE  x # o /\ op'[x] = op[x] /\ Spent(op[x].ref)' /\ op[x].ref \in Ref
  <2>1. x # o /\ op[x].ref \in Ref
    BY <1>1, HandsSpent, HandsAdd
  <2>2. op'[x] = op[x]
    BY <2>1, OthersStay
  <2>3. PICK r \in Ref : r = op[x].ref
    BY <2>1
  <2>4. Spent(r)'
    BY <1>1, <2>3, SpentStays
  <2>5. Spent(op[x].ref)'
    BY <2>2, <2>3, <2>4 DEF Spent, At
  <2> QED
    BY <2>1, <2>2, <2>5
<1>2. ASSUME NEW x \in Op, Hands(op[x], m), Spent(op[x].ref), op[o].pc \notin Free PROVE FALSE
  <2>1. x # o /\ op[x].pc \notin Free
    BY <1>1, <1>2 DEF Hands, Free
  <2> QED
    BY <1>2, <2>1, HolderAlone
<1>3. ASSUME NEW r \in Ref, Carrier(r, m)'
      PROVE  \E x \in Op : Gives(op'[x], r, m) /\ Spent(op[x].ref)'
  <2>1. CASE Carrier(r, m)
    <3>1. PICK x \in Op : Gives(op[x], r, m) /\ Spent(op[x].ref)
      BY <2>1 DEF Finished
    <3>2. op'[x] = op[x] /\ Spent(op[x].ref)'
      BY <1>1, <3>1 DEF Gives
    <3> QED
      BY <3>1, <3>2
  <2>2. CASE ~Carrier(r, m)
    <3>1. op[o].pc \notin Free /\ Yields(o, m)
      BY <1>3, <2>2, OpStepCarries DEF Free
    <3>2. ~Brings(op[o], m)
      BY <1>2, <3>1 DEF Finished
    <3>3. PICK h \in Ref : Carrier(h, m)
      BY <3>1, <3>2 DEF Yields
    <3>4. PICK x \in Op : Gives(op[x], h, m) /\ Spent(op[x].ref)
      BY <3>3 DEF Finished
    <3> QED
      BY <1>2, <3>1, <3>4 DEF Gives
  <2> QED
    BY <2>1, <2>2
<1>4. ASSUME NEW x \in Op, Brings(op'[x], m)
      PROVE  Hands(op'[x], m) /\ Spent(op[x].ref)'
  <2>1. Brings(op[x], m)
    BY <1>4, BringsStay
  <2>2. Hands(op[x], m) /\ Spent(op[x].ref)
    BY <2>1 DEF Finished
  <2> QED
    BY <1>1, <2>2
<1> QED
  BY <1>3, <1>4 DEF Finished
-----------------------------------------------------------------------------
\* A job that failed was failed before an operation's step, and after it.
LEMMA FailedIff ==
    ASSUME Base, ~SlowOps, NEW o \in Op, OpStep(o), NEW r \in Ref
    PROVE  At(r).st = "failed" <=> After(r).st = "failed"
BY ChangesKeep, OpStepLives

\* A job torn from its messages stays so, and only an operation that was about
\* to append to it tears one.
LEMMA OpStepTorn ==
    ASSUME Base, ~SlowOps, NEW o \in Op, OpStep(o), NEW m, m \notin hist'.raced, Unbound(m)
    PROVE  Torn(m)' <=> Torn(m)
<1>0. hist'.again = hist.again
  BY OpStepHist
<1>1. ASSUME Torn(m) PROVE Torn(m)'
  <2>1. PICK x \in Op : Hands(op[x], m) /\ At(op[x].ref).st = "failed" /\ op[x].ref[2] \in hist.again[m]
    BY <1>1 DEF Torn
  <2>2. x # o /\ op[x].ref \in Ref
    BY <2>1, HandsSpent, HandsAdd
  <2>3. op'[x] = op[x]
    BY <2>2, OthersStay
  <2>4. PICK r \in Ref : r = op[x].ref
    BY <2>2
  <2>5. After(r).st = "failed"
    BY <2>1, <2>4, FailedIff
  <2> QED
    BY <1>0, <2>1, <2>3, <2>4, <2>5 DEF Torn, After, At
<1>2. ASSUME Torn(m)' PROVE Torn(m)
  <2>1. PICK x \in Op : Hands(op'[x], m) /\ After(op'[x].ref).st = "failed" /\ op'[x].ref[2] \in hist.again[m]
    BY <1>0, <1>2 DEF Torn, After, At
  <2>2. CASE x # o
    <3>1. op'[x] = op[x]
      BY <2>2, OthersStay
    <3>2. Hands(op[x], m) /\ op[x].ref \in Ref
      BY <2>1, <3>1, HandsAdd
    <3> QED
      BY <2>1, <3>1, <3>2, FailedIff DEF Torn
  <2>3. CASE x = o
    <3>1. op[o].pc = "update"
      BY <2>1, <2>3, RecheckFrom DEF Hands
    <3>2. op[o].ref \in Ref /\ op'[o].d = op[o].d /\ op'[o].ref = op[o].ref
      BY <3>1, UpdateIs
    <3>3. Adding(op[o], m)
      <4>1. Shape(op[o])
        BY BaseIs
      <4>2. ~Relocating(op[o])
        BY <3>1, <4>1 DEF Shape, Relocating, OpenPcs
      <4> QED
        BY <2>1, <2>3, <3>1, <3>2, <4>2 DEF Adding, Appending, Hands
    <3>4. At(op[o].ref).st = "failed"
      BY <2>1, <2>3, <3>2, FailedIff
    <3> QED
      BY <2>1, <2>3, <3>1, <3>2, <3>3, <3>4 DEF Unbound
  <2> QED
    BY <2>2, <2>3
<1> QED
  BY <1>1, <1>2

\* While a job is torn from its messages nothing comes to carry them.
LEMMA OpStepGiven ==
    ASSUME Base, Settings, Few, ~SlowOps, NotDone, Aims, NEW o \in Op, OpStep(o),
           NEW m, m \notin hist'.raced, Torn(m),
           \A s \in Ref : Carrier(s, m) => \E x \in Op : Gives(op[x], s, m)
    PROVE  \A s \in Ref : Carrier(s, m)' => \E x \in Op : Gives(op'[x], s, m)
<1>1. PICK y \in Op : Hands(op[y], m) /\ At(op[y].ref).st = "failed"
  BY DEF Torn
<1>2. y # o
  BY <1>1, HandsSpent
<1>3. op[o].pc \in Free
  BY <1>1, <1>2, HolderAlone DEF Hands, Free
<1> SUFFICES ASSUME NEW s \in Ref, Carrier(s, m)' PROVE \E x \in Op : Gives(op'[x], s, m)
  OBVIOUS
<1>4. Carrier(s, m)
  BY <1>3, OpStepCarries DEF Free
<1>5. PICK x \in Op : Gives(op[x], s, m)
  BY <1>4
<1>6. x # o
  BY <1>3, <1>5 DEF Gives, Hands, Free
<1> QED
  BY <1>5, <1>6, OthersStay

LEMMA OpStepUnbound ==
    ASSUME Base, ~SlowOps, NEW o \in Op, OpStep(o), NEW m, Unbound(m)
    PROVE  Unbound(m)'
<1>0. hist'.again = hist.again
  BY OpStepHist
<1> SUFFICES ASSUME NEW x \in Op, Adding(op'[x], m), op'[x].pc # "recheck", After(op'[x].ref).st = "failed"
             PROVE  op'[x].ref[2] \notin hist.again[m]
  BY <1>0 DEF Unbound, After, At
<1>1. CASE x # o
  <2>1. op'[x] = op[x]
    BY <1>1, OthersStay
  <2>2. op[x].ref \in Ref
    BY <2>1, RefsAre DEF Adding
  <2> QED
    BY <2>1, <2>2, FailedIff DEF Unbound
<1>2. CASE x = o
  <2>1. Appending(op'[o]) /\ ~Relocating(op'[o]) /\ op'[o].pc \in {"senders", "update"}
    BY <1>2 DEF Adding, Appending
  <2>2. job' = job /\ op'[o].d = op[o].d
    BY <2>1, AppendsFrom
  <2>3. After(op'[o].ref).st = At(op'[o].ref).st
    BY <2>2 DEF After, At
  <2>4. CASE op'[o].pc = "senders"
    <3>1. AppendableAt(op'[o].ref)
      BY <2>1, <2>4, AppendsFrom
    <3> QED
      BY <1>2, <2>3, <3>1 DEF AppendableAt, Pending
  <2>5. CASE op'[o].pc = "update"
    <3>1. Appending(op[o]) /\ ~Relocating(op[o]) /\ op'[o].ref = op[o].ref /\ op[o].pc # "recheck"
      BY <2>1, <2>5, AppendsFrom
    <3>2. Adding(op[o], m)
      BY <1>2, <2>2, <3>1 DEF Adding
    <3> QED
      BY <1>2, <2>3, <3>1, <3>2 DEF Unbound
  <2> QED
    BY <2>1, <2>4, <2>5
<1> QED
  BY <1>1, <1>2

LEMMA OpStepOnce ==
    ASSUME Base, Settings, Few, ~SlowOps, NotDone, Aims, NEW o \in Op, OpStep(o),
           NEW m, m \notin hist'.raced, Once(m)
    PROVE  Once(m)'
<1>0. hist'.again = hist.again /\ hist'.fin = hist.fin
  BY OpStepHist, OpStepFin
<1>1. hist.again[m] = {} => One(m)' /\ (m \in hist.fin => Finished(m)')
  BY OpStepOne, OpStepFinished DEF Once
<1>2. Unbound(m) /\ Unbound(m)' /\ (Torn(m)' <=> Torn(m))
  BY OpStepUnbound, OpStepTorn DEF Once
<1>3. hist.again[m] # {} /\ ~Torn(m) => Heavy(m)'
  BY OpStepHeavy DEF Once
<1>4. Torn(m) => \A s \in Ref : Carrier(s, m)' => \E x \in Op : Gives(op'[x], s, m)
  BY OpStepGiven DEF Once
<1> QED
  BY <1>0, <1>1, <1>2, <1>3, <1>4 DEF Once
-----------------------------------------------------------------------------
(***************************************************************************)
(* What jobs and operations have was sent, and what was re-dispatched from *)
(* failed                                                                  *)
(***************************************************************************)
Sent ==
    /\ \A r \in Ref : At(r).st # "none" => SeqSet(At(r).data.msgs) \subseteq hist.sent
    /\ \A o \in Op : SeqSet(op[o].d.msgs) \subseteq hist.sent
    /\ \A m \in Msg : hist.again[m] # {} => m \in hist.sent
    /\ hist.fin \subseteq hist.sent
AgainFailed == \A m \in Msg : \A i \in hist.again[m] : \E r \in Ref : r[2] = i /\ At(r).st = "failed"

LEMMA OpStepAims == ASSUME Base, Aims, NEW o \in Op, OpStep(o) PROVE Aims'
<1> SUFFICES ASSUME NEW x \in Op, op'[x].kind = "claimed", Appending(op'[x]) PROVE op'[x].ref # op'[x].src
  BY DEF Aims
<1>1. CASE x # o
  BY <1>1, OthersStay DEF Aims
<1>2. CASE x = o
  <2>1. ~Relocating(op'[o])
    BY <1>2 DEF Relocating, HasWant
  <2>2. op[o].kind = "claimed" /\ op'[o].src = op[o].src
    BY <1>2, <2>1, AppendsFrom
  <2>3. At(op[o].src).st = "active"
    BY <2>2 DEF Base, ClaimStays
  <2>4. CASE op'[o].pc = "senders"
    <3>1. AppendableAt(op'[o].ref)
      BY <1>2, <2>1, <2>4, AppendsFrom
    <3> QED
      BY <1>2, <2>2, <2>3, <3>1 DEF AppendableAt, Pending
  <2>5. CASE op'[o].pc # "senders"
    BY <1>2, <2>1, <2>2, <2>5, AppendsFrom DEF Aims
  <2> QED
    BY <2>4, <2>5
<1> QED
  BY <1>1, <1>2

LEMMA OpStepSent == ASSUME Base, Sent, NEW o \in Op, OpStep(o) PROVE Sent'
<1>0. hist'.sent = hist.sent /\ hist'.again = hist.again /\ hist'.fin = hist.fin
  BY OpStepHist, OpStepFin
<1>1. SeqSet(NoData.msgs) = {}
  BY DEF NoData, SeqSet
<1>2. ASSUME NEW x \in Op PROVE SeqSet(op'[x].d.msgs) \subseteq hist.sent
  <2>1. CASE x # o
    BY <2>1, OthersStay DEF Sent
  <2>2. CASE x = o
    BY <1>1, <2>2, OpStepData DEF Sent
  <2> QED
    BY <2>1, <2>2
<1>3. ASSUME NEW s \in Ref, After(s).st # "none" PROVE SeqSet(After(s).data.msgs) \subseteq hist.sent
  <2> DEFINE p == op[o]
  <2>0. p.d \in Data /\ p.prev \in Data /\ ReadStill(p) /\ SeqSet(p.d.msgs) \subseteq hist.sent
    BY BaseIs DEF Sent
  <2>1. CASE At(s).st = "none" /\ p.pc = "add" /\ After(s).data = p.d
    BY <2>0, <2>1
  <2>2. CASE At(s).st = "none" /\ p.pc = "copy" /\ After(s).data = CopyData(p)
    <3>1. CASE ~Relocating(p)
      BY <2>0, <2>2, <3>1 DEF CopyData
    <3>2. CASE Relocating(p)
      <4>1. PICK r \in Ref : r = Original(p)
        BY <2>2, RefsAre DEF CopyPcs
      <4>2. At(r).st # "none" /\ At(r).data = p.prev
        BY <2>0, <2>2, <3>2, <4>1 DEF ReadStill
      <4>3. SeqSet(p.prev.msgs) \subseteq hist.sent
        BY <4>2 DEF Sent
      <4>4. \A hint : SeqSet(Relocated(p.prev, p.d, hint).msgs) = SeqSet(p.prev.msgs) \cup SeqSet(p.d.msgs)
        BY <2>0, RelocatedMsgs
      <4>5. After(s).data = Relocated(p.prev, p.d, Hint(p))
        BY <2>2, <3>2 DEF CopyData
      <4> QED
        BY <2>0, <4>3, <4>4, <4>5
    <3> QED
      BY <3>1, <3>2
  <2>3. CASE At(s).st # "none" /\ After(s).data = At(s).data
    BY <2>3 DEF Sent
  <2>4. CASE At(s).st # "none" /\ p.pc = "update" /\ After(s).data # At(s).data
    <3>1. p.ref \in Ref /\ At(p.ref).st # "none" /\ At(p.ref).data = p.prev
          /\ After(p.ref).data = Appended(p.prev, p.d, Hint(p)) /\ \A r \in Ref : r # p.ref => After(r) = At(r)
      BY <2>4, UpdateIs
    <3>2. SeqSet(p.prev.msgs) \subseteq hist.sent
      BY <3>1 DEF Sent
    <3>3. \A hint : SeqSet(Appended(p.prev, p.d, hint).msgs) = SeqSet(p.prev.msgs) \cup SeqSet(p.d.msgs)
      BY <2>0, AppendedMsgs
    <3>4. After(s).data = Appended(p.prev, p.d, Hint(p))
      BY <2>4, <3>1
    <3> QED
      BY <2>0, <3>2, <3>3, <3>4
  <2> QED
    BY <1>3, <2>1, <2>2, <2>3, <2>4, NewJobs, OpStepGrows
<1> QED
  BY <1>0, <1>2, <1>3 DEF Sent, After, At

LEMMA OpStepAgain == ASSUME Base, ~SlowOps, AgainFailed, NEW o \in Op, OpStep(o) PROVE AgainFailed'
<1>1. hist'.again = hist.again
  BY OpStepHist
<1>2. \A r \in Ref : At(r).st = "failed" => After(r).st = "failed"
  BY FailedIff
<1> QED
  BY <1>1, <1>2 DEF AgainFailed, After, At
-----------------------------------------------------------------------------
(***************************************************************************)
(* The steps of workers and timers                                         *)
(***************************************************************************)
\* What was sent, resent or re-dispatched stays.
Mute == hist'.sent = hist.sent /\ hist'.raced = hist.raced /\ hist'.again = hist.again

\* A worker and a timer bring no job a message, and take none that failed.
LEMMA TurnsHave ==
    ASSUME Base, Settings, Few, ~SlowOps, NotDone, NEW r, Turns(r), Mute, NEW s \in Ref
    PROVE  /\ After(s).data = At(s).data
           /\ Open(s)' => Open(s)
           /\ \A m : HasMsg(s, m)' => HasMsg(s, m)
           /\ At(s).st = "failed" => After(s).st = "failed"
           /\ After(s).st = "failed" => At(s).st = "failed" \/ LiveAt(s)
           /\ After(s).st = "active" =>
                 \/ At(s).st = "active" /\ After(s).snap = At(s).snap
                 \/ After(s).snap = After(s).data
           /\ Spent(s) => Spent(s)'
           /\ After(s).st = "none" <=> At(s).st = "none"
<1>1. Quiet /\ (LiveAt(s)' => LiveAt(s)) /\ (\A x : LeftBehind(x)' <=> LeftBehind(x)) /\ ~LeftBehind(r)
  BY TurnsLives
<1>2. r \in Ref /\ turnDone \subseteq turnDone' /\ After(s).data = At(s).data
  BY DEF Turns, Rest3
<1>3. After(s).st = "failed" => At(s).st = "failed" \/ LiveAt(s)
  BY <1>1 DEF Quiet
<1>4. CASE s # r
  <2>1. After(s) = At(s)
    BY <1>4 DEF Turns
  <2>2. LiveAt(s)' /\ s[2] \in turnDone => s[2] \in turnDone'
    BY <1>2
  <2>3. Open(s)' => Open(s)
    BY <1>1, <1>2, <2>1 DEF Open, After, At
  <2>4. \A m : Failing(s, m)' <=> Failing(s, m)
    BY <2>1 DEF Failing, After, At, Mute
  <2>5. \A m : HasMsg(s, m)' => HasMsg(s, m)
    BY <2>1, <2>3, <2>4 DEF HasMsg, After, At
  <2>6. Spent(s) => Spent(s)'
    BY <1>2, <2>1 DEF Spent, After, At
  <2> QED
    BY <1>2, <1>3, <2>1, <2>3, <2>5, <2>6
<1>5. CASE s = r
  <2>n. At(r).st = "active" /\ At(r).ph = "running" => r[2] \notin turnDone
    BY <1>2 DEF NotDone
  <2>0. At(r).st = "active" /\ At(r).ph \notin {"moving", "moved"} => LiveAt(r)
    BY <1>2, RunningLives
  <2>1. Open(r)' => Open(r)
    <3> SUFFICES ASSUME LiveAt(r)', r[2] \in turnDone' => After(r).ph = "denied", r[2] \in turnDone
                 PROVE  At(r).ph = "denied"
      BY <1>1, <1>5 DEF Open, After, At
    <3>1. After(r).ph = "denied" /\ Runs(After(r))
      BY <1>2 DEF LiveAt, After, At
    <3> QED
      BY <2>n, <3>1 DEF Turns, Has, Runs, Pending
  <2>2. ASSUME NEW m, Failing(r, m)' PROVE Open(r)
    <3>1. After(r).st = "failed" /\ After(r).ph = "mismatch"
      BY <2>2 DEF Failing, After, At
    <3>2. \/ Has(At(r), "claimed") /\ r[2] \notin turnDone
          \/ Has(At(r), "denied")
      BY <3>1 DEF Turns
    <3> QED
      BY <2>0, <3>2 DEF Open, Has
  <2>3. \A m : HasMsg(r, m)' => HasMsg(r, m)
    BY <1>2, <1>5, <2>1, <2>2 DEF HasMsg, After, At
  <2>4. At(r).st # "failed" /\ At(r).st # "none" /\ After(r).st # "none"
    BY DEF Turns, Has
  <2>5. After(r).st = "active" =>
            \/ At(r).st = "active" /\ After(r).snap = At(r).snap
            \/ After(r).snap = After(r).data
    BY DEF Turns, Has, Same
  <2>6. Spent(r) => Spent(r)'
    <3> SUFFICES ASSUME r[2] \in turnDone, At(r).ph \notin {"denied", "mismatch"}
                 PROVE  After(r).ph \notin {"denied", "mismatch"}
      BY <1>2 DEF Spent, After, At
    <3> QED
      BY <2>n DEF Turns, Has
  <2> QED
    BY <1>2, <1>3, <1>5, <2>1, <2>3, <2>4, <2>5, <2>6
<1> QED
  BY <1>4, <1>5
-----------------------------------------------------------------------------
\* Nothing was re-dispatched from a job that lives.
LEMMA LiveNotAgain ==
    ASSUME Lives, AgainFailed, NEW m \in Msg, NEW s \in Ref, LiveAt(s)
    PROVE  s[2] \notin hist.again[m]
<1> SUFFICES ASSUME s[2] \in hist.again[m] PROVE FALSE
  OBVIOUS
<1>1. PICK f \in Ref : f[2] = s[2] /\ At(f).st = "failed"
  BY DEF AgainFailed
<1>2. f = s
  BY <1>1 DEF Lives, Sole
<1> QED
  BY <1>1, <1>2 DEF LiveAt, Runs, Pending

\* A turn that ends leaves none of its messages to another turn, but those an
\* append to its job is about to find late.
LEMMA TurnsFinish ==
    ASSUME Base, Settings, Few, ~SlowOps, NotDone, Aims, NEW r, Turns(r), Mute,
           NEW m, One(m), m \in hist'.fin, m \notin hist.fin
    PROVE  Finished(m)'
<1>1. /\ r \in Ref /\ Has(At(r), "running") /\ After(r).st = "active" /\ After(r).ph = "ended"
      /\ turnDone' = turnDone \cup {r[2]} /\ m \in SeqSet(At(r).snap.msgs) /\ op' = op
  BY DEF Turns, Rest3
<1>2. Spent(r)'
  BY <1>1 DEF Spent, After, At
<1>3. ~HasMsg(r, m)'
  BY <1>1 DEF HasMsg, Open, Failing, After, At
<1>4. \A s \in Ref : Carrier(s, m)' => Carrier(s, m)
  BY <1>1, TurnsHave DEF Carrier, Appends
<1>5. HasMsg(r, m)
  <2>1. LiveAt(r) /\ r[2] \notin turnDone
    BY <1>1, RunningLives DEF Has, NotDone
  <2>2. m \in SeqSet(At(r).data.msgs)
    BY <1>1, BaseTyped DEF JobShapes, JobShape, Has
  <2> QED
    BY <2>1, <2>2 DEF HasMsg, Open
<1>6. CASE Carrier(r, m)
  <2>1. \A s \in Ref : ~Carrier(s, m)'
    BY <1>1, <1>3, <1>4, <1>6 DEF One, Carrier
  <2>2. \A o \in Op : ~Brings(op'[o], m)
    BY <1>1, <1>6 DEF One
  <2> QED
    BY <2>1, <2>2 DEF Finished
<1>7. CASE ~Carrier(r, m)
  <2>1. PICK o \in Op : Hands(op[o], m) /\ op[o].ref = r
    BY <1>5, <1>7 DEF Carrier, Appends
  <2>2. Adding(op[o], m)
    BY <2>1, HandsAdd
  <2>3. CASE HasWant(op[o])
    <3>1. Brings(op[o], m)
      BY <2>2, <2>3, SourceIs
    <3>2. \A s \in Ref : ~Carrier(s, m)'
      BY <1>4, <3>1 DEF One
    <3>3. \A x \in Op : Brings(op'[x], m) => x = o
      BY <1>1, <3>1 DEF One
    <3> QED
      BY <1>1, <1>2, <2>1, <3>2, <3>3 DEF Finished
  <2>4. CASE ~HasWant(op[o])
    <3>1. PICK h \in Ref : h = Giver(op[o]) /\ Carrier(h, m)
      BY <2>2, <2>4, SourceIs
    <3>2. \A s \in Ref : Carrier(s, m)' => s = h
      BY <1>4, <3>1 DEF One
    <3>3. \A x \in Op : ~Brings(op'[x], m)
      BY <1>1, <3>1 DEF One
    <3>4. Gives(op'[o], h, m)
      BY <1>1, <2>1, <2>4, <3>1 DEF Gives
    <3> QED
      BY <1>1, <1>2, <2>1, <3>2, <3>3, <3>4 DEF Finished
  <2> QED
    BY <2>3, <2>4
<1> QED
  BY <1>6, <1>7

LEMMA TurnsOnce ==
    ASSUME Base, Settings, Few, ~SlowOps, Lives, NotDone, Aims, AgainFailed, NEW r, Turns(r), Mute,
           NEW m \in Msg, Once(m)
    PROVE  Once(m)'
<1>0. op' = op /\ hist'.again = hist.again
  BY DEF Turns, Mute
<1>1. \A s \in Ref : Carrier(s, m)' => Carrier(s, m)
  BY <1>0, TurnsHave DEF Carrier, Appends
<1>2. ASSUME NEW s \in Ref, After(s).st = "failed", s[2] \in hist.again[m] PROVE At(s).st = "failed"
  BY <1>2, TurnsHave, LiveNotAgain
<1>3. Torn(m)' <=> Torn(m)
  <2>1. ASSUME NEW x \in Op, Hands(op[x], m), op[x].ref[2] \in hist.again[m]
        PROVE  At(op[x].ref).st = "failed" <=> After(op[x].ref).st = "failed"
    <3>1. op[x].ref \in Ref
      BY <2>1, HandsAdd
    <3> QED
      BY <1>2, <2>1, <3>1, TurnsHave
  <2> QED
    BY <1>0, <2>1 DEF Torn, After, At
<1>4. Unbound(m) => Unbound(m)'
  <2> SUFFICES ASSUME Unbound(m), NEW x \in Op, Adding(op[x], m), op[x].pc # "recheck", After(op[x].ref).st = "failed"
               PROVE  op[x].ref[2] \notin hist.again[m]
    BY <1>0 DEF Unbound, After, At
  <2>1. op[x].ref \in Ref
    BY RefsAre DEF Adding
  <2> QED
    BY <1>2, <2>1 DEF Unbound
<1>5. One(m) => One(m)'
  BY <1>0, <1>1 DEF One
<1>6. One(m) /\ (m \in hist.fin => Finished(m)) /\ m \in hist'.fin => Finished(m)'
  <2>1. Finished(m) => Finished(m)'
    <3> SUFFICES ASSUME Finished(m) PROVE Finished(m)'
      OBVIOUS
    <3>1. ASSUME NEW x \in Op, Hands(op[x], m), Spent(op[x].ref) PROVE Spent(op[x].ref)'
      <4>1. PICK s \in Ref : s = op[x].ref
        BY <3>1, HandsAdd
      <4>2. Spent(s)'
        BY <3>1, <4>1, TurnsHave
      <4> QED
        BY <1>0, <4>1, <4>2 DEF Spent, At
    <3>2. ASSUME NEW s \in Ref, Carrier(s, m)'
          PROVE  \E x \in Op : Gives(op[x], s, m) /\ Spent(op[x].ref)'
      BY <1>1, <3>1, <3>2 DEF Finished, Gives
    <3>3. ASSUME NEW x \in Op, Brings(op[x], m)
          PROVE  Hands(op[x], m) /\ Spent(op[x].ref)'
      BY <3>1, <3>3 DEF Finished
    <3> QED
      BY <1>0, <3>2, <3>3 DEF Finished
  <2>2. One(m) /\ m \notin hist.fin /\ m \in hist'.fin => Finished(m)'
    BY TurnsFinish
  <2> QED
    BY <2>1, <2>2
<1>7. Heavy(m) => Heavy(m)'
  <2> SUFFICES ASSUME Heavy(m) PROVE Heavy(m)'
    OBVIOUS
  <2>1. ASSUME NEW s \in Ref, HasMsg(s, m)'
        PROVE  /\ After(s).data.att >= 1
               /\ After(s).st = "active" /\ m \in SeqSet(After(s).snap.msgs) => After(s).snap.att >= 1
    <3>1. HasMsg(s, m) /\ After(s).data = At(s).data
      BY <2>1, TurnsHave
    <3>2. After(s).st = "active" =>
            \/ At(s).st = "active" /\ After(s).snap = At(s).snap
            \/ After(s).snap = After(s).data
      BY TurnsHave
    <3> QED
      BY <3>1, <3>2 DEF Heavy
  <2>2. ASSUME NEW x \in Op, Brings(op'[x], m) PROVE op'[x].d.att >= 1
    BY <1>0, <2>2 DEF Heavy
  <2> QED
    BY <2>1, <2>2 DEF Heavy, After, At
<1>8. Torn(m) => \A s \in Ref : Carrier(s, m)' => \E x \in Op : Gives(op'[x], s, m)
  BY <1>0, <1>1 DEF Once
<1> QED
  BY <1>0, <1>3, <1>4, <1>5, <1>6, <1>7, <1>8 DEF Once
-----------------------------------------------------------------------------
LEMMA TurnsSides ==
    ASSUME Base, Settings, Few, ~SlowOps, NotDone, Aims, Sent, AgainFailed, NEW r, Turns(r), Mute
    PROVE  Aims' /\ Sent' /\ AgainFailed'
<1>0. op' = op /\ r \in Ref
  BY DEF Turns
<1>1. \A s \in Ref : After(s).data = At(s).data /\ (At(s).st = "failed" => After(s).st = "failed")
                     /\ (After(s).st = "none" <=> At(s).st = "none")
  BY TurnsHave
<1>2. hist'.fin \subseteq hist.sent
  <2>1. hist'.fin = hist.fin \/ (Has(At(r), "running") /\ hist'.fin = hist.fin \cup SeqSet(At(r).snap.msgs))
    BY DEF Turns, Rest3
  <2>2. Has(At(r), "running") => SeqSet(At(r).snap.msgs) \subseteq SeqSet(At(r).data.msgs) /\ At(r).st # "none"
    BY <1>0, BaseTyped DEF JobShapes, JobShape, Has
  <2> QED
    BY <1>0, <2>1, <2>2 DEF Sent
<1>3. Aims'
  BY <1>0 DEF Aims
<1>4. Sent'
  BY <1>0, <1>1, <1>2 DEF Sent, Mute, After, At
<1>5. AgainFailed'
  BY <1>1 DEF AgainFailed, Mute, After, At
<1> QED
  BY <1>3, <1>4, <1>5

\* Steps that leave jobs and operations alone.
LEMMA SteadyOnce ==
    ASSUME UNCHANGED <<job, op, turnDone>>, Mute, hist'.fin = hist.fin
    PROVE  /\ \A m : Once(m) => Once(m)'
           /\ Aims => Aims'
           /\ Sent => Sent'
           /\ AgainFailed => AgainFailed'
<1>1. \A r, m : /\ HasMsg(r, m)' <=> HasMsg(r, m)
                /\ Appends(r, m)' <=> Appends(r, m)
                /\ Spent(r)' <=> Spent(r)
  BY DEF HasMsg, Open, Failing, LiveAt, LeftBehind, At, Appends, Spent, Mute
<1>2. \A r, m : Carrier(r, m)' <=> Carrier(r, m)
  BY <1>1 DEF Carrier
<1>3. \A m : One(m)' <=> One(m)
  BY <1>2 DEF One
<1>4. \A m : Finished(m)' <=> Finished(m)
  <2>1. \A x \in Op : Spent(op[x].ref)' <=> Spent(op[x].ref)
    BY DEF Spent, At
  <2> QED
    BY <1>2, <2>1 DEF Finished
<1>5. \A m : (Heavy(m)' <=> Heavy(m)) /\ (Torn(m)' <=> Torn(m)) /\ (Unbound(m)' <=> Unbound(m))
  BY <1>1 DEF Heavy, Torn, Unbound, At, Mute
<1>6. \A m : Once(m) => Once(m)'
  BY <1>2, <1>3, <1>4, <1>5 DEF Once, Mute
<1> QED
  BY <1>6 DEF Aims, Sent, AgainFailed, At, Mute
-----------------------------------------------------------------------------
(***************************************************************************)
(* The starts of operations                                                *)
(***************************************************************************)
\* Jobs have their messages as before.
LEMMA BeginsHave ==
    ASSUME Base, NEW o \in Op, NEW n, BeginsFit(o, n), NEW s \in Ref
    PROVE  /\ After(s).st = At(s).st /\ After(s).data = At(s).data /\ After(s).snap = At(s).snap
           /\ Open(s)' => Open(s)
           /\ Spent(s) => Spent(s)'
           /\ After(s).ph = "mismatch" <=> At(s).ph = "mismatch"
<1>1. (LiveAt(s)' <=> LiveAt(s)) /\ turnDone' = turnDone
  BY BeginsLives DEF BeginsFit, Begins
<1>2. After(s).st = At(s).st /\ After(s).data = At(s).data
  BY DEF BeginsFit, Begins
<1>3. CASE After(s) = At(s)
  BY <1>1, <1>3 DEF Open, Spent, After, At
<1>4. CASE n.kind = "claimed" /\ s = n.src
  <2>1. /\ At(s).ph = "claimed" /\ After(s).ph = "moving" /\ After(s).snap = n.d /\ At(s).snap = n.d
        /\ n.id = s[2] /\ n.id \notin turnDone
    BY <1>4 DEF BeginsFit, Begins
  <2>2. Open(s)' => Open(s)
    BY <1>1, <2>1 DEF Open
  <2>3. Spent(s) => Spent(s)'
    BY <2>1 DEF Spent
  <2> QED
    BY <1>2, <2>1, <2>2, <2>3
<1> QED
  BY <1>3, <1>4 DEF BeginsFit, Begins

\* The slot that starts had no messages, and appends none yet.
LEMMA BeginsSlot ==
    ASSUME NEW o \in Op, NEW n, BeginsFit(o, n)
    PROVE  /\ op'[o] = n /\ \A x \in Op : x # o => op'[x] = op[x]
           /\ op[o].pc = "idle" /\ n.pc = "acquire"
           /\ \A m : ~Hands(op[o], m) /\ ~Hands(n, m) /\ ~Adding(op[o], m) /\ ~Adding(n, m)
<1>1. op'[o] = n /\ (\A x \in Op : x # o => op'[x] = op[x]) /\ op[o].pc = "idle" /\ n.pc = "acquire"
  BY DEF BeginsFit, Begins, OpBecomes
<1> QED
  BY <1>1 DEF Hands, Adding, Appending

\* A start that re-dispatches nothing, and has no new message m, keeps Once(m).
LEMMA BeginsOnce ==
    ASSUME Base, NEW o \in Op, NEW n, BeginsFit(o, n), NEW m, ~Brings(n, m),
           hist'.again[m] = hist.again[m], hist'.fin = hist.fin, Once(m)
    PROVE  Once(m)'
<1>1. \A s \in Ref : HasMsg(s, m)' => HasMsg(s, m)
  <2> TAKE s \in Ref
  <2>1. /\ After(s).st = At(s).st /\ After(s).data = At(s).data /\ (Open(s)' => Open(s))
        /\ (After(s).ph = "mismatch" <=> At(s).ph = "mismatch")
    BY BeginsHave
  <2>2. Failing(s, m)' => Failing(s, m)
    BY <2>1 DEF Failing, After, At
  <2> QED
    BY <2>1, <2>2 DEF HasMsg, After, At
<1>2. \A x \in Op : \A k : Hands(op'[x], k) <=> Hands(op[x], k) /\ op'[x] = op[x]
  BY BeginsSlot
<1>3. \A x \in Op : Brings(op'[x], m) => Brings(op[x], m) /\ op'[x] = op[x]
  BY BeginsSlot
<1>4. \A x \in Op : Adding(op'[x], m) => Adding(op[x], m) /\ op'[x] = op[x]
  BY BeginsSlot
<1>h. \A x \in Op : \A k : Hands(op[x], k) => op'[x] = op[x]
  BY BeginsSlot
<1>5. \A s \in Ref : Appends(s, m)' <=> Appends(s, m)
  BY <1>2, <1>h DEF Appends
<1>6. \A s \in Ref : Carrier(s, m)' => Carrier(s, m)
  BY <1>1, <1>5 DEF Carrier
<1>7. One(m) => One(m)'
  BY <1>3, <1>6 DEF One
<1>8. ASSUME NEW x \in Op, Hands(op[x], m)
      PROVE  /\ op'[x] = op[x]
             /\ Spent(op[x].ref) => Spent(op[x].ref)'
             /\ At(op[x].ref).st = "failed" <=> After(op[x].ref).st = "failed"
  <2>1. op'[x] = op[x]
    BY <1>8, <1>h
  <2>2. PICK s \in Ref : s = op[x].ref
    BY <1>8, HandsAdd
  <2>3. /\ Spent(s) => Spent(s)'
        /\ At(s).st = "failed" <=> After(s).st = "failed"
    BY BeginsHave
  <2> QED
    BY <2>1, <2>2, <2>3 DEF Spent, At
<1>9. Finished(m) => Finished(m)'
  <2> SUFFICES ASSUME Finished(m) PROVE Finished(m)'
    OBVIOUS
  <2>1. ASSUME NEW s \in Ref, Carrier(s, m)'
        PROVE  \E x \in Op : Gives(op'[x], s, m) /\ Spent(op[x].ref)'
    <3>1. PICK x \in Op : Gives(op[x], s, m) /\ Spent(op[x].ref)
      BY <1>6, <2>1 DEF Finished
    <3> QED
      BY <1>8, <3>1 DEF Gives
  <2>2. ASSUME NEW x \in Op, Brings(op'[x], m)
        PROVE  Hands(op'[x], m) /\ Spent(op[x].ref)'
    <3>1. Brings(op[x], m) /\ op'[x] = op[x]
      BY <1>3, <2>2
    <3>2. Hands(op[x], m) /\ Spent(op[x].ref)
      BY <3>1 DEF Finished
    <3> QED
      BY <1>8, <3>1, <3>2
  <2> QED
    BY <2>1, <2>2 DEF Finished
<1>10. Torn(m)' <=> Torn(m)
  <2>1. Torn(m)' <=> \E x \in Op : Hands(op'[x], m) /\ After(op'[x].ref).st = "failed" /\ op'[x].ref[2] \in hist'.again[m]
    BY DEF Torn, After, At
  <2> QED
    BY <1>2, <1>8, <2>1 DEF Torn
<1>11. Unbound(m) => Unbound(m)'
  <2> SUFFICES ASSUME Unbound(m), NEW x \in Op, Adding(op'[x], m), op'[x].pc # "recheck", After(op'[x].ref).st = "failed"
               PROVE  op'[x].ref[2] \notin hist'.again[m]
    BY DEF Unbound, After, At
  <2>1. Adding(op[x], m) /\ op'[x] = op[x]
    BY <1>4
  <2>2. op[x].ref \in Ref
    BY <2>1, RefsAre DEF Adding
  <2>3. At(op[x].ref).st = "failed"
    BY <2>1, <2>2, BeginsHave
  <2> QED
    BY <2>1, <2>3 DEF Unbound
<1>12. Heavy(m) => Heavy(m)'
  <2> SUFFICES ASSUME Heavy(m) PROVE Heavy(m)'
    OBVIOUS
  <2>1. ASSUME NEW s \in Ref, HasMsg(s, m)'
        PROVE  /\ After(s).data.att >= 1
               /\ After(s).st = "active" /\ m \in SeqSet(After(s).snap.msgs) => After(s).snap.att >= 1
    BY <1>1, <2>1, BeginsHave DEF Heavy
  <2>2. ASSUME NEW x \in Op, Brings(op'[x], m) PROVE op'[x].d.att >= 1
    BY <1>3, <2>2 DEF Heavy
  <2> QED
    BY <2>1, <2>2 DEF Heavy, After, At
<1>13. Torn(m) => \A s \in Ref : Carrier(s, m)' => \E x \in Op : Gives(op'[x], s, m)
  BY <1>6, <1>8 DEF Once, Gives
<1> QED
  BY <1>7, <1>9, <1>10, <1>11, <1>12, <1>13 DEF Once
-----------------------------------------------------------------------------
LEMMA BeginsSides ==
    ASSUME Base, Aims, Sent, AgainFailed, NEW o \in Op, NEW n, BeginsFit(o, n),
           hist'.fin = hist.fin, hist.sent \subseteq hist'.sent, SeqSet(n.d.msgs) \subseteq hist'.sent,
           \A m \in Msg : hist'.again[m] # {} => m \in hist'.sent,
           \A m \in Msg : \A i \in hist'.again[m] :
              i \in hist.again[m] \/ \E r \in Ref : r[2] = i /\ At(r).st = "failed"
    PROVE  Aims' /\ Sent' /\ AgainFailed'
<1>1. \A s \in Ref : After(s).st = At(s).st /\ After(s).data = At(s).data
  BY BeginsHave
<1>2. op'[o] = n /\ (\A x \in Op : x # o => op'[x] = op[x]) /\ n.pc = "acquire"
  BY BeginsSlot
<1>3. Aims'
  BY <1>2 DEF Aims, Appending
<1>4. \A s \in Ref : After(s).st # "none" => SeqSet(After(s).data.msgs) \subseteq hist'.sent
  BY <1>1 DEF Sent
<1>5. \A x \in Op : SeqSet(op'[x].d.msgs) \subseteq hist'.sent
  BY <1>2 DEF Sent
<1>6. Sent'
  BY <1>4, <1>5 DEF Sent, After, At
<1>7. ASSUME NEW m \in Msg, NEW i \in hist'.again[m] PROVE \E r \in Ref : r[2] = i /\ After(r).st = "failed"
  BY <1>1, <1>7 DEF AgainFailed
<1>8. AgainFailed'
  BY <1>7 DEF AgainFailed, After, At
<1> QED
  BY <1>3, <1>6, <1>8

\* An enqueue brings a message that nothing carries.
LEMMA StartEnqueueOnce ==
    ASSUME Base, Settings, Aims, Sent, AgainFailed, NEW o \in Op, NEW k \in Msg, NEW q \in Queue, StartEnqueue(o, k, q)
    PROVE  /\ \A m \in Msg : Once(m) => Once(m)'
           /\ Aims' /\ Sent' /\ AgainFailed' /\ hist'.raced = hist.raced
<1>n. PICK n : n = Enqueues(k, q)
  OBVIOUS
<1>0. BeginsFit(o, n) /\ hist'.fin = hist.fin
  BY <1>n, StartEnqueueFit DEF BeginsFit
<1>1. /\ k \notin hist.sent /\ hist'.sent = hist.sent \cup {k} /\ hist'.again = hist.again /\ hist'.raced = hist.raced
  <2>1. k \notin hist.sent /\ hist' = [hist EXCEPT !.sent = @ \cup {k}] /\ hist \in History
    BY BaseTyped, StartEnqueueDoes DEF Typed
  <2> QED
    BY <2>1 DEF History
<1>2. SeqSet(n.d.msgs) = {k} /\ n.kind = "enqueue"
  <2>1. n.d.msgs = <<k>> /\ n.kind = "enqueue"
    BY <1>n DEF Enqueues, IdleOp, NoData
  <2> QED
    BY <2>1 DEF SeqSet
<1>3. ASSUME NEW m \in Msg, m # k, Once(m) PROVE Once(m)'
  <2>1. ~Brings(n, m)
    BY <1>2, <1>3 DEF Brings
  <2> QED
    BY <1>0, <1>1, <1>3, <2>1, BeginsOnce
<1>4. Once(k)'
  <2>1. hist'.again[k] = {} /\ k \notin hist'.fin
    BY <1>0, <1>1 DEF Sent
  <2>2. \A s \in Ref : ~Carrier(s, k)'
    <3> TAKE s \in Ref
    <3>1. After(s).st # "none" => k \notin SeqSet(After(s).data.msgs)
      BY <1>0, <1>1, BeginsHave DEF Sent
    <3>2. LiveAt(s)' \/ After(s).st = "failed" => After(s).st # "none"
      BY DEF LiveAt, Runs, Pending, After, At
    <3> QED
      BY <3>1, <3>2 DEF Carrier, HasMsg, Open, Failing, After, At
  <2>3. \A x \in Op : Brings(op'[x], k) => x = o
    BY <1>0, <1>1, BeginsSlot DEF Brings, Sent
  <2>4. One(k)'
    BY <2>2, <2>3 DEF One
  <2>5. ~Torn(k)' /\ Unbound(k)'
    BY <2>1 DEF Torn, Unbound
  <2> QED
    BY <2>1, <2>4, <2>5 DEF Once
<1>5. Aims' /\ Sent' /\ AgainFailed'
  <2>1. SeqSet(n.d.msgs) \subseteq hist'.sent
    BY <1>1, <1>2
  <2>2. \A m \in Msg : hist'.again[m] # {} => m \in hist'.sent
    BY <1>1 DEF Sent
  <2> QED
    BY <1>0, <1>1, <2>1, <2>2, BeginsSides
<1> QED
  BY <1>1, <1>3, <1>4, <1>5
-----------------------------------------------------------------------------
(***************************************************************************)
(* A re-dispatch of the failed job at r, whose messages the record n has   *)
(***************************************************************************)
RedispatchesAs(o, r, n) ==
    /\ BeginsFit(o, n) /\ r \in Ref /\ Redispatchable(At(r)) /\ job' = job
    /\ n.kind = "redispatch" /\ SeqSet(n.d.msgs) = SeqSet(At(r).data.msgs) /\ n.d.att = At(r).data.att + 1
    /\ hist'.fin = hist.fin /\ hist'.sent = hist.sent /\ hist'.raced = hist.raced
    /\ \A m \in Msg :
          hist'.again[m] = IF m \in SeqSet(At(r).data.msgs) THEN hist.again[m] \cup {r[2]} ELSE hist.again[m]

LEMMA StartRedispatchAs ==
    ASSUME Base, Settings, NEW o \in Op, NEW m \in Msg, StartRedispatch(o, m)
    PROVE  \E r, n : RedispatchesAs(o, r, n)
<1>r. PICK r : r = watch[m]
  OBVIOUS
<1>n. PICK n : n = Redispatches(r)
  OBVIOUS
<1>0. BeginsFit(o, n) /\ hist'.fin = hist.fin
  BY <1>n, <1>r, StartRedispatchFit DEF BeginsFit
<1>1. /\ r \in Ref /\ Redispatchable(At(r)) /\ hist \in History /\ job' = job
      /\ hist' = [hist EXCEPT !.again =
                     [k \in Msg |-> IF k \in SeqSet(At(r).data.msgs) THEN @[k] \cup {r[2]} ELSE @[k]]]
  BY <1>r, BaseTyped, StartRedispatchDoes DEF Typed
<1>2. At(r).data \in Data
  BY <1>1, BaseTyped, PlaceIs
<1>3. n.kind = "redispatch" /\ n.d.msgs = At(r).data.msgs /\ n.d.att = At(r).data.att + 1
  <2>1. n.kind = "redispatch" /\ n.d = [At(r).data EXCEPT !.label = runsOn, !.tok = nextId, !.att = @ + 1]
    BY <1>n DEF Redispatches, IdleOp
  <2> QED
    BY <1>2, <2>1 DEF Data
<1>4. hist'.sent = hist.sent /\ hist'.raced = hist.raced
  BY <1>1 DEF History
<1>5. \A k \in Msg :
         hist'.again[k] = IF k \in SeqSet(At(r).data.msgs) THEN hist.again[k] \cup {r[2]} ELSE hist.again[k]
  BY <1>1 DEF History
<1>6. SeqSet(n.d.msgs) = SeqSet(At(r).data.msgs)
  BY <1>3
<1>7. RedispatchesAs(o, r, n)
  BY <1>0, <1>1, <1>3, <1>4, <1>5, <1>6 DEF RedispatchesAs
<1> QED
  BY <1>7
-----------------------------------------------------------------------------
\* One operation appends at a time.
LEMMA AddingAlone ==
    ASSUME Base, ~SlowOps, NEW x \in Op, NEW y \in Op, NEW m, NEW k, Adding(op[x], m), Adding(op[y], k)
    PROVE  x = y
<1>1. op[x].pc \notin Free /\ op[y].pc \notin Free
  BY DEF Adding, Appending, Free
<1> QED
  BY <1>1, HolderAlone

\* A job that failed gives nothing to an append.
LEMMA FailedGivesNot ==
    ASSUME Base, ~SlowOps, NotDone, Aims, NEW x \in Op, NEW m, Adding(op[x], m), ~HasWant(op[x]),
           NEW r, At(r).st = "failed"
    PROVE  r # Giver(op[x])
<1>1. PICK h \in Ref : h = Giver(op[x]) /\ At(h).st \in {"held", "active"}
  BY SourceIs
<1> QED
  BY <1>1

\* What a re-dispatch leaves of what carries a message.
LEMMA RedispatchHas ==
    ASSUME Base, NEW o \in Op, NEW r, NEW n, RedispatchesAs(o, r, n), NEW m \in Msg
    PROVE  /\ \A s \in Ref : After(s) = At(s)
           /\ \A s \in Ref : HasMsg(s, m)' => HasMsg(s, m) /\ (m \in SeqSet(At(r).data.msgs) => s # r)
           /\ \A s \in Ref : Carrier(s, m)' => Carrier(s, m) /\ (m \in SeqSet(At(r).data.msgs) => s # r)
           /\ \A x \in Op : Hands(op[x], m) => op'[x] = op[x]
           /\ \A x \in Op : Hands(op'[x], m) => op'[x] = op[x]
           /\ \A x \in Op : Adding(op'[x], m) => op'[x] = op[x]
           /\ \A x \in Op : x # o => op'[x] = op[x]
           /\ Brings(op'[o], m) => op'[o].d.att >= 1
           /\ Brings(op'[o], m) => m \in SeqSet(At(r).data.msgs)
           /\ ~Brings(op[o], m)
<1>0. /\ BeginsFit(o, n) /\ r \in Ref /\ Redispatchable(At(r)) /\ job' = job
      /\ SeqSet(n.d.msgs) = SeqSet(At(r).data.msgs) /\ n.d.att = At(r).data.att + 1
      /\ hist'.again[m] = IF m \in SeqSet(At(r).data.msgs) THEN hist.again[m] \cup {r[2]} ELSE hist.again[m]
  BY DEF RedispatchesAs
<1>1. \A s \in Ref : After(s) = At(s) /\ (Open(s)' => Open(s))
  BY <1>0, BeginsHave DEF After, At
<1>2. \A s \in Ref : Failing(s, m)' => Failing(s, m) /\ (m \in SeqSet(At(r).data.msgs) => s # r)
  BY <1>0, <1>1 DEF Failing, After, At
<1>3. ~LiveAt(r)
  BY <1>0 DEF Redispatchable, LiveAt, Runs, Pending
<1>4. \A s \in Ref : HasMsg(s, m)' => HasMsg(s, m) /\ (m \in SeqSet(At(r).data.msgs) => s # r)
  BY <1>0, <1>1, <1>2, <1>3 DEF HasMsg, Open, After, At
<1>5. /\ op'[o] = n /\ (\A x \in Op : x # o => op'[x] = op[x]) /\ op[o].pc = "idle"
      /\ ~Hands(op[o], m) /\ ~Hands(n, m) /\ ~Adding(n, m)
  BY <1>0, BeginsSlot
<1>6. \A s \in Ref : Appends(s, m)' <=> Appends(s, m)
  <2> TAKE s \in Ref
  <2>1. Appends(s, m)' <=> \E x \in Op : Hands(op'[x], m) /\ op'[x].ref = s
    BY DEF Appends
  <2> QED
    BY <1>5, <2>1 DEF Appends
<1>7. \A s \in Ref : Carrier(s, m)' => Carrier(s, m) /\ (m \in SeqSet(At(r).data.msgs) => s # r)
  BY <1>4, <1>6 DEF Carrier
<1>8. n.d.att >= 1
  <2>1. At(r).data.att \in 0..2
    BY <1>0, BaseTyped, PlaceIs DEF Data
  <2> QED
    BY <1>0, <2>1
<1>9. ~Brings(op[o], m)
  <2>1. Shape(op[o])
    BY BaseIs
  <2> QED
    BY <1>5, <2>1 DEF Shape, KindPc, OpenPcs, CopyPcs, Brings, HasWant
<1>10. Brings(op'[o], m) => m \in SeqSet(At(r).data.msgs)
  BY <1>0, <1>5 DEF Brings
<1> QED
  BY <1>1, <1>4, <1>5, <1>7, <1>8, <1>9, <1>10

\* The re-dispatched message counts it from now on, or is torn.
LEMMA RedispatchFirst ==
    ASSUME Base, ~SlowOps, NotDone, Aims, NEW o \in Op, NEW r, NEW n, RedispatchesAs(o, r, n),
           NEW m \in Msg, m \in SeqSet(At(r).data.msgs), hist.again[m] = {}, One(m)
    PROVE  Once(m)'
<1>0. r \in Ref /\ At(r).st = "failed" /\ At(r).ph = "mismatch" /\ hist'.again[m] = {r[2]}
  BY DEF RedispatchesAs, Redispatchable
<1>1. HasMsg(r, m)
  BY <1>0 DEF HasMsg, Failing
<1>2. CASE Appends(r, m)
  <2>1. PICK x \in Op : Hands(op[x], m) /\ op[x].ref = r
    BY <1>2 DEF Appends
  <2>2. Adding(op[x], m) /\ op'[x] = op[x]
    BY <2>1, HandsAdd, RedispatchHas
  <2>3. Torn(m)'
    <3>1. Hands(op'[x], m) /\ After(op'[x].ref).st = "failed" /\ op'[x].ref[2] \in hist'.again[m]
      BY <1>0, <2>1, <2>2, RedispatchHas
    <3> QED
      BY <3>1 DEF Torn, After, At
  <2>4. ASSUME NEW s \in Ref, Carrier(s, m)' PROVE Gives(op'[x], s, m)
    <3>1. Carrier(s, m)
      BY <2>4, RedispatchHas
    <3>2. ~HasWant(op[x])
      BY <2>2, <3>1, SourceIs DEF One
    <3>3. PICK h \in Ref : h = Giver(op[x]) /\ Carrier(h, m)
      BY <2>2, <3>2, SourceIs
    <3>4. s = h
      BY <3>1, <3>3 DEF One
    <3> QED
      BY <2>1, <2>2, <3>2, <3>3, <3>4 DEF Gives
  <2>5. Unbound(m)'
    <3> SUFFICES ASSUME NEW y \in Op, Adding(op'[y], m), op'[y].pc # "recheck" PROVE FALSE
      BY DEF Unbound
    <3>1. op'[y] = op[y]
      BY RedispatchHas
    <3>2. y = x
      BY <2>2, <3>1, AddingAlone
    <3> QED
      BY <2>1, <3>1, <3>2 DEF Hands
  <2> QED
    BY <1>0, <2>3, <2>4, <2>5 DEF Once
<1>3. CASE ~Appends(r, m)
  <2>1. Carrier(r, m)
    BY <1>1, <1>3 DEF Carrier
  <2>2. ASSUME NEW x \in Op, Adding(op[x], m) PROVE FALSE
    <3>1. CASE HasWant(op[x])
      <4>1. Brings(op[x], m)
        BY <2>2, <3>1, SourceIs
      <4> QED
        BY <1>0, <2>1, <4>1 DEF One
    <3>2. CASE ~HasWant(op[x])
      <4>1. PICK h \in Ref : h = Giver(op[x]) /\ Carrier(h, m)
        BY <2>2, <3>2, SourceIs
      <4>2. h = r
        BY <1>0, <2>1, <4>1 DEF One
      <4> QED
        BY <1>0, <2>2, <3>2, <4>1, <4>2, FailedGivesNot
    <3> QED
      BY <3>1, <3>2
  <2>3. \A x \in Op : ~Hands(op[x], m)
    BY <2>2, HandsAdd
  <2>4. ~Torn(m)' /\ Unbound(m)'
    <3>1. \A x \in Op : ~Adding(op'[x], m) /\ ~Hands(op'[x], m)
      BY <2>2, <2>3, RedispatchHas
    <3> QED
      BY <3>1 DEF Torn, Unbound
  <2>5. \A s \in Ref : ~HasMsg(s, m)'
    <3> SUFFICES ASSUME NEW s \in Ref, HasMsg(s, m)' PROVE FALSE
      OBVIOUS
    <3>1. HasMsg(s, m) /\ s # r
      BY RedispatchHas
    <3>2. ~Appends(s, m)
      BY <2>3 DEF Appends
    <3> QED
      BY <1>0, <2>1, <3>1, <3>2 DEF Carrier, One
  <2>6. ASSUME NEW x \in Op, Brings(op'[x], m) PROVE op'[x].d.att >= 1
    <3>1. CASE x = o
      BY <2>6, <3>1, RedispatchHas
    <3>2. CASE x # o
      <4>1. Brings(op[x], m)
        BY <2>6, <3>2, RedispatchHas
      <4> QED
        BY <1>0, <2>1, <4>1 DEF One
    <3> QED
      BY <3>1, <3>2
  <2>7. Heavy(m)'
    BY <2>5, <2>6 DEF Heavy
  <2> QED
    BY <1>0, <2>4, <2>7 DEF Once
<1> QED
  BY <1>2, <1>3

\* It is not re-dispatched from another job.
LEMMA RedispatchAgain ==
    ASSUME Base, ~SlowOps, NotDone, Aims, NEW o \in Op, NEW r, NEW n, RedispatchesAs(o, r, n),
           NEW m \in Msg, m \in SeqSet(At(r).data.msgs), hist.again[m] # {}, Once(m)
    PROVE  r[2] \in hist.again[m]
<1> SUFFICES ASSUME r[2] \notin hist.again[m] PROVE FALSE
  OBVIOUS
<1>0. r \in Ref /\ At(r).st = "failed" /\ At(r).ph = "mismatch" /\ At(r).data.att < 1 /\ At(r).data.att \in 0..2
  <2>1. r \in Ref /\ Redispatchable(At(r))
    BY DEF RedispatchesAs
  <2>2. At(r).data.att \in 0..2
    BY <2>1, BaseTyped, PlaceIs DEF Data
  <2> QED
    BY <2>1, <2>2 DEF Redispatchable
<1>1. HasMsg(r, m)
  BY <1>0 DEF HasMsg, Failing
<1>2. CASE ~Torn(m)
  <2>1. At(r).data.att >= 1
    BY <1>0, <1>1, <1>2 DEF Once, Heavy
  <2> QED
    BY <1>0, <2>1
<1>3. CASE Torn(m)
  <2>1. PICK x \in Op : Hands(op[x], m) /\ op[x].ref[2] \in hist.again[m]
    BY <1>3 DEF Torn
  <2>2. Adding(op[x], m)
    BY <2>1, HandsAdd
  <2>3. CASE Carrier(r, m)
    <3>1. PICK y \in Op : Gives(op[y], r, m)
      BY <1>0, <1>3, <2>3 DEF Once
    <3>2. Adding(op[y], m) /\ ~HasWant(op[y]) /\ r = Giver(op[y])
      BY <3>1, HandsAdd DEF Gives
    <3> QED
      BY <1>0, <3>2, FailedGivesNot
  <2>4. CASE ~Carrier(r, m)
    <3>1. PICK y \in Op : Hands(op[y], m) /\ op[y].ref = r
      BY <1>1, <2>4 DEF Carrier, Appends
    <3>2. y = x
      BY <2>2, <3>1, HandsAdd, AddingAlone
    <3> QED
      BY <2>1, <3>1, <3>2
  <2> QED
    BY <2>3, <2>4
<1> QED
  BY <1>2, <1>3

LEMMA RedispatchOnce ==
    ASSUME Base, ~SlowOps, NotDone, Aims, NEW o \in Op, NEW r, NEW n, RedispatchesAs(o, r, n),
           NEW m \in Msg, Once(m)
    PROVE  Once(m)'
<1>0. BeginsFit(o, n) /\ SeqSet(n.d.msgs) = SeqSet(At(r).data.msgs) /\ hist'.fin = hist.fin
      /\ hist'.again[m] = IF m \in SeqSet(At(r).data.msgs) THEN hist.again[m] \cup {r[2]} ELSE hist.again[m]
  BY DEF RedispatchesAs
<1>1. CASE m \notin SeqSet(At(r).data.msgs)
  BY <1>0, <1>1, BeginsOnce DEF Brings
<1>2. CASE m \in SeqSet(At(r).data.msgs) /\ hist.again[m] = {}
  BY <1>2, RedispatchFirst DEF Once
<1>3. CASE m \in SeqSet(At(r).data.msgs) /\ hist.again[m] # {}
  <2>1. hist'.again[m] = hist.again[m]
    BY <1>0, <1>3, RedispatchAgain
  <2>2. \A s \in Ref : After(s) = At(s)
    BY RedispatchHas
  <2>3. Torn(m)' <=> Torn(m)
    <3>1. Torn(m)' <=> \E x \in Op : Hands(op'[x], m) /\ After(op'[x].ref).st = "failed" /\ op'[x].ref[2] \in hist'.again[m]
      BY DEF Torn, After, At
    <3>2. ASSUME NEW x \in Op, Hands(op[x], m) PROVE After(op[x].ref) = At(op[x].ref)
      BY <2>2, <3>2, HandsAdd
    <3> QED
      BY <2>1, <3>1, <3>2, RedispatchHas DEF Torn
  <2>4. Unbound(m)'
    <3> SUFFICES ASSUME NEW x \in Op, Adding(op'[x], m), op'[x].pc # "recheck", After(op'[x].ref).st = "failed"
                 PROVE  op'[x].ref[2] \notin hist'.again[m]
      BY DEF Unbound, After, At
    <3>1. op'[x] = op[x]
      BY RedispatchHas
    <3>2. op[x].ref \in Ref
      BY <3>1, RefsAre DEF Adding
    <3>3. At(op[x].ref).st = "failed"
      BY <2>2, <3>1, <3>2
    <3> QED
      BY <2>1, <3>1, <3>3 DEF Once, Unbound
  <2>5. Heavy(m) => Heavy(m)'
    <3> SUFFICES ASSUME Heavy(m) PROVE Heavy(m)'
      OBVIOUS
    <3>1. ASSUME NEW s \in Ref, HasMsg(s, m)'
          PROVE  /\ After(s).data.att >= 1
                 /\ After(s).st = "active" /\ m \in SeqSet(After(s).snap.msgs) => After(s).snap.att >= 1
      BY <2>2, <3>1, RedispatchHas DEF Heavy
    <3>2. ASSUME NEW x \in Op, Brings(op'[x], m) PROVE op'[x].d.att >= 1
      BY <3>2, RedispatchHas DEF Heavy
    <3> QED
      BY <3>1, <3>2 DEF Heavy, After, At
  <2>6. Torn(m) => \A s \in Ref : Carrier(s, m)' => \E x \in Op : Gives(op'[x], s, m)
    BY RedispatchHas DEF Once, Gives
  <2> QED
    BY <1>3, <2>1, <2>3, <2>4, <2>5, <2>6 DEF Once
<1> QED
  BY <1>1, <1>2, <1>3
-----------------------------------------------------------------------------
(***************************************************************************)
(* The steps that neither send nor re-dispatch a message, and a crash      *)
(***************************************************************************)
LEMMA MuteIs ==
    ASSUME hist \in History
    PROVE  /\ hist' = hist => Mute
           /\ \A S : hist' = [hist EXCEPT !.fin = @ \cup S] => Mute
           /\ \A f : hist' = [hist EXCEPT !.ran = f] => Mute
           /\ \A S : hist' = [hist EXCEPT !.misled = S] => Mute /\ hist'.fin = hist.fin
BY DEF History, Mute
LEMMA WorkMute ==
    ASSUME Base, NEW q \in Queue, NEW i \in Id,
           \/ SkipDone(q, i) \/ BeginTurn(q, i) \/ Requeue(q, i) \/ FailAtClaim(q, i)
           \/ \E denied \in BOOLEAN : EndTurn(q, i, denied)
           \/ Ack(q, i) \/ FailDenied(q, i) \/ CompleteMoved(q, i)
           \/ Timer(q, i) \/ \E n \in Node : Claim(n, q, i)
    PROVE  Mute /\ budget' = budget
<1>0. Typed /\ hist \in History
  BY BaseTyped DEF Typed
<1>1. CASE BeginTurn(q, i)
  <2>1. \E f : hist' = [hist EXCEPT !.ran = f]
    BY <1>1 DEF BeginTurn
  <2>2. budget' = budget
    BY <1>1 DEF BeginTurn, world
  <2> QED
    BY <1>0, <2>1, <2>2, MuteIs
<1>2. CASE \E denied \in BOOLEAN : EndTurn(q, i, denied)
  <2>1. hist' = hist \/ \E S : hist' = [hist EXCEPT !.fin = @ \cup S]
    BY <1>2 DEF EndTurn
  <2>2. budget' = budget
    BY <1>2 DEF EndTurn, world
  <2> QED
    BY <1>0, <2>1, <2>2, MuteIs
<1>3. CASE SkipDone(q, i) \/ Requeue(q, i) \/ FailAtClaim(q, i) \/ Ack(q, i) \/ FailDenied(q, i) \/ CompleteMoved(q, i)
  <2>1. hist' = hist /\ budget' = budget
    BY <1>3 DEF SkipDone, Requeue, FailAtClaim, Ack, FailDenied, CompleteMoved, world
  <2> QED
    BY <1>0, <2>1, MuteIs
<1>4. CASE Timer(q, i) \/ \E n \in Node : Claim(n, q, i)
  <2>1. hist' = hist /\ budget' = budget
    BY <1>4 DEF Timer, RetryDue, HoldLapse, LockExpire, Stall, Claim, world
  <2> QED
    BY <1>0, <2>1, MuteIs
<1> QED
  BY <1>1, <1>2, <1>3, <1>4

LEMMA OpStepBudget == ASSUME NEW o \in Op, OpStep(o) PROVE budget' = budget
<1>1. CASE Acquire(o) \/ Look(o) \/ RecordSenders(o) \/ UpdateData(o) \/ Recheck(o) \/ Index(o) \/ Add(o)
  BY <1>1 DEF Acquire, Look, RecordSenders, UpdateData, Recheck, Index, Add, world
<1>2. CASE MarkSource(o) \/ CheckMoved(o) \/ CheckClaimed(o) \/ CheckMerge(o) \/ CheckSwap(o) \/ AddCopy(o) \/ MarkCopy(o)
  BY <1>2 DEF MarkSource, CheckMoved, CheckClaimed, CheckMerge, CheckSwap, AddCopy, MarkCopy, world
<1>3. CASE Take(o) \/ DropCopy(o) \/ Unmark(o) \/ Promote(o) \/ Reindex(o) \/ TakeHold(o) \/ MarkHold(o) \/ Release(o) \/ MarkFailed(o)
  BY <1>3 DEF Take, DropCopy, Unmark, Promote, Reindex, TakeHold, MarkHold, Release, MarkFailed, world
<1> QED
  BY <1>1, <1>2, <1>3 DEF OpStep

LEMMA StillMute ==
    ASSUME Base,
           \/ AppendLockLapse \/ IndexLapse \/ \E i \in Id : GuardLapse(i)
           \/ \E n \in Node : Silence(n) \/ Resume(n)
           \/ \E l \in Label : Relabel(l)
           \/ \E m \in Msg : Follow(m)
           \/ UNCHANGED vars
    PROVE  Still /\ Mute /\ budget'.crashes = budget.crashes
<1>0. Typed /\ hist \in History /\ budget \in Budget
  BY BaseTyped DEF Typed
<1>1. CASE \E m \in Msg : FollowMove(m)
  <2>1. hist' = hist \/ \E S : hist' = [hist EXCEPT !.misled = S]
    BY <1>1 DEF FollowMove
  <2>2. budget' = budget
    BY <1>1 DEF FollowMove, world
  <2> QED
    BY <1>0, <1>1, <2>1, <2>2, MuteIs, StillIs DEF Follow
<1>2. CASE AppendLockLapse \/ (\E i \in Id : GuardLapse(i)) \/ (\E n \in Node : Resume(n)) \/ (\E m \in Msg : Close(m)) \/ UNCHANGED vars
  <2>1. hist' = hist /\ budget' = budget
    BY <1>2 DEF AppendLockLapse, GuardLapse, Resume, Close, vars, world
  <2> QED
    BY <1>0, <1>2, <2>1, MuteIs, StillIs DEF Follow
<1>3. CASE IndexLapse \/ (\E n \in Node : Silence(n)) \/ \E l \in Label : Relabel(l)
  <2>1. hist' = hist
    BY <1>3 DEF IndexLapse, Silence, Relabel
  <2>2. \E b : budget' = [budget EXCEPT !.lapses = b] \/ budget' = [budget EXCEPT !.silences = b] \/ budget' = [budget EXCEPT !.relabels = b]
    BY <1>3 DEF IndexLapse, Silence, Relabel
  <2>3. budget'.crashes = budget.crashes
    BY <1>0, <2>2 DEF Budget
  <2> QED
    BY <1>0, <1>3, <2>1, <2>3, MuteIs, StillIs
<1> QED
  BY <1>1, <1>2, <1>3 DEF Follow

\* A start of another operation.
BeginsMute(o, n) ==
    /\ BeginsFit(o, n) /\ hist' = hist /\ ~HasWant(n)
    /\ n.d = NoData \/ (n.src \in Ref /\ SeqSet(n.d.msgs) \subseteq SeqSet(At(n.src).data.msgs) /\ At(n.src).st = "active")
LEMMA BeginsMuteIs ==
    ASSUME Base, Settings, NEW o \in Op,
           \/ \E w \in Warm, i \in Id : StartReap(o, w, i)
           \/ \E q \in Queue, i \in Id : StartClaimedMove(o, q, i)
    PROVE  \E n : BeginsMute(o, n)
<1>1. ASSUME NEW w \in Warm, NEW i \in Id, StartReap(o, w, i) PROVE BeginsMute(o, Reaps(<<w, i>>))
  <2>1. BeginsFit(o, Reaps(<<w, i>>)) /\ hist' = hist
    BY <1>1, BaseTyped, StartReapDoes, StartReapFit
  <2>2. Reaps(<<w, i>>).d = NoData /\ Reaps(<<w, i>>).kind = "reap"
    BY DEF Reaps, IdleOp
  <2> QED
    BY <2>1, <2>2 DEF BeginsMute, HasWant
<1>2. ASSUME NEW q \in Queue, NEW i \in Id, StartClaimedMove(o, q, i) PROVE BeginsMute(o, MovesClaimed(<<q, i>>))
  <2> DEFINE n == MovesClaimed(<<q, i>>)
  <2>1. BeginsFit(o, n) /\ hist' = hist
    BY <1>2, BaseTyped, StartClaimedMoveDoes, StartClaimedMoveFit
  <2>2. n.kind = "claimed" /\ n.src = <<q, i>> /\ <<q, i>> \in Ref
    BY PairIs DEF MovesClaimed, IdleOp
  <2> HIDE DEF n
  <2>3. At(n.src).st = "active" /\ At(n.src).snap = n.d /\ n.src \in Ref
    BY <2>1, <2>2 DEF BeginsFit
  <2>4. JobShape(At(n.src), n.src[1])
    BY <2>3, BaseTyped DEF JobShapes
  <2>5. SeqSet(n.d.msgs) \subseteq SeqSet(At(n.src).data.msgs)
    BY <2>3, <2>4 DEF JobShape
  <2>6. BeginsMute(o, n)
    BY <2>1, <2>2, <2>3, <2>5 DEF BeginsMute, HasWant
  <2> QED
    BY <2>6 DEF n
<1> QED
  BY <1>1, <1>2

\* The kinds of steps, as a message's re-dispatches tell them apart.
LEMMA StepIs ==
    ASSUME Base, Settings, Few, [Next]_vars
    PROVE  \/ \E o \in Op : Crashes(o) /\ Crashed'
           \/ /\ budget'.crashes = budget.crashes
              /\ \/ \E o \in Op : OpStep(o)
                 \/ \E r : Turns(r) /\ Mute
                 \/ \E o \in Op : \E m \in Msg, q \in Queue : StartEnqueue(o, m, q)
                 \/ \E o \in Op : \E m \in Msg : StartRedispatch(o, m)
                 \/ \E o \in Op : \E n : BeginsMute(o, n)
                 \/ \E n \in Node : Dies(n)
                 \/ Still /\ Mute
<1>0. Typed /\ budget \in Budget
  BY BaseTyped DEF Typed
<1>1. CASE \E o \in Op : OpStep(o)
  BY <1>1, OpStepBudget
<1>2. CASE \E o \in Op : Start(o)
  <2>1. PICK o \in Op : Start(o)
    BY <1>2
  <2>2. CASE \E m \in Msg, q \in Queue : StartEnqueue(o, m, q)
    BY <1>0, <2>2, StartEnqueueDoes
  <2>3. CASE \E m \in Msg : StartRedispatch(o, m)
    BY <1>0, <2>3, StartRedispatchDoes
  <2>4. CASE \E n \in Warm, i \in Id : StartReap(o, n, i)
    BY <1>0, <2>4, StartReapDoes, BeginsMuteIs
  <2> QED
    BY <2>1, <2>2, <2>3, <2>4 DEF Start
<1>3. ASSUME NEW q \in Queue, NEW i \in Id, Process(q, i) \/ Timer(q, i) \/ \E n \in Node : Claim(n, q, i)
      PROVE  /\ budget' = budget
             /\ (Turns(<<q, i>>) /\ Mute) \/ \E o \in Op : \E n : BeginsMute(o, n)
  <2>1. CASE \E o \in Op : StartClaimedMove(o, q, i)
    BY <1>0, <2>1, StartClaimedMoveDoes, BeginsMuteIs
  <2>2. CASE ~\E o \in Op : StartClaimedMove(o, q, i)
    BY <1>3, <2>2, WorkTurns, WorkMute DEF Process
  <2> QED
    BY <2>1, <2>2
<1>4. CASE \E o \in Op : OpCrash(o)
  <2>1. PICK o \in Op : OpCrash(o)
    BY <1>4
  <2>2. Crashes(o)
    BY <2>1, CrashesIs
  <2>3. budget'.crashes = budget.crashes - 1
    BY <1>0, <2>1, OpCrashDoes DEF Budget
  <2>4. budget.crashes \in 0..MaxCrashes /\ MaxCrashes \in Nat
    BY <1>0, TurnQueueAssumption DEF Budget
  <2>5. Crashed'
    BY <2>3, <2>4 DEF Crashed
  <2> QED
    BY <2>2, <2>5
<1>5. CASE \E n \in Node : NodeCrash(n)
  BY <1>0, <1>5, DiesIs, NodeCrashDoes
<1>6. CASE \/ AppendLockLapse \/ IndexLapse \/ \E i \in Id : GuardLapse(i)
           \/ \E n \in Node : Silence(n) \/ Resume(n)
           \/ \E l \in Label : Relabel(l)
           \/ \E m \in Msg : Follow(m)
           \/ UNCHANGED vars
  BY <1>6, StillMute
<1> QED
  BY <1>1, <1>2, <1>3, <1>4, <1>5, <1>6 DEF Next, Fault
-----------------------------------------------------------------------------
Onces == Crashed \/ (Aims /\ Sent /\ AgainFailed /\ \A m \in Msg \ hist.raced : Once(m))
LEMMA OncesInit == ASSUME Init PROVE Onces
<1>1. \A r \in Ref : At(r) = NoJob
  BY RefIs DEF Init, At
<1>2. NoJob.st = "none" /\ NoJob.ph = "none" /\ IdleOp.kind = "none" /\ IdleOp.pc = "idle"
      /\ SeqSet(IdleOp.d.msgs) = {} /\ ~HasWant(IdleOp)
  BY DEF NoJob, IdleOp, NoData, HasWant, SeqSet
<1>3. \A o \in Op : op[o] = IdleOp
  BY DEF Init
<1>4. hist.fin = {} /\ \A m \in Msg : hist.again[m] = {}
  BY DEF Init
<1>5. \A r \in Ref : \A m : ~HasMsg(r, m)
  BY <1>1, <1>2 DEF HasMsg, Open, Failing, LiveAt, Runs, Pending
<1>6. \A o \in Op : \A m : ~Hands(op[o], m) /\ ~Adding(op[o], m) /\ ~Brings(op[o], m)
  BY <1>2, <1>3 DEF Hands, Adding, Appending, Brings
<1>7. \A m \in Msg : Once(m)
  BY <1>4, <1>5, <1>6 DEF Once, One, Carrier, Torn, Unbound
<1>8. Aims
  BY <1>2, <1>3 DEF Aims
<1> QED
  BY <1>1, <1>2, <1>3, <1>4, <1>7, <1>8 DEF Onces, Sent, AgainFailed

LEMMA OncesNext == ASSUME Few, ~SlowOps, TurnsKept, Onces, [Next]_vars PROVE Onces'
<1>0. Base /\ Settings /\ Lives /\ NotDone
  BY DEF TurnsKept
<1> DEFINE Goal3 == Aims' /\ Sent' /\ AgainFailed' /\ hist.raced \subseteq hist'.raced
                    /\ \A m \in Msg \ hist'.raced : Once(m) => Once(m)'
<1>1. CASE \E o \in Op : Crashes(o) /\ Crashed'
  BY <1>1 DEF Onces
<1>2. CASE Crashed /\ budget'.crashes = budget.crashes
  BY <1>2 DEF Crashed, Onces
<1>3. ASSUME ~Crashed PROVE Aims /\ Sent /\ AgainFailed /\ \A m \in Msg \ hist.raced : Once(m)
  BY <1>3 DEF Onces
<1>4. ASSUME ~Crashed, NEW o \in Op, OpStep(o) PROVE Goal3
  BY <1>0, <1>3, <1>4, OpStepAims, OpStepSent, OpStepAgain, OpStepHist, OpStepOnce
<1>5. ASSUME ~Crashed, NEW r, Turns(r), Mute PROVE Goal3
  BY <1>0, <1>3, <1>5, TurnsSides, TurnsOnce DEF Mute
<1>6. ASSUME ~Crashed, NEW o \in Op, NEW k \in Msg, NEW q \in Queue, StartEnqueue(o, k, q) PROVE Goal3
  BY <1>0, <1>3, <1>6, StartEnqueueOnce
<1>7. ASSUME ~Crashed, NEW o \in Op, NEW k \in Msg, StartRedispatch(o, k) PROVE Goal3
  <2>1. PICK r, n : RedispatchesAs(o, r, n)
    BY <1>0, <1>7, StartRedispatchAs
  <2>2. \A m \in Msg : Once(m) => Once(m)'
    BY <1>0, <1>3, <1>7, <2>1, RedispatchOnce
  <2>3. /\ BeginsFit(o, n) /\ r \in Ref /\ At(r).st = "failed"
        /\ hist'.fin = hist.fin /\ hist'.sent = hist.sent /\ hist'.raced = hist.raced
        /\ SeqSet(n.d.msgs) = SeqSet(At(r).data.msgs)
        /\ \A m \in Msg : hist'.again[m] = IF m \in SeqSet(At(r).data.msgs) THEN hist.again[m] \cup {r[2]} ELSE hist.again[m]
    BY <2>1 DEF RedispatchesAs, Redispatchable
  <2>4. SeqSet(At(r).data.msgs) \subseteq hist.sent
    BY <1>3, <1>7, <2>3 DEF Sent
  <2>5. \A m \in Msg : hist'.again[m] # {} => m \in hist'.sent
    BY <1>3, <1>7, <2>3, <2>4 DEF Sent
  <2>6. ASSUME NEW m \in Msg, NEW i \in hist'.again[m]
        PROVE  i \in hist.again[m] \/ \E s \in Ref : s[2] = i /\ At(s).st = "failed"
    BY <2>3, <2>6
  <2>7. Aims' /\ Sent' /\ AgainFailed'
    BY <1>0, <1>3, <1>7, <2>3, <2>4, <2>5, <2>6, BeginsSides
  <2> QED
    BY <2>2, <2>3, <2>7
<1>8. ASSUME ~Crashed, NEW o \in Op, NEW n, BeginsMute(o, n) PROVE Goal3
  <2>1. /\ BeginsFit(o, n) /\ hist' = hist /\ ~HasWant(n)
        /\ n.d = NoData \/ (n.src \in Ref /\ SeqSet(n.d.msgs) \subseteq SeqSet(At(n.src).data.msgs) /\ At(n.src).st = "active")
    BY <1>8 DEF BeginsMute
  <2>2. \A m : ~Brings(n, m)
    BY <2>1 DEF Brings
  <2>3. SeqSet(NoData.msgs) = {}
    BY DEF NoData, SeqSet
  <2>4. SeqSet(n.d.msgs) \subseteq hist'.sent
    BY <1>3, <1>8, <2>1, <2>3 DEF Sent
  <2>5. Aims' /\ Sent' /\ AgainFailed'
    <3>1. \A m \in Msg : hist'.again[m] # {} => m \in hist'.sent
      BY <1>3, <1>8, <2>1 DEF Sent
    <3> QED
      BY <1>0, <1>3, <1>8, <2>1, <2>4, <3>1, BeginsSides
  <2>6. \A m \in Msg : Once(m) => Once(m)'
    BY <1>0, <2>1, <2>2, BeginsOnce
  <2> QED
    BY <2>1, <2>5, <2>6
<1>9. ASSUME ~Crashed, (Still /\ Mute) \/ \E n \in Node : Dies(n) PROVE Goal3
  <2>1. UNCHANGED <<job, op, turnDone>> /\ hist'.fin = hist.fin /\ Mute
    BY <1>9 DEF Still, Dies, Mute
  <2> QED
    BY <1>3, <1>9, <2>1, SteadyOnce DEF Mute
<1>10. ASSUME ~Crashed, Goal3 PROVE Onces'
  BY <1>3, <1>10 DEF Onces
<1> HIDE DEF Goal3
<1> QED
  BY <1>0, <1>1, <1>2, <1>4, <1>5, <1>6, <1>7, <1>8, <1>9, <1>10, StepIs

LEMMA OncesAre == ASSUME Onces PROVE Crashed \/ RedispatchedOnce
<1> SUFFICES ASSUME ~Crashed, NEW m \in Msg \ hist.raced PROVE Cardinality(hist.again[m]) <= 1
  BY DEF RedispatchedOnce
<1>1. \A i, j \in hist.again[m] : i = j
  BY DEF Onces, Once
<1>2. CASE hist.again[m] = {}
  BY <1>2, FS_EmptySet
<1>3. CASE hist.again[m] # {}
  <2>1. PICK i \in hist.again[m] : TRUE
    BY <1>3
  <2>2. hist.again[m] = {i}
    BY <1>1, <2>1
  <2>3. Cardinality({i}) = 1
    BY FS_Singleton
  <2> QED
    BY <2>2, <2>3
<1> QED
  BY <1>2, <1>3

\* turns.ts:454-456, dispatch.ts:261-263: however the followers of a failed
\* turn's messages re-dispatch it, and whatever merges and moves their job then
\* goes through, no message is re-dispatched from a second failed job, but one
\* that the claim race resent: under the same faults as NeverLost, until an
\* operation dies half way.
THEOREM ResentOnce == Few /\ ~SlowOps => (Spec => [](Crashed \/ RedispatchedOnce))
<1> SUFFICES ASSUME Few, ~SlowOps PROVE Spec => [](Crashed \/ RedispatchedOnce)
  OBVIOUS
<1>1. Init => TurnsKept /\ Onces
  BY TurnsKeptInit, OncesInit
<1>2. TurnsKept /\ Onces /\ [Next]_vars => (TurnsKept /\ Onces)'
  BY TurnsKeptNext, OncesNext
<1>3. TurnsKept /\ Onces => Crashed \/ RedispatchedOnce
  BY OncesAre
<1> QED
  BY <1>1, <1>2, <1>3, PTL DEF Spec
-----------------------------------------------------------------------------
(***************************************************************************)
(* A finished message runs in no other turn                                *)
(***************************************************************************)
\* Only a turn that begins counts as a run, of the messages its worker read.
LEMMA RanIs ==
    ASSUME Base, [Next]_vars, NEW m \in Msg, hist'.ran[m] # hist.ran[m]
    PROVE  \E q \in Queue, i \in Id : BeginTurn(q, i) /\ m \in SeqSet(job[q][i].snap.msgs)
<1>0. Typed /\ hist \in History
  BY BaseTyped DEF Typed
<1>1. \A S : /\ [hist EXCEPT !.fin = S].ran = hist.ran /\ [hist EXCEPT !.sent = S].ran = hist.ran
             /\ [hist EXCEPT !.again = S].ran = hist.ran /\ [hist EXCEPT !.misled = S].ran = hist.ran
  BY <1>0 DEF History
<1>2. ASSUME NEW o \in Op, OpStep(o) PROVE FALSE
  BY <1>2, OpStepHist
<1>3. ASSUME NEW o \in Op, Start(o) PROVE FALSE
  <2>1. CASE \E k \in Msg, q \in Queue : StartEnqueue(o, k, q)
    <3>1. \E S : hist' = [hist EXCEPT !.sent = S]
      BY <2>1 DEF StartEnqueue
    <3> QED
      BY <1>1, <3>1
  <2>2. CASE \E k \in Msg : StartRedispatch(o, k)
    <3>1. \E S : hist' = [hist EXCEPT !.again = S]
      BY <2>2 DEF StartRedispatch
    <3> QED
      BY <1>1, <3>1
  <2>3. CASE \E n \in Warm, i \in Id : StartReap(o, n, i)
    BY <1>0, <2>3, StartReapDoes
  <2> QED
    BY <1>3, <2>1, <2>2, <2>3 DEF Start
<1>4. ASSUME NEW q \in Queue, NEW i \in Id, Process(q, i), ~BeginTurn(q, i) PROVE FALSE
  <2>1. CASE \E o \in Op : StartClaimedMove(o, q, i)
    BY <1>0, <2>1, StartClaimedMoveDoes
  <2>2. CASE \E denied \in BOOLEAN : EndTurn(q, i, denied)
    <3>1. hist' = hist \/ \E S : hist' = [hist EXCEPT !.fin = S]
      BY <2>2 DEF EndTurn
    <3> QED
      BY <1>1, <3>1
  <2>3. CASE SkipDone(q, i) \/ Requeue(q, i) \/ FailAtClaim(q, i) \/ Ack(q, i) \/ FailDenied(q, i) \/ CompleteMoved(q, i)
    BY <2>3 DEF SkipDone, Requeue, FailAtClaim, Ack, FailDenied, CompleteMoved
  <2> QED
    BY <1>4, <2>1, <2>2, <2>3 DEF Process
<1>5. ASSUME NEW q \in Queue, NEW i \in Id, Timer(q, i) \/ \E n \in Node : Claim(n, q, i) PROVE FALSE
  BY <1>5 DEF Timer, RetryDue, HoldLapse, LockExpire, Stall, Claim
<1>6. ASSUME NEW k \in Msg, Follow(k) PROVE FALSE
  <2>1. hist' = hist \/ \E S : hist' = [hist EXCEPT !.misled = S]
    BY <1>6 DEF Follow, FollowMove, Close
  <2> QED
    BY <1>1, <2>1
<1>7. ASSUME Fault \/ UNCHANGED vars PROVE FALSE
  BY <1>7 DEF Fault, AppendLockLapse, IndexLapse, GuardLapse, OpCrash, NodeCrash, Silence, Resume, Relabel, vars
<1>8. PICK q \in Queue, i \in Id : BeginTurn(q, i)
  BY <1>2, <1>3, <1>4, <1>5, <1>6, <1>7 DEF Next
<1>9. hist' = [hist EXCEPT !.ran =
          [k \in Msg |-> IF k \in SeqSet(job[q][i].snap.msgs) /\ @[k] < 2 THEN @[k] + 1 ELSE @[k]]]
  BY <1>8 DEF BeginTurn
<1>10. hist'.ran[m] = IF m \in SeqSet(job[q][i].snap.msgs) /\ hist.ran[m] < 2 THEN hist.ran[m] + 1 ELSE hist.ran[m]
  BY <1>0, <1>9 DEF History
<1> QED
  BY <1>8, <1>10

\* A turn that begins has no message that finished, unless it was re-dispatched.
LEMMA BeginsUnfinished ==
    ASSUME Base, ~SlowOps, NotDone, Aims, NEW q \in Queue, NEW i \in Id, BeginTurn(q, i),
           NEW m \in Msg, m \in SeqSet(job[q][i].snap.msgs), Once(m), hist.again[m] = {}
    PROVE  m \notin hist.fin
<1>0. PICK r \in Ref : r = <<q, i>> /\ At(r) = job[q][i]
  BY PairIs DEF At
<1>1. At(r).st = "active" /\ At(r).ph = "claimed" /\ r[2] \notin turnDone
  BY <1>0, BaseTyped, BeginTurnDoes
<1>2. JobShape(At(r), r[1])
  BY BaseTyped DEF JobShapes
<1>3. m \in SeqSet(At(r).data.msgs)
  BY <1>0, <1>1, <1>2 DEF JobShape
<1>4. LiveAt(r)
  BY <1>1, RunningLives
<1>5. HasMsg(r, m)
  BY <1>1, <1>3, <1>4 DEF HasMsg, Open
<1> SUFFICES ASSUME m \in hist.fin PROVE FALSE
  OBVIOUS
<1>6. Finished(m)
  BY DEF Once
<1>7. CASE Carrier(r, m)
  <2>1. PICK o \in Op : Gives(op[o], r, m)
    BY <1>6, <1>7 DEF Finished
  <2>2. Adding(op[o], m) /\ ~HasWant(op[o]) /\ r = Giver(op[o])
    BY <2>1, HandsAdd DEF Gives
  <2>3. PICK h \in Ref : h = Giver(op[o]) /\ (At(h).st = "held" \/ At(h).ph = "moving")
    BY <2>2, SourceIs
  <2> QED
    BY <1>1, <2>2, <2>3
<1>8. CASE ~Carrier(r, m)
  <2>1. PICK x \in Op : Hands(op[x], m) /\ op[x].ref = r
    BY <1>5, <1>8 DEF Carrier, Appends
  <2>2. Adding(op[x], m) /\ ~Spent(op[x].ref)
    BY <1>1, <2>1, HandsAdd DEF Spent
  <2>3. CASE HasWant(op[x])
    <3>1. Brings(op[x], m)
      BY <2>2, <2>3, SourceIs
    <3> QED
      BY <1>6, <2>2, <3>1 DEF Finished
  <2>4. CASE ~HasWant(op[x])
    <3>1. PICK h \in Ref : Carrier(h, m)
      BY <2>2, <2>4, SourceIs
    <3>2. PICK o \in Op : Gives(op[o], h, m) /\ Spent(op[o].ref)
      BY <1>6, <3>1 DEF Finished
    <3>3. Adding(op[o], m)
      BY <3>2, HandsAdd DEF Gives
    <3>4. o = x
      BY <2>2, <3>3, AddingAlone
    <3> QED
      BY <2>2, <3>2, <3>4
  <2> QED
    BY <2>3, <2>4
<1> QED
  BY <1>7, <1>8
-----------------------------------------------------------------------------
\* Without relabels no turn is denied, and nothing is re-dispatched.
NoneAgain == Alike => (\A r \in Ref : At(r).ph # "mismatch") /\ \A m \in Msg : hist.again[m] = {}
LEMMA WorkMatches ==
    ASSUME Base, Settings, Alike, NEW q \in Queue, NEW i \in Id,
           \/ SkipDone(q, i) \/ BeginTurn(q, i) \/ Requeue(q, i) \/ FailAtClaim(q, i)
           \/ \E denied \in BOOLEAN : EndTurn(q, i, denied)
           \/ Ack(q, i) \/ FailDenied(q, i) \/ CompleteMoved(q, i)
           \/ Timer(q, i) \/ \E n \in Node : Claim(n, q, i),
           NEW s \in Ref, After(s).ph = "mismatch"
    PROVE  At(s).ph = "mismatch"
<1> DEFINE r == <<q, i>>
           j == At(r)
<1>0. Typed /\ r \in Ref /\ j \in Job /\ JobShape(j, r[1])
  BY BaseTyped, PairIs, PlaceIs DEF JobShapes, Typed
<1>1. \A k : JobBecomes(r, k) => \A x \in Ref : After(x) = IF x = r THEN k ELSE At(x)
  BY AfterIs
<1>2. \A st, ph : JobBecomes(r, Left(j, st, ph)) => \A x \in Ref : After(x).ph = IF x = r THEN ph ELSE At(x).ph
  BY <1>0, <1>1, LeftIs
<1>3. \A ph : [j EXCEPT !.ph = ph].ph = ph /\ [j EXCEPT !.locked = FALSE].ph = j.ph /\ [j EXCEPT !.st = "waiting"].ph = j.ph
  BY <1>0 DEF Job
<1>4. CASE SkipDone(q, i) \/ Requeue(q, i) \/ Ack(q, i) \/ CompleteMoved(q, i)
  <2>1. \E st : JobBecomes(r, Left(j, st, "none"))
    BY <1>0, <1>4, SkipDoneDoes, RequeueDoes, AckDoes, CompleteMovedDoes
  <2> QED
    BY <1>2, <2>1
<1>5. CASE FailAtClaim(q, i)
  <2>1. j.snap.label = j.data.label /\ j.st = "active"
    BY <1>0, <1>5, FailAtClaimDoes DEF JobShape
  <2>2. j.snap.label = runsOn
    BY <1>0, <2>1 DEF Settings, Uniform
  <2>3. JobBecomes(r, Left(j, "failed", "other"))
    BY <1>0, <1>5, <2>2, FailAtClaimDoes
  <2> QED
    BY <1>2, <2>3
<1>6. CASE FailDenied(q, i)
  BY <1>0, <1>6, FailDeniedDoes DEF Settings, Uniform
<1>7. CASE BeginTurn(q, i) \/ \E denied \in BOOLEAN : EndTurn(q, i, denied)
  <2>1. \E ph \in {"running", "denied", "ended"} : JobBecomes(r, [j EXCEPT !.ph = ph])
    BY <1>0, <1>7, BeginTurnDoes, EndTurnDoes
  <2> QED
    BY <1>1, <1>3, <2>1
<1>8. CASE Timer(q, i)
  <2>1. CASE RetryDue(q, i) \/ HoldLapse(q, i) \/ LockExpire(q, i)
    <3>1. JobBecomes(r, [j EXCEPT !.st = "waiting"]) \/ JobBecomes(r, [j EXCEPT !.locked = FALSE])
      BY <1>0, <2>1, RetryDueDoes, HoldLapseDoes, LockExpireDoes
    <3>2. \E k : JobBecomes(r, k) /\ k.ph = j.ph
      BY <1>3, <3>1
    <3> QED
      BY <1>1, <3>2
  <2>2. CASE Stall(q, i)
    <3>1. \/ JobBecomes(r, [j EXCEPT !.st = "waiting", !.ph = "none", !.by = NoNode, !.snap = NoData, !.stalls = 1])
          \/ JobBecomes(r, Left(j, "failed", "other"))
      BY <1>0, <2>2, StallDoes
    <3>2. [j EXCEPT !.st = "waiting", !.ph = "none", !.by = NoNode, !.snap = NoData, !.stalls = 1].ph = "none"
      BY <1>0 DEF Job
    <3>3. CASE JobBecomes(r, Left(j, "failed", "other"))
      BY <1>2, <3>3
    <3>4. CASE \E k : JobBecomes(r, k) /\ k.ph = "none"
      BY <1>1, <3>4
    <3> HIDE DEF r, j
    <3> QED
      BY <3>1, <3>2, <3>3, <3>4
  <2> QED
    BY <1>8, <2>1, <2>2 DEF Timer
<1>9. CASE \E n \in Node : Claim(n, q, i)
  <2>1. \E n : JobBecomes(r, [j EXCEPT !.st = "active", !.snap = j.data, !.by = n, !.locked = TRUE, !.ph = "claimed"])
    BY <1>0, <1>9, ClaimDoes
  <2>2. \A n : [j EXCEPT !.st = "active", !.snap = j.data, !.by = n, !.locked = TRUE, !.ph = "claimed"].ph = "claimed"
    BY <1>0 DEF Job
  <2> QED
    BY <1>1, <2>1, <2>2
<1> QED
  BY <1>4, <1>5, <1>6, <1>7, <1>8, <1>9

LEMMA MatchesStay ==
    ASSUME Base, Settings, Few, Alike, [Next]_vars, NEW s \in Ref, After(s).ph = "mismatch"
    PROVE  At(s).ph = "mismatch"
<1>1. ASSUME NEW o \in Op, OpStep(o) PROVE At(s).ph = "mismatch"
  BY <1>1, PhasesStay
<1>2. ASSUME NEW o \in Op, NEW n, BeginsFit(o, n) PROVE At(s).ph = "mismatch"
  BY <1>2, BeginsHave
<1>3. ASSUME NEW q \in Queue, NEW i \in Id, Process(q, i) \/ Timer(q, i) \/ \E n \in Node : Claim(n, q, i)
      PROVE  At(s).ph = "mismatch"
  <2>1. CASE \E o \in Op : StartClaimedMove(o, q, i)
    BY <1>2, <2>1, StartClaimedMoveFit
  <2>2. CASE ~\E o \in Op : StartClaimedMove(o, q, i)
    BY <1>3, <2>2, WorkMatches DEF Process
  <2> QED
    BY <2>1, <2>2
<1>4. ASSUME Fault \/ (\E m \in Msg : Follow(m)) \/ UNCHANGED vars PROVE At(s).ph = "mismatch"
  <2>1. Still \/ (\E o \in Op : Crashes(o)) \/ \E n \in Node : Dies(n)
    BY <1>4, StillIs, CrashesIs, DiesIs DEF Fault
  <2>2. After(s) = At(s)
    BY <2>1 DEF Still, Crashes, Dies, After, At
  <2> QED
    BY <2>2
<1>5. ASSUME NEW o \in Op, Start(o) PROVE At(s).ph = "mismatch"
  BY <1>2, <1>5, StartEnqueueFit, StartRedispatchFit, StartReapFit DEF Start
<1> QED
  BY <1>1, <1>3, <1>4, <1>5 DEF Next

LEMMA NoneAgainNext == ASSUME Base, Settings, Few, NoneAgain, [Next]_vars PROVE NoneAgain'
<1> SUFFICES ASSUME Alike PROVE NoneAgain'
  BY DEF NoneAgain, Alike
<1>0. (\A r \in Ref : At(r).ph # "mismatch") /\ \A m \in Msg : hist.again[m] = {}
  BY DEF NoneAgain
<1>1. \A r \in Ref : At(r)'.ph # "mismatch"
  <2>1. \A r \in Ref : After(r).ph # "mismatch"
    BY <1>0, MatchesStay
  <2> QED
    BY <2>1 DEF After, At
<1>2. hist'.again = hist.again
  <2>1. ASSUME NEW o \in Op, NEW m \in Msg, NEW q \in Queue, StartEnqueue(o, m, q) PROVE hist'.again = hist.again
    BY <2>1, BaseTyped, StartEnqueueDoes DEF Typed, History
  <2>2. ASSUME NEW o \in Op, NEW m \in Msg, StartRedispatch(o, m) PROVE FALSE
    BY <1>0, <2>2, BaseTyped, StartRedispatchDoes DEF Redispatchable
  <2> QED
    BY <2>1, <2>2, StepIs, OpStepHist DEF Mute, BeginsMute, Dies, Crashes
<1> QED
  BY <1>0, <1>1, <1>2 DEF NoneAgain

LEMMA NoneAgainInit == ASSUME Init PROVE NoneAgain
<1>1. \A r \in Ref : At(r) = NoJob
  BY RefIs DEF Init, At
<1>2. NoJob.ph = "none" /\ \A m \in Msg : hist.again[m] = {}
  BY DEF NoJob, Init
<1> QED
  BY <1>1, <1>2 DEF NoneAgain
-----------------------------------------------------------------------------
\* A step runs no finished message again, but those the claim race resent, those
\* that were re-dispatched, and those of an operation that died half way.
RunsNoneAgain ==
    \A m \in hist.fin \ hist.raced : hist.again[m] = {} => hist'.ran[m] = hist.ran[m] \/ Crashed
LEMMA NextRunsNoneAgain == ASSUME ~SlowOps, TurnsKept, Onces, [Next]_vars PROVE RunsNoneAgain
<1> SUFFICES ASSUME NEW m \in hist.fin \ hist.raced, hist.again[m] = {},
                    hist'.ran[m] # hist.ran[m], ~Crashed
             PROVE  FALSE
  BY DEF RunsNoneAgain
<1>1. Base /\ NotDone
  BY DEF TurnsKept
<1>2. m \in Msg
  BY <1>1, BaseTyped DEF Typed, History
<1>3. Aims /\ Once(m)
  BY <1>2 DEF Onces
<1> QED
  BY <1>1, <1>2, <1>3, RanIs, BeginsUnfinished

\* turns.ts:561-567, 139-142: a turn that begins has no message of a turn that
\* finished, whatever moves, merges, stalls and redeliveries bring it there and
\* whatever nodes die or labels change, but one that the claim race resent, that
\* was re-dispatched, or that an operation that died half way had: under the
\* same faults as NeverLost.
THEOREM FinishedStay == Few /\ ~SlowOps => (Spec => [][RunsNoneAgain]_vars)
<1> SUFFICES ASSUME Few, ~SlowOps PROVE Spec => [][RunsNoneAgain]_vars
  OBVIOUS
<1>1. Init => TurnsKept /\ Onces
  BY TurnsKeptInit, OncesInit
<1>2. TurnsKept /\ Onces /\ [Next]_vars => (TurnsKept /\ Onces)'
  BY TurnsKeptNext, OncesNext
<1>3. TurnsKept /\ Onces /\ [Next]_vars => RunsNoneAgain
  BY NextRunsNoneAgain
<1> QED
  BY <1>1, <1>2, <1>3, PTL DEF Spec

\* turns.ts:561-567, 139-142: and while no persona is relabelled nothing is
\* re-dispatched: a message of a finished turn, if the claim race did not resend
\* it, runs in no other, whatever nodes die or pause while reapers move their
\* jobs, until an operation dies half way.
THEOREM FinishedRunOnce == Few /\ ~SlowOps /\ Alike => (Spec => FinishedRunsOnce)
<1> SUFFICES ASSUME Few, ~SlowOps, Alike PROVE Spec => FinishedRunsOnce
  OBVIOUS
<1> DEFINE Inv == TurnsKept /\ Onces /\ NoneAgain
           NoneRun == \A m \in hist.fin \ (hist.raced \cup hist.misled) : hist'.ran[m] = hist.ran[m] \/ Crashed
<1>1. Init => Inv
  BY TurnsKeptInit, OncesInit, NoneAgainInit
<1>2. TurnsKept => Base /\ Settings
  BY DEF TurnsKept
<1>3. Inv /\ [Next]_vars => Inv'
  BY <1>2, TurnsKeptNext, OncesNext, NoneAgainNext
<1>4. Inv /\ [Next]_vars => NoneRun
  <2> SUFFICES ASSUME Inv, [Next]_vars PROVE NoneRun
    OBVIOUS
  <2>1. RunsNoneAgain /\ hist.fin \subseteq Msg
    BY <1>2, BaseTyped, NextRunsNoneAgain DEF Typed, History
  <2> QED
    BY <2>1 DEF RunsNoneAgain, NoneAgain
<1> QED
  BY <1>1, <1>3, <1>4, PTL DEF Spec, FinishedRunsOnce
=============================================================================
