-------------------------- MODULE TurnLossProofs --------------------------
(***************************************************************************)
(* No accepted message is lost (TurnSession's NoMessageLost), and the      *)
(* senders recorded for a running turn cover it (SendersCoverTurn), for    *)
(* every set of messages, labels, nodes and operation slots and every      *)
(* bound, of the faults that leave them true.                              *)
(*                                                                         *)
(* The invariant, TurnsKept, on top of Base: what the faults exclude       *)
(* (Settings), that an id's turn lives in one job (Lives), that no marker  *)
(* sends a live job away (Marked), that what runs or moves is not done     *)
(* (NotDone), and that a job holds each accepted message (Kept).  For the  *)
(* senders it is TurnsKept with where each token is (Tokens), and that one *)
(* live job has it, which what is recorded covers (Covered).               *)
(***************************************************************************)
EXTENDS TurnSessionProofs

-----------------------------------------------------------------------------
(***************************************************************************)
(* What a worker or a timer makes of a job, in full                        *)
(***************************************************************************)
\* A worker holds the job.
Has(j, ph) == j.st = "active" /\ j.ph = ph /\ j.by \in up
Same(j, k) == k.by = j.by /\ k.snap = j.snap
Rest3 == turnDone' = turnDone /\ hist'.fin = hist.fin

Turns(r) ==
    LET j == At(r)
        k == After(r)
    IN
    /\ r \in Ref /\ op' = op /\ k.data = j.data /\ \A s \in Ref : s # r => After(s) = At(s)
    /\ UNCHANGED <<idx, moved, up, silent, runsOn, budget, nextId, watch>>
    /\ \/ /\ j.st = "waiting" /\ k.st = "active" /\ k.ph = "claimed" /\ k.by \in up /\ k.snap = j.data /\ Rest3
       \/ /\ Has(j, "claimed") /\ r[2] \in turnDone /\ k.st = "completed" /\ k.ph = "none" /\ Rest3
       \/ /\ Has(j, "claimed") /\ r[2] \notin turnDone /\ k.st = "active" /\ k.ph = "running" /\ Same(j, k) /\ Rest3
       \/ /\ Has(j, "claimed") /\ r[2] \notin turnDone /\ Rest3
          /\ (k.st = "delayed" /\ k.ph = "none") \/ (k.st = "failed" /\ k.ph \in {"mismatch", "other"})
       \/ /\ Has(j, "running") /\ k.st = "active" /\ k.ph = "ended" /\ Same(j, k)
          /\ turnDone' = turnDone \cup {r[2]} /\ hist'.fin = hist.fin \cup SeqSet(j.snap.msgs)
       \/ /\ Has(j, "running") /\ k.st = "active" /\ k.ph = "denied" /\ Same(j, k) /\ j.snap.label # runsOn
          /\ turnDone' = turnDone \cup {r[2]} /\ hist'.fin = hist.fin
       \/ /\ Has(j, "ended") \/ Has(j, "moved")
          /\ k.st = "completed" /\ k.ph = "none" /\ Rest3
       \/ Has(j, "denied") /\ k.st = "failed" /\ k.ph = "mismatch" /\ Rest3
       \/ /\ j.st = "delayed" \/ (j.st = "held" /\ (SlowOps \/ \A o \in Op : op[o].cp # r))
          /\ k.st = "waiting" /\ k.ph = j.ph /\ Rest3
       \/ /\ j.st = "active" /\ j.by \notin up /\ k.st = "active" /\ k.ph = j.ph /\ Same(j, k) /\ Rest3
       \/ /\ j.st = "active" /\ j.by \notin up /\ Rest3
          /\ (k.st = "waiting" /\ k.ph = "none") \/ (k.st = "failed" /\ k.ph = "other")

LEMMA FinIs ==
    ASSUME hist \in History
    PROVE  /\ \A S : [hist EXCEPT !.fin = @ \cup S].fin = hist.fin \cup S
           /\ \A f : [hist EXCEPT !.ran = f].fin = hist.fin
BY DEF History

LEMMA WorkTurns ==
    ASSUME Base, NEW q \in Queue, NEW i \in Id,
           \/ SkipDone(q, i) \/ BeginTurn(q, i) \/ Requeue(q, i) \/ FailAtClaim(q, i)
           \/ \E denied \in BOOLEAN : EndTurn(q, i, denied)
           \/ Ack(q, i) \/ FailDenied(q, i) \/ CompleteMoved(q, i)
           \/ Timer(q, i) \/ \E n \in Node : Claim(n, q, i)
    PROVE  Turns(<<q, i>>)
<1> DEFINE r == <<q, i>>
           j == At(r)
<1>0. Typed /\ r \in Ref /\ j \in Job /\ JobShape(j, r[1]) /\ hist \in History /\ r[2] = i
  BY BaseTyped, PairIs, PlaceIs DEF JobShapes, Typed
<1>1. PICK w \in Job : Works(r, w)
  BY WorkIs
<1>2. After(r) = w /\ op' = op /\ w.data = j.data /\ \A s \in Ref : s # r => After(s) = At(s)
  BY <1>0, <1>1, WorkIs, AfterIs DEF Works
<1>3. UNCHANGED <<idx, moved, up, silent, runsOn, budget, nextId, watch>>
  BY <1>1 DEF Works
<1>4. ASSUME NEW k, JobBecomes(r, k) PROVE After(r) = k
  BY <1>0, <1>4, AfterIs
<1>5. ASSUME NEW st, NEW ph, JobBecomes(r, Left(j, st, ph)) PROVE After(r).st = st /\ After(r).ph = ph
  BY <1>0, <1>4, <1>5, LeftIs
<1>6. ASSUME NEW ph, JobBecomes(r, [j EXCEPT !.ph = ph])
      PROVE  After(r).st = j.st /\ After(r).ph = ph /\ Same(j, After(r))
  <2>1. After(r) = [j EXCEPT !.ph = ph]
    BY <1>4, <1>6
  <2> QED
    BY <1>0, <2>1 DEF Job, Same
<1>7. j.locked \/ j.by \notin up \/ j.st # "active"
  BY <1>0 DEF JobShape
<1> DEFINE Rests == Rest3
<1>11. CASE SkipDone(q, i)
  <2>1. Has(j, "claimed") /\ i \in turnDone /\ JobBecomes(r, Left(j, "completed", "none")) /\ Rest3
    BY <1>0, <1>11, SkipDoneDoes DEF Has, Rest3
  <2> QED
    BY <1>0, <1>2, <1>3, <1>5, <2>1 DEF Turns
<1>12. CASE BeginTurn(q, i)
  <2>1. Has(j, "claimed") /\ i \notin turnDone /\ JobBecomes(r, [j EXCEPT !.ph = "running"])
    BY <1>0, <1>12, BeginTurnDoes DEF Has
  <2>2. \E f : hist' = [hist EXCEPT !.ran = f]
    BY <1>12 DEF BeginTurn
  <2>3. turnDone' = turnDone
    BY <1>12 DEF BeginTurn
  <2>4. Rest3
    BY <1>0, <2>2, <2>3, FinIs DEF Rest3
  <2>5. After(r).st = "active" /\ After(r).ph = "running" /\ Same(j, After(r))
    BY <1>6, <2>1 DEF Has
  <2> QED
    BY <1>0, <1>2, <1>3, <2>1, <2>4, <2>5 DEF Turns
<1>13. CASE Requeue(q, i)
  <2>1. Has(j, "claimed") /\ i \notin turnDone /\ JobBecomes(r, Left(j, "delayed", "none")) /\ Rest3
    BY <1>0, <1>13, RequeueDoes DEF Has, Rest3
  <2> QED
    BY <1>0, <1>2, <1>3, <1>5, <2>1 DEF Turns
<1>14. CASE FailAtClaim(q, i)
  <2> DEFINE ph == IF j.snap.label # runsOn THEN "mismatch" ELSE "other"
  <2>1. ph \in {"mismatch", "other"}
    OBVIOUS
  <2>2. Has(j, "claimed") /\ i \notin turnDone /\ JobBecomes(r, Left(j, "failed", ph)) /\ Rest3
    BY <1>0, <1>14, FailAtClaimDoes DEF Has, Rest3
  <2> HIDE DEF ph
  <2>3. After(r).st = "failed" /\ After(r).ph \in {"mismatch", "other"}
    BY <1>5, <2>1, <2>2
  <2> QED
    BY <1>0, <1>2, <1>3, <2>2, <2>3 DEF Turns
<1>15. CASE \E denied \in BOOLEAN : EndTurn(q, i, denied)
  <2>1. PICK denied \in BOOLEAN : EndTurn(q, i, denied)
    BY <1>15
  <2>2. Has(j, "running") /\ (denied => j.snap.label # runsOn) /\ turnDone' = turnDone \cup {r[2]}
    BY <1>0, <2>1 DEF EndTurn, Running, In, Has, At
  <2>3. CASE denied
    <3>1. hist' = hist
      BY <2>1, <2>3 DEF EndTurn
    <3>2. JobBecomes(r, [j EXCEPT !.ph = "denied"])
      BY <1>0, <2>1, <2>3, EndTurnDoes
    <3>3. After(r).st = "active" /\ After(r).ph = "denied" /\ Same(j, After(r))
      BY <1>6, <2>2, <3>2 DEF Has
    <3> QED
      BY <1>0, <1>2, <1>3, <2>2, <2>3, <3>1, <3>3 DEF Turns
  <2>4. CASE ~denied
    <3>1. hist' = [hist EXCEPT !.fin = @ \cup SeqSet(j.snap.msgs)]
      BY <2>1, <2>4 DEF EndTurn, At
    <3>2. JobBecomes(r, [j EXCEPT !.ph = "ended"])
      BY <1>0, <2>1, <2>4, EndTurnDoes
    <3>3. After(r).st = "active" /\ After(r).ph = "ended" /\ Same(j, After(r))
      BY <1>6, <2>2, <3>2 DEF Has
    <3>4. hist'.fin = hist.fin \cup SeqSet(j.snap.msgs)
      BY <1>0, <3>1, FinIs
    <3> QED
      BY <1>0, <1>2, <1>3, <2>2, <3>3, <3>4 DEF Turns
  <2> QED
    BY <2>3, <2>4
<1>16. CASE Ack(q, i)
  <2>1. Has(j, "ended") /\ JobBecomes(r, Left(j, "completed", "none")) /\ Rest3
    BY <1>0, <1>16, AckDoes DEF Has, Rest3
  <2> QED
    BY <1>0, <1>2, <1>3, <1>5, <2>1 DEF Turns
<1>17. CASE FailDenied(q, i)
  <2>1. Has(j, "denied") /\ JobBecomes(r, Left(j, "failed", "mismatch")) /\ Rest3
    BY <1>0, <1>17, FailDeniedDoes DEF Has, Rest3
  <2> QED
    BY <1>0, <1>2, <1>3, <1>5, <2>1 DEF Turns
<1>18. CASE CompleteMoved(q, i)
  <2>1. Has(j, "moved") /\ JobBecomes(r, Left(j, "completed", "none")) /\ Rest3
    BY <1>0, <1>18, CompleteMovedDoes DEF Has, Rest3
  <2> QED
    BY <1>0, <1>2, <1>3, <1>5, <2>1 DEF Turns
<1>19. CASE RetryDue(q, i) \/ HoldLapse(q, i)
  <2>1. /\ j.st = "delayed" \/ (j.st = "held" /\ (SlowOps \/ \A o \in Op : op[o].cp # r))
        /\ JobBecomes(r, [j EXCEPT !.st = "waiting"]) /\ Rest3
    BY <1>0, <1>19, RetryDueDoes, HoldLapseDoes DEF Rest3
  <2>2. After(r) = [j EXCEPT !.st = "waiting"]
    BY <1>4, <2>1
  <2>3. After(r).st = "waiting" /\ After(r).ph = j.ph
    BY <1>0, <2>2 DEF Job
  <2> QED
    BY <1>0, <1>2, <1>3, <2>1, <2>3 DEF Turns
<1>20. CASE LockExpire(q, i)
  <2>1. j.st = "active" /\ j.by \notin up /\ JobBecomes(r, [j EXCEPT !.locked = FALSE]) /\ Rest3
    BY <1>0, <1>20, LockExpireDoes DEF Rest3
  <2>2. After(r) = [j EXCEPT !.locked = FALSE]
    BY <1>4, <2>1
  <2>3. After(r).st = j.st /\ After(r).ph = j.ph /\ Same(j, After(r))
    BY <1>0, <2>2 DEF Job, Same
  <2> QED
    BY <1>0, <1>2, <1>3, <2>1, <2>3 DEF Turns
<1>21. CASE Stall(q, i)
  <2> DEFINE k == [j EXCEPT !.st = "waiting", !.ph = "none", !.by = NoNode, !.snap = NoData, !.stalls = 1]
  <2>1. /\ j.st = "active" /\ ~j.locked /\ Rest3
        /\ JobBecomes(r, k) \/ JobBecomes(r, Left(j, "failed", "other"))
    BY <1>0, <1>21, StallDoes DEF Rest3
  <2>2. j.by \notin up
    BY <1>7, <2>1
  <2>3. k.st = "waiting" /\ k.ph = "none"
    BY <1>0 DEF Job
  <2> HIDE DEF k
  <2>4. (After(r).st = "waiting" /\ After(r).ph = "none") \/ (After(r).st = "failed" /\ After(r).ph = "other")
    BY <1>4, <1>5, <2>1, <2>3
  <2> QED
    BY <1>0, <1>2, <1>3, <2>1, <2>2, <2>4 DEF Turns
<1>22. CASE \E n \in Node : Claim(n, q, i)
  <2>1. PICK n \in Node : Claim(n, q, i)
    BY <1>22
  <2> DEFINE k == [j EXCEPT !.st = "active", !.snap = j.data, !.by = n, !.locked = TRUE, !.ph = "claimed"]
  <2>2. k.st = "active" /\ k.snap = j.data /\ k.by = n /\ k.ph = "claimed"
    BY <1>0 DEF Job
  <2>3. j.st = "waiting" /\ JobBecomes(r, k) /\ n \in up /\ Rest3
    BY <1>0, <2>1, ClaimDoes DEF Serves, Rest3
  <2> HIDE DEF k
  <2> QED
    BY <1>0, <1>2, <1>3, <1>4, <2>2, <2>3 DEF Turns
<1> QED
  BY <1>11, <1>12, <1>13, <1>14, <1>15, <1>16, <1>17, <1>18, <1>19, <1>20, <1>21, <1>22 DEF Timer

-----------------------------------------------------------------------------
(***************************************************************************)
(* The faults under which no message is lost, and what they exclude        *)
(***************************************************************************)
Few == \/ MaxCrashes = 0 /\ (Mortal = {} \/ MaxRelabels = 0)
       \/ Mortal = {} /\ Pausing = {}
Alike == MaxRelabels = 0
NoReaps == Mortal = {} /\ Pausing = {}
NoMisfits == Alike \/ NoReaps

\* A node that takes the queue's jobs may run the label, or hands them on.
Fits(q, l) == q = l \/ (q \in Warm /\ l \in Carries[q])

\* Without relabels every job has the persona's label.
Uniform == Alike =>
    /\ runsOn = FirstLabel
    /\ \A r \in Ref : (At(r).st # "none" => At(r).data.label = FirstLabel) /\ At(r).ph # "denied"
    /\ \A o \in Op : op[o].d.label = FirstLabel
    /\ idx # NoRef => Fits(idx[1], FirstLabel)

\* Without deaths every node lives, and without pauses it is heard of.
AllUp ==
    /\ Mortal = {} => up = Node
    /\ Pausing = {} => silent = {}
    /\ NoReaps => \A o \in Op : op[o].kind \in {"none", "enqueue", "redispatch"}

\* Without relabels, or without reaps, every job is where its node can run it.
AllFit == NoMisfits =>
    /\ \A r \in Ref : (At(r).st # "none" => Fits(r[1], At(r).data.label)) /\ At(r).ph \notin {"moving", "moved"}
    /\ \A o \in Op :
          /\ op[o].kind # "claimed"
          /\ HasWant(op[o]) => Fits(op[o].want, op[o].d.label)
          /\ op[o].kind \in {"merge", "swap"} /\ op[o].cp # NoRef => Fits(op[o].cp[1], op[o].d.label)

Settings == Uniform /\ AllUp /\ AllFit

\* The job an operation adds.
LEMMA AddedFits ==
    ASSUME Base, Settings, NEW o \in Op, NEW s \in Ref, NEW d,
           \/ op[o].pc = "add" /\ s = Wanted(op[o]) /\ d = op[o].d
           \/ op[o].pc = "copy" /\ s = op[o].cp /\ d = CopyData(op[o])
    PROVE  d.label = op[o].d.label /\ (NoMisfits => Fits(s[1], d.label))
<1> DEFINE p == op[o]
<1>1. d.label = p.d.label
  BY AddedAt
<1>2. Shape(p)
  BY BaseIs
<1>3. ASSUME NoMisfits PROVE Fits(s[1], p.d.label)
  <2>1. p.kind # "claimed" /\ (HasWant(p) => Fits(p.want, p.d.label))
        /\ (p.kind \in {"merge", "swap"} /\ p.cp # NoRef => Fits(p.cp[1], p.d.label))
    BY <1>3 DEF Settings, AllFit
  <2>2. HasWant(p) \/ p.kind \in {"merge", "swap", "claimed"}
    BY <1>2 DEF Shape, KindPc, HasWant, OpenPcs, CopyPcs
  <2>3. p.pc = "add" => HasWant(p) \/ p.kind = "claimed"
    BY <1>2 DEF Shape, KindPc, HasWant, OpenPcs, CopyPcs
  <2>4. s # NoRef
    BY TurnQueueAssumption DEF Ref
  <2>5. HasWant(p) /\ p.pc = "copy" => s = Wanted(p)
    BY <1>2, <2>4 DEF Shape, HasWant
  <2> QED
    BY <2>1, <2>2, <2>3, <2>4, <2>5 DEF Wanted
<1> QED
  BY <1>1, <1>3

\* What the record of an operation's slot becomes.
LEMMA RecordGoesOn ==
    ASSUME Base, NEW o \in Op, OpStep(o)
    PROVE  LET p == op[o]
               n == op'[o] IN
           /\ \A x \in Op : x # o => op'[x] = op[x]
           /\ \/ n = IdleOp
              \/ n.kind = "merge" /\ p.kind = "reap" /\ n.d = At(p.src).data /\ n.cp = <<idx[1], nextId>> /\ idx # NoRef
                 /\ p.src \in Ref /\ At(p.src).st # "none"
              \/ n.kind = "swap" /\ p.kind = "reap" /\ n.d = At(p.src).data /\ n.cp = <<p.want, p.src[2]>>
                 /\ p.src \in Ref /\ At(p.src).st # "none"
              \/ /\ n.kind = p.kind /\ n.d = p.d /\ n.want = p.want
                 /\ (n.kind \in {"merge", "swap"} => n.cp \in {p.cp, NoRef})
<1> DEFINE p == op[o]
           n == op'[o]
<1>0. Typed /\ Shape(p)
  BY BaseIs
<1>1. CASE CheckMerge(o)
  <2>1. idx # NoRef /\ At(p.src).st # "none" /\ p.src \in Ref
    BY <1>0, <1>1 DEF CheckMerge, IndexedElsewhere, Shape, Moves
  <2> QED
    BY <1>1, <2>1, MergeKeeps
<1>2. CASE CheckSwap(o)
  BY <1>2, SwapIs, OpStepRecords, CheckSwapInherits DEF Steps
<1>3. CASE Look(o)
  <2>1. PICK l, ref, prev, cp, res : Becomes(o, l, ref, prev, cp, res) /\ (cp = p.cp \/ HasWant(p))
    BY <1>0, <1>3, LookDoes DEF MustRelocate
  <2>2. n.kind = p.kind /\ n.d = p.d /\ n.want = p.want /\ n.cp = cp /\ \A x \in Op : x # o => op'[x] = op[x]
    BY <2>1 DEF Becomes
  <2> QED
    BY <2>1, <2>2 DEF HasWant
<1>4. CASE ~Look(o) /\ ~CheckMerge(o) /\ ~CheckSwap(o)
  BY <1>4, PlacesStay, OpStepRecords
<1> QED
  BY <1>1, <1>2, <1>3, <1>4

\* The phases of an operation's step: none is denied, and only a move's job moves.
LEMMA PhasesStay ==
    ASSUME Base, NEW o \in Op, OpStep(o), NEW s \in Ref
    PROVE  After(s).ph # "none" => After(s).ph = At(s).ph \/ (op[o].kind = "claimed" /\ After(s).ph \in {"claimed", "moved"})
<1>1. CASE job' = job
  BY <1>1 DEF After, At
<1>2. ASSUME NEW r, NEW k, Changes(o, r, k) PROVE After(s).ph # "none" => After(s).ph = At(s).ph \/ (op[o].kind = "claimed" /\ After(s).ph \in {"claimed", "moved"})
  <2>1. After(s) = IF s = r THEN k ELSE At(s)
    BY <1>2, AfterIs DEF Changes
  <2>2. NoJob.ph = "none"
    BY DEF NoJob
  <2>3. k.ph # "none" => k.ph = At(r).ph \/ (op[o].kind = "claimed" /\ k.ph \in {"claimed", "moved"})
    BY <1>2, <2>2 DEF Changes, Grown, Added, Removed, Promoted, Returned
  <2> QED
    BY <2>1, <2>3
<1> QED
  BY <1>1, <1>2, OpStepChanges

LEMMA OpStepSettings == ASSUME Base, Settings, NEW o \in Op, OpStep(o) PROVE Settings'
<1> DEFINE p == op[o]
           n == op'[o]
<1>0. Typed /\ Shape(p) /\ UNCHANGED <<up, silent, runsOn, budget>>
  BY BaseIs, OpStepCalm
<1>1. \A x \in Op : x # o => op'[x] = op[x]
  BY RecordGoesOn
<1>2. IdleOp.kind = "none" /\ IdleOp.d.label = FirstLabel
  BY DEF IdleOp, NoData
<1>3. AllUp'
  <2>1. ASSUME NoReaps, NEW x \in Op PROVE op'[x].kind \in {"none", "enqueue", "redispatch"}
    <3>1. op[x].kind \in {"none", "enqueue", "redispatch"} /\ p.kind \in {"none", "enqueue", "redispatch"}
      BY <2>1 DEF Settings, AllUp
    <3> QED
      BY <1>1, <1>2, <3>1, RecordGoesOn
  <2> QED
    BY <1>0, <2>1 DEF Settings, AllUp
<1>4. ASSUME NEW s \in Ref, After(s).st # "none", At(s).st = "none"
      PROVE  /\ Alike => After(s).data.label = FirstLabel
             /\ NoMisfits => Fits(s[1], After(s).data.label)
  <2>1. After(s).data.label = p.d.label /\ (NoMisfits => Fits(s[1], After(s).data.label))
    BY <1>4, NewJobs, AddedFits
  <2> QED
    BY <2>1 DEF Settings, Uniform
<1>5. ASSUME Alike, NEW s \in Ref PROVE (After(s).st # "none" => After(s).data.label = FirstLabel) /\ After(s).ph # "denied"
  <2>1. (At(s).st # "none" => At(s).data.label = FirstLabel) /\ At(s).ph # "denied"
    BY <1>5 DEF Settings, Uniform
  <2> QED
    BY <1>4, <1>5, <2>1, LabelStays, PhasesStay
<1>6. ASSUME NoMisfits, NEW s \in Ref PROVE (After(s).st # "none" => Fits(s[1], After(s).data.label)) /\ After(s).ph \notin {"moving", "moved"}
  <2>1. (At(s).st # "none" => Fits(s[1], At(s).data.label)) /\ At(s).ph \notin {"moving", "moved"} /\ p.kind # "claimed"
    BY <1>6 DEF Settings, AllFit
  <2> QED
    BY <1>4, <1>6, <2>1, LabelStays, PhasesStay
<1>7. ASSUME Alike PROVE n.d.label = FirstLabel
  <2>1. p.d.label = FirstLabel /\ (p.src \in Ref /\ At(p.src).st # "none" => At(p.src).data.label = FirstLabel)
    BY <1>7 DEF Settings, Uniform
  <2> QED
    BY <1>2, <2>1, RecordGoesOn
<1>8. ASSUME Alike PROVE idx' # NoRef => Fits(idx'[1], FirstLabel)
  <2>1. /\ p.d.label = FirstLabel /\ (idx # NoRef => Fits(idx[1], FirstLabel)) /\ p.kind # "claimed"
        /\ (HasWant(p) => Fits(p.want, p.d.label))
        /\ (p.kind \in {"merge", "swap"} /\ p.cp # NoRef => Fits(p.cp[1], p.d.label))
    BY <1>8 DEF Settings, Uniform, AllFit, NoMisfits
  <2>2. CASE p.pc = "index" /\ idx' = Wanted(p)
    <3>1. HasWant(p)
      BY <1>0, <2>1, <2>2 DEF Shape, KindPc, HasWant, OpenPcs, CopyPcs
    <3> QED
      BY <2>1, <2>2, <3>1 DEF Wanted
  <2>3. CASE p.pc = "reindex" /\ idx' = p.cp
    <3>1. HasWant(p) \/ p.kind \in {"merge", "swap"}
      BY <1>0, <2>3 DEF Shape, KindPc, HasWant, OpenPcs, CopyPcs
    <3>2. HasWant(p) /\ p.cp # NoRef => p.cp = Wanted(p)
      BY <1>0 DEF Shape
    <3> QED
      BY <2>1, <2>3, <3>1, <3>2 DEF Wanted
  <2> QED
    BY <2>1, <2>2, <2>3, OpStepIndex
<1>9. ASSUME NoMisfits
      PROVE  /\ n.kind # "claimed"
             /\ n.kind \in {"enqueue", "redispatch"} => Fits(n.want, n.d.label)
             /\ n.kind \in {"merge", "swap"} /\ n.cp # NoRef => Fits(n.cp[1], n.d.label)
  <2>1. /\ p.kind # "claimed"
        /\ p.kind \in {"enqueue", "redispatch"} => Fits(p.want, p.d.label)
        /\ p.kind \in {"merge", "swap"} /\ p.cp # NoRef => Fits(p.cp[1], p.d.label)
    BY <1>9 DEF Settings, AllFit, HasWant
  <2>2. CASE n.kind = "merge" /\ p.kind = "reap" /\ n.d = At(p.src).data /\ n.cp = <<idx[1], nextId>> /\ idx # NoRef
             /\ p.src \in Ref /\ At(p.src).st # "none"
    <3>1. Alike
      BY <1>9, <2>2 DEF NoMisfits, Settings, AllUp
    <3>2. n.d.label = FirstLabel /\ Fits(idx[1], FirstLabel)
      BY <2>2, <3>1 DEF Settings, Uniform
    <3> QED
      BY <2>2, <3>2
  <2>3. CASE n.kind = "swap" /\ p.kind = "reap" /\ n.d = At(p.src).data /\ n.cp = <<p.want, p.src[2]>>
             /\ p.src \in Ref /\ At(p.src).st # "none"
    <3>1. n.d.label = p.want
      BY <2>3 DEF Base, SameLabel, Labelled
    <3> QED
      BY <2>3, <3>1 DEF Fits
  <2> QED
    BY <1>2, <2>1, <2>2, <2>3, RecordGoesOn
<1>10. Uniform'
  <2>1. \A x \in Op : Alike => op'[x].d.label = FirstLabel
    BY <1>1, <1>7 DEF Settings, Uniform
  <2> QED
    BY <1>0, <1>5, <1>8, <2>1 DEF Settings, Uniform, After, At
<1>11. AllFit'
  <2>1. ASSUME NoMisfits, NEW x \in Op
        PROVE  /\ op'[x].kind # "claimed"
               /\ op'[x].kind \in {"enqueue", "redispatch"} => Fits(op'[x].want, op'[x].d.label)
               /\ op'[x].kind \in {"merge", "swap"} /\ op'[x].cp # NoRef => Fits(op'[x].cp[1], op'[x].d.label)
    <3>1. CASE x = o
      BY <1>9, <2>1, <3>1
    <3>2. CASE x # o
      BY <1>1, <2>1, <3>2 DEF Settings, AllFit, HasWant
    <3> QED
      BY <3>1, <3>2
  <2> QED
    BY <1>6, <2>1 DEF AllFit, HasWant, After, At
<1> QED
  BY <1>3, <1>10, <1>11 DEF Settings

\* Nothing of a bound of zero is left.
LEMMA NoneLeft ==
    ASSUME Typed
    PROVE  /\ MaxCrashes = 0 => ~(budget.crashes > 0)
           /\ MaxRelabels = 0 => ~(budget.relabels > 0)
BY TurnQueueAssumption DEF Typed, Budget

\* Steps that leave jobs and operations alone.
Still ==
    /\ UNCHANGED <<job, op, moved, turnDone, up, nextId>> /\ idx' \in {idx, NoRef} /\ hist'.fin = hist.fin
    /\ \A m \in Msg : Accepted(m)' => Accepted(m)
    /\ Alike => runsOn' = runsOn
    /\ Pausing = {} /\ silent = {} => silent' = {}

LEMMA StillIs ==
    ASSUME Base,
           \/ AppendLockLapse \/ IndexLapse \/ \E i \in Id : GuardLapse(i)
           \/ \E n \in Node : Silence(n) \/ Resume(n)
           \/ \E l \in Label : Relabel(l)
           \/ \E m \in Msg : Follow(m)
           \/ UNCHANGED vars
    PROVE  Still
<1>0. Typed
  BY BaseTyped
<1>1. CASE AppendLockLapse \/ IndexLapse \/ \E i \in Id : GuardLapse(i)
  BY <1>1 DEF AppendLockLapse, IndexLapse, GuardLapse, world, view, Still, Accepted
<1>2. CASE \E n \in Node : Silence(n) \/ Resume(n)
  BY <1>2 DEF Silence, Resume, redis, view, Still, Accepted
<1>3. CASE \E l \in Label : Relabel(l)
  <2>1. budget.relabels > 0 /\ UNCHANGED <<job, idx, op, moved, turnDone, up, nextId, silent, hist, watch>>
    BY <1>3 DEF Relabel, redis, view
  <2>2. ~Alike
    BY <1>0, <2>1, NoneLeft DEF Alike
  <2> QED
    BY <2>1, <2>2 DEF Still, Accepted
<1>4. CASE UNCHANGED vars
  BY <1>4 DEF vars, redis, world, view, Still, Accepted
<1>5. CASE \E m \in Msg : Follow(m)
  <2>1. PICK m \in Msg : Follow(m)
    BY <1>5
  <2>2. CASE Close(m)
    BY <2>2 DEF Close, redis, world, view, Still, Accepted
  <2>3. CASE FollowMove(m)
    <3>1. UNCHANGED <<job, op, moved, turnDone, up, nextId, idx, runsOn, silent>> /\ watch[m] # NoRef
      BY <2>3 DEF FollowMove, redis, world, view, Polls
    <3>2. watch' = [watch EXCEPT ![m] = moved[@[2]]] /\ watch \in [Msg -> Ref \cup {NoRef}]
      BY <1>0, <2>3 DEF FollowMove, Typed, TypeOK
    <3>3. \A k \in Msg : k # m => watch'[k] = watch[k]
      BY <3>2
    <3>4. hist'.fin = hist.fin
      <4>1. hist' = hist \/ hist' = [hist EXCEPT !.misled = @ \cup {m}]
        BY <2>3 DEF FollowMove
      <4> QED
        BY <1>0, <4>1 DEF Typed, History
    <3> QED
      BY <3>1, <3>3, <3>4 DEF Still, Accepted
  <2> QED
    BY <2>1, <2>2, <2>3 DEF Follow
<1> QED
  BY <1>1, <1>2, <1>3, <1>4, <1>5

-----------------------------------------------------------------------------
LEMMA StillSettings == ASSUME Settings, Still PROVE Settings'
<1>1. Uniform'
  BY DEF Still, Settings, Uniform, At
<1>2. AllUp'
  BY DEF Still, Settings, AllUp
<1>3. AllFit'
  BY DEF Still, Settings, AllFit, At
<1> QED
  BY <1>1, <1>2, <1>3 DEF Settings

LEMMA TurnsSettings ==
    ASSUME Base, Settings, NEW r, Turns(r)
    PROVE  Settings'
<1> DEFINE j == At(r)
           k == After(r)
<1>0. /\ r \in Ref /\ op' = op /\ k.data = j.data /\ \A s \in Ref : s # r => After(s) = At(s)
      /\ UNCHANGED <<idx, moved, up, silent, runsOn, budget, nextId, watch>> /\ j.st # "none"
  BY DEF Turns, Has
<1>1. k.ph \in {"none", "claimed", "running", "ended", "denied", "mismatch", "other"} \/ k.ph = j.ph
  BY DEF Turns
<1>2. k.ph = "denied" => j.ph = "denied" \/ (j.st = "active" /\ j.snap.label # runsOn)
  BY DEF Turns, Has
<1>3. JobShape(j, r[1])
  BY <1>0, BaseTyped DEF JobShapes
<1>4. ASSUME Alike PROVE k.ph # "denied" /\ k.data.label = FirstLabel
  <2>1. j.ph # "denied" /\ j.data.label = FirstLabel /\ runsOn = FirstLabel
    BY <1>0, <1>4 DEF Settings, Uniform
  <2> QED
    BY <1>0, <1>2, <1>3, <2>1 DEF JobShape
<1>5. Uniform'
  <2>1. ASSUME Alike, NEW s \in Ref PROVE (After(s).st # "none" => After(s).data.label = FirstLabel) /\ After(s).ph # "denied"
    BY <1>0, <1>4, <2>1 DEF Settings, Uniform
  <2> QED
    BY <1>0, <2>1 DEF Settings, Uniform, After, At
<1>6. AllUp'
  BY <1>0 DEF Settings, AllUp
<1>7. AllFit'
  <2>1. ASSUME NoMisfits, NEW s \in Ref PROVE (After(s).st # "none" => Fits(s[1], After(s).data.label)) /\ After(s).ph \notin {"moving", "moved"}
    <3>1. (At(s).st # "none" => Fits(s[1], At(s).data.label)) /\ At(s).ph \notin {"moving", "moved"}
      BY <2>1 DEF Settings, AllFit
    <3> QED
      BY <1>0, <1>1, <3>1
  <2> QED
    BY <1>0, <2>1 DEF Settings, AllFit, After, At
<1> QED
  BY <1>5, <1>6, <1>7 DEF Settings

\* The start of an operation, what its record says and where it is to go.
BeginsFit(o, n) ==
    /\ Begins(o, n) /\ UNCHANGED <<silent, runsOn, budget, watch>> /\ hist'.fin = hist.fin
    /\ NoReaps => HasWant(n)
    /\ NoMisfits => n.kind # "claimed"
    /\ HasWant(n) => n.d.label = runsOn /\ n.d.tok = n.id /\ Fits(n.want, runsOn)
    /\ n.d = NoData \/ HasWant(n) \/ n.kind = "claimed"
    /\ n.kind = "claimed" =>
          /\ n.id = n.src[2] /\ n.id \notin turnDone
          /\ At(n.src).st = "active" /\ At(n.src).by \in up /\ At(n.src).snap = n.d

LEMMA BeginsSettings ==
    ASSUME Base, Settings, NEW o \in Op, NEW n, BeginsFit(o, n)
    PROVE  Settings'
<1>0. /\ op'[o] = n /\ \A x \in Op : x # o => op'[x] = op[x]
      /\ UNCHANGED <<idx, up, silent, runsOn>>
      /\ \A s \in Ref : After(s).st = At(s).st /\ After(s).data = At(s).data
      /\ n.kind \in {"enqueue", "redispatch", "reap", "claimed"}
  BY DEF BeginsFit, Begins, OpBecomes
<1>1. NoData.label = FirstLabel
  BY DEF NoData
<1>2. \A s \in Ref : After(s) = At(s) \/ (n.kind = "claimed" /\ After(s).ph = "moving")
  BY DEF BeginsFit, Begins
<1>3. Uniform'
  <2>1. ASSUME Alike, NEW s \in Ref PROVE (After(s).st # "none" => After(s).data.label = FirstLabel) /\ After(s).ph # "denied"
    BY <1>0, <1>2, <2>1 DEF Settings, Uniform
  <2>2. ASSUME Alike, NEW x \in Op PROVE op'[x].d.label = FirstLabel
    BY <1>0, <1>1, <2>2 DEF Settings, Uniform, BeginsFit, NoMisfits
  <2> QED
    BY <1>0, <2>1, <2>2 DEF Settings, Uniform, After, At
<1>4. AllUp'
  <2>1. ASSUME NoReaps, NEW x \in Op PROVE op'[x].kind \in {"none", "enqueue", "redispatch"}
    BY <1>0, <2>1 DEF Settings, AllUp, BeginsFit, HasWant
  <2> QED
    BY <1>0, <2>1 DEF Settings, AllUp
<1>5. AllFit'
  <2>1. ASSUME NoMisfits, NEW s \in Ref PROVE (After(s).st # "none" => Fits(s[1], After(s).data.label)) /\ After(s).ph \notin {"moving", "moved"}
    BY <1>0, <1>2, <2>1 DEF Settings, AllFit, BeginsFit
  <2>2. ASSUME NoMisfits, NEW x \in Op
        PROVE  /\ op'[x].kind # "claimed"
               /\ HasWant(op'[x]) => Fits(op'[x].want, op'[x].d.label)
               /\ op'[x].kind \in {"merge", "swap"} /\ op'[x].cp # NoRef => Fits(op'[x].cp[1], op'[x].d.label)
    BY <1>0, <2>2 DEF Settings, AllFit, BeginsFit
  <2> QED
    BY <2>1, <2>2 DEF AllFit, HasWant, After, At
<1> QED
  BY <1>3, <1>4, <1>5 DEF Settings

LEMMA StartEnqueueFit ==
    ASSUME Base, Settings, NEW o \in Op, NEW m \in Msg, NEW q \in Queue, StartEnqueue(o, m, q)
    PROVE  BeginsFit(o, Enqueues(m, q))
<1> DEFINE n == Enqueues(m, q)
<1>1. /\ op[o].pc = "idle" /\ OpBecomes(o, n) /\ nextId' = nextId + 1
      /\ UNCHANGED <<job, idx, moved, turnDone, appendLock, up>>
  BY BaseTyped, StartEnqueueDoes
<1>2. /\ n.pc = "acquire" /\ n.kind = "enqueue" /\ n.cp = NoRef /\ n.id = nextId /\ n.d.label = runsOn
      /\ n.d.tok = nextId /\ n.want = q
  BY DEF Enqueues, IdleOp
<1>3. UNCHANGED <<silent, runsOn, budget, watch>> /\ q \in Target(runsOn)
  BY DEF StartEnqueue, world, view
<1>4. hist'.fin = hist.fin
  <2>1. hist' = [hist EXCEPT !.sent = @ \cup {m}] /\ hist \in History
    BY BaseTyped DEF StartEnqueue, Typed
  <2> QED
    BY <2>1 DEF History
<1> HIDE DEF n
<1>5. HasWant(n) /\ ~Moves(n)
  BY <1>2 DEF HasWant, Moves
<1>6. Begins(o, n)
  BY <1>1, <1>2, <1>5 DEF Begins, After, At
<1>7. Fits(q, runsOn)
  BY <1>3 DEF Target, Fits
<1>8. BeginsFit(o, n)
  BY <1>2, <1>3, <1>4, <1>5, <1>6, <1>7 DEF BeginsFit
<1> QED
  BY <1>8 DEF n

LEMMA StartRedispatchFit ==
    ASSUME Base, Settings, NEW o \in Op, NEW m \in Msg, StartRedispatch(o, m)
    PROVE  BeginsFit(o, Redispatches(watch[m]))
<1> DEFINE r == watch[m]
           n == Redispatches(r)
<1>1. /\ op[o].pc = "idle" /\ OpBecomes(o, n) /\ nextId' = nextId + 1
      /\ r \in Ref /\ At(r).st = "failed"
      /\ UNCHANGED <<job, idx, moved, turnDone, appendLock, up>>
  BY BaseTyped, StartRedispatchDoes DEF Redispatchable
<1>2. n.pc = "acquire" /\ n.kind = "redispatch" /\ n.cp = NoRef /\ n.id = nextId /\ n.src = r /\ n.want = runsOn
  BY DEF Redispatches, IdleOp
<1>3. n.d.label = runsOn /\ n.d.tok = nextId
  <2>1. At(r).data \in Data
    BY <1>1, BaseTyped, PlaceIs
  <2>2. n.d = [At(r).data EXCEPT !.label = runsOn, !.tok = nextId, !.att = @ + 1]
    BY DEF Redispatches, IdleOp
  <2> HIDE DEF n
  <2> QED
    BY <2>1, <2>2 DEF Data
<1>4. UNCHANGED <<silent, runsOn, budget, watch>>
  BY DEF StartRedispatch, world, view
<1>5. hist'.fin = hist.fin
  <2>1. (\E f : hist' = [hist EXCEPT !.again = f]) /\ hist \in History
    BY BaseTyped DEF StartRedispatch, Typed
  <2> QED
    BY <2>1 DEF History
<1> HIDE DEF n, r
<1>6. HasWant(n)
  BY <1>2 DEF HasWant
<1>7. Begins(o, n)
  BY <1>1, <1>2, <1>6 DEF Begins, After, At
<1>8. BeginsFit(o, n)
  BY <1>2, <1>3, <1>4, <1>5, <1>6, <1>7 DEF BeginsFit, Fits
<1> QED
  BY <1>8 DEF n, r

LEMMA StartReapFit ==
    ASSUME Base, Settings, NEW o \in Op, NEW w \in Warm, NEW i \in Id, StartReap(o, w, i)
    PROVE  BeginsFit(o, Reaps(<<w, i>>))
<1> DEFINE r == <<w, i>>
           n == Reaps(r)
<1>1. /\ op[o].pc = "idle" /\ OpBecomes(o, n) /\ nextId' = nextId /\ w \notin Beating
      /\ r \in Ref /\ (Pending(At(r)) \/ At(r).st = "active")
      /\ UNCHANGED <<job, idx, moved, turnDone, appendLock, up, silent, runsOn, budget, watch, hist>>
  BY BaseTyped, StartReapDoes
<1>2. n.pc = "acquire" /\ n.kind = "reap" /\ n.cp = NoRef /\ n.src = r /\ n.want = At(r).data.label /\ n.d = NoData
  BY DEF Reaps, IdleOp
<1> HIDE DEF n, r
<1>3. ~HasWant(n) /\ At(r).st # "none"
  BY <1>1, <1>2 DEF HasWant, Pending
<1>4. Begins(o, n)
  BY <1>1, <1>2, <1>3 DEF Begins, After, At
<1>5. ~NoReaps
  BY <1>1, TurnQueueAssumption DEF NoReaps, Settings, AllUp, Beating
<1>6. BeginsFit(o, n)
  BY <1>1, <1>2, <1>3, <1>4, <1>5 DEF BeginsFit
<1> QED
  BY <1>6 DEF n, r

\* Where every job fits, no worker has one to move.
LEMMA StartClaimedMoveFit ==
    ASSUME Base, Settings, NEW o \in Op, NEW q \in Queue, NEW i \in Id, StartClaimedMove(o, q, i)
    PROVE  BeginsFit(o, MovesClaimed(<<q, i>>))
<1> DEFINE r == <<q, i>>
           j == At(r)
           n == MovesClaimed(r)
<1>1. /\ r \in Ref /\ j.by \in up /\ i \notin turnDone
      /\ j.snap.label \notin Carries[j.by] /\ q # j.snap.label
      /\ UNCHANGED <<silent, runsOn, budget, watch, hist>>
  BY BaseTyped, StartClaimedMoveDoes
<1>2. Begins(o, n) /\ j.st = "active"
  BY StartClaimedMoveBegins
<1>3. n.kind = "claimed" /\ n.id = i /\ n.src = r /\ n.d = j.snap /\ r[2] = i
  BY DEF MovesClaimed, IdleOp
<1>4. j.by \in Node /\ q \in Carries[j.by] \cup {j.by} /\ j.snap.label = j.data.label
  BY <1>1, <1>2, BaseTyped DEF JobShapes, JobShape
<1>5. ~NoMisfits
  <2> SUFFICES ASSUME NoMisfits PROVE FALSE
    OBVIOUS
  <2>1. Fits(q, j.snap.label)
    BY <1>1, <1>2, <1>4 DEF Settings, AllFit
  <2>2. q \in Warm /\ j.snap.label \in Carries[q]
    BY <1>1, <2>1 DEF Fits
  <2>3. q \notin Carries[j.by]
    BY <1>4, <2>2, TurnQueueAssumption
  <2> QED
    BY <1>1, <1>4, <2>2, <2>3
<1> HIDE DEF n, r
<1>6. ~NoReaps /\ ~HasWant(n)
  BY <1>3, <1>5 DEF NoMisfits, HasWant
<1>7. BeginsFit(o, n)
  BY <1>1, <1>2, <1>3, <1>5, <1>6 DEF BeginsFit
<1> QED
  BY <1>7 DEF n, r

-----------------------------------------------------------------------------
\* An operation dies half way; only where nothing is reaped.
Crashes(o) ==
    /\ NoReaps /\ MaxCrashes # 0 /\ op[o].pc \notin {"idle", "acquire"} /\ OpBecomes(o, IdleOp)
    /\ UNCHANGED <<job, idx, moved, turnDone, up, silent, runsOn, nextId, watch, hist>>

\* A node dies; only where no worker moves a job.
Dies(n) ==
    /\ Alike /\ MaxCrashes = 0 /\ n \in up /\ up' = up \ {n} /\ op' = op
    /\ UNCHANGED <<job, idx, moved, turnDone, silent, runsOn, nextId, watch, hist>>
    /\ Mortal # {}

LEMMA CrashesIs ==
    ASSUME Base, Few, NEW o \in Op, OpCrash(o)
    PROVE  Crashes(o)
BY BaseTyped, OpCrashDoes, NoneLeft DEF Crashes, Few, NoReaps

LEMMA DiesIs ==
    ASSUME Base, Settings, Few, NEW n \in Node, NodeCrash(n)
    PROVE  Dies(n)
<1>1. /\ n \in Mortal /\ n \in up /\ up' = up \ {n} /\ op' \in [Op -> Operation]
      /\ \A o \in Op : op'[o] = IF op[o].by = n THEN IdleOp ELSE op[o]
      /\ UNCHANGED <<job, idx, moved, turnDone, silent, runsOn, nextId, watch, hist>>
  BY BaseTyped, NodeCrashDoes
<1>2. Alike /\ MaxCrashes = 0
  BY <1>1 DEF Few, Alike
<1>3. \A o \in Op : op[o].by # n
  <2> SUFFICES ASSUME NEW o \in Op, op[o].by = n PROVE FALSE
    OBVIOUS
  <2>1. op[o].kind = "claimed"
    BY BaseIs, TurnQueueAssumption DEF Shape
  <2> QED
    BY <1>2, <2>1 DEF Settings, AllFit, NoMisfits
<1>4. op' = op
  BY <1>1, <1>3, BaseTyped DEF Typed, TypeOK
<1> QED
  BY <1>1, <1>2, <1>4 DEF Dies

\* The kinds of steps.
LEMMA NextIs ==
    ASSUME Base, Settings, Few, [Next]_vars
    PROVE  \/ \E o \in Op : OpStep(o)
           \/ \E r : Turns(r)
           \/ \E o \in Op : \E n : BeginsFit(o, n)
           \/ \E o \in Op : Crashes(o)
           \/ \E n \in Node : Dies(n)
           \/ Still
<1>1. ASSUME NEW o \in Op, Start(o) PROVE \E n : BeginsFit(o, n)
  BY <1>1, StartEnqueueFit, StartRedispatchFit, StartReapFit DEF Start
<1>2. ASSUME NEW q \in Queue, NEW i \in Id, Process(q, i) \/ Timer(q, i) \/ \E n \in Node : Claim(n, q, i)
      PROVE  Turns(<<q, i>>) \/ \E o \in Op : \E n : BeginsFit(o, n)
  <2>1. CASE \E o \in Op : StartClaimedMove(o, q, i)
    BY <2>1, StartClaimedMoveFit
  <2>2. CASE ~\E o \in Op : StartClaimedMove(o, q, i)
    BY <1>2, <2>2, WorkTurns DEF Process
  <2> QED
    BY <2>1, <2>2
<1>3. ASSUME Fault PROVE (\E o \in Op : Crashes(o)) \/ (\E n \in Node : Dies(n)) \/ Still
  BY <1>3, CrashesIs, DiesIs, StillIs DEF Fault
<1> QED
  BY <1>1, <1>2, <1>3, StillIs DEF Next

LEMMA SettingsNext == ASSUME Base, Settings, Few, [Next]_vars PROVE Settings'
<1>1. ASSUME NEW o \in Op, Crashes(o) PROVE Settings'
  <2>1. /\ op'[o] = IdleOp /\ \A x \in Op : x # o => op'[x] = op[x]
        /\ UNCHANGED <<job, idx, up, silent, runsOn>>
    BY <1>1 DEF Crashes, OpBecomes
  <2>2. IdleOp.kind = "none" /\ IdleOp.d.label = FirstLabel /\ ~HasWant(IdleOp)
    BY DEF IdleOp, NoData, HasWant
  <2>3. Uniform' /\ AllUp'
    BY <2>1, <2>2 DEF Settings, Uniform, AllUp, At
  <2>4. ASSUME NoMisfits, NEW x \in Op
        PROVE  /\ op'[x].kind # "claimed"
               /\ HasWant(op'[x]) => Fits(op'[x].want, op'[x].d.label)
               /\ op'[x].kind \in {"merge", "swap"} /\ op'[x].cp # NoRef => Fits(op'[x].cp[1], op'[x].d.label)
    BY <2>1, <2>2, <2>4 DEF Settings, AllFit
  <2>5. AllFit'
    BY <2>1, <2>4 DEF Settings, AllFit, At, HasWant
  <2> QED
    BY <2>3, <2>5 DEF Settings
<1>2. ASSUME NEW n \in Node, Dies(n) PROVE Settings'
  BY <1>2 DEF Dies, Settings, Uniform, AllUp, AllFit, At
<1> QED
  BY <1>1, <1>2, NextIs, OpStepSettings, TurnsSettings, BeginsSettings, StillSettings

LEMMA SettingsInit == ASSUME Init PROVE Settings
<1>1. \A r \in Ref : At(r) = NoJob
  BY RefIs DEF Init, At
<1>2. NoJob.st = "none" /\ NoJob.ph = "none" /\ IdleOp.kind = "none" /\ IdleOp.d.label = FirstLabel /\ ~HasWant(IdleOp)
  BY DEF NoJob, IdleOp, NoData, HasWant
<1>3. \A o \in Op : op[o] = IdleOp
  BY DEF Init
<1>4. idx = NoRef /\ runsOn = FirstLabel /\ up = Node /\ silent = {}
  BY DEF Init
<1> QED
  BY <1>1, <1>2, <1>3, <1>4 DEF Settings, Uniform, AllUp, AllFit

\* The action of an operation at each place.
LEMMA StepAt ==
    ASSUME NEW o \in Op, OpStep(o)
    PROVE  LET pc == op[o].pc IN
           /\ pc = "acquire" => Acquire(o)
           /\ pc = "look" => Look(o)
           /\ pc = "senders" => RecordSenders(o)
           /\ pc = "update" => UpdateData(o)
           /\ pc = "recheck" => Recheck(o)
           /\ pc = "index" => Index(o)
           /\ pc = "add" => Add(o)
           /\ pc = "marksrc" => MarkSource(o)
           /\ pc = "check" => CheckMoved(o) \/ CheckClaimed(o) \/ CheckMerge(o) \/ CheckSwap(o)
           /\ pc = "copy" => AddCopy(o)
           /\ pc = "markcopy" => MarkCopy(o)
           /\ pc = "take" => Take(o)
           /\ pc = "drop" => DropCopy(o)
           /\ pc = "unmark" => Unmark(o)
           /\ pc = "promote" => Promote(o)
           /\ pc = "reindex" => Reindex(o)
           /\ pc = "takehold" => TakeHold(o)
           /\ pc = "markhold" => MarkHold(o)
           /\ pc = "release" => Release(o)
           /\ pc = "markfailed" => MarkFailed(o)
           /\ pc # "idle"
BY DEF OpStep, Acquire, Release, MarkFailed, Look, RecordSenders, UpdateData, Recheck, Index, Add,
       MarkSource, CheckMoved, CheckClaimed, CheckMerge, CheckSwap, AddCopy, MarkCopy, Take, DropCopy,
       Unmark, Promote, Reindex, TakeHold, MarkHold, ToMove

-----------------------------------------------------------------------------
(***************************************************************************)
(* Where a turn lives: the jobs of its id that may still run it            *)
(***************************************************************************)
\* An operation is done with the job at r, or not yet: its held copy before
\* the original is taken, the copy of a merge that was appended, the job of a
\* worker that was moved.
Leaving(p, r) ==
    \/ p.pc \in {"markcopy", "take", "drop", "takehold"} /\ p.cp = r
    \/ p.kind = "claimed" /\ p.src = r /\ (p.pc = "marksrc" \/ (p.pc = "release" /\ p.res # NoRef))
LeftBehind(r) == \E o \in Op : Leaving(op[o], r)

Runs(j) == Pending(j) \/ (j.st = "active" /\ j.ph # "moved")
LiveAt(r) == Runs(At(r)) /\ ~LeftBehind(r)

\* One job of an id is live, and then none of the id is failed.
Sole == \A r, s \in Ref : r[2] = s[2] /\ LiveAt(r) /\ (LiveAt(s) \/ At(s).st = "failed") => r = s

\* And a job of the id on the label's queue is that one.
Home == \A r, s \in Ref :
    r[2] = s[2] /\ LiveAt(r) /\ At(s).st # "none" /\ ~LeftBehind(s) /\ s[1] = At(r).data.label => r = s

\* The append lock's holder alone leaves jobs behind.
LEMMA FreeLeaves == ASSUME NEW p, p.pc \in Free, NEW r PROVE ~Leaving(p, r)
BY DEF Leaving, Free

LEMMA HolderIs ==
    ASSUME Base, ~SlowOps, NEW o \in Op, OpStep(o), ~MarkFailed(o)
    PROVE  /\ \A x \in Op : x # o => op[x].pc \in Free /\ op'[x] = op[x]
           /\ \A r : LeftBehind(r) <=> Leaving(op[o], r)
           /\ \A r : LeftBehind(r)' <=> Leaving(op'[o], r)
<1>1. op[o].pc \notin Free \/ appendLock = NoOp
  <2>1. CASE op[o].pc = "acquire"
    BY <2>1, StepAt, AcquireDoes, BaseTyped DEF LockFree
  <2>2. CASE op[o].pc # "acquire"
    BY <2>2, StepAt DEF Free
  <2> QED
    BY <2>1, <2>2
<1>2. \A x \in Op : x # o => op[x].pc \in Free /\ op'[x] = op[x]
  BY <1>1, HolderAlone, RecordGoesOn
<1>3. ASSUME NEW r PROVE LeftBehind(r) <=> Leaving(op[o], r)
  BY <1>2, FreeLeaves DEF LeftBehind
<1>4. ASSUME NEW r PROVE LeftBehind(r)' <=> Leaving(op'[o], r)
  <2>1. ASSUME NEW x \in Op, x # o PROVE ~Leaving(op'[x], r)
    BY <1>2, <2>1, FreeLeaves
  <2>2. LeftBehind(r)' <=> \E x \in Op : Leaving(op'[x], r)
    BY DEF LeftBehind, Leaving
  <2> QED
    BY <2>1, <2>2
<1> QED
  BY <1>2, <1>3, <1>4

LEMMA MarkFailedLeaves ==
    ASSUME Base, NEW o \in Op, MarkFailed(o)
    PROVE  /\ op[o].pc = "markfailed" /\ op'[o] = IdleOp /\ \A x \in Op : x # o => op'[x] = op[x]
           /\ \A r : LeftBehind(r)' <=> LeftBehind(r)
           /\ UNCHANGED <<job, idx, turnDone, up, silent, runsOn, budget, nextId, watch, shown, hist>>
           /\ moved' = [moved EXCEPT ![op[o].src[2]] = op[o].res]
<1>1. /\ op[o].pc = "markfailed" /\ op'[o] = IdleOp /\ \A x \in Op : x # o => op'[x] = op[x]
      /\ UNCHANGED <<job, idx, turnDone, up, silent, runsOn, budget, nextId, watch, shown, hist>>
      /\ moved' = [moved EXCEPT ![op[o].src[2]] = op[o].res]
  BY BaseTyped, MarkFailedDoes DEF OpBecomes
<1>2. ASSUME NEW r PROVE LeftBehind(r)' <=> LeftBehind(r)
  <2>1. ~Leaving(op[o], r) /\ ~Leaving(op'[o], r)
    BY <1>1, FreeLeaves, IdleIs DEF Free
  <2>2. LeftBehind(r)' <=> \E x \in Op : Leaving(op'[x], r)
    BY DEF LeftBehind, Leaving
  <2> QED
    BY <1>1, <2>1, <2>2 DEF LeftBehind
<1> QED
  BY <1>1, <1>2

\* What is left behind is a held copy, or a job a live worker moves.
LEMMA LeftIsHeld ==
    ASSUME Base, NEW r, LeftBehind(r)
    PROVE  \/ At(r).st = "held" /\ \E o \in Op : op[o].cp = r
           \/ At(r).st = "active" /\ At(r).ph = "moving" /\ At(r).by \in up
<1>1. PICK o \in Op : Leaving(op[o], r)
  BY DEF LeftBehind
<1>2. CASE op[o].pc \in {"markcopy", "take", "drop", "takehold"} /\ op[o].cp = r
  <2>1. HasCopy(op[o])
    BY <1>2, BaseIs DEF HasCopy, Shape, KindPc, OpenPcs, CopyPcs
  <2> QED
    BY <1>2, <2>1, BaseIs DEF CopyStays
<1>3. CASE op[o].kind = "claimed" /\ op[o].src = r
  BY <1>3 DEF Base, ClaimStays
<1> QED
  BY <1>1, <1>2, <1>3 DEF Leaving

\* A job a dead worker holds was not moved.
LEMMA NoDeadMoved ==
    ASSUME Base, Settings, Few, NEW r \in Ref, At(r).st = "active", At(r).by \notin up
    PROVE  At(r).ph # "moved" /\ (At(r).ph = "denied" => FALSE)
<1>1. At(r).by \in Node
  BY BaseTyped DEF JobShapes, JobShape
<1>2. Mortal # {}
  BY <1>1 DEF Settings, AllUp
<1>3. Alike
  BY <1>2 DEF Few, Alike
<1> QED
  BY <1>3 DEF Settings, Uniform, AllFit, NoMisfits

-----------------------------------------------------------------------------
(***************************************************************************)
(* How an operation's step changes where turns live                        *)
(***************************************************************************)
\* The original is taken, and the turn goes on in the copy.
TakesOver(o) ==
    LET p == op[o] IN
    p.pc = "take" /\ Takeable(p, At(Original(p))) /\ Original(p)[2] \notin turnDone

\* A job whose turn the operation brings to the place s.
Arrives(o, s) ==
    \/ op[o].pc = "add" /\ s = Wanted(op[o])
    \/ TakesOver(o) /\ s = op[o].cp

LEMMA StopsLeaving ==
    ASSUME Base, NEW o \in Op, OpStep(o), NEW s \in Ref, Leaving(op[o], s), ~Leaving(op'[o], s),
           After(s).st # "none"
    PROVE  \/ TakesOver(o) /\ s = op[o].cp /\ op'[o].pc \in {"look", "promote"}
           \/ op[o].kind = "claimed" /\ s = op[o].src /\ op'[o] = IdleOp /\ After(s).ph = "moved"
<1> DEFINE p == op[o]
           n == op'[o]
<1>0. Typed /\ Shape(p)
  BY BaseIs
<1>1. CASE p.pc = "markcopy"
  <2>1. n.pc = "take" /\ n.cp = p.cp /\ p.kind # "claimed"
    BY <1>0, <1>1, StepAt, MarkCopyDoes DEF Becomes, Shape, KindPc, OpenPcs, CopyPcs
  <2> QED
    BY <1>1, <2>1 DEF Leaving
<1>2. CASE p.pc = "take"
  <2>1. p.kind # "claimed" /\ s = p.cp
    BY <1>0, <1>2 DEF Shape, KindPc, OpenPcs, CopyPcs, Leaving
  <2>2. /\ n.cp = p.cp
        /\ n.pc = IF ~Takeable(p, At(Original(p))) \/ Original(p)[2] \in turnDone THEN "drop"
                  ELSE IF p.kind = "merge" THEN "look" ELSE "promote"
    BY <1>0, <1>2, StepAt, TakeDoes DEF Becomes
  <2>3. n.pc # "drop"
    BY <2>1, <2>2 DEF Leaving
  <2> QED
    BY <1>2, <2>1, <2>2, <2>3 DEF TakesOver
<1>3. CASE p.pc = "drop"
  <2>1. p.kind # "claimed" /\ s = p.cp
    BY <1>0, <1>3 DEF Shape, KindPc, OpenPcs, CopyPcs, Leaving
  <2>2. After(p.cp).st = "none"
    BY <1>3, StepAt, DropCopyTouches, AfterIs DEF NoJob
  <2> QED
    BY <2>1, <2>2
<1>4. CASE p.pc = "takehold"
  <2>1. p.kind # "claimed" /\ s = p.cp
    BY <1>0, <1>4 DEF Shape, KindPc, OpenPcs, CopyPcs, Leaving
  <2>2. After(p.cp).st = "none"
    BY <1>4, StepAt, TakeHoldTouches, AfterIs DEF NoJob
  <2> QED
    BY <2>1, <2>2
<1>5. CASE p.kind = "claimed" /\ p.src = s /\ p.pc = "marksrc"
  <2>1. n.pc = "release" /\ n.kind = p.kind /\ n.src = p.src /\ n.res = p.res
    BY <1>0, <1>5, StepAt, MarkSourceDoes DEF Becomes
  <2>2. p.res # NoRef
    BY <1>0, <1>5, TurnQueueAssumption DEF Shape, Ref
  <2> QED
    BY <1>5, <2>1, <2>2 DEF Leaving
<1>6. CASE p.kind = "claimed" /\ p.src = s /\ p.pc = "release" /\ p.res # NoRef
  <2> DEFINE k == [At(p.src) EXCEPT !.ph = IF p.res = NoRef THEN "claimed" ELSE "moved"]
  <2>1. OpBecomes(o, IdleOp) /\ JobBecomes(p.src, k) /\ k.ph = "moved"
    BY <1>6, StepAt, ReleaseTouches
  <2> QED
    BY <1>6, <2>1, AfterIs DEF OpBecomes
<1> QED
  BY <1>1, <1>2, <1>3, <1>4, <1>5, <1>6 DEF Leaving

\* A step of an operation brings a turn to a place, or it lived there.
LEMMA OpStepLives ==
    ASSUME Base, ~SlowOps, NEW o \in Op, OpStep(o), NEW s \in Ref
    PROVE  /\ LiveAt(s)' => LiveAt(s) \/ Arrives(o, s)
           /\ After(s).st = "failed" => At(s).st = "failed"
           /\ After(s).st # "none" /\ ~LeftBehind(s)' =>
                 \/ At(s).st # "none" /\ ~LeftBehind(s)
                 \/ Arrives(o, s)
                 \/ op[o].kind = "claimed" /\ s = op[o].src
<1> DEFINE p == op[o]
           n == op'[o]
<1>0. Typed /\ Shape(p)
  BY BaseIs
<1>1. LiveAt(s)' <=> Runs(After(s)) /\ ~LeftBehind(s)'
  BY DEF LiveAt, Runs, Pending, After, At
<1>a. ~Runs(NoJob) /\ NoJob.st = "none"
  BY DEF Runs, Pending, NoJob
<1>2. CASE MarkFailed(o)
  <2>1. After(s) = At(s) /\ (LeftBehind(s)' <=> LeftBehind(s))
    BY <1>2, MarkFailedLeaves DEF After, At
  <2> QED
    BY <1>1, <2>1 DEF LiveAt
<1>3. CASE ~MarkFailed(o)
  <2>0. (LeftBehind(s) <=> Leaving(p, s)) /\ (LeftBehind(s)' <=> Leaving(n, s))
    BY <1>3, HolderIs
  <2>1. ASSUME ~LeftBehind(s)', After(s) # At(s)
        PROVE  /\ Runs(After(s)) => Runs(At(s)) \/ Arrives(o, s)
               /\ After(s).st = "failed" => At(s).st = "failed"
               /\ After(s).st # "none" => At(s).st # "none" \/ Arrives(o, s)
    <3>1. PICK r, k : Changes(o, r, k)
      BY <2>1, OpStepChanges DEF After, At
    <3>2. s = r /\ After(s) = k
      BY <2>1, <3>1, AfterIs DEF Changes
    <3>3. CASE Added(At(r), k)
      <4>1. ASSUME p.pc = "copy" /\ r = p.cp PROVE FALSE
        <5>1. n.pc = "markcopy" /\ n.cp = p.cp
          BY <1>0, <4>1, StepAt, AddCopyDoes DEF Becomes
        <5> QED
          BY <2>0, <2>1, <3>2, <4>1, <5>1 DEF Leaving
      <4>2. p.pc = "add" /\ r = Wanted(p)
        BY <3>1, <3>3, <4>1, <1>a DEF Changes, Added, Grown, Removed, Promoted, Returned, Pending
      <4> QED
        BY <3>2, <3>3, <4>2 DEF Arrives, Added
    <3>4. CASE ~Added(At(r), k)
      BY <1>a, <3>1, <3>2, <3>4 DEF Changes, Grown, Removed, Promoted, Returned, Runs, Pending
    <3> QED
      BY <3>3, <3>4
  <2>2. ASSUME After(s).st = "failed" PROVE At(s).st = "failed"
    <3>1. ASSUME NEW r, NEW k, Changes(o, r, k), s = r PROVE k.st = "failed" => At(s).st = "failed"
      BY <1>a, <3>1 DEF Changes, Grown, Added, Removed, Promoted, Returned, Pending
    <3>2. ASSUME job' # job PROVE At(s).st = "failed"
      <4>1. PICK r, k : Changes(o, r, k)
        BY <3>2, OpStepChanges
      <4>2. After(s) = IF s = r THEN k ELSE At(s)
        BY <4>1, AfterIs DEF Changes
      <4> QED
        BY <2>2, <3>1, <4>1, <4>2
    <3> QED
      BY <2>2, <3>2 DEF After, At
  <2>3. ASSUME LeftBehind(s), ~LeftBehind(s)', After(s).st # "none"
        PROVE  Arrives(o, s) \/ (p.kind = "claimed" /\ s = p.src /\ After(s).ph = "moved")
    BY <2>0, <2>3, StopsLeaving DEF Arrives
  <2>4. ASSUME LiveAt(s)' PROVE LiveAt(s) \/ Arrives(o, s)
    <3>1. Runs(After(s)) /\ ~LeftBehind(s)' /\ After(s).st # "none"
      BY <1>1, <2>4 DEF Runs, Pending
    <3>2. After(s).ph = "moved" => Pending(After(s))
      BY <3>1 DEF Runs
    <3>3. JobShapes'
      BY OpStepStays
    <3>4. After(s).ph # "moved"
      BY <3>2, <3>3 DEF JobShapes, JobShape, After, At, Pending
    <3>5. Runs(At(s)) \/ Arrives(o, s)
      BY <2>1, <3>1
    <3> QED
      BY <2>3, <3>1, <3>4, <3>5 DEF LiveAt
  <2> QED
    BY <2>1, <2>2, <2>3, <2>4
<1> QED
  BY <1>2, <1>3

\* Before a move takes the job, no other of its id is live.
Choosing(p) == p.pc \in {"copy", "markcopy", "take"} \/ (p.pc = "senders" /\ Relocating(p))
OnlyOriginal ==
    \A o \in Op, r \in Ref :
        Choosing(op[o]) /\ r[2] = Original(op[o])[2] /\ LiveAt(r) => r = Original(op[o])

Lives == Sole /\ Home /\ OnlyOriginal

\* The job a move takes was live.
LEMMA TakenLives ==
    ASSUME Base, Settings, Few, ~SlowOps, NEW o \in Op, op[o].pc = "take",
           Takeable(op[o], At(Original(op[o]))), OpStep(o)
    PROVE  LiveAt(Original(op[o])) /\ Original(op[o]) \in Ref
           /\ (At(Original(op[o])).st = "active" => At(Original(op[o])).by \notin up)
<1> DEFINE p == op[o]
           r == Original(p)
<1>0. r \in Ref /\ r # p.cp
  BY OriginalApart DEF CopyPcs
<1>1. JobShape(At(r), r[1])
  BY <1>0, BaseTyped DEF JobShapes
<1>2. Pending(At(r)) \/ (At(r).st = "active" /\ ~At(r).locked)
  BY DEF Takeable
<1>3. At(r).st = "active" => ~At(r).locked
  BY <1>2 DEF Pending
<1>4. At(r).st = "active" => At(r).by \notin up
  BY <1>1, <1>3 DEF JobShape
<1>5. Runs(At(r))
  BY <1>0, <1>2, <1>4, NoDeadMoved DEF Runs
<1>6. ~LeftBehind(r)
  <2>1. ~MarkFailed(o)
    BY MarkFailedLeaves
  <2>2. p.kind # "claimed"
    BY BaseIs DEF Shape, KindPc, OpenPcs, CopyPcs
  <2> QED
    BY <1>0, <2>1, <2>2, HolderIs DEF Leaving
<1> QED
  BY <1>0, <1>4, <1>5, <1>6 DEF LiveAt

\* A turn comes to a job of a new id, or from the job that was moved.
ArrivesNew(o, s) ==
    LET p == op[o] IN
    /\ OwnsId(p) /\ Unused(p) /\ s[2] = p.id
    /\ \A r \in Ref : r[2] = s[2] /\ r # s => At(r).st = "none" /\ After(r).st = "none"
ArrivesHome(o, s) ==
    \E h \in Ref :
        /\ op[o].kind \in {"claimed", "swap"} /\ op[o].src = h /\ h[2] = s[2] /\ h # s
        /\ LiveAt(h) /\ ~LiveAt(h)' /\ s[1] = After(s).data.label

LEMMA Arrival ==
    ASSUME Base, Settings, Few, ~SlowOps, NEW o \in Op, OpStep(o), NEW s \in Ref, Arrives(o, s)
    PROVE  After(s).st \in {"waiting", "held"} /\ (ArrivesNew(o, s) \/ ArrivesHome(o, s))
<1> DEFINE p == op[o]
           n == op'[o]
<1>0. Typed /\ Shape(p) /\ CopyStays(p) /\ (Unused(p) => UnusedIs(p)) /\ Apart(p)
  BY BaseIs
<1>1. ~MarkFailed(o)
  BY MarkFailedLeaves DEF Arrives, TakesOver
<1>2. CASE p.pc = "add" /\ s = Wanted(p)
  <2>1. After(s).st \in {"waiting", "held"} /\ After(s).data = p.d /\ \A r \in Ref : r # s => After(r) = At(r)
    <3>1. Add(o)
      BY <1>2, StepAt
    <3>2. PICK k : JobBecomes(s, k) /\ Added(At(s), k) /\ k.data = p.d
      BY <1>2, <3>1, AddTouches
    <3>3. \A r \in Ref : After(r) = IF r = s THEN k ELSE At(r)
      BY <3>2, AfterIs
    <3> QED
      BY <3>2, <3>3 DEF Added
  <2>2. CASE /\ OwnsId(p) /\ Unused(p) /\ s[2] = p.id
             /\ \A r \in Ref : r[2] = s[2] => At(r).st = "none"
    BY <2>1, <2>2 DEF ArrivesNew
  <2>3. CASE p.kind \in {"claimed", "swap"} /\ p.src \in Ref /\ s[2] = p.src[2] /\ s[1] = p.d.label
    <3>h. PICK h \in Ref : h = p.src
      BY <2>3
    <3>1. p.kind = "claimed"
      BY <1>0, <1>2, <2>3 DEF Shape, KindPc, OpenPcs, CopyPcs
    <3>2. At(h).st = "active" /\ At(h).ph = "moving"
      BY <3>1, <3>h DEF Base, ClaimStays
    <3>3. ~LeftBehind(h)
      BY <1>1, <1>2, HolderIs DEF Leaving
    <3>4. LiveAt(h)
      BY <3>2, <3>3 DEF LiveAt, Runs
    <3>5. n.pc = "marksrc" /\ n.kind = "claimed" /\ n.src = h
      BY <1>0, <1>2, <3>1, <3>h, StepAt, AddDoes DEF Becomes
    <3>6. LeftBehind(h)'
      <4>1. Leaving(n, h)
        BY <3>5 DEF Leaving
      <4> QED
        BY <1>1, <4>1, HolderIs
    <3>7. ~LiveAt(h)'
      <4>1. LiveAt(h)' => ~LeftBehind(h)'
        BY DEF LiveAt
      <4> QED
        BY <3>6, <4>1
    <3>8. h # s
      BY <1>2, <3>2, <1>0 DEF CopyStays
    <3> QED
      BY <2>1, <2>3, <3>h, <3>4, <3>7, <3>8 DEF ArrivesHome
  <2> QED
    BY <1>2, <2>1, <2>2, <2>3, AddedAt
<1>3. CASE TakesOver(o) /\ s = p.cp
  <2>1. p.pc = "take" /\ Takeable(p, At(Original(p)))
    BY <1>3 DEF TakesOver
  <2>2. HasCopy(p) /\ Original(p) # p.cp
    BY <2>1, OriginalApart DEF HasCopy, CopyPcs
  <2>3. Original(p) \in Ref /\ LiveAt(Original(p))
    BY <2>1, TakenLives
  <2>4. \A r \in Ref : After(r) = IF r = Original(p) THEN NoJob ELSE At(r)
    BY <2>1, StepAt, TakeTouches, AfterIs
  <2>5. At(s).st = "held" /\ At(s).data = CopyData(p) /\ After(s) = At(s)
    BY <1>0, <1>3, <2>2, <2>4 DEF CopyStays
  <2>6. NoJob.st = "none"
    BY DEF NoJob
  <2>7. CASE HasWant(p) \/ p.kind = "merge"
    <3>1. OwnsId(p) /\ Unused(p)
      BY <2>1, <2>7 DEF OwnsId, Unused
    <3>2. s[2] = p.id
      BY <1>0, <1>3, <2>1, <2>7 DEF Shape, CopyPcs, Wanted, HasWant
    <3>3. \A r \in Ref : r[2] = s[2] /\ r # s => At(r).st = "none"
      BY <1>0, <1>3, <3>1, <3>2 DEF UnusedIs
    <3> QED
      BY <2>4, <2>5, <2>6, <3>1, <3>2, <3>3 DEF ArrivesNew
  <2>8. CASE p.kind = "swap"
    <3>h. PICK h \in Ref : h = p.src
      BY <1>0, <2>8 DEF Shape, Moves
    <3>1. Original(p) = h /\ p.src = h /\ s = <<p.want, p.src[2]>>
      BY <1>0, <1>3, <2>1, <2>8, <3>h DEF Original, Relocating, HasWant, Shape
    <3>2. At(s).data.label = p.want
      BY <2>5, <2>8, <3>1 DEF Base, SameLabel, Labelled
    <3>3. ~LiveAt(h)'
      <4>1. After(h) = NoJob
        BY <2>3, <2>4, <3>1
      <4>2. ~Runs(NoJob)
        BY DEF Runs, Pending, NoJob
      <4>3. LiveAt(h)' => Runs(After(h))
        BY DEF LiveAt, After, At, Runs, Pending
      <4> QED
        BY <4>1, <4>2, <4>3
    <3> QED
      BY <1>3, <2>2, <2>3, <2>5, <2>8, <3>1, <3>2, <3>3 DEF ArrivesHome
  <2> QED
    BY <1>0, <2>1, <2>5, <2>7, <2>8 DEF Shape, KindPc, OpenPcs, CopyPcs, HasWant
<1> QED
  BY <1>2, <1>3 DEF Arrives

\* Where a turn comes to, it is alone.
LEMMA ArrivesAlone ==
    ASSUME Base, Settings, Few, ~SlowOps, Sole, NEW o \in Op, OpStep(o), NEW s \in Ref, Arrives(o, s),
           NEW r \in Ref, r[2] = s[2], r # s
    PROVE  ~LiveAt(r)' /\ After(r).st # "failed" /\ (After(r).st # "none" => r[1] # After(s).data.label)
<1> DEFINE p == op[o]
<1>1. ~Arrives(o, r)
  BY DEF Arrives, TakesOver
<1>2. LiveAt(r)' => LiveAt(r) /\ After(r).st # "none"
  <2>1. LiveAt(r)' => After(r).st # "none"
    BY DEF LiveAt, Runs, Pending, After, At
  <2> QED
    BY <1>1, <2>1, OpStepLives
<1>3. CASE ArrivesNew(o, s)
  BY <1>2, <1>3 DEF ArrivesNew
<1>4. CASE ArrivesHome(o, s)
  <2>1. PICK h \in Ref : h[2] = r[2] /\ LiveAt(h) /\ ~LiveAt(h)' /\ s[1] = After(s).data.label
    BY <1>4 DEF ArrivesHome
  <2>2. ~LiveAt(r)'
    BY <1>2, <2>1 DEF Sole
  <2>3. After(r).st # "failed"
    <3>1. At(h).st # "failed"
      BY <2>1 DEF LiveAt, Runs, Pending
    <3> QED
      BY <2>1, <3>1, OpStepLives DEF Sole
  <2>4. r[1] # s[1]
    BY RefIs
  <2> QED
    BY <2>1, <2>2, <2>3, <2>4
<1> QED
  BY <1>3, <1>4, Arrival

LEMMA OpStepSole ==
    ASSUME Base, Settings, Few, ~SlowOps, Lives, NEW o \in Op, OpStep(o)
    PROVE  Sole'
<1> SUFFICES ASSUME NEW r \in Ref, NEW s \in Ref, r[2] = s[2], LiveAt(r)', LiveAt(s)' \/ After(s).st = "failed"
             PROVE  r = s
  BY DEF Sole, After, At
<1>1. CASE Arrives(o, r) \/ Arrives(o, s)
  BY <1>1, ArrivesAlone DEF Lives
<1>2. CASE ~Arrives(o, r) /\ ~Arrives(o, s)
  BY <1>2, OpStepLives DEF Lives, Sole
<1> QED
  BY <1>1, <1>2

LEMMA OpStepHome ==
    ASSUME Base, Settings, Few, ~SlowOps, Lives, NEW o \in Op, OpStep(o)
    PROVE  Home'
<1> SUFFICES ASSUME NEW r \in Ref, NEW s \in Ref, r[2] = s[2], LiveAt(r)', After(s).st # "none", ~LeftBehind(s)',
                    s[1] = After(r).data.label
             PROVE  r = s
  BY DEF Home, After, At
<1> DEFINE p == op[o]
<1>1. CASE Arrives(o, r) \/ Arrives(o, s)
  BY <1>1, ArrivesAlone DEF Lives
<1>2. CASE ~Arrives(o, r) /\ ~Arrives(o, s)
  <2>1. LiveAt(r)
    BY <1>2, OpStepLives
  <2>2. At(r).st # "none" /\ After(r).st # "none"
    BY <2>1 DEF LiveAt, Runs, Pending, After, At
  <2>3. After(r).data.label = At(r).data.label
    BY <2>2, LabelStays
  <2>4. CASE At(s).st # "none" /\ ~LeftBehind(s)
    BY <2>1, <2>3, <2>4 DEF Lives, Home
  <2>5. CASE p.kind = "claimed" /\ s = p.src
    <3>1. At(s).st = "active" /\ p.src \in Ref /\ p.want # s[1] /\ p.want = p.d.label /\ At(s).snap = p.d
      BY <2>5, BaseIs DEF Base, ClaimStays, Shape, Moves
    <3>2. At(s).data.label = p.want
      BY <3>1, BaseTyped DEF JobShapes, JobShape
    <3>3. At(r).data.label = At(s).data.label
      BY <2>2, <3>1 DEF Base, SameLabel
    <3> QED
      BY <2>3, <3>1, <3>2, <3>3
  <2> QED
    BY <1>2, <2>4, <2>5, OpStepLives
<1> QED
  BY <1>1, <1>2

\* The job a move starts with is alone of its id.
LEMMA MovesAlone ==
    ASSUME Base, NEW o \in Op, CheckMerge(o) \/ CheckSwap(o), NEW r \in Ref, r[2] = op[o].src[2], At(r).st # "none"
    PROVE  r = op[o].src
<1> DEFINE p == op[o]
           s == p.src
<1>1. /\ p.kind = "reap" /\ At(s).st # "none" /\ At(<<p.want, s[2]>>).st = "none"
  BY BaseTyped, CheckMergeDoes, CheckSwapDoes DEF ToMove
<1>2. s \in Ref /\ p.want \in Label /\ s[1] \in Warm
  BY <1>1, BaseIs DEF Shape, Moves
<1>3. s[1] # p.want
  BY <1>2, TurnQueueAssumption
<1>4. At(r).data.label = p.want /\ At(s).data.label = p.want
  BY <1>1, <1>2 DEF Base, SameLabel, Labelled
<1>5. SUFFICES ASSUME r # s PROVE FALSE
  OBVIOUS
<1>6. r[1] = p.want
  BY <1>1, <1>2, <1>3, <1>4, <1>5 DEF Base, Placed
<1>7. r = <<p.want, s[2]>>
  BY <1>6, RefIs
<1> QED
  BY <1>1, <1>7

LEMMA OpStepOriginal ==
    ASSUME Base, Settings, Few, ~SlowOps, Lives, NEW o \in Op, OpStep(o), Sole'
    PROVE  OnlyOriginal'
<1> SUFFICES ASSUME NEW x \in Op, NEW r \in Ref, Choosing(op'[x]), r[2] = Original(op'[x])[2], LiveAt(r)'
             PROVE  r = Original(op'[x])
  BY DEF OnlyOriginal, Choosing, Original, Relocating, HasWant
<1> DEFINE p == op[o]
           n == op'[o]
<1>0. Typed /\ Shape(p)
  BY BaseIs
<1>f. \A y : y.pc \in Free => ~Choosing(y)
  BY DEF Choosing, Free
<1>1. CASE MarkFailed(o)
  <2>1. x # o
    BY <1>1, <1>f, MarkFailedLeaves, IdleIs DEF Free
  <2>2. op'[x] = op[x] /\ LiveAt(r)
    BY <1>1, <2>1, OpStepLives, MarkFailedLeaves DEF Arrives, TakesOver
  <2> QED
    BY <2>2 DEF Lives, OnlyOriginal
<1>2. CASE ~MarkFailed(o)
  <2>1. x = o
    BY <1>2, <1>f, HolderIs
  <2>2. CASE Look(o)
    <3>1. p.pc = "look" /\ (HasWant(p) => p.cp = NoRef)
      BY <1>0, <2>2, LookDoes DEF Shape, OpenPcs
    <3>a. p.kind \in {"enqueue", "redispatch", "claimed", "merge"}
      BY <1>0, <3>1 DEF Shape, KindPc, OpenPcs, CopyPcs
    <3>b. NotAppended(p) \in {"promote", "index"} /\ AppendedThen(p) \in {"release", "marksrc", "takehold"}
      BY <3>a DEF NotAppended, AppendedThen, HasWant
    <3>c. Choosing(n)
      BY <2>1
    <3>2. n.kind = p.kind /\ n.ref = idx /\ AppendableAt(idx) /\ n.pc = "senders" /\ Relocating(n)
      <4>1. CASE ~AppendableAt(idx) /\ Becomes(o, NotAppended(p), p.ref, p.prev, p.cp, p.res)
        BY <3>b, <3>c, <4>1 DEF Becomes, Choosing
      <4>2. CASE Becomes(o, AppendedThen(p), p.ref, p.prev, p.cp, idx)
        BY <3>b, <3>c, <4>2 DEF Becomes, Choosing
      <4>3. CASE AppendableAt(idx) /\ \E cp : Becomes(o, "senders", idx, At(idx).data, cp, p.res)
        BY <3>c, <4>3 DEF Becomes, Choosing
      <4> QED
        BY <1>0, <2>2, <4>1, <4>2, <4>3, LookDoes
    <3>3. idx \in Ref /\ Pending(At(idx)) /\ After(idx) = At(idx)
      BY <1>0, <2>2, <3>2, LookDoes DEF AppendableAt, Typed, TypeOK, After, At
    <3>4. \A s : ~Leaving(n, s)
      BY <3>2 DEF Leaving
    <3>5. Runs(After(idx)) /\ ~LeftBehind(idx)'
      <4>1. PICK h \in Ref : h = idx
        BY <3>3
      <4>2. idx' = idx
        BY <1>0, <2>2, LookDoes
      <4> QED
        BY <1>2, <3>3, <3>4, <4>2, HolderIs DEF Runs
    <3>6. PICK h \in Ref : h = idx
      BY <3>3
    <3>7. LiveAt(h)'
      <4>1. ~LeftBehind(h)'
        BY <1>2, <3>4, HolderIs
      <4> QED
        BY <3>3, <3>6, <4>1 DEF LiveAt, Runs, Pending, After, At
    <3>8. Original(n) = h
      BY <3>2, <3>6 DEF Original
    <3> QED
      BY <2>1, <3>7, <3>8 DEF Sole
  <2>3. CASE CheckMerge(o) \/ CheckSwap(o)
    <3>1. Original(n) = p.src
      BY <1>0, <2>3, MergeKeeps, SwapIs DEF Original, Relocating, HasWant
    <3>2. At(r).st # "none"
      <4>1. ~Arrives(o, r)
        BY <1>0, <2>3, CheckMergeDoes, CheckSwapDoes DEF Arrives, TakesOver
      <4>2. LiveAt(r)
        BY <4>1, OpStepLives
      <4> QED
        BY <4>2 DEF LiveAt, Runs, Pending
    <3> QED
      BY <2>1, <2>3, <3>1, <3>2, MovesAlone
  <2>4. CASE ~Look(o) /\ ~CheckMerge(o) /\ ~CheckSwap(o)
    <3>1. /\ n.kind = p.kind /\ n.src = p.src /\ n.ref = p.ref
          /\ (n.cp = p.cp \/ (n.cp = NoRef /\ p.pc = "unmark"))
      BY <1>f, <2>1, <2>4, PlacesStay, IdleIs DEF Free
    <3>c. Choosing(n)
      BY <2>1
    <3>2. p.pc \in {"senders", "copy", "markcopy"}
      <4> SUFFICES ASSUME p.pc \notin {"senders", "copy", "markcopy"} PROVE FALSE
        OBVIOUS
      <4>1. ASSUME n.pc \notin {"senders", "copy", "markcopy", "take"} PROVE FALSE
        BY <3>c, <4>1 DEF Choosing
      <4>2. p.pc \notin {"acquire", "update", "index", "add", "marksrc"}
        <5>1. p.pc \notin {"acquire", "update"}
          BY <1>0, <4>1, StepAt, AcquireDoes, UpdateDataDoes DEF Becomes
        <5>2. p.pc \notin {"index", "add"}
          BY <1>0, <4>1, StepAt, IndexDoes, AddDoes DEF Becomes
        <5>3. p.pc # "marksrc"
          BY <1>0, <4>1, StepAt, MarkSourceDoes DEF Becomes
        <5> QED
          BY <5>1, <5>2, <5>3
      <4>3. p.pc \notin {"take", "drop", "unmark"}
        BY <1>0, <4>1, StepAt, TakeDoes, DropCopyDoes, UnmarkDoes DEF Becomes
      <4>7. p.pc \notin {"promote", "reindex", "takehold", "markhold"}
        BY <1>0, <4>1, StepAt, PromoteDoes, ReindexDoes, TakeHoldDoes, MarkHoldDoes DEF Becomes
      <4>4. p.pc # "release"
        BY <1>0, <4>1, StepAt, ReleaseDoes, IdleIs DEF Becomes, OpBecomes
      <4>5. p.pc # "check"
        BY <1>0, <2>4, <4>1, StepAt, CheckMovedDoes, CheckClaimedDoes DEF Becomes
      <4>6. p.pc # "recheck"
        <5> SUFFICES ASSUME p.pc = "recheck" PROVE FALSE
          OBVIOUS
        <5>1. p.kind \in {"enqueue", "redispatch", "claimed", "merge"}
          BY <1>0 DEF Shape, KindPc, OpenPcs, CopyPcs
        <5>2. NotAppended(p) \in {"promote", "index"} /\ AppendedThen(p) \in {"release", "marksrc", "takehold"}
          BY <5>1 DEF NotAppended, AppendedThen, HasWant
        <5> QED
          BY <1>0, <4>1, <5>2, StepAt, RecheckDoes DEF Becomes
      <4> QED
        BY <1>0, <1>2, <2>4, <4>2, <4>3, <4>4, <4>5, <4>6, <4>7, StepAt DEF Shape, KindPc, OpenPcs, CopyPcs
    <3>3. n.cp = p.cp /\ Original(n) = Original(p) /\ Relocating(n) = Relocating(p)
      BY <3>1, <3>2 DEF Original, Relocating, HasWant
    <3>4. Choosing(p)
      <4>1. p.pc = "senders" => n.pc = IF Relocating(p) THEN "copy" ELSE "update"
        BY <1>0, StepAt, RecordSendersDoes DEF Becomes
      <4> QED
        BY <2>1, <3>2, <4>1 DEF Choosing
    <3>5. LiveAt(r)
      BY <3>2, OpStepLives DEF Arrives, TakesOver
    <3> QED
      BY <2>1, <3>3, <3>4, <3>5 DEF Lives, OnlyOriginal
  <2> QED
    BY <2>2, <2>3, <2>4
<1> QED
  BY <1>1, <1>2

LEMMA OpStepLivesOn ==
    ASSUME Base, Settings, Few, ~SlowOps, Lives, NEW o \in Op, OpStep(o)
    PROVE  Lives'
BY OpStepSole, OpStepHome, OpStepOriginal DEF Lives

-----------------------------------------------------------------------------
(***************************************************************************)
(* How the other steps change where turns live                             *)
(***************************************************************************)
\* No other job has the id of s.
Alone(s) == \A r \in Ref : r[2] = s[2] /\ r # s => At(r).st = "none" /\ After(r).st = "none"

\* No turn comes to a place, but to a copy alone of its id that is left alone.
Quiet ==
    /\ \A s \in Ref :
          /\ LiveAt(s)' => LiveAt(s) \/ Alone(s)
          /\ After(s).st = "failed" => At(s).st = "failed" \/ LiveAt(s)
          /\ After(s).st # "none" => At(s).st # "none" /\ After(s).data.label = At(s).data.label
          /\ ~LeftBehind(s)' => ~LeftBehind(s) \/ Alone(s)
    /\ \A x \in Op : Choosing(op'[x]) => op'[x] = op[x] /\ \A s \in Ref : LiveAt(s)' => LiveAt(s)

LEMMA QuietLives == ASSUME Lives, Quiet PROVE Lives'
<1>1. Sole'
  <2> SUFFICES ASSUME NEW r \in Ref, NEW s \in Ref, r[2] = s[2], LiveAt(r)', LiveAt(s)' \/ After(s).st = "failed"
               PROVE  r = s
    BY DEF Sole, After, At
  <2>1. After(r).st # "none" /\ After(s).st # "none"
    BY DEF LiveAt, Runs, Pending, After, At
  <2>2. CASE Alone(r) \/ Alone(s)
    BY <2>1, <2>2 DEF Alone
  <2>3. CASE ~Alone(r) /\ ~Alone(s)
    BY <2>3 DEF Quiet, Lives, Sole
  <2> QED
    BY <2>2, <2>3
<1>2. Home'
  <2> SUFFICES ASSUME NEW r \in Ref, NEW s \in Ref, r[2] = s[2], LiveAt(r)', After(s).st # "none", ~LeftBehind(s)',
                      s[1] = After(r).data.label
               PROVE  r = s
    BY DEF Home, After, At
  <2>1. After(r).st # "none"
    BY DEF LiveAt, Runs, Pending, After, At
  <2>2. CASE Alone(r) \/ Alone(s)
    BY <2>1, <2>2 DEF Alone
  <2>3. CASE ~Alone(r) /\ ~Alone(s)
    BY <2>1, <2>3 DEF Quiet, Lives, Home
  <2> QED
    BY <2>2, <2>3
<1>3. OnlyOriginal'
  <2> SUFFICES ASSUME NEW x \in Op, NEW r \in Ref, Choosing(op'[x]), r[2] = Original(op'[x])[2], LiveAt(r)'
               PROVE  r = Original(op'[x])
    BY DEF OnlyOriginal, Choosing, Original, Relocating, HasWant
  <2>1. op'[x] = op[x] /\ LiveAt(r)
    BY DEF Quiet
  <2> QED
    BY <2>1 DEF Lives, OnlyOriginal
<1> QED
  BY <1>1, <1>2, <1>3 DEF Lives

\* The jobs a worker or a timer works on are not left behind.
LEMMA TurnsLives ==
    ASSUME Base, Settings, Few, ~SlowOps, NEW r, Turns(r)
    PROVE  /\ Quiet
           /\ \A s : LeftBehind(s)' <=> LeftBehind(s)
           /\ ~LeftBehind(r)
           /\ \A s \in Ref : LiveAt(s)' => LiveAt(s)
<1> DEFINE j == At(r)
           k == After(r)
<1>0. r \in Ref /\ op' = op /\ k.data = j.data /\ \A s \in Ref : s # r => After(s) = At(s)
  BY DEF Turns
<1>1. \A s : LeftBehind(s)' <=> LeftBehind(s)
  BY <1>0 DEF LeftBehind, Leaving
<1>2. j.st # "none" /\ ~(j.st = "active" /\ j.ph = "moving" /\ j.by \in up)
  BY DEF Turns, Has
<1>3. j.st = "held" => \A o \in Op : op[o].cp # r
  BY DEF Turns, Has
<1>4. ~LeftBehind(r)
  BY <1>2, <1>3, LeftIsHeld
<1>5. j.st = "active" /\ j.by \notin up => j.ph # "moved"
  BY <1>0, NoDeadMoved
<1>6. Runs(k) => Runs(j)
  BY <1>5 DEF Turns, Has, Runs, Pending
<1>7. k.st = "failed" => Runs(j)
  BY <1>5 DEF Turns, Has, Runs, Pending
<1>8. \A s \in Ref : LiveAt(s)' => LiveAt(s)
  <2> SUFFICES ASSUME NEW s \in Ref, LiveAt(s)' PROVE LiveAt(s)
    OBVIOUS
  <2>1. Runs(After(s)) /\ ~LeftBehind(s)'
    BY DEF LiveAt, Runs, Pending, After, At
  <2> QED
    BY <1>0, <1>1, <1>6, <2>1 DEF LiveAt
<1>9. ASSUME NEW s \in Ref
      PROVE  /\ After(s).st = "failed" => At(s).st = "failed" \/ LiveAt(s)
             /\ After(s).st # "none" => At(s).st # "none" /\ After(s).data.label = At(s).data.label
  <2>1. CASE s = r
    BY <1>0, <1>2, <1>4, <1>7, <2>1 DEF LiveAt
  <2>2. CASE s # r
    BY <1>0, <2>2
  <2> QED
    BY <2>1, <2>2
<1> QED
  BY <1>0, <1>1, <1>4, <1>8, <1>9 DEF Quiet

LEMMA BeginsLives ==
    ASSUME Base, NEW o \in Op, NEW n, BeginsFit(o, n)
    PROVE  /\ Quiet
           /\ \A s : LeftBehind(s)' <=> LeftBehind(s)
           /\ \A s \in Ref : LiveAt(s)' <=> LiveAt(s)
<1>0. Begins(o, n)
  BY DEF BeginsFit
<1>1. op[o].pc = "idle" /\ op'[o] = n /\ n.pc = "acquire" /\ \A x \in Op : x # o => op'[x] = op[x]
  BY <1>0 DEF Begins, OpBecomes
<1>2. ASSUME NEW s PROVE LeftBehind(s)' <=> LeftBehind(s)
  <2>1. ~Leaving(op[o], s) /\ ~Leaving(op'[o], s)
    BY <1>1, FreeLeaves DEF Free
  <2>2. LeftBehind(s)' <=> \E x \in Op : Leaving(op'[x], s)
    BY DEF LeftBehind, Leaving
  <2> QED
    BY <1>1, <2>1, <2>2 DEF LeftBehind
<1>3. ASSUME NEW s \in Ref
      PROVE  /\ After(s).st = At(s).st /\ After(s).data = At(s).data
             /\ Runs(After(s)) <=> Runs(At(s))
  BY <1>0 DEF Begins, Runs, Pending
<1>4. ASSUME NEW s \in Ref PROVE LiveAt(s)' <=> LiveAt(s)
  <2>1. LiveAt(s)' <=> Runs(After(s)) /\ ~LeftBehind(s)'
    BY DEF LiveAt, Runs, Pending, After, At
  <2> QED
    BY <1>2, <1>3, <2>1 DEF LiveAt
<1>5. ASSUME NEW x \in Op, Choosing(op'[x]) PROVE op'[x] = op[x]
  BY <1>1, <1>5 DEF Choosing
<1> QED
  BY <1>2, <1>3, <1>4, <1>5 DEF Quiet

LEMMA DiesLives ==
    ASSUME NEW n \in Node, Dies(n)
    PROVE  /\ Quiet
           /\ \A s : LeftBehind(s)' <=> LeftBehind(s)
           /\ \A s \in Ref : LiveAt(s)' <=> LiveAt(s)
<1>1. op' = op /\ job' = job
  BY DEF Dies
<1>2. \A s \in Ref : After(s) = At(s)
  BY <1>1 DEF After, At
<1>3. \A s : LeftBehind(s)' <=> LeftBehind(s)
  BY <1>1 DEF LeftBehind, Leaving
<1>4. \A s \in Ref : LiveAt(s)' <=> LiveAt(s)
  BY <1>1, <1>3 DEF LiveAt, Runs, Pending, At
<1> QED
  BY <1>1, <1>2, <1>3, <1>4 DEF Quiet

LEMMA StillLives ==
    ASSUME Still
    PROVE  /\ Quiet
           /\ \A s : LeftBehind(s)' <=> LeftBehind(s)
           /\ \A s \in Ref : LiveAt(s)' <=> LiveAt(s)
<1>1. op' = op /\ job' = job
  BY DEF Still
<1>2. \A s \in Ref : After(s) = At(s)
  BY <1>1 DEF After, At
<1>3. \A s : LeftBehind(s)' <=> LeftBehind(s)
  BY <1>1 DEF LeftBehind, Leaving
<1>4. \A s \in Ref : LiveAt(s)' <=> LiveAt(s)
  BY <1>1, <1>3 DEF LiveAt, Runs, Pending, At
<1> QED
  BY <1>1, <1>2, <1>3, <1>4 DEF Quiet

\* The copy an operation that died leaves is the one job of its id.
LEMMA CrashesLives ==
    ASSUME Base, Settings, ~SlowOps, NEW o \in Op, Crashes(o)
    PROVE  /\ Quiet
           /\ \A s : LeftBehind(s)' => LeftBehind(s)
           /\ \A s \in Ref : After(s) = At(s)
           /\ \A s \in Ref : LiveAt(s) => LiveAt(s)'
<1> DEFINE p == op[o]
<1>1. op'[o] = IdleOp /\ job' = job /\ (\A x \in Op : x # o => op'[x] = op[x]) /\ NoReaps
  BY DEF Crashes, OpBecomes
<1>2. \A s \in Ref : After(s) = At(s)
  BY <1>1 DEF After, At
<1>3. \A s : ~Leaving(IdleOp, s)
  BY FreeLeaves, IdleIs DEF Free
<1>4. ASSUME NEW s
      PROVE  /\ LeftBehind(s)' => LeftBehind(s)
             /\ LeftBehind(s) => LeftBehind(s)' \/ Leaving(p, s)
  <2>1. LeftBehind(s)' <=> \E x \in Op : Leaving(op'[x], s)
    BY DEF LeftBehind, Leaving
  <2> QED
    BY <1>1, <1>3, <2>1 DEF LeftBehind
<1>5. ASSUME NEW s \in Ref, Leaving(p, s) PROVE Alone(s)
  <2>1. p.kind \in {"enqueue", "redispatch"} /\ p.pc \in {"markcopy", "take", "drop", "takehold"} /\ p.cp = s
    <3>1. p.kind \in {"none", "enqueue", "redispatch"}
      BY <1>1 DEF Settings, AllUp
    <3>2. p.kind = "none" => p.pc = "idle"
      BY BaseIs DEF Shape, KindPc
    <3> QED
      BY <1>5, <3>1, <3>2 DEF Leaving
  <2>2. Unused(p) /\ HasWant(p)
    BY <2>1 DEF Unused, HasWant
  <2>3. p.pc \in CopyPcs
    BY <2>1, BaseIs DEF Shape, KindPc, OpenPcs, CopyPcs
  <2>4. s[2] = p.id
    <3>1. p.cp = Wanted(p)
      BY <2>1, <2>2, <2>3, BaseIs DEF Shape
    <3> QED
      BY <2>1, <3>1 DEF Wanted
  <2>5. \A t \in Ref : t[2] = p.id /\ At(t).st # "none" => p.cp = t
    BY <2>2, BaseIs DEF UnusedIs
  <2> QED
    BY <1>2, <2>1, <2>4, <2>5 DEF Alone
<1>6. ASSUME NEW s \in Ref
      PROVE  /\ LiveAt(s)' => LiveAt(s) \/ Leaving(p, s)
             /\ LiveAt(s) => LiveAt(s)'
  <2>1. LiveAt(s)' <=> Runs(After(s)) /\ ~LeftBehind(s)'
    BY DEF LiveAt, Runs, Pending, After, At
  <2> QED
    BY <1>2, <1>4, <2>1 DEF LiveAt
<1>7. ASSUME NEW x \in Op, Choosing(op'[x]) PROVE op'[x] = op[x] /\ \A s \in Ref : LiveAt(s)' => LiveAt(s)
  <2>1. x # o
    BY <1>1, <1>7, IdleIs DEF Choosing
  <2>2. op'[x] = op[x] /\ op[x].pc \notin Free
    BY <1>1, <1>7, <2>1 DEF Choosing, Free
  <2>3. p.pc \in Free
    BY <2>1, <2>2, HolderAlone
  <2>4. \A s \in Ref : ~Leaving(p, s)
    BY <2>3, FreeLeaves
  <2> QED
    BY <1>6, <2>2, <2>4
<1> QED
  BY <1>2, <1>4, <1>5, <1>6, <1>7 DEF Quiet

LEMMA LivesNext == ASSUME Base, Settings, Few, ~SlowOps, Lives, [Next]_vars PROVE Lives'
BY NextIs, OpStepLivesOn, QuietLives, TurnsLives, BeginsLives, DiesLives, StillLives, CrashesLives

LEMMA LivesInit == ASSUME Init PROVE Lives
<1>1. \A r \in Ref : At(r) = NoJob
  BY RefIs DEF Init, At
<1>2. \A r \in Ref : ~LiveAt(r)
  BY <1>1 DEF NoJob, LiveAt, Runs, Pending
<1> QED
  BY <1>2 DEF Lives, Sole, Home, OnlyOriginal

-----------------------------------------------------------------------------
(***************************************************************************)
(* The job-moved markers of jobs that may still run                        *)
(***************************************************************************)
\* The marker of a live job sends it to itself, or its move still deletes it.
MovingOff(p, r) == p.pc \in {"take", "drop", "unmark"} /\ Original(p) = r
MarkedLive ==
    \A r \in Ref : LiveAt(r) /\ moved[r[2]] # NoRef =>
        \/ \E o \in Op : MovingOff(op[o], r)
        \/ moved[r[2]] = r /\ r[1] = At(r).data.label
MarkedTake ==
    \A o \in Op, r \in Ref :
        op[o].pc = "take" /\ Original(op[o]) = r /\ LiveAt(r) => moved[r[2]] = op[o].cp

\* A worker's move marks the job it leaves behind with the one that goes on.
MarkedClaim ==
    \A o \in Op, r \in Ref :
        op[o].kind = "claimed" /\ op[o].pc = "marksrc" /\ r[2] = op[o].id /\ LiveAt(r)
            => op[o].res = r /\ r[1] = op[o].want

\* A merge that took its original leaves no job of the id.
Merging(p) ==
    p.kind = "merge" /\ p.pc \in {"look", "senders", "update", "recheck", "takehold", "markhold", "marksrc"}
MergedGone == \A o \in Op, r \in Ref : Merging(op[o]) /\ r[2] = op[o].src[2] => ~LiveAt(r)

Marked == MaxCrashes = 0 => MarkedLive /\ MarkedTake /\ MarkedClaim /\ MergedGone

\* The worker's job lives where the worker has it until the move is done.
LEMMA ClaimLives ==
    ASSUME Base, ~SlowOps, NEW o \in Op, op[o].kind = "claimed", NEW h, h = op[o].src
    PROVE  /\ h \in Ref /\ At(h).st = "active" /\ At(h).ph = "moving" /\ At(h).by \in up /\ Runs(At(h))
           /\ h[2] = op[o].id /\ h[1] # op[o].want /\ At(h).snap = op[o].d
           /\ \A s \in Ref : s[2] = h[2] /\ At(s).st # "none" => At(s).data.label = op[o].want
           /\ OpStep(o) /\ op[o].pc \notin {"marksrc", "release"} => LiveAt(h)
<1> DEFINE p == op[o]
<1>1. /\ h \in Ref /\ h[2] = p.id /\ h[1] # p.want /\ p.want = p.d.label
  BY BaseIs DEF Shape, Moves
<1>2. At(h).st = "active" /\ At(h).ph = "moving" /\ At(h).by \in up /\ At(h).snap = p.d
  BY DEF Base, ClaimStays
<1>3. At(h).data.label = p.want
  BY <1>1, <1>2, BaseTyped DEF JobShapes, JobShape
<1>4. ASSUME NEW s \in Ref, s[2] = h[2], At(s).st # "none" PROVE At(s).data.label = p.want
  BY <1>1, <1>2, <1>3, <1>4 DEF Base, SameLabel
<1>5. Runs(At(h))
  BY <1>2 DEF Runs
<1>6. ASSUME OpStep(o), p.pc \notin {"marksrc", "release"} PROVE LiveAt(h)
  <2>1. ~MarkFailed(o)
    BY BaseIs, MarkFailedLeaves DEF Shape, KindPc, OpenPcs
  <2>2. ~Leaving(p, h)
    BY <1>6, BaseIs DEF Leaving, Shape, KindPc, OpenPcs
  <2> QED
    BY <1>5, <1>6, <2>1, <2>2, HolderIs DEF LiveAt
<1> QED
  BY <1>1, <1>2, <1>4, <1>5, <1>6

\* No job of the failed job's id may still run.
LEMMA FailedAlone ==
    ASSUME Base, Lives, NEW o \in Op, MarkFailed(o), NEW r \in Ref, LiveAt(r)
    PROVE  r[2] # op[o].src[2]
<1>1. PICK h : h = op[o].src
  OBVIOUS
<1>2. op[o].kind = "redispatch"
  BY BaseIs, MarkFailedLeaves DEF Shape, KindPc, OpenPcs, CopyPcs
<1>3. h \in Ref /\ At(h).st = "failed"
  BY <1>1, <1>2, BaseIs DEF Base, FailedStays, Shape, Moves
<1>4. r # h
  BY <1>3 DEF LiveAt, Runs, Pending
<1> QED
  BY <1>1, <1>3, <1>4 DEF Lives, Sole

LEMMA MarkFailedMarked ==
    ASSUME Base, Settings, Few, ~SlowOps, Lives, Marked, MaxCrashes = 0, NEW o \in Op, MarkFailed(o)
    PROVE  Marked'
<1>1. /\ op[o].pc = "markfailed" /\ op'[o] = IdleOp /\ \A x \in Op : x # o => op'[x] = op[x]
      /\ job' = job /\ moved' = [moved EXCEPT ![op[o].src[2]] = op[o].res]
      /\ \A r : LeftBehind(r)' <=> LeftBehind(r)
  BY MarkFailedLeaves
<1>2. \A r \in Ref : LiveAt(r)' <=> LiveAt(r)
  BY <1>1 DEF LiveAt, Runs, Pending, At
<1>3. ASSUME NEW r \in Ref, LiveAt(r) PROVE moved'[r[2]] = moved[r[2]]
  BY <1>1, <1>3, FailedAlone, BaseTyped, RefIs DEF Typed, TypeOK
<1>4. \A r : ~MovingOff(op[o], r)
  BY <1>1 DEF MovingOff
<1>5. ASSUME NEW x \in Op, op'[x].pc \notin Free PROVE op'[x] = op[x]
  BY <1>1, <1>5, IdleIs DEF Free
<1>6. MarkedLive'
  <2> SUFFICES ASSUME NEW r \in Ref, LiveAt(r)', moved'[r[2]] # NoRef
               PROVE  \/ \E x \in Op : MovingOff(op'[x], r)
                      \/ moved'[r[2]] = r /\ r[1] = After(r).data.label
    BY DEF MarkedLive, MovingOff, After, At, Original, Relocating, HasWant
  <2>1. LiveAt(r) /\ moved'[r[2]] = moved[r[2]] /\ After(r) = At(r)
    BY <1>1, <1>2, <1>3 DEF After, At
  <2>2. (\E x \in Op : MovingOff(op[x], r)) \/ (moved[r[2]] = r /\ r[1] = At(r).data.label)
    BY <2>1 DEF Marked, MarkedLive
  <2> QED
    BY <1>1, <1>4, <2>1, <2>2
<1>7. MarkedTake'
  <2> SUFFICES ASSUME NEW x \in Op, NEW r \in Ref, op'[x].pc = "take", Original(op'[x]) = r, LiveAt(r)'
               PROVE  moved'[r[2]] = op'[x].cp
    BY DEF MarkedTake, Original, Relocating, HasWant
  <2>1. op'[x] = op[x]
    BY <1>5 DEF Free
  <2>2. LiveAt(r) /\ Original(op[x]) = r
    BY <1>2, <2>1
  <2> QED
    BY <1>3, <2>1, <2>2 DEF Marked, MarkedTake
<1>8. MarkedClaim'
  <2> SUFFICES ASSUME NEW x \in Op, NEW r \in Ref, op'[x].kind = "claimed", op'[x].pc = "marksrc",
                      r[2] = op'[x].id, LiveAt(r)'
               PROVE  op'[x].res = r /\ r[1] = op'[x].want
    BY DEF MarkedClaim
  <2>1. op'[x] = op[x]
    BY <1>5 DEF Free
  <2> QED
    BY <1>2, <2>1 DEF Marked, MarkedClaim
<1>9. MergedGone'
  <2> SUFFICES ASSUME NEW x \in Op, NEW r \in Ref, Merging(op'[x]), r[2] = op'[x].src[2], LiveAt(r)' PROVE FALSE
    BY DEF MergedGone, Merging
  <2>1. op'[x] = op[x]
    BY <1>5 DEF Free, Merging
  <2> QED
    BY <1>2, <2>1 DEF Marked, MergedGone
<1> QED
  BY <1>6, <1>7, <1>8, <1>9 DEF Marked

\* A move that is under way goes on, or the job it moves is gone or unmarked.
LEMMA MovingGoesOn ==
    ASSUME Base, NEW o \in Op, OpStep(o), NEW r \in Ref, MovingOff(op[o], r), After(r).st # "none"
    PROVE  MovingOff(op'[o], r) \/ moved'[r[2]] = NoRef
<1> DEFINE p == op[o]
           n == op'[o]
<1>0. Typed /\ Shape(p)
  BY BaseIs
<1>1. CASE p.pc = "take"
  <2>1. Take(o)
    BY <1>1, StepAt
  <2>2. ~Takeable(p, At(r))
    <3>1. r = Original(p)
      BY DEF MovingOff
    <3>2. ASSUME Takeable(p, At(r)) PROVE FALSE
      <4>1. JobBecomes(r, NoJob)
        BY <2>1, <3>1, <3>2, TakeTouches
      <4>2. After(r) = NoJob
        BY <4>1, AfterIs
      <4> QED
        BY <4>2 DEF NoJob
    <3> QED
      BY <3>2
  <2>3. n.pc = "drop" /\ n.kind = p.kind /\ n.src = p.src /\ n.ref = p.ref /\ n.cp = p.cp
    BY <1>0, <2>1, <2>2, TakeDoes DEF Becomes, MovingOff
  <2> QED
    BY <2>3 DEF MovingOff, Original, Relocating, HasWant
<1>2. CASE p.pc = "drop"
  <2>1. n.pc = "unmark" /\ n.kind = p.kind /\ n.src = p.src /\ n.ref = p.ref /\ n.cp = p.cp
    BY <1>0, <1>2, StepAt, DropCopyDoes DEF Becomes
  <2> QED
    BY <2>1 DEF MovingOff, Original, Relocating, HasWant
<1>3. CASE p.pc = "unmark"
  <2>1. moved' = [moved EXCEPT ![Original(p)[2]] = NoRef]
    BY <1>0, <1>3, StepAt, UnmarkDoes
  <2>2. moved \in [Id -> Ref \cup {NoRef}] /\ r[2] \in Id
    BY <1>0, RefIs DEF Typed, TypeOK
  <2> QED
    BY <2>1, <2>2 DEF MovingOff
<1> QED
  BY <1>1, <1>2, <1>3 DEF MovingOff

\* What the step of an operation leaves of a marker, or writes.
LEMMA MarkIs ==
    ASSUME Base, NEW i \in Id, NEW o, NEW k, NEW v, Marks(o, k, v)
    PROVE  moved'[i] = IF i = k THEN v ELSE moved[i]
BY BaseTyped DEF Marks, Typed, TypeOK

\* A marker written for a live job sends it to itself, or its move deletes it.
LEMMA MarksLive ==
    ASSUME Base, Settings, Few, ~SlowOps, Lives, Marked, MaxCrashes = 0, NEW o \in Op, OpStep(o), ~MarkFailed(o),
           NEW r \in Ref, LiveAt(r), LiveAt(r)', NEW v, Marks(o, r[2], v), v # NoRef
    PROVE  MovingOff(op'[o], r) \/ (v = r /\ r[1] = At(r).data.label)
<1> DEFINE p == op[o]
           n == op'[o]
           i == r[2]
<1>0. Typed /\ Shape(p) /\ (Unused(p) => UnusedIs(p)) /\ CopyStays(p)
  BY BaseIs
<1>a. At(r).st # "none" /\ i \in Id
  BY RefIs DEF LiveAt, Runs, Pending
<1>1. CASE p.pc = "marksrc" /\ p.kind = "claimed" /\ i = p.src[2] /\ v = p.res
  <2>1. PICK h : h = p.src
    OBVIOUS
  <2>2. At(r).data.label = p.want /\ h[2] = p.id
    BY <1>1, <1>a, <2>1, ClaimLives
  <2>3. p.res = r /\ r[1] = p.want
    BY <1>1, <2>1, <2>2 DEF Marked, MarkedClaim
  <2> QED
    BY <1>1, <2>2, <2>3
<1>2. CASE p.pc = "marksrc" /\ p.kind = "merge" /\ i = p.src[2]
  BY <1>2 DEF Marked, MergedGone, Merging
<1>3. CASE p.pc = "markfailed"
  BY <1>3, StepAt
<1>4. CASE /\ p.pc = "check" /\ p.kind \in {"reap", "claimed"} /\ i = p.src[2] /\ v = <<p.want, i>>
           /\ At(v).st # "none"
  <2>1. p.want \in Label /\ v \in Ref
    BY <1>0, <1>4, <1>a DEF Shape, Ref, Queue
  <2>2. At(r).data.label = p.want
    <3>1. CASE p.kind = "claimed"
      <4>1. PICK h : h = p.src
        OBVIOUS
      <4> QED
        BY <1>4, <1>a, <3>1, <4>1, ClaimLives
    <3>2. CASE p.kind = "reap"
      BY <1>4, <1>a, <3>2 DEF Base, SameLabel, Labelled
    <3> QED
      BY <1>4, <3>1, <3>2
  <2>3. ~LeftBehind(v)
    <3>1. ~Leaving(p, v)
      BY <1>4 DEF Leaving
    <3> QED
      BY <3>1, HolderIs
  <2>4. r = v
    BY <1>4, <2>1, <2>2, <2>3 DEF Lives, Home
  <2>5. v[1] = p.want
    BY <1>4
  <2> QED
    BY <2>2, <2>4, <2>5
<1>5. CASE p.pc = "markcopy" /\ i = Original(p)[2]
  <2>1. r = Original(p)
    BY <1>5 DEF Lives, OnlyOriginal, Choosing
  <2>2. n.pc = "take" /\ n.kind = p.kind /\ n.src = p.src /\ n.ref = p.ref /\ n.cp = p.cp
    BY <1>0, <1>5, StepAt, MarkCopyDoes DEF Becomes
  <2> QED
    BY <2>1, <2>2 DEF MovingOff, Original, Relocating, HasWant
<1>6. CASE p.pc = "markhold" /\ p.kind = "merge" /\ i = p.cp[2]
  <2>1. Unused(p) /\ ~HasCopy(p) /\ p.cp[2] = p.id
    BY <1>0, <1>6 DEF Unused, HasCopy, Shape
  <2> QED
    BY <1>0, <1>6, <1>a, <2>1 DEF UnusedIs
<1> QED
  BY <1>1, <1>2, <1>3, <1>4, <1>5, <1>6 DEF Marks

\* Where a turn comes to, the marker sends it there.
LEMMA ArrivesMarked ==
    ASSUME Base, Settings, Few, ~SlowOps, Lives, Marked, MaxCrashes = 0, NEW o \in Op, OpStep(o), ~MarkFailed(o),
           NEW r \in Ref, Arrives(o, r), moved'[r[2]] # NoRef
    PROVE  moved'[r[2]] = r /\ r[1] = After(r).data.label
<1> DEFINE p == op[o]
<1>0. Typed /\ Shape(p) /\ (Unused(p) => UnusedIs(p))
  BY BaseIs
<1>1. p.pc \in {"add", "take"} /\ moved' = moved
  BY <1>0, StepAt, AddDoes, TakeDoes DEF Arrives, TakesOver
<1>2. CASE ArrivesNew(o, r)
  BY <1>0, <1>1, <1>2 DEF ArrivesNew, UnusedIs
<1>3. CASE ArrivesHome(o, r)
  <2>1. PICK h \in Ref : /\ p.kind \in {"claimed", "swap"} /\ p.src = h /\ h[2] = r[2] /\ h # r
                         /\ LiveAt(h) /\ r[1] = After(r).data.label
    BY <1>3 DEF ArrivesHome
  <2>2. CASE p.kind = "claimed"
    <3>1. p.pc = "add"
      BY <1>0, <1>1, <2>2 DEF Shape, KindPc, OpenPcs
    <3>2. \A x \in Op : ~MovingOff(op[x], h)
      BY <3>1, HolderIs DEF MovingOff, Free
    <3>3. moved[h[2]] = h /\ h[1] = At(h).data.label
      BY <1>1, <2>1, <3>2 DEF Marked, MarkedLive
    <3>4. h[1] # p.want /\ At(h).data.label = p.want
      BY <2>1, <2>2, ClaimLives
    <3> QED
      BY <3>3, <3>4
  <2>3. CASE p.kind = "swap"
    <3>1. p.pc = "take" /\ r = p.cp
      BY <1>0, <1>1, <2>3 DEF Shape, KindPc, OpenPcs, CopyPcs, Arrives, TakesOver
    <3>2. Original(p) = h
      BY <2>1, <2>3 DEF Original, Relocating, HasWant
    <3>3. moved[h[2]] = r
      BY <2>1, <3>1, <3>2 DEF Marked, MarkedTake
    <3> QED
      BY <1>1, <2>1, <3>3
  <2> QED
    BY <2>1, <2>2, <2>3
<1> QED
  BY <1>2, <1>3, Arrival

LEMMA OpStepMarkedLive ==
    ASSUME Base, Settings, Few, ~SlowOps, Lives, Marked, MaxCrashes = 0, NEW o \in Op, OpStep(o), ~MarkFailed(o)
    PROVE  MarkedLive'
<1> SUFFICES ASSUME NEW r \in Ref, LiveAt(r)', moved'[r[2]] # NoRef
             PROVE  \/ MovingOff(op'[o], r)
                    \/ moved'[r[2]] = r /\ r[1] = After(r).data.label
  BY DEF MarkedLive, MovingOff, After, At, Original, Relocating, HasWant
<1>0. After(r).st # "none" /\ r[2] \in Id
  BY RefIs DEF LiveAt, Runs, Pending, After, At
<1>1. CASE Arrives(o, r)
  BY <1>1, ArrivesMarked
<1>2. CASE ~Arrives(o, r)
  <2>1. LiveAt(r)
    BY <1>2, OpStepLives
  <2>2. After(r).data.label = At(r).data.label
    <3>1. At(r).st # "none"
      BY <2>1 DEF LiveAt, Runs, Pending
    <3> QED
      BY <1>0, <3>1, LabelStays
  <2>3. CASE moved'[r[2]] = moved[r[2]]
    <3>1. \A x \in Op : x # o => ~MovingOff(op[x], r)
      BY HolderIs DEF MovingOff, Free
    <3>2. MovingOff(op[o], r) \/ (moved[r[2]] = r /\ r[1] = At(r).data.label)
      BY <2>1, <2>3, <3>1 DEF Marked, MarkedLive
    <3> QED
      BY <1>0, <2>2, <2>3, <3>2, MovingGoesOn
  <2>4. CASE moved'[r[2]] # moved[r[2]]
    <3>1. PICK i, v : Marks(o, i, v)
      BY <2>4, OpStepMarks
    <3>2. i = r[2] /\ moved'[r[2]] = v
      BY <1>0, <2>4, <3>1, MarkIs
    <3> QED
      BY <2>1, <2>2, <3>1, <3>2, MarksLive
  <2> QED
    BY <2>3, <2>4
<1> QED
  BY <1>1, <1>2

LEMMA OpStepMarkedTake ==
    ASSUME Base, ~SlowOps, NEW o \in Op, OpStep(o), ~MarkFailed(o)
    PROVE  MarkedTake'
<1> SUFFICES ASSUME NEW x \in Op, NEW r \in Ref, op'[x].pc = "take", Original(op'[x]) = r
             PROVE  moved'[r[2]] = op'[x].cp
  BY DEF MarkedTake, Original, Relocating, HasWant
<1> DEFINE p == op[o]
           n == op'[o]
<1>0. Typed /\ Shape(p)
  BY BaseIs
<1>1. x = o
  BY HolderIs DEF Free
<1>2. p.pc = "markcopy"
  <2> SUFFICES ASSUME p.pc # "markcopy" PROVE FALSE
    OBVIOUS
  <2>0. n.pc = "take"
    BY <1>1
  <2>1. p.pc \notin {"acquire", "update", "index", "add", "marksrc", "senders", "copy"}
    <3>1. p.pc \notin {"acquire", "update"}
      BY <1>0, <2>0, StepAt, AcquireDoes, UpdateDataDoes DEF Becomes
    <3>2. p.pc \notin {"index", "add"}
      BY <1>0, <2>0, StepAt, IndexDoes, AddDoes DEF Becomes
    <3>3. p.pc \notin {"marksrc", "senders"}
      BY <1>0, <2>0, StepAt, MarkSourceDoes, RecordSendersDoes DEF Becomes
    <3>4. p.pc # "copy"
      BY <1>0, <2>0, StepAt, AddCopyDoes DEF Becomes
    <3> QED
      BY <3>1, <3>2, <3>3, <3>4
  <2>2. p.pc \notin {"take", "drop", "unmark", "promote", "reindex", "takehold", "markhold"}
    <3>1. p.pc \notin {"take", "drop"}
      BY <1>0, <2>0, StepAt, TakeDoes, DropCopyDoes DEF Becomes
    <3>2. p.pc \notin {"unmark", "promote"}
      BY <1>0, <2>0, StepAt, UnmarkDoes, PromoteDoes DEF Becomes
    <3>3. p.pc \notin {"reindex", "takehold"}
      BY <1>0, <2>0, StepAt, ReindexDoes, TakeHoldDoes DEF Becomes
    <3>4. p.pc # "markhold"
      BY <1>0, <2>0, StepAt, MarkHoldDoes DEF Becomes
    <3> QED
      BY <3>1, <3>2, <3>3, <3>4
  <2>3. p.pc # "release"
    BY <1>0, <2>0, StepAt, ReleaseDoes, IdleIs DEF Becomes, OpBecomes
  <2>4. p.pc # "check"
    BY <1>0, <2>0, StepAt, CheckMovedDoes, CheckClaimedDoes, MergeKeeps, SwapIs DEF Becomes
  <2>5. p.pc \notin {"look", "recheck"}
    <3> SUFFICES ASSUME p.pc \in {"look", "recheck"} PROVE FALSE
      OBVIOUS
    <3>1. p.kind \in {"enqueue", "redispatch", "claimed", "merge"}
      BY <1>0 DEF Shape, KindPc, OpenPcs, CopyPcs
    <3>2. NotAppended(p) \in {"promote", "index"} /\ AppendedThen(p) \in {"release", "marksrc", "takehold"}
      BY <3>1 DEF NotAppended, AppendedThen, HasWant
    <3> QED
      BY <1>0, <2>0, <3>2, StepAt, LookDoes, RecheckDoes DEF Becomes
  <2> QED
    BY <1>0, <2>1, <2>2, <2>3, <2>4, <2>5, StepAt DEF Shape, KindPc, OpenPcs, CopyPcs
<1>3. /\ n.cp = p.cp /\ n.kind = p.kind /\ n.src = p.src /\ n.ref = p.ref
      /\ moved' = [moved EXCEPT ![Original(p)[2]] = p.cp]
  BY <1>0, <1>2, StepAt, MarkCopyDoes DEF Becomes
<1>4. Original(p) = r
  BY <1>1, <1>3 DEF Original, Relocating, HasWant
<1>5. moved \in [Id -> Ref \cup {NoRef}] /\ r[2] \in Id
  BY <1>0, RefIs DEF Typed, TypeOK
<1> QED
  BY <1>1, <1>3, <1>4, <1>5

LEMMA OpStepMarkedClaim ==
    ASSUME Base, Settings, Few, ~SlowOps, Lives, NEW o \in Op, OpStep(o), ~MarkFailed(o)
    PROVE  MarkedClaim'
<1> SUFFICES ASSUME NEW x \in Op, NEW r \in Ref, op'[x].kind = "claimed", op'[x].pc = "marksrc",
                    r[2] = op'[x].id, LiveAt(r)'
             PROVE  op'[x].res = r /\ r[1] = op'[x].want
  BY DEF MarkedClaim
<1> DEFINE p == op[o]
           n == op'[o]
<1>0. Typed /\ Shape(p)
  BY BaseIs
<1>1. x = o
  BY HolderIs DEF Free
<1>2. p.kind = "claimed" /\ n.src = p.src
  BY <1>1, OpStepKeeps DEF Keeps
<1>3. p.pc \in {"look", "recheck", "add"}
  <2>0. n.pc = "marksrc"
    BY <1>1
  <2>1. p.pc \notin {"acquire", "update", "index", "marksrc", "senders"}
    BY <1>0, <2>0, StepAt, AcquireDoes, UpdateDataDoes, IndexDoes, MarkSourceDoes, RecordSendersDoes DEF Becomes
  <2>3. p.pc # "release"
    BY <1>0, <2>0, StepAt, ReleaseDoes, IdleIs DEF Becomes, OpBecomes
  <2>4. p.pc # "check"
    BY <1>0, <2>0, StepAt, CheckMovedDoes, CheckClaimedDoes, MergeKeeps, SwapIs DEF Becomes
  <2> QED
    BY <1>0, <1>2, <2>1, <2>3, <2>4 DEF Shape, KindPc, OpenPcs
<1>4. PICK h : h = p.src
  OBVIOUS
<1>5. h \in Ref /\ h[2] = p.id /\ LiveAt(h)
  BY <1>2, <1>3, <1>4, ClaimLives
<1>6. n.id = p.id /\ n.want = p.want /\ (p.pc = "add" => n.res = Wanted(p))
  BY <1>0, <1>3, StepAt, LookDoes, RecheckDoes, AddDoes DEF Becomes
<1>7. CASE p.pc = "add"
  <2>1. Wanted(p) \in Ref /\ Wanted(p)[2] = p.id /\ Wanted(p)[1] = p.want
    BY <1>0, <1>2, WantedIs DEF Wanted
  <2>2. PICK s \in Ref : s = Wanted(p)
    BY <2>1
  <2>3. Arrives(o, s)
    BY <1>7, <2>2 DEF Arrives
  <2>4. r = s
    BY <1>1, <1>6, <2>1, <2>2, <2>3, ArrivesAlone DEF Lives
  <2> QED
    BY <1>1, <1>6, <1>7, <2>1, <2>2, <2>4
<1>8. CASE p.pc # "add"
  <2>1. LiveAt(r)
    BY <1>3, <1>8, OpStepLives DEF Arrives, TakesOver
  <2>2. r = h
    BY <1>1, <1>5, <1>6, <2>1 DEF Lives, Sole
  <2>3. Leaving(n, r)
    BY <1>1, <1>2, <1>4, <2>2 DEF Leaving
  <2>4. LeftBehind(r)'
    BY <2>3, HolderIs
  <2>5. LiveAt(r)' => ~LeftBehind(r)'
    BY DEF LiveAt
  <2> QED
    BY <2>4, <2>5
<1> QED
  BY <1>7, <1>8

LEMMA OpStepMergedGone ==
    ASSUME Base, Settings, Few, ~SlowOps, Lives, MergedGone, NEW o \in Op, OpStep(o), ~MarkFailed(o)
    PROVE  MergedGone'
<1> SUFFICES ASSUME NEW x \in Op, NEW r \in Ref, Merging(op'[x]), r[2] = op'[x].src[2], LiveAt(r)' PROVE FALSE
  BY DEF MergedGone, Merging
<1> DEFINE p == op[o]
           n == op'[o]
<1>0. Typed /\ Shape(p) /\ Apart(p)
  BY BaseIs
<1>1. x = o
  BY HolderIs DEF Free, Merging
<1>2. n.src = p.src /\ n.kind = "merge"
  BY <1>1, OpStepKeeps DEF Keeps, Moves, Merging
<1>3. p.kind = "merge" /\ (Merging(p) \/ p.pc = "take")
  <2>0. Merging(n) /\ n # IdleOp
    BY <1>1, IdleIs DEF Merging
  <2>1. ~CheckMerge(o) /\ ~CheckSwap(o)
    BY <2>0, MergeKeeps, SwapIs DEF Merging
  <2>2. p.kind = "merge"
    <3>1. CASE Look(o)
      BY <1>0, <1>2, <3>1, LookDoes DEF Becomes
    <3>2. CASE ~Look(o)
      BY <1>2, <2>0, <2>1, <3>2, PlacesStay
    <3> QED
      BY <3>1, <3>2
  <2>a. p.pc \notin {"copy", "markcopy"}
    BY <1>0, <2>0, StepAt, AddCopyDoes, MarkCopyDoes DEF Becomes, Merging
  <2>b. p.pc \notin {"drop", "promote", "reindex"}
    BY <1>0, <2>0, StepAt, DropCopyDoes, PromoteDoes, ReindexDoes, ZenonT(60) DEF Becomes, Merging
  <2>c. p.pc # "unmark"
    <3>1. ~HasWant(p)
      BY <2>2 DEF HasWant
    <3> QED
      BY <1>0, <2>0, <3>1, StepAt, UnmarkDoes DEF Becomes, Merging
  <2>3. p.pc \notin {"copy", "markcopy", "drop", "unmark", "promote", "reindex"}
    BY <2>a, <2>b, <2>c
  <2>4. p.pc # "release"
    BY <1>0, <2>0, StepAt, ReleaseDoes, IdleIs DEF Becomes, OpBecomes, Merging
  <2> QED
    BY <1>0, <2>2, <2>3, <2>4 DEF Shape, KindPc, OpenPcs, CopyPcs, Merging
<1>4. ~Arrives(o, r)
  <2>1. p.pc = "take" => p.cp[2] = p.id
    BY <1>0, <1>3 DEF Shape
  <2> QED
    BY <1>0, <1>1, <1>2, <1>3, <2>1 DEF Arrives, TakesOver, Apart, Merging
<1>5. LiveAt(r)
  BY <1>4, OpStepLives
<1>6. CASE Merging(p)
  BY <1>1, <1>2, <1>5, <1>6 DEF MergedGone
<1>7. CASE p.pc = "take"
  <2>1. r = Original(p)
    <3>1. Original(p) = p.src
      BY <1>3 DEF Original, Relocating, HasWant
    <3> QED
      BY <1>1, <1>2, <1>5, <1>7, <3>1 DEF Lives, OnlyOriginal, Choosing
  <2>2. Takeable(p, At(r)) /\ Take(o)
    BY <1>0, <1>1, <1>7, <2>1, StepAt, TakeDoes DEF Becomes, Merging
  <2>3. JobBecomes(r, NoJob)
    BY <2>1, <2>2, TakeTouches
  <2>4. After(r) = NoJob
    BY <2>3, AfterIs
  <2> QED
    BY <2>4 DEF LiveAt, Runs, Pending, After, At, NoJob
<1> QED
  BY <1>3, <1>6, <1>7

LEMMA OpStepMarked ==
    ASSUME Base, Settings, Few, ~SlowOps, Lives, Marked, NEW o \in Op, OpStep(o)
    PROVE  Marked'
<1> SUFFICES ASSUME MaxCrashes = 0 PROVE Marked'
  BY DEF Marked
<1>1. CASE MarkFailed(o)
  BY <1>1, MarkFailedMarked
<1>2. CASE ~MarkFailed(o)
  <2>1. MergedGone
    BY DEF Marked
  <2> QED
    BY <1>2, <2>1, OpStepMarkedLive, OpStepMarkedTake, OpStepMarkedClaim, OpStepMergedGone DEF Marked
<1> QED
  BY <1>1, <1>2

-----------------------------------------------------------------------------
\* The other steps write no marker and bring no turn.
LEMMA QuietMarked ==
    ASSUME Marked, moved' = moved, \A s \in Ref : LiveAt(s)' => LiveAt(s),
           \A s \in Ref : After(s).st # "none" => After(s).data.label = At(s).data.label,
           \A x \in Op : op'[x] = op[x] \/ (op[x].pc = "idle" /\ op'[x].pc = "acquire")
    PROVE  Marked'
<1> SUFFICES ASSUME MaxCrashes = 0 PROVE Marked'
  BY DEF Marked
<1>1. MarkedLive'
  <2> SUFFICES ASSUME NEW r \in Ref, LiveAt(r)', moved'[r[2]] # NoRef
               PROVE  \/ \E x \in Op : MovingOff(op'[x], r)
                      \/ moved'[r[2]] = r /\ r[1] = After(r).data.label
    BY DEF MarkedLive, MovingOff, After, At, Original, Relocating, HasWant
  <2>1. After(r).st # "none"
    BY DEF LiveAt, Runs, Pending, After, At
  <2>2. ASSUME NEW x \in Op, MovingOff(op[x], r) PROVE MovingOff(op'[x], r)
    BY <2>2 DEF MovingOff
  <2> QED
    BY <2>1, <2>2 DEF Marked, MarkedLive
<1>2. MarkedTake'
  <2> SUFFICES ASSUME NEW x \in Op, NEW r \in Ref, op'[x].pc = "take", Original(op'[x]) = r, LiveAt(r)'
               PROVE  moved'[r[2]] = op'[x].cp
    BY DEF MarkedTake, Original, Relocating, HasWant
  <2> QED
    BY DEF Marked, MarkedTake
<1>3. MarkedClaim'
  <2> SUFFICES ASSUME NEW x \in Op, NEW r \in Ref, op'[x].kind = "claimed", op'[x].pc = "marksrc",
                      r[2] = op'[x].id, LiveAt(r)'
               PROVE  op'[x].res = r /\ r[1] = op'[x].want
    BY DEF MarkedClaim
  <2> QED
    BY DEF Marked, MarkedClaim
<1>4. MergedGone'
  <2> SUFFICES ASSUME NEW x \in Op, NEW r \in Ref, Merging(op'[x]), r[2] = op'[x].src[2], LiveAt(r)' PROVE FALSE
    BY DEF MergedGone, Merging
  <2>1. op'[x] = op[x]
    BY DEF Merging
  <2> QED
    BY <2>1 DEF Marked, MergedGone
<1> QED
  BY <1>1, <1>2, <1>3, <1>4 DEF Marked

LEMMA TurnsKeepLabels ==
    ASSUME NEW r, Turns(r)
    PROVE  \A s \in Ref : After(s).data = At(s).data
BY DEF Turns

LEMMA MarkedNext == ASSUME Base, Settings, Few, ~SlowOps, Lives, Marked, [Next]_vars PROVE Marked'
<1>1. ASSUME NEW r, Turns(r) PROVE Marked'
  <2>1. op' = op /\ moved' = moved
    BY <1>1 DEF Turns
  <2> QED
    BY <1>1, <2>1, TurnsLives, TurnsKeepLabels, QuietMarked
<1>2. ASSUME NEW o \in Op, NEW n, BeginsFit(o, n) PROVE Marked'
  <2>1. /\ moved' = moved /\ op[o].pc = "idle" /\ op'[o].pc = "acquire" /\ \A x \in Op : x # o => op'[x] = op[x]
        /\ \A s \in Ref : After(s).data = At(s).data
    BY <1>2 DEF BeginsFit, Begins, OpBecomes
  <2>2. \A x \in Op : op'[x] = op[x] \/ (op[x].pc = "idle" /\ op'[x].pc = "acquire")
    BY <2>1
  <2> QED
    BY <1>2, <2>1, <2>2, BeginsLives, QuietMarked
<1>3. ASSUME NEW o \in Op, Crashes(o) PROVE Marked'
  BY <1>3 DEF Crashes, Marked
<1>4. ASSUME NEW n \in Node, Dies(n) PROVE Marked'
  <2>1. op' = op /\ moved' = moved /\ \A s \in Ref : After(s) = At(s)
    BY <1>4 DEF Dies, After, At
  <2> QED
    BY <1>4, <2>1, DiesLives, QuietMarked
<1>5. ASSUME Still PROVE Marked'
  <2>1. op' = op /\ moved' = moved /\ \A s \in Ref : After(s) = At(s)
    BY <1>5 DEF Still, After, At
  <2> QED
    BY <1>5, <2>1, StillLives, QuietMarked
<1> QED
  BY <1>1, <1>2, <1>3, <1>4, <1>5, NextIs, OpStepMarked

LEMMA MarkedInit == ASSUME Init PROVE Marked
<1>1. \A r \in Ref : At(r) = NoJob
  BY RefIs DEF Init, At
<1>2. \A r \in Ref : ~LiveAt(r)
  BY <1>1 DEF NoJob, LiveAt, Runs, Pending
<1> QED
  BY <1>2 DEF Marked, MarkedLive, MarkedTake, MarkedClaim, MergedGone

-----------------------------------------------------------------------------
(***************************************************************************)
(* A turn that runs, or whose job a worker is to move, is not done yet     *)
(***************************************************************************)
NotDone ==
    /\ \A r \in Ref : At(r).st = "active" /\ At(r).ph = "running" => r[2] \notin turnDone
    /\ \A o \in Op : op[o].kind = "claimed" /\ ~Leaving(op[o], op[o].src) => op[o].id \notin turnDone

\* What an operation's step makes of a job a worker has.
LEMMA ActiveStays ==
    ASSUME Base, NEW o \in Op, OpStep(o), NEW s \in Ref, After(s).st = "active"
    PROVE  /\ At(s).st = "active" /\ After(s).by = At(s).by /\ After(s).snap = At(s).snap
           /\ \/ After(s).ph = At(s).ph
              \/ /\ op[o].kind = "claimed" /\ s = op[o].src /\ op'[o] = IdleOp
                 /\ At(s).ph = "moving" /\ After(s).ph \in {"claimed", "moved"}
<1>1. CASE job' = job
  BY <1>1 DEF After, At
<1>2. CASE \E r, k : Changes(o, r, k)
  <2>1. PICK r, k : Changes(o, r, k)
    BY <1>2
  <2>2. After(s) = IF s = r THEN k ELSE At(s)
    BY <2>1, AfterIs DEF Changes
  <2>3. NoJob.st = "none"
    BY DEF NoJob
  <2> QED
    BY <2>1, <2>2, <2>3 DEF Changes, Grown, Added, Removed, Promoted, Returned
<1> QED
  BY <1>1, <1>2, OpStepChanges

LEMMA OpStepNotDone ==
    ASSUME Base, Typed', ~SlowOps, NotDone, NEW o \in Op, OpStep(o)
    PROVE  NotDone'
<1>0. turnDone' = turnDone
  BY OpStepCalm
<1>1. ASSUME NEW r \in Ref, After(r).st = "active", After(r).ph = "running" PROVE r[2] \notin turnDone
  BY <1>1, ActiveStays DEF NotDone
<1>2. ASSUME NEW x \in Op, op'[x].kind = "claimed", ~Leaving(op'[x], op'[x].src) PROVE op'[x].id \notin turnDone
  <2>0. op[x].kind = "claimed" /\ op'[x].src = op[x].src
    BY <1>2, OpStepKeeps DEF Keeps
  <2>1. op[x].id = op[x].src[2] /\ op'[x].id = op'[x].src[2]
    BY <1>2, <2>0, BaseIs DEF Typed, Shapes, Shape
  <2>2. ~Leaving(op[x], op[x].src)
    <3>1. CASE x # o
      BY <1>2, <3>1, RecordGoesOn
    <3>2. CASE x = o
      <4>1. PICK h : h = op[x].src
        OBVIOUS
      <4>2. h \in Ref /\ At(h).st = "active" /\ At(h).ph = "moving" /\ At(h).by \in up
        BY <2>0, <4>1, ClaimLives
      <4>3. op'[o] # IdleOp
        BY <1>2, <3>2, IdleIs
      <4>4. After(h).st = "active"
        BY <4>2, <4>3, ChangesKeep
      <4>5. ~TakesOver(o)
        BY <2>0, <3>2, BaseIs DEF TakesOver, Shape, KindPc, OpenPcs
      <4> QED
        BY <1>2, <2>0, <3>2, <4>1, <4>2, <4>3, <4>4, <4>5, StopsLeaving
    <3> QED
      BY <3>1, <3>2
  <2> QED
    BY <2>0, <2>1, <2>2 DEF NotDone
<1> QED
  BY <1>0, <1>1, <1>2 DEF NotDone, After, At, Leaving

\* A job a worker runs, or is to move, is live.
LEMMA RunningLives ==
    ASSUME Base, NEW r \in Ref, At(r).st = "active", At(r).ph \notin {"moving", "moved"}
    PROVE  LiveAt(r)
BY LeftIsHeld DEF LiveAt, Runs

LEMMA MovingLives ==
    ASSUME Base, ~SlowOps, NEW o \in Op, op[o].kind = "claimed", ~Leaving(op[o], op[o].src), NEW h, h = op[o].src
    PROVE  LiveAt(h)
<1>1. h \in Ref /\ At(h).st = "active" /\ Runs(At(h))
  BY ClaimLives
<1>2. ASSUME NEW x \in Op, Leaving(op[x], h) PROVE FALSE
  <2>1. CASE op[x].kind = "claimed" /\ op[x].src = h
    BY <1>2, <2>1 DEF Base, ClaimStays
  <2>2. CASE op[x].pc \in {"markcopy", "take", "drop", "takehold"} /\ op[x].cp = h
    <3>1. HasCopy(op[x])
      BY <2>2, BaseIs DEF HasCopy, Shape, KindPc, OpenPcs, CopyPcs
    <3> QED
      BY <1>1, <2>2, <3>1, BaseIs DEF CopyStays
  <2> QED
    BY <1>2, <2>1, <2>2 DEF Leaving
<1> QED
  BY <1>1, <1>2 DEF LiveAt, LeftBehind

LEMMA TurnsNotDone ==
    ASSUME Base, ~SlowOps, Lives, NotDone, NEW r, Turns(r)
    PROVE  NotDone'
<1> DEFINE j == At(r)
           k == After(r)
<1>0. r \in Ref /\ op' = op /\ \A s \in Ref : s # r => After(s) = At(s)
  BY DEF Turns
<1>1. \/ turnDone' = turnDone
      \/ Has(j, "running") /\ turnDone' = turnDone \cup {r[2]} /\ k.ph \in {"ended", "denied"}
  BY DEF Turns, Rest3
<1>2. k.st = "active" /\ k.ph = "running" => r[2] \notin turnDone'
  <2>1. k.st = "active" /\ k.ph = "running" => (j.st = "active" /\ j.ph = "running") \/ r[2] \notin turnDone
    BY DEF Turns, Has
  <2> QED
    BY <1>0, <1>1, <2>1 DEF NotDone
<1>3. Has(j, "running") => LiveAt(r) /\ j.ph # "moving"
  BY <1>0, RunningLives DEF Has
<1>4. ASSUME NEW s \in Ref, s # r, At(s).st = "active", At(s).ph = "running" PROVE s[2] \notin turnDone'
  <2>1. LiveAt(s)
    BY <1>4, RunningLives
  <2> QED
    BY <1>0, <1>1, <1>3, <1>4, <2>1 DEF Lives, Sole, NotDone
<1>5. ASSUME NEW x \in Op, op[x].kind = "claimed", ~Leaving(op[x], op[x].src) PROVE op[x].id \notin turnDone'
  <2>1. PICK h : h = op[x].src
    OBVIOUS
  <2>2. LiveAt(h) /\ h \in Ref /\ h[2] = op[x].id /\ At(h).ph = "moving"
    BY <1>5, <2>1, ClaimLives, MovingLives
  <2> QED
    BY <1>0, <1>1, <1>3, <1>5, <2>2 DEF Lives, Sole, NotDone
<1>6. \A s \in Ref : After(s).st = "active" /\ After(s).ph = "running" => s[2] \notin turnDone'
  BY <1>0, <1>2, <1>4
<1> QED
  BY <1>0, <1>5, <1>6 DEF NotDone, After, At, Leaving

LEMMA NotDoneNext ==
    ASSUME Base, Typed', Settings, Few, ~SlowOps, Lives, NotDone, [Next]_vars
    PROVE  NotDone'
<1>1. ASSUME NEW o \in Op, NEW n, BeginsFit(o, n) PROVE NotDone'
  <2>1. /\ op'[o] = n /\ (\A x \in Op : x # o => op'[x] = op[x]) /\ turnDone' = turnDone
        /\ n.kind = "claimed" => n.id \notin turnDone
        /\ n.kind = "claimed" => After(n.src).ph = "moving"
        /\ \A s \in Ref : (n.kind = "claimed" /\ s = n.src) \/ After(s) = At(s)
    BY <1>1 DEF BeginsFit, Begins, OpBecomes
  <2>2. \A s \in Ref : After(s).st = "active" /\ After(s).ph = "running" => s[2] \notin turnDone
    BY <2>1 DEF NotDone
  <2>3. \A x \in Op : op'[x].kind = "claimed" /\ ~Leaving(op'[x], op'[x].src) => op'[x].id \notin turnDone
    BY <2>1 DEF NotDone
  <2> QED
    BY <2>1, <2>2, <2>3 DEF NotDone, After, At, Leaving
<1>2. ASSUME turnDone' = turnDone, job' = job, \A x \in Op : op'[x] = op[x] \/ op'[x] = IdleOp
      PROVE  NotDone'
  <2>1. \A x \in Op : op'[x].kind = "claimed" => op'[x] = op[x]
    BY <1>2, IdleIs
  <2>2. \A x \in Op : op'[x].kind = "claimed" /\ ~Leaving(op'[x], op'[x].src) => op'[x].id \notin turnDone
    BY <2>1 DEF NotDone
  <2> QED
    BY <1>2, <2>2 DEF NotDone, At, Leaving
<1>3. ASSUME NEW o \in Op, Crashes(o) PROVE NotDone'
  BY <1>2, <1>3 DEF Crashes, OpBecomes
<1>4. ASSUME NEW n \in Node, Dies(n) PROVE NotDone'
  BY <1>2, <1>4 DEF Dies
<1>5. ASSUME Still PROVE NotDone'
  BY <1>2, <1>5 DEF Still
<1> QED
  BY <1>1, <1>3, <1>4, <1>5, NextIs, OpStepNotDone, TurnsNotDone

LEMMA NotDoneInit == ASSUME Init PROVE NotDone
BY DEF Init, NotDone

-----------------------------------------------------------------------------
(***************************************************************************)
(* The jobs that hold a message                                            *)
(***************************************************************************)
\* A job with the id i that failed, or whose turn is to come or has begun.
Due(j, i) ==
    \/ j.st = "failed"
    \/ Pending(j) /\ i \notin turnDone
    \/ /\ j.st = "active" /\ j.ph \in {"claimed", "moving", "running", "denied"}
       /\ i \in turnDone => j.by \in up /\ j.ph \in {"running", "denied"}
Held(r, m) == m \in SeqSet(Effective(At(r)).msgs) /\ ~LeftBehind(r) /\ Due(At(r), r[2])
Safe(m) == m \in hist.fin \/ \E r \in Ref : Held(r, m)

\* The messages of an enqueue are in the pending job, or in its own.
Landed(p) == p.kind = "enqueue" /\ (p.pc \in {"promote", "reindex"} \/ (p.pc = "release" /\ p.res # NoRef))

\* Every accepted message is safe, and those about to be.
Kept ==
    /\ \A m \in Msg : Accepted(m) => Safe(m)
    /\ \A o \in Op : Landed(op[o]) => \A m \in SeqSet(op[o].d.msgs) : Safe(m)

LEMMA HeldThen ==
    ASSUME NEW r \in Ref, NEW m, NEW k, k = After(r), ~LeftBehind(r)',
           m \in SeqSet((IF k.st = "active" /\ k.by \in up' THEN k.snap ELSE k.data).msgs),
           \/ k.st = "failed"
           \/ Pending(k) /\ r[2] \notin turnDone'
           \/ /\ k.st = "active" /\ k.ph \in {"claimed", "moving", "running", "denied"}
              /\ r[2] \in turnDone' => k.by \in up' /\ k.ph \in {"running", "denied"}
    PROVE  Held(r, m)'
BY DEF Held, Due, Effective, Pending, After, At

LEMMA SafeThen ==
    ASSUME NEW m, m \in hist'.fin \/ \E r \in Ref : Held(r, m)'
    PROVE  Safe(m)'
BY RefIs DEF Safe, Ref, Queue, Id

\* Messages of an accepted turn stay safe when no more are accepted.
LEMMA KeptThen ==
    ASSUME Kept, \A m \in Msg : Accepted(m)' => Accepted(m),
           \A x \in Op : Landed(op'[x]) => op'[x] = op[x],
           \A m : Safe(m) => Safe(m)'
    PROVE  Kept'
<1>1. \A m \in Msg : Accepted(m)' => Safe(m)'
  BY DEF Kept
<1>2. ASSUME NEW x \in Op, Landed(op'[x]) PROVE \A m \in SeqSet(op'[x].d.msgs) : Safe(m)'
  BY <1>2 DEF Kept
<1>3. \A x \in Op : Landed(op[x])' => \A m \in SeqSet(op'[x].d.msgs) : Safe(m)'
  BY <1>2 DEF Landed
<1> QED
  BY <1>1, <1>3 DEF Kept

\* A worker's copy of a job has no message the job has not.
LEMMA HeldData ==
    ASSUME Base, NEW r \in Ref, NEW m, m \in SeqSet(Effective(At(r)).msgs)
    PROVE  m \in SeqSet(At(r).data.msgs)
<1>1. JobShape(At(r), r[1])
  BY BaseTyped DEF JobShapes
<1> QED
  BY <1>1 DEF JobShape, Effective

LEMMA StillSafe ==
    ASSUME Still, NEW m, Safe(m)
    PROVE  Safe(m)'
<1>1. ASSUME NEW r \in Ref, Held(r, m) PROVE Held(r, m)'
  <2>1. After(r) = At(r) /\ up' = up /\ turnDone' = turnDone
    BY DEF Still, After, At
  <2>2. ~LeftBehind(r)'
    BY <1>1, StillLives DEF Held
  <2> QED
    BY <1>1, <2>1, <2>2, HeldThen DEF Held, Due, Effective
<1> QED
  BY <1>1, SafeThen DEF Safe, Still

LEMMA CrashesSafe ==
    ASSUME Base, Settings, ~SlowOps, NEW o \in Op, Crashes(o), NEW m, Safe(m)
    PROVE  Safe(m)'
<1>1. ASSUME NEW r \in Ref, Held(r, m) PROVE Held(r, m)'
  <2>1. After(r) = At(r) /\ up' = up /\ turnDone' = turnDone
    BY CrashesLives DEF Crashes
  <2>2. ~LeftBehind(r)'
    BY <1>1, CrashesLives DEF Held
  <2> QED
    BY <1>1, <2>1, <2>2, HeldThen DEF Held, Due, Effective
<1> QED
  BY <1>1, SafeThen DEF Safe, Crashes

\* The job of a worker that dies has its messages in Redis, and no done turn.
LEMMA DiesSafe ==
    ASSUME Base, Settings, NotDone, NEW n \in Node, Dies(n), NEW m, Safe(m)
    PROVE  Safe(m)'
<1>1. ASSUME NEW r \in Ref, Held(r, m) PROVE Held(r, m)'
  <2>1. After(r) = At(r) /\ up' \subseteq up /\ turnDone' = turnDone
    BY DEF Dies, After, At
  <2>2. ~LeftBehind(r)'
    BY <1>1, DiesLives DEF Held
  <2>3. At(r).ph # "denied"
    BY DEF Settings, Uniform, Dies
  <2>4. At(r).st = "active" /\ At(r).ph = "running" => r[2] \notin turnDone
    BY DEF NotDone
  <2>5. m \in SeqSet(At(r).data.msgs)
    BY <1>1, HeldData DEF Held
  <2>6. m \in SeqSet((IF After(r).st = "active" /\ After(r).by \in up' THEN After(r).snap ELSE After(r).data).msgs)
    BY <1>1, <2>1, <2>5 DEF Held, Effective
  <2> QED
    BY <1>1, <2>1, <2>2, <2>3, <2>4, <2>6, HeldThen DEF Held, Due
<1> QED
  BY <1>1, SafeThen DEF Safe, Dies

LEMMA BeginsSafe ==
    ASSUME Base, NEW o \in Op, NEW n, BeginsFit(o, n), NEW m, Safe(m)
    PROVE  Safe(m)'
<1>1. ASSUME NEW r \in Ref, Held(r, m) PROVE Held(r, m)'
  <2>1. up' = up /\ turnDone' = turnDone /\ Begins(o, n)
    BY DEF BeginsFit, Begins
  <2>2. ~LeftBehind(r)'
    BY <1>1, BeginsLives DEF Held
  <2>3. CASE After(r) = At(r)
    BY <1>1, <2>1, <2>2, <2>3, HeldThen DEF Held, Due, Effective
  <2>4. CASE n.kind = "claimed" /\ r = n.src
    <3>1. /\ n.id = r[2] /\ n.id \notin turnDone /\ At(r).st = "active" /\ At(r).by \in up /\ At(r).snap = n.d
      BY <2>4 DEF BeginsFit
    <3>2. After(r).st = "active" /\ After(r).ph = "moving" /\ After(r).by \in up /\ After(r).snap = n.d
      BY <2>1, <2>4 DEF Begins
    <3> QED
      BY <1>1, <2>1, <2>2, <3>1, <3>2, HeldThen DEF Held, Effective
  <2> QED
    BY <2>1, <2>3, <2>4 DEF Begins
<1> QED
  BY <1>1, SafeThen DEF Safe, BeginsFit

\* A turn that ends was the one live job of its id.
LEMMA OthersStayDue ==
    ASSUME Base, Settings, Few, ~SlowOps, Lives, NEW r, Turns(r), NEW s \in Ref, s # r, NEW m, Held(s, m)
    PROVE  Held(s, m)'
<1>1. /\ After(s) = At(s) /\ up' = up /\ r \in Ref
      /\ turnDone' = turnDone \/ (Has(At(r), "running") /\ turnDone' = turnDone \cup {r[2]})
  BY DEF Turns, Rest3
<1>2. ~LeftBehind(s)' /\ ~LeftBehind(s)
  BY TurnsLives DEF Held
<1>3. CASE turnDone' = turnDone
  BY <1>1, <1>2, <1>3, HeldThen DEF Held, Due, Effective
<1>4. CASE Has(At(r), "running") /\ turnDone' = turnDone \cup {r[2]}
  <2>1. LiveAt(r)
    BY <1>1, <1>4, RunningLives DEF Has
  <2>2. LiveAt(s) => s[2] # r[2]
    BY <1>1, <2>1 DEF Lives, Sole
  <2>3. Due(At(s), s[2]) => At(s).st = "failed" \/ LiveAt(s)
    BY <1>2 DEF Due, LiveAt, Runs
  <2>4. CASE At(s).st = "failed"
    BY <1>1, <1>2, <2>4, HeldThen DEF Held, Effective
  <2>5. CASE s[2] # r[2]
    <3>1. s[2] \in turnDone' <=> s[2] \in turnDone
      BY <1>4, <2>5
    <3> QED
      BY <1>1, <1>2, <3>1, HeldThen DEF Held, Due, Effective
  <2> QED
    BY <2>2, <2>3, <2>4, <2>5 DEF Held
<1> QED
  BY <1>1, <1>3, <1>4

\* The job of a worker or a timer keeps a message, or the turn with it ends.
LEMMA TurnKeeps ==
    ASSUME Base, Settings, Few, ~SlowOps, NEW r, Turns(r), NEW m, Held(r, m)
    PROVE  Held(r, m)' \/ m \in hist'.fin
<1> DEFINE j == At(r)
           k == After(r)
<1>1. r \in Ref /\ up' = up /\ k.data = j.data
  BY DEF Turns
<1>2. ~LeftBehind(r)'
  BY TurnsLives
<1>3. m \in SeqSet(j.data.msgs) /\ (j.st = "active" /\ j.by \in up => m \in SeqSet(j.snap.msgs))
  BY <1>1, HeldData DEF Held, Effective
<1>4. Due(j, r[2])
  BY DEF Held
<1> HIDE DEF j, k
<1>5. k.st = "active" /\ k.by \in up => m \in SeqSet(k.snap.msgs)
  BY <1>3 DEF Turns, Same, Has, j, k
<1>6. m \in SeqSet((IF k.st = "active" /\ k.by \in up' THEN k.snap ELSE k.data).msgs)
  BY <1>1, <1>3, <1>5
<1>7. \/ m \in hist'.fin
      \/ k.st = "failed"
      \/ Pending(k) /\ r[2] \notin turnDone'
      \/ /\ k.st = "active" /\ k.ph \in {"claimed", "moving", "running", "denied"}
         /\ r[2] \in turnDone' => k.by \in up' /\ k.ph \in {"running", "denied"}
  <2>1. CASE j.st = "waiting" /\ k.st = "active" /\ k.ph = "claimed" /\ Rest3
    BY <1>4, <2>1 DEF Due, Pending, Rest3
  <2>2. CASE Has(j, "claimed") /\ r[2] \in turnDone
    BY <1>4, <2>2 DEF Due, Pending, Has
  <2>3. CASE Has(j, "claimed") /\ r[2] \notin turnDone /\ k.st = "active" /\ k.ph = "running" /\ Rest3
    BY <2>3 DEF Rest3
  <2>4. CASE Has(j, "claimed") /\ r[2] \notin turnDone /\ Rest3 /\ k.st \in {"delayed", "failed"}
    BY <2>4 DEF Rest3, Pending
  <2>5. CASE Has(j, "running") /\ hist'.fin = hist.fin \cup SeqSet(j.snap.msgs)
    BY <1>3, <2>5 DEF Has
  <2>6. CASE Has(j, "running") /\ k.st = "active" /\ k.ph = "denied" /\ Same(j, k)
    BY <1>1, <2>6 DEF Has, Same
  <2>7. CASE Has(j, "ended") \/ Has(j, "moved")
    BY <1>4, <2>7 DEF Has, Due, Pending
  <2>8. CASE Has(j, "denied") /\ k.st = "failed"
    BY <2>8
  <2>9. CASE Pending(j) /\ k.st = "waiting" /\ Rest3
    BY <1>4, <2>9 DEF Due, Pending, Rest3
  <2>10. CASE j.st = "active" /\ j.by \notin up /\ k.st = "active" /\ k.ph = j.ph /\ Same(j, k) /\ Rest3
    BY <1>1, <1>4, <2>10 DEF Due, Pending, Rest3, Same
  <2>11. CASE j.st = "active" /\ j.by \notin up /\ Rest3 /\ k.st \in {"waiting", "failed"}
    BY <1>4, <2>11 DEF Due, Pending, Rest3
  <2> QED
    BY <2>1, <2>2, <2>3, <2>4, <2>5, <2>6, <2>7, <2>8, <2>9, <2>10, <2>11 DEF Turns, Pending, j, k
<1> QED
  BY <1>1, <1>2, <1>6, <1>7, HeldThen DEF k

LEMMA TurnsSafe ==
    ASSUME Base, Settings, Few, ~SlowOps, Lives, NEW r, Turns(r), NEW m, Safe(m)
    PROVE  Safe(m)'
<1>1. r \in Ref /\ (m \in hist.fin => m \in hist'.fin)
  BY DEF Turns, Rest3
<1> QED
  BY <1>1, TurnKeeps, OthersStayDue, SafeThen DEF Safe
-----------------------------------------------------------------------------
(***************************************************************************)
(* An operation's step keeps a message in a job                            *)
(***************************************************************************)
\* No operation writes what turns finished.
LEMMA OpStepFin == ASSUME Base, NEW o \in Op, OpStep(o) PROVE hist'.fin = hist.fin
<1>1. hist \in History
  BY BaseTyped DEF Typed
<1>2. \A S, T : /\ [hist EXCEPT !.raced = S].fin = hist.fin /\ [hist EXCEPT !.brief = S].fin = hist.fin
                /\ [hist EXCEPT !.misled = S].fin = hist.fin
                /\ [hist EXCEPT !.brief = S, !.misled = T].fin = hist.fin
  BY <1>1 DEF History
<1>3. CASE Recheck(o)
  <2>1. hist' = hist \/ \E S : hist' = [hist EXCEPT !.raced = S]
    BY <1>3 DEF Recheck
  <2> QED
    BY <1>2, <2>1
<1>4. CASE CheckMerge(o)
  <2>1. \E S : hist' = [hist EXCEPT !.brief = S]
    BY <1>4 DEF CheckMerge
  <2> QED
    BY <1>2, <2>1
<1>5. CASE DropCopy(o)
  <2>1. \E S, T : hist' = [hist EXCEPT !.brief = S, !.misled = T]
    BY <1>5 DEF DropCopy
  <2> QED
    BY <1>2, <2>1
<1>6. CASE Unmark(o)
  <2>1. \E S : hist' = [hist EXCEPT !.misled = S]
    BY <1>6 DEF Unmark
  <2> QED
    BY <1>2, <2>1
<1>7. CASE Acquire(o) \/ Release(o) \/ MarkFailed(o) \/ Look(o) \/ RecordSenders(o) \/ UpdateData(o) \/ Index(o)
  BY <1>7 DEF Acquire, Release, MarkFailed, Look, RecordSenders, UpdateData, Index
<1>8. CASE Add(o) \/ MarkSource(o) \/ CheckMoved(o) \/ CheckClaimed(o) \/ CheckSwap(o) \/ AddCopy(o) \/ MarkCopy(o)
  BY <1>8 DEF Add, MarkSource, CheckMoved, CheckClaimed, CheckSwap, AddCopy, MarkCopy
<1>9. CASE Take(o) \/ Promote(o) \/ Reindex(o) \/ TakeHold(o) \/ MarkHold(o)
  BY <1>9 DEF Take, Promote, Reindex, TakeHold, MarkHold
<1> QED
  BY <1>3, <1>4, <1>5, <1>6, <1>7, <1>8, <1>9 DEF OpStep

\* A copy has the messages of the job it is made of, and those it came with.
LEMMA CopyHas ==
    ASSUME Base, NEW o \in Op, op[o].pc \in {"take", "drop"}
    PROVE  LET p == op[o] IN
           /\ SeqSet(p.d.msgs) \subseteq SeqSet(CopyData(p).msgs)
           /\ At(Original(p)).st # "none" => SeqSet(At(Original(p)).data.msgs) \subseteq SeqSet(CopyData(p).msgs)
<1> DEFINE p == op[o]
           c == Relocated(p.prev, p.d, Hint(p))
<1>1. p.d \in Data /\ p.prev \in Data /\ ReadStill(p)
  BY BaseIs
<1>2. SeqSet(c.msgs) = SeqSet(p.prev.msgs) \cup SeqSet(p.d.msgs)
  BY <1>1, RelocatedMsgs
<1>3. At(Original(p)).st # "none" => At(Original(p)).data = IF Relocating(p) THEN p.prev ELSE p.d
  BY <1>1 DEF ReadStill
<1>4. CopyData(p) = IF Relocating(p) THEN c ELSE p.d
  BY DEF CopyData
<1> HIDE DEF p, c
<1>5. SeqSet(p.d.msgs) \subseteq SeqSet(CopyData(p).msgs)
  BY <1>2, <1>4
<1>6. At(Original(p)).st # "none" => SeqSet(At(Original(p)).data.msgs) \subseteq SeqSet(CopyData(p).msgs)
  BY <1>2, <1>3, <1>4
<1> QED
  BY <1>5, <1>6 DEF p

\* The copy of a move is held, and its turn is not done unless the original's is.
LEMMA CopyDue ==
    ASSUME Base, NEW o \in Op, op[o].pc \in {"take", "drop"}
    PROVE  LET p == op[o] IN
           /\ p.cp \in Ref /\ Original(p) \in Ref /\ p.cp # Original(p)
           /\ At(p.cp).st = "held" /\ At(p.cp).data = CopyData(p)
           /\ \/ p.kind = "swap" /\ p.cp[1] \in Label /\ p.cp[2] = Original(p)[2]
              \/ p.cp[2] \notin turnDone /\ moved[p.cp[2]] = NoRef
<1> DEFINE p == op[o]
<1>1. p.cp \in Ref /\ Original(p) \in Ref /\ p.cp # Original(p)
  BY OriginalApart DEF CopyPcs
<1>2. At(p.cp).st = "held" /\ At(p.cp).data = CopyData(p)
  BY BaseIs DEF CopyStays, HasCopy
<1>3. Shape(p) /\ p.cp # NoRef
  BY <1>1, BaseIs, TurnQueueAssumption DEF Ref
<1>4. p.kind \in {"enqueue", "redispatch", "merge", "swap"}
  BY <1>3 DEF Shape, KindPc, OpenPcs
<1>5. CASE p.kind = "swap"
  <2>1. p.cp = <<p.want, p.src[2]>> /\ p.want \in Label /\ Original(p) = p.src
    BY <1>3, <1>5 DEF Shape, Original, Relocating, HasWant
  <2> QED
    BY <1>1, <1>2, <1>5, <2>1
<1>6. CASE p.kind # "swap"
  <2>1. Unused(p) /\ p.cp[2] = p.id
    BY <1>3, <1>4, <1>6 DEF Unused, HasWant, Shape, Wanted
  <2>2. UnusedIs(p)
    BY <2>1, BaseIs
  <2> QED
    BY <1>1, <1>2, <2>1, <2>2 DEF UnusedIs
<1> QED
  BY <1>5, <1>6

\* The copy of a job that was taken holds its messages.
LEMMA CopyHolds ==
    ASSUME Base, ~SlowOps, NEW o \in Op, OpStep(o), TakesOver(o), NEW m, m \in SeqSet(CopyData(op[o]).msgs)
    PROVE  \E c \in Ref : Held(c, m)'
<1> DEFINE p == op[o]
<1>1. PICK c : c = p.cp
  OBVIOUS
<1>2. PICK h : h = Original(p)
  OBVIOUS
<1>3. p.pc = "take" /\ Takeable(p, At(h)) /\ h[2] \notin turnDone
  BY <1>2 DEF TakesOver
<1>4. /\ c \in Ref /\ h \in Ref /\ c # h /\ At(c).st = "held" /\ At(c).data = CopyData(p)
      /\ c[2] = h[2] \/ c[2] \notin turnDone
  BY <1>1, <1>2, <1>3, CopyDue
<1>5. Take(o)
  BY <1>3, StepAt
<1>6. After(c) = At(c)
  <2>1. JobBecomes(h, NoJob) \/ job' = job
    BY <1>2, <1>5, TakeTouches
  <2> QED
    BY <1>4, <2>1, AfterIs DEF After, At
<1>7. op'[o].pc \in {"look", "promote"} /\ op'[o].kind # "claimed"
  <2>1. Becomes(o, IF ~Takeable(p, At(h)) \/ h[2] \in turnDone THEN "drop"
                   ELSE IF p.kind = "merge" THEN "look" ELSE "promote", p.ref, p.prev, p.cp, p.res)
    BY <1>2, <1>5, BaseTyped, TakeDoes
  <2>2. p.kind # "claimed"
    BY <1>3, BaseIs DEF Shape, KindPc, OpenPcs
  <2> QED
    BY <1>3, <2>1, <2>2, SameRecord
<1>8. ~LeftBehind(c)'
  <2>1. ~MarkFailed(o)
    BY <1>3 DEF MarkFailed
  <2> QED
    BY <1>7, <2>1, HolderIs DEF Leaving
<1>9. turnDone' = turnDone
  BY OpStepCalm
<1> HIDE DEF p
<1>10. Held(c, m)'
  BY <1>3, <1>4, <1>6, <1>8, <1>9, HeldThen DEF Pending, p
<1> QED
  BY <1>4, <1>10

\* Only a worker's release ends its move.
LEMMA ReleasesOnly ==
    ASSUME Base, NEW o \in Op, OpStep(o), op[o].kind = "claimed", op'[o] = IdleOp
    PROVE  op[o].pc = "release"
<1>1. IdleOp.pc = "idle" /\ Shape(op[o]) /\ IdleOp.kind = "none"
  BY BaseIs, IdleIs
<1>2. op[o].pc \in {"acquire", "check", "marksrc", "release"} \cup OpenPcs
  BY <1>1 DEF Shape, KindPc
<1>3. ASSUME NEW l, NEW ref, NEW prev, NEW cp, NEW res, Becomes(o, l, ref, prev, cp, res) PROVE l = "idle"
  BY <1>1, <1>3, BecomesOnward
<1>4. CASE op[o].pc \in {"acquire", "check"}
  <2>1. Acquire(o) \/ CheckMoved(o) \/ CheckClaimed(o)
    BY <1>1, <1>4, StepAt DEF CheckMerge, CheckSwap
  <2>2. CASE Acquire(o)
    BY <1>3, <2>2, AcquireDoes, BaseTyped
  <2>3. CASE CheckMoved(o)
    BY <1>3, <2>3, CheckMovedDoes, BaseTyped
  <2>4. CASE CheckClaimed(o)
    BY <1>3, <2>4, CheckClaimedDoes, BaseTyped
  <2> QED
    BY <2>1, <2>2, <2>3, <2>4
<1>5. CASE op[o].pc \in {"senders", "update", "index", "add", "marksrc"}
  <2>1. RecordSenders(o) \/ UpdateData(o) \/ Index(o) \/ Add(o) \/ MarkSource(o)
    BY <1>5, StepAt
  <2>2. CASE RecordSenders(o) \/ UpdateData(o)
    BY <1>3, <2>2, RecordSendersDoes, UpdateDataDoes, BaseTyped
  <2>3. CASE Index(o) \/ Add(o) \/ MarkSource(o)
    BY <1>3, <2>3, IndexDoes, AddDoes, MarkSourceDoes, BaseTyped
  <2> QED
    BY <2>1, <2>2, <2>3
<1>6. CASE op[o].pc \in {"look", "recheck"}
  <2>1. Look(o) \/ Recheck(o)
    BY <1>6, StepAt
  <2>2. NotAppended(op[o]) # "idle" /\ AppendedThen(op[o]) # "idle"
    BY <1>1 DEF NotAppended, AppendedThen, HasWant
  <2> QED
    BY <1>3, <2>1, <2>2, LookDoes, RecheckDoes, BaseTyped
<1> QED
  BY <1>2, <1>4, <1>5, <1>6 DEF OpenPcs

\* A job that a step of an operation leaves in its place still holds its messages.
LEMMA StaysHeld ==
    ASSUME Base, NotDone, NEW o \in Op, OpStep(o), NEW r \in Ref, NEW m, Held(r, m),
           After(r).st # "none", ~LeftBehind(r)'
    PROVE  Held(r, m)'
<1> DEFINE j == At(r)
           k == After(r)
<1>1. up' = up /\ turnDone' = turnDone
  BY OpStepCalm
<1>2. /\ m \in SeqSet(j.data.msgs) /\ (j.st = "active" /\ j.by \in up => m \in SeqSet(j.snap.msgs))
      /\ Due(j, r[2]) /\ ~LeftBehind(r)
  BY HeldData DEF Held, Effective
<1>3. CASE k = j
  BY <1>1, <1>2, <1>3, HeldThen DEF Due
<1>4. CASE Grown(j, k) \/ Promoted(j, k)
  <2>1. m \in SeqSet(k.data.msgs) /\ k.by = j.by /\ k.ph = j.ph /\ (k.st = "active" => k.snap = j.snap /\ j.st = "active")
    BY <1>2, <1>4 DEF Grown, Promoted
  <2>2. (k.st = j.st) \/ (Pending(j) /\ Pending(k) /\ j.st = "held")
    BY <1>4 DEF Grown, Promoted, Pending
  <2>3. m \in SeqSet((IF k.st = "active" /\ k.by \in up' THEN k.snap ELSE k.data).msgs)
    BY <1>1, <1>2, <2>1
  <2> HIDE DEF j, k
  <2>4. \/ k.st = "failed"
        \/ Pending(k) /\ r[2] \notin turnDone'
        \/ /\ k.st = "active" /\ k.ph \in {"claimed", "moving", "running", "denied"}
           /\ r[2] \in turnDone' => k.by \in up' /\ k.ph \in {"running", "denied"}
    BY <1>1, <1>2, <2>1, <2>2 DEF Due, Pending
  <2> QED
    BY <1>2, <2>3, <2>4, HeldThen DEF k
<1>5. CASE Returned(j, k) /\ op[o].kind = "claimed" /\ r = op[o].src /\ op'[o] = IdleOp
  <2>1. ~Leaving(op[o], op[o].src)
    BY <1>2, <1>5 DEF LeftBehind
  <2>2. r[2] \notin turnDone /\ op[o].pc = "release" /\ op[o].res = NoRef
    <3>1. r[2] = op[o].id
      BY <1>5, BaseIs DEF Shape
    <3>2. op[o].pc = "release"
      BY <1>5, ReleasesOnly
    <3> QED
      BY <1>5, <2>1, <3>1, <3>2 DEF NotDone, Leaving
  <2>3. k.ph = "claimed"
    <3>1. PICK h : h = op[o].src
      OBVIOUS
    <3>2. Release(o)
      BY <2>2, StepAt
    <3>3. JobBecomes(h, [At(h) EXCEPT !.ph = "claimed"]) /\ [At(h) EXCEPT !.ph = "claimed"].ph = "claimed"
      BY <1>5, <2>2, <3>1, <3>2, ReleaseTouches
    <3> QED
      BY <1>5, <3>1, <3>3, AfterIs
  <2>4. m \in SeqSet((IF k.st = "active" /\ k.by \in up' THEN k.snap ELSE k.data).msgs)
    BY <1>1, <1>2, <1>5 DEF Returned
  <2> QED
    BY <1>1, <1>5, <2>2, <2>3, <2>4, HeldThen DEF Returned
<1>6. \/ k = j \/ Grown(j, k) \/ Promoted(j, k)
      \/ Returned(j, k) /\ op[o].kind = "claimed" /\ r = op[o].src /\ op'[o] = IdleOp
  <2>1. CASE job' = job
    BY <2>1 DEF After, At
  <2>2. CASE \E s, l : Changes(o, s, l)
    <3>1. PICK s, l : Changes(o, s, l)
      BY <2>2
    <3>2. k = IF r = s THEN l ELSE j
      BY <3>1, AfterIs DEF Changes
    <3>3. ~Removed(j, k) /\ ~Added(j, k)
      BY <1>2 DEF Removed, Added, NoJob, Due, Pending
    <3> HIDE DEF j, k
    <3> QED
      BY <3>1, <3>2, <3>3 DEF Changes, j
  <2> QED
    BY <2>1, <2>2, OpStepChanges
<1> QED
  BY <1>3, <1>4, <1>5, <1>6

\* Messages that are in the pending job are held there.
LEMMA AppendedHeld ==
    ASSUME Base, ~SlowOps, NEW o \in Op, OpStep(o), op[o].pc \in {"look", "recheck"},
           op'[o].pc \in {"release", "marksrc", "takehold"}, NEW m, m \in SeqSet(op[o].d.msgs)
    PROVE  \E s \in Ref : Held(s, m)'
<1> DEFINE p == op[o]
           n == op'[o]
<1>1. p.d \in Data /\ Shape(p) /\ CopyStays(p) /\ ReadStill(p)
  BY BaseIs
<1>2. p.kind \in {"enqueue", "redispatch", "claimed", "merge"}
  BY <1>1 DEF Shape, KindPc, CopyPcs
<1>3. NotAppended(p) \in {"promote", "index"}
  BY DEF NotAppended
<1>4. CASE Look(o)
  <2>1. /\ AppendableAt(idx) /\ NothingNew(p, At(idx).data) /\ job' = job /\ up' = up /\ turnDone' = turnDone
        /\ Becomes(o, AppendedThen(p), p.ref, p.prev, p.cp, idx)
    <3>1. ASSUME NEW l, NEW ref, NEW prev, NEW cp, NEW res, Becomes(o, l, ref, prev, cp, res)
          PROVE  l \in {"release", "marksrc", "takehold"}
      BY <3>1, BecomesOnward
    <3> QED
      BY <1>3, <1>4, <3>1, LookDoes, BaseTyped
  <2>2. PICK s : s = idx
    OBVIOUS
  <2>3. s \in Ref /\ Pending(At(s)) /\ s[2] \notin turnDone
    BY <2>1, <2>2, BaseTyped DEF AppendableAt, Typed, TypeOK
  <2>4. m \in SeqSet(At(s).data.msgs)
    <3>1. At(s).data \in Data
      BY <2>3, BaseTyped, PlaceIs
    <3>2. p.d.msgs \in Seq(Msg) /\ NewMessages(At(s).data.msgs, p.d.msgs) = << >>
      BY <1>1, <2>1, <2>2 DEF Data, NothingNew
    <3>3. SeqSet(<< >>) = SeqSet(p.d.msgs) \ SeqSet(At(s).data.msgs)
      BY <3>2, NewMessagesAre
    <3>4. SeqSet(<< >>) = {}
      BY DEF SeqSet
    <3> QED
      BY <3>3, <3>4
  <2>5. n.cp = p.cp /\ n.kind = p.kind /\ n.src = p.src /\ n.pc = AppendedThen(p)
    BY <2>1, SameRecord
  <2>6. ~Leaving(n, s)
    <3>1. p.kind = "merge" => p.cp # s
      BY <1>1, <1>4, <2>2 DEF CopyStays, HasCopy, Look
    <3>2. p.kind = "claimed" => p.src # s
      BY <2>3, BaseTyped DEF Base, ClaimStays, Pending
    <3>3. p.kind # "merge" => n.pc # "takehold"
      BY <1>2, <2>5 DEF AppendedThen, HasWant
    <3> QED
      BY <2>5, <3>1, <3>2, <3>3 DEF Leaving
  <2>7. ~LeftBehind(s)'
    <3>1. ~MarkFailed(o)
      BY <1>4 DEF MarkFailed, Look
    <3> QED
      BY <2>6, <3>1, HolderIs
  <2>8. After(s) = At(s)
    BY <2>1 DEF After, At
  <2> QED
    BY <2>1, <2>3, <2>4, <2>7, <2>8, HeldThen DEF Pending
<1>5. CASE Recheck(o)
  <2>1. /\ AppendableAt(p.ref) /\ job' = job /\ up' = up /\ turnDone' = turnDone
        /\ Becomes(o, AppendedThen(p), p.ref, p.prev, p.cp, p.ref)
    <3>1. ASSUME NEW l, NEW ref, NEW prev, NEW cp, NEW res, Becomes(o, l, ref, prev, cp, res)
          PROVE  l \in {"release", "marksrc", "takehold"}
      BY <3>1, BecomesOnward
    <3> QED
      BY <1>3, <1>5, <3>1, RecheckDoes, BaseTyped
  <2>2. PICK s : s = p.ref
    OBVIOUS
  <2>3. s \in Ref /\ Pending(At(s)) /\ s[2] \notin turnDone /\ m \in SeqSet(At(s).data.msgs)
    BY <1>1, <1>5, <2>1, <2>2 DEF AppendableAt, Recheck, Shape, Appending, ReadStill
  <2>5. n.cp = p.cp /\ n.kind = p.kind /\ n.src = p.src /\ n.pc = AppendedThen(p)
    BY <2>1, SameRecord
  <2>6. ~Leaving(n, s)
    <3>1. p.kind = "merge" => p.cp # s
      BY <1>1, <1>5, <2>2 DEF CopyStays, HasCopy, Recheck, Appending
    <3>2. p.kind = "claimed" => p.src # s
      BY <2>3, BaseTyped DEF Base, ClaimStays, Pending
    <3>3. p.kind # "merge" => n.pc # "takehold"
      BY <1>2, <2>5 DEF AppendedThen, HasWant
    <3> QED
      BY <2>5, <3>1, <3>2, <3>3 DEF Leaving
  <2>7. ~LeftBehind(s)'
    <3>1. ~MarkFailed(o)
      BY <1>5 DEF MarkFailed, Recheck
    <3> QED
      BY <2>6, <3>1, HolderIs
  <2>8. After(s) = At(s)
    BY <2>1 DEF After, At
  <2> QED
    BY <2>1, <2>3, <2>7, <2>8, HeldThen DEF Pending
<1> QED
  BY <1>4, <1>5, StepAt

\* Messages that are added are held in their new job.
LEMMA AddHeld ==
    ASSUME Base, ~SlowOps, NotDone, NEW o \in Op, OpStep(o), op[o].pc = "add", NEW m, m \in SeqSet(op[o].d.msgs)
    PROVE  \E s \in Ref : Held(s, m)'
<1> DEFINE p == op[o]
           n == op'[o]
           k == FreshJob("waiting", p.d)
<1>1. Add(o) /\ Shape(p) /\ CopyStays(p) /\ (Unused(p) => UnusedIs(p)) /\ p.d \in Data
  BY StepAt, BaseIs
<1>2. PICK s : s = Wanted(p)
  OBVIOUS
<1>3. /\ s \in Ref /\ JobBecomes(s, k) /\ Becomes(o, IF p.kind = "claimed" THEN "marksrc" ELSE "release", p.ref, p.prev, p.cp, s)
  BY <1>1, <1>2, BaseTyped, AddDoes, AddTouches
<1>4. up' = up /\ turnDone' = turnDone
  BY OpStepCalm
<1>5. s[2] = p.id /\ s[1] = p.want /\ p.kind \in {"enqueue", "redispatch", "claimed"}
  BY <1>1, <1>2 DEF Wanted, Shape, KindPc, CopyPcs
<1>6. s[2] \notin turnDone
  <2>1. CASE HasWant(p)
    BY <1>1, <1>5, <2>1 DEF Unused, UnusedIs
  <2>2. CASE p.kind = "claimed"
    BY <1>1, <1>5, <2>2 DEF NotDone, Leaving
  <2> QED
    BY <1>5, <2>1, <2>2 DEF HasWant
<1>7. n.kind = p.kind /\ n.src = p.src /\ n.pc \in {"marksrc", "release"}
  BY <1>3, SameRecord
<1>8. ~LeftBehind(s)'
  <2>1. ~MarkFailed(o)
    BY <1>1 DEF MarkFailed, Add
  <2>2. p.kind = "claimed" => p.src # s
    BY <1>1, <1>5 DEF Shape
  <2> QED
    BY <1>7, <2>1, <2>2, HolderIs DEF Leaving
<1>9. After(s) = k
  BY <1>3, AfterIs
<1>10. k.st = "waiting" /\ k.data = p.d
  BY DEF FreshJob, NoJob
<1> HIDE DEF k, p, n
<1> QED
  BY <1>3, <1>4, <1>6, <1>8, <1>9, <1>10, HeldThen DEF Pending, p

\* Where an operation comes from to leave a job behind, or to put its messages
\* in a job.
ComesFrom(o) ==
    LET p == op[o]
        n == op'[o] IN
    /\ n.pc \in {"markcopy", "take", "drop"} => n.cp = p.cp
    /\ n.pc = "markcopy" => p.pc = "copy"
    /\ n.pc = "take" => p.pc = "markcopy"
    /\ n.pc = "drop" => p.pc = "take"
    /\ n.pc = "takehold" => n.cp = p.cp /\ p.kind = "merge" /\ p.pc \in {"look", "recheck"}
    /\ n.pc = "marksrc" /\ n.kind = "claimed" => p.pc \in {"look", "recheck", "add"}
    /\ n.pc = "release" /\ n.kind = "claimed" /\ n.res # NoRef => p.pc = "marksrc" \/ CheckMoved(o)
    /\ n.kind = "enqueue" =>
          /\ p.kind = "enqueue" /\ p.d = n.d
          /\ n.pc = "promote" => TakesOver(o)
          /\ n.pc = "reindex" => p.pc = "promote"
          /\ n.pc = "release" /\ n.res # NoRef => p.pc \in {"look", "recheck", "add", "reindex"}

LEMMA OpStepFrom ==
    ASSUME Base, NEW o \in Op, OpStep(o)
    PROVE  ComesFrom(o)
<1>0. Typed /\ Shape(op[o])
  BY BaseIs
<1>1. CASE Acquire(o) \/ RecordSenders(o) \/ CheckClaimed(o)
  BY <1>0, <1>1, AcquireDoes, RecordSendersDoes, CheckClaimedDoes DEF ComesFrom, Becomes
<1>2. CASE Index(o) \/ MarkSource(o) \/ Reindex(o)
  BY <1>0, <1>2, IndexDoes, MarkSourceDoes, ReindexDoes DEF ComesFrom, Becomes, Shape, KindPc, OpenPcs, CopyPcs
<1>3. CASE Add(o)
  BY <1>0, <1>3, AddDoes DEF ComesFrom, Becomes
<1>16. CASE UpdateData(o)
  BY <1>0, <1>16, UpdateDataDoes DEF ComesFrom, Becomes
<1>4. CASE MarkCopy(o) \/ MarkHold(o)
  BY <1>0, <1>4, MarkCopyDoes, MarkHoldDoes DEF ComesFrom, Becomes, Shape, KindPc, OpenPcs
<1>5. CASE AddCopy(o) \/ DropCopy(o)
  BY <1>0, <1>5, AddCopyDoes, DropCopyDoes DEF ComesFrom, Becomes
<1>6. CASE Promote(o) \/ TakeHold(o)
  BY <1>0, <1>6, PromoteDoes, TakeHoldDoes DEF ComesFrom, Becomes
<1>7. CASE Take(o)
  BY <1>0, <1>7, TakeDoes DEF ComesFrom, Becomes, TakesOver
<1>8. CASE Unmark(o)
  BY <1>0, <1>8, UnmarkDoes DEF ComesFrom, Becomes, HasWant, Shape, KindPc, OpenPcs, CopyPcs
<1>9. CASE Look(o)
  <2>1. /\ AppendedThen(op[o]) \notin {"markcopy", "take", "drop", "promote", "reindex"}
        /\ AppendedThen(op[o]) = "takehold" => op[o].kind = "merge"
        /\ AppendedThen(op[o]) = "release" => op[o].kind # "claimed"
        /\ NotAppended(op[o]) \notin {"markcopy", "take", "drop", "takehold", "marksrc", "release", "reindex"}
        /\ NotAppended(op[o]) = "promote" => op[o].kind = "merge"
    BY <1>0, <1>9 DEF AppendedThen, NotAppended, HasWant, Look, Shape, KindPc, CopyPcs
  <2>2. op[o].pc = "look"
    BY <1>9 DEF Look
  <2> QED
    BY <1>0, <1>9, <2>1, <2>2, LookDoes DEF ComesFrom, Becomes
<1>10. CASE Recheck(o)
  <2>1. /\ AppendedThen(op[o]) \notin {"markcopy", "take", "drop", "promote", "reindex"}
        /\ AppendedThen(op[o]) = "takehold" => op[o].kind = "merge"
        /\ AppendedThen(op[o]) = "release" => op[o].kind # "claimed"
        /\ NotAppended(op[o]) \notin {"markcopy", "take", "drop", "takehold", "marksrc", "release", "reindex"}
        /\ NotAppended(op[o]) = "promote" => op[o].kind = "merge"
    BY <1>0, <1>10 DEF AppendedThen, NotAppended, HasWant, Recheck, Shape, KindPc, CopyPcs
  <2>2. op[o].pc = "recheck"
    BY <1>10 DEF Recheck
  <2> QED
    BY <1>0, <1>10, <2>1, <2>2, RecheckDoes DEF ComesFrom, Becomes
<1>11. CASE CheckMoved(o)
  BY <1>0, <1>11, CheckMovedDoes DEF ComesFrom, Becomes, Shape, KindPc, OpenPcs, CopyPcs
<1>12. CASE CheckMerge(o)
  BY <1>0, <1>12, MergeKeeps DEF ComesFrom
<1>13. CASE CheckSwap(o)
  BY <1>0, <1>13, SwapIs DEF ComesFrom
<1>14. CASE Release(o)
  BY <1>0, <1>14, ReleaseDoes, IdleIs DEF ComesFrom, Becomes, OpBecomes
<1>15. CASE MarkFailed(o)
  BY <1>0, <1>15, MarkFailedDoes, IdleIs DEF ComesFrom, OpBecomes
<1> QED
  BY <1>1, <1>2, <1>3, <1>4, <1>5, <1>6, <1>7, <1>8, <1>9, <1>10, <1>11, <1>12, <1>13, <1>14, <1>15, <1>16 DEF OpStep

\* A worker's job that lives was not moved before, and is not on its label's queue.
LEMMA ClaimedStaysPut ==
    ASSUME Base, Settings, Few, ~SlowOps, Lives, Marked, NEW o \in Op, OpStep(o), op[o].kind = "claimed"
    PROVE  ~CheckMoved(o)
<1> SUFFICES ASSUME CheckMoved(o) PROVE FALSE
  OBVIOUS
<1> DEFINE p == op[o]
<1>1. PICK h : h = p.src
  OBVIOUS
<1>2. p.pc = "check" /\ (MovedAway(p) \/ At(<<p.want, p.src[2]>>).st # "none") /\ <<p.want, p.src[2]>> \in Ref
  BY BaseTyped, CheckMovedDoes, PlacesAre
<1>3. /\ h \in Ref /\ LiveAt(h) /\ h[1] # p.want /\ At(h).data.label = p.want
  BY <1>1, <1>2, ClaimLives
<1>4. MaxCrashes = 0
  BY DEF Settings, AllFit, Few, NoMisfits, NoReaps
<1>5. ~MarkFailed(o)
  BY <1>2 DEF MarkFailed
<1>6. ~MovedAway(p)
  <2> SUFFICES ASSUME MovedAway(p) PROVE FALSE
    OBVIOUS
  <2>1. moved[h[2]] # NoRef /\ moved[h[2]][1] # h[1]
    BY <1>1 DEF MovedAway, MovedOff
  <2>2. PICK x \in Op : MovingOff(op[x], h)
    BY <1>3, <1>4, <2>1 DEF Marked, MarkedLive
  <2>3. op[x].pc \in Free \/ x = o
    BY <1>5, HolderIs
  <2> QED
    BY <1>2, <2>2, <2>3 DEF MovingOff, Free
<1>7. ~LeftBehind(<<p.want, p.src[2]>>)
  BY <1>2, <1>5, HolderIs DEF Leaving
<1> QED
  BY <1>1, <1>2, <1>3, <1>6, <1>7 DEF Lives, Home

\* A job is left behind when its messages are in another, or on their way there.
LEMMA LeavesWith ==
    ASSUME Base, Settings, Few, ~SlowOps, Lives, Marked, NEW o \in Op, OpStep(o),
           NEW r \in Ref, NEW m, Held(r, m), Leaving(op'[o], r)
    PROVE  /\ op[o].pc \in {"look", "recheck", "add"} /\ op'[o].pc \in {"marksrc", "takehold"}
           /\ m \in SeqSet(op[o].d.msgs)
<1> DEFINE p == op[o]
           n == op'[o]
<1>1. ComesFrom(o) /\ Shape(p) /\ CopyStays(p)
  BY OpStepFrom, BaseIs
<1>2. ~Leaving(p, r) /\ m \in SeqSet(Effective(At(r)).msgs) /\ Due(At(r), r[2])
  BY DEF Held, LeftBehind
<1>3. CASE n.pc \in {"markcopy", "take", "drop"} /\ n.cp = r
  <2>1. p.cp = r /\ p.pc = "copy"
    BY <1>1, <1>2, <1>3 DEF ComesFrom, Leaving
  <2>2. At(r).st = "none"
    BY <1>1, <2>1 DEF CopyStays
  <2> QED
    BY <1>2, <2>2 DEF Due, Pending
<1>4. CASE n.pc = "takehold" /\ n.cp = r
  <2>1. p.cp = r /\ p.kind = "merge" /\ p.pc \in {"look", "recheck"}
    BY <1>1, <1>4 DEF ComesFrom
  <2>2. At(r).st = "held" /\ At(r).data = CopyData(p)
    BY <1>1, <2>1 DEF CopyStays, HasCopy
  <2>3. CopyData(p) = p.d
    BY <2>1 DEF CopyData, Relocating, HasWant
  <2> QED
    BY <1>2, <1>4, <2>1, <2>2, <2>3 DEF Effective
<1>5. CASE n.kind = "claimed" /\ n.src = r /\ (n.pc = "marksrc" \/ (n.pc = "release" /\ n.res # NoRef))
  <2>1. p.kind = "claimed" /\ p.src = r
    BY <1>5, OpStepKeeps DEF Keeps
  <2>2. ~CheckMoved(o)
    BY <2>1, ClaimedStaysPut
  <2>3. p.pc \in {"look", "recheck", "add"} /\ n.pc = "marksrc"
    BY <1>1, <1>2, <1>5, <2>1, <2>2 DEF ComesFrom, Leaving
  <2>4. At(r).st = "active" /\ At(r).by \in up /\ At(r).snap = p.d
    BY <2>1, ClaimLives
  <2> QED
    BY <1>2, <2>3, <2>4 DEF Effective
<1> QED
  BY <1>3, <1>4, <1>5 DEF Leaving

LEMMA OpStepSafe ==
    ASSUME Base, Settings, Few, ~SlowOps, Lives, Marked, NotDone, NEW o \in Op, OpStep(o), NEW m, Safe(m)
    PROVE  Safe(m)'
<1>1. ASSUME NEW r \in Ref, Held(r, m) PROVE \E s \in Ref : Held(s, m)'
  <2>1. CASE After(r).st # "none" /\ ~LeftBehind(r)'
    BY <1>1, <2>1, StaysHeld
  <2>2. CASE LeftBehind(r)'
    <3>1. ~MarkFailed(o)
      BY <1>1, <2>2, MarkFailedLeaves DEF Held
    <3>2. Leaving(op'[o], r)
      BY <2>2, <3>1, HolderIs
    <3> QED
      BY <1>1, <3>2, LeavesWith, AppendedHeld, AddHeld
  <2>3. CASE After(r).st = "none"
    <3>1. At(r).st # "none" /\ ~LeftBehind(r) /\ Due(At(r), r[2]) /\ m \in SeqSet(At(r).data.msgs)
      BY <1>1, HeldData DEF Held, Due, Pending
    <3>2. op[o].pc = "take" /\ r = Original(op[o]) /\ Takeable(op[o], At(r))
      <4>1. job' # job
        BY <2>3, <3>1 DEF After, At
      <4>2. PICK s, k : Changes(o, s, k)
        BY <4>1, OpStepChanges
      <4>3. After(r) = IF r = s THEN k ELSE At(r)
        BY <4>2, AfterIs DEF Changes
      <4>4. r = s /\ k.st = "none"
        BY <2>3, <3>1, <4>3
      <4>5. Removed(At(r), k)
        BY <3>1, <4>2, <4>4 DEF Changes, Grown, Added, Promoted, Returned
      <4>6. ~(op[o].pc \in {"drop", "takehold"} /\ r = op[o].cp)
        BY <3>1 DEF LeftBehind, Leaving
      <4> QED
        BY <4>2, <4>4, <4>5, <4>6, <3>1 DEF Changes, Grown, Added, Promoted, Returned
    <3>3. TakesOver(o)
      <4>1. At(r).st = "active" => At(r).by \notin up
        BY <3>2, TakenLives
      <4>2. r[2] \notin turnDone
        BY <3>1, <3>2, <4>1 DEF Due, Takeable, Pending
      <4> QED
        BY <3>2, <4>2 DEF TakesOver
    <3>4. m \in SeqSet(CopyData(op[o]).msgs)
      BY <3>1, <3>2, CopyHas
    <3> QED
      BY <3>3, <3>4, CopyHolds
  <2> QED
    BY <2>1, <2>2, <2>3
<1> QED
  BY <1>1, OpStepFin, SafeThen DEF Safe

\* Only a release tells the caller where its message is.
LEMMA StepWatches == ASSUME NEW o \in Op, OpStep(o), watch' # watch PROVE Release(o)
<1>1. CASE Acquire(o) \/ MarkFailed(o) \/ Look(o) \/ RecordSenders(o) \/ UpdateData(o) \/ Recheck(o) \/ Index(o) \/ Add(o)
  BY <1>1 DEF view, Acquire, MarkFailed, Look, RecordSenders, UpdateData, Recheck, Index, Add
<1>2. CASE MarkSource(o) \/ CheckMoved(o) \/ CheckClaimed(o) \/ CheckMerge(o) \/ CheckSwap(o) \/ AddCopy(o) \/ MarkCopy(o)
  BY <1>2 DEF view, MarkSource, CheckMoved, CheckClaimed, CheckMerge, CheckSwap, AddCopy, MarkCopy
<1>3. CASE Take(o) \/ DropCopy(o) \/ Unmark(o) \/ Promote(o) \/ Reindex(o) \/ TakeHold(o) \/ MarkHold(o)
  BY <1>3 DEF view, Take, DropCopy, Unmark, Promote, Reindex, TakeHold, MarkHold
<1> QED
  BY <1>1, <1>2, <1>3 DEF OpStep

LEMMA OpStepKept ==
    ASSUME Base, Settings, Few, ~SlowOps, Lives, Marked, NotDone, Kept, NEW o \in Op, OpStep(o)
    PROVE  Kept'
<1> DEFINE p == op[o]
           n == op'[o]
<1>1. \A m : Safe(m) => Safe(m)'
  BY OpStepSafe
<1>2. ComesFrom(o) /\ Shape(p) /\ (\A x \in Op : x # o => op'[x] = op[x])
  BY OpStepFrom, BaseIs, RecordGoesOn
<1>3. ASSUME Landed(n), NEW m, m \in SeqSet(n.d.msgs) PROVE Safe(m)'
  <2>1. n.kind = "enqueue" /\ p.kind = "enqueue" /\ m \in SeqSet(p.d.msgs)
    BY <1>2, <1>3 DEF Landed, ComesFrom
  <2>2. CASE Landed(p)
    BY <1>1, <2>1, <2>2 DEF Kept
  <2>3. CASE TakesOver(o)
    <3>1. m \in SeqSet(CopyData(p).msgs)
      BY <2>1, <2>3, CopyHas DEF TakesOver
    <3> QED
      BY <2>3, <3>1, CopyHolds, SafeThen
  <2>4. CASE n.pc = "release" /\ p.pc \in {"look", "recheck"}
    BY <2>1, <2>4, AppendedHeld, SafeThen
  <2>5. CASE p.pc = "add"
    BY <2>1, <2>5, AddHeld, SafeThen
  <2>6. \/ Landed(p) \/ TakesOver(o) \/ p.pc = "add"
        \/ n.pc = "release" /\ p.pc \in {"look", "recheck"}
    BY <1>2, <1>3, <2>1 DEF Landed, ComesFrom
  <2> QED
    BY <2>2, <2>3, <2>4, <2>5, <2>6
<1>4. ASSUME NEW m \in Msg, Accepted(m)' PROVE Safe(m)'
  <2>1. CASE Accepted(m)
    BY <1>1, <2>1 DEF Kept
  <2>2. CASE ~Accepted(m)
    <3>1. watch' # watch
      BY <1>4, <2>2 DEF Accepted
    <3>2. Release(o)
      BY <3>1, StepWatches
    <3>3. /\ p.pc = "release" /\ p.kind = "enqueue" /\ watch' = [watch EXCEPT ![p.d.msgs[1]] = p.res]
      BY <3>1, <3>2, BaseTyped, ReleaseDoes
    <3>4. m = p.d.msgs[1] /\ p.res # NoRef
      <4>1. watch \in [Msg -> Ref \cup {NoRef}]
        BY BaseTyped DEF Typed, TypeOK
      <4> QED
        BY <1>4, <2>2, <3>3, <4>1 DEF Accepted
    <3>5. m \in SeqSet(p.d.msgs)
      <4>1. p.d.msgs \in Seq(Msg) /\ p.d.msgs # << >>
        BY <1>2, <3>3, BaseIs DEF Data, Shape
      <4> QED
        BY <3>4, <4>1 DEF SeqSet
    <3> QED
      BY <1>1, <3>3, <3>4, <3>5 DEF Kept, Landed
  <2> QED
    BY <2>1, <2>2
<1>5. ASSUME NEW x \in Op, Landed(op'[x]), NEW m, m \in SeqSet(op'[x].d.msgs) PROVE Safe(m)'
  BY <1>1, <1>2, <1>3, <1>5 DEF Kept
<1>6. \A x \in Op : Landed(op[x])' => \A m \in SeqSet(op'[x].d.msgs) : Safe(m)'
  BY <1>5 DEF Landed
<1> QED
  BY <1>4, <1>6 DEF Kept

LEMMA KeptNext ==
    ASSUME Base, Settings, Few, ~SlowOps, Lives, Marked, NotDone, Kept, [Next]_vars
    PROVE  Kept'
<1>1. ~Landed(IdleOp)
  BY IdleIs DEF Landed
<1>2. ASSUME NEW r, Turns(r) PROVE Kept'
  <2>1. op' = op /\ watch' = watch
    BY <1>2 DEF Turns
  <2> QED
    BY <1>2, <2>1, TurnsSafe, KeptThen DEF Accepted
<1>3. ASSUME NEW o \in Op, NEW n, BeginsFit(o, n) PROVE Kept'
  <2>1. /\ watch' = watch /\ op'[o].pc = "acquire" /\ \A x \in Op : x # o => op'[x] = op[x]
    BY <1>3 DEF BeginsFit, Begins, OpBecomes
  <2>2. \A x \in Op : Landed(op'[x]) => op'[x] = op[x]
    BY <2>1 DEF Landed
  <2> QED
    BY <1>3, <2>1, <2>2, BeginsSafe, KeptThen DEF Accepted
<1>4. ASSUME NEW o \in Op, Crashes(o) PROVE Kept'
  <2>1. /\ watch' = watch /\ op'[o] = IdleOp /\ \A x \in Op : x # o => op'[x] = op[x]
    BY <1>4 DEF Crashes, OpBecomes
  <2>2. \A x \in Op : Landed(op'[x]) => op'[x] = op[x]
    BY <1>1, <2>1
  <2> QED
    BY <1>4, <2>1, <2>2, CrashesSafe, KeptThen DEF Accepted
<1>5. ASSUME NEW n \in Node, Dies(n) PROVE Kept'
  <2>1. op' = op /\ watch' = watch
    BY <1>5 DEF Dies
  <2> QED
    BY <1>5, <2>1, DiesSafe, KeptThen DEF Accepted
<1>6. ASSUME Still PROVE Kept'
  <2>1. op' = op /\ \A m \in Msg : Accepted(m)' => Accepted(m)
    BY <1>6 DEF Still
  <2> QED
    BY <1>6, <2>1, StillSafe, KeptThen
<1> QED
  BY <1>2, <1>3, <1>4, <1>5, <1>6, NextIs, OpStepKept

LEMMA KeptInit == ASSUME Init PROVE Kept
<1>1. ~Landed(IdleOp)
  BY IdleIs DEF Landed
<1> QED
  BY <1>1 DEF Init, Kept, Accepted

\* A due job that no marker sends away can still run, or failed.
LEMMA DueRecovers ==
    ASSUME Base, NEW r \in Ref, Due(At(r), r[2]),
           r[1] \notin Label \cup up => ~MovedOff(r[2], r[1]) \/ \E o \in Op : op[o].pc = "unmark" /\ Original(op[o]) = r
    PROVE  At(r).st = "failed" \/ Recoverable(r[1], r[2])
<1>1. r = <<r[1], r[2]>> /\ job[r[1]][r[2]] = At(r)
  BY RefIs DEF At
<1>2. CASE At(r).st # "failed"
  <2>1. At(r).st \notin {"none", "completed", "failed"}
    BY <1>2 DEF Due, Pending
  <2>2. r[2] \in turnDone => At(r).st = "active" /\ At(r).by \in up
    BY <1>2 DEF Due
  <2> QED
    BY <1>1, <2>1, <2>2 DEF Recoverable
<1> QED
  BY <1>2

\* A safe message is in a job that can still run, or failed: the job that holds
\* it, or the copy of the move that takes it.
LEMMA HeldRecovers ==
    ASSUME Base, Settings, Few, ~SlowOps, Marked, NEW r \in Ref, NEW m, Held(r, m)
    PROVE  \E s \in Ref : m \in SeqSet(Effective(At(s)).msgs) /\ (At(s).st = "failed" \/ Recoverable(s[1], s[2]))
<1>1. /\ m \in SeqSet(Effective(At(r)).msgs) /\ m \in SeqSet(At(r).data.msgs)
      /\ ~LeftBehind(r) /\ Due(At(r), r[2])
  BY HeldData DEF Held
<1>2. CASE At(r).st = "failed" \/ (r[1] \notin Label \cup up =>
              ~MovedOff(r[2], r[1]) \/ \E o \in Op : op[o].pc = "unmark" /\ Original(op[o]) = r)
  BY <1>1, <1>2, DueRecovers
<1>3. CASE /\ At(r).st # "failed" /\ r[1] \notin Label \cup up /\ MovedOff(r[2], r[1])
           /\ ~(\E o \in Op : op[o].pc = "unmark" /\ Original(op[o]) = r)
  <2>1. LiveAt(r)
    BY <1>1, <1>3 DEF Due, LiveAt, Runs
  <2>2. MaxCrashes = 0
    <3>1. r[1] \in Warm /\ r[1] \in Node
      BY <1>3, RefIs, TurnQueueAssumption DEF Queue
    <3>2. Mortal # {}
      BY <1>3, <3>1 DEF Settings, AllUp
    <3> QED
      BY <3>2 DEF Few
  <2>3. PICK o \in Op : MovingOff(op[o], r)
    BY <1>3, <2>1, <2>2 DEF Marked, MarkedLive, MovedOff
  <2>4. op[o].pc \in {"take", "drop"} /\ Original(op[o]) = r
    BY <1>3, <2>3 DEF MovingOff
  <2>5. PICK c : c = op[o].cp
    OBVIOUS
  <2>6. /\ c \in Ref /\ At(c).st = "held" /\ At(c).data = CopyData(op[o])
        /\ \/ c[1] \in Label /\ c[2] = r[2]
           \/ c[2] \notin turnDone /\ moved[c[2]] = NoRef
    BY <2>4, <2>5, CopyDue
  <2>7. m \in SeqSet(At(c).data.msgs)
    <3>1. At(r).st # "none"
      BY <2>1 DEF LiveAt, Runs, Pending
    <3> QED
      BY <1>1, <2>4, <2>6, <3>1, CopyHas
  <2>8. r[2] \notin turnDone
    <3> SUFFICES ASSUME r[2] \in turnDone PROVE FALSE
      OBVIOUS
    <3>1. At(r).st = "active" /\ At(r).by \in up
      BY <1>1, <1>3 DEF Due
    <3>2. JobShape(At(r), r[1])
      BY BaseTyped DEF JobShapes
    <3>3. r[1] \in Carries[At(r).by] \cup {At(r).by} /\ At(r).by \in Node
      BY <3>1, <3>2 DEF JobShape
    <3>4. Carries[At(r).by] \subseteq Label
      BY <3>3, TurnQueueAssumption
    <3> QED
      BY <1>3, <3>1, <3>3, <3>4
  <2>9. Due(At(c), c[2])
    BY <2>6, <2>8 DEF Due, Pending
  <2>10. c[1] \notin Label \cup up => ~MovedOff(c[2], c[1])
    BY <2>6 DEF MovedOff
  <2>11. m \in SeqSet(Effective(At(c)).msgs)
    BY <2>6, <2>7 DEF Effective
  <2> QED
    BY <2>6, <2>9, <2>10, <2>11, DueRecovers
<1> QED
  BY <1>2, <1>3

LEMMA KeptNoneLost ==
    ASSUME Base, Settings, Few, ~SlowOps, Marked, Kept
    PROVE  NoMessageLost
<1>1. ASSUME NEW s \in Ref
      PROVE  s[1] \in Queue /\ s[2] \in Id /\ job[s[1]][s[2]] = At(s)
  BY RefIs DEF At
<1>2. ASSUME NEW m \in Msg, Accepted(m), m \notin hist.fin
      PROVE  \E q \in Queue, i \in Id :
                 /\ m \in SeqSet(Effective(job[q][i]).msgs)
                 /\ job[q][i].st = "failed" \/ Recoverable(q, i)
  <2>1. PICK r \in Ref : Held(r, m)
    BY <1>2 DEF Kept, Safe
  <2>2. PICK s \in Ref : m \in SeqSet(Effective(At(s)).msgs) /\ (At(s).st = "failed" \/ Recoverable(s[1], s[2]))
    BY <2>1, HeldRecovers
  <2> QED
    BY <1>1, <2>2
<1> QED
  BY <1>2 DEF NoMessageLost

\* The invariant of the turns.
TurnsKept == Base /\ Settings /\ Lives /\ Marked /\ NotDone /\ Kept

LEMMA TurnsKeptNext ==
    ASSUME Few, ~SlowOps, TurnsKept, [Next]_vars
    PROVE  TurnsKept'
<1>1. Base /\ Settings /\ Lives /\ Marked /\ NotDone /\ Kept
  BY DEF TurnsKept
<1>2. Base' /\ Typed'
  BY <1>1, BaseNext DEF Base
<1> QED
  BY <1>1, <1>2, SettingsNext, LivesNext, MarkedNext, NotDoneNext, KeptNext DEF TurnsKept

LEMMA TurnsKeptInit == ASSUME Init PROVE TurnsKept
BY BaseInit, SettingsInit, LivesInit, MarkedInit, NotDoneInit, KeptInit DEF TurnsKept

\* turns.ts:561-567: a job keeps its id on every queue it is moved to, and at
\* most one job of an id is live: the original before the take, the copy after
\* it; and a failed job's turn is not live elsewhere.
THEOREM TurnLivesOnce == Few /\ ~SlowOps => (Spec => []Sole)
<1> SUFFICES ASSUME Few, ~SlowOps PROVE Spec => []Sole
  OBVIOUS
<1>1. Init => TurnsKept
  BY TurnsKeptInit
<1>2. TurnsKept /\ [Next]_vars => TurnsKept'
  BY TurnsKeptNext
<1>3. TurnsKept => Sole
  BY DEF TurnsKept, Lives
<1> QED
  BY <1>1, <1>2, <1>3, PTL DEF Spec

\* turns.ts:570-571, 561-567: "at-least-once, never lost".  However relabels,
\* merges, moves, stalls and redeliveries interleave, an accepted message was in
\* a finished turn, or is in a job that failed or can still run: when nodes may
\* die or pause but no operation dies half way and labels stay, or labels change
\* but nodes only pause; or when operations die half way and labels change but
\* nodes are always heard of.  Operations end within their lock and hold.
THEOREM NeverLost == Few /\ ~SlowOps => (Spec => []NoMessageLost)
<1> SUFFICES ASSUME Few, ~SlowOps PROVE Spec => []NoMessageLost
  OBVIOUS
<1>1. Init => TurnsKept
  BY TurnsKeptInit
<1>2. TurnsKept /\ [Next]_vars => TurnsKept'
  BY TurnsKeptNext
<1>3. TurnsKept => NoMessageLost
  BY KeptNoneLost DEF TurnsKept
<1> QED
  BY <1>1, <1>2, <1>3, PTL DEF Spec

-----------------------------------------------------------------------------
(***************************************************************************)
(* The tokens of the jobs, and the senders recorded for them               *)
(***************************************************************************)
\* A token is minted with its job's id.
TokensMinted ==
    /\ \A r \in Ref : At(r).st # "none" => At(r).data.tok < nextId
    /\ \A o \in Op : op[o].d.tok < nextId
    /\ \A o \in Op : HasWant(op[o]) => op[o].d.tok = op[o].id

\* Before its job is added, only the operation and its copy have its token.
Bears(r, t) == At(r).st # "none" /\ At(r).data.tok = t
TokensFresh ==
    \A o \in Op : HasWant(op[o]) /\ Unused(op[o]) =>
        /\ \A r \in Ref : Bears(r, op[o].d.tok) => HasCopy(op[o]) /\ op[o].cp = r
        /\ \A x \in Op : x # o => op[x].d.tok # op[o].d.tok

\* One job with a token is live.
TokenSole == \A r, s \in Ref : LiveAt(r) /\ LiveAt(s) /\ At(r).data.tok = At(s).data.tok => r = s

\* The job an append read is the live one with its token.
TokenRead ==
    \A o \in Op, r \in Ref :
        op[o].pc = "senders" /\ ~Relocating(op[o]) /\ LiveAt(r) /\ At(r).data.tok = op[o].prev.tok
            => r = op[o].ref

\* What is recorded for a job's token covers its messages, or nothing is.
CoversIn(f, d) == f[d.tok] = {} \/ SeqSet(d.msgs) \subseteq f[d.tok]
Covers(d) == CoversIn(senders, d)

\* A live job is covered, but one its worker moves: the move records what the
\* worker read.
CoversLive == \A r \in Ref : LiveAt(r) /\ At(r).ph # "moving" => Covers(At(r).data)

\* What an operation is about to write is covered; a move never comes back.
Ready(f, p) ==
    /\ p.pc = "update" => CoversIn(f, Appended(p.prev, p.d, Hint(p)))
    /\ p.pc = "add" => CoversIn(f, p.d)
    /\ Relocating(p) /\ p.pc \in {"copy", "markcopy", "take", "drop"} => CoversIn(f, CopyData(p))
    /\ p.kind = "claimed" /\ p.pc = "release" => p.res # NoRef
CoversNext == \A o \in Op : Ready(senders, op[o])

Tokens == TokensMinted /\ TokensFresh
Covered == TokenSole /\ TokenRead /\ CoversLive /\ CoversNext

-----------------------------------------------------------------------------
LEMMA CopyTok ==
    ASSUME Base, NEW o \in Op
    PROVE  CopyData(op[o]).tok = op[o].d.tok
BY BaseIs, RelocatedTok DEF CopyData

\* The token of a job never changes, and an operation adds a job with its own.
LEMMA OpStepToks ==
    ASSUME Base, NEW o \in Op, OpStep(o), NEW s \in Ref, After(s).st # "none"
    PROVE  /\ At(s).st # "none" => After(s).data.tok = At(s).data.tok
           /\ At(s).st = "none" =>
                 /\ After(s).data.tok = op[o].d.tok
                 /\ (op[o].pc = "add" /\ s = Wanted(op[o])) \/ (op[o].pc = "copy" /\ s = op[o].cp)
<1>1. CASE At(s).st = "none"
  BY <1>1, NewJobs, CopyTok
<1>2. CASE At(s).st # "none"
  <2>1. CASE job' = job
    BY <1>2, <2>1 DEF After, At
  <2>2. CASE \E r, k : Changes(o, r, k)
    <3>1. PICK r, k : Changes(o, r, k)
      BY <2>2
    <3>2. After(s) = IF s = r THEN k ELSE At(s)
      BY <3>1, AfterIs DEF Changes
    <3>3. CASE s = r
      BY <1>2, <3>1, <3>2, <3>3 DEF Changes, Grown, Added, Removed, Promoted, Returned, Pending, NoJob
    <3> QED
      BY <1>2, <3>2, <3>3
  <2> QED
    BY <2>1, <2>2, OpStepChanges
<1> QED
  BY <1>1, <1>2

\* What becomes of the messages an operation has.
LEMMA OpStepData ==
    ASSUME Base, NEW o \in Op, OpStep(o)
    PROVE  LET p == op[o]
               n == op'[o] IN
           \/ n.d = NoData /\ n.kind = "none"
           \/ n.kind \in {"merge", "swap"} /\ p.pc = "check" /\ n.d = At(p.src).data /\ p.src \in Ref /\ At(p.src).st # "none"
           \/ n.kind = p.kind /\ n.d = p.d /\ n.id = p.id
<1> DEFINE p == op[o]
           n == op'[o]
<1>0. Typed /\ Shape(p)
  BY BaseIs
<1>1. CASE CheckMerge(o)
  <2>1. At(p.src).st # "none" /\ p.src \in Ref /\ p.pc = "check"
    BY <1>0, <1>1 DEF CheckMerge, ToMove, Shape, Moves
  <2> QED
    BY <1>1, <2>1, MergeKeeps
<1>2. CASE CheckSwap(o)
  BY <1>2, SwapIs
<1>3. CASE Look(o)
  BY <1>0, <1>3, LookDoes DEF Becomes
<1>4. CASE ~Look(o) /\ ~CheckMerge(o) /\ ~CheckSwap(o)
  <2>1. IdleOp.d = NoData /\ IdleOp.kind = "none"
    BY DEF IdleOp
  <2> QED
    BY <1>4, <2>1, PlacesStay
<1> QED
  BY <1>1, <1>2, <1>3, <1>4

LEMMA NextIdIs == ASSUME Base, NEW o \in Op, OpStep(o) PROVE nextId \in Nat /\ nextId' \in Nat /\ nextId <= nextId' /\ NoData.tok < nextId
<1>1. nextId \in 1..(MaxId + 1) /\ MaxId \in Nat
  BY BaseTyped, TurnQueueAssumption DEF Typed, TypeOK
<1>2. nextId \in Nat /\ 0 < nextId
  BY <1>1
<1>3. NoData.tok = 0
  BY DEF NoData
<1> QED
  BY <1>2, <1>3, OpStepCalm

LEMMA OpStepTokens == ASSUME Base, ~SlowOps, Tokens, NEW o \in Op, OpStep(o) PROVE TokensMinted'
<1> DEFINE p == op[o]
           n == op'[o]
<1>0. /\ nextId \in Nat /\ nextId' \in Nat /\ nextId <= nextId' /\ NoData.tok < nextId
      /\ \A x \in Op : x # o => op'[x] = op[x]
  BY NextIdIs, RecordGoesOn
<1>1. ASSUME NEW s \in Ref, After(s).st # "none" PROVE After(s).data.tok < nextId
  BY <1>1, OpStepToks DEF Tokens, TokensMinted
<1>2. n.d.tok < nextId /\ (HasWant(n) => n.d.tok = n.id)
  BY <1>0, OpStepData DEF Tokens, TokensMinted, HasWant
<1>3. \A s \in Ref : At(s).st # "none" => At(s).data.tok \in Nat
  BY BaseTyped, PlaceIs, TurnQueueAssumption DEF Job, Data
<1>4. \A x \in Op : op[x].d.tok \in Nat
  BY BaseIs DEF Data
<1>5. NoData.tok \in Nat /\ NoJob.st = "none"
  BY DEF NoData, NoJob
<1>6. ASSUME NEW s \in Ref, After(s).st # "none" PROVE After(s).data.tok < nextId'
  <2>1. After(s).data.tok \in Nat
    BY <1>3, <1>4, <1>6, OpStepToks
  <2> QED
    BY <1>0, <1>1, <1>6, <2>1
<1>7. n.d.tok \in Nat
  BY <1>3, <1>4, <1>5, OpStepData
<1>8. ASSUME NEW x \in Op PROVE op'[x].d.tok < nextId' /\ (HasWant(op'[x]) => op'[x].d.tok = op'[x].id)
  <2>1. CASE x = o
    BY <1>0, <1>2, <1>7, <2>1
  <2>2. CASE x # o
    BY <1>0, <1>4, <2>2 DEF Tokens, TokensMinted, HasWant
  <2> QED
    BY <2>1, <2>2
<1> QED
  BY <1>6, <1>8 DEF TokensMinted, After, At, HasWant

LEMMA OpStepFreshToks == ASSUME Base, ~SlowOps, Tokens, NEW o \in Op, OpStep(o) PROVE TokensFresh'
<1> DEFINE p == op[o]
           n == op'[o]
<1>0. /\ \A x \in Op : x # o => op'[x] = op[x]
      /\ Shape(p) /\ NoData.tok = 0
  BY RecordGoesOn, BaseIs DEF NoData
<1>1. ASSUME NEW x \in Op, HasWant(op'[x]), Unused(op'[x])
      PROVE  HasWant(op[x]) /\ Unused(op[x]) /\ op'[x].d = op[x].d /\ op[x].d.tok # 0
  <2>1. ~CheckMerge(o) \/ x # o
    BY <1>1, MergeKeeps DEF HasWant
  <2>2. Unused(op[x]) /\ op'[x].d = op[x].d
    <3>1. CASE CheckMerge(o)
      BY <1>0, <1>1, <2>1, <3>1
    <3>2. CASE ~CheckMerge(o)
      BY <1>1, <3>2, OpStepRecords DEF Inherits
    <3> QED
      BY <3>1, <3>2
  <2>3. HasWant(op[x])
    BY <1>0, <1>1, OpStepData DEF HasWant
  <2>4. op[x].d.tok = op[x].id /\ op[x].id \in Id
    BY <2>3, BaseIs DEF Tokens, TokensMinted, Shape
  <2> QED
    BY <2>2, <2>3, <2>4, TurnQueueAssumption DEF Id
<1>2. ASSUME NEW x \in Op, HasWant(op'[x]), Unused(op'[x]), NEW y \in Op, y # x
      PROVE  op'[y].d.tok # op'[x].d.tok
  <2>1. op[y].d.tok # op[x].d.tok
    BY <1>1, <1>2 DEF Tokens, TokensFresh
  <2>2. CASE y # o \/ op'[y].d = op[y].d
    BY <1>0, <1>1, <1>2, <2>1, <2>2
  <2>3. CASE y = o /\ op'[y].d = NoData
    BY <1>0, <1>1, <1>2, <2>3
  <2>4. CASE y = o /\ p.pc = "check" /\ n.d = At(p.src).data /\ p.src \in Ref /\ At(p.src).st # "none"
    <3>1. op[x].pc \in Free
      BY <1>2, <2>4, HolderAlone DEF Free
    <3>2. ~HasCopy(op[x])
      BY <3>1 DEF HasCopy, Free
    <3>3. ~Bears(p.src, op[x].d.tok)
      BY <1>1, <1>2, <2>4, <3>2 DEF Tokens, TokensFresh
    <3> QED
      BY <1>1, <1>2, <2>4, <3>3 DEF Bears
  <2> QED
    BY <2>2, <2>3, <2>4, OpStepData
<1>3. ASSUME NEW x \in Op, HasWant(op'[x]), Unused(op'[x]), NEW r \in Ref, After(r).st # "none", After(r).data.tok = op'[x].d.tok
      PROVE  HasCopy(op'[x]) /\ op'[x].cp = r
  <2>1. After(r).data.tok = op[x].d.tok
    BY <1>1, <1>3
  <2>2. CASE At(r).st # "none"
    <3>1. Bears(r, op[x].d.tok)
      BY <1>3, <2>1, <2>2, OpStepToks DEF Bears
    <3>2. HasCopy(op[x]) /\ op[x].cp = r
      BY <1>1, <1>3, <3>1 DEF Tokens, TokensFresh
    <3>3. CASE x = o
      <4>1. ~CheckMerge(o)
        BY <1>3, <3>3, MergeKeeps DEF HasWant
      <4> QED
        BY <1>3, <3>2, <3>3, <4>1, CopyGoesOn
    <3> QED
      BY <1>0, <3>2, <3>3
  <2>3. CASE At(r).st = "none"
    <3>1. /\ After(r).data.tok = p.d.tok
          /\ (p.pc = "add" /\ r = Wanted(p)) \/ (p.pc = "copy" /\ r = p.cp)
      BY <1>3, <2>3, OpStepToks
    <3>2. x = o
      <4>1. \A y \in Op : y # x => op[y].d.tok # op[x].d.tok
        BY <1>1, <1>3 DEF Tokens, TokensFresh
      <4> QED
        BY <2>1, <3>1, <4>1
    <3>3. p.kind # "claimed"
      BY <1>1, <1>3, <3>2 DEF HasWant
    <3>4. p.pc = "copy"
      <4>1. p.pc = "add" => n.pc = "release"
        BY <3>3, BaseTyped, StepAt, AddDoes DEF Becomes
      <4> QED
        BY <1>3, <3>1, <3>2, <4>1 DEF Unused, HasWant
    <3>5. n.pc = "markcopy" /\ n.cp = p.cp
      BY <3>4, BaseTyped, StepAt, AddCopyDoes DEF Becomes
    <3> QED
      BY <3>1, <3>2, <3>4, <3>5 DEF HasCopy
  <2> QED
    BY <2>2, <2>3
<1> QED
  BY <1>2, <1>3 DEF TokensFresh, Bears, After, At, HasWant, Unused, HasCopy

-----------------------------------------------------------------------------
\* Steps that add no job and let operations go on or end.
LEMMA TokensStay ==
    ASSUME Base, Tokens, nextId' = nextId,
           \A s \in Ref : After(s).st # "none" => At(s).st # "none" /\ After(s).data = At(s).data,
           \A x \in Op : op'[x] = op[x] \/ op'[x] = IdleOp
    PROVE  Tokens'
<1>0. 0 < nextId /\ NoData.tok = 0 /\ IdleOp.d = NoData /\ ~HasWant(IdleOp)
  <2>1. nextId \in 1..(MaxId + 1) /\ MaxId \in Nat
    BY BaseTyped, TurnQueueAssumption DEF Typed, TypeOK
  <2>2. 0 < nextId
    BY <2>1
  <2> QED
    BY <2>2, IdleIs DEF NoData, IdleOp
<1>1. TokensMinted'
  <2>1. \A s \in Ref : After(s).st # "none" => After(s).data.tok < nextId
    BY DEF Tokens, TokensMinted
  <2>2. \A x \in Op : op'[x].d.tok < nextId /\ (HasWant(op'[x]) => op'[x].d.tok = op'[x].id)
    BY <1>0 DEF Tokens, TokensMinted
  <2> QED
    BY <2>1, <2>2 DEF TokensMinted, After, At, HasWant
<1>2. TokensFresh'
  <2>1. ASSUME NEW x \in Op, HasWant(op'[x]), Unused(op'[x])
        PROVE  /\ op'[x] = op[x] /\ op[x].d.tok # 0
               /\ \A r \in Ref : Bears(r, op[x].d.tok) => HasCopy(op[x]) /\ op[x].cp = r
               /\ \A y \in Op : y # x => op[y].d.tok # op[x].d.tok
    <3>1. op'[x] = op[x]
      BY <1>0, <2>1
    <3>2. op[x].d.tok = op[x].id /\ op[x].id \in Id
      BY <2>1, <3>1, BaseIs DEF Tokens, TokensMinted, Shape
    <3> QED
      BY <2>1, <3>1, <3>2, TurnQueueAssumption DEF Id, Tokens, TokensFresh
  <2>2. ASSUME NEW x \in Op, HasWant(op'[x]), Unused(op'[x]), NEW r \in Ref, After(r).st # "none", After(r).data.tok = op'[x].d.tok
        PROVE  HasCopy(op'[x]) /\ op'[x].cp = r
    BY <2>1, <2>2 DEF Bears
  <2>3. ASSUME NEW x \in Op, HasWant(op'[x]), Unused(op'[x]), NEW y \in Op, y # x
        PROVE  op'[y].d.tok # op'[x].d.tok
    <3>1. op[y].d.tok # op[x].d.tok /\ op'[x] = op[x] /\ op[x].d.tok # 0
      BY <2>1, <2>3
    <3> QED
      BY <1>0, <3>1
  <2> QED
    BY <2>2, <2>3 DEF TokensFresh, Bears, After, At, HasWant, Unused, HasCopy
<1> QED
  BY <1>1, <1>2 DEF Tokens

LEMMA BeginsTokens ==
    ASSUME Base, Tokens, NEW o \in Op, NEW n, BeginsFit(o, n)
    PROVE  Tokens'
<1>0. /\ op'[o] = n /\ \A x \in Op : x # o => op'[x] = op[x]
      /\ \A s \in Ref : After(s).st = At(s).st /\ After(s).data = At(s).data
      /\ n.pc = "acquire" /\ (HasWant(n) => n.id = nextId /\ n.d.tok = nextId)
      /\ nextId' = IF HasWant(n) THEN nextId + 1 ELSE nextId
  BY DEF BeginsFit, Begins, OpBecomes
<1>1. nextId \in Nat /\ 0 < nextId
  <2>1. nextId \in 1..(MaxId + 1) /\ MaxId \in Nat
    BY BaseTyped, TurnQueueAssumption DEF Typed, TypeOK
  <2> QED
    BY <2>1
<1>2. \A s \in Ref : At(s).st # "none" => At(s).data.tok < nextId /\ At(s).data.tok \in Nat
  <2>1. \A s \in Ref : At(s).data.tok \in Nat
    BY BaseTyped, PlaceIs, TurnQueueAssumption DEF Job, Data
  <2> QED
    BY <2>1 DEF Tokens, TokensMinted
<1>3. \A x \in Op : op[x].d.tok < nextId /\ op[x].d.tok \in Nat
  BY BaseIs DEF Data, Tokens, TokensMinted
<1>4. \/ HasWant(n)
      \/ n.d.tok = 0
      \/ \E h \in Ref : At(h).st = "active" /\ n.d.tok = At(h).data.tok
  <2>1. CASE n.d = NoData
    BY <2>1 DEF NoData
  <2>2. CASE n.kind = "claimed"
    <3>1. n.src \in Ref /\ At(n.src).st = "active" /\ At(n.src).snap = n.d
      BY <2>2 DEF BeginsFit, Begins, Moves
    <3>2. JobShape(At(n.src), n.src[1])
      BY <3>1, BaseTyped DEF JobShapes
    <3>3. n.d.tok = At(n.src).data.tok
      BY <3>1, <3>2 DEF JobShape
    <3> QED
      BY <3>1, <3>3
  <2> QED
    BY <2>1, <2>2 DEF BeginsFit
<1>5. n.d.tok < nextId' /\ (HasWant(n) \/ (n.d.tok < nextId /\ n.d.tok \in Nat))
  BY <1>0, <1>1, <1>2, <1>4
<1>6. TokensMinted'
  <2>1. \A s \in Ref : After(s).st # "none" => After(s).data.tok < nextId'
    BY <1>0, <1>1, <1>2
  <2>2. \A x \in Op : op'[x].d.tok < nextId' /\ (HasWant(op'[x]) => op'[x].d.tok = op'[x].id)
    <3>1. \A x \in Op : x # o => op'[x].d.tok < nextId' /\ (HasWant(op'[x]) => op'[x].d.tok = op'[x].id)
      BY <1>0, <1>1, <1>3 DEF Tokens, TokensMinted
    <3> QED
      BY <1>0, <1>5, <3>1
  <2> QED
    BY <2>1, <2>2 DEF TokensMinted, After, At, HasWant
<1>7. TokensFresh'
  <2>1. ASSUME NEW x \in Op, x # o, HasWant(op[x]), Unused(op[x])
        PROVE  /\ op[x].d.tok # 0 /\ op[x].d.tok # n.d.tok
               /\ \A r \in Ref : Bears(r, op[x].d.tok) => HasCopy(op[x]) /\ op[x].cp = r
               /\ \A y \in Op : y # x => op[y].d.tok # op[x].d.tok
    <3>1. op[x].d.tok # 0
      BY <2>1, BaseIs, TurnQueueAssumption DEF Tokens, TokensMinted, Shape, Id
    <3>2. /\ \A r \in Ref : Bears(r, op[x].d.tok) => HasCopy(op[x]) /\ op[x].cp = r
          /\ \A y \in Op : y # x => op[y].d.tok # op[x].d.tok
      BY <2>1 DEF Tokens, TokensFresh
    <3>3. ASSUME NEW h \in Ref, At(h).st = "active" PROVE At(h).data.tok # op[x].d.tok
      <4>1. HasCopy(op[x]) => At(op[x].cp).st = "held"
        BY BaseIs DEF CopyStays
      <4> QED
        BY <3>2, <3>3, <4>1 DEF Bears
    <3>4. op[x].d.tok # n.d.tok
      BY <1>0, <1>1, <1>3, <1>4, <3>1, <3>3
    <3> QED
      BY <3>1, <3>2, <3>4
  <2>2. ASSUME NEW x \in Op, HasWant(op'[x]), Unused(op'[x]), NEW r \in Ref, After(r).st # "none", After(r).data.tok = op'[x].d.tok
        PROVE  HasCopy(op'[x]) /\ op'[x].cp = r
    <3>1. x # o
      BY <1>0, <1>1, <1>2, <2>2
    <3> QED
      BY <1>0, <2>1, <2>2, <3>1 DEF Bears
  <2>3. ASSUME NEW x \in Op, HasWant(op'[x]), Unused(op'[x]), NEW y \in Op, y # x
        PROVE  op'[y].d.tok # op'[x].d.tok
    <3>1. CASE x = o
      BY <1>0, <1>1, <1>3, <2>3, <3>1
    <3>2. CASE x # o
      BY <1>0, <2>1, <2>3, <3>2
    <3> QED
      BY <3>1, <3>2
  <2> QED
    BY <2>2, <2>3 DEF TokensFresh, Bears, After, At, HasWant, Unused, HasCopy
<1> QED
  BY <1>6, <1>7 DEF Tokens

LEMMA TokensNext == ASSUME Base, Settings, Few, ~SlowOps, Tokens, [Next]_vars PROVE Tokens'
<1>1. ASSUME NEW o \in Op, OpStep(o) PROVE Tokens'
  BY <1>1, OpStepTokens, OpStepFreshToks DEF Tokens
<1>2. ASSUME NEW r, Turns(r) PROVE Tokens'
  <2>1. nextId' = nextId /\ op' = op
    BY <1>2 DEF Turns
  <2>2. \A s \in Ref : After(s).st # "none" => At(s).st # "none" /\ After(s).data = At(s).data
    BY <1>2, TurnsLives, TurnsKeepLabels DEF Quiet
  <2> QED
    BY <2>1, <2>2, TokensStay
<1>3. ASSUME NEW o \in Op, Crashes(o) PROVE Tokens'
  BY <1>3, TokensStay DEF Crashes, OpBecomes, After, At
<1>4. ASSUME NEW n \in Node, Dies(n) PROVE Tokens'
  BY <1>4, TokensStay DEF Dies, After, At
<1>5. ASSUME Still PROVE Tokens'
  BY <1>5, TokensStay DEF Still, After, At
<1> QED
  BY <1>1, <1>2, <1>3, <1>4, <1>5, NextIs, BeginsTokens

LEMMA TokensInit == ASSUME Init PROVE Tokens
<1>1. \A r \in Ref : At(r) = NoJob
  BY RefIs DEF Init, At
<1>2. \A o \in Op : op[o] = IdleOp
  BY DEF Init
<1>3. nextId = 1
  BY DEF Init
<1>4. NoJob.st = "none" /\ IdleOp.d.tok = 0
  BY DEF NoJob, IdleOp, NoData
<1> QED
  BY <1>1, <1>2, <1>3, <1>4, IdleIs DEF Tokens, TokensMinted, TokensFresh

-----------------------------------------------------------------------------
(***************************************************************************)
(* How steps change the senders                                            *)
(***************************************************************************)
\* A turn's end forgets the senders of its token.
Fades == senders' = senders \/ \E t \in 0..MaxId : senders' = [senders EXCEPT ![t] = {}]

LEMMA SendersFade ==
    ASSUME Base, [Next]_vars, ~\E o \in Op : OpStep(o)
    PROVE  Fades
<1>1. ASSUME NEW o \in Op, Start(o) PROVE senders' = senders
  BY <1>1 DEF Start, StartEnqueue, StartRedispatch, StartReap, redis
<1>2. ASSUME NEW q \in Queue, NEW i \in Id, Process(q, i) \/ Timer(q, i) \/ \E n \in Node : Claim(n, q, i)
      PROVE  Fades
  <2>1. CASE SkipDone(q, i) \/ Ack(q, i)
    <3>1. job[q][i].snap.tok \in 0..MaxId
      <4>1. job[q][i] \in Job
        BY BaseTyped DEF Typed, TypeOK
      <4> QED
        BY <4>1 DEF Job, Data
    <3>2. senders' = [senders EXCEPT ![job[q][i].snap.tok] = {}]
      BY <2>1 DEF SkipDone, Ack, ForgetSenders
    <3> QED
      BY <3>1, <3>2 DEF Fades
  <2>2. CASE \E n \in Node : Claim(n, q, i)
    BY <2>2 DEF Claim, Fades
  <2>3. CASE Timer(q, i)
    BY <2>3 DEF Timer, RetryDue, HoldLapse, LockExpire, Stall, Fades
  <2>4. CASE Process(q, i) /\ ~SkipDone(q, i) /\ ~Ack(q, i)
    BY <2>4 DEF Process, BeginTurn, Requeue, FailAtClaim, StartClaimedMove, EndTurn, FailDenied, CompleteMoved, Fades
  <2> QED
    BY <1>2, <2>1, <2>2, <2>3, <2>4
<1>3. ASSUME NEW m \in Msg, Follow(m) PROVE senders' = senders
  BY <1>3 DEF Follow, FollowMove, Close, redis
<1>4. ASSUME Fault PROVE senders' = senders
  BY <1>4 DEF Fault, AppendLockLapse, IndexLapse, GuardLapse, OpCrash, NodeCrash, Silence, Resume, Relabel, redis
<1>5. CASE UNCHANGED vars
  BY <1>5 DEF vars, redis, Fades
<1> QED
  BY <1>1, <1>2, <1>3, <1>4, <1>5 DEF Next, Fades

\* An operation writes them for the job it appends to, or adds.
LEMMA OpStepSenders ==
    ASSUME Base, NEW o \in Op, OpStep(o)
    PROVE  LET p == op[o] IN
           \/ senders' = senders
           \/ /\ p.pc = "senders"
              /\ senders' = [senders EXCEPT ![IF Relocating(p) THEN p.d.tok ELSE p.prev.tok] = SendersOf(p)]
           \/ p.pc = "index" /\ senders' = [senders EXCEPT ![p.d.tok] = SeqSet(p.d.msgs)]
<1>1. CASE RecordSenders(o)
  BY <1>1, BaseTyped, RecordSendersDoes
<1>2. CASE Index(o)
  BY <1>2, BaseTyped, IndexDoes
<1>3. CASE Acquire(o) \/ Release(o) \/ MarkFailed(o) \/ Look(o) \/ UpdateData(o) \/ Recheck(o) \/ Add(o) \/ MarkSource(o)
  BY <1>3 DEF Acquire, Release, MarkFailed, Look, UpdateData, Recheck, Add, MarkSource, redis
<1>4. CASE CheckMoved(o) \/ CheckClaimed(o) \/ CheckMerge(o) \/ CheckSwap(o) \/ AddCopy(o) \/ MarkCopy(o)
  BY <1>4 DEF CheckMoved, CheckClaimed, CheckMerge, CheckSwap, AddCopy, MarkCopy, redis
<1>5. CASE Take(o) \/ DropCopy(o) \/ Unmark(o) \/ Promote(o) \/ Reindex(o) \/ TakeHold(o) \/ MarkHold(o)
  BY <1>5 DEF Take, DropCopy, Unmark, Promote, Reindex, TakeHold, MarkHold, redis
<1> QED
  BY <1>1, <1>2, <1>3, <1>4, <1>5 DEF OpStep

\* A write covers the jobs with other tokens, and those whose messages it has.
LEMMA WriteCovers ==
    ASSUME Base, NEW t \in 0..MaxId, NEW S, NEW f, f = [senders EXCEPT ![t] = S], NEW d \in Data,
           \/ d.tok # t /\ Covers(d)
           \/ d.tok = t /\ SeqSet(d.msgs) \subseteq S
           \/ S = {} /\ Covers(d)
    PROVE  CoversIn(f, d)
<1>1. senders \in [0..MaxId -> SUBSET Msg] /\ d.tok \in 0..MaxId
  BY BaseTyped DEF Typed, TypeOK, Data
<1>2. f[d.tok] = IF d.tok = t THEN S ELSE senders[d.tok]
  BY <1>1
<1> QED
  BY <1>2 DEF Covers, CoversIn

LEMMA FadesCover ==
    ASSUME Base, Fades, NEW d \in Data, Covers(d)
    PROVE  CoversIn(senders', d)
<1>1. CASE senders' = senders
  BY <1>1 DEF Covers
<1>2. ASSUME NEW t \in 0..MaxId, senders' = [senders EXCEPT ![t] = {}] PROVE CoversIn(senders', d)
  BY <1>2, WriteCovers
<1> QED
  BY <1>1, <1>2 DEF Fades

-----------------------------------------------------------------------------
(***************************************************************************)
(* The live jobs' tokens                                                   *)
(***************************************************************************)
\* The messages of the job an operation brings to a place.
LEMMA ArrivesWith ==
    ASSUME Base, Settings, Few, ~SlowOps, NEW o \in Op, OpStep(o), NEW s \in Ref, Arrives(o, s)
    PROVE  /\ op[o].pc = "add" => After(s).data = op[o].d
           /\ op[o].pc # "add" => TakesOver(o) /\ s = op[o].cp /\ After(s).data = CopyData(op[o])
           /\ After(s).data.tok = op[o].d.tok /\ After(s).ph # "moving"
<1> DEFINE p == op[o]
<1>0. Typed /\ Shape(p) /\ CopyStays(p) /\ p.d \in Data
  BY BaseIs
<1>1. CASE p.pc = "add"
  <2>1. s = Wanted(p) /\ At(s).st = "none"
    BY <1>0, <1>1 DEF Arrives, TakesOver, CopyStays
  <2>2. After(s) = FreshJob("waiting", p.d)
    BY <1>0, <1>1, <2>1, StepAt, AddDoes, AfterIs
  <2>3. After(s).data = p.d /\ After(s).ph = "none"
    BY <2>2 DEF FreshJob, NoJob
  <2> QED
    BY <1>1, <2>3
<1>2. CASE TakesOver(o) /\ s = p.cp
  <2>1. HasCopy(p) /\ p.pc = "take"
    BY <1>2 DEF TakesOver, HasCopy
  <2>2. At(s).st = "held" /\ At(s).data = CopyData(p)
    BY <1>0, <1>2, <2>1 DEF CopyStays
  <2>3. Original(p) # s /\ Original(p) \in Ref
    BY <1>2, <2>1, OriginalApart DEF CopyPcs
  <2>4. After(s) = At(s)
    BY <1>0, <1>2, <2>1, <2>3, StepAt, TakeDoes, AfterIs DEF TakesOver
  <2>5. At(s).ph = "none"
    BY <2>2, BaseTyped DEF JobShapes, JobShape, Pending
  <2> QED
    BY <1>2, <2>1, <2>2, <2>4, <2>5, CopyTok
<1> QED
  BY <1>1, <1>2 DEF Arrives

\* The live job whose token the operation brings with the job at s.
LEMMA ArrivesTok ==
    ASSUME Base, Settings, Few, ~SlowOps, TokensFresh, TokenSole, NEW o \in Op, OpStep(o), NEW s \in Ref, Arrives(o, s)
    PROVE  /\ After(s).data.tok = op[o].d.tok
           /\ \A r \in Ref : LiveAt(r) /\ r # s /\ At(r).data.tok = op[o].d.tok => ~LiveAt(r)'
<1> DEFINE p == op[o]
           n == op'[o]
<1>0. Typed /\ Shape(p) /\ CopyStays(p) /\ ReadStill(p)
  BY BaseIs
<1>1. CASE HasWant(p)
  <2>1. Unused(p) /\ (HasCopy(p) => p.cp = s)
    BY <1>1 DEF Arrives, TakesOver, Unused, HasCopy, HasWant
  <2>2. \A r \in Ref : Bears(r, p.d.tok) => r = s
    BY <1>1, <2>1 DEF TokensFresh
  <2>3. \A r \in Ref : LiveAt(r) /\ r # s => At(r).data.tok # p.d.tok
    BY <2>2 DEF Bears, LiveAt, Runs, Pending
  <2> QED
    BY <2>3, ArrivesWith
<1>2. CASE p.pc = "add" /\ p.kind = "claimed"
  <2>1. PICK h \in Ref : h = p.src
    BY <1>0, <1>2 DEF Shape, Moves
  <2>2. LiveAt(h) /\ At(h).data.tok = p.d.tok
    <3>1. ~Leaving(p, h)
      BY <1>2 DEF Leaving
    <3>2. At(h).st = "active" /\ At(h).snap = p.d
      BY <1>2, <2>1, ClaimLives
    <3>3. JobShape(At(h), h[1])
      BY BaseTyped DEF JobShapes
    <3> QED
      BY <1>2, <2>1, <3>1, <3>2, <3>3, MovingLives DEF JobShape
  <2>3. ~LiveAt(h)'
    <3>1. n.pc = "marksrc" /\ n.kind = "claimed" /\ n.src = h
      BY <1>0, <1>2, <2>1, StepAt, AddDoes DEF Becomes
    <3> QED
      BY <3>1 DEF LiveAt, LeftBehind, Leaving
  <2> QED
    BY <2>2, <2>3, ArrivesWith DEF TokenSole
<1>3. CASE p.pc = "take" /\ TakesOver(o) /\ ~HasWant(p)
  <2>1. PICK h \in Ref : h = Original(p)
    BY <1>3, TakenLives DEF TakesOver
  <2>2. LiveAt(h) /\ At(h).data = p.d
    BY <1>0, <1>3, <2>1, TakenLives DEF TakesOver, ReadStill, Relocating
  <2>3. After(h) = NoJob
    BY <1>0, <1>3, <2>1, StepAt, TakeDoes, AfterIs DEF TakesOver
  <2>4. ~LiveAt(h)'
    <3>1. ~Runs(NoJob)
      BY DEF Runs, Pending, NoJob
    <3>2. LiveAt(h)' => Runs(After(h))
      BY DEF LiveAt, After, At, Runs, Pending
    <3> QED
      BY <2>3, <3>1, <3>2
  <2> QED
    BY <2>2, <2>4, ArrivesWith DEF TokenSole
<1>4. p.pc = "add" => HasWant(p) \/ p.kind = "claimed"
  BY <1>0 DEF Shape, KindPc, HasWant, OpenPcs, CopyPcs
<1> QED
  BY <1>1, <1>2, <1>3, <1>4 DEF Arrives, TakesOver

\* Where an operation comes from to write, and a worker's move to its end.
WritesFrom(o) ==
    LET p == op[o]
        n == op'[o] IN
    /\ n.pc = "senders" => Look(o)
    /\ n.pc = "update" => RecordSenders(o)
    /\ n.pc = "add" => Index(o)
    /\ HasWant(n) /\ n.pc \in {"copy", "markcopy", "take", "drop"} =>
          \/ RecordSenders(o)
          \/ /\ p.pc \in {"copy", "markcopy", "take"}
             /\ n.prev = p.prev /\ n.d = p.d /\ n.kind = p.kind /\ n.cp = p.cp
    /\ n.kind = "claimed" /\ n.pc = "release" => n.res # NoRef

LEMMA OpStepWrites ==
    ASSUME Base, NEW o \in Op, OpStep(o)
    PROVE  WritesFrom(o)
<1>0. Typed /\ Shape(op[o]) /\ ReadStill(op[o])
  BY BaseIs
<1>1. CASE Acquire(o) \/ RecordSenders(o) \/ CheckClaimed(o)
  BY <1>0, <1>1, AcquireDoes, RecordSendersDoes, CheckClaimedDoes DEF WritesFrom, Becomes
<1>2. CASE Index(o) \/ Reindex(o)
  BY <1>0, <1>2, IndexDoes, ReindexDoes DEF WritesFrom, Becomes, Shape, KindPc, OpenPcs, CopyPcs
<1>3. CASE MarkSource(o)
  <2>1. op[o].res # NoRef
    BY <1>0, <1>3, MarkSourceDoes, TurnQueueAssumption DEF Shape, Ref
  <2> QED
    BY <1>0, <1>3, <2>1, MarkSourceDoes DEF WritesFrom, Becomes
<1>4. CASE Add(o)
  BY <1>0, <1>4, AddDoes DEF WritesFrom, Becomes
<1>5. CASE UpdateData(o)
  BY <1>0, <1>5, UpdateDataDoes DEF WritesFrom, Becomes, ReadStill
<1>6. CASE MarkCopy(o) \/ MarkHold(o)
  BY <1>0, <1>6, MarkCopyDoes, MarkHoldDoes DEF WritesFrom, Becomes, Shape, KindPc, OpenPcs
<1>7. CASE AddCopy(o) \/ DropCopy(o)
  BY <1>0, <1>7, AddCopyDoes, DropCopyDoes DEF WritesFrom, Becomes
<1>8. CASE Promote(o) \/ TakeHold(o)
  BY <1>0, <1>8, PromoteDoes, TakeHoldDoes DEF WritesFrom, Becomes
<1>9. CASE Take(o)
  BY <1>0, <1>9, TakeDoes DEF WritesFrom, Becomes
<1>10. CASE Unmark(o)
  BY <1>0, <1>10, UnmarkDoes DEF WritesFrom, Becomes, HasWant, Shape, KindPc, OpenPcs, CopyPcs
<1>11. CASE Look(o)
  <2>1. /\ AppendedThen(op[o]) \in {"release", "marksrc", "takehold"} /\ NotAppended(op[o]) \in {"promote", "index"}
        /\ AppendedThen(op[o]) = "release" => op[o].kind # "claimed"
    BY <1>0, <1>11 DEF AppendedThen, NotAppended, HasWant, Look, Shape, KindPc, CopyPcs
  <2> QED
    BY <1>0, <1>11, <2>1, LookDoes DEF WritesFrom, Becomes
<1>12. CASE Recheck(o)
  <2>1. /\ AppendedThen(op[o]) \in {"release", "marksrc", "takehold"} /\ NotAppended(op[o]) \in {"promote", "index"}
        /\ AppendedThen(op[o]) = "release" => op[o].kind # "claimed"
    BY <1>0, <1>12 DEF AppendedThen, NotAppended, HasWant, Recheck, Shape, KindPc, CopyPcs
  <2> QED
    BY <1>0, <1>12, <2>1, RecheckDoes DEF WritesFrom, Becomes
<1>13. CASE CheckMoved(o)
  <2>1. <<op[o].want, op[o].src[2]>> # NoRef \/ At(<<op[o].want, op[o].src[2]>>).st = "none" \/ op[o].kind # "claimed"
    BY <1>0, TurnQueueAssumption, RefIs DEF Shape, Moves, Queue
  <2> QED
    BY <1>0, <1>13, <2>1, CheckMovedDoes DEF WritesFrom, Becomes, MovedAway, MovedOff
<1>14. CASE CheckMerge(o)
  BY <1>0, <1>14, MergeKeeps DEF WritesFrom, HasWant
<1>15. CASE CheckSwap(o)
  BY <1>0, <1>15, SwapIs DEF WritesFrom, HasWant
<1>16. CASE Release(o)
  BY <1>0, <1>16, ReleaseDoes, IdleIs DEF WritesFrom, Becomes, OpBecomes
<1>17. CASE MarkFailed(o)
  BY <1>0, <1>17, MarkFailedDoes, IdleIs DEF WritesFrom, OpBecomes
<1> QED
  BY <1>1, <1>2, <1>3, <1>4, <1>5, <1>6, <1>7, <1>8, <1>9, <1>10, <1>11, <1>12, <1>13, <1>14, <1>15, <1>16, <1>17 DEF OpStep

LEMMA OpStepTokenSole ==
    ASSUME Base, Settings, Few, ~SlowOps, TokensFresh, TokenSole, NEW o \in Op, OpStep(o)
    PROVE  TokenSole'
<1> SUFFICES ASSUME NEW r \in Ref, NEW s \in Ref, LiveAt(r)', LiveAt(s)', After(r).data.tok = After(s).data.tok, r # s
             PROVE  FALSE
  BY DEF TokenSole, After, At
<1>1. ASSUME NEW x \in Ref, LiveAt(x)'
      PROVE  After(x).st # "none" /\ (~Arrives(o, x) => LiveAt(x) /\ After(x).data.tok = At(x).data.tok)
  <2>1. After(x).st # "none"
    BY <1>1 DEF LiveAt, Runs, Pending, After, At
  <2>2. LiveAt(x) => At(x).st # "none"
    BY DEF LiveAt, Runs, Pending
  <2> QED
    BY <1>1, <2>1, <2>2, OpStepLives, OpStepToks
<1>2. ~(Arrives(o, r) /\ Arrives(o, s))
  BY DEF Arrives, TakesOver
<1>3. ASSUME NEW x \in Ref, NEW y \in Ref, Arrives(o, x), LiveAt(y)', y # x, After(y).data.tok = After(x).data.tok, ~Arrives(o, y)
      PROVE  FALSE
  BY <1>1, <1>3, ArrivesTok
<1>4. CASE ~Arrives(o, r) /\ ~Arrives(o, s)
  BY <1>1, <1>4 DEF TokenSole
<1> QED
  BY <1>2, <1>3, <1>4

LEMMA OpStepTokenRead ==
    ASSUME Base, Settings, Few, ~SlowOps, TokenSole, TokenRead, NEW o \in Op, OpStep(o)
    PROVE  TokenRead'
<1> DEFINE p == op[o]
           n == op'[o]
<1> SUFFICES ASSUME NEW x \in Op, NEW r \in Ref, op'[x].pc = "senders", ~Relocating(op'[x]), LiveAt(r)',
                    After(r).data.tok = op'[x].prev.tok
             PROVE  r = op'[x].ref
  BY DEF TokenRead, After, At, Relocating, HasWant
<1>0. Typed /\ Shape(p) /\ \A y \in Op : y # o => op'[y] = op[y]
  BY BaseIs, RecordGoesOn
<1>1. CASE MarkFailed(o)
  <2>1. x # o /\ op'[x] = op[x]
    BY <1>0, <1>1, MarkFailedLeaves, IdleIs
  <2>2. After(r) = At(r) /\ LiveAt(r)
    BY <1>1, MarkFailedLeaves DEF LiveAt, After, At
  <2> QED
    BY <2>1, <2>2 DEF TokenRead
<1>2. CASE ~MarkFailed(o)
  <2>1. x = o
    BY <1>2, HolderIs DEF Free
  <2>2. Look(o)
    BY <1>0, <2>1, OpStepWrites DEF WritesFrom
  <2>3. /\ p.pc = "look" /\ n.ref = idx /\ n.prev = At(idx).data /\ AppendableAt(idx) /\ job' = job
    <3>1. NotAppended(p) # "senders" /\ AppendedThen(p) # "senders"
      BY <1>0, <2>2 DEF AppendedThen, NotAppended, HasWant, Look, Shape, KindPc, CopyPcs
    <3> QED
      BY <1>0, <2>1, <2>2, <3>1, LookDoes DEF Becomes
  <2>4. idx \in Ref /\ Pending(At(idx))
    BY <1>0, <2>3 DEF AppendableAt, Typed, TypeOK
  <2>5. LiveAt(idx)
    <3>1. p.kind = "claimed" => p.pc # "marksrc" /\ p.pc # "release"
      BY <2>3
    <3>2. ~LeftBehind(idx)
      BY <1>2, <2>3, <3>1, HolderIs DEF Leaving
    <3> QED
      BY <2>4, <3>2 DEF LiveAt, Runs
  <2>6. After(r) = At(r) /\ LiveAt(r)
    <3>1. ~Arrives(o, r)
      BY <2>3 DEF Arrives, TakesOver
    <3> QED
      BY <2>3, <3>1, OpStepLives DEF After, At
  <2> QED
    BY <2>1, <2>3, <2>4, <2>5, <2>6 DEF TokenSole
<1> QED
  BY <1>1, <1>2

-----------------------------------------------------------------------------
(***************************************************************************)
(* What operations write is covered                                        *)
(***************************************************************************)
LEMMA FreeReady == ASSUME NEW f, NEW p, p.pc \in Free PROVE Ready(f, p)
BY DEF Ready, Free

\* An operation that goes on has what it is about to write covered.
LEMMA OpStepReady ==
    ASSUME Base, ~SlowOps, CoversNext, NEW o \in Op, OpStep(o)
    PROVE  Ready(senders', op'[o])
<1> DEFINE p == op[o]
           n == op'[o]
<1>0. /\ Typed /\ Shape(p) /\ p.d \in Data /\ p.prev \in Data
      /\ p.d.tok \in 0..MaxId /\ p.prev.tok \in 0..MaxId
  BY BaseIs DEF Data
<1>1. n.pc = "update" => RecordSenders(o)
  BY OpStepWrites DEF WritesFrom
<1>2. n.pc = "add" => Index(o)
  BY OpStepWrites DEF WritesFrom
<1>3. ASSUME n.pc = "update" PROVE CoversIn(senders', Appended(n.prev, n.d, Hint(n)))
  <2>1. /\ n.prev = p.prev /\ n.d = p.d /\ n.kind = p.kind /\ ~Relocating(p)
        /\ senders' = [senders EXCEPT ![p.prev.tok] = SendersOf(p)]
    BY <1>0, <1>1, <1>3, RecordSendersDoes DEF Becomes
  <2>2. Appended(p.prev, p.d, Hint(p)) \in Data /\ Appended(p.prev, p.d, Hint(p)).tok = p.prev.tok
        /\ SeqSet(Appended(p.prev, p.d, Hint(p)).msgs) = SendersOf(p)
    <3>1. Appended(p.prev, p.d, Hint(p)) \in Data
      BY <1>0, AppendedData
    <3>2. Appended(p.prev, p.d, Hint(p)).tok = p.prev.tok
      BY <1>0, AppendedTok
    <3>3. SeqSet(Appended(p.prev, p.d, Hint(p)).msgs) = SeqSet(p.prev.msgs) \cup SeqSet(p.d.msgs)
      BY <1>0, AppendedMsgs
    <3> QED
      BY <3>1, <3>2, <3>3 DEF SendersOf
  <2>3. CoversIn(senders', Appended(p.prev, p.d, Hint(p)))
    BY <1>0, <2>1, <2>2, WriteCovers
  <2> QED
    BY <2>1, <2>3 DEF Hint
<1>4. ASSUME n.pc = "add" PROVE CoversIn(senders', n.d)
  <2>1. n.d = p.d /\ senders' = [senders EXCEPT ![p.d.tok] = SeqSet(p.d.msgs)]
    BY <1>0, <1>2, <1>4, IndexDoes DEF Becomes
  <2> QED
    BY <1>0, <2>1, WriteCovers
<1>5. ASSUME Relocating(n), n.pc \in {"copy", "markcopy", "take", "drop"}
      PROVE  CoversIn(senders', CopyData(n))
  <2>1. CASE RecordSenders(o)
    <3>1. /\ n.prev = p.prev /\ n.d = p.d /\ n.kind = p.kind /\ n.cp = p.cp
      BY <1>0, <2>1, RecordSendersDoes DEF Becomes
    <3>2. Relocating(p) /\ CopyData(n) = Relocated(p.prev, p.d, Hint(p))
      BY <1>5, <3>1 DEF Relocating, HasWant, CopyData, Hint
    <3>3. senders' = [senders EXCEPT ![p.d.tok] = SendersOf(p)]
      BY <1>0, <2>1, <3>2, RecordSendersDoes
    <3>4. Relocated(p.prev, p.d, Hint(p)) \in Data /\ Relocated(p.prev, p.d, Hint(p)).tok = p.d.tok
          /\ SeqSet(Relocated(p.prev, p.d, Hint(p)).msgs) = SendersOf(p)
      <4>1. Relocated(p.prev, p.d, Hint(p)) \in Data
        BY <1>0, RelocatedData
      <4>2. Relocated(p.prev, p.d, Hint(p)).tok = p.d.tok
        BY <1>0, RelocatedTok
      <4>3. SeqSet(Relocated(p.prev, p.d, Hint(p)).msgs) = SeqSet(p.prev.msgs) \cup SeqSet(p.d.msgs)
        BY <1>0, RelocatedMsgs
      <4> QED
        BY <4>1, <4>2, <4>3 DEF SendersOf
    <3> QED
      BY <1>0, <3>2, <3>3, <3>4, WriteCovers
  <2>2. CASE ~RecordSenders(o)
    <3>1. p.pc \in {"copy", "markcopy", "take"} /\ n.prev = p.prev /\ n.d = p.d /\ n.kind = p.kind /\ n.cp = p.cp
      BY <1>5, <2>2, OpStepWrites DEF WritesFrom, Relocating
    <3>2. Relocating(p) /\ CopyData(n) = CopyData(p)
      BY <1>5, <3>1 DEF Relocating, HasWant, CopyData, Hint
    <3>3. senders' = senders
      BY <3>1, OpStepSenders
    <3>4. Covers(CopyData(p))
      BY <3>1, <3>2 DEF CoversNext, Ready, Covers
    <3> QED
      BY <3>2, <3>3, <3>4 DEF Covers
  <2> QED
    BY <2>1, <2>2
<1> QED
  BY <1>3, <1>4, <1>5, OpStepWrites DEF WritesFrom, Ready

\* An operation's step keeps a job's data and phase: but for an append, and the
\* end of a worker's move.
LEMMA OpStepGrows ==
    ASSUME Base, NEW o \in Op, OpStep(o), NEW s \in Ref, At(s).st # "none", After(s).st # "none"
    PROVE  LET p == op[o] IN
           /\ After(s).data = At(s).data \/ (p.pc = "update" /\ After(s).data = Appended(p.prev, p.d, Hint(p)))
           /\ After(s).ph = At(s).ph \/ (p.pc = "release" /\ p.kind = "claimed" /\ s = p.src)
<1> DEFINE p == op[o]
           Goal == /\ After(s).data = At(s).data \/ (p.pc = "update" /\ After(s).data = Appended(p.prev, p.d, Hint(p)))
                   /\ After(s).ph = At(s).ph \/ (p.pc = "release" /\ p.kind = "claimed" /\ s = p.src)
<1>0. Typed /\ At(s) \in Job /\ NoJob.st = "none"
  BY BaseTyped, PlaceIs DEF NoJob
<1>1. ASSUME job' = job PROVE Goal
  BY <1>1 DEF After, At
<1>2. CASE Acquire(o) \/ MarkFailed(o) \/ Look(o) \/ RecordSenders(o) \/ Recheck(o) \/ Index(o) \/ MarkSource(o)
  BY <1>0, <1>1, <1>2, AcquireDoes, MarkFailedDoes, LookDoes, RecordSendersDoes, RecheckDoes, IndexDoes,
     MarkSourceDoes
<1>3. CASE CheckMoved(o) \/ CheckClaimed(o) \/ CheckMerge(o) \/ CheckSwap(o) \/ MarkCopy(o)
             \/ Unmark(o) \/ Reindex(o) \/ MarkHold(o)
  BY <1>0, <1>1, <1>3, CheckMovedDoes, CheckClaimedDoes, CheckMergeDoes, CheckSwapDoes, MarkCopyDoes,
     UnmarkDoes, ReindexDoes, MarkHoldDoes
<1>4. CASE UpdateData(o)
  <2> DEFINE new == Appended(p.prev, p.d, Hint(p))
             k == [At(p.ref) EXCEPT !.data = new]
  <2>1. p.pc = "update" /\ JobBecomes(p.ref, k)
    BY <1>0, <1>4, UpdateDataDoes, UpdateDataTouches
  <2>2. CASE s = p.ref
    <3>1. After(s) = [At(s) EXCEPT !.data = new]
      BY <2>1, <2>2, AfterIs
    <3> HIDE DEF new
    <3>2. After(s).data = new /\ After(s).ph = At(s).ph
      BY <1>0, <3>1 DEF Job
    <3> QED
      BY <2>1, <3>2 DEF new
  <2>3. CASE s # p.ref
    <3>1. After(s) = At(s)
      BY <2>1, <2>3, AfterIs
    <3> QED
      BY <3>1
  <2> QED
    BY <2>2, <2>3
<1>5. CASE Add(o) \/ AddCopy(o)
  <2>1. PICK r, k : job' = job \/ (JobBecomes(r, k) /\ At(r).st = "none")
    BY <1>0, <1>5, AddDoes, AddCopyDoes
  <2>2. After(s) = At(s)
    BY <1>1, <2>1, AfterIs DEF After, At
  <2> QED
    BY <2>2
<1>6. CASE Take(o) \/ DropCopy(o) \/ TakeHold(o)
  <2>1. PICK r : job' = job \/ JobBecomes(r, NoJob)
    BY <1>0, <1>6, TakeDoes, DropCopyDoes, TakeHoldDoes
  <2>2. After(s) = At(s)
    BY <1>0, <1>1, <2>1, AfterIs DEF After, At
  <2> QED
    BY <2>2
<1>7. CASE Promote(o)
  <2>1. job' = job \/ JobBecomes(p.cp, [At(p.cp) EXCEPT !.st = "waiting"])
    BY <1>0, <1>7, PromoteDoes
  <2>2. CASE JobBecomes(p.cp, [At(p.cp) EXCEPT !.st = "waiting"])
    <3>1. After(s) = At(s) \/ After(s) = [At(s) EXCEPT !.st = "waiting"]
      BY <2>2, AfterIs
    <3> QED
      BY <1>0, <3>1 DEF Job
  <2> QED
    BY <1>1, <2>1, <2>2
<1>8. CASE Release(o)
  <2>1. p.pc = "release"
    BY <1>0, <1>8, ReleaseDoes
  <2>2. ASSUME NEW k, p.kind = "claimed", JobBecomes(p.src, k), Returned(At(p.src), k) PROVE Goal
    <3>1. After(s) = IF s = p.src THEN k ELSE At(s)
      BY <2>2, AfterIs
    <3> QED
      BY <2>1, <2>2, <3>1 DEF Returned
  <2> QED
    BY <1>1, <1>8, <2>2, ReleaseTouches
<1> QED
  BY <1>2, <1>3, <1>4, <1>5, <1>6, <1>7, <1>8 DEF OpStep

LEMMA OpStepCoversNext == ASSUME Base, ~SlowOps, CoversNext, NEW o \in Op, OpStep(o) PROVE CoversNext'
<1> SUFFICES ASSUME NEW x \in Op PROVE Ready(senders', op'[x])
  BY DEF CoversNext, Ready, CoversIn, Appended, Hint, CopyData, Relocating, HasWant
<1>0. \A y \in Op : y # o => op'[y] = op[y]
  BY RecordGoesOn
<1>1. CASE x = o
  BY <1>1, OpStepReady
<1>2. CASE x # o /\ MarkFailed(o)
  <2>1. op[o].pc = "markfailed"
    BY <1>2, MarkFailedLeaves
  <2>2. senders' = senders
    BY <2>1, OpStepSenders
  <2> QED
    BY <1>0, <1>2, <2>2 DEF CoversNext
<1>3. CASE x # o /\ ~MarkFailed(o)
  BY <1>3, HolderIs, FreeReady
<1> QED
  BY <1>1, <1>2, <1>3

-----------------------------------------------------------------------------
\* Where nodes die no worker moves a job.
LEMMA NoDeadMoving ==
    ASSUME Base, Settings, Few, NEW r \in Ref, At(r).st = "active", At(r).by \notin up
    PROVE  At(r).ph # "moving"
<1>1. At(r).by \in Node
  BY BaseTyped DEF JobShapes, JobShape
<1>2. Mortal # {}
  BY <1>1 DEF Settings, AllUp
<1>3. Alike
  BY <1>2 DEF Few, Alike
<1> QED
  BY <1>3 DEF Settings, AllFit, NoMisfits

\* A live job stays covered when senders are written.
LEMMA WritesCover ==
    ASSUME Base, ~SlowOps, TokensFresh, TokenSole, TokenRead, NEW o \in Op, OpStep(o),
           NEW r \in Ref, LiveAt(r), At(r).ph # "moving", Covers(At(r).data)
    PROVE  CoversIn(senders', At(r).data)
<1> DEFINE p == op[o]
           d == At(r).data
<1>0. /\ Typed /\ Shape(p) /\ ReadStill(p) /\ p.d \in Data /\ p.prev \in Data /\ d \in Data
      /\ p.d.tok \in 0..MaxId /\ p.prev.tok \in 0..MaxId
  BY BaseIs, PlaceIs DEF Data, Job
<1>1. At(r).st # "none"
  BY DEF LiveAt, Runs, Pending
<1>2. CASE senders' = senders
  BY <1>2 DEF Covers
<1>3. CASE p.pc = "senders" /\ senders' = [senders EXCEPT ![IF Relocating(p) THEN p.d.tok ELSE p.prev.tok] = SendersOf(p)]
  <2>1. CASE Relocating(p)
    <3>1. HasWant(p) /\ Unused(p) /\ ~HasCopy(p)
      BY <1>3, <2>1 DEF Relocating, HasWant, Unused, HasCopy
    <3>2. d.tok # p.d.tok
      BY <1>1, <3>1 DEF TokensFresh, Bears
    <3>3. senders' = [senders EXCEPT ![p.d.tok] = SendersOf(p)]
      BY <1>3, <2>1
    <3> HIDE DEF d, p
    <3> QED
      BY <1>0, <3>2, <3>3, WriteCovers DEF d
  <2>2. CASE ~Relocating(p)
    <3>1. senders' = [senders EXCEPT ![p.prev.tok] = SendersOf(p)]
      BY <1>3, <2>2
    <3>2. d.tok = p.prev.tok => d = p.prev
      BY <1>0, <1>3, <2>2 DEF TokenRead, ReadStill
    <3>3. d.tok = p.prev.tok => SeqSet(d.msgs) \subseteq SendersOf(p)
      BY <3>2 DEF SendersOf
    <3> HIDE DEF d, p
    <3> QED
      BY <1>0, <3>1, <3>3, WriteCovers DEF d
  <2> QED
    BY <2>1, <2>2
<1>4. CASE p.pc = "index" /\ senders' = [senders EXCEPT ![p.d.tok] = SeqSet(p.d.msgs)]
  <2>1. d.tok # p.d.tok
    <3>1. CASE HasWant(p)
      <4>1. Unused(p) /\ ~HasCopy(p)
        BY <1>4, <3>1 DEF Unused, HasWant, HasCopy
      <4> QED
        BY <1>1, <3>1, <4>1 DEF TokensFresh, Bears
    <3>2. CASE p.kind = "claimed"
      <4>1. PICK h : h = p.src
        OBVIOUS
      <4>2. ~Leaving(p, h)
        BY <1>4 DEF Leaving
      <4>3. h \in Ref /\ At(h).st = "active" /\ At(h).ph = "moving" /\ At(h).snap = p.d
        BY <3>2, <4>1, ClaimLives
      <4>4. LiveAt(h)
        BY <3>2, <4>1, <4>2, MovingLives
      <4>5. JobShape(At(h), h[1])
        BY <4>3, BaseTyped DEF JobShapes
      <4>6. At(h).data.tok = p.d.tok
        BY <4>3, <4>5 DEF JobShape
      <4> QED
        BY <4>3, <4>4, <4>6 DEF TokenSole
    <3>3. HasWant(p) \/ p.kind = "claimed"
      BY <1>0, <1>4 DEF Shape, KindPc, HasWant, CopyPcs
    <3> QED
      BY <3>1, <3>2, <3>3
  <2> HIDE DEF d, p
  <2> QED
    BY <1>0, <1>4, <2>1, WriteCovers DEF d
<1> QED
  BY <1>2, <1>3, <1>4, OpStepSenders

LEMMA OpStepCoversLive ==
    ASSUME Base, Settings, Few, ~SlowOps, TokensFresh, Covered, NEW o \in Op, OpStep(o)
    PROVE  CoversLive'
<1> DEFINE p == op[o]
<1> SUFFICES ASSUME NEW r \in Ref, LiveAt(r)', After(r).ph # "moving" PROVE CoversIn(senders', After(r).data)
  BY DEF CoversLive, Covers, CoversIn, After, At
<1>0. /\ Typed /\ Shape(p) /\ ReadStill(p) /\ Ready(senders, p)
      /\ TokenSole /\ TokenRead /\ CoversLive
  BY BaseIs DEF Covered, CoversNext
<1>1. Runs(After(r)) /\ After(r).st # "none"
  BY DEF LiveAt, Runs, Pending, After, At
<1>2. CASE Arrives(o, r) /\ p.pc = "add"
  <2>1. After(r).data = p.d
    BY <1>2, ArrivesWith
  <2>2. senders' = senders
    BY <1>2, OpStepSenders
  <2> QED
    BY <1>0, <1>2, <2>1, <2>2 DEF Ready
<1>3. CASE Arrives(o, r) /\ p.pc # "add"
  <2>1. TakesOver(o) /\ r = p.cp /\ After(r).data = CopyData(p)
    BY <1>3, ArrivesWith
  <2>2. p.pc = "take" /\ Takeable(p, At(Original(p)))
    BY <2>1 DEF TakesOver
  <2>3. senders' = senders
    BY <2>2, OpStepSenders
  <2>4. CASE Relocating(p)
    BY <1>0, <2>1, <2>2, <2>3, <2>4 DEF Ready
  <2>5. CASE ~Relocating(p)
    <3>1. PICK h \in Ref : h = Original(p)
      BY <2>2, TakenLives
    <3>2. LiveAt(h) /\ (At(h).st = "active" => At(h).by \notin up)
      BY <2>2, <3>1, TakenLives
    <3>3. At(h).data = p.d /\ CopyData(p) = p.d
      BY <1>0, <2>2, <2>5, <3>1 DEF ReadStill, CopyData
    <3>4. At(h).ph # "moving"
      <4>1. CASE At(h).st = "active"
        BY <3>2, <4>1, NoDeadMoving
      <4>2. CASE At(h).st # "active"
        <5>1. Pending(At(h))
          BY <2>2, <3>1, <4>2 DEF Takeable
        <5> QED
          BY <5>1, BaseTyped DEF JobShapes, JobShape
      <4> QED
        BY <4>1, <4>2
    <3>5. Covers(At(h).data)
      BY <1>0, <3>2, <3>4 DEF CoversLive
    <3> QED
      BY <2>1, <2>3, <3>3, <3>5 DEF Covers
  <2> QED
    BY <2>4, <2>5
<1>4. CASE ~Arrives(o, r)
  <2>1. LiveAt(r) /\ At(r).st # "none"
    <3>1. LiveAt(r)
      BY <1>4, OpStepLives
    <3> QED
      BY <3>1 DEF LiveAt, Runs, Pending
  <2>2. At(r).ph # "moving"
    <3> SUFFICES ASSUME At(r).ph = "moving" PROVE FALSE
      OBVIOUS
    <3>1. p.pc = "release" /\ p.kind = "claimed" /\ r = p.src
      BY <1>1, <2>1, OpStepGrows
    <3>2. Leaving(p, r)
      BY <1>0, <3>1 DEF Ready, Leaving
    <3> QED
      BY <2>1, <3>2 DEF LiveAt, LeftBehind
  <2>3. Covers(At(r).data)
    BY <1>0, <2>1, <2>2 DEF CoversLive
  <2>4. CASE After(r).data = At(r).data
    BY <1>0, <2>1, <2>2, <2>3, <2>4, WritesCover
  <2>5. CASE p.pc = "update" /\ After(r).data = Appended(p.prev, p.d, Hint(p))
    <3>1. senders' = senders
      BY <2>5, OpStepSenders
    <3> QED
      BY <1>0, <2>5, <3>1 DEF Ready
  <2> QED
    BY <1>1, <2>1, <2>4, <2>5, OpStepGrows
<1> QED
  BY <1>2, <1>3, <1>4

\* The data of what an operation is about to write.
LEMMA ReadyFades ==
    ASSUME Base, Fades, NEW o \in Op, Ready(senders, op[o])
    PROVE  Ready(senders', op[o])
<1> DEFINE p == op[o]
           new == Appended(p.prev, p.d, Hint(p))
           copy == CopyData(p)
<1>1. p.d \in Data /\ p.prev \in Data
  BY BaseIs
<1>2. new \in Data /\ Relocated(p.prev, p.d, Hint(p)) \in Data
  BY <1>1, AppendedData, RelocatedData
<1>3. copy \in Data
  BY <1>1, <1>2 DEF CopyData
<1>4. /\ CoversIn(senders, p.d) => CoversIn(senders', p.d)
      /\ CoversIn(senders, new) => CoversIn(senders', new)
      /\ CoversIn(senders, copy) => CoversIn(senders', copy)
  <2> HIDE DEF new, copy
  <2> QED
    BY <1>1, <1>2, <1>3, FadesCover DEF Covers
<1> QED
  BY <1>4 DEF Ready

\* Steps that bring no job and let operations go on, or end.
LEMMA CoveredFades ==
    ASSUME Base, CoversLive, CoversNext, Fades,
           \A s \in Ref : LiveAt(s)' /\ After(s).ph # "moving" =>
               After(s).data = At(s).data /\ ((LiveAt(s) /\ At(s).ph # "moving") \/ Covers(At(s).data)),
           \A x \in Op : op'[x] = op[x] \/ op'[x].pc \in Free
    PROVE  CoversLive' /\ CoversNext'
<1>1. ASSUME NEW s \in Ref, LiveAt(s)', After(s).ph # "moving" PROVE CoversIn(senders', After(s).data)
  <2>1. After(s).data = At(s).data /\ Covers(At(s).data)
    BY <1>1 DEF CoversLive
  <2>2. At(s).data \in Data
    BY BaseTyped, PlaceIs DEF Job
  <2> QED
    BY <2>1, <2>2, FadesCover
<1>2. ASSUME NEW x \in Op PROVE Ready(senders', op'[x])
  <2>1. CASE op'[x] = op[x]
    BY <2>1, ReadyFades DEF CoversNext
  <2>2. CASE op'[x].pc \in Free
    BY <2>2, FreeReady
  <2> QED
    BY <2>1, <2>2
<1>3. CoversLive'
  BY <1>1 DEF CoversLive, Covers, CoversIn, After, At
<1>4. CoversNext'
  BY <1>2 DEF CoversNext, Ready, CoversIn, Appended, Hint, CopyData, Relocating, HasWant
<1> QED
  BY <1>3, <1>4

LEMMA TokensKeep ==
    ASSUME TokenSole, TokenRead,
           \A s \in Ref : LiveAt(s)' => LiveAt(s) /\ After(s).data = At(s).data,
           \A x \in Op : op'[x] = op[x] \/ op'[x].pc \in Free
    PROVE  TokenSole' /\ TokenRead'
<1>1. ASSUME NEW r \in Ref, NEW s \in Ref, LiveAt(r)', LiveAt(s)', After(r).data.tok = After(s).data.tok PROVE r = s
  BY <1>1 DEF TokenSole
<1>2. ASSUME NEW x \in Op, NEW r \in Ref, op'[x].pc = "senders", ~Relocating(op'[x]), LiveAt(r)',
             After(r).data.tok = op'[x].prev.tok
      PROVE  r = op'[x].ref
  <2>1. op'[x] = op[x]
    BY <1>2 DEF Free
  <2> QED
    BY <1>2, <2>1 DEF TokenRead
<1>3. TokenSole'
  BY <1>1 DEF TokenSole, After, At
<1>4. TokenRead'
  BY <1>2 DEF TokenRead, After, At, Relocating, HasWant
<1> QED
  BY <1>3, <1>4

LEMMA CoveredStays ==
    ASSUME Base, Covered, Fades,
           \A s \in Ref : LiveAt(s)' => LiveAt(s) /\ After(s).data = At(s).data
                                     /\ (After(s).ph # "moving" => At(s).ph # "moving"),
           \A x \in Op : op'[x] = op[x] \/ op'[x].pc \in Free
    PROVE  Covered'
<1>1. TokenSole' /\ TokenRead'
  BY TokensKeep DEF Covered
<1>2. CoversLive' /\ CoversNext'
  BY CoveredFades DEF Covered
<1> QED
  BY <1>1, <1>2 DEF Covered

-----------------------------------------------------------------------------
\* A worker and a timer take a job out of a move only with its node.
LEMMA TurnsPhases ==
    ASSUME Base, Settings, Few, NEW r, Turns(r), NEW s \in Ref, Runs(After(s)), After(s).ph # "moving"
    PROVE  At(s).ph # "moving"
<1> DEFINE j == At(r)
           k == After(r)
<1>0. r \in Ref /\ \A x \in Ref : x # r => After(x) = At(x)
  BY DEF Turns
<1>1. CASE s # r
  BY <1>0, <1>1
<1>2. CASE s = r
  <2>1. Pending(j) => j.ph = "none"
    BY <1>0, BaseTyped DEF JobShapes, JobShape
  <2>2. j.st = "active" /\ j.by \notin up => j.ph # "moving"
    BY <1>0, NoDeadMoving
  <2> QED
    BY <1>2, <2>1, <2>2 DEF Turns, Has, Pending
<1> QED
  BY <1>1, <1>2

\* What an operation that died half way leaves is a covered copy, the one job
\* with its token.
LEMMA CrashLeaves ==
    ASSUME Base, Settings, ~SlowOps, TokensFresh, CoversNext, NEW o \in Op, Crashes(o), NEW s \in Ref,
           LiveAt(s)', ~LiveAt(s)
    PROVE  /\ Covers(At(s).data)
           /\ \A r \in Ref : At(r).st # "none" /\ At(r).data.tok = At(s).data.tok => r = s
           /\ op[o].pc \notin Free
<1> DEFINE p == op[o]
<1>1. op'[o] = IdleOp /\ job' = job /\ (\A x \in Op : x # o => op'[x] = op[x]) /\ NoReaps
  BY DEF Crashes, OpBecomes
<1>2. After(s) = At(s)
  BY <1>1 DEF After, At
<1>3. Leaving(p, s)
  <2>1. Runs(After(s)) /\ ~LeftBehind(s)'
    BY DEF LiveAt, Runs, Pending, After, At
  <2>2. LeftBehind(s)
    BY <1>2, <2>1 DEF LiveAt
  <2>3. \A x \in Op : ~Leaving(op'[x], s)
    BY <2>1 DEF LeftBehind, Leaving
  <2> QED
    BY <1>1, <2>2, <2>3 DEF LeftBehind
<1>4. p.kind \in {"enqueue", "redispatch"} /\ p.pc \in {"markcopy", "take", "drop"} /\ p.cp = s
  <2>1. p.kind \in {"none", "enqueue", "redispatch"}
    BY <1>1 DEF Settings, AllUp
  <2> QED
    BY <1>3, <2>1, BaseIs DEF Leaving, Shape, KindPc, OpenPcs, CopyPcs
<1>5. HasWant(p) /\ Unused(p) /\ HasCopy(p) /\ Relocating(p)
  <2>1. s # NoRef
    BY TurnQueueAssumption DEF Ref
  <2> QED
    BY <1>4, <2>1 DEF HasWant, Unused, HasCopy, Relocating
<1>6. At(s).data = CopyData(p) /\ At(s).data.tok = p.d.tok
  BY <1>4, <1>5, BaseIs, CopyTok DEF CopyStays
<1>7. Covers(At(s).data)
  BY <1>4, <1>5, <1>6 DEF CoversNext, Ready, Covers
<1>8. \A r \in Ref : At(r).st # "none" /\ At(r).data.tok = At(s).data.tok => r = s
  BY <1>4, <1>5, <1>6 DEF TokensFresh, Bears
<1> QED
  BY <1>4, <1>7, <1>8 DEF Free

LEMMA CrashCovered ==
    ASSUME Base, Settings, ~SlowOps, TokensFresh, Covered, Fades, NEW o \in Op, Crashes(o)
    PROVE  Covered'
<1>0. op'[o] = IdleOp /\ (\A x \in Op : x # o => op'[x] = op[x]) /\ \A s \in Ref : After(s) = At(s)
  BY DEF Crashes, OpBecomes, After, At
<1>1. \A x \in Op : op'[x] = op[x] \/ op'[x].pc \in Free
  BY <1>0, IdleIs DEF Free
<1>2. CoversLive' /\ CoversNext'
  <2>1. ASSUME NEW s \in Ref, LiveAt(s)', After(s).ph # "moving"
        PROVE  After(s).data = At(s).data /\ ((LiveAt(s) /\ At(s).ph # "moving") \/ Covers(At(s).data))
    BY <1>0, <2>1, CrashLeaves DEF Covered
  <2> QED
    BY <1>1, <2>1, CoveredFades DEF Covered
<1>3. TokenSole' /\ TokenRead'
  <2>1. CASE \A s \in Ref : LiveAt(s)' => LiveAt(s)
    BY <1>0, <1>1, <2>1, TokensKeep DEF Covered
  <2>2. CASE \E s \in Ref : LiveAt(s)' /\ ~LiveAt(s)
    <3>1. PICK s \in Ref : LiveAt(s)' /\ ~LiveAt(s)
      BY <2>2
    <3>2. op[o].pc \notin Free
      BY <3>1, CrashLeaves DEF Covered
    <3>3. \A x \in Op : op'[x].pc \in Free
      <4>1. \A x \in Op : x # o => op[x].pc \in Free
        BY <3>2, HolderAlone
      <4>2. IdleOp.pc \in Free
        BY IdleIs DEF Free
      <4> QED
        BY <1>0, <4>1, <4>2
    <3>4. ASSUME NEW r \in Ref, LiveAt(r)' PROVE At(r).st # "none"
      <4>1. After(r).st # "none"
        BY <3>4 DEF LiveAt, Runs, Pending, After, At
      <4> QED
        BY <1>0, <4>1
    <3>5. ASSUME NEW r \in Ref, NEW t \in Ref, LiveAt(r)', LiveAt(t)', After(r).data.tok = After(t).data.tok PROVE r = t
      <4>1. At(r).data.tok = At(t).data.tok /\ At(r).st # "none" /\ At(t).st # "none"
        BY <1>0, <3>4, <3>5
      <4>2. CASE LiveAt(r) /\ LiveAt(t)
        BY <4>1, <4>2 DEF Covered, TokenSole
      <4>3. CASE ~LiveAt(r)
        BY <3>5, <4>1, <4>3, CrashLeaves DEF Covered
      <4>4. CASE ~LiveAt(t)
        BY <3>5, <4>1, <4>4, CrashLeaves DEF Covered
      <4> QED
        BY <4>2, <4>3, <4>4
    <3>6. TokenSole'
      BY <3>5 DEF TokenSole, After, At
    <3>7. TokenRead'
      <4>1. \A x \in Op : op'[x].pc # "senders"
        BY <3>3 DEF Free
      <4> QED
        BY <4>1 DEF TokenRead
    <3> QED
      BY <3>6, <3>7
  <2> QED
    BY <2>1, <2>2
<1> QED
  BY <1>2, <1>3 DEF Covered

LEMMA CoveredNext ==
    ASSUME Base, Settings, Few, ~SlowOps, TokensFresh, Covered, [Next]_vars
    PROVE  Covered'
<1>1. ASSUME NEW o \in Op, OpStep(o) PROVE Covered'
  <2>1. TokenSole' /\ TokenRead'
    BY <1>1, OpStepTokenSole, OpStepTokenRead DEF Covered
  <2>2. CoversLive'
    BY <1>1, OpStepCoversLive
  <2>3. CoversNext'
    BY <1>1, OpStepCoversNext DEF Covered
  <2> QED
    BY <2>1, <2>2, <2>3 DEF Covered
<1>2. CASE ~\E o \in Op : OpStep(o)
  <2>0. Fades
    BY <1>2, SendersFade
  <2>1. ASSUME NEW r, Turns(r) PROVE Covered'
    <3>1. op' = op /\ \A s \in Ref : LiveAt(s)' => LiveAt(s) /\ Runs(After(s))
      <4>1. \A s \in Ref : LiveAt(s)' => Runs(After(s))
        BY DEF LiveAt, Runs, Pending, After, At
      <4> QED
        BY <2>1, <4>1, TurnsLives DEF Turns
    <3>2. \A s \in Ref : After(s).data = At(s).data
      BY <2>1, TurnsKeepLabels
    <3>3. \A s \in Ref : LiveAt(s)' => (After(s).ph # "moving" => At(s).ph # "moving")
      BY <2>1, <3>1, TurnsPhases
    <3> QED
      BY <2>0, <3>1, <3>2, <3>3, CoveredStays
  <2>2. ASSUME NEW o \in Op, NEW n, BeginsFit(o, n) PROVE Covered'
    <3>1. /\ \A x \in Op : op'[x] = op[x] \/ op'[x].pc \in Free
          /\ \A s \in Ref : After(s).data = At(s).data /\ (After(s).ph # "moving" => After(s) = At(s))
      BY <2>2 DEF BeginsFit, Begins, OpBecomes, Free
    <3>2. \A s \in Ref : LiveAt(s)' => LiveAt(s)
      BY <2>2, BeginsLives
    <3> QED
      BY <2>0, <3>1, <3>2, CoveredStays
  <2>3. ASSUME NEW o \in Op, Crashes(o) PROVE Covered'
    BY <2>0, <2>3, CrashCovered
  <2>4. ASSUME NEW n \in Node, Dies(n) PROVE Covered'
    <3>1. op' = op /\ \A s \in Ref : After(s) = At(s)
      BY <2>4 DEF Dies, After, At
    <3> QED
      BY <2>0, <2>4, <3>1, DiesLives, CoveredStays
  <2>5. ASSUME Still PROVE Covered'
    <3>1. op' = op /\ \A s \in Ref : After(s) = At(s)
      BY <2>5 DEF Still, After, At
    <3> QED
      BY <2>0, <2>5, <3>1, StillLives, CoveredStays
  <2> QED
    BY <1>2, <2>1, <2>2, <2>3, <2>4, <2>5, NextIs
<1> QED
  BY <1>1, <1>2

LEMMA CoveredInit == ASSUME Init PROVE Covered
<1>1. \A r \in Ref : At(r) = NoJob
  BY RefIs DEF Init, At
<1>2. \A r \in Ref : ~LiveAt(r)
  BY <1>1 DEF NoJob, LiveAt, Runs, Pending
<1>3. \A o \in Op : op[o] = IdleOp
  BY DEF Init
<1>4. IdleOp.pc \in Free
  BY IdleIs DEF Free
<1>5. CoversNext
  BY <1>3, <1>4, FreeReady DEF CoversNext
<1>6. TokenRead
  BY <1>2 DEF TokenRead
<1> QED
  BY <1>2, <1>5, <1>6 DEF Covered, TokenSole, CoversLive

\* What a running turn was given is in its job's data.
LEMMA CoveredTurns == ASSUME Base, CoversLive PROVE SendersCoverTurn
<1> SUFFICES ASSUME NEW q \in Queue, NEW i \in Id, Running(q, i)
             PROVE  senders[job[q][i].snap.tok] = {} \/ SeqSet(job[q][i].snap.msgs) \subseteq senders[job[q][i].snap.tok]
  BY DEF SendersCoverTurn
<1>1. PICK r \in Ref : r = <<q, i>> /\ At(r) = job[q][i]
  BY PairIs DEF At
<1>2. At(r).st = "active" /\ At(r).ph = "running"
  BY <1>1 DEF Running, In
<1>3. JobShape(At(r), r[1])
  BY BaseTyped DEF JobShapes
<1>4. At(r).snap.tok = At(r).data.tok /\ SeqSet(At(r).snap.msgs) \subseteq SeqSet(At(r).data.msgs)
  BY <1>2, <1>3 DEF JobShape
<1>5. Covers(At(r).data)
  BY <1>2, RunningLives DEF CoversLive
<1> QED
  BY <1>1, <1>4, <1>5 DEF Covers, CoversIn

\* turns.ts:498-500: what is recorded under a running turn's token has the
\* sender of every message the turn was given, or nothing is recorded, however
\* appends, relocations, moves and merges interleave with claims, stalls and the
\* end of other turns: under the same faults as NeverLost.
THEOREM SendersAreCovered == Few /\ ~SlowOps => (Spec => []SendersCoverTurn)
<1> SUFFICES ASSUME Few, ~SlowOps PROVE Spec => []SendersCoverTurn
  OBVIOUS
<1> DEFINE Inv == TurnsKept /\ Tokens /\ Covered
<1>1. Init => Inv
  BY TurnsKeptInit, TokensInit, CoveredInit
<1>2. Inv /\ [Next]_vars => Inv'
  <2> SUFFICES ASSUME Inv, [Next]_vars PROVE TurnsKept' /\ Tokens' /\ Covered'
    OBVIOUS
  <2>1. Base /\ Settings /\ TokensFresh
    BY DEF TurnsKept, Tokens
  <2> QED
    BY <2>1, TurnsKeptNext, TokensNext, CoveredNext
<1>3. Inv => SendersCoverTurn
  BY CoveredTurns DEF TurnsKept, Covered
<1> QED
  BY <1>1, <1>2, <1>3, PTL DEF Spec
=============================================================================
