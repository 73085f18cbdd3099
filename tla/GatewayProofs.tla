---------------------------- MODULE GatewayProofs ----------------------------
(***************************************************************************)
(* Theorems about the gateway's MCP bridge (McpBridge) and a thread's      *)
(* engagement (ThreadEngagement), for every value of their bounds.         *)
(***************************************************************************)
EXTENDS ThreadEngagement, McpBridge, SequenceTheorems, FiniteSetTheorems, TLAPS

-----------------------------------------------------------------------------
(***************************************************************************)
(* Queues without repetition                                               *)
(***************************************************************************)
\* s holds each element of W once.
QueueOf(s, W) ==
    /\ \A k \in 1..Len(s) : s[k] \in W
    /\ \A w \in W : \E k \in 1..Len(s) : s[k] = w
    /\ \A j, k \in 1..Len(s) : s[j] = s[k] => j = k

LEMMA RemoveAtIs ==
    ASSUME NEW S, NEW s \in Seq(S), NEW k \in 1..Len(s)
    PROVE  /\ RemoveAt(s, k) \in Seq(S)
           /\ Len(RemoveAt(s, k)) = Len(s) - 1
           /\ \A j \in 1..(Len(s) - 1) : RemoveAt(s, k)[j] = IF j < k THEN s[j] ELSE s[j + 1]
<1> DEFINE a == SubSeq(s, 1, k - 1)
           b == SubSeq(s, k + 1, Len(s))
<1>1. Len(s) \in Nat /\ k \in Nat /\ 1 <= k /\ k <= Len(s)
  OBVIOUS
<1>2. a \in Seq(S) /\ Len(a) = k - 1 /\ \A j \in 1..(k - 1) : a[j] = s[j]
  BY <1>1
<1>3. b \in Seq(S) /\ Len(b) = Len(s) - k /\ \A j \in 1..(Len(s) - k) : b[j] = s[k + j]
  BY <1>1
<1>4. RemoveAt(s, k) = a \o b
  BY DEF RemoveAt
<1> HIDE DEF a, b
<1>5. a \o b \in Seq(S) /\ Len(a \o b) = Len(s) - 1
  <2>1. a \in Seq(S) /\ b \in Seq(S)
    BY <1>2, <1>3
  <2>2. a \o b \in Seq(S)
    BY <2>1, ConcatProperties
  <2>3. Len(a \o b) = Len(a) + Len(b)
    BY <2>1, ConcatProperties
  <2>4. (k - 1) + (Len(s) - k) = Len(s) - 1
    BY <1>1
  <2> QED
    BY <1>2, <1>3, <2>2, <2>3, <2>4
<1>6. ASSUME NEW j \in 1..(Len(s) - 1) PROVE (a \o b)[j] = IF j < k THEN s[j] ELSE s[j + 1]
  <2>1. CASE j < k
    BY <1>1, <1>2, <1>3, <2>1
  <2>2. CASE ~(j < k)
    <3>1. j - (k - 1) \in 1..(Len(s) - k) /\ k + (j - (k - 1)) = j + 1
      BY <1>1, <2>2
    <3>2. (a \o b)[j] = b[j - (k - 1)]
      BY <1>1, <1>2, <1>3, <2>2
    <3> QED
      BY <1>3, <2>2, <3>1, <3>2
  <2> QED
    BY <2>1, <2>2
<1> QED
  BY <1>4, <1>5, <1>6

LEMMA RemoveFirstIs ==
    ASSUME NEW S, NEW s \in Seq(S), NEW k \in 1..Len(s), \A j \in 1..Len(s) : s[j] = s[k] => j = k
    PROVE  RemoveFirst(s, s[k]) = RemoveAt(s, k)
<1> DEFINE I == {i \in 1..Len(s) : s[i] = s[k]}
<1>1. I = {k}
  OBVIOUS
<1>2. Min(I) = k
  BY <1>1 DEF Min
<1>3. SelectInSeq(s, LAMBDA v : v = s[k]) = k
  BY <1>1, <1>2 DEF SelectInSeq
<1> QED
  BY <1>3 DEF RemoveFirst

\* An element taken out of a queue leaves the others, in their order.
LEMMA QueueLeft ==
    ASSUME NEW S, NEW s \in Seq(S), NEW W, QueueOf(s, W), NEW w \in W
    PROVE  /\ RemoveFirst(s, w) \in Seq(S) /\ QueueOf(RemoveFirst(s, w), W \ {w})
           /\ \E k \in 1..Len(s) :
                /\ s[k] = w /\ Len(RemoveFirst(s, w)) = Len(s) - 1
                /\ \A j \in 1..(Len(s) - 1) : RemoveFirst(s, w)[j] = IF j < k THEN s[j] ELSE s[j + 1]
<1>1. PICK k \in 1..Len(s) : s[k] = w
  BY DEF QueueOf
<1>2. \A j \in 1..Len(s) : s[j] = s[k] => j = k
  BY DEF QueueOf
<1> DEFINE r == RemoveFirst(s, w)
<1>3. r = RemoveAt(s, k)
  BY <1>1, <1>2, RemoveFirstIs
<1>4. /\ r \in Seq(S) /\ Len(r) = Len(s) - 1
      /\ \A j \in 1..(Len(s) - 1) : r[j] = IF j < k THEN s[j] ELSE s[j + 1]
  BY <1>3, RemoveAtIs
<1> HIDE DEF r
<1>5. Len(s) \in Nat /\ k \in Nat /\ 1 <= k /\ k <= Len(s)
  OBVIOUS
<1>6. \A j \in 1..Len(r) : j \in 1..Len(s) /\ j + 1 \in 1..Len(s) /\ j # j + 1
  BY <1>4, <1>5
<1>7. ASSUME NEW j \in 1..Len(r) PROVE r[j] \in W \ {w}
  <2>1. CASE j < k
    BY <1>1, <1>2, <1>4, <1>5, <1>6, <2>1 DEF QueueOf
  <2>2. CASE ~(j < k)
    <3>1. r[j] = s[j + 1] /\ j + 1 # k /\ j + 1 \in 1..Len(s)
      BY <1>4, <1>5, <1>6, <2>2
    <3> QED
      BY <1>1, <1>2, <3>1 DEF QueueOf
  <2> QED
    BY <2>1, <2>2
<1>8. ASSUME NEW x \in W \ {w} PROVE \E j \in 1..Len(r) : r[j] = x
  <2>1. PICK j \in 1..Len(s) : s[j] = x /\ j # k
    BY <1>1 DEF QueueOf
  <2>2. CASE j < k
    <3>1. j \in 1..Len(r)
      BY <1>4, <1>5, <2>2
    <3> QED
      BY <1>4, <2>1, <2>2, <3>1
  <2>3. CASE ~(j < k)
    <3>1. j - 1 \in 1..Len(r) /\ ~(j - 1 < k) /\ (j - 1) + 1 = j
      BY <1>4, <1>5, <2>1, <2>3
    <3>2. r[j - 1] = s[j]
      BY <1>4, <3>1
    <3> QED
      BY <2>1, <3>1, <3>2
  <2> QED
    BY <2>2, <2>3
<1>9. ASSUME NEW i \in 1..Len(r), NEW j \in 1..Len(r), r[i] = r[j] PROVE i = j
  <2>1. i \in Nat /\ j \in Nat
    OBVIOUS
  <2>2. PICK a \in 1..Len(s) : r[i] = s[a] /\ a = (IF i < k THEN i ELSE i + 1)
    BY <1>4, <1>6
  <2>3. PICK b \in 1..Len(s) : r[j] = s[b] /\ b = (IF j < k THEN j ELSE j + 1)
    BY <1>4, <1>6
  <2>4. a = b
    BY <1>9, <2>2, <2>3 DEF QueueOf
  <2> QED
    BY <1>5, <2>1, <2>2, <2>3, <2>4
<1>10. QueueOf(r, W \ {w})
  BY <1>7, <1>8, <1>9 DEF QueueOf
<1> QED
  BY <1>1, <1>4, <1>10 DEF r

\* A newcomer waits last.
LEMMA QueueJoined ==
    ASSUME NEW S, NEW s \in Seq(S), NEW W, QueueOf(s, W), NEW x \in S, x \notin W
    PROVE  Append(s, x) \in Seq(S) /\ QueueOf(Append(s, x), W \cup {x})
<1> DEFINE a == Append(s, x)
<1>1. /\ a \in Seq(S) /\ Len(s) \in Nat /\ Len(a) = Len(s) + 1 /\ a[Len(s) + 1] = x
      /\ \A j \in 1..Len(s) : a[j] = s[j]
  OBVIOUS
<1> HIDE DEF a
<1>2. \A j \in 1..Len(a) : j \in 1..Len(s) \/ j = Len(s) + 1
  BY <1>1
<1>3. \A j \in 1..Len(s) : j \in 1..Len(a) /\ s[j] # x
  BY <1>1 DEF QueueOf
<1>4. Len(s) + 1 \in 1..Len(a)
  BY <1>1
<1>5. QueueOf(a, W \cup {x})
  BY <1>1, <1>2, <1>3, <1>4 DEF QueueOf
<1> QED
  BY <1>1, <1>5 DEF a

\* The first of a queue leaves it.
LEMMA QueueServed ==
    ASSUME NEW S, NEW s \in Seq(S), NEW W, QueueOf(s, W), s # <<>>
    PROVE  s[1] \in W /\ Tail(s) \in Seq(S) /\ QueueOf(Tail(s), W \ {s[1]})
<1> DEFINE t == Tail(s)
<1>1. /\ t \in Seq(S) /\ Len(s) \in Nat /\ Len(s) # 0 /\ Len(t) = Len(s) - 1
      /\ \A j \in 1..Len(t) : t[j] = s[j + 1]
  OBVIOUS
<1> HIDE DEF t
<1>2. 1 \in 1..Len(s) /\ \A j \in 1..Len(t) : j + 1 \in 1..Len(s) /\ j + 1 # 1
  BY <1>1
<1>3. \A j \in 1..Len(s) : j # 1 => j - 1 \in 1..Len(t) /\ (j - 1) + 1 = j
  BY <1>1
<1>4. \A j \in 1..Len(t) : t[j] \in W \ {s[1]}
  BY <1>1, <1>2 DEF QueueOf
<1>5. ASSUME NEW w \in W \ {s[1]} PROVE \E j \in 1..Len(t) : t[j] = w
  <2>1. PICK j \in 1..Len(s) : s[j] = w /\ j # 1
    BY DEF QueueOf
  <2> QED
    BY <1>1, <1>3, <2>1
<1>6. ASSUME NEW i \in 1..Len(t), NEW j \in 1..Len(t), t[i] = t[j] PROVE i = j
  <2>1. i + 1 = j + 1
    BY <1>1, <1>2, <1>6 DEF QueueOf
  <2> QED
    BY <2>1
<1>7. QueueOf(t, W \ {s[1]})
  BY <1>4, <1>5, <1>6 DEF QueueOf
<1> QED
  BY <1>1, <1>2, <1>7 DEF t, QueueOf

-----------------------------------------------------------------------------
(***************************************************************************)
(* McpBridge: what calls share is counted right, and a call runs once      *)
(***************************************************************************)
CallPc == {"idle", "waitS", "owner", "waitO", "lease", "opening", "asked", "refreshing", "done"}
CallRec == [pc : CallPc, tok : Nat, sid : Sid \cup {NoSid}, sent : BOOLEAN, refreshed : Nat,
            reconnected : BOOLEAN, ans : {"-", "401", "run", "expired", "ok"},
            out : {"-", "ok", "busy", "reauth", "interrupted", "unavailable"}]
SessRec == [st : {"none", "opening", "open", "401", "error"}, hdr : Nat, inflight : Nat,
            stale : BOOLEAN, closing : BOOLEAN, known : BOOLEAN]
SlotRec == [n : Nat, q : Seq(MbCall)]

MbTypes ==
    /\ mcall \in [MbCall -> CallRec]
    /\ upSess \in [Sid -> SessRec] /\ pooled \in Sid \cup {NoSid}
    /\ slotS \in [MbThread -> SlotRec] /\ slotO \in SlotRec
    /\ good \in Nat /\ rowTok \in Nat /\ ran \in [MbCall -> Nat] /\ mbFaults \in Nat

\* The slots s are those of the calls H, and the calls W wait for one.
SlotsOf(s, H, W, limit) ==
    /\ s.n = Cardinality(H) /\ s.n <= limit /\ QueueOf(s.q, W)
    /\ W # {} => s.n = limit

OwnerHolders == {c \in MbCall : HoldsOwner(c)}
OwnerWaiters == {c \in MbCall : CallAt(c, "waitO")}
ThreadHolders(t) == {c \in MbCall : ThreadOf[c] = t /\ HoldsThread(c)}
ThreadWaiters(t) == {c \in MbCall : ThreadOf[c] = t /\ CallAt(c, "waitS")}

SlotInv ==
    /\ SlotsOf(slotO, OwnerHolders, OwnerWaiters, OwnerConcurrency)
    /\ \A t \in MbThread : SlotsOf(slotS[t], ThreadHolders(t), ThreadWaiters(t), SessionConcurrency)

\* A session s with number i, leased by the calls U, where pool is the pool's:
\* out of service when it is not the pool's, closing when nobody leases it.
SessionOf(s, i, pool, U) ==
    /\ s.inflight = Cardinality(U)
    /\ s.st = "none" => ~s.stale /\ pool # i /\ U = {}
    /\ s.st # "none" => (s.stale <=> pool # i)
    /\ s.closing <=> s.stale /\ U = {}

SessionsOf(ses, pool, calls) ==
    \A i \in Sid : SessionOf(ses[i], i, pool, {c \in MbCall : calls[c].sid = i})

SessionInv == SessionsOf(upSess, pooled, mcall)

\* A call has a session exactly while it opens it, asks or refreshes.
CallShape(c) ==
    /\ mcall[c].sid # NoSid <=> mcall[c].pc \in {"opening", "asked", "refreshing"}
    /\ mcall[c].pc = "asked" => mcall[c].sent
    /\ mcall[c].pc = "opening" => ~mcall[c].sent

\* A call the upstream ran has its answer under way, or is over.
RunShapeOf(c) ==
    \/ c \in Listing
    \/ ran[c] = 0
    \/ ran[c] = 1 /\ (mcall[c].pc = "done" \/ (mcall[c].pc = "asked" /\ mcall[c].ans = "ok"))

MbInv ==
    /\ MbTypes /\ SlotInv /\ SessionInv
    /\ \A c \in MbCall : CallShape(c) /\ RunShapeOf(c)

\* Slots are taken by the count, or by waiting; freed, they go to who waited
\* longest; who gives up leaves the queue.
LEMMA SlotTaken ==
    ASSUME NEW s \in SlotRec, NEW H \in SUBSET MbCall, NEW W \in SUBSET MbCall, NEW limit \in Nat,
           SlotsOf(s, H, W, limit), NEW c \in MbCall, c \notin H, c \notin W
    PROVE  /\ Taken(s, c, limit) \in SlotRec
           /\ Free(s, limit) => SlotsOf(Taken(s, c, limit), H \cup {c}, W, limit)
           /\ ~Free(s, limit) => SlotsOf(Taken(s, c, limit), H, W \cup {c}, limit)
<1> DEFINE s1 == Taken(s, c, limit)
<1>1. s.n \in Nat /\ s.q \in Seq(MbCall) /\ IsFiniteSet(H)
  BY BridgeAssumption, FS_Subset DEF SlotRec
<1>2. CASE Free(s, limit)
  <2>1. s.n + 1 \in Nat /\ s.n + 1 <= limit
    BY <1>1, <1>2 DEF Free
  <2>2. s1 \in SlotRec /\ s1.n = s.n + 1 /\ s1.q = s.q
    BY <1>1, <1>2, <2>1 DEF Taken, SlotRec
  <2>3. Cardinality(H \cup {c}) = s.n + 1
    BY <1>1, FS_AddElement DEF SlotsOf
  <2>4. W = {}
    BY <1>1, <1>2 DEF Free, SlotsOf
  <2> QED
    BY <1>2, <2>1, <2>2, <2>3, <2>4 DEF SlotsOf
<1>3. CASE ~Free(s, limit)
  <2>1. Append(s.q, c) \in Seq(MbCall) /\ QueueOf(Append(s.q, c), W \cup {c})
    BY <1>1, QueueJoined DEF SlotsOf
  <2>2. s1 \in SlotRec /\ s1.n = s.n /\ s1.q = Append(s.q, c)
    BY <1>1, <1>3, <2>1 DEF Taken, SlotRec
  <2>3. s.n = limit
    BY <1>1, <1>3 DEF Free, SlotsOf
  <2> QED
    BY <1>3, <2>1, <2>2, <2>3 DEF SlotsOf
<1> QED
  BY <1>2, <1>3

LEMMA SlotFreed ==
    ASSUME NEW s \in SlotRec, NEW H \in SUBSET MbCall, NEW W \in SUBSET MbCall, NEW limit \in Nat,
           SlotsOf(s, H, W, limit), H \cap W = {}, NEW c \in H
    PROVE  /\ Freed(s) \in SlotRec /\ Heir(s) \subseteq W
           /\ SlotsOf(Freed(s), (H \ {c}) \cup Heir(s), W \ Heir(s), limit)
<1> DEFINE s1 == Freed(s)
<1>1. s.n \in Nat /\ s.q \in Seq(MbCall) /\ IsFiniteSet(H) /\ IsFiniteSet(H \ {c})
  BY BridgeAssumption, FS_Subset DEF SlotRec
<1>2. Cardinality(H \ {c}) = s.n - 1 /\ s.n # 0
  <2>1. Cardinality(H \ {c}) = Cardinality(H) - 1
    BY <1>1, FS_RemoveElement
  <2>2. Cardinality(H) # 0
    BY <1>1, FS_EmptySet
  <2> QED
    BY <2>1, <2>2 DEF SlotsOf
<1>3. CASE s.q = <<>>
  <2>1. Heir(s) = {} /\ W = {}
    BY <1>1, <1>3 DEF Heir, SlotsOf, QueueOf
  <2>2. s.n - 1 \in Nat /\ s.n - 1 <= limit
    BY <1>1, <1>2 DEF SlotsOf
  <2>3. s1 \in SlotRec /\ s1.n = s.n - 1 /\ s1.q = s.q
    BY <1>1, <1>3, <2>2 DEF Freed, SlotRec
  <2>4. (H \ {c}) \cup Heir(s) = H \ {c} /\ W \ Heir(s) = W
    BY <2>1
  <2> QED
    BY <1>2, <2>1, <2>2, <2>3, <2>4 DEF SlotsOf
<1>4. CASE s.q # <<>>
  <2> DEFINE h == s.q[1]
  <2>1. h \in W /\ Tail(s.q) \in Seq(MbCall) /\ QueueOf(Tail(s.q), W \ {h})
    BY <1>1, <1>4, QueueServed DEF SlotsOf
  <2>2. Heir(s) = {h}
    BY <1>4 DEF Heir
  <2>3. s1 \in SlotRec /\ s1.n = s.n /\ s1.q = Tail(s.q)
    BY <1>1, <1>4, <2>1 DEF Freed, SlotRec
  <2>4. Cardinality((H \ {c}) \cup {h}) = (s.n - 1) + 1
    <3>1. h \notin H \ {c}
      BY <2>1
    <3> HIDE DEF h
    <3>2. Cardinality((H \ {c}) \cup {h}) = Cardinality(H \ {c}) + 1
      BY <1>1, <3>1, FS_AddElement
    <3> QED
      BY <1>2, <3>2
  <2>5. s.n = limit /\ (s.n - 1) + 1 = s.n
    BY <1>1, <2>1 DEF SlotsOf
  <2> HIDE DEF h
  <2> QED
    BY <2>1, <2>2, <2>3, <2>4, <2>5 DEF SlotsOf
<1> QED
  BY <1>3, <1>4

LEMMA SlotGivenUp ==
    ASSUME NEW s \in SlotRec, NEW H, NEW W \in SUBSET MbCall, NEW limit \in Nat,
           SlotsOf(s, H, W, limit), NEW c \in W
    PROVE  LeftQueue(s, c) \in SlotRec /\ SlotsOf(LeftQueue(s, c), H, W \ {c}, limit)
<1>1. s.n \in Nat /\ s.q \in Seq(MbCall)
  BY DEF SlotRec
<1>2. RemoveFirst(s.q, c) \in Seq(MbCall) /\ QueueOf(RemoveFirst(s.q, c), W \ {c})
  BY <1>1, QueueLeft DEF SlotsOf
<1>3. /\ LeftQueue(s, c) \in SlotRec /\ LeftQueue(s, c).n = s.n
      /\ LeftQueue(s, c).q = RemoveFirst(s.q, c)
  BY <1>1, <1>2 DEF LeftQueue, SlotRec
<1> QED
  BY <1>2, <1>3 DEF SlotsOf

\* A session that is retired closes when nobody leases it.
LEMMA SessionRetired ==
    ASSUME NEW ses \in [Sid -> SessRec], NEW pool \in Sid \cup {NoSid}, NEW calls,
           SessionsOf(ses, pool, calls), NEW i \in Sid, ses[i].st # "none"
    PROVE  /\ Retired(ses, i) \in [Sid -> SessRec]
           /\ \A k \in Sid : Retired(ses, i)[k].st = ses[k].st
           /\ SessionsOf(Retired(ses, i), IF pool = i THEN NoSid ELSE pool, calls)
<1> DEFINE U(k) == {c \in MbCall : calls[c].sid = k}
           p == IF pool = i THEN NoSid ELSE pool
<1>1. \A k \in Sid : SessionOf(ses[k], k, pool, U(k)) /\ IsFiniteSet(U(k)) /\ k # NoSid
  BY BridgeAssumption, FS_Subset DEF SessionsOf, Sid, NoSid
<1>2. CASE ses[i].stale
  <2>1. Retired(ses, i) = ses /\ p = pool
    BY <1>1, <1>2 DEF Retired, SessionOf
  <2> QED
    BY <2>1
<1>3. CASE ~ses[i].stale
  <2> DEFINE new == [ses[i] EXCEPT !.stale = TRUE, !.closing = ClosesNow(ses[i])]
  <2>1. pool = i /\ p = NoSid
    BY <1>1, <1>3 DEF SessionOf
  <2>2. Retired(ses, i) = [ses EXCEPT ![i] = new]
    BY <1>3 DEF Retired
  <2>3. ses[i] \in SessRec /\ (ses[i].inflight = 0) \in BOOLEAN
    OBVIOUS
  <2>4. /\ new \in SessRec /\ new.stale /\ new.st = ses[i].st /\ new.inflight = ses[i].inflight
        /\ new.closing <=> ses[i].inflight = 0
    BY <2>3 DEF SessRec, ClosesNow
  <2>5. ses[i].inflight = 0 <=> U(i) = {}
    BY <1>1, FS_EmptySet DEF SessionOf
  <2> HIDE DEF new, U, p
  <2>6. SessionOf(new, i, p, U(i))
    BY <1>1, <2>1, <2>4, <2>5 DEF SessionOf
  <2>7. ASSUME NEW k \in Sid, k # i PROVE SessionOf(ses[k], k, p, U(k))
    BY <1>1, <2>1, <2>7 DEF SessionOf
  <2>8. ASSUME NEW k \in Sid PROVE Retired(ses, i)[k] = IF k = i THEN new ELSE ses[k]
    BY <2>2
  <2>9. ASSUME NEW k \in Sid PROVE SessionOf(Retired(ses, i)[k], k, p, U(k))
    BY <2>6, <2>7, <2>8
  <2>10. Retired(ses, i) \in [Sid -> SessRec] /\ \A k \in Sid : Retired(ses, i)[k].st = ses[k].st
    BY <2>2, <2>4
  <2> QED
    BY <2>9, <2>10 DEF SessionsOf, U, p
<1> QED
  BY <1>2, <1>3

\* A call that leaves its session leaves the count right.
LEMMA SessionUnleased ==
    ASSUME NEW ses \in [Sid -> SessRec], NEW pool \in Sid \cup {NoSid}, NEW calls, NEW calls2,
           SessionsOf(ses, pool, calls), NEW c \in MbCall, calls[c].sid \in Sid,
           calls2[c].sid = NoSid, \A d \in MbCall : d # c => calls2[d].sid = calls[d].sid
    PROVE  /\ Unleased(ses, calls[c].sid) \in [Sid -> SessRec]
           /\ SessionsOf(Unleased(ses, calls[c].sid), pool, calls2)
<1> DEFINE U(k) == {d \in MbCall : calls[d].sid = k}
           V(k) == {d \in MbCall : calls2[d].sid = k}
           i == calls[c].sid
           new == [ses[i] EXCEPT !.inflight = @ - 1, !.closing = @ \/ ClosesLast(ses[i])]
<1>1. \A k \in Sid : SessionOf(ses[k], k, pool, U(k)) /\ IsFiniteSet(U(k)) /\ k # NoSid
  BY BridgeAssumption, FS_Subset DEF SessionsOf, Sid, NoSid
<1>2. V(i) = U(i) \ {c} /\ c \in U(i) /\ \A k \in Sid : k # i => V(k) = U(k)
  BY <1>1
<1>3. Unleased(ses, i) = [ses EXCEPT ![i] = new]
  BY DEF Unleased
<1> HIDE DEF U, V
<1>4. ses[i] \in SessRec /\ ses[i].inflight \in Nat /\ ses[i].closing \in BOOLEAN /\ ses[i].stale \in BOOLEAN
  BY DEF SessRec
<1>5. /\ Cardinality(V(i)) = ses[i].inflight - 1 /\ ses[i].inflight # 0 /\ IsFiniteSet(V(i))
      /\ Cardinality(V(i)) = 0 <=> V(i) = {}
  <2>1. Cardinality(V(i)) = Cardinality(U(i)) - 1 /\ IsFiniteSet(V(i))
    BY <1>1, <1>2, FS_RemoveElement
  <2>2. Cardinality(U(i)) # 0
    BY <1>1, <1>2, FS_EmptySet
  <2>3. ses[i].inflight = Cardinality(U(i))
    BY <1>1 DEF SessionOf
  <2> QED
    BY <2>1, <2>2, <2>3, FS_EmptySet
<1>6. ses[i].inflight - 1 \in Nat /\ ClosesLast(ses[i]) \in BOOLEAN
  BY <1>4, <1>5 DEF ClosesLast
<1>7. /\ new \in SessRec /\ new.stale = ses[i].stale /\ new.st = ses[i].st
      /\ new.inflight = ses[i].inflight - 1 /\ new.closing = (ses[i].closing \/ ClosesLast(ses[i]))
  BY <1>4, <1>6 DEF SessRec
<1> HIDE DEF new, i
<1>8. ClosesLast(ses[i]) <=> ses[i].stale /\ V(i) = {}
  BY <1>4, <1>5 DEF ClosesLast
<1>9. SessionOf(new, i, pool, V(i))
  BY <1>1, <1>2, <1>5, <1>7, <1>8 DEF SessionOf, i
<1>10. ASSUME NEW k \in Sid PROVE SessionOf(Unleased(ses, i)[k], k, pool, V(k))
  BY <1>1, <1>2, <1>3, <1>9
<1>11. Unleased(ses, i) \in [Sid -> SessRec]
  BY <1>3, <1>7
<1> QED
  BY <1>10, <1>11 DEF SessionsOf, V, i

LEMMA MbInvInit == MbInit => MbInv
<1> SUFFICES ASSUME MbInit PROVE MbInv
  OBVIOUS
<1> USE BridgeAssumption
<1>1. NewCall \in CallRec /\ NoSess \in SessRec
  BY DEF NewCall, NoSess, CallRec, SessRec, CallPc, NoSid
<1>2. /\ mcall \in [MbCall -> CallRec] /\ upSess \in [Sid -> SessRec] /\ pooled \in Sid \cup {NoSid}
      /\ \A c \in MbCall : mcall[c] = NewCall
      /\ \A i \in Sid : upSess[i] = NoSess
  BY <1>1 DEF MbInit
<1>3. /\ slotO = [n |-> 0, q |-> <<>>] /\ slotO \in SlotRec
      /\ slotS \in [MbThread -> SlotRec] /\ \A t \in MbThread : slotS[t] = slotO
  BY DEF MbInit, SlotRec
<1>4. good \in Nat /\ rowTok \in Nat /\ ran \in [MbCall -> Nat] /\ mbFaults \in Nat /\ \A c \in MbCall : ran[c] = 0
  BY DEF MbInit
<1>5. MbTypes
  BY <1>2, <1>3, <1>4 DEF MbTypes
<1>6. /\ OwnerHolders = {} /\ OwnerWaiters = {}
      /\ \A t \in MbThread : ThreadHolders(t) = {} /\ ThreadWaiters(t) = {}
  BY <1>2 DEF OwnerHolders, OwnerWaiters, ThreadHolders, ThreadWaiters, HoldsOwner, HoldsThread, CallAt, NewCall
<1>7. ASSUME NEW limit \in Nat PROVE SlotsOf(slotO, {}, {}, limit)
  <2>1. slotO.n = 0 /\ slotO.q = <<>> /\ Len(slotO.q) = 0
    BY <1>3
  <2>2. QueueOf(slotO.q, {})
    BY <2>1 DEF QueueOf
  <2> QED
    BY <2>1, <2>2, FS_EmptySet DEF SlotsOf
<1>8. SlotInv
  BY <1>3, <1>6, <1>7 DEF SlotInv
<1>9. SessionInv
  <2>1. \A i \in Sid : {c \in MbCall : mcall[c].sid = i} = {} /\ pooled # i
    BY <1>2 DEF NewCall, Sid, NoSid, MbInit
  <2>2. \A i \in Sid : SessionOf(upSess[i], i, pooled, {})
    BY <1>2, <2>1, FS_EmptySet DEF SessionOf, NoSess
  <2> QED
    BY <2>1, <2>2 DEF SessionInv, SessionsOf
<1>10. \A c \in MbCall : CallShape(c) /\ RunShapeOf(c)
  BY <1>2, <1>4 DEF CallShape, RunShapeOf, NewCall
<1> QED
  BY <1>5, <1>8, <1>9, <1>10 DEF MbInv

\* Who holds a slot does not wait for it.
LEMMA HoldersDontWait ==
    ASSUME MbTypes
    PROVE  /\ OwnerHolders \in SUBSET MbCall /\ OwnerWaiters \in SUBSET MbCall
           /\ OwnerHolders \cap OwnerWaiters = {}
           /\ \A t : /\ ThreadHolders(t) \in SUBSET MbCall /\ ThreadWaiters(t) \in SUBSET MbCall
                     /\ ThreadHolders(t) \cap ThreadWaiters(t) = {}
           /\ OwnerConcurrency \in Nat /\ SessionConcurrency \in Nat
           /\ \A c \in MbCall : ThreadOf[c] \in MbThread
BY BridgeAssumption DEF OwnerHolders, OwnerWaiters, ThreadHolders, ThreadWaiters, HoldsOwner, HoldsThread,
                        CallAt, MbThread

\* A step of one call that takes, frees and awaits no slot.
LEMMA SlotsStay ==
    ASSUME MbInv, NEW c \in MbCall, NEW new \in CallRec, mcall' = [mcall EXCEPT ![c] = new],
           UNCHANGED <<slotO, slotS>>, HoldsOwner(c),
           new.pc \in {"lease", "opening", "asked", "refreshing"}
    PROVE  mcall' \in [MbCall -> CallRec] /\ SlotInv'
<1>1. /\ mcall \in [MbCall -> CallRec] /\ mcall' \in [MbCall -> CallRec]
      /\ \A d \in MbCall : mcall'[d] = IF d = c THEN new ELSE mcall[d]
  BY DEF MbInv, MbTypes
<1>2. /\ OwnerHolders' = OwnerHolders /\ OwnerWaiters' = OwnerWaiters
      /\ \A t : ThreadHolders(t)' = ThreadHolders(t) /\ ThreadWaiters(t)' = ThreadWaiters(t)
  BY <1>1 DEF OwnerHolders, OwnerWaiters, ThreadHolders, ThreadWaiters, HoldsOwner, HoldsThread, CallAt
<1> QED
  BY <1>1, <1>2 DEF MbInv, SlotInv

\* A step that changes no call.
LEMMA CallsStay ==
    ASSUME MbInv, UNCHANGED <<mcall, slotO, slotS, ran>>, upSess' \in [Sid -> SessRec],
           pooled' \in Sid \cup {NoSid}, SessionInv', good' \in Nat, rowTok' \in Nat, mbFaults' \in Nat
    PROVE  MbInv'
<1>1. SlotInv'
  BY DEF MbInv, SlotInv, OwnerHolders, OwnerWaiters, ThreadHolders, ThreadWaiters, HoldsOwner,
         HoldsThread, CallAt
<1>2. \A c \in MbCall : CallShape(c)' /\ RunShapeOf(c)'
  BY DEF MbInv, CallShape, RunShapeOf
<1>3. MbTypes'
  BY DEF MbInv, MbTypes
<1> QED
  BY <1>1, <1>2, <1>3 DEF MbInv

\* The upstream and the pool, apart from the calls.
LEMMA SessionStepKeeps ==
    ASSUME MbInv,
           \/ \E i \in Sid : OpenLands(i) \/ OpenLost(i) \/ CloseLands(i) \/ UpstreamForgets(i)
           \/ IdleRetired \/ TokenExpires
    PROVE  MbInv'
<1> USE BridgeAssumption
<1>1. /\ upSess \in [Sid -> SessRec] /\ pooled \in Sid \cup {NoSid} /\ SessionsOf(upSess, pooled, mcall)
      /\ good \in Nat /\ rowTok \in Nat /\ mbFaults \in Nat
  BY DEF MbInv, MbTypes, SessionInv
<1>2. ASSUME NEW i \in Sid, NEW new \in SessRec, upSess' = [upSess EXCEPT ![i] = new],
             upSess[i].st # "none" /\ new.st # "none" /\ new.inflight = upSess[i].inflight,
             new.stale = upSess[i].stale /\ new.closing = upSess[i].closing,
             UNCHANGED <<mcall, pooled, slotS, slotO, good, rowTok, ran>>, mbFaults' \in Nat
      PROVE  MbInv'
  <2>1. upSess' \in [Sid -> SessRec] /\ \A k \in Sid : upSess'[k] = IF k = i THEN new ELSE upSess[k]
    BY <1>1, <1>2
  <2> DEFINE U(k) == {c \in MbCall : mcall[c].sid = k}
  <2>2. SessionInv'
    <3>1. \A k \in Sid : SessionOf(upSess[k], k, pooled, U(k))
      BY <1>1 DEF SessionsOf
    <3> HIDE DEF U
    <3>2. ASSUME NEW k \in Sid PROVE SessionOf(upSess'[k], k, pooled, U(k))
      <4>1. CASE k = i
        BY <1>2, <2>1, <3>1, <4>1 DEF SessionOf
      <4>2. CASE k # i
        BY <2>1, <3>1, <4>2
      <4> QED
        BY <4>1, <4>2
    <3> QED
      BY <1>2, <3>2 DEF SessionInv, SessionsOf, U
  <2> QED
    BY <1>1, <1>2, <2>1, <2>2, CallsStay
<1>3. ASSUME NEW i \in Sid, OpenLands(i) \/ OpenLost(i) \/ UpstreamForgets(i) PROVE MbInv'
  <2>1. upSess[i] \in SessRec /\ upSess[i].st \in {"opening", "open"} /\ mbFaults' \in Nat
    BY <1>1, <1>3 DEF OpenLands, OpenLost, UpstreamForgets, MbFault
  <2>2. UNCHANGED <<mcall, pooled, slotS, slotO, good, rowTok, ran>>
    BY <1>3 DEF OpenLands, OpenLost, UpstreamForgets
  <2>3. CASE OpenLands(i)
    <3> DEFINE new == [upSess[i] EXCEPT !.st = IF upSess[i].hdr >= good THEN "open" ELSE "401"]
    <3>1. /\ new \in SessRec /\ new.st # "none" /\ new.inflight = upSess[i].inflight
          /\ new.stale = upSess[i].stale /\ new.closing = upSess[i].closing
      BY <2>1 DEF SessRec
    <3>2. upSess' = [upSess EXCEPT ![i] = new]
      BY <2>3 DEF OpenLands
    <3> HIDE DEF new
    <3> QED
      BY <1>2, <2>1, <2>2, <3>1, <3>2
  <2>4. CASE OpenLost(i)
    <3> DEFINE new == [upSess[i] EXCEPT !.st = "error"]
    <3>1. /\ new \in SessRec /\ new.st # "none" /\ new.inflight = upSess[i].inflight
          /\ new.stale = upSess[i].stale /\ new.closing = upSess[i].closing
      BY <2>1 DEF SessRec
    <3>2. upSess' = [upSess EXCEPT ![i] = new]
      BY <2>4 DEF OpenLost
    <3> HIDE DEF new
    <3> QED
      BY <1>2, <2>1, <2>2, <3>1, <3>2
  <2>5. CASE UpstreamForgets(i)
    <3> DEFINE new == [upSess[i] EXCEPT !.known = FALSE]
    <3>1. /\ new \in SessRec /\ new.st # "none" /\ new.inflight = upSess[i].inflight
          /\ new.stale = upSess[i].stale /\ new.closing = upSess[i].closing
      BY <2>1 DEF SessRec
    <3>2. upSess' = [upSess EXCEPT ![i] = new]
      BY <2>5 DEF UpstreamForgets
    <3> HIDE DEF new
    <3> QED
      BY <1>2, <2>1, <2>2, <3>1, <3>2
  <2> QED
    BY <1>3, <2>3, <2>4, <2>5
<1>4. ASSUME NEW i \in Sid, CloseLands(i) PROVE MbInv'
  <2>1. /\ upSess[i].closing /\ upSess[i].st # "none" /\ upSess' = [upSess EXCEPT ![i] = NoSess]
        /\ UNCHANGED <<mcall, pooled, slotS, slotO, good, rowTok, ran, mbFaults>>
    BY <1>4 DEF CloseLands
  <2>2. NoSess \in SessRec
    BY DEF NoSess, SessRec
  <2>3. upSess' \in [Sid -> SessRec] /\ \A k \in Sid : upSess'[k] = IF k = i THEN NoSess ELSE upSess[k]
    BY <1>1, <2>1, <2>2
  <2>4. {c \in MbCall : mcall[c].sid = i} = {} /\ pooled # i
    BY <1>1, <2>1 DEF SessionsOf, SessionOf
  <2>5. SessionOf(NoSess, i, pooled, {})
    BY <2>4, FS_EmptySet DEF SessionOf, NoSess
  <2>6. \A k \in Sid : SessionOf(upSess'[k], k, pooled, {c \in MbCall : mcall[c].sid = k})
    BY <1>1, <2>3, <2>4, <2>5 DEF SessionsOf
  <2>7. SessionInv'
    BY <2>1, <2>6 DEF SessionInv, SessionsOf
  <2> QED
    BY <1>1, <2>1, <2>3, <2>7, CallsStay
<1>5. CASE IdleRetired
  <2>1. /\ pooled \in Sid /\ upSess' = Retired(upSess, pooled) /\ pooled' = NoSid
        /\ UNCHANGED <<mcall, slotS, slotO, good, rowTok, ran, mbFaults>>
    BY <1>1, <1>5 DEF IdleRetired
  <2>2. upSess[pooled].st # "none"
    BY <1>1, <2>1 DEF SessionsOf, SessionOf
  <2>3. /\ Retired(upSess, pooled) \in [Sid -> SessRec]
        /\ SessionsOf(Retired(upSess, pooled), IF pooled = pooled THEN NoSid ELSE pooled, mcall)
    BY <1>1, <2>1, <2>2, SessionRetired
  <2>4. SessionInv'
    BY <2>1, <2>3 DEF SessionInv
  <2> QED
    BY <1>1, <2>1, <2>3, <2>4, CallsStay
<1>6. CASE TokenExpires
  <2>1. good' \in Nat /\ UNCHANGED <<mcall, upSess, pooled, slotS, slotO, rowTok, ran, mbFaults>>
    BY <1>1, <1>6 DEF TokenExpires
  <2>2. SessionInv'
    BY <1>1, <2>1 DEF SessionInv
  <2> QED
    BY <1>1, <2>1, <2>2, CallsStay
<1> QED
  BY <1>3, <1>4, <1>5, <1>6

\* The slots that c's end frees go to the first who wait for them.
LEMMA HandsOn ==
    ASSUME MbTypes, NEW calls \in [MbCall -> CallRec], NEW c \in MbCall, NEW owner \in BOOLEAN
    PROVE  /\ HandedOn(calls, c, owner) \in [MbCall -> CallRec]
           /\ \A d \in MbCall :
                /\ HandedOn(calls, c, owner)[d].sid = calls[d].sid
                /\ HandedOn(calls, c, owner)[d].sent = calls[d].sent
                /\ HandedOn(calls, c, owner)[d].ans = calls[d].ans
                /\ HandedOn(calls, c, owner)[d].pc =
                     IF owner /\ d \in Heir(slotO) THEN "lease"
                     ELSE IF d \in Heir(slotS[ThreadOf[c]]) THEN "owner" ELSE calls[d].pc
<1> DEFINE h == HandedOn(calls, c, owner)
           lease(d) == [calls[d] EXCEPT !.pc = "lease"]
           own(d) == [calls[d] EXCEPT !.pc = "owner"]
<1>1. ASSUME NEW d \in MbCall
      PROVE  /\ lease(d) \in CallRec /\ lease(d).pc = "lease" /\ lease(d).sid = calls[d].sid
             /\ lease(d).sent = calls[d].sent /\ lease(d).ans = calls[d].ans
             /\ own(d) \in CallRec /\ own(d).pc = "owner" /\ own(d).sid = calls[d].sid
             /\ own(d).sent = calls[d].sent /\ own(d).ans = calls[d].ans
  <2>1. calls[d] \in CallRec
    OBVIOUS
  <2> QED
    BY <2>1 DEF CallRec, CallPc
<1>2. h = [d \in MbCall |->
             IF owner /\ d \in Heir(slotO) THEN lease(d)
             ELSE IF d \in Heir(slotS[ThreadOf[c]]) THEN own(d) ELSE calls[d]]
  BY DEF HandedOn
<1> HIDE DEF h, lease, own
<1>3. \A d \in MbCall : h[d] = IF owner /\ d \in Heir(slotO) THEN lease(d)
                               ELSE IF d \in Heir(slotS[ThreadOf[c]]) THEN own(d) ELSE calls[d]
  BY <1>2
<1>4. h \in [MbCall -> CallRec]
  BY <1>1, <1>2
<1> QED
  BY <1>1, <1>3, <1>4 DEF h

\* A call ends: it leaves its session and gives back both its slots.
LEMMA CallEnds ==
    ASSUME MbInv, NEW c \in MbCall, mcall[c].sid # NoSid, NEW ses \in [Sid -> SessRec],
           pooled' \in Sid \cup {NoSid}, SessionsOf(ses, pooled', mcall),
           NEW out \in {"ok", "reauth", "interrupted", "unavailable"}, Ends(c, out, ses),
           UNCHANGED <<good, rowTok, ran>>, mbFaults' \in Nat
    PROVE  MbInv'
<1> DEFINE t == ThreadOf[c]
           done == [mcall[c] EXCEPT !.pc = "done", !.out = out, !.sid = NoSid]
           calls == [mcall EXCEPT ![c] = done]
<1>1. /\ mcall \in [MbCall -> CallRec] /\ mcall[c] \in CallRec /\ mcall[c].sid \in Sid
      /\ mcall[c].pc \in {"opening", "asked", "refreshing"}
      /\ t \in MbThread /\ slotO \in SlotRec /\ slotS \in [MbThread -> SlotRec] /\ slotS[t] \in SlotRec
      /\ good \in Nat /\ rowTok \in Nat /\ ran \in [MbCall -> Nat]
      /\ \A d \in MbCall : CallShape(d) /\ RunShapeOf(d)
  BY DEF MbInv, MbTypes, CallRec, CallShape, MbThread
<1>2. /\ upSess' = Unleased(ses, mcall[c].sid) /\ mcall' = HandedOn(calls, c, TRUE)
      /\ slotO' = Freed(slotO) /\ slotS' = [slotS EXCEPT ![t] = Freed(slotS[t])]
  BY <1>1 DEF Ends
<1>3. done \in CallRec /\ done.pc = "done" /\ done.sid = NoSid
  BY <1>1 DEF CallRec, CallPc
<1>4. calls \in [MbCall -> CallRec] /\ calls[c] = done /\ \A d \in MbCall : d # c => calls[d] = mcall[d]
  BY <1>1, <1>3
<1> HIDE DEF done, calls, t
<1>5. /\ mcall' \in [MbCall -> CallRec]
      /\ \A d \in MbCall :
           /\ mcall'[d].sid = calls[d].sid /\ mcall'[d].sent = calls[d].sent /\ mcall'[d].ans = calls[d].ans
           /\ mcall'[d].pc = IF d \in Heir(slotO) THEN "lease"
                             ELSE IF d \in Heir(slotS[t]) THEN "owner" ELSE calls[d].pc
  <2>1. /\ HandedOn(calls, c, TRUE) \in [MbCall -> CallRec]
        /\ \A d \in MbCall :
             /\ HandedOn(calls, c, TRUE)[d].sid = calls[d].sid
             /\ HandedOn(calls, c, TRUE)[d].sent = calls[d].sent
             /\ HandedOn(calls, c, TRUE)[d].ans = calls[d].ans
             /\ HandedOn(calls, c, TRUE)[d].pc =
                  IF TRUE /\ d \in Heir(slotO) THEN "lease"
                  ELSE IF d \in Heir(slotS[ThreadOf[c]]) THEN "owner" ELSE calls[d].pc
    BY <1>4, HandsOn DEF MbInv
  <2> QED
    BY <1>2, <2>1 DEF t
<1>6. c \in OwnerHolders /\ c \in ThreadHolders(t)
  BY <1>1 DEF OwnerHolders, ThreadHolders, HoldsOwner, HoldsThread, t
<1>7. /\ Freed(slotO) \in SlotRec /\ Heir(slotO) \subseteq OwnerWaiters
      /\ SlotsOf(Freed(slotO), (OwnerHolders \ {c}) \cup Heir(slotO), OwnerWaiters \ Heir(slotO), OwnerConcurrency)
  BY <1>1, <1>6, HoldersDontWait, SlotFreed DEF MbInv, SlotInv
<1>8. /\ Freed(slotS[t]) \in SlotRec /\ Heir(slotS[t]) \subseteq ThreadWaiters(t)
      /\ SlotsOf(Freed(slotS[t]), (ThreadHolders(t) \ {c}) \cup Heir(slotS[t]),
                 ThreadWaiters(t) \ Heir(slotS[t]), SessionConcurrency)
  <2>1. SlotsOf(slotS[t], ThreadHolders(t), ThreadWaiters(t), SessionConcurrency)
    BY <1>1 DEF MbInv, SlotInv
  <2> QED
    BY <1>1, <1>6, <2>1, HoldersDontWait, SlotFreed DEF MbInv
<1>9. ASSUME NEW d \in MbCall
      PROVE  /\ d = c => mcall'[d].pc = "done" /\ mcall'[d].sid = NoSid
             /\ d \in Heir(slotO) => d # c /\ mcall[d].pc = "waitO" /\ mcall'[d].pc = "lease"
             /\ d \in Heir(slotS[t]) => /\ d # c /\ mcall[d].pc = "waitS" /\ mcall'[d].pc = "owner"
                                        /\ ThreadOf[d] = t
             /\ d # c /\ d \notin Heir(slotO) /\ d \notin Heir(slotS[t]) => mcall'[d].pc = mcall[d].pc
  BY <1>1, <1>3, <1>4, <1>5, <1>7, <1>8 DEF OwnerWaiters, ThreadWaiters, CallAt
<1>10. /\ OwnerHolders' = (OwnerHolders \ {c}) \cup Heir(slotO) /\ OwnerWaiters' = OwnerWaiters \ Heir(slotO)
  <2>1. \A d \in MbCall : d \in OwnerHolders' <=> d \in (OwnerHolders \ {c}) \cup Heir(slotO)
    BY <1>9 DEF OwnerHolders, HoldsOwner
  <2>2. \A d \in MbCall : d \in OwnerWaiters' <=> d \in OwnerWaiters \ Heir(slotO)
    BY <1>1, <1>9 DEF OwnerWaiters, CallAt
  <2> QED
    BY <1>7, <2>1, <2>2 DEF OwnerHolders, OwnerWaiters
<1>11. /\ ThreadHolders(t)' = (ThreadHolders(t) \ {c}) \cup Heir(slotS[t])
       /\ ThreadWaiters(t)' = ThreadWaiters(t) \ Heir(slotS[t])
  <2>1. \A d \in MbCall : d \in ThreadHolders(t)' <=> d \in (ThreadHolders(t) \ {c}) \cup Heir(slotS[t])
    BY <1>9 DEF ThreadHolders, HoldsThread, HoldsOwner, t
  <2>2. \A d \in MbCall : d \in ThreadWaiters(t)' <=> d \in ThreadWaiters(t) \ Heir(slotS[t])
    BY <1>1, <1>9 DEF ThreadWaiters, CallAt, t
  <2> QED
    BY <1>8, <2>1, <2>2 DEF ThreadHolders, ThreadWaiters, t
<1>12. ASSUME NEW u \in MbThread, u # t
       PROVE  ThreadHolders(u)' = ThreadHolders(u) /\ ThreadWaiters(u)' = ThreadWaiters(u)
  <2>1. ThreadOf[c] # u
    BY <1>12 DEF t
  <2>2. \A d \in MbCall : ThreadOf[d] = u => (HoldsThread(d)' <=> HoldsThread(d))
    BY <1>9, <1>12, <2>1 DEF HoldsThread, HoldsOwner
  <2>3. \A d \in MbCall : ThreadOf[d] = u => (CallAt(d, "waitS")' <=> CallAt(d, "waitS"))
    BY <1>9, <1>12, <2>1 DEF CallAt
  <2> QED
    BY <2>2, <2>3 DEF ThreadHolders, ThreadWaiters
<1>13. SlotInv'
  <2>1. ASSUME NEW u \in MbThread
        PROVE  SlotsOf(slotS'[u], ThreadHolders(u)', ThreadWaiters(u)', SessionConcurrency)
    <3>1. CASE u = t
      BY <1>1, <1>2, <1>8, <1>11, <3>1
    <3>2. CASE u # t
      BY <1>1, <1>2, <1>12, <3>2 DEF MbInv, SlotInv
    <3> QED
      BY <3>1, <3>2
  <2> QED
    BY <1>2, <1>7, <1>10, <2>1 DEF SlotInv
<1>14. upSess' \in [Sid -> SessRec] /\ SessionInv'
  <2>1. mcall'[c].sid = NoSid /\ \A d \in MbCall : d # c => mcall'[d].sid = mcall[d].sid
    BY <1>3, <1>4, <1>5
  <2>2. /\ Unleased(ses, mcall[c].sid) \in [Sid -> SessRec]
        /\ SessionsOf(Unleased(ses, mcall[c].sid), pooled', mcall')
    BY <1>1, <2>1, SessionUnleased
  <2> QED
    BY <1>2, <2>2 DEF SessionInv
<1>15. MbTypes'
  BY <1>1, <1>2, <1>5, <1>7, <1>8, <1>14 DEF MbTypes
<1>16. ASSUME NEW d \in MbCall PROVE CallShape(d)' /\ RunShapeOf(d)'
  <2>1. CASE d = c
    BY <1>1, <1>9, <2>1 DEF CallShape, RunShapeOf
  <2>2. CASE d # c
    <3>1. /\ mcall'[d].sid = mcall[d].sid /\ mcall'[d].sent = mcall[d].sent /\ mcall'[d].ans = mcall[d].ans
          /\ \/ mcall'[d].pc = mcall[d].pc
             \/ mcall[d].pc \in {"waitO", "waitS"} /\ mcall'[d].pc \in {"lease", "owner"}
      BY <1>4, <1>5, <1>9, <2>2
    <3> QED
      BY <1>1, <3>1 DEF CallShape, RunShapeOf
  <2> QED
    BY <2>1, <2>2
<1> QED
  BY <1>13, <1>14, <1>15, <1>16 DEF MbInv

\* A step of one call that holds an owner's slot and keeps it.
LEMMA CallMoves ==
    ASSUME MbInv, NEW c \in MbCall, NEW new \in CallRec, mcall' = [mcall EXCEPT ![c] = new],
           HoldsOwner(c), new.pc \in {"lease", "opening", "asked", "refreshing"},
           new.sid # NoSid <=> new.pc \in {"opening", "asked", "refreshing"},
           new.pc = "asked" => new.sent, new.pc = "opening" => ~new.sent,
           ran' \in [MbCall -> Nat], \A d \in MbCall : d # c => ran'[d] = ran[d],
           c \notin Listing => ran'[c] = 0 \/ (ran'[c] = 1 /\ new.pc = "asked" /\ new.ans = "ok"),
           UNCHANGED <<slotO, slotS>>, upSess' \in [Sid -> SessRec], pooled' \in Sid \cup {NoSid},
           SessionInv', good' \in Nat, rowTok' \in Nat, mbFaults' \in Nat
    PROVE  MbInv'
<1>1. mcall' \in [MbCall -> CallRec] /\ SlotInv'
  BY SlotsStay
<1>2. mcall'[c] = new /\ \A d \in MbCall : d # c => mcall'[d] = mcall[d]
  BY DEF MbInv, MbTypes
<1>3. MbTypes'
  BY <1>1 DEF MbInv, MbTypes
<1>4. ASSUME NEW d \in MbCall PROVE CallShape(d)' /\ RunShapeOf(d)'
  <2>1. CASE d = c
    BY <1>2, <2>1 DEF CallShape, RunShapeOf
  <2>2. CASE d # c
    BY <1>2, <2>2 DEF MbInv, CallShape, RunShapeOf
  <2> QED
    BY <2>1, <2>2
<1> QED
  BY <1>1, <1>3, <1>4 DEF MbInv

\* One call that has no session moves from one slot to the next: its sets and
\* shape, for the steps below.
LEMMA WaitMoves ==
    ASSUME MbInv, NEW c \in MbCall, mcall[c].pc \in {"idle", "owner", "waitS"},
           NEW new \in CallRec, mcall' = [mcall EXCEPT ![c] = new],
           new.pc \in {"waitS", "owner", "waitO", "lease", "done"}, new.sid = mcall[c].sid,
           UNCHANGED <<upSess, pooled, good, rowTok, ran>>, mbFaults' \in Nat,
           slotO' \in SlotRec, slotS' \in [MbThread -> SlotRec], SlotInv'
    PROVE  MbInv'
<1>1. /\ mcall \in [MbCall -> CallRec] /\ mcall' \in [MbCall -> CallRec] /\ mcall'[c] = new
      /\ \A d \in MbCall : d # c => mcall'[d] = mcall[d]
  BY DEF MbInv, MbTypes
<1>2. MbTypes'
  BY <1>1 DEF MbInv, MbTypes
<1>3. SessionInv'
  <2>1. \A d \in MbCall : mcall'[d].sid = mcall[d].sid
    BY <1>1
  <2>2. \A i \in Sid : {d \in MbCall : mcall'[d].sid = i} = {d \in MbCall : mcall[d].sid = i}
    BY <2>1
  <2> QED
    BY <2>2 DEF MbInv, SessionInv, SessionsOf
<1>4. ASSUME NEW d \in MbCall PROVE CallShape(d)' /\ RunShapeOf(d)'
  <2>1. CASE d = c
    BY <1>1, <2>1 DEF MbInv, CallShape, RunShapeOf
  <2>2. CASE d # c
    BY <1>1, <2>2 DEF MbInv, CallShape, RunShapeOf
  <2> QED
    BY <2>1, <2>2
<1> QED
  BY <1>2, <1>3, <1>4 DEF MbInv

\* A call asks for its thread's slot.
LEMMA BridgeCallKeeps ==
    ASSUME MbInv, NEW c \in MbCall, BridgeCall(c)
    PROVE  MbInv'
<1> DEFINE t == ThreadOf[c]
           pc == IF Free(slotS[t], SessionConcurrency) THEN "owner" ELSE "waitS"
           new == [mcall[c] EXCEPT !.pc = pc, !.tok = rowTok]
<1>1. /\ mcall \in [MbCall -> CallRec] /\ mcall[c] \in CallRec /\ mcall[c].pc = "idle"
      /\ t \in MbThread /\ slotS \in [MbThread -> SlotRec] /\ slotS[t] \in SlotRec /\ slotO \in SlotRec
      /\ rowTok \in Nat /\ mbFaults \in Nat
  BY DEF MbInv, MbTypes, BridgeCall, CallAt, MbThread
<1>2. /\ slotS' = [slotS EXCEPT ![t] = Taken(slotS[t], c, SessionConcurrency)]
      /\ UNCHANGED <<upSess, pooled, slotO, good, rowTok, ran, mbFaults>>
  BY <1>1 DEF BridgeCall
<1>3. mcall' = [mcall EXCEPT ![c] = new]
  BY <1>1 DEF BridgeCall
<1>4. new \in CallRec /\ new.pc = pc /\ new.sid = mcall[c].sid
  BY <1>1 DEF CallRec, CallPc
<1> HIDE DEF new, t
<1>5. mcall'[c].pc = pc /\ \A d \in MbCall : d # c => mcall'[d] = mcall[d]
  BY <1>1, <1>3, <1>4
<1>6. /\ SlotsOf(slotS[t], ThreadHolders(t), ThreadWaiters(t), SessionConcurrency)
      /\ c \notin ThreadHolders(t) /\ c \notin ThreadWaiters(t)
  BY <1>1 DEF MbInv, SlotInv, ThreadHolders, ThreadWaiters, HoldsThread, HoldsOwner, CallAt
<1>7. /\ Taken(slotS[t], c, SessionConcurrency) \in SlotRec
      /\ pc = "owner" => SlotsOf(Taken(slotS[t], c, SessionConcurrency), ThreadHolders(t) \cup {c},
                                 ThreadWaiters(t), SessionConcurrency)
      /\ pc # "owner" => SlotsOf(Taken(slotS[t], c, SessionConcurrency), ThreadHolders(t),
                                 ThreadWaiters(t) \cup {c}, SessionConcurrency)
  BY <1>1, <1>6, HoldersDontWait, SlotTaken DEF MbInv
<1>8. /\ OwnerHolders' = OwnerHolders /\ OwnerWaiters' = OwnerWaiters
      /\ pc = "owner" => ThreadHolders(t)' = ThreadHolders(t) \cup {c} /\ ThreadWaiters(t)' = ThreadWaiters(t)
      /\ pc # "owner" => ThreadHolders(t)' = ThreadHolders(t) /\ ThreadWaiters(t)' = ThreadWaiters(t) \cup {c}
      /\ \A u : u # t => ThreadHolders(u)' = ThreadHolders(u) /\ ThreadWaiters(u)' = ThreadWaiters(u)
  BY <1>1, <1>5 DEF OwnerHolders, OwnerWaiters, ThreadHolders, ThreadWaiters, HoldsThread, HoldsOwner, CallAt, t
<1>9. slotS' \in [MbThread -> SlotRec] /\ SlotInv'
  <2>1. slotS' \in [MbThread -> SlotRec]
    BY <1>1, <1>2, <1>7
  <2>2. ASSUME NEW u \in MbThread
        PROVE  SlotsOf(slotS'[u], ThreadHolders(u)', ThreadWaiters(u)', SessionConcurrency)
    <3>1. CASE u = t
      BY <1>1, <1>2, <1>7, <1>8, <3>1
    <3>2. CASE u # t
      BY <1>1, <1>2, <1>8, <3>2 DEF MbInv, SlotInv
    <3> QED
      BY <3>1, <3>2
  <2> QED
    BY <1>2, <1>8, <2>1, <2>2 DEF MbInv, SlotInv
<1> QED
  BY <1>1, <1>2, <1>3, <1>4, <1>9, WaitMoves

\* A call with its thread's slot asks for the owner's.
LEMMA OwnerSlotKeeps ==
    ASSUME MbInv, NEW c \in MbCall, OwnerSlot(c)
    PROVE  MbInv'
<1> DEFINE pc == IF Free(slotO, OwnerConcurrency) THEN "lease" ELSE "waitO"
           new == [mcall[c] EXCEPT !.pc = pc]
<1>1. /\ mcall \in [MbCall -> CallRec] /\ mcall[c] \in CallRec /\ mcall[c].pc = "owner"
      /\ slotS \in [MbThread -> SlotRec] /\ slotO \in SlotRec /\ mbFaults \in Nat
  BY DEF MbInv, MbTypes, OwnerSlot, CallAt
<1>2. /\ slotO' = Taken(slotO, c, OwnerConcurrency)
      /\ UNCHANGED <<upSess, pooled, slotS, good, rowTok, ran, mbFaults>>
  BY DEF OwnerSlot
<1>3. mcall' = [mcall EXCEPT ![c] = new]
  BY <1>1 DEF OwnerSlot
<1>4. new \in CallRec /\ new.pc = pc /\ new.sid = mcall[c].sid
  BY <1>1 DEF CallRec, CallPc
<1> HIDE DEF new
<1>5. mcall'[c].pc = pc /\ \A d \in MbCall : d # c => mcall'[d] = mcall[d]
  BY <1>1, <1>3, <1>4
<1>6. /\ SlotsOf(slotO, OwnerHolders, OwnerWaiters, OwnerConcurrency)
      /\ c \notin OwnerHolders /\ c \notin OwnerWaiters
  BY <1>1 DEF MbInv, SlotInv, OwnerHolders, OwnerWaiters, HoldsOwner, CallAt
<1>7. /\ Taken(slotO, c, OwnerConcurrency) \in SlotRec
      /\ pc = "lease" => SlotsOf(Taken(slotO, c, OwnerConcurrency), OwnerHolders \cup {c},
                                 OwnerWaiters, OwnerConcurrency)
      /\ pc # "lease" => SlotsOf(Taken(slotO, c, OwnerConcurrency), OwnerHolders,
                                 OwnerWaiters \cup {c}, OwnerConcurrency)
  BY <1>1, <1>6, HoldersDontWait, SlotTaken DEF MbInv
<1>8. /\ pc = "lease" => OwnerHolders' = OwnerHolders \cup {c} /\ OwnerWaiters' = OwnerWaiters
      /\ pc # "lease" => OwnerHolders' = OwnerHolders /\ OwnerWaiters' = OwnerWaiters \cup {c}
      /\ \A u : ThreadHolders(u)' = ThreadHolders(u) /\ ThreadWaiters(u)' = ThreadWaiters(u)
  BY <1>1, <1>5 DEF OwnerHolders, OwnerWaiters, ThreadHolders, ThreadWaiters, HoldsThread, HoldsOwner, CallAt
<1>9. slotO' \in SlotRec /\ SlotInv'
  BY <1>2, <1>7, <1>8 DEF MbInv, SlotInv
<1> QED
  BY <1>1, <1>2, <1>3, <1>4, <1>9, WaitMoves

\* The wait of a call ends without a slot.
LEMMA GiveUpKeeps ==
    ASSUME MbInv, NEW c \in MbCall, GiveUp(c)
    PROVE  MbInv'
<1> DEFINE t == ThreadOf[c]
           new == [mcall[c] EXCEPT !.pc = "done", !.out = "busy"]
           calls == [mcall EXCEPT ![c] = new]
<1>1. /\ mcall \in [MbCall -> CallRec] /\ mcall[c] \in CallRec
      /\ t \in MbThread /\ slotS \in [MbThread -> SlotRec] /\ slotS[t] \in SlotRec /\ slotO \in SlotRec
      /\ mbFaults \in Nat
  BY DEF MbInv, MbTypes, MbThread
<1>2. mbFaults' \in Nat /\ UNCHANGED <<upSess, pooled, good, rowTok, ran>>
  BY <1>1 DEF GiveUp, MbFault
<1>3. new \in CallRec /\ new.pc = "done" /\ new.sid = mcall[c].sid
  BY <1>1 DEF CallRec, CallPc
<1>4. \/ /\ mcall[c].pc = "waitS" /\ mcall' = calls /\ slotO' = slotO
         /\ slotS' = [slotS EXCEPT ![t] = LeftQueue(slotS[t], c)]
      \/ /\ mcall[c].pc = "waitO" /\ mcall' = HandedOn(calls, c, FALSE) /\ slotO' = LeftQueue(slotO, c)
         /\ slotS' = [slotS EXCEPT ![t] = Freed(slotS[t])]
  BY <1>1 DEF GiveUp, CallAt
<1> HIDE DEF new, t
<1>5. calls \in [MbCall -> CallRec] /\ calls[c] = new /\ \A d \in MbCall : d # c => calls[d] = mcall[d]
  BY <1>1, <1>3
<1>6. /\ SlotsOf(slotO, OwnerHolders, OwnerWaiters, OwnerConcurrency)
      /\ SlotsOf(slotS[t], ThreadHolders(t), ThreadWaiters(t), SessionConcurrency)
  BY <1>1 DEF MbInv, SlotInv
<1>7. CASE mcall[c].pc = "waitS" /\ mcall' = calls /\ slotO' = slotO /\ slotS' = [slotS EXCEPT ![t] = LeftQueue(slotS[t], c)]
  <2>1. c \in ThreadWaiters(t)
    BY <1>7 DEF ThreadWaiters, CallAt, t
  <2>2. /\ LeftQueue(slotS[t], c) \in SlotRec
        /\ SlotsOf(LeftQueue(slotS[t], c), ThreadHolders(t), ThreadWaiters(t) \ {c}, SessionConcurrency)
    BY <1>1, <1>6, <2>1, HoldersDontWait, SlotGivenUp DEF MbInv
  <2>3. mcall'[c].pc = "done" /\ \A d \in MbCall : d # c => mcall'[d] = mcall[d]
    BY <1>3, <1>5, <1>7
  <2>4. /\ OwnerHolders' = OwnerHolders /\ OwnerWaiters' = OwnerWaiters
        /\ ThreadHolders(t)' = ThreadHolders(t) /\ ThreadWaiters(t)' = ThreadWaiters(t) \ {c}
        /\ \A u : u # t => ThreadHolders(u)' = ThreadHolders(u) /\ ThreadWaiters(u)' = ThreadWaiters(u)
    BY <1>7, <2>3 DEF OwnerHolders, OwnerWaiters, ThreadHolders, ThreadWaiters, HoldsThread, HoldsOwner, CallAt, t
  <2>5. slotS' \in [MbThread -> SlotRec]
    BY <1>1, <1>7, <2>2
  <2>6. ASSUME NEW u \in MbThread
        PROVE  SlotsOf(slotS'[u], ThreadHolders(u)', ThreadWaiters(u)', SessionConcurrency)
    <3>1. CASE u = t
      BY <1>1, <1>7, <2>2, <2>4, <3>1
    <3>2. CASE u # t
      BY <1>1, <1>7, <2>4, <3>2 DEF MbInv, SlotInv
    <3> QED
      BY <3>1, <3>2
  <2>7. SlotInv' /\ slotO' \in SlotRec
    BY <1>1, <1>6, <1>7, <2>4, <2>6 DEF SlotInv
  <2> QED
    BY <1>2, <1>3, <1>7, <2>5, <2>7, WaitMoves
<1>8. CASE mcall[c].pc = "waitO" /\ mcall' = HandedOn(calls, c, FALSE) /\ slotO' = LeftQueue(slotO, c) /\ slotS' = [slotS EXCEPT ![t] = Freed(slotS[t])]
  <2>1. c \in OwnerWaiters /\ c \in ThreadHolders(t)
    BY <1>8 DEF OwnerWaiters, ThreadHolders, HoldsThread, CallAt, t
  <2>2. /\ LeftQueue(slotO, c) \in SlotRec
        /\ SlotsOf(LeftQueue(slotO, c), OwnerHolders, OwnerWaiters \ {c}, OwnerConcurrency)
    BY <1>1, <1>6, <2>1, HoldersDontWait, SlotGivenUp DEF MbInv
  <2>3. /\ Freed(slotS[t]) \in SlotRec /\ Heir(slotS[t]) \subseteq ThreadWaiters(t)
        /\ SlotsOf(Freed(slotS[t]), (ThreadHolders(t) \ {c}) \cup Heir(slotS[t]),
                   ThreadWaiters(t) \ Heir(slotS[t]), SessionConcurrency)
    BY <1>1, <1>6, <2>1, HoldersDontWait, SlotFreed DEF MbInv
  <2>4. /\ HandedOn(calls, c, FALSE) \in [MbCall -> CallRec]
        /\ \A d \in MbCall :
             /\ HandedOn(calls, c, FALSE)[d].sid = calls[d].sid
             /\ HandedOn(calls, c, FALSE)[d].sent = calls[d].sent
             /\ HandedOn(calls, c, FALSE)[d].ans = calls[d].ans
             /\ HandedOn(calls, c, FALSE)[d].pc =
                  IF FALSE /\ d \in Heir(slotO) THEN "lease"
                  ELSE IF d \in Heir(slotS[ThreadOf[c]]) THEN "owner" ELSE calls[d].pc
    <3>1. MbTypes
      BY DEF MbInv
    <3> HIDE DEF calls
    <3> QED
      BY <1>5, <3>1, HandsOn
  <2> HIDE DEF calls
  <2>5. ASSUME NEW d \in MbCall
        PROVE  /\ mcall'[d].sid = mcall[d].sid
               /\ d # c => mcall'[d].sent = mcall[d].sent /\ mcall'[d].ans = mcall[d].ans
               /\ d = c => mcall'[d].pc = "done"
               /\ d \in Heir(slotS[t]) => /\ d # c /\ mcall[d].pc = "waitS" /\ mcall'[d].pc = "owner"
                                          /\ ThreadOf[d] = t
               /\ d # c /\ d \notin Heir(slotS[t]) => mcall'[d].pc = mcall[d].pc
    BY <1>3, <1>5, <1>8, <2>3, <2>4, ZenonT(60) DEF ThreadWaiters, CallAt, t
  <2>6. OwnerHolders' = OwnerHolders /\ OwnerWaiters' = OwnerWaiters \ {c}
    <3>1. \A d \in MbCall : HoldsOwner(d)' <=> HoldsOwner(d)
      BY <1>8, <2>5 DEF HoldsOwner
    <3>2. \A d \in MbCall : CallAt(d, "waitO")' <=> CallAt(d, "waitO") /\ d # c
      BY <1>8, <2>5 DEF CallAt
    <3> QED
      BY <3>1, <3>2 DEF OwnerHolders, OwnerWaiters
  <2>7. /\ ThreadHolders(t)' = (ThreadHolders(t) \ {c}) \cup Heir(slotS[t])
        /\ ThreadWaiters(t)' = ThreadWaiters(t) \ Heir(slotS[t])
    <3>1. \A d \in MbCall : d \in ThreadHolders(t)' <=> d \in (ThreadHolders(t) \ {c}) \cup Heir(slotS[t])
      BY <1>8, <2>5 DEF ThreadHolders, HoldsThread, HoldsOwner, t
    <3>2. \A d \in MbCall : d \in ThreadWaiters(t)' <=> d \in ThreadWaiters(t) \ Heir(slotS[t])
      BY <1>8, <2>5 DEF ThreadWaiters, CallAt, t
    <3> QED
      BY <2>3, <3>1, <3>2 DEF ThreadHolders, ThreadWaiters, t
  <2>8. ASSUME NEW u \in MbThread, u # t
        PROVE  ThreadHolders(u)' = ThreadHolders(u) /\ ThreadWaiters(u)' = ThreadWaiters(u)
    <3>1. ThreadOf[c] # u
      BY <2>8 DEF t
    <3>2. \A d \in MbCall : ThreadOf[d] = u => mcall'[d].pc = mcall[d].pc
      BY <2>5, <2>8, <3>1
    <3> QED
      BY <3>2 DEF ThreadHolders, ThreadWaiters, HoldsThread, HoldsOwner, CallAt
  <2>9. slotS' \in [MbThread -> SlotRec]
    BY <1>1, <1>8, <2>3
  <2>10. ASSUME NEW u \in MbThread
         PROVE  SlotsOf(slotS'[u], ThreadHolders(u)', ThreadWaiters(u)', SessionConcurrency)
    <3>1. CASE u = t
      BY <1>1, <1>8, <2>3, <2>7, <3>1
    <3>2. CASE u # t
      BY <1>1, <1>8, <2>8, <3>2 DEF MbInv, SlotInv
    <3> QED
      BY <3>1, <3>2
  <2>11. SlotInv'
    BY <1>8, <2>2, <2>6, <2>10 DEF SlotInv
  <2>12. SessionInv'
    <3>1. \A i \in Sid : {d \in MbCall : mcall'[d].sid = i} = {d \in MbCall : mcall[d].sid = i}
      BY <2>5
    <3> QED
      BY <1>2, <3>1 DEF MbInv, SessionInv, SessionsOf
  <2>13. MbTypes'
    BY <1>2, <1>8, <2>2, <2>4, <2>9 DEF MbInv, MbTypes
  <2>14. ASSUME NEW d \in MbCall PROVE CallShape(d)' /\ RunShapeOf(d)'
    <3>1. CASE d = c
      BY <1>2, <1>8, <2>5, <3>1 DEF MbInv, CallShape, RunShapeOf
    <3>2. CASE d # c
      <4>1. /\ mcall'[d].sid = mcall[d].sid /\ mcall'[d].sent = mcall[d].sent /\ mcall'[d].ans = mcall[d].ans
            /\ \/ mcall'[d].pc = mcall[d].pc
               \/ mcall[d].pc = "waitS" /\ mcall'[d].pc = "owner"
        BY <2>5, <3>2
      <4> QED
        BY <1>2, <4>1 DEF MbInv, CallShape, RunShapeOf
    <3> QED
      BY <3>1, <3>2
  <2> QED
    BY <2>11, <2>12, <2>13, <2>14 DEF MbInv
<1> QED
  BY <1>4, <1>7, <1>8

\* A call leases the pool's session, or a new one.
LEMMA LeaseKeeps ==
    ASSUME MbInv, NEW c \in MbCall, Lease(c)
    PROVE  MbInv'
<1> DEFINE U(k) == {d \in MbCall : mcall[d].sid = k}
<1>1. /\ mcall \in [MbCall -> CallRec] /\ mcall[c] \in CallRec /\ mcall[c].pc = "lease" /\ mcall[c].sid = NoSid
      /\ upSess \in [Sid -> SessRec] /\ pooled \in Sid \cup {NoSid} /\ mcall[c].tok \in Nat
      /\ good \in Nat /\ rowTok \in Nat /\ ran \in [MbCall -> Nat] /\ mbFaults \in Nat
  BY DEF MbInv, MbTypes, Lease, CallAt, CallShape, CallRec
<1>2. \A k \in Sid : SessionOf(upSess[k], k, pooled, U(k)) /\ IsFiniteSet(U(k)) /\ k # NoSid /\ c \notin U(k)
  BY <1>1, BridgeAssumption, FS_Subset DEF MbInv, SessionInv, SessionsOf, Sid, NoSid
<1>3. PICK i : /\ i \in (IF pooled # NoSid THEN {pooled} ELSE IF FreeSids = {} THEN {} ELSE {FreeSid})
               /\ upSess' = IF pooled = i
                            THEN [upSess EXCEPT ![i].hdr = mcall[c].tok, ![i].inflight = @ + 1]
                            ELSE [upSess EXCEPT ![i] = [NoSess EXCEPT !.st = "opening", !.hdr = mcall[c].tok,
                                                                      !.inflight = 1]]
               /\ pooled' = i
               /\ mcall' = [mcall EXCEPT ![c].pc = "opening", ![c].sid = i, ![c].sent = FALSE]
  BY DEF Lease
<1>4. UNCHANGED <<slotS, slotO, good, rowTok, ran, mbFaults>>
  BY DEF Lease
<1>5. i \in Sid /\ (pooled = i \/ (pooled = NoSid /\ upSess[i].st = "none"))
  <2>1. CASE pooled # NoSid
    BY <1>1, <1>3, <2>1
  <2>2. CASE pooled = NoSid
    <3>1. FreeSids # {} /\ i = FreeSid
      BY <1>3, <2>2
    <3>2. FreeSid \in FreeSids
      BY <3>1 DEF FreeSid
    <3> QED
      BY <2>2, <3>1, <3>2 DEF FreeSids
  <2> QED
    BY <2>1, <2>2
<1> DEFINE new == [mcall[c] EXCEPT !.pc = "opening", !.sid = i, !.sent = FALSE]
<1>6. new \in CallRec /\ new.pc = "opening" /\ new.sid = i /\ ~new.sent
  BY <1>1, <1>5 DEF CallRec, CallPc
<1>7. mcall' = [mcall EXCEPT ![c] = new]
  BY <1>1, <1>3
<1> HIDE DEF new
<1>8. mcall'[c].sid = i /\ \A d \in MbCall : d # c => mcall'[d] = mcall[d]
  BY <1>1, <1>6, <1>7
<1>9. \A k \in Sid : {d \in MbCall : mcall'[d].sid = k} = IF k = i THEN U(k) \cup {c} ELSE U(k)
  BY <1>1, <1>2, <1>8
<1> HIDE DEF U
<1>10. PICK s \in SessRec :
         /\ upSess' = [upSess EXCEPT ![i] = s]
         /\ s.st # "none" /\ ~s.stale /\ ~s.closing /\ s.inflight = Cardinality(U(i) \cup {c})
  <2>0. Cardinality(U(i) \cup {c}) = Cardinality(U(i)) + 1 /\ Cardinality(U(i)) = upSess[i].inflight
    BY <1>2, <1>5, FS_AddElement DEF SessionOf
  <2>1. CASE pooled = i
    <3> DEFINE s == [upSess[i] EXCEPT !.hdr = mcall[c].tok, !.inflight = @ + 1]
    <3>1. upSess[i] \in SessRec /\ upSess[i].st # "none" /\ ~upSess[i].stale /\ ~upSess[i].closing
      BY <1>1, <1>2, <1>5, <2>1 DEF SessionOf, SessRec
    <3>2. upSess[i].inflight + 1 \in Nat
      BY <3>1 DEF SessRec
    <3>3. /\ s \in SessRec /\ s.st # "none" /\ ~s.stale /\ ~s.closing /\ s.inflight = upSess[i].inflight + 1
      BY <1>1, <3>1, <3>2 DEF SessRec
    <3>4. upSess' = [upSess EXCEPT ![i] = s]
      BY <1>1, <1>3, <1>5, <2>1
    <3> QED
      BY <2>0, <3>3, <3>4
  <2>2. CASE pooled # i
    <3> DEFINE s == [NoSess EXCEPT !.st = "opening", !.hdr = mcall[c].tok, !.inflight = 1]
    <3>1. s \in SessRec /\ s.st = "opening" /\ ~s.stale /\ ~s.closing /\ s.inflight = 1
      BY <1>1 DEF SessRec, NoSess
    <3>2. upSess' = [upSess EXCEPT ![i] = s]
      BY <1>3, <2>2
    <3>3. U(i) = {} /\ Cardinality(U(i)) = 0
      BY <1>2, <1>5, <2>2, FS_EmptySet DEF SessionOf
    <3>4. Cardinality(U(i) \cup {c}) = 1
      BY <2>0, <3>3
    <3> HIDE DEF s
    <3> QED
      BY <3>1, <3>2, <3>4
  <2> QED
    BY <2>1, <2>2
<1>11. upSess' \in [Sid -> SessRec] /\ \A k \in Sid : upSess'[k] = IF k = i THEN s ELSE upSess[k]
  BY <1>1, <1>5, <1>10
<1>12. SessionOf(s, i, i, U(i) \cup {c})
  BY <1>10 DEF SessionOf
<1>13. ASSUME NEW k \in Sid, k # i PROVE SessionOf(upSess[k], k, i, U(k))
  BY <1>2, <1>5, <1>13 DEF SessionOf
<1>14. SessionInv'
  BY <1>3, <1>5, <1>9, <1>11, <1>12, <1>13 DEF SessionInv, SessionsOf
<1>15. c \in Listing \/ ran[c] = 0
  BY <1>1 DEF MbInv, RunShapeOf
<1>16. HoldsOwner(c) /\ i # NoSid
  BY <1>1, <1>2, <1>5 DEF HoldsOwner
<1> QED
  BY <1>1, <1>3, <1>4, <1>5, <1>6, <1>7, <1>11, <1>14, <1>15, <1>16, CallMoves

\* The request leaves, and the upstream runs it.
LEMMA RequestKeeps ==
    ASSUME MbInv, NEW c \in MbCall, SendRequest(c) \/ UpstreamRuns(c)
    PROVE  MbInv'
<1>1. /\ mcall \in [MbCall -> CallRec] /\ mcall[c] \in CallRec /\ CallShape(c) /\ RunShapeOf(c)
      /\ upSess \in [Sid -> SessRec] /\ pooled \in Sid \cup {NoSid}
      /\ good \in Nat /\ rowTok \in Nat /\ ran \in [MbCall -> Nat] /\ mbFaults \in Nat
  BY DEF MbInv, MbTypes
<1>2. ASSUME NEW new \in CallRec, mcall' = [mcall EXCEPT ![c] = new], new.sid = mcall[c].sid
      PROVE  SessionInv' <=> SessionsOf(upSess', pooled', mcall)
  <2>1. \A d \in MbCall : mcall'[d].sid = mcall[d].sid
    BY <1>1, <1>2
  <2>2. \A i \in Sid : {d \in MbCall : mcall'[d].sid = i} = {d \in MbCall : mcall[d].sid = i}
    BY <2>1
  <2> QED
    BY <2>2 DEF SessionInv, SessionsOf
<1>3. CASE SendRequest(c)
  <2> DEFINE ans == IF upSess[mcall[c].sid].hdr < good THEN "401"
                    ELSE IF upSess[mcall[c].sid].known THEN "run" ELSE "expired"
             new == [mcall[c] EXCEPT !.pc = "asked", !.sent = TRUE, !.ans = ans]
  <2>1. mcall[c].pc = "opening" /\ UNCHANGED <<upSess, pooled, slotS, slotO, good, rowTok, ran, mbFaults>>
    BY <1>3 DEF SendRequest, CallAt
  <2>2. mcall' = [mcall EXCEPT ![c] = new]
    BY <1>1, <1>3 DEF SendRequest
  <2>3. new \in CallRec /\ new.pc = "asked" /\ new.sent /\ new.sid = mcall[c].sid
    BY <1>1 DEF CallRec, CallPc
  <2> HIDE DEF new
  <2>4. HoldsOwner(c) /\ new.sid # NoSid /\ (c \in Listing \/ ran'[c] = 0)
    BY <1>1, <2>1, <2>3 DEF HoldsOwner, CallShape, RunShapeOf
  <2>5. SessionInv'
    BY <1>2, <2>1, <2>2, <2>3 DEF MbInv, SessionInv
  <2> QED
    BY <1>1, <2>1, <2>2, <2>3, <2>4, <2>5, CallMoves
<1>4. CASE UpstreamRuns(c)
  <2> DEFINE new == [mcall[c] EXCEPT !.ans = "ok"]
  <2>1. /\ mcall[c].pc = "asked" /\ mcall[c].ans = "run" /\ ran' = [ran EXCEPT ![c] = @ + 1]
        /\ UNCHANGED <<upSess, pooled, slotS, slotO, good, rowTok, mbFaults>>
    BY <1>4 DEF UpstreamRuns, CallAt
  <2>2. mcall' = [mcall EXCEPT ![c] = new]
    BY <1>1, <1>4 DEF UpstreamRuns
  <2>3. new \in CallRec /\ new.pc = "asked" /\ new.ans = "ok" /\ new.sent /\ new.sid = mcall[c].sid
    BY <1>1, <2>1 DEF CallRec, CallPc, CallShape
  <2> HIDE DEF new
  <2>4. HoldsOwner(c) /\ new.sid # NoSid /\ (c \in Listing \/ ran[c] = 0)
    BY <1>1, <2>1, <2>3 DEF HoldsOwner, CallShape, RunShapeOf
  <2>5. ran[c] + 1 \in Nat
    BY <1>1
  <2>6. ran' \in [MbCall -> Nat] /\ ran'[c] = ran[c] + 1 /\ \A d \in MbCall : d # c => ran'[d] = ran[d]
    BY <1>1, <2>1, <2>5
  <2>7. c \notin Listing => ran'[c] = 1
    BY <2>4, <2>6
  <2>8. SessionInv'
    BY <1>2, <2>1, <2>2, <2>3 DEF MbInv, SessionInv
  <2> QED
    BY <1>1, <2>1, <2>2, <2>3, <2>4, <2>6, <2>7, <2>8, CallMoves
<1> QED
  BY <1>3, <1>4

\* The catch of run: the call stays to refresh its token, ends, or begins again
\* on another session; one that may have run ends.
LEMMA CaughtKeeps ==
    ASSUME MbInv, NEW c \in MbCall, NEW e, Caught(c, e),
           mcall[c].pc \in {"opening", "asked"},
           mcall[c].pc = "asked" /\ mcall[c].ans = "ok" => e \in {"lost", "deadline"},
           UNCHANGED <<good, rowTok, ran>>, mbFaults' \in Nat
    PROVE  MbInv'
<1> DEFINE i == mcall[c].sid
           again == ~mcall[c].reconnected /\ e \in {"expired", "lost"} /\ ~MayHaveRun(c, e)
           retires == (~mcall[c].sent /\ e # "deadline") \/ e \in {"401", "expired"}
                          \/ MayHaveRun(c, e) \/ again
           ses == IF retires THEN Retired(upSess, i) ELSE upSess
<1>1. /\ mcall \in [MbCall -> CallRec] /\ mcall[c] \in CallRec /\ CallShape(c) /\ RunShapeOf(c)
      /\ i \in Sid /\ i # NoSid /\ upSess \in [Sid -> SessRec] /\ pooled \in Sid \cup {NoSid}
      /\ SessionsOf(upSess, pooled, mcall)
      /\ good \in Nat /\ rowTok \in Nat /\ ran \in [MbCall -> Nat] /\ HoldsOwner(c)
  BY DEF MbInv, MbTypes, CallShape, CallRec, SessionInv, HoldsOwner
<1>2. upSess[i].st # "none"
  <2>1. SessionOf(upSess[i], i, pooled, {d \in MbCall : mcall[d].sid = i})
    BY <1>1 DEF SessionsOf
  <2>2. c \in {d \in MbCall : mcall[d].sid = i}
    OBVIOUS
  <2> QED
    BY <2>1, <2>2 DEF SessionOf
<1>3. pooled' = IF retires THEN OutOfPool(i) ELSE pooled
  BY DEF Caught
<1>4. ses \in [Sid -> SessRec] /\ SessionsOf(ses, pooled', mcall) /\ pooled' \in Sid \cup {NoSid}
  <2>1. /\ Retired(upSess, i) \in [Sid -> SessRec]
        /\ SessionsOf(Retired(upSess, i), IF pooled = i THEN NoSid ELSE pooled, mcall)
    BY <1>1, <1>2, SessionRetired
  <2> QED
    BY <1>1, <1>3, <2>1 DEF OutOfPool
<1>5. \/ /\ e = "401" /\ mcall' = [mcall EXCEPT ![c].pc = "refreshing"] /\ upSess' = ses
         /\ UNCHANGED <<slotS, slotO>>
      \/ \E out \in {"ok", "reauth", "interrupted", "unavailable"} : Ends(c, out, ses)
      \/ again /\ Again(c, ses)
  BY DEF Caught
<1> HIDE DEF ses, i
<1>6. CASE e = "401" /\ mcall' = [mcall EXCEPT ![c].pc = "refreshing"] /\ upSess' = ses /\ UNCHANGED <<slotS, slotO>>
  <2> DEFINE new == [mcall[c] EXCEPT !.pc = "refreshing"]
  <2>1. mcall' = [mcall EXCEPT ![c] = new]
    BY <1>1, <1>6
  <2>2. new \in CallRec /\ new.pc = "refreshing" /\ new.sid = i
    BY <1>1 DEF CallRec, CallPc, i
  <2> HIDE DEF new
  <2>3. \A d \in MbCall : mcall'[d].sid = mcall[d].sid
    BY <1>1, <2>1, <2>2 DEF i
  <2>4. SessionInv'
    <3>1. \A k \in Sid : {d \in MbCall : mcall'[d].sid = k} = {d \in MbCall : mcall[d].sid = k}
      BY <2>3
    <3> QED
      BY <1>4, <1>6, <3>1 DEF SessionInv, SessionsOf
  <2>5. c \in Listing \/ ran'[c] = 0
    BY <1>1, <1>6 DEF RunShapeOf
  <2> QED
    BY <1>1, <1>4, <1>6, <2>1, <2>2, <2>4, <2>5, CallMoves
<1>7. ASSUME NEW out \in {"ok", "reauth", "interrupted", "unavailable"}, Ends(c, out, ses) PROVE MbInv'
  BY <1>1, <1>4, <1>7, CallEnds DEF i
<1>8. CASE again /\ Again(c, ses)
  <2> DEFINE new == [mcall[c] EXCEPT !.pc = "lease", !.sid = NoSid, !.reconnected = TRUE]
  <2>1. upSess' = Unleased(ses, i) /\ UNCHANGED <<slotS, slotO>>
    BY <1>8 DEF Again, i
  <2>2. mcall' = [mcall EXCEPT ![c] = new]
    BY <1>1, <1>8 DEF Again
  <2>3. new \in CallRec /\ new.pc = "lease" /\ new.sid = NoSid
    BY <1>1 DEF CallRec, CallPc
  <2> HIDE DEF new
  <2>4. mcall'[c].sid = NoSid /\ \A d \in MbCall : d # c => mcall'[d].sid = mcall[d].sid
    BY <1>1, <2>2, <2>3
  <2>5. Unleased(ses, i) \in [Sid -> SessRec] /\ SessionsOf(Unleased(ses, i), pooled', mcall')
    BY <1>1, <1>4, <2>4, SessionUnleased DEF i
  <2>6. c \in Listing \/ ran'[c] = 0
    <3>1. c \in Listing \/ ~(mcall[c].pc = "asked" /\ mcall[c].ans = "ok")
      BY <1>1, <1>8 DEF MayHaveRun, CallShape
    <3> QED
      BY <1>1, <3>1 DEF RunShapeOf
  <2>7. SessionInv' /\ upSess' \in [Sid -> SessRec]
    BY <2>1, <2>5 DEF SessionInv
  <2> QED
    BY <1>1, <1>4, <2>1, <2>2, <2>3, <2>6, <2>7, CallMoves
<1> QED
  BY <1>5, <1>6, <1>7, <1>8

\* The answer, the loss of it, the deadline, and a session that did not open.
LEMMA AnswerKeeps ==
    ASSUME MbInv, NEW c \in MbCall,
           OpenFailed(c) \/ AnswerLands(c) \/ AnswerLost(c) \/ DeadlinePasses(c)
    PROVE  MbInv'
<1>1. /\ mbFaults \in Nat /\ CallShape(c) /\ upSess \in [Sid -> SessRec] /\ pooled \in Sid \cup {NoSid}
      /\ SessionsOf(upSess, pooled, mcall)
  BY DEF MbInv, MbTypes, SessionInv
<1>2. mbFaults' \in Nat /\ UNCHANGED <<good, rowTok, ran>>
  BY <1>1 DEF OpenFailed, AnswerLands, AnswerLost, DeadlinePasses, MbFault
<1>3. mcall[c].pc \in {"opening", "asked"} /\ mcall[c].sid # NoSid
  BY <1>1 DEF OpenFailed, AnswerLands, AnswerLost, DeadlinePasses, CallAt, CallShape
<1>4. CASE OpenFailed(c)
  <2>1. PICK e : Caught(c, e) /\ mcall[c].pc = "opening"
    BY <1>4 DEF OpenFailed, CallAt
  <2> QED
    BY <1>2, <1>3, <2>1, CaughtKeeps
<1>5. CASE AnswerLands(c)
  <2>1. CASE mcall[c].ans = "ok" /\ Ends(c, "ok", upSess) /\ UNCHANGED pooled
    BY <1>1, <1>2, <1>3, <2>1, CallEnds
  <2>2. CASE mcall[c].ans \in {"401", "expired"} /\ Caught(c, mcall[c].ans)
    BY <1>2, <1>3, <2>2, CaughtKeeps
  <2> QED
    BY <1>5, <2>1, <2>2 DEF AnswerLands
<1>6. CASE AnswerLost(c)
  BY <1>2, <1>3, <1>6, CaughtKeeps DEF AnswerLost
<1>7. CASE DeadlinePasses(c)
  BY <1>2, <1>3, <1>7, CaughtKeeps DEF DeadlinePasses
<1> QED
  BY <1>4, <1>5, <1>6, <1>7

\* The refresh after a 401 ends: the call leaves its session, and begins again
\* or is over.
LEMMA RefreshKeeps ==
    ASSUME MbInv, NEW c \in MbCall, RefreshAnswers(c) \/ RefreshRefused(c)
    PROVE  MbInv'
<1>1. /\ mcall \in [MbCall -> CallRec] /\ mcall[c] \in CallRec /\ mcall[c].pc = "refreshing"
      /\ mcall[c].sid \in Sid /\ mcall[c].sid # NoSid /\ RunShapeOf(c) /\ HoldsOwner(c)
      /\ upSess \in [Sid -> SessRec] /\ pooled \in Sid \cup {NoSid} /\ SessionsOf(upSess, pooled, mcall)
      /\ good \in Nat /\ rowTok \in Nat /\ ran \in [MbCall -> Nat] /\ mbFaults \in Nat
  BY DEF MbInv, MbTypes, SessionInv, CallShape, CallRec, RefreshAnswers, RefreshRefused, CallAt, HoldsOwner
<1>2. CASE RefreshAnswers(c)
  <2>1. PICK tok \in {good} \cup ({rowTok} \ {mcall[c].tok}) :
          /\ rowTok' = tok
          /\ mcall' = [mcall EXCEPT ![c].pc = "lease", ![c].sid = NoSid, ![c].refreshed = tok, ![c].tok = tok]
    BY <1>2 DEF RefreshAnswers
  <2> DEFINE new == [mcall[c] EXCEPT !.pc = "lease", !.sid = NoSid, !.refreshed = tok, !.tok = tok]
  <2>2. tok \in Nat
    BY <1>1
  <2>3. mcall' = [mcall EXCEPT ![c] = new]
    BY <1>1, <2>1
  <2>4. new \in CallRec /\ new.pc = "lease" /\ new.sid = NoSid
    BY <1>1, <2>2 DEF CallRec, CallPc
  <2> HIDE DEF new
  <2>5. /\ upSess' = Unleased(upSess, mcall[c].sid)
        /\ UNCHANGED <<pooled, slotS, slotO, good, ran, mbFaults>>
    BY <1>2 DEF RefreshAnswers
  <2>6. mcall'[c].sid = NoSid /\ \A d \in MbCall : d # c => mcall'[d].sid = mcall[d].sid
    BY <1>1, <2>3, <2>4
  <2>7. /\ Unleased(upSess, mcall[c].sid) \in [Sid -> SessRec]
        /\ SessionsOf(Unleased(upSess, mcall[c].sid), pooled, mcall')
    BY <1>1, <2>6, SessionUnleased
  <2>8. SessionInv' /\ upSess' \in [Sid -> SessRec]
    BY <2>5, <2>7 DEF SessionInv
  <2>9. c \in Listing \/ ran'[c] = 0
    BY <1>1, <2>5 DEF RunShapeOf
  <2> QED
    BY <1>1, <2>1, <2>2, <2>3, <2>4, <2>5, <2>8, <2>9, CallMoves
<1>3. CASE RefreshRefused(c)
  <2>1. Ends(c, "reauth", upSess) /\ UNCHANGED <<pooled, good, rowTok, ran>> /\ mbFaults' \in Nat
    BY <1>1, <1>3 DEF RefreshRefused, MbFault
  <2> QED
    BY <1>1, <2>1, CallEnds
<1> QED
  BY <1>2, <1>3

\* The invariant holds in every state.
LEMMA MbInvHolds == MbSpec => []MbInv
<1>1. MbInv /\ [MbNext]_mbVars => MbInv'
  <2> SUFFICES ASSUME MbInv, [MbNext]_mbVars PROVE MbInv'
    OBVIOUS
  <2>1. ASSUME NEW c \in MbCall,
               \/ BridgeCall(c) \/ OwnerSlot(c) \/ GiveUp(c) \/ Lease(c)
               \/ SendRequest(c) \/ OpenFailed(c) \/ UpstreamRuns(c) \/ AnswerLands(c) \/ AnswerLost(c)
               \/ DeadlinePasses(c) \/ RefreshAnswers(c) \/ RefreshRefused(c)
        PROVE  MbInv'
    BY <2>1, BridgeCallKeeps, OwnerSlotKeeps, GiveUpKeeps, LeaseKeeps, RequestKeeps, AnswerKeeps, RefreshKeeps
  <2>2. CASE \/ \E i \in Sid : OpenLands(i) \/ OpenLost(i) \/ CloseLands(i) \/ UpstreamForgets(i)
             \/ IdleRetired \/ TokenExpires
    BY <2>2, SessionStepKeeps
  <2>3. CASE UNCHANGED mbVars
    <3>1. UNCHANGED <<mcall, upSess, pooled, slotS, slotO, good, rowTok, ran, mbFaults>>
      BY <2>3 DEF mbVars
    <3>2. MbTypes /\ SessionsOf(upSess, pooled, mcall)
      BY DEF MbInv, SessionInv
    <3>3. SessionInv' /\ upSess' \in [Sid -> SessRec] /\ pooled' \in Sid \cup {NoSid}
      BY <3>1, <3>2 DEF SessionInv, MbTypes
    <3> QED
      BY <3>1, <3>2, <3>3, CallsStay DEF MbTypes
  <2> QED
    BY <2>1, <2>2, <2>3 DEF MbNext
<1> QED
  BY <1>1, MbInvInit, PTL DEF MbSpec

\* mcp-bridge.ts:726-727, :788-791: for any number of calls, lost answers,
\* deadlines and retries, the upstream runs a tools/call at most once.
THEOREM CallRunsOnce == MbSpec => []AtMostOnce
<1>1. MbInv => AtMostOnce
  <2> SUFFICES ASSUME MbInv, NEW c \in MbCall \ Listing PROVE ran[c] <= 1
    BY DEF AtMostOnce
  <2>1. ran[c] = 0 \/ ran[c] = 1
    BY DEF MbInv, RunShapeOf
  <2> QED
    BY <2>1
<1> QED
  BY <1>1, MbInvHolds, PTL

\* mcp-bridge.ts:387-390, :613-614, :649-651, :847-849: for any limits and any
\* number of calls, threads and sessions, the counters of slots and of sessions
\* in use are those of the calls that hold them, a call waits only for full
\* slots, and a retired session closes exactly when nobody uses it.
THEOREM BridgeCountsShared == MbSpec => []SharedIsCounted
<1>1. MbInv => SlotsAreKept
  <2> SUFFICES ASSUME MbInv PROVE SlotsAreKept
    OBVIOUS
  <2>1. SlotsOf(slotO, OwnerHolders, OwnerWaiters, OwnerConcurrency)
    BY DEF MbInv, SlotInv
  <2>2. slotO.n = Cardinality({c \in MbCall : HoldsOwner(c)}) /\ slotO.n <= OwnerConcurrency
    BY <2>1 DEF SlotsOf, OwnerHolders
  <2>3. ASSUME NEW c \in MbCall, CallAt(c, "waitO") PROVE slotO.n = OwnerConcurrency
    <3>1. OwnerWaiters # {}
      BY <2>3 DEF OwnerWaiters
    <3> QED
      BY <2>1, <3>1 DEF SlotsOf
  <2>4. ASSUME NEW t \in MbThread
        PROVE  /\ slotS[t].n = Cardinality({c \in MbCall : ThreadOf[c] = t /\ HoldsThread(c)})
               /\ slotS[t].n <= SessionConcurrency
               /\ \A c \in MbCall : ThreadOf[c] = t /\ CallAt(c, "waitS") => slotS[t].n = SessionConcurrency
    <3>1. SlotsOf(slotS[t], ThreadHolders(t), ThreadWaiters(t), SessionConcurrency)
      BY DEF MbInv, SlotInv
    <3>2. \A c \in MbCall : ThreadOf[c] = t /\ CallAt(c, "waitS") => ThreadWaiters(t) # {}
      BY DEF ThreadWaiters
    <3> QED
      BY <3>1, <3>2 DEF SlotsOf, ThreadHolders
  <2> QED
    BY <2>2, <2>3, <2>4 DEF SlotsAreKept
<1>2. MbInv => ClosedWhenUnused
  <2> SUFFICES ASSUME MbInv, NEW i \in Sid
               PROVE  /\ upSess[i].stale => (upSess[i].closing <=> Using(i) = {})
                      /\ upSess[i].st # "none" => (upSess[i].stale <=> pooled # i)
    BY DEF ClosedWhenUnused
  <2>1. SessionOf(upSess[i], i, pooled, Using(i))
    BY DEF MbInv, SessionInv, SessionsOf, Using
  <2>2. upSess[i].closing \in BOOLEAN /\ upSess[i].stale \in BOOLEAN
    BY DEF MbInv, MbTypes, SessRec
  <2> QED
    BY <2>1, <2>2 DEF SessionOf
<1>3. MbInv => SharedIsCounted
  BY <1>1, <1>2 DEF SharedIsCounted
<1> QED
  BY <1>3, MbInvHolds, PTL

-----------------------------------------------------------------------------
(***************************************************************************)
(* ThreadEngagement: a thread's messages reach the agent once each and in  *)
(* order, every mention does, and a lone reply leaves the thread engaged   *)
(***************************************************************************)
HandlerRec == [pc : {"new", "prior", "engage", "findAny", "claim", "ensure", "slot", "reads",
                     "done", "failed", "dropped"},
               before : {"yes", "no", Undef}, suppress : BOOLEAN]
RouteRec == [before : {"yes", "no", Undef}, passed : BOOLEAN, spoke : BOOLEAN, suppress : BOOLEAN]
PendRec == [ts : EvTs, suppress : BOOLEAN, lone : BOOLEAN]
AgentTurn == [on : BOOLEAN, of : EvTs \cup {0}, passed : BOOLEAN, spoke : BOOLEAN, alone : BOOLEAN,
              rec : BOOLEAN]
EndRec == [spoke : BOOLEAN, alone : BOOLEAN]
TailsRec == [sent : Seq(EvTs), took : Seq(EvTs), ended : SUBSET EndRec]

EngTypes ==
    /\ sessRow \in {"none", "in", "out"} /\ seen \subseteq EvTs
    /\ deliv \in [Delivery -> HandlerRec] /\ slots \in Seq(Delivery)
    /\ route \in RouteRec /\ pend \in Seq(PendRec) /\ aturn \in AgentTurn
    /\ giveBack \in Nat /\ tails \in TailsRec /\ readFaults \in Nat

\* The handler that claimed its event's timestamp.
Won(d) == deliv[d].pc \in {"ensure", "slot", "reads", "done", "failed"}

\* One handler wins a timestamp, and only a copy of a claimed mention is dropped.
Winners ==
    /\ \A d, e \in Delivery : Won(d) /\ Won(e) /\ d[1] = e[1] => d = e
    /\ \A d \in Delivery : Won(d) => d[1] \in seen
    /\ \A ts \in seen : \E d \in Delivery : Won(d) /\ d[1] = ts
    /\ \A d \in Delivery : d[1] \in Mentions /\ AtPc(d, "dropped") => d[1] \in seen

\* Which events a handler's place and its engagedBefore say it is of.
Kinds ==
    \A d \in Delivery :
        /\ deliv[d].before # Undef \/ deliv[d].pc \in {"prior", "engage"} => d[1] \in Mentions
        /\ AtPc(d, "findAny") => d[1] \in Colleagues

\* The slots are those of the handlers at their reads; what took one, and what
\* was dispatched, did so once.
Reading == {d \in Delivery : AtPc(d, "reads")}

SlotsHeld ==
    /\ QueueOf(slots, Reading)
    /\ \A k \in 1..Len(tails.took) :
          \E d \in Delivery : deliv[d].pc \in {"reads", "done", "failed"} /\ d[1] = tails.took[k]
    /\ \A j, k \in 1..Len(tails.took) : tails.took[j] = tails.took[k] => j = k
    /\ \A k \in 1..Len(tails.sent) : \E d \in Delivery : AtPc(d, "done") /\ d[1] = tails.sent[k]
    /\ \A j, k \in 1..Len(tails.sent) : tails.sent[j] = tails.sent[k] => j = k

\* Timestamp a took its slot before b.
TookBefore(took, a, b) == \A k, l \in 1..Len(took) : took[k] = a /\ took[l] = b => k < l

InSlotOrder ==
    /\ \A i, j \in 1..Len(tails.sent) : i < j => TookBefore(tails.took, tails.sent[i], tails.sent[j])
    /\ \A i \in 1..Len(tails.sent), m \in 1..Len(slots) :
          TookBefore(tails.took, tails.sent[i], slots[m][1])
    /\ \A m, n \in 1..Len(slots) : m < n => TookBefore(tails.took, slots[m][1], slots[n][1])

\* Nothing of a mention is about before one is dispatched; a message dispatched
\* alone is, and stays, the only one until its turn is over.
MentionDone == \E d \in Delivery : d[1] \in Mentions /\ AtPc(d, "done")

MentionAbout ==
    \/ route.before # Undef \/ giveBack > 0 \/ tails.ended # {}
    \/ aturn.on /\ aturn.of \in Mentions
    \/ \E i \in 1..Len(pend) : pend[i].ts \in Mentions

Alone ==
    /\ MentionAbout => MentionDone
    /\ \A i \in 1..Len(pend) : pend[i].lone => i = 1 /\ ~aturn.on /\ giveBack = 0
    /\ aturn.on /\ aturn.alone => giveBack = 0 /\ (aturn.spoke => route.spoke)

\* With one mention and no colleague's, the row stays engaged from the claim to
\* the end of a lone turn, and after it.
OnlyMention == NoColleague /\ OneMention
LoneReply == [spoke |-> TRUE, alone |-> TRUE] \in tails.ended

StaysEngaged ==
    OnlyMention =>
        /\ \A d \in Delivery : d[1] \in Mentions =>
              /\ AtPc(d, "ensure") \/ (AtPc(d, "claim") /\ d[1] \notin seen) => sessRow # "out"
              /\ AtPc(d, "slot") \/ AtPc(d, "reads") => sessRow = "in"
        /\ \A i \in 1..Len(pend) : pend[i].lone /\ pend[i].ts \in Mentions => sessRow = "in"
        /\ aturn.on /\ aturn.alone /\ aturn.of \in Mentions => sessRow = "in"
        /\ tails.ended # {} => route.before = Undef
        /\ LoneReply => sessRow = "in" /\ giveBack = 0

EngInv ==
    EngTypes /\ Winners /\ Kinds /\ SlotsHeld /\ InSlotOrder /\ Alone /\ StaysEngaged

LEMMA EngInvInit == EngInit => EngInv
<1> SUFFICES ASSUME EngInit PROVE EngInv
  OBVIOUS
<1>1. \A d \in Delivery : deliv[d] = [pc |-> "new", before |-> Undef, suppress |-> FALSE]
  BY DEF EngInit
<1>2. /\ slots = <<>> /\ pend = <<>> /\ tails.sent = <<>> /\ tails.took = <<>> /\ tails.ended = {}
      /\ seen = {} /\ giveBack = 0 /\ route.before = Undef /\ ~aturn.on
  BY DEF EngInit, NoTurn
<1>3. EngTypes
  <2>1. [pc |-> "new", before |-> Undef, suppress |-> FALSE] \in HandlerRec
    BY DEF HandlerRec
  <2>2. deliv \in [Delivery -> HandlerRec]
    BY <2>1 DEF EngInit
  <2>3. route \in RouteRec /\ aturn \in AgentTurn
    BY DEF EngInit, RouteRec, AgentTurn, NoTurn
  <2>4. tails \in TailsRec /\ slots \in Seq(Delivery) /\ pend \in Seq(PendRec)
    BY DEF EngInit, TailsRec
  <2> QED
    BY <2>2, <2>3, <2>4, EngagementAssumption DEF EngInit, EngTypes
<1>4. Winners /\ Kinds
  BY <1>1, <1>2 DEF Winners, Kinds, Won, AtPc
<1>5. Len(slots) = 0 /\ Len(pend) = 0 /\ Len(tails.sent) = 0 /\ Len(tails.took) = 0 /\ 1..0 = {}
  BY <1>2
<1>6. SlotsHeld /\ InSlotOrder
  <2>1. Reading = {}
    BY <1>1 DEF Reading, AtPc
  <2> QED
    BY <1>5, <2>1 DEF SlotsHeld, InSlotOrder, QueueOf
<1>7. Alone /\ StaysEngaged
  BY <1>1, <1>2, <1>5 DEF Alone, MentionAbout, StaysEngaged, LoneReply, AtPc
<1> QED
  BY <1>3, <1>4, <1>6, <1>7 DEF EngInv

\* A step of one handler.
LEMMA OneHandlerMoves ==
    ASSUME EngTypes, NEW d \in Delivery, NEW new \in HandlerRec, deliv' = [deliv EXCEPT ![d] = new]
    PROVE  /\ deliv' \in [Delivery -> HandlerRec] /\ deliv'[d] = new
           /\ \A e \in Delivery : e # d => deliv'[e] = deliv[e]
           /\ new.pc # "new" => (OnlyMention' => OnlyMention)
<1>1. /\ deliv' \in [Delivery -> HandlerRec] /\ deliv'[d] = new
      /\ \A e \in Delivery : e # d => deliv'[e] = deliv[e]
  BY DEF EngTypes
<1>2. ASSUME new.pc # "new", OnlyMention' PROVE OnlyMention
  <2>1. NoColleague
    BY <1>1, <1>2 DEF OnlyMention, NoColleague, AtPc
  <2>2. PICK m \in Mentions : \A e \in Delivery : e[1] \in Mentions \ {m} => deliv'[e].pc = "new"
    BY <1>2 DEF OnlyMention, OneMention, AtPc
  <2>3. \A e \in Delivery : e[1] \in Mentions \ {m} => deliv[e].pc = "new"
    BY <1>1, <1>2, <2>2
  <2> QED
    BY <2>1, <2>3 DEF OnlyMention, OneMention, AtPc
<1> QED
  BY <1>1, <1>2

\* The mentions at work under OnlyMention are copies of one event.
LEMMA OneTimestamp ==
    ASSUME OnlyMention, NEW d \in Delivery, NEW e \in Delivery, d[1] \in Mentions, e[1] \in Mentions,
           ~AtPc(d, "new"), ~AtPc(e, "new")
    PROVE  d[1] = e[1]
BY DEF OnlyMention, OneMention

\* A step that takes and frees no slot and dispatches nothing.
LEMMA SlotsUntouched ==
    ASSUME EngInv, slots' = slots, tails'.sent = tails.sent, tails'.took = tails.took,
           \A e \in Delivery : \A pc \in {"reads", "done", "failed"} : deliv'[e].pc = pc <=> deliv[e].pc = pc
    PROVE  SlotsHeld' /\ InSlotOrder' /\ (MentionDone' <=> MentionDone)
<1>1. Reading' = Reading
  BY DEF Reading, AtPc
<1>2. SlotsHeld /\ InSlotOrder
  BY DEF EngInv
<1>3. QueueOf(slots', Reading')
  BY <1>1, <1>2 DEF SlotsHeld
<1>4. SlotsHeld'
  <2>1. \A k \in 1..Len(tails.took) :
           \E d \in Delivery : deliv'[d].pc \in {"reads", "done", "failed"} /\ d[1] = tails.took[k]
    BY <1>2 DEF SlotsHeld
  <2>2. \A k \in 1..Len(tails.sent) : \E d \in Delivery : deliv'[d].pc = "done" /\ d[1] = tails.sent[k]
    BY <1>2 DEF SlotsHeld, AtPc
  <2>3. /\ \A j, k \in 1..Len(tails.took) : tails.took[j] = tails.took[k] => j = k
        /\ \A j, k \in 1..Len(tails.sent) : tails.sent[j] = tails.sent[k] => j = k
    BY <1>2 DEF SlotsHeld
  <2> QED
    BY <1>3, <2>1, <2>2, <2>3 DEF SlotsHeld, AtPc
<1>5. InSlotOrder'
  BY <1>2 DEF InSlotOrder
<1>6. MentionDone' <=> MentionDone
  BY DEF MentionDone, AtPc
<1> QED
  BY <1>4, <1>5, <1>6

\* A handler's step before the claim or at the session's row.
LEMMA HandlerKeeps ==
    ASSUME EngInv, NEW d \in Delivery, NEW new \in HandlerRec, deliv' = [deliv EXCEPT ![d] = new],
           deliv[d].pc \notin {"reads", "done", "failed"},
           new.pc \notin {"new", "reads", "done", "failed"},
           UNCHANGED <<slots, route, pend, aturn, giveBack, tails, readFaults>>,
           sessRow' \in {"none", "in", "out"}, seen' \subseteq EvTs, seen \subseteq seen',
           Winners', Kinds',
           OnlyMention' => sessRow' = sessRow \/ sessRow' = "in",
           OnlyMention' /\ d[1] \in Mentions =>
               /\ new.pc = "ensure" \/ (new.pc = "claim" /\ d[1] \notin seen') => sessRow' # "out"
               /\ new.pc = "slot" => sessRow' = "in"
    PROVE  EngInv'
<1>1. /\ deliv' \in [Delivery -> HandlerRec] /\ deliv'[d] = new
      /\ \A e \in Delivery : e # d => deliv'[e] = deliv[e]
      /\ OnlyMention' => OnlyMention
  BY OneHandlerMoves DEF EngInv
<1>2. EngTypes'
  BY <1>1 DEF EngInv, EngTypes
<1>3. \A e \in Delivery : \A pc \in {"reads", "done", "failed"} : deliv'[e].pc = pc <=> deliv[e].pc = pc
  BY <1>1
<1>4. SlotsHeld' /\ InSlotOrder' /\ (MentionDone' <=> MentionDone)
  BY <1>3, SlotsUntouched
<1>5. Alone'
  BY <1>4 DEF EngInv, Alone, MentionAbout
<1>6. StaysEngaged'
  <2> SUFFICES ASSUME OnlyMention' PROVE StaysEngaged'
    BY DEF StaysEngaged
  <2>1. OnlyMention /\ (sessRow' = sessRow \/ sessRow' = "in")
    BY <1>1
  <2>2. ASSUME NEW e \in Delivery, e[1] \in Mentions
        PROVE  /\ AtPc(e, "ensure")' \/ (AtPc(e, "claim")' /\ e[1] \notin seen') => sessRow' # "out"
               /\ AtPc(e, "slot")' \/ AtPc(e, "reads")' => sessRow' = "in"
    <3>1. CASE e = d
      BY <1>1, <2>2, <3>1 DEF AtPc
    <3>2. CASE e # d
      BY <1>1, <2>1, <2>2, <3>2 DEF EngInv, StaysEngaged, AtPc
    <3> QED
      BY <3>1, <3>2
  <2>3. /\ \A i \in 1..Len(pend) : pend[i].lone /\ pend[i].ts \in Mentions => sessRow' = "in"
        /\ aturn.on /\ aturn.alone /\ aturn.of \in Mentions => sessRow' = "in"
        /\ tails.ended # {} => route.before = Undef
        /\ LoneReply => sessRow' = "in" /\ giveBack = 0
    BY <2>1 DEF EngInv, StaysEngaged
  <2> QED
    BY <2>2, <2>3 DEF StaysEngaged, LoneReply
<1> QED
  BY <1>2, <1>4, <1>5, <1>6 DEF EngInv

\* The router's steps, a copy that lost the claim, and the session's row.
LEMMA RouterKeeps ==
    ASSUME EngInv, NEW d \in Delivery,
           \/ SeenRead(d) \/ PriorRead(d) \/ EngageWrite(d) \/ DisengageThread(d) \/ RecordFor(d)
           \/ PlainRead(d) \/ (Claim(d) /\ ~Wins(d)) \/ EnsureSession(d)
    PROVE  EngInv'
<1> USE EngagementAssumption
<1>1. /\ deliv \in [Delivery -> HandlerRec] /\ deliv[d] \in HandlerRec /\ seen \subseteq EvTs
      /\ sessRow \in {"none", "in", "out"}
  BY DEF EngInv, EngTypes
<1>2. UNCHANGED <<seen, slots, route, pend, aturn, giveBack, tails, readFaults>>
  BY DEF SeenRead, PriorRead, EngageWrite, DisengageThread, RecordFor, PlainRead, Claim, Wins, EnsureSession
<1>3. ASSUME NEW new \in HandlerRec, deliv' = [deliv EXCEPT ![d] = new],
             deliv[d].pc \in {"new", "prior", "engage", "findAny", "claim"},
             new.pc \in {"prior", "engage", "findAny", "claim", "dropped"},
             new.before # Undef \/ new.pc \in {"prior", "engage"} => d[1] \in Mentions,
             new.pc = "findAny" => d[1] \in Colleagues,
             d[1] \in Mentions /\ new.pc = "dropped" => d[1] \in seen
      PROVE  Winners' /\ Kinds'
  <2>1. deliv'[d] = new /\ \A e \in Delivery : e # d => deliv'[e] = deliv[e]
    BY <1>1, <1>3
  <2>2. \A e \in Delivery : Won(e)' <=> Won(e)
    BY <1>3, <2>1 DEF Won
  <2>3. Winners'
    BY <1>2, <1>3, <2>1, <2>2 DEF EngInv, Winners, AtPc
  <2>4. Kinds'
    BY <1>3, <2>1 DEF EngInv, Kinds, AtPc
  <2> QED
    BY <2>3, <2>4
<1>4. CASE SeenRead(d)
  <2> DEFINE new == [deliv[d] EXCEPT !.pc = IF d[1] \in seen THEN "claim" ELSE "prior"]
  <2>1. d[1] \in Mentions /\ deliv[d].pc = "new" /\ deliv' = [deliv EXCEPT ![d] = new] /\ sessRow' = sessRow
    BY <1>1, <1>4 DEF SeenRead, AtPc, Steps
  <2>2. /\ new \in HandlerRec /\ new.pc \in {"claim", "prior"} /\ (new.pc = "claim" => d[1] \in seen)
        /\ new.before = deliv[d].before
    BY <1>1 DEF HandlerRec
  <2> HIDE DEF new
  <2>3. Winners' /\ Kinds'
    BY <1>3, <2>1, <2>2
  <2> QED
    BY <1>1, <1>2, <2>1, <2>2, <2>3, HandlerKeeps
<1>5. CASE PriorRead(d)
  <2> DEFINE new == [deliv[d] EXCEPT !.pc = "engage", !.before = IF sessRow = "in" THEN "yes" ELSE "no"]
  <2>1. deliv[d].pc = "prior" /\ deliv' = [deliv EXCEPT ![d] = new] /\ sessRow' = sessRow
    BY <1>1, <1>5 DEF PriorRead, AtPc
  <2>2. new \in HandlerRec /\ new.pc = "engage" /\ d[1] \in Mentions
    BY <1>1, <2>1 DEF HandlerRec, EngInv, Kinds
  <2> HIDE DEF new
  <2>3. Winners' /\ Kinds'
    BY <1>3, <2>1, <2>2
  <2> QED
    BY <1>1, <1>2, <2>1, <2>2, <2>3, HandlerKeeps
<1>6. CASE EngageWrite(d)
  <2> DEFINE new == [deliv[d] EXCEPT !.pc = "claim"]
  <2>1. /\ deliv[d].pc = "engage" /\ deliv' = [deliv EXCEPT ![d] = new]
        /\ sessRow' = IF sessRow = "none" THEN "none" ELSE "in"
    BY <1>1, <1>6 DEF EngageWrite, AtPc, Steps
  <2>2. new \in HandlerRec /\ new.pc = "claim" /\ d[1] \in Mentions
    BY <1>1, <2>1 DEF HandlerRec, EngInv, Kinds
  <2> HIDE DEF new
  <2>3. Winners' /\ Kinds'
    BY <1>3, <2>1, <2>2
  <2> QED
    BY <1>1, <1>2, <2>1, <2>2, <2>3, HandlerKeeps
<1>7. CASE DisengageThread(d)
  <2> DEFINE new == [deliv[d] EXCEPT !.pc = "findAny"]
  <2>1. /\ d[1] \in Colleagues /\ deliv[d].pc = "new" /\ deliv' = [deliv EXCEPT ![d] = new]
        /\ sessRow' \in {"none", "out"}
    BY <1>1, <1>7 DEF DisengageThread, AtPc, Steps
  <2>2. /\ new \in HandlerRec /\ new.pc = "findAny" /\ new.before = deliv[d].before
    BY <1>1 DEF HandlerRec
  <2> HIDE DEF new
  <2>3. d[1] \notin Mentions /\ new.before = Undef
    BY <2>1, <2>2 DEF EngInv, Kinds
  <2>4. Winners' /\ Kinds'
    BY <1>3, <2>1, <2>2, <2>3
  <2>5. ~NoColleague'
    BY <1>1, <2>1, <2>2 DEF NoColleague, AtPc
  <2> QED
    BY <1>1, <1>2, <2>1, <2>2, <2>4, <2>5, HandlerKeeps DEF OnlyMention
<1>8. CASE RecordFor(d) \/ PlainRead(d)
  <2>1. d[1] \notin Mentions /\ deliv[d].pc \in {"new", "findAny"} /\ deliv[d].before = Undef /\ sessRow' = sessRow
    BY <1>8 DEF RecordFor, PlainRead, AtPc, EngInv, Kinds
  <2>2. PICK pc \in {"dropped", "claim"}, suppress \in BOOLEAN :
          deliv' = [deliv EXCEPT ![d] = [deliv[d] EXCEPT !.pc = pc, !.suppress = suppress]]
    <3>1. deliv[d] = [deliv[d] EXCEPT !.suppress = deliv[d].suppress] /\ deliv[d].suppress \in BOOLEAN
      BY <1>1 DEF HandlerRec
    <3>2. CASE Drops(d)
      <4>1. deliv' = [deliv EXCEPT ![d] = [deliv[d] EXCEPT !.pc = "dropped", !.suppress = deliv[d].suppress]]
        BY <1>1, <3>2 DEF Drops, Steps, HandlerRec
      <4> QED
        BY <3>1, <4>1
    <3>3. ASSUME NEW suppress \in BOOLEAN, Handled(d, suppress)
          PROVE  deliv' = [deliv EXCEPT ![d] = [deliv[d] EXCEPT !.pc = "claim", !.suppress = suppress]]
      BY <1>1, <3>3 DEF Handled
    <3>4. Drops(d) \/ \E suppress \in BOOLEAN : Handled(d, suppress)
      BY <1>8 DEF RecordFor, PlainRead
    <3> QED
      BY <3>2, <3>3, <3>4
  <2> DEFINE new == [deliv[d] EXCEPT !.pc = pc, !.suppress = suppress]
  <2>3. new \in HandlerRec /\ new.pc = pc /\ new.before = Undef
    BY <1>1, <2>1 DEF HandlerRec
  <2> HIDE DEF new
  <2>4. Winners' /\ Kinds'
    BY <1>3, <2>1, <2>2, <2>3 DEF new
  <2>5. deliv' = [deliv EXCEPT ![d] = new]
    BY <2>2 DEF new
  <2> QED
    BY <1>1, <1>2, <2>1, <2>3, <2>4, <2>5, HandlerKeeps
<1>9. CASE Claim(d) /\ ~Wins(d)
  <2> DEFINE new == [deliv[d] EXCEPT !.pc = "dropped"]
  <2>1. deliv[d].pc = "claim" /\ deliv' = [deliv EXCEPT ![d] = new] /\ sessRow' = sessRow /\ d[1] \in seen
    BY <1>1, <1>9 DEF Claim, AtPc, Steps, Drops, Wins
  <2>2. new \in HandlerRec /\ new.pc = "dropped" /\ new.before = deliv[d].before
    BY <1>1 DEF HandlerRec
  <2> HIDE DEF new
  <2>3. new.before # Undef => d[1] \in Mentions
    BY <2>2 DEF EngInv, Kinds
  <2>4. Winners' /\ Kinds'
    BY <1>3, <2>1, <2>2, <2>3
  <2> QED
    BY <1>1, <1>2, <2>1, <2>2, <2>4, HandlerKeeps
<1>10. CASE EnsureSession(d)
  <2> DEFINE new == [deliv[d] EXCEPT !.pc = "slot"]
  <2>1. /\ deliv[d].pc = "ensure" /\ deliv' = [deliv EXCEPT ![d] = new]
        /\ sessRow' = IF sessRow = "none" THEN "in" ELSE sessRow
    BY <1>1, <1>10 DEF EnsureSession, AtPc, Steps
  <2>2. new \in HandlerRec /\ new.pc = "slot" /\ new.before = deliv[d].before
    BY <1>1 DEF HandlerRec
  <2> HIDE DEF new
  <2>3. /\ deliv'[d] = new /\ \A e \in Delivery : e # d => deliv'[e] = deliv[e]
        /\ OnlyMention' => OnlyMention
    BY <2>1, <2>2, OneHandlerMoves DEF EngInv
  <2>4. \A e \in Delivery : Won(e)' <=> Won(e)
    BY <2>1, <2>2, <2>3 DEF Won
  <2>5. Winners'
    BY <1>2, <2>2, <2>3, <2>4 DEF EngInv, Winners, AtPc
  <2>6. Kinds'
    BY <2>2, <2>3 DEF EngInv, Kinds, AtPc
  <2>7. OnlyMention' /\ d[1] \in Mentions => sessRow' = "in"
    BY <1>1, <2>1, <2>3 DEF EngInv, StaysEngaged, AtPc
  <2> QED
    BY <1>1, <1>2, <2>1, <2>2, <2>5, <2>6, <2>7, HandlerKeeps
<1> QED
  BY <1>4, <1>5, <1>6, <1>7, <1>8, <1>9, <1>10

\* A handler is of an event, and every mention has its copies.
LEMMA HandlersOfEvents ==
    /\ \A d \in Delivery : d[1] \in EvTs
    /\ \A d \in Delivery : d[1] \in Mentions => \E k \in MentionCopies : d = <<d[1], k>>
    /\ \A m \in Mentions, k \in MentionCopies : <<m, k>> \in Delivery /\ <<m, k>>[1] = m
BY EngagementAssumption DEF Delivery, EvTs

\* The first caller wins the claim.
LEMMA ClaimWinKeeps ==
    ASSUME EngInv, NEW d \in Delivery, Claim(d), Wins(d)
    PROVE  EngInv'
<1> DEFINE new == [deliv[d] EXCEPT !.pc = "ensure"]
<1>1. /\ deliv \in [Delivery -> HandlerRec] /\ deliv[d] \in HandlerRec /\ deliv[d].pc = "claim"
      /\ seen \subseteq EvTs /\ sessRow \in {"none", "in", "out"} /\ d[1] \in EvTs
  BY HandlersOfEvents DEF EngInv, EngTypes, Claim, AtPc
<1>2. /\ deliv' = [deliv EXCEPT ![d] = new] /\ seen' = seen \cup {d[1]} /\ d[1] \notin seen
      /\ UNCHANGED <<sessRow, slots, route, pend, aturn, giveBack, tails, readFaults>>
  BY <1>1 DEF Claim, Wins, Steps
<1>3. new \in HandlerRec /\ new.pc = "ensure" /\ new.before = deliv[d].before
  BY <1>1 DEF HandlerRec
<1> HIDE DEF new
<1>4. /\ deliv'[d] = new /\ \A e \in Delivery : e # d => deliv'[e] = deliv[e]
      /\ OnlyMention' => OnlyMention
  BY <1>2, <1>3, OneHandlerMoves DEF EngInv
<1>5. /\ Won(d)' /\ ~Won(d) /\ \A e \in Delivery : e # d => (Won(e)' <=> Won(e))
      /\ \A e \in Delivery : Won(e) => e[1] # d[1]
  BY <1>1, <1>2, <1>3, <1>4 DEF EngInv, Winners, Won
<1>6. Winners'
  <2>1. \A e, f \in Delivery : Won(e)' /\ Won(f)' /\ e[1] = f[1] => e = f
    BY <1>5 DEF EngInv, Winners
  <2>2. \A e \in Delivery : Won(e)' => e[1] \in seen'
    BY <1>2, <1>5 DEF EngInv, Winners
  <2>3. \A ts \in seen' : \E e \in Delivery : Won(e)' /\ e[1] = ts
    BY <1>2, <1>5 DEF EngInv, Winners
  <2>4. \A e \in Delivery : e[1] \in Mentions /\ AtPc(e, "dropped")' => e[1] \in seen'
    BY <1>2, <1>3, <1>4 DEF EngInv, Winners, AtPc
  <2> QED
    BY <2>1, <2>2, <2>3, <2>4 DEF Winners
<1>7. Kinds'
  BY <1>3, <1>4 DEF EngInv, Kinds, AtPc
<1>8. OnlyMention' /\ d[1] \in Mentions => sessRow' # "out"
  BY <1>1, <1>2, <1>4 DEF EngInv, StaysEngaged, AtPc
<1>9. seen' \subseteq EvTs /\ seen \subseteq seen'
  BY <1>1, <1>2
<1> QED
  BY <1>1, <1>2, <1>3, <1>6, <1>7, <1>8, <1>9, HandlerKeeps

\* A step of a winner that stays one: its event is still claimed once.
LEMMA WinnerMoves ==
    ASSUME EngInv, NEW d \in Delivery, NEW new \in HandlerRec, deliv' = [deliv EXCEPT ![d] = new],
           Won(d), new.pc \in {"slot", "reads", "done", "failed"}, new.before = deliv[d].before, seen' = seen
    PROVE  /\ Winners' /\ Kinds' /\ deliv'[d] = new /\ deliv' \in [Delivery -> HandlerRec]
           /\ \A e \in Delivery : e # d => deliv'[e] = deliv[e] /\ ~(Won(e) /\ e[1] = d[1])
           /\ OnlyMention' => OnlyMention
<1>1. /\ deliv'[d] = new /\ deliv' \in [Delivery -> HandlerRec]
      /\ \A e \in Delivery : e # d => deliv'[e] = deliv[e]
      /\ OnlyMention' => OnlyMention
  BY OneHandlerMoves DEF EngInv
<1>2. \A e \in Delivery : Won(e)' <=> Won(e)
  BY <1>1 DEF Won
<1>3. Winners'
  BY <1>1, <1>2 DEF EngInv, Winners, AtPc
<1>4. Kinds'
  BY <1>1 DEF EngInv, Kinds, AtPc
<1>5. \A e \in Delivery : e # d => ~(Won(e) /\ e[1] = d[1])
  BY DEF EngInv, Winners
<1> QED
  BY <1>1, <1>3, <1>4, <1>5

\* A winner takes its slot, after every other.
LEMMA TakeSlotKeeps ==
    ASSUME EngInv, NEW d \in Delivery, TakeDispatchSlot(d)
    PROVE  EngInv'
<1> DEFINE new == [deliv[d] EXCEPT !.pc = "reads"]
           took == tails.took
           n == Len(took)
<1>1. /\ deliv[d] \in HandlerRec /\ deliv[d].pc = "slot" /\ deliv \in [Delivery -> HandlerRec] /\ Won(d)
      /\ slots \in Seq(Delivery) /\ tails \in TailsRec /\ took \in Seq(EvTs) /\ n \in Nat /\ d[1] \in EvTs
  BY HandlersOfEvents DEF EngInv, EngTypes, TakeDispatchSlot, AtPc, TailsRec, Won
<1>2. /\ deliv' = [deliv EXCEPT ![d] = new] /\ slots' = Append(slots, d)
      /\ tails' = [tails EXCEPT !.took = Append(took, d[1])]
      /\ UNCHANGED <<sessRow, seen, route, pend, aturn, giveBack, readFaults>>
  BY <1>1 DEF TakeDispatchSlot, Steps
<1>3. new \in HandlerRec /\ new.pc = "reads" /\ new.before = deliv[d].before
  BY <1>1 DEF HandlerRec
<1> HIDE DEF new
<1>4. /\ Winners' /\ Kinds' /\ deliv'[d] = new /\ deliv' \in [Delivery -> HandlerRec]
      /\ \A e \in Delivery : e # d => deliv'[e] = deliv[e] /\ ~(Won(e) /\ e[1] = d[1])
      /\ OnlyMention' => OnlyMention
  BY <1>1, <1>2, <1>3, WinnerMoves
<1>5. /\ tails' \in TailsRec /\ tails'.sent = tails.sent /\ tails'.ended = tails.ended
      /\ tails'.took = Append(took, d[1])
  <2> DEFINE app == Append(took, d[1])
  <2>1. app \in Seq(EvTs)
    BY <1>1
  <2>2. tails' = [tails EXCEPT !.took = app]
    BY <1>2
  <2> HIDE DEF app
  <2>3. tails' \in TailsRec /\ tails'.sent = tails.sent /\ tails'.ended = tails.ended /\ tails'.took = app
    BY <1>1, <2>1, <2>2 DEF TailsRec
  <2> QED
    BY <2>3 DEF app
<1>6. EngTypes'
  BY <1>1, <1>2, <1>4, <1>5 DEF EngInv, EngTypes
<1>7. /\ \A k \in 1..n : took[k] # d[1]
      /\ \A i \in 1..Len(tails.sent) : tails.sent[i] # d[1]
      /\ \A m \in 1..Len(slots) : slots[m] \in Reading /\ slots[m][1] # d[1]
  <2>1. \A e \in Delivery : deliv[e].pc \in {"reads", "done", "failed"} => e[1] # d[1]
    BY <1>1, <1>4 DEF Won
  <2> QED
    BY <2>1 DEF EngInv, SlotsHeld, QueueOf, Reading, AtPc
<1>8. /\ Len(tails'.took) = n + 1 /\ tails'.took[n + 1] = d[1]
      /\ \A k \in 1..n : tails'.took[k] = took[k]
      /\ \A k \in 1..(n + 1) : k \in 1..n \/ k = n + 1
  BY <1>1, <1>5
<1>9. /\ Len(slots') = Len(slots) + 1 /\ slots'[Len(slots) + 1] = d
      /\ \A m \in 1..Len(slots) : slots'[m] = slots[m]
      /\ \A m \in 1..(Len(slots) + 1) : m \in 1..Len(slots) \/ m = Len(slots) + 1
      /\ Len(slots) \in Nat
  BY <1>1, <1>2
<1>10. SlotsHeld'
  <2>1. Reading' = Reading \cup {d} /\ d \notin Reading
    BY <1>1, <1>3, <1>4 DEF Reading, AtPc
  <2>2. QueueOf(slots', Reading')
    BY <1>1, <1>2, <2>1, QueueJoined DEF EngInv, SlotsHeld
  <2>3. ASSUME NEW k \in 1..Len(tails'.took)
        PROVE  \E e \in Delivery : deliv'[e].pc \in {"reads", "done", "failed"} /\ e[1] = tails'.took[k]
    <3>1. CASE k = n + 1
      BY <1>3, <1>4, <1>8, <3>1
    <3>2. CASE k \in 1..n
      <4>1. PICK e \in Delivery : deliv[e].pc \in {"reads", "done", "failed"} /\ e[1] = took[k]
        BY <3>2 DEF EngInv, SlotsHeld
      <4>2. e # d
        BY <1>1, <4>1
      <4> QED
        BY <1>4, <1>8, <3>2, <4>1, <4>2
    <3> QED
      BY <1>8, <3>1, <3>2
  <2>4. \A j, k \in 1..Len(tails'.took) : tails'.took[j] = tails'.took[k] => j = k
    BY <1>7, <1>8 DEF EngInv, SlotsHeld
  <2>5. ASSUME NEW k \in 1..Len(tails.sent)
        PROVE  \E e \in Delivery : deliv'[e].pc = "done" /\ e[1] = tails.sent[k]
    <3>1. PICK e \in Delivery : deliv[e].pc = "done" /\ e[1] = tails.sent[k]
      BY DEF EngInv, SlotsHeld, AtPc
    <3> QED
      BY <1>1, <1>4, <3>1
  <2>6. \A j, k \in 1..Len(tails.sent) : tails.sent[j] = tails.sent[k] => j = k
    BY DEF EngInv, SlotsHeld
  <2> QED
    BY <1>5, <2>2, <2>3, <2>4, <2>5, <2>6 DEF SlotsHeld, AtPc
<1>11. InSlotOrder'
  <2> DEFINE S(i) == tails.sent[i]
             now == tails'.took
  <2>1. ASSUME NEW a, NEW b, TookBefore(took, a, b), a # d[1] PROVE TookBefore(now, a, b)
    <3> SUFFICES ASSUME NEW k \in 1..(n + 1), NEW l \in 1..(n + 1), now[k] = a, now[l] = b
                 PROVE  k < l
      BY <1>8 DEF TookBefore
    <3>1. k \in 1..n /\ took[k] = a
      BY <1>8, <2>1
    <3>2. CASE l \in 1..n
      BY <1>8, <2>1, <3>1, <3>2 DEF TookBefore
    <3>3. CASE l = n + 1
      BY <1>1, <3>1, <3>3
    <3> QED
      BY <1>8, <3>2, <3>3
  <2>2. \A a : TookBefore(took, a, d[1])
    BY <1>7 DEF TookBefore
  <2>3. InSlotOrder
    BY DEF EngInv
  <2> HIDE DEF took, now
  <2>4. ASSUME NEW i \in 1..Len(tails.sent), NEW j \in 1..Len(tails.sent), i < j
        PROVE  TookBefore(now, S(i), S(j))
    <3>1. TookBefore(took, S(i), S(j)) /\ S(i) # d[1]
      BY <1>7, <2>3, <2>4 DEF InSlotOrder, took
    <3> QED
      BY <2>1, <3>1
  <2>5. ASSUME NEW i \in 1..Len(tails.sent), NEW m \in 1..Len(slots')
        PROVE  TookBefore(now, S(i), slots'[m][1])
    <3>1. S(i) # d[1]
      BY <1>7
    <3>2. TookBefore(took, S(i), slots'[m][1])
      <4>1. CASE m \in 1..Len(slots)
        BY <1>9, <2>3, <4>1 DEF InSlotOrder, took
      <4>2. CASE m = Len(slots) + 1
        BY <1>9, <2>2, <4>2
      <4> QED
        BY <1>9, <4>1, <4>2
    <3> QED
      BY <2>1, <3>1, <3>2
  <2>6. ASSUME NEW m \in 1..Len(slots'), NEW l \in 1..Len(slots'), m < l
        PROVE  TookBefore(now, slots'[m][1], slots'[l][1])
    <3>1. m \in 1..Len(slots)
      BY <1>9, <2>6
    <3>2. slots'[m] = slots[m] /\ slots[m][1] # d[1]
      BY <1>7, <1>9, <3>1
    <3>3. TookBefore(took, slots[m][1], slots'[l][1])
      <4>1. CASE l \in 1..Len(slots)
        BY <1>9, <2>3, <2>6, <3>1, <4>1 DEF InSlotOrder, took
      <4>2. CASE l = Len(slots) + 1
        BY <1>9, <2>2, <4>2
      <4> QED
        BY <1>9, <4>1, <4>2
    <3> QED
      BY <2>1, <3>2, <3>3
  <2> QED
    BY <1>5, <2>4, <2>5, <2>6 DEF InSlotOrder, now
<1>12. Alone'
  <2>1. MentionDone' <=> MentionDone
    BY <1>1, <1>3, <1>4 DEF MentionDone, AtPc
  <2> QED
    BY <1>2, <1>5, <2>1 DEF EngInv, Alone, MentionAbout
<1>13. StaysEngaged'
  <2> SUFFICES ASSUME OnlyMention' PROVE StaysEngaged'
    BY DEF StaysEngaged
  <2>1. OnlyMention
    BY <1>4
  <2>2. ASSUME NEW e \in Delivery, e[1] \in Mentions
        PROVE  /\ AtPc(e, "ensure")' \/ (AtPc(e, "claim")' /\ e[1] \notin seen') => sessRow' # "out"
               /\ AtPc(e, "slot")' \/ AtPc(e, "reads")' => sessRow' = "in"
    BY <1>1, <1>2, <1>3, <1>4, <2>1, <2>2 DEF EngInv, StaysEngaged, AtPc
  <2>3. /\ \A i \in 1..Len(pend) : pend[i].lone /\ pend[i].ts \in Mentions => sessRow = "in"
        /\ aturn.on /\ aturn.alone /\ aturn.of \in Mentions => sessRow = "in"
        /\ tails.ended # {} => route.before = Undef
        /\ LoneReply => sessRow = "in" /\ giveBack = 0
    BY <2>1 DEF EngInv, StaysEngaged
  <2> QED
    BY <1>2, <1>5, <2>2, <2>3 DEF StaysEngaged, LoneReply
<1> QED
  BY <1>4, <1>6, <1>10, <1>11, <1>12, <1>13 DEF EngInv

\* A handler at its reads is done with them: the others keep their order.
LEMMA SlotReleased ==
    ASSUME EngInv, NEW d \in Delivery, NEW new \in HandlerRec, deliv' = [deliv EXCEPT ![d] = new],
           deliv[d].pc = "reads", new.pc \in {"done", "failed"}, new.before = deliv[d].before,
           slots' = RemoveFirst(slots, d), tails'.took = tails.took, seen' = seen
    PROVE  /\ Winners' /\ Kinds' /\ deliv'[d] = new /\ deliv' \in [Delivery -> HandlerRec]
           /\ \A e \in Delivery : e # d => deliv'[e] = deliv[e] /\ ~(Won(e) /\ e[1] = d[1])
           /\ OnlyMention' => OnlyMention
           /\ slots' \in Seq(Delivery) /\ QueueOf(slots', Reading')
           /\ \A k \in 1..Len(tails.took) :
                 \E e \in Delivery : deliv'[e].pc \in {"reads", "done", "failed"} /\ e[1] = tails.took[k]
           /\ \A m \in 1..Len(slots') : \E a \in 1..Len(slots) : slots'[m] = slots[a] /\ slots[a] # d
           /\ \A m, l \in 1..Len(slots') :
                 m < l => TookBefore(tails.took, slots'[m][1], slots'[l][1])
<1>1. Won(d) /\ slots \in Seq(Delivery) /\ d \in Reading /\ QueueOf(slots, Reading) /\ InSlotOrder
  BY DEF EngInv, EngTypes, SlotsHeld, Won, Reading, AtPc
<1>2. /\ Winners' /\ Kinds' /\ deliv'[d] = new /\ deliv' \in [Delivery -> HandlerRec]
      /\ \A e \in Delivery : e # d => deliv'[e] = deliv[e] /\ ~(Won(e) /\ e[1] = d[1])
      /\ OnlyMention' => OnlyMention
  BY <1>1, WinnerMoves
<1>3. /\ RemoveFirst(slots, d) \in Seq(Delivery) /\ QueueOf(RemoveFirst(slots, d), Reading \ {d})
      /\ \E k \in 1..Len(slots) :
            /\ slots[k] = d /\ Len(RemoveFirst(slots, d)) = Len(slots) - 1
            /\ \A j \in 1..(Len(slots) - 1) :
                  RemoveFirst(slots, d)[j] = IF j < k THEN slots[j] ELSE slots[j + 1]
  BY <1>1, QueueLeft
<1>4. PICK k \in 1..Len(slots) :
        /\ slots[k] = d /\ Len(slots') = Len(slots) - 1
        /\ \A j \in 1..(Len(slots) - 1) : slots'[j] = IF j < k THEN slots[j] ELSE slots[j + 1]
  BY <1>3
<1>5. Reading' = Reading \ {d}
  BY <1>2 DEF Reading, AtPc
<1>6. slots' \in Seq(Delivery) /\ QueueOf(slots', Reading')
  BY <1>3, <1>5
<1>7. ASSUME NEW i \in 1..Len(tails.took)
      PROVE  \E e \in Delivery : deliv'[e].pc \in {"reads", "done", "failed"} /\ e[1] = tails.took[i]
  <2>1. PICK e \in Delivery : deliv[e].pc \in {"reads", "done", "failed"} /\ e[1] = tails.took[i]
    BY DEF EngInv, SlotsHeld
  <2> QED
    BY <1>2, <2>1
<1> DEFINE from(m) == IF m < k THEN m ELSE m + 1
<1>8. /\ \A m \in 1..Len(slots') : from(m) \in 1..Len(slots) /\ slots'[m] = slots[from(m)] /\ from(m) # k
      /\ \A m, l \in 1..Len(slots') : m < l => from(m) < from(l)
  <2>1. Len(slots) \in Nat /\ k \in Nat
    BY <1>1
  <2> QED
    BY <1>4, <2>1
<1> HIDE DEF from
<1>9. ASSUME NEW m \in 1..Len(slots') PROVE \E a \in 1..Len(slots) : slots'[m] = slots[a] /\ slots[a] # d
  BY <1>1, <1>4, <1>8 DEF QueueOf
<1>10. ASSUME NEW m \in 1..Len(slots'), NEW l \in 1..Len(slots'), m < l
       PROVE  TookBefore(tails.took, slots'[m][1], slots'[l][1])
  <2>1. TookBefore(tails.took, slots[from(m)][1], slots[from(l)][1])
    BY <1>1, <1>8, <1>10 DEF InSlotOrder
  <2> QED
    BY <1>8, <2>1
<1> QED
  BY <1>2, <1>6, <1>7, <1>9, <1>10

\* A handler's reads throw: its slot is released all the same.
LEMMA ReadsThrowKeeps ==
    ASSUME EngInv, NEW d \in Delivery, ReadsThrow(d)
    PROVE  EngInv'
<1> DEFINE new == [deliv[d] EXCEPT !.pc = "failed"]
<1>1. /\ deliv[d] \in HandlerRec /\ deliv[d].pc = "reads" /\ deliv \in [Delivery -> HandlerRec]
      /\ readFaults \in Nat
  BY DEF EngInv, EngTypes, ReadsThrow, AtPc
<1>2. /\ deliv' = [deliv EXCEPT ![d] = new] /\ slots' = RemoveFirst(slots, d) /\ readFaults' \in Nat
      /\ UNCHANGED <<sessRow, seen, route, pend, aturn, giveBack, tails>>
  BY <1>1 DEF ReadsThrow, Steps, Released
<1>3. new \in HandlerRec /\ new.pc = "failed" /\ new.before = deliv[d].before
  BY <1>1 DEF HandlerRec
<1> HIDE DEF new
<1>4. /\ Winners' /\ Kinds' /\ deliv'[d] = new /\ deliv' \in [Delivery -> HandlerRec]
      /\ \A e \in Delivery : e # d => deliv'[e] = deliv[e] /\ ~(Won(e) /\ e[1] = d[1])
      /\ OnlyMention' => OnlyMention
      /\ slots' \in Seq(Delivery) /\ QueueOf(slots', Reading')
      /\ \A k \in 1..Len(tails.took) :
            \E e \in Delivery : deliv'[e].pc \in {"reads", "done", "failed"} /\ e[1] = tails.took[k]
      /\ \A m \in 1..Len(slots') : \E a \in 1..Len(slots) : slots'[m] = slots[a] /\ slots[a] # d
      /\ \A m, l \in 1..Len(slots') :
            m < l => TookBefore(tails.took, slots'[m][1], slots'[l][1])
  BY <1>1, <1>2, <1>3, SlotReleased
<1>5. EngTypes'
  BY <1>2, <1>4 DEF EngInv, EngTypes
<1>6. \A e \in Delivery : deliv'[e].pc = "done" <=> deliv[e].pc = "done"
  BY <1>1, <1>3, <1>4
<1>7. SlotsHeld'
  <2>1. \A k \in 1..Len(tails.sent) : \E e \in Delivery : deliv'[e].pc = "done" /\ e[1] = tails.sent[k]
    BY <1>6 DEF EngInv, SlotsHeld, AtPc
  <2>2. /\ \A j, k \in 1..Len(tails.took) : tails.took[j] = tails.took[k] => j = k
        /\ \A j, k \in 1..Len(tails.sent) : tails.sent[j] = tails.sent[k] => j = k
    BY DEF EngInv, SlotsHeld
  <2> QED
    BY <1>2, <1>4, <2>1, <2>2 DEF SlotsHeld, AtPc
<1>8. InSlotOrder'
  <2>1. \A i \in 1..Len(tails.sent), m \in 1..Len(slots') :
           TookBefore(tails.took, tails.sent[i], slots'[m][1])
    BY <1>4 DEF EngInv, InSlotOrder
  <2> QED
    BY <1>2, <1>4, <2>1 DEF EngInv, InSlotOrder
<1>9. Alone'
  <2>1. MentionDone' <=> MentionDone
    BY <1>6 DEF MentionDone, AtPc
  <2> QED
    BY <1>2, <2>1 DEF EngInv, Alone, MentionAbout
<1>10. StaysEngaged'
  <2> SUFFICES ASSUME OnlyMention' PROVE StaysEngaged'
    BY DEF StaysEngaged
  <2>1. OnlyMention
    BY <1>4
  <2>2. ASSUME NEW e \in Delivery, e[1] \in Mentions
        PROVE  /\ AtPc(e, "ensure")' \/ (AtPc(e, "claim")' /\ e[1] \notin seen') => sessRow' # "out"
               /\ AtPc(e, "slot")' \/ AtPc(e, "reads")' => sessRow' = "in"
    BY <1>1, <1>2, <1>3, <1>4, <2>1, <2>2 DEF EngInv, StaysEngaged, AtPc
  <2>3. /\ \A i \in 1..Len(pend) : pend[i].lone /\ pend[i].ts \in Mentions => sessRow = "in"
        /\ aturn.on /\ aturn.alone /\ aturn.of \in Mentions => sessRow = "in"
        /\ tails.ended # {} => route.before = Undef
        /\ LoneReply => sessRow = "in" /\ giveBack = 0
    BY <2>1 DEF EngInv, StaysEngaged
  <2> QED
    BY <1>2, <2>2, <2>3 DEF StaysEngaged, LoneReply
<1> QED
  BY <1>4, <1>5, <1>7, <1>8, <1>9, <1>10 DEF EngInv

\* The oldest slot's handler dispatches its message.
LEMMA DispatchTailKeeps ==
    ASSUME EngInv, NEW d \in Delivery, DispatchTail(d)
    PROVE  EngInv'
<1> DEFINE new == [deliv[d] EXCEPT !.pc = "done"]
           v == deliv[d]
           rt == [before |-> IF v.before = Undef THEN route.before ELSE v.before,
                  passed |-> FALSE, spoke |-> FALSE, suppress |-> v.suppress]
           p == [ts |-> d[1], suppress |-> v.suppress, lone |-> ~aturn.on /\ pend = <<>> /\ giveBack = 0]
           n == Len(tails.sent)
<1>1. /\ v \in HandlerRec /\ v.pc = "reads" /\ deliv \in [Delivery -> HandlerRec] /\ slots[1] = d
      /\ slots \in Seq(Delivery) /\ pend \in Seq(PendRec) /\ aturn \in AgentTurn /\ route \in RouteRec
      /\ tails \in TailsRec /\ tails.sent \in Seq(EvTs) /\ n \in Nat /\ d[1] \in EvTs /\ giveBack \in Nat
  BY HandlersOfEvents DEF EngInv, EngTypes, DispatchTail, AtPc, Ready, TailsRec
<1>2. /\ deliv' = [deliv EXCEPT ![d] = new] /\ slots' = RemoveFirst(slots, d) /\ route' = rt
      /\ pend' = Append(pend, p) /\ aturn' = [aturn EXCEPT !.alone = ~aturn.on]
      /\ tails' = [tails EXCEPT !.sent = Append(tails.sent, d[1])]
      /\ UNCHANGED <<sessRow, seen, giveBack, readFaults>>
  BY <1>1 DEF DispatchTail, Steps, Released
<1>3. new \in HandlerRec /\ new.pc = "done" /\ new.before = deliv[d].before
  BY <1>1 DEF HandlerRec
<1>4. rt \in RouteRec /\ rt.before = IF v.before = Undef THEN route.before ELSE v.before
  BY <1>1 DEF RouteRec, HandlerRec
<1>5. p \in PendRec /\ p.ts = d[1] /\ (p.lone <=> ~aturn.on /\ pend = <<>> /\ giveBack = 0)
  BY <1>1 DEF PendRec, HandlerRec
<1>6. /\ aturn' \in AgentTurn /\ aturn'.on = aturn.on /\ aturn'.of = aturn.of /\ aturn'.spoke = aturn.spoke
      /\ aturn'.alone <=> ~aturn.on
  BY <1>1, <1>2 DEF AgentTurn
<1>7. /\ tails' \in TailsRec /\ tails'.took = tails.took /\ tails'.ended = tails.ended
      /\ tails'.sent \in Seq(EvTs) /\ Len(tails'.sent) = n + 1 /\ tails'.sent[n + 1] = d[1]
      /\ \A i \in 1..n : tails'.sent[i] = tails.sent[i]
      /\ \A i \in 1..(n + 1) : i \in 1..n \/ i = n + 1
  <2> DEFINE app == Append(tails.sent, d[1])
  <2>1. /\ app \in Seq(EvTs) /\ Len(app) = n + 1 /\ app[n + 1] = d[1]
        /\ \A i \in 1..n : app[i] = tails.sent[i]
        /\ \A i \in 1..(n + 1) : i \in 1..n \/ i = n + 1
    BY <1>1
  <2>2. tails' = [tails EXCEPT !.sent = app]
    BY <1>2
  <2> HIDE DEF app
  <2>3. /\ tails' \in TailsRec /\ tails'.sent = app /\ tails'.took = tails.took /\ tails'.ended = tails.ended
    BY <1>1, <2>1, <2>2 DEF TailsRec
  <2> QED
    BY <2>1, <2>3
<1>8. /\ pend' \in Seq(PendRec) /\ Len(pend') = Len(pend) + 1 /\ pend'[Len(pend) + 1] = p
      /\ \A i \in 1..Len(pend) : pend'[i] = pend[i]
      /\ \A i \in 1..(Len(pend) + 1) : i \in 1..Len(pend) \/ i = Len(pend) + 1
      /\ Len(pend) \in Nat /\ (pend = <<>> => Len(pend) = 0)
  <2> HIDE DEF p
  <2> QED
    BY <1>1, <1>2, <1>5
<1> HIDE DEF new, rt, p
<1>9. /\ Winners' /\ Kinds' /\ deliv'[d] = new /\ deliv' \in [Delivery -> HandlerRec]
      /\ \A e \in Delivery : e # d => deliv'[e] = deliv[e] /\ ~(Won(e) /\ e[1] = d[1])
      /\ OnlyMention' => OnlyMention
      /\ slots' \in Seq(Delivery) /\ QueueOf(slots', Reading')
      /\ \A k \in 1..Len(tails.took) :
            \E e \in Delivery : deliv'[e].pc \in {"reads", "done", "failed"} /\ e[1] = tails.took[k]
      /\ \A m \in 1..Len(slots') : \E a \in 1..Len(slots) : slots'[m] = slots[a] /\ slots[a] # d
      /\ \A m, l \in 1..Len(slots') :
            m < l => TookBefore(tails.took, slots'[m][1], slots'[l][1])
  BY <1>1, <1>2, <1>3, <1>7, SlotReleased
<1>10. EngTypes'
  BY <1>2, <1>4, <1>6, <1>7, <1>8, <1>9 DEF EngInv, EngTypes
<1>11. \A i \in 1..n : \E e \in Delivery : e # d /\ deliv'[e].pc = "done" /\ e[1] = tails.sent[i] /\ e[1] # d[1]
  <2> SUFFICES ASSUME NEW i \in 1..n
               PROVE  \E e \in Delivery : e # d /\ deliv'[e].pc = "done" /\ e[1] = tails.sent[i] /\ e[1] # d[1]
    OBVIOUS
  <2>1. PICK e \in Delivery : deliv[e].pc = "done" /\ e[1] = tails.sent[i]
    BY DEF EngInv, SlotsHeld, AtPc
  <2>2. e # d
    BY <1>1, <2>1
  <2> QED
    BY <1>9, <2>1, <2>2 DEF Won
<1>12. SlotsHeld'
  <2>1. ASSUME NEW i \in 1..(n + 1) PROVE \E e \in Delivery : deliv'[e].pc = "done" /\ e[1] = tails'.sent[i]
    <3>1. CASE i \in 1..n
      BY <1>7, <1>11, <3>1
    <3>2. CASE i = n + 1
      BY <1>3, <1>7, <1>9, <3>2
    <3> QED
      BY <1>7, <3>1, <3>2
  <2>2. ASSUME NEW i \in 1..(n + 1), NEW j \in 1..(n + 1), tails'.sent[i] = tails'.sent[j] PROVE i = j
    <3>1. \A a \in 1..n : tails.sent[a] # d[1]
      BY <1>11
    <3>2. \A a, b \in 1..n : tails.sent[a] = tails.sent[b] => a = b
      BY DEF EngInv, SlotsHeld
    <3> QED
      BY <1>7, <2>2, <3>1, <3>2
  <2>3. \A j, k \in 1..Len(tails.took) : tails.took[j] = tails.took[k] => j = k
    BY DEF EngInv, SlotsHeld
  <2> QED
    <3>1. \A k \in 1..Len(tails'.sent) : \E e \in Delivery : deliv'[e].pc = "done" /\ e[1] = tails'.sent[k]
      BY <1>7, <2>1
    <3>2. \A j, k \in 1..Len(tails'.sent) : tails'.sent[j] = tails'.sent[k] => j = k
      BY <1>7, <2>2
    <3>3. \A k \in 1..Len(tails'.took) :
             \E e \in Delivery : deliv'[e].pc \in {"reads", "done", "failed"} /\ e[1] = tails'.took[k]
      BY <1>7, <1>9
    <3>4. \A j, k \in 1..Len(tails'.took) : tails'.took[j] = tails'.took[k] => j = k
      BY <1>7, <2>3
    <3>5. QueueOf(slots', Reading')
      BY <1>9
    <3> QED
      BY <3>1, <3>2, <3>3, <3>4, <3>5 DEF SlotsHeld, AtPc
<1>13. InSlotOrder'
  <2>1. InSlotOrder /\ QueueOf(slots, Reading) /\ d \in Reading
    BY <1>1 DEF EngInv, SlotsHeld, Reading, AtPc
  <2>2. 1 \in 1..Len(slots) /\ \A a \in 1..Len(slots) : a # 1 => 1 < a
    <3>1. PICK a \in 1..Len(slots) : slots[a] = d
      BY <2>1 DEF QueueOf
    <3> QED
      BY <1>1, <3>1
  <2>3. ASSUME NEW i \in 1..(n + 1), NEW j \in 1..(n + 1), i < j
        PROVE  TookBefore(tails.took, tails'.sent[i], tails'.sent[j])
    <3>1. i \in 1..n
      BY <1>1, <1>7, <2>3
    <3>2. CASE j \in 1..n
      BY <1>7, <2>1, <2>3, <3>1, <3>2 DEF InSlotOrder
    <3>3. CASE j = n + 1
      <4>1. TookBefore(tails.took, tails.sent[i], slots[1][1])
        BY <2>1, <2>2, <3>1 DEF InSlotOrder
      <4> QED
        BY <1>1, <1>7, <3>1, <3>3, <4>1
    <3> QED
      BY <1>7, <3>2, <3>3
  <2>4. ASSUME NEW i \in 1..(n + 1), NEW m \in 1..Len(slots')
        PROVE  TookBefore(tails.took, tails'.sent[i], slots'[m][1])
    <3>1. PICK a \in 1..Len(slots) : slots'[m] = slots[a] /\ slots[a] # d
      BY <1>9
    <3>2. CASE i \in 1..n
      BY <1>7, <2>1, <3>1, <3>2 DEF InSlotOrder
    <3>3. CASE i = n + 1
      <4>1. 1 < a
        BY <1>1, <2>2, <3>1
      <4>2. TookBefore(tails.took, slots[1][1], slots[a][1])
        BY <2>1, <2>2, <4>1 DEF InSlotOrder
      <4> QED
        BY <1>1, <1>7, <3>1, <3>3, <4>2
    <3> QED
      BY <1>7, <3>2, <3>3
  <2> QED
    BY <1>7, <1>9, <2>3, <2>4 DEF InSlotOrder
<1>14. Alone'
  <2>1. MentionDone => MentionDone'
    <3> SUFFICES ASSUME NEW e \in Delivery, e[1] \in Mentions, deliv[e].pc = "done" PROVE MentionDone'
      BY DEF MentionDone, AtPc
    <3> QED
      BY <1>1, <1>9 DEF MentionDone, AtPc
  <2>2. d[1] \in Mentions => MentionDone'
    BY <1>3, <1>9 DEF MentionDone, AtPc
  <2>3. MentionAbout' => MentionAbout \/ d[1] \in Mentions
    <3>1. route'.before # Undef => route.before # Undef \/ d[1] \in Mentions
      BY <1>2, <1>4 DEF EngInv, Kinds
    <3>2. \A i \in 1..Len(pend') : pend'[i].ts \in Mentions =>
             d[1] \in Mentions \/ \E k \in 1..Len(pend) : pend[k].ts \in Mentions
      BY <1>5, <1>8
    <3> QED
      BY <1>2, <1>6, <1>7, <3>1, <3>2 DEF MentionAbout
  <2>4. ASSUME NEW i \in 1..Len(pend'), pend'[i].lone PROVE i = 1 /\ ~aturn'.on /\ giveBack' = 0
    <3>1. CASE i \in 1..Len(pend)
      BY <1>2, <1>6, <1>8, <2>4, <3>1 DEF EngInv, Alone
    <3>2. CASE i = Len(pend) + 1
      <4>1. p.lone
        BY <1>8, <2>4, <3>2
      <4> QED
        BY <1>2, <1>5, <1>6, <1>8, <3>2, <4>1
    <3> QED
      BY <1>8, <3>1, <3>2
  <2>5. ~(aturn'.on /\ aturn'.alone)
    BY <1>6
  <2> QED
    BY <2>1, <2>2, <2>3, <2>4, <2>5 DEF EngInv, Alone
<1>15. StaysEngaged'
  <2> SUFFICES ASSUME OnlyMention' PROVE StaysEngaged'
    BY DEF StaysEngaged
  <2>1. OnlyMention
    BY <1>9
  <2>2. ASSUME NEW e \in Delivery, e[1] \in Mentions
        PROVE  /\ AtPc(e, "ensure")' \/ (AtPc(e, "claim")' /\ e[1] \notin seen') => sessRow' # "out"
               /\ AtPc(e, "slot")' \/ AtPc(e, "reads")' => sessRow' = "in"
    BY <1>1, <1>2, <1>3, <1>9, <2>1, <2>2 DEF EngInv, StaysEngaged, AtPc
  <2>3. d[1] \in Mentions => sessRow = "in"
    BY <1>1, <2>1 DEF EngInv, StaysEngaged, AtPc
  <2>4. \A i \in 1..Len(pend') : pend'[i].lone /\ pend'[i].ts \in Mentions => sessRow' = "in"
    BY <1>2, <1>5, <1>8, <2>1, <2>3 DEF EngInv, StaysEngaged
  <2>5. ASSUME tails.ended # {} PROVE route'.before = Undef
    <3>1. PICK e \in Delivery : e[1] \in Mentions /\ deliv[e].pc = "done"
      BY <2>5 DEF EngInv, Alone, MentionAbout, MentionDone, AtPc
    <3>2. v.before = Undef
      <4> SUFFICES ASSUME v.before # Undef PROVE FALSE
        OBVIOUS
      <4>1. d[1] \in Mentions
        BY DEF EngInv, Kinds
      <4>2. e[1] = d[1] /\ e # d
        BY <1>1, <2>1, <3>1, <4>1, OneTimestamp DEF AtPc
      <4> QED
        BY <1>9, <3>1, <4>2 DEF Won
    <3> QED
      BY <1>2, <1>4, <2>1, <2>5, <3>2 DEF EngInv, StaysEngaged
  <2>6. ~(aturn'.on /\ aturn'.alone)
    BY <1>6
  <2>7. LoneReply => sessRow = "in" /\ giveBack = 0
    BY <2>1 DEF EngInv, StaysEngaged
  <2> QED
    BY <1>2, <1>7, <2>2, <2>4, <2>5, <2>6, <2>7 DEF StaysEngaged, LoneReply
<1> QED
  BY <1>9, <1>10, <1>12, <1>13, <1>14, <1>15 DEF EngInv

\* The agent's steps leave the handlers, their slots and the dispatches.
LEMMA AgentLeaves ==
    ASSUME EngInv, UNCHANGED <<seen, deliv, slots, readFaults>>,
           tails'.sent = tails.sent, tails'.took = tails.took, tails' \in TailsRec,
           sessRow' \in {"none", "in", "out"}, route' \in RouteRec, pend' \in Seq(PendRec),
           aturn' \in AgentTurn, giveBack' \in Nat
    PROVE  /\ EngTypes' /\ Winners' /\ Kinds' /\ SlotsHeld' /\ InSlotOrder'
           /\ (MentionDone' <=> MentionDone) /\ (OnlyMention' <=> OnlyMention)
<1>1. SlotsHeld' /\ InSlotOrder' /\ (MentionDone' <=> MentionDone)
  BY SlotsUntouched
<1>2. EngTypes'
  BY DEF EngInv, EngTypes
<1>3. Winners' /\ Kinds'
  BY DEF EngInv, Winners, Kinds, Won, AtPc
<1>4. OnlyMention' <=> OnlyMention
  BY DEF OnlyMention, NoColleague, OneMention, AtPc
<1> QED
  BY <1>1, <1>2, <1>3, <1>4

\* A turn begins, takes in a message, passes or replies.
LEMMA TurnStepKeeps ==
    ASSUME EngInv, TurnStarts \/ TurnMerges \/ TurnPasses \/ TurnReplies
    PROVE  EngInv'
<1>1. /\ pend \in Seq(PendRec) /\ aturn \in AgentTurn /\ route \in RouteRec /\ tails \in TailsRec
      /\ giveBack \in Nat /\ sessRow \in {"none", "in", "out"} /\ Alone /\ StaysEngaged
  BY DEF EngInv, EngTypes
<1>2. UNCHANGED <<sessRow, seen, deliv, slots, giveBack, tails, readFaults>>
  BY DEF TurnStarts, TurnMerges, TurnPasses, TurnReplies
<1>3. CASE TurnStarts
  <2> DEFINE new == [NoTurn EXCEPT !.on = TRUE, !.of = pend[1].ts, !.rec = pend[1].suppress,
                                   !.alone = pend[1].lone /\ Len(pend) = 1]
  <2>1. ~aturn.on /\ pend # <<>> /\ aturn' = new /\ pend' = Tail(pend) /\ route' = route
    BY <1>3 DEF TurnStarts
  <2>2. /\ Len(pend) \in Nat /\ 1 \in 1..Len(pend) /\ pend[1] \in PendRec
        /\ pend' \in Seq(PendRec) /\ Len(pend') = Len(pend) - 1
        /\ \A i \in 1..Len(pend') : pend'[i] = pend[i + 1] /\ i + 1 \in 1..Len(pend) /\ i + 1 # 1
    BY <1>1, <2>1
  <2>3. /\ aturn' \in AgentTurn /\ aturn'.on /\ aturn'.of = pend[1].ts /\ ~aturn'.spoke
        /\ aturn'.alone <=> pend[1].lone /\ Len(pend) = 1
    BY <2>1, <2>2 DEF AgentTurn, NoTurn, PendRec
  <2>4. /\ EngTypes' /\ Winners' /\ Kinds' /\ SlotsHeld' /\ InSlotOrder'
        /\ (MentionDone' <=> MentionDone) /\ (OnlyMention' <=> OnlyMention)
    BY <1>1, <1>2, <2>1, <2>2, <2>3, AgentLeaves
  <2>5. \A i \in 1..Len(pend') : ~pend'[i].lone
    BY <1>1, <2>2 DEF Alone
  <2>6. MentionAbout' => MentionAbout
    BY <1>2, <2>1, <2>2, <2>3 DEF MentionAbout
  <2>7. Alone'
    BY <1>1, <1>2, <2>2, <2>3, <2>4, <2>5, <2>6 DEF Alone
  <2>8. StaysEngaged'
    BY <1>1, <1>2, <2>1, <2>2, <2>3, <2>4, <2>5 DEF StaysEngaged, LoneReply, AtPc
  <2> QED
    BY <2>4, <2>7, <2>8 DEF EngInv
<1>4. CASE TurnMerges
  <2> DEFINE new == [aturn EXCEPT !.alone = FALSE]
  <2>1. aturn.on /\ pend # <<>> /\ aturn' = new /\ pend' = Tail(pend) /\ route' = route
    BY <1>4 DEF TurnMerges
  <2>2. /\ pend' \in Seq(PendRec)
        /\ \A i \in 1..Len(pend') : pend'[i] = pend[i + 1] /\ i + 1 \in 1..Len(pend)
    BY <1>1, <2>1
  <2>3. aturn' \in AgentTurn /\ aturn'.on /\ aturn'.of = aturn.of /\ ~aturn'.alone
    BY <1>1, <2>1 DEF AgentTurn
  <2>4. /\ EngTypes' /\ Winners' /\ Kinds' /\ SlotsHeld' /\ InSlotOrder'
        /\ (MentionDone' <=> MentionDone) /\ (OnlyMention' <=> OnlyMention)
    BY <1>1, <1>2, <2>1, <2>2, <2>3, AgentLeaves
  <2>5. \A i \in 1..Len(pend') : ~pend'[i].lone
    BY <1>1, <2>1, <2>2 DEF Alone
  <2>6. MentionAbout' => MentionAbout
    BY <1>2, <2>1, <2>2, <2>3 DEF MentionAbout
  <2>7. Alone'
    BY <1>1, <1>2, <2>2, <2>3, <2>4, <2>5, <2>6 DEF Alone
  <2>8. StaysEngaged'
    BY <1>1, <1>2, <2>1, <2>2, <2>3, <2>4, <2>5 DEF StaysEngaged, LoneReply, AtPc
  <2> QED
    BY <2>4, <2>7, <2>8 DEF EngInv
<1>5. CASE TurnPasses \/ TurnReplies
  <2>1. aturn.on /\ pend' = pend
    BY <1>5 DEF TurnPasses, TurnReplies
  <2>2. /\ aturn' \in AgentTurn /\ aturn'.on /\ aturn'.of = aturn.of /\ aturn'.alone = aturn.alone
        /\ route' \in RouteRec /\ route'.before = route.before
        /\ \/ aturn'.spoke = aturn.spoke /\ route'.spoke = route.spoke
           \/ route'.spoke
    BY <1>1, <1>5, <2>1 DEF TurnPasses, TurnReplies, AgentTurn, RouteRec
  <2>3. /\ EngTypes' /\ Winners' /\ Kinds' /\ SlotsHeld' /\ InSlotOrder'
        /\ (MentionDone' <=> MentionDone) /\ (OnlyMention' <=> OnlyMention)
    BY <1>1, <1>2, <2>1, <2>2, AgentLeaves
  <2>4. MentionAbout' => MentionAbout
    BY <1>2, <2>1, <2>2 DEF MentionAbout
  <2>5. Alone'
    BY <1>1, <1>2, <2>1, <2>2, <2>3, <2>4 DEF Alone
  <2>6. StaysEngaged'
    BY <1>1, <1>2, <2>1, <2>2, <2>3 DEF StaysEngaged, LoneReply, AtPc
  <2> QED
    BY <2>3, <2>5, <2>6 DEF EngInv
<1> QED
  BY <1>3, <1>4, <1>5

\* The turn ends: a lone turn that spoke gives nothing back, and the route's
\* engagedBefore is gone.
LEMMA TurnDoneKeeps ==
    ASSUME EngInv, TurnDone
    PROVE  EngInv'
<1> DEFINE rt == [route EXCEPT !.before = Undef]
           e == [spoke |-> aturn.spoke, alone |-> aturn.alone]
<1>1. /\ aturn \in AgentTurn /\ route \in RouteRec /\ tails \in TailsRec /\ pend \in Seq(PendRec)
      /\ giveBack \in Nat /\ sessRow \in {"none", "in", "out"} /\ Alone /\ StaysEngaged
  BY DEF EngInv, EngTypes
<1>2. /\ aturn.on /\ route' = rt /\ aturn' = NoTurn
      /\ giveBack' = IF ~route.suppress /\ route.passed /\ ~route.spoke /\ route.before = "no"
                     THEN giveBack + 1 ELSE giveBack
      /\ UNCHANGED <<sessRow, seen, deliv, slots, pend, readFaults>>
  BY DEF TurnDone, BeforeAfterDone
<1>3. rt \in RouteRec /\ rt.before = Undef /\ e \in EndRec
  BY <1>1 DEF RouteRec, AgentTurn, EndRec
<1>4. /\ tails' \in TailsRec /\ tails'.sent = tails.sent /\ tails'.took = tails.took
      /\ tails'.ended = IF aturn.of \in Mentions THEN tails.ended \cup {e} ELSE tails.ended
  <2>1. CASE aturn.of \in Mentions
    <3> DEFINE ends == tails.ended \cup {e}
    <3>1. tails' = [tails EXCEPT !.ended = ends]
      BY <2>1 DEF TurnDone
    <3>2. ends \in SUBSET EndRec
      BY <1>1, <1>3 DEF TailsRec
    <3> HIDE DEF ends, e
    <3>3. tails' \in TailsRec /\ tails'.sent = tails.sent /\ tails'.took = tails.took /\ tails'.ended = ends
      BY <1>1, <3>1, <3>2 DEF TailsRec
    <3> QED
      BY <2>1, <3>3 DEF ends
  <2>2. CASE aturn.of \notin Mentions
    BY <1>1, <2>2 DEF TurnDone
  <2> QED
    BY <2>1, <2>2
<1>5. aturn' \in AgentTurn /\ ~aturn'.on
  BY <1>2 DEF AgentTurn, NoTurn
<1> HIDE DEF rt
<1>6. /\ giveBack' \in Nat
      /\ \/ giveBack' = giveBack
         \/ ~route.spoke /\ route.before = "no"
  BY <1>1, <1>2
<1>7. /\ EngTypes' /\ Winners' /\ Kinds' /\ SlotsHeld' /\ InSlotOrder'
      /\ (MentionDone' <=> MentionDone) /\ (OnlyMention' <=> OnlyMention)
  BY <1>1, <1>2, <1>3, <1>4, <1>5, <1>6, AgentLeaves
<1>8. Alone'
  <2>1. MentionAbout' => MentionAbout
    BY <1>2, <1>3, <1>4, <1>5, <1>6 DEF MentionAbout, Undef
  <2>2. \A i \in 1..Len(pend') : ~pend'[i].lone
    BY <1>1, <1>2 DEF Alone
  <2> QED
    BY <1>1, <1>5, <1>7, <2>1, <2>2 DEF Alone
<1>9. StaysEngaged'
  <2> SUFFICES ASSUME OnlyMention' PROVE StaysEngaged'
    BY DEF StaysEngaged
  <2>1. OnlyMention
    BY <1>7
  <2>2. LoneReply' => sessRow' = "in" /\ giveBack' = 0
    <3>1. CASE LoneReply
      <4>1. sessRow = "in" /\ giveBack = 0 /\ route.before = Undef
        BY <1>1, <2>1, <3>1 DEF StaysEngaged, LoneReply
      <4> QED
        BY <1>2, <1>6, <4>1 DEF Undef
    <3>2. CASE ~LoneReply
      <4> SUFFICES ASSUME LoneReply' PROVE sessRow' = "in" /\ giveBack' = 0
        OBVIOUS
      <4>1. aturn.of \in Mentions /\ aturn.spoke = TRUE /\ aturn.alone = TRUE
        BY <1>4, <3>2 DEF LoneReply
      <4>2. sessRow = "in" /\ giveBack = 0 /\ route.spoke
        BY <1>1, <1>2, <2>1, <4>1 DEF StaysEngaged, Alone
      <4> QED
        BY <1>2, <1>6, <4>2
    <3> QED
      BY <3>1, <3>2
  <2>3. \A d \in Delivery : d[1] \in Mentions =>
           /\ AtPc(d, "ensure")' \/ (AtPc(d, "claim")' /\ d[1] \notin seen') => sessRow' # "out"
           /\ AtPc(d, "slot")' \/ AtPc(d, "reads")' => sessRow' = "in"
    BY <1>1, <1>2, <2>1 DEF StaysEngaged, AtPc
  <2> QED
    BY <1>1, <1>2, <1>3, <1>5, <2>1, <2>2, <2>3 DEF StaysEngaged
<1> QED
  BY <1>7, <1>8, <1>9 DEF EngInv

\* The engagement is given back: a mention was dispatched, so none of its
\* handlers is before its slot.
LEMMA GiveBackKeeps ==
    ASSUME EngInv, GiveBackLands
    PROVE  EngInv'
<1>1. /\ giveBack \in Nat /\ giveBack > 0 /\ giveBack' = giveBack - 1 /\ sessRow' = "out"
      /\ UNCHANGED <<seen, deliv, slots, route, pend, aturn, tails, readFaults>>
      /\ pend \in Seq(PendRec) /\ aturn \in AgentTurn /\ route \in RouteRec /\ tails \in TailsRec
      /\ Alone /\ StaysEngaged
  BY DEF GiveBackLands, EngInv, EngTypes
<1>2. giveBack' \in Nat /\ (giveBack' > 0 => giveBack > 0) /\ giveBack # 0
  BY <1>1
<1>3. /\ EngTypes' /\ Winners' /\ Kinds' /\ SlotsHeld' /\ InSlotOrder'
      /\ (MentionDone' <=> MentionDone) /\ (OnlyMention' <=> OnlyMention)
  BY <1>1, <1>2, AgentLeaves
<1>4. MentionDone
  BY <1>1 DEF Alone, MentionAbout
<1>5. Alone'
  <2>1. /\ \A i \in 1..Len(pend) : ~pend[i].lone
        /\ ~(aturn.on /\ aturn.alone)
    BY <1>1, <1>2 DEF Alone
  <2> QED
    BY <1>1, <1>3, <1>4, <2>1 DEF Alone
<1>6. StaysEngaged'
  <2> SUFFICES ASSUME OnlyMention' PROVE StaysEngaged'
    BY DEF StaysEngaged
  <2>1. OnlyMention
    BY <1>3
  <2>2. PICK e \in Delivery : e[1] \in Mentions /\ deliv[e].pc = "done"
    BY <1>4 DEF MentionDone, AtPc
  <2>3. ASSUME NEW d \in Delivery, d[1] \in Mentions
        PROVE  deliv[d].pc \notin {"ensure", "slot", "reads"} /\ (deliv[d].pc = "claim" => d[1] \in seen)
    <3> SUFFICES ASSUME deliv[d].pc # "new" PROVE deliv[d].pc \notin {"ensure", "slot", "reads"} /\ d[1] \in seen
      OBVIOUS
    <3>1. d[1] = e[1]
      BY <2>1, <2>2, <2>3, OneTimestamp DEF AtPc
    <3>2. Won(e) /\ e[1] \in seen
      BY <2>2 DEF EngInv, Winners, Won
    <3>3. ~Won(d) \/ d = e
      BY <3>1, <3>2 DEF EngInv, Winners
    <3> QED
      BY <2>2, <3>1, <3>2, <3>3 DEF Won
  <2>4. ~LoneReply /\ (tails.ended # {} => route.before = Undef)
    BY <1>1, <1>2, <2>1 DEF StaysEngaged
  <2>5. /\ \A i \in 1..Len(pend) : ~pend[i].lone
        /\ ~(aturn.on /\ aturn.alone)
    BY <1>1, <1>2 DEF Alone
  <2> QED
    BY <1>1, <2>3, <2>4, <2>5 DEF StaysEngaged, LoneReply, AtPc
<1> QED
  BY <1>3, <1>5, <1>6 DEF EngInv

\* The invariant holds in every state.
LEMMA EngInvHolds == EngSpec => []EngInv
<1>1. EngInv /\ [EngNext]_engVars => EngInv'
  <2> SUFFICES ASSUME EngInv, [EngNext]_engVars PROVE EngInv'
    OBVIOUS
  <2>1. ASSUME NEW d \in Delivery,
               \/ SeenRead(d) \/ PriorRead(d) \/ EngageWrite(d) \/ DisengageThread(d) \/ RecordFor(d)
               \/ PlainRead(d) \/ Claim(d) \/ EnsureSession(d)
        PROVE  EngInv'
    BY <2>1, RouterKeeps, ClaimWinKeeps
  <2>2. ASSUME NEW d \in Delivery, TakeDispatchSlot(d) \/ ReadsThrow(d) \/ DispatchTail(d) PROVE EngInv'
    BY <2>2, TakeSlotKeeps, ReadsThrowKeeps, DispatchTailKeeps
  <2>3. CASE TurnStarts \/ TurnMerges \/ TurnPasses \/ TurnReplies
    BY <2>3, TurnStepKeeps
  <2>4. CASE TurnDone \/ GiveBackLands
    BY <2>4, TurnDoneKeeps, GiveBackKeeps
  <2>5. CASE UNCHANGED engVars
    <3>1. UNCHANGED <<sessRow, seen, deliv, slots, route, pend, aturn, giveBack, tails, readFaults>>
      BY <2>5 DEF engVars
    <3>2. EngTypes /\ Alone /\ StaysEngaged
      BY DEF EngInv
    <3>3. /\ EngTypes' /\ Winners' /\ Kinds' /\ SlotsHeld' /\ InSlotOrder'
          /\ (MentionDone' <=> MentionDone) /\ (OnlyMention' <=> OnlyMention)
      BY <3>1, <3>2, AgentLeaves DEF EngTypes
    <3>4. Alone' /\ StaysEngaged'
      BY <3>1, <3>2, <3>3 DEF Alone, MentionAbout, StaysEngaged, LoneReply, AtPc
    <3> QED
      BY <3>3, <3>4 DEF EngInv
  <2> QED
    BY <2>1, <2>2, <2>3, <2>4, <2>5 DEF EngNext
<1> QED
  BY <1>1, EngInvInit, PTL DEF EngSpec

\* A mention that arrived and whose handlers are all at rest was dispatched, or
\* its own reads failed.
LEMMA RestIsServed == EngInv => MentionReachesAgent
<1> SUFFICES ASSUME EngInv, \A d \in Delivery : ~HandlerCanMove(d),
                    NEW m \in Mentions, NEW k \in MentionCopies, ~AtPc(<<m, k>>, "new")
             PROVE  \E c \in MentionCopies : deliv[<<m, c>>].pc \in {"done", "failed"}
  BY DEF MentionReachesAgent
<1>1. <<m, k>> \in Delivery /\ <<m, k>>[1] = m /\ deliv \in [Delivery -> HandlerRec]
  BY HandlersOfEvents DEF EngInv, EngTypes
<1>2. Reading = {}
  <2> SUFFICES ASSUME NEW d \in Reading PROVE FALSE
    OBVIOUS
  <2>1. slots \in Seq(Delivery) /\ QueueOf(slots, Reading)
    BY DEF EngInv, EngTypes, SlotsHeld
  <2>2. 1 \in 1..Len(slots)
    BY <2>1 DEF QueueOf
  <2>3. slots[1] \in Reading
    BY <2>1, <2>2 DEF QueueOf
  <2>4. HandlerCanMove(slots[1])
    BY <2>3 DEF HandlerCanMove, Ready, Reading, AtPc
  <2> QED
    BY <2>3, <2>4 DEF Reading
<1>3. \A d \in Delivery : deliv[d].pc \in {"new", "done", "failed", "dropped"}
  BY <1>2 DEF HandlerCanMove, Reading, AtPc
<1>4. m \in seen
  <2>1. deliv[<<m, k>>].pc \in {"done", "failed", "dropped"}
    BY <1>1, <1>3 DEF AtPc
  <2> QED
    BY <1>1, <2>1 DEF EngInv, Winners, Won, AtPc
<1>5. PICK d \in Delivery : Won(d) /\ d[1] = m
  BY <1>4 DEF EngInv, Winners
<1>6. deliv[d].pc \in {"done", "failed"}
  BY <1>3, <1>5 DEF Won
<1>7. PICK c \in MentionCopies : d = <<m, c>>
  BY <1>5, HandlersOfEvents
<1> QED
  BY <1>6, <1>7

\* gateway.ts:2424-2430, :2485-2486, :3607-3609: for any events, copies and
\* failed reads, the thread's messages reach the agent once each, in the order
\* of their slots; every mention that arrives does, unless its own reads fail;
\* and a lone mention that was answered leaves the thread engaged.
THEOREM ThreadServed == EngSpec => []ThreadIsServed
<1>1. EngInv => DispatchedOnce
  <2> SUFFICES ASSUME EngInv, NEW i \in DOMAIN tails.sent, NEW j \in DOMAIN tails.sent,
                      tails.sent[i] = tails.sent[j]
               PROVE  i = j
    BY DEF DispatchedOnce
  <2>1. tails.sent \in Seq(EvTs)
    BY DEF EngInv, EngTypes, TailsRec
  <2> QED
    BY <2>1 DEF EngInv, SlotsHeld
<1>2. EngInv => SlotOrder
  <2> SUFFICES ASSUME EngInv, NEW i \in DOMAIN tails.sent, NEW j \in DOMAIN tails.sent,
                      NEW k \in DOMAIN tails.took, NEW l \in DOMAIN tails.took,
                      i < j, tails.took[k] = tails.sent[i], tails.took[l] = tails.sent[j]
               PROVE  k < l
    BY DEF SlotOrder
  <2>1. tails.sent \in Seq(EvTs) /\ tails.took \in Seq(EvTs)
    BY DEF EngInv, EngTypes, TailsRec
  <2>2. TookBefore(tails.took, tails.sent[i], tails.sent[j])
    BY <2>1 DEF EngInv, InSlotOrder
  <2> QED
    BY <2>1, <2>2 DEF TookBefore
<1>3. EngInv => LoneReplyKeepsEngaged
  BY DEF EngInv, StaysEngaged, OnlyMention, LoneReply, LoneReplyKeepsEngaged
<1>4. EngInv => ThreadIsServed
  BY <1>1, <1>2, <1>3, RestIsServed DEF ThreadIsServed
<1> QED
  BY <1>4, EngInvHolds, PTL

=============================================================================
