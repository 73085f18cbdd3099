---------------------------- MODULE PanelControl ----------------------------
(***************************************************************************)
(* Operators taking a session from Slack: the active-surface lock of       *)
(* src/queue/panel-lock.ts, the lock requests of gateway/panel/api.ts, and *)
(* in every replica (gateway/core/gateway.ts 520-690, 3547-3580) the local *)
(* mark, the 1 s owner cache, the deferred messages and their replay.      *)
(*                                                                         *)
(* One session.  Messages arrive in order, each at one replica, where they *)
(* are handled one at a time; a reply of the agent asks the same question  *)
(* (held?) at any time.                                                    *)
(***************************************************************************)
EXTENDS Naturals, Sequences, FiniteSets

CONSTANTS
    PReplica, POper, NoOper,
    PMsg,        \* Slack messages, in arrival order
    PReply,      \* replies of the agent that reach a replica
    MaxRequests, \* bound: requests of operators
    MaxPubLost   \* bound: broadcasts one replica does not get

ASSUME PanelAssumption ==
    /\ PReplica # {} /\ NoOper \notin POper
    /\ PMsg \subseteq Nat /\ PMsg \cap PReply = {}
    /\ {MaxRequests, MaxPubLost} \subseteq Nat

VARIABLES
    plock,     \* the key panel:<session>
    mark,      \* mark[r]: panelHeldLocal has the session
    owner,     \* owner[r]: the cached lookup: none, free or held
    ask_,      \* ask_[q]: a message or a reply, and how far it is
    deferq,    \* deferq[r]: held messages
    replay,    \* replay[r]: drains under way, each the messages it has left
    op,        \* op[o]: the request an operator has outstanding
    sweep,     \* sweep[r]: the sweeper's tick
    news,      \* news[r]: broadcasts on their way to r
    sure,      \* replicas that dropped their cache for the present lock, and
               \* had no lookup out when they did
    pspent

panelVars == <<plock, mark, owner, ask_, deferq, replay, op, sweep, news, sure, pspent>>

Asks == PMsg \cup PReply
NoRequest == [pc |-> "idle", at |-> CHOOSE r \in PReplica : TRUE, had |-> FALSE]

PanelInit ==
    /\ plock = NoOper
    /\ mark = [r \in PReplica |-> FALSE] /\ owner = [r \in PReplica |-> "none"]
    /\ ask_ = [q \in Asks |-> [st |-> "new", at |-> CHOOSE r \in PReplica : TRUE, runs |-> 0]]
    /\ deferq = [r \in PReplica |-> << >>] /\ replay = [r \in PReplica |-> {}]
    /\ op = [o \in POper |-> NoRequest]
    /\ sweep = [r \in PReplica |-> "idle"]
    /\ news = [r \in PReplica |-> {}]
    /\ sure = {} /\ pspent = [requests |-> 0, lost |-> 0]

Reading(r) == {q \in Asks : ask_[q].at = r /\ ask_[q].st \in {"sawFree", "sawHeld"}}
Out(f, q) == [f EXCEPT ![q].st = "out", ![q].runs = @ + 1]

-----------------------------------------------------------------------------
(***************************************************************************)
(* Is it held?  (panelHeldAsync, and what its two callers do)              *)
(***************************************************************************)
\* A message is deferred or dispatched; a reply is suppressed or posted.
Answered(q, r, held) ==
    IF ~held THEN ask_' = Out([ask_ EXCEPT ![q].at = r], q) /\ UNCHANGED deferq
    ELSE IF q \in PReply
    THEN ask_' = [ask_ EXCEPT ![q].at = r, ![q].st = "quiet"] /\ UNCHANGED deferq
    ELSE /\ ask_' = [ask_ EXCEPT ![q].at = r, ![q].st = "deferred"]
         /\ deferq' = [deferq EXCEPT ![r] = Append(@, q)]

\* A message has its turn at its replica: no other is being looked up there.
HasSlot(q, r) ==
    q \in PMsg => /\ \A m \in PMsg : m < q => ask_[m].st # "new"
                  /\ Reading(r) \cap PMsg = {}

\* The local mark or a fresh cache answers at once.
AskLocal(q, r) ==
    /\ ask_[q].st = "new" /\ HasSlot(q, r)
    /\ mark[r] \/ owner[r] # "none"
    /\ Answered(q, r, mark[r] \/ owner[r] = "held")
    /\ UNCHANGED <<plock, mark, owner, replay, op, sweep, news, sure, pspent>>

\* Or, with no answer or one that is too old by now (the mark's 60 s, the
\* cache's 1 s), the lock's owner is read from Redis.
AskRedis(q, r) ==
    /\ ask_[q].st = "new" /\ HasSlot(q, r)
    /\ mark' = [mark EXCEPT ![r] = FALSE] /\ owner' = [owner EXCEPT ![r] = "none"]
    /\ ask_' = [ask_ EXCEPT ![q].at = r, ![q].st = IF plock = NoOper THEN "sawFree" ELSE "sawHeld"]
    /\ UNCHANGED <<plock, deferq, replay, op, sweep, news, sure, pspent>>

\* Its reply is cached whatever happened meanwhile.
AskLands(q) ==
    LET r == ask_[q].at  held == ask_[q].st = "sawHeld" IN
    /\ q \in Reading(r)
    /\ owner' = [owner EXCEPT ![r] = IF held THEN "held" ELSE "free"]
    /\ Answered(q, r, held)
    /\ UNCHANGED <<plock, mark, replay, op, sweep, news, sure, pspent>>

-----------------------------------------------------------------------------
(***************************************************************************)
(* Operators                                                               *)
(***************************************************************************)
Request(o) ==
    /\ op[o].pc = "idle" /\ pspent.requests < MaxRequests
    /\ pspent' = [pspent EXCEPT !.requests = @ + 1]

\* acquire (lock, chat), or heartbeat by the owner: the key, owner-checked.
Take(o, r, chat) ==
    /\ Request(o) /\ plock \in {NoOper, o}
    /\ plock' = o
    /\ op' = [op EXCEPT ![o] = [pc |-> IF chat THEN "chatMark" ELSE "mark", at |-> r, had |-> chat /\ plock = o]]
    /\ sure' = IF plock = o THEN sure ELSE {}
    /\ UNCHANGED <<mark, owner, ask_, deferq, replay, sweep, news>>

\* steal reads the owner and sets the key: two commands.
StealReads(o, r) ==
    /\ Request(o)
    /\ op' = [op EXCEPT ![o] = [pc |-> "steal", at |-> r, had |-> FALSE]]
    /\ UNCHANGED <<plock, mark, owner, ask_, deferq, replay, sweep, news, sure>>

StealSets(o) ==
    /\ op[o].pc = "steal"
    /\ plock' = o /\ sure' = IF plock = NoOper THEN {} ELSE sure
    /\ op' = [op EXCEPT ![o].pc = "mark"]
    /\ UNCHANGED <<mark, owner, ask_, deferq, replay, sweep, news, pspent>>

\* panelMarkHeld, once the command's reply is there.
MarkHeld(o) ==
    LET r == op[o].at IN
    /\ op[o].pc \in {"mark", "chatMark"}
    /\ mark' = [mark EXCEPT ![r] = TRUE] /\ owner' = [owner EXCEPT ![r] = "held"]
    /\ news' = [x \in PReplica |-> news[x] \cup {"hold"}]
    /\ op' = [op EXCEPT ![o] = IF @.pc = "mark" THEN NoRequest ELSE [@ EXCEPT !.pc = "chat"]]
    /\ UNCHANGED <<plock, ask_, deferq, replay, sweep, sure, pspent>>

ChatGoes(o) ==
    /\ op[o].pc = "chat" /\ op' = [op EXCEPT ![o] = NoRequest]
    /\ UNCHANGED <<plock, mark, owner, ask_, deferq, replay, sweep, news, sure, pspent>>

\* The operator releases, or its chat fails: the key, owner-checked, and then
\* the resume (after a failed chat also when the key was not its own any more).
Frees(o) == plock' = (IF plock = o THEN NoOper ELSE plock) /\ sure' = IF plock = o THEN {} ELSE sure

PanelRelease(o, r) ==
    /\ Request(o) /\ plock = o /\ Frees(o)
    /\ op' = [op EXCEPT ![o] = [pc |-> "resume", at |-> r, had |-> FALSE]]
    /\ UNCHANGED <<mark, owner, ask_, deferq, replay, sweep, news>>

ChatFails(o) ==
    /\ op[o].pc = "chat" /\ Frees(o)
    /\ op' = [op EXCEPT ![o].pc = "resume"]
    /\ UNCHANGED <<mark, owner, ask_, deferq, replay, sweep, news, pspent>>

\* The operator's tab is gone for the lock's TTL.
PanelLapse ==
    /\ plock # NoOper /\ plock' = NoOper /\ sure' = {}
    /\ UNCHANGED <<mark, owner, ask_, deferq, replay, op, sweep, news, pspent>>

-----------------------------------------------------------------------------
(***************************************************************************)
(* Resume: drain here, then tell the others                                *)
(***************************************************************************)
\* drainPanelDefer: the queue is taken whole, and its messages are replayed one
\* after another, in a drain of their own.
Drain(r) ==
    /\ mark' = [mark EXCEPT ![r] = FALSE] /\ owner' = [owner EXCEPT ![r] = "none"]
    /\ replay' = [replay EXCEPT ![r] = IF deferq[r] = << >> THEN @ ELSE @ \cup {deferq[r]}]
    /\ deferq' = [deferq EXCEPT ![r] = << >>]

ReplayNext(r, d) ==
    /\ d \in replay[r]
    /\ ask_' = Out(ask_, Head(d))
    /\ replay' = [replay EXCEPT ![r] = (@ \ {d}) \cup (IF Len(d) = 1 THEN {} ELSE {Tail(d)})]
    /\ UNCHANGED <<plock, mark, owner, deferq, op, sweep, news, sure, pspent>>

OpResumes(o) ==
    /\ op[o].pc = "resume" /\ Drain(op[o].at)
    /\ op' = [op EXCEPT ![o].pc = "publish"]
    /\ UNCHANGED <<plock, ask_, sweep, news, sure, pspent>>

OpPublishes(o) ==
    /\ op[o].pc = "publish" /\ news' = [x \in PReplica |-> news[x] \cup {"resume"}]
    /\ op' = [op EXCEPT ![o] = NoRequest]
    /\ UNCHANGED <<plock, mark, owner, ask_, deferq, replay, sweep, sure, pspent>>

\* Mutant: the sweeper goes by the local marks.
SweepReads_Marks(r) ==
    /\ sweep[r] = "idle" /\ deferq[r] # << >> /\ plock = NoOper /\ mark[r]
    /\ sweep' = [sweep EXCEPT ![r] = "saw"]
    /\ UNCHANGED <<plock, mark, owner, ask_, deferq, replay, op, news, sure, pspent>>

\* Every second: a session with deferred messages whose lock is gone.
SweepReads(r) ==
    /\ sweep[r] = "idle" /\ deferq[r] # << >> /\ plock = NoOper
    /\ sweep' = [sweep EXCEPT ![r] = "saw"]
    /\ UNCHANGED <<plock, mark, owner, ask_, deferq, replay, op, news, sure, pspent>>

SweepResumes(r) ==
    /\ sweep[r] = "saw" /\ Drain(r)
    /\ sweep' = [sweep EXCEPT ![r] = "publish"]
    /\ UNCHANGED <<plock, ask_, op, news, sure, pspent>>

SweepPublishes(r) ==
    /\ sweep[r] = "publish" /\ sweep' = [sweep EXCEPT ![r] = "idle"]
    /\ news' = [x \in PReplica |-> news[x] \cup {"resume"}]
    /\ UNCHANGED <<plock, mark, owner, ask_, deferq, replay, op, sure, pspent>>

\* Mutant: the broadcast does not touch the cache.
HearHold_Keep(r) ==
    /\ "hold" \in news[r] /\ news' = [news EXCEPT ![r] = @ \ {"hold"}]
    /\ sure' = IF plock # NoOper /\ Reading(r) = {} THEN sure \cup {r} ELSE sure
    /\ UNCHANGED <<plock, mark, owner, ask_, deferq, replay, op, sweep, pspent>>

HearHold(r) ==
    /\ "hold" \in news[r] /\ news' = [news EXCEPT ![r] = @ \ {"hold"}]
    /\ owner' = [owner EXCEPT ![r] = "none"]
    /\ sure' = IF plock # NoOper /\ Reading(r) = {} THEN sure \cup {r} ELSE sure
    /\ UNCHANGED <<plock, mark, ask_, deferq, replay, op, sweep, pspent>>

HearResume(r) ==
    /\ "resume" \in news[r] /\ news' = [news EXCEPT ![r] = @ \ {"resume"}]
    /\ Drain(r)
    /\ UNCHANGED <<plock, ask_, op, sweep, sure, pspent>>

NewsLost(r, w) ==
    /\ w \in news[r] /\ pspent.lost < MaxPubLost
    /\ news' = [news EXCEPT ![r] = @ \ {w}]
    /\ pspent' = [pspent EXCEPT !.lost = @ + 1]
    /\ UNCHANGED <<plock, mark, owner, ask_, deferq, replay, op, sweep, sure>>

-----------------------------------------------------------------------------
PanelNext ==
    \/ \E q \in Asks : AskLands(q) \/ \E r \in PReplica : AskLocal(q, r) \/ AskRedis(q, r)
    \/ \E o \in POper :
          \/ StealSets(o) \/ MarkHeld(o) \/ ChatGoes(o) \/ ChatFails(o)
          \/ OpResumes(o) \/ OpPublishes(o)
          \/ \E r \in PReplica :
                \/ StealReads(o, r) \/ PanelRelease(o, r)
                \/ \E chat \in BOOLEAN : Take(o, r, chat)
    \/ PanelLapse
    \/ \E r \in PReplica :
          \/ SweepReads(r) \/ SweepResumes(r) \/ SweepPublishes(r)
          \/ HearHold(r) \/ HearResume(r) \/ (\E w \in {"hold", "resume"} : NewsLost(r, w))
          \/ \E d \in replay[r] : ReplayNext(r, d)

PanelSpec == PanelInit /\ [][PanelNext]_panelVars

\* Timers run and awaited calls return; an operator's lock ends some day.
PanelFairSpec ==
    /\ PanelSpec
    /\ WF_panelVars(PanelLapse)
    /\ \A r \in PReplica :
          /\ WF_panelVars(SweepReads(r)) /\ WF_panelVars(SweepResumes(r))
          /\ WF_panelVars(SweepPublishes(r))
          /\ WF_panelVars(\E d \in replay[r] : ReplayNext(r, d))

-----------------------------------------------------------------------------
(***************************************************************************)
(* Properties                                                              *)
(***************************************************************************)
PanelTypeOK ==
    /\ plock \in POper \cup {NoOper}
    /\ mark \in [PReplica -> BOOLEAN] /\ owner \in [PReplica -> {"none", "free", "held"}]
    /\ ask_ \in [Asks -> [st : {"new", "sawFree", "sawHeld", "deferred", "quiet", "out"},
                          at : PReplica, runs : Nat]]
    /\ deferq \in [PReplica -> Seq(PMsg)] /\ replay \in [PReplica -> SUBSET Seq(PMsg)]
    /\ op \in [POper -> [pc : {"idle", "mark", "chatMark", "chat", "steal", "resume", "publish"},
                         at : PReplica, had : BOOLEAN]]
    /\ sweep \in [PReplica -> {"idle", "saw", "publish"}]
    /\ news \in [PReplica -> SUBSET {"hold", "resume"}] /\ sure \subseteq PReplica
    /\ pspent \in [requests : 0..MaxRequests, lost : 0..MaxPubLost]

\* A deferred message reaches the session once, although a release, the sweepers
\* of several replicas and broadcasts of both all drain its queue.
ReplayedOnce == \A m \in PMsg : ask_[m].runs <= 1

\* gateway.ts:591 "a Slack message deferred on a non-owning replica is replayed,
\* never orphaned": also when the resume broadcast does not arrive, and when the
\* message is deferred on a lookup that was true when it was made.
DeferredIsReplayed == \A m \in PMsg : ask_[m].st = "deferred" ~> ask_[m].st = "out"

\* What is deferred reaches its session, and reaches it once.
DeferredReplaysOnce == []ReplayedOnce /\ DeferredIsReplayed

\* A replica that was told of the lock with no lookup outstanding lets nothing
\* past it as long as the lock is held: no cached "free" survives, and no lookup
\* that was made before.  (What it lets out then is what a drain replays.)
ToldReplicaHolds ==
    [][\A q \in Asks : \A r \in sure :
          plock # NoOper => ~(/\ ask_[q].st \in {"new", "sawFree"}
                             /\ ask_'[q].st = "out" /\ ask_'[q].at = r)]_panelVars

\* gateway.ts:537 "Broadcast the acquisition so OTHER replicas invalidate any
\* stale 'unlocked' cache [..] otherwise a negative lookup cached [..] could mask
\* a lock taken here [..] letting inbound through": a replica that got the
\* broadcast does not answer "free" from its cache while the lock is held.  A
\* lookup that was outstanding when it got it writes the old answer back.
CacheKnowsLock ==
    \A r \in PReplica : plock # NoOper /\ pspent.lost = 0 /\ (\A o \in POper : op[o].pc = "idle")
                            /\ news[r] = {} /\ Reading(r) = {} /\ ~mark[r] => owner[r] # "free"

\* gateway.ts:2424 "without this two quick messages in one thread could reach
\* the session in the other order": messages of one replica are dispatched in
\* the order they arrived in.  A replayed one is outside that order.
ArrivalOrder ==
    \A a, b \in PMsg : a < b /\ ask_[a].at = ask_[b].at
        /\ ask_[b].st = "out" => ask_[a].st \in {"new", "out"}

\* panel/api.ts:1227 "release what this call took": a chat that fails does not
\* give away a lock its operator held before.
FailedChatKeepsLock ==
    [][\A o \in POper : op[o].pc = "chat" /\ op'[o].pc = "resume" /\ op[o].had => plock' = plock]_panelVars
=============================================================================
