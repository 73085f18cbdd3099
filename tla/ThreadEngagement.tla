--------------------------- MODULE ThreadEngagement ---------------------------
(***************************************************************************)
(* One Slack thread at the gateway (src/gateway/core/gateway.ts): the      *)
(* message router and the app_mention handler, the engagement of the       *)
(* thread's session row, the dedup claim (db/seen-events.ts), the order of *)
(* the dispatch tail, and the end of a turn, where a mention that only got *)
(* a pass gives the engagement back.                                       *)
(*                                                                         *)
(* An event is delivered as copies: a mention comes as app_mention and as  *)
(* message, and Slack may send any of them again.  Every await of a        *)
(* handler is a point where other handlers run.  The decision gate is off, *)
(* no panel operator holds the session, and the route is one process's.    *)
(***************************************************************************)
EXTENDS Naturals, Sequences, FiniteSets, SequencesExt

CONSTANTS
    Mentions, Plains, Colleagues, \* event timestamps: of the agent, of nobody, of a colleague
    MentionCopies, OtherCopies,   \* deliveries of one event
    StartRows,                    \* the row before: of "none", "in", "out"
    MaxReadFaults                 \* bound: messages whose reads throw

EvTs == Mentions \cup Plains \cup Colleagues
Delivery == (Mentions \X MentionCopies) \cup ((Plains \cup Colleagues) \X OtherCopies)

ASSUME EngagementAssumption ==
    /\ Mentions \cap Plains = {} /\ Mentions \cap Colleagues = {} /\ Plains \cap Colleagues = {}
    /\ StartRows \subseteq {"none", "in", "out"} /\ MaxReadFaults \in Nat

VARIABLES
    sessRow,  \* the session row: "none", "in" (engaged) or "out"
    seen,     \* claimed timestamps
    deliv,    \* deliv[d]: a handler: where it is, its engagedBefore, suppress
    slots,    \* dispatchOrder: handlers whose slot is not released, oldest first
    route,    \* the session's route: engagedBefore, passed, spoke, suppress
    pend,     \* messages dispatched and not begun
    aturn,    \* the agent's turn, with what it really did
    giveBack, \* the done handlers about to write engaged = 0
    tails,    \* history: the timestamps dispatched, and the slots taken
    readFaults

engVars == <<sessRow, seen, deliv, slots, route, pend, aturn, giveBack, tails, readFaults>>

Undef == "undefined"
NoTurn == [on |-> FALSE, of |-> 0, passed |-> FALSE, spoke |-> FALSE, alone |-> TRUE, rec |-> FALSE]

EngInit ==
    /\ sessRow \in StartRows
    /\ seen = {} /\ slots = <<>> /\ pend = <<>> /\ giveBack = 0 /\ readFaults = 0
    /\ deliv = [d \in Delivery |-> [pc |-> "new", before |-> Undef, suppress |-> FALSE]]
    /\ route = [before |-> Undef, passed |-> FALSE, spoke |-> FALSE, suppress |-> FALSE]
    /\ aturn = NoTurn
    /\ tails = [sent |-> <<>>, took |-> <<>>, ended |-> {}]

AtPc(d, pc) == deliv[d].pc = pc
Steps(d, pc) == deliv' = [deliv EXCEPT ![d].pc = pc]
Handled(d, suppress) == deliv' = [deliv EXCEPT ![d].pc = "claim", ![d].suppress = suppress]
Drops(d) == Steps(d, "dropped")

-----------------------------------------------------------------------------
(***************************************************************************)
(* The router                                                              *)
(***************************************************************************)
\* engageOnMention writes nothing for a timestamp that is already claimed.
SeenRead(d) ==
    /\ d[1] \in Mentions /\ AtPc(d, "new")
    /\ Steps(d, IF d[1] \in seen THEN "claim" ELSE "prior")
    /\ UNCHANGED <<sessRow, seen, slots, route, pend, aturn, giveBack, tails, readFaults>>

PriorRead(d) ==
    /\ AtPc(d, "prior")
    /\ deliv' = [deliv EXCEPT ![d].pc = "engage", ![d].before = IF sessRow = "in" THEN "yes" ELSE "no"]
    /\ UNCHANGED <<sessRow, seen, slots, route, pend, aturn, giveBack, tails, readFaults>>

EngageWrite(d) ==
    /\ AtPc(d, "engage") /\ Steps(d, "claim")
    /\ sessRow' = IF sessRow = "none" THEN "none" ELSE "in"
    /\ UNCHANGED <<seen, slots, route, pend, aturn, giveBack, tails, readFaults>>

\* A colleague is mentioned: the whole thread is disengaged.
DisengageThread(d) ==
    /\ d[1] \in Colleagues /\ AtPc(d, "new") /\ Steps(d, "findAny")
    /\ sessRow' = IF sessRow = "none" THEN "none" ELSE "out"
    /\ UNCHANGED <<seen, slots, route, pend, aturn, giveBack, tails, readFaults>>

RecordFor(d) ==
    /\ AtPc(d, "findAny")
    /\ IF sessRow = "none" THEN Drops(d) ELSE Handled(d, TRUE)
    /\ UNCHANGED <<sessRow, seen, slots, route, pend, aturn, giveBack, tails, readFaults>>

\* A plain reply: run in an engaged thread, recorded in a disengaged one.
PlainRead(d) ==
    /\ d[1] \in Plains /\ AtPc(d, "new")
    /\ IF sessRow = "none" THEN Drops(d) ELSE Handled(d, sessRow = "out")
    /\ UNCHANGED <<sessRow, seen, slots, route, pend, aturn, giveBack, tails, readFaults>>

-----------------------------------------------------------------------------
(***************************************************************************)
(* handleMessage                                                           *)
(***************************************************************************)
\* INSERT OR IGNORE: one caller wins.
Wins(d) == d[1] \notin seen

Claim(d) ==
    /\ AtPc(d, "claim")
    /\ IF Wins(d) THEN seen' = seen \cup {d[1]} /\ Steps(d, "ensure")
                  ELSE Drops(d) /\ UNCHANGED seen
    /\ UNCHANGED <<sessRow, slots, route, pend, aturn, giveBack, tails, readFaults>>

\* A session row is born engaged.
EnsureSession(d) ==
    /\ AtPc(d, "ensure") /\ Steps(d, "slot")
    /\ sessRow' = IF sessRow = "none" THEN "in" ELSE sessRow
    /\ UNCHANGED <<seen, slots, route, pend, aturn, giveBack, tails, readFaults>>

TakeDispatchSlot(d) ==
    /\ AtPc(d, "slot") /\ Steps(d, "reads")
    /\ slots' = Append(slots, d)
    /\ tails' = [tails EXCEPT !.took = Append(@, d[1])]
    /\ UNCHANGED <<sessRow, seen, route, pend, aturn, giveBack, readFaults>>

\* Mutant: the slot is released at the end of the tail, not in the finally.
Released_AtEnd(d, ok) == IF ok THEN RemoveFirst(slots, d) ELSE slots

Released(d, ok) == RemoveFirst(slots, d)

ReadsThrow(d) ==
    /\ AtPc(d, "reads") /\ readFaults < MaxReadFaults
    /\ readFaults' = readFaults + 1
    /\ Steps(d, "failed") /\ slots' = Released(d, FALSE)
    /\ UNCHANGED <<sessRow, seen, route, pend, aturn, giveBack, tails>>

Ready(d) == slots[1] = d

\* The reads of the user's name, the attachments and the memory land, whenever;
\* then the route is the new message's, and it is dispatched.
DispatchTail(d) ==
    LET v == deliv[d] IN
    /\ AtPc(d, "reads") /\ Ready(d)
    /\ route' = [before |-> IF v.before = Undef THEN route.before ELSE v.before,
                 passed |-> FALSE, spoke |-> FALSE, suppress |-> v.suppress]
    /\ pend' = Append(pend, [ts |-> d[1], suppress |-> v.suppress,
                            lone |-> ~aturn.on /\ pend = <<>> /\ giveBack = 0])
    /\ aturn' = [aturn EXCEPT !.alone = ~aturn.on]
    /\ tails' = [tails EXCEPT !.sent = Append(@, d[1])]
    /\ Steps(d, "done") /\ slots' = Released(d, TRUE)
    /\ UNCHANGED <<sessRow, seen, giveBack, readFaults>>

-----------------------------------------------------------------------------
(***************************************************************************)
(* The agent's turns, as the gateway sees them                             *)
(***************************************************************************)
TurnStarts ==
    /\ ~aturn.on /\ pend # <<>>
    /\ aturn' = [NoTurn EXCEPT !.on = TRUE, !.of = pend[1].ts, !.rec = pend[1].suppress,
                               !.alone = pend[1].lone /\ Len(pend) = 1]
    /\ pend' = Tail(pend)
    /\ UNCHANGED <<sessRow, seen, deliv, slots, route, giveBack, tails, readFaults>>

\* A message pushed into the live session's turn.
TurnMerges ==
    /\ aturn.on /\ ~aturn.rec /\ pend # <<>> /\ ~pend[1].suppress
    /\ aturn' = [aturn EXCEPT !.alone = FALSE]
    /\ pend' = Tail(pend)
    /\ UNCHANGED <<sessRow, seen, deliv, slots, route, giveBack, tails, readFaults>>

\* A suppressed message is recorded: no tool of the agent runs.
TurnPasses ==
    /\ aturn.on /\ ~aturn.rec /\ ~aturn.passed
    /\ aturn' = [aturn EXCEPT !.passed = TRUE] /\ route' = [route EXCEPT !.passed = TRUE]
    /\ UNCHANGED <<sessRow, seen, deliv, slots, pend, giveBack, tails, readFaults>>

TurnReplies ==
    /\ aturn.on /\ ~aturn.rec /\ ~aturn.spoke
    /\ aturn' = [aturn EXCEPT !.spoke = TRUE] /\ route' = [route EXCEPT !.spoke = TRUE]
    /\ UNCHANGED <<sessRow, seen, deliv, slots, pend, giveBack, tails, readFaults>>

BeforeAfterDone(b) == Undef

\* The stop guard asks for a reply or a pass.
TurnDone ==
    /\ aturn.on /\ (aturn.rec \/ aturn.passed \/ aturn.spoke)
    /\ route' = [route EXCEPT !.before = BeforeAfterDone(route.before)]
    /\ giveBack' = IF ~route.suppress /\ route.passed /\ ~route.spoke /\ route.before = "no"
                   THEN giveBack + 1 ELSE giveBack
    /\ aturn' = NoTurn
    /\ tails' = IF aturn.of \in Mentions
                THEN [tails EXCEPT !.ended = @ \cup {[spoke |-> aturn.spoke, alone |-> aturn.alone]}]
                ELSE tails
    /\ UNCHANGED <<sessRow, seen, deliv, slots, pend, readFaults>>

GiveBackLands ==
    /\ giveBack > 0 /\ giveBack' = giveBack - 1
    /\ sessRow' = "out"
    /\ UNCHANGED <<seen, deliv, slots, route, pend, aturn, tails, readFaults>>

-----------------------------------------------------------------------------
EngNext ==
    \/ \E d \in Delivery :
          \/ SeenRead(d) \/ PriorRead(d) \/ EngageWrite(d)
          \/ DisengageThread(d) \/ RecordFor(d) \/ PlainRead(d)
          \/ Claim(d) \/ EnsureSession(d) \/ TakeDispatchSlot(d)
          \/ ReadsThrow(d) \/ DispatchTail(d)
    \/ TurnStarts \/ TurnMerges \/ TurnPasses \/ TurnReplies \/ TurnDone \/ GiveBackLands

EngSpec == EngInit /\ [][EngNext]_engVars

-----------------------------------------------------------------------------
(***************************************************************************)
(* Properties                                                              *)
(***************************************************************************)
EngTypeOK ==
    /\ sessRow \in {"none", "in", "out"} /\ seen \subseteq EvTs /\ giveBack \in Nat
    /\ \A d \in Delivery :
          /\ deliv[d].pc \in {"new", "prior", "engage", "findAny", "claim", "ensure", "slot", "reads",
                              "done", "failed", "dropped"}
          /\ deliv[d].before \in {"yes", "no", Undef} /\ deliv[d].suppress \in BOOLEAN
    /\ ToSet(slots) = {d \in Delivery : deliv[d].pc = "reads"}
    /\ \A i \in DOMAIN pend : pend[i].ts \in seen
    /\ route.before \in {"yes", "no", Undef}

\* Two copies of an event, or a copy sent again, reach the agent once
\* (gateway.ts:2485-2486).
DispatchedOnce == \A i, j \in DOMAIN tails.sent : tails.sent[i] = tails.sent[j] => i = j

\* Messages are dispatched in the order they took their slots, however long
\* the reads of each take (gateway.ts:2424-2428).
SlotOrder ==
    \A i, j \in DOMAIN tails.sent, k, l \in DOMAIN tails.took :
        i < j /\ tails.took[k] = tails.sent[i] /\ tails.took[l] = tails.sent[j] => k < l

\* One failing message never blocks the next, and no two copies of an event
\* leave it to each other (gateway.ts:2429-2430): when no handler has a step
\* left, a mention that arrived was dispatched, or its own reads failed.  A
\* handler takes finitely many steps, so every mention that arrives gets there.
HandlerCanMove(d) ==
    IF AtPc(d, "reads") THEN Ready(d) ELSE deliv[d].pc \notin {"new", "done", "failed", "dropped"}

MentionReachesAgent ==
    (\A d \in Delivery : ~HandlerCanMove(d))
        => \A m \in Mentions :
              (\E k \in MentionCopies : ~AtPc(<<m, k>>, "new"))
                  => \E k \in MentionCopies : deliv[<<m, k>>].pc \in {"done", "failed"}

Settled_ ==
    /\ \A d \in Delivery : deliv[d].pc \in {"new", "done", "failed", "dropped"}
    /\ pend = <<>> /\ ~aturn.on /\ giveBack = 0

NoColleague == \A d \in Delivery : d[1] \in Colleagues => AtPc(d, "new")
OneMention == \E m \in Mentions : \A d \in Delivery : d[1] \in Mentions \ {m} => AtPc(d, "new")

\* A mention answered while no other message was about leaves the thread
\* engaged, whatever later turns end in, until the agent or a colleague is
\* mentioned again (gateway.ts:3607-3609).
LoneReplyKeepsEngaged ==
    Settled_ /\ NoColleague /\ OneMention /\ [spoke |-> TRUE, alone |-> TRUE] \in tails.ended
        => sessRow = "in"

\* A thread is served: its messages reach the agent once each and in order,
\* every mention does, and the thread stays engaged after a reply.
ThreadIsServed == DispatchedOnce /\ SlotOrder /\ MentionReachesAgent /\ LoneReplyKeepsEngaged

\* "engagedBefore belongs to the turn that is ending" (gateway.ts:2324): a
\* mention that was answered leaves the thread engaged.
ReplyKeepsEngaged ==
    Settled_ /\ NoColleague /\ (\E e \in tails.ended : e.spoke) => sessRow = "in"

\* "A mention that the agent answers with pass (and nothing user-visible) must
\* not leave the thread engaged when it was not engaged before"
\* (tests/gateway/core/pass-engagement.test.ts:14-18).  Of threads that
\* StartRows says were not engaged.
PassingMentionNoInvitation ==
    Settled_ /\ (\E e \in tails.ended : ~e.spoke /\ e.alone) => sessRow # "in"
=============================================================================
