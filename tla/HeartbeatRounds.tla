-------------------------- MODULE HeartbeatRounds ---------------------------
(***************************************************************************)
(* The heartbeat rounds of one agent over one source it watches            *)
(* (src/proactive/heartbeat.ts, triage-tools.ts): what triage reads and    *)
(* routes, what code then posts, records (db/proactive-posts.ts) and takes *)
(* further (dispatch.ts), and how far the source's watermark moves         *)
(* (db/heartbeat-watermarks.ts).  Items appear in the source at most Lag   *)
(* after their own time.  Every item is one the model would route.         *)
(***************************************************************************)
EXTENDS Integers, FiniteSets

CONSTANTS
    HbLeader,    \* whose rounds run: one leader, or also one it overtook
    Item,
    Acts,        \* the items whose level is ask or act
    Lag,         \* how long an item takes to show up in its source
    Margin,      \* WATERMARK_OVERLAP_MS
    MaxItems,    \* TRIAGE_MAX_ITEMS
    MaxPosts,    \* HEARTBEAT_MAX_POSTS
    MaxClock,    \* bound: the last instant
    MaxNotNow,   \* bound: restraint refusals that pass with time
    MaxHbFaults  \* bound: failed calls, cut passes, deaths

ASSUME HeartbeatAssumption ==
    /\ {Lag, Margin, MaxItems, MaxPosts, MaxClock, MaxNotNow, MaxHbFaults} \subseteq Nat
    /\ Acts \subseteq Item /\ MaxItems > 0 /\ MaxPosts > 0

VARIABLES
    clock,
    stamp,      \* stamp[i]: the time of an item that has appeared
    watermark,
    round,      \* round[r]: the round r runs
    posts,      \* posts[i]: posts of i that went out and that the ledger holds, and their turns
    settled,    \* items that were refused for good
    hbSpent

hbVars == <<clock, stamp, watermark, round, posts, settled, hbSpent>>

Never == -1
NoRound == [pc |-> "idle", start |-> 0, todo |-> {}, item |-> {}, count |-> 0,
            ok |-> FALSE, held |-> FALSE]
HbFault == hbSpent.faults < MaxHbFaults /\ hbSpent' = [hbSpent EXCEPT !.faults = @ + 1]
NotNow == hbSpent.notNow < MaxNotNow /\ hbSpent' = [hbSpent EXCEPT !.notNow = @ + 1]

HbInit ==
    /\ clock = 0 /\ watermark = 0 /\ settled = {}
    /\ posts = [i \in Item |-> [out |-> 0, kept |-> 0, turns |-> 0]]
    /\ stamp = [i \in Item |-> Never]
    /\ round = [r \in HbLeader |-> NoRound]
    /\ hbSpent = [faults |-> 0, notNow |-> 0]

HbTime == /\ clock < MaxClock /\ clock' = clock + 1
          /\ UNCHANGED <<stamp, watermark, round, posts, settled, hbSpent>>

ItemAppears(i) ==
    /\ stamp[i] = Never
    /\ \E t \in (clock - Lag)..clock : t >= 0 /\ stamp' = [stamp EXCEPT ![i] = t]
    /\ UNCHANGED <<clock, watermark, round, posts, settled, hbSpent>>

Since(t) == {i \in Item : stamp[i] >= t}
Recorded(i) == posts[i].kept > 0

-----------------------------------------------------------------------------
(***************************************************************************)
(* Triage                                                                  *)
(***************************************************************************)
StartRound(r) ==
    /\ round[r].pc = "idle"
    /\ round' = [round EXCEPT ![r] = [NoRound EXCEPT !.pc = "triage", !.start = clock]]
    /\ UNCHANGED <<clock, stamp, watermark, posts, settled, hbSpent>>

\* The pass reads the source since the watermark and routes what it found, up
\* to the limit of items.  A cut pass, one whose source failed or needs auth,
\* or which did not read it, routed some: the watermark will stay.
Triage(r, ok) ==
    /\ round[r].pc = "triage"
    /\ \E routed \in SUBSET Since(watermark) :
          /\ Cardinality(routed) <= MaxItems
          /\ ok => routed = Since(watermark) \/ Cardinality(routed) = MaxItems
          /\ round' = [round EXCEPT ![r].pc = "deciding", ![r].todo = routed, ![r].ok = ok]
    /\ IF ok THEN UNCHANGED hbSpent ELSE HbFault
    /\ UNCHANGED <<clock, stamp, watermark, posts, settled>>

\* A pass that errs decides nothing.
TriageErrs(r) ==
    /\ round[r].pc = "triage" /\ HbFault
    /\ round' = [round EXCEPT ![r] = NoRound]
    /\ UNCHANGED <<clock, stamp, watermark, posts, settled>>

-----------------------------------------------------------------------------
(***************************************************************************)
(* Deciding, posting and dispatching, one item after the other             *)
(***************************************************************************)
Taken(r, i) == [round[r] EXCEPT !.todo = @ \ {i}, !.item = {}, !.pc = "deciding"]
Dropped(r, i) == [Taken(r, i) EXCEPT !.held = TRUE]

\* The item dedupe: posted and recorded before, to whomever.
AlreadyPosted(r, i) ==
    /\ round[r].pc = "deciding" /\ i \in round[r].todo /\ Recorded(i)
    /\ round' = [round EXCEPT ![r] = Taken(r, i)]
    /\ UNCHANGED <<clock, stamp, watermark, posts, settled, hbSpent>>

\* Nobody to tell, proactiveness off there, or a refusal for good: unchanged,
\* muted, a channel that cannot take it.
NotPosted(r, i) ==
    /\ round[r].pc = "deciding" /\ i \in round[r].todo /\ ~Recorded(i)
    /\ round' = [round EXCEPT ![r] = Taken(r, i)]
    /\ settled' = settled \cup {i}
    /\ UNCHANGED <<clock, stamp, watermark, posts, hbSpent>>

\* The round's posts are used up, quiet hours, a daily cap or a cooldown, or
\* Slack throws: not delivered, to be read again.
NotDelivered(r, i) ==
    /\ round[r].pc = "deciding" /\ i \in round[r].todo /\ ~Recorded(i)
    /\ \/ round[r].count >= MaxPosts /\ UNCHANGED hbSpent
       \/ NotNow
       \/ HbFault
    /\ round' = [round EXCEPT ![r] = Dropped(r, i)]
    /\ UNCHANGED <<clock, stamp, watermark, posts, settled>>

\* Mutant: the round's posts are not counted against their limit.
MayPost_Uncapped(r, i) ==
    /\ round[r].pc = "deciding" /\ i \in round[r].todo /\ ~Recorded(i)
    /\ round' = [round EXCEPT ![r].pc = "posting", ![r].item = {i}]
    /\ UNCHANGED <<clock, stamp, watermark, posts, settled, hbSpent>>

\* Mutant: the last of the round's posts is never used.
MayPost_OffByOne(r, i) ==
    /\ round[r].pc = "deciding" /\ i \in round[r].todo /\ ~Recorded(i) /\ round[r].count + 1 < MaxPosts
    /\ round' = [round EXCEPT ![r].pc = "posting", ![r].item = {i}]
    /\ UNCHANGED <<clock, stamp, watermark, posts, settled, hbSpent>>

\* The reads before the post have passed it.
MayPost(r, i) ==
    /\ round[r].pc = "deciding" /\ i \in round[r].todo /\ ~Recorded(i) /\ round[r].count < MaxPosts
    /\ round' = [round EXCEPT ![r].pc = "posting", ![r].item = {i}]
    /\ UNCHANGED <<clock, stamp, watermark, posts, settled, hbSpent>>

PostItem(r, i) ==
    /\ round[r].pc = "posting" /\ round[r].item = {i}
    /\ posts' = [posts EXCEPT ![i].out = @ + 1]
    /\ round' = [round EXCEPT ![r].pc = "posted", ![r].count = @ + 1]
    /\ UNCHANGED <<clock, stamp, watermark, settled, hbSpent>>

\* A post the ledger did not take is posted all the same; its turn is not sent.
RecordPost(r, i, ok) ==
    /\ round[r].pc = "posted" /\ round[r].item = {i}
    /\ posts' = IF ok THEN [posts EXCEPT ![i].kept = @ + 1] ELSE posts
    /\ round' = [round EXCEPT ![r] = IF i \notin Acts THEN Taken(r, i)
                                     ELSE IF ok THEN [round[r] EXCEPT !.pc = "acting"] ELSE Dropped(r, i)]
    /\ IF ok THEN UNCHANGED hbSpent ELSE HbFault
    /\ UNCHANGED <<clock, stamp, watermark, settled>>

\* dispatchProactive.  No budget and a failed dispatch are not delivered.
ActOn(r, i, ok) ==
    /\ round[r].pc = "acting" /\ round[r].item = {i}
    /\ posts' = IF ok THEN [posts EXCEPT ![i].turns = @ + 1] ELSE posts
    /\ round' = [round EXCEPT ![r] = IF ok THEN Taken(r, i) ELSE Dropped(r, i)]
    /\ IF ok THEN UNCHANGED hbSpent ELSE HbFault
    /\ UNCHANGED <<clock, stamp, watermark, settled>>

-----------------------------------------------------------------------------
HigherOf(a, b) == IF a > b THEN a ELSE b

\* The journal, then the watermark: only of a complete pass, of a source read
\* well and with every item delivered; it never moves back.
FinishRound(r, stored) ==
    /\ round[r].pc = "deciding" /\ round[r].todo = {}
    /\ watermark' = IF round[r].ok /\ ~round[r].held /\ stored
                    THEN HigherOf(watermark, round[r].start - Margin) ELSE watermark
    /\ round' = [round EXCEPT ![r] = NoRound]
    /\ IF stored THEN UNCHANGED hbSpent ELSE HbFault
    /\ UNCHANGED <<clock, stamp, posts, settled>>

\* A leader dies mid-round; the next one runs the next round.
LeaderDies(r) ==
    /\ round[r].pc # "idle" /\ HbFault
    /\ round' = [round EXCEPT ![r] = NoRound]
    /\ UNCHANGED <<clock, stamp, watermark, posts, settled>>

ItemStep(r, i) ==
    \/ AlreadyPosted(r, i) \/ MayPost(r, i) \/ PostItem(r, i) \/ RecordPost(r, i, TRUE) \/ ActOn(r, i, TRUE)

HbNext ==
    \/ HbTime \/ \E i \in Item : ItemAppears(i)
    \/ \E r \in HbLeader :
          \/ StartRound(r) \/ TriageErrs(r) \/ LeaderDies(r)
          \/ \E ok \in BOOLEAN : Triage(r, ok) \/ FinishRound(r, ok)
          \/ \E i \in Item : \/ ItemStep(r, i) \/ NotPosted(r, i) \/ NotDelivered(r, i)
                             \/ RecordPost(r, i, FALSE) \/ ActOn(r, i, FALSE)

HbSpec == HbInit /\ [][HbNext]_hbVars

RoundStep(r) ==
    \/ Triage(r, TRUE) \/ FinishRound(r, TRUE)
    \/ \E i \in Item : ItemStep(r, i) \/ NotDelivered(r, i)

\* Some replica leads and starts its rounds; passes and calls come back.
HbFairness ==
    /\ WF_hbVars(\E r \in HbLeader : StartRound(r))
    /\ \A r \in HbLeader : WF_hbVars(RoundStep(r))
HbFairSpec == HbSpec /\ HbFairness

-----------------------------------------------------------------------------
(***************************************************************************)
(* Properties                                                              *)
(***************************************************************************)
HbTypeOK ==
    /\ clock \in 0..MaxClock /\ watermark \in 0..MaxClock
    /\ stamp \in [Item -> {Never} \cup 0..MaxClock]
    /\ round \in [HbLeader -> [pc : {"idle", "triage", "deciding", "posting", "posted", "acting"},
                                start : 0..MaxClock, todo : SUBSET Item, item : SUBSET Item,
                                count : 0..MaxPosts, ok : BOOLEAN, held : BOOLEAN]]
    /\ \A i \in Item : posts[i].turns <= posts[i].kept /\ posts[i].kept <= posts[i].out
    /\ settled \subseteq Item
    /\ hbSpent \in [faults : 0..MaxHbFaults, notNow : 0..MaxNotNow]

\* No item falls behind the watermark unposted, whatever refusal, failure,
\* cut pass or death its rounds met, unless it was refused for good.
NoItemSkipped ==
    \A i \in Item : stamp[i] # Never /\ stamp[i] < watermark
                    => i \in settled \/ posts[i].out > 0

\* "An item goes out once, to one place", and its turn once: again only if the
\* ledger did not take the post.
ItemGoesOutOnce ==
    \A i \in Item : /\ posts[i].kept <= 1 /\ posts[i].turns <= 1
                    /\ posts[i].out <= 1 + hbSpent.faults

RoundsDeliver == NoItemSkipped /\ ItemGoesOutOnce

\* An item that appeared goes out or is refused for good.
ItemIsSettled ==
    \A i \in Item : stamp[i] # Never ~> (i \in settled \/ posts[i].out > 0)

\* What the rounds of one source keep: nothing skipped, nothing sent twice, and
\* everything settled in the end.
RoundsKept == []RoundsDeliver /\ ItemIsSettled

\* "Transient (... a failed post or dispatch): read again next round."  The
\* item is read again and found already posted: its turn is never sent.
ActIsTaken ==
    [][\A r \in HbLeader : round[r].pc = "deciding" /\ round'[r].pc = "idle" =>
        \A i \in Acts : Recorded(i) /\ stamp[i] < watermark' => posts[i].turns > 0]_hbVars
=============================================================================
