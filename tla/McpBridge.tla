------------------------------- MODULE McpBridge -------------------------------
(***************************************************************************)
(* The gateway's MCP bridge for one server and one owner                   *)
(* (src/gateway/core/mcp-bridge.ts): the slots of a call, the pooled       *)
(* upstream session its calls share, the retry on a fresh session, the     *)
(* refresh after a 401, and the end of a session that went stale.          *)
(*                                                                         *)
(* A token is a number; the upstream takes tokens from `good` on.  The     *)
(* refresh is the one of CredentialRefresh: it hands out the good token.   *)
(* One pool key, so the pool's bound is not modelled.                      *)
(***************************************************************************)
EXTENDS Naturals, Sequences, FiniteSets, SequencesExt

CONSTANTS
    MbCall,
    Listing,     \* the calls that are tools/list: safe to repeat
    ThreadOf,    \* the thread each call is made in
    SessionConcurrency, OwnerConcurrency,
    MaxSessions, \* bound: upstream sessions at once
    MaxExpiries, \* bound: tokens that expire
    MaxMbFaults  \* bound: lost requests and answers, sessions forgotten, deadlines, failed refreshes

MbThread == {ThreadOf[c] : c \in MbCall}
Sid == 1..MaxSessions
NoSid == 0

ASSUME BridgeAssumption ==
    /\ IsFiniteSet(MbCall) /\ Listing \subseteq MbCall
    /\ SessionConcurrency \in Nat \ {0} /\ OwnerConcurrency \in Nat \ {0}
    /\ MaxSessions \in Nat /\ MaxExpiries \in Nat /\ MaxMbFaults \in Nat

VARIABLES
    mcall,    \* mcall[c]: where it is, the token it carries, its session, its flags and answer
    upSess,   \* upSess[i]: an upstream session
    pooled,   \* the session of the pool, or NoSid
    slotS,    \* slotS[t]: the slots of a thread: the count and those who wait
    slotO,    \* the owner's slots
    good,     \* the first token the upstream takes
    rowTok,   \* the token of the stored entry
    ran,      \* ran[c]: how often the upstream ran the call
    mbFaults

mbVars == <<mcall, upSess, pooled, slotS, slotO, good, rowTok, ran, mbFaults>>

NoSess == [st |-> "none", hdr |-> 0, inflight |-> 0, stale |-> FALSE, closing |-> FALSE, known |-> TRUE]
NewCall == [pc |-> "idle", tok |-> 0, sid |-> NoSid, sent |-> FALSE, refreshed |-> 0,
            reconnected |-> FALSE, ans |-> "-", out |-> "-"]

MbInit ==
    /\ mcall = [c \in MbCall |-> NewCall]
    /\ upSess = [i \in Sid |-> NoSess] /\ pooled = NoSid
    /\ slotS = [t \in MbThread |-> [n |-> 0, q |-> <<>>]] /\ slotO = [n |-> 0, q |-> <<>>]
    /\ good = 1 /\ rowTok = 1
    /\ ran = [c \in MbCall |-> 0] /\ mbFaults = 0

CallAt(c, pc) == mcall[c].pc = pc
MbFault == mbFaults < MaxMbFaults /\ mbFaults' = mbFaults + 1

-----------------------------------------------------------------------------
(***************************************************************************)
(* Slots                                                                   *)
(***************************************************************************)
Free(s, limit) == s.n < limit
Taken(s, c, limit) == IF Free(s, limit) THEN [s EXCEPT !.n = @ + 1] ELSE [s EXCEPT !.q = Append(@, c)]

\* A released slot is handed to the first waiter: the count stays as it was.
Freed(s) == IF s.q = <<>> THEN [s EXCEPT !.n = @ - 1] ELSE [s EXCEPT !.q = Tail(@)]
Heir(s) == IF s.q = <<>> THEN {} ELSE {s.q[1]}
LeftQueue(s, c) == [s EXCEPT !.q = RemoveFirst(@, c)]

\* chooseCredential, then the thread's slot.
BridgeCall(c) ==
    LET t == ThreadOf[c] IN
    /\ CallAt(c, "idle")
    /\ mcall' = [mcall EXCEPT ![c].pc = IF Free(slotS[t], SessionConcurrency) THEN "owner" ELSE "waitS",
                              ![c].tok = rowTok]
    /\ slotS' = [slotS EXCEPT ![t] = Taken(@, c, SessionConcurrency)]
    /\ UNCHANGED <<upSess, pooled, slotO, good, rowTok, ran, mbFaults>>

OwnerSlot(c) ==
    /\ CallAt(c, "owner")
    /\ mcall' = [mcall EXCEPT ![c].pc = IF Free(slotO, OwnerConcurrency) THEN "lease" ELSE "waitO"]
    /\ slotO' = Taken(slotO, c, OwnerConcurrency)
    /\ UNCHANGED <<upSess, pooled, slotS, good, rowTok, ran, mbFaults>>

\* The calls after c gives its slots back: who gets them moves on.
HandedOn(calls, c, owner) ==
    [d \in MbCall |->
        IF owner /\ d \in Heir(slotO) THEN [calls[d] EXCEPT !.pc = "lease"]
        ELSE IF d \in Heir(slotS[ThreadOf[c]]) THEN [calls[d] EXCEPT !.pc = "owner"]
        ELSE calls[d]]

\* The deadline passes, or the caller aborts, while the call waits for a slot.
GiveUp(c) ==
    LET t == ThreadOf[c]
        done == [mcall EXCEPT ![c].pc = "done", ![c].out = "busy"] IN
    /\ MbFault
    /\ \/ /\ CallAt(c, "waitS") /\ mcall' = done
          /\ slotS' = [slotS EXCEPT ![t] = LeftQueue(@, c)] /\ UNCHANGED slotO
       \/ /\ CallAt(c, "waitO") /\ mcall' = HandedOn(done, c, FALSE)
          /\ slotO' = LeftQueue(slotO, c) /\ slotS' = [slotS EXCEPT ![t] = Freed(@)]
    /\ UNCHANGED <<upSess, pooled, good, rowTok, ran>>

-----------------------------------------------------------------------------
(***************************************************************************)
(* The pool                                                                *)
(***************************************************************************)
\* Mutant: a retired session closes at once.
ClosesNow_Always(s) == TRUE

ClosesNow(s) == s.inflight = 0

Retired(ses, i) ==
    IF ses[i].stale THEN ses
    ELSE [ses EXCEPT ![i].stale = TRUE, ![i].closing = ClosesNow(ses[i])]

ClosesLast(s) == s.stale /\ s.inflight = 1

Unleased(ses, i) == [ses EXCEPT ![i].inflight = @ - 1, ![i].closing = @ \/ ClosesLast(ses[i])]

\* Mutant: the retired session stays in the pool.
OutOfPool_Never(i) == pooled

OutOfPool(i) == IF pooled = i THEN NoSid ELSE pooled

\* A number that no session has.
FreeSids == {i \in Sid : upSess[i].st = "none"}
FreeSid == CHOOSE i \in FreeSids : TRUE

\* Get or create, in one step: callers share one new session.  The headers
\* are this call's.
Lease(c) ==
    /\ CallAt(c, "lease")
    /\ \E i \in IF pooled # NoSid THEN {pooled} ELSE IF FreeSids = {} THEN {} ELSE {FreeSid} :
          /\ upSess' = IF pooled = i
                       THEN [upSess EXCEPT ![i].hdr = mcall[c].tok, ![i].inflight = @ + 1]
                       ELSE [upSess EXCEPT ![i] = [NoSess EXCEPT !.st = "opening", !.hdr = mcall[c].tok,
                                                                 !.inflight = 1]]
          /\ pooled' = i
          /\ mcall' = [mcall EXCEPT ![c].pc = "opening", ![c].sid = i, ![c].sent = FALSE]
    /\ UNCHANGED <<slotS, slotO, good, rowTok, ran, mbFaults>>

\* An idle session is retired by the next lease, or by another key's sweep.
IdleRetired ==
    /\ pooled # NoSid /\ upSess[pooled].inflight = 0
    /\ upSess' = Retired(upSess, pooled) /\ pooled' = NoSid
    /\ UNCHANGED <<mcall, slotS, slotO, good, rowTok, ran, mbFaults>>

\* initialize, with the headers of the moment.
OpenLands(i) ==
    /\ upSess[i].st = "opening"
    /\ upSess' = [upSess EXCEPT ![i].st = IF upSess[i].hdr >= good THEN "open" ELSE "401"]
    /\ UNCHANGED <<mcall, pooled, slotS, slotO, good, rowTok, ran, mbFaults>>

OpenLost(i) ==
    /\ upSess[i].st = "opening" /\ MbFault
    /\ upSess' = [upSess EXCEPT ![i].st = "error"]
    /\ UNCHANGED <<mcall, pooled, slotS, slotO, good, rowTok, ran>>

\* terminateSession, bounded, then close; at once for one that never opened.
CloseLands(i) ==
    /\ upSess[i].closing /\ upSess[i].st \in {"open", "401", "error"}
    /\ upSess' = [upSess EXCEPT ![i] = NoSess]
    /\ UNCHANGED <<mcall, pooled, slotS, slotO, good, rowTok, ran, mbFaults>>

-----------------------------------------------------------------------------
(***************************************************************************)
(* run                                                                     *)
(***************************************************************************)
\* The call ends: unlease, then both slots.
Ends(c, out, ses) ==
    LET t == ThreadOf[c] IN
    /\ upSess' = Unleased(ses, mcall[c].sid)
    /\ mcall' = HandedOn([mcall EXCEPT ![c].pc = "done", ![c].out = out, ![c].sid = NoSid], c, TRUE)
    /\ slotO' = Freed(slotO) /\ slotS' = [slotS EXCEPT ![t] = Freed(@)]

Again(c, ses) ==
    /\ upSess' = Unleased(ses, mcall[c].sid)
    /\ mcall' = [mcall EXCEPT ![c].pc = "lease", ![c].sid = NoSid, ![c].reconnected = TRUE]
    /\ UNCHANGED <<slotS, slotO>>

\* Mutant: a call that reached the upstream is retried like any other.
MayHaveRun_Never(c, e) == FALSE

MayHaveRun(c, e) == mcall[c].sent /\ c \notin Listing /\ e \in {"lost", "deadline"}

\* The catch of run, after an error e.
Caught(c, e) ==
    LET i == mcall[c].sid
        again == ~mcall[c].reconnected /\ e \in {"expired", "lost"} /\ ~MayHaveRun(c, e)
        retires == (~mcall[c].sent /\ e # "deadline") \/ e \in {"401", "expired"}
                       \/ MayHaveRun(c, e) \/ again
        ses == IF retires THEN Retired(upSess, i) ELSE upSess IN
    /\ pooled' = IF retires THEN OutOfPool(i) ELSE pooled
    /\ IF e = "401" /\ mcall[c].refreshed = 0
       THEN /\ mcall' = [mcall EXCEPT ![c].pc = "refreshing"] /\ upSess' = ses
            /\ UNCHANGED <<slotS, slotO>>
       ELSE IF e = "401" THEN Ends(c, "reauth", ses)
       ELSE IF MayHaveRun(c, e) THEN Ends(c, "interrupted", ses)
       ELSE IF again THEN Again(c, ses)
       ELSE Ends(c, "unavailable", ses)

\* The session is open: the request leaves with the headers of the moment.
SendRequest(c) ==
    LET i == mcall[c].sid IN
    /\ CallAt(c, "opening") /\ upSess[i].st = "open"
    /\ mcall' = [mcall EXCEPT ![c].pc = "asked", ![c].sent = TRUE,
                              ![c].ans = IF upSess[i].hdr < good THEN "401"
                                         ELSE IF upSess[i].known THEN "run" ELSE "expired"]
    /\ UNCHANGED <<upSess, pooled, slotS, slotO, good, rowTok, ran, mbFaults>>

OpenFailed(c) ==
    LET s == upSess[mcall[c].sid].st IN
    /\ CallAt(c, "opening") /\ s \in {"401", "error"}
    /\ Caught(c, IF s = "401" THEN "401" ELSE "lost")
    /\ UNCHANGED <<good, rowTok, ran, mbFaults>>

UpstreamRuns(c) ==
    /\ CallAt(c, "asked") /\ mcall[c].ans = "run"
    /\ ran' = [ran EXCEPT ![c] = @ + 1]
    /\ mcall' = [mcall EXCEPT ![c].ans = "ok"]
    /\ UNCHANGED <<upSess, pooled, slotS, slotO, good, rowTok, mbFaults>>

AnswerLands(c) ==
    /\ CallAt(c, "asked")
    /\ \/ mcall[c].ans = "ok" /\ Ends(c, "ok", upSess) /\ UNCHANGED pooled
       \/ mcall[c].ans \in {"401", "expired"} /\ Caught(c, mcall[c].ans)
    /\ UNCHANGED <<good, rowTok, ran, mbFaults>>

\* The connection drops, before or after the upstream ran the call.
AnswerLost(c) ==
    /\ CallAt(c, "asked") /\ mcall[c].ans \in {"run", "ok"} /\ MbFault
    /\ Caught(c, "lost")
    /\ UNCHANGED <<good, rowTok, ran>>

\* The call's deadline, while the session opens or the answer is awaited.
DeadlinePasses(c) ==
    /\ CallAt(c, "opening") \/ CallAt(c, "asked")
    /\ MbFault /\ Caught(c, "deadline")
    /\ UNCHANGED <<good, rowTok, ran>>

\* The refresher's answer: another caller's newer token when the row has one,
\* else a new one.  The next lease carries it.
RefreshAnswers(c) ==
    /\ CallAt(c, "refreshing")
    /\ \E tok \in {good} \cup ({rowTok} \ {mcall[c].tok}) :
          /\ rowTok' = tok
          /\ mcall' = [mcall EXCEPT ![c].pc = "lease", ![c].sid = NoSid, ![c].refreshed = tok, ![c].tok = tok]
    /\ upSess' = Unleased(upSess, mcall[c].sid)
    /\ UNCHANGED <<pooled, slotS, slotO, good, ran, mbFaults>>

RefreshRefused(c) ==
    /\ CallAt(c, "refreshing") /\ MbFault
    /\ Ends(c, "reauth", upSess)
    /\ UNCHANGED <<pooled, good, rowTok, ran>>

-----------------------------------------------------------------------------
TokenExpires ==
    /\ good <= MaxExpiries /\ good' = good + 1
    /\ UNCHANGED <<mcall, upSess, pooled, slotS, slotO, rowTok, ran, mbFaults>>

UpstreamForgets(i) ==
    /\ upSess[i].st = "open" /\ upSess[i].known /\ MbFault
    /\ upSess' = [upSess EXCEPT ![i].known = FALSE]
    /\ UNCHANGED <<mcall, pooled, slotS, slotO, good, rowTok, ran>>

MbNext ==
    \/ \E c \in MbCall :
          \/ BridgeCall(c) \/ OwnerSlot(c) \/ GiveUp(c) \/ Lease(c)
          \/ SendRequest(c) \/ OpenFailed(c) \/ UpstreamRuns(c) \/ AnswerLands(c) \/ AnswerLost(c)
          \/ DeadlinePasses(c) \/ RefreshAnswers(c) \/ RefreshRefused(c)
    \/ \E i \in Sid : OpenLands(i) \/ OpenLost(i) \/ CloseLands(i) \/ UpstreamForgets(i)
    \/ IdleRetired \/ TokenExpires

MbSpec == MbInit /\ [][MbNext]_mbVars

-----------------------------------------------------------------------------
(***************************************************************************)
(* Properties                                                              *)
(***************************************************************************)
Using(i) == {c \in MbCall : mcall[c].sid = i}
HoldsOwner(c) == mcall[c].pc \in {"lease", "opening", "asked", "refreshing"}
HoldsThread(c) == mcall[c].pc \in {"owner", "waitO"} \/ HoldsOwner(c)

\* A session counts the calls that lease it, and a slot counter the calls that
\* hold one.
MbTypeOK ==
    /\ \A i \in Sid : upSess[i].inflight = Cardinality(Using(i))
    /\ pooled \in Sid \cup {NoSid} /\ (pooled # NoSid => ~upSess[pooled].stale)
    /\ good \in Nat /\ rowTok \in 1..good /\ ran \in [MbCall -> Nat]
    /\ \A c \in MbCall : mcall[c].tok \in 0..good /\ mcall[c].refreshed \in 0..good

\* Never more calls of a thread, or of the owner, than their limit, and no
\* slot is lost: a call waits only while others hold every slot, and one that
\* gives up while it waits takes nothing with it (mcp-bridge.ts:847-849 and
\* 387-390).
SlotsAreKept ==
    /\ slotO.n = Cardinality({c \in MbCall : HoldsOwner(c)}) /\ slotO.n <= OwnerConcurrency
    /\ \A c \in MbCall : CallAt(c, "waitO") => slotO.n = OwnerConcurrency
    /\ \A t \in MbThread :
          /\ slotS[t].n = Cardinality({c \in MbCall : ThreadOf[c] = t /\ HoldsThread(c)})
          /\ slotS[t].n <= SessionConcurrency
          /\ \A c \in MbCall : ThreadOf[c] = t /\ CallAt(c, "waitS") => slotS[t].n = SessionConcurrency

\* The upstream runs a tools/call at most once, whatever is lost or retried
\* (mcp-bridge.ts:726-727 and 788-791).
AtMostOnce == \A c \in MbCall \ Listing : ran[c] <= 1

\* A session taken out of service is closed when nobody uses it any more:
\* never under a call in flight, and never left open upstream
\* (mcp-bridge.ts:613-614 and 649-651).  One that another call replaced in the
\* pool is out of service.
ClosedWhenUnused ==
    \A i \in Sid :
        /\ upSess[i].stale => (upSess[i].closing <=> Using(i) = {})
        /\ upSess[i].st # "none" => (upSess[i].stale <=> pooled # i)

\* What calls share is counted right: slots, and the sessions in use.
SharedIsCounted == SlotsAreKept /\ ClosedWhenUnused

\* "a refreshed token replaces the bearer in place" (mcp-bridge.ts:662):
\* nobody is asked to sign in again while the token the refresh handed out is
\* still good.
RefreshedIsServed ==
    \A c \in MbCall : mcall[c].out = "reauth" /\ mcall[c].refreshed # 0 => mcall[c].refreshed < good
=============================================================================
