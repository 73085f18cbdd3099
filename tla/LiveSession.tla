----------------------------- MODULE LiveSession ----------------------------
(***************************************************************************)
(* One session in AgentManager (src/agent/manager.ts): the CLI instances   *)
(* it boots one after another, the inputs pushed into them, and the ways   *)
(* an instance goes: reloads, the idle timer, an abort, a crash.  Between  *)
(* two awaits the code is atomic.  On a node one turn of the session runs  *)
(* at a time, after ensureConfigFp (node/worker.ts); in mono messages are  *)
(* sent as they come.                                                      *)
(***************************************************************************)
EXTENDS Naturals, Sequences, FiniteSets

CONSTANTS
    UMsg,        \* users' messages (strings)
    Fp,          \* session-config fingerprints, numbered as they become current
    MaxInst,     \* bound: instances booted
    MaxChecks,   \* bound: skill checks asked for
    MaxLsFaults  \* bound: stream losses, aborts, crashes, stuck exits, asked reloads, config changes

ASSUME LiveAssumption ==
    /\ {MaxInst, MaxChecks, MaxLsFaults} \subseteq Nat /\ 0 \in Fp /\ Fp \subseteq Nat
    /\ UMsg \cap {"continue", "check"} = {}

VARIABLES
    onNode,      \* node or mono
    inst,        \* inst[k]: the k-th instance
    cur,         \* the instance in #live, 0 if none
    send,        \* send[m]: where the sending of m is
    flight,      \* messages whose turn has not ended for the caller
    config,      \* the fingerprint of the session, and #desiredFp
    flags,       \* #pendingReload's continuation, #reloadAfterTurn
    starting,    \* budgeted checks whose run is being opened
    runs,        \* runs opened and runs ended
    lsSpent

lsVars == <<onNode, inst, cur, send, flight, config, flags, starting, runs, lsSpent>>

Inst == 1..MaxInst
Continue == "continue"
Check == "check"
Sender == UMsg \cup {Continue}
NoInst == [st |-> "none", queue |-> <<>>, fp |-> 0, why |-> "", evolve |-> FALSE,
           check |-> FALSE, run |-> FALSE, aborted |-> FALSE, seq |-> 0, dead |-> 0]
Instance == [st : {"none", "boot", "open", "closing", "ended", "gone"},
             queue : Seq(Sender \cup {Check}), fp : Fp,
             why : {"", "idle", "config", "stream", "asked"},
             evolve : BOOLEAN, check : BOOLEAN, run : BOOLEAN, aborted : BOOLEAN,
             seq : Nat, dead : Nat]
Sending == [pc : {"idle", "ensuring", "go", "reading", "waitExit", "waitCheck",
                  "boot", "in", "over"},
            fp : Fp, old : 0..MaxInst, amid : SUBSET Inst]
NoSend == [pc |-> "idle", fp |-> 0, old |-> 0, amid |-> {}]

LsInit ==
    /\ onNode \in BOOLEAN
    /\ inst = [k \in Inst |-> NoInst] /\ cur = 0
    /\ send = [m \in Sender |-> NoSend] /\ flight = {}
    /\ config = [now |-> 0, desired |-> 0]
    /\ flags = [continue |-> FALSE, afterTurn |-> FALSE]
    /\ starting = {} /\ runs = [opened |-> 0, ended |-> 0]
    /\ lsSpent = [faults |-> 0, checks |-> 0]

LsFault == lsSpent.faults < MaxLsFaults /\ lsSpent' = [lsSpent EXCEPT !.faults = @ + 1]
Reloading(k) == inst[k].why \in {"config", "stream", "asked"}
Leaving(k) == inst[k].why # ""
Running(k) == inst[k].st \in {"open", "closing"}
Pending(k) == Len(inst[k].queue)
Boots == {k \in Inst : inst[k].st = "boot"}
\* A done or error event ends every turn that has been sent: its waiter is set
\* with the send.
ToldEnd == {m \in flight : send[m].pc \in {"ensuring", "go"}}
Close(i, why) == [i EXCEPT !.st = "closing", !.why = why]
Unused == {k \in Inst : inst[k].st = "none"}
NextInst == CHOOSE k \in Unused : TRUE

-----------------------------------------------------------------------------
(***************************************************************************)
(* ensureConfigFp, on a node before each turn                              *)
(***************************************************************************)
ConfigChanges == /\ onNode /\ LsFault
                 /\ \E f \in {f \in Fp : f > config.now} : config' = [config EXCEPT !.now = f]
                 /\ UNCHANGED <<onNode, inst, cur, send, flight, flags, starting, runs>>

NoBoot == Boots = {}

\* The gateway's fingerprint is current, or the session reloads, now or after
\* its turn; a refused turn is claimed again.
Ensure(m) ==
    /\ onNode /\ m \in UMsg /\ send[m].pc = "idle" /\ flight = {}
    /\ config' = [config EXCEPT !.desired = config.now]
    /\ IF cur = 0 \/ inst[cur].fp = config.now
       THEN /\ cur = 0 => NoBoot
            /\ send' = [send EXCEPT ![m] = [pc |-> "go", fp |-> config.now, old |-> 0, amid |-> Boots]]
            /\ flight' = {m}
            /\ UNCHANGED <<inst, flags>>
       ELSE IF Pending(cur) > 0 /\ ~Reloading(cur)
       THEN flags' = [flags EXCEPT !.afterTurn = TRUE] /\ UNCHANGED <<inst, send, flight>>
       ELSE /\ inst' = IF Reloading(cur) \/ inst[cur].st = "ended" THEN inst
                       ELSE [inst EXCEPT ![cur] = Close(@, "config")]
            /\ send' = [send EXCEPT ![m] = [pc |-> "ensuring", fp |-> config.now, old |-> cur, amid |-> {}]]
            /\ flight' = {m}
            /\ UNCHANGED flags
    /\ UNCHANGED <<onNode, cur, starting, runs, lsSpent>>

\* The old instance has gone, or the wait is over.
Ensured(m) ==
    /\ send[m].pc = "ensuring"
    /\ LET ok == cur # send[m].old /\ (cur = 0 \/ inst[cur].fp = send[m].fp) IN
       /\ send' = [send EXCEPT ![m].pc = IF ok THEN "go" ELSE "idle",
                               ![m].amid = IF ok THEN Boots ELSE {}]
       /\ flight' = IF ok THEN flight ELSE {}
    /\ UNCHANGED <<onNode, inst, cur, config, flags, starting, runs, lsSpent>>

-----------------------------------------------------------------------------
(***************************************************************************)
(* #send                                                                   *)
(***************************************************************************)
Sendable(m) == send[m].pc = "go" \/ (~onNode /\ m \in UMsg /\ send[m].pc = "idle")
SetFlight(m) == flight' = flight \cup ({m} \cap UMsg)

\* Without an instance the working directory is read from the store first.
ReadSession(m) ==
    /\ Sendable(m) /\ cur = 0
    /\ send' = [send EXCEPT ![m].pc = "reading"]
    /\ SetFlight(m)
    /\ UNCHANGED <<onNode, inst, cur, config, flags, starting, runs, lsSpent>>

InstGone(k) == inst[k].st = "gone"
Awake(m) == \/ Sendable(m) /\ cur # 0
            \/ send[m].pc = "reading"
            \/ send[m].pc = "waitExit" /\ InstGone(send[m].old)
            \/ send[m].pc = "waitCheck" /\ (InstGone(send[m].old) \/ ~inst[send[m].old].check)

StartSession(m) ==
    /\ Unused # {}
    /\ inst' = [inst EXCEPT ![NextInst].st = "boot", ![NextInst].fp = config.desired]
    /\ send' = [send EXCEPT ![m].pc = "boot", ![m].old = NextInst]

\* The session as it is after each wait: boot one, wait for its exit, wait for
\* its check, or push.
EnterSession(m) ==
    /\ Awake(m)
    /\ IF cur = 0 THEN StartSession(m)
       ELSE IF Leaving(cur)
       THEN send' = [send EXCEPT ![m].pc = "waitExit", ![m].old = cur] /\ UNCHANGED inst
       ELSE IF inst[cur].check
       THEN send' = [send EXCEPT ![m].pc = "waitCheck", ![m].old = cur] /\ UNCHANGED inst
       ELSE /\ inst' = [inst EXCEPT ![cur].queue = Append(@, m), ![cur].seq = @ + 1,
                                    ![cur].dead = IF inst[cur].st = "ended" THEN @ + 1 ELSE @]
            /\ send' = [send EXCEPT ![m].pc = "in", ![m].old = cur]
    /\ IF Sendable(m) THEN SetFlight(m) ELSE UNCHANGED flight
    /\ UNCHANGED <<onNode, cur, config, flags, starting, runs, lsSpent>>

\* The old instance does not exit: the session is aborted, whichever instance
\* it has by now, the old one is detached, and one is booted for the message.
ExitTimesOut(m) ==
    /\ send[m].pc = "waitExit" /\ ~InstGone(send[m].old) /\ Unused # {} /\ LsFault
    /\ inst' = [k \in Inst |-> IF k = cur THEN [inst[k] EXCEPT !.aborted = TRUE]
                               ELSE IF k = NextInst THEN [inst[k] EXCEPT !.st = "boot", !.fp = config.desired]
                               ELSE inst[k]]
    /\ cur' = IF cur = send[m].old THEN 0 ELSE cur
    /\ send' = [send EXCEPT ![m].pc = "boot", ![m].old = NextInst]
    /\ flags' = [continue |-> FALSE, afterTurn |-> FALSE]
    /\ UNCHANGED <<onNode, flight, config, starting, runs>>

\* The boot reaches #live, whatever is there.
BootOk(m) ==
    /\ send[m].pc = "boot"
    /\ LET k == send[m].old IN
       /\ inst' = [inst EXCEPT ![k].st = "open", ![k].queue = <<m>>, ![k].seq = 1]
       /\ cur' = k
    /\ send' = [send EXCEPT ![m].pc = "in"]
    /\ UNCHANGED <<onNode, flight, config, flags, starting, runs, lsSpent>>

\* The caller gets the error, or an error event for a continuation.
BootFails(m) ==
    /\ send[m].pc = "boot" /\ LsFault
    /\ inst' = [inst EXCEPT ![send[m].old].st = "gone"]
    /\ send' = [send EXCEPT ![m].pc = IF m = Continue THEN "idle" ELSE "over"]
    /\ flight' = IF m = Continue THEN ToldEnd ELSE flight \ {m}
    /\ UNCHANGED <<onNode, cur, config, flags, starting, runs>>

-----------------------------------------------------------------------------
(***************************************************************************)
(* Results                                                                 *)
(***************************************************************************)
Rest(k) == Tail(inst[k].queue)
TurnEnded(k) == [inst[k] EXCEPT !.queue = Rest(k), !.check = FALSE,
                            !.run = IF inst[k].evolve THEN FALSE ELSE @]
RunEnds(k) == runs' = [runs EXCEPT !.ended = @ + (IF inst[k].evolve /\ inst[k].run THEN 1 ELSE 0)]
Answer(k) == LET m == Head(inst[k].queue)
             IN send' = IF m = Check THEN send
                        ELSE [send EXCEPT ![m].pc = IF m = Continue THEN "idle" ELSE "over"]

DeferredReload(k) == flags.afterTurn /\ Rest(k) = <<>>

\* A result of the instance in #live ends its oldest input.  A message's may be
\* followed by a check, whose run is opened first.
Result(k, wantsCheck) ==
    /\ k = cur /\ Running(k) /\ inst[k].queue # <<>>
    /\ wantsCheck => /\ ~inst[k].evolve /\ ~DeferredReload(k) /\ Rest(k) = <<>>
                     /\ lsSpent.checks < MaxChecks
    /\ inst' = [inst EXCEPT ![k] = IF DeferredReload(k) THEN Close([TurnEnded(k) EXCEPT !.evolve = FALSE], "config")
                                   ELSE [TurnEnded(k) EXCEPT !.evolve = FALSE]]
    /\ RunEnds(k) /\ Answer(k)
    /\ flight' = IF inst[k].evolve THEN flight ELSE ToldEnd
    /\ flags' = IF DeferredReload(k) THEN [flags EXCEPT !.afterTurn = FALSE] ELSE flags
    /\ starting' = IF wantsCheck THEN starting \cup {[of |-> k, seq |-> inst[k].seq]} ELSE starting
    /\ lsSpent' = IF wantsCheck THEN [lsSpent EXCEPT !.checks = @ + 1] ELSE lsSpent
    /\ UNCHANGED <<onNode, cur, config>>

\* The MCP stream was lost in the turn: the session reloads and continues by
\* itself, and the turn has not ended; a third time in a row it has.
ResultStreamLost(k, third) ==
    /\ k = cur /\ Running(k) /\ inst[k].queue # <<>> /\ LsFault
    /\ RunEnds(k) /\ Answer(k)
    /\ inst' = [inst EXCEPT ![k] = IF ~third THEN Close(TurnEnded(k), "stream")
                                   ELSE IF DeferredReload(k) THEN Close(TurnEnded(k), "config") ELSE TurnEnded(k)]
    /\ flags' = [continue |-> flags.continue \/ ~third, afterTurn |-> flags.afterTurn /\ ~DeferredReload(k)]
    /\ flight' = IF third THEN ToldEnd ELSE flight
    /\ UNCHANGED <<onNode, cur, config, starting>>

\* #fanout drops what a detached instance says.
DetachedResult(k) ==
    /\ k # cur /\ Running(k) /\ inst[k].queue # <<>>
    /\ inst' = [inst EXCEPT ![k].queue = Tail(@)]
    /\ UNCHANGED <<onNode, cur, send, flight, config, flags, starting, runs, lsSpent>>

-----------------------------------------------------------------------------
(***************************************************************************)
(* The budgeted check                                                      *)
(***************************************************************************)
MovedOn(s) == \/ cur # s.of \/ inst[s.of].seq # s.seq \/ Pending(s.of) > 0
              \/ inst[s.of].evolve \/ Reloading(s.of) \/ inst[s.of].aborted \/ flags.afterTurn

CheckStarts(s) ==
    /\ starting' = starting \ {s}
    /\ runs' = [opened |-> runs.opened + 1, ended |-> runs.ended + (IF MovedOn(s) THEN 1 ELSE 0)]
    /\ inst' = IF MovedOn(s) THEN inst
               ELSE [inst EXCEPT ![s.of].queue = Append(@, Check), ![s.of].seq = @ + 1,
                                 ![s.of].evolve = TRUE, ![s.of].check = TRUE, ![s.of].run = TRUE,
                                 ![s.of].dead = IF inst[s.of].st = "ended" THEN @ + 1 ELSE @]
    /\ UNCHANGED <<onNode, cur, send, flight, config, flags, lsSpent>>

CheckRefused(s) ==
    /\ starting' = starting \ {s}
    /\ UNCHANGED <<onNode, inst, cur, send, flight, config, flags, runs, lsSpent>>

-----------------------------------------------------------------------------
(***************************************************************************)
(* Leaving                                                                 *)
(***************************************************************************)
IdleFires(k) ==
    /\ k = cur /\ inst[k].st = "open" /\ Pending(k) = 0
    /\ inst' = [inst EXCEPT ![k] = Close(@, "idle")]
    /\ UNCHANGED <<onNode, cur, send, flight, config, flags, starting, runs, lsSpent>>

\* A tool, a connected server, a command: at once, whatever is outstanding.
Reload(k) ==
    /\ k = cur /\ Running(k) /\ ~Reloading(k) /\ LsFault
    /\ inst' = [inst EXCEPT ![k] = Close(@, "asked")]
    /\ \E prompt \in BOOLEAN : flags' = [flags EXCEPT !.continue = @ \/ prompt]
    /\ UNCHANGED <<onNode, cur, send, flight, config, starting, runs>>

\* The tenant's reload message on a node: reloadAfterTurn.
TenantReload ==
    /\ onNode /\ cur # 0 /\ ~Reloading(cur) /\ inst[cur].st # "ended" /\ LsFault
    /\ IF Pending(cur) > 0 THEN flags' = [flags EXCEPT !.afterTurn = TRUE] /\ UNCHANGED inst
       ELSE inst' = [inst EXCEPT ![cur] = Close(@, "config")] /\ UNCHANGED flags
    /\ UNCHANGED <<onNode, cur, send, flight, config, starting, runs>>

AbortSession ==
    /\ cur # 0 /\ LsFault
    /\ inst' = [inst EXCEPT ![cur].aborted = TRUE]
    /\ flags' = [continue |-> FALSE, afterTurn |-> FALSE]
    /\ UNCHANGED <<onNode, cur, send, flight, config, starting, runs>>

\* Mutant: a check cut off before its result leaves its run open.
QueryEnds_RunKept(k) ==
    /\ Running(k)
    /\ IF Leaving(k) \/ inst[k].aborted THEN UNCHANGED lsSpent ELSE LsFault
    /\ inst' = [inst EXCEPT ![k].st = IF k = cur THEN "ended" ELSE "gone", ![k].run = FALSE]
    /\ flight' = IF Reloading(k) \/ (inst[k].why = "idle" /\ ~inst[k].aborted) THEN flight ELSE ToldEnd
    /\ flags' = IF k = cur THEN [flags EXCEPT !.afterTurn = FALSE] ELSE flags
    /\ UNCHANGED <<onNode, cur, send, config, starting, runs>>

\* The query loop is over: the input closed, an abort, or the CLI died.  An
\* abort and a death are told, as done and as an error.
QueryEnds(k) ==
    /\ Running(k)
    /\ IF Leaving(k) \/ inst[k].aborted THEN UNCHANGED lsSpent ELSE LsFault
    /\ inst' = [inst EXCEPT ![k].st = IF k = cur THEN "ended" ELSE "gone", ![k].run = FALSE]
    /\ runs' = [runs EXCEPT !.ended = @ + (IF inst[k].run THEN 1 ELSE 0)]
    /\ flight' = IF Reloading(k) \/ (inst[k].why = "idle" /\ ~inst[k].aborted) THEN flight ELSE ToldEnd
    /\ flags' = IF k = cur THEN [flags EXCEPT !.afterTurn = FALSE] ELSE flags
    /\ UNCHANGED <<onNode, cur, send, config, starting>>

\* The status is written, then the session leaves #live, and a continuation is
\* sent after a reload.
Teardown(k) ==
    /\ inst[k].st = "ended"
    /\ inst' = [inst EXCEPT ![k].st = "gone"]
    /\ IF k = cur
       THEN LET more == Reloading(k) /\ flags.continue /\ send[Continue].pc = "idle" IN
            /\ cur' = 0
            /\ flags' = [continue |-> flags.continue /\ ~Reloading(k), afterTurn |-> FALSE]
            /\ send' = IF more THEN [send EXCEPT ![Continue].pc = "go"] ELSE send
       ELSE UNCHANGED <<cur, flags, send>>
    /\ UNCHANGED <<onNode, flight, config, starting, runs, lsSpent>>

-----------------------------------------------------------------------------
LsNext ==
    \/ ConfigChanges \/ AbortSession \/ TenantReload
    \/ \E m \in Sender : \/ Ensure(m) \/ Ensured(m) \/ ReadSession(m) \/ EnterSession(m)
                         \/ ExitTimesOut(m) \/ BootOk(m) \/ BootFails(m)
    \/ \E k \in Inst : \/ DetachedResult(k) \/ IdleFires(k) \/ Reload(k) \/ QueryEnds(k) \/ Teardown(k)
                       \/ \E b \in BOOLEAN : Result(k, b) \/ ResultStreamLost(k, b)
    \/ \E s \in starting : CheckStarts(s) \/ CheckRefused(s)

LsSpec == LsInit /\ [][LsNext]_lsVars

-----------------------------------------------------------------------------
(***************************************************************************)
(* Properties                                                              *)
(***************************************************************************)
LsTypeOK ==
    /\ onNode \in BOOLEAN /\ cur \in 0..MaxInst /\ flight \subseteq UMsg
    /\ inst \in [Inst -> Instance]
    /\ send \in [Sender -> Sending]
    /\ config \in [now : Fp, desired : Fp] /\ flags \in [continue : BOOLEAN, afterTurn : BOOLEAN]
    /\ starting \subseteq [of : Inst, seq : Nat] /\ runs \in [opened : Nat, ended : Nat]
    /\ lsSpent \in [faults : 0..MaxLsFaults, checks : 0..MaxChecks]

\* The CLI folds an input that arrives in a turn into that turn: none is ever
\* outstanding beside a check, on either side of it.
CheckRunsAlone ==
    \A k \in Inst : k = cur /\ inst[k].check => inst[k].queue = <<Check>>

\* "A check turn cut off before its result (abort, reload, crash) still ends its
\* run": every run that was opened is ended, or is that of a check in an instance
\* whose query goes on, or in one whose query was over before the check started.
RunsAreEnded ==
    /\ runs.opened = runs.ended + Cardinality({k \in Inst : inst[k].run})
    /\ \A k \in Inst : inst[k].run => Running(k) \/ inst[k].dead > 0

\* A changed config never closes the input of an outstanding turn.
ConfigReloadWaits ==
    [][\A k \in Inst : inst[k].why # "config" /\ inst'[k].why = "config" => inst'[k].queue = <<>>]_lsVars

\* On a node a turn whose fingerprint was found current never runs in an
\* instance of an older one, whatever was reloaded or booted in between; save one
\* that was booting already when it was found current (amid).
RunsUnderItsConfig ==
    \A m \in UMsg : onNode /\ send[m].pc = "in" /\ send[m].old \notin send[m].amid
                        => inst[send[m].old].fp >= send[m].fp

\* Turns keep apart: a check from the inputs of people, a turn from an older
\* config and from the reload for a newer one, every check's run from the next
\* (manager.ts:664-692, 969-1026, 2107-2149).
TurnsKeepApart == [](CheckRunsAlone /\ RunsUnderItsConfig /\ RunsAreEnded) /\ ConfigReloadWaits

\* "The session is not live (its next boot records fp) or the live one booted
\* under fp": a boot already under way reaches #live later, with an older one.
NoStaleSession ==
    \A m \in UMsg : onNode /\ send[m].pc = "in" => inst[send[m].old].fp >= send[m].fp

\* A cut off check ends its run, also in an instance whose query was over when
\* the check was pushed: its end is not looked at again.
CutOffCheckEnds == \A k \in Inst : inst[k].run => Running(k)

\* "Anything pushed now would never reach the CLI": an input is pushed into an
\* instance whose query goes on.  One whose query threw is still in #live while
\* its status is written.
PushedReachesCli == \A k \in Inst : inst[k].dead = 0

\* "The detached instance's own teardown no longer owns the id and stays
\* silent": its end ends no turn.  One that the idle timer closed is not
\* reloading, and its abort is told as done.
DetachedIsSilent ==
    [][\A k \in Inst : k # cur /\ Running(k) /\ inst'[k].st = "gone" => flight' = flight]_lsVars

\* "The old session is aborted": a stuck exit aborts no instance but the old one.
StuckExitSparesFresh ==
    [][\A m \in Sender : send[m].pc = "waitExit" /\ send'[m].pc = "boot" /\ send[m].old # cur /\ cur # 0
            => inst'[cur].aborted = inst[cur].aborted]_lsVars

\* A session runs in one CLI: of the instances that were not detached on
\* purpose one runs at most.  Two sends without an instance both boot one.
OneInstance ==
    \A j, k \in Inst : j # k /\ Running(j) /\ Running(k) => inst[j].aborted \/ inst[k].aborted

\* manager.ts: a reload waits for "another queued input", which "still needs the
\* CLI's stdin".  One for a lost stream does not.
ReloadKeepsQueued ==
    [][\A k \in Inst : inst[k].why # "stream" /\ inst'[k].why = "stream" => inst'[k].queue = <<>>]_lsVars

\* "A failed check turn is over too: the next turn is not a check."
NextTurnIsNoCheck ==
    \A k \in Inst : k = cur /\ Running(k) /\ inst[k].evolve /\ inst[k].queue # <<>> => Head(inst[k].queue) = Check
=============================================================================
