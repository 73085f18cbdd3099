----------------------------- MODULE PassBudget -----------------------------
(***************************************************************************)
(* The daily budget of one agent's background runs: the start rule         *)
(* (src/background/budget.ts), the pass runner (background/runner.ts), the *)
(* check turns that run inside a session's turn (background/skill-check.ts *)
(* ), the ledger both write (db/background-runs.ts) and the sweep of runs  *)
(* that lost their finish (background/stale-runs.ts).                      *)
(*                                                                         *)
(* One day and one pool, in whole units of money.  A turn is priced at     *)
(* what it cost.                                                           *)
(***************************************************************************)
EXTENDS Integers, FiniteSetsExt

CONSTANTS
    PassRun,      \* runs of the runner
    CheckRun,     \* check turns
    Nightly,      \* the nightly review, one of PassRun; every other run is behind it
    Limit,        \* the day's limit
    Estimate,     \* Estimate[r]: the pass's last ok cost, or its floor
    TurnCosts,    \* what one turn may cost
    TurnCap,      \* bound, and the runner's cap: turns of a run
    MaxBudgetFaults \* bound: dead processes, failed queries, runs slower than the sweep

BRun == PassRun \cup CheckRun

ASSUME BudgetAssumption ==
    /\ Nightly \in PassRun /\ PassRun \cap CheckRun = {}
    /\ Limit \in Nat /\ TurnCap \in Nat \ {0} /\ MaxBudgetFaults \in Nat
    /\ IsFiniteSet(BRun) /\ IsFiniteSet(TurnCosts) /\ TurnCosts # {}
    /\ Estimate \in [BRun -> Nat \ {0}] /\ TurnCosts \subseteq Nat \ {0}

VARIABLES
    ledger,  \* ledger[r]: the run's row
    pass,    \* pass[r]: its process: where it is, what it spent, how it ends
    unpriced,\* a row of today names a model without a price
    budgetFaults

budgetVars == <<ledger, pass, unpriced, budgetFaults>>

NoRow == [out |-> "none", cost |-> 0]

BudgetInit ==
    /\ ledger = [r \in BRun |-> NoRow]
    /\ pass = [r \in BRun |-> [pc |-> "idle", spent |-> 0, turns |-> 0, how |-> "ok", last |-> 0,
                               noted |-> FALSE, slow |-> FALSE]]
    /\ unpriced = FALSE /\ budgetFaults = 0

Cost(r) == ledger[r].cost
SpentOn == MapThenSumSet(Cost, BRun)
RanNightly == ledger[Nightly].out \in {"ok", "stopped", "error"}
Reserve(r) == IF r = Nightly \/ RanNightly THEN 0 ELSE Estimate[Nightly]
Remaining(r) == Limit - SpentOn - Reserve(r)

At(r, pcs) == pass[r].pc \in pcs
Go(r, pc) == pass' = [pass EXCEPT ![r].pc = pc]
Write(r, out, cost) == ledger' = [ledger EXCEPT ![r] = [out |-> out, cost |-> cost]]
BudgetFault == budgetFaults < MaxBudgetFaults /\ budgetFaults' = budgetFaults + 1

-----------------------------------------------------------------------------
(***************************************************************************)
(* Starting: a check, the row with its estimate, a second check            *)
(***************************************************************************)
CanStart(r) == Remaining(r) >= Estimate[r]

CheckBudget(r) ==
    /\ At(r, {"idle"})
    /\ IF CanStart(r) /\ ~unpriced
       THEN Go(r, "may") /\ UNCHANGED ledger
       ELSE Go(r, "over") /\ Write(r, IF unpriced THEN "error" ELSE "skipped", 0)
    /\ UNCHANGED <<unpriced, budgetFaults>>

OpenRun(r) ==
    /\ At(r, {"may"})
    /\ Go(r, "open") /\ Write(r, "open", Estimate[r])
    /\ UNCHANGED <<unpriced, budgetFaults>>

\* Mutant: the first check is enough.
OverAfterStart_Never(r) == FALSE

OverAfterStart(r) == Remaining(r) < 0

CheckAgain(r) ==
    /\ At(r, {"open"})
    /\ IF OverAfterStart(r)
       THEN Go(r, "over") /\ Write(r, "skipped", 0)
       ELSE Go(r, "going") /\ UNCHANGED ledger
    /\ UNCHANGED <<unpriced, budgetFaults>>

\* The provider's credentials fail, or the process shuts down: nothing was spent.
StartFails(r) ==
    /\ r \in PassRun /\ At(r, {"open", "going"}) /\ pass[r].turns = 0 /\ BudgetFault
    /\ Go(r, "over") /\ Write(r, "error", 0)
    /\ UNCHANGED unpriced

-----------------------------------------------------------------------------
(***************************************************************************)
(* Running                                                                 *)
(***************************************************************************)
TurnCosts_(r, c) == [pass[r] EXCEPT !.spent = @ + c, !.turns = @ + 1]

\* A turn of the runner, its progress, and the limit after it.
PassTurn(r, c) ==
    /\ r \in PassRun /\ At(r, {"going"}) /\ pass[r].turns < TurnCap
    /\ pass' = [pass EXCEPT ![r] = [TurnCosts_(r, c) EXCEPT !.pc = "turning"]]
    /\ UNCHANGED <<ledger, unpriced, budgetFaults>>

\* progress writes open rows only.
RecordTurn(r) ==
    /\ At(r, {"turning"})
    /\ pass' = [pass EXCEPT ![r].pc = "recorded", ![r].last = pass[r].spent]
    /\ IF ledger[r].out = "open" THEN Write(r, "open", pass[r].spent) ELSE UNCHANGED ledger
    /\ UNCHANGED <<unpriced, budgetFaults>>

\* A model without a price: the row keeps at least the estimate, the run ends.
RecordUnpriced(r) ==
    /\ At(r, {"turning"}) /\ BudgetFault
    /\ LET c == IF pass[r].spent > Estimate[r] THEN pass[r].spent ELSE Estimate[r] IN
       /\ pass' = [pass EXCEPT ![r].pc = "settling", ![r].how = "error", ![r].last = c, ![r].noted = TRUE]
       /\ IF ledger[r].out = "open" THEN Write(r, "open", c) ELSE UNCHANGED ledger
    /\ UNCHANGED unpriced

OverLimit(r) == SpentOn > Limit

CheckLimit(r) ==
    /\ At(r, {"recorded"})
    /\ pass' = IF OverLimit(r) THEN [pass EXCEPT ![r].pc = "settling", ![r].how = "stopped"]
                               ELSE [pass EXCEPT ![r].pc = "going"]
    /\ UNCHANGED <<ledger, unpriced, budgetFaults>>

\* The result, or the turn cap.
PassEnds(r) ==
    /\ r \in PassRun /\ At(r, {"going"}) /\ pass[r].turns > 0
    /\ Go(r, "settling")
    /\ UNCHANGED <<ledger, unpriced, budgetFaults>>

\* The CLI dies in a turn: what the turn cost is not known.
QueryFails(r) ==
    /\ At(r, {"turning"}) /\ BudgetFault
    /\ pass' = [pass EXCEPT ![r].pc = "settling", ![r].how = "error"]
    /\ UNCHANGED <<ledger, unpriced>>

\* A check turn's usage is known at its end.
CheckTurn(r, c) ==
    /\ r \in CheckRun /\ At(r, {"going"})
    /\ pass' = [pass EXCEPT ![r] = [TurnCosts_(r, c) EXCEPT !.pc = "settling",
                                                            !.last = pass[r].spent + c]]
    /\ UNCHANGED <<ledger, unpriced, budgetFaults>>

\* The runner's finish writes its row whatever it is, a check's an open one only.
Settle(r) ==
    /\ At(r, {"settling"})
    /\ Go(r, "over") /\ unpriced' = (unpriced \/ pass[r].noted)
    /\ IF r \in PassRun \/ ledger[r].out = "open"
       THEN Write(r, pass[r].how, pass[r].last) ELSE UNCHANGED ledger
    /\ UNCHANGED budgetFaults

-----------------------------------------------------------------------------
(***************************************************************************)
(* Losing a run, and the sweep of every tick                               *)
(***************************************************************************)
BudgetCrash(r) ==
    /\ ~At(r, {"idle", "over", "dead"}) /\ BudgetFault
    /\ Go(r, "dead")
    /\ UNCHANGED <<ledger, unpriced>>

Swept(r) == ledger[r].out = "open"

\* A dead run, in time; or one that is merely slow.
SweepStale(r) ==
    /\ Swept(r)
    /\ Write(r, "error", Cost(r))
    /\ \/ At(r, {"dead"}) /\ UNCHANGED <<pass, budgetFaults>>
       \/ ~At(r, {"dead"}) /\ pass' = [pass EXCEPT ![r].slow = TRUE] /\ BudgetFault
    /\ UNCHANGED unpriced

-----------------------------------------------------------------------------
BudgetStep(r) ==
    \/ CheckBudget(r) \/ OpenRun(r) \/ CheckAgain(r)
    \/ RecordTurn(r) \/ CheckLimit(r) \/ PassEnds(r) \/ Settle(r)
    \/ \E c \in TurnCosts : PassTurn(r, c) \/ CheckTurn(r, c)

BudgetNext ==
    \E r \in BRun : BudgetStep(r) \/ StartFails(r) \/ RecordUnpriced(r) \/ QueryFails(r)
                    \/ BudgetCrash(r) \/ SweepStale(r)

BudgetSpec == BudgetInit /\ [][BudgetNext]_budgetVars

-----------------------------------------------------------------------------
(***************************************************************************)
(* Properties                                                              *)
(***************************************************************************)
BudgetTypeOK ==
    /\ ledger \in [BRun -> [out : {"none", "open", "ok", "skipped", "stopped", "error"}, cost : Nat]]
    /\ \A r \in BRun :
          /\ pass[r].pc \in {"idle", "may", "open", "going", "turning", "recorded", "settling", "over", "dead"}
          /\ pass[r].how \in {"ok", "stopped", "error"} /\ pass[r].turns \in 0..TurnCap
          /\ pass[r].spent \in Nat /\ pass[r].last \in Nat /\ {pass[r].noted, pass[r].slow} \subseteq BOOLEAN
    /\ unpriced \in BOOLEAN /\ budgetFaults \in 0..MaxBudgetFaults

Started == {r \in BRun : At(r, {"going", "turning", "recorded", "settling"})}
Est(r) == Estimate[r]

\* "With the row first they see each other": runs that start at the same moment
\* fit the day's limit together, and leave the nightly review its estimate.
StartsFit ==
    (\A r \in BRun : pass[r].turns = 0) =>
        LET going == {r \in Started : ledger[r].out = "open"} IN
        /\ MapThenSumSet(Est, going) <= Limit
        /\ Nightly \notin going /\ ~RanNightly
              => MapThenSumSet(Est, going) + (IF going = {} THEN 0 ELSE Est(Nightly)) <= Limit

\* The limit is overshot by one turn of each run at most: a run whose turns are
\* all on record stops before another once the day's spend, the turns of the
\* others and the estimates of open runs included, is over it.
MaxCost == Max(TurnCosts)
Known(r) == ~pass[r].slow /\ ~(pass[r].how = "error" /\ pass[r].last < pass[r].spent)
OvershootBounded ==
    LET Spent(r) == pass[r].spent IN
    (\A r \in BRun : Known(r)) =>
        MapThenSumSet(Spent, BRun) <= Limit + MaxCost * Cardinality({r \in BRun : pass[r].turns > 0})

\* A run that spent something is on record for something, while it runs, when
\* its process is lost and when it was swept; save one whose query failed.
NeverFree ==
    \A r \in BRun : pass[r].spent > 0 /\ ~(pass[r].how = "error" /\ pass[r].last = 0)
                        => ledger[r].cost > 0

\* No row stays open, whatever became of its process: while one is, its run has
\* a step that waits for nothing, of which it takes finitely many, or is dead
\* and the next tick sweeps it.
HasStep(r) == \/ At(r, {"open", "turning", "recorded", "settling"})
              \/ At(r, {"going"}) /\ (pass[r].turns < TurnCap \/ (r \in PassRun /\ pass[r].turns > 0))
RowsAreEnded == \A r \in BRun : ledger[r].out = "open" => HasStep(r) \/ At(r, {"dead"})

\* The day's ledger bounds what is spent and closes: starts fit it, turns
\* overshoot it by one each, spending is on record and rows end.
LedgerHolds == StartsFit /\ OvershootBounded /\ NeverFree /\ RowsAreEnded

\* budget.ts: "a running pass stops" when its pool "is past its limit today". It
\* also stops for the estimates of starts that are then refused.
StopsOnlyWhenSpent ==
    [][\A r \in PassRun : pass[r].how = "ok" /\ pass'[r].how = "stopped"
            => LET Spent(s) == pass[s].spent
                   Open(s) == IF pass[s].pc \in {"may", "open"} THEN 0 ELSE Cost(s)
               IN MapThenSumSet(Spent, BRun) > Limit \/ MapThenSumSet(Open, BRun) > Limit]_budgetVars

\* stale-runs.ts: a swept run keeps its recorded cost "so it never counts as
\* free".  A check that ends after its sweep is on record for its estimate.
LedgerIsTrue ==
    \A r \in BRun : At(r, {"over"}) /\ pass[r].how = "ok" /\ pass[r].spent > 0
                        => ledger[r].cost >= pass[r].spent
=============================================================================
