----------------------------- MODULE MCServices -----------------------------
(***************************************************************************)
(* Services of the gateway and of a node, for TLC: the engagement of a     *)
(* thread, a node's live session, the stop of a turn, the MCP bridge, the  *)
(* refresh of a credential, the cron scheduler and the day's budget of the *)
(* background passes.  They share no state: the initial states choose a    *)
(* part, and only that part moves.                                         *)
(***************************************************************************)
EXTENDS ThreadEngagement, LiveSession, TurnAbort, McpBridge, CredentialRefresh,
        CronScheduler, PassBudget

VARIABLE part

MCThreadOf == [c \in MbCall |-> IF c = "c2" THEN "t2" ELSE "t1"]
MCReplicaOf == [c \in CrCall |-> IF c = "c3" THEN "g2" ELSE "g1"]
MCEstimate == [r \in {"nightly", "quiet", "check"} |-> IF r = "nightly" THEN 2 ELSE 1]

ServicesInit ==
    /\ part \in {"thread", "session", "abort", "bridge", "credential", "cron", "budget"}
    /\ EngInit /\ LsInit /\ AbInit /\ MbInit /\ CrInit /\ CronInit /\ BudgetInit
    /\ part # "thread" => sessRow = "none"
    /\ part # "session" => ~onNode

\* The other parts rest.
Only(p) ==
    /\ part = p /\ UNCHANGED part
    /\ p # "thread" => UNCHANGED engVars
    /\ p # "session" => UNCHANGED lsVars
    /\ p # "abort" => UNCHANGED abVars
    /\ p # "bridge" => UNCHANGED mbVars
    /\ p # "credential" => UNCHANGED crVars
    /\ p # "cron" => UNCHANGED cronVars
    /\ p # "budget" => UNCHANGED budgetVars

ServicesNext ==
    \/ Only("thread") /\ EngNext
    \/ Only("session") /\ LsNext
    \/ Only("abort") /\ AbNext
    \/ Only("bridge") /\ MbNext
    \/ Only("credential") /\ CrNext
    \/ Only("cron") /\ CronNext
    \/ Only("budget") /\ BudgetNext

ServicesSpec ==
    ServicesInit
    /\ [][ServicesNext]_<<part, engVars, lsVars, abVars, mbVars, crVars, cronVars, budgetVars>>

ServicesTypeOK ==
    CASE part = "thread" -> EngTypeOK
      [] part = "session" -> LsTypeOK
      [] part = "abort" -> AbTypeOK
      [] part = "bridge" -> MbTypeOK
      [] part = "credential" -> CrTypeOK
      [] part = "cron" -> CronTypeOK
      [] part = "budget" -> BudgetTypeOK
=============================================================================
