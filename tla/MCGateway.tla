------------------------------ MODULE MCGateway -----------------------------
(***************************************************************************)
(* What people press, for TLC: the buttons of a gate's card in Slack, and  *)
(* "take control" in the panel.  The two share no state: the initial       *)
(* states choose a part, and only that part moves.                         *)
(***************************************************************************)
EXTENDS Gates, PanelControl

CONSTANTS A, B, None, r1, r2, o1, NoO

VARIABLE part

GatewayInit ==
    /\ part \in {"gate", "panel"}
    /\ GateInit /\ PanelInit
    /\ part # "gate" => ask.kind = "perm"

GatewayNext ==
    /\ UNCHANGED part
    /\ \/ part = "gate" /\ GateNext /\ UNCHANGED panelVars
       \/ part = "panel" /\ PanelNext /\ UNCHANGED gateVars

\* The fairness of PanelControl, for the part that moves.
GatewayFairness ==
    /\ WF_panelVars(part = "panel" /\ PanelLapse)
    /\ \A r \in PReplica :
          /\ WF_panelVars(part = "panel" /\ SweepReads(r))
          /\ WF_panelVars(part = "panel" /\ SweepResumes(r))
          /\ WF_panelVars(part = "panel" /\ SweepPublishes(r))
          /\ WF_panelVars(part = "panel" /\ \E d \in replay[r] : ReplayNext(r, d))

GatewaySpec ==
    GatewayInit /\ [][GatewayNext]_<<part, gateVars, panelVars>> /\ GatewayFairness
=============================================================================
