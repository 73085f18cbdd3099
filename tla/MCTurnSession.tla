--------------------------- MODULE MCTurnSession ---------------------------
(***************************************************************************)
(* TurnSession for TLC: labels a and b, nodes n1 and n2.                   *)
(***************************************************************************)
EXTENDS TurnSession, TLC

CONSTANTS a, b, n1, n2

OneLabelEach == n1 :> {a} @@ n2 :> {b}
BothShareA == n1 :> {a} @@ n2 :> {a}
BothServeBoth == n1 :> {a, b} @@ n2 :> {a, b}
OneServesA == n1 :> {a}
OneServesBoth == n1 :> {a, b}

\* Operation slots are interchangeable.
Symmetric == Permutations(Op)

\* A view for invariants that read no other part of hist: no step reads it
\* either.
MessagesView == <<redis, op, world, nextId, view, hist.sent, hist.fin>>
=============================================================================
