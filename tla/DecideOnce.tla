----------------------------- MODULE DecideOnce -----------------------------
(***************************************************************************)
(* What a human gate promises: one verdict, never taken back, and one      *)
(* answer, which fails closed.  Only an approval lets the asker go on;     *)
(* "no" may be said at any time.  Gates implements it.                     *)
(***************************************************************************)
VARIABLES verdict, answer

Verdict == {"approved", "denied", "expired", "cancelled"}

OnceInit == verdict = "none" /\ answer = "none"

Decide ==
    /\ verdict = "none"
    /\ verdict' \in Verdict
    /\ UNCHANGED answer

Allow ==
    /\ verdict = "approved" /\ answer = "none"
    /\ answer' = "allow"
    /\ UNCHANGED verdict

Refuse ==
    /\ answer = "none"
    /\ answer' = "deny"
    /\ UNCHANGED verdict

\* A deadline does both at once.
Expire ==
    /\ verdict = "none" /\ answer = "none"
    /\ verdict' = "expired" /\ answer' = "deny"

OnceSpec ==
    OnceInit /\ [][Decide \/ Allow \/ Refuse \/ Expire]_<<verdict, answer>>
=============================================================================
