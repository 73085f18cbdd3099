------------------------------ MODULE KeyLock ------------------------------
(***************************************************************************)
(* withKeyLock (src/queue/locks.ts): one Redis key taken by SET NX PX,     *)
(* re-armed by a background extender and given back by a compare-owner     *)
(* delete, around a caller's function fn.  The state is one key and the    *)
(* calls that contend for it: a node worker makes one call per claimed job *)
(* of the session (lock:session:<id>, owner = its node id), and a nested   *)
(* call for an agent's proactive folder.                                   *)
(*                                                                         *)
(* Time is abstract: Lapse is the TTL running out.  For a live call it     *)
(* stands for a blocked event loop or a partition that outlasts the TTL    *)
(* (ten minutes against a cadence of one), so it is counted in `lapses`;   *)
(* the TTL of a crashed call's grant always runs out.                      *)
(***************************************************************************)
EXTENDS Naturals

CONSTANTS
    Call,       \* calls of withKeyLock on this key
    Owner,      \* owner strings written into the key
    OwnerOf,    \* the owner string each call passes
    NoOwner,    \* the key does not exist
    NoCall,     \* nobody was granted the key
    MaxLapses   \* bound: TTLs that run out under a live call

ASSUME KeyLockAssumption ==
    /\ OwnerOf \in [Call -> Owner]
    /\ NoOwner \notin Owner
    /\ NoCall \notin Call
    /\ MaxLapses \in Nat

VARIABLES
    lock,       \* the key's value: an owner string, or NoOwner
    grant,      \* the call whose acquire set it (the key cannot tell)
    pc,         \* where each call is
    aborted,    \* the signal passed to fn is aborted
    extending,  \* the call's extender interval is running
    lapses      \* TTLs that ran out under a live call

vars == <<lock, grant, pc, aborted, extending, lapses>>

\* "gone": the call died, or its release failed; only the TTL frees its key.
PC == {"idle", "refused", "running", "releasing", "returned", "gone"}

Init ==
    /\ lock = NoOwner
    /\ grant = NoCall
    /\ pc = [c \in Call |-> "idle"]
    /\ aborted = [c \in Call |-> FALSE]
    /\ extending = [c \in Call |-> FALSE]
    /\ lapses = 0

Goto(c, l) == pc' = [pc EXCEPT ![c] = l]

(***************************************************************************)
(* The three Redis commands.                                               *)
(***************************************************************************)
\* Mutant: SET without NX.
AcquireLock_NoNX(c) == lock' = OwnerOf[c] /\ grant' = c

\* SET key owner PX ttl NX.
AcquireLock(c) ==
    /\ lock = NoOwner
    /\ lock' = OwnerOf[c]
    /\ grant' = c

\* Mutant: plain DEL.
ReleaseLock_Del(c) == lock' = NoOwner /\ grant' = NoCall

\* RELEASE_IF_OWNER: delete the key if it holds this owner string.
ReleaseLock(c) ==
    IF lock = OwnerOf[c]
    THEN lock' = NoOwner /\ grant' = NoCall
    ELSE UNCHANGED <<lock, grant>>

\* Mutants: an extender that fails every tick; one that never sees the loss.
ExtendLock_Never(c) == FALSE
ExtendLock_Blind(c) == TRUE

\* EXTEND_IF_OWNER: whether the key still holds this owner string.
ExtendLock(c) == lock = OwnerOf[c]

(***************************************************************************)
(* withKeyLock                                                             *)
(***************************************************************************)
Acquire(c) ==
    /\ pc[c] = "idle"
    /\ AcquireLock(c)
    /\ Goto(c, "running")
    /\ extending' = [extending EXCEPT ![c] = TRUE]
    /\ UNCHANGED <<aborted, lapses>>

\* HELD_BY_OTHER: fn does not run; the caller requeues its job.
Refused(c) ==
    /\ pc[c] = "idle"
    /\ lock # NoOwner
    /\ Goto(c, "refused")
    /\ UNCHANGED <<lock, grant, aborted, extending, lapses>>

\* The requeued job is claimed again (500 ms later) and calls once more.
Retry(c) ==
    /\ pc[c] = "refused"
    /\ Goto(c, "idle")
    /\ UNCHANGED <<lock, grant, aborted, extending, lapses>>

\* One tick of the extender: a failed extend stops it and aborts fn's signal.
Extend(c) ==
    /\ extending[c]
    /\ pc[c] = "running"
    /\ ~ExtendLock(c)
    /\ extending' = [extending EXCEPT ![c] = FALSE]
    /\ aborted' = [aborted EXCEPT ![c] = TRUE]
    /\ UNCHANGED <<lock, grant, pc, lapses>>

\* fn settles; the finally block clears the interval.
FnSettles(c) ==
    /\ pc[c] = "running"
    /\ Goto(c, "releasing")
    /\ extending' = [extending EXCEPT ![c] = FALSE]
    /\ UNCHANGED <<lock, grant, aborted, lapses>>

Release(c) ==
    /\ pc[c] = "releasing"
    /\ ReleaseLock(c)
    /\ Goto(c, "returned")
    /\ UNCHANGED <<aborted, extending, lapses>>

\* The release command fails; the error is swallowed and the TTL is left.
ReleaseFails(c) ==
    /\ pc[c] = "releasing"
    /\ Goto(c, "gone")
    /\ UNCHANGED <<lock, grant, aborted, extending, lapses>>

(***************************************************************************)
(* The environment: the process dies, the TTL runs out.                    *)
(***************************************************************************)
Crash(c) ==
    /\ pc[c] \in {"running", "releasing"}
    /\ Goto(c, "gone")
    /\ extending' = [extending EXCEPT ![c] = FALSE]
    /\ UNCHANGED <<lock, grant, aborted, lapses>>

LapseLive ==
    /\ grant # NoCall
    /\ pc[grant] # "gone"
    /\ lapses < MaxLapses
    /\ lock' = NoOwner
    /\ grant' = NoCall
    /\ lapses' = lapses + 1
    /\ UNCHANGED <<pc, aborted, extending>>

LapseGone ==
    /\ grant # NoCall
    /\ pc[grant] = "gone"
    /\ lock' = NoOwner
    /\ grant' = NoCall
    /\ UNCHANGED <<pc, aborted, extending, lapses>>

\* Every call is over: nothing is left to happen.
AllOver ==
    /\ \A c \in Call : pc[c] \in {"returned", "gone"}
    /\ UNCHANGED vars

Next ==
    \/ \E c \in Call :
          \/ Acquire(c) \/ Refused(c) \/ Retry(c) \/ Extend(c)
          \/ FnSettles(c) \/ Release(c) \/ ReleaseFails(c) \/ Crash(c)
    \/ LapseLive
    \/ LapseGone
    \/ AllOver

Spec == Init /\ [][Next]_vars

(***************************************************************************)
(* Fairness: timers fire (the extender, the TTL of a dead call's key), and *)
(* fn stops once its signal is aborted.  Nothing makes an unaborted fn     *)
(* return.                                                                 *)
(***************************************************************************)
StopsOnAbort(c) == aborted[c] /\ FnSettles(c)

FairSpec ==
    /\ Spec
    /\ WF_vars(LapseGone)
    /\ \A c \in Call : WF_vars(Extend(c)) /\ WF_vars(StopsOnAbort(c))

-----------------------------------------------------------------------------
TypeOK ==
    /\ lock \in Owner \cup {NoOwner}
    /\ grant \in Call \cup {NoCall}
    /\ pc \in [Call -> PC]
    /\ aborted \in [Call -> BOOLEAN]
    /\ extending \in [Call -> BOOLEAN]
    /\ lapses \in Nat

\* No two calls on the key ever pass the same owner string.
UniqueOwners == \A c, d \in Call : OwnerOf[c] = OwnerOf[d] => c = d

Holding(c) == pc[c] \in {"running", "releasing"}

\* Until a TTL runs out under a live call, at most one call runs its fn
\* (locks.ts withKeyLock: one turn at a time per session), whatever crashes,
\* failed releases and takeovers happen in between.
MutexUntilLapse ==
    lapses = 0 => \A c, d \in Call : Holding(c) /\ Holding(d) => c = d

\* A call's signal is aborted only when the key was really lost: a turn that
\* still holds its session is never told to stop (the extender's escape).
AbortMeansLost == \A c \in Call : aborted[c] => grant # c

\* "one holder can never release or extend another's lock" (locks.ts:5-6):
\* a call's finally-release leaves a key granted to another call alone.
ReleasesOwnGrant ==
    [][\A c \in Call :
          pc[c] = "releasing" /\ grant \notin {c, NoCall} /\ pc'[c] = "returned"
             => grant' = grant]_vars

LostIt(c) == pc[c] = "running" /\ grant # c

\* Calls that lost the key to a lapse stop: their fn is aborted by the
\* extender (detection is bounded by extendEveryMs) or is over anyway.
LostLockAborts == (\E c \in Call : LostIt(c)) ~> (\A c \in Call : ~LostIt(c))

\* A dead call's key does not stay taken: the TTL frees it.
GrantToDead == \E c \in Call : pc[c] = "gone" /\ grant = c
DeadGrantFreed == GrantToDead ~> ~GrantToDead

\* A TTL that runs out under a call, or behind a dead one, ends in a free key
\* and a stopped loser (locks.ts:94-103).
LocksRecover == LostLockAborts /\ DeadGrantFreed
=============================================================================
