-------------------------- MODULE CredentialRefresh --------------------------
(***************************************************************************)
(* The refresh of one owner's credential for one MCP server                *)
(* (src/gateway/core/credential-refresh.ts): the in-flight promise of a    *)
(* process, the lock across replicas, the entry re-read under it, the      *)
(* grant and the unconditional write.  The provider rotates: a refresh     *)
(* token is spent once.  The owner connects again and disconnects          *)
(* (agent/mcp-oauth/persist.ts) at any time.                               *)
(*                                                                         *)
(* A grant is a number: its access token and the refresh token issued with *)
(* it.  `grants` counts those issued.                                      *)
(***************************************************************************)
EXTENDS Naturals, FiniteSets

CONSTANTS
    CrCall,
    ReplicaOf,   \* the replica each call is made on
    Reports,     \* the grants a call may report as failed, 0 for none
    MaxAges,     \* bound: access tokens that come near their expiry
    MaxConnects, \* bound: times the owner connects again or disconnects
    MaxCrFaults, \* bound: crashes, failed requests, replies lost, waits that ran out
    MaxCrLapses  \* bound: locks that lapse under a slow holder (30 s, not extended)

NoCrCall == "nobody"
CrReplica == {ReplicaOf[c] : c \in CrCall}
ASSUME RefreshAssumption ==
    /\ NoCrCall \notin CrCall
    /\ Reports \subseteq Nat /\ MaxAges \in Nat
    /\ MaxConnects \in Nat /\ MaxCrFaults \in Nat /\ MaxCrLapses \in Nat

VARIABLES
    stored,   \* the grant of the row, 0 when there is none
    grants,   \* grants issued so far
    aged,     \* grants whose access token is about to expire
    used,     \* refresh tokens the provider has taken
    call,     \* call[c]: one refresh()
    inflight, \* inflight[r]: the call whose promise the replica shares
    crLock,   \* the holder of the Redis lock
    torn,     \* a rotated token never reached the row: its reply or its process was lost
    crFaults, crLapses, connects

crVars == <<stored, grants, aged, used, call, inflight, crLock, torn, crFaults, crLapses, connects>>

Fresh_ == [at |-> "idle", failed |-> 0, snap |-> 0, new |-> 0, out |-> "-", lead |-> NoCrCall]

CrInit ==
    /\ stored = 1 /\ grants = 1 /\ aged = {} /\ used = {}
    /\ call = [c \in CrCall |-> Fresh_]
    /\ inflight = [r \in CrReplica |-> NoCrCall]
    /\ crLock = NoCrCall /\ torn = FALSE /\ crFaults = 0 /\ crLapses = 0 /\ connects = 0

Is(c, at) == call[c].at = at
Moves(c, at) == call' = [call EXCEPT ![c].at = at]
CrFault == crFaults < MaxCrFaults /\ crFaults' = crFaults + 1
Quiet == UNCHANGED <<torn, crFaults, crLapses, connects>>

\* The entry can be handed out: not about to expire, and not the one that failed.
Usable(g, failed) == g \notin aged /\ g # failed

-----------------------------------------------------------------------------
(***************************************************************************)
(* refresh                                                                 *)
(***************************************************************************)
\* `failed` is 0, or a grant the caller was handed and a server rejected.
Refresh(c, failed) ==
    LET r == ReplicaOf[c] IN
    /\ Is(c, "idle") /\ failed <= grants
    /\ call' = [call EXCEPT ![c] =
          [Fresh_ EXCEPT !.failed = failed, !.lead = inflight[r],
                         !.at = IF inflight[r] = NoCrCall THEN "reading" ELSE "joined"]]
    /\ UNCHANGED <<stored, grants, aged, used, inflight, crLock>> /\ Quiet

Answer_(c, out) == [call EXCEPT ![c].at = "done", ![c].out = out, ![c].snap = stored]

\* The lock-free read.  What follows it up to the shared promise is one step.
ReadLands(c) ==
    LET r == ReplicaOf[c] IN
    /\ Is(c, "reading")
    /\ IF stored = 0
       THEN call' = Answer_(c, "unknown") /\ UNCHANGED inflight
       ELSE IF Usable(stored, call[c].failed)
       THEN call' = Answer_(c, "ok") /\ UNCHANGED inflight
       ELSE IF inflight[r] # NoCrCall
       THEN call' = [call EXCEPT ![c].at = "joined", ![c].lead = inflight[r]] /\ UNCHANGED inflight
       ELSE Moves(c, "waiting") /\ inflight' = [inflight EXCEPT ![r] = c]
    /\ UNCHANGED <<stored, grants, aged, used, crLock>> /\ Quiet

\* SET NX, by acquireLock.
Grants(c) == crLock = NoCrCall

TakeLock(c) ==
    /\ Is(c, "waiting") /\ Grants(c)
    /\ crLock' = c /\ Moves(c, "rereading")
    /\ UNCHANGED <<stored, grants, aged, used, inflight>> /\ Quiet

\* Another call held the lock for 35 s.
WaitRunsOut(c) ==
    /\ Is(c, "waiting") /\ crLock # NoCrCall /\ CrFault
    /\ call' = [call EXCEPT ![c].at = "leaving", ![c].out = "error"]
    /\ UNCHANGED <<stored, grants, aged, used, inflight, crLock, torn, crLapses, connects>>

-----------------------------------------------------------------------------
(***************************************************************************)
(* refreshLocked                                                           *)
(***************************************************************************)
RereadLands(c) ==
    LET out == IF stored = 0 THEN "unknown"
               ELSE IF Usable(stored, call[c].failed) THEN "ok" ELSE "-" IN
    /\ Is(c, "rereading")
    /\ call' = [call EXCEPT ![c].snap = stored, ![c].out = out,
                            ![c].at = IF out = "-" THEN "granting" ELSE "leaving"]
    /\ UNCHANGED <<stored, grants, aged, used, inflight, crLock>> /\ Quiet

\* The provider takes the token and rotates it, or refuses one it has taken.
GrantLands(c) ==
    /\ Is(c, "granting")
    /\ IF call[c].snap \in used
       THEN /\ call' = [call EXCEPT ![c].at = "leaving", ![c].out = "reconnect"]
            /\ UNCHANGED <<grants, used>>
       ELSE /\ grants' = grants + 1 /\ used' = used \cup {call[c].snap}
            /\ call' = [call EXCEPT ![c].at = "putting", ![c].new = grants + 1]
    /\ UNCHANGED <<stored, aged, inflight, crLock>> /\ Quiet

\* The request fails before the provider took the token, or its reply is lost.
GrantFails(c) ==
    /\ Is(c, "granting") /\ CrFault
    /\ call' = [call EXCEPT ![c].at = "leaving", ![c].out = "error"]
    /\ \/ UNCHANGED <<used, torn>>
       \/ call[c].snap \notin used /\ used' = used \cup {call[c].snap} /\ torn' = TRUE
    /\ UNCHANGED <<stored, grants, aged, inflight, crLock, crLapses, connects>>

\* Mutant: the result is written only when it expires no earlier than the row;
\* every second grant has the shorter life.
Written_IfNewer(c) == IF call[c].new % 2 = 0 THEN stored ELSE call[c].new

Written(c) == call[c].new

PutLands(c) ==
    /\ Is(c, "putting")
    /\ stored' = Written(c)
    /\ call' = [call EXCEPT ![c].at = "leaving", ![c].out = "ok", ![c].snap = call[c].new]
    /\ UNCHANGED <<grants, aged, used, inflight, crLock>> /\ Quiet

\* The finally of the shared promise.
Forgets(c) == TRUE

\* The owner-checked release, then the promise's callers.
Leave(c) ==
    /\ Is(c, "leaving")
    /\ crLock' = IF crLock = c THEN NoCrCall ELSE crLock
    /\ inflight' = IF Forgets(c) THEN [inflight EXCEPT ![ReplicaOf[c]] = NoCrCall] ELSE inflight
    /\ call' = [d \in CrCall |->
          IF d = c \/ (Is(d, "joined") /\ call[d].lead = c)
          THEN [call[d] EXCEPT !.at = "done", !.out = call[c].out, !.snap = call[c].snap, !.new = 0]
          ELSE call[d]]
    /\ UNCHANGED <<stored, grants, aged, used>> /\ Quiet

-----------------------------------------------------------------------------
(***************************************************************************)
(* Time, the owner, crashes                                                *)
(***************************************************************************)
Age ==
    /\ stored # 0 /\ stored \notin aged /\ Cardinality(aged) < MaxAges
    /\ aged' = aged \cup {stored}
    /\ UNCHANGED <<stored, grants, used, call, inflight, crLock>> /\ Quiet

Owner == connects < MaxConnects /\ connects' = connects + 1

\* persistConnectForOwner: a grant of its own.
Reconnect ==
    /\ Owner
    /\ grants' = grants + 1 /\ stored' = grants + 1
    /\ UNCHANGED <<aged, used, call, inflight, crLock, torn, crFaults, crLapses>>

Disconnect ==
    /\ stored # 0 /\ stored' = 0 /\ Owner
    /\ UNCHANGED <<grants, aged, used, call, inflight, crLock, torn, crFaults, crLapses>>

Dead(c) == Is(c, "dead")

CrCrash(r) ==
    LET On == {c \in CrCall : ReplicaOf[c] = r /\ ~Is(c, "done") /\ ~Is(c, "idle")} IN
    /\ On # {} /\ CrFault
    /\ call' = [c \in CrCall |-> IF c \in On THEN [call[c] EXCEPT !.at = "dead"] ELSE call[c]]
    /\ inflight' = [inflight EXCEPT ![r] = NoCrCall]
    /\ torn' = (torn \/ \E c \in On : Is(c, "putting"))
    /\ UNCHANGED <<stored, grants, aged, used, crLock, crLapses, connects>>

LapseDead ==
    /\ crLock # NoCrCall /\ Dead(crLock)
    /\ crLock' = NoCrCall
    /\ UNCHANGED <<stored, grants, aged, used, call, inflight>> /\ Quiet

LapseSlow ==
    /\ crLock # NoCrCall /\ ~Dead(crLock) /\ crLapses < MaxCrLapses
    /\ crLapses' = crLapses + 1 /\ crLock' = NoCrCall
    /\ UNCHANGED <<stored, grants, aged, used, call, inflight, torn, crFaults, connects>>

-----------------------------------------------------------------------------
CrNext ==
    \/ \E c \in CrCall :
          \/ \E f \in Reports : Refresh(c, f)
          \/ ReadLands(c) \/ TakeLock(c) \/ WaitRunsOut(c) \/ RereadLands(c)
          \/ GrantLands(c) \/ GrantFails(c) \/ PutLands(c) \/ Leave(c)
    \/ Age \/ Reconnect \/ Disconnect
    \/ \E r \in CrReplica : CrCrash(r)
    \/ LapseDead

CrSpec == CrInit /\ [][CrNext]_crVars

\* With holders so slow that the lock's TTL runs out under them.
CrSlowSpec == CrInit /\ [][CrNext \/ LapseSlow]_crVars

-----------------------------------------------------------------------------
(***************************************************************************)
(* Properties                                                              *)
(***************************************************************************)
CrTypeOK ==
    /\ stored \in 0..grants /\ grants \in Nat /\ aged \subseteq 1..grants /\ used \subseteq 1..grants
    /\ \A c \in CrCall :
          /\ call[c].at \in {"idle", "reading", "joined", "waiting", "rereading", "granting",
                             "putting", "leaving", "done", "dead"}
          /\ call[c].out \in {"-", "ok", "unknown", "reconnect", "error"}
          /\ call[c].snap \in 0..grants /\ call[c].new \in 0..grants /\ call[c].failed \in 0..grants
    /\ \A r \in CrReplica : inflight[r] # NoCrCall =>
          ReplicaOf[inflight[r]] = r /\ call[inflight[r]].at \in
              {"waiting", "rereading", "granting", "putting", "leaving"}
    /\ crLock \in CrCall \cup {NoCrCall}
    /\ torn \in BOOLEAN /\ crFaults \in 0..MaxCrFaults /\ crLapses \in 0..MaxCrLapses

\* Many sessions on many replicas hit one expiry together and none of them is
\* told to reconnect, unless a rotated token was lost with its process or its
\* reply (credential-refresh.ts:6-9).
NobodyToldInVain ==
    (\E c \in CrCall : call[c].out = "reconnect") => torn

\* The row's refresh token has not been spent, except while the call that spent
\* it is about to write the next one: what the next expiry will present works.
RowIsSpendable ==
    stored \in used => torn \/ \E c \in CrCall : Is(c, "putting") /\ call[c].snap = stored

\* A call that is not waiting for the lock has its next step.
CanMove(c) ==
    \/ call[c].at \in {"reading", "rereading", "granting", "putting", "leaving"}
    \/ Is(c, "waiting") /\ Grants(c)

\* Every caller gets an answer, whoever it waited on, unless its replica died:
\* while one has none, some call can move, or a dead holder's lock lapse.  A
\* call takes finitely many steps, so nobody waits for ever.
CallIsAnswered ==
    (\E c \in CrCall : call[c].at \notin {"idle", "done", "dead"})
        => \/ crLock # NoCrCall /\ Dead(crLock)
           \/ \E c \in CrCall : CanMove(c)

\* One expiry costs one grant: everybody is answered, nobody is signed out, and
\* the row holds a token that can be spent.
OneGrantPerExpiry == NobodyToldInVain /\ RowIsSpendable /\ CallIsAnswered

\* A caller is not handed the token it reported (credential-refresh.ts:14-20).
NeverTheFailedToken ==
    \A c \in CrCall : call[c].at = "done" /\ call[c].out = "ok" => call[c].snap # call[c].failed

\* An explicit connect always replaces what was there, and stays
\* (agent/mcp-oauth/persist.ts:50-51): a refresh writes over the entry it read.
ConnectIsKept ==
    [][\A c \in CrCall : PutLands(c) => stored \in {0, call[c].snap}]_crVars

\* A row the owner removed stays removed until the owner connects.
DisconnectIsKept == [][stored = 0 /\ stored' # 0 => Reconnect]_crVars
=============================================================================
