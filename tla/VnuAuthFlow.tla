---------------------------- MODULE VnuAuthFlow ----------------------------
(***************************************************************************)
(* The VNU authentication requests of apps/worker/src/app.ts: manual login *)
(* (POST .../session/import), automatic re-login (POST /api/vnu/auth/      *)
(* refresh) and logout (POST /api/vnu/auth/logout), running concurrently   *)
(* against the refresh authority of VnuRefreshControl.                     *)
(*                                                                         *)
(* Between two awaits a handler runs alone, so a step is one authority     *)
(* call or one upstream login with the code up to the next await.  A call  *)
(* may fail before it was applied, or be applied and its answer lost; a    *)
(* request may be abandoned by its client or die with its isolate at any   *)
(* point; a response may never arrive; an upstream login has no time limit *)
(* of its own.                                                             *)
(***************************************************************************)
EXTENDS VnuRefreshControl

CONSTANTS
    Req,          \* requests; each handles one call and draws at most one pair
    AccessLife, GrantLife, LastCall, MaxTime

ASSUME FlowAssumption ==
    /\ AccessLife \in Nat \ {0} /\ GrantLife \in Nat \ {0}
    /\ LastCall \in Nat /\ MaxTime \in Nat
    /\ Id = Req       \* the identifiers a request draws are named after it

VARIABLES
    req,         \* req[r]: the state of request r's handler
    issued,      \* pairs the authority made active
    delivered    \* issued pairs whose response reached a client

vars == <<stored, alarm, now, req, issued, delivered>>

(***************************************************************************)
(* A handler: where it is, the pair the client presented, the pair it drew *)
(* for its response, the login its pairs descend from (history), the clock *)
(* reading of its accepted beginRefresh (history).                         *)
(***************************************************************************)
Phase == {"idle", "activate", "login", "complete", "abort", "abortTerminal",
          "signedIn", "refreshed", "rejected", "loggedOut", "mismatch", "failed"}

Handler == [phase : Phase, pair : LinkedPair \cup {None}, next : LinkedPair \cup {None},
            root : Req \cup {None}, beganAt : Nat \cup {None}, withGrant : BOOLEAN]

Idle == [phase |-> "idle", pair |-> None, next |-> None, root |-> None,
         beganAt |-> None, withGrant |-> FALSE]

newPair(r, accessExpiresAt, grantExpiresAt) ==
    [accessTokenId |-> r, accessExpiresAt |-> accessExpiresAt,
     grantId |-> r, grantExpiresAt |-> grantExpiresAt]

rootOf(pair) == req[pair.grantId].root

open == now <= LastCall

running(r) == req[r].phase \in {"activate", "login", "complete", "abort", "abortTerminal"}

goto(r, phase) == req' = [req EXCEPT ![r].phase = phase]

\* The response with pair's token and grant is sent; it may not arrive.
respondWith(pair) == delivered' \in {delivered, delivered \cup {pair}}

Init ==
    /\ stored = None /\ alarm = None /\ now = 0
    /\ req = [r \in Req |-> Idle]
    /\ issued = {} /\ delivered = {}

----------------------------------------------------------------------------
(* Manual login: import route and issueVnuAuthResult                       *)

\* Mutant: the grant lives GrantLife from the end of the session.
LoginGrantAfterAccess(r) ==
    /\ open
    /\ req[r].phase = "idle"
    /\ \E t \in ClockReadings : \E a \in (t + 1)..(t + AccessLife) :
        req' = [req EXCEPT ![r] = [Idle EXCEPT !.phase = "activate", !.root = r,
                                               !.next = newPair(r, a, a + GrantLife)]]
    /\ UNCHANGED <<stored, alarm, now, issued, delivered>>

\* The credentials were checked, by a VNU login (the session then lasts
\* AccessLife) or against a cached session (what is left of it), and a new
\* grant and descriptor are drawn.
Login(r) ==
    /\ open
    /\ req[r].phase = "idle"
    /\ \E t \in ClockReadings : \E a \in (t + 1)..(t + AccessLife) :
        req' = [req EXCEPT ![r] = [Idle EXCEPT !.phase = "activate", !.root = r,
                                               !.next = newPair(r, a, t + GrantLife)]]
    /\ UNCHANGED <<stored, alarm, now, issued, delivered>>

\* coordinator.activatePair; the tokens leave the server only after it.
Activate(r) ==
    /\ open
    /\ req[r].phase = "activate"
    /\ \E t \in ClockReadings, res \in {"activated", "rate-limited"} :
        /\ ActivatePair(req[r].next, t, res)
        /\ \/ /\ res = "activated"
              /\ issued' = issued \cup {req[r].next}
              /\ \/ goto(r, "signedIn") /\ respondWith(req[r].next)
                 \/ goto(r, "failed") /\ UNCHANGED delivered   \* answer lost
           \/ res = "rate-limited" /\ goto(r, "failed") /\ UNCHANGED <<issued, delivered>>

----------------------------------------------------------------------------
(* Automatic re-login: the refresh route                                   *)

\* decryptVnuRefreshGrant, then beginRefresh.  An answer that is lost leaves
\* the lease behind: the handler has not entered its try block.
BeginRefreshRequest(r) ==
    /\ open
    /\ req[r].phase = "idle"
    /\ \E t \in ClockReadings, pair \in delivered,
          res \in {"accepted", "revoked", "in-progress", "rate-limited"} :
        /\ pair.grantExpiresAt > t
        /\ BeginRefresh(pair, t, res)
        /\ \E phase \in IF res = "accepted" THEN {"login", "failed"} ELSE {"failed"} :
             req' = [req EXCEPT ![r] =
                [Idle EXCEPT !.phase = phase, !.pair = pair, !.root = rootOf(pair),
                             !.beganAt = IF phase = "login" THEN t ELSE None]]
    /\ UNCHANGED <<issued, delivered>>

\* importSession succeeded and the identity matches: a new pair under the old
\* grant expiry (rotateVnuRefreshGrant).
UpstreamLoginSucceeds(r) ==
    /\ open
    /\ req[r].phase = "login"
    /\ \E t \in ClockReadings :
        req' = [req EXCEPT ![r].phase = "complete",
                  ![r].next = newPair(r, t + AccessLife, req[r].pair.grantExpiresAt)]
    /\ UNCHANGED <<stored, alarm, now, issued, delivered>>

\* Wrong password or another student: terminal.  Upstream trouble, or a
\* client that gave up: not terminal.
UpstreamLoginFails(r) ==
    /\ open
    /\ req[r].phase = "login"
    /\ goto(r, "abort") \/ goto(r, "abortTerminal")
    /\ UNCHANGED <<stored, alarm, now, issued, delivered>>

\* coordinator.completeRefresh.  When its answer is lost the handler cannot
\* tell whether the rotation happened and aborts.
Complete(r) ==
    /\ open
    /\ req[r].phase = "complete"
    /\ \E t \in ClockReadings, res \in {"completed", "revoked"} :
        /\ CompleteRefresh(req[r].pair, req[r].next, t, res)
        /\ issued' = IF res = "completed" THEN issued \cup {req[r].next} ELSE issued
        /\ \/ /\ res = "completed"
              /\ goto(r, "refreshed") /\ respondWith(req[r].next)
           \/ res = "revoked" /\ goto(r, "failed") /\ UNCHANGED delivered
           \/ goto(r, "abort") /\ UNCHANGED delivered          \* answer lost

\* coordinator.abortRefresh in the catch block; its result is not looked at.
\* The client is told "rejected" (401, 409) after a terminal failure.
Abort(r) ==
    /\ open
    /\ req[r].phase \in {"abort", "abortTerminal"}
    /\ \E t \in ClockReadings, res \in {"aborted", "revoked"} :
        AbortRefresh(req[r].pair, req[r].phase = "abortTerminal", t, res)
    /\ goto(r, IF req[r].phase = "abortTerminal" THEN "rejected" ELSE "failed")
    /\ UNCHANGED <<issued, delivered>>

----------------------------------------------------------------------------
(* Logout                                                                  *)

\* The token, or the grant if it was supplied, has not expired at t.
artifactLive(pair, withGrant, t) ==
    pair.grantExpiresAt > t \/ (~withGrant /\ pair.accessExpiresAt > t)

\* With the grant the principal is revoked, without it the exact pair.  A
\* mismatch, and an "expired" the server's own clock contradicts, are
\* answered 401; a lost answer, or a revokeSession that fails, 503.
Logout(r) ==
    /\ open
    /\ req[r].phase = "idle"
    /\ \E t \in ClockReadings, pair \in delivered, withGrant \in BOOLEAN,
          res \in {"revoked", "mismatch", "expired"} :
        /\ IF withGrant THEN RevokePrincipalByLinkedGrant(pair, t, res)
                        ELSE RevokeLinkedPairByAccess(pair, t, res)
        /\ \E t2 \in ClockReadings :
             LET refused == \/ res = "mismatch"
                            \/ res = "expired" /\ artifactLive(pair, withGrant, t2)
             IN  \E phase \in {IF refused THEN "mismatch" ELSE "loggedOut", "failed"} :
                    req' = [req EXCEPT ![r] =
                       [Idle EXCEPT !.phase = phase, !.pair = pair, !.root = rootOf(pair),
                                    !.withGrant = withGrant]]
    /\ UNCHANGED <<issued, delivered>>

----------------------------------------------------------------------------
\* An ordinary request: resolveOrdinaryAccessToken.
OrdinaryRequest ==
    /\ open
    /\ \E t \in ClockReadings, pair \in delivered, res \in {"active", "revoked"} :
        pair.accessExpiresAt > t /\ CheckAccess(pair, t, res)
    /\ UNCHANGED <<req, issued, delivered>>

\* An authority call that fails without being applied (503), or, before
\* completeRefresh, a client that has gone away (request.signal.aborted).
CallFails(r) ==
    /\ open
    /\ \/ req[r].phase \in {"activate", "abort", "abortTerminal"} /\ goto(r, "failed")
       \/ req[r].phase = "complete" /\ goto(r, "abort")
    /\ UNCHANGED <<stored, alarm, now, issued, delivered>>

\* The isolate or process serving r dies between two steps.
Crash(r) ==
    /\ running(r)
    /\ goto(r, "failed")
    /\ UNCHANGED <<stored, alarm, now, issued, delivered>>

Alarm == AlarmFires /\ UNCHANGED <<req, issued, delivered>>

Tick ==
    /\ now < MaxTime
    /\ now' = now + 1
    /\ UNCHANGED <<stored, alarm, req, issued, delivered>>

Handle(r) ==
    \/ Login(r) \/ Activate(r)
    \/ BeginRefreshRequest(r) \/ UpstreamLoginSucceeds(r) \/ UpstreamLoginFails(r)
    \/ Complete(r) \/ Abort(r)
    \/ Logout(r)
    \/ CallFails(r)

Next ==
    \/ \E r \in Req : Handle(r) \/ Crash(r)
    \/ OrdinaryRequest
    \/ Alarm
    \/ Tick

Spec == Init /\ [][Next]_vars

\* Time passes and due alarms are delivered.  Nothing is assumed of clients,
\* of the upstream portal or of the handlers, which may all stop.
FairSpec == Spec /\ WF_vars(Tick) /\ WF_vars(Alarm)

----------------------------------------------------------------------------
(* Properties                                                              *)

TypeOK ==
    /\ stored \in VnuRefreshControlState \cup {None}
    /\ alarm \in Nat \cup {None}
    /\ now \in Nat
    /\ req \in [Req -> Handler]
    /\ issued \subseteq LinkedPair /\ delivered \subseteq issued

isActive(pair) == stored # None /\ stored.active = pair

\* A grant is exchanged at most once, however many refreshes of it run, are
\* repeated after a lost answer or finish after their lease: no pair has two
\* issued successors.
RotatedAtMostOnce ==
    \A r1, r2 \in Req :
        /\ r1 # r2 /\ req[r1].pair # None /\ req[r1].pair = req[r2].pair
        /\ req[r1].next # None /\ req[r2].next # None
        => ~(req[r1].next \in issued /\ req[r2].next \in issued)

\* A logout that was answered with success is final: no pair that descends
\* from the same login (with the grant), and not the presented pair (without
\* it), passes an access check again, even if a refresh was in flight.
LogoutIsFinal ==
    \A r \in Req : req[r].phase = "loggedOut" =>
        \A p \in issued :
            /\ IF req[r].withGrant THEN rootOf(p) = req[r].root ELSE p = req[r].pair
            /\ p.grantExpiresAt > now + MaxSkew
            => ~isActive(p)

\* A student whose re-login was completed but whose response got lost holds
\* only the replaced pair.  As long as its grant lives, the authority can still
\* tell that the active pair replaced it, so that logging out with it works.
LostRefreshCanLogOut ==
    \A r \in Req :
        /\ req[r].pair # None /\ req[r].next # None /\ isActive(req[r].next)
        /\ req[r].pair.grantExpiresAt > now + MaxSkew
        => LET tombstone == stored.revokedGrants[req[r].pair.grantId]
           IN  /\ exactlyLinksGrantTombstone(tombstone, req[r].pair)
               /\ tombstone.refreshSuccessor = stored.active

\* However a student's refreshes, logins and logouts interleave, the window in
\* force has counted every VNU login begun on the stored password since it
\* opened, and counts at most AttemptLimit.
RefreshLoginsBounded ==
    stored # None /\ now < stored.window.resetAt =>
        /\ Cardinality({r \in Req : /\ req[r].beganAt # None
                                    /\ req[r].beganAt + AttemptWindow >= stored.window.resetAt})
             <= stored.window.count
        /\ stored.window.count <= AttemptLimit

\* The handlers use the authority as VnuRefreshAuthority's environment does,
\* and time and alarms go on: what is proved of the authority, and that its
\* storage empties, holds of the requests.
Authority == INSTANCE VnuRefreshAuthority
    WITH stored <- stored, alarm <- alarm, now <- now, issued <- issued

ImplementsAuthority == Authority!FairSpec

=============================================================================
