----------------------------- MODULE WebRequests -----------------------------
(***************************************************************************)
(* The requests of a tab to the server (request of lib/api/api.ts), what   *)
(* their answers do to the accounts, the sign-outs in progress and the     *)
(* gate that signs a UET account back in.                                  *)
(*                                                                         *)
(* JavaScript runs to completion: the continuations of a promise run       *)
(* before any other task, so no answer and no user action is handled while *)
(* one is due (Quiet).                                                     *)
(***************************************************************************)
EXTENDS BulkLookupPage

CONSTANTS
    Bulk,        \* The request of the bulk page.
    Scenario     \* The accounts stored at first and those without a grant, the
                 \* requests (sole: one, and nobody signs in) and their
                 \* policies, whose UET credentials the tab keeps, and how
                 \* often users, tabs and the storage may act.

Budget == {"asks", "cancels", "switches", "signIns", "removals", "runs", "faults", "otherTab"}

ASSUME RequestAssumption ==
    /\ Bulk \in Request
    /\ \A x \in Scenario :
          /\ x.accounts \in Seq(Account) /\ x.requests \subseteq Request
          /\ \A i, j \in 1..Len(x.accounts) : x.accounts[i] = x.accounts[j] => i = j
          /\ x.creds \in {None} \cup (Account \ Vnu)
          /\ x.withoutGrant \subseteq Account
          /\ x.policies \subseteq {"safe", "manual", "never"}
          /\ x.budget \in [Budget -> Nat]
          /\ x.sole <=> (\E r \in Request \ {Bulk} : x.requests = {r}) /\ x.budget.signIns = 0

VARIABLES
    scenario,    \* Never changes.
    req,         \* Every request.
    removal,     \* The sign-out of every account: its origin when it began.
    gate,        \* SessionReauthGate, the credentials, the cooldown.
    condemned,   \* Ghost: the tokens the server has called dead in an answer
                 \* to a request that carried them, or the user signs out of.
    budget       \* How often users, tabs and the storage may still act.

requestVars == <<scenario, req, removal, gate, condemned, budget>>
vars == <<accountVars, reconnectVars, page, requestVars>>

Live == {"sent", "waiting", "resumed"}
NoRequest == [at |-> "done", origin |-> [account |-> None, token |-> 0], sent |-> 0,
              policy |-> "never", replay |-> FALSE, aborted |-> FALSE, heard |-> "none"]
NoRemoval == [at |-> "idle", token |-> 0, grant |-> 0, status |-> NoStatus, signOut |-> FALSE]

RequestState ==
    [at: Live \cup {"done"}, sent: Tokens,
     origin: [account: {None} \cup Account, token: Tokens],
     policy: {"safe", "manual", "never"}, replay: BOOLEAN, aborted: BOOLEAN,
     heard: {"none", "ok", "error", "stale", "restored", "cancelled"}]

RequestTypeOK ==
    /\ scenario \in Scenario
    /\ req \in [Request -> RequestState]
    /\ \A r \in Request : req[r].at = "waiting" => \E f \in flights : r \in f.waiters
    /\ removal \in [Account ->
          [at: {"idle", "revoking"}, token: Tokens, grant: Tokens,
           status: [state: State, generation: Nat], signOut: BOOLEAN]]
    /\ gate \in [at: {"idle", "running"}, using: {None} \cup (Account \ Vnu),
                 creds: {None} \cup (Account \ Vnu), cool: BOOLEAN]
    /\ condemned \subseteq Tokens
    /\ budget \in [Budget -> Nat]

spend(what) == budget[what] > 0 /\ budget' = [budget EXCEPT ![what] = @ - 1]

\* A continuation is due.
Quiet == \A r \in Request :
            /\ req[r].at # "resumed" /\ ~(req[r].aborted /\ req[r].at \in Live)
            /\ r = Bulk /\ page.at = "running" => req[r].at # "done"

-----------------------------------------------------------------------------
(* The events of this tab.                                                 *)

(* The bulk page is emptied, its run invalidated and its request aborted;  *)
(* the user is shown no reconnection of the next account; without any, the *)
(* page and the gate go. The page may also be left ("left").               *)
pageAfter(event) == IF event = "none" THEN page ELSE EmptyPage

requestsAfter(event, requests) ==
    IF event # "none" /\ requests[Bulk].at \in Live
    THEN [requests EXCEPT ![Bulk].aborted = TRUE] ELSE requests

hears(event, requests, newGate) ==
    /\ page' = pageAfter(event)
    /\ req' = requestsAfter(event, requests)
    /\ shown' = IF event = "switched" THEN "idle" ELSE shown
    /\ gate' = IF event = "cleared" THEN [newGate EXCEPT !.at = "idle"] ELSE newGate

\* The request is over.
ended(r, heard) == [req EXCEPT ![r] = [@ EXCEPT !.at = "done", !.heard = heard, !.aborted = FALSE]]

\* The account is removed and its grant forgotten; the request is over.
removesAndEnds(a, r) ==
    /\ store' = accountRemoved(a)
    /\ grant' = IF a \in Vnu THEN withoutGrant(a) ELSE grant
    /\ hears(removalEvent(a), ended(r, "error"), gate)
    /\ UNCHANGED <<basis, flights, suppressed, status, scenario, removal, budget>>

endsOnly(r, heard) ==
    /\ req' = ended(r, heard)
    /\ UNCHANGED <<accountVars, reconnectVars, page, scenario, removal, gate, budget>>

-----------------------------------------------------------------------------
(* A request and its answers.                                              *)

\* The request is sent with the token of the account active now.
asked(a, policy) ==
    [NoRequest EXCEPT !.at = "sent", !.origin = origin(a), !.sent = store.token[a],
                      !.policy = policy]

policyOf(a, policy) == IF a \in Vnu THEN policy ELSE "never"

Ask(r, policy) ==
    /\ Quiet /\ r \in scenario.requests \ {Bulk} /\ req[r].at = "done"
    /\ active # None /\ spend("asks")
    /\ req' = [req EXCEPT ![r] = asked(active, policyOf(active, policy))]
    /\ UNCHANGED <<accountVars, reconnectVars, page, scenario, removal, gate, condemned>>

Sent(r) == Quiet /\ req[r].at = "sent"
o(r) == req[r].origin

(* An answer may bring a new token: only UET sessions are renewed so.      *)
AnsweredOk(r) ==
    /\ Sent(r)
    /\ \/ endsOnly(r, "ok")
       \/ /\ o(r).account \notin Vnu
          /\ issue(req[r].sent)
          /\ store' = IF unchanged(o(r)) THEN rotated(o(r).account, freshToken) ELSE store
          /\ req' = ended(r, "ok")
          /\ UNCHANGED <<grant, reconnectVars, page, scenario, removal, gate, budget>>
    /\ UNCHANGED condemned

AnsweredError(r) == Sent(r) /\ endsOnly(r, "error") /\ UNCHANGED condemned

(* The VNU session has expired: without a grant its account is removed,    *)
(* with one the request waits for a reconnection.                          *)
AnsweredExpired(r) ==
    LET account == o(r).account
    IN  /\ Sent(r) /\ account \in Vnu
        /\ condemned' = condemned \cup {req[r].sent}
        /\ IF req[r].replay \/ req[r].policy = "never" \/ account \in suppressed
           THEN endsOnly(r, "error")
           ELSE IF grant[account] # 0
           THEN /\ joinFlight(r, o(r))
                /\ req' = [req EXCEPT ![r].at = "waiting"]
                /\ UNCHANGED <<accountVars, page, scenario, removal, gate, budget>>
           ELSE IF active = account /\ unchanged(o(r))
           THEN removesAndEnds(account, r)
           ELSE endsOnly(r, "error")

\* canReauthenticateInline
mayReauthenticate(account) == account \notin Vnu /\ gate.creds # None /\ ~gate.cool

\* Mutant: whatever token the account has by now.
diesWhatever(ori) == ori.account # None /\ stored(ori.account)

\* Whether an answer that says the session is dead is about the account.
dies(ori) == unchanged(ori)

(* The session of the request is dead, or its refresh needs a CAPTCHA: the *)
(* gate signs an active UET account back in, a dead one is removed         *)
(* otherwise.                                                              *)
AnsweredDead(r, code) ==
    LET account == o(r).account
    IN  /\ Sent(r)
        /\ condemned' = IF code = "dead" THEN condemned \cup {req[r].sent} ELSE condemned
        /\ IF dies(o(r)) /\ active = account /\ mayReauthenticate(account)
           THEN /\ gate' = [gate EXCEPT !.at = "running",
                                        !.using = IF gate.at = "running" THEN @ ELSE gate.creds]
                /\ req' = ended(r, "error")
                /\ UNCHANGED <<accountVars, reconnectVars, page, scenario, removal, budget>>
           ELSE IF code = "dead" /\ dies(o(r))
           THEN removesAndEnds(account, r)
           ELSE endsOnly(r, "error")

(* The caller aborts: React Query, a component that goes, the user.        *)
Cancel(r) ==
    /\ Quiet /\ req[r].at \in {"sent", "waiting"} /\ spend("cancels")
    /\ req' = [req EXCEPT ![r].aborted = TRUE]
    /\ UNCHANGED <<accountVars, reconnectVars, page, scenario, removal, gate, condemned>>

Cancelled(r) ==
    /\ req[r].aborted /\ req[r].at \in {"sent", "waiting"}
    /\ IF req[r].at = "waiting" THEN releaseWaiter(r) ELSE UNCHANGED reconnectVars
    /\ req' = ended(r, "cancelled")
    /\ UNCHANGED <<accountVars, page, scenario, removal, gate, condemned, budget>>

-----------------------------------------------------------------------------
(* The answer of a reconnection.                                           *)

\* Mutant: one of the waiters goes on.
resumedOne(fs, heard, requests) ==
    LET waiters == UNION {f.waiters : f \in fs}
    IN  IF waiters = {} THEN requests
        ELSE [requests EXCEPT ![CHOOSE r \in waiters : TRUE] =
                  [@ EXCEPT !.at = "resumed", !.heard = heard]]

\* The waiters of these flights go on, with what they heard.
resumed(fs, heard, requests) ==
    [r \in Request |-> IF \E f \in fs : r \in f.waiters
                       THEN [requests[r] EXCEPT !.at = "resumed", !.heard = heard]
                       ELSE requests[r]]

Reconnected(f) ==
    /\ flights' = flights \ {f}
    /\ UNCHANGED <<suppressed, page, scenario, removal, gate, condemned>>
    /\ \/ /\ unchangedActive(f)
          /\ commits(f) /\ publish(f.account, "idle", store)
          /\ req' = [r \in Request |->
                        IF r \in f.waiters
                        THEN [resumed({f}, "ok", req)[r] EXCEPT !.sent = freshToken]
                        ELSE req[r]]
          /\ UNCHANGED budget
       \/ /\ unchangedActive(f) /\ spend("faults")
          /\ commitFails(f) /\ publish(f.account, "retryable", store)
          /\ req' = resumed({f}, "error", req)
       \/ /\ ~unchangedActive(f)
          /\ issue(f.token)
          /\ req' = resumed({f}, "stale", req)
          /\ UNCHANGED <<store, grant, status, shown, budget>>

NotReconnected(f) ==
    /\ flights' = flights \ {f}
    /\ UNCHANGED <<basis, suppressed, scenario, removal, budget>>
    /\ \/ /\ unchangedActive(f)     \* The grant or the credential is refused.
          /\ condemned' = condemned \cup {f.token}
          /\ store' = accountRemoved(f.account) /\ grant' = withoutGrant(f.account)
          /\ hears(removalEvent(f.account), resumed({f}, "error", req), gate)
          /\ UNCHANGED status
       \/ /\ unchangedActive(f)     \* Any other failure.
          /\ publish(f.account, "retryable", store)
          /\ req' = resumed({f}, "error", req)
          /\ UNCHANGED <<store, grant, page, gate, condemned>>
       \/ /\ ~unchangedActive(f)
          /\ req' = resumed({f}, "stale", req)
          /\ UNCHANGED <<store, grant, status, shown, page, gate, condemned>>

FlightAnswers(f) == Quiet /\ (Reconnected(f) \/ NotReconnected(f))

\* The policy of the request, reduced to this: may it be sent again?
mayReplay(r) == req[r].policy = "safe"

(* The request goes on after the reconnection: it fails, or it is sent     *)
(* again with the new token, for the account that is active.               *)
Resume(r) ==
    /\ req[r].at = "resumed"
    /\ \/ /\ req[r].heard # "ok"
          /\ req' = ended(r, req[r].heard)
       \/ /\ req[r].heard = "ok" /\ r # Bulk   \* Its query got a new key, and aborts it.
          /\ req' = ended(r, "cancelled")
       \/ /\ req[r].heard = "ok" /\ ~mayReplay(r)
          /\ req' = ended(r, "restored")
       \/ /\ req[r].heard = "ok" /\ mayReplay(r)
          /\ req' = [req EXCEPT ![r] =
                [asked(active, "safe") EXCEPT !.sent = req[r].sent, !.replay = TRUE]]
    /\ UNCHANGED <<accountVars, reconnectVars, page, scenario, removal, gate, condemned, budget>>

-----------------------------------------------------------------------------
(* Signing out: revokeAndRemoveAccount.                                    *)
StartRemoval(a, signOut) ==
    /\ Quiet /\ gate.at = "idle" /\ stored(a) /\ removal[a].at = "idle" /\ spend("removals")
    /\ signOut => active = a
    /\ removal' = [removal EXCEPT ![a] =
          [at |-> "revoking", token |-> store.token[a], grant |-> grant[a],
           status |-> status[a], signOut |-> signOut]]
    /\ suppressed' = suppressed \cup {a}
    /\ flights' = flights \ cancelledWith(a)
    /\ req' = resumed(cancelledWith(a), "stale", req)
    /\ condemned' = condemned \cup {store.token[a]}
    /\ UNCHANGED <<accountVars, status, shown, page, scenario, gate>>

\* Whether the account is still the one the user asked to remove.
asAsked(a) == stored(a) /\ store.token[a] = removal[a].token

RemovalAnswered(a) ==
    /\ Quiet /\ removal[a].at = "revoking"
    /\ removal' = [removal EXCEPT ![a] = NoRemoval]
    /\ suppressed' = suppressed \ {a}
    /\ UNCHANGED <<basis, flights, scenario, condemned, budget>>
    /\ LET forgotten == IF removal[a].signOut THEN [gate EXCEPT !.creds = None] ELSE gate
       IN  \/ /\ asAsked(a)
              /\ store' = accountRemoved(a) /\ grant' = withoutGrant(a)
              /\ status' = [status EXCEPT ![a] = NoStatus]
              /\ hears(removalEvent(a), req, forgotten)
           \/ /\ ~asAsked(a)
              /\ gate' = forgotten
              /\ UNCHANGED <<store, grant, status, shown, page, req>>
           \/ /\ a \in Vnu          \* The server refuses, or does not answer.
              /\ resetCancelledReconnectStatus(a, removal[a])
              /\ UNCHANGED <<store, grant, page, req, gate>>

-----------------------------------------------------------------------------
(* SessionReauthGate: signing a UET account back in with the credentials   *)
(* the tab had when the gate began.                                        *)
ReauthSucceeds ==
    /\ Quiet /\ gate.at = "running"
    /\ store' = upserted(gate.using, freshToken) /\ issue(0)
    /\ hears("switched", req, [gate EXCEPT !.at = "idle", !.cool = TRUE])
    /\ suppressed' = IF stored(gate.using) THEN suppressed ELSE suppressed \ {gate.using}
    /\ UNCHANGED <<grant, flights, status, scenario, removal, condemned, budget>>

(* It fails, its credentials are refused, it is cancelled: clearSessionToken *)
(* removes the account that is active by then.                             *)
ReauthFails ==
    /\ Quiet /\ gate.at = "running"
    /\ \E creds \in {gate.creds, None} :
          LET over == [gate EXCEPT !.at = "idle", !.creds = creds]
          IN  IF active # None
              THEN store' = accountRemoved(active) /\ hears(removalEvent(active), req, over)
              ELSE UNCHANGED store /\ hears("cleared", req, over)
    /\ UNCHANGED <<grant, basis, flights, suppressed, status, scenario, removal, condemned,
                   budget>>

CooldownEnds ==
    /\ Quiet /\ gate.cool /\ gate' = [gate EXCEPT !.cool = FALSE]
    /\ UNCHANGED <<accountVars, reconnectVars, page, scenario, req, removal, condemned, budget>>
=============================================================================
