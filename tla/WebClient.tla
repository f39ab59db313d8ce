----------------------------- MODULE WebClient -----------------------------
(***************************************************************************)
(* A tab of the web client: what its user does, its requests, the          *)
(* reconnections, the sign-outs, the gate and the bulk page, while another *)
(* tab of the browser may write the same accounts.                         *)
(*                                                                         *)
(* The server may answer anything. Every request is answered or fails at   *)
(* some time.                                                              *)
(***************************************************************************)
EXTENDS WebRequests

TypeOK == AccountsTypeOK /\ ReconnectTypeOK /\ PageTypeOK /\ RequestTypeOK

Init ==
    /\ scenario \in Scenario
    /\ LET accounts == scenario.accounts
           first(a) == IF a \in range(accounts) THEN CHOOSE i \in 1..Len(accounts) : accounts[i] = a
                       ELSE 0
       IN  /\ store = [order |-> accounts, token |-> [a \in Account |-> first(a)],
                       active |-> IF accounts = <<>> THEN None ELSE Head(accounts)]
           /\ grant = [a \in Account |-> IF a \in Vnu /\ a \notin scenario.withoutGrant
                                         THEN first(a) ELSE 0]
           /\ basis = [i \in 1..Len(accounts) |-> 0]
    /\ ReconnectInit
    /\ page = EmptyPage
    /\ req = [r \in Request |-> NoRequest]
    /\ removal = [a \in Account |-> NoRemoval]
    /\ gate = [at |-> "idle", using |-> None, creds |-> scenario.creds, cool |-> FALSE]
    /\ condemned = {}
    /\ budget = scenario.budget

-----------------------------------------------------------------------------
(* The user.                                                               *)

User == Quiet /\ gate.at = "idle"

\* An account stored again is another one to what the tab remembers by id.
newIdentity(a) ==
    /\ suppressed' = IF stored(a) THEN suppressed ELSE suppressed \ {a}
    /\ status' = IF stored(a) THEN status ELSE [status EXCEPT ![a] = NoStatus]

(* commitImportedAccount of VNU, whose failure undoes every write; and     *)
(* upsertAccount of UET, whose second write may fail alone. The UET        *)
(* credentials stay in the tab.                                            *)
SignIn(a) ==
    /\ User /\ spend("signIns")
    /\ UNCHANGED <<flights, scenario, removal, condemned>>
    /\ issue(0)
    /\ \/ /\ store' = upserted(a, freshToken) /\ newIdentity(a)
          /\ \/ a \in Vnu /\ grant' = [grant EXCEPT ![a] = freshToken]
             \/ a \in Vnu /\ grant' = withoutGrant(a)
             \/ a \notin Vnu /\ UNCHANGED grant
          /\ hears("switched", req, [gate EXCEPT !.creds = IF a \in Vnu THEN @ ELSE a])
       \/ /\ a \notin Vnu /\ budget.faults > 0
          /\ store' = [upserted(a, freshToken) EXCEPT !.active = active] /\ newIdentity(a)
          /\ hears("left", req, gate)
          /\ UNCHANGED grant

Switch(a) ==
    /\ User /\ stored(a) /\ spend("switches")
    /\ store' = [store EXCEPT !.active = a]
    /\ hears("switched", req, gate)
    /\ UNCHANGED <<grant, basis, flights, suppressed, status, scenario, removal, condemned>>

Remove(a, signOut) == gate.at = "idle" /\ StartRemoval(a, signOut)

OtherTab ==
    /\ Quiet /\ spend("otherTab")
    /\ OtherTabWrites
    /\ UNCHANGED <<reconnectVars, page, scenario, req, removal, gate, condemned>>

-----------------------------------------------------------------------------
(* The bulk page.                                                          *)

\* The next chunk is asked for with the account that is active now.
askChunk == req' = [req EXCEPT ![Bulk] = asked(active, policyOf(active, "manual"))]

RunBulk(n) ==
    /\ User /\ Bulk \in scenario.requests
    /\ page.at = "idle" /\ req[Bulk].at = "done" /\ active \in Vnu
    /\ retrying => n = page.total
    /\ spend("runs")
    /\ page' = runStarted(n) /\ askChunk
    /\ UNCHANGED <<accountVars, reconnectVars, scenario, removal, gate, condemned>>

ChunkDone ==
    /\ page.at = "running" /\ req[Bulk].at = "done"
    /\ UNCHANGED <<accountVars, reconnectVars, scenario, removal, gate, condemned, budget>>
    /\ LET p == withChunk(req[Bulk].origin.account)
       IN  \/ /\ req[Bulk].heard = "ok" /\ p.pending # <<>> /\ active # None
              /\ page' = p /\ askChunk
           \/ /\ req[Bulk].heard = "ok" /\ (p.pending = <<>> \/ active = None)
              /\ page' = runSettled(p) /\ UNCHANGED req
           \/ page' = runSettled(page) /\ UNCHANGED req   \* Failed, or not what was asked.

(* Typing, choosing a mode, resetting, leaving the page.                   *)
ClearPage ==
    /\ User /\ page # EmptyPage /\ spend("cancels")
    /\ hears("left", req, gate)
    /\ UNCHANGED <<accountVars, flights, suppressed, status, scenario, removal, condemned>>

-----------------------------------------------------------------------------
Answered(r) ==
    \/ AnsweredOk(r) \/ AnsweredError(r) \/ AnsweredExpired(r)
    \/ AnsweredDead(r, "dead") \/ AnsweredDead(r, "captcha")

Continue(r) == Cancelled(r) \/ Resume(r)

Server ==
    \/ \E f \in flights : FlightAnswers(f)
    \/ \E a \in Account : RemovalAnswered(a)
    \/ ReauthSucceeds \/ ReauthFails

Next ==
    \/ \E r \in Request, policy \in {"safe", "manual", "never"} :
          policy \in scenario.policies /\ Ask(r, policy)
    \/ \E r \in Request : Answered(r) \/ Cancel(r) \/ Continue(r)
    \/ Server \/ CooldownEnds \/ OtherTab \/ ChunkDone \/ ClearPage
    \/ \E a \in Account : SignIn(a) \/ Switch(a) \/ Remove(a, TRUE) \/ Remove(a, FALSE)
    \/ \E n \in 1..MaxTargets : RunBulk(n)

Spec == Init /\ [][Next]_vars

Progress ==
    \/ \E r \in Request : Answered(r) \/ Continue(r)
    \/ Server \/ ChunkDone

(* JavaScript goes on, and what is out is answered or fails.               *)
FairSpec == Spec /\ WF_vars(Progress)

-----------------------------------------------------------------------------
SingleTab == scenario.budget.otherTab = 0

(* A token is replaced by a sign-in, or by one the server gave to a        *)
(* request that carried it: never by the answer to an older token, nor by  *)
(* one for the account that was active before (also with another tab).     *)
TokenFollowsItsOrigin ==
    [][\A a \in Account :
          stored(a) /\ store'.token[a] \notin {0, store.token[a]} =>
              basis'[store'.token[a]] \in {0, store.token[a]}]_vars

(* The grant a tab keeps came with the token that is stored, even when the *)
(* storage fails between the two writes.                                   *)
GrantMatchesToken ==
    SingleTab => \A a \in Vnu : stored(a) => grant[a] \in {0, store.token[a]}

(* The stored pair is one the server gave, for the account it is stored    *)
(* under, in answer to what that account had.                              *)
PairsFollowTheirOrigin == TokenFollowsItsOrigin /\ []GrantMatchesToken

(* The user is told of a reconnection only while one runs for the active   *)
(* account, or the sign-out that interrupted it does ("While refresh runs, *)
(* show a polite, nonblocking reconnecting status").                       *)
ReconnectingIsTrue ==
    SingleTab /\ shown = "reconnecting" /\ active # None =>
        removal[active].at = "revoking" \/ \E f \in flights : f.account = active

(* The same for the switches, cancellations and sign-outs around one       *)
(* request: the answer to an older token is what breaks it, and needs      *)
(* another request or a sign-in.                                           *)
ReconnectingIsTrueAlone ==
    scenario.sole => ReconnectingIsTrue

(* An account leaves the list only when the server has refused the token   *)
(* it has, or its user signs out of the session it has: no answer to an    *)
(* older token removes it. (The re-authentication dialog is apart.)        *)
OnlyTheDeadLeave ==
    [][\A a \in Account :
          SingleTab /\ gate'.at = gate.at /\ stored(a) /\ store'.token[a] = 0 =>
              store.token[a] \in condemned']_vars

targetsOf(items) == [i \in 1..Len(items) |-> items[i].target]

(* Whatever runs, failures, cancellations and retries there were, the      *)
(* targets shown and those left are all the targets, in order and once;    *)
(* the export has the items shown and says it is complete exactly when     *)
(* nothing is left.                                                        *)
TargetsAccountedFor ==
    LET rest == IF page.at = "running" THEN page.pending ELSE page.left
    IN  /\ targetsOf(page.items) \o rest = [i \in 1..page.total |-> i]
        /\ page.exported = page.items
        /\ page.model.count = Len(page.items)
        /\ page.model.status = "complete" <=>
               page.at = "idle" /\ page.items # <<>> /\ rest = <<>>

(* The results shown are all of the account that is active.                *)
ResultsOfActive == SingleTab => \A i \in 1..Len(page.items) : page.items[i].by = active

(* The page shows the whole of one account's run and nothing else.         *)
BulkResultsWhole == TargetsAccountedFor /\ ResultsOfActive

(* Requests and runs end: a flight that is aborted, or answered for an     *)
(* account that is gone, leaves nobody waiting.                            *)
WorkEnds ==
    /\ \A r \in Request : req[r].at # "done" ~> req[r].at = "done"
    /\ page.at = "running" ~> page.at = "idle"

(* An account keeps the session that is its own for as long as it lives.   *)
AccountsStayTrue == PairsFollowTheirOrigin /\ OnlyTheDeadLeave
=============================================================================
