---------------------------- MODULE VnuReconnect ----------------------------
(***************************************************************************)
(* The reconnections of VNU sessions a tab runs: one flight for an account *)
(* and the token it had, which every request that finds this token expired *)
(* joins. Its answer is committed only while the account is active, stored *)
(* with that token, and not being signed out.                              *)
(*                                                                         *)
(* A flight is in the map of flights exactly while its request to the      *)
(* server is open: aborting the request settles the flight.                *)
(***************************************************************************)
EXTENDS WebAccounts

CONSTANTS Request

VARIABLES
    flights,     \* Records [account, token, waiters].
    suppressed,  \* The accounts being signed out.
    status,      \* Per account, the last state published and how many
                 \* reconnections were.
    shown        \* What the user is shown of the active account.

reconnectVars == <<flights, suppressed, status, shown>>

State == {"idle", "reconnecting", "retryable"}
NoStatus == [state |-> "idle", generation |-> 0]

ReconnectTypeOK ==
    /\ flights \subseteq [account: Vnu, token: Tokens \ {0}, waiters: (SUBSET Request) \ {{}}]
    /\ \A f, h \in flights : f.account = h.account /\ f.token = h.token => f = h
    /\ suppressed \subseteq Account
    /\ status \in [Account -> [state: State, generation: Nat]]
    /\ shown \in State

ReconnectInit ==
    /\ flights = {} /\ suppressed = {} /\ shown = "idle"
    /\ status = [a \in Account |-> NoStatus]

-----------------------------------------------------------------------------
(* publishVnuRefreshStatus, and handleRefreshStatus of the page: it shows  *)
(* the state of the account that is active, in the store as it is after.   *)
publish(a, s, after) ==
    /\ status' = [status EXCEPT ![a] =
          [state |-> s, generation |-> @.generation + (IF s = "reconnecting" THEN 1 ELSE 0)]]
    /\ shown' = IF after.active = a /\ a \in Vnu THEN s ELSE shown

\* Mutant: the token is not compared.
unchangedActiveAccount(f) ==
    f.account \notin suppressed /\ stored(f.account) /\ active = f.account

unchangedActive(f) == f.account \notin suppressed /\ unchanged(f) /\ active = f.account

(* runVnuRefresh and createFlight: the request waits for the flight of its *)
(* account and token, which it starts when there is none.                  *)
joinFlight(r, o) ==
    LET same == {f \in flights : f.account = o.account /\ f.token = o.token}
        flight == [account |-> o.account, token |-> o.token,
                   waiters |-> {r} \cup UNION {f.waiters : f \in same}]
    IN  /\ flights' = (flights \ same) \cup {flight}
        /\ IF same = {} THEN publish(o.account, "reconnecting", store)
           ELSE UNCHANGED <<status, shown>>
        /\ UNCHANGED suppressed

\* Mutant: the last waiter to leave does not say so.
releaseWaiterSilently(r) ==
    \E f \in flights :
        /\ r \in f.waiters
        /\ flights' = (flights \ {f}) \cup
              (IF f.waiters = {r} THEN {} ELSE {[f EXCEPT !.waiters = @ \ {r}]})
        /\ UNCHANGED <<suppressed, status, shown>>

(* releaseWaiter: the last one to leave aborts the flight.                 *)
releaseWaiter(r) ==
    \E f \in flights :
        /\ r \in f.waiters
        /\ flights' = (flights \ {f}) \cup
              (IF f.waiters = {r} THEN {} ELSE {[f EXCEPT !.waiters = @ \ {r}]})
        /\ IF f.waiters = {r} /\ unchangedActive(f) THEN publish(f.account, "idle", store)
           ELSE UNCHANGED <<status, shown>>
        /\ UNCHANGED suppressed

(* commitVnuRefresh: the grant is stored, then the list; a list that does  *)
(* not fit puts the grant back.                                            *)
commitFails(f) == issue(f.token) /\ UNCHANGED <<store, grant>>

commits(f) ==
    /\ store' = rotated(f.account, freshToken)
    /\ grant' = [grant EXCEPT ![f.account] = freshToken]
    /\ issue(f.token)

(* cancelVnuRefreshForAccount: the flights a sign-out aborts, whatever the *)
(* token they are for; their waiters hear "stale".                         *)
cancelledWith(a) == {f \in flights : f.account = a}

(* resetCancelledReconnectStatus: a sign-out that fails takes back the     *)
(* "reconnecting" it has interrupted, unless anything has changed.         *)
resetCancelledReconnectStatus(a, then) ==
    IF /\ then.status.state = "reconnecting"
       /\ store.token[a] = then.token /\ grant[a] = then.grant
       /\ status[a] = then.status
    THEN publish(a, "idle", store)
    ELSE UNCHANGED <<status, shown>>
=============================================================================
