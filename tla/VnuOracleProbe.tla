--------------------------- MODULE VnuOracleProbe ---------------------------
(***************************************************************************)
(* One request to the portal made under a Brc1 permit: the call for the    *)
(* permit, the request, and the return of the permit, all of which may     *)
(* fail, be cut off by a timer, or be cut off by the caller.               *)
(*                                                                         *)
(* With the Durable Object the caller leaves the call for a permit as soon *)
(* as it is cut off, and a grant that comes late is returned for it; with  *)
(* Redis it waits for the answer.                                          *)
(***************************************************************************)
EXTENDS VnuProbeBudget

CONSTANT RouteTime     \* crossLookupRequestTimeoutMs.

\* parseVnuRuntimeConfig keeps it at 120 s or less; a lease lasts 125 s.
ASSUME RouteAssumption == RouteTime \in Nat \ {0} /\ RouteTime < LeaseTime

VARIABLES
    probe,      \* Every request to the portal.
    faults      \* How many calls may still fail.

(* at: where the caller is. call: the call for the permit. cut: whether the *)
(* signal of the request is aborted, and by what. outcome: "match" when the *)
(* page carries the wanted code, "other" when it does not.                  *)
NoProbe == [at |-> "idle", call |-> "none", cut |-> "none", outcome |-> "none", since |-> 0]

ProbeTypeOK ==
    /\ probe \in [Probe -> [
            at: {"idle", "acquiring", "working", "returning", "releasing", "done"},
            call: {"none", "sent", "granted", "refused", "failed"},
            cut: {"none", "timeout", "abort"},
            outcome: {"none", "match", "other", "error", "cut"},
            since: 0..MaxTime]]
    /\ faults \in Nat

ProbeInit == probe = [p \in Probe |-> NoProbe]

done(p) == probe[p].at = "done"
underway(p) == probe[p].at \notin {"idle", "done"}

\* A call whose caller has left.
late(p) == done(p) /\ probe[p].call # "none"

fault == faults > 0 /\ faults' = faults - 1

(* An abort reaches every request under way that none has reached before.  *)
cutOff(ps, how) ==
    [p \in Probe |-> IF p \in ps /\ probe[p].at \in {"acquiring", "working"}
                                 /\ probe[p].cut = "none"
                     THEN [probe[p] EXCEPT !.cut = how] ELSE probe[p]]

(* A request that starts; one of a cancelled route asks for no permit.     *)
begun(cancelled) ==
    IF cancelled THEN [NoProbe EXCEPT !.at = "done", !.outcome = "cut"]
    ELSE [NoProbe EXCEPT !.at = "acquiring", !.call = "sent", !.since = now]

\* What a request that was cut off ends with: a timeout is an error.
cutOutcome(p) == IF probe[p].cut = "timeout" THEN "error" ELSE "cut"

-----------------------------------------------------------------------------
(* The coordinator answers, or the call fails before or after it ran.      *)
heard(p, answer) ==
    [probe EXCEPT ![p].call = IF done(p) /\ answer # "granted" THEN "none" ELSE answer]

CoordinatorAnswers(p) ==
    /\ probe[p].call = "sent"
    /\ \/ GrantLease(p) /\ probe' = heard(p, "granted") /\ UNCHANGED faults
       \/ RefuseLease /\ probe' = heard(p, "refused") /\ UNCHANGED faults
       \/ GrantLease(p) /\ probe' = heard(p, "failed") /\ fault
       \/ fault /\ probe' = heard(p, "failed") /\ UNCHANGED <<store, now, budgetVars>>

\* The signal and the timers of a request that has ended matter no more.
ends(p, outcome) == [probe EXCEPT ![p] = [NoProbe EXCEPT !.at = "done", !.outcome = outcome]]

(* A caller that was cut off does not wait for the Durable Object.         *)
LeaveAcquire(p) ==
    /\ store = "durable"
    /\ probe[p].at = "acquiring" /\ probe[p].call = "sent" /\ probe[p].cut # "none"
    /\ probe' = [ends(p, cutOutcome(p)) EXCEPT ![p].call = "sent"]
    /\ UNCHANGED <<store, now, budgetVars, faults>>

(* The late grant is returned; a return that fails leaves it to expire.    *)
\* Mutant: the answer to a caller that has left is dropped.
LateGrantDropped(p) ==
    /\ done(p) /\ probe[p].call = "granted"
    /\ probe' = [probe EXCEPT ![p].call = "none"]
    /\ UNCHANGED <<store, now, budgetVars, faults>>

LateGrant(p) ==
    /\ done(p) /\ probe[p].call = "granted"
    /\ probe' = [probe EXCEPT ![p].call = "none"]
    /\ \/ ReturnLease(p) /\ UNCHANGED faults
       \/ fault /\ UNCHANGED <<store, now, budgetVars>>

AcquireGranted(p) ==
    /\ probe[p].at = "acquiring" /\ probe[p].call = "granted"
    /\ probe' = IF probe[p].cut = "none"
                THEN [probe EXCEPT ![p].call = "none", ![p].at = "working"]
                ELSE [probe EXCEPT ![p] =
                        [NoProbe EXCEPT !.at = IF store = "redis" THEN "returning"
                                               ELSE "releasing",
                                        !.outcome = cutOutcome(p)]]
    /\ UNCHANGED <<store, now, budgetVars, faults>>

(* Behind Redis the refusal or the failure is what the caller sees.        *)
AcquireFailed(p) ==
    /\ probe[p].at = "acquiring" /\ probe[p].call \in {"refused", "failed"}
    /\ probe' = ends(p, IF store = "durable" /\ probe[p].cut # "none"
                        THEN cutOutcome(p) ELSE "error")
    /\ UNCHANGED <<store, now, budgetVars, faults>>

(* The coordinator for Redis returns the grant of a caller that was cut    *)
(* off, and reports a return that fails.                                   *)
ReturnCut(p) ==
    /\ probe[p].at = "returning"
    /\ \/ ReturnLease(p) /\ probe' = ends(p, probe[p].outcome) /\ UNCHANGED faults
       \/ fault /\ probe' = ends(p, "error") /\ UNCHANGED <<store, now, budgetVars>>

(* The portal answers, or the abort ends the request.                      *)
FetchEnds(p) ==
    /\ probe[p].at = "working"
    /\ \E outcome \in IF probe[p].cut = "none" THEN {"match", "other", "error"}
                      ELSE {cutOutcome(p)} :
          probe' = [probe EXCEPT ![p] =
                      [NoProbe EXCEPT !.at = "releasing", !.outcome = outcome]]
    /\ UNCHANGED <<store, now, budgetVars, faults>>

(* The permit goes back before the caller goes on, whatever becomes of it. *)
ReleasePermit(p) ==
    /\ probe[p].at = "releasing"
    /\ probe' = ends(p, probe[p].outcome)
    /\ \/ ReturnLease(p) /\ UNCHANGED faults
       \/ fault /\ UNCHANGED <<store, now, budgetVars>>

-----------------------------------------------------------------------------
(* The timers: of the route, set before the permit is asked for, and of    *)
(* the permit, set when it is granted.                                     *)
\* Mutant: only the permit has a timer, which the call for it has not yet.
timerDueOnLease(p) ==
    probe[p].cut = "none" /\ probe[p].at = "working" /\ now >= leases[p]

timerDue(p) ==
    /\ probe[p].cut = "none"
    /\ \/ probe[p].at \in {"acquiring", "working"} /\ now >= probe[p].since + RouteTime
       \/ probe[p].at = "working" /\ now >= leases[p]

ProbeTimesOut(p) ==
    /\ timerDue(p)
    /\ probe' = cutOff({p}, "timeout")
    /\ UNCHANGED <<store, now, budgetVars, faults>>

(* A due timer fires, and an aborted request ends, within the instant.     *)
probeUrgent == \E p \in Probe :
    \/ timerDue(p)
    \/ probe[p].at = "working" /\ probe[p].cut # "none"

ProbeStep(p) ==
    \/ CoordinatorAnswers(p) \/ LeaveAcquire(p) \/ LateGrant(p)
    \/ AcquireGranted(p) \/ AcquireFailed(p) \/ ReturnCut(p)
    \/ FetchEnds(p) \/ ReleasePermit(p) \/ ProbeTimesOut(p)
=============================================================================
