--------------------------- MODULE VnuCrossDetail ---------------------------
(***************************************************************************)
(* Grade details of another student, and the whole of the cross lookups of *)
(* one session: a transcript request issues single-use permits for its     *)
(* rows, a "detail" request presents one of them, a "batch" request warms  *)
(* the portal up under a Brc1 permit and then presents several in turn.    *)
(*                                                                         *)
(* A detail request has no deadline: it ends when the portal answers or    *)
(* when its client goes away.                                              *)
(***************************************************************************)
EXTENDS VnuCrossLookup, Sequences

CONSTANTS
    Presented        \* What every "detail" and "batch" request presents: a
                     \* sequence of [permit, bound], bound when the request
                     \* carries the token the permit was issued to.

MaxRows == 2

ASSUME DetailAssumption ==
    /\ Permit \subseteq Request \X Nat
    /\ Detail \subseteq Request \X (1..MaxRows)
    /\ \A x \in Scenario : \A r \in Request :
          x.kind[r] \in {"detail", "batch"} => \A k \in 1..Len(Presented[r]) : <<r, k>> \in Detail
    /\ \A r \in Request : /\ Presented[r] \in Seq([permit: Permit, bound: BOOLEAN])
                          /\ Len(Presented[r]) \in 1..MaxRows

VARIABLES
    detail,      \* Every presentation of a permit.
    issued       \* The requests that have issued their permits.

detailVars == <<detail, issued>>
vars == <<coordinatorVars, probeVars, scenario, lookupVars, detailVars>>

NoDetail == [at |-> "idle", outcome |-> "none", since |-> 0]

\* One type invariant: what every variable may hold.
TypeOK ==
    /\ BudgetTypeOK /\ ProbeTypeOK /\ LookupTypeOK
    /\ detail \in [Detail -> [
          at: {"idle", "fetching", "releasing", "done"},
          outcome: {"none", "html", "error", "invalid", "budget", "busy", "lost"},
          since: 0..MaxTime]]
    /\ issued \subseteq Request

Init ==
    /\ LookupInit
    /\ detail = [x \in Detail |-> NoDetail]
    /\ issued = {}

permitsOf(r) == {d \in Permit : d[1] = r}
presentedBy(x) == Presented[x[1]][x[2]]

-----------------------------------------------------------------------------
(* The transcript ends; its rows get their permits before it is answered.  *)
TranscriptEnds(r) ==
    LET outcome == probe[transcriptOf(r)].outcome
    IN  /\ route[r].phase = "fetching" /\ done(transcriptOf(r))
        /\ UNCHANGED <<probe, scenario, resolver, cancels, detail>>
        /\ \/ /\ outcome = "match" /\ permitsOf(r) # {}
              /\ IssuePermits(permitsOf(r))
              /\ issued' = issued \cup {r}
              /\ \/ finish(r, "answered") /\ UNCHANGED faults
                 \/ finish(r, "failed") /\ fault
           \/ /\ outcome = "match" /\ permitsOf(r) = {}
              /\ finish(r, "answered")
              /\ UNCHANGED <<coordinatorVars, faults, issued>>
           \/ /\ outcome = "match" /\ permitsOf(r) # {}
              /\ finish(r, "failed") /\ fault
              /\ UNCHANGED <<coordinatorVars, issued>>
           \/ /\ outcome # "match"
              /\ finish(r, "failed")
              /\ UNCHANGED <<coordinatorVars, faults, issued>>

(* The warm-up of a batch is a request to the portal like any other.       *)
warmUpOf(r) == <<r, 1, 0>>

StartDetails(r) ==
    /\ route[r].phase = "idle" /\ kind(r) \in {"detail", "batch"}
    /\ finish(r, IF kind(r) = "batch" THEN "warming" ELSE "details")
    /\ probe' = IF kind(r) = "batch" THEN [probe EXCEPT ![warmUpOf(r)] = begun(FALSE)]
                ELSE probe
    /\ UNCHANGED <<coordinatorVars, faults, scenario, resolver, cancels, detailVars>>

\* A page that is not a transcript becomes the error of every row.
WarmUpEnds(r) ==
    LET outcome == probe[warmUpOf(r)].outcome
    IN  /\ route[r].phase = "warming" /\ done(warmUpOf(r))
        /\ finish(r, CASE outcome = "match" -> "details"
                       [] outcome = "other" -> "answered"
                       [] OTHER -> "failed")
        /\ UNCHANGED <<coordinatorVars, probeVars, scenario, resolver, cancels, detailVars>>

-----------------------------------------------------------------------------
rows(r) == IF kind(r) = "batch" THEN Len(Presented[r]) ELSE 1
turn(x) == /\ route[x[1]].phase = "details" /\ detail[x].at = "idle"
           /\ x[2] <= rows(x[1])
           /\ \A k \in 1..(x[2] - 1) : detail[<<x[1], k>>].at = "done"

(* An invalid permit, or a page that is not the expected one, is the error *)
(* of its row; any other error ends the request.                           *)
isItemError(x, outcome) ==
    kind(x[1]) = "batch" /\ outcome \in {"html", "invalid", "error"}

rowEnds(x, outcome) ==
    /\ detail' = [detail EXCEPT ![x].at = "done", ![x].outcome = outcome]
    /\ IF ~isItemError(x, outcome)
       THEN finish(x[1], IF outcome = "html" THEN "answered" ELSE "failed")
       ELSE IF x[2] = rows(x[1]) THEN finish(x[1], "answered") ELSE UNCHANGED route

(* One transaction decides about the permit; when its answer is lost the   *)
(* permit is spent and its lease left to expire.                           *)
Present(x) ==
    LET d == presentedBy(x).permit
        answer == permitVerdict(d, presentedBy(x).bound)
    IN  /\ turn(x)
        /\ UNCHANGED <<probe, scenario, resolver, cancels, issued>>
        /\ \/ /\ answer = "allowed" /\ ConsumePermit(d, x)
              /\ detail' = [detail EXCEPT ![x].at = "fetching", ![x].since = now]
              /\ UNCHANGED <<faults, route>>
           \/ /\ answer # "allowed"
              /\ rowEnds(x, answer)
              /\ UNCHANGED <<coordinatorVars, faults>>
           \/ /\ fault /\ rowEnds(x, "lost")
              /\ \/ answer = "allowed" /\ ConsumePermit(d, x)
                 \/ UNCHANGED coordinatorVars

(* The portal answers; the abort of the client ends the request.           *)
DetailEnds(x) ==
    /\ detail[x].at = "fetching"
    /\ \E outcome \in IF route[x[1]].cancelled THEN {"lost"} ELSE {"html", "error", "lost"} :
          detail' = [detail EXCEPT ![x].at = "releasing", ![x].outcome = outcome]
    /\ UNCHANGED <<coordinatorVars, probeVars, scenario, lookupVars, issued>>

ReleaseDetail(x) ==
    /\ detail[x].at = "releasing"
    /\ rowEnds(x, detail[x].outcome)
    /\ UNCHANGED <<probe, scenario, resolver, cancels, issued>>
    /\ \/ ReturnDetailLease(x) /\ UNCHANGED faults
       \/ fault /\ UNCHANGED coordinatorVars

-----------------------------------------------------------------------------
detailUrgent == \E x \in Detail : detail[x].at = "fetching" /\ route[x[1]].cancelled

Next ==
    \/ UNCHANGED detailVars /\ \E p \in Probe : PortalStep(p)
    \/ UNCHANGED detailVars /\ \E r \in Request : LookupStep(r)
    \/ UNCHANGED detailVars /\ \E x \in Target : ResolverStep(x)
    \/ \E r \in Request : TranscriptEnds(r) \/ StartDetails(r) \/ WarmUpEnds(r)
    \/ \E x \in Detail : Present(x) \/ DetailEnds(x) \/ ReleaseDetail(x)
    \/ UNCHANGED detailVars /\ (Wake \/ (~detailUrgent /\ Tick))

Spec == Init /\ [][Next]_vars

(* What the program does by itself. A client may send a request or go away *)
(* but need not; the portal and the Durable Object may leave a caller that *)
(* has a timer without an answer, unless the bound of the clock stops that *)
(* timer; calls of Redis, the returns of leases and detail requests, which *)
(* have no timer, are answered.                                            *)
timerless(p) == probe[p].since + RouteTime > scenario.until

Progress ==
    \/ /\ UNCHANGED <<scenario, lookupVars, detailVars>>
       /\ \E p \in Probe :
             \/ (store = "redis" \/ timerless(p)) /\ CoordinatorAnswers(p)
             \/ (probe[p].cut # "none" \/ timerless(p)) /\ FetchEnds(p)
             \/ LeaveAcquire(p) \/ LateGrant(p) \/ AcquireGranted(p) \/ AcquireFailed(p)
             \/ ReturnCut(p) \/ ReleasePermit(p) \/ ProbeTimesOut(p)
    \/ /\ UNCHANGED detailVars
       /\ \/ \E r \in Request : StartTarget(r) \/ ResolvingEnds(r) \/ DeadlinePasses(r)
          \/ \E x \in Target : ResolverStep(x)
    \/ \E r \in Request : TranscriptEnds(r) \/ WarmUpEnds(r)
    \/ \E x \in Detail : Present(x) \/ DetailEnds(x) \/ ReleaseDetail(x)
    \/ UNCHANGED detailVars /\ ~detailUrgent /\ Tick

FairSpec == Spec /\ WF_vars(Progress)

-----------------------------------------------------------------------------
(* No more requests reach the portal at once than there are permits: the   *)
(* route's timer, and not the expiry of the lease, ends a slow one         *)
(* (VNU_BRC1_PERMIT_LEASE_MS, vnu-probe-budget.ts:8-10).                   *)
WorkWithinPermits == Cardinality({p \in Probe : probe[p].at = "working"}) <= PermitLimit

(* Every lease belongs to a call or a caller that will return it, but for  *)
(* those a failed call left behind: an abort in the middle of a call for a *)
(* permit strands nothing (acquireBrc1Permit).                             *)
GrantsAccounted ==
    LET stranded == {p \in active(leases) :
            /\ probe[p].at \notin {"working", "releasing", "returning"}
            /\ probe[p].call # "granted"}
    IN  Cardinality(stranded) <= scenario.faults - faults

(* The resolver's verdict does not depend on the order of the answers: it  *)
(* is the first candidate that matches, all before it having answered that *)
(* they do not, and "not found" only when all of them have                 *)
(* (resolveVnuStudentId).                                                  *)
ResolvedIsFirstMatch ==
    \A x \in Target :
        LET says(i) == probe[candidate(x, i)].outcome
        IN  resolver[x].phase = "ended" =>
              /\ resolver[x].verdict \in 0..NumCandidates =>
                    /\ says(resolver[x].verdict) = "match"
                    /\ \A i \in 0..(resolver[x].verdict - 1) : says(i) = "other"
              /\ resolver[x].verdict = notFound =>
                    \A i \in 0..NumCandidates : says(i) = "other"

(* A request that has been answered has nothing under way at the portal:   *)
(* a winner, an error or a cancellation waits for every request that was   *)
(* started (settleStarted, Promise.allSettled).                            *)
SettledBeforeAnswer ==
    \A r \in Request : over(r) => \A p \in probesOf(r) : ~underway(p)

(* Nothing is left behind at the portal or in the coordinator by a request *)
(* that failed, was aborted or has its winner.                             *)
NothingLeftBehind == GrantsAccounted /\ SettledBeforeAnswer

(* The units reserved before the first request to the portal cover every   *)
(* request made, so that the allowance never runs out half way             *)
(* (createVnuProbeAllowance, VNU_STUDENT_ID_RESOLVER_MAX_PROBES).          *)
ReservationCovers == \A r \in Request : route[r].used <= route[r].reserved

(* What has been reserved and bought since the windows opened is within    *)
(* their limits (consumeBudgetWindow, fixedWindowScript).                  *)
UnitsPerWindow ==
    LET inWindow(since, w, length) == since >= w.resetAt - length
        units == {u \in Request \X (1..BudgetLimit) :
                     /\ u[2] <= route[u[1]].reserved
                     /\ inWindow(route[u[1]].since, window, WindowTime)}
        buying == {x \in Detail : /\ \/ detail[x].at \in {"fetching", "releasing"}
                                     \/ detail[x].outcome \in {"html", "error"}
                                  /\ inWindow(detail[x].since, detailWindow, DetailWindow)}
    IN  /\ Cardinality(units) <= window.count
        /\ Cardinality(buying) <= detailWindow.count

(* A permit buys one detail, for the requester it was issued to, however   *)
(* many requests present it at once (consumeCrossDetailPermit).            *)
PermitBuysOnce ==
    LET bought == {x \in Detail : detail[x].at \in {"fetching", "releasing"}
                                  \/ detail[x].outcome \in {"html", "error"}}
    IN  /\ \A x, y \in bought : presentedBy(x).permit = presentedBy(y).permit => x = y
        /\ \A x \in bought : presentedBy(x).bound /\ presentedBy(x).permit[1] \in issued

(* What is had from the portal was paid for, once, and within its window.  *)
PaidFor == ReservationCovers /\ UnitsPerWindow /\ PermitBuysOnce

(* A request that is alone in its session is never told that the session   *)
(* is busy: its pools fit the permits (bulkResolverCandidateWidth). Only a *)
(* failed call, or a late grant that is still to be returned, takes one    *)
(* from it.                                                                *)
BusyOnlyWhenShared ==
    [][\A p \in Probe :
          (probe[p].call = "sent" /\ probe'[p].call = "refused") =>
              \/ \E r \in Request : r # p[1] /\ route[r].phase # "idle"
              \/ faults < scenario.faults
              \/ \E q \in Probe : late(q)]_vars

(* Every request ends: no answer that fails to come, no abort and no       *)
(* refusal leaves the resolver waiting (resolveVnuStudentId, fillPool).    *)
RequestEnds == []<>(\A r \in Request : route[r].phase = "idle" \/ over(r))

(* Permits bound the work at the portal, and every one of them comes back. *)
PermitsKept == WorkWithinPermits /\ NothingLeftBehind
=============================================================================
