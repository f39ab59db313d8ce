--------------------------- MODULE VnuProbeBudget ---------------------------
(***************************************************************************)
(* The coordinator of one VNU session's cross lookups: a window of probe   *)
(* units, leases on concurrent Brc1 requests, single-use permits for grade *)
(* details, a window of detail units and leases on detail requests.        *)
(*                                                                         *)
(* "durable" is the Durable Object, whose operations are transactions and  *)
(* whose alarm removes what has expired; "redis" is the set of scripts the *)
(* distributed deployment runs, whose keys expire by themselves: there an  *)
(* entry whose expiry has passed is an entry Redis has removed.            *)
(*                                                                         *)
(* An entry that was never made, or was removed, has the expiry 0.         *)
(***************************************************************************)
EXTENDS Integers, FiniteSets

CONSTANTS
    Probe,          \* Calls of acquireBrc1Permit; each draws a fresh lease.
    Permit,         \* Permits a transcript may carry.
    Detail,         \* Presentations of a permit; each draws a fresh lease.
    PermitLimit,    \* VNU_BRC1_PERMIT_LIMIT.
    LeaseTime,      \* VNU_BRC1_PERMIT_LEASE_MS and VNU_CROSS_DETAIL_LEASE_MS.
    BudgetLimit,    \* VNU_PROBE_BUDGET_LIMIT.
    WindowTime,     \* VNU_PROBE_BUDGET_WINDOW_SECONDS.
    Concurrency,    \* limits.concurrency of a detail.
    DetailBudget,   \* limits.budget of a detail.
    DetailWindow,   \* limits.windowSeconds of a detail.
    PermitTime,     \* crossDetailPermitTtlSeconds.
    MaxTime         \* Bound: the last instant of the clock.

ASSUME BudgetAssumption ==
    /\ {PermitLimit, LeaseTime, BudgetLimit, WindowTime, Concurrency,
        DetailBudget, DetailWindow, PermitTime} \subseteq Nat \ {0}
    /\ MaxTime \in Nat

VARIABLES
    store,          \* "durable" or "redis"; never changes.
    now,            \* The clock, which coordinator and workers share.
    window,         \* The probe window: units spent and when it resets.
    leases,         \* The expiry of every Brc1 lease.
    permits,        \* The record of every detail permit.
    detailWindow,
    detailLeases,
    alarm           \* When the Durable Object wakes; 0 when it is not set.

budgetVars == <<window, leases, permits, detailWindow, detailLeases, alarm>>

Instant == 0..(MaxTime + LeaseTime + WindowTime + DetailWindow + PermitTime)
NoPermit == [expiresAt |-> 0, consumed |-> FALSE]

BudgetTypeOK ==
    /\ store \in {"durable", "redis"}
    /\ now \in 0..MaxTime
    /\ window \in [count: 0..BudgetLimit, resetAt: Instant]
    /\ leases \in [Probe -> Instant]
    /\ permits \in [Permit -> [expiresAt: Instant, consumed: BOOLEAN]]
    /\ detailWindow \in [count: 0..DetailBudget, resetAt: Instant]
    /\ detailLeases \in [Detail -> Instant]
    /\ alarm \in Instant

BudgetInit ==
    /\ store \in {"durable", "redis"}
    /\ now = 0
    /\ window = [count |-> 0, resetAt |-> 0]
    /\ leases = [p \in Probe |-> 0]
    /\ permits = [d \in Permit |-> NoPermit]
    /\ detailWindow = [count |-> 0, resetAt |-> 0]
    /\ detailLeases = [d \in Detail |-> 0]
    /\ alarm = 0

-----------------------------------------------------------------------------
(* Windows and leases.                                                     *)

\* consumeBudgetWindow: a window that has reset starts again.
currentWindow(w, length) ==
    IF now >= w.resetAt THEN [count |-> 0, resetAt |-> now + length] ELSE w

affordable(w, amount, limit, length) == currentWindow(w, length).count + amount <= limit

charged(w, amount, length) ==
    LET current == currentWindow(w, length)
    IN  [current EXCEPT !.count = @ + amount]

active(ls) == {x \in DOMAIN ls : ls[x] > now}
pruned(ls) == [x \in DOMAIN ls |-> IF ls[x] > now THEN ls[x] ELSE 0]
prunedPermits(ps) == [d \in Permit |-> IF ps[d].expiresAt > now THEN ps[d] ELSE NoPermit]

\* Mutant: the lease ends before the timer of the request it guards.
leaseEndEarly == now + LeaseTime - 1

leaseEnd == now + LeaseTime

(* rescheduleAlarm: the earliest expiry to come, or no alarm.              *)
rescheduled(ls, ps, ds) ==
    LET expiries == {ls[p] : p \in active(ls)} \cup {ds[d] : d \in active(ds)}
                    \cup {t \in {ps[d].expiresAt : d \in Permit} : t > now}
    IN  IF store = "redis" \/ expiries = {} THEN 0
        ELSE CHOOSE t \in expiries : \A other \in expiries : t <= other

-----------------------------------------------------------------------------
(* The operations, each one transaction or one script.                     *)

Charge(amount) ==
    /\ affordable(window, amount, BudgetLimit, WindowTime)
    /\ window' = charged(window, amount, WindowTime)
    /\ UNCHANGED <<store, now, leases, permits, detailWindow, detailLeases, alarm>>

hasCapacity == Cardinality(active(leases)) < PermitLimit

GrantLease(p) ==
    /\ hasCapacity
    /\ leases' = [pruned(leases) EXCEPT ![p] = leaseEnd]
    /\ alarm' = rescheduled(leases', permits, detailLeases)
    /\ UNCHANGED <<store, now, window, permits, detailWindow, detailLeases>>

\* A script removes what has expired before it counts.
RefuseLease ==
    /\ ~hasCapacity
    /\ leases' = IF store = "redis" THEN pruned(leases) ELSE leases
    /\ UNCHANGED <<store, now, window, permits, detailWindow, detailLeases, alarm>>

ReturnLease(p) ==
    /\ IF leases[p] > now \/ store = "redis"
       THEN /\ leases' = [IF store = "redis" THEN leases ELSE pruned(leases)
                              EXCEPT ![p] = 0]
            /\ alarm' = rescheduled(leases', permits, detailLeases)
       ELSE UNCHANGED <<leases, alarm>>
    /\ UNCHANGED <<store, now, window, permits, detailWindow, detailLeases>>

IssuePermits(ds) ==
    /\ permits' = [d \in Permit |->
                      IF d \in ds THEN [expiresAt |-> now + PermitTime, consumed |-> FALSE]
                      ELSE prunedPermits(permits)[d]]
    /\ alarm' = rescheduled(leases, permits', detailLeases)
    /\ UNCHANGED <<store, now, window, leases, detailWindow, detailLeases>>

\* The verdict on a permit; bound says that every binding does.
permitVerdict(d, bound) ==
    IF permits[d].expiresAt <= now \/ permits[d].consumed \/ ~bound THEN "invalid"
    ELSE IF ~affordable(detailWindow, 1, DetailBudget, DetailWindow) THEN "budget"
    ELSE IF Cardinality(active(detailLeases)) >= Concurrency THEN "busy"
    ELSE "allowed"

\* The Durable Object marks the permit, the script deletes it.
\* Mutant: the permit stays as it was.
spentNothing(d) == permits[d]

spent(d) == IF store = "redis" THEN NoPermit ELSE [permits[d] EXCEPT !.consumed = TRUE]

ConsumePermit(d, x) ==
    /\ permits' = [prunedPermits(permits) EXCEPT ![d] = spent(d)]
    /\ detailWindow' = charged(detailWindow, 1, DetailWindow)
    /\ detailLeases' = [pruned(detailLeases) EXCEPT ![x] = leaseEnd]
    /\ alarm' = rescheduled(leases, permits', detailLeases')
    /\ UNCHANGED <<store, now, window, leases>>

ReturnDetailLease(x) ==
    /\ IF detailLeases[x] > now \/ store = "redis"
       THEN /\ detailLeases' = [IF store = "redis" THEN detailLeases ELSE pruned(detailLeases)
                                    EXCEPT ![x] = 0]
            /\ alarm' = rescheduled(leases, permits, detailLeases')
       ELSE UNCHANGED <<detailLeases, alarm>>
    /\ UNCHANGED <<store, now, window, leases, permits, detailWindow>>

AlarmFires ==
    /\ alarm # 0 /\ now >= alarm
    /\ leases' = pruned(leases)
    /\ permits' = prunedPermits(permits)
    /\ detailLeases' = pruned(detailLeases)
    /\ alarm' = rescheduled(leases', permits', detailLeases')
    /\ UNCHANGED <<store, now, window, detailWindow>>
=============================================================================
