--------------------------- MODULE VnuCrossLookup ---------------------------
(***************************************************************************)
(* The cross-lookup routes of one VNU session and the resolver that looks  *)
(* for a student's id among the neighbours of a projected one.             *)
(*                                                                         *)
(* A "code" request resolves one student code and then fetches the         *)
(* transcript, an "id" request only fetches it, a "bulk" request resolves  *)
(* several codes under one deadline.                                       *)
(*                                                                         *)
(* The resolver asks about the projected id first, then about the other    *)
(* candidates in their order, a bounded number at a time; whatever the     *)
(* order of the answers, the first candidate that matches wins.            *)
(***************************************************************************)
EXTENDS VnuOracleProbe, FiniteSetsExt

CONSTANTS
    Request,
    NumTargets,      \* Targets of a bulk request.
    NumCandidates,   \* 2 * LOCAL_RADIUS: candidates besides the projected id.
    Width,           \* Pool width of a request for one code.
    Workers,         \* codeLookupBulkTargetConcurrency.
    Scenario         \* The requests that take part, with their kinds, the
                     \* stores, and bounds on the failed calls, on the
                     \* cancelled requests and on the clock.

MaxProbes == 1 + NumCandidates

\* The requests to the portal a route may make: target and candidate, the
\* transcript after the last candidate.
probesFor(r, how) ==
    CASE how = "code" -> {r} \X {1} \X (0..MaxProbes)
      [] how = "id" -> {<<r, 1, MaxProbes>>}
      [] how = "bulk" -> {r} \X (1..NumTargets) \X (0..NumCandidates)
      [] how = "batch" -> {<<r, 1, 0>>}
      [] OTHER -> {}

Target == {<<p[1], p[2]>> : p \in Probe}

ASSUME LookupAssumption ==
    /\ {NumTargets, NumCandidates, Width, Workers} \subseteq Nat \ {0}
    /\ Width <= PermitLimit /\ Workers <= PermitLimit
    /\ Probe \subseteq Request \X (1..NumTargets) \X (0..MaxProbes)
    /\ \A x \in Scenario :
          /\ \A r \in Request : probesFor(r, x.kind[r]) \subseteq Probe
          /\ x.kind \in [Request -> {"code", "id", "bulk", "detail", "batch", "absent"}]
          /\ x.stores \subseteq {"durable", "redis"}
          /\ x.faults \in Nat /\ x.cancels \in Nat /\ x.until \in 0..MaxTime

VARIABLES
    scenario,    \* Never changes.
    route,       \* Every request.
    resolver,    \* The resolver of every target.
    cancels      \* How many requests may still be cancelled.

lookupVars == <<route, resolver, cancels>>
probeVars == <<probe, faults>>
coordinatorVars == <<store, now, budgetVars>>

kind(r) == scenario.kind[r]

\* phase: where the route is. reserved: its allowance. used: what it spent.
\* next: the next target. cancelled: its signal is aborted.
NoRoute == [phase |-> "idle", reserved |-> 0, used |-> 0, next |-> 1,
            cancelled |-> FALSE, since |-> 0]

\* A verdict is the winner's place, or one of these.
undecided == -1
notFound == -2
failed == -3

\* taken: the candidates whose answers the resolver has read.
NoResolver == [phase |-> "idle", next |-> 1, taken |-> {}, verdict |-> undecided]

LookupTypeOK ==
    /\ scenario \in Scenario
    /\ route \in [Request -> [
          phase: {"idle", "resolving", "fetching", "warming", "details", "answered", "failed"},
          reserved: 0..BudgetLimit, used: Nat, next: 1..(NumTargets + 1),
          cancelled: BOOLEAN, since: 0..MaxTime]]
    /\ resolver \in [Target -> [
          phase: {"idle", "first", "pool", "settling", "ended"},
          next: 1..MaxProbes, taken: SUBSET (1..NumCandidates),
          verdict: {undecided, notFound, failed} \cup (0..NumCandidates)]]
    /\ cancels \in Nat

LookupInit ==
    /\ scenario \in Scenario
    /\ BudgetInit /\ ProbeInit /\ store \in scenario.stores
    /\ route = [r \in Request |-> NoRoute]
    /\ resolver = [x \in Target |-> NoResolver]
    /\ faults = scenario.faults
    /\ cancels = scenario.cancels

probesOf(r) == {p \in Probe : p[1] = r}
candidate(x, i) == <<x[1], x[2], i>>
transcriptOf(r) == <<r, 1, MaxProbes>>
over(r) == route[r].phase \in {"answered", "failed"}

-----------------------------------------------------------------------------
(* Reservation: the whole worst case, before any request to the portal.    *)
unitsFor(r) ==
    CASE kind(r) = "code" -> MaxProbes + 1
      [] kind(r) = "id" -> 1
      [] kind(r) = "bulk" -> NumTargets * MaxProbes

Reserve(r) ==
    LET entered == IF kind(r) = "id" THEN "fetching" ELSE "resolving"
        reserved == [route EXCEPT ![r].phase = entered, ![r].reserved = unitsFor(r),
                                  ![r].used = IF kind(r) = "id" THEN 1 ELSE 0,
                                  ![r].since = now]
        refused == [route EXCEPT ![r].phase = "failed"]
    IN  /\ route[r].phase = "idle" /\ kind(r) \in {"code", "id", "bulk"}
        /\ UNCHANGED <<scenario, resolver, cancels>>
        /\ \/ /\ Charge(unitsFor(r)) /\ UNCHANGED faults
              /\ route' = reserved
              /\ probe' = IF kind(r) = "id"
                          THEN [probe EXCEPT ![transcriptOf(r)] = begun(FALSE)] ELSE probe
           \/ /\ ~affordable(window, unitsFor(r), BudgetLimit, WindowTime)
              /\ route' = refused
              /\ UNCHANGED <<coordinatorVars, probeVars>>
           \/ /\ fault /\ route' = refused /\ UNCHANGED probe
              /\ (Charge(unitsFor(r)) \/ UNCHANGED coordinatorVars)

-----------------------------------------------------------------------------
(* The resolver.                                                           *)
\* Mutant: every target of a bulk request has the pool of a single one.
poolWidthUndivided(r) == IF Width < NumCandidates THEN Width ELSE NumCandidates

poolWidth(r) == LET own == IF kind(r) = "bulk" THEN PermitLimit \div Workers ELSE Width
                IN  IF own < NumCandidates THEN own ELSE NumCandidates

unread(x) == {i \in 1..(resolver[x].next - 1) : i \notin resolver[x].taken}
matches(x, taken) == {i \in taken : probe[candidate(x, i)].outcome = "match"}

\* The winner: a match whose predecessors have all been read.
\* Mutant: the first answer that matches wins.
winnersByArrival(x, taken) == matches(x, taken)

winners(x, taken) == {i \in matches(x, taken) : 1..i \subseteq taken}

(* fillPool: how far the pool goes once these answers have been read. No   *)
(* candidate after a match is asked about.                                 *)
filledTo(x, taken) ==
    LET room == poolWidth(x[1]) - Cardinality(unread(x) \ taken)
        last == Min({resolver[x].next - 1 + room, NumCandidates})
        bound == matches(x, taken)
    IN  IF bound = {} THEN last + 1
        ELSE Max({resolver[x].next, Min({last + 1, Min(bound)})})

started(x, from, to) ==
    [p \in Probe |-> IF \E i \in from..(to - 1) : p = candidate(x, i)
                     THEN begun(route[x[1]].cancelled) ELSE probe[p]]

spends(r, n) == route' = [route EXCEPT ![r].used = @ + n]

(* A fatal error of a bulk request aborts its deadline, and with it every  *)
(* other resolver.                                                         *)
endTarget(x, verdict) ==
    /\ resolver' = [resolver EXCEPT ![x].phase = "ended", ![x].verdict = verdict]
    /\ IF verdict = failed /\ kind(x[1]) = "bulk"
       THEN /\ route' = [route EXCEPT ![x[1]].cancelled = TRUE]
            /\ probe' = cutOff(probesOf(x[1]), "abort")
       ELSE UNCHANGED <<route, probe>>

running(r) == {x \in Target : x[1] = r /\ resolver[x].phase \in {"first", "pool", "settling"}}

(* A worker takes the next target and asks about its projected id.         *)
StartTarget(r) ==
    LET x == <<r, route[r].next>>
    IN  /\ route[r].phase = "resolving" /\ ~route[r].cancelled
        /\ route[r].next <= IF kind(r) = "bulk" THEN NumTargets ELSE 1
        /\ Cardinality(running(r)) < IF kind(r) = "bulk" THEN Workers ELSE 1
        /\ resolver' = [resolver EXCEPT ![x].phase = "first"]
        /\ route' = [route EXCEPT ![r].next = @ + 1, ![r].used = @ + 1]
        /\ probe' = started(x, 0, 1)
        /\ UNCHANGED <<coordinatorVars, faults, scenario, cancels>>

FirstEnds(x) ==
    LET outcome == probe[candidate(x, 0)].outcome
        filled == filledTo(x, {})
    IN  /\ resolver[x].phase = "first" /\ done(candidate(x, 0))
        /\ UNCHANGED <<coordinatorVars, faults, scenario, cancels>>
        /\ \/ /\ route[x[1]].cancelled \/ outcome \in {"error", "cut"}
              /\ endTarget(x, failed)
           \/ /\ ~route[x[1]].cancelled /\ outcome = "match"
              /\ endTarget(x, 0)
           \/ /\ ~route[x[1]].cancelled /\ outcome = "other"
              /\ resolver' = [resolver EXCEPT ![x].phase = "pool", ![x].next = filled]
              /\ probe' = started(x, 1, filled)
              /\ spends(x[1], filled - 1)

(* The resolver reads one answer.                                          *)
TakeAnswer(x, i) ==
    LET taken == resolver[x].taken \cup {i}
        others == {candidate(x, j) : j \in unread(x) \ {i}}
        filled == filledTo(x, taken)
    IN  /\ resolver[x].phase = "pool" /\ ~route[x[1]].cancelled
        /\ i \in unread(x) /\ done(candidate(x, i))
        /\ UNCHANGED <<coordinatorVars, faults, scenario, cancels>>
        /\ \/ /\ probe[candidate(x, i)].outcome \in {"error", "cut"}
              /\ resolver' = [resolver EXCEPT ![x].phase = "settling",
                                              ![x].taken = taken, ![x].verdict = failed]
              /\ probe' = cutOff(others, "abort")
              /\ UNCHANGED route
           \/ /\ probe[candidate(x, i)].outcome \in {"match", "other"}
              /\ winners(x, taken) # {}
              /\ resolver' = [resolver EXCEPT ![x].phase = "settling", ![x].taken = taken,
                                              ![x].verdict = Min(winners(x, taken))]
              /\ probe' = cutOff(others, "abort")
              /\ UNCHANGED route
           \/ /\ probe[candidate(x, i)].outcome \in {"match", "other"}
              /\ winners(x, taken) = {}
              /\ IF others = {} /\ filled = resolver[x].next
                 THEN /\ resolver' = [resolver EXCEPT ![x].phase = "ended",
                                         ![x].taken = taken, ![x].verdict = notFound]
                      /\ UNCHANGED <<route, probe>>
                 ELSE /\ resolver' = [resolver EXCEPT ![x].taken = taken, ![x].next = filled]
                      /\ probe' = started(x, resolver[x].next, filled)
                      /\ spends(x[1], filled - resolver[x].next)

(* The loop sees that its caller has been cancelled.                       *)
CallerCancelled(x) ==
    /\ resolver[x].phase = "pool" /\ route[x[1]].cancelled
    /\ resolver' = [resolver EXCEPT ![x].phase = "settling", ![x].verdict = failed]
    /\ probe' = cutOff({candidate(x, j) : j \in unread(x)}, "abort")
    /\ UNCHANGED <<coordinatorVars, faults, scenario, route, cancels>>

(* Every request has ended. One that failed by itself fails the search,    *)
(* even when another has won.                                              *)
Settled(x) ==
    LET spoilt == \/ route[x[1]].cancelled
                  \/ \E i \in unread(x) : probe[candidate(x, i)].outcome = "error"
    IN  /\ resolver[x].phase = "settling"
        /\ \A i \in unread(x) : done(candidate(x, i))
        /\ endTarget(x, IF spoilt THEN failed ELSE resolver[x].verdict)
        /\ UNCHANGED <<coordinatorVars, faults, scenario, cancels>>

-----------------------------------------------------------------------------
(* The routes.                                                             *)
finish(r, phase) == route' = [route EXCEPT ![r].phase = phase]

verdicts(r) == {resolver[x].verdict : x \in {y \in Target : y[1] = r /\ y[2] < route[r].next}}

(* A bulk request keeps what was not found as an item of its answer.       *)
ResolvingEnds(r) ==
    /\ route[r].phase = "resolving" /\ running(r) = {}
    /\ UNCHANGED <<coordinatorVars, faults, scenario, resolver, cancels>>
    /\ \/ /\ kind(r) = "bulk"
          /\ route[r].next > NumTargets \/ route[r].cancelled
          /\ finish(r, IF failed \in verdicts(r) \/ route[r].next <= NumTargets
                       THEN "failed" ELSE "answered")
          /\ UNCHANGED probe
       \/ /\ kind(r) = "code" /\ route[r].next = 1 /\ route[r].cancelled
          /\ finish(r, "failed")
          /\ UNCHANGED probe
       \/ /\ kind(r) = "code" /\ route[r].next = 2
          /\ verdicts(r) \cap {notFound, failed} # {}
          /\ finish(r, "failed")
          /\ UNCHANGED probe
       \/ /\ kind(r) = "code" /\ route[r].next = 2
          /\ verdicts(r) \cap {notFound, failed} = {}
          /\ route' = [route EXCEPT ![r].phase = "fetching", ![r].used = @ + 1]
          /\ probe' = [probe EXCEPT ![transcriptOf(r)] = begun(route[r].cancelled)]

cancelRoute(r) ==
    /\ route' = [route EXCEPT ![r].cancelled = TRUE]
    /\ probe' = cutOff(probesOf(r), "abort")

(* The client goes away.                                                   *)
CancelRequest(r) ==
    /\ route[r].phase \in {"resolving", "fetching", "warming", "details"}
    /\ ~route[r].cancelled
    /\ cancels > 0 /\ cancels' = cancels - 1
    /\ cancelRoute(r)
    /\ UNCHANGED <<coordinatorVars, faults, scenario, resolver>>

deadlineDue(r) ==
    /\ kind(r) = "bulk" /\ route[r].phase = "resolving" /\ ~route[r].cancelled
    /\ now >= route[r].since + RouteTime

DeadlinePasses(r) ==
    /\ deadlineDue(r)
    /\ cancelRoute(r)
    /\ UNCHANGED <<coordinatorVars, faults, scenario, resolver, cancels>>

PortalStep(p) == ProbeStep(p) /\ UNCHANGED <<scenario, lookupVars>>

Tick ==
    /\ now < scenario.until
    /\ ~probeUrgent /\ \A r \in Request : ~deadlineDue(r)
    /\ now' = now + 1
    /\ UNCHANGED <<store, budgetVars, probeVars, scenario, lookupVars>>

Wake == AlarmFires /\ UNCHANGED <<probeVars, scenario, lookupVars>>

LookupStep(r) ==
    \/ Reserve(r) \/ StartTarget(r) \/ ResolvingEnds(r) \/ DeadlinePasses(r)
    \/ CancelRequest(r)

ResolverStep(x) ==
    \/ FirstEnds(x) \/ CallerCancelled(x) \/ Settled(x)
    \/ \E i \in unread(x) : TakeAnswer(x, i)
=============================================================================
