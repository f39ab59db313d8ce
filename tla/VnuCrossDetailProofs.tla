------------------------ MODULE VnuCrossDetailProofs ------------------------
(***************************************************************************)
(* What the cross lookups of one VNU session promise for any number of     *)
(* requests, targets, candidates and permits, on both stores: permits      *)
(* bound the work at the portal and come back, a search ends with the      *)
(* first candidate that matches, what is used was paid for, and a request  *)
(* that is alone is never told that the session is busy.                   *)
(***************************************************************************)
EXTENDS VnuCrossDetail, FiniteSetTheorems, FunctionTheorems, WellFoundedInduction, TLAPS

-----------------------------------------------------------------------------
(* The invariant.                                                          *)

holding(p) == probe[p].at \in {"working", "releasing", "returning"} \/ probe[p].call = "granted"

\* The leases nobody will return.
stranded == {p \in active(leases) : ~holding(p)}

\* A caller that no timer has cut off has time left, and its lease outlasts it.
Timely(p) ==
    /\ probe[p].since <= now
    /\ probe[p].at \in {"acquiring", "working"} /\ (probe[p].cut = "none" \/ probe[p].at = "working") =>
           /\ now <= probe[p].since + RouteTime
           /\ probe[p].call = "granted" \/ probe[p].at = "working" =>
                  leases[p] >= probe[p].since + LeaseTime

LeasesOK ==
    /\ IsFiniteSet(active(leases)) /\ Cardinality(active(leases)) <= PermitLimit
    /\ Cardinality(stranded) <= scenario.faults - faults
    /\ \A p \in Probe : Timely(p)

\* The requests to the portal that have been made.
asked(p) == probe[p].at # "idle"

searching(x) == resolver[x].phase \in {"first", "pool", "settling"}

\* Where a route and its resolver are while a request of theirs is under way,
\* and which requests have not been made yet.
PlaceOK(p) ==
    LET r == p[1]
        x == <<p[1], p[2]>>
    IN  /\ probe[p].call # "none" => probe[p].at \in {"acquiring", "done"}
        /\ asked(p) => p \in probesFor(r, kind(r))
        /\ underway(p) =>
              \/ route[r].phase = "fetching" /\ p = transcriptOf(r)
              \/ route[r].phase = "warming" /\ p = warmUpOf(r)
              \/ resolver[x].phase = "first" /\ p[3] = 0
              \/ resolver[x].phase \in {"pool", "settling"} /\ p[3] \in unread(x)
        /\ asked(p) => route[r].phase # "idle"
        /\ asked(p) /\ route[r].phase = "resolving" =>
              /\ resolver[x].phase # "idle"
              /\ p[3] < resolver[x].next

said(x, i, outcome) == done(candidate(x, i)) /\ probe[candidate(x, i)].outcome = outcome

\* What a search has read, and what its verdict rests on.
SearchOK(x) ==
    LET s == resolver[x]
    IN  /\ searching(x) => route[x[1]].phase = "resolving"
        /\ s.phase # "idle" => \A i \in 0..NumCandidates : candidate(x, i) \in probesFor(x[1], kind(x[1]))
        /\ x[2] >= route[x[1]].next => s.phase = "idle"
        /\ s.phase \in {"idle", "first"} => s.next = 1 /\ s.taken = {}
        /\ s.phase \in {"pool", "settling"} =>
              /\ done(candidate(x, 0))
              /\ s.taken \subseteq 1..(s.next - 1)
              /\ \A i \in s.taken : done(candidate(x, i))
              /\ Cardinality(unread(x)) <= poolWidth(x[1])
        /\ s.phase = "pool" =>
              /\ said(x, 0, "other")
              /\ \A i \in s.taken : said(x, i, "match") \/ said(x, i, "other")
              /\ winners(x, s.taken) = {}
        /\ s.phase \in {"settling", "ended"} =>
              /\ s.verdict \in 0..NumCandidates =>
                    /\ said(x, s.verdict, "match")
                    /\ \A i \in 0..(s.verdict - 1) : said(x, i, "other")
              /\ s.verdict = notFound => \A i \in 0..NumCandidates : said(x, i, "other")

askedOf(r) == {p \in probesOf(r) : asked(p)}

RouteOK(r) ==
    /\ route[r].phase = "idle" => route[r] = NoRoute
    /\ route[r].phase = "resolving" => kind(r) \in {"code", "bulk"}
    /\ route[r].phase = "fetching" => kind(r) \in {"code", "id"}
    /\ route[r].phase = "warming" => kind(r) = "batch"
    /\ route[r].phase = "details" => kind(r) \in {"batch", "detail"}
    /\ route[r].phase = "resolving" /\ kind(r) = "code" => route[r].next <= 2
    /\ Cardinality(running(r)) <= IF kind(r) = "bulk" THEN Workers ELSE 1
    /\ kind(r) \in {"code", "id", "bulk"} => Cardinality(askedOf(r)) = route[r].used
    /\ kind(r) \notin {"code", "id", "bulk"} => route[r].used = 0
    /\ route[r].phase \in {"resolving", "fetching"} \/ route[r].used # 0 =>
           route[r].reserved = unitsFor(r)

\* The units a window has sold.
inWindow(since, w, length) == since >= w.resetAt - length

units ==
    {u \in Request \X (1..BudgetLimit) : /\ u[2] <= route[u[1]].reserved
                                         /\ inWindow(route[u[1]].since, window, WindowTime)}

bought(x) == detail[x].at \in {"fetching", "releasing"} \/ detail[x].outcome \in {"html", "error"}

buying == {x \in Detail : bought(x) /\ inWindow(detail[x].since, detailWindow, DetailWindow)}

UnitsOK ==
    /\ IsFiniteSet(units) /\ Cardinality(units) <= window.count
    /\ \A r \in Request : route[r].reserved > 0 =>
           route[r].since <= now /\ route[r].since < window.resetAt

BuyingOK ==
    /\ IsFiniteSet(buying) /\ Cardinality(buying) <= detailWindow.count
    /\ \A x \in Detail : bought(x) =>
           detail[x].since <= now /\ detail[x].since < detailWindow.resetAt

spentPermit(d) == permits[d].consumed \/ permits[d].expiresAt <= now

\* The rows of a request are presented in turn, and what is bought was issued
\* to whoever presents it.
DetailOK(x) ==
    /\ detail[x].at = "idle" => detail[x].outcome = "none"
    /\ detail[x].at # "idle" =>
          \A y \in Detail : y[1] = x[1] /\ y[2] < x[2] => detail[y].at = "done"
    /\ detail[x].at \in {"fetching", "releasing"} => route[x[1]].phase = "details"
    /\ bought(x) =>
          /\ x[2] <= Len(Presented[x[1]])
          /\ presentedBy(x).bound /\ presentedBy(x).permit[1] \in issued
          /\ spentPermit(presentedBy(x).permit)

Backed == \A d \in Permit : permits[d].expiresAt # 0 => d[1] \in issued

PermitsOK ==
    /\ \A r \in issued : over(r)
    /\ Backed
    /\ \A x \in Detail : DetailOK(x)
    /\ \A x, y \in Detail :
          bought(x) /\ bought(y) /\ presentedBy(x).permit = presentedBy(y).permit => x = y

LookupOK ==
    /\ \A p \in Probe : PlaceOK(p)
    /\ \A x \in Target : SearchOK(x)
    /\ \A r \in Request : RouteOK(r)

IInv ==
    /\ TypeOK
    /\ LeasesOK
    /\ LookupOK
    /\ UnitsOK /\ BuyingOK
    /\ PermitsOK

-----------------------------------------------------------------------------
(* Types.                                                                  *)

ProbeState ==
    [at: {"idle", "acquiring", "working", "returning", "releasing", "done"},
     call: {"none", "sent", "granted", "refused", "failed"},
     cut: {"none", "timeout", "abort"},
     outcome: {"none", "match", "other", "error", "cut"},
     since: 0..MaxTime]

RouteState ==
    [phase: {"idle", "resolving", "fetching", "warming", "details", "answered", "failed"},
     reserved: 0..BudgetLimit, used: Nat, next: 1..(NumTargets + 1),
     cancelled: BOOLEAN, since: 0..MaxTime]

ResolverState ==
    [phase: {"idle", "first", "pool", "settling", "ended"},
     next: 1..MaxProbes, taken: SUBSET (1..NumCandidates),
     verdict: {undecided, notFound, failed} \cup (0..NumCandidates)]

PermitState == [expiresAt: Instant, consumed: BOOLEAN]

DetailState ==
    [at: {"idle", "fetching", "releasing", "done"},
     outcome: {"none", "html", "error", "invalid", "budget", "busy", "lost"},
     since: 0..MaxTime]

\* The type invariant, a variable at a time.
LEMMA Typed ==
    TypeOK <=>
        /\ store \in {"durable", "redis"} /\ now \in 0..MaxTime
        /\ window \in [count: 0..BudgetLimit, resetAt: Instant]
        /\ leases \in [Probe -> Instant]
        /\ permits \in [Permit -> PermitState]
        /\ detailWindow \in [count: 0..DetailBudget, resetAt: Instant]
        /\ detailLeases \in [Detail -> Instant]
        /\ alarm \in Instant
        /\ probe \in [Probe -> ProbeState] /\ faults \in Nat
        /\ scenario \in Scenario
        /\ route \in [Request -> RouteState]
        /\ resolver \in [Target -> ResolverState]
        /\ cancels \in Nat
        /\ detail \in [Detail -> DetailState] /\ issued \subseteq Request
BY DEF TypeOK, BudgetTypeOK, ProbeTypeOK, LookupTypeOK, ProbeState, RouteState, ResolverState,
   PermitState, DetailState

\* The numbers of an instance.
LEMMA Numbers ==
    /\ PermitLimit \in Nat /\ PermitLimit >= 1 /\ LeaseTime \in Nat /\ LeaseTime >= 1
    /\ BudgetLimit \in Nat /\ BudgetLimit >= 1 /\ WindowTime \in Nat /\ WindowTime >= 1
    /\ Concurrency \in Nat /\ DetailBudget \in Nat /\ DetailBudget >= 1
    /\ DetailWindow \in Nat /\ DetailWindow >= 1 /\ PermitTime \in Nat /\ PermitTime >= 1
    /\ MaxTime \in Nat
    /\ RouteTime \in Nat /\ RouteTime < LeaseTime
    /\ NumTargets \in Nat /\ NumTargets >= 1 /\ NumCandidates \in Nat /\ NumCandidates >= 1
    /\ MaxProbes = NumCandidates + 1 /\ MaxProbes \in Nat
    /\ Width \in Nat /\ Width >= 1 /\ Width <= PermitLimit
    /\ Workers \in Nat /\ Workers >= 1 /\ Workers <= PermitLimit
BY BudgetAssumption, RouteAssumption, LookupAssumption DEF MaxProbes

LEMMA Instants ==
    /\ Instant \subseteq Nat
    /\ \A t \in 0..MaxTime : /\ t \in Instant /\ t + LeaseTime \in Instant
                             /\ t + WindowTime \in Instant /\ t + DetailWindow \in Instant
                             /\ t + PermitTime \in Instant
BY Numbers DEF Instant

\* A set of numbers that is not empty has a least one.
LEMMA LeastValue ==
    ASSUME NEW S \in SUBSET Nat, S # {}
    PROVE  \E m \in S : \A n \in S : m <= n
<1> DEFINE Below == {0..n : n \in S}
           strict == StrictSubsetOrdering(Nat)
<1>1. Below \subseteq FiniteSubsetsOf(Nat) /\ Below # {}
  <2>1. \A n \in S : 0..n \in SUBSET Nat /\ IsFiniteSet(0..n)
    BY FS_Interval
  <2> QED BY <2>1 DEF FiniteSubsetsOf
<1>2. PICK T \in Below : \A U \in Below : ~ (<<U, T>> \in strict)
  <2>1. IsWellFoundedOn(strict, FiniteSubsetsOf(Nat))
    BY FS_StrictSubsetOrderingWellFounded
  <2> HIDE DEF Below, strict
  <2> QED BY <1>1, <2>1, WFMin
<1>3. PICK m \in S : T = 0..m
  BY <1>2
<1>4. \A n \in S : m <= n
  <2> SUFFICES ASSUME NEW n \in S, n < m PROVE FALSE
    BY <1>3
  <2>1. 0..n \in Below /\ 0..n \subseteq 0..m /\ m \in 0..m /\ m \notin 0..n /\ 0..m \subseteq Nat
    OBVIOUS
  <2>2. <<0..n, 0..m>> \in strict
    BY <2>1 DEF StrictSubsetOrdering
  <2> QED BY <1>2, <1>3, <2>1, <2>2
<1> QED BY <1>4

LEMMA MinIsLeast ==
    ASSUME NEW S \in SUBSET Nat, S # {}
    PROVE  Min(S) \in S /\ \A n \in S : Min(S) <= n
BY LeastValue DEF Min

LEMMA MinOfTwo ==
    ASSUME NEW a \in Int, NEW b \in Int
    PROVE  Min({a, b}) = IF a <= b THEN a ELSE b
<1>1. \E m \in {a, b} : \A n \in {a, b} : m <= n
  OBVIOUS
<1>2. Min({a, b}) \in {a, b} /\ \A n \in {a, b} : Min({a, b}) <= n
  BY <1>1 DEF Min
<1> QED BY <1>2

LEMMA MaxOfTwo ==
    ASSUME NEW a \in Int, NEW b \in Int
    PROVE  Max({a, b}) = IF a >= b THEN a ELSE b
<1>1. \E m \in {a, b} : \A n \in {a, b} : m >= n
  OBVIOUS
<1>2. Max({a, b}) \in {a, b} /\ \A n \in {a, b} : Max({a, b}) >= n
  BY <1>1 DEF Max
<1> QED BY <1>2

-----------------------------------------------------------------------------
(* The operations of the coordinator.                                      *)

\* What one operation, or none, does to the coordinator.
coordinatorStep ==
    \/ \E r \in Request : kind(r) \in {"code", "id", "bulk"} /\ Charge(unitsFor(r))
    \/ \E p \in Probe : GrantLease(p) \/ ReturnLease(p)
    \/ RefuseLease \/ AlarmFires
    \/ \E ds \in SUBSET Permit : IssuePermits(ds)
    \/ \E x \in Detail : \/ ReturnDetailLease(x)
                         \/ \E d \in Permit : /\ permitVerdict(d, TRUE) = "allowed"
                                              /\ ConsumePermit(d, x)
    \/ UNCHANGED coordinatorVars

LEMMA PrunedType ==
    ASSUME TypeOK
    PROVE  /\ pruned(leases) \in [Probe -> Instant]
           /\ pruned(detailLeases) \in [Detail -> Instant]
           /\ prunedPermits(permits) \in [Permit -> PermitState]
           /\ leaseEnd \in Instant
<1>1. leases \in [Probe -> Instant] /\ detailLeases \in [Detail -> Instant] /\ 0 \in Instant
  BY Typed, Instants, Numbers DEF Instant
<1>2. NoPermit \in PermitState
  BY <1>1 DEF NoPermit, PermitState
<1>3. permits \in [Permit -> PermitState] /\ leaseEnd \in Instant
  BY Typed, Instants DEF leaseEnd
<1> QED BY <1>1, <1>2, <1>3 DEF pruned, prunedPermits

LEMMA RescheduledType ==
    ASSUME NEW ls \in [Probe -> Instant], NEW ps \in [Permit -> PermitState],
           NEW ds \in [Detail -> Instant]
    PROVE  rescheduled(ls, ps, ds) \in Instant
<1> DEFINE expiries == {ls[p] : p \in active(ls)} \cup {ds[d] : d \in active(ds)}
                    \cup {t \in {ps[d].expiresAt : d \in Permit} : t > now}
<1>1. 0 \in Instant /\ Instant \subseteq Nat
  BY Instants, Numbers DEF Instant
<1>2. expiries \subseteq Instant
  <2>1. {ls[p] : p \in active(ls)} \subseteq Instant
    BY DEF active
  <2>2. {ds[d] : d \in active(ds)} \subseteq Instant
    BY DEF active
  <2>3. \A d \in Permit : ps[d].expiresAt \in Instant
    BY DEF PermitState
  <2> QED BY <2>1, <2>2, <2>3
<1>3. rescheduled(ls, ps, ds) =
          IF store = "redis" \/ expiries = {} THEN 0
          ELSE CHOOSE t \in expiries : \A other \in expiries : t <= other
  BY DEF rescheduled
<1>4. expiries # {} => (CHOOSE t \in expiries : \A other \in expiries : t <= other) \in expiries
  <2> HIDE DEF expiries
  <2>1. expiries # {} => \E t \in expiries : \A other \in expiries : t <= other
    BY <1>1, <1>2, LeastValue
  <2> QED BY <2>1
<1> HIDE DEF expiries
<1> QED BY <1>1, <1>2, <1>3, <1>4

LEMMA UnitsType == \A r \in Request : kind(r) \in {"code", "id", "bulk"} => unitsFor(r) \in Nat /\ unitsFor(r) >= 1
<1>1. NumTargets * MaxProbes \in Nat /\ NumTargets * MaxProbes >= 1
  <2>1. NumTargets \in Nat /\ NumTargets >= 1 /\ MaxProbes \in Nat /\ MaxProbes >= 1
    BY Numbers
  <2> QED BY <2>1
<1> QED BY <1>1, Numbers DEF unitsFor

LEMMA ChargedType ==
    ASSUME NEW w, NEW amount \in Nat, NEW limit \in Nat, NEW length \in Nat, now \in 0..MaxTime,
           w \in [count: 0..limit, resetAt: Instant], now + length \in Instant,
           affordable(w, amount, limit, length)
    PROVE  charged(w, amount, length) \in [count: 0..limit, resetAt: Instant]
<1>1. currentWindow(w, length) \in [count: Nat, resetAt: Instant]
  BY DEF currentWindow
<1>2. PICK c : c = currentWindow(w, length)
  OBVIOUS
<1>3. c \in [count: Nat, resetAt: Instant] /\ c.count + amount <= limit
  BY <1>1, <1>2 DEF affordable
<1>4. [c EXCEPT !.count = @ + amount] \in [count: 0..limit, resetAt: Instant]
  BY <1>3
<1> QED BY <1>2, <1>4 DEF charged

LEMMA CoordinatorType ==
    ASSUME TypeOK, coordinatorStep
    PROVE  /\ store' = store /\ now' = now
           /\ window' \in [count: 0..BudgetLimit, resetAt: Instant]
           /\ leases' \in [Probe -> Instant]
           /\ permits' \in [Permit -> PermitState]
           /\ detailWindow' \in [count: 0..DetailBudget, resetAt: Instant]
           /\ detailLeases' \in [Detail -> Instant]
           /\ alarm' \in Instant
<1>0. /\ window \in [count: 0..BudgetLimit, resetAt: Instant]
      /\ leases \in [Probe -> Instant] /\ permits \in [Permit -> PermitState]
      /\ detailWindow \in [count: 0..DetailBudget, resetAt: Instant]
      /\ detailLeases \in [Detail -> Instant] /\ alarm \in Instant
      /\ now \in 0..MaxTime /\ 0 \in Instant
  BY Typed, Numbers DEF Instant
<1>1. store' = store /\ now' = now
  BY DEF coordinatorStep, Charge, GrantLease, ReturnLease, RefuseLease, AlarmFires, IssuePermits,
     ReturnDetailLease, ConsumePermit, coordinatorVars
<1>2. leases' \in [Probe -> Instant]
  BY <1>0, PrunedType DEF coordinatorStep, Charge, GrantLease, ReturnLease, RefuseLease,
     AlarmFires, IssuePermits, ReturnDetailLease, ConsumePermit, coordinatorVars, budgetVars
<1>3. permits' \in [Permit -> PermitState]
  <2>1. \A d \in Permit : spent(d) \in PermitState
    BY <1>0 DEF spent, NoPermit, PermitState
  <2>2. \A ds \in SUBSET Permit : IssuePermits(ds) => permits' \in [Permit -> PermitState]
    <3>1. now + PermitTime \in Instant
      BY <1>0, Instants
    <3>2. [expiresAt |-> now + PermitTime, consumed |-> FALSE] \in PermitState
      BY <3>1 DEF PermitState
    <3> QED BY <3>2, PrunedType DEF IssuePermits
  <2>3. \A x \in Detail, d \in Permit : ConsumePermit(d, x) => permits' \in [Permit -> PermitState]
    BY <2>1, PrunedType DEF ConsumePermit
  <2>4. AlarmFires => permits' \in [Permit -> PermitState]
    BY PrunedType DEF AlarmFires
  <2> QED BY <1>0, <2>2, <2>3, <2>4 DEF coordinatorStep, Charge, GrantLease, ReturnLease,
          RefuseLease, ReturnDetailLease, coordinatorVars, budgetVars
<1>4. detailLeases' \in [Detail -> Instant]
  BY <1>0, PrunedType DEF coordinatorStep, Charge, GrantLease, ReturnLease, RefuseLease,
     AlarmFires, IssuePermits, ReturnDetailLease, ConsumePermit, coordinatorVars, budgetVars
<1>5. alarm' \in Instant
  <2>1. \A ls \in [Probe -> Instant], ps \in [Permit -> PermitState], ds \in [Detail -> Instant] :
            rescheduled(ls, ps, ds) \in Instant
    BY RescheduledType
  <2>2. rescheduled(leases', permits', detailLeases') \in Instant
    BY <1>2, <1>3, <1>4, <2>1
  <2>3. /\ rescheduled(leases', permits, detailLeases) \in Instant
        /\ rescheduled(leases, permits', detailLeases) \in Instant
        /\ rescheduled(leases, permits', detailLeases') \in Instant
        /\ rescheduled(leases, permits, detailLeases') \in Instant
    BY <1>0, <1>2, <1>3, <1>4, <2>1
  <2> QED BY <1>0, <2>2, <2>3 DEF coordinatorStep, Charge, GrantLease, ReturnLease, RefuseLease,
          AlarmFires, IssuePermits, ReturnDetailLease, ConsumePermit, coordinatorVars, budgetVars
<1>6. window' \in [count: 0..BudgetLimit, resetAt: Instant]
  <2>1. ASSUME NEW r \in Request, Charge(unitsFor(r)), kind(r) \in {"code", "id", "bulk"}
        PROVE  window' \in [count: 0..BudgetLimit, resetAt: Instant]
    <3>1. unitsFor(r) \in Nat /\ now + WindowTime \in Instant /\ BudgetLimit \in Nat /\ WindowTime \in Nat
      BY <1>0, <2>1, UnitsType, Instants, Numbers
    <3> QED BY <1>0, <2>1, <3>1, ChargedType DEF Charge
  <2> QED BY <1>0, <2>1 DEF coordinatorStep, GrantLease, ReturnLease, RefuseLease, AlarmFires,
          IssuePermits, ReturnDetailLease, ConsumePermit, coordinatorVars, budgetVars
<1>7. detailWindow' \in [count: 0..DetailBudget, resetAt: Instant]
  <2>1. ASSUME NEW x \in Detail, NEW d \in Permit, permitVerdict(d, TRUE) = "allowed",
               ConsumePermit(d, x)
        PROVE  detailWindow' \in [count: 0..DetailBudget, resetAt: Instant]
    <3>1. affordable(detailWindow, 1, DetailBudget, DetailWindow)
      BY <2>1 DEF permitVerdict
    <3>2. now + DetailWindow \in Instant /\ DetailBudget \in Nat /\ DetailWindow \in Nat /\ 1 \in Nat
      BY <1>0, Instants, Numbers
    <3> QED BY <1>0, <2>1, <3>1, <3>2, ChargedType DEF ConsumePermit
  <2> QED BY <1>0, <2>1 DEF coordinatorStep, Charge, GrantLease, ReturnLease, RefuseLease,
          AlarmFires, IssuePermits, ReturnDetailLease, coordinatorVars, budgetVars
<1> QED BY <1>1, <1>2, <1>3, <1>4, <1>5, <1>6, <1>7

-----------------------------------------------------------------------------
(* How the requests to the portal move.                                    *)

\* A request that nothing but a cut may have reached, and one that begins.
Kept(q) ==
    /\ probe'[q].at = probe[q].at /\ probe'[q].call = probe[q].call
    /\ probe'[q].outcome = probe[q].outcome /\ probe'[q].since = probe[q].since
    /\ probe'[q].cut # probe[q].cut => probe[q].cut = "none"

Begun(q) == ~asked(q) /\ probe'[q] \in {begun(TRUE), begun(FALSE)}

\* Those of S begin, the others are kept.
Starting(S) ==
    /\ S \subseteq Probe /\ probe' \in [Probe -> ProbeState]
    /\ \A q \in S : Begun(q)
    /\ \A q \in Probe \ S : Kept(q)

\* What every step does to a request.
Onward(q) ==
    /\ asked(q) => asked(q)'
    /\ done(q) => done(q)' /\ probe'[q].outcome = probe[q].outcome
    /\ underway(q)' => underway(q) \/ ~asked(q)

LEMMA BegunFields ==
    ASSUME NEW b \in BOOLEAN
    PROVE  /\ begun(b).at = (IF b THEN "done" ELSE "acquiring")
           /\ begun(b).call = (IF b THEN "none" ELSE "sent")
           /\ begun(b).cut = "none"
           /\ begun(b).since = (IF b THEN 0 ELSE now)
           /\ now \in 0..MaxTime => begun(b) \in ProbeState
<1>1. PICK z : z = NoProbe
  OBVIOUS
<1>2. z \in [at: {"idle"}, call: {"none"}, cut: {"none"}, outcome: {"none"}, since: {0}]
  BY <1>1 DEF NoProbe
<1>3. CASE b = TRUE
  <2>1. PICK v : v = begun(b)
    OBVIOUS
  <2>2. v = [z EXCEPT !.at = "done", !.outcome = "cut"]
    BY <1>1, <1>3, <2>1 DEF begun
  <2>3. /\ v.at = "done" /\ v.call = "none" /\ v.cut = "none" /\ v.since = 0
        /\ 0 \in 0..MaxTime => v \in ProbeState
    BY <1>2, <2>2 DEF ProbeState
  <2>4. v \in ProbeState
    BY <2>3, Numbers
  <2>5. b
    BY <1>3
  <2> QED BY <2>1, <2>3, <2>4, <2>5
<1>4. CASE b = FALSE
  <2>1. begun(b) = [z EXCEPT !.at = "acquiring", !.call = "sent", !.since = now]
    BY <1>1, <1>4 DEF begun
  <2> QED BY <1>2, <1>4, <2>1, Numbers DEF ProbeState
<1> QED BY <1>3, <1>4

LEMMA KeptAll ==
    ASSUME TypeOK, probe' = probe
    PROVE  Starting({})
BY Typed DEF Starting, Kept

LEMMA CutOffKeeps ==
    ASSUME TypeOK, NEW ps, NEW how \in {"timeout", "abort"}, probe' = cutOff(ps, how)
    PROVE  Starting({})
<1>1. probe \in [Probe -> ProbeState]
  BY Typed
<1>2. ASSUME NEW q \in Probe
      PROVE  probe'[q] \in ProbeState /\ Kept(q)
  <2>1. PICK s \in ProbeState : s = probe[q]
    BY <1>1
  <2>2. probe'[q] = s \/ (s.cut = "none" /\ probe'[q] = [s EXCEPT !.cut = how])
    BY <2>1 DEF cutOff
  <2> QED BY <2>1, <2>2 DEF Kept, ProbeState
<1>3. probe' \in [Probe -> ProbeState]
  BY <1>2 DEF cutOff
<1> QED BY <1>2, <1>3 DEF Starting

LEMMA OneBegins ==
    ASSUME TypeOK, NEW q \in Probe, ~asked(q), NEW b \in BOOLEAN,
           probe' = [probe EXCEPT ![q] = begun(b)]
    PROVE  Starting({q})
<1>1. probe \in [Probe -> ProbeState] /\ begun(b) \in ProbeState
  BY Typed, BegunFields
<1>2. PICK v \in ProbeState : v = begun(b)
  BY <1>1
<1>3. probe' \in [Probe -> ProbeState] /\ probe'[q] = begun(b)
  BY <1>1, <1>2
<1>4. \A o \in Probe \ {q} : Kept(o)
  BY <1>1 DEF Kept
<1>5. begun(b) \in {begun(TRUE), begun(FALSE)}
  OBVIOUS
<1> QED BY <1>3, <1>4, <1>5 DEF Starting, Begun

LEMMA SomeBegin ==
    ASSUME TypeOK, NEW x \in Target, x[1] \in Request, NEW from \in Nat, NEW to \in Nat,
           \A i \in from..(to - 1) : candidate(x, i) \in Probe /\ ~asked(candidate(x, i)),
           probe' = started(x, from, to)
    PROVE  Starting({candidate(x, i) : i \in from..(to - 1)})
<1>1. probe \in [Probe -> ProbeState] /\ route[x[1]].cancelled \in BOOLEAN
  BY Typed DEF RouteState
<1>2. PICK b \in BOOLEAN : b = route[x[1]].cancelled
  BY <1>1
<1>3. begun(b) \in ProbeState /\ begun(b) \in {begun(TRUE), begun(FALSE)}
  BY Typed, BegunFields
<1>4. probe' = [p \in Probe |-> IF \E i \in from..(to - 1) : p = candidate(x, i)
                                THEN begun(b) ELSE probe[p]]
  BY <1>2 DEF started
<1>5. probe' \in [Probe -> ProbeState]
  BY <1>1, <1>3, <1>4
<1>6. ASSUME NEW i \in from..(to - 1) PROVE Begun(candidate(x, i))
  BY <1>3, <1>4 DEF Begun
<1>7. ASSUME NEW q \in Probe, \A i \in from..(to - 1) : q # candidate(x, i)
      PROVE  Kept(q)
  BY <1>4, <1>7 DEF Kept
<1> QED BY <1>5, <1>6, <1>7 DEF Starting

LEMMA StartingOnward ==
    ASSUME NEW S, Starting(S), NEW q \in Probe
    PROVE  Onward(q) /\ (q \notin S => (asked(q)' <=> asked(q)) /\ (underway(q)' <=> underway(q)))
<1>1. CASE q \in S
  BY <1>1, BegunFields DEF Starting, Begun, Onward, asked, done, underway
<1>2. CASE q \notin S
  BY <1>2 DEF Starting, Kept, Onward, asked, done, underway
<1> QED BY <1>1, <1>2

LEMMA StartingTypes ==
    ASSUME NEW S, Starting(S)
    PROVE  /\ probe' \in [Probe -> ProbeState]
           /\ \A q \in S : q \in Probe /\ ~asked(q) /\ asked(q)'
BY BegunFields DEF Starting, Begun, asked

-----------------------------------------------------------------------------
(* A step of one request at the portal.                                    *)

\* The request becomes v.
becomes(p, v) == v \in ProbeState /\ probe' = [probe EXCEPT ![p] = v]

\* How a request under way, or a call whose caller has left, may move.
advances(s, v) ==
    /\ s.at # "idle" /\ v.at # "idle"
    /\ s.at = "done" => v.at = "done" /\ v.outcome = s.outcome
    /\ v.call # "none" => v.at \in {"acquiring", "done"}

LEMMA HeardBecomes ==
    ASSUME TypeOK, NEW p \in Probe, PlaceOK(p), probe[p].call = "sent",
           NEW answer \in {"granted", "refused", "failed"}, probe' = heard(p, answer)
    PROVE  \E v : /\ becomes(p, v) /\ advances(probe[p], v)
                  /\ v = [probe[p] EXCEPT !.call = v.call]
                  /\ v.call = IF done(p) /\ answer # "granted" THEN "none" ELSE answer
<1>1. PICK s \in ProbeState : s = probe[p]
  BY Typed
<1>2. PICK c : c = IF done(p) /\ answer # "granted" THEN "none" ELSE answer
  OBVIOUS
<1>3. PICK v : v = [s EXCEPT !.call = c]
  OBVIOUS
<1>4. c \in {"none", "granted", "refused", "failed"}
  BY <1>2
<1>5. v \in ProbeState /\ v.call = c /\ v.at = s.at /\ v.outcome = s.outcome
  BY <1>1, <1>3, <1>4 DEF ProbeState
<1>6. s.at \in {"acquiring", "done"}
  BY <1>1 DEF PlaceOK
<1>7. probe' = [probe EXCEPT ![p] = v]
  BY <1>1, <1>2, <1>3 DEF heard
<1> QED BY <1>1, <1>2, <1>3, <1>5, <1>6, <1>7 DEF becomes, advances

\* A request that has nothing to do with the coordinator any more.
Ended(how, outcome) == [NoProbe EXCEPT !.at = how, !.outcome = outcome]

LEMMA NoProbeFields ==
    ASSUME NEW how \in {"done", "returning", "releasing"},
           NEW outcome \in {"none", "match", "other", "error", "cut"}
    PROVE  /\ Ended(how, outcome) \in ProbeState
           /\ Ended(how, outcome).at = how /\ Ended(how, outcome).outcome = outcome
           /\ Ended(how, outcome).call = "none" /\ Ended(how, outcome).cut = "none"
           /\ Ended(how, outcome).since = 0
<1>1. PICK z : z = NoProbe
  OBVIOUS
<1>2. z \in [at: {"idle"}, call: {"none"}, cut: {"none"}, outcome: {"none"}, since: {0}]
  BY <1>1 DEF NoProbe
<1>3. PICK v : v = [z EXCEPT !.at = how, !.outcome = outcome]
  OBVIOUS
<1>4. /\ v.at = how /\ v.outcome = outcome /\ v.call = "none" /\ v.cut = "none" /\ v.since = 0
      /\ 0 \in 0..MaxTime => v \in ProbeState
  BY <1>2, <1>3 DEF ProbeState
<1>5. 0 \in 0..MaxTime
  BY Numbers
<1> QED BY <1>1, <1>3, <1>4, <1>5 DEF Ended

\* However a request under way ends, it has moved on.
LEMMA EndedMoves ==
    ASSUME TypeOK, NEW p \in Probe, underway(p),
           \E how \in {"done", "returning", "releasing"} :
              \E outcome \in {"none", "match", "other", "error", "cut"} :
                 probe' = [probe EXCEPT ![p] = Ended(how, outcome)]
    PROVE  \E v : becomes(p, v) /\ advances(probe[p], v)
<1>1. PICK how \in {"done", "returning", "releasing"},
           outcome \in {"none", "match", "other", "error", "cut"} :
              probe' = [probe EXCEPT ![p] = Ended(how, outcome)]
  OBVIOUS
<1>2. PICK v : v = Ended(how, outcome)
  OBVIOUS
<1>3. v \in ProbeState /\ v.at = how /\ v.call = "none"
  BY <1>1, <1>2, NoProbeFields
<1>4. becomes(p, v)
  BY <1>1, <1>2, <1>3 DEF becomes
<1>5. advances(probe[p], v)
  BY <1>1, <1>3 DEF advances, underway
<1> QED BY <1>4, <1>5

LEMMA PortalMoves ==
    ASSUME TypeOK, NEW p \in Probe, PlaceOK(p), ProbeStep(p)
    PROVE  /\ \E v : becomes(p, v) /\ advances(probe[p], v)
           /\ coordinatorStep /\ faults' \in Nat /\ faults' <= faults
<1>0. PICK s \in ProbeState : s = probe[p]
  BY Typed
<1>1. cutOutcome(p) \in {"error", "cut"}
  BY DEF cutOutcome
<1>2. fault => faults' \in Nat /\ faults' <= faults
  BY Typed DEF fault
<1>3. UNCHANGED faults => faults' \in Nat /\ faults' <= faults
  BY Typed
<1>4. /\ UNCHANGED <<store, now, budgetVars>> => coordinatorStep
      /\ GrantLease(p) \/ ReturnLease(p) \/ RefuseLease => coordinatorStep
  BY DEF coordinatorStep, coordinatorVars
<1>5. CASE CoordinatorAnswers(p)
  <2>1. \E answer \in {"granted", "refused", "failed"} : probe' = heard(p, answer)
    BY <1>5 DEF CoordinatorAnswers
  <2>2. \E v : becomes(p, v) /\ advances(probe[p], v)
    BY <1>5, <2>1, HeardBecomes DEF CoordinatorAnswers
  <2> QED BY <1>2, <1>3, <1>4, <1>5, <2>2 DEF CoordinatorAnswers
<1>6. CASE LeaveAcquire(p)
  <2>1. PICK w : w = Ended("done", cutOutcome(p))
    OBVIOUS
  <2>2. /\ w \in ProbeState /\ w.at = "done" /\ w.outcome = cutOutcome(p)
    BY <1>1, <2>1, NoProbeFields
  <2>3. PICK v : v = [w EXCEPT !.call = "sent"]
    OBVIOUS
  <2>4. v \in ProbeState /\ v.at = "done" /\ v.outcome = cutOutcome(p)
    BY <2>2, <2>3 DEF ProbeState
  <2>5. probe \in [Probe -> ProbeState] /\ probe' = [[probe EXCEPT ![p] = w] EXCEPT ![p].call = "sent"]
    BY <1>6, <2>1, Typed DEF LeaveAcquire, ends, Ended
  <2>6. probe' = [probe EXCEPT ![p] = v]
    BY <2>3, <2>5
  <2>7. becomes(p, v) /\ advances(probe[p], v)
    BY <1>6, <2>4, <2>6 DEF becomes, advances, LeaveAcquire
  <2> QED BY <1>3, <1>4, <1>6, <2>7 DEF LeaveAcquire
<1>7. CASE LateGrant(p)
  <2>1. PICK v : v = [s EXCEPT !.call = "none"]
    OBVIOUS
  <2>2. v \in ProbeState /\ v.call = "none" /\ v.at = s.at /\ v.outcome = s.outcome
    BY <2>1 DEF ProbeState
  <2>3. becomes(p, v) /\ advances(probe[p], v)
    BY <1>0, <1>7, <2>1, <2>2 DEF becomes, advances, LateGrant, done
  <2> QED BY <1>2, <1>3, <1>4, <1>7, <2>3 DEF LateGrant
<1>8. CASE AcquireGranted(p)
  <2>1. CASE s.cut = "none"
    <3>1. PICK v : v = [s EXCEPT !.call = "none", !.at = "working"]
      OBVIOUS
    <3>2. v \in ProbeState /\ v.call = "none" /\ v.at = "working"
      BY <3>1 DEF ProbeState
    <3>3. probe \in [Probe -> ProbeState]
          /\ probe' = [probe EXCEPT ![p].call = "none", ![p].at = "working"]
      BY <1>0, <1>8, <2>1, Typed DEF AcquireGranted
    <3>4. probe' = [probe EXCEPT ![p] = v]
      BY <1>0, <3>1, <3>3
    <3>5. becomes(p, v) /\ advances(probe[p], v)
      BY <1>0, <1>8, <3>2, <3>4 DEF becomes, advances, AcquireGranted
    <3> QED BY <1>3, <1>4, <1>8, <3>5 DEF AcquireGranted
  <2>2. CASE s.cut # "none"
    <3>1. \E how \in {"returning", "releasing"} :
              probe' = [probe EXCEPT ![p] = Ended(how, cutOutcome(p))]
      BY <1>0, <1>8, <2>2 DEF AcquireGranted, Ended
    <3>2. underway(p)
      BY <1>8 DEF AcquireGranted, underway
    <3>3. \E v : becomes(p, v) /\ advances(probe[p], v)
      BY <1>1, <3>1, <3>2, EndedMoves
    <3> QED BY <1>3, <1>4, <1>8, <3>3 DEF AcquireGranted
  <2> QED BY <2>1, <2>2
<1>9. CASE AcquireFailed(p)
  <2>1. \E o \in {"error", "cut"} :
            probe' = [probe EXCEPT ![p] = Ended("done", o)]
    BY <1>1, <1>9 DEF AcquireFailed, ends, Ended
  <2>2. underway(p)
    BY <1>9 DEF AcquireFailed, underway
  <2>3. \E v : becomes(p, v) /\ advances(probe[p], v)
    BY <2>1, <2>2, EndedMoves
  <2> QED BY <1>3, <1>4, <1>9, <2>3 DEF AcquireFailed
<1>10. CASE ReturnCut(p)
  <2>1. \E o \in {"none", "match", "other", "error", "cut"} :
            probe' = [probe EXCEPT ![p] = Ended("done", o)]
    BY <1>0, <1>10 DEF ReturnCut, ends, ProbeState, Ended
  <2>2. underway(p)
    BY <1>10 DEF ReturnCut, underway
  <2>3. \E v : becomes(p, v) /\ advances(probe[p], v)
    BY <2>1, <2>2, EndedMoves
  <2> QED BY <1>2, <1>3, <1>4, <1>10, <2>3 DEF ReturnCut
<1>11. CASE FetchEnds(p)
  <2>1. \E o \in {"match", "other", "error", "cut"} :
            probe' = [probe EXCEPT ![p] = Ended("releasing", o)]
    BY <1>1, <1>11 DEF FetchEnds, Ended
  <2>2. underway(p)
    BY <1>11 DEF FetchEnds, underway
  <2>3. \E v : becomes(p, v) /\ advances(probe[p], v)
    BY <2>1, <2>2, EndedMoves
  <2> QED BY <1>3, <1>4, <1>11, <2>3 DEF FetchEnds
<1>12. CASE ReleasePermit(p)
  <2>1. \E o \in {"none", "match", "other", "error", "cut"} :
            probe' = [probe EXCEPT ![p] = Ended("done", o)]
    BY <1>0, <1>12 DEF ReleasePermit, ends, ProbeState, Ended
  <2>2. underway(p)
    BY <1>12 DEF ReleasePermit, underway
  <2>3. \E v : becomes(p, v) /\ advances(probe[p], v)
    BY <2>1, <2>2, EndedMoves
  <2> QED BY <1>2, <1>3, <1>4, <1>12, <2>3 DEF ReleasePermit
<1>13. CASE ProbeTimesOut(p)
  <2>1. s.cut = "none" /\ s.at \in {"acquiring", "working"} /\ probe' = cutOff({p}, "timeout")
    BY <1>0, <1>13 DEF ProbeTimesOut, timerDue
  <2>2. PICK v : v = [s EXCEPT !.cut = "timeout"]
    OBVIOUS
  <2>3. v \in ProbeState /\ v.call = s.call /\ v.at = s.at
    BY <2>2 DEF ProbeState
  <2>4. probe \in [Probe -> ProbeState]
    BY Typed
  <2>5. probe' = [probe EXCEPT ![p] = v]
    BY <1>0, <2>1, <2>2, <2>4 DEF cutOff
  <2>6. s.call # "none" => s.at \in {"acquiring", "done"}
    BY <1>0 DEF PlaceOK
  <2>7. becomes(p, v) /\ advances(probe[p], v)
    BY <1>0, <2>1, <2>3, <2>5, <2>6 DEF becomes, advances
  <2> QED BY <1>3, <1>4, <1>13, <2>7 DEF ProbeTimesOut
<1> QED BY <1>5, <1>6, <1>7, <1>8, <1>9, <1>10, <1>11, <1>12, <1>13 DEF ProbeStep

-----------------------------------------------------------------------------
(* The leases.                                                             *)

\* A lease that has not expired stays as it is.
leaseStays(q) == leases'[q] = leases[q] \/ leases[q] <= now

LEMMA LeaseMoves ==
    ASSUME TypeOK, NEW p \in Probe
    PROVE  /\ GrantLease(p) =>
                 /\ now' = now /\ active(leases)' = active(leases) \cup {p}
                 /\ Cardinality(active(leases)) < PermitLimit
                 /\ leases'[p] = now + LeaseTime
                 /\ \A q \in Probe \ {p} : leaseStays(q)
           /\ ReturnLease(p) =>
                 /\ now' = now /\ active(leases)' = active(leases) \ {p}
                 /\ \A q \in Probe \ {p} : leaseStays(q)
           /\ RefuseLease =>
                 /\ now' = now /\ active(leases)' = active(leases)
                 /\ \A q \in Probe : leaseStays(q)
           /\ AlarmFires =>
                 /\ now' = now /\ active(leases)' = active(leases)
                 /\ \A q \in Probe : leaseStays(q)
           /\ now' = now /\ leases' = leases =>
                 /\ active(leases)' = active(leases)
                 /\ \A q \in Probe : leaseStays(q)
<1>1. /\ leases \in [Probe -> Nat] /\ now \in Nat /\ LeaseTime \in Nat /\ LeaseTime >= 1
  BY Typed, Instants, Numbers
<1>2. GrantLease(p) =>
                 /\ now' = now /\ active(leases)' = active(leases) \cup {p}
                 /\ Cardinality(active(leases)) < PermitLimit
                 /\ leases'[p] = now + LeaseTime
                 /\ \A q \in Probe \ {p} : leaseStays(q)
  BY <1>1 DEF GrantLease, hasCapacity, active, pruned, leaseStays, leaseEnd
<1>3. ReturnLease(p) =>
                 /\ now' = now /\ active(leases)' = active(leases) \ {p}
                 /\ \A q \in Probe \ {p} : leaseStays(q)
  <2>1. ReturnLease(p) => now' = now
    BY DEF ReturnLease
  <2>2. ASSUME ReturnLease(p), leases' = [leases EXCEPT ![p] = 0]
        PROVE  active(leases)' = active(leases) \ {p} /\ \A q \in Probe \ {p} : leaseStays(q)
    BY <1>1, <2>1, <2>2 DEF active, leaseStays
  <2>3. ASSUME ReturnLease(p), leases' = [pruned(leases) EXCEPT ![p] = 0]
        PROVE  active(leases)' = active(leases) \ {p} /\ \A q \in Probe \ {p} : leaseStays(q)
    BY <1>1, <2>1, <2>3 DEF active, leaseStays, pruned
  <2>4. ASSUME ReturnLease(p), leases' = leases, ~ (leases[p] > now)
        PROVE  active(leases)' = active(leases) \ {p} /\ \A q \in Probe \ {p} : leaseStays(q)
    BY <1>1, <2>1, <2>4 DEF active, leaseStays
  <2> QED BY <2>1, <2>2, <2>3, <2>4 DEF ReturnLease
<1>4. RefuseLease =>
                 /\ now' = now /\ active(leases)' = active(leases)
                 /\ \A q \in Probe : leaseStays(q)
  BY <1>1 DEF RefuseLease, active, pruned, leaseStays
<1>5. AlarmFires =>
                 /\ now' = now /\ active(leases)' = active(leases)
                 /\ \A q \in Probe : leaseStays(q)
  BY <1>1 DEF AlarmFires, active, pruned, leaseStays
<1>6. now' = now /\ leases' = leases =>
                 /\ active(leases)' = active(leases)
                 /\ \A q \in Probe : leaseStays(q)
  BY DEF active, leaseStays
<1> QED BY <1>2, <1>3, <1>4, <1>5, <1>6

\* A lease is stranded when a call fails, and one failure strands one.
LEMMA StrandedByFailures ==
    ASSUME TypeOK, LeasesOK, NEW p \in Probe, scenario' = scenario,
           faults' \in Nat, faults' <= faults,
           active(leases)' \subseteq active(leases) \cup {p},
           \A q \in Probe \ {p} : holding(q)' <=> holding(q),
           p \in active(leases)' /\ ~holding(p)' => p \in stranded \/ faults' < faults
    PROVE  Cardinality(stranded)' <= (scenario.faults - faults)'
<1>1. faults \in Nat /\ scenario.faults \in Nat
  BY Typed, LookupAssumption
<1>2. stranded \subseteq active(leases) /\ stranded' \subseteq stranded \cup {p}
  <2>1. active(leases) \subseteq Probe
    BY Typed DEF active
  <2> QED BY <2>1 DEF stranded
<1>3. IsFiniteSet(stranded) /\ Cardinality(stranded) \in Nat /\ IsFiniteSet(stranded \cup {p})
  BY <1>2, FS_Subset, FS_CardinalityType, FS_AddElement DEF LeasesOK
<1>4. CASE faults' < faults
  <2>1. Cardinality(stranded') <= Cardinality(stranded \cup {p})
    BY <1>2, <1>3, FS_Subset
  <2>2. Cardinality(stranded \cup {p}) <= Cardinality(stranded) + 1
    BY <1>3, FS_AddElement
  <2>3. Cardinality(stranded') \in Nat /\ Cardinality(stranded \cup {p}) \in Nat
    BY <1>2, <1>3, FS_Subset, FS_CardinalityType
  <2>4. Cardinality(stranded) <= scenario.faults - faults
    BY DEF LeasesOK
  <2> QED BY <1>1, <1>3, <1>4, <2>1, <2>2, <2>3, <2>4
<1>5. CASE ~ (faults' < faults)
  <2>1. stranded' \subseteq stranded
    BY <1>2, <1>5 DEF stranded
  <2>2. Cardinality(stranded') <= Cardinality(stranded) /\ Cardinality(stranded') \in Nat
    BY <2>1, <1>3, FS_Subset, FS_CardinalityType
  <2>3. Cardinality(stranded) <= scenario.faults - faults
    BY DEF LeasesOK
  <2> QED BY <1>1, <1>3, <1>5, <2>2, <2>3
<1> QED BY <1>4, <1>5

\* A caller whose lease and request stay as they are stays in time.
LEMMA TimelyStays ==
    ASSUME TypeOK, NEW q \in Probe, Timely(q), leaseStays(q), now' = now,
           leases' \in [Probe -> Instant],
           \/ probe'[q] = probe[q]
           \/ Kept(q)
           \/ now \in 0..MaxTime /\ Begun(q)
    PROVE  Timely(q)'
<1>1. /\ probe[q] \in ProbeState /\ leases[q] \in Nat /\ leases'[q] \in Nat /\ now \in Nat
      /\ RouteTime \in Nat /\ LeaseTime \in Nat /\ RouteTime < LeaseTime
  BY Typed, Instants, Numbers
<1>2. probe[q].since \in Nat
  BY <1>1 DEF ProbeState
<1>3. CASE Begun(q)
  <2>1. PICK b \in BOOLEAN : probe'[q] = begun(b)
    BY <1>3 DEF Begun
  <2>2. /\ probe'[q].at = (IF b THEN "done" ELSE "acquiring")
        /\ probe'[q].call = (IF b THEN "none" ELSE "sent")
        /\ probe'[q].since = (IF b THEN 0 ELSE now)
    BY <2>1, BegunFields
  <2> QED BY <1>1, <2>2 DEF Timely
<1>4. CASE Kept(q) \/ probe'[q] = probe[q]
  <2>1. /\ probe'[q].at = probe[q].at /\ probe'[q].call = probe[q].call
        /\ probe'[q].since = probe[q].since
        /\ probe'[q].cut # probe[q].cut => probe[q].cut = "none"
    BY <1>4 DEF Kept
  <2> QED BY <1>1, <1>2, <2>1 DEF Timely, leaseStays
<1> QED BY <1>3, <1>4

\* A step of a route or of a resolver leaves the leases as they are.
LEMMA StartingLeases ==
    ASSUME TypeOK, LeasesOK, \A q \in Probe : PlaceOK(q),
           NEW S, Starting(S), now' = now, scenario' = scenario,
           leases' \in [Probe -> Instant],
           active(leases)' = active(leases), \A q \in Probe : leaseStays(q),
           faults' \in Nat, faults' <= faults
    PROVE  LeasesOK'
<1>1. \A q \in Probe : q \in S => ~holding(q)
  BY DEF Starting, Begun, holding, asked, PlaceOK
<1>2. \A q \in Probe : holding(q)' => holding(q)
  BY BegunFields DEF Starting, Begun, Kept, holding
<1>3. \A q \in Probe : holding(q) => holding(q)'
  BY <1>1 DEF Starting, Kept, holding
<1>4. active(leases) \subseteq Probe
  BY Typed DEF active
<1>5. stranded' = stranded
  BY <1>2, <1>3, <1>4 DEF stranded
<1>6. \A q \in Probe : Timely(q)'
  <2>1. now \in 0..MaxTime
    BY Typed
  <2> QED BY <2>1, TimelyStays DEF LeasesOK, Starting
<1>7. Cardinality(stranded)' <= (scenario.faults - faults)'
  <2>1. faults \in Nat /\ scenario.faults \in Nat
    BY Typed, LookupAssumption
  <2>2. Cardinality(stranded) \in Nat
    BY FS_Subset, FS_CardinalityType DEF LeasesOK, stranded
  <2> QED BY <1>5, <2>1, <2>2 DEF LeasesOK
<1> QED BY <1>6, <1>7 DEF LeasesOK

\* So does a step of one request at the portal.
LEMMA PortalLeases ==
    ASSUME TypeOK, LeasesOK, NEW p \in Probe, PlaceOK(p), ProbeStep(p), scenario' = scenario
    PROVE  LeasesOK'
<1>0. /\ store \in {"durable", "redis"} /\ faults \in Nat /\ scenario.faults \in Nat
      /\ now \in Nat /\ RouteTime \in Nat /\ LeaseTime \in Nat /\ RouteTime < LeaseTime
      /\ PermitLimit \in Nat /\ leases \in [Probe -> Nat]
  BY Typed, LookupAssumption, Numbers, Instants
<1>1. PICK s \in ProbeState : s = probe[p]
  BY Typed
<1>2. PICK v \in ProbeState : probe' = [probe EXCEPT ![p] = v]
  BY PortalMoves DEF becomes
<1>3. probe'[p] = v /\ \A q \in Probe \ {p} : probe'[q] = probe[q]
  BY <1>2, Typed
<1>4. faults' \in Nat /\ faults' <= faults
  BY PortalMoves
<1>5. \A q \in Probe \ {p} : holding(q)' <=> holding(q)
  BY <1>3 DEF holding
<1>6. leases' \in [Probe -> Instant]
  BY PortalMoves, CoordinatorType
<1>7. /\ s.since \in Nat /\ Timely(p)
      /\ s.call # "none" => s.at \in {"acquiring", "done"}
  BY <1>1 DEF ProbeState, LeasesOK, PlaceOK
\* What remains to be shown of the step.
<1>8. ASSUME now' = now, \A q \in Probe \ {p} : leaseStays(q),
             \/ active(leases)' \subseteq active(leases)
             \/ /\ active(leases)' = active(leases) \cup {p}
                /\ Cardinality(active(leases)) < PermitLimit,
             p \in active(leases)' /\ ~holding(p)' => p \in stranded \/ faults' < faults,
             Timely(p)'
      PROVE  LeasesOK'
  <2>1. Cardinality(stranded)' <= (scenario.faults - faults)'
    BY <1>4, <1>5, <1>8, StrandedByFailures
  <2>2. \A q \in Probe : Timely(q)'
    BY <1>3, <1>6, <1>8, TimelyStays DEF LeasesOK
  <2>3. IsFiniteSet(active(leases)') /\ Cardinality(active(leases)') <= PermitLimit
    <3>1. IsFiniteSet(active(leases)) /\ Cardinality(active(leases)) \in Nat
          /\ Cardinality(active(leases)) <= PermitLimit
      BY FS_CardinalityType DEF LeasesOK
    <3>2. CASE active(leases)' \subseteq active(leases)
      <4>1. IsFiniteSet(active(leases)') /\ Cardinality(active(leases)') <= Cardinality(active(leases))
        BY <3>1, <3>2, FS_Subset
      <4>2. Cardinality(active(leases)') \in Nat
        BY <4>1, FS_CardinalityType
      <4> QED BY <1>0, <3>1, <4>1, <4>2
    <3>3. CASE active(leases)' = active(leases) \cup {p} /\ Cardinality(active(leases)) < PermitLimit
      <4>1. /\ IsFiniteSet(active(leases) \cup {p})
            /\ Cardinality(active(leases) \cup {p}) <= Cardinality(active(leases)) + 1
        <5>1. PICK A : A = active(leases)
          OBVIOUS
        <5>2. IsFiniteSet(A \cup {p}) /\ Cardinality(A \cup {p}) <= Cardinality(A) + 1
          BY <3>1, <5>1, FS_AddElement
        <5> QED BY <5>1, <5>2
      <4>2. Cardinality(active(leases) \cup {p}) \in Nat
        BY <4>1, FS_CardinalityType
      <4> QED BY <1>0, <3>1, <3>3, <4>1, <4>2
    <3> QED BY <1>8, <3>2, <3>3
  <2> QED BY <2>1, <2>2, <2>3 DEF LeasesOK
<1>9. UNCHANGED <<store, now, budgetVars>> =>
        /\ now' = now /\ leases' = leases /\ active(leases)' = active(leases)
        /\ \A q \in Probe : leaseStays(q)
  BY LeaseMoves DEF budgetVars
<1>10. \* A request that has ended or never got its lease has nothing to keep to.
       ASSUME v.at \notin {"acquiring", "working"}, v.since = 0 \/ v.since = s.since, now' = now
       PROVE  Timely(p)'
  BY <1>0, <1>1, <1>3, <1>7, <1>10 DEF Timely
<1>11. p \in active(leases) /\ ~holding(p) => p \in stranded
  BY DEF stranded
\* Nothing but the request moves, and it holds what it held.
<1>12. ASSUME UNCHANGED <<store, now, budgetVars>>, holding(p) => holding(p)', Timely(p)'
       PROVE  LeasesOK'
  BY <1>8, <1>9, <1>11, <1>12
\* The lease is returned, or the call to return it fails.
<1>13. ASSUME ReturnLease(p) \/ (fault /\ UNCHANGED <<store, now, budgetVars>>), Timely(p)'
       PROVE  LeasesOK'
  <2>1. CASE ReturnLease(p)
    BY <1>8, <1>13, <2>1, LeaseMoves
  <2>2. CASE fault /\ UNCHANGED <<store, now, budgetVars>>
    <3>1. faults' < faults
      BY <1>0, <2>2 DEF fault
    <3> QED BY <1>8, <1>9, <1>13, <2>2, <3>1
  <2> QED BY <1>13, <2>1, <2>2
<1>14. ReturnLease(p) => now' = now
  BY DEF ReturnLease
<1>15. UNCHANGED <<store, now, budgetVars>> => now' = now
  OBVIOUS
<1>16. CASE CoordinatorAnswers(p)
  <2>1. /\ s.call = "sent" /\ s.at \in {"acquiring", "done"} /\ ~holding(p)
    BY <1>1, <1>7, <1>16 DEF CoordinatorAnswers, holding
  <2>2. \A answer \in {"granted", "refused", "failed"} :
            probe' = heard(p, answer) =>
                /\ v.at = s.at /\ v.since = s.since /\ v.cut = s.cut
                /\ v.call = IF s.at = "done" /\ answer # "granted" THEN "none" ELSE answer
    <3> SUFFICES ASSUME NEW answer \in {"granted", "refused", "failed"}, probe' = heard(p, answer)
                 PROVE  /\ v.at = s.at /\ v.since = s.since /\ v.cut = s.cut
                        /\ v.call = IF s.at = "done" /\ answer # "granted" THEN "none" ELSE answer
      OBVIOUS
    <3>1. PICK c : c = IF done(p) /\ answer # "granted" THEN "none" ELSE answer
      OBVIOUS
    <3>2. probe' = [probe EXCEPT ![p].call = c] /\ probe \in [Probe -> ProbeState]
      BY <3>1, Typed DEF heard
    <3>3. v = [s EXCEPT !.call = c]
      BY <1>1, <1>3, <3>2
    <3> QED BY <1>1, <3>1, <3>3 DEF done, ProbeState
  <2>3. CASE GrantLease(p) /\ probe' = heard(p, "granted") /\ UNCHANGED faults
    <3>1. v.at = s.at /\ v.since = s.since /\ v.cut = s.cut /\ v.call = "granted"
      BY <2>2, <2>3
    <3>2. now' = now /\ leases'[p] = now + LeaseTime
      BY <2>3, LeaseMoves
    <3>3. Timely(p)'
      BY <1>0, <1>1, <1>3, <1>7, <3>1, <3>2 DEF Timely
    <3>4. holding(p)'
      BY <1>3, <3>1 DEF holding
    <3> QED BY <1>8, <2>3, <3>3, <3>4, LeaseMoves
  <2>4. CASE RefuseLease /\ probe' = heard(p, "refused") /\ UNCHANGED faults
    <3>1. v.at = s.at /\ v.since = s.since /\ v.cut = s.cut /\ v.call \in {"none", "refused"}
      BY <2>2, <2>4
    <3>2. now' = now
      BY <2>4, LeaseMoves
    <3>3. Timely(p)'
      BY <1>0, <1>1, <1>3, <1>7, <2>1, <3>1, <3>2 DEF Timely
    <3> QED BY <1>8, <1>11, <2>1, <2>4, <3>3, LeaseMoves
  <2>5. CASE GrantLease(p) /\ probe' = heard(p, "failed") /\ fault
    <3>1. v.at = s.at /\ v.since = s.since /\ v.cut = s.cut /\ v.call \in {"none", "failed"}
      BY <2>2, <2>5
    <3>2. now' = now /\ faults' < faults
      BY <1>0, <2>5, LeaseMoves DEF fault
    <3>3. Timely(p)'
      BY <1>0, <1>1, <1>3, <1>7, <2>1, <3>1, <3>2 DEF Timely
    <3> QED BY <1>8, <2>5, <3>2, <3>3, LeaseMoves
  <2>6. CASE fault /\ probe' = heard(p, "failed") /\ UNCHANGED <<store, now, budgetVars>>
    <3>1. v.at = s.at /\ v.since = s.since /\ v.cut = s.cut /\ v.call \in {"none", "failed"}
      BY <2>2, <2>6
    <3>2. Timely(p)'
      BY <1>0, <1>1, <1>3, <1>7, <2>1, <2>6, <3>1 DEF Timely
    <3> QED BY <1>12, <2>1, <2>6, <3>2
  <2> QED BY <1>16, <2>3, <2>4, <2>5, <2>6 DEF CoordinatorAnswers
<1>17. CASE LeaveAcquire(p)
  <2>1. PICK w : w = Ended("done", cutOutcome(p))
    OBVIOUS
  <2>2. w \in ProbeState /\ w.at = "done" /\ w.since = 0
    <3>1. cutOutcome(p) \in {"error", "cut"}
      BY DEF cutOutcome
    <3> QED BY <2>1, <3>1, NoProbeFields
  <2>3. probe \in [Probe -> ProbeState] /\ probe' = [[probe EXCEPT ![p] = w] EXCEPT ![p].call = "sent"]
    BY <1>17, <2>1, Typed DEF LeaveAcquire, ends, Ended
  <2>4. v = [w EXCEPT !.call = "sent"]
    BY <1>3, <2>3
  <2>5. v.at = "done" /\ v.since = 0
    BY <2>2, <2>4 DEF ProbeState
  <2>6. ~holding(p)
    BY <1>17 DEF LeaveAcquire, holding
  <2>7. UNCHANGED <<store, now, budgetVars>>
    BY <1>17 DEF LeaveAcquire
  <2> QED BY <1>10, <1>12, <1>15, <2>5, <2>6, <2>7
<1>18. CASE LateGrant(p)
  <2>1. s.at = "done" /\ probe' = [probe EXCEPT ![p].call = "none"] /\ probe \in [Probe -> ProbeState]
    BY <1>1, <1>18, Typed DEF LateGrant, done
  <2>2. v = [s EXCEPT !.call = "none"]
    BY <1>1, <1>3, <2>1
  <2>3. v.at = "done" /\ v.since = s.since
    BY <2>1, <2>2 DEF ProbeState
  <2>4. ReturnLease(p) \/ (fault /\ UNCHANGED <<store, now, budgetVars>>)
    BY <1>18 DEF LateGrant
  <2> QED BY <1>10, <1>13, <1>14, <1>15, <2>3, <2>4
<1>19. CASE AcquireGranted(p)
  <2>1. UNCHANGED <<store, now, budgetVars>> /\ leases' = leases /\ s.at = "acquiring" /\ s.call = "granted"
    BY <1>1, <1>19 DEF AcquireGranted, budgetVars
  <2>2. CASE s.cut = "none"
    <3>1. probe \in [Probe -> ProbeState]
          /\ probe' = [probe EXCEPT ![p].call = "none", ![p].at = "working"]
      BY <1>1, <1>19, <2>2, Typed DEF AcquireGranted
    <3>2. v = [s EXCEPT !.call = "none", !.at = "working"]
      BY <1>1, <1>3, <3>1
    <3>3. v.at = "working" /\ v.since = s.since
      BY <3>2 DEF ProbeState
    <3>4. Timely(p)'
      BY <1>0, <1>1, <1>3, <1>7, <2>1, <2>2, <3>3 DEF Timely
    <3>5. holding(p)'
      BY <1>3, <3>3 DEF holding
    <3> QED BY <1>12, <2>1, <3>4, <3>5
  <2>3. CASE s.cut # "none"
    <3>1. PICK how \in {"returning", "releasing"}, o \in {"error", "cut"} :
              probe' = [probe EXCEPT ![p] = Ended(how, o)]
      BY <1>1, <1>19, <2>3 DEF AcquireGranted, Ended, cutOutcome
    <3>2. v = Ended(how, o)
      BY <1>3, <3>1, Typed
    <3>3. v.at \in {"returning", "releasing"} /\ v.since = 0
      BY <3>1, <3>2, NoProbeFields
    <3>4. holding(p)'
      BY <1>3, <3>3 DEF holding
    <3> QED BY <1>10, <1>12, <2>1, <3>3, <3>4
  <2> QED BY <2>2, <2>3
<1>20. CASE AcquireFailed(p)
  <2>1. PICK o \in {"error", "cut"} : probe' = [probe EXCEPT ![p] = Ended("done", o)]
    BY <1>20 DEF AcquireFailed, ends, Ended, cutOutcome
  <2>2. PICK how : how = "done"
    OBVIOUS
  <2>3. v = Ended(how, o)
    BY <1>3, <2>1, <2>2, Typed
  <2>4. v.at = "done" /\ v.since = 0
    BY <2>1, <2>2, <2>3, NoProbeFields
  <2>5. ~holding(p) /\ UNCHANGED <<store, now, budgetVars>>
    BY <1>20 DEF AcquireFailed, holding
  <2> QED BY <1>10, <1>12, <1>15, <2>4, <2>5
<1>21. CASE ReturnCut(p) \/ ReleasePermit(p)
  <2>1. PICK o \in {"none", "match", "other", "error", "cut"} :
            probe' = [probe EXCEPT ![p] = Ended("done", o)]
    BY <1>1, <1>21 DEF ReturnCut, ReleasePermit, ends, Ended, ProbeState
  <2>2. PICK how : how = "done"
    OBVIOUS
  <2>3. v = Ended(how, o)
    BY <1>3, <2>1, <2>2, Typed
  <2>4. v.at = "done" /\ v.since = 0
    BY <2>1, <2>2, <2>3, NoProbeFields
  <2>5. ReturnLease(p) \/ (fault /\ UNCHANGED <<store, now, budgetVars>>)
    BY <1>21 DEF ReturnCut, ReleasePermit
  <2> QED BY <1>10, <1>13, <1>14, <1>15, <2>4, <2>5
<1>22. CASE FetchEnds(p)
  <2>1. PICK o \in {"match", "other", "error", "cut"} :
            probe' = [probe EXCEPT ![p] = Ended("releasing", o)]
    BY <1>22 DEF FetchEnds, Ended, cutOutcome
  <2>2. PICK how : how = "releasing"
    OBVIOUS
  <2>3. v = Ended(how, o)
    BY <1>3, <2>1, <2>2, Typed
  <2>4. v.at = "releasing" /\ v.since = 0
    BY <2>1, <2>2, <2>3, NoProbeFields
  <2>5. UNCHANGED <<store, now, budgetVars>> /\ holding(p)'
    BY <1>3, <1>22, <2>4 DEF FetchEnds, holding
  <2> QED BY <1>10, <1>12, <1>15, <2>4, <2>5
<1>23. CASE ProbeTimesOut(p)
  <2>1. UNCHANGED <<store, now, budgetVars>> /\ leases' = leases /\ s.cut = "none"
        /\ s.at \in {"acquiring", "working"} /\ probe' = cutOff({p}, "timeout")
    BY <1>1, <1>23 DEF ProbeTimesOut, timerDue, budgetVars
  <2>2. v = [s EXCEPT !.cut = "timeout"]
    BY <1>1, <1>3, <2>1 DEF cutOff
  <2>3. v.at = s.at /\ v.call = s.call /\ v.since = s.since
    BY <2>2 DEF ProbeState
  <2>4. Timely(p)' /\ (holding(p) => holding(p)')
    BY <1>0, <1>1, <1>3, <1>7, <2>1, <2>3 DEF Timely, holding
  <2> QED BY <1>12, <2>1, <2>4
<1> QED BY <1>16, <1>17, <1>18, <1>19, <1>20, <1>21, <1>22, <1>23 DEF ProbeStep

-----------------------------------------------------------------------------
(* What stays true of requests, searches and routes that a step leaves.    *)

LEMMA ProbeParts ==
    ASSUME NEW p \in Probe
    PROVE  /\ p[1] \in Request /\ p[2] \in 1..NumTargets /\ p[3] \in 0..MaxProbes
           /\ p = <<p[1], p[2], p[3]>> /\ <<p[1], p[2]>> \in Target
           /\ candidate(<<p[1], p[2]>>, p[3]) = p
BY LookupAssumption DEF Target, candidate

LEMMA TargetParts ==
    ASSUME NEW x \in Target
    PROVE  x[1] \in Request /\ x[2] \in 1..NumTargets /\ x = <<x[1], x[2]>>
BY LookupAssumption DEF Target

LEMMA Kinds ==
    ASSUME TypeOK, NEW r \in Request
    PROVE  /\ kind(r) \in {"code", "id", "bulk", "detail", "batch", "absent"}
           /\ probesFor(r, kind(r)) \subseteq Probe
           /\ \A p \in probesFor(r, kind(r)) : p[1] = r
<1>1. scenario \in Scenario
  BY Typed
<1>2. kind(r) \in {"code", "id", "bulk", "detail", "batch", "absent"}
      /\ probesFor(r, kind(r)) \subseteq Probe
  BY <1>1, LookupAssumption DEF kind
<1>3. \A p \in probesFor(r, kind(r)) : p[1] = r
  BY <1>2 DEF probesFor
<1> QED BY <1>2, <1>3

LEMMA WinnersStay ==
    ASSUME NEW x, NEW taken,
           \A i \in taken : probe'[candidate(x, i)].outcome = probe[candidate(x, i)].outcome
    PROVE  winners(x, taken)' = winners(x, taken)
BY DEF winners, matches

LEMMA SaidStays ==
    ASSUME NEW x, NEW i, Onward(candidate(x, i))
    PROVE  /\ done(candidate(x, i)) => /\ done(candidate(x, i))'
                                       /\ probe'[candidate(x, i)].outcome = probe[candidate(x, i)].outcome
           /\ \A outcome : said(x, i, outcome) => said(x, i, outcome)'
<1>1. PICK q : q = candidate(x, i)
  OBVIOUS
<1>2. candidate(x, i)' = candidate(x, i)
  BY DEF candidate
<1>3. done(q) => done(q)' /\ probe'[q].outcome = probe[q].outcome
  BY <1>1 DEF Onward
<1> QED BY <1>1, <1>2, <1>3 DEF said, done

LEMMA SearchStays ==
    ASSUME TypeOK, NEW x \in Target, SearchOK(x), scenario' = scenario,
           resolver'[x] = resolver[x], \A q \in Probe : Onward(q),
           searching(x) => route'[x[1]].phase = "resolving",
           \A n \in Nat : n >= route'[x[1]].next => n >= route[x[1]].next
    PROVE  SearchOK(x)'
<1>1. PICK s \in ResolverState : s = resolver[x] /\ s = resolver'[x]
  BY Typed
<1>2. PICK taken \in SUBSET (1..NumCandidates) : taken = s.taken
  BY DEF ResolverState
<1>3. x[1] \in Request /\ x[2] \in Nat /\ NumCandidates \in Nat
  BY TargetParts, Numbers
<1>4. kind(x[1])' = kind(x[1]) /\ poolWidth(x[1])' = poolWidth(x[1]) /\ unread(x)' = unread(x)
      /\ searching(x)' = searching(x)
      /\ probesFor(x[1], kind(x[1]))' = probesFor(x[1], kind(x[1]))
  BY <1>1 DEF kind, poolWidth, unread, searching, probesFor
<1>5. ASSUME s.phase # "idle", NEW i \in 0..NumCandidates
      PROVE  candidate(x, i) \in Probe /\ Onward(candidate(x, i))
  BY <1>1, <1>3, <1>5, Kinds DEF SearchOK
<1>6. ASSUME s.phase # "idle", NEW i \in 0..NumCandidates
      PROVE  /\ done(candidate(x, i)) =>
                    /\ done(candidate(x, i))'
                    /\ probe'[candidate(x, i)].outcome = probe[candidate(x, i)].outcome
             /\ \A outcome : said(x, i, outcome) => said(x, i, outcome)'
  BY <1>5, <1>6, SaidStays
<1>7. taken \subseteq 0..NumCandidates /\ 0 \in 0..NumCandidates
  BY <1>3
<1>8. s.phase = "pool" => winners(x, taken)' = winners(x, taken)
  <2> SUFFICES ASSUME s.phase = "pool" PROVE winners(x, taken)' = winners(x, taken)
    OBVIOUS
  <2>1. \A i \in taken : done(candidate(x, i))
    BY <1>1, <1>2 DEF SearchOK
  <2> QED BY <1>6, <1>7, <2>1, WinnersStay
<1>9. /\ s.phase \in {"pool", "settling"} =>
           /\ done(candidate(x, 0))' /\ \A i \in taken : done(candidate(x, i))'
      /\ s.phase = "pool" =>
           /\ said(x, 0, "other")'
           /\ \A i \in taken : said(x, i, "match")' \/ said(x, i, "other")'
  BY <1>1, <1>2, <1>6, <1>7 DEF SearchOK
<1>10. s.phase \in {"settling", "ended"} =>
              /\ s.verdict \in 0..NumCandidates =>
                    /\ said(x, s.verdict, "match")'
                    /\ \A i \in 0..(s.verdict - 1) : said(x, i, "other")'
              /\ s.verdict = notFound => \A i \in 0..NumCandidates : said(x, i, "other")'
  <2>1. \A v \in 0..NumCandidates : 0..(v - 1) \subseteq 0..NumCandidates
    BY <1>3
  <2> QED BY <1>1, <1>6, <2>1 DEF SearchOK
<1>11. /\ s.phase # "idle" => \A i \in 0..NumCandidates : candidate(x, i) \in probesFor(x[1], kind(x[1]))
       /\ x[2] >= route'[x[1]].next => s.phase = "idle"
       /\ s.phase \in {"idle", "first"} => s.next = 1 /\ s.taken = {}
       /\ s.phase \in {"pool", "settling"} =>
              s.taken \subseteq 1..(s.next - 1) /\ Cardinality(unread(x)) <= poolWidth(x[1])
       /\ s.phase = "pool" => winners(x, taken) = {}
       /\ searching(x) => route'[x[1]].phase = "resolving"
  BY <1>1, <1>2, <1>3 DEF SearchOK
<1>12. candidate(x, 0)' = candidate(x, 0) /\ \A i : candidate(x, i)' = candidate(x, i)
  BY DEF candidate
<1> QED BY <1>1, <1>2, <1>4, <1>8, <1>9, <1>10, <1>11, <1>12 DEF SearchOK

LEMMA PlaceStays ==
    ASSUME TypeOK, NEW p \in Probe, PlaceOK(p), scenario' = scenario,
           asked(p)' <=> asked(p), underway(p)' => underway(p),
           probe'[p].call # "none" => probe'[p].at \in {"acquiring", "done"},
           resolver'[<<p[1], p[2]>>] = resolver[<<p[1], p[2]>>],
           route'[p[1]].phase = route[p[1]].phase
    PROVE  PlaceOK(p)'
<1>1. kind(p[1])' = kind(p[1]) /\ unread(<<p[1], p[2]>>)' = unread(<<p[1], p[2]>>)
      /\ probesFor(p[1], kind(p[1]))' = probesFor(p[1], kind(p[1]))
  BY DEF kind, unread, probesFor
<1> QED BY <1>1 DEF PlaceOK, transcriptOf, warmUpOf

LEMMA RouteStays ==
    ASSUME TypeOK, NEW r \in Request, RouteOK(r), scenario' = scenario, route'[r] = route[r],
           \A q \in Probe : q[1] = r => (asked(q)' <=> asked(q)),
           \A x \in Target : x[1] = r => resolver'[x] = resolver[x]
    PROVE  RouteOK(r)'
<1>1. askedOf(r)' = askedOf(r)
  BY DEF askedOf, probesOf
<1>2. running(r)' = running(r)
  BY DEF running
<1>3. kind(r)' = kind(r) /\ unitsFor(r)' = unitsFor(r)
  BY DEF kind, unitsFor
<1> QED BY <1>1, <1>2, <1>3 DEF RouteOK, NoRoute

LEMMA PortalStays ==
    ASSUME TypeOK, NEW p \in Probe, \A q \in Probe : PlaceOK(q), \A x \in Target : SearchOK(x),
           \A r \in Request : RouteOK(r), PortalStep(p)
    PROVE  /\ \A q \in Probe : PlaceOK(q)'
           /\ \A x \in Target : SearchOK(x)'
           /\ \A r \in Request : RouteOK(r)'
<1>1. scenario' = scenario /\ route' = route /\ resolver' = resolver /\ ProbeStep(p)
  BY DEF PortalStep, lookupVars
<1>2. PICK v : becomes(p, v) /\ advances(probe[p], v)
  BY <1>1, PortalMoves
<1>3. probe'[p] = v /\ \A q \in Probe \ {p} : probe'[q] = probe[q]
  BY <1>2, Typed DEF becomes
<1>4. ASSUME NEW q \in Probe
      PROVE  /\ Onward(q) /\ (asked(q)' <=> asked(q)) /\ (underway(q)' => underway(q))
             /\ probe'[q].call # "none" => probe'[q].at \in {"acquiring", "done"}
  <2>1. CASE q = p
    BY <1>2, <1>3, <2>1 DEF advances, Onward, asked, done, underway
  <2>2. CASE q # p
    <3>1. probe'[q] = probe[q]
      BY <1>3, <2>2
    <3> QED BY <3>1 DEF Onward, asked, done, underway, PlaceOK
  <2> QED BY <2>1, <2>2
<1>5. \A q \in Probe : PlaceOK(q)'
  BY <1>1, <1>4, PlaceStays
<1>6. \A x \in Target : SearchOK(x)'
  <2> SUFFICES ASSUME NEW x \in Target PROVE SearchOK(x)'
    OBVIOUS
  <2>1. searching(x) => route'[x[1]].phase = "resolving"
    BY <1>1 DEF SearchOK
  <2> QED BY <1>1, <1>4, <2>1, SearchStays
<1>7. \A r \in Request : RouteOK(r)'
  BY <1>1, <1>4, RouteStays
<1> QED BY <1>5, <1>6, <1>7

-----------------------------------------------------------------------------
(* Counting requests.                                                      *)

\* Requests of one route are told apart by target and candidate.
LEMMA CountPairs ==
    ASSUME NEW r, NEW A, NEW B, IsFiniteSet(A), IsFiniteSet(B), NEW S,
           \A p \in S : p = <<r, p[2], p[3]>> /\ p[2] \in A /\ p[3] \in B
    PROVE  IsFiniteSet(S) /\ Cardinality(S) <= Cardinality(A) * Cardinality(B)
<1> DEFINE place == [p \in S |-> <<p[2], p[3]>>]
<1>1. \A p, q \in S : p[2] = q[2] /\ p[3] = q[3] => p = q
  BY Zenon
<1>2. place \in [S -> A \X B]
  OBVIOUS
<1>3. \A p, q \in S : place[p] = place[q] => p = q
  BY <1>1
<1>4. place \in Injection(S, A \X B)
  BY <1>2, <1>3 DEF Injection, IsInjective
<1>5. IsFiniteSet(A \X B) /\ Cardinality(A \X B) = Cardinality(A) * Cardinality(B)
  BY FS_Product
<1> HIDE DEF place
<1> QED BY <1>4, <1>5, FS_Injection

LEMMA AskedFinite ==
    ASSUME NEW r \in Request
    PROVE  IsFiniteSet(probesOf(r)) /\ IsFiniteSet(askedOf(r))
<1>1. /\ IsFiniteSet(1..NumTargets) /\ IsFiniteSet(0..MaxProbes)
  BY Numbers, FS_Interval
<1>2. \A p \in probesOf(r) : /\ p = <<r, p[2], p[3]>>
                             /\ p[2] \in 1..NumTargets /\ p[3] \in 0..MaxProbes
  BY ProbeParts DEF probesOf
<1>3. IsFiniteSet(probesOf(r))
  BY <1>1, <1>2, CountPairs
<1>4. askedOf(r) \subseteq probesOf(r)
  BY DEF askedOf
<1> QED BY <1>3, <1>4, FS_Subset

\* A route never asks for more than it reserves.
LEMMA AskedWithinUnits ==
    ASSUME TypeOK, NEW r \in Request, \A p \in Probe : PlaceOK(p),
           kind(r) \in {"code", "id", "bulk"}
    PROVE  Cardinality(askedOf(r)) <= unitsFor(r)
<1>1. /\ NumTargets \in Nat /\ MaxProbes \in Nat /\ NumCandidates \in Nat
      /\ MaxProbes = NumCandidates + 1
  BY Numbers
<1>2. \A p \in askedOf(r) : p \in probesFor(r, kind(r)) /\ p = <<r, p[2], p[3]>>
  BY ProbeParts DEF askedOf, probesOf, PlaceOK
<1>3. CASE kind(r) = "code"
  <2>1. \A p \in askedOf(r) : p[2] \in {1} /\ p[3] \in 0..MaxProbes
    BY <1>2, <1>3 DEF probesFor
  <2>2. IsFiniteSet({1}) /\ Cardinality({1}) = 1
    BY FS_Singleton
  <2>3. IsFiniteSet(0..MaxProbes) /\ Cardinality(0..MaxProbes) = MaxProbes + 1
    BY <1>1, FS_Interval
  <2>4. Cardinality(askedOf(r)) <= 1 * (MaxProbes + 1)
    BY <1>2, <2>1, <2>2, <2>3, CountPairs
  <2> QED BY <1>1, <1>3, <2>4 DEF unitsFor
<1>4. CASE kind(r) = "id"
  <2>1. \A p \in askedOf(r) : p[2] \in {1} /\ p[3] \in {MaxProbes}
    BY <1>1, <1>2, <1>4 DEF probesFor
  <2>2. IsFiniteSet({1}) /\ Cardinality({1}) = 1
    BY FS_Singleton
  <2>3. IsFiniteSet({MaxProbes}) /\ Cardinality({MaxProbes}) = 1
    BY FS_Singleton
  <2>4. Cardinality(askedOf(r)) <= 1 * 1
    BY <1>2, <2>1, <2>2, <2>3, CountPairs
  <2> QED BY <1>4, <2>4 DEF unitsFor
<1>5. CASE kind(r) = "bulk"
  <2>1. \A p \in askedOf(r) : p[2] \in 1..NumTargets /\ p[3] \in 0..NumCandidates
    BY <1>2, <1>5 DEF probesFor
  <2>2. IsFiniteSet(1..NumTargets) /\ Cardinality(1..NumTargets) = NumTargets
    BY <1>1, Numbers, FS_Interval
  <2>3. IsFiniteSet(0..NumCandidates) /\ Cardinality(0..NumCandidates) = MaxProbes
    BY <1>1, FS_Interval
  <2>4. Cardinality(askedOf(r)) <= NumTargets * MaxProbes
    BY <1>2, <2>1, <2>2, <2>3, CountPairs
  <2> QED BY <1>5, <2>4 DEF unitsFor
<1> QED BY <1>3, <1>4, <1>5

\* One request more.
LEMMA OneMoreAsked ==
    ASSUME TypeOK, NEW r \in Request, NEW t \in Probe, t[1] = r, Starting({t})
    PROVE  Cardinality(askedOf(r))' = Cardinality(askedOf(r)) + 1
<1>1. ~asked(t) /\ asked(t)'
  BY StartingTypes
<1>2. \A q \in Probe \ {t} : asked(q)' <=> asked(q)
  BY StartingOnward
<1>3. askedOf(r)' = askedOf(r) \cup {t} /\ t \notin askedOf(r)
  BY <1>1, <1>2 DEF askedOf, probesOf
<1>4. Cardinality(askedOf(r) \cup {t}) = Cardinality(askedOf(r)) + 1
  BY <1>3, AskedFinite, FS_AddElement
<1> QED BY <1>3, <1>4

\* A pool's worth of requests more.
LEMMA SomeMoreAsked ==
    ASSUME TypeOK, NEW x \in Target, NEW from \in Nat, NEW to \in Nat, from <= to,
           Starting({candidate(x, i) : i \in from..(to - 1)})
    PROVE  Cardinality(askedOf(x[1]))' = Cardinality(askedOf(x[1])) + (to - from)
<1> DEFINE S == {candidate(x, i) : i \in from..(to - 1)}
           f == [i \in from..(to - 1) |-> candidate(x, i)]
<1>1. x[1] \in Request /\ S \subseteq Probe
  BY TargetParts DEF Starting
<1>2. \A q \in Probe : q \in S => ~asked(q) /\ asked(q)'
  <2> HIDE DEF S
  <2> QED BY StartingTypes DEF S
<1>3. \A q \in Probe \ S : asked(q)' <=> asked(q)
  <2> HIDE DEF S
  <2> QED BY StartingOnward DEF S
<1>4. \A q \in S : q[1] = x[1]
  BY DEF candidate
<1>5. askedOf(x[1])' = askedOf(x[1]) \cup S /\ askedOf(x[1]) \cap S = {}
  <2> HIDE DEF S
  <2> QED BY <1>1, <1>2, <1>3, <1>4 DEF askedOf, probesOf
<1>6. IsFiniteSet(from..(to - 1)) /\ Cardinality(from..(to - 1)) = to - from
  <2>1. PICK last \in Int : last = to - 1
    OBVIOUS
  <2>2. IsFiniteSet(from..last) /\ Cardinality(from..last) = IF from > last THEN 0 ELSE last - from + 1
    BY <2>1, FS_Interval
  <2> QED BY <2>1, <2>2
<1>7. f \in Bijection(from..(to - 1), S)
  <2>1. \A i, j \in from..(to - 1) : f[i] = f[j] => i = j
    BY DEF candidate
  <2>2. f \in [from..(to - 1) -> S] /\ \A q \in S : \E i \in from..(to - 1) : f[i] = q
    OBVIOUS
  <2> QED BY <2>1, <2>2 DEF Bijection, Injection, Surjection, IsInjective
<1>8. IsFiniteSet(S) /\ Cardinality(S) = to - from
  <2> HIDE DEF S, f
  <2> QED BY <1>6, <1>7, FS_Bijection DEF ExistsBijection
<1>9. Cardinality(askedOf(x[1]) \cup S) = Cardinality(askedOf(x[1])) + (to - from)
  <2> HIDE DEF S
  <2>1. IsFiniteSet(askedOf(x[1])) /\ Cardinality(askedOf(x[1])) \in Nat
    BY <1>1, AskedFinite, FS_CardinalityType
  <2>2. Cardinality(askedOf(x[1]) \cap S) = 0
    BY <1>5, FS_EmptySet
  <2>3. Cardinality(askedOf(x[1]) \cup S)
            = Cardinality(askedOf(x[1])) + Cardinality(S) - Cardinality(askedOf(x[1]) \cap S)
    BY <1>8, <2>1, FS_Union
  <2> QED BY <1>8, <2>1, <2>2, <2>3
<1> HIDE DEF S
<1>10. Cardinality(askedOf(x[1]))' = Cardinality(askedOf(x[1])')
  OBVIOUS
<1> QED BY <1>5, <1>9, <1>10

-----------------------------------------------------------------------------
(* The steps of a route, its resolvers left alone.                         *)

\* The route turns to its next phase, nothing of it being under way.
Turned(r, S) ==
    /\ \A q \in probesOf(r) : ~underway(q)
    /\ \A x \in Target : x[1] = r => ~searching(x)
    /\ route'[r].phase # "idle"
    /\ route'[r].phase = "resolving" => S = {} /\ \A q \in probesOf(r) : ~asked(q)
    /\ \A q \in S :
          /\ q \in probesFor(r, kind(r))
          /\ \/ route'[r].phase = "fetching" /\ q = transcriptOf(r)
             \/ route'[r].phase = "warming" /\ q = warmUpOf(r)

Moved(r, S) ==
    /\ scenario' = scenario /\ resolver' = resolver /\ Starting(S)
    /\ \A s \in Request \ {r} : route'[s] = route[s]
    /\ route'[r].next = route[r].next
    /\ (S = {} /\ route'[r].phase = route[r].phase) \/ Turned(r, S)

LEMMA MovedStays ==
    ASSUME TypeOK, \A q \in Probe : PlaceOK(q), \A x \in Target : SearchOK(x),
           \A s \in Request : RouteOK(s), NEW r \in Request, NEW S, Moved(r, S)
    PROVE  /\ \A q \in Probe : PlaceOK(q)'
           /\ \A x \in Target : SearchOK(x)'
           /\ \A s \in Request \ {r} : RouteOK(s)'
<1>1. /\ scenario' = scenario /\ resolver' = resolver /\ Starting(S)
      /\ \A s \in Request \ {r} : route'[s] = route[s]
      /\ route'[r].next = route[r].next
  BY DEF Moved
<1>2. \A q \in S : q[1] = r
  BY Kinds DEF Moved, Turned
<1>3. \A q \in Probe : /\ Onward(q)
                       /\ q \notin S => (asked(q)' <=> asked(q)) /\ (underway(q)' <=> underway(q))
  BY <1>1, StartingOnward
<1>4. \A q \in Probe : probe'[q].call # "none" => probe'[q].at \in {"acquiring", "done"}
  BY <1>1, BegunFields DEF Starting, Begun, Kept, PlaceOK
<1>5. \A q \in Probe : PlaceOK(q)'
  <2> SUFFICES ASSUME NEW q \in Probe PROVE PlaceOK(q)'
    OBVIOUS
  <2>1. CASE q \notin S /\ route'[q[1]].phase = route[q[1]].phase
    BY <1>1, <1>3, <1>4, <2>1, PlaceStays
  <2>2. CASE q[1] = r /\ Turned(r, S)
    <3>1. q \in probesOf(r) /\ r = q[1]
      BY <2>2 DEF probesOf
    <3>2. underway(q)' => q \in S
      BY <1>3, <2>2, <3>1 DEF Turned
    <3>3. asked(q)' => q \in probesFor(r, kind(r))
      BY <1>3, <2>2, <3>1 DEF Turned, PlaceOK
    <3>4. ~ (asked(q)' /\ route'[r].phase = "resolving")
      BY <1>3, <2>2, <3>1 DEF Turned
    <3>5. probesFor(r, kind(r))' = probesFor(r, kind(r))
      BY <1>1 DEF probesFor, kind
    <3>6. underway(q)' => \/ route'[r].phase = "fetching" /\ q = transcriptOf(r)
                          \/ route'[r].phase = "warming" /\ q = warmUpOf(r)
      BY <2>2, <3>2 DEF Turned
    <3>7. route'[r].phase # "idle"
      BY <2>2 DEF Turned
    <3>8. transcriptOf(r)' = transcriptOf(r) /\ warmUpOf(r)' = warmUpOf(r)
      BY DEF transcriptOf, warmUpOf
    <3> QED BY <1>4, <3>1, <3>3, <3>4, <3>5, <3>6, <3>7, <3>8 DEF PlaceOK
  <2>3. CASE q[1] # r
    <3>1. q[1] \in Request
      BY ProbeParts
    <3> QED BY <1>1, <1>2, <1>3, <1>4, <2>3, <3>1, PlaceStays
  <2> QED BY <2>1, <2>2, <2>3 DEF Moved
<1>6. \A x \in Target : SearchOK(x)'
  <2> SUFFICES ASSUME NEW x \in Target PROVE SearchOK(x)'
    OBVIOUS
  <2>1. x[1] \in Request /\ route'[x[1]].next = route[x[1]].next
    BY <1>1, TargetParts
  <2>2. searching(x) => route'[x[1]].phase = "resolving"
    <3>1. searching(x) => route[x[1]].phase = "resolving"
      BY DEF SearchOK
    <3>2. CASE x[1] = r /\ Turned(r, S)
      BY <3>2 DEF Turned
    <3>3. CASE x[1] # r \/ route'[r].phase = route[r].phase
      BY <1>1, <2>1, <3>1, <3>3
    <3> QED BY <3>2, <3>3 DEF Moved
  <2> QED BY <1>1, <1>3, <2>1, <2>2, SearchStays
<1>7. \A s \in Request \ {r} : RouteOK(s)'
  <2> SUFFICES ASSUME NEW s \in Request \ {r} PROVE RouteOK(s)'
    OBVIOUS
  <2>1. \A q \in Probe : q[1] = s => (asked(q)' <=> asked(q))
    BY <1>2, <1>3
  <2> QED BY <1>1, <2>1, RouteStays
<1> QED BY <1>5, <1>6, <1>7

\* When nothing of a route is under way.
LEMMA Quiet ==
    ASSUME TypeOK, \A q \in Probe : PlaceOK(q), \A x \in Target : SearchOK(x),
           NEW r \in Request,
           \/ route[r].phase \in {"idle", "details", "answered", "failed"}
           \/ route[r].phase = "fetching" /\ done(transcriptOf(r))
           \/ route[r].phase = "warming" /\ done(warmUpOf(r))
           \/ route[r].phase = "resolving" /\ running(r) = {}
    PROVE  /\ \A q \in probesOf(r) : ~underway(q)
           /\ \A x \in Target : x[1] = r => ~searching(x)
           /\ route[r].phase = "idle" => \A q \in probesOf(r) : ~asked(q)
<1>1. ASSUME NEW x \in Target, x[1] = r PROVE ~searching(x)
  <2>1. searching(x) => route[r].phase = "resolving" /\ x \in running(r)
    BY <1>1 DEF SearchOK, searching, running
  <2> QED BY <2>1
<1>2. ASSUME NEW q \in probesOf(r) PROVE ~underway(q)
  <2>1. q \in Probe /\ q[1] = r /\ <<q[1], q[2]>> \in Target /\ <<q[1], q[2]>>[1] = r
    BY ProbeParts DEF probesOf
  <2>2. ~searching(<<q[1], q[2]>>)
    BY <1>1, <2>1
  <2>3. underway(q) => \/ route[r].phase = "fetching" /\ q = transcriptOf(r)
                       \/ route[r].phase = "warming" /\ q = warmUpOf(r)
    BY <2>1, <2>2 DEF PlaceOK, searching
  <2> QED BY <2>3 DEF done, underway
<1>3. ASSUME NEW q \in probesOf(r), route[r].phase = "idle" PROVE ~asked(q)
  BY <1>3 DEF probesOf, PlaceOK
<1> QED BY <1>1, <1>2, <1>3

LEMMA NothingMoreAsked ==
    ASSUME NEW r, Starting({})
    PROVE  askedOf(r)' = askedOf(r) /\ Cardinality(askedOf(r))' = Cardinality(askedOf(r))
<1>1. \A q \in Probe : asked(q)' <=> asked(q)
  BY StartingOnward
<1> QED BY <1>1 DEF askedOf, probesOf

\* What a step of a route keeps, and what it may do.
RouteStep(r) ==
    /\ route' \in [Request -> RouteState]
    /\ \E S : Moved(r, S)
    /\ RouteOK(r)'

LEMMA RouteStepKeeps ==
    ASSUME TypeOK, LookupOK, NEW r \in Request, RouteStep(r)
    PROVE  LookupOK'
<1>1. PICK S : Moved(r, S)
  BY DEF RouteStep
<1>2. /\ \A q \in Probe : PlaceOK(q)'
      /\ \A x \in Target : SearchOK(x)'
      /\ \A s \in Request \ {r} : RouteOK(s)'
  BY <1>1, MovedStays DEF LookupOK
<1>3. RouteOK(r)'
  BY DEF RouteStep
<1> QED BY <1>2, <1>3 DEF LookupOK

\* Only the phase of the route changes, nothing being under way.
LEMMA PhaseTurns ==
    ASSUME TypeOK, LookupOK, NEW r \in Request, scenario' = scenario, resolver' = resolver,
           Starting({}), NEW phase, finish(r, phase),
           \/ route[r].phase = "fetching" /\ done(transcriptOf(r))
           \/ route[r].phase = "warming" /\ done(warmUpOf(r))
           \/ route[r].phase = "resolving" /\ running(r) = {}
           \/ route[r].phase = "details"
           \/ route[r].phase = "idle",
           \/ phase \in {"answered", "failed"}
           \/ phase = "details" /\ kind(r) \in {"batch", "detail"}
    PROVE  RouteStep(r)
<1>1. PICK s \in RouteState : s = route[r]
  BY Typed
<1>2. phase \in {"answered", "failed", "details"}
  OBVIOUS
<1>3. PICK v : v = [s EXCEPT !.phase = phase]
  OBVIOUS
<1>4. /\ v \in RouteState /\ v.phase = phase /\ v.next = s.next /\ v.used = s.used
      /\ v.reserved = s.reserved
  BY <1>2, <1>3 DEF RouteState
<1>5. route \in [Request -> RouteState] /\ route' = [route EXCEPT ![r] = v]
  BY <1>1, <1>3, Typed DEF finish
<1>6. /\ route'[r] = v /\ route' \in [Request -> RouteState]
      /\ \A o \in Request \ {r} : route'[o] = route[o]
  BY <1>4, <1>5
<1>7. /\ \A q \in probesOf(r) : ~underway(q)
      /\ \A x \in Target : x[1] = r => ~searching(x)
  BY Quiet DEF LookupOK
<1>8. Turned(r, {})
  BY <1>2, <1>4, <1>6, <1>7 DEF Turned
<1>9. Moved(r, {})
  BY <1>1, <1>4, <1>6, <1>8 DEF Moved
<1>10. RouteOK(r)'
  <2>1. askedOf(r)' = askedOf(r) /\ Cardinality(askedOf(r))' = Cardinality(askedOf(r))
    BY NothingMoreAsked
  <2>2. running(r)' = running(r) /\ kind(r)' = kind(r) /\ unitsFor(r)' = unitsFor(r)
    BY DEF running, kind, unitsFor
  <2>3. RouteOK(r)
    BY DEF LookupOK
  <2> QED BY <1>1, <1>2, <1>4, <1>6, <2>1, <2>2, <2>3 DEF RouteOK
<1> QED BY <1>6, <1>9, <1>10 DEF RouteStep

LEMMA CancelMoves ==
    ASSUME TypeOK, LookupOK, NEW r \in Request, scenario' = scenario, resolver' = resolver,
           cancelRoute(r), route[r].phase # "idle"
    PROVE  RouteStep(r) /\ Starting({})
<1>1. PICK s \in RouteState : s = route[r]
  BY Typed
<1>2. PICK v : v = [s EXCEPT !.cancelled = TRUE]
  OBVIOUS
<1>3. /\ v \in RouteState /\ v.phase = s.phase /\ v.next = s.next /\ v.used = s.used
      /\ v.reserved = s.reserved
  BY <1>2 DEF RouteState
<1>4. route \in [Request -> RouteState] /\ route' = [route EXCEPT ![r] = v]
  BY <1>1, <1>2, Typed DEF cancelRoute
<1>5. /\ route'[r] = v /\ route' \in [Request -> RouteState]
      /\ \A o \in Request \ {r} : route'[o] = route[o]
  BY <1>3, <1>4
<1>6. Starting({})
  BY CutOffKeeps DEF cancelRoute
<1>7. Moved(r, {})
  BY <1>1, <1>3, <1>5, <1>6 DEF Moved
<1>8. RouteOK(r)'
  <2>1. askedOf(r)' = askedOf(r) /\ Cardinality(askedOf(r))' = Cardinality(askedOf(r))
    BY <1>6, NothingMoreAsked
  <2>2. running(r)' = running(r) /\ kind(r)' = kind(r) /\ unitsFor(r)' = unitsFor(r)
    BY DEF running, kind, unitsFor
  <2>3. RouteOK(r)
    BY DEF LookupOK
  <2> QED BY <1>1, <1>3, <1>5, <2>1, <2>2, <2>3 DEF RouteOK
<1> QED BY <1>5, <1>6, <1>7, <1>8 DEF RouteStep

\* A single request begins: the transcript, or the warm-up.
LEMMA OneRequestMoves ==
    ASSUME TypeOK, LookupOK, NEW r \in Request, scenario' = scenario, resolver' = resolver,
           NEW t \in probesFor(r, kind(r)), NEW b \in BOOLEAN, ~asked(t),
           probe' = [probe EXCEPT ![t] = begun(b)],
           NEW v \in RouteState, route' = [route EXCEPT ![r] = v],
           v.next = route[r].next,
           \/ v.phase = "fetching" /\ t = transcriptOf(r) /\ kind(r) \in {"code", "id"}
           \/ v.phase = "warming" /\ t = warmUpOf(r) /\ kind(r) = "batch",
           route[r].phase = "idle" \/ (route[r].phase = "resolving" /\ running(r) = {}),
           kind(r) # "batch" => v.used = route[r].used + 1 /\ v.reserved = unitsFor(r),
           kind(r) = "batch" => v.used = 0
    PROVE  RouteStep(r) /\ Starting({t})
<1>1. t \in Probe /\ t[1] = r
  BY Kinds
<1>2. Starting({t})
  BY <1>1, OneBegins
<1>3. /\ route'[r] = v /\ route' \in [Request -> RouteState]
      /\ \A o \in Request \ {r} : route'[o] = route[o]
  BY Typed
<1>4. /\ \A q \in probesOf(r) : ~underway(q)
      /\ \A x \in Target : x[1] = r => ~searching(x)
  BY Quiet DEF LookupOK
<1>5. Turned(r, {t})
  BY <1>3, <1>4 DEF Turned
<1>6. Moved(r, {t})
  BY <1>2, <1>3, <1>5 DEF Moved
<1>7. RouteOK(r)'
  <2>1. Cardinality(askedOf(r))' = Cardinality(askedOf(r)) + 1
    BY <1>1, <1>2, OneMoreAsked
  <2>2. running(r)' = running(r) /\ kind(r)' = kind(r) /\ unitsFor(r)' = unitsFor(r)
    BY DEF running, kind, unitsFor
  <2>3. RouteOK(r)
    BY DEF LookupOK
  <2> QED BY <1>3, <2>1, <2>2, <2>3 DEF RouteOK
<1> QED BY <1>2, <1>3, <1>6, <1>7 DEF RouteStep

\* What a step of a route, of a resolver or of a row leaves of the leases.
Calm ==
    /\ now' = now /\ leases' = leases /\ scenario' = scenario
    /\ faults' \in Nat /\ faults' <= faults

LEMMA FaultsFall ==
    ASSUME TypeOK
    PROVE  /\ fault => faults' \in Nat /\ faults' <= faults
           /\ UNCHANGED faults => faults' \in Nat /\ faults' <= faults
BY Typed DEF fault

LEMMA ReserveMoves ==
    ASSUME TypeOK, LookupOK, NEW r \in Request, Reserve(r)
    PROVE  /\ RouteStep(r) /\ Calm /\ coordinatorStep
           /\ resolver' = resolver /\ cancels' = cancels
<1>0. /\ scenario' = scenario /\ resolver' = resolver /\ cancels' = cancels
      /\ route[r].phase = "idle" /\ kind(r) \in {"code", "id", "bulk"}
      /\ faults \in Nat /\ now \in 0..MaxTime
  BY Typed DEF Reserve
<1>1. PICK s \in RouteState : s = route[r]
  BY Typed
<1>2. /\ s.phase = "idle" /\ s.used = 0 /\ s.next = 1 /\ s.reserved = 0
      /\ Cardinality(askedOf(r)) = 0
  BY <1>0, <1>1 DEF LookupOK, RouteOK, NoRoute
<1>3. unitsFor(r) \in Nat /\ unitsFor(r) >= 1
  BY <1>0, UnitsType
<1>4. ASSUME Charge(unitsFor(r)) PROVE unitsFor(r) \in 0..BudgetLimit
  <2>1. PICK c : c = currentWindow(window, WindowTime)
    OBVIOUS
  <2>2. c.count \in Nat /\ c.count + unitsFor(r) <= BudgetLimit
    BY <1>4, <2>1, Typed DEF Charge, affordable, currentWindow
  <2> QED BY <1>3, <2>2, Numbers
<1>5. PICK entered : entered = IF kind(r) = "id" THEN "fetching" ELSE "resolving"
  OBVIOUS
<1>6. PICK spent0 : spent0 = IF kind(r) = "id" THEN 1 ELSE 0
  OBVIOUS
<1>7. route \in [Request -> RouteState]
  BY Typed
<1>8. CASE Charge(unitsFor(r)) /\ UNCHANGED faults
           /\ route' = [route EXCEPT ![r].phase = entered, ![r].reserved = unitsFor(r),
                                     ![r].used = spent0, ![r].since = now]
           /\ probe' = IF kind(r) = "id"
                       THEN [probe EXCEPT ![transcriptOf(r)] = begun(FALSE)] ELSE probe
  <2>1. PICK u \in 0..BudgetLimit : u = unitsFor(r)
    BY <1>4, <1>8
  <2>2. PICK v : v = [s EXCEPT !.phase = entered, !.reserved = u, !.used = spent0, !.since = now]
    OBVIOUS
  <2>3. /\ v \in RouteState /\ v.phase = entered /\ v.reserved = u /\ v.used = spent0
        /\ v.next = s.next
    BY <1>0, <1>5, <1>6, <2>2 DEF RouteState
  <2>4. route' = [route EXCEPT ![r] = v]
    BY <1>1, <1>7, <1>8, <2>1, <2>2
  <2>5. Calm /\ coordinatorStep
    <3>1. Charge(unitsFor(r)) /\ UNCHANGED faults
      BY <1>8
    <3>2. Calm
      BY <1>0, <3>1, FaultsFall DEF Calm, Charge
    <3>3. coordinatorStep
      BY <1>0, <3>1 DEF coordinatorStep
    <3> QED BY <3>2, <3>3
  <2>6. CASE kind(r) = "id"
    <3>1. PICK b \in BOOLEAN : b = FALSE
      OBVIOUS
    <3>2. transcriptOf(r) \in probesFor(r, kind(r))
      BY <2>6 DEF transcriptOf, probesFor
    <3>3. ~asked(transcriptOf(r))
      BY <1>0, <3>2, Quiet, Kinds DEF LookupOK, probesOf
    <3>4. probe' = [probe EXCEPT ![transcriptOf(r)] = begun(b)]
      BY <1>8, <2>6, <3>1
    <3>5. v.phase = "fetching" /\ v.used = route[r].used + 1 /\ v.next = route[r].next
      BY <1>1, <1>2, <1>5, <1>6, <2>3, <2>6
    <3>6. RouteStep(r)
      BY <1>0, <1>3, <2>1, <2>3, <2>4, <2>6, <3>2, <3>3, <3>4, <3>5, OneRequestMoves
    <3> QED BY <1>0, <2>5, <3>6
  <2>7. CASE kind(r) # "id"
    <3>1. probe' = probe /\ v.phase = "resolving" /\ v.used = 0
      BY <1>5, <1>6, <1>8, <2>3, <2>7
    <3>2. Starting({})
      BY <3>1, KeptAll
    <3>3. /\ route'[r] = v /\ route' \in [Request -> RouteState]
          /\ \A o \in Request \ {r} : route'[o] = route[o]
      BY <1>7, <2>3, <2>4
    <3>4. /\ \A q \in probesOf(r) : ~underway(q) /\ ~asked(q)
          /\ \A x \in Target : x[1] = r => ~searching(x)
      BY <1>0, Quiet DEF LookupOK
    <3>5. Moved(r, {})
      BY <1>0, <1>1, <2>3, <3>1, <3>2, <3>3, <3>4 DEF Moved, Turned
    <3>6. RouteOK(r)'
      <4>1. askedOf(r)' = askedOf(r) /\ Cardinality(askedOf(r))' = Cardinality(askedOf(r))
        BY <3>2, NothingMoreAsked
      <4>2. running(r)' = running(r) /\ kind(r)' = kind(r) /\ unitsFor(r)' = unitsFor(r)
        BY <1>0 DEF running, kind, unitsFor
      <4>3. RouteOK(r)
        BY DEF LookupOK
      <4> QED BY <1>0, <1>1, <1>2, <2>1, <2>3, <2>7, <3>1, <3>3, <4>1, <4>2, <4>3 DEF RouteOK
    <3> QED BY <1>0, <2>5, <3>3, <3>5, <3>6 DEF RouteStep
  <2> QED BY <2>6, <2>7
<1>9. CASE /\ route' = [route EXCEPT ![r].phase = "failed"]
           /\ UNCHANGED probe
           /\ UNCHANGED faults \/ fault
           /\ Charge(unitsFor(r)) \/ UNCHANGED coordinatorVars
  <2>1. Starting({})
    BY <1>9, KeptAll
  <2>2. PICK phase : phase = "failed"
    OBVIOUS
  <2>3. finish(r, phase)
    BY <1>9, <2>2 DEF finish
  <2>4. RouteStep(r)
    BY <1>0, <2>1, <2>2, <2>3, PhaseTurns
  <2>5. Calm /\ coordinatorStep
    BY <1>0, <1>9, FaultsFall DEF Calm, coordinatorStep, Charge, coordinatorVars, budgetVars
  <2> QED BY <1>0, <2>4, <2>5
<1> QED BY <1>5, <1>6, <1>8, <1>9 DEF Reserve, probeVars

LEMMA ResolvingEndsMoves ==
    ASSUME TypeOK, LookupOK, NEW r \in Request, ResolvingEnds(r)
    PROVE  /\ RouteStep(r) /\ Calm /\ coordinatorStep
           /\ resolver' = resolver /\ cancels' = cancels
<1>0. /\ scenario' = scenario /\ resolver' = resolver /\ cancels' = cancels
      /\ route[r].phase = "resolving" /\ running(r) = {}
      /\ Calm /\ coordinatorStep
  BY FaultsFall DEF ResolvingEnds, Calm, coordinatorStep, coordinatorVars, budgetVars
<1>1. CASE UNCHANGED probe /\ \E phase \in {"answered", "failed"} : finish(r, phase)
  <2>1. Starting({})
    BY <1>1, KeptAll
  <2> QED BY <1>0, <1>1, <2>1, PhaseTurns
<1>2. CASE /\ kind(r) = "code"
           /\ route' = [route EXCEPT ![r].phase = "fetching", ![r].used = @ + 1]
           /\ probe' = [probe EXCEPT ![transcriptOf(r)] = begun(route[r].cancelled)]
  <2>1. PICK s \in RouteState : s = route[r]
    BY Typed
  <2>2. PICK n : n = s.used + 1
    OBVIOUS
  <2>3. s.used \in Nat /\ s.cancelled \in BOOLEAN /\ n \in Nat
    BY <2>2 DEF RouteState
  <2>4. PICK v : v = [s EXCEPT !.phase = "fetching", !.used = n]
    OBVIOUS
  <2>5. /\ v \in RouteState /\ v.phase = "fetching" /\ v.used = n /\ v.next = s.next
        /\ v.reserved = s.reserved
    BY <2>3, <2>4 DEF RouteState
  <2>6. route \in [Request -> RouteState]
    BY Typed
  <2>7. route' = [route EXCEPT ![r] = v]
    BY <1>2, <2>1, <2>2, <2>4, <2>6
  <2>8. PICK b \in BOOLEAN : b = route[r].cancelled
    BY <2>1, <2>3
  <2>9. transcriptOf(r) \in probesFor(r, kind(r)) /\ MaxProbes \in Nat
    BY <1>2, Numbers DEF transcriptOf, probesFor
  <2>10. ~asked(transcriptOf(r))
    <3>1. transcriptOf(r) \in Probe
      BY <2>9, Kinds
    <3>2. transcriptOf(r)[1] = r /\ transcriptOf(r)[2] = 1 /\ transcriptOf(r)[3] = MaxProbes
      BY DEF transcriptOf
    <3>3. <<r, 1>> \in Target
      BY <3>1, <3>2, ProbeParts
    <3>4. resolver[<<r, 1>>].next \in 1..MaxProbes
      BY <3>3, Typed DEF ResolverState
    <3> QED BY <1>0, <2>9, <3>1, <3>2, <3>4 DEF LookupOK, PlaceOK
  <2>11. v.reserved = unitsFor(r)
    BY <1>0, <2>1, <2>5 DEF LookupOK, RouteOK
  <2>12. v.used = route[r].used + 1 /\ v.next = route[r].next
    BY <2>1, <2>2, <2>5
  <2>13. RouteStep(r)
    BY <1>0, <1>2, <2>5, <2>7, <2>8, <2>9, <2>10, <2>11, <2>12, OneRequestMoves
  <2> QED BY <1>0, <2>13
<1> QED BY <1>1, <1>2 DEF ResolvingEnds

LEMMA SeqElement ==
    ASSUME NEW S, NEW q \in Seq(S), NEW k \in 1..Len(q)
    PROVE  q[k] \in S
OBVIOUS

LEMMA CancelledMoves ==
    ASSUME TypeOK, LookupOK, NEW r \in Request, CancelRequest(r) \/ DeadlinePasses(r)
    PROVE  /\ RouteStep(r) /\ Calm /\ coordinatorStep
           /\ resolver' = resolver /\ cancels' \in Nat
<1>1. /\ scenario' = scenario /\ resolver' = resolver /\ cancelRoute(r)
      /\ route[r].phase # "idle" /\ Calm /\ coordinatorStep
  BY FaultsFall DEF CancelRequest, DeadlinePasses, deadlineDue, Calm, coordinatorStep,
     coordinatorVars, budgetVars
<1>2. cancels' \in Nat
  BY Typed DEF CancelRequest, DeadlinePasses
<1>3. RouteStep(r)
  BY <1>1, CancelMoves
<1> QED BY <1>1, <1>2, <1>3

LEMMA TranscriptMoves ==
    ASSUME TypeOK, LookupOK, NEW r \in Request, TranscriptEnds(r)
    PROVE  /\ RouteStep(r) /\ Calm /\ coordinatorStep
           /\ resolver' = resolver /\ cancels' = cancels
<1>1. /\ scenario' = scenario /\ resolver' = resolver /\ cancels' = cancels
      /\ route[r].phase = "fetching" /\ done(transcriptOf(r)) /\ probe' = probe
      /\ \E phase \in {"answered", "failed"} : finish(r, phase)
  BY DEF TranscriptEnds
<1>2. Starting({})
  BY <1>1, KeptAll
<1>3. RouteStep(r)
  BY <1>1, <1>2, PhaseTurns
<1>4. permitsOf(r) \in SUBSET Permit
  BY DEF permitsOf
<1>5. UNCHANGED coordinatorVars \/ IssuePermits(permitsOf(r))
  BY DEF TranscriptEnds
<1>6. coordinatorStep
  BY <1>4, <1>5 DEF coordinatorStep
<1>7. now' = now /\ leases' = leases
  BY <1>5 DEF IssuePermits, coordinatorVars, budgetVars
<1>8. UNCHANGED faults \/ fault
  BY DEF TranscriptEnds
<1> QED BY <1>1, <1>3, <1>6, <1>7, <1>8, FaultsFall DEF Calm

LEMMA StartDetailsMoves ==
    ASSUME TypeOK, LookupOK, NEW r \in Request, StartDetails(r)
    PROVE  /\ RouteStep(r) /\ Calm /\ coordinatorStep
           /\ resolver' = resolver /\ cancels' = cancels
<1>1. /\ scenario' = scenario /\ resolver' = resolver /\ cancels' = cancels
      /\ route[r].phase = "idle" /\ kind(r) \in {"detail", "batch"}
      /\ Calm /\ coordinatorStep
  BY FaultsFall DEF StartDetails, Calm, coordinatorStep, coordinatorVars, budgetVars
<1>2. CASE kind(r) = "detail"
  <2>1. probe' = probe /\ finish(r, "details")
    BY <1>2 DEF StartDetails
  <2>2. PICK phase : phase = "details"
    OBVIOUS
  <2>3. Starting({})
    BY <2>1, KeptAll
  <2>4. RouteStep(r)
    BY <1>1, <2>1, <2>2, <2>3, PhaseTurns
  <2> QED BY <1>1, <2>4
<1>3. CASE kind(r) = "batch"
  <2>1. PICK s \in RouteState : s = route[r]
    BY Typed
  <2>2. PICK v : v = [s EXCEPT !.phase = "warming"]
    OBVIOUS
  <2>3. v \in RouteState /\ v.phase = "warming" /\ v.used = s.used /\ v.next = s.next
    BY <2>2 DEF RouteState
  <2>4. route' = [route EXCEPT ![r] = v]
    BY <1>3, <2>1, <2>2, Typed DEF StartDetails, finish
  <2>5. PICK b \in BOOLEAN : b = FALSE
    OBVIOUS
  <2>6. probe' = [probe EXCEPT ![warmUpOf(r)] = begun(b)]
    BY <1>3, <2>5 DEF StartDetails
  <2>7. warmUpOf(r) \in probesFor(r, kind(r))
    BY <1>3 DEF warmUpOf, probesFor
  <2>8. ~asked(warmUpOf(r))
    BY <1>1, <2>7, Quiet, Kinds DEF LookupOK, probesOf
  <2>9. v.used = 0 /\ v.next = route[r].next
    BY <1>1, <2>1, <2>3 DEF LookupOK, RouteOK, NoRoute
  <2>10. RouteStep(r)
    BY <1>1, <1>3, <2>3, <2>4, <2>6, <2>7, <2>8, <2>9, OneRequestMoves
  <2> QED BY <1>1, <2>10
<1> QED BY <1>1, <1>2, <1>3

LEMMA WarmUpMoves ==
    ASSUME TypeOK, LookupOK, NEW r \in Request, WarmUpEnds(r)
    PROVE  /\ RouteStep(r) /\ Calm /\ coordinatorStep
           /\ resolver' = resolver /\ cancels' = cancels
<1>1. /\ scenario' = scenario /\ resolver' = resolver /\ cancels' = cancels
      /\ route[r].phase = "warming" /\ done(warmUpOf(r)) /\ probe' = probe
      /\ Calm /\ coordinatorStep
  BY FaultsFall DEF WarmUpEnds, Calm, coordinatorStep, coordinatorVars, budgetVars, probeVars
<1>2. Starting({})
  BY <1>1, KeptAll
<1>3. kind(r) = "batch"
  BY <1>1 DEF LookupOK, RouteOK
<1>4. \E phase \in {"answered", "failed", "details"} : finish(r, phase)
  BY DEF WarmUpEnds
<1>5. RouteStep(r)
  BY <1>1, <1>2, <1>3, <1>4, PhaseTurns
<1> QED BY <1>1, <1>5

\* A row ends its route, or leaves it to the next row.
LEMMA RowEndsMoves ==
    ASSUME TypeOK, LookupOK, NEW x \in Detail, NEW outcome, rowEnds(x, outcome),
           route[x[1]].phase = "details",
           scenario' = scenario, resolver' = resolver, probe' = probe
    PROVE  RouteStep(x[1])
<1>1. x[1] \in Request
  BY DetailAssumption
<1>2. Starting({})
  BY KeptAll
<1>3. CASE \E phase \in {"answered", "failed"} : finish(x[1], phase)
  BY <1>1, <1>2, <1>3, PhaseTurns
<1>4. CASE UNCHANGED route
  <2>1. Moved(x[1], {})
    BY <1>2, <1>4 DEF Moved
  <2>2. \A q \in Probe : asked(q)' <=> asked(q)
    BY <1>2, StartingOnward
  <2>3. RouteOK(x[1])'
    BY <1>1, <1>4, <2>2, RouteStays DEF LookupOK
  <2> QED BY <1>4, <2>1, <2>3, Typed DEF RouteStep
<1> QED BY <1>3, <1>4 DEF rowEnds

LEMMA PresentMoves ==
    ASSUME TypeOK, LookupOK, NEW x \in Detail, Present(x)
    PROVE  /\ RouteStep(x[1]) /\ Calm /\ coordinatorStep
           /\ resolver' = resolver /\ cancels' = cancels
<1>1. /\ scenario' = scenario /\ resolver' = resolver /\ cancels' = cancels
      /\ probe' = probe /\ turn(x) /\ route[x[1]].phase = "details"
  BY DEF Present, turn
<1>2. x[1] \in Request /\ x[2] \in 1..Len(Presented[x[1]])
      /\ presentedBy(x).permit \in Permit /\ presentedBy(x).bound \in BOOLEAN
  <2>1. x[1] \in Request /\ x[2] \in 1..MaxRows
    BY DetailAssumption
  <2>2. Presented[x[1]] \in Seq([permit: Permit, bound: BOOLEAN]) /\ Len(Presented[x[1]]) \in 1..MaxRows
    BY <2>1, DetailAssumption
  <2>3. x[2] <= Len(Presented[x[1]])
    <3>1. x[2] <= rows(x[1])
      BY DEF Present, turn
    <3> QED BY <2>1, <2>2, <3>1 DEF rows, MaxRows
  <2>4. x[2] \in 1..Len(Presented[x[1]])
    BY <2>1, <2>2, <2>3 DEF MaxRows
  <2>5. Presented[x[1]][x[2]] \in [permit: Permit, bound: BOOLEAN]
    <3>1. PICK q \in Seq([permit: Permit, bound: BOOLEAN]) : q = Presented[x[1]]
      BY <2>2
    <3>2. \A k \in 1..Len(q) : q[k] \in [permit: Permit, bound: BOOLEAN]
      BY <3>1, SeqElement
    <3> QED BY <2>4, <3>1, <3>2
  <2> QED BY <2>1, <2>4, <2>5 DEF presentedBy
<1>3. PICK d \in Permit : d = presentedBy(x).permit
  BY <1>2
<1>4. permitVerdict(d, presentedBy(x).bound) = "allowed" => permitVerdict(d, TRUE) = "allowed"
  BY DEF permitVerdict
<1>5. \/ UNCHANGED coordinatorVars
      \/ permitVerdict(d, TRUE) = "allowed" /\ ConsumePermit(d, x)
  BY <1>3, <1>4 DEF Present
<1>6. coordinatorStep
  BY <1>3, <1>5 DEF coordinatorStep
<1>7. now' = now /\ leases' = leases
  BY <1>5 DEF ConsumePermit, coordinatorVars, budgetVars
<1>8. UNCHANGED faults \/ fault
  BY DEF Present
<1>9. RouteStep(x[1])
  <2>1. CASE \E outcome : rowEnds(x, outcome)
    BY <1>1, <2>1, RowEndsMoves
  <2>2. CASE UNCHANGED route
    <3>1. Starting({})
      BY <1>1, KeptAll
    <3>2. Moved(x[1], {})
      BY <1>1, <2>2, <3>1 DEF Moved
    <3>3. \A q \in Probe : asked(q)' <=> asked(q)
      BY <3>1, StartingOnward
    <3>4. RouteOK(x[1])'
      BY <1>1, <1>2, <2>2, <3>3, RouteStays DEF LookupOK
    <3> QED BY <2>2, <3>2, <3>4, Typed DEF RouteStep
  <2> QED BY <2>1, <2>2 DEF Present
<1> QED BY <1>1, <1>6, <1>7, <1>8, <1>9, FaultsFall DEF Calm

LEMMA ReleaseDetailMoves ==
    ASSUME TypeOK, LookupOK, NEW x \in Detail, ReleaseDetail(x), route[x[1]].phase = "details"
    PROVE  /\ RouteStep(x[1]) /\ Calm /\ coordinatorStep
           /\ resolver' = resolver /\ cancels' = cancels
<1>1. /\ scenario' = scenario /\ resolver' = resolver /\ cancels' = cancels
      /\ probe' = probe /\ rowEnds(x, detail[x].outcome)
  BY DEF ReleaseDetail
<1>2. RouteStep(x[1])
  BY <1>1, RowEndsMoves
<1>3. ReturnDetailLease(x) \/ UNCHANGED coordinatorVars
  BY DEF ReleaseDetail
<1>4. coordinatorStep
  BY <1>3 DEF coordinatorStep
<1>5. now' = now /\ leases' = leases
  BY <1>3 DEF ReturnDetailLease, coordinatorVars, budgetVars
<1>6. UNCHANGED faults \/ fault
  BY DEF ReleaseDetail
<1> QED BY <1>1, <1>2, <1>4, <1>5, <1>6, FaultsFall DEF Calm

-----------------------------------------------------------------------------
(* The pool of a search.                                                   *)

LEMMA Division ==
    ASSUME NEW a \in Nat, NEW b \in Nat, 1 <= b, b <= a
    PROVE  a \div b \in Nat /\ a \div b >= 1 /\ b * (a \div b) <= a
<1>1. a \div b \in Int /\ a = b * (a \div b) + (a % b) /\ a % b \in 0..(b - 1)
  OBVIOUS
<1>2. PICK d \in Int : d = a \div b
  BY <1>1
<1>3. b * d <= a /\ b * d > a - b
  BY <1>1, <1>2
<1>4. d >= 1
  BY <1>3
<1> QED BY <1>2, <1>3, <1>4

LEMMA PoolWidth ==
    ASSUME NEW r
    PROVE  /\ poolWidth(r) \in 1..NumCandidates
           /\ kind(r) = "bulk" => poolWidth(r) <= PermitLimit \div Workers
           /\ kind(r) # "bulk" => poolWidth(r) <= Width
<1>1. PICK own : own = IF kind(r) = "bulk" THEN PermitLimit \div Workers ELSE Width
  OBVIOUS
<1>2. own \in Nat /\ own >= 1
  BY <1>1, Numbers, Division
<1>3. poolWidth(r) = IF own < NumCandidates THEN own ELSE NumCandidates
  BY <1>1 DEF poolWidth
<1> QED BY <1>1, <1>2, <1>3, Numbers

LEMMA UnreadFinite ==
    ASSUME TypeOK, NEW x \in Target
    PROVE  unread(x) \subseteq 1..NumCandidates /\ IsFiniteSet(unread(x))
<1>1. resolver[x].next \in 1..MaxProbes
  BY Typed DEF ResolverState
<1>2. unread(x) \subseteq 1..NumCandidates
  BY <1>1, Numbers DEF unread
<1>3. IsFiniteSet(1..NumCandidates)
  BY Numbers, FS_Interval
<1> QED BY <1>2, <1>3, FS_Subset

\* How far the pool goes: within its width, and on while there is room,
\* unless an answer has matched.
LEMMA FilledTo ==
    ASSUME TypeOK, NEW x \in Target, NEW taken \in SUBSET (1..NumCandidates),
           NEW out \in Nat, out = Cardinality(unread(x) \ taken), out <= poolWidth(x[1])
    PROVE  /\ filledTo(x, taken) \in resolver[x].next..MaxProbes
           /\ filledTo(x, taken) - resolver[x].next <= poolWidth(x[1]) - out
           /\ filledTo(x, taken) = resolver[x].next /\ out < poolWidth(x[1])
                 /\ matches(x, taken) = {} => resolver[x].next = MaxProbes
<1>1. PICK n \in 1..MaxProbes : n = resolver[x].next
  BY Typed DEF ResolverState
<1>2. PICK width \in 1..NumCandidates : width = poolWidth(x[1])
  BY PoolWidth
<1>3. NumCandidates \in Nat /\ MaxProbes = NumCandidates + 1
  BY Numbers
<1>4. PICK room \in Nat : room = width - out
  BY <1>2
<1>5. PICK last : last = Min({n - 1 + room, NumCandidates})
  OBVIOUS
<1>6. last = IF n - 1 + room <= NumCandidates THEN n - 1 + room ELSE NumCandidates
  BY <1>3, <1>5, MinOfTwo
<1>7. /\ last \in Int /\ last + 1 >= n /\ last + 1 <= MaxProbes /\ last + 1 - n <= room
      /\ last + 1 = n /\ room > 0 => n = MaxProbes
  BY <1>1, <1>3, <1>4, <1>6
<1>8. filledTo(x, taken) = IF matches(x, taken) = {} THEN last + 1
                           ELSE Max({n, Min({last + 1, Min(matches(x, taken))})})
  BY <1>1, <1>2, <1>4, <1>5 DEF filledTo
<1>9. CASE matches(x, taken) = {}
  BY <1>1, <1>2, <1>4, <1>7, <1>8, <1>9
<1>10. CASE matches(x, taken) # {}
  <2>1. PICK m : m = Min(matches(x, taken))
    OBVIOUS
  <2>2. matches(x, taken) \subseteq Nat
    <3>1. matches(x, taken) \subseteq taken /\ taken \subseteq 1..NumCandidates
      BY DEF matches
    <3>2. 1..NumCandidates \subseteq Nat
      BY <1>3
    <3> QED BY <3>1, <3>2
  <2>3. m \in Nat
    BY <1>10, <2>1, <2>2, MinIsLeast
  <2>4. PICK b : b = Min({last + 1, m})
    OBVIOUS
  <2>5. b = IF last + 1 <= m THEN last + 1 ELSE m
    BY <1>7, <2>3, <2>4, MinOfTwo
  <2>6. Max({n, b}) = IF n >= b THEN n ELSE b
    BY <1>7, <2>3, <2>5, MaxOfTwo
  <2>7. filledTo(x, taken) = IF n >= b THEN n ELSE b
    BY <1>8, <1>10, <2>1, <2>4, <2>6
  <2>8. PICK f : f = filledTo(x, taken)
    OBVIOUS
  <2>9. f = IF n >= b THEN n ELSE b
    BY <2>7, <2>8
  <2>10. b \in Int /\ b <= last + 1
    BY <1>7, <2>3, <2>5
  <2>11. f \in n..MaxProbes /\ f - n <= room
    BY <1>1, <1>3, <1>7, <2>9, <2>10
  <2> QED BY <1>1, <1>2, <1>4, <1>10, <2>8, <2>11
<1> QED BY <1>9, <1>10

LEMMA RunningFinite ==
    ASSUME NEW r
    PROVE  IsFiniteSet(running(r)) /\ Cardinality(running(r)) \in Nat
<1> DEFINE f == [x \in running(r) |-> x[2]]
<1>1. \A x \in running(r) : x = <<r, x[2]>> /\ x[2] \in 1..NumTargets
  BY TargetParts DEF running
<1>2. f \in [running(r) -> 1..NumTargets] /\ \A x, y \in running(r) : f[x] = f[y] => x = y
  BY <1>1
<1>3. f \in Injection(running(r), 1..NumTargets)
  BY <1>2 DEF Injection, IsInjective
<1>4. IsFiniteSet(1..NumTargets)
  BY Numbers, FS_Interval
<1> HIDE DEF f
<1> QED BY <1>3, <1>4, FS_Injection, FS_CardinalityType

-----------------------------------------------------------------------------
(* The steps of a search.                                                  *)

SearchMoved(x, S) ==
    /\ scenario' = scenario /\ Starting(S)
    /\ \A y \in Target \ {x} : resolver'[y] = resolver[y]
    /\ \A s \in Request \ {x[1]} : route'[s] = route[s]
    /\ route[x[1]].phase = "resolving" /\ route'[x[1]].phase = "resolving"
    /\ \A n \in Nat : n >= route'[x[1]].next => n >= route[x[1]].next
    /\ S \subseteq {candidate(x, i) : i \in 0..NumCandidates}
    /\ resolver'[x].phase # "idle"

\* The requests of the search, after the step.
RequestsOK(x) ==
    \A q \in Probe : <<q[1], q[2]>> = x =>
        /\ underway(q)' =>
              \/ resolver'[x].phase = "first" /\ q[3] = 0
              \/ resolver'[x].phase \in {"pool", "settling"} /\ q[3] \in unread(x)'
        /\ asked(q)' => q[3] < resolver'[x].next

LEMMA SearchSteps ==
    ASSUME TypeOK, LookupOK, NEW x \in Target, NEW S, SearchMoved(x, S),
           \A q \in S : q \in probesFor(x[1], kind(x[1])),
           RequestsOK(x), SearchOK(x)', RouteOK(x[1])'
    PROVE  LookupOK'
<1>1. /\ scenario' = scenario /\ Starting(S)
      /\ \A y \in Target \ {x} : resolver'[y] = resolver[y]
      /\ \A s \in Request \ {x[1]} : route'[s] = route[s]
      /\ route[x[1]].phase = "resolving" /\ route'[x[1]].phase = "resolving"
      /\ \A n \in Nat : n >= route'[x[1]].next => n >= route[x[1]].next
      /\ resolver'[x].phase # "idle"
  BY DEF SearchMoved
<1>2. x[1] \in Request /\ x[2] \in Nat /\ x = <<x[1], x[2]>>
  BY TargetParts
<1>3. \A q \in S : q[1] = x[1] /\ <<q[1], q[2]>> = x
  BY <1>2 DEF SearchMoved, candidate
<1>4. \A q \in Probe : /\ Onward(q)
                       /\ q \notin S => (asked(q)' <=> asked(q)) /\ (underway(q)' <=> underway(q))
  BY <1>1, StartingOnward
<1>5. \A q \in Probe : probe'[q].call # "none" => probe'[q].at \in {"acquiring", "done"}
  BY <1>1, BegunFields DEF Starting, Begun, Kept, LookupOK, PlaceOK
<1>6. ASSUME NEW q \in Probe PROVE PlaceOK(q)'
  <2>1. q[1] \in Request /\ <<q[1], q[2]>> \in Target
    BY ProbeParts
  <2>2. PlaceOK(q)
    BY DEF LookupOK
  <2>3. CASE <<q[1], q[2]>> # x
    <3>1. q \notin S /\ route'[q[1]].phase = route[q[1]].phase
          /\ resolver'[<<q[1], q[2]>>] = resolver[<<q[1], q[2]>>]
      BY <1>1, <1>3, <2>1, <2>3
    <3> QED BY <1>1, <1>4, <1>5, <2>2, <3>1, PlaceStays
  <2>4. CASE <<q[1], q[2]>> = x
    <3>1. q[1] = x[1]
      BY <2>4
    <3>2. asked(q)' => q \in probesFor(q[1], kind(q[1]))
      BY <1>4, <2>2, <3>1 DEF PlaceOK
    <3>3. probesFor(q[1], kind(q[1]))' = probesFor(q[1], kind(q[1]))
      BY <1>1 DEF probesFor, kind
    <3>4. /\ underway(q)' =>
              \/ resolver'[x].phase = "first" /\ q[3] = 0
              \/ resolver'[x].phase \in {"pool", "settling"} /\ q[3] \in unread(x)'
          /\ asked(q)' => q[3] < resolver'[x].next
      BY <2>4 DEF RequestsOK
    <3> QED BY <1>1, <1>5, <2>4, <3>1, <3>2, <3>3, <3>4 DEF PlaceOK
  <2> QED BY <2>3, <2>4
<1>7. ASSUME NEW y \in Target \ {x} PROVE SearchOK(y)'
  <2>1. y[1] \in Request /\ SearchOK(y)
    BY TargetParts DEF LookupOK
  <2>2. searching(y) => route'[y[1]].phase = "resolving"
    BY <1>1, <2>1 DEF SearchOK
  <2>3. \A n \in Nat : n >= route'[y[1]].next => n >= route[y[1]].next
    BY <1>1, <2>1
  <2> QED BY <1>1, <1>4, <2>1, <2>2, <2>3, SearchStays
<1>8. ASSUME NEW s \in Request \ {x[1]} PROVE RouteOK(s)'
  <2>1. \A q \in Probe : q[1] = s => (asked(q)' <=> asked(q))
    BY <1>3, <1>4
  <2>2. \A y \in Target : y[1] = s => resolver'[y] = resolver[y]
    BY <1>1
  <2>3. RouteOK(s)
    BY DEF LookupOK
  <2> QED BY <1>1, <2>1, <2>2, <2>3, RouteStays
<1> QED BY <1>6, <1>7, <1>8 DEF LookupOK

\* A search that was running spends what it asks for.
LEMMA SearchRoute ==
    ASSUME TypeOK, LookupOK, NEW x \in Target, NEW S, SearchMoved(x, S), searching(x),
           route'[x[1]].reserved = route[x[1]].reserved,
           route'[x[1]].next = route[x[1]].next,
           Cardinality(askedOf(x[1]))' = route'[x[1]].used
    PROVE  RouteOK(x[1])'
<1>1. x[1] \in Request /\ RouteOK(x[1])
  BY TargetParts DEF LookupOK
<1>2. running(x[1])' \subseteq running(x[1])
  BY DEF SearchMoved, running, searching
<1>3. /\ Cardinality(running(x[1])') <= Cardinality(running(x[1]))
      /\ Cardinality(running(x[1])') \in Nat /\ Cardinality(running(x[1])) \in Nat
  BY <1>2, RunningFinite, FS_Subset, FS_CardinalityType
<1>4. PICK most \in Nat : most = IF kind(x[1]) = "bulk" THEN Workers ELSE 1
  BY Numbers
<1>5. Cardinality(running(x[1])') <= most
  BY <1>1, <1>3, <1>4 DEF RouteOK
<1>6. kind(x[1])' = kind(x[1]) /\ unitsFor(x[1])' = unitsFor(x[1])
  BY DEF SearchMoved, kind, unitsFor
<1>7. /\ route[x[1]].phase = "resolving" /\ route'[x[1]].phase = "resolving"
  BY DEF SearchMoved
<1> QED BY <1>1, <1>4, <1>5, <1>6, <1>7 DEF RouteOK

\* What a step of a search leaves of the routes.
ReservationsStay ==
    \A r \in Request : /\ route'[r].reserved = route[r].reserved
                       /\ route'[r].since = route[r].since
                       /\ route'[r].phase = route[r].phase

SearchMoves ==
    /\ LookupOK' /\ ReservationsStay
    /\ route' \in [Request -> RouteState] /\ resolver' \in [Target -> ResolverState]
    /\ \E S : Starting(S)

SearchStep == SearchMoves /\ Calm

\* The candidates of a search that runs can all be asked about.
LEMMA Candidates ==
    ASSUME TypeOK, LookupOK, NEW x \in Target, resolver[x].phase # "idle"
    PROVE  \A i \in 0..NumCandidates :
              /\ candidate(x, i) \in probesFor(x[1], kind(x[1])) /\ candidate(x, i) \in Probe
              /\ <<candidate(x, i)[1], candidate(x, i)[2]>> = x /\ candidate(x, i)[3] = i
<1>1. x[1] \in Request /\ SearchOK(x) /\ x = <<x[1], x[2]>>
  BY TargetParts DEF LookupOK
<1> QED BY <1>1, Kinds DEF SearchOK, candidate

LEMMA CandidateOf ==
    ASSUME NEW x \in Target, NEW q \in Probe, <<q[1], q[2]>> = x
    PROVE  q = candidate(x, q[3]) /\ q[1] = x[1]
BY ProbeParts DEF candidate

\* A search that ends: nothing of it is under way, and its verdict has grounds.
LEMMA EndTargetMoves ==
    ASSUME TypeOK, LookupOK, NEW x \in Target, searching(x), scenario' = scenario,
           NEW verdict,
           NEW v \in ResolverState, v.phase = "ended", v.verdict = verdict,
           v.next = resolver[x].next, resolver' = [resolver EXCEPT ![x] = v],
           \/ UNCHANGED <<route, probe>>
           \/ /\ route' = [route EXCEPT ![x[1]].cancelled = TRUE]
              /\ probe' = cutOff(probesOf(x[1]), "abort"),
           \A q \in Probe : <<q[1], q[2]>> = x => ~underway(q),
           verdict \in 0..NumCandidates =>
               /\ said(x, verdict, "match")
               /\ \A i \in 0..(verdict - 1) : said(x, i, "other"),
           verdict = notFound => \A i \in 0..NumCandidates : said(x, i, "other")
    PROVE  SearchMoves
<1>0. /\ x[1] \in Request /\ SearchOK(x) /\ RouteOK(x[1]) /\ route[x[1]].phase = "resolving"
      /\ x[2] \in Nat
  <2>1. x[1] \in Request /\ x[2] \in 1..NumTargets
    BY TargetParts
  <2>2. SearchOK(x) /\ RouteOK(x[1])
    BY <2>1 DEF LookupOK
  <2>3. route[x[1]].phase = "resolving"
    BY <2>2 DEF SearchOK
  <2> QED BY <2>1, <2>2, <2>3
<1>4. resolver \in [Target -> ResolverState] /\ route \in [Request -> RouteState]
  BY Typed
<1>6. /\ resolver' \in [Target -> ResolverState] /\ resolver'[x] = v
      /\ \A y \in Target \ {x} : resolver'[y] = resolver[y]
  BY <1>4
<1>7. Starting({})
  BY KeptAll, CutOffKeeps
<1>8. /\ route' \in [Request -> RouteState]
      /\ \A r \in Request \ {x[1]} : route'[r] = route[r]
      /\ route'[x[1]].phase = route[x[1]].phase /\ route'[x[1]].next = route[x[1]].next
      /\ route'[x[1]].used = route[x[1]].used /\ route'[x[1]].reserved = route[x[1]].reserved
      /\ route'[x[1]].since = route[x[1]].since
  <2>1. CASE route' = route
    BY <1>4, <2>1
  <2>2. CASE route' = [route EXCEPT ![x[1]].cancelled = TRUE]
    <3>1. PICK t \in RouteState : t = route[x[1]]
      BY <1>0, <1>4
    <3>2. PICK w : w = [t EXCEPT !.cancelled = TRUE]
      OBVIOUS
    <3>3. /\ w \in RouteState /\ w.phase = t.phase /\ w.next = t.next /\ w.used = t.used
          /\ w.reserved = t.reserved /\ w.since = t.since
      BY <3>2 DEF RouteState
    <3>4. route' = [route EXCEPT ![x[1]] = w]
      BY <1>4, <2>2, <3>1, <3>2
    <3> QED BY <1>0, <1>4, <3>1, <3>3, <3>4
  <2> QED BY <2>1, <2>2
<1>9. ReservationsStay
  BY <1>8 DEF ReservationsStay
<1>10. SearchMoved(x, {})
  BY <1>0, <1>6, <1>7, <1>8 DEF SearchMoved
<1>11. RequestsOK(x)
  <2> SUFFICES ASSUME NEW q \in Probe, <<q[1], q[2]>> = x
               PROVE  ~underway(q)' /\ (asked(q)' => q[3] < resolver'[x].next)
    BY DEF RequestsOK
  <2>1. ~underway(q)' /\ (asked(q)' => asked(q))
    BY <1>7, StartingOnward
  <2>2. PlaceOK(q) /\ q[1] = x[1] /\ resolver[x].next = resolver'[x].next
    BY <1>6, CandidateOf DEF LookupOK
  <2> QED BY <1>0, <2>1, <2>2 DEF PlaceOK
<1>12. SearchOK(x)'
  <2>1. \A i \in 0..NumCandidates : candidate(x, i) \in probesFor(x[1], kind(x[1])) /\ candidate(x, i) \in Probe
    BY Candidates DEF searching
  <2>2. \A i \in 0..NumCandidates, o \in {"match", "other"} : said(x, i, o) => said(x, i, o)'
    BY <1>7, <2>1, StartingOnward, SaidStays
  <2>3. probesFor(x[1], kind(x[1]))' = probesFor(x[1], kind(x[1])) /\ \A i : candidate(x, i)' = candidate(x, i)
    BY DEF probesFor, kind, candidate
  <2>4. ~searching(x)'
    BY <1>6 DEF searching
  <2>5. ~ (x[2] >= route'[x[1]].next)
    BY <1>0, <1>8 DEF SearchOK, searching
  <2>6. /\ verdict \in 0..NumCandidates =>
             /\ said(x, verdict, "match")'
             /\ \A i \in 0..(verdict - 1) : said(x, i, "other")'
        /\ verdict = notFound => \A i \in 0..NumCandidates : said(x, i, "other")'
    <3>1. verdict \in 0..NumCandidates => 0..(verdict - 1) \subseteq 0..NumCandidates
      BY Numbers
    <3> QED BY <2>2, <3>1
  <2> QED BY <1>6, <2>1, <2>3, <2>4, <2>5, <2>6 DEF SearchOK
<1>13. RouteOK(x[1])'
  <2>1. Cardinality(askedOf(x[1]))' = Cardinality(askedOf(x[1]))
    BY <1>7, NothingMoreAsked
  <2>2. kind(x[1]) \in {"code", "bulk"}
    BY <1>0 DEF RouteOK
  <2>3. Cardinality(askedOf(x[1]))' = route'[x[1]].used
    BY <1>0, <1>8, <2>1, <2>2 DEF RouteOK
  <2> QED BY <1>8, <1>10, <2>3, SearchRoute
<1>14. LookupOK'
  <2>1. \A q \in {} : q \in probesFor(x[1], kind(x[1]))
    OBVIOUS
  <2> QED BY <1>10, <1>11, <1>12, <1>13, <2>1, SearchSteps
<1> QED BY <1>6, <1>7, <1>8, <1>9, <1>14 DEF SearchMoves

LEMMA StartTargetMoves ==
    ASSUME TypeOK, LookupOK, NEW r \in Request, StartTarget(r)
    PROVE  SearchStep /\ coordinatorStep /\ cancels' = cancels
<1>0. /\ route[r].phase = "resolving"
      /\ route[r].next <= IF kind(r) = "bulk" THEN NumTargets ELSE 1
      /\ Cardinality(running(r)) < IF kind(r) = "bulk" THEN Workers ELSE 1
      /\ Calm /\ coordinatorStep /\ cancels' = cancels /\ scenario' = scenario
      /\ RouteOK(r)
  BY FaultsFall DEF StartTarget, Calm, coordinatorStep, coordinatorVars, budgetVars, LookupOK
<1>1. PICK t \in RouteState : t = route[r]
  BY Typed
<1>2. PICK x : x = <<r, t.next>>
  OBVIOUS
<1>3. x[1] = r /\ x[2] = t.next /\ t.next \in 1..(NumTargets + 1) /\ t.used \in Nat
  BY <1>2 DEF RouteState
<1>4. kind(r) \in {"code", "bulk"}
  BY <1>0 DEF RouteOK
<1>5. \A i \in 0..NumCandidates : candidate(x, i) \in probesFor(r, kind(r))
  <2>1. CASE kind(r) = "code"
    BY <1>0, <1>1, <1>3, <2>1, Numbers DEF candidate, probesFor
  <2>2. CASE kind(r) = "bulk"
    BY <1>0, <1>1, <1>3, <2>2, Numbers DEF candidate, probesFor
  <2> QED BY <1>4, <2>1, <2>2
<1>6. 0 \in 0..NumCandidates /\ 1 <= NumCandidates /\ NumCandidates \in Nat
  BY Numbers
<1>7. candidate(x, 0) \in Probe /\ x \in Target
  <2>1. candidate(x, 0) \in Probe
    BY <1>5, <1>6, Kinds
  <2>2. candidate(x, 0)[1] = r /\ candidate(x, 0)[2] = t.next
    BY <1>2 DEF candidate
  <2> QED BY <1>2, <2>1, <2>2, ProbeParts
<1>8. PICK s \in ResolverState : s = resolver[x]
  BY <1>7, Typed
<1>9. s.phase = "idle" /\ s.next = 1 /\ s.taken = {}
  <2>1. SearchOK(x) /\ x[2] >= route[x[1]].next
    BY <1>1, <1>3, <1>7 DEF LookupOK
  <2> QED BY <1>8, <2>1 DEF SearchOK
<1>10. \A q \in Probe : <<q[1], q[2]>> = x => ~asked(q)
  <2> SUFFICES ASSUME NEW q \in Probe, <<q[1], q[2]>> = x PROVE ~asked(q)
    OBVIOUS
  <2>1. q[1] = r /\ PlaceOK(q)
    BY <1>3, <1>7, CandidateOf DEF LookupOK
  <2> QED BY <1>0, <1>8, <1>9, <2>1 DEF PlaceOK
<1>11. \A i : candidate(x, i) = <<r, t.next, i>>
  BY <1>2 DEF candidate
<1>12. \A i \in 0..(1 - 1) : candidate(x, i) \in Probe /\ ~asked(candidate(x, i))
  <2>1. \A i \in 0..(1 - 1) : i = 0
    OBVIOUS
  <2>2. <<candidate(x, 0)[1], candidate(x, 0)[2]>> = x
    BY <1>2, <1>11
  <2> QED BY <1>7, <1>10, <2>1, <2>2
<1>13. probe' = started(x, 0, 1)
  BY <1>1, <1>2 DEF StartTarget
<1>14. PICK S : S = {candidate(x, i) : i \in 0..(1 - 1)}
  OBVIOUS
<1>15. Starting(S) /\ Cardinality(askedOf(r))' = Cardinality(askedOf(r)) + 1
  <2>1. PICK a \in Nat, b \in Nat : a = 0 /\ b = 1
    OBVIOUS
  <2>2. Starting({candidate(x, i) : i \in a..(b - 1)})
    BY <1>3, <1>7, <1>12, <1>13, <2>1, SomeBegin
  <2>3. Cardinality(askedOf(x[1]))' = Cardinality(askedOf(x[1])) + (b - a)
    BY <1>7, <2>1, <2>2, SomeMoreAsked
  <2> QED BY <1>3, <1>14, <2>1, <2>2, <2>3
<1>16. S = {candidate(x, 0)}
  BY <1>14
<1>17. PICK v : v = [s EXCEPT !.phase = "first"]
  OBVIOUS
<1>18. v \in ResolverState /\ v.phase = "first" /\ v.next = 1 /\ v.taken = {}
  BY <1>9, <1>17 DEF ResolverState
<1>19. /\ resolver' \in [Target -> ResolverState] /\ resolver'[x] = v
       /\ \A y \in Target \ {x} : resolver'[y] = resolver[y]
  <2>1. resolver' = [resolver EXCEPT ![x] = v] /\ resolver \in [Target -> ResolverState]
    BY <1>1, <1>2, <1>8, <1>17, Typed DEF StartTarget
  <2> QED BY <1>7, <1>18, <2>1
<1>20. PICK w : w = [t EXCEPT !.next = t.next + 1, !.used = t.used + 1]
  OBVIOUS
<1>21. /\ w \in RouteState /\ w.phase = t.phase /\ w.next = t.next + 1 /\ w.used = t.used + 1
       /\ w.reserved = t.reserved /\ w.since = t.since
  <2>1. t.next + 1 \in 1..(NumTargets + 1) /\ t.used + 1 \in Nat
    BY <1>0, <1>1, <1>3, Numbers
  <2> QED BY <1>20, <2>1 DEF RouteState
<1>22. /\ route' \in [Request -> RouteState] /\ route'[r] = w
       /\ \A o \in Request \ {r} : route'[o] = route[o]
  <2>1. route' = [route EXCEPT ![r].next = @ + 1, ![r].used = @ + 1]
        /\ route \in [Request -> RouteState]
    BY Typed DEF StartTarget
  <2>2. route' = [route EXCEPT ![r] = w]
    BY <1>1, <1>20, <2>1
  <2> QED BY <1>21, <2>1, <2>2
<1>23. ReservationsStay
  BY <1>1, <1>21, <1>22 DEF ReservationsStay
<1>24. SearchMoved(x, S)
  <2>1. S \subseteq {candidate(x, i) : i \in 0..NumCandidates}
    BY <1>6, <1>16
  <2>2. \A n \in Nat : n >= route'[x[1]].next => n >= route[x[1]].next
    BY <1>1, <1>3, <1>21, <1>22
  <2> QED BY <1>0, <1>1, <1>3, <1>15, <1>18, <1>19, <1>21, <1>22, <2>1, <2>2 DEF SearchMoved
<1>25. RequestsOK(x)
  <2> SUFFICES ASSUME NEW q \in Probe, <<q[1], q[2]>> = x, asked(q)'
               PROVE  q[3] = 0
    BY <1>18, <1>19 DEF RequestsOK, asked, underway
  <2>1. q \in S
    BY <1>10, <1>15, StartingOnward
  <2> QED BY <1>11, <1>16, <2>1
<1>26. SearchOK(x)'
  <2>1. probesFor(x[1], kind(x[1]))' = probesFor(x[1], kind(x[1])) /\ \A i : candidate(x, i)' = candidate(x, i)
    BY <1>0 DEF probesFor, kind, candidate
  <2>2. ~ (x[2] >= route'[x[1]].next) /\ route'[x[1]].phase = "resolving"
    BY <1>0, <1>1, <1>3, <1>21, <1>22
  <2> QED BY <1>3, <1>5, <1>18, <1>19, <2>1, <2>2 DEF SearchOK
<1>27. RouteOK(x[1])'
  <2>1. kind(r)' = kind(r) /\ unitsFor(r)' = unitsFor(r)
    BY <1>0 DEF kind, unitsFor
  <2>2. running(r)' \subseteq running(r) \cup {x}
    BY <1>3, <1>19 DEF running
  <2>3. PICK R : R = running(r)
    OBVIOUS
  <2>4. IsFiniteSet(R) /\ Cardinality(R) \in Nat
    BY <2>3, RunningFinite
  <2>5. /\ IsFiniteSet(R \cup {x}) /\ Cardinality(R \cup {x}) <= Cardinality(R) + 1
        /\ Cardinality(R \cup {x}) \in Nat
    <3>1. PICK A : A = R \cup {x}
      OBVIOUS
    <3>2. IsFiniteSet(A)
      BY <2>4, <3>1, FS_AddElement
    <3>3. Cardinality(A) = (IF x \in R THEN Cardinality(R) ELSE Cardinality(R) + 1)
      BY <2>4, <3>1, FS_AddElement
    <3>4. Cardinality(A) <= Cardinality(R) + 1 /\ Cardinality(A) \in Nat
      BY <2>4, <3>3
    <3> QED BY <3>1, <3>2, <3>4
  <2>6. Cardinality(running(r)') <= Cardinality(R \cup {x}) /\ Cardinality(running(r)') \in Nat
    BY <2>2, <2>3, <2>5, FS_Subset, FS_CardinalityType
  <2>7. PICK most \in Nat : most = IF kind(r) = "bulk" THEN Workers ELSE 1
    BY Numbers
  <2>8. Cardinality(running(r)') <= most
    BY <1>0, <2>3, <2>4, <2>5, <2>6, <2>7
  <2>9. /\ route'[r].phase = "resolving" /\ route'[r].used = Cardinality(askedOf(r))'
        /\ route'[r].reserved = unitsFor(r)
        /\ kind(r) = "code" => route'[r].next <= 2
    BY <1>0, <1>1, <1>3, <1>4, <1>15, <1>21, <1>22 DEF RouteOK
  <2> QED BY <1>3, <1>4, <2>1, <2>7, <2>8, <2>9 DEF RouteOK
<1>28. LookupOK'
  <2>1. \A q \in S : q \in probesFor(x[1], kind(x[1]))
    BY <1>3, <1>5, <1>6, <1>16
  <2> QED BY <1>7, <1>24, <1>25, <1>26, <1>27, <2>1, SearchSteps
<1> QED BY <1>0, <1>15, <1>19, <1>22, <1>23, <1>28 DEF SearchStep, SearchMoves

\* The route of a search spends n.
LEMMA SpendsMoves ==
    ASSUME TypeOK, NEW r \in Request, NEW n \in Nat, spends(r, n)
    PROVE  /\ route' \in [Request -> RouteState]
           /\ \A s \in Request \ {r} : route'[s] = route[s]
           /\ route'[r].phase = route[r].phase /\ route'[r].next = route[r].next
           /\ route'[r].used = route[r].used + n /\ route'[r].reserved = route[r].reserved
           /\ route'[r].since = route[r].since
<1>1. route \in [Request -> RouteState]
  BY Typed
<1>2. PICK t \in RouteState : t = route[r]
  BY <1>1
<1>3. PICK w : w = [t EXCEPT !.used = t.used + n]
  OBVIOUS
<1>4. /\ w \in RouteState /\ w.phase = t.phase /\ w.next = t.next /\ w.used = t.used + n
      /\ w.reserved = t.reserved /\ w.since = t.since
  <2>1. t.used + n \in Nat
    BY DEF RouteState
  <2> QED BY <1>3, <2>1 DEF RouteState
<1>5. route' = [route EXCEPT ![r] = w]
  BY <1>1, <1>2, <1>3 DEF spends
<1> QED BY <1>1, <1>2, <1>4, <1>5

LEMMA Places ==
    ASSUME NEW from \in Nat, NEW to \in Nat, from <= to
    PROVE  IsFiniteSet(from..(to - 1)) /\ Cardinality(from..(to - 1)) = to - from
<1>1. PICK last \in Int : last = to - 1
  OBVIOUS
<1>2. IsFiniteSet(from..last) /\ Cardinality(from..last) = (IF from > last THEN 0 ELSE last - from + 1)
  BY FS_Interval
<1> QED BY <1>1, <1>2

\* A pool that is filled: the candidates that begin are new, and fit its width.
LEMMA PoolMoves ==
    ASSUME TypeOK, LookupOK, NEW x \in Target, searching(x), scenario' = scenario,
           NEW from \in Nat, NEW to \in Nat, from = resolver[x].next, from <= to,
           to <= MaxProbes, 1 <= from,
           NEW taken \in SUBSET (1..NumCandidates), resolver[x].taken \subseteq taken,
           NEW v \in ResolverState, v.phase = "pool", v.next = to, v.taken = taken,
           resolver' = [resolver EXCEPT ![x] = v],
           probe' = started(x, from, to), spends(x[1], to - from),
           said(x, 0, "other"), taken \subseteq 1..(from - 1),
           \A i \in taken : said(x, i, "match") \/ said(x, i, "other"),
           winners(x, taken) = {},
           NEW out \in Nat, out = Cardinality(unread(x) \ taken), out + (to - from) <= poolWidth(x[1]),
           \A q \in Probe : <<q[1], q[2]>> = x /\ underway(q) => q[3] \in unread(x) \ taken
    PROVE  SearchMoves
<1>0. /\ x[1] \in Request /\ SearchOK(x) /\ RouteOK(x[1]) /\ route[x[1]].phase = "resolving"
      /\ x[2] \in Nat /\ resolver[x].phase # "idle"
  <2>1. x[1] \in Request /\ x[2] \in 1..NumTargets
    BY TargetParts
  <2>2. SearchOK(x) /\ RouteOK(x[1])
    BY <2>1 DEF LookupOK
  <2>3. route[x[1]].phase = "resolving"
    BY <2>2 DEF SearchOK
  <2> QED BY <2>1, <2>2, <2>3 DEF searching
<1>1. /\ resolver' \in [Target -> ResolverState] /\ resolver'[x] = v
      /\ \A y \in Target \ {x} : resolver'[y] = resolver[y]
  <2>1. resolver \in [Target -> ResolverState]
    BY Typed
  <2> QED BY <2>1
<1>2. \A i \in 0..NumCandidates :
          /\ candidate(x, i) \in probesFor(x[1], kind(x[1])) /\ candidate(x, i) \in Probe
          /\ <<candidate(x, i)[1], candidate(x, i)[2]>> = x /\ candidate(x, i)[3] = i
  BY <1>0, Candidates
<1>3. from..(to - 1) \subseteq 0..NumCandidates
  BY Numbers
<1>4. \A q \in Probe : <<q[1], q[2]>> = x /\ asked(q) => q[3] < from
  BY <1>0, CandidateOf DEF PlaceOK, LookupOK
<1>5. \A i \in from..(to - 1) : candidate(x, i) \in Probe /\ ~asked(candidate(x, i))
  <2> SUFFICES ASSUME NEW i \in from..(to - 1), asked(candidate(x, i)) PROVE candidate(x, i) \in Probe /\ FALSE
    BY <1>2, <1>3
  <2>1. candidate(x, i)[3] = i /\ candidate(x, i) \in Probe /\ candidate(x, i)[3] < from
    BY <1>2, <1>3, <1>4
  <2> QED BY <2>1
<1>6. PICK S : S = {candidate(x, i) : i \in from..(to - 1)}
  OBVIOUS
<1>7. Starting(S) /\ Cardinality(askedOf(x[1]))' = Cardinality(askedOf(x[1])) + (to - from)
  <2>1. Starting({candidate(x, i) : i \in from..(to - 1)})
    BY <1>0, <1>5, SomeBegin
  <2> QED BY <1>6, <2>1, SomeMoreAsked
<1>8. /\ route' \in [Request -> RouteState]
      /\ \A r \in Request \ {x[1]} : route'[r] = route[r]
      /\ route'[x[1]].phase = route[x[1]].phase /\ route'[x[1]].next = route[x[1]].next
      /\ route'[x[1]].used = route[x[1]].used + (to - from)
      /\ route'[x[1]].reserved = route[x[1]].reserved
      /\ route'[x[1]].since = route[x[1]].since
  <2>1. PICK n \in Nat : n = to - from
    OBVIOUS
  <2> QED BY <1>0, <2>1, SpendsMoves
<1>9. ReservationsStay
  BY <1>8 DEF ReservationsStay
<1>10. SearchMoved(x, S)
  <2>1. S \subseteq {candidate(x, i) : i \in 0..NumCandidates}
    BY <1>3, <1>6
  <2> QED BY <1>0, <1>1, <1>7, <1>8, <2>1 DEF SearchMoved
<1>11. unread(x)' = (unread(x) \ taken) \cup (from..(to - 1))
  <2>1. unread(x)' = {i \in 1..(to - 1) : i \notin taken}
    BY <1>1 DEF unread
  <2>2. unread(x) \ taken = {i \in 1..(from - 1) : i \notin taken}
    BY DEF unread
  <2>3. {i \in 1..(to - 1) : i \notin taken}
            = {i \in 1..(from - 1) : i \notin taken} \cup (from..(to - 1))
    OBVIOUS
  <2> QED BY <2>1, <2>2, <2>3
<1>12. Cardinality(unread(x)') <= poolWidth(x[1])
  <2>1. PICK A, B : A = unread(x) \ taken /\ B = from..(to - 1)
    OBVIOUS
  <2>2. IsFiniteSet(A) /\ IsFiniteSet(B) /\ Cardinality(B) = to - from
    <3>1. IsFiniteSet(A)
      BY <2>1, UnreadFinite, FS_Subset
    <3>2. IsFiniteSet(from..(to - 1)) /\ Cardinality(from..(to - 1)) = to - from
      BY Places
    <3> QED BY <2>1, <3>1, <3>2
  <2>3. /\ Cardinality(A \cup B) = Cardinality(A) + Cardinality(B) - Cardinality(A \cap B)
        /\ IsFiniteSet(A \cap B)
    BY <2>2, FS_Union, FS_Intersection
  <2>4. Cardinality(A \cap B) \in Nat
    BY <2>3, FS_CardinalityType
  <2>5. poolWidth(x[1]) \in Nat
    BY PoolWidth, Numbers
  <2>6. Cardinality(A) = out
    BY <2>1
  <2>7. PICK m \in Nat : m = Cardinality(A \cap B)
    BY <2>4
  <2>8. PICK c : c = Cardinality(A \cup B)
    OBVIOUS
  <2>9. c = out + (to - from) - m
    BY <2>2, <2>3, <2>6, <2>7, <2>8
  <2>10. c <= poolWidth(x[1])
    BY <2>5, <2>9
  <2> QED BY <1>11, <2>1, <2>8, <2>10
<1>13. RequestsOK(x)
  <2> SUFFICES ASSUME NEW q \in Probe, <<q[1], q[2]>> = x
               PROVE  /\ underway(q)' => q[3] \in unread(x)'
                      /\ asked(q)' => q[3] < to
    BY <1>1 DEF RequestsOK
  <2>1. CASE q \in S
    <3>1. PICK i \in from..(to - 1) : q = candidate(x, i)
      BY <1>6, <2>1
    <3>2. q[3] \in from..(to - 1)
      BY <1>2, <1>3, <3>1
    <3> QED BY <1>11, <3>2
  <2>2. CASE q \notin S
    <3>1. (asked(q)' <=> asked(q)) /\ (underway(q)' <=> underway(q))
      BY <1>7, <2>2, StartingOnward
    <3>2. q[3] \in Int
      BY ProbeParts
    <3> QED BY <1>4, <1>11, <3>1, <3>2
  <2> QED BY <2>1, <2>2
<1>14. SearchOK(x)'
  <2>1. \A i \in 0..NumCandidates : Onward(candidate(x, i))
    BY <1>2, <1>7, StartingOnward
  <2>2. \A i \in 0..NumCandidates, o \in {"match", "other"} : said(x, i, o) => said(x, i, o)' /\ done(candidate(x, i))'
    BY <2>1, SaidStays DEF said
  <2>3. probesFor(x[1], kind(x[1]))' = probesFor(x[1], kind(x[1])) /\ \A i : candidate(x, i)' = candidate(x, i)
    BY DEF probesFor, kind, candidate
  <2>4. /\ ~ (x[2] >= route'[x[1]].next) /\ route'[x[1]].phase = "resolving"
    BY <1>0, <1>8 DEF SearchOK, searching
  <2>5. taken \subseteq 0..NumCandidates /\ 0 \in 0..NumCandidates
    BY Numbers
  <2>6. \A i \in taken : /\ done(candidate(x, i))'
                         /\ said(x, i, "match")' \/ said(x, i, "other")'
                         /\ probe'[candidate(x, i)].outcome = probe[candidate(x, i)].outcome
    BY <2>1, <2>2, <2>5, SaidStays DEF said
  <2>7. winners(x, taken)' = {}
    BY <2>6, WinnersStay
  <2>8. said(x, 0, "other")' /\ done(candidate(x, 0))'
    BY <2>2, <2>5
  <2>9. poolWidth(x[1])' = poolWidth(x[1])
    BY DEF poolWidth, kind
  <2>10. taken \subseteq 1..(to - 1)
    OBVIOUS
  <2>11. winners(x, resolver[x].taken)' = winners(x, taken)'
    BY <1>1 DEF winners, matches
  <2> QED BY <1>1, <1>2, <1>12, <2>3, <2>4, <2>6, <2>7, <2>8, <2>9, <2>10, <2>11 DEF SearchOK
<1>15. RouteOK(x[1])'
  <2>1. kind(x[1]) \in {"code", "bulk"}
    BY <1>0 DEF RouteOK
  <2>2. Cardinality(askedOf(x[1]))' = route'[x[1]].used
    BY <1>0, <1>7, <1>8, <2>1 DEF RouteOK
  <2> QED BY <1>8, <1>10, <2>2, SearchRoute
<1>16. LookupOK'
  <2>1. \A q \in S : q \in probesFor(x[1], kind(x[1]))
    BY <1>2, <1>3, <1>6
  <2> QED BY <1>10, <1>13, <1>14, <1>15, <2>1, SearchSteps
<1> QED BY <1>1, <1>7, <1>8, <1>9, <1>16 DEF SearchMoves

\* A search that waits for what it has under way: its verdict has grounds.
LEMMA SettlingMoves ==
    ASSUME TypeOK, LookupOK, NEW x \in Target, resolver[x].phase = "pool", scenario' = scenario,
           route' = route, NEW ps, probe' = cutOff(ps, "abort"),
           NEW taken \in SUBSET (1..NumCandidates), resolver[x].taken \subseteq taken,
           taken \subseteq 1..(resolver[x].next - 1),
           NEW v \in ResolverState, v.phase = "settling", v.next = resolver[x].next, v.taken = taken,
           resolver' = [resolver EXCEPT ![x] = v],
           \A i \in taken : done(candidate(x, i)),
           v.verdict \in 0..NumCandidates =>
               /\ said(x, v.verdict, "match")
               /\ \A i \in 0..(v.verdict - 1) : said(x, i, "other"),
           v.verdict # notFound
    PROVE  SearchMoves
<1>0. /\ x[1] \in Request /\ SearchOK(x) /\ RouteOK(x[1]) /\ route[x[1]].phase = "resolving"
      /\ x[2] \in Nat /\ searching(x)
  <2>1. x[1] \in Request /\ x[2] \in 1..NumTargets
    BY TargetParts
  <2>2. SearchOK(x) /\ RouteOK(x[1]) /\ searching(x)
    BY <2>1 DEF LookupOK, searching
  <2>3. route[x[1]].phase = "resolving"
    BY <2>2 DEF SearchOK
  <2> QED BY <2>1, <2>2, <2>3
<1>1. /\ resolver' \in [Target -> ResolverState] /\ resolver'[x] = v
      /\ \A y \in Target \ {x} : resolver'[y] = resolver[y]
  <2>1. resolver \in [Target -> ResolverState]
    BY Typed
  <2> QED BY <2>1
<1>2. \A i \in 0..NumCandidates :
          /\ candidate(x, i) \in probesFor(x[1], kind(x[1])) /\ candidate(x, i) \in Probe
          /\ <<candidate(x, i)[1], candidate(x, i)[2]>> = x /\ candidate(x, i)[3] = i
  BY Candidates
<1>3. Starting({})
  BY CutOffKeeps
<1>4. ReservationsStay
  BY DEF ReservationsStay
<1>5. SearchMoved(x, {})
  BY <1>0, <1>1, <1>3 DEF SearchMoved
<1>6. unread(x)' = unread(x) \ taken
  BY <1>1 DEF unread
<1>7. Cardinality(unread(x)') <= poolWidth(x[1])
  <2>1. IsFiniteSet(unread(x)) /\ Cardinality(unread(x)) <= poolWidth(x[1])
    BY <1>0, UnreadFinite DEF SearchOK
  <2>2. Cardinality(unread(x)') <= Cardinality(unread(x)) /\ IsFiniteSet(unread(x)')
    BY <1>6, <2>1, FS_Subset
  <2>3. Cardinality(unread(x)') \in Nat /\ Cardinality(unread(x)) \in Nat /\ poolWidth(x[1]) \in Nat
    BY <2>1, <2>2, FS_CardinalityType, PoolWidth, Numbers
  <2> QED BY <2>1, <2>2, <2>3
<1>8. RequestsOK(x)
  <2> SUFFICES ASSUME NEW q \in Probe, <<q[1], q[2]>> = x
               PROVE  /\ underway(q)' => q[3] \in unread(x)'
                      /\ asked(q)' => q[3] < v.next
    BY <1>1 DEF RequestsOK
  <2>1. (asked(q)' <=> asked(q)) /\ (underway(q)' <=> underway(q))
    BY <1>3, StartingOnward
  <2>2. PlaceOK(q) /\ q = candidate(x, q[3]) /\ q[1] = x[1]
    BY CandidateOf DEF LookupOK
  <2>3. underway(q) => q[3] \in unread(x) \ taken
    <3>1. underway(q) => q[3] \in unread(x)
      BY <1>0, <2>2 DEF PlaceOK
    <3>2. q[3] \in taken => ~underway(q)
      BY <2>2 DEF done, underway
    <3> QED BY <3>1, <3>2
  <2>4. asked(q) => q[3] < v.next
    BY <1>0, <2>2 DEF PlaceOK
  <2> QED BY <1>6, <2>1, <2>3, <2>4
<1>9. SearchOK(x)'
  <2>1. \A i \in 0..NumCandidates : Onward(candidate(x, i))
    BY <1>2, <1>3, StartingOnward
  <2>2. \A i \in 0..NumCandidates : /\ \A o \in {"match", "other"} : said(x, i, o) => said(x, i, o)'
                                    /\ done(candidate(x, i)) => done(candidate(x, i))'
    BY <2>1, SaidStays
  <2>3. probesFor(x[1], kind(x[1]))' = probesFor(x[1], kind(x[1])) /\ \A i : candidate(x, i)' = candidate(x, i)
    BY DEF probesFor, kind, candidate
  <2>4. /\ ~ (x[2] >= route'[x[1]].next) /\ route'[x[1]].phase = "resolving"
        /\ done(candidate(x, 0))
    BY <1>0 DEF SearchOK, searching
  <2>5. taken \subseteq 0..NumCandidates /\ 0 \in 0..NumCandidates
    BY Numbers
  <2>6. \A i \in taken : done(candidate(x, i))'
    BY <2>2, <2>5
  <2>7. done(candidate(x, 0))'
    BY <2>2, <2>4, <2>5
  <2>8. v.verdict \in 0..NumCandidates =>
             /\ said(x, v.verdict, "match")'
             /\ \A i \in 0..(v.verdict - 1) : said(x, i, "other")'
    <3>1. v.verdict \in 0..NumCandidates => 0..(v.verdict - 1) \subseteq 0..NumCandidates
      BY Numbers
    <3> QED BY <2>2, <3>1
  <2>9. poolWidth(x[1])' = poolWidth(x[1])
    BY DEF poolWidth, kind
  <2> QED BY <1>1, <1>2, <1>7, <2>3, <2>4, <2>6, <2>7, <2>8, <2>9 DEF SearchOK
<1>10. RouteOK(x[1])'
  <2>1. kind(x[1]) \in {"code", "bulk"}
    BY <1>0 DEF RouteOK
  <2>2. Cardinality(askedOf(x[1]))' = Cardinality(askedOf(x[1]))
    BY <1>3, NothingMoreAsked
  <2>3. Cardinality(askedOf(x[1]))' = route'[x[1]].used
    BY <1>0, <2>1, <2>2 DEF RouteOK
  <2> QED BY <1>0, <1>5, <2>3, SearchRoute
<1>11. LookupOK'
  <2>1. \A q \in {} : q \in probesFor(x[1], kind(x[1]))
    OBVIOUS
  <2> QED BY <1>5, <1>8, <1>9, <1>10, <2>1, SearchSteps
<1>12. route' \in [Request -> RouteState]
  BY Typed
<1> QED BY <1>1, <1>3, <1>4, <1>11, <1>12 DEF SearchMoves

\* What a search that has nothing left under way may rest its end on.
LEMMA NothingUnderway ==
    ASSUME TypeOK, LookupOK, NEW x \in Target, searching(x),
           \/ resolver[x].phase = "first" /\ done(candidate(x, 0))
           \/ resolver[x].phase # "first" /\ \A i \in unread(x) : done(candidate(x, i))
    PROVE  \A q \in Probe : <<q[1], q[2]>> = x => ~underway(q)
<1> SUFFICES ASSUME NEW q \in Probe, <<q[1], q[2]>> = x, underway(q) PROVE FALSE
  OBVIOUS
<1>1. PlaceOK(q) /\ q = candidate(x, q[3]) /\ q[1] = x[1]
  BY CandidateOf DEF LookupOK
<1>2. x[1] \in Request /\ SearchOK(x)
  BY TargetParts DEF LookupOK
<1>3. route[x[1]].phase = "resolving"
  BY <1>2 DEF SearchOK
<1>4. \/ resolver[x].phase = "first" /\ q[3] = 0
      \/ resolver[x].phase \in {"pool", "settling"} /\ q[3] \in unread(x)
  BY <1>1, <1>3 DEF PlaceOK
<1> QED BY <1>1, <1>4 DEF done, underway

LEMMA EndsNow ==
    ASSUME TypeOK, LookupOK, NEW x \in Target, searching(x), scenario' = scenario,
           NEW verdict \in {undecided, notFound, failed} \cup (0..NumCandidates),
           endTarget(x, verdict),
           \/ resolver[x].phase = "first" /\ done(candidate(x, 0))
           \/ resolver[x].phase # "first" /\ \A i \in unread(x) : done(candidate(x, i)),
           verdict \in 0..NumCandidates =>
               /\ said(x, verdict, "match")
               /\ \A i \in 0..(verdict - 1) : said(x, i, "other"),
           verdict = notFound => \A i \in 0..NumCandidates : said(x, i, "other")
    PROVE  SearchMoves
<1>1. \A q \in Probe : <<q[1], q[2]>> = x => ~underway(q)
  BY NothingUnderway
<1>2. PICK s \in ResolverState : s = resolver[x]
  BY Typed
<1>3. PICK v : v = [s EXCEPT !.phase = "ended", !.verdict = verdict]
  OBVIOUS
<1>4. v \in ResolverState /\ v.phase = "ended" /\ v.verdict = verdict /\ v.next = s.next
  BY <1>3 DEF ResolverState
<1>5. resolver' = [resolver EXCEPT ![x] = v]
  <2>1. resolver \in [Target -> ResolverState]
    BY Typed
  <2>2. resolver' = [resolver EXCEPT ![x].phase = "ended", ![x].verdict = verdict]
    BY DEF endTarget
  <2> QED BY <1>2, <1>3, <2>1, <2>2
<1>6. \/ UNCHANGED <<route, probe>>
      \/ /\ route' = [route EXCEPT ![x[1]].cancelled = TRUE]
         /\ probe' = cutOff(probesOf(x[1]), "abort")
  BY DEF endTarget
<1> QED BY <1>1, <1>2, <1>4, <1>5, <1>6, EndTargetMoves

LEMMA FirstEndsMoves ==
    ASSUME TypeOK, LookupOK, NEW x \in Target, FirstEnds(x)
    PROVE  SearchStep /\ coordinatorStep /\ cancels' = cancels
<1>0. /\ resolver[x].phase = "first" /\ done(candidate(x, 0)) /\ searching(x)
      /\ Calm /\ coordinatorStep /\ cancels' = cancels /\ scenario' = scenario
  BY FaultsFall DEF FirstEnds, Calm, coordinatorStep, coordinatorVars, budgetVars, searching
<1>1. SearchOK(x)
  BY DEF LookupOK
<1>2. PICK s \in ResolverState : s = resolver[x]
  BY Typed
<1>3. s.next = 1 /\ s.taken = {}
  BY <1>0, <1>1, <1>2 DEF SearchOK
<1>4. CASE endTarget(x, failed)
  <2>1. failed \notin 0..NumCandidates /\ failed # notFound
    BY DEF failed, notFound
  <2>2. SearchMoves
    BY <1>0, <1>4, <2>1, EndsNow
  <2> QED BY <1>0, <2>2 DEF SearchStep
<1>5. CASE endTarget(x, 0) /\ probe[candidate(x, 0)].outcome = "match"
  <2>1. PICK n \in 0..NumCandidates : n = 0
    BY Numbers
  <2>2. n # notFound /\ said(x, n, "match") /\ 0..(n - 1) = {}
    BY <1>0, <1>5, <2>1 DEF notFound, said
  <2>3. SearchMoves
    BY <1>0, <1>5, <2>1, <2>2, EndsNow
  <2> QED BY <1>0, <2>3 DEF SearchStep
<1>6. CASE /\ probe[candidate(x, 0)].outcome = "other"
           /\ resolver' = [resolver EXCEPT ![x].phase = "pool", ![x].next = filledTo(x, {})]
           /\ probe' = started(x, 1, filledTo(x, {}))
           /\ spends(x[1], filledTo(x, {}) - 1)
  <2>1. PICK taken : taken = {}
    OBVIOUS
  <2>2. unread(x) \ taken = {}
    BY <1>2, <1>3, <2>1 DEF unread
  <2>3. PICK out \in Nat : out = 0
    OBVIOUS
  <2>4. out = Cardinality(unread(x) \ taken)
    BY <2>2, <2>3, FS_EmptySet
  <2>5. poolWidth(x[1]) \in 1..NumCandidates
    BY PoolWidth
  <2>6. taken \in SUBSET (1..NumCandidates) /\ out <= poolWidth(x[1])
    BY <2>1, <2>3, <2>5, Numbers
  <2>7. PICK to : to = filledTo(x, taken)
    OBVIOUS
  <2>8. to \in s.next..MaxProbes /\ to - s.next <= poolWidth(x[1]) - out
    BY <1>2, <2>4, <2>6, <2>7, FilledTo
  <2>9. to \in Nat /\ 1 <= to /\ to <= MaxProbes /\ out + (to - 1) <= poolWidth(x[1])
    BY <1>3, <2>3, <2>5, <2>8, Numbers
  <2>10. PICK v : v = [s EXCEPT !.phase = "pool", !.next = to]
    OBVIOUS
  <2>11. v \in ResolverState /\ v.phase = "pool" /\ v.next = to /\ v.taken = taken
    <3>1. to \in 1..MaxProbes
      BY <2>9, Numbers
    <3> QED BY <1>3, <2>1, <2>10, <3>1 DEF ResolverState
  <2>12. resolver' = [resolver EXCEPT ![x] = v]
    <3>1. resolver \in [Target -> ResolverState]
      BY Typed
    <3>2. resolver' = [resolver EXCEPT ![x].phase = "pool", ![x].next = to]
      BY <1>6, <2>1, <2>7
    <3> QED BY <1>2, <2>10, <3>1, <3>2
  <2>13. winners(x, taken) = {} /\ said(x, 0, "other")
    BY <1>0, <1>6, <2>1 DEF winners, matches, said
  <2>14. PICK from \in Nat : from = 1
    OBVIOUS
  <2>15. probe' = started(x, from, to) /\ spends(x[1], to - from)
    BY <1>6, <2>1, <2>7, <2>14
  <2>16. \A q \in Probe : <<q[1], q[2]>> = x => ~underway(q)
    BY <1>0, NothingUnderway
  <2>17. /\ from = resolver[x].next /\ from <= to /\ 1 <= from /\ resolver[x].taken \subseteq taken
         /\ taken \subseteq 1..(from - 1) /\ out + (to - from) <= poolWidth(x[1])
    BY <1>2, <1>3, <2>1, <2>9, <2>14
  <2>18. \A i \in taken : said(x, i, "match") \/ said(x, i, "other")
    BY <2>1
  <2>19. SearchMoves
    BY <1>0, <2>4, <2>6, <2>9, <2>11, <2>12, <2>13, <2>15, <2>16, <2>17, <2>18, PoolMoves
  <2> QED BY <1>0, <2>19 DEF SearchStep
<1> QED BY <1>4, <1>5, <1>6 DEF FirstEnds

LEMMA CallerCancelledMoves ==
    ASSUME TypeOK, LookupOK, NEW x \in Target, CallerCancelled(x)
    PROVE  SearchStep /\ coordinatorStep /\ cancels' = cancels
<1>0. /\ resolver[x].phase = "pool" /\ route' = route
      /\ Calm /\ coordinatorStep /\ cancels' = cancels /\ scenario' = scenario
  BY FaultsFall DEF CallerCancelled, Calm, coordinatorStep, coordinatorVars, budgetVars
<1>1. SearchOK(x)
  BY DEF LookupOK
<1>2. PICK s \in ResolverState : s = resolver[x]
  BY Typed
<1>3. PICK v : v = [s EXCEPT !.phase = "settling", !.verdict = failed]
  OBVIOUS
<1>4. v \in ResolverState /\ v.phase = "settling" /\ v.verdict = failed /\ v.next = s.next
      /\ v.taken = s.taken /\ s.taken \in SUBSET (1..NumCandidates)
  BY <1>3 DEF ResolverState
<1>5. resolver' = [resolver EXCEPT ![x] = v]
  <2>1. resolver \in [Target -> ResolverState]
    BY Typed
  <2>2. resolver' = [resolver EXCEPT ![x].phase = "settling", ![x].verdict = failed]
    BY DEF CallerCancelled
  <2> QED BY <1>2, <1>3, <2>1, <2>2
<1>6. s.taken \subseteq 1..(s.next - 1) /\ \A i \in s.taken : done(candidate(x, i))
  BY <1>0, <1>1, <1>2 DEF SearchOK
<1>7. failed \notin 0..NumCandidates /\ failed # notFound
  BY DEF failed, notFound
<1>8. PICK ps : probe' = cutOff(ps, "abort")
  BY DEF CallerCancelled
<1>9. SearchMoves
  BY <1>0, <1>2, <1>4, <1>5, <1>6, <1>7, <1>8, SettlingMoves
<1> QED BY <1>0, <1>9 DEF SearchStep

LEMMA SettledMoves ==
    ASSUME TypeOK, LookupOK, NEW x \in Target, Settled(x)
    PROVE  SearchStep /\ coordinatorStep /\ cancels' = cancels
<1>0. /\ resolver[x].phase = "settling" /\ searching(x)
      /\ \A i \in unread(x) : done(candidate(x, i))
      /\ Calm /\ coordinatorStep /\ cancels' = cancels /\ scenario' = scenario
  BY FaultsFall DEF Settled, Calm, coordinatorStep, coordinatorVars, budgetVars, searching
<1>1. SearchOK(x)
  BY DEF LookupOK
<1>2. failed \notin 0..NumCandidates /\ failed # notFound
  BY DEF failed, notFound
<1>3. PICK verdict \in {failed, resolver[x].verdict} : endTarget(x, verdict)
  BY DEF Settled
<1>4. verdict \in {undecided, notFound, failed} \cup (0..NumCandidates)
  BY <1>3, Typed DEF ResolverState
<1>5. /\ verdict \in 0..NumCandidates =>
           /\ said(x, verdict, "match")
           /\ \A i \in 0..(verdict - 1) : said(x, i, "other")
      /\ verdict = notFound => \A i \in 0..NumCandidates : said(x, i, "other")
  <2>1. CASE verdict = failed
    BY <1>2, <2>1
  <2>2. CASE verdict = resolver[x].verdict
    BY <1>0, <1>1, <2>2 DEF SearchOK
  <2> QED BY <1>3, <2>1, <2>2
<1>6. SearchMoves
  BY <1>0, <1>3, <1>4, <1>5, EndsNow
<1> QED BY <1>0, <1>6 DEF SearchStep

\* The least winner is the first candidate that matches.
LEMMA FirstWinner ==
    ASSUME NEW x, NEW taken \in SUBSET (1..NumCandidates), winners(x, taken) # {},
           \A i \in taken : said(x, i, "match") \/ said(x, i, "other"), said(x, 0, "other")
    PROVE  /\ Min(winners(x, taken)) \in 1..NumCandidates
           /\ said(x, Min(winners(x, taken)), "match")
           /\ \A i \in 0..(Min(winners(x, taken)) - 1) : said(x, i, "other")
<1>1. PICK W : W = winners(x, taken)
  OBVIOUS
<1>2. W = {i \in taken : probe[candidate(x, i)].outcome = "match" /\ 1..i \subseteq taken}
  BY <1>1 DEF winners, matches
<1>3. W \subseteq Nat /\ NumCandidates \in Nat
  <2>1. NumCandidates \in Nat
    BY Numbers
  <2>2. 1..NumCandidates \subseteq Nat
    BY <2>1
  <2>3. W \subseteq taken
    BY <1>2
  <2> QED BY <2>1, <2>2, <2>3
<1>4. PICK m : m = Min(W)
  OBVIOUS
<1>5. m \in W /\ \A n \in W : m <= n
  BY <1>1, <1>3, <1>4, MinIsLeast
<1>6. m \in 1..NumCandidates /\ m \in taken /\ probe[candidate(x, m)].outcome = "match"
      /\ 1..m \subseteq taken
  BY <1>2, <1>5
<1>7. said(x, m, "match")
  BY <1>6 DEF said
<1>8. ASSUME NEW i \in 0..(m - 1) PROVE said(x, i, "other")
  <2>1. CASE i = 0
    BY <2>1
  <2>2. CASE i # 0
    <3>1. i \in 1..m /\ 1..i \subseteq 1..m /\ i < m /\ i \in taken
      BY <1>3, <1>6, <2>2
    <3>2. 1..i \subseteq taken
      BY <1>6, <3>1
    <3>3. i \notin W
      BY <1>3, <1>5, <1>6, <3>1
    <3>4. probe[candidate(x, i)].outcome # "match"
      BY <1>2, <3>1, <3>2, <3>3
    <3> QED BY <3>1, <3>4 DEF said
  <2> QED BY <2>1, <2>2
<1> QED BY <1>1, <1>4, <1>6, <1>7, <1>8

LEMMA TakeAnswerMoves ==
    ASSUME TypeOK, LookupOK, NEW x \in Target, NEW i \in unread(x), TakeAnswer(x, i)
    PROVE  SearchStep /\ coordinatorStep /\ cancels' = cancels
<1>0. /\ resolver[x].phase = "pool" /\ done(candidate(x, i)) /\ searching(x)
      /\ Calm /\ coordinatorStep /\ cancels' = cancels /\ scenario' = scenario
  BY FaultsFall DEF TakeAnswer, Calm, coordinatorStep, coordinatorVars, budgetVars, searching
<1>1. SearchOK(x)
  BY DEF LookupOK
<1>2. PICK s \in ResolverState : s = resolver[x]
  BY Typed
<1>3. /\ s.taken \subseteq 1..(s.next - 1) /\ \A j \in s.taken : done(candidate(x, j))
      /\ said(x, 0, "other")
      /\ \A j \in s.taken : said(x, j, "match") \/ said(x, j, "other")
      /\ Cardinality(unread(x)) <= poolWidth(x[1])
  BY <1>0, <1>1, <1>2 DEF SearchOK
<1>4. PICK taken : taken = s.taken \cup {i}
  OBVIOUS
<1>5. /\ taken \in SUBSET (1..NumCandidates) /\ s.taken \subseteq taken
      /\ taken \subseteq 1..(s.next - 1) /\ \A j \in taken : done(candidate(x, j))
  <2>1. i \in 1..(s.next - 1) /\ i \in 1..NumCandidates
    BY <1>2, UnreadFinite DEF unread
  <2>2. s.taken \in SUBSET (1..NumCandidates)
    BY DEF ResolverState
  <2> QED BY <1>0, <1>3, <1>4, <2>1, <2>2
<1>6. unread(x) \ taken = unread(x) \ {i}
  BY <1>2, <1>4 DEF unread
<1>7. PICK out : out = Cardinality(unread(x) \ taken)
  OBVIOUS
<1>8. out \in Nat /\ out <= poolWidth(x[1]) /\ poolWidth(x[1]) \in 1..NumCandidates
  <2>1. IsFiniteSet(unread(x))
    BY UnreadFinite
  <2>2. /\ IsFiniteSet(unread(x) \ taken)
        /\ Cardinality(unread(x) \ taken) <= Cardinality(unread(x))
    BY <2>1, FS_Subset
  <2>3. Cardinality(unread(x)) \in Nat /\ out \in Nat
    BY <1>7, <2>1, <2>2, FS_CardinalityType
  <2>4. poolWidth(x[1]) \in 1..NumCandidates
    BY PoolWidth
  <2> QED BY <1>3, <1>7, <2>2, <2>3, <2>4
<1>9. s.next \in 1..MaxProbes /\ resolver \in [Target -> ResolverState]
  BY Typed DEF ResolverState
<1>10. CASE /\ resolver' = [resolver EXCEPT ![x].phase = "settling", ![x].taken = taken,
                                            ![x].verdict = failed]
            /\ route' = route /\ \E ps : probe' = cutOff(ps, "abort")
  <2>1. PICK v : v = [s EXCEPT !.phase = "settling", !.taken = taken, !.verdict = failed]
    OBVIOUS
  <2>2. v \in ResolverState /\ v.phase = "settling" /\ v.verdict = failed /\ v.next = s.next
        /\ v.taken = taken
    BY <1>5, <2>1 DEF ResolverState
  <2>3. resolver' = [resolver EXCEPT ![x] = v]
    BY <1>2, <1>9, <1>10, <2>1
  <2>4. failed \notin 0..NumCandidates /\ failed # notFound
    BY DEF failed, notFound
  <2>5. PICK ps : probe' = cutOff(ps, "abort")
    BY <1>10
  <2>6. SearchMoves
    BY <1>0, <1>2, <1>5, <1>10, <2>2, <2>3, <2>4, <2>5, SettlingMoves
  <2> QED BY <1>0, <2>6 DEF SearchStep
<1>11. ASSUME probe[candidate(x, i)].outcome \in {"match", "other"}
       PROVE  \A j \in taken : said(x, j, "match") \/ said(x, j, "other")
  BY <1>0, <1>3, <1>4, <1>11 DEF said
<1>12. CASE /\ probe[candidate(x, i)].outcome \in {"match", "other"}
            /\ winners(x, taken) # {}
            /\ resolver' = [resolver EXCEPT ![x].phase = "settling", ![x].taken = taken,
                                            ![x].verdict = Min(winners(x, taken))]
            /\ route' = route /\ \E ps : probe' = cutOff(ps, "abort")
  <2>1. PICK m : m = Min(winners(x, taken))
    OBVIOUS
  <2>2. m \in 1..NumCandidates /\ said(x, m, "match") /\ \A j \in 0..(m - 1) : said(x, j, "other")
    BY <1>3, <1>5, <1>11, <1>12, <2>1, FirstWinner
  <2>3. m \in 0..NumCandidates /\ m # notFound
    BY <2>2, Numbers DEF notFound
  <2>4. PICK v : v = [s EXCEPT !.phase = "settling", !.taken = taken, !.verdict = m]
    OBVIOUS
  <2>5. v \in ResolverState /\ v.phase = "settling" /\ v.verdict = m /\ v.next = s.next
        /\ v.taken = taken
    BY <1>5, <2>3, <2>4 DEF ResolverState
  <2>6. resolver' = [resolver EXCEPT ![x] = v]
    BY <1>2, <1>9, <1>12, <2>1, <2>4
  <2>7. PICK ps : probe' = cutOff(ps, "abort")
    BY <1>12
  <2>8. SearchMoves
    BY <1>0, <1>2, <1>5, <1>12, <2>2, <2>3, <2>5, <2>6, <2>7, SettlingMoves
  <2> QED BY <1>0, <2>8 DEF SearchStep
<1>13. PICK filled : filled = filledTo(x, taken)
  OBVIOUS
<1>14. /\ filled \in s.next..MaxProbes /\ filled - s.next <= poolWidth(x[1]) - out
       /\ filled = s.next /\ out < poolWidth(x[1]) /\ matches(x, taken) = {} => s.next = MaxProbes
  BY <1>2, <1>5, <1>7, <1>8, <1>13, FilledTo
<1>15. CASE /\ probe[candidate(x, i)].outcome \in {"match", "other"}
            /\ winners(x, taken) = {}
            /\ unread(x) \ {i} = {} /\ filled = s.next
            /\ resolver' = [resolver EXCEPT ![x].phase = "ended", ![x].taken = taken,
                                            ![x].verdict = notFound]
            /\ UNCHANGED <<route, probe>>
  <2>1. taken = 1..(s.next - 1)
    BY <1>2, <1>4, <1>5, <1>6, <1>15 DEF unread
  <2>2. matches(x, taken) = {}
    <3> SUFFICES ASSUME NEW m \in matches(x, taken) PROVE FALSE
      OBVIOUS
    <3>1. m \in taken
      BY DEF matches
    <3>2. 1..m \subseteq taken
      BY <1>9, <2>1, <3>1, Numbers
    <3> QED BY <1>15, <3>2 DEF winners
  <2>3. out = 0
    BY <1>6, <1>7, <1>15, FS_EmptySet
  <2>4. s.next = MaxProbes
    BY <1>8, <1>14, <1>15, <2>2, <2>3, Numbers
  <2>5. taken = 1..NumCandidates
    BY <2>1, <2>4, Numbers
  <2>6. \A j \in taken : said(x, j, "other")
    BY <1>11, <1>15, <2>2 DEF said, matches
  <2>7. \A j \in 0..NumCandidates : j = 0 \/ j \in taken
    BY <2>5, Numbers
  <2>8. \A j \in 0..NumCandidates : said(x, j, "other")
    BY <1>3, <2>6, <2>7
  <2>9. PICK v : v = [s EXCEPT !.phase = "ended", !.taken = taken, !.verdict = notFound]
    OBVIOUS
  <2>10. v \in ResolverState /\ v.phase = "ended" /\ v.verdict = notFound /\ v.next = s.next
    BY <1>5, <2>9 DEF ResolverState
  <2>11. resolver' = [resolver EXCEPT ![x] = v]
    BY <1>2, <1>9, <1>15, <2>9
  <2>12. notFound \notin 0..NumCandidates
    BY DEF notFound
  <2>13. \A q \in Probe : <<q[1], q[2]>> = x => ~underway(q)
    <3>1. \A j \in unread(x) : done(candidate(x, j))
      BY <1>0, <1>15
    <3> QED BY <1>0, <3>1, NothingUnderway
  <2>14. SearchMoves
    BY <1>0, <1>2, <1>15, <2>8, <2>10, <2>11, <2>12, <2>13, EndTargetMoves
  <2> QED BY <1>0, <2>14 DEF SearchStep
<1>16. CASE /\ probe[candidate(x, i)].outcome \in {"match", "other"}
            /\ winners(x, taken) = {}
            /\ resolver' = [resolver EXCEPT ![x].taken = taken, ![x].next = filled]
            /\ probe' = started(x, s.next, filled)
            /\ spends(x[1], filled - s.next)
  <2>1. PICK v : v = [s EXCEPT !.taken = taken, !.next = filled]
    OBVIOUS
  <2>2. filled \in 1..MaxProbes /\ filled \in Nat /\ s.next \in Nat /\ 1 <= s.next /\ s.next <= filled
        /\ filled <= MaxProbes /\ out + (filled - s.next) <= poolWidth(x[1])
    BY <1>8, <1>9, <1>14, Numbers
  <2>3. v \in ResolverState /\ v.phase = "pool" /\ v.next = filled /\ v.taken = taken
    BY <1>0, <1>2, <1>5, <2>1, <2>2 DEF ResolverState
  <2>4. resolver' = [resolver EXCEPT ![x] = v]
    BY <1>2, <1>9, <1>16, <2>1
  <2>5. PICK from \in Nat : from = s.next
    BY <2>2
  <2>6. \A q \in Probe : <<q[1], q[2]>> = x /\ underway(q) => q[3] \in unread(x) \ taken
    <3> SUFFICES ASSUME NEW q \in Probe, <<q[1], q[2]>> = x, underway(q) PROVE q[3] \in unread(x) \ taken
      OBVIOUS
    <3>1. PlaceOK(q) /\ q = candidate(x, q[3]) /\ q[1] = x[1]
      BY CandidateOf DEF LookupOK
    <3>2. route[x[1]].phase = "resolving"
      BY <1>0, <1>1 DEF SearchOK
    <3>3. q[3] \in unread(x)
      BY <1>0, <3>1, <3>2 DEF PlaceOK
    <3>4. q[3] \notin taken
      BY <1>5, <3>1 DEF done, underway
    <3> QED BY <3>3, <3>4
  <2>7. probe' = started(x, from, filled) /\ spends(x[1], filled - from)
    BY <1>16, <2>5
  <2>8. from = resolver[x].next /\ from <= filled /\ 1 <= from /\ resolver[x].taken \subseteq taken
        /\ taken \subseteq 1..(from - 1) /\ out + (filled - from) <= poolWidth(x[1])
    BY <1>2, <1>5, <2>2, <2>5
  <2>9. SearchMoves
    BY <1>0, <1>3, <1>5, <1>7, <1>8, <1>11, <1>16, <2>2, <2>3, <2>4, <2>6, <2>7, <2>8, PoolMoves
  <2> QED BY <1>0, <2>9 DEF SearchStep
<1>17. {candidate(x, j) : j \in unread(x) \ {i}} = {} => unread(x) \ {i} = {}
  OBVIOUS
<1> QED BY <1>2, <1>4, <1>10, <1>12, <1>13, <1>15, <1>16, <1>17 DEF TakeAnswer

-----------------------------------------------------------------------------
(* Types, leases and searches, whatever the step.                          *)

Sound == TypeOK /\ LeasesOK /\ LookupOK

detailTypes == detail' \in [Detail -> DetailState] /\ issued' \subseteq Request

LEMMA TypesKept ==
    ASSUME TypeOK, coordinatorStep, probe' \in [Probe -> ProbeState], faults' \in Nat,
           scenario' = scenario, route' \in [Request -> RouteState],
           resolver' \in [Target -> ResolverState], cancels' \in Nat, detailTypes
    PROVE  TypeOK'
<1>1. /\ store' \in {"durable", "redis"} /\ now' \in 0..MaxTime
      /\ window' \in [count: 0..BudgetLimit, resetAt: Instant]
      /\ leases' \in [Probe -> Instant]
      /\ permits' \in [Permit -> PermitState]
      /\ detailWindow' \in [count: 0..DetailBudget, resetAt: Instant]
      /\ detailLeases' \in [Detail -> Instant]
      /\ alarm' \in Instant
  BY CoordinatorType, Typed
<1>2. scenario' \in Scenario
  BY Typed
<1> QED BY <1>1, <1>2 DEF detailTypes, TypeOK, BudgetTypeOK, ProbeTypeOK, LookupTypeOK,
           ProbeState, RouteState, ResolverState, PermitState, DetailState

\* A step that leaves the leases alone.
LEMMA CalmKeeps ==
    ASSUME Sound, NEW S, Starting(S), Calm, coordinatorStep,
           route' \in [Request -> RouteState], resolver' \in [Target -> ResolverState],
           cancels' \in Nat, detailTypes, LookupOK'
    PROVE  Sound'
<1>1. TypeOK /\ LeasesOK /\ \A q \in Probe : PlaceOK(q)
  BY DEF Sound, LookupOK
<1>2. now' = now /\ leases' = leases /\ scenario' = scenario /\ faults' \in Nat /\ faults' <= faults
  BY DEF Calm
<1>3. TypeOK'
  BY <1>1, <1>2, TypesKept DEF Starting
<1>4. active(leases)' = active(leases) /\ \A q \in Probe : leaseStays(q)
  <2>1. active(leases)' = active(leases)
    BY <1>2 DEF active
  <2> QED BY <1>2, <2>1 DEF leaseStays
<1>5. leases' \in [Probe -> Instant]
  BY <1>1, <1>2, Typed
<1>6. LeasesOK'
  BY <1>1, <1>2, <1>4, <1>5, StartingLeases
<1> QED BY <1>3, <1>6 DEF Sound

LEMMA RouteStepSound ==
    ASSUME Sound, NEW r \in Request, RouteStep(r), Calm, coordinatorStep,
           resolver' = resolver, cancels' \in Nat, detailTypes
    PROVE  Sound'
<1>1. TypeOK /\ LookupOK
  BY DEF Sound
<1>2. LookupOK'
  BY <1>1, RouteStepKeeps
<1>3. PICK S : Starting(S)
  BY DEF RouteStep, Moved
<1>4. route' \in [Request -> RouteState] /\ resolver' \in [Target -> ResolverState]
  BY <1>1, Typed DEF RouteStep
<1> QED BY <1>2, <1>3, <1>4, CalmKeeps

LEMMA SearchStepSound ==
    ASSUME Sound, SearchStep, coordinatorStep, cancels' = cancels, UNCHANGED detailVars
    PROVE  Sound'
<1>1. PICK S : Starting(S)
  BY DEF SearchStep, SearchMoves
<1>2. /\ LookupOK' /\ Calm /\ route' \in [Request -> RouteState]
      /\ resolver' \in [Target -> ResolverState]
  BY DEF SearchStep, SearchMoves
<1>3. cancels' \in Nat /\ detailTypes
  BY Typed DEF Sound, detailVars, detailTypes
<1> QED BY <1>1, <1>2, <1>3, CalmKeeps

LEMMA PortalStepSound ==
    ASSUME Sound, NEW p \in Probe, PortalStep(p), UNCHANGED detailVars
    PROVE  Sound'
<1>1. /\ TypeOK /\ LeasesOK /\ LookupOK /\ ProbeStep(p) /\ PlaceOK(p)
      /\ scenario' = scenario /\ route' = route /\ resolver' = resolver /\ cancels' = cancels
  BY DEF Sound, PortalStep, lookupVars, LookupOK
<1>2. LeasesOK'
  BY <1>1, PortalLeases
<1>3. LookupOK'
  BY <1>1, PortalStays DEF LookupOK
<1>4. /\ coordinatorStep /\ faults' \in Nat
      /\ \E v : becomes(p, v)
  BY <1>1, PortalMoves
<1>5. probe' \in [Probe -> ProbeState]
  BY <1>1, <1>4, Typed DEF becomes
<1>6. /\ route' \in [Request -> RouteState] /\ resolver' \in [Target -> ResolverState]
      /\ cancels' \in Nat /\ detailTypes
  BY <1>1, Typed DEF detailVars, detailTypes
<1>7. TypeOK'
  BY <1>1, <1>4, <1>5, <1>6, TypesKept
<1> QED BY <1>2, <1>3, <1>7 DEF Sound

\* Steps that leave the requests to the portal and the routes alone.
LEMMA StillKeeps ==
    ASSUME TypeOK, LookupOK, UNCHANGED <<probeVars, scenario, lookupVars>>
    PROVE  LookupOK'
<1>1. /\ probe' = probe /\ scenario' = scenario /\ route' = route /\ resolver' = resolver
      /\ Starting({})
  BY KeptAll DEF probeVars, lookupVars
<1>2. \A q \in Probe : /\ Onward(q) /\ (asked(q)' <=> asked(q)) /\ (underway(q)' <=> underway(q))
  BY <1>1, StartingOnward
<1>3. ASSUME NEW q \in Probe PROVE PlaceOK(q)'
  <2>1. PlaceOK(q)
    BY DEF LookupOK
  <2>2. probe'[q].call # "none" => probe'[q].at \in {"acquiring", "done"}
    BY <1>1, <2>1 DEF PlaceOK
  <2> QED BY <1>1, <1>2, <2>1, <2>2, PlaceStays
<1>4. ASSUME NEW x \in Target PROVE SearchOK(x)'
  <2>1. SearchOK(x)
    BY DEF LookupOK
  <2>2. searching(x) => route'[x[1]].phase = "resolving"
    BY <1>1, <2>1 DEF SearchOK
  <2> QED BY <1>1, <1>2, <2>1, <2>2, SearchStays
<1>5. ASSUME NEW r \in Request PROVE RouteOK(r)'
  <2>1. RouteOK(r)
    BY DEF LookupOK
  <2> QED BY <1>1, <1>2, <2>1, RouteStays
<1> QED BY <1>3, <1>4, <1>5 DEF LookupOK

LEMMA StillSound ==
    ASSUME Sound, UNCHANGED <<probeVars, scenario, lookupVars>>, detailTypes,
           AlarmFires \/ UNCHANGED coordinatorVars
    PROVE  Sound'
<1>1. /\ TypeOK /\ LeasesOK /\ LookupOK /\ probe' = probe /\ faults' = faults
      /\ scenario' = scenario /\ route' = route /\ resolver' = resolver /\ cancels' = cancels
      /\ \A q \in Probe : PlaceOK(q)
  BY DEF Sound, probeVars, lookupVars, LookupOK
<1>2. coordinatorStep
  BY DEF coordinatorStep
<1>3. /\ probe' \in [Probe -> ProbeState] /\ faults' \in Nat
      /\ route' \in [Request -> RouteState] /\ resolver' \in [Target -> ResolverState]
      /\ cancels' \in Nat
  BY <1>1, Typed
<1>4. TypeOK'
  BY <1>1, <1>2, <1>3, TypesKept
<1>5. LookupOK'
  BY <1>1, StillKeeps
<1>6. LeasesOK'
  <2>1. CASE Probe = {}
    <3>1. active(leases)' = {} /\ stranded' = {}
      <4>1. leases' \in [Probe -> Instant]
        BY <1>4, CoordinatorType, <1>1, <1>2
      <4>2. active(leases)' = {}
        BY <2>1, <4>1 DEF active
      <4> QED BY <4>2 DEF stranded
    <3>2. Cardinality(stranded) = 0 /\ Cardinality(stranded) <= scenario.faults - faults
      <4>1. stranded = {}
        BY <1>1, <2>1, Typed DEF stranded, active
      <4> QED BY <1>1, <4>1, FS_EmptySet DEF LeasesOK
    <3>3. IsFiniteSet(active(leases)') /\ Cardinality(active(leases)') = 0 /\ Cardinality(stranded') = 0
      BY <3>1, FS_EmptySet
    <3> QED BY <1>1, <2>1, <3>2, <3>3, Numbers DEF LeasesOK
  <2>2. CASE Probe # {}
    <3>1. PICK p \in Probe : TRUE
      BY <2>2
    <3>2. /\ now' = now /\ active(leases)' = active(leases)
          /\ \A q \in Probe : leaseStays(q)
      BY <1>1, <3>1, LeaseMoves DEF coordinatorVars, budgetVars
    <3>3. leases' \in [Probe -> Instant] /\ faults' <= faults
      BY <1>1, <1>2, CoordinatorType, Typed
    <3>4. Starting({})
      BY <1>1, KeptAll
    <3> QED BY <1>1, <1>3, <3>2, <3>3, <3>4, StartingLeases
  <2> QED BY <2>1, <2>2
<1> QED BY <1>4, <1>5, <1>6 DEF Sound

\* Time passes only when no timer is due: whoever works has time left.
LEMMA TickSound ==
    ASSUME Sound, Tick, UNCHANGED detailVars
    PROVE  Sound'
<1>0. /\ TypeOK /\ LeasesOK /\ LookupOK /\ now < scenario.until /\ ~probeUrgent /\ now' = now + 1
      /\ UNCHANGED <<store, budgetVars, probeVars, scenario, lookupVars>>
  BY DEF Sound, Tick
<1>1. /\ probe' = probe /\ faults' = faults /\ scenario' = scenario /\ route' = route
      /\ resolver' = resolver /\ cancels' = cancels /\ leases' = leases /\ store' = store
      /\ window' = window /\ permits' = permits /\ detailWindow' = detailWindow
      /\ detailLeases' = detailLeases /\ alarm' = alarm /\ detail' = detail /\ issued' = issued
  BY <1>0 DEF budgetVars, probeVars, lookupVars, detailVars
<1>2. now \in 0..MaxTime /\ now' \in 0..MaxTime
  <2>1. now \in 0..MaxTime /\ scenario \in Scenario
    BY <1>0, Typed
  <2>2. scenario.until \in 0..MaxTime
    BY <2>1, LookupAssumption
  <2> QED BY <1>0, <2>1, <2>2, Numbers
<1>3. TypeOK'
  BY <1>0, <1>1, <1>2 DEF TypeOK, BudgetTypeOK, ProbeTypeOK, LookupTypeOK
<1>4. LookupOK'
  BY <1>0, StillKeeps
<1>5. active(leases)' \subseteq active(leases) /\ stranded' \subseteq stranded
  <2>1. leases \in [Probe -> Nat]
    BY <1>0, Typed, Instants
  <2>2. active(leases)' \subseteq active(leases)
    BY <1>0, <1>1, <1>2, <2>1 DEF active
  <2> QED BY <1>1, <2>2 DEF stranded, holding
<1>6. /\ IsFiniteSet(active(leases)') /\ Cardinality(active(leases)') <= PermitLimit
      /\ Cardinality(stranded') <= scenario'.faults - faults'
  <2>1. IsFiniteSet(active(leases)) /\ IsFiniteSet(stranded)
    BY <1>0, FS_Subset DEF LeasesOK, stranded
  <2>2. /\ IsFiniteSet(active(leases)') /\ IsFiniteSet(stranded')
        /\ Cardinality(active(leases)') <= Cardinality(active(leases))
        /\ Cardinality(stranded') <= Cardinality(stranded)
    BY <1>5, <2>1, FS_Subset
  <2>3. /\ Cardinality(active(leases)) \in Nat /\ Cardinality(stranded) \in Nat
        /\ Cardinality(active(leases)') \in Nat /\ Cardinality(stranded') \in Nat
    BY <2>1, <2>2, FS_CardinalityType
  <2>4. scenario.faults \in Nat /\ faults \in Nat
    BY <1>0, Typed, LookupAssumption
  <2>5. Cardinality(active(leases)) <= PermitLimit /\ Cardinality(stranded) <= scenario.faults - faults
    BY <1>0 DEF LeasesOK
  <2>6. Cardinality(active(leases)') <= PermitLimit
    BY <2>2, <2>3, <2>5, Numbers
  <2>7. Cardinality(stranded') <= scenario.faults - faults
    BY <2>2, <2>3, <2>4, <2>5
  <2> QED BY <1>1, <2>2, <2>6, <2>7
<1>7. ASSUME NEW q \in Probe PROVE Timely(q)'
  <2>1. PICK s \in ProbeState : s = probe[q]
    BY <1>0, Typed
  <2>2. /\ s.since <= now
        /\ s.at \in {"acquiring", "working"} /\ (s.cut = "none" \/ s.at = "working") =>
             /\ now <= s.since + RouteTime
             /\ s.call = "granted" \/ s.at = "working" => leases[q] >= s.since + LeaseTime
    BY <1>0, <2>1 DEF LeasesOK, Timely
  <2>3. s.since \in Nat
    BY DEF ProbeState
  <2>4. s.at \in {"acquiring", "working"} => ~ (s.cut = "none" /\ now >= s.since + RouteTime)
    BY <1>0, <2>1 DEF probeUrgent, timerDue
  <2>5. s.at = "working" => s.cut = "none"
    BY <1>0, <2>1 DEF probeUrgent
  <2>6. s.at \in {"acquiring", "working"} /\ (s.cut = "none" \/ s.at = "working") =>
            now + 1 <= s.since + RouteTime
    BY <1>2, <2>3, <2>4, <2>5, Numbers
  <2> QED BY <1>0, <1>1, <1>2, <2>1, <2>2, <2>3, <2>6 DEF Timely
<1> QED BY <1>3, <1>4, <1>6, <1>7 DEF Sound, LeasesOK

-----------------------------------------------------------------------------
(* What is paid for.                                                       *)

ReservationsKept ==
    \A s \in Request : route'[s].reserved = route[s].reserved /\ route'[s].since = route[s].since

\* A step of a route at work turns no route that has ended or is at its details.
PhasesKept(r) ==
    \A s \in Request :
        \/ route'[s].phase = route[s].phase
        \/ s = r /\ route[r].phase \in {"idle", "resolving", "fetching", "warming"}

LEMMA FinishFrame ==
    ASSUME TypeOK, NEW r \in Request, NEW phase, finish(r, phase)
    PROVE  ReservationsKept /\ \A s \in Request \ {r} : route'[s].phase = route[s].phase
<1>1. route \in [Request -> RouteState] /\ route' = [route EXCEPT ![r].phase = phase]
  BY Typed DEF finish
<1>2. ASSUME NEW s \in Request
      PROVE  /\ route'[s].reserved = route[s].reserved /\ route'[s].since = route[s].since
             /\ s # r => route'[s].phase = route[s].phase
  <2>1. PICK t \in RouteState : t = route[s]
    BY <1>1
  <2>2. route'[s] = IF s = r THEN [t EXCEPT !.phase = phase] ELSE t
    BY <1>1, <2>1
  <2> QED BY <2>1, <2>2 DEF RouteState
<1> QED BY <1>2 DEF ReservationsKept

LEMMA CancelFrame ==
    ASSUME TypeOK, NEW r \in Request, cancelRoute(r)
    PROVE  ReservationsKept /\ \A s \in Request : route'[s].phase = route[s].phase
<1>1. route \in [Request -> RouteState] /\ route' = [route EXCEPT ![r].cancelled = TRUE]
  BY Typed DEF cancelRoute
<1>2. ASSUME NEW s \in Request
      PROVE  /\ route'[s].reserved = route[s].reserved /\ route'[s].since = route[s].since
             /\ route'[s].phase = route[s].phase
  <2>1. PICK t \in RouteState : t = route[s]
    BY <1>1
  <2>2. route'[s] = IF s = r THEN [t EXCEPT !.cancelled = TRUE] ELSE t
    BY <1>1, <2>1
  <2> QED BY <2>1, <2>2 DEF RouteState
<1> QED BY <1>2 DEF ReservationsKept

LEMMA FetchFrame ==
    ASSUME TypeOK, NEW r \in Request,
           route' = [route EXCEPT ![r].phase = "fetching", ![r].used = @ + 1]
    PROVE  ReservationsKept /\ \A s \in Request \ {r} : route'[s].phase = route[s].phase
<1>1. route \in [Request -> RouteState]
  BY Typed
<1>2. ASSUME NEW s \in Request
      PROVE  /\ route'[s].reserved = route[s].reserved /\ route'[s].since = route[s].since
             /\ s # r => route'[s].phase = route[s].phase
  <2>1. PICK t \in RouteState : t = route[s]
    BY <1>1
  <2>2. PICK w : w = [t EXCEPT !.phase = "fetching", !.used = t.used + 1]
    OBVIOUS
  <2>3. w.reserved = t.reserved /\ w.since = t.since
    BY <2>2 DEF RouteState
  <2>4. route'[s] = IF s = r THEN w ELSE t
    BY <1>1, <2>1, <2>2
  <2> QED BY <2>1, <2>3, <2>4
<1> QED BY <1>2 DEF ReservationsKept

LEMMA RouteActionFrames ==
    ASSUME TypeOK, NEW r \in Request
    PROVE  ResolvingEnds(r) \/ CancelRequest(r) \/ DeadlinePasses(r) \/ TranscriptEnds(r)
               \/ StartDetails(r) \/ WarmUpEnds(r) => ReservationsKept /\ PhasesKept(r)
<1>1. ASSUME NEW phase, finish(r, phase),
             route[r].phase \in {"idle", "resolving", "fetching", "warming"}
      PROVE  ReservationsKept /\ PhasesKept(r)
  BY <1>1, FinishFrame DEF PhasesKept
<1>2. ASSUME cancelRoute(r) PROVE ReservationsKept /\ PhasesKept(r)
  BY <1>2, CancelFrame DEF PhasesKept
<1>3. ResolvingEnds(r) => ReservationsKept /\ PhasesKept(r)
  <2> SUFFICES ASSUME ResolvingEnds(r) PROVE ReservationsKept /\ PhasesKept(r)
    OBVIOUS
  <2>1. route[r].phase = "resolving"
    BY DEF ResolvingEnds
  <2>2. \/ \E phase : finish(r, phase)
        \/ route' = [route EXCEPT ![r].phase = "fetching", ![r].used = @ + 1]
    BY DEF ResolvingEnds
  <2>3. route' = [route EXCEPT ![r].phase = "fetching", ![r].used = @ + 1]
            => ReservationsKept /\ PhasesKept(r)
    BY <2>1, FetchFrame DEF PhasesKept
  <2> QED BY <1>1, <2>1, <2>2, <2>3
<1>4. CancelRequest(r) \/ DeadlinePasses(r) => ReservationsKept /\ PhasesKept(r)
  BY <1>2 DEF CancelRequest, DeadlinePasses
<1>5. TranscriptEnds(r) \/ StartDetails(r) \/ WarmUpEnds(r) =>
          /\ \E phase : finish(r, phase)
          /\ route[r].phase \in {"idle", "resolving", "fetching", "warming"}
  BY DEF TranscriptEnds, StartDetails, WarmUpEnds
<1> QED BY <1>1, <1>3, <1>4, <1>5

\* A reservation, of what it cost and when it was made, or nothing.
LEMMA ReserveFrame ==
    ASSUME TypeOK, LookupOK, NEW r \in Request, Reserve(r)
    PROVE  /\ PhasesKept(r) /\ kind(r) \in {"code", "id", "bulk"}
           /\ \A s \in Request \ {r} : route'[s] = route[s]
           /\ \/ Charge(unitsFor(r))
                 /\ (route'[r].reserved = 0
                       \/ (route'[r].reserved = unitsFor(r) /\ route'[r].since = now))
              \/ UNCHANGED coordinatorVars /\ ReservationsKept
<1>1. route[r].phase = "idle" /\ kind(r) \in {"code", "id", "bulk"}
  BY DEF Reserve
<1>2. route[r].reserved = 0 /\ route \in [Request -> RouteState]
  BY <1>1, Typed DEF LookupOK, RouteOK, NoRoute
<1>3. PICK reserved : reserved =
          [route EXCEPT ![r].phase = IF kind(r) = "id" THEN "fetching" ELSE "resolving",
                        ![r].reserved = unitsFor(r),
                        ![r].used = IF kind(r) = "id" THEN 1 ELSE 0,
                        ![r].since = now]
  OBVIOUS
<1>4. \/ Charge(unitsFor(r)) /\ route' = reserved
      \/ UNCHANGED coordinatorVars /\ finish(r, "failed")
      \/ Charge(unitsFor(r)) /\ finish(r, "failed")
  BY <1>3 DEF Reserve, finish
<1>5. CASE finish(r, "failed")
  <2>1. ReservationsKept /\ \A s \in Request \ {r} : route'[s] = route[s]
    BY <1>2, <1>5, FinishFrame DEF finish
  <2>2. PhasesKept(r)
    BY <1>1, <2>1 DEF PhasesKept
  <2>3. route'[r].reserved = 0
    BY <1>2, <2>1 DEF ReservationsKept
  <2> QED BY <1>1, <1>2, <1>3, <1>4, <2>1, <2>2, <2>3
<1>6. CASE Charge(unitsFor(r)) /\ route' = reserved
  <2>1. PICK t \in RouteState : t = route[r]
    BY <1>2
  <2>2. PICK v : v = [t EXCEPT !.phase = IF kind(r) = "id" THEN "fetching" ELSE "resolving",
                               !.reserved = unitsFor(r),
                               !.used = IF kind(r) = "id" THEN 1 ELSE 0,
                               !.since = now]
    OBVIOUS
  <2>3. v.reserved = unitsFor(r) /\ v.since = now
    BY <2>2 DEF RouteState
  <2>4. route' = [route EXCEPT ![r] = v]
    BY <1>2, <1>3, <1>6, <2>1, <2>2
  <2>5. route'[r] = v /\ \A s \in Request \ {r} : route'[s] = route[s]
    BY <1>2, <2>4
  <2>6. PhasesKept(r)
    BY <1>1, <2>5 DEF PhasesKept
  <2> QED BY <1>1, <1>6, <2>3, <2>5, <2>6
<1> QED BY <1>4, <1>5, <1>6

-----------------------------------------------------------------------------
(* The window of probe units.                                              *)

LEMMA UnitsStay ==
    ASSUME TypeOK, UnitsOK, ReservationsKept, window' = window, now' \in Nat, now <= now'
    PROVE  UnitsOK'
<1>1. units' = units
  BY DEF units, inWindow, ReservationsKept
<1>2. route \in [Request -> RouteState] /\ now \in Nat
  BY Typed
<1>3. \A r \in Request : route'[r].reserved > 0 =>
           route'[r].since <= now' /\ route'[r].since < window'.resetAt
  <2> SUFFICES ASSUME NEW r \in Request, route'[r].reserved > 0
               PROVE  route'[r].since <= now' /\ route'[r].since < window'.resetAt
    OBVIOUS
  <2>1. PICK n \in Nat : n = route[r].since
    BY <1>2 DEF RouteState
  <2>2. n <= now /\ n < window.resetAt
    BY <2>1 DEF UnitsOK, ReservationsKept
  <2>3. route'[r].since = n
    BY <2>1 DEF ReservationsKept
  <2> QED BY <1>2, <2>2, <2>3
<1>4. IsFiniteSet(units) /\ Cardinality(units) <= window.count
  BY DEF UnitsOK
<1>5. Cardinality(units)' = Cardinality(units)
  BY <1>1
<1> QED BY <1>1, <1>3, <1>4, <1>5 DEF UnitsOK

\* What a charge makes of a window.
LEMMA ChargedWindow ==
    ASSUME NEW w, NEW limit \in Nat, w \in [count: 0..limit, resetAt: Nat], NEW amount \in Nat,
           NEW length \in Nat, now \in Nat
    PROVE  \/ /\ now < w.resetAt /\ charged(w, amount, length).count = w.count + amount
              /\ charged(w, amount, length).resetAt = w.resetAt
           \/ /\ now >= w.resetAt /\ charged(w, amount, length).count = amount
              /\ charged(w, amount, length).resetAt = now + length
<1>1. PICK c : c = currentWindow(w, length)
  OBVIOUS
<1>2. charged(w, amount, length) = [c EXCEPT !.count = @ + amount]
  BY <1>1 DEF charged
<1>3. CASE now >= w.resetAt
  <2>1. c = [count |-> 0, resetAt |-> now + length]
    BY <1>1, <1>3 DEF currentWindow
  <2>2. PICK e : e = [c EXCEPT !.count = @ + amount]
    OBVIOUS
  <2>3. e.count = amount /\ e.resetAt = now + length
    BY <2>1, <2>2
  <2> QED BY <1>2, <1>3, <2>2, <2>3
<1>4. CASE ~ (now >= w.resetAt)
  <2>1. c = w
    BY <1>1, <1>4 DEF currentWindow
  <2>2. PICK e : e = [c EXCEPT !.count = @ + amount]
    OBVIOUS
  <2>3. e.count = w.count + amount /\ e.resetAt = w.resetAt
    BY <2>1, <2>2
  <2>4. w.resetAt \in Nat
    OBVIOUS
  <2> QED BY <1>2, <1>4, <2>2, <2>3
<1> QED BY <1>3, <1>4

LEMMA WindowNumbers ==
    ASSUME TypeOK
    PROVE  /\ window.count \in Nat /\ window.resetAt \in Nat
           /\ detailWindow.count \in Nat /\ detailWindow.resetAt \in Nat
<1>1. /\ window.count \in 0..BudgetLimit /\ detailWindow.count \in 0..DetailBudget
      /\ window.resetAt \in Instant /\ detailWindow.resetAt \in Instant
  BY Typed
<1>2. 0..BudgetLimit \subseteq Nat /\ 0..DetailBudget \subseteq Nat /\ Instant \subseteq Nat
  BY Numbers, Instants
<1> QED BY <1>1, <1>2

LEMMA Block ==
    ASSUME NEW r, NEW amount \in Nat
    PROVE  IsFiniteSet({r} \X (1..amount)) /\ Cardinality({r} \X (1..amount)) <= amount
<1> DEFINE f == [u \in {r} \X (1..amount) |-> u[2]]
<1>1. f \in [{r} \X (1..amount) -> 1..amount]
  OBVIOUS
<1>2. \A u, v \in {r} \X (1..amount) : f[u] = f[v] => u = v
  OBVIOUS
<1>3. f \in Injection({r} \X (1..amount), 1..amount)
  BY <1>1, <1>2 DEF Injection, IsInjective
<1> HIDE DEF f
<1>4. IsFiniteSet(1..amount) /\ Cardinality(1..amount) = amount
  <2>1. Cardinality(1..amount) = (IF 1 > amount THEN 0 ELSE amount - 1 + 1) /\ IsFiniteSet(1..amount)
    BY FS_Interval
  <2> QED BY <2>1
<1>5. PICK U : U = {r} \X (1..amount)
  OBVIOUS
<1>6. f \in Injection(U, 1..amount)
  BY <1>3, <1>5
<1>7. IsFiniteSet(U) /\ Cardinality(U) <= Cardinality(1..amount)
  BY <1>4, <1>6, FS_Injection
<1> QED BY <1>4, <1>5, <1>7

\* What a charge adds to the units of its window was not in it.
LEMMA UnitsCharged ==
    ASSUME TypeOK, UnitsOK, NEW r \in Request, NEW amount \in Nat, Charge(amount),
           \A s \in Request \ {r} : route'[s] = route[s],
           route'[r].reserved = 0 \/ (route'[r].reserved = amount /\ route'[r].since = now)
    PROVE  UnitsOK'
<1>1. /\ route \in [Request -> RouteState] /\ now \in Nat /\ now' = now
      /\ window \in [count: 0..BudgetLimit, resetAt: Instant] /\ Instant \subseteq Nat
      /\ window' = charged(window, amount, WindowTime)
  BY Typed, Instants DEF Charge
<1>2. PICK count \in Nat, resetAt \in Nat : count = window.count /\ resetAt = window.resetAt
  BY WindowNumbers
<1>3. \/ now < resetAt /\ window'.count = count + amount /\ window'.resetAt = resetAt
      \/ now >= resetAt /\ window'.count = amount /\ window'.resetAt = now + WindowTime
  <2>1. window \in [count: 0..BudgetLimit, resetAt: Nat]
    BY <1>1
  <2>2. BudgetLimit \in Nat /\ WindowTime \in Nat
    BY Numbers
  <2>3. \/ /\ now < window.resetAt /\ charged(window, amount, WindowTime).count = window.count + amount
           /\ charged(window, amount, WindowTime).resetAt = window.resetAt
        \/ /\ now >= window.resetAt /\ charged(window, amount, WindowTime).count = amount
           /\ charged(window, amount, WindowTime).resetAt = now + WindowTime
    BY <1>1, <2>1, <2>2, ChargedWindow
  <2> QED BY <1>1, <1>2, <2>3
<1>4. \A s \in Request : route[s].reserved \in Nat /\ route[s].since \in Nat
  BY <1>1 DEF RouteState
<1>5. \A s \in Request : route[s].reserved > 0 => route[s].since <= now /\ route[s].since < resetAt
  BY <1>2 DEF UnitsOK
<1>6. PICK block : block = {r} \X (1..amount)
  OBVIOUS
<1>7. IsFiniteSet(block) /\ Cardinality(block) <= amount /\ Cardinality(block) \in Nat
  BY <1>6, Block, FS_CardinalityType
<1>8. PICK U, V : U = units /\ V = units'
  OBVIOUS
<1>9. IsFiniteSet(U) /\ Cardinality(U) <= count /\ Cardinality(U) \in Nat
  BY <1>2, <1>8, FS_CardinalityType DEF UnitsOK
<1>10. \A u \in V : /\ u[1] \in Request /\ u[2] \in 1..BudgetLimit /\ u = <<u[1], u[2]>>
                    /\ u[2] <= route'[u[1]].reserved
                    /\ route'[u[1]].since >= window'.resetAt - WindowTime
  BY <1>8 DEF units, inWindow
<1>11. \A u \in V : u[1] = r => u \in block
  BY <1>6, <1>10, Numbers
<1>12. CASE now < resetAt /\ window'.count = count + amount /\ window'.resetAt = resetAt
  <2>1. \A u \in V : u[1] # r => u \in U
    BY <1>2, <1>8, <1>10, <1>12 DEF units, inWindow
  <2>2. V \subseteq U \cup block
    BY <1>11, <2>1
  <2>3. /\ IsFiniteSet(U \cup block)
        /\ Cardinality(U \cup block) = Cardinality(U) + Cardinality(block) - Cardinality(U \cap block)
        /\ IsFiniteSet(U \cap block)
    BY <1>7, <1>9, FS_Union, FS_Intersection
  <2>4. Cardinality(U \cap block) \in Nat /\ Cardinality(U \cup block) \in Nat
    BY <2>3, FS_CardinalityType
  <2>5. IsFiniteSet(V) /\ Cardinality(V) <= Cardinality(U \cup block)
    BY <2>2, <2>3, FS_Subset
  <2>6. Cardinality(V) \in Nat
    BY <2>5, FS_CardinalityType
  <2>7. PICK a \in Nat, b \in Nat, c \in Nat, d \in Nat, e \in Nat :
            /\ a = Cardinality(U) /\ b = Cardinality(block) /\ c = Cardinality(U \cap block)
            /\ d = Cardinality(V) /\ e = Cardinality(U \cup block)
    BY <1>7, <1>9, <2>4, <2>6
  <2>8. e = a + b - c /\ a <= count /\ b <= amount /\ d <= e
    BY <1>7, <1>9, <2>3, <2>5, <2>7
  <2>9. d <= count + amount
    BY <2>7, <2>8
  <2>10. \A s \in Request : route'[s].reserved > 0 => route'[s].since <= now /\ route'[s].since < resetAt
    BY <1>1, <1>5, <1>12
  <2> QED BY <1>1, <1>8, <1>12, <2>5, <2>7, <2>9, <2>10 DEF UnitsOK
<1>13. CASE now >= resetAt /\ window'.count = amount /\ window'.resetAt = now + WindowTime
  <2>1. \A u \in V : u[1] = r
    <3> SUFFICES ASSUME NEW u \in V, u[1] # r PROVE FALSE
      OBVIOUS
    <3>1. PICK s \in Request : s = u[1]
      BY <1>10
    <3>2. /\ route'[s] = route[s] /\ u[2] \in 1..BudgetLimit /\ u[2] <= route[s].reserved
          /\ route[s].since >= (now + WindowTime) - WindowTime
      BY <1>10, <1>13, <3>1
    <3>3. route[s].reserved > 0
      BY <1>4, <3>2, Numbers
    <3>4. route[s].since < resetAt /\ route[s].since >= now
      BY <1>1, <1>4, <1>5, <3>2, <3>3, Numbers
    <3> QED BY <1>1, <1>4, <1>13, <3>4
  <2>2. V \subseteq block
    BY <1>11, <2>1
  <2>3. IsFiniteSet(V) /\ Cardinality(V) <= Cardinality(block)
    BY <1>7, <2>2, FS_Subset
  <2>4. Cardinality(V) \in Nat
    BY <2>3, FS_CardinalityType
  <2>5. Cardinality(V) <= amount
    BY <1>7, <2>3, <2>4
  <2>6. \A s \in Request : route'[s].reserved > 0 =>
            route'[s].since <= now /\ route'[s].since < now + WindowTime
    <3> SUFFICES ASSUME NEW s \in Request, route'[s].reserved > 0
                 PROVE  route'[s].since <= now /\ route'[s].since < now + WindowTime
      OBVIOUS
    <3>1. CASE s = r
      BY <1>1, <3>1, Numbers
    <3>2. CASE s # r
      <4>1. route[s].since <= now /\ route'[s].since = route[s].since
        BY <1>5, <3>2
      <4> QED BY <1>1, <1>4, <4>1, Numbers
    <3> QED BY <3>1, <3>2
  <2> QED BY <1>1, <1>8, <1>13, <2>3, <2>5, <2>6 DEF UnitsOK
<1> QED BY <1>3, <1>12, <1>13

-----------------------------------------------------------------------------
(* The window of detail units.                                             *)

LEMMA BuyingStays ==
    ASSUME TypeOK, BuyingOK, detailWindow' = detailWindow, now' \in Nat, now <= now',
           \A x \in Detail : bought(x)' => bought(x) /\ detail'[x].since = detail[x].since
    PROVE  BuyingOK'
<1>1. buying' \subseteq buying
  BY DEF buying, inWindow
<1>2. PICK U, V : U = buying /\ V = buying'
  OBVIOUS
<1>3. IsFiniteSet(U) /\ Cardinality(U) <= detailWindow.count
  BY <1>2 DEF BuyingOK
<1>4. IsFiniteSet(V) /\ Cardinality(V) <= Cardinality(U)
  BY <1>1, <1>2, <1>3, FS_Subset
<1>5. /\ Cardinality(U) \in Nat /\ Cardinality(V) \in Nat /\ now \in Nat
      /\ detailWindow \in [count: 0..DetailBudget, resetAt: Instant]
  BY <1>3, <1>4, FS_CardinalityType, Typed
<1>6. Cardinality(V) <= detailWindow.count
  BY <1>3, <1>4, <1>5, Numbers
<1>7. ASSUME NEW x \in Detail, bought(x)'
      PROVE  detail'[x].since <= now' /\ detail'[x].since < detailWindow'.resetAt
  <2>1. /\ detail[x].since <= now /\ detail[x].since < detailWindow.resetAt
        /\ detail'[x].since = detail[x].since
    BY <1>7 DEF BuyingOK
  <2>2. detail[x].since \in Nat
    BY Typed DEF DetailState
  <2> QED BY <1>5, <2>1, <2>2
<1> QED BY <1>2, <1>4, <1>6, <1>7 DEF BuyingOK

\* A permit consumed buys one detail of the current window, or none.
LEMMA BuyingCharged ==
    ASSUME TypeOK, BuyingOK, NEW x \in Detail, detailWindow' = charged(detailWindow, 1, DetailWindow),
           now' = now,
           \A y \in Detail \ {x} : detail'[y] = detail[y],
           bought(x)' => detail'[x].since = now
    PROVE  BuyingOK'
<1>1. /\ detail \in [Detail -> DetailState] /\ now \in Nat
      /\ detailWindow \in [count: 0..DetailBudget, resetAt: Instant] /\ Instant \subseteq Nat
  BY Typed, Instants
<1>2. PICK count \in Nat, resetAt \in Nat : count = detailWindow.count /\ resetAt = detailWindow.resetAt
  BY WindowNumbers
<1>3. \/ now < resetAt /\ detailWindow'.count = count + 1 /\ detailWindow'.resetAt = resetAt
      \/ now >= resetAt /\ detailWindow'.count = 1 /\ detailWindow'.resetAt = now + DetailWindow
  <2>1. detailWindow \in [count: 0..DetailBudget, resetAt: Nat]
    BY <1>1
  <2>2. PICK one \in Nat : one = 1
    OBVIOUS
  <2>3. DetailBudget \in Nat /\ DetailWindow \in Nat
    BY Numbers
  <2>4. \/ /\ now < detailWindow.resetAt
           /\ charged(detailWindow, one, DetailWindow).count = detailWindow.count + one
           /\ charged(detailWindow, one, DetailWindow).resetAt = detailWindow.resetAt
        \/ /\ now >= detailWindow.resetAt
           /\ charged(detailWindow, one, DetailWindow).count = one
           /\ charged(detailWindow, one, DetailWindow).resetAt = now + DetailWindow
    BY <1>1, <2>1, <2>3, ChargedWindow
  <2> QED BY <1>2, <2>2, <2>4
<1>4. \A y \in Detail : detail[y].since \in Nat
  BY <1>1 DEF DetailState
<1>5. \A y \in Detail : bought(y) => detail[y].since <= now /\ detail[y].since < resetAt
  BY <1>2 DEF BuyingOK
<1>6. \A y \in Detail \ {x} : (bought(y)' <=> bought(y)) /\ detail'[y].since = detail[y].since
  BY DEF bought
<1>7. PICK U, V : U = buying /\ V = buying'
  OBVIOUS
<1>8. IsFiniteSet(U) /\ Cardinality(U) <= count /\ Cardinality(U) \in Nat
  BY <1>2, <1>7, FS_CardinalityType DEF BuyingOK
<1>9. \A y \in V : /\ y \in Detail /\ bought(y)'
                   /\ detail'[y].since >= detailWindow'.resetAt - DetailWindow
  BY <1>7 DEF buying, inWindow
<1>10. CASE now < resetAt /\ detailWindow'.count = count + 1 /\ detailWindow'.resetAt = resetAt
  <2>1. \A y \in V : y # x => y \in U
    <3> SUFFICES ASSUME NEW y \in V, y # x PROVE y \in U
      OBVIOUS
    <3>1. y \in Detail /\ bought(y) /\ detail[y].since >= resetAt - DetailWindow
      BY <1>6, <1>9, <1>10
    <3> QED BY <1>2, <1>7, <3>1 DEF buying, inWindow
  <2>2. V \subseteq U \cup {x}
    BY <2>1
  <2>3. PICK A : A = U \cup {x}
    OBVIOUS
  <2>4. IsFiniteSet(A) /\ Cardinality(A) = (IF x \in U THEN Cardinality(U) ELSE Cardinality(U) + 1)
    BY <1>8, <2>3, FS_AddElement
  <2>5. IsFiniteSet(V) /\ Cardinality(V) <= Cardinality(A)
    BY <2>2, <2>3, <2>4, FS_Subset
  <2>6. Cardinality(V) \in Nat
    BY <2>5, FS_CardinalityType
  <2>7. Cardinality(V) <= count + 1
    BY <1>8, <2>4, <2>5, <2>6
  <2>8. \A y \in Detail : bought(y)' => detail'[y].since <= now /\ detail'[y].since < resetAt
    BY <1>1, <1>5, <1>6, <1>10
  <2> QED BY <1>7, <1>10, <2>5, <2>7, <2>8 DEF BuyingOK
<1>11. CASE now >= resetAt /\ detailWindow'.count = 1 /\ detailWindow'.resetAt = now + DetailWindow
  <2>1. \A y \in V : y = x
    <3> SUFFICES ASSUME NEW y \in V, y # x PROVE FALSE
      OBVIOUS
    <3>1. y \in Detail /\ bought(y) /\ detail[y].since >= (now + DetailWindow) - DetailWindow
      BY <1>6, <1>9, <1>11
    <3>2. detail[y].since < resetAt /\ detail[y].since >= now
      BY <1>1, <1>4, <1>5, <3>1, Numbers
    <3> QED BY <1>1, <1>4, <1>11, <3>1, <3>2
  <2>2. V \subseteq {x}
    BY <2>1
  <2>3. IsFiniteSet({x}) /\ Cardinality({x}) = 1
    BY FS_Singleton
  <2>4. IsFiniteSet(V) /\ Cardinality(V) <= 1
    BY <2>2, <2>3, FS_Subset
  <2>5. \A y \in Detail : bought(y)' => detail'[y].since <= now /\ detail'[y].since < now + DetailWindow
    <3> SUFFICES ASSUME NEW y \in Detail, bought(y)'
                 PROVE  detail'[y].since <= now /\ detail'[y].since < now + DetailWindow
      OBVIOUS
    <3>1. CASE y = x
      BY <1>1, <3>1, Numbers
    <3>2. CASE y # x
      <4>1. detail[y].since <= now /\ detail'[y].since = detail[y].since
        BY <1>5, <1>6, <3>2
      <4> QED BY <1>1, <1>4, <4>1, Numbers
    <3> QED BY <3>1, <3>2
  <2> QED BY <1>7, <1>11, <2>4, <2>5 DEF BuyingOK
<1> QED BY <1>3, <1>10, <1>11

-----------------------------------------------------------------------------
(* The permits of the rows.                                                *)

\* A permit that is spent stays so: those of a request are issued once.
SpentStays == \A d \in Permit : d[1] \in issued /\ spentPermit(d) => spentPermit(d)'

LEMMA PresentedPermit ==
    ASSUME NEW x \in Detail, x[2] <= Len(Presented[x[1]])
    PROVE  presentedBy(x).permit \in Permit /\ presentedBy(x).bound \in BOOLEAN
<1>1. x[1] \in Request /\ x[2] \in Nat /\ x[2] >= 1
  BY DetailAssumption
<1>2. Presented[x[1]] \in Seq([permit: Permit, bound: BOOLEAN])
  BY <1>1, DetailAssumption
<1>3. PICK q \in Seq([permit: Permit, bound: BOOLEAN]) : q = Presented[x[1]]
  BY <1>2
<1>4. PICK k \in 1..Len(q) : k = x[2]
  <2>1. Len(q) \in Nat
    OBVIOUS
  <2> QED BY <1>1, <1>3, <2>1
<1>5. q[k] \in [permit: Permit, bound: BOOLEAN]
  BY SeqElement
<1> QED BY <1>3, <1>4, <1>5 DEF presentedBy

LEMMA DetailParts ==
    ASSUME NEW x \in Detail
    PROVE  x[1] \in Request /\ x[2] \in Nat /\ x[2] >= 1 /\ x = <<x[1], x[2]>>
BY DetailAssumption

LEMMA PermitsUntouched ==
    ASSUME TypeOK, PermitsOK, permits' = permits, issued \subseteq issued', now' \in Nat, now <= now'
    PROVE  SpentStays /\ Backed'
<1>1. now \in Nat /\ \A d \in Permit : permits[d].expiresAt \in Nat
  BY Typed, Instants DEF PermitState
<1>2. SpentStays
  BY <1>1 DEF SpentStays, spentPermit
<1> QED BY <1>2 DEF Backed, PermitsOK

LEMMA PrunedPermit ==
    ASSUME TypeOK, NEW d \in Permit
    PROVE  /\ prunedPermits(permits)[d].expiresAt # 0 => permits[d].expiresAt # 0
           /\ spentPermit(d) =>
                 prunedPermits(permits)[d].consumed \/ prunedPermits(permits)[d].expiresAt <= now
<1>1. now \in Nat /\ permits[d].expiresAt \in Nat
  BY Typed, Instants DEF PermitState
<1>2. prunedPermits(permits)[d] = IF permits[d].expiresAt > now THEN permits[d] ELSE NoPermit
  BY DEF prunedPermits
<1>3. NoPermit.expiresAt = 0
  BY DEF NoPermit
<1> QED BY <1>1, <1>2, <1>3 DEF spentPermit

LEMMA PermitsPruned ==
    ASSUME TypeOK, PermitsOK, permits' = prunedPermits(permits), issued' = issued, now' = now
    PROVE  SpentStays /\ Backed'
<1>1. SpentStays
  BY PrunedPermit DEF SpentStays, spentPermit
<1>2. \A d \in Permit : permits[d].expiresAt # 0 => d[1] \in issued
  BY DEF PermitsOK, Backed
<1>3. Backed'
  BY <1>2, PrunedPermit DEF Backed
<1> QED BY <1>1, <1>3

LEMMA PermitsIssued ==
    ASSUME TypeOK, PermitsOK, NEW r \in Request, r \notin issued, IssuePermits(permitsOf(r)),
           issued' = issued \cup {r}
    PROVE  SpentStays /\ Backed'
<1>1. now' = now /\ \A d \in Permit : permits'[d] = IF d \in permitsOf(r)
                                                    THEN [expiresAt |-> now + PermitTime, consumed |-> FALSE]
                                                    ELSE prunedPermits(permits)[d]
  BY DEF IssuePermits
<1>2. \A d \in Permit : d \in permitsOf(r) <=> d[1] = r
  BY DEF permitsOf
<1>3. SpentStays
  <2> SUFFICES ASSUME NEW d \in Permit, d[1] \in issued, spentPermit(d) PROVE spentPermit(d)'
    BY DEF SpentStays
  <2>1. permits'[d] = prunedPermits(permits)[d]
    BY <1>1, <1>2
  <2> QED BY <1>1, <2>1, PrunedPermit DEF spentPermit
<1>4. \A d \in Permit : permits[d].expiresAt # 0 => d[1] \in issued
  BY DEF PermitsOK, Backed
<1>5. Backed'
  BY <1>1, <1>2, <1>4, PrunedPermit DEF Backed
<1> QED BY <1>3, <1>5

LEMMA PermitsConsumed ==
    ASSUME TypeOK, PermitsOK, NEW d \in Permit, NEW x \in Detail, ConsumePermit(d, x),
           permits[d].expiresAt > now, issued' = issued
    PROVE  SpentStays /\ Backed' /\ spentPermit(d)'
<1>1. /\ now' = now /\ now \in Nat /\ permits[d].expiresAt \in Nat
      /\ \A e \in Permit : permits'[e] = IF e = d THEN spent(d) ELSE prunedPermits(permits)[e]
  BY Typed, Instants DEF ConsumePermit, prunedPermits, PermitState
<1>2. /\ spent(d).expiresAt # 0 => permits[d].expiresAt # 0
      /\ spent(d).consumed \/ spent(d).expiresAt <= now
  <2>1. CASE store = "redis"
    BY <1>1, <2>1 DEF spent, NoPermit
  <2>2. CASE store # "redis"
    <3>1. PICK s \in PermitState : s = permits[d]
      BY Typed
    <3>2. PICK v : v = [s EXCEPT !.consumed = TRUE]
      OBVIOUS
    <3>3. v.consumed /\ v.expiresAt = s.expiresAt
      BY <3>2 DEF PermitState
    <3>4. spent(d) = v
      BY <2>2, <3>1, <3>2 DEF spent
    <3> QED BY <3>1, <3>3, <3>4
  <2> QED BY <2>1, <2>2
<1>3. spentPermit(d)'
  BY <1>1, <1>2 DEF spentPermit
<1>4. SpentStays
  <2> SUFFICES ASSUME NEW e \in Permit, e # d, spentPermit(e) PROVE spentPermit(e)'
    BY <1>3 DEF SpentStays
  <2> QED BY <1>1, PrunedPermit DEF spentPermit
<1>5. \A e \in Permit : permits[e].expiresAt # 0 => e[1] \in issued
  BY DEF PermitsOK, Backed
<1>6. Backed'
  BY <1>1, <1>2, <1>5, PrunedPermit DEF Backed
<1> QED BY <1>3, <1>4, <1>6

-----------------------------------------------------------------------------
(* The rows of a request.                                                  *)

LEMMA DetailStays ==
    ASSUME TypeOK, NEW y \in Detail, DetailOK(y), SpentStays, issued \subseteq issued',
           detail'[y] = detail[y],
           \A z \in Detail : detail[z].at = "done" => detail'[z].at = "done",
           detail[y].at \in {"fetching", "releasing"} => route'[y[1]].phase = "details"
    PROVE  DetailOK(y)'
<1>1. bought(y)' <=> bought(y)
  BY DEF bought
<1>2. ASSUME bought(y)
      PROVE  /\ y[2] <= Len(Presented[y[1]])
             /\ presentedBy(y).bound /\ presentedBy(y).permit[1] \in issued'
             /\ spentPermit(presentedBy(y).permit)'
  <2>1. /\ y[2] <= Len(Presented[y[1]])
        /\ presentedBy(y).bound /\ presentedBy(y).permit[1] \in issued
        /\ spentPermit(presentedBy(y).permit)
    BY <1>2 DEF DetailOK
  <2>2. PICK d \in Permit : d = presentedBy(y).permit
    BY <2>1, PresentedPermit
  <2>3. spentPermit(d)'
    BY <2>1, <2>2 DEF SpentStays
  <2>4. d' = d /\ presentedBy(y)' = presentedBy(y)
    BY DEF presentedBy
  <2> QED BY <2>1, <2>2, <2>3 DEF presentedBy
<1>3. presentedBy(y)' = presentedBy(y)
  BY DEF presentedBy
<1>4. /\ detail'[y].at = "idle" => detail'[y].outcome = "none"
      /\ detail'[y].at # "idle" =>
            \A z \in Detail : z[1] = y[1] /\ z[2] < y[2] => detail'[z].at = "done"
      /\ detail'[y].at \in {"fetching", "releasing"} => route'[y[1]].phase = "details"
  BY DEF DetailOK
<1> QED BY <1>1, <1>2, <1>3, <1>4 DEF DetailOK

\* No row moves.
LEMMA RowsStay ==
    ASSUME TypeOK, PermitsOK, SpentStays, Backed', issued \subseteq issued', detail' = detail,
           \A s \in issued' : over(s)',
           \A s \in Request : route[s].phase = "details" => route'[s].phase = "details"
    PROVE  PermitsOK'
<1>1. ASSUME NEW y \in Detail PROVE DetailOK(y)'
  <2>1. DetailOK(y) /\ y[1] \in Request
    BY DetailParts DEF PermitsOK
  <2>2. detail[y].at \in {"fetching", "releasing"} => route'[y[1]].phase = "details"
    BY <2>1 DEF DetailOK
  <2> QED BY <2>1, <2>2, DetailStays
<1>2. \A x, y \in Detail :
          bought(x)' /\ bought(y)' /\ presentedBy(x).permit = presentedBy(y).permit => x = y
  BY DEF PermitsOK, bought
<1>3. \A x : presentedBy(x)' = presentedBy(x)
  BY DEF presentedBy
<1> QED BY <1>1, <1>2, <1>3 DEF PermitsOK

\* One row moves.
LEMMA RowMoves ==
    ASSUME TypeOK, PermitsOK, SpentStays, Backed', issued' = issued, NEW x \in Detail,
           \A y \in Detail \ {x} : detail'[y] = detail[y], detail[x].at # "done",
           \A s \in Request : over(s) => over(s)',
           \A y \in Detail \ {x} : detail[y].at \in {"fetching", "releasing"} =>
                                       route'[y[1]].phase = "details",
           DetailOK(x)',
           bought(x)' => \/ bought(x)
                         \/ /\ x[2] <= Len(Presented[x[1]])
                            /\ ~spentPermit(presentedBy(x).permit)
    PROVE  PermitsOK'
<1>1. ASSUME NEW y \in Detail \ {x} PROVE DetailOK(y)'
  <2>1. DetailOK(y)
    BY DEF PermitsOK
  <2>2. \A z \in Detail : detail[z].at = "done" => detail'[z].at = "done"
    OBVIOUS
  <2> QED BY <2>1, <2>2, DetailStays
<1>2. \A y \in Detail \ {x} : bought(y)' <=> bought(y)
  BY DEF bought
<1>3. ASSUME NEW y \in Detail \ {x}, bought(x)', bought(y)
      PROVE  presentedBy(x).permit # presentedBy(y).permit
  <2>1. CASE bought(x)
    BY <1>3, <2>1 DEF PermitsOK
  <2>2. CASE ~spentPermit(presentedBy(x).permit)
    <3>1. DetailOK(y)
      BY DEF PermitsOK
    <3>2. spentPermit(presentedBy(y).permit)
      BY <1>3, <3>1 DEF DetailOK
    <3> QED BY <2>2, <3>2
  <2> QED BY <1>3, <2>1, <2>2
<1>4. \A y, z \in Detail :
          bought(y)' /\ bought(z)' /\ presentedBy(y).permit = presentedBy(z).permit => y = z
  <2> SUFFICES ASSUME NEW y \in Detail, NEW z \in Detail, bought(y)', bought(z)',
                      presentedBy(y).permit = presentedBy(z).permit, y # z
               PROVE  FALSE
    OBVIOUS
  <2>1. CASE y = x
    BY <1>2, <1>3, <2>1
  <2>2. CASE z = x
    BY <1>2, <1>3, <2>2
  <2>3. CASE y # x /\ z # x
    BY <1>2, <2>3 DEF PermitsOK
  <2> QED BY <2>1, <2>2, <2>3
<1>5. \A y : presentedBy(y)' = presentedBy(y)
  BY DEF presentedBy
<1>6. \A s \in issued' : over(s)'
  BY Typed DEF PermitsOK
<1>7. \A y \in Detail : DetailOK(y)'
  BY <1>1
<1> QED BY <1>4, <1>5, <1>6, <1>7 DEF PermitsOK

\* A request has one row under way at a time.
LEMMA Alone ==
    ASSUME TypeOK, PermitsOK, NEW x \in Detail, NEW y \in Detail, y[1] = x[1], y # x,
           detail[y].at \in {"fetching", "releasing"},
           detail[x].at # "done",
           detail[x].at = "idle" => \A k \in 1..(x[2] - 1) : detail[<<x[1], k>>].at = "done"
    PROVE  FALSE
<1>1. /\ x[2] \in Nat /\ y[2] \in Nat /\ y[2] >= 1 /\ x = <<x[1], x[2]>> /\ y = <<x[1], y[2]>>
  BY DetailParts
<1>2. DetailOK(x) /\ DetailOK(y)
  BY DEF PermitsOK
<1>3. x[2] # y[2]
  BY <1>1
<1>4. CASE x[2] < y[2]
  BY <1>2, <1>4 DEF DetailOK
<1>5. CASE y[2] < x[2]
  <2>1. y[2] \in 1..(x[2] - 1)
    BY <1>1, <1>5
  <2>2. detail[y].at = "done"
    BY <1>1, <1>2, <1>5, <2>1 DEF DetailOK
  <2> QED BY <2>2
<1> QED BY <1>1, <1>3, <1>4, <1>5

LEMMA RowFacts ==
    ASSUME TypeOK, NEW x \in Detail,
           NEW outcome \in {"none", "html", "error", "invalid", "budget", "busy", "lost"},
           rowEnds(x, outcome)
    PROVE  /\ detail'[x].at = "done" /\ detail'[x].outcome = outcome
           /\ detail'[x].since = detail[x].since
           /\ \A y \in Detail \ {x} : detail'[y] = detail[y]
           /\ detail' \in [Detail -> DetailState]
           /\ ReservationsKept
           /\ \A s \in Request \ {x[1]} : route'[s].phase = route[s].phase
<1>1. detail \in [Detail -> DetailState] /\ x[1] \in Request
  BY Typed, DetailParts
<1>2. PICK s \in DetailState : s = detail[x]
  BY <1>1
<1>3. PICK v : v = [s EXCEPT !.at = "done", !.outcome = outcome]
  OBVIOUS
<1>4. v \in DetailState /\ v.at = "done" /\ v.outcome = outcome /\ v.since = s.since
  BY <1>3 DEF DetailState
<1>5. detail' = [detail EXCEPT ![x] = v]
  BY <1>1, <1>2, <1>3 DEF rowEnds
<1>6. /\ detail' \in [Detail -> DetailState] /\ detail'[x] = v
      /\ \A y \in Detail \ {x} : detail'[y] = detail[y]
  BY <1>1, <1>4, <1>5
<1>7. ReservationsKept /\ \A r \in Request \ {x[1]} : route'[r].phase = route[r].phase
  <2>1. (\E phase : finish(x[1], phase)) \/ route' = route
    BY DEF rowEnds
  <2> QED BY <1>1, <2>1, FinishFrame DEF ReservationsKept
<1> QED BY <1>2, <1>4, <1>6, <1>7

-----------------------------------------------------------------------------
(* What is paid for, whatever the step.                                    *)

Paid == UnitsOK /\ BuyingOK /\ PermitsOK

\* No route that has ended, or is at its details, turns.
RoutesGoOn ==
    \A s \in Request : \/ route'[s].phase = route[s].phase
                       \/ route[s].phase \in {"idle", "resolving", "fetching", "warming"}

LEMMA StillPaid ==
    ASSUME TypeOK, Paid, window' = window, detailWindow' = detailWindow, SpentStays, Backed',
           UNCHANGED detailVars, now' \in Nat, now <= now', ReservationsKept, RoutesGoOn
    PROVE  Paid'
<1>1. detail' = detail /\ issued' = issued
  BY DEF detailVars
<1>2. UnitsOK'
  BY UnitsStay DEF Paid
<1>3. BuyingOK'
  <2>1. \A x \in Detail : bought(x)' => bought(x) /\ detail'[x].since = detail[x].since
    BY <1>1 DEF bought
  <2> QED BY <2>1, BuyingStays DEF Paid
<1>4. PermitsOK'
  <2>1. \A s \in issued' : over(s)'
    BY <1>1, Typed DEF Paid, PermitsOK, over, RoutesGoOn
  <2>2. \A s \in Request : route[s].phase = "details" => route'[s].phase = "details"
    BY DEF RoutesGoOn
  <2> QED BY <1>1, <2>1, <2>2, RowsStay DEF Paid
<1> QED BY <1>2, <1>3, <1>4 DEF Paid

\* The coordinator's windows and permits are not concerned.
LEMMA UnconcernedPaid ==
    ASSUME TypeOK, Paid, window' = window, detailWindow' = detailWindow, permits' = permits,
           UNCHANGED detailVars, now' \in Nat, now <= now', ReservationsKept, RoutesGoOn
    PROVE  Paid'
<1>1. SpentStays /\ Backed'
  BY PermitsUntouched DEF Paid, detailVars
<1> QED BY <1>1, StillPaid

LEMMA PortalPaid ==
    ASSUME TypeOK, Paid, NEW p \in Probe, PortalStep(p), UNCHANGED detailVars
    PROVE  Paid'
<1>1. ProbeStep(p) /\ route' = route
  BY DEF PortalStep, lookupVars
<1>2. window' = window /\ detailWindow' = detailWindow /\ permits' = permits /\ now' = now
  BY <1>1 DEF ProbeStep, CoordinatorAnswers, LeaveAcquire, LateGrant, AcquireGranted, AcquireFailed,
     ReturnCut, FetchEnds, ReleasePermit, ProbeTimesOut, GrantLease, RefuseLease, ReturnLease,
     budgetVars
<1>3. now' \in Nat /\ now <= now'
  BY <1>2, Typed
<1>4. ReservationsKept /\ RoutesGoOn
  BY <1>1 DEF ReservationsKept, RoutesGoOn
<1> QED BY <1>2, <1>3, <1>4, UnconcernedPaid

LEMMA CalmPaid ==
    ASSUME TypeOK, Paid, UNCHANGED coordinatorVars, UNCHANGED detailVars, ReservationsKept, RoutesGoOn
    PROVE  Paid'
<1>1. window' = window /\ detailWindow' = detailWindow /\ permits' = permits /\ now' = now
  BY DEF coordinatorVars, budgetVars
<1>2. now' \in Nat /\ now <= now'
  BY <1>1, Typed
<1> QED BY <1>1, <1>2, UnconcernedPaid

LEMMA SearchPaid ==
    ASSUME TypeOK, Paid, SearchStep, UNCHANGED coordinatorVars, UNCHANGED detailVars
    PROVE  Paid'
<1>1. ReservationsKept /\ RoutesGoOn
  BY DEF SearchStep, SearchMoves, ReservationsStay, ReservationsKept, RoutesGoOn
<1> QED BY <1>1, CalmPaid

LEMMA RoutePaid ==
    ASSUME TypeOK, Paid, NEW r \in Request,
           \/ ResolvingEnds(r) \/ CancelRequest(r) \/ DeadlinePasses(r)
           \/ StartDetails(r) \/ WarmUpEnds(r),
           UNCHANGED detailVars
    PROVE  Paid'
<1>1. ReservationsKept /\ PhasesKept(r)
  BY RouteActionFrames
<1>2. RoutesGoOn
  BY <1>1 DEF PhasesKept, RoutesGoOn
<1>3. UNCHANGED coordinatorVars
  BY DEF ResolvingEnds, CancelRequest, DeadlinePasses, StartDetails, WarmUpEnds, coordinatorVars
<1> QED BY <1>1, <1>2, <1>3, CalmPaid

LEMMA ReservePaid ==
    ASSUME TypeOK, LookupOK, Paid, NEW r \in Request, Reserve(r), UNCHANGED detailVars
    PROVE  Paid'
<1>1. /\ PhasesKept(r) /\ kind(r) \in {"code", "id", "bulk"}
      /\ \A s \in Request \ {r} : route'[s] = route[s]
      /\ \/ Charge(unitsFor(r))
            /\ (route'[r].reserved = 0
                  \/ (route'[r].reserved = unitsFor(r) /\ route'[r].since = now))
         \/ UNCHANGED coordinatorVars /\ ReservationsKept
  BY ReserveFrame
<1>2. RoutesGoOn
  BY <1>1 DEF PhasesKept, RoutesGoOn
<1>3. CASE UNCHANGED coordinatorVars /\ ReservationsKept
  BY <1>2, <1>3, CalmPaid
<1>4. CASE /\ Charge(unitsFor(r))
           /\ \/ route'[r].reserved = 0
              \/ route'[r].reserved = unitsFor(r) /\ route'[r].since = now
  <2>1. PICK amount \in Nat : amount = unitsFor(r)
    BY <1>1, UnitsType
  <2>2. UnitsOK'
    BY <1>1, <1>4, <2>1, UnitsCharged DEF Paid
  <2>3. detailWindow' = detailWindow /\ permits' = permits /\ now' = now /\ detail' = detail /\ issued' = issued
    BY <1>4 DEF Charge, detailVars
  <2>4. now' \in Nat /\ now <= now'
    BY <2>3, Typed
  <2>5. SpentStays /\ Backed'
    BY <2>3, <2>4, PermitsUntouched DEF Paid
  <2>6. BuyingOK'
    <3>1. \A x \in Detail : bought(x)' => bought(x) /\ detail'[x].since = detail[x].since
      BY <2>3 DEF bought
    <3> QED BY <2>3, <2>4, <3>1, BuyingStays DEF Paid
  <2>7. PermitsOK'
    <3>1. \A s \in issued' : over(s)'
      BY <1>2, <2>3, Typed DEF Paid, PermitsOK, over, RoutesGoOn
    <3>2. \A s \in Request : route[s].phase = "details" => route'[s].phase = "details"
      BY <1>2 DEF RoutesGoOn
    <3> QED BY <2>3, <2>5, <3>1, <3>2, RowsStay DEF Paid
  <2> QED BY <2>2, <2>6, <2>7 DEF Paid
<1> QED BY <1>1, <1>3, <1>4

LEMMA TranscriptPaid ==
    ASSUME TypeOK, Paid, NEW r \in Request, TranscriptEnds(r)
    PROVE  Paid'
<1>1. ReservationsKept /\ PhasesKept(r)
  BY RouteActionFrames
<1>2. RoutesGoOn /\ route[r].phase = "fetching" /\ detail' = detail
  BY <1>1 DEF PhasesKept, RoutesGoOn, TranscriptEnds
<1>3. CASE UNCHANGED <<coordinatorVars, issued>>
  BY <1>1, <1>2, <1>3, CalmPaid DEF detailVars
<1>4. CASE /\ IssuePermits(permitsOf(r)) /\ issued' = issued \cup {r}
           /\ \E phase \in {"answered", "failed"} : finish(r, phase)
  <2>1. window' = window /\ detailWindow' = detailWindow /\ now' = now
    BY <1>4 DEF IssuePermits
  <2>2. now' \in Nat /\ now <= now'
    BY <2>1, Typed
  <2>3. r \notin issued
    BY <1>2 DEF Paid, PermitsOK, over
  <2>4. SpentStays /\ Backed'
    BY <1>4, <2>3, PermitsIssued DEF Paid
  <2>5. UnitsOK'
    BY <1>1, <2>1, <2>2, UnitsStay DEF Paid
  <2>6. BuyingOK'
    <3>1. \A x \in Detail : bought(x)' => bought(x) /\ detail'[x].since = detail[x].since
      BY <1>2 DEF bought
    <3> QED BY <2>1, <2>2, <3>1, BuyingStays DEF Paid
  <2>7. PermitsOK'
    <3>1. over(r)'
      BY <1>4, Typed DEF finish, over
    <3>2. \A s \in issued' : over(s)'
      BY <1>2, <1>4, <3>1, Typed DEF Paid, PermitsOK, over, RoutesGoOn
    <3>3. \A s \in Request : route[s].phase = "details" => route'[s].phase = "details"
      BY <1>2 DEF RoutesGoOn
    <3> QED BY <1>2, <1>4, <2>4, <3>2, <3>3, RowsStay DEF Paid
  <2> QED BY <2>5, <2>6, <2>7 DEF Paid
<1> QED BY <1>3, <1>4 DEF TranscriptEnds

\* A row that ends: what it bought, if anything, it had bought before.
LEMMA RowEndsPaid ==
    ASSUME TypeOK, Paid, NEW x \in Detail,
           NEW outcome \in {"none", "html", "error", "invalid", "budget", "busy", "lost"},
           rowEnds(x, outcome), route[x[1]].phase = "details",
           \/ detail[x].at = "idle" /\ outcome \in {"invalid", "budget", "busy", "lost"}
              /\ \A k \in 1..(x[2] - 1) : detail[<<x[1], k>>].at = "done"
           \/ detail[x].at = "releasing" /\ outcome = detail[x].outcome,
           issued' = issued, window' = window, now' = now, SpentStays, Backed',
           \/ detailWindow' = detailWindow
           \/ /\ detailWindow' = charged(detailWindow, 1, DetailWindow)
              /\ outcome = "lost"
    PROVE  Paid'
<1>1. /\ detail'[x].at = "done" /\ detail'[x].outcome = outcome
      /\ detail'[x].since = detail[x].since
      /\ \A y \in Detail \ {x} : detail'[y] = detail[y]
      /\ ReservationsKept
      /\ \A s \in Request \ {x[1]} : route'[s].phase = route[s].phase
  BY RowFacts
<1>2. now' \in Nat /\ now <= now' /\ x[1] \in Request
  BY Typed, DetailParts
<1>3. UnitsOK'
  BY <1>1, <1>2, UnitsStay DEF Paid
<1>4. bought(x)' => bought(x) /\ outcome # "lost"
  BY <1>1 DEF bought
<1>5. BuyingOK'
  <2>1. CASE detailWindow' = detailWindow
    <3>1. \A y \in Detail : bought(y)' => bought(y) /\ detail'[y].since = detail[y].since
      BY <1>1, <1>4 DEF bought
    <3> QED BY <1>2, <2>1, <3>1, BuyingStays DEF Paid
  <2>2. CASE detailWindow' = charged(detailWindow, 1, DetailWindow) /\ outcome = "lost"
    <3>1. bought(x)' => detail'[x].since = now
      BY <1>4, <2>2
    <3> QED BY <1>1, <2>2, <3>1, BuyingCharged DEF Paid
  <2> QED BY <2>1, <2>2
<1>6. PermitsOK'
  <2>1. \A s \in Request : over(s) => over(s)'
    BY <1>1 DEF over
  <2>2. \A y \in Detail \ {x} : detail[y].at \in {"fetching", "releasing"} => route'[y[1]].phase = "details"
    <3> SUFFICES ASSUME NEW y \in Detail \ {x}, detail[y].at \in {"fetching", "releasing"}
                 PROVE  route'[y[1]].phase = "details"
      OBVIOUS
    <3>1. y[1] # x[1]
      BY Alone DEF Paid
    <3>2. DetailOK(y) /\ y[1] \in Request
      BY DetailParts DEF Paid, PermitsOK
    <3> QED BY <1>1, <3>1, <3>2 DEF DetailOK
  <2>3. DetailOK(x)
    BY DEF Paid, PermitsOK
  <2>4. \A y \in Detail : y[1] = x[1] /\ y[2] < x[2] => detail'[y].at = "done"
    <3> SUFFICES ASSUME NEW y \in Detail, y[1] = x[1], y[2] < x[2] PROVE detail'[y].at = "done"
      OBVIOUS
    <3>1. y # x /\ y[2] \in 1..(x[2] - 1) /\ y = <<x[1], y[2]>>
      <4>1. /\ y[2] \in Nat /\ y[2] >= 1 /\ x[2] \in Nat /\ y = <<y[1], y[2]>>
        BY DetailParts
      <4> QED BY <4>1
    <3>2. detail[y].at = "done"
      BY <2>3, <3>1 DEF DetailOK
    <3> QED BY <1>1, <3>1, <3>2
  <2>5. DetailOK(x)'
    <3>1. ASSUME bought(x)'
          PROVE  /\ x[2] <= Len(Presented[x[1]])
                 /\ presentedBy(x).bound /\ presentedBy(x).permit[1] \in issued
                 /\ spentPermit(presentedBy(x).permit)'
      <4>1. /\ x[2] <= Len(Presented[x[1]])
            /\ presentedBy(x).bound /\ presentedBy(x).permit[1] \in issued
            /\ spentPermit(presentedBy(x).permit)
        BY <1>4, <2>3, <3>1 DEF DetailOK
      <4>2. PICK d \in Permit : d = presentedBy(x).permit
        BY <4>1, PresentedPermit
      <4>3. spentPermit(d)'
        BY <4>1, <4>2 DEF SpentStays
      <4>4. d' = d /\ presentedBy(x)' = presentedBy(x)
        BY DEF presentedBy
      <4> QED BY <4>1, <4>2, <4>3, <4>4
    <3>2. presentedBy(x)' = presentedBy(x)
      BY DEF presentedBy
    <3> QED BY <1>1, <2>4, <3>1, <3>2 DEF DetailOK
  <2>6. detail[x].at # "done"
    OBVIOUS
  <2> QED BY <1>1, <1>4, <2>1, <2>2, <2>5, <2>6, RowMoves DEF Paid
<1> QED BY <1>3, <1>5, <1>6 DEF Paid

LEMMA PresentPaid ==
    ASSUME TypeOK, Paid, NEW x \in Detail, Present(x)
    PROVE  Paid' /\ detailTypes
<1>0. /\ route[x[1]].phase = "details" /\ detail[x].at = "idle" /\ x[2] <= rows(x[1])
      /\ \A k \in 1..(x[2] - 1) : detail[<<x[1], k>>].at = "done"
      /\ issued' = issued
  BY DEF Present, turn
<1>1. /\ x[1] \in Request /\ x[2] \in Nat /\ detail \in [Detail -> DetailState]
      /\ issued \subseteq Request /\ now \in Nat
  BY Typed, DetailParts
<1>2. x[2] <= Len(Presented[x[1]])
  <2>1. PICK n \in 1..2 : n = Len(Presented[x[1]])
    BY <1>1, DetailAssumption DEF MaxRows
  <2>2. Len(Presented[x[1]]) \in Nat /\ Len(Presented[x[1]]) >= 1
    BY <2>1
  <2> QED BY <1>0, <1>1, <2>2 DEF rows
<1>3. PICK d \in Permit : d = presentedBy(x).permit
  BY <1>2, PresentedPermit
<1>4. PICK answer : answer = permitVerdict(d, presentedBy(x).bound)
  OBVIOUS
<1>5. /\ answer \in {"allowed", "invalid", "budget", "busy"}
      /\ answer = "allowed" => ~spentPermit(d) /\ permits[d].expiresAt > now /\ presentedBy(x).bound
  <2>1. permits[d].expiresAt \in Nat
    BY Typed, Instants DEF PermitState
  <2>2. answer \in {"allowed", "invalid", "budget", "busy"}
    BY <1>4 DEF permitVerdict
  <2>3. answer = "allowed" =>
            ~ (permits[d].expiresAt <= now \/ permits[d].consumed \/ ~presentedBy(x).bound)
    BY <1>4 DEF permitVerdict
  <2> QED BY <1>1, <2>1, <2>2, <2>3 DEF spentPermit
<1>6. ASSUME UNCHANGED coordinatorVars
      PROVE  /\ window' = window /\ now' = now /\ detailWindow' = detailWindow
             /\ SpentStays /\ Backed'
  <2>1. window' = window /\ now' = now /\ detailWindow' = detailWindow /\ permits' = permits
    BY <1>6 DEF coordinatorVars, budgetVars
  <2> QED BY <1>0, <1>1, <2>1, PermitsUntouched DEF Paid
<1>7. ASSUME answer = "allowed", ConsumePermit(d, x)
      PROVE  /\ window' = window /\ now' = now
             /\ detailWindow' = charged(detailWindow, 1, DetailWindow)
             /\ SpentStays /\ Backed' /\ spentPermit(d)'
  <2>1. /\ window' = window /\ now' = now
        /\ detailWindow' = charged(detailWindow, 1, DetailWindow)
    BY <1>7 DEF ConsumePermit
  <2> QED BY <1>0, <1>5, <1>7, <2>1, PermitsConsumed DEF Paid
<1>8. CASE /\ answer = "allowed" /\ ConsumePermit(d, x)
           /\ detail' = [detail EXCEPT ![x].at = "fetching", ![x].since = now]
           /\ UNCHANGED <<faults, route>>
  <2>1. PICK s \in DetailState : s = detail[x]
    BY <1>1
  <2>2. PICK v : v = [s EXCEPT !.at = "fetching", !.since = now]
    OBVIOUS
  <2>3. v \in DetailState /\ v.at = "fetching" /\ v.since = now /\ v.outcome = s.outcome
    <3>1. now \in 0..MaxTime
      BY Typed
    <3> QED BY <2>2, <3>1 DEF DetailState
  <2>4. detail' = [detail EXCEPT ![x] = v]
    BY <1>1, <1>8, <2>1, <2>2
  <2>5. /\ detail' \in [Detail -> DetailState] /\ detail'[x] = v
        /\ \A y \in Detail \ {x} : detail'[y] = detail[y]
    BY <1>1, <2>3, <2>4
  <2>6. detailTypes
    BY <1>0, <1>1, <2>5 DEF detailTypes
  <2>7. ReservationsKept /\ route' = route
    BY <1>8 DEF ReservationsKept
  <2>8. now' \in Nat /\ now <= now'
    BY <1>1, <1>7, <1>8
  <2>9. UnitsOK'
    BY <1>7, <1>8, <2>7, <2>8, UnitsStay DEF Paid
  <2>10. BuyingOK'
    BY <1>7, <1>8, <2>3, <2>5, BuyingCharged DEF Paid
  <2>11. s.outcome = "none"
    BY <1>0, <2>1 DEF Paid, PermitsOK, DetailOK
  <2>12. DetailOK(x)'
    <3>1. d[1] \in issued
      <4>1. permits[d].expiresAt # 0
        BY <1>1, <1>5, <1>8
      <4> QED BY <4>1 DEF Paid, PermitsOK, Backed
    <3>2. presentedBy(x)' = presentedBy(x)
      BY DEF presentedBy
    <3>3. \A y \in Detail : y[1] = x[1] /\ y[2] < x[2] => detail'[y].at = "done"
      <4> SUFFICES ASSUME NEW y \in Detail, y[1] = x[1], y[2] < x[2] PROVE detail'[y].at = "done"
        OBVIOUS
      <4>1. /\ y[2] \in Nat /\ y[2] >= 1 /\ y = <<y[1], y[2]>>
        BY DetailParts
      <4>2. y # x /\ y[2] \in 1..(x[2] - 1) /\ y = <<x[1], y[2]>>
        BY <1>1, <4>1
      <4>3. detail[y].at = "done"
        BY <1>0, <4>2
      <4> QED BY <2>5, <4>2, <4>3
    <3>4. /\ x[2] <= Len(Presented[x[1]])
          /\ presentedBy(x).bound /\ presentedBy(x).permit[1] \in issued'
          /\ spentPermit(presentedBy(x).permit)'
      <4>1. d' = d
        OBVIOUS
      <4> QED BY <1>0, <1>2, <1>3, <1>5, <1>7, <1>8, <3>1, <3>2, <4>1
    <3>5. route'[x[1]].phase = "details"
      BY <1>0, <2>7
    <3> QED BY <2>3, <2>5, <3>2, <3>3, <3>4, <3>5 DEF DetailOK
  <2>13. PermitsOK'
    <3>1. \A t \in Request : over(t) => over(t)'
      BY <2>7 DEF over
    <3>2. \A y \in Detail \ {x} : detail[y].at \in {"fetching", "releasing"} => route'[y[1]].phase = "details"
      BY <2>7 DEF Paid, PermitsOK, DetailOK
    <3>3. detail[x].at # "done" /\ ~spentPermit(presentedBy(x).permit)
      BY <1>0, <1>3, <1>5, <1>8
    <3> QED BY <1>0, <1>2, <1>7, <1>8, <2>5, <2>12, <3>1, <3>2, <3>3, RowMoves DEF Paid
  <2> QED BY <2>6, <2>9, <2>10, <2>13 DEF Paid
<1>9. CASE /\ answer # "allowed" /\ rowEnds(x, answer) /\ UNCHANGED coordinatorVars
  <2>1. detailTypes
    BY <1>0, <1>1, <1>5, <1>9, RowFacts DEF detailTypes
  <2>2. Paid'
    BY <1>0, <1>5, <1>6, <1>9, RowEndsPaid
  <2> QED BY <2>1, <2>2
<1>10. CASE /\ rowEnds(x, "lost")
            /\ (answer = "allowed" /\ ConsumePermit(d, x)) \/ UNCHANGED coordinatorVars
  <2>1. PICK outcome \in {"none", "html", "error", "invalid", "budget", "busy", "lost"} : outcome = "lost"
    OBVIOUS
  <2>2. rowEnds(x, outcome)
    BY <1>10, <2>1
  <2>3. detailTypes
    BY <1>0, <1>1, <2>1, <2>2, RowFacts DEF detailTypes
  <2>4. CASE answer = "allowed" /\ ConsumePermit(d, x)
    BY <1>0, <1>7, <2>1, <2>2, <2>3, <2>4, RowEndsPaid
  <2>5. CASE UNCHANGED coordinatorVars
    BY <1>0, <1>6, <2>1, <2>2, <2>3, <2>5, RowEndsPaid
  <2> QED BY <1>10, <2>4, <2>5
<1> QED BY <1>3, <1>4, <1>8, <1>9, <1>10 DEF Present

LEMMA DetailEndsPaid ==
    ASSUME TypeOK, Paid, NEW x \in Detail, DetailEnds(x)
    PROVE  Paid' /\ detailTypes
<1>0. /\ detail[x].at = "fetching" /\ issued' = issued /\ route' = route
      /\ window' = window /\ now' = now /\ detailWindow' = detailWindow /\ permits' = permits
  BY DEF DetailEnds, coordinatorVars, budgetVars, lookupVars
<1>1. PICK outcome \in {"html", "error", "lost"} :
          detail' = [detail EXCEPT ![x].at = "releasing", ![x].outcome = outcome]
  BY DEF DetailEnds
<1>2. /\ x[1] \in Request /\ x[2] \in Nat /\ detail \in [Detail -> DetailState]
      /\ issued \subseteq Request /\ now \in Nat /\ now' \in Nat /\ now <= now'
  BY <1>0, Typed, DetailParts
<1>3. PICK s \in DetailState : s = detail[x]
  BY <1>2
<1>4. PICK v : v = [s EXCEPT !.at = "releasing", !.outcome = outcome]
  OBVIOUS
<1>5. v \in DetailState /\ v.at = "releasing" /\ v.since = s.since
  BY <1>4 DEF DetailState
<1>6. detail' = [detail EXCEPT ![x] = v]
  BY <1>1, <1>2, <1>3, <1>4
<1>7. /\ detail' \in [Detail -> DetailState] /\ detail'[x] = v
      /\ \A y \in Detail \ {x} : detail'[y] = detail[y]
  BY <1>2, <1>5, <1>6
<1>8. detailTypes
  BY <1>0, <1>2, <1>7 DEF detailTypes
<1>9. SpentStays /\ Backed' /\ ReservationsKept
  BY <1>0, <1>2, PermitsUntouched DEF Paid, ReservationsKept
<1>10. bought(x)
  BY <1>0 DEF bought
<1>11. \A y \in Detail : bought(y)' => bought(y) /\ detail'[y].since = detail[y].since
  BY <1>3, <1>5, <1>7, <1>10 DEF bought
<1>12. UnitsOK' /\ BuyingOK'
  BY <1>0, <1>2, <1>9, <1>11, UnitsStay, BuyingStays DEF Paid
<1>13. DetailOK(x)'
  <2>1. DetailOK(x)
    BY DEF Paid, PermitsOK
  <2>2. /\ x[2] <= Len(Presented[x[1]])
        /\ presentedBy(x).bound /\ presentedBy(x).permit[1] \in issued
        /\ spentPermit(presentedBy(x).permit)
    BY <1>10, <2>1 DEF DetailOK
  <2>3. PICK d \in Permit : d = presentedBy(x).permit
    BY <2>2, PresentedPermit
  <2>4. spentPermit(d)' /\ d' = d /\ presentedBy(x)' = presentedBy(x)
    BY <1>9, <2>2, <2>3 DEF SpentStays, presentedBy
  <2>5. \A y \in Detail : y[1] = x[1] /\ y[2] < x[2] => detail'[y].at = "done"
    BY <1>0, <1>2, <1>7, <2>1 DEF DetailOK
  <2>6. route'[x[1]].phase = "details"
    BY <1>0, <2>1 DEF DetailOK
  <2> QED BY <1>0, <1>5, <1>7, <2>2, <2>3, <2>4, <2>5, <2>6 DEF DetailOK
<1>14. PermitsOK'
  <2>1. \A t \in Request : over(t) => over(t)'
    BY <1>0 DEF over
  <2>2. \A y \in Detail \ {x} : detail[y].at \in {"fetching", "releasing"} => route'[y[1]].phase = "details"
    BY <1>0 DEF Paid, PermitsOK, DetailOK
  <2>3. detail[x].at # "done"
    BY <1>0
  <2> QED BY <1>0, <1>7, <1>9, <1>10, <1>13, <2>1, <2>2, <2>3, RowMoves DEF Paid
<1> QED BY <1>8, <1>12, <1>14 DEF Paid

LEMMA ReleasePaid ==
    ASSUME TypeOK, Paid, NEW x \in Detail, ReleaseDetail(x)
    PROVE  Paid' /\ detailTypes /\ route[x[1]].phase = "details"
<1>0. detail[x].at = "releasing" /\ issued' = issued /\ rowEnds(x, detail[x].outcome)
  BY DEF ReleaseDetail
<1>1. /\ window' = window /\ now' = now /\ detailWindow' = detailWindow /\ permits' = permits
  BY DEF ReleaseDetail, ReturnDetailLease, coordinatorVars, budgetVars
<1>2. PICK outcome : outcome = detail[x].outcome
  OBVIOUS
<1>3. outcome \in {"none", "html", "error", "invalid", "budget", "busy", "lost"} /\ now \in Nat
      /\ issued \subseteq Request
  BY <1>2, Typed DEF DetailState
<1>4. route[x[1]].phase = "details"
  BY <1>0 DEF Paid, PermitsOK, DetailOK
<1>5. detailTypes
  BY <1>0, <1>2, <1>3, RowFacts DEF detailTypes
<1>6. SpentStays /\ Backed'
  BY <1>0, <1>1, <1>3, PermitsUntouched DEF Paid
<1>8. Paid'
  BY <1>0, <1>1, <1>2, <1>3, <1>4, <1>6, RowEndsPaid
<1> QED BY <1>4, <1>5, <1>8

-----------------------------------------------------------------------------
(* The invariant holds.                                                    *)

LEMMA InvParts == IInv <=> Sound /\ Paid
BY DEF IInv, Sound, Paid

LEMMA ResolverUnconcerned ==
    ASSUME NEW x, ResolverStep(x)
    PROVE  UNCHANGED coordinatorVars
BY DEF ResolverStep, FirstEnds, TakeAnswer, CallerCancelled, Settled, coordinatorVars

LEMMA ResolverMoves ==
    ASSUME TypeOK, LookupOK, NEW x \in Target, ResolverStep(x)
    PROVE  SearchStep /\ coordinatorStep /\ cancels' = cancels
BY FirstEndsMoves, TakeAnswerMoves, CallerCancelledMoves, SettledMoves DEF ResolverStep

LEMMA RouteStepKeepsAll ==
    ASSUME IInv, NEW r \in Request, LookupStep(r), UNCHANGED detailVars
    PROVE  IInv'
<1>0. Sound /\ Paid /\ TypeOK /\ LookupOK
  BY InvParts DEF Sound
<1>1. detailTypes /\ cancels \in Nat
  BY <1>0, Typed DEF detailVars, detailTypes
<1>2. CASE Reserve(r)
  <2>1. /\ RouteStep(r) /\ Calm /\ coordinatorStep
        /\ resolver' = resolver /\ cancels' = cancels
    BY <1>0, <1>2, ReserveMoves
  <2>2. Sound' /\ Paid'
    BY <1>0, <1>1, <1>2, <2>1, RouteStepSound, ReservePaid
  <2> QED BY <2>2 DEF IInv, Sound, Paid
<1>3. CASE StartTarget(r)
  <2>1. SearchStep /\ coordinatorStep /\ cancels' = cancels
    BY <1>0, <1>3, StartTargetMoves
  <2>2. UNCHANGED coordinatorVars
    BY <1>3 DEF StartTarget, coordinatorVars
  <2>3. Sound' /\ Paid'
    BY <1>0, <2>1, <2>2, SearchStepSound, SearchPaid
  <2> QED BY <2>3 DEF IInv, Sound, Paid
<1>4. CASE ResolvingEnds(r)
  <2>1. /\ RouteStep(r) /\ Calm /\ coordinatorStep
        /\ resolver' = resolver /\ cancels' = cancels
    BY <1>0, <1>4, ResolvingEndsMoves
  <2>2. Sound' /\ Paid'
    BY <1>0, <1>1, <1>4, <2>1, RouteStepSound, RoutePaid
  <2> QED BY <2>2 DEF IInv, Sound, Paid
<1>5. CASE DeadlinePasses(r) \/ CancelRequest(r)
  <2>1. /\ RouteStep(r) /\ Calm /\ coordinatorStep
        /\ resolver' = resolver /\ cancels' \in Nat
    BY <1>0, <1>5, CancelledMoves
  <2>2. Sound' /\ Paid'
    BY <1>0, <1>1, <1>5, <2>1, RouteStepSound, RoutePaid
  <2> QED BY <2>2 DEF IInv, Sound, Paid
<1> QED BY <1>2, <1>3, <1>4, <1>5 DEF LookupStep

LEMMA RowsKeepAll ==
    ASSUME IInv
    PROVE  /\ \A r \in Request : TranscriptEnds(r) \/ StartDetails(r) \/ WarmUpEnds(r) => IInv'
           /\ \A x \in Detail : Present(x) \/ DetailEnds(x) \/ ReleaseDetail(x) => IInv'
<1>0. Sound /\ Paid /\ TypeOK /\ LookupOK
  BY InvParts DEF Sound
<1>1. ASSUME NEW r \in Request, TranscriptEnds(r) PROVE IInv'
  <2>1. /\ RouteStep(r) /\ Calm /\ coordinatorStep
        /\ resolver' = resolver /\ cancels' = cancels
    BY <1>0, <1>1, TranscriptMoves
  <2>2. detailTypes /\ cancels' \in Nat
    BY <1>0, <1>1, <2>1, Typed DEF TranscriptEnds, detailTypes
  <2>3. Sound' /\ Paid'
    BY <1>0, <1>1, <2>1, <2>2, RouteStepSound, TranscriptPaid
  <2> QED BY <2>3 DEF IInv, Sound, Paid
<1>2. ASSUME NEW r \in Request, StartDetails(r) \/ WarmUpEnds(r) PROVE IInv'
  <2>1. /\ RouteStep(r) /\ Calm /\ coordinatorStep
        /\ resolver' = resolver /\ cancels' = cancels
    BY <1>0, <1>2, StartDetailsMoves, WarmUpMoves
  <2>2. UNCHANGED detailVars
    BY <1>2 DEF StartDetails, WarmUpEnds, detailVars
  <2>3. detailTypes /\ cancels' \in Nat
    BY <1>0, <2>1, <2>2, Typed DEF detailTypes, detailVars
  <2>4. Sound' /\ Paid'
    BY <1>0, <1>2, <2>1, <2>2, <2>3, RouteStepSound, RoutePaid
  <2> QED BY <2>4 DEF IInv, Sound, Paid
<1>3. ASSUME NEW x \in Detail, Present(x) PROVE IInv'
  <2>1. /\ RouteStep(x[1]) /\ Calm /\ coordinatorStep
        /\ resolver' = resolver /\ cancels' = cancels
    BY <1>0, <1>3, PresentMoves
  <2>2. Paid' /\ detailTypes
    BY <1>0, <1>3, PresentPaid
  <2>3. cancels' \in Nat /\ x[1] \in Request
    BY <1>0, <2>1, Typed, DetailParts
  <2>4. Sound'
    BY <1>0, <2>1, <2>2, <2>3, RouteStepSound
  <2> QED BY <2>2, <2>4 DEF IInv, Sound, Paid
<1>4. ASSUME NEW x \in Detail, DetailEnds(x) PROVE IInv'
  <2>1. Paid' /\ detailTypes
    BY <1>0, <1>4, DetailEndsPaid
  <2>2. UNCHANGED coordinatorVars /\ UNCHANGED <<probeVars, scenario, lookupVars>>
    BY <1>4 DEF DetailEnds
  <2>3. Sound'
    BY <1>0, <2>1, <2>2, StillSound
  <2> QED BY <2>1, <2>3 DEF IInv, Sound, Paid
<1>5. ASSUME NEW x \in Detail, ReleaseDetail(x) PROVE IInv'
  <2>1. Paid' /\ detailTypes /\ route[x[1]].phase = "details"
    BY <1>0, <1>5, ReleasePaid
  <2>2. /\ RouteStep(x[1]) /\ Calm /\ coordinatorStep
        /\ resolver' = resolver /\ cancels' = cancels
    BY <1>0, <1>5, <2>1, ReleaseDetailMoves
  <2>3. cancels' \in Nat /\ x[1] \in Request
    BY <1>0, <2>2, Typed, DetailParts
  <2>4. Sound'
    BY <1>0, <2>1, <2>2, <2>3, RouteStepSound
  <2> QED BY <2>1, <2>4 DEF IInv, Sound, Paid
<1> QED BY <1>1, <1>2, <1>3, <1>4, <1>5

LEMMA TimeKeepsAll ==
    ASSUME IInv, UNCHANGED detailVars, Wake \/ Tick
    PROVE  IInv'
<1>0. Sound /\ Paid /\ TypeOK /\ LookupOK
  BY InvParts DEF Sound
<1>1. CASE Wake
  <2>1. AlarmFires /\ UNCHANGED <<probeVars, scenario, lookupVars>>
    BY <1>1 DEF Wake
  <2>2. detailTypes
    BY <1>0, Typed DEF detailVars, detailTypes
  <2>3. Sound'
    BY <1>0, <2>1, <2>2, StillSound
  <2>4. /\ window' = window /\ detailWindow' = detailWindow /\ now' = now
        /\ permits' = prunedPermits(permits) /\ issued' = issued /\ route' = route
    BY <2>1 DEF AlarmFires, detailVars, lookupVars
  <2>5. SpentStays /\ Backed' /\ ReservationsKept /\ RoutesGoOn
    BY <1>0, <2>4, PermitsPruned DEF Paid, ReservationsKept, RoutesGoOn
  <2>6. now' \in Nat /\ now <= now'
    BY <1>0, <2>4, Typed
  <2>7. Paid'
    BY <1>0, <2>4, <2>5, <2>6, StillPaid
  <2> QED BY <2>3, <2>7 DEF IInv, Sound, Paid
<1>2. CASE Tick
  <2>1. Sound'
    BY <1>0, <1>2, TickSound
  <2>2. /\ window' = window /\ detailWindow' = detailWindow /\ permits' = permits
        /\ now' = now + 1 /\ route' = route
    BY <1>2 DEF Tick, budgetVars, lookupVars
  <2>3. now' \in Nat /\ now <= now' /\ ReservationsKept /\ RoutesGoOn
    BY <1>0, <2>2, Typed DEF ReservationsKept, RoutesGoOn
  <2>4. Paid'
    BY <1>0, <2>2, <2>3, UnconcernedPaid
  <2> QED BY <2>1, <2>4 DEF IInv, Sound, Paid
<1> QED BY <1>1, <1>2

LEMMA NothingKeepsAll ==
    ASSUME IInv, UNCHANGED vars
    PROVE  IInv'
<1>0. Sound /\ Paid /\ TypeOK
  BY InvParts DEF Sound
<1>1. /\ UNCHANGED coordinatorVars /\ UNCHANGED <<probeVars, scenario, lookupVars>>
      /\ UNCHANGED detailVars /\ route' = route
  BY DEF vars, lookupVars
<1>2. detailTypes
  BY <1>0, <1>1, Typed DEF detailVars, detailTypes
<1>3. Sound'
  BY <1>0, <1>1, <1>2, StillSound
<1>4. ReservationsKept /\ RoutesGoOn
  BY <1>1 DEF ReservationsKept, RoutesGoOn
<1>5. Paid'
  BY <1>0, <1>1, <1>4, CalmPaid
<1> QED BY <1>3, <1>5 DEF IInv, Sound, Paid

LEMMA StepKeepsAll == IInv /\ [Next]_vars => IInv'
<1> SUFFICES ASSUME IInv, [Next]_vars PROVE IInv'
  OBVIOUS
<1>0. Sound /\ Paid /\ TypeOK /\ LookupOK
  BY InvParts DEF Sound
<1>1. ASSUME NEW p \in Probe, PortalStep(p), UNCHANGED detailVars PROVE IInv'
  <2>1. Sound' /\ Paid'
    BY <1>0, <1>1, PortalStepSound, PortalPaid
  <2> QED BY <2>1 DEF IInv, Sound, Paid
<1>2. ASSUME NEW x \in Target, ResolverStep(x), UNCHANGED detailVars PROVE IInv'
  <2>1. SearchStep /\ coordinatorStep /\ cancels' = cancels /\ UNCHANGED coordinatorVars
    BY <1>0, <1>2, ResolverMoves, ResolverUnconcerned
  <2>2. Sound' /\ Paid'
    BY <1>0, <1>2, <2>1, SearchStepSound, SearchPaid
  <2> QED BY <2>2 DEF IInv, Sound, Paid
<1> QED BY <1>1, <1>2, RouteStepKeepsAll, RowsKeepAll, TimeKeepsAll, NothingKeepsAll DEF Next

-----------------------------------------------------------------------------
(* The invariant holds at first.                                           *)

LEMMA InitTypes == Init => TypeOK
<1> SUFFICES ASSUME Init PROVE TypeOK
  OBVIOUS
<1>0. 0 \in 0..MaxTime /\ 0 \in Instant /\ 0 \in 0..BudgetLimit /\ 0 \in 0..DetailBudget
  BY Numbers, Instants
<1>1. scenario \in Scenario /\ scenario.faults \in Nat /\ scenario.cancels \in Nat
  BY LookupAssumption DEF Init, LookupInit
<1>2. store \in {"durable", "redis"} /\ now \in 0..MaxTime /\ alarm \in Instant
  BY <1>0 DEF Init, LookupInit, BudgetInit
<1>3. /\ window \in [count: 0..BudgetLimit, resetAt: Instant]
      /\ detailWindow \in [count: 0..DetailBudget, resetAt: Instant]
  BY <1>0 DEF Init, LookupInit, BudgetInit
<1>4. leases \in [Probe -> Instant] /\ detailLeases \in [Detail -> Instant]
  BY <1>0 DEF Init, LookupInit, BudgetInit
<1>5. permits \in [Permit -> PermitState]
  BY <1>0 DEF Init, LookupInit, BudgetInit, NoPermit, PermitState
<1>6. probe \in [Probe -> ProbeState] /\ faults \in Nat /\ cancels \in Nat
  BY <1>0, <1>1 DEF Init, LookupInit, ProbeInit, NoProbe, ProbeState
<1>7. route \in [Request -> RouteState]
  <2>1. 1 \in 1..(NumTargets + 1)
    BY Numbers
  <2> QED BY <1>0, <2>1 DEF Init, LookupInit, NoRoute, RouteState
<1>8. resolver \in [Target -> ResolverState]
  <2>1. 1 \in 1..MaxProbes
    BY Numbers
  <2> QED BY <2>1 DEF Init, LookupInit, NoResolver, ResolverState
<1>9. detail \in [Detail -> DetailState] /\ issued \subseteq Request
  BY <1>0 DEF Init, NoDetail, DetailState
<1> QED BY <1>1, <1>2, <1>3, <1>4, <1>5, <1>6, <1>7, <1>8, <1>9, Typed

LEMMA InitSound == Init => LeasesOK /\ LookupOK
<1> SUFFICES ASSUME Init PROVE LeasesOK /\ LookupOK
  OBVIOUS
<1>0. TypeOK /\ now = 0 /\ faults = scenario.faults /\ faults \in Nat
  BY InitTypes, Typed DEF Init, LookupInit, BudgetInit
<1>1. /\ \A p \in Probe : /\ probe[p].at = "idle" /\ probe[p].call = "none"
                          /\ probe[p].since = 0 /\ leases[p] = 0
      /\ DOMAIN leases = Probe
  BY DEF Init, LookupInit, BudgetInit, ProbeInit, NoProbe
<1>2. \A x \in Target : /\ resolver[x].phase = "idle" /\ resolver[x].next = 1
                        /\ resolver[x].taken = {}
  BY DEF Init, LookupInit, NoResolver
<1>3. \A r \in Request : /\ route[r] = NoRoute /\ route[r].phase = "idle"
                         /\ route[r].used = 0 /\ route[r].reserved = 0
  BY DEF Init, LookupInit, NoRoute
<1>4. IsFiniteSet({}) /\ Cardinality({}) = 0
  BY FS_EmptySet
<1>5. LeasesOK
  <2>1. active(leases) = {}
    BY <1>0, <1>1 DEF active
  <2>2. stranded = {}
    BY <2>1 DEF stranded
  <2>3. \A p \in Probe : Timely(p)
    BY <1>0, <1>1 DEF Timely
  <2>4. Cardinality(stranded) <= scenario.faults - faults
    BY <1>0, <1>4, <2>2
  <2> QED BY <1>4, <2>1, <2>3, <2>4, Numbers DEF LeasesOK
<1>6. \A p \in Probe : PlaceOK(p)
  BY <1>1 DEF PlaceOK, asked, underway
<1>7. \A x \in Target : SearchOK(x)
  BY <1>2 DEF SearchOK, searching
<1>8. \A r \in Request : RouteOK(r)
  <2> SUFFICES ASSUME NEW r \in Request PROVE RouteOK(r)
    OBVIOUS
  <2>1. running(r) = {}
    BY <1>2 DEF running
  <2>2. askedOf(r) = {}
    BY <1>1 DEF askedOf, asked, probesOf
  <2>3. Cardinality(running(r)) <= IF kind(r) = "bulk" THEN Workers ELSE 1
    BY <1>4, <2>1, Numbers
  <2>4. Cardinality(askedOf(r)) = route[r].used
    BY <1>3, <1>4, <2>2
  <2> QED BY <1>3, <2>3, <2>4 DEF RouteOK
<1> QED BY <1>5, <1>6, <1>7, <1>8 DEF LookupOK

LEMMA InitPaid == Init => Paid
<1> SUFFICES ASSUME Init PROVE Paid
  OBVIOUS
<1>0. IsFiniteSet({}) /\ Cardinality({}) = 0
  BY FS_EmptySet
<1>1. \A r \in Request : route[r].reserved = 0
  BY DEF Init, LookupInit, NoRoute
<1>2. \A x \in Detail : detail[x].at = "idle" /\ detail[x].outcome = "none" /\ ~bought(x)
  BY DEF Init, NoDetail, bought
<1>3. UnitsOK
  <2>1. units = {}
    <3>1. \A u \in Request \X (1..BudgetLimit) : ~(u[2] <= route[u[1]].reserved)
      BY <1>1, Numbers
    <3> QED BY <3>1 DEF units
  <2>2. window.count = 0
    BY DEF Init, LookupInit, BudgetInit
  <2> QED BY <1>0, <1>1, <2>1, <2>2 DEF UnitsOK
<1>4. BuyingOK
  <2>1. buying = {}
    BY <1>2 DEF buying
  <2>2. detailWindow.count = 0
    BY DEF Init, LookupInit, BudgetInit
  <2> QED BY <1>0, <1>2, <2>1, <2>2 DEF BuyingOK
<1>5. PermitsOK
  <2>1. issued = {} /\ \A d \in Permit : permits[d].expiresAt = 0
    BY DEF Init, LookupInit, BudgetInit, NoPermit
  <2>2. \A x \in Detail : DetailOK(x)
    BY <1>2 DEF DetailOK
  <2> QED BY <1>2, <2>1, <2>2 DEF PermitsOK, Backed
<1> QED BY <1>3, <1>4, <1>5 DEF Paid

LEMMA InitHolds == Init => IInv
BY InitTypes, InitSound, InitPaid, InvParts DEF Sound

-----------------------------------------------------------------------------
(* What the invariant says of permits, verdicts and payment.               *)

LEMMA PermitsKeptHolds == IInv => PermitsKept
<1> SUFFICES ASSUME IInv PROVE PermitsKept
  OBVIOUS
<1>0. TypeOK /\ LeasesOK /\ LookupOK
  BY DEF IInv
<1>1. WorkWithinPermits
  <2>1. PICK A : A = active(leases)
    OBVIOUS
  <2>2. PICK W : W = {p \in Probe : probe[p].at = "working"}
    OBVIOUS
  <2>3. W \subseteq A
    <3> SUFFICES ASSUME NEW p \in Probe, probe[p].at = "working" PROVE p \in active(leases)
      BY <2>1, <2>2
    <3>1. PICK since \in Nat : since = probe[p].since
      BY <1>0, Typed DEF ProbeState
    <3>2. now <= since + RouteTime /\ leases[p] >= since + LeaseTime
      BY <1>0, <3>1 DEF LeasesOK, Timely
    <3>3. leases[p] \in Nat /\ DOMAIN leases = Probe /\ now \in Nat
      BY <1>0, Typed, Instants
    <3>4. leases[p] > now
      BY <3>1, <3>2, <3>3, Numbers
    <3> QED BY <3>3, <3>4 DEF active
  <2>4. IsFiniteSet(A) /\ Cardinality(A) \in Nat /\ Cardinality(A) <= PermitLimit
    BY <1>0, <2>1, FS_CardinalityType DEF LeasesOK
  <2>5. Cardinality(W) \in Nat /\ Cardinality(W) <= Cardinality(A)
    BY <2>3, <2>4, FS_Subset, FS_CardinalityType
  <2>6. Cardinality(W) <= PermitLimit
    BY <2>4, <2>5, Numbers
  <2> QED BY <2>2, <2>6 DEF WorkWithinPermits
<1>2. GrantsAccounted
  <2>1. stranded = {p \in active(leases) :
            /\ probe[p].at \notin {"working", "releasing", "returning"}
            /\ probe[p].call # "granted"}
    BY DEF stranded, holding
  <2> QED BY <1>0, <2>1 DEF GrantsAccounted, LeasesOK
<1>3. SettledBeforeAnswer
  BY <1>0, Quiet DEF SettledBeforeAnswer, over, LookupOK
<1> QED BY <1>1, <1>2, <1>3 DEF PermitsKept, NothingLeftBehind

LEMMA FirstMatchHolds == IInv => ResolvedIsFirstMatch
<1> SUFFICES ASSUME IInv, NEW x \in Target, resolver[x].phase = "ended"
             PROVE  /\ resolver[x].verdict \in 0..NumCandidates =>
                          /\ probe[candidate(x, resolver[x].verdict)].outcome = "match"
                          /\ \A i \in 0..(resolver[x].verdict - 1) :
                                probe[candidate(x, i)].outcome = "other"
                    /\ resolver[x].verdict = notFound =>
                          \A i \in 0..NumCandidates : probe[candidate(x, i)].outcome = "other"
  BY DEF ResolvedIsFirstMatch
<1>1. SearchOK(x)
  BY DEF IInv, LookupOK
<1> QED BY <1>1 DEF SearchOK, said

LEMMA PaidForHolds == IInv => PaidFor
<1> SUFFICES ASSUME IInv PROVE PaidFor
  OBVIOUS
<1>0. TypeOK /\ LookupOK /\ UnitsOK /\ BuyingOK /\ PermitsOK
  BY DEF IInv
<1>1. ReservationCovers
  <2> SUFFICES ASSUME NEW r \in Request PROVE route[r].used <= route[r].reserved
    BY DEF ReservationCovers
  <2>1. RouteOK(r) /\ \A p \in Probe : PlaceOK(p)
    BY <1>0 DEF LookupOK
  <2>2. route[r].used \in Nat /\ route[r].reserved \in Nat
    <3>1. route[r] \in RouteState
      BY <1>0, Typed
    <3> QED BY <3>1, Numbers DEF RouteState
  <2>3. CASE route[r].used = 0
    BY <2>2, <2>3
  <2>4. CASE route[r].used # 0
    <3>1. kind(r) \in {"code", "id", "bulk"} /\ route[r].reserved = unitsFor(r)
          /\ Cardinality(askedOf(r)) = route[r].used
      BY <2>1, <2>4 DEF RouteOK
    <3> QED BY <1>0, <2>1, <3>1, AskedWithinUnits
  <2> QED BY <2>3, <2>4
<1>2. UnitsPerWindow
  <2>1. Cardinality({u \in Request \X (1..BudgetLimit) :
                        /\ u[2] <= route[u[1]].reserved
                        /\ route[u[1]].since >= window.resetAt - WindowTime}) <= window.count
    BY <1>0 DEF UnitsOK, units, inWindow
  <2>2. Cardinality({x \in Detail :
                        /\ \/ detail[x].at \in {"fetching", "releasing"}
                           \/ detail[x].outcome \in {"html", "error"}
                        /\ detail[x].since >= detailWindow.resetAt - DetailWindow})
            <= detailWindow.count
    BY <1>0 DEF BuyingOK, buying, bought, inWindow
  <2> QED BY <2>1, <2>2 DEF UnitsPerWindow
<1>3. PermitBuysOnce
  <2>1. \A x \in Detail : bought(x) =>
            presentedBy(x).bound /\ presentedBy(x).permit[1] \in issued
    BY <1>0 DEF PermitsOK, DetailOK
  <2>2. \A x, y \in Detail :
            bought(x) /\ bought(y) /\ presentedBy(x).permit = presentedBy(y).permit => x = y
    BY <1>0 DEF PermitsOK
  <2>3. \A x \in Detail : bought(x) <=> \/ detail[x].at \in {"fetching", "releasing"}
                                        \/ detail[x].outcome \in {"html", "error"}
    BY DEF bought
  <2> QED BY <2>1, <2>2, <2>3 DEF PermitBuysOnce
<1> QED BY <1>1, <1>2, <1>3 DEF PaidFor

-----------------------------------------------------------------------------
(* A request that is alone.                                                *)

LEMMA Numbered ==
    ASSUME NEW S, IsFiniteSet(S), NEW w \in Nat, Cardinality(S) <= w
    PROVE  \E g : g \in Injection(S, 1..w)
<1>1. PICK n \in Nat : n = Cardinality(S)
  BY FS_CardinalityType
<1>2. ExistsBijection(1..n, S)
  BY <1>1, FS_CardinalityType
<1>3. ExistsBijection(S, 1..n)
  BY <1>2, Fun_ExistsBijSymmetric
<1>4. PICK g : g \in Bijection(S, 1..n)
  BY <1>3, Fun_ExistsBij
<1>5. g \in [S -> 1..n] /\ \A a, b \in S : g[a] = g[b] => a = b
  BY <1>4 DEF Bijection, Injection, IsInjective
<1>6. 1..n \subseteq 1..w
  BY <1>1
<1>7. g \in [S -> 1..w]
  BY <1>5, <1>6
<1> QED BY <1>5, <1>7, Fun_IsInj

\* Requests of one route, at most w of each target.
LEMMA CountGroups ==
    ASSUME NEW X, IsFiniteSet(X), NEW w \in Nat, NEW places,
           \A x \in X : IsFiniteSet(places[x]) /\ Cardinality(places[x]) <= w,
           NEW r, NEW S,
           \A p \in S : p = <<r, p[2], p[3]>> /\ <<r, p[2]>> \in X /\ p[3] \in places[<<r, p[2]>>]
    PROVE  IsFiniteSet(S) /\ Cardinality(S) <= Cardinality(X) * w
<1> DEFINE number == [x \in X |-> CHOOSE g : g \in Injection(places[x], 1..w)]
<1>1. \A x \in X : number[x] \in Injection(places[x], 1..w)
  <2> SUFFICES ASSUME NEW x \in X PROVE number[x] \in Injection(places[x], 1..w)
    OBVIOUS
  <2>1. \E g : g \in Injection(places[x], 1..w)
    BY Numbered
  <2> QED BY <2>1
<1> HIDE DEF number
<1>2. \A x \in X : /\ number[x] \in [places[x] -> 1..w]
                   /\ \A a, b \in places[x] : number[x][a] = number[x][b] => a = b
  BY <1>1 DEF Injection, IsInjective
<1> DEFINE mark == [p \in S |-> <<<<r, p[2]>>, number[<<r, p[2]>>][p[3]]>>]
<1>3. mark \in [S -> X \X (1..w)]
  <2>1. \A p \in S : number[<<r, p[2]>>][p[3]] \in 1..w /\ <<r, p[2]>> \in X
    BY <1>2
  <2> QED BY <2>1
<1>4. ASSUME NEW p \in S, NEW q \in S, mark[p] = mark[q] PROVE p = q
  <2>1. p[2] = q[2] /\ number[<<r, p[2]>>][p[3]] = number[<<r, q[2]>>][q[3]]
    BY <1>4
  <2>2. <<r, p[2]>> \in X /\ p[3] \in places[<<r, p[2]>>] /\ q[3] \in places[<<r, p[2]>>]
    BY <2>1
  <2>3. p[3] = q[3]
    BY <1>2, <2>1, <2>2
  <2>4. p = <<r, p[2], p[3]>> /\ q = <<r, q[2], q[3]>>
    OBVIOUS
  <2> QED BY <2>1, <2>3, <2>4
<1> HIDE DEF mark
<1>5. mark \in Injection(S, X \X (1..w))
  BY <1>3, <1>4, Fun_IsInj
<1>6. IsFiniteSet(1..w) /\ Cardinality(1..w) = w
  BY FS_Interval
<1>7. IsFiniteSet(X \X (1..w)) /\ Cardinality(X \X (1..w)) = Cardinality(X) * w
  BY <1>6, FS_Product
<1> QED BY <1>5, <1>7, FS_Injection

LEMMA WithinProduct ==
    ASSUME NEW k \in Nat, NEW n \in Nat, NEW w \in Nat, NEW d \in Nat, k <= n, w <= d
    PROVE  k * w <= n * d
<1>1. k * w <= n * w
  OBVIOUS
<1>2. n * w <= n * d
  OBVIOUS
<1> QED BY <1>1, <1>2

underwayOf(r) == {p \in probesOf(r) : underway(p)}

\* The pools of a route fit the permits.
LEMMA AloneFits ==
    ASSUME TypeOK, LookupOK, NEW r \in Request
    PROVE  /\ IsFiniteSet(underwayOf(r)) /\ Cardinality(underwayOf(r)) \in Nat
           /\ Cardinality(underwayOf(r)) <= PermitLimit
<1>0. /\ \A p \in Probe : PlaceOK(p)
      /\ \A x \in Target : SearchOK(x)
      /\ RouteOK(r)
  BY DEF LookupOK
<1>1. CASE route[r].phase # "resolving"
  <2>1. \A x \in Target : x[1] = r => ~searching(x)
    BY <1>0, <1>1 DEF SearchOK
  <2>2. \A p \in underwayOf(r) : \/ route[r].phase = "fetching" /\ p = transcriptOf(r)
                                 \/ route[r].phase = "warming" /\ p = warmUpOf(r)
    <3> SUFFICES ASSUME NEW p \in Probe, p[1] = r, underway(p)
                 PROVE  \/ route[r].phase = "fetching" /\ p = transcriptOf(r)
                        \/ route[r].phase = "warming" /\ p = warmUpOf(r)
      BY DEF underwayOf, probesOf
    <3>1. <<p[1], p[2]>> \in Target /\ <<p[1], p[2]>>[1] = r
      BY ProbeParts
    <3>2. ~searching(<<p[1], p[2]>>)
      BY <2>1, <3>1
    <3> QED BY <1>0, <3>2 DEF PlaceOK, searching
  <2>3. PICK t : t = IF route[r].phase = "fetching" THEN transcriptOf(r) ELSE warmUpOf(r)
    OBVIOUS
  <2>4. underwayOf(r) \subseteq {t}
    BY <2>2, <2>3
  <2>5. IsFiniteSet({t}) /\ Cardinality({t}) = 1
    BY FS_Singleton
  <2>6. IsFiniteSet(underwayOf(r)) /\ Cardinality(underwayOf(r)) <= 1
    BY <2>4, <2>5, FS_Subset
  <2> QED BY <2>6, FS_CardinalityType, Numbers
<1>2. CASE route[r].phase = "resolving"
  <2>1. PICK w \in 1..NumCandidates : w = poolWidth(r)
    BY PoolWidth
  <2>2. w \in Nat /\ w >= 1
    BY <2>1, Numbers
  <2> DEFINE places == [x \in running(r) |-> IF resolver[x].phase = "first" THEN {0} ELSE unread(x)]
  <2>3. \A x \in running(r) : IsFiniteSet(places[x]) /\ Cardinality(places[x]) <= w
    <3> SUFFICES ASSUME NEW x \in running(r)
                 PROVE  IsFiniteSet(places[x]) /\ Cardinality(places[x]) <= w
      OBVIOUS
    <3>1. x \in Target /\ x[1] = r /\ resolver[x].phase \in {"first", "pool", "settling"}
      BY DEF running
    <3>2. CASE resolver[x].phase = "first"
      <4>1. places[x] = {0}
        BY <3>2
      <4>2. IsFiniteSet({0}) /\ Cardinality({0}) = 1
        BY FS_Singleton
      <4> QED BY <2>2, <4>1, <4>2
    <3>3. CASE resolver[x].phase # "first"
      <4>1. places[x] = unread(x)
        BY <3>3
      <4>2. Cardinality(unread(x)) <= poolWidth(r)
        BY <1>0, <3>1, <3>3 DEF SearchOK
      <4> QED BY <2>1, <3>1, <4>1, <4>2, UnreadFinite
    <3> QED BY <3>2, <3>3
  <2>4. \A p \in underwayOf(r) :
            /\ p = <<r, p[2], p[3]>> /\ <<r, p[2]>> \in running(r)
            /\ p[3] \in places[<<r, p[2]>>]
    <3> SUFFICES ASSUME NEW p \in Probe, p[1] = r, underway(p)
                 PROVE  /\ p = <<r, p[2], p[3]>> /\ <<r, p[2]>> \in running(r)
                        /\ p[3] \in places[<<r, p[2]>>]
      BY DEF underwayOf, probesOf
    <3>1. PICK x \in Target : x = <<r, p[2]>>
      BY ProbeParts
    <3>2. \/ resolver[x].phase = "first" /\ p[3] = 0
          \/ resolver[x].phase \in {"pool", "settling"} /\ p[3] \in unread(x)
      BY <1>0, <1>2, <3>1 DEF PlaceOK
    <3>3. x \in running(r)
      BY <3>1, <3>2 DEF running
    <3>4. p[3] \in places[x]
      BY <3>2, <3>3
    <3> QED BY <3>1, <3>3, <3>4, ProbeParts
  <2> HIDE DEF places
  <2>5. PICK k \in Nat : k = Cardinality(running(r)) /\ IsFiniteSet(running(r))
    BY RunningFinite
  <2>6. IsFiniteSet(underwayOf(r)) /\ Cardinality(underwayOf(r)) <= k * w
    BY <2>2, <2>3, <2>4, <2>5, CountGroups
  <2>7. k * w <= PermitLimit
    <3>1. CASE kind(r) = "bulk"
      <4>1. PICK d \in Nat : d = PermitLimit \div Workers /\ Workers * d <= PermitLimit
        BY Numbers, Division
      <4>2. k <= Workers /\ w <= d
        BY <1>0, <2>1, <2>5, <3>1, <4>1, PoolWidth DEF RouteOK
      <4>3. k * w <= Workers * d
        BY <2>2, <4>2, Numbers, WithinProduct
      <4>4. PICK m \in Nat : m = k * w
        BY <2>2
      <4>5. PICK n \in Nat : n = Workers * d
        BY <4>1, Numbers
      <4> QED BY <4>1, <4>3, <4>4, <4>5, Numbers
    <3>2. CASE kind(r) # "bulk"
      <4>1. k <= 1 /\ w <= PermitLimit
        <5>1. k <= 1 /\ w <= Width
          BY <1>0, <2>1, <2>5, <3>2, PoolWidth DEF RouteOK
        <5> QED BY <2>2, <5>1, Numbers
      <4>2. k * w <= 1 * PermitLimit
        BY <2>2, <4>1, Numbers, WithinProduct
      <4> QED BY <4>2, Numbers
    <3> QED BY <3>1, <3>2
  <2>8. Cardinality(underwayOf(r)) \in Nat
    BY <2>6, FS_CardinalityType
  <2>9. PICK m \in Nat : m = k * w
    BY <2>2
  <2> QED BY <2>6, <2>7, <2>8, <2>9, Numbers
<1> QED BY <1>1, <1>2

\* Only the coordinator's answer refuses a call, when the permits are all taken.
LEMMA RefusedForCapacity ==
    ASSUME IInv, [Next]_vars, NEW p \in Probe,
           probe[p].call = "sent", probe'[p].call = "refused"
    PROVE  ~hasCapacity
<1>0. TypeOK /\ LookupOK /\ PlaceOK(p) /\ probe[p].at \in {"acquiring", "done"}
  BY DEF IInv, LookupOK, PlaceOK
<1>1. probe \in [Probe -> ProbeState]
  BY <1>0, Typed
<1>2. ASSUME NEW S, Starting(S) PROVE FALSE
  <2>1. p \notin S
    BY <1>0, <1>2 DEF Starting, Begun, asked
  <2> QED BY <1>2, <2>1 DEF Starting, Kept
<1>3. ASSUME NEW r \in Request, RouteStep(r) PROVE FALSE
  BY <1>2, <1>3 DEF RouteStep, Moved
<1>4. ASSUME SearchStep PROVE FALSE
  BY <1>2, <1>4 DEF SearchStep, SearchMoves
<1>5. ASSUME NEW q \in Probe, ProbeStep(q) PROVE ~hasCapacity
  <2>1. p = q
    <3>1. PICK v : probe' = [probe EXCEPT ![q] = v]
      BY <1>0, <1>5, PortalMoves DEF becomes, LookupOK
    <3> QED BY <1>1, <3>1
  <2>2. CASE CoordinatorAnswers(p)
    <3>1. ASSUME NEW answer \in {"granted", "failed"}, probe' = heard(p, answer) PROVE FALSE
      <4>1. PICK v : v.call = (IF done(p) /\ answer # "granted" THEN "none" ELSE answer)
                     /\ becomes(p, v)
        BY <1>0, <3>1, HeardBecomes
      <4>2. probe'[p] = v
        BY <1>1, <4>1 DEF becomes
      <4> QED BY <4>1, <4>2
    <3> QED BY <2>2, <3>1 DEF CoordinatorAnswers, RefuseLease
  <2>3. CASE LeaveAcquire(p)
    <3>1. PICK w : probe' = [[probe EXCEPT ![p] = w] EXCEPT ![p].call = "sent"]
      BY <2>3 DEF LeaveAcquire, ends
    <3>2. probe'[p] = [w EXCEPT !.call = "sent"]
      BY <1>1, <3>1
    <3> QED BY <3>2
  <2>4. ~LateGrant(p) /\ ~AcquireGranted(p) /\ ~AcquireFailed(p)
    BY DEF LateGrant, AcquireGranted, AcquireFailed
  <2>5. ~ReturnCut(p) /\ ~FetchEnds(p) /\ ~ReleasePermit(p)
    <3>1. ReturnCut(p) \/ FetchEnds(p) \/ ReleasePermit(p) =>
              probe[p].at \in {"returning", "working", "releasing"}
      BY Zenon DEF ReturnCut, FetchEnds, ReleasePermit
    <3> QED BY <1>0, <3>1
  <2>6. CASE ProbeTimesOut(p)
    <3>1. Starting({})
      BY <1>0, <2>6, CutOffKeeps DEF ProbeTimesOut
    <3> QED BY <1>2, <3>1
  <2> QED BY <1>5, <2>1, <2>2, <2>3, <2>4, <2>5, <2>6 DEF ProbeStep
<1>6. ASSUME probe' = probe PROVE FALSE
  BY <1>6
<1>7. ASSUME NEW r \in Request, LookupStep(r) PROVE FALSE
  BY <1>0, <1>3, <1>4, <1>7, ReserveMoves, StartTargetMoves, ResolvingEndsMoves, CancelledMoves
     DEF LookupStep
<1>8. ASSUME NEW x \in Target, ResolverStep(x) PROVE FALSE
  BY <1>0, <1>4, <1>8, ResolverMoves
<1>9. ASSUME NEW r \in Request, TranscriptEnds(r) \/ StartDetails(r) \/ WarmUpEnds(r) PROVE FALSE
  BY <1>0, <1>3, <1>9, TranscriptMoves, StartDetailsMoves, WarmUpMoves
<1>10. ASSUME NEW x \in Detail, Present(x) \/ DetailEnds(x) \/ ReleaseDetail(x) PROVE FALSE
  BY <1>6, <1>10 DEF Present, DetailEnds, ReleaseDetail, probeVars
<1>11. ASSUME Wake \/ Tick \/ UNCHANGED vars PROVE FALSE
  BY <1>6, <1>11 DEF Wake, Tick, vars, probeVars
<1> QED BY <1>5, <1>7, <1>8, <1>9, <1>10, <1>11 DEF Next, PortalStep

BusyIsShared ==
    \A p \in Probe :
        (probe[p].call = "sent" /\ probe'[p].call = "refused") =>
            \/ \E r \in Request : r # p[1] /\ route[r].phase # "idle"
            \/ faults < scenario.faults
            \/ \E q \in Probe : late(q)

LEMMA AloneIsNotBusy == IInv /\ [Next]_vars => BusyIsShared
<1> SUFFICES ASSUME IInv, [Next]_vars, NEW p \in Probe,
                    probe[p].call = "sent", probe'[p].call = "refused",
                    \A r \in Request : r # p[1] => route[r].phase = "idle",
                    ~(faults < scenario.faults), \A q \in Probe : ~late(q)
             PROVE  FALSE
  BY DEF BusyIsShared
<1>0. /\ TypeOK /\ LeasesOK /\ LookupOK /\ \A q \in Probe : PlaceOK(q)
      /\ faults \in Nat /\ scenario.faults \in Nat /\ PermitLimit \in Nat
  BY Typed, LookupAssumption, Numbers DEF IInv, LookupOK
<1>1. PICK A : A = active(leases)
  OBVIOUS
<1>2. IsFiniteSet(A) /\ Cardinality(A) \in Nat /\ ~(Cardinality(A) < PermitLimit)
  BY <1>0, <1>1, RefusedForCapacity, FS_CardinalityType DEF LeasesOK, hasCapacity
<1>3. A \subseteq Probe
  BY <1>0, <1>1, Typed DEF active
<1>4. \A q \in A : holding(q)
  <2>1. PICK T : T = stranded
    OBVIOUS
  <2>2. T \subseteq A
    BY <1>1, <2>1 DEF stranded
  <2>3. IsFiniteSet(T) /\ Cardinality(T) \in Nat
    BY <1>2, <2>2, FS_Subset, FS_CardinalityType
  <2>4. Cardinality(T) <= scenario.faults - faults
    BY <1>0, <2>1 DEF LeasesOK
  <2>5. Cardinality(T) = 0
    BY <1>0, <2>3, <2>4
  <2>6. T = {}
    BY <2>3, <2>5, FS_EmptySet
  <2> QED BY <1>1, <2>1, <2>6 DEF stranded
<1>5. PICK r \in Request : r = p[1]
  BY ProbeParts
<1>6. \A q \in A : q \in underwayOf(r) /\ q # p
  <2> SUFFICES ASSUME NEW q \in A PROVE q \in underwayOf(r) /\ q # p
    OBVIOUS
  <2>1. q \in Probe /\ holding(q) /\ ~late(q) /\ PlaceOK(q)
    BY <1>0, <1>3, <1>4
  <2>2. underway(q)
    BY <2>1 DEF holding, late, done, underway, PlaceOK
  <2>3. asked(q)
    BY <2>2 DEF underway, asked
  <2>4. q[1] \in Request /\ route[q[1]].phase # "idle"
    BY <2>1, <2>3, ProbeParts DEF PlaceOK
  <2>5. q[1] = r
    BY <1>5, <2>4
  <2>6. q # p
    BY <1>0, <2>1 DEF holding, PlaceOK
  <2> QED BY <2>1, <2>2, <2>5, <2>6 DEF underwayOf, probesOf
<1>7. p \in underwayOf(r)
  BY <1>0, <1>5 DEF PlaceOK, late, done, underway, underwayOf, probesOf
<1>8. PICK U : U = underwayOf(r)
  OBVIOUS
<1>9. IsFiniteSet(U) /\ Cardinality(U) \in Nat /\ Cardinality(U) <= PermitLimit
  BY <1>0, <1>8, AloneFits
<1>10. A \subseteq U /\ A # U
  BY <1>6, <1>7, <1>8
<1>11. Cardinality(A) < Cardinality(U)
  BY <1>2, <1>9, <1>10, FS_Subset
<1> QED BY <1>0, <1>2, <1>9, <1>11

-----------------------------------------------------------------------------
(* The theorems.                                                           *)

\* The whole of the invariant, kept by every step of the routes, of the
\* resolver, of the requests to the portal, of the coordinator and its alarm,
\* and of the clock (app.ts, vnu-student-id-resolver.ts, vnu-probe-budget.ts).
THEOREM InductiveInvariant == Spec => []IInv
BY InitHolds, StepKeepsAll, PTL DEF Spec

\* Every record of the coordinator, the routes and the resolvers has its shape:
\* the probe window never counts more than its limit, whatever is charged
\* (consumeBudgetWindow, fixedWindowScript).
THEOREM TypeCorrect == Spec => []TypeOK
<1>1. IInv => TypeOK
  BY DEF IInv
<1> QED BY <1>1, InductiveInvariant, PTL

\* No more Brc1 requests are at the portal than there are permits, every lease
\* but those that failed calls left behind has someone to return it, and a
\* request is answered only when nothing of it is under way (acquireBrc1Permit,
\* crossLookupRequestTimeoutMs, settleStarted).
THEOREM PermitsAreKept == Spec => []PermitsKept
BY InductiveInvariant, PermitsKeptHolds, PTL

\* The student id a search ends with is that of the first candidate whose page
\* matches, and "not found" has heard every candidate, in whatever order the
\* pool's answers came (resolveVnuStudentId).
THEOREM FirstMatchWins == Spec => []ResolvedIsFirstMatch
BY InductiveInvariant, FirstMatchHolds, PTL

\* A route never makes a request to the portal it has not reserved, the windows
\* have counted all that was sold in them, and a permit buys one detail, of the
\* requester it was issued to (createVnuProbeAllowance, consumeBudgetWindow,
\* consumeCrossDetailPermit).
THEOREM EverythingIsPaidFor == Spec => []PaidFor
BY InductiveInvariant, PaidForHolds, PTL

\* A request that is alone in its session is never told that it is busy: its
\* pools fit the permits, unless a call failed or a late grant is still to be
\* returned (bulkResolverCandidateWidth, refusing with VNU_CROSS_LOOKUP_BUSY).
THEOREM BusyOnlyIfShared == Spec => BusyOnlyWhenShared
<1>1. Spec => [][BusyIsShared]_vars
  BY InductiveInvariant, AloneIsNotBusy, PTL DEF Spec
<1> QED BY <1>1 DEF BusyIsShared, BusyOnlyWhenShared
=============================================================================
