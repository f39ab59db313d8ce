----------------------------- MODULE HaLifecycle -----------------------------
(***************************************************************************)
(* The lifecycle controller of a replica: its state, the readiness of its  *)
(* dependencies, the requests for its readiness, which probe those         *)
(* dependencies that have a probe, and the shutdown: a drain and a         *)
(* clean-up that share one time budget.                                    *)
(*                                                                         *)
(* Time is left out: the timer of a shutdown step may run out whenever it  *)
(* is set.                                                                 *)
(***************************************************************************)
EXTENDS PostgresMigrations

CONSTANTS
    Dependency,     \* Groups of dependencies whose readiness is set together.
    Query           \* Requests for readiness.

VARIABLES
    state,          \* The state of every replica.
    dependencies,   \* What every replica holds of its dependencies.
    aim,            \* "open" until stop() is called, then the step it is at.
    report,         \* What shutdownReport says of drain and stop.
    query,          \* Every request for readiness.
    probed,         \* The dependencies that have a probe; never changes.
    up              \* The dependencies that are up, as their probes find them.

lifecycleVars == <<state, dependencies, aim, report, query>>

State == {"starting", "ready", "degraded", "draining", "stopped"}
Readiness == {"ready", "unavailable"}

NoReport == [drain |-> "none", stop |-> "none"]

\* waits: the probes that have not answered. saw: what they have found.
\* heard: the dependencies some probe reported ready while the request waited.
NoQuery == [at |-> "idle", by |-> Nobody, waits |-> {}, saw |-> {}, heard |-> {},
            answer |-> "none"]

LifecycleTypeOK ==
    /\ state \in [Replica -> State]
    /\ dependencies \in [Replica -> [Dependency -> Readiness]]
    /\ aim \in [Replica -> {"open", "draining", "cleaning", "over"}]
    /\ report \in [Replica -> [drain: {"none", "completed", "timed-out"},
                               stop: {"none", "completed", "timed-out"}]]
    /\ query \in [Query -> [at: {"idle", "probing", "answered"}, by: Replica \cup {Nobody},
                            waits: SUBSET Dependency, saw: SUBSET (Dependency \X Readiness),
                            heard: SUBSET Dependency, answer: State \cup {"none"}]]
    /\ probed \subseteq Dependency
    /\ up \subseteq Dependency

LifecycleInit ==
    /\ state = [n \in Replica |-> "starting"]
    /\ dependencies = [n \in Replica |-> [d \in Dependency |-> "unavailable"]]
    /\ aim = [n \in Replica |-> "open"]
    /\ report = [n \in Replica |-> NoReport]
    /\ query = [q \in Query |-> NoQuery]
    /\ up = Dependency

-----------------------------------------------------------------------------
\* Mutant: one dependency that is ready is enough.
nextOperationalStateOfAny(ds) ==
    IF \E d \in Dependency : ds[d] = "ready" THEN "ready" ELSE "degraded"

nextOperationalState(ds) ==
    IF \A d \in Dependency : ds[d] = "ready" THEN "ready" ELSE "degraded"

\* Mutant: the readiness of the dependencies decides, drained or not.
applyDependencyStateAlways(n, ds) == nextOperationalState(ds)

\* A replica that drains or has stopped keeps its state.
applyDependencyState(n, ds) ==
    IF state[n] \in {"starting", "ready", "degraded"} THEN nextOperationalState(ds) ELSE state[n]

\* setDependencyStatuses, for one group.
recordDependency(n, d, status) ==
    LET ds == [dependencies[n] EXCEPT ![d] = status]
    IN  /\ dependencies' = [dependencies EXCEPT ![n] = ds]
        /\ state' = [state EXCEPT ![n] = applyDependencyState(n, ds)]

probeSays(d) == IF d \in up THEN "ready" ELSE "unavailable"

(* start(): a replica that has left "starting" has nothing to refresh.     *)
startLifecycle(n) ==
    IF state[n] # "starting" THEN UNCHANGED <<state, dependencies>>
    ELSE LET ds == [d \in Dependency |-> IF d \in probed THEN probeSays(d)
                                         ELSE dependencies[n][d]]
         IN  /\ dependencies' = [dependencies EXCEPT ![n] = ds]
             /\ state' = [state EXCEPT ![n] = nextOperationalState(ds)]

-----------------------------------------------------------------------------
(* readiness(): a replica in service probes before it answers.             *)
AskReadiness(q, n) ==
    /\ query[q].at = "idle"
    /\ query' = [query EXCEPT ![q] =
          IF state[n] \in {"ready", "degraded"}
          THEN [NoQuery EXCEPT !.at = "probing", !.by = n, !.waits = probed]
          ELSE [NoQuery EXCEPT !.at = "answered", !.by = n, !.answer = state[n]]]
    /\ UNCHANGED <<state, dependencies, aim, report>>

(* A probe has seen its dependency; its answer is on the way.              *)
ProbeLooks(q, d) ==
    /\ query[q].at = "probing" /\ d \in query[q].waits
    /\ \A pair \in query[q].saw : pair[1] # d
    /\ query' = [query EXCEPT ![q].saw = @ \cup {<<d, probeSays(d)>>}]
    /\ UNCHANGED <<state, dependencies, aim, report>>

hearing(n, d, status) ==
    [x \in Query |-> IF query[x].by = n /\ query[x].at = "probing" /\ status = "ready"
                     THEN [query[x] EXCEPT !.heard = @ \cup {d}] ELSE query[x]]

ProbeAnswers(q, d) ==
    \E status \in Readiness :
        /\ query[q].at = "probing" /\ d \in query[q].waits /\ <<d, status>> \in query[q].saw
        /\ query' = [hearing(query[q].by, d, status) EXCEPT ![q].waits = @ \ {d}]
        /\ dependencies' = [dependencies EXCEPT ![query[q].by][d] = status]
        /\ UNCHANGED <<state, aim, report>>

(* Every probe has answered.                                               *)
AnswerReadiness(q) ==
    LET n == query[q].by
        applies == applyDependencyState(n, dependencies[n])
    IN  /\ query[q].at = "probing" /\ query[q].waits = {}
        /\ state' = [state EXCEPT ![n] = applies]
        /\ query' = [query EXCEPT ![q].at = "answered", ![q].answer = applies]
        /\ UNCHANGED <<dependencies, aim, report>>

-----------------------------------------------------------------------------
(* stop(), which only its first call runs; drain() marks the replica.      *)
beginStop(n) ==
    /\ aim[n] = "open"
    /\ aim' = [aim EXCEPT ![n] = "draining"]
    /\ state' = [state EXCEPT ![n] = "draining"]

(* The drain has ended, or its timer has.                                  *)
endDrain(n, outcome) ==
    /\ aim[n] = "draining"
    /\ aim' = [aim EXCEPT ![n] = "cleaning"]
    /\ report' = [report EXCEPT ![n].drain = outcome]

(* So has the clean-up, for which a drain that timed out has left no time: *)
(* the timer of zero then fires as soon as the clean-up waits.             *)
endCleanUp(n, outcome) ==
    /\ aim[n] = "cleaning"
    /\ aim' = [aim EXCEPT ![n] = "over"]
    /\ report' = [report EXCEPT ![n].stop = outcome]
    /\ state' = [state EXCEPT ![n] = "stopped"]
=============================================================================
