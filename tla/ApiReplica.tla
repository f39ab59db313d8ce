----------------------------- MODULE ApiReplica -----------------------------
(***************************************************************************)
(* Replicas of the self-hosted API in distributed mode, from their start   *)
(* to their exit: PostgreSQL and its migrations, Redis and its coordinators*)
(* the feature policy runtime, the server, and the shutdown a signal asks  *)
(* for. A replica may die at any step and be started again, with another   *)
(* release when the deployment rolls.                                      *)
(***************************************************************************)
EXTENDS HaLifecycle

CONSTANTS
    Resource,        \* {"policy", "browsers", "redis", "postgres"}
    Scenario         \* The replicas that take part, the releases they start
                     \* with and may be replaced by, the URLs configured, what
                     \* has a probe, the requests for readiness, and bounds on
                     \* failures, deaths, outages, signals and requests.

ASSUME ReplicaAssumption ==
    /\ Dependency = {"postgres", "redis"}
    /\ Resource = {"policy", "browsers", "redis", "postgres"}
    /\ \A x \in Scenario :
          /\ x.releases \in [Replica -> Releases]
          /\ x.replicas \subseteq Replica /\ x.queries \subseteq Query
          /\ x.urls \subseteq Dependency
          /\ x.upgrades \subseteq Releases /\ x.probed \subseteq Dependency
          /\ {x.faults, x.deaths, x.outages, x.signals, x.requests} \subseteq Nat

VARIABLES
    scenario,    \* Never changes.
    at,          \* Where the process of every replica is.
    held,        \* The resources it holds open.
    served,      \* Its server, and the requests in flight.
    cleaning,    \* What its clean-up has yet to try, and how often it began.
    allowed      \* How many deaths, outages, signals and requests may happen.

replicaVars == <<at, held, served, cleaning, allowed>>
deploymentVars == <<migrationVars, faults, lifecycleVars, probed, up, scenario, replicaVars>>

NoServer == [server |-> "absent", inFlight |-> 0]
NoCleaning == [left |-> {}, begun |-> 0]

TypeOK ==
    /\ MigrationTypeOK /\ LifecycleTypeOK
    /\ scenario \in Scenario
    /\ at \in [Replica -> {"down", "postgres", "redis", "starting", "serving"}]
    /\ held \in [Replica -> SUBSET Resource]
    /\ served \in [Replica -> [server: {"absent", "open", "closing", "closed"},
                               inFlight: Nat]]
    /\ cleaning \in [Replica -> [left: SUBSET Resource, begun: 0..1]]
    /\ allowed \in [deaths: Nat, outages: Nat, signals: Nat, requests: Nat]

ReplicaInit ==
    /\ scenario \in Scenario
    /\ MigrationInit /\ LifecycleInit
    /\ release = scenario.releases /\ faults = scenario.faults /\ probed = scenario.probed
    /\ at = [n \in Replica |-> "down"]
    /\ held = [n \in Replica |-> {}]
    /\ served = [n \in Replica |-> NoServer]
    /\ cleaning = [n \in Replica |-> NoCleaning]
    /\ allowed = [deaths |-> scenario.deaths, outages |-> scenario.outages,
                 signals |-> scenario.signals, requests |-> scenario.requests]

spend(what) == allowed[what] > 0 /\ allowed' = [allowed EXCEPT ![what] = @ - 1]

-----------------------------------------------------------------------------
(* start().                                                                *)

\* The memory of a process that has not started.
forgets(n) ==
    /\ state' = [state EXCEPT ![n] = "starting"]
    /\ dependencies' = [dependencies EXCEPT ![n] = [d \in Dependency |-> "unavailable"]]
    /\ aim' = [aim EXCEPT ![n] = "open"]
    /\ report' = [report EXCEPT ![n] = NoReport]
    /\ cleaning' = [cleaning EXCEPT ![n] = NoCleaning]

(* A process starts from nothing, and may be of a new release.             *)
StartProcess(n) ==
    /\ at[n] = "down" /\ n \in scenario.replicas
    /\ forgets(n)
    /\ at' = [at EXCEPT ![n] = "postgres"]
    /\ \E rel \in {release[n]} \cup scenario.upgrades : release' = [release EXCEPT ![n] = rel]
    /\ migrator' = [migrator EXCEPT ![n] = [NoMigrator EXCEPT
                        !.at = IF "postgres" \in scenario.urls THEN "locking" ELSE "ended"]]
    /\ held' = [held EXCEPT ![n] = {"browsers"} \cup ({"postgres"} \cap scenario.urls)]
    /\ UNCHANGED <<databaseVars, faults, query, probed, up, scenario, served, allowed>>

Migrate(n) ==
    /\ at[n] = "postgres"
    /\ MigrationStep(n)
    /\ UNCHANGED <<lifecycleVars, probed, up, scenario, replicaVars>>

(* The stores and coordinators of PostgreSQL are installed together, after *)
(* the migrations; a failure closes the pool.                              *)
PostgresReady(n) ==
    /\ at[n] = "postgres" /\ migrator[n].at = "ended"
    /\ at' = [at EXCEPT ![n] = "redis"]
    /\ \/ /\ migrator[n].result = "applied"
          /\ recordDependency(n, "postgres", "ready") /\ UNCHANGED held
       \/ /\ migrator[n].result = "failed"
          /\ recordDependency(n, "postgres", "unavailable")
          /\ held' = [held EXCEPT ![n] = @ \ {"postgres"}]
       \/ /\ migrator[n].result = "none"
          /\ UNCHANGED <<state, dependencies, held>>
    /\ UNCHANGED <<migrationVars, faults, aim, report, query, probed, up, scenario, served,
                   cleaning, allowed>>

(* Redis is connected and subscribed to before its coordinators are        *)
(* installed; the policy runtime needs the store and the events.           *)
RedisReady(n) ==
    /\ at[n] = "redis"
    /\ at' = [at EXCEPT ![n] = "starting"]
    /\ \/ /\ "redis" \in scenario.urls
          /\ recordDependency(n, "redis", "ready") /\ UNCHANGED faults
          /\ held' = [held EXCEPT ![n] = @ \cup {"redis"} \cup
                                     IF "postgres" \in @ THEN {"policy"} ELSE {}]
       \/ /\ "redis" \in scenario.urls /\ fault
          /\ recordDependency(n, "redis", "unavailable") /\ UNCHANGED held
       \/ /\ "redis" \notin scenario.urls
          /\ UNCHANGED <<state, dependencies, held, faults>>
    /\ UNCHANGED <<migrationVars, aim, report, query, probed, up, scenario, served, cleaning,
                   allowed>>

Listen(n) ==
    /\ at[n] = "starting"
    /\ startLifecycle(n)
    /\ at' = [at EXCEPT ![n] = "serving"]
    /\ served' = [served EXCEPT ![n].server = "open"]
    /\ UNCHANGED <<migrationVars, faults, aim, report, query, probed, up, scenario, held,
                   cleaning, allowed>>

-----------------------------------------------------------------------------
(* Requests.                                                               *)
Arrives(n) ==
    /\ served[n].server = "open" /\ spend("requests")
    /\ served' = [served EXCEPT ![n].inFlight = @ + 1]
    /\ UNCHANGED <<migrationVars, faults, lifecycleVars, probed, up, scenario, at, held,
                   cleaning>>

Answered(n) ==
    /\ served[n].inFlight > 0
    /\ served' = [served EXCEPT ![n].inFlight = @ - 1]
    /\ UNCHANGED <<migrationVars, faults, lifecycleVars, probed, up, scenario, at, held,
                   cleaning, allowed>>

ReadyRequest ==
    /\ \/ \E q \in scenario.queries, n \in Replica :
             served[n].server = "open" /\ AskReadiness(q, n)
       \/ \E q \in Query, d \in Dependency : ProbeLooks(q, d) \/ ProbeAnswers(q, d)
       \/ \E q \in Query : AnswerReadiness(q)
    /\ UNCHANGED <<migrationVars, faults, probed, up, scenario, replicaVars>>

(* A dependency goes down, or comes back.                                  *)
Outage(d) ==
    /\ spend("outages")
    /\ up' = IF d \in up THEN up \ {d} ELSE up \cup {d}
    /\ UNCHANGED <<migrationVars, faults, lifecycleVars, probed, scenario, at, held, served,
                   cleaning>>

-----------------------------------------------------------------------------
(* The shutdown.                                                           *)

(* The first signal stops the lifecycle, whose drain closes the server;    *)
(* another one waits for the same stop.                                    *)
Signal(n) ==
    /\ at[n] = "serving" /\ spend("signals")
    /\ IF aim[n] = "open"
       THEN /\ beginStop(n)
            /\ served' = [served EXCEPT ![n].server = "closing"]
       ELSE UNCHANGED <<aim, state, served>>
    /\ UNCHANGED <<migrationVars, faults, dependencies, report, query, probed, up, scenario,
                   at, held, cleaning>>

\* onStop has begun.
beginCleanUp(n) == cleaning' = [cleaning EXCEPT ![n] = [left |-> held[n], begun |-> @.begun + 1]]

\* Mutant: the server is stopped without waiting for its requests.
ServerStopsAtOnce(n) ==
    /\ served[n].server = "closing"
    /\ served' = [served EXCEPT ![n].server = "closed"]
    /\ IF aim[n] = "draining" THEN endDrain(n, "completed") /\ beginCleanUp(n)
       ELSE UNCHANGED <<aim, report, cleaning>>
    /\ UNCHANGED <<migrationVars, faults, state, dependencies, query, probed, up, scenario, at,
                   held, allowed>>

(* app.stop() returns when no request is in flight any more; a drain that  *)
(* fails is as one that has ended.                                         *)
ServerStops(n) ==
    /\ served[n].server = "closing"
    /\ served[n].inFlight = 0 /\ UNCHANGED faults
    /\ served' = [served EXCEPT ![n].server = "closed"]
    /\ IF aim[n] = "draining" THEN endDrain(n, "completed") /\ beginCleanUp(n)
       ELSE UNCHANGED <<aim, report, cleaning>>
    /\ UNCHANGED <<migrationVars, state, dependencies, query, probed, up, scenario, at, held,
                   allowed>>

DrainTimesOut(n) ==
    /\ endDrain(n, "timed-out") /\ beginCleanUp(n)
    /\ UNCHANGED <<migrationVars, faults, state, dependencies, query, probed, up, scenario, at,
                   held, served, allowed>>

(* The policy runtime is closed before what it uses, and a clean-up that   *)
(* fails keeps none of the others from being tried.                        *)
closeNext(n) == IF "policy" \in cleaning[n].left THEN {"policy"} ELSE cleaning[n].left

CloseResource(n, r) ==
    /\ aim[n] = "cleaning" /\ r \in closeNext(n)
    /\ cleaning' = [cleaning EXCEPT ![n].left = @ \ {r}]
    /\ \/ held' = [held EXCEPT ![n] = @ \ {r}] /\ UNCHANGED faults
       \/ fault /\ UNCHANGED held
    /\ UNCHANGED <<migrationVars, lifecycleVars, probed, up, scenario, at, served, allowed>>

\* The process is gone, with its server, its connections and its requests.
gone(n) ==
    /\ at' = [at EXCEPT ![n] = "down"]
    /\ held' = [held EXCEPT ![n] = {}]
    /\ served' = [served EXCEPT ![n] = NoServer]
    /\ query' = [q \in Query |-> IF query[q].by = n /\ query[q].at = "probing"
                                 THEN [query[q] EXCEPT !.at = "answered"] ELSE query[q]]

(* The clean-up ends or its timer does, and the process exits.             *)
Exit(n) ==
    /\ \/ cleaning[n].left = {} /\ endCleanUp(n, "completed")
       \/ endCleanUp(n, "timed-out")
    /\ gone(n)
    /\ UNCHANGED <<migrationVars, faults, dependencies, probed, up, scenario, cleaning, allowed>>

(* A crash, or a signal before the handlers are installed.                 *)
Die(n) ==
    /\ at[n] # "down" /\ spend("deaths")
    /\ gone(n) /\ migratorDies(n) /\ forgets(n)
    /\ migrator' = [migrator EXCEPT ![n] = NoMigrator]
    /\ UNCHANGED <<release, faults, probed, up, scenario>>

-----------------------------------------------------------------------------
LostSession == LostSessionEnds /\ UNCHANGED <<lifecycleVars, probed, up, scenario, replicaVars>>

StartUp(n) == Migrate(n) \/ PostgresReady(n) \/ RedisReady(n) \/ Listen(n)

ShutDown(n) ==
    \/ ServerStops(n) \/ DrainTimesOut(n) \/ Exit(n)
    \/ \E r \in Resource : CloseResource(n, r)

ReplicaNext ==
    \/ \E n \in Replica : StartProcess(n) \/ StartUp(n) \/ Arrives(n) \/ Answered(n)
                          \/ Signal(n) \/ ShutDown(n) \/ Die(n)
    \/ LostSession \/ ReadyRequest
    \/ \E d \in Dependency : Outage(d)

ReplicaSpec == ReplicaInit /\ [][ReplicaNext]_deploymentVars

(* The process makes its own steps and the database ends lost sessions; a  *)
(* request in flight may take for ever.                                    *)
FairReplicaSpec ==
    /\ ReplicaSpec
    /\ \A n \in Replica : WF_deploymentVars(StartUp(n)) /\ WF_deploymentVars(ShutDown(n))
    /\ WF_deploymentVars(LostSession)

-----------------------------------------------------------------------------
(* A replica that says it is ready has migrated the schema its release     *)
(* needs, holds every authority open and has its policy runtime, whatever  *)
(* failed on the way and whatever other replicas did meanwhile.            *)
ReadyMeansInitialised ==
    \A n \in Replica :
        state[n] = "ready" /\ probed = {} =>
            /\ {"postgres", "redis", "policy"} \subseteq held[n]
            /\ Len(applied) >= Len(files(n))
            /\ \A v \in 1..Len(files(n)) : applied[v] = files(n)[v]

(* A release is refused PostgreSQL only for a reason of its own: a call    *)
(* that failed, or rows that are not its own, never the other replicas     *)
(* that migrate at the same time (the advisory lock).                      *)
RefusedForCause ==
    \A n \in Replica :
        migrator[n].result = "failed" => faults < scenario.faults \/ foreign(n)

(* Once a replica drains, neither a probe that answers late nor a request  *)
(* for its readiness brings it back into service.                          *)
DrainedForGood ==
    [][\A n \in Replica :
          state[n] \in {"draining", "stopped"} =>
              state'[n] \in {"draining", "stopped"} \/ at'[n] \in {"down", "postgres"}]_deploymentVars

(* A request in flight keeps the resources it may use, until the process   *)
(* exits or the drain has run out of time.                                 *)
ResourcesOutliveRequests ==
    \A n \in Replica :
        served[n].inFlight > 0 /\ report[n].drain # "timed-out" =>
            \A d \in Dependency : dependencies[n][d] = "ready" /\ probed = {} => d \in held[n]

(* Resources are closed from the users to the used.                        *)
PolicyClosedFirst ==
    \A n \in Replica :
        at'[n] = "serving" /\ "policy" \in held'[n] /\ faults = scenario.faults =>
            ({"redis", "postgres"} \cap held[n]) \subseteq held'[n]

(* While a replica serves, and while it shuts down, nothing is closed      *)
(* under somebody who uses it.                                             *)
ResourcesOutliveUsers == [][ResourcesOutliveRequests' /\ PolicyClosedFirst]_deploymentVars

(* "ready" is only answered when, while the request waited, every probe    *)
(* has found its dependency ready.                                         *)
ReadyIsHeard == \A q \in Query : query[q].answer = "ready" => probed \subseteq query[q].heard

(* The answers of probes make a replica ready neither too soon nor again.  *)
ReadyIsEarned == []ReadyIsHeard /\ DrainedForGood

(* A replica that starts ends up serving, degraded at worst: a lost        *)
(* session of another one does not hold the lock for ever.                 *)
StartUpEnds ==
    \A n \in Replica : at[n] = "postgres" ~> at[n] \in {"serving", "down"}

(* After a signal the process exits, even while a request never ends.      *)
ExitsAfterSignal == \A n \in Replica : aim[n] # "open" ~> at[n] = "down"

(* Neither the start nor the end of a replica waits for ever, for another  *)
(* replica or for a request.                                               *)
StartsAndExits == StartUpEnds /\ ExitsAfterSignal

(* Replicas that start together, of whatever releases, come into service   *)
(* with the schema they need or are kept out for a reason of their own.    *)
StartedRightly == ReadyMeansInitialised /\ RefusedForCause
=============================================================================
