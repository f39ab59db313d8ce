# Verification of hyeboard

hyeboard is a student dashboard: a web client, an API worker (Cloudflare Workers
with Durable Objects, or Node with PostgreSQL and Redis), and an automation worker
that drives a browser for one of the universities. This directory models the parts
of it where an order of steps nobody tested could break a promise: TLA+ modules
translated from the TypeScript, configurations that TLC checks on small instances,
and theorems that TLAPS checks for every value of the constants.

Paths below are relative to the repository; `app.ts`, `start.ts`, `vnu/…`, `node/…`,
`policy/…`, `captcha/…`, `ha/…`, `admin/…` are under `apps/worker/src/`.

    tlasany M.tla                        parse
    tlc -workers 2 -config X.cfg M       model-check (PROJECT.json lists the pairs)
    tlapm M.tla                          check the proofs of M (the …Proofs modules)

## Inventory

| Component | State it keeps | Operations | Interacts with | What is hard | What makes it correct |
|---|---|---|---|---|---|
| **Refresh authority** `vnu/vnu-refresh-control.ts`, run by `vnu/vnu-refresh-control-durable-object.ts`, `node/postgres/vnu-refresh-coordinator.ts`, `node/redis/vnu-refresh-coordinator.ts` | per principal: active pair (access token + grant), lease, tombstones, two rate windows; an alarm | activatePair, checkAccess, beginRefresh, completeRefresh, abortRefresh, three revocations, alarm | called by the handlers | expiries of every part, replicas' clocks, strict re-parse of what was stored | one valid pair; rotated once; what was revoked stays revoked until it expires; nothing stays stored for ever |
| **VNU auth handlers** `app.ts` | none between requests, except in the tokens clients hold | import (login), refresh, logout, session resolution | authority, adapter (VNU portal), revocation rows | concurrent refreshes, logout against a refresh in flight, lost answers, crashes, logins that outlast the lease | a grant is exchanged at most once; logout is final; a dead handler does not lock a student out; bounded logins on the stored password |
| **Session tokens, cached import, single flight** `app.ts`, `node/redis/single-flight.ts`, `node/redis/primitives.ts`, `node/postgres/session-revocation.ts` | revocation rows, cached imports, a lock and a result key, all with a time to live | accept, renew, login, logout | authority, portal, Redis, PostgreSQL | rows that lapse, work that outlasts its lock, failed writes | a logged-out token stays out; portal logins overlap only past a lock |
| **Automation worker** `apps/automation-worker/src` | the running job; pending entries of a consumer group | runOnce, reclaim, lease, heartbeat, cancel, events, stop | Redis Streams, browser, backend | redelivery, lost leases, cancels in flight, acknowledgement that fails | one run at a time while leases last; no job is acknowledged untold or lost by a crash |
| **Distributed automation backend** `node/automation/backend.ts` | idempotency keys, jobs, challenges in Redis | enqueue, consumeEvents, answerCaptcha, cancel | worker (streams), handlers (SSE) | partial writes, redelivered attempts whose sequence restarts, timeouts | callers of a job are told one outcome and are always answered; one login is one job, one challenge one answer |
| **CAPTCHA relay** `captcha/*`, `node/redis/captcha-relay-coordinator.ts` | pending / answered / cancelled, deadline, waiters | prepare, wait, answer, cancel, alarm | UET sign-in | answer, cancel and timeout racing; a Durable Object that restarts; a polled list | at most one answer is accepted, and the login that waits gets it or none |
| **UET sign-in, Google browsers** `app.ts` (import-session stream), `packages/university-adapters/src/uet` | a sign-in's stream and relay; browsers, one cached per account | sign in, relay, launch, reuse, evict, close | relay, browser, client's tab | deadlines against a launch in progress, reuse of a dying browser, a tab that leaves | an acknowledged code is used; nothing stays open behind a login that is over |
| **Feature policy** `policy/*`, stores in `node/*`, `admin/*`, `apps/web/src/lib/policy` | revisions and audit log; one cache per replica; drafts in the admin's pages | current, publish, rollback, invalidate, stream, poll | admin routes, every gated request | reads overtaken by publications, lost notifications, two editors | no update lost; no replica serves a policy older than one it was told of; pages converge |
| **Probe budget and permits** `vnu/vnu-probe-budget*.ts`, `node/redis/vnu-probe-budget-coordinator.ts` | units in a window, leases, single-use permits for details | reserve, acquire, release, issue, consume, return, alarm | resolver, cross detail | late grants, callers that die with a permit, expiries | never more than the limits; a permit buys one detail |
| **Student-id resolver, cross detail** `vnu/vnu-student-id-resolver.ts`, `vnu/vnu-cross-detail.ts`, routes in `app.ts` | candidates in flight, verdicts, rows of a batch | single, bulk, detail and batch routes | probe budget, portal | answers out of order, deadlines, clients that leave, nested pools | the first match whatever the order; a route never fights itself for permits |
| **HA lifecycle, Node start-up, migrations** `ha/*`, `start.ts`, `node/postgres/migrations.ts` | readiness state, dependency states, schema, open resources | start, migrate, probe, drain, stop | health routes, every resource | replicas that migrate at once, probes that end after a drain began, shutdown against a request | ready means initialised; resources outlive their users; start and stop end |
| **Admin sign-in and sessions** `admin/*`, `apps/web/src/pages/admin` | two rate windows; encrypted cookies in a browser | password, OAuth start and callback, session, mutation, logout | limiter (memory or Durable Object), pages | fixed windows, tabs that share cookies, late answers | bounded guesses; a mutation is made in the name of the session its page shows |
| **Web session client** `apps/web/src/lib/session`, `lib/api`, `state.tsx` | accounts in storage, reconnections in flight, sign-outs, a re-authentication gate | request, join a reconnection, switch, sign in, sign out | API, other tabs | an account switched or signed out while its reconnection runs | an answer is committed only to the account and token it was asked for |
| **Web bulk look-up** `apps/web/src/pages/lookup`, `lib/lookup` | run, chunks, items, what is left | run, retry, cancel, export | API, session client | cancellation, account switches | targets are neither lost nor doubled |
| University adapters and parsers, core crypto and schemas, views and translations | – | – | – | input/output and pure functions | not modelled: see below |

## Modules

    VnuRefreshControl                        the record and its transitions
      VnuRefreshAuthority                    ... under any caller
        VnuRefreshRedis, VnuRefreshPostgres  ... as a Redis key, as rows
        (VnuRefreshAuthorityProofs)          about the three
      VnuAuthFlow (+Proofs)                  the handlers; implements VnuRefreshAuthority
    AutomationJob                            one distributed automation job
    AutomationBackend, ApiSessions, AdminSignIn
      ApiAccess (+Proofs)                    the three ways in to the API
    OneShotAnswer                            what a CAPTCHA relay promises
    CaptchaRelay, GoogleBrowser
      UetSignIn (+Proofs)                    signing in to UET; implements OneShotAnswer
    FeaturePolicyRules
      FeaturePolicy (+Proofs)                publication and propagation of a policy
    VnuProbeBudget > VnuOracleProbe > VnuCrossLookup
      VnuCrossDetail (+Proofs)               cross lookups of one VNU session
    PostgresMigrations, HaLifecycle
      ApiReplica                             replicas that start, serve and stop
    (SelfHostedProofs)                       about AutomationJob and ApiReplica
    WebAccounts > VnuReconnect > BulkLookupPage > WebRequests
      WebClient (+Proofs)                    a tab of the web client

Indented modules extend, or instantiate, what stands above them. Each `MC…` module
gives a module its small instances. Most of these take a set `Scenario` of records
and choose one initially, in a variable that never changes: a deployment, the actors
that take part, and how many failures, restarts and requests there are. One run then
covers several instances, each with what makes it interesting and none with
everything at once. The proofs know nothing of scenarios but their types.

`now`, `today` and the times in the constants stand for minutes and hours: what
matters is their order, and every constant is small enough that each elapses within
a run. "Mutant" marks variants of mapped definitions (a lease that never expires, a
rotation that does not check the lease again, …): PROJECT.json says which property
TLC finds violated under each.

## What is modelled

### `VnuRefreshControl` – the record and its transitions

`vnu/vnu-refresh-control.ts` is a set of pure functions
`(stored, input, now) -> (state, result, changed)`. `mutate()` of the Durable Object
and `transition()` of the PostgreSQL and Redis coordinators run one of them in a
transaction on the principal's record. In the model `stored` is that record (or
`None`), `alarm` the Durable Object's alarm, `now` real time; each `apply…` function
is an action of the same name, with the clock reading `t` the transaction used and
the answer `res` as parameters. `commit(s)` is the end of `mutate`: a quiescent
record is deleted, any other is put, and the alarm is recomputed; `unchanged` is a
result with `changed: false`, which writes nothing. Helpers keep their names
(`cleanVnuRefreshState`, `revokeExact`, `linkedGrantTombstone`,
`nextVnuRefreshAlarm`, …).

- Identifiers are random and compared only for equality. The two of a pair are
  drawn together and never compared with one another, so one model value names both.
- `HasAlarm = TRUE, MaxSkew = 0` is the Durable Object, which owns its record and
  reads one clock. `HasAlarm = FALSE, MaxSkew > 0` is PostgreSQL: no alarm, and
  every transaction runs on a replica whose `Date.now()` is up to `MaxSkew` off.
- Left out: legacy numeric grant tombstones (parsed, never written any more), the
  shape checks of `parse…` (the relations they demand are `parses`), and principals
  (they share nothing, so one is modelled).

### `VnuRefreshAuthority` – the authority under any caller

An environment that may call any operation at any time with any pair that was ever
issued, draw fresh identifiers for new pairs, and let time pass. Tokens and grants
are encrypted by the server, so a presented pair is an issued one. `issued` is a
history variable. This is the abstract specification of what the handlers rely on.

`VnuRefreshRedis` has the same operations over a key: `node/redis/vnu-refresh-coordinator.ts`
writes the record with a time to live that ends where the Durable Object's alarm would
fire, and Redis deletes it there (`KeyExpires`; `alarm` holds the deadline). The class is
not wired into the API (`docs/architecture.md:43`); `scripts/ha/node-probe.ts` and its
tests drive it. `StoreSpec` is one record in either kind of store (`onRedis`).
`VnuRefreshPostgres` is the table form of a record: the columns
`saveState` writes, the constraints of `migrations/002_…sql`, and what `loadState`
reads back. `StoredReadsBack` says that writing and reading is the identity on every
record that is ever stored.

### `VnuAuthFlow` – the handlers

One record `req[r]` per request: its phase, the pair it presented, the pair it drew,
the login that pair descends from. A step is one authority call, or one upstream
login, with the handler code up to the next `await`:

| Action | Code |
|---|---|
| `Login`, `Activate` | import route (`app.ts:3196`) and `issueVnuAuthResult` (`app.ts:2168`) |
| `BeginRefreshRequest`, `UpstreamLoginSucceeds`, `UpstreamLoginFails`, `Complete`, `Abort` | `POST /api/vnu/auth/refresh` (`app.ts:3413-3559`), its `try` and `catch` |
| `Logout` | `POST /api/vnu/auth/logout` (`app.ts:3561`) |
| `OrdinaryRequest` | `resolveOrdinaryAccessToken` (`app.ts:801`) |
| `CallFails`, `Crash` | an authority call that fails unapplied; an isolate that dies |
| `Alarm`, `Tick` | the Durable Object's alarm; time |

An answer may be lost after the call was applied, a response may not reach the
client (`delivered` are the pairs that did), an upstream login takes any time (the
code sets no limit on `importSession`), and it may end in success, in a terminal
rejection, or in a failure that may be retried. The principal's identity is not
compared in the model before `beginRefresh`: token and grant are minted together, so
the early mismatch answer needs a client that mixes two accounts.

`ImplementsAuthority` is the refinement: `INSTANCE VnuRefreshAuthority`, with the
handlers' `stored`, `alarm`, `now`, `issued`. The handlers never present what the
environment of the authority could not, so every theorem about `VnuRefreshAuthority`
holds of the requests.

### `AutomationJob` – a distributed automation job

One job, from the moment it is on the job stream: the worker side and the requests
that wait for it. Jobs share nothing but the workers that receive them.

| State | Code |
|---|---|
| `entry` | the entry of the job stream in its consumer group: not yet delivered, pending, acknowledged; how often it was delivered |
| `lease` | holder of `hyeboard:automation:lease:<job>`; `Orphan` when its token died with a process |
| `worker[w]` | where `process()` of worker `w` is, the reason of its `CancellationToken`, the sequence of its `JobEventWriter`, the kind of error on its way to the `catch` block, `draining` |
| `log` | the job's events on the event stream, with their sequence numbers |
| `caller[c]` | a request in `consumeEvents`: the cursor it came with, its cursor now, its place in the stream, what it was told |
| `cancelKey`, `controls` | the job's cancel key; cancel controls not yet read |
| `expired` | `job.expiresAt` has passed |
| `lapsed`, `budget` | history: runs whose lease expired under them; bound: disturbances left |

| Action | Code |
|---|---|
| `Deliver`, `Open`, `AcquireLease` | `runOnceImpl` (reclaim, else read), the head of `process()` up to the lease |
| `EmitStarted`, `Progress`, `ExecutorFails`, `Finish`, `EmitSucceeded`, `AckSucceeded` | the `try` block |
| `HandleError`, `AckFailed`, `Release` | the `catch` and `finally` blocks |
| `Heartbeat`, `DeadlineTimer`, `HandleControl`, `Stop` | timers and messages served between two awaits of the run |
| `Crash`, `Restart`, `LeaseExpires`, `Deadline` | the process, Redis and time |
| `Join`, `Consume`, `NoticeCancel`, `Timeout`, `Abort` | a request with the job's idempotency key, with or without `Last-Event-ID`; `consumeEvents` |

- `emit` and `ack` are the two calls a run makes. Each may fail before it was applied, or
  after: `emit` then leaves the sequence where it was although the event is on the stream.
- A message is reclaimed when it was idle for `reclaimIdleMs`, which has nothing to do with
  the lease; so `Deliver` may give a pending entry to any idle worker at any time.
- `CountsDeliveries = FALSE` is node-redis, whose stream replies have no
  `deliveriesCounter`: `deliveryCount` is then always 1. `TRUE` is a broker that counts.
- A cancel control is read by one worker of the group, which acknowledges it whether or not
  it runs the job.
- Left out: challenges, which count as progress events here and are in `AutomationBackend`,
  and the expiry of single events: an event lives at most `resultTtlMs`, and a request that
  replays an older one ends without an answer, as `Abort` lets every request do.

### `ApiAccess` – the ways in to the API

Three parts that share no state; a run of `ApiAccess` is a run of one of them.

`ApiSessions` follows one student by token, on the three deployments ("memory",
"cloudflare", "distributed"). `slot[q]` is a request: a read (`CheckLine`, `CheckToken`,
`Renew` of an expired UET sign-in: `resolveSession`, `resolveOrdinaryAccessToken`), a
login (`LookUpSeed`, `ProbeSeed`, then in distributed mode `GetResult`, `TakeLock`,
`StopWaiting` and `ReleaseLock` of `RedisSingleFlight` around `LoginAtPortal`,
`IssueToken`, `CacheSeed`, `PublishResult`), or a logout (`RevokePair`, `RevokeLine`,
`RevokeToken`). `line` is `payload.sessionId`, `seed` the cached import, `tokenRow` and
`lineRow` the times until which a revocation is remembered. Any of these calls may fail,
before or after it was applied.

`AutomationBackend` is `RedisDistributedAutomationBackend`: `import[i]` is a request in
`enqueue` (`LookUpClaim`, `ClaimLogin`, `StoreJob`, `AddJob`, and `WithdrawClaim` when one
of them fails) and then in `consumeEvents`; `settler[s]` answers or cancels the challenge
(`ReadChallenge`, `Settle`, `PublishControl`); `host[h]` takes the job, raises the
challenge and hears the control, if it is the host that reads it. The `cancel-automation`
route is `Leave` of the import. Bounds: two job ids (an import that finds none left stays
where it arrived), one challenge in a run; how a host runs a job is `AutomationJob`'s
matter.

`AdminSignIn` has tabs of browsers whose two cookies (session, OAuth state) are shared,
`Charge` of the global and the address's window before a password is looked at, the
OAuth round trip, and `Mutate`, which needs the cookie's session and the CSRF token the
tab knows. The API keeps nothing but the windows.

### `UetSignIn` – signing in to UET

| State | Code |
|---|---|
| `login[r]` | a request of the import-session route: the adapter's place, its attempt, `onCaptchaNeeded` |
| `relay[c]` | the relay of a login's first and second challenge, by coordinator: `local` (one process), `durable` (an object each, which may restart), `redis` (a key and a list that the waiter polls) |
| `stream[r]`, `tab[r]` | the events not yet read, and `readUetSessionStream` with its CAPTCHA dialogue |
| `auto[l]` | `automateVnuGoogleLogin`: attempt, browser, place in the flow, deadline, abort |
| `browser`, `cache` | every browser launched, and the one cached for the account |

A guardian's login asks for a code that OCR or the person answers; a student's is driven
by a browser ("local", "patchright" contexts, or "cloudflare", which is never cached). The
pages and the portal may answer anything. Requests abort, tabs are left, deadlines pass
while a launch is in progress, browsers disconnect, calls to a coordinator fail, and the
clocks of two replicas may differ. `ImplementsOneShot` maps the three coordinators to
`OneShotAnswer`: at most one answer is acknowledged, and the waiter gets that one or none.

### `FeaturePolicy` – publication and propagation

`published` are the audit entries, `cached`, `notified`, `heard` and `told` what every
replica keeps (the policy it falls back on, `highestNotifiedRevision`, that of its events
object, what it published or was told), `channel` what Redis still has to deliver, `read`
the reads in flight between the answer of the store and the moment the replica goes on
(`StartRead`, `EndRead`), `stream` and `view` a student's page, `editor` an administrator's
draft with the revision it is based on. `deployment` is "durable" (a Durable Object holds
revisions and streams and notifies no isolate), "distributed" (PostgreSQL, a Redis
channel) or "memory" (SQLite, one process). The steps of a publication are `SendPublish`
or `SendRollback`, `StorePublish` (a compare-and-set) or `StoreAnswerLost`,
`KeepPublished`, `Announce` or `AnnounceFails`. `FeaturePolicyRules` is `policy/feature-policy.ts`
reduced to a switch and the limit that depends on it.

### `VnuCrossDetail` – cross lookups

`VnuProbeBudget` is the coordinator (window of units, leases, permits, their windows and
alarm), as a Durable Object and as Redis scripts. `VnuOracleProbe` is one request to the
portal with its permit (`acquireBrc1Permit`, `withVnuOraclePermit`): a caller cut off while
it waits for a grant returns a grant that comes late. `VnuCrossLookup` is the routes and
`resolveVnuStudentId`: candidates started as far as the pool is wide, their answers taken
as they come, the first match in the order of the candidates. `VnuCrossDetail` adds the
single-use permits that a transcript's rows are turned into, and the detail and batch
routes that redeem them. "code" is the transcript route by student code, "id" one that asks
for one transcript by id.

### `ApiReplica` – replicas that start, serve and stop

`PostgresMigrations` is `runPostgresMigrations` of every replica under the advisory lock,
with connections that die, answers that get lost and releases whose files differ.
`HaLifecycle` is `ha-lifecycle.ts`: state, dependencies, probes, drain, bounded clean-up,
and requests for readiness in flight (`query`). `ApiReplica` puts them together in the
order of `start.ts`: initialisation of PostgreSQL and Redis, the policy runtime, listening,
a signal, the closing of the server and of each resource (`ReplicaInit`, `ReplicaNext`).

### `WebClient` – a tab

`WebAccounts` is the accounts in the browser's storage, `VnuReconnect` the flights of
reconnection (`vnu-refresh.ts`) that requests which met an expired token join,
`BulkLookupPage` the runs of the bulk page, `WebRequests` the requests, sign-outs and the
re-authentication gate, `WebClient` the user, the server and another tab. JavaScript runs to
completion: a user or an answer is not heard while a continuation is due (`Quiet`). The
server may answer anything. `basis` is a ghost: the token a request carried when the token
was issued. An account id reused after its removal is a new id in the code.

## Runs

| Run | Question | Instance |
|---|---|---|
| `authority` | any order of calls on a Durable Object, and on the Redis key: what is stored reads back, every issued pair is accounted for, what was revoked stays revoked; and when the calls stop, storage empties | 2 identifiers (a pair and the one that replaces it), a limit of 1 re-login and 2 logins, time 0..6, so that all that was written has expired at the end |
| `flow` | three concurrent requests: a grant is exchanged once, logout is final, a re-login whose response was lost can be logged out, logins on the stored password are bounded, and the handlers are a run of the authority, fairness included | 3 requests and identifiers: a login, a refresh and a logout, or a login and two refreshes with a limit of one: one more than allowed |
| `job_safe` | runs exclude one another while leases last; nothing is acknowledged untold; requests agree on the outcome, and hear it if nothing is disturbed | 2 workers, 2 requests (interchangeable), one report in an attempt, one cancel control, one disturbance |
| `job_live` | the job and every request of it end | 2 workers, 1 request, no reports, deliveries counted up to 2, one disturbance |
| `policy` | two replicas, administrators and pages: no update is lost, no replica goes back behind what it was told, pages converge | a request or a page's stream around one administrator's publications on each deployment, with one fault; two administrators and three publications; many override policies |
| `signin` | logins, relays and browsers: an acknowledged code is heard, nothing stays open behind a login that is over, relays are one-shot, every sign-in ends | a guardian behind each coordinator, with and without OCR; two sign-ins of a student per kind of browser, in sequence (one fault) and overlapping |
| `lookup` | permits, units and verdicts of lookups: limits are kept, everything is paid for, the first match wins, a route alone is never refused for want of capacity, requests end | seven scenarios (code, id, bulk, batch, detail and their pairs) on both coordinators; 2 permits, 6 units, 2 candidates, pools of width 2 |
| `ha` | start-up, probes, drain: ready means initialised, resources outlive their users, replicas start and exit | two replicas that migrate at once with a fault and a death, that roll to a new release, or whose files were edited; one replica with probes, queries, faults, outages and signals |
| `web` | a tab: an answer is committed to the account and token it was asked for, bulk results are whole, work ends | nine scenarios, 3 accounts, up to 3 targets in chunks of 2 |
| `access` | a logged-out token stays out, portal logins overlap only past a lock, one login is one job, an administrator's mutation is made in the shown session's name; every session and import ends | ten scenarios: five of sessions, three of imports, two of administrators |
| `access_relogin` | *violation*: a login hands out a token that was already logged out | one student's logins and logout, distributed mode |
| `captcha_lost` | *violation*: an acknowledged CAPTCHA answer does not reach the run that waits for it | two hosts, one job |

**Bounds.** `MaxTime`, `LastCall` and the scenarios' budgets of faults, restarts and
requests bound a run; the system may stop where they end, so deadlock is checked only by
`policy`, where the pages go on for ever. Every lifetime is shorter than the time a run
has, every limit is exceeded by one of the actors at least, and each hazard listed in
PROJECT.json needs at most the actors and the one fault that some scenario has: two replicas
for a lost notification, two runs for a lapsed lease, a second login for a reused browser,
a second route for a full pool. The mutants are the test of that: a bound too small to let
a bug bite would leave its mutant alive. In the `job_` runs a disturbance is a crash, a
stop, a lease that lapses under its run, a call that fails, or a retryable failure. One
is enough: a lapse puts two runs on the stream, a crash cuts an attempt off at any point, a
lost answer doubles a sequence number; the second worker is always there to take the entry
over. An orphaned lease, redelivery and restarts cost nothing. Wherever a safety property
is proved, the bounds matter to its run only: the theorems have none.

**Fairness.** Assumed is what the program, its platform or its database does by itself;
never a client, an administrator, an answer's content or a success.

| Specification | Weak fairness of | Why |
|---|---|---|
| `FairStoreSpec` (`VnuRefreshRedis`), `VnuAuthFlow` | `Tick`, `Alarm`; Redis' own expiry | the platform retries `alarm()` until it succeeds; a handler may stop anywhere, so its lease must end without it |
| `AutomationJob` | a worker's next step, its restart, its deadline timer; leases and deadlines; `Consume` and `Timeout` of requests | the executor is cooperative and its token is cancelled at the deadline, the orchestrator restarts a worker, the server serves its timers and streams |
| `FeaturePolicy` | the end of a read, polls and refetches of a page | timers and `await`s |
| `UetSignIn` | the end of calls, timers, the reading of a stream | a call to a page, a portal or a coordinator is answered or times out |
| `VnuCrossDetail`, `WebClient`, `ApiAccess` | `Progress`: all that the program does by itself | JavaScript goes on, and what is out is answered or fails. The steps of a request are finitely many, so fairness of the disjunction serves each of them. Of administrators no liveness is claimed |
| `ApiReplica` | `StartUp` and `ShutDown` of a replica, `LostSession` | initialisation and clean-up go on; PostgreSQL ends the session of a connection that is gone |

## Where the code and its documents differ

Two runs show it:

1. `access_relogin`. `docs/superpowers/specs/2026-07-27-vnu-cached-session-token-design.md:71`
   wants a login after a logout to yield a usable token ("A later cache-hit login mints a
   different token, so it remains usable"). In distributed mode the cached import keeps its
   `sessionId` (`app.ts:2256`, `app.ts:3236`), a logout revokes that line (`app.ts:2343`),
   and the next login from the cache is issued on it.
2. `captcha_lost`. A CAPTCHA answer is acknowledged to the person once it is on the control
   stream (`node/automation/backend.ts:236`), whose consumer group gives it to any host; one
   that does not run the job acknowledges and drops it (`control.ts:250`, `main.ts:340`
   of the automation worker). `TODO.md:72`.

The models are faithful to the following too; no run is spent on them.

*VNU refresh* (`docs/superpowers/specs/2026-07-28-vnu-automatic-relogin-design.md`).
`importSession` has no time limit (`app.ts:3481`), so a second portal login may run for one
active grant when the first outlasts its lease (:231, :330); `RotatedAtMostOnce` shows that
the record takes no harm. A terminal abort after the lease ended leaves the grant of a
rejected password active (:233). Logging out with a grant that a newer manual login replaced
is refused (:192). The Redis coordinator's key lives until the first of its parts expires,
so the end of a lease takes the active pair along (:226).

*Automation.* All jobs have fence 1 (`backend.ts:281`), so consumers cannot tell a stale
run's outcome (`apps/automation-worker/README.md:25`, `worker.ts:308`). A run whose lease
was being acquired when `stop()` was called is not cancelled (README.md:11). node-redis
never reports `maxDeliveryCount` (README.md:26). Of two concurrent sign-ins with one key the
one that loses the claim may be answered 503, the record of the job not being there yet. A
key lives five minutes and its job ninety seconds; in between an import ends JOB_EXPIRED. A
stream entry that was added but whose answer was lost gives a second job. A run again after
a crash raises its challenge with a number its requests have passed, and it is never shown.

*Sessions.* Without PostgreSQL a logout revokes the exact token only
(`docs/superpowers/plans/2026-07-03-uet-google-login-automation.md:910`). The row of a line
expires with the token that was logged out, which a renewed one outlives. A failed
write of the cache makes a successful login fail after its pair was activated. Waiters of a
flight, and logins within the life of its result, get the same token, even one logged out
since. Outside distributed mode a revocation that cannot be read counts as none.

*Administrators.* A session is its cookie; logging out clears it, and a late clearing answer
may clear a newer one. Around a window's boundary `2 * limit - 1` attempts fit (`AdminKeeps`
proves that no more do). A second OAuth start overwrites the first's state.

*Feature policy.* On Cloudflare a slow read may put an older revision back into an isolate's
fall-back after its own publication, which is why `OwnPublicationKept` excludes that
deployment.

*UET.* A cached browser whose flow ended without a token is kept, and not tried fresh
(`google-login-automation.ts:557`). A distributed Google login that names the student
it expects always ends in UET_IDENTITY_MISMATCH (`uet-executor.ts:106`, `app.ts:3057`). A
Patchright browser whose context fails to open is left running
(`google-login-automation-patchright.ts:249`; `NoBrowserOrphaned` and the scenario
`Contexts` are kept to show it).

*Lookups.* A detail fetch has no deadline (`daotao-client.ts:40`) and can outlast its lease,
so more than the limit may be at the portal (`vnu-probe-budget.ts:13`). Where the doubles of
`app.test.ts` queue, the coordinators refuse. A late grant of the Durable Object, or a lease
that could not be returned, may refuse a later pool for as long as it lasts (`BusyOnlyWhenShared`
says for whom). Bulk items run on up to three workers
(`docs/superpowers/specs/2026-07-27-vnu-gpa-export-resolver-design.md:174` has them in
sequence).

*HA.* `start.ts` configures no probes. A replica whose PostgreSQL or Redis failed to
initialise never recovers. An older probe's result may overwrite a newer one's. `/api/live`
awaits the dependency probes (`docs/architecture.md:70`). After a drain that timed out
nothing is left of the deadline for closing resources (`docs/architecture.md:73`).

*Web.* A re-authentication that fails or is cancelled removes whichever account is active
then (`reauth.tsx:83`); one that succeeds after a sign-out signs back in. A request that
hears of a token already replaced starts another flight and shows "reconnecting" for good
(`vnu-refresh.ts:98`; `ReconnectingIsTrue` and the scenario `LateScenario` are kept to show
it; the run checks `ReconnectingIsTrueAlone`). Of two tabs, one without the grant removes the
account both share.

## What is proved

Each `…Proofs` module proves its theorems for every value of the constants that its named
assumptions (`ControlAssumption`, `JobAssumption`, `PolicyAssumption`, `RelayAssumption`, …)
allow: limits are positive, times are natural numbers, `None` is none of the values it stands
beside, scenarios have their types. TLC evaluates them in every run of the module. Each proof
module has `TypeCorrect` and rests on an inductive invariant: `IInv` with the theorem
`InductiveInvariant`, and `Inv` in `VnuAuthFlowProofs`. `SelfHostedProofs` is about two
components that share no state, the processes one runs oneself: `IInv` and `ReplicaTypes` are
those of the replicas, `TypeCorrect` is that of the job, which has one strengthening per property.

Every safety property that a run checks is the statement of a theorem.

| Module | Theorem | Statement |
|---|---|---|
| `VnuRefreshAuthorityProofs` | `RecordsReadBack` | `[]StoredReadsBack`, on PostgreSQL's table as well |
| | `PairsAccounted`, `AlarmCovers` | an issued pair is in the record or has expired, unless Redis forgot the record; the alarm, or the key's end, is early enough for the record |
| | `NeverResurrected`, `TombstonesLast` | what was revoked does not become active, even after the key lapsed; a tombstone outlives its grant, or goes with the whole key |
| `VnuAuthFlowProofs` | `UsesAuthority`, `PairsNeverReturn` | the handlers implement the authority; so its theorems are theirs |
| | `RotatedOnce`, `LogoutFinal`, `LostRefresh`, `LoginsBounded` | the four safety properties of `flow` |
| `SelfHostedProofs` | `LeaseExclusive`, `GapFree`, `AckedHasOutcome`, `CancelledIsRequested`, `Agreement`, `OutcomesAreHeard` | those of `job_safe`, no gap in what a request hears, and none reported cancelled unasked |
| | `StartsRightly`, `ResourcesAreKept`, `ReadinessIsEarned` | those of `ha` |
| `FeaturePolicyProofs` | `RevisionsKeepUp`, `NoUpdateLost`, `CeilingsHold` | those of `policy` |
| `ApiAccessProofs` | `LogoutsHold`, `OneFlight`, `OneJobAtATime`, `AdminKeeps` | those of `access` |
| `UetSignInProofs` | `CodesAreHeard`, `NothingLeftOpen`, `RelaysAreOneShot` | those of `signin`, the refinement of `OneShotAnswer` among them |
| `VnuCrossDetailProofs` | `PermitsAreKept`, `FirstMatchWins`, `EverythingIsPaidFor`, `BusyOnlyIfShared` | those of `lookup` |
| `WebClientProofs` | `ReconnectingShownTruly`, `BulkPageWhole`, `AccountsKeepTheirSessions` | those of `web` |

Hardly any of these properties is inductive. What each proof adds, and why:

**Authority.** That a pair is accounted for says nothing of whom a tombstone belongs to: a
step that cleans the tombstone of one pair could drop that of another with the same
identifier. `IInv` adds `DistinctPairs` (no two issued pairs share an identifier) and `Linked`
(what the record mentions was issued with the expiry it has there). An entry dropped at
reading `t` then belongs to a pair expired by `now + MaxSkew`. `AlarmExact` says what the
alarm is, not only that it is early enough, since `commit` overwrites it. The lemmas of all
actions have one shape: the cleaned record evolves from the stored one (`CleanEvolves`), the
operation's changes keep that (`RevokeEvolves` and its companions), and a commit of a record
that evolves is a good step (`CommitStep`); a good step keeps the invariant and satisfies the
action properties too. All skews are covered; the runs have `MaxSkew = 0`. The theorems are
about `StoreSpec`, so about Redis too. An operation there runs only on a key that is not due,
and is the operation of the other stores; what is new is `KeyExpires`, after which the record
accounts for nothing any more (`onRedis` in the last conjunct of `IInv`). That it may not make
an older pair valid is `NeverResurrected`, which needs no memory: only a pair drawn afresh is
ever activated, and `DistinctPairs` says what afresh means. For the handlers `onRedis` is FALSE.

**Handlers.** Every step of a handler is a step of the authority or a stutter
(`UsesAuthority`; the run's `ImplementsAuthority` adds fairness, which stays with TLC). What
the requests know is then related to the record: families of pairs by the login they descend
from, exchanged pairs (`Spent`), which no step makes active again, and tombstones, which last
as long as the active pair stays (`KeepsLinks`). `LoginsBounded` counts the portal logins of
a window (`CountInv`), for one clock: `MaxSkew = 0` is a hypothesis of it, since a replica
with a clock of its own cleans the window at another time.

**Job.** That a request meets no gap is not a fact about requests. `Gapless` says that a run
has told every number below its own, that on the stream an event comes after every number
below its own, and that a request has passed no event beyond its cursor: a gap would be a
number that an earlier event had and which the request has already passed. `FirstToldOnly`
says that a request was told the first event of every number up to its cursor, and none of
them an outcome but, if it ended with one, the last; so two requests ended with the first
outcome in the same place, wherever they replayed from. `Settled` adds that a run on its way
to acknowledge has told an outcome; `AllExcused` that the reason of a run is what happened,
and that a control in flight means a cancel key. `OutcomesAreHeard` needs `Undisturbed`:
while no disturbance was spent there is at most one run, and up to the first outcome the
numbers of events are their places. It excludes requests that replay from a result's id: a heartbeat
told after the outcome lets them skip a later one.

**Policy.** A runtime was notified of what its events object heard and, where there are
notifications, of what it published itself (`NotifiedInTime`); on a Durable Object, where
there are none, the streams were sent what was announced (`DurableStreams`). What is under
way was reviewed against its base revision (`SentFromReviewed`), which exists
(`KnownRevisions`), so the store's compare-and-set lets nothing be lost.

**Access.** Sessions: every token's line and pair are known (`TokensKnown`), what was logged
out is revoked at least as long as it could be presented (`LogoutsKept`; the longest of a
set of times exists by well-founded induction on strict inclusion, `GreatestValue`), and
a lock that still lasts for whoever took it is his (`LocksKept`). Backend: whoever works on a
job knows which (`Named`), a job id is drawn by one import (`DrawnOnce`), a claim names the one
job that lives (`ClaimIsOurs`), what is settled stays so (`SettledStays`). Administrators: what a
window let through, what came in its length before it began, and what any interval of that
length saw are bounded separately (`WindowOK`), since a fixed window alone bounds nothing
across its boundary; a page acts in the session it shows (`ActsAsShown`). `AccessStep` puts the three together, each
part stuttering in the steps of the others.

**UET.** Relays are proved one coordinator at a time: what an operation may do to a relay
(`Moved`), and what that keeps (`Keeps`). `Guarded` relates a login, its two relays, the events
on their way and its page: which challenges are open at each place of the login, and that the
page shows only what was asked. Browsers: `AutomationOK` says of each login which browser it
uses and which is the cached one; where logins do not overlap one is under way (`OneLogin`).
The one-shot refinement follows from `Follows` (what a relay was told, or told, it stays with)
by one lemma, `OneShotStep`, for the three coordinators.

**Replicas.** The invariant is a statement for each replica (`InitialisedOK`, `ProcessOK`),
for each request (`QueryOK`) and for the schema (`MigrationsOK`). A step of one replica is a
step of the database and leaves the others `Untouched` (`StepOf`). While nothing failed, what is closed
before the policy is the policy (`PolicyGoesFirst`), which is what its resources outlive.

**Lookups.** `LeasesOK` accounts for leases: those nobody holds are at most as many as calls
that failed. `LookupOK` says of each request where it is and what it holds, of each search
what its candidates have answered, of each route which rows are filled; `UnitsOK`, `BuyingOK`
and `PermitsOK` relate the units of a window, what a buyer has drawn, and the permits that are
left. Each step either concerns a single request (`RouteStep`, `SearchStep`) or is `Calm` for
it. `BusyOnlyIfShared` shows that a refusal for want of capacity means another route or a
stranded lease: the pools of one route fit into the limit (`AloneFits`), for their leases
inject into running targets times pool width (`CountGroups`), and
`Workers * (PermitLimit \div Workers) <= PermitLimit`.

**Web client.** Each of the three properties has its part of `IInv`.
`FlightsOK`: whoever waits for a flight met the token of the flight, and no flight is for an
account that is being signed out (`suppressed`). `RequestOK`: a request under way was sent with
the token of the account it began with, and one whose reconnection succeeded with the token that
is active now. `RemovalsOK`: the token a sign-out began with is condemned, so that the account
leaves only with a session that is dead. `PageOK` adds to
`BulkResultsWhole` that a run has something left and asks for the account that is active, which
a chunk's answer cannot know by itself: that it still is follows from the switch having cleared
the page. `ReconnectingIsTrueAlone` is far from inductive, since the banner is a plain variable
written by whoever publishes last. `AloneShown` says that it shows the status of the active
account, `AloneTokens` that no token changes under the one request but by its own flight, and
`AloneRemovals` that what a sign-out saved (token, grant, status) is what it finds again.
`BudgetOK` carries the hypotheses: one tab, and no sign-ins where `sole`. Steps are grouped by
what they write (`OnlyRequests` and its companions), so that each part of the invariant is
looked at once per group.

## Only model-checked

- Liveness: `EventuallyForgotten`, `JobEnds`, `PagesConverge`, `SignInEnds`, `RequestEnds`,
  `StartsAndExits`, `WorkEnds`, `AccessEnds`, and the fairness in `ImplementsAuthority`. The
  prover has no rules for fairness beyond propositional temporal logic, nor for `ENABLED`.
- What a recursive definition computes for all inputs: the library's induction theorems take
  an operator, which its back ends cannot instantiate. Where a proof needs a least or
  greatest element it takes it from well-foundedness, which is first-order.

## Not modelled

- University adapters, parsers and browser scripts: input/output against sites that are not
  in the repository. What they can answer is an input of the models.
- Cryptography, token formats, schemas, configuration: pure functions; the expiries and
  identifiers they mint are inputs.
- Sessions: epochs, the failure of an activation that is rate-limited, and the window of
  Google attempts (`app.ts:2264`), which is read and then written, so that outside distributed
  mode concurrent increments are lost.
- Feature policy: pages of the history and the validation route.
- UET: browsers of kind "owned", progress events.
- Lookups: groups of a batch that run in parallel, the retry of a detail whose session
  expired, the modes of a bulk request that need no search, and the route by student id, which
  reserves its probes and reads no transcript.
- HA: memory mode, the aggregate probe, safe diagnostics; `app.stop()` is external.
- Web: views, export formats, React Query's retries, translations, migration of old
  storage.
- Helm charts and scripts.

## Plan

Every safety property of every run has its theorem. What is left is to widen what they are
about, in this order:

1. **Lookups** – the groups of a batch in parallel (the invariant is per request and
   search already), then the retry of a detail.
2. **Sessions** – the window of Google attempts, and epochs.
3. **Web** – the retries of React Query.
