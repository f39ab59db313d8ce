--------------------------- MODULE AutomationJob ---------------------------
(***************************************************************************)
(* One distributed automation job: the entry of the Redis job stream, the  *)
(* automation workers that may receive it (apps/automation-worker/src),    *)
(* its lease, the event stream, and the API requests that wait for its     *)
(* outcome (apps/worker/src/node/automation/backend.ts).                   *)
(*                                                                         *)
(* Jobs share nothing but the workers, so one job is modelled.  A step of  *)
(* a worker is the code between two awaits of process(), with the call     *)
(* that ends it.  A call may fail before it was applied, or be applied and *)
(* its answer lost; a worker may crash, be stopped and be started again; a *)
(* lease may lapse under a run that is slow to renew it.                   *)
(***************************************************************************)
EXTENDS Integers, Sequences, FiniteSets

CONSTANTS
    Worker, Caller,
    None,
    Orphan,            \* the holder of a lease whose token nobody knows any more
    MaxDeliveryCount,  \* config.maxDeliveryCount
    CountsDeliveries,  \* the broker reports deliveriesCounter
    MaxReports,        \* bound: heartbeats and progress events of one attempt
    MaxControls,       \* bound: cancel controls that wait to be read
    MaxDisturbances    \* bound: crashes, stops, lapses, failed calls, retryable failures

ASSUME JobAssumption ==
    /\ MaxDeliveryCount \in Nat \ {0} /\ CountsDeliveries \in BOOLEAN
    /\ MaxReports \in Nat /\ MaxControls \in Nat /\ MaxDisturbances \in Nat
    /\ None \notin Worker /\ Orphan \notin Worker /\ None # Orphan

VARIABLES
    entry,       \* the stream entry: its state in the group, its delivery counter
    lease,       \* holder of the lease key: a run, None, or Orphan
    worker,      \* worker[w]: the consumer loop of w
    log,         \* the job's events on the event stream
    caller,      \* caller[c]: a request in consumeEvents
    cancelKey,   \* the job's cancel key is set
    controls,    \* cancel controls nobody has read yet
    expired,     \* job.expiresAt has passed
    lapsed,      \* history: runs whose lease expired under them
    budget       \* disturbances left

vars == <<entry, lease, worker, log, caller, cancelKey, controls, expired, lapsed, budget>>

Terminal == {"succeeded", "failed", "cancelled"}

\* From the moment its token exists until it has released its lease, a
\* worker has a run.
RunPhase == {"starting", "running", "closing", "acking", "failed", "settling", "releasing"}

\* The heartbeat timer is started after "started" and stopped in finally.
BeatingPhase == {"running", "closing", "acking", "settling"}

Entry == [state : {"queued", "pending", "acked"}, deliveries : Nat]

Reason == {"requested", "deadline", "shutdown", "lease-lost"}

WorkerState ==
    [phase : RunPhase \cup {"idle", "delivered", "opened", "down"},
     deliveryCount : Nat,
     reason : Reason \cup {None},
     sequence : Nat,     \* of the run's JobEventWriter
     error : {None, "unstarted", "final", "retryable", "lease-lost", "fatal"},
     draining : BOOLEAN]

Event == [type : Terminal \cup {"started", "report"}, sequence : Nat]

\* A request: the cursor it came with, and whether that lies at or beyond the id
\* of a result; how far it has read.
Request ==
    [phase : {"absent", "waiting", "done"}, from : Nat \cup {-1}, after : BOOLEAN,
     cursor : Nat \cup {-1}, position : Nat,
     outcome : Terminal \cup {None, "mismatch", "unanswered"}]

ASSUME NoneAssumption ==
    None \notin Reason \cup Terminal \cup {"retryable", "mismatch", "unanswered"}

Idle == [phase |-> "idle", deliveryCount |-> 0, reason |-> None, sequence |-> 0,
         error |-> None, draining |-> FALSE]

hasRun(w) == worker[w].phase \in RunPhase

\* Timers and messages of w are served: its process runs, and is not on its way
\* from a throw to the catch block, which no other code interrupts.
listens(w) == worker[w].phase \notin {"down", "failed"}

set(w, state) == worker' = [worker EXCEPT ![w] = state]

goto(w, phase) == set(w, [worker[w] EXCEPT !.phase = phase])

\* An error thrown inside the try block reaches the catch block.
thrown(w, error) == [worker[w] EXCEPT !.phase = "failed", !.error = error]

\* An error thrown outside it rejects process(), after finally if there is a
\* run: the consumer loop ends and onFatalError stops the host.
fatal(w) == [worker[w] EXCEPT !.phase = "releasing", !.error = "fatal"]

\* CancellationToken.cancel: the first reason wins.
cancelled(w, reason) ==
    IF hasRun(w) /\ worker[w].reason = None
    THEN [worker[w] EXCEPT !.reason = reason] ELSE worker[w]

disturb == budget > 0 /\ budget' = budget - 1

Absent == [phase |-> "absent", from |-> -1, after |-> FALSE, cursor |-> -1, position |-> 0,
           outcome |-> None]

Init ==
    /\ entry = [state |-> "queued", deliveries |-> 0]
    /\ lease = None
    /\ worker = [w \in Worker |-> Idle]
    /\ log = <<>>
    /\ caller = [c \in Caller |-> Absent]
    /\ cancelKey = FALSE /\ controls = 0
    /\ expired = FALSE
    /\ lapsed = {}
    /\ budget = MaxDisturbances

----------------------------------------------------------------------------
(* Events                                                                  *)

\* Mutant: the sequence never advances.
EmitSameSequence(w, type, done, failed) ==
    LET event == [type |-> type, sequence |-> worker[w].sequence]
    IN  \/ /\ ~expired
           /\ log' = Append(log, event)
           /\ set(w, done)
           /\ UNCHANGED budget
        \/ /\ expired
           /\ set(w, failed)
           /\ UNCHANGED <<log, budget>>

\* JobEventWriter.emit by w's run: the run goes on in the state done or, when
\* emit rejects, in failed.  Past the deadline no event can be built, as it
\* would expire before it was emitted.  The sequence advances only once
\* publish has resolved, although the event may be on the stream when it has not.
emit(w, type, done, failed) ==
    LET event == [type |-> type, sequence |-> worker[w].sequence]
    IN  \/ /\ ~expired
           /\ log' = Append(log, event)
           /\ set(w, [done EXCEPT !.sequence = @ + 1])
           /\ UNCHANGED budget
        \/ /\ expired
           /\ set(w, failed)
           /\ UNCHANGED <<log, budget>>
        \/ /\ ~expired
           /\ disturb
           /\ log' \in {log, Append(log, event)}
           /\ set(w, failed)

\* broker.ack of the entry.
ack(w, done, failed) ==
    \/ /\ entry' = [entry EXCEPT !.state = "acked"]
       /\ set(w, done)
       /\ UNCHANGED budget
    \/ /\ disturb
       /\ \/ UNCHANGED entry
          \/ entry' = [entry EXCEPT !.state = "acked"]
       /\ set(w, failed)

----------------------------------------------------------------------------
(* A worker receives the entry                                             *)

\* The deliveryCount of a message: a broker that reports no deliveriesCounter
\* makes it 1.  Counts beyond the maximum are not told apart.
reported(n) == IF ~CountsDeliveries THEN 1
               ELSE IF n < MaxDeliveryCount THEN n ELSE MaxDeliveryCount

\* runOnceImpl: a pending entry that was idle long enough, whoever received
\* it, or else a new one.  Its idle time does not depend on the run's lease.
Deliver(w) ==
    /\ worker[w].phase = "idle"
    /\ entry.state \in {"queued", "pending"}
    /\ entry' = [state |-> "pending", deliveries |-> reported(entry.deliveries + 1)]
    /\ set(w, [worker[w] EXCEPT !.phase = "delivered", !.deliveryCount = entry'.deliveries])
    /\ UNCHANGED <<lease, log, caller, cancelKey, controls, expired, lapsed, budget>>

\* process(): the envelope is opened.  A job that has expired is discarded.
Open(w) ==
    /\ worker[w].phase = "delivered"
    /\ \/ /\ ~expired
          /\ goto(w, "opened")
          /\ UNCHANGED <<entry, budget>>
       \/ /\ expired
          /\ ack(w, Idle, [worker[w] EXCEPT !.phase = "down"])
    /\ UNCHANGED <<lease, log, caller, cancelKey, controls, expired, lapsed>>

\* leaseStore.acquire.  The token of the run is created here: it starts
\* cancelled if the deadline has passed, and it does not notice that the
\* worker's shutdown signal was aborted before.
AcquireLease(w) ==
    /\ worker[w].phase = "opened"
    /\ \/ /\ lease = None
          /\ lease' = w
          /\ set(w, [worker[w] EXCEPT !.phase = "starting", !.sequence = 0, !.error = None,
                                      !.reason = IF expired THEN "deadline" ELSE None])
          /\ UNCHANGED budget
       \/ /\ lease # None
          /\ set(w, IF worker[w].draining THEN [Idle EXCEPT !.phase = "down"] ELSE Idle)
          /\ UNCHANGED <<lease, budget>>
       \/ /\ disturb
          /\ lease' \in {lease} \cup (IF lease = None THEN {Orphan} ELSE {})
          /\ set(w, [Idle EXCEPT !.phase = "down"])
    /\ UNCHANGED <<entry, log, caller, cancelKey, controls, expired, lapsed>>

----------------------------------------------------------------------------
(* The run                                                                 *)

unchangedByRun == UNCHANGED <<lease, caller, cancelKey, controls, expired, lapsed>>

EmitStarted(w) ==
    /\ worker[w].phase = "starting"
    /\ emit(w, "started", [worker[w] EXCEPT !.phase = "running"], thrown(w, "unstarted"))
    /\ unchangedByRun /\ UNCHANGED entry

\* JobHeartbeat.tick; an emit that rejects is swallowed.
Heartbeat(w) ==
    /\ worker[w].phase \in BeatingPhase
    /\ worker[w].error # "unstarted"
    /\ \/ /\ lease = w
          /\ worker[w].sequence <= MaxReports
          /\ emit(w, "report", worker[w], worker[w])
       \/ /\ lease # w
          /\ set(w, cancelled(w, "lease-lost"))
          /\ UNCHANGED <<log, budget>>
    /\ unchangedByRun /\ UNCHANGED entry

\* The executor's progress callback: assertHeld, then emit.
Progress(w) ==
    /\ worker[w].phase = "running"
    /\ \/ /\ lease = w
          /\ worker[w].sequence <= MaxReports
          /\ emit(w, "report", worker[w], thrown(w, "final"))
       \/ /\ lease # w
          /\ set(w, thrown(w, "lease-lost"))
          /\ UNCHANGED <<log, budget>>
    /\ unchangedByRun /\ UNCHANGED entry

\* The executor returned: throwIfCancelled, assertHeld, the result is closed.
Finish(w) ==
    /\ worker[w].phase = "running"
    /\ worker[w].reason = None
    /\ set(w, IF lease = w THEN [worker[w] EXCEPT !.phase = "closing"]
                           ELSE thrown(w, "lease-lost"))
    /\ unchangedByRun /\ UNCHANGED <<entry, log, budget>>

\* The executor rejects: on its own, or because the run was cancelled.
ExecutorFails(w) ==
    /\ worker[w].phase = "running"
    /\ \/ set(w, thrown(w, "final")) /\ UNCHANGED budget
       \/ set(w, thrown(w, "retryable")) /\ disturb
    /\ unchangedByRun /\ UNCHANGED <<entry, log>>

EmitSucceeded(w) ==
    /\ worker[w].phase = "closing"
    /\ emit(w, "succeeded", [worker[w] EXCEPT !.phase = "acking"], thrown(w, "final"))
    /\ unchangedByRun /\ UNCHANGED entry

AckSucceeded(w) ==
    /\ worker[w].phase = "acking"
    /\ ack(w, [worker[w] EXCEPT !.phase = "releasing"], thrown(w, "final"))
    /\ unchangedByRun /\ UNCHANGED log

----------------------------------------------------------------------------
(* The catch block and the finally block of process()                      *)

\* Mutant: a failure is acknowledged whoever caused it, without telling why.
HandleErrorSilently(w) ==
    /\ worker[w].phase = "failed"
    /\ IF \/ worker[w].reason \in {"shutdown", "lease-lost"}
          \/ worker[w].error = "lease-lost"
       THEN goto(w, "releasing") ELSE goto(w, "settling")
    /\ unchangedByRun /\ UNCHANGED <<entry, log, budget>>

\* A run that was shut down or lost its lease leaves the entry pending, and so
\* does one that may be retried; any other outcome is told, then acknowledged.
HandleError(w) ==
    LET run == worker[w]
        leave == goto(w, "releasing") /\ UNCHANGED <<log, budget>>
        tell(type) == emit(w, type, [run EXCEPT !.phase = "settling"], fatal(w))
    IN  /\ run.phase = "failed"
        /\ CASE run.reason \in {"shutdown", "lease-lost"} \/ run.error = "lease-lost" -> leave
             [] run.reason \in {"requested", "deadline"} /\ run.error # "lease-lost" ->
                    tell("cancelled")
             [] run.reason = None /\ run.error = "retryable"
                    /\ run.deliveryCount < MaxDeliveryCount -> leave
             [] OTHER -> tell("failed")
        /\ unchangedByRun /\ UNCHANGED entry

AckFailed(w) ==
    /\ worker[w].phase = "settling"
    /\ ack(w, [worker[w] EXCEPT !.phase = "releasing"], fatal(w))
    /\ unchangedByRun /\ UNCHANGED log

\* Mutant: the lease key is deleted without comparing its token.
ReleaseAny(w) ==
    /\ worker[w].phase = "releasing"
    /\ lease' = None
    /\ set(w, IF worker[w].error = "fatal" \/ worker[w].draining
              THEN [Idle EXCEPT !.phase = "down"] ELSE Idle)
    /\ lapsed' = lapsed \ {w}
    /\ UNCHANGED <<entry, log, caller, cancelKey, controls, expired, budget>>

\* heartbeat.stop, connection.disconnect, lease.release.  If one of the two
\* calls fails, process() rejects; after a failed disconnect the lease is not
\* released at all.
Release(w) ==
    LET without(holder) == IF lease = w THEN holder ELSE lease
    IN  /\ worker[w].phase = "releasing"
        /\ \/ /\ lease' = without(None)
              /\ set(w, IF worker[w].error = "fatal" \/ worker[w].draining
                        THEN [Idle EXCEPT !.phase = "down"] ELSE Idle)
              /\ UNCHANGED budget
           \/ /\ disturb
              /\ lease' \in {without(None), without(Orphan)}
              /\ set(w, [Idle EXCEPT !.phase = "down"])
        /\ lapsed' = lapsed \ {w}
        /\ UNCHANGED <<entry, log, caller, cancelKey, controls, expired>>

----------------------------------------------------------------------------
(* What happens to a worker                                                *)

\* AutomationControlConsumer: any worker of the group may read a cancel
\* control; it is acknowledged whether or not that worker runs the job.
HandleControl(w) ==
    /\ controls > 0
    /\ listens(w) /\ ~worker[w].draining
    /\ controls' = controls - 1
    /\ set(w, cancelled(w, "requested"))
    /\ UNCHANGED <<entry, lease, log, caller, cancelKey, expired, lapsed, budget>>

\* The timer of the run's token.
DeadlineTimer(w) ==
    /\ expired
    /\ listens(w) /\ hasRun(w) /\ worker[w].reason = None
    /\ set(w, cancelled(w, "deadline"))
    /\ UNCHANGED <<entry, lease, log, caller, cancelKey, controls, expired, lapsed, budget>>

\* stop(): a worker without a message in process() ends at once.
Stop(w) ==
    /\ listens(w) /\ ~worker[w].draining
    /\ disturb
    /\ set(w, IF worker[w].phase \in {"idle", "delivered"}
              THEN [Idle EXCEPT !.phase = "down"]
              ELSE [cancelled(w, "shutdown") EXCEPT !.draining = TRUE])
    /\ UNCHANGED <<entry, lease, log, caller, cancelKey, controls, expired, lapsed>>

\* The process ends without running any more of its code: a crash, or a drain
\* that took longer than shutdownTimeoutMs.  Its lease stays until it expires.
Crash(w) ==
    /\ listens(w)
    /\ IF worker[w].draining THEN UNCHANGED budget ELSE disturb
    /\ set(w, [Idle EXCEPT !.phase = "down"])
    /\ lease' = IF lease = w THEN Orphan ELSE lease
    /\ lapsed' = lapsed \ {w}
    /\ UNCHANGED <<entry, log, caller, cancelKey, controls, expired>>

Restart(w) ==
    /\ worker[w].phase = "down"
    /\ set(w, Idle)
    /\ UNCHANGED <<entry, lease, log, caller, cancelKey, controls, expired, lapsed, budget>>

\* The lease key's time to live ends.
LeaseExpires ==
    /\ lease # None
    /\ IF lease = Orphan THEN UNCHANGED budget ELSE disturb
    /\ lease' = None
    /\ lapsed' = lapsed \cup ({lease} \cap Worker)
    /\ UNCHANGED <<entry, worker, log, caller, cancelKey, controls, expired>>

Deadline ==
    /\ ~expired
    /\ expired' = TRUE
    /\ UNCHANGED <<entry, lease, worker, log, caller, cancelKey, controls, lapsed, budget>>

----------------------------------------------------------------------------
(* The requests that wait for the job                                      *)

\* A request that ends without an outcome from the stream stops reading it.
ended(c, outcome) ==
    [caller[c] EXCEPT !.phase = "done", !.position = 0, !.outcome = outcome]

\* The ids of the progress and challenge events, and of the result event, that
\* the response of k carried; a client sends one of them as Last-Event-ID.
heardEvents(k) == {s \in 1..caller[k].cursor : /\ s > caller[k].from
                                               /\ caller[k].outcome \in Terminal =>
                                                      s < caller[k].cursor}
heardResult(k) == IF caller[k].outcome = "succeeded" THEN {caller[k].cursor} ELSE {}

join(c, cursor, after) ==
    caller' = [caller EXCEPT ![c] = [Absent EXCEPT !.phase = "waiting", !.from = cursor,
                                                   !.cursor = cursor, !.after = after]]

\* Mutant: the cursor is taken for the next event the client wants.
JoinPastCursor(c) ==
    /\ caller[c].phase = "absent"
    /\ ~expired
    /\ \/ join(c, -1, FALSE)
       \/ \E k \in Caller : \E s \in heardEvents(k) : join(c, s + 1, FALSE)
    /\ UNCHANGED <<entry, lease, worker, log, cancelKey, controls, expired, lapsed, budget>>

\* A request with the job's idempotency key, the first or a repeated one.
\* Past the deadline the job's envelope cannot be opened any more.
Join(c) ==
    /\ caller[c].phase = "absent"
    /\ ~expired
    /\ \/ join(c, -1, FALSE)
       \/ \E k \in Caller : \/ \E s \in heardEvents(k) : join(c, s, caller[k].after)
                            \/ \E s \in heardResult(k) : join(c, s, TRUE)
    /\ UNCHANGED <<entry, lease, worker, log, cancelKey, controls, expired, lapsed, budget>>

\* consumeEvents reads the stream from its beginning and drops what the cursor
\* covers; validateNextAutomationEvent demands the next sequence number.
Consume(c) ==
    /\ caller[c].phase = "waiting"
    /\ ~expired
    /\ caller[c].position < Len(log)
    /\ LET event == log[caller[c].position + 1]
           read == [caller[c] EXCEPT !.position = @ + 1]
           next == [read EXCEPT !.cursor = event.sequence]
       IN  caller' = [caller EXCEPT ![c] =
             CASE event.sequence <= read.cursor -> read
               [] event.sequence > read.cursor + 1 -> ended(c, "mismatch")
               [] event.sequence = read.cursor + 1 /\ event.type \notin Terminal -> next
               [] OTHER -> [next EXCEPT !.phase = "done", !.outcome = event.type]]
    /\ UNCHANGED <<entry, lease, worker, log, cancelKey, controls, expired, lapsed, budget>>

\* The cancel key is looked at before each read of the stream.
NoticeCancel(c) ==
    /\ caller[c].phase = "waiting"
    /\ cancelKey
    /\ caller' = [caller EXCEPT ![c] = ended(c, "unanswered")]
    /\ UNCHANGED <<entry, lease, worker, log, cancelKey, controls, expired, lapsed, budget>>

\* Mutant: the deadline is looked at only when an event arrived.
TimeoutAfterEvent(c) ==
    /\ caller[c].phase = "waiting"
    /\ expired
    /\ caller[c].position < Len(log)
    /\ caller' = [caller EXCEPT ![c] = ended(c, "unanswered")]
    /\ UNCHANGED <<entry, lease, worker, log, cancelKey, controls, expired, lapsed, budget>>

\* The timeout of the request, or an event that has expired when it is read.
Timeout(c) ==
    /\ caller[c].phase = "waiting"
    /\ expired
    /\ caller' = [caller EXCEPT ![c] = ended(c, "unanswered")]
    /\ UNCHANGED <<entry, lease, worker, log, cancelKey, controls, expired, lapsed, budget>>

\* The client disconnects: consumeEvents and the route's abort handler both
\* call cancelAutomation, each of which sets the key, then publishes a
\* control, and may fail before either.
Abort(c) ==
    /\ caller[c].phase = "waiting"
    /\ caller' = [caller EXCEPT ![c] = ended(c, "unanswered")]
    /\ \/ UNCHANGED <<cancelKey, controls>>
       \/ /\ cancelKey' = TRUE
          /\ controls' \in {n \in controls..(controls + 2) : n <= MaxControls}
    /\ UNCHANGED <<entry, lease, worker, log, expired, lapsed, budget>>

----------------------------------------------------------------------------
\* What the code of w does by itself.
WorkerStep(w) ==
    \/ Deliver(w) \/ Open(w) \/ AcquireLease(w)
    \/ EmitStarted(w) \/ Heartbeat(w) \/ Progress(w) \/ Finish(w) \/ ExecutorFails(w)
    \/ EmitSucceeded(w) \/ AckSucceeded(w) \/ HandleError(w) \/ AckFailed(w) \/ Release(w)

WorkerEvent(w) ==
    HandleControl(w) \/ DeadlineTimer(w) \/ Stop(w) \/ Crash(w) \/ Restart(w)

CallerStep(c) ==
    Join(c) \/ Consume(c) \/ NoticeCancel(c) \/ Timeout(c) \/ Abort(c)

Next ==
    \/ \E w \in Worker : WorkerStep(w) \/ WorkerEvent(w)
    \/ \E c \in Caller : CallerStep(c)
    \/ LeaseExpires
    \/ Deadline

Spec == Init /\ [][Next]_vars

(***************************************************************************)
(* Time passes, processes are started again, a worker's code goes on and   *)
(* an executor ends: it is cooperative, and cancelled at the deadline.     *)
(* Nothing is assumed of clients except that the server answers them.      *)
(***************************************************************************)
FairSpec ==
    /\ Spec
    /\ \A w \in Worker : WF_vars(WorkerStep(w)) /\ WF_vars(Restart(w)) /\ WF_vars(DeadlineTimer(w))
    /\ \A c \in Caller : WF_vars(Consume(c)) /\ WF_vars(Timeout(c))
    /\ WF_vars(LeaseExpires) /\ WF_vars(Deadline)

----------------------------------------------------------------------------
(* Properties                                                              *)

\* Every variable keeps its shape; no counter or cursor goes below its start.
TypeInvariant ==
    /\ entry \in Entry
    /\ lease \in Worker \cup {None, Orphan}
    /\ worker \in [Worker -> WorkerState]
    /\ log \in Seq(Event)
    /\ caller \in [Caller -> Request]
    /\ cancelKey \in BOOLEAN /\ controls \in Nat /\ expired \in BOOLEAN
    /\ lapsed \subseteq Worker
    /\ budget \in Nat

\* Two workers run the job at once only after a lease lapsed: a run whose lease
\* did not expire under it still holds it, whatever other runs released.
UnlapsedRunHoldsLease ==
    \A w \in Worker : hasRun(w) /\ w \notin lapsed => lease = w

\* An entry is acknowledged only once the outcome is on the event stream, or
\* the job has expired; no crash, lapse or failed call loses a job.
NoSilentAck ==
    entry.state = "acked" => expired \/ \E i \in DOMAIN log : log[i].type \in Terminal

\* A job is reported cancelled only if a client cancelled it; a stopped worker
\* or a lost lease leaves it to be run again.
CancelledOnlyOnRequest ==
    \A i \in DOMAIN log : log[i].type = "cancelled" => cancelKey

\* Attempts restart their numbering and may interleave on the stream, yet no
\* request ever meets a gap (EVENT_SEQUENCE_MISMATCH).
NoSequenceGap ==
    \A c \in Caller : caller[c].outcome # "mismatch"

\* Requests of one job, replayed from any event before its outcome, are told the
\* same outcome, however many of them the attempts published.
CallersAgree ==
    \A c, d \in Caller :
        /\ caller[c].outcome \in Terminal /\ ~caller[c].after
        /\ caller[d].outcome \in Terminal /\ ~caller[d].after
        => caller[c].outcome = caller[d].outcome

\* As long as no call failed and no worker was disturbed, a request that waits
\* for the outcome has not skipped one, whichever event before the outcome it
\* replays from and whatever heartbeats and later attempts were told after it.
QuietOutcomeIsHeard ==
    budget = MaxDisturbances =>
        \A c \in Caller : caller[c].phase = "waiting" /\ ~caller[c].after =>
            \A i \in 1..caller[c].position : log[i].type \notin Terminal

\* Whatever happens to workers and clients, the entry leaves the group.
JobSettles == <>(entry.state = "acked")

\* Every request ends, also the one whose outcome was skipped or never told.
CallersAnswered ==
    \A c \in Caller : caller[c].phase = "waiting" ~> caller[c].phase = "done"

\* The job ends for the workers and for everyone who asked for it.
JobEnds == JobSettles /\ CallersAnswered

=============================================================================
