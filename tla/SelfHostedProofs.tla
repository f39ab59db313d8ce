--------------------------- MODULE SelfHostedProofs ---------------------------
(***************************************************************************)
(* Proofs about the two kinds of process of a self-hosted deployment.      *)
(*                                                                         *)
(* The first part is about the automation worker: what AutomationJob       *)
(* promises for any number of workers and requests, any number of attempts *)
(* and of crashes, lapses and failed calls.                                *)
(*                                                                         *)
(* The second part is about the replicas of the API (ApiReplica): what a   *)
(* replica that says it is ready has initialised, why its migrations may   *)
(* fail, and what outlives its requests. Its invariant has a part for the  *)
(* migrations of all replicas under the advisory lock (MigrationsOK), one  *)
(* for the process of each replica (ProcessOK) and one for each request    *)
(* for readiness (QueryOK).                                                *)
(*                                                                         *)
(* The two share no state: the worker meets the API through Redis only,    *)
(* whose stream and lease AutomationJob has.                               *)
(***************************************************************************)
EXTENDS AutomationJob, ApiReplica, TLAPS

----------------------------------------------------------------------------
(* Types                                                                   *)

\* A state that set() gives a worker keeps the workers' type.
LEMMA SetType ==
    ASSUME worker \in [Worker -> WorkerState], NEW w \in Worker,
           NEW fresh \in WorkerState, set(w, fresh)
    PROVE  worker' \in [Worker -> WorkerState]
BY DEF set

\* The variants of a worker's state the actions write are worker states.
LEMMA StateTypes ==
    ASSUME TypeInvariant, NEW w \in Worker
    PROVE  /\ worker[w] \in WorkerState
           /\ Idle \in WorkerState
           /\ [Idle EXCEPT !.phase = "down"] \in WorkerState
           /\ \A p \in RunPhase \cup {"idle", "delivered", "opened", "down"} :
                  [worker[w] EXCEPT !.phase = p] \in WorkerState
           /\ fatal(w) \in WorkerState
           /\ \A e \in {"unstarted", "final", "retryable", "lease-lost"} :
                  thrown(w, e) \in WorkerState
           /\ \A r \in Reason : /\ cancelled(w, r) \in WorkerState
                                /\ [cancelled(w, r) EXCEPT !.draining = TRUE] \in WorkerState
<1>1. worker[w] \in WorkerState
  BY DEF TypeInvariant
<1>2. Idle \in WorkerState /\ [Idle EXCEPT !.phase = "down"] \in WorkerState
  BY DEF Idle, WorkerState
<1>3. \A p \in RunPhase \cup {"idle", "delivered", "opened", "down"} :
          [worker[w] EXCEPT !.phase = p] \in WorkerState
  BY <1>1 DEF WorkerState
<1>4. fatal(w) \in WorkerState
  BY <1>1 DEF fatal, WorkerState, RunPhase
<1>5. \A e \in {"unstarted", "final", "retryable", "lease-lost"} : thrown(w, e) \in WorkerState
  BY <1>1 DEF thrown, WorkerState, RunPhase
<1>6. \A r \in Reason : cancelled(w, r) \in WorkerState
  BY <1>1 DEF cancelled, WorkerState
<1>7. \A r \in Reason : [cancelled(w, r) EXCEPT !.draining = TRUE] \in WorkerState
  BY <1>6 DEF WorkerState
<1> QED BY <1>1, <1>2, <1>3, <1>4, <1>5, <1>6, <1>7

\* emit keeps the types of what it writes.
LEMMA EmitType ==
    ASSUME TypeInvariant, NEW w \in Worker,
           NEW type \in Terminal \cup {"started", "report"},
           NEW done \in WorkerState, NEW failed \in WorkerState,
           emit(w, type, done, failed)
    PROVE  worker' \in [Worker -> WorkerState] /\ log' \in Seq(Event) /\ budget' \in Nat
<1> DEFINE event == [type |-> type, sequence |-> worker[w].sequence]
<1>1. event \in Event
  BY StateTypes DEF Event, WorkerState
<1>2. Append(log, event) \in Seq(Event)
  BY <1>1 DEF TypeInvariant
<1>3. [done EXCEPT !.sequence = @ + 1] \in WorkerState
  BY DEF WorkerState
<1>4. log' \in Seq(Event)
  BY <1>2 DEF emit, TypeInvariant
<1>5. worker' \in [Worker -> WorkerState]
  BY <1>3, SetType DEF emit, TypeInvariant
<1>6. budget' \in Nat
  BY DEF emit, disturb, TypeInvariant
<1> QED BY <1>4, <1>5, <1>6

\* ack keeps the types of what it writes.
LEMMA AckType ==
    ASSUME TypeInvariant, NEW w \in Worker,
           NEW done \in WorkerState, NEW failed \in WorkerState, ack(w, done, failed)
    PROVE  worker' \in [Worker -> WorkerState] /\ entry' \in Entry /\ budget' \in Nat
<1>1. entry' \in Entry
  BY DEF ack, Entry, TypeInvariant
<1>2. worker' \in [Worker -> WorkerState]
  BY SetType DEF ack, TypeInvariant
<1>3. budget' \in Nat
  BY DEF ack, disturb, TypeInvariant
<1> QED BY <1>1, <1>2, <1>3

\* What a request that joins becomes.
LEMMA JoinType ==
    ASSUME TypeInvariant, NEW c \in Caller, NEW cursor \in Nat \cup {-1}, NEW after \in BOOLEAN,
           join(c, cursor, after)
    PROVE  caller' \in [Caller -> Request]
<1>1. [Absent EXCEPT !.phase = "waiting", !.from = cursor, !.cursor = cursor, !.after = after]
          \in Request
  BY DEF Absent, Request
<1> QED BY <1>1 DEF join, TypeInvariant

----------------------------------------------------------------------------
(* The type invariant                                                      *)

\* Each step of a worker's code keeps the types.
LEMMA WorkerStepType ==
    ASSUME TypeInvariant, NEW w \in Worker, WorkerStep(w)
    PROVE  TypeInvariant'
<1> USE DEF unchangedByRun
<1>0. /\ worker[w] \in WorkerState /\ Idle \in WorkerState
      /\ [Idle EXCEPT !.phase = "down"] \in WorkerState /\ fatal(w) \in WorkerState
      /\ \A p \in RunPhase \cup {"idle", "delivered", "opened", "down"} :
             [worker[w] EXCEPT !.phase = p] \in WorkerState
      /\ \A e \in {"unstarted", "final", "retryable", "lease-lost"} : thrown(w, e) \in WorkerState
      /\ cancelled(w, "lease-lost") \in WorkerState
  BY StateTypes DEF Reason
<1>1. CASE Deliver(w)
  <2>1. reported(entry.deliveries + 1) \in Nat
    BY <1>1, JobAssumption DEF reported, TypeInvariant, Entry
  <2>2. entry' \in Entry
    BY <1>1, <2>1 DEF Deliver, Entry
  <2>3. [worker[w] EXCEPT !.phase = "delivered", !.deliveryCount = entry'.deliveries] \in WorkerState
    BY <1>0, <2>2 DEF WorkerState, Entry
  <2>4. worker' \in [Worker -> WorkerState]
    BY <1>1, <2>3, SetType DEF Deliver, TypeInvariant
  <2> QED BY <1>1, <2>2, <2>4 DEF Deliver, TypeInvariant
<1>2. CASE Open(w)
  <2>1. CASE expired
    <3>1. ack(w, Idle, [worker[w] EXCEPT !.phase = "down"])
      BY <1>2, <2>1 DEF Open
    <3>2. worker' \in [Worker -> WorkerState] /\ entry' \in Entry /\ budget' \in Nat
      BY <1>0, <3>1, AckType
    <3> QED BY <1>2, <3>2 DEF Open, TypeInvariant
  <2>2. CASE ~expired
    <3>1. worker' \in [Worker -> WorkerState]
      BY <1>0, <1>2, <2>2, SetType DEF Open, goto, TypeInvariant
    <3> QED BY <1>2, <2>2, <3>1 DEF Open, TypeInvariant
  <2> QED BY <2>1, <2>2
<1>3. CASE AcquireLease(w)
  <2>1. [worker[w] EXCEPT !.phase = "starting", !.sequence = 0, !.error = None,
                          !.reason = IF expired THEN "deadline" ELSE None] \in WorkerState
    <3> DEFINE reason == IF expired THEN "deadline" ELSE None
    <3>1. reason \in Reason \cup {None}
      BY DEF Reason
    <3> HIDE DEF reason
    <3>2. [worker[w] EXCEPT !.phase = "starting", !.sequence = 0, !.error = None,
                            !.reason = reason] \in WorkerState
      BY <1>0, <3>1 DEF WorkerState, RunPhase
    <3> QED BY <3>2 DEF reason
  <2>2. worker' \in [Worker -> WorkerState]
    BY <1>0, <1>3, <2>1, SetType DEF AcquireLease, TypeInvariant
  <2>3. lease' \in Worker \cup {None, Orphan} /\ budget' \in Nat
    BY <1>3 DEF AcquireLease, disturb, TypeInvariant
  <2> QED BY <1>3, <2>2, <2>3 DEF AcquireLease, TypeInvariant
<1>4. CASE EmitStarted(w)
  <2>1. worker' \in [Worker -> WorkerState] /\ log' \in Seq(Event) /\ budget' \in Nat
    BY <1>0, <1>4, EmitType DEF EmitStarted, RunPhase
  <2> QED BY <1>4, <2>1 DEF EmitStarted, TypeInvariant
<1>5. CASE Heartbeat(w)
  <2>1. worker' \in [Worker -> WorkerState] /\ log' \in Seq(Event) /\ budget' \in Nat
    <3>1. CASE lease = w
      BY <1>0, <1>5, <3>1, EmitType DEF Heartbeat
    <3>2. CASE lease # w
      BY <1>0, <1>5, <3>2, SetType DEF Heartbeat, TypeInvariant
    <3> QED BY <3>1, <3>2
  <2> QED BY <1>5, <2>1 DEF Heartbeat, TypeInvariant
<1>6. CASE Progress(w)
  <2>1. worker' \in [Worker -> WorkerState] /\ log' \in Seq(Event) /\ budget' \in Nat
    <3>1. CASE lease = w
      BY <1>0, <1>6, <3>1, EmitType DEF Progress
    <3>2. CASE lease # w
      BY <1>0, <1>6, <3>2, SetType DEF Progress, TypeInvariant
    <3> QED BY <3>1, <3>2
  <2> QED BY <1>6, <2>1 DEF Progress, TypeInvariant
<1>7. CASE Finish(w)
  <2>1. worker' \in [Worker -> WorkerState]
    BY <1>0, <1>7, SetType DEF Finish, TypeInvariant, RunPhase
  <2> QED BY <1>7, <2>1 DEF Finish, TypeInvariant
<1>8. CASE ExecutorFails(w)
  <2>1. worker' \in [Worker -> WorkerState] /\ budget' \in Nat
    BY <1>0, <1>8, SetType DEF ExecutorFails, TypeInvariant, disturb
  <2> QED BY <1>8, <2>1 DEF ExecutorFails, TypeInvariant
<1>9. CASE EmitSucceeded(w)
  <2>1. worker' \in [Worker -> WorkerState] /\ log' \in Seq(Event) /\ budget' \in Nat
    BY <1>0, <1>9, EmitType DEF EmitSucceeded, RunPhase, Terminal
  <2> QED BY <1>9, <2>1 DEF EmitSucceeded, TypeInvariant
<1>10. CASE AckSucceeded(w)
  <2>1. worker' \in [Worker -> WorkerState] /\ entry' \in Entry /\ budget' \in Nat
    BY <1>0, <1>10, AckType DEF AckSucceeded, RunPhase
  <2> QED BY <1>10, <2>1 DEF AckSucceeded, TypeInvariant
<1>11. CASE HandleError(w)
  <2>1. PICK type \in {"cancelled", "failed"} :
            \/ goto(w, "releasing") /\ UNCHANGED <<log, budget>>
            \/ emit(w, type, [worker[w] EXCEPT !.phase = "settling"], fatal(w))
    BY <1>11 DEF HandleError
  <2>2. worker' \in [Worker -> WorkerState] /\ log' \in Seq(Event) /\ budget' \in Nat
    <3>1. CASE goto(w, "releasing") /\ UNCHANGED <<log, budget>>
      BY <1>0, <3>1, SetType DEF goto, TypeInvariant, RunPhase
    <3>2. CASE emit(w, type, [worker[w] EXCEPT !.phase = "settling"], fatal(w))
      BY <1>0, <3>2, EmitType DEF RunPhase, Terminal
    <3> QED BY <2>1, <3>1, <3>2
  <2> QED BY <1>11, <2>2 DEF HandleError, TypeInvariant
<1>12. CASE AckFailed(w)
  <2>1. worker' \in [Worker -> WorkerState] /\ entry' \in Entry /\ budget' \in Nat
    BY <1>0, <1>12, AckType DEF AckFailed, RunPhase
  <2> QED BY <1>12, <2>1 DEF AckFailed, TypeInvariant
<1>13. CASE Release(w)
  <2>1. worker' \in [Worker -> WorkerState]
    BY <1>0, <1>13, SetType DEF Release, TypeInvariant
  <2>2. lease' \in Worker \cup {None, Orphan} /\ budget' \in Nat /\ lapsed' \subseteq Worker
    BY <1>13 DEF Release, disturb, TypeInvariant
  <2> QED BY <1>13, <2>1, <2>2 DEF Release, TypeInvariant
<1> QED BY <1>1, <1>2, <1>3, <1>4, <1>5, <1>6, <1>7, <1>8, <1>9, <1>10, <1>11, <1>12, <1>13
        DEF WorkerStep

\* So does whatever happens to a worker.
LEMMA WorkerEventType ==
    ASSUME TypeInvariant, NEW w \in Worker, WorkerEvent(w)
    PROVE  TypeInvariant'
<1>0. /\ Idle \in WorkerState /\ [Idle EXCEPT !.phase = "down"] \in WorkerState
      /\ \A r \in Reason : /\ cancelled(w, r) \in WorkerState
                           /\ [cancelled(w, r) EXCEPT !.draining = TRUE] \in WorkerState
  BY StateTypes
<1>1. CASE HandleControl(w)
  <2>1. worker' \in [Worker -> WorkerState]
    BY <1>0, <1>1, SetType DEF HandleControl, TypeInvariant, Reason
  <2>2. controls' \in Nat
    BY <1>1 DEF HandleControl, TypeInvariant
  <2> QED BY <1>1, <2>1, <2>2 DEF HandleControl, TypeInvariant
<1>2. CASE DeadlineTimer(w)
  <2>1. worker' \in [Worker -> WorkerState]
    BY <1>0, <1>2, SetType DEF DeadlineTimer, TypeInvariant, Reason
  <2> QED BY <1>2, <2>1 DEF DeadlineTimer, TypeInvariant
<1>3. CASE Stop(w)
  <2>1. worker' \in [Worker -> WorkerState]
    BY <1>0, <1>3, SetType DEF Stop, TypeInvariant, Reason
  <2>2. budget' \in Nat
    BY <1>3 DEF Stop, disturb, TypeInvariant
  <2> QED BY <1>3, <2>1, <2>2 DEF Stop, TypeInvariant
<1>4. CASE Crash(w)
  <2>1. worker' \in [Worker -> WorkerState]
    BY <1>0, <1>4, SetType DEF Crash, TypeInvariant
  <2>2. lease' \in Worker \cup {None, Orphan} /\ budget' \in Nat /\ lapsed' \subseteq Worker
    BY <1>4 DEF Crash, disturb, TypeInvariant
  <2> QED BY <1>4, <2>1, <2>2 DEF Crash, TypeInvariant
<1>5. CASE Restart(w)
  <2>1. worker' \in [Worker -> WorkerState]
    BY <1>0, <1>5, SetType DEF Restart, TypeInvariant
  <2> QED BY <1>5, <2>1 DEF Restart, TypeInvariant
<1> QED BY <1>1, <1>2, <1>3, <1>4, <1>5 DEF WorkerEvent

\* And what the requests do.
LEMMA CallerStepType ==
    ASSUME TypeInvariant, NEW c \in Caller, CallerStep(c)
    PROVE  TypeInvariant'
<1>0. caller[c] \in Request
  BY DEF TypeInvariant
<1>1. CASE Join(c)
  <2>1. \A k \in Caller : heardEvents(k) \subseteq Nat \cup {-1}
    BY DEF heardEvents
  <2>2. \A k \in Caller : heardResult(k) \subseteq Nat \cup {-1}
    BY DEF heardResult, TypeInvariant, Request
  <2>3. \A k \in Caller : caller[k].after \in BOOLEAN
    BY DEF TypeInvariant, Request
  <2>4. caller' \in [Caller -> Request]
    BY <1>1, <2>1, <2>2, <2>3, JoinType DEF Join
  <2> QED BY <1>1, <2>4 DEF Join, TypeInvariant
<1>2. CASE Consume(c)
  <2> DEFINE event == log[caller[c].position + 1]
             read == [caller[c] EXCEPT !.position = @ + 1]
             next == [read EXCEPT !.cursor = event.sequence]
  <2>1. event \in Event
    BY <1>0, <1>2 DEF Consume, TypeInvariant, Request
  <2>2. read \in Request
    BY <1>0 DEF Request
  <2>3. next \in Request
    <3> HIDE DEF event, read
    <3> QED BY <2>1, <2>2 DEF Request, Event
  <2>4. event.type \in Terminal =>
            [next EXCEPT !.phase = "done", !.outcome = event.type] \in Request
    <3> HIDE DEF next, event
    <3> QED BY <2>3 DEF Request
  <2>5. ended(c, "mismatch") \in Request
    BY <1>0 DEF ended, Request
  <2>6. event.sequence \in Nat /\ read.cursor \in Int
    <3> HIDE DEF event, read
    <3> QED BY <2>1, <2>2 DEF Event, Request
  <2> DEFINE fresh ==
             CASE event.sequence <= read.cursor -> read
               [] event.sequence > read.cursor + 1 -> ended(c, "mismatch")
               [] event.sequence = read.cursor + 1 /\ event.type \notin Terminal -> next
               [] OTHER -> [next EXCEPT !.phase = "done", !.outcome = event.type]
  <2>7. fresh \in Request
    <3> DEFINE last == [next EXCEPT !.phase = "done", !.outcome = event.type]
               gap == ended(c, "mismatch")
               s == event.sequence
               k == read.cursor
               ends == event.type \in Terminal
    <3>1. s \in Nat /\ k \in Int /\ read \in Request /\ next \in Request /\ gap \in Request
          /\ (ends => last \in Request)
      BY <2>2, <2>3, <2>4, <2>5, <2>6
    <3>2. fresh = CASE s <= k -> read
                    [] s > k + 1 -> gap
                    [] s = k + 1 /\ ~ends -> next
                    [] OTHER -> last
      OBVIOUS
    <3> HIDE DEF s, k, ends, last, next, gap, read, event, fresh
    <3> QED BY <3>1, <3>2
  <2>8. caller' = [caller EXCEPT ![c] = fresh]
    BY <1>2 DEF Consume
  <2>9. caller' \in [Caller -> Request]
    <3> HIDE DEF fresh
    <3> QED BY <2>7, <2>8 DEF TypeInvariant
  <2> QED BY <1>2, <2>9 DEF Consume, TypeInvariant
<1>3. CASE NoticeCancel(c) \/ Timeout(c) \/ Abort(c)
  <2>1. ended(c, "unanswered") \in Request
    BY <1>0 DEF ended, Request
  <2>2. caller' = [caller EXCEPT ![c] = ended(c, "unanswered")]
    BY <1>3 DEF NoticeCancel, Timeout, Abort
  <2>3. caller' \in [Caller -> Request]
    BY <2>1, <2>2 DEF TypeInvariant
  <2>4. cancelKey' \in BOOLEAN /\ controls' \in Nat
    <3>1. CASE UNCHANGED <<cancelKey, controls>>
      BY <3>1 DEF TypeInvariant
    <3>2. CASE cancelKey' = TRUE /\ controls' \in controls..(controls + 2)
      BY <3>2 DEF TypeInvariant
    <3> QED BY <1>3, <3>1, <3>2 DEF NoticeCancel, Timeout, Abort
  <2> QED BY <1>3, <2>3, <2>4 DEF NoticeCancel, Timeout, Abort, TypeInvariant
<1> QED BY <1>1, <1>2, <1>3 DEF CallerStep

LEMMA TypeInit == Init => TypeInvariant
<1> SUFFICES ASSUME Init PROVE TypeInvariant
  OBVIOUS
<1>1. entry \in Entry /\ lease \in Worker \cup {None, Orphan} /\ log \in Seq(Event)
  BY DEF Init, Entry
<1>2. worker \in [Worker -> WorkerState]
  BY DEF Init, Idle, WorkerState
<1>3. caller \in [Caller -> Request]
  BY DEF Init, Absent, Request
<1>4. budget \in Nat
  BY JobAssumption DEF Init
<1> QED BY <1>1, <1>2, <1>3, <1>4 DEF Init, TypeInvariant

LEMMA TypeStep == TypeInvariant /\ [Next]_vars => TypeInvariant'
<1> SUFFICES ASSUME TypeInvariant, [Next]_vars PROVE TypeInvariant'
  OBVIOUS
<1>1. CASE \E w \in Worker : WorkerStep(w) \/ WorkerEvent(w)
  BY <1>1, WorkerStepType, WorkerEventType
<1>2. CASE \E c \in Caller : CallerStep(c)
  BY <1>2, CallerStepType
<1>3. CASE LeaseExpires
  BY <1>3 DEF LeaseExpires, disturb, TypeInvariant
<1>4. CASE Deadline
  BY <1>4 DEF Deadline, TypeInvariant
<1>5. CASE UNCHANGED vars
  BY <1>5 DEF vars, TypeInvariant
<1> QED BY <1>1, <1>2, <1>3, <1>4, <1>5 DEF Next

\* The model's state keeps its shape: the counters of deliveries, sequence
\* numbers and cursors never leave their range.
THEOREM TypeCorrect == Spec => []TypeInvariant
<1> QED BY TypeInit, TypeStep, PTL DEF Spec
----------------------------------------------------------------------------
(* How the steps of one worker change it                                   *)

\* The ways emit can end.
LEMMA EmitEnds ==
    ASSUME TypeInvariant, NEW w \in Worker,
           NEW type \in Terminal \cup {"started", "report"},
           NEW done \in WorkerState, NEW failed \in WorkerState,
           emit(w, type, done, failed)
    PROVE  \E e \in Event :
               /\ e.type = type /\ e.sequence = worker[w].sequence
               /\ \/ /\ ~expired /\ log' = Append(log, e)
                     /\ set(w, [done EXCEPT !.sequence = @ + 1])
                  \/ set(w, failed) /\ log' = log
                  \/ set(w, failed) /\ log' = Append(log, e) /\ ~expired
<1> DEFINE e == [type |-> type, sequence |-> worker[w].sequence]
<1>1. e \in Event /\ e.type = type /\ e.sequence = worker[w].sequence
  BY StateTypes DEF Event, WorkerState
<1> QED BY <1>1 DEF emit

\* Where a step of w's code may leave w: a run is only made by AcquireLease.
LEMMA RunsOnlyAcquired ==
    ASSUME TypeInvariant, NEW w \in Worker,
           WorkerStep(w) \/ WorkerEvent(w), ~AcquireLease(w)
    PROVE  /\ \A v \in Worker \ {w} : worker'[v] = worker[v]
           /\ hasRun(w)' => hasRun(w)
<1>0. worker \in [Worker -> WorkerState] /\ worker[w] \in WorkerState
  BY DEF TypeInvariant
<1>1. SUFFICES \E fresh : set(w, fresh) /\ (hasRun(w) \/ fresh.phase \notin RunPhase)
  BY <1>0 DEF set, hasRun
<1>2. CASE hasRun(w)
  <2>1. SUFFICES \E fresh : set(w, fresh)
    BY <1>2
  <2>2. CASE Deliver(w) \/ Open(w) \/ EmitStarted(w) \/ Heartbeat(w) \/ Progress(w)
    BY <2>2 DEF Deliver, Open, EmitStarted, Heartbeat, Progress, goto, ack, emit
  <2>3. CASE \/ Finish(w) \/ ExecutorFails(w) \/ EmitSucceeded(w) \/ AckSucceeded(w)
             \/ HandleError(w)
    BY <2>3 DEF Finish, ExecutorFails, EmitSucceeded, AckSucceeded, HandleError, goto, ack, emit
  <2>4. CASE AckFailed(w) \/ Release(w) \/ WorkerEvent(w)
    BY <2>4 DEF AckFailed, Release, WorkerEvent, HandleControl, DeadlineTimer, Stop, Crash,
       Restart, ack
  <2> QED BY <2>2, <2>3, <2>4 DEF WorkerStep
<1>3. CASE ~hasRun(w)
  <2>1. Idle.phase \notin RunPhase /\ [Idle EXCEPT !.phase = "down"].phase \notin RunPhase
    BY DEF Idle, RunPhase
  <2>2. \A r : /\ cancelled(w, r).phase \notin RunPhase
               /\ [cancelled(w, r) EXCEPT !.draining = TRUE].phase \notin RunPhase
    BY <1>0, <1>3 DEF cancelled, hasRun, WorkerState
  <2>3. CASE Deliver(w)
    <3>1. \A n : [worker[w] EXCEPT !.phase = "delivered", !.deliveryCount = n].phase \notin RunPhase
      BY <1>0 DEF WorkerState, RunPhase
    <3> QED BY <2>3, <3>1 DEF Deliver
  <2>4. CASE Open(w)
    BY <1>0, <2>1, <2>4 DEF Open, goto, ack, RunPhase, WorkerState
  <2>5. CASE WorkerEvent(w)
    <3>1. CASE HandleControl(w) \/ DeadlineTimer(w)
      BY <2>2, <3>1 DEF HandleControl, DeadlineTimer
    <3>2. CASE Stop(w)
      <4>1. CASE worker[w].phase \in {"idle", "delivered"}
        BY <2>1, <3>2, <4>1 DEF Stop
      <4>2. CASE worker[w].phase \notin {"idle", "delivered"}
        BY <2>2, <3>2, <4>2 DEF Stop
      <4> QED BY <4>1, <4>2
    <3>3. CASE Crash(w) \/ Restart(w)
      BY <2>1, <3>3 DEF Crash, Restart
    <3> QED BY <2>5, <3>1, <3>2, <3>3 DEF WorkerEvent
  <2>6. ~(\/ EmitStarted(w) \/ Heartbeat(w) \/ Progress(w) \/ Finish(w) \/ ExecutorFails(w)
          \/ EmitSucceeded(w) \/ AckSucceeded(w) \/ HandleError(w) \/ AckFailed(w) \/ Release(w))
    BY <1>3 DEF EmitStarted, Heartbeat, Progress, Finish, ExecutorFails, EmitSucceeded,
       AckSucceeded, HandleError, AckFailed, Release, hasRun, RunPhase, BeatingPhase
  <2> QED BY <2>3, <2>4, <2>5, <2>6 DEF WorkerStep
<1> QED BY <1>2, <1>3

----------------------------------------------------------------------------
(* The lease                                                               *)

LEMMA LeaseStep ==
    TypeInvariant /\ UnlapsedRunHoldsLease /\ [Next]_vars => UnlapsedRunHoldsLease'
<1> SUFFICES ASSUME TypeInvariant, UnlapsedRunHoldsLease, [Next]_vars
             PROVE  UnlapsedRunHoldsLease'
  OBVIOUS
<1>0. worker \in [Worker -> WorkerState]
  BY DEF TypeInvariant
<1>1. ASSUME NEW w \in Worker, WorkerStep(w) \/ WorkerEvent(w) PROVE UnlapsedRunHoldsLease'
  <2>1. CASE AcquireLease(w)
    <3>1. CASE lease = None /\ lease' = w
      <4>1. \A v \in Worker : hasRun(v) => v \in lapsed
        BY <3>1, JobAssumption DEF UnlapsedRunHoldsLease
      <4>2. \A v \in Worker \ {w} : hasRun(v)' => hasRun(v)
        BY <1>0, <2>1 DEF AcquireLease, set, hasRun
      <4>3. lapsed' = lapsed
        BY <2>1 DEF AcquireLease
      <4> QED BY <3>1, <4>1, <4>2, <4>3 DEF UnlapsedRunHoldsLease
    <3>2. CASE ~(lease = None /\ lease' = w)
      <4>1. /\ lapsed' = lapsed
            /\ lease' = lease \/ (lease = None /\ lease' = Orphan)
            /\ set(w, Idle) \/ set(w, [Idle EXCEPT !.phase = "down"])
        BY <2>1, <3>2 DEF AcquireLease
      <4>2. \A v \in Worker : hasRun(v)' => hasRun(v)
        BY <1>0, <4>1 DEF set, hasRun, Idle, RunPhase
      <4> QED BY <4>1, <4>2, JobAssumption DEF UnlapsedRunHoldsLease
    <3> QED BY <3>1, <3>2
  <2>2. CASE Release(w) \/ Crash(w)
    <3>1. hasRun(w)' = FALSE
      BY <1>0, <2>2 DEF Release, Crash, set, hasRun, Idle, RunPhase
    <3>2. \A v \in Worker \ {w} : hasRun(v)' => hasRun(v)
      BY <1>0, <2>2 DEF Release, Crash, set, hasRun
    <3>3. /\ lease # w => lease' = lease
          /\ lapsed' = lapsed \ {w}
      BY <2>2 DEF Release, Crash
    <3> QED BY <3>1, <3>2, <3>3 DEF UnlapsedRunHoldsLease
  <2>3. CASE ~AcquireLease(w) /\ ~Release(w) /\ ~Crash(w)
    <3>1. UNCHANGED <<lease, lapsed>>
      BY <1>1, <2>3 DEF WorkerStep, WorkerEvent, Deliver, Open, EmitStarted, Heartbeat, Progress,
         Finish, ExecutorFails, EmitSucceeded, AckSucceeded, HandleError, AckFailed,
         HandleControl, DeadlineTimer, Stop, Restart, unchangedByRun
    <3>2. \A v \in Worker : hasRun(v)' => hasRun(v)
      BY <1>1, <2>3, RunsOnlyAcquired DEF hasRun
    <3> QED BY <3>1, <3>2 DEF UnlapsedRunHoldsLease
  <2> QED BY <2>1, <2>2, <2>3
<1>2. CASE \E c \in Caller : CallerStep(c)
  BY <1>2 DEF CallerStep, Join, Consume, NoticeCancel, Timeout, Abort,
     UnlapsedRunHoldsLease, hasRun
<1>3. CASE LeaseExpires
  BY <1>3 DEF LeaseExpires, UnlapsedRunHoldsLease, hasRun
<1>4. CASE Deadline
  BY <1>4 DEF Deadline, UnlapsedRunHoldsLease, hasRun
<1>5. CASE UNCHANGED vars
  BY <1>5 DEF vars, UnlapsedRunHoldsLease, hasRun
<1> QED BY <1>1, <1>2, <1>3, <1>4, <1>5 DEF Next

\* Whatever is released, lost, crashed or reclaimed: a run whose lease did not
\* lapse holds it, so two runs exist only after a lapse.
THEOREM LeaseExclusive == Spec => []UnlapsedRunHoldsLease
<1>1. Init => UnlapsedRunHoldsLease
  BY DEF Init, UnlapsedRunHoldsLease, hasRun, Idle, RunPhase
<1> QED BY <1>1, LeaseStep, TypeCorrect, PTL DEF Spec
----------------------------------------------------------------------------
(* The numbering of the events                                             *)

\* A step of w appends at most one event, with the number w's run has reached,
\* and w's own number grows by one only if it did.
LEMMA Numbering ==
    ASSUME TypeInvariant, NEW w \in Worker, WorkerStep(w) \/ WorkerEvent(w)
    PROVE  /\ \A v \in Worker \ {w} : worker'[v] = worker[v]
           /\ \/ log' = log /\ worker'[w].sequence \in {0, worker[w].sequence}
              \/ \E e \in Event :
                     /\ log' = Append(log, e) /\ e.sequence = worker[w].sequence
                     /\ worker'[w].sequence \in {0, worker[w].sequence, worker[w].sequence + 1}
<1> DEFINE same(fresh) == fresh.sequence \in {0, worker[w].sequence}
<1>0. worker \in [Worker -> WorkerState] /\ worker[w] \in WorkerState
  BY DEF TypeInvariant
<1>1. SUFFICES \E fresh :
          /\ set(w, fresh)
          /\ \/ log' = log /\ same(fresh)
             \/ \E e \in Event :
                    /\ log' = Append(log, e) /\ e.sequence = worker[w].sequence
                    /\ fresh.sequence \in {0, worker[w].sequence, worker[w].sequence + 1}
  BY <1>0 DEF set
<1>2. same(Idle) /\ same([Idle EXCEPT !.phase = "down"]) /\ same(worker[w]) /\ same(fatal(w))
  BY <1>0 DEF Idle, fatal, WorkerState
<1>3. \A p : same([worker[w] EXCEPT !.phase = p])
  BY <1>0 DEF WorkerState
<1>4. \A e : same(thrown(w, e))
  BY <1>0 DEF thrown, WorkerState
<1>5. \A r : same(cancelled(w, r)) /\ same([cancelled(w, r) EXCEPT !.draining = TRUE])
  BY <1>0 DEF cancelled, WorkerState
<1>6. \A n : same([worker[w] EXCEPT !.phase = "delivered", !.deliveryCount = n])
  BY <1>0 DEF WorkerState
<1>7. \A r : same([worker[w] EXCEPT !.phase = "starting", !.sequence = 0, !.error = None,
                                   !.reason = r])
  BY <1>0 DEF WorkerState
<1>8. /\ fatal(w) \in WorkerState
      /\ \A p \in RunPhase : [worker[w] EXCEPT !.phase = p] \in WorkerState
      /\ \A e \in {"unstarted", "final", "retryable", "lease-lost"} : thrown(w, e) \in WorkerState
  BY StateTypes
<1> DEFINE Goal == \E fresh :
          /\ set(w, fresh)
          /\ \/ log' = log /\ same(fresh)
             \/ \E e \in Event :
                    /\ log' = Append(log, e) /\ e.sequence = worker[w].sequence
                    /\ fresh.sequence \in {0, worker[w].sequence, worker[w].sequence + 1}
<1>9. ASSUME NEW type \in Terminal \cup {"started", "report"},
             NEW done \in WorkerState, NEW failed \in WorkerState,
             emit(w, type, done, failed),
             done.sequence = worker[w].sequence, same(failed)
      PROVE  Goal
  <2>1. [done EXCEPT !.sequence = @ + 1].sequence = worker[w].sequence + 1
    BY <1>9 DEF WorkerState
  <2>2. PICK e \in Event :
            /\ e.type = type /\ e.sequence = worker[w].sequence
            /\ \/ /\ ~expired /\ log' = Append(log, e)
                  /\ set(w, [done EXCEPT !.sequence = @ + 1])
               \/ set(w, failed) /\ log' = log
               \/ set(w, failed) /\ log' = Append(log, e) /\ ~expired
    BY <1>9, EmitEnds
  <2>3. CASE log' = Append(log, e) /\ set(w, [done EXCEPT !.sequence = @ + 1])
    <3> DEFINE next == [done EXCEPT !.sequence = @ + 1]
    <3> HIDE DEF next
    <3> QED BY <2>1, <2>2, <2>3 DEF next
  <2>4. CASE set(w, failed) /\ (log' = log \/ log' = Append(log, e))
    BY <1>9, <2>2, <2>4
  <2> QED BY <2>2, <2>3, <2>4
<1>10. \A p : [worker[w] EXCEPT !.phase = p].sequence = worker[w].sequence
  BY <1>0 DEF WorkerState
<1>11. CASE EmitStarted(w)
  BY <1>4, <1>8, <1>9, <1>10, <1>11 DEF EmitStarted, RunPhase
<1>12. CASE Heartbeat(w)
  <2>1. CASE lease = w
    BY <1>0, <1>2, <1>9, <1>12, <2>1 DEF Heartbeat
  <2>2. CASE lease # w
    BY <1>5, <1>12, <2>2 DEF Heartbeat
  <2> QED BY <2>1, <2>2
<1>13. CASE Progress(w)
  <2>1. CASE lease = w
    BY <1>0, <1>4, <1>8, <1>9, <1>13, <2>1 DEF Progress
  <2>2. CASE lease # w
    BY <1>4, <1>13, <2>2 DEF Progress
  <2> QED BY <2>1, <2>2
<1>14. CASE EmitSucceeded(w)
  BY <1>4, <1>8, <1>9, <1>10, <1>14 DEF EmitSucceeded, RunPhase, Terminal
<1>15. CASE HandleError(w)
  <2>1. PICK type \in {"cancelled", "failed"} :
            \/ goto(w, "releasing") /\ UNCHANGED <<log, budget>>
            \/ emit(w, type, [worker[w] EXCEPT !.phase = "settling"], fatal(w))
    BY <1>15 DEF HandleError
  <2>2. CASE goto(w, "releasing") /\ UNCHANGED <<log, budget>>
    BY <1>3, <2>2 DEF goto
  <2>3. CASE emit(w, type, [worker[w] EXCEPT !.phase = "settling"], fatal(w))
    BY <1>2, <1>8, <1>9, <1>10, <2>3 DEF RunPhase, Terminal
  <2> QED BY <2>1, <2>2, <2>3
<1>16. CASE Deliver(w) \/ Open(w)
  BY <1>2, <1>3, <1>6, <1>16 DEF Deliver, Open, goto, ack
<1>17. CASE AcquireLease(w)
  BY <1>2, <1>7, <1>17 DEF AcquireLease
<1>18. CASE Finish(w) \/ ExecutorFails(w)
  BY <1>3, <1>4, <1>18 DEF Finish, ExecutorFails, unchangedByRun
<1>19. CASE AckSucceeded(w) \/ AckFailed(w) \/ Release(w)
  BY <1>2, <1>3, <1>4, <1>19 DEF AckSucceeded, AckFailed, Release, ack
<1>20. CASE HandleControl(w) \/ DeadlineTimer(w) \/ Stop(w)
  BY <1>2, <1>5, <1>20 DEF HandleControl, DeadlineTimer, Stop
<1>21. CASE Crash(w) \/ Restart(w)
  BY <1>2, <1>21 DEF Crash, Restart
<1> QED BY <1>11, <1>12, <1>13, <1>14, <1>15, <1>16, <1>17, <1>18, <1>19, <1>20, <1>21
        DEF WorkerStep, WorkerEvent
\* The event with number n is among the first k events of the stream.
Told(k, n) == \E i \in 1..k : log[i].sequence = n

\* Why no request meets a gap: a run has told every number below its own, an
\* event comes after every number below its own, and a request has passed no
\* event beyond its cursor.
Gapless ==
    /\ \A w \in Worker : \A n \in 0..(worker[w].sequence - 1) : Told(Len(log), n)
    /\ \A i \in 1..Len(log) : \A n \in 0..(log[i].sequence - 1) : Told(i - 1, n)
    /\ \A c \in Caller : caller[c].phase = "waiting" =>
           /\ caller[c].position <= Len(log)
           /\ \A i \in 1..caller[c].position : log[i].sequence <= caller[c].cursor
    /\ NoSequenceGap

\* The steps of a worker keep it.
LEMMA GaplessWorker ==
    ASSUME TypeInvariant, Gapless, NEW w \in Worker, WorkerStep(w) \/ WorkerEvent(w),
           caller' = caller
    PROVE  Gapless'
<1>0. /\ worker \in [Worker -> WorkerState] /\ log \in Seq(Event)
      /\ caller \in [Caller -> Request]
      /\ \A v \in Worker : worker[v].sequence \in Nat
      /\ \A i \in 1..Len(log) : log[i].sequence \in Nat
  <2>1. \A i \in 1..Len(log) : log[i] \in Event
    BY DEF TypeInvariant
  <2>2. \A v \in Worker : worker[v] \in WorkerState
    BY DEF TypeInvariant
  <2> QED BY <2>1, <2>2 DEF TypeInvariant, WorkerState, Event
<1>1. NoSequenceGap'
  BY DEF Gapless, NoSequenceGap
<1>2. CASE log' = log /\ worker'[w].sequence \in {0, worker[w].sequence}
  <2>1. \A v \in Worker : worker'[v].sequence \in {0, worker[v].sequence}
    BY <1>2, Numbering
  <2>2. \A v \in Worker : \A n \in 0..(worker'[v].sequence - 1) : Told(Len(log), n)
    BY <1>0, <2>1 DEF Gapless
  <2>3. \A k, n : Told(k, n)' <=> Told(k, n)
    BY <1>2 DEF Told
  <2> QED BY <1>1, <1>2, <2>2, <2>3 DEF Gapless, Told
<1>3. ASSUME NEW e \in Event,
             log' = Append(log, e), e.sequence = worker[w].sequence,
             worker'[w].sequence \in {0, worker[w].sequence, worker[w].sequence + 1}
      PROVE  Gapless'
  <2>1. /\ Len(log') = Len(log) + 1 /\ log'[Len(log) + 1] = e
        /\ \A i \in 1..Len(log) : log'[i] = log[i]
        /\ Len(log) \in Nat
    BY <1>0, <1>3
  <2>2. \A n : \A k \in 0..Len(log) : Told(k, n) => \E i \in 1..k : log'[i].sequence = n
    BY <2>1 DEF Told
  <2>3. ASSUME NEW v \in Worker, NEW n \in 0..(worker'[v].sequence - 1)
        PROVE  \E i \in 1..Len(log') : log'[i].sequence = n
    <3>1. CASE n = worker[w].sequence
      BY <1>3, <2>1, <3>1
    <3>2. CASE n # worker[w].sequence
      <4>1. n \in 0..(worker[v].sequence - 1)
        <5>1. CASE v = w
          BY <1>0, <1>3, <2>3, <3>2, <5>1
        <5>2. CASE v # w
          BY <2>3, <5>2, Numbering
        <5> QED BY <5>1, <5>2
      <4>2. \E i \in 1..Len(log) : log[i].sequence = n
        BY <4>1 DEF Gapless, Told
      <4> QED BY <2>1, <4>2
    <3> QED BY <3>1, <3>2
  <2>4. ASSUME NEW i \in 1..Len(log'), NEW n \in 0..(log'[i].sequence - 1)
        PROVE  \E j \in 1..(i - 1) : log'[j].sequence = n
    <3>1. CASE i = Len(log) + 1
      <4>1. n \in 0..(worker[w].sequence - 1)
        BY <1>3, <2>1, <2>4, <3>1
      <4>2. Told(Len(log), n)
        BY <4>1 DEF Gapless
      <4> QED BY <2>1, <3>1, <4>2 DEF Told
    <3>2. CASE i # Len(log) + 1
      <4>1. i \in 1..Len(log) /\ log'[i] = log[i]
        BY <2>1, <3>2
      <4>2. Told(i - 1, n)
        BY <2>4, <4>1 DEF Gapless
      <4> QED BY <2>1, <4>1, <4>2 DEF Told
    <3> QED BY <3>1, <3>2
  <2>5. ASSUME NEW c \in Caller, caller[c].phase = "waiting"
        PROVE  /\ caller[c].position <= Len(log')
               /\ \A i \in 1..caller[c].position : log'[i].sequence <= caller[c].cursor
    <3>1. /\ caller[c].position \in Nat /\ caller[c].position <= Len(log)
          /\ \A i \in 1..caller[c].position : log[i].sequence <= caller[c].cursor
      BY <1>0, <2>5 DEF Gapless, Request
    <3> QED BY <2>1, <3>1
  <2> QED BY <1>1, <2>3, <2>4, <2>5 DEF Gapless, Told
<1> QED BY <1>2, <1>3, Numbering

\* So do the steps of a request: the next event it reads has been preceded by
\* every number below it, and those are all covered by the cursor.
LEMMA GaplessCaller ==
    ASSUME TypeInvariant, Gapless, NEW c \in Caller, CallerStep(c)
    PROVE  Gapless'
<1>0. /\ caller \in [Caller -> Request] /\ log \in Seq(Event)
      /\ caller[c].position \in Nat /\ caller[c].cursor \in Int /\ caller[c].cursor >= -1
      /\ \A i \in 1..Len(log) : log[i].sequence \in Nat
      /\ UNCHANGED <<worker, log>>
  <2>1. \A i \in 1..Len(log) : log[i] \in Event
    BY DEF TypeInvariant
  <2>2. caller[c] \in Request
    BY DEF TypeInvariant
  <2>3. UNCHANGED <<worker, log>>
    BY DEF CallerStep, Join, Consume, NoticeCancel, Timeout, Abort
  <2> QED BY <2>1, <2>2, <2>3 DEF TypeInvariant, Request, Event
<1> DEFINE fine(fresh) ==
               /\ fresh.outcome # "mismatch"
               /\ fresh.phase = "waiting" =>
                      /\ fresh.position <= Len(log)
                      /\ \A i \in 1..fresh.position : log[i].sequence <= fresh.cursor
<1>1. ASSUME NEW fresh, caller' = [caller EXCEPT ![c] = fresh], fine(fresh)
      PROVE  Gapless'
  <2>1. \A d \in Caller : fine(caller'[d])
    BY <1>0, <1>1 DEF Gapless, NoSequenceGap
  <2> QED BY <1>0, <2>1 DEF Gapless, NoSequenceGap, Told
<1>2. CASE Join(c)
  <2>1. PICK cursor, after : join(c, cursor, after)
    BY <1>2 DEF Join
  <2>2. fine([Absent EXCEPT !.phase = "waiting", !.from = cursor, !.cursor = cursor,
                            !.after = after])
    BY <1>0, NoneAssumption DEF Absent
  <2> QED BY <1>1, <2>1, <2>2 DEF join
<1>3. CASE NoticeCancel(c) \/ Timeout(c) \/ Abort(c)
  <2>1. fine(ended(c, "unanswered"))
    BY <1>0 DEF ended, Request
  <2> QED BY <1>1, <1>3, <2>1 DEF NoticeCancel, Timeout, Abort
<1>4. CASE Consume(c)
  <2> DEFINE p == caller[c].position
             event == log[p + 1]
             read == [caller[c] EXCEPT !.position = @ + 1]
             next == [read EXCEPT !.cursor = event.sequence]
             last == [next EXCEPT !.phase = "done", !.outcome = event.type]
  <2>1. /\ p + 1 \in 1..Len(log) /\ event \in Event /\ event.sequence \in Nat
        /\ caller[c].outcome # "mismatch"
        /\ \A i \in 1..p : log[i].sequence <= caller[c].cursor
        /\ read.cursor = caller[c].cursor
    BY <1>0, <1>4 DEF Consume, Gapless, NoSequenceGap, Request
  <2>2. event.sequence <= caller[c].cursor + 1
    <3> SUFFICES ASSUME event.sequence > caller[c].cursor + 1 PROVE FALSE
      BY <1>0, <2>1
    <3>1. caller[c].cursor + 1 \in 0..(event.sequence - 1)
      BY <1>0, <2>1
    <3>2. Told(p, caller[c].cursor + 1)
      <4>1. (p + 1) - 1 = p
        BY <1>0
      <4>2. Told((p + 1) - 1, caller[c].cursor + 1)
        <5> HIDE DEF p
        <5> QED BY <2>1, <3>1 DEF Gapless
      <4> QED BY <4>1, <4>2
    <3> QED BY <1>0, <2>1, <3>2 DEF Told
  <2>3. fine(read) \/ ~(event.sequence <= caller[c].cursor)
    BY <1>0, <2>1 DEF Request
  <2>4. fine(next) \/ event.sequence # caller[c].cursor + 1
    BY <1>0, <2>1 DEF Request
  <2>5. fine(last) \/ event.type \notin Terminal
    BY <1>0 DEF Request, Terminal
  <2>6. \/ caller' = [caller EXCEPT ![c] = read] /\ event.sequence <= caller[c].cursor
        \/ caller' = [caller EXCEPT ![c] = next] /\ event.sequence = caller[c].cursor + 1
        \/ caller' = [caller EXCEPT ![c] = last] /\ event.type \in Terminal
    <3> DEFINE fresh ==
               CASE event.sequence <= read.cursor -> read
                 [] event.sequence > read.cursor + 1 -> ended(c, "mismatch")
                 [] event.sequence = read.cursor + 1 /\ event.type \notin Terminal -> next
                 [] OTHER -> last
    <3>1. caller' = [caller EXCEPT ![c] = fresh]
      BY <1>4 DEF Consume
    <3>2. \/ event.sequence <= read.cursor /\ fresh = read
          \/ event.sequence = read.cursor + 1 /\ event.type \notin Terminal /\ fresh = next
          \/ event.type \in Terminal /\ fresh = last
      <4> DEFINE gap == ended(c, "mismatch")
                 s == event.sequence
                 k == read.cursor
                 ends == event.type \in Terminal
      <4>1. s \in Nat /\ k \in Int /\ s <= k + 1
        BY <1>0, <2>1, <2>2
      <4>2. fresh = CASE s <= k -> read
                      [] s > k + 1 -> gap
                      [] s = k + 1 /\ ~ends -> next
                      [] OTHER -> last
        OBVIOUS
      <4>3. \/ s <= k /\ fresh = read
            \/ s = k + 1 /\ ~ends /\ fresh = next
            \/ ends /\ fresh = last
        <5> HIDE DEF s, k, ends, last, next, gap, read, event, fresh
        <5> QED BY <4>1, <4>2
      <4> QED BY <4>3
    <3> HIDE DEF fresh
    <3> QED BY <2>1, <3>1, <3>2
  <2> HIDE DEF read, next, last
  <2> QED BY <1>1, <2>3, <2>4, <2>5, <2>6
<1> QED BY <1>2, <1>3, <1>4 DEF CallerStep

LEMMA GaplessStep == TypeInvariant /\ Gapless /\ [Next]_vars => Gapless'
<1> SUFFICES ASSUME TypeInvariant, Gapless, [Next]_vars PROVE Gapless'
  OBVIOUS
<1>1. ASSUME NEW w \in Worker, WorkerStep(w) \/ WorkerEvent(w) PROVE Gapless'
  <2>1. caller' = caller
    BY <1>1 DEF WorkerStep, WorkerEvent, Deliver, Open, AcquireLease, EmitStarted, Heartbeat,
       Progress, Finish, ExecutorFails, EmitSucceeded, AckSucceeded, HandleError, AckFailed,
       Release, HandleControl, DeadlineTimer, Stop, Crash, Restart, unchangedByRun
  <2> QED BY <1>1, <2>1, GaplessWorker
<1>2. CASE \E c \in Caller : CallerStep(c)
  BY <1>2, GaplessCaller
<1>3. CASE LeaseExpires \/ Deadline \/ UNCHANGED vars
  BY <1>3 DEF LeaseExpires, Deadline, vars, Gapless, NoSequenceGap, Told
<1> QED BY <1>1, <1>2, <1>3 DEF Next

\* Attempts number their events from zero, each on its own, and may be cut off
\* or overlap; still no request is ever refused for a gap in the numbering.
THEOREM GapFree == Spec => []NoSequenceGap
<1>1. Init => Gapless
  BY NoneAssumption DEF Init, Gapless, NoSequenceGap, Told, Absent, Idle
<1>2. Gapless => NoSequenceGap
  BY DEF Gapless
<1> QED BY <1>1, <1>2, GaplessStep, TypeCorrect, PTL DEF Spec
----------------------------------------------------------------------------
(* Acknowledgements                                                        *)

Outcome == \E i \in 1..Len(log) : log[i].type \in Terminal

\* Whoever is about to acknowledge has told the outcome.
Settled ==
    /\ entry.state = "acked" => expired \/ Outcome
    /\ \A w \in Worker : worker[w].phase \in {"acking", "settling"} => Outcome

\* An outcome stays on the stream, and an event with a terminal type is one.
LEMMA OutcomeStays ==
    ASSUME TypeInvariant, NEW e, log' = log \/ log' = Append(log, e)
    PROVE  /\ Outcome => Outcome'
           /\ log' = Append(log, e) /\ e.type \in Terminal => Outcome'
<1>1. log \in Seq(Event) /\ Len(log) \in Nat
  BY DEF TypeInvariant
<1>2. CASE log' = log
  <2>1. Outcome' <=> Outcome
    BY <1>2 DEF Outcome
  <2>2. log # Append(log, e)
    <3>1. Len(Append(log, e)) = Len(log) + 1
      BY <1>1
    <3> QED BY <1>1, <3>1
  <2> QED BY <1>2, <2>1, <2>2
<1>3. CASE log' = Append(log, e)
  <2>1. /\ Len(log') = Len(log) + 1 /\ log'[Len(log) + 1] = e
        /\ \A i \in 1..Len(log) : log'[i] = log[i]
    BY <1>1, <1>3
  <2> QED BY <1>1, <2>1 DEF Outcome
<1> QED BY <1>2, <1>3

LEMMA SettledWorker ==
    ASSUME TypeInvariant, Settled, NEW w \in Worker, WorkerStep(w) \/ WorkerEvent(w)
    PROVE  Settled'
<1> DEFINE quiet(fresh) ==
               fresh.phase \in {"acking", "settling"} =>
                   worker[w].phase \in {"acking", "settling"}
<1>0. worker \in [Worker -> WorkerState] /\ worker[w] \in WorkerState
  BY DEF TypeInvariant
<1>1. Outcome => Outcome'
  BY Numbering, OutcomeStays
<1>2. ASSUME \/ UNCHANGED <<entry, expired>>
             \/ entry'.state # "acked"
             \/ expired'
             \/ worker[w].phase \in {"acking", "settling"},
             NEW fresh, set(w, fresh), quiet(fresh) \/ Outcome'
      PROVE  Settled'
  <2>1. \A v \in Worker : worker'[v].phase \in {"acking", "settling"} => Outcome'
    BY <1>0, <1>1, <1>2 DEF Settled, set
  <2>2. entry'.state = "acked" => expired' \/ Outcome'
    BY <1>1, <1>2 DEF Settled
  <2> QED BY <2>1, <2>2 DEF Settled
<1>3. quiet(Idle) /\ quiet([Idle EXCEPT !.phase = "down"]) /\ quiet(worker[w]) /\ quiet(fatal(w))
  BY <1>0 DEF Idle, fatal, WorkerState
<1>4. \A p \in {"delivered", "opened", "down", "running", "closing", "releasing"} :
          quiet([worker[w] EXCEPT !.phase = p])
  BY <1>0 DEF WorkerState
<1>5. \A e : quiet(thrown(w, e))
  BY <1>0 DEF thrown, WorkerState
<1>6. \A r : quiet(cancelled(w, r)) /\ quiet([cancelled(w, r) EXCEPT !.draining = TRUE])
  BY <1>0 DEF cancelled, WorkerState
<1>7. \A n : quiet([worker[w] EXCEPT !.phase = "delivered", !.deliveryCount = n])
  BY <1>0 DEF WorkerState
<1>8. \A r : quiet([worker[w] EXCEPT !.phase = "starting", !.sequence = 0, !.error = None,
                                    !.reason = r])
  BY <1>0 DEF WorkerState
<1>9. /\ fatal(w) \in WorkerState
      /\ \A p \in RunPhase : [worker[w] EXCEPT !.phase = p] \in WorkerState
      /\ \A e \in {"unstarted", "final", "retryable", "lease-lost"} : thrown(w, e) \in WorkerState
  BY StateTypes
<1>10. ASSUME UNCHANGED <<entry, expired>>,
              NEW type \in Terminal \cup {"started", "report"},
              NEW done \in WorkerState, NEW failed \in WorkerState,
              emit(w, type, done, failed),
              quiet(done) \/ type \in Terminal, quiet(failed)
       PROVE  Settled'
  <2>1. quiet(done) => quiet([done EXCEPT !.sequence = @ + 1])
    BY DEF WorkerState
  <2>2. PICK e \in Event :
            /\ e.type = type /\ e.sequence = worker[w].sequence
            /\ \/ /\ ~expired /\ log' = Append(log, e)
                  /\ set(w, [done EXCEPT !.sequence = @ + 1])
               \/ set(w, failed) /\ log' = log
               \/ set(w, failed) /\ log' = Append(log, e) /\ ~expired
    BY <1>10, EmitEnds
  <2>3. CASE log' = Append(log, e) /\ set(w, [done EXCEPT !.sequence = @ + 1])
    <3>1. type \in Terminal => Outcome'
      BY <2>2, <2>3, OutcomeStays
    <3> DEFINE next == [done EXCEPT !.sequence = @ + 1]
    <3>2. set(w, next) /\ (quiet(next) \/ Outcome')
      BY <1>10, <2>1, <2>3, <3>1
    <3> HIDE DEF next
    <3> QED BY <1>2, <1>10, <3>2
  <2>4. CASE set(w, failed)
    BY <1>2, <1>10, <2>4
  <2> QED BY <2>2, <2>3, <2>4
<1>11. CASE EmitStarted(w)
  <2>1. UNCHANGED <<entry, expired>>
    BY <1>11 DEF EmitStarted, unchangedByRun
  <2>2. emit(w, "started", [worker[w] EXCEPT !.phase = "running"], thrown(w, "unstarted"))
    BY <1>11 DEF EmitStarted
  <2>3. quiet([worker[w] EXCEPT !.phase = "running"]) /\ quiet(thrown(w, "unstarted"))
    BY <1>4, <1>5
  <2> HIDE DEF quiet
  <2> QED BY <1>9, <1>10, <2>1, <2>2, <2>3 DEF RunPhase
<1>12. CASE Heartbeat(w)
  <2>1. CASE lease = w
    BY <1>0, <1>3, <1>10, <1>12, <2>1 DEF Heartbeat, unchangedByRun
  <2>2. CASE lease # w
    BY <1>2, <1>6, <1>12, <2>2 DEF Heartbeat, unchangedByRun
  <2> QED BY <2>1, <2>2
<1>13. CASE Progress(w)
  <2>1. CASE lease = w
    BY <1>0, <1>3, <1>5, <1>9, <1>10, <1>13, <2>1 DEF Progress, unchangedByRun
  <2>2. CASE lease # w
    BY <1>2, <1>5, <1>13, <2>2 DEF Progress, unchangedByRun
  <2> QED BY <2>1, <2>2
<1>14. CASE EmitSucceeded(w)
  BY <1>5, <1>9, <1>10, <1>14 DEF EmitSucceeded, RunPhase, Terminal, unchangedByRun
<1>15. CASE HandleError(w)
  <2>1. PICK type \in {"cancelled", "failed"} :
            \/ goto(w, "releasing") /\ UNCHANGED <<log, budget>>
            \/ emit(w, type, [worker[w] EXCEPT !.phase = "settling"], fatal(w))
    BY <1>15 DEF HandleError
  <2>2. UNCHANGED <<entry, expired>>
    BY <1>15 DEF HandleError, unchangedByRun
  <2>3. CASE goto(w, "releasing") /\ UNCHANGED <<log, budget>>
    BY <1>2, <1>4, <2>2, <2>3 DEF goto
  <2>4. CASE emit(w, type, [worker[w] EXCEPT !.phase = "settling"], fatal(w))
    BY <1>3, <1>9, <1>10, <2>2, <2>4 DEF RunPhase, Terminal
  <2> QED BY <2>1, <2>3, <2>4
<1>16. CASE Deliver(w)
  <2>1. entry'.state # "acked"
    BY <1>16 DEF Deliver
  <2> DEFINE next == [worker[w] EXCEPT !.phase = "delivered", !.deliveryCount = entry'.deliveries]
  <2>2. set(w, next) /\ quiet(next)
    BY <1>7, <1>16 DEF Deliver
  <2> HIDE DEF next, quiet
  <2> QED BY <1>2, <2>1, <2>2
<1>17. CASE Open(w)
  BY <1>2, <1>3, <1>4, <1>17 DEF Open, goto, ack
<1>18. CASE AcquireLease(w)
  <2>1. UNCHANGED <<entry, expired>>
    BY <1>18 DEF AcquireLease
  <2>2. PICK fresh : set(w, fresh) /\ quiet(fresh)
    <3> DEFINE made(r) == [worker[w] EXCEPT !.phase = "starting", !.sequence = 0,
                                            !.error = None, !.reason = r]
               down == [Idle EXCEPT !.phase = "down"]
    <3>1. \/ \E r : set(w, made(r))
          \/ set(w, Idle)
          \/ set(w, down)
      BY <1>18 DEF AcquireLease
    <3>2. (\A r : quiet(made(r))) /\ quiet(Idle) /\ quiet(down)
      BY <1>3, <1>8
    <3> HIDE DEF made, down, quiet
    <3> QED BY <3>1, <3>2
  <2> HIDE DEF quiet
  <2> QED BY <1>2, <2>1, <2>2
<1>19. CASE Finish(w) \/ ExecutorFails(w)
  <2>1. UNCHANGED <<entry, expired>>
    BY <1>19 DEF Finish, ExecutorFails, unchangedByRun
  <2>2. PICK fresh : set(w, fresh) /\ quiet(fresh)
    <3>1. \/ set(w, [worker[w] EXCEPT !.phase = "closing"])
          \/ \E e : set(w, thrown(w, e))
      BY <1>19 DEF Finish, ExecutorFails
    <3> DEFINE closing == [worker[w] EXCEPT !.phase = "closing"]
    <3>2. quiet(closing) /\ \A e : quiet(thrown(w, e))
      BY <1>4, <1>5
    <3>3. set(w, closing) \/ \E e : set(w, thrown(w, e))
      BY <3>1
    <3> HIDE DEF closing, quiet
    <3> QED BY <3>2, <3>3
  <2> HIDE DEF quiet
  <2> QED BY <1>2, <2>1, <2>2
<1>20. CASE AckSucceeded(w) \/ AckFailed(w)
  BY <1>2, <1>3, <1>4, <1>5, <1>20 DEF AckSucceeded, AckFailed, ack
<1>21. CASE Release(w)
  BY <1>2, <1>3, <1>21 DEF Release
<1>22. CASE HandleControl(w) \/ DeadlineTimer(w) \/ Stop(w)
  BY <1>2, <1>3, <1>6, <1>22 DEF HandleControl, DeadlineTimer, Stop
<1>23. CASE Crash(w) \/ Restart(w)
  BY <1>2, <1>3, <1>23 DEF Crash, Restart
<1> QED BY <1>11, <1>12, <1>13, <1>14, <1>15, <1>16, <1>17, <1>18, <1>19, <1>20, <1>21,
           <1>22, <1>23 DEF WorkerStep, WorkerEvent

LEMMA SettledStep == TypeInvariant /\ Settled /\ [Next]_vars => Settled'
<1> SUFFICES ASSUME TypeInvariant, Settled, [Next]_vars PROVE Settled'
  OBVIOUS
<1>1. CASE \E w \in Worker : WorkerStep(w) \/ WorkerEvent(w)
  BY <1>1, SettledWorker
<1>2. CASE \E c \in Caller : CallerStep(c)
  <2>1. UNCHANGED <<entry, worker, log, expired>>
    BY <1>2 DEF CallerStep, Join, Consume, NoticeCancel, Timeout, Abort
  <2> QED BY <2>1 DEF Settled, Outcome
<1>3. CASE LeaseExpires \/ Deadline \/ UNCHANGED vars
  BY <1>3 DEF LeaseExpires, Deadline, vars, Settled, Outcome
<1> QED BY <1>1, <1>2, <1>3 DEF Next

\* No crash, lost lease or failed call makes a worker drop a job: what is
\* acknowledged has its outcome on the stream, or has expired.
THEOREM AckedHasOutcome == Spec => []NoSilentAck
<1>1. Init => Settled
  BY DEF Init, Settled, Idle
<1>2. TypeInvariant /\ Settled => NoSilentAck
  <2> SUFFICES ASSUME TypeInvariant, Settled PROVE NoSilentAck
    OBVIOUS
  <2>1. DOMAIN log = 1..Len(log)
    BY DEF TypeInvariant
  <2> QED BY <2>1 DEF Settled, NoSilentAck, Outcome
<1> QED BY <1>1, <1>2, SettledStep, TypeCorrect, PTL DEF Spec
----------------------------------------------------------------------------
(* Cancellation                                                            *)

\* A run's reason to end is what happened: a client that asked, a deadline that
\* passed.
Excused(fresh) == /\ fresh.reason = "requested" => cancelKey
                  /\ fresh.reason = "deadline" => expired

AllExcused ==
    /\ \A i \in 1..Len(log) : log[i].type = "cancelled" => cancelKey
    /\ \A w \in Worker : Excused(worker[w])
    /\ controls > 0 => cancelKey

LEMMA ExcusedWorker ==
    ASSUME TypeInvariant, AllExcused, NEW w \in Worker, WorkerStep(w) \/ WorkerEvent(w)
    PROVE  AllExcused'
<1>0. /\ worker \in [Worker -> WorkerState] /\ worker[w] \in WorkerState
      /\ log \in Seq(Event) /\ controls \in Nat /\ Excused(worker[w])
  BY DEF TypeInvariant, AllExcused
<1>1. ASSUME UNCHANGED <<cancelKey, expired>>, controls' > 0 => cancelKey,
             NEW fresh, set(w, fresh), Excused(fresh),
             NEW e, \/ log' = log
                    \/ log' = Append(log, e) /\ (e.type = "cancelled" => cancelKey)
      PROVE  AllExcused'
  <2>1. \A v \in Worker : Excused(worker'[v])
    BY <1>0, <1>1 DEF AllExcused, set
  <2>2. \A i \in 1..Len(log') : log'[i].type = "cancelled" => cancelKey
    <3>1. CASE log' = log
      BY <3>1 DEF AllExcused
    <3>2. CASE log' = Append(log, e) /\ (e.type = "cancelled" => cancelKey)
      <4>1. /\ Len(log') = Len(log) + 1 /\ log'[Len(log) + 1] = e
            /\ \A i \in 1..Len(log) : log'[i] = log[i]
        BY <1>0, <3>2
      <4> QED BY <1>0, <3>2, <4>1 DEF AllExcused
    <3> QED BY <1>1, <3>1, <3>2
  <2> QED BY <1>1, <2>1, <2>2 DEF AllExcused, Excused
<1>2. /\ Excused(Idle) /\ Excused([Idle EXCEPT !.phase = "down"])
      /\ Excused(worker[w]) /\ Excused(fatal(w))
  BY <1>0, NoneAssumption DEF Idle, fatal, WorkerState, Excused, Reason
<1>3. \A p : Excused([worker[w] EXCEPT !.phase = p])
  BY <1>0 DEF WorkerState, Excused
<1>4. \A e : Excused(thrown(w, e))
  BY <1>0 DEF thrown, WorkerState, Excused
<1>5. \A r : (r = "requested" => cancelKey) /\ (r = "deadline" => expired) =>
          Excused(cancelled(w, r)) /\ Excused([cancelled(w, r) EXCEPT !.draining = TRUE])
  BY <1>0 DEF cancelled, WorkerState, Excused
<1>6. \A n : Excused([worker[w] EXCEPT !.phase = "delivered", !.deliveryCount = n])
  BY <1>0 DEF WorkerState, Excused
<1>7. \A r : (r = "requested" => cancelKey) /\ (r = "deadline" => expired) =>
          Excused([worker[w] EXCEPT !.phase = "starting", !.sequence = 0, !.error = None,
                                    !.reason = r])
  BY <1>0 DEF WorkerState, Excused
<1>8. /\ fatal(w) \in WorkerState
      /\ \A p \in RunPhase : [worker[w] EXCEPT !.phase = p] \in WorkerState
      /\ \A e \in {"unstarted", "final", "retryable", "lease-lost"} : thrown(w, e) \in WorkerState
  BY StateTypes
<1>9. ~(controls > 0) \/ cancelKey
  BY DEF AllExcused
<1>10. ASSUME UNCHANGED <<cancelKey, expired, controls>>,
              NEW type \in Terminal \cup {"started", "report"},
              NEW done \in WorkerState, NEW failed \in WorkerState,
              emit(w, type, done, failed), Excused(done), Excused(failed),
              type = "cancelled" /\ ~expired => cancelKey
       PROVE  AllExcused'
  <2> DEFINE next == [done EXCEPT !.sequence = @ + 1]
  <2>1. Excused(next)
    BY <1>10 DEF WorkerState, Excused
  <2>2. PICK e \in Event :
            /\ e.type = type /\ e.sequence = worker[w].sequence
            /\ \/ ~expired /\ log' = Append(log, e) /\ set(w, next)
               \/ set(w, failed) /\ log' = log
               \/ set(w, failed) /\ log' = Append(log, e) /\ ~expired
    BY <1>10, EmitEnds
  <2> HIDE DEF next
  <2>3. CASE ~expired /\ log' = Append(log, e) /\ set(w, next)
    BY <1>1, <1>9, <1>10, <2>1, <2>2, <2>3
  <2>4. CASE set(w, failed) /\ (log' = log \/ (log' = Append(log, e) /\ ~expired))
    BY <1>1, <1>9, <1>10, <2>2, <2>4
  <2> QED BY <2>2, <2>3, <2>4
<1>11. ASSUME UNCHANGED <<cancelKey, expired, log>>, controls' \in {controls, controls - 1},
              NEW fresh, set(w, fresh), Excused(fresh)
       PROVE  AllExcused'
  BY <1>0, <1>1, <1>9, <1>11
<1>12. CASE EmitStarted(w)
  <2>1. UNCHANGED <<cancelKey, expired, controls>>
    BY <1>12 DEF EmitStarted, unchangedByRun
  <2>2. emit(w, "started", [worker[w] EXCEPT !.phase = "running"], thrown(w, "unstarted"))
    BY <1>12 DEF EmitStarted
  <2> QED BY <1>3, <1>4, <1>8, <1>10, <2>1, <2>2 DEF RunPhase
<1>13. CASE Heartbeat(w) \/ Progress(w)
  <2>1. UNCHANGED <<cancelKey, expired, controls>>
    BY <1>13 DEF Heartbeat, Progress, unchangedByRun
  <2>2. CASE lease = w
    <3>1. PICK failed \in {worker[w], thrown(w, "final")} : emit(w, "report", worker[w], failed)
      BY <1>13, <2>2 DEF Heartbeat, Progress
    <3> QED BY <1>0, <1>2, <1>4, <1>8, <1>10, <2>1, <3>1
  <2>3. CASE lease # w
    <3>1. set(w, cancelled(w, "lease-lost")) \/ set(w, thrown(w, "lease-lost"))
      BY <1>13, <2>3 DEF Heartbeat, Progress
    <3>2. log' = log
      BY <1>13, <2>3 DEF Heartbeat, Progress
    <3>3. Excused(cancelled(w, "lease-lost")) /\ Excused(thrown(w, "lease-lost"))
      BY <1>4, <1>5
    <3> QED BY <1>11, <2>1, <3>1, <3>2, <3>3
  <2> QED BY <2>2, <2>3
<1>14. CASE EmitSucceeded(w)
  <2>1. UNCHANGED <<cancelKey, expired, controls>>
    BY <1>14 DEF EmitSucceeded, unchangedByRun
  <2>2. emit(w, "succeeded", [worker[w] EXCEPT !.phase = "acking"], thrown(w, "final"))
    BY <1>14 DEF EmitSucceeded
  <2> QED BY <1>3, <1>4, <1>8, <1>10, <2>1, <2>2 DEF RunPhase, Terminal
<1>15. CASE HandleError(w)
  <2>1. UNCHANGED <<cancelKey, expired, controls>>
    BY <1>15 DEF HandleError, unchangedByRun
  <2>2. PICK type \in {"cancelled", "failed"} :
            /\ type = "cancelled" => worker[w].reason \in {"requested", "deadline"}
            /\ \/ goto(w, "releasing") /\ UNCHANGED <<log, budget>>
               \/ emit(w, type, [worker[w] EXCEPT !.phase = "settling"], fatal(w))
    BY <1>15 DEF HandleError
  <2>3. CASE goto(w, "releasing") /\ UNCHANGED <<log, budget>>
    BY <1>3, <1>11, <2>1, <2>3 DEF goto
  <2>4. CASE emit(w, type, [worker[w] EXCEPT !.phase = "settling"], fatal(w))
    <3>1. type = "cancelled" /\ ~expired => cancelKey
      BY <1>0, <2>2 DEF Excused
    <3> QED BY <1>2, <1>3, <1>8, <1>10, <2>1, <2>4, <3>1 DEF RunPhase, Terminal
  <2> QED BY <2>2, <2>3, <2>4
<1>16. CASE Deliver(w)
  <2> DEFINE next == [worker[w] EXCEPT !.phase = "delivered", !.deliveryCount = entry'.deliveries]
  <2>1. UNCHANGED <<cancelKey, expired, controls, log>> /\ set(w, next) /\ Excused(next)
    BY <1>6, <1>16 DEF Deliver
  <2> HIDE DEF next
  <2> QED BY <1>11, <2>1
<1>17. CASE AcquireLease(w)
  <2> DEFINE made(r) == [worker[w] EXCEPT !.phase = "starting", !.sequence = 0,
                                          !.error = None, !.reason = r]
             down == [Idle EXCEPT !.phase = "down"]
             reason == IF expired THEN "deadline" ELSE None
  <2>1. UNCHANGED <<cancelKey, expired, controls, log>>
    BY <1>17 DEF AcquireLease
  <2>2. set(w, made(reason)) \/ set(w, Idle) \/ set(w, down)
    BY <1>17 DEF AcquireLease
  <2>3. (reason = "requested" => cancelKey) /\ (reason = "deadline" => expired)
    BY NoneAssumption DEF Reason
  <2>4. Excused(made(reason)) /\ Excused(Idle) /\ Excused(down)
    <3> HIDE DEF reason
    <3> QED BY <1>2, <1>7, <2>3
  <2> HIDE DEF made, down, reason
  <2> QED BY <1>11, <2>1, <2>2, <2>4
<1>18. CASE Open(w) \/ AckSucceeded(w) \/ AckFailed(w) \/ Release(w)
  <2>1. UNCHANGED <<cancelKey, expired, controls, log>>
    BY <1>18 DEF Open, AckSucceeded, AckFailed, Release, unchangedByRun
  <2> DEFINE down == [Idle EXCEPT !.phase = "down"]
             moved(p) == [worker[w] EXCEPT !.phase = p]
  <2>2. \/ set(w, Idle) \/ set(w, down) \/ set(w, fatal(w))
        \/ (\E p : set(w, moved(p))) \/ (\E e : set(w, thrown(w, e)))
    BY <1>18 DEF Open, AckSucceeded, AckFailed, Release, ack, goto
  <2>3. /\ Excused(Idle) /\ Excused(down) /\ Excused(fatal(w))
        /\ (\A p : Excused(moved(p))) /\ (\A e : Excused(thrown(w, e)))
    BY <1>2, <1>3, <1>4
  <2> HIDE DEF down, moved
  <2> QED BY <1>11, <2>1, <2>2, <2>3
<1>19. CASE Finish(w) \/ ExecutorFails(w)
  <2> DEFINE closing == [worker[w] EXCEPT !.phase = "closing"]
  <2>1. UNCHANGED <<cancelKey, expired, controls, log>>
    BY <1>19 DEF Finish, ExecutorFails, unchangedByRun
  <2>2. set(w, closing) \/ \E e : set(w, thrown(w, e))
    BY <1>19 DEF Finish, ExecutorFails
  <2>3. Excused(closing) /\ (\A e : Excused(thrown(w, e)))
    BY <1>3, <1>4
  <2> HIDE DEF closing
  <2> QED BY <1>11, <2>1, <2>2, <2>3
<1>20. CASE HandleControl(w)
  <2>1. Excused(cancelled(w, "requested"))
    BY <1>5, <1>9, <1>20 DEF HandleControl
  <2> QED BY <1>11, <1>20, <2>1 DEF HandleControl
<1>21. CASE DeadlineTimer(w)
  <2>1. Excused(cancelled(w, "deadline"))
    BY <1>5, <1>21 DEF DeadlineTimer
  <2> QED BY <1>11, <1>21, <2>1 DEF DeadlineTimer
<1>22. CASE Stop(w) \/ Crash(w) \/ Restart(w)
  <2> DEFINE down == [Idle EXCEPT !.phase = "down"]
             stopped == [cancelled(w, "shutdown") EXCEPT !.draining = TRUE]
  <2>1. UNCHANGED <<cancelKey, expired, controls, log>>
    BY <1>22 DEF Stop, Crash, Restart
  <2>2. set(w, Idle) \/ set(w, down) \/ set(w, stopped)
    BY <1>22 DEF Stop, Crash, Restart
  <2>3. Excused(Idle) /\ Excused(down) /\ Excused(stopped)
    BY <1>2, <1>5
  <2> HIDE DEF down, stopped
  <2> QED BY <1>11, <2>1, <2>2, <2>3
<1> QED BY <1>12, <1>13, <1>14, <1>15, <1>16, <1>17, <1>18, <1>19, <1>20, <1>21, <1>22
        DEF WorkerStep, WorkerEvent

LEMMA ExcusedStep == TypeInvariant /\ AllExcused /\ [Next]_vars => AllExcused'
<1> SUFFICES ASSUME TypeInvariant, AllExcused, [Next]_vars PROVE AllExcused'
  OBVIOUS
<1>1. CASE \E w \in Worker : WorkerStep(w) \/ WorkerEvent(w)
  BY <1>1, ExcusedWorker
<1>2. CASE \E c \in Caller : CallerStep(c)
  <2>1. UNCHANGED <<worker, log, expired>>
    BY <1>2 DEF CallerStep, Join, Consume, NoticeCancel, Timeout, Abort
  <2>2. UNCHANGED <<cancelKey, controls>> \/ cancelKey'
    BY <1>2 DEF CallerStep, Join, Consume, NoticeCancel, Timeout, Abort
  <2> QED BY <2>1, <2>2 DEF AllExcused, Excused
<1>3. CASE LeaseExpires \/ Deadline \/ UNCHANGED vars
  BY <1>3 DEF LeaseExpires, Deadline, vars, AllExcused, Excused
<1> QED BY <1>1, <1>2, <1>3 DEF Next

\* A job that nobody cancelled is never reported cancelled: not because a
\* worker was stopped, not because it lost its lease, not at its deadline.
THEOREM CancelledIsRequested == Spec => []CancelledOnlyOnRequest
<1>1. Init => AllExcused
  <2> SUFFICES ASSUME Init PROVE AllExcused
    OBVIOUS
  <2>1. \A w \in Worker : worker[w].reason = None
    BY DEF Init, Idle
  <2>2. None # "requested" /\ None # "deadline"
    BY NoneAssumption DEF Reason
  <2> QED BY <2>1, <2>2 DEF Init, AllExcused, Excused
<1>2. TypeInvariant /\ AllExcused => CancelledOnlyOnRequest
  <2> SUFFICES ASSUME TypeInvariant, AllExcused PROVE CancelledOnlyOnRequest
    OBVIOUS
  <2>1. DOMAIN log = 1..Len(log)
    BY DEF TypeInvariant
  <2> QED BY <2>1 DEF AllExcused, CancelledOnlyOnRequest
<1> QED BY <1>1, <1>2, ExcusedStep, TypeCorrect, PTL DEF Spec
----------------------------------------------------------------------------
(* Agreement                                                               *)

\* The first event with number n has type t.
FirstIs(n, t) ==
    \E i \in 1..Len(log) : /\ log[i].sequence = n /\ log[i].type = t
                           /\ \A j \in 1..(i - 1) : log[j].sequence # n

Ongoing(n) == \E t : FirstIs(n, t) /\ t \notin Terminal

\* Why requests agree: whatever cursor a request came with, it has been told the
\* first event of every number, and its outcome is the first that is one.
FirstToldOnly ==
    \A c \in Caller :
        /\ caller[c].phase # "done" => caller[c].outcome \notin Terminal
        /\ ~caller[c].after /\ caller[c].outcome \notin Terminal =>
               \A n \in 0..caller[c].cursor : Ongoing(n)
        /\ ~caller[c].after /\ caller[c].outcome \in Terminal =>
               /\ caller[c].cursor >= 0
               /\ FirstIs(caller[c].cursor, caller[c].outcome)
               /\ \A n \in 0..(caller[c].cursor - 1) : Ongoing(n)

LEMMA FirstUnique ==
    ASSUME TypeInvariant, NEW n, NEW t, NEW u, FirstIs(n, t), FirstIs(n, u)
    PROVE  t = u
<1>1. PICK i \in 1..Len(log) : /\ log[i].sequence = n /\ log[i].type = t
                               /\ \A j \in 1..(i - 1) : log[j].sequence # n
  BY DEF FirstIs
<1>2. PICK k \in 1..Len(log) : /\ log[k].sequence = n /\ log[k].type = u
                               /\ \A j \in 1..(k - 1) : log[j].sequence # n
  BY DEF FirstIs
<1>3. i = k
  <2>1. Len(log) \in Nat
    BY DEF TypeInvariant
  <2>2. ~(i < k)
    BY <1>1, <1>2, <2>1
  <2>3. ~(k < i)
    BY <1>1, <1>2, <2>1
  <2> QED BY <2>1, <2>2, <2>3
<1> QED BY <1>1, <1>2, <1>3

\* The stream only grows, so a first event stays first.
LEMMA FirstStays ==
    ASSUME TypeInvariant, NEW e, log' = log \/ log' = Append(log, e), NEW n, NEW t, FirstIs(n, t)
    PROVE  FirstIs(n, t)'
<1>1. CASE log' = log
  BY <1>1 DEF FirstIs
<1>2. CASE log' = Append(log, e)
  <2>1. /\ Len(log') = Len(log) + 1 /\ Len(log) \in Nat
        /\ \A i \in 1..Len(log) : log'[i] = log[i]
    BY <1>2 DEF TypeInvariant
  <2>2. PICK i \in 1..Len(log) : /\ log[i].sequence = n /\ log[i].type = t
                                 /\ \A j \in 1..(i - 1) : log[j].sequence # n
    BY DEF FirstIs
  <2>3. i \in 1..Len(log') /\ \A j \in 1..(i - 1) : log'[j] = log[j]
    BY <2>1
  <2> QED BY <2>1, <2>2, <2>3 DEF FirstIs
<1> QED BY <1>1, <1>2

LEMMA AgreeingCaller ==
    ASSUME TypeInvariant, Gapless, FirstToldOnly, NEW c \in Caller, CallerStep(c)
    PROVE  FirstToldOnly'
<1>0. /\ caller \in [Caller -> Request] /\ log \in Seq(Event)
      /\ caller[c].position \in Nat /\ caller[c].cursor \in Int /\ caller[c].cursor >= -1
      /\ \A k \in Caller : caller[k].cursor \in Int
      /\ \A i \in 1..Len(log) : log[i].sequence \in Nat
      /\ UNCHANGED log
  <2>1. \A i \in 1..Len(log) : log[i] \in Event
    BY DEF TypeInvariant
  <2>2. \A k \in Caller : caller[k] \in Request
    BY DEF TypeInvariant
  <2>3. UNCHANGED log
    BY DEF CallerStep, Join, Consume, NoticeCancel, Timeout, Abort
  <2> QED BY <2>1, <2>2, <2>3 DEF TypeInvariant, Request, Event
<1> DEFINE fine(fresh) ==
               /\ fresh.phase # "done" => fresh.outcome \notin Terminal
               /\ ~fresh.after /\ fresh.outcome \notin Terminal =>
                      \A n \in 0..fresh.cursor : Ongoing(n)
               /\ ~fresh.after /\ fresh.outcome \in Terminal =>
                      /\ fresh.cursor >= 0
                      /\ FirstIs(fresh.cursor, fresh.outcome)
                      /\ \A n \in 0..(fresh.cursor - 1) : Ongoing(n)
<1>1. ASSUME NEW fresh, caller' = [caller EXCEPT ![c] = fresh], fine(fresh)
      PROVE  FirstToldOnly'
  <2>1. \A d \in Caller : fine(caller'[d])
    BY <1>0, <1>1 DEF FirstToldOnly
  <2>2. \A n, t : FirstIs(n, t)' <=> FirstIs(n, t)
    BY <1>0 DEF FirstIs
  <2>3. \A n : Ongoing(n)' <=> Ongoing(n)
    BY <2>2 DEF Ongoing
  <2> QED BY <2>1, <2>2, <2>3 DEF FirstToldOnly
<1>2. CASE Join(c)
  <2> DEFINE joined(s, a) == [Absent EXCEPT !.phase = "waiting", !.from = s, !.cursor = s,
                                            !.after = a]
  <2>1. \A s, a : /\ joined(s, a).after = a /\ joined(s, a).cursor = s
                  /\ joined(s, a).outcome \notin Terminal
    BY NoneAssumption DEF Absent
  <2>2. CASE join(c, -1, FALSE)
    <3>1. fine(joined(-1, FALSE))
      <4>1. \A n \in 0..(-1) : Ongoing(n)
        OBVIOUS
      <4> HIDE DEF joined
      <4> QED BY <2>1, <4>1
    <3>2. caller' = [caller EXCEPT ![c] = joined(-1, FALSE)]
      BY <2>2 DEF join
    <3> HIDE DEF joined, fine
    <3> QED BY <1>1, <3>1, <3>2
  <2>3. ASSUME NEW k \in Caller, NEW s \in heardEvents(k), join(c, s, caller[k].after)
        PROVE  FirstToldOnly'
    <3>1. /\ s \in Int /\ s <= caller[k].cursor
          /\ caller[k].outcome \in Terminal => s < caller[k].cursor
      BY <1>0, <2>3 DEF heardEvents
    <3>2. ~caller[k].after => \A n \in 0..s : Ongoing(n)
      <4>1. CASE caller[k].outcome \in Terminal
        BY <1>0, <3>1, <4>1 DEF FirstToldOnly
      <4>2. CASE caller[k].outcome \notin Terminal
        BY <1>0, <3>1, <4>2 DEF FirstToldOnly
      <4> QED BY <4>1, <4>2
    <3>3. fine(joined(s, caller[k].after))
      <4> HIDE DEF joined
      <4> QED BY <2>1, <3>2
    <3>4. caller' = [caller EXCEPT ![c] = joined(s, caller[k].after)]
      BY <2>3 DEF join
    <3> HIDE DEF joined, fine
    <3> QED BY <1>1, <3>3, <3>4
  <2>4. ASSUME NEW s, join(c, s, TRUE)
        PROVE  FirstToldOnly'
    <3>1. fine(joined(s, TRUE))
      <4> HIDE DEF joined
      <4> QED BY <2>1
    <3>2. caller' = [caller EXCEPT ![c] = joined(s, TRUE)]
      BY <2>4 DEF join
    <3> HIDE DEF joined, fine
    <3> QED BY <1>1, <3>1, <3>2
  <2> QED BY <1>2, <2>2, <2>3, <2>4 DEF Join
<1>3. CASE NoticeCancel(c) \/ Timeout(c) \/ Abort(c)
  <2> DEFINE stopped == ended(c, "unanswered")
  <2>1. /\ stopped.after = caller[c].after /\ stopped.cursor = caller[c].cursor
        /\ stopped.outcome \notin Terminal
    BY <1>0 DEF ended, Request, Terminal
  <2>2. fine(stopped)
    <3>1. ~caller[c].after => \A n \in 0..caller[c].cursor : Ongoing(n)
      BY <1>3 DEF FirstToldOnly, NoticeCancel, Timeout, Abort
    <3> HIDE DEF stopped
    <3> QED BY <2>1, <3>1
  <2>3. caller' = [caller EXCEPT ![c] = stopped]
    BY <1>3 DEF NoticeCancel, Timeout, Abort
  <2> HIDE DEF stopped, fine
  <2> QED BY <1>1, <2>2, <2>3
<1>4. CASE Consume(c)
  <2> DEFINE p == caller[c].position
             k == caller[c].cursor
             event == log[p + 1]
             read == [caller[c] EXCEPT !.position = @ + 1]
             next == [read EXCEPT !.cursor = event.sequence]
             last == [next EXCEPT !.phase = "done", !.outcome = event.type]
             gap == ended(c, "mismatch")
  <2>1. /\ p + 1 \in 1..Len(log) /\ event \in Event /\ event.sequence \in Nat
        /\ \A i \in 1..p : log[i].sequence <= k
        /\ caller[c].outcome \notin Terminal
        /\ ~caller[c].after => \A n \in 0..k : Ongoing(n)
    BY <1>0, <1>4 DEF Consume, Gapless, FirstToldOnly
  <2>2. event.sequence = k + 1 => FirstIs(k + 1, event.type)
    <3> SUFFICES ASSUME event.sequence = k + 1
                 PROVE  /\ log[p + 1].sequence = k + 1
                        /\ \A j \in 1..((p + 1) - 1) : log[j].sequence # k + 1
      BY <2>1 DEF FirstIs
    <3> QED BY <1>0, <2>1
  <2>3. /\ read.after = caller[c].after /\ read.cursor = k /\ read.outcome = caller[c].outcome
        /\ next.after = caller[c].after /\ next.cursor = event.sequence
        /\ next.outcome = caller[c].outcome
        /\ last.after = caller[c].after /\ last.cursor = event.sequence
        /\ last.outcome = event.type /\ last.phase = "done"
        /\ gap.after = caller[c].after /\ gap.cursor = k /\ gap.outcome = "mismatch"
    BY <1>0 DEF Request, ended
  <2>4. \A n \in 0..(k + 1) : n \in 0..k \/ n = k + 1
    BY <1>0
  <2>5. fine(read) /\ fine(gap)
    <3>1. "mismatch" \notin Terminal
      BY DEF Terminal
    <3> HIDE DEF read, gap, event
    <3> QED BY <2>1, <2>3, <3>1
  <2>6. event.sequence = k + 1 /\ event.type \notin Terminal => fine(next)
    <3> HIDE DEF next, event, k
    <3> QED BY <2>1, <2>2, <2>3, <2>4 DEF Ongoing
  <2>7. event.sequence = k + 1 /\ event.type \in Terminal => fine(last)
    <3>1. (k + 1) - 1 = k /\ k + 1 >= 0
      BY <1>0
    <3> HIDE DEF last, event, k
    <3> QED BY <2>1, <2>2, <2>3, <3>1
  <2> DEFINE fresh ==
             CASE event.sequence <= read.cursor -> read
               [] event.sequence > read.cursor + 1 -> gap
               [] event.sequence = read.cursor + 1 /\ event.type \notin Terminal -> next
               [] OTHER -> last
  <2>8. caller' = [caller EXCEPT ![c] = fresh]
    BY <1>4 DEF Consume
  <2>9. \/ fresh = read \/ fresh = gap
        \/ event.sequence = k + 1 /\ event.type \notin Terminal /\ fresh = next
        \/ event.sequence = k + 1 /\ event.type \in Terminal /\ fresh = last
    <3> DEFINE s == event.sequence
               ends == event.type \in Terminal
               r == read.cursor
    <3>1. s \in Nat /\ k \in Int /\ r = k
      BY <1>0, <2>1, <2>3
    <3>2. fresh = CASE s <= r -> read
                    [] s > r + 1 -> gap
                    [] s = r + 1 /\ ~ends -> next
                    [] OTHER -> last
      OBVIOUS
    <3>3. \/ fresh = read \/ fresh = gap
          \/ s = k + 1 /\ ~ends /\ fresh = next
          \/ s = k + 1 /\ ends /\ fresh = last
      <4> HIDE DEF s, k, r, ends, last, next, gap, read, event, fresh
      <4> QED BY <3>1, <3>2
    <3> QED BY <3>3
  <2>10. fine(fresh)
    <3> HIDE DEF fresh, fine, read, next, last, gap, event, k
    <3> QED BY <2>5, <2>6, <2>7, <2>9
  <2> HIDE DEF fresh, fine
  <2> QED BY <1>1, <2>8, <2>10
<1> QED BY <1>2, <1>3, <1>4 DEF CallerStep

LEMMA AgreeingStep ==
    TypeInvariant /\ Gapless /\ FirstToldOnly /\ [Next]_vars => FirstToldOnly'
<1> SUFFICES ASSUME TypeInvariant, Gapless, FirstToldOnly, [Next]_vars PROVE FirstToldOnly'
  OBVIOUS
<1>1. ASSUME caller' = caller, NEW e, log' = log \/ log' = Append(log, e)
      PROVE  FirstToldOnly'
  <2>1. \A n, t : FirstIs(n, t) => FirstIs(n, t)'
    BY <1>1, FirstStays
  <2>2. \A n : Ongoing(n) => Ongoing(n)'
    BY <2>1 DEF Ongoing
  <2> QED BY <1>1, <2>1, <2>2 DEF FirstToldOnly
<1>2. ASSUME NEW w \in Worker, WorkerStep(w) \/ WorkerEvent(w) PROVE FirstToldOnly'
  <2>1. caller' = caller
    BY <1>2 DEF WorkerStep, WorkerEvent, Deliver, Open, AcquireLease, EmitStarted, Heartbeat,
       Progress, Finish, ExecutorFails, EmitSucceeded, AckSucceeded, HandleError, AckFailed,
       Release, HandleControl, DeadlineTimer, Stop, Crash, Restart, unchangedByRun
  <2>2. \E e : log' = log \/ log' = Append(log, e)
    BY <1>2, Numbering
  <2> QED BY <1>1, <2>1, <2>2
<1>3. CASE \E c \in Caller : CallerStep(c)
  BY <1>3, AgreeingCaller
<1>4. CASE LeaseExpires \/ Deadline \/ UNCHANGED vars
  BY <1>1, <1>4 DEF LeaseExpires, Deadline, vars
<1> QED BY <1>2, <1>3, <1>4 DEF Next

\* However many outcomes the attempts of a job published, and wherever a request
\* replayed from short of a result, all requests are told the same one.
THEOREM Agreement == Spec => []CallersAgree
<1>1. Init => Gapless /\ FirstToldOnly
  BY NoneAssumption DEF Init, Gapless, NoSequenceGap, Told, FirstToldOnly, Absent, Idle
<1>2. TypeInvariant /\ FirstToldOnly => CallersAgree
  <2> SUFFICES ASSUME TypeInvariant, FirstToldOnly, NEW c \in Caller, NEW d \in Caller,
                      caller[c].outcome \in Terminal, ~caller[c].after,
                      caller[d].outcome \in Terminal, ~caller[d].after
               PROVE  caller[c].outcome = caller[d].outcome
    BY DEF CallersAgree
  <2>1. caller[c].cursor \in Int /\ caller[d].cursor \in Int
    BY DEF TypeInvariant, Request
  <2>2. ~(caller[c].cursor < caller[d].cursor)
    <3> SUFFICES ASSUME caller[c].cursor < caller[d].cursor PROVE FALSE
      OBVIOUS
    <3>1. Ongoing(caller[c].cursor) /\ FirstIs(caller[c].cursor, caller[c].outcome)
      BY <2>1 DEF FirstToldOnly
    <3> QED BY <3>1, FirstUnique DEF Ongoing
  <2>3. ~(caller[d].cursor < caller[c].cursor)
    <3> SUFFICES ASSUME caller[d].cursor < caller[c].cursor PROVE FALSE
      OBVIOUS
    <3>1. Ongoing(caller[d].cursor) /\ FirstIs(caller[d].cursor, caller[d].outcome)
      BY <2>1 DEF FirstToldOnly
    <3> QED BY <3>1, FirstUnique DEF Ongoing
  <2>4. caller[c].cursor = caller[d].cursor
    BY <2>1, <2>2, <2>3
  <2> QED BY <2>4, FirstUnique DEF FirstToldOnly
<1> QED BY <1>1, <1>2, AgreeingStep, GaplessStep, TypeCorrect, PTL DEF Spec
----------------------------------------------------------------------------
(* The undisturbed job                                                     *)

\* The phases before a run has told its outcome.
Untold == {"starting", "running", "closing", "failed"}

\* A run nobody disturbed: it stops for a cancellation, the deadline or its own
\* failure only, and until there is an outcome it has told the whole stream.
CalmRun(w) ==
    /\ ~worker[w].draining
    /\ hasRun(w) =>
           /\ worker[w].reason \in {None, "requested", "deadline"}
           /\ worker[w].error \notin {"retryable", "lease-lost"}
           /\ ~expired => worker[w].reason # "deadline" /\ worker[w].error \in {None, "final"}
           /\ ~expired /\ ~Outcome =>
                  worker[w].phase \in Untold /\ worker[w].sequence = Len(log)

\* Up to the first outcome, the number of an event is its place on the stream.
NumberedByPlace(k) == \A i \in 1..k : log[i].sequence = i - 1
FirstOutcome(f) ==
    /\ log[f].type \in Terminal
    /\ \A i \in 1..(f - 1) : log[i].type \notin Terminal
    /\ NumberedByPlace(f)

\* Why an undisturbed job is heard: no lease lapses, so only one run exists, and
\* another one may begin only after the outcome.
Calm ==
    /\ lapsed = {} /\ lease # Orphan
    /\ ~expired /\ ~Outcome /\ lease = None => log = <<>>
    /\ \A w \in Worker : CalmRun(w)
    /\ \/ ~Outcome /\ NumberedByPlace(Len(log))
       \/ \E f \in 1..Len(log) : FirstOutcome(f)

Undisturbed == budget <= MaxDisturbances /\ (budget = MaxDisturbances => Calm)

\* Only a run tells events, and none once the job has expired.
LEMMA OnlyRunsTell ==
    ASSUME NEW w \in Worker, WorkerStep(w) \/ WorkerEvent(w), ~hasRun(w) \/ expired
    PROVE  log' = log
<1>1. CASE ~hasRun(w)
  <2>1. ~(\/ EmitStarted(w) \/ Heartbeat(w) \/ Progress(w) \/ EmitSucceeded(w) \/ HandleError(w)
          \/ Finish(w) \/ ExecutorFails(w) \/ AckSucceeded(w) \/ AckFailed(w) \/ Release(w))
    BY <1>1 DEF EmitStarted, Heartbeat, Progress, EmitSucceeded, HandleError, Finish,
       ExecutorFails, AckSucceeded, AckFailed, Release, hasRun, RunPhase, BeatingPhase
  <2> QED BY <2>1 DEF WorkerStep, WorkerEvent, Deliver, Open, AcquireLease, HandleControl,
          DeadlineTimer, Stop, Crash, Restart
<1>2. CASE expired
  BY <1>2 DEF WorkerStep, WorkerEvent, Deliver, Open, AcquireLease, EmitStarted, Heartbeat,
     Progress, Finish, ExecutorFails, EmitSucceeded, AckSucceeded, HandleError, AckFailed,
     Release, HandleControl, DeadlineTimer, Stop, Crash, Restart, unchangedByRun, emit
<1> QED BY <1>1, <1>2

\* The run that steps stays calm.
LEMMA CalmRunStep ==
    ASSUME TypeInvariant, UnlapsedRunHoldsLease, Calm, NEW w \in Worker,
           WorkerStep(w) \/ WorkerEvent(w), budget' = budget
    PROVE  CalmRun(w)'
<1> DEFINE calm(fresh) ==
               /\ ~fresh.draining
               /\ fresh.phase \in RunPhase =>
                      /\ fresh.reason \in {None, "requested", "deadline"}
                      /\ fresh.error \notin {"retryable", "lease-lost"}
                      /\ ~expired => fresh.reason # "deadline" /\ fresh.error \in {None, "final"}
           told(fresh) ==
               fresh.phase \in RunPhase /\ ~expired /\ ~Outcome =>
                   fresh.phase \in Untold /\ fresh.sequence = Len(log)
<1>0. /\ worker \in [Worker -> WorkerState] /\ worker[w] \in WorkerState
      /\ ~disturb /\ budget \in Nat
  BY DEF TypeInvariant, disturb
<1>1. calm(worker[w]) /\ told(worker[w])
  BY DEF Calm, CalmRun, hasRun
<1>2. hasRun(w) => lease = w
  BY DEF Calm, UnlapsedRunHoldsLease
<1>3. expired' = expired
  BY DEF WorkerStep, WorkerEvent, Deliver, Open, AcquireLease, EmitStarted, Heartbeat,
     Progress, Finish, ExecutorFails, EmitSucceeded, AckSucceeded, HandleError, AckFailed,
     Release, HandleControl, DeadlineTimer, Stop, Crash, Restart, unchangedByRun
<1>4. ASSUME NEW fresh, set(w, fresh), log' = log, calm(fresh), told(fresh) PROVE CalmRun(w)'
  <2>1. worker'[w] = fresh
    BY <1>0, <1>4 DEF set
  <2>2. Outcome' <=> Outcome
    BY <1>4 DEF Outcome
  <2> QED BY <1>3, <1>4, <2>1, <2>2 DEF CalmRun, hasRun
<1>5. calm(Idle) /\ told(Idle) /\ calm([Idle EXCEPT !.phase = "down"])
      /\ told([Idle EXCEPT !.phase = "down"])
  BY DEF Idle, RunPhase
<1>6. /\ fatal(w) \in WorkerState
      /\ \A p \in RunPhase : [worker[w] EXCEPT !.phase = p] \in WorkerState
      /\ \A e \in {"unstarted", "final", "retryable", "lease-lost"} : thrown(w, e) \in WorkerState
  BY StateTypes
<1>7. ASSUME hasRun(w), NEW type \in Terminal \cup {"started", "report"},
             NEW done \in WorkerState, NEW failed \in WorkerState,
             emit(w, type, done, failed),
             done.draining = worker[w].draining, done.reason = worker[w].reason,
             done.error = worker[w].error, done.sequence = worker[w].sequence,
             type \in Terminal \/ done.phase \in Untold \/ Outcome,
             expired => calm(failed)
      PROVE  CalmRun(w)'
  <2>1. CASE expired
    <3>1. set(w, failed) /\ log' = log
      BY <1>7, <2>1 DEF emit
    <3> QED BY <1>4, <1>7, <2>1, <3>1
  <2>2. CASE ~expired
    <3> DEFINE next == [done EXCEPT !.sequence = @ + 1]
               e == [type |-> type, sequence |-> worker[w].sequence]
    <3>1. set(w, next) /\ log' = Append(log, e)
      BY <1>0, <1>7, <2>2 DEF emit
    <3>2. e.type = type
      OBVIOUS
    <3>3. /\ next.draining = worker[w].draining /\ next.reason = worker[w].reason
          /\ next.error = worker[w].error /\ next.sequence = worker[w].sequence + 1
          /\ next.phase = done.phase
      BY <1>7 DEF WorkerState
    <3> HIDE DEF next, e
    <3>4. /\ Outcome => Outcome'
          /\ type \in Terminal => Outcome'
      BY <3>1, <3>2, OutcomeStays
    <3>5. Len(log') = Len(log) + 1
      BY <3>1 DEF TypeInvariant
    <3>6. worker'[w] = next
      BY <1>0, <3>1 DEF set
    <3>7. worker[w].phase \in RunPhase
      BY <1>7 DEF hasRun
    <3>8. ~Outcome => worker[w].sequence = Len(log)
      BY <1>1, <2>2, <3>7
    <3>9. ~Outcome' => next.phase \in Untold /\ next.sequence = Len(log')
      BY <1>7, <3>3, <3>4, <3>5, <3>8
    <3>10. /\ ~next.draining /\ next.reason \in {None, "requested"} /\ next.reason # "deadline"
           /\ next.error \in {None, "final"} /\ next.error \notin {"retryable", "lease-lost"}
      BY <1>1, <2>2, <3>3, <3>7
    <3> QED BY <1>3, <3>6, <3>9, <3>10 DEF CalmRun, hasRun
  <2> QED BY <2>1, <2>2
<1>8. \A p : LET s == [worker[w] EXCEPT !.phase = p]
             IN  /\ s.draining = worker[w].draining /\ s.reason = worker[w].reason
                 /\ s.error = worker[w].error /\ s.sequence = worker[w].sequence /\ s.phase = p
  BY <1>0 DEF WorkerState
<1>9. \A e : LET s == thrown(w, e)
             IN  /\ s.draining = worker[w].draining /\ s.reason = worker[w].reason
                 /\ s.error = e /\ s.sequence = worker[w].sequence /\ s.phase = "failed"
  BY <1>0 DEF thrown, WorkerState
<1>10. /\ fatal(w).draining = worker[w].draining /\ fatal(w).reason = worker[w].reason
       /\ fatal(w).error = "fatal"
  BY <1>0 DEF fatal, WorkerState
<1>11. NoneAssumption
  BY NoneAssumption
<1>12. hasRun(w) => /\ ~worker[w].draining /\ worker[w].reason \in {None, "requested", "deadline"}
                    /\ worker[w].error \notin {"retryable", "lease-lost"}
                    /\ ~expired => worker[w].error \in {None, "final"}
                    /\ ~expired => worker[w].reason # "deadline"
  BY <1>1 DEF hasRun
<1>13. hasRun(w) => \A e \in {"final", "unstarted"} :
           (expired \/ e = "final") => calm(thrown(w, e))
  BY <1>9, <1>12
<1>14. hasRun(w) => (expired => calm(fatal(w)))
  BY <1>10, <1>12
<1>20. CASE Deliver(w) \/ Open(w)
  <2>1. log' = log
    BY <1>20 DEF Deliver, Open
  <2>2. \/ \E n : set(w, [worker[w] EXCEPT !.phase = "delivered", !.deliveryCount = n])
        \/ set(w, [worker[w] EXCEPT !.phase = "opened"])
        \/ set(w, Idle)
    BY <1>0, <1>20 DEF Deliver, Open, goto, ack
  <2>3. ASSUME NEW n,
               set(w, [worker[w] EXCEPT !.phase = "delivered", !.deliveryCount = n])
        PROVE  CalmRun(w)'
    <3> DEFINE s == [worker[w] EXCEPT !.phase = "delivered", !.deliveryCount = n]
    <3>1. s.draining = worker[w].draining /\ s.phase \notin RunPhase
      BY <1>0 DEF WorkerState, RunPhase
    <3> HIDE DEF s
    <3>2. calm(s) /\ told(s)
      BY <1>1, <3>1
    <3>3. set(w, s)
      BY <2>3 DEF s
    <3> HIDE DEF calm, told
    <3> QED BY <1>4, <2>1, <3>2, <3>3
  <2>4. CASE set(w, [worker[w] EXCEPT !.phase = "opened"])
    <3> DEFINE s == [worker[w] EXCEPT !.phase = "opened"]
    <3>1. s.draining = worker[w].draining /\ s.phase \notin RunPhase
      BY <1>0 DEF WorkerState, RunPhase
    <3> HIDE DEF s
    <3>2. calm(s) /\ told(s)
      BY <1>1, <3>1
    <3>3. set(w, s)
      BY <2>4 DEF s
    <3> HIDE DEF calm, told
    <3> QED BY <1>4, <2>1, <3>2, <3>3
  <2>5. CASE set(w, Idle)
    <3> HIDE DEF calm, told
    <3> QED BY <1>4, <1>5, <2>1, <2>5
  <2> QED BY <2>2, <2>3, <2>4, <2>5
<1>21. CASE AcquireLease(w)
  <2>1. log' = log
    BY <1>21 DEF AcquireLease
  <2> DEFINE reason == IF expired THEN "deadline" ELSE None
             made == [worker[w] EXCEPT !.phase = "starting", !.sequence = 0, !.error = None,
                                       !.reason = reason]
             down == [Idle EXCEPT !.phase = "down"]
  <2>2. (set(w, made) /\ lease = None) \/ set(w, Idle) \/ set(w, down)
    BY <1>0, <1>21 DEF AcquireLease
  <2>3. /\ made.phase = "starting" /\ made.sequence = 0 /\ made.error = None
        /\ made.reason = reason /\ made.draining = worker[w].draining
    <3> HIDE DEF reason
    <3> QED BY <1>0 DEF WorkerState
  <2>4. /\ reason \in {None, "deadline"} /\ (~expired => reason = None) /\ None # "deadline"
        /\ None \notin {"retryable", "lease-lost"} /\ "starting" \in Untold
    <3>1. None \notin {"retryable", "lease-lost"}
      BY NoneAssumption DEF Untold, Reason
    <3> QED BY <3>1, NoneAssumption DEF Reason, Untold
  <2>5. CASE set(w, made) /\ lease = None
    <3>1. ~expired /\ ~Outcome => Len(log) = 0
      BY <2>5 DEF Calm
    <3> HIDE DEF made, reason
    <3>2. calm(made) /\ told(made)
      BY <1>1, <2>3, <2>4, <3>1
    <3> HIDE DEF calm, told
    <3> QED BY <1>4, <2>1, <2>5, <3>2
  <2>6. CASE set(w, Idle) \/ set(w, down)
    <3>1. calm(Idle) /\ told(Idle) /\ calm(down) /\ told(down)
      BY <1>5
    <3> HIDE DEF calm, told, down
    <3> QED BY <1>4, <2>1, <2>6, <3>1
  <2> HIDE DEF made, down
  <2> QED BY <2>2, <2>5, <2>6
<1>22. CASE EmitStarted(w)
  <2>1. hasRun(w)
    BY <1>22 DEF EmitStarted, hasRun, RunPhase
  <2>2. emit(w, "started", [worker[w] EXCEPT !.phase = "running"], thrown(w, "unstarted"))
    BY <1>22 DEF EmitStarted
  <2>3. "running" \in RunPhase /\ "running" \in Untold /\ "unstarted" \in {"unstarted", "final"}
    BY DEF RunPhase, Untold
  <2>4. expired => calm(thrown(w, "unstarted"))
    BY <1>13, <2>1
  <2> DEFINE s == [worker[w] EXCEPT !.phase = "running"]
             t == thrown(w, "unstarted")
  <2>5. s \in WorkerState /\ t \in WorkerState /\ emit(w, "started", s, t)
    BY <1>6, <2>2, <2>3
  <2>6. /\ s.draining = worker[w].draining /\ s.reason = worker[w].reason
        /\ s.error = worker[w].error /\ s.sequence = worker[w].sequence /\ s.phase \in Untold
    BY <1>8, <2>3
  <2>7. expired => calm(t)
    BY <2>4
  <2> HIDE DEF s, t, calm, told
  <2> QED BY <1>7, <2>1, <2>5, <2>6, <2>7
<1>23. CASE Heartbeat(w) \/ Progress(w)
  <2>1. hasRun(w) /\ lease = w
    BY <1>2, <1>23 DEF Heartbeat, Progress, hasRun, RunPhase, BeatingPhase
  <2>2. PICK failed \in {worker[w], thrown(w, "final")} : emit(w, "report", worker[w], failed)
    BY <1>23, <2>1 DEF Heartbeat, Progress
  <2>3. failed \in WorkerState /\ calm(failed)
    BY <1>0, <1>1, <1>6, <1>13, <2>1, <2>2
  <2>4. expired \/ worker[w].phase \in Untold \/ Outcome
    BY <1>1, <2>1 DEF hasRun
  <2>5. CASE expired
    <3>1. set(w, failed) /\ log' = log
      BY <2>2, <2>5 DEF emit
    <3> QED BY <1>4, <2>3, <2>5, <3>1
  <2>6. CASE ~expired
    <3> HIDE DEF calm, told
    <3> QED BY <1>0, <1>7, <2>1, <2>2, <2>3, <2>4, <2>6
  <2> QED BY <2>5, <2>6
<1>24. CASE EmitSucceeded(w)
  <2> DEFINE s == [worker[w] EXCEPT !.phase = "acking"]
             t == thrown(w, "final")
  <2>1. hasRun(w) /\ "acking" \in RunPhase /\ "succeeded" \in Terminal
    BY <1>24 DEF EmitSucceeded, hasRun, RunPhase, Terminal
  <2>2. s \in WorkerState /\ t \in WorkerState /\ emit(w, "succeeded", s, t)
    BY <1>6, <1>24, <2>1 DEF EmitSucceeded
  <2>3. /\ s.draining = worker[w].draining /\ s.reason = worker[w].reason
        /\ s.error = worker[w].error /\ s.sequence = worker[w].sequence
    BY <1>8
  <2>4. calm(t)
    BY <1>13, <2>1
  <2> HIDE DEF s, t, calm, told
  <2> QED BY <1>7, <2>1, <2>2, <2>3, <2>4
<1>25. CASE HandleError(w)
  <2>1. hasRun(w)
    BY <1>25 DEF HandleError, hasRun, RunPhase
  <2>2. /\ worker[w].reason \notin {"shutdown", "lease-lost"}
        /\ worker[w].error \notin {"retryable", "lease-lost"}
    BY <1>12, <2>1, NoneAssumption DEF Reason
  <2> DEFINE s == [worker[w] EXCEPT !.phase = "settling"]
             t == fatal(w)
  <2>3. PICK type \in {"cancelled", "failed"} : emit(w, type, s, t)
    BY <1>25, <2>2 DEF HandleError
  <2>4. type \in Terminal /\ "settling" \in RunPhase
    BY DEF Terminal, RunPhase
  <2>5. s \in WorkerState /\ t \in WorkerState
    BY <1>6, <2>4
  <2>6. /\ s.draining = worker[w].draining /\ s.reason = worker[w].reason
        /\ s.error = worker[w].error /\ s.sequence = worker[w].sequence
    BY <1>8
  <2>7. expired => calm(t)
    BY <1>14, <2>1
  <2> HIDE DEF s, t, calm, told
  <2> QED BY <1>7, <2>1, <2>3, <2>4, <2>5, <2>6, <2>7
<1>26. CASE AckSucceeded(w) \/ AckFailed(w)
  <2> DEFINE s == [worker[w] EXCEPT !.phase = "releasing"]
  <2>1. hasRun(w) /\ worker[w].phase \notin Untold
    BY <1>26 DEF AckSucceeded, AckFailed, hasRun, RunPhase, Untold
  <2>2. set(w, s) /\ log' = log
    BY <1>0, <1>26 DEF AckSucceeded, AckFailed, ack
  <2>3. /\ s.draining = worker[w].draining /\ s.reason = worker[w].reason
        /\ s.error = worker[w].error
    BY <1>8
  <2> HIDE DEF s
  <2>4. calm(s) /\ told(s)
    BY <1>1, <1>12, <2>1, <2>3 DEF hasRun
  <2> HIDE DEF calm, told
  <2> QED BY <1>4, <2>2, <2>4
<1>27. CASE Finish(w) \/ ExecutorFails(w)
  <2>1. hasRun(w) /\ lease = w /\ log' = log
    BY <1>2, <1>27 DEF Finish, ExecutorFails, hasRun, RunPhase
  <2> DEFINE s == [worker[w] EXCEPT !.phase = "closing"]
             t == thrown(w, "final")
  <2>2. set(w, s) \/ set(w, t)
    BY <1>0, <1>27, <2>1 DEF Finish, ExecutorFails
  <2>3. /\ s.draining = worker[w].draining /\ s.reason = worker[w].reason
        /\ s.error = worker[w].error /\ s.sequence = worker[w].sequence /\ s.phase = "closing"
    BY <1>8
  <2>4. /\ t.draining = worker[w].draining /\ t.sequence = worker[w].sequence
        /\ t.phase = "failed"
    BY <1>9
  <2>5. calm(t)
    BY <1>13, <2>1
  <2>6. "closing" \in Untold /\ "failed" \in Untold
    BY DEF Untold
  <2> HIDE DEF s, t
  <2>7. calm(s) /\ told(s) /\ told(t)
    BY <1>1, <1>12, <2>1, <2>3, <2>4, <2>6 DEF hasRun
  <2> HIDE DEF calm, told
  <2> QED BY <1>4, <2>1, <2>2, <2>5, <2>7
<1>28. CASE Release(w) \/ Crash(w) \/ Restart(w)
  <2> DEFINE down == [Idle EXCEPT !.phase = "down"]
  <2>1. log' = log /\ (set(w, Idle) \/ set(w, down))
    BY <1>28 DEF Release, Crash, Restart
  <2>2. calm(Idle) /\ told(Idle) /\ calm(down) /\ told(down)
    BY <1>5
  <2> HIDE DEF calm, told, down
  <2> QED BY <1>4, <2>1, <2>2
<1>29. CASE HandleControl(w) \/ DeadlineTimer(w)
  <2>1. PICK r \in {"requested", "deadline"} :
            set(w, cancelled(w, r)) /\ (r = "deadline" => expired)
    BY <1>29 DEF HandleControl, DeadlineTimer
  <2>2. log' = log
    BY <1>29 DEF HandleControl, DeadlineTimer
  <2> DEFINE s == cancelled(w, r)
  <2>3. /\ s.draining = worker[w].draining /\ s.phase = worker[w].phase
        /\ s.error = worker[w].error /\ s.sequence = worker[w].sequence
        /\ s.reason \in {worker[w].reason, r}
    BY <1>0 DEF cancelled, WorkerState
  <2> HIDE DEF s
  <2>4. calm(s) /\ told(s)
    BY <1>1, <2>1, <2>3
  <2>5. set(w, s)
    BY <2>1 DEF s
  <2> HIDE DEF calm, told
  <2> QED BY <1>4, <2>2, <2>4, <2>5
<1>30. CASE Stop(w)
  BY <1>0, <1>30 DEF Stop
<1> QED BY <1>20, <1>21, <1>22, <1>23, <1>24, <1>25, <1>26, <1>27, <1>28, <1>29, <1>30
        DEF WorkerStep, WorkerEvent

\* Calm steps of a worker leave every run calm, and at most one of them exists.
LEMMA CalmWorker ==
    ASSUME TypeInvariant, UnlapsedRunHoldsLease, Calm, NEW w \in Worker,
           WorkerStep(w) \/ WorkerEvent(w), budget' = budget
    PROVE  Calm'
<1>0. /\ worker \in [Worker -> WorkerState] /\ log \in Seq(Event) /\ Len(log) \in Nat
      /\ ~disturb /\ budget \in Nat /\ expired \in BOOLEAN
  BY DEF TypeInvariant, disturb
<1>1. \A v \in Worker : hasRun(v) => lease = v
  BY DEF Calm, UnlapsedRunHoldsLease
<1>2. expired' = expired
  BY DEF WorkerStep, WorkerEvent, Deliver, Open, AcquireLease, EmitStarted, Heartbeat,
     Progress, Finish, ExecutorFails, EmitSucceeded, AckSucceeded, HandleError, AckFailed,
     Release, HandleControl, DeadlineTimer, Stop, Crash, Restart, unchangedByRun
<1>3. \A v \in Worker \ {w} : worker'[v] = worker[v]
  BY Numbering
<1>4. \/ log' = log
      \/ \E e \in Event : /\ log' = Append(log, e) /\ e.sequence = worker[w].sequence
                          /\ hasRun(w) /\ ~expired
  BY Numbering, OnlyRunsTell
<1>5. Outcome => Outcome'
  BY <1>4, OutcomeStays
<1>6. ASSUME NEW v \in Worker PROVE CalmRun(v)'
  <2>1. CASE v = w
    BY <2>1, CalmRunStep
  <2>2. CASE v # w
    <3>1. CalmRun(v) /\ worker'[v] = worker[v]
      BY <1>3, <2>2 DEF Calm
    <3>2. CASE ~hasRun(v)
      BY <3>1, <3>2 DEF CalmRun, hasRun
    <3>3. CASE hasRun(v)
      <4>1. log' = log
        BY <1>1, <1>4, <2>2, <3>3
      <4>2. Outcome' <=> Outcome
        BY <4>1 DEF Outcome
      <4> QED BY <1>2, <3>1, <4>1, <4>2 DEF CalmRun, hasRun
    <3> QED BY <3>2, <3>3
  <2> QED BY <2>1, <2>2
<1>7. lapsed' = {} /\ lease' # Orphan /\ (lease' = None => log' = log /\ (lease = None \/ Release(w)))
  <2>1. CASE AcquireLease(w)
    BY <1>0, <2>1, JobAssumption DEF AcquireLease, Calm
  <2>2. CASE Release(w) \/ Crash(w)
    <3>1. ~Crash(w)
      BY <1>0 DEF Crash, Calm, CalmRun
    <3> QED BY <1>0, <2>2, <3>1, JobAssumption DEF Release, Calm
  <2>3. CASE ~AcquireLease(w) /\ ~Release(w) /\ ~Crash(w)
    <3>1. UNCHANGED <<lease, lapsed>>
      BY <2>3 DEF WorkerStep, WorkerEvent, Deliver, Open, EmitStarted, Heartbeat, Progress,
         Finish, ExecutorFails, EmitSucceeded, AckSucceeded, HandleError, AckFailed,
         HandleControl, DeadlineTimer, Stop, Restart, unchangedByRun
    <3>2. lease = None => ~hasRun(w)
      BY <1>1, JobAssumption
    <3> QED BY <1>4, <3>1, <3>2 DEF Calm
  <2> QED BY <2>1, <2>2, <2>3
<1>8. ~expired' /\ ~Outcome' /\ lease' = None => log' = <<>>
  <2>1. Release(w) => expired \/ Outcome
    <3>1. "releasing" \in RunPhase /\ "releasing" \notin Untold
      BY DEF RunPhase, Untold
    <3> QED BY <3>1 DEF Release, Calm, CalmRun, hasRun
  <2> QED BY <1>2, <1>5, <1>7, <2>1 DEF Calm
<1>9. \/ ~Outcome' /\ NumberedByPlace(Len(log))'
      \/ \E f \in 1..Len(log') : FirstOutcome(f)'
  <2>1. CASE log' = log
    <3>1. (Outcome' <=> Outcome) /\ (NumberedByPlace(Len(log))' <=> NumberedByPlace(Len(log)))
      BY <2>1 DEF Outcome, NumberedByPlace
    <3>2. \A f : FirstOutcome(f)' <=> FirstOutcome(f)
      BY <2>1 DEF FirstOutcome, NumberedByPlace
    <3> QED BY <2>1, <3>1, <3>2 DEF Calm
  <2>2. ASSUME NEW e \in Event, log' = Append(log, e), e.sequence = worker[w].sequence,
               hasRun(w), ~expired
        PROVE  \/ ~Outcome' /\ NumberedByPlace(Len(log))'
               \/ \E f \in 1..Len(log') : FirstOutcome(f)'
    <3>1. /\ Len(log') = Len(log) + 1 /\ log'[Len(log) + 1] = e
          /\ \A i \in 1..Len(log) : log'[i] = log[i]
      BY <1>0, <2>2
    <3>2. CASE ~Outcome
      <4>1. worker[w].sequence = Len(log) /\ NumberedByPlace(Len(log))
        <5>1. worker[w].sequence = Len(log)
          BY <2>2, <3>2 DEF Calm, CalmRun
        <5>2. ~\E f \in 1..Len(log) : FirstOutcome(f)
          BY <3>2 DEF FirstOutcome, Outcome
        <5> QED BY <5>1, <5>2 DEF Calm
      <4>2. NumberedByPlace(Len(log))'
        BY <1>0, <2>2, <3>1, <4>1 DEF NumberedByPlace
      <4>3. CASE e.type \in Terminal
        <5>1. PICK f : f = Len(log) + 1
          OBVIOUS
        <5>2. f \in 1..Len(log') /\ f - 1 = Len(log) /\ log'[f] = e
          BY <1>0, <3>1, <5>1
        <5>3. \A i \in 1..(f - 1) : log'[i].type \notin Terminal
          BY <3>1, <3>2, <5>2 DEF Outcome
        <5>4. \A i \in 1..f : log'[i].sequence = i - 1
          BY <1>0, <3>1, <4>2, <5>1 DEF NumberedByPlace
        <5>5. FirstOutcome(f)'
          BY <4>3, <5>2, <5>3, <5>4 DEF FirstOutcome, NumberedByPlace
        <5> QED BY <5>2, <5>5
      <4>4. CASE e.type \notin Terminal
        <5>1. ~Outcome'
          BY <1>0, <3>1, <3>2, <4>4 DEF Outcome
        <5> QED BY <4>2, <5>1
      <4> QED BY <4>3, <4>4
    <3>3. CASE Outcome
      <4>1. PICK f \in 1..Len(log) : FirstOutcome(f)
        BY <3>3 DEF Calm
      <4>2. f \in 1..Len(log') /\ \A i \in 1..f : i \in 1..Len(log) /\ log'[i] = log[i]
        BY <1>0, <3>1
      <4>3. f \in 1..f /\ \A i \in 1..(f - 1) : i \in 1..f
        BY <1>0
      <4>4. log'[f].type \in Terminal /\ \A i \in 1..(f - 1) : log'[i].type \notin Terminal
        BY <4>1, <4>2, <4>3 DEF FirstOutcome
      <4>5. \A i \in 1..f : log'[i].sequence = i - 1
        BY <4>1, <4>2 DEF FirstOutcome, NumberedByPlace
      <4>6. FirstOutcome(f)'
        BY <4>4, <4>5 DEF FirstOutcome, NumberedByPlace
      <4> QED BY <4>2, <4>6
    <3> QED BY <3>2, <3>3
  <2> QED BY <1>4, <2>1, <2>2
<1> QED BY <1>6, <1>7, <1>8, <1>9 DEF Calm

LEMMA UndisturbedStep ==
    /\ TypeInvariant
    /\ UnlapsedRunHoldsLease
    /\ Undisturbed
    /\ [Next]_vars
    => Undisturbed'
<1> SUFFICES ASSUME TypeInvariant, UnlapsedRunHoldsLease, Undisturbed, [Next]_vars
             PROVE  Undisturbed'
  OBVIOUS
<1>0. budget \in Nat /\ MaxDisturbances \in Nat
  BY JobAssumption DEF TypeInvariant
<1>1. budget' = budget \/ budget' = budget - 1
  <2>1. CASE \E w \in Worker : WorkerStep(w) \/ WorkerEvent(w)
    BY <2>1 DEF WorkerStep, WorkerEvent, Deliver, Open, AcquireLease, EmitStarted, Heartbeat,
       Progress, Finish, ExecutorFails, EmitSucceeded, AckSucceeded, HandleError, AckFailed,
       Release, HandleControl, DeadlineTimer, Stop, Crash, Restart, unchangedByRun, disturb,
       emit, ack, goto
  <2>2. CASE \E c \in Caller : CallerStep(c)
    BY <2>2 DEF CallerStep, Join, Consume, NoticeCancel, Timeout, Abort
  <2>3. CASE LeaseExpires \/ Deadline \/ UNCHANGED vars
    BY <2>3 DEF LeaseExpires, Deadline, vars, disturb
  <2> QED BY <2>1, <2>2, <2>3 DEF Next
<1>2. CASE budget' # MaxDisturbances
  BY <1>0, <1>1, <1>2 DEF Undisturbed
<1>3. CASE budget' = MaxDisturbances
  <2>1. budget' = budget /\ Calm /\ ~disturb
    BY <1>0, <1>1, <1>3 DEF Undisturbed, disturb
  <2>2. CASE \E w \in Worker : WorkerStep(w) \/ WorkerEvent(w)
    BY <1>0, <1>3, <2>1, <2>2, CalmWorker DEF Undisturbed
  <2>3. CASE (\E c \in Caller : CallerStep(c)) \/ UNCHANGED vars
    <3>1. UNCHANGED <<lease, worker, log, expired, lapsed>>
      BY <2>3 DEF CallerStep, Join, Consume, NoticeCancel, Timeout, Abort, vars
    <3>2. Calm'
      BY <2>1, <3>1 DEF Calm, CalmRun, hasRun, Outcome, NumberedByPlace, FirstOutcome
    <3> QED BY <1>0, <1>3, <3>2 DEF Undisturbed
  <2>4. ~LeaseExpires
    BY <2>1 DEF LeaseExpires, Calm
  <2>5. CASE Deadline
    <3>1. expired' /\ UNCHANGED <<lease, worker, log, lapsed>>
      BY <2>5 DEF Deadline
    <3>2. Calm'
      BY <2>1, <3>1 DEF Calm, CalmRun, hasRun, Outcome, NumberedByPlace, FirstOutcome
    <3> QED BY <1>0, <1>3, <3>2 DEF Undisturbed
  <2> QED BY <2>2, <2>3, <2>4, <2>5 DEF Next
<1> QED BY <1>2, <1>3

\* A request that replays a job nobody disturbed never passes over its outcome,
\* whatever a late heartbeat or a further attempt tells after it.
THEOREM OutcomesAreHeard == Spec => []QuietOutcomeIsHeard
<1>1. Init => Gapless /\ FirstToldOnly
  BY NoneAssumption DEF Init, Gapless, NoSequenceGap, Told, FirstToldOnly, Absent, Idle
<1>2. Init => Undisturbed
  <2> SUFFICES ASSUME Init PROVE Undisturbed
    OBVIOUS
  <2>1. \A w \in Worker : CalmRun(w)
    BY DEF Init, CalmRun, Idle, hasRun, RunPhase
  <2>2. ~Outcome /\ NumberedByPlace(Len(log))
    BY DEF Init, Outcome, NumberedByPlace
  <2> QED BY <2>1, <2>2, JobAssumption DEF Init, Undisturbed, Calm
<1>3. TypeInvariant /\ Gapless /\ FirstToldOnly /\ Undisturbed => QuietOutcomeIsHeard
  <2> SUFFICES ASSUME TypeInvariant, Gapless, FirstToldOnly, Undisturbed,
                      budget = MaxDisturbances, NEW c \in Caller,
                      caller[c].phase = "waiting", ~caller[c].after,
                      NEW i \in 1..caller[c].position, log[i].type \in Terminal
               PROVE  FALSE
    BY DEF QuietOutcomeIsHeard
  <2>1. /\ Len(log) \in Nat /\ caller[c].position \in Nat /\ caller[c].cursor \in Int
        /\ caller[c].position <= Len(log)
        /\ \A k \in 1..caller[c].position : log[k].sequence <= caller[c].cursor
    BY DEF TypeInvariant, Request, Gapless
  <2>2. PICK f \in 1..Len(log) : FirstOutcome(f)
    <3>1. Outcome
      BY <2>1 DEF Outcome
    <3> QED BY <3>1 DEF Undisturbed, Calm
  <2>3. f <= i
    BY <2>1, <2>2 DEF FirstOutcome
  <2>4. log[f].sequence = f - 1 /\ f - 1 \in 0..caller[c].cursor
    BY <2>1, <2>2, <2>3 DEF FirstOutcome, NumberedByPlace
  <2>5. PICK t : FirstIs(f - 1, t) /\ t \notin Terminal
    BY <2>4 DEF FirstToldOnly, Ongoing
  <2>6. FirstIs(f - 1, log[f].type)
    BY <2>1, <2>2, <2>4 DEF FirstIs, FirstOutcome, NumberedByPlace
  <2>7. t = log[f].type
    BY <2>5, <2>6, FirstUnique
  <2> QED BY <2>2, <2>5, <2>7 DEF FirstOutcome
<1> QED BY <1>1, <1>2, <1>3, UndisturbedStep, LeaseExclusive, AgreeingStep, GaplessStep,
           TypeCorrect, PTL DEF Spec

----------------------------------------------------------------------------
(* The replicas of the API.                                                *)

\* The rows of the table are the first files of the release, or all of them.
migrated(n) ==
    /\ Len(files(n)) <= Len(applied)
    /\ \A v \in 1..Len(files(n)) : applied[v] = files(n)[v]

inside(x) == x.at \in {"reading", "running", "committing", "unlocking"}

\* Who migrates holds the lock, so that nobody else adds a row meanwhile.
MigrationOK(n) ==
    LET x == migrator[n] IN
    /\ inside(x) => lock = n
    /\ x.at \in {"running", "committing"} => x.running = Len(applied) + 1 /\ ~foreign(n)
    /\ x.at = "committing" => x.running <= Len(files(n))
    /\ x.result = "applied" => migrated(n)
    /\ x.result = "failed" => faults < scenario.faults \/ foreign(n)

MigrationsOK ==
    /\ faults <= scenario.faults
    /\ \A n \in Replica : MigrationOK(n)

\* What is said to be ready was initialised.
InitialisedOK(n) ==
    probed = {} =>
        /\ state[n] = "ready" => \A d \in Dependency : dependencies[n][d] = "ready"
        /\ aim[n] \in {"open", "draining"} =>
              /\ \A d \in Dependency : dependencies[n][d] = "ready" => d \in held[n]
              /\ dependencies[n]["postgres"] = "ready" => migrated(n)
              /\ (\A d \in Dependency : dependencies[n][d] = "ready") => "policy" \in held[n]

\* Where the process is, its shutdown, its server and its clean-up agree.
ProcessOK(n) ==
    /\ aim[n] = "open" <=> state[n] \in {"starting", "ready", "degraded"}
    /\ at[n] \in {"postgres", "redis", "starting"} => aim[n] = "open"
    /\ at[n] = "down" => aim[n] \in {"open", "over"}
    /\ aim[n] = "over" => at[n] = "down"
    /\ at[n] \in {"down", "postgres"} /\ aim[n] = "open" =>
          \A d \in Dependency : dependencies[n][d] = "unavailable"
    /\ at[n] = "postgres" =>
          "postgres" \in held[n] \/ (migrator[n].at = "ended" /\ migrator[n].result = "none")
    /\ at[n] = "redis" => dependencies[n]["redis"] = "unavailable"
    /\ served[n].server # "absent" => at[n] = "serving"
    /\ served[n].server = "open" => aim[n] = "open"
    /\ served[n].server \in {"absent", "closed"} => served[n].inFlight = 0
    /\ aim[n] = "cleaning" => report[n].drain = "timed-out" \/ served[n].server = "closed"
    /\ aim[n] \in {"open", "draining"} => cleaning[n].begun = 0
    /\ aim[n] = "cleaning" /\ faults = scenario.faults /\ "policy" \in held[n] =>
          "policy" \in cleaning[n].left

\* A probing request hears of every dependency that is found ready.
QueryOK(q) ==
    LET x == query[q] IN
    /\ x.at # "answered" => x.answer = "none"
    /\ x.answer = "ready" => probed \subseteq x.heard
    /\ x.at = "probing" =>
          /\ x.by \in Replica /\ at[x.by] = "serving"
          /\ x.waits \subseteq probed
          /\ \A d \in probed \ x.waits : dependencies[x.by][d] = "ready" => d \in x.heard

IInv ==
    /\ TypeOK
    /\ MigrationsOK
    /\ \A n \in Replica : InitialisedOK(n) /\ ProcessOK(n)
    /\ \A q \in Query : QueryOK(q)

-----------------------------------------------------------------------------
(* What a step of replica n leaves the other replicas.                     *)

\* Rows are only added.
Grows ==
    /\ Len(applied) <= Len(applied')
    /\ \A v \in 1..Len(applied) : applied'[v] = applied[v]

\* Only who holds the lock adds rows, and nobody takes it from another one.
DatabaseStep(n) ==
    /\ Grows
    /\ lock # n => applied' = applied
    /\ \A m \in Replica \ {n} : lock = m => lock' = m
    /\ faults' <= faults
    /\ UNCHANGED <<probed, scenario>>

Untouched(m) ==
    /\ release'[m] = release[m] /\ migrator'[m] = migrator[m]
    /\ state'[m] = state[m] /\ dependencies'[m] = dependencies[m]
    /\ aim'[m] = aim[m] /\ report'[m] = report[m]
    /\ at'[m] = at[m] /\ held'[m] = held[m] /\ served'[m] = served[m]
    /\ cleaning'[m] = cleaning[m]

StepOf(n) ==
    /\ DatabaseStep(n)
    /\ \A m \in Replica \ {n} : Untouched(m)

PartOK(n) == MigrationOK(n) /\ InitialisedOK(n) /\ ProcessOK(n)

(* Rows that are added keep a migrated schema migrated, and a foreign row  *)
(* foreign: the code never deletes a row of the table.                     *)
LEMMA GrowingKeeps ==
    ASSUME TypeOK, TypeOK', Grows, NEW n \in Replica, release'[n] = release[n]
    PROVE  (migrated(n) => migrated(n)') /\ (foreign(n) => foreign(n)')
<1> DEFINE fs == Files[release[n]]
<1>1. /\ applied \in Seq(Checksum) /\ applied' \in Seq(Checksum) /\ fs \in Seq(Checksum)
      /\ files(n) = fs /\ files(n)' = fs
  BY MigrationAssumption DEF TypeOK, MigrationTypeOK, files
<1>2. Len(applied) \in Nat /\ Len(applied') \in Nat /\ Len(fs) \in Nat
  BY <1>1
<1> HIDE DEF fs
<1>3. ASSUME migrated(n) PROVE migrated(n)'
  BY <1>1, <1>2, <1>3 DEF migrated, Grows
<1>4. ASSUME foreign(n) PROVE foreign(n)'
  BY <1>1, <1>2, <1>4 DEF foreign, Grows
<1> QED BY <1>3, <1>4

(* A replica keeps its part of the invariant through the steps of another  *)
(* one: the advisory lock of runPostgresMigrations is what protects its    *)
(* migrations.                                                             *)
LEMMA OthersKeep ==
    ASSUME IInv, TypeOK', NEW n \in Replica, StepOf(n), NEW m \in Replica \ {n}
    PROVE  PartOK(m)'
<1>1. Untouched(m) /\ MigrationOK(m) /\ MigrationOK(n) /\ InitialisedOK(m) /\ ProcessOK(m)
  BY DEF IInv, MigrationsOK, StepOf
<1>2. (migrated(m) => migrated(m)') /\ (foreign(m) => foreign(m)')
  BY <1>1, GrowingKeeps DEF Untouched, StepOf, DatabaseStep, IInv
<1>3. /\ faults \in Nat /\ faults' \in Nat /\ scenario.faults \in Nat
      /\ faults' <= faults /\ faults <= scenario.faults /\ scenario' = scenario
      /\ probed' = probed
  BY ReplicaAssumption DEF TypeOK, MigrationTypeOK, StepOf, DatabaseStep, IInv, MigrationsOK
<1>4. MigrationOK(m)'
  <2>1. inside(migrator[m]) => lock' = m /\ applied' = applied
    BY <1>1 DEF MigrationOK, StepOf, DatabaseStep
  <2>2. files(m)' = files(m) /\ migrator'[m] = migrator[m]
    BY <1>1 DEF files, Untouched
  <2>3. migrator[m].at \in {"running", "committing"} => inside(migrator[m])
    BY DEF inside
  <2>4. applied' = applied => (foreign(m)' <=> foreign(m))
    BY <2>2 DEF foreign
  <2>5. faults < scenario.faults => faults' < scenario'.faults
    BY <1>3
  <2>6. inside(migrator[m])' = inside(migrator[m])
    BY <2>2 DEF inside
  <2> QED BY <1>1, <1>2, <2>1, <2>2, <2>3, <2>4, <2>5, <2>6 DEF MigrationOK
<1>5. InitialisedOK(m)'
  BY <1>1, <1>2, <1>3 DEF InitialisedOK, Untouched
<1>6. ProcessOK(m)'
  BY <1>1, <1>3 DEF ProcessOK, Untouched
<1> QED BY <1>4, <1>5, <1>6 DEF PartOK

(* A step of one replica that keeps its own part keeps every part.         *)
LEMMA StepKeepsParts ==
    ASSUME IInv, TypeOK', NEW n \in Replica, StepOf(n), PartOK(n)'
    PROVE  MigrationsOK' /\ \A m \in Replica : InitialisedOK(m)' /\ ProcessOK(m)'
<1>1. \A m \in Replica : PartOK(m)'
  BY OthersKeep
<1>2. /\ faults \in Nat /\ faults' \in Nat /\ scenario.faults \in Nat
      /\ faults' <= faults /\ faults <= scenario.faults /\ scenario' = scenario
  BY ReplicaAssumption DEF TypeOK, MigrationTypeOK, StepOf, DatabaseStep, IInv, MigrationsOK
<1>3. faults' <= scenario'.faults
  BY <1>2
<1> QED BY <1>1, <1>3 DEF PartOK, MigrationsOK

(* Requests for readiness are left as they are by a step that keeps the    *)
(* replicas that serve as they are.                                        *)
LEMMA QueriesKept ==
    ASSUME IInv, UNCHANGED <<query, probed>>,
           \A m \in Replica : at[m] = "serving" =>
               at'[m] = "serving" /\ dependencies'[m] = dependencies[m]
    PROVE  \A q \in Query : QueryOK(q)'
<1> TAKE q \in Query
<1>1. QueryOK(q) /\ query'[q] = query[q] /\ probed' = probed
  BY DEF IInv
<1> QED BY <1>1 DEF QueryOK

-----------------------------------------------------------------------------
(* Types.                                                                  *)
Migrators == [
    at: {"idle", "locking", "reading", "running", "committing", "unlocking", "ended"},
    seen: Nat, running: Nat, result: {"none", "applied", "failed"}]
Aims == {"open", "draining", "cleaning", "over"}
Outcomes == {"none", "completed", "timed-out"}
Reports == [drain: Outcomes, stop: Outcomes]
Queries == [at: {"idle", "probing", "answered"}, by: Replica \cup {Nobody},
            waits: SUBSET Dependency, saw: SUBSET (Dependency \X Readiness),
            heard: SUBSET Dependency, answer: State \cup {"none"}]
Places == {"down", "postgres", "redis", "starting", "serving"}
Servers == [server: {"absent", "open", "closing", "closed"}, inFlight: Nat]
CleanUps == [left: SUBSET Resource, begun: 0..1]
Budgets == [deaths: Nat, outages: Nat, signals: Nat, requests: Nat]

Typed ==
    /\ applied \in Seq(Checksum)
    /\ lock \in Replica \cup {Nobody, "lost"}
    /\ release \in [Replica -> Releases]
    /\ migrator \in [Replica -> Migrators]
    /\ faults \in Nat
    /\ state \in [Replica -> State]
    /\ dependencies \in [Replica -> [Dependency -> Readiness]]
    /\ aim \in [Replica -> Aims]
    /\ report \in [Replica -> Reports]
    /\ query \in [Query -> Queries]
    /\ probed \subseteq Dependency
    /\ up \subseteq Dependency
    /\ scenario \in Scenario
    /\ at \in [Replica -> Places]
    /\ held \in [Replica -> SUBSET Resource]
    /\ served \in [Replica -> Servers]
    /\ cleaning \in [Replica -> CleanUps]
    /\ allowed \in Budgets

LEMMA TypedIsTypeOK == TypeOK <=> Typed
BY DEF TypeOK, MigrationTypeOK, LifecycleTypeOK, Typed, Migrators, Aims, Outcomes, Reports,
       Queries,
       Places, Servers, CleanUps, Budgets

LEMMA ConstantTypes ==
    ASSUME Typed
    PROVE  /\ Dependency = {"postgres", "redis"}
           /\ Resource = {"policy", "browsers", "redis", "postgres"}
           /\ scenario.faults \in Nat /\ scenario.urls \subseteq Dependency
           /\ scenario.upgrades \subseteq Releases /\ scenario.replicas \subseteq Replica
           /\ scenario.queries \subseteq Query
           /\ scenario.releases \in [Replica -> Releases]
           /\ scenario.deaths \in Nat /\ scenario.outages \in Nat
           /\ scenario.signals \in Nat /\ scenario.requests \in Nat
           /\ scenario.probed \subseteq Dependency
           /\ Nobody \notin Replica /\ "lost" \notin Replica
BY ReplicaAssumption, MigrationAssumption DEF Typed

LEMMA RecordTypes ==
    ASSUME Typed, NEW n \in Replica, NEW d \in Dependency, NEW s \in Readiness,
           recordDependency(n, d, s)
    PROVE  state' \in [Replica -> State] /\ dependencies' \in [Replica -> [Dependency -> Readiness]]
BY DEF recordDependency, applyDependencyState, nextOperationalState, Typed, State, Readiness

LEMMA SpendTypes ==
    ASSUME Typed, NEW what \in {"deaths", "outages", "signals", "requests"}, spend(what)
    PROVE  allowed' \in Budgets
BY DEF spend, Typed, Budgets

LEMMA BeginCleanUpTypes ==
    ASSUME Typed, NEW n \in Replica, cleaning[n].begun = 0, beginCleanUp(n)
    PROVE  cleaning' \in [Replica -> CleanUps]
BY DEF beginCleanUp, Typed, CleanUps


LEMMA MigrateTypes ==
    ASSUME Typed, NEW n \in Replica, MigrationOK(n), Migrate(n) PROVE Typed'
<1>1. /\ Files[release[n]] \in Seq(Checksum) /\ applied \in Seq(Checksum) /\ faults \in Nat
      /\ migrator[n] \in Migrators /\ migrator \in [Replica -> Migrators]
      /\ lock \in Replica \cup {Nobody, "lost"} /\ release \in [Replica -> Releases]
  BY MigrationAssumption DEF Typed
<1>2. migrator' \in [Replica -> Migrators]
  <2>1. Len(applied) + 1 \in Nat /\ migrator[n].running + 1 \in Nat
    BY <1>1 DEF Migrators
  <2>2. \/ \E to \in {"reading", "committing", "ended"} : goesTo(n, to)
        \/ throws(n)
        \/ migrator' = [migrator EXCEPT ![n].at = "ended", ![n].result = "failed"]
        \/ migrator' = [migrator EXCEPT ![n].at = "running", ![n].seen = Len(applied),
                                        ![n].running = Len(applied) + 1]
        \/ migrator' = [migrator EXCEPT ![n].at = "unlocking", ![n].result = "applied"]
        \/ migrator' = [migrator EXCEPT ![n].at = "running",
                                        ![n].running = migrator[n].running + 1]
    BY <1>1 DEF Migrate, MigrationStep, LockAnswered, ReadRows, RunNext, CommitAnswered, Unlock
  <2>3. ASSUME NEW to \in {"reading", "committing", "ended"}, goesTo(n, to)
        PROVE  migrator' \in [Replica -> Migrators]
    BY <1>1, <2>3 DEF goesTo, Migrators
  <2>4. CASE throws(n)
    BY <1>1, <2>4 DEF throws, Migrators
  <2>5. CASE migrator' = [migrator EXCEPT ![n].at = "ended", ![n].result = "failed"]
    BY <1>1, <2>5 DEF Migrators
  <2>6. CASE migrator' = [migrator EXCEPT ![n].at = "running", ![n].seen = Len(applied),
                                         ![n].running = Len(applied) + 1]
    <3>1. PICK v \in Nat, w \in Nat : v = Len(applied) /\ w = Len(applied) + 1
      BY <1>1, <2>1
    <3>2. migrator' = [migrator EXCEPT ![n].at = "running", ![n].seen = v, ![n].running = w]
      BY <2>6, <3>1
    <3> QED BY <1>1, <3>1, <3>2 DEF Migrators
  <2>7. CASE migrator' = [migrator EXCEPT ![n].at = "unlocking", ![n].result = "applied"]
    BY <1>1, <2>7 DEF Migrators
  <2>8. CASE migrator' = [migrator EXCEPT ![n].at = "running",
                                         ![n].running = migrator[n].running + 1]
    BY <1>1, <2>1, <2>8 DEF Migrators
  <2> QED BY <2>2, <2>3, <2>4, <2>5, <2>6, <2>7, <2>8
<1>3. lock' \in Replica \cup {Nobody, "lost"}
  BY <1>1 DEF Migrate, MigrationStep, LockAnswered, ReadRows, RunNext, CommitAnswered, Unlock,
              discarded
<1>4. faults' \in Nat
  BY <1>1 DEF Migrate, MigrationStep, LockAnswered, ReadRows, RunNext, CommitAnswered, Unlock,
              fault
<1>5. release' = release
  BY DEF Migrate, MigrationStep, LockAnswered, ReadRows, RunNext, CommitAnswered, Unlock
<1>6. applied' \in Seq(Checksum)
  <2>1. CASE UNCHANGED applied
    BY <1>1, <2>1
  <2>2. CASE migrator[n].at = "committing" /\ commits(n)
    <3>1. migrator[n].running \in 1..Len(Files[release[n]])
      BY <2>2, <1>1 DEF Migrators, MigrationOK, files, inside
    <3> QED BY <2>2, <3>1, <1>1 DEF commits, files
  <2> QED BY <2>1, <2>2
          DEF Migrate, MigrationStep, LockAnswered, ReadRows, RunNext, CommitAnswered, Unlock
<1> QED BY <1>1, <1>2, <1>3, <1>4, <1>5, <1>6 DEF Typed, Migrate, lifecycleVars, replicaVars

LEMMA StartProcessTypes ==
    ASSUME Typed, NEW n \in Replica, StartProcess(n) PROVE Typed'
<1>1. release' \in [Replica -> Releases]
  BY ConstantTypes DEF Typed, StartProcess
<1>2. migrator' \in [Replica -> Migrators]
  BY DEF Typed, StartProcess, NoMigrator, Migrators
<1>3. state' \in [Replica -> State]
  BY DEF Typed, StartProcess, forgets, State
<1>4. dependencies' \in [Replica -> [Dependency -> Readiness]]
  BY DEF Typed, StartProcess, forgets, Readiness
<1>5. aim' \in [Replica -> Aims]
  BY DEF Typed, StartProcess, forgets, Aims
<1>6. report' \in [Replica -> Reports]
  BY DEF Typed, StartProcess, forgets, NoReport, Outcomes, Reports
<1>7. cleaning' \in [Replica -> CleanUps]
  BY DEF Typed, StartProcess, forgets, NoCleaning, CleanUps
<1>8. at' \in [Replica -> Places]
  BY DEF Typed, StartProcess, Places
<1>9. held' \in [Replica -> SUBSET Resource]
  BY ConstantTypes DEF Typed, StartProcess
<1> QED BY <1>1, <1>2, <1>3, <1>4, <1>5, <1>6, <1>7, <1>8, <1>9
           DEF Typed, StartProcess, databaseVars

LEMMA PostgresReadyTypes ==
    ASSUME Typed, NEW n \in Replica, PostgresReady(n) PROVE Typed'
<1>1. "ready" \in Readiness /\ "unavailable" \in Readiness /\ "postgres" \in Dependency
  BY ReplicaAssumption DEF Readiness
<1>2. state' \in [Replica -> State] /\ dependencies' \in [Replica -> [Dependency -> Readiness]]
  BY <1>1, RecordTypes DEF PostgresReady, Typed
<1>3. held' \in [Replica -> SUBSET Resource]
  BY DEF PostgresReady, Typed
<1>4. at' \in [Replica -> Places]
  BY DEF PostgresReady, Typed, Places
<1> QED BY <1>2, <1>3, <1>4 DEF Typed, PostgresReady, migrationVars

LEMMA RedisReadyTypes ==
    ASSUME Typed, NEW n \in Replica, RedisReady(n) PROVE Typed'
<1>1. "ready" \in Readiness /\ "unavailable" \in Readiness /\ "redis" \in Dependency
  BY ReplicaAssumption DEF Readiness
<1>2. state' \in [Replica -> State] /\ dependencies' \in [Replica -> [Dependency -> Readiness]]
  BY <1>1, RecordTypes DEF RedisReady, Typed
<1>3. held' \in [Replica -> SUBSET Resource]
  BY ConstantTypes DEF RedisReady, Typed
<1>4. at' \in [Replica -> Places]
  BY DEF RedisReady, Typed, Places
<1>5. faults' \in Nat
  BY DEF RedisReady, Typed, fault
<1> QED BY <1>2, <1>3, <1>4, <1>5 DEF Typed, RedisReady, migrationVars

LEMMA ListenTypes ==
    ASSUME Typed, NEW n \in Replica, Listen(n) PROVE Typed'
<1>1. dependencies' \in [Replica -> [Dependency -> Readiness]]
  <2>1. \A d \in Dependency : probeSays(d) \in Readiness
    BY DEF probeSays, Readiness
  <2>2. CASE state[n] # "starting"
    BY <2>2 DEF Typed, Listen, startLifecycle
  <2>3. CASE state[n] = "starting"
    <3>1. PICK ds : /\ ds = [d \in Dependency |-> IF d \in probed THEN probeSays(d)
                                                 ELSE dependencies[n][d]]
                    /\ dependencies' = [dependencies EXCEPT ![n] = ds]
      BY <2>3 DEF Listen, startLifecycle
    <3>2. ds \in [Dependency -> Readiness]
      BY <2>1, <3>1 DEF Typed
    <3> QED BY <3>1, <3>2 DEF Typed
  <2> QED BY <2>2, <2>3
<1>2. state' \in [Replica -> State]
  BY DEF Typed, Listen, startLifecycle, nextOperationalState, State
<1>3. at' \in [Replica -> Places]
  BY DEF Typed, Listen, Places
<1>4. served' \in [Replica -> Servers]
  BY DEF Typed, Listen, Servers
<1> QED BY <1>1, <1>2, <1>3, <1>4 DEF Typed, Listen, migrationVars

LEMMA ArrivesTypes ==
    ASSUME Typed, NEW n \in Replica, Arrives(n) PROVE Typed'
<1>1. served' \in [Replica -> Servers]
  BY DEF Typed, Arrives, Servers
<1>2. allowed' \in Budgets
  BY SpendTypes DEF Typed, Arrives, Budgets
<1> QED BY <1>1, <1>2 DEF Typed, Arrives, migrationVars, lifecycleVars

LEMMA AnsweredTypes ==
    ASSUME Typed, NEW n \in Replica, Answered(n) PROVE Typed'
<1>1. served' \in [Replica -> Servers]
  <2>1. served[n].inFlight \in Nat /\ served[n].inFlight - 1 \in Nat
    BY DEF Typed, Answered, Servers
  <2> QED BY <2>1 DEF Typed, Answered, Servers
<1> QED BY <1>1 DEF Typed, Answered, migrationVars, lifecycleVars

LEMMA ReadyRequestTypes ==
    ASSUME Typed, \A q \in Query : QueryOK(q), ReadyRequest PROVE Typed'
<1>1. /\ state' \in [Replica -> State]
      /\ dependencies' \in [Replica -> [Dependency -> Readiness]]
      /\ query' \in [Query -> Queries]
  <2>1. ASSUME NEW q \in Query, NEW n \in Replica, AskReadiness(q, n)
        PROVE  query' \in [Query -> Queries]
    <3> DEFINE x == query'[q]
    <3>1. x \in Queries
      BY <2>1 DEF AskReadiness, NoQuery, Typed, State, Queries
    <3> QED BY <2>1, <3>1 DEF AskReadiness, Typed
  <2>2. ASSUME NEW q \in Query, NEW d \in Dependency, ProbeLooks(q, d)
        PROVE  query' \in [Query -> Queries]
    <3>1. <<d, probeSays(d)>> \in Dependency \X Readiness
      BY DEF probeSays, Readiness
    <3> HIDE DEF probeSays
    <3> DEFINE pair == <<d, probeSays(d)>>
    <3> HIDE DEF pair
    <3>2. query' = [query EXCEPT ![q].saw = @ \cup {pair}]
      BY <2>2 DEF ProbeLooks, pair
    <3>3. pair \in Dependency \X Readiness
      BY <3>1 DEF pair
    <3>4. query[q] \in Queries /\ query \in [Query -> Queries]
      BY DEF Typed
    <3>5. [query[q] EXCEPT !.saw = @ \cup {pair}] \in Queries
      <4>1. query[q].saw \cup {pair} \in SUBSET (Dependency \X Readiness)
        BY <3>3, <3>4 DEF Queries
      <4> QED BY <3>4, <4>1 DEF Queries
    <3> QED BY <3>2, <3>4, <3>5
  <2>3. ASSUME NEW q \in Query, NEW d \in Dependency, ProbeAnswers(q, d)
        PROVE  /\ query' \in [Query -> Queries]
               /\ dependencies' \in [Replica -> [Dependency -> Readiness]]
    <3>1. PICK status \in Readiness :
              /\ query' = [hearing(query[q].by, d, status) EXCEPT ![q].waits = @ \ {d}]
              /\ dependencies' = [dependencies EXCEPT ![query[q].by][d] = status]
      BY <2>3 DEF ProbeAnswers
    <3>2. hearing(query[q].by, d, status) \in [Query -> Queries]
      <4>1. ASSUME NEW x \in Query PROVE [query[x] EXCEPT !.heard = @ \cup {d}] \in Queries
        <5>1. query[x] \in Queries
          BY DEF Typed
        <5> QED BY <5>1 DEF Queries
      <4>2. \A x \in Query : query[x] \in Queries
        BY DEF Typed
      <4> QED BY <4>1, <4>2 DEF hearing
    <3>3. query' \in [Query -> Queries]
      BY <3>1, <3>2 DEF Queries
    <3> QED BY <3>1, <3>3 DEF Typed
  <2>4. ASSUME NEW q \in Query, AnswerReadiness(q)
        PROVE  query' \in [Query -> Queries] /\ state' \in [Replica -> State]
    <3> DEFINE s == applyDependencyState(query[q].by, dependencies[query[q].by])
    <3>1. PICK n \in Replica \cup {Nobody} : n = query[q].by
      BY DEF Typed, Queries
    <3>2. n \in Replica => s \in State
      BY <3>1 DEF applyDependencyState, nextOperationalState, State, Typed
    <3>3. n \in Replica
      BY <2>4, <3>1 DEF AnswerReadiness, QueryOK
    <3> HIDE DEF s
    <3>4. /\ query' = [query EXCEPT ![q].at = "answered", ![q].answer = s]
          /\ state' = [state EXCEPT ![n] = s]
      BY <2>4, <3>1 DEF AnswerReadiness, s
    <3>5. s \in State /\ query \in [Query -> Queries] /\ state \in [Replica -> State]
      BY <3>2, <3>3 DEF Typed
    <3>6. query[q] \in Queries
      BY <3>5
    <3>7. [query[q] EXCEPT !.at = "answered", !.answer = s] \in Queries
      BY <3>5, <3>6 DEF Queries
    <3>8. query' = [query EXCEPT ![q] = [query[q] EXCEPT !.at = "answered", !.answer = s]]
      BY <3>4, <3>5
    <3> QED BY <3>4, <3>5, <3>7, <3>8
  <2>5. ASSUME NEW q \in Query, NEW n \in Replica, AskReadiness(q, n)
        PROVE  state' = state /\ dependencies' = dependencies
    BY <2>5 DEF AskReadiness
  <2>6. ASSUME NEW q \in Query, NEW d \in Dependency, ProbeLooks(q, d)
        PROVE  state' = state /\ dependencies' = dependencies
    BY <2>6 DEF ProbeLooks
  <2>7. ASSUME NEW q \in Query, NEW d \in Dependency, ProbeAnswers(q, d)
        PROVE  state' = state
    BY <2>7 DEF ProbeAnswers
  <2>8. ASSUME NEW q \in Query, AnswerReadiness(q) PROVE dependencies' = dependencies
    BY <2>8 DEF AnswerReadiness
  <2>9. /\ state \in [Replica -> State] /\ scenario.queries \subseteq Query
        /\ dependencies \in [Replica -> [Dependency -> Readiness]]
    BY ConstantTypes DEF Typed
  <2>10. \/ \E q \in Query, n \in Replica : AskReadiness(q, n)
         \/ \E q \in Query, d \in Dependency : ProbeLooks(q, d)
         \/ \E q \in Query, d \in Dependency : ProbeAnswers(q, d)
         \/ \E q \in Query : AnswerReadiness(q)
    BY <2>9 DEF ReadyRequest
  <2> QED BY <2>1, <2>2, <2>3, <2>4, <2>5, <2>6, <2>7, <2>8, <2>9, <2>10
<1> QED BY <1>1
           DEF Typed, ReadyRequest, migrationVars, replicaVars, AskReadiness, ProbeLooks,
               ProbeAnswers, AnswerReadiness

LEMMA OutageTypes ==
    ASSUME Typed, NEW d \in Dependency, Outage(d) PROVE Typed'
<1>1. up' \subseteq Dependency
  BY DEF Typed, Outage
<1>2. allowed' \in Budgets
  BY SpendTypes DEF Typed, Outage, Budgets
<1> QED BY <1>1, <1>2 DEF Typed, Outage, migrationVars, lifecycleVars

LEMMA LostSessionTypes ==
    ASSUME Typed, LostSession PROVE Typed'
BY DEF Typed, LostSession, LostSessionEnds, lifecycleVars, replicaVars

LEMMA SignalTypes ==
    ASSUME Typed, NEW n \in Replica, Signal(n) PROVE Typed'
<1>1. allowed' \in Budgets
  BY SpendTypes DEF Typed, Signal, Budgets
<1>2. aim' \in [Replica -> Aims]
  BY DEF Typed, Signal, beginStop, Aims
<1>3. state' \in [Replica -> State]
  BY DEF Typed, Signal, beginStop, State
<1>4. served' \in [Replica -> Servers]
  <2>1. \/ served' = served
        \/ served' = [served EXCEPT ![n].server = "closing"]
    BY DEF Signal
  <2> QED BY <2>1 DEF Typed, Servers
<1> QED BY <1>1, <1>2, <1>3, <1>4 DEF Typed, Signal, migrationVars

LEMMA ServerStopsTypes ==
    ASSUME Typed, NEW n \in Replica, aim[n] = "draining" => cleaning[n].begun = 0, ServerStops(n)
    PROVE  Typed'
<1>1. served' \in [Replica -> Servers]
  BY DEF Typed, ServerStops, Servers
<1>2. aim' \in [Replica -> Aims]
  BY DEF Typed, ServerStops, endDrain, Aims
<1>3. report' \in [Replica -> Reports]
  <2>1. \/ report' = report
        \/ report' = [report EXCEPT ![n].drain = "completed"]
    BY DEF ServerStops, endDrain
  <2>2. CASE report' = [report EXCEPT ![n].drain = "completed"]
    BY <2>2 DEF Typed, Outcomes, Reports
  <2> QED BY <2>1, <2>2 DEF Typed
<1>4. cleaning' \in [Replica -> CleanUps]
  BY BeginCleanUpTypes DEF Typed, ServerStops, CleanUps
<1> QED BY <1>1, <1>2, <1>3, <1>4 DEF Typed, ServerStops, migrationVars

LEMMA DrainTimesOutTypes ==
    ASSUME Typed, NEW n \in Replica, aim[n] = "draining" => cleaning[n].begun = 0, DrainTimesOut(n)
    PROVE  Typed'
<1>1. aim' \in [Replica -> Aims]
  BY DEF Typed, DrainTimesOut, endDrain, Aims
<1>2. report' \in [Replica -> Reports]
  BY DEF Typed, DrainTimesOut, endDrain, Outcomes, Reports
<1>3. cleaning' \in [Replica -> CleanUps]
  BY BeginCleanUpTypes DEF Typed, DrainTimesOut, endDrain, CleanUps
<1> QED BY <1>1, <1>2, <1>3 DEF Typed, DrainTimesOut, migrationVars

LEMMA CloseResourceTypes ==
    ASSUME Typed, NEW n \in Replica, NEW r \in Resource, CloseResource(n, r) PROVE Typed'
<1>1. cleaning' \in [Replica -> CleanUps]
  BY DEF Typed, CloseResource, CleanUps
<1>2. held' \in [Replica -> SUBSET Resource]
  BY DEF Typed, CloseResource
<1>3. faults' \in Nat
  BY DEF Typed, CloseResource, fault
<1> QED BY <1>1, <1>2, <1>3 DEF Typed, CloseResource, migrationVars, lifecycleVars

LEMMA GoneTypes ==
    ASSUME Typed, NEW n \in Replica, gone(n) PROVE query' \in [Query -> Queries]
<1>1. ASSUME NEW q \in Query PROVE [query[q] EXCEPT !.at = "answered"] \in Queries
  <2>1. query[q] \in Queries
    BY DEF Typed
  <2> QED BY <2>1 DEF Queries
<1>2. \A q \in Query : query[q] \in Queries
  BY DEF Typed
<1> QED BY <1>1, <1>2 DEF gone

LEMMA ExitTypes ==
    ASSUME Typed, NEW n \in Replica, Exit(n) PROVE Typed'
<1>1. state' \in [Replica -> State]
  BY DEF Typed, Exit, endCleanUp, State
<1>2. aim' \in [Replica -> Aims]
  BY DEF Typed, Exit, endCleanUp, Aims
<1>3. report' \in [Replica -> Reports]
  <2>1. \/ report' = [report EXCEPT ![n].stop = "completed"]
        \/ report' = [report EXCEPT ![n].stop = "timed-out"]
    BY DEF Exit, endCleanUp
  <2>2. CASE report' = [report EXCEPT ![n].stop = "completed"]
    BY <2>2 DEF Typed, Outcomes, Reports
  <2>3. CASE report' = [report EXCEPT ![n].stop = "timed-out"]
    BY <2>3 DEF Typed, Outcomes, Reports
  <2> QED BY <2>1, <2>2, <2>3
<1>4. at' \in [Replica -> Places]
  BY DEF Typed, Exit, gone, Places
<1>5. held' \in [Replica -> SUBSET Resource]
  BY DEF Typed, Exit, gone
<1>6. served' \in [Replica -> Servers]
  BY DEF Typed, Exit, gone, NoServer, Servers
<1>7. query' \in [Query -> Queries]
  BY GoneTypes DEF Exit
<1> QED BY <1>1, <1>2, <1>3, <1>4, <1>5, <1>6, <1>7 DEF Typed, Exit, migrationVars

LEMMA DieTypes ==
    ASSUME Typed, NEW n \in Replica, MigrationOK(n), Die(n) PROVE Typed'
<1>1. allowed' \in Budgets
  BY SpendTypes DEF Die
<1>2. applied' \in Seq(Checksum)
  <2>1. CASE UNCHANGED applied
    BY <2>1 DEF Typed
  <2>2. CASE migrator[n].at = "committing" /\ commits(n)
    <3>1. /\ migrator[n].running \in 1..Len(files(n)) /\ files(n) \in Seq(Checksum)
          /\ applied \in Seq(Checksum)
      BY <2>2, MigrationAssumption DEF Typed, Migrators, MigrationOK, files, inside
    <3> QED BY <2>2, <3>1 DEF commits
  <2> QED BY <2>1, <2>2 DEF Die, migratorDies
<1>3. lock' \in Replica \cup {Nobody, "lost"}
  BY DEF Die, migratorDies, discarded, Typed
<1>4. migrator' \in [Replica -> Migrators]
  BY DEF Die, NoMigrator, Migrators, Typed
<1>5. state' \in [Replica -> State] /\ aim' \in [Replica -> Aims]
  BY DEF Die, forgets, State, Aims, Typed
<1>6. dependencies' \in [Replica -> [Dependency -> Readiness]]
  BY DEF Die, forgets, Readiness, Typed
<1>7. report' \in [Replica -> Reports] /\ cleaning' \in [Replica -> CleanUps]
  BY DEF Die, forgets, NoReport, Reports, Outcomes, NoCleaning, CleanUps, Typed
<1>8. at' \in [Replica -> Places] /\ held' \in [Replica -> SUBSET Resource]
  BY DEF Die, gone, Places, Typed
<1>9. served' \in [Replica -> Servers]
  BY DEF Die, gone, NoServer, Servers, Typed
<1>10. query' \in [Query -> Queries]
  BY GoneTypes DEF Die
<1> QED BY <1>1, <1>2, <1>3, <1>4, <1>5, <1>6, <1>7, <1>8, <1>9, <1>10 DEF Typed, Die

(* Every step of the replicas keeps the types.                             *)
LEMMA TypesKept ==
    ASSUME IInv, ReplicaNext PROVE TypeOK'
<1>1. Typed /\ \A q \in Query : QueryOK(q)
  BY TypedIsTypeOK DEF IInv
<1>2. ASSUME NEW n \in Replica
      PROVE  MigrationOK(n) /\ (aim[n] = "draining" => cleaning[n].begun = 0)
  BY DEF IInv, MigrationsOK, ProcessOK
<1>3. ASSUME NEW n \in Replica, StartProcess(n) \/ StartUp(n) PROVE Typed'
  BY <1>1, <1>2, <1>3, StartProcessTypes, MigrateTypes, PostgresReadyTypes, RedisReadyTypes,
     ListenTypes DEF StartUp
<1>4. ASSUME NEW n \in Replica, Arrives(n) \/ Answered(n) \/ Signal(n) PROVE Typed'
  BY <1>1, <1>4, ArrivesTypes, AnsweredTypes, SignalTypes
<1>5. ASSUME NEW n \in Replica, ShutDown(n) PROVE Typed'
  BY <1>1, <1>2, <1>5, ServerStopsTypes, DrainTimesOutTypes, ExitTypes, CloseResourceTypes
     DEF ShutDown
<1>6. ASSUME NEW n \in Replica, Die(n) PROVE Typed'
  BY <1>1, <1>2, <1>6, DieTypes
<1>7. ASSUME LostSession \/ ReadyRequest \/ \E d \in Dependency : Outage(d) PROVE Typed'
  <2>1. CASE LostSession
    BY <1>1, <2>1, LostSessionTypes
  <2>2. CASE ReadyRequest
    BY <1>1, <2>2, ReadyRequestTypes
  <2>3. ASSUME NEW d \in Dependency, Outage(d) PROVE Typed'
    BY <1>1, <2>3, OutageTypes
  <2> QED BY <1>7, <2>1, <2>2, <2>3
<1>8. Typed'
  BY <1>3, <1>4, <1>5, <1>6, <1>7 DEF ReplicaNext
<1>9. Typed' => TypeOK'
  BY DEF Typed, TypeOK, MigrationTypeOK, LifecycleTypeOK, Migrators, Aims, Outcomes, Reports,
         Queries, Places, Servers, CleanUps, Budgets
<1> QED BY <1>8, <1>9

-----------------------------------------------------------------------------
(* The steps of one replica.                                               *)

LEMMA QuietDatabase ==
    ASSUME Typed, NEW n \in Replica, UNCHANGED <<applied, lock, probed, scenario>>,
           faults' = faults \/ fault
    PROVE  DatabaseStep(n)
<1>1. applied \in Seq(Checksum) /\ faults \in Nat
  BY DEF Typed
<1>2. Grows
  BY <1>1 DEF Grows
<1>3. faults' <= faults
  BY <1>1 DEF fault
<1> QED BY <1>2, <1>3 DEF DatabaseStep

\* A row more is what a commit adds.
LEMMA CommitGrows ==
    ASSUME Typed, Typed', NEW n \in Replica, MigrationOK(n), migrator[n].at = "committing",
           commits(n), release'[n] = release[n]
    PROVE  /\ Grows /\ lock = n
           /\ Len(applied') = migrator[n].running
           /\ ~ foreign(n)'
<1> DEFINE fs == Files[release[n]]
<1>1. /\ applied \in Seq(Checksum) /\ fs \in Seq(Checksum)
      /\ migrator[n].running = Len(applied) + 1 /\ migrator[n].running <= Len(fs)
      /\ ~foreign(n) /\ lock = n
  BY MigrationAssumption DEF Typed, MigrationOK, inside, files
<1>2. PICK c \in Checksum : c = fs[migrator[n].running] /\ applied' = Append(applied, c)
  BY <1>1 DEF commits, files
<1>3. /\ Len(applied') = Len(applied) + 1
      /\ \A v \in 1..Len(applied) : applied'[v] = applied[v]
      /\ applied'[Len(applied) + 1] = c
  BY <1>1, <1>2
<1>4. Len(applied) \in Nat /\ Len(fs) \in Nat
  BY <1>1
<1>5. Grows
  BY <1>3, <1>4 DEF Grows
<1>6. files(n)' = fs /\ files(n) = fs
  BY DEF files
<1>7. \A v \in 1..Len(applied') : v <= Len(fs) /\ fs[v] = applied'[v]
  <2> SUFFICES ASSUME NEW v \in 1..Len(applied') PROVE v <= Len(fs) /\ fs[v] = applied'[v]
    OBVIOUS
  <2>1. v \in 1..Len(applied) \/ v = Len(applied) + 1
    BY <1>3, <1>4
  <2>2. CASE v \in 1..Len(applied)
    BY <2>2, <1>1, <1>3, <1>6 DEF foreign
  <2>3. CASE v = Len(applied) + 1
    BY <2>3, <1>1, <1>2, <1>3
  <2> QED BY <2>1, <2>2, <2>3
<1>8. ~ foreign(n)'
  BY <1>6, <1>7 DEF foreign
<1> QED BY <1>1, <1>3, <1>5, <1>8

\* What the invariant says of one replica, with its types.
LEMMA AtReplica ==
    ASSUME IInv, NEW n \in Replica
    PROVE  /\ Typed /\ PartOK(n)
           /\ migrator[n] \in Migrators /\ cleaning[n] \in CleanUps /\ served[n] \in Servers
           /\ faults \in Nat /\ scenario.faults \in Nat /\ faults <= scenario.faults
           /\ applied \in Seq(Checksum) /\ files(n) \in Seq(Checksum)
<1>1. Typed
  BY TypedIsTypeOK DEF IInv
<1>2. faults <= scenario.faults /\ PartOK(n)
  BY DEF IInv, MigrationsOK, PartOK
<1>3. files(n) \in Seq(Checksum)
  BY <1>1, MigrationAssumption DEF Typed, files
<1> QED BY <1>1, <1>2, <1>3, ConstantTypes DEF Typed

(* The migrations of a replica under the lock: what it has read is still   *)
(* what the table holds, so a commit of its own is what it found free.     *)
LEMMA MigrateStep ==
    ASSUME IInv, TypeOK', NEW n \in Replica, Migrate(n)
    PROVE  StepOf(n) /\ PartOK(n)' /\ \A q \in Query : QueryOK(q)'
<1>1. /\ Typed /\ MigrationOK(n) /\ InitialisedOK(n) /\ ProcessOK(n)
      /\ migrator[n] \in Migrators /\ migrator \in [Replica -> Migrators]
      /\ faults \in Nat /\ scenario.faults \in Nat /\ faults <= scenario.faults
      /\ applied \in Seq(Checksum) /\ files(n) \in Seq(Checksum)
      /\ Len(applied) \in Nat /\ Len(files(n)) \in Nat /\ migrator[n].running \in Nat
      /\ lock \in Replica \cup {Nobody, "lost"} /\ "lost" \notin Replica /\ Nobody \notin Replica
  BY AtReplica, ConstantTypes DEF PartOK, Typed, Migrators
<1>2. /\ UNCHANGED <<state, dependencies, aim, report, query, at, held, served, cleaning, allowed,
                     probed, scenario, release>>
      /\ at[n] = "postgres"
  BY DEF Migrate, MigrationStep, LockAnswered, ReadRows, RunNext, CommitAnswered, Unlock,
         lifecycleVars, replicaVars
<1>3. files(n)' = files(n) /\ release'[n] = release[n]
  BY <1>2 DEF files
<1>4. \A m \in Replica \ {n} : migrator'[m] = migrator[m]
  BY <1>1 DEF Migrate, MigrationStep, LockAnswered, ReadRows, RunNext, CommitAnswered, Unlock,
              goesTo, throws
<1>5. Typed'
  BY <1>1, MigrateTypes
<1>6. fault => faults' < scenario.faults
  BY <1>1 DEF fault
<1>7. (applied' = applied => (foreign(n)' <=> foreign(n)))
  BY <1>3 DEF foreign
<1>8. DatabaseStep(n) /\ MigrationOK(n)'
  <2>1. CASE LockAnswered(n)
    <3>1. CASE lock = Nobody /\ lock' = n /\ goesTo(n, "reading") /\ UNCHANGED faults
      <4>1. /\ migrator'[n] = [migrator[n] EXCEPT !.at = "reading"] /\ lock' = n
            /\ applied' = applied
        BY <1>1, <2>1, <3>1 DEF LockAnswered, goesTo
      <4>2. DatabaseStep(n)
        BY <1>1, <1>2, <3>1, <4>1 DEF DatabaseStep, Grows
      <4>3. migrator'[n].at = "reading" /\ migrator'[n].result = migrator[n].result
        BY <1>1, <4>1 DEF Migrators
      <4>4. migrated(n)' <=> migrated(n)
        BY <1>3, <4>1 DEF migrated
      <4> QED BY <1>1, <1>2, <1>7, <2>1, <3>1, <4>1, <4>2, <4>3, <4>4 DEF MigrationOK, inside
    <3>2. CASE /\ fault /\ lock' \in {lock, IF lock = Nobody THEN "lost" ELSE lock}
               /\ migrator' = [migrator EXCEPT ![n].at = "ended", ![n].result = "failed"]
      <4>1. applied' = applied
        BY <2>1 DEF LockAnswered
      <4>2. DatabaseStep(n)
        BY <1>1, <1>2, <3>2, <4>1 DEF DatabaseStep, Grows, fault
      <4>3. migrator'[n].at = "ended" /\ migrator'[n].result = "failed"
        BY <1>1, <3>2 DEF Migrators
      <4> QED BY <1>2, <1>6, <3>2, <4>2, <4>3 DEF MigrationOK, inside
    <3> QED BY <2>1, <3>1, <3>2 DEF LockAnswered
  <2>2. CASE ReadRows(n)
    <3>1. applied' = applied /\ lock' = lock /\ lock = n
      BY <1>1, <2>2 DEF ReadRows, MigrationOK, inside
    <3>2. DatabaseStep(n)
      BY <1>1, <1>2, <2>2, <3>1, QuietDatabase DEF ReadRows
    <3>3. CASE throws(n) /\ (foreign(n) \/ fault)
      <4>1. migrator'[n].at = "unlocking" /\ migrator'[n].result = "failed"
        BY <1>1, <3>3 DEF throws, Migrators
      <4> QED BY <1>2, <1>6, <1>7, <3>1, <3>2, <3>3, <4>1 DEF MigrationOK, inside
    <3>4. CASE /\ ~foreign(n) /\ UNCHANGED faults
               /\ migrator' = [migrator EXCEPT ![n].at = "running", ![n].seen = Len(applied),
                                               ![n].running = Len(applied) + 1]
      <4>1. /\ migrator'[n].at = "running" /\ migrator'[n].running = Len(applied) + 1
            /\ migrator'[n].result = migrator[n].result
        BY <1>1, <3>4 DEF Migrators
      <4>2. migrated(n)' <=> migrated(n)
        BY <1>3, <3>1 DEF migrated
      <4> QED BY <1>1, <1>2, <1>7, <3>1, <3>2, <3>4, <4>1, <4>2 DEF MigrationOK, inside
    <3> QED BY <2>2, <3>3, <3>4 DEF ReadRows
  <2>3. CASE RunNext(n)
    <3>1. /\ applied' = applied /\ lock' = lock /\ lock = n
          /\ migrator[n].running = Len(applied) + 1 /\ ~foreign(n)
      BY <1>1, <2>3 DEF RunNext, MigrationOK, inside
    <3>2. DatabaseStep(n)
      BY <1>1, <1>2, <2>3, <3>1, QuietDatabase DEF RunNext
    <3>3. CASE /\ migrator[n].running > Len(files(n)) /\ UNCHANGED faults
               /\ migrator' = [migrator EXCEPT ![n].at = "unlocking", ![n].result = "applied"]
      <4>1. migrator'[n].at = "unlocking" /\ migrator'[n].result = "applied"
        BY <1>1, <3>3 DEF Migrators
      <4>2. Len(files(n)) <= Len(applied)
        BY <1>1, <3>1, <3>3
      <4>3. \A v \in 1..Len(files(n)) : applied[v] = files(n)[v]
        BY <1>1, <3>1, <4>2 DEF foreign
      <4>4. migrated(n)'
        BY <1>3, <3>1, <4>2, <4>3 DEF migrated
      <4> QED BY <3>1, <3>2, <4>1, <4>4 DEF MigrationOK, inside
    <3>4. CASE migrator[n].running <= Len(files(n)) /\ UNCHANGED faults /\ goesTo(n, "committing")
      <4>1. /\ migrator'[n].at = "committing" /\ migrator'[n].running = migrator[n].running
            /\ migrator'[n].result = migrator[n].result
        BY <1>1, <3>4 DEF Migrators, goesTo
      <4>2. migrated(n)' <=> migrated(n)
        BY <1>3, <3>1 DEF migrated
      <4> QED BY <1>1, <1>2, <1>3, <1>7, <3>1, <3>2, <3>4, <4>1, <4>2 DEF MigrationOK, inside
    <3>5. CASE fault /\ throws(n)
      <4>1. migrator'[n].at = "unlocking" /\ migrator'[n].result = "failed"
        BY <1>1, <3>5 DEF throws, Migrators
      <4> QED BY <1>2, <1>6, <3>1, <3>2, <3>5, <4>1 DEF MigrationOK, inside
    <3> QED BY <2>3, <3>3, <3>4, <3>5 DEF RunNext
  <2>4. CASE CommitAnswered(n)
    <3>1. /\ migrator[n].at = "committing" /\ lock = n
          /\ migrator[n].running = Len(applied) + 1 /\ ~foreign(n)
          /\ migrator[n].running <= Len(files(n))
      BY <1>1, <2>4 DEF CommitAnswered, MigrationOK, inside
    <3>2. Len(applied) = migrator[n].running - 1
      BY <1>1, <3>1
    <3>3. CASE /\ commits(n) /\ UNCHANGED <<lock, faults>>
               /\ migrator' = [migrator EXCEPT ![n].at = "running",
                                               ![n].running = migrator[n].running + 1]
      <4>1. /\ migrator'[n].at = "running" /\ migrator'[n].running = migrator[n].running + 1
            /\ migrator'[n].result = migrator[n].result
        BY <1>1, <3>3 DEF Migrators
      <4>2. Grows /\ Len(applied') = migrator[n].running /\ ~ foreign(n)'
        BY <1>1, <1>3, <1>5, <3>1, <3>3, CommitGrows
      <4>3. DatabaseStep(n)
        BY <1>1, <1>2, <3>1, <3>3, <4>2 DEF DatabaseStep
      <4>4. migrated(n) => migrated(n)'
        BY <1>3, <4>2, GrowingKeeps DEF IInv
      <4>5. migrator[n].result = "failed" => faults < scenario.faults
        BY <1>1, <3>1 DEF MigrationOK
      <4> QED BY <1>1, <1>2, <3>1, <3>3, <4>1, <4>2, <4>3, <4>4, <4>5 DEF MigrationOK, inside
    <3>4. CASE /\ fault /\ (commits(n) \/ UNCHANGED applied) /\ discarded(n)
               /\ migrator' = [migrator EXCEPT ![n].at = "ended", ![n].result = "failed"]
      <4>1. migrator'[n].at = "ended" /\ migrator'[n].result = "failed"
        BY <1>1, <3>4 DEF Migrators
      <4>2. Grows
        <5>1. CASE commits(n)
          BY <1>1, <1>3, <1>5, <3>1, <5>1, CommitGrows
        <5>2. CASE UNCHANGED applied
          BY <1>1, <5>2 DEF Grows
        <5> QED BY <3>4, <5>1, <5>2
      <4>3. DatabaseStep(n)
        BY <1>1, <1>2, <3>1, <3>4, <4>2 DEF DatabaseStep, discarded, fault
      <4> QED BY <1>2, <1>6, <3>4, <4>1, <4>3 DEF MigrationOK, inside
    <3> QED BY <2>4, <3>2, <3>3, <3>4 DEF CommitAnswered
  <2>5. CASE Unlock(n)
    <3>1. applied' = applied /\ lock = n
      BY <1>1, <2>5 DEF Unlock, MigrationOK, inside
    <3>2. DatabaseStep(n)
      BY <1>1, <1>2, <2>5, <3>1 DEF Unlock, discarded, fault, DatabaseStep, Grows
    <3>3. migrator'[n].at = "ended" /\ migrator'[n].result = migrator[n].result
      BY <1>1, <2>5 DEF Unlock, goesTo, Migrators
    <3>4. migrated(n)' <=> migrated(n)
      BY <1>3, <3>1 DEF migrated
    <3>5. faults < scenario.faults => faults' < scenario'.faults
      <4>1. faults' \in Nat /\ faults' <= faults
        BY <1>5, <3>2 DEF DatabaseStep, Typed
      <4> QED BY <1>1, <1>2, <4>1
    <3> QED BY <1>1, <1>7, <3>1, <3>2, <3>3, <3>4, <3>5 DEF MigrationOK, inside
  <2> QED BY <2>1, <2>2, <2>3, <2>4, <2>5 DEF Migrate, MigrationStep
<1>9. migrated(n) => migrated(n)'
  BY <1>3, <1>8, GrowingKeeps DEF DatabaseStep, IInv
<1>10. InitialisedOK(n)'
  BY <1>1, <1>2, <1>9 DEF InitialisedOK
<1>11. faults' <= faults /\ faults' \in Nat
  BY <1>5, <1>8 DEF DatabaseStep, Typed
<1>12. ProcessOK(n)'
  <2>1. migrator[n].at # "ended"
    BY DEF Migrate, MigrationStep, LockAnswered, ReadRows, RunNext, CommitAnswered, Unlock
  <2> QED BY <1>1, <1>2, <1>11, <2>1 DEF ProcessOK
<1>13. StepOf(n)
  BY <1>2, <1>4, <1>8 DEF StepOf, Untouched
<1>14. \A q \in Query : QueryOK(q)'
  BY <1>2, QueriesKept
<1> QED BY <1>8, <1>10, <1>12, <1>13, <1>14 DEF PartOK

(* A process starts from nothing.                                          *)
LEMMA StartProcessStep ==
    ASSUME IInv, TypeOK', NEW n \in Replica, StartProcess(n)
    PROVE  StepOf(n) /\ PartOK(n)' /\ \A q \in Query : QueryOK(q)'
<1>1. Typed /\ PartOK(n) /\ served[n] \in Servers
  BY AtReplica
<1>2. /\ UNCHANGED <<applied, lock, faults, query, probed, scenario, served>>
      /\ at[n] = "down" /\ at'[n] = "postgres"
      /\ state'[n] = "starting" /\ aim'[n] = "open" /\ cleaning'[n].begun = 0
      /\ \A d \in Dependency : dependencies'[n][d] = "unavailable"
  BY <1>1 DEF StartProcess, forgets, databaseVars, NoCleaning, Typed
<1>3. /\ migrator'[n].at \in {"locking", "ended"} /\ migrator'[n].result = "none"
      /\ "postgres" \in held'[n] \/ migrator'[n].at = "ended"
  BY <1>1 DEF StartProcess, NoMigrator, Typed
<1>4. \A m \in Replica \ {n} : Untouched(m)
  BY <1>1 DEF StartProcess, forgets, Typed, Untouched
<1>5. DatabaseStep(n)
  BY <1>1, <1>2, QuietDatabase
<1>6. MigrationOK(n)'
  BY <1>3 DEF MigrationOK, inside
<1>7. InitialisedOK(n)'
  BY <1>2, ConstantTypes, <1>1 DEF InitialisedOK
<1>8. served[n].server = "absent" /\ served[n].inFlight = 0
  BY <1>1, <1>2 DEF PartOK, ProcessOK
<1>9. ProcessOK(n)'
  BY <1>2, <1>3, <1>8 DEF ProcessOK
<1>10. \A m \in Replica : at[m] = "serving" =>
           at'[m] = "serving" /\ dependencies'[m] = dependencies[m]
  BY <1>2, <1>4 DEF Untouched
<1> QED BY <1>2, <1>4, <1>5, <1>6, <1>7, <1>9, <1>10, QueriesKept DEF StepOf, PartOK

\* What setting one dependency does to the replica.
LEMMA RecordStep ==
    ASSUME Typed, NEW n \in Replica, NEW d \in Dependency, NEW s \in Readiness,
           recordDependency(n, d, s), aim[n] = "open", ProcessOK(n)
    PROVE  /\ dependencies'[n] = [dependencies[n] EXCEPT ![d] = s]
           /\ state'[n] \in {"ready", "degraded"}
           /\ state'[n] = "ready" => \A e \in Dependency : dependencies'[n][e] = "ready"
           /\ \A m \in Replica \ {n} : dependencies'[m] = dependencies[m] /\ state'[m] = state[m]
<1>1. state[n] \in {"starting", "ready", "degraded"}
  BY DEF ProcessOK
<1>2. PICK ds : /\ ds = [dependencies[n] EXCEPT ![d] = s]
                /\ dependencies' = [dependencies EXCEPT ![n] = ds]
                /\ state' = [state EXCEPT ![n] = nextOperationalState(ds)]
  BY <1>1 DEF recordDependency, applyDependencyState
<1>3. dependencies'[n] = ds /\ state'[n] = nextOperationalState(ds)
  BY <1>2 DEF Typed
<1> QED BY <1>2, <1>3 DEF Typed, nextOperationalState

(* The outcome of the migrations is recorded; the pool stays open only     *)
(* when they were applied.                                                 *)
LEMMA PostgresReadyStep ==
    ASSUME IInv, TypeOK', NEW n \in Replica, PostgresReady(n)
    PROVE  StepOf(n) /\ PartOK(n)' /\ \A q \in Query : QueryOK(q)'
<1>1. /\ Typed /\ PartOK(n) /\ served[n] \in Servers /\ MigrationOK(n) /\ InitialisedOK(n)
      /\ ProcessOK(n) /\ Dependency = {"postgres", "redis"}
  BY AtReplica, ConstantTypes DEF PartOK
<1>2. /\ UNCHANGED <<applied, lock, faults, release, migrator, aim, report, query, probed, scenario,
                     served, cleaning>>
      /\ at[n] = "postgres" /\ at'[n] = "redis" /\ migrator[n].at = "ended"
  BY <1>1 DEF PostgresReady, migrationVars, Typed
<1>3. DatabaseStep(n)
  BY <1>1, <1>2, QuietDatabase
<1>4. MigrationOK(n)' /\ (migrated(n)' <=> migrated(n))
  BY <1>1, <1>2 DEF MigrationOK, inside, migrated, foreign, files
<1>5. /\ aim[n] = "open" /\ served[n].server = "absent" /\ served[n].inFlight = 0
      /\ state[n] \in {"starting", "ready", "degraded"} /\ cleaning[n].begun = 0
      /\ dependencies[n]["postgres"] = "unavailable" /\ dependencies[n]["redis"] = "unavailable"
  BY <1>1, <1>2 DEF ProcessOK
<1>6. /\ \A m \in Replica \ {n} : Untouched(m)
      /\ state'[n] \in {"starting", "ready", "degraded"}
      /\ dependencies'[n]["redis"] = "unavailable"
      /\ probed = {} /\ state'[n] = "ready" => \A e \in Dependency : dependencies'[n][e] = "ready"
      /\ dependencies'[n]["postgres"] = "ready" => migrator[n].result = "applied" /\ held'[n] = held[n]
  <2>1. \A m \in Replica \ {n} : at'[m] = at[m]
    BY DEF PostgresReady, Typed
  <2>2. CASE migrator[n].result = "applied" /\ recordDependency(n, "postgres", "ready") /\ UNCHANGED held
    <3>1. "ready" \in Readiness /\ "postgres" \in Dependency
      BY <1>1 DEF Readiness
    <3>2. /\ dependencies'[n] = [dependencies[n] EXCEPT !["postgres"] = "ready"]
          /\ state'[n] \in {"ready", "degraded"}
          /\ state'[n] = "ready" => \A e \in Dependency : dependencies'[n][e] = "ready"
          /\ \A m \in Replica \ {n} : dependencies'[m] = dependencies[m] /\ state'[m] = state[m]
      BY <1>1, <1>5, <2>2, <3>1, RecordStep
    <3> QED BY <1>1, <1>2, <1>5, <2>1, <2>2, <3>2 DEF Untouched, Typed
  <2>3. CASE /\ migrator[n].result = "failed" /\ recordDependency(n, "postgres", "unavailable")
             /\ held' = [held EXCEPT ![n] = @ \ {"postgres"}]
    <3>1. "unavailable" \in Readiness /\ "postgres" \in Dependency
      BY <1>1 DEF Readiness
    <3>2. /\ dependencies'[n] = [dependencies[n] EXCEPT !["postgres"] = "unavailable"]
          /\ state'[n] \in {"ready", "degraded"}
          /\ state'[n] = "ready" => \A e \in Dependency : dependencies'[n][e] = "ready"
          /\ \A m \in Replica \ {n} : dependencies'[m] = dependencies[m] /\ state'[m] = state[m]
      BY <1>1, <1>5, <2>3, <3>1, RecordStep
    <3> QED BY <1>1, <1>2, <1>5, <2>1, <2>3, <3>2 DEF Untouched, Typed
  <2>4. CASE UNCHANGED <<state, dependencies, held>>
    <3>1. state[n] = "ready" => probed # {} \/ \A e \in Dependency : dependencies[n][e] = "ready"
      BY <1>1 DEF InitialisedOK
    <3> QED BY <1>1, <1>2, <1>5, <2>1, <2>4, <3>1 DEF Untouched, Typed
  <2> QED BY <2>2, <2>3, <2>4 DEF PostgresReady
<1>7. migrator[n].result = "applied" => migrated(n)
  BY <1>1 DEF MigrationOK
<1>8. dependencies'[n]["postgres"] = "ready" => migrated(n)' /\ "postgres" \in held'[n]
  BY <1>1, <1>2, <1>4, <1>6, <1>7 DEF ProcessOK
<1>9. InitialisedOK(n)'
  BY <1>1, <1>2, <1>6, <1>8 DEF InitialisedOK
<1>10. ProcessOK(n)'
  BY <1>1, <1>2, <1>5, <1>6 DEF ProcessOK
<1>11. \A m \in Replica : at[m] = "serving" =>
           at'[m] = "serving" /\ dependencies'[m] = dependencies[m]
  BY <1>2, <1>6 DEF Untouched
<1> QED BY <1>2, <1>3, <1>4, <1>6, <1>9, <1>10, <1>11, QueriesKept DEF StepOf, PartOK

(* The policy runtime is made only where the store is open, which is what  *)
(* a replica that is ready has.                                            *)
LEMMA RedisReadyStep ==
    ASSUME IInv, TypeOK', NEW n \in Replica, RedisReady(n)
    PROVE  StepOf(n) /\ PartOK(n)' /\ \A q \in Query : QueryOK(q)'
<1>1. /\ Typed /\ PartOK(n) /\ served[n] \in Servers /\ MigrationOK(n) /\ InitialisedOK(n)
      /\ ProcessOK(n) /\ Dependency = {"postgres", "redis"}
      /\ faults \in Nat /\ scenario.faults \in Nat /\ faults <= scenario.faults
  BY AtReplica, ConstantTypes DEF PartOK
<1>2. /\ UNCHANGED <<applied, lock, release, migrator, aim, report, query, probed, scenario,
                     served, cleaning>>
      /\ at[n] = "redis" /\ at'[n] = "starting" /\ (faults' = faults \/ fault)
  BY <1>1 DEF RedisReady, migrationVars, Typed
<1>3. DatabaseStep(n)
  BY <1>1, <1>2, QuietDatabase
<1>4. MigrationOK(n)' /\ (migrated(n)' <=> migrated(n))
  BY <1>1, <1>2 DEF MigrationOK, inside, migrated, foreign, files, fault
<1>5. /\ aim[n] = "open" /\ served[n].server = "absent" /\ served[n].inFlight = 0
      /\ state[n] \in {"starting", "ready", "degraded"} /\ cleaning[n].begun = 0
      /\ dependencies[n]["redis"] = "unavailable"
  BY <1>1, <1>2 DEF ProcessOK
<1>6. /\ \A m \in Replica \ {n} : Untouched(m)
      /\ state'[n] \in {"starting", "ready", "degraded"}
      /\ dependencies'[n]["postgres"] = dependencies[n]["postgres"]
      /\ probed = {} /\ state'[n] = "ready" => \A e \in Dependency : dependencies'[n][e] = "ready"
      /\ held[n] \subseteq held'[n]
      /\ dependencies'[n]["redis"] = "ready" =>
            "redis" \in held'[n] /\ ("postgres" \in held[n] => "policy" \in held'[n])
  <2>1. \A m \in Replica \ {n} : at'[m] = at[m]
    BY DEF RedisReady, Typed
  <2>2. CASE /\ recordDependency(n, "redis", "ready")
             /\ held' = [held EXCEPT ![n] = @ \cup {"redis"} \cup
                                     IF "postgres" \in @ THEN {"policy"} ELSE {}]
    <3>1. "ready" \in Readiness /\ "redis" \in Dependency
      BY <1>1 DEF Readiness
    <3>2. /\ dependencies'[n] = [dependencies[n] EXCEPT !["redis"] = "ready"]
          /\ state'[n] \in {"ready", "degraded"}
          /\ state'[n] = "ready" => \A e \in Dependency : dependencies'[n][e] = "ready"
          /\ \A m \in Replica \ {n} : dependencies'[m] = dependencies[m] /\ state'[m] = state[m]
      BY <1>1, <1>5, <2>2, <3>1, RecordStep
    <3>3. /\ \A m \in Replica \ {n} : held'[m] = held[m]
          /\ held[n] \subseteq held'[n] /\ "redis" \in held'[n]
          /\ "postgres" \in held[n] => "policy" \in held'[n]
      BY <1>1, <2>2 DEF Typed
    <3> QED BY <1>1, <1>2, <1>5, <2>1, <3>2, <3>3 DEF Untouched, Typed
  <2>3. CASE recordDependency(n, "redis", "unavailable") /\ UNCHANGED held
    <3>1. "unavailable" \in Readiness /\ "redis" \in Dependency
      BY <1>1 DEF Readiness
    <3>2. /\ dependencies'[n] = [dependencies[n] EXCEPT !["redis"] = "unavailable"]
          /\ state'[n] \in {"ready", "degraded"}
          /\ state'[n] = "ready" => \A e \in Dependency : dependencies'[n][e] = "ready"
          /\ \A m \in Replica \ {n} : dependencies'[m] = dependencies[m] /\ state'[m] = state[m]
      BY <1>1, <1>5, <2>3, <3>1, RecordStep
    <3> QED BY <1>1, <1>2, <1>5, <2>1, <2>3, <3>2 DEF Untouched, Typed
  <2>4. CASE UNCHANGED <<state, dependencies, held>>
    <3>1. probed = {} /\ state[n] = "ready" => \A e \in Dependency : dependencies[n][e] = "ready"
      BY <1>1 DEF InitialisedOK
    <3> QED BY <1>1, <1>2, <1>5, <2>1, <2>4, <3>1 DEF Untouched, Typed
  <2> QED BY <2>2, <2>3, <2>4 DEF RedisReady
<1>7. InitialisedOK(n)'
  BY <1>1, <1>2, <1>4, <1>5, <1>6 DEF InitialisedOK
<1>8. ProcessOK(n)'
  BY <1>1, <1>2, <1>5, <1>6 DEF ProcessOK
<1>9. \A m \in Replica : at[m] = "serving" =>
           at'[m] = "serving" /\ dependencies'[m] = dependencies[m]
  BY <1>2, <1>6 DEF Untouched
<1> QED BY <1>2, <1>3, <1>4, <1>6, <1>7, <1>8, <1>9, QueriesKept DEF StepOf, PartOK

(* The first refresh of start() finds what has no probe as it was set.     *)
LEMMA ListenStep ==
    ASSUME IInv, TypeOK', NEW n \in Replica, Listen(n)
    PROVE  StepOf(n) /\ PartOK(n)' /\ \A q \in Query : QueryOK(q)'
<1>1. /\ Typed /\ PartOK(n) /\ served[n] \in Servers /\ MigrationOK(n) /\ InitialisedOK(n)
      /\ ProcessOK(n)
  BY AtReplica DEF PartOK
<1>2. /\ UNCHANGED <<applied, lock, faults, release, migrator, aim, report, query, probed, scenario,
                     held, cleaning>>
      /\ at[n] = "starting" /\ at'[n] = "serving"
      /\ served'[n] = [served[n] EXCEPT !.server = "open"]
      /\ \A m \in Replica \ {n} : at'[m] = at[m] /\ served'[m] = served[m]
  BY <1>1 DEF Listen, migrationVars, Typed
<1>3. DatabaseStep(n)
  BY <1>1, <1>2, QuietDatabase
<1>4. MigrationOK(n)' /\ (migrated(n)' <=> migrated(n))
  BY <1>1, <1>2 DEF MigrationOK, inside, migrated, foreign, files
<1>5. /\ aim[n] = "open" /\ served[n].inFlight = 0 /\ served[n].server = "absent"
      /\ state[n] \in {"starting", "ready", "degraded"} /\ cleaning[n].begun = 0
  BY <1>1, <1>2 DEF ProcessOK
<1>6. /\ \A m \in Replica \ {n} : dependencies'[m] = dependencies[m] /\ state'[m] = state[m]
      /\ state'[n] \in {"starting", "ready", "degraded"}
      /\ probed = {} => dependencies'[n] = dependencies[n]
      /\ probed = {} /\ state'[n] = "ready" => \A d \in Dependency : dependencies'[n][d] = "ready"
  <2>1. CASE state[n] # "starting"
    <3>1. UNCHANGED <<state, dependencies>>
      BY <2>1 DEF Listen, startLifecycle
    <3> QED BY <1>1, <1>5, <3>1 DEF InitialisedOK
  <2>2. CASE state[n] = "starting"
    <3>1. PICK ds : /\ ds = [d \in Dependency |-> IF d \in probed THEN probeSays(d)
                                                 ELSE dependencies[n][d]]
                    /\ dependencies' = [dependencies EXCEPT ![n] = ds]
                    /\ state' = [state EXCEPT ![n] = nextOperationalState(ds)]
      BY <2>2 DEF Listen, startLifecycle
    <3>2. dependencies'[n] = ds /\ state'[n] = nextOperationalState(ds)
      BY <1>1, <3>1 DEF Typed
    <3>3. probed = {} => ds = dependencies[n]
      BY <1>1, <3>1 DEF Typed
    <3>4. /\ nextOperationalState(ds) \in {"ready", "degraded"}
          /\ nextOperationalState(ds) = "ready" => \A d \in Dependency : ds[d] = "ready"
      BY DEF nextOperationalState
    <3> QED BY <1>1, <3>1, <3>2, <3>3, <3>4 DEF Typed
  <2> QED BY <2>1, <2>2
<1>7. served'[n].server = "open" /\ served'[n].inFlight = 0
  BY <1>1, <1>2, <1>5 DEF Servers
<1>8. InitialisedOK(n)'
  BY <1>1, <1>2, <1>4, <1>6 DEF InitialisedOK
<1>9. ProcessOK(n)'
  BY <1>1, <1>2, <1>5, <1>6, <1>7 DEF ProcessOK
<1>10. \A m \in Replica \ {n} : Untouched(m)
  BY <1>2, <1>6 DEF Untouched
<1>11. \A m \in Replica : at[m] = "serving" =>
           at'[m] = "serving" /\ dependencies'[m] = dependencies[m]
  BY <1>2, <1>10 DEF Untouched
<1> QED BY <1>2, <1>3, <1>4, <1>8, <1>9, <1>10, <1>11, QueriesKept DEF StepOf, PartOK

-----------------------------------------------------------------------------
(* The steps that leave every replica as it is, and requests.              *)

PartsOK == MigrationsOK /\ \A m \in Replica : InitialisedOK(m) /\ ProcessOK(m)

LEMMA AllUntouched ==
    ASSUME IInv, \A m \in Replica : Untouched(m), UNCHANGED <<applied, faults, probed, scenario>>,
           \A m \in Replica : lock = m => lock' = m
    PROVE  PartsOK'
<1>1. faults' <= scenario'.faults
  BY DEF IInv, MigrationsOK
<1>2. ASSUME NEW m \in Replica PROVE MigrationOK(m)' /\ InitialisedOK(m)' /\ ProcessOK(m)'
  <2>1. Untouched(m) /\ MigrationOK(m) /\ InitialisedOK(m) /\ ProcessOK(m)
    BY DEF IInv, MigrationsOK
  <2>2. MigrationOK(m)' /\ (migrated(m)' <=> migrated(m))
    BY <2>1 DEF MigrationOK, inside, migrated, foreign, files, Untouched
  <2> QED BY <2>1, <2>2 DEF InitialisedOK, ProcessOK, Untouched
<1> QED BY <1>1, <1>2 DEF PartsOK, MigrationsOK

LEMMA OutageStep ==
    ASSUME IInv, NEW d \in Dependency, Outage(d)
    PROVE  PartsOK' /\ \A q \in Query : QueryOK(q)'
<1>1. \A m \in Replica : Untouched(m)
  BY DEF Outage, migrationVars, lifecycleVars, Untouched
<1>2. UNCHANGED <<applied, lock, faults, probed, scenario, query, at, dependencies>>
  BY DEF Outage, migrationVars, lifecycleVars
<1> QED BY <1>1, <1>2, AllUntouched, QueriesKept

LEMMA LostSessionStep ==
    ASSUME IInv, LostSession
    PROVE  PartsOK' /\ \A q \in Query : QueryOK(q)'
<1>1. \A m \in Replica : Untouched(m)
  BY DEF LostSession, LostSessionEnds, lifecycleVars, replicaVars, Untouched
<1>2. UNCHANGED <<applied, faults, probed, scenario, query, at, dependencies>>
  BY DEF LostSession, LostSessionEnds, lifecycleVars, replicaVars
<1>3. \A m \in Replica : lock # m
  BY MigrationAssumption DEF LostSession, LostSessionEnds
<1> QED BY <1>1, <1>2, <1>3, AllUntouched, QueriesKept

\* A step of replica n that leaves its migrations as they are.
LEMMA MigrationsLeft ==
    ASSUME IInv, NEW n \in Replica, UNCHANGED <<applied, lock, probed, scenario>>,
           release'[n] = release[n], migrator'[n] = migrator[n], faults' = faults \/ fault
    PROVE  DatabaseStep(n) /\ MigrationOK(n)' /\ (migrated(n)' <=> migrated(n))
<1>1. /\ Typed /\ MigrationOK(n)
      /\ faults \in Nat /\ scenario.faults \in Nat /\ faults <= scenario.faults
  BY AtReplica DEF PartOK
<1>2. DatabaseStep(n)
  BY <1>1, QuietDatabase
<1> QED BY <1>1, <1>2 DEF MigrationOK, inside, migrated, foreign, files, fault

LEMMA RequestStep ==
    ASSUME IInv, NEW n \in Replica, Arrives(n) \/ Answered(n)
    PROVE  StepOf(n) /\ PartOK(n)' /\ \A q \in Query : QueryOK(q)'
<1>1. Typed /\ served[n] \in Servers /\ InitialisedOK(n) /\ ProcessOK(n)
  BY AtReplica DEF PartOK
<1>2. UNCHANGED <<applied, lock, faults, release, migrator, state, dependencies, aim, report,
                  query, probed, scenario, at, held, cleaning>>
  BY DEF Arrives, Answered, migrationVars, lifecycleVars
<1>3. /\ \A m \in Replica \ {n} : served'[m] = served[m]
      /\ served'[n].server = served[n].server
      /\ served'[n].server \notin {"absent", "closed"}
  <2>1. CASE Arrives(n)
    BY <1>1, <2>1 DEF Arrives, Typed, Servers
  <2>2. CASE Answered(n)
    <3>1. served[n].server \notin {"absent", "closed"}
      BY <1>1, <2>2 DEF Answered, ProcessOK
    <3> QED BY <1>1, <2>2, <3>1 DEF Answered, Typed, Servers
  <2> QED BY <2>1, <2>2
<1>4. DatabaseStep(n) /\ MigrationOK(n)' /\ (migrated(n)' <=> migrated(n))
  BY <1>2, MigrationsLeft
<1>5. InitialisedOK(n)'
  BY <1>1, <1>2, <1>4 DEF InitialisedOK
<1>6. ProcessOK(n)'
  BY <1>1, <1>2, <1>3 DEF ProcessOK
<1>7. \A m \in Replica \ {n} : Untouched(m)
  BY <1>2, <1>3 DEF Untouched
<1> QED BY <1>2, <1>4, <1>5, <1>6, <1>7, QueriesKept DEF StepOf, PartOK

LEMMA AskReadinessStep ==
    ASSUME IInv, NEW p \in Query, NEW n \in Replica, served[n].server = "open", AskReadiness(p, n),
           UNCHANGED <<migrationVars, faults, probed, up, scenario, replicaVars>>
    PROVE  PartsOK' /\ \A q \in Query : QueryOK(q)'
<1>1. Typed /\ ProcessOK(n) /\ query \in [Query -> Queries]
  BY AtReplica DEF PartOK, Typed
<1>2. UNCHANGED <<applied, lock, faults, release, migrator, state, dependencies, aim, report,
                  probed, scenario, at, held, served, cleaning>>
  BY DEF AskReadiness, migrationVars, replicaVars
<1>3. PartsOK'
  BY <1>2, AllUntouched DEF Untouched
<1>4. at[n] = "serving"
  BY <1>1 DEF ProcessOK
<1>5. QueryOK(p)'
  <2>1. CASE state[n] \in {"ready", "degraded"}
    <3>1. query'[p] = [NoQuery EXCEPT !.at = "probing", !.by = n, !.waits = probed]
      BY <1>1, <2>1 DEF AskReadiness
    <3>2. /\ query'[p].at = "probing" /\ query'[p].by = n /\ query'[p].waits = probed
          /\ query'[p].answer = "none"
      BY <3>1 DEF NoQuery
    <3> QED BY <1>2, <1>4, <3>2 DEF QueryOK
  <2>2. CASE state[n] \notin {"ready", "degraded"}
    <3>1. query'[p] = [NoQuery EXCEPT !.at = "answered", !.by = n, !.answer = state[n]]
      BY <1>1, <2>2 DEF AskReadiness
    <3>2. query'[p].at = "answered" /\ query'[p].answer # "ready"
      BY <2>2, <3>1 DEF NoQuery
    <3> QED BY <3>2 DEF QueryOK
  <2> QED BY <2>1, <2>2
<1>6. ASSUME NEW q \in Query \ {p} PROVE QueryOK(q)'
  <2>1. query'[q] = query[q] /\ QueryOK(q)
    BY <1>1 DEF AskReadiness, IInv
  <2> QED BY <1>2, <2>1 DEF QueryOK
<1> QED BY <1>3, <1>5, <1>6

LEMMA ProbeLooksStep ==
    ASSUME IInv, NEW p \in Query, NEW d \in Dependency, ProbeLooks(p, d),
           UNCHANGED <<migrationVars, faults, probed, up, scenario, replicaVars>>
    PROVE  PartsOK' /\ \A q \in Query : QueryOK(q)'
<1>1. Typed /\ query \in [Query -> Queries]
  BY TypedIsTypeOK DEF IInv, Typed
<1>2. UNCHANGED <<applied, lock, faults, release, migrator, state, dependencies, aim, report,
                  probed, scenario, at, held, served, cleaning>>
  BY DEF ProbeLooks, migrationVars, replicaVars
<1>3. PartsOK'
  BY <1>2, AllUntouched DEF Untouched
<1>4. ASSUME NEW q \in Query PROVE QueryOK(q)'
  <2>1. PICK found : query' = [query EXCEPT ![p].saw = @ \cup {found}]
    BY DEF ProbeLooks
  <2>2. /\ query'[q].at = query[q].at /\ query'[q].by = query[q].by
        /\ query'[q].waits = query[q].waits /\ query'[q].heard = query[q].heard
        /\ query'[q].answer = query[q].answer
    BY <1>1, <2>1 DEF Queries
  <2>3. QueryOK(q)
    BY DEF IInv
  <2> QED BY <1>2, <2>2, <2>3 DEF QueryOK
<1> QED BY <1>3, <1>4

(* A probe that answers is heard by every request that waits.              *)
LEMMA ProbeAnswersStep ==
    ASSUME IInv, NEW p \in Query, NEW d \in Dependency, ProbeAnswers(p, d),
           UNCHANGED <<migrationVars, faults, probed, up, scenario, replicaVars>>
    PROVE  PartsOK' /\ \A q \in Query : QueryOK(q)'
<1>1. /\ Typed /\ query \in [Query -> Queries] /\ QueryOK(p)
      /\ dependencies \in [Replica -> [Dependency -> Readiness]]
  BY TypedIsTypeOK DEF IInv, Typed
<1>2. PICK status \in Readiness :
          /\ query' = [hearing(query[p].by, d, status) EXCEPT ![p].waits = @ \ {d}]
          /\ dependencies' = [dependencies EXCEPT ![query[p].by][d] = status]
  BY DEF ProbeAnswers
<1>3. PICK n \in Replica : n = query[p].by
  BY <1>1 DEF ProbeAnswers, QueryOK
<1>4. /\ query[p].at = "probing" /\ d \in query[p].waits /\ at[n] = "serving"
      /\ d \in probed
  BY <1>1, <1>3 DEF ProbeAnswers, QueryOK
<1>5. UNCHANGED <<applied, lock, faults, release, migrator, state, aim, report,
                  probed, scenario, at, held, served, cleaning>>
  BY DEF ProbeAnswers, migrationVars, replicaVars
<1>6. /\ \A m \in Replica \ {n} : dependencies'[m] = dependencies[m]
      /\ dependencies'[n][d] = status
      /\ \A e \in Dependency \ {d} : dependencies'[n][e] = dependencies[n][e]
  BY <1>1, <1>2, <1>3
<1>7. PartsOK'
  <2>1. MigrationsOK'
    BY <1>5 DEF IInv, MigrationsOK, MigrationOK, inside, migrated, foreign, files
  <2>2. ASSUME NEW m \in Replica PROVE InitialisedOK(m)' /\ ProcessOK(m)'
    <3>1. InitialisedOK(m)'
      BY <1>4, <1>5 DEF InitialisedOK
    <3>2. ProcessOK(m)
      BY DEF IInv
    <3>3. m = n \/ dependencies'[m] = dependencies[m]
      BY <1>6
    <3>4. ProcessOK(m)'
      BY <1>4, <1>5, <3>2, <3>3 DEF ProcessOK
    <3> QED BY <3>1, <3>4
  <2> QED BY <2>1, <2>2 DEF PartsOK
<1>8. ASSUME NEW q \in Query PROVE QueryOK(q)'
  <2>1. QueryOK(q) /\ query[q] \in Queries
    BY <1>1 DEF IInv
  <2>2. /\ query'[q].at = query[q].at /\ query'[q].by = query[q].by
        /\ query'[q].answer = query[q].answer
        /\ query'[q].waits = IF q = p THEN query[q].waits \ {d} ELSE query[q].waits
        /\ query'[q].heard = IF query[q].by = n /\ query[q].at = "probing" /\ status = "ready"
                             THEN query[q].heard \cup {d} ELSE query[q].heard
    <3>1. PICK h : h = hearing(n, d, status)
      OBVIOUS
    <3>2. query' = [h EXCEPT ![p].waits = @ \ {d}]
      BY <1>2, <1>3, <3>1
    <3>3. DOMAIN h = Query
      BY <3>1 DEF hearing
    <3>4. h[q] = IF query[q].by = n /\ query[q].at = "probing" /\ status = "ready"
                 THEN [query[q] EXCEPT !.heard = @ \cup {d}] ELSE query[q]
      BY <3>1 DEF hearing
    <3>5. /\ h[q].at = query[q].at /\ h[q].by = query[q].by
          /\ h[q].answer = query[q].answer /\ h[q].waits = query[q].waits
          /\ h[q].heard = IF query[q].by = n /\ query[q].at = "probing" /\ status = "ready"
                          THEN query[q].heard \cup {d} ELSE query[q].heard
          /\ DOMAIN h[q] = {"at", "by", "waits", "saw", "heard", "answer"}
      BY <2>1, <3>4 DEF Queries
    <3>6. query'[q] = IF q = p THEN [h[q] EXCEPT !.waits = @ \ {d}] ELSE h[q]
      BY <3>2, <3>3
    <3>7. PICK x : x = h[q]
      OBVIOUS
    <3> QED BY <3>5, <3>6, <3>7
  <2>3. query[q].answer = "ready" => query[q].at = "answered"
    BY <2>1 DEF QueryOK
  <2>4. query'[q].answer = "ready" => probed \subseteq query'[q].heard
    BY <2>1, <2>2 DEF QueryOK
  <2>5. ASSUME query[q].at = "probing"
        PROVE  /\ query'[q].by \in Replica /\ at[query'[q].by] = "serving"
               /\ query'[q].waits \subseteq probed
               /\ \A e \in probed \ query'[q].waits :
                     dependencies'[query'[q].by][e] = "ready" => e \in query'[q].heard
    <3>1. /\ query[q].by \in Replica /\ at[query[q].by] = "serving" /\ query[q].waits \subseteq probed
          /\ \A e \in probed \ query[q].waits :
                dependencies[query[q].by][e] = "ready" => e \in query[q].heard
      BY <2>1, <2>5 DEF QueryOK
    <3>2. ASSUME NEW e \in probed \ query'[q].waits, dependencies'[query[q].by][e] = "ready"
          PROVE  e \in query'[q].heard
      <4>1. e \in Dependency
        BY <1>1 DEF Typed
      <4>2. CASE query[q].by = n /\ e = d
        BY <1>6, <2>2, <2>5, <3>2, <4>2
      <4>3. CASE query[q].by # n \/ e # d
        <5>1. dependencies'[query[q].by][e] = dependencies[query[q].by][e]
          BY <1>6, <3>1, <4>1, <4>3
        <5>2. e \notin query[q].waits
          BY <1>3, <2>2, <3>2, <4>3
        <5>3. query[q].heard \subseteq query'[q].heard
          BY <2>2
        <5> QED BY <3>1, <3>2, <5>1, <5>2, <5>3
      <4> QED BY <4>2, <4>3
    <3>3. query'[q].waits \subseteq query[q].waits
      BY <2>2
    <3> QED BY <2>2, <3>1, <3>2, <3>3
  <2> QED BY <1>5, <2>1, <2>2, <2>4, <2>5 DEF QueryOK
<1> QED BY <1>7, <1>8

(* "ready" is answered when no probe is waited for, so each has been heard *)
(* to find its dependency ready.                                           *)
LEMMA AnswerReadinessStep ==
    ASSUME IInv, NEW p \in Query, AnswerReadiness(p),
           UNCHANGED <<migrationVars, faults, probed, up, scenario, replicaVars>>
    PROVE  PartsOK' /\ \A q \in Query : QueryOK(q)'
<1>1. /\ Typed /\ query \in [Query -> Queries] /\ QueryOK(p) /\ state \in [Replica -> State]
      /\ probed \subseteq Dependency
  BY TypedIsTypeOK DEF IInv, Typed
<1>2. PICK n \in Replica : n = query[p].by
  BY <1>1 DEF AnswerReadiness, QueryOK
<1>3. PICK s : s = applyDependencyState(n, dependencies[n])
  OBVIOUS
<1>4. /\ query[p].at = "probing" /\ query[p].waits = {}
      /\ state' = [state EXCEPT ![n] = s]
      /\ query' = [query EXCEPT ![p].at = "answered", ![p].answer = s]
  BY <1>2, <1>3 DEF AnswerReadiness
<1>5. UNCHANGED <<applied, lock, faults, release, migrator, dependencies, aim, report,
                  probed, scenario, at, held, served, cleaning>>
  BY DEF AnswerReadiness, migrationVars, replicaVars
<1>6. /\ s = "ready" => \A d \in Dependency : dependencies[n][d] = "ready"
      /\ s \in {"starting", "ready", "degraded"} <=> state[n] \in {"starting", "ready", "degraded"}
  <2>1. CASE state[n] \in {"starting", "ready", "degraded"}
    BY <1>3, <2>1 DEF applyDependencyState, nextOperationalState
  <2>2. CASE state[n] \notin {"starting", "ready", "degraded"}
    BY <1>3, <2>2 DEF applyDependencyState
  <2> QED BY <2>1, <2>2
<1>7. /\ state'[n] = s
      /\ \A m \in Replica \ {n} : state'[m] = state[m]
  BY <1>1, <1>4
<1>8. PartsOK'
  <2>1. MigrationsOK' /\ \A m \in Replica : migrated(m)' <=> migrated(m)
    BY <1>5 DEF IInv, MigrationsOK, MigrationOK, inside, migrated, foreign, files
  <2>2. ASSUME NEW m \in Replica PROVE InitialisedOK(m)' /\ ProcessOK(m)'
    <3>1. InitialisedOK(m) /\ ProcessOK(m)
      BY DEF IInv
    <3>2. InitialisedOK(m)'
      BY <1>5, <1>6, <1>7, <2>1, <3>1 DEF InitialisedOK
    <3>3. ProcessOK(m)'
      BY <1>5, <1>6, <1>7, <3>1 DEF ProcessOK
    <3> QED BY <3>2, <3>3
  <2> QED BY <2>1, <2>2 DEF PartsOK
<1>9. QueryOK(p)'
  <2>1. /\ query'[p].at = "answered" /\ query'[p].answer = s /\ query'[p].heard = query[p].heard
    BY <1>1, <1>4 DEF Queries
  <2>2. s = "ready" => probed \subseteq query[p].heard
    BY <1>1, <1>2, <1>4, <1>6 DEF QueryOK
  <2> QED BY <1>5, <2>1, <2>2 DEF QueryOK
<1>10. ASSUME NEW q \in Query \ {p} PROVE QueryOK(q)'
  <2>1. query'[q] = query[q] /\ QueryOK(q)
    BY <1>1, <1>4 DEF IInv
  <2> QED BY <1>5, <2>1 DEF QueryOK
<1> QED BY <1>8, <1>9, <1>10

-----------------------------------------------------------------------------
(* The shutdown.                                                           *)

LEMMA SignalStep ==
    ASSUME IInv, NEW n \in Replica, Signal(n)
    PROVE  StepOf(n) /\ PartOK(n)' /\ \A q \in Query : QueryOK(q)'
<1>1. Typed /\ served[n] \in Servers /\ InitialisedOK(n) /\ ProcessOK(n)
  BY AtReplica DEF PartOK
<1>2. /\ UNCHANGED <<applied, lock, faults, release, migrator, dependencies, report,
                     query, probed, scenario, at, held, cleaning>>
      /\ at[n] = "serving"
  BY DEF Signal, migrationVars
<1>3. DatabaseStep(n) /\ MigrationOK(n)' /\ (migrated(n)' <=> migrated(n))
  BY <1>2, MigrationsLeft
<1>4. CASE /\ aim[n] = "open" /\ beginStop(n)
           /\ served' = [served EXCEPT ![n].server = "closing"]
  <2>1. /\ aim'[n] = "draining" /\ state'[n] = "draining"
        /\ served'[n].server = "closing" /\ served'[n].inFlight = served[n].inFlight
        /\ \A m \in Replica \ {n} : aim'[m] = aim[m] /\ state'[m] = state[m] /\ served'[m] = served[m]
    BY <1>1, <1>4 DEF beginStop, Typed, Servers
  <2>2. InitialisedOK(n)'
    BY <1>1, <1>2, <1>3, <1>4, <2>1 DEF InitialisedOK
  <2>3. ProcessOK(n)'
    BY <1>1, <1>2, <1>4, <2>1 DEF ProcessOK
  <2>4. \A m \in Replica \ {n} : Untouched(m)
    BY <1>2, <2>1 DEF Untouched
  <2> QED BY <1>2, <1>3, <2>2, <2>3, <2>4, QueriesKept DEF StepOf, PartOK
<1>5. CASE UNCHANGED <<aim, state, served>>
  <2>1. InitialisedOK(n)' /\ ProcessOK(n)'
    BY <1>1, <1>2, <1>3, <1>5 DEF InitialisedOK, ProcessOK
  <2>2. \A m \in Replica \ {n} : Untouched(m)
    BY <1>2, <1>5 DEF Untouched
  <2> QED BY <1>2, <1>3, <2>1, <2>2, QueriesKept DEF StepOf, PartOK
<1> QED BY <1>4, <1>5 DEF Signal

(* The drain ends with the server or with its timer; the clean-up has      *)
(* everything that is held before it.                                      *)
LEMMA EndDrainStep ==
    ASSUME IInv, NEW n \in Replica, NEW outcome \in {"completed", "timed-out"},
           endDrain(n, outcome), beginCleanUp(n),
           \/ served'[n].server = "closed" /\ served'[n].inFlight = 0 /\ at[n] = "serving"
           \/ served' = served /\ outcome = "timed-out",
           \A m \in Replica \ {n} : served'[m] = served[m],
           UNCHANGED <<migrationVars, faults, state, dependencies, query, probed, up, scenario, at,
                       held, allowed>>
    PROVE  StepOf(n) /\ PartOK(n)' /\ \A q \in Query : QueryOK(q)'
<1>1. Typed /\ served[n] \in Servers /\ cleaning[n] \in CleanUps /\ InitialisedOK(n) /\ ProcessOK(n)
  BY AtReplica DEF PartOK
<1>2. UNCHANGED <<applied, lock, faults, release, migrator>>
  BY DEF migrationVars
<1>3. /\ aim[n] = "draining" /\ aim'[n] = "cleaning"
      /\ report'[n].drain = outcome /\ cleaning'[n].left = held[n]
      /\ \A m \in Replica \ {n} :
            aim'[m] = aim[m] /\ report'[m] = report[m] /\ cleaning'[m] = cleaning[m]
  BY <1>1 DEF endDrain, beginCleanUp, Typed, Reports
<1>4. DatabaseStep(n) /\ MigrationOK(n)' /\ (migrated(n)' <=> migrated(n))
  BY <1>2, MigrationsLeft
<1>5. InitialisedOK(n)'
  BY <1>1, <1>3 DEF InitialisedOK, ProcessOK
<1>6. /\ state[n] \notin {"starting", "ready", "degraded"}
      /\ at[n] \notin {"postgres", "redis", "starting", "down"}
      /\ served[n].server # "absent" => at[n] = "serving"
      /\ served[n].server # "open"
      /\ served[n].server \in {"absent", "closed"} => served[n].inFlight = 0
  BY <1>1, <1>3 DEF ProcessOK
<1>7. ProcessOK(n)'
  BY <1>3, <1>6 DEF ProcessOK
<1>8. \A m \in Replica \ {n} : Untouched(m)
  BY <1>2, <1>3 DEF Untouched
<1> QED BY <1>2, <1>4, <1>5, <1>7, <1>8, QueriesKept DEF StepOf, PartOK

LEMMA ServerStopsStep ==
    ASSUME IInv, NEW n \in Replica, ServerStops(n)
    PROVE  StepOf(n) /\ PartOK(n)' /\ \A q \in Query : QueryOK(q)'
<1>1. Typed /\ served[n] \in Servers /\ InitialisedOK(n) /\ ProcessOK(n)
  BY AtReplica DEF PartOK
<1>2. /\ UNCHANGED <<migrationVars, faults, state, dependencies, query, probed, up, scenario, at,
                     held, allowed>>
      /\ served[n].server = "closing" /\ served[n].inFlight = 0
  BY DEF ServerStops
<1>3. /\ served'[n].server = "closed" /\ served'[n].inFlight = 0
      /\ \A m \in Replica \ {n} : served'[m] = served[m]
  BY <1>1, <1>2 DEF ServerStops, Typed, Servers
<1>4. at[n] = "serving"
  BY <1>1, <1>2 DEF ProcessOK
<1>5. CASE endDrain(n, "completed") /\ beginCleanUp(n)
  <2>1. "completed" \in {"completed", "timed-out"}
    OBVIOUS
  <2> QED BY <1>2, <1>3, <1>4, <1>5, <2>1, EndDrainStep
<1>6. CASE UNCHANGED <<aim, report, cleaning>>
  <2>1. UNCHANGED <<applied, lock, release, migrator>>
    BY <1>2 DEF migrationVars
  <2>2. DatabaseStep(n) /\ MigrationOK(n)' /\ (migrated(n)' <=> migrated(n))
    BY <1>2, <2>1, MigrationsLeft
  <2>3. InitialisedOK(n)'
    BY <1>1, <1>2, <1>6, <2>2 DEF InitialisedOK
  <2>4. ProcessOK(n)'
    BY <1>1, <1>2, <1>3, <1>4, <1>6, <2>1 DEF ProcessOK
  <2>5. \A m \in Replica \ {n} : Untouched(m)
    BY <1>2, <1>3, <1>6, <2>1 DEF Untouched
  <2> QED BY <1>2, <2>2, <2>3, <2>4, <2>5, QueriesKept DEF StepOf, PartOK
<1> QED BY <1>5, <1>6 DEF ServerStops

LEMMA DrainTimesOutStep ==
    ASSUME IInv, NEW n \in Replica, DrainTimesOut(n)
    PROVE  StepOf(n) /\ PartOK(n)' /\ \A q \in Query : QueryOK(q)'
BY EndDrainStep DEF DrainTimesOut

\* While nothing failed, what is closed before the policy is the policy.
LEMMA PolicyGoesFirst ==
    ASSUME IInv, NEW n \in Replica, NEW r \in Resource, CloseResource(n, r),
           faults = scenario.faults, "policy" \in held[n]
    PROVE  r = "policy"
<1>1. ProcessOK(n)
  BY AtReplica DEF PartOK
<1> QED BY <1>1 DEF ProcessOK, CloseResource, closeNext

LEMMA CloseResourceStep ==
    ASSUME IInv, NEW n \in Replica, NEW r \in Resource, CloseResource(n, r)
    PROVE  StepOf(n) /\ PartOK(n)' /\ \A q \in Query : QueryOK(q)'
<1>1. /\ Typed /\ cleaning[n] \in CleanUps /\ InitialisedOK(n) /\ ProcessOK(n)
      /\ faults \in Nat /\ scenario.faults \in Nat /\ faults <= scenario.faults
  BY AtReplica DEF PartOK
<1>2. /\ UNCHANGED <<applied, lock, release, migrator, state, dependencies, aim, report, query,
                     probed, scenario, at, served>>
      /\ aim[n] = "cleaning"
      /\ \/ held' = [held EXCEPT ![n] = @ \ {r}] /\ faults' = faults
         \/ fault /\ held' = held
  BY DEF CloseResource, migrationVars, lifecycleVars
<1>3. DatabaseStep(n) /\ MigrationOK(n)' /\ (migrated(n)' <=> migrated(n))
  BY <1>2, MigrationsLeft
<1>4. InitialisedOK(n)'
  BY <1>1, <1>2 DEF InitialisedOK, ProcessOK
<1>5. /\ cleaning'[n].left = cleaning[n].left \ {r}
      /\ \A m \in Replica \ {n} : cleaning'[m] = cleaning[m] /\ held'[m] = held[m]
      /\ held'[n] \subseteq held[n]
  BY <1>1, <1>2 DEF CloseResource, Typed, CleanUps
<1>6. ASSUME faults' = scenario'.faults, "policy" \in held'[n]
      PROVE  "policy" \in cleaning'[n].left
  <2>1. held' = [held EXCEPT ![n] = @ \ {r}] /\ faults = scenario.faults
    BY <1>1, <1>2, <1>6 DEF fault
  <2>2. "policy" \in held[n] /\ r # "policy"
    BY <1>1, <1>5, <1>6, <2>1 DEF Typed
  <2> QED BY <2>1, <2>2, PolicyGoesFirst
<1>7. ProcessOK(n)'
  BY <1>1, <1>2, <1>5, <1>6 DEF ProcessOK
<1>8. \A m \in Replica \ {n} : Untouched(m)
  BY <1>2, <1>5 DEF Untouched
<1> QED BY <1>2, <1>3, <1>4, <1>7, <1>8, QueriesKept DEF StepOf, PartOK

(* A process that goes leaves none of its requests waiting.                *)
LEMMA GoneQueries ==
    ASSUME IInv, NEW n \in Replica, gone(n), UNCHANGED probed,
           \A m \in Replica \ {n} : dependencies'[m] = dependencies[m]
    PROVE  /\ at'[n] = "down" /\ held'[n] = {}
           /\ served'[n].server = "absent" /\ served'[n].inFlight = 0
           /\ \A m \in Replica \ {n} : at'[m] = at[m] /\ held'[m] = held[m] /\ served'[m] = served[m]
           /\ \A q \in Query : QueryOK(q)'
<1>1. Typed /\ query \in [Query -> Queries]
  BY AtReplica DEF Typed
<1>2. /\ at'[n] = "down" /\ held'[n] = {}
      /\ served'[n].server = "absent" /\ served'[n].inFlight = 0
      /\ \A m \in Replica \ {n} : at'[m] = at[m] /\ held'[m] = held[m] /\ served'[m] = served[m]
  BY <1>1 DEF gone, NoServer, Typed
<1>3. ASSUME NEW q \in Query PROVE QueryOK(q)'
  <2>1. QueryOK(q) /\ query[q] \in Queries
    BY <1>1 DEF IInv
  <2>2. CASE query[q].by = n /\ query[q].at = "probing"
    <3>1. query'[q] = [query[q] EXCEPT !.at = "answered"]
      BY <2>2 DEF gone
    <3>2. query'[q].at = "answered" /\ query'[q].answer = query[q].answer
      BY <2>1, <3>1 DEF Queries
    <3>3. query[q].answer = "none"
      BY <2>1, <2>2 DEF QueryOK
    <3> QED BY <3>2, <3>3 DEF QueryOK
  <2>3. CASE ~(query[q].by = n /\ query[q].at = "probing")
    <3>1. query'[q] = query[q]
      BY <2>3 DEF gone
    <3> QED BY <1>2, <2>1, <2>3, <3>1 DEF QueryOK
  <2> QED BY <2>2, <2>3
<1> QED BY <1>2, <1>3

LEMMA ExitStep ==
    ASSUME IInv, NEW n \in Replica, Exit(n)
    PROVE  StepOf(n) /\ PartOK(n)' /\ \A q \in Query : QueryOK(q)'
<1>1. Typed /\ InitialisedOK(n) /\ ProcessOK(n)
  BY AtReplica DEF PartOK
<1>2. UNCHANGED <<applied, lock, faults, release, migrator, dependencies, probed, scenario, cleaning>>
  BY DEF Exit, migrationVars
<1>3. /\ at'[n] = "down" /\ held'[n] = {}
      /\ served'[n].server = "absent" /\ served'[n].inFlight = 0
      /\ \A m \in Replica \ {n} : at'[m] = at[m] /\ held'[m] = held[m] /\ served'[m] = served[m]
      /\ \A q \in Query : QueryOK(q)'
  BY <1>2, GoneQueries DEF Exit
<1>4. /\ aim'[n] = "over" /\ state'[n] = "stopped"
      /\ \A m \in Replica \ {n} : aim'[m] = aim[m] /\ state'[m] = state[m] /\ report'[m] = report[m]
  BY <1>1 DEF Exit, endCleanUp, Typed
<1>5. DatabaseStep(n) /\ MigrationOK(n)' /\ (migrated(n)' <=> migrated(n))
  BY <1>2, MigrationsLeft
<1>6. InitialisedOK(n)' /\ ProcessOK(n)'
  BY <1>3, <1>4 DEF InitialisedOK, ProcessOK
<1>7. \A m \in Replica \ {n} : Untouched(m)
  BY <1>2, <1>3, <1>4 DEF Untouched
<1> QED BY <1>3, <1>5, <1>6, <1>7 DEF StepOf, PartOK

(* A process that dies while it commits may leave its row behind, under    *)
(* the lock that its session still holds.                                  *)
LEMMA DieStep ==
    ASSUME IInv, TypeOK', NEW n \in Replica, Die(n)
    PROVE  StepOf(n) /\ PartOK(n)' /\ \A q \in Query : QueryOK(q)'
<1>1. Typed /\ MigrationOK(n) /\ applied \in Seq(Checksum)
  BY AtReplica DEF PartOK
<1>2. UNCHANGED <<release, faults, probed, scenario>>
  BY DEF Die
<1>3. /\ state'[n] = "starting" /\ aim'[n] = "open" /\ cleaning'[n].begun = 0
      /\ migrator'[n].at = "idle" /\ migrator'[n].result = "none"
      /\ \A d \in Dependency : dependencies'[n][d] = "unavailable"
      /\ \A m \in Replica \ {n} : state'[m] = state[m] /\ aim'[m] = aim[m] /\ report'[m] = report[m]
      /\ \A m \in Replica \ {n} : dependencies'[m] = dependencies[m] /\ cleaning'[m] = cleaning[m]
      /\ \A m \in Replica \ {n} : migrator'[m] = migrator[m]
  BY <1>1 DEF Die, forgets, NoCleaning, NoMigrator, Typed
<1>4. /\ at'[n] = "down" /\ held'[n] = {}
      /\ served'[n].server = "absent" /\ served'[n].inFlight = 0
      /\ \A m \in Replica \ {n} : at'[m] = at[m] /\ held'[m] = held[m] /\ served'[m] = served[m]
      /\ \A q \in Query : QueryOK(q)'
  BY <1>2, <1>3, GoneQueries DEF Die
<1>5. DatabaseStep(n)
  <2>1. Typed'
    BY <1>1, DieTypes
  <2>2. Grows /\ (lock # n => applied' = applied)
    <3>1. CASE UNCHANGED applied
      BY <1>1, <3>1 DEF Grows
    <3>2. CASE migrator[n].at = "committing" /\ commits(n)
      BY <1>1, <1>2, <2>1, <3>2, CommitGrows
    <3> QED BY <3>1, <3>2 DEF Die, migratorDies
  <2>3. \A m \in Replica \ {n} : lock = m => lock' = m
    BY DEF Die, migratorDies, discarded
  <2>4. faults' <= faults
    BY <1>1, <1>2 DEF Typed
  <2> QED BY <1>2, <2>2, <2>3, <2>4 DEF DatabaseStep
<1>6. MigrationOK(n)'
  BY <1>3 DEF MigrationOK, inside
<1>7. Dependency # {}
  BY <1>1, ConstantTypes
<1>8. InitialisedOK(n)' /\ ProcessOK(n)'
  BY <1>3, <1>4, <1>7, <1>1, ConstantTypes DEF InitialisedOK, ProcessOK
<1>9. \A m \in Replica \ {n} : Untouched(m)
  BY <1>2, <1>3, <1>4 DEF Untouched
<1> QED BY <1>4, <1>5, <1>6, <1>8, <1>9 DEF StepOf, PartOK

-----------------------------------------------------------------------------
(* The invariant, and what follows from it.                                *)

LEMMA InitTypes ==
    ASSUME ReplicaInit PROVE Typed
<1>1. /\ scenario \in Scenario /\ scenario.releases \in [Replica -> Releases]
      /\ scenario.probed \subseteq Dependency /\ scenario.faults \in Nat
      /\ scenario.deaths \in Nat /\ scenario.outages \in Nat
      /\ scenario.signals \in Nat /\ scenario.requests \in Nat
  BY ReplicaAssumption DEF ReplicaInit
<1>2. applied \in Seq(Checksum) /\ lock \in Replica \cup {Nobody, "lost"}
  BY DEF ReplicaInit, MigrationInit
<1>3. migrator \in [Replica -> Migrators]
  BY DEF ReplicaInit, MigrationInit, NoMigrator, Migrators
<1>4. state \in [Replica -> State] /\ aim \in [Replica -> Aims]
  BY DEF ReplicaInit, LifecycleInit, State, Aims
<1>5. dependencies \in [Replica -> [Dependency -> Readiness]]
  BY DEF ReplicaInit, LifecycleInit, Readiness
<1>6. report \in [Replica -> Reports]
  BY DEF ReplicaInit, LifecycleInit, NoReport, Reports, Outcomes
<1>7. query \in [Query -> Queries]
  BY DEF ReplicaInit, LifecycleInit, NoQuery, Queries
<1>8. up \subseteq Dependency
  BY DEF ReplicaInit, LifecycleInit
<1>9. at \in [Replica -> Places] /\ held \in [Replica -> SUBSET Resource]
  BY DEF ReplicaInit, Places
<1>10. served \in [Replica -> Servers]
  BY DEF ReplicaInit, NoServer, Servers
<1>11. cleaning \in [Replica -> CleanUps]
  BY DEF ReplicaInit, NoCleaning, CleanUps
<1>12. allowed \in Budgets
  BY <1>1 DEF ReplicaInit, Budgets
<1>13. /\ release \in [Replica -> Releases] /\ faults \in Nat /\ probed \subseteq Dependency
  BY <1>1 DEF ReplicaInit
<1> QED BY <1>1, <1>2, <1>3, <1>4, <1>5, <1>6, <1>7, <1>8, <1>9, <1>10, <1>11, <1>12, <1>13
           DEF Typed

LEMMA InitIInv ==
    ASSUME ReplicaInit PROVE IInv
<1>1. Typed /\ TypeOK
  BY InitTypes, TypedIsTypeOK
<1>2. MigrationsOK
  <2>1. faults <= scenario.faults
    BY <1>1 DEF ReplicaInit, Typed
  <2>2. ASSUME NEW n \in Replica PROVE MigrationOK(n)
    <3>1. migrator[n].at = "idle" /\ migrator[n].result = "none"
      BY DEF ReplicaInit, MigrationInit, NoMigrator
    <3> QED BY <3>1 DEF MigrationOK, inside
  <2> QED BY <2>1, <2>2 DEF MigrationsOK
<1>3. ASSUME NEW n \in Replica PROVE InitialisedOK(n) /\ ProcessOK(n)
  <2>1. /\ state[n] = "starting" /\ aim[n] = "open" /\ at[n] = "down"
        /\ served[n].server = "absent" /\ served[n].inFlight = 0 /\ cleaning[n].begun = 0
        /\ \A d \in Dependency : dependencies[n][d] = "unavailable"
    BY DEF ReplicaInit, LifecycleInit, NoServer, NoCleaning
  <2>2. Dependency = {"postgres", "redis"}
    BY ReplicaAssumption
  <2> QED BY <2>1, <2>2 DEF InitialisedOK, ProcessOK
<1>4. ASSUME NEW q \in Query PROVE QueryOK(q)
  <2>1. query[q].at = "idle" /\ query[q].answer = "none"
    BY DEF ReplicaInit, LifecycleInit, NoQuery
  <2> QED BY <2>1 DEF QueryOK
<1> QED BY <1>1, <1>2, <1>3, <1>4 DEF IInv

LEMMA OneReplicaStep ==
    ASSUME IInv, TypeOK', NEW n \in Replica,
           \/ StartProcess(n) \/ StartUp(n) \/ Arrives(n) \/ Answered(n)
           \/ Signal(n) \/ ShutDown(n) \/ Die(n)
    PROVE  PartsOK' /\ \A q \in Query : QueryOK(q)'
<1>1. StepOf(n) /\ PartOK(n)' /\ \A q \in Query : QueryOK(q)'
  BY StartProcessStep, MigrateStep, PostgresReadyStep, RedisReadyStep, ListenStep, RequestStep,
     SignalStep, ServerStopsStep, DrainTimesOutStep, CloseResourceStep, ExitStep, DieStep
     DEF StartUp, ShutDown
<1> QED BY <1>1, StepKeepsParts DEF PartsOK

LEMMA ReadyRequestStep ==
    ASSUME IInv, ReadyRequest
    PROVE  PartsOK' /\ \A q \in Query : QueryOK(q)'
<1>1. scenario.queries \subseteq Query
  BY ConstantTypes, TypedIsTypeOK DEF IInv
<1> QED BY <1>1, AskReadinessStep, ProbeLooksStep, ProbeAnswersStep, AnswerReadinessStep
        DEF ReadyRequest

LEMMA NextKeeps ==
    ASSUME IInv, [ReplicaNext]_deploymentVars PROVE IInv'
<1>1. CASE ReplicaNext
  <2>1. TypeOK'
    BY <1>1, TypesKept
  <2>2. PartsOK' /\ \A q \in Query : QueryOK(q)'
    BY <1>1, <2>1, OneReplicaStep, ReadyRequestStep, OutageStep, LostSessionStep DEF ReplicaNext
  <2> QED BY <2>1, <2>2 DEF IInv, PartsOK
<1>2. CASE UNCHANGED deploymentVars
  <2>1. UNCHANGED <<applied, lock, release, migrator, faults, state, dependencies, aim, report, query,
                    probed, up, scenario, at, held, served, cleaning, allowed>>
    BY <1>2 DEF deploymentVars, migrationVars, lifecycleVars, replicaVars
  <2>2. TypeOK'
    BY <2>1 DEF IInv, TypeOK, MigrationTypeOK, LifecycleTypeOK
  <2>3. PartsOK'
    BY <2>1, AllUntouched DEF Untouched
  <2>4. \A q \in Query : QueryOK(q)'
    BY <2>1, QueriesKept
  <2> QED BY <2>2, <2>3, <2>4 DEF IInv, PartsOK
<1> QED BY <1>1, <1>2

(* The inductive invariant of the replicas: the lock covers what a         *)
(* migration read (runPostgresMigrations), and what a replica says of      *)
(* itself is what its start has opened and its shutdown has not closed     *)
(* (start.ts, HaLifecycleController).                                      *)
THEOREM InductiveInvariant == ReplicaSpec => []IInv
<1>1. ReplicaInit => IInv
  BY InitIInv
<1>2. IInv /\ [ReplicaNext]_deploymentVars => IInv'
  BY NextKeeps
<1> QED BY <1>1, <1>2, PTL DEF ReplicaSpec

(* Every variable keeps its type, for any number of replicas, releases,    *)
(* requests and failures.                                                  *)
THEOREM ReplicaTypes == ReplicaSpec => []TypeOK
<1>1. IInv => TypeOK
  BY DEF IInv
<1> QED BY <1>1, InductiveInvariant, PTL

LEMMA IInvStartsRightly ==
    ASSUME IInv PROVE StartedRightly
<1>1. ASSUME NEW n \in Replica, state[n] = "ready", probed = {}
      PROVE  /\ {"postgres", "redis", "policy"} \subseteq held[n]
             /\ Len(applied) >= Len(files(n))
             /\ \A v \in 1..Len(files(n)) : applied[v] = files(n)[v]
  <2>1. InitialisedOK(n) /\ ProcessOK(n) /\ Dependency = {"postgres", "redis"}
    BY AtReplica, ConstantTypes DEF PartOK
  <2>2. aim[n] = "open"
    BY <1>1, <2>1 DEF ProcessOK
  <2>3. /\ {"postgres", "redis", "policy"} \subseteq held[n]
        /\ migrated(n)
    BY <1>1, <2>1, <2>2 DEF InitialisedOK
  <2>4. Len(applied) \in Nat /\ Len(files(n)) \in Nat
    BY AtReplica
  <2> QED BY <2>3, <2>4 DEF migrated
<1>2. RefusedForCause
  BY DEF IInv, MigrationsOK, MigrationOK, RefusedForCause
<1> QED BY <1>1, <1>2 DEF StartedRightly, ReadyMeansInitialised

(* A replica that says it is ready has its schema, its authorities and its *)
(* policy runtime, and one whose migrations fail does so for a reason of   *)
(* its own, however many replicas migrate together and whichever of them   *)
(* die (start.ts, migrations.ts).                                          *)
THEOREM StartsRightly == ReplicaSpec => []StartedRightly
<1>1. IInv => StartedRightly
  BY IInvStartsRightly
<1> QED BY <1>1, InductiveInvariant, PTL

LEMMA IInvKeepsResources ==
    ASSUME IInv PROVE ResourcesOutliveRequests
<1>1. ASSUME NEW n \in Replica, served[n].inFlight > 0, report[n].drain # "timed-out",
             NEW d \in Dependency, dependencies[n][d] = "ready", probed = {}
      PROVE  d \in held[n]
  <2>1. InitialisedOK(n) /\ ProcessOK(n) /\ served[n] \in Servers /\ Typed
    BY AtReplica DEF PartOK
  <2>2. served[n].server \notin {"absent", "closed"}
    BY <1>1, <2>1 DEF ProcessOK
  <2>3. aim[n] \notin {"cleaning", "over"}
    <3>1. at[n] = "serving"
      BY <2>1, <2>2 DEF ProcessOK
    <3> QED BY <1>1, <2>1, <2>2, <3>1 DEF ProcessOK
  <2>4. aim[n] \in {"open", "draining"}
    BY <2>1, <2>3 DEF Typed, Aims
  <2> QED BY <1>1, <2>1, <2>4 DEF InitialisedOK
<1> QED BY <1>1 DEF ResourcesOutliveRequests

LEMMA NextClosesPolicyFirst ==
    ASSUME IInv, [ReplicaNext]_deploymentVars PROVE PolicyClosedFirst
<1> SUFFICES ASSUME NEW m \in Replica, at'[m] = "serving", "policy" \in held'[m],
                    faults = scenario.faults
             PROVE  ({"redis", "postgres"} \cap held[m]) \subseteq held'[m]
  BY DEF PolicyClosedFirst
<1>1. Typed /\ ProcessOK(m)
  BY AtReplica DEF PartOK
<1>2. CASE UNCHANGED held
  BY <1>2
<1>3. ASSUME NEW n \in Replica, NEW r \in Resource, CloseResource(n, r),
             held' = [held EXCEPT ![n] = @ \ {r}]
      PROVE  ({"redis", "postgres"} \cap held[m]) \subseteq held'[m]
  <2>1. n # m => held'[m] = held[m]
    BY <1>1, <1>3 DEF Typed
  <2>2. CASE n = m
    <3>1. held'[m] = held[m] \ {r}
      BY <1>1, <1>3, <2>2 DEF Typed
    <3>2. "policy" \in held[m] /\ r # "policy"
      BY <3>1
    <3> QED BY <1>3, <2>2, <3>2, PolicyGoesFirst
  <2> QED BY <2>1, <2>2
<1>4. ASSUME NEW n \in Replica, gone(n) \/ at'[n] \in {"postgres", "redis", "starting"},
             \A k \in Replica \ {n} : held'[k] = held[k]
      PROVE  held'[m] = held[m]
  BY <1>1, <1>4 DEF gone, Typed
<1>5. ASSUME NEW n \in Replica, StartProcess(n) PROVE held'[m] = held[m]
  BY <1>1, <1>4, <1>5 DEF StartProcess, Typed
<1>6. ASSUME NEW n \in Replica, PostgresReady(n) \/ RedisReady(n) PROVE held'[m] = held[m]
  <2>1. at'[n] \in {"redis", "starting"} /\ \A k \in Replica \ {n} : held'[k] = held[k]
    BY <1>1, <1>6 DEF PostgresReady, RedisReady, Typed
  <2> QED BY <1>4, <2>1
<1>7. ASSUME NEW n \in Replica, Exit(n) \/ Die(n) PROVE held'[m] = held[m]
  <2>1. gone(n)
    BY <1>7 DEF Exit, Die
  <2> QED BY <1>1, <1>4, <2>1 DEF gone, Typed
<1>8. ASSUME NEW n \in Replica,
             Migrate(n) \/ Listen(n) \/ Arrives(n) \/ Answered(n) \/ Signal(n) \/ ServerStops(n)
                 \/ DrainTimesOut(n)
      PROVE  UNCHANGED held
  BY <1>8 DEF Migrate, Listen, Arrives, Answered, Signal, ServerStops, DrainTimesOut, replicaVars
<1>9. ASSUME LostSession \/ ReadyRequest \/ (\E d \in Dependency : Outage(d)) \/ UNCHANGED deploymentVars
      PROVE  UNCHANGED held
  BY <1>9 DEF LostSession, ReadyRequest, Outage, replicaVars, deploymentVars
<1>10. ASSUME NEW n \in Replica, NEW r \in Resource, CloseResource(n, r)
       PROVE  ({"redis", "postgres"} \cap held[m]) \subseteq held'[m]
  BY <1>2, <1>3, <1>10 DEF CloseResource
<1> QED BY <1>2, <1>5, <1>6, <1>7, <1>8, <1>9, <1>10 DEF ReplicaNext, StartUp, ShutDown

(* Nothing is closed under a request in flight before the drain has run    *)
(* out of time, nor under the policy runtime (onStop of start.ts).         *)
THEOREM ResourcesAreKept == ReplicaSpec => ResourcesOutliveUsers
<1>1. IInv /\ [ReplicaNext]_deploymentVars => IInv'
  BY NextKeeps
<1>2. IInv /\ IInv' /\ [ReplicaNext]_deploymentVars => [ResourcesOutliveRequests' /\ PolicyClosedFirst]_deploymentVars
  <2>1. IInv => ResourcesOutliveRequests
    BY IInvKeepsResources
  <2>2. IInv' => ResourcesOutliveRequests'
    BY <2>1, PTL
  <2>3. IInv /\ [ReplicaNext]_deploymentVars => PolicyClosedFirst
    BY NextClosesPolicyFirst
  <2> QED BY <2>2, <2>3
<1> QED BY <1>1, <1>2, InductiveInvariant, PTL DEF ReplicaSpec, ResourcesOutliveUsers

LEMMA IInvHears ==
    ASSUME IInv PROVE ReadyIsHeard
BY DEF IInv, QueryOK, ReadyIsHeard

DrainedStays ==
    \A n \in Replica :
        state[n] \in {"draining", "stopped"} =>
            state'[n] \in {"draining", "stopped"} \/ at'[n] \in {"down", "postgres"}

LEMMA NextDrainsForGood ==
    ASSUME IInv, [ReplicaNext]_deploymentVars PROVE DrainedStays
<1> SUFFICES ASSUME NEW m \in Replica, state[m] \in {"draining", "stopped"}
             PROVE  state'[m] \in {"draining", "stopped"} \/ at'[m] \in {"down", "postgres"}
  BY DEF DrainedStays
<1>1. /\ Typed /\ ProcessOK(m) /\ state \in [Replica -> State]
      /\ query \in [Query -> Queries]
  BY AtReplica DEF PartOK, Typed
<1>2. at[m] \notin {"postgres", "redis", "starting"} /\ aim[m] # "open"
  BY <1>1 DEF ProcessOK
<1>3. CASE UNCHANGED state
  BY <1>3
<1>4. ASSUME NEW n \in Replica, StartProcess(n) \/ Die(n)
      PROVE  state'[m] = state[m] \/ at'[m] \in {"down", "postgres"}
  BY <1>1, <1>4 DEF StartProcess, Die, forgets, gone, Typed
<1>5. ASSUME NEW n \in Replica, PostgresReady(n) \/ RedisReady(n) \/ Listen(n)
      PROVE  state'[m] = state[m]
  <2>1. n # m
    BY <1>2, <1>5 DEF PostgresReady, RedisReady, Listen
  <2> QED BY <1>1, <1>5, <2>1
          DEF PostgresReady, RedisReady, Listen, recordDependency, startLifecycle
<1>6. ASSUME NEW n \in Replica, Signal(n) \/ Exit(n)
      PROVE  state'[m] \in {"draining", "stopped"}
  BY <1>1, <1>6 DEF Signal, Exit, beginStop, endCleanUp
<1>7. ASSUME NEW q \in Query, AnswerReadiness(q) PROVE state'[m] = state[m]
  <2>1. PICK n \in Replica : n = query[q].by
    BY <1>7 DEF IInv, AnswerReadiness, QueryOK
  <2>2. state' = [state EXCEPT ![n] = applyDependencyState(n, dependencies[n])]
    BY <1>7, <2>1 DEF AnswerReadiness
  <2>3. n = m => applyDependencyState(n, dependencies[n]) = state[m]
    BY DEF applyDependencyState
  <2>4. PICK s : s = applyDependencyState(n, dependencies[n])
    OBVIOUS
  <2>5. state' = [state EXCEPT ![n] = s] /\ (n = m => s = state[m])
    BY <2>2, <2>3, <2>4
  <2> QED BY <1>1, <2>5
<1>8. ASSUME NEW n \in Replica,
             \/ Migrate(n) \/ Arrives(n) \/ Answered(n) \/ ServerStops(n) \/ DrainTimesOut(n)
             \/ \E r \in Resource : CloseResource(n, r)
      PROVE  UNCHANGED state
  BY <1>8 DEF Migrate, Arrives, Answered, ServerStops, DrainTimesOut, CloseResource, lifecycleVars
<1>9. ASSUME ReadyRequest PROVE state'[m] = state[m]
  <2>1. ASSUME NEW q \in Query, NEW n \in Replica, AskReadiness(q, n) PROVE UNCHANGED state
    BY <2>1 DEF AskReadiness
  <2>2. ASSUME NEW q \in Query, NEW d \in Dependency, ProbeLooks(q, d) \/ ProbeAnswers(q, d)
        PROVE  UNCHANGED state
    BY <2>2 DEF ProbeLooks, ProbeAnswers
  <2>3. scenario.queries \subseteq Query
    BY <1>1, ConstantTypes
  <2> QED BY <1>7, <1>9, <2>1, <2>2, <2>3 DEF ReadyRequest
<1>10. ASSUME LostSession \/ (\E d \in Dependency : Outage(d)) \/ UNCHANGED deploymentVars
       PROVE  UNCHANGED state
  BY <1>10 DEF LostSession, Outage, lifecycleVars, deploymentVars
<1> QED BY <1>3, <1>4, <1>5, <1>6, <1>8, <1>9, <1>10 DEF ReplicaNext, StartUp, ShutDown

(* "ready" is answered for what every probe has found while the request    *)
(* waited, and never again by a replica that drains                        *)
(* (HaLifecycleController.readiness, applyDependencyState).                *)
THEOREM ReadinessIsEarned == ReplicaSpec => ReadyIsEarned
<1>1. IInv => ReadyIsHeard
  BY IInvHears
<1>2. IInv /\ [ReplicaNext]_deploymentVars => [DrainedStays]_deploymentVars
  BY NextDrainsForGood
<1>3. ReplicaSpec => DrainedForGood
  <2>1. ReplicaSpec => [][DrainedStays]_deploymentVars
    BY <1>2, InductiveInvariant, PTL DEF ReplicaSpec
  <2> QED BY <2>1 DEF DrainedForGood, DrainedStays
<1> QED BY <1>1, <1>3, InductiveInvariant, PTL DEF ReadyIsEarned
===============================================================================
