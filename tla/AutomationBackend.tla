------------------------- MODULE AutomationBackend -------------------------
(***************************************************************************)
(* The API's side of distributed browser automation                        *)
(* (RedisDistributedAutomationBackend), with the hosts that run its jobs:  *)
(* imports that share a job through the idempotency key of one login, the  *)
(* CAPTCHA challenges the job raises, the requests that settle them, and   *)
(* the control stream that brings answers and cancellations to the hosts.  *)
(*                                                                         *)
(* How a host runs a job, with its lease, its retries and the numbers of   *)
(* its events, is AutomationJob's matter: here a host takes a job once and *)
(* does not crash.  A run raises at most one challenge.                    *)
(***************************************************************************)
EXTENDS Integers, FiniteSets

CONSTANTS
    Import,      \* Requests to sign one student in.
    Settler,     \* Requests to answer or to cancel a challenge.
    Host,        \* Automation workers.
    Job,         \* Job ids the API may draw, in the order it draws them.
    None

ASSUME BackendAssumption == Job \subseteq Nat /\ None \notin Job

VARIABLES
    backend,     \* The deployment: who takes part. Never changes.
    claim,       \* The idempotency key: the job it names.
    job,         \* What Redis and the clocks know of every job.
    import,      \* Where every import is.
    settler,     \* Where every settlement is.
    host,        \* Which job every host runs.
    controls,    \* Entries of the control stream that nobody has read.
    mishaps      \* How many calls may still fail, and requests die.

backendVars == <<backend, claim, job, import, settler, host, controls, mishaps>>

Ending == {"succeeded", "failed", "cancelled"}
Decision == [answer |-> "answered", cancel |-> "cancelled"]
Control == [kind: {"answer", "cancel", "cancelJob"}, job: Job]

(* entry: its entry of the job stream. events: those on the event stream.  *)
(* dead: expiresAt has passed. settlements, unsure: history, how often its *)
(* challenge was settled, and whether the answer to its xAdd was lost.     *)
NewJob == [drawn |-> FALSE, stored |-> FALSE, entry |-> "none", events |-> {},
           challenge |-> "none", cancelKey |-> FALSE, dead |-> FALSE,
           settlements |-> 0, unsure |-> FALSE]

\* asked: the challenge was shown to its browser, with a token to settle it.
NewImport == [at |-> "arrived", job |-> None, asked |-> FALSE, outcome |-> None]
NewSettler == [at |-> "idle", kind |-> "answer", job |-> None, outcome |-> None]
FreeHost == [at |-> "idle", job |-> None]

Backend == [imports: SUBSET Import, settlers: SUBSET Settler, hosts: SUBSET Host, mishaps: Nat]

BackendTypeOK ==
    /\ backend \in Backend
    /\ claim \in Job \cup {None}
    /\ job \in [Job -> [drawn: BOOLEAN, stored: BOOLEAN,
          entry: {"none", "queued", "taken"},
          events: SUBSET (Ending \cup {"challenge"}),
          challenge: {"none", "pending", "answered", "cancelled"},
          cancelKey: BOOLEAN, dead: BOOLEAN,
          settlements: Nat, unsure: BOOLEAN]]
    /\ import \in [Import -> [
          at: {"arrived", "joining", "claiming", "storing", "adding", "withdrawing",
               "consuming", "ended"},
          job: Job \cup {None}, asked: BOOLEAN,
          outcome: Ending \cup {None, "unavailable", "expired", "timeout", "error", "left"}]]
    /\ settler \in [Settler -> [
          at: {"idle", "checked", "keying", "publishing", "ended"},
          kind: {"answer", "cancel"}, job: Job \cup {None},
          outcome: {None, "refused", "accepted", "error"}]]
    /\ host \in [Host -> [at: {"idle", "working", "asking", "failing", "stopping"},
                          job: Job \cup {None}]]
    /\ controls \subseteq Control
    /\ mishaps \in Nat

BackendInit ==
    /\ claim = None /\ controls = {}
    /\ job = [j \in Job |-> NewJob]
    /\ import = [i \in Import |-> [NewImport EXCEPT
                    !.at = IF i \in backend.imports THEN @ ELSE "ended"]]
    /\ settler = [s \in Settler |-> NewSettler]
    /\ host = [h \in Host |-> FreeHost]
    /\ mishaps = backend.mishaps

mishap == mishaps > 0 /\ mishaps' = mishaps - 1

moves(i, step) == import' = [import EXCEPT ![i].at = step]
ends(i, outcome) == import' = [import EXCEPT ![i].at = "ended", ![i].outcome = outcome]

-----------------------------------------------------------------------------
(* enqueue(): one job for all the imports of a login.                      *)

LookUpClaim(i) ==
    /\ import[i].at = "arrived"
    /\ \/ /\ claim # None
          /\ import' = [import EXCEPT ![i].at = "joining", ![i].job = claim]
          /\ UNCHANGED <<job, mishaps>>
       \/ /\ claim = None
          /\ \E j \in Job :
                /\ \A k \in Job : job[k].drawn <=> k < j
                /\ job' = [job EXCEPT ![j].drawn = TRUE]
                /\ import' = [import EXCEPT ![i].at = "claiming", ![i].job = j]
          /\ UNCHANGED mishaps
       \/ mishap /\ ends(i, "error") /\ UNCHANGED job
    /\ UNCHANGED <<backend, claim, settler, host, controls>>

(* A claim whose job is not stored yet, or never will be, answers 503; a   *)
(* job past its deadline cannot be parsed.                                 *)
JoinJob(i) ==
    /\ import[i].at = "joining"
    /\ \/ /\ UNCHANGED mishaps
          /\ CASE ~job[import[i].job].stored -> ends(i, "unavailable")
               [] job[import[i].job].stored /\ job[import[i].job].dead -> ends(i, "expired")
               [] OTHER -> moves(i, "consuming")
       \/ mishap /\ ends(i, "error")
    /\ UNCHANGED <<backend, claim, job, settler, host, controls>>

\* Mutant: SET without NX.
ClaimLoginAnyway(i) ==
    /\ import[i].at = "claiming"
    /\ claim' = import[i].job /\ moves(i, "storing")
    /\ UNCHANGED <<backend, mishaps, job, settler, host, controls>>

(* SET NX. Whoever comes second starts again and joins.                    *)
ClaimLogin(i) ==
    /\ import[i].at = "claiming"
    /\ \/ claim = None /\ claim' = import[i].job /\ moves(i, "storing") /\ UNCHANGED mishaps
       \/ /\ claim # None
          /\ import' = [import EXCEPT ![i] = NewImport] /\ UNCHANGED <<claim, mishaps>>
       \/ /\ mishap /\ ends(i, "error")
          /\ claim' \in {claim, IF claim = None THEN import[i].job ELSE claim}
    /\ UNCHANGED <<backend, job, settler, host, controls>>

(* A call that fails may have been applied; the claim is given up.         *)
StoreJob(i) ==
    LET stored == [job EXCEPT ![import[i].job].stored = TRUE]
    IN  /\ import[i].at = "storing"
        /\ \/ job' = stored /\ moves(i, "adding") /\ UNCHANGED mishaps
           \/ mishap /\ job' \in {job, stored} /\ moves(i, "withdrawing")
        /\ UNCHANGED <<backend, claim, settler, host, controls>>

AddJob(i) ==
    LET added == [job EXCEPT ![import[i].job].entry = "queued"]
    IN  /\ import[i].at = "adding"
        /\ \/ job' = added /\ moves(i, "consuming") /\ UNCHANGED mishaps
           \/ /\ mishap /\ moves(i, "withdrawing")
              /\ job' \in {job, [added EXCEPT ![import[i].job].unsure = TRUE]}
        /\ UNCHANGED <<backend, claim, settler, host, controls>>

(* DEL without a comparison; its failure is swallowed.                     *)
WithdrawClaim(i) ==
    /\ import[i].at = "withdrawing"
    /\ ends(i, "error")
    /\ \/ claim' = None /\ UNCHANGED mishaps
       \/ mishap /\ claim' \in {claim, None}
    /\ UNCHANGED <<backend, job, settler, host, controls>>

-----------------------------------------------------------------------------
(* consumeEvents(): the import hears its job out.                          *)

(* prepareChallenge, SET NX, then the event is passed on with its token.   *)
HearChallenge(i) ==
    LET j == import[i].job
        prepared == [job EXCEPT ![j].challenge = IF @ = "none" THEN "pending" ELSE @]
    IN  /\ import[i].at = "consuming" /\ ~import[i].asked
        /\ "challenge" \in job[j].events /\ ~job[j].dead
        /\ \/ /\ job' = prepared /\ UNCHANGED mishaps
              /\ import' = [import EXCEPT ![i].asked = TRUE]
           \/ mishap /\ job' \in {job, prepared} /\ ends(i, "error")
        /\ UNCHANGED <<backend, claim, settler, host, controls>>

HearEnding(i) ==
    LET j == import[i].job
    IN  /\ import[i].at = "consuming" /\ ~job[j].dead
        /\ "challenge" \in job[j].events => import[i].asked
        /\ \E outcome \in Ending \cap job[j].events : ends(i, outcome)
        /\ UNCHANGED <<backend, claim, job, settler, host, controls, mishaps>>

(* The cancel key, the timeout, or a call that fails.                      *)
StopListening(i) ==
    /\ import[i].at = "consuming"
    /\ \/ job[import[i].job].cancelKey /\ ends(i, "cancelled") /\ UNCHANGED mishaps
       \/ job[import[i].job].dead /\ ends(i, "timeout") /\ UNCHANGED mishaps
       \/ mishap /\ ends(i, "error")
    /\ UNCHANGED <<backend, claim, job, settler, host, controls>>

(* The browser goes away: cancelAutomation sets the key, then publishes,   *)
(* and what fails is swallowed.                                            *)
Leave(i) ==
    LET j == import[i].job
        keyed == [job EXCEPT ![j].cancelKey = TRUE]
    IN  /\ import[i].at = "consuming"
        /\ ends(i, "left")
        /\ \/ /\ job' = keyed /\ UNCHANGED mishaps
              /\ controls' = controls \cup {[kind |-> "cancelJob", job |-> j]}
           \/ mishap /\ job' \in {job, keyed} /\ UNCHANGED controls
        /\ UNCHANGED <<backend, claim, settler, host>>

(* The process dies between two calls.                                     *)
ImportDies(i) ==
    /\ import[i].at \notin {"arrived", "ended"} /\ mishap
    /\ ends(i, "error")
    /\ UNCHANGED <<backend, claim, job, settler, host, controls>>

-----------------------------------------------------------------------------
(* answerCaptcha() and cancelCaptcha().                                    *)

settles(s, step) == settler' = [settler EXCEPT ![s].at = step]
settled(s, outcome) ==
    settler' = [settler EXCEPT ![s] = [NewSettler EXCEPT !.at = "ended", !.outcome = outcome]]

ReadChallenge(s, kind, j) ==
    /\ s \in backend.settlers /\ settler[s].at = "idle"
    /\ \E i \in Import : import[i].job = j /\ import[i].asked
    /\ \/ /\ job[j].challenge = "pending" /\ UNCHANGED mishaps
          /\ settler' = [settler EXCEPT ![s] = [at |-> "checked", kind |-> kind, job |-> j,
                                                outcome |-> None]]
       \/ job[j].challenge # "pending" /\ settled(s, "refused") /\ UNCHANGED mishaps
       \/ mishap /\ settled(s, "error")
    /\ UNCHANGED <<backend, claim, job, import, host, controls>>

\* Mutant: the settlement is written without a comparison.
SettleAnyway(s) ==
    LET j == settler[s].job
    IN  /\ settler[s].at = "checked"
        /\ job' = [job EXCEPT ![j].challenge = Decision[settler[s].kind], ![j].settlements = @ + 1]
        /\ settles(s, IF settler[s].kind = "cancel" THEN "keying" ELSE "publishing")
        /\ UNCHANGED <<backend, mishaps, claim, import, host, controls>>

(* COMPLETE_CHALLENGE_SCRIPT compares with what was read.                  *)
Settle(s) ==
    LET j == settler[s].job
        decided == [job EXCEPT ![j].challenge = Decision[settler[s].kind], ![j].settlements = @ + 1]
        first == job[j].challenge = "pending"
    IN  /\ settler[s].at = "checked"
        /\ \/ /\ first /\ job' = decided /\ UNCHANGED mishaps
              /\ settles(s, IF settler[s].kind = "cancel" THEN "keying" ELSE "publishing")
           \/ ~first /\ settled(s, "refused") /\ UNCHANGED <<job, mishaps>>
           \/ mishap /\ settled(s, "error") /\ job' \in {job, IF first THEN decided ELSE job}
        /\ UNCHANGED <<backend, claim, import, host, controls>>

SetCancelKey(s) ==
    LET keyed == [job EXCEPT ![settler[s].job].cancelKey = TRUE]
    IN  /\ settler[s].at = "keying"
        /\ \/ job' = keyed /\ settles(s, "publishing") /\ UNCHANGED mishaps
           \/ mishap /\ job' \in {job, keyed} /\ settled(s, "error")
        /\ UNCHANGED <<backend, claim, import, host, controls>>

(* The challenge is settled by now, whether or not the control gets out.   *)
PublishControl(s) ==
    LET published == controls \cup {[kind |-> settler[s].kind, job |-> settler[s].job]}
    IN  /\ settler[s].at = "publishing"
        /\ \/ controls' = published /\ settled(s, "accepted") /\ UNCHANGED mishaps
           \/ mishap /\ controls' \in {controls, published} /\ settled(s, "error")
        /\ UNCHANGED <<backend, claim, job, import, host>>

-----------------------------------------------------------------------------
(* The hosts.                                                              *)

runs(h, step) == host' = [host EXCEPT ![h].at = step]

(* A job whose deadline has passed is discarded.                           *)
TakeJob(h, j) ==
    /\ h \in backend.hosts /\ host[h].at = "idle" /\ job[j].entry = "queued"
    /\ job' = [job EXCEPT ![j].entry = "taken"]
    /\ IF job[j].dead THEN UNCHANGED host
       ELSE host' = [host EXCEPT ![h] = [at |-> "working", job |-> j]]
    /\ UNCHANGED <<backend, claim, import, settler, controls, mishaps>>

(* waitForAnswer registers the challenge, then publishes it.               *)
RaiseChallenge(h) ==
    LET raised == [job EXCEPT ![host[h].job].events = @ \cup {"challenge"}]
    IN  /\ host[h].at = "working"
        /\ "challenge" \notin job[host[h].job].events /\ ~job[host[h].job].dead
        /\ \/ job' = raised /\ runs(h, "asking") /\ UNCHANGED mishaps
           \/ mishap /\ job' \in {job, raised} /\ runs(h, "failing")
        /\ UNCHANGED <<backend, claim, import, settler, controls>>

(* Every control is read by one host of the group and acknowledged; it     *)
(* does something only at the host that runs the job, and an answer or the *)
(* cancellation of a challenge only while the run waits for it.            *)
HandleControl(h, c) ==
    /\ h \in backend.hosts /\ c \in controls /\ controls' = controls \ {c}
    /\ IF host[h].job = c.job /\ (c.kind # "cancelJob" => host[h].at = "asking")
       THEN runs(h, IF c.kind = "answer" THEN "working" ELSE "stopping")
       ELSE UNCHANGED host
    /\ UNCHANGED <<backend, claim, job, import, settler, mishaps>>

FinishJob(h) ==
    /\ host[h].at \in {"working", "failing", "stopping"}
    /\ ~job[host[h].job].dead
    /\ \E outcome \in CASE host[h].at = "working" -> {"succeeded", "failed"}
                        [] host[h].at = "failing" -> {"failed"}
                        [] host[h].at = "stopping" -> {"cancelled"} :
          job' = [job EXCEPT ![host[h].job].events = @ \cup {outcome}]
    /\ host' = [host EXCEPT ![h] = FreeHost]
    /\ UNCHANGED <<backend, claim, import, settler, controls, mishaps>>

\* Mutant: a run that waits for an answer does not notice its deadline.
GiveUpUnlessAsking(h) ==
    /\ host[h].at \notin {"idle", "asking"} /\ job[host[h].job].dead
    /\ host' = [host EXCEPT ![h] = FreeHost]
    /\ UNCHANGED <<backend, claim, job, import, settler, controls, mishaps>>

(* At the deadline the run is aborted, also while it waits for an answer,  *)
(* and no event can be published any more.                                 *)
GiveUp(h) ==
    /\ host[h].at # "idle" /\ job[host[h].job].dead
    /\ host' = [host EXCEPT ![h] = FreeHost]
    /\ UNCHANGED <<backend, claim, job, import, settler, controls, mishaps>>

-----------------------------------------------------------------------------
(* Time.                                                                   *)

(* The deadline of a job, with which its pending challenge ends.           *)
Deadline(j) ==
    /\ job[j].drawn /\ ~job[j].dead
    /\ job' = [job EXCEPT ![j].dead = TRUE,
                          ![j].challenge = IF @ = "pending" THEN "none" ELSE @]
    /\ UNCHANGED <<backend, claim, import, settler, host, controls, mishaps>>

(* The key lives longer than any job, and than the calls that follow it.   *)
ClaimExpires ==
    /\ claim # None /\ job[claim].dead
    /\ \A i \in Import : import[i].job = claim =>
          import[i].at \notin {"storing", "adding", "withdrawing"}
    /\ claim' = None
    /\ UNCHANGED <<backend, job, import, settler, host, controls, mishaps>>

ImportStep(i) ==
    \/ LookUpClaim(i) \/ JoinJob(i) \/ ClaimLogin(i) \/ StoreJob(i) \/ AddJob(i)
    \/ WithdrawClaim(i) \/ HearChallenge(i) \/ HearEnding(i) \/ StopListening(i)

SettlerStep(s) == Settle(s) \/ SetCancelKey(s) \/ PublishControl(s)

HostStep(h) ==
    \/ \E j \in Job : TakeJob(h, j)
    \/ RaiseChallenge(h) \/ FinishJob(h) \/ GiveUp(h)

\* What happens by itself: processes go on, time passes.
BackendProgress ==
    \/ \E i \in Import : ImportStep(i)
    \/ \E s \in Settler : SettlerStep(s)
    \/ \E h \in Host : HostStep(h)
    \/ \E j \in Job : Deadline(j)
    \/ ClaimExpires

BackendNext ==
    \/ BackendProgress
    \/ \E i \in Import : Leave(i) \/ ImportDies(i)
    \/ \E s \in Settler, kind \in {"answer", "cancel"}, j \in Job : ReadChallenge(s, kind, j)
    \/ \E h \in Host, c \in Control : HandleControl(h, c)

-----------------------------------------------------------------------------
(* A challenge is settled once, however many imports were told of it and   *)
(* however many requests answer and cancel it at once.                     *)
SettledOnce == \A j \in Job : job[j].settlements <= 1

(* Imports of one login share one job as long as it lives, whoever claims, *)
(* fails or dies; only an xAdd whose answer was lost makes another one.    *)
OneJobPerLogin ==
    Cardinality({j \in Job : job[j].entry # "none" /\ ~job[j].dead /\ ~job[j].unsure}) <= 1

(* One login is one sign-in, and one CAPTCHA of it one answer.             *)
CountedOnce == SettledOnce /\ OneJobPerLogin

(* An accepted answer that leaves the control stream is given to the run   *)
(* that waits for it (TODO.md:72).                                         *)
AnswersReachTheRun ==
    [][\A h \in Host, c \in controls \ controls' :
          c.kind = "answer" /\ host[h].job = c.job /\ host[h].at = "asking" =>
              host'[h].at = "working"]_backendVars
=============================================================================
