---------------------------- MODULE FeaturePolicy ----------------------------
(***************************************************************************)
(* Publication and propagation of the feature policy: one authority that   *)
(* holds the revisions, the replicas of the API that keep the last one     *)
(* they read, the notifications between them, the event streams and        *)
(* refetches of students' browsers, and administrators who edit, publish   *)
(* and roll back.                                                          *)
(*                                                                         *)
(* The deployment decides how a revision travels: "durable" is a Durable   *)
(* Object that holds both the revisions and the streams, and notifies no   *)
(* isolate; "distributed" is PostgreSQL with a Redis channel; "memory" is  *)
(* one process with SQLite and in-process events.                          *)
(*                                                                         *)
(* A read of the store is in flight between the store's answer and the     *)
(* moment the replica goes on with it.                                     *)
(***************************************************************************)
EXTENDS FeaturePolicyRules, Sequences, FiniteSets

CONSTANTS
    NumReplicas,     \* Processes or isolates of the API.
    Request,         \* Feature requests in flight.
    Client,          \* Browsers of students.
    Admin,           \* Browsers of administrators.
    MaxStreams,      \* Bound MAX_FEATURE_POLICY_SSE_SUBSCRIBERS.
    Scenario         \* A deployment, the actors that take part, the policies
                     \* administrators write, a bound on publications, and one
                     \* on failed calls, lost messages and restarts.

ASSUME PolicyAssumption ==
    /\ NumReplicas \in Nat \ {0}
    /\ MaxStreams \in Nat \ {0}
    /\ \A x \in Scenario :
          /\ x.deployment \in {"durable", "distributed", "memory"}
          /\ x.actors \subseteq Request \cup Client \cup Admin
          /\ x.policies \subseteq FeaturePolicyContent
          /\ x.revisions \in Nat /\ x.faults \in Nat
    /\ Client \cap Request = {}

VARIABLES
    scenario,    \* Never changes.
    published,   \* The audit entries, one for every revision from 1.
    cached,      \* FeaturePolicyRuntime.cached of every replica: a revision.
    notified,    \* FeaturePolicyRuntime.highestNotifiedRevision.
    heard,       \* highestRevision of the replica's events object.
    channel,     \* What Redis has still to deliver to every replica.
    read,        \* The reads in flight, one per request and browser.
    stream,      \* The event stream of every browser.
    highest,     \* highestRevision of subscribeToPolicyEvents.
    view,        \* The revision the browser shows, None after a failed fetch.
    editor,      \* The control page of every administrator.
    op,          \* The publication in flight of every administrator.
    told,        \* The highest revision whose publish() ended at a replica.
    faults

storeVars == <<scenario, published>>
nodeVars == <<cached, notified, heard, channel, told>>
clientVars == <<read, stream, highest, view>>
adminVars == <<editor, op>>
vars == <<storeVars, nodeVars, clientVars, adminVars, faults>>

deployment == scenario.deployment

Replica == 1..NumReplicas
Revision == 0..scenario.revisions
Reader == Client \cup Request
Node == IF deployment = "memory" THEN {1} ELSE Replica

current == Len(published)
policyOf(r) == IF r = 0 THEN emptyPolicy ELSE published[r].policy
greatest(a, b) == IF a >= b THEN a ELSE b

Policy == scenario.policies \cup {emptyPolicy}
AuditEntry == [policy: Policy, baseRevision: Revision, reviewed: Policy]
NoRead == [at |-> None, value |-> None, revision |-> -1]
NoStream == [phase |-> "closed", at |-> None, current |-> 0, seen |-> -1, sent |-> <<>>]
NoOp == [phase |-> "idle", at |-> None, kind |-> "publish", baseRevision |-> 0,
         policy |-> emptyPolicy, reviewed |-> emptyPolicy, revision |-> 0]

\* One type invariant: what every variable may hold.
TypeOK ==
    /\ scenario \in Scenario
    /\ published \in Seq(AuditEntry) /\ current <= scenario.revisions
    /\ cached \in [Replica -> Revision \cup {None}]
    /\ notified \in [Replica -> Revision]
    /\ heard \in [Replica -> -1..scenario.revisions]
    /\ channel \in [Replica -> Seq(Revision)]
    /\ read \in [Reader -> [at: Replica \cup {None}, value: Revision \cup {None},
                            revision: -1..scenario.revisions]]
    /\ stream \in [Client -> [phase: {"closed", "opening", "open"},
                              at: Replica \cup {None}, current: Revision,
                              seen: -1..scenario.revisions, sent: Seq(Revision)]]
    /\ highest \in [Client -> -1..scenario.revisions]
    /\ view \in [Client -> Revision \cup {None}]
    /\ editor \in [Admin -> [data: Revision, base: Revision, draft: Policy,
                             conflict: BOOLEAN]]
    /\ op \in [Admin -> [phase: {"idle", "sent", "committed", "notifying", "announced", "conflict"},
                         at: Replica \cup {None}, kind: {"publish", "rollback"},
                         baseRevision: Revision, policy: Policy, reviewed: Policy,
                         revision: Revision]]
    /\ told \in [Replica -> Revision]
    /\ faults \in 0..scenario.faults

Init ==
    /\ scenario \in Scenario
    /\ published = <<>>
    /\ cached = [n \in Replica |-> None]
    /\ notified = [n \in Replica |-> 0]
    /\ heard = [n \in Replica |-> -1]
    /\ channel = [n \in Replica |-> <<>>]
    /\ read = [q \in Reader |-> NoRead]
    /\ stream = [c \in Client |-> NoStream]
    /\ highest = [c \in Client |-> -1]
    /\ view = [c \in Client |-> None]
    /\ editor = [a \in Admin |-> [data |-> 0, base |-> 0, draft |-> emptyPolicy,
                                  conflict |-> FALSE]]
    /\ op = [a \in Admin |-> NoOp]
    /\ told = [n \in Replica |-> 0]
    /\ faults = 0

fault == faults < scenario.faults /\ faults' = faults + 1

-----------------------------------------------------------------------------
(* The runtime of a replica.                                               *)

\* Mutant: an older policy may replace a newer one in the cache.
rememberedUnguarded(n, r) == [cached EXCEPT ![n] = r]

\* readCurrent: an answer older than a notified revision is not kept.
remembered(n, r) ==
    IF r >= notified[n] THEN [cached EXCEPT ![n] = r] ELSE cached

\* publish: the same for the entry the store returned.
rememberedOwn(n, r) ==
    IF r >= notified[n] THEN [cached EXCEPT ![n] = r] ELSE cached

\* invalidate, called by the events of the replica.
invalidated(n, r) ==
    IF cached[n] # None /\ r > cached[n] THEN [cached EXCEPT ![n] = None] ELSE cached

\* A stream is sent a revision newer than what it was sent before.
offered(s, r) ==
    IF s.phase = "open" /\ r > s.seen
    THEN [s EXCEPT !.seen = r, !.sent = Append(@, r)] ELSE s

(* notify: the events object of replica n passes a revision on, once, to   *)
(* the runtime and to the streams it serves.                               *)
Notify(n, r) ==
    IF r > heard[n]
    THEN /\ heard' = [heard EXCEPT ![n] = r]
         /\ notified' = [notified EXCEPT ![n] = greatest(@, r)]
         /\ cached' = invalidated(n, r)
         /\ stream' = [c \in Client |->
                          IF stream[c].at = n THEN offered(stream[c], r) ELSE stream[c]]
    ELSE UNCHANGED <<heard, notified, cached, stream>>

\* Reader q asks replica n, for the sake of revision r: the store answers or fails.
ReadStore(q, n, r) ==
    \/ /\ read' = [read EXCEPT ![q] = [at |-> n, value |-> current, revision |-> r]]
       /\ UNCHANGED faults
    \/ /\ read' = [read EXCEPT ![q] = [at |-> n, value |-> None, revision |-> r]]
       /\ fault

\* A feature request is judged by the policy of the moment (requireFeature).
StartRead(q, n) ==
    /\ read[q] = NoRead
    /\ ReadStore(q, n, -1)
    /\ UNCHANGED <<storeVars, nodeVars, stream, highest, view, adminVars>>

(* current() goes on: the answer, or after a failure the last one kept.    *)
(* A browser shows what it was told; its onRevision is over either way.    *)
EndRead(q) ==
    LET n == read[q].at
        v == read[q].value
    IN  /\ read[q] # NoRead
        /\ cached' = IF v = None THEN cached ELSE remembered(n, v)
        /\ read' = [read EXCEPT ![q] = NoRead]
        /\ IF q \in Client
           THEN /\ view' = [view EXCEPT ![q] = IF v = None THEN cached[n] ELSE v]
                /\ highest' = [highest EXCEPT ![q] = greatest(@, read[q].revision)]
           ELSE UNCHANGED <<view, highest>>
        /\ UNCHANGED <<storeVars, notified, heard, channel, told, stream, adminVars, faults>>

\* Redis hands the oldest message of its channel to a replica.
Deliver(n) ==
    /\ channel[n] # <<>>
    /\ channel' = [channel EXCEPT ![n] = Tail(@)]
    /\ Notify(n, Head(channel[n]))
    /\ UNCHANGED <<storeVars, told, read, highest, view, adminVars, faults>>

\* The subscriber was disconnected when Redis delivered.
LoseMessage(n) ==
    /\ channel[n] # <<>>
    /\ fault
    /\ channel' = [channel EXCEPT ![n] = Tail(@)]
    /\ UNCHANGED <<storeVars, cached, notified, heard, told, clientVars, adminVars>>

(* A process or isolate starts over: its memory, its streams and the       *)
(* requests it served are gone.                                            *)
Restart(n) ==
    /\ fault
    /\ cached' = [cached EXCEPT ![n] = None]
    /\ notified' = [notified EXCEPT ![n] = 0]
    /\ heard' = [heard EXCEPT ![n] = -1]
    /\ channel' = [channel EXCEPT ![n] = <<>>]
    /\ told' = [told EXCEPT ![n] = 0]
    /\ stream' = [c \in Client |-> IF stream[c].at = n THEN NoStream ELSE stream[c]]
    /\ read' = [q \in Reader |-> IF read[q].at = n THEN NoRead ELSE read[q]]
    /\ view' = [c \in Client |-> IF read[c].at = n THEN None ELSE view[c]]
    /\ highest' = [c \in Client |->
          IF read[c].at = n THEN greatest(highest[c], read[c].revision) ELSE highest[c]]
    /\ op' = [a \in Admin |-> IF op[a].at = n THEN NoOp ELSE op[a]]
    /\ UNCHANGED <<storeVars, editor>>

-----------------------------------------------------------------------------
(* The event streams and subscribeToPolicyEvents.                          *)

openAt(n) ==
    {c \in Client : /\ stream[c].phase = "open"
                    /\ deployment = "durable" \/ stream[c].at = n}

\* GET /api/policy/events: the runtime reads the authority first.
OpenStream(c, n) ==
    /\ stream[c].phase = "closed"
    /\ stream' = [stream EXCEPT ![c] =
          [phase |-> "opening", at |-> n, current |-> current, seen |-> -1, sent |-> <<>>]]
    /\ UNCHANGED <<storeVars, nodeVars, read, highest, view, adminVars, faults>>

\* Mutant: a stream starts at the revision in force when it subscribes.
startingRevisionRead(s) == s.current

(* The newest revision the stream starts from: what the runtime read, or   *)
(* what was notified, or stored, since.                                    *)
startingRevision(s) ==
    IF deployment = "durable" THEN greatest(s.current, current)
    ELSE greatest(s.current, heard[s.at])

\* events.stream: registered and brought up to date in one step, or 503.
Subscribe(c) ==
    LET s == stream[c]
        opened == [s EXCEPT !.phase = "open", !.seen = highest[c]]
    IN  /\ s.phase = "opening"
        /\ cached' = remembered(s.at, s.current)
        /\ stream' = [stream EXCEPT ![c] =
              IF Cardinality(openAt(s.at)) >= MaxStreams THEN NoStream
              ELSE offered(opened, startingRevision(s))]
        /\ UNCHANGED <<storeVars, notified, heard, channel, told, read, highest, view,
                       adminVars, faults>>

\* The connection breaks; the browser reconnects with Last-Event-ID.
StreamBreaks(c) ==
    /\ stream[c].phase = "open"
    /\ fault
    /\ stream' = [stream EXCEPT ![c] = NoStream]
    /\ UNCHANGED <<storeVars, nodeVars, read, highest, view, adminVars>>

(* An event is read once the previous onRevision is over.  A newer         *)
(* revision refetches the universities, through any replica.               *)
ReceiveRevision(c, n) ==
    LET r == Head(stream[c].sent) IN
    /\ stream[c].sent # <<>>
    /\ read[c].revision = -1
    /\ stream' = [stream EXCEPT ![c].sent = Tail(@)]
    /\ IF r > highest[c] THEN ReadStore(c, n, r) ELSE UNCHANGED <<read, faults>>
    /\ UNCHANGED <<storeVars, nodeVars, highest, view, adminVars>>

\* Mutant: a page whose stream is open does not poll.
PollWithoutStream(c, n) ==
    /\ stream[c].phase # "open"
    /\ read[c] = NoRead \/ read[c].revision # -1
    /\ ReadStore(c, n, -1)
    /\ highest' = [highest EXCEPT ![c] = greatest(@, read[c].revision)]
    /\ UNCHANGED <<storeVars, nodeVars, stream, view, adminVars>>

(* The low-frequency refetch, when the last one is over.  It cancels the   *)
(* fetch of an event, whose onRevision is over then.                       *)
Poll(c, n) ==
    /\ read[c] = NoRead \/ read[c].revision # -1
    /\ ReadStore(c, n, -1)
    /\ highest' = [highest EXCEPT ![c] = greatest(@, read[c].revision)]
    /\ UNCHANGED <<storeVars, nodeVars, stream, view, adminVars>>

-----------------------------------------------------------------------------
(* The control page and the history page of an administrator.              *)

dirty(e) == e.draft # policyOf(e.base)

\* rebasePolicyDraft: a draft with changes keeps the revision it was based on.
rebasePolicyDraft(e) ==
    IF dirty(e) THEN e ELSE [e EXCEPT !.base = e.data, !.draft = policyOf(e.data)]

refetched(e) == rebasePolicyDraft([e EXCEPT !.data = current])

\* The policy query is fetched again, on an event, a poll or by hand.
Refetch(a, n) ==
    /\ editor' = [editor EXCEPT ![a] = refetched(editor[a])]
    /\ cached' = remembered(n, current)
    /\ UNCHANGED <<storeVars, notified, heard, channel, told, clientVars, op, faults>>

Edit(a, p) ==
    /\ p # editor[a].draft
    /\ op[a].phase = "idle"
    /\ current < scenario.revisions
    /\ editor' = [editor EXCEPT ![a].draft = p]
    /\ UNCHANGED <<storeVars, nodeVars, clientVars, op, faults>>

\* onDiscard: the draft becomes what was last fetched.
Discard(a) ==
    /\ dirty(editor[a]) \/ editor[a].conflict
    /\ op[a].phase = "idle"
    /\ LET e == editor[a] IN
       editor' = [editor EXCEPT ![a] =
          [data |-> e.data, base |-> e.data, draft |-> policyOf(e.data), conflict |-> FALSE]]
    /\ UNCHANGED <<storeVars, nodeVars, clientVars, op, faults>>

\* Mutant: a publication names the policy fetched last as its base.
draftBaseFetched(e) == e.data

\* expectedBaseRevision: the revision the draft was made from.
draftBase(e) == e.base

\* The dialog shows the change from the base of the draft, then sends it.
SendPublish(a, n) ==
    LET e == editor[a] IN
    /\ op[a].phase = "idle" /\ dirty(e) /\ ~e.conflict
    /\ current < scenario.revisions
    /\ op' = [op EXCEPT ![a] =
          [phase |-> "sent", at |-> n, kind |-> "publish", baseRevision |-> draftBase(e),
           policy |-> e.draft, reviewed |-> policyOf(e.base), revision |-> 0]]
    /\ UNCHANGED <<storeVars, nodeVars, clientVars, editor, faults>>

\* The dialog shows the change from the fetched policy to an earlier one.
SendRollback(a, n, target) ==
    LET e == editor[a] IN
    /\ op[a].phase = "idle" /\ ~dirty(e)
    /\ current < scenario.revisions
    /\ target \in 1..current /\ policyOf(target) # policyOf(e.data)
    /\ op' = [op EXCEPT ![a] =
          [phase |-> "sent", at |-> n, kind |-> "rollback", baseRevision |-> e.data,
           policy |-> policyOf(target), reviewed |-> policyOf(e.data), revision |-> 0]]
    /\ UNCHANGED <<storeVars, nodeVars, clientVars, editor, faults>>

nextRevision == current + 1

\* The transaction of the store: compare the base, append, move current.
StorePublish(a) ==
    LET o == op[a] IN
    /\ o.phase = "sent"
    /\ IF o.baseRevision = current
       THEN /\ published' = Append(published,
                  [policy |-> o.policy, baseRevision |-> o.baseRevision,
                   reviewed |-> o.reviewed])
            /\ op' = [op EXCEPT ![a].phase = "committed", ![a].revision = nextRevision]
       ELSE /\ op' = [op EXCEPT ![a].phase = "conflict"]
            /\ UNCHANGED published
    /\ UNCHANGED <<scenario, nodeVars, clientVars, editor, faults>>

\* The transaction committed, but its answer did not come: FEATURE_POLICY_UNAVAILABLE.
StoreAnswerLost(a) ==
    /\ op[a].phase = "committed"
    /\ fault
    /\ op' = [op EXCEPT ![a] = NoOp]
    /\ UNCHANGED <<storeVars, nodeVars, clientVars, editor>>

(* publish() goes on with the entry of the store: it keeps the snapshot    *)
(* and notifies, which is over at once for the listeners of one process.   *)
KeepPublished(a) ==
    LET n == op[a].at
        r == op[a].revision
    IN  /\ op[a].phase = "committed"
        /\ IF deployment = "memory"
           THEN /\ op' = [op EXCEPT ![a].phase = "announced"]
                /\ heard' = [heard EXCEPT ![n] = greatest(@, r)]
                /\ notified' = [notified EXCEPT ![n] = greatest(@, r)]
                /\ cached' = rememberedOwn(n, r)
                /\ stream' = [c \in Client |-> offered(stream[c], r)]
           ELSE /\ op' = [op EXCEPT ![a].phase = "notifying"]
                /\ cached' = rememberedOwn(n, r)
                /\ UNCHANGED <<heard, notified, stream>>
        /\ UNCHANGED <<storeVars, channel, told, read, highest, view, editor, faults>>

\* Redis takes the message for every subscriber, or the Durable Object offers it.
Announce(a) ==
    LET r == op[a].revision IN
    /\ op[a].phase = "notifying"
    /\ op' = [op EXCEPT ![a].phase = "announced"]
    /\ IF deployment = "durable"
       THEN /\ stream' = [c \in Client |-> offered(stream[c], r)]
            /\ UNCHANGED channel
       ELSE /\ channel' = [n \in Replica |-> Append(channel[n], r)]
            /\ UNCHANGED stream
    /\ UNCHANGED <<storeVars, cached, notified, heard, told, read, highest, view, editor, faults>>

\* The notification fails: it is logged and nothing else.
AnnounceFails(a) ==
    /\ op[a].phase = "notifying"
    /\ fault
    /\ op' = [op EXCEPT ![a].phase = "announced"]
    /\ UNCHANGED <<storeVars, nodeVars, clientVars, editor>>

(* The finally of RedisFeaturePolicyEvents.publish, whether or not Redis   *)
(* took the message.  No isolate of the durable deployment listens.        *)
notifyOwn(n, r) ==
    IF deployment = "distributed" THEN Notify(n, r)
    ELSE UNCHANGED <<heard, notified, cached, stream>>

\* publish() ends, and its answer reaches the page or is lost on the way.
Publish(a) ==
    LET n == op[a].at
        r == op[a].revision
    IN  /\ op[a].phase = "announced"
        /\ notifyOwn(n, r)
        /\ told' = [told EXCEPT ![n] = greatest(@, r)]
        /\ op' = [op EXCEPT ![a] = NoOp]
        /\ \/ /\ editor' = [editor EXCEPT ![a] =
                    [data |-> r, base |-> r, draft |-> policyOf(r), conflict |-> FALSE]]
              /\ UNCHANGED faults
           \/ /\ fault
              /\ UNCHANGED editor
        /\ UNCHANGED <<storeVars, channel, read, highest, view>>

(* ADMIN_POLICY_CONFLICT: the draft stays and the policy is fetched again; *)
(* the control page then refuses to publish until the draft is discarded.  *)
Conflict(a) ==
    /\ op[a].phase = "conflict"
    /\ op' = [op EXCEPT ![a] = NoOp]
    /\ editor' = [editor EXCEPT
          ![a] = refetched(editor[a]),
          ![a].conflict = editor[a].conflict \/ op[a].kind = "publish"]
    /\ cached' = remembered(op[a].at, current)
    /\ UNCHANGED <<storeVars, notified, heard, channel, told, clientVars, faults>>

-----------------------------------------------------------------------------
AdminNext(a) ==
    \/ \E n \in Node : Refetch(a, n) \/ SendPublish(a, n)
    \/ \E n \in Node, target \in Revision : SendRollback(a, n, target)
    \/ \E p \in Policy : Edit(a, p)
    \/ Discard(a) \/ StorePublish(a) \/ StoreAnswerLost(a) \/ KeepPublished(a)
    \/ Announce(a) \/ AnnounceFails(a) \/ Publish(a) \/ Conflict(a)

ClientNext(c) ==
    \/ \E n \in Node : OpenStream(c, n) \/ ReceiveRevision(c, n) \/ Poll(c, n)
    \/ Subscribe(c) \/ StreamBreaks(c)

Next ==
    \/ \E a \in Admin \cap scenario.actors : AdminNext(a)
    \/ \E c \in Client \cap scenario.actors : ClientNext(c)
    \/ \E q \in Reader : EndRead(q)
    \/ \E q \in Request \cap scenario.actors, n \in Node : StartRead(q, n)
    \/ \E n \in Node : Deliver(n) \/ LoseMessage(n) \/ Restart(n)

(* The runtimes go on with what they were answered, Redis delivers, and    *)
(* the timers of the pages poll.  Nothing else is assumed to happen.       *)
Fairness ==
    /\ \A q \in Reader : WF_vars(EndRead(q))
    /\ \A c \in Client : WF_vars(c \in scenario.actors /\ \E n \in Node : Poll(c, n))
    /\ \A a \in Admin : WF_vars(a \in scenario.actors /\ \E n \in Node : Refetch(a, n))

Spec == Init /\ [][Next]_vars
FairSpec == Spec /\ Fairness

-----------------------------------------------------------------------------
(* The safety of the caches, of the history and of the streams.            *)

(* The policy a replica falls back on when the store fails is never older  *)
(* than a revision it was notified of, whatever reads were in flight       *)
(* around the notification (readCurrent, invalidate, publish).             *)
CacheNotOlderThanNotified ==
    \A n \in Replica : cached[n] # None => cached[n] >= notified[n]

(* Where a notification can reach it, a replica that published a revision  *)
(* never falls back on an older one afterwards, even if Redis refused the  *)
(* message and a read from before the publication was still in flight.     *)
OwnPublicationKept ==
    deployment # "durable" =>
        \A n \in Replica : cached[n] # None => cached[n] >= told[n]

(* A replica whose store fails falls back on nothing older than what it    *)
(* was told and what it did.                                               *)
CacheKeepsUp == CacheNotOlderThanNotified /\ OwnPublicationKept

(* No update is lost: whoever published a revision had been shown the      *)
(* change from the policy it replaced, through refetches, conflicts, lost  *)
(* answers and rollbacks.                                                  *)
PublishedFromReviewed ==
    \A r \in 1..current :
        published[r].reviewed = policyOf(r - 1) /\ published[r].baseRevision = r - 1

(* An open stream was sent every revision its replica was notified of,     *)
(* also one that was published while the stream was being opened; on a     *)
(* Durable Object, every one that was announced.                           *)
StreamMissesNothing ==
    \A c \in Client : stream[c].phase = "open" =>
        /\ stream[c].seen >= heard[stream[c].at]
        /\ deployment = "durable" /\ faults = 0 =>
               \A n \in Replica : stream[c].seen >= told[n]

(* Whatever an administrator wrote, the effective capability and limit     *)
(* stay within what the adapter supports and the ceilings, a global switch *)
(* wins over the university's, and every limit that applies is honoured.   *)
EffectiveWithinCeilings ==
    \A r \in 0..current :
        LET p == policyOf(r)
            e == effectiveUniversity(p)
        IN  e.enabled =>
              /\ NativeSupport /\ ~p.globalOff /\ ~p.universityOff
              /\ 0 < e.limit /\ e.limit <= NativeLimit /\ e.limit <= HardLimit
              /\ \A l \in {p.universityLimit} \ {None} : e.limit <= l
              /\ p.universityLimit = None =>
                     \A l \in {p.globalLimit} \ {None} : e.limit <= l

(* However notifications and answers were lost, every page ends up with    *)
(* the last policy: polls make up for lost notifications.                  *)
PagesConverge ==
    /\ \A c \in Client : <>[](c \in scenario.actors => view[c] = current)
    /\ \A a \in Admin : <>[](a \in scenario.actors => editor[a].data = current)

(* What a replica has been told, it neither forgets when its store fails   *)
(* nor keeps from its streams.                                             *)
ReplicasKeepUp == CacheKeepsUp /\ StreamMissesNothing
=============================================================================
