------------------------- MODULE FeaturePolicyProofs -------------------------
(***************************************************************************)
(* Proofs about FeaturePolicy, for any number of replicas, streams,        *)
(* requests, browsers and administrators, any policies, and any number of  *)
(* publications and faults.  What the caches, the streams and the history  *)
(* promise follows from one inductive invariant: how far each replica, and *)
(* each publication under way, has come.                                   *)
(***************************************************************************)
EXTENDS FeaturePolicy, TLAPS

Maybe(S) == S \cup {None}
RevisionOrNever == -1..scenario.revisions

ReadState == [at: Maybe(Replica), value: Maybe(Revision), revision: RevisionOrNever]
StreamState ==
    [phase: {"closed", "opening", "open"}, at: Maybe(Replica), current: Revision,
     seen: RevisionOrNever, sent: Seq(Revision)]
EditorState == [data: Revision, base: Revision, draft: Policy, conflict: BOOLEAN]
OpState ==
    [phase: {"idle", "sent", "committed", "notifying", "announced", "conflict"},
     at: Maybe(Replica), kind: {"publish", "rollback"}, baseRevision: Revision,
     policy: Policy, reviewed: Policy, revision: Revision]

\* Administrators and their publications know only revisions that exist.
KnownRevisions ==
    /\ \A a \in Admin :
          editor[a].data <= current /\ editor[a].base <= current /\ op[a].revision <= current
    /\ \A n \in Replica : told[n] <= current

\* What a publication under way was reviewed against.
SentFromReviewed ==
    \A a \in Admin : op[a].phase = "sent" =>
        /\ op[a].baseRevision <= current /\ op[a].baseRevision < scenario.revisions
        /\ op[a].reviewed = policyOf(op[a].baseRevision)

\* A runtime was notified of everything its events object heard; where there
\* are notifications, also of everything it published.
NotifiedInTime ==
    /\ \A n \in Replica : heard[n] <= notified[n]
    /\ deployment # "durable" => \A n \in Replica : told[n] <= notified[n]
    /\ deployment = "memory" =>
          \A a \in Admin :
              /\ op[a].phase # "notifying"
              /\ op[a].phase = "announced" =>
                     \A n \in Replica : op[a].at = n => op[a].revision <= notified[n]

\* On a Durable Object nothing is heard; the streams were sent what was announced.
DurableStreams ==
    /\ deployment = "durable" => \A n \in Replica : heard[n] = -1 /\ channel[n] = <<>>
    /\ deployment = "durable" /\ faults = 0 =>
          \A a \in Admin, c \in Client :
              op[a].phase = "announced" /\ stream[c].phase = "open" =>
                  stream[c].seen >= op[a].revision

\* Publications, streams and reads go on at a replica.
Located ==
    /\ \A a \in Admin : op[a].phase # "idle" => op[a].at \in Replica
    /\ \A c \in Client : stream[c].phase # "closed" => stream[c].at \in Replica
    /\ \A q \in Reader : read[q] # NoRead => read[q].at \in Replica

IInv ==
    /\ TypeOK
    /\ Located
    /\ PublishedFromReviewed
    /\ KnownRevisions
    /\ SentFromReviewed
    /\ NotifiedInTime
    /\ DurableStreams
    /\ CacheNotOlderThanNotified
    /\ StreamMissesNothing

----------------------------------------------------------------------------
(* Types                                                                   *)

\* The constants and the revisions in state-free terms.
LEMMA Bounds ==
    ASSUME TypeOK
    PROVE  /\ scenario.revisions \in Nat /\ scenario.faults \in Nat /\ faults \in Nat
           /\ current \in Nat /\ current \in Revision
           /\ Replica \subseteq Nat /\ Node \subseteq Replica
           /\ scenario.policies \subseteq FeaturePolicyContent
           /\ emptyPolicy \in Policy
           /\ None \notin Int
  <1>1. scenario.revisions \in Nat /\ scenario.faults \in Nat
        /\ scenario.policies \subseteq FeaturePolicyContent
    BY PolicyAssumption DEF TypeOK
  <1>2. current \in Nat /\ current <= scenario.revisions
    BY DEF TypeOK, current
  <1>3. Replica \subseteq Nat /\ Node \subseteq Replica
    BY PolicyAssumption DEF Replica, Node
  <1>4. faults \in Nat
    BY <1>1 DEF TypeOK
  <1>5. QED
    BY <1>1, <1>2, <1>3, <1>4, RulesAssumption DEF Revision, Policy

\* Every revision up to the last has a policy, and an appended entry changes
\* none of them.
LEMMA PolicyOfRevision ==
    ASSUME TypeOK, NEW r \in 0..current
    PROVE  policyOf(r) \in Policy
  <1>1. CASE r = 0
    BY <1>1 DEF policyOf, Policy
  <1>2. CASE r \in 1..current
    <2>1. published \in Seq(AuditEntry) /\ r \in 1..Len(published)
      BY <1>2 DEF TypeOK, current
    <2>2. published[r] \in AuditEntry
      BY <2>1
    <2>3. QED BY <1>2, <2>2 DEF policyOf, AuditEntry
  <1>3. current \in Nat
    BY Bounds
  <1>4. QED BY <1>1, <1>2, <1>3

\* What the cache keeps of a read or of a publication is a revision.
LEMMA RememberedType ==
    ASSUME TypeOK, NEW n, NEW r \in Revision
    PROVE  /\ remembered(n, r) \in [Replica -> Maybe(Revision)]
           /\ rememberedOwn(n, r) \in [Replica -> Maybe(Revision)]
           /\ invalidated(n, r) \in [Replica -> Maybe(Revision)]
  BY DEF TypeOK, remembered, rememberedOwn, invalidated, Maybe

\* A stream that is offered a revision stays a stream.
LEMMA OfferedType ==
    ASSUME TypeOK, NEW s \in StreamState, NEW r \in Revision
    PROVE  offered(s, r) \in StreamState
  <1>1. r \in RevisionOrNever
    BY Bounds DEF Revision, RevisionOrNever
  <1>2. CASE offered(s, r) = s
    BY <1>2
  <1>3. CASE offered(s, r) = [s EXCEPT !.seen = r, !.sent = Append(@, r)]
    <2>1. Append(s.sent, r) \in Seq(Revision)
      BY DEF StreamState
    <2>2. QED BY <1>1, <1>3, <2>1 DEF StreamState
  <1>4. QED BY <1>2, <1>3 DEF offered

\* The greater of two revisions is a revision.
LEMMA GreatestType ==
    ASSUME NEW a \in Int, NEW b \in Int
    PROVE  /\ greatest(a, b) \in {a, b}
           /\ greatest(a, b) >= a /\ greatest(a, b) >= b
  BY DEF greatest

\* The type invariant by its named parts.
LEMMA TypeParts ==
    ASSUME TypeOK
    PROVE  /\ scenario \in Scenario
           /\ published \in Seq(AuditEntry) /\ current <= scenario.revisions
           /\ cached \in [Replica -> Maybe(Revision)]
           /\ notified \in [Replica -> Revision]
           /\ heard \in [Replica -> RevisionOrNever]
           /\ channel \in [Replica -> Seq(Revision)]
           /\ read \in [Reader -> ReadState]
           /\ stream \in [Client -> StreamState]
           /\ highest \in [Client -> RevisionOrNever]
           /\ view \in [Client -> Maybe(Revision)]
           /\ editor \in [Admin -> EditorState]
           /\ op \in [Admin -> OpState]
           /\ told \in [Replica -> Revision]
           /\ faults \in 0..scenario.faults
  BY DEF TypeOK, Maybe, RevisionOrNever, ReadState, StreamState, EditorState, OpState

\* A step keeps the types when it keeps every part: the scenario never changes.
LEMMA TypeStep ==
    ASSUME TypeOK, scenario' = scenario,
           published' \in Seq(AuditEntry), Len(published') <= scenario.revisions,
           cached' \in [Replica -> Maybe(Revision)],
           notified' \in [Replica -> Revision],
           heard' \in [Replica -> RevisionOrNever],
           channel' \in [Replica -> Seq(Revision)],
           read' \in [Reader -> ReadState],
           stream' \in [Client -> StreamState],
           highest' \in [Client -> RevisionOrNever],
           view' \in [Client -> Maybe(Revision)],
           editor' \in [Admin -> EditorState],
           op' \in [Admin -> OpState],
           told' \in [Replica -> Revision],
           faults' \in 0..scenario.faults
    PROVE  TypeOK'
  <1>1. /\ Revision' = Revision /\ Policy' = Policy /\ AuditEntry' = AuditEntry
        /\ RevisionOrNever' = RevisionOrNever
    BY DEF Revision, Policy, AuditEntry, RevisionOrNever
  <1>2. /\ cached' \in [Replica -> Revision' \cup {None}]
        /\ view' \in [Client -> Revision' \cup {None}]
    BY <1>1 DEF Maybe
  <1>3. read' \in [Reader -> [at: Replica \cup {None}, value: Revision' \cup {None},
                              revision: -1..(scenario'.revisions)]]
    BY <1>1 DEF ReadState, RevisionOrNever, Maybe
  <1>4. stream' \in [Client -> [phase: {"closed", "opening", "open"},
                                at: Replica \cup {None}, current: Revision',
                                seen: -1..(scenario'.revisions), sent: Seq(Revision')]]
    BY <1>1 DEF StreamState, RevisionOrNever, Maybe
  <1>5. editor' \in [Admin -> [data: Revision', base: Revision', draft: Policy',
                               conflict: BOOLEAN]]
    BY <1>1 DEF EditorState
  <1>6. op' \in [Admin -> [phase: {"idle", "sent", "committed", "notifying", "announced",
                                   "conflict"},
                           at: Replica \cup {None}, kind: {"publish", "rollback"},
                           baseRevision: Revision', policy: Policy', reviewed: Policy',
                           revision: Revision']]
    BY <1>1 DEF OpState, Maybe
  <1>7. scenario' \in Scenario /\ (current <= scenario.revisions)'
    BY DEF TypeOK, current
  <1> HIDE DEF RevisionOrNever
  <1>8. heard' \in [Replica -> -1..(scenario'.revisions)]
        /\ highest' \in [Client -> -1..(scenario'.revisions)]
    BY DEF RevisionOrNever
  <1>9. QED
    BY <1>1, <1>2, <1>3, <1>4, <1>5, <1>6, <1>7, <1>8 DEF TypeOK

----------------------------------------------------------------------------
(* Steps of one actor                                                      *)

\* The cache after a read or a publication is no older than a notification.
LEMMA RememberedKeeps ==
    ASSUME IInv, NEW n, NEW r \in Revision, NEW m \in Replica
    PROVE  /\ remembered(n, r)[m] # None => remembered(n, r)[m] >= notified[m]
           /\ rememberedOwn(n, r)[m] # None => rememberedOwn(n, r)[m] >= notified[m]
  <1>1. cached \in [Replica -> Maybe(Revision)]
    BY TypeParts DEF IInv
  <1>2. cached[m] # None => cached[m] >= notified[m]
    BY DEF IInv, CacheNotOlderThanNotified
  <1>3. QED
    BY <1>1, <1>2 DEF remembered, rememberedOwn

\* What IInv says of the page and the publication of one administrator.
Sound(e, o) ==
    /\ o.phase # "idle" => o.at \in Replica
    /\ e.data <= current /\ e.base <= current /\ o.revision <= current
    /\ o.phase = "sent" => /\ o.baseRevision <= current
                           /\ o.baseRevision < scenario.revisions
                           /\ o.reviewed = policyOf(o.baseRevision)

\* A publication is announced by the steps that announce it, or a fault.
GoesOn(a, o) ==
    o.phase \in {"notifying", "announced"} =>
        \/ o = op[a]
        \/ deployment # "memory" /\ faults' > 0

\* A step of an administrator that changes only the page, the publication under
\* way and the cache.
LEMMA AdminStep ==
    ASSUME IInv, NEW a \in Admin, NEW e \in EditorState, NEW o \in OpState,
           UNCHANGED <<storeVars, notified, heard, channel, told, clientVars>>,
           editor' = [editor EXCEPT ![a] = e], op' = [op EXCEPT ![a] = o],
           cached' \in [Replica -> Maybe(Revision)],
           \A n \in Replica : cached'[n] # None => cached'[n] >= notified[n],
           faults' \in 0..scenario.faults, faults' >= faults,
           Sound(e, o),
           GoesOn(a, o)
    PROVE  IInv'
  <1> USE DEF storeVars, clientVars
  <1>0. /\ TypeOK /\ editor \in [Admin -> EditorState] /\ op \in [Admin -> OpState]
        /\ scenario.faults \in Nat /\ faults \in Nat
    BY TypeParts, Bounds DEF IInv
  <1> USE DEF GoesOn
  <1>1. TypeOK'
    <2>1. editor' \in [Admin -> EditorState] /\ op' \in [Admin -> OpState]
      BY <1>0
    <2>2. Len(published') <= scenario.revisions
      BY <1>0, TypeParts DEF current
    <2>3. QED BY <1>0, <2>1, <2>2, TypeParts, TypeStep
  <1>2. /\ \A b \in Admin : editor'[b] = IF b = a THEN e ELSE editor[b]
        /\ \A b \in Admin : op'[b] = IF b = a THEN o ELSE op[b]
        /\ current' = current /\ deployment' = deployment
        /\ \A r : policyOf(r)' = policyOf(r)
    BY <1>0 DEF current, deployment, policyOf
  <1>3. Located'
    BY <1>2 DEF IInv, Located, Sound
  <1>4. PublishedFromReviewed'
    BY <1>2 DEF IInv, PublishedFromReviewed
  <1>5. KnownRevisions'
    BY <1>2 DEF IInv, KnownRevisions, Sound
  <1>6. SentFromReviewed'
    BY <1>2 DEF IInv, SentFromReviewed, Sound
  <1>7. NotifiedInTime'
    BY <1>2 DEF IInv, NotifiedInTime, Sound
  <1>8. DurableStreams'
    <2>1. faults' = 0 => faults = 0
      BY <1>0
    <2>2. QED BY <1>2, <2>1 DEF IInv, DurableStreams
  <1>9. CacheNotOlderThanNotified'
    BY DEF CacheNotOlderThanNotified
  <1>10. StreamMissesNothing'
    <2>1. faults' = 0 => faults = 0
      BY <1>0
    <2>2. QED BY <1>2, <2>1 DEF IInv, StreamMissesNothing
  <1>11. QED
    BY <1>1, <1>3, <1>4, <1>5, <1>6, <1>7, <1>8, <1>9, <1>10 DEF IInv

\* A step of a request or of a browser: a stream that is open afterwards was
\* open and lost nothing, or it was brought up to date.
LEMMA ClientStep ==
    ASSUME IInv, UNCHANGED <<storeVars, notified, heard, channel, told, adminVars>>,
           cached' \in [Replica -> Maybe(Revision)],
           \A n \in Replica : cached'[n] # None => cached'[n] >= notified[n],
           read' \in [Reader -> ReadState], highest' \in [Client -> RevisionOrNever],
           view' \in [Client -> Maybe(Revision)], stream' \in [Client -> StreamState],
           faults' \in 0..scenario.faults, faults' >= faults,
           \A q \in Reader : read'[q] # NoRead => read'[q].at \in Replica,
           \A c \in Client : stream'[c].phase # "closed" => stream'[c].at \in Replica,
           \A c \in Client : stream'[c].phase = "open" =>
               \/ /\ stream[c].phase = "open" /\ stream'[c].at = stream[c].at
                  /\ stream'[c].seen = stream[c].seen
               \/ /\ stream'[c].seen >= heard[stream'[c].at]
                  /\ deployment = "durable" => stream'[c].seen >= current
    PROVE  IInv'
  <1> USE DEF storeVars, adminVars
  <1>0. /\ TypeOK /\ scenario.faults \in Nat /\ faults \in Nat /\ current \in Nat
        /\ op \in [Admin -> OpState] /\ told \in [Replica -> Revision]
        /\ Revision \subseteq Nat
    BY TypeParts, Bounds DEF IInv, Revision
  <1>1. TypeOK'
    <2>1. Len(published') <= scenario.revisions
      BY <1>0, TypeParts DEF current
    <2>2. QED BY <1>0, <2>1, TypeParts, TypeStep
  <1>2. /\ current' = current /\ deployment' = deployment
        /\ \A r : policyOf(r)' = policyOf(r)
        /\ faults' = 0 => faults = 0
    BY <1>0 DEF current, deployment, policyOf
  <1>3. Located'
    BY DEF IInv, Located
  <1>4. PublishedFromReviewed'
    BY <1>2 DEF IInv, PublishedFromReviewed
  <1>5. KnownRevisions'
    BY <1>2 DEF IInv, KnownRevisions
  <1>6. SentFromReviewed'
    BY <1>2 DEF IInv, SentFromReviewed
  <1>7. NotifiedInTime'
    BY <1>2 DEF IInv, NotifiedInTime
  <1>8. DurableStreams'
    <2>1. ASSUME deployment = "durable", faults = 0, NEW b \in Admin, NEW c \in Client,
                 op[b].phase = "announced", stream'[c].phase = "open"
          PROVE  stream'[c].seen >= op[b].revision
      <3>1. op[b].revision <= current /\ op[b].revision \in Nat
        BY <1>0 DEF IInv, KnownRevisions, OpState
      <3>2. stream'[c].seen \in Int
        BY <1>0 DEF StreamState, RevisionOrNever
      <3>3. CASE stream[c].phase = "open" /\ stream'[c].seen = stream[c].seen
        BY <2>1, <3>3 DEF IInv, DurableStreams
      <3>4. CASE stream'[c].seen >= current
        BY <1>0, <3>1, <3>2, <3>4
      <3>5. QED BY <2>1, <3>3, <3>4
    <2>2. QED BY <1>2, <2>1 DEF IInv, DurableStreams
  <1>9. CacheNotOlderThanNotified'
    BY DEF CacheNotOlderThanNotified
  <1>10. StreamMissesNothing'
    <2>1. ASSUME NEW c \in Client, stream'[c].phase = "open"
          PROVE  stream'[c].seen >= heard[stream'[c].at]
      BY <2>1 DEF IInv, StreamMissesNothing
    <2>2. ASSUME deployment = "durable", faults = 0, NEW n \in Replica, NEW c \in Client,
                 stream'[c].phase = "open"
          PROVE  stream'[c].seen >= told[n]
      <3>1. told[n] <= current /\ told[n] \in Nat
        BY <1>0 DEF IInv, KnownRevisions
      <3>2. stream'[c].seen \in Int
        BY <1>0 DEF StreamState, RevisionOrNever
      <3>3. CASE stream[c].phase = "open" /\ stream'[c].seen = stream[c].seen
        BY <2>2, <3>3 DEF IInv, StreamMissesNothing
      <3>4. CASE stream'[c].seen >= current
        BY <1>0, <3>1, <3>2, <3>4
      <3>5. QED BY <2>2, <3>3, <3>4
    <2>3. QED BY <1>2, <2>1, <2>2 DEF StreamMissesNothing
  <1>11. QED
    BY <1>1, <1>3, <1>4, <1>5, <1>6, <1>7, <1>8, <1>9, <1>10 DEF IInv

----------------------------------------------------------------------------
(* The actions                                                             *)

\* The administrator's page is fetched again.
LEMMA RefetchedType ==
    ASSUME IInv, NEW e \in EditorState, e.data <= current, e.base <= current
    PROVE  /\ refetched(e) \in EditorState
           /\ refetched(e).data <= current /\ refetched(e).base <= current
  <1>1. current \in Revision /\ current \in Nat /\ policyOf(current) \in Policy
    BY Bounds, PolicyOfRevision DEF IInv
  <1> DEFINE f == [e EXCEPT !.data = current]
  <1>2. f \in EditorState /\ f.data = current /\ f.base = e.base
    BY <1>1 DEF EditorState
  <1>3. [f EXCEPT !.base = f.data, !.draft = policyOf(f.data)] \in EditorState
    BY <1>1, <1>2 DEF EditorState
  <1>4. QED
    BY <1>1, <1>2, <1>3 DEF refetched, rebasePolicyDraft, EditorState

\* What is known of a page and of a publication between steps.
LEMMA AdminFacts ==
    ASSUME IInv, NEW a \in Admin
    PROVE  /\ editor[a] \in EditorState /\ op[a] \in OpState
           /\ op = [op EXCEPT ![a] = op[a]] /\ editor = [editor EXCEPT ![a] = editor[a]]
           /\ editor[a].data \in 0..current /\ editor[a].base \in 0..current
           /\ op[a].revision \in 0..current
           /\ Sound(editor[a], op[a])
           /\ NoOp \in OpState /\ NoOp.phase = "idle"
           /\ current \in Nat /\ current \in Revision /\ current <= scenario.revisions
           /\ scenario.revisions \in Nat /\ Revision = 0..scenario.revisions
           /\ faults \in 0..scenario.faults /\ faults >= faults
           /\ Node \subseteq Replica
  <1>1. /\ editor[a] \in EditorState /\ op[a] \in OpState
        /\ op = [op EXCEPT ![a] = op[a]] /\ editor = [editor EXCEPT ![a] = editor[a]]
        /\ current <= scenario.revisions /\ faults \in 0..scenario.faults
    BY TypeParts DEF IInv
  <1>2. /\ current \in Nat /\ current \in Revision /\ faults \in Nat
        /\ Node \subseteq Replica /\ emptyPolicy \in Policy /\ scenario.revisions \in Nat
    BY Bounds DEF IInv
  <1>3. NoOp \in OpState /\ NoOp.phase = "idle"
    BY <1>2 DEF NoOp, OpState, Maybe, Revision
  <1>4. /\ editor[a].data \in 0..current /\ editor[a].base \in 0..current
        /\ op[a].revision \in 0..current
    BY <1>1, <1>2 DEF IInv, KnownRevisions, EditorState, OpState, Revision
  <1>5. Sound(editor[a], op[a])
    BY DEF IInv, Located, KnownRevisions, SentFromReviewed, Sound
  <1>6. QED
    BY <1>1, <1>2, <1>3, <1>4, <1>5 DEF Revision

\* A page or publication step that leaves the caches alone.
LEMMA QuietAdminStep ==
    ASSUME IInv, NEW a \in Admin, NEW e \in EditorState, NEW o \in OpState,
           UNCHANGED <<storeVars, nodeVars, clientVars>>,
           editor' = [editor EXCEPT ![a] = e], op' = [op EXCEPT ![a] = o],
           faults' \in 0..scenario.faults, faults' >= faults,
           Sound(e, o),
           GoesOn(a, o)
    PROVE  IInv'
  <1>1. /\ cached' \in [Replica -> Maybe(Revision)]
        /\ \A m \in Replica : cached'[m] # None => cached'[m] >= notified[m]
    BY TypeParts DEF IInv, nodeVars, CacheNotOlderThanNotified
  <1>2. UNCHANGED <<storeVars, notified, heard, channel, told, clientVars>>
    BY DEF nodeVars
  <1>3. QED
    BY <1>1, <1>2, AdminStep

\* What readCurrent keeps of the current revision.
LEMMA CurrentKept ==
    ASSUME IInv, NEW n
    PROVE  /\ remembered(n, current) \in [Replica -> Maybe(Revision)]
           /\ \A m \in Replica : remembered(n, current)[m] # None =>
                  remembered(n, current)[m] >= notified[m]
  <1>1. current \in Revision
    BY Bounds DEF IInv
  <1>2. QED
    BY <1>1, RememberedType, RememberedKeeps DEF IInv

LEMMA RefetchKeeps ==
    ASSUME IInv, NEW a \in Admin, NEW n \in Node, Refetch(a, n)
    PROVE  IInv'
  <1> DEFINE e == refetched(editor[a])
             o == op[a]
  <1>1. e \in EditorState /\ e.data <= current /\ e.base <= current
    BY AdminFacts, RefetchedType
  <1>2. Sound(e, o) /\ o \in OpState /\ GoesOn(a, o)
    BY <1>1, AdminFacts DEF Sound, GoesOn
  <1>3. /\ cached' \in [Replica -> Maybe(Revision)]
        /\ \A m \in Replica : cached'[m] # None => cached'[m] >= notified[m]
    BY CurrentKept DEF Refetch
  <1>4. /\ editor' = [editor EXCEPT ![a] = e]
        /\ UNCHANGED <<storeVars, notified, heard, channel, told, clientVars>>
        /\ op' = [op EXCEPT ![a] = o]
        /\ faults' \in 0..scenario.faults /\ faults' >= faults
    BY AdminFacts DEF Refetch
  <1> HIDE DEF e, o
  <1>5. QED
    BY <1>1, <1>2, <1>3, <1>4, AdminStep

LEMMA EditKeeps ==
    ASSUME IInv, NEW a \in Admin, NEW p \in Policy, Edit(a, p)
    PROVE  IInv'
  <1> DEFINE e == [editor[a] EXCEPT !.draft = p]
             o == op[a]
  <1>1. e \in EditorState /\ e.data = editor[a].data /\ e.base = editor[a].base
    BY AdminFacts DEF EditorState
  <1>2. Sound(e, o) /\ o \in OpState /\ GoesOn(a, o)
    BY <1>1, AdminFacts DEF Sound, GoesOn
  <1>3. /\ editor' = [editor EXCEPT ![a] = e] /\ op' = [op EXCEPT ![a] = o]
        /\ UNCHANGED <<storeVars, nodeVars, clientVars>>
        /\ faults' \in 0..scenario.faults /\ faults' >= faults
    BY AdminFacts DEF Edit
  <1> HIDE DEF e, o
  <1>4. QED
    BY <1>1, <1>2, <1>3, QuietAdminStep

LEMMA DiscardKeeps ==
    ASSUME IInv, NEW a \in Admin, Discard(a)
    PROVE  IInv'
  <1> DEFINE e == [data |-> editor[a].data, base |-> editor[a].data,
                   draft |-> policyOf(editor[a].data), conflict |-> FALSE]
             o == op[a]
  <1>1. policyOf(editor[a].data) \in Policy
    BY AdminFacts, PolicyOfRevision DEF IInv
  <1>2. e \in EditorState /\ e.data = editor[a].data /\ e.base = editor[a].data
    BY <1>1, AdminFacts DEF EditorState
  <1>3. Sound(e, o) /\ o \in OpState /\ GoesOn(a, o)
    BY <1>2, AdminFacts DEF Sound, GoesOn
  <1>4. /\ editor' = [editor EXCEPT ![a] = e] /\ op' = [op EXCEPT ![a] = o]
        /\ UNCHANGED <<storeVars, nodeVars, clientVars>>
        /\ faults' \in 0..scenario.faults /\ faults' >= faults
    BY AdminFacts DEF Discard
  <1> HIDE DEF e, o
  <1>5. QED
    BY <1>2, <1>3, <1>4, QuietAdminStep

LEMMA SendPublishKeeps ==
    ASSUME IInv, NEW a \in Admin, NEW n \in Node, SendPublish(a, n)
    PROVE  IInv'
  <1> DEFINE e == editor[a]
             o == [phase |-> "sent", at |-> n, kind |-> "publish",
                   baseRevision |-> draftBase(e), policy |-> e.draft,
                   reviewed |-> policyOf(e.base), revision |-> 0]
  <1>1. policyOf(e.base) \in Policy /\ e \in EditorState /\ n \in Replica
    BY AdminFacts, PolicyOfRevision DEF IInv
  <1>2. e.base < scenario.revisions /\ e.base \in Revision /\ 0 \in Revision
    BY AdminFacts DEF SendPublish
  <1>3. o \in OpState
    BY <1>1, <1>2 DEF OpState, EditorState, Maybe, draftBase
  <1>4. /\ o.phase = "sent" /\ o.at = n /\ o.baseRevision = e.base /\ o.revision = 0
        /\ o.reviewed = policyOf(e.base)
    BY DEF draftBase
  <1>5. /\ editor' = [editor EXCEPT ![a] = e] /\ op' = [op EXCEPT ![a] = o]
        /\ UNCHANGED <<storeVars, nodeVars, clientVars>>
        /\ faults' \in 0..scenario.faults /\ faults' >= faults
    BY AdminFacts DEF SendPublish
  <1>6. Sound(e, o)
    <2> HIDE DEF o
    <2>1. QED BY <1>1, <1>2, <1>4, AdminFacts DEF Sound
  <1> HIDE DEF o
  <1>7. QED
    BY <1>1, <1>3, <1>4, <1>5, <1>6, QuietAdminStep DEF GoesOn

LEMMA SendRollbackKeeps ==
    ASSUME IInv, NEW a \in Admin, NEW n \in Node, NEW target \in Revision,
           SendRollback(a, n, target)
    PROVE  IInv'
  <1> DEFINE e == editor[a]
             o == [phase |-> "sent", at |-> n, kind |-> "rollback",
                   baseRevision |-> e.data, policy |-> policyOf(target),
                   reviewed |-> policyOf(e.data), revision |-> 0]
  <1>1. e \in EditorState /\ n \in Replica
        /\ policyOf(e.data) \in Policy /\ policyOf(target) \in Policy
    BY AdminFacts, PolicyOfRevision DEF IInv, SendRollback
  <1>2. e.data < scenario.revisions /\ e.data \in Revision /\ 0 \in Revision
    BY AdminFacts DEF SendRollback
  <1>3. o \in OpState
    BY <1>1, <1>2 DEF OpState, Maybe
  <1>4. /\ o.phase = "sent" /\ o.at = n /\ o.baseRevision = e.data /\ o.revision = 0
        /\ o.reviewed = policyOf(e.data)
    OBVIOUS
  <1>5. /\ editor' = [editor EXCEPT ![a] = e] /\ op' = [op EXCEPT ![a] = o]
        /\ UNCHANGED <<storeVars, nodeVars, clientVars>>
        /\ faults' \in 0..scenario.faults /\ faults' >= faults
    BY AdminFacts DEF SendRollback
  <1>6. Sound(e, o)
    <2> HIDE DEF o
    <2>1. QED BY <1>1, <1>2, <1>4, AdminFacts DEF Sound
  <1> HIDE DEF o
  <1>7. QED
    BY <1>1, <1>3, <1>4, <1>5, <1>6, QuietAdminStep DEF GoesOn

\* A fault is counted within its bound.
LEMMA FaultCounts ==
    ASSUME IInv, fault
    PROVE  faults' \in 0..scenario.faults /\ faults' >= faults /\ faults' > 0
  BY Bounds DEF IInv, fault

LEMMA StoreAnswerLostKeeps ==
    ASSUME IInv, NEW a \in Admin, StoreAnswerLost(a)
    PROVE  IInv'
  <1>1. faults' \in 0..scenario.faults /\ faults' >= faults
    BY FaultCounts DEF StoreAnswerLost
  <1>2. Sound(editor[a], NoOp) /\ NoOp \in OpState /\ NoOp.phase = "idle"
        /\ editor[a] \in EditorState
    BY AdminFacts DEF Sound, NoOp
  <1>3. /\ editor' = [editor EXCEPT ![a] = editor[a]] /\ op' = [op EXCEPT ![a] = NoOp]
        /\ UNCHANGED <<storeVars, nodeVars, clientVars>>
    BY AdminFacts DEF StoreAnswerLost
  <1>4. QED
    BY <1>1, <1>2, <1>3, QuietAdminStep DEF GoesOn

LEMMA AnnounceFailsKeeps ==
    ASSUME IInv, NEW a \in Admin, AnnounceFails(a)
    PROVE  IInv'
  <1> DEFINE o == [op[a] EXCEPT !.phase = "announced"]
  <1>1. faults' \in 0..scenario.faults /\ faults' >= faults /\ faults' > 0
    BY FaultCounts DEF AnnounceFails
  <1>2. o \in OpState /\ o.phase = "announced" /\ o.at = op[a].at
        /\ o.revision = op[a].revision
    BY AdminFacts DEF OpState
  <1>3. Sound(editor[a], o) /\ editor[a] \in EditorState
    <2> HIDE DEF o
    <2>1. QED BY <1>2, AdminFacts DEF Sound, AnnounceFails
  <1>4. /\ editor' = [editor EXCEPT ![a] = editor[a]] /\ op' = [op EXCEPT ![a] = o]
        /\ UNCHANGED <<storeVars, nodeVars, clientVars>>
    BY AdminFacts DEF AnnounceFails
  <1>5. deployment # "memory"
    BY DEF AnnounceFails, IInv, NotifiedInTime
  <1> HIDE DEF o
  <1>6. QED
    BY <1>1, <1>2, <1>3, <1>4, <1>5, QuietAdminStep DEF GoesOn

LEMMA ConflictKeeps ==
    ASSUME IInv, NEW a \in Admin, Conflict(a)
    PROVE  IInv'
  <1> DEFINE r == refetched(editor[a])
             e == [r EXCEPT !.conflict = editor[a].conflict \/ op[a].kind = "publish"]
  <1>1. r \in EditorState /\ r.data <= current /\ r.base <= current
    BY AdminFacts, RefetchedType
  <1>2. e \in EditorState /\ e.data = r.data /\ e.base = r.base
    <2> HIDE DEF r
    <2>1. (editor[a].conflict \/ op[a].kind = "publish") \in BOOLEAN
      OBVIOUS
    <2>2. QED BY <1>1, <2>1 DEF EditorState
  <1>3. /\ cached' \in [Replica -> Maybe(Revision)]
        /\ \A m \in Replica : cached'[m] # None => cached'[m] >= notified[m]
    BY CurrentKept DEF Conflict
  <1>4. /\ editor' = [editor EXCEPT ![a] = e] /\ op' = [op EXCEPT ![a] = NoOp]
        /\ UNCHANGED <<storeVars, notified, heard, channel, told, clientVars>>
        /\ faults' \in 0..scenario.faults /\ faults' >= faults
    BY AdminFacts, TypeParts DEF Conflict, IInv
  <1> HIDE DEF e, r
  <1>5. Sound(e, NoOp) /\ NoOp \in OpState /\ NoOp.phase = "idle"
    BY <1>1, <1>2, AdminFacts DEF Sound, NoOp
  <1>6. QED
    BY <1>2, <1>3, <1>4, <1>5, AdminStep DEF GoesOn

\* A request or a browser asks, and the store answers or fails.
LEMMA ReadStoreFacts ==
    ASSUME IInv, NEW q \in Reader, NEW n \in Node, NEW r \in RevisionOrNever,
           ReadStore(q, n, r)
    PROVE  /\ read' \in [Reader -> ReadState]
           /\ \A p \in Reader : read'[p] # NoRead => read'[p].at \in Replica
           /\ faults' \in 0..scenario.faults /\ faults' >= faults
  <1>1. /\ current \in Revision /\ Node \subseteq Replica /\ faults \in Nat
        /\ faults \in 0..scenario.faults /\ read \in [Reader -> ReadState]
    BY Bounds, TypeParts DEF IInv
  <1>2. PICK v \in {current, None} :
          read' = [read EXCEPT ![q] = [at |-> n, value |-> v, revision |-> r]]
    BY DEF ReadStore
  <1>3. [at |-> n, value |-> v, revision |-> r] \in ReadState
    BY <1>1, <1>2 DEF ReadState, Maybe
  <1>4. faults' = faults \/ fault
    BY DEF ReadStore
  <1>5. \A p \in Reader : read'[p] # NoRead => read'[p].at \in Replica
    BY <1>1, <1>2 DEF IInv, Located
  <1>6. QED
    BY <1>1, <1>2, <1>3, <1>4, <1>5, FaultCounts

\* The parts of the state a step leaves alone keep their types.
LEMMA ClientFacts ==
    ASSUME IInv
    PROVE  /\ cached \in [Replica -> Maybe(Revision)]
           /\ \A n \in Replica : cached[n] # None => cached[n] >= notified[n]
           /\ read \in [Reader -> ReadState] /\ highest \in [Client -> RevisionOrNever]
           /\ view \in [Client -> Maybe(Revision)] /\ stream \in [Client -> StreamState]
           /\ faults \in 0..scenario.faults /\ faults >= faults
           /\ \A q \in Reader : read[q] # NoRead => read[q].at \in Replica
           /\ \A c \in Client : stream[c].phase # "closed" => stream[c].at \in Replica
           /\ heard \in [Replica -> RevisionOrNever]
           /\ Client \subseteq Reader /\ Node \subseteq Replica
           /\ NoStream \in StreamState /\ NoStream.phase = "closed"
           /\ NoRead \in ReadState
           /\ current \in Nat /\ current \in Revision /\ scenario.revisions \in Nat
           /\ Revision = 0..scenario.revisions
  <1>1. /\ current \in Nat /\ current \in Revision /\ scenario.revisions \in Nat
        /\ faults \in Nat /\ Node \subseteq Replica
    BY Bounds DEF IInv
  <1>2. NoStream \in StreamState /\ NoStream.phase = "closed" /\ NoRead \in ReadState
    BY <1>1 DEF NoStream, StreamState, NoRead, ReadState, Maybe, RevisionOrNever, Revision
  <1>3. QED
    BY <1>1, <1>2, TypeParts
    DEF IInv, CacheNotOlderThanNotified, Located, Reader, Revision

LEMMA StartReadKeeps ==
    ASSUME IInv, NEW q \in Request, NEW n \in Node, StartRead(q, n)
    PROVE  IInv'
  <1>1. q \in Reader /\ -1 \in RevisionOrNever
    BY ClientFacts DEF Reader, RevisionOrNever
  <1>2. ReadStore(q, n, -1)
    BY DEF StartRead
  <1>3. UNCHANGED <<storeVars, cached, notified, heard, channel, told, stream, highest, view,
                    adminVars>>
    BY DEF StartRead, nodeVars
  <1>4. QED
    BY <1>1, <1>2, <1>3, ReadStoreFacts, ClientFacts, ClientStep

LEMMA PollKeeps ==
    ASSUME IInv, NEW c \in Client, NEW n \in Node, Poll(c, n)
    PROVE  IInv'
  <1>1. c \in Reader /\ -1 \in RevisionOrNever
    BY ClientFacts DEF RevisionOrNever
  <1>2. ReadStore(c, n, -1)
    BY DEF Poll
  <1>3. /\ UNCHANGED <<storeVars, cached, notified, heard, channel, told, stream, view, adminVars>>
        /\ highest' = [highest EXCEPT ![c] = greatest(@, read[c].revision)]
    BY DEF Poll, nodeVars
  <1>4. read[c].revision \in RevisionOrNever /\ highest[c] \in RevisionOrNever
    BY <1>1, ClientFacts DEF ReadState
  <1>5. highest' \in [Client -> RevisionOrNever]
    BY <1>3, <1>4, ClientFacts DEF greatest
  <1>6. QED
    BY <1>1, <1>2, <1>3, <1>5, ReadStoreFacts, ClientFacts, ClientStep

LEMMA EndReadKeeps ==
    ASSUME IInv, NEW q \in Reader, EndRead(q)
    PROVE  IInv'
  <1> DEFINE n == read[q].at
             v == read[q].value
  <1>1. /\ n \in Replica /\ v \in Maybe(Revision) /\ read[q].revision \in RevisionOrNever
        /\ q \in Client => highest[q] \in RevisionOrNever
    BY ClientFacts DEF EndRead, ReadState
  <1>2. /\ cached' = IF v = None THEN cached ELSE remembered(n, v)
        /\ read' = [read EXCEPT ![q] = NoRead]
        /\ UNCHANGED <<storeVars, notified, heard, channel, told, stream, adminVars, faults>>
    BY DEF EndRead
  <1>3. view' \in [Client -> Maybe(Revision)]
    <2>1. (IF v = None THEN cached[n] ELSE v) \in Maybe(Revision)
      BY <1>1, ClientFacts
    <2>2. view' = view \/ view' = [view EXCEPT ![q] = IF v = None THEN cached[n] ELSE v]
      BY DEF EndRead
    <2>3. QED BY <2>1, <2>2, ClientFacts
  <1>4. highest' \in [Client -> RevisionOrNever]
    <2>1. \/ highest' = highest
          \/ q \in Client /\ highest' = [highest EXCEPT ![q] = greatest(@, read[q].revision)]
      BY DEF EndRead
    <2>2. QED BY <1>1, <2>1, ClientFacts DEF greatest
  <1>5. /\ cached' \in [Replica -> Maybe(Revision)]
        /\ \A m \in Replica : cached'[m] # None => cached'[m] >= notified[m]
    <2>1. CASE v = None
      BY <1>2, <2>1, ClientFacts
    <2>2. CASE v # None
      <3>1. v \in Revision
        BY <1>1, <2>2 DEF Maybe
      <3>2. QED BY <1>2, <2>2, <3>1, RememberedType, RememberedKeeps DEF IInv
    <2>3. QED BY <2>1, <2>2
  <1>6. /\ read' \in [Reader -> ReadState]
        /\ \A p \in Reader : read'[p] # NoRead => read'[p].at \in Replica
    BY <1>2, ClientFacts
  <1>7. QED
    BY <1>2, <1>3, <1>4, <1>5, <1>6, ClientFacts, ClientStep

LEMMA OpenStreamKeeps ==
    ASSUME IInv, NEW c \in Client, NEW n \in Node, OpenStream(c, n)
    PROVE  IInv'
  <1> DEFINE s == [phase |-> "opening", at |-> n, current |-> current, seen |-> -1,
                   sent |-> <<>>]
  <1>1. s \in StreamState /\ s.phase = "opening" /\ s.at \in Replica
    BY ClientFacts DEF StreamState, Maybe, RevisionOrNever
  <1>2. /\ stream' = [stream EXCEPT ![c] = s]
        /\ UNCHANGED <<storeVars, cached, notified, heard, channel, told, read, highest, view,
                       adminVars, faults>>
    BY DEF OpenStream, nodeVars
  <1> HIDE DEF s
  <1>3. /\ stream' \in [Client -> StreamState]
        /\ \A d \in Client : stream'[d] = IF d = c THEN s ELSE stream[d]
    BY <1>1, <1>2, ClientFacts
  <1>4. \A d \in Client :
          /\ stream'[d].phase # "closed" => stream'[d].at \in Replica
          /\ stream'[d].phase = "open" =>
                stream[d].phase = "open" /\ stream'[d] = stream[d]
    BY <1>1, <1>3, ClientFacts
  <1>5. QED
    BY <1>2, <1>3, <1>4, ClientFacts, ClientStep

\* A revision that is offered is not behind what was sent already.
LEMMA OfferedFacts ==
    ASSUME NEW s \in StreamState, NEW r \in Int, scenario.revisions \in Nat
    PROVE  /\ offered(s, r).phase = s.phase /\ offered(s, r).at = s.at
           /\ offered(s, r).seen >= s.seen
           /\ s.phase = "open" => offered(s, r).seen >= r
           /\ s.phase # "open" => offered(s, r) = s
  <1>1. s.seen \in Int
    BY DEF StreamState, RevisionOrNever
  <1>2. QED
    BY <1>1 DEF offered, StreamState

LEMMA SubscribeKeeps ==
    ASSUME IInv, NEW c \in Client, Subscribe(c)
    PROVE  IInv'
  <1> DEFINE s == stream[c]
             o == [s EXCEPT !.phase = "open", !.seen = highest[c]]
             r == startingRevision(s)
             t == offered(o, r)
  <1>1. /\ s \in StreamState /\ s.phase = "opening" /\ s.at \in Replica
        /\ s.current \in Revision /\ heard[s.at] \in RevisionOrNever
    BY ClientFacts DEF Subscribe, StreamState
  <1>2. o \in StreamState /\ o.phase = "open" /\ o.at = s.at
    BY <1>1, ClientFacts DEF StreamState
  <1>3. /\ r \in Revision /\ r \in Int
        /\ deployment = "durable" => r >= current
        /\ deployment # "durable" => r >= heard[s.at]
    BY <1>1, ClientFacts DEF startingRevision, greatest, RevisionOrNever
  <1> HIDE DEF r, o
  <1>4. /\ t \in StreamState /\ t.phase = "open" /\ t.at = s.at /\ t.seen >= r
    BY <1>2, <1>3, ClientFacts, OfferedType, OfferedFacts DEF IInv
  <1>5. t.seen \in Int
    BY <1>4, ClientFacts DEF StreamState, RevisionOrNever
  <1>6. t.seen >= heard[t.at] /\ (deployment = "durable" => t.seen >= current)
    <2>1. CASE deployment = "durable"
      <3>1. heard[s.at] = -1
        BY <1>1, <2>1 DEF IInv, DurableStreams
      <3>2. QED BY <1>3, <1>4, <1>5, <2>1, <3>1, ClientFacts
    <2>2. CASE deployment # "durable"
      BY <1>1, <1>3, <1>4, <1>5, <2>2, ClientFacts DEF RevisionOrNever
    <2>3. QED BY <2>1, <2>2
  <1>7. PICK u \in {t, NoStream} : stream' = [stream EXCEPT ![c] = u]
    BY DEF Subscribe, r, o
  <1>8. UNCHANGED <<storeVars, notified, heard, channel, told, read, highest, view, adminVars,
                    faults>>
    BY DEF Subscribe
  <1>9. /\ cached' \in [Replica -> Maybe(Revision)]
        /\ \A m \in Replica : cached'[m] # None => cached'[m] >= notified[m]
    <2>1. cached' = remembered(s.at, s.current)
      BY DEF Subscribe
    <2>2. QED BY <1>1, <2>1, RememberedType, RememberedKeeps DEF IInv
  <1> HIDE DEF t
  <1>10. u \in StreamState
    BY <1>4, <1>7, ClientFacts
  <1>11. /\ stream' \in [Client -> StreamState]
         /\ \A d \in Client : stream'[d] = IF d = c THEN u ELSE stream[d]
    BY <1>7, <1>10, ClientFacts
  <1>12. \A d \in Client : stream'[d].phase # "closed" => stream'[d].at \in Replica
    BY <1>1, <1>4, <1>7, <1>11, ClientFacts
  <1>13. \A d \in Client : stream'[d].phase = "open" =>
           \/ stream[d].phase = "open" /\ stream'[d] = stream[d]
           \/ /\ stream'[d].seen >= heard[stream'[d].at]
              /\ deployment = "durable" => stream'[d].seen >= current
    BY <1>6, <1>7, <1>11, ClientFacts
  <1>14. QED
    BY <1>8, <1>9, <1>11, <1>12, <1>13, ClientFacts, ClientStep

LEMMA StreamBreaksKeeps ==
    ASSUME IInv, NEW c \in Client, StreamBreaks(c)
    PROVE  IInv'
  <1>1. /\ stream' = [stream EXCEPT ![c] = NoStream]
        /\ UNCHANGED <<storeVars, cached, notified, heard, channel, told, read, highest, view,
                       adminVars>>
    BY DEF StreamBreaks, nodeVars
  <1>2. faults' \in 0..scenario.faults /\ faults' >= faults
    BY FaultCounts DEF StreamBreaks
  <1>3. /\ stream' \in [Client -> StreamState]
        /\ \A d \in Client : stream'[d] = IF d = c THEN NoStream ELSE stream[d]
    BY <1>1, ClientFacts
  <1>4. \A d \in Client :
          /\ stream'[d].phase # "closed" => stream'[d].at \in Replica
          /\ stream'[d].phase = "open" =>
                stream[d].phase = "open" /\ stream'[d] = stream[d]
    BY <1>3, ClientFacts
  <1>5. QED
    BY <1>1, <1>2, <1>3, <1>4, ClientFacts, ClientStep

LEMMA ReceiveRevisionKeeps ==
    ASSUME IInv, NEW c \in Client, NEW n \in Node, ReceiveRevision(c, n)
    PROVE  IInv'
  <1> DEFINE s == [stream[c] EXCEPT !.sent = Tail(@)]
             r == Head(stream[c].sent)
  <1>1. /\ stream[c] \in StreamState /\ stream[c].sent # <<>>
        /\ stream[c].sent \in Seq(Revision)
    BY ClientFacts DEF ReceiveRevision, StreamState
  <1>2. r \in Revision /\ Tail(stream[c].sent) \in Seq(Revision)
    BY <1>1
  <1>3. /\ s \in StreamState /\ s.phase = stream[c].phase /\ s.at = stream[c].at
        /\ s.seen = stream[c].seen
    BY <1>1, <1>2 DEF StreamState
  <1>4. /\ stream' = [stream EXCEPT ![c] = s]
        /\ UNCHANGED <<storeVars, cached, notified, heard, channel, told, highest, view,
                       adminVars>>
    BY DEF ReceiveRevision, nodeVars
  <1>5. c \in Reader /\ r \in RevisionOrNever
    BY <1>2, ClientFacts DEF RevisionOrNever
  <1>6. ReadStore(c, n, r) \/ UNCHANGED <<read, faults>>
    BY DEF ReceiveRevision
  <1> HIDE DEF s, r
  <1>7. /\ read' \in [Reader -> ReadState]
        /\ \A p \in Reader : read'[p] # NoRead => read'[p].at \in Replica
        /\ faults' \in 0..scenario.faults /\ faults' >= faults
    BY <1>5, <1>6, ReadStoreFacts, ClientFacts
  <1>8. /\ stream' \in [Client -> StreamState]
        /\ \A d \in Client : stream'[d] = IF d = c THEN s ELSE stream[d]
    BY <1>3, <1>4, ClientFacts
  <1>9. \A d \in Client :
          /\ stream'[d].phase # "closed" => stream'[d].at \in Replica
          /\ stream'[d].phase = "open" =>
                /\ stream[d].phase = "open" /\ stream'[d].at = stream[d].at
                /\ stream'[d].seen = stream[d].seen
    BY <1>3, <1>8, ClientFacts
  <1>10. QED
    BY <1>4, <1>7, <1>8, <1>9, ClientFacts, ClientStep


\* The transaction: what is appended was reviewed against the last policy.
LEMMA StorePublishKeeps ==
    ASSUME IInv, NEW a \in Admin, StorePublish(a)
    PROVE  IInv'
  <1> USE DEF nodeVars, clientVars
  <1> DEFINE o == op[a]
             e == [policy |-> o.policy, baseRevision |-> o.baseRevision,
                   reviewed |-> o.reviewed]
  <1>1. /\ TypeOK /\ o \in OpState /\ op \in [Admin -> OpState]
        /\ current \in Nat /\ current <= scenario.revisions /\ scenario.revisions \in Nat
        /\ Revision = 0..scenario.revisions /\ o.phase = "sent"
        /\ published \in Seq(AuditEntry) /\ current = Len(published)
    BY AdminFacts, TypeParts DEF IInv, StorePublish, current
  <1>2. UNCHANGED <<scenario, cached, notified, heard, channel, told, read, stream, highest,
                    view, editor, faults>>
    BY DEF StorePublish
  <1>3. CASE o.baseRevision # current
    <2> DEFINE t == [o EXCEPT !.phase = "conflict"]
    <2>1. op' = [op EXCEPT ![a] = t] /\ published' = published
      BY <1>3 DEF StorePublish
    <2>2. t \in OpState /\ t.phase = "conflict" /\ t.at = o.at /\ t.revision = o.revision
      BY <1>1 DEF OpState
    <2>3. Sound(editor[a], t) /\ GoesOn(a, t)
      <3> HIDE DEF t
      <3>1. QED BY <1>1, <2>2, AdminFacts DEF Sound, GoesOn
    <2>4. /\ editor' = [editor EXCEPT ![a] = editor[a]] /\ editor[a] \in EditorState
          /\ UNCHANGED <<storeVars, nodeVars, clientVars>>
          /\ faults' \in 0..scenario.faults /\ faults' >= faults
      BY <1>2, <2>1, AdminFacts DEF storeVars
    <2> HIDE DEF t
    <2>5. QED BY <2>1, <2>2, <2>3, <2>4, QuietAdminStep
  <1>4. CASE o.baseRevision = current
    <2> DEFINE t == [o EXCEPT !.phase = "committed", !.revision = nextRevision]
    <2>1. published' = Append(published, e) /\ op' = [op EXCEPT ![a] = t]
      BY <1>4 DEF StorePublish
    <2>2. o.baseRevision < scenario.revisions /\ o.reviewed = policyOf(current)
      BY <1>1, <1>4 DEF IInv, SentFromReviewed
    <2>3. nextRevision = current + 1 /\ nextRevision \in Revision
      BY <1>1, <1>4, <2>2 DEF nextRevision
    <2>4. t \in OpState /\ t.phase = "committed" /\ t.at = o.at /\ t.revision = current + 1
      BY <1>1, <2>3 DEF OpState
    <2>5. e \in AuditEntry
      BY <1>1 DEF OpState, AuditEntry
    <2> HIDE DEF t, e
    <2>6. /\ op' \in [Admin -> OpState] /\ current' = current + 1
          /\ published' \in Seq(AuditEntry) /\ Len(published') <= scenario.revisions
          /\ \A b \in Admin : op'[b] = IF b = a THEN t ELSE op[b]
          /\ \A r \in 1..current : published'[r] = published[r]
          /\ published'[current + 1] = e
      BY <1>1, <1>4, <2>1, <2>2, <2>4, <2>5 DEF current
    <2>7. \A r \in 0..current : policyOf(r)' = policyOf(r)
      BY <1>1, <2>6 DEF policyOf
    <2>8. TypeOK'
      BY <1>1, <1>2, <2>6, TypeParts, TypeStep
    <2>9. Located'
      BY <1>1, <1>2, <2>4, <2>6 DEF IInv, Located
    <2>10. PublishedFromReviewed'
      <3>1. ASSUME NEW r \in 1..(current + 1)
            PROVE  published'[r].reviewed = policyOf(r - 1)' /\ published'[r].baseRevision = r - 1
        <4>1. CASE r = current + 1
          <5>1. policyOf(r - 1)' = policyOf(current) /\ r - 1 = current
            BY <1>1, <2>7, <4>1
          <5>2. e.reviewed = o.reviewed /\ e.baseRevision = o.baseRevision
            BY DEF e
          <5>3. QED BY <1>4, <2>2, <2>6, <4>1, <5>1, <5>2
        <4>2. CASE r \in 1..current
          <5>1. policyOf(r - 1)' = policyOf(r - 1)
            BY <1>1, <2>7, <4>2
          <5>2. published'[r] = published[r]
            BY <2>6, <4>2
          <5>3. QED BY <4>2, <5>1, <5>2 DEF IInv, PublishedFromReviewed
        <4>3. QED BY <1>1, <4>1, <4>2
      <3>2. QED BY <2>6, <3>1 DEF PublishedFromReviewed
    <2>11. KnownRevisions'
      <3>1. \A n \in Replica : told'[n] <= current + 1
        <4>1. told \in [Replica -> Revision]
          BY <1>1, TypeParts
        <4>2. QED BY <1>1, <1>2, <4>1 DEF IInv, KnownRevisions
      <3>2. ASSUME NEW b \in Admin
            PROVE  /\ editor'[b].data <= current + 1 /\ editor'[b].base <= current + 1
                   /\ op'[b].revision <= current + 1
        <4>1. /\ editor[b].data \in 0..current /\ editor[b].base \in 0..current
              /\ op[b].revision \in 0..current
          BY AdminFacts
        <4>2. QED BY <1>1, <1>2, <2>4, <2>6, <4>1
      <3>3. QED BY <2>6, <3>1, <3>2 DEF KnownRevisions
    <2>12. SentFromReviewed'
      <3>1. ASSUME NEW b \in Admin, op'[b].phase = "sent"
            PROVE  /\ op'[b].baseRevision <= current + 1
                   /\ op'[b].baseRevision < scenario.revisions
                   /\ op'[b].reviewed = policyOf(op[b].baseRevision)'
        <4>1. b # a /\ op'[b] = op[b]
          BY <2>4, <2>6, <3>1
        <4>2. /\ op[b].baseRevision <= current /\ op[b].baseRevision < scenario.revisions
              /\ op[b].reviewed = policyOf(op[b].baseRevision)
          BY <3>1, <4>1 DEF IInv, SentFromReviewed
        <4>3. PICK v \in 0..current : v = op[b].baseRevision
          BY <1>1, <4>2 DEF OpState
        <4>4. policyOf(v)' = policyOf(v)
          BY <2>7
        <4>5. op'[b].reviewed = policyOf(op[b].baseRevision)'
          BY <4>1, <4>2, <4>3, <4>4 DEF policyOf
        <4>6. QED BY <1>1, <4>1, <4>2, <4>3, <4>5
      <3>2. QED BY <1>2, <2>6, <3>1 DEF SentFromReviewed
    <2>13. NotifiedInTime'
      BY <1>2, <2>4, <2>6 DEF IInv, NotifiedInTime, deployment
    <2>14. DurableStreams'
      BY <1>2, <2>4, <2>6 DEF IInv, DurableStreams, deployment
    <2>15. CacheNotOlderThanNotified' /\ StreamMissesNothing'
      BY <1>2 DEF IInv, CacheNotOlderThanNotified, StreamMissesNothing, deployment
    <2>16. QED
      BY <2>8, <2>9, <2>10, <2>11, <2>12, <2>13, <2>14, <2>15 DEF IInv
  <1>5. QED BY <1>3, <1>4

\* What a step that carries a revision further must not disturb.
Propagation ==
    /\ UNCHANGED storeVars
    /\ cached' \in [Replica -> Maybe(Revision)]
    /\ notified' \in [Replica -> Revision]
    /\ heard' \in [Replica -> RevisionOrNever]
    /\ channel' \in [Replica -> Seq(Revision)]
    /\ read' \in [Reader -> ReadState]
    /\ stream' \in [Client -> StreamState]
    /\ highest' \in [Client -> RevisionOrNever]
    /\ view' \in [Client -> Maybe(Revision)]
    /\ editor' \in [Admin -> EditorState]
    /\ op' \in [Admin -> OpState]
    /\ told' \in [Replica -> Revision]
    /\ faults' \in 0..scenario.faults
    /\ \A a \in Admin : Sound(editor'[a], op'[a])
    /\ \A c \in Client : stream'[c].phase # "closed" => stream'[c].at \in Replica
    /\ \A q \in Reader : read'[q] # NoRead => read'[q].at \in Replica
    /\ \A n \in Replica : told'[n] <= current

LEMMA PropagationKeeps ==
    ASSUME IInv, Propagation,
           NotifiedInTime', DurableStreams', CacheNotOlderThanNotified', StreamMissesNothing'
    PROVE  IInv'
  <1> USE DEF storeVars
  <1>1. /\ current' = current /\ scenario' = scenario /\ published' = published
        /\ \A r : policyOf(r)' = policyOf(r)
    BY DEF Propagation, current, policyOf
  <1>2. TypeOK'
    <2>1. Len(published') <= scenario.revisions /\ published' \in Seq(AuditEntry)
      BY <1>1, TypeParts DEF IInv, current
    <2>2. QED BY <1>1, <2>1, TypeStep DEF IInv, Propagation
  <1>3. Located'
    BY <1>1 DEF IInv, Located, Propagation, Sound
  <1>4. PublishedFromReviewed'
    BY <1>1 DEF IInv, PublishedFromReviewed
  <1>5. KnownRevisions'
    BY <1>1 DEF KnownRevisions, Propagation, Sound
  <1>6. SentFromReviewed'
    BY <1>1 DEF SentFromReviewed, Propagation, Sound
  <1>7. QED
    BY <1>2, <1>3, <1>4, <1>5, <1>6 DEF IInv


\* The parts of the state that carry revisions, between steps.
LEMMA PropagationFacts ==
    ASSUME IInv
    PROVE  /\ notified \in [Replica -> Revision] /\ told \in [Replica -> Revision]
           /\ channel \in [Replica -> Seq(Revision)]
           /\ editor \in [Admin -> EditorState] /\ op \in [Admin -> OpState]
           /\ \A b \in Admin : Sound(editor[b], op[b])
           /\ \A n \in Replica : told[n] <= current /\ heard[n] <= notified[n]
           /\ deployment # "durable" => \A n \in Replica : told[n] <= notified[n]
           /\ \A c \in Client : stream[c].phase = "open" => stream[c].seen >= heard[stream[c].at]
           /\ Revision \subseteq Int /\ RevisionOrNever \subseteq Int
           /\ Revision \subseteq RevisionOrNever
  <1>1. Revision \subseteq Int /\ RevisionOrNever \subseteq Int /\ Revision \subseteq RevisionOrNever
    BY Bounds DEF IInv, Revision, RevisionOrNever
  <1>2. QED
    BY <1>1, TypeParts, AdminFacts
    DEF IInv, KnownRevisions, NotifiedInTime, StreamMissesNothing

\* Every stream that is offered a revision stays where it is and moves forward.
LEMMA OfferedStreams ==
    ASSUME IInv, NEW r \in Revision, NEW Served,
           stream' = [c \in Client |->
                        IF c \in Served THEN offered(stream[c], r) ELSE stream[c]]
    PROVE  /\ stream' \in [Client -> StreamState]
           /\ \A c \in Client :
                 /\ stream'[c].phase = stream[c].phase /\ stream'[c].at = stream[c].at
                 /\ stream'[c].seen >= stream[c].seen
                 /\ stream[c].phase = "open" /\ c \in Served => stream'[c].seen >= r
  <1>1. scenario.revisions \in Nat /\ r \in Int /\ TypeOK
    BY Bounds, PropagationFacts DEF IInv
  <1>2. ASSUME NEW c \in Client
        PROVE  /\ stream'[c] \in StreamState
               /\ stream'[c].phase = stream[c].phase /\ stream'[c].at = stream[c].at
               /\ stream'[c].seen >= stream[c].seen
               /\ stream[c].phase = "open" /\ c \in Served => stream'[c].seen >= r
    <2>1. stream[c] \in StreamState /\ stream[c].seen \in Int
      BY ClientFacts, PropagationFacts DEF StreamState
    <2>2. CASE c \in Served
      <3>1. stream'[c] = offered(stream[c], r)
        BY <2>2
      <3>2. QED BY <1>1, <2>1, <3>1, OfferedType, OfferedFacts
    <2>3. CASE c \notin Served
      <3>1. stream'[c] = stream[c]
        BY <2>3
      <3>2. QED BY <2>1, <2>3, <3>1
    <2>4. QED BY <2>2, <2>3
  <1>3. QED BY <1>2


\* A notification: the runtime and the streams of one replica learn of it.
LEMMA NotifyFacts ==
    ASSUME IInv, NEW n \in Replica, NEW r \in Revision, Notify(n, r)
    PROVE  /\ cached' \in [Replica -> Maybe(Revision)]
           /\ notified' \in [Replica -> Revision]
           /\ heard' \in [Replica -> RevisionOrNever]
           /\ stream' \in [Client -> StreamState]
           /\ \A m \in Replica : heard'[m] <= notified'[m] /\ notified'[m] >= notified[m]
           /\ \A m \in Replica : cached'[m] # None => cached'[m] >= notified'[m]
           /\ notified'[n] >= r
           /\ \A c \in Client :
                 /\ stream'[c].phase = stream[c].phase /\ stream'[c].at = stream[c].at
                 /\ stream'[c].seen >= stream[c].seen
                 /\ stream'[c].phase = "open" => stream'[c].seen >= heard'[stream'[c].at]
  <1>1. /\ heard \in [Replica -> RevisionOrNever] /\ notified \in [Replica -> Revision]
        /\ cached \in [Replica -> Maybe(Revision)] /\ stream \in [Client -> StreamState]
        /\ \A m \in Replica : heard[m] <= notified[m]
        /\ \A m \in Replica : cached[m] # None => cached[m] >= notified[m]
        /\ \A c \in Client : stream[c].phase = "open" =>
              stream[c].seen >= heard[stream[c].at] /\ stream[c].at \in Replica
        /\ \A c \in Client : stream[c].seen \in Int
        /\ \A m \in Replica : /\ heard[m] \in Int /\ notified[m] \in Int
                               /\ cached[m] # None => cached[m] \in Int
        /\ Revision \subseteq Int /\ RevisionOrNever \subseteq Int
        /\ Revision \subseteq RevisionOrNever /\ r \in Int /\ None \notin Int /\ TypeOK
    <2>1. \A c \in Client : stream[c].phase = "open" =>
              stream[c].seen >= heard[stream[c].at] /\ stream[c].at \in Replica
      BY ClientFacts, PropagationFacts
    <2>2. \A c \in Client : stream[c].seen \in Int
      BY ClientFacts, PropagationFacts DEF StreamState
    <2>3. \A m \in Replica : /\ heard[m] \in Int /\ notified[m] \in Int
                             /\ cached[m] # None => cached[m] \in Int
      BY ClientFacts, PropagationFacts DEF Maybe
    <2>4. QED BY <2>1, <2>2, <2>3, ClientFacts, PropagationFacts, Bounds DEF IInv
  <1>2. /\ heard[n] \in Int /\ notified[n] \in Int /\ r \in Int /\ heard[n] <= notified[n]
        /\ heard[n] \in RevisionOrNever /\ notified[n] \in Revision /\ r \in RevisionOrNever
    BY <1>1
  <1>3. \A m \in Replica : heard[m] \in Int /\ notified[m] \in Int /\ heard[m] <= notified[m]
    BY <1>1
  <1>4. CASE ~(r > heard[n])
    <2>1. UNCHANGED <<heard, notified, cached, stream>>
      BY <1>4 DEF Notify
    <2>2. r <= notified[n]
      BY <1>2, <1>4
    <2>3. \A m \in Replica : notified'[m] >= notified[m]
      BY <1>3, <2>1
    <2>4. QED BY <1>1, <2>1, <2>2, <2>3
  <1>5. CASE r > heard[n]
    <2>1. /\ heard' = [heard EXCEPT ![n] = r]
          /\ notified' = [notified EXCEPT ![n] = greatest(@, r)]
          /\ cached' = invalidated(n, r)
          /\ stream' = [c \in Client |->
                IF stream[c].at = n THEN offered(stream[c], r) ELSE stream[c]]
      BY <1>5 DEF Notify
    <2>2. /\ heard' \in [Replica -> RevisionOrNever] /\ notified' \in [Replica -> Revision]
          /\ \A m \in Replica : heard'[m] <= notified'[m] /\ notified'[m] >= notified[m]
          /\ notified'[n] >= r
      <3>1. /\ greatest(notified[n], r) \in Revision /\ greatest(notified[n], r) \in Int
            /\ greatest(notified[n], r) >= r /\ greatest(notified[n], r) >= notified[n]
        BY <1>2 DEF greatest
      <3>2. \A m \in Replica :
              /\ heard'[m] = IF m = n THEN r ELSE heard[m]
              /\ notified'[m] = IF m = n THEN greatest(notified[n], r) ELSE notified[m]
        BY <1>1, <2>1
      <3>3. heard' \in [Replica -> RevisionOrNever] /\ notified' \in [Replica -> Revision]
        BY <1>2, <1>1, <2>1, <3>1
      <3>4. QED BY <1>2, <1>3, <3>1, <3>2, <3>3
    <2>3. /\ cached' \in [Replica -> Maybe(Revision)]
          /\ \A m \in Replica : cached'[m] # None => cached'[m] >= notified'[m]
      <3>1. cached' \in [Replica -> Maybe(Revision)]
        BY <1>1, <2>1, RememberedType
      <3>2. ASSUME NEW m \in Replica, cached'[m] # None
            PROVE  cached'[m] >= notified'[m]
        <4>1. cached[m] # None /\ cached'[m] = cached[m] /\ cached[m] >= notified[m]
          BY <1>1, <2>1, <3>2 DEF invalidated
        <4>2. CASE m = n
          <5>1. cached[n] >= r
            <6>1. cached[n] \in Int /\ cached' = invalidated(n, r) /\ cached'[n] # None
              BY <1>1, <2>1, <3>2, <4>1, <4>2
            <6>2. ~(r > cached[n])
              BY <1>1, <4>1, <4>2, <6>1 DEF invalidated
            <6>3. QED BY <1>2, <6>1, <6>2
          <5>2. QED BY <1>1, <2>1, <4>1, <4>2, <5>1 DEF greatest, Maybe
        <4>3. CASE m # n
          BY <1>1, <2>1, <4>1, <4>3
        <4>4. QED BY <4>2, <4>3
      <3>3. QED BY <3>1, <3>2
    <2> DEFINE served == {c \in Client : stream[c].at = n}
    <2>4. stream' = [c \in Client |->
             IF c \in served THEN offered(stream[c], r) ELSE stream[c]]
      BY <2>1
    <2>5. /\ stream' \in [Client -> StreamState]
          /\ \A c \in Client :
                /\ stream'[c].phase = stream[c].phase /\ stream'[c].at = stream[c].at
                /\ stream'[c].seen >= stream[c].seen
                /\ stream[c].phase = "open" /\ c \in served => stream'[c].seen >= r
      <3> HIDE DEF served
      <3>1. QED BY <2>4, OfferedStreams
    <2>6. \A c \in Client : stream'[c].seen \in Int
      BY <1>1, <2>5 DEF StreamState
    <2>7. ASSUME NEW c \in Client, stream'[c].phase = "open"
          PROVE  stream'[c].seen >= heard'[stream'[c].at]
      <3>1. stream[c].phase = "open" /\ stream[c].at \in Replica /\ stream'[c].at = stream[c].at
            /\ stream[c].seen >= heard[stream[c].at]
        BY <1>1, <2>5, <2>7
      <3>2. CASE stream[c].at = n
        BY <1>1, <2>1, <2>5, <3>1, <3>2
      <3>3. CASE stream[c].at # n
        BY <1>1, <2>1, <2>5, <2>6, <3>1, <3>3
      <3>4. QED BY <3>2, <3>3
    <2>8. QED BY <2>2, <2>3, <2>5, <2>7
  <1>6. QED BY <1>4, <1>5

LEMMA DeliverKeeps ==
    ASSUME IInv, NEW n \in Node, Deliver(n)
    PROVE  IInv'
  <1> DEFINE r == Head(channel[n])
  <1>1. n \in Replica /\ channel[n] # <<>> /\ channel[n] \in Seq(Revision)
    BY ClientFacts, PropagationFacts DEF Deliver
  <1>2. r \in Revision /\ Tail(channel[n]) \in Seq(Revision)
    BY <1>1
  <1>3. /\ Notify(n, r) /\ channel' = [channel EXCEPT ![n] = Tail(@)]
        /\ UNCHANGED <<storeVars, told, read, highest, view, adminVars, faults>>
    BY DEF Deliver
  <1> HIDE DEF r
  <1> USE DEF adminVars, storeVars
  <1>4. Propagation
    <2>1. channel' \in [Replica -> Seq(Revision)]
      BY <1>1, <1>2, <1>3, PropagationFacts
    <2>2. \A c \in Client : stream'[c].phase # "closed" => stream'[c].at \in Replica
      BY <1>1, <1>2, <1>3, NotifyFacts, ClientFacts
    <2>3. QED
      BY <1>1, <1>2, <1>3, <2>1, <2>2, NotifyFacts, PropagationFacts, ClientFacts
      DEF Propagation
  <1>5. deployment' = deployment /\ deployment # "durable"
    BY <1>1, <1>3 DEF deployment, IInv, DurableStreams
  <1>6. NotifiedInTime'
    <2>1. \A m \in Replica : told'[m] <= notified'[m]
      <3>1. /\ notified \in [Replica -> Revision] /\ notified' \in [Replica -> Revision]
            /\ told \in [Replica -> Revision] /\ Revision \subseteq Int
            /\ \A m \in Replica : told[m] <= notified[m] /\ notified'[m] >= notified[m]
        BY <1>1, <1>2, <1>3, <1>5, NotifyFacts, PropagationFacts
      <3>2. \A m \in Replica : notified[m] \in Int /\ notified'[m] \in Int /\ told[m] \in Int
        BY <3>1
      <3>3. QED BY <1>3, <3>1, <3>2
    <2>2. ASSUME deployment = "memory", NEW b \in Admin, op[b].phase = "announced",
                 NEW m \in Replica, op[b].at = m
          PROVE  op[b].revision <= notified'[m]
      <3>1. op[b].revision <= notified[m]
        BY <2>2 DEF IInv, NotifiedInTime
      <3>2. op[b].revision \in Int /\ notified[m] \in Int /\ notified'[m] \in Int
            /\ notified'[m] >= notified[m]
        BY <1>1, <1>2, <1>3, NotifyFacts, PropagationFacts DEF OpState
      <3>3. QED BY <3>1, <3>2
    <2>3. \A m \in Replica : heard'[m] <= notified'[m]
      BY <1>1, <1>2, <1>3, NotifyFacts
    <2>4. QED BY <1>3, <1>5, <2>1, <2>2, <2>3 DEF IInv, NotifiedInTime
  <1>7. DurableStreams'
    BY <1>5 DEF DurableStreams
  <1>8. CacheNotOlderThanNotified' /\ StreamMissesNothing'
    BY <1>1, <1>2, <1>3, <1>5, NotifyFacts DEF CacheNotOlderThanNotified, StreamMissesNothing
  <1>9. QED
    BY <1>4, <1>6, <1>7, <1>8, PropagationKeeps


\* A message that is lost, and a replica that starts over, take from what is
\* known and add nothing.
LEMMA LoseMessageKeeps ==
    ASSUME IInv, NEW n \in Node, LoseMessage(n)
    PROVE  IInv'
  <1> USE DEF adminVars, storeVars, clientVars
  <1>1. n \in Replica /\ channel[n] # <<>> /\ channel[n] \in Seq(Revision)
    BY ClientFacts, PropagationFacts DEF LoseMessage
  <1>2. /\ channel' = [channel EXCEPT ![n] = Tail(@)]
        /\ UNCHANGED <<storeVars, cached, notified, heard, told, clientVars, adminVars>>
        /\ faults' \in 0..scenario.faults /\ faults' > 0
    BY FaultCounts DEF LoseMessage
  <1>3. channel' \in [Replica -> Seq(Revision)]
    <2>1. Tail(channel[n]) \in Seq(Revision)
      BY <1>1
    <2>2. QED BY <1>1, <1>2, <2>1, PropagationFacts
  <1>4. Propagation
    BY <1>2, <1>3, PropagationFacts, ClientFacts DEF Propagation
  <1>5. deployment' = deployment /\ deployment # "durable"
    BY <1>1, <1>2 DEF deployment, IInv, DurableStreams
  <1>6. NotifiedInTime' /\ DurableStreams'
    BY <1>2, <1>5 DEF IInv, NotifiedInTime, DurableStreams
  <1>7. CacheNotOlderThanNotified' /\ StreamMissesNothing'
    BY <1>2, <1>5 DEF IInv, CacheNotOlderThanNotified, StreamMissesNothing
  <1>8. QED
    BY <1>4, <1>6, <1>7, PropagationKeeps

LEMMA RestartKeeps ==
    ASSUME IInv, NEW n \in Node, Restart(n)
    PROVE  IInv'
  <1> USE DEF adminVars, storeVars
  <1>1. /\ faults' \in 0..scenario.faults /\ faults' > 0 /\ n \in Replica
        /\ 0 \in Revision /\ -1 \in RevisionOrNever
    BY FaultCounts, ClientFacts DEF Restart, RevisionOrNever
  <1>2. /\ cached' = [cached EXCEPT ![n] = None] /\ notified' = [notified EXCEPT ![n] = 0]
        /\ heard' = [heard EXCEPT ![n] = -1] /\ channel' = [channel EXCEPT ![n] = <<>>]
        /\ told' = [told EXCEPT ![n] = 0]
        /\ UNCHANGED <<scenario, published, editor>>
    BY DEF Restart
  <1>3. /\ cached' \in [Replica -> Maybe(Revision)] /\ notified' \in [Replica -> Revision]
        /\ heard' \in [Replica -> RevisionOrNever] /\ channel' \in [Replica -> Seq(Revision)]
        /\ told' \in [Replica -> Revision]
    BY <1>1, <1>2, ClientFacts, PropagationFacts DEF Maybe
  <1>4. /\ stream' \in [Client -> StreamState]
        /\ \A c \in Client :
              \/ stream'[c] = NoStream
              \/ stream'[c] = stream[c] /\ stream[c].at # n
    BY ClientFacts DEF Restart
  <1>5. /\ read' \in [Reader -> ReadState]
        /\ \A q \in Reader : read'[q] = NoRead \/ read'[q] = read[q]
    BY ClientFacts DEF Restart
  <1>6. view' \in [Client -> Maybe(Revision)]
    BY ClientFacts DEF Restart, Maybe
  <1>7. highest' \in [Client -> RevisionOrNever]
    <2>1. ASSUME NEW c \in Client
          PROVE  (IF read[c].at = n THEN greatest(highest[c], read[c].revision) ELSE highest[c])
                     \in RevisionOrNever
      <3>1. highest[c] \in RevisionOrNever /\ read[c].revision \in RevisionOrNever
        BY ClientFacts DEF ReadState
      <3>2. QED BY <3>1 DEF greatest
    <2>2. QED BY <2>1 DEF Restart
  <1>8. /\ op' \in [Admin -> OpState]
        /\ \A a \in Admin : op'[a] = NoOp \/ (op'[a] = op[a] /\ op[a].at # n)
    <2>1. ASSUME NEW a \in Admin
          PROVE  op[a] \in OpState /\ NoOp \in OpState
      BY AdminFacts
    <2>2. QED BY <2>1 DEF Restart
  <1>9. Propagation
    <2>1. \A a \in Admin : Sound(editor[a], NoOp)
      BY AdminFacts DEF Sound, NoOp
    <2>2. \A a \in Admin : Sound(editor'[a], op'[a])
      BY <1>2, <1>8, <2>1, PropagationFacts
    <2>3. \A c \in Client : stream'[c].phase # "closed" => stream'[c].at \in Replica
      BY <1>4, ClientFacts
    <2>4. \A m \in Replica : told'[m] <= current
      BY <1>1, <1>2, PropagationFacts, ClientFacts
    <2>5. \A q \in Reader : read'[q] # NoRead => read'[q].at \in Replica
      BY <1>5, ClientFacts
    <2>6. QED
      BY <1>1, <1>2, <1>3, <1>4, <1>5, <1>6, <1>7, <1>8, <2>2, <2>3, <2>4, <2>5,
         PropagationFacts
      DEF Propagation
  <1>10. deployment' = deployment
    BY <1>2 DEF deployment
  <1>11. NotifiedInTime'
    <2>1. ASSUME NEW m \in Replica
          PROVE  /\ heard'[m] <= notified'[m]
                 /\ deployment # "durable" => told'[m] <= notified'[m]
      <3>1. CASE m = n
        BY <1>2, <3>1, ClientFacts, PropagationFacts
      <3>2. CASE m # n
        BY <1>2, <3>2, ClientFacts, PropagationFacts
      <3>3. QED BY <3>1, <3>2
    <2>2. ASSUME deployment = "memory", NEW b \in Admin
          PROVE  /\ op'[b].phase # "notifying"
                 /\ op'[b].phase = "announced" =>
                        \A m \in Replica : op'[b].at = m => op'[b].revision <= notified'[m]
      <3>1. CASE op'[b] = NoOp
        BY <3>1 DEF NoOp
      <3>2. CASE op'[b] = op[b] /\ op[b].at # n
        <4>1. \A m \in Replica \ {n} : notified'[m] = notified[m]
          BY <1>2, PropagationFacts
        <4>2. QED BY <2>2, <3>2, <4>1 DEF IInv, NotifiedInTime
      <3>3. QED BY <1>8, <3>1, <3>2
    <2>3. QED BY <1>10, <2>1, <2>2 DEF NotifiedInTime
  <1>12. DurableStreams'
    <2>1. deployment = "durable" => \A m \in Replica : heard'[m] = -1 /\ channel'[m] = <<>>
      BY <1>2, ClientFacts, PropagationFacts DEF IInv, DurableStreams
    <2>2. QED BY <1>1, <1>10, <2>1 DEF DurableStreams
  <1>13. CacheNotOlderThanNotified'
    BY <1>2, ClientFacts, PropagationFacts DEF CacheNotOlderThanNotified
  <1>14. StreamMissesNothing'
    <2>1. ASSUME NEW c \in Client, stream'[c].phase = "open"
          PROVE  stream'[c].seen >= heard'[stream'[c].at]
      <3>1. stream'[c] = stream[c] /\ stream[c].at # n
        BY <1>4, <2>1, ClientFacts
      <3>2. heard'[stream[c].at] = heard[stream[c].at]
        BY <1>2, <2>1, <3>1, ClientFacts
      <3>3. QED BY <2>1, <3>1, <3>2, PropagationFacts
    <2>2. QED BY <1>1, <2>1 DEF StreamMissesNothing
  <1>15. QED
    BY <1>9, <1>11, <1>12, <1>13, <1>14, PropagationKeeps


\* The publishing replica keeps its snapshot; within one process everybody
\* has heard of it then.
LEMMA KeepPublishedKeeps ==
    ASSUME IInv, NEW a \in Admin, KeepPublished(a)
    PROVE  IInv'
  <1> USE DEF storeVars
  <1> DEFINE n == op[a].at
             r == op[a].revision
  <1>1. /\ op[a] \in OpState /\ op[a].phase = "committed" /\ n \in Replica
        /\ r \in Revision /\ r <= current /\ Sound(editor[a], op[a])
    BY AdminFacts DEF KeepPublished, OpState, Sound
  <1>2. UNCHANGED <<storeVars, channel, told, read, highest, view, editor, faults>>
    BY DEF KeepPublished
  <1>3. cached' = rememberedOwn(n, r) /\ cached' \in [Replica -> Maybe(Revision)]
    BY <1>1, RememberedType DEF KeepPublished, IInv
  <1>4. deployment' = deployment
    BY <1>2 DEF deployment
  <1>5. CASE deployment # "memory"
    <2> DEFINE o == [op[a] EXCEPT !.phase = "notifying"]
    <2>1. op' = [op EXCEPT ![a] = o] /\ UNCHANGED <<heard, notified, stream>>
      BY <1>5 DEF KeepPublished
    <2>2. o \in OpState /\ o.phase = "notifying" /\ o.at = n /\ o.revision = r
      BY <1>1 DEF OpState
    <2> HIDE DEF o
    <2>3. Sound(editor[a], o)
      BY <1>1, <2>2 DEF Sound
    <2>4. /\ op' \in [Admin -> OpState]
          /\ \A b \in Admin : op'[b] = IF b = a THEN o ELSE op[b]
      BY <2>1, <2>2, PropagationFacts
    <2>5. Propagation
      <3>1. \A b \in Admin : Sound(editor'[b], op'[b])
        BY <1>2, <2>3, <2>4, PropagationFacts
      <3>2. QED
        BY <1>2, <1>3, <2>1, <2>4, <3>1, PropagationFacts, ClientFacts DEF Propagation
    <2>6. NotifiedInTime'
      BY <1>2, <1>4, <1>5, <2>1 DEF IInv, NotifiedInTime
    <2>7. DurableStreams'
      BY <1>2, <1>4, <2>1, <2>2, <2>4 DEF IInv, DurableStreams
    <2>8. CacheNotOlderThanNotified'
      BY <1>1, <1>3, <2>1, RememberedKeeps DEF CacheNotOlderThanNotified
    <2>9. StreamMissesNothing'
      BY <1>2, <1>4, <2>1 DEF IInv, StreamMissesNothing
    <2>10. QED
      BY <2>5, <2>6, <2>7, <2>8, <2>9, PropagationKeeps
  <1>6. CASE deployment = "memory"
    <2> DEFINE o == [op[a] EXCEPT !.phase = "announced"]
    <2>1. /\ op' = [op EXCEPT ![a] = o]
          /\ heard' = [heard EXCEPT ![n] = greatest(@, r)]
          /\ notified' = [notified EXCEPT ![n] = greatest(@, r)]
          /\ stream' = [c \in Client |->
                IF c \in Client THEN offered(stream[c], r) ELSE stream[c]]
      BY <1>6 DEF KeepPublished
    <2>2. o \in OpState /\ o.phase = "announced" /\ o.at = n /\ o.revision = r
      BY <1>1 DEF OpState
    <2> HIDE DEF o
    <2>3. Sound(editor[a], o)
      BY <1>1, <2>2 DEF Sound
    <2>4. /\ op' \in [Admin -> OpState]
          /\ \A b \in Admin : op'[b] = IF b = a THEN o ELSE op[b]
      BY <2>1, <2>2, PropagationFacts
    <2>5. /\ heard[n] \in RevisionOrNever /\ notified[n] \in Revision
          /\ heard[n] \in Int /\ notified[n] \in Int /\ r \in Int /\ r \in RevisionOrNever
          /\ heard[n] <= notified[n]
      BY <1>1, ClientFacts, PropagationFacts
    <2>6. /\ \A m \in Replica : heard'[m] = IF m = n THEN greatest(heard[n], r) ELSE heard[m]
          /\ \A m \in Replica :
                notified'[m] = IF m = n THEN greatest(notified[n], r) ELSE notified[m]
          /\ heard' \in [Replica -> RevisionOrNever] /\ notified' \in [Replica -> Revision]
      <3>1. greatest(heard[n], r) \in RevisionOrNever /\ greatest(notified[n], r) \in Revision
        BY <1>1, <2>5 DEF greatest
      <3>2. QED BY <1>1, <2>1, <3>1, ClientFacts, PropagationFacts
    <2>7. /\ stream' \in [Client -> StreamState]
          /\ \A c \in Client :
                /\ stream'[c].phase = stream[c].phase /\ stream'[c].at = stream[c].at
                /\ stream'[c].seen >= stream[c].seen
                /\ stream[c].phase = "open" => stream'[c].seen >= r
      BY <1>1, <2>1, OfferedStreams
    <2>8. Propagation
      <3>1. \A b \in Admin : Sound(editor'[b], op'[b])
        BY <1>2, <2>3, <2>4, PropagationFacts
      <3>2. \A c \in Client : stream'[c].phase # "closed" => stream'[c].at \in Replica
        BY <2>7, ClientFacts
      <3>3. QED
        BY <1>2, <1>3, <2>4, <2>6, <2>7, <3>1, <3>2, PropagationFacts, ClientFacts
        DEF Propagation
    <2>9. ASSUME NEW m \in Replica
          PROVE  /\ heard'[m] <= notified'[m] /\ notified'[m] >= notified[m]
                 /\ notified[m] \in Int /\ notified'[m] \in Int
                 /\ m = n => notified'[m] >= r
                 /\ heard'[m] = heard[m] \/ (m = n /\ heard'[m] = r)
      <3>1. heard[m] \in Int /\ notified[m] \in Int /\ heard[m] <= notified[m]
        BY ClientFacts, PropagationFacts
      <3>2. QED BY <2>5, <2>6, <3>1 DEF greatest
    <2>10. NotifiedInTime'
      <3>1. \A m \in Replica : told'[m] <= notified'[m]
        <4>1. \A m \in Replica : told[m] \in Int /\ told[m] <= notified[m]
          BY <1>6, PropagationFacts
        <4>2. QED BY <1>2, <2>9, <4>1
      <3>2. ASSUME NEW b \in Admin
            PROVE  /\ op'[b].phase # "notifying"
                   /\ op'[b].phase = "announced" =>
                          \A m \in Replica : op'[b].at = m => op'[b].revision <= notified'[m]
        <4>1. CASE b = a
          <5>1. op'[b] = o
            BY <2>4, <4>1
          <5>2. QED BY <2>2, <2>5, <2>9, <5>1
        <4>2. CASE b # a
          <5>1. op'[b] = op[b] /\ op[b].revision \in Int
            BY <2>4, <4>2, PropagationFacts DEF OpState
          <5>2. /\ op[b].phase # "notifying"
                /\ op[b].phase = "announced" =>
                       \A m \in Replica : op[b].at = m => op[b].revision <= notified[m]
            BY <1>6 DEF IInv, NotifiedInTime
          <5>3. QED BY <2>9, <5>1, <5>2
        <4>3. QED BY <4>1, <4>2
      <3>3. QED BY <1>4, <1>6, <2>9, <3>1, <3>2 DEF NotifiedInTime
    <2>11. DurableStreams'
      BY <1>4, <1>6 DEF DurableStreams
    <2>12. CacheNotOlderThanNotified'
      <3>1. ASSUME NEW m \in Replica, cached'[m] # None
            PROVE  cached'[m] >= notified'[m]
        <4>1. cached'[m] >= notified[m]
          BY <1>1, <1>3, <3>1, RememberedKeeps
        <4>2. CASE m # n
          BY <2>6, <4>1, <4>2
        <4>3. CASE m = n /\ r >= notified[n]
          <5>1. cached'[m] = r
            BY <1>1, <1>3, <4>3, ClientFacts DEF rememberedOwn
          <5>2. notified'[m] = r
            BY <2>5, <2>6, <4>3 DEF greatest
          <5>3. QED BY <2>5, <5>1, <5>2
        <4>4. CASE m = n /\ ~(r >= notified[n])
          BY <2>5, <2>6, <4>1, <4>4 DEF greatest
        <4>5. QED BY <4>2, <4>3, <4>4
      <3>2. QED BY <3>1 DEF CacheNotOlderThanNotified
    <2>13. StreamMissesNothing'
      <3>1. ASSUME NEW c \in Client, stream'[c].phase = "open"
            PROVE  stream'[c].seen >= heard'[stream'[c].at]
        <4>1. /\ stream[c].phase = "open" /\ stream[c].at \in Replica
              /\ stream[c].seen >= heard[stream[c].at] /\ stream'[c].at = stream[c].at
              /\ stream'[c].seen >= stream[c].seen /\ stream'[c].seen >= r
          BY <2>7, <3>1, ClientFacts, PropagationFacts
        <4>2. stream[c].seen \in Int /\ stream'[c].seen \in Int /\ heard[stream[c].at] \in Int
          BY <2>7, <4>1, ClientFacts, PropagationFacts DEF StreamState
        <4>3. heard'[stream[c].at] \in {heard[stream[c].at], r}
          BY <2>9, <4>1
        <4>4. QED BY <4>1, <4>2, <4>3
      <3>2. QED BY <1>4, <1>6, <3>1 DEF StreamMissesNothing
    <2>14. QED
      BY <2>8, <2>10, <2>11, <2>12, <2>13, PropagationKeeps
  <1>7. QED BY <1>5, <1>6


\* The message is on its way to the replicas, or at the streams.
LEMMA AnnounceKeeps ==
    ASSUME IInv, NEW a \in Admin, Announce(a)
    PROVE  IInv'
  <1> USE DEF storeVars
  <1> DEFINE r == op[a].revision
             o == [op[a] EXCEPT !.phase = "announced"]
  <1>1. /\ op[a] \in OpState /\ op[a].phase = "notifying" /\ r \in Revision /\ r \in Int
        /\ Sound(editor[a], op[a]) /\ deployment # "memory"
    BY AdminFacts, PropagationFacts DEF Announce, OpState, IInv, NotifiedInTime
  <1>2. /\ op' = [op EXCEPT ![a] = o]
        /\ UNCHANGED <<storeVars, cached, notified, heard, told, read, highest, view, editor,
                       faults>>
        /\ deployment = "durable" => channel' = channel
        /\ deployment = "durable" => stream' = [c \in Client |->
              IF c \in Client THEN offered(stream[c], r) ELSE stream[c]]
        /\ deployment # "durable" => stream' = stream
        /\ deployment # "durable" => channel' = [n \in Replica |-> Append(channel[n], r)]
    BY DEF Announce
  <1>3. o \in OpState /\ o.phase = "announced" /\ o.at = op[a].at /\ o.revision = r
    BY <1>1 DEF OpState
  <1> HIDE DEF o
  <1>4. Sound(editor[a], o)
    BY <1>1, <1>3 DEF Sound
  <1>5. /\ op' \in [Admin -> OpState]
        /\ \A b \in Admin : op'[b] = IF b = a THEN o ELSE op[b]
    BY <1>2, <1>3, PropagationFacts
  <1>6. channel' \in [Replica -> Seq(Revision)]
    <2>1. \A n \in Replica : Append(channel[n], r) \in Seq(Revision)
      BY <1>1, PropagationFacts
    <2>2. QED BY <1>2, <2>1, PropagationFacts
  <1>7. /\ stream' \in [Client -> StreamState]
        /\ \A c \in Client :
              /\ stream'[c].phase = stream[c].phase /\ stream'[c].at = stream[c].at
              /\ stream'[c].seen >= stream[c].seen
              /\ deployment = "durable" /\ stream[c].phase = "open" => stream'[c].seen >= r
    <2>1. CASE deployment = "durable"
      BY <1>1, <1>2, <2>1, OfferedStreams
    <2>2. CASE deployment # "durable"
      <3>1. \A c \in Client : stream[c].seen \in Int
        BY ClientFacts, PropagationFacts DEF StreamState
      <3>2. QED BY <1>2, <2>2, <3>1, ClientFacts
    <2>3. QED BY <2>1, <2>2
  <1>8. Propagation
    <2>1. \A b \in Admin : Sound(editor'[b], op'[b])
      BY <1>2, <1>4, <1>5, PropagationFacts
    <2>2. \A c \in Client : stream'[c].phase # "closed" => stream'[c].at \in Replica
      BY <1>7, ClientFacts
    <2>3. QED
      BY <1>2, <1>5, <1>6, <1>7, <2>1, <2>2, PropagationFacts, ClientFacts DEF Propagation
  <1>9. deployment' = deployment
    BY <1>2 DEF deployment
  <1>10. NotifiedInTime'
    BY <1>1, <1>2, <1>9 DEF IInv, NotifiedInTime
  <1>11. \A c \in Client : stream[c].seen \in Int /\ stream'[c].seen \in Int
    BY <1>7, ClientFacts, PropagationFacts DEF StreamState
  <1>12. DurableStreams'
    <2>1. deployment = "durable" => \A n \in Replica : heard'[n] = -1 /\ channel'[n] = <<>>
      BY <1>2 DEF IInv, DurableStreams
    <2>2. ASSUME deployment = "durable", faults = 0, NEW b \in Admin, NEW c \in Client,
                 op'[b].phase = "announced", stream'[c].phase = "open"
          PROVE  stream'[c].seen >= op'[b].revision
      <3>1. CASE b = a
        BY <1>3, <1>5, <1>7, <2>2, <3>1
      <3>2. CASE b # a
        <4>1. op'[b] = op[b] /\ op[b].revision \in Int
          BY <1>5, <3>2, PropagationFacts DEF OpState
        <4>2. stream[c].seen >= op[b].revision
          BY <1>7, <2>2, <4>1 DEF IInv, DurableStreams
        <4>3. QED BY <1>7, <1>11, <4>1, <4>2
      <3>3. QED BY <3>1, <3>2
    <2>3. QED BY <1>2, <1>9, <2>1, <2>2 DEF DurableStreams
  <1>13. CacheNotOlderThanNotified'
    BY <1>2 DEF IInv, CacheNotOlderThanNotified
  <1>14. StreamMissesNothing'
    <2>1. ASSUME NEW c \in Client, stream'[c].phase = "open"
          PROVE  stream'[c].seen >= heard[stream'[c].at]
      <3>1. /\ stream[c].seen >= heard[stream[c].at] /\ stream'[c].at = stream[c].at
            /\ stream'[c].seen >= stream[c].seen /\ stream[c].at \in Replica
        BY <1>7, <2>1, PropagationFacts, ClientFacts
      <3>2. heard[stream[c].at] \in Int
        BY <3>1, PropagationFacts, ClientFacts
      <3>3. QED BY <1>11, <3>1, <3>2
    <2>2. ASSUME deployment = "durable", faults = 0, NEW n \in Replica, NEW c \in Client,
                 stream'[c].phase = "open"
          PROVE  stream'[c].seen >= told[n]
      <3>1. stream[c].seen >= told[n] /\ stream'[c].seen >= stream[c].seen
        BY <1>7, <2>2 DEF IInv, StreamMissesNothing
      <3>2. told[n] \in Int
        BY PropagationFacts
      <3>3. QED BY <1>11, <3>1, <3>2
    <2>3. QED BY <1>2, <1>9, <2>1, <2>2 DEF StreamMissesNothing
  <1>15. QED
    BY <1>8, <1>10, <1>12, <1>13, <1>14, PropagationKeeps

\* The replica that published has told itself, and is told.
LEMMA PublishKeeps ==
    ASSUME IInv, NEW a \in Admin, Publish(a)
    PROVE  IInv'
  <1> USE DEF storeVars
  <1> DEFINE n == op[a].at
             r == op[a].revision
  <1>1. /\ op[a] \in OpState /\ op[a].phase = "announced" /\ n \in Replica
        /\ r \in Revision /\ r \in Int /\ r <= current /\ r \in 0..current
        /\ NoOp \in OpState
    BY AdminFacts, PropagationFacts DEF Publish, OpState, Sound
  <1>2. /\ notifyOwn(n, r)
        /\ told' = [told EXCEPT ![n] = greatest(@, r)]
        /\ op' = [op EXCEPT ![a] = NoOp]
        /\ UNCHANGED <<storeVars, channel, read, highest, view>>
    BY DEF Publish
  <1> DEFINE e == [data |-> r, base |-> r, draft |-> policyOf(r), conflict |-> FALSE]
  <1>3. \/ editor' = [editor EXCEPT ![a] = e] /\ faults' = faults
        \/ editor' = editor /\ fault
    BY DEF Publish
  <1>4. faults' \in 0..scenario.faults /\ faults' >= faults
    BY <1>3, FaultCounts, AdminFacts
  <1>5. e \in EditorState /\ e.data = r /\ e.base = r
    BY <1>1, PolicyOfRevision DEF EditorState, IInv
  <1> HIDE DEF e
  <1>6. deployment' = deployment
    BY <1>2 DEF deployment
  <1>7. /\ cached' \in [Replica -> Maybe(Revision)] /\ notified' \in [Replica -> Revision]
        /\ heard' \in [Replica -> RevisionOrNever] /\ stream' \in [Client -> StreamState]
        /\ \A m \in Replica : heard'[m] <= notified'[m] /\ notified'[m] >= notified[m]
        /\ \A m \in Replica : cached'[m] # None => cached'[m] >= notified'[m]
        /\ deployment # "durable" => notified'[n] >= r
        /\ \A c \in Client :
              /\ stream'[c].phase = stream[c].phase /\ stream'[c].at = stream[c].at
              /\ stream'[c].seen >= stream[c].seen
              /\ stream'[c].phase = "open" => stream'[c].seen >= heard'[stream'[c].at]
    <2>1. CASE deployment = "distributed"
      <3>1. Notify(n, r)
        BY <1>2, <2>1 DEF notifyOwn
      <3>2. QED BY <1>1, <3>1, NotifyFacts
    <2>2. CASE deployment # "distributed"
      <3>1. UNCHANGED <<heard, notified, cached, stream>>
        BY <1>2, <2>2 DEF notifyOwn
      <3>2. deployment # "durable" => r <= notified[n]
        <4>1. deployment # "durable" => deployment = "memory"
          BY <2>2, TypeParts, PolicyAssumption DEF IInv, deployment
        <4>2. QED BY <1>1, <4>1 DEF IInv, NotifiedInTime
      <3>3. /\ \A m \in Replica : notified[m] \in Int
            /\ \A c \in Client : stream[c].seen \in Int
        BY ClientFacts, PropagationFacts DEF StreamState
      <3>4. /\ \A m \in Replica : notified'[m] >= notified[m]
            /\ \A c \in Client : stream'[c].seen >= stream[c].seen
            /\ deployment # "durable" => notified'[n] >= r
        BY <1>1, <3>1, <3>2, <3>3
      <3>5. QED BY <3>1, <3>4, ClientFacts, PropagationFacts
    <2>3. QED BY <2>1, <2>2
  <1>8. /\ editor' \in [Admin -> EditorState] /\ op' \in [Admin -> OpState]
        /\ \A b \in Admin : op'[b] = IF b = a THEN NoOp ELSE op[b]
        /\ \A b \in Admin : editor'[b] = editor[b] \/ (b = a /\ editor'[b] = e)
    BY <1>1, <1>2, <1>3, <1>5, PropagationFacts
  <1>9. /\ told' \in [Replica -> Revision]
        /\ \A m \in Replica : told'[m] \in Int /\ told[m] \in Int
        /\ \A m \in Replica : told'[m] = told[m] \/ (m = n /\ told'[m] = r)
    <2>1. told \in [Replica -> Revision] /\ \A m \in Replica : told[m] \in Int
      BY PropagationFacts
    <2>2. told' \in [Replica -> Revision]
      BY <1>1, <1>2, <2>1 DEF greatest
    <2>3. \A m \in Replica : told'[m] = told[m] \/ (m = n /\ told'[m] = r)
      BY <1>1, <1>2, <2>1 DEF greatest
    <2>4. QED BY <1>1, <2>1, <2>2, <2>3
  <1>10. Propagation
    <2>1. \A b \in Admin : Sound(editor[b], NoOp) /\ Sound(e, NoOp)
      BY <1>1, <1>5, AdminFacts DEF Sound, NoOp
    <2>2. \A b \in Admin : Sound(editor'[b], op'[b])
      <3>1. ASSUME NEW b \in Admin
            PROVE  Sound(editor'[b], op'[b])
        <4>1. CASE b = a
          BY <1>8, <2>1, <4>1
        <4>2. CASE b # a
          BY <1>8, <4>2, PropagationFacts
        <4>3. QED BY <4>1, <4>2
      <3>2. QED BY <3>1
    <2>3. \A c \in Client : stream'[c].phase # "closed" => stream'[c].at \in Replica
      BY <1>7, ClientFacts
    <2>4. \A m \in Replica : told'[m] <= current
      BY <1>1, <1>9, PropagationFacts
    <2>5. QED
      BY <1>2, <1>4, <1>7, <1>8, <1>9, <2>2, <2>3, <2>4, PropagationFacts, ClientFacts
      DEF Propagation
  <1>11. \A m \in Replica : notified[m] \in Int /\ notified'[m] \in Int
    BY <1>7, PropagationFacts
  <1>12. NotifiedInTime'
    <2>1. ASSUME deployment # "durable", NEW m \in Replica
          PROVE  told'[m] <= notified'[m]
      <3>1. told[m] <= notified[m] /\ notified'[m] >= notified[m]
        BY <1>7, <2>1, PropagationFacts
      <3>2. CASE told'[m] = told[m]
        BY <1>9, <1>11, <3>1, <3>2
      <3>3. CASE m = n /\ told'[m] = r
        BY <1>7, <2>1, <3>3
      <3>4. QED BY <1>9, <3>2, <3>3
    <2>2. ASSUME deployment = "memory", NEW b \in Admin
          PROVE  /\ op'[b].phase # "notifying"
                 /\ op'[b].phase = "announced" =>
                        \A m \in Replica : op'[b].at = m => op'[b].revision <= notified'[m]
      <3>1. CASE b = a
        BY <1>8, <3>1 DEF NoOp
      <3>2. CASE b # a
        <4>1. op'[b] = op[b] /\ op[b].revision \in Int
          BY <1>8, <3>2, PropagationFacts DEF OpState
        <4>2. /\ op[b].phase # "notifying"
              /\ op[b].phase = "announced" =>
                     \A m \in Replica : op[b].at = m => op[b].revision <= notified[m]
          BY <2>2 DEF IInv, NotifiedInTime
        <4>3. QED BY <1>7, <1>11, <4>1, <4>2
      <3>3. QED BY <3>1, <3>2
    <2>3. QED BY <1>6, <1>7, <2>1, <2>2 DEF NotifiedInTime
  <1>13. \A c \in Client : stream[c].seen \in Int /\ stream'[c].seen \in Int
    BY <1>7, ClientFacts, PropagationFacts DEF StreamState
  <1>14. faults' = 0 => faults = 0
    BY <1>4, AdminFacts, Bounds DEF IInv
  <1>15. DurableStreams'
    <2>1. deployment = "durable" => \A m \in Replica : heard'[m] = -1 /\ channel'[m] = <<>>
      BY <1>2 DEF IInv, DurableStreams, notifyOwn
    <2>2. ASSUME deployment = "durable", faults' = 0, NEW b \in Admin, NEW c \in Client,
                 op'[b].phase = "announced", stream'[c].phase = "open"
          PROVE  stream'[c].seen >= op'[b].revision
      <3>1. b # a /\ op'[b] = op[b] /\ op[b].revision \in Int
        BY <1>8, <2>2, PropagationFacts DEF NoOp, OpState
      <3>2. stream[c].seen >= op[b].revision
        BY <1>7, <1>14, <2>2, <3>1 DEF IInv, DurableStreams
      <3>3. stream'[c].seen >= stream[c].seen
        BY <1>7
      <3>4. QED BY <1>13, <3>1, <3>2, <3>3
    <2>3. QED BY <1>6, <2>1, <2>2 DEF DurableStreams
  <1>16. CacheNotOlderThanNotified'
    BY <1>7 DEF CacheNotOlderThanNotified
  <1>17. StreamMissesNothing'
    <2>1. ASSUME deployment = "durable", faults' = 0, NEW m \in Replica, NEW c \in Client,
                 stream'[c].phase = "open"
          PROVE  stream'[c].seen >= told'[m]
      <3>1. stream'[c].seen >= stream[c].seen /\ stream[c].phase = "open"
        BY <1>7, <2>1
      <3>2. CASE told'[m] = told[m]
        <4>1. stream[c].seen >= told[m]
          BY <1>14, <2>1, <3>1 DEF IInv, StreamMissesNothing
        <4>2. QED BY <1>9, <1>13, <3>1, <3>2, <4>1
      <3>3. CASE told'[m] = r
        <4>1. stream[c].seen >= r
          BY <1>1, <1>14, <2>1, <3>1 DEF IInv, DurableStreams
        <4>2. QED BY <1>1, <1>13, <3>1, <3>3, <4>1
      <3>4. QED BY <1>9, <3>2, <3>3
    <2>2. QED BY <1>6, <1>7, <2>1 DEF StreamMissesNothing
  <1>18. QED
    BY <1>10, <1>12, <1>15, <1>16, <1>17, PropagationKeeps


----------------------------------------------------------------------------
(* The specification                                                       *)

\* Nothing is published, heard or in flight at the start.
LEMMA InitIInv == Init => IInv
  <1> SUFFICES ASSUME Init
               PROVE  IInv
    OBVIOUS
  <1>1. scenario \in Scenario /\ scenario.revisions \in Nat /\ scenario.faults \in Nat
    BY PolicyAssumption DEF Init
  <1>2. current = 0 /\ published = <<>> /\ faults = 0
    BY DEF Init, current
  <1>3. emptyPolicy \in Policy /\ 0 \in Revision /\ -1 \in -1..scenario.revisions
        /\ 0 \in -1..scenario.revisions
    BY <1>1 DEF Policy, Revision
  <1>4. TypeOK
    <2>1. published \in Seq(AuditEntry)
      BY <1>2
    <2>2. NoRead \in [at: Replica \cup {None}, value: Revision \cup {None},
                      revision: -1..scenario.revisions]
      BY <1>3 DEF NoRead
    <2>3. NoStream \in [phase: {"closed", "opening", "open"}, at: Replica \cup {None},
                        current: Revision, seen: -1..scenario.revisions, sent: Seq(Revision)]
      BY <1>3 DEF NoStream
    <2>4. NoOp \in [phase: {"idle", "sent", "committed", "notifying", "announced", "conflict"},
                    at: Replica \cup {None}, kind: {"publish", "rollback"},
                    baseRevision: Revision, policy: Policy, reviewed: Policy,
                    revision: Revision]
      BY <1>3 DEF NoOp
    <2> HIDE DEF NoRead, NoStream, NoOp
    <2>5. QED
      BY <1>1, <1>2, <1>3, <2>1, <2>2, <2>3, <2>4 DEF Init, TypeOK
  <1>5. Located
    BY DEF Init, Located, NoOp, NoStream
  <1>6. PublishedFromReviewed
    BY <1>2 DEF PublishedFromReviewed
  <1>7. KnownRevisions
    BY <1>2 DEF Init, KnownRevisions, NoOp
  <1>8. SentFromReviewed
    BY DEF Init, SentFromReviewed, NoOp
  <1>9. NotifiedInTime
    BY DEF Init, NotifiedInTime, NoOp
  <1>10. DurableStreams
    BY DEF Init, DurableStreams, NoOp
  <1>11. CacheNotOlderThanNotified
    BY DEF Init, CacheNotOlderThanNotified
  <1>12. StreamMissesNothing
    BY DEF Init, StreamMissesNothing, NoStream
  <1>13. QED
    BY <1>4, <1>5, <1>6, <1>7, <1>8, <1>9, <1>10, <1>11, <1>12 DEF IInv

\* A step that changes nothing.
LEMMA StutterKeeps ==
    ASSUME IInv, UNCHANGED vars
    PROVE  IInv'
  <1> USE DEF vars, storeVars, nodeVars, clientVars, adminVars
  <1>1. Propagation
    BY TypeParts, PropagationFacts, ClientFacts DEF Propagation, IInv
  <1>2. NotifiedInTime' /\ DurableStreams'
    BY DEF IInv, NotifiedInTime, DurableStreams, deployment
  <1>3. CacheNotOlderThanNotified' /\ StreamMissesNothing'
    BY DEF IInv, CacheNotOlderThanNotified, StreamMissesNothing, deployment
  <1>4. QED
    BY <1>1, <1>2, <1>3, PropagationKeeps

\* Every step keeps the invariant.
LEMMA NextIInv == IInv /\ [Next]_vars => IInv'
  <1> SUFFICES ASSUME IInv, [Next]_vars
               PROVE  IInv'
    OBVIOUS
  <1>1. ASSUME NEW a \in Admin, AdminNext(a)
        PROVE  IInv'
    <2>1. CASE \E n \in Node : Refetch(a, n) \/ SendPublish(a, n)
      BY <2>1, RefetchKeeps, SendPublishKeeps
    <2>2. CASE \E n \in Node, target \in Revision : SendRollback(a, n, target)
      BY <2>2, SendRollbackKeeps
    <2>3. CASE \E p \in Policy : Edit(a, p)
      BY <2>3, EditKeeps
    <2>4. CASE Discard(a)
      BY <2>4, DiscardKeeps
    <2>5. CASE StorePublish(a)
      BY <2>5, StorePublishKeeps
    <2>6. CASE StoreAnswerLost(a)
      BY <2>6, StoreAnswerLostKeeps
    <2>7. CASE KeepPublished(a)
      BY <2>7, KeepPublishedKeeps
    <2>8. CASE Announce(a)
      BY <2>8, AnnounceKeeps
    <2>9. CASE AnnounceFails(a)
      BY <2>9, AnnounceFailsKeeps
    <2>10. CASE Publish(a)
      BY <2>10, PublishKeeps
    <2>11. CASE Conflict(a)
      BY <2>11, ConflictKeeps
    <2>12. QED
      BY <1>1, <2>1, <2>2, <2>3, <2>4, <2>5, <2>6, <2>7, <2>8, <2>9, <2>10, <2>11
      DEF AdminNext
  <1>2. ASSUME NEW c \in Client, ClientNext(c)
        PROVE  IInv'
    <2>1. CASE \E n \in Node : OpenStream(c, n) \/ ReceiveRevision(c, n) \/ Poll(c, n)
      BY <2>1, OpenStreamKeeps, ReceiveRevisionKeeps, PollKeeps
    <2>2. CASE Subscribe(c)
      BY <2>2, SubscribeKeeps
    <2>3. CASE StreamBreaks(c)
      BY <2>3, StreamBreaksKeeps
    <2>4. QED BY <1>2, <2>1, <2>2, <2>3 DEF ClientNext
  <1>3. CASE \E q \in Reader : EndRead(q)
    BY <1>3, EndReadKeeps
  <1>4. CASE \E q \in Request \cap scenario.actors, n \in Node : StartRead(q, n)
    BY <1>4, StartReadKeeps
  <1>5. CASE \E n \in Node : Deliver(n) \/ LoseMessage(n) \/ Restart(n)
    BY <1>5, DeliverKeeps, LoseMessageKeeps, RestartKeeps
  <1>6. CASE UNCHANGED vars
    BY <1>6, StutterKeeps
  <1>7. QED
    BY <1>1, <1>2, <1>3, <1>4, <1>5, <1>6 DEF Next

\* The inductive invariant holds throughout: what replicas heard, were told
\* and keep, what streams were sent, and what publications were reviewed
\* against fit together in every reachable state.
THEOREM InductiveInvariant == Spec => []IInv
  <1>1. QED BY InitIInv, NextIInv, PTL DEF Spec

\* Every variable keeps its type, whatever the deployment.
THEOREM TypeCorrect == Spec => []TypeOK
  <1>1. IInv => TypeOK
    BY DEF IInv
  <1>2. QED BY <1>1, InductiveInvariant, PTL

\* readCurrent, publish and the events of a replica (FeaturePolicyRuntime):
\* nothing a replica falls back on is older than what it was notified of or
\* published, and no open stream misses a revision its replica heard of.
THEOREM RevisionsKeepUp == Spec => []ReplicasKeepUp
  <1>1. IInv => OwnPublicationKept
    <2> SUFFICES ASSUME IInv, deployment # "durable", NEW n \in Replica, cached[n] # None
                 PROVE  cached[n] >= told[n]
      BY DEF OwnPublicationKept
    <2>1. cached[n] >= notified[n] /\ told[n] <= notified[n]
      BY DEF IInv, CacheNotOlderThanNotified, NotifiedInTime
    <2>2. cached[n] \in Int /\ notified[n] \in Int /\ told[n] \in Int
      BY ClientFacts, PropagationFacts DEF Maybe
    <2>3. QED BY <2>1, <2>2
  <1>2. IInv => ReplicasKeepUp
    BY <1>1 DEF IInv, ReplicasKeepUp, CacheKeepsUp
  <1>3. QED BY <1>2, InductiveInvariant, PTL

\* The compare-and-append of publish and rollback, with the drafts of the
\* control page: nobody replaces a policy they were not shown.
THEOREM NoUpdateLost == Spec => []PublishedFromReviewed
  <1>1. IInv => PublishedFromReviewed
    BY DEF IInv
  <1>2. QED BY <1>1, InductiveInvariant, PTL

\* resolveLimit never exceeds the ceiling or a limit that applies.
LEMMA ResolvedLimit ==
    ASSUME NEW p \in FeaturePolicyContent, effectiveUniversity(p).enabled
    PROVE  LET e == effectiveUniversity(p)
           IN  /\ NativeSupport /\ ~p.globalOff /\ ~p.universityOff
               /\ 0 < e.limit /\ e.limit <= NativeLimit /\ e.limit <= HardLimit
               /\ \A l \in {p.universityLimit} \ {None} : e.limit <= l
               /\ p.universityLimit = None =>
                      \A l \in {p.globalLimit} \ {None} : e.limit <= l
  <1> DEFINE e == effectiveUniversity(p)
  <1>1. /\ NativeLimit \in Nat /\ HardLimit \in Nat /\ ceiling \in Nat
        /\ ceiling <= NativeLimit /\ ceiling <= HardLimit
    BY RulesAssumption DEF ceiling, least
  <1>2. /\ p.universityLimit \in Limit \cup {None} /\ p.globalLimit \in Limit \cup {None}
        /\ Limit \subseteq Nat \ {0} /\ None \notin Int
    BY RulesAssumption DEF FeaturePolicyContent
  <1>3. resolveCapability(p) /\ ceiling # 0 /\ e.limit = resolveLimit(p)
    BY DEF effectiveUniversity
  <1>4. CASE configured(p) = None
    <2>1. p.universityLimit = None /\ p.globalLimit = None
      BY <1>2, <1>4 DEF configured
    <2>2. e.limit = ceiling
      BY <1>3, <1>4 DEF resolveLimit
    <2>3. QED BY <1>1, <1>3, <2>1, <2>2 DEF resolveCapability
  <1>5. CASE configured(p) # None
    <2>1. configured(p) \in Nat \ {0}
      BY <1>2, <1>5 DEF configured
    <2>2. e.limit = least(configured(p), ceiling)
      BY <1>3, <1>5 DEF resolveLimit
    <2>3. /\ e.limit \in Nat /\ 0 < e.limit /\ e.limit <= ceiling
          /\ e.limit <= configured(p)
      BY <1>1, <1>3, <2>1, <2>2 DEF least
    <2>4. QED BY <1>1, <1>3, <2>1, <2>3 DEF resolveCapability, configured
  <1>6. QED BY <1>4, <1>5

\* effectiveUniversity under every policy that was ever published: switches
\* win, and the limit respects the adapter, the deployment and every limit.
THEOREM CeilingsHold == Spec => []EffectiveWithinCeilings
  <1>1. IInv => EffectiveWithinCeilings
    <2> SUFFICES ASSUME IInv, NEW r \in 0..current
                 PROVE  policyOf(r) \in FeaturePolicyContent
      BY ResolvedLimit DEF EffectiveWithinCeilings
    <2>1. emptyPolicy \in FeaturePolicyContent
      BY DEF emptyPolicy, FeaturePolicyContent
    <2>2. QED BY <2>1, PolicyOfRevision, Bounds DEF IInv, Policy
  <1>2. QED BY <1>1, InductiveInvariant, PTL

============================================================================
