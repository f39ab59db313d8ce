------------------------- MODULE VnuAuthFlowProofs -------------------------
(***************************************************************************)
(* Proofs about the requests of VnuAuthFlow.                               *)
(*                                                                         *)
(* First the refinement: every step of a request is a step of the          *)
(* specification VnuRefreshAuthority, or changes nothing the authority     *)
(* sees.  The invariant this needs relates what each handler holds to what *)
(* was issued.  What VnuRefreshAuthorityProofs proves of the authority is  *)
(* then used, through the instance A of that module, for the properties of *)
(* the requests themselves.                                                *)
(***************************************************************************)
EXTENDS VnuAuthFlow, FiniteSetTheorems, TLAPS

\* The authority, over the same variables and on the stores that keep a record:
\* a Durable Object, or PostgreSQL.
A == INSTANCE VnuRefreshAuthorityProofs WITH onRedis <- FALSE

----------------------------------------------------------------------------
(* The authority's operators in this module and in VnuRefreshAuthority    *)

\* The instance A of the authority's module is about the same records, pairs
\* and clock readings as this module.
LEMMA SameTypes ==
    /\ A!LinkedPair = LinkedPair /\ A!RefreshLease = RefreshLease
    /\ A!LinkedGrantTombstone = LinkedGrantTombstone /\ A!RefreshWindow = RefreshWindow
    /\ A!VnuRefreshControlState = VnuRefreshControlState
    /\ A!ClockReadings = ClockReadings
  BY DEF A!LinkedPair, LinkedPair, RefreshLease, A!RefreshLease, LinkedGrantTombstone,
     A!LinkedGrantTombstone, VnuRefreshControlState, A!VnuRefreshControlState,
     RefreshWindow, A!RefreshWindow, A!ClockReadings, ClockReadings

\* Tombstones and the exact revocation (revokeExact) are the same in both.
LEMMA SameTombstones ==
    /\ \A p : A!linkedGrantTombstone(p) = linkedGrantTombstone(p)
    /\ \A p, q : A!refreshSuccessorGrantTombstone(p, q) = refreshSuccessorGrantTombstone(p, q)
    /\ \A g, p : A!exactlyLinksGrantTombstone(g, p) <=> exactlyLinksGrantTombstone(g, p)
    /\ \A s, p : A!untombstoned(s, p) <=> untombstoned(s, p)
    /\ \A s, p : A!leasedFor(s, p) <=> leasedFor(s, p)
    /\ \A s, p, g : A!revokeExact(s, p, g) = revokeExact(s, p, g)
  BY DEF A!linkedGrantTombstone, linkedGrantTombstone,
     A!refreshSuccessorGrantTombstone, refreshSuccessorGrantTombstone,
     A!exactlyLinksGrantTombstone, exactlyLinksGrantTombstone,
     A!untombstoned, untombstoned, A!leasedFor, leasedFor, A!revokeExact, revokeExact

\* Both clean a stored record alike (cleanVnuRefreshState).
LEMMA SameClean == \A s, t : A!cleanVnuRefreshState(s, t) = cleanVnuRefreshState(s, t)
  BY DEF A!cleanVnuRefreshState, cleanVnuRefreshState, A!cleanRecord, cleanRecord,
     A!emptyState, emptyState, A!livePair, livePair, A!liveLease, liveLease,
     A!liveTombstone, liveTombstone, A!NoWindow, NoWindow

\* Both compute the same next alarm.
LEMMA SameTimes == \A s : A!nextVnuRefreshAlarm(s) = nextVnuRefreshAlarm(s)
  BY DEF A!nextVnuRefreshAlarm, nextVnuRefreshAlarm, A!alarmTimes, alarmTimes, A!Min, Min

\* Both call the same records quiescent, those that are deleted.
LEMMA SameQuiescent == \A s : A!isQuiescentVnuRefreshState(s) <=> isQuiescentVnuRefreshState(s)
  BY DEF A!isQuiescentVnuRefreshState, isQuiescentVnuRefreshState

\* Both make a pair active alike.
LEMMA SameActivated == \A s, p, t : A!activatedRecord(s, p, t) = activatedRecord(s, p, t)
  <1> SUFFICES ASSUME NEW s, NEW p, NEW t
               PROVE A!activatedRecord(s, p, t) = activatedRecord(s, p, t)
    OBVIOUS
  <1>1. A!revokeExact(s, s.active, A!linkedGrantTombstone(s.active))
        = revokeExact(s, s.active, linkedGrantTombstone(s.active))
    BY SameTombstones
  <1>2. QED BY <1>1 DEF A!activatedRecord, activatedRecord

\* activatePair is the same step in both.
LEMMA SameActivate ==
    ASSUME NEW p, NEW t, NEW res
    PROVE A!ActivatePair(p, t, res) <=> ActivatePair(p, t, res)
  BY SameActivated, SameQuiescent, SameTimes, SameClean
    DEF A!ActivatePair, ActivatePair, A!commit, commit, A!unchanged, unchanged

\* checkAccess is the same step in both.
LEMMA SameCheck ==
    ASSUME NEW p, NEW t, NEW res
    PROVE A!CheckAccess(p, t, res) <=> CheckAccess(p, t, res)
  <1> DEFINE s == cleanVnuRefreshState(stored, t)
  <1>1. A!cleanVnuRefreshState(stored, t) = s BY SameClean
  <1>2. A!accessActive(stored, p, t) <=> accessActive(stored, p, t) BY SameClean, SameTombstones
    DEF A!accessActive, accessActive
  <1> HIDE DEF s
  <1>5. QED BY <1>1, <1>2, SameQuiescent, SameTimes
    DEF A!CheckAccess, CheckAccess, s, A!commit, commit, A!unchanged, unchanged

\* The Durable Object's alarm is the same step in both.
LEMMA SameAlarm == A!AlarmFires <=> AlarmFires
  BY SameQuiescent, SameClean, SameTimes DEF A!AlarmFires, AlarmFires

\* beginRefresh is the same step in both.
LEMMA SameBegin ==
    ASSUME NEW p, NEW t, NEW res
    PROVE A!BeginRefresh(p, t, res) <=> BeginRefresh(p, t, res)
  <1>1. \A s, q, x : A!beginRefreshKind(s, q, x) = beginRefreshKind(s, q, x)
    BY SameTombstones DEF A!beginRefreshKind, beginRefreshKind
  <1>2. \A S : A!Min(S) = Min(S)
    BY DEF A!Min, Min
  <1>3. QED BY <1>1, <1>2, SameQuiescent, SameTimes, SameClean
    DEF A!BeginRefresh, BeginRefresh, A!commit, commit, A!unchanged, unchanged

\* completeRefresh is the same step in both.
LEMMA SameComplete ==
    ASSUME NEW p, NEW q, NEW t, NEW res
    PROVE A!CompleteRefresh(p, q, t, res) <=> CompleteRefresh(p, q, t, res)
  <1>1. A!validRotation(p, q) <=> validRotation(p, q)
    BY SameTombstones DEF A!validRotation, validRotation
  <1>2. QED BY <1>1, SameQuiescent, SameTimes, SameClean, SameTombstones
    DEF A!CompleteRefresh, CompleteRefresh, A!commit, commit, A!unchanged, unchanged

\* abortRefresh is the same step in both.
LEMMA SameAbort ==
    ASSUME NEW p, NEW b, NEW t, NEW res
    PROVE A!AbortRefresh(p, b, t, res) <=> AbortRefresh(p, b, t, res)
  BY SameQuiescent, SameTimes, SameClean, SameTombstones
    DEF A!AbortRefresh, AbortRefresh, A!commit, commit, A!unchanged, unchanged

\* revokeLinkedPairByAccess is the same step in both.
LEMMA SameRevoke ==
    ASSUME NEW p, NEW t, NEW res
    PROVE A!RevokeLinkedPairByAccess(p, t, res) <=> RevokeLinkedPairByAccess(p, t, res)
  BY SameQuiescent, SameTimes, SameClean, SameTombstones
   
      DEF A!RevokeLinkedPairByAccess, RevokeLinkedPairByAccess, A!commit, commit, A!unchanged, unchanged

\* revokePrincipalByLinkedGrant is the same step in both.
LEMMA SameRevokeGrant ==
    ASSUME NEW p, NEW t, NEW res
    PROVE A!RevokePrincipalByLinkedGrant(p, t, res) <=> RevokePrincipalByLinkedGrant(p, t, res)
  BY SameQuiescent, SameTimes, SameClean, SameTombstones
   
      DEF A!RevokePrincipalByLinkedGrant, RevokePrincipalByLinkedGrant, A!commit, commit, A!unchanged, unchanged

----------------------------------------------------------------------------
(* The invariant of the handlers                                          *)

\* The phases in which a request's pair has not been issued.
Unissued == {"idle", "activate", "login", "complete"}

\* What handler r, in state h, may hold: before its pair is issued the
\* identifiers it draws are unused; what the client presented was issued, and
\* its login is remembered; what was drawn is named after r, and is a pair
\* the authority's environment may present: a fresh one on a manual login,
\* the old grant's expiry under a new token on a rotation.
HandlerOK(r, h) ==
    /\ h.phase \in Unissued => A!fresh(r)
    /\ h.pair # None => h.pair \in issued /\ h.root = rootOf(h.pair)
    /\ h.next # None => h.next.grantId = r /\ h.next.accessTokenId = r
    /\ h.phase = "activate" =>
          /\ h.pair = None /\ h.root = r /\ h.next # None
          /\ \E a \in A!AccessExpiries, g \in A!GrantExpiries : h.next = newPair(r, a, g)
    /\ h.phase = "login" => h.pair # None
    /\ h.phase = "complete" =>
          /\ h.pair # None /\ h.next # None
          /\ \E a \in A!AccessExpiries : h.next = newPair(r, a, h.pair.grantExpiresAt)
    /\ h.phase \in {"abort", "abortTerminal", "loggedOut"} => h.pair # None

\* The pairs that descend from one login share the expiry of its grant, and
\* the login's own pair was issued.
Families ==
    /\ \A p \in issued : p.accessTokenId = p.grantId
    /\ \A p \in issued : \E q \in issued : q.grantId = rootOf(p)
    /\ \A p, q \in issued : rootOf(p) = rootOf(q) => p.grantExpiresAt = q.grantExpiresAt

\* The part of the invariant about the requests.
FlowInv ==
    /\ req \in [Req -> Handler] /\ delivered \subseteq issued
    /\ \A r \in Req : HandlerOK(r, req[r])
    /\ Families

\* The invariant: the authority's own, and the requests'.
Inv == A!IInv /\ A!AlarmExact /\ FlowInv

\* A clock reading is a natural number, at most the skew ahead.
LEMMA Readings ==
    ASSUME Inv, NEW t \in ClockReadings
    PROVE  t \in Nat /\ t <= now + MaxSkew /\ now \in Nat /\ MaxSkew \in Nat
  BY ControlAssumption DEF Inv, A!IInv, A!TypeOK, ClockReadings

\* None is not a pair.
LEMMA NoneIsNoPair ==
    ASSUME NEW p \in LinkedPair
    PROVE p # None
  BY NoneAssumption

\* A step of handler r that issues nothing keeps the requests' invariant, if
\* the handler's new state is fine and no pair's login is forgotten.
LEMMA QuietFlow ==
    ASSUME Inv, NEW r \in Req, NEW h \in Handler, req' = [req EXCEPT ![r] = h],
           HandlerOK(r, h), h.root = req[r].root \/ A!fresh(r),
           issued' = issued, now' = now, delivered' \subseteq issued
    PROVE  FlowInv'
  <1>0. req \in [Req -> Handler] /\ req' \in [Req -> Handler] /\ req'[r] = h
        /\ \A x \in Req : x # r => req'[x] = req[x]
    BY DEF Inv, FlowInv
  <1>1. \A p \in issued : p.grantId \in Req /\ req'[p.grantId].root = req[p.grantId].root
    <2> SUFFICES ASSUME NEW p \in issued
                 PROVE  p.grantId \in Req /\ req'[p.grantId].root = req[p.grantId].root
      OBVIOUS
    <2>1. p.grantId \in Req
      BY FlowAssumption, SameTypes DEF Inv, A!IInv, A!TypeOK, LinkedPair
    <2>2. CASE p.grantId = r
      BY <1>0, <2>2 DEF A!fresh
    <2>3. CASE p.grantId # r
      BY <1>0, <2>1, <2>3
    <2>4. QED BY <2>1, <2>2, <2>3
  <1>2. A!fresh(r)' <=> A!fresh(r)
    BY DEF A!fresh
  <1>3. ASSUME NEW x \in Req PROVE HandlerOK(x, req[x])'
    <2>1. HandlerOK(x, req'[x])
      BY <1>0 DEF Inv, FlowInv
    <2>2. QED BY <1>1, <2>1 DEF HandlerOK, rootOf, A!fresh, A!AccessExpiries, A!GrantExpiries
  <1>4. Families'
    BY <1>1 DEF Families, rootOf, Inv, FlowInv
  <1>5. QED BY <1>0, <1>3, <1>4 DEF FlowInv

\* A step of handler r that issues the pair it drew keeps the requests'
\* invariant: an activation begins a family, a rotation continues one.
LEMMA IssueFlow ==
    ASSUME Inv, NEW r \in Req, NEW phase \in {"signedIn", "refreshed", "failed", "abort"},
           \/ req[r].phase = "activate" /\ phase \in {"signedIn", "failed"}
           \/ req[r].phase = "complete",
           goto(r, phase), issued' = issued \cup {req[r].next},
           now' = now, delivered' \subseteq issued'
    PROVE  FlowInv'
  <1> DEFINE n == req[r].next
  <1>0. /\ req \in [Req -> Handler] /\ HandlerOK(r, req[r]) /\ A!fresh(r)
        /\ req' \in [Req -> Handler]
        /\ req'[r] = [req[r] EXCEPT !.phase = phase]
        /\ \A x \in Req : x # r => req'[x] = req[x]
        /\ \A x \in Req : /\ req'[x].root = req[x].root /\ req'[x].pair = req[x].pair
                          /\ req'[x].next = req[x].next
    BY DEF Inv, FlowInv, goto, Handler, Phase, HandlerOK, Unissued
  <1>1. \A p \in issued : p.grantId \in Req /\ p.grantId # r
    <2>1. \A p \in issued : p.grantId \in Req
      BY FlowAssumption, SameTypes DEF Inv, A!IInv, A!TypeOK, LinkedPair
    <2>2. QED BY <1>0, <2>1 DEF A!fresh
  <1>2. /\ n.grantId = r /\ n.accessTokenId = r
        /\ \/ /\ req[r].phase = "activate" /\ req[r].pair = None /\ req[r].root = r
           \/ /\ req[r].pair \in issued /\ n.grantExpiresAt = req[r].pair.grantExpiresAt
              /\ req[r].root = rootOf(req[r].pair)
    <2>1. CASE req[r].phase = "activate"
      BY <1>0, <2>1 DEF HandlerOK, newPair
    <2>2. CASE req[r].phase = "complete"
      <3>1. PICK a \in A!AccessExpiries : n = newPair(r, a, req[r].pair.grantExpiresAt)
        BY <1>0, <2>2 DEF HandlerOK
      <3>2. n.grantExpiresAt = req[r].pair.grantExpiresAt /\ n.grantId = r /\ n.accessTokenId = r
        BY <3>1 DEF newPair
      <3>3. QED BY <1>0, <2>2, <3>2 DEF HandlerOK
    <2>3. QED BY <2>1, <2>2
  <1>3. ASSUME NEW x \in Req PROVE HandlerOK(x, req[x])'
    <2>1. HandlerOK(x, req[x])
      BY DEF Inv, FlowInv
    <2>2. CASE x = r
      <3>1. /\ req'[r].phase = phase /\ req'[r].pair = req[r].pair
            /\ req'[r].next = req[r].next /\ req'[r].root = req[r].root
        BY <1>0 DEF Handler
      <3>2. req[r].pair # None => req'[req[r].pair.grantId].root = rootOf(req[r].pair)
        BY <1>0, <1>1, <2>1, <2>2 DEF HandlerOK, rootOf
      <3>3. req[r].phase = "complete" => req[r].pair # None
        BY <1>0 DEF HandlerOK
      <3>4. QED BY <2>1, <2>2, <3>1, <3>2, <3>3 DEF HandlerOK, rootOf, Unissued
    <2>3. CASE x # r
      <3>1. A!fresh(x) => A!fresh(x)'
        BY <1>2, <2>3 DEF A!fresh
      <3>2. req'[x] = req[x] /\ \A p \in issued : req'[p.grantId].root = rootOf(p)
        BY <1>0, <1>1, <2>3 DEF rootOf
      <3>3. QED BY <2>1, <3>1, <3>2 DEF HandlerOK, A!AccessExpiries, A!GrantExpiries, rootOf
    <2>4. QED BY <2>2, <2>3
  <1>4. Families'
    <2>1. /\ \A p \in issued : req'[p.grantId].root = req[p.grantId].root
          /\ req'[n.grantId].root = req[r].root
      BY <1>0, <1>1, <1>2
    <2>2. CASE req[r].phase = "activate" /\ req[r].root = r
      <3>1. \A p \in issued : req[p.grantId].root # r
        BY <1>1 DEF Inv, FlowInv, Families, rootOf
      <3>2. QED BY <1>2, <2>1, <2>2, <3>1 DEF Inv, FlowInv, Families, rootOf
    <2>3. CASE /\ req[r].pair \in issued /\ n.grantExpiresAt = req[r].pair.grantExpiresAt
               /\ req[r].root = rootOf(req[r].pair)
      BY <1>2, <2>1, <2>3 DEF Inv, FlowInv, Families, rootOf
    <2>4. QED BY <1>2, <2>2, <2>3
  <1>5. QED BY <1>0, <1>3, <1>4 DEF FlowInv

\* Moving to a phase that asks for nothing new keeps the requests' invariant.
LEMMA GotoFlow ==
    ASSUME Inv, NEW r \in Req, NEW phase \in Phase \ Unissued, goto(r, phase),
           phase \in {"abort", "abortTerminal", "loggedOut"} => req[r].pair # None,
           issued' = issued, now' = now, delivered' \subseteq issued
    PROVE  FlowInv'
  <1> DEFINE h == [req[r] EXCEPT !.phase = phase]
  <1>1. /\ req[r] \in Handler /\ HandlerOK(r, req[r])
        /\ req' = [req EXCEPT ![r] = h]
    BY DEF Inv, FlowInv, goto
  <1>2. /\ h \in Handler /\ h.phase = phase /\ h.pair = req[r].pair
        /\ h.next = req[r].next /\ h.root = req[r].root
    BY <1>1 DEF Handler
  <1> HIDE DEF h
  <1>3. HandlerOK(r, h)
    BY <1>1, <1>2 DEF HandlerOK, Unissued
  <1>4. QED BY <1>1, <1>2, <1>3, QuietFlow

\* So does time: the expiries the environment may draw only grow.
LEMMA TickFlow ==
    ASSUME Inv, Tick
    PROVE  FlowInv'
  <1>1. now \in Nat /\ MaxSkew \in Nat /\ AccessLife \in Nat /\ GrantLife \in Nat
    BY ControlAssumption, FlowAssumption DEF Inv, A!IInv, A!TypeOK
  <1>2. A!AccessExpiries \subseteq A!AccessExpiries' /\ A!GrantExpiries \subseteq A!GrantExpiries'
    BY <1>1 DEF A!AccessExpiries, A!GrantExpiries, Tick
  <1>3. ASSUME NEW x \in Req PROVE HandlerOK(x, req[x])'
    <2>1. HandlerOK(x, req[x])
      BY DEF Inv, FlowInv
    <2>2. req' = req /\ issued' = issued
      BY DEF Tick
    <2>3. A!fresh(x) => A!fresh(x)'
      BY <2>2 DEF A!fresh
    <2>4. QED BY <1>2, <2>1, <2>2, <2>3 DEF HandlerOK, rootOf
  <1>4. Families'
    BY DEF Tick, Inv, FlowInv, Families, rootOf
  <1>5. QED BY <1>3, <1>4 DEF Tick, Inv, FlowInv

----------------------------------------------------------------------------
(* Each step of a request is a step of the authority, or none             *)

\* The authority takes a step of its own specification, or none.
Mapped == A!Next \/ UNCHANGED A!vars

\* A pair named after a request is well formed.
LEMMA NewPairTyped ==
    ASSUME NEW r \in Req, NEW a \in Nat \ {0}, NEW g \in Nat \ {0}
    PROVE  newPair(r, a, g) \in LinkedPair /\ newPair(r, a, g) # None
  BY FlowAssumption, NoneAssumption DEF newPair, LinkedPair

\* Login: the authority sees nothing.
LEMMA LoginStep ==
    ASSUME Inv, NEW r \in Req, Login(r)
    PROVE  FlowInv' /\ Mapped
  <1>0. PICK t \in ClockReadings : \E a \in (t + 1)..(t + AccessLife) :
          req' = [req EXCEPT ![r] = [Idle EXCEPT !.phase = "activate", !.root = r,
                                                 !.next = newPair(r, a, t + GrantLife)]]
    BY DEF Login
  <1>1. PICK a \in (t + 1)..(t + AccessLife) :
          req' = [req EXCEPT ![r] = [Idle EXCEPT !.phase = "activate", !.root = r,
                                                 !.next = newPair(r, a, t + GrantLife)]]
    BY <1>0
  <1> DEFINE n == newPair(r, a, t + GrantLife)
             h == [Idle EXCEPT !.phase = "activate", !.root = r, !.next = n]
  <1>2. AccessLife \in Nat \ {0} /\ GrantLife \in Nat \ {0}
    BY FlowAssumption
  <1>3. /\ a \in Nat \ {0} /\ t + GrantLife \in Nat \ {0}
        /\ a \in A!AccessExpiries /\ t + GrantLife \in A!GrantExpiries
    BY <1>2, Readings DEF A!AccessExpiries, A!GrantExpiries
  <1>4. n \in LinkedPair /\ n # None
    BY <1>3, NewPairTyped
  <1>5. A!fresh(r)
    BY DEF Inv, FlowInv, HandlerOK, Unissued, Login
  <1>6. n.grantId = r /\ n.accessTokenId = r
    BY DEF newPair
  <1>7. \E b \in A!AccessExpiries, g \in A!GrantExpiries : n = newPair(r, b, g)
    BY <1>3
  <1> HIDE DEF n
  <1>8. h \in Handler /\ h.phase = "activate" /\ h.root = r /\ h.next = n /\ h.pair = None
    BY <1>4 DEF Idle, Handler, Phase
  <1>9. HandlerOK(r, h)
    BY <1>4, <1>5, <1>6, <1>7, <1>8 DEF HandlerOK
  <1>10. FlowInv'
    <2>1. issued' = issued /\ now' = now /\ delivered' \subseteq issued
      BY DEF Login, Inv, FlowInv
    <2> HIDE DEF h
    <2>2. req' = [req EXCEPT ![r] = h]
      BY <1>1 DEF h, n
    <2>3. QED BY <1>5, <1>8, <1>9, <2>1, <2>2, QuietFlow
  <1>11. Mapped
    BY DEF Login, Mapped, A!vars
  <1>12. QED BY <1>10, <1>11

\* Activate: activatePair with a fresh pair.
LEMMA ActivateStep ==
    ASSUME Inv, NEW r \in Req, Activate(r)
    PROVE  FlowInv' /\ Mapped
  <1>1. PICK t \in ClockReadings, res \in {"activated", "rate-limited"} :
        /\ ActivatePair(req[r].next, t, res)
        /\ \/ /\ res = "activated"
              /\ issued' = issued \cup {req[r].next}
              /\ \/ goto(r, "signedIn") /\ respondWith(req[r].next)
                 \/ goto(r, "failed") /\ UNCHANGED delivered
           \/ res = "rate-limited" /\ goto(r, "failed") /\ UNCHANGED <<issued, delivered>>
    BY DEF Activate
  <1>2. now' = now
    BY <1>1 DEF ActivatePair, commit, unchanged
  <1>3. HandlerOK(r, req[r]) /\ req[r].phase = "activate" /\ delivered \subseteq issued
    BY DEF Activate, Inv, FlowInv
  <1>4. FlowInv'
    <2>1. CASE res = "activated"
      <3>1. PICK phase \in {"signedIn", "failed"} : goto(r, phase)
        BY <1>1, <2>1
      <3>2. issued' = issued \cup {req[r].next} /\ delivered' \subseteq issued'
        BY <1>1, <1>3, <2>1 DEF respondWith
      <3>3. QED BY <1>2, <1>3, <3>1, <3>2, IssueFlow
    <2>2. CASE res = "rate-limited"
      <3>1. goto(r, "failed") /\ issued' = issued /\ delivered' \subseteq issued
        BY <1>1, <1>3, <2>2
      <3>2. QED BY <1>2, <3>1, GotoFlow DEF Phase, Unissued
    <2>3. QED BY <2>1, <2>2
  <1>5. Mapped
    <2>1. PICK a \in A!AccessExpiries, g \in A!GrantExpiries : req[r].next = newPair(r, a, g)
      BY <1>3 DEF HandlerOK
    <2>2. A!fresh(r) /\ r \in Id
      BY <1>3, FlowAssumption DEF HandlerOK, Unissued
    <2>3. req[r].next \in {A!newPair(i, b, c) : i \in {j \in Id : A!fresh(j)},
                              b \in A!AccessExpiries, c \in A!GrantExpiries}
      BY <2>1, <2>2 DEF A!newPair, newPair
    <2>4. A!ActivatePair(req[r].next, t, res)
      BY <1>1, SameActivate
    <2>5. issued' = IF res = "activated" THEN issued \cup {req[r].next} ELSE issued
      BY <1>1
    <2>6. A!open
      BY DEF Activate, open, A!open
    <2>7. A!Activate
      BY <2>3, <2>4, <2>5, <2>6, SameTypes DEF A!Activate
    <2>8. QED BY <2>7 DEF Mapped, A!Next, A!Call
  <1>6. QED BY <1>4, <1>5

\* BeginRefreshRequest: beginRefresh of an issued pair.
LEMMA BeginStep ==
    ASSUME Inv, NEW r \in Req, BeginRefreshRequest(r)
    PROVE  FlowInv' /\ Mapped
  <1>1. PICK t \in ClockReadings, pair \in delivered,
             res \in {"accepted", "revoked", "in-progress", "rate-limited"} :
        /\ BeginRefresh(pair, t, res)
        /\ \E phase \in IF res = "accepted" THEN {"login", "failed"} ELSE {"failed"} :
             req' = [req EXCEPT ![r] =
                [Idle EXCEPT !.phase = phase, !.pair = pair, !.root = rootOf(pair),
                             !.beganAt = IF phase = "login" THEN t ELSE None]]
    BY DEF BeginRefreshRequest
  <1>2. PICK phase \in {"login", "failed"} :
             req' = [req EXCEPT ![r] =
                [Idle EXCEPT !.phase = phase, !.pair = pair, !.root = rootOf(pair),
                             !.beganAt = IF phase = "login" THEN t ELSE None]]
    BY <1>1
  <1> DEFINE b == IF phase = "login" THEN t ELSE None
             h == [Idle EXCEPT !.phase = phase, !.pair = pair, !.root = rootOf(pair), !.beganAt = b]
  <1>3. now' = now /\ issued' = issued /\ delivered' = delivered
    BY <1>1 DEF BeginRefreshRequest, BeginRefresh, commit, unchanged
  <1>4. /\ pair \in issued /\ pair \in LinkedPair /\ pair # None /\ delivered \subseteq issued
        /\ pair.grantId \in Req /\ b \in Nat \cup {None} /\ t \in Nat
    <2>1. pair \in issued /\ delivered \subseteq issued
      BY DEF Inv, FlowInv
    <2>2. pair \in LinkedPair
      BY <2>1, SameTypes DEF Inv, A!IInv, A!TypeOK
    <2>3. QED BY <2>1, <2>2, NoneIsNoPair, FlowAssumption, Readings DEF LinkedPair
  <1>5. rootOf(pair) \in Req \cup {None}
    BY <1>4 DEF Inv, FlowInv, Handler, rootOf
  <1>6. A!fresh(r)
    BY DEF Inv, FlowInv, HandlerOK, Unissued, BeginRefreshRequest
  <1> HIDE DEF b
  <1>7. /\ h \in Handler /\ h.phase = phase /\ h.root = rootOf(pair) /\ h.pair = pair
        /\ h.next = None
    BY <1>4, <1>5 DEF Idle, Handler, Phase
  <1> HIDE DEF h
  <1>8. HandlerOK(r, h)
    BY <1>4, <1>6, <1>7 DEF HandlerOK
  <1>9. req' = [req EXCEPT ![r] = h]
    BY <1>2 DEF h, b
  <1>10. FlowInv'
    BY <1>3, <1>4, <1>6, <1>7, <1>8, <1>9, QuietFlow
  <1>11. Mapped
    <2>1. A!BeginRefresh(pair, t, res)
      BY <1>1, SameBegin
    <2>2. A!open
      BY DEF BeginRefreshRequest, open, A!open
    <2>3. A!Begin
      BY <1>3, <1>4, <2>1, <2>2, SameTypes DEF A!Begin
    <2>4. QED BY <2>3 DEF Mapped, A!Next, A!Call
  <1>12. QED BY <1>10, <1>11

\* UpstreamLoginSucceeds: the authority sees nothing.
LEMMA UpstreamSucceedsStep ==
    ASSUME Inv, NEW r \in Req, UpstreamLoginSucceeds(r)
    PROVE  FlowInv' /\ Mapped
  <1>1. PICK t \in ClockReadings :
        req' = [req EXCEPT ![r].phase = "complete",
                  ![r].next = newPair(r, t + AccessLife, req[r].pair.grantExpiresAt)]
    BY DEF UpstreamLoginSucceeds
  <1> DEFINE n == newPair(r, t + AccessLife, req[r].pair.grantExpiresAt)
             h == [[req[r] EXCEPT !.phase = "complete"] EXCEPT !.next = n]
  <1>2. /\ req[r] \in Handler /\ HandlerOK(r, req[r]) /\ req[r].phase = "login"
        /\ req \in [Req -> Handler]
    BY DEF UpstreamLoginSucceeds, Inv, FlowInv
  <1>3. req[r].pair # None /\ req[r].pair \in issued /\ A!fresh(r)
    BY <1>2 DEF HandlerOK, Unissued
  <1>4. req[r].pair.grantExpiresAt \in Nat \ {0}
    BY <1>3, SameTypes DEF Inv, A!IInv, A!TypeOK, LinkedPair
  <1>5. t + AccessLife \in Nat \ {0} /\ t + AccessLife \in A!AccessExpiries
    BY Readings, FlowAssumption DEF A!AccessExpiries
  <1>6. n \in LinkedPair /\ n # None /\ n.grantId = r /\ n.accessTokenId = r
    BY <1>4, <1>5, NewPairTyped DEF newPair
  <1>7. \E a \in A!AccessExpiries : n = newPair(r, a, req[r].pair.grantExpiresAt)
    BY <1>5
  <1>8. req' = [req EXCEPT ![r] = h]
    BY <1>1, <1>2
  <1> HIDE DEF n
  <1>9. /\ h \in Handler /\ h.phase = "complete" /\ h.next = n
        /\ h.pair = req[r].pair /\ h.root = req[r].root
    BY <1>2, <1>6 DEF Handler, Phase
  <1> HIDE DEF h
  <1>10. HandlerOK(r, h)
    BY <1>2, <1>3, <1>6, <1>7, <1>9 DEF HandlerOK
  <1>11. issued' = issued /\ now' = now /\ delivered' \subseteq issued /\ UNCHANGED A!vars
    BY DEF UpstreamLoginSucceeds, Inv, FlowInv, A!vars
  <1>12. QED BY <1>8, <1>9, <1>10, <1>11, QuietFlow DEF Mapped

\* UpstreamLoginFails: the authority sees nothing.
LEMMA UpstreamFailsStep ==
    ASSUME Inv, NEW r \in Req, UpstreamLoginFails(r)
    PROVE  FlowInv' /\ Mapped
  <1>1. PICK phase \in {"abort", "abortTerminal"} : goto(r, phase)
    BY DEF UpstreamLoginFails
  <1>2. req[r].pair # None
    BY DEF UpstreamLoginFails, Inv, FlowInv, HandlerOK
  <1>3. issued' = issued /\ now' = now /\ delivered' \subseteq issued /\ UNCHANGED A!vars
    BY DEF UpstreamLoginFails, Inv, FlowInv, A!vars
  <1>4. QED BY <1>1, <1>2, <1>3, GotoFlow DEF Mapped, Phase, Unissued

\* Complete: completeRefresh with a fresh pair under the old grant's expiry.
LEMMA CompleteStep ==
    ASSUME Inv, NEW r \in Req, Complete(r)
    PROVE  FlowInv' /\ Mapped
  <1>1. PICK t \in ClockReadings, res \in {"completed", "revoked"} :
        /\ CompleteRefresh(req[r].pair, req[r].next, t, res)
        /\ issued' = IF res = "completed" THEN issued \cup {req[r].next} ELSE issued
        /\ \/ /\ res = "completed"
              /\ goto(r, "refreshed") /\ respondWith(req[r].next)
           \/ res = "revoked" /\ goto(r, "failed") /\ UNCHANGED delivered
           \/ goto(r, "abort") /\ UNCHANGED delivered
    BY DEF Complete
  <1>2. now' = now
    BY <1>1 DEF CompleteRefresh, commit, unchanged
  <1>3. HandlerOK(r, req[r]) /\ req[r].phase = "complete" /\ delivered \subseteq issued
    BY DEF Complete, Inv, FlowInv
  <1>4. req[r].pair # None /\ req[r].pair \in issued /\ A!fresh(r)
    BY <1>3 DEF HandlerOK, Unissued
  <1>5. PICK phase \in {"refreshed", "failed", "abort"} : goto(r, phase)
    BY <1>1
  <1>6. FlowInv'
    <2>1. CASE res = "completed"
      <3>1. issued' = issued \cup {req[r].next} /\ delivered' \subseteq issued'
        BY <1>1, <1>3, <2>1 DEF respondWith
      <3>2. QED BY <1>2, <1>3, <1>5, <3>1, IssueFlow
    <2>2. CASE res = "revoked"
      <3>1. issued' = issued /\ delivered' \subseteq issued
        BY <1>1, <1>3, <2>2
      <3>2. QED BY <1>2, <1>4, <1>5, <3>1, GotoFlow DEF Phase, Unissued
    <2>3. QED BY <2>1, <2>2
  <1>7. Mapped
    <2>1. PICK a \in A!AccessExpiries :
             req[r].next = newPair(r, a, req[r].pair.grantExpiresAt)
      BY <1>3 DEF HandlerOK
    <2>2. req[r].next = A!newPair(r, a, req[r].pair.grantExpiresAt)
      BY <2>1 DEF newPair, A!newPair
    <2>3. A!CompleteRefresh(req[r].pair, req[r].next, t, res)
      BY <1>1, SameComplete
    <2>4. A!open /\ r \in {j \in Id : A!fresh(j)}
      BY <1>4, FlowAssumption DEF Complete, open, A!open
    <2>5. issued' = IF res = "completed" THEN issued \cup {req[r].next} ELSE issued
      BY <1>1
    <2>6. A!Complete
      BY <1>4, <2>2, <2>3, <2>4, <2>5, SameTypes DEF A!Complete
    <2>7. QED BY <2>6 DEF Mapped, A!Next, A!Call
  <1>8. QED BY <1>6, <1>7

\* Abort: abortRefresh of an issued pair.
LEMMA AbortStep ==
    ASSUME Inv, NEW r \in Req, Abort(r)
    PROVE  FlowInv' /\ Mapped
  <1> DEFINE terminal == req[r].phase = "abortTerminal"
  <1>1. PICK t \in ClockReadings, res \in {"aborted", "revoked"} :
          AbortRefresh(req[r].pair, terminal, t, res)
    BY DEF Abort
  <1>2. now' = now /\ issued' = issued /\ delivered' \subseteq issued
    BY <1>1 DEF AbortRefresh, commit, unchanged, Abort, Inv, FlowInv
  <1>3. PICK phase \in {"rejected", "failed"} : goto(r, phase)
    BY DEF Abort
  <1>4. FlowInv'
    BY <1>2, <1>3, GotoFlow DEF Phase, Unissued
  <1>5. Mapped
    <2>1. req[r].pair \in issued
      BY DEF Abort, Inv, FlowInv, HandlerOK
    <2>2. A!AbortRefresh(req[r].pair, terminal, t, res) /\ terminal \in BOOLEAN
      BY <1>1, SameAbort
    <2>3. A!open
      BY DEF Abort, open, A!open
    <2> HIDE DEF terminal
    <2>4. A!Abort
      BY <1>2, <2>1, <2>2, <2>3, SameTypes DEF A!Abort
    <2>5. QED BY <2>4 DEF Mapped, A!Next, A!Call
  <1>6. QED BY <1>4, <1>5

\* Logout: one of the two revocations, of an issued pair.
LEMMA LogoutStep ==
    ASSUME Inv, NEW r \in Req, Logout(r)
    PROVE  FlowInv' /\ Mapped
  <1>1. PICK t \in ClockReadings, pair \in delivered, withGrant \in BOOLEAN,
          res \in {"revoked", "mismatch", "expired"} :
        /\ IF withGrant THEN RevokePrincipalByLinkedGrant(pair, t, res)
                        ELSE RevokeLinkedPairByAccess(pair, t, res)
        /\ \E t2 \in ClockReadings :
             LET refused == \/ res = "mismatch"
                            \/ res = "expired" /\ artifactLive(pair, withGrant, t2)
             IN  \E phase \in {IF refused THEN "mismatch" ELSE "loggedOut", "failed"} :
                    req' = [req EXCEPT ![r] =
                       [Idle EXCEPT !.phase = phase, !.pair = pair, !.root = rootOf(pair),
                                    !.withGrant = withGrant]]
    BY DEF Logout
  <1>2. PICK phase \in {"mismatch", "loggedOut", "failed"} :
          req' = [req EXCEPT ![r] =
                       [Idle EXCEPT !.phase = phase, !.pair = pair, !.root = rootOf(pair),
                                    !.withGrant = withGrant]]
    BY <1>1
  <1> DEFINE h == [Idle EXCEPT !.phase = phase, !.pair = pair, !.root = rootOf(pair),
                               !.withGrant = withGrant]
  <1>3. now' = now /\ issued' = issued /\ delivered' = delivered
    <2>1. CASE withGrant
      BY <1>1, <2>1 DEF RevokePrincipalByLinkedGrant, commit, unchanged, Logout
    <2>2. CASE ~withGrant
      BY <1>1, <2>2 DEF RevokeLinkedPairByAccess, commit, unchanged, Logout
    <2>3. QED BY <2>1, <2>2
  <1>4. /\ pair \in issued /\ pair \in LinkedPair /\ pair # None /\ delivered \subseteq issued
        /\ pair.grantId \in Req
    <2>1. pair \in issued /\ delivered \subseteq issued
      BY DEF Inv, FlowInv
    <2>2. pair \in LinkedPair
      BY <2>1, SameTypes DEF Inv, A!IInv, A!TypeOK
    <2>3. QED BY <2>1, <2>2, NoneIsNoPair, FlowAssumption DEF LinkedPair
  <1>5. rootOf(pair) \in Req \cup {None}
    BY <1>4 DEF Inv, FlowInv, Handler, rootOf
  <1>6. A!fresh(r)
    BY DEF Inv, FlowInv, HandlerOK, Unissued, Logout
  <1>7. /\ h \in Handler /\ h.phase = phase /\ h.root = rootOf(pair) /\ h.pair = pair
        /\ h.next = None
    BY <1>4, <1>5 DEF Idle, Handler, Phase
  <1>8. req' = [req EXCEPT ![r] = h]
    BY <1>2
  <1> HIDE DEF h
  <1>9. HandlerOK(r, h)
    BY <1>4, <1>6, <1>7 DEF HandlerOK
  <1>10. FlowInv'
    BY <1>3, <1>4, <1>6, <1>7, <1>8, <1>9, QuietFlow
  <1>11. Mapped
    <2>1. A!open
      BY DEF Logout, open, A!open
    <2>2. CASE withGrant
      <3>1. A!RevokePrincipalByLinkedGrant(pair, t, res)
        BY <1>1, <2>2, SameRevokeGrant
      <3>2. A!RevokeByGrant
        BY <1>3, <1>4, <2>1, <3>1, SameTypes DEF A!RevokeByGrant
      <3>3. QED BY <3>2 DEF Mapped, A!Next, A!Call
    <2>3. CASE ~withGrant
      <3>1. A!RevokeLinkedPairByAccess(pair, t, res)
        BY <1>1, <2>3, SameRevoke
      <3>2. A!RevokeByAccess
        BY <1>3, <1>4, <2>1, <3>1, SameTypes DEF A!RevokeByAccess
      <3>3. QED BY <3>2 DEF Mapped, A!Next, A!Call
    <2>4. QED BY <2>2, <2>3
  <1>12. QED BY <1>10, <1>11

\* CallFails: the authority sees nothing.
LEMMA CallFailsStep ==
    ASSUME Inv, NEW r \in Req, CallFails(r)
    PROVE  FlowInv' /\ Mapped
  <1>1. issued' = issued /\ now' = now /\ delivered' \subseteq issued /\ UNCHANGED A!vars
    BY DEF CallFails, Inv, FlowInv, A!vars
  <1>2. CASE goto(r, "failed")
    BY <1>1, <1>2, GotoFlow DEF Mapped, Phase, Unissued
  <1>3. CASE req[r].phase = "complete" /\ goto(r, "abort")
    <2>1. req[r].pair # None
      BY <1>3 DEF Inv, FlowInv, HandlerOK
    <2>2. QED BY <1>1, <1>3, <2>1, GotoFlow DEF Mapped, Phase, Unissued
  <1>4. QED BY <1>2, <1>3 DEF CallFails

\* Crash: the authority sees nothing.
LEMMA CrashStep ==
    ASSUME Inv, NEW r \in Req, Crash(r)
    PROVE  FlowInv' /\ Mapped
  <1>1. issued' = issued /\ now' = now /\ delivered' \subseteq issued /\ UNCHANGED A!vars
    BY DEF Crash, Inv, FlowInv, A!vars
  <1>2. QED BY <1>1, GotoFlow DEF Crash, Mapped, Phase, Unissued

\* The requests' invariant reads nothing but the requests, the issued pairs
\* and the time.
LEMMA StillFlow ==
    ASSUME Inv, UNCHANGED <<req, issued, delivered, now>>
    PROVE  FlowInv'
  BY DEF Inv, FlowInv, HandlerOK, Families, rootOf, A!fresh, A!AccessExpiries, A!GrantExpiries

\* An ordinary request, the alarm, the time and a stutter.
LEMMA OtherSteps ==
    ASSUME Inv, OrdinaryRequest \/ Alarm \/ Tick
    PROVE  FlowInv' /\ Mapped
  <1>1. CASE OrdinaryRequest
    <2>1. PICK t \in ClockReadings, pair \in delivered, res \in {"active", "revoked"} :
            CheckAccess(pair, t, res)
      BY <1>1 DEF OrdinaryRequest
    <2>2. UNCHANGED <<req, issued, delivered, now>>
      BY <1>1, <2>1 DEF OrdinaryRequest, CheckAccess, commit, unchanged
    <2>3. A!CheckAccess(pair, t, res) /\ pair \in issued /\ A!open
      BY <1>1, <2>1, SameCheck DEF Inv, FlowInv, OrdinaryRequest, open, A!open
    <2>4. A!Check
      BY <2>2, <2>3, SameTypes DEF A!Check
    <2>5. QED BY <2>2, <2>4, StillFlow DEF Mapped, A!Next, A!Call
  <1>2. CASE Alarm
    <2>1. UNCHANGED <<req, issued, delivered, now>> /\ A!Alarm
      BY <1>2, SameAlarm DEF Alarm, AlarmFires, A!Alarm
    <2>2. QED BY <2>1, StillFlow DEF Mapped, A!Next
  <1>3. CASE Tick
    <2>1. A!Tick
      BY <1>3 DEF Tick, A!Tick
    <2>2. QED BY <1>3, <2>1, TickFlow DEF Mapped, A!Next
  <1>4. QED BY <1>1, <1>2, <1>3

\* Every step keeps the requests' invariant and is the authority's, or none.
LEMMA EveryStep ==
    ASSUME Inv, [Next]_vars
    PROVE  FlowInv' /\ Mapped
  <1>1. CASE UNCHANGED vars
    <2>1. UNCHANGED <<req, issued, delivered, now>> /\ UNCHANGED A!vars
      BY <1>1 DEF vars, A!vars
    <2>2. QED BY <2>1, StillFlow DEF Mapped
  <1>2. ASSUME NEW r \in Req, Handle(r) \/ Crash(r) PROVE FlowInv' /\ Mapped
    BY <1>2, LoginStep, ActivateStep, BeginStep, UpstreamSucceedsStep, UpstreamFailsStep,
       CompleteStep, AbortStep, LogoutStep, CallFailsStep, CrashStep
    DEF Handle
  <1>3. QED BY <1>1, <1>2, OtherSteps DEF Next

\* Every step therefore does to the record what VnuRefreshAuthorityProofs
\* shows of the authority's steps.
LEMMA GoodStep ==
    ASSUME Inv, [Next]_vars
    PROVE  A!GoodStep
  <1>1. Mapped
    BY EveryStep
  <1>2. CASE A!Next
    BY <1>2, A!NextGood, SameTypes, ControlAssumption, NoneAssumption, FlowAssumption
    DEF Inv, A!NextGood
  <1>3. CASE UNCHANGED A!vars
    <2>1. UNCHANGED A!storeVars
      BY <1>3 DEF A!storeVars
    <2>2. QED
      BY <2>1, A!StutterGood, SameTypes, ControlAssumption, NoneAssumption, FlowAssumption
      DEF Inv, A!StutterGood
  <1>4. QED BY <1>1, <1>2, <1>3 DEF Mapped

\* The initial state.
LEMMA InitInv ==
    ASSUME Init
    PROVE  Inv
  <1>1. A!IInv /\ A!AlarmExact
    <2>1. A!Init
      BY DEF Init, A!Init
    <2>2. QED BY <2>1, A!InitGood, SameTypes, ControlAssumption, NoneAssumption, FlowAssumption
          DEF A!InitGood
  <1>2. FlowInv
    BY DEF Init, FlowInv, HandlerOK, Families, Idle, Handler, Phase, Unissued, A!fresh
  <1>3. QED BY <1>1, <1>2 DEF Inv

\* The invariant the results below rest on: handlers hold only what they may
\* hold, and every record they write is one the authority would write.
THEOREM FlowInvariant == Spec => []Inv
  <1>1. Init => Inv
    BY InitInv
  <1>2. Inv /\ [Next]_vars => Inv'
    <2> SUFFICES ASSUME Inv, [Next]_vars PROVE Inv'
      OBVIOUS
    <2>1. FlowInv' BY EveryStep
    <2>2. A!IInv' /\ A!AlarmExact' BY GoodStep DEF A!GoodStep
    <2>3. QED BY <2>1, <2>2 DEF Inv
  <1>3. QED BY <1>1, <1>2, PTL DEF Spec

\* The record, the alarm, the handlers and the pairs keep their types.
THEOREM TypeCorrect == Spec => []TypeOK
  <1>1. Inv => TypeOK
    BY SameTypes DEF Inv, FlowInv, TypeOK, A!IInv, A!TypeOK
  <1>2. QED BY <1>1, FlowInvariant, PTL

\* The handlers of app.ts use the authority only as its specification's
\* environment does: unused identifiers, issued pairs, expiries a login or a
\* rotation may give. Whatever is proved of the authority holds of the
\* requests.
THEOREM UsesAuthority == Spec => A!Spec
  <1>1. Init => A!Init
    BY DEF Init, A!Init
  <1>2. Inv /\ [Next]_vars => [A!Next]_A!vars
    BY EveryStep DEF Mapped
  <1>3. QED BY <1>1, <1>2, FlowInvariant, PTL DEF Spec, A!Spec

\* So no pair that stopped being active becomes active again, whatever
\* requests interleave: no answer of app.ts revives a rotated or revoked
\* token.
THEOREM PairsNeverReturn == Spec => A!NoResurrection
  <1>1. Inv /\ [Next]_vars => [A!NoResurrectionStep]_A!vars
    BY GoodStep DEF A!GoodStep
  <1>2. QED BY <1>1, FlowInvariant, PTL DEF Spec, A!NoResurrection, A!NoResurrectionStep

----------------------------------------------------------------------------
(* A grant is exchanged at most once                                      *)

\* What a step of handler r leaves alone: the other handlers, and, unless it
\* begins or draws a pair, what r presented, drew and descends from.
Handled(r) ==
    /\ \A x \in Req : x # r => req'[x] = req[x]
    /\ \/ /\ req'[r].pair = req[r].pair /\ req'[r].next = req[r].next
          /\ req'[r].root = req[r].root
          /\ \/ issued' = issued
             \/ Activate(r) /\ issued' = issued \cup {req[r].next}
             \/ Complete(r) /\ issued' = issued \cup {req[r].next}
       \/ /\ req[r].phase = "idle" /\ issued' = issued
          /\ req'[r].pair = None \/ req'[r].next = None
       \/ /\ UpstreamLoginSucceeds(r) /\ issued' = issued
          /\ req'[r].pair = req[r].pair /\ req'[r].root = req[r].root
          /\ req'[r].next # None

\* Every step of a handler is like that.
LEMMA HandlerChange ==
    ASSUME Inv, NEW r \in Req, Handle(r) \/ Crash(r)
    PROVE  Handled(r)
  <1>1. req \in [Req -> Handler] /\ req[r] \in Handler
    BY DEF Inv, FlowInv
  <1>2. ASSUME NEW phase, goto(r, phase)
        PROVE  /\ \A x \in Req : x # r => req'[x] = req[x]
               /\ req'[r].pair = req[r].pair /\ req'[r].next = req[r].next
               /\ req'[r].root = req[r].root
    BY <1>1, <1>2 DEF goto, Handler
  <1>3. CASE Login(r)
    BY <1>1, <1>3 DEF Login, Handled, Idle
  <1>4. CASE Activate(r)
    <2>1. PICK phase \in {"signedIn", "failed"} : goto(r, phase)
      BY <1>4 DEF Activate
    <2>2. issued' = issued \/ issued' = issued \cup {req[r].next}
      BY <1>4 DEF Activate
    <2>3. QED BY <1>2, <1>4, <2>1, <2>2 DEF Handled
  <1>5. CASE BeginRefreshRequest(r)
    BY <1>1, <1>5 DEF BeginRefreshRequest, Handled, Idle
  <1>6. CASE UpstreamLoginSucceeds(r)
    <2>1. FlowInv'
      BY <1>6, UpstreamSucceedsStep
    <2>2. PICK n : req' = [req EXCEPT ![r].phase = "complete", ![r].next = n]
      BY <1>6 DEF UpstreamLoginSucceeds
    <2>3. /\ \A x \in Req : x # r => req'[x] = req[x]
          /\ req'[r].pair = req[r].pair /\ req'[r].root = req[r].root
          /\ req'[r].phase = "complete"
      BY <1>1, <2>2 DEF Handler
    <2>4. req'[r].next # None
      BY <2>1, <2>3 DEF FlowInv, HandlerOK
    <2>5. QED BY <1>6, <2>3, <2>4 DEF Handled, UpstreamLoginSucceeds
  <1>7. CASE UpstreamLoginFails(r)
    BY <1>2, <1>7 DEF UpstreamLoginFails, Handled
  <1>8. CASE Complete(r)
    <2>1. PICK phase \in {"refreshed", "failed", "abort"} : goto(r, phase)
      BY <1>8 DEF Complete
    <2>2. issued' = issued \/ issued' = issued \cup {req[r].next}
      BY <1>8 DEF Complete
    <2>3. QED BY <1>2, <1>8, <2>1, <2>2 DEF Handled
  <1>9. CASE Abort(r)
    <2>1. \E phase : goto(r, phase)
      BY <1>9 DEF Abort
    <2>2. QED BY <1>2, <1>9, <2>1 DEF Abort, Handled
  <1>10. CASE Logout(r)
    BY <1>1, <1>10 DEF Logout, Handled, Idle
  <1>11. CASE CallFails(r)
    BY <1>2, <1>11 DEF CallFails, Handled
  <1>12. CASE Crash(r)
    BY <1>2, <1>12 DEF Crash, Handled
  <1>13. QED BY <1>3, <1>4, <1>5, <1>6, <1>7, <1>8, <1>9, <1>10, <1>11, <1>12 DEF Handle

\* Handler x keeps what it presented and drew; what it drew was issued
\* before, or by its own completeRefresh.
NextKeptBy(x) ==
    /\ req'[x].pair = req[x].pair /\ req'[x].next = req[x].next /\ req'[x].root = req[x].root
    /\ \/ req[x].next \in issued
       \/ Complete(x) /\ issued' = issued \cup {req[x].next} /\ req[x].next \notin issued

\* A handler whose drawn pair is issued keeps both pairs.
LEMMA NextKept ==
    ASSUME Inv, [Next]_vars, NEW x \in Req, req'[x].pair # None, req'[x].next # None,
           req'[x].next \in issued'
    PROVE  NextKeptBy(x)
  <1>1. CASE UNCHANGED <<req, issued>>
    BY <1>1 DEF NextKeptBy
  <1>2. ASSUME NEW r \in Req, Handled(r) PROVE NextKeptBy(x)
    <2>0. HandlerOK(r, req[r]) /\ HandlerOK(x, req[x])
      BY DEF Inv, FlowInv
    <2>1. CASE x # r
      <3>1. req'[x] = req[x]
        BY <1>2, <2>1 DEF Handled
      <3>2. req[x].next.grantId = x
        BY <2>0, <3>1 DEF HandlerOK
      <3>3. req[x].next \in issued
        <4>1. CASE issued' = issued
          BY <3>1, <4>1
        <4>2. CASE issued' = issued \cup {req[r].next} /\ (Activate(r) \/ Complete(r))
          <5>1. req[r].next.grantId = r
            BY <2>0, <4>2 DEF HandlerOK, Activate, Complete
          <5>2. QED BY <2>1, <3>1, <3>2, <4>2, <5>1
        <4>3. QED BY <1>2, <4>1, <4>2 DEF Handled
      <3>4. QED BY <3>1, <3>3 DEF NextKeptBy
    <2>2. CASE x = r
      <3>1. Activate(r) => req[r].pair = None
        BY <2>0 DEF Activate, HandlerOK
      <3>2. Complete(r) => req[r].next \notin issued
        BY <2>0 DEF Complete, HandlerOK, Unissued, A!fresh
      <3>3. CASE UpstreamLoginSucceeds(r) /\ issued' = issued
        <4>1. FlowInv' /\ A!fresh(r)
          BY <2>0, <3>3, UpstreamSucceedsStep DEF UpstreamLoginSucceeds, HandlerOK, Unissued
        <4>2. req'[r].next.grantId = r
          BY <2>2, <4>1 DEF FlowInv, HandlerOK
        <4>3. QED BY <2>2, <3>3, <4>1, <4>2 DEF A!fresh
      <3>4. QED BY <1>2, <2>2, <3>1, <3>2, <3>3 DEF Handled, NextKeptBy
    <2>3. QED BY <2>1, <2>2
  <1>3. OrdinaryRequest \/ Alarm \/ Tick \/ UNCHANGED vars => UNCHANGED <<req, issued>>
    BY DEF OrdinaryRequest, Alarm, Tick, vars
  <1>4. QED BY <1>1, <1>2, <1>3, HandlerChange DEF Next

\* A cleaned record is well formed and would be parsed.
LEMMA CleanIsGood ==
    ASSUME Inv, NEW t \in ClockReadings
    PROVE  /\ cleanVnuRefreshState(stored, t) \in VnuRefreshControlState
           /\ A!parses(cleanVnuRefreshState(stored, t))
  <1>1. A!Evolves(A!cleanVnuRefreshState(stored, t), issued)
    BY A!CleanEvolves, SameTypes, ControlAssumption, NoneAssumption, FlowAssumption
    DEF A!CleanEvolves, Inv
  <1>2. QED BY <1>1, SameClean, SameTypes DEF A!Evolves, A!GoodRecord

\* What is active after cleaning was active, and has not expired.
LEMMA CleanActive ==
    ASSUME NEW t, NEW p, p # None, cleanVnuRefreshState(stored, t).active = p
    PROVE  isActive(p) /\ p.grantExpiresAt > t
  BY DEF isActive, cleanVnuRefreshState, cleanRecord, emptyState, livePair

\* A completeRefresh that issued its pair found the presented pair active,
\* made its own active, and left a tombstone that names it as the successor.
LEMMA Completed ==
    ASSUME Inv, NEW r \in Req, Complete(r), issued' # issued
    PROVE  /\ isActive(req[r].pair)
           /\ stored' # None /\ stored'.active = req[r].next
           /\ stored'.revokedGrants[req[r].pair.grantId]
                = refreshSuccessorGrantTombstone(req[r].pair, req[r].next)
  <1> DEFINE old == req[r].pair
             next == req[r].next
  <1>1. PICK t \in ClockReadings : CompleteRefresh(old, next, t, "completed")
    BY DEF Complete
  <1> DEFINE s == cleanVnuRefreshState(stored, t)
             g == refreshSuccessorGrantTombstone(old, next)
             rotated == revokeExact(s, old, g)
  <1>2. s.active = old /\ commit([rotated EXCEPT !.active = next])
    BY <1>1 DEF CompleteRefresh
  <1>3. /\ old # None /\ old \in LinkedPair /\ next # None /\ next \in LinkedPair
    <2>1. old # None /\ old \in issued /\ next # None
      BY DEF Complete, Inv, FlowInv, HandlerOK
    <2>2. next \in LinkedPair
      BY <2>1 DEF Inv, FlowInv, Handler
    <2>3. QED BY <2>1, <2>2, SameTypes DEF Inv, A!IInv, A!TypeOK
  <1>4. isActive(old)
    BY <1>2, <1>3, CleanActive
  <1>5. s \in VnuRefreshControlState /\ old.grantId \in Id
        /\ g \in LinkedGrantTombstone /\ old.accessTokenId \in Id /\ old.accessExpiresAt \in Nat
    BY <1>3, CleanIsGood
    DEF LinkedPair, refreshSuccessorGrantTombstone, linkedGrantTombstone, LinkedGrantTombstone
  <1> HIDE DEF s, g, old, next
  <1>6. /\ rotated = [s EXCEPT !.active = None,
                          !.lease = IF leasedFor(s, old) THEN None ELSE s.lease,
                          !.revokedAccess = [@ EXCEPT ![old.accessTokenId] = old.accessExpiresAt],
                          !.revokedGrants = [@ EXCEPT ![old.grantId] = g]]
    BY DEF revokeExact
  <1> DEFINE c == [rotated EXCEPT !.active = next]
  <1>7. c.active = next /\ c.revokedGrants[old.grantId] = g
    BY <1>5, <1>6 DEF VnuRefreshControlState
  <1> HIDE DEF c
  <1>8. stored' = c
    BY <1>2, <1>3, <1>7 DEF commit, isQuiescentVnuRefreshState, c
  <1>9. c # None
    <2>1. rotated \in VnuRefreshControlState
      <3> DEFINE l == IF leasedFor(s, old) THEN None ELSE s.lease
                 a == [s.revokedAccess EXCEPT ![old.accessTokenId] = old.accessExpiresAt]
                 b == [s.revokedGrants EXCEPT ![old.grantId] = g]
      <3>1. /\ l \in RefreshLease \cup {None}
            /\ a \in [Id -> Nat]
            /\ b \in [Id -> LinkedGrantTombstone \cup {None}]
        BY <1>5 DEF VnuRefreshControlState
      <3>2. rotated = [s EXCEPT !.active = None, !.lease = l,
                                !.revokedAccess = a, !.revokedGrants = b]
        BY <1>5, <1>6 DEF VnuRefreshControlState
      <3> HIDE DEF l, a, b, rotated
      <3>3. QED BY <1>5, <3>1, <3>2 DEF VnuRefreshControlState
    <2> HIDE DEF rotated
    <2>2. c \in VnuRefreshControlState
      BY <1>3, <2>1 DEF c, VnuRefreshControlState
    <2>3. QED BY <2>2, NoneAssumption
  <1>10. QED BY <1>4, <1>7, <1>8, <1>9 DEF old, next, g

\* A pair that was exchanged is no longer active.
Spent ==
    \A r \in Req : /\ req[r].pair # None /\ req[r].next # None /\ req[r].next \in issued
                   => ~isActive(req[r].pair)

\* The inductive form of RotatedAtMostOnce.
RotationInv == Inv /\ Spent /\ RotatedAtMostOnce

\* An exchanged pair stays inactive, so that no second exchange can succeed.
LEMMA RotationStep ==
    ASSUME RotationInv, [Next]_vars
    PROVE  Spent' /\ RotatedAtMostOnce'
  <1>0. Inv
    BY DEF RotationInv
  <1>1. ASSUME NEW p \in issued, ~isActive(p)
        PROVE  ~(stored' # None /\ stored'.active = p)
    BY <1>0, <1>1, GoodStep DEF A!GoodStep, A!NoResurrectionStep, isActive
  <1>2. ASSUME NEW r \in Req, req'[r].pair # None, req'[r].next # None,
               req'[r].next \in issued'
        PROVE  /\ NextKeptBy(r) /\ req[r].pair \in issued
               /\ ~(stored' # None /\ stored'.active = req[r].pair)
    <2>1. NextKeptBy(r)
      BY <1>0, <1>2, NextKept
    <2>2. req[r].pair \in issued
      BY <1>0, <1>2, <2>1 DEF NextKeptBy, Inv, FlowInv, HandlerOK
    <2>3. CASE req[r].next \in issued
      <3>1. ~isActive(req[r].pair)
        BY <1>2, <2>1, <2>3 DEF NextKeptBy, RotationInv, Spent
      <3>2. QED BY <1>1, <2>1, <2>2, <3>1
    <2>4. CASE Complete(r) /\ issued' # issued /\ req[r].next \notin issued
      <3>1. stored'.active = req[r].next
        BY <1>0, <2>4, Completed
      <3>2. QED BY <2>1, <2>2, <2>4, <3>1
    <2>5. QED BY <2>1, <2>2, <2>3, <2>4 DEF NextKeptBy
  <1>3. Spent'
    <2> SUFFICES ASSUME NEW r \in Req, req'[r].pair # None, req'[r].next # None,
                        req'[r].next \in issued'
                 PROVE  ~(stored' # None /\ stored'.active = req'[r].pair)
      BY DEF Spent, isActive
    <2>1. QED BY <1>2 DEF NextKeptBy, isActive
  <1>4. RotatedAtMostOnce'
    <2> SUFFICES ASSUME NEW r1 \in Req, NEW r2 \in Req, r1 # r2,
                        req'[r1].pair # None, req'[r1].pair = req'[r2].pair,
                        req'[r1].next # None, req'[r2].next # None,
                        req'[r1].next \in issued', req'[r2].next \in issued'
                 PROVE  FALSE
      BY DEF RotatedAtMostOnce
    <2>1. NextKeptBy(r1) /\ NextKeptBy(r2) /\ req[r1].pair = req[r2].pair
      BY <1>2 DEF NextKeptBy
    <2>2. CASE req[r1].next \in issued /\ req[r2].next \in issued
      BY <2>1, <2>2 DEF NextKeptBy, RotationInv, RotatedAtMostOnce
    <2>3. ASSUME NEW x \in Req, NEW y \in Req, x # y, NextKeptBy(x), NextKeptBy(y),
                 req[x].pair = req[y].pair, req[x].pair # None,
                 req[x].next # None, req[y].next # None,
                 Complete(x), issued' = issued \cup {req[x].next}, req[x].next \notin issued,
                 req'[y].next \in issued'
          PROVE  FALSE
      <3>1. isActive(req[x].pair)
        BY <1>0, <2>3, Completed
      <3>2. req[y].next \notin issued
        BY <2>3, <3>1 DEF RotationInv, Spent
      <3>3. req[y].next = req[x].next
        BY <2>3, <3>2 DEF NextKeptBy
      <3>4. req[y].next.grantId = y /\ req[x].next.grantId = x
        BY <1>0, <2>3 DEF Inv, FlowInv, HandlerOK
      <3>5. QED BY <2>3, <3>3, <3>4
    <2>4. QED BY <2>1, <2>2, <2>3 DEF NextKeptBy
  <1>5. QED BY <1>3, <1>4

\* RotatedAtMostOnce for every number of requests, every clock skew and every
\* limit: no interleaving of refreshes, lost answers, expired leases and
\* retries gives one grant two successors.
THEOREM RotatedOnce == Spec => []RotatedAtMostOnce
  <1>1. Init => Spent /\ RotatedAtMostOnce
    BY DEF Init, Idle, Spent, RotatedAtMostOnce
  <1>2. Inv /\ Spent /\ RotatedAtMostOnce /\ [Next]_vars => (Spent /\ RotatedAtMostOnce)'
    BY RotationStep DEF RotationInv
  <1>3. QED BY <1>1, <1>2, FlowInvariant, PTL DEF Spec

----------------------------------------------------------------------------
(* A logout is final                                                      *)

\* After the step, p is not the active pair.
NotActiveNext(p) == ~(stored' # None /\ stored'.active = p)

\* An exact revocation leaves no pair active.
LEMMA RevokeEmpties ==
    ASSUME NEW s \in VnuRefreshControlState, NEW p, NEW g, commit(revokeExact(s, p, g))
    PROVE  stored' = None \/ stored'.active = None
  BY DEF commit, revokeExact, VnuRefreshControlState

\* After a logout by access token was answered, the pair is not active.
LEMMA LoggedOutByAccess ==
    ASSUME Inv, NEW pair \in issued, NEW t \in ClockReadings, pair \in LinkedPair,
           RevokeLinkedPairByAccess(pair, t, "revoked")
    PROVE  NotActiveNext(pair)
  <1> DEFINE s == cleanVnuRefreshState(stored, t)
  <1>0. pair # None /\ pair.grantId \in Id
    BY NoneIsNoPair DEF LinkedPair
  <1>1. s \in VnuRefreshControlState
    BY CleanIsGood
  <1>2. CASE exactlyLinksGrantTombstone(s.revokedGrants[pair.grantId], pair) /\ unchanged
    <2>1. stored # None /\ stored.revokedGrants[pair.grantId] # None
      BY <1>0, <1>2
      DEF exactlyLinksGrantTombstone, cleanVnuRefreshState, emptyState, cleanRecord, liveTombstone
    <2>2. stored.active # None => A!untombstoned(stored, stored.active)
      BY <2>1 DEF Inv, A!IInv, A!GoodRecord, A!parses
    <2>3. stored.active # pair
      BY <1>0, <2>1, <2>2 DEF A!untombstoned
    <2>4. QED BY <1>2, <2>3 DEF unchanged, NotActiveNext
  <1>3. CASE commit(revokeExact(s, pair, linkedGrantTombstone(pair)))
    BY <1>0, <1>1, <1>3, RevokeEmpties DEF NotActiveNext
  <1>4. QED BY <1>2, <1>3 DEF RevokeLinkedPairByAccess

\* After a logout with the grant was answered, no pair that has not expired
\* is active.
LEMMA LoggedOutByGrant ==
    ASSUME Inv, NEW pair \in issued, pair \in LinkedPair, NEW t \in ClockReadings,
           RevokePrincipalByLinkedGrant(pair, t, "revoked"),
           NEW p \in LinkedPair, p.grantExpiresAt > now + MaxSkew
    PROVE  NotActiveNext(p)
  <1> DEFINE s == cleanVnuRefreshState(stored, t)
             q == [s EXCEPT
                     !.revokedAccess = [@ EXCEPT ![pair.accessTokenId] = pair.accessExpiresAt],
                     !.revokedGrants = [@ EXCEPT ![pair.grantId] = linkedGrantTombstone(pair)]]
  <1>1. s \in VnuRefreshControlState /\ p # None
    BY CleanIsGood, NoneIsNoPair
  <1>2. \/ s.active = None /\ unchanged
        \/ commit(revokeExact(q, s.active, linkedGrantTombstone(s.active)))
    BY DEF RevokePrincipalByLinkedGrant
  <1>3. CASE s.active = None /\ unchanged
    <2>1. p.grantExpiresAt > t
      BY Readings DEF LinkedPair
    <2>2. stored # None => stored.active # p
      BY <1>1, <1>3, <2>1 DEF cleanVnuRefreshState, cleanRecord, livePair
    <2>3. QED BY <1>3, <2>2 DEF unchanged, NotActiveNext
  <1>4. CASE commit(revokeExact(q, s.active, linkedGrantTombstone(s.active)))
    <2>1. q \in VnuRefreshControlState
      <3> DEFINE a == [s.revokedAccess EXCEPT ![pair.accessTokenId] = pair.accessExpiresAt]
                 b == [s.revokedGrants EXCEPT ![pair.grantId] = linkedGrantTombstone(pair)]
      <3>1. linkedGrantTombstone(pair) \in LinkedGrantTombstone
        BY DEF linkedGrantTombstone, LinkedGrantTombstone, LinkedPair
      <3>2. a \in [Id -> Nat] /\ b \in [Id -> LinkedGrantTombstone \cup {None}]
        BY <1>1, <3>1 DEF VnuRefreshControlState, LinkedPair
      <3>3. q = [s EXCEPT !.revokedAccess = a, !.revokedGrants = b]
        BY <1>1 DEF VnuRefreshControlState
      <3> HIDE DEF a, b, q, s
      <3>4. QED BY <1>1, <3>2, <3>3 DEF VnuRefreshControlState
    <2> HIDE DEF q
    <2>2. QED BY <1>1, <1>4, <2>1, RevokeEmpties DEF NotActiveNext
  <1>5. QED BY <1>2, <1>3, <1>4

\* A step is a handler's, or changes neither handlers nor issued pairs.
LEMMA StepShape ==
    ASSUME Inv, [Next]_vars
    PROVE  UNCHANGED <<req, issued>> \/ \E r \in Req : (Handle(r) \/ Crash(r)) /\ Handled(r)
  BY HandlerChange DEF Next, OrdinaryRequest, Alarm, Tick, vars

\* The login an issued pair descends from never changes.
LEMMA RootsKept ==
    ASSUME Inv, [Next]_vars, NEW p \in issued
    PROVE  p.grantId \in Req /\ req'[p.grantId].root = rootOf(p)
  <1>1. p.grantId \in Req
    BY FlowAssumption, SameTypes DEF Inv, A!IInv, A!TypeOK, LinkedPair
  <1>2. CASE UNCHANGED <<req, issued>>
    BY <1>1, <1>2 DEF rootOf
  <1>3. ASSUME NEW r \in Req, Handled(r) PROVE req'[p.grantId].root = req[p.grantId].root
    <2>1. CASE p.grantId # r
      BY <1>1, <1>3, <2>1 DEF Handled
    <2>2. CASE p.grantId = r
      <3>1. req[r].phase # "idle"
        BY <2>2 DEF Inv, FlowInv, HandlerOK, Unissued, A!fresh
      <3>2. QED BY <1>3, <2>2, <3>1 DEF Handled
    <2>3. QED BY <2>1, <2>2
  <1>4. QED BY <1>1, <1>2, <1>3, StepShape DEF rootOf

\* A request that was answered stays answered.
LEMMA StaysLoggedOut ==
    ASSUME Inv, [Next]_vars, NEW r \in Req, req'[r].phase = "loggedOut", ~Logout(r)
    PROVE  req'[r] = req[r]
  <1>1. req \in [Req -> Handler]
    BY DEF Inv, FlowInv
  <1>2. ASSUME NEW phase, goto(r, phase) PROVE phase = "loggedOut"
    BY <1>1, <1>2 DEF goto, Handler
  <1>3. ASSUME Handle(r) \/ Crash(r) PROVE FALSE
    <2>1. CASE Login(r)
      BY <1>1, <2>1 DEF Login, Idle
    <2>2. CASE BeginRefreshRequest(r)
      BY <1>1, <2>2 DEF BeginRefreshRequest, Idle
    <2>3. CASE UpstreamLoginSucceeds(r)
      BY <1>1, <2>3 DEF UpstreamLoginSucceeds, Handler
    <2>4. CASE Activate(r) \/ UpstreamLoginFails(r) \/ Complete(r)
      BY <1>2, <2>4 DEF Activate, UpstreamLoginFails, Complete
    <2>5. CASE Abort(r) \/ CallFails(r) \/ Crash(r)
      BY <1>2, <2>5 DEF Abort, CallFails, Crash
    <2>6. QED BY <1>3, <2>1, <2>2, <2>3, <2>4, <2>5 DEF Handle
  <1>4. QED BY <1>3, StepShape DEF Handled

\* Only a tick moves the time, by one.
LEMMA NowMoves ==
    ASSUME Inv, [Next]_vars
    PROVE  now' \in {now, now + 1}
  <1>1. ASSUME NEW r \in Req, Activate(r) PROVE now' = now
    BY <1>1 DEF Activate, ActivatePair, commit, unchanged
  <1>2. ASSUME NEW r \in Req, BeginRefreshRequest(r) PROVE now' = now
    BY <1>2 DEF BeginRefreshRequest, BeginRefresh, commit, unchanged
  <1>3. ASSUME NEW r \in Req, Complete(r) PROVE now' = now
    BY <1>3 DEF Complete, CompleteRefresh, commit, unchanged
  <1>4. ASSUME NEW r \in Req, Abort(r) PROVE now' = now
    BY <1>4 DEF Abort, AbortRefresh, commit, unchanged
  <1>5. ASSUME NEW r \in Req, Logout(r) PROVE now' = now
    BY <1>5 DEF Logout, RevokePrincipalByLinkedGrant, RevokeLinkedPairByAccess, commit, unchanged
  <1>6. OrdinaryRequest => now' = now
    BY DEF OrdinaryRequest, CheckAccess, commit, unchanged
  <1>7. Alarm \/ UNCHANGED vars => now' = now
    BY DEF Alarm, AlarmFires, vars
  <1>8. ASSUME NEW r \in Req, Login(r) \/ UpstreamLoginSucceeds(r) \/ UpstreamLoginFails(r)
                              \/ CallFails(r) \/ Crash(r)
        PROVE  now' = now
    BY <1>8 DEF Login, UpstreamLoginSucceeds, UpstreamLoginFails, CallFails, Crash
  <1>9. Tick => now' = now + 1
    BY DEF Tick
  <1>10. QED BY <1>1, <1>2, <1>3, <1>4, <1>5, <1>6, <1>7, <1>8, <1>9 DEF Next, Handle

\* LogoutIsFinal is inductive: the logout's own step by the three lemmas
\* above, any later step because no pair returns and a new pair of the family
\* comes only from an active one.
LEMMA LogoutStays ==
    ASSUME Inv, LogoutIsFinal, [Next]_vars
    PROVE  LogoutIsFinal'
  <1> SUFFICES ASSUME NEW r \in Req, req'[r].phase = "loggedOut", NEW p \in issued',
                      IF req'[r].withGrant THEN rootOf(p)' = req'[r].root ELSE p = req'[r].pair,
                      p.grantExpiresAt > now' + MaxSkew
               PROVE  NotActiveNext(p)
    BY DEF LogoutIsFinal, NotActiveNext, isActive
  <1>0. /\ now \in Nat /\ now' \in Nat /\ MaxSkew \in Nat /\ p \in LinkedPair
        /\ issued \subseteq LinkedPair /\ req \in [Req -> Handler]
        /\ p.grantExpiresAt \in Nat /\ p.grantId \in Req /\ p.grantId \in Id
    <2>1. A!IInv /\ A!IInv'
      BY GoodStep DEF A!GoodStep, Inv
    <2>2. issued \subseteq LinkedPair /\ issued' \subseteq LinkedPair /\ now \in Nat /\ now' \in Nat
      BY <2>1, SameTypes DEF A!IInv, A!TypeOK
    <2>3. QED BY <2>2, ControlAssumption, FlowAssumption DEF LinkedPair, Inv, FlowInv
  <1>1. CASE Logout(r)
    <2>0. Logout(r)
      BY <1>1
    <2>1. PICK t \in ClockReadings, pair \in delivered, withGrant \in BOOLEAN,
               res \in {"revoked", "mismatch", "expired"} :
        /\ IF withGrant THEN RevokePrincipalByLinkedGrant(pair, t, res)
                        ELSE RevokeLinkedPairByAccess(pair, t, res)
        /\ \E t2 \in ClockReadings :
             LET refused == \/ res = "mismatch"
                            \/ res = "expired" /\ artifactLive(pair, withGrant, t2)
             IN  \E phase \in {IF refused THEN "mismatch" ELSE "loggedOut", "failed"} :
                    req' = [req EXCEPT ![r] =
                       [Idle EXCEPT !.phase = phase, !.pair = pair, !.root = rootOf(pair),
                                    !.withGrant = withGrant]]
      BY <2>0 DEF Logout
    <2>2. PICK t2 \in ClockReadings :
             LET refused == \/ res = "mismatch"
                            \/ res = "expired" /\ artifactLive(pair, withGrant, t2)
             IN  \E phase \in {IF refused THEN "mismatch" ELSE "loggedOut", "failed"} :
                    req' = [req EXCEPT ![r] =
                       [Idle EXCEPT !.phase = phase, !.pair = pair, !.root = rootOf(pair),
                                    !.withGrant = withGrant]]
      BY <2>1
    <2>3. /\ req'[r].pair = pair /\ req'[r].root = rootOf(pair)
          /\ req'[r].withGrant = withGrant
          /\ res = "revoked" \/ (res = "expired" /\ ~artifactLive(pair, withGrant, t2))
      BY <1>0, <2>2 DEF Idle
    <2>4. /\ issued' = issued /\ now' = now /\ pair \in issued
      <3>1. now' = now
        <4>1. CASE withGrant
          BY <2>1, <4>1 DEF RevokePrincipalByLinkedGrant, commit, unchanged
        <4>2. CASE ~withGrant
          BY <2>1, <4>2 DEF RevokeLinkedPairByAccess, commit, unchanged
        <4>3. QED BY <4>1, <4>2
      <3>2. QED BY <2>0, <3>1 DEF Logout, Inv, FlowInv
    <2>5. p.grantExpiresAt = pair.grantExpiresAt /\ (~withGrant => p = pair)
      <3>1. CASE ~withGrant
        BY <2>3, <3>1
      <3>2. CASE withGrant
        <4>1. A!fresh(r)
          BY <2>0 DEF Logout, Inv, FlowInv, HandlerOK, Unissued
        <4>2. req'[p.grantId] = req[p.grantId]
          BY <1>0, <2>2, <2>4, <4>1 DEF A!fresh
        <4>3. rootOf(p) = rootOf(pair)
          BY <2>3, <3>2, <4>2 DEF rootOf
        <4>4. QED BY <2>4, <3>2, <4>3 DEF Inv, FlowInv, Families
      <3>3. QED BY <3>1, <3>2
    <2>6. CASE res = "expired" /\ ~artifactLive(pair, withGrant, t2)
      <3>1. ~(pair.grantExpiresAt > t2)
        BY <2>6 DEF artifactLive
      <3>2. QED BY <1>0, <2>4, <2>5, <3>1, Readings
    <2>7. CASE res = "revoked" /\ withGrant
      BY <1>0, <2>1, <2>4, <2>7, LoggedOutByGrant
    <2>8. CASE res = "revoked" /\ ~withGrant
      BY <1>0, <2>1, <2>4, <2>5, <2>8, LoggedOutByAccess
    <2>9. QED BY <2>3, <2>6, <2>7, <2>8
  <1>2. CASE ~Logout(r)
    <2>1. req'[r] = req[r]
      BY <1>2, StaysLoggedOut
    <2>2. CASE p \in issued
      <3>1. IF req[r].withGrant THEN rootOf(p) = req[r].root ELSE p = req[r].pair
        BY <2>1, <2>2, RootsKept DEF rootOf
      <3>2. p.grantExpiresAt > now + MaxSkew
        BY <1>0, NowMoves
      <3>3. ~isActive(p)
        BY <2>1, <2>2, <3>1, <3>2 DEF LogoutIsFinal
      <3>4. QED BY <2>2, <3>3, GoodStep
                DEF A!GoodStep, A!NoResurrectionStep, isActive, NotActiveNext
    <2>3. CASE p \notin issued
      <3>1. PICK x \in Req : /\ Activate(x) \/ Complete(x)
                             /\ p = req[x].next /\ req'[x].root = req[x].root
        BY <2>3, StepShape DEF Handled
      <3>2. /\ HandlerOK(x, req[x]) /\ HandlerOK(r, req[r]) /\ p.grantId = x /\ A!fresh(x)
        BY <3>1 DEF Activate, Complete, Inv, FlowInv, HandlerOK, Unissued
      <3>3. req[r].pair \in issued /\ req[r].root = rootOf(req[r].pair)
        BY <2>1, <3>2 DEF HandlerOK
      <3>4. req[r].withGrant /\ req[x].root = req[r].root
        BY <2>1, <2>3, <3>1, <3>2, <3>3 DEF rootOf
      <3>5. CASE Activate(x)
        <4>1. req[x].root = x
          BY <3>2, <3>5 DEF Activate, HandlerOK
        <4>2. PICK q \in issued : q.grantId = rootOf(req[r].pair)
          BY <3>3 DEF Inv, FlowInv, Families
        <4>3. QED BY <3>2, <3>3, <3>4, <4>1, <4>2 DEF A!fresh
      <3>6. CASE Complete(x)
        <4>1. isActive(req[x].pair)
          BY <2>3, <3>6, Completed
        <4>2. /\ req[x].pair \in issued /\ rootOf(req[x].pair) = req[x].root
              /\ \E a \in A!AccessExpiries :
                   req[x].next = newPair(x, a, req[x].pair.grantExpiresAt)
          BY <3>2, <3>6 DEF Complete, HandlerOK
        <4>3. req[x].pair.grantExpiresAt = p.grantExpiresAt
          BY <3>1, <4>2 DEF newPair
        <4>4. req[x].pair.grantExpiresAt > now + MaxSkew
          BY <1>0, <4>3, NowMoves
        <4>5. QED BY <2>1, <3>4, <4>1, <4>2, <4>4 DEF LogoutIsFinal
      <3>7. QED BY <3>1, <3>5, <3>6
    <2>4. QED BY <2>2, <2>3
  <1>3. QED BY <1>1, <1>2

\* LogoutIsFinal for every number of requests, every clock skew and every
\* limit: a refresh in flight cannot undo a logout that was answered with
\* success.
THEOREM LogoutFinal == Spec => []LogoutIsFinal
  <1>1. Init => LogoutIsFinal
    BY DEF Init, Idle, LogoutIsFinal
  <1>2. Inv /\ LogoutIsFinal /\ [Next]_vars => LogoutIsFinal'
    BY LogoutStays
  <1>3. QED BY <1>1, <1>2, FlowInvariant, PTL DEF Spec

----------------------------------------------------------------------------
(* A lost refresh can be logged out                                       *)

\* As long as the active pair stays, so does every tombstone that has not
\* expired: nothing but making another pair active or revoking overwrites
\* one.
LEMMA KeepsLinks ==
    ASSUME Inv, [Next]_vars, NEW p \in issued, stored # None, stored.active = p,
           stored' # None, stored'.active = p, NEW g \in Id,
           stored.revokedGrants[g] # None,
           stored.revokedGrants[g].grantExpiresAt > now + MaxSkew
    PROVE  stored'.revokedGrants[g] = stored.revokedGrants[g]
  <1> DEFINE clean(t) == cleanVnuRefreshState(stored, t)
             kept == stored'.revokedGrants[g] = stored.revokedGrants[g]
  <1>0. /\ p \in LinkedPair /\ p # None
        /\ stored.revokedGrants[g].grantExpiresAt \in Nat
    <2>1. issued \subseteq LinkedPair /\ stored \in VnuRefreshControlState
      BY SameTypes DEF Inv, A!IInv, A!TypeOK
    <2>2. QED BY <2>1, NoneIsNoPair DEF VnuRefreshControlState, LinkedGrantTombstone
  <1>1. ASSUME NEW t \in ClockReadings
        PROVE  clean(t) \in VnuRefreshControlState
               /\ clean(t).revokedGrants[g] = stored.revokedGrants[g]
    <2>1. stored.revokedGrants[g].grantExpiresAt > t
      BY <1>0, Readings
    <2>2. QED BY <2>1, CleanIsGood DEF cleanVnuRefreshState, cleanRecord, liveTombstone
  <1> HIDE DEF clean
  <1>2. CASE UNCHANGED stored
    BY <1>2
  <1>3. ASSUME NEW r \in Req, Activate(r) PROVE kept
    <2>1. PICK t \in ClockReadings, res \in {"activated", "rate-limited"} :
           ActivatePair(req[r].next, t, res)
      BY <1>3 DEF Activate
    <2>2. req[r].next # p /\ HandlerOK(r, req[r])
      BY <1>3 DEF Activate, Inv, FlowInv, HandlerOK, Unissued, A!fresh
    <2>3. CASE commit(activatedRecord(clean(t), req[r].next, t))
      <3>1. activatedRecord(clean(t), req[r].next, t).active = req[r].next
        BY <1>1 DEF activatedRecord, revokeExact, VnuRefreshControlState
      <3>2. QED BY <2>2, <2>3, <3>1 DEF commit
    <2>4. QED BY <2>1, <2>3, <1>2 DEF ActivatePair, unchanged, clean
  <1>4. ASSUME NEW r \in Req, BeginRefreshRequest(r) PROVE kept
    <2>1. PICK t \in ClockReadings, pair \in delivered,
              res \in {"accepted", "revoked", "in-progress", "rate-limited"} : BeginRefresh(pair, t, res)
      BY <1>4 DEF BeginRefreshRequest
    <2>2. CASE \E l, w : commit([clean(t) EXCEPT !.lease = l, !.window = w])
      BY <1>1, <2>2 DEF commit, VnuRefreshControlState
    <2>3. CASE unchanged
      BY <1>2, <2>3 DEF unchanged
    <2>4. QED BY <2>1, <2>2, <2>3 DEF BeginRefresh, clean
  <1>5. ASSUME NEW r \in Req, Complete(r) PROVE kept
    <2>1. CASE issued' # issued
      <3>1. stored'.active = req[r].next /\ A!fresh(r) /\ req[r].next.grantId = r
        BY <1>5, <2>1, Completed DEF Complete, Inv, FlowInv, HandlerOK, Unissued
      <3>2. QED BY <3>1 DEF A!fresh
    <2>2. CASE issued' = issued
      <3>1. req[r].next \notin issued
        BY <1>5 DEF Complete, Inv, FlowInv, HandlerOK, Unissued, A!fresh
      <3>2. UNCHANGED stored
        BY <1>5, <2>2, <3>1 DEF Complete, CompleteRefresh, unchanged
      <3>3. QED BY <3>2
    <2>3. QED BY <2>1, <2>2
  <1>6. ASSUME NEW r \in Req, Abort(r) PROVE kept
    <2>1. PICK t \in ClockReadings, terminal \in BOOLEAN, res \in {"aborted", "revoked"} :
           AbortRefresh(req[r].pair, terminal, t, res)
      BY <1>6 DEF Abort
    <2>2. CASE commit([clean(t) EXCEPT !.lease = None])
      BY <1>1, <2>2 DEF commit, VnuRefreshControlState
    <2>3. CASE \E q, x : commit(revokeExact(clean(t), q, x))
      BY <1>0, <1>1, <2>3, RevokeEmpties
    <2>4. QED BY <1>2, <2>1, <2>2, <2>3 DEF AbortRefresh, unchanged, clean
  <1>7. ASSUME NEW r \in Req, Logout(r) PROVE kept
    <2>1. PICK t \in ClockReadings, pair \in delivered, res \in {"revoked", "mismatch", "expired"} :
            RevokePrincipalByLinkedGrant(pair, t, res) \/ RevokeLinkedPairByAccess(pair, t, res)
      BY <1>7 DEF Logout
    <2>2. CASE RevokeLinkedPairByAccess(pair, t, res)
      <3>1. CASE commit(revokeExact(clean(t), pair, linkedGrantTombstone(pair)))
        BY <1>0, <1>1, <3>1, RevokeEmpties
      <3>2. QED BY <1>2, <2>2, <3>1 DEF RevokeLinkedPairByAccess, unchanged, clean
    <2>3. CASE RevokePrincipalByLinkedGrant(pair, t, res)
      <3> DEFINE q == [clean(t) EXCEPT
                !.revokedAccess = [@ EXCEPT ![pair.accessTokenId] = pair.accessExpiresAt],
                !.revokedGrants = [@ EXCEPT ![pair.grantId] = linkedGrantTombstone(pair)]]
      <3>1. CASE commit(revokeExact(q, clean(t).active, linkedGrantTombstone(clean(t).active)))
        <4>1. q \in VnuRefreshControlState
          <5>1. pair \in LinkedPair
            BY SameTypes DEF Inv, FlowInv, A!IInv, A!TypeOK
          <5>2. linkedGrantTombstone(pair) \in LinkedGrantTombstone
            BY <5>1 DEF linkedGrantTombstone, LinkedGrantTombstone, LinkedPair
          <5> DEFINE a == [clean(t).revokedAccess EXCEPT
                              ![pair.accessTokenId] = pair.accessExpiresAt]
                     b == [clean(t).revokedGrants EXCEPT
                              ![pair.grantId] = linkedGrantTombstone(pair)]
          <5>3. a \in [Id -> Nat] /\ b \in [Id -> LinkedGrantTombstone \cup {None}]
            BY <1>1, <5>1, <5>2 DEF VnuRefreshControlState, LinkedPair
          <5>4. q = [clean(t) EXCEPT !.revokedAccess = a, !.revokedGrants = b]
            BY <1>1 DEF VnuRefreshControlState
          <5> HIDE DEF a, b, q
          <5>5. QED BY <1>1, <5>3, <5>4 DEF VnuRefreshControlState
        <4> HIDE DEF q
        <4>2. QED BY <1>0, <3>1, <4>1, RevokeEmpties
      <3>2. CASE unchanged
        BY <1>2, <3>2 DEF unchanged
      <3>3. QED BY <2>3, <3>1, <3>2 DEF RevokePrincipalByLinkedGrant, clean
    <2>4. QED BY <2>1, <2>2, <2>3
  <1>8. ASSUME OrdinaryRequest PROVE kept
    <2>1. PICK t \in ClockReadings, pair \in delivered, res \in {"active", "revoked"} :
           CheckAccess(pair, t, res)
      BY <1>8 DEF OrdinaryRequest
    <2>2. CASE commit(clean(t))
      BY <1>1, <2>2 DEF commit
    <2>3. QED BY <1>2, <2>1, <2>2 DEF CheckAccess, unchanged, clean
  <1>9. ASSUME Alarm PROVE kept
    <2>1. now \in ClockReadings
      BY ControlAssumption DEF ClockReadings, Inv, A!IInv, A!TypeOK
    <2>2. stored' = clean(now)
      BY <1>9 DEF Alarm, AlarmFires, clean
    <2>3. QED BY <1>1, <2>1, <2>2
  <1>10. Tick \/ UNCHANGED vars => UNCHANGED stored
    BY DEF Tick, vars
  <1>11. ASSUME NEW r \in Req, Login(r) \/ UpstreamLoginSucceeds(r) \/ UpstreamLoginFails(r)
                               \/ CallFails(r) \/ Crash(r)
         PROVE  UNCHANGED stored
    BY <1>11 DEF Login, UpstreamLoginSucceeds, UpstreamLoginFails, CallFails, Crash
  <1>12. QED BY <1>2, <1>3, <1>4, <1>5, <1>6, <1>7, <1>8, <1>9, <1>10, <1>11 DEF Next, Handle

\* LostRefreshCanLogOut is inductive: completeRefresh writes the link and
\* every later step keeps it.
LEMMA LostStays ==
    ASSUME Inv, LostRefreshCanLogOut, [Next]_vars
    PROVE  LostRefreshCanLogOut'
  <1> SUFFICES ASSUME NEW r \in Req, req'[r].pair # None, req'[r].next # None,
                      stored' # None, stored'.active = req'[r].next,
                      req'[r].pair.grantExpiresAt > now' + MaxSkew
               PROVE  LET tombstone == stored'.revokedGrants[req'[r].pair.grantId]
                      IN  /\ exactlyLinksGrantTombstone(tombstone, req'[r].pair)
                          /\ tombstone.refreshSuccessor = stored'.active
    BY DEF LostRefreshCanLogOut, isActive, exactlyLinksGrantTombstone
  <1>1. req'[r].next \in issued'
    BY GoodStep DEF A!GoodStep, A!IInv, A!GoodRecord, A!Linked
  <1>2. NextKeptBy(r)
    BY <1>1, NextKept
  <1> DEFINE old == req[r].pair
             next == req[r].next
             tomb == stored.revokedGrants[old.grantId]
  <1>3. /\ req'[r].pair = old /\ req'[r].next = next /\ old # None /\ next # None
        /\ HandlerOK(r, req[r]) /\ old \in issued /\ old \in LinkedPair
        /\ old.grantId \in Id /\ old.grantExpiresAt \in Nat
        /\ now \in Nat /\ MaxSkew \in Nat /\ now' \in {now, now + 1}
    <2>1. req'[r].pair = old /\ req'[r].next = next /\ old # None /\ next # None
      BY <1>2 DEF NextKeptBy
    <2>2. HandlerOK(r, req[r]) /\ old \in issued
      BY <2>1 DEF Inv, FlowInv, HandlerOK
    <2>3. old \in LinkedPair /\ now \in Nat
      BY <2>2, SameTypes DEF Inv, A!IInv, A!TypeOK
    <2>4. QED BY <2>1, <2>2, <2>3, NowMoves, ControlAssumption DEF LinkedPair
  <1>4. CASE next \in issued
    <2>1. stored # None /\ stored.active = next
      BY <1>3, <1>4, GoodStep DEF A!GoodStep, A!NoResurrectionStep
    <2>2. old.grantExpiresAt > now + MaxSkew
      BY <1>3
    <2>3. exactlyLinksGrantTombstone(tomb, old) /\ tomb.refreshSuccessor = next
      BY <1>3, <2>1, <2>2 DEF LostRefreshCanLogOut, isActive
    <2>4. tomb # None /\ tomb.grantExpiresAt > now + MaxSkew
      BY <2>2, <2>3 DEF exactlyLinksGrantTombstone
    <2>5. stored'.revokedGrants[old.grantId] = tomb
      BY <1>3, <1>4, <2>1, <2>4, KeepsLinks
    <2>6. QED BY <1>3, <2>3, <2>5
  <1>5. CASE Complete(r) /\ issued' # issued
    <2>1. stored'.revokedGrants[old.grantId] = refreshSuccessorGrantTombstone(old, next)
      BY <1>5, Completed
    <2> DEFINE g == refreshSuccessorGrantTombstone(old, next)
    <2>2. exactlyLinksGrantTombstone(g, old) /\ g.refreshSuccessor = next
      <3>1. g \in LinkedGrantTombstone
        <4>1. next \in LinkedPair
          BY <1>3 DEF Inv, FlowInv, Handler
        <4>2. QED BY <1>3, <4>1
             
                DEF refreshSuccessorGrantTombstone, linkedGrantTombstone, LinkedGrantTombstone, LinkedPair
      <3>2. QED BY <3>1, NoneAssumption
            DEF refreshSuccessorGrantTombstone, linkedGrantTombstone, exactlyLinksGrantTombstone
    <2>3. QED BY <1>3, <2>1, <2>2
  <1>6. QED BY <1>2, <1>4, <1>5 DEF NextKeptBy

\* LostRefreshCanLogOut for every number of requests, every clock skew and
\* every limit: a client that holds only the replaced pair can still log out.
THEOREM LostRefresh == Spec => []LostRefreshCanLogOut
  <1>1. Init => LostRefreshCanLogOut
    BY DEF Init, Idle, LostRefreshCanLogOut
  <1>2. Inv /\ LostRefreshCanLogOut /\ [Next]_vars => LostRefreshCanLogOut'
    BY LostStays
  <1>3. QED BY <1>1, <1>2, FlowInvariant, PTL DEF Spec

----------------------------------------------------------------------------
(* The attempt window counts every login on the stored password           *)

\* The attempt window as an operation reads it: a new one if the stored one
\* is over.
WindowNow == cleanVnuRefreshState(stored, now).window

\* The step writes the window w, or deletes a record that had counted
\* nothing.
Recounted(w) == \/ stored' = None /\ w.count = 0
                \/ stored' # None /\ stored'.window = w

\* Writing a record with the window as read recounts nothing.
LEMMA CommitCounts ==
    ASSUME NEW s, s.window = WindowNow, s # None, commit(s)
    PROVE  Recounted(WindowNow)
  BY DEF commit, isQuiescentVnuRefreshState, Recounted

\* An exact revocation leaves the window alone.
LEMMA RevokeCounts ==
    ASSUME NEW s \in VnuRefreshControlState, NEW p \in LinkedPair,
           NEW g \in LinkedGrantTombstone
    PROVE  revokeExact(s, p, g).window = s.window /\ revokeExact(s, p, g) \in VnuRefreshControlState
  <1> DEFINE l == IF leasedFor(s, p) THEN None ELSE s.lease
             a == [s.revokedAccess EXCEPT ![p.accessTokenId] = p.accessExpiresAt]
             b == [s.revokedGrants EXCEPT ![p.grantId] = g]
  <1>1. /\ l \in RefreshLease \cup {None} /\ a \in [Id -> Nat]
        /\ b \in [Id -> LinkedGrantTombstone \cup {None}]
    BY DEF VnuRefreshControlState, LinkedPair
  <1>2. revokeExact(s, p, g) = [s EXCEPT !.active = None, !.lease = l,
                                         !.revokedAccess = a, !.revokedGrants = b]
    BY DEF revokeExact, VnuRefreshControlState
  <1> HIDE DEF l, a, b
  <1>3. QED BY <1>1, <1>2 DEF VnuRefreshControlState

\* An accepted beginRefresh counts one more.
LEMMA BeginCounts ==
    ASSUME Inv, MaxSkew = 0, NEW pair \in delivered, BeginRefresh(pair, now, "accepted")
    PROVE  /\ stored' # None /\ stored'.window = [WindowNow EXCEPT !.count = @ + 1]
           /\ now' = now
  <1> DEFINE clean == cleanVnuRefreshState(stored, now)
             l == [pair |-> pair, expiresAt |-> Min({now + LeaseTime, pair.grantExpiresAt})]
             v == [clean.window EXCEPT !.count = @ + 1]
             s == [clean EXCEPT !.lease = l, !.window = v]
  <1>0. now \in Nat /\ ClockReadings = {now} /\ pair \in LinkedPair
    BY SameTypes DEF Inv, FlowInv, A!IInv, A!TypeOK, ClockReadings
  <1>1. clean \in VnuRefreshControlState
    BY <1>0, CleanIsGood
  <1>2. clean.window = WindowNow
    BY DEF WindowNow
  <1>3. commit(s)
    BY DEF BeginRefresh
  <1> HIDE DEF clean
  <1>4. clean.window \in RefreshWindow
    BY <1>1 DEF VnuRefreshControlState
  <1>5. v \in RefreshWindow /\ v.count # 0
    BY <1>4 DEF RefreshWindow
  <1>6. l \in RefreshLease
    <2> DEFINE S == {now + LeaseTime, pair.grantExpiresAt}
    <2>1. S \subseteq Nat /\ S # {}
      BY <1>0, ControlAssumption DEF LinkedPair
    <2>2. A!Min(S) = Min(S)
      BY DEF A!Min, Min
    <2>3. A!Min(S) \in S
      BY <2>1, A!MinOfNats, SameTypes, ControlAssumption, NoneAssumption, FlowAssumption
      DEF A!MinOfNats
    <2> HIDE DEF S
    <2>4. Min(S) \in Nat
      BY <2>1, <2>2, <2>3
    <2>5. QED BY <1>0, <2>4 DEF S, RefreshLease
  <1> HIDE DEF l, v
  <1>7. s \in VnuRefreshControlState /\ s.window = v
    BY <1>1, <1>5, <1>6 DEF VnuRefreshControlState
  <1> HIDE DEF s
  <1>8. stored' = s /\ s # None /\ now' = now
    BY <1>3, <1>5, <1>7, NoneAssumption DEF commit, isQuiescentVnuRefreshState
  <1>9. QED BY <1>2, <1>7, <1>8 DEF v

\* With one clock, every step leaves the record alone, keeps the window as
\* read, or is an accepted beginRefresh that counts one more.
LEMMA WindowStep ==
    ASSUME Inv, MaxSkew = 0, [Next]_vars
    PROVE  \/ UNCHANGED stored
           \/ Recounted(WindowNow) /\ now' = now
           \/ /\ \E r \in Req : BeginRefreshRequest(r)
              /\ now' = now /\ stored' # None /\ stored'.window = [WindowNow EXCEPT !.count = @ + 1]
  <1> DEFINE clean == cleanVnuRefreshState(stored, now)
             fine == \/ UNCHANGED stored
                     \/ Recounted(WindowNow) /\ now' = now
  <1>0. now \in Nat /\ ClockReadings = {now}
    BY DEF Inv, A!IInv, A!TypeOK, ClockReadings
  <1>1. clean \in VnuRefreshControlState
    BY <1>0, CleanIsGood
  <1>2. clean.window = WindowNow
    BY DEF WindowNow
  <1> HIDE DEF clean
  <1>3. ASSUME NEW s \in VnuRefreshControlState, s.window = clean.window, commit(s) PROVE fine
    <2>1. s # None /\ now' = now
      BY <1>3, NoneAssumption DEF commit
    <2>2. QED BY <1>2, <1>3, <2>1, CommitCounts
  <1>4. ASSUME NEW s \in VnuRefreshControlState, s.window = clean.window,
               NEW p \in LinkedPair, commit(revokeExact(s, p, linkedGrantTombstone(p)))
        PROVE  fine
    <2>1. linkedGrantTombstone(p) \in LinkedGrantTombstone
      BY DEF linkedGrantTombstone, LinkedGrantTombstone, LinkedPair
    <2>2. QED BY <1>3, <1>4, <2>1, RevokeCounts
  <1>5. /\ issued \subseteq LinkedPair /\ delivered \subseteq issued
        /\ req \in [Req -> Handler]
    BY SameTypes DEF Inv, FlowInv, A!IInv, A!TypeOK
  <1>6. ASSUME NEW r \in Req, Activate(r) PROVE fine
    <2>1. PICK res : ActivatePair(req[r].next, now, res)
      BY <1>0, <1>6 DEF Activate
    <2>2. req[r].next \in LinkedPair
      BY <1>5, <1>6 DEF Activate, Inv, FlowInv, HandlerOK, Handler
    <2> DEFINE n == req[r].next
               old == IF clean.active \in {None, n} THEN clean
                      ELSE revokeExact(clean, clean.active, linkedGrantTombstone(clean.active))
               w == clean.activationWindow
               v == IF w.count > 0 THEN [w EXCEPT !.count = @ + 1]
                    ELSE [count |-> 1, resetAt |-> now + ActivationWindow]
    <2>3. CASE commit(activatedRecord(clean, n, now))
      <3>1. old \in VnuRefreshControlState /\ old.window = clean.window
        <4>1. CASE clean.active \in {None, n}
          BY <1>1, <4>1
        <4>2. CASE clean.active \notin {None, n}
          <5>1. clean.active \in LinkedPair
            BY <1>1, <4>2 DEF VnuRefreshControlState
          <5>2. linkedGrantTombstone(clean.active) \in LinkedGrantTombstone
            BY <5>1 DEF linkedGrantTombstone, LinkedGrantTombstone, LinkedPair
          <5>3. QED BY <1>1, <4>2, <5>1, <5>2, RevokeCounts
        <4>3. QED BY <4>1, <4>2
      <3>2. v \in RefreshWindow
        <4>1. w \in RefreshWindow
          BY <1>1 DEF VnuRefreshControlState
        <4> HIDE DEF w
        <4>2. QED BY <1>0, <4>1, ControlAssumption DEF RefreshWindow
      <3>3. activatedRecord(clean, n, now)
              = [old EXCEPT !.active = n, !.lease = None, !.activationWindow = v]
        BY DEF activatedRecord
      <3> HIDE DEF old, v
      <3>4. /\ activatedRecord(clean, n, now) \in VnuRefreshControlState
            /\ activatedRecord(clean, n, now).window = clean.window
        BY <2>2, <3>1, <3>2, <3>3 DEF VnuRefreshControlState
      <3>5. QED BY <1>3, <2>3, <3>4
    <2>4. CASE unchanged
      BY <2>4 DEF unchanged
    <2>5. QED BY <2>1, <2>3, <2>4 DEF ActivatePair, clean
  <1>7. ASSUME NEW r \in Req, BeginRefreshRequest(r), ~UNCHANGED stored
        PROVE  now' = now /\ stored' # None /\ stored'.window = [WindowNow EXCEPT !.count = @ + 1]
    <2>1. PICK pair \in delivered,
              res \in {"accepted", "revoked", "in-progress", "rate-limited"} : BeginRefresh(pair, now, res)
      BY <1>0, <1>7 DEF BeginRefreshRequest
    <2>2. res = "accepted"
      BY <1>7, <2>1 DEF BeginRefresh, unchanged
    <2>3. QED BY <2>1, <2>2, BeginCounts
  <1>8. ASSUME NEW r \in Req, Complete(r) PROVE fine
    <2>1. PICK res : CompleteRefresh(req[r].pair, req[r].next, now, res)
      BY <1>0, <1>8 DEF Complete
    <2> DEFINE old == req[r].pair
               next == req[r].next
               g == refreshSuccessorGrantTombstone(old, next)
               s == revokeExact(clean, old, g)
    <2>2. old \in LinkedPair /\ next \in LinkedPair
      BY <1>5, <1>8 DEF Complete, Inv, FlowInv, HandlerOK, Handler
    <2>3. g \in LinkedGrantTombstone
      BY <2>2
      DEF refreshSuccessorGrantTombstone, linkedGrantTombstone, LinkedGrantTombstone, LinkedPair
    <2>4. CASE commit([s EXCEPT !.active = next])
      <3>1. s \in VnuRefreshControlState /\ s.window = clean.window
        BY <1>1, <2>2, <2>3, RevokeCounts
      <3> HIDE DEF s
      <3>2. [s EXCEPT !.active = next] \in VnuRefreshControlState
            /\ [s EXCEPT !.active = next].window = clean.window
        BY <2>2, <3>1 DEF VnuRefreshControlState
      <3>3. QED BY <1>3, <2>4, <3>2
    <2>5. CASE unchanged
      BY <2>5 DEF unchanged
    <2>6. QED BY <2>1, <2>4, <2>5 DEF CompleteRefresh, clean
  <1>9. ASSUME NEW r \in Req, Abort(r) PROVE fine
    <2>1. PICK terminal, res : AbortRefresh(req[r].pair, terminal, now, res)
      BY <1>0, <1>9 DEF Abort
    <2>2. CASE commit([clean EXCEPT !.lease = None])
      <3>1. [clean EXCEPT !.lease = None] \in VnuRefreshControlState
            /\ [clean EXCEPT !.lease = None].window = clean.window
        BY <1>1 DEF VnuRefreshControlState
      <3>2. QED BY <1>3, <2>2, <3>1
    <2>3. CASE /\ clean.active = req[r].pair
               /\ commit(revokeExact(clean, clean.active, linkedGrantTombstone(clean.active)))
      <3>1. req[r].pair \in LinkedPair
        BY <1>5, <1>9 DEF Abort, Inv, FlowInv, HandlerOK, Handler
      <3>2. QED BY <1>1, <1>4, <2>3, <3>1
    <2>4. CASE unchanged
      BY <2>4 DEF unchanged
    <2>5. QED BY <2>1, <2>2, <2>3, <2>4 DEF AbortRefresh, clean
  <1>10. ASSUME NEW r \in Req, Logout(r) PROVE fine
    <2>1. PICK pair \in delivered, res \in {"revoked", "mismatch", "expired"} :
            RevokePrincipalByLinkedGrant(pair, now, res) \/ RevokeLinkedPairByAccess(pair, now, res)
      BY <1>0, <1>10 DEF Logout
    <2>2. pair \in LinkedPair
      BY <1>5
    <2>3. CASE RevokeLinkedPairByAccess(pair, now, res)
      <3>1. CASE commit(revokeExact(clean, pair, linkedGrantTombstone(pair)))
        BY <1>1, <1>4, <2>2, <3>1
      <3>2. CASE unchanged
        BY <3>2 DEF unchanged
      <3>3. QED BY <2>3, <3>1, <3>2 DEF RevokeLinkedPairByAccess, clean
    <2>4. CASE RevokePrincipalByLinkedGrant(pair, now, res)
      <3> DEFINE a == [clean.revokedAccess EXCEPT ![pair.accessTokenId] = pair.accessExpiresAt]
                 b == [clean.revokedGrants EXCEPT ![pair.grantId] = linkedGrantTombstone(pair)]
                 q == [clean EXCEPT
                !.revokedAccess = [@ EXCEPT ![pair.accessTokenId] = pair.accessExpiresAt],
                !.revokedGrants = [@ EXCEPT ![pair.grantId] = linkedGrantTombstone(pair)]]
      <3>1. CASE /\ clean.active # None
                 /\ commit(revokeExact(q, clean.active, linkedGrantTombstone(clean.active)))
        <4>1. linkedGrantTombstone(pair) \in LinkedGrantTombstone
          BY <2>2 DEF linkedGrantTombstone, LinkedGrantTombstone, LinkedPair
        <4>2. a \in [Id -> Nat] /\ b \in [Id -> LinkedGrantTombstone \cup {None}]
          BY <1>1, <2>2, <4>1 DEF VnuRefreshControlState, LinkedPair
        <4>3. q = [clean EXCEPT !.revokedAccess = a, !.revokedGrants = b]
          BY <1>1 DEF VnuRefreshControlState
        <4> HIDE DEF a, b, q
        <4>4. q \in VnuRefreshControlState /\ q.window = clean.window
          BY <1>1, <4>2, <4>3 DEF VnuRefreshControlState
        <4>5. clean.active \in LinkedPair
          BY <1>1, <3>1 DEF VnuRefreshControlState
        <4>6. QED BY <1>4, <3>1, <4>4, <4>5
      <3>2. CASE unchanged
        BY <3>2 DEF unchanged
      <3>3. QED BY <2>4, <3>1, <3>2 DEF RevokePrincipalByLinkedGrant, clean
    <2>5. QED BY <2>1, <2>3, <2>4
  <1>11. ASSUME OrdinaryRequest PROVE fine
    <2>1. PICK pair, res : CheckAccess(pair, now, res)
      BY <1>0, <1>11 DEF OrdinaryRequest
    <2>2. CASE commit(clean)
      BY <1>1, <1>3, <2>2
    <2>3. CASE unchanged
      BY <2>3 DEF unchanged
    <2>4. QED BY <2>1, <2>2, <2>3 DEF CheckAccess, clean
  <1>12. ASSUME Alarm PROVE fine
    <2>1. /\ now' = now
          /\ stored' = IF stored = None \/ isQuiescentVnuRefreshState(clean) THEN None ELSE clean
      BY <1>12 DEF Alarm, AlarmFires, clean
    <2>2. clean # None
      BY <1>1, NoneAssumption
    <2>3. QED BY <1>2, <2>1, <2>2 DEF Recounted, isQuiescentVnuRefreshState
  <1>13. ASSUME NEW r \in Req, Login(r) \/ UpstreamLoginSucceeds(r) \/ UpstreamLoginFails(r)
                               \/ CallFails(r) \/ Crash(r)
         PROVE  UNCHANGED stored
    BY <1>13 DEF Login, UpstreamLoginSucceeds, UpstreamLoginFails, CallFails, Crash
  <1>14. Tick \/ UNCHANGED vars => UNCHANGED stored
    BY DEF Tick, vars
  <1>15. QED BY <1>6, <1>7, <1>8, <1>9, <1>10, <1>11, <1>12, <1>13, <1>14 DEF Next, Handle

\* The requests whose login on the stored password began since the window
\* that ends at resetAt opened.
BeganSince(resetAt) ==
    {r \in Req : req[r].beganAt # None /\ req[r].beganAt + AttemptWindow >= resetAt}

\* The inductive form of RefreshLoginsBounded: a login that began just now is
\* in a window still in force, and a window in force has counted all it saw
\* begin.
CountInv ==
    /\ \A r \in Req : req[r].beganAt # None =>
          /\ req[r].beganAt <= now
          /\ req[r].beganAt = now =>
                stored # None /\ now < stored.window.resetAt /\ stored.window.count > 0
    /\ stored # None /\ now < stored.window.resetAt =>
          /\ IsFiniteSet(BeganSince(stored.window.resetAt))
          /\ Cardinality(BeganSince(stored.window.resetAt)) <= stored.window.count

\* A step forgets a login or keeps its time, unless it is the accepted
\* beginRefresh that begins one.
LEMMA BeganKept ==
    ASSUME Inv, MaxSkew = 0, [Next]_vars
    PROVE  \/ \A x \in Req : req'[x].beganAt \in {req[x].beganAt, None}
           \/ \E r \in Req : /\ BeginRefreshRequest(r) /\ req'[r].beganAt = now
                             /\ now' = now /\ stored' # None
                             /\ stored'.window = [WindowNow EXCEPT !.count = @ + 1]
                             /\ \A x \in Req : x # r => req'[x] = req[x]
  <1>0. ClockReadings = {now} /\ req \in [Req -> Handler]
    BY DEF Inv, FlowInv, A!IInv, A!TypeOK, ClockReadings
  <1>1. ASSUME NEW r \in Req, NEW phase, goto(r, phase)
        PROVE  \A x \in Req : req'[x].beganAt = req[x].beganAt
    BY <1>0, <1>1 DEF goto, Handler
  <1>2. ASSUME NEW r \in Req, Login(r)
        PROVE  \A x \in Req : req'[x].beganAt \in {req[x].beganAt, None}
    BY <1>0, <1>2 DEF Login, Idle
  <1>3. ASSUME NEW r \in Req, Logout(r)
        PROVE  \A x \in Req : req'[x].beganAt \in {req[x].beganAt, None}
    BY <1>0, <1>3 DEF Logout, Idle
  <1>4. ASSUME NEW r \in Req, UpstreamLoginSucceeds(r)
        PROVE  \A x \in Req : req'[x].beganAt = req[x].beganAt
    BY <1>0, <1>4 DEF UpstreamLoginSucceeds, Handler
  <1>5. ASSUME NEW r \in Req, \/ Activate(r) \/ UpstreamLoginFails(r) \/ Complete(r) \/ Abort(r)
                              \/ CallFails(r) \/ Crash(r)
        PROVE  \A x \in Req : req'[x].beganAt = req[x].beganAt
    BY <1>1, <1>5 DEF Activate, UpstreamLoginFails, Complete, Abort, CallFails, Crash
  <1>6. ASSUME OrdinaryRequest \/ Alarm \/ Tick \/ UNCHANGED vars
        PROVE  \A x \in Req : req'[x].beganAt = req[x].beganAt
    BY <1>6 DEF OrdinaryRequest, Alarm, Tick, vars
  <1>7. ASSUME NEW r \in Req, BeginRefreshRequest(r)
        PROVE  /\ \A x \in Req : x # r => req'[x] = req[x]
               /\ \/ req'[r].beganAt = None
                  \/ /\ req'[r].beganAt = now /\ now' = now /\ stored' # None
                     /\ stored'.window = [WindowNow EXCEPT !.count = @ + 1]
    <2>1. PICK pair \in delivered, res \in {"accepted", "revoked", "in-progress", "rate-limited"} :
        /\ BeginRefresh(pair, now, res)
        /\ \E phase \in IF res = "accepted" THEN {"login", "failed"} ELSE {"failed"} :
             req' = [req EXCEPT ![r] =
                [Idle EXCEPT !.phase = phase, !.pair = pair, !.root = rootOf(pair),
                             !.beganAt = IF phase = "login" THEN now ELSE None]]
      BY <1>0, <1>7 DEF BeginRefreshRequest
    <2>2. PICK phase \in IF res = "accepted" THEN {"login", "failed"} ELSE {"failed"} :
             req' = [req EXCEPT ![r] =
                [Idle EXCEPT !.phase = phase, !.pair = pair, !.root = rootOf(pair),
                             !.beganAt = IF phase = "login" THEN now ELSE None]]
      BY <2>1
    <2>3. /\ \A x \in Req : x # r => req'[x] = req[x]
          /\ req'[r].beganAt = IF phase = "login" THEN now ELSE None
      BY <1>0, <2>2 DEF Idle
    <2>4. CASE res = "accepted"
      BY <2>1, <2>3, <2>4, BeginCounts
    <2>5. CASE res # "accepted"
      BY <2>2, <2>3, <2>5
    <2>6. QED BY <2>4, <2>5, <2>3
  <1>8. QED BY <1>2, <1>3, <1>4, <1>5, <1>6, <1>7 DEF Next, Handle

\* CountInv is inductive, with one clock.
LEMMA CountStays ==
    ASSUME Inv, MaxSkew = 0, CountInv, [Next]_vars
    PROVE  CountInv'
  <1> DEFINE w == WindowNow
             kept == stored # None /\ now < stored.window.resetAt
  <1>0. /\ now \in Nat /\ now' \in {now, now + 1} /\ req \in [Req -> Handler]
        /\ \A r \in Req : req[r].beganAt \in Nat \cup {None}
        /\ AttemptWindow \in Nat \ {0} /\ None \notin Nat
    BY NowMoves, ControlAssumption, NoneAssumption DEF Inv, FlowInv, A!IInv, A!TypeOK, Handler
  <1>1. w \in RefreshWindow
    <2>1. now \in ClockReadings
      BY <1>0 DEF ClockReadings
    <2>2. QED BY <2>1, CleanIsGood DEF WindowNow, VnuRefreshControlState
  <1>2. w = IF kept THEN stored.window ELSE [count |-> 0, resetAt |-> now + AttemptWindow]
    <2>1. stored # None => stored.window.resetAt \in Nat
      BY SameTypes DEF Inv, A!IInv, A!TypeOK, VnuRefreshControlState, RefreshWindow
    <2>2. QED BY <1>0, <2>1 DEF WindowNow, cleanVnuRefreshState, cleanRecord, emptyState
  <1>3. /\ now < w.resetAt /\ IsFiniteSet(BeganSince(w.resetAt))
        /\ Cardinality(BeganSince(w.resetAt)) <= w.count
        /\ \A r \in Req : req[r].beganAt = now => w.count > 0
    <2>1. CASE kept
      <3>1. w = stored.window
        BY <1>2, <2>1
      <3> HIDE DEF w
      <3>2. QED BY <1>0, <2>1, <3>1 DEF CountInv
    <2>2. CASE ~kept
      <3>1. BeganSince(w.resetAt) = {}
        <4> SUFFICES ASSUME NEW r \in Req, req[r].beganAt # None,
                            req[r].beganAt + AttemptWindow >= w.resetAt
                     PROVE  FALSE
          BY DEF BeganSince
        <4>1. req[r].beganAt \in Nat /\ req[r].beganAt <= now /\ req[r].beganAt # now
          BY <1>0, <2>2 DEF CountInv
        <4>2. QED BY <1>0, <1>2, <2>2, <4>1
      <3>2. \A r \in Req : req[r].beganAt # now
        BY <1>0, <2>2 DEF CountInv
      <3>3. now < w.resetAt /\ w.count = 0
        BY <1>0, <1>2, <2>2
      <3> HIDE DEF w
      <3>4. Cardinality(BeganSince(w.resetAt)) = 0 /\ IsFiniteSet(BeganSince(w.resetAt))
        BY <3>1, FS_EmptySet
      <3>5. QED BY <3>2, <3>3, <3>4
    <2>3. QED BY <2>1, <2>2
  <1> HIDE DEF w, kept
  <1> DEFINE N(e) == {r \in Req : req'[r].beganAt # None /\ req'[r].beganAt + AttemptWindow >= e}
             earlier == \A r \in Req : req'[r].beganAt # None =>
                /\ req'[r].beganAt <= now'
                /\ req'[r].beganAt = now' =>
                     stored' # None /\ now' < stored'.window.resetAt /\ stored'.window.count > 0
             counted == stored' # None /\ now' < stored'.window.resetAt =>
                /\ IsFiniteSet(N(stored'.window.resetAt))
                /\ Cardinality(N(stored'.window.resetAt)) <= stored'.window.count
  <1>4. SUFFICES earlier /\ counted
    BY DEF CountInv, BeganSince
  <1>5. CASE \A x \in Req : req'[x].beganAt \in {req[x].beganAt, None}
    <2>1. ASSUME NEW e, IsFiniteSet(BeganSince(e))
          PROVE  IsFiniteSet(N(e)) /\ Cardinality(N(e)) <= Cardinality(BeganSince(e))
      <3> DEFINE T == N(e)
      <3>1. T \in SUBSET BeganSince(e)
        BY <1>5 DEF BeganSince
      <3> HIDE DEF T
      <3>2. IsFiniteSet(T) /\ Cardinality(T) <= Cardinality(BeganSince(e))
        BY <2>1, <3>1, FS_Subset
      <3>3. QED BY <3>2 DEF T
    <2>2. ASSUME NEW e, NEW k \in Nat, IsFiniteSet(BeganSince(e)), Cardinality(BeganSince(e)) <= k
          PROVE  IsFiniteSet(N(e)) /\ Cardinality(N(e)) <= k
      <3>1. /\ IsFiniteSet(N(e)) /\ Cardinality(N(e)) <= Cardinality(BeganSince(e))
        BY <2>1, <2>2
      <3>2. Cardinality(N(e)) \in Nat /\ Cardinality(BeganSince(e)) \in Nat
        BY <2>2, <3>1, FS_CardinalityType
      <3> HIDE DEF N
      <3>3. QED BY <2>2, <3>1, <3>2
    <2>3. ASSUME NEW r \in Req, req'[r].beganAt # None
          PROVE  /\ req'[r].beganAt = req[r].beganAt
                 /\ req[r].beganAt \in Nat /\ req[r].beganAt # None /\ req[r].beganAt <= now
      BY <1>0, <1>5, <2>3 DEF CountInv
    <2> HIDE DEF N
    <2>4. CASE UNCHANGED stored
      <3>1. earlier
        <4> SUFFICES ASSUME NEW r \in Req, req'[r].beganAt # None
                     PROVE  /\ req'[r].beganAt <= now'
                            /\ req'[r].beganAt = now' =>
                                 /\ stored' # None /\ now' < stored'.window.resetAt
                                 /\ stored'.window.count > 0
          OBVIOUS
        <4>1. req'[r].beganAt = now' => now' = now
          BY <1>0, <2>3
        <4>2. req'[r].beganAt <= now'
          BY <1>0, <2>3
        <4>3. req[r].beganAt = now =>
                stored # None /\ now < stored.window.resetAt /\ stored.window.count > 0
          BY <2>3 DEF CountInv
        <4>4. QED BY <2>3, <2>4, <4>1, <4>2, <4>3
      <3>2. counted
        <4> SUFFICES ASSUME stored # None, now' < stored.window.resetAt
                     PROVE  /\ IsFiniteSet(N(stored.window.resetAt))
                            /\ Cardinality(N(stored.window.resetAt)) <= stored.window.count
          BY <2>4
        <4>1. stored.window.resetAt \in Nat /\ stored.window.count \in Nat
          BY SameTypes DEF Inv, A!IInv, A!TypeOK, VnuRefreshControlState, RefreshWindow
        <4>2. now < stored.window.resetAt
          BY <1>0, <4>1
        <4>3. /\ IsFiniteSet(BeganSince(stored.window.resetAt))
              /\ Cardinality(BeganSince(stored.window.resetAt)) <= stored.window.count
          BY <4>2 DEF CountInv
        <4>4. QED BY <2>2, <4>1, <4>3
      <3>3. QED BY <3>1, <3>2
    <2>5. ASSUME NEW k \in Nat, k >= w.count, now' = now,
                 stored' = None => w.count = 0,
                 stored' # None => stored'.window.resetAt = w.resetAt /\ stored'.window.count = k
          PROVE  earlier /\ counted
      <3>1. w.count \in Nat /\ w.resetAt \in Nat
        BY <1>1 DEF RefreshWindow
      <3>2. earlier
        BY <1>0, <1>3, <2>3, <2>5, <3>1
      <3>3. Cardinality(BeganSince(w.resetAt)) \in Nat
        BY <1>3, FS_CardinalityType
      <3>4. Cardinality(BeganSince(w.resetAt)) <= k
        BY <1>3, <2>5, <3>1, <3>3
      <3>5. IsFiniteSet(N(w.resetAt)) /\ Cardinality(N(w.resetAt)) <= k
        BY <1>3, <2>2, <2>5, <3>4
      <3>6. QED BY <2>5, <3>2, <3>5
    <2> HIDE DEF earlier, counted
    <2>6. CASE Recounted(w) /\ now' = now
      <3>1. w.count \in Nat /\ w.count >= w.count
        BY <1>1 DEF RefreshWindow
      <3>2. QED BY <2>5, <2>6, <3>1 DEF Recounted
    <2>7. CASE now' = now /\ stored' # None /\ stored'.window = [w EXCEPT !.count = @ + 1]
      <3>1. /\ w.count + 1 \in Nat /\ w.count + 1 >= w.count
            /\ stored'.window.resetAt = w.resetAt /\ stored'.window.count = w.count + 1
        BY <1>1, <2>7 DEF RefreshWindow
      <3>2. QED BY <2>5, <2>7, <3>1
    <2>8. QED BY <2>4, <2>6, <2>7, WindowStep DEF w
  <1>6. CASE \E r \in Req : /\ BeginRefreshRequest(r) /\ req'[r].beganAt = now
                            /\ now' = now /\ stored' # None
                            /\ stored'.window = [WindowNow EXCEPT !.count = @ + 1]
                            /\ \A x \in Req : x # r => req'[x] = req[x]
    <2>1. PICK r \in Req : /\ req'[r].beganAt = now /\ now' = now /\ stored' # None
                           /\ stored'.window = [w EXCEPT !.count = @ + 1]
                           /\ \A x \in Req : x # r => req'[x] = req[x]
      BY <1>6 DEF w
    <2> DEFINE B == BeganSince(w.resetAt)
    <2>2. /\ w.count \in Nat /\ w.resetAt \in Nat
          /\ stored'.window.resetAt = w.resetAt /\ stored'.window.count = w.count + 1
      BY <1>1, <2>1 DEF RefreshWindow
    <2>3. earlier
      BY <1>0, <1>3, <2>1, <2>2 DEF CountInv
    <2>4. N(w.resetAt) \in SUBSET (B \cup {r})
      BY <2>1 DEF BeganSince
    <2> HIDE DEF B, N
    <2>5. IsFiniteSet(B) /\ Cardinality(B) <= w.count /\ Cardinality(B) \in Nat
      BY <1>3, FS_CardinalityType DEF B
    <2>6. IsFiniteSet(B \cup {r}) /\ Cardinality(B \cup {r}) <= Cardinality(B) + 1
      <3>1. CASE r \in B
        <4>1. B \cup {r} = B
          BY <3>1
        <4>2. QED BY <2>5, <4>1
      <3>2. CASE r \notin B
        BY <2>5, <3>2, FS_AddElement
      <3>3. QED BY <3>1, <3>2
    <2>7. IsFiniteSet(N(w.resetAt)) /\ Cardinality(N(w.resetAt)) <= Cardinality(B \cup {r})
      BY <2>4, <2>6, FS_Subset
    <2>8. Cardinality(N(w.resetAt)) <= w.count + 1
      <3>1. Cardinality(N(w.resetAt)) \in Nat /\ Cardinality(B \cup {r}) \in Nat
        BY <2>6, <2>7, FS_CardinalityType
      <3>2. QED BY <2>2, <2>5, <2>6, <2>7, <3>1
    <2>9. counted
      BY <2>2, <2>7, <2>8
    <2>10. QED BY <2>3, <2>9
  <1>7. QED BY <1>5, <1>6, BeganKept

\* RefreshLoginsBounded for every number of requests and every limit, when
\* all readings come from one clock, the Durable Object's.
THEOREM LoginsBounded == ASSUME MaxSkew = 0 PROVE Spec => []RefreshLoginsBounded
  <1>1. ASSUME Init PROVE CountInv
    BY <1>1, NoneAssumption DEF Init, CountInv, Idle
  <1>2. Inv /\ Inv' /\ CountInv /\ [Next]_vars => CountInv'
    BY CountStays
  <1>3. Inv /\ CountInv => RefreshLoginsBounded
    <2> SUFFICES ASSUME Inv, CountInv, stored # None, now < stored.window.resetAt
                 PROVE  /\ Cardinality(BeganSince(stored.window.resetAt)) <= stored.window.count
                        /\ stored.window.count <= AttemptLimit
      BY DEF RefreshLoginsBounded, BeganSince
    <2>1. Cardinality(BeganSince(stored.window.resetAt)) <= stored.window.count
      BY DEF CountInv
    <2>2. stored.window.count <= AttemptLimit
      BY DEF Inv, A!IInv, A!GoodRecord, A!parses
    <2>3. QED BY <2>1, <2>2
  <1>4. QED BY <1>1, <1>2, <1>3, FlowInvariant, PTL DEF Spec

=============================================================================
