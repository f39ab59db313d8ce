--------------------- MODULE VnuRefreshAuthorityProofs ---------------------
(***************************************************************************)
(* Theorems about the authority's record in either kind of store, for any  *)
(* limits, windows, lifetimes, clock skew, number of identifiers and       *)
(* length of the run. Where onRedis is false the steps are those of        *)
(* VnuRefreshAuthority.                                                    *)
(***************************************************************************)
EXTENDS VnuRefreshRedis, VnuRefreshPostgres, WellFoundedInduction, TLAPS

----------------------------------------------------------------------------
(* The inductive invariant                                                 *)

\* No two issued pairs share an identifier.
DistinctPairs(I) ==
    \A p, q \in I : (p.accessTokenId = q.accessTokenId \/ p.grantId = q.grantId) => p = q

\* What a record mentions was issued, with the expiry it had then.
Linked(s, I) ==
    /\ s.active # None => s.active \in I
    /\ \A i \in Id : s.revokedAccess[i] # 0 =>
          \E p \in I : p.accessTokenId = i /\ p.accessExpiresAt = s.revokedAccess[i]
    /\ \A i \in Id : s.revokedGrants[i] # None =>
          \E p \in I : p.grantId = i /\ p.grantExpiresAt = s.revokedGrants[i].grantExpiresAt

\* IssuedPairsAccounted for the record s; Redis may have forgotten a pair.
Accounted(s, I) ==
    onRedis \/ \A p \in I : p.grantExpiresAt > now + MaxSkew =>
        s.active = p \/ s.revokedGrants[p.grantId] # None

GoodRecord(s, I) ==
    s \in VnuRefreshControlState /\ parses(s) /\ Linked(s, I) /\ Accounted(s, I)

IInv ==
    /\ TypeOK
    /\ DistinctPairs(issued)
    /\ stored # None => GoodRecord(stored, issued)
    /\ stored = None => onRedis \/ \A p \in issued : p.grantExpiresAt <= now + MaxSkew

\* s keeps the tombstones of the stored record that have not expired ...
KeepsTombstones(s) ==
    stored # None =>
        \A i \in Id :
            /\ stored.revokedGrants[i] # None
               /\ stored.revokedGrants[i].grantExpiresAt > now + MaxSkew
               => /\ s.revokedGrants[i] # None
                  /\ s.revokedGrants[i].grantExpiresAt = stored.revokedGrants[i].grantExpiresAt
            /\ stored.revokedAccess[i] > now + MaxSkew
               => s.revokedAccess[i] = stored.revokedAccess[i]

\* ... and does not bring an issued pair back.
NoReturn(s) ==
    \A p \in issued : s.active = p => stored # None /\ stored.active = p

\* A record an operation may commit, I being the pairs issued after it.
Evolves(s, I) == GoodRecord(s, I) /\ KeepsTombstones(s) /\ NoReturn(s)

----------------------------------------------------------------------------
(* Lemmas about the helpers                                                *)

\* A transaction reads a time at most the skew ahead of real time.
LEMMA ClockReadingIsNat ==
    ASSUME now \in Nat, NEW t \in ClockReadings
    PROVE  t \in Nat /\ t <= now + MaxSkew
  BY ControlAssumption DEF ClockReadings

\* Cleaning keeps a record readable and every entry that has not expired.
LEMMA CleanEvolves ==
    ASSUME IInv, NEW t \in ClockReadings
    PROVE  Evolves(cleanVnuRefreshState(stored, t), issued)
  <1>0. t \in Nat /\ t <= now + MaxSkew /\ MaxSkew \in Nat /\ now \in Nat
    BY ClockReadingIsNat, ControlAssumption DEF IInv, TypeOK
  <1>1. CASE stored = None
    <2> DEFINE e == emptyState(t)
    <2>1. e \in VnuRefreshControlState
      BY <1>0, ControlAssumption
      DEF emptyState, VnuRefreshControlState, RefreshWindow, NoWindow
    <2>2. parses(e)
      BY <1>0, ControlAssumption DEF emptyState, parses, NoWindow
    <2>3. Linked(e, issued) /\ Accounted(e, issued) /\ KeepsTombstones(e) /\ NoReturn(e)
      BY <1>0, <1>1, NoneAssumption
      DEF emptyState, Linked, Accounted, KeepsTombstones, NoReturn, IInv, TypeOK, LinkedPair
    <2>4. QED
      BY <1>1, <2>1, <2>2, <2>3 DEF cleanVnuRefreshState, Evolves, GoodRecord
  <1>2. CASE stored # None
    <2> DEFINE c == cleanRecord(stored, t)
    <2>0. stored \in VnuRefreshControlState /\ GoodRecord(stored, issued)
      BY <1>2 DEF IInv, GoodRecord
    <2>1. c \in VnuRefreshControlState
      BY <1>0, <2>0, ControlAssumption
      DEF cleanRecord, VnuRefreshControlState, RefreshWindow, NoWindow,
          livePair, liveLease, liveTombstone
    <2>2. parses(c)
      BY <1>0, <2>0, ControlAssumption
      DEF cleanRecord, parses, GoodRecord, untombstoned, NoWindow,
          livePair, liveLease, liveTombstone, VnuRefreshControlState, LinkedPair,
          RefreshLease, RefreshWindow
    <2>3. Linked(c, issued)
      BY <1>0, <2>0 DEF cleanRecord, GoodRecord, Linked, livePair, liveTombstone
    <2>4. Accounted(c, issued)
      <3> SUFFICES ASSUME ~onRedis, NEW p \in issued, p.grantExpiresAt > now + MaxSkew
                   PROVE  c.active = p \/ c.revokedGrants[p.grantId] # None
        BY DEF Accounted
      <3>1. p \in LinkedPair /\ p # None /\ p.grantExpiresAt > t /\ p.grantId \in Id
        BY <1>0, NoneAssumption DEF IInv, TypeOK, LinkedPair
      <3>2. CASE stored.active = p
        BY <3>1, <3>2 DEF cleanRecord, livePair
      <3>3. CASE stored.active # p
        <4>1. stored.revokedGrants[p.grantId] # None
          BY <2>0, <3>3 DEF GoodRecord, Accounted
        <4>2. PICK q \in issued : q.grantId = p.grantId
                 /\ q.grantExpiresAt = stored.revokedGrants[p.grantId].grantExpiresAt
          BY <2>0, <3>1, <4>1 DEF GoodRecord, Linked
        <4>3. q = p
          BY <4>2 DEF IInv, DistinctPairs
        <4>4. QED
          BY <3>1, <4>1, <4>2, <4>3 DEF cleanRecord, liveTombstone
      <3>4. QED BY <3>2, <3>3
    <2>5. KeepsTombstones(c)
      BY <1>0, <2>0
      DEF cleanRecord, KeepsTombstones, liveTombstone, VnuRefreshControlState,
          LinkedGrantTombstone
    <2>6. NoReturn(c)
      BY <1>2, NoneAssumption DEF cleanRecord, NoReturn, livePair, IInv, TypeOK
    <2>7. QED
      BY <1>2, <2>1, <2>2, <2>3, <2>4, <2>5, <2>6
      DEF cleanVnuRefreshState, Evolves, GoodRecord
  <1>3. QED BY <1>1, <1>2

\* A tombstone that is right for pair.
TombstoneFor(tomb, pair) ==
    /\ tomb \in LinkedGrantTombstone
    /\ tomb.grantExpiresAt = pair.grantExpiresAt
    /\ tomb.refreshSuccessor # None =>
          /\ tomb.refreshSuccessor.accessTokenId # tomb.accessTokenId
          /\ tomb.refreshSuccessor.grantId # pair.grantId
          /\ tomb.refreshSuccessor.grantExpiresAt = tomb.grantExpiresAt

\* The tombstone of a revocation fits its pair.
LEMMA PlainTombstone ==
    ASSUME NEW pair \in LinkedPair
    PROVE  TombstoneFor(linkedGrantTombstone(pair), pair)
  BY DEF TombstoneFor, linkedGrantTombstone, LinkedPair, LinkedGrantTombstone

\* The tombstone of a rotation fits the pair it replaced.
LEMMA SuccessorTombstone ==
    ASSUME NEW old \in LinkedPair, NEW next \in LinkedPair,
           next.grantExpiresAt = old.grantExpiresAt,
           next.accessTokenId # old.accessTokenId, next.grantId # old.grantId
    PROVE  TombstoneFor(refreshSuccessorGrantTombstone(old, next), old)
  BY DEF TombstoneFor, refreshSuccessorGrantTombstone, linkedGrantTombstone, LinkedPair,
         LinkedGrantTombstone

\* Revoking the active pair of a record leaves a good record without an
\* active pair and without a lease.
LEMMA RevokeEvolves ==
    ASSUME IInv, NEW s, Evolves(s, issued), s.active # None,
           NEW tomb, TombstoneFor(tomb, s.active)
    PROVE  LET r == revokeExact(s, s.active, tomb)
           IN  Evolves(r, issued) /\ r.active = None /\ r.lease = None
  <1> DEFINE a == s.active
             r == revokeExact(s, a, tomb)
  <1>0. /\ s \in VnuRefreshControlState /\ parses(s) /\ Linked(s, issued)
        /\ Accounted(s, issued) /\ KeepsTombstones(s) /\ NoReturn(s)
    BY DEF Evolves, GoodRecord
  <1>1. a \in LinkedPair /\ a \in issued
    BY <1>0 DEF VnuRefreshControlState, Linked
  <1>2. tomb \in LinkedGrantTombstone /\ tomb # None
    BY NoneAssumption DEF TombstoneFor
  <1>3. s.lease # None => s.lease.pair = a
    BY <1>0 DEF parses
  <1>4. /\ r.active = None /\ r.lease = None
        /\ r.window = s.window /\ r.activationWindow = s.activationWindow
        /\ r.revokedAccess = [s.revokedAccess EXCEPT ![a.accessTokenId] = a.accessExpiresAt]
        /\ r.revokedGrants = [s.revokedGrants EXCEPT ![a.grantId] = tomb]
    BY <1>0, <1>3 DEF revokeExact, leasedFor, VnuRefreshControlState
  <1>5. r \in VnuRefreshControlState
    BY <1>0, <1>1, <1>2, <1>3
    DEF revokeExact, leasedFor, VnuRefreshControlState, LinkedPair
  <1>6. parses(r)
    BY <1>0, <1>1, <1>4
    DEF parses, TombstoneFor, VnuRefreshControlState, LinkedPair
  <1>7. Linked(r, issued)
    BY <1>0, <1>1, <1>4 DEF Linked, TombstoneFor, VnuRefreshControlState, LinkedPair
  <1>8. Accounted(r, issued)
    BY <1>0, <1>1, <1>2, <1>4
    DEF Accounted, VnuRefreshControlState, LinkedPair, IInv, TypeOK
  <1>9. KeepsTombstones(r)
    <2>1. s.revokedAccess[a.accessTokenId] = 0 /\ s.revokedGrants[a.grantId] = None
      BY <1>0 DEF parses, untombstoned
    <2>2. SUFFICES ASSUME stored # None, NEW i \in Id
                   PROVE  /\ stored.revokedGrants[i] # None
                             /\ stored.revokedGrants[i].grantExpiresAt > now + MaxSkew
                             => /\ r.revokedGrants[i] # None
                                /\ r.revokedGrants[i].grantExpiresAt
                                      = stored.revokedGrants[i].grantExpiresAt
                          /\ stored.revokedAccess[i] > now + MaxSkew
                             => r.revokedAccess[i] = stored.revokedAccess[i]
      BY DEF KeepsTombstones
    <2>3. stored.revokedAccess[i] > now + MaxSkew => stored.revokedAccess[i] # 0
      BY ControlAssumption, <2>2 DEF IInv, TypeOK, VnuRefreshControlState
    <2>4. QED
      BY <1>0, <1>4, <2>1, <2>2, <2>3 DEF KeepsTombstones, VnuRefreshControlState
  <1>10. NoReturn(r)
    BY <1>4, NoneAssumption DEF NoReturn, IInv, TypeOK
  <1>11. QED
    BY <1>4, <1>5, <1>6, <1>7, <1>8, <1>9, <1>10 DEF Evolves, GoodRecord

\* The counters of a record that parses.
WindowFits(w) == w.count <= AttemptLimit /\ w.resetAt > 0

ActivationFits(w) == w # NoWindow => w.count \in 1..ActivationLimit /\ w.resetAt > 0

\* Changing the lease and the counters within their limits keeps a record good.
LEMMA UpdateEvolves ==
    ASSUME NEW I, NEW s, Evolves(s, I), NEW u \in VnuRefreshControlState,
           u.active = s.active, u.revokedAccess = s.revokedAccess,
           u.revokedGrants = s.revokedGrants,
           WindowFits(u.window), ActivationFits(u.activationWindow),
           u.lease # None => /\ u.lease.pair = u.active
                             /\ u.lease.expiresAt > 0
                             /\ u.lease.expiresAt <= u.active.grantExpiresAt
    PROVE  Evolves(u, I)
  BY DEF Evolves, GoodRecord, parses, WindowFits, ActivationFits, untombstoned, Linked, Accounted, KeepsTombstones, NoReturn

\* A pair nobody issued before becomes active in a record that has no active
\* pair and no lease.
LEMMA IssueEvolves ==
    ASSUME IInv, NEW s, Evolves(s, issued), s.active = None, s.lease = None,
           NEW p \in LinkedPair, fresh(p.accessTokenId), fresh(p.grantId)
    PROVE  /\ Evolves([s EXCEPT !.active = p], issued \cup {p})
           /\ DistinctPairs(issued \cup {p})
  <1> DEFINE u == [s EXCEPT !.active = p]
  <1>0. /\ s \in VnuRefreshControlState /\ parses(s) /\ Linked(s, issued)
        /\ Accounted(s, issued) /\ KeepsTombstones(s) /\ NoReturn(s)
    BY DEF Evolves, GoodRecord
  <1>1. /\ u \in VnuRefreshControlState /\ u.active = p /\ u.lease = None
        /\ u.revokedAccess = s.revokedAccess /\ u.revokedGrants = s.revokedGrants
        /\ u.window = s.window /\ u.activationWindow = s.activationWindow
    BY <1>0 DEF VnuRefreshControlState
  <1>2. untombstoned(u, p)
    BY <1>0, <1>1 DEF untombstoned, Linked, fresh, LinkedPair
  <1>3. parses(u)
    BY <1>0, <1>1, <1>2 DEF parses
  <1>4. Linked(u, issued \cup {p})
    BY <1>0, <1>1 DEF Linked
  <1>5. Accounted(u, issued \cup {p})
    BY <1>0, <1>1, NoneAssumption DEF Accounted, IInv, TypeOK
  <1>6. KeepsTombstones(u)
    BY <1>0, <1>1 DEF KeepsTombstones
  <1>7. NoReturn(u)
    BY <1>1 DEF NoReturn, fresh
  <1>8. DistinctPairs(issued \cup {p})
    BY DEF DistinctPairs, fresh, IInv
  <1>9. QED
    BY <1>1, <1>3, <1>4, <1>5, <1>6, <1>7, <1>8 DEF Evolves, GoodRecord

\* A non-empty set of naturals has a least element, and Min is it.
LEMMA MinOfNats ==
    ASSUME NEW S, S \subseteq Nat, S # {}
    PROVE  Min(S) \in S /\ \A y \in S : Min(S) <= y
  <1> DEFINE R == {p \in Nat \X Nat : p[1] < p[2]}
  <1>1. IsWellFoundedOn(R, Nat)
    BY NatLessThanWellFounded DEF OpToRel
  <1>2. \E x \in S : \A y \in S : <<y, x>> \notin R
    <2> HIDE DEF R
    <2> QED BY <1>1, WFMin
  <1>3. PICK x \in S : \A y \in S : <<y, x>> \notin R
    BY <1>2
  <1>4. \A y \in S : x <= y
    <2> TAKE y \in S
    <2>1. x \in Nat /\ y \in Nat /\ <<y, x>> \notin R
      BY <1>3
    <2>2. ~(y < x)
      BY <2>1
    <2>3. QED BY <2>1, <2>2
  <1>5. QED
    BY <1>4 DEF Min

\* The alarm that a committed record gets.
AlarmExact ==
    IF HasAlarm /\ stored # None
    THEN alarm \in alarmTimes(stored) /\ \A v \in alarmTimes(stored) : alarm <= v
    ELSE alarm = None

\* Every expiry a record holds is a time.
LEMMA AlarmTimesAreNats ==
    ASSUME NEW s \in VnuRefreshControlState
    PROVE  alarmTimes(s) \subseteq Nat
  BY NoneAssumption
  DEF alarmTimes, VnuRefreshControlState, LinkedPair, LinkedGrantTombstone, RefreshLease,
      RefreshWindow

\* A record worth keeping holds an expiry the alarm can wait for.
LEMMA NonQuiescentHasTimes ==
    ASSUME NEW s \in VnuRefreshControlState, ~isQuiescentVnuRefreshState(s)
    PROVE  alarmTimes(s) # {}
  <1>1. /\ s.window.count # 0 => s.window.count > 0
        /\ s.activationWindow.count # 0 => s.activationWindow.count > 0
    BY DEF VnuRefreshControlState, RefreshWindow
  <1>2. QED
    BY <1>1 DEF isQuiescentVnuRefreshState, alarmTimes

\* nextVnuRefreshAlarm is the least expiry of the record.
LEMMA NextAlarm ==
    ASSUME NEW s \in VnuRefreshControlState
    PROVE  /\ nextVnuRefreshAlarm(s) \in Nat \cup {None}
           /\ ~isQuiescentVnuRefreshState(s) =>
                 /\ nextVnuRefreshAlarm(s) \in alarmTimes(s)
                 /\ \A v \in alarmTimes(s) : nextVnuRefreshAlarm(s) <= v
  BY AlarmTimesAreNats, NonQuiescentHasTimes, MinOfNats DEF nextVnuRefreshAlarm

\* A quiescent record holds no expiry at all.
LEMMA QuiescentHasNoTimes ==
    ASSUME NEW s \in VnuRefreshControlState, isQuiescentVnuRefreshState(s)
    PROVE  nextVnuRefreshAlarm(s) = None
  <1>1. alarmTimes(s) = {}
    BY DEF isQuiescentVnuRefreshState, alarmTimes
  <1>2. QED BY <1>1 DEF nextVnuRefreshAlarm

\* The stored active pair is made active again after it was cleaned away.
LEMMA ReissueEvolves ==
    ASSUME IInv, NEW t \in ClockReadings, NEW p \in issued, stored # None, stored.active = p,
           cleanVnuRefreshState(stored, t).active = None
    PROVE  Evolves([cleanVnuRefreshState(stored, t) EXCEPT !.active = p], issued)
  <1> DEFINE s == cleanVnuRefreshState(stored, t)
             u == [s EXCEPT !.active = p]
  <1>0. /\ s \in VnuRefreshControlState /\ parses(s) /\ Linked(s, issued)
        /\ Accounted(s, issued) /\ KeepsTombstones(s) /\ s.lease = None
        /\ p \in LinkedPair /\ p # None /\ t \in Nat
    <2>1. Evolves(s, issued) /\ s.active = None
      BY CleanEvolves
    <2>2. p \in LinkedPair /\ p # None /\ t \in Nat
      BY NoneAssumption, ClockReadingIsNat DEF IInv, TypeOK
    <2> HIDE DEF s
    <2>3. s.lease = None
      BY <2>1, NoneAssumption DEF Evolves, GoodRecord, parses, VnuRefreshControlState, RefreshLease
    <2>4. QED
      BY <2>1, <2>2, <2>3 DEF Evolves, GoodRecord
  <1>1. /\ u \in VnuRefreshControlState /\ u.active = p /\ u.lease = None
        /\ u.revokedAccess = s.revokedAccess /\ u.revokedGrants = s.revokedGrants
        /\ u.window = s.window /\ u.activationWindow = s.activationWindow
    BY <1>0 DEF VnuRefreshControlState
  <1>2. untombstoned(u, p)
    <2>1. untombstoned(stored, p)
      BY <1>0 DEF IInv, GoodRecord, parses
    <2>2. p.accessTokenId \in Id /\ p.grantId \in Id
      BY <1>0 DEF LinkedPair
    <2>3. untombstoned(cleanRecord(stored, t), p)
      BY <1>0, <2>1, <2>2 DEF untombstoned, cleanRecord, liveTombstone
    <2>4. s = cleanRecord(stored, t)
      BY DEF cleanVnuRefreshState
    <2>5. QED
      BY <1>1, <2>3, <2>4 DEF untombstoned
  <1>3. parses(u)
    BY <1>0, <1>1, <1>2 DEF parses
  <1>4. Linked(u, issued) /\ Accounted(u, issued) /\ KeepsTombstones(u) /\ NoReturn(u)
    <2>1. s.active = None
      OBVIOUS
    <2> HIDE DEF s, u
    <2>2. Linked(u, issued)
      BY <1>0, <1>1 DEF Linked
    <2>3. Accounted(u, issued)
      BY <1>0, <1>1, <2>1, NoneAssumption DEF Accounted, IInv, TypeOK
    <2>4. KeepsTombstones(u)
      BY <1>0, <1>1 DEF KeepsTombstones
    <2>5. NoReturn(u)
      BY <1>1 DEF NoReturn
    <2>6. QED BY <2>2, <2>3, <2>4, <2>5
  <1>5. QED
    BY <1>1, <1>3, <1>4 DEF Evolves, GoodRecord

----------------------------------------------------------------------------
(* Every step preserves the invariant                                      *)

\* The step formulas of the two action properties; a key of Redis that lapses
\* takes its tombstones with it.
NoResurrectionStep ==
    \A p \in issued :
        (stored = None \/ stored.active # p) => (stored' = None \/ stored'.active # p)

TombstonesOutliveGrantsStep ==
    stored # None =>
        \A i \in Id :
            LET g == stored.revokedGrants[i]
            IN  /\ /\ g # None /\ g.grantExpiresAt > now + MaxSkew
                   => /\ stored' # None
                      /\ stored'.revokedGrants[i] # None
                      /\ stored'.revokedGrants[i].grantExpiresAt = g.grantExpiresAt
                /\ stored.revokedAccess[i] > now + MaxSkew
                   => stored' # None /\ stored'.revokedAccess[i] = stored.revokedAccess[i]

GoodStep ==
    /\ IInv' /\ AlarmExact'
    /\ NoResurrectionStep
    /\ (onRedis /\ KeyExpires) \/ TombstonesOutliveGrantsStep

\* A step that leaves the record, its alarm and the issued pairs alone.
LEMMA QuietStep ==
    ASSUME IInv, AlarmExact, UNCHANGED <<stored, alarm, issued, onRedis>>,
           now' \in Nat, now <= now'
    PROVE  GoodStep
  <1>1. now \in Nat /\ now' \in Nat /\ MaxSkew \in Nat
    BY ControlAssumption DEF IInv, TypeOK
  <1>2. \A p \in issued : p.grantExpiresAt \in Nat
    BY DEF IInv, TypeOK, LinkedPair
  <1>3. TypeOK'
    BY DEF IInv, TypeOK
  <1>4. stored' # None => GoodRecord(stored, issued)'
    BY <1>1, <1>2
    DEF IInv, GoodRecord, parses, untombstoned, Linked, Accounted
  <1>5. stored' = None => (onRedis \/ \A p \in issued : p.grantExpiresAt <= now + MaxSkew)'
    BY <1>1, <1>2 DEF IInv
  <1>6. AlarmExact'
    BY DEF AlarmExact, alarmTimes
  <1>7. NoResurrectionStep
    BY DEF NoResurrectionStep
  <1>8. TombstonesOutliveGrantsStep
    <2>1. SUFFICES ASSUME stored # None, NEW i \in Id,
                          stored.revokedAccess[i] > now + MaxSkew
                              \/ stored.revokedGrants[i] # None
                   PROVE  stored' # None
      BY DEF TombstonesOutliveGrantsStep
    <2>2. QED BY <2>1
  <1>9. QED
    BY <1>3, <1>4, <1>5, <1>6, <1>7, <1>8 DEF GoodStep, IInv, DistinctPairs

\* A step that commits a record the helpers' lemmas produced.
LEMMA CommitStep ==
    ASSUME IInv, NEW s, NEW I \in SUBSET LinkedPair, issued' = I,
           Evolves(s, I), DistinctPairs(I),
           stored' = (IF isQuiescentVnuRefreshState(s) THEN None ELSE s),
           alarm' = (IF HasAlarm THEN nextVnuRefreshAlarm(s) ELSE None),
           UNCHANGED <<now, onRedis>>
    PROVE  GoodStep
  <1>0. /\ s \in VnuRefreshControlState /\ GoodRecord(s, I)
        /\ KeepsTombstones(s) /\ NoReturn(s) /\ s # None
        /\ now \in Nat /\ MaxSkew \in Nat
    BY NoneAssumption, ControlAssumption DEF Evolves, GoodRecord, IInv, TypeOK
  <1>1. TypeOK'
    BY <1>0, NextAlarm DEF IInv, TypeOK
  <1>2. stored' # None => GoodRecord(s, I)' /\ stored' = s
    BY <1>0 DEF GoodRecord, parses, untombstoned, Linked, Accounted
  <1>3. stored' = None => (onRedis \/ \A p \in issued : p.grantExpiresAt <= now + MaxSkew)'
    <2>1. SUFFICES ASSUME stored' = None, ~onRedis, NEW p \in I
                   PROVE  p.grantExpiresAt <= now + MaxSkew
      OBVIOUS
    <2>2. isQuiescentVnuRefreshState(s)
      BY <1>0, <2>1
    <2>3. p \in LinkedPair /\ p # None /\ p.grantId \in Id /\ p.grantExpiresAt \in Nat
      BY <2>1, NoneAssumption DEF LinkedPair
    <2>4. s.active # p /\ s.revokedGrants[p.grantId] = None
      BY <2>2, <2>3 DEF isQuiescentVnuRefreshState
    <2>5. QED
      BY <1>0, <2>1, <2>3, <2>4 DEF GoodRecord, Accounted
  <1>4. AlarmExact'
    BY <1>0, <1>2, NextAlarm, QuiescentHasNoTimes DEF AlarmExact, alarmTimes
  <1>5. NoResurrectionStep
    BY <1>0, <1>2 DEF NoResurrectionStep, NoReturn
  <1>6. TombstonesOutliveGrantsStep
    <2>1. SUFFICES ASSUME stored # None, NEW i \in Id
                   PROVE  /\ stored.revokedGrants[i] # None
                             /\ stored.revokedGrants[i].grantExpiresAt > now + MaxSkew
                             => /\ stored' # None
                                /\ stored'.revokedGrants[i] # None
                                /\ stored'.revokedGrants[i].grantExpiresAt
                                      = stored.revokedGrants[i].grantExpiresAt
                          /\ stored.revokedAccess[i] > now + MaxSkew
                             => /\ stored' # None
                                /\ stored'.revokedAccess[i] = stored.revokedAccess[i]
      BY DEF TombstonesOutliveGrantsStep
    <2>2. stored.revokedAccess[i] \in Nat
      BY <2>1 DEF IInv, TypeOK, VnuRefreshControlState
    <2>3. CASE isQuiescentVnuRefreshState(s)
      BY <1>0, <2>1, <2>2, <2>3 DEF isQuiescentVnuRefreshState, KeepsTombstones
    <2>4. CASE ~isQuiescentVnuRefreshState(s)
      BY <1>0, <1>2, <2>1, <2>4 DEF KeepsTombstones
    <2>5. QED BY <2>3, <2>4
  <1>7. QED
    BY <1>0, <1>1, <1>2, <1>3, <1>4, <1>5, <1>6 DEF GoodStep, IInv, DistinctPairs

\* The same for an operation's commit, and for one that writes nothing.
LEMMA Committed ==
    ASSUME IInv, NEW s, NEW I \in SUBSET LinkedPair, issued' = I,
           Evolves(s, I), DistinctPairs(I), commit(s), UNCHANGED onRedis
    PROVE  GoodStep
  BY CommitStep DEF commit

\* A call that writes nothing keeps the invariant and both action properties.
LEMMA Unchanged ==
    ASSUME IInv, AlarmExact, unchanged, UNCHANGED <<issued, onRedis>>
    PROVE  GoodStep
  BY QuietStep DEF unchanged, IInv, TypeOK

\* The base record that an activation starts from, and the fields it ends with.
Superseded(s, pair) ==
    IF s.active \in {None, pair} THEN s
    ELSE revokeExact(s, s.active, linkedGrantTombstone(s.active))

WithActive(b, pair) == [b EXCEPT !.active = pair]

\* The record activatePair writes, field by field.
LEMMA ActivatedFields ==
    ASSUME NEW t \in Nat, NEW s \in VnuRefreshControlState, NEW pair \in LinkedPair,
           s.activationWindow.count < ActivationLimit, ActivationFits(s.activationWindow),
           Superseded(s, pair) \in VnuRefreshControlState
    PROVE  LET r == activatedRecord(s, pair, t)
               u == WithActive(Superseded(s, pair), pair)
           IN  /\ r \in VnuRefreshControlState /\ r.active = u.active
               /\ r.revokedAccess = u.revokedAccess /\ r.revokedGrants = u.revokedGrants
               /\ r.window = u.window /\ r.lease = None
               /\ u.window = Superseded(s, pair).window
               /\ ActivationFits(r.activationWindow)
  <1> DEFINE b == Superseded(s, pair)
             w == s.activationWindow
             v == IF w.count > 0 THEN [w EXCEPT !.count = @ + 1]
                  ELSE [count |-> 1, resetAt |-> t + ActivationWindow]
             r == [b EXCEPT !.active = pair, !.lease = None, !.activationWindow = v]
             u == [b EXCEPT !.active = pair]
  <1>1. v \in RefreshWindow /\ ActivationFits(v)
    <2>1. w \in RefreshWindow
      BY DEF VnuRefreshControlState
    <2> HIDE DEF w
    <2>2. w.count < ActivationLimit /\ ActivationFits(w)
      BY DEF w
    <2>3. QED
      BY <2>1, <2>2, ControlAssumption DEF RefreshWindow, ActivationFits, NoWindow
  <1>2. activatedRecord(s, pair, t) = r
    BY DEF activatedRecord, Superseded
  <1>3. b \in VnuRefreshControlState
    OBVIOUS
  <1> HIDE DEF b, v
  <1>4. /\ r \in VnuRefreshControlState /\ r.active = u.active
        /\ r.revokedAccess = u.revokedAccess /\ r.revokedGrants = u.revokedGrants
        /\ r.window = u.window /\ r.lease = None /\ u.window = b.window
        /\ r.activationWindow = v
    BY <1>1, <1>3 DEF VnuRefreshControlState
  <1>5. u = WithActive(Superseded(s, pair), pair)
    BY DEF WithActive, b
  <1> HIDE DEF u, r
  <1>6. QED BY <1>1, <1>2, <1>4, <1>5 DEF b

\* applyActivatePair: a manual login (or the active pair again) makes a good
\* step.
LEMMA ActivateStep ==
    ASSUME IInv, AlarmExact, Activate, UNCHANGED onRedis
    PROVE  GoodStep
  <1>1. PICK t \in ClockReadings, res \in {"activated", "rate-limited"},
             pair \in {newPair(i, a, g) : i \in {j \in Id : fresh(j)},
                                         a \in AccessExpiries, g \in GrantExpiries}
                      \cup {p \in issued : stored # None /\ stored.active = p} :
           /\ ActivatePair(pair, t, res)
           /\ issued' = IF res = "activated" THEN issued \cup {pair} ELSE issued
    BY DEF Activate
  <1> DEFINE s == cleanVnuRefreshState(stored, t)
             base == Superseded(s, pair)
             result == activatedRecord(s, pair, t)
             J == issued \cup {pair}
  <1>2. \/ stored # None /\ stored.active = pair /\ unchanged
        \/ res = "rate-limited" /\ unchanged
        \/ ~(s.activationWindow.count >= ActivationLimit) /\ res = "activated" /\ commit(result)
    BY <1>1 DEF ActivatePair
  <1>3. issued \subseteq LinkedPair /\ DistinctPairs(issued)
    BY DEF IInv, TypeOK
  <1>4. CASE stored # None /\ stored.active = pair /\ unchanged
    <2>1. GoodRecord(stored, issued)
      BY <1>4 DEF IInv
    <2>2. stored.active \in issued \/ stored.active = None
      BY <2>1 DEF GoodRecord, Linked
    <2>3. pair # None
      BY <1>1, <1>3, NoneAssumption, ControlAssumption, LifeAssumption
      DEF IInv, TypeOK, newPair, LinkedPair, AccessExpiries, GrantExpiries
    <2>4. UNCHANGED issued
      BY <1>1, <1>4, <2>2, <2>3
    <2>5. QED BY <1>4, <2>4, Unchanged
  <1>5. CASE res = "rate-limited" /\ unchanged
    BY <1>1, <1>5, Unchanged
  <1>6. CASE ~(s.activationWindow.count >= ActivationLimit) /\ res = "activated" /\ commit(result)
    <2>0. Evolves(s, issued) /\ s \in VnuRefreshControlState /\ parses(s) /\ Linked(s, issued)
      BY CleanEvolves DEF Evolves, GoodRecord
    <2>1. pair \in LinkedPair /\ pair # None
      BY <1>1, <1>3, NoneAssumption, ControlAssumption, LifeAssumption
      DEF IInv, TypeOK, newPair, LinkedPair, AccessExpiries, GrantExpiries
    <2>2. t \in Nat /\ s.activationWindow.count < ActivationLimit
      <3>1. s.activationWindow.count \in Nat
        BY <2>0 DEF VnuRefreshControlState, RefreshWindow
      <3> HIDE DEF s
      <3>2. QED
        BY <1>6, <3>1, ClockReadingIsNat, ControlAssumption DEF IInv, TypeOK
    <2>3. issued' = J /\ J \in SUBSET LinkedPair
      BY <1>1, <1>3, <1>6, <2>1
    <2>4. \/ s.active = pair
          \/ s.active = None /\ pair \in issued /\ stored # None /\ stored.active = pair
          \/ s.active # pair /\ fresh(pair.accessTokenId) /\ fresh(pair.grantId)
      BY <1>1, <2>1 DEF newPair, fresh, cleanVnuRefreshState, cleanRecord, livePair
    <2>5. /\ base \in VnuRefreshControlState /\ parses(base) /\ DistinctPairs(J)
          /\ Evolves(WithActive(base, pair), J)
      <3>1. CASE s.active = pair
        <4>1. base = s
          BY <3>1 DEF Superseded
        <4>2. J = issued
          BY <2>0, <2>1, <3>1 DEF Linked
        <4> HIDE DEF s, base, J
        <4>3. WithActive(base, pair) = s
          BY <2>0, <3>1, <4>1 DEF VnuRefreshControlState, WithActive
        <4>4. QED BY <1>3, <2>0, <4>1, <4>2, <4>3
      <3>2. CASE s.active = None /\ pair \in issued /\ stored # None /\ stored.active = pair
        <4>1. base = s
          BY <3>2 DEF Superseded
        <4>2. J = issued
          BY <3>2
        <4>3. Evolves(WithActive(s, pair), issued)
          BY <3>2, ReissueEvolves DEF WithActive
        <4> HIDE DEF s, base, J
        <4>4. QED BY <1>3, <2>0, <4>1, <4>2, <4>3
      <3>3. CASE s.active # pair /\ fresh(pair.accessTokenId) /\ fresh(pair.grantId)
        <4>1. base = IF s.active = None THEN s
                     ELSE revokeExact(s, s.active, linkedGrantTombstone(s.active))
          BY <3>3 DEF Superseded
        <4> HIDE DEF s, base
        <4>2. Evolves(base, issued) /\ base.active = None /\ base.lease = None
          <5>1. CASE s.active = None
            BY <2>0, <4>1, <5>1, NoneAssumption
            DEF parses, VnuRefreshControlState, RefreshLease
          <5>2. CASE s.active # None
            <6>1. TombstoneFor(linkedGrantTombstone(s.active), s.active)
              BY <2>0, <5>2, PlainTombstone DEF VnuRefreshControlState
            <6>2. QED BY <2>0, <4>1, <5>2, <6>1, RevokeEvolves
          <5>3. QED BY <5>1, <5>2
        <4>3. QED
          BY <2>1, <3>3, <4>2, IssueEvolves DEF Evolves, GoodRecord, WithActive
      <3>4. QED BY <2>4, <3>1, <3>2, <3>3
    <2> HIDE DEF s, base, result, J
    <2>6. Evolves(result, J)
      <3>1. /\ result \in VnuRefreshControlState
            /\ result.active = WithActive(base, pair).active
            /\ result.revokedAccess = WithActive(base, pair).revokedAccess
            /\ result.revokedGrants = WithActive(base, pair).revokedGrants
            /\ result.window = base.window /\ result.lease = None
            /\ ActivationFits(result.activationWindow)
        <4>1. ActivationFits(s.activationWindow)
          BY <2>0 DEF parses, ActivationFits
        <4>2. QED BY <2>0, <2>1, <2>2, <2>5, <4>1, ActivatedFields DEF base, result
      <3>2. WindowFits(result.window)
        BY <2>5, <3>1 DEF parses, WindowFits
      <3>3. QED BY <2>5, <3>1, <3>2, UpdateEvolves
    <2>7. QED BY <1>6, <2>3, <2>5, <2>6, Committed
  <1>7. QED BY <1>2, <1>4, <1>5, <1>6

\* applyBeginRefresh: taking the lease makes a good step.
LEMMA BeginStep ==
    ASSUME IInv, AlarmExact, Begin, UNCHANGED onRedis
    PROVE  GoodStep
  <1>1. PICK t \in ClockReadings, pair \in issued,
             res \in {"accepted", "revoked", "in-progress", "rate-limited"} :
           BeginRefresh(pair, t, res) /\ UNCHANGED issued
    BY DEF Begin
  <1> DEFINE s == cleanVnuRefreshState(stored, t)
             e == Min({t + LeaseTime, pair.grantExpiresAt})
             r == [s EXCEPT !.lease = [pair |-> pair, expiresAt |-> e],
                            !.window = [s.window EXCEPT !.count = @ + 1]]
  <1>2. \/ unchanged
        \/ beginRefreshKind(s, pair, t) = "accepted" /\ commit(r)
    BY <1>1 DEF BeginRefresh
  <1>3. CASE unchanged
    BY <1>1, <1>3, Unchanged
  <1>4. CASE beginRefreshKind(s, pair, t) = "accepted" /\ commit(r)
    <2>1. Evolves(s, issued) /\ s \in VnuRefreshControlState /\ parses(s) /\ t \in Nat
      BY CleanEvolves, ClockReadingIsNat DEF Evolves, GoodRecord, IInv, TypeOK
    <2>2. pair \in LinkedPair /\ pair.grantExpiresAt \in Nat \ {0}
      BY <1>1 DEF IInv, TypeOK, LinkedPair
    <2> HIDE DEF s
    <2>3. s.active = pair /\ ~(s.window.count >= AttemptLimit)
      BY <1>4 DEF beginRefreshKind
    <2>4. e \in Nat /\ e > 0 /\ e <= pair.grantExpiresAt
      <3>1. {t + LeaseTime, pair.grantExpiresAt} \subseteq Nat \ {0}
        BY <2>1, <2>2, ControlAssumption
      <3>2. QED BY <3>1, MinOfNats
    <2>5. s.window \in RefreshWindow
      BY <2>1 DEF VnuRefreshControlState
    <2> DEFINE v == [s.window EXCEPT !.count = @ + 1]
    <2>6. v \in RefreshWindow /\ WindowFits(v)
      BY <2>1, <2>3, <2>5, ControlAssumption DEF RefreshWindow, WindowFits, parses
    <2> HIDE DEF e
    <2>7. [pair |-> pair, expiresAt |-> e] \in RefreshLease
      BY <2>2, <2>4 DEF RefreshLease
    <2> HIDE DEF v
    <2> DEFINE l == [pair |-> pair, expiresAt |-> e]
               u == [s EXCEPT !.lease = l, !.window = v]
    <2>8. l.pair = pair /\ l.expiresAt = e /\ l \in RefreshLease
      BY <2>7
    <2>9. r = u
      BY DEF v
    <2> HIDE DEF l
    <2>10. /\ u \in VnuRefreshControlState /\ u.active = s.active /\ u.lease = l
           /\ u.revokedAccess = s.revokedAccess /\ u.revokedGrants = s.revokedGrants
           /\ u.window = v /\ u.activationWindow = s.activationWindow
      BY <2>1, <2>6, <2>8 DEF VnuRefreshControlState
    <2>11. ActivationFits(u.activationWindow)
      BY <2>1, <2>10 DEF parses, ActivationFits
    <2>12. commit(u)
      BY <1>4, <2>9
    <2> HIDE DEF u, r
    <2>13. Evolves(u, issued)
      BY <2>1, <2>3, <2>4, <2>6, <2>8, <2>10, <2>11, UpdateEvolves
    <2>14. issued' = issued /\ issued \in SUBSET LinkedPair /\ DistinctPairs(issued)
      BY <1>1 DEF IInv, TypeOK
    <2>15. QED BY <2>12, <2>13, <2>14, Committed
  <1>5. QED BY <1>2, <1>3, <1>4

\* applyCheckAccess: an access check, which may clean the record, makes a good
\* step.
LEMMA CheckStep ==
    ASSUME IInv, AlarmExact, Check, UNCHANGED onRedis
    PROVE  GoodStep
  <1>1. PICK t \in ClockReadings, pair \in issued, res \in {"active", "revoked"} :
           CheckAccess(pair, t, res) /\ UNCHANGED issued
    BY DEF Check
  <1>2. unchanged \/ commit(cleanVnuRefreshState(stored, t))
    BY <1>1 DEF CheckAccess
  <1>3. issued' = issued /\ issued \in SUBSET LinkedPair /\ DistinctPairs(issued)
    BY <1>1 DEF IInv, TypeOK
  <1>4. QED BY <1>2, <1>3, Unchanged, Committed, CleanEvolves

\* Revoking the active pair of the cleaned record.
LEMMA RevokeCommits ==
    ASSUME IInv, NEW s, Evolves(s, issued), s.active # None,
           UNCHANGED <<issued, onRedis>>,
           commit(revokeExact(s, s.active, linkedGrantTombstone(s.active)))
    PROVE  GoodStep
  <1>1. s.active \in LinkedPair
    BY DEF Evolves, GoodRecord, VnuRefreshControlState
  <1>2. TombstoneFor(linkedGrantTombstone(s.active), s.active)
    BY <1>1, PlainTombstone
  <1>3. issued' = issued /\ issued \in SUBSET LinkedPair /\ DistinctPairs(issued)
    BY DEF IInv, TypeOK
  <1>4. QED BY <1>2, <1>3, RevokeEvolves, Committed

\* applyAbortRefresh: an abort, terminal or not, makes a good step.
LEMMA AbortStep ==
    ASSUME IInv, AlarmExact, Abort, UNCHANGED onRedis
    PROVE  GoodStep
  <1>1. PICK t \in ClockReadings, pair \in issued, terminal \in BOOLEAN,
             res \in {"aborted", "revoked"} :
           AbortRefresh(pair, terminal, t, res) /\ UNCHANGED issued
    BY DEF Abort
  <1> DEFINE s == cleanVnuRefreshState(stored, t)
             r == [s EXCEPT !.lease = None]
  <1>2. \/ unchanged
        \/ commit(r)
        \/ s.active = pair /\ commit(revokeExact(s, s.active, linkedGrantTombstone(s.active)))
    BY <1>1 DEF AbortRefresh
  <1>3. Evolves(s, issued) /\ s \in VnuRefreshControlState /\ parses(s)
    BY CleanEvolves DEF Evolves, GoodRecord
  <1>4. issued' = issued /\ issued \in SUBSET LinkedPair /\ DistinctPairs(issued)
    BY <1>1 DEF IInv, TypeOK
  <1>5. pair # None
    BY NoneAssumption DEF IInv, TypeOK
  <1> HIDE DEF s
  <1>6. CASE commit(r)
    <2>1. /\ r \in VnuRefreshControlState /\ r.active = s.active /\ r.lease = None
          /\ r.revokedAccess = s.revokedAccess /\ r.revokedGrants = s.revokedGrants
          /\ r.window = s.window /\ r.activationWindow = s.activationWindow
      BY <1>3 DEF VnuRefreshControlState
    <2>2. WindowFits(r.window) /\ ActivationFits(r.activationWindow)
      BY <1>3, <2>1 DEF parses, WindowFits, ActivationFits
    <2> HIDE DEF r
    <2>3. Evolves(r, issued)
      BY <1>3, <2>1, <2>2, UpdateEvolves
    <2>4. QED BY <1>4, <1>6, <2>3, Committed
  <1>7. CASE s.active = pair
             /\ commit(revokeExact(s, s.active, linkedGrantTombstone(s.active)))
    BY <1>3, <1>4, <1>5, <1>7, RevokeCommits
  <1>8. QED BY <1>1, <1>2, <1>6, <1>7, Unchanged

\* applyRevokeLinkedPairByAccess: a logout without the grant makes a good step.
LEMMA RevokeByAccessStep ==
    ASSUME IInv, AlarmExact, RevokeByAccess, UNCHANGED onRedis
    PROVE  GoodStep
  <1>1. PICK t \in ClockReadings, pair \in issued, res \in {"revoked", "mismatch", "expired"} :
           RevokeLinkedPairByAccess(pair, t, res) /\ UNCHANGED issued
    BY DEF RevokeByAccess
  <1> DEFINE s == cleanVnuRefreshState(stored, t)
  <1>2. \/ unchanged
        \/ s.active = pair /\ commit(revokeExact(s, s.active, linkedGrantTombstone(s.active)))
    BY <1>1 DEF RevokeLinkedPairByAccess
  <1>3. Evolves(s, issued) /\ pair # None
    BY CleanEvolves, NoneAssumption DEF IInv, TypeOK
  <1> HIDE DEF s
  <1>4. QED BY <1>1, <1>2, <1>3, Unchanged, RevokeCommits

\* applyCompleteRefresh: a rotation makes a good step.
LEMMA CompleteStep ==
    ASSUME IInv, AlarmExact, Complete, UNCHANGED onRedis
    PROVE  GoodStep
  <1>1. PICK t \in ClockReadings, old \in issued, res \in {"completed", "revoked"},
             i \in {j \in Id : fresh(j)}, a \in AccessExpiries :
           /\ CompleteRefresh(old, newPair(i, a, old.grantExpiresAt), t, res)
           /\ issued' = IF res = "completed"
                        THEN issued \cup {newPair(i, a, old.grantExpiresAt)} ELSE issued
    BY DEF Complete
  <1> DEFINE next == newPair(i, a, old.grantExpiresAt)
             s == cleanVnuRefreshState(stored, t)
             tomb == refreshSuccessorGrantTombstone(old, next)
             rotated == revokeExact(s, old, tomb)
  <1>2. \/ unchanged /\ UNCHANGED issued
        \/ /\ s.active = old /\ commit([rotated EXCEPT !.active = next])
           /\ issued' = issued \cup {next}
    BY <1>1 DEF CompleteRefresh
  <1>3. old \in LinkedPair /\ old # None /\ issued \subseteq LinkedPair
    BY NoneAssumption DEF IInv, TypeOK
  <1>4. next \in LinkedPair /\ fresh(next.accessTokenId) /\ fresh(next.grantId)
        /\ next.grantExpiresAt = old.grantExpiresAt
    BY <1>1, <1>3, ControlAssumption, LifeAssumption
    DEF newPair, LinkedPair, AccessExpiries, IInv, TypeOK
  <1>5. next.accessTokenId # old.accessTokenId /\ next.grantId # old.grantId
    BY <1>1 DEF CompleteRefresh, validRotation
  <1>6. TombstoneFor(tomb, old)
    BY <1>3, <1>4, <1>5, SuccessorTombstone
  <1>7. Evolves(s, issued)
    BY CleanEvolves
  <1> HIDE DEF s, tomb, next
  <1>8. CASE /\ s.active = old /\ commit([rotated EXCEPT !.active = next])
             /\ issued' = issued \cup {next}
    <2>1. Evolves(rotated, issued) /\ rotated.active = None /\ rotated.lease = None
      BY <1>3, <1>6, <1>7, <1>8, RevokeEvolves
    <2> HIDE DEF rotated
    <2> DEFINE u == [rotated EXCEPT !.active = next]
    <2>2. Evolves(u, issued \cup {next}) /\ DistinctPairs(issued \cup {next})
      BY <1>4, <2>1, IssueEvolves
    <2>3. issued \cup {next} \in SUBSET LinkedPair
      BY <1>3, <1>4
    <2>4. commit(u)
      BY <1>8
    <2> HIDE DEF u
    <2>5. QED BY <1>8, <2>2, <2>3, <2>4, Committed
  <1>9. QED BY <1>2, <1>8, Unchanged

\* Revoking an issued pair that is already tombstoned once more, with the
\* tombstone a logout leaves.
LEMMA RevokeAgainEvolves ==
    ASSUME IInv, NEW s, Evolves(s, issued), NEW p \in issued, s.active # p,
           s.revokedGrants[p.grantId] # None
    PROVE  LET r == [s EXCEPT
                        !.revokedAccess = [@ EXCEPT ![p.accessTokenId] = p.accessExpiresAt],
                        !.revokedGrants = [@ EXCEPT ![p.grantId] = linkedGrantTombstone(p)]]
           IN  Evolves(r, issued) /\ r.active = s.active
  <1> DEFINE tomb == linkedGrantTombstone(p)
             r == [s EXCEPT
                      !.revokedAccess = [@ EXCEPT ![p.accessTokenId] = p.accessExpiresAt],
                      !.revokedGrants = [@ EXCEPT ![p.grantId] = tomb]]
  <1>0. /\ s \in VnuRefreshControlState /\ parses(s) /\ Linked(s, issued)
        /\ Accounted(s, issued) /\ KeepsTombstones(s) /\ NoReturn(s)
    BY DEF Evolves, GoodRecord
  <1>1. p \in LinkedPair
    BY DEF IInv, TypeOK
  <1>2. tomb \in LinkedGrantTombstone /\ tomb # None /\ tomb.refreshSuccessor = None
        /\ tomb.grantExpiresAt = p.grantExpiresAt
    BY <1>1, NoneAssumption DEF linkedGrantTombstone, LinkedGrantTombstone, LinkedPair
  <1> HIDE DEF tomb
  <1>3. /\ r \in VnuRefreshControlState
        /\ r.active = s.active /\ r.lease = s.lease
        /\ r.window = s.window /\ r.activationWindow = s.activationWindow
        /\ r.revokedAccess = [s.revokedAccess EXCEPT ![p.accessTokenId] = p.accessExpiresAt]
        /\ r.revokedGrants = [s.revokedGrants EXCEPT ![p.grantId] = tomb]
    BY <1>0, <1>1, <1>2 DEF VnuRefreshControlState, LinkedPair
  <1> HIDE DEF r
  <1>4. s.revokedGrants[p.grantId].grantExpiresAt = p.grantExpiresAt
    BY <1>0, <1>1 DEF Linked, LinkedPair, IInv, DistinctPairs
  <1>5. s.revokedAccess[p.accessTokenId] # 0
        => s.revokedAccess[p.accessTokenId] = p.accessExpiresAt
    BY <1>0, <1>1 DEF Linked, LinkedPair, IInv, DistinctPairs
  <1>6. parses(r)
    <2>1. s.active # None => /\ s.active \in LinkedPair
                             /\ s.active.accessTokenId # p.accessTokenId
                             /\ s.active.grantId # p.grantId
      BY <1>0 DEF Linked, IInv, DistinctPairs, TypeOK
    <2>2. r.active # None => untombstoned(r, r.active)
      BY <1>0, <1>3, <2>1 DEF parses, untombstoned, VnuRefreshControlState, LinkedPair
    <2>3. QED
      BY <1>0, <1>2, <1>3, <2>2 DEF parses, VnuRefreshControlState
  <1>7. Linked(r, issued)
    BY <1>0, <1>1, <1>2, <1>3 DEF Linked, VnuRefreshControlState, LinkedPair
  <1>8. Accounted(r, issued)
    BY <1>0, <1>2, <1>3 DEF Accounted, VnuRefreshControlState, LinkedPair, IInv, TypeOK
  <1>9. KeepsTombstones(r)
    <2> SUFFICES ASSUME stored # None, NEW i \in Id
                 PROVE  /\ stored.revokedGrants[i] # None
                           /\ stored.revokedGrants[i].grantExpiresAt > now + MaxSkew
                           => /\ r.revokedGrants[i] # None
                              /\ r.revokedGrants[i].grantExpiresAt
                                    = stored.revokedGrants[i].grantExpiresAt
                        /\ stored.revokedAccess[i] > now + MaxSkew
                           => r.revokedAccess[i] = stored.revokedAccess[i]
      BY DEF KeepsTombstones
    <2>1. stored.revokedAccess[i] > now + MaxSkew => stored.revokedAccess[i] # 0
      BY ControlAssumption DEF IInv, TypeOK, VnuRefreshControlState
    <2>2. QED
      BY <1>0, <1>2, <1>3, <1>4, <1>5, <2>1 DEF KeepsTombstones, VnuRefreshControlState
  <1>10. NoReturn(r)
    BY <1>0, <1>3 DEF NoReturn
  <1>11. QED
    BY <1>3, <1>6, <1>7, <1>8, <1>9, <1>10 DEF Evolves, GoodRecord, r, tomb

\* applyRevokePrincipalByLinkedGrant: a logout with the grant makes a good
\* step.
LEMMA RevokeByGrantStep ==
    ASSUME IInv, AlarmExact, RevokeByGrant, UNCHANGED onRedis
    PROVE  GoodStep
  <1>1. PICK t \in ClockReadings, proof \in issued, res \in {"revoked", "mismatch", "expired"} :
           RevokePrincipalByLinkedGrant(proof, t, res) /\ UNCHANGED issued
    BY DEF RevokeByGrant
  <1> DEFINE s == cleanVnuRefreshState(stored, t)
             tomb == linkedGrantTombstone(proof)
             revoked == [s EXCEPT
                !.revokedAccess = [@ EXCEPT ![proof.accessTokenId] = proof.accessExpiresAt],
                !.revokedGrants = [@ EXCEPT ![proof.grantId] = tomb]]
             r == revokeExact(revoked, s.active, linkedGrantTombstone(s.active))
  <1>2. \/ unchanged
        \/ /\ s.active # None /\ commit(r)
           /\ s.active = proof \/ s.revokedGrants[proof.grantId] # None
    BY <1>1 DEF RevokePrincipalByLinkedGrant
  <1>3. Evolves(s, issued) /\ s \in VnuRefreshControlState /\ proof \in LinkedPair
    BY CleanEvolves DEF Evolves, GoodRecord, IInv, TypeOK
  <1>4. CASE s.active = proof /\ commit(r)
    <2> HIDE DEF s
    <2>1. r = revokeExact(s, s.active, linkedGrantTombstone(s.active))
      <3>1. /\ revoked.active = s.active /\ revoked.lease = s.lease
            /\ revoked.window = s.window /\ revoked.activationWindow = s.activationWindow
            /\ revoked.revokedAccess
                  = [s.revokedAccess EXCEPT ![proof.accessTokenId] = proof.accessExpiresAt]
            /\ revoked.revokedGrants = [s.revokedGrants EXCEPT ![proof.grantId] = tomb]
        BY <1>3 DEF VnuRefreshControlState
      <3>2. revoked \in VnuRefreshControlState
        BY <1>3, <3>1, NoneAssumption, PlainTombstone
        DEF VnuRefreshControlState, LinkedPair, TombstoneFor
      <3>3. /\ [revoked.revokedAccess EXCEPT ![proof.accessTokenId] = proof.accessExpiresAt]
               = [s.revokedAccess EXCEPT ![proof.accessTokenId] = proof.accessExpiresAt]
            /\ [revoked.revokedGrants EXCEPT ![proof.grantId] = tomb]
               = [s.revokedGrants EXCEPT ![proof.grantId] = tomb]
        BY <1>3, <3>1 DEF VnuRefreshControlState, LinkedPair
      <3> HIDE DEF revoked, tomb
      <3>4. QED
        BY <1>3, <1>4, <3>1, <3>2, <3>3 DEF revokeExact, leasedFor, VnuRefreshControlState, tomb
    <2>2. s.active # None
      BY <1>3, <1>4, NoneAssumption
    <2>3. QED BY <1>1, <1>3, <1>4, <2>1, <2>2, RevokeCommits
  <1>5. CASE /\ s.active # None /\ s.active # proof /\ commit(r)
             /\ s.revokedGrants[proof.grantId] # None
    <2> HIDE DEF s
    <2>1. Evolves(revoked, issued) /\ revoked.active = s.active
      BY <1>3, <1>5, RevokeAgainEvolves
    <2> HIDE DEF revoked
    <2>2. QED BY <1>1, <1>5, <2>1, RevokeCommits
  <1>6. QED BY <1>1, <1>2, <1>4, <1>5, Unchanged

\* What cleaning keeps expires later.
LEMMA CleanedTimes ==
    ASSUME NEW s \in VnuRefreshControlState, NEW t \in Nat
    PROVE  \A v \in alarmTimes(cleanRecord(s, t)) : v > t
  <1> DEFINE c == cleanRecord(s, t)
  <1>1. \A i \in Id : /\ c.revokedAccess[i] # 0 => c.revokedAccess[i] > t
                      /\ c.revokedGrants[i] # None => c.revokedGrants[i].grantExpiresAt > t
    BY DEF cleanRecord, liveTombstone
  <1>2. c.active # None => c.active.grantExpiresAt > t
    BY DEF cleanRecord, livePair
  <1>3. c.lease # None => c.lease.expiresAt > t
    BY DEF cleanRecord, liveLease
  <1>4. /\ c.window.count > 0 => c.window.resetAt > t
        /\ c.activationWindow.count > 0 => c.activationWindow.resetAt > t
    <2>1. /\ s.window.resetAt \in Nat /\ s.activationWindow.resetAt \in Nat
      BY DEF VnuRefreshControlState, RefreshWindow
    <2>2. QED BY <2>1, ControlAssumption DEF cleanRecord, NoWindow
  <1> HIDE DEF c
  <1>5. \A v \in alarmTimes(c) : v > t
    <2> SUFFICES ASSUME NEW v \in alarmTimes(c) PROVE v > t
      OBVIOUS
    <2>1. \/ \E i \in Id : c.revokedAccess[i] # 0 /\ v = c.revokedAccess[i]
          \/ \E i \in Id : c.revokedGrants[i] # None
                /\ v = c.revokedGrants[i].grantExpiresAt
          \/ c.active # None /\ v = c.active.grantExpiresAt
          \/ c.lease # None /\ v = c.lease.expiresAt
          \/ \E w \in {c.window, c.activationWindow} : w.count > 0 /\ v = w.resetAt
      BY DEF alarmTimes
    <2>2. CASE \/ \E i \in Id : c.revokedAccess[i] # 0 /\ v = c.revokedAccess[i]
               \/ \E i \in Id : c.revokedGrants[i] # None
                     /\ v = c.revokedGrants[i].grantExpiresAt
      BY <1>1, <2>2
    <2>3. CASE c.active # None /\ v = c.active.grantExpiresAt
      BY <1>2, <2>3
    <2>4. CASE c.lease # None /\ v = c.lease.expiresAt
      BY <1>3, <2>4
    <2>5. CASE \E w \in {c.window, c.activationWindow} : w.count > 0 /\ v = w.resetAt
      BY <1>4, <2>5
    <2>6. QED BY <2>1, <2>2, <2>3, <2>4, <2>5
  <1>6. QED BY <1>5 DEF c

\* alarm(): cleaning or deleting the stored record makes a good step.
LEMMA AlarmStep ==
    ASSUME IInv, AlarmExact, Alarm, UNCHANGED onRedis
    PROVE  GoodStep
  <1> DEFINE s == cleanVnuRefreshState(stored, now)
  <1>1. HasAlarm /\ stored # None /\ alarm \in alarmTimes(stored) /\ alarm <= now
    <2>1. alarm # None /\ now >= alarm
      BY DEF Alarm, AlarmFires
    <2>2. HasAlarm /\ stored # None /\ alarm \in alarmTimes(stored)
      BY <2>1 DEF AlarmExact
    <2>3. QED BY <2>1, <2>2 DEF IInv, TypeOK
  <1>2. now \in ClockReadings /\ now \in Nat /\ stored \in VnuRefreshControlState
    BY <1>1, ControlAssumption DEF ClockReadings, IInv, TypeOK
  <1>3. stored # s
    <2>1. s = cleanRecord(stored, now)
      BY <1>1 DEF cleanVnuRefreshState
    <2>2. \A v \in alarmTimes(s) : v > now
      BY <1>2, <2>1, CleanedTimes
    <2>3. alarm \in Nat
      BY <1>1, <1>2, AlarmTimesAreNats
    <2> HIDE DEF s
    <2>4. QED BY <1>1, <1>2, <2>2, <2>3
  <1>4. Evolves(s, issued)
    BY <1>2, CleanEvolves
  <1>5. /\ stored' = (IF isQuiescentVnuRefreshState(s) THEN None ELSE s)
        /\ alarm' = (IF HasAlarm THEN nextVnuRefreshAlarm(s) ELSE None)
        /\ UNCHANGED <<now, issued>>
    BY <1>1, <1>3 DEF Alarm, AlarmFires
  <1>6. issued' = issued /\ issued \in SUBSET LinkedPair /\ DistinctPairs(issued)
    BY <1>5 DEF IInv, TypeOK
  <1> HIDE DEF s
  <1>7. QED BY <1>4, <1>5, <1>6, CommitStep

\* The passing of time makes a good step: it only lets entries expire.
LEMMA TickStep ==
    ASSUME IInv, AlarmExact, Tick, UNCHANGED onRedis
    PROVE  GoodStep
  BY QuietStep DEF Tick, IInv, TypeOK

----------------------------------------------------------------------------
(* The theorems                                                            *)

\* A store that was never called satisfies the invariant.
LEMMA InitGood ==
    ASSUME Init
    PROVE  IInv /\ AlarmExact
  BY NoneAssumption DEF Init, IInv, AlarmExact, TypeOK, DistinctPairs

\* Every call makes a good step, whatever the store.
LEMMA CallGood ==
    ASSUME IInv, AlarmExact, Call, UNCHANGED onRedis
    PROVE  GoodStep
  BY ActivateStep, BeginStep, CompleteStep, AbortStep, RevokeByAccessStep, RevokeByGrantStep,
     CheckStep
  DEF Call

\* So does every step of VnuRefreshAuthority.
LEMMA NextGood ==
    ASSUME IInv, AlarmExact, Next, UNCHANGED onRedis
    PROVE  GoodStep
  BY CallGood, AlarmStep, TickStep DEF Next

\* A key that lapses leaves nothing that could be said wrongly of a pair: who
\* presents one is answered as to a principal that was never seen.
LEMMA ExpiryGood ==
    ASSUME IInv, AlarmExact, onRedis, KeyExpires, UNCHANGED onRedis
    PROVE  GoodStep
  <1>1. /\ stored' = None /\ alarm' = None /\ now' = now /\ issued' = issued /\ onRedis'
    BY DEF KeyExpires
  <1>2. IInv'
    BY <1>1 DEF IInv, TypeOK, DistinctPairs
  <1>3. AlarmExact'
    BY <1>1 DEF AlarmExact
  <1>4. NoResurrectionStep
    BY <1>1 DEF NoResurrectionStep
  <1> QED BY <1>2, <1>3, <1>4 DEF GoodStep

\* So is a step that changes nothing.
LEMMA StutterGood ==
    ASSUME IInv, AlarmExact, UNCHANGED storeVars
    PROVE  GoodStep
  BY QuietStep DEF storeVars, vars, IInv, TypeOK

\* Every step in either kind of store is a good one.
LEMMA StoreGood ==
    ASSUME IInv, AlarmExact, [StoreNext]_storeVars
    PROVE  GoodStep
  BY NextGood, CallGood, TickStep, ExpiryGood, StutterGood DEF StoreNext, RedisNext

\* The invariant behind all the results below: a record mentions only issued
\* pairs, never two that share an identifier, and accounts for all of them
\* unless Redis forgot it.
THEOREM InductiveInvariant == StoreSpec => [](IInv /\ AlarmExact)
  <1>1. StoreInit => IInv /\ AlarmExact
    BY InitGood DEF StoreInit
  <1>2. IInv /\ AlarmExact /\ [StoreNext]_storeVars => (IInv /\ AlarmExact)'
    BY StoreGood DEF GoodStep
  <1>3. QED BY <1>1, <1>2, PTL DEF StoreSpec

\* The record, the alarm and the issued pairs keep their types: every operation
\* of vnu-refresh-control.ts writes a well-formed VnuRefreshControlState.
THEOREM TypeCorrect == StoreSpec => []TypeOK
  <1>1. IInv => TypeOK
    BY DEF IInv
  <1>2. QED BY <1>1, InductiveInvariant, PTL

----------------------------------------------------------------------------
(* The rows of PostgreSQL                                                  *)

\* A pair, or its absence, survives its four columns.
LEMMA PairColumnsRead ==
    ASSUME NEW pair \in LinkedPair \cup {None}
    PROVE  pairFromPrincipal(pairColumns(pair)) = pair
  <1>1. CASE pair = None
    BY <1>1 DEF pairFromPrincipal, pairColumns
  <1>2. CASE pair \in LinkedPair
    <2>1. pair # None /\ pair.accessTokenId # None
      BY <1>2, NoneAssumption DEF LinkedPair
    <2>2. QED BY <2>1 DEF pairFromPrincipal, pairColumns
  <1>3. QED BY <1>1, <1>2

\* The tombstone of a token is the only row with its identifier.
LEMMA ExpiryRead ==
    ASSUME NEW s \in VnuRefreshControlState, NEW i \in Id
    PROVE  expiryFrom(accessTombstones(s), i) = s.revokedAccess[i]
  <1> DEFINE rows == accessTombstones(s)
  <1>1. CASE s.revokedAccess[i] = 0
    <2>1. ~ \E r \in rows : r.id = i
      BY <1>1 DEF accessTombstones
    <2>2. QED BY <1>1, <2>1 DEF expiryFrom
  <1>2. CASE s.revokedAccess[i] # 0
    <2>1. [id |-> i, expiresAt |-> s.revokedAccess[i]] \in rows
      BY <1>2 DEF accessTombstones
    <2>2. \A r \in rows : r.id = i => r.expiresAt = s.revokedAccess[i]
      BY DEF accessTombstones
    <2>3. \E r \in rows : r.id = i
      BY <2>1
    <2>4. rowOf(rows, i) \in rows /\ rowOf(rows, i).id = i
      BY <2>3 DEF rowOf
    <2>5. QED BY <2>2, <2>3, <2>4 DEF expiryFrom
  <1>3. QED BY <1>1, <1>2

\* The same of a grant, whose row also holds what it was linked with.
LEMMA TombstoneRead ==
    ASSUME NEW s \in VnuRefreshControlState, NEW i \in Id
    PROVE  tombstoneFrom(grantTombstones(s), i) = s.revokedGrants[i]
  <1> DEFINE rows == grantTombstones(s)
             g == s.revokedGrants[i]
             row == [id |-> i,
                     linked |-> [accessTokenId |-> g.accessTokenId,
                                 accessExpiresAt |-> g.accessExpiresAt,
                                 grantExpiresAt |-> g.grantExpiresAt],
                     successor |-> pairColumns(g.refreshSuccessor)]
  <1>1. CASE g = None
    <2>1. ~ \E r \in rows : r.id = i
      BY <1>1 DEF grantTombstones
    <2>2. QED BY <1>1, <2>1 DEF tombstoneFrom
  <1>2. CASE g # None
    <2>1. g \in LinkedGrantTombstone
      BY <1>2 DEF VnuRefreshControlState
    <2>2. row \in rows
      BY <1>2 DEF grantTombstones
    <2>3. \A r \in rows : r.id = i => r = row
      BY DEF grantTombstones
    <2>4. \E r \in rows : r.id = i
      BY <2>2
    <2>5. rowOf(rows, i) = row
      <3>1. rowOf(rows, i) \in rows /\ rowOf(rows, i).id = i
        BY <2>4 DEF rowOf
      <3>2. QED BY <2>3, <3>1
    <2>6. pairFromPrincipal(row.successor) = g.refreshSuccessor
      BY <2>1, PairColumnsRead DEF LinkedGrantTombstone
    <2>7. tombstoneFrom(rows, i) =
            [accessTokenId |-> g.accessTokenId, accessExpiresAt |-> g.accessExpiresAt,
             grantExpiresAt |-> g.grantExpiresAt, refreshSuccessor |-> g.refreshSuccessor]
      BY <2>4, <2>5, <2>6 DEF tombstoneFrom
    <2>8. QED BY <2>1, <2>7 DEF LinkedGrantTombstone
  <1>3. QED BY <1>1, <1>2

\* A record that parses is the record its rows give back.
LEMMA RowsReadBack ==
    ASSUME NEW s \in VnuRefreshControlState, parses(s)
    PROVE  loadState(principalRow(s), accessTombstones(s), grantTombstones(s)) = s
  <1> DEFINE row == principalRow(s)
             loaded == loadState(row, accessTombstones(s), grantTombstones(s))
  <1>1. pairFromPrincipal(row.active) = s.active
    BY PairColumnsRead DEF principalRow, VnuRefreshControlState
  <1>2. (IF row.leaseExpiresAt = None THEN None
         ELSE [pair |-> s.active, expiresAt |-> row.leaseExpiresAt]) = s.lease
    <2>1. CASE s.lease = None
      BY <2>1 DEF principalRow
    <2>2. CASE s.lease # None
      <3>1. /\ s.lease \in RefreshLease
            /\ s.lease.pair = s.active
        BY <2>2 DEF VnuRefreshControlState, parses
      <3>2. s.lease.expiresAt # None
        BY <3>1, NoneAssumption DEF RefreshLease
      <3>3. QED BY <2>2, <3>1, <3>2 DEF principalRow, RefreshLease
    <2>3. QED BY <2>1, <2>2
  <1>3. [i \in Id |-> expiryFrom(accessTombstones(s), i)] = s.revokedAccess
    BY ExpiryRead DEF VnuRefreshControlState
  <1>4. [i \in Id |-> tombstoneFrom(grantTombstones(s), i)] = s.revokedGrants
    BY TombstoneRead DEF VnuRefreshControlState
  <1>5. (IF row.activation = None THEN NoWindow ELSE row.activation) = s.activationWindow
    <2>1. s.activationWindow \in RefreshWindow
      BY DEF VnuRefreshControlState
    <2>2. QED BY <2>1, NoneAssumption DEF principalRow
  <1>6. row.window = s.window
    BY DEF principalRow
  <1>7. loaded = [active |-> s.active, lease |-> s.lease, revokedAccess |-> s.revokedAccess,
                  revokedGrants |-> s.revokedGrants, window |-> s.window,
                  activationWindow |-> s.activationWindow]
    BY <1>1, <1>2, <1>3, <1>4, <1>5, <1>6 DEF loadState
  <1>8. QED BY <1>7 DEF VnuRefreshControlState

\* Its rows satisfy the constraints of the tables.
LEMMA RowsAllowed ==
    ASSUME NEW s \in VnuRefreshControlState, parses(s)
    PROVE  allowed(principalRow(s), accessTombstones(s), grantTombstones(s))
  <1>1. s.lease # None =>
           s.lease.expiresAt > 0 /\ s.active # None /\ s.active.accessTokenId # None
    BY NoneAssumption DEF parses, VnuRefreshControlState, RefreshLease, LinkedPair
  <1>2. s.active # None => s.active \in LinkedPair
    BY DEF VnuRefreshControlState
  <1>3. s.window.count \in 0..AttemptLimit /\ s.window.resetAt > 0
    BY ControlAssumption DEF parses, VnuRefreshControlState, RefreshWindow
  <1>4. \A r \in accessTombstones(s) : r.expiresAt > 0
    BY DEF accessTombstones, VnuRefreshControlState
  <1>5. \A r \in grantTombstones(s) : r.linked.grantExpiresAt > 0
    BY DEF grantTombstones, VnuRefreshControlState, LinkedGrantTombstone
  <1>6. principalRow(s).leaseExpiresAt # None =>
           principalRow(s).leaseExpiresAt > 0 /\ principalRow(s).active.accessTokenId # None
    BY <1>1 DEF principalRow, pairColumns
  <1>7. principalRow(s).activation # None =>
           /\ principalRow(s).activation.count \in 1..ActivationLimit
           /\ principalRow(s).activation.resetAt > 0
    BY DEF principalRow, parses
  <1>8. /\ principalRow(s).window.count \in 0..AttemptLimit
        /\ principalRow(s).window.resetAt > 0
    BY <1>3 DEF principalRow
  <1>9. QED
    BY <1>4, <1>5, <1>6, <1>7, <1>8, Zenon DEF allowed

\* PostgreSQL accepts every record an operation wrote and gives it back to the
\* next one, although its rows hold less than the record.
THEOREM RecordsReadBack == StoreSpec => []StoredReadsBack
  <1>1. IInv => StoredReadsBack
    <2> SUFFICES ASSUME IInv, stored # None PROVE StoredReadsBack
      BY DEF StoredReadsBack
    <2>1. stored \in VnuRefreshControlState /\ parses(stored)
      BY DEF IInv, GoodRecord
    <2>2. QED BY <2>1, RowsReadBack, RowsAllowed DEF StoredReadsBack
  <1>2. QED BY <1>1, InductiveInvariant, PTL

\* On a Durable Object an issued pair whose grant has not expired is the active
\* one or tombstoned: whatever is called, rotation cannot be used twice nor a
\* logout be forgotten. The record of a Redis key may lapse before.
THEOREM PairsAccounted == StoreSpec => []DurableAccountsForPairs
  <1>1. IInv => DurableAccountsForPairs
    <2> SUFFICES ASSUME IInv, ~onRedis, NEW p \in issued, p.grantExpiresAt > now + MaxSkew
                 PROVE  /\ stored # None
                        /\ stored.active = p \/ stored.revokedGrants[p.grantId] # None
      BY DEF DurableAccountsForPairs, IssuedPairsAccounted
    <2>1. p.grantExpiresAt \in Nat /\ now \in Nat /\ MaxSkew \in Nat
      BY ControlAssumption DEF IInv, TypeOK, LinkedPair
    <2>2. stored # None
      BY <2>1 DEF IInv
    <2>3. QED BY <2>2 DEF IInv, GoodRecord, Accounted
  <1>2. QED BY <1>1, InductiveInvariant, PTL

\* The Durable Object's alarm is never later than the first expiry stored.
THEOREM AlarmCovers == StoreSpec => []AlarmCoversRecord
  <1>1. IInv /\ AlarmExact => AlarmCoversRecord
    <2> SUFFICES ASSUME IInv, AlarmExact, HasAlarm, stored # None
                 PROVE  alarm # None /\ \A v \in alarmTimes(stored) : alarm <= v
      BY DEF AlarmCoversRecord, AlarmExact
    <2>1. alarm \in Nat
      BY AlarmTimesAreNats DEF AlarmExact, IInv, GoodRecord
    <2>2. QED BY <2>1, NoneAssumption DEF AlarmExact
  <1>2. QED BY <1>1, InductiveInvariant, PTL

\* A pair that stopped being active is never made active again, not even after
\* Redis forgot that it was issued.
THEOREM NeverResurrected == StoreSpec => NoResurrection
  <1>1. IInv /\ AlarmExact /\ [StoreNext]_storeVars => NoResurrectionStep
    BY StoreGood DEF GoodStep
  <1>2. IInv /\ AlarmExact /\ [StoreNext]_storeVars => [NoResurrectionStep]_vars
    BY <1>1
  <1>3. QED BY <1>2, InductiveInvariant, PTL DEF StoreSpec, NoResurrection, NoResurrectionStep

\* A tombstone leaves the record of a Durable Object only when what it revokes
\* has expired, and that of Redis then or when the whole key lapses.
DurableTombstones == [][(onRedis /\ KeyExpires) \/ TombstonesOutliveGrantsStep]_storeVars

\* No call of either store drops a tombstone too early.
THEOREM TombstonesLast == StoreSpec => DurableTombstones
  <1>1. IInv /\ AlarmExact /\ [StoreNext]_storeVars
            => [(onRedis /\ KeyExpires) \/ TombstonesOutliveGrantsStep]_storeVars
    BY StoreGood DEF GoodStep
  <1>2. QED BY <1>1, InductiveInvariant, PTL DEF StoreSpec, DurableTombstones

=============================================================================
