------------------------- MODULE VnuRefreshControl -------------------------
(***************************************************************************)
(* The VNU refresh authority: one record per principal that says which     *)
(* linked pair (access token + refresh grant) is valid, who is refreshing  *)
(* it, and which pairs are revoked.                                        *)
(*                                                                         *)
(* apps/worker/src/vnu/vnu-refresh-control.ts holds the transitions as     *)
(* pure functions (stored, input, now) -> (state, result, changed); the    *)
(* Durable Object and the PostgreSQL coordinator run each of them in one   *)
(* transaction on the principal's record.  Here every operation is an      *)
(* action of the same name with two more parameters: t, the reading of     *)
(* Date.now() the transaction used, and res, the kind it answers.          *)
(* Principals share nothing, so one principal is modelled.                 *)
(***************************************************************************)
EXTENDS Integers, FiniteSets, FiniteSetsExt

CONSTANTS
    Id,                \* identifiers of tokens and grants (random, 128 bits)
    None,              \* "undefined"
    AttemptLimit,      \* VNU_REFRESH_ATTEMPT_LIMIT        (5)
    AttemptWindow,     \* VNU_REFRESH_WINDOW_MS            (15 minutes)
    ActivationLimit,   \* VNU_MANUAL_ACTIVATION_LIMIT      (5)
    ActivationWindow,  \* VNU_MANUAL_ACTIVATION_WINDOW_MS  (15 minutes)
    LeaseTime,         \* VNU_REFRESH_LEASE_MS             (2 minutes)
    HasAlarm,          \* TRUE: Durable Object; FALSE: PostgreSQL, no alarm
    MaxSkew            \* how far a replica's Date.now() is from real time

ASSUME ControlAssumption ==
    /\ AttemptLimit \in Nat \ {0} /\ AttemptWindow \in Nat \ {0}
    /\ ActivationLimit \in Nat \ {0} /\ ActivationWindow \in Nat \ {0}
    /\ LeaseTime \in Nat \ {0}
    /\ HasAlarm \in BOOLEAN
    /\ MaxSkew \in Nat
    \* one Durable Object instance owns the record and reads one clock
    /\ HasAlarm => MaxSkew = 0

VARIABLES
    stored,   \* the principal's record, None when it was never put or deleted
    alarm,    \* the time the Durable Object's alarm is set to, or None
    now       \* real time

controlVars == <<stored, alarm, now>>

(***************************************************************************)
(* LinkedPair.  The two identifiers are drawn together for every new pair  *)
(* and are never compared with one another.                                *)
(***************************************************************************)
LinkedPair == [accessTokenId : Id, accessExpiresAt : Nat \ {0},
               grantId : Id, grantExpiresAt : Nat \ {0}]

RefreshLease == [pair : LinkedPair, expiresAt : Nat]

RefreshWindow == [count : Nat, resetAt : Nat]

LinkedGrantTombstone ==
    [accessTokenId : Id, accessExpiresAt : Nat \ {0}, grantExpiresAt : Nat \ {0},
     refreshSuccessor : LinkedPair \cup {None}]

\* A token without an access tombstone maps to 0, a grant without one to None;
\* an absent activationWindow is NoWindow.
VnuRefreshControlState ==
    [active : LinkedPair \cup {None},
     lease : RefreshLease \cup {None},
     revokedAccess : [Id -> Nat],
     revokedGrants : [Id -> LinkedGrantTombstone \cup {None}],
     window : RefreshWindow,
     activationWindow : RefreshWindow]

ASSUME NoneAssumption ==
    /\ None \notin Nat /\ None \notin Id /\ None \notin RefreshWindow
    /\ None \notin LinkedPair
    /\ None \notin RefreshLease
    /\ None \notin LinkedGrantTombstone
    /\ None \notin VnuRefreshControlState

\* Readings of Date.now() a transaction may see.
ClockReadings == {t \in (now - MaxSkew)..(now + MaxSkew) : t >= 0}

----------------------------------------------------------------------------
(* Helpers on the record                                                   *)

NoWindow == [count |-> 0, resetAt |-> 0]

linkedGrantTombstone(pair) ==
    [accessTokenId |-> pair.accessTokenId, accessExpiresAt |-> pair.accessExpiresAt,
     grantExpiresAt |-> pair.grantExpiresAt, refreshSuccessor |-> None]

\* Mutant: a rotation leaves the tombstone of a revocation.
tombstoneForgettingSuccessor(old, next) == linkedGrantTombstone(old)

refreshSuccessorGrantTombstone(old, next) ==
    [linkedGrantTombstone(old) EXCEPT !.refreshSuccessor = next]

exactlyLinksGrantTombstone(tombstone, pair) ==
    /\ tombstone # None
    /\ tombstone.accessTokenId = pair.accessTokenId
    /\ tombstone.accessExpiresAt = pair.accessExpiresAt
    /\ tombstone.grantExpiresAt = pair.grantExpiresAt

\* Neither the pair's token nor its grant is tombstoned.
untombstoned(s, pair) ==
    /\ s.revokedAccess[pair.accessTokenId] = 0
    /\ s.revokedGrants[pair.grantId] = None

\* samePair(state.lease?.pair, pair)
leasedFor(s, pair) == s.lease # None /\ s.lease.pair = pair

emptyState(t) ==
    [active |-> None, lease |-> None,
     revokedAccess |-> [i \in Id |-> 0],
     revokedGrants |-> [i \in Id |-> None],
     window |-> [count |-> 0, resetAt |-> t + AttemptWindow],
     activationWindow |-> NoWindow]

liveTombstone(tombstone, t) == tombstone # None /\ tombstone.grantExpiresAt > t

livePair(pair, t) == pair # None /\ pair.grantExpiresAt > t

\* Mutant: a lease never expires.
anyLease(lease, t) == lease # None

liveLease(lease, t) ==
    lease # None /\ lease.expiresAt > t /\ lease.pair.grantExpiresAt > t

\* Every entry that has expired at t is dropped, every elapsed window restarts.
cleanRecord(s, t) ==
    [active |-> IF livePair(s.active, t) THEN s.active ELSE None,
     lease |-> IF liveLease(s.lease, t) THEN s.lease ELSE None,
     revokedAccess |->
        [i \in Id |-> IF s.revokedAccess[i] > t THEN s.revokedAccess[i] ELSE 0],
     revokedGrants |->
        [i \in Id |-> IF liveTombstone(s.revokedGrants[i], t)
                      THEN s.revokedGrants[i] ELSE None],
     window |-> IF t >= s.window.resetAt
                THEN [count |-> 0, resetAt |-> t + AttemptWindow] ELSE s.window,
     activationWindow |-> IF s.activationWindow.count > 0 /\ t < s.activationWindow.resetAt
                          THEN s.activationWindow ELSE NoWindow]

cleanVnuRefreshState(input, t) ==
    IF input = None THEN emptyState(t) ELSE cleanRecord(input, t)

\* Mutant: only the access token is tombstoned.
revokeAccessOnly(s, pair, grantTombstone) ==
    [s EXCEPT !.active = None,
              !.lease = IF leasedFor(s, pair) THEN None ELSE s.lease,
              !.revokedAccess = [@ EXCEPT ![pair.accessTokenId] = pair.accessExpiresAt]]

revokeExact(s, pair, grantTombstone) ==
    [s EXCEPT !.active = None,
              !.lease = IF leasedFor(s, pair) THEN None ELSE s.lease,
              !.revokedAccess = [@ EXCEPT ![pair.accessTokenId] = pair.accessExpiresAt],
              !.revokedGrants = [@ EXCEPT ![pair.grantId] = grantTombstone]]

isQuiescentVnuRefreshState(s) ==
    /\ s.active = None
    /\ s.lease = None
    /\ \A i \in Id : s.revokedAccess[i] = 0 /\ s.revokedGrants[i] = None
    /\ s.window.count = 0
    /\ s.activationWindow.count = 0

\* The expiry times the record holds.
alarmTimes(s) ==
    UNION {{s.revokedAccess[i] : i \in {j \in Id : s.revokedAccess[j] # 0}},
           {s.revokedGrants[i].grantExpiresAt : i \in {j \in Id : s.revokedGrants[j] # None}},
           {p.grantExpiresAt : p \in {s.active} \ {None}},
           {l.expiresAt : l \in {s.lease} \ {None}},
           {w.resetAt : w \in {v \in {s.window, s.activationWindow} : v.count > 0}}}

nextVnuRefreshAlarm(s) ==
    IF alarmTimes(s) = {} THEN None ELSE Min(alarmTimes(s))

----------------------------------------------------------------------------
(* Persistence: the end of mutate() and of transition()                    *)

\* output.changed: the record is put, or deleted when nothing is left in it.
commit(s) ==
    /\ stored' = IF isQuiescentVnuRefreshState(s) THEN None ELSE s
    /\ alarm' = IF HasAlarm THEN nextVnuRefreshAlarm(s) ELSE None
    /\ UNCHANGED now

\* ~output.changed: nothing is written, not even the cleaned record.
unchanged == UNCHANGED <<stored, alarm, now>>

----------------------------------------------------------------------------
(* Operations                                                              *)

\* Mutant: the pair that is replaced is not revoked.
activatedOverOld(s, pair, t) ==
    [s EXCEPT !.active = pair,
              !.lease = None,
              !.activationWindow =
                  IF s.activationWindow.count > 0 THEN [@ EXCEPT !.count = @ + 1]
                  ELSE [count |-> 1, resetAt |-> t + ActivationWindow]]

\* What activatePair writes on the cleaned record s: the active pair, if it is
\* another one, is revoked, a lease is dropped, and the activation is counted.
activatedRecord(s, pair, t) ==
    LET replaced == IF s.active \in {None, pair} THEN s
                    ELSE revokeExact(s, s.active, linkedGrantTombstone(s.active))
        w == s.activationWindow
    IN  [replaced EXCEPT
            !.active = pair,
            !.lease = None,
            !.activationWindow = IF w.count > 0 THEN [w EXCEPT !.count = @ + 1]
                                 ELSE [count |-> 1, resetAt |-> t + ActivationWindow]]

ActivatePair(pair, t, res) ==
    LET s == cleanVnuRefreshState(stored, t)
        repeated == stored # None /\ stored.active = pair /\ stored.lease = None
        limited == s.activationWindow.count >= ActivationLimit
    IN  \/ repeated /\ res = "activated" /\ unchanged
        \/ ~repeated /\ limited /\ res = "rate-limited" /\ unchanged
        \/ ~repeated /\ ~limited /\ res = "activated" /\ commit(activatedRecord(s, pair, t))

\* Mutant: the attempts are counted and not limited.
beginWithoutLimit(s, pair, t) ==
    CASE pair.grantExpiresAt <= t \/ ~untombstoned(s, pair) \/ s.active # pair -> "revoked"
      [] OTHER -> IF leasedFor(s, pair) THEN "in-progress" ELSE "accepted"

\* What beginRefresh answers for pair on the record s that was cleaned at t.
beginRefreshKind(s, pair, t) ==
    CASE pair.grantExpiresAt <= t \/ ~untombstoned(s, pair) \/ s.active # pair -> "revoked"
      [] OTHER -> IF leasedFor(s, pair) THEN "in-progress"
                  ELSE IF s.window.count >= AttemptLimit THEN "rate-limited"
                  ELSE "accepted"

BeginRefresh(pair, t, res) ==
    LET s == cleanVnuRefreshState(stored, t)
    IN  /\ res = beginRefreshKind(s, pair, t)
        /\ \/ res # "accepted" /\ unchanged
           \/ /\ res = "accepted"
              /\ commit([s EXCEPT
                    !.lease = [pair |-> pair,
                               expiresAt |-> Min({t + LeaseTime, pair.grantExpiresAt})],
                    !.window = [s.window EXCEPT !.count = @ + 1]])

\* The checks on which completeRefresh throws, leaving the record alone.
validRotation(old, next) ==
    /\ next.grantExpiresAt = old.grantExpiresAt
    /\ next.accessTokenId # old.accessTokenId
    /\ next.grantId # old.grantId
    /\ stored # None => untombstoned(stored, next)

\* Mutant: the active pair and the lease are not checked again.
CompleteUnchecked(old, next, t, res) ==
    LET s == cleanVnuRefreshState(stored, t)
        rotated == revokeExact(s, old, refreshSuccessorGrantTombstone(old, next))
    IN  /\ validRotation(old, next)
        /\ old.grantExpiresAt > t
        /\ res = "completed"
        /\ commit([rotated EXCEPT !.active = next, !.lease = None])

CompleteRefresh(old, next, t, res) ==
    LET s == cleanVnuRefreshState(stored, t)
        holds == old.grantExpiresAt > t /\ s.active = old /\ leasedFor(s, old)
        rotated == revokeExact(s, old, refreshSuccessorGrantTombstone(old, next))
    IN  /\ validRotation(old, next)
        /\ \/ ~holds /\ res = "revoked" /\ unchanged
           \/ holds /\ res = "completed" /\ commit([rotated EXCEPT !.active = next])

\* Mutant: an abort rolls back to the pair it was begun for.
AbortRestores(pair, terminal, t, res) ==
    /\ res = "aborted"
    /\ commit([cleanVnuRefreshState(stored, t) EXCEPT
                  !.active = pair, !.lease = None,
                  !.revokedAccess = [@ EXCEPT ![pair.accessTokenId] = 0],
                  !.revokedGrants = [@ EXCEPT ![pair.grantId] = None]])

AbortRefresh(pair, terminal, t, res) ==
    LET s == cleanVnuRefreshState(stored, t)
        holds == leasedFor(s, pair) /\ s.active = pair
    IN  \/ ~untombstoned(s, pair) /\ res = "revoked" /\ unchanged
        \/ untombstoned(s, pair) /\ ~holds /\ res = "aborted" /\ unchanged
        \/ /\ untombstoned(s, pair) /\ holds
           /\ \/ ~terminal /\ res = "aborted" /\ commit([s EXCEPT !.lease = None])
              \/ /\ terminal /\ res = "revoked"
                 /\ commit(revokeExact(s, s.active, linkedGrantTombstone(s.active)))

\* Logout without the grant; revokeExactLinkedPair is the same transition.
RevokeLinkedPairByAccess(pair, t, res) ==
    LET s == cleanVnuRefreshState(stored, t)
        expired == pair.accessExpiresAt <= t /\ pair.grantExpiresAt <= t
        already == /\ exactlyLinksGrantTombstone(s.revokedGrants[pair.grantId], pair)
                   /\ \/ s.revokedAccess[pair.accessTokenId] = pair.accessExpiresAt
                      \/ pair.accessExpiresAt <= t
    IN  \/ expired /\ res = "expired" /\ unchanged
        \/ ~expired /\ already /\ res = "revoked" /\ unchanged
        \/ ~expired /\ ~already /\ s.active # pair /\ res = "mismatch" /\ unchanged
        \/ /\ ~expired /\ ~already /\ s.active = pair
           /\ res = "revoked"
           /\ commit(revokeExact(s, pair, linkedGrantTombstone(pair)))

\* Mutant: a tombstoned grant is taken for a finished logout.
RevokeGrantAlone(proof, t, res) ==
    LET s == cleanVnuRefreshState(stored, t)
        done == exactlyLinksGrantTombstone(s.revokedGrants[proof.grantId], proof)
    IN  \/ proof.grantExpiresAt <= t /\ res = "expired" /\ unchanged
        \/ proof.grantExpiresAt > t /\ done /\ res = "revoked" /\ unchanged
        \/ /\ proof.grantExpiresAt > t /\ ~done /\ s.active # proof
           /\ res = "mismatch" /\ unchanged
        \/ /\ proof.grantExpiresAt > t /\ s.active = proof
           /\ res = "revoked"
           /\ commit(revokeExact(s, proof, linkedGrantTombstone(proof)))

\* Logout with the grant: also revokes the pair that a refresh put in its place.
RevokePrincipalByLinkedGrant(proof, t, res) ==
    LET s == cleanVnuRefreshState(stored, t)
        tombstone == s.revokedGrants[proof.grantId]
        activeProof == s.active = proof
        tombstoneProof == exactlyLinksGrantTombstone(tombstone, proof)
        successorActive == /\ tombstone # None
                           /\ s.active = tombstone.refreshSuccessor
                           /\ s.lease = None \/ leasedFor(s, s.active)
        authorized == activeProof \/ (tombstoneProof /\ successorActive)
        proofRevoked == [s EXCEPT
            !.revokedAccess = [@ EXCEPT ![proof.accessTokenId] = proof.accessExpiresAt],
            !.revokedGrants = [@ EXCEPT ![proof.grantId] = linkedGrantTombstone(proof)]]
    IN  \/ proof.grantExpiresAt <= t /\ res = "expired" /\ unchanged
        \/ /\ proof.grantExpiresAt > t
           /\ \/ ~activeProof /\ ~tombstoneProof /\ res = "mismatch" /\ unchanged
              \/ tombstoneProof /\ s.active = None /\ res = "revoked" /\ unchanged
              \/ /\ tombstoneProof /\ s.active # None /\ ~authorized
                 /\ res = "mismatch" /\ unchanged
              \/ /\ s.active # None /\ authorized /\ res = "revoked"
                 /\ commit(revokeExact(proofRevoked, s.active, linkedGrantTombstone(s.active)))

\* The pair passes the access check on record r at t.
accessActive(r, pair, t) ==
    LET s == cleanVnuRefreshState(r, t)
    IN  s.active = pair /\ pair.accessExpiresAt > t /\ untombstoned(s, pair)

\* A stale record is cleaned on the way.  The read outside the transaction
\* only decides whether the transaction, which checks again, is needed.
CheckAccess(pair, t, res) ==
    LET s == cleanVnuRefreshState(stored, t)
    IN  /\ res = IF accessActive(stored, pair, t) THEN "active" ELSE "revoked"
        /\ \/ stored \in {None, s} /\ unchanged
           \/ stored \notin {None, s} /\ commit(s)

\* Mutant: the alarm is not set again for what is left in the record.
AlarmFiresOnce ==
    LET s == cleanVnuRefreshState(stored, now)
    IN  /\ alarm # None /\ now >= alarm
        /\ stored' = IF stored = None \/ isQuiescentVnuRefreshState(s) THEN None ELSE s
        /\ alarm' = None
        /\ UNCHANGED now

\* The Durable Object's alarm() handler; firing consumes the alarm.
AlarmFires ==
    LET s == cleanVnuRefreshState(stored, now)
    IN  /\ alarm # None /\ now >= alarm
        /\ stored' = IF stored = None \/ isQuiescentVnuRefreshState(s) THEN None ELSE s
        /\ alarm' = IF stored \in {None, s} THEN None ELSE nextVnuRefreshAlarm(s)
        /\ UNCHANGED now

=============================================================================
