------------------------ MODULE VnuRefreshAuthority ------------------------
(***************************************************************************)
(* The authority on its own: the record, its alarm and an environment that *)
(* may call any operation at any time, in any order, with any pair it      *)
(* legitimately holds.  Tokens and grants are encrypted by the server, so  *)
(* a presented pair is one that was issued; a new pair has identifiers     *)
(* nobody used before.  This is what the request handlers rely on and what *)
(* the theorems are about; VnuAuthFlow implements it.                      *)
(***************************************************************************)
EXTENDS VnuRefreshControl

CONSTANTS
    AccessLife,   \* addHours(8) at every VNU login
    GrantLife,    \* VNU_REFRESH_GRANT_LIFETIME, counted from the manual login
    LastCall,     \* bound: no operation is called after this time
    MaxTime       \* bound: the clock stops here

ASSUME LifeAssumption ==
    /\ AccessLife \in Nat \ {0} /\ GrantLife \in Nat \ {0}
    /\ LastCall \in Nat /\ MaxTime \in Nat

VARIABLE issued    \* every pair that ever became active

vars == <<stored, alarm, now, issued>>

open == now <= LastCall

fresh(i) == \A p \in issued : p.accessTokenId # i /\ p.grantId # i

newPair(i, accessExpiresAt, grantExpiresAt) ==
    [accessTokenId |-> i, accessExpiresAt |-> accessExpiresAt,
     grantId |-> i, grantExpiresAt |-> grantExpiresAt]

\* Expiry times of pairs that were drawn up to now.
AccessExpiries == 1..(now + MaxSkew + AccessLife)
GrantExpiries == 1..(now + MaxSkew + GrantLife)

----------------------------------------------------------------------------
Init ==
    /\ stored = None
    /\ alarm = None
    /\ now = 0
    /\ issued = {}

\* A pair of a manual login, or the active pair again.
Activate ==
    /\ open
    /\ \E t \in ClockReadings, res \in {"activated", "rate-limited"} :
         \E pair \in {newPair(i, a, g) : i \in {j \in Id : fresh(j)},
                                         a \in AccessExpiries, g \in GrantExpiries}
                     \cup {p \in issued : stored # None /\ stored.active = p} :
           /\ ActivatePair(pair, t, res)
           /\ issued' = IF res = "activated" THEN issued \cup {pair} ELSE issued

Begin ==
    /\ open
    /\ \E t \in ClockReadings, pair \in issued,
          res \in {"accepted", "revoked", "in-progress", "rate-limited"} :
           BeginRefresh(pair, t, res) /\ UNCHANGED issued

Complete ==
    /\ open
    /\ \E t \in ClockReadings, old \in issued, res \in {"completed", "revoked"} :
         \E i \in {j \in Id : fresh(j)}, a \in AccessExpiries :
           LET next == newPair(i, a, old.grantExpiresAt)
           IN  /\ CompleteRefresh(old, next, t, res)
               /\ issued' = IF res = "completed" THEN issued \cup {next} ELSE issued

Abort ==
    /\ open
    /\ \E t \in ClockReadings, pair \in issued, terminal \in BOOLEAN,
          res \in {"aborted", "revoked"} :
           AbortRefresh(pair, terminal, t, res) /\ UNCHANGED issued

RevokeByAccess ==
    /\ open
    /\ \E t \in ClockReadings, pair \in issued, res \in {"revoked", "mismatch", "expired"} :
           RevokeLinkedPairByAccess(pair, t, res) /\ UNCHANGED issued

RevokeByGrant ==
    /\ open
    /\ \E t \in ClockReadings, pair \in issued, res \in {"revoked", "mismatch", "expired"} :
           RevokePrincipalByLinkedGrant(pair, t, res) /\ UNCHANGED issued

Check ==
    /\ open
    /\ \E t \in ClockReadings, pair \in issued, res \in {"active", "revoked"} :
           CheckAccess(pair, t, res) /\ UNCHANGED issued

Alarm == AlarmFires /\ UNCHANGED issued

Tick ==
    /\ now < MaxTime
    /\ now' = now + 1
    /\ UNCHANGED <<stored, alarm, issued>>

Call == Activate \/ Begin \/ Complete \/ Abort \/ RevokeByAccess \/ RevokeByGrant \/ Check

Next == Call \/ Alarm \/ Tick

Spec == Init /\ [][Next]_vars

\* The clock advances and the runtime delivers due alarms; callers owe nothing.
FairSpec == Spec /\ WF_vars(Tick) /\ WF_vars(Alarm)

----------------------------------------------------------------------------
(* Properties                                                              *)

TypeOK ==
    /\ stored \in VnuRefreshControlState \cup {None}
    /\ alarm \in Nat \cup {None}
    /\ now \in Nat
    /\ issued \subseteq LinkedPair

\* The relations parseVnuRefreshControlState demands of a record: a lease is
\* for the active pair and ends with its grant, the active pair is not
\* tombstoned, times are positive and counters within their limits, a
\* successor is another pair under the same grant expiry.
parses(s) ==
    /\ s.lease # None => /\ s.lease.pair = s.active
                         /\ s.lease.expiresAt > 0
                         /\ s.lease.expiresAt <= s.active.grantExpiresAt
    /\ s.active # None => untombstoned(s, s.active)
    /\ s.window.count <= AttemptLimit /\ s.window.resetAt > 0
    /\ s.activationWindow # NoWindow =>
          s.activationWindow.count \in 1..ActivationLimit /\ s.activationWindow.resetAt > 0
    /\ \A i \in Id :
        LET g == s.revokedGrants[i]
        IN  g # None /\ g.refreshSuccessor # None =>
                /\ g.refreshSuccessor.accessTokenId # g.accessTokenId
                /\ g.refreshSuccessor.grantId # i
                /\ g.refreshSuccessor.grantExpiresAt = g.grantExpiresAt

\* No issued pair is forgotten while its grant could still be used: it is the
\* active one or its grant is tombstoned.  Together with "begin accepts only
\* the active pair" this is what makes rotation single-use and lets logout
\* recognise an old grant, whatever the order of calls and clock readings.
IssuedPairsAccounted ==
    \A p \in issued :
        p.grantExpiresAt > now + MaxSkew =>
            stored # None /\ (stored.active = p \/ stored.revokedGrants[p.grantId] # None)

\* A record without an alarm would outlive its last expiry for ever: in the
\* Durable Object the alarm is set to the earliest expiry the record holds.
AlarmCoversRecord ==
    HasAlarm => IF stored = None THEN alarm = None
                ELSE alarm # None /\ \A v \in alarmTimes(stored) : alarm <= v

\* A pair that is no longer the active one (rotated, replaced, revoked, or
\* expired) never becomes the active one again.
NoResurrection ==
    [][\A p \in issued :
          (stored = None \/ stored.active # p) => (stored' = None \/ stored'.active # p)]_vars

\* A tombstone leaves the record only when what it revokes has expired (up to
\* the skew of the replica that dropped it), by no other path.
TombstonesOutliveGrants ==
    [][stored # None =>
        \A i \in Id :
            LET g == stored.revokedGrants[i]
            IN  /\ /\ g # None /\ g.grantExpiresAt > now + MaxSkew
                   => /\ stored' # None
                      /\ stored'.revokedGrants[i] # None
                      /\ stored'.revokedGrants[i].grantExpiresAt = g.grantExpiresAt
                /\ stored.revokedAccess[i] > now + MaxSkew
                   => stored' # None /\ stored'.revokedAccess[i] = stored.revokedAccess[i]]_vars

\* Once nobody calls any more, the alarm empties the storage: no identifier
\* of a student's tokens stays behind.
EventuallyForgotten == <>[](stored = None)

=============================================================================
