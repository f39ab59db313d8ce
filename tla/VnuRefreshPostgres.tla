------------------------- MODULE VnuRefreshPostgres -------------------------
(***************************************************************************)
(* How PostgreSQL keeps a record of the authority                          *)
(* (node/postgres/vnu-refresh-coordinator.ts): one row of                  *)
(* hyeboard_vnu_refresh_principals and one row of                          *)
(* hyeboard_vnu_refresh_tombstones for each identifier that is revoked.    *)
(* Every transition loads the record from its rows, in a transaction that  *)
(* holds the advisory lock of the principal, and writes all of them again. *)
(* The rows hold less than the record: a lease is a time, its pair is the  *)
(* active one, and a window nobody counted in has no columns.              *)
(***************************************************************************)
EXTENDS VnuRefreshAuthority

\* The four columns of a pair, all NULL when there is none.
pairColumns(pair) ==
    IF pair = None
    THEN [accessTokenId |-> None, accessExpiresAt |-> None,
          grantId |-> None, grantExpiresAt |-> None]
    ELSE pair

pairFromPrincipal(columns) ==
    IF columns.accessTokenId = None THEN None ELSE columns

\* Mutant: the window of the manual logins is not written.
principalRowUncounted(s) ==
    [active |-> pairColumns(s.active),
     leaseExpiresAt |-> IF s.lease = None THEN None ELSE s.lease.expiresAt,
     window |-> s.window,
     activation |-> None]

principalRow(s) ==
    [active |-> pairColumns(s.active),
     leaseExpiresAt |-> IF s.lease = None THEN None ELSE s.lease.expiresAt,
     window |-> s.window,
     activation |-> IF s.activationWindow = NoWindow THEN None ELSE s.activationWindow]

accessTombstones(s) ==
    {[id |-> i, expiresAt |-> s.revokedAccess[i]] :
        i \in {j \in Id : s.revokedAccess[j] # 0}}

grantTombstones(s) ==
    {[id |-> i,
      linked |-> [accessTokenId |-> s.revokedGrants[i].accessTokenId,
                  accessExpiresAt |-> s.revokedGrants[i].accessExpiresAt,
                  grantExpiresAt |-> s.revokedGrants[i].grantExpiresAt],
      successor |-> pairColumns(s.revokedGrants[i].refreshSuccessor)] :
        i \in {j \in Id : s.revokedGrants[j] # None}}

rowOf(rows, i) == CHOOSE r \in rows : r.id = i

expiryFrom(rows, i) ==
    IF \E r \in rows : r.id = i THEN rowOf(rows, i).expiresAt ELSE 0

tombstoneFrom(rows, i) ==
    IF \E r \in rows : r.id = i
    THEN LET r == rowOf(rows, i) IN
         [accessTokenId |-> r.linked.accessTokenId,
          accessExpiresAt |-> r.linked.accessExpiresAt,
          grantExpiresAt |-> r.linked.grantExpiresAt,
          refreshSuccessor |-> pairFromPrincipal(r.successor)]
    ELSE None

loadState(row, access, grants) ==
    LET active == pairFromPrincipal(row.active) IN
    [active |-> active,
     lease |-> IF row.leaseExpiresAt = None THEN None
               ELSE [pair |-> active, expiresAt |-> row.leaseExpiresAt],
     revokedAccess |-> [i \in Id |-> expiryFrom(access, i)],
     revokedGrants |-> [i \in Id |-> tombstoneFrom(grants, i)],
     window |-> row.window,
     activationWindow |-> IF row.activation = None THEN NoWindow ELSE row.activation]

\* The CHECK constraints of the two tables.
allowed(row, access, grants) ==
    /\ row.leaseExpiresAt # None =>
           row.leaseExpiresAt > 0 /\ row.active.accessTokenId # None
    /\ row.window.count \in 0..AttemptLimit /\ row.window.resetAt > 0
    /\ row.activation # None =>
           row.activation.count \in 1..ActivationLimit /\ row.activation.resetAt > 0
    /\ \A r \in access : r.expiresAt > 0
    /\ \A r \in grants : r.linked.grantExpiresAt > 0

\* Every record an operation writes is accepted by the tables and by the
\* parser, and the next transition reads back the record that was written,
\* although its rows hold less: what the theorems say of records, they say of
\* the rows.  A record that is refused or comes back another would leave the
\* student with a pair nobody can refresh or log out.
StoredReadsBack ==
    stored # None =>
        LET row == principalRow(stored)
            access == accessTombstones(stored)
            grants == grantTombstones(stored)
        IN  /\ parses(stored)
            /\ allowed(row, access, grants)
            /\ loadState(row, access, grants) = stored

=============================================================================
