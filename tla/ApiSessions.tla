---------------------------- MODULE ApiSessions ----------------------------
(***************************************************************************)
(* The sessions of the API's own tokens (apps/worker/src/app.ts): how a    *)
(* request's token is accepted and its expired UET sign-in renewed, how a  *)
(* VNU login is answered from the portal, from the cache of imports, or    *)
(* from the login another replica makes at the same time (RedisSingleFlight*)
(* in distributed mode), and how a logout is remembered.                   *)
(*                                                                         *)
(* One student.  The pair authority of VNU (VnuRefreshControl) is reduced  *)
(* to the pair it holds active.  Tokens are encrypted and self-contained:  *)
(* what the API remembers of them are rows and keys that lapse.            *)
(***************************************************************************)
EXTENDS Integers, FiniteSets

CONSTANTS
    Slot,            \* Requests the API serves at a time.
    MaxToken,        \* Bound: tokens. A request makes one at most, and two session ids.
    TokenLife,       \* How long a session lives, from its sign-in.
    SignInLife,      \* How long the StudentHub sign-in in it does.
    FlightLife       \* Lock, result and wait of RedisSingleFlight.

ASSUME SessionAssumption ==
    /\ {MaxToken, TokenLife, SignInLife, FlightLife} \subseteq Nat \ {0}
    /\ SignInLife < TokenLife

VARIABLES
    access,          \* The deployment, and bounds. Never changes.
    now,             \* The clock of all replicas.
    token,           \* The tokens issued so far, by number.
    lines,           \* How many session ids were made.
    tokenRow,        \* Until when a token is remembered as revoked.
    lineRow,         \* Until when a session id is.
    activePair,      \* The token whose pair the authority holds active.
    seed,            \* The cached import.
    lock, result,    \* The two keys of the single flight.
    slot,            \* Where every request is.
    loggedOut,       \* History: tokens whose logout was confirmed.
    faults, served   \* How many calls may still fail, and requests come.

sessionVars == <<access, now, token, lines, tokenRow, lineRow, activePair, seed, lock, result,
                 slot, loggedOut, faults, served>>

Token == 1..MaxToken
Line == 1..(2 * MaxToken)

\* line: payload.sessionId, in distributed mode only. until: payload.expiresAt.
\* fresh: until when the StudentHub sign-in lasts.
\* origin: history, the first token of the sign-in it was renewed from.
NoToken == [kind |-> "none", line |-> 0, pair |-> 0, until |-> 0, fresh |-> 0, origin |-> 0]
NoSeed == [line |-> 0, until |-> 0]
NoLock == [holder |-> "nobody", until |-> 0]
NoResult == [token |-> 0, until |-> 0]

(* late: until when an earlier logout must keep a read out. lease: until   *)
(* when the lock it took lasts. cached: its session came from the seed.    *)
(* outcome: what it is answered with once the lock is back.                *)
NewSlot == [op |-> "none", at |-> "idle", token |-> 0, line |-> 0, until |-> 0, late |-> 0,
            lease |-> 0, began |-> 0, cached |-> FALSE, outcome |-> "none"]

Deployment == [mode: {"memory", "cloudflare", "distributed"}, kinds: SUBSET {"uet", "vnu"},
               slots: SUBSET Slot, time: Nat, faults: Nat, requests: 0..MaxToken]

SessionTypeOK ==
    /\ access \in Deployment
    /\ now \in Nat /\ lines \in {0} \cup Line
    /\ token \in [Token -> [kind: {"none", "uet", "vnu"}, line: {0} \cup Line,
                            pair: {0} \cup Token, until: Nat, fresh: Nat,
                            origin: {0} \cup Token]]
    /\ tokenRow \in [Token -> Nat] /\ lineRow \in [Line -> Nat]
    /\ activePair \in {0} \cup Token
    /\ seed \in [line: {0} \cup Line, until: Nat]
    /\ lock \in [holder: Slot \cup {"nobody", "orphan"}, until: Nat]
    /\ result \in [token: {0} \cup Token, until: Nat]
    /\ slot \in [Slot -> [
          op: {"none", "read", "login", "logout"},
          at: {"idle", "line", "token", "refreshing", "cache", "probing", "flight", "locking",
               "waiting", "working", "issuing", "seeding", "publishing", "releasing", "pair",
               "revokingLine", "revokingToken", "accepted", "refused", "answered"},
          token: {0} \cup Token, line: {0} \cup Line, until: Nat, late: Nat, lease: Nat,
          began: Nat, cached: BOOLEAN, outcome: {"none", "answered", "refused"}]]
    /\ loggedOut \subseteq Token
    /\ faults \in Nat /\ served \in Nat

SessionInit ==
    /\ now = 0 /\ lines = 0
    /\ token = [t \in Token |-> NoToken]
    /\ tokenRow = [t \in Token |-> 0] /\ lineRow = [l \in Line |-> 0]
    /\ activePair = 0
    /\ seed = NoSeed /\ lock = NoLock /\ result = NoResult
    /\ slot = [q \in Slot |-> NewSlot]
    /\ loggedOut = {}
    /\ faults = access.faults /\ served = 0

distributed == access.mode = "distributed"
linked == access.mode # "memory"     \* There is an authority of pairs.
fault == faults > 0 /\ faults' = faults - 1

issued == {t \in Token : token[t].kind # "none"}
nextToken == Cardinality(issued) + 1

goes(q, step) == slot' = [slot EXCEPT ![q].at = step]

\* What the client has been told is all that is kept of a request.
over(q, answer) == [NewSlot EXCEPT !.at = answer, !.late = slot[q].late]
finish(q, answer) == slot' = [slot EXCEPT ![q] = over(q, answer)]

remembered == <<tokenRow, lineRow, activePair>>
flightVars == <<lock, result>>
issuing == <<token, lines>>

\* sessionTokenPayload(payload, previous): the session id a new token gets,
\* and how many there are then.
lineOf(payload, previous) ==
    IF ~distributed THEN 0
    ELSE IF payload # 0 THEN payload ELSE IF previous # 0 THEN previous ELSE lines + 1
issues(t, record) ==
    /\ t \in Token /\ record.line \in {0} \cup Line
    /\ token' = [token EXCEPT ![t] = record]
    /\ lines' = IF record.line > lines THEN record.line ELSE lines

\* A free slot takes a request in.
takes(q, request) ==
    /\ q \in access.slots /\ served < access.requests /\ now <= access.time
    /\ slot[q].at \in {"idle", "accepted", "refused", "answered"}
    /\ slot' = [slot EXCEPT ![q] = request]
    /\ served' = served + 1

unchangedByRequest == UNCHANGED <<access, now>>

-----------------------------------------------------------------------------
(* resolveSession(): a request with a token.                               *)

(* Logouts that were confirmed before the request came, of the token or,   *)
(* in distributed mode, of another one of the same sign-in.  Outside       *)
(* distributed mode a revoked token is a cache entry with a lifetime in    *)
(* whole seconds: the last one is not covered.                             *)
outUntil(t) ==
    LET spent == {u \in loggedOut : u = t \/ (distributed /\ token[u].origin = token[t].origin)}
        ends == {IF distributed THEN token[u].until ELSE token[u].until - 1 : u \in spent}
    IN  CHOOSE e \in ends \cup {0} : \A f \in ends : f <= e

Read(q, t) ==
    /\ t \in issued
    /\ IF now >= token[t].until THEN takes(q, [NewSlot EXCEPT !.at = "refused"])
       ELSE takes(q, [NewSlot EXCEPT !.op = "read", !.token = t, !.late = outUntil(t),
                                     !.at = IF token[t].line # 0 THEN "line" ELSE "token"])
    /\ unchangedByRequest
    /\ UNCHANGED <<issuing, remembered, seed, flightVars, loggedOut, faults>>

readKeeps == /\ unchangedByRequest
             /\ UNCHANGED <<remembered, seed, flightVars, loggedOut, served>>

(* isSessionRevoked: without its answer the request is refused.            *)
CheckLine(q) ==
    /\ slot[q].op = "read" /\ slot[q].at = "line"
    /\ \/ /\ UNCHANGED faults
          /\ IF lineRow[token[slot[q].token].line] > now THEN finish(q, "refused")
                                                         ELSE goes(q, "token")
       \/ fault /\ finish(q, "refused")
    /\ readKeeps /\ UNCHANGED issuing

\* The token is good; its StudentHub sign-in may have to be renewed.
accepts(q) ==
    LET t == token[slot[q].token]
    IN  IF t.kind = "uet" /\ now >= t.fresh THEN goes(q, "refreshing") ELSE finish(q, "accepted")

(* checkAccess for a token with a pair, isTokenRevoked for one without,    *)
(* which outside distributed mode accepts what the cache cannot tell.      *)
CheckToken(q) ==
    LET t == slot[q].token
        good == IF token[t].pair # 0 THEN activePair = token[t].pair ELSE tokenRow[t] <= now
    IN  /\ slot[q].op = "read" /\ slot[q].at = "token"
        /\ \/ /\ UNCHANGED faults
              /\ IF good THEN accepts(q) ELSE finish(q, "refused")
           \/ /\ fault
              /\ IF token[t].pair # 0 \/ distributed THEN finish(q, "refused") ELSE accepts(q)
        /\ readKeeps /\ UNCHANGED issuing

uetToken(line, origin) ==
    [kind |-> "uet", line |-> line, pair |-> 0, until |-> now + TokenLife,
     fresh |-> now + SignInLife, origin |-> origin]

\* Mutant: the renewed token is a session of its own.
RenewAsNewLine(q) ==
    /\ slot[q].op = "read" /\ slot[q].at = "refreshing"
    /\ issues(nextToken, uetToken(lineOf(0, 0), token[slot[q].token].origin))
    /\ finish(q, "accepted")
    /\ readKeeps /\ UNCHANGED faults

(* The sign-in is made again with the stored credential, by the automation *)
(* or directly, however long that takes; it yields a token of the same     *)
(* session id with a life of its own, or the request fails.                *)
Renew(q) ==
    LET t == token[slot[q].token]
    IN  /\ slot[q].op = "read" /\ slot[q].at = "refreshing"
        /\ \/ /\ issues(nextToken, uetToken(lineOf(0, t.line), t.origin))
              /\ finish(q, "accepted")
           \/ finish(q, "refused") /\ UNCHANGED issuing
        /\ readKeeps /\ UNCHANGED faults

-----------------------------------------------------------------------------
(* POST /api/:universityId/session/import.                                 *)

\* A sign-in at UET yields a token of its own.
LoginUet(q) ==
    /\ "uet" \in access.kinds
    /\ takes(q, [NewSlot EXCEPT !.at = "answered"])
    /\ issues(nextToken, uetToken(lineOf(0, 0), nextToken))
    /\ unchangedByRequest
    /\ UNCHANGED <<remembered, seed, flightVars, loggedOut, faults>>

Login(q) ==
    /\ "vnu" \in access.kinds
    /\ takes(q, [NewSlot EXCEPT !.op = "login", !.at = "cache", !.began = now])
    /\ unchangedByRequest
    /\ UNCHANGED <<issuing, remembered, seed, flightVars, loggedOut, faults>>

loginKeeps == unchangedByRequest /\ UNCHANGED <<tokenRow, lineRow, loggedOut, served>>

atLogin(q, step) == slot[q].op = "login" /\ slot[q].at = step

\* A login that ends gives its lock back first.
answers(q, answer) ==
    IF slot[q].lease > 0
    THEN slot' = [slot EXCEPT ![q].at = "releasing", ![q].outcome = answer]
    ELSE finish(q, answer)

\* loginAfterCacheMiss.
misses(q) == goes(q, IF distributed THEN "flight" ELSE "working")

(* The cached import, or a cache that does not answer.                     *)
LookUpSeed(q) ==
    /\ atLogin(q, "cache")
    /\ \/ /\ seed.until > now /\ UNCHANGED faults
          /\ slot' = [slot EXCEPT ![q].at = "probing", ![q].line = seed.line,
                                  ![q].until = seed.until]
       \/ seed.until <= now /\ misses(q) /\ UNCHANGED faults
       \/ fault /\ IF distributed THEN finish(q, "refused") ELSE misses(q)
    /\ loginKeeps /\ UNCHANGED <<issuing, activePair, seed, flightVars>>

(* The portal is asked whether the cached session still lives.             *)
ProbeSeed(q) ==
    /\ atLogin(q, "probing")
    /\ \/ slot' = [slot EXCEPT ![q].at = "issuing", ![q].cached = TRUE]
       \/ misses(q)
       \/ finish(q, "refused")
    /\ loginKeeps /\ UNCHANGED <<issuing, activePair, seed, flightVars, faults>>

(* RedisSingleFlight.run: a result that is still there is everybody's.     *)
GetResult(q) ==
    /\ atLogin(q, "flight")
    /\ \/ /\ result.until > now /\ UNCHANGED faults
          /\ slot' = [slot EXCEPT ![q] = [over(q, "answered") EXCEPT !.token = result.token]]
       \/ result.until <= now /\ goes(q, "locking") /\ UNCHANGED faults
       \/ fault /\ finish(q, "refused")
    /\ loginKeeps /\ UNCHANGED <<issuing, activePair, seed, flightVars>>

TakeLock(q) ==
    LET taken == [holder |-> q, until |-> now + FlightLife]
    IN  /\ atLogin(q, "locking")
        /\ \/ /\ lock.until <= now /\ lock' = taken /\ UNCHANGED faults
              /\ slot' = [slot EXCEPT ![q].at = "working", ![q].lease = taken.until]
           \/ /\ lock.until > now /\ UNCHANGED <<lock, faults>>
              /\ IF now >= slot[q].began + FlightLife THEN finish(q, "refused")
                                                      ELSE goes(q, "waiting")
           \/ /\ fault /\ finish(q, "refused")
              /\ lock' \in {lock, IF lock.until <= now
                                  THEN [taken EXCEPT !.holder = "orphan"] ELSE lock}
        /\ loginKeeps /\ UNCHANGED <<issuing, activePair, seed, result>>

(* The signal wakes one waiter; the others wait out their time.            *)
StopWaiting(q) ==
    /\ atLogin(q, "waiting")
    /\ result.until > now \/ lock.until <= now \/ now >= slot[q].began + FlightLife
    /\ goes(q, "flight")
    /\ loginKeeps /\ UNCHANGED <<issuing, activePair, seed, flightVars, faults>>

(* loginAndCache: the portal's login takes the time it takes.              *)
LoginAtPortal(q) ==
    /\ atLogin(q, "working")
    /\ \/ slot' = [slot EXCEPT ![q].at = "issuing", ![q].until = now + TokenLife]
       \/ answers(q, "refused")
    /\ loginKeeps /\ UNCHANGED <<issuing, activePair, seed, flightVars, faults>>

(* issueVnuAuthResult: the pair of the new token replaces the active one.  *)
IssueToken(q) ==
    LET t == nextToken
        pair == IF linked THEN t ELSE 0
        record == [kind |-> "vnu", line |-> lineOf(slot[q].line, 0), pair |-> pair,
                   until |-> slot[q].until, fresh |-> 0, origin |-> t]
        activated == IF linked THEN t ELSE activePair
    IN  /\ atLogin(q, "issuing")
        /\ \/ /\ issues(t, record) /\ activePair' = activated /\ UNCHANGED faults
              /\ slot' = [slot EXCEPT ![q] = IF @.cached
                            THEN [over(q, "answered") EXCEPT !.token = t]
                            ELSE [@ EXCEPT !.at = "seeding", !.token = t]]
           \/ /\ linked /\ fault
              /\ activePair' \in {activePair, 0} /\ answers(q, "refused") /\ UNCHANGED issuing
        /\ loginKeeps /\ UNCHANGED <<seed, flightVars>>

(* The cached copy of the session gets a session id of its own.            *)
CacheSeed(q) ==
    LET line == lineOf(0, 0)
        cached == [line |-> line, until |-> slot[q].until]
        next == IF distributed THEN goes(q, "publishing") ELSE answers(q, "answered")
    IN  /\ atLogin(q, "seeding") /\ line \in {0} \cup Line
        /\ lines' = IF line > lines THEN line ELSE lines
        /\ \/ seed' = cached /\ next /\ UNCHANGED faults
           \/ /\ fault /\ seed' \in {seed, cached}
              /\ IF distributed THEN answers(q, "refused") ELSE answers(q, "answered")
        /\ loginKeeps /\ UNCHANGED <<token, activePair, flightVars>>

PublishResult(q) ==
    LET published == [token |-> slot[q].token, until |-> now + FlightLife]
    IN  /\ atLogin(q, "publishing")
        /\ \/ result' = published /\ answers(q, "answered") /\ UNCHANGED faults
           \/ fault /\ result' \in {result, published} /\ answers(q, "refused")
        /\ loginKeeps /\ UNCHANGED <<issuing, activePair, seed, lock>>

\* Mutant: the lock is deleted whoever holds it.
ReleaseAnyLock(q) ==
    /\ atLogin(q, "releasing")
    /\ lock' = NoLock
    /\ finish(q, slot[q].outcome)
    /\ loginKeeps /\ UNCHANGED <<issuing, activePair, seed, result, faults>>

(* releaseRedisLock compares its token; its failure is swallowed.          *)
ReleaseLock(q) ==
    LET mine == lock.holder = q
    IN  /\ atLogin(q, "releasing")
        /\ \/ lock' = (IF mine THEN NoLock ELSE lock) /\ UNCHANGED faults
           \/ fault /\ lock' = IF mine THEN [lock EXCEPT !.holder = "orphan"] ELSE lock
        /\ slot' = [slot EXCEPT ![q] = [over(q, slot[q].outcome) EXCEPT
                        !.token = IF slot[q].outcome = "answered" THEN slot[q].token ELSE 0]]
        /\ loginKeeps /\ UNCHANGED <<issuing, activePair, seed, result>>

-----------------------------------------------------------------------------
(* POST /api/vnu/auth/logout and /api/:universityId/auth/logout.           *)

(* A token past its life has nothing to revoke.                            *)
Logout(q, t) ==
    /\ t \in issued
    /\ IF now >= token[t].until THEN takes(q, [NewSlot EXCEPT !.at = "answered"])
       ELSE takes(q, [NewSlot EXCEPT !.op = "logout", !.token = t,
                        !.at = IF token[t].pair # 0 THEN "pair"
                               ELSE IF token[t].line # 0 THEN "revokingLine"
                               ELSE "revokingToken"])
    /\ unchangedByRequest
    /\ UNCHANGED <<issuing, remembered, seed, flightVars, loggedOut, faults>>

logoutKeeps == unchangedByRequest /\ UNCHANGED <<issuing, seed, flightVars, served>>

\* The client is told that it is signed out.
confirms(q) == finish(q, "answered") /\ loggedOut' = loggedOut \cup {slot[q].token}

(* A pair that is not the active one any more cannot be revoked.           *)
RevokePair(q) ==
    LET t == slot[q].token
        mine == activePair = token[t].pair
        revoked == IF mine THEN 0 ELSE activePair
    IN  /\ slot[q].op = "logout" /\ slot[q].at = "pair"
        /\ \/ /\ activePair' = revoked /\ UNCHANGED faults
              /\ IF ~mine THEN finish(q, "refused") /\ UNCHANGED loggedOut
                 ELSE IF token[t].line # 0 THEN goes(q, "revokingLine") /\ UNCHANGED loggedOut
                 ELSE confirms(q)
           \/ /\ fault /\ activePair' \in {activePair, revoked}
              /\ finish(q, "refused") /\ UNCHANGED loggedOut
        /\ logoutKeeps /\ UNCHANGED <<tokenRow, lineRow>>

larger(a, b) == IF a > b THEN a ELSE b

(* revokeSession: GREATEST(the row, the token's expiry).                   *)
RevokeLine(q) ==
    LET t == slot[q].token
        l == token[t].line
        revoked == [lineRow EXCEPT ![l] = larger(@, token[t].until)]
    IN  /\ slot[q].op = "logout" /\ slot[q].at = "revokingLine"
        /\ \/ /\ lineRow' = revoked /\ UNCHANGED faults
              /\ IF token[t].pair # 0 THEN confirms(q)
                 ELSE goes(q, "revokingToken") /\ UNCHANGED loggedOut
           \/ /\ fault /\ lineRow' \in {lineRow, revoked}
              /\ finish(q, "refused") /\ UNCHANGED loggedOut
        /\ logoutKeeps /\ UNCHANGED <<tokenRow, activePair>>

(* revokeToken: a row of the exact expiry, or a cache entry for the whole  *)
(* seconds until then, which may not have been written at all.             *)
RevokeToken(q) ==
    LET t == slot[q].token
        end == token[t].until
        revoked(e) == [tokenRow EXCEPT ![t] = larger(@, e)]
    IN  /\ slot[q].op = "logout" /\ slot[q].at = "revokingToken"
        /\ \/ /\ tokenRow' \in {revoked(end)} \cup IF distributed THEN {} ELSE {revoked(end - 1)}
              /\ confirms(q) /\ UNCHANGED faults
           \/ /\ fault /\ tokenRow' \in {tokenRow, revoked(end)}
              /\ IF distributed THEN finish(q, "refused") /\ UNCHANGED loggedOut ELSE confirms(q)
        /\ logoutKeeps /\ UNCHANGED <<lineRow, activePair>>

-----------------------------------------------------------------------------
\* The clock stops at its bound, but for those who wait.
SessionTick ==
    /\ \/ now < access.time
       \/ \E q \in Slot : slot[q].at = "waiting" /\ now < slot[q].began + FlightLife
    /\ now' = now + 1
    /\ UNCHANGED <<access, token, lines, remembered, seed, flightVars, slot, loggedOut, faults,
                   served>>

ReadStep(q) == CheckLine(q) \/ CheckToken(q) \/ Renew(q)
LoginStep(q) ==
    \/ LookUpSeed(q) \/ ProbeSeed(q) \/ GetResult(q) \/ TakeLock(q) \/ StopWaiting(q)
    \/ LoginAtPortal(q) \/ IssueToken(q) \/ CacheSeed(q) \/ PublishResult(q) \/ ReleaseLock(q)
LogoutStep(q) == RevokePair(q) \/ RevokeLine(q) \/ RevokeToken(q)

SessionProgress ==
    \/ \E q \in Slot : ReadStep(q) \/ LoginStep(q) \/ LogoutStep(q)
    \/ SessionTick

SessionNext ==
    \/ SessionProgress
    \/ \E q \in Slot : Login(q) \/ LoginUet(q)
    \/ \E q \in Slot, t \in Token : Read(q, t) \/ Logout(q, t)

-----------------------------------------------------------------------------
(* A request that comes after a confirmed logout of its token, or in       *)
(* distributed mode of any token of the same sign-in, is refused as long   *)
(* as that one would have lived, whatever was renewed or cached meanwhile. *)
(* Outside distributed mode a failing cache may forget.                    *)
LoggedOutStaysOut ==
    \A q \in Slot :
        slot[q].at \in {"accepted", "refreshing"} /\ slot[q].late > now =>
            ~distributed /\ faults < access.faults

(* Two logins are made at the portal at once only if one of them outlasted *)
(* the lock it had.                                                        *)
LoginsOverlapOnlyPastLock ==
    Cardinality({q \in Slot : /\ slot[q].at \in {"working", "issuing", "seeding", "publishing"}
                              /\ slot[q].lease > now}) <= 1

(* A login from the cache hands out a token that works: nobody's logout of *)
(* another token has revoked it beforehand                                 *)
(* (2026-07-27-vnu-cached-session-token-design.md:71).                     *)
LoginHandsOutLiveToken ==
    \A q \in Slot : slot[q].op = "login" /\ slot[q].at = "issuing" /\ slot[q].cached =>
        slot[q].line = 0 \/ lineRow[slot[q].line] <= now
=============================================================================
