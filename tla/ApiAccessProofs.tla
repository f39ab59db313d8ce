--------------------------- MODULE ApiAccessProofs ---------------------------
(***************************************************************************)
(* Proofs about the access to the API (ApiAccess).  Its three parts share  *)
(* no state, so each has an inductive invariant of its own, proved first:  *)
(*   sessions  what a confirmed logout left behind is still there, and     *)
(*             every request that is under way will meet it;               *)
(*   imports   the claim names the one job that lives, and every job was   *)
(*             drawn by one import;                                        *)
(*   admin     what a window has counted bounds the attempts of every      *)
(*             interval of its length, and what a page shows is backed by  *)
(*             the session it acts with.                                   *)
(* The end of the module puts them together.                               *)
(***************************************************************************)
EXTENDS ApiAccess, FiniteSetTheorems, TLAPS

----------------------------------------------------------------------------
(* The sessions of the API's own tokens (ApiSessions)                      *)

TokenState == [kind: {"none", "uet", "vnu"}, line: {0} \cup Line, pair: {0} \cup Token,
               until: Nat, fresh: Nat, origin: {0} \cup Token]
SeedState == [line: {0} \cup Line, until: Nat]
LockState == [holder: Slot \cup {"nobody", "orphan"}, until: Nat]
ResultState == [token: {0} \cup Token, until: Nat]
SlotState ==
    [op: {"none", "read", "login", "logout"},
     at: {"idle", "line", "token", "refreshing", "cache", "probing", "flight", "locking",
          "waiting", "working", "issuing", "seeding", "publishing", "releasing", "pair",
          "revokingLine", "revokingToken", "accepted", "refused", "answered"},
     token: {0} \cup Token, line: {0} \cup Line, until: Nat, late: Nat, lease: Nat,
     began: Nat, cached: BOOLEAN, outcome: {"none", "answered", "refused"}]

\* A token keeps the session id of the sign-in it comes from.
TokensKnown ==
    /\ \A t \in Token : t \in issued <=> t <= Cardinality(issued)
    /\ \A t \in issued :
          /\ token[t].until > 0 /\ token[t].pair \in {0, t}
          /\ IF distributed
             THEN /\ token[t].line \in Line /\ token[t].origin \in issued
                  /\ token[token[t].origin].line = token[t].line
             ELSE token[t].line = 0

\* What a confirmed logout leaves behind.
LogoutsKept ==
    /\ loggedOut \subseteq issued
    /\ faults <= access.faults
    /\ distributed => \A u \in loggedOut : lineRow[token[u].line] >= token[u].until
    /\ ~distributed /\ faults = access.faults =>
          \A u \in loggedOut : IF token[u].pair # 0 THEN activePair # token[u].pair
                               ELSE tokenRow[u] >= token[u].until - 1

\* Steps of a read, and of a logout.
reading(x) == x.at \in {"line", "token", "refreshing"}
revoking(x) == x.at \in {"pair", "revokingLine", "revokingToken"}

\* A request: what it has yet to hear, it hears.
RequestOK(x) ==
    /\ reading(x) <=> x.op = "read"
    /\ revoking(x) <=> x.op = "logout"
    /\ reading(x) \/ revoking(x) => x.token \in issued
    /\ x.at = "releasing" => x.outcome # "none"
    /\ x.at \in {"probing", "issuing"} => x.until > 0
    /\ x.at = "pair" => token[x.token].pair # 0
    /\ x.at = "revokingLine" => token[x.token].line # 0
    /\ x.at = "revokingToken" =>
          /\ token[x.token].pair = 0
          /\ distributed => lineRow[token[x.token].line] >= token[x.token].until
    /\ distributed /\ x.at = "line" => x.late <= lineRow[token[x.token].line]
    /\ distributed /\ x.at \in {"token", "refreshing", "accepted"} => x.late <= now
    /\ ~distributed /\ x.at \in {"line", "token"} /\ x.late > 0 =>
          x.token \in loggedOut /\ x.late <= token[x.token].until - 1
    /\ ~distributed /\ x.at \in {"refreshing", "accepted"} =>
          x.late <= now \/ faults < access.faults

RequestsOK == \A q \in Slot : RequestOK(slot[q])

\* A lock that still lasts for whoever took it is his.
LocksKept ==
    \A q \in Slot : slot[q].lease > now => lock.holder = q /\ lock.until = slot[q].lease

SessionInv == SessionTypeOK /\ TokensKnown /\ LogoutsKept /\ RequestsOK /\ LocksKept

\* A finite set has a member of greatest value: the sets of members above its
\* members are finite, and strict inclusion orders them well.
LEMMA GreatestValue ==
    ASSUME NEW S, IsFiniteSet(S), S # {}, NEW f \in [S -> Nat]
    PROVE  \E x \in S : \A y \in S : f[y] <= f[x]
  <1> DEFINE above(x) == {y \in S : f[x] < f[y]}
             Above == {above(x) : x \in S}
             strict == StrictSubsetOrdering(S)
  <1>1. Above \subseteq FiniteSubsetsOf(S) /\ Above # {}
    <2>1. \A x \in S : above(x) \in SUBSET S /\ IsFiniteSet(above(x))
      BY FS_Subset
    <2>2. \A x \in S : above(x) \in FiniteSubsetsOf(S)
      BY <2>1 DEF FiniteSubsetsOf
    <2> HIDE DEF above
    <2>3. QED BY <2>2
  <1>2. IsWellFoundedOn(strict, FiniteSubsetsOf(S))
    BY FS_StrictSubsetOrderingWellFounded
  <1>3. \E T \in Above : \A U \in Above : ~ (<<U, T>> \in strict)
    <2> HIDE DEF Above, strict
    <2>1. QED BY <1>1, <1>2, WFMin
  <1>4. PICK x \in S : \A y \in S : ~ (<<above(y), above(x)>> \in strict)
    <2> HIDE DEF strict
    <2>1. PICK T \in Above : \A U \in Above : ~ (<<U, T>> \in strict)
      BY <1>3
    <2>2. PICK x \in S : T = above(x)
      BY <2>1
    <2>3. \A y \in S : above(y) \in Above
      OBVIOUS
    <2>4. QED BY <2>1, <2>2, <2>3
  <1>5. ASSUME NEW y \in S, ~(f[y] <= f[x])
        PROVE  FALSE
    <2>1. f[x] \in Nat /\ f[y] \in Nat /\ f[x] < f[y]
      BY <1>5
    <2>2. above(y) \subseteq above(x) /\ above(y) # above(x)
      <3>1. y \in above(x) /\ y \notin above(y)
        BY <2>1
      <3>2. \A z \in S : f[z] \in Nat
        OBVIOUS
      <3>3. above(y) \subseteq above(x)
        BY <2>1, <3>2
      <3>4. QED BY <3>1, <3>3
    <2> HIDE DEF Above
    <2>3. above(x) \in SUBSET S /\ above(y) \in SUBSET S
      OBVIOUS
    <2> HIDE DEF above
    <2>4. <<above(y), above(x)>> \in strict
      BY <2>2, <2>3 DEF StrictSubsetOrdering
    <2>5. QED BY <1>4, <2>4
  <1>6. QED BY <1>5

LEMMA SessionNumbers ==
    /\ MaxToken \in Nat /\ TokenLife \in Nat /\ SignInLife \in Nat /\ FlightLife \in Nat
    /\ MaxToken >= 1 /\ TokenLife >= 1 /\ SignInLife >= 1 /\ FlightLife >= 1
    /\ Token \subseteq Nat /\ 0 \notin Token /\ Line \subseteq Nat /\ 0 \notin Line
  BY SessionAssumption DEF Token, Line

LEMMA SessionTypes ==
    ASSUME SessionTypeOK
    PROVE  /\ access \in Deployment /\ access.faults \in Nat /\ access.time \in Nat
           /\ now \in Nat /\ lines \in {0} \cup Line /\ lines \in Nat
           /\ token \in [Token -> TokenState] /\ tokenRow \in [Token -> Nat]
           /\ lineRow \in [Line -> Nat] /\ activePair \in {0} \cup Token
           /\ seed \in SeedState /\ lock \in LockState /\ result \in ResultState
           /\ slot \in [Slot -> SlotState] /\ loggedOut \subseteq Token
           /\ faults \in Nat /\ served \in Nat
  BY SessionNumbers DEF SessionTypeOK, TokenState, SeedState, LockState, ResultState, SlotState,
     Deployment

LEMMA SessionTypesKept ==
    ASSUME SessionTypeOK, access' = access, now' \in Nat, lines' \in {0} \cup Line,
           token' \in [Token -> TokenState], tokenRow' \in [Token -> Nat],
           lineRow' \in [Line -> Nat], activePair' \in {0} \cup Token,
           seed' \in SeedState, lock' \in LockState, result' \in ResultState,
           slot' \in [Slot -> SlotState], loggedOut' \subseteq Token,
           faults' \in Nat, served' \in Nat
    PROVE  SessionTypeOK'
  BY DEF SessionTypeOK, TokenState, SeedState, LockState, ResultState, SlotState, Deployment,
     Token, Line

LEMMA IssuedFinite ==
    ASSUME SessionTypeOK
    PROVE  /\ IsFiniteSet(issued) /\ Cardinality(issued) \in Nat
           /\ issued \subseteq Token /\ nextToken \in Nat
  <1>1. IsFiniteSet(1..MaxToken)
    BY SessionNumbers, FS_Interval
  <1>2. issued \in SUBSET (1..MaxToken)
    BY DEF issued, Token
  <1>3. IsFiniteSet(issued)
    BY <1>1, <1>2, FS_Subset
  <1>4. Cardinality(issued) \in Nat
    BY <1>3, FS_CardinalityType
  <1>5. QED BY <1>2, <1>3, <1>4 DEF nextToken, Token

\* The next token is a new one, and the ones before it stay what they are.
LEMMA NewToken ==
    ASSUME SessionInv, NEW r \in TokenState, r.kind # "none", issues(nextToken, r)
    PROVE  /\ nextToken \in Token /\ nextToken \notin issued
           /\ token' \in [Token -> TokenState] /\ lines' \in {0} \cup Line
           /\ issued' = issued \cup {nextToken}
           /\ \A t \in issued : token'[t] = token[t]
           /\ token'[nextToken] = r
           /\ \A t \in Token : t \in issued' <=> t <= Cardinality(issued')
  <1> DEFINE n == nextToken
  <1>1. /\ SessionTypeOK /\ token \in [Token -> TokenState] /\ lines \in {0} \cup Line
        /\ IsFiniteSet(issued) /\ Cardinality(issued) \in Nat /\ issued \subseteq Token
        /\ n = Cardinality(issued) + 1
    BY SessionTypes, IssuedFinite DEF SessionInv, nextToken
  <1>2. /\ n \in Token /\ r.line \in {0} \cup Line
        /\ token' = [token EXCEPT ![n] = r]
        /\ lines' = IF r.line > lines THEN r.line ELSE lines
    BY DEF issues
  <1>3. n \notin issued
    BY <1>1, <1>2, SessionNumbers DEF SessionInv, TokensKnown
  <1> HIDE DEF n
  <1>4. \A t \in Token : token'[t] = IF t = n THEN r ELSE token[t]
    BY <1>1, <1>2
  <1>5. issued' = issued \cup {n}
    BY <1>2, <1>4 DEF issued
  <1>6. Cardinality(issued') = Cardinality(issued) + 1
    BY <1>1, <1>3, <1>5, FS_AddElement
  <1>7. \A t \in Token : t \in issued' <=> t <= Cardinality(issued')
    <2>1. \A t \in Token : t \in issued <=> t <= Cardinality(issued)
      BY DEF SessionInv, TokensKnown
    <2>2. \A t \in Token : t \in Nat
      BY SessionNumbers
    <2>3. QED BY <1>1, <1>5, <1>6, <2>1, <2>2
  <1>8. QED BY <1>1, <1>2, <1>3, <1>4, <1>5, <1>7 DEF n

\* What every step of a session leaves as it was, or only adds to.
World ==
    /\ access' = access /\ now' >= now /\ now' \in Nat
    /\ \A t \in issued : t \in issued' /\ token'[t] = token[t]
    /\ \A l \in Line : lineRow'[l] >= lineRow[l]
    /\ loggedOut \subseteq loggedOut' /\ faults' <= faults /\ faults' \in Nat

LEMMA RequestAges ==
    ASSUME SessionInv, World, lineRow' \in [Line -> Nat],
           NEW x \in SlotState, RequestOK(x)
    PROVE  RequestOK(x)'
  <1>1. /\ lineRow \in [Line -> Nat] /\ now \in Nat /\ token \in [Token -> TokenState]
        /\ access.faults \in Nat /\ faults \in Nat /\ issued \subseteq Token
        /\ access' = access /\ (distributed <=> distributed')
    BY SessionTypes, IssuedFinite DEF SessionInv, World, distributed
  <1>2. /\ x.late \in Nat /\ (reading(x)' <=> reading(x)) /\ (revoking(x)' <=> revoking(x))
    BY DEF SlotState, reading, revoking
  <1> DEFINE t == x.token
             a == x.at
  <1>3. a \in {"line", "token", "refreshing", "pair", "revokingLine", "revokingToken"} =>
            t \in issued /\ t \in issued' /\ token'[t] = token[t]
            /\ token[t].until \in Nat /\ token[t].line \in {0} \cup Line
    BY <1>1 DEF RequestOK, World, reading, revoking, TokenState
  <1>4. distributed /\ a \in {"line", "token", "refreshing", "pair", "revokingLine",
                              "revokingToken"} =>
            /\ token[t].line \in Line
            /\ lineRow'[token[t].line] \in Nat /\ lineRow[token[t].line] \in Nat
            /\ lineRow'[token[t].line] >= lineRow[token[t].line]
    BY <1>1, <1>3 DEF SessionInv, TokensKnown, World
  <1>5. reading(x)' \/ revoking(x)' => x.token \in issued'
    BY <1>2, <1>3 DEF reading, revoking
  <1>6. /\ a = "pair" => token'[t].pair # 0
        /\ a = "revokingLine" => token'[t].line # 0
    BY <1>3 DEF RequestOK
  <1>7. a = "revokingToken" =>
            /\ token'[t].pair = 0
            /\ distributed' => lineRow'[token'[t].line] >= token'[t].until
    BY <1>1, <1>3, <1>4 DEF RequestOK
  <1>8. distributed' /\ a = "line" => x.late <= lineRow'[token'[t].line]
    BY <1>1, <1>2, <1>3, <1>4 DEF RequestOK
  <1>9. distributed' /\ a \in {"token", "refreshing", "accepted"} => x.late <= now'
    BY <1>1, <1>2 DEF RequestOK, World
  <1>10. ~distributed' /\ a \in {"line", "token"} /\ x.late > 0 =>
            t \in loggedOut' /\ x.late <= token'[t].until - 1
    BY <1>1, <1>3 DEF RequestOK, World
  <1>11. ~distributed' /\ a \in {"refreshing", "accepted"} =>
            x.late <= now' \/ faults' < access'.faults
    BY <1>1, <1>2 DEF RequestOK, World
  <1>12. /\ reading(x)' <=> x.op = "read"
         /\ revoking(x)' <=> x.op = "logout"
         /\ a = "releasing" => x.outcome # "none"
         /\ a \in {"probing", "issuing"} => x.until > 0
    BY <1>2 DEF RequestOK
  <1>13. QED
    BY <1>5, <1>6, <1>7, <1>8, <1>9, <1>10, <1>11, <1>12 DEF RequestOK

\* One request goes on.
LEMMA RequestsAge ==
    ASSUME SessionInv, World, lineRow' \in [Line -> Nat], NEW q \in Slot,
           NEW x \in SlotState, slot' = [slot EXCEPT ![q] = x], RequestOK(x)'
    PROVE  RequestsOK' /\ slot' \in [Slot -> SlotState]
           /\ slot'[q] = x /\ \A p \in Slot : p # q => slot'[p] = slot[p]
  <1>1. slot \in [Slot -> SlotState] /\ RequestsOK
    BY SessionTypes DEF SessionInv
  <1>2. slot'[q] = x /\ \A p \in Slot : p # q => slot'[p] = slot[p]
    BY <1>1
  <1>3. slot' \in [Slot -> SlotState]
    BY <1>1
  <1>4. ASSUME NEW p \in Slot, p # q
        PROVE  RequestOK(slot[p])'
    <2>1. PICK y \in SlotState : y = slot[p]
      BY <1>1
    <2>2. RequestOK(y)
      BY <1>1, <2>1 DEF RequestsOK
    <2>3. RequestOK(y)'
      BY <2>2, RequestAges
    <2>4. slot'[p] = y
      BY <1>2, <1>4, <2>1
    <2>5. QED BY <2>3, <2>4
  <1>5. RequestOK(slot[q])'
    BY <1>2
  <1>6. \A p \in Slot : RequestOK(slot[p])'
    BY <1>4, <1>5
  <1>7. QED BY <1>2, <1>3, <1>6 DEF RequestsOK

\* A request of which nothing is expected.
Harmless(x) ==
    /\ x.at \notin {"line", "token", "refreshing", "pair", "revokingLine", "revokingToken",
                    "accepted"}
    /\ x.op \notin {"read", "logout"}
    /\ x.at = "releasing" => x.outcome # "none"
    /\ x.at \in {"probing", "issuing"} => x.until > 0

LEMMA HarmlessOK ==
    ASSUME NEW x, Harmless(x)
    PROVE  RequestOK(x)'
  BY DEF Harmless, RequestOK, reading, revoking

\* The slot goes on, and takes no lock.
Moves(q) ==
    \E x \in SlotState : /\ slot' = [slot EXCEPT ![q] = x]
                         /\ RequestOK(x)'
                         /\ x.lease \in {0, slot[q].lease}
QuietMoves(q) ==
    \E x \in SlotState : /\ slot' = [slot EXCEPT ![q] = x]
                         /\ Harmless(x)
                         /\ x.lease \in {0, slot[q].lease}

LEMMA QuietIsSafe ==
    ASSUME NEW q \in Slot, QuietMoves(q)
    PROVE  Moves(q)
  BY HarmlessOK DEF QuietMoves, Moves

LEMMA LockUnmoved ==
    ASSUME SessionInv, NEW q \in Slot, NEW x \in SlotState, slot' = [slot EXCEPT ![q] = x],
           x.lease \in {0, slot[q].lease}, lock' = lock, now' = now
    PROVE  LocksKept'
  <1>1. slot \in [Slot -> SlotState] /\ now \in Nat /\ LocksKept
    BY SessionTypes DEF SessionInv
  <1>2. \A p \in Slot : slot'[p].lease = slot[p].lease \/ slot'[p].lease = 0
    BY <1>1
  <1>3. \A p \in Slot : slot'[p].lease > now' => slot'[p].lease = slot[p].lease
    BY <1>1, <1>2
  <1>4. QED BY <1>1, <1>3 DEF LocksKept

\* The parts of the state that a step may change, beside the slots.
TokensGrow ==
    /\ token' \in [Token -> TokenState] /\ lines' \in {0} \cup Line
    /\ \A t \in issued : t \in issued' /\ token'[t] = token[t]
    /\ TokensKnown'

LEMMA TokensUnmoved ==
    ASSUME SessionInv, access' = access, token' = token, lines' \in {0} \cup Line
    PROVE  TokensGrow
  <1>1. token \in [Token -> TokenState] /\ TokensKnown
    BY SessionTypes DEF SessionInv
  <1>2. issued' = issued /\ (distributed' <=> distributed)
    BY DEF issued, distributed
  <1>3. TokensKnown'
    BY <1>1, <1>2 DEF TokensKnown
  <1>4. QED BY <1>1, <1>2, <1>3 DEF TokensGrow

FlightTyped == seed' \in SeedState /\ result' \in ResultState /\ lock' \in LockState

LEMMA FaultCounts ==
    ASSUME SessionInv, faults' = faults \/ fault
    PROVE  faults' <= faults /\ faults' \in Nat /\ (fault => faults' < access.faults)
  <1>1. faults \in Nat /\ access.faults \in Nat /\ faults <= access.faults
    BY SessionTypes DEF SessionInv, LogoutsKept
  <1>2. QED BY <1>1 DEF fault

\* A step of a request, from what it does to each part of the invariant.
LEMMA StepKeeps ==
    ASSUME SessionInv, World, NEW q \in Slot, NEW x \in SlotState,
           slot' = [slot EXCEPT ![q] = x], RequestOK(x)', LocksKept', LogoutsKept',
           TokensGrow, FlightTyped, tokenRow' \in [Token -> Nat], lineRow' \in [Line -> Nat],
           activePair' \in {0} \cup Token, loggedOut' \subseteq Token, served' \in Nat
    PROVE  SessionInv'
  <1>1. SessionTypeOK
    BY DEF SessionInv
  <1>2. RequestsOK' /\ slot' \in [Slot -> SlotState]
    BY RequestsAge
  <1>3. SessionTypeOK'
    BY <1>1, <1>2, SessionTypesKept DEF World, FlightTyped, TokensGrow
  <1>4. QED BY <1>2, <1>3 DEF SessionInv, TokensGrow

\* What was logged out stays so where nobody is logged out.
LEMMA LogoutsStay ==
    ASSUME SessionInv, access' = access, UNCHANGED <<tokenRow, lineRow, loggedOut>>,
           faults' = faults \/ fault, TokensGrow,
           activePair' \in {activePair, 0} \/ activePair' \notin issued
    PROVE  LogoutsKept'
  <1>1. /\ faults \in Nat /\ access.faults \in Nat /\ LogoutsKept
        /\ (distributed' <=> distributed)
        /\ faults' <= faults /\ faults' \in Nat
    BY SessionTypes, FaultCounts DEF SessionInv, distributed
  <1>2. loggedOut' \subseteq issued' /\ faults' <= access'.faults
    BY <1>1 DEF LogoutsKept, TokensGrow
  <1>3. distributed' => \A u \in loggedOut' : lineRow'[token'[u].line] >= token'[u].until
    BY <1>1 DEF LogoutsKept, TokensGrow
  <1>4. ASSUME ~distributed', faults' = access'.faults, NEW u \in loggedOut'
        PROVE  IF token'[u].pair # 0 THEN activePair' # token'[u].pair
               ELSE tokenRow'[u] >= token'[u].until - 1
    <2>1. ~distributed /\ faults = access.faults /\ u \in issued /\ token'[u] = token[u]
      BY <1>1, <1>4 DEF LogoutsKept, TokensGrow
    <2>2. IF token[u].pair # 0 THEN activePair # token[u].pair
          ELSE tokenRow[u] >= token[u].until - 1
      BY <1>1, <1>4, <2>1 DEF LogoutsKept
    <2>3. token[u].pair \in {0, u}
      BY <2>1 DEF SessionInv, TokensKnown
    <2>4. QED BY <2>1, <2>2, <2>3
  <1>5. QED BY <1>2, <1>3, <1>4 DEF LogoutsKept

\* The state around a request that revokes nothing.
Around ==
    /\ access' = access /\ now' = now /\ UNCHANGED <<tokenRow, lineRow, loggedOut>>
    /\ served' \in Nat /\ FlightTyped /\ TokensGrow /\ activePair' \in {0} \cup Token
    /\ activePair' \in {activePair, 0} \/ activePair' \notin issued

LEMMA AroundIsWorld ==
    ASSUME SessionInv, Around, faults' = faults \/ fault
    PROVE  /\ World /\ LogoutsKept' /\ tokenRow' \in [Token -> Nat]
           /\ lineRow' \in [Line -> Nat] /\ loggedOut' \subseteq Token
  <1>1. /\ SessionTypeOK /\ now \in Nat /\ now' \in Nat /\ now' >= now
        /\ lineRow' \in [Line -> Nat] /\ tokenRow' \in [Token -> Nat]
        /\ loggedOut' \subseteq Token /\ \A l \in Line : lineRow'[l] >= lineRow[l]
    BY SessionTypes DEF SessionInv, Around
  <1>2. World
    BY <1>1, FaultCounts DEF World, TokensGrow, Around
  <1>3. LogoutsKept'
    BY LogoutsStay DEF Around
  <1>4. QED BY <1>1, <1>2, <1>3

\* A step of a request that revokes nothing and takes no lock.
LEMMA RequestStep ==
    ASSUME SessionInv, NEW q \in Slot, Moves(q), access' = access, now' = now,
           UNCHANGED <<tokenRow, lineRow, loggedOut>>, lock' = lock,
           faults' = faults \/ fault, served' \in Nat,
           FlightTyped, TokensGrow, activePair' \in {0} \cup Token,
           activePair' \in {activePair, 0} \/ activePair' \notin issued
    PROVE  SessionInv'
  <1> PICK x \in SlotState : /\ slot' = [slot EXCEPT ![q] = x]
                             /\ RequestOK(x)'
                             /\ x.lease \in {0, slot[q].lease}
    BY DEF Moves
  <1>1. Around
    BY DEF Around
  <1>2. LocksKept'
    BY LockUnmoved
  <1>3. /\ World /\ LogoutsKept' /\ tokenRow' \in [Token -> Nat]
        /\ lineRow' \in [Line -> Nat] /\ loggedOut' \subseteq Token
    BY <1>1, AroundIsWorld
  <1>4. QED BY <1>2, <1>3, StepKeeps

----------------------------------------------------------------------------

LEMMA GoesQuietly ==
    ASSUME SessionInv, NEW q \in Slot, slot[q].op = "login",
           NEW a \in {"flight", "locking", "waiting", "working", "publishing"},
           goes(q, a)
    PROVE  QuietMoves(q)
  <1> DEFINE x == [slot[q] EXCEPT !.at = a]
  <1>1. slot[q] \in SlotState
    BY SessionTypes DEF SessionInv
  <1>2. x \in SlotState /\ x.lease = slot[q].lease /\ x.op = "login" /\ x.at = a
    BY <1>1 DEF SlotState
  <1>3. slot' = [slot EXCEPT ![q] = x]
    BY DEF goes
  <1> HIDE DEF x
  <1>4. Harmless(x)
    BY <1>2 DEF Harmless
  <1>5. QED BY <1>2, <1>3, <1>4 DEF QuietMoves

LEMMA OverState ==
    ASSUME SessionInv, NEW q \in Slot, NEW a \in {"accepted", "refused", "answered"}
    PROVE  /\ over(q, a) \in SlotState /\ over(q, a).lease = 0 /\ over(q, a).op = "none"
           /\ over(q, a).at = a /\ over(q, a).late = slot[q].late
           /\ \A t \in {0} \cup Token :
                  LET x == [over(q, a) EXCEPT !.token = t]
                  IN  x \in SlotState /\ x.lease = 0 /\ x.op = "none" /\ x.at = a
  <1>1. slot[q].late \in Nat
    BY SessionTypes DEF SessionInv, SlotState
  <1>2. QED BY <1>1 DEF over, NewSlot, SlotState

LEMMA FinishesQuietly ==
    ASSUME SessionInv, NEW q \in Slot, NEW a \in {"refused", "answered"},
           \/ finish(q, a)
           \/ \E t \in {0} \cup Token : slot' = [slot EXCEPT ![q] = [over(q, a) EXCEPT !.token = t]]
    PROVE  QuietMoves(q)
  <1>1. CASE finish(q, a)
    <2> DEFINE x == over(q, a)
    <2>1. x \in SlotState /\ x.lease = 0 /\ x.op = "none" /\ x.at = a
      BY OverState
    <2>2. slot' = [slot EXCEPT ![q] = x]
      BY <1>1 DEF finish
    <2> HIDE DEF x
    <2>3. QED BY <2>1, <2>2 DEF QuietMoves, Harmless
  <1>2. CASE \E t \in {0} \cup Token :
                slot' = [slot EXCEPT ![q] = [over(q, a) EXCEPT !.token = t]]
    <2> PICK t \in {0} \cup Token :
                slot' = [slot EXCEPT ![q] = [over(q, a) EXCEPT !.token = t]]
      BY <1>2
    <2> DEFINE x == [over(q, a) EXCEPT !.token = t]
    <2>1. x \in SlotState /\ x.lease = 0 /\ x.op = "none" /\ x.at = a
      BY OverState
    <2>2. slot' = [slot EXCEPT ![q] = x]
      OBVIOUS
    <2> HIDE DEF x
    <2>3. QED BY <2>1, <2>2 DEF QuietMoves, Harmless
  <1>3. QED BY <1>1, <1>2

LEMMA AnswersQuietly ==
    ASSUME SessionInv, NEW q \in Slot, slot[q].op = "login", NEW a \in {"refused", "answered"},
           answers(q, a)
    PROVE  QuietMoves(q)
  <1>1. CASE slot[q].lease > 0
    <2> DEFINE x == [slot[q] EXCEPT !.at = "releasing", !.outcome = a]
    <2>1. slot[q] \in SlotState
      BY SessionTypes DEF SessionInv
    <2>2. /\ x \in SlotState /\ x.lease = slot[q].lease /\ x.op = "login" /\ x.at = "releasing"
          /\ x.outcome = a
      BY <2>1 DEF SlotState
    <2>3. slot' = [slot EXCEPT ![q] = x]
      BY <1>1 DEF answers
    <2> HIDE DEF x
    <2>4. Harmless(x)
      BY <2>2 DEF Harmless
    <2>5. QED BY <2>2, <2>3, <2>4 DEF QuietMoves
  <1>2. CASE ~(slot[q].lease > 0)
    BY <1>2, FinishesQuietly DEF answers
  <1>3. QED BY <1>1, <1>2

LEMMA MissesQuietly ==
    ASSUME SessionInv, NEW q \in Slot, slot[q].op = "login", misses(q)
    PROVE  QuietMoves(q)
  <1>1. goes(q, "flight") \/ goes(q, "working")
    BY DEF misses
  <1>2. QED BY <1>1, GoesQuietly

\* What the login steps have in common.
LEMMA LoginStepTypes ==
    ASSUME SessionInv
    PROVE  /\ lines' = lines => lines' \in {0} \cup Line
           /\ served' = served => served' \in Nat
           /\ activePair' = activePair => activePair' \in {0} \cup Token
           /\ seed' = seed => seed' \in SeedState
           /\ lock' = lock => lock' \in LockState
           /\ result' = result => result' \in ResultState
           /\ access' = access /\ token' = token /\ lines' = lines => TokensGrow
  BY SessionTypes, TokensUnmoved DEF SessionInv

\* A login step that changes neither tokens, pairs nor keys.
LEMMA LoginGoesOn ==
    ASSUME SessionInv, NEW q \in Slot, QuietMoves(q), loginKeeps, faults' = faults \/ fault,
           UNCHANGED <<token, lines, activePair, seed, lock, result>>
    PROVE  SessionInv'
  BY QuietIsSafe, LoginStepTypes, RequestStep DEF loginKeeps, unchangedByRequest, FlightTyped

LEMMA LookUpSeedKeeps ==
    ASSUME SessionInv, NEW q \in Slot, LookUpSeed(q)
    PROVE  SessionInv'
  <1>1. /\ slot[q].op = "login" /\ loginKeeps
        /\ faults' = faults \/ fault
        /\ UNCHANGED <<token, lines, activePair, seed, lock, result>>
    BY DEF LookUpSeed, atLogin, issuing, flightVars
  <1>2. \/ /\ slot' = [slot EXCEPT ![q].at = "probing", ![q].line = seed.line,
                                   ![q].until = seed.until]
           /\ seed.until > now
        \/ misses(q) \/ finish(q, "refused")
    BY DEF LookUpSeed
  <1>3. CASE /\ slot' = [slot EXCEPT ![q].at = "probing", ![q].line = seed.line,
                                     ![q].until = seed.until]
             /\ seed.until > now
    <2> DEFINE x == [slot[q] EXCEPT !.at = "probing", !.line = seed.line, !.until = seed.until]
    <2>1. slot[q] \in SlotState /\ seed \in SeedState
      BY SessionTypes DEF SessionInv
    <2>2. seed.line \in {0} \cup Line /\ seed.until \in Nat /\ seed.until > 0
      BY <1>3, <2>1, SessionTypes DEF SessionInv, SeedState
    <2>3. /\ x \in SlotState /\ x.lease = slot[q].lease /\ x.op = "login" /\ x.at = "probing"
          /\ x.until > 0
      BY <1>1, <2>1, <2>2 DEF SlotState
    <2>4. slot' = [slot EXCEPT ![q] = x]
      BY <1>3
    <2> HIDE DEF x
    <2>5. QuietMoves(q)
      BY <2>3, <2>4 DEF QuietMoves, Harmless
    <2>6. QED BY <1>1, <2>5, LoginGoesOn
  <1>4. CASE misses(q) \/ finish(q, "refused")
    <2>1. QuietMoves(q)
      BY <1>1, <1>4, MissesQuietly, FinishesQuietly
    <2>2. QED BY <1>1, <2>1, LoginGoesOn
  <1>5. QED BY <1>2, <1>3, <1>4

LEMMA ProbeSeedKeeps ==
    ASSUME SessionInv, NEW q \in Slot, ProbeSeed(q)
    PROVE  SessionInv'
  <1>1. /\ slot[q].op = "login" /\ loginKeeps /\ faults' = faults
        /\ UNCHANGED <<token, lines, activePair, seed, lock, result>>
    BY DEF ProbeSeed, atLogin, issuing, flightVars
  <1>2. \/ slot' = [slot EXCEPT ![q].at = "issuing", ![q].cached = TRUE]
        \/ misses(q) \/ finish(q, "refused")
    BY DEF ProbeSeed
  <1>3. QuietMoves(q)
    <2>1. CASE slot' = [slot EXCEPT ![q].at = "issuing", ![q].cached = TRUE]
      <3> DEFINE x == [slot[q] EXCEPT !.at = "issuing", !.cached = TRUE]
      <3>1. slot[q] \in SlotState /\ slot[q].until > 0
        BY SessionTypes DEF SessionInv, ProbeSeed, atLogin, RequestsOK, RequestOK
      <3>2. /\ x \in SlotState /\ x.lease = slot[q].lease /\ x.op = "login" /\ x.at = "issuing"
            /\ x.until > 0
        BY <1>1, <3>1 DEF SlotState
      <3>3. slot' = [slot EXCEPT ![q] = x]
        BY <2>1
      <3> HIDE DEF x
      <3>4. QED BY <3>2, <3>3 DEF QuietMoves, Harmless
    <2>2. QED BY <1>1, <1>2, <2>1, MissesQuietly, FinishesQuietly
  <1>4. QED BY <1>1, <1>3, LoginGoesOn

LEMMA GetResultKeeps ==
    ASSUME SessionInv, NEW q \in Slot, GetResult(q)
    PROVE  SessionInv'
  <1>1. /\ slot[q].op = "login" /\ loginKeeps
        /\ faults' = faults \/ fault
        /\ UNCHANGED <<token, lines, activePair, seed, lock, result>>
    BY DEF GetResult, atLogin, issuing, flightVars
  <1>2. result.token \in {0} \cup Token
    BY SessionTypes DEF SessionInv, ResultState
  <1>3. \/ \E t \in {0} \cup Token :
              slot' = [slot EXCEPT ![q] = [over(q, "answered") EXCEPT !.token = t]]
        \/ goes(q, "locking") \/ finish(q, "refused")
    BY <1>2 DEF GetResult
  <1>4. QuietMoves(q)
    BY <1>1, <1>3, GoesQuietly, FinishesQuietly
  <1>5. QED BY <1>1, <1>4, LoginGoesOn

LEMMA StopWaitingKeeps ==
    ASSUME SessionInv, NEW q \in Slot, StopWaiting(q)
    PROVE  SessionInv'
  <1>1. /\ slot[q].op = "login" /\ loginKeeps /\ faults' = faults /\ goes(q, "flight")
        /\ UNCHANGED <<token, lines, activePair, seed, lock, result>>
    BY DEF StopWaiting, atLogin, issuing, flightVars
  <1>2. QED BY <1>1, GoesQuietly, LoginGoesOn

LEMMA LoginAtPortalKeeps ==
    ASSUME SessionInv, NEW q \in Slot, LoginAtPortal(q)
    PROVE  SessionInv'
  <1>1. /\ slot[q].op = "login" /\ loginKeeps /\ faults' = faults
        /\ UNCHANGED <<token, lines, activePair, seed, lock, result>>
    BY DEF LoginAtPortal, atLogin, issuing, flightVars
  <1>2. \/ slot' = [slot EXCEPT ![q].at = "issuing", ![q].until = now + TokenLife]
        \/ answers(q, "refused")
    BY DEF LoginAtPortal
  <1>3. QuietMoves(q)
    <2>1. CASE slot' = [slot EXCEPT ![q].at = "issuing", ![q].until = now + TokenLife]
      <3> DEFINE u == now + TokenLife
                 x == [slot[q] EXCEPT !.at = "issuing", !.until = u]
      <3>1. slot[q] \in SlotState /\ u \in Nat /\ u > 0
        BY SessionTypes, SessionNumbers DEF SessionInv
      <3> HIDE DEF u
      <3>2. /\ x \in SlotState /\ x.lease = slot[q].lease /\ x.op = "login" /\ x.at = "issuing"
            /\ x.until > 0
        BY <1>1, <3>1 DEF SlotState
      <3>3. slot' = [slot EXCEPT ![q] = x]
        BY <2>1 DEF u
      <3> HIDE DEF x
      <3>4. QED BY <3>2, <3>3 DEF QuietMoves, Harmless
    <2>2. QED BY <1>1, <1>2, <2>1, AnswersQuietly
  <1>4. QED BY <1>1, <1>3, LoginGoesOn

LEMMA CacheSeedKeeps ==
    ASSUME SessionInv, NEW q \in Slot, CacheSeed(q)
    PROVE  SessionInv'
  <1> DEFINE line == lineOf(0, 0)
             cached == [line |-> line, until |-> slot[q].until]
  <1>1. /\ slot[q].op = "login" /\ loginKeeps
        /\ faults' = faults \/ fault
        /\ UNCHANGED <<token, activePair, lock, result>>
        /\ line \in {0} \cup Line
        /\ lines' = IF line > lines THEN line ELSE lines
        /\ seed' \in {seed, cached}
    BY DEF CacheSeed, atLogin, flightVars
  <1>2. cached \in SeedState
    BY <1>1, SessionTypes DEF SessionInv, SlotState, SeedState
  <1>3. QuietMoves(q)
    <2>1. goes(q, "publishing") \/ answers(q, "answered") \/ answers(q, "refused")
      BY DEF CacheSeed
    <2>2. QED BY <1>1, <2>1, GoesQuietly, AnswersQuietly
  <1> HIDE DEF line, cached
  <1>4. lines' \in {0} \cup Line
    BY <1>1, SessionTypes DEF SessionInv
  <1>5. access' = access
    BY <1>1 DEF loginKeeps, unchangedByRequest
  <1>6. seed' \in SeedState
    BY <1>1, <1>2, SessionTypes DEF SessionInv
  <1>7. TokensGrow
    BY <1>1, <1>4, <1>5, TokensUnmoved
  <1>8. FlightTyped
    BY <1>1, <1>6, LoginStepTypes DEF FlightTyped
  <1>9. QED
    BY <1>1, <1>3, <1>7, <1>8, QuietIsSafe, LoginStepTypes, RequestStep
       DEF loginKeeps, unchangedByRequest

LEMMA PublishResultKeeps ==
    ASSUME SessionInv, NEW q \in Slot, PublishResult(q)
    PROVE  SessionInv'
  <1> DEFINE published == [token |-> slot[q].token, until |-> now + FlightLife]
  <1>1. /\ slot[q].op = "login" /\ loginKeeps
        /\ faults' = faults \/ fault
        /\ UNCHANGED <<token, lines, activePair, seed, lock>>
        /\ result' \in {result, published}
        /\ answers(q, "answered") \/ answers(q, "refused")
    BY DEF PublishResult, atLogin, issuing
  <1>2. published \in ResultState
    BY SessionTypes, SessionNumbers DEF SessionInv, SlotState, ResultState
  <1> HIDE DEF published
  <1>3. QuietMoves(q)
    BY <1>1, AnswersQuietly
  <1>4. FlightTyped
    BY <1>1, <1>2, SessionTypes DEF FlightTyped, SessionInv
  <1>5. QED
    BY <1>1, <1>3, <1>4, QuietIsSafe, LoginStepTypes, RequestStep
       DEF loginKeeps, unchangedByRequest

\* A new session id is one more than the last, or that of an earlier token.
LEMMA LineGiven ==
    ASSUME SessionInv, NEW a \in {0} \cup Line, NEW b \in {0} \cup Line
    PROVE  /\ ~distributed => lineOf(a, b) = 0
           /\ distributed => lineOf(a, b) \in Nat \ {0}
           /\ distributed /\ b # 0 => lineOf(0, b) = b
  BY SessionTypes, SessionNumbers DEF SessionInv, lineOf

\* The tokens grow by one that keeps the session id of its sign-in.
LEMMA TokenIssued ==
    ASSUME SessionInv, access' = access, NEW r \in TokenState, r.kind # "none",
           issues(nextToken, r), r.until > 0, r.pair \in {0, nextToken},
           IF distributed
           THEN /\ r.line # 0
                /\ r.origin \in issued \cup {nextToken}
                /\ r.origin \in issued => token[r.origin].line = r.line
           ELSE r.line = 0
    PROVE  TokensGrow /\ nextToken \in Token /\ nextToken \notin issued
  <1> DEFINE n == nextToken
  <1>1. /\ n \in Token /\ n \notin issued
        /\ token' \in [Token -> TokenState] /\ lines' \in {0} \cup Line
        /\ issued' = issued \cup {n}
        /\ \A t \in issued : token'[t] = token[t]
        /\ token'[n] = r
        /\ \A t \in Token : t \in issued' <=> t <= Cardinality(issued')
    BY NewToken
  <1>2. (distributed' <=> distributed) /\ r.line \in {0} \cup Line
    BY DEF distributed, TokenState
  <1> HIDE DEF n
  <1>3. ASSUME NEW t \in issued'
        PROVE  /\ token'[t].until > 0 /\ token'[t].pair \in {0, t}
               /\ IF distributed'
                  THEN /\ token'[t].line \in Line /\ token'[t].origin \in issued'
                       /\ token'[token'[t].origin].line = token'[t].line
                  ELSE token'[t].line = 0
    <2>1. CASE t = n
      BY <1>1, <1>2, <2>1 DEF n
    <2>2. CASE t # n
      <3>1. t \in issued /\ token'[t] = token[t]
        BY <1>1, <2>2
      <3>2. /\ token[t].until > 0 /\ token[t].pair \in {0, t}
            /\ IF distributed
               THEN /\ token[t].line \in Line /\ token[t].origin \in issued
                    /\ token[token[t].origin].line = token[t].line
               ELSE token[t].line = 0
        BY <3>1 DEF SessionInv, TokensKnown
      <3>3. QED BY <1>1, <1>2, <3>1, <3>2
    <2>3. QED BY <2>1, <2>2
  <1>4. TokensKnown'
    BY <1>1, <1>3 DEF TokensKnown
  <1>5. QED BY <1>1, <1>4 DEF TokensGrow, n

LEMMA IssueTokenKeeps ==
    ASSUME SessionInv, NEW q \in Slot, IssueToken(q)
    PROVE  SessionInv'
  <1> DEFINE t == nextToken
             pair == IF linked THEN t ELSE 0
             line == lineOf(slot[q].line, 0)
             r == [kind |-> "vnu", line |-> line, pair |-> pair,
                   until |-> slot[q].until, fresh |-> 0, origin |-> t]
  <1>1. /\ slot[q].op = "login" /\ slot[q].at = "issuing" /\ loginKeeps
        /\ faults' = faults \/ fault
        /\ UNCHANGED <<seed, lock, result>>
    BY DEF IssueToken, atLogin, flightVars
  <1>2. /\ slot[q] \in SlotState /\ slot[q].line \in {0} \cup Line /\ slot[q].until \in Nat
        /\ slot[q].until > 0
    BY <1>1, SessionTypes DEF SessionInv, SlotState, RequestsOK, RequestOK
  <1>3. CASE /\ issues(t, r) /\ activePair' = IF linked THEN t ELSE activePair
             /\ slot' = [slot EXCEPT ![q] = IF @.cached
                            THEN [over(q, "answered") EXCEPT !.token = t]
                            ELSE [@ EXCEPT !.at = "seeding", !.token = t]]
    <2>1. t \in Token /\ line \in {0} \cup Line
      BY <1>3 DEF issues
    <2>2. r \in TokenState
      BY <1>2, <2>1 DEF TokenState
    <2>3. r.kind = "vnu" /\ r.line = line /\ r.pair = pair /\ r.until = slot[q].until /\ r.origin = t
      OBVIOUS
    <2>4. access' = access
      BY <1>1 DEF loginKeeps, unchangedByRequest
    <2>5. /\ ~distributed => line = 0
          /\ distributed => line # 0
      BY <1>2, LineGiven
    <2>6. pair \in {0, t} /\ (IF linked THEN t ELSE activePair) \in {t, activePair}
      OBVIOUS
    <2> HIDE DEF t, line, pair, r
    <2>7. r.origin \in issued \cup {nextToken} /\ r.pair \in {0, nextToken}
      BY <2>3, <2>6 DEF t
    <2>8. nextToken \notin issued
      BY <1>3, <2>2, <2>3, NewToken DEF t
    <2>9. TokensGrow /\ nextToken \in Token
      BY <1>2, <1>3, <2>2, <2>3, <2>4, <2>5, <2>7, <2>8, TokenIssued DEF t
    <2>10. QuietMoves(q)
      <3>1. CASE slot[q].cached
        <4>1. slot' = [slot EXCEPT ![q] = [over(q, "answered") EXCEPT !.token = t]]
          BY <1>3, <3>1
        <4>2. QED BY <2>1, <4>1, FinishesQuietly
      <3>2. CASE ~slot[q].cached
        <4> DEFINE x == [slot[q] EXCEPT !.at = "seeding", !.token = t]
        <4>1. x \in SlotState /\ x.lease = slot[q].lease /\ x.op = "login" /\ x.at = "seeding"
          BY <1>1, <1>2, <2>1 DEF SlotState
        <4>2. slot' = [slot EXCEPT ![q] = x]
          BY <1>3, <3>2
        <4> HIDE DEF x
        <4>3. QED BY <4>1, <4>2 DEF QuietMoves, Harmless
      <3>3. QED BY <3>1, <3>2
    <2>11. /\ activePair' \in {0} \cup Token
           /\ activePair' \in {activePair, 0} \/ activePair' \notin issued
      BY <1>3, <2>1, <2>6, <2>8, SessionTypes DEF SessionInv, t
    <2>12. QED
      BY <1>1, <2>9, <2>10, <2>11, QuietIsSafe, LoginStepTypes, RequestStep
         DEF loginKeeps, unchangedByRequest, FlightTyped
  <1>4. CASE UNCHANGED issuing /\ activePair' \in {activePair, 0} /\ answers(q, "refused")
    <2>1. QuietMoves(q)
      BY <1>1, <1>4, AnswersQuietly
    <2>2. activePair' \in {0} \cup Token /\ TokensGrow
      BY <1>1, <1>4, SessionTypes, LoginStepTypes
         DEF SessionInv, issuing, loginKeeps, unchangedByRequest
    <2>3. QED
      BY <1>1, <1>4, <2>1, <2>2, QuietIsSafe, LoginStepTypes, RequestStep
         DEF loginKeeps, unchangedByRequest, FlightTyped
  <1>5. QED BY <1>3, <1>4 DEF IssueToken

\* A step that takes, gives back or loses the lock.
LEMMA LockStep ==
    ASSUME SessionInv, NEW q \in Slot, NEW x \in SlotState, slot' = [slot EXCEPT ![q] = x],
           Harmless(x), loginKeeps, faults' = faults \/ fault,
           UNCHANGED <<token, lines, activePair, seed, result>>, lock' \in LockState, LocksKept'
    PROVE  SessionInv'
  <1>1. RequestOK(x)'
    BY HarmlessOK
  <1>2. /\ access' = access /\ now' = now /\ UNCHANGED <<tokenRow, lineRow, loggedOut>>
        /\ served' = served
    BY DEF loginKeeps, unchangedByRequest
  <1>3. TokensGrow /\ FlightTyped /\ activePair' \in {0} \cup Token /\ served' \in Nat
    BY <1>2, LoginStepTypes DEF FlightTyped
  <1>4. Around
    BY <1>2, <1>3 DEF Around
  <1>5. /\ World /\ LogoutsKept' /\ tokenRow' \in [Token -> Nat]
        /\ lineRow' \in [Line -> Nat] /\ loggedOut' \subseteq Token
    BY <1>4, AroundIsWorld
  <1>6. QED BY <1>1, <1>3, <1>5, StepKeeps

\* A lock that lapsed is nobody's.
LEMMA LapsedLock ==
    ASSUME SessionInv, NEW p \in Slot, lock.until <= now
    PROVE  ~ (slot[p].lease > now)
  <1>1. slot[p].lease \in Nat /\ lock.until \in Nat /\ now \in Nat
    BY SessionTypes DEF SessionInv, SlotState, LockState
  <1>2. QED BY <1>1 DEF SessionInv, LocksKept

LEMMA TakeLockKeeps ==
    ASSUME SessionInv, NEW q \in Slot, TakeLock(q)
    PROVE  SessionInv'
  <1> DEFINE end == now + FlightLife
             taken == [holder |-> q, until |-> end]
             orphan == [taken EXCEPT !.holder = "orphan"]
  <1>1. /\ slot[q].op = "login" /\ slot[q].at = "locking" /\ loginKeeps
        /\ UNCHANGED <<token, lines, activePair, seed, result>>
    BY DEF TakeLock, atLogin, issuing
  <1>2. /\ slot \in [Slot -> SlotState] /\ now \in Nat /\ end \in Nat /\ now' = now
        /\ lock \in LockState /\ taken \in LockState /\ orphan \in LockState
    BY <1>1, SessionTypes, SessionNumbers
       DEF SessionInv, LockState, loginKeeps, unchangedByRequest
  <1>3. CASE /\ lock.until <= now /\ lock' = taken /\ UNCHANGED faults
             /\ slot' = [slot EXCEPT ![q].at = "working", ![q].lease = taken.until]
    <2> DEFINE x == [slot[q] EXCEPT !.at = "working", !.lease = end]
    <2>1. taken.until = end /\ taken.holder = q
      OBVIOUS
    <2> HIDE DEF end
    <2>2. /\ x \in SlotState /\ x.lease = end /\ x.op = "login" /\ x.at = "working"
      BY <1>1, <1>2 DEF SlotState
    <2>3. slot' = [slot EXCEPT ![q] = x]
      BY <1>3, <2>1
    <2> HIDE DEF x, taken
    <2>4. Harmless(x)
      BY <2>2 DEF Harmless
    <2>5. \A p \in Slot : slot'[p] = IF p = q THEN x ELSE slot[p]
      BY <1>2, <2>3
    <2>6. LocksKept'
      BY <1>2, <1>3, <2>1, <2>2, <2>5, LapsedLock DEF LocksKept
    <2>7. QED BY <1>1, <1>2, <1>3, <2>2, <2>3, <2>4, <2>6, LockStep
  <1>4. CASE /\ UNCHANGED <<lock, faults>>
             /\ finish(q, "refused") \/ goes(q, "waiting")
    <2>1. QuietMoves(q)
      BY <1>1, <1>4, FinishesQuietly, GoesQuietly
    <2>2. QED BY <1>1, <1>4, <2>1, LoginGoesOn
  <1>5. CASE /\ fault /\ finish(q, "refused")
             /\ lock' = lock \/ (lock.until <= now /\ lock' = orphan)
    <2> DEFINE x == over(q, "refused")
    <2>1. x \in SlotState /\ x.lease = 0 /\ x.op = "none" /\ x.at = "refused"
      BY OverState
    <2>2. slot' = [slot EXCEPT ![q] = x]
      BY <1>5 DEF finish
    <2> HIDE DEF x, orphan
    <2>3. Harmless(x)
      BY <2>1 DEF Harmless
    <2>4. \A p \in Slot : slot'[p] = IF p = q THEN x ELSE slot[p]
      BY <1>2, <2>2
    <2>5. LocksKept'
      <3>1. CASE lock' = lock
        BY <1>2, <2>1, <2>4, <3>1 DEF LocksKept, SessionInv
      <3>2. CASE lock.until <= now
        BY <1>2, <2>1, <2>4, <3>2, LapsedLock DEF LocksKept
      <3>3. QED BY <1>5, <3>1, <3>2
    <2>6. lock' \in LockState /\ (faults' = faults \/ fault)
      BY <1>2, <1>5
    <2>7. QED BY <1>1, <2>1, <2>2, <2>3, <2>5, <2>6, LockStep
  <1>6. QED
    <2>1. \/ /\ lock.until <= now /\ lock' = taken /\ UNCHANGED faults
             /\ slot' = [slot EXCEPT ![q].at = "working", ![q].lease = taken.until]
          \/ /\ lock.until > now /\ UNCHANGED <<lock, faults>>
             /\ IF now >= slot[q].began + FlightLife THEN finish(q, "refused")
                                                     ELSE goes(q, "waiting")
          \/ /\ fault /\ finish(q, "refused")
             /\ lock' \in {lock, IF lock.until <= now THEN orphan ELSE lock}
      BY DEF TakeLock
    <2> HIDE DEF taken, orphan
    <2>2. QED BY <1>3, <1>4, <1>5, <2>1

LEMMA ReleaseLockKeeps ==
    ASSUME SessionInv, NEW q \in Slot, ReleaseLock(q)
    PROVE  SessionInv'
  <1> DEFINE t == IF slot[q].outcome = "answered" THEN slot[q].token ELSE 0
             x == [over(q, slot[q].outcome) EXCEPT !.token = t]
             left == [lock EXCEPT !.holder = "orphan"]
  <1>1. /\ slot[q].op = "login" /\ slot[q].at = "releasing" /\ loginKeeps
        /\ UNCHANGED <<token, lines, activePair, seed, result>>
        /\ faults' = faults \/ fault
        /\ lock' = lock \/ (lock.holder = q /\ lock' \in {NoLock, left})
        /\ slot' = [slot EXCEPT ![q] = x]
    BY DEF ReleaseLock, atLogin, issuing
  <1>2. /\ slot \in [Slot -> SlotState] /\ now \in Nat /\ now' = now
        /\ lock \in LockState /\ NoLock \in LockState /\ left \in LockState
    BY <1>1, SessionTypes DEF SessionInv, LockState, NoLock, loginKeeps, unchangedByRequest
  <1>3. slot[q].outcome \in {"answered", "refused"} /\ t \in {0} \cup Token
    BY <1>1, <1>2 DEF SessionInv, RequestsOK, RequestOK, SlotState
  <1> HIDE DEF t
  <1>4. x \in SlotState /\ x.lease = 0 /\ x.op = "none" /\ x.at \in {"answered", "refused"}
    BY <1>3, OverState
  <1> HIDE DEF x, left
  <1>5. Harmless(x)
    BY <1>4 DEF Harmless
  <1>6. \A p \in Slot : slot'[p] = IF p = q THEN x ELSE slot[p]
    BY <1>1, <1>2
  <1>7. LocksKept'
    <2>1. CASE lock' = lock
      BY <1>2, <1>4, <1>6, <2>1 DEF LocksKept, SessionInv
    <2>2. CASE lock.holder = q
      BY <1>2, <1>4, <1>6, <2>2 DEF LocksKept, SessionInv
    <2>3. QED BY <1>1, <2>1, <2>2
  <1>8. lock' \in LockState
    BY <1>1, <1>2
  <1>9. QED BY <1>1, <1>4, <1>5, <1>7, <1>8, LockStep

----------------------------------------------------------------------------
(* Requests that come                                                      *)

\* Logouts of the sign-in that were confirmed before are still remembered.
LEMMA OutUntil ==
    ASSUME SessionInv, NEW t \in issued
    PROVE  /\ outUntil(t) \in Nat
           /\ distributed => outUntil(t) <= lineRow[token[t].line]
           /\ ~distributed /\ outUntil(t) > 0 =>
                  t \in loggedOut /\ outUntil(t) <= token[t].until - 1
  <1> DEFINE spent == {u \in loggedOut :
                          u = t \/ (distributed /\ token[u].origin = token[t].origin)}
             end(u) == IF distributed THEN token[u].until ELSE token[u].until - 1
             limits == {end(u) : u \in spent}
  <1>1. /\ token \in [Token -> TokenState] /\ lineRow \in [Line -> Nat]
        /\ issued \subseteq Token /\ loggedOut \subseteq issued /\ IsFiniteSet(issued)
    BY SessionTypes, IssuedFinite DEF SessionInv, LogoutsKept
  <1>2. \A u \in issued : token[u].until \in Nat /\ token[u].until > 0
    BY <1>1 DEF SessionInv, TokensKnown, TokenState
  <1>3. IsFiniteSet(spent)
    <2>1. spent \in SUBSET issued
      BY <1>1
    <2>2. QED BY <1>1, <2>1, FS_Subset
  <1>4. \A u \in spent : end(u) \in Nat
    BY <1>1, <1>2
  <1>5. \E e \in limits \cup {0} : \A f \in limits : f <= e
    <2>1. CASE spent = {}
      BY <2>1
    <2>2. CASE spent # {}
      <3> DEFINE value == [u \in spent |-> end(u)]
      <3>1. value \in [spent -> Nat]
        BY <1>4
      <3> HIDE DEF value
      <3>2. PICK u \in spent : \A v \in spent : value[v] <= value[u]
        <4> HIDE DEF spent
        <4>1. QED BY <1>3, <2>2, <3>1, GreatestValue
      <3>3. \A v \in spent : value[v] = end(v)
        BY DEF value
      <3> HIDE DEF end, spent
      <3>4. \A v \in spent : end(v) <= end(u)
        BY <3>2, <3>3
      <3>5. QED BY <3>4
    <2>3. QED BY <2>1, <2>2
  <1>6. outUntil(t) = CHOOSE e \in limits \cup {0} : \A f \in limits : f <= e
    BY DEF outUntil
  <1>7. outUntil(t) \in limits \cup {0}
    <2> HIDE DEF limits
    <2>1. QED BY <1>5, <1>6
  <1>8. outUntil(t) = 0 \/ \E u \in spent : outUntil(t) = end(u)
    BY <1>7
  <1>9. CASE outUntil(t) = 0
    <2>1. distributed => token[t].line \in Line
      BY DEF SessionInv, TokensKnown
    <2>2. distributed => lineRow[token[t].line] \in Nat
      BY <1>1, <2>1
    <2>3. QED BY <1>9, <2>2
  <1>10. CASE \E u \in spent : outUntil(t) = end(u)
    <2> PICK u \in spent : outUntil(t) = end(u)
      BY <1>10
    <2>1. u \in loggedOut /\ u \in issued /\ end(u) \in Nat
      BY <1>1, <1>4
    <2>2. ASSUME distributed
          PROVE  end(u) <= lineRow[token[t].line]
      <3>1. token[u].line = token[t].line
        BY <2>1, <2>2 DEF SessionInv, TokensKnown
      <3>2. lineRow[token[u].line] >= token[u].until
        BY <2>1, <2>2 DEF SessionInv, LogoutsKept
      <3>3. QED
        <4>1. token[u].line \in Line
          BY <2>1, <2>2 DEF SessionInv, TokensKnown
        <4>2. lineRow[token[u].line] \in Nat /\ token[u].until \in Nat
          BY <1>1, <1>2, <2>1, <4>1
        <4>3. QED BY <2>2, <3>1, <3>2, <4>2
    <2>3. ASSUME ~distributed
          PROVE  t \in loggedOut /\ end(u) = token[t].until - 1
      BY <2>3
    <2>4. token[t].until \in Nat
      BY <1>2
    <2> HIDE DEF end
    <2>5. QED BY <2>1, <2>2, <2>3, <2>4
  <1>11. QED BY <1>8, <1>9, <1>10

----------------------------------------------------------------------------

\* A step that leaves all but the slots as it is.
LEMMA Still ==
    ASSUME SessionInv,
           UNCHANGED <<access, now, token, lines, tokenRow, lineRow, activePair, seed, lock,
                       result, loggedOut>>,
           faults' = faults \/ fault
    PROVE  /\ World /\ TokensGrow /\ FlightTyped /\ lineRow' \in [Line -> Nat]
           /\ activePair' \in {0} \cup Token
           /\ activePair' \in {activePair, 0} \/ activePair' \notin issued
  <1>1. /\ now \in Nat /\ lineRow \in [Line -> Nat] /\ activePair \in {0} \cup Token
        /\ seed \in SeedState /\ lock \in LockState /\ result \in ResultState
        /\ lines \in {0} \cup Line
    BY SessionTypes DEF SessionInv
  <1>2. TokensGrow
    BY <1>1, TokensUnmoved
  <1>3. World
    BY <1>1, <1>2, FaultCounts DEF World, TokensGrow
  <1>4. QED BY <1>1, <1>2, <1>3 DEF FlightTyped

LEMMA StillGoes ==
    ASSUME SessionInv, NEW q \in Slot, Moves(q),
           UNCHANGED <<access, now, token, lines, tokenRow, lineRow, activePair, seed, lock,
                       result, loggedOut>>,
           faults' = faults \/ fault, served' \in Nat
    PROVE  SessionInv'
  BY Still, RequestStep

\* A request comes: nothing but its slot changes.
Comes(q, x) ==
    /\ slot' = [slot EXCEPT ![q] = x] /\ x.lease = 0
    /\ served' \in Nat
    /\ UNCHANGED <<access, now, token, lines, tokenRow, lineRow, activePair, seed, lock, result,
                   loggedOut, faults>>

LEMMA ComesKeeps ==
    ASSUME SessionInv, NEW q \in Slot, NEW x \in SlotState, RequestOK(x), Comes(q, x)
    PROVE  SessionInv'
  <1>1. faults' = faults \/ fault
    BY DEF Comes
  <1>2. World /\ lineRow' \in [Line -> Nat]
    BY <1>1, Still DEF Comes
  <1>3. RequestOK(x)'
    BY <1>2, RequestAges
  <1>4. Moves(q)
    BY <1>3 DEF Moves, Comes
  <1>5. QED BY <1>1, <1>4, StillGoes DEF Comes

LEMMA ReadKeeps ==
    ASSUME SessionInv, NEW q \in Slot, NEW t \in Token, Read(q, t)
    PROVE  SessionInv'
  <1> DEFINE x0 == [NewSlot EXCEPT !.at = "refused"]
             late == outUntil(t)
             at == IF token[t].line # 0 THEN "line" ELSE "token"
             x1 == [NewSlot EXCEPT !.op = "read", !.token = t, !.late = late, !.at = at]
  <1>1. /\ t \in issued /\ served \in Nat
        /\ \/ takes(q, x0)
           \/ takes(q, x1)
        /\ UNCHANGED <<access, now, token, lines, tokenRow, lineRow, activePair, seed, lock,
                       result, loggedOut, faults>>
    BY SessionTypes DEF SessionInv, Read, unchangedByRequest, issuing, remembered, flightVars
  <1>2. x0 \in SlotState /\ x0.lease = 0 /\ RequestOK(x0)
    BY DEF NewSlot, SlotState, RequestOK, reading, revoking
  <1>3. x1 \in SlotState /\ x1.lease = 0 /\ RequestOK(x1)
    <2>1. /\ late \in Nat
          /\ distributed => late <= lineRow[token[t].line]
          /\ ~distributed /\ late > 0 => t \in loggedOut /\ late <= token[t].until - 1
      BY <1>1, OutUntil
    <2>2. /\ distributed => at = "line"
          /\ at \in {"line", "token"}
      BY <1>1, SessionNumbers DEF SessionInv, TokensKnown
    <2> HIDE DEF late, at
    <2>3. /\ x1 \in SlotState /\ x1.lease = 0 /\ x1.op = "read" /\ x1.token = t
          /\ x1.late = late /\ x1.at = at
      BY <2>1, <2>2 DEF NewSlot, SlotState
    <2> HIDE DEF x1
    <2>4. RequestOK(x1)
      BY <1>1, <2>1, <2>2, <2>3 DEF RequestOK, reading, revoking
    <2>5. QED BY <2>3, <2>4
  <1> HIDE DEF x0, x1
  <1>4. Comes(q, x0) \/ Comes(q, x1)
    BY <1>1, <1>2, <1>3 DEF Comes, takes
  <1>5. QED BY <1>2, <1>3, <1>4, ComesKeeps

LEMMA LogoutKeeps ==
    ASSUME SessionInv, NEW q \in Slot, NEW t \in Token, Logout(q, t)
    PROVE  SessionInv'
  <1> DEFINE x0 == [NewSlot EXCEPT !.at = "answered"]
             at == IF token[t].pair # 0 THEN "pair"
                   ELSE IF token[t].line # 0 THEN "revokingLine" ELSE "revokingToken"
             x1 == [NewSlot EXCEPT !.op = "logout", !.token = t, !.at = at]
  <1>1. /\ t \in issued /\ served \in Nat
        /\ \/ takes(q, x0)
           \/ takes(q, x1)
        /\ UNCHANGED <<access, now, token, lines, tokenRow, lineRow, activePair, seed, lock,
                       result, loggedOut, faults>>
    BY SessionTypes DEF SessionInv, Logout, unchangedByRequest, issuing, remembered, flightVars
  <1>2. x0 \in SlotState /\ x0.lease = 0 /\ RequestOK(x0)
    BY DEF NewSlot, SlotState, RequestOK, reading, revoking
  <1>3. x1 \in SlotState /\ x1.lease = 0 /\ RequestOK(x1)
    <2>1. /\ at \in {"pair", "revokingLine", "revokingToken"}
          /\ at = "pair" => token[t].pair # 0
          /\ at = "revokingLine" => token[t].line # 0
          /\ at = "revokingToken" => token[t].pair = 0 /\ ~distributed
      BY <1>1, SessionNumbers DEF SessionInv, TokensKnown
    <2> HIDE DEF at
    <2>2. /\ x1 \in SlotState /\ x1.lease = 0 /\ x1.op = "logout" /\ x1.token = t
          /\ x1.late = 0 /\ x1.at = at
      BY <2>1 DEF NewSlot, SlotState
    <2> HIDE DEF x1
    <2>3. RequestOK(x1)
      BY <1>1, <2>1, <2>2 DEF RequestOK, reading, revoking
    <2>4. QED BY <2>2, <2>3
  <1> HIDE DEF x0, x1
  <1>4. Comes(q, x0) \/ Comes(q, x1)
    BY <1>1, <1>2, <1>3 DEF Comes, takes
  <1>5. QED BY <1>2, <1>3, <1>4, ComesKeeps

LEMMA LoginKeeps ==
    ASSUME SessionInv, NEW q \in Slot, Login(q)
    PROVE  SessionInv'
  <1> DEFINE x == [NewSlot EXCEPT !.op = "login", !.at = "cache", !.began = now]
  <1>1. now \in Nat /\ served \in Nat
    BY SessionTypes DEF SessionInv
  <1>2. x \in SlotState /\ x.lease = 0 /\ x.op = "login" /\ x.at = "cache"
    BY <1>1 DEF NewSlot, SlotState
  <1>3. /\ takes(q, x)
        /\ UNCHANGED <<access, now, token, lines, tokenRow, lineRow, activePair, seed, lock,
                       result, loggedOut, faults>>
    BY DEF Login, unchangedByRequest, issuing, remembered, flightVars
  <1> HIDE DEF x
  <1>4. RequestOK(x)
    BY <1>2 DEF RequestOK, reading, revoking
  <1>5. Comes(q, x)
    BY <1>1, <1>2, <1>3 DEF Comes, takes
  <1>6. QED BY <1>2, <1>4, <1>5, ComesKeeps

\* A sign-in at UET yields a token; a renewed one keeps the session id.
LEMMA UetToken ==
    ASSUME SessionInv, NEW l \in {0} \cup Line, NEW o \in {0} \cup Token
    PROVE  LET r == uetToken(l, o)
           IN  /\ r \in TokenState /\ r.kind = "uet" /\ r.line = l /\ r.origin = o
               /\ r.pair = 0 /\ r.until > 0
  <1>1. now + TokenLife \in Nat /\ now + SignInLife \in Nat /\ now + TokenLife > 0
    BY SessionTypes, SessionNumbers DEF SessionInv
  <1>2. QED BY <1>1 DEF uetToken, TokenState

LEMMA LoginUetKeeps ==
    ASSUME SessionInv, NEW q \in Slot, LoginUet(q)
    PROVE  SessionInv'
  <1> DEFINE x == [NewSlot EXCEPT !.at = "answered"]
             line == lineOf(0, 0)
             r == uetToken(line, nextToken)
  <1>1. /\ takes(q, x) /\ issues(nextToken, r) /\ access' = access /\ now' = now
        /\ UNCHANGED <<tokenRow, lineRow, activePair, seed, lock, result, loggedOut, faults>>
    BY DEF LoginUet, unchangedByRequest, remembered, flightVars
  <1>2. x \in SlotState /\ x.lease = 0 /\ x.op = "none" /\ x.at = "answered"
    BY DEF NewSlot, SlotState
  <1>3. slot' = [slot EXCEPT ![q] = x] /\ served' \in Nat
    BY <1>1, SessionTypes DEF takes, SessionInv
  <1> HIDE DEF x
  <1>4. QuietMoves(q)
    BY <1>2, <1>3 DEF QuietMoves, Harmless
  <1>5. line \in {0} \cup Line /\ nextToken \in {0} \cup Token
    <2>1. r.line = line
      BY DEF uetToken
    <2>2. QED BY <1>1, <2>1 DEF issues
  <1>6. /\ ~distributed => line = 0
        /\ distributed => line # 0
    BY LineGiven
  <1> HIDE DEF line
  <1>7. /\ r \in TokenState /\ r.kind = "uet" /\ r.line = line /\ r.origin = nextToken
        /\ r.pair = 0 /\ r.until > 0
    BY <1>5, UetToken
  <1> HIDE DEF r
  <1>8. nextToken \notin issued
    BY <1>1, <1>7, NewToken
  <1>9. TokensGrow
    BY <1>1, <1>6, <1>7, <1>8, TokenIssued
  <1>10. FlightTyped /\ activePair' \in {0} \cup Token
    BY <1>1, LoginStepTypes DEF FlightTyped
  <1>11. QED BY <1>1, <1>3, <1>4, <1>9, <1>10, QuietIsSafe, RequestStep

----------------------------------------------------------------------------
(* A request with a token goes on                                          *)

LEMMA AcceptedOK ==
    ASSUME SessionInv, World, NEW x \in SlotState, x.at \in {"refreshing", "accepted"},
           x.at = "refreshing" => x.op = "read" /\ x.token \in issued,
           x.at = "accepted" => x.op = "none",
           x.late <= now \/ (~distributed /\ faults' < access.faults)
    PROVE  RequestOK(x)'
  <1>1. /\ x.late \in Nat /\ now \in Nat /\ now' \in Nat /\ now' >= now
        /\ access' = access /\ (distributed' <=> distributed)
        /\ x.token \in issued => x.token \in issued'
    BY SessionTypes DEF SessionInv, SlotState, World, distributed
  <1>2. QED BY <1>1 DEF RequestOK, reading, revoking

LEMMA CheckLineKeeps ==
    ASSUME SessionInv, NEW q \in Slot, CheckLine(q)
    PROVE  SessionInv'
  <1>1. /\ slot[q].op = "read" /\ slot[q].at = "line" /\ served' \in Nat
        /\ faults' = faults \/ fault
        /\ UNCHANGED <<access, now, token, lines, tokenRow, lineRow, activePair, seed, lock,
                       result, loggedOut>>
        /\ \/ finish(q, "refused")
           \/ /\ ~ (lineRow[token[slot[q].token].line] > now)
              /\ goes(q, "token")
    BY SessionTypes DEF SessionInv, CheckLine, readKeeps, unchangedByRequest, issuing, remembered,
       flightVars
  <1>2. CASE finish(q, "refused")
    BY <1>1, <1>2, FinishesQuietly, QuietIsSafe, StillGoes
  <1>3. CASE /\ ~ (lineRow[token[slot[q].token].line] > now)
             /\ goes(q, "token")
    <2> DEFINE x == [slot[q] EXCEPT !.at = "token"]
               t == slot[q].token
    <2>1. slot[q] \in SlotState /\ RequestOK(slot[q]) /\ t \in issued
      BY <1>1, SessionTypes DEF SessionInv, RequestsOK, RequestOK, reading
    <2>2. /\ x \in SlotState /\ x.lease = slot[q].lease /\ x.op = "read" /\ x.at = "token"
          /\ x.token = t /\ x.late = slot[q].late /\ x.late \in Nat
      BY <1>1, <2>1 DEF SlotState
    <2>3. slot' = [slot EXCEPT ![q] = x]
      BY <1>3 DEF goes
    <2>4. distributed => lineRow[token[t].line] \in Nat
      <3>1. distributed => token[t].line \in Line
        BY <2>1 DEF SessionInv, TokensKnown
      <3>2. QED BY <3>1, SessionTypes DEF SessionInv
    <2> HIDE DEF x
    <2>5. distributed => x.late <= now
      BY <1>1, <1>3, <2>1, <2>2, <2>4, SessionTypes DEF SessionInv, RequestOK
    <2>6. ~distributed /\ x.late > 0 => t \in loggedOut /\ x.late <= token[t].until - 1
      BY <1>1, <2>1, <2>2 DEF RequestOK
    <2>7. RequestOK(x)
      BY <2>1, <2>2, <2>5, <2>6 DEF RequestOK, reading, revoking
    <2>8. PICK y \in SlotState : y = x
      BY <2>2
    <2>9. RequestOK(y)'
      BY <1>1, <2>7, <2>8, Still, RequestAges
    <2>10. Moves(q)
      BY <2>2, <2>3, <2>8, <2>9 DEF Moves
    <2>11. QED BY <1>1, <2>10, StillGoes
  <1>4. QED BY <1>1, <1>2, <1>3

LEMMA CheckTokenKeeps ==
    ASSUME SessionInv, NEW q \in Slot, CheckToken(q)
    PROVE  SessionInv'
  <1> DEFINE t == slot[q].token
             good == IF token[t].pair # 0 THEN activePair = token[t].pair ELSE tokenRow[t] <= now
  <1>1. /\ slot[q].op = "read" /\ slot[q].at = "token" /\ served' \in Nat
        /\ faults' = faults \/ fault
        /\ UNCHANGED <<access, now, token, lines, tokenRow, lineRow, activePair, seed, lock,
                       result, loggedOut>>
        /\ \/ finish(q, "refused")
           \/ /\ good \/ (fault /\ ~distributed)
              /\ goes(q, "refreshing") \/ finish(q, "accepted")
    BY SessionTypes DEF SessionInv, CheckToken, readKeeps, unchangedByRequest, issuing, remembered,
       flightVars, accepts
  <1>2. CASE finish(q, "refused")
    BY <1>1, <1>2, FinishesQuietly, QuietIsSafe, StillGoes
  <1>3. CASE /\ good \/ (fault /\ ~distributed)
             /\ goes(q, "refreshing") \/ finish(q, "accepted")
    <2>1. slot[q] \in SlotState /\ RequestOK(slot[q]) /\ t \in issued /\ slot[q].late \in Nat
      BY <1>1, SessionTypes DEF SessionInv, RequestsOK, RequestOK, reading, SlotState
    <2>2. slot[q].late <= now \/ (~distributed /\ faults' < access.faults)
      <3>1. CASE distributed
        BY <1>1, <2>1, <3>1 DEF RequestOK
      <3>2. CASE ~distributed /\ fault
        BY <1>1, <3>2, FaultCounts
      <3>3. CASE ~distributed /\ faults' = faults /\ good
        <4>1. CASE slot[q].late = 0
          BY <4>1, SessionTypes DEF SessionInv
        <4>2. CASE slot[q].late # 0 /\ faults = access.faults
          <5>1. t \in loggedOut /\ slot[q].late <= token[t].until - 1
            BY <1>1, <2>1, <3>3, <4>2 DEF RequestOK
          <5>2. IF token[t].pair # 0 THEN activePair # token[t].pair
                ELSE tokenRow[t] >= token[t].until - 1
            BY <3>3, <4>2, <5>1 DEF SessionInv, LogoutsKept
          <5>3. token[t].until \in Nat /\ tokenRow[t] \in Nat /\ now \in Nat
            BY <2>1, SessionTypes, IssuedFinite DEF SessionInv, TokenState
          <5>4. QED BY <2>1, <3>3, <5>1, <5>2, <5>3
        <4>3. CASE faults # access.faults
          BY <3>3, <4>3, SessionTypes DEF SessionInv, LogoutsKept
        <4>4. QED BY <4>1, <4>2, <4>3
      <3>4. QED BY <1>1, <1>3, <3>1, <3>2, <3>3
    <2> HIDE DEF good
    <2>3. World
      BY <1>1, Still
    <2>4. CASE goes(q, "refreshing")
      <3> DEFINE x == [slot[q] EXCEPT !.at = "refreshing"]
      <3>1. /\ x \in SlotState /\ x.lease = slot[q].lease /\ x.op = "read"
            /\ x.at = "refreshing" /\ x.token = t /\ x.late = slot[q].late
        BY <1>1, <2>1 DEF SlotState
      <3>2. slot' = [slot EXCEPT ![q] = x]
        BY <2>4 DEF goes
      <3> HIDE DEF x, t
      <3>3. PICK y \in SlotState : y = x
        BY <3>1
      <3>4. RequestOK(y)'
        BY <2>1, <2>2, <2>3, <3>1, <3>3, AcceptedOK
      <3>5. Moves(q)
        BY <3>1, <3>2, <3>3, <3>4 DEF Moves
      <3>6. QED BY <1>1, <3>5, StillGoes
    <2>5. CASE finish(q, "accepted")
      <3> DEFINE x == over(q, "accepted")
      <3>1. /\ x \in SlotState /\ x.lease = 0 /\ x.op = "none"
            /\ x.at = "accepted" /\ x.late = slot[q].late
        BY OverState
      <3>2. slot' = [slot EXCEPT ![q] = x]
        BY <2>5 DEF finish
      <3> HIDE DEF x, t
      <3>3. PICK y \in SlotState : y = x
        BY <3>1
      <3>4. RequestOK(y)'
        BY <2>2, <2>3, <3>1, <3>3, AcceptedOK
      <3>5. Moves(q)
        BY <3>1, <3>2, <3>3, <3>4 DEF Moves
      <3>6. QED BY <1>1, <3>5, StillGoes
    <2>6. QED BY <1>3, <2>4, <2>5
  <1>4. QED
    <2> HIDE DEF good
    <2>1. QED BY <1>1, <1>2, <1>3

LEMMA RenewKeeps ==
    ASSUME SessionInv, NEW q \in Slot, Renew(q)
    PROVE  SessionInv'
  <1> DEFINE t == token[slot[q].token]
             line == lineOf(0, t.line)
             r == uetToken(line, t.origin)
  <1>1. /\ slot[q].op = "read" /\ slot[q].at = "refreshing" /\ served' \in Nat
        /\ UNCHANGED <<access, now, tokenRow, lineRow, activePair, seed, lock, result,
                       loggedOut, faults>>
        /\ \/ finish(q, "refused") /\ UNCHANGED <<token, lines>>
           \/ issues(nextToken, r) /\ finish(q, "accepted")
    BY SessionTypes DEF SessionInv, Renew, readKeeps, unchangedByRequest, issuing, remembered,
       flightVars
  <1>2. CASE finish(q, "refused") /\ UNCHANGED <<token, lines>>
    BY <1>1, <1>2, FinishesQuietly, QuietIsSafe, StillGoes
  <1>3. CASE issues(nextToken, r) /\ finish(q, "accepted")
    <2>1. slot[q] \in SlotState /\ RequestOK(slot[q]) /\ slot[q].token \in issued
      BY <1>1, SessionTypes DEF SessionInv, RequestsOK, RequestOK, reading
    <2>2. t \in TokenState /\ t.line \in {0} \cup Line /\ t.origin \in {0} \cup Token
      BY <2>1, SessionTypes, IssuedFinite DEF SessionInv, TokenState
    <2>3. IF distributed
          THEN t.line \in Line /\ t.origin \in issued /\ token[t.origin].line = t.line
          ELSE t.line = 0
      BY <2>1 DEF SessionInv, TokensKnown
    <2>4. /\ ~distributed => line = 0
          /\ distributed => line = t.line
      BY <2>2, <2>3, SessionNumbers, LineGiven
    <2>5. line \in {0} \cup Line
      BY <2>2, <2>3, <2>4
    <2>6. /\ r \in TokenState /\ r.kind = "uet" /\ r.line = line /\ r.origin = t.origin
          /\ r.pair = 0 /\ r.until > 0
      <3> HIDE DEF line, t
      <3>1. QED BY <2>2, <2>5, UetToken
    <2> HIDE DEF r, t, line
    <2>7. TokensGrow
      <3>1. r.kind # "none" /\ r.pair \in {0, nextToken} /\ access' = access
        BY <1>1, <2>6
      <3>2. IF distributed
            THEN /\ r.line # 0 /\ r.origin \in issued \cup {nextToken}
                 /\ r.origin \in issued => token[r.origin].line = r.line
            ELSE r.line = 0
        BY <2>3, <2>4, <2>6, SessionNumbers
      <3>3. QED BY <1>3, <2>6, <3>1, <3>2, TokenIssued
    <2>8. FlightTyped /\ activePair' \in {0} \cup Token
      BY <1>1, LoginStepTypes DEF FlightTyped
    <2>9. Around
      BY <1>1, <2>7, <2>8 DEF Around
    <2>10. World
      BY <1>1, <2>9, AroundIsWorld
    <2> DEFINE x == over(q, "accepted")
    <2>11. /\ x \in SlotState /\ x.lease = 0 /\ x.op = "none"
           /\ x.at = "accepted" /\ x.late = slot[q].late
      BY OverState
    <2>12. slot' = [slot EXCEPT ![q] = x]
      BY <1>3 DEF finish
    <2> HIDE DEF x
    <2>13. x.late <= now \/ (~distributed /\ faults' < access.faults)
      BY <1>1, <2>1, <2>11 DEF RequestOK
    <2>14. PICK y \in SlotState : y = x
      BY <2>11
    <2>15. RequestOK(y)'
      BY <2>10, <2>11, <2>13, <2>14, AcceptedOK
    <2>16. Moves(q)
      BY <2>11, <2>12, <2>14, <2>15 DEF Moves
    <2>17. QED BY <1>1, <2>7, <2>8, <2>16, RequestStep
  <1>4. QED
    <2> HIDE DEF r
    <2>1. QED BY <1>1, <1>2, <1>3

----------------------------------------------------------------------------
(* Logouts                                                                 *)

\* The state around a step of a logout.
Revokes ==
    /\ access' = access /\ now' = now
    /\ UNCHANGED <<token, lines, seed, lock, result, served>>
    /\ faults' = faults \/ fault
    /\ tokenRow' \in [Token -> Nat] /\ \A t \in Token : tokenRow'[t] >= tokenRow[t]
    /\ lineRow' \in [Line -> Nat] /\ \A l \in Line : lineRow'[l] >= lineRow[l]
    /\ activePair' \in {activePair, 0}

LEMMA RevokesWorld ==
    ASSUME SessionInv, Revokes, loggedOut \subseteq loggedOut'
    PROVE  /\ World /\ TokensGrow /\ FlightTyped /\ served' \in Nat
           /\ activePair' \in {0} \cup Token
           /\ (distributed' <=> distributed) /\ issued' = issued
  <1>1. /\ now \in Nat /\ activePair \in {0} \cup Token /\ served \in Nat
        /\ seed \in SeedState /\ lock \in LockState /\ result \in ResultState
        /\ lines \in {0} \cup Line
    BY SessionTypes DEF SessionInv
  <1>2. TokensGrow
    BY <1>1, TokensUnmoved DEF Revokes
  <1>3. faults' <= faults /\ faults' \in Nat
    BY FaultCounts DEF Revokes
  <1>4. World
    BY <1>1, <1>2, <1>3 DEF World, TokensGrow, Revokes
  <1>5. activePair' \in {0} \cup Token
    BY <1>1 DEF Revokes
  <1>6. QED BY <1>1, <1>2, <1>4, <1>5 DEF FlightTyped, Revokes, distributed, issued

\* What revoking t leaves behind, when its client is told so.
Revoked(t) ==
    /\ t \in issued
    /\ distributed => lineRow'[token[t].line] >= token[t].until
    /\ ~distributed /\ faults' = access.faults =>
          IF token[t].pair # 0 THEN activePair' = 0 ELSE tokenRow'[t] >= token[t].until - 1

LEMMA RevokesKeeps ==
    ASSUME SessionInv, NEW q \in Slot, NEW x \in SlotState, slot' = [slot EXCEPT ![q] = x],
           x.lease \in {0, slot[q].lease}, RequestOK(x)', Revokes,
           \/ loggedOut' = loggedOut
           \/ \E t \in Token : loggedOut' = loggedOut \cup {t} /\ Revoked(t)
    PROVE  SessionInv'
  <1>1. loggedOut \subseteq loggedOut'
    OBVIOUS
  <1>2. /\ World /\ TokensGrow /\ FlightTyped /\ served' \in Nat
        /\ activePair' \in {0} \cup Token
        /\ (distributed' <=> distributed) /\ issued' = issued
    BY <1>1, RevokesWorld
  <1>3. /\ faults \in Nat /\ access.faults \in Nat /\ faults <= access.faults
        /\ tokenRow \in [Token -> Nat] /\ lineRow \in [Line -> Nat]
        /\ activePair \in {0} \cup Token
        /\ loggedOut \subseteq issued /\ issued \subseteq Token /\ token \in [Token -> TokenState]
    BY SessionTypes, IssuedFinite DEF SessionInv, LogoutsKept
  <1>4. faults' <= faults /\ faults' \in Nat /\ access' = access /\ token' = token
    BY <1>2 DEF World, Revokes
  <1>5. loggedOut' \subseteq issued' /\ loggedOut' \subseteq Token
    BY <1>2, <1>3 DEF Revoked
  <1>6. ASSUME distributed', NEW u \in loggedOut'
        PROVE  lineRow'[token'[u].line] >= token'[u].until
    <2>1. CASE u \in loggedOut
      <3>1. lineRow[token[u].line] >= token[u].until /\ token[u].line \in Line
        BY <1>2, <1>3, <1>6, <2>1 DEF SessionInv, LogoutsKept, TokensKnown
      <3>2. /\ lineRow[token[u].line] \in Nat /\ token[u].until \in Nat
            /\ lineRow'[token[u].line] \in Nat
            /\ lineRow'[token[u].line] >= lineRow[token[u].line]
        BY <1>3, <2>1, <3>1 DEF Revokes, TokenState
      <3>3. QED BY <1>4, <3>1, <3>2
    <2>2. CASE u \notin loggedOut
      BY <1>2, <1>4, <1>6, <2>2 DEF Revoked
    <2>3. QED BY <2>1, <2>2
  <1>7. ASSUME ~distributed', faults' = access'.faults, NEW u \in loggedOut'
        PROVE  IF token'[u].pair # 0 THEN activePair' # token'[u].pair
               ELSE tokenRow'[u] >= token'[u].until - 1
    <2>1. CASE u \in loggedOut
      <3>1. /\ token[u].until \in Nat /\ tokenRow[u] \in Nat /\ tokenRow'[u] \in Nat
            /\ tokenRow'[u] >= tokenRow[u] /\ token[u].pair \in {0, u}
        BY <1>3, <2>1 DEF Revokes, TokenState, SessionInv, TokensKnown
      <3>2. IF token[u].pair # 0 THEN activePair # token[u].pair
            ELSE tokenRow[u] >= token[u].until - 1
        BY <1>2, <1>3, <1>4, <1>7, <2>1 DEF SessionInv, LogoutsKept
      <3>3. activePair' \in {activePair, 0}
        BY DEF Revokes
      <3>4. QED BY <1>4, <3>1, <3>2, <3>3
    <2>2. CASE u \notin loggedOut
      BY <1>2, <1>4, <1>7, <2>2 DEF Revoked
    <2>3. QED BY <2>1, <2>2
  <1>8. LogoutsKept'
    BY <1>3, <1>4, <1>5, <1>6, <1>7 DEF LogoutsKept
  <1>9. LocksKept'
    BY LockUnmoved DEF Revokes
  <1>10. QED BY <1>2, <1>5, <1>8, <1>9, StepKeeps DEF Revokes

\* A logout ends, or goes on to its next step.
LEMMA LogoutEnds ==
    ASSUME SessionInv, NEW q \in Slot, NEW a \in {"refused", "answered"}, finish(q, a), Revokes,
           \/ loggedOut' = loggedOut
           \/ \E t \in Token : loggedOut' = loggedOut \cup {t} /\ Revoked(t)
    PROVE  SessionInv'
  <1>1. PICK x \in SlotState : x = over(q, a)
    BY OverState
  <1>2. /\ x.lease = 0 /\ x.op = "none" /\ x.at = a /\ slot' = [slot EXCEPT ![q] = x]
    BY <1>1, OverState DEF finish
  <1>3. Harmless(x)
    BY <1>2 DEF Harmless
  <1>4. QED BY <1>2, <1>3, HarmlessOK, RevokesKeeps

LEMMA LogoutGoesOn ==
    ASSUME SessionInv, NEW q \in Slot, slot[q].op = "logout",
           NEW a \in {"revokingLine", "revokingToken"}, goes(q, a), Revokes,
           loggedOut' = loggedOut, slot[q].token \in issued,
           a = "revokingLine" => token[slot[q].token].line # 0,
           a = "revokingToken" =>
              /\ token[slot[q].token].pair = 0
              /\ distributed => lineRow'[token[slot[q].token].line] >= token[slot[q].token].until
    PROVE  SessionInv'
  <1>1. slot[q] \in SlotState
    BY SessionTypes DEF SessionInv
  <1> DEFINE next == [slot[q] EXCEPT !.at = a]
             t == slot[q].token
  <1>2. /\ next \in SlotState /\ next.lease = slot[q].lease /\ next.op = "logout" /\ next.at = a
        /\ next.token = t
    BY <1>1 DEF SlotState
  <1>3. slot' = [slot EXCEPT ![q] = next]
    BY DEF goes
  <1> HIDE DEF next
  <1>4. PICK x \in SlotState : x = next
    BY <1>2
  <1>5. PICK u \in Token : u = t
    BY IssuedFinite DEF SessionInv
  <1>6. token' = token /\ (distributed' <=> distributed) /\ issued' = issued
    BY DEF Revokes, distributed, issued
  <1>7. x.token = u /\ x.at = a /\ x.op = "logout"
    BY <1>2, <1>4, <1>5
  <1>8. /\ u \in issued'
        /\ a = "revokingLine" => token'[u].line # 0
        /\ a = "revokingToken" =>
              /\ token'[u].pair = 0
              /\ distributed' => lineRow'[token'[u].line] >= token'[u].until
    BY <1>5, <1>6
  <1>9. RequestOK(x)'
    BY <1>7, <1>8 DEF RequestOK, reading, revoking
  <1>10. QED BY <1>2, <1>3, <1>4, <1>9, RevokesKeeps

LEMMA RevokePairKeeps ==
    ASSUME SessionInv, NEW q \in Slot, RevokePair(q)
    PROVE  SessionInv'
  <1> DEFINE t == slot[q].token
             mine == activePair = token[t].pair
  <1>1. /\ slot[q].op = "logout" /\ slot[q].at = "pair"
        /\ slot[q] \in SlotState /\ RequestOK(slot[q]) /\ t \in issued /\ token[t].pair # 0
        /\ t \in Token
    BY SessionTypes, IssuedFinite
       DEF SessionInv, RevokePair, RequestsOK, RequestOK, revoking
  <1>2. Revokes
    <2>1. /\ tokenRow' = tokenRow /\ lineRow' = lineRow /\ activePair' \in {activePair, 0}
          /\ faults' = faults \/ fault
          /\ access' = access /\ now' = now
          /\ UNCHANGED <<token, lines, seed, lock, result, served>>
      BY DEF RevokePair, logoutKeeps, unchangedByRequest, issuing, flightVars
    <2>2. /\ tokenRow \in [Token -> Nat] /\ lineRow \in [Line -> Nat]
      BY SessionTypes DEF SessionInv
    <2>3. /\ \A u \in Token : tokenRow'[u] >= tokenRow[u]
          /\ \A l \in Line : lineRow'[l] >= lineRow[l]
      BY <2>1, <2>2
    <2>4. QED BY <2>1, <2>2, <2>3 DEF Revokes
  <1>3. \/ finish(q, "refused") /\ loggedOut' = loggedOut
        \/ token[t].line # 0 /\ goes(q, "revokingLine") /\ loggedOut' = loggedOut
        \/ token[t].line = 0 /\ activePair' = 0 /\ confirms(q)
    BY DEF RevokePair
  <1>4. CASE finish(q, "refused") /\ loggedOut' = loggedOut
    BY <1>2, <1>4, LogoutEnds
  <1>5. CASE token[t].line # 0 /\ goes(q, "revokingLine") /\ loggedOut' = loggedOut
    BY <1>1, <1>2, <1>5, LogoutGoesOn
  <1>6. CASE token[t].line = 0 /\ activePair' = 0 /\ confirms(q)
    <2>1. ~distributed
      BY <1>1, <1>6, SessionNumbers DEF SessionInv, TokensKnown
    <2>2. Revoked(t)
      BY <1>1, <1>6, <2>1 DEF Revoked
    <2>3. finish(q, "answered") /\ loggedOut' = loggedOut \cup {t}
      BY <1>6 DEF confirms
    <2> HIDE DEF t
    <2>4. QED BY <1>1, <1>2, <2>2, <2>3, LogoutEnds
  <1>7. QED BY <1>3, <1>4, <1>5, <1>6

LEMMA RevokeLineKeeps ==
    ASSUME SessionInv, NEW q \in Slot, RevokeLine(q)
    PROVE  SessionInv'
  <1> DEFINE t == slot[q].token
             l == token[t].line
             revoked == [lineRow EXCEPT ![l] = larger(@, token[t].until)]
  <1>1. /\ slot[q].op = "logout" /\ slot[q].at = "revokingLine"
        /\ RequestOK(slot[q]) /\ t \in issued /\ t \in Token /\ l # 0
    BY SessionTypes, IssuedFinite
       DEF SessionInv, RevokeLine, RequestsOK, RequestOK, revoking
  <1>2. distributed /\ l \in Line
    BY <1>1 DEF SessionInv, TokensKnown
  <1>3. /\ lineRow \in [Line -> Nat] /\ tokenRow \in [Token -> Nat]
        /\ token[t].until \in Nat /\ lineRow[l] \in Nat
    BY <1>1, <1>2, SessionTypes DEF SessionInv, TokenState
  <1>4. /\ revoked \in [Line -> Nat] /\ revoked[l] >= token[t].until
        /\ \A k \in Line : revoked[k] >= lineRow[k]
    BY <1>2, <1>3 DEF larger
  <1>5. /\ lineRow' \in {lineRow, revoked}
        /\ \/ finish(q, "refused") /\ loggedOut' = loggedOut
           \/ lineRow' = revoked /\ confirms(q)
           \/ /\ lineRow' = revoked /\ token[t].pair = 0
              /\ goes(q, "revokingToken") /\ loggedOut' = loggedOut
    BY DEF RevokeLine
  <1>6. Revokes
    <2>1. /\ tokenRow' = tokenRow /\ activePair' = activePair
          /\ faults' = faults \/ fault
          /\ access' = access /\ now' = now
          /\ UNCHANGED <<token, lines, seed, lock, result, served>>
      BY DEF RevokeLine, logoutKeeps, unchangedByRequest, issuing, flightVars
    <2> HIDE DEF revoked
    <2>2. /\ lineRow' \in [Line -> Nat]
          /\ \A u \in Token : tokenRow'[u] >= tokenRow[u]
          /\ \A k \in Line : lineRow'[k] >= lineRow[k]
      BY <1>3, <1>4, <1>5, <2>1
    <2>3. QED BY <1>3, <2>1, <2>2 DEF Revokes
  <1> HIDE DEF revoked
  <1>7. CASE finish(q, "refused") /\ loggedOut' = loggedOut
    BY <1>6, <1>7, LogoutEnds
  <1>8. CASE lineRow' = revoked /\ confirms(q)
    <2>1. Revoked(t)
      BY <1>1, <1>2, <1>4, <1>8 DEF Revoked
    <2>2. finish(q, "answered") /\ loggedOut' = loggedOut \cup {t}
      BY <1>8 DEF confirms
    <2> HIDE DEF t
    <2>3. QED BY <1>1, <1>6, <2>1, <2>2, LogoutEnds
  <1>9. CASE /\ lineRow' = revoked /\ token[t].pair = 0
             /\ goes(q, "revokingToken") /\ loggedOut' = loggedOut
    BY <1>1, <1>4, <1>6, <1>9, LogoutGoesOn
  <1>10. QED BY <1>5, <1>7, <1>8, <1>9

LEMMA RevokeTokenKeeps ==
    ASSUME SessionInv, NEW q \in Slot, RevokeToken(q)
    PROVE  SessionInv'
  <1> DEFINE t == slot[q].token
             end == token[t].until
             revoked(e) == [tokenRow EXCEPT ![t] = larger(@, e)]
  <1>1. /\ slot[q].op = "logout" /\ slot[q].at = "revokingToken"
        /\ RequestOK(slot[q]) /\ t \in issued /\ t \in Token
        /\ token[t].pair = 0
        /\ distributed => lineRow[token[t].line] >= token[t].until
    BY SessionTypes, IssuedFinite
       DEF SessionInv, RevokeToken, RequestsOK, RequestOK, revoking
  <1>2. /\ lineRow \in [Line -> Nat] /\ tokenRow \in [Token -> Nat]
        /\ end \in Nat /\ end - 1 \in Nat /\ end >= end - 1 /\ tokenRow[t] \in Nat
    BY <1>1, SessionTypes DEF SessionInv, TokenState, TokensKnown
  <1>3. \A e \in Nat : /\ revoked(e) \in [Token -> Nat] /\ revoked(e)[t] >= e
                       /\ \A u \in Token : revoked(e)[u] >= tokenRow[u]
    BY <1>1, <1>2 DEF larger
  <1>4. /\ tokenRow' \in {tokenRow, revoked(end), revoked(end - 1)}
        /\ \/ finish(q, "refused") /\ loggedOut' = loggedOut
           \/ /\ tokenRow' \in {revoked(end), revoked(end - 1)} /\ confirms(q)
           \/ /\ fault /\ ~distributed /\ confirms(q)
    BY DEF RevokeToken
  <1> HIDE DEF end, revoked
  <1>5. Revokes
    <2>1. /\ lineRow' = lineRow /\ activePair' = activePair
          /\ faults' = faults \/ fault
          /\ access' = access /\ now' = now
          /\ UNCHANGED <<token, lines, seed, lock, result, served>>
      BY DEF RevokeToken, logoutKeeps, unchangedByRequest, issuing, flightVars
    <2>2. /\ tokenRow' \in [Token -> Nat]
          /\ \A u \in Token : tokenRow'[u] >= tokenRow[u]
          /\ \A k \in Line : lineRow'[k] >= lineRow[k]
      BY <1>2, <1>3, <1>4, <2>1
    <2>3. QED BY <1>2, <2>1, <2>2 DEF Revokes
  <1>6. CASE finish(q, "refused") /\ loggedOut' = loggedOut
    BY <1>5, <1>6, LogoutEnds
  <1>7. CASE /\ tokenRow' \in {revoked(end), revoked(end - 1)} \/ (fault /\ ~distributed)
             /\ confirms(q)
    <2>1. lineRow' = lineRow
      BY DEF RevokeToken
    <2>2. ASSUME ~distributed, faults' = access.faults
          PROVE  tokenRow'[t] >= end - 1
      <3>1. ~fault
        BY <2>2, FaultCounts, SessionTypes DEF SessionInv, Revokes, fault, LogoutsKept
      <3>2. PICK e \in {end, end - 1} : tokenRow' = revoked(e)
        BY <1>7, <3>1
      <3>3. e \in Nat /\ e >= end - 1 /\ revoked(e)[t] >= e /\ revoked(e)[t] \in Nat
        BY <1>1, <1>2, <1>3
      <3>4. QED BY <1>2, <3>2, <3>3
    <2>3. Revoked(t)
      BY <1>1, <2>1, <2>2 DEF Revoked, end
    <2>4. finish(q, "answered") /\ loggedOut' = loggedOut \cup {t}
      BY <1>7 DEF confirms
    <2> HIDE DEF t
    <2>5. QED BY <1>1, <1>5, <2>3, <2>4, LogoutEnds
  <1>8. QED BY <1>4, <1>6, <1>7

----------------------------------------------------------------------------
(* The sessions as a whole                                                 *)

LEMMA SessionTickKeeps ==
    ASSUME SessionInv, SessionTick
    PROVE  SessionInv'
  <1>1. /\ now \in Nat /\ lineRow \in [Line -> Nat] /\ slot \in [Slot -> SlotState]
        /\ lines \in {0} \cup Line /\ faults \in Nat
        /\ lineRow' = lineRow /\ slot' = slot /\ now' = now + 1 /\ access' = access
        /\ tokenRow' = tokenRow /\ activePair' = activePair /\ loggedOut' = loggedOut
        /\ faults' = faults /\ token' = token /\ lines' = lines /\ lock' = lock
        /\ seed' = seed /\ result' = result /\ served' = served
    BY SessionTypes DEF SessionInv, SessionTick, remembered, flightVars
  <1>2. TokensGrow
    BY <1>1, TokensUnmoved
  <1>3. World
    BY <1>1, <1>2 DEF World, TokensGrow
  <1>4. RequestsOK'
    <2>1. ASSUME NEW p \in Slot
          PROVE  RequestOK(slot[p])'
      <3>1. PICK x \in SlotState : x = slot[p]
        BY <1>1
      <3>2. RequestOK(x)
        BY <3>1 DEF SessionInv, RequestsOK
      <3>3. RequestOK(x)'
        BY <1>1, <1>3, <3>2, RequestAges
      <3>4. slot'[p] = x
        BY <1>1, <3>1
      <3>5. QED BY <3>3, <3>4
    <2>2. QED BY <2>1 DEF RequestsOK
  <1>5. LocksKept'
    <2>1. \A p \in Slot : slot[p].lease \in Nat
      BY <1>1 DEF SlotState
    <2>2. QED BY <1>1, <2>1 DEF SessionInv, LocksKept
  <1>6. LogoutsKept'
    BY <1>1 DEF SessionInv, LogoutsKept, issued, distributed
  <1>7. SessionTypeOK'
    <2>1. now' \in Nat
      BY <1>1
    <2>2. QED BY <1>1, <2>1, SessionTypes, SessionTypesKept DEF SessionInv
  <1>8. QED BY <1>2, <1>4, <1>5, <1>6, <1>7 DEF SessionInv, TokensGrow

LEMMA SessionStepKeeps ==
    ASSUME SessionInv, SessionNext
    PROVE  SessionInv'
  <1>1. CASE SessionTick
    BY <1>1, SessionTickKeeps
  <1>2. ASSUME NEW q \in Slot, ReadStep(q)
        PROVE  SessionInv'
    BY <1>2, CheckLineKeeps, CheckTokenKeeps, RenewKeeps DEF ReadStep
  <1>3. ASSUME NEW q \in Slot, LoginStep(q)
        PROVE  SessionInv'
    BY <1>3, LookUpSeedKeeps, ProbeSeedKeeps, GetResultKeeps, TakeLockKeeps, StopWaitingKeeps,
       LoginAtPortalKeeps, IssueTokenKeeps, CacheSeedKeeps, PublishResultKeeps, ReleaseLockKeeps
       DEF LoginStep
  <1>4. ASSUME NEW q \in Slot, LogoutStep(q)
        PROVE  SessionInv'
    BY <1>4, RevokePairKeeps, RevokeLineKeeps, RevokeTokenKeeps DEF LogoutStep
  <1>5. ASSUME NEW q \in Slot, Login(q) \/ LoginUet(q)
        PROVE  SessionInv'
    BY <1>5, LoginKeeps, LoginUetKeeps
  <1>6. ASSUME NEW q \in Slot, NEW t \in Token, Read(q, t) \/ Logout(q, t)
        PROVE  SessionInv'
    BY <1>6, ReadKeeps, LogoutKeeps
  <1>7. QED BY <1>1, <1>2, <1>3, <1>4, <1>5, <1>6 DEF SessionNext, SessionProgress

LEMMA SessionStarts ==
    ASSUME SessionInit, access \in Deployment
    PROVE  SessionInv
  <1>1. SessionTypeOK
    BY SessionNumbers DEF SessionInit, SessionTypeOK, NoToken, NoSeed, NoLock, NoResult, NewSlot,
       Deployment
  <1>2. issued = {}
    BY DEF SessionInit, issued, NoToken
  <1>3. TokensKnown
    <2>1. Cardinality(issued) = 0
      BY <1>2, FS_EmptySet
    <2>2. \A t \in Token : ~ (t <= 0)
      BY SessionNumbers DEF Token
    <2>3. QED BY <1>2, <2>1, <2>2 DEF TokensKnown
  <1>4. LogoutsKept
    BY <1>1, SessionTypes DEF SessionInit, LogoutsKept
  <1>5. RequestsOK
    <2>1. ASSUME NEW q \in Slot
          PROVE  RequestOK(slot[q])
      <3>1. slot[q] = NewSlot
        BY DEF SessionInit
      <3>2. QED BY <3>1 DEF RequestOK, reading, revoking, NewSlot
    <2>2. QED BY <2>1 DEF RequestsOK
  <1>6. LocksKept
    <2>1. \A q \in Slot : slot[q].lease = 0 /\ now = 0
      BY DEF SessionInit, NewSlot
    <2>2. QED BY <2>1 DEF LocksKept
  <1>7. QED BY <1>1, <1>3, <1>4, <1>5, <1>6 DEF SessionInv

LEMMA SessionStutters ==
    ASSUME SessionInv, UNCHANGED sessionVars
    PROVE  SessionInv'
  <1>1. SessionTypeOK'
    BY DEF SessionInv, sessionVars, SessionTypeOK
  <1>2. TokensKnown' /\ LogoutsKept'
    BY DEF SessionInv, sessionVars, TokensKnown, LogoutsKept, issued, distributed
  <1>3. RequestsOK'
    BY DEF SessionInv, sessionVars, RequestsOK, RequestOK, reading, revoking, issued, distributed
  <1>4. LocksKept'
    BY DEF SessionInv, sessionVars, LocksKept
  <1>5. QED BY <1>1, <1>2, <1>3, <1>4 DEF SessionInv

LEMMA LogoutsAreHeard ==
    ASSUME SessionInv
    PROVE  LoggedOutStaysOut
  <1>1. ASSUME NEW q \in Slot, slot[q].at \in {"accepted", "refreshing"}, slot[q].late > now
        PROVE  ~distributed /\ faults < access.faults
    <2>1. RequestOK(slot[q])
      BY DEF SessionInv, RequestsOK
    <2>2. slot[q].late \in Nat /\ now \in Nat
      BY SessionTypes DEF SessionInv, SlotState
    <2>3. QED BY <1>1, <2>1, <2>2 DEF RequestOK
  <1>2. QED BY <1>1 DEF LoggedOutStaysOut

LEMMA OneLockAtATime ==
    ASSUME SessionInv
    PROVE  LoginsOverlapOnlyPastLock
  <1> DEFINE inside == {q \in Slot :
                          /\ slot[q].at \in {"working", "issuing", "seeding", "publishing"}
                          /\ slot[q].lease > now}
  <1>1. inside \in SUBSET {lock.holder}
    BY DEF SessionInv, LocksKept
  <1>2. IsFiniteSet({lock.holder}) /\ Cardinality({lock.holder}) = 1
    BY FS_Singleton
  <1> HIDE DEF inside
  <1>3. Cardinality(inside) <= 1
    BY <1>1, <1>2, FS_Subset
  <1>4. QED BY <1>3 DEF inside, LoginsOverlapOnlyPastLock

----------------------------------------------------------------------------
(* Imports that share a job (AutomationBackend)                            *)

JobState ==
    [drawn: BOOLEAN, stored: BOOLEAN, entry: {"none", "queued", "taken"},
     events: SUBSET (Ending \cup {"challenge"}),
     challenge: {"none", "pending", "answered", "cancelled"},
     cancelKey: BOOLEAN, dead: BOOLEAN, settlements: Nat, unsure: BOOLEAN]
ImportState ==
    [at: {"arrived", "joining", "claiming", "storing", "adding", "withdrawing", "consuming",
          "ended"},
     job: Job \cup {None}, asked: BOOLEAN,
     outcome: Ending \cup {None, "unavailable", "expired", "timeout", "error", "left"}]
SettlerState ==
    [at: {"idle", "checked", "keying", "publishing", "ended"}, kind: {"answer", "cancel"},
     job: Job \cup {None}, outcome: {None, "refused", "accepted", "error"}]
HostState ==
    [at: {"idle", "working", "asking", "failing", "stopping"}, job: Job \cup {None}]

\* An import that drew a job; once the claim names it, nobody else's does.
claims(i) == import[i].at \in {"claiming", "storing", "adding", "withdrawing"}
holds(i) == import[i].at \in {"storing", "adding", "withdrawing"}

\* An entry that callers may wait for.
liveJob(j) == job[j].entry # "none" /\ ~job[j].dead /\ ~job[j].unsure

\* Whoever works on a job knows which.
Named ==
    /\ \A i \in Import : import[i].at \notin {"arrived", "ended"} => import[i].job \in Job
    /\ \A s \in Settler : settler[s].at \notin {"idle", "ended"} => settler[s].job \in Job
    /\ \A h \in Host : host[h].at # "idle" => host[h].job \in Job

\* Every job id is drawn by one import, and added by it alone.
DrawnOnce ==
    /\ \A i \in Import : claims(i) =>
          job[import[i].job].drawn
    /\ \A i, k \in Import : claims(i) /\ claims(k) /\ import[i].job = import[k].job => i = k
    /\ \A j \in Job : job[j].entry # "none" => job[j].drawn
    /\ \A i \in Import :
          /\ import[i].at \in {"claiming", "storing", "adding"} =>
                 job[import[i].job].entry = "none"
          /\ import[i].at = "withdrawing" =>
                 job[import[i].job].entry = "none" \/ job[import[i].job].unsure

\* The claim is its holder's, and names the one job that lives.
ClaimIsOurs ==
    /\ \A i \in Import : holds(i) => claim = import[i].job
    /\ \A j \in Job : liveJob(j) => claim = j

\* A challenge that was settled stays so.
SettledStays ==
    \A j \in Job :
        \/ job[j].settlements = 0
        \/ job[j].settlements = 1 /\ job[j].challenge \in {"answered", "cancelled"}

BackendInv == BackendTypeOK /\ Named /\ DrawnOnce /\ ClaimIsOurs /\ SettledStays

LEMMA BackendTypes ==
    ASSUME BackendTypeOK
    PROVE  /\ claim \in Job \cup {None} /\ None \notin Job /\ Job \subseteq Nat
           /\ job \in [Job -> JobState] /\ import \in [Import -> ImportState]
           /\ settler \in [Settler -> SettlerState] /\ host \in [Host -> HostState]
           /\ controls \subseteq Control /\ mishaps \in Nat
  BY BackendAssumption DEF BackendTypeOK, JobState, ImportState, SettlerState, HostState

LEMMA BackendTypesKept ==
    ASSUME BackendTypeOK, backend' = backend,
           claim' \in Job \cup {None}, job' \in [Job -> JobState],
           import' \in [Import -> ImportState], settler' \in [Settler -> SettlerState],
           host' \in [Host -> HostState], controls' \subseteq Control, mishaps' \in Nat
    PROVE  BackendTypeOK'
  BY DEF BackendTypeOK, JobState, ImportState, SettlerState, HostState, Control, Ending

LEMMA MishapCounts ==
    ASSUME BackendTypeOK, mishap
    PROVE  mishaps' \in Nat
  BY DEF BackendTypeOK, mishap

\* What a step that neither draws, claims nor adds a job leaves of each job.
SameClaims(j) ==
    /\ job'[j].drawn = job[j].drawn /\ job'[j].unsure = job[j].unsure
    /\ job'[j].entry = "none" <=> job[j].entry = "none"
    /\ job[j].dead => job'[j].dead

\* Such a step, whoever takes it.
LEMMA QuietStep ==
    ASSUME BackendInv, backend' = backend, claim' = claim,
           job' \in [Job -> JobState], import' \in [Import -> ImportState],
           settler' \in [Settler -> SettlerState], host' \in [Host -> HostState],
           controls' \subseteq Control, mishaps' \in Nat,
           \A j \in Job : SameClaims(j),
           \A i \in Import : import'[i] = import[i] \/ import'[i].at \in {"arrived", "ended"} \/
               (import'[i].at \in {"joining", "consuming"} /\ import'[i].job \in Job),
           \A s \in Settler : settler'[s].at \notin {"idle", "ended"} => settler'[s].job \in Job,
           \A h \in Host : host'[h].at # "idle" => host'[h].job \in Job,
           SettledStays'
    PROVE  BackendInv'
  <1>1. BackendTypeOK'
    BY BackendTypes, BackendTypesKept DEF BackendInv
  <1>2. \A i \in Import : claims(i)' => claims(i) /\ import'[i] = import[i]
    BY DEF claims
  <1>3. \A i \in Import : import[i].at \notin {"arrived", "ended"} => import[i].job \in Job
    BY DEF BackendInv, Named
  <1>4. Named'
    BY <1>3 DEF Named
  <1>5. DrawnOnce'
    <2>1. \A i \in Import : claims(i) => import[i].job \in Job
      BY <1>3 DEF claims
    <2>2. \A i \in Import : import[i].at \in {"claiming", "storing", "adding", "withdrawing"}
                               <=> claims(i)
      BY DEF claims
    <2>3. \A i \in Import : claims(i)' => job'[import'[i].job].drawn
      BY <1>2, <2>1 DEF BackendInv, DrawnOnce, SameClaims
    <2>4. \A i, k \in Import :
            claims(i)' /\ claims(k)' /\ import'[i].job = import'[k].job => i = k
      BY <1>2 DEF BackendInv, DrawnOnce
    <2>5. \A j \in Job : job'[j].entry # "none" => job'[j].drawn
      BY DEF BackendInv, DrawnOnce, SameClaims
    <2>6. ASSUME NEW i \in Import
          PROVE  /\ import'[i].at \in {"claiming", "storing", "adding"} =>
                        job'[import'[i].job].entry = "none"
                 /\ import'[i].at = "withdrawing" =>
                        job'[import'[i].job].entry = "none" \/ job'[import'[i].job].unsure
      <3>1. CASE claims(i)'
        BY <1>2, <2>1, <3>1 DEF BackendInv, DrawnOnce, SameClaims
      <3>2. CASE ~claims(i)'
        BY <3>2 DEF claims
      <3>3. QED BY <3>1, <3>2
    <2>7. QED BY <2>3, <2>4, <2>5, <2>6 DEF DrawnOnce
  <1>6. ClaimIsOurs'
    <2>1. \A i \in Import : holds(i)' => holds(i) /\ import'[i] = import[i]
      BY DEF holds
    <2>2. \A j \in Job : liveJob(j)' => liveJob(j)
      BY DEF liveJob, SameClaims
    <2>3. QED BY <2>1, <2>2 DEF BackendInv, ClaimIsOurs
  <1>7. QED
    BY <1>1, <1>4, <1>5, <1>6 DEF BackendInv


\* What stays when a step leaves jobs, settlers or hosts alone.
LEMMA BackendFacts ==
    ASSUME BackendInv
    PROVE  /\ BackendTypeOK /\ SettledStays
           /\ \A s \in Settler : settler[s].at \notin {"idle", "ended"} => settler[s].job \in Job
           /\ \A h \in Host : host[h].at # "idle" => host[h].job \in Job
           /\ \A i \in Import : import[i].at \notin {"arrived", "ended"} => import[i].job \in Job
           /\ mishaps' = mishaps \/ mishap => mishaps' \in Nat
           /\ job' = job => SettledStays' /\ \A j \in Job : SameClaims(j)
  <1>1. BackendTypeOK /\ SettledStays /\ Named
    BY DEF BackendInv
  <1>2. mishaps' = mishaps \/ mishap => mishaps' \in Nat
    BY <1>1, BackendTypes, MishapCounts
  <1>3. job' = job => SettledStays' /\ \A j \in Job : SameClaims(j)
    BY <1>1 DEF SettledStays, SameClaims
  <1>4. QED BY <1>1, <1>2, <1>3 DEF Named

\* An import goes on or ends without claiming anything.
GoesOnQuietly(i) ==
    \E x \in ImportState :
        /\ import' = [import EXCEPT ![i] = x]
        /\ \/ x.at \in {"arrived", "ended"}
           \/ x.at \in {"joining", "consuming"} /\ x.job \in Job

LEMMA EndsQuietly ==
    ASSUME BackendInv, NEW i \in Import,
           NEW o \in Ending \cup {None, "unavailable", "expired", "timeout", "error", "left"},
           ends(i, o)
    PROVE  GoesOnQuietly(i)
  <1> DEFINE x == [import[i] EXCEPT !.at = "ended", !.outcome = o]
  <1>1. import[i] \in ImportState
    BY BackendFacts, BackendTypes
  <1>2. x \in ImportState /\ x.at = "ended"
    BY <1>1 DEF ImportState
  <1>3. import' = [import EXCEPT ![i] = x]
    BY DEF ends
  <1> HIDE DEF x
  <1>4. QED BY <1>2, <1>3 DEF GoesOnQuietly

LEMMA ConsumesQuietly ==
    ASSUME BackendInv, NEW i \in Import, import[i].job \in Job, moves(i, "consuming")
    PROVE  GoesOnQuietly(i)
  <1>1. import[i] \in ImportState
    BY BackendFacts, BackendTypes
  <1>2. [import[i] EXCEPT !.at = "consuming"] \in ImportState
    BY <1>1 DEF ImportState
  <1>3. QED BY <1>1, <1>2 DEF moves, GoesOnQuietly, ImportState

LEMMA ImportMoves ==
    ASSUME BackendInv, NEW i \in Import, GoesOnQuietly(i),
           UNCHANGED <<backend, claim, settler, host>>, controls' \subseteq Control,
           mishaps' = mishaps \/ mishap,
           job' \in [Job -> JobState], \A j \in Job : SameClaims(j), SettledStays'
    PROVE  BackendInv'
  <1> PICK x \in ImportState :
        /\ import' = [import EXCEPT ![i] = x]
        /\ \/ x.at \in {"arrived", "ended"}
           \/ x.at \in {"joining", "consuming"} /\ x.job \in Job
    BY DEF GoesOnQuietly
  <1>1. import' \in [Import -> ImportState]
        /\ \A k \in Import : import'[k] = IF k = i THEN x ELSE import[k]
    BY BackendFacts, BackendTypes
  <1>2. \A k \in Import : import'[k] = import[k] \/ import'[k].at \in {"arrived", "ended"} \/
               (import'[k].at \in {"joining", "consuming"} /\ import'[k].job \in Job)
    BY <1>1
  <1>3. /\ settler' \in [Settler -> SettlerState] /\ host' \in [Host -> HostState]
        /\ \A s \in Settler : settler'[s].at \notin {"idle", "ended"} => settler'[s].job \in Job
        /\ \A h \in Host : host'[h].at # "idle" => host'[h].job \in Job
        /\ mishaps' \in Nat
    BY BackendFacts, BackendTypes
  <1>4. QED BY <1>1, <1>2, <1>3, QuietStep

\* The flags of one job change, and not what claims depend on.
LEMMA FlagChanges ==
    ASSUME BackendInv, NEW j \in Job, NEW x \in JobState,
           job' = job \/ job' = [job EXCEPT ![j] = x],
           x.drawn = job[j].drawn, x.unsure = job[j].unsure,
           x.entry = "none" <=> job[j].entry = "none",
           job[j].dead => x.dead,
           x.settlements = job[j].settlements,
           job[j].challenge \in {"answered", "cancelled"} => x.challenge = job[j].challenge
    PROVE  job' \in [Job -> JobState] /\ SettledStays' /\ \A k \in Job : SameClaims(k)
  <1>1. job \in [Job -> JobState] /\ SettledStays
    BY BackendFacts, BackendTypes
  <1>2. CASE job' = job
    BY <1>1, <1>2, BackendFacts
  <1>3. CASE job' = [job EXCEPT ![j] = x]
    <2>1. \A k \in Job : job'[k] = IF k = j THEN x ELSE job[k]
      BY <1>1, <1>3
    <2>2. job' \in [Job -> JobState]
      BY <1>1, <1>3
    <2>3. SettledStays'
      BY <1>1, <2>1 DEF SettledStays
    <2>4. \A k \in Job : SameClaims(k)
      BY <2>1 DEF SameClaims
    <2>5. QED BY <2>2, <2>3, <2>4
  <1>4. QED BY <1>2, <1>3

LEMMA JoinJobKeeps ==
    ASSUME BackendInv, NEW i \in Import, JoinJob(i)
    PROVE  BackendInv'
  <1>1. import[i].job \in Job
    BY BackendFacts DEF JoinJob
  <1>2. \/ \E o \in {"unavailable", "expired", "error"} : ends(i, o)
        \/ moves(i, "consuming")
    BY DEF JoinJob
  <1>3. GoesOnQuietly(i)
    BY <1>1, <1>2, EndsQuietly, ConsumesQuietly
  <1>4. /\ UNCHANGED <<backend, claim, job, settler, host, controls>>
        /\ mishaps' = mishaps \/ mishap
    BY DEF JoinJob
  <1>5. QED
    BY <1>3, <1>4, BackendFacts, BackendTypes, ImportMoves

LEMMA HearEndingKeeps ==
    ASSUME BackendInv, NEW i \in Import, HearEnding(i)
    PROVE  BackendInv'
  <1>1. \E o \in Ending : ends(i, o)
    BY DEF HearEnding
  <1>2. GoesOnQuietly(i)
    BY <1>1, EndsQuietly
  <1>3. UNCHANGED <<backend, claim, job, settler, host, controls, mishaps>>
    BY DEF HearEnding
  <1>4. QED
    BY <1>2, <1>3, BackendFacts, BackendTypes, ImportMoves

LEMMA StopListeningKeeps ==
    ASSUME BackendInv, NEW i \in Import, StopListening(i)
    PROVE  BackendInv'
  <1>1. \E o \in {"cancelled", "timeout", "error"} : ends(i, o)
    BY DEF StopListening
  <1>2. GoesOnQuietly(i)
    BY <1>1, EndsQuietly DEF Ending
  <1>3. /\ UNCHANGED <<backend, claim, job, settler, host, controls>>
        /\ mishaps' = mishaps \/ mishap
    BY DEF StopListening
  <1>4. QED
    BY <1>2, <1>3, BackendFacts, BackendTypes, ImportMoves

LEMMA ImportDiesKeeps ==
    ASSUME BackendInv, NEW i \in Import, ImportDies(i)
    PROVE  BackendInv'
  <1>1. GoesOnQuietly(i)
    BY EndsQuietly DEF ImportDies
  <1>2. UNCHANGED <<backend, claim, job, settler, host, controls>> /\ mishap
    BY DEF ImportDies
  <1>3. QED
    BY <1>1, <1>2, BackendFacts, BackendTypes, ImportMoves

LEMMA LeaveKeeps ==
    ASSUME BackendInv, NEW i \in Import, Leave(i)
    PROVE  BackendInv'
  <1> DEFINE j == import[i].job
             x == [job[j] EXCEPT !.cancelKey = TRUE]
  <1>1. j \in Job /\ job[j] \in JobState
    BY BackendFacts, BackendTypes DEF Leave
  <1>2. GoesOnQuietly(i)
    BY EndsQuietly DEF Leave
  <1>3. /\ job' = job \/ job' = [job EXCEPT ![j] = x]
        /\ controls' = controls \/ controls' = controls \cup {[kind |-> "cancelJob", job |-> j]}
        /\ mishaps' = mishaps \/ mishap
        /\ UNCHANGED <<backend, claim, settler, host>>
    BY DEF Leave
  <1>4. /\ x \in JobState /\ x.drawn = job[j].drawn /\ x.unsure = job[j].unsure
        /\ x.entry = job[j].entry /\ x.dead = job[j].dead
        /\ x.settlements = job[j].settlements /\ x.challenge = job[j].challenge
    BY <1>1 DEF JobState
  <1>5. controls' \subseteq Control
    BY <1>1, <1>3, BackendFacts, BackendTypes DEF Control
  <1> HIDE DEF j, x
  <1>6. job' \in [Job -> JobState] /\ SettledStays' /\ \A k \in Job : SameClaims(k)
    BY <1>1, <1>3, <1>4, FlagChanges
  <1>7. QED
    BY <1>2, <1>3, <1>5, <1>6, ImportMoves

LEMMA HearChallengeKeeps ==
    ASSUME BackendInv, NEW i \in Import, HearChallenge(i)
    PROVE  BackendInv'
  <1> DEFINE j == import[i].job
             x == [job[j] EXCEPT !.challenge = IF @ = "none" THEN "pending" ELSE @]
             y == [import[i] EXCEPT !.asked = TRUE]
  <1>1. /\ j \in Job /\ job[j] \in JobState /\ import[i] \in ImportState
        /\ import[i].at = "consuming"
    BY BackendFacts, BackendTypes DEF HearChallenge
  <1>2. y \in ImportState /\ y.at = "consuming" /\ y.job = j
    BY <1>1 DEF ImportState
  <1>3. GoesOnQuietly(i)
    <2>1. import' = [import EXCEPT ![i] = y] \/ ends(i, "error")
      BY DEF HearChallenge
    <2> HIDE DEF y
    <2>2. QED BY <1>1, <1>2, <2>1, EndsQuietly DEF GoesOnQuietly
  <1>4. /\ job' = job \/ job' = [job EXCEPT ![j] = x]
        /\ mishaps' = mishaps \/ mishap
        /\ UNCHANGED <<backend, claim, settler, host, controls>>
    BY DEF HearChallenge
  <1>5. /\ x \in JobState /\ x.drawn = job[j].drawn /\ x.unsure = job[j].unsure
        /\ x.entry = job[j].entry /\ x.dead = job[j].dead
        /\ x.settlements = job[j].settlements
        /\ job[j].challenge \in {"answered", "cancelled"} => x.challenge = job[j].challenge
    BY <1>1 DEF JobState
  <1>6. controls' \subseteq Control
    BY <1>4, BackendFacts, BackendTypes
  <1> HIDE DEF j, x
  <1>7. job' \in [Job -> JobState] /\ SettledStays' /\ \A k \in Job : SameClaims(k)
    BY <1>1, <1>4, <1>5, FlagChanges
  <1>8. QED
    BY <1>3, <1>4, <1>6, <1>7, ImportMoves

LEMMA LookUpClaimKeeps ==
    ASSUME BackendInv, NEW i \in Import, LookUpClaim(i)
    PROVE  BackendInv'
  <1>1. /\ import[i] \in ImportState /\ import[i].at = "arrived"
        /\ UNCHANGED <<backend, claim, settler, host, controls>>
        /\ controls' \subseteq Control
        /\ mishaps' = mishaps \/ mishap
    BY BackendFacts, BackendTypes DEF LookUpClaim
  <1>2. CASE claim # None /\ job' = job
             /\ import' = [import EXCEPT ![i].at = "joining", ![i].job = claim]
    <2> DEFINE x == [import[i] EXCEPT !.at = "joining", !.job = claim]
    <2>1. claim \in Job
      BY <1>2, BackendFacts, BackendTypes
    <2>2. x \in ImportState /\ x.at = "joining" /\ x.job \in Job
      BY <1>1, <2>1 DEF ImportState
    <2>3. import' = [import EXCEPT ![i] = x]
      BY <1>2
    <2> HIDE DEF x
    <2>4. GoesOnQuietly(i)
      BY <2>2, <2>3 DEF GoesOnQuietly
    <2>5. QED
      BY <1>1, <1>2, <2>4, BackendFacts, BackendTypes, ImportMoves
  <1>3. CASE ends(i, "error") /\ job' = job
    <2>1. GoesOnQuietly(i)
      BY <1>3, EndsQuietly
    <2>2. QED
      BY <1>1, <1>3, <2>1, BackendFacts, BackendTypes, ImportMoves
  <1>4. CASE claim = None /\ mishaps' = mishaps /\ \E j \in Job :
                /\ \A k \in Job : job[k].drawn <=> k < j
                /\ job' = [job EXCEPT ![j].drawn = TRUE]
                /\ import' = [import EXCEPT ![i].at = "claiming", ![i].job = j]
    <2> PICK j \in Job :
                /\ \A k \in Job : job[k].drawn <=> k < j
                /\ job' = [job EXCEPT ![j].drawn = TRUE]
                /\ import' = [import EXCEPT ![i].at = "claiming", ![i].job = j]
      BY <1>4
    <2>1. ~job[j].drawn /\ job[j] \in JobState
      BY BackendFacts, BackendTypes
    <2> DEFINE x == [import[i] EXCEPT !.at = "claiming", !.job = j]
               y == [job[j] EXCEPT !.drawn = TRUE]
    <2>2. x \in ImportState /\ x.at = "claiming" /\ x.job = j
      BY <1>1 DEF ImportState
    <2>3. /\ y \in JobState /\ y.drawn /\ y.entry = job[j].entry /\ y.unsure = job[j].unsure
          /\ y.dead = job[j].dead /\ y.settlements = job[j].settlements
          /\ y.challenge = job[j].challenge
      BY <2>1 DEF JobState
    <2>4. /\ import' = [import EXCEPT ![i] = x]
          /\ job' = [job EXCEPT ![j] = y]
          /\ import \in [Import -> ImportState] /\ job \in [Job -> JobState]
      BY BackendFacts, BackendTypes
    <2> HIDE DEF x, y
    <2>5. /\ \A k \in Import : import'[k] = IF k = i THEN x ELSE import[k]
          /\ \A k \in Job : job'[k] = IF k = j THEN y ELSE job[k]
          /\ import' \in [Import -> ImportState] /\ job' \in [Job -> JobState]
      <3>1. \A k \in Import : import'[k] = IF k = i THEN x ELSE import[k]
        BY <2>4
      <3>2. \A k \in Job : job'[k] = IF k = j THEN y ELSE job[k]
        BY <2>4
      <3>3. import' \in [Import -> ImportState]
        BY <2>2, <2>4
      <3>4. job' \in [Job -> JobState]
        BY <2>3, <2>4
      <3>5. QED BY <3>1, <3>2, <3>3, <3>4
    <2>6. job[j].entry = "none"
      BY <2>1 DEF BackendInv, DrawnOnce
    <2>7. \A k \in Job : /\ job'[k].entry = job[k].entry /\ job'[k].unsure = job[k].unsure
                         /\ job'[k].dead = job[k].dead
                         /\ job'[k].settlements = job[k].settlements
                         /\ job'[k].challenge = job[k].challenge
      BY <2>3, <2>5
    <2>17. /\ \A k \in Job : k # j => job'[k].drawn = job[k].drawn
           /\ job'[j].drawn
      BY <2>3, <2>5
    <2>8. \A k \in Import : k # i => import'[k] = import[k]
      BY <2>5
    <2>9. import'[i].at = "claiming" /\ import'[i].job = j
      BY <2>2, <2>5
    <2>10. BackendTypeOK'
      BY <1>1, <1>4, <2>5, BackendFacts, BackendTypes, BackendTypesKept
    <2>11. Named'
      BY <1>1, <2>8, <2>9, BackendFacts DEF Named
    <2>12. \A k \in Import : k # i /\ claims(k) => import[k].job \in Job /\ import[k].job # j
      BY <2>1, BackendFacts DEF claims, BackendInv, DrawnOnce
    <2>13. DrawnOnce'
      <3>1. \A k \in Import : claims(k)' => k = i \/ claims(k)
        BY <2>8 DEF claims
      <3>2. \A k \in Import : claims(k)' => job'[import'[k].job].drawn
        <4>1. \A k \in Import : claims(k) => job[import[k].job].drawn
          BY DEF BackendInv, DrawnOnce
        <4>2. \A k \in Import : claims(k)' /\ k # i => job'[import'[k].job].drawn
          BY <2>8, <2>12, <2>17, <3>1, <4>1
        <4>3. QED BY <2>9, <2>17, <4>2
      <3>3. \A k, m \in Import :
              claims(k)' /\ claims(m)' /\ import'[k].job = import'[m].job => k = m
        <4>1. \A k, m \in Import :
                claims(k) /\ claims(m) /\ import[k].job = import[m].job => k = m
          BY DEF BackendInv, DrawnOnce
        <4>2. \A k \in Import : claims(k)' /\ k # i =>
                 claims(k) /\ import'[k] = import[k] /\ import[k].job # j
          BY <2>8, <2>12, <3>1
        <4>3. QED BY <2>9, <4>1, <4>2
      <3>4. \A k \in Job : job'[k].entry # "none" => job'[k].drawn
        BY <2>7, <2>17 DEF BackendInv, DrawnOnce
      <3>5. ASSUME NEW k \in Import
            PROVE  /\ import'[k].at \in {"claiming", "storing", "adding"} =>
                          job'[import'[k].job].entry = "none"
                   /\ import'[k].at = "withdrawing" =>
                          job'[import'[k].job].entry = "none" \/ job'[import'[k].job].unsure
        <4>1. CASE k = i
          BY <2>6, <2>7, <2>9, <4>1
        <4>2. CASE k # i /\ claims(k)
          <5>1. /\ import[k].at \in {"claiming", "storing", "adding"} =>
                        job[import[k].job].entry = "none"
                /\ import[k].at = "withdrawing" =>
                        job[import[k].job].entry = "none" \/ job[import[k].job].unsure
            BY DEF BackendInv, DrawnOnce
          <5>2. import[k].job \in Job /\ import'[k] = import[k]
            BY <2>8, <2>12, <4>2
          <5>3. QED BY <2>7, <5>1, <5>2
        <4>3. CASE k # i /\ ~claims(k)
          BY <2>8, <4>3 DEF claims
        <4>4. QED BY <4>1, <4>2, <4>3
      <3>6. QED BY <3>2, <3>3, <3>4, <3>5 DEF DrawnOnce
    <2>14. ClaimIsOurs'
      <3>1. \A k \in Import : holds(k)' => holds(k) /\ import'[k] = import[k]
        BY <2>8, <2>9 DEF holds
      <3>2. \A k \in Job : liveJob(k)' => liveJob(k)
        BY <2>7 DEF liveJob
      <3>3. QED BY <1>1, <3>1, <3>2 DEF BackendInv, ClaimIsOurs
    <2>15. SettledStays'
      BY <2>7 DEF BackendInv, SettledStays
    <2>16. QED BY <2>10, <2>11, <2>13, <2>14, <2>15 DEF BackendInv
  <1>5. QED
    BY <1>2, <1>3, <1>4 DEF LookUpClaim

\* Nobody holds the claim of an import that gives it up, and no job lives on it.
LEMMA OnlyHolder ==
    ASSUME BackendInv, NEW i \in Import, holds(i)
    PROVE  /\ claim = import[i].job /\ claim \in Job
           /\ \A k \in Import : holds(k) => k = i
           /\ import[i].at = "withdrawing" => \A j \in Job : ~liveJob(j)
  <1>1. claim = import[i].job /\ claim \in Job
    BY BackendFacts DEF BackendInv, ClaimIsOurs, holds
  <1>2. \A k \in Import : holds(k) => claims(k) /\ import[k].job = claim
    BY DEF BackendInv, ClaimIsOurs, holds, claims
  <1>3. \A k \in Import : holds(k) => k = i
    BY <1>2 DEF BackendInv, DrawnOnce
  <1>4. import[i].at = "withdrawing" => ~liveJob(claim)
    BY <1>1 DEF BackendInv, DrawnOnce, liveJob
  <1>5. \A j \in Job : liveJob(j) => j = claim
    BY DEF BackendInv, ClaimIsOurs
  <1>6. QED BY <1>1, <1>3, <1>4, <1>5

\* The claim changes hands, and no job.
LEMMA ClaimMoves ==
    ASSUME BackendInv, NEW i \in Import, NEW x \in ImportState,
           import' = [import EXCEPT ![i] = x],
           UNCHANGED <<backend, job, settler, host, controls>>,
           mishaps' = mishaps \/ mishap,
           claim' \in Job \cup {None},
           \/ x.at \in {"arrived", "ended"}
           \/ /\ claims(i) /\ x.at = "storing" /\ import[i].at = "claiming"
              /\ x.job = import[i].job /\ claim' = x.job,
           \A k \in Import : k # i /\ holds(k) => claim' = claim,
           \A j \in Job : liveJob(j) => claim' = claim
    PROVE  BackendInv'
  <1>1. /\ import' \in [Import -> ImportState]
        /\ \A k \in Import : import'[k] = IF k = i THEN x ELSE import[k]
    BY BackendFacts, BackendTypes
  <1>2. BackendTypeOK'
    BY <1>1, BackendFacts, BackendTypes, BackendTypesKept
  <1>3. Named'
    BY <1>1, BackendFacts DEF Named, claims
  <1>4. \A k \in Import : claims(k)' => claims(k) /\ import'[k].job = import[k].job
    BY <1>1 DEF claims
  <1>5. DrawnOnce'
    <2>1. \A k \in Import : claims(k)' => job'[import'[k].job].drawn
      BY <1>4 DEF BackendInv, DrawnOnce
    <2>2. \A k, m \in Import :
            claims(k)' /\ claims(m)' /\ import'[k].job = import'[m].job => k = m
      BY <1>4 DEF BackendInv, DrawnOnce
    <2>3. \A k \in Job : job'[k].entry # "none" => job'[k].drawn
      BY DEF BackendInv, DrawnOnce
    <2>4. ASSUME NEW k \in Import
          PROVE  /\ import'[k].at \in {"claiming", "storing", "adding"} =>
                        job'[import'[k].job].entry = "none"
                 /\ import'[k].at = "withdrawing" =>
                        job'[import'[k].job].entry = "none" \/ job'[import'[k].job].unsure
      BY <1>1 DEF BackendInv, DrawnOnce
    <2>5. QED BY <2>1, <2>2, <2>3, <2>4 DEF DrawnOnce
  <1>6. ClaimIsOurs'
    <2>1. \A k \in Import : holds(k)' => claim' = import'[k].job
      BY <1>1 DEF holds, BackendInv, ClaimIsOurs
    <2>2. \A j \in Job : liveJob(j)' => liveJob(j)
      BY DEF liveJob
    <2>3. \A j \in Job : liveJob(j)' => claim' = j
      BY <2>2 DEF BackendInv, ClaimIsOurs
    <2>4. QED BY <2>1, <2>3 DEF ClaimIsOurs
  <1>7. SettledStays'
    BY BackendFacts
  <1>8. QED BY <1>2, <1>3, <1>5, <1>6, <1>7 DEF BackendInv

LEMMA ClaimLoginKeeps ==
    ASSUME BackendInv, NEW i \in Import, ClaimLogin(i)
    PROVE  BackendInv'
  <1>1. /\ import[i] \in ImportState /\ import[i].at = "claiming" /\ import[i].job \in Job
        /\ UNCHANGED <<backend, job, settler, host, controls>>
        /\ mishaps' = mishaps \/ mishap
        /\ claim \in Job \cup {None}
    BY BackendFacts, BackendTypes DEF ClaimLogin
  <1>2. claims(i)
    BY <1>1 DEF claims
  <1>3. claim = None => /\ \A k \in Import : ~holds(k)
                        /\ \A j \in Job : ~liveJob(j)
    <2>1. \A k \in Import : holds(k) => import[k].job \in Job
      BY BackendFacts DEF holds
    <2>2. QED BY <2>1, BackendAssumption DEF BackendInv, ClaimIsOurs
  <1>4. CASE claim = None /\ claim' = import[i].job /\ moves(i, "storing")
    <2> DEFINE x == [import[i] EXCEPT !.at = "storing"]
    <2>1. x \in ImportState /\ x.at = "storing" /\ x.job = import[i].job
      BY <1>1 DEF ImportState
    <2>2. import' = [import EXCEPT ![i] = x]
      BY <1>4 DEF moves
    <2> HIDE DEF x
    <2>3. QED BY <1>1, <1>2, <1>3, <1>4, <2>1, <2>2, ClaimMoves
  <1>5. CASE import' = [import EXCEPT ![i] = NewImport] /\ claim' = claim
    <2>1. NewImport \in ImportState /\ NewImport.at = "arrived"
      BY DEF NewImport, ImportState
    <2> HIDE DEF NewImport
    <2>2. QED BY <1>1, <1>5, <2>1, ClaimMoves
  <1>6. CASE /\ ends(i, "error")
             /\ claim' \in {claim, IF claim = None THEN import[i].job ELSE claim}
    <2> DEFINE x == [import[i] EXCEPT !.at = "ended", !.outcome = "error"]
    <2>1. x \in ImportState /\ x.at = "ended"
      BY <1>1 DEF ImportState
    <2>2. import' = [import EXCEPT ![i] = x]
      BY <1>6 DEF ends
    <2>3. claim' \in Job \cup {None} /\ (claim' # claim => claim = None)
      BY <1>1, <1>6
    <2> HIDE DEF x
    <2>4. QED BY <1>1, <1>3, <2>1, <2>2, <2>3, ClaimMoves
  <1>7. QED
    BY <1>4, <1>5, <1>6 DEF ClaimLogin

LEMMA WithdrawClaimKeeps ==
    ASSUME BackendInv, NEW i \in Import, WithdrawClaim(i)
    PROVE  BackendInv'
  <1>1. /\ import[i] \in ImportState /\ import[i].at = "withdrawing"
        /\ UNCHANGED <<backend, job, settler, host, controls>>
        /\ mishaps' = mishaps \/ mishap
        /\ ends(i, "error")
        /\ claim' \in Job \cup {None}
    BY BackendFacts, BackendTypes DEF WithdrawClaim
  <1> DEFINE x == [import[i] EXCEPT !.at = "ended", !.outcome = "error"]
  <1>2. x \in ImportState /\ x.at = "ended"
    BY <1>1 DEF ImportState
  <1>3. import' = [import EXCEPT ![i] = x]
    BY <1>1 DEF ends
  <1>4. holds(i)
    BY <1>1 DEF holds
  <1> HIDE DEF x
  <1>5. QED BY <1>1, <1>2, <1>3, <1>4, OnlyHolder, ClaimMoves

\* The holder of the claim stores its job, adds it, or gives up.
LEMMA HolderMoves ==
    ASSUME BackendInv, NEW i \in Import, import[i].at \in {"storing", "adding"},
           NEW j \in Job, j = import[i].job, NEW x \in ImportState, NEW y \in JobState,
           import' = [import EXCEPT ![i] = x], job' = [job EXCEPT ![j] = y],
           UNCHANGED <<backend, claim, settler, host, controls>>,
           mishaps' = mishaps \/ mishap,
           x.job = j, x.at \in {"adding", "withdrawing", "consuming"},
           y.drawn = job[j].drawn, y.dead = job[j].dead,
           y.settlements = job[j].settlements, y.challenge = job[j].challenge,
           x.at = "adding" => y.entry = "none",
           x.at = "withdrawing" => y.entry = "none" \/ y.unsure
    PROVE  BackendInv'
  <1>1. import \in [Import -> ImportState] /\ job \in [Job -> JobState]
    BY BackendFacts, BackendTypes
  <1>2. \A k \in Import : import'[k] = IF k = i THEN x ELSE import[k]
    BY <1>1
  <1>3. \A k \in Job : job'[k] = IF k = j THEN y ELSE job[k]
    BY <1>1
  <1>4. import' \in [Import -> ImportState] /\ job' \in [Job -> JobState]
    BY <1>1
  <1>5. BackendTypeOK'
    BY <1>4, BackendFacts, BackendTypes, BackendTypesKept
  <1>6. Named'
    BY <1>2, BackendFacts DEF Named
  <1>7. holds(i) /\ claims(i)
    BY DEF holds, claims
  <1>8. \A k \in Import : claims(k)' => claims(k) /\ import'[k].job = import[k].job
    BY <1>2, <1>7 DEF claims
  <1>9. \A k \in Import : k # i /\ claims(k) => import[k].job \in Job /\ import[k].job # j
    BY <1>7, BackendFacts DEF BackendInv, DrawnOnce, claims
  <1>10. DrawnOnce'
    <2>1. \A k \in Job : job'[k].drawn = job[k].drawn
      BY <1>3
    <2>2. \A k \in Import : claims(k) => job[import[k].job].drawn /\ import[k].job \in Job
      BY <1>7, <1>9 DEF BackendInv, DrawnOnce
    <2>3. \A k \in Import : claims(k)' => job'[import'[k].job].drawn
      BY <1>8, <2>1, <2>2
    <2>4. \A k, m \in Import :
            claims(k)' /\ claims(m)' /\ import'[k].job = import'[m].job => k = m
      BY <1>8 DEF BackendInv, DrawnOnce
    <2>5. \A k \in Job : job'[k].entry # "none" => job'[k].drawn
      BY <1>3, <1>7 DEF BackendInv, DrawnOnce
    <2>6. ASSUME NEW k \in Import
          PROVE  /\ import'[k].at \in {"claiming", "storing", "adding"} =>
                        job'[import'[k].job].entry = "none"
                 /\ import'[k].at = "withdrawing" =>
                        job'[import'[k].job].entry = "none" \/ job'[import'[k].job].unsure
      <3>1. CASE k = i
        BY <1>2, <1>3, <3>1
      <3>2. CASE k # i /\ claims(k)
        <4>1. import'[k] = import[k] /\ job'[import[k].job] = job[import[k].job]
          BY <1>2, <1>3, <1>9, <3>2
        <4>2. QED BY <4>1 DEF BackendInv, DrawnOnce
      <3>3. CASE k # i /\ ~claims(k)
        BY <1>2, <3>3 DEF claims
      <3>4. QED BY <3>1, <3>2, <3>3
    <2>7. QED BY <2>3, <2>4, <2>5, <2>6 DEF DrawnOnce
  <1>11. ClaimIsOurs'
    <2>1. claim = j
      BY <1>7, OnlyHolder
    <2>2. \A k \in Import : holds(k)' => claim' = import'[k].job
      BY <1>2, <2>1 DEF holds, BackendInv, ClaimIsOurs
    <2>3. \A k \in Job : liveJob(k)' => k = j \/ liveJob(k)
      BY <1>3 DEF liveJob
    <2>4. \A k \in Job : liveJob(k)' => claim' = k
      BY <2>1, <2>3 DEF BackendInv, ClaimIsOurs
    <2>5. QED BY <2>2, <2>4 DEF ClaimIsOurs
  <1>12. SettledStays'
    BY <1>3 DEF BackendInv, SettledStays
  <1>13. QED BY <1>5, <1>6, <1>10, <1>11, <1>12 DEF BackendInv

LEMMA StoreJobKeeps ==
    ASSUME BackendInv, NEW i \in Import, StoreJob(i)
    PROVE  BackendInv'
  <1> DEFINE j == import[i].job
             y(b) == [job[j] EXCEPT !.stored = b]
             x(a) == [import[i] EXCEPT !.at = a]
  <1>1. /\ j \in Job /\ job[j] \in JobState /\ import[i] \in ImportState
        /\ import[i].at = "storing" /\ job \in [Job -> JobState]
        /\ mishaps' = mishaps \/ mishap
        /\ UNCHANGED <<backend, claim, settler, host, controls>>
    BY BackendFacts, BackendTypes DEF StoreJob
  <1>2. job[j].entry = "none"
    BY <1>1 DEF BackendInv, DrawnOnce
  <1>3. \A a \in {"adding", "withdrawing"} :
            x(a) \in ImportState /\ x(a).at = a /\ x(a).job = j
    BY <1>1 DEF ImportState
  <1>4. \A b \in BOOLEAN :
            /\ y(b) \in JobState /\ y(b).drawn = job[j].drawn /\ y(b).dead = job[j].dead
            /\ y(b).settlements = job[j].settlements /\ y(b).challenge = job[j].challenge
            /\ y(b).entry = job[j].entry
    BY <1>1 DEF JobState
  <1>5. \E a \in {"adding", "withdrawing"} : import' = [import EXCEPT ![i] = x(a)]
    BY DEF StoreJob, moves
  <1>6. \E b \in BOOLEAN : job' = [job EXCEPT ![j] = y(b)]
    <2>1. job' = job \/ job' = [job EXCEPT ![j] = y(TRUE)]
      BY DEF StoreJob
    <2>2. job[j].stored \in BOOLEAN /\ y(job[j].stored) = job[j]
      BY <1>1 DEF JobState
    <2>3. [job EXCEPT ![j] = job[j]] = job
      BY <1>1
    <2>4. QED BY <2>1, <2>2, <2>3
  <1> HIDE DEF j, x, y
  <1>7. j = import[i].job
    BY DEF j
  <1>8. PICK a \in {"adding", "withdrawing"} : import' = [import EXCEPT ![i] = x(a)]
    BY <1>5
  <1>9. PICK c \in BOOLEAN : job' = [job EXCEPT ![j] = y(c)]
    BY <1>6
  <1>10. /\ x(a) \in ImportState /\ x(a).at = a /\ x(a).job = j
         /\ y(c) \in JobState /\ y(c).drawn = job[j].drawn /\ y(c).dead = job[j].dead
         /\ y(c).settlements = job[j].settlements /\ y(c).challenge = job[j].challenge
         /\ y(c).entry = "none"
    BY <1>2, <1>3, <1>4
  <1>11. QED
    BY <1>1, <1>7, <1>8, <1>9, <1>10, HolderMoves

LEMMA AddJobKeeps ==
    ASSUME BackendInv, NEW i \in Import, AddJob(i)
    PROVE  BackendInv'
  <1> DEFINE j == import[i].job
             y == [job[j] EXCEPT !.entry = "queued"]
             z == [job[j] EXCEPT !.entry = "queued", !.unsure = TRUE]
             x(a) == [import[i] EXCEPT !.at = a]
  <1>1. /\ j \in Job /\ job[j] \in JobState /\ import[i] \in ImportState
        /\ import[i].at = "adding" /\ job \in [Job -> JobState]
        /\ mishaps' = mishaps \/ mishap
        /\ UNCHANGED <<backend, claim, settler, host, controls>>
    BY BackendFacts, BackendTypes DEF AddJob
  <1>2. job[j].entry = "none"
    BY <1>1 DEF BackendInv, DrawnOnce
  <1>3. \A a \in {"consuming", "withdrawing"} :
            x(a) \in ImportState /\ x(a).at = a /\ x(a).job = j
    BY <1>1 DEF ImportState
  <1>4. /\ y \in JobState /\ y.drawn = job[j].drawn /\ y.dead = job[j].dead
        /\ y.settlements = job[j].settlements /\ y.challenge = job[j].challenge
    BY <1>1 DEF JobState
  <1>5. /\ z \in JobState /\ z.drawn = job[j].drawn /\ z.dead = job[j].dead
        /\ z.settlements = job[j].settlements /\ z.challenge = job[j].challenge
        /\ z.unsure
    BY <1>1 DEF JobState
  <1>6. \/ /\ import' = [import EXCEPT ![i] = x("consuming")]
           /\ job' = [job EXCEPT ![j] = y]
        \/ /\ import' = [import EXCEPT ![i] = x("withdrawing")]
           /\ \/ job' = job
              \/ job' = [job EXCEPT ![j] = z]
    <2>1. [[job EXCEPT ![j].entry = "queued"] EXCEPT ![j].unsure = TRUE]
             = [job EXCEPT ![j] = z]
      BY <1>1
    <2>2. QED BY <2>1 DEF AddJob, moves
  <1>7. job = [job EXCEPT ![j] = job[j]]
    BY <1>1
  <1>8. j = import[i].job
    OBVIOUS
  <1> HIDE DEF j, x, y, z
  <1>9. CASE /\ import' = [import EXCEPT ![i] = x("consuming")]
             /\ job' = [job EXCEPT ![j] = y]
    BY <1>1, <1>3, <1>4, <1>8, <1>9, HolderMoves
  <1>10. CASE import' = [import EXCEPT ![i] = x("withdrawing")] /\ job' = job
    BY <1>1, <1>2, <1>3, <1>7, <1>8, <1>10, HolderMoves
  <1>11. CASE /\ import' = [import EXCEPT ![i] = x("withdrawing")]
              /\ job' = [job EXCEPT ![j] = z]
    BY <1>1, <1>3, <1>5, <1>8, <1>11, HolderMoves
  <1>12. QED
    BY <1>6, <1>9, <1>10, <1>11

LEMMA ClaimExpiresKeeps ==
    ASSUME BackendInv, ClaimExpires
    PROVE  BackendInv'
  <1>1. /\ UNCHANGED <<backend, job, import, settler, host, controls, mishaps>>
        /\ claim' = None /\ claim \in Job /\ job[claim].dead
    BY BackendFacts, BackendTypes DEF ClaimExpires
  <1>2. BackendTypeOK'
    BY <1>1, BackendFacts, BackendTypes, BackendTypesKept
  <1>3. Named'
    BY <1>1 DEF BackendInv, Named
  <1>4. DrawnOnce'
    BY <1>1 DEF BackendInv, DrawnOnce, claims
  <1>5. \A j \in Job : ~liveJob(j)
    BY <1>1 DEF BackendInv, ClaimIsOurs, liveJob
  <1>6. \A i \in Import : ~holds(i)
    BY DEF ClaimExpires, BackendInv, ClaimIsOurs, holds
  <1>7. ClaimIsOurs'
    BY <1>1, <1>5, <1>6 DEF ClaimIsOurs, liveJob, holds
  <1>8. SettledStays'
    BY <1>1, BackendFacts
  <1>9. QED BY <1>2, <1>3, <1>4, <1>7, <1>8 DEF BackendInv

----------------------------------------------------------------------------
(* Settlements, hosts and time                                             *)

\* The steps of settlements, hosts and time, part by part.
SettlerMoves ==
    settler' = settler \/ \E s \in Settler, x \in SettlerState :
        /\ settler' = [settler EXCEPT ![s] = x]
        /\ x.at \notin {"idle", "ended"} => x.job \in Job
HostMoves ==
    host' = host \/ \E h \in Host, x \in HostState :
        /\ host' = [host EXCEPT ![h] = x]
        /\ x.at # "idle" => x.job \in Job
JobsKept ==
    job' \in [Job -> JobState] /\ SettledStays' /\ \A j \in Job : SameClaims(j)

\* Imports and the claim are left alone.
LEMMA OthersMove ==
    ASSUME BackendInv, UNCHANGED <<backend, claim, import>>,
           JobsKept, SettlerMoves, HostMoves,
           controls' \subseteq Control, mishaps' = mishaps \/ mishap
    PROVE  BackendInv'
  <1>1. /\ settler' \in [Settler -> SettlerState]
        /\ \A s \in Settler : settler'[s].at \notin {"idle", "ended"} => settler'[s].job \in Job
    <2>1. /\ settler \in [Settler -> SettlerState]
          /\ \A s \in Settler : settler[s].at \notin {"idle", "ended"} => settler[s].job \in Job
      BY BackendFacts, BackendTypes
    <2>2. CASE settler' = settler
      BY <2>1, <2>2
    <2>3. ASSUME NEW s \in Settler, NEW x \in SettlerState,
                 settler' = [settler EXCEPT ![s] = x],
                 x.at \notin {"idle", "ended"} => x.job \in Job
          PROVE  <1>1!:
      <3>1. \A q \in Settler : settler'[q] = IF q = s THEN x ELSE settler[q]
        BY <2>1, <2>3
      <3>2. QED BY <2>1, <2>3, <3>1
    <2>4. QED BY <2>2, <2>3 DEF SettlerMoves
  <1>2. /\ host' \in [Host -> HostState]
        /\ \A h \in Host : host'[h].at # "idle" => host'[h].job \in Job
    <2>1. /\ host \in [Host -> HostState]
          /\ \A h \in Host : host[h].at # "idle" => host[h].job \in Job
      BY BackendFacts, BackendTypes
    <2>2. CASE host' = host
      BY <2>1, <2>2
    <2>3. ASSUME NEW h \in Host, NEW x \in HostState,
                 host' = [host EXCEPT ![h] = x], x.at # "idle" => x.job \in Job
          PROVE  <1>2!:
      <3>1. \A q \in Host : host'[q] = IF q = h THEN x ELSE host[q]
        BY <2>1, <2>3
      <3>2. QED BY <2>1, <2>3, <3>1
    <2>4. QED BY <2>2, <2>3 DEF HostMoves
  <1>3. import' \in [Import -> ImportState] /\ mishaps' \in Nat
    BY BackendFacts, BackendTypes
  <1>4. \A i \in Import : import'[i] = import[i]
    OBVIOUS
  <1>5. QED BY <1>1, <1>2, <1>3, <1>4, QuietStep DEF JobsKept

LEMMA Unmoved ==
    /\ settler' = settler => SettlerMoves
    /\ host' = host => HostMoves
  BY DEF SettlerMoves, HostMoves

\* A settlement ends without having done anything more.
LEMMA SettlerEnds ==
    ASSUME BackendInv, NEW s \in Settler, NEW o \in {None, "refused", "accepted", "error"},
           settled(s, o)
    PROVE  SettlerMoves
  <1> DEFINE x == [NewSettler EXCEPT !.at = "ended", !.outcome = o]
  <1>1. x \in SettlerState /\ x.at = "ended"
    BY DEF NewSettler, SettlerState
  <1>2. settler' = [settler EXCEPT ![s] = x]
    BY DEF settled
  <1> HIDE DEF x
  <1>3. QED BY <1>1, <1>2 DEF SettlerMoves

\* A settlement goes on with the job it has read.
LEMMA SettlerGoesOn ==
    ASSUME BackendInv, NEW s \in Settler, settler[s].at \notin {"idle", "ended"},
           NEW a \in {"checked", "keying", "publishing"}, settles(s, a)
    PROVE  SettlerMoves
  <1> DEFINE x == [settler[s] EXCEPT !.at = a]
  <1>1. settler[s] \in SettlerState /\ settler[s].job \in Job
    BY BackendFacts, BackendTypes
  <1>2. x \in SettlerState /\ x.job \in Job
    BY <1>1 DEF SettlerState
  <1>3. settler' = [settler EXCEPT ![s] = x]
    BY DEF settles
  <1> HIDE DEF x
  <1>4. QED BY <1>2, <1>3 DEF SettlerMoves

LEMMA ReadChallengeKeeps ==
    ASSUME BackendInv, NEW s \in Settler, NEW kind \in {"answer", "cancel"}, NEW j \in Job,
           ReadChallenge(s, kind, j)
    PROVE  BackendInv'
  <1>1. /\ UNCHANGED <<backend, claim, job, import, host, controls>>
        /\ mishaps' = mishaps \/ mishap
        /\ controls' \subseteq Control /\ job' \in [Job -> JobState]
    BY BackendFacts, BackendTypes DEF ReadChallenge
  <1>2. SettlerMoves
    <2> DEFINE x == [at |-> "checked", kind |-> kind, job |-> j, outcome |-> None]
    <2>1. x \in SettlerState /\ x.job \in Job
      BY DEF SettlerState
    <2>2. \/ settler' = [settler EXCEPT ![s] = x]
          \/ \E o \in {"refused", "error"} : settled(s, o)
      BY DEF ReadChallenge
    <2> HIDE DEF x
    <2>3. QED BY <2>1, <2>2, SettlerEnds DEF SettlerMoves
  <1>3. JobsKept
    BY <1>1, BackendFacts DEF JobsKept
  <1>4. QED BY <1>1, <1>2, <1>3, Unmoved, OthersMove

\* The script compares: only a challenge that pends is settled.
LEMMA SettleKeeps ==
    ASSUME BackendInv, NEW s \in Settler, Settle(s)
    PROVE  BackendInv'
  <1> DEFINE j == settler[s].job
             d == Decision[settler[s].kind]
             n == job[j].settlements + 1
             x == [job[j] EXCEPT !.challenge = d, !.settlements = n]
  <1>1. /\ settler[s] \in SettlerState /\ settler[s].at = "checked" /\ j \in Job
        /\ job \in [Job -> JobState] /\ job[j] \in JobState
        /\ UNCHANGED <<backend, claim, import, host, controls>>
        /\ controls' \subseteq Control
        /\ mishaps' = mishaps \/ mishap
    BY BackendFacts, BackendTypes DEF Settle
  <1>2. d \in {"answered", "cancelled"}
    BY <1>1 DEF Decision, SettlerState
  <1>3. n \in Nat
    BY <1>1 DEF JobState
  <1>4. x \in JobState /\ x.drawn = job[j].drawn /\ x.unsure = job[j].unsure
        /\ x.entry = job[j].entry /\ x.dead = job[j].dead
        /\ x.settlements = n /\ x.challenge = d
    BY <1>1, <1>2, <1>3 DEF JobState
  <1>5. \/ job' = job
        \/ job[j].challenge = "pending" /\ job' = [job EXCEPT ![j] = x]
    BY DEF Settle
  <1>6. SettlerMoves
    <2>1. \/ \E a \in {"keying", "publishing"} : settles(s, a)
          \/ \E o \in {"refused", "error"} : settled(s, o)
      BY DEF Settle
    <2>2. QED BY <1>1, <2>1, SettlerEnds, SettlerGoesOn
  <1> HIDE DEF j, d, n, x
  <1>7. JobsKept
    <2>1. CASE job' = job
      BY <1>1, <2>1, BackendFacts DEF JobsKept
    <2>2. CASE job[j].challenge = "pending" /\ job' = [job EXCEPT ![j] = x]
      <3>1. \A k \in Job : job'[k] = IF k = j THEN x ELSE job[k]
        BY <1>1, <2>2
      <3>2. job[j].settlements = 0
        BY <1>1, <2>2 DEF BackendInv, SettledStays
      <3>3. n = 1
        BY <3>2 DEF n
      <3>4. SettledStays'
        BY <1>2, <1>4, <3>1, <3>3 DEF BackendInv, SettledStays
      <3>5. \A k \in Job : SameClaims(k)
        BY <1>4, <3>1 DEF SameClaims
      <3>6. QED BY <1>1, <1>4, <2>2, <3>4, <3>5 DEF JobsKept
    <2>3. QED BY <1>5, <2>1, <2>2
  <1>8. QED BY <1>1, <1>6, <1>7, Unmoved, OthersMove

LEMMA SetCancelKeyKeeps ==
    ASSUME BackendInv, NEW s \in Settler, SetCancelKey(s)
    PROVE  BackendInv'
  <1> DEFINE j == settler[s].job
             x == [job[j] EXCEPT !.cancelKey = TRUE]
  <1>1. /\ settler[s].at = "keying" /\ j \in Job /\ job[j] \in JobState
        /\ UNCHANGED <<backend, claim, import, host, controls>>
        /\ controls' \subseteq Control
        /\ mishaps' = mishaps \/ mishap
    BY BackendFacts, BackendTypes DEF SetCancelKey
  <1>2. /\ x \in JobState /\ x.drawn = job[j].drawn /\ x.unsure = job[j].unsure
        /\ x.entry = job[j].entry /\ x.dead = job[j].dead
        /\ x.settlements = job[j].settlements /\ x.challenge = job[j].challenge
    BY <1>1 DEF JobState
  <1>3. job' = job \/ job' = [job EXCEPT ![j] = x]
    BY DEF SetCancelKey
  <1>4. settles(s, "publishing") \/ settled(s, "error")
    BY DEF SetCancelKey
  <1> HIDE DEF j, x
  <1>5. JobsKept
    BY <1>1, <1>2, <1>3, FlagChanges DEF JobsKept
  <1>6. SettlerMoves
    BY <1>1, <1>4, SettlerEnds, SettlerGoesOn
  <1>7. QED BY <1>1, <1>5, <1>6, Unmoved, OthersMove

LEMMA PublishControlKeeps ==
    ASSUME BackendInv, NEW s \in Settler, PublishControl(s)
    PROVE  BackendInv'
  <1> DEFINE c == [kind |-> settler[s].kind, job |-> settler[s].job]
  <1>1. /\ settler[s] \in SettlerState /\ settler[s].job \in Job
        /\ UNCHANGED <<backend, claim, job, import, host>> /\ job' \in [Job -> JobState]
        /\ mishaps' = mishaps \/ mishap
        /\ controls' = controls \/ controls' = controls \cup {c}
        /\ controls \subseteq Control
        /\ \E o \in {"accepted", "error"} : settled(s, o)
    BY BackendFacts, BackendTypes DEF PublishControl
  <1>2. c \in Control
    BY <1>1 DEF Control, SettlerState
  <1> HIDE DEF c
  <1>3. controls' \subseteq Control
    BY <1>1, <1>2
  <1>4. SettlerMoves
    BY <1>1, SettlerEnds
  <1>5. JobsKept
    BY <1>1, BackendFacts DEF JobsKept
  <1>6. QED BY <1>1, <1>3, <1>4, <1>5, Unmoved, OthersMove

\* A host goes on with its job, or is free.
LEMMA HostGoesOn ==
    ASSUME BackendInv, NEW h \in Host,
           \/ host' = host
           \/ host' = [host EXCEPT ![h] = FreeHost]
           \/ /\ host[h].job \in Job
              /\ \E a \in {"working", "asking", "failing", "stopping"} : runs(h, a)
    PROVE  HostMoves
  <1>1. host[h] \in HostState
    BY BackendFacts, BackendTypes
  <1>2. CASE host' = [host EXCEPT ![h] = FreeHost]
    <2>1. FreeHost \in HostState /\ FreeHost.at = "idle"
      BY DEF FreeHost, HostState
    <2>2. QED BY <1>2, <2>1 DEF HostMoves
  <1>3. ASSUME NEW a \in {"working", "asking", "failing", "stopping"}, runs(h, a),
               host[h].job \in Job
        PROVE  \E q \in Host, x \in HostState :
                   /\ host' = [host EXCEPT ![q] = x]
                   /\ x.at # "idle" => x.job \in Job
    <2> DEFINE x == [host[h] EXCEPT !.at = a]
    <2>1. x \in HostState /\ x.job \in Job
      BY <1>1, <1>3 DEF HostState
    <2>2. host' = [host EXCEPT ![h] = x]
      BY <1>3 DEF runs
    <2> HIDE DEF x
    <2>3. QED BY <2>1, <2>2
  <1>4. QED BY <1>2, <1>3 DEF HostMoves

LEMMA TakeJobKeeps ==
    ASSUME BackendInv, NEW h \in Host, NEW j \in Job, TakeJob(h, j)
    PROVE  BackendInv'
  <1> DEFINE x == [job[j] EXCEPT !.entry = "taken"]
             y == [at |-> "working", job |-> j]
  <1>1. /\ job[j] \in JobState /\ job[j].entry = "queued"
        /\ UNCHANGED <<backend, claim, import, settler, controls, mishaps>>
        /\ controls' \subseteq Control
    BY BackendFacts, BackendTypes DEF TakeJob
  <1>2. /\ x \in JobState /\ x.drawn = job[j].drawn /\ x.unsure = job[j].unsure
        /\ x.entry = "taken" /\ x.dead = job[j].dead
        /\ x.settlements = job[j].settlements /\ x.challenge = job[j].challenge
    BY <1>1 DEF JobState
  <1>3. job' = [job EXCEPT ![j] = x] /\ (host' = host \/ host' = [host EXCEPT ![h] = y])
    BY DEF TakeJob
  <1>4. y \in HostState /\ y.job \in Job
    BY DEF HostState
  <1> HIDE DEF x, y
  <1>5. JobsKept
    BY <1>1, <1>2, <1>3, FlagChanges DEF JobsKept
  <1>6. HostMoves
    BY <1>3, <1>4 DEF HostMoves
  <1>7. QED BY <1>1, <1>5, <1>6, Unmoved, OthersMove

\* The host appends an event of its job.
LEMMA EventAdded ==
    ASSUME BackendInv, NEW j \in Job, NEW e \in Ending \cup {"challenge"},
           job' = job \/ job' = [job EXCEPT ![j].events = @ \cup {e}]
    PROVE  JobsKept
  <1> DEFINE x == [job[j] EXCEPT !.events = @ \cup {e}]
  <1>1. job[j] \in JobState
    BY BackendFacts, BackendTypes
  <1>2. /\ x \in JobState /\ x.drawn = job[j].drawn /\ x.unsure = job[j].unsure
        /\ x.entry = job[j].entry /\ x.dead = job[j].dead
        /\ x.settlements = job[j].settlements /\ x.challenge = job[j].challenge
    BY <1>1 DEF JobState
  <1>3. job' = job \/ job' = [job EXCEPT ![j] = x]
    OBVIOUS
  <1> HIDE DEF x
  <1>4. QED BY <1>2, <1>3, FlagChanges DEF JobsKept

LEMMA RaiseChallengeKeeps ==
    ASSUME BackendInv, NEW h \in Host, RaiseChallenge(h)
    PROVE  BackendInv'
  <1>1. /\ host[h].job \in Job
        /\ UNCHANGED <<backend, claim, import, settler, controls>>
        /\ controls' \subseteq Control
        /\ mishaps' = mishaps \/ mishap
        /\ \E a \in {"asking", "failing"} : runs(h, a)
        /\ \/ job' = job
           \/ job' = [job EXCEPT ![host[h].job].events = @ \cup {"challenge"}]
    BY BackendFacts, BackendTypes DEF RaiseChallenge
  <1>2. JobsKept
    BY <1>1, EventAdded
  <1>3. HostMoves
    BY <1>1, HostGoesOn
  <1>4. QED BY <1>1, <1>2, <1>3, Unmoved, OthersMove

LEMMA FinishJobKeeps ==
    ASSUME BackendInv, NEW h \in Host, FinishJob(h)
    PROVE  BackendInv'
  <1>1. /\ host[h].job \in Job
        /\ UNCHANGED <<backend, claim, import, settler, controls, mishaps>>
        /\ controls' \subseteq Control
        /\ host' = [host EXCEPT ![h] = FreeHost]
    BY BackendFacts, BackendTypes DEF FinishJob
  <1>2. \E e \in Ending : job' = [job EXCEPT ![host[h].job].events = @ \cup {e}]
    BY DEF FinishJob, Ending
  <1>3. JobsKept
    BY <1>1, <1>2, EventAdded
  <1>4. HostMoves
    BY <1>1, HostGoesOn
  <1>5. QED BY <1>1, <1>3, <1>4, Unmoved, OthersMove

LEMMA GiveUpKeeps ==
    ASSUME BackendInv, NEW h \in Host, GiveUp(h)
    PROVE  BackendInv'
  <1>1. /\ UNCHANGED <<backend, claim, job, import, settler, controls, mishaps>>
        /\ controls' \subseteq Control /\ job' \in [Job -> JobState]
        /\ host' = [host EXCEPT ![h] = FreeHost]
    BY BackendFacts, BackendTypes DEF GiveUp
  <1>2. JobsKept
    BY <1>1, BackendFacts DEF JobsKept
  <1>3. HostMoves
    BY <1>1, HostGoesOn
  <1>4. QED BY <1>1, <1>2, <1>3, Unmoved, OthersMove

LEMMA HandleControlKeeps ==
    ASSUME BackendInv, NEW h \in Host, NEW c \in Control, HandleControl(h, c)
    PROVE  BackendInv'
  <1>1. /\ UNCHANGED <<backend, claim, job, import, settler, mishaps>>
        /\ controls' \subseteq Control /\ job' \in [Job -> JobState]
    BY BackendFacts, BackendTypes DEF HandleControl
  <1>2. \/ host' = host
        \/ /\ host[h].job \in Job
           /\ \E a \in {"working", "stopping"} : runs(h, a)
    BY DEF HandleControl, Control
  <1>3. JobsKept
    BY <1>1, BackendFacts DEF JobsKept
  <1>4. HostMoves
    BY <1>2, HostGoesOn
  <1>5. QED BY <1>1, <1>3, <1>4, Unmoved, OthersMove

\* A challenge that pends ends with its job; one that was settled stays so.
LEMMA DeadlineKeeps ==
    ASSUME BackendInv, NEW j \in Job, Deadline(j)
    PROVE  BackendInv'
  <1> DEFINE x == [job[j] EXCEPT !.dead = TRUE,
                                 !.challenge = IF @ = "pending" THEN "none" ELSE @]
  <1>1. /\ job[j] \in JobState
        /\ UNCHANGED <<backend, claim, import, settler, host, controls, mishaps>>
        /\ controls' \subseteq Control
    BY BackendFacts, BackendTypes DEF Deadline
  <1>2. /\ x \in JobState /\ x.drawn = job[j].drawn /\ x.unsure = job[j].unsure
        /\ x.entry = job[j].entry /\ x.dead
        /\ x.settlements = job[j].settlements
        /\ job[j].challenge \in {"answered", "cancelled"} => x.challenge = job[j].challenge
    BY <1>1 DEF JobState
  <1>3. job' = [job EXCEPT ![j] = x]
    BY DEF Deadline
  <1> HIDE DEF x
  <1>4. JobsKept
    BY <1>1, <1>2, <1>3, FlagChanges DEF JobsKept
  <1>5. QED BY <1>1, <1>4, Unmoved, OthersMove

----------------------------------------------------------------------------

LEMMA BackendStarts ==
    ASSUME BackendInit,
           backend \in Backend
    PROVE  BackendInv
  <1>1. NewJob \in JobState
    BY DEF NewJob, JobState
  <1>2. \A i \in Import : import[i] \in ImportState /\ import[i].at \in {"arrived", "ended"}
    BY DEF BackendInit, NewImport, ImportState
  <1>3. NewSettler \in SettlerState
    BY DEF NewSettler, SettlerState
  <1>3a. FreeHost \in HostState
    BY DEF FreeHost, HostState
  <1>3b. mishaps \in Nat
    BY DEF BackendInit, Backend
  <1>4. /\ claim = None /\ controls = {} /\ mishaps \in Nat
        /\ \A j \in Job : job[j] = NewJob
        /\ \A s \in Settler : settler[s] = NewSettler
        /\ \A h \in Host : host[h] = FreeHost
    BY <1>3b DEF BackendInit
  <1>5. /\ job \in [Job -> JobState] /\ settler \in [Settler -> SettlerState]
        /\ host \in [Host -> HostState]
    BY <1>1, <1>3, <1>3a DEF BackendInit
  <1>6. import \in [Import -> ImportState]
    BY <1>2 DEF BackendInit
  <1>7. BackendTypeOK
    BY <1>4, <1>5, <1>6 DEF BackendTypeOK, JobState, ImportState, SettlerState, HostState
  <1>8. Named
    BY <1>2, <1>4 DEF Named, NewSettler, FreeHost
  <1>9. DrawnOnce
    BY <1>2, <1>4 DEF DrawnOnce, claims, NewJob
  <1>10. ClaimIsOurs
    BY <1>2, <1>4 DEF ClaimIsOurs, holds, liveJob, NewJob
  <1>11. SettledStays
    BY <1>4 DEF SettledStays, NewJob
  <1>12. QED BY <1>7, <1>8, <1>9, <1>10, <1>11 DEF BackendInv

LEMMA BackendStep ==
    ASSUME BackendInv, BackendNext
    PROVE  BackendInv'
  <1>1. ASSUME NEW i \in Import, ImportStep(i)
        PROVE  BackendInv'
    BY <1>1, LookUpClaimKeeps, JoinJobKeeps, ClaimLoginKeeps, StoreJobKeeps, AddJobKeeps,
       WithdrawClaimKeeps, HearChallengeKeeps, HearEndingKeeps, StopListeningKeeps
       DEF ImportStep
  <1>2. ASSUME NEW s \in Settler, SettlerStep(s)
        PROVE  BackendInv'
    BY <1>2, SettleKeeps, SetCancelKeyKeeps, PublishControlKeeps DEF SettlerStep
  <1>3. ASSUME NEW h \in Host, HostStep(h)
        PROVE  BackendInv'
    BY <1>3, TakeJobKeeps, RaiseChallengeKeeps, FinishJobKeeps, GiveUpKeeps DEF HostStep
  <1>4. BackendProgress => BackendInv'
    BY <1>1, <1>2, <1>3, DeadlineKeeps, ClaimExpiresKeeps DEF BackendProgress
  <1>5. QED
    BY <1>4, LeaveKeeps, ImportDiesKeeps, ReadChallengeKeeps, HandleControlKeeps
       DEF BackendNext

LEMMA BackendStutters ==
    ASSUME BackendInv, UNCHANGED backendVars
    PROVE  BackendInv'
  BY DEF BackendInv, backendVars, BackendTypeOK, Named, DrawnOnce, ClaimIsOurs, SettledStays,
         claims, holds, liveJob

\* All live jobs are the one the claim names.
LEMMA OneLives ==
    ASSUME BackendInv
    PROVE  CountedOnce
  <1>1. SettledOnce
    BY DEF BackendInv, SettledStays, SettledOnce
  <1> DEFINE L == {j \in Job : job[j].entry # "none" /\ ~job[j].dead /\ ~job[j].unsure}
  <1>2. L \subseteq {claim}
    BY DEF BackendInv, ClaimIsOurs, liveJob
  <1> HIDE DEF L
  <1>3. IsFiniteSet({claim}) /\ Cardinality({claim}) = 1
    BY FS_Singleton
  <1>4. Cardinality(L) \in Nat /\ Cardinality(L) <= 1
    BY <1>2, <1>3, FS_Subset, FS_CardinalityType
  <1>5. OneJobPerLogin
    BY <1>4 DEF OneJobPerLogin, L
  <1>6. QED BY <1>1, <1>5 DEF CountedOnce

----------------------------------------------------------------------------
(* The admin's sign-in (AdminSignIn)                                       *)

Attempts == SUBSET [day: Nat, nth: Nat]
WindowState == [count: Nat, until: Nat]
SessionState == [by: {"none", "password"} \cup Provider, until: Nat]
CookieState == [session: {0} \cup Session, state: {0} \cup State, provider: Provider, until: Nat]
PageState ==
    [at: {"idle", "global", "address", "verifying", "away", "exchanging", "answered"},
     shown: {0} \cup Session, actor: {0} \cup Session, state: {0} \cup State,
     provider: Provider, sets: {"nothing", "session", "noSession", "noState", "sessionNoState"},
     shows: {0} \cup Session]

\* The attempts of G from day a to day b.
Within(G, a, b) == {g \in G : a <= g.day /\ g.day <= b}

\* At most n of them.
Few(G, a, b, n) == IsFiniteSet(Within(G, a, b)) /\ Cardinality(Within(G, a, b)) <= n

\* A bucket with attempts G, at day d: a window that ends at u has counted c
\* of at most L.  What it let through after its first attempt is less than c,
\* and what came in the length of a window before it began is less than L.
WindowOK(G, c, u, L, d) ==
    /\ G \in Attempts /\ IsFiniteSet(G)
    /\ \A g \in G : g.day <= d /\ g.day < u
    /\ c \in Nat /\ u \in Nat /\ c <= L
    /\ c = 0 => u = 0 /\ G = {}
    /\ u - Window <= d
    /\ Few(G, u - Window, u - 1, c)
    /\ c > 0 => Few(G, u - Window + 1, u - 1, c - 1)
    /\ Few(G, u - 2 * Window + 1, u - Window - 1, L - 1)
    /\ \A a \in Int : Few(G, a, a + Window - 1, 2 * L - 1)

LEMMA AdminNumbers ==
    /\ Window \in Nat /\ Window >= 1
    /\ SessionLife \in Nat /\ StateLife \in Nat
    /\ AddressLimit \in Nat /\ AddressLimit >= 1
    /\ GlobalLimit \in Nat /\ GlobalLimit >= 1
    /\ MaxSession \in Nat
    /\ \A k \in Bucket : limitOf(k) \in Nat /\ limitOf(k) >= 1
  BY AdminAssumption DEF limitOf

\* Fewer days hold fewer attempts.
LEMMA FewerDays ==
    ASSUME NEW G \in Attempts, NEW a \in Int, NEW b \in Int, NEW n \in Int,
           NEW e \in Int, NEW f \in Int, NEW m \in Int,
           Few(G, a, b, n), n <= m, Within(G, e, f) \subseteq Within(G, a, b)
    PROVE  Few(G, e, f, m)
  <1> DEFINE S == Within(G, a, b)
             T == Within(G, e, f)
  <1>1. IsFiniteSet(S) /\ Cardinality(S) <= n /\ T \in SUBSET S
    BY DEF Few
  <1> HIDE DEF S, T
  <1>2. IsFiniteSet(T) /\ Cardinality(T) <= Cardinality(S)
    BY <1>1, FS_Subset
  <1>3. Cardinality(S) \in Nat /\ Cardinality(T) \in Nat
    BY <1>1, <1>2, FS_CardinalityType
  <1>4. Cardinality(T) <= m
    BY <1>1, <1>2, <1>3
  <1>5. QED BY <1>2, <1>4 DEF T, Few

LEMMA LargerBound ==
    ASSUME NEW G \in Attempts, NEW a, NEW b, NEW n \in Int, NEW m \in Int,
           Few(G, a, b, n), n <= m
    PROVE  Few(G, a, b, m)
  <1>1. Cardinality(Within(G, a, b)) \in Nat
    BY FS_CardinalityType DEF Few
  <1>2. QED BY <1>1 DEF Few

\* One attempt more.
LEMMA OneMore ==
    ASSUME NEW G \in Attempts, NEW g \in [day: Nat, nth: Nat],
           NEW a \in Int, NEW b \in Int, NEW n \in Int, Few(G, a, b, n)
    PROVE  Few(G \cup {g}, a, b, n + 1)
  <1> DEFINE S == Within(G, a, b)
             T == Within(G \cup {g}, a, b)
  <1>1. IsFiniteSet(S) /\ Cardinality(S) <= n
    BY DEF Few
  <1>2. T = S \/ T = S \cup {g}
    BY DEF Within
  <1> HIDE DEF S, T
  <1>3. Cardinality(S) \in Nat
    BY <1>1, FS_CardinalityType
  <1>4. IsFiniteSet(T) /\ Cardinality(T) <= Cardinality(S) + 1
    BY <1>1, <1>2, <1>3, FS_AddElement
  <1>5. Cardinality(T) \in Nat
    BY <1>4, FS_CardinalityType
  <1>6. Cardinality(T) <= n + 1
    BY <1>1, <1>3, <1>4, <1>5
  <1>7. QED BY <1>4, <1>6 DEF T, Few

\* Attempts of two spans of days.
LEMMA TwoSpans ==
    ASSUME NEW G \in Attempts, NEW a \in Int, NEW b \in Int, NEW n \in Int,
           NEW e \in Int, NEW f \in Int, NEW m \in Int, NEW x \in Int, NEW y \in Int,
           NEW k \in Int, n + m <= k,
           Few(G, a, b, n), Few(G, e, f, m),
           Within(G, x, y) \subseteq Within(G, a, b) \cup Within(G, e, f)
    PROVE  Few(G, x, y, k)
  <1> DEFINE S == Within(G, a, b)
             T == Within(G, e, f)
             R == Within(G, x, y)
  <1>1. /\ IsFiniteSet(S) /\ Cardinality(S) <= n
        /\ IsFiniteSet(T) /\ Cardinality(T) <= m
        /\ R \in SUBSET (S \cup T)
    BY DEF Few
  <1> HIDE DEF S, T, R
  <1>2. Cardinality(S) \in Nat /\ Cardinality(T) \in Nat
    BY <1>1, FS_CardinalityType
  <1>3. IsFiniteSet(S \cap T)
    <2>1. S \cap T \in SUBSET S
      OBVIOUS
    <2>2. QED BY <1>1, <2>1, FS_Subset
  <1>4. Cardinality(S \cap T) \in Nat
    BY <1>3, FS_CardinalityType
  <1>5. /\ IsFiniteSet(S \cup T)
        /\ Cardinality(S \cup T) = Cardinality(S) + Cardinality(T) - Cardinality(S \cap T)
    BY <1>1, FS_Union
  <1>6. IsFiniteSet(R) /\ Cardinality(R) <= Cardinality(S \cup T)
    BY <1>1, <1>5, FS_Subset
  <1>7. Cardinality(R) \in Nat
    BY <1>6, FS_CardinalityType
  <1>8. Cardinality(R) <= k
    BY <1>1, <1>2, <1>4, <1>5, <1>6, <1>7
  <1>9. QED BY <1>6, <1>8 DEF R, Few

\* No attempt at all.
LEMMA NoAttempts ==
    ASSUME NEW G, NEW a \in Int, NEW b \in Int, NEW n \in Nat, Within(G, a, b) = {}
    PROVE  Few(G, a, b, n)
  BY FS_EmptySet DEF Few

LEMMA AttemptsFinite ==
    ASSUME NEW G \in Attempts, IsFiniteSet(G), NEW g \in [day: Nat, nth: Nat]
    PROVE  /\ IsFiniteSet(G \cup {g}) /\ G \cup {g} \in Attempts
           /\ Cardinality(G) + 1 \in Nat
  <1>1. IsFiniteSet(G \cup {g})
    BY FS_AddElement
  <1>2. Cardinality(G) \in Nat
    BY FS_CardinalityType
  <1>3. G \cup {g} \in Attempts
    BY DEF Attempts
  <1>4. QED BY <1>1, <1>2, <1>3

\* An attempt within the window counts.
LEMMA WindowGoesOn ==
    ASSUME NEW G, NEW c, NEW u, NEW L \in Nat, NEW d \in Nat, L >= 1,
           WindowOK(G, c, u, L, d), d < u, c < L,
           NEW g \in [day: Nat, nth: Nat], g.day = d
    PROVE  WindowOK(G \cup {g}, c + 1, u, L, d)
  <1> DEFINE H == G \cup {g}
             W == Window
  <1>1. /\ W \in Nat /\ W >= 1 /\ c \in Nat /\ u \in Nat /\ g.day \in Nat
        /\ u - W <= d /\ c > 0 /\ G \in Attempts /\ IsFiniteSet(G)
        /\ c + 1 \in Nat /\ c + 1 <= L /\ c + 1 > 0
    BY AdminNumbers DEF WindowOK
  <1>2. H \in Attempts /\ IsFiniteSet(H)
    BY <1>1, AttemptsFinite
  <1>3. \A h \in H : h.day <= d /\ h.day < u
    BY DEF WindowOK
  <1>4. \A h \in G : h.day \in Nat
    BY <1>1 DEF Attempts
  <1>5. Few(H, u - W, u - 1, c + 1)
    BY <1>1, OneMore DEF WindowOK
  <1>6. Few(H, u - W + 1, u - 1, c + 1 - 1)
    <2>1. Few(G, u - W + 1, u - 1, c - 1)
      BY <1>1 DEF WindowOK
    <2>5. u - W + 1 \in Int /\ u - 1 \in Int /\ c - 1 \in Int
      BY <1>1
    <2>2. Few(H, u - W + 1, u - 1, (c - 1) + 1)
      BY <1>1, <2>1, <2>5, OneMore
    <2>3. (c - 1) + 1 = c + 1 - 1
      BY <1>1
    <2>4. QED BY <2>2, <2>3
  <1>7. Few(H, u - 2 * W + 1, u - W - 1, L - 1)
    <2>1. Few(G, u - 2 * W + 1, u - W - 1, L - 1)
      BY DEF WindowOK
    <2>2. Within(H, u - 2 * W + 1, u - W - 1) = Within(G, u - 2 * W + 1, u - W - 1)
      BY <1>1 DEF Within
    <2>3. QED BY <2>1, <2>2 DEF Few
  <1>8. ASSUME NEW a \in Int
        PROVE  Few(H, a, a + W - 1, 2 * L - 1)
    <2>1. Few(G, a, a + W - 1, 2 * L - 1)
      BY <1>8 DEF WindowOK
    <2>2. CASE ~(a <= d /\ d <= a + W - 1)
      <3>1. Within(H, a, a + W - 1) = Within(G, a, a + W - 1)
        BY <2>2 DEF Within
      <3>2. QED BY <2>1, <3>1 DEF Few
    <2>3. CASE a <= d /\ d <= a + W - 1
      <3>1. Within(H, a, a + W - 1) \subseteq
                Within(H, u - 2 * W + 1, u - W - 1) \cup Within(H, u - W, u - 1)
        <4>1. ASSUME NEW h \in H, a <= h.day, h.day <= a + W - 1
              PROVE  \/ u - 2 * W + 1 <= h.day /\ h.day <= u - W - 1
                     \/ u - W <= h.day /\ h.day <= u - 1
          <5>1. h.day \in Nat /\ h.day < u
            BY <1>1, <1>3, <1>4
          <5> DEFINE x == h.day
          <5>2. a <= x /\ x \in Nat /\ x < u
            BY <4>1, <5>1
          <5> HIDE DEF x
          <5>3. \/ u - 2 * W + 1 <= x /\ x <= u - W - 1
                \/ u - W <= x /\ x <= u - 1
            BY <1>1, <1>8, <2>3, <5>2
          <5>4. QED BY <5>3 DEF x
        <4>2. QED BY <4>1 DEF Within
      <3>2. (L - 1) + (c + 1) <= 2 * L - 1
        BY <1>1
      <3> HIDE DEF H, W
      <3>3. QED
        BY <1>1, <1>2, <1>5, <1>7, <1>8, <3>1, <3>2, TwoSpans
    <2>4. QED BY <2>2, <2>3
  <1> HIDE DEF H, W
  <1>9. WindowOK(H, c + 1, u, L, d)
    BY <1>1, <1>2, <1>3, <1>5, <1>6, <1>7, <1>8 DEF WindowOK, W
  <1>10. QED BY <1>9 DEF H

\* A charge whose answer was lost lets nobody through.
LEMMA ChargeLost ==
    ASSUME NEW G, NEW c, NEW u, NEW L \in Nat, NEW d \in Nat,
           WindowOK(G, c, u, L, d), d < u, c < L
    PROVE  WindowOK(G, c + 1, u, L, d)
  <1> DEFINE W == Window
  <1>1. /\ W \in Nat /\ W >= 1 /\ c \in Nat /\ u \in Nat /\ c > 0 /\ G \in Attempts
        /\ c + 1 \in Nat /\ c + 1 <= L /\ c + 1 > 0
    BY AdminNumbers DEF WindowOK
  <1>2. Few(G, u - W, u - 1, c + 1)
    <2>1. Few(G, u - W, u - 1, c) /\ c \in Int /\ c + 1 \in Int /\ c <= c + 1
      BY <1>1 DEF WindowOK
    <2>2. QED BY <1>1, <2>1, LargerBound
  <1>3. Few(G, u - W + 1, u - 1, c + 1 - 1)
    <2>1. /\ Few(G, u - W + 1, u - 1, c - 1) /\ c - 1 \in Int /\ c + 1 - 1 \in Int
          /\ c - 1 <= c + 1 - 1
      BY <1>1 DEF WindowOK
    <2>2. QED BY <1>1, <2>1, LargerBound
  <1> HIDE DEF W
  <1>4. QED BY <1>1, <1>2, <1>3 DEF WindowOK, W

\* An attempt after the window's end begins the next one.
LEMMA WindowBegins ==
    ASSUME NEW G, NEW c, NEW u, NEW L \in Nat, NEW d \in Nat, L >= 1,
           WindowOK(G, c, u, L, d), u <= d,
           NEW H \in {G} \cup {G \cup {g} : g \in {x \in [day: Nat, nth: Nat] : x.day = d}}
    PROVE  WindowOK(H, 1, d + Window, L, d)
  <1> DEFINE W == Window
             v == d + W
  <1>1. /\ W \in Nat /\ W >= 1 /\ c \in Nat /\ u \in Nat /\ G \in Attempts /\ IsFiniteSet(G)
        /\ v \in Nat /\ v - W = d /\ v - W <= d /\ c <= L
    BY AdminNumbers DEF WindowOK
  <1>2. H \in Attempts /\ IsFiniteSet(H)
    BY <1>1, AttemptsFinite
  <1>3. \A h \in G : h.day \in Nat /\ h.day < u
    BY <1>1 DEF Attempts, WindowOK
  <1>4. \A h \in H : h \in G \/ h.day = d
    OBVIOUS
  <1>5. \A h \in H : h.day <= d /\ h.day < v
    BY <1>1, <1>3, <1>4
  <1>6. ASSUME NEW a \in Int, NEW b \in Int, NEW n \in Nat, Few(G, a, b, n)
        PROVE  Few(H, a, b, n + 1)
    <2>1. CASE H = G
      <3>1. n \in Int /\ n + 1 \in Int /\ n <= n + 1
        BY <1>6
      <3>2. QED BY <1>1, <1>6, <2>1, <3>1, LargerBound
    <2>2. CASE H # G
      <3>1. PICK g \in [day: Nat, nth: Nat] : H = G \cup {g}
        BY <2>2
      <3>2. QED BY <1>1, <1>6, <3>1, OneMore
    <2>3. QED BY <2>1, <2>2
  <1>7. Few(G, v - W, v - 1, 0)
    <2>1. Within(G, v - W, v - 1) = {}
      BY <1>1, <1>3 DEF Within
    <2>2. QED BY <1>1, <2>1, NoAttempts
  <1>8. Few(H, v - W, v - 1, 1)
    <2>1. v - W \in Int /\ v - 1 \in Int /\ 0 + 1 = 1
      BY <1>1
    <2> HIDE DEF v
    <2>2. QED BY <1>6, <1>7, <2>1
  <1>9. Few(H, v - W + 1, v - 1, 1 - 1)
    <2>1. Within(H, v - W + 1, v - 1) = {}
      BY <1>1, <1>3, <1>4 DEF Within
    <2>2. QED BY <1>1, <2>1, NoAttempts
  <1>10. Few(G, u - W + 1, u - 1, L - 1)
    <2>1. CASE c = 0
      <3>1. Within(G, u - W + 1, u - 1) = {}
        BY <2>1 DEF WindowOK, Within
      <3>2. QED BY <1>1, <3>1, NoAttempts
    <2>2. CASE c > 0
      <3>1. Few(G, u - W + 1, u - 1, c - 1)
        BY <2>2 DEF WindowOK
      <3>2. /\ u - W + 1 \in Int /\ u - 1 \in Int /\ c - 1 \in Int /\ L - 1 \in Int
            /\ c - 1 <= L - 1
        BY <1>1
      <3>3. QED BY <1>1, <3>1, <3>2, LargerBound
    <2>3. QED BY <1>1, <2>1, <2>2
  <1>11. ASSUME NEW a \in Int, NEW b \in Int, d - W + 1 <= a
         PROVE  Few(G, a, b, L - 1)
    <2>1. Within(G, a, b) \subseteq Within(G, u - W + 1, u - 1)
      <3>1. ASSUME NEW h \in G, a <= h.day, h.day <= b
            PROVE  u - W + 1 <= h.day /\ h.day <= u - 1
        <4> DEFINE x == h.day
        <4>1. a <= x /\ x \in Nat /\ x < u
          BY <1>3, <3>1
        <4> HIDE DEF x
        <4>2. u - W + 1 <= x /\ x <= u - 1
          BY <1>1, <1>11, <4>1
        <4>3. QED BY <4>2 DEF x
      <3>2. QED BY <3>1 DEF Within
    <2>2. /\ u - W + 1 \in Int /\ u - 1 \in Int /\ L - 1 \in Int /\ L - 1 <= L - 1
      BY <1>1
    <2> DEFINE x == u - W + 1
               y == u - 1
               n == L - 1
    <2>3. /\ x \in Int /\ y \in Int /\ n \in Int /\ n <= n
          /\ Few(G, x, y, n) /\ Within(G, a, b) \subseteq Within(G, x, y)
      BY <1>1, <1>10, <2>1, <2>2
    <2> HIDE DEF x, y, n
    <2>4. Few(G, a, b, n)
      BY <1>1, <1>11, <2>3, FewerDays
    <2>5. QED BY <2>4 DEF n
  <1>12. Few(H, v - 2 * W + 1, v - W - 1, L - 1)
    <2>1. Within(H, v - 2 * W + 1, v - W - 1) = Within(G, v - 2 * W + 1, v - W - 1)
      BY <1>1, <1>4 DEF Within
    <2>4. /\ v - 2 * W + 1 \in Int /\ v - W - 1 \in Int
          /\ d - W + 1 <= v - 2 * W + 1
      BY <1>1
    <2>2. Few(G, v - 2 * W + 1, v - W - 1, L - 1)
      BY <1>11, <2>4
    <2>3. QED BY <2>1, <2>2 DEF Few
  <1>13. ASSUME NEW a \in Int
         PROVE  Few(H, a, a + W - 1, 2 * L - 1)
    <2>1. CASE ~(a <= d /\ d <= a + W - 1)
      <3>1. Within(H, a, a + W - 1) = Within(G, a, a + W - 1)
        BY <1>4, <2>1 DEF Within
      <3>2. QED BY <1>13, <3>1 DEF WindowOK, Few
    <2>2. CASE a <= d /\ d <= a + W - 1
      <3>1. Few(G, a, a + W - 1, L - 1)
        BY <1>1, <1>11, <1>13, <2>2
      <3>2. Few(H, a, a + W - 1, (L - 1) + 1)
        BY <1>1, <1>6, <1>13, <3>1
      <3>3. /\ (L - 1) + 1 <= 2 * L - 1 /\ (L - 1) + 1 \in Int /\ 2 * L - 1 \in Int
            /\ a + W - 1 \in Int
        BY <1>1, <1>13
      <3>4. QED BY <1>2, <3>2, <3>3, LargerBound
    <2>3. QED BY <2>1, <2>2
  <1> HIDE DEF v, W
  <1>14. WindowOK(H, 1, v, L, d)
    BY <1>1, <1>2, <1>5, <1>8, <1>9, <1>12, <1>13 DEF WindowOK, W
  <1>15. QED BY <1>14 DEF v, W

WindowsOK ==
    \A k \in Bucket : WindowOK(passed[k], window[k].count, window[k].until, limitOf(k), today)

AdminInv == AdminTypeOK /\ WindowsOK /\ ActsAsShown

LEMMA AdminTypes ==
    ASSUME AdminTypeOK
    PROVE  /\ today \in Nat /\ losses \in Nat /\ states \in {0} \cup State
           /\ window \in [Bucket -> WindowState] /\ session \in [Session -> SessionState]
           /\ cookies \in [Browser -> CookieState] /\ page \in [Page -> PageState]
           /\ passed \in [Bucket -> Attempts]
           /\ \A p \in Page : BrowserOf[p] \in Browser
           /\ admin.time \in Nat /\ today <= admin.time
  <1>1. admin.time \in Nat
    BY DEF AdminTypeOK, AdminSetting
  <1>2. today \in Nat /\ today <= admin.time
    BY <1>1 DEF AdminTypeOK
  <1>3. QED BY <1>1, <1>2, AdminAssumption
        DEF AdminTypeOK, WindowState, SessionState, CookieState, PageState, Attempts

LEMMA AdminTypesKept ==
    ASSUME AdminTypeOK, admin' = admin, today' \in 0..admin.time, losses' \in Nat,
           states' \in {0} \cup State, window' \in [Bucket -> WindowState],
           session' \in [Session -> SessionState], cookies' \in [Browser -> CookieState],
           page' \in [Page -> PageState], passed' \in [Bucket -> Attempts]
    PROVE  AdminTypeOK'
  BY DEF AdminTypeOK, WindowState, SessionState, CookieState, PageState, Attempts,
         Bucket, Session, State, Provider

\* A tab goes on.
PageGoesOn ==
    \E p \in Page, x \in PageState :
        /\ page' = [page EXCEPT ![p] = x]
        /\ x.actor \in {0, x.shown}

LEMMA PageKept ==
    ASSUME AdminInv, PageGoesOn
    PROVE  page' \in [Page -> PageState] /\ ActsAsShown'
  <1>1. page \in [Page -> PageState] /\ ActsAsShown
    BY AdminTypes DEF AdminInv
  <1> PICK p \in Page, x \in PageState :
        /\ page' = [page EXCEPT ![p] = x]
        /\ x.actor \in {0, x.shown}
    BY DEF PageGoesOn
  <1>2. \A q \in Page : page'[q] = IF q = p THEN x ELSE page[q]
    BY <1>1
  <1>3. ActsAsShown'
    BY <1>1, <1>2 DEF ActsAsShown
  <1>4. page' \in [Page -> PageState]
    BY <1>1
  <1>5. QED BY <1>3, <1>4

LEMMA TurnsOn ==
    ASSUME AdminInv, NEW p \in Page,
           NEW a \in {"idle", "global", "address", "verifying", "away", "exchanging", "answered"},
           turns(p, a)
    PROVE  PageGoesOn
  <1> DEFINE x == [page[p] EXCEPT !.at = a]
  <1>1. page[p] \in PageState /\ page[p].actor \in {0, page[p].shown}
    BY AdminTypes DEF AdminInv, ActsAsShown
  <1>2. x \in PageState /\ x.actor = page[p].actor /\ x.shown = page[p].shown
    BY <1>1 DEF PageState
  <1>3. page' = [page EXCEPT ![p] = x]
    BY DEF turns
  <1> HIDE DEF x
  <1>4. QED BY <1>1, <1>2, <1>3 DEF PageGoesOn

LEMMA Replies ==
    ASSUME AdminInv, NEW p \in Page,
           NEW a \in {"nothing", "session", "noSession", "noState", "sessionNoState"},
           NEW n \in {0} \cup Session, replies(p, a, n)
    PROVE  PageGoesOn
  <1> DEFINE x == [page[p] EXCEPT !.at = "answered", !.sets = a, !.shows = n]
  <1>1. page[p] \in PageState /\ page[p].actor \in {0, page[p].shown}
    BY AdminTypes DEF AdminInv, ActsAsShown
  <1>2. x \in PageState /\ x.actor = page[p].actor /\ x.shown = page[p].shown
    BY <1>1 DEF PageState
  <1>3. page' = [page EXCEPT ![p] = x]
    BY DEF replies
  <1> HIDE DEF x
  <1>4. QED BY <1>1, <1>2, <1>3 DEF PageGoesOn

LEMMA Refuses ==
    ASSUME AdminInv, NEW p \in Page, refuses(p)
    PROVE  PageGoesOn
  <1>1. page[p].shown \in {0} \cup Session
    BY AdminTypes DEF AdminInv, PageState
  <1>2. QED BY <1>1, Replies DEF refuses

\* A step that leaves the limiter alone.
LEMMA LimiterKept ==
    ASSUME AdminInv, UNCHANGED limiter, today' = today
    PROVE  /\ WindowsOK' /\ window' \in [Bucket -> WindowState]
           /\ passed' \in [Bucket -> Attempts] /\ losses' \in Nat
  <1>1. WindowsOK'
    BY DEF AdminInv, WindowsOK, limiter, limitOf
  <1>2. QED BY <1>1, AdminTypes DEF AdminInv, limiter

\* Sessions, states and cookies.
JarKept ==
    /\ states' \in {0} \cup State /\ session' \in [Session -> SessionState]
    /\ cookies' \in [Browser -> CookieState]

LEMMA PageStep ==
    ASSUME AdminInv, PageGoesOn, adminKeeps, UNCHANGED limiter, JarKept
    PROVE  AdminInv'
  <1>1. AdminTypeOK /\ today' \in 0..admin.time /\ admin' = admin /\ today' = today
    BY DEF AdminInv, AdminTypeOK, adminKeeps
  <1>2. page' \in [Page -> PageState] /\ ActsAsShown'
    BY PageKept
  <1>3. /\ WindowsOK' /\ window' \in [Bucket -> WindowState]
        /\ passed' \in [Bucket -> Attempts] /\ losses' \in Nat
    BY <1>1, LimiterKept
  <1>4. QED
    BY <1>1, <1>2, <1>3, AdminTypesKept DEF AdminInv, JarKept

LEMMA JarUnmoved ==
    ASSUME AdminInv, UNCHANGED <<session, states, cookies>>
    PROVE  JarKept
  BY AdminTypes DEF AdminInv, JarKept

LEMMA SubmitPasswordKeeps ==
    ASSUME AdminInv, NEW p \in Page, SubmitPassword(p)
    PROVE  AdminInv'
  BY TurnsOn, JarUnmoved, PageStep DEF SubmitPassword

\* A charged bucket: the window goes on, or the next one begins.
LEMMA ChargeCounts ==
    ASSUME AdminInv, NEW k \in Bucket, ~full(k), window' = charged(k), today' = today,
           passed' = passed \/ passed' = [passed EXCEPT ![k] = @ \cup {attempt(k)}]
    PROVE  /\ WindowsOK' /\ window' \in [Bucket -> WindowState]
           /\ passed' \in [Bucket -> Attempts]
  <1> DEFINE G == passed[k]
             c == window[k].count
             u == window[k].until
             L == limitOf(k)
             g == attempt(k)
             H == passed'[k]
             w == window'[k]
             d == today
  <1>1. /\ today \in Nat /\ window \in [Bucket -> WindowState]
        /\ passed \in [Bucket -> Attempts]
        /\ Window \in Nat /\ L \in Nat /\ L >= 1
    BY AdminTypes, AdminNumbers DEF AdminInv
  <1>2. WindowOK(G, c, u, L, d)
    BY DEF AdminInv, WindowsOK
  <1>3. c \in Nat /\ u \in Nat /\ window[k] \in WindowState
    BY <1>1 DEF WindowState
  <1>4. IsFiniteSet(G) /\ G \in Attempts
    BY <1>2 DEF WindowOK
  <1>5. g \in [day: Nat, nth: Nat] /\ g.day = d
    BY <1>1, <1>4, FS_CardinalityType DEF attempt
  <1>6. /\ \A l \in Bucket : l # k => passed'[l] = passed[l] /\ window'[l] = window[l]
        /\ H = G \/ H = G \cup {g}
        /\ w = IF open(k) THEN [window[k] EXCEPT !.count = @ + 1]
                          ELSE [count |-> 1, until |-> today + Window]
    <2> DEFINE y == IF open(k) THEN [window[k] EXCEPT !.count = @ + 1]
                               ELSE [count |-> 1, until |-> today + Window]
    <2>1. window' = [window EXCEPT ![k] = y]
      BY DEF charged
    <2> HIDE DEF y
    <2>2. w = y /\ \A l \in Bucket : l # k => window'[l] = window[l]
      BY <1>1, <2>1
    <2>3. passed' = passed \/ passed' = [passed EXCEPT ![k] = passed[k] \cup {attempt(k)}]
      OBVIOUS
    <2>4. H = G \/ H = G \cup {g}
      BY <1>1, <2>3
    <2>5. \A l \in Bucket : l # k => passed'[l] = passed[l]
      BY <1>1, <2>3
    <2>6. QED BY <2>2, <2>4, <2>5 DEF y
  <1>7. H \in Attempts
    BY <1>4, <1>5, <1>6, AttemptsFinite
  <1>8. w \in WindowState
    BY <1>1, <1>3, <1>6 DEF WindowState
  <1>9. WindowOK(H, w.count, w.until, L, d)
    <2>1. CASE open(k)
      <3>1. d < u /\ c < L
        BY <1>1, <1>3, <2>1 DEF open, full
      <3>2. w.count = c + 1 /\ w.until = u
        BY <1>3, <1>6, <2>1 DEF WindowState
      <3> HIDE DEF G, c, u, L, g, H, w, d
      <3>3. WindowOK(G \cup {g}, c + 1, u, L, d)
        BY <1>1, <1>2, <1>5, <3>1, WindowGoesOn DEF d
      <3>4. CASE H = G \cup {g}
        BY <3>2, <3>3, <3>4
      <3>5. CASE H = G
        BY <1>1, <1>2, <1>3, <3>1, <3>2, <3>5, ChargeLost DEF d
      <3>6. QED BY <1>6, <3>4, <3>5
    <2>2. CASE ~open(k)
      <3>1. u <= d
        BY <1>1, <1>3, <2>2 DEF open
      <3>2. w.count = 1 /\ w.until = d + Window
        BY <1>6, <2>2
      <3> HIDE DEF G, c, u, L, g, H, w, d
      <3>3. H \in {G} \cup {G \cup {y} : y \in {x \in [day: Nat, nth: Nat] : x.day = d}}
        BY <1>5, <1>6
      <3>4. QED BY <1>1, <1>2, <3>1, <3>2, <3>3, WindowBegins DEF d
    <2>3. QED BY <2>1, <2>2
  <1>10. WindowsOK'
    <2>1. ASSUME NEW l \in Bucket
          PROVE  WindowOK(passed'[l], window'[l].count, window'[l].until, limitOf(l), today')
      <3>1. CASE l = k
        BY <1>9, <3>1
      <3>2. CASE l # k
        BY <1>6, <3>2 DEF AdminInv, WindowsOK
      <3>3. QED BY <3>1, <3>2
    <2>2. QED BY <2>1 DEF WindowsOK, limitOf
  <1>11. window' \in [Bucket -> WindowState]
    BY <1>1, <1>8 DEF charged
  <1>12. passed' \in [Bucket -> Attempts]
    BY <1>1, <1>7
  <1>13. QED BY <1>10, <1>11, <1>12

LEMMA ChargeKeeps ==
    ASSUME AdminInv, NEW p \in Page, Charge(p)
    PROVE  AdminInv'
  <1> DEFINE k == bucketOf(p)
             next == IF page[p].at = "global" THEN "address" ELSE "verifying"
  <1>1. k \in Bucket
    BY AdminTypes DEF bucketOf, Bucket, AdminInv
  <1>2. consume(p, k, next) /\ adminKeeps /\ UNCHANGED <<session, states, cookies>>
    BY DEF Charge
  <1>3. JarKept /\ AdminTypeOK /\ today' = today /\ admin' = admin /\ today' \in 0..admin.time
    BY <1>2, JarUnmoved DEF adminKeeps, AdminInv, AdminTypeOK
  <1>4. PageGoesOn
    <2>1. turns(p, next) \/ refuses(p)
      BY <1>2 DEF consume
    <2>2. QED BY <2>1, TurnsOn, Refuses
  <1>5. CASE full(k) /\ refuses(p) /\ UNCHANGED limiter
    BY <1>2, <1>3, <1>4, <1>5, PageStep
  <1>6. CASE window' = window /\ passed' = passed /\ losses > 0 /\ losses' = losses - 1
    <2>1. WindowsOK'
      BY <1>3, <1>6 DEF AdminInv, WindowsOK, limitOf
    <2>2. /\ window' \in [Bucket -> WindowState] /\ passed' \in [Bucket -> Attempts]
          /\ losses' \in Nat
      BY <1>6, AdminTypes DEF AdminInv
    <2>3. page' \in [Page -> PageState] /\ ActsAsShown'
      BY <1>4, PageKept
    <2>4. QED BY <1>3, <2>1, <2>2, <2>3, AdminTypesKept DEF AdminInv, JarKept
  <1>7. CASE /\ ~full(k) /\ window' = charged(k)
             /\ passed' = passed \/ passed' = [passed EXCEPT ![k] = @ \cup {attempt(k)}]
             /\ losses' \in Nat
    <2>1. /\ WindowsOK' /\ window' \in [Bucket -> WindowState]
          /\ passed' \in [Bucket -> Attempts]
      BY <1>1, <1>3, <1>7, ChargeCounts
    <2>2. page' \in [Page -> PageState] /\ ActsAsShown'
      BY <1>4, PageKept
    <2>3. QED BY <1>3, <1>7, <2>1, <2>2, AdminTypesKept DEF AdminInv, JarKept
  <1>8. losses \in Nat
    BY AdminTypes DEF AdminInv
  <1> HIDE DEF k, next
  <1>9. QED BY <1>2, <1>5, <1>6, <1>7, <1>8 DEF consume

\* A sign-in makes the next session.
LEMMA SignsIn ==
    ASSUME AdminInv, NEW p \in Page, NEW by \in {"password"} \cup Provider,
           NEW a \in {"session", "sessionNoState"}, signsIn(p, by, a)
    PROVE  session' \in [Session -> SessionState] /\ PageGoesOn
  <1>1. /\ newSession \in Session /\ session \in [Session -> SessionState]
        /\ today \in Nat /\ SessionLife \in Nat
    BY AdminTypes, AdminNumbers DEF signsIn, AdminInv
  <1>2. [by |-> by, until |-> today + SessionLife] \in SessionState
    BY <1>1 DEF SessionState
  <1>3. session' \in [Session -> SessionState]
    BY <1>1, <1>2 DEF signsIn
  <1>4. PageGoesOn
    BY <1>1, Replies DEF signsIn
  <1>5. QED BY <1>3, <1>4

LEMMA VerifyPasswordKeeps ==
    ASSUME AdminInv, NEW p \in Page, VerifyPassword(p)
    PROVE  AdminInv'
  <1>1. /\ session' \in [Session -> SessionState] /\ PageGoesOn
        /\ adminKeeps /\ UNCHANGED <<states, cookies>> /\ UNCHANGED limiter
    BY SignsIn, Refuses, AdminTypes DEF VerifyPassword, AdminInv
  <1>2. JarKept
    BY <1>1, AdminTypes DEF JarKept, AdminInv
  <1>3. QED BY <1>1, <1>2, PageStep

LEMMA ExchangeCodeKeeps ==
    ASSUME AdminInv, NEW p \in Page, ExchangeCode(p)
    PROVE  AdminInv'
  <1>1. page[p].provider \in Provider
    BY AdminTypes DEF AdminInv, PageState
  <1>2. /\ session' \in [Session -> SessionState] /\ PageGoesOn
        /\ adminKeeps /\ UNCHANGED <<states, cookies>> /\ UNCHANGED limiter
    BY <1>1, SignsIn, Replies, AdminTypes DEF ExchangeCode, AdminInv
  <1>3. JarKept
    BY <1>2, AdminTypes DEF JarKept, AdminInv
  <1>4. QED BY <1>2, <1>3, PageStep

LEMMA StartOAuthKeeps ==
    ASSUME AdminInv, NEW p \in Page, NEW x \in Provider, StartOAuth(p, x)
    PROVE  AdminInv'
  <1> DEFINE b == BrowserOf[p]
             n == states + 1
             y == [cookies[b] EXCEPT !.state = n, !.provider = x, !.until = today + StateLife]
             z == [NewPage EXCEPT !.at = "away", !.state = n, !.provider = x]
  <1>1. /\ b \in Browser /\ cookies \in [Browser -> CookieState] /\ cookies[b] \in CookieState
        /\ today + StateLife \in Nat /\ session \in [Session -> SessionState]
    BY AdminTypes, AdminNumbers DEF AdminInv
  <1>2. n \in State
    <2>1. states \in {0} \cup State /\ states < MaxSession /\ MaxSession \in Nat
      BY AdminTypes, AdminNumbers DEF AdminInv, StartOAuth
    <2>2. QED BY <2>1 DEF State
  <1>3. y \in CookieState
    BY <1>1, <1>2 DEF CookieState
  <1>4. z \in PageState /\ z.actor = 0
    BY <1>2 DEF NewPage, PageState
  <1>5. /\ cookies' = [cookies EXCEPT ![b] = y] /\ page' = [page EXCEPT ![p] = z]
        /\ states' = n /\ session' = session /\ adminKeeps /\ UNCHANGED limiter
    BY DEF StartOAuth
  <1> HIDE DEF b, n, y, z
  <1>6. JarKept
    BY <1>1, <1>2, <1>3, <1>5 DEF JarKept
  <1>7. PageGoesOn
    BY <1>4, <1>5 DEF PageGoesOn
  <1>8. QED BY <1>5, <1>6, <1>7, PageStep

LEMMA CallbackKeeps ==
    ASSUME AdminInv, NEW p \in Page, Callback(p)
    PROVE  AdminInv'
  <1>1. /\ refuses(p) \/ replies(p, "noState", 0) \/ turns(p, "exchanging")
        /\ adminKeeps /\ UNCHANGED <<session, states, cookies>> /\ UNCHANGED limiter
    BY DEF Callback
  <1>2. PageGoesOn
    BY <1>1, Refuses, Replies, TurnsOn
  <1>3. QED BY <1>1, <1>2, JarUnmoved, PageStep

LEMMA ReadSessionKeeps ==
    ASSUME AdminInv, NEW p \in Page, ReadSession(p)
    PROVE  AdminInv'
  <1> DEFINE n == cookies[BrowserOf[p]].session
  <1>1. n \in {0} \cup Session
    BY AdminTypes DEF AdminInv, CookieState
  <1>2. /\ \/ replies(p, "nothing", n) \/ replies(p, "noSession", 0)
           \/ replies(p, "nothing", 0)
        /\ adminKeeps /\ UNCHANGED <<session, states, cookies>> /\ UNCHANGED limiter
    BY DEF ReadSession
  <1> HIDE DEF n
  <1>3. PageGoesOn
    BY <1>1, <1>2, Replies
  <1>4. QED BY <1>2, <1>3, JarUnmoved, PageStep

LEMMA MutateKeeps ==
    ASSUME AdminInv, NEW p \in Page, NEW op \in {"publish", "logout"}, Mutate(p, op)
    PROVE  AdminInv'
  <1> DEFINE n == cookies[BrowserOf[p]].session
             good == live(n) /\ page[p].shown = n
             out == good /\ op = "logout"
             a == IF good THEN n ELSE 0
             e == IF out THEN "noSession" ELSE "nothing"
             f == IF out THEN 0 ELSE page[p].shown
             x == [page[p] EXCEPT !.at = "answered", !.actor = a, !.sets = e, !.shows = f]
  <1>1. page[p] \in PageState /\ n \in {0} \cup Session
    BY AdminTypes DEF AdminInv, CookieState
  <1>2. /\ a \in {0} \cup Session /\ a \in {0, page[p].shown}
        /\ e \in {"noSession", "nothing"} /\ f \in {0} \cup Session
    BY <1>1 DEF PageState
  <1>3. /\ page' = [page EXCEPT ![p] = x]
        /\ adminKeeps /\ UNCHANGED <<session, states, cookies>> /\ UNCHANGED limiter
    BY DEF Mutate
  <1> HIDE DEF a, e, f, good, out, n
  <1>4. x \in PageState /\ x.actor = a /\ x.shown = page[p].shown
    BY <1>1, <1>2 DEF PageState
  <1> HIDE DEF x
  <1>5. PageGoesOn
    BY <1>2, <1>3, <1>4 DEF PageGoesOn
  <1>6. QED BY <1>3, <1>5, JarUnmoved, PageStep

LEMMA AnswerArrivesKeeps ==
    ASSUME AdminInv, NEW p \in Page, AnswerArrives(p)
    PROVE  AdminInv'
  <1> DEFINE b == BrowserOf[p]
             sets == page[p].sets
             s == CASE sets \in {"session", "sessionNoState"} -> page[p].shows
                    [] sets = "noSession" -> 0
                    [] OTHER -> cookies[b].session
             n == IF sets \in {"noState", "sessionNoState"} THEN 0 ELSE cookies[b].state
             m == IF sets = "sessionNoState" THEN 0 ELSE page[p].shows
             y == [cookies[b] EXCEPT !.session = s, !.state = n]
             z == [NewPage EXCEPT !.shown = m]
  <1>1. /\ b \in Browser /\ cookies \in [Browser -> CookieState] /\ cookies[b] \in CookieState
        /\ page[p] \in PageState /\ session \in [Session -> SessionState]
        /\ states \in {0} \cup State
    BY AdminTypes DEF AdminInv
  <1>2. s \in {0} \cup Session /\ n \in {0} \cup State /\ m \in {0} \cup Session
    BY <1>1 DEF PageState, CookieState
  <1>3. /\ cookies' = [cookies EXCEPT ![b] = y] /\ page' = [page EXCEPT ![p] = z]
        /\ adminKeeps /\ UNCHANGED <<session, states>> /\ UNCHANGED limiter
    BY DEF AnswerArrives
  <1> HIDE DEF b, sets, s, n, m
  <1>4. y \in CookieState
    BY <1>1, <1>2 DEF CookieState
  <1>5. z \in PageState /\ z.actor = 0
    BY <1>2 DEF NewPage, PageState, Provider
  <1> HIDE DEF y, z
  <1>6. JarKept
    BY <1>1, <1>3, <1>4 DEF JarKept
  <1>7. PageGoesOn
    BY <1>3, <1>5 DEF PageGoesOn
  <1>8. QED BY <1>3, <1>6, <1>7, PageStep

LEMMA WindowAges ==
    ASSUME NEW G, NEW c, NEW u, NEW L, NEW d \in Nat, NEW e \in Nat, d <= e,
           WindowOK(G, c, u, L, d)
    PROVE  WindowOK(G, c, u, L, e)
  <1>1. Window \in Nat /\ u \in Nat /\ G \in Attempts
    BY AdminNumbers DEF WindowOK
  <1>2. \A g \in G : g.day <= e
    BY <1>1 DEF WindowOK, Attempts
  <1>3. u - Window <= e
    BY <1>1 DEF WindowOK
  <1>4. QED BY <1>2, <1>3 DEF WindowOK

LEMMA AdminTickKeeps ==
    ASSUME AdminInv, AdminTick
    PROVE  AdminInv'
  <1>1. /\ today \in Nat /\ today' = today + 1 /\ today < admin.time /\ admin.time \in Nat
        /\ UNCHANGED <<admin, window, passed, losses, session, states, cookies, page>>
    BY AdminTypes DEF AdminTick, AdminInv, limiter
  <1>2. today' \in 0..admin.time /\ today' \in Nat /\ today <= today'
    BY <1>1
  <1>3. AdminTypeOK'
    BY <1>1, <1>2, AdminTypes, AdminTypesKept DEF AdminInv
  <1>4. WindowsOK'
    <2>1. ASSUME NEW k \in Bucket
          PROVE  WindowOK(passed[k], window[k].count, window[k].until, limitOf(k), today')
      BY <1>1, <1>2, WindowAges DEF AdminInv, WindowsOK
    <2>2. QED BY <1>1, <2>1 DEF WindowsOK, limitOf
  <1>5. ActsAsShown'
    BY <1>1 DEF AdminInv, ActsAsShown
  <1>6. QED BY <1>3, <1>4, <1>5 DEF AdminInv

LEMMA AdminStarts ==
    ASSUME AdminInit, admin \in AdminSetting
    PROVE  AdminInv
  <1>1. /\ today = 0 /\ \A k \in Bucket : passed[k] = {} /\ window[k].count = 0
                                          /\ window[k].until = 0
        /\ admin.time \in Nat /\ admin.losses \in Nat
    BY DEF AdminInit, AdminSetting
  <1>2. AdminTypeOK
    <2>1. NewPage \in PageState /\ NoCookies \in CookieState /\ NoSession \in SessionState
      BY DEF NewPage, PageState, NoCookies, CookieState, NoSession, SessionState, Provider
    <2>2. /\ page \in [Page -> PageState] /\ cookies \in [Browser -> CookieState]
          /\ session \in [Session -> SessionState]
      BY <2>1 DEF AdminInit
    <2>3. /\ window \in [Bucket -> WindowState] /\ passed \in [Bucket -> Attempts]
          /\ states = 0 /\ losses \in Nat /\ today \in 0..admin.time
      BY <1>1 DEF AdminInit, WindowState, Attempts
    <2>4. QED
      BY <2>2, <2>3 DEF AdminTypeOK, WindowState, SessionState, CookieState, PageState, Attempts
  <1>3. ASSUME NEW k \in Bucket
        PROVE  WindowOK(passed[k], window[k].count, window[k].until, limitOf(k), today)
    <2> DEFINE L == limitOf(k)
    <2>1. /\ L \in Nat /\ L >= 1 /\ Window \in Nat /\ L - 1 \in Nat /\ 2 * L - 1 \in Nat
          /\ passed[k] = {} /\ window[k].count = 0 /\ window[k].until = 0 /\ today = 0
      BY <1>1, AdminNumbers
    <2> HIDE DEF L
    <2>2. \A a, b \in Int, n \in Nat : Few({}, a, b, n)
      <3>1. ASSUME NEW a \in Int, NEW b \in Int, NEW n \in Nat
            PROVE  Few({}, a, b, n)
        <4>1. Within({}, a, b) = {}
          BY DEF Within
        <4>2. QED BY <4>1, NoAttempts
      <3>2. QED BY <3>1
    <2>3. /\ Few({}, 0 - Window, 0 - 1, 0)
          /\ Few({}, 0 - 2 * Window + 1, 0 - Window - 1, L - 1)
          /\ \A a \in Int : Few({}, a, a + Window - 1, 2 * L - 1)
      BY <2>1, <2>2
    <2>4. WindowOK({}, 0, 0, L, 0)
      BY <2>1, <2>3, FS_EmptySet DEF WindowOK, Attempts
    <2>5. QED BY <2>1, <2>4 DEF L
  <1>4. ActsAsShown
    BY DEF AdminInit, ActsAsShown, NewPage
  <1>5. QED BY <1>2, <1>3, <1>4 DEF AdminInv, WindowsOK

LEMMA AdminStepKeeps ==
    ASSUME AdminInv, AdminNext
    PROVE  AdminInv'
  <1>1. ASSUME NEW p \in Page, AdminStep(p)
        PROVE  AdminInv'
    BY <1>1, ChargeKeeps, VerifyPasswordKeeps, CallbackKeeps, ExchangeCodeKeeps,
       AnswerArrivesKeeps DEF AdminStep
  <1>2. AdminProgress => AdminInv'
    BY <1>1, AdminTickKeeps DEF AdminProgress
  <1>3. QED
    BY <1>2, SubmitPasswordKeeps, ReadSessionKeeps, StartOAuthKeeps, MutateKeeps DEF AdminNext

LEMMA AdminStutters ==
    ASSUME AdminInv, UNCHANGED adminVars
    PROVE  AdminInv'
  BY DEF AdminInv, adminVars, AdminTypeOK, WindowsOK, ActsAsShown, limitOf

LEMMA AdminKeepsItsWord ==
    ASSUME AdminInv
    PROVE  AdminKept
  <1>1. ASSUME NEW k \in Bucket, NEW d \in 0..admin.time
        PROVE  Cardinality({g \in passed[k] : g.day \in d..(d + Window - 1)}) < 2 * limitOf(k)
    <2> DEFINE L == limitOf(k)
               G == passed[k]
               S == {g \in G : g.day \in d..(d + Window - 1)}
    <2>1. L \in Nat /\ Window \in Nat /\ admin.time \in Nat /\ G \in Attempts
      BY AdminNumbers, AdminTypes DEF AdminInv
    <2>2. d \in Int /\ d + Window - 1 \in Int
      BY <2>1
    <2>3. Few(G, d, d + Window - 1, 2 * L - 1)
      BY <2>2 DEF AdminInv, WindowsOK, WindowOK
    <2>4. S = Within(G, d, d + Window - 1)
      BY <2>1, <2>2 DEF Within, Attempts
    <2> HIDE DEF S, G
    <2>5. IsFiniteSet(S) /\ Cardinality(S) <= 2 * L - 1
      BY <2>3, <2>4 DEF Few
    <2>6. Cardinality(S) \in Nat
      BY <2>5, FS_CardinalityType
    <2>7. Cardinality(S) < 2 * L
      BY <2>1, <2>5, <2>6
    <2>8. QED BY <2>7 DEF S, G
  <1>2. QED BY <1>1 DEF AdminInv, AdminKept, GuessesBounded

----------------------------------------------------------------------------
(* The parts together                                                      *)

IInv == SessionInv /\ BackendInv /\ AdminInv

LEMMA AccessStarts ==
    ASSUME Init
    PROVE  IInv
  <1>1. access \in Deployment /\ backend \in Backend /\ admin \in AdminSetting
    BY AccessAssumption DEF Init
  <1>2. SessionInit /\ BackendInit /\ AdminInit
    BY DEF Init
  <1>3. QED BY <1>1, <1>2, SessionStarts, BackendStarts, AdminStarts DEF IInv

LEMMA AccessStep ==
    ASSUME IInv, [Next]_accessVars
    PROVE  IInv'
  <1>1. CASE Sessions
    BY <1>1, SessionStepKeeps, BackendStutters, AdminStutters DEF IInv, Sessions
  <1>2. CASE Imports
    BY <1>2, SessionStutters, BackendStep, AdminStutters DEF IInv, Imports
  <1>3. CASE Admin
    BY <1>3, SessionStutters, BackendStutters, AdminStepKeeps DEF IInv, Admin
  <1>4. CASE UNCHANGED accessVars
    BY <1>4, SessionStutters, BackendStutters, AdminStutters DEF IInv, accessVars
  <1>5. QED BY <1>1, <1>2, <1>3, <1>4 DEF Next

(* The strengthening that the theorems below follow from holds in every    *)
(* reachable state, for any numbers of requests, tokens, jobs and faults.  *)
THEOREM InductiveInvariant == Spec => []IInv
  <1>1. Init => IInv
    BY AccessStarts
  <1>2. IInv /\ [Next]_accessVars => IInv'
    BY AccessStep
  <1>3. QED BY <1>1, <1>2, PTL DEF Spec

(* The state of every part has its type.                                   *)
THEOREM TypeCorrect == Spec => []AccessTypeOK
  <1>1. IInv => AccessTypeOK
    BY DEF IInv, SessionInv, BackendInv, AdminInv, AccessTypeOK
  <1>2. QED BY <1>1, InductiveInvariant, PTL

(* What comes after a confirmed logout (handleLogout) is refused by        *)
(* resolveSession for as long as the token would have lived, whatever was  *)
(* renewed, cached or issued meanwhile; outside distributed mode unless    *)
(* the cache failed.                                                       *)
THEOREM LogoutsHold == Spec => []LoggedOutStaysOut
  <1>1. IInv => LoggedOutStaysOut
    BY LogoutsAreHeard DEF IInv
  <1>2. QED BY <1>1, InductiveInvariant, PTL

(* RedisSingleFlight lets two logins at the portal overlap only where one  *)
(* outlasted its lock.                                                     *)
THEOREM OneFlight == Spec => []LoginsOverlapOnlyPastLock
  <1>1. IInv => LoginsOverlapOnlyPastLock
    BY OneLockAtATime DEF IInv
  <1>2. QED BY <1>1, InductiveInvariant, PTL

(* Imports of one credential share one job, however their claims, entries  *)
(* and settlements interleave or lose their answers.                       *)
THEOREM OneJobAtATime == Spec => []CountedOnce
  <1>1. IInv => CountedOnce
    BY OneLives DEF IInv
  <1>2. QED BY <1>1, InductiveInvariant, PTL

(* The limits on the admin's sign-in hold over every interval, and a page  *)
(* acts as the session it shows.                                           *)
THEOREM AdminKeeps == Spec => []AdminKept
  <1>1. IInv => AdminKept
    BY AdminKeepsItsWord DEF IInv
  <1>2. QED BY <1>1, InductiveInvariant, PTL
==============================================================================
