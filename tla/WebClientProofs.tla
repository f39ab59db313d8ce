--------------------------- MODULE WebClientProofs ---------------------------
(***************************************************************************)
(* What WebClient keeps to, for any accounts, requests, tabs and budgets.  *)
(***************************************************************************)
EXTENDS WebClient, SequenceTheorems, TLAPS

\* Who waits for a flight found the token of the flight expired; no flight is
\* for an account that is being signed out.
FlightsOK ==
    \A f \in flights :
        /\ f.account \notin suppressed
        /\ \A r \in f.waiters :
              /\ req[r].at = "waiting"
              /\ req[r].origin = [account |-> f.account, token |-> f.token]

\* A request carries the token of its origin; one that goes on after a
\* reconnection finds the token it brought.
RequestOK(r) ==
    /\ req[r].at # "done" =>
          /\ req[r].origin.account \in Account /\ req[r].origin.token # 0
          /\ r \in scenario.requests
    /\ req[r].at = "sent" => req[r].sent = req[r].origin.token
    /\ req[r].at = "resumed" /\ req[r].heard = "ok" =>
          active # None /\ store.token[active] = req[r].sent

RequestsOK == \A r \in Request : RequestOK(r)

RemovalsOK == \A a \in Account : removal[a].at = "revoking" => removal[a].token \in condemned

GateOK == gate.at = "running" => gate.using # None

BudgetOK ==
    /\ SingleTab => budget["otherTab"] = 0
    /\ scenario.sole => budget["signIns"] = 0

\* A run asks for what is left, for the account that is active.
PageOK ==
    /\ TargetsAccountedFor /\ ResultsOfActive
    /\ page.at = "running" =>
          /\ page.pending # <<>> /\ Bulk \in scenario.requests
          /\ req[Bulk].origin.account \in Account
          /\ SingleTab => req[Bulk].origin.account = active

Alone == scenario.sole /\ SingleTab

\* Alone, and without sign-ins, the token of a VNU account changes only by the
\* flight of the one request.
AloneTokens ==
    Alone => \A r \in Request :
        req[r].at \in {"sent", "waiting"} /\ req[r].origin.account \in Vnu =>
            store.token[req[r].origin.account] \in {0, req[r].origin.token}

\* What a sign-out found is there when it ends.
AloneRemovals ==
    Alone => \A a \in Vnu :
        removal[a].at = "revoking" =>
            /\ a \in suppressed
            /\ stored(a) => /\ store.token[a] = removal[a].token
                            /\ grant[a] = removal[a].grant
                            /\ status[a] = removal[a].status

\* The user is shown what was last published of the active account.
AloneShown ==
    Alone /\ shown = "reconnecting" /\ active # None =>
        active \in Vnu /\ status[active].state = "reconnecting"

AloneOK == AloneTokens /\ AloneRemovals /\ AloneShown

IInv ==
    /\ TypeOK
    /\ FlightsOK /\ RequestsOK /\ RemovalsOK /\ GateOK /\ BudgetOK
    /\ GrantMatchesToken
    /\ PageOK
    /\ AloneOK /\ ReconnectingIsTrueAlone

-----------------------------------------------------------------------------
(* What the writes leave in the browser's storage.                         *)

\* Every issue makes one more token.
LEMMA TokenIssued ==
    ASSUME basis \in Seq(Nat), NEW t \in Nat, issue(t)
    PROVE  /\ freshToken \in Nat /\ freshToken # 0
           /\ Tokens' = Tokens \cup {freshToken} /\ freshToken \notin Tokens
           /\ basis' \in Seq(Nat) /\ Len(basis') = freshToken /\ basis'[freshToken] = t
           /\ \A i \in 1..Len(basis) : basis'[i] = basis[i]
<1>1. /\ basis' \in Seq(Nat) /\ Len(basis') = Len(basis) + 1
      /\ \A i \in 1..Len(basis) : basis'[i] = basis[i]
      /\ basis'[Len(basis) + 1] = t
  BY DEF issue
<1>2. Len(basis) \in Nat
  OBVIOUS
<1> QED BY <1>1, <1>2 DEF freshToken, Tokens

\* What is known of the accounts.
LEMMA AccountFacts ==
    ASSUME AccountsTypeOK
    PROVE  /\ Len(store.order) \in Nat /\ Len(basis) \in Nat
           /\ \A i \in 1..Len(store.order) : store.order[i] \in Account /\ stored(store.order[i])
           /\ \A a \in Account : stored(a) <=> \E i \in 1..Len(store.order) : store.order[i] = a
           /\ active \in {None} \cup Account
           /\ active # None => stored(active)
           /\ \A a \in Account : store.token[a] \in Tokens
           /\ None \notin Account /\ Vnu \subseteq Account
<1>1. /\ store.order \in Seq(Account) /\ basis \in Seq(Nat)
      /\ store.active \in {None} \cup Account /\ store.token \in [Account -> Tokens]
  BY DEF AccountsTypeOK
<1>2. range(store.order) = {a \in Account : stored(a)}
  BY DEF AccountsTypeOK, stored
<1>3. \A i \in 1..Len(store.order) : store.order[i] \in Account /\ stored(store.order[i])
  BY <1>1, <1>2 DEF range
<1>4. \A a \in Account : stored(a) <=> \E i \in 1..Len(store.order) : store.order[i] = a
  BY <1>2 DEF range
<1>5. active # None => stored(active)
  BY <1>2 DEF AccountsTypeOK, active
<1>6. Len(store.order) \in Nat /\ Len(basis) \in Nat
  BY <1>1
<1>7. active \in {None} \cup Account
  BY <1>1 DEF active
<1>8. \A a \in Account : store.token[a] \in Tokens
  BY <1>1
<1> QED BY <1>3, <1>4, <1>5, <1>6, <1>7, <1>8, AccountAssumption

\* The new list names what it should, each once.
ListOK(order, kept) ==
    /\ order \in Seq(Account)
    /\ range(order) = kept
    /\ \A i, j \in 1..Len(order) : order[i] = order[j] => i = j

LEMMA ListNow ==
    ASSUME AccountsTypeOK
    PROVE  ListOK(store.order, {a \in Account : stored(a)})
BY DEF AccountsTypeOK, ListOK, stored

LEMMA ListAppended ==
    ASSUME AccountsTypeOK, NEW a \in Account, ~stored(a)
    PROVE  ListOK(Append(store.order, a), {b \in Account : stored(b) \/ b = a})
<1> DEFINE order == store.order
           new == Append(order, a)
<1>1. ListOK(order, {b \in Account : stored(b)})
  BY ListNow
<1> HIDE DEF order
<1>2. /\ new \in Seq(Account) /\ Len(new) = Len(order) + 1 /\ Len(order) \in Nat
      /\ \A i \in 1..Len(order) : new[i] = order[i]
      /\ new[Len(order) + 1] = a
  BY <1>1 DEF ListOK
<1>3. \A i \in 1..Len(order) : order[i] \in Account /\ stored(order[i])
  BY <1>1 DEF ListOK, range
<1>4. \A b \in Account : stored(b) => \E i \in 1..Len(order) : order[i] = b
  BY <1>1 DEF ListOK, range
<1> HIDE DEF new
<1>5. range(new) \subseteq {b \in Account : stored(b) \/ b = a}
  BY <1>2, <1>3 DEF range
<1>6. {b \in Account : stored(b) \/ b = a} \subseteq range(new)
  BY <1>2, <1>4 DEF range
<1>7. \A i, j \in 1..Len(new) : new[i] = new[j] => i = j
  BY <1>1, <1>2, <1>3 DEF ListOK
<1> QED BY <1>2, <1>5, <1>6, <1>7 DEF ListOK, new, order

LEMMA ListWithout ==
    ASSUME AccountsTypeOK, NEW a \in Account, stored(a)
    PROVE  ListOK(orderWithout(a), {b \in Account : stored(b) /\ b # a})
<1> DEFINE order == store.order
           n == Len(order)
           place == CHOOSE i \in 1..n : order[i] = a
           new == orderWithout(a)
<1>1. ListOK(order, {b \in Account : stored(b)})
  BY ListNow
<1>2. new = [i \in 1..(n - 1) |-> order[IF i < place THEN i ELSE i + 1]]
  BY DEF orderWithout
<1> HIDE DEF order, new
<1>3. order \in Seq(Account) /\ n \in Nat
  BY <1>1 DEF ListOK
<1>4. \A i \in 1..n : order[i] \in Account /\ stored(order[i])
  BY <1>1 DEF ListOK, range
<1>5. \A b \in Account : stored(b) => \E i \in 1..n : order[i] = b
  BY <1>1 DEF ListOK, range
<1>6. \A i, j \in 1..n : order[i] = order[j] => i = j
  BY <1>1 DEF ListOK
<1>7. place \in 1..n /\ order[place] = a
  BY <1>5
<1> HIDE DEF place, n
<1>8. n - 1 \in Nat
  BY <1>3, <1>7
<1>9. \A i \in 1..(n - 1) :
         new[i] \in Account /\ new[i] = order[IF i < place THEN i ELSE i + 1]
  BY <1>2, <1>3, <1>4, <1>7
<1>10. new \in Seq(Account) /\ Len(new) = n - 1
  BY <1>2, <1>8, <1>9
<1>11. range(new) \subseteq {b \in Account : stored(b) /\ b # a}
  <2> SUFFICES ASSUME NEW i \in 1..(n - 1)
               PROVE  new[i] \in Account /\ stored(new[i]) /\ new[i] # a
    BY <1>10 DEF range
  <2> QED BY <1>3, <1>4, <1>6, <1>7, <1>9
<1>12. {b \in Account : stored(b) /\ b # a} \subseteq range(new)
  <2> SUFFICES ASSUME NEW b \in Account, stored(b), b # a
               PROVE  \E i \in 1..(n - 1) : new[i] = b
    BY <1>10 DEF range
  <2>1. PICK k \in 1..n : order[k] = b
    BY <1>5
  <2>2. k # place
    BY <2>1, <1>7
  <2>3. CASE k < place
    BY <2>1, <2>3, <1>3, <1>7, <1>9
  <2>4. CASE k > place
    <3>1. k - 1 \in 1..(n - 1) /\ ~(k - 1 < place) /\ (k - 1) + 1 = k
      BY <2>4, <1>3, <1>7
    <3> QED BY <3>1, <2>1, <1>9
  <2> QED BY <2>2, <2>3, <2>4, <1>3, <1>7
<1>13. \A i, j \in 1..(n - 1) : new[i] = new[j] => i = j
  BY <1>3, <1>6, <1>7, <1>9
<1> QED BY <1>10, <1>11, <1>12, <1>13 DEF ListOK, new

LEMMA AccountsAgain ==
    ASSUME NEW order, NEW token \in [Account -> Tokens'], NEW act,
           store' = [order |-> order, token |-> token, active |-> act],
           ListOK(order, {a \in Account : token[a] # 0}),
           act = None \/ (act \in Account /\ token[act] # 0),
           grant' \in [Account -> Tokens'], basis' \in Seq(Nat),
           \A t \in 1..Len(basis') : basis'[t] \in 0..(t - 1)
    PROVE  AccountsTypeOK'
<1>1. store'.order = order /\ store'.token = token /\ store'.active = act
  OBVIOUS
<1>2. store' \in [order: Seq(Account), token: [Account -> Tokens'], active: {None} \cup Account]
  BY DEF ListOK
<1>3. range(store'.order) = {a \in Account : store'.token[a] # 0}
  BY <1>1 DEF ListOK
<1>4. \A i, j \in 1..Len(store'.order) : store'.order[i] = store'.order[j] => i = j
  BY <1>1 DEF ListOK
<1>5. store'.active \in {None} \cup range(store'.order)
  BY <1>1, <1>3
<1> QED BY <1>2, <1>3, <1>4, <1>5 DEF AccountsTypeOK, range

\* What an issue leaves to be shown of the tokens.
LEMMA BasisGrows ==
    ASSUME AccountsTypeOK, NEW t \in Tokens, issue(t)
    PROVE  /\ Tokens \subseteq Tokens' /\ freshToken \in Tokens'
           /\ freshToken # 0 /\ freshToken \notin Tokens
           /\ basis'[freshToken] = t
           /\ basis' \in Seq(Nat)
           /\ \A i \in 1..Len(basis') : basis'[i] \in 0..(i - 1)
<1>1. basis \in Seq(Nat) /\ \A i \in 1..Len(basis) : basis[i] \in 0..(i - 1)
  BY DEF AccountsTypeOK
<1>2. t \in Nat /\ t <= Len(basis) /\ Len(basis) \in Nat
  BY <1>1 DEF Tokens
<1>3. /\ freshToken \in Nat /\ freshToken # 0
      /\ Tokens' = Tokens \cup {freshToken} /\ freshToken \notin Tokens
      /\ basis' \in Seq(Nat) /\ Len(basis') = freshToken /\ basis'[freshToken] = t
      /\ \A i \in 1..Len(basis) : basis'[i] = basis[i]
  BY <1>1, <1>2, TokenIssued
<1>4. \A i \in 1..Len(basis') : basis'[i] \in 0..(i - 1)
  <2> SUFFICES ASSUME NEW i \in 1..Len(basis')
               PROVE  basis'[i] \in 0..(i - 1)
    OBVIOUS
  <2>1. CASE i = freshToken
    BY <2>1, <1>2, <1>3 DEF freshToken
  <2>2. CASE i \in 1..Len(basis)
    BY <2>2, <1>1, <1>3
  <2> QED BY <2>1, <2>2, <1>2, <1>3 DEF freshToken
<1> QED BY <1>3, <1>4

\* An account is given a new token, in answer to the one it had.
LEMMA Rotates ==
    ASSUME AccountsTypeOK, NEW a \in Account, stored(a), NEW t \in Tokens, issue(t),
           store' = rotated(a, freshToken), grant' \in [Account -> Tokens']
    PROVE  /\ AccountsTypeOK'
           /\ active' = active
           /\ store'.token = [store.token EXCEPT ![a] = freshToken]
<1>1. /\ Tokens \subseteq Tokens' /\ freshToken \in Tokens' /\ freshToken # 0
      /\ basis' \in Seq(Nat)
      /\ \A i \in 1..Len(basis') : basis'[i] \in 0..(i - 1)
  BY BasisGrows
<1>2. store \in [order: Seq(Account), token: [Account -> Tokens], active: {None} \cup Account]
  BY DEF AccountsTypeOK
<1> DEFINE token == [store.token EXCEPT ![a] = freshToken]
<1>3. store' = [order |-> store.order, token |-> token, active |-> store.active]
  BY <1>2 DEF rotated
<1>4. token \in [Account -> Tokens']
  BY <1>1, <1>2
<1>5. {b \in Account : token[b] # 0} = {b \in Account : stored(b)}
  BY <1>1, <1>2 DEF stored
<1>6. ListOK(store.order, {b \in Account : token[b] # 0})
  BY <1>5, ListNow
<1>7. store.active = None \/ (store.active \in Account /\ token[store.active] # 0)
  BY <1>5, AccountFacts DEF active
<1> HIDE DEF token
<1>8. AccountsTypeOK'
  BY <1>1, <1>3, <1>4, <1>6, <1>7, AccountsAgain
<1> QED BY <1>3, <1>8 DEF token, active

LEMMA UpsertedActive ==
    ASSUME NEW a, NEW t
    PROVE  [upserted(a, t) EXCEPT !.active = a] = upserted(a, t)
<1> DEFINE order == IF stored(a) THEN store.order ELSE Append(store.order, a)
           token == [store.token EXCEPT ![a] = t]
<1>1. upserted(a, t) = [order |-> order, token |-> token, active |-> a]
  BY DEF upserted
<1> HIDE DEF order, token
<1> QED BY <1>1

\* An account is stored with a token, of its own sign-in; another one may stay active.
LEMMA Upserts ==
    ASSUME AccountsTypeOK, NEW a \in Account, issue(0), NEW act \in {a, active},
           store' = [upserted(a, freshToken) EXCEPT !.active = act],
           grant' \in [Account -> Tokens']
    PROVE  /\ AccountsTypeOK'
           /\ active' = act
           /\ store'.token = [store.token EXCEPT ![a] = freshToken]
<1>0. 0 \in Tokens
  BY AccountFacts DEF Tokens
<1>1. /\ Tokens \subseteq Tokens' /\ freshToken \in Tokens' /\ freshToken # 0
      /\ basis' \in Seq(Nat)
      /\ \A i \in 1..Len(basis') : basis'[i] \in 0..(i - 1)
  BY <1>0, BasisGrows
<1>2. store \in [order: Seq(Account), token: [Account -> Tokens], active: {None} \cup Account]
  BY DEF AccountsTypeOK
<1> DEFINE token == [store.token EXCEPT ![a] = freshToken]
           order == IF stored(a) THEN store.order ELSE Append(store.order, a)
<1>3. store' = [order |-> order, token |-> token, active |-> act]
  BY DEF upserted
<1>4. token \in [Account -> Tokens']
  BY <1>1, <1>2
<1>5. {b \in Account : token[b] # 0} = {b \in Account : stored(b) \/ b = a}
  BY <1>1, <1>2 DEF stored
<1>6. ListOK(order, {b \in Account : token[b] # 0})
  <2>1. CASE stored(a)
    <3>1. {b \in Account : stored(b) \/ b = a} = {b \in Account : stored(b)}
      BY <2>1
    <3> QED BY <2>1, <3>1, <1>5, ListNow
  <2>2. CASE ~stored(a)
    BY <2>2, <1>5, ListAppended
  <2> QED BY <2>1, <2>2
<1>7. act = None \/ (act \in Account /\ token[act] # 0)
  BY <1>5, AccountFacts
<1> HIDE DEF token, order
<1>8. AccountsTypeOK'
  BY <1>1, <1>3, <1>4, <1>6, <1>7, AccountsAgain
<1> QED BY <1>3, <1>8 DEF token, active

\* An account goes, and what its going is announced as.
LEMMA Removes ==
    ASSUME AccountsTypeOK, NEW a \in Account, stored(a), UNCHANGED basis,
           store' = accountRemoved(a), grant' \in [Account -> Tokens]
    PROVE  /\ AccountsTypeOK' /\ Tokens' = Tokens
           /\ store'.token = [store.token EXCEPT ![a] = 0]
           /\ active # a => active' = active /\ removalEvent(a) = "none"
           /\ active = a => \/ removalEvent(a) = "switched"
                            \/ removalEvent(a) = "cleared" /\ active' = None
           /\ removalEvent(a) \in {"none", "cleared", "switched"}
<1>1. store \in [order: Seq(Account), token: [Account -> Tokens], active: {None} \cup Account]
  BY DEF AccountsTypeOK
<1>2. Tokens' = Tokens /\ 0 \in Tokens
  BY AccountFacts DEF Tokens
<1> DEFINE token == [store.token EXCEPT ![a] = 0]
           order == orderWithout(a)
           act == IF store.active # a THEN store.active
                  ELSE IF order = <<>> THEN None ELSE Head(order)
<1>3. accountRemoved(a) = [order |-> order, token |-> token, active |-> act]
  BY DEF accountRemoved
<1>4. token \in [Account -> Tokens']
  BY <1>1, <1>2
<1>5. {b \in Account : token[b] # 0} = {b \in Account : stored(b) /\ b # a}
  BY <1>1 DEF stored
<1>6. ListOK(order, {b \in Account : token[b] # 0})
  BY <1>5, ListWithout
<1> HIDE DEF order
<1>7. act = None \/ (act \in Account /\ token[act] # 0)
  <2>1. CASE store.active # a
    BY <2>1, <1>5, AccountFacts DEF active
  <2>2. CASE store.active = a /\ order # <<>>
    <3>1. order \in Seq(Account) /\ Len(order) \in Nat /\ Len(order) > 0
      BY <2>2, <1>6 DEF ListOK
    <3>2. Head(order) = order[1] /\ 1 \in 1..Len(order)
      BY <3>1
    <3>3. order[1] \in range(order)
      BY <3>2 DEF range
    <3> QED BY <2>2, <3>2, <3>3, <1>6 DEF ListOK
  <2>3. CASE store.active = a /\ order = <<>>
    BY <2>3
  <2> QED BY <2>1, <2>2, <2>3
<1> HIDE DEF token
<1>8. basis' \in Seq(Nat) /\ \A t \in 1..Len(basis') : basis'[t] \in 0..(t - 1)
  BY DEF AccountsTypeOK
<1>9. active' = act /\ accountRemoved(a).active = act /\ store'.token = token
  BY <1>3 DEF active
<1>10. /\ active # a => act = active /\ removalEvent(a) = "none"
       /\ active = a => \/ removalEvent(a) = "switched"
                        \/ removalEvent(a) = "cleared" /\ act = None
       /\ removalEvent(a) \in {"none", "cleared", "switched"}
  BY <1>9 DEF removalEvent, active
<1> HIDE DEF act
<1>11. AccountsTypeOK'
  BY <1>2, <1>3, <1>4, <1>6, <1>7, <1>8, AccountsAgain
<1> QED BY <1>2, <1>9, <1>10, <1>11 DEF token

\* Another account is made active.
LEMMA Activates ==
    ASSUME AccountsTypeOK, NEW a \in Account, stored(a), UNCHANGED <<grant, basis>>,
           store' = [store EXCEPT !.active = a]
    PROVE  AccountsTypeOK' /\ Tokens' = Tokens /\ active' = a /\ store'.token = store.token
<1>1. store \in [order: Seq(Account), token: [Account -> Tokens], active: {None} \cup Account]
  BY DEF AccountsTypeOK
<1>2. Tokens' = Tokens
  BY DEF Tokens
<1>3. store' = [order |-> store.order, token |-> store.token, active |-> a]
  BY <1>1
<1>4. ListOK(store.order, {b \in Account : store.token[b] # 0})
  BY ListNow DEF stored
<1>5. a \in Account /\ store.token[a] # 0
  BY DEF stored
<1>6. grant' \in [Account -> Tokens'] /\ store.token \in [Account -> Tokens']
  BY <1>1, <1>2 DEF AccountsTypeOK
<1>7. basis' \in Seq(Nat) /\ \A t \in 1..Len(basis') : basis'[t] \in 0..(t - 1)
  BY DEF AccountsTypeOK
<1>8. AccountsTypeOK'
  BY <1>3, <1>4, <1>5, <1>6, <1>7, AccountsAgain
<1> QED BY <1>2, <1>3, <1>8 DEF active

-----------------------------------------------------------------------------
(* What a step does to the accounts, as an action.                         *)

\* A token that is replaced was the one the server answered, or a sign-in's.
TokensStep ==
    \A a \in Account :
        stored(a) /\ store'.token[a] \notin {0, store.token[a]} =>
            basis'[store'.token[a]] \in {0, store.token[a]}

\* An account that goes was refused or signed out of with the token it has.
LeavesStep ==
    \A a \in Account :
        SingleTab /\ gate'.at = gate.at /\ stored(a) /\ store'.token[a] = 0 =>
            store.token[a] \in condemned'

AccountsStep == TokensStep /\ LeavesStep

LEMMA AccountsUntouched ==
    ASSUME AccountsTypeOK, UNCHANGED accountVars
    PROVE  AccountsTypeOK' /\ Tokens' = Tokens /\ AccountsStep
<1>1. AccountsTypeOK' /\ Tokens' = Tokens
  BY DEF AccountsTypeOK, accountVars, Tokens, range
<1> QED BY <1>1 DEF AccountsStep, TokensStep, LeavesStep, stored, accountVars

(* The frames of the other parts of the invariant.                         *)

GateType == [at: {"idle", "running"}, using: {None} \cup (Account \ Vnu),
             creds: {None} \cup (Account \ Vnu), cool: BOOLEAN]

RemovalType == [at: {"idle", "revoking"}, token: Tokens, grant: Tokens,
                status: [state: State, generation: Nat], signOut: BOOLEAN]

LEMMA TypesGrow ==
    ASSUME Tokens \subseteq Tokens'
    PROVE  RequestState \subseteq RequestState' /\ RemovalType \subseteq RemovalType'
BY DEF RequestState, RemovalType, Live, State

\* No flight is new, or none is for an account without a token.
LEMMA ReconnectStays ==
    ASSUME ReconnectTypeOK, Tokens \subseteq Tokens',
           flights' \subseteq flights, suppressed' \subseteq Account,
           status' \in [Account -> [state: State, generation: Nat]], shown' \in State
    PROVE  ReconnectTypeOK'
BY DEF ReconnectTypeOK

LEMMA RequestStays ==
    ASSUME RequestTypeOK, Tokens \subseteq Tokens', UNCHANGED scenario,
           req' \in [Request -> RequestState'],
           \A r \in Request : req'[r].at = "waiting" => \E f \in flights' : r \in f.waiters,
           removal' \in [Account -> RemovalType'], gate' \in GateType,
           condemned' \subseteq Tokens', budget' \in [Budget -> Nat]
    PROVE  RequestTypeOK'
BY DEF RequestTypeOK, RemovalType, GateType

\* What the types say of requests, sign-outs, the gate and the budget.
LEMMA RequestFacts ==
    ASSUME RequestTypeOK
    PROVE  /\ scenario \in Scenario
           /\ req \in [Request -> RequestState]
           /\ \A r \in Request : req[r].at = "waiting" => \E f \in flights : r \in f.waiters
           /\ removal \in [Account -> RemovalType] /\ gate \in GateType
           /\ condemned \subseteq Tokens /\ budget \in [Budget -> Nat]
BY DEF RequestTypeOK, RemovalType, GateType

\* A request that is as it was, but for being aborted.
Continues(r) ==
    /\ req'[r].at = req[r].at /\ req'[r].origin = req[r].origin /\ req'[r].sent = req[r].sent

\* Every request is over, or as it was.
RequestsKeep == \A r \in Request : req'[r].at = "done" \/ Continues(r)

LEMMA RequestsSame ==
    ASSUME RequestsOK, Quiet, UNCHANGED scenario, RequestsKeep
    PROVE  RequestsOK'
BY DEF RequestsOK, RequestOK, RequestsKeep, Continues, Quiet

\* The waiters of the flights there still are wait on.
LEMMA FlightsSame ==
    ASSUME FlightsOK, flights' \subseteq flights,
           \A f \in flights' : /\ f.account \notin suppressed' \/ suppressed' \subseteq suppressed
                               /\ \A r \in f.waiters : Continues(r)
    PROVE  FlightsOK'
BY DEF FlightsOK, Continues

\* The page is as it was, or empty.
LEMMA PageSame ==
    ASSUME PageOK, UNCHANGED <<page, scenario>>, req'[Bulk].origin = req[Bulk].origin,
           SingleTab => active' = active
    PROVE  PageOK'
BY DEF PageOK, TargetsAccountedFor, targetsOf, ResultsOfActive, SingleTab

LEMMA PageEmpty ==
    ASSUME page' = EmptyPage
    PROVE  PageOK' /\ PageTypeOK'
<1>1. /\ page'.items = <<>> /\ page'.exported = <<>> /\ page'.pending = <<>> /\ page'.left = <<>>
      /\ page'.at = "idle" /\ page'.total = 0 /\ page'.model = NoModel
  BY DEF EmptyPage
<1>2. targetsOf(page'.items) \o <<>> = [i \in 1..page'.total |-> i]
  <2>1. targetsOf(page'.items) = <<>>
    BY <1>1 DEF targetsOf
  <2> QED BY <2>1, <1>1
<1>3. TargetsAccountedFor'
  BY <1>1, <1>2 DEF TargetsAccountedFor, targetsOf, NoModel
<1>4. ResultsOfActive'
  BY <1>1 DEF ResultsOfActive
<1>5. PageOK'
  BY <1>1, <1>3, <1>4 DEF PageOK
<1>6. PageTypeOK'
  <2>1. <<>> \in Seq(Item) /\ <<>> \in Seq(1..MaxTargets) /\ 0 \in 0..MaxTargets
    BY PageAssumption
  <2>2. EmptyPage \in [at: {"idle", "running"}, total: 0..MaxTargets,
              items: Seq(Item), exported: Seq(Item),
              pending: Seq(1..MaxTargets), left: Seq(1..MaxTargets),
              model: [status: {"none", "partial", "complete"}, count: Nat]]
    BY <2>1 DEF EmptyPage, NoModel
  <2> QED BY <2>2 DEF PageTypeOK
<1> QED BY <1>5, <1>6

\* Who waits for an answer waited for it before.
WaitsKeep == \A r \in Request : req'[r].at \in {"sent", "waiting"} => Continues(r)

LEMMA AloneTokensSame ==
    ASSUME AloneTokens, UNCHANGED scenario, WaitsKeep,
           Alone => \A a \in Vnu : store'.token[a] \in {0, store.token[a]}
    PROVE  AloneTokens'
BY DEF AloneTokens, Alone, SingleTab, WaitsKeep, Continues

LEMMA AloneRemovalsSame ==
    ASSUME AloneRemovals, UNCHANGED scenario,
           Alone => \A a \in Vnu :
               removal'[a].at = "revoking" =>
                   /\ removal'[a] = removal[a] /\ (a \in suppressed => a \in suppressed')
                   /\ a \in suppressed /\ store'.token[a] # 0 =>
                         /\ store'.token[a] = store.token[a]
                         /\ grant'[a] = grant[a] /\ status'[a] = status[a]
    PROVE  AloneRemovals'
BY DEF AloneRemovals, Alone, SingleTab, stored

\* The user is shown no more than before.
ShowsNoMore ==
    shown' = "reconnecting" /\ active' # None => shown = "reconnecting" /\ active' = active

LEMMA AloneShownSame ==
    ASSUME AloneShown, UNCHANGED scenario, ShowsNoMore,
           Alone /\ shown' = "reconnecting" /\ active' # None => status'[active] = status[active]
    PROVE  AloneShown'
BY DEF AloneShown, Alone, SingleTab, ShowsNoMore

LEMMA AloneSame ==
    ASSUME ReconnectingIsTrueAlone, UNCHANGED scenario, ShowsNoMore,
           Alone /\ shown' = "reconnecting" /\ active' # None =>
               /\ removal[active].at = "revoking" => removal'[active].at = "revoking"
               /\ \A f \in flights :
                     f.account = active => \E h \in flights' : h.account = active
    PROVE  ReconnectingIsTrueAlone'
BY DEF ReconnectingIsTrueAlone, ReconnectingIsTrue, Alone, SingleTab, ShowsNoMore

LEMMA GrantsSame ==
    ASSUME GrantMatchesToken, UNCHANGED scenario,
           SingleTab => \A a \in Vnu : store'.token[a] # 0 =>
               \/ grant'[a] = grant[a] /\ store'.token[a] = store.token[a]
               \/ grant'[a] \in {0, store'.token[a]}
    PROVE  GrantMatchesToken'
BY DEF GrantMatchesToken, SingleTab, stored

Heard == {"none", "ok", "error", "stale", "restored", "cancelled"}

\* A request that is over; the others are as they were.
LEMMA Ended ==
    ASSUME req \in [Request -> RequestState], NEW r \in Request, NEW heard \in Heard
    PROVE  /\ ended(r, heard) \in [Request -> RequestState]
           /\ ended(r, heard)[r].at = "done"
           /\ \A q \in Request : /\ ended(r, heard)[q].origin = req[q].origin
                                 /\ ended(r, heard)[q].sent = req[q].sent
                                 /\ q # r => ended(r, heard)[q] = req[q]
<1>1. req[r] \in RequestState
  OBVIOUS
<1>2. [req[r] EXCEPT !.at = "done", !.heard = heard, !.aborted = FALSE] \in RequestState
  BY <1>1 DEF RequestState, Heard
<1> QED BY <1>1, <1>2 DEF ended, RequestState

\* What the tab does when it hears of a change of its accounts.
LEMMA Hears ==
    ASSUME NEW event \in {"none", "cleared", "switched", "left"},
           NEW requests \in [Request -> RequestState], NEW newGate \in GateType,
           hears(event, requests, newGate), shown \in State
    PROVE  /\ page' = IF event = "none" THEN page ELSE EmptyPage
           /\ req' \in [Request -> RequestState]
           /\ \A r \in Request :
                 /\ req'[r].at = requests[r].at /\ req'[r].origin = requests[r].origin
                 /\ req'[r].sent = requests[r].sent /\ req'[r].heard = requests[r].heard
           /\ shown' \in State
           /\ shown' = "reconnecting" => shown = "reconnecting" /\ event # "switched"
           /\ gate' \in GateType /\ gate'.using = newGate.using
           /\ gate'.at \in {newGate.at, "idle"}
           /\ event = "none" => gate' = newGate
<1>1. Bulk \in Request
  BY RequestAssumption
<1>2. requests[Bulk] \in RequestState
  BY <1>1
<1>3. [requests[Bulk] EXCEPT !.aborted = TRUE] \in RequestState
  BY <1>2 DEF RequestState
<1>4. /\ req' \in [Request -> RequestState]
      /\ \A r \in Request :
                 /\ req'[r].at = requests[r].at /\ req'[r].origin = requests[r].origin
                 /\ req'[r].sent = requests[r].sent /\ req'[r].heard = requests[r].heard
  <2>1. CASE req' = requests
    BY <2>1
  <2>2. CASE req' = [requests EXCEPT ![Bulk].aborted = TRUE]
    BY <2>2, <1>1, <1>2, <1>3 DEF RequestState
  <2> QED BY <2>1, <2>2 DEF hears, requestsAfter
<1>5. gate' \in GateType /\ gate'.using = newGate.using /\ gate'.at \in {newGate.at, "idle"}
  BY DEF hears, GateType
<1> QED BY <1>4, <1>5 DEF hears, pageAfter, State

\* An account goes: nobody is told of its reconnection, and the page is empty
\* when it was the active one.
LEMMA AccountGoes ==
    ASSUME IInv, NEW a \in Account, stored(a), UNCHANGED <<basis, scenario>>,
           store' = accountRemoved(a), grant' \in [Account -> Tokens],
           NEW requests \in [Request -> RequestState], NEW newGate \in GateType,
           hears(removalEvent(a), requests, newGate),
           newGate.at = "running" => newGate.using # None,
           \A r \in Request :
               requests[r].at \in {"sent", "waiting"} =>
                   /\ requests[r].at = req[r].at
                   /\ requests[r].origin = req[r].origin /\ requests[r].sent = req[r].sent,
           requests[Bulk].origin = req[Bulk].origin,
           \A f \in flights : f.account # a => f \in flights',
           \A b \in Account \ {a} :
               /\ grant'[b] = grant[b] /\ status'[b] = status[b] /\ removal'[b] = removal[b],
           \A b \in Account :
               removal'[b].at = "revoking" =>
                   removal'[b] = removal[b] /\ (b \in suppressed => b \in suppressed')
    PROVE  /\ AccountsTypeOK' /\ Tokens' = Tokens /\ TokensStep
           /\ GrantMatchesToken'
           /\ PageOK' /\ PageTypeOK'
           /\ AloneOK' /\ ReconnectingIsTrueAlone'
           /\ GateOK' /\ gate' \in GateType /\ gate'.at \in {newGate.at, "idle"}
           /\ shown' \in State
           /\ req' \in [Request -> RequestState]
           /\ \A r \in Request :
                 /\ req'[r].at = requests[r].at /\ req'[r].origin = requests[r].origin
                 /\ req'[r].sent = requests[r].sent /\ req'[r].heard = requests[r].heard
           /\ store'.token = [store.token EXCEPT ![a] = 0]
<1> DEFINE event == removalEvent(a)
<1>1. AccountsTypeOK /\ PageTypeOK /\ shown \in State /\ store.token \in [Account -> Tokens]
  BY DEF IInv, TypeOK, ReconnectTypeOK, AccountsTypeOK
<1>2. /\ AccountsTypeOK' /\ Tokens' = Tokens
      /\ store'.token = [store.token EXCEPT ![a] = 0]
      /\ active # a => active' = active /\ event = "none"
      /\ active = a => \/ event = "switched"
                       \/ event = "cleared" /\ active' = None
      /\ event \in {"none", "cleared", "switched", "left"}
  BY <1>1, Removes
<1> HIDE DEF event
<1>3. hears(event, requests, newGate)
  BY DEF event
<1>4. /\ page' = IF event = "none" THEN page ELSE EmptyPage
      /\ req' \in [Request -> RequestState]
      /\ \A r \in Request :
            /\ req'[r].at = requests[r].at /\ req'[r].origin = requests[r].origin
            /\ req'[r].sent = requests[r].sent /\ req'[r].heard = requests[r].heard
      /\ shown' \in State
      /\ shown' = "reconnecting" => shown = "reconnecting" /\ event # "switched"
      /\ gate' \in GateType /\ gate'.using = newGate.using
      /\ gate'.at \in {newGate.at, "idle"}
  BY <1>1, <1>2, <1>3, Hears
<1>5. \A b \in Account : store'.token[b] = IF b = a THEN 0 ELSE store.token[b]
  BY <1>1, <1>2
<1>6. Vnu \subseteq Account /\ Bulk \in Request
  BY AccountAssumption, RequestAssumption
<1>7. TokensStep
  BY <1>5 DEF TokensStep
<1>8. GrantMatchesToken'
  BY <1>5, <1>6, GrantsSame DEF IInv
<1>9. PageOK' /\ PageTypeOK'
  <2>1. CASE event = "none"
    <3>1. page' = page /\ active' = active /\ req'[Bulk].origin = req[Bulk].origin
      BY <2>1, <1>2, <1>4, <1>6
    <3>2. PageTypeOK'
      BY <3>1, <1>1 DEF PageTypeOK
    <3> QED BY <3>1, <3>2, PageSame DEF IInv
  <2>2. CASE event # "none"
    BY <2>2, <1>4, PageEmpty
  <2> QED BY <2>1, <2>2
<1>10. AloneTokens'
  <2>1. WaitsKeep
    BY <1>4 DEF WaitsKeep, Continues
  <2> QED BY <2>1, <1>5, <1>6, AloneTokensSame DEF IInv, AloneOK
<1>11. AloneRemovals'
  BY <1>5, <1>6, AloneRemovalsSame DEF IInv, AloneOK
<1>12. ShowsNoMore /\ (shown' = "reconnecting" /\ active' # None => active # a)
  BY <1>2, <1>4 DEF ShowsNoMore
<1>13. active \in {None} \cup Account
  BY <1>1, AccountFacts
<1>14. AloneShown'
  BY <1>12, <1>13, AloneShownSame DEF IInv, AloneOK, ShowsNoMore
<1>15. ReconnectingIsTrueAlone'
  <2>1. shown' = "reconnecting" /\ active' # None =>
            /\ removal'[active] = removal[active]
            /\ \A f \in flights : f.account = active => f \in flights'
    BY <1>12, <1>13 DEF ShowsNoMore
  <2> QED BY <2>1, <1>12, AloneSame DEF IInv
<1>16. GateOK'
  BY <1>4 DEF GateOK
<1> QED
  BY <1>2, <1>4, <1>7, <1>8, <1>9, <1>10, <1>11, <1>14, <1>15, <1>16 DEF AloneOK

LEMMA BudgetKept ==
    ASSUME BudgetOK, budget \in [Budget -> Nat], UNCHANGED scenario,
           budget' = budget \/ \E what \in Budget : spend(what)
    PROVE  BudgetOK' /\ budget' \in [Budget -> Nat]
<1>1. CASE budget' = budget
  BY <1>1 DEF BudgetOK, SingleTab
<1>2. CASE \E what \in Budget : spend(what)
  <2>1. PICK what \in Budget : spend(what)
    BY <1>2
  <2>2. /\ budget' \in [Budget -> Nat]
        /\ \A w \in Budget : budget[w] = 0 => budget'[w] = 0
    BY <2>1 DEF spend
  <2> QED BY <2>2 DEF BudgetOK, SingleTab, Budget
<1> QED BY <1>1, <1>2

\* A step of the requests, the gate and the budget, which leaves the accounts,
\* the reconnections and the sign-outs alone.
LEMMA OnlyRequests ==
    ASSUME IInv, UNCHANGED <<accountVars, reconnectVars, scenario, removal>>,
           PageOK' /\ PageTypeOK',
           req' \in [Request -> RequestState], RequestsOK',
           \A r \in Request : req[r].at = "waiting" \/ req'[r].at = "waiting" => Continues(r),
           \A r \in Request : req'[r].at = "sent" =>
               Continues(r) \/ store.token[req'[r].origin.account] \in {0, req'[r].origin.token},
           gate' \in GateType, GateOK',
           condemned \subseteq condemned', condemned' \subseteq Tokens,
           budget' = budget \/ \E what \in Budget : spend(what)
    PROVE  IInv' /\ AccountsStep
<1>1. /\ AccountsTypeOK /\ ReconnectTypeOK /\ RequestTypeOK
      /\ FlightsOK /\ RemovalsOK /\ BudgetOK /\ GrantMatchesToken
      /\ AloneTokens /\ AloneRemovals /\ AloneShown /\ ReconnectingIsTrueAlone
  BY DEF IInv, TypeOK, AloneOK
<1>2. AccountsTypeOK' /\ Tokens' = Tokens /\ AccountsStep
  BY <1>1, AccountsUntouched
<1>3. UNCHANGED <<store, grant, flights, suppressed, status, shown, removal, scenario>>
  BY DEF accountVars, reconnectVars
<1>4. RequestState' = RequestState /\ RemovalType' = RemovalType
  BY <1>2, TypesGrow DEF RequestState, RemovalType
<1>5. ReconnectTypeOK'
  BY <1>1, <1>2, <1>3, ReconnectStays DEF ReconnectTypeOK
<1>6. BudgetOK' /\ budget' \in [Budget -> Nat]
  BY <1>1, <1>3, RequestFacts, BudgetKept
<1>7. RequestTypeOK'
  BY <1>1, <1>2, <1>3, <1>4, <1>6, RequestFacts, RequestStays DEF Continues
<1>8. FlightsOK'
  <2>1. \A f \in flights : \A r \in f.waiters : r \in Request /\ req[r].at = "waiting"
    BY <1>1 DEF FlightsOK, ReconnectTypeOK
  <2>2. \A f \in flights : \A r \in f.waiters : Continues(r)
    BY <2>1
  <2> QED BY <2>2, <1>1, <1>3, FlightsSame
<1>9. RemovalsOK'
  BY <1>1, <1>3 DEF RemovalsOK
<1>10. GrantMatchesToken'
  BY <1>1, <1>3 DEF GrantMatchesToken, SingleTab, stored
<1>11. AloneTokens'
  BY <1>1, <1>3 DEF AloneTokens, Alone, SingleTab, Continues
<1>12. AloneRemovals' /\ AloneShown' /\ ReconnectingIsTrueAlone'
  BY <1>1, <1>3 DEF AloneRemovals, AloneShown, ReconnectingIsTrueAlone, ReconnectingIsTrue,
                    Alone, SingleTab, stored, active
<1> QED
  BY <1>2, <1>5, <1>6, <1>7, <1>8, <1>9, <1>10, <1>11, <1>12 DEF IInv, TypeOK, AloneOK

-----------------------------------------------------------------------------
(* The requests.                                                           *)

\* A request that is sent for the account that is active.
LEMMA Asked ==
    ASSUME AccountsTypeOK, active # None, NEW policy \in {"safe", "manual", "never"}
    PROVE  /\ asked(active, policy) \in RequestState
           /\ asked(active, policy).at = "sent"
           /\ asked(active, policy).origin = [account |-> active, token |-> store.token[active]]
           /\ asked(active, policy).sent = store.token[active]
           /\ store.token[active] # 0 /\ active \in Account
<1>1. active \in Account /\ stored(active) /\ store.token[active] \in Tokens
  BY AccountFacts
<1> DEFINE new == asked(active, policy)
           from == [account |-> active, token |-> store.token[active]]
<1>2. /\ new.at = "sent" /\ new.origin = from /\ new.sent = store.token[active]
  BY DEF asked, NoRequest, origin
<1>3. new \in RequestState
  <2>1. from \in [account: {None} \cup Account, token: Tokens]
    BY <1>1
  <2>2. NoRequest \in RequestState
    BY <1>1 DEF NoRequest, RequestState, Live, Tokens
  <2>3. new = [NoRequest EXCEPT !.at = "sent", !.origin = from, !.sent = store.token[active],
                                !.policy = policy]
    BY DEF asked, origin
  <2> QED BY <1>1, <2>1, <2>2, <2>3 DEF RequestState, Live
<1> QED BY <1>1, <1>2, <1>3 DEF stored

LEMMA AskKeeps ==
    ASSUME IInv, NEW r \in Request, NEW policy \in {"safe", "manual", "never"}, Ask(r, policy)
    PROVE  IInv' /\ AccountsStep
<1> DEFINE new == asked(active, policyOf(active, policy))
<1>1. /\ AccountsTypeOK /\ RequestTypeOK /\ PageOK /\ PageTypeOK /\ RequestsOK
      /\ req \in [Request -> RequestState] /\ gate \in GateType /\ GateOK
      /\ condemned \subseteq Tokens
  BY RequestFacts DEF IInv, TypeOK
<1>2. /\ Quiet /\ r \in scenario.requests /\ r # Bulk /\ req[r].at = "done" /\ active # None
      /\ spend("asks") /\ req' = [req EXCEPT ![r] = new]
      /\ UNCHANGED <<accountVars, reconnectVars, page, scenario, removal, gate, condemned>>
  BY DEF Ask
<1>3. policyOf(active, policy) \in {"safe", "manual", "never"}
  BY DEF policyOf
<1>4. /\ new \in RequestState /\ new.at = "sent"
      /\ new.origin = [account |-> active, token |-> store.token[active]]
      /\ new.sent = store.token[active]
      /\ store.token[active] # 0 /\ active \in Account
  BY <1>1, <1>2, <1>3, Asked
<1> HIDE DEF new
<1>5. req' \in [Request -> RequestState] /\ req'[r] = new
      /\ \A q \in Request : q # r => req'[q] = req[q]
  BY <1>1, <1>2, <1>4
<1>6. PageOK' /\ PageTypeOK'
  <2>1. active' = active /\ req'[Bulk].origin = req[Bulk].origin
    BY <1>2, <1>5, RequestAssumption DEF accountVars, active
  <2> QED BY <1>1, <1>2, <2>1, PageSame DEF PageTypeOK
<1>7. RequestsOK'
  BY <1>1, <1>2, <1>4, <1>5 DEF RequestsOK, RequestOK, Quiet
<1>8. \A q \in Request : req[q].at = "waiting" \/ req'[q].at = "waiting" => Continues(q)
  BY <1>2, <1>4, <1>5 DEF Continues
<1>9. \A q \in Request : req'[q].at = "sent" =>
          Continues(q) \/ store.token[req'[q].origin.account] \in {0, req'[q].origin.token}
  BY <1>4, <1>5 DEF Continues
<1>10. gate' \in GateType /\ GateOK' /\ condemned' = condemned /\ "asks" \in Budget
  BY <1>1, <1>2 DEF GateOK, Budget
<1> QED BY <1>1, <1>2, <1>5, <1>6, <1>7, <1>8, <1>9, <1>10, OnlyRequests

\* A request ends, and nothing comes of it.
LEMMA RequestEnds ==
    ASSUME IInv, NEW r \in Request, req[r].at \in {"sent", "resumed"}, NEW heard \in Heard,
           req' = ended(r, heard),
           UNCHANGED <<accountVars, reconnectVars, page, scenario, removal>>,
           gate' \in GateType, GateOK',
           condemned \subseteq condemned', condemned' \subseteq Tokens, budget' = budget
    PROVE  IInv' /\ AccountsStep
<1>1. /\ PageOK /\ PageTypeOK /\ RequestsOK /\ RequestTypeOK /\ req \in [Request -> RequestState]
  BY RequestFacts DEF IInv, TypeOK
<1>2. /\ req' \in [Request -> RequestState]
      /\ req'[r].at = "done"
      /\ \A q \in Request : req'[q].origin = req[q].origin /\ req'[q].sent = req[q].sent
      /\ \A q \in Request : q # r => req'[q] = req[q]
  BY <1>1, Ended
<1>3. PageOK' /\ PageTypeOK'
  <2>1. active' = active /\ req'[Bulk].origin = req[Bulk].origin
    BY <1>2, RequestAssumption DEF accountVars, active
  <2> QED BY <1>1, <1>2, <2>1, PageSame DEF PageTypeOK
<1>4. RequestsOK'
  BY <1>1, <1>2 DEF RequestsOK, RequestOK, accountVars, active
<1>5. \A q \in Request : req[q].at = "waiting" \/ req'[q].at = "waiting" => Continues(q)
  BY <1>2 DEF Continues
<1>6. \A q \in Request : req'[q].at = "sent" => Continues(q)
  BY <1>2 DEF Continues
<1> QED BY <1>2, <1>3, <1>4, <1>5, <1>6, OnlyRequests

LEMMA CancelKeeps ==
    ASSUME IInv, NEW r \in Request, Cancel(r)
    PROVE  IInv' /\ AccountsStep
<1>1. /\ RequestTypeOK /\ PageOK /\ PageTypeOK /\ RequestsOK
      /\ req \in [Request -> RequestState] /\ gate \in GateType /\ GateOK
      /\ condemned \subseteq Tokens
  BY RequestFacts DEF IInv, TypeOK
<1>2. /\ req' = [req EXCEPT ![r].aborted = TRUE] /\ spend("cancels")
      /\ UNCHANGED <<accountVars, reconnectVars, page, scenario, removal, gate, condemned>>
  BY DEF Cancel
<1>3. req' \in [Request -> RequestState]
  <2>1. [req[r] EXCEPT !.aborted = TRUE] \in RequestState
    BY <1>1 DEF RequestState
  <2> QED BY <2>1, <1>1, <1>2
<1>4. \A q \in Request : Continues(q) /\ req'[q].heard = req[q].heard
  <2>1. req[r] \in RequestState
    BY <1>1
  <2>2. [req[r] EXCEPT !.aborted = TRUE].at = req[r].at
        /\ [req[r] EXCEPT !.aborted = TRUE].origin = req[r].origin
        /\ [req[r] EXCEPT !.aborted = TRUE].sent = req[r].sent
        /\ [req[r] EXCEPT !.aborted = TRUE].heard = req[r].heard
    BY <2>1 DEF RequestState
  <2> QED BY <2>2, <1>1, <1>2 DEF Continues
<1>5. PageOK' /\ PageTypeOK'
  <2>1. active' = active /\ req'[Bulk].origin = req[Bulk].origin
    BY <1>2, <1>4, RequestAssumption DEF accountVars, active, Continues
  <2> QED BY <1>1, <1>2, <2>1, PageSame DEF PageTypeOK
<1>6. RequestsOK'
  BY <1>1, <1>2, <1>4 DEF RequestsOK, RequestOK, accountVars, active, Continues
<1>7. gate' \in GateType /\ GateOK' /\ condemned' = condemned /\ "cancels" \in Budget
  BY <1>1, <1>2 DEF GateOK, Budget
<1> QED BY <1>1, <1>2, <1>3, <1>4, <1>5, <1>6, <1>7, OnlyRequests

LEMMA CooldownKeeps ==
    ASSUME IInv, CooldownEnds
    PROVE  IInv' /\ AccountsStep
<1>1. /\ RequestTypeOK /\ PageOK /\ PageTypeOK /\ RequestsOK
      /\ req \in [Request -> RequestState] /\ gate \in GateType /\ GateOK
      /\ condemned \subseteq Tokens
  BY RequestFacts DEF IInv, TypeOK
<1>2. /\ gate' = [gate EXCEPT !.cool = FALSE]
      /\ UNCHANGED <<accountVars, reconnectVars, page, scenario, req, removal, condemned, budget>>
  BY DEF CooldownEnds
<1>3. gate' \in GateType /\ GateOK'
  BY <1>1, <1>2 DEF GateOK, GateType
<1>4. PageOK' /\ PageTypeOK'
  BY <1>1, <1>2, PageSame DEF PageTypeOK, accountVars, active
<1>5. RequestsOK'
  BY <1>1, <1>2 DEF RequestsOK, RequestOK, accountVars, active
<1>6. \A q \in Request : Continues(q)
  BY <1>2 DEF Continues
<1> QED BY <1>1, <1>2, <1>3, <1>4, <1>5, <1>6, OnlyRequests

\* The request goes on after a reconnection.
LEMMA ResumeKeeps ==
    ASSUME IInv, NEW r \in Request, Resume(r)
    PROVE  IInv' /\ AccountsStep
<1>1. /\ AccountsTypeOK /\ RequestTypeOK /\ PageOK /\ PageTypeOK /\ RequestsOK
      /\ req \in [Request -> RequestState] /\ gate \in GateType /\ GateOK
      /\ condemned \subseteq Tokens
  BY RequestFacts DEF IInv, TypeOK
<1>2. /\ req[r].at = "resumed"
      /\ UNCHANGED <<accountVars, reconnectVars, page, scenario, removal, gate, condemned, budget>>
  BY DEF Resume
<1>3. gate' \in GateType /\ GateOK'
  BY <1>1, <1>2 DEF GateOK
<1>4. CASE \E heard \in Heard : req' = ended(r, heard)
  BY <1>1, <1>2, <1>3, <1>4, RequestEnds
<1>5. CASE /\ req[r].heard = "ok"
           /\ req' = [req EXCEPT ![r] =
                [asked(active, "safe") EXCEPT !.sent = req[r].sent, !.replay = TRUE]]
  <2> DEFINE again == asked(active, "safe")
             new == [again EXCEPT !.sent = req[r].sent, !.replay = TRUE]
  <2>1. active # None /\ store.token[active] = req[r].sent /\ r \in scenario.requests
    BY <1>1, <1>2, <1>5 DEF RequestsOK, RequestOK
  <2>2. /\ again \in RequestState /\ again.at = "sent"
        /\ again.origin = [account |-> active, token |-> store.token[active]]
        /\ again.sent = store.token[active]
        /\ store.token[active] # 0 /\ active \in Account
    BY <1>1, <2>1, Asked
  <2> HIDE DEF again
  <2>3. req[r].sent \in Tokens
    BY <1>1 DEF RequestState
  <2>4. /\ new \in RequestState /\ new.at = "sent"
        /\ new.origin = [account |-> active, token |-> store.token[active]]
        /\ new.sent = store.token[active]
    BY <2>1, <2>2, <2>3 DEF RequestState
  <2>5. req' = [req EXCEPT ![r] = new]
    BY <1>5 DEF again
  <2> HIDE DEF new
  <2>6. req' \in [Request -> RequestState] /\ req'[r] = new
        /\ \A q \in Request : q # r => req'[q] = req[q]
    BY <1>1, <2>4, <2>5
  <2>7. PageOK' /\ PageTypeOK'
    <3>1. CASE r # Bulk
      <4>1. active' = active /\ req'[Bulk].origin = req[Bulk].origin
        BY <1>2, <2>6, <3>1, RequestAssumption DEF accountVars, active
      <4> QED BY <1>1, <1>2, <4>1, PageSame DEF PageTypeOK
    <3>2. CASE r = Bulk
      <4>1. req'[Bulk].origin.account = active /\ active' = active
        BY <1>2, <2>4, <2>6, <3>2 DEF accountVars, active
      <4>2. TargetsAccountedFor' /\ ResultsOfActive'
        BY <1>1, <1>2, <4>1 DEF PageOK, TargetsAccountedFor, targetsOf, ResultsOfActive, SingleTab
      <4> QED BY <1>1, <1>2, <2>2, <4>1, <4>2 DEF PageOK, PageTypeOK
    <3> QED BY <3>1, <3>2
  <2>8. RequestsOK'
    BY <1>1, <1>2, <2>1, <2>2, <2>4, <2>6 DEF RequestsOK, RequestOK, accountVars, active
  <2>9. \A q \in Request : req[q].at = "waiting" \/ req'[q].at = "waiting" => Continues(q)
    BY <1>2, <2>4, <2>6 DEF Continues
  <2>10. \A q \in Request : req'[q].at = "sent" =>
            Continues(q) \/ store.token[req'[q].origin.account] \in {0, req'[q].origin.token}
    BY <2>4, <2>6 DEF Continues
  <2> QED BY <1>1, <1>2, <1>3, <2>6, <2>7, <2>8, <2>9, <2>10, OnlyRequests
<1>6. req[r].heard \in Heard
  BY <1>1 DEF RequestState, Heard
<1> QED BY <1>4, <1>5, <1>6 DEF Resume, Heard

\* A token is issued that nobody stores.
LEMMA IssuedOnly ==
    ASSUME AccountsTypeOK, NEW t \in Tokens, issue(t), UNCHANGED <<store, grant>>
    PROVE  AccountsTypeOK' /\ active' = active
<1>1. /\ Tokens \subseteq Tokens' /\ basis' \in Seq(Nat)
      /\ \A i \in 1..Len(basis') : basis'[i] \in 0..(i - 1)
  BY BasisGrows
<1>2. /\ store \in [order: Seq(Account), token: [Account -> Tokens], active: {None} \cup Account]
      /\ grant \in [Account -> Tokens]
  BY DEF AccountsTypeOK
<1>3. store.token \in [Account -> Tokens'] /\ grant' \in [Account -> Tokens']
  BY <1>1, <1>2
<1>4. store' = [order |-> store.order, token |-> store.token, active |-> store.active]
  BY <1>2
<1>5. ListOK(store.order, {a \in Account : store.token[a] # 0})
  BY ListNow DEF stored
<1>6. store.active = None \/ (store.active \in Account /\ store.token[store.active] # 0)
  BY AccountFacts DEF active, stored
<1>7. AccountsTypeOK'
  BY <1>1, <1>3, <1>4, <1>5, <1>6, AccountsAgain
<1> QED BY <1>7 DEF active

\* The answer renews the session of a UET account, or comes too late to.
LEMMA Renewed ==
    ASSUME IInv, NEW r \in Request, Sent(r), o(r).account \notin Vnu,
           issue(req[r].sent),
           store' = IF unchanged(o(r)) THEN rotated(o(r).account, freshToken) ELSE store,
           req' = ended(r, "ok"),
           UNCHANGED <<grant, reconnectVars, page, scenario, removal, gate, budget, condemned>>
    PROVE  IInv' /\ AccountsStep
<1> DEFINE a == o(r).account
           t == req[r].sent
<1>1. /\ AccountsTypeOK /\ ReconnectTypeOK /\ RequestTypeOK /\ PageOK /\ PageTypeOK
      /\ RequestsOK /\ FlightsOK /\ RemovalsOK /\ GateOK /\ BudgetOK /\ GrantMatchesToken
      /\ AloneTokens /\ AloneRemovals /\ AloneShown /\ ReconnectingIsTrueAlone
      /\ grant \in [Account -> Tokens] /\ store.token \in [Account -> Tokens]
  BY DEF IInv, TypeOK, AloneOK, AccountsTypeOK
<1>2. /\ req \in [Request -> RequestState] /\ removal \in [Account -> RemovalType]
      /\ gate \in GateType /\ condemned \subseteq Tokens /\ budget \in [Budget -> Nat]
      /\ \A q \in Request : req[q].at = "waiting" => \E f \in flights : q \in f.waiters
  BY <1>1, RequestFacts
<1>3. Quiet /\ req[r].at = "sent"
  BY DEF Sent
<1>4. a \in Account /\ t \in Tokens /\ t = o(r).token
  BY <1>1, <1>2, <1>3 DEF RequestsOK, RequestOK, RequestState, o
<1>5. /\ Tokens \subseteq Tokens' /\ freshToken \in Tokens' /\ freshToken # 0
      /\ basis'[freshToken] = t
  BY <1>1, <1>4, BasisGrows
<1>6. grant' \in [Account -> Tokens']
  BY <1>1, <1>5
<1>7. /\ AccountsTypeOK' /\ active' = active
      /\ \/ store' = store
         \/ /\ store'.token = [store.token EXCEPT ![a] = freshToken]
            /\ stored(a) /\ store.token[a] = t
  <2>1. CASE unchanged(o(r))
    <3>1. stored(a) /\ store.token[a] = t
      BY <2>1, <1>4 DEF unchanged
    <3> QED BY <2>1, <3>1, <1>1, <1>4, <1>6, Rotates
  <2>2. CASE ~unchanged(o(r))
    BY <2>2, <1>1, <1>4, IssuedOnly
  <2> QED BY <2>1, <2>2
<1>8. /\ \A b \in Account : store'.token[b] = store.token[b] \/ b = a
      /\ store'.token[a] \in {store.token[a], freshToken}
  BY <1>1, <1>4, <1>7
<1>9. AccountsStep
  <2>1. TokensStep
    BY <1>5, <1>7, <1>8 DEF TokensStep
  <2>2. LeavesStep
    BY <1>5, <1>8 DEF LeavesStep, stored
  <2> QED BY <2>1, <2>2 DEF AccountsStep
<1>10. /\ req' \in [Request -> RequestState]
       /\ req'[r].at = "done"
       /\ \A q \in Request : req'[q].origin = req[q].origin /\ req'[q].sent = req[q].sent
       /\ \A q \in Request : q # r => req'[q] = req[q]
  BY <1>2, Ended DEF Heard
<1>11. RequestsKeep /\ WaitsKeep /\ UNCHANGED <<flights, suppressed, status, shown>>
  BY <1>10 DEF RequestsKeep, WaitsKeep, Continues, reconnectVars
<1>12. ReconnectTypeOK'
  BY <1>1, <1>5, <1>11, ReconnectStays DEF ReconnectTypeOK
<1>13. RequestTypeOK'
  <2>1. req' \in [Request -> RequestState'] /\ removal' \in [Account -> RemovalType']
    BY <1>2, <1>5, <1>10, TypesGrow
  <2>2. \A q \in Request : req'[q].at = "waiting" => \E f \in flights' : q \in f.waiters
    BY <1>2, <1>10, <1>11
  <2> QED BY <1>1, <1>2, <1>5, <2>1, <2>2, RequestStays
<1>14. PageOK' /\ PageTypeOK'
  <2>1. req'[Bulk].origin = req[Bulk].origin
    BY <1>10, RequestAssumption
  <2> QED BY <1>1, <1>7, <2>1, PageSame DEF PageTypeOK
<1>15. FlightsOK'
  <2>1. \A f \in flights : \A q \in f.waiters : q \in Request /\ req[q].at = "waiting"
    BY <1>1 DEF FlightsOK, ReconnectTypeOK
  <2>2. \A f \in flights : \A q \in f.waiters : Continues(q)
    BY <2>1, <1>3, <1>10 DEF Continues
  <2> QED BY <2>2, <1>1, <1>11, FlightsSame
<1>16. RequestsOK'
  BY <1>1, <1>3, <1>11, RequestsSame
<1>17. RemovalsOK' /\ GateOK' /\ BudgetOK'
  BY <1>1 DEF RemovalsOK, GateOK, BudgetOK, SingleTab
<1>18. \A b \in Vnu : store'.token[b] = store.token[b]
  BY <1>8, AccountAssumption
<1>19. GrantMatchesToken' /\ AloneTokens'
  BY <1>1, <1>11, <1>18, GrantsSame, AloneTokensSame
<1>20. AloneRemovals' /\ AloneShown' /\ ReconnectingIsTrueAlone'
  <2>1. ShowsNoMore
    BY <1>7, <1>11 DEF ShowsNoMore
  <2> QED BY <2>1, <1>1, <1>11, <1>18, AloneRemovalsSame, AloneShownSame, AloneSame
<1> QED
  BY <1>7, <1>9, <1>12, <1>13, <1>14, <1>15, <1>16, <1>17, <1>19, <1>20 DEF IInv, TypeOK, AloneOK

LEMMA AnsweredOkKeeps ==
    ASSUME IInv, NEW r \in Request, AnsweredOk(r)
    PROVE  IInv' /\ AccountsStep
<1>1. Sent(r) /\ UNCHANGED condemned /\ req[r].at = "sent"
  BY DEF AnsweredOk, Sent
<1>2. CASE endsOnly(r, "ok")
  <2>1. gate \in GateType /\ GateOK /\ condemned \subseteq Tokens
    BY RequestFacts DEF IInv, TypeOK
  <2> QED BY <1>1, <1>2, <2>1, RequestEnds DEF endsOnly, Heard, GateOK
<1>3. CASE ~endsOnly(r, "ok")
  BY <1>1, <1>3, Renewed DEF AnsweredOk
<1> QED BY <1>2, <1>3

LEMMA AnsweredErrorKeeps ==
    ASSUME IInv, NEW r \in Request, AnsweredError(r)
    PROVE  IInv' /\ AccountsStep
<1>1. gate \in GateType /\ GateOK /\ condemned \subseteq Tokens
  BY RequestFacts DEF IInv, TypeOK
<1> QED BY <1>1, RequestEnds DEF AnsweredError, Sent, endsOnly, Heard, GateOK

\* The account of the request is removed.
LEMMA RemovedWithRequest ==
    ASSUME IInv, NEW r \in Request, Sent(r), NEW a \in Account, stored(a), removesAndEnds(a, r),
           condemned \subseteq condemned', condemned' \subseteq Tokens,
           store.token[a] \in condemned'
    PROVE  IInv' /\ AccountsStep
<1>1. /\ AccountsTypeOK /\ ReconnectTypeOK /\ RequestTypeOK /\ RequestsOK /\ FlightsOK
      /\ RemovalsOK /\ GateOK /\ BudgetOK
      /\ grant \in [Account -> Tokens] /\ store.token \in [Account -> Tokens]
  BY DEF IInv, TypeOK, AccountsTypeOK
<1>2. /\ req \in [Request -> RequestState] /\ removal \in [Account -> RemovalType]
      /\ gate \in GateType /\ budget \in [Budget -> Nat]
      /\ \A q \in Request : req[q].at = "waiting" => \E f \in flights : q \in f.waiters
  BY <1>1, RequestFacts
<1>3. Quiet /\ req[r].at = "sent"
  BY DEF Sent
<1> DEFINE requests == ended(r, "error")
<1>4. /\ requests \in [Request -> RequestState]
      /\ requests[r].at = "done"
      /\ \A q \in Request : /\ requests[q].origin = req[q].origin
                            /\ requests[q].sent = req[q].sent
                            /\ q # r => requests[q] = req[q]
  BY <1>2, Ended DEF Heard
<1> HIDE DEF requests
<1>5. /\ store' = accountRemoved(a)
      /\ hears(removalEvent(a), requests, gate)
      /\ UNCHANGED <<basis, flights, suppressed, status, scenario, removal, budget>>
      /\ grant' = IF a \in Vnu THEN withoutGrant(a) ELSE grant
  BY DEF removesAndEnds, requests
<1>6. grant' \in [Account -> Tokens] /\ \A b \in Account \ {a} : grant'[b] = grant[b]
  BY <1>1, <1>5, AccountFacts DEF withoutGrant, Tokens
<1>7. requests[Bulk].origin = req[Bulk].origin
  BY <1>4, RequestAssumption
<1>8. /\ AccountsTypeOK' /\ Tokens' = Tokens /\ TokensStep
      /\ GrantMatchesToken' /\ PageOK' /\ PageTypeOK' /\ AloneOK' /\ ReconnectingIsTrueAlone'
      /\ GateOK' /\ gate' \in GateType /\ shown' \in State
      /\ req' \in [Request -> RequestState]
      /\ \A q \in Request :
            /\ req'[q].at = requests[q].at /\ req'[q].origin = requests[q].origin
            /\ req'[q].sent = requests[q].sent /\ req'[q].heard = requests[q].heard
      /\ store'.token = [store.token EXCEPT ![a] = 0]
  BY <1>1, <1>2, <1>4, <1>5, <1>6, <1>7, AccountGoes DEF GateOK
<1>9. RequestsKeep /\ \A q \in Request : q # r => Continues(q)
  BY <1>4, <1>8 DEF RequestsKeep, Continues
<1>10. RequestsOK'
  BY <1>1, <1>3, <1>5, <1>9, RequestsSame
<1>11. FlightsOK'
  <2>1. \A f \in flights : \A q \in f.waiters : q \in Request /\ req[q].at = "waiting"
    BY <1>1 DEF FlightsOK, ReconnectTypeOK
  <2>2. \A f \in flights : \A q \in f.waiters : Continues(q)
    BY <2>1, <1>3, <1>9
  <2> QED BY <2>2, <1>1, <1>5, FlightsSame
<1>12. LeavesStep
  BY <1>1, <1>8 DEF LeavesStep, stored
<1>13. ReconnectTypeOK'
  BY <1>1, <1>5, <1>8, ReconnectStays DEF ReconnectTypeOK
<1>14. RequestTypeOK'
  <2>1. req' \in [Request -> RequestState'] /\ removal' \in [Account -> RemovalType']
    BY <1>2, <1>5, <1>8, TypesGrow
  <2>2. \A q \in Request : req'[q].at = "waiting" => \E f \in flights' : q \in f.waiters
    BY <1>2, <1>4, <1>5, <1>8
  <2> QED BY <1>1, <1>2, <1>5, <1>8, <2>1, <2>2, RequestStays
<1>15. RemovalsOK' /\ BudgetOK'
  BY <1>1, <1>5 DEF RemovalsOK, BudgetOK, SingleTab
<1> QED
  BY <1>8, <1>10, <1>11, <1>12, <1>13, <1>14, <1>15 DEF IInv, TypeOK, AccountsStep

\* A state is published of an account.
LEMMA Published ==
    ASSUME ReconnectTypeOK, NEW a \in Account, NEW s \in State, publish(a, s, store)
    PROVE  /\ status' \in [Account -> [state: State, generation: Nat]] /\ shown' \in State
           /\ status'[a].state = s
           /\ \A b \in Account \ {a} : status'[b] = status[b]
           /\ shown' = IF active = a /\ a \in Vnu THEN s ELSE shown
<1>1. status \in [Account -> [state: State, generation: Nat]] /\ shown \in State
  BY DEF ReconnectTypeOK
<1> DEFINE n == status[a].generation + (IF s = "reconnecting" THEN 1 ELSE 0)
<1>2. status[a].generation \in Nat /\ n \in Nat
  BY <1>1
<1>3. status' = [status EXCEPT ![a] = [state |-> s, generation |-> n]]
  BY DEF publish
<1> HIDE DEF n
<1>4. [state |-> s, generation |-> n] \in [state: State, generation: Nat]
  BY <1>2
<1>5. shown' = IF active = a /\ a \in Vnu THEN s ELSE shown
  BY DEF publish, active
<1> QED BY <1>1, <1>3, <1>4, <1>5

\* The request waits for the flight of its account and token.
LEMMA Joined ==
    ASSUME IInv, NEW r \in Request, Sent(r), o(r).account \in Vnu,
           o(r).account \notin suppressed,
           joinFlight(r, o(r)), req' = [req EXCEPT ![r].at = "waiting"],
           condemned \subseteq condemned', condemned' \subseteq Tokens,
           UNCHANGED <<accountVars, page, scenario, removal, gate, budget>>
    PROVE  IInv' /\ AccountsStep
<1> DEFINE a == o(r).account
           t == o(r).token
           same == {f \in flights : f.account = a /\ f.token = t}
           waiters == {r} \cup UNION {f.waiters : f \in same}
           flight == [account |-> a, token |-> t, waiters |-> waiters]
<1>1. /\ AccountsTypeOK /\ ReconnectTypeOK /\ RequestTypeOK /\ PageOK /\ PageTypeOK
      /\ RequestsOK /\ FlightsOK /\ RemovalsOK /\ GateOK /\ BudgetOK /\ GrantMatchesToken
      /\ AloneTokens /\ AloneRemovals /\ AloneShown /\ ReconnectingIsTrueAlone
  BY DEF IInv, TypeOK, AloneOK
<1>2. /\ req \in [Request -> RequestState] /\ removal \in [Account -> RemovalType]
      /\ gate \in GateType /\ condemned \subseteq Tokens /\ budget \in [Budget -> Nat]
      /\ \A q \in Request : req[q].at = "waiting" => \E f \in flights : q \in f.waiters
  BY <1>1, RequestFacts
<1>3. /\ flights \subseteq [account: Vnu, token: Tokens \ {0}, waiters: (SUBSET Request) \ {{}}]
      /\ \A f, h \in flights : f.account = h.account /\ f.token = h.token => f = h
      /\ suppressed \subseteq Account /\ shown \in State
      /\ status \in [Account -> [state: State, generation: Nat]]
  BY <1>1 DEF ReconnectTypeOK
<1>4. Quiet /\ req[r].at = "sent"
  BY DEF Sent
<1>5. /\ a \in Vnu /\ a \in Account /\ t \in Tokens /\ t # 0
      /\ req[r].origin = [account |-> a, token |-> t]
  BY <1>1, <1>2, <1>4 DEF RequestsOK, RequestOK, RequestState, o
<1>6. /\ flights' = (flights \ same) \cup {flight}
      /\ UNCHANGED suppressed
      /\ \/ publish(a, "reconnecting", store)
         \/ UNCHANGED <<status, shown>>
  BY DEF joinFlight
<1>7. waiters \in (SUBSET Request) \ {{}}
  BY <1>3
<1>8. \A q \in waiters : q = r \/ \E f \in same : q \in f.waiters
  OBVIOUS
<1>9. \A f \in same : f.waiters \subseteq waiters
  OBVIOUS
<1>10. /\ flight.account = a /\ flight.token = t /\ flight.waiters = waiters /\ r \in waiters
       /\ \A f \in same : f \in flights /\ f.account = a /\ f.token = t
       /\ \A f \in flights \ same : ~(f.account = a /\ f.token = t)
  OBVIOUS
<1>11. flight \in [account: Vnu, token: Tokens \ {0}, waiters: (SUBSET Request) \ {{}}]
  BY <1>5, <1>7
<1> HIDE DEF flight, waiters, same
<1>12. /\ req' \in [Request -> RequestState]
       /\ req'[r].at = "waiting" /\ req'[r].origin = req[r].origin /\ req'[r].sent = req[r].sent
       /\ \A q \in Request : q # r => req'[q] = req[q]
  <2>1. req[r] \in RequestState
    BY <1>2
  <2>2. /\ [req[r] EXCEPT !.at = "waiting"] \in RequestState
        /\ [req[r] EXCEPT !.at = "waiting"].at = "waiting"
        /\ [req[r] EXCEPT !.at = "waiting"].origin = req[r].origin
        /\ [req[r] EXCEPT !.at = "waiting"].sent = req[r].sent
    BY <2>1 DEF RequestState, Live
  <2> QED BY <2>2, <1>2
<1>13. AccountsTypeOK' /\ Tokens' = Tokens /\ AccountsStep /\ active' = active
  BY <1>1, AccountsUntouched DEF accountVars, active
<1>14. UNCHANGED <<store, grant, suppressed, removal, scenario, page>>
  BY <1>6 DEF accountVars
<1>15. /\ status' \in [Account -> [state: State, generation: Nat]] /\ shown' \in State
       /\ \A b \in Account \ {a} : status'[b] = status[b]
       /\ \/ status' = status /\ shown' = shown
          \/ status'[a].state = "reconnecting"
             /\ shown' = IF active = a /\ a \in Vnu THEN "reconnecting" ELSE shown
  BY <1>1, <1>3, <1>5, <1>6, Published DEF State
<1>16. ReconnectTypeOK'
  <2>1. \A f, h \in flights' : f.account = h.account /\ f.token = h.token => f = h
    BY <1>3, <1>6, <1>10
  <2>2. flights' \subseteq [account: Vnu, token: Tokens \ {0}, waiters: (SUBSET Request) \ {{}}]
    BY <1>3, <1>6, <1>11
  <2> QED BY <2>1, <2>2, <1>3, <1>13, <1>14, <1>15 DEF ReconnectTypeOK
<1>17. RequestTypeOK'
  <2>1. \A q \in Request : req'[q].at = "waiting" => \E f \in flights' : q \in f.waiters
    <3> SUFFICES ASSUME NEW q \in Request, req'[q].at = "waiting"
                 PROVE  \E f \in flights' : q \in f.waiters
      OBVIOUS
    <3>1. CASE q = r
      BY <3>1, <1>6, <1>10
    <3>2. CASE q # r
      <4>1. PICK f \in flights : q \in f.waiters
        BY <3>2, <1>2, <1>12
      <4> QED BY <4>1, <1>6, <1>9, <1>10
    <3> QED BY <3>1, <3>2
  <2>2. RequestState \subseteq RequestState' /\ RemovalType \subseteq RemovalType'
    BY <1>13, TypesGrow
  <2> QED BY <1>1, <1>2, <1>12, <1>13, <1>14, <2>1, <2>2, RequestStays
<1>18. FlightsOK'
  <2> SUFFICES ASSUME NEW f \in flights'
               PROVE  /\ f.account \notin suppressed'
                      /\ \A q \in f.waiters : /\ req'[q].at = "waiting"
                                              /\ req'[q].origin =
                                                    [account |-> f.account, token |-> f.token]
    BY DEF FlightsOK
  <2>1. \A h \in flights : \A q \in h.waiters : q \in Request /\ q # r
    BY <1>1, <1>3, <1>4 DEF FlightsOK
  <2>2. CASE f \in flights
    BY <2>1, <2>2, <1>1, <1>12, <1>14 DEF FlightsOK
  <2>3. CASE f = flight
    <3>1. \A q \in waiters : q # r =>
              /\ req'[q].at = "waiting"
              /\ req'[q].origin = [account |-> a, token |-> t]
      BY <2>1, <1>1, <1>8, <1>10, <1>12 DEF FlightsOK
    <3> QED BY <2>3, <3>1, <1>5, <1>10, <1>12, <1>14
  <2> QED BY <2>2, <2>3, <1>6
<1>19. PageOK' /\ PageTypeOK'
  <2>1. req'[Bulk].origin = req[Bulk].origin
    BY <1>12, RequestAssumption
  <2> QED BY <1>1, <1>13, <1>14, <2>1, PageSame DEF PageTypeOK
<1>20. RequestsOK'
  BY <1>1, <1>4, <1>12, <1>13, <1>14 DEF RequestsOK, RequestOK, Quiet
<1>21. RemovalsOK' /\ GateOK' /\ BudgetOK' /\ GrantMatchesToken'
  BY <1>1, <1>14 DEF RemovalsOK, GateOK, BudgetOK, SingleTab, GrantMatchesToken, stored
<1>22. AloneTokens'
  BY <1>1, <1>4, <1>5, <1>12, <1>14 DEF AloneTokens, Alone, SingleTab
<1>23. AloneRemovals'
  <2>1. \A b \in Account : b \in suppressed => status'[b] = status[b]
    BY <1>15
  <2> QED BY <2>1, <1>1, <1>14, AccountAssumption, AloneRemovalsSame
<1>24. AloneShown'
  <2>1. CASE ShowsNoMore /\ (shown' = "reconnecting" => status'[active] = status[active])
    BY <2>1, <1>1, <1>14, AloneShownSame
  <2>2. CASE active = a /\ status'[a].state = "reconnecting"
    BY <2>2, <1>5, <1>13 DEF AloneShown
  <2>3. CASE active # a
    <3>1. active \in {None} \cup Account
      BY <1>1, AccountFacts
    <3>2. ShowsNoMore /\ (active # None => status'[active] = status[active])
      BY <2>3, <3>1, <1>13, <1>15 DEF ShowsNoMore
    <3> QED BY <3>2, <1>1, <1>13, <1>14, AloneShownSame
  <2> QED BY <2>1, <2>2, <2>3, <1>13, <1>15 DEF ShowsNoMore
<1>25. ReconnectingIsTrueAlone'
  <2>1. CASE active = a
    <3>1. flight \in flights' /\ flight.account = active'
      BY <2>1, <1>6, <1>10, <1>13
    <3> QED BY <3>1 DEF ReconnectingIsTrueAlone, ReconnectingIsTrue
  <2>2. CASE active # a
    <3>1. ShowsNoMore
      BY <2>2, <1>13, <1>15 DEF ShowsNoMore
    <3>2. \A f \in flights : f.account = active => f \in flights'
      BY <2>2, <1>6, <1>10
    <3> QED BY <3>1, <3>2, <1>1, <1>14, AloneSame
  <2> QED BY <2>1, <2>2
<1> QED
  BY <1>13, <1>16, <1>17, <1>18, <1>19, <1>20, <1>21, <1>22, <1>23, <1>24, <1>25
     DEF IInv, TypeOK, AloneOK

LEMMA AnsweredExpiredKeeps ==
    ASSUME IInv, NEW r \in Request, AnsweredExpired(r)
    PROVE  IInv' /\ AccountsStep
<1> DEFINE a == o(r).account
<1>1. /\ Sent(r) /\ a \in Vnu /\ a \in Account /\ req[r].at = "sent"
      /\ condemned' = condemned \cup {req[r].sent}
  BY AccountAssumption DEF AnsweredExpired, Sent
<1>2. /\ gate \in GateType /\ GateOK /\ condemned \subseteq Tokens /\ RequestsOK
      /\ req \in [Request -> RequestState]
  BY RequestFacts DEF IInv, TypeOK
<1>3. req[r].sent \in Tokens /\ req[r].sent = o(r).token
  BY <1>1, <1>2 DEF RequestState, RequestsOK, RequestOK, o
<1>4. condemned \subseteq condemned' /\ condemned' \subseteq Tokens /\ req[r].sent \in condemned'
  BY <1>1, <1>2, <1>3
<1>5. CASE endsOnly(r, "error")
  BY <1>1, <1>2, <1>4, <1>5, RequestEnds DEF endsOnly, Heard, GateOK
<1>6. CASE /\ a \notin suppressed /\ joinFlight(r, o(r))
           /\ req' = [req EXCEPT ![r].at = "waiting"]
           /\ UNCHANGED <<accountVars, page, scenario, removal, gate, budget>>
  BY <1>1, <1>4, <1>6, Joined
<1>7. CASE unchanged(o(r)) /\ removesAndEnds(a, r)
  <2>1. stored(a) /\ store.token[a] = req[r].sent
    BY <1>3, <1>7 DEF unchanged
  <2> QED BY <1>1, <1>4, <1>7, <2>1, RemovedWithRequest
<1> QED BY <1>5, <1>6, <1>7 DEF AnsweredExpired

LEMMA AnsweredDeadKeeps ==
    ASSUME IInv, NEW r \in Request, NEW code \in {"dead", "captcha"}, AnsweredDead(r, code)
    PROVE  IInv' /\ AccountsStep
<1> DEFINE a == o(r).account
<1>1. /\ Sent(r) /\ req[r].at = "sent"
      /\ condemned' = IF code = "dead" THEN condemned \cup {req[r].sent} ELSE condemned
  BY DEF AnsweredDead, Sent
<1>2. /\ gate \in GateType /\ GateOK /\ condemned \subseteq Tokens /\ RequestsOK
      /\ req \in [Request -> RequestState]
  BY RequestFacts DEF IInv, TypeOK
<1>3. req[r].sent \in Tokens /\ req[r].sent = o(r).token /\ a \in Account
  BY <1>1, <1>2 DEF RequestState, RequestsOK, RequestOK, o
<1>4. condemned \subseteq condemned' /\ condemned' \subseteq Tokens
  BY <1>1, <1>2, <1>3
<1>5. CASE endsOnly(r, "error")
  BY <1>1, <1>2, <1>4, <1>5, RequestEnds DEF endsOnly, Heard, GateOK
<1>6. CASE /\ mayReauthenticate(a)
           /\ gate' = [gate EXCEPT !.at = "running",
                                   !.using = IF gate.at = "running" THEN @ ELSE gate.creds]
           /\ req' = ended(r, "error")
           /\ UNCHANGED <<accountVars, reconnectVars, page, scenario, removal, budget>>
  <2>1. gate' \in GateType /\ GateOK'
    BY <1>2, <1>6 DEF GateType, GateOK, mayReauthenticate
  <2> QED BY <1>1, <1>4, <1>6, <2>1, RequestEnds DEF Heard
<1>7. CASE code = "dead" /\ dies(o(r)) /\ removesAndEnds(a, r)
  <2>1. stored(a) /\ store.token[a] = req[r].sent
    BY <1>3, <1>7 DEF dies, unchanged
  <2>2. store.token[a] \in condemned'
    BY <1>1, <1>7, <2>1
  <2> QED BY <1>1, <1>3, <1>4, <1>7, <2>1, <2>2, RemovedWithRequest
<1> QED BY <1>5, <1>6, <1>7 DEF AnsweredDead

-----------------------------------------------------------------------------
(* The flights.                                                            *)

LEMMA FlightFacts ==
    ASSUME IInv, NEW f \in flights
    PROVE  /\ f.account \in Vnu /\ f.account \in Account /\ f.account # None
           /\ f.token \in Tokens /\ f.token # 0
           /\ f.account \notin suppressed
           /\ f.waiters \subseteq Request /\ f.waiters # {} /\ \E r \in Request : r \in f.waiters
           /\ \A r \in f.waiters : /\ req[r].at = "waiting"
                                   /\ req[r].origin = [account |-> f.account, token |-> f.token]
           /\ \A h \in flights : (\E r \in f.waiters : r \in h.waiters) => h = f
<1>1. /\ f \in [account: Vnu, token: Tokens \ {0}, waiters: (SUBSET Request) \ {{}}]
      /\ \A h \in flights : f.account = h.account /\ f.token = h.token => f = h
  BY DEF IInv, TypeOK, ReconnectTypeOK
<1>2. \A h \in flights :
          /\ h.account \notin suppressed
          /\ \A r \in h.waiters : /\ req[r].at = "waiting"
                                  /\ req[r].origin = [account |-> h.account, token |-> h.token]
  BY DEF IInv, FlightsOK
<1>3. ASSUME NEW h \in flights, NEW r \in f.waiters, r \in h.waiters
      PROVE  h = f
  <2>1. [account |-> h.account, token |-> h.token] = [account |-> f.account, token |-> f.token]
    BY <1>2, <1>3
  <2> QED BY <2>1, <1>1
<1> QED BY <1>1, <1>2, <1>3, AccountAssumption

\* Alone, there is one flight at most.
LEMMA OneFlight ==
    ASSUME IInv, Alone, NEW f \in flights, NEW h \in flights
    PROVE  f = h
<1>1. PICK r \in Request : scenario.requests = {r}
  BY RequestAssumption, RequestFacts DEF IInv, TypeOK, Alone
<1>2. \A q \in Request : req[q].at = "waiting" => q = r
  BY <1>1 DEF IInv, RequestsOK, RequestOK
<1>3. \A g \in flights : r \in g.waiters
  <2> SUFFICES ASSUME NEW g \in flights
               PROVE  r \in g.waiters
    OBVIOUS
  <2>1. PICK q \in Request : q \in g.waiters
    BY FlightFacts
  <2>2. req[q].at = "waiting"
    BY <2>1, FlightFacts
  <2> QED BY <2>1, <2>2, <1>2
<1> QED BY <1>3, FlightFacts

\* Alone, a flight whose answer is not for the active account is not shown.
LEMMA StaleFlight ==
    ASSUME IInv, Alone, NEW f \in flights, ~unchangedActive(f), active # None
    PROVE  f.account # active
<1> SUFFICES ASSUME f.account = active
             PROVE  FALSE
  OBVIOUS
<1>1. PICK r \in Request : r \in f.waiters
  BY FlightFacts
<1>2. req[r].at = "waiting" /\ req[r].origin = [account |-> f.account, token |-> f.token]
  BY <1>1, FlightFacts
<1>3. f.account \in Vnu /\ f.account \notin suppressed /\ f.account # None
  BY FlightFacts
<1>4. store.token[f.account] \in {0, f.token}
  BY <1>2, <1>3 DEF IInv, AloneOK, AloneTokens
<1>5. stored(f.account)
  BY AccountFacts DEF IInv, TypeOK
<1> QED BY <1>3, <1>4, <1>5 DEF unchangedActive, unchanged, stored

\* A waiter that is aborted leaves its flight, the last one ends it.
LEMMA Released ==
    ASSUME IInv, NEW r \in Request, req[r].at = "waiting",
           releaseWaiter(r), req' = ended(r, "cancelled"),
           UNCHANGED <<accountVars, page, scenario, removal, gate, condemned, budget>>
    PROVE  IInv' /\ AccountsStep
<1>1. /\ AccountsTypeOK /\ ReconnectTypeOK /\ RequestTypeOK /\ PageOK /\ PageTypeOK
      /\ RequestsOK /\ FlightsOK /\ RemovalsOK /\ GateOK /\ BudgetOK /\ GrantMatchesToken
      /\ AloneTokens /\ AloneRemovals /\ AloneShown /\ ReconnectingIsTrueAlone
  BY DEF IInv, TypeOK, AloneOK
<1>2. /\ req \in [Request -> RequestState] /\ removal \in [Account -> RemovalType]
      /\ gate \in GateType /\ condemned \subseteq Tokens /\ budget \in [Budget -> Nat]
      /\ \A q \in Request : req[q].at = "waiting" => \E f \in flights : q \in f.waiters
  BY <1>1, RequestFacts
<1>3. PICK f \in flights :
        /\ r \in f.waiters
        /\ flights' = (flights \ {f}) \cup
              (IF f.waiters = {r} THEN {} ELSE {[f EXCEPT !.waiters = @ \ {r}]})
        /\ IF f.waiters = {r} /\ unchangedActive(f) THEN publish(f.account, "idle", store)
           ELSE UNCHANGED <<status, shown>>
        /\ UNCHANGED suppressed
  BY DEF releaseWaiter
<1> DEFINE rest == [f EXCEPT !.waiters = @ \ {r}]
<1>4. /\ flights \subseteq [account: Vnu, token: Tokens \ {0}, waiters: (SUBSET Request) \ {{}}]
      /\ \A g, h \in flights : g.account = h.account /\ g.token = h.token => g = h
      /\ suppressed \subseteq Account /\ shown \in State
      /\ status \in [Account -> [state: State, generation: Nat]]
  BY <1>1 DEF ReconnectTypeOK
<1>5. /\ rest.account = f.account /\ rest.token = f.token /\ rest.waiters = f.waiters \ {r}
      /\ rest \in [account: Vnu, token: Tokens \ {0}, waiters: SUBSET Request]
  BY <1>4
<1> HIDE DEF rest
<1>6. /\ req' \in [Request -> RequestState]
      /\ req'[r].at = "done"
      /\ \A q \in Request : req'[q].origin = req[q].origin /\ req'[q].sent = req[q].sent
      /\ \A q \in Request : q # r => req'[q] = req[q]
  BY <1>2, Ended DEF Heard
<1>7. \A g \in flights : r \in g.waiters => g = f
  BY <1>3, FlightFacts
<1>8. AccountsTypeOK' /\ Tokens' = Tokens /\ AccountsStep /\ active' = active
  BY <1>1, AccountsUntouched DEF accountVars, active
<1>9. UNCHANGED <<store, grant, suppressed, removal, scenario, page>>
  BY <1>3 DEF accountVars
<1>10. /\ status' \in [Account -> [state: State, generation: Nat]] /\ shown' \in State
       /\ \A b \in Account \ {f.account} : status'[b] = status[b]
       /\ \/ status' = status /\ shown' = shown
          \/ unchangedActive(f) /\ shown' = "idle"
       /\ unchangedActive(f) /\ f.waiters = {r} => shown' = "idle"
  <2>1. CASE f.waiters = {r} /\ unchangedActive(f)
    <3>1. active = f.account /\ f.account \in Vnu /\ f.account \in Account
      BY <2>1, FlightFacts DEF unchangedActive
    <3> QED BY <2>1, <3>1, <1>1, <1>3, Published DEF State
  <2>2. CASE ~(f.waiters = {r} /\ unchangedActive(f))
    BY <2>2, <1>3, <1>4
  <2> QED BY <2>1, <2>2
<1>11. \A g \in flights' : g \in flights \ {f} \/ (g = rest /\ f.waiters # {r})
  BY <1>3 DEF rest
<1>12. ReconnectTypeOK'
  <2>1. \A g, h \in flights' : g.account = h.account /\ g.token = h.token => g = h
    BY <1>3, <1>4, <1>5, <1>11
  <2>2. flights' \subseteq [account: Vnu, token: Tokens \ {0}, waiters: (SUBSET Request) \ {{}}]
    <3>1. f.waiters # {r} => f.waiters \ {r} # {}
      BY <1>3
    <3> QED BY <3>1, <1>4, <1>5, <1>11
  <2> QED BY <2>1, <2>2, <1>4, <1>8, <1>9, <1>10 DEF ReconnectTypeOK
<1>13. RequestTypeOK'
  <2>1. \A q \in Request : req'[q].at = "waiting" => \E g \in flights' : q \in g.waiters
    <3> SUFFICES ASSUME NEW q \in Request, req'[q].at = "waiting"
                 PROVE  \E g \in flights' : q \in g.waiters
      OBVIOUS
    <3>1. q # r /\ req[q].at = "waiting"
      BY <1>6
    <3>2. PICK g \in flights : q \in g.waiters
      BY <3>1, <1>2
    <3>3. CASE g = f
      <4>1. f.waiters # {r} /\ q \in rest.waiters
        BY <3>1, <3>2, <3>3, <1>5
      <4> QED BY <4>1, <1>3 DEF rest
    <3>4. CASE g # f
      BY <3>2, <3>4, <1>3
    <3> QED BY <3>3, <3>4
  <2>2. RequestState \subseteq RequestState' /\ RemovalType \subseteq RemovalType'
    BY <1>8, TypesGrow
  <2> QED BY <1>1, <1>2, <1>6, <1>8, <1>9, <2>1, <2>2, RequestStays
<1>14. FlightsOK'
  <2> SUFFICES ASSUME NEW g \in flights'
               PROVE  /\ g.account \notin suppressed'
                      /\ \A q \in g.waiters : /\ req'[q].at = "waiting"
                                              /\ req'[q].origin =
                                                    [account |-> g.account, token |-> g.token]
    BY DEF FlightsOK
  <2>1. PICK h \in flights : /\ g.account = h.account /\ g.token = h.token
                             /\ g.waiters \subseteq h.waiters /\ r \notin g.waiters
    BY <1>3, <1>5, <1>7, <1>11
  <2>2. \A q \in g.waiters : q \in Request /\ q # r
    BY <2>1, <1>4
  <2> QED BY <2>1, <2>2, <1>1, <1>6, <1>9 DEF FlightsOK
<1>15. PageOK' /\ PageTypeOK'
  <2>1. req'[Bulk].origin = req[Bulk].origin
    BY <1>6, RequestAssumption
  <2> QED BY <1>1, <1>8, <1>9, <2>1, PageSame DEF PageTypeOK
<1>16. RequestsOK'
  BY <1>1, <1>6, <1>8, <1>9 DEF RequestsOK, RequestOK
<1>17. RemovalsOK' /\ GateOK' /\ BudgetOK' /\ GrantMatchesToken'
  BY <1>1, <1>9 DEF RemovalsOK, GateOK, BudgetOK, SingleTab, GrantMatchesToken, stored
<1>18. AloneTokens'
  <2>1. WaitsKeep
    BY <1>6 DEF WaitsKeep, Continues
  <2> QED BY <2>1, <1>1, <1>9, AloneTokensSame
<1>19. AloneRemovals'
  <2>1. f.account \notin suppressed
    BY FlightFacts
  <2>2. \A b \in Account : b \in suppressed => status'[b] = status[b]
    BY <2>1, <1>10
  <2> QED BY <2>2, <1>1, <1>9, AccountAssumption, AloneRemovalsSame
<1>20. ShowsNoMore /\ (shown' = "reconnecting" => status' = status)
  BY <1>8, <1>10 DEF ShowsNoMore
<1>21. AloneShown'
  BY <1>1, <1>9, <1>20, AloneShownSame
<1>22. ReconnectingIsTrueAlone'
  <2>1. ASSUME Alone, shown' = "reconnecting", active # None,
               NEW g \in flights, g.account = active
        PROVE  \E h \in flights' : h.account = active
    <3>1. g = f
      BY <2>1, OneFlight
    <3>2. f.waiters # {r}
      <4>1. unchangedActive(f)
        BY <2>1, <3>1, StaleFlight
      <4> QED BY <4>1, <2>1, <1>10
    <3>3. rest \in flights'
      BY <3>2, <1>3 DEF rest
    <3> QED BY <2>1, <3>1, <3>3, <1>5
  <2> QED BY <2>1, <1>1, <1>8, <1>9, <1>20, AloneSame
<1> QED
  BY <1>8, <1>12, <1>13, <1>14, <1>15, <1>16, <1>17, <1>18, <1>19, <1>21, <1>22
     DEF IInv, TypeOK, AloneOK

LEMMA CancelledKeeps ==
    ASSUME IInv, NEW r \in Request, Cancelled(r)
    PROVE  IInv' /\ AccountsStep
<1>1. /\ req' = ended(r, "cancelled") /\ req[r].at \in {"sent", "waiting"}
      /\ UNCHANGED <<accountVars, page, scenario, removal, gate, condemned, budget>>
      /\ IF req[r].at = "waiting" THEN releaseWaiter(r) ELSE UNCHANGED reconnectVars
  BY DEF Cancelled
<1>2. CASE req[r].at = "waiting"
  BY <1>1, <1>2, Released
<1>3. CASE req[r].at = "sent"
  <2>1. gate \in GateType /\ GateOK /\ condemned \subseteq Tokens
    BY RequestFacts DEF IInv, TypeOK
  <2> QED BY <1>1, <1>3, <2>1, RequestEnds DEF Heard, GateOK
<1> QED BY <1>1, <1>2, <1>3

\* The waiters of the flights that are settled go on.
LEMMA Resumed ==
    ASSUME req \in [Request -> RequestState], NEW fs, NEW heard \in Heard
    PROVE  /\ resumed(fs, heard, req) \in [Request -> RequestState]
           /\ \A r \in Request :
                 /\ resumed(fs, heard, req)[r].origin = req[r].origin
                 /\ resumed(fs, heard, req)[r].sent = req[r].sent
                 /\ IF \E f \in fs : r \in f.waiters
                    THEN /\ resumed(fs, heard, req)[r].at = "resumed"
                         /\ resumed(fs, heard, req)[r].heard = heard
                    ELSE resumed(fs, heard, req)[r] = req[r]
<1> SUFFICES ASSUME NEW r \in Request
             PROVE  /\ resumed(fs, heard, req)[r] \in RequestState
                    /\ resumed(fs, heard, req)[r].origin = req[r].origin
                    /\ resumed(fs, heard, req)[r].sent = req[r].sent
                    /\ IF \E f \in fs : r \in f.waiters
                       THEN /\ resumed(fs, heard, req)[r].at = "resumed"
                            /\ resumed(fs, heard, req)[r].heard = heard
                       ELSE resumed(fs, heard, req)[r] = req[r]
  <2>1. resumed(fs, heard, req) = [r \in Request |-> resumed(fs, heard, req)[r]]
    BY DEF resumed
  <2> QED BY <2>1
<1>1. req[r] \in RequestState
  OBVIOUS
<1> DEFINE new == [req[r] EXCEPT !.at = "resumed", !.heard = heard]
<1>2. /\ new \in RequestState /\ new.at = "resumed" /\ new.heard = heard
      /\ new.origin = req[r].origin /\ new.sent = req[r].sent
  BY <1>1 DEF RequestState, Live, Heard
<1>3. resumed(fs, heard, req)[r] = IF \E f \in fs : r \in f.waiters THEN new ELSE req[r]
  BY DEF resumed
<1> HIDE DEF new
<1> QED BY <1>1, <1>2, <1>3

\* What is left of the flights, and of those who wait, when some are settled.
LEMMA Settles ==
    ASSUME IInv, NEW gone \in SUBSET flights, flights' = flights \ gone,
           \A f \in flights' : f.account \notin suppressed',
           \A r \in Request : IF \E f \in gone : r \in f.waiters
                              THEN req'[r].at = "resumed" ELSE Continues(r)
    PROVE  /\ FlightsOK' /\ WaitsKeep
           /\ \A r \in Request : req'[r].at = "waiting" => \E f \in flights' : r \in f.waiters
<1>1. FlightsOK'
  <2> SUFFICES ASSUME NEW f \in flights', NEW r \in f.waiters
               PROVE  /\ req'[r].at = "waiting"
                      /\ req'[r].origin = [account |-> f.account, token |-> f.token]
    BY DEF FlightsOK
  <2>1. f \in flights /\ f \notin gone /\ r \in Request
        /\ req[r].at = "waiting" /\ req[r].origin = [account |-> f.account, token |-> f.token]
    BY FlightFacts
  <2>2. ~\E h \in gone : r \in h.waiters
    BY <2>1, FlightFacts
  <2>3. Continues(r)
    BY <2>1, <2>2
  <2> QED BY <2>1, <2>3 DEF Continues
<1>2. WaitsKeep
  BY DEF WaitsKeep
<1>3. ASSUME NEW r \in Request, req'[r].at = "waiting"
      PROVE  \E f \in flights' : r \in f.waiters
  <2>1. req[r].at = "waiting" /\ ~\E h \in gone : r \in h.waiters
    BY <1>3 DEF Continues
  <2>2. \E f \in flights : r \in f.waiters
    BY <2>1, RequestFacts DEF IInv, TypeOK
  <2> QED BY <2>1, <2>2
<1> QED BY <1>1, <1>2, <1>3

\* A flight brings no token the accounts keep.
LEMMA FlightFails ==
    ASSUME IInv, Quiet, NEW f \in flights, flights' = flights \ {f},
           UNCHANGED <<store, grant, suppressed, page, scenario, removal, gate, condemned>>,
           issue(f.token) \/ UNCHANGED basis,
           \/ unchangedActive(f) /\ publish(f.account, "retryable", store)
           \/ ~unchangedActive(f) /\ UNCHANGED <<status, shown>>,
           NEW heard \in {"error", "stale"}, req' = resumed({f}, heard, req),
           budget' = budget \/ \E what \in Budget : spend(what)
    PROVE  IInv' /\ AccountsStep
<1>1. /\ AccountsTypeOK /\ ReconnectTypeOK /\ RequestTypeOK /\ PageOK /\ PageTypeOK
      /\ RequestsOK /\ FlightsOK /\ RemovalsOK /\ GateOK /\ BudgetOK /\ GrantMatchesToken
      /\ AloneTokens /\ AloneRemovals /\ AloneShown /\ ReconnectingIsTrueAlone
  BY DEF IInv, TypeOK, AloneOK
<1>2. /\ req \in [Request -> RequestState] /\ removal \in [Account -> RemovalType]
      /\ gate \in GateType /\ condemned \subseteq Tokens /\ budget \in [Budget -> Nat]
  BY <1>1, RequestFacts
<1>3. /\ f.account \in Vnu /\ f.account \in Account /\ f.token \in Tokens
      /\ f.account \notin suppressed
  BY FlightFacts
<1>4. AccountsTypeOK' /\ Tokens \subseteq Tokens' /\ active' = active
  <2>1. CASE issue(f.token)
    BY <2>1, <1>1, <1>3, IssuedOnly, BasisGrows
  <2>2. CASE UNCHANGED basis
    BY <2>2, <1>1, AccountsUntouched DEF accountVars, active
  <2> QED BY <2>1, <2>2
<1>5. AccountsStep
  BY DEF AccountsStep, TokensStep, LeavesStep, stored
<1>6. /\ req' \in [Request -> RequestState]
      /\ \A r \in Request :
            /\ req'[r].origin = req[r].origin /\ req'[r].sent = req[r].sent
            /\ IF \E h \in {f} : r \in h.waiters
               THEN req'[r].at = "resumed" /\ req'[r].heard = heard
               ELSE req'[r] = req[r]
  BY <1>2, Resumed DEF Heard
<1>7. /\ FlightsOK' /\ WaitsKeep
      /\ \A r \in Request : req'[r].at = "waiting" => \E h \in flights' : r \in h.waiters
  <2>1. \A h \in flights' : h.account \notin suppressed'
    BY <1>1 DEF FlightsOK
  <2>2. \A r \in Request : IF \E h \in {f} : r \in h.waiters
                           THEN req'[r].at = "resumed" ELSE Continues(r)
    BY <1>6 DEF Continues
  <2> QED BY <2>1, <2>2, Settles
<1>8. /\ status' \in [Account -> [state: State, generation: Nat]] /\ shown' \in State
      /\ \A b \in Account \ {f.account} : status'[b] = status[b]
      /\ \/ ~unchangedActive(f) /\ status' = status /\ shown' = shown
         \/ shown' = "retryable"
  <2>1. CASE unchangedActive(f) /\ publish(f.account, "retryable", store)
    <3>1. active = f.account
      BY <2>1 DEF unchangedActive
    <3> QED BY <2>1, <3>1, <1>1, <1>3, Published DEF State
  <2>2. CASE ~unchangedActive(f) /\ UNCHANGED <<status, shown>>
    BY <2>2, <1>1 DEF ReconnectTypeOK
  <2> QED BY <2>1, <2>2
<1>9. ReconnectTypeOK'
  BY <1>1, <1>4, <1>8, ReconnectStays DEF ReconnectTypeOK
<1>10. BudgetOK' /\ budget' \in [Budget -> Nat]
  BY <1>1, <1>2, BudgetKept
<1>11. RequestTypeOK'
  <2>1. RequestState \subseteq RequestState' /\ RemovalType \subseteq RemovalType'
    BY <1>4, TypesGrow
  <2>2. req' \in [Request -> RequestState'] /\ removal' \in [Account -> RemovalType']
    BY <2>1, <1>2, <1>6
  <2> QED BY <2>2, <1>1, <1>2, <1>4, <1>7, <1>10, RequestStays
<1>12. PageOK' /\ PageTypeOK'
  <2>1. req'[Bulk].origin = req[Bulk].origin
    BY <1>6, RequestAssumption
  <2> QED BY <1>1, <1>4, <2>1, PageSame DEF PageTypeOK
<1>13. RequestsOK'
  <2> SUFFICES ASSUME NEW r \in Request
               PROVE  RequestOK(r)'
    BY DEF RequestsOK
  <2>1. CASE r \in f.waiters
    <3>1. req[r].at = "waiting" /\ req'[r].at = "resumed" /\ req'[r].heard # "ok"
      BY <2>1, <1>6, FlightFacts
    <3> QED BY <3>1, <1>1, <1>6 DEF RequestsOK, RequestOK
  <2>2. CASE r \notin f.waiters
    BY <2>2, <1>1, <1>6 DEF RequestsOK, RequestOK, Quiet
  <2> QED BY <2>1, <2>2
<1>14. RemovalsOK' /\ GateOK' /\ GrantMatchesToken'
  BY <1>1 DEF RemovalsOK, GateOK, SingleTab, GrantMatchesToken, stored
<1>15. AloneTokens'
  BY <1>1, <1>7, AloneTokensSame
<1>16. AloneRemovals'
  <2>1. \A b \in Account : b \in suppressed => status'[b] = status[b]
    BY <1>3, <1>8
  <2> QED BY <2>1, <1>1, AccountAssumption, AloneRemovalsSame
<1>17. ShowsNoMore /\ (shown' = "reconnecting" => ~unchangedActive(f) /\ status' = status)
  BY <1>4, <1>8 DEF ShowsNoMore
<1>18. AloneShown'
  BY <1>1, <1>17, AloneShownSame
<1>19. ReconnectingIsTrueAlone'
  <2>1. ASSUME Alone, shown' = "reconnecting", active # None,
               NEW h \in flights, h.account = active
        PROVE  h \in flights'
    BY <2>1, <1>17, StaleFlight
  <2> QED BY <2>1, <1>1, <1>4, <1>17, AloneSame
<1> QED
  BY <1>4, <1>5, <1>7, <1>9, <1>10, <1>11, <1>12, <1>13, <1>14, <1>15, <1>16, <1>18, <1>19
     DEF IInv, TypeOK, AloneOK

\* The pair a flight brings is stored, for the account and token it was for.
LEMMA Committed ==
    ASSUME IInv, Quiet, NEW f \in flights, flights' = flights \ {f},
           UNCHANGED <<suppressed, page, scenario, removal, gate, condemned, budget>>,
           unchangedActive(f), commits(f), publish(f.account, "idle", store),
           req' = [r \in Request |->
                      IF r \in f.waiters
                      THEN [resumed({f}, "ok", req)[r] EXCEPT !.sent = freshToken]
                      ELSE req[r]]
    PROVE  IInv' /\ AccountsStep
<1> DEFINE a == f.account
<1>1. /\ AccountsTypeOK /\ ReconnectTypeOK /\ RequestTypeOK /\ PageOK /\ PageTypeOK
      /\ RequestsOK /\ FlightsOK /\ RemovalsOK /\ GateOK /\ BudgetOK /\ GrantMatchesToken
      /\ AloneTokens /\ AloneRemovals /\ AloneShown /\ ReconnectingIsTrueAlone
      /\ grant \in [Account -> Tokens] /\ store.token \in [Account -> Tokens]
  BY DEF IInv, TypeOK, AloneOK, AccountsTypeOK
<1>2. /\ req \in [Request -> RequestState] /\ removal \in [Account -> RemovalType]
      /\ gate \in GateType /\ condemned \subseteq Tokens /\ budget \in [Budget -> Nat]
  BY <1>1, RequestFacts
<1>3. a \in Vnu /\ a \in Account /\ f.token \in Tokens /\ a \notin suppressed
  BY FlightFacts
<1>4. active = a /\ stored(a) /\ store.token[a] = f.token
  BY DEF unchangedActive, unchanged
<1>5. /\ store' = rotated(a, freshToken) /\ issue(f.token)
      /\ grant' = [grant EXCEPT ![a] = freshToken]
  BY DEF commits
<1>6. /\ Tokens \subseteq Tokens' /\ freshToken \in Tokens' /\ freshToken # 0
      /\ basis'[freshToken] = f.token
  BY <1>1, <1>3, <1>5, BasisGrows
<1>7. grant' \in [Account -> Tokens']
  BY <1>1, <1>5, <1>6
<1>8. /\ AccountsTypeOK' /\ active' = active
      /\ store'.token = [store.token EXCEPT ![a] = freshToken]
  BY <1>1, <1>3, <1>4, <1>5, <1>7, Rotates
<1>9. /\ store'.token[a] = freshToken /\ grant'[a] = freshToken
      /\ \A b \in Account \ {a} : store'.token[b] = store.token[b] /\ grant'[b] = grant[b]
  BY <1>1, <1>3, <1>5, <1>8
<1>10. AccountsStep
  <2>1. TokensStep
    BY <1>4, <1>6, <1>9 DEF TokensStep
  <2>2. LeavesStep
    BY <1>6, <1>9 DEF LeavesStep, stored
  <2> QED BY <2>1, <2>2 DEF AccountsStep
<1>11. /\ req' \in [Request -> RequestState']
       /\ \A r \in Request :
             /\ req'[r].origin = req[r].origin
             /\ IF r \in f.waiters
                THEN req'[r].at = "resumed" /\ req'[r].sent = freshToken
                ELSE req'[r] = req[r]
  <2> DEFINE went == resumed({f}, "ok", req)
  <2>1. /\ went \in [Request -> RequestState']
        /\ \A r \in Request :
              /\ went[r].origin = req[r].origin
              /\ IF \E h \in {f} : r \in h.waiters
                 THEN went[r].at = "resumed" /\ went[r].heard = "ok" ELSE went[r] = req[r]
    BY <1>2, <1>6, Resumed, TypesGrow DEF Heard
  <2> HIDE DEF went
  <2>2. req' = [r \in Request |-> IF r \in f.waiters
                                  THEN [went[r] EXCEPT !.sent = freshToken] ELSE req[r]]
    BY DEF went
  <2>3. \A r \in Request : req[r] \in RequestState'
    BY <1>2, <1>6, TypesGrow
  <2>4. ASSUME NEW r \in Request
        PROVE  /\ [went[r] EXCEPT !.sent = freshToken] \in RequestState'
               /\ [went[r] EXCEPT !.sent = freshToken].at = went[r].at
               /\ [went[r] EXCEPT !.sent = freshToken].origin = went[r].origin
               /\ [went[r] EXCEPT !.sent = freshToken].sent = freshToken
    <3>1. went[r] \in RequestState'
      BY <2>1
    <3> QED BY <3>1, <1>6 DEF RequestState
  <2>5. ASSUME NEW r \in Request
        PROVE  /\ req'[r] \in RequestState' /\ req'[r].origin = req[r].origin
               /\ IF r \in f.waiters
                  THEN req'[r].at = "resumed" /\ req'[r].sent = freshToken
                  ELSE req'[r] = req[r]
    <3>1. CASE r \in f.waiters
      <4>1. req'[r] = [went[r] EXCEPT !.sent = freshToken]
        BY <3>1, <2>2
      <4>2. went[r].at = "resumed" /\ went[r].origin = req[r].origin
        BY <3>1, <2>1
      <4> QED BY <3>1, <4>1, <4>2, <2>4
    <3>2. CASE r \notin f.waiters
      BY <3>2, <2>2, <2>3
    <3> QED BY <3>1, <3>2
  <2> QED BY <2>2, <2>5
<1>12. /\ FlightsOK' /\ WaitsKeep
       /\ \A r \in Request : req'[r].at = "waiting" => \E h \in flights' : r \in h.waiters
  <2>1. \A h \in flights' : h.account \notin suppressed'
    BY <1>1 DEF FlightsOK
  <2>2. \A r \in Request : IF \E h \in {f} : r \in h.waiters
                           THEN req'[r].at = "resumed" ELSE Continues(r)
    BY <1>11 DEF Continues
  <2> QED BY <2>1, <2>2, Settles
<1>13. /\ status' \in [Account -> [state: State, generation: Nat]] /\ shown' = "idle"
       /\ \A b \in Account \ {a} : status'[b] = status[b]
  BY <1>1, <1>3, <1>4, Published DEF State
<1>14. ReconnectTypeOK'
  BY <1>1, <1>6, <1>13, ReconnectStays DEF ReconnectTypeOK, State
<1>15. RequestTypeOK'
  <2>1. removal' \in [Account -> RemovalType']
    BY <1>2, <1>6, TypesGrow
  <2> QED BY <2>1, <1>1, <1>2, <1>6, <1>11, <1>12, RequestStays
<1>16. PageOK' /\ PageTypeOK'
  <2>1. req'[Bulk].origin = req[Bulk].origin
    BY <1>11, RequestAssumption
  <2> QED BY <2>1, <1>1, <1>8, PageSame DEF PageTypeOK
<1>17. RequestsOK'
  <2> SUFFICES ASSUME NEW r \in Request
               PROVE  RequestOK(r)'
    BY DEF RequestsOK
  <2>1. CASE r \in f.waiters
    <3>1. req[r].at = "waiting" /\ req'[r].at = "resumed" /\ req'[r].sent = freshToken
      BY <2>1, <1>11, FlightFacts
    <3>2. active' # None /\ store'.token[active'] = freshToken
      BY <1>3, <1>4, <1>8, <1>9, AccountAssumption
    <3> QED BY <3>1, <3>2, <1>1, <1>11 DEF RequestsOK, RequestOK
  <2>2. CASE r \notin f.waiters
    BY <2>2, <1>1, <1>11 DEF RequestsOK, RequestOK, Quiet
  <2> QED BY <2>1, <2>2
<1>18. RemovalsOK' /\ GateOK' /\ BudgetOK'
  BY <1>1 DEF RemovalsOK, GateOK, BudgetOK, SingleTab
<1>19. GrantMatchesToken'
  BY <1>1, <1>9, AccountAssumption, GrantsSame
<1>20. AloneTokens'
  <2>1. ASSUME Alone, NEW r \in Request, req'[r].at \in {"sent", "waiting"}
        PROVE  FALSE
    <3>1. req[r].at # "done" /\ r \notin f.waiters
      BY <2>1, <1>11
    <3>2. PICK q \in Request : scenario.requests = {q}
      BY <2>1, <1>1, RequestAssumption, RequestFacts DEF Alone
    <3>3. PICK p \in Request : p \in f.waiters
      BY FlightFacts
    <3>4. req[p].at = "waiting"
      BY <3>3, FlightFacts
    <3> QED BY <3>1, <3>2, <3>3, <3>4, <1>1 DEF RequestsOK, RequestOK
  <2> QED BY <2>1 DEF AloneTokens, Alone, SingleTab
<1>21. AloneRemovals'
  <2>1. \A b \in Account : b \in suppressed => b # a
    BY <1>3
  <2> QED BY <2>1, <1>1, <1>9, <1>13, AccountAssumption, AloneRemovalsSame
<1>22. AloneShown' /\ ReconnectingIsTrueAlone'
  BY <1>13 DEF AloneShown, ReconnectingIsTrueAlone, ReconnectingIsTrue
<1> QED
  BY <1>8, <1>10, <1>12, <1>14, <1>15, <1>16, <1>17, <1>18, <1>19, <1>20, <1>21, <1>22
     DEF IInv, TypeOK, AloneOK

\* The grant of a flight is refused: its account goes.
LEMMA Refused ==
    ASSUME IInv, Quiet, NEW f \in flights, flights' = flights \ {f},
           UNCHANGED <<basis, suppressed, scenario, removal, budget, status>>,
           unchangedActive(f), condemned' = condemned \cup {f.token},
           store' = accountRemoved(f.account), grant' = withoutGrant(f.account),
           hears(removalEvent(f.account), resumed({f}, "error", req), gate)
    PROVE  IInv' /\ AccountsStep
<1> DEFINE a == f.account
           requests == resumed({f}, "error", req)
<1>1. /\ AccountsTypeOK /\ ReconnectTypeOK /\ RequestTypeOK /\ RequestsOK /\ FlightsOK
      /\ RemovalsOK /\ GateOK /\ BudgetOK
      /\ grant \in [Account -> Tokens] /\ store.token \in [Account -> Tokens]
  BY DEF IInv, TypeOK, AccountsTypeOK
<1>2. /\ req \in [Request -> RequestState] /\ removal \in [Account -> RemovalType]
      /\ gate \in GateType /\ condemned \subseteq Tokens /\ budget \in [Budget -> Nat]
  BY <1>1, RequestFacts
<1>3. a \in Account /\ f.token \in Tokens /\ stored(a) /\ store.token[a] = f.token
  BY FlightFacts DEF unchangedActive, unchanged
<1>4. /\ requests \in [Request -> RequestState]
      /\ \A r \in Request :
            /\ requests[r].origin = req[r].origin /\ requests[r].sent = req[r].sent
            /\ IF \E h \in {f} : r \in h.waiters
               THEN requests[r].at = "resumed" /\ requests[r].heard = "error"
               ELSE requests[r] = req[r]
  BY <1>2, Resumed DEF Heard
<1> HIDE DEF requests
<1>5. hears(removalEvent(a), requests, gate)
  BY DEF requests
<1>6. grant' \in [Account -> Tokens] /\ \A b \in Account \ {a} : grant'[b] = grant[b]
  <2>1. 0 \in Tokens
    BY <1>1, AccountFacts DEF Tokens
  <2>2. grant' = [grant EXCEPT ![a] = 0]
    BY DEF withoutGrant
  <2> QED BY <2>1, <2>2, <1>1, <1>3
<1>7. /\ AccountsTypeOK' /\ Tokens' = Tokens /\ TokensStep
      /\ GrantMatchesToken' /\ PageOK' /\ PageTypeOK' /\ AloneOK' /\ ReconnectingIsTrueAlone'
      /\ GateOK' /\ gate' \in GateType /\ shown' \in State
      /\ req' \in [Request -> RequestState]
      /\ \A r \in Request :
            /\ req'[r].at = requests[r].at /\ req'[r].origin = requests[r].origin
            /\ req'[r].sent = requests[r].sent /\ req'[r].heard = requests[r].heard
      /\ store'.token = [store.token EXCEPT ![a] = 0]
  <2>1. requests[Bulk].origin = req[Bulk].origin
    BY <1>4, RequestAssumption
  <2>2. \A r \in Request : requests[r].at \in {"sent", "waiting"} => requests[r].at = req[r].at
    BY <1>4
  <2> QED BY <2>1, <2>2, <1>1, <1>2, <1>3, <1>4, <1>5, <1>6, AccountGoes DEF GateOK
<1>8. /\ FlightsOK' /\ WaitsKeep
      /\ \A r \in Request : req'[r].at = "waiting" => \E h \in flights' : r \in h.waiters
  <2>1. \A h \in flights' : h.account \notin suppressed'
    BY <1>1 DEF FlightsOK
  <2>2. \A r \in Request : IF \E h \in {f} : r \in h.waiters
                           THEN req'[r].at = "resumed" ELSE Continues(r)
    BY <1>4, <1>7 DEF Continues
  <2> QED BY <2>1, <2>2, Settles
<1>9. RequestsOK'
  <2> SUFFICES ASSUME NEW r \in Request
               PROVE  RequestOK(r)'
    BY DEF RequestsOK
  <2>1. CASE r \in f.waiters
    <3>1. req[r].at = "waiting" /\ req'[r].at = "resumed" /\ req'[r].heard # "ok"
      BY <2>1, <1>4, <1>7, FlightFacts
    <3>2. req'[r].origin = req[r].origin
      BY <1>4, <1>7
    <3> QED BY <3>1, <3>2, <1>1 DEF RequestsOK, RequestOK
  <2>2. CASE r \notin f.waiters
    <3>1. Continues(r)
      BY <2>2, <1>4, <1>7 DEF Continues
    <3> QED BY <3>1, <1>1 DEF RequestsOK, RequestOK, Quiet, Continues
  <2> QED BY <2>1, <2>2
<1>10. LeavesStep
  BY <1>1, <1>3, <1>7 DEF LeavesStep, stored
<1>11. ReconnectTypeOK'
  BY <1>1, <1>7, ReconnectStays DEF ReconnectTypeOK
<1>12. RequestTypeOK'
  <2>1. req' \in [Request -> RequestState'] /\ removal' \in [Account -> RemovalType']
    BY <1>2, <1>7, TypesGrow
  <2> QED BY <2>1, <1>1, <1>2, <1>3, <1>7, <1>8, RequestStays
<1>13. RemovalsOK' /\ BudgetOK'
  BY <1>1 DEF RemovalsOK, BudgetOK, SingleTab
<1> QED
  BY <1>7, <1>8, <1>9, <1>10, <1>11, <1>12, <1>13 DEF IInv, TypeOK, AccountsStep

LEMMA FlightAnswersKeeps ==
    ASSUME IInv, NEW f \in flights, FlightAnswers(f)
    PROVE  IInv' /\ AccountsStep
<1>1. Quiet /\ (Reconnected(f) \/ NotReconnected(f)) /\ flights' = flights \ {f}
  BY DEF FlightAnswers, Reconnected, NotReconnected
<1>2. CASE Reconnected(f)
  <2>1. UNCHANGED <<suppressed, page, scenario, removal, gate, condemned>>
    BY <1>2 DEF Reconnected
  <2>2. CASE /\ unchangedActive(f) /\ commits(f) /\ publish(f.account, "idle", store)
             /\ req' = [r \in Request |->
                          IF r \in f.waiters
                          THEN [resumed({f}, "ok", req)[r] EXCEPT !.sent = freshToken]
                          ELSE req[r]]
             /\ UNCHANGED budget
    BY <1>1, <2>1, <2>2, Committed
  <2>3. CASE /\ unchangedActive(f) /\ spend("faults")
             /\ commitFails(f) /\ publish(f.account, "retryable", store)
             /\ req' = resumed({f}, "error", req)
    <3>1. "faults" \in Budget
      BY DEF Budget
    <3> QED BY <1>1, <2>1, <2>3, <3>1, FlightFails DEF commitFails
  <2>4. CASE /\ ~unchangedActive(f) /\ issue(f.token) /\ req' = resumed({f}, "stale", req)
             /\ UNCHANGED <<store, grant, status, shown, budget>>
    BY <1>1, <2>1, <2>4, FlightFails
  <2> QED BY <1>2, <2>2, <2>3, <2>4 DEF Reconnected
<1>3. CASE NotReconnected(f)
  <2>1. UNCHANGED <<basis, suppressed, scenario, removal, budget>>
    BY <1>3 DEF NotReconnected
  <2>2. CASE /\ unchangedActive(f) /\ condemned' = condemned \cup {f.token}
             /\ store' = accountRemoved(f.account) /\ grant' = withoutGrant(f.account)
             /\ hears(removalEvent(f.account), resumed({f}, "error", req), gate)
             /\ UNCHANGED status
    BY <1>1, <2>1, <2>2, Refused
  <2>3. CASE /\ unchangedActive(f) /\ publish(f.account, "retryable", store)
             /\ req' = resumed({f}, "error", req)
             /\ UNCHANGED <<store, grant, page, gate, condemned>>
    BY <1>1, <2>1, <2>3, FlightFails
  <2>4. CASE /\ ~unchangedActive(f) /\ req' = resumed({f}, "stale", req)
             /\ UNCHANGED <<store, grant, status, shown, page, gate, condemned>>
    BY <1>1, <2>1, <2>4, FlightFails
  <2> QED BY <1>3, <2>2, <2>3, <2>4 DEF NotReconnected
<1> QED BY <1>1, <1>2, <1>3

-----------------------------------------------------------------------------
(* The sign-outs.                                                          *)

LEMMA StartRemovalKeeps ==
    ASSUME IInv, NEW a \in Account, NEW signOut \in BOOLEAN, StartRemoval(a, signOut)
    PROVE  IInv' /\ AccountsStep
<1>1. /\ AccountsTypeOK /\ ReconnectTypeOK /\ RequestTypeOK /\ PageOK /\ PageTypeOK
      /\ RequestsOK /\ FlightsOK /\ RemovalsOK /\ GateOK /\ BudgetOK /\ GrantMatchesToken
      /\ AloneTokens /\ AloneRemovals /\ AloneShown /\ ReconnectingIsTrueAlone
      /\ grant \in [Account -> Tokens] /\ store.token \in [Account -> Tokens]
  BY DEF IInv, TypeOK, AloneOK, AccountsTypeOK
<1>2. /\ req \in [Request -> RequestState] /\ removal \in [Account -> RemovalType]
      /\ gate \in GateType /\ condemned \subseteq Tokens /\ budget \in [Budget -> Nat]
  BY <1>1, RequestFacts
<1> DEFINE new == [at |-> "revoking", token |-> store.token[a], grant |-> grant[a],
                   status |-> status[a], signOut |-> signOut]
           gone == cancelledWith(a)
<1>3. /\ Quiet /\ spend("removals") /\ "removals" \in Budget
      /\ removal' = [removal EXCEPT ![a] = new]
      /\ suppressed' = suppressed \cup {a} /\ flights' = flights \ gone
      /\ req' = resumed(gone, "stale", req)
      /\ condemned' = condemned \cup {store.token[a]}
      /\ UNCHANGED <<accountVars, status, shown, page, scenario, gate>>
  BY DEF StartRemoval, Budget
<1>4. gone \in SUBSET flights /\ \A f \in flights : f \in gone <=> f.account = a
  BY DEF cancelledWith
<1>5. new \in RemovalType /\ new.at = "revoking"
  BY <1>1 DEF RemovalType, ReconnectTypeOK
<1> HIDE DEF new, gone
<1>6. /\ req' \in [Request -> RequestState]
      /\ \A r \in Request :
            /\ req'[r].origin = req[r].origin /\ req'[r].sent = req[r].sent
            /\ IF \E h \in gone : r \in h.waiters
               THEN req'[r].at = "resumed" /\ req'[r].heard = "stale"
               ELSE req'[r] = req[r]
  BY <1>2, <1>3, Resumed DEF Heard
<1>7. AccountsTypeOK' /\ Tokens' = Tokens /\ AccountsStep /\ active' = active
  BY <1>1, <1>3, AccountsUntouched DEF accountVars, active
<1>8. UNCHANGED <<store, grant>>
  BY <1>3 DEF accountVars
<1>9. /\ FlightsOK' /\ WaitsKeep
      /\ \A r \in Request : req'[r].at = "waiting" => \E h \in flights' : r \in h.waiters
  <2>1. \A h \in flights' : h.account \notin suppressed'
    BY <1>1, <1>3, <1>4 DEF FlightsOK
  <2>2. \A r \in Request : IF \E h \in gone : r \in h.waiters
                           THEN req'[r].at = "resumed" ELSE Continues(r)
    BY <1>6 DEF Continues
  <2> QED BY <2>1, <2>2, <1>3, <1>4, Settles
<1>10. ReconnectTypeOK'
  BY <1>1, <1>3, <1>7, ReconnectStays DEF ReconnectTypeOK
<1>11. BudgetOK' /\ budget' \in [Budget -> Nat]
  BY <1>1, <1>2, <1>3, BudgetKept
<1>12. removal' \in [Account -> RemovalType] /\ removal'[a] = new
       /\ \A b \in Account : b # a => removal'[b] = removal[b]
  BY <1>2, <1>3, <1>5
<1>13. condemned' \subseteq Tokens' /\ condemned \subseteq condemned'
  BY <1>1, <1>2, <1>3, <1>7
<1>14. RequestTypeOK'
  <2>1. RequestState \subseteq RequestState' /\ RemovalType \subseteq RemovalType'
    BY <1>7, TypesGrow
  <2>2. req' \in [Request -> RequestState'] /\ removal' \in [Account -> RemovalType']
    BY <2>1, <1>6, <1>12
  <2> QED BY <2>2, <1>1, <1>2, <1>3, <1>7, <1>9, <1>11, <1>13, RequestStays
<1>15. PageOK' /\ PageTypeOK'
  <2>1. req'[Bulk].origin = req[Bulk].origin
    BY <1>6, RequestAssumption
  <2> QED BY <1>1, <1>3, <1>7, <2>1, PageSame DEF PageTypeOK
<1>16. RequestsOK'
  <2> SUFFICES ASSUME NEW r \in Request
               PROVE  RequestOK(r)'
    BY DEF RequestsOK
  <2>1. CASE \E h \in gone : r \in h.waiters
    <3>1. req[r].at = "waiting"
      BY <2>1, <1>4, FlightFacts
    <3>2. req'[r].at = "resumed" /\ req'[r].heard # "ok" /\ req'[r].origin = req[r].origin
      BY <2>1, <1>6
    <3> QED BY <3>1, <3>2, <1>1, <1>3 DEF RequestsOK, RequestOK
  <2>2. CASE ~\E h \in gone : r \in h.waiters
    BY <2>2, <1>1, <1>3, <1>6 DEF RequestsOK, RequestOK, Quiet
  <2> QED BY <2>1, <2>2
<1>17. RemovalsOK'
  <2>1. removal'[a].token \in condemned'
    BY <1>3, <1>12 DEF new
  <2> QED BY <2>1, <1>1, <1>12, <1>13 DEF RemovalsOK
<1>18. GateOK' /\ GrantMatchesToken'
  BY <1>1, <1>3, <1>8 DEF GateOK, SingleTab, GrantMatchesToken, stored
<1>19. AloneTokens'
  BY <1>1, <1>3, <1>8, <1>9, AloneTokensSame
<1>20. AloneRemovals'
  <2>1. /\ a \in suppressed' /\ suppressed \subseteq suppressed'
        /\ store'.token[a] = removal'[a].token /\ grant'[a] = removal'[a].grant
        /\ status'[a] = removal'[a].status
    BY <1>3, <1>8, <1>12 DEF new
  <2> QED BY <2>1, <1>1, <1>3, <1>8, <1>12, AccountAssumption
          DEF AloneRemovals, Alone, SingleTab, stored
<1>21. ShowsNoMore
  BY <1>3, <1>7 DEF ShowsNoMore
<1>22. AloneShown'
  BY <1>1, <1>3, <1>21, AloneShownSame
<1>23. ReconnectingIsTrueAlone'
  <2>1. CASE active = a
    <3>1. removal'[active'].at = "revoking"
      BY <2>1, <1>5, <1>7, <1>12
    <3> QED BY <3>1 DEF ReconnectingIsTrueAlone, ReconnectingIsTrue
  <2>2. CASE active # a
    <3>1. \A f \in flights : f.account = active => f \in flights'
      BY <2>2, <1>3, <1>4
    <3>2. active # None => removal'[active] = removal[active]
      BY <2>2, <1>1, <1>12, AccountFacts
    <3> QED BY <3>1, <3>2, <1>1, <1>3, <1>7, <1>21, AloneSame
  <2> QED BY <2>1, <2>2
<1> QED
  BY <1>7, <1>9, <1>10, <1>11, <1>14, <1>15, <1>16, <1>17, <1>18, <1>19, <1>20, <1>22, <1>23
     DEF IInv, TypeOK, AloneOK

\* The account is removed when its sign-out is answered.
LEMMA RemovalEnds ==
    ASSUME IInv, Quiet, NEW a \in Account, removal[a].at = "revoking",
           removal' = [removal EXCEPT ![a] = NoRemoval], suppressed' = suppressed \ {a},
           UNCHANGED <<basis, flights, scenario, condemned, budget>>,
           asAsked(a), store' = accountRemoved(a), grant' = withoutGrant(a),
           status' = [status EXCEPT ![a] = NoStatus],
           NEW newGate \in GateType, newGate.at = gate.at, newGate.using = gate.using,
           hears(removalEvent(a), req, newGate)
    PROVE  IInv' /\ AccountsStep
<1>1. /\ AccountsTypeOK /\ ReconnectTypeOK /\ RequestTypeOK /\ RequestsOK /\ FlightsOK
      /\ RemovalsOK /\ GateOK /\ BudgetOK
      /\ grant \in [Account -> Tokens] /\ store.token \in [Account -> Tokens]
      /\ suppressed \subseteq Account
      /\ status \in [Account -> [state: State, generation: Nat]]
  BY DEF IInv, TypeOK, AccountsTypeOK, ReconnectTypeOK
<1>2. /\ req \in [Request -> RequestState] /\ removal \in [Account -> RemovalType]
      /\ condemned \subseteq Tokens /\ budget \in [Budget -> Nat]
      /\ \A q \in Request : req[q].at = "waiting" => \E f \in flights : q \in f.waiters
  BY <1>1, RequestFacts
<1>3. stored(a) /\ store.token[a] \in condemned
  BY <1>1 DEF asAsked, RemovalsOK
<1>4. 0 \in Tokens
  BY <1>1, AccountFacts DEF Tokens
<1>5. grant' \in [Account -> Tokens] /\ \A b \in Account \ {a} : grant'[b] = grant[b]
  <2>1. grant' = [grant EXCEPT ![a] = 0]
    BY DEF withoutGrant
  <2> QED BY <2>1, <1>1, <1>4
<1>6. /\ removal' \in [Account -> RemovalType] /\ removal'[a].at = "idle"
      /\ \A b \in Account \ {a} : removal'[b] = removal[b]
  <2>1. NoRemoval \in RemovalType /\ NoRemoval.at = "idle"
    BY <1>4 DEF NoRemoval, NoStatus, RemovalType, State
  <2> QED BY <2>1, <1>2
<1>7. /\ status' \in [Account -> [state: State, generation: Nat]]
      /\ \A b \in Account \ {a} : status'[b] = status[b]
  BY <1>1 DEF NoStatus, State
<1>8. \A b \in Account : removal'[b].at = "revoking" =>
          removal'[b] = removal[b] /\ (b \in suppressed => b \in suppressed')
  BY <1>6
<1>9. /\ AccountsTypeOK' /\ Tokens' = Tokens /\ TokensStep
      /\ GrantMatchesToken' /\ PageOK' /\ PageTypeOK' /\ AloneOK' /\ ReconnectingIsTrueAlone'
      /\ GateOK' /\ gate' \in GateType /\ shown' \in State
      /\ req' \in [Request -> RequestState]
      /\ \A r \in Request :
            /\ req'[r].at = req[r].at /\ req'[r].origin = req[r].origin
            /\ req'[r].sent = req[r].sent /\ req'[r].heard = req[r].heard
      /\ store'.token = [store.token EXCEPT ![a] = 0]
  <2>1. newGate.at = "running" => newGate.using # None
    BY <1>1 DEF GateOK
  <2>2. \A f \in flights : f.account # a => f \in flights'
    OBVIOUS
  <2>3. \A b \in Account \ {a} :
            grant'[b] = grant[b] /\ status'[b] = status[b] /\ removal'[b] = removal[b]
    BY <1>5, <1>6, <1>7
  <2>4. \A r \in Request :
            req[r].at \in {"sent", "waiting"} =>
                req[r].at = req[r].at /\ req[r].origin = req[r].origin /\ req[r].sent = req[r].sent
    OBVIOUS
  <2>5. UNCHANGED <<basis, scenario>> /\ req[Bulk].origin = req[Bulk].origin
    OBVIOUS
  <2> QED BY <1>2, <1>3, <1>5, <1>8, <2>1, <2>2, <2>3, <2>4, <2>5, AccountGoes
<1>10. RequestsKeep /\ \A r \in Request : Continues(r)
  BY <1>9 DEF RequestsKeep, Continues
<1>11. RequestsOK'
  BY <1>1, <1>10, RequestsSame
<1>12. FlightsOK'
  BY <1>1, <1>10, FlightsSame, FlightFacts
<1>13. LeavesStep
  BY <1>1, <1>3, <1>9 DEF LeavesStep, stored
<1>14. ReconnectTypeOK'
  BY <1>1, <1>7, <1>9, ReconnectStays
<1>15. RequestTypeOK'
  <2>1. RequestState \subseteq RequestState' /\ RemovalType \subseteq RemovalType'
    BY <1>9, TypesGrow
  <2>2. req' \in [Request -> RequestState'] /\ removal' \in [Account -> RemovalType']
    BY <2>1, <1>6, <1>9
  <2>3. \A q \in Request : req'[q].at = "waiting" => \E f \in flights' : q \in f.waiters
    BY <1>2, <1>9
  <2> QED BY <2>2, <2>3, <1>1, <1>2, <1>9, RequestStays
<1>16. RemovalsOK' /\ BudgetOK'
  BY <1>1, <1>6 DEF RemovalsOK, BudgetOK, SingleTab
<1> QED
  BY <1>9, <1>11, <1>12, <1>13, <1>14, <1>15, <1>16 DEF IInv, TypeOK, AccountsStep

\* The account stays: it is not the one that was meant, or the server refuses.
LEMMA RemovalLapses ==
    ASSUME IInv, Quiet, NEW a \in Account, removal[a].at = "revoking",
           removal' = [removal EXCEPT ![a] = NoRemoval], suppressed' = suppressed \ {a},
           UNCHANGED <<basis, flights, scenario, condemned, budget, store, grant, page, req>>,
           gate' \in GateType, gate'.at = gate.at, gate'.using = gate.using,
           \/ ~asAsked(a) /\ UNCHANGED <<status, shown>>
           \/ resetCancelledReconnectStatus(a, removal[a])
    PROVE  IInv' /\ AccountsStep
<1>1. /\ AccountsTypeOK /\ ReconnectTypeOK /\ RequestTypeOK /\ PageOK /\ PageTypeOK
      /\ RequestsOK /\ FlightsOK /\ RemovalsOK /\ GateOK /\ BudgetOK /\ GrantMatchesToken
      /\ AloneTokens /\ AloneRemovals /\ AloneShown /\ ReconnectingIsTrueAlone
      /\ suppressed \subseteq Account /\ shown \in State
      /\ status \in [Account -> [state: State, generation: Nat]]
  BY DEF IInv, TypeOK, AloneOK, ReconnectTypeOK
<1>2. /\ req \in [Request -> RequestState] /\ removal \in [Account -> RemovalType]
      /\ condemned \subseteq Tokens /\ budget \in [Budget -> Nat]
      /\ \A q \in Request : req[q].at = "waiting" => \E f \in flights : q \in f.waiters
  BY <1>1, RequestFacts
<1>3. AccountsTypeOK' /\ Tokens' = Tokens /\ AccountsStep /\ active' = active
  BY <1>1, AccountsUntouched DEF accountVars, active
<1>4. /\ removal' \in [Account -> RemovalType] /\ removal'[a].at = "idle"
      /\ \A b \in Account \ {a} : removal'[b] = removal[b]
  <2>1. 0 \in Tokens
    BY <1>1, AccountFacts DEF Tokens
  <2>2. NoRemoval \in RemovalType /\ NoRemoval.at = "idle"
    BY <2>1 DEF NoRemoval, NoStatus, RemovalType, State
  <2> QED BY <2>2, <1>2
<1>5. /\ status' \in [Account -> [state: State, generation: Nat]] /\ shown' \in State
      /\ \A b \in Account \ {a} : status'[b] = status[b]
      /\ \/ status' = status /\ shown' = shown
         \/ shown' = IF active = a /\ a \in Vnu THEN "idle" ELSE shown
  <2>1. CASE UNCHANGED <<status, shown>>
    BY <2>1, <1>1
  <2>2. CASE publish(a, "idle", store)
    BY <2>2, <1>1, Published DEF State
  <2> QED BY <2>1, <2>2 DEF resetCancelledReconnectStatus
<1>6. ReconnectTypeOK'
  BY <1>1, <1>3, <1>5, ReconnectStays
<1>7. RequestTypeOK'
  <2>1. RequestState \subseteq RequestState' /\ RemovalType \subseteq RemovalType'
    BY <1>3, TypesGrow
  <2>2. req' \in [Request -> RequestState'] /\ removal' \in [Account -> RemovalType']
    BY <2>1, <1>2, <1>4
  <2> QED BY <2>2, <1>1, <1>2, <1>3, RequestStays
<1>8. FlightsOK'
  BY <1>1 DEF FlightsOK
<1>9. RequestsOK'
  BY <1>1, <1>3 DEF RequestsOK, RequestOK
<1>10. RemovalsOK' /\ GateOK' /\ BudgetOK' /\ GrantMatchesToken'
  BY <1>1, <1>4 DEF RemovalsOK, GateOK, BudgetOK, SingleTab, GrantMatchesToken, stored
<1>11. PageOK' /\ PageTypeOK'
  BY <1>1, <1>3, PageSame DEF PageTypeOK
<1>12. AloneTokens'
  BY <1>1 DEF AloneTokens, Alone, SingleTab
<1>13. AloneRemovals'
  BY <1>1, <1>4, <1>5, AccountAssumption, AloneRemovalsSame
<1>14. ShowsNoMore
  BY <1>3, <1>5 DEF ShowsNoMore
<1>15. AloneShown'
  <2>1. ASSUME Alone, shown' = "reconnecting", active' # None
        PROVE  status'[active] = status[active]
    <3>1. active \in Account /\ shown = "reconnecting" /\ active # None
      BY <2>1, <1>1, <1>3, <1>14, AccountFacts DEF ShowsNoMore
    <3>2. active \in Vnu
      BY <2>1, <3>1, <1>1 DEF AloneShown
    <3> QED BY <2>1, <3>1, <3>2, <1>5
  <2> QED BY <2>1, <1>1, <1>14, AloneShownSame
<1>16. ReconnectingIsTrueAlone'
  <2>1. ASSUME Alone, shown' = "reconnecting", active' # None
        PROVE  active # a
    <3> SUFFICES ASSUME active = a
                 PROVE  FALSE
      OBVIOUS
    <3>1. shown = "reconnecting" /\ active # None
      BY <2>1, <1>3, <1>14 DEF ShowsNoMore
    <3>2. a \in Vnu /\ status[a].state = "reconnecting" /\ stored(a)
      BY <2>1, <3>1, <1>1, AccountFacts DEF AloneShown
    <3>3. /\ store.token[a] = removal[a].token /\ grant[a] = removal[a].grant
          /\ status[a] = removal[a].status
      BY <2>1, <3>2, <1>1 DEF AloneRemovals
    <3>4. asAsked(a)
      BY <3>2, <3>3 DEF asAsked
    <3>5. publish(a, "idle", store)
      BY <3>2, <3>3, <3>4 DEF resetCancelledReconnectStatus
    <3>6. shown' = "idle"
      BY <3>2, <3>5, <1>1, AccountAssumption, Published DEF State
    <3> QED BY <2>1, <3>6
  <2>2. active \in {None} \cup Account
    BY <1>1, AccountFacts
  <2> QED BY <2>1, <2>2, <1>1, <1>3, <1>4, <1>14, AloneSame
<1> QED
  BY <1>3, <1>6, <1>7, <1>8, <1>9, <1>10, <1>11, <1>12, <1>13, <1>15, <1>16
     DEF IInv, TypeOK, AloneOK

LEMMA RemovalAnsweredKeeps ==
    ASSUME IInv, NEW a \in Account, RemovalAnswered(a)
    PROVE  IInv' /\ AccountsStep
<1> DEFINE forgotten == IF removal[a].signOut THEN [gate EXCEPT !.creds = None] ELSE gate
<1>1. gate \in GateType
  BY RequestFacts DEF IInv, TypeOK
<1>2. forgotten \in GateType /\ forgotten.at = gate.at /\ forgotten.using = gate.using
  BY <1>1 DEF GateType
<1>3. /\ Quiet /\ removal[a].at = "revoking"
      /\ removal' = [removal EXCEPT ![a] = NoRemoval] /\ suppressed' = suppressed \ {a}
      /\ UNCHANGED <<basis, flights, scenario, condemned, budget>>
  BY DEF RemovalAnswered
<1>4. CASE /\ asAsked(a) /\ store' = accountRemoved(a) /\ grant' = withoutGrant(a)
           /\ status' = [status EXCEPT ![a] = NoStatus]
           /\ hears(removalEvent(a), req, forgotten)
  <2> HIDE DEF forgotten
  <2> QED BY <1>2, <1>3, <1>4, RemovalEnds
<1>5. CASE /\ ~asAsked(a) /\ gate' = forgotten
           /\ UNCHANGED <<store, grant, status, shown, page, req>>
  <2> HIDE DEF forgotten
  <2> QED BY <1>2, <1>3, <1>5, RemovalLapses
<1>6. CASE /\ resetCancelledReconnectStatus(a, removal[a])
           /\ UNCHANGED <<store, grant, page, req, gate>>
  BY <1>1, <1>3, <1>6, RemovalLapses
<1> QED BY <1>4, <1>5, <1>6 DEF RemovalAnswered

-----------------------------------------------------------------------------
(* The gate, the user and the other tab.                                   *)

\* What a change of the accounts leaves of the rest, when the tab hears of it.
LEMMA TabHears ==
    ASSUME IInv, Quiet, UNCHANGED <<flights, scenario, removal, condemned>>,
           AccountsTypeOK', Tokens \subseteq Tokens',
           NEW event \in {"switched", "left", "cleared"},
           NEW newGate \in GateType, newGate.at = "running" => newGate.using # None,
           hears(event, req, newGate), suppressed' \subseteq suppressed,
           status' \in [Account -> [state: State, generation: Nat]],
           budget' = budget \/ \E what \in Budget : spend(what)
    PROVE  /\ TypeOK' /\ FlightsOK' /\ RequestsOK' /\ RemovalsOK' /\ GateOK' /\ BudgetOK'
           /\ PageOK' /\ WaitsKeep
           /\ shown' = "reconnecting" => shown = "reconnecting" /\ event # "switched"
           /\ gate'.at \in {newGate.at, "idle"}
<1>1. /\ ReconnectTypeOK /\ RequestTypeOK /\ RequestsOK /\ FlightsOK /\ RemovalsOK /\ BudgetOK
      /\ shown \in State /\ suppressed \subseteq Account
  BY DEF IInv, TypeOK, ReconnectTypeOK
<1>2. /\ req \in [Request -> RequestState] /\ removal \in [Account -> RemovalType]
      /\ condemned \subseteq Tokens /\ budget \in [Budget -> Nat]
      /\ \A q \in Request : req[q].at = "waiting" => \E f \in flights : q \in f.waiters
  BY <1>1, RequestFacts
<1>3. /\ page' = EmptyPage
      /\ req' \in [Request -> RequestState]
      /\ \A r \in Request :
            /\ req'[r].at = req[r].at /\ req'[r].origin = req[r].origin
            /\ req'[r].sent = req[r].sent /\ req'[r].heard = req[r].heard
      /\ shown' \in State
      /\ shown' = "reconnecting" => shown = "reconnecting" /\ event # "switched"
      /\ gate' \in GateType /\ gate'.using = newGate.using
      /\ gate'.at \in {newGate.at, "idle"}
  BY <1>1, <1>2, Hears
<1>4. RequestsKeep /\ WaitsKeep /\ \A r \in Request : Continues(r)
  BY <1>3 DEF RequestsKeep, WaitsKeep, Continues
<1>5. BudgetOK' /\ budget' \in [Budget -> Nat]
  BY <1>1, <1>2, BudgetKept
<1>6. ReconnectTypeOK'
  BY <1>1, <1>3, ReconnectStays
<1>7. RequestTypeOK'
  <2>1. RequestState \subseteq RequestState' /\ RemovalType \subseteq RemovalType'
    BY TypesGrow
  <2>2. req' \in [Request -> RequestState'] /\ removal' \in [Account -> RemovalType']
    BY <2>1, <1>2, <1>3
  <2>3. \A q \in Request : req'[q].at = "waiting" => \E f \in flights' : q \in f.waiters
    BY <1>2, <1>3
  <2> QED BY <2>2, <2>3, <1>1, <1>2, <1>3, <1>5, RequestStays
<1>8. PageOK' /\ PageTypeOK'
  BY <1>3, PageEmpty
<1>9. FlightsOK'
  BY <1>1, <1>4, FlightsSame, FlightFacts
<1>10. RequestsOK'
  BY <1>1, <1>4, RequestsSame
<1>11. RemovalsOK' /\ GateOK'
  BY <1>1, <1>3 DEF RemovalsOK, GateOK
<1> QED
  BY <1>3, <1>4, <1>5, <1>6, <1>7, <1>8, <1>9, <1>10, <1>11 DEF TypeOK

LEMMA ReauthSucceedsKeeps ==
    ASSUME IInv, ReauthSucceeds
    PROVE  IInv' /\ AccountsStep
<1> DEFINE a == gate.using
           newGate == [gate EXCEPT !.at = "idle", !.cool = TRUE]
<1>1. /\ AccountsTypeOK /\ ReconnectTypeOK /\ RequestTypeOK /\ GateOK /\ GrantMatchesToken
      /\ AloneTokens /\ AloneRemovals
      /\ grant \in [Account -> Tokens] /\ store.token \in [Account -> Tokens]
      /\ status \in [Account -> [state: State, generation: Nat]]
  BY DEF IInv, TypeOK, AloneOK, AccountsTypeOK, ReconnectTypeOK
<1>2. /\ Quiet /\ gate.at = "running"
      /\ store' = upserted(a, freshToken) /\ issue(0)
      /\ hears("switched", req, newGate)
      /\ suppressed' = IF stored(a) THEN suppressed ELSE suppressed \ {a}
      /\ UNCHANGED <<grant, flights, status, scenario, removal, condemned, budget>>
  BY DEF ReauthSucceeds
<1>3. gate \in GateType /\ a \in Account /\ a \notin Vnu
  BY <1>1, <1>2, RequestFacts DEF GateOK, GateType
<1>4. newGate \in GateType /\ newGate.at = "idle"
  BY <1>3 DEF GateType
<1>5. /\ Tokens \subseteq Tokens' /\ freshToken # 0 /\ basis'[freshToken] = 0
  <2>1. 0 \in Tokens
    BY <1>1, AccountFacts DEF Tokens
  <2> QED BY <2>1, <1>1, <1>2, BasisGrows
<1>6. /\ AccountsTypeOK' /\ store'.token = [store.token EXCEPT ![a] = freshToken]
  <2>1. store' = [upserted(a, freshToken) EXCEPT !.active = a]
    BY <1>2, UpsertedActive
  <2>2. grant' \in [Account -> Tokens']
    BY <1>1, <1>2, <1>5
  <2> QED BY <2>1, <2>2, <1>1, <1>2, <1>3, Upserts
<1>7. /\ store'.token[a] = freshToken
      /\ \A b \in Account \ {a} : store'.token[b] = store.token[b]
  BY <1>1, <1>3, <1>6
<1>8. AccountsStep
  <2>1. TokensStep
    BY <1>5, <1>7 DEF TokensStep
  <2>2. LeavesStep
    BY <1>5, <1>7 DEF LeavesStep, stored
  <2> QED BY <2>1, <2>2 DEF AccountsStep
<1>9. /\ TypeOK' /\ FlightsOK' /\ RequestsOK' /\ RemovalsOK' /\ GateOK' /\ BudgetOK'
      /\ PageOK' /\ WaitsKeep /\ shown' # "reconnecting"
  <2> HIDE DEF newGate
  <2> QED BY <1>1, <1>2, <1>4, <1>5, <1>6, TabHears
<1>10. \A b \in Vnu : b # a /\ b \in Account
  BY <1>3, AccountAssumption
<1>11. GrantMatchesToken' /\ AloneTokens'
  BY <1>1, <1>2, <1>7, <1>9, <1>10, GrantsSame, AloneTokensSame
<1>12. AloneRemovals'
  BY <1>1, <1>2, <1>7, <1>10, AloneRemovalsSame
<1>13. AloneShown' /\ ReconnectingIsTrueAlone'
  BY <1>9 DEF AloneShown, ReconnectingIsTrueAlone, ReconnectingIsTrue
<1> QED BY <1>8, <1>9, <1>11, <1>12, <1>13 DEF IInv, AloneOK

LEMMA ReauthFailsKeeps ==
    ASSUME IInv, ReauthFails
    PROVE  IInv' /\ AccountsStep
<1>1. /\ AccountsTypeOK /\ ReconnectTypeOK /\ RequestTypeOK /\ GateOK /\ GrantMatchesToken
      /\ AloneTokens /\ AloneRemovals /\ AloneShown /\ ReconnectingIsTrueAlone /\ BudgetOK
      /\ RequestsOK /\ RemovalsOK /\ FlightsOK
      /\ grant \in [Account -> Tokens] /\ store.token \in [Account -> Tokens]
      /\ status \in [Account -> [state: State, generation: Nat]]
  BY DEF IInv, TypeOK, AloneOK, AccountsTypeOK, ReconnectTypeOK
<1>2. /\ req \in [Request -> RequestState] /\ removal \in [Account -> RemovalType]
      /\ condemned \subseteq Tokens /\ budget \in [Budget -> Nat] /\ gate \in GateType
      /\ \A q \in Request : req[q].at = "waiting" => \E f \in flights : q \in f.waiters
  BY <1>1, RequestFacts
<1>3. PICK creds \in {gate.creds, None} :
        LET over == [gate EXCEPT !.at = "idle", !.creds = creds]
        IN  IF active # None
            THEN store' = accountRemoved(active) /\ hears(removalEvent(active), req, over)
            ELSE UNCHANGED store /\ hears("cleared", req, over)
  BY DEF ReauthFails
<1> DEFINE over == [gate EXCEPT !.at = "idle", !.creds = creds]
<1>4. over \in GateType /\ over.at = "idle"
  BY <1>2 DEF GateType
<1>5. IF active # None
      THEN store' = accountRemoved(active) /\ hears(removalEvent(active), req, over)
      ELSE UNCHANGED store /\ hears("cleared", req, over)
  BY <1>3
<1> HIDE DEF over
<1>6. /\ Quiet /\ gate.at = "running"
      /\ UNCHANGED <<grant, basis, flights, suppressed, status, scenario, removal, condemned,
                     budget>>
  BY DEF ReauthFails
<1>7. CASE active # None
  <2>1. PICK a \in Account : a = active /\ stored(a)
    BY <1>1, <1>7, AccountFacts
  <2>2. /\ AccountsTypeOK' /\ Tokens' = Tokens /\ TokensStep
        /\ GrantMatchesToken' /\ PageOK' /\ PageTypeOK' /\ AloneOK' /\ ReconnectingIsTrueAlone'
        /\ GateOK' /\ gate' \in GateType /\ gate'.at = "idle" /\ shown' \in State
        /\ req' \in [Request -> RequestState]
        /\ \A r \in Request :
              /\ req'[r].at = req[r].at /\ req'[r].origin = req[r].origin
              /\ req'[r].sent = req[r].sent /\ req'[r].heard = req[r].heard
    <3>1. hears(removalEvent(a), req, over) /\ store' = accountRemoved(a)
      BY <2>1, <1>5, <1>7
    <3>2. \A f \in flights : f.account # a => f \in flights'
      BY <1>6
    <3>3. \A b \in Account \ {a} :
              grant'[b] = grant[b] /\ status'[b] = status[b] /\ removal'[b] = removal[b]
      BY <1>6
    <3>4. \A b \in Account : removal'[b].at = "revoking" =>
              removal'[b] = removal[b] /\ (b \in suppressed => b \in suppressed')
      BY <1>6
    <3>5. \A r \in Request :
              req[r].at \in {"sent", "waiting"} =>
                  req[r].at = req[r].at /\ req[r].origin = req[r].origin /\ req[r].sent = req[r].sent
      OBVIOUS
    <3>6. UNCHANGED <<basis, scenario>> /\ req[Bulk].origin = req[Bulk].origin
          /\ (over.at = "running" => over.using # None) /\ grant' \in [Account -> Tokens]
      BY <1>1, <1>4, <1>6
    <3>7. stored(a) /\ grant' \in [Account -> Tokens]
          /\ (over.at = "running" => over.using # None)
      BY <2>1, <3>6
    <3>8. /\ AccountsTypeOK' /\ Tokens' = Tokens /\ TokensStep
          /\ GrantMatchesToken' /\ PageOK' /\ PageTypeOK' /\ AloneOK'
          /\ ReconnectingIsTrueAlone'
          /\ GateOK' /\ gate' \in GateType /\ gate'.at \in {over.at, "idle"} /\ shown' \in State
          /\ req' \in [Request -> RequestState]
          /\ \A r \in Request :
                /\ req'[r].at = req[r].at /\ req'[r].origin = req[r].origin
                /\ req'[r].sent = req[r].sent /\ req'[r].heard = req[r].heard
      BY <1>2, <1>4, <3>1, <3>2, <3>3, <3>4, <3>5, <3>6, <3>7, AccountGoes
    <3> QED BY <1>4, <3>8
  <2>3. RequestsKeep /\ \A r \in Request : Continues(r)
    BY <2>2 DEF RequestsKeep, Continues
  <2>4. RequestsOK' /\ FlightsOK'
    BY <2>3, <1>1, <1>6, RequestsSame, FlightsSame, FlightFacts
  <2>5. LeavesStep
    BY <2>2, <1>6 DEF LeavesStep
  <2>6. ReconnectTypeOK'
    BY <2>2, <1>1, <1>6, ReconnectStays DEF ReconnectTypeOK
  <2>7. RequestTypeOK'
    <3>1. RequestState \subseteq RequestState' /\ RemovalType \subseteq RemovalType'
      BY <2>2, TypesGrow
    <3>2. req' \in [Request -> RequestState'] /\ removal' \in [Account -> RemovalType']
      BY <3>1, <2>2, <1>2, <1>6
    <3>3. \A q \in Request : req'[q].at = "waiting" => \E f \in flights' : q \in f.waiters
      BY <2>2, <1>2, <1>6
    <3> QED BY <3>2, <3>3, <2>2, <1>1, <1>2, <1>6, RequestStays
  <2>8. RemovalsOK' /\ BudgetOK'
    BY <1>1, <1>6 DEF RemovalsOK, BudgetOK, SingleTab
  <2> QED BY <2>2, <2>4, <2>5, <2>6, <2>7, <2>8 DEF IInv, TypeOK, AccountsStep
<1>8. CASE active = None
  <2>1. AccountsTypeOK' /\ Tokens' = Tokens /\ AccountsStep /\ active' = None
    BY <1>1, <1>5, <1>6, <1>8, AccountsUntouched DEF accountVars, active
  <2>2. /\ TypeOK' /\ FlightsOK' /\ RequestsOK' /\ RemovalsOK' /\ GateOK' /\ BudgetOK'
        /\ PageOK' /\ WaitsKeep
    BY <2>1, <1>1, <1>4, <1>5, <1>6, <1>8, TabHears
  <2>3. GrantMatchesToken' /\ AloneTokens' /\ AloneRemovals'
    BY <2>2, <1>1, <1>5, <1>6, <1>8, GrantsSame, AloneTokensSame, AloneRemovalsSame
  <2>4. AloneShown' /\ ReconnectingIsTrueAlone'
    BY <2>1 DEF AloneShown, ReconnectingIsTrueAlone, ReconnectingIsTrue
  <2> QED BY <2>1, <2>2, <2>3, <2>4 DEF IInv, AloneOK
<1> QED BY <1>7, <1>8

LEMMA SignInKeeps ==
    ASSUME IInv, NEW a \in Account, SignIn(a)
    PROVE  IInv' /\ AccountsStep
<1>1. /\ AccountsTypeOK /\ ReconnectTypeOK /\ RequestTypeOK /\ GateOK /\ GrantMatchesToken
      /\ BudgetOK
      /\ grant \in [Account -> Tokens] /\ store.token \in [Account -> Tokens]
      /\ status \in [Account -> [state: State, generation: Nat]]
  BY DEF IInv, TypeOK, AccountsTypeOK, ReconnectTypeOK
<1>2. gate \in GateType /\ budget \in [Budget -> Nat] /\ "signIns" \in Budget
  BY <1>1, RequestFacts DEF Budget
<1>3. /\ Quiet /\ gate.at = "idle" /\ spend("signIns") /\ issue(0)
      /\ UNCHANGED <<flights, scenario, removal, condemned>>
  BY DEF SignIn, User
<1>4. ~scenario.sole
  BY <1>1, <1>2, <1>3 DEF BudgetOK, spend
<1>5. newIdentity(a)
  BY DEF SignIn
<1>6. suppressed' \subseteq suppressed
      /\ status' \in [Account -> [state: State, generation: Nat]]
  BY <1>1, <1>5 DEF newIdentity, NoStatus, State
<1>7. /\ Tokens \subseteq Tokens' /\ freshToken # 0 /\ freshToken \in Tokens'
      /\ basis'[freshToken] = 0 /\ 0 \in Tokens
  <2>1. 0 \in Tokens
    BY <1>1, AccountFacts DEF Tokens
  <2> QED BY <2>1, <1>1, <1>3, BasisGrows
<1>8. PICK act \in {a, active} : store' = [upserted(a, freshToken) EXCEPT !.active = act]
  <2>1. CASE store' = upserted(a, freshToken)
    BY <2>1, UpsertedActive
  <2>2. CASE store' = [upserted(a, freshToken) EXCEPT !.active = active]
    BY <2>2
  <2> QED BY <2>1, <2>2 DEF SignIn
<1>9. /\ grant' \in [Account -> Tokens']
      /\ \A b \in Account \ {a} : grant'[b] = grant[b]
      /\ a \in Vnu => grant'[a] \in {0, freshToken}
  <2>1. CASE grant' = [grant EXCEPT ![a] = freshToken]
    BY <2>1, <1>1, <1>7
  <2>2. CASE grant' = withoutGrant(a)
    BY <2>2, <1>1, <1>7 DEF withoutGrant
  <2>3. CASE a \notin Vnu /\ UNCHANGED grant
    BY <2>3, <1>1, <1>7
  <2> QED BY <2>1, <2>2, <2>3 DEF SignIn
<1>10. /\ AccountsTypeOK' /\ store'.token = [store.token EXCEPT ![a] = freshToken]
  BY <1>1, <1>3, <1>8, <1>9, Upserts
<1>11. /\ store'.token[a] = freshToken
       /\ \A b \in Account \ {a} : store'.token[b] = store.token[b]
  BY <1>1, <1>10
<1>12. AccountsStep
  <2>1. TokensStep
    BY <1>7, <1>11 DEF TokensStep
  <2>2. LeavesStep
    BY <1>7, <1>11 DEF LeavesStep, stored
  <2> QED BY <2>1, <2>2 DEF AccountsStep
<1>13. /\ TypeOK' /\ FlightsOK' /\ RequestsOK' /\ RemovalsOK' /\ GateOK' /\ BudgetOK' /\ PageOK'
  <2>1. CASE hears("switched", req, [gate EXCEPT !.creds = IF a \in Vnu THEN @ ELSE a])
    <3> DEFINE newGate == [gate EXCEPT !.creds = IF a \in Vnu THEN @ ELSE a]
    <3>1. newGate \in GateType /\ newGate.at = "idle"
      BY <1>2, <1>3 DEF GateType
    <3>2. hears("switched", req, newGate)
      BY <2>1
    <3> HIDE DEF newGate
    <3> QED BY <3>1, <3>2, <1>2, <1>3, <1>6, <1>7, <1>10, TabHears
  <2>2. CASE hears("left", req, gate)
    BY <2>2, <1>2, <1>3, <1>6, <1>7, <1>10, TabHears
  <2> QED BY <2>1, <2>2 DEF SignIn
<1>14. GrantMatchesToken'
  BY <1>1, <1>3, <1>9, <1>11, AccountAssumption, GrantsSame
<1>15. AloneOK' /\ ReconnectingIsTrueAlone'
  BY <1>3, <1>4 DEF AloneOK, AloneTokens, AloneRemovals, AloneShown, Alone,
                    ReconnectingIsTrueAlone
<1> QED BY <1>12, <1>13, <1>14, <1>15 DEF IInv

LEMMA SwitchKeeps ==
    ASSUME IInv, NEW a \in Account, Switch(a)
    PROVE  IInv' /\ AccountsStep
<1>1. /\ AccountsTypeOK /\ ReconnectTypeOK /\ RequestTypeOK /\ GateOK /\ GrantMatchesToken
      /\ AloneTokens /\ AloneRemovals
      /\ status \in [Account -> [state: State, generation: Nat]]
  BY DEF IInv, TypeOK, AloneOK, ReconnectTypeOK
<1>2. gate \in GateType /\ "switches" \in Budget
  BY <1>1, RequestFacts DEF Budget
<1>3. /\ Quiet /\ gate.at = "idle" /\ stored(a) /\ spend("switches")
      /\ store' = [store EXCEPT !.active = a]
      /\ hears("switched", req, gate)
      /\ UNCHANGED <<grant, basis, flights, suppressed, status, scenario, removal, condemned>>
  BY DEF Switch, User
<1>4. AccountsTypeOK' /\ Tokens' = Tokens /\ store'.token = store.token
  BY <1>1, <1>3, Activates
<1>5. AccountsStep
  BY <1>4 DEF AccountsStep, TokensStep, LeavesStep, stored
<1>6. /\ TypeOK' /\ FlightsOK' /\ RequestsOK' /\ RemovalsOK' /\ GateOK' /\ BudgetOK'
      /\ PageOK' /\ WaitsKeep /\ shown' # "reconnecting"
  BY <1>1, <1>2, <1>3, <1>4, TabHears
<1>7. GrantMatchesToken' /\ AloneTokens' /\ AloneRemovals'
  BY <1>1, <1>3, <1>4, <1>6, GrantsSame, AloneTokensSame, AloneRemovalsSame
<1>8. AloneShown' /\ ReconnectingIsTrueAlone'
  BY <1>6 DEF AloneShown, ReconnectingIsTrueAlone, ReconnectingIsTrue
<1> QED BY <1>5, <1>6, <1>7, <1>8 DEF IInv, AloneOK

LEMMA ClearPageKeeps ==
    ASSUME IInv, ClearPage
    PROVE  IInv' /\ AccountsStep
<1>1. /\ AccountsTypeOK /\ ReconnectTypeOK /\ RequestTypeOK /\ GateOK /\ GrantMatchesToken
      /\ AloneTokens /\ AloneRemovals /\ AloneShown /\ ReconnectingIsTrueAlone
      /\ status \in [Account -> [state: State, generation: Nat]]
  BY DEF IInv, TypeOK, AloneOK, ReconnectTypeOK
<1>2. gate \in GateType /\ "cancels" \in Budget
  BY <1>1, RequestFacts DEF Budget
<1>3. /\ Quiet /\ gate.at = "idle" /\ spend("cancels") /\ hears("left", req, gate)
      /\ UNCHANGED <<accountVars, flights, suppressed, status, scenario, removal, condemned>>
  BY DEF ClearPage, User
<1>4. AccountsTypeOK' /\ Tokens' = Tokens /\ AccountsStep /\ UNCHANGED <<store, grant>>
      /\ active' = active
  BY <1>1, <1>3, AccountsUntouched DEF accountVars, active
<1>5. /\ TypeOK' /\ FlightsOK' /\ RequestsOK' /\ RemovalsOK' /\ GateOK' /\ BudgetOK'
      /\ PageOK' /\ WaitsKeep /\ (shown' = "reconnecting" => shown = "reconnecting")
  BY <1>1, <1>2, <1>3, <1>4, TabHears
<1>6. GrantMatchesToken' /\ AloneTokens' /\ AloneRemovals'
  BY <1>1, <1>3, <1>4, <1>5, GrantsSame, AloneTokensSame, AloneRemovalsSame
<1>7. AloneShown' /\ ReconnectingIsTrueAlone'
  BY <1>1, <1>3, <1>4, <1>5, AloneShownSame, AloneSame DEF ShowsNoMore
<1> QED BY <1>4, <1>5, <1>6, <1>7 DEF IInv, AloneOK

\* Another tab writes the accounts, and this one is not told.
LEMMA OtherTabKeeps ==
    ASSUME IInv, OtherTab
    PROVE  IInv' /\ AccountsStep
<1>1. /\ AccountsTypeOK /\ ReconnectTypeOK /\ RequestTypeOK /\ PageOK /\ PageTypeOK
      /\ RequestsOK /\ FlightsOK /\ RemovalsOK /\ GateOK /\ BudgetOK
      /\ grant \in [Account -> Tokens] /\ store.token \in [Account -> Tokens]
  BY DEF IInv, TypeOK, AccountsTypeOK
<1>2. /\ req \in [Request -> RequestState] /\ removal \in [Account -> RemovalType]
      /\ gate \in GateType /\ condemned \subseteq Tokens /\ budget \in [Budget -> Nat]
      /\ \A q \in Request : req[q].at = "waiting" => \E f \in flights : q \in f.waiters
      /\ "otherTab" \in Budget
  BY <1>1, RequestFacts DEF Budget
<1>3. /\ Quiet /\ spend("otherTab")
      /\ UNCHANGED <<page, scenario, req, removal, gate, condemned>>
      /\ UNCHANGED <<flights, suppressed, status, shown>>
  BY DEF OtherTab, reconnectVars
<1>4. ~SingleTab /\ ~SingleTab'
  BY <1>1, <1>2, <1>3 DEF BudgetOK, spend, SingleTab
<1>5. PICK a \in Account :
        /\ \/ store' = upserted(a, freshToken) /\ issue(0)
           \/ stored(a) /\ store' = rotated(a, freshToken) /\ issue(store.token[a])
           \/ stored(a) /\ store' = accountRemoved(a) /\ UNCHANGED basis
           \/ stored(a) /\ active # a /\ store' = [store EXCEPT !.active = a] /\ UNCHANGED basis
        /\ grant' = IF stored(a) THEN grant ELSE withoutGrant(a)
  BY DEF OtherTab, OtherTabWrites
<1>6. 0 \in Tokens
  BY <1>1, AccountFacts DEF Tokens
<1>7. grant' \in [Account -> Tokens] /\ (stored(a) => grant' = grant)
  BY <1>1, <1>5, <1>6 DEF withoutGrant
<1>8. AccountsTypeOK' /\ Tokens \subseteq Tokens' /\ TokensStep
  <2>1. CASE store' = upserted(a, freshToken) /\ issue(0)
    <3>1. Tokens \subseteq Tokens' /\ basis'[freshToken] = 0
      BY <2>1, <1>1, <1>6, BasisGrows
    <3>2. store' = [upserted(a, freshToken) EXCEPT !.active = a]
      BY <2>1, UpsertedActive
    <3>3. grant' \in [Account -> Tokens']
      BY <3>1, <1>7
    <3>4. AccountsTypeOK' /\ store'.token = [store.token EXCEPT ![a] = freshToken]
      BY <2>1, <3>2, <3>3, <1>1, Upserts
    <3>5. TokensStep
      BY <3>1, <3>4, <1>1 DEF TokensStep
    <3> QED BY <3>1, <3>4, <3>5
  <2>2. CASE stored(a) /\ store' = rotated(a, freshToken) /\ issue(store.token[a])
    <3>0. store.token[a] \in Tokens
      BY <1>1
    <3>1. Tokens \subseteq Tokens' /\ basis'[freshToken] = store.token[a]
      BY <2>2, <3>0, <1>1, BasisGrows
    <3>2. grant' \in [Account -> Tokens']
      BY <3>1, <1>7
    <3>3. AccountsTypeOK' /\ store'.token = [store.token EXCEPT ![a] = freshToken]
      BY <2>2, <3>0, <3>2, <1>1, Rotates
    <3>4. TokensStep
      BY <3>1, <3>3, <1>1 DEF TokensStep
    <3> QED BY <3>1, <3>3, <3>4
  <2>3. CASE stored(a) /\ store' = accountRemoved(a) /\ UNCHANGED basis
    <3>1. AccountsTypeOK' /\ Tokens' = Tokens /\ store'.token = [store.token EXCEPT ![a] = 0]
      BY <2>3, <1>1, <1>7, Removes
    <3>2. TokensStep
      BY <3>1, <1>1 DEF TokensStep
    <3> QED BY <3>1, <3>2
  <2>4. CASE stored(a) /\ store' = [store EXCEPT !.active = a] /\ UNCHANGED basis
    <3>1. AccountsTypeOK' /\ Tokens' = Tokens /\ store'.token = store.token
      BY <2>4, <1>1, <1>7, Activates
    <3>2. TokensStep
      BY <3>1 DEF TokensStep
    <3> QED BY <3>1, <3>2
  <2> QED BY <2>1, <2>2, <2>3, <2>4, <1>5
<1>9. AccountsStep
  BY <1>4, <1>8 DEF AccountsStep, LeavesStep
<1>10. ReconnectTypeOK'
  BY <1>1, <1>3, <1>8, ReconnectStays DEF ReconnectTypeOK
<1>11. BudgetOK' /\ budget' \in [Budget -> Nat]
  BY <1>1, <1>2, <1>3, BudgetKept
<1>12. RequestTypeOK'
  <2>1. RequestState \subseteq RequestState' /\ RemovalType \subseteq RemovalType'
    BY <1>8, TypesGrow
  <2>2. req' \in [Request -> RequestState'] /\ removal' \in [Account -> RemovalType']
    BY <2>1, <1>2, <1>3
  <2> QED BY <2>2, <1>1, <1>2, <1>3, <1>8, <1>11, RequestStays
<1>13. PageOK' /\ PageTypeOK'
  BY <1>1, <1>3, <1>4, PageSame DEF PageTypeOK
<1>14. RequestsKeep /\ \A r \in Request : Continues(r)
  BY <1>3 DEF RequestsKeep, Continues
<1>15. RequestsOK' /\ FlightsOK'
  BY <1>1, <1>3, <1>14, RequestsSame, FlightsSame, FlightFacts
<1>16. RemovalsOK' /\ GateOK'
  BY <1>1, <1>3 DEF RemovalsOK, GateOK
<1>17. GrantMatchesToken' /\ AloneOK' /\ ReconnectingIsTrueAlone'
  BY <1>4 DEF GrantMatchesToken, AloneOK, AloneTokens, AloneRemovals, AloneShown, Alone,
              ReconnectingIsTrueAlone, ReconnectingIsTrue
<1> QED
  BY <1>8, <1>9, <1>10, <1>11, <1>12, <1>13, <1>15, <1>16, <1>17 DEF IInv, TypeOK

-----------------------------------------------------------------------------
(* The bulk page.                                                          *)

\* The targets shown and those left are all of them, place by place.
InOrder(items, rest, n) ==
    /\ Len(items) + Len(rest) = n
    /\ \A i \in 1..Len(items) : items[i].target = i
    /\ \A i \in 1..Len(rest) : rest[i] = Len(items) + i

LEMMA PlaceByPlace ==
    ASSUME NEW items \in Seq(Item), NEW rest \in Seq(1..MaxTargets), NEW n \in Nat
    PROVE  targetsOf(items) \o rest = [i \in 1..n |-> i] <=> InOrder(items, rest, n)
<1> DEFINE targets == targetsOf(items)
           all == [i \in 1..n |-> i]
           m == Len(items)
           k == Len(rest)
<1>1. m \in Nat /\ k \in Nat /\ \A i \in 1..m : items[i].target \in Nat
  <2>1. \A i \in 1..m : items[i] \in Item
    BY ElementOfSeq
  <2> QED BY <2>1, PageAssumption DEF Item
<1>2. \A i \in 1..k : rest[i] \in Nat
  <2>1. \A i \in 1..k : rest[i] \in 1..MaxTargets
    BY ElementOfSeq
  <2> QED BY <2>1, PageAssumption
<1>3. targets \in Seq(Nat) /\ Len(targets) = m /\ \A i \in 1..m : targets[i] = items[i].target
  <2>1. targets = [i \in 1..m |-> items[i].target]
    BY DEF targetsOf
  <2>2. \A i \in 1..m : items[i].target \in Nat
    BY <1>1
  <2> QED BY <2>1, <2>2, <1>1
<1>4. rest \in Seq(Nat)
  BY <1>2
<1>5. all \in Seq(Nat) /\ Len(all) = n /\ \A i \in 1..n : all[i] = i
  OBVIOUS
<1> HIDE DEF targets, all, m, k
<1>6. /\ targets \o rest \in Seq(Nat)
      /\ Len(targets \o rest) = m + k
      /\ \A i \in 1..(m + k) : (targets \o rest)[i] = IF i <= m THEN targets[i] ELSE rest[i - m]
  BY <1>1, <1>3, <1>4, ConcatProperties DEF k
<1>7. ASSUME targets \o rest = all
      PROVE  InOrder(items, rest, n)
  <2>1. m + k = n /\ \A i \in 1..n : (targets \o rest)[i] = i
    BY <1>5, <1>6, <1>7
  <2>2. ASSUME NEW i \in 1..m
        PROVE  items[i].target = i
    <3>1. i \in 1..(m + k) /\ i <= m
      BY <1>1
    <3> QED BY <3>1, <2>1, <1>3, <1>6
  <2>3. ASSUME NEW i \in 1..k
        PROVE  rest[i] = m + i
    <3>1. m + i \in 1..(m + k) /\ ~(m + i <= m) /\ (m + i) - m = i
      BY <1>1
    <3>2. (targets \o rest)[m + i] = rest[i]
      BY <3>1, <1>6
    <3> QED BY <3>1, <3>2, <2>1
  <2> QED BY <2>1, <2>2, <2>3 DEF InOrder, m, k
<1>8. ASSUME InOrder(items, rest, n)
      PROVE  targets \o rest = all
  <2>1. /\ m + k = n /\ \A i \in 1..m : items[i].target = i
        /\ \A i \in 1..k : rest[i] = m + i
    BY <1>8 DEF InOrder, m, k
  <2>2. ASSUME NEW i \in 1..n
        PROVE  (targets \o rest)[i] = i
    <3>1. CASE i <= m
      <4>1. i \in 1..m
        BY <3>1
      <4> QED BY <3>1, <4>1, <2>1, <1>1, <1>3, <1>6
    <3>2. CASE ~(i <= m)
      <4>1. i - m \in 1..k /\ m + (i - m) = i
        BY <3>2, <2>1, <1>1
      <4> QED BY <3>2, <4>1, <2>1, <1>1, <1>6
    <3> QED BY <3>1, <3>2
  <2> QED BY <2>1, <2>2, <1>5, <1>6, SeqEqual
<1> QED BY <1>7, <1>8 DEF targets, all

Rest == IF page.at = "running" THEN page.pending ELSE page.left

LEMMA PageFacts ==
    ASSUME PageTypeOK
    PROVE  /\ page.at \in {"idle", "running"} /\ page.total \in 0..MaxTargets
           /\ page.items \in Seq(Item) /\ page.exported \in Seq(Item)
           /\ page.pending \in Seq(1..MaxTargets) /\ page.left \in Seq(1..MaxTargets)
           /\ page.model \in [status: {"none", "partial", "complete"}, count: Nat]
           /\ page.total \in Nat /\ MaxTargets \in Nat /\ ChunkMax \in Nat \ {0}
           /\ Rest \in Seq(1..MaxTargets)
           /\ page = [at |-> page.at, total |-> page.total, items |-> page.items,
                      exported |-> page.exported, pending |-> page.pending,
                      left |-> page.left, model |-> page.model]
BY PageAssumption DEF PageTypeOK, Rest

\* What has to be shown of a page, for the whole of a run.
WholeAs(p, rest) ==
    /\ InOrder(p.items, rest, p.total)
    /\ p.exported = p.items /\ p.model.count = Len(p.items)
    /\ p.model.status = "complete" <=> p.at = "idle" /\ p.items # <<>> /\ rest = <<>>
    /\ SingleTab => \A i \in 1..Len(p.items) : p.items[i].by = active

LEMMA PageIsWhole ==
    ASSUME PageTypeOK
    PROVE  TargetsAccountedFor /\ ResultsOfActive <=> WholeAs(page, Rest)
BY PageFacts, PlaceByPlace DEF TargetsAccountedFor, ResultsOfActive, WholeAs, Rest

\* A page that is whole, and runs for the account that is active, is in order.
LEMMA PageAgain ==
    ASSUME NEW p, page' = p,
           p \in [at: {"idle", "running"}, total: 0..MaxTargets,
                  items: Seq(Item), exported: Seq(Item),
                  pending: Seq(1..MaxTargets), left: Seq(1..MaxTargets),
                  model: [status: {"none", "partial", "complete"}, count: Nat]],
           WholeAs(p, IF p.at = "running" THEN p.pending ELSE p.left),
           UNCHANGED <<scenario, store>>,
           p.at = "running" =>
               /\ p.pending # <<>> /\ Bulk \in scenario.requests
               /\ req'[Bulk].origin.account \in Account
               /\ SingleTab => req'[Bulk].origin.account = active
    PROVE  PageOK' /\ PageTypeOK'
<1>1. PageTypeOK'
  BY DEF PageTypeOK
<1> DEFINE rest == IF p.at = "running" THEN p.pending ELSE p.left
<1>2. targetsOf(p.items) \o rest = [i \in 1..p.total |-> i]
  <2>1. p.items \in Seq(Item) /\ rest \in Seq(1..MaxTargets) /\ p.total \in Nat
    OBVIOUS
  <2>2. InOrder(p.items, rest, p.total)
    BY DEF WholeAs
  <2> HIDE DEF rest
  <2> QED BY <2>1, <2>2, PlaceByPlace
<1>3. TargetsAccountedFor'
  <2>1. (targetsOf(page.items) \o (IF page.at = "running" THEN page.pending ELSE page.left)
            = [i \in 1..page.total |-> i])'
    BY <1>2 DEF targetsOf
  <2> QED BY <2>1 DEF TargetsAccountedFor, WholeAs
<1>4. ResultsOfActive'
  BY DEF ResultsOfActive, WholeAs, SingleTab, active
<1> QED BY <1>1, <1>3, <1>4 DEF PageOK, SingleTab, active

PageType == [at: {"idle", "running"}, total: 0..MaxTargets,
             items: Seq(Item), exported: Seq(Item),
             pending: Seq(1..MaxTargets), left: Seq(1..MaxTargets),
             model: [status: {"none", "partial", "complete"}, count: Nat]]

RestOf(p) == IF p.at = "running" THEN p.pending ELSE p.left

\* A run goes on with what is left, or begins with all of it.
LEMMA RunStarts ==
    ASSUME PageTypeOK, PageOK, page.at = "idle", NEW n \in 1..MaxTargets
    PROVE  /\ runStarted(n) \in PageType
           /\ runStarted(n).at = "running" /\ runStarted(n).pending # <<>>
           /\ WholeAs(runStarted(n), RestOf(runStarted(n)))
<1> DEFINE p == runStarted(n)
<1>1. /\ page.total \in 0..MaxTargets /\ page.total \in Nat
      /\ page.items \in Seq(Item) /\ page.exported \in Seq(Item)
      /\ page.left \in Seq(1..MaxTargets)
      /\ page.model \in [status: {"none", "partial", "complete"}, count: Nat]
      /\ MaxTargets \in Nat /\ Rest = page.left /\ page \in PageType
  BY PageFacts DEF Rest, PageTypeOK, PageType
<1>2. WholeAs(page, page.left)
  BY <1>1, PageIsWhole DEF PageOK
<1>3. CASE retrying
  <2> DEFINE model == [page.model EXCEPT !.status = IF @ = "none" THEN @ ELSE "partial"]
  <2>1. model \in [status: {"none", "partial", "complete"}, count: Nat]
        /\ model.count = page.model.count /\ model.status # "complete"
    BY <1>1
  <2>2. p = [page EXCEPT !.at = "running", !.pending = page.left, !.model = model]
    BY <1>3, <1>1 DEF runStarted, PageType
  <2> HIDE DEF model, p
  <2>3. /\ p \in PageType /\ p.at = "running" /\ p.pending = page.left
        /\ p.items = page.items /\ p.exported = page.exported /\ p.total = page.total
        /\ p.model = model
    BY <2>1, <2>2, <1>1 DEF PageType
  <2>4. WholeAs(p, p.pending)
    BY <2>1, <2>3, <1>2 DEF WholeAs
  <2> QED BY <2>3, <2>4, <1>3 DEF retrying, RestOf, p
<1>4. CASE ~retrying
  <2> DEFINE pending == [i \in 1..n |-> i]
  <2>1. p = [EmptyPage EXCEPT !.at = "running", !.total = n, !.pending = pending]
    BY <1>4 DEF runStarted
  <2>2. pending \in Seq(1..MaxTargets) /\ Len(pending) = n /\ \A i \in 1..n : pending[i] = i
    BY <1>1
  <2>3. pending # <<>>
    BY <2>2
  <2> HIDE DEF pending, p
  <2>4. EmptyPage \in PageType
    <3>1. <<>> \in Seq(Item) /\ <<>> \in Seq(1..MaxTargets) /\ 0 \in 0..MaxTargets
      BY <1>1
    <3> QED BY <3>1 DEF EmptyPage, NoModel, PageType
  <2>5. /\ p \in PageType /\ p.at = "running" /\ p.pending = pending /\ p.total = n
        /\ p.items = <<>> /\ p.exported = <<>> /\ p.model = NoModel
    <3>1. n \in 0..MaxTargets
      BY <1>1
    <3>2. EmptyPage.items = <<>> /\ EmptyPage.exported = <<>> /\ EmptyPage.model = NoModel
      BY DEF EmptyPage
    <3> HIDE DEF EmptyPage
    <3> QED BY <2>1, <2>2, <2>4, <3>1, <3>2 DEF PageType
  <2>6. InOrder(<<>>, pending, n)
    BY <2>2, <1>1 DEF InOrder
  <2>7. WholeAs(p, p.pending)
    BY <2>5, <2>6 DEF WholeAs, NoModel
  <2> QED BY <2>3, <2>5, <2>7 DEF RestOf, p
<1> QED BY <1>3, <1>4

\* A chunk is shown: what is left begins behind it.
LEMMA ChunkShown ==
    ASSUME PageTypeOK, PageOK, page.at = "running", NEW by \in Account, SingleTab => by = active
    PROVE  /\ withChunk(by) \in PageType /\ withChunk(by).at = "running"
           /\ withChunk(by).items # <<>> /\ withChunk(by).model.status = "partial"
           /\ WholeAs(withChunk(by), withChunk(by).pending)
<1> DEFINE p == withChunk(by)
           k == chunkLength
           old == page.items
           pending == page.pending
           chunk == [i \in 1..k |-> [target |-> pending[i], by |-> by]]
           new == old \o chunk
           rest == SubSeq(pending, k + 1, Len(pending))
<1>1. /\ page.items \in Seq(Item) /\ page.exported \in Seq(Item)
      /\ page.pending \in Seq(1..MaxTargets) /\ page.pending # <<>>
      /\ page.total \in Nat /\ MaxTargets \in Nat /\ ChunkMax \in Nat \ {0}
      /\ Rest = page.pending /\ page \in PageType
  BY PageFacts DEF Rest, PageTypeOK, PageType, PageOK
<1>2. WholeAs(page, page.pending)
  BY <1>1, PageIsWhole DEF PageOK
<1>3. p = [page EXCEPT !.items = new, !.exported = page.exported \o chunk, !.pending = rest,
                       !.model = [status |-> "partial", count |-> Len(page.exported \o chunk)]]
  BY DEF withChunk
<1>4. page.exported = old
  BY <1>2 DEF WholeAs
<1>5. k \in Nat /\ k # 0 /\ k <= Len(pending) /\ Len(pending) \in Nat
  <2>1. Len(pending) \in Nat /\ Len(pending) # 0
    BY <1>1
  <2> QED BY <2>1, <1>1 DEF chunkLength
<1> HIDE DEF k
<1>6. \A i \in 1..Len(pending) : pending[i] \in 1..MaxTargets
  BY <1>1, ElementOfSeq
<1>7. chunk \in Seq(Item) /\ Len(chunk) = k
      /\ \A i \in 1..k : chunk[i].target = pending[i] /\ chunk[i].by = by
  <2>1. \A i \in 1..k : [target |-> pending[i], by |-> by] \in Item
    BY <1>5, <1>6 DEF Item
  <2> QED BY <2>1, <1>5
<1> HIDE DEF chunk
<1>8. /\ new \in Seq(Item) /\ Len(new) = Len(old) + k /\ Len(old) \in Nat
      /\ \A i \in 1..(Len(old) + k) :
            new[i] = IF i <= Len(old) THEN old[i] ELSE chunk[i - Len(old)]
  <2>1. Len(old) \in Nat
    BY <1>1
  <2> QED BY <2>1, <1>1, <1>7, ConcatProperties
<1>9. /\ rest \in Seq(1..MaxTargets) /\ Len(rest) = Len(pending) - k
      /\ \A i \in 1..(Len(pending) - k) : rest[i] = pending[k + i]
  <2>1. k + 1 \in Int /\ Len(pending) \in Int
        /\ \A i \in (k + 1)..Len(pending) : pending[i] \in 1..MaxTargets
    BY <1>5, <1>6
  <2>2. /\ rest \in Seq(1..MaxTargets)
        /\ Len(rest) = IF k + 1 <= Len(pending) THEN Len(pending) - (k + 1) + 1 ELSE 0
        /\ \A i \in 1..(Len(pending) - (k + 1) + 1) : rest[i] = pending[(k + 1) + i - 1]
    BY <2>1, SubSeqProperties
  <2>3. \A i \in 1..(Len(pending) - k) : (k + 1) + i - 1 = k + i
    BY <1>5
  <2> HIDE DEF rest
  <2> QED BY <2>2, <2>3, <1>5
<1> HIDE DEF new, rest, p
<1>10. /\ p \in PageType /\ p.at = "running" /\ p.items = new /\ p.exported = new
       /\ p.pending = rest /\ p.total = page.total
       /\ p.model = [status |-> "partial", count |-> Len(new)]
  <2>1. Len(new) \in Nat /\ page.exported \o chunk = new
    BY <1>4, <1>8 DEF new
  <2>2. [status |-> "partial", count |-> Len(new)]
            \in [status: {"none", "partial", "complete"}, count: Nat]
    BY <2>1
  <2> QED BY <2>1, <2>2, <1>1, <1>3, <1>8, <1>9 DEF PageType
<1>11. InOrder(new, rest, page.total)
  <2>1. /\ Len(old) + Len(pending) = page.total
        /\ \A i \in 1..Len(old) : old[i].target = i
        /\ \A i \in 1..Len(pending) : pending[i] = Len(old) + i
    BY <1>2 DEF WholeAs, InOrder
  <2>2. Len(new) + Len(rest) = page.total
    <3>1. Len(new) = Len(old) + k /\ Len(rest) = Len(pending) - k
      BY <1>8, <1>9
    <3>2. k \in Nat /\ Len(pending) \in Nat /\ Len(old) \in Nat
      BY <1>5, <1>8
    <3>3. Len(old) + Len(pending) = page.total
      BY <2>1
    <3>4. (Len(old) + k) + (Len(pending) - k) = Len(old) + Len(pending)
      <4>1. ASSUME NEW x \in Nat, NEW y \in Nat, NEW z \in Nat
            PROVE  (x + z) + (y - z) = x + y
        OBVIOUS
      <4> QED BY <4>1, <3>2
    <3> QED BY <3>1, <3>3, <3>4
  <2>3. ASSUME NEW i \in 1..Len(new)
        PROVE  new[i].target = i
    <3>1. CASE i <= Len(old)
      BY <3>1, <2>1, <1>8
    <3>2. CASE ~(i <= Len(old))
      <4>1. i - Len(old) \in 1..k /\ i - Len(old) \in 1..Len(pending)
            /\ Len(old) + (i - Len(old)) = i
        BY <3>2, <1>5, <1>8
      <4> QED BY <3>2, <4>1, <2>1, <1>7, <1>8
    <3> QED BY <3>1, <3>2
  <2>4. ASSUME NEW i \in 1..Len(rest)
        PROVE  rest[i] = Len(new) + i
    <3>1. k + i \in 1..Len(pending) /\ Len(old) + (k + i) = Len(new) + i
      BY <1>5, <1>8, <1>9
    <3> QED BY <3>1, <2>1, <1>9
  <2> QED BY <2>2, <2>3, <2>4 DEF InOrder
<1>12. SingleTab => \A i \in 1..Len(new) : new[i].by = active
  <2> SUFFICES ASSUME SingleTab, NEW i \in 1..Len(new)
               PROVE  new[i].by = active
    OBVIOUS
  <2>1. CASE i <= Len(old)
    BY <2>1, <1>2, <1>8 DEF WholeAs
  <2>2. CASE ~(i <= Len(old))
    <3>1. i - Len(old) \in 1..k
      BY <2>2, <1>5, <1>8
    <3> QED BY <2>2, <3>1, <1>7, <1>8
  <2> QED BY <2>1, <2>2
<1>13. WholeAs(p, rest)
  BY <1>10, <1>11, <1>12 DEF WholeAs
<1>14. new # <<>>
  BY <1>5, <1>8
<1> QED BY <1>10, <1>13, <1>14 DEF p

\* The end of a run keeps what it has not done.
LEMMA RunSettles ==
    ASSUME NEW p \in PageType, p.at = "running",
           InOrder(p.items, p.pending, p.total),
           p.exported = p.items, p.model.count = Len(p.items),
           SingleTab => \A i \in 1..Len(p.items) : p.items[i].by = active,
           p.model.status # "complete",
           p.model.status = "none" => p.pending # <<>>,
           p.pending = <<>> => p.items # <<>>
    PROVE  /\ runSettled(p) \in PageType /\ runSettled(p).at = "idle"
           /\ WholeAs(runSettled(p), runSettled(p).left)
<1> DEFINE q == runSettled(p)
           model == [p.model EXCEPT !.status = IF @ = "none" THEN @
                            ELSE IF p.pending = <<>> THEN "complete" ELSE "partial"]
<1>1. p.model \in [status: {"none", "partial", "complete"}, count: Nat]
  BY DEF PageType
<1>2. /\ model \in [status: {"none", "partial", "complete"}, count: Nat]
      /\ model.count = p.model.count
      /\ model.status = "complete" <=> p.pending = <<>>
  BY <1>1
<1>3. q = [p EXCEPT !.at = "idle", !.pending = <<>>, !.left = p.pending, !.model = model]
  BY DEF runSettled, PageType
<1> HIDE DEF model, q
<1>4. <<>> \in Seq(1..MaxTargets)
  OBVIOUS
<1>5. /\ q \in PageType /\ q.at = "idle" /\ q.left = p.pending /\ q.items = p.items
      /\ q.exported = p.exported /\ q.total = p.total /\ q.model = model
  BY <1>2, <1>3, <1>4 DEF PageType
<1>6. WholeAs(q, q.left)
  BY <1>2, <1>5 DEF WholeAs
<1> QED BY <1>5, <1>6 DEF q

LEMMA RunBulkKeeps ==
    ASSUME IInv, NEW n \in 1..MaxTargets, RunBulk(n)
    PROVE  IInv' /\ AccountsStep
<1> DEFINE new == asked(active, policyOf(active, "manual"))
           p == runStarted(n)
<1>1. /\ AccountsTypeOK /\ RequestTypeOK /\ PageOK /\ PageTypeOK /\ RequestsOK
      /\ req \in [Request -> RequestState] /\ gate \in GateType /\ GateOK
      /\ condemned \subseteq Tokens
  BY RequestFacts DEF IInv, TypeOK
<1>2. /\ Bulk \in scenario.requests /\ page.at = "idle" /\ req[Bulk].at = "done"
      /\ active \in Vnu /\ spend("runs") /\ page' = p
      /\ req' = [req EXCEPT ![Bulk] = new]
      /\ UNCHANGED <<accountVars, reconnectVars, scenario, removal, gate, condemned>>
  BY DEF RunBulk, askChunk
<1>3. policyOf(active, "manual") \in {"safe", "manual", "never"} /\ active # None
  BY <1>2, AccountAssumption DEF policyOf
<1>4. /\ new \in RequestState /\ new.at = "sent"
      /\ new.origin = [account |-> active, token |-> store.token[active]]
      /\ new.sent = store.token[active]
      /\ store.token[active] # 0 /\ active \in Account
  BY <1>1, <1>3, Asked
<1> HIDE DEF new
<1>5. Bulk \in Request
  BY RequestAssumption
<1>6. req' \in [Request -> RequestState] /\ req'[Bulk] = new
      /\ \A q \in Request : q # Bulk => req'[q] = req[q]
  BY <1>1, <1>2, <1>4, <1>5
<1>7. UNCHANGED store
  BY <1>2 DEF accountVars
<1>8. PageOK' /\ PageTypeOK'
  <2>1. p \in PageType /\ p.at = "running" /\ p.pending # <<>> /\ WholeAs(p, RestOf(p))
    BY <1>1, <1>2, RunStarts
  <2>2. req'[Bulk].origin.account = active
    BY <1>4, <1>6
  <2> HIDE DEF p
  <2> QED BY <2>1, <2>2, <1>2, <1>4, <1>7, PageAgain DEF PageType, RestOf
<1>9. RequestsOK'
  BY <1>1, <1>2, <1>4, <1>6, <1>7 DEF RequestsOK, RequestOK, active
<1>10. \A q \in Request : req[q].at = "waiting" \/ req'[q].at = "waiting" => Continues(q)
  BY <1>2, <1>4, <1>6 DEF Continues
<1>11. \A q \in Request : req'[q].at = "sent" =>
          Continues(q) \/ store.token[req'[q].origin.account] \in {0, req'[q].origin.token}
  BY <1>4, <1>6 DEF Continues
<1>12. gate' \in GateType /\ GateOK' /\ condemned' = condemned /\ "runs" \in Budget
  BY <1>1, <1>2 DEF GateOK, Budget
<1> QED BY <1>1, <1>2, <1>6, <1>8, <1>9, <1>10, <1>11, <1>12, OnlyRequests

LEMMA ChunkDoneKeeps ==
    ASSUME IInv, ChunkDone
    PROVE  IInv' /\ AccountsStep
<1> DEFINE by == req[Bulk].origin.account
           p == withChunk(by)
<1>1. /\ AccountsTypeOK /\ RequestTypeOK /\ PageOK /\ PageTypeOK /\ RequestsOK
      /\ req \in [Request -> RequestState] /\ gate \in GateType /\ GateOK
      /\ condemned \subseteq Tokens
  BY RequestFacts DEF IInv, TypeOK
<1>2. /\ page.at = "running" /\ req[Bulk].at = "done"
      /\ UNCHANGED <<accountVars, reconnectVars, scenario, removal, gate, condemned, budget>>
      /\ \/ p.pending # <<>> /\ active # None /\ page' = p /\ askChunk
         \/ /\ p.pending = <<>> \/ active = None
            /\ page' = runSettled(p) /\ UNCHANGED req
         \/ page' = runSettled(page) /\ UNCHANGED req
  BY DEF ChunkDone
<1>3. gate' \in GateType /\ GateOK' /\ condemned' = condemned /\ budget' = budget
      /\ UNCHANGED store
  BY <1>1, <1>2 DEF GateOK, accountVars
<1>4. /\ page.pending # <<>> /\ Bulk \in scenario.requests
      /\ by \in Account /\ (SingleTab => by = active)
  BY <1>1, <1>2 DEF PageOK
<1>5. /\ p \in PageType /\ p.at = "running" /\ p.items # <<>> /\ p.model.status = "partial"
      /\ WholeAs(p, p.pending)
  BY <1>1, <1>2, <1>4, ChunkShown
<1> HIDE DEF p
<1>6. CASE p.pending # <<>> /\ active # None /\ page' = p /\ askChunk
  <2> DEFINE new == asked(active, policyOf(active, "manual"))
  <2>1. policyOf(active, "manual") \in {"safe", "manual", "never"}
    BY DEF policyOf
  <2>2. /\ new \in RequestState /\ new.at = "sent"
        /\ new.origin = [account |-> active, token |-> store.token[active]]
        /\ new.sent = store.token[active]
        /\ store.token[active] # 0 /\ active \in Account
    BY <1>1, <1>6, <2>1, Asked
  <2>3. req' = [req EXCEPT ![Bulk] = new]
    BY <1>6 DEF askChunk
  <2> HIDE DEF new
  <2>4. Bulk \in Request
    BY RequestAssumption
  <2>5. req' \in [Request -> RequestState] /\ req'[Bulk] = new
        /\ \A q \in Request : q # Bulk => req'[q] = req[q]
    BY <1>1, <2>2, <2>3, <2>4
  <2>6. PageOK' /\ PageTypeOK'
    <3>1. req'[Bulk].origin.account = active
      BY <2>2, <2>5
    <3> QED BY <3>1, <1>2, <1>3, <1>4, <1>5, <1>6, <2>2, PageAgain DEF PageType
  <2>7. RequestsOK'
    BY <1>1, <1>2, <1>3, <1>4, <2>2, <2>5 DEF RequestsOK, RequestOK, active
  <2>8. \A q \in Request : req[q].at = "waiting" \/ req'[q].at = "waiting" => Continues(q)
    BY <1>2, <2>2, <2>5 DEF Continues
  <2>9. \A q \in Request : req'[q].at = "sent" =>
          Continues(q) \/ store.token[req'[q].origin.account] \in {0, req'[q].origin.token}
    BY <2>2, <2>5 DEF Continues
  <2> QED BY <1>1, <1>2, <1>3, <2>5, <2>6, <2>7, <2>8, <2>9, OnlyRequests
<1>7. ASSUME NEW q \in PageType, q.at = "idle", WholeAs(q, q.left), page' = q, UNCHANGED req
      PROVE  IInv' /\ AccountsStep
  <2>1. PageOK' /\ PageTypeOK'
    BY <1>3, <1>7, <1>2, PageAgain DEF PageType
  <2>2. RequestsOK'
    BY <1>1, <1>2, <1>3, <1>7 DEF RequestsOK, RequestOK, active
  <2>3. \A r \in Request : Continues(r)
    BY <1>7 DEF Continues
  <2> QED BY <1>1, <1>2, <1>3, <1>7, <2>1, <2>2, <2>3, OnlyRequests
<1>8. CASE page' = runSettled(p) /\ UNCHANGED req
  <2>1. runSettled(p) \in PageType /\ runSettled(p).at = "idle"
        /\ WholeAs(runSettled(p), runSettled(p).left)
    BY <1>5, RunSettles DEF WholeAs
  <2> QED BY <1>7, <1>8, <2>1
<1>9. CASE page' = runSettled(page) /\ UNCHANGED req
  <2>1. page \in PageType /\ Rest = page.pending
    BY <1>1, <1>2 DEF PageTypeOK, PageType, Rest
  <2>2. WholeAs(page, page.pending)
    BY <1>1, <2>1, PageIsWhole DEF PageOK
  <2>3. runSettled(page) \in PageType /\ runSettled(page).at = "idle"
        /\ WholeAs(runSettled(page), runSettled(page).left)
    BY <1>2, <1>4, <2>1, <2>2, RunSettles DEF WholeAs
  <2> QED BY <1>7, <1>9, <2>3
<1> QED BY <1>2, <1>6, <1>8, <1>9

-----------------------------------------------------------------------------
(* The invariant, and what follows from it.                                *)

LEMMA InitAccounts ==
    ASSUME Init
    PROVE  AccountsTypeOK /\ \A a \in Vnu : grant[a] \in {0, store.token[a]}
<1> DEFINE accounts == scenario.accounts
           n == Len(accounts)
           first(a) == IF a \in range(accounts) THEN CHOOSE i \in 1..n : accounts[i] = a
                       ELSE 0
           act == IF accounts = <<>> THEN None ELSE Head(accounts)
<1>1. /\ accounts \in Seq(Account)
      /\ \A i, j \in 1..Len(accounts) : accounts[i] = accounts[j] => i = j
  BY RequestAssumption DEF Init
<1>2. /\ store = [order |-> accounts, token |-> [a \in Account |-> first(a)], active |-> act]
      /\ grant = [a \in Account |-> IF a \in Vnu /\ a \notin scenario.withoutGrant
                                    THEN first(a) ELSE 0]
      /\ basis = [i \in 1..n |-> 0]
  BY DEF Init
<1> HIDE DEF accounts
<1>3. n \in Nat /\ \A i \in 1..n : accounts[i] \in Account
  BY <1>1, ElementOfSeq
<1>4. basis \in Seq(Nat) /\ Len(basis) = n /\ \A i \in 1..n : basis[i] = 0
  BY <1>2, <1>3
<1>5. Tokens = 0..n
  BY <1>4 DEF Tokens
<1>6. ASSUME NEW a \in Account
      PROVE  first(a) \in 0..n /\ (first(a) # 0 <=> a \in range(accounts))
  <2>1. CASE a \in range(accounts)
    <3>1. \E i \in 1..n : accounts[i] = a
      BY <2>1 DEF range
    <3> QED BY <2>1, <3>1, <1>3
  <2>2. CASE a \notin range(accounts)
    BY <2>2, <1>3
  <2> QED BY <2>1, <2>2
<1> HIDE DEF first
<1>7. /\ store.order = accounts /\ store.active = act
      /\ \A a \in Account : store.token[a] = first(a)
  BY <1>2
<1>8. [a \in Account |-> first(a)] \in [Account -> Tokens] /\ grant \in [Account -> Tokens]
  BY <1>2, <1>5, <1>6, <1>3
<1>9. range(accounts) \subseteq Account
  BY <1>3 DEF range
<1>10. range(store.order) = {a \in Account : store.token[a] # 0}
  BY <1>6, <1>7, <1>9
<1>11. act \in {None} \cup range(accounts)
  <2>1. CASE accounts = <<>>
    BY <2>1
  <2>2. CASE accounts # <<>>
    <3>1. Head(accounts) = accounts[1] /\ 1 \in 1..n
      BY <2>2, <1>1, <1>3
    <3> QED BY <2>2, <3>1 DEF range
  <2> QED BY <2>1, <2>2
<1> HIDE DEF act
<1>12. store \in [order: Seq(Account), token: [Account -> Tokens], active: {None} \cup Account]
  BY <1>1, <1>2, <1>8, <1>9, <1>11
<1>13. AccountsTypeOK
  BY <1>1, <1>3, <1>4, <1>7, <1>8, <1>10, <1>11, <1>12 DEF AccountsTypeOK
<1>14. \A a \in Vnu : grant[a] \in {0, store.token[a]}
  BY <1>2, <1>7, AccountAssumption
<1> QED BY <1>13, <1>14

LEMMA InitHolds == Init => IInv
<1> SUFFICES ASSUME Init
             PROVE  IInv
  OBVIOUS
<1>1. AccountsTypeOK /\ GrantMatchesToken
  BY InitAccounts DEF GrantMatchesToken
<1>2. /\ scenario \in Scenario
      /\ flights = {} /\ suppressed = {} /\ shown = "idle"
      /\ status = [a \in Account |-> NoStatus]
      /\ page = EmptyPage
      /\ req = [r \in Request |-> NoRequest]
      /\ removal = [a \in Account |-> NoRemoval]
      /\ gate = [at |-> "idle", using |-> None, creds |-> scenario.creds, cool |-> FALSE]
      /\ condemned = {}
      /\ budget = scenario.budget
  BY DEF Init, ReconnectInit
<1>3. /\ scenario.creds \in {None} \cup (Account \ Vnu) /\ scenario.budget \in [Budget -> Nat]
      /\ scenario.sole => scenario.budget.signIns = 0
  BY <1>2, RequestAssumption
<1>4. ReconnectTypeOK
  BY <1>2 DEF ReconnectTypeOK, NoStatus, State
<1>5. 0 \in Tokens
  BY <1>1, AccountFacts DEF Tokens
<1>6. RequestTypeOK
  <2>1. NoRequest \in RequestState /\ NoRequest.at = "done"
    BY <1>5 DEF NoRequest, RequestState
  <2>2. NoRemoval \in [at: {"idle", "revoking"}, token: Tokens, grant: Tokens,
                       status: [state: State, generation: Nat], signOut: BOOLEAN]
    BY <1>5 DEF NoRemoval, NoStatus, State
  <2> QED BY <2>1, <2>2, <1>2, <1>3 DEF RequestTypeOK
<1>7. PageTypeOK /\ PageOK
  <2>1. <<>> \in Seq(Item) /\ <<>> \in Seq(1..MaxTargets) /\ 0 \in 0..MaxTargets
    BY PageAssumption
  <2>2. PageTypeOK
    BY <2>1, <1>2 DEF PageTypeOK, EmptyPage, NoModel
  <2>3. InOrder(<<>>, <<>>, 0)
    BY DEF InOrder
  <2>4. /\ page.at = "idle" /\ page.items = <<>> /\ page.exported = <<>> /\ page.left = <<>>
        /\ page.total = 0 /\ page.model = NoModel
    BY <1>2 DEF EmptyPage
  <2>5. WholeAs(page, Rest)
    BY <2>3, <2>4 DEF WholeAs, Rest, NoModel
  <2>6. TargetsAccountedFor /\ ResultsOfActive
    BY <2>2, <2>5, PageIsWhole
  <2> QED BY <2>2, <2>4, <2>6 DEF PageOK
<1>8. FlightsOK
  BY <1>2 DEF FlightsOK
<1>9. RequestsOK
  BY <1>2 DEF RequestsOK, RequestOK, NoRequest
<1>10. RemovalsOK /\ GateOK /\ BudgetOK
  BY <1>2, <1>3 DEF RemovalsOK, GateOK, BudgetOK, SingleTab, NoRemoval
<1>11. AloneOK /\ ReconnectingIsTrueAlone
  <2>1. /\ flights = {} /\ shown = "idle" /\ gate.at = "idle"
        /\ \A r \in Request : req[r].at = "done"
        /\ \A a \in Account : removal[a].at = "idle"
    BY <1>2 DEF NoRequest, NoRemoval
  <2>2. AloneTokens
    BY <2>1 DEF AloneTokens
  <2>3. AloneRemovals
    BY <2>1, AccountAssumption DEF AloneRemovals
  <2>4. AloneShown
    BY <2>1 DEF AloneShown
  <2>5. ReconnectingIsTrueAlone
    BY <2>1 DEF ReconnectingIsTrueAlone, ReconnectingIsTrue
  <2> QED BY <2>2, <2>3, <2>4, <2>5 DEF AloneOK
<1> QED
  BY <1>1, <1>4, <1>6, <1>7, <1>8, <1>9, <1>10, <1>11 DEF IInv, TypeOK

LEMMA NextKeeps ==
    ASSUME IInv, Next
    PROVE  IInv' /\ AccountsStep
<1>1. CASE \E r \in Request, policy \in {"safe", "manual", "never"} : Ask(r, policy)
  BY <1>1, AskKeeps
<1>2. CASE \E r \in Request : Answered(r)
  BY <1>2, AnsweredOkKeeps, AnsweredErrorKeeps, AnsweredExpiredKeeps, AnsweredDeadKeeps
     DEF Answered
<1>3. CASE \E r \in Request : Cancel(r) \/ Continue(r)
  BY <1>3, CancelKeeps, CancelledKeeps, ResumeKeeps DEF Continue
<1>4. CASE Server
  BY <1>4, FlightAnswersKeeps, RemovalAnsweredKeeps, ReauthSucceedsKeeps, ReauthFailsKeeps
     DEF Server
<1>5. CASE CooldownEnds \/ OtherTab \/ ChunkDone \/ ClearPage
  BY <1>5, CooldownKeeps, OtherTabKeeps, ChunkDoneKeeps, ClearPageKeeps
<1>6. CASE \E a \in Account : SignIn(a) \/ Switch(a) \/ Remove(a, TRUE) \/ Remove(a, FALSE)
  BY <1>6, SignInKeeps, SwitchKeeps, StartRemovalKeeps DEF Remove
<1>7. CASE \E n \in 1..MaxTargets : RunBulk(n)
  BY <1>7, RunBulkKeeps
<1> QED BY <1>1, <1>2, <1>3, <1>4, <1>5, <1>6, <1>7 DEF Next

LEMMA StutterKeeps ==
    ASSUME IInv, UNCHANGED vars
    PROVE  IInv' /\ AccountsStep
<1>1. /\ UNCHANGED <<accountVars, reconnectVars, page, scenario, removal>>
      /\ UNCHANGED <<req, gate, condemned, budget>>
  BY DEF vars, requestVars
<1>2. /\ AccountsTypeOK /\ RequestTypeOK /\ PageOK /\ PageTypeOK /\ RequestsOK
      /\ req \in [Request -> RequestState] /\ gate \in GateType /\ GateOK
      /\ condemned \subseteq Tokens
  BY RequestFacts DEF IInv, TypeOK
<1>3. PageOK' /\ PageTypeOK'
  BY <1>1, <1>2, PageSame DEF PageTypeOK, accountVars, active
<1>4. RequestsOK'
  BY <1>1, <1>2 DEF RequestsOK, RequestOK, accountVars, active
<1>5. \A r \in Request : Continues(r)
  BY <1>1 DEF Continues
<1>6. gate' \in GateType /\ GateOK'
  BY <1>1, <1>2 DEF GateOK
<1> QED BY <1>1, <1>2, <1>3, <1>4, <1>5, <1>6, OnlyRequests

\* Whatever a tab's user, its requests, the server and other tabs do, the tab
\* stays in a state the invariant describes.
THEOREM InductiveInvariant == Spec => []IInv
<1>1. IInv /\ [Next]_vars => IInv'
  BY NextKeeps, StutterKeeps
<1> QED BY InitHolds, <1>1, PTL DEF Spec

\* Every variable of the tab keeps its type.
THEOREM TypeCorrect == Spec => []TypeOK
<1>1. IInv => TypeOK
  BY DEF IInv
<1> QED BY <1>1, InductiveInvariant, PTL

\* For one request, switches, cancellations and sign-outs around it: the user
\* is told of a reconnection only while one runs for the active account
\* (publishVnuRefreshStatus, resetCancelledReconnectStatus).
THEOREM ReconnectingShownTruly == Spec => []ReconnectingIsTrueAlone
<1>1. IInv => ReconnectingIsTrueAlone
  BY DEF IInv
<1> QED BY <1>1, InductiveInvariant, PTL

\* The bulk page shows the whole of one account's run, whatever failed, was
\* cancelled and was tried again (BulkLookupSection).
THEOREM BulkPageWhole == Spec => []BulkResultsWhole
<1>1. IInv => BulkResultsWhole
  BY DEF IInv, PageOK, BulkResultsWhole
<1> QED BY <1>1, InductiveInvariant, PTL

\* A stored pair is one the server gave for it, and an account leaves only when
\* the session it has is dead (commitVnuRefresh, findUnchangedStoredAccount).
THEOREM AccountsKeepTheirSessions == Spec => AccountsStayTrue
<1>1. IInv /\ [Next]_vars => [TokensStep /\ LeavesStep]_vars
  BY NextKeeps DEF AccountsStep
<1>2. IInv => GrantMatchesToken
  BY DEF IInv
<1>3. TokensStep <=> \A a \in Account :
          stored(a) /\ store'.token[a] \notin {0, store.token[a]} =>
              basis'[store'.token[a]] \in {0, store.token[a]}
  BY DEF TokensStep
<1>4. LeavesStep <=> \A a \in Account :
          SingleTab /\ gate'.at = gate.at /\ stored(a) /\ store'.token[a] = 0 =>
              store.token[a] \in condemned'
  BY DEF LeavesStep
<1>5. Spec => TokenFollowsItsOrigin
  BY <1>1, <1>3, InductiveInvariant, PTL DEF Spec, TokenFollowsItsOrigin
<1>6. Spec => OnlyTheDeadLeave
  BY <1>1, <1>4, InductiveInvariant, PTL DEF Spec, OnlyTheDeadLeave
<1>7. Spec => []GrantMatchesToken
  BY <1>2, InductiveInvariant, PTL
<1> QED BY <1>5, <1>6, <1>7, PTL DEF AccountsStayTrue, PairsFollowTheirOrigin
=============================================================================
