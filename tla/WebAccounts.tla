---------------------------- MODULE WebAccounts ----------------------------
(***************************************************************************)
(* The accounts a browser keeps: their list, their session tokens and the  *)
(* active one are in the localStorage all tabs share, the refresh grants   *)
(* in the sessionStorage of this tab. Another tab writes the shared part   *)
(* and this one is not told.                                               *)
(*                                                                         *)
(* A token is the number of its issue. An account that is stored again     *)
(* gets a new id in the code: here, what the old id left is forgotten.     *)
(***************************************************************************)
EXTENDS Naturals, Sequences

CONSTANTS
    Account,     \* One for every student who may sign in on this browser.
    Vnu,         \* Those of VNU; the others are of UET.
    None

ASSUME AccountAssumption == Vnu \subseteq Account /\ None \notin Account

VARIABLES
    store,       \* localStorage: the order the accounts were added in, their
                 \* tokens (0 when not stored), the active one.
    grant,       \* sessionStorage: the token every grant came with, or 0.
    basis        \* Ghost: for every token issued, the token its request
                 \* carried, 0 for a sign-in.

accountVars == <<store, grant, basis>>

Tokens == 0..Len(basis)
range(s) == {s[i] : i \in 1..Len(s)}

\* The list names every account once, the active account is in it.
AccountsTypeOK ==
    /\ store \in [order: Seq(Account), token: [Account -> Tokens], active: {None} \cup Account]
    /\ grant \in [Account -> Tokens] /\ basis \in Seq(Nat)
    /\ range(store.order) = {a \in Account : store.token[a] # 0}
    /\ \A i, j \in 1..Len(store.order) : store.order[i] = store.order[j] => i = j
    /\ store.active \in {None} \cup range(store.order)
    /\ \A t \in 1..Len(basis) : basis[t] \in 0..(t - 1)

stored(a) == store.token[a] # 0
active == store.active

(* getActiveAccount: what a request remembers of the account it is for.    *)
origin(a) == [account |-> a, token |-> store.token[a]]

(* findUnchangedStoredAccount: it is stored with the token it had.         *)
unchanged(o) == o.account # None /\ stored(o.account) /\ store.token[o.account] = o.token

\* The next token, for a request that carried the token t.
freshToken == Len(basis) + 1
issue(t) == basis' = Append(basis, t)

-----------------------------------------------------------------------------
(* What a write leaves in localStorage.                                    *)

upserted(a, t) ==
    [order |-> IF stored(a) THEN store.order ELSE Append(store.order, a),
     token |-> [store.token EXCEPT ![a] = t],
     active |-> a]

rotated(a, t) == [store EXCEPT !.token[a] = t]

\* The list without an account, which it names once.
orderWithout(a) ==
    LET place == CHOOSE i \in 1..Len(store.order) : store.order[i] = a
    IN  [i \in 1..(Len(store.order) - 1) |-> store.order[IF i < place THEN i ELSE i + 1]]

(* removeAccount: the first of the accounts left takes the place of an     *)
(* active one.                                                             *)
accountRemoved(a) ==
    LET order == orderWithout(a)
    IN  [order |-> order,
         token |-> [store.token EXCEPT ![a] = 0],
         active |-> IF store.active # a THEN store.active
                    ELSE IF order = <<>> THEN None ELSE Head(order)]

(* The event a removal dispatches in this tab.                             *)
removalEvent(a) ==
    IF active # a THEN "none" ELSE IF accountRemoved(a).active = None THEN "cleared" ELSE "switched"

withoutGrant(a) == [grant EXCEPT ![a] = 0]

-----------------------------------------------------------------------------
(* Another tab signs in, is given a new token, removes an account or makes *)
(* another one active.                                                     *)
OtherTabWrites ==
    \E a \in Account :
        /\ \/ store' = upserted(a, freshToken) /\ issue(0)
           \/ stored(a) /\ store' = rotated(a, freshToken) /\ issue(store.token[a])
           \/ stored(a) /\ store' = accountRemoved(a) /\ UNCHANGED basis
           \/ stored(a) /\ active # a /\ store' = [store EXCEPT !.active = a] /\ UNCHANGED basis
        /\ grant' = IF stored(a) THEN grant ELSE withoutGrant(a)
=============================================================================
