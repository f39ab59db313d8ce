----------------------------- MODULE AdminSignIn -----------------------------
(***************************************************************************)
(* The admin's sign-in (apps/worker/src/admin and the pages of             *)
(* apps/web/src/pages/admin): passwords behind the fixed windows of a rate *)
(* limiter, OAuth sign-ins whose state lives in a cookie of the browser,   *)
(* and the mutations of the control room, for which a page must know the   *)
(* CSRF token of the session in the cookie.                                *)
(*                                                                         *)
(* The API keeps nothing but the windows: a session is an encrypted cookie *)
(* that all pages of a browser share, and an answer sets or clears cookies *)
(* when it arrives.  What a mutation then does to the policy is            *)
(* FeaturePolicy's matter.                                                 *)
(***************************************************************************)
EXTENDS Integers, FiniteSets

CONSTANTS
    Page,            \* Tabs.
    Browser,         \* Browsers, each at an address of its own.
    BrowserOf,       \* The browser of every tab.
    AddressLimit, GlobalLimit,   \* LOGIN_LIMIT, GLOBAL_LOGIN_LIMIT.
    Window,          \* LOGIN_WINDOW_MS.
    SessionLife, StateLife,      \* The TTLs of the two cookies.
    MaxBuckets,      \* MAX_LOGIN_WINDOW_BUCKETS of the Durable Object.
    MaxSession       \* Bound: sessions, and OAuth states.

ASSUME AdminAssumption ==
    /\ {AddressLimit, GlobalLimit, Window, SessionLife, StateLife, MaxBuckets, MaxSession}
         \subseteq Nat \ {0}
    /\ BrowserOf \in [Page -> Browser] /\ "global" \notin Browser

VARIABLES
    admin,           \* The deployment, and bounds. Never changes.
    today,           \* The clock of the API.
    window,          \* The rate limiter's windows.
    session,         \* The sessions made so far, by number.
    states,          \* How many OAuth states were made.
    cookies,         \* The two cookies of every browser.
    page,            \* Where every tab is.
    passed,          \* History: the attempts that got past every bucket.
    losses           \* How many calls to the limiter may still fail.

adminVars == <<admin, today, window, session, states, cookies, page, passed, losses>>

Bucket == Browser \cup {"global"}
Provider == {"github", "discord"}
Session == 1..MaxSession
State == 1..MaxSession

NoSession == [by |-> "none", until |-> 0]
NoCookies == [session |-> 0, state |-> 0, provider |-> "github", until |-> 0]

(* shown: the session whose CSRF token the tab holds. actor: the session in *)
(* whose name its mutation was made. state: the one it left for a provider *)
(* with. sets, shows: what the answer on its way does.                     *)
NewPage == [at |-> "idle", shown |-> 0, actor |-> 0, state |-> 0, provider |-> "github",
            sets |-> "nothing", shows |-> 0]

AdminSetting == [durable: BOOLEAN, methods: SUBSET {"password", "oauth"}, pages: SUBSET Page,
                 time: Nat, losses: Nat]

AdminTypeOK ==
    /\ admin \in AdminSetting
    /\ today \in 0..admin.time
    /\ window \in [Bucket -> [count: Nat, until: Nat]]
    /\ session \in [Session -> [by: {"none", "password"} \cup Provider, until: Nat]]
    /\ states \in {0} \cup State
    /\ cookies \in [Browser -> [session: {0} \cup Session, state: {0} \cup State,
                                provider: Provider, until: Nat]]
    /\ page \in [Page -> [
          at: {"idle", "global", "address", "verifying", "away", "exchanging", "answered"},
          shown: {0} \cup Session, actor: {0} \cup Session, state: {0} \cup State, provider: Provider,
          sets: {"nothing", "session", "noSession", "noState", "sessionNoState"},
          shows: {0} \cup Session]]
    /\ passed \in [Bucket -> SUBSET [day: Nat, nth: Nat]]
    /\ losses \in Nat

AdminInit ==
    /\ today = 0
    /\ window = [k \in Bucket |-> [count |-> 0, until |-> 0]]
    /\ session = [n \in Session |-> NoSession]
    /\ states = 0
    /\ cookies = [b \in Browser |-> NoCookies]
    /\ page = [p \in Page |-> NewPage]
    /\ passed = [k \in Bucket |-> {}]
    /\ losses = admin.losses

newSession == Cardinality({n \in Session : session[n].by # "none"}) + 1
live(n) == n # 0 /\ today < session[n].until
turns(p, step) == page' = [page EXCEPT ![p].at = step]

\* The answer to a tab: what it does to the cookies, and which session it shows.
replies(p, sets, shows) ==
    page' = [page EXCEPT ![p].at = "answered", ![p].sets = sets, ![p].shows = shows]
refuses(p) == replies(p, "nothing", page[p].shown)

adminKeeps == UNCHANGED <<admin, today>>
limiter == <<window, passed, losses>>

-----------------------------------------------------------------------------
(* POST /api/admin/login/password.                                         *)

SubmitPassword(p) ==
    /\ page[p].at = "idle" /\ p \in admin.pages /\ "password" \in admin.methods
    /\ turns(p, "global")
    /\ adminKeeps /\ UNCHANGED <<limiter, session, states, cookies>>

limitOf(k) == IF k = "global" THEN GlobalLimit ELSE AddressLimit
open(k) == window[k].until > today
full(k) ==
    IF open(k) THEN window[k].count >= limitOf(k)
    ELSE admin.durable /\ Cardinality({l \in Bucket : open(l)}) >= MaxBuckets
charged(k) ==
    [window EXCEPT ![k] = IF open(k) THEN [window[k] EXCEPT !.count = @ + 1]
                                     ELSE [count |-> 1, until |-> today + Window]]

attempt(k) == [day |-> today, nth |-> Cardinality(passed[k]) + 1]

(* consume(): a window begins with its first attempt and is not moved by   *)
(* later ones; what is refused is not counted.                             *)
consume(p, k, next) ==
    \/ /\ ~full(k) /\ window' = charged(k) /\ turns(p, next)
       /\ passed' = [passed EXCEPT ![k] = @ \cup {attempt(k)}] /\ UNCHANGED losses
    \/ full(k) /\ refuses(p) /\ UNCHANGED limiter
    \/ /\ losses > 0 /\ losses' = losses - 1 /\ refuses(p)
       /\ window' \in {window, IF full(k) THEN window ELSE charged(k)} /\ UNCHANGED passed

bucketOf(p) == IF page[p].at = "global" THEN "global" ELSE BrowserOf[p]

\* Mutant: the limit is compared with one attempt too many.
ChargeAfter(p) ==
    LET k == bucketOf(p)
        over == open(k) /\ window[k].count > limitOf(k)
    IN  /\ page[p].at \in {"global", "address"} /\ ~over
        /\ window' = charged(k)
        /\ turns(p, IF k = "global" THEN "address" ELSE "verifying")
        /\ passed' = [passed EXCEPT ![k] = @ \cup {attempt(k)}]
        /\ adminKeeps /\ UNCHANGED <<losses, session, states, cookies>>

(* checkLoginLimit: everybody's budget first, then the address's.          *)
Charge(p) ==
    /\ page[p].at \in {"global", "address"}
    /\ consume(p, bucketOf(p), IF page[p].at = "global" THEN "address" ELSE "verifying")
    /\ adminKeeps /\ UNCHANGED <<session, states, cookies>>

signsIn(p, method, sets) ==
    /\ newSession \in Session
    /\ session' = [session EXCEPT ![newSession] = [by |-> method, until |-> today + SessionLife]]
    /\ replies(p, sets, newSession)

(* PBKDF2, some time after the attempt was let through.                    *)
VerifyPassword(p) ==
    /\ page[p].at = "verifying"
    /\ \/ signsIn(p, "password", "session")
       \/ refuses(p) /\ UNCHANGED session
    /\ adminKeeps /\ UNCHANGED <<limiter, states, cookies>>

-----------------------------------------------------------------------------
(* GET /api/admin/oauth/:provider/start and /callback.                     *)

(* The tab leaves for the provider; the cookie holds the last start only.  *)
StartOAuth(p, x) ==
    /\ page[p].at = "idle" /\ p \in admin.pages /\ "oauth" \in admin.methods
    /\ states < MaxSession /\ states' = states + 1
    /\ cookies' = [cookies EXCEPT ![BrowserOf[p]] =
          [@ EXCEPT !.state = states + 1, !.provider = x, !.until = today + StateLife]]
    /\ page' = [page EXCEPT ![p] = [NewPage EXCEPT !.at = "away", !.state = states + 1,
                                                   !.provider = x]]
    /\ adminKeeps /\ UNCHANGED <<limiter, session>>

(* Without a state cookie the callback is refused outright; with another   *)
(* one, or with an expired one, the cookie goes.                           *)
Callback(p) ==
    LET c == cookies[BrowserOf[p]]
        good == c.state = page[p].state /\ c.provider = page[p].provider
    IN  /\ page[p].at = "away"
        /\ CASE c.state = 0 \/ today >= c.until -> refuses(p)
             [] c.state # 0 /\ today < c.until /\ ~good -> replies(p, "noState", 0)
             [] OTHER -> turns(p, "exchanging")
        /\ adminKeeps /\ UNCHANGED <<limiter, session, states, cookies>>

(* exchangeOAuthCode: the provider's word, and the list of allowed ids.    *)
ExchangeCode(p) ==
    /\ page[p].at = "exchanging"
    /\ \/ signsIn(p, page[p].provider, "sessionNoState")
       \/ replies(p, "noState", 0) /\ UNCHANGED session
    /\ adminKeeps /\ UNCHANGED <<limiter, states, cookies>>

-----------------------------------------------------------------------------
(* GET /api/admin/session and the mutations.                               *)

(* The browser drops a cookie past its Max-Age; one the API cannot accept  *)
(* any more is cleared.                                                    *)
ReadSession(p) ==
    LET n == cookies[BrowserOf[p]].session
    IN  /\ page[p].at = "idle" /\ p \in admin.pages
        /\ \/ live(n) /\ replies(p, "nothing", n)
           \/ n # 0 /\ ~live(n) /\ replies(p, "noSession", 0)
           \/ ~live(n) /\ replies(p, "nothing", 0)
        /\ adminKeeps /\ UNCHANGED <<limiter, session, states, cookies>>

\* Mutant: any live session in the cookie is enough.
MutateByCookie(p, op) ==
    LET n == cookies[BrowserOf[p]].session
    IN  /\ page[p].at = "idle" /\ page[p].shown # 0 /\ p \in admin.pages /\ live(n)
        /\ page' = [page EXCEPT ![p].at = "answered", ![p].actor = n,
                        ![p].sets = IF op = "logout" THEN "noSession" ELSE "nothing",
                        ![p].shows = IF op = "logout" THEN 0 ELSE page[p].shown]
        /\ adminKeeps /\ UNCHANGED <<limiter, session, states, cookies>>

(* requireAdmin and requireAdminMutation: the session of the cookie, and   *)
(* its CSRF token from the tab. A logout forgets nothing but the cookie.   *)
Mutate(p, op) ==
    LET n == cookies[BrowserOf[p]].session
        good == live(n) /\ page[p].shown = n
        out == good /\ op = "logout"
    IN  /\ page[p].at = "idle" /\ page[p].shown # 0 /\ p \in admin.pages
        /\ page' = [page EXCEPT ![p].at = "answered", ![p].actor = IF good THEN n ELSE 0,
                        ![p].sets = IF out THEN "noSession" ELSE "nothing",
                        ![p].shows = IF out THEN 0 ELSE page[p].shown]
        /\ adminKeeps /\ UNCHANGED <<limiter, session, states, cookies>>

(* The answer arrives: the browser first, then the tab. Back from a        *)
(* provider the tab is a new one, which has yet to read its session.       *)
AnswerArrives(p) ==
    LET b == BrowserOf[p]
        sets == page[p].sets
    IN  /\ page[p].at = "answered"
        /\ cookies' = [cookies EXCEPT
              ![b].session = CASE sets \in {"session", "sessionNoState"} -> page[p].shows
                               [] sets = "noSession" -> 0
                               [] OTHER -> @,
              ![b].state = IF sets \in {"noState", "sessionNoState"} THEN 0 ELSE @]
        /\ page' = [page EXCEPT ![p] = [NewPage EXCEPT
              !.shown = IF sets = "sessionNoState" THEN 0 ELSE page[p].shows]]
        /\ adminKeeps /\ UNCHANGED <<limiter, session, states>>

AdminTick ==
    /\ today < admin.time
    /\ today' = today + 1
    /\ UNCHANGED <<admin, limiter, session, states, cookies, page>>

AdminStep(p) ==
    Charge(p) \/ VerifyPassword(p) \/ Callback(p) \/ ExchangeCode(p) \/ AnswerArrives(p)

AdminProgress == AdminTick \/ \E p \in Page : AdminStep(p)

AdminNext ==
    \/ AdminProgress
    \/ \E p \in Page :
          \/ SubmitPassword(p) \/ ReadSession(p)
          \/ \E x \in Provider : StartOAuth(p, x)
          \/ \E op \in {"publish", "logout"} : Mutate(p, op)

-----------------------------------------------------------------------------
(* However attempts interleave and whenever windows begin, less than twice *)
(* its limit gets past a bucket within the length of one window.           *)
GuessesBounded ==
    \A k \in Bucket, d \in 0..admin.time :
        Cardinality({g \in passed[k] : g.day \in d..(d + Window - 1)}) < 2 * limitOf(k)

(* A mutation is made in the name of the session its tab shows, whoever    *)
(* signed in or out in the other tabs of the browser meanwhile.            *)
ActsAsShown == \A p \in Page : page[p].actor \in {0, page[p].shown}

(* What the admin's sign-in promises of guesses and of what is done in her *)
(* name.                                                                   *)
AdminKept == GuessesBounded /\ ActsAsShown
=============================================================================
