------------------------------ MODULE UetSignIn ------------------------------
(***************************************************************************)
(* Signing in to UET: the sign-in route of apps/worker/src/app.ts, which   *)
(* streams its events to a browser, with the adapter behind it.  A         *)
(* guardian signs in with a verification code, read by OCR or relayed to   *)
(* the person (CaptchaRelay); a student by an automated Google sign-in     *)
(* (GoogleBrowser).                                                        *)
(***************************************************************************)
EXTENDS CaptchaRelay, GoogleBrowser, Sequences

CONSTANTS
    Guardian,      \* Logins of guardians.
    Scenario       \* A coordinator, a kind of browser, the logins that take
                   \* part, whether they may overlap, whether OCR is
                   \* installed, whether the clocks of the replicas differ,
                   \* and a bound on faults.

ASSUME SignInAssumption ==
    /\ \A x \in Scenario :
        /\ x.coordinator \in Coordinator /\ x.kind \in Kind
        /\ x.logins \subseteq Guardian \cup Student
        /\ x.overlap \in BOOLEAN /\ x.ocr \in BOOLEAN /\ x.skewed \in BOOLEAN
        /\ x.faults \in Nat
    /\ Guardian \cap Student = {}

VARIABLES
    scenario,   \* Never changes.
    login,      \* The request of every login at the server.
    relay,      \* The relay of both challenges of every guardian's login.
    stream,     \* The events sent to the browser and not read yet.
    tab,        \* The browser of the person, readUetSessionStream.
    faults

signInVars == <<scenario, login, relay, stream, tab, faults>>
vars == <<signInVars, kind, browserVars>>

coordinator == scenario.coordinator
Login == Guardian \cup Student
Challenge == Guardian \X (1..2)

ASSUME NoneAssumption == None \notin Challenge \cup {"signed", "failed", "overlapping", "left"}

(* first: the source of the first answer.  ask: how far onCaptchaNeeded    *)
(* is, on challenge <<r, attempt>>.  active: activeRelay is that relay.    *)
NoLogin ==
    [pc |-> "idle", attempt |-> 0, first |-> None, ask |-> "none", active |-> FALSE,
     aborted |-> FALSE, cancelled |-> FALSE, result |-> None]

NoTab == [pc |-> "idle", challenge |-> None, phase |-> "none", answer |-> None, result |-> None]

Event == [type: {"captcha", "done", "error"}, challenge: Challenge \cup {None}]

\* One type invariant: what every variable may hold.
TypeOK ==
    /\ scenario \in Scenario /\ BrowserTypeOK
    /\ login \in [Login ->
          [pc: {"idle", "challenge", "ocr", "human", "authenticating", "browsing",
                "finishing", "over"},
           attempt: 0..2, first: {None, "ocr", "human"},
           ask: {"none", "preparing", "prepared", "waiting", "cancelling"},
           active: BOOLEAN, aborted: BOOLEAN, cancelled: BOOLEAN,
           result: {None, "session", "error", "cancelled"}]]
    /\ relay \in [Challenge -> Relay]
    /\ stream \in [Login -> Seq(Event)]
    /\ tab \in [Login ->
          [pc: {"idle", "reading", "closing", "over"}, challenge: Challenge \cup {None},
           phase: {"none", "asking", "submitting", "accepted", "refused"},
           answer: Answer \cup {None},
           result: {None, "signed", "failed", "overlapping", "left"}]]
    /\ faults \in 0..scenario.faults

Init ==
    /\ scenario \in Scenario
    /\ kind = scenario.kind
    /\ BrowserInit
    /\ login = [r \in Login |-> NoLogin]
    /\ relay = [c \in Challenge |-> NoRelay]
    /\ stream = [r \in Login |-> <<>>]
    /\ tab = [r \in Login |-> NoTab]
    /\ faults = 0

fault == faults < scenario.faults /\ faults' = faults + 1

-----------------------------------------------------------------------------
(* The sign-in route and importSession of the adapter.                     *)

challenge(r) == <<r, login[r].attempt>>

\* send: nothing is sent once the stream was cancelled.
sent(r, type, c) ==
    IF login[r].cancelled THEN stream
    ELSE [stream EXCEPT ![r] = Append(@, [type |-> type, challenge |-> c])]

\* The catch and the finally of the route: the error is sent, the stream closed.
FailLoginAs(r, x) ==
    /\ login' = [login EXCEPT ![r] =
          [x EXCEPT !.pc = "over", !.result = IF x.cancelled THEN "cancelled" ELSE "error"]]
    /\ stream' = sent(r, "error", None)

FailLogin(r) == FailLoginAs(r, login[r])

\* onCaptchaNeeded throws, to a login that waits for it or is over.
AskThrows(r) ==
    LET y == [login[r] EXCEPT !.ask = "none", !.active = FALSE] IN
    IF y.pc = "human" THEN FailLoginAs(r, y)
    ELSE login' = [login EXCEPT ![r] = y] /\ UNCHANGED stream

StartSignIn(r) ==
    /\ login[r].pc = "idle"
    /\ scenario.overlap \/ \A q \in Login : login[q].pc \in {"idle", "over"}
    /\ tab' = [tab EXCEPT ![r].pc = "reading"]
    /\ IF r \in Guardian
       THEN /\ login' = [login EXCEPT ![r].pc = "challenge", ![r].attempt = 1]
            /\ UNCHANGED <<kind, browserVars>>
       ELSE /\ login' = [login EXCEPT ![r].pc = "browsing"]
            /\ Begin(r)
    /\ UNCHANGED <<scenario, relay, stream, faults>>

(* StudentHub sends a challenge.  OCR is skipped for the second one if it  *)
(* misread the first.                                                      *)
GetChallenge(r) ==
    /\ login[r].pc = "challenge"
    /\ IF scenario.ocr /\ ~(login[r].attempt = 2 /\ login[r].first = "ocr")
       THEN login' = [login EXCEPT ![r].pc = "ocr"]
       ELSE login' = [login EXCEPT ![r].pc = "human", ![r].ask = "preparing"]
    /\ UNCHANGED <<scenario, relay, stream, tab, faults, kind, browserVars>>

answeredBy(x, source) ==
    [x EXCEPT !.pc = "authenticating", !.first = IF x.attempt = 1 THEN source ELSE @]

Recognise(r) ==
    /\ login[r].pc = "ocr"
    /\ \/ login' = [login EXCEPT ![r] = answeredBy(@, "ocr")]
       \/ login' = [login EXCEPT ![r].pc = "human", ![r].ask = "preparing"]
    /\ UNCHANGED <<scenario, relay, stream, tab, faults, kind, browserVars>>

\* onCaptchaNeeded: the relay is prepared, then its token is made.
PrepareRelay(r) ==
    LET c == challenge(r) IN
    /\ login[r].ask = "preparing"
    /\ \/ /\ relay' = [relay EXCEPT ![c] = prepared(@)]
          /\ login' = [login EXCEPT ![r].ask = "prepared", ![r].active = TRUE]
          /\ UNCHANGED <<stream, faults>>
       \/ /\ fault
          /\ AskThrows(r)
          /\ UNCHANGED relay
    /\ UNCHANGED <<scenario, tab, kind, browserVars>>

(* The person is asked, and the relay waits; or the login was cancelled    *)
(* meanwhile.                                                              *)
AskPerson(r) ==
    LET c == challenge(r)
        gone == login[r].cancelled \/ login[r].aborted
    IN  /\ login[r].ask = "prepared"
        /\ IF gone
           THEN /\ login' = [login EXCEPT ![r].ask = "cancelling"]
                /\ UNCHANGED <<relay, stream>>
           ELSE /\ login' = [login EXCEPT ![r].ask = "waiting"]
                /\ relay' = [relay EXCEPT ![c] = waited(coordinator, @, FALSE)]
                /\ stream' = sent(r, "captcha", c)
        /\ UNCHANGED <<scenario, tab, faults, kind, browserVars>>

\* wait() goes on, in the object or at the Redis of its replica.
WaitStep(r) ==
    LET c == challenge(r)
        x == relay[c]
    IN  /\ login[r].ask = "waiting"
        /\ relay' = [relay EXCEPT ![c] =
              CASE x.wait = "calling" -> objectWaited(x)
                [] x.wait = "returned" -> settled(x, x.result)
                [] x.wait = "reading" -> read(x)
                [] x.wait = "blocked" /\ coordinator = "redis" -> unblocked(x)
                [] x.wait = "rereading" -> reread(x)
                [] OTHER -> x]
        /\ relay' # relay
        /\ UNCHANGED <<scenario, login, stream, tab, faults, kind, browserVars>>

(* The answer goes on to StudentHub; a failure is caught first, and the    *)
(* relay cancelled if it is still the active one.                          *)
AskEnds(r) ==
    LET x == login[r]
        y == [x EXCEPT !.ask = "none", !.active = FALSE]
        got == relay[challenge(r)].got
    IN  /\ x.ask = "waiting" /\ got # None
        /\ login' = [login EXCEPT ![r] =
              IF got \in Failure THEN [x EXCEPT !.ask = "cancelling"]
              ELSE IF x.pc = "human" THEN answeredBy(y, "human") ELSE y]
        /\ UNCHANGED <<scenario, relay, stream, tab, faults, kind, browserVars>>

\* Mutant: onCaptchaNeeded throws and leaves the relay as it is.
CancelAskWithoutRelay(r) ==
    /\ login[r].ask = "cancelling"
    /\ AskThrows(r)
    /\ UNCHANGED <<scenario, relay, tab, faults, kind, browserVars>>

CancelAsk(r) ==
    LET c == challenge(r) IN
    /\ login[r].ask = "cancelling"
    /\ \/ /\ relay' = [relay EXCEPT ![c] = IF login[r].active THEN cancelled(coordinator, @) ELSE @]
          /\ UNCHANGED faults
       \/ coordinator # "local" /\ fault /\ UNCHANGED relay
    /\ AskThrows(r)
    /\ UNCHANGED <<scenario, tab, kind, browserVars>>

(* StudentHub accepts, or refuses the code (EX102), once again or for      *)
(* good, or refuses the password or fails.                                 *)
Authenticate(r) ==
    /\ login[r].pc = "authenticating"
    /\ \/ /\ login' = [login EXCEPT ![r].pc = "finishing"]
          /\ UNCHANGED stream
       \/ /\ login[r].attempt = 1
          /\ login' = [login EXCEPT ![r].pc = "challenge", ![r].attempt = 2]
          /\ UNCHANGED stream
       \/ FailLogin(r)
    /\ UNCHANGED <<scenario, relay, tab, faults, kind, browserVars>>

\* The automation of a student's login goes on, then its outcome is taken.
Automate(r) ==
    /\ login[r].pc = "browsing"
    /\ AutomationNext(r)
    /\ UNCHANGED signInVars

\* A launch ends, also after its login gave it up.
Launch(r) ==
    /\ \E b \in Browser : LaunchEnds(r, b)
    /\ UNCHANGED signInVars

AutomationEnds(r) ==
    /\ login[r].pc = "browsing" /\ auto[r].pc = "over"
    /\ IF auto[r].result = "signed"
       THEN login' = [login EXCEPT ![r].pc = "finishing"] /\ UNCHANGED stream
       ELSE FailLogin(r)
    /\ UNCHANGED <<scenario, relay, tab, faults, kind, browserVars>>

\* throwIfRequestCancelled, the token, and the done event.
Finish(r) ==
    /\ login[r].pc = "finishing"
    /\ IF login[r].aborted THEN FailLogin(r)
       ELSE /\ login' = [login EXCEPT ![r].pc = "over", ![r].result = "session"]
            /\ stream' = sent(r, "done", None)
    /\ UNCHANGED <<scenario, relay, tab, faults, kind, browserVars>>

-----------------------------------------------------------------------------
(* Cancellation.                                                           *)

(* cancelRelay, once: the active relay is cancelled by a call nobody waits *)
(* for, which is immediate in one process.                                 *)
relayCancelled(r) ==
    LET c == challenge(r)
        x == relay[c]
    IN  IF login[r].cancelled \/ ~login[r].active THEN x
        ELSE IF coordinator = "local" THEN cancelled("local", x)
        ELSE [x EXCEPT !.cancelling = TRUE]

\* The request is aborted: everything that listens to its signal gives up.
awaitsSignal == {"challenge", "ocr", "human", "authenticating"}

RequestAborts(r) ==
    LET c == challenge(r)
        x == login[r]
        y == [x EXCEPT !.aborted = TRUE, !.cancelled = TRUE, !.active = @ /\ x.cancelled]
    IN  /\ x.pc \notin {"idle", "over"} /\ ~x.aborted
        /\ tab[r].pc = "over"
        /\ login' = [login EXCEPT ![r] =
              IF x.pc \in awaitsSignal THEN [y EXCEPT !.pc = "over", !.result = "cancelled"] ELSE y]
        /\ relay' = IF r \in Student THEN relay
                    ELSE [relay EXCEPT ![c] =
                            IF login[r].ask = "waiting"
                            THEN abortHeard(coordinator, relayCancelled(r)) ELSE relayCancelled(r)]
        /\ IF x.pc = "browsing" THEN CallerAborts(r) ELSE UNCHANGED <<kind, browserVars>>
        /\ UNCHANGED <<scenario, stream, tab, faults>>

\* The body of the response is cancelled, and the signal does not tell.
StreamCancels(r) ==
    LET x == login[r] IN
    /\ x.pc \notin {"idle", "over"} /\ ~x.cancelled
    /\ tab[r].pc = "over"
    /\ login' = [login EXCEPT ![r].cancelled = TRUE, ![r].active = FALSE]
    /\ relay' = IF r \in Student THEN relay ELSE [relay EXCEPT ![challenge(r)] = relayCancelled(r)]
    /\ UNCHANGED <<scenario, stream, tab, faults, kind, browserVars>>

\* A cancel() on its way lands, or fails and nobody hears of it.
CancelLands(c) ==
    /\ relay[c].cancelling
    /\ LET x == [relay[c] EXCEPT !.cancelling = FALSE] IN
       \/ relay' = [relay EXCEPT ![c] = cancelled(coordinator, x)] /\ UNCHANGED faults
       \/ relay' = [relay EXCEPT ![c] = x] /\ fault
    /\ UNCHANGED <<scenario, login, stream, tab, kind, browserVars>>

-----------------------------------------------------------------------------
(* The browser of the person: readUetSessionStream and the dialog.         *)

closed(x, result) == [x EXCEPT !.pc = "over", !.result = result]

(* An error ends the reading: the dialog is dismissed, and an answer that  *)
(* is on its way is waited for.                                            *)
thrown(x, result) ==
    IF x.phase = "submitting" THEN [x EXCEPT !.pc = "closing", !.result = result]
    ELSE closed(x, result)

ReadEvent(r) ==
    LET e == Head(stream[r])
        x == tab[r]
    IN  /\ x.pc = "reading" /\ stream[r] # <<>>
        /\ stream' = [stream EXCEPT ![r] = Tail(@)]
        /\ tab' = [tab EXCEPT ![r] =
              CASE e.type = "done" -> thrown(x, "signed")
                [] e.type = "error" -> thrown(x, "failed")
                [] e.type = "captcha" ->
                      IF x.challenge # None THEN thrown(x, "overlapping")
                      ELSE [x EXCEPT !.challenge = e.challenge, !.phase = "asking"]]
        /\ UNCHANGED <<scenario, login, relay, faults, kind, browserVars>>

TypeAnswer(r, a) ==
    /\ tab[r].pc = "reading" /\ tab[r].phase = "asking"
    /\ tab' = [tab EXCEPT ![r].phase = "submitting", ![r].answer = a]
    /\ UNCHANGED <<scenario, login, relay, stream, faults, kind, browserVars>>

(* solve-captcha at any replica: the coordinator accepts the answer or     *)
(* not, and its reply may be lost.                                         *)
SolveCaptcha(r) ==
    LET c == tab[r].challenge
        accepted == canAnswer(coordinator, relay[c], scenario.skewed)
    IN  /\ tab[r].phase = "submitting"
        /\ relay' = [relay EXCEPT ![c] =
              IF accepted THEN answered(coordinator, @, tab[r].answer) ELSE @]
        /\ \/ /\ tab' = [tab EXCEPT ![r].phase = IF accepted THEN "accepted" ELSE "refused"]
              /\ UNCHANGED faults
           \/ /\ fault
              /\ tab' = [tab EXCEPT ![r].phase = "refused"]
        /\ UNCHANGED <<scenario, login, stream, kind, browserVars>>

\* The outcome of the answer is heard, in a race with the next event.
HearOutcome(r) ==
    LET x == tab[r] IN
    /\ x.phase \in {"accepted", "refused"} /\ x.pc \in {"reading", "closing"}
    /\ tab' = [tab EXCEPT ![r] =
          IF x.pc = "closing" THEN closed(x, x.result)
          ELSE IF x.phase = "refused" THEN closed(x, "failed")
          ELSE [x EXCEPT !.challenge = None, !.phase = "none", !.answer = None]]
    /\ UNCHANGED <<scenario, login, relay, stream, faults, kind, browserVars>>

\* The person leaves, or the connection of the stream breaks.
Leave(r) ==
    /\ tab[r].pc = "reading"
    /\ tab' = [tab EXCEPT ![r] = closed(@, "left")]
    /\ UNCHANGED <<scenario, login, relay, stream, faults, kind, browserVars>>

-----------------------------------------------------------------------------
(* Time, crashes of browsers, and restarts of Durable Objects.             *)

TimeRunsOut(c) ==
    /\ relay[c].row # "absent" /\ ~relay[c].late
    /\ relay' = [relay EXCEPT ![c] = late(coordinator, @)]
    /\ UNCHANGED <<scenario, login, stream, tab, faults, kind, browserVars>>

\* The alarm of the object, or the expiry of the keys of Redis.
Expire(c) ==
    /\ coordinator # "local" /\ relay[c].late
    /\ relay[c].row # "absent"
    /\ relay' = [relay EXCEPT ![c] =
          IF coordinator = "durable" THEN alarmed(@) ELSE expired(@)]
    /\ UNCHANGED <<scenario, login, stream, tab, faults, kind, browserVars>>

\* The waiters of an object are in its memory: the call of wait() fails.
ObjectRestarts(c) ==
    /\ coordinator = "durable" /\ relay[c].wait = "blocked"
    /\ fault
    /\ relay' = [relay EXCEPT ![c] = settled(@, "failed")]
    /\ UNCHANGED <<scenario, login, stream, tab, kind, browserVars>>

Crash(b) ==
    /\ fault
    /\ BrowserCrashes(b)
    /\ UNCHANGED <<scenario, login, relay, stream, tab>>

LaunchFault(r) ==
    /\ fault
    /\ LaunchFails(r)
    /\ UNCHANGED <<scenario, login, relay, stream, tab>>

-----------------------------------------------------------------------------
\* What a login does on its own, as its calls are answered.
ServerStep(r) ==
    \/ GetChallenge(r) \/ Recognise(r) \/ PrepareRelay(r) \/ AskPerson(r) \/ WaitStep(r)
    \/ AskEnds(r) \/ CancelAsk(r) \/ Authenticate(r) \/ Automate(r) \/ AutomationEnds(r)
    \/ Finish(r)

TabStep(r) == ReadEvent(r) \/ SolveCaptcha(r) \/ HearOutcome(r)

Next ==
    \/ \E r \in scenario.logins : StartSignIn(r) \/ ServerStep(r) \/ TabStep(r)
    \/ \E r \in scenario.logins : RequestAborts(r) \/ StreamCancels(r) \/ Leave(r)
    \/ \E r \in Guardian, a \in Answer : TypeAnswer(r, a)
    \/ \E c \in Challenge : CancelLands(c) \/ TimeRunsOut(c) \/ Expire(c) \/ ObjectRestarts(c)
    \/ \E b \in Browser : Crash(b)
    \/ \E r \in Student : Launch(r) \/ LaunchFault(r)

(* Calls are answered or time out, timers fire, and a page reads its       *)
(* stream; people do nothing they need not do.                             *)
Fairness ==
    /\ WF_vars(\E r \in scenario.logins : ServerStep(r))
    /\ WF_vars(\E r \in scenario.logins : TabStep(r))
    /\ WF_vars(\E c \in Challenge : TimeRunsOut(c))
    /\ WF_vars(\E c \in Challenge : Expire(c))

Spec == Init /\ [][Next]_vars
FairSpec == Spec /\ Fairness

-----------------------------------------------------------------------------
(* What the relay promises, whatever the coordinator: one answer is        *)
(* accepted, and the login gets that one or none.                          *)
Relays == INSTANCE OneShotAnswer WITH
    acked <- [c \in Challenge |-> relay[c].acked],
    got <- [c \in Challenge |-> relay[c].got]

(* The three coordinators implement the one-shot answer.                   *)
ImplementsOneShot == Relays!Spec

(* An answer that was acknowledged reaches the login that waits for it,    *)
(* unless it lapsed before it was fetched, the request was cancelled or a  *)
(* call failed: not when the waiter's own deadline passes meanwhile.       *)
AcceptedAnswerUsed ==
    \A c \in Challenge :
        LET x == relay[c] IN
        x.acked # None /\ x.wait = "over" =>
            \/ x.got = x.acked \/ x.lapsed
            \/ login[c[1]].aborted \/ login[c[1]].cancelled \/ faults > 0

(* The page only takes two challenges for overlapping when the answer to   *)
(* the first was accepted before it saw the second.                        *)
OverlapOnlyUnheard ==
    \A r \in Guardian : tab[r].result = "overlapping" => relay[<<r, 1>>].acked # None

(* What a person typed is used, and a page that takes the login for broken *)
(* has been told that its answer was.                                      *)
AnswersHeard == AcceptedAnswerUsed /\ OverlapOnlyUnheard

(* Whichever way a login ended, around every step of its relay, no relay   *)
(* of it stays open, until it is late, for an answer nobody waits for.     *)
RelayReleased ==
    faults = 0 =>
        \A c \in Challenge :
            /\ login[c[1]].pc = "over" /\ login[c[1]].ask = "none"
            /\ relay[c].row = "pending" /\ ~relay[c].late
            => relay[c].cancelling

(* No browser is left running that the next login of the account cannot    *)
(* find: where its logins do not overlap, and always where nothing is      *)
(* cached.  Patchright is left out (see NoBrowserOrphaned).                *)
BrowsersAccounted ==
    kind = "cloudflare" \/ (kind = "local" /\ ~scenario.overlap) => NoBrowserOrphaned

(* However calls, people and browsers behave, logins that began end, at    *)
(* the server and at the page.                                             *)
SignInEnds ==
    []<>(\A r \in Login :
            login[r].pc # "idle" => login[r].pc = "over" /\ tab[r].pc = "over")

(* A sign-in leaves nothing behind that waits for it: no relay and no      *)
(* browser.                                                                *)
NothingStaysOpen == RelayReleased /\ BrowsersAccounted
=============================================================================
