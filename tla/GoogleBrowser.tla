---------------------------- MODULE GoogleBrowser ----------------------------
(***************************************************************************)
(* The automated Google sign-in of one UET account                         *)
(* (packages/university-adapters/src/uet): logins of the account launch a  *)
(* browser or reuse the one cached from an earlier login, drive it through *)
(* StudentHub, Google, the Keycloak of VNU and Canvas under a deadline,    *)
(* and keep or close it.                                                   *)
(*                                                                         *)
(* Kinds of browser: "local" (puppeteer, launched here or at an endpoint), *)
(* "patchright" (Playwright contexts) and "cloudflare" (Browser Rendering, *)
(* never cached).  The pages are the environment: any of their answers may *)
(* come.                                                                   *)
(***************************************************************************)
EXTENDS Naturals, FiniteSets

CONSTANTS
    Student,       \* Logins, or refreshes, of the account.
    NumBrowsers    \* Bound on the browsers that are ever launched.

ASSUME BrowserAssumption == NumBrowsers \in Nat \ {0}

Browser == 1..NumBrowsers
NoBrowser == 0
Kind == {"local", "patchright", "cloudflare"}

VARIABLES
    kind,      \* The browsers of the deployment; never changes.
    browser,   \* What became of every browser.
    cache,     \* The cache entry of the account, with Patchright's closed flag.
    auto       \* The automation of every login.

browserVars == <<browser, cache, auto>>

(* place: where the flow is.  using: the browser it drives.  cached: the   *)
(* entry read when the attempt began.  launching: a launch nobody may wait *)
(* for any more.  late: the deadline of the attempt passed.  found: a      *)
(* token of StudentHub or a session of Canvas was captured.                *)
Place == {"studenthub", "popup", "email", "keycloak", "reopened", "closed", "canvas", "done"}

NoAutomation ==
    [pc |-> "idle", attempt |-> 0, reusing |-> FALSE, cached |-> NoBrowser, using |-> NoBrowser,
     place |-> "studenthub", launching |-> FALSE, aborted |-> FALSE, late |-> FALSE,
     found |-> FALSE, error |-> "none", result |-> "none"]

Automation ==
    [pc: {"idle", "start", "launching", "flow", "failing", "over"}, attempt: 0..2,
     reusing: BOOLEAN, cached: Browser \cup {NoBrowser}, using: Browser \cup {NoBrowser},
     place: Place, launching: BOOLEAN, aborted: BOOLEAN, late: BOOLEAN,
     found: BOOLEAN, error: {"none", "hard", "other", "late"},
     result: {"none", "signed", "failed"}]

BrowserTypeOK ==
    /\ kind \in Kind
    /\ browser \in [Browser -> {"none", "live", "closed"}]
    /\ cache \in [entry: Browser \cup {NoBrowser}, closed: BOOLEAN]
    /\ auto \in [Student -> Automation]

BrowserInit ==
    /\ browser = [b \in Browser |-> "none"]
    /\ cache = [entry |-> NoBrowser, closed |-> FALSE]
    /\ auto = [l \in Student |-> NoAutomation]

-----------------------------------------------------------------------------
(* Browsers and the cache.                                                 *)

shut(B) == [b \in Browser |-> IF b \in B THEN "closed" ELSE browser[b]]
live(b) == b # NoBrowser /\ browser[b] = "live"

\* The close listener of a Patchright entry.
cacheAfter(B) ==
    IF cache.entry \in B /\ live(cache.entry) THEN [cache EXCEPT !.closed = TRUE] ELSE cache

Close(B) ==
    /\ browser' = shut(B \ {NoBrowser})
    /\ cache' = cacheAfter(B \ {NoBrowser})

\* evictCachedSession, while other browsers B are closed as well.
EvictCachedSession(B) ==
    /\ browser' = shut((B \cup {cache.entry}) \ {NoBrowser})
    /\ cache' = [entry |-> NoBrowser, closed |-> FALSE]

\* isBrowserAlive, or the closed flag of Patchright.
reusable ==
    /\ cache.entry # NoBrowser
    /\ IF kind = "patchright" THEN ~cache.closed ELSE live(cache.entry)

\* A browser crashes or loses its connection.
BrowserCrashes(b) ==
    /\ live(b)
    /\ Close({b})
    /\ UNCHANGED <<kind, auto>>

-----------------------------------------------------------------------------
(* automateVnuGoogleLogin: attempts, each with a deadline of its own.      *)

\* evictStaleIfIdle: the entry may have been idle for too long.
Begin(l) ==
    /\ auto[l].pc = "idle"
    /\ auto' = [auto EXCEPT ![l].pc = "start"]
    /\ \/ cache.entry # NoBrowser /\ EvictCachedSession({})
       \/ UNCHANGED <<browser, cache>>
    /\ UNCHANGED kind

(* An attempt reuses the cached browser or launches one.  Patchright       *)
(* forgets what an earlier attempt captured.                               *)
StartAttempt(l) ==
    LET x == auto[l]
        y == [x EXCEPT !.attempt = @ + 1, !.reusing = reusable, !.cached = cache.entry,
                       !.using = IF reusable THEN cache.entry ELSE NoBrowser,
                       !.place = "studenthub", !.late = FALSE, !.launching = ~reusable,
                       !.found = IF kind = "patchright" THEN FALSE ELSE @]
    IN  /\ x.pc = "start"
        /\ auto' = [auto EXCEPT ![l] =
              IF x.aborted THEN [y EXCEPT !.pc = "failing", !.error = "late"]
              ELSE [y EXCEPT !.pc = IF reusable THEN "flow" ELSE "launching"]]
        /\ UNCHANGED <<kind, browser, cache>>

\* Mutant: the browser of a launch that was given up is forgotten.
LaunchEndsForgotten(l, b) ==
    /\ auto[l].launching /\ browser[b] = "none"
    /\ \A a \in 1..(b - 1) : browser[a] # "none"
    /\ auto' = [auto EXCEPT ![l].pc = IF @ = "launching" THEN "flow" ELSE @,
          ![l].using = IF auto[l].pc = "launching" THEN b ELSE @, ![l].launching = FALSE]
    /\ browser' = [browser EXCEPT ![b] = "live"]
    /\ UNCHANGED <<kind, cache>>

\* A launch that ends after its attempt was given up closes its browser.
LaunchEnds(l, b) ==
    /\ auto[l].launching /\ browser[b] = "none"
    /\ \A a \in 1..(b - 1) : browser[a] # "none"
    /\ IF auto[l].pc = "launching"
       THEN /\ auto' = [auto EXCEPT ![l].pc = "flow", ![l].using = b, ![l].launching = FALSE]
            /\ browser' = [browser EXCEPT ![b] = "live"]
       ELSE /\ auto' = [auto EXCEPT ![l].launching = FALSE]
            /\ browser' = [browser EXCEPT ![b] = "closed"]
    /\ UNCHANGED <<kind, cache>>

LaunchFails(l) ==
    /\ auto[l].launching
    /\ auto' = [auto EXCEPT ![l].launching = FALSE,
          ![l].pc = IF @ = "launching" THEN "failing" ELSE @,
          ![l].error = IF auto[l].pc = "launching" THEN "other" ELSE @]
    /\ UNCHANGED <<kind, browser, cache>>

FlowFails(l, error) ==
    auto' = [auto EXCEPT ![l].pc = "failing", ![l].error = error]

FlowGoes(l, place) == auto' = [auto EXCEPT ![l].place = place]

(* runFlowBody.  The popup of Google: a remembered session closes it, or   *)
(* lists an account that leads to Keycloak, or the e-mail is asked for.    *)
OpenStudentHub(l) ==
    /\ auto[l].place = "studenthub"
    /\ FlowGoes(l, "popup") \/ FlowFails(l, "hard")

ChooseAccount(l) ==
    /\ auto[l].place = "popup"
    /\ FlowGoes(l, "closed") \/ FlowGoes(l, "email") \/ FlowGoes(l, "keycloak")

(* A challenge, or a redirect to Keycloak that does not come, which is no  *)
(* hard failure to Patchright.                                             *)
TypeEmail(l) ==
    /\ auto[l].place = "email"
    /\ FlowGoes(l, "keycloak") \/ FlowFails(l, "hard") \/ FlowFails(l, "other")

\* The popup closes itself, or ends at Gmail and is opened again.
TypePassword(l) ==
    /\ auto[l].place = "keycloak"
    /\ FlowGoes(l, "closed") \/ FlowGoes(l, "reopened")

PickTile(l) ==
    /\ auto[l].place = "reopened"
    /\ FlowGoes(l, "closed") \/ FlowFails(l, "hard")

CaptureToken(l) ==
    /\ auto[l].place = "closed"
    /\ \/ auto' = [auto EXCEPT ![l].place = "canvas", ![l].found = TRUE]
       \/ FlowGoes(l, "canvas")
       \/ FlowFails(l, "hard")

ConnectCanvas(l) ==
    /\ auto[l].place = "canvas"
    /\ \/ auto' = [auto EXCEPT ![l].place = "done", ![l].found = TRUE]
       \/ FlowGoes(l, "done")

FlowStep(l) ==
    /\ auto[l].pc = "flow" /\ live(auto[l].using)
    /\ \/ OpenStudentHub(l) \/ ChooseAccount(l) \/ TypeEmail(l) \/ TypePassword(l)
       \/ PickTile(l) \/ CaptureToken(l) \/ ConnectCanvas(l)
    /\ UNCHANGED <<kind, browser, cache>>

\* A selector is missing, the network fails, or the browser is gone.
FlowBreaks(l) ==
    /\ auto[l].pc = "flow" /\ auto[l].place # "done"
    /\ FlowFails(l, "other")
    /\ UNCHANGED <<kind, browser, cache>>

(* The deadline, or the caller's signal: the browser is closed and the     *)
(* attempt fails, unless its flow was over just then.                      *)
interruptedFlow(x) ==
    IF x.pc \in {"launching", "flow"} /\ (x.pc = "flow" => x.place # "done")
    THEN [x EXCEPT !.pc = "failing", !.error = "late"] ELSE x

Deadline(l) ==
    /\ auto[l].pc \in {"launching", "flow"} /\ ~auto[l].late
    /\ auto' = [auto EXCEPT ![l] = [interruptedFlow(auto[l]) EXCEPT !.late = TRUE]]
    /\ Close({auto[l].using})
    /\ UNCHANGED kind

CallerAborts(l) ==
    /\ auto' = [auto EXCEPT ![l] = [interruptedFlow(auto[l]) EXCEPT !.aborted = TRUE]]
    /\ IF auto[l].pc \in {"launching", "flow"} THEN Close({auto[l].using})
       ELSE UNCHANGED <<browser, cache>>
    /\ UNCHANGED kind

-----------------------------------------------------------------------------
(* The end of an attempt.                                                  *)

over(x, result) ==
    [NoAutomation EXCEPT !.pc = "over", !.result = result, !.found = x.found,
                         !.launching = x.launching]

\* Success of the puppeteer flow, even if it captured nothing.
KeepBrowser(l) ==
    LET x == auto[l] IN
    /\ auto' = [auto EXCEPT ![l] = over(x, IF x.found THEN "signed" ELSE "failed")]
    /\ IF kind = "cloudflare" THEN Close({x.using})
       ELSE cache' = [entry |-> x.using, closed |-> FALSE] /\ UNCHANGED browser

(* Success of the Patchright flow.  The entry of before is kept, with its  *)
(* own context; a flow that captured nothing is no success.                *)
KeepContext(l) ==
    LET x == auto[l]
        entry == IF x.cached # NoBrowser THEN x.cached ELSE x.using
    IN  IF x.found
        THEN /\ auto' = [auto EXCEPT ![l] = over(x, "signed")]
             /\ cache' = [entry |-> entry, closed |-> FALSE]
             /\ UNCHANGED browser
        ELSE IF x.reusing
        THEN /\ auto' = [auto EXCEPT ![l] =
                    IF x.attempt = 2 THEN over(x, "failed") ELSE [x EXCEPT !.pc = "start"]]
             /\ EvictCachedSession({})
        ELSE /\ auto' = [auto EXCEPT ![l] = over(x, "failed")]
             /\ Close({x.using})

EndFlow(l) ==
    /\ auto[l].pc = "flow" /\ auto[l].place = "done"
    /\ \/ /\ auto[l].aborted \/ auto[l].late
          /\ FlowFails(l, "late")
          /\ UNCHANGED <<browser, cache>>
       \/ /\ ~auto[l].aborted
          /\ IF kind = "patchright" THEN KeepContext(l) ELSE KeepBrowser(l)
    /\ UNCHANGED kind

\* Which failures of a reused browser are tried again with a fresh one.
retried(x) ==
    x.reusing /\ ~x.aborted /\ (kind = "patchright" => x.error # "hard")

(* The catch of the loop.  The loop of puppeteer ends after two attempts   *)
(* with what was captured until then.                                      *)
FailAttempt(l) ==
    LET x == auto[l] IN
    /\ x.pc = "failing"
    /\ IF x.reusing THEN EvictCachedSession({}) ELSE Close({x.using})
    /\ auto' = [auto EXCEPT ![l] =
          IF ~retried(x) THEN over(x, "failed")
          ELSE IF x.attempt < 2 THEN [x EXCEPT !.pc = "start"]
          ELSE over(x, IF kind # "patchright" /\ x.found THEN "signed" ELSE "failed")]
    /\ UNCHANGED kind

-----------------------------------------------------------------------------
AutomationNext(l) ==
    \/ StartAttempt(l) \/ FlowStep(l) \/ FlowBreaks(l) \/ Deadline(l) \/ EndFlow(l)
    \/ FailAttempt(l)

driving(b) == \E l \in Student : auto[l].pc # "over" /\ auto[l].using = b

orphaned(b) == live(b) /\ ~driving(b) /\ cache.entry # b

(* No browser outlives its login unless the next login of the account can  *)
(* find it: what is launched is cached, closed or in use.  "Success - keep *)
(* the context alive in the cache instead of closing it, so the next       *)
(* refresh call can reuse it."                                             *)
NoBrowserOrphaned == \A b \in Browser : ~orphaned(b)

=============================================================================
