--------------------------- MODULE UetSignInProofs ---------------------------
(***************************************************************************)
(* Proofs about the sign-in at UET (UetSignIn): the relay of verification  *)
(* codes behind each of its three coordinators, what the page hears, and   *)
(* what a sign-in leaves behind.                                           *)
(*                                                                         *)
(* The logins of guardians do not meet: the invariant says of each what    *)
(* its request, its two relays, its stream and its page have to do with    *)
(* one another (GuardianOK).  The logins of students share the cache of    *)
(* browsers (BrowsersOK).                                                  *)
(***************************************************************************)
EXTENDS UetSignIn, TLAPS

LoginState ==
    [pc: {"idle", "challenge", "ocr", "human", "authenticating", "browsing",
          "finishing", "over"},
     attempt: 0..2, first: {None, "ocr", "human"},
     ask: {"none", "preparing", "prepared", "waiting", "cancelling"},
     active: BOOLEAN, aborted: BOOLEAN, cancelled: BOOLEAN,
     result: {None, "session", "error", "cancelled"}]
TabState ==
    [pc: {"idle", "reading", "closing", "over"}, challenge: Challenge \cup {None},
     phase: {"none", "asking", "submitting", "accepted", "refused"},
     answer: Answer \cup {None},
     result: {None, "signed", "failed", "overlapping", "left"}]

-----------------------------------------------------------------------------
(* One relay, x, of a login l, behind the coordinator b, after n faults.   *)

\* What is stored, returned or settled is the answer that was acknowledged.
RelayOK(b, x) ==
    /\ x.acked # None => x.row # "pending"
    /\ x.row = "answered" => x.acked # None /\ x.answer = x.acked
    /\ x.got # None <=> x.wait = "over"
    /\ x.got \in Answer => x.got = x.acked
    /\ x.result \in Answer => x.result = x.acked
    /\ x.wait = "returned" => x.row = "absent" /\ x.result # None
    /\ x.wait = "blocked" /\ b # "redis" => x.row = "pending"

Excused(n, x, l) == x.lapsed \/ l.aborted \/ l.cancelled \/ n > 0

\* An acknowledged answer is on its way, or has come.
Kept(n, x, l) ==
    \/ Excused(n, x, l)
    \/ /\ x.wait = "over" => x.row = "absent"
       /\ x.acked # None =>
             \/ x.got = x.acked
             \/ /\ x.got = None
                /\ x.row = "answered" \/ (x.wait = "returned" /\ x.result = x.acked)

asking(l) == l.ask \in {"prepared", "waiting", "cancelling"}

\* Whoever opened a relay still holds it, or has let its cancel() go.
Held(n, x, l, k) ==
    n = 0 /\ x.row = "pending" /\ ~x.late =>
        x.cancelling \/ (asking(l) /\ l.attempt = k /\ l.active)

\* Only a login that was given up cancels its relay by itself.
Meant(x, l) == x.cancelling \/ x.aborted => l.aborted \/ l.cancelled

\* What a relay was told, or told, it stays with, and one step tells it once.
Follows(x, y) ==
    /\ x.acked # None => y.acked = x.acked
    /\ x.got # None => y.got = x.got
    /\ x.wait # "none" => y.wait # "none"
    /\ x.lapsed => y.lapsed
    /\ y.acked # x.acked => y.acked \in Answer
    /\ y.got # x.got => y.got \in Failure \/ (y.got = y.acked /\ y.acked # None)
    /\ y.got # x.got /\ y.got \in Failure => y.acked = x.acked

\* A step of the relay behind the coordinator b that opens nothing.
Moved(b, x, y) ==
    /\ y \in Relay /\ RelayOK(b, y) /\ Follows(x, y)
    /\ y.row = "pending" => x.row = "pending"
    /\ x.late => y.late

Same(x, y) == y.cancelling = x.cancelling /\ y.aborted = x.aborted

Keeps(x, y) ==
    \A n \in Nat, l \in LoginState : Meant(x, l) /\ Kept(n, x, l) => Kept(n, y, l)

-----------------------------------------------------------------------------
(* The login of a guardian r: its request l, its relays xs, the events s   *)
(* on their way, and its page t.                                           *)

\* Relays that the login has not come to yet.
unopened(l, k) ==
    \/ k > l.attempt
    \/ k = l.attempt /\ (l.pc \in {"challenge", "ocr"} \/ l.ask = "preparing")

AskingOK(l, xs) ==
    /\ l.pc # "browsing"
    /\ IF l.pc = "idle" THEN l.attempt = 0 ELSE l.attempt \in 1..2
    /\ l.pc \in {"idle", "challenge", "ocr", "authenticating", "finishing"} => l.ask = "none"
    /\ l.pc = "human" => l.ask # "none"
    /\ l.active => asking(l)
    /\ \A k \in 1..2 : unopened(l, k) => xs[k] = NoRelay
    /\ l.ask # "none" => l.attempt \in 1..2
    /\ l.ask = "prepared" => xs[l.attempt].wait = "none"
    /\ l.ask = "cancelling" => l.cancelled \/ l.aborted \/ xs[l.attempt].got \in Failure
    /\ (l.attempt = 1 /\ l.pc = "authenticating") \/ l.attempt = 2 =>
          xs[1].wait = "none" \/ xs[1].acked # None

RelaysOK(b, n, l, xs) ==
    \A k \in 1..2 :
        RelayOK(b, xs[k]) /\ Kept(n, xs[k], l) /\ Held(n, xs[k], l, k) /\ Meant(xs[k], l)

\* What the page was sent, or shows, was asked; later challenges come later.
asks(s, i) == s[i].type = "captcha"

asked(r, c, xs) == \E k \in 1..2 : c = <<r, k>> /\ xs[k].wait # "none"

StreamOK(r, s, xs) ==
    /\ \A i \in 1..Len(s) : asks(s, i) => asked(r, s[i].challenge, xs)
    /\ \A i, j \in 1..Len(s) : asks(s, i) /\ asks(s, j) /\ i < j =>
          s[i].challenge[2] < s[j].challenge[2]

TabOK(r, s, t, xs) ==
    /\ t.phase # "none" => t.challenge # None
    /\ t.phase \in {"submitting", "accepted", "refused"} => t.answer \in Answer
    /\ t.challenge # None =>
          /\ asked(r, t.challenge, xs)
          /\ \A i \in 1..Len(s) : asks(s, i) => t.challenge[2] < s[i].challenge[2]
    /\ t.result = "overlapping" => xs[1].acked # None

PageOK(r, s, t, xs) == StreamOK(r, s, xs) /\ TabOK(r, s, t, xs)

Guarded(b, n, r, l, xs, s, t) == AskingOK(l, xs) /\ RelaysOK(b, n, l, xs) /\ PageOK(r, s, t, xs)

relays(r) == [k \in 1..2 |-> relay[<<r, k>>]]

GuardianOK(r) == Guarded(coordinator, faults, r, login[r], relays(r), stream[r], tab[r])

\* The login of a student asks nobody anything.
Plain(l, s, t) ==
    /\ l.pc \in {"idle", "browsing", "finishing", "over"}
    /\ l.ask = "none" /\ ~l.active
    /\ \A i \in 1..Len(s) : ~asks(s, i)
    /\ t.challenge = None /\ t.phase = "none"

StudentOK(r) == Plain(login[r], stream[r], tab[r])

LoginsOK ==
    /\ \A r \in Guardian : GuardianOK(r)
    /\ \A r \in Student : StudentOK(r)

-----------------------------------------------------------------------------
(* Browsers.                                                               *)

ended(l) == l.pc \in {"idle", "over"}

busy(l) == auto[l].pc \notin {"idle", "over"}

\* Where its logins share no browser.
apart == kind = "cloudflare" \/ (kind = "local" /\ ~scenario.overlap)

AutomationOK(l) ==
    LET x == auto[l] IN
    /\ busy(l) => login[l].pc = "browsing"
    /\ x.using # NoBrowser => busy(l) /\ browser[x.using] # "none"
    /\ x.cached # NoBrowser => browser[x.cached] # "none"
    /\ x.pc \in {"idle", "start"} => x.attempt \in 0..1
    /\ x.pc = "launching" => x.using = NoBrowser /\ ~x.reusing /\ x.launching
    /\ kind = "cloudflare" => ~x.reusing /\ (x.pc = "start" => x.using = NoBrowser)
    /\ kind = "local" /\ ~scenario.overlap =>
          /\ x.pc = "start" => ~live(x.using)
          /\ x.pc \in {"flow", "failing"} /\ x.reusing => x.using = cache.entry
          /\ x.pc \in {"launching", "flow", "failing"} /\ ~x.reusing => ~live(cache.entry)

\* Where logins do not overlap, one is under way.
OneLogin ==
    ~scenario.overlap =>
        \A p, q \in Login : ~ended(login[p]) /\ ~ended(login[q]) => p = q

BrowsersOK ==
    /\ \A l \in Student : AutomationOK(l)
    /\ cache.entry # NoBrowser => browser[cache.entry] # "none"
    /\ kind = "cloudflare" => cache.entry = NoBrowser
    /\ apart => NoBrowserOrphaned

IInv == TypeOK /\ LoginsOK /\ OneLogin /\ BrowsersOK


-----------------------------------------------------------------------------
(* The operators of the relay, field by field.                             *)

LEMMA Settled ==
    ASSUME NEW x \in Relay, NEW v \in Answer \cup Failure
    PROVE  /\ settled(x, v) \in Relay
           /\ settled(x, v).wait = "over" /\ settled(x, v).got = v
           /\ settled(x, v).row = x.row /\ settled(x, v).answer = x.answer
           /\ settled(x, v).late = x.late /\ settled(x, v).signal = x.signal
           /\ settled(x, v).popped = x.popped /\ settled(x, v).result = x.result
           /\ settled(x, v).aborted = x.aborted
           /\ settled(x, v).cancelling = x.cancelling
           /\ settled(x, v).lapsed = x.lapsed /\ settled(x, v).acked = x.acked
  BY DEF settled, Relay

LEMMA Deleted ==
    ASSUME NEW x \in Relay
    PROVE  /\ deleted(x) \in Relay
           /\ deleted(x).row = "absent" /\ deleted(x).answer = None
           /\ deleted(x).late = x.late /\ deleted(x).signal = x.signal
           /\ deleted(x).popped = x.popped /\ deleted(x).wait = x.wait
           /\ deleted(x).result = x.result /\ deleted(x).aborted = x.aborted
           /\ deleted(x).cancelling = x.cancelling /\ deleted(x).lapsed = x.lapsed
           /\ deleted(x).acked = x.acked /\ deleted(x).got = x.got
  BY DEF deleted, Relay

LEMMA Lapsed ==
    ASSUME NEW x \in Relay
    PROVE  /\ lapse(x) \in Relay
           /\ (x.lapsed \/ x.row = "answered" => lapse(x).lapsed)
           /\ lapse(x).row = x.row /\ lapse(x).answer = x.answer
           /\ lapse(x).late = x.late /\ lapse(x).signal = x.signal
           /\ lapse(x).popped = x.popped /\ lapse(x).wait = x.wait
           /\ lapse(x).result = x.result /\ lapse(x).aborted = x.aborted
           /\ lapse(x).cancelling = x.cancelling /\ lapse(x).acked = x.acked
           /\ lapse(x).got = x.got
  BY DEF lapse, Relay

LEMMA Returned ==
    ASSUME NEW x \in Relay, NEW v \in Answer \cup Failure
    PROVE  /\ returned(x, v) \in Relay
           /\ returned(x, v).row = "absent" /\ returned(x, v).answer = None /\ returned(x, v).wait = "returned" /\ returned(x, v).result = v
           /\ returned(x, v).late = x.late /\ returned(x, v).signal = x.signal
           /\ returned(x, v).popped = x.popped /\ returned(x, v).aborted = x.aborted
           /\ returned(x, v).cancelling = x.cancelling
           /\ returned(x, v).lapsed = x.lapsed /\ returned(x, v).acked = x.acked
           /\ returned(x, v).got = x.got
<1> DEFINE y == deleted(x)
<1>1. y \in Relay /\ returned(x, v) = [y EXCEPT !.wait = "returned", !.result = v]
  BY Deleted DEF returned
<1> HIDE DEF y
<1>2. returned(x, v) \in Relay
  BY <1>1 DEF Relay
<1>3. /\ returned(x, v).row = y.row /\ returned(x, v).answer = y.answer /\ returned(x, v).wait = "returned" /\ returned(x, v).result = v
      /\ returned(x, v).late = y.late /\ returned(x, v).signal = y.signal
      /\ returned(x, v).popped = y.popped /\ returned(x, v).aborted = y.aborted
      /\ returned(x, v).cancelling = y.cancelling
      /\ returned(x, v).lapsed = y.lapsed /\ returned(x, v).acked = y.acked
      /\ returned(x, v).got = y.got
  BY <1>1 DEF Relay
<1> QED BY <1>2, <1>3, Deleted DEF y

LEMMA Cleaned ==
    ASSUME NEW x \in Relay
    PROVE  /\ cleaned(x) \in Relay
           /\ cleaned(x).row = "absent" /\ cleaned(x).answer = None /\ cleaned(x).signal = "none"
           /\ cleaned(x).late = x.late /\ cleaned(x).popped = x.popped
           /\ cleaned(x).wait = x.wait /\ cleaned(x).result = x.result
           /\ cleaned(x).aborted = x.aborted /\ cleaned(x).cancelling = x.cancelling
           /\ cleaned(x).lapsed = x.lapsed /\ cleaned(x).acked = x.acked
           /\ cleaned(x).got = x.got
<1> DEFINE y == deleted(x)
<1>1. y \in Relay /\ cleaned(x) = [y EXCEPT !.signal = "none"]
  BY Deleted DEF cleaned
<1> HIDE DEF y
<1>2. cleaned(x) \in Relay
  BY <1>1 DEF Relay
<1>3. /\ cleaned(x).signal = "none"
      /\ cleaned(x).row = y.row /\ cleaned(x).answer = y.answer
      /\ cleaned(x).late = y.late /\ cleaned(x).popped = y.popped
      /\ cleaned(x).wait = y.wait /\ cleaned(x).result = y.result
      /\ cleaned(x).aborted = y.aborted /\ cleaned(x).cancelling = y.cancelling
      /\ cleaned(x).lapsed = y.lapsed /\ cleaned(x).acked = y.acked
      /\ cleaned(x).got = y.got
  BY <1>1 DEF Relay
<1> QED BY <1>2, <1>3, Deleted DEF y

-----------------------------------------------------------------------------
(* What the operators do to a relay that is as the invariant has it.       *)

LEMMA PreparedRelay ==
    ASSUME NEW b \in Coordinator
    PROVE  /\ prepared(NoRelay) \in Relay
           /\ RelayOK(b, prepared(NoRelay))
           /\ Follows(NoRelay, prepared(NoRelay))
           /\ prepared(NoRelay).wait = "none" /\ prepared(NoRelay).got = None
           /\ prepared(NoRelay).acked = None /\ prepared(NoRelay).row = "pending"
           /\ ~prepared(NoRelay).cancelling /\ ~prepared(NoRelay).aborted
<1>1. NoRelay \in Relay
  BY DEF NoRelay, Relay
<1>2. /\ NoRelay.wait = "none" /\ NoRelay.got = None /\ NoRelay.acked = None
      /\ ~NoRelay.cancelling /\ ~NoRelay.aborted /\ NoRelay.result = None
  BY DEF NoRelay
<1> DEFINE x == NoRelay
           y == prepared(x)
<1>3. /\ y \in Relay /\ y.row = "pending" /\ y.wait = x.wait /\ y.got = x.got
      /\ y.acked = x.acked /\ y.cancelling = x.cancelling /\ y.aborted = x.aborted
      /\ y.result = x.result /\ y.lapsed = x.lapsed
  <2> HIDE DEF x
  <2> QED BY <1>1 DEF prepared, Relay, x
<1> HIDE DEF y, x
<1>4. RelayOK(b, y) /\ Follows(x, y)
  BY <1>2, <1>3, RelayAssumption DEF RelayOK, Follows, x
<1> QED BY <1>2, <1>3, <1>4 DEF x, y

LEMMA AnsweredRelay ==
    ASSUME NEW b \in Coordinator, NEW x \in Relay, NEW a \in Answer, RelayOK(b, x),
           x.row = "pending", NEW y, y = answered(b, x, a)
    PROVE  /\ Moved(b, x, y) /\ Same(x, y) /\ Keeps(x, y)
           /\ y.acked = a /\ (y.wait = "none" <=> x.wait = "none")
<1> DEFINE z == [x EXCEPT !.acked = a]
<1>1. /\ z \in Relay /\ z.acked = a
      /\ z.row = x.row /\ z.wait = x.wait /\ z.got = x.got /\ z.result = x.result
      /\ z.late = x.late /\ z.lapsed = x.lapsed /\ Same(x, z)
  BY DEF Relay, Same
<1>2. a # None /\ x.acked = None /\ a \notin Failure
  BY RelayAssumption DEF RelayOK, Relay
<1>3. /\ y \in Relay /\ y.acked = a /\ y.row # "pending" /\ y.late = x.late
      /\ y.lapsed = x.lapsed /\ Same(x, y)
      /\ \/ /\ x.wait = "blocked" /\ b = "local" /\ y.row = "absent"
            /\ y.wait = "over" /\ y.got = a /\ y.result = x.result
         \/ /\ x.wait = "blocked" /\ b = "durable" /\ y.row = "absent"
            /\ y.wait = "returned" /\ y.got = x.got /\ y.result = a
         \/ /\ b = "redis" \/ x.wait # "blocked"
            /\ y.row = "answered" /\ y.answer = a
            /\ y.wait = x.wait /\ y.got = x.got /\ y.result = x.result
  <2> HIDE DEF z
  <2>1. y = IF b # "redis" /\ x.wait = "blocked" THEN woken(b, z, a)
            ELSE [z EXCEPT !.row = "answered", !.answer = a,
                           !.signal = IF b = "redis" THEN "answered" ELSE @]
    BY DEF answered, z
  <2>2. CASE b = "local" /\ x.wait = "blocked"
    <3>1. y = settled(deleted(z), a)
      BY <2>1, <2>2 DEF woken
    <3> QED BY <1>1, <2>2, <3>1, Settled, Deleted DEF Same
  <2>3. CASE b = "durable" /\ x.wait = "blocked"
    <3>1. y = returned(z, a)
      BY <2>1, <2>3 DEF woken
    <3> QED BY <1>1, <2>3, <3>1, Returned DEF Same
  <2>4. CASE b = "redis" \/ x.wait # "blocked"
    <3>1. y = [z EXCEPT !.row = "answered", !.answer = a,
                        !.signal = IF b = "redis" THEN "answered" ELSE @]
      BY <2>1, <2>4
    <3>2. y \in Relay /\ y.row = "answered" /\ y.answer = a /\ y.acked = z.acked
          /\ y.late = z.late /\ y.lapsed = z.lapsed /\ Same(z, y)
          /\ y.wait = z.wait /\ y.got = z.got /\ y.result = z.result
      BY <1>1, <3>1 DEF Relay, Same
    <3> QED BY <1>1, <2>4, <3>2 DEF Same
  <2> QED BY <2>2, <2>3, <2>4 DEF Coordinator
<1> HIDE DEF z
<1>4. RelayOK(b, y) /\ Follows(x, y)
  BY <1>2, <1>3, RelayAssumption DEF RelayOK, Follows, Relay
<1>5. Keeps(x, y)
  BY <1>2, <1>3 DEF RelayOK, Keeps, Kept, Excused
<1> QED BY <1>2, <1>3, <1>4, <1>5 DEF Moved

LEMMA CancelledRelay ==
    ASSUME NEW b \in Coordinator, NEW x \in Relay, RelayOK(b, x),
           NEW y, y = cancelled(b, x)
    PROVE  /\ Moved(b, x, y) /\ Same(x, y) /\ (y.wait = "none" <=> x.wait = "none")
           /\ y.row = "pending" => y.late
           /\ y.acked = x.acked /\ y.lapsed = x.lapsed
           /\ x.row # "answered" => Keeps(x, y)
<1>1. "cancelled" \in Failure /\ "cancelled" \in Answer \cup Failure /\ "cancelled" # None
      /\ "cancelled" \notin Answer
  BY RelayAssumption DEF Failure
<1>2. /\ y \in Relay /\ y.late = x.late /\ y.lapsed = x.lapsed /\ y.acked = x.acked /\ Same(x, y)
      /\ \/ y = x /\ (x.row # "pending" \/ x.late)
         \/ /\ x.row # "absent" /\ y.row = "absent" /\ y.wait = x.wait /\ y.got = x.got
            /\ y.result = x.result
            /\ x.row = "answered" \/ x.wait # "blocked" \/ b = "redis"
         \/ /\ x.wait = "blocked" /\ b = "local" /\ y.row = "absent"
            /\ y.wait = "over" /\ y.got = "cancelled" /\ y.result = x.result
         \/ /\ x.wait = "blocked" /\ b = "durable" /\ y.row = "absent"
            /\ y.wait = "returned" /\ y.got = x.got /\ y.result = "cancelled"
  <2>1. CASE b = "local"
    <3>1. CASE x.row = "absent"
      BY <2>1, <3>1 DEF cancelled, Same
    <3>2. CASE x.row # "absent" /\ x.wait = "blocked"
      <4>1. y = settled(deleted(x), "cancelled")
        BY <2>1, <3>2 DEF cancelled, woken
      <4> QED BY <1>1, <2>1, <3>2, <4>1, Settled, Deleted DEF Same
    <3>3. CASE x.row # "absent" /\ x.wait # "blocked"
      <4>1. y = deleted(x)
        BY <2>1, <3>3 DEF cancelled
      <4> QED BY <2>1, <3>3, <4>1, Deleted DEF Same
    <3> QED BY <3>1, <3>2, <3>3
  <2>2. CASE b = "durable"
    <3>1. CASE x.row # "pending"
      BY <2>2, <3>1 DEF cancelled, Same
    <3>2. CASE x.row = "pending" /\ x.wait = "blocked"
      <4>1. y = returned(x, "cancelled")
        BY <2>2, <3>2 DEF cancelled, woken
      <4> QED BY <1>1, <2>2, <3>2, <4>1, Returned DEF Same
    <3>3. CASE x.row = "pending" /\ x.wait # "blocked"
      <4>1. y = deleted(x)
        BY <2>2, <3>3 DEF cancelled
      <4> QED BY <2>2, <3>3, <4>1, Deleted DEF Same
    <3> QED BY <3>1, <3>2, <3>3
  <2>3. CASE b = "redis"
    <3>1. CASE x.row # "pending" \/ x.late
      BY <2>3, <3>1 DEF cancelled, Same
    <3>2. CASE x.row = "pending" /\ ~x.late
      <4> DEFINE z == deleted(x)
      <4>1. y = [z EXCEPT !.signal = "cancelled"]
        BY <2>3, <3>2 DEF cancelled
      <4>2. z \in Relay
        BY Deleted
      <4> HIDE DEF z
      <4>3. y \in Relay /\ y.late = z.late /\ y.lapsed = z.lapsed /\ y.acked = z.acked
            /\ Same(z, y) /\ y.row = z.row /\ y.wait = z.wait /\ y.got = z.got
            /\ y.result = z.result
        BY <4>1, <4>2 DEF Relay, Same
      <4> QED BY <2>3, <3>2, <4>3, Deleted DEF Same, z
    <3> QED BY <3>1, <3>2
  <2> QED BY <2>1, <2>2, <2>3 DEF Coordinator
<1>3. RelayOK(b, y) /\ Follows(x, y)
  BY <1>1, <1>2 DEF RelayOK, Follows, Relay
<1>4. ASSUME x.row # "answered" PROVE Keeps(x, y)
  BY <1>1, <1>2, <1>4 DEF RelayOK, Keeps, Kept, Excused, Relay
<1>5. /\ y.row = "pending" => x.row = "pending"
      /\ y.row = "pending" => y.late
      /\ y.wait = "none" <=> x.wait = "none"
  BY <1>2
<1> QED BY <1>2, <1>3, <1>4, <1>5 DEF Moved

LEMMA WaitedRelay ==
    ASSUME NEW b \in Coordinator, NEW x \in Relay, RelayOK(b, x), x.wait = "none",
           NEW aborted \in BOOLEAN, ~aborted, NEW y, y = waited(b, x, aborted)
    PROVE  Moved(b, x, y) /\ Same(x, y) /\ Keeps(x, y) /\ y.wait # "none"
<1>0. "not_found" \in Answer \cup Failure
  BY DEF Failure
<1>1. /\ "not_found" \in Failure /\ "not_found" \in Answer \cup Failure /\ "not_found" # None
      /\ "not_found" \notin Answer /\ None \notin Answer
  BY RelayAssumption DEF Failure
<1>2. x.got = None
  BY DEF RelayOK
<1>3. /\ y \in Relay /\ y.late = x.late /\ y.lapsed = x.lapsed /\ y.acked = x.acked /\ Same(x, y)
      /\ y.result = x.result
      /\ \/ /\ x.row = "absent" /\ b = "local" /\ y.row = "absent"
            /\ y.wait = "over" /\ y.got = "not_found"
         \/ /\ x.row = "answered" /\ b = "local" /\ y.row = "absent"
            /\ y.wait = "over" /\ y.got = x.answer
         \/ /\ y.row = x.row /\ y.answer = x.answer /\ y.got = x.got
            /\ \/ y.wait = "blocked" /\ x.row = "pending"
               \/ y.wait \in {"calling", "reading"}
  <2>1. CASE b = "local" /\ x.row = "absent"
    <3>1. y = settled(x, "not_found")
      BY <2>1 DEF waited
    <3>2. y \in Relay /\ y.late = x.late /\ y.lapsed = x.lapsed /\ y.acked = x.acked
          /\ y.result = x.result /\ y.row = x.row /\ y.wait = "over" /\ y.got = "not_found"
          /\ y.cancelling = x.cancelling /\ y.aborted = x.aborted
      BY <1>0, <3>1, Settled
    <3> QED BY <2>1, <3>2 DEF Same
  <2>2. CASE b = "local" /\ x.row = "answered"
    <3>1. y = settled(deleted(x), x.answer) /\ x.answer \in Answer
      BY <2>2 DEF waited, RelayOK, Relay
    <3> QED BY <1>0, <2>2, <3>1, Settled, Deleted DEF Same
  <2>3. CASE b = "local" /\ x.row = "pending"
    <3>1. y = [x EXCEPT !.wait = "blocked"]
      BY <2>3 DEF waited
    <3>2. y \in Relay /\ y.wait = "blocked" /\ y.row = x.row /\ y.answer = x.answer
          /\ y.late = x.late /\ y.lapsed = x.lapsed /\ y.acked = x.acked /\ y.got = x.got
          /\ y.result = x.result /\ Same(x, y)
      BY <3>1 DEF Same, Relay
    <3> QED BY <2>3, <3>2
  <2>4. CASE b = "durable"
    <3>1. y = [x EXCEPT !.wait = "calling"]
      BY <2>4 DEF waited
    <3>2. y \in Relay /\ y.wait = "calling" /\ y.row = x.row /\ y.answer = x.answer
          /\ y.late = x.late /\ y.lapsed = x.lapsed /\ y.acked = x.acked /\ y.got = x.got
          /\ y.result = x.result /\ Same(x, y)
      BY <3>1 DEF Same, Relay
    <3> QED BY <2>4, <3>2
  <2>5. CASE b = "redis"
    <3>1. y = [x EXCEPT !.wait = "reading"]
      BY <2>5 DEF waited
    <3>2. y \in Relay /\ y.wait = "reading" /\ y.row = x.row /\ y.answer = x.answer
          /\ y.late = x.late /\ y.lapsed = x.lapsed /\ y.acked = x.acked /\ y.got = x.got
          /\ y.result = x.result /\ Same(x, y)
      BY <3>1 DEF Same, Relay
    <3> QED BY <2>5, <3>2
  <2>6. x.row \in {"absent", "pending", "answered"}
    BY DEF Relay
  <2> QED BY <2>1, <2>2, <2>3, <2>4, <2>5, <2>6 DEF Coordinator
<1>4. RelayOK(b, y) /\ Follows(x, y)
  BY <1>1, <1>2, <1>3 DEF RelayOK, Follows, Relay
<1>5. Keeps(x, y)
  BY <1>1, <1>2, <1>3 DEF RelayOK, Keeps, Kept, Excused, Relay
<1> QED BY <1>3, <1>4, <1>5 DEF Moved

(* A relay whose wait() goes on: in the object, at the edge of the object, *)
(* or in the loop of the Redis coordinator.                                *)
LEMMA ObjectWaitedRelay ==
    ASSUME NEW b \in Coordinator, NEW x \in Relay, RelayOK(b, x), x.wait = "calling",
           NEW y, y = objectWaited(x)
    PROVE  Moved(b, x, y) /\ Same(x, y) /\ Keeps(x, y) /\ y.wait # "none"
<1>0. "not_found" \in Answer \cup Failure /\ "timeout" \in Answer \cup Failure
  BY DEF Failure
<1>1. /\ {"not_found", "timeout"} \subseteq Failure /\ {"not_found", "timeout"} \cap Answer = {}
      /\ None \notin Answer \cup Failure
  BY RelayAssumption DEF Failure
<1>2. x.got = None
  BY DEF RelayOK
<1>3. /\ y \in Relay /\ y.late = x.late /\ y.acked = x.acked /\ Same(x, y) /\ y.got = x.got
      /\ \/ /\ x.row = "absent" /\ y.row = "absent" /\ y.wait = "returned"
            /\ y.result = "not_found" /\ y.lapsed = x.lapsed
         \/ /\ y.row = "absent" /\ y.wait = "returned"
            /\ y.result = "timeout" /\ (x.lapsed \/ x.row = "answered" => y.lapsed)
         \/ /\ x.row = "answered" /\ y.row = "absent" /\ y.wait = "returned"
            /\ y.result = x.answer /\ y.lapsed = x.lapsed
         \/ /\ x.row = "pending" /\ y.row = x.row /\ y.answer = x.answer
            /\ y.wait = "blocked" /\ y.result = x.result /\ y.lapsed = x.lapsed
  <2>1. CASE x.row = "absent"
    <3>1. y = returned(x, "not_found")
      BY <2>1 DEF objectWaited
    <3> QED BY <1>0, <2>1, <3>1, Returned DEF Same
  <2>2. CASE x.row # "absent" /\ x.late
    <3>1. y = returned(lapse(x), "timeout")
      BY <2>2 DEF objectWaited
    <3>2. y \in Relay /\ y.late = x.late /\ y.acked = x.acked
          /\ y.cancelling = x.cancelling /\ y.aborted = x.aborted
          /\ y.got = x.got /\ y.row = "absent" /\ y.wait = "returned" /\ y.result = "timeout"
          /\ (x.lapsed \/ x.row = "answered" => y.lapsed)
      BY <1>0, <3>1, Returned, Lapsed
    <3> QED BY <2>2, <3>2 DEF Same
  <2>3. CASE x.row = "answered" /\ ~x.late
    <3>1. y = returned(x, x.answer) /\ x.answer \in Answer
      BY <2>3 DEF objectWaited, RelayOK, Relay
    <3> QED BY <1>0, <2>3, <3>1, Returned DEF Same
  <2>4. CASE x.row = "pending" /\ ~x.late
    <3>1. y = [x EXCEPT !.wait = "blocked"]
      BY <2>4 DEF objectWaited
    <3>2. y \in Relay /\ y.wait = "blocked" /\ y.row = x.row /\ y.answer = x.answer
          /\ y.late = x.late /\ y.lapsed = x.lapsed /\ y.acked = x.acked /\ y.got = x.got
          /\ y.result = x.result /\ Same(x, y)
      BY <3>1 DEF Same, Relay
    <3> QED BY <2>4, <3>2
  <2>5. x.row \in {"absent", "pending", "answered"}
    BY DEF Relay
  <2> QED BY <2>1, <2>2, <2>3, <2>4, <2>5
<1>4. RelayOK(b, y) /\ Follows(x, y)
  BY <1>1, <1>2, <1>3 DEF RelayOK, Follows, Relay
<1>5. Keeps(x, y)
  BY <1>1, <1>2, <1>3 DEF RelayOK, Keeps, Kept, Excused, Relay
<1> QED BY <1>3, <1>4, <1>5 DEF Moved

LEMMA ReturnedRelay ==
    ASSUME NEW b \in Coordinator, NEW x \in Relay, RelayOK(b, x), x.wait = "returned",
           NEW y, y = settled(x, x.result)
    PROVE  Moved(b, x, y) /\ Same(x, y) /\ Keeps(x, y) /\ y.wait # "none"
<1>1. x.result \in Answer \cup Failure /\ x.got = None /\ x.row = "absent"
  BY DEF RelayOK, Relay
<1>2. /\ y \in Relay /\ y.late = x.late /\ y.acked = x.acked /\ Same(x, y)
      /\ y.row = "absent" /\ y.wait = "over" /\ y.got = x.result /\ y.result = x.result
      /\ y.lapsed = x.lapsed
  BY <1>1, Settled DEF Same
<1>3. RelayOK(b, y) /\ Follows(x, y)
  BY <1>1, <1>2, RelayAssumption DEF RelayOK, Follows, Relay
<1>4. Keeps(x, y)
  BY <1>1, <1>2 DEF RelayOK, Keeps, Kept, Excused, Relay
<1> QED BY <1>2, <1>3, <1>4 DEF Moved

LEMMA ReadRelay ==
    ASSUME NEW b \in Coordinator, NEW x \in Relay, RelayOK(b, x), x.wait = "reading",
           NEW y, y = read(x)
    PROVE  Moved(b, x, y) /\ Same(x, y) /\ Keeps(x, y) /\ y.wait # "none"
<1>0. "not_found" \in Answer \cup Failure /\ "timeout" \in Answer \cup Failure
  BY DEF Failure
<1>1. /\ {"not_found", "timeout"} \subseteq Failure /\ {"not_found", "timeout"} \cap Answer = {}
      /\ None \notin Answer \cup Failure
  BY RelayAssumption DEF Failure
<1>2. x.got = None
  BY DEF RelayOK
<1>3. /\ y \in Relay /\ y.late = x.late /\ y.acked = x.acked /\ Same(x, y)
      /\ y.result = x.result /\ y.lapsed = x.lapsed
      /\ \/ /\ x.row = "absent" /\ y.row = "absent" /\ y.wait = "over" /\ y.got = "not_found"
         \/ /\ x.row = "answered" /\ y.row = "absent" /\ y.wait = "over" /\ y.got = x.answer
         \/ /\ x.row = "pending" /\ y.row = "absent" /\ y.wait = "over" /\ y.got = "timeout"
         \/ /\ x.row = "pending" /\ y.row = x.row /\ y.answer = x.answer
            /\ y.wait = "blocked" /\ y.got = x.got
  <2>1. CASE x.row = "absent"
    <3>1. y = settled(x, "not_found")
      BY <2>1 DEF read
    <3>2. y \in Relay /\ y.late = x.late /\ y.acked = x.acked
          /\ y.cancelling = x.cancelling /\ y.aborted = x.aborted
          /\ y.result = x.result /\ y.row = x.row /\ y.wait = "over" /\ y.got = "not_found"
          /\ y.lapsed = x.lapsed
      BY <1>0, <3>1, Settled
    <3> QED BY <2>1, <3>2 DEF Same
  <2>2. CASE x.row = "answered"
    <3>1. y = settled(cleaned(x), x.answer) /\ x.answer \in Answer \cup Failure
      BY <2>2 DEF read, RelayOK, Relay
    <3>2. y \in Relay /\ y.late = x.late /\ y.acked = x.acked
          /\ y.cancelling = x.cancelling /\ y.aborted = x.aborted
          /\ y.result = x.result /\ y.row = "absent" /\ y.wait = "over" /\ y.got = x.answer
          /\ y.lapsed = x.lapsed
      BY <3>1, Settled, Cleaned
    <3> QED BY <2>2, <3>2 DEF Same
  <2>3. CASE x.row = "pending" /\ x.late
    <3>1. y = settled(cleaned(x), "timeout")
      BY <2>3 DEF read
    <3>2. y \in Relay /\ y.late = x.late /\ y.acked = x.acked
          /\ y.cancelling = x.cancelling /\ y.aborted = x.aborted
          /\ y.result = x.result /\ y.row = "absent" /\ y.wait = "over" /\ y.got = "timeout"
          /\ y.lapsed = x.lapsed
      BY <1>0, <3>1, Settled, Cleaned
    <3> QED BY <2>3, <3>2 DEF Same
  <2>4. CASE x.row = "pending" /\ ~x.late
    <3>1. y = [x EXCEPT !.wait = "blocked"]
      BY <2>4 DEF read
    <3>2. y \in Relay /\ y.wait = "blocked" /\ y.row = x.row /\ y.answer = x.answer
          /\ y.late = x.late /\ y.lapsed = x.lapsed /\ y.acked = x.acked /\ y.got = x.got
          /\ y.result = x.result /\ Same(x, y)
      BY <3>1 DEF Same, Relay
    <3> QED BY <2>4, <3>2
  <2>5. x.row \in {"absent", "pending", "answered"}
    BY DEF Relay
  <2> QED BY <2>1, <2>2, <2>3, <2>4, <2>5
<1>4. RelayOK(b, y) /\ Follows(x, y)
  BY <1>1, <1>2, <1>3 DEF RelayOK, Follows, Relay
<1>5. Keeps(x, y)
  BY <1>1, <1>2, <1>3 DEF RelayOK, Keeps, Kept, Excused, Relay
<1> QED BY <1>3, <1>4, <1>5 DEF Moved

LEMMA UnblockedRelay ==
    ASSUME NEW b \in Coordinator, NEW x \in Relay, RelayOK(b, x), x.wait = "blocked",
           NEW y, y = unblocked(x)
    PROVE  Moved(b, x, y) /\ Same(x, y) /\ Keeps(x, y) /\ y.wait # "none"
<1>0. "cancelled" \in Answer \cup Failure
  BY DEF Failure
<1>1. "cancelled" \in Failure /\ "cancelled" \notin Answer /\ None \notin Answer \cup Failure
  BY RelayAssumption DEF Failure
<1>2. x.got = None
  BY DEF RelayOK
<1>3. /\ y \in Relay /\ y.late = x.late /\ y.acked = x.acked /\ Same(x, y)
      /\ y.result = x.result /\ y.lapsed = x.lapsed
      /\ \/ /\ x.aborted /\ y.row = "absent" /\ y.wait = "over" /\ y.got = "cancelled"
         \/ /\ y.row = x.row /\ y.answer = x.answer /\ y.wait = "rereading" /\ y.got = x.got
  <2>1. CASE x.aborted
    <3>1. y = settled(cleaned(x), "cancelled")
      BY <2>1 DEF unblocked
    <3>2. y \in Relay /\ y.late = x.late /\ y.acked = x.acked
          /\ y.cancelling = x.cancelling /\ y.aborted = x.aborted
          /\ y.result = x.result /\ y.row = "absent" /\ y.wait = "over" /\ y.got = "cancelled"
          /\ y.lapsed = x.lapsed
      BY <1>0, <3>1, Settled, Cleaned
    <3> QED BY <2>1, <3>2 DEF Same
  <2>2. CASE ~x.aborted
    <3>1. y = [x EXCEPT !.wait = "rereading", !.popped = x.signal, !.signal = "none"]
      BY <2>2 DEF unblocked
    <3>2. y \in Relay /\ y.wait = "rereading" /\ y.row = x.row /\ y.answer = x.answer
          /\ y.late = x.late /\ y.lapsed = x.lapsed /\ y.acked = x.acked /\ y.got = x.got
          /\ y.result = x.result /\ Same(x, y)
      BY <3>1 DEF Same, Relay
    <3> QED BY <3>2
  <2> QED BY <2>1, <2>2
<1>4. RelayOK(b, y) /\ Follows(x, y)
  BY <1>1, <1>2, <1>3 DEF RelayOK, Follows, Relay
<1>5. Keeps(x, y)
  BY <1>1, <1>2, <1>3 DEF RelayOK, Keeps, Kept, Excused, Meant, Relay
<1> QED BY <1>3, <1>4, <1>5 DEF Moved

LEMMA RereadRelay ==
    ASSUME NEW b \in Coordinator, NEW x \in Relay, RelayOK(b, x), x.wait = "rereading",
           NEW y, y = reread(x)
    PROVE  Moved(b, x, y) /\ Same(x, y) /\ Keeps(x, y) /\ y.wait # "none"
<1> DEFINE z == [x EXCEPT !.popped = "none"]
           unread == IF x.popped = "cancelled" THEN "cancelled"
                     ELSE IF x.late THEN "timeout" ELSE "not_found"
<1>0. unread \in Answer \cup Failure /\ "timeout" \in Answer \cup Failure
  BY DEF Failure
<1>1. /\ unread \in Failure /\ unread \notin Answer
      /\ "timeout" \in Failure /\ "timeout" \notin Answer /\ None \notin Answer \cup Failure
  BY RelayAssumption DEF Failure
<1>2. x.got = None
  BY DEF RelayOK
<1>3. /\ z \in Relay /\ z.late = x.late /\ z.acked = x.acked /\ Same(x, z)
      /\ z.result = x.result /\ z.lapsed = x.lapsed /\ z.row = x.row /\ z.answer = x.answer
      /\ z.got = x.got
  BY DEF Relay, Same
<1>4. y = IF x.row = "absent" THEN settled(z, unread)
          ELSE IF x.row = "answered" THEN settled(cleaned(z), x.answer)
          ELSE IF x.late THEN settled(cleaned(z), "timeout")
          ELSE [z EXCEPT !.wait = "reading"]
  BY DEF reread
<1> HIDE DEF z, unread
<1>5. /\ y \in Relay /\ y.late = x.late /\ y.acked = x.acked /\ Same(x, y)
      /\ y.result = x.result /\ y.lapsed = x.lapsed
      /\ \/ /\ x.row = "absent" /\ y.row = "absent" /\ y.wait = "over" /\ y.got = unread
         \/ /\ x.row = "answered" /\ y.row = "absent" /\ y.wait = "over" /\ y.got = x.answer
         \/ /\ x.row = "pending" /\ y.row = "absent" /\ y.wait = "over" /\ y.got = "timeout"
         \/ /\ x.row = "pending" /\ y.row = x.row /\ y.answer = x.answer
            /\ y.wait = "reading" /\ y.got = x.got
  <2>1. CASE x.row = "absent"
    <3>1. y = settled(z, unread)
      BY <1>4, <2>1
    <3>2. y \in Relay /\ y.late = z.late /\ y.acked = z.acked
          /\ y.cancelling = z.cancelling /\ y.aborted = z.aborted
          /\ y.result = z.result /\ y.row = z.row /\ y.wait = "over" /\ y.got = unread
          /\ y.lapsed = z.lapsed
      BY <1>0, <1>3, <3>1, Settled
    <3> QED BY <1>3, <2>1, <3>2 DEF Same
  <2>2. CASE x.row = "answered"
    <3>1. y = settled(cleaned(z), x.answer) /\ x.answer \in Answer \cup Failure
      BY <1>4, <2>2 DEF RelayOK, Relay
    <3>2. y \in Relay /\ y.late = z.late /\ y.acked = z.acked
          /\ y.cancelling = z.cancelling /\ y.aborted = z.aborted
          /\ y.result = z.result /\ y.row = "absent" /\ y.wait = "over" /\ y.got = x.answer
          /\ y.lapsed = z.lapsed
      BY <1>3, <3>1, Settled, Cleaned
    <3> QED BY <1>3, <2>2, <3>2 DEF Same
  <2>3. CASE x.row = "pending" /\ x.late
    <3>1. y = settled(cleaned(z), "timeout")
      BY <1>4, <2>3
    <3>2. y \in Relay /\ y.late = z.late /\ y.acked = z.acked
          /\ y.cancelling = z.cancelling /\ y.aborted = z.aborted
          /\ y.result = z.result /\ y.row = "absent" /\ y.wait = "over" /\ y.got = "timeout"
          /\ y.lapsed = z.lapsed
      BY <1>0, <1>3, <3>1, Settled, Cleaned
    <3> QED BY <1>3, <2>3, <3>2 DEF Same
  <2>4. CASE x.row = "pending" /\ ~x.late
    <3>1. y = [z EXCEPT !.wait = "reading"]
      BY <1>4, <2>4
    <3>2. y \in Relay /\ y.wait = "reading" /\ y.row = z.row /\ y.answer = z.answer
          /\ y.late = z.late /\ y.lapsed = z.lapsed /\ y.acked = z.acked /\ y.got = z.got
          /\ y.result = z.result /\ Same(z, y)
      BY <1>3, <3>1 DEF Same, Relay
    <3> QED BY <1>3, <2>4, <3>2 DEF Same
  <2>5. x.row \in {"absent", "pending", "answered"}
    BY DEF Relay
  <2> QED BY <2>1, <2>2, <2>3, <2>4, <2>5
<1>6. RelayOK(b, y) /\ Follows(x, y)
  BY <1>1, <1>2, <1>5 DEF RelayOK, Follows, Relay
<1>7. Keeps(x, y)
  BY <1>1, <1>2, <1>5 DEF RelayOK, Keeps, Kept, Excused, Relay
<1> QED BY <1>5, <1>6, <1>7 DEF Moved

(* The signal of the request is aborted, or its stream was cancelled: the  *)
(* listener of wait() and cancelRelay.  Whoever cancels excuses the relay. *)
cancelling(x) == [x EXCEPT !.cancelling = TRUE]
landed(x) == [x EXCEPT !.cancelling = FALSE]

LEMMA CancellingRelay ==
    ASSUME NEW b \in Coordinator, NEW x \in Relay, RelayOK(b, x),
           NEW y, y = cancelling(x) \/ y = landed(x)
    PROVE  /\ Moved(b, x, y) /\ (y.cancelling <=> y = cancelling(x)) /\ y.aborted = x.aborted
           /\ y.row = x.row /\ y.wait = x.wait /\ y.acked = x.acked /\ y.got = x.got
           /\ y.late = x.late
<1>1. /\ cancelling(x) \in Relay /\ cancelling(x).cancelling
      /\ cancelling(x).row = x.row /\ cancelling(x).answer = x.answer
      /\ cancelling(x).wait = x.wait /\ cancelling(x).late = x.late
      /\ cancelling(x).lapsed = x.lapsed /\ cancelling(x).acked = x.acked
      /\ cancelling(x).got = x.got /\ cancelling(x).result = x.result
      /\ cancelling(x).aborted = x.aborted
  BY DEF cancelling, Relay
<1>2. /\ landed(x) \in Relay /\ ~landed(x).cancelling
      /\ landed(x).row = x.row /\ landed(x).answer = x.answer
      /\ landed(x).wait = x.wait /\ landed(x).late = x.late
      /\ landed(x).lapsed = x.lapsed /\ landed(x).acked = x.acked
      /\ landed(x).got = x.got /\ landed(x).result = x.result
      /\ landed(x).aborted = x.aborted
  BY DEF landed, Relay
<1>3. y \in Relay /\ y.wait = x.wait /\ y.row = x.row /\ y.answer = x.answer
      /\ y.late = x.late /\ y.lapsed = x.lapsed /\ y.acked = x.acked /\ y.got = x.got
      /\ y.result = x.result /\ y.aborted = x.aborted
  BY <1>1, <1>2
<1>4. y.cancelling <=> y = cancelling(x)
  BY <1>1, <1>2
<1>5. RelayOK(b, y) /\ Follows(x, y)
  BY <1>3 DEF RelayOK, Follows
<1> QED BY <1>3, <1>4, <1>5 DEF Moved

LEMMA AbortHeardRelay ==
    ASSUME NEW b \in Coordinator, NEW x \in Relay, RelayOK(b, x),
           NEW y, y = abortHeard(b, x)
    PROVE  /\ Moved(b, x, y) /\ (y.wait = "none" <=> x.wait = "none")
           /\ x.cancelling => y.cancelling
           /\ y.acked = x.acked
<1>0. "cancelled" \in Answer \cup Failure
  BY DEF Failure
<1>1. "cancelled" \in Failure /\ "cancelled" \notin Answer /\ None \notin Answer \cup Failure
  BY RelayAssumption DEF Failure
<1>2. CASE ~waiting(x)
  <2>1. y = x
    BY <1>2 DEF abortHeard
  <2> QED BY <2>1 DEF Moved, Follows
<1>3. CASE waiting(x) /\ b = "local"
  <2>1. y = cancelled(b, x)
    BY <1>3 DEF abortHeard
  <2> QED BY <2>1, CancelledRelay DEF Same
<1>4. CASE waiting(x) /\ b = "durable"
  <2> DEFINE z == settled(x, "cancelled")
  <2>1. y = [z EXCEPT !.cancelling = TRUE]
    BY <1>4 DEF abortHeard
  <2>2. z \in Relay /\ z.wait = "over" /\ z.row = x.row /\ z.answer = x.answer
        /\ z.late = x.late /\ z.lapsed = x.lapsed /\ z.acked = x.acked
        /\ z.got = "cancelled" /\ z.result = x.result
    BY <1>0, Settled
  <2> HIDE DEF z
  <2>3. x.got = None /\ x.wait # "none"
    BY <1>4 DEF waiting, RelayOK
  <2>4. RelayOK(b, z) /\ Follows(x, z)
    BY <1>1, <2>2, <2>3 DEF RelayOK, Follows
  <2>5. Moved(b, z, y) /\ y.cancelling /\ y.wait = z.wait /\ y.row = z.row
        /\ y.acked = z.acked /\ y.got = z.got /\ y.late = z.late
    <3>1. y \in Relay /\ y.wait = z.wait /\ y.row = z.row /\ y.answer = z.answer
          /\ y.late = z.late /\ y.lapsed = z.lapsed /\ y.acked = z.acked /\ y.got = z.got
          /\ y.result = z.result /\ y.cancelling
      BY <2>1, <2>2 DEF Relay
    <3>2. RelayOK(b, y) /\ Follows(z, y)
      BY <2>4, <3>1 DEF RelayOK, Follows
    <3> QED BY <3>1, <3>2 DEF Moved
  <2>6. Follows(x, y)
    BY <2>2, <2>3, <2>4, <2>5 DEF Follows, Moved
  <2> QED BY <2>2, <2>3, <2>5, <2>6 DEF Moved
<1>5. CASE waiting(x) /\ b = "redis"
  <2>1. y = [x EXCEPT !.aborted = TRUE, !.cancelling = TRUE]
    BY <1>5 DEF abortHeard
  <2>2. y \in Relay /\ y.wait = x.wait /\ y.row = x.row /\ y.answer = x.answer
        /\ y.late = x.late /\ y.lapsed = x.lapsed /\ y.acked = x.acked /\ y.got = x.got
        /\ y.result = x.result /\ y.cancelling
    BY <2>1 DEF Relay
  <2>3. RelayOK(b, y) /\ Follows(x, y)
    BY <2>2 DEF RelayOK, Follows
  <2> QED BY <2>2, <2>3 DEF Moved
<1> QED BY <1>2, <1>3, <1>4, <1>5 DEF Coordinator

(* Time: the deadline of a relay, the alarm of its object or the expiry of *)
(* its keys, and an object that restarts.                                  *)
LEMMA LateRelay ==
    ASSUME NEW b \in Coordinator, NEW x \in Relay, RelayOK(b, x), x.row # "absent",
           NEW y, y = late(b, x)
    PROVE  /\ Moved(b, x, y) /\ Same(x, y) /\ Keeps(x, y) /\ (y.wait = "none" <=> x.wait = "none")
           /\ y.late
<1> DEFINE z == [x EXCEPT !.late = TRUE]
<1>0. "timeout" \in Answer \cup Failure
  BY DEF Failure
<1>1. "timeout" \in Failure /\ "timeout" \notin Answer /\ None \notin Answer \cup Failure
  BY RelayAssumption DEF Failure
<1>2. /\ z \in Relay /\ z.late /\ z.acked = x.acked /\ z.cancelling = x.cancelling
      /\ z.aborted = x.aborted /\ z.result = x.result /\ z.lapsed = x.lapsed
      /\ z.row = x.row /\ z.answer = x.answer /\ z.got = x.got /\ z.wait = x.wait
  BY DEF Relay
<1>3. y = IF b # "local" THEN z
          ELSE IF x.wait = "blocked" THEN settled(deleted(z), "timeout") ELSE deleted(lapse(z))
  BY DEF late, woken
<1>a. z \in Relay
  BY <1>2
<1> HIDE DEF z
<1>4. /\ y \in Relay /\ y.late /\ y.acked = x.acked /\ Same(x, y) /\ y.result = x.result
      /\ \/ /\ y.lapsed = x.lapsed /\ y.row = x.row /\ y.answer = x.answer
            /\ y.wait = x.wait /\ y.got = x.got
         \/ /\ x.wait = "blocked" /\ b = "local" /\ y.lapsed = x.lapsed /\ y.row = "absent"
            /\ y.wait = "over" /\ y.got = "timeout"
         \/ /\ (x.lapsed \/ x.row = "answered" => y.lapsed) /\ y.row = "absent"
            /\ y.wait = x.wait /\ y.got = x.got /\ b = "local" /\ x.wait # "blocked"
  <2>1. CASE b # "local"
    BY <1>2, <1>3, <2>1 DEF Same
  <2>2. CASE b = "local" /\ x.wait = "blocked"
    <3>1. y = settled(deleted(z), "timeout")
      BY <1>3, <2>2
    <3>2. y \in Relay /\ y.late = z.late /\ y.acked = z.acked
          /\ y.cancelling = z.cancelling /\ y.aborted = z.aborted
          /\ y.result = z.result /\ y.row = "absent" /\ y.wait = "over" /\ y.got = "timeout"
          /\ y.lapsed = z.lapsed
      BY <1>0, <1>a, <3>1, Settled, Deleted
    <3>3. y.late /\ Same(x, y) /\ y.acked = x.acked /\ y.result = x.result
      BY <1>2, <3>2 DEF Same
    <3>4. y.lapsed = x.lapsed
      BY <1>2, <3>2
    <3> QED BY <2>2, <3>2, <3>3, <3>4
  <2>3. CASE b = "local" /\ x.wait # "blocked"
    <3>1. y = deleted(lapse(z))
      BY <1>3, <2>3
    <3>2. y \in Relay /\ y.late = z.late /\ y.acked = z.acked
          /\ y.cancelling = z.cancelling /\ y.aborted = z.aborted
          /\ y.result = z.result /\ y.row = "absent" /\ y.wait = z.wait /\ y.got = z.got
          /\ (z.lapsed \/ z.row = "answered" => y.lapsed)
      BY <1>a, <3>1, Lapsed, Deleted
    <3>3. y.late /\ Same(x, y) /\ y.acked = x.acked /\ y.result = x.result
      BY <1>2, <3>2 DEF Same
    <3>4. (x.lapsed \/ x.row = "answered" => y.lapsed) /\ y.wait = x.wait /\ y.got = x.got
      BY <1>2, <3>2
    <3> QED BY <2>3, <3>2, <3>3, <3>4
  <2> QED BY <2>1, <2>2, <2>3
<1>5. RelayOK(b, y) /\ Follows(x, y)
  BY <1>1, <1>4 DEF RelayOK, Follows, Relay
<1>6. Keeps(x, y)
  BY <1>1, <1>4 DEF RelayOK, Keeps, Kept, Excused, Relay
<1>7. y.row = "pending" => x.row = "pending"
  BY <1>4
<1>8. y.wait = "none" <=> x.wait = "none"
  BY <1>4
<1> QED BY <1>4, <1>5, <1>6, <1>7, <1>8 DEF Moved

LEMMA AlarmedRelay ==
    ASSUME NEW b \in Coordinator, NEW x \in Relay, RelayOK(b, x), x.row # "absent",
           b = "durable", NEW y, y = alarmed(x)
    PROVE  Moved(b, x, y) /\ Same(x, y) /\ Keeps(x, y) /\ (y.wait = "none" <=> x.wait = "none")
<1>0. "timeout" \in Answer \cup Failure
  BY DEF Failure
<1>1. "timeout" \in Failure /\ "timeout" \notin Answer /\ None \notin Answer \cup Failure
  BY RelayAssumption DEF Failure
<1>2. /\ y \in Relay /\ y.late = x.late /\ y.acked = x.acked /\ Same(x, y) /\ y.got = x.got
      /\ y.row = "absent"
      /\ \/ /\ x.wait = "blocked" /\ y.lapsed = x.lapsed
            /\ y.wait = "returned" /\ y.result = "timeout"
         \/ /\ (x.lapsed \/ x.row = "answered" => y.lapsed) /\ y.result = x.result
            /\ y.wait = x.wait /\ x.wait # "blocked"
  <2>1. CASE x.wait = "blocked"
    <3>1. y = returned(x, "timeout")
      BY <2>1 DEF alarmed, woken
    <3>2. y \in Relay /\ y.late = x.late /\ y.acked = x.acked
          /\ y.cancelling = x.cancelling /\ y.aborted = x.aborted
          /\ y.result = "timeout" /\ y.row = "absent" /\ y.wait = "returned" /\ y.got = x.got
          /\ y.lapsed = x.lapsed
      BY <1>0, <3>1, Returned
    <3> QED BY <2>1, <3>2 DEF Same
  <2>2. CASE x.wait # "blocked"
    <3>1. y = deleted(lapse(x))
      BY <2>2 DEF alarmed
    <3>2. y \in Relay /\ y.late = x.late /\ y.acked = x.acked
          /\ y.cancelling = x.cancelling /\ y.aborted = x.aborted
          /\ y.result = x.result /\ y.row = "absent" /\ y.wait = x.wait /\ y.got = x.got
          /\ (x.lapsed \/ x.row = "answered" => y.lapsed)
      BY <3>1, Lapsed, Deleted
    <3> QED BY <2>2, <3>2 DEF Same
  <2> QED BY <2>1, <2>2
<1>3. RelayOK(b, y) /\ Follows(x, y)
  BY <1>1, <1>2 DEF RelayOK, Follows, Relay
<1>4. Keeps(x, y)
  BY <1>1, <1>2 DEF RelayOK, Keeps, Kept, Excused, Relay
<1>5. y.wait = "none" <=> x.wait = "none"
  BY <1>2
<1> QED BY <1>2, <1>3, <1>4, <1>5 DEF Moved

LEMMA ExpiredRelay ==
    ASSUME NEW b \in Coordinator, NEW x \in Relay, RelayOK(b, x), x.row # "absent",
           b = "redis", NEW y, y = expired(x)
    PROVE  Moved(b, x, y) /\ Same(x, y) /\ Keeps(x, y) /\ (y.wait = "none" <=> x.wait = "none")
<1>1. y = cleaned(lapse(x))
  BY DEF expired
<1>2. /\ y \in Relay /\ y.late = x.late /\ y.acked = x.acked /\ y.got = x.got
      /\ y.cancelling = x.cancelling /\ y.aborted = x.aborted
      /\ y.row = "absent" /\ (x.lapsed \/ x.row = "answered" => y.lapsed) /\ y.result = x.result
      /\ y.wait = x.wait
  BY <1>1, Lapsed, Cleaned
<1>3. RelayOK(b, y) /\ Follows(x, y)
  BY <1>2 DEF RelayOK, Follows, Relay
<1>4. Keeps(x, y)
  BY <1>2 DEF RelayOK, Keeps, Kept, Excused, Relay
<1> QED BY <1>2, <1>3, <1>4 DEF Moved, Same

LEMMA RestartedRelay ==
    ASSUME NEW b \in Coordinator, NEW x \in Relay, RelayOK(b, x), x.wait = "blocked",
           NEW y, y = settled(x, "failed")
    PROVE  Moved(b, x, y) /\ Same(x, y) /\ y.wait # "none"
<1>0. "failed" \in Answer \cup Failure
  BY DEF Failure
<1>1. "failed" \in Failure /\ "failed" \notin Answer /\ None \notin Answer \cup Failure
  BY RelayAssumption DEF Failure
<1>2. y \in Relay /\ y.late = x.late /\ y.acked = x.acked
      /\ y.cancelling = x.cancelling /\ y.aborted = x.aborted /\ y.answer = x.answer
      /\ y.result = x.result /\ y.row = x.row /\ y.wait = "over" /\ y.got = "failed"
      /\ y.lapsed = x.lapsed
  BY <1>0, Settled
<1>3. RelayOK(b, y) /\ Follows(x, y)
  BY <1>1, <1>2 DEF RelayOK, Follows, Relay
<1> QED BY <1>2, <1>3 DEF Moved, Same

-----------------------------------------------------------------------------
(* The login of a guardian, as its request, relays, events and page change *)
(* one by one.                                                             *)

Typed(b, n, l, xs, s, t) ==
    /\ b \in Coordinator /\ n \in Nat /\ l \in LoginState
    /\ xs \in [1..2 -> Relay] /\ s \in Seq(Event) /\ t \in TabState

\* The relay of one challenge moved, if any did.
Move(xs, ys, k) ==
    /\ k \in 1..2 /\ ys \in [1..2 -> Relay]
    /\ \A j \in 1..2 : j # k => ys[j] = xs[j]

LEMMA PageFollows ==
    ASSUME NEW r, NEW s, NEW t, NEW xs, NEW ys,
           PageOK(r, s, t, xs),
           \A k \in 1..2 : xs[k].wait # "none" => ys[k].wait # "none",
           xs[1].acked # None => ys[1].acked # None
    PROVE  PageOK(r, s, t, ys)
<1>1. \A c : asked(r, c, xs) => asked(r, c, ys)
  BY DEF asked
<1>2. StreamOK(r, s, ys)
  BY <1>1 DEF PageOK, StreamOK
<1>3. TabOK(r, s, t, ys)
  BY <1>1 DEF PageOK, TabOK
<1> QED BY <1>2, <1>3 DEF PageOK

\* The relays stay: a login may be given up, and must not drop what it holds.
LEMMA RelaysStay ==
    ASSUME NEW b, NEW n \in Nat, NEW n1 \in {n, n + 1}, NEW l, NEW l1, NEW xs,
           RelaysOK(b, n, l, xs),
           l.aborted => l1.aborted, l.cancelled => l1.cancelled,
           \A k \in 1..2 : Held(n1, xs[k], l1, k)
    PROVE  RelaysOK(b, n1, l1, xs)
<1> SUFFICES ASSUME NEW k \in 1..2
             PROVE  /\ RelayOK(b, xs[k]) /\ Kept(n1, xs[k], l1) /\ Held(n1, xs[k], l1, k)
                    /\ Meant(xs[k], l1)
  BY DEF RelaysOK
<1>1. RelayOK(b, xs[k]) /\ Kept(n, xs[k], l) /\ Meant(xs[k], l)
  BY DEF RelaysOK
<1>2. Kept(n1, xs[k], l1)
  BY <1>1 DEF Kept, Excused
<1>3. Meant(xs[k], l1)
  BY <1>1 DEF Meant
<1> QED BY <1>1, <1>2, <1>3

LEMMA NobodyAsks ==
    ASSUME NEW b, NEW n \in Nat, NEW n1 \in {n, n + 1}, NEW l, NEW xs, NEW l1,
           RelaysOK(b, n, l, xs), ~asking(l) \/ ~l.active
    PROVE  \A k \in 1..2 : Held(n1, xs[k], l1, k)
  BY DEF RelaysOK, Held

\* One relay moves, and its login stays.
LEMMA RelayMoves ==
    ASSUME NEW b, NEW n \in Nat, NEW n1 \in {n, n + 1}, NEW r, NEW l, NEW s, NEW t, NEW xs, NEW ys,
           NEW k, Move(xs, ys, k), Typed(b, n, l, xs, s, t), Guarded(b, n, r, l, xs, s, t),
           ~unopened(l, k), Moved(b, xs[k], ys[k]),
           xs[k].wait = "none" <=> ys[k].wait = "none",
           Kept(n1, ys[k], l), Held(n1, ys[k], l, k), Meant(ys[k], l)
    PROVE  Guarded(b, n1, r, l, ys, s, t)
<1> DEFINE x == xs[k]
           y == ys[k]
<1>1. /\ k \in 1..2
      /\ \A j \in 1..2 : j # k => ys[j] = xs[j]
  BY DEF Move
<1>2. /\ x.acked # None => y.acked = x.acked
      /\ x.got # None => y.got = x.got
      /\ x.wait = "none" <=> y.wait = "none"
  BY DEF Moved, Follows
<1>3. AskingOK(l, ys)
  <2>1. \A j \in 1..2 : unopened(l, j) => ys[j] = NoRelay
    BY <1>1 DEF Guarded, AskingOK
  <2>2. \A j \in 1..2 : /\ xs[j].acked # None => ys[j].acked # None
                        /\ xs[j].wait = "none" => ys[j].wait = "none"
                        /\ xs[j].got \in Failure => ys[j].got \in Failure
    BY <1>1, <1>2, RelayAssumption DEF Failure
  <2>3. 1 \in 1..2
    OBVIOUS
  <2> QED BY <2>1, <2>2, <2>3 DEF Guarded, AskingOK
<1>4. RelaysOK(b, n1, l, ys)
  <2> SUFFICES ASSUME NEW j \in 1..2
               PROVE  /\ RelayOK(b, ys[j]) /\ Kept(n1, ys[j], l) /\ Held(n1, ys[j], l, j)
                      /\ Meant(ys[j], l)
    BY DEF RelaysOK
  <2>1. CASE j = k
    BY <2>1 DEF Moved
  <2>2. CASE j # k
    <3>1. /\ ys[j] = xs[j] /\ RelayOK(b, xs[j]) /\ Kept(n, xs[j], l) /\ Held(n, xs[j], l, j)
          /\ Meant(xs[j], l)
      BY <1>1, <2>2 DEF Guarded, RelaysOK
    <3> QED BY <3>1 DEF Kept, Excused, Held
  <2> QED BY <2>1, <2>2
<1>5. PageOK(r, s, t, ys)
  <2>1. \A j \in 1..2 : xs[j].wait # "none" => ys[j].wait # "none"
    BY <1>1, <1>2
  <2>2. xs[1].acked # None => ys[1].acked # None
    BY <1>1, <1>2
  <2> QED BY <2>1, <2>2, PageFollows DEF Guarded
<1> QED BY <1>3, <1>4, <1>5 DEF Guarded

\* A relay that was touched belongs to a challenge the login has come to.
LEMMA Opened ==
    ASSUME NEW l, NEW xs, NEW k \in 1..2, AskingOK(l, xs),
           \/ xs[k].row # "absent"
           \/ xs[k].wait # "none"
           \/ xs[k].cancelling
    PROVE  ~unopened(l, k)
  BY DEF AskingOK, NoRelay

\* The holder of a relay holds what is left of it.
LEMMA StillHeld ==
    ASSUME NEW b, NEW n \in Nat, NEW n1 \in {n, n + 1}, NEW l, NEW k, NEW x, NEW y,
           Moved(b, x, y), Held(n, x, l, k), x.cancelling => y.cancelling
    PROVE  Held(n1, y, l, k)
  BY DEF Held, Moved

\* Events other than challenges.
LEMMA SentPage ==
    ASSUME NEW r, NEW s \in Seq(Event), NEW t, NEW xs, NEW e \in Event, PageOK(r, s, t, xs),
           e.type # "captcha"
    PROVE  Append(s, e) \in Seq(Event) /\ PageOK(r, Append(s, e), t, xs)
<1> DEFINE u == Append(s, e)
<1>1. /\ u \in Seq(Event) /\ Len(u) = Len(s) + 1 /\ Len(s) \in Nat
      /\ \A i \in 1..Len(s) : u[i] = s[i]
      /\ u[Len(s) + 1] = e
  OBVIOUS
<1> HIDE DEF u
<1>2. \A i \in 1..Len(u) : asks(u, i) => i \in 1..Len(s) /\ u[i] = s[i] /\ asks(s, i)
  BY <1>1 DEF asks
<1>3. StreamOK(r, u, xs)
  BY <1>2 DEF PageOK, StreamOK
<1>4. TabOK(r, u, t, xs)
  BY <1>2 DEF PageOK, TabOK
<1> QED BY <1>1, <1>3, <1>4 DEF PageOK, u

\* The page reads the first event.
LEMMA ReadPage ==
    ASSUME NEW r, NEW s \in Seq(Event), NEW t, NEW xs, PageOK(r, s, t, xs), s # <<>>
    PROVE  /\ Head(s) \in Event /\ Tail(s) \in Seq(Event) /\ PageOK(r, Tail(s), t, xs)
           /\ Head(s).type = "captcha" =>
                /\ asked(r, Head(s).challenge, xs)
                /\ t.challenge # None => t.challenge[2] < Head(s).challenge[2]
                /\ \A i \in 1..Len(Tail(s)) :
                      asks(Tail(s), i) => Head(s).challenge[2] < Tail(s)[i].challenge[2]
<1> DEFINE u == Tail(s)
<1>1. /\ u \in Seq(Event) /\ Len(u) = Len(s) - 1 /\ Len(s) \in Nat /\ Len(s) > 0
      /\ \A i \in 1..Len(u) : u[i] = s[i + 1]
      /\ Head(s) = s[1] /\ s[1] \in Event
  OBVIOUS
<1> HIDE DEF u
<1>2. \A i \in 1..Len(u) : i \in Nat /\ i + 1 \in 1..Len(s) /\ 1 < i + 1
                           /\ u[i] = s[i + 1] /\ (asks(u, i) <=> asks(s, i + 1))
  BY <1>1 DEF asks
<1>3. StreamOK(r, u, xs)
  <2>1. \A i \in 1..Len(u) : asks(u, i) => asked(r, u[i].challenge, xs)
    BY <1>2 DEF PageOK, StreamOK
  <2>2. ASSUME NEW i \in 1..Len(u), NEW j \in 1..Len(u), asks(u, i), asks(u, j), i < j
        PROVE  u[i].challenge[2] < u[j].challenge[2]
    <3>1. i + 1 < j + 1
      BY <1>2, <2>2
    <3> QED BY <1>2, <2>2, <3>1 DEF PageOK, StreamOK
  <2> QED BY <2>1, <2>2 DEF StreamOK
<1>4. TabOK(r, u, t, xs)
  BY <1>2 DEF PageOK, TabOK
<1>5. 1 \in 1..Len(s)
  BY <1>1
<1>6. ASSUME s[1].type = "captcha"
      PROVE  /\ asked(r, s[1].challenge, xs)
             /\ t.challenge # None => t.challenge[2] < s[1].challenge[2]
             /\ \A i \in 1..Len(u) : asks(u, i) => s[1].challenge[2] < u[i].challenge[2]
  <2>1. asks(s, 1)
    BY <1>6 DEF asks
  <2>2. asked(r, s[1].challenge, xs)
    BY <1>5, <2>1 DEF PageOK, StreamOK
  <2>3. t.challenge # None => t.challenge[2] < s[1].challenge[2]
    BY <1>5, <2>1 DEF PageOK, TabOK
  <2>4. \A i \in 1..Len(u) : asks(u, i) => s[1].challenge[2] < u[i].challenge[2]
    BY <1>2, <1>5, <2>1 DEF PageOK, StreamOK
  <2> QED BY <2>2, <2>3, <2>4
<1> QED BY <1>1, <1>3, <1>4, <1>6 DEF PageOK, u

-----------------------------------------------------------------------------
(* The steps of the request.                                               *)

\* A request that asks nobody goes from one place to the next.
LEMMA RequestGoes ==
    ASSUME NEW b, NEW n \in Nat, NEW r, NEW l, NEW s, NEW t, NEW xs, NEW l1,
           Typed(b, n, l, xs, s, t), Guarded(b, n, r, l, xs, s, t), l1 \in LoginState,
           l1.aborted = l.aborted, l1.cancelled = l.cancelled, ~asking(l), ~l1.active,
           AskingOK(l1, xs)
    PROVE  Guarded(b, n, r, l1, xs, s, t)
<1>1. \A k \in 1..2 : Held(n, xs[k], l1, k)
  BY NobodyAsks DEF Guarded
<1> QED BY <1>1, RelaysStay DEF Guarded

LEMMA GuardianStarts ==
    ASSUME NEW b, NEW n \in Nat, NEW r, NEW l, NEW s, NEW t, NEW xs,
           Typed(b, n, l, xs, s, t), Guarded(b, n, r, l, xs, s, t), l.pc = "idle",
           NEW l1, l1 = [l EXCEPT !.pc = "challenge", !.attempt = 1],
           NEW t1, t1 = [t EXCEPT !.pc = "reading"]
    PROVE  l1 \in LoginState /\ t1 \in TabState /\ Guarded(b, n, r, l1, xs, s, t1)
<1>0. l \in LoginState
  BY DEF Typed
<1>1. /\ l1 \in LoginState /\ l1.pc = "challenge" /\ l1.attempt = 1 /\ l1.ask = l.ask
      /\ l1.active = l.active /\ l1.aborted = l.aborted /\ l1.cancelled = l.cancelled
  <2>1. PICK k \in 0..2 : k = 1
    OBVIOUS
  <2>2. l1 = [l EXCEPT !.pc = "challenge", !.attempt = k]
    BY <2>1
  <2>3. /\ l1 \in LoginState /\ l1.pc = "challenge" /\ l1.attempt = k /\ l1.ask = l.ask
        /\ l1.active = l.active /\ l1.aborted = l.aborted /\ l1.cancelled = l.cancelled
    BY <1>0, <2>2 DEF LoginState
  <2> QED BY <2>1, <2>3
<1>2. /\ t1 \in TabState /\ t1.challenge = t.challenge /\ t1.phase = t.phase
      /\ t1.answer = t.answer /\ t1.result = t.result
  BY DEF Typed, TabState
<1>3. l.ask = "none" /\ l.attempt = 0 /\ ~l.active /\ \A k \in 1..2 : xs[k] = NoRelay
  BY DEF Guarded, AskingOK, unopened, asking
<1>4. AskingOK(l1, xs)
  BY <1>1, <1>3 DEF AskingOK, asking
<1>5. PageOK(r, s, t1, xs)
  BY <1>2 DEF Guarded, PageOK, TabOK
<1>6. \A k \in 1..2 : Held(n, xs[k], l1, k)
  BY <1>3, NobodyAsks DEF Guarded
<1>7. RelaysOK(b, n, l1, xs)
  BY <1>1, <1>6, RelaysStay DEF Guarded
<1> QED BY <1>1, <1>2, <1>4, <1>5, <1>7 DEF Guarded

LEMMA GuardianChallenged ==
    ASSUME NEW b, NEW n \in Nat, NEW r, NEW l, NEW s, NEW t, NEW xs,
           Typed(b, n, l, xs, s, t), Guarded(b, n, r, l, xs, s, t),
           l.pc \in {"challenge", "ocr"}, NEW l1,
           \/ l1 = [l EXCEPT !.pc = "ocr"]
           \/ l1 = [l EXCEPT !.pc = "human", !.ask = "preparing"]
    PROVE  l1 \in LoginState /\ Guarded(b, n, r, l1, xs, s, t)
<1>0. l \in LoginState
  BY DEF Typed
<1>1. /\ l1 \in LoginState /\ l1.attempt = l.attempt
      /\ l1.active = l.active /\ l1.aborted = l.aborted /\ l1.cancelled = l.cancelled
      /\ \/ l1.pc = "ocr" /\ l1.ask = l.ask
         \/ l1.pc = "human" /\ l1.ask = "preparing"
  <2>1. CASE l1 = [l EXCEPT !.pc = "ocr"]
    <3>1. /\ l1 \in LoginState /\ l1.attempt = l.attempt /\ l1.ask = l.ask /\ l1.pc = "ocr"
          /\ l1.active = l.active /\ l1.aborted = l.aborted /\ l1.cancelled = l.cancelled
      BY <1>0, <2>1 DEF LoginState
    <3> QED BY <3>1
  <2>2. CASE l1 = [l EXCEPT !.pc = "human", !.ask = "preparing"]
    BY <1>0, <2>2 DEF LoginState
  <2> QED BY <2>1, <2>2
<1>2. l.ask = "none" /\ ~l.active /\ l.attempt \in 1..2
  BY DEF Guarded, AskingOK, asking
<1>3. AskingOK(l1, xs)
  <2>1. \A k \in 1..2 : unopened(l1, k) => unopened(l, k)
    BY <1>1 DEF unopened
  <2> QED BY <1>1, <1>2, <2>1 DEF Guarded, AskingOK, asking
<1> QED BY <1>1, <1>2, <1>3, RequestGoes DEF asking

LEMMA GuardianRead ==
    ASSUME NEW b, NEW n \in Nat, NEW r, NEW l, NEW s, NEW t, NEW xs,
           Typed(b, n, l, xs, s, t), Guarded(b, n, r, l, xs, s, t), l.pc = "ocr",
           NEW l1, l1 = answeredBy(l, "ocr")
    PROVE  l1 \in LoginState /\ Guarded(b, n, r, l1, xs, s, t)
<1>0. l \in LoginState
  BY DEF Typed
<1>1. /\ l1 \in LoginState /\ l1.attempt = l.attempt /\ l1.pc = "authenticating"
      /\ l1.ask = l.ask
      /\ l1.active = l.active /\ l1.aborted = l.aborted /\ l1.cancelled = l.cancelled
  BY <1>0 DEF LoginState, answeredBy
<1>2. l.ask = "none" /\ ~l.active /\ l.attempt \in 1..2
  BY DEF Guarded, AskingOK, asking
<1>3. AskingOK(l1, xs)
  <2>1. \A k \in 1..2 : unopened(l1, k) => unopened(l, k)
    BY <1>1, <1>2 DEF unopened
  <2>2. l.attempt = 1 => xs[1].wait = "none"
    BY DEF Guarded, AskingOK, unopened, NoRelay
  <2> QED BY <1>1, <1>2, <2>1, <2>2 DEF Guarded, AskingOK, asking
<1> QED BY <1>1, <1>2, <1>3, RequestGoes DEF asking

\* StudentHub accepts the answer, or refuses it once.
LEMMA GuardianAuthenticated ==
    ASSUME NEW b, NEW n \in Nat, NEW r, NEW l, NEW s, NEW t, NEW xs,
           Typed(b, n, l, xs, s, t), Guarded(b, n, r, l, xs, s, t), l.pc = "authenticating",
           NEW l1,
           \/ l1 = [l EXCEPT !.pc = "finishing"]
           \/ l.attempt = 1 /\ l1 = [l EXCEPT !.pc = "challenge", !.attempt = 2]
    PROVE  l1 \in LoginState /\ Guarded(b, n, r, l1, xs, s, t)
<1>0. l \in LoginState
  BY DEF Typed
<1>1. /\ l1 \in LoginState /\ l1.ask = l.ask
      /\ l1.active = l.active /\ l1.aborted = l.aborted /\ l1.cancelled = l.cancelled
      /\ \/ l1.pc = "finishing" /\ l1.attempt = l.attempt
         \/ l.attempt = 1 /\ l1.pc = "challenge" /\ l1.attempt = 2
  <2>1. CASE l1 = [l EXCEPT !.pc = "finishing"]
    BY <1>0, <2>1 DEF LoginState
  <2>2. CASE l.attempt = 1 /\ l1 = [l EXCEPT !.pc = "challenge", !.attempt = 2]
    <3>1. /\ l1 \in LoginState /\ l1.ask = l.ask /\ l1.pc = "challenge" /\ l1.attempt = 2
          /\ l1.active = l.active /\ l1.aborted = l.aborted /\ l1.cancelled = l.cancelled
      <4>1. PICK k \in 0..2 : k = 2
        OBVIOUS
      <4>2. l1 = [l EXCEPT !.pc = "challenge", !.attempt = k]
        BY <2>2, <4>1
      <4>3. /\ l1 \in LoginState /\ l1.ask = l.ask /\ l1.pc = "challenge" /\ l1.attempt = k
            /\ l1.active = l.active /\ l1.aborted = l.aborted /\ l1.cancelled = l.cancelled
        BY <1>0, <4>2 DEF LoginState
      <4> QED BY <4>1, <4>3
    <3> QED BY <2>2, <3>1
  <2> QED BY <2>1, <2>2
<1>2. l.ask = "none" /\ ~l.active /\ l.attempt \in 1..2
  BY DEF Guarded, AskingOK, asking
<1>3. AskingOK(l1, xs)
  <2>1. \A k \in 1..2 : unopened(l1, k) => unopened(l, k)
    BY <1>1, <1>2 DEF unopened
  <2> QED BY <1>1, <1>2, <2>1 DEF Guarded, AskingOK, asking
<1> QED BY <1>1, <1>2, <1>3, RequestGoes DEF asking

\* The login is over, with a session or an error.
endedWith(l, result) == [l EXCEPT !.pc = "over", !.result = result]

LEMMA GuardianEnds ==
    ASSUME NEW b, NEW n \in Nat, NEW r, NEW l, NEW s, NEW t, NEW xs,
           Typed(b, n, l, xs, s, t), Guarded(b, n, r, l, xs, s, t),
           l.pc \in {"authenticating", "finishing"}, NEW result \in {"session", "error", "cancelled"},
           NEW l1, l1 = endedWith(l, result)
    PROVE  l1 \in LoginState /\ Guarded(b, n, r, l1, xs, s, t)
<1>0. l \in LoginState
  BY DEF Typed
<1>1. /\ l1 \in LoginState /\ l1.pc = "over" /\ l1.ask = l.ask /\ l1.attempt = l.attempt
      /\ l1.active = l.active /\ l1.aborted = l.aborted /\ l1.cancelled = l.cancelled
  BY <1>0 DEF LoginState, endedWith
<1>2. l.ask = "none" /\ ~l.active /\ l.attempt \in 1..2
  BY DEF Guarded, AskingOK, asking
<1>3. AskingOK(l1, xs)
  <2>1. \A k \in 1..2 : unopened(l1, k) => unopened(l, k)
    BY <1>1, <1>2 DEF unopened
  <2> QED BY <1>1, <1>2, <2>1 DEF Guarded, AskingOK, asking
<1> QED BY <1>1, <1>2, <1>3, RequestGoes DEF asking

\* onCaptchaNeeded throws, where its relay is not held any more.
thrownAsk(l) ==
    LET y == [l EXCEPT !.ask = "none", !.active = FALSE] IN
    IF y.pc = "human"
    THEN [y EXCEPT !.pc = "over", !.result = IF y.cancelled THEN "cancelled" ELSE "error"]
    ELSE y

LEMMA ThrownAsk ==
    ASSUME NEW l \in LoginState
    PROVE  /\ thrownAsk(l) \in LoginState /\ thrownAsk(l).ask = "none" /\ ~thrownAsk(l).active
           /\ thrownAsk(l).attempt = l.attempt
           /\ thrownAsk(l).aborted = l.aborted /\ thrownAsk(l).cancelled = l.cancelled
           /\ IF l.pc = "human" THEN thrownAsk(l).pc = "over" ELSE thrownAsk(l).pc = l.pc
<1> DEFINE y == [l EXCEPT !.ask = "none", !.active = FALSE]
<1>1. /\ y \in LoginState /\ y.ask = "none" /\ ~y.active /\ y.attempt = l.attempt
      /\ y.aborted = l.aborted /\ y.cancelled = l.cancelled /\ y.pc = l.pc
  BY DEF LoginState
<1>2. thrownAsk(l) = IF y.pc = "human"
          THEN [y EXCEPT !.pc = "over", !.result = IF y.cancelled THEN "cancelled" ELSE "error"]
          ELSE y
  BY DEF thrownAsk
<1> HIDE DEF y
<1>3. CASE l.pc = "human"
  <2> DEFINE result == IF y.cancelled THEN "cancelled" ELSE "error"
             z == thrownAsk(l)
  <2>1. z = [y EXCEPT !.pc = "over", !.result = result]
        /\ result \in {"session", "error", "cancelled"}
    BY <1>1, <1>2, <1>3
  <2> HIDE DEF result, z
  <2>2. /\ z \in LoginState /\ z.ask = y.ask /\ z.active = y.active /\ z.attempt = y.attempt
        /\ z.aborted = y.aborted /\ z.cancelled = y.cancelled /\ z.pc = "over"
    BY <1>1, <2>1 DEF LoginState
  <2> QED BY <1>1, <1>3, <2>2 DEF z
<1>4. CASE l.pc # "human"
  BY <1>1, <1>2, <1>4
<1> QED BY <1>3, <1>4

LEMMA AskThrown ==
    ASSUME NEW b, NEW n \in Nat, NEW n1 \in {n, n + 1}, NEW r, NEW l, NEW s, NEW t, NEW xs,
           Typed(b, n, l, xs, s, t), Guarded(b, n, r, l, xs, s, t), l.ask # "none",
           \A k \in 1..2 : Held(n1, xs[k], thrownAsk(l), k)
    PROVE  Guarded(b, n1, r, thrownAsk(l), xs, s, t)
<1> DEFINE l1 == thrownAsk(l)
<1>1. /\ l1 \in LoginState /\ l1.ask = "none" /\ ~l1.active /\ l1.attempt = l.attempt
      /\ l1.aborted = l.aborted /\ l1.cancelled = l.cancelled
      /\ l1.pc = "over"
  BY ThrownAsk DEF Typed, Guarded, AskingOK, LoginState
<1>2. l.attempt \in 1..2
  BY DEF Guarded, AskingOK
<1>3. RelaysOK(b, n1, l1, xs)
  BY <1>1, RelaysStay DEF Guarded
<1> HIDE DEF l1
<1>4. AskingOK(l1, xs)
  <2>1. \A k \in 1..2 : unopened(l1, k) => unopened(l, k)
    BY <1>1, <1>2 DEF unopened
  <2> QED BY <1>1, <1>2, <2>1 DEF Guarded, AskingOK, asking
<1> QED BY <1>3, <1>4 DEF Guarded, l1

preparedAsk(l) == [l EXCEPT !.ask = "prepared", !.active = TRUE]

LEMMA AskPrepared ==
    ASSUME NEW b, NEW n \in Nat, NEW r, NEW l, NEW s, NEW t, NEW xs, NEW ys, NEW k,
           Typed(b, n, l, xs, s, t), Guarded(b, n, r, l, xs, s, t), l.ask = "preparing",
           k = l.attempt, Move(xs, ys, k), ys[k] = prepared(xs[k]),
           NEW l1, l1 = preparedAsk(l)
    PROVE  l1 \in LoginState /\ Guarded(b, n, r, l1, ys, s, t) /\ Follows(xs[k], ys[k])
<1> DEFINE y == ys[k]
<1>0. l \in LoginState /\ b \in Coordinator
  BY DEF Typed
<1>1. /\ l1 \in LoginState /\ l1.ask = "prepared" /\ l1.active /\ l1.attempt = l.attempt
      /\ l1.aborted = l.aborted /\ l1.cancelled = l.cancelled /\ l1.pc = l.pc
  BY <1>0 DEF LoginState, preparedAsk
<1>2. k \in 1..2 /\ \A j \in 1..2 : j # k => ys[j] = xs[j]
  BY DEF Move
<1>3. xs[k] = NoRelay /\ l.pc \in {"human", "over"}
  BY <1>0, <1>2 DEF Guarded, AskingOK, unopened, LoginState
<1>4. /\ RelayOK(b, y) /\ Follows(xs[k], y) /\ y.wait = "none" /\ y.got = None
      /\ y.acked = None /\ ~y.cancelling /\ ~y.aborted
  BY <1>0, <1>3, PreparedRelay
<1>5. AskingOK(l1, ys)
  <2>1. \A j \in 1..2 : unopened(l1, j) => j # k /\ unopened(l, j)
    BY <1>1, <1>2, <1>3 DEF unopened
  <2>2. \A j \in 1..2 : unopened(l1, j) => ys[j] = NoRelay
    BY <1>2, <2>1 DEF Guarded, AskingOK
  <2>3. (l1.attempt = 1 /\ l1.pc = "authenticating") \/ l1.attempt = 2 =>
            ys[1].wait = "none" \/ ys[1].acked # None
    BY <1>1, <1>2, <1>4 DEF Guarded, AskingOK
  <2> QED BY <1>1, <1>2, <1>3, <1>4, <2>2, <2>3 DEF Guarded, AskingOK, asking
<1>6. RelaysOK(b, n, l1, ys)
  <2> SUFFICES ASSUME NEW j \in 1..2
               PROVE  /\ RelayOK(b, ys[j]) /\ Kept(n, ys[j], l1) /\ Held(n, ys[j], l1, j)
                      /\ Meant(ys[j], l1)
    BY DEF RelaysOK
  <2>1. CASE j = k
    BY <1>1, <1>4, <2>1, RelayAssumption DEF RelayOK, Kept, Held, Meant, asking
  <2>2. CASE j # k
    <3>1. /\ ys[j] = xs[j] /\ RelayOK(b, xs[j]) /\ Kept(n, xs[j], l) /\ Held(n, xs[j], l, j)
          /\ Meant(xs[j], l)
      BY <1>2, <2>2 DEF Guarded, RelaysOK
    <3> QED BY <1>1, <2>2, <3>1 DEF Kept, Excused, Held, Meant
  <2> QED BY <2>1, <2>2
<1>7. PageOK(r, s, t, ys)
  <2>1. NoRelay.wait = "none" /\ NoRelay.acked = None
    BY DEF NoRelay
  <2>2. \A j \in 1..2 : xs[j].wait # "none" => ys[j].wait # "none"
    BY <1>2, <1>3, <2>1
  <2>3. xs[1].acked # None => ys[1].acked # None
    BY <1>2, <1>3, <2>1
  <2> QED BY <2>2, <2>3, PageFollows DEF Guarded
<1> QED BY <1>1, <1>4, <1>5, <1>6, <1>7 DEF Guarded

\* A login that was cancelled meanwhile, or got no answer, cancels its relay.
LEMMA AskGivenUp ==
    ASSUME NEW b, NEW n \in Nat, NEW r, NEW l, NEW s, NEW t, NEW xs,
           Typed(b, n, l, xs, s, t), Guarded(b, n, r, l, xs, s, t),
           l.ask \in {"prepared", "waiting"},
           l.cancelled \/ l.aborted \/ xs[l.attempt].got \in Failure,
           NEW l1, l1 = [l EXCEPT !.ask = "cancelling"]
    PROVE  l1 \in LoginState /\ Guarded(b, n, r, l1, xs, s, t)
<1>0. l \in LoginState
  BY DEF Typed
<1>1. /\ l1 \in LoginState /\ l1.ask = "cancelling" /\ l1.active = l.active
      /\ l1.attempt = l.attempt
      /\ l1.aborted = l.aborted /\ l1.cancelled = l.cancelled /\ l1.pc = l.pc
  BY <1>0 DEF LoginState
<1>2. AskingOK(l1, xs)
  <2>1. \A k \in 1..2 : unopened(l1, k) => unopened(l, k)
    BY <1>1 DEF unopened
  <2> QED BY <1>1, <2>1 DEF Guarded, AskingOK, asking
<1>3. \A k \in 1..2 : Held(n, xs[k], l1, k)
  BY <1>1 DEF Guarded, RelaysOK, Held, asking
<1>4. RelaysOK(b, n, l1, xs)
  BY <1>1, <1>3, RelaysStay DEF Guarded
<1> QED BY <1>1, <1>2, <1>4 DEF Guarded

\* The answer goes on to StudentHub, if the login still waits for it.
answeredAsk(l) ==
    LET y == [l EXCEPT !.ask = "none", !.active = FALSE] IN
    IF l.pc = "human" THEN answeredBy(y, "human") ELSE y

LEMMA AskAnswered ==
    ASSUME NEW b, NEW n \in Nat, NEW r, NEW l, NEW s, NEW t, NEW xs,
           Typed(b, n, l, xs, s, t), Guarded(b, n, r, l, xs, s, t),
           l.ask = "waiting", xs[l.attempt].got # None, xs[l.attempt].got \notin Failure,
           NEW l1, l1 = answeredAsk(l)
    PROVE  /\ l1 \in LoginState /\ Guarded(b, n, r, l1, xs, s, t)
           /\ l1.pc = l.pc \/ l.pc = "human"
<1>0. l \in LoginState /\ xs \in [1..2 -> Relay]
  BY DEF Typed
<1>y. PICK y : y = [l EXCEPT !.ask = "none", !.active = FALSE]
  OBVIOUS
<1>l. l1 = IF l.pc = "human" THEN answeredBy(y, "human") ELSE y
  BY <1>y DEF answeredAsk
<1>1. /\ y \in LoginState /\ y.ask = "none" /\ ~y.active /\ y.attempt = l.attempt
      /\ y.aborted = l.aborted /\ y.cancelled = l.cancelled /\ y.pc = l.pc
  BY <1>0, <1>y DEF LoginState
<1>2. /\ l1 \in LoginState /\ l1.ask = "none" /\ ~l1.active /\ l1.attempt = l.attempt
      /\ l1.aborted = l.aborted /\ l1.cancelled = l.cancelled
      /\ IF l.pc = "human" THEN l1.pc = "authenticating" ELSE l1.pc = l.pc
  <2>1. CASE l.pc = "human"
    <3>1. l1 = answeredBy(y, "human")
      BY <1>l, <2>1
    <3>2. /\ l1 \in LoginState /\ l1.ask = y.ask /\ l1.active = y.active
          /\ l1.attempt = y.attempt
          /\ l1.aborted = y.aborted /\ l1.cancelled = y.cancelled /\ l1.pc = "authenticating"
      BY <1>1, <3>1 DEF LoginState, answeredBy
    <3> QED BY <1>1, <2>1, <3>2
  <2>2. CASE l.pc # "human"
    BY <1>l, <1>1, <2>2
  <2> QED BY <2>1, <2>2
<1>3. l.attempt \in 1..2 /\ l.pc \in {"human", "over"}
  BY <1>0 DEF Guarded, AskingOK, LoginState
<1>4. xs[l.attempt].acked # None /\ xs[l.attempt].row # "pending"
  <2>1. xs[l.attempt] \in Relay /\ RelayOK(b, xs[l.attempt])
    BY <1>0, <1>3 DEF Guarded, RelaysOK
  <2>2. xs[l.attempt].got \in Answer
    BY <2>1 DEF Relay
  <2> QED BY <2>1, <2>2, RelayAssumption DEF RelayOK
<1>5. AskingOK(l1, xs)
  <2>1. \A k \in 1..2 : unopened(l1, k) => unopened(l, k)
    BY <1>2, <1>3 DEF unopened
  <2> QED BY <1>2, <1>3, <1>4, <2>1 DEF Guarded, AskingOK, asking
<1>6. \A k \in 1..2 : Held(n, xs[k], l1, k)
  <2> SUFFICES ASSUME NEW k \in 1..2 PROVE Held(n, xs[k], l1, k)
    OBVIOUS
  <2>1. CASE k = l.attempt
    BY <1>4, <2>1 DEF Held
  <2>2. CASE k # l.attempt
    BY <2>2 DEF Guarded, RelaysOK, Held
  <2> QED BY <2>1, <2>2
<1>7. RelaysOK(b, n, l1, xs)
  BY <1>2, <1>6, RelaysStay DEF Guarded
<1> QED BY <1>2, <1>5, <1>7 DEF Guarded

\* The person is asked, after whoever was asked before.
waitingAsk(l) == [l EXCEPT !.ask = "waiting"]
waitedFor(b, x) == waited(b, x, FALSE)
captcha(c) == [type |-> "captcha", challenge |-> c]
challenged(s, r, k) == Append(s, captcha(<<r, k>>))

LEMMA AskSent ==
    ASSUME NEW b, NEW n \in Nat, NEW r \in Guardian, NEW l, NEW s, NEW t, NEW xs, NEW ys, NEW k,
           Typed(b, n, l, xs, s, t), Guarded(b, n, r, l, xs, s, t), l.ask = "prepared",
           k = l.attempt, Move(xs, ys, k), ys[k] = waitedFor(b, xs[k]),
           NEW l1, l1 = waitingAsk(l), NEW s1, s1 = challenged(s, r, k)
    PROVE  /\ l1 \in LoginState /\ s1 \in Seq(Event)
           /\ Guarded(b, n, r, l1, ys, s1, t) /\ Follows(xs[k], ys[k])
<1> DEFINE y == ys[k]
           e == captcha(<<r, k>>)
<1>0. l \in LoginState /\ b \in Coordinator /\ xs \in [1..2 -> Relay] /\ s \in Seq(Event)
  BY DEF Typed
<1>1. /\ l1 \in LoginState /\ l1.ask = "waiting" /\ l1.active = l.active
      /\ l1.attempt = l.attempt
      /\ l1.aborted = l.aborted /\ l1.cancelled = l.cancelled /\ l1.pc = l.pc
  BY <1>0 DEF LoginState, waitingAsk
<1>2. /\ k \in 1..2 /\ \A j \in 1..2 : j # k => ys[j] = xs[j]
      /\ xs[k] \in Relay
  BY <1>0 DEF Move
<1>3. xs[k].wait = "none" /\ RelayOK(b, xs[k]) /\ l.pc \in {"human", "over"}
      /\ Kept(n, xs[k], l) /\ Held(n, xs[k], l, k) /\ Meant(xs[k], l)
  BY <1>0, <1>2 DEF Guarded, AskingOK, RelaysOK, LoginState
<1>4. Moved(b, xs[k], y) /\ Same(xs[k], y) /\ Keeps(xs[k], y) /\ y.wait # "none"
  <2>1. PICK f \in BOOLEAN : f = FALSE
    OBVIOUS
  <2>2. y = waited(b, xs[k], f)
    BY <2>1 DEF waitedFor
  <2> QED BY <1>0, <1>2, <1>3, <2>1, <2>2, WaitedRelay
<1>5. AskingOK(l1, ys)
  <2>1. \A j \in 1..2 : unopened(l1, j) => j # k /\ unopened(l, j)
    BY <1>1, <1>2, <1>3 DEF unopened
  <2>2. \A j \in 1..2 : unopened(l1, j) => ys[j] = NoRelay
    BY <1>2, <2>1 DEF Guarded, AskingOK
  <2>3. l1.attempt = 2 => ys[1].wait = "none" \/ ys[1].acked # None
    BY <1>1, <1>2 DEF Guarded, AskingOK
  <2> QED BY <1>1, <1>2, <1>3, <2>2, <2>3 DEF Guarded, AskingOK, asking
<1>6. RelaysOK(b, n, l1, ys)
  <2> SUFFICES ASSUME NEW j \in 1..2
               PROVE  /\ RelayOK(b, ys[j]) /\ Kept(n, ys[j], l1) /\ Held(n, ys[j], l1, j)
                      /\ Meant(ys[j], l1)
    BY DEF RelaysOK
  <2>1. CASE j = k
    <3>1. RelayOK(b, y) /\ Kept(n, y, l) /\ Meant(y, l)
      BY <1>0, <1>3, <1>4 DEF Moved, Keeps, Same, Meant
    <3>2. Held(n, y, l, k)
      BY <1>3, <1>4 DEF Moved, Same, Held
    <3> QED BY <1>1, <2>1, <3>1, <3>2 DEF Kept, Excused, Held, Meant, asking
  <2>2. CASE j # k
    <3>1. /\ ys[j] = xs[j] /\ RelayOK(b, xs[j]) /\ Kept(n, xs[j], l) /\ Held(n, xs[j], l, j)
          /\ Meant(xs[j], l)
      BY <1>2, <2>2 DEF Guarded, RelaysOK
    <3> QED BY <1>1, <2>2, <3>1 DEF Kept, Excused, Held, Meant
  <2> QED BY <2>1, <2>2
<1>7. PageOK(r, s, t, ys)
  <2>1. \A j \in 1..2 : xs[j].wait # "none" => ys[j].wait # "none"
    BY <1>2, <1>4
  <2>2. xs[k].acked # None => ys[k].acked # None
    BY <1>4 DEF Moved, Follows
  <2>3. xs[1].acked # None => ys[1].acked # None
    <3>1. CASE k = 1
      BY <2>2, <3>1
    <3>2. CASE k # 1
      <4>1. 1 \in 1..2 /\ 1 # k
        BY <3>2
      <4>2. ys[1] = xs[1]
        BY <1>2, <4>1
      <4> QED BY <4>2
    <3> QED BY <3>1, <3>2
  <2> QED BY <2>1, <2>3, PageFollows DEF Guarded
<1>8. \A c : asked(r, c, xs) => c[2] \in 1..2 /\ c[2] < k
  <2> SUFFICES ASSUME NEW c, asked(r, c, xs) PROVE c[2] \in 1..2 /\ c[2] < k
    OBVIOUS
  <2>1. PICK j \in 1..2 : c = <<r, j>> /\ xs[j].wait # "none"
    BY DEF asked
  <2>2. ~unopened(l, j) /\ j # k
    BY <1>3, <2>1, Opened DEF Guarded
  <2> QED BY <1>2, <2>1, <2>2 DEF unopened
<1>9. /\ s1 \in Seq(Event) /\ Len(s1) = Len(s) + 1 /\ Len(s) \in Nat
      /\ \A i \in 1..Len(s) : s1[i] = s[i]
      /\ s1[Len(s) + 1] = e /\ e.type = "captcha" /\ e.challenge = <<r, k>>
  <2>1. e \in Event /\ e.type = "captcha" /\ e.challenge = <<r, k>>
    BY <1>2 DEF Event, Challenge, captcha
  <2>2. s1 = Append(s, e)
    BY DEF challenged
  <2> HIDE DEF e
  <2> QED BY <1>0, <2>1, <2>2
<1> HIDE DEF e, y
<1>10. \A i \in 1..Len(s1) : /\ i \in 1..Len(s) => s1[i] = s[i] /\ (asks(s1, i) <=> asks(s, i))
                             /\ i \notin 1..Len(s) => i = Len(s) + 1 /\ s1[i] = e
  BY <1>9 DEF asks
<1>11. \A i \in 1..Len(s) : asks(s, i) => s[i].challenge[2] < k
  BY <1>8 DEF Guarded, PageOK, StreamOK
<1>12. StreamOK(r, s1, ys)
  <2>1. asked(r, <<r, k>>, ys)
    BY <1>2, <1>4 DEF asked, y
  <2>2. \A i \in 1..Len(s1) : asks(s1, i) => asked(r, s1[i].challenge, ys)
    BY <1>7, <1>9, <1>10, <2>1 DEF PageOK, StreamOK
  <2>3. ASSUME NEW i \in 1..Len(s1), NEW j \in 1..Len(s1), asks(s1, i), asks(s1, j), i < j
        PROVE  s1[i].challenge[2] < s1[j].challenge[2]
    <3>1. i \in 1..Len(s)
      BY <1>9, <2>3
    <3>2. CASE j \in 1..Len(s)
      BY <1>7, <1>10, <2>3, <3>1, <3>2 DEF PageOK, StreamOK
    <3>3. CASE j \notin 1..Len(s)
      <4>1. s1[j].challenge[2] = k
        BY <1>9, <1>10, <3>3
      <4>2. s1[i].challenge[2] < k
        BY <1>10, <1>11, <2>3, <3>1
      <4> QED BY <4>1, <4>2
    <3> QED BY <3>2, <3>3
  <2> QED BY <2>2, <2>3 DEF StreamOK
<1>13. TabOK(r, s1, t, ys)
  <2>1. t.challenge # None => t.challenge[2] < k
    BY <1>8 DEF Guarded, PageOK, TabOK
  <2>2. ASSUME t.challenge # None, NEW i \in 1..Len(s1), asks(s1, i)
        PROVE  t.challenge[2] < s1[i].challenge[2]
    <3>1. CASE i \in 1..Len(s)
      BY <1>7, <1>10, <2>2, <3>1 DEF PageOK, TabOK
    <3>2. CASE i \notin 1..Len(s)
      <4>1. s1[i].challenge[2] = k
        BY <1>9, <1>10, <3>2
      <4> QED BY <2>1, <2>2, <4>1
    <3> QED BY <3>1, <3>2
  <2> QED BY <1>7, <2>2 DEF PageOK, TabOK
<1> QED BY <1>1, <1>4, <1>5, <1>6, <1>9, <1>12, <1>13 DEF Guarded, PageOK, Moved, y

\* wait() goes on.
waitedOn(b, x) ==
    CASE x.wait = "calling" -> objectWaited(x)
      [] x.wait = "returned" -> settled(x, x.result)
      [] x.wait = "reading" -> read(x)
      [] x.wait = "blocked" /\ b = "redis" -> unblocked(x)
      [] x.wait = "rereading" -> reread(x)
      [] OTHER -> x

LEMMA WaitedOnRelay ==
    ASSUME NEW b \in Coordinator, NEW x \in Relay, RelayOK(b, x),
           NEW y, y = waitedOn(b, x)
    PROVE  Moved(b, x, y) /\ Same(x, y) /\ Keeps(x, y) /\ (x.wait = "none" <=> y.wait = "none")
<1>1. CASE x.wait = "calling"
  <2>1. y = objectWaited(x)
    BY <1>1 DEF waitedOn
  <2> QED BY <1>1, <2>1, ObjectWaitedRelay
<1>2. CASE x.wait = "returned"
  <2>1. y = settled(x, x.result)
    BY <1>2 DEF waitedOn
  <2> QED BY <1>2, <2>1, ReturnedRelay
<1>3. CASE x.wait = "reading"
  <2>1. y = read(x)
    BY <1>3 DEF waitedOn
  <2> QED BY <1>3, <2>1, ReadRelay
<1>4. CASE x.wait = "blocked" /\ b = "redis"
  <2>1. y = unblocked(x)
    BY <1>4 DEF waitedOn
  <2> QED BY <1>4, <2>1, UnblockedRelay
<1>5. CASE x.wait = "rereading"
  <2>1. y = reread(x)
    BY <1>5 DEF waitedOn
  <2> QED BY <1>5, <2>1, RereadRelay
<1>6. CASE ~(\/ x.wait \in {"calling", "returned", "reading", "rereading"}
             \/ x.wait = "blocked" /\ b = "redis")
  <2>1. y = x
    BY <1>6 DEF waitedOn
  <2> QED BY <2>1 DEF Moved, Same, Keeps, Follows
<1> QED BY <1>1, <1>2, <1>3, <1>4, <1>5, <1>6

\* Steps of one relay that a login waits at, or that time takes.
LEMMA RelayKeeps ==
    ASSUME NEW b, NEW n \in Nat, NEW r, NEW l, NEW s, NEW t, NEW xs, NEW ys, NEW k,
           Typed(b, n, l, xs, s, t), Guarded(b, n, r, l, xs, s, t),
           Move(xs, ys, k), ~unopened(l, k), Moved(b, xs[k], ys[k]), Same(xs[k], ys[k]),
           Keeps(xs[k], ys[k]), xs[k].wait = "none" <=> ys[k].wait = "none"
    PROVE  Guarded(b, n, r, l, ys, s, t)
<1>1. k \in 1..2 /\ n \in {n, n + 1} /\ l \in LoginState
  BY DEF Move, Typed
<1>2. Kept(n, xs[k], l) /\ Held(n, xs[k], l, k) /\ Meant(xs[k], l)
  BY <1>1 DEF Guarded, RelaysOK
<1>3. Kept(n, ys[k], l)
  BY <1>1, <1>2 DEF Keeps
<1>4. Held(n, ys[k], l, k)
  BY <1>1, <1>2, StillHeld DEF Same
<1>5. Meant(ys[k], l)
  BY <1>2 DEF Meant, Same
<1> QED BY <1>1, <1>3, <1>4, <1>5, RelayMoves

\* Steps of one relay that come with a fault.
LEMMA RelayFaults ==
    ASSUME NEW b, NEW n \in Nat, NEW r, NEW l, NEW s, NEW t, NEW xs, NEW ys, NEW k,
           Typed(b, n, l, xs, s, t), Guarded(b, n, r, l, xs, s, t),
           Move(xs, ys, k), ~unopened(l, k), Moved(b, xs[k], ys[k]),
           ys[k].cancelling => xs[k].cancelling, ys[k].aborted = xs[k].aborted,
           xs[k].wait = "none" <=> ys[k].wait = "none"
    PROVE  Guarded(b, n + 1, r, l, ys, s, t)
<1>1. k \in 1..2 /\ n + 1 \in {n, n + 1} /\ n + 1 > 0
  BY DEF Move
<1>2. Meant(xs[k], l)
  BY <1>1 DEF Guarded, RelaysOK
<1>3. Kept(n + 1, ys[k], l)
  BY <1>1 DEF Kept, Excused
<1>4. Held(n + 1, ys[k], l, k)
  BY <1>1 DEF Held
<1>5. Meant(ys[k], l)
  BY <1>2 DEF Meant
<1> QED BY <1>1, <1>3, <1>4, <1>5, RelayMoves

\* A call that fails changes nothing but the excuses.
LEMMA OnlyFaults ==
    ASSUME NEW b, NEW n \in Nat, NEW n1 \in {n, n + 1}, NEW r, NEW l, NEW s, NEW t, NEW xs,
           Guarded(b, n, r, l, xs, s, t)
    PROVE  Guarded(b, n1, r, l, xs, s, t)
<1>1. \A k \in 1..2 : Held(n1, xs[k], l, k)
  BY DEF Guarded, RelaysOK, Held
<1> QED BY <1>1, RelaysStay DEF Guarded

\* A cancel() on its way lands.  Whoever sent it had given the login up.
LEMMA CancelLanded ==
    ASSUME NEW b, NEW n \in Nat, NEW r, NEW l, NEW s, NEW t, NEW xs, NEW ys, NEW k,
           Typed(b, n, l, xs, s, t), Guarded(b, n, r, l, xs, s, t),
           Move(xs, ys, k), xs[k].cancelling, NEW x, x = landed(xs[k]),
           ys[k] = cancelled(b, x)
    PROVE  Guarded(b, n, r, l, ys, s, t) /\ Follows(xs[k], ys[k])
<1>0. k \in 1..2 /\ b \in Coordinator /\ xs[k] \in Relay /\ RelayOK(b, xs[k])
      /\ Meant(xs[k], l) /\ ~unopened(l, k)
  <2>1. k \in 1..2 /\ b \in Coordinator /\ xs[k] \in Relay
    BY DEF Typed, Move
  <2>2. RelayOK(b, xs[k]) /\ Meant(xs[k], l)
    BY <2>1 DEF Guarded, RelaysOK
  <2> QED BY <2>1, <2>2, Opened DEF Guarded
<1>1. /\ Moved(b, xs[k], x) /\ ~x.cancelling /\ x.aborted = xs[k].aborted
      /\ x.acked = xs[k].acked /\ x.wait = xs[k].wait
  <2>1. /\ Moved(b, xs[k], x) /\ (x.cancelling <=> x = cancelling(xs[k]))
        /\ x.aborted = xs[k].aborted /\ x.acked = xs[k].acked /\ x.wait = xs[k].wait
    BY <1>0, CancellingRelay
  <2>2. ~x.cancelling
    BY <1>0 DEF landed, Relay
  <2> QED BY <2>1, <2>2
<1>2. /\ Moved(b, x, ys[k]) /\ Same(x, ys[k]) /\ (ys[k].wait = "none" <=> x.wait = "none")
      /\ ys[k].row = "pending" => ys[k].late
      /\ ys[k].acked = x.acked
  <2>1. x \in Relay /\ RelayOK(b, x)
    BY <1>1 DEF Moved
  <2> QED BY <1>0, <2>1, CancelledRelay
<1>3. Moved(b, xs[k], ys[k])
  BY <1>1, <1>2 DEF Moved, Follows
<1>4. l.aborted \/ l.cancelled
  BY <1>0 DEF Meant
<1>5. Kept(n, ys[k], l) /\ Meant(ys[k], l)
  BY <1>4 DEF Kept, Excused, Meant
<1>6. Held(n, ys[k], l, k)
  BY <1>2 DEF Held
<1>7. n \in {n, n + 1} /\ (xs[k].wait = "none" <=> ys[k].wait = "none")
  BY <1>1, <1>2
<1>8. Guarded(b, n, r, l, ys, s, t)
  BY <1>0, <1>3, <1>5, <1>6, <1>7, RelayMoves
<1> QED BY <1>3, <1>8 DEF Moved

\* onCaptchaNeeded cancels the relay it holds, and throws.
LEMMA AskCancelled ==
    ASSUME NEW b, NEW n \in Nat, NEW r, NEW l, NEW s, NEW t, NEW xs, NEW ys, NEW k,
           Typed(b, n, l, xs, s, t), Guarded(b, n, r, l, xs, s, t), l.ask = "cancelling",
           k = l.attempt, Move(xs, ys, k),
           ys[k] = IF l.active THEN cancelled(b, xs[k]) ELSE xs[k]
    PROVE  Guarded(b, n, r, thrownAsk(l), ys, s, t) /\ Follows(xs[k], ys[k])
<1>0. k \in 1..2 /\ b \in Coordinator /\ xs[k] \in Relay /\ xs \in [1..2 -> Relay]
      /\ ys \in [1..2 -> Relay] /\ l \in LoginState
  BY DEF Typed, Move
<1>a. RelayOK(b, xs[k]) /\ Kept(n, xs[k], l) /\ Held(n, xs[k], l, k) /\ Meant(xs[k], l)
  BY <1>0 DEF Guarded, RelaysOK
<1>b. l.pc \in {"human", "over"}
  BY <1>0 DEF Guarded, AskingOK, LoginState
<1>c. ~unopened(l, k)
  BY <1>0, <1>b DEF unopened
<1>1. Moved(b, xs[k], xs[k])
  BY <1>0, <1>a DEF Moved, Follows
<1>2. /\ Moved(b, xs[k], ys[k]) /\ Same(xs[k], ys[k])
      /\ ys[k].wait = "none" <=> xs[k].wait = "none"
      /\ ys[k].lapsed = xs[k].lapsed
      /\ xs[k].row # "answered" => Keeps(xs[k], ys[k])
  <2>1. CASE l.active
    BY <1>0, <1>a, <2>1, CancelledRelay
  <2>2. CASE ~l.active
    BY <1>1, <2>2 DEF Same, Keeps
  <2> QED BY <2>1, <2>2
<1>3. l.active => (ys[k].row = "pending" => ys[k].late)
  BY <1>0, <1>a, CancelledRelay
<1>4. Kept(n, ys[k], l)
  <2>1. CASE xs[k].row # "answered"
    BY <1>0, <1>2, <1>a, <2>1 DEF Keeps
  <2>2. CASE xs[k].row = "answered"
    <3>1. l.cancelled \/ l.aborted \/ xs[k].got \in Failure
      BY DEF Guarded, AskingOK
    <3>2. xs[k].got \in Failure => xs[k].wait = "over"
      BY <1>a, RelayAssumption DEF RelayOK
    <3>3. Excused(n, xs[k], l)
      BY <1>a, <2>2, <3>1, <3>2 DEF Kept, Excused
    <3> QED BY <1>2, <3>3 DEF Kept, Excused
  <2> QED BY <2>1, <2>2
<1>5. Held(n, ys[k], l, k) /\ Meant(ys[k], l) /\ n \in {n, n + 1}
  BY <1>2, <1>a, StillHeld DEF Same, Meant
<1>6. Guarded(b, n, r, l, ys, s, t)
  BY <1>0, <1>2, <1>4, <1>5, <1>c, RelayMoves
<1>7. Typed(b, n, l, ys, s, t)
  BY <1>0 DEF Typed
<1>8. \A j \in 1..2 : Held(n, ys[j], thrownAsk(l), j)
  <2> SUFFICES ASSUME NEW j \in 1..2 PROVE Held(n, ys[j], thrownAsk(l), j)
    OBVIOUS
  <2>1. CASE j # k \/ ~l.active
    BY <1>6, <2>1 DEF Guarded, RelaysOK, Held
  <2>2. CASE j = k /\ l.active
    BY <1>3, <2>2 DEF Held
  <2> QED BY <2>1, <2>2
<1>9. Guarded(b, n, r, thrownAsk(l), ys, s, t)
  BY <1>5, <1>6, <1>7, <1>8, AskThrown
<1> QED BY <1>2, <1>9 DEF Moved

-----------------------------------------------------------------------------
(* Cancellation: the relay of the login is cancelled at once, or a         *)
(* cancel() is sent, and the login is given up.                            *)

cancelledBy(b, l, x) ==
    IF l.cancelled \/ ~l.active THEN x
    ELSE IF b = "local" THEN cancelled("local", x) ELSE cancelling(x)

LEMMA CancelledByRelay ==
    ASSUME NEW b \in Coordinator, NEW l, NEW x \in Relay, RelayOK(b, x),
           NEW y, y = cancelledBy(b, l, x)
    PROVE  /\ Moved(b, x, y) /\ (y.wait = "none" <=> x.wait = "none")
           /\ y.acked = x.acked /\ (x.cancelling => y.cancelling)
           /\ l.active /\ ~l.cancelled =>
                 y.row # "pending" \/ y.late \/ y.cancelling
           /\ ~l.active => y = x
<1>1. CASE l.cancelled \/ ~l.active
  <2>1. y = x
    BY <1>1 DEF cancelledBy
  <2> QED BY <1>1, <2>1 DEF Moved, Follows
<1>2. CASE ~(l.cancelled \/ ~l.active) /\ b = "local"
  <2>1. y = cancelled(b, x)
    BY <1>2 DEF cancelledBy
  <2> QED BY <1>2, <2>1, CancelledRelay DEF Same
<1>3. CASE ~(l.cancelled \/ ~l.active) /\ b # "local"
  <2>1. y = cancelling(x)
    BY <1>3 DEF cancelledBy
  <2> QED BY <1>3, <2>1, CancellingRelay
<1> QED BY <1>1, <1>2, <1>3

LEMMA CancelTwice ==
    ASSUME NEW b, NEW x, NEW y, NEW z, Moved(b, x, y), Moved(b, y, z),
           y.acked = x.acked, z.acked = y.acked
    PROVE  Moved(b, x, z)
  BY DEF Moved, Follows

LEMMA GivenUp ==
    ASSUME NEW b, NEW n \in Nat, NEW r, NEW l, NEW s, NEW t, NEW xs, NEW ys, NEW k, NEW l1,
           Typed(b, n, l, xs, s, t), Guarded(b, n, r, l, xs, s, t),
           l.pc # "idle", k = l.attempt, Move(xs, ys, k), Moved(b, xs[k], ys[k]),
           ys[k].wait = "none" <=> xs[k].wait = "none",
           ys[k] = xs[k] \/ asking(l),
           l1.cancelled, l.aborted => l1.aborted, l1.ask = l.ask, l1.attempt = l.attempt,
           l1.active => l.active, l1.pc \in {l.pc, "over"},
           Held(n, ys[k], l1, k)
    PROVE  Guarded(b, n, r, l1, ys, s, t)
<1>0. l \in LoginState /\ k \in 1..2 /\ (\A j \in 1..2 : j # k => ys[j] = xs[j])
  BY DEF Typed, Move
<1>1. /\ xs[k].acked # None => ys[k].acked # None
      /\ xs[k].got \in Failure => ys[k].got = xs[k].got
  BY RelayAssumption DEF Moved, Follows
<1>2. AskingOK(l1, ys)
  <2>1. \A j \in 1..2 : unopened(l1, j) => unopened(l, j)
    BY <1>0 DEF unopened
  <2>2. asking(l) => ~unopened(l, k)
    BY <1>0 DEF Guarded, AskingOK, unopened, asking
  <2>3. \A j \in 1..2 : unopened(l1, j) => ys[j] = NoRelay
    <3> SUFFICES ASSUME NEW j \in 1..2, unopened(l1, j) PROVE ys[j] = NoRelay
      OBVIOUS
    <3>1. unopened(l, j) /\ xs[j] = NoRelay
      BY <2>1 DEF Guarded, AskingOK
    <3> QED BY <1>0, <2>2, <3>1
  <2>4. \A j \in 1..2 : /\ xs[j].acked # None => ys[j].acked # None
                        /\ xs[j].wait = "none" => ys[j].wait = "none"
    BY <1>0, <1>1
  <2>5. 1 \in 1..2
    OBVIOUS
  <2>6. (l1.attempt = 1 /\ l1.pc = "authenticating") \/ l1.attempt = 2 =>
            ys[1].wait = "none" \/ ys[1].acked # None
    BY <2>4, <2>5 DEF Guarded, AskingOK
  <2>7. l1.ask = "prepared" => ys[l1.attempt].wait = "none"
    BY DEF Guarded, AskingOK
  <2>8. /\ l1.pc # "browsing"
        /\ IF l1.pc = "idle" THEN l1.attempt = 0 ELSE l1.attempt \in 1..2
        /\ l1.pc \in {"idle", "challenge", "ocr", "authenticating", "finishing"} => l1.ask = "none"
        /\ l1.pc = "human" => l1.ask # "none"
        /\ l1.active => asking(l1)
        /\ l1.ask # "none" => l1.attempt \in 1..2
    BY <1>0 DEF Guarded, AskingOK, asking
  <2> QED BY <2>3, <2>6, <2>7, <2>8 DEF AskingOK
<1>3. RelaysOK(b, n, l1, ys)
  <2> SUFFICES ASSUME NEW j \in 1..2
               PROVE  /\ RelayOK(b, ys[j]) /\ Kept(n, ys[j], l1) /\ Held(n, ys[j], l1, j)
                      /\ Meant(ys[j], l1)
    BY DEF RelaysOK
  <2>1. Kept(n, ys[j], l1) /\ Meant(ys[j], l1)
    BY DEF Kept, Excused, Meant
  <2>2. CASE j = k
    BY <2>1, <2>2 DEF Moved
  <2>3. CASE j # k
    <3>1. /\ ys[j] = xs[j] /\ RelayOK(b, xs[j]) /\ Held(n, xs[j], l, j)
      BY <1>0, <2>3 DEF Guarded, RelaysOK
    <3>2. Held(n, xs[j], l1, j)
      BY <2>3, <3>1 DEF Held
    <3> QED BY <2>1, <3>1, <3>2
  <2> QED BY <2>2, <2>3
<1>4. PageOK(r, s, t, ys)
  <2>1. \A j \in 1..2 : xs[j].wait # "none" => ys[j].wait # "none"
    BY <1>0
  <2>2. \A j \in 1..2 : xs[j].acked # None => ys[j].acked # None
    BY <1>0, <1>1
  <2>3. 1 \in 1..2
    OBVIOUS
  <2> QED BY <2>1, <2>2, <2>3, PageFollows DEF Guarded
<1> QED BY <1>2, <1>3, <1>4 DEF Guarded

abandoned(l) == [l EXCEPT !.aborted = TRUE, !.cancelled = TRUE,
                          !.active = l.active /\ l.cancelled]

abortedLogin(l) ==
    IF l.pc \in awaitsSignal
    THEN [abandoned(l) EXCEPT !.pc = "over", !.result = "cancelled"] ELSE abandoned(l)

LEMMA AbortedLogin ==
    ASSUME NEW l \in LoginState
    PROVE  /\ abortedLogin(l) \in LoginState /\ abortedLogin(l).aborted
           /\ abortedLogin(l).cancelled /\ abortedLogin(l).ask = l.ask
           /\ abortedLogin(l).attempt = l.attempt
           /\ abortedLogin(l).active <=> l.active /\ l.cancelled
           /\ abortedLogin(l).pc \in {l.pc, "over"}
           /\ l.pc = "human" => abortedLogin(l).pc = "over"
<1> DEFINE z == abandoned(l)
           l1 == abortedLogin(l)
<1>1. /\ z \in LoginState /\ z.aborted /\ z.cancelled /\ z.ask = l.ask /\ z.attempt = l.attempt
      /\ z.pc = l.pc /\ (z.active <=> l.active /\ l.cancelled)
  <2>1. PICK f \in BOOLEAN : f <=> l.active /\ l.cancelled
    OBVIOUS
  <2>2. z = [l EXCEPT !.aborted = TRUE, !.cancelled = TRUE, !.active = f]
    BY <2>1 DEF abandoned
  <2> HIDE DEF z
  <2>3. /\ z \in LoginState /\ z.aborted /\ z.cancelled /\ z.ask = l.ask
        /\ z.attempt = l.attempt /\ z.pc = l.pc /\ z.active = f
    BY <2>2 DEF LoginState
  <2> QED BY <2>1, <2>3
<1>2. CASE l.pc \in awaitsSignal
  <2>1. l1 = [z EXCEPT !.pc = "over", !.result = "cancelled"]
    BY <1>2 DEF abortedLogin
  <2>2. z \in LoginState
    BY <1>1
  <2> HIDE DEF z, l1
  <2>3. /\ l1 \in LoginState /\ l1.aborted = z.aborted /\ l1.cancelled = z.cancelled
        /\ l1.ask = z.ask /\ l1.attempt = z.attempt /\ l1.active = z.active /\ l1.pc = "over"
    BY <2>1, <2>2 DEF LoginState
  <2> QED BY <1>1, <1>2, <2>3 DEF l1
<1>3. CASE l.pc \notin awaitsSignal
  <2>1. l1 = z /\ l.pc # "human"
    BY <1>3 DEF abortedLogin, awaitsSignal
  <2> HIDE DEF z, l1
  <2> QED BY <1>1, <2>1 DEF l1
<1> QED BY <1>2, <1>3

\* The request is aborted.
LEMMA RequestAborted ==
    ASSUME NEW b, NEW n \in Nat, NEW r, NEW l, NEW s, NEW t, NEW xs, NEW ys, NEW k,
           Typed(b, n, l, xs, s, t), Guarded(b, n, r, l, xs, s, t),
           l.pc # "idle", k = l.attempt, Move(xs, ys, k), NEW x, x = cancelledBy(b, l, xs[k]),
           ys[k] = IF l.ask = "waiting" THEN abortHeard(b, x) ELSE x,
           NEW l1, l1 = abortedLogin(l)
    PROVE  l1 \in LoginState /\ Guarded(b, n, r, l1, ys, s, t) /\ Follows(xs[k], ys[k])
<1>0. /\ l \in LoginState /\ b \in Coordinator /\ k \in 1..2 /\ xs[k] \in Relay
      /\ RelayOK(b, xs[k]) /\ Held(n, xs[k], l, k)
  <2>1. l \in LoginState /\ b \in Coordinator /\ k \in 1..2 /\ xs[k] \in Relay
    BY DEF Typed, Move
  <2> QED BY <2>1 DEF Guarded, RelaysOK
<1>2. /\ l1 \in LoginState /\ l1.aborted /\ l1.cancelled /\ l1.ask = l.ask
      /\ l1.attempt = l.attempt /\ (l1.active <=> l.active /\ l.cancelled)
      /\ l1.pc \in {l.pc, "over"} /\ (l.pc = "human" => l1.pc = "over")
  BY <1>0, AbortedLogin
<1>3. /\ Moved(b, xs[k], x) /\ (x.wait = "none" <=> xs[k].wait = "none")
      /\ x.acked = xs[k].acked /\ (xs[k].cancelling => x.cancelling)
      /\ l.active /\ ~l.cancelled => x.row # "pending" \/ x.late \/ x.cancelling
      /\ ~l.active => x = xs[k]
  BY <1>0, CancelledByRelay
<1>4. x \in Relay /\ RelayOK(b, x)
  BY <1>3 DEF Moved
<1>5. /\ Moved(b, x, ys[k]) /\ (ys[k].wait = "none" <=> x.wait = "none")
      /\ x.cancelling => ys[k].cancelling
      /\ ys[k].acked = x.acked
  <2>1. CASE l.ask = "waiting"
    BY <1>0, <1>4, <2>1, AbortHeardRelay
  <2>2. CASE l.ask # "waiting"
    <3>1. ys[k] = x
      BY <2>2
    <3> QED BY <1>4, <3>1 DEF Moved, Follows
  <2> QED BY <2>1, <2>2
<1>6. Moved(b, xs[k], ys[k])
  BY <1>3, <1>5, CancelTwice
<1>7. Held(n, ys[k], l1, k)
  <2> SUFFICES ASSUME n = 0, ys[k].row = "pending", ~ys[k].late
               PROVE  ys[k].cancelling \/ (asking(l1) /\ l1.attempt = k /\ l1.active)
    BY DEF Held
  <2>1. x.row = "pending" /\ ~x.late
    BY <1>5 DEF Moved
  <2>2. xs[k].row = "pending" /\ ~xs[k].late
    BY <1>3, <2>1 DEF Moved
  <2>3. CASE l.active /\ ~l.cancelled
    BY <1>3, <1>5, <2>1, <2>3
  <2>4. CASE l.active /\ l.cancelled
    <3>1. asking(l)
      BY <2>4 DEF Guarded, AskingOK
    <3> QED BY <1>2, <2>4, <3>1 DEF asking
  <2>5. CASE ~l.active
    <3>1. xs[k].cancelling
      BY <1>0, <2>2, <2>5 DEF Held
    <3> QED BY <1>3, <1>5, <3>1
  <2> QED BY <2>3, <2>4, <2>5
<1>8. ys[k] = xs[k] \/ asking(l)
  <2>1. l.active => asking(l)
    BY DEF Guarded, AskingOK
  <2>2. CASE ~asking(l)
    <3>1. ~l.active /\ l.ask # "waiting"
      BY <2>1, <2>2 DEF asking
    <3> QED BY <1>3, <3>1
  <2> QED BY <2>2
<1>9. Guarded(b, n, r, l1, ys, s, t)
  <2>1. ys[k].wait = "none" <=> xs[k].wait = "none"
    BY <1>3, <1>5
  <2>2. l1.active => l.active
    BY <1>2
  <2>3. l.aborted => l1.aborted
    BY <1>2
  <2>4. l1.cancelled /\ l1.ask = l.ask /\ l1.attempt = l.attempt /\ l1.pc \in {l.pc, "over"}
    BY <1>2
  <2> QED BY <1>6, <1>7, <1>8, <2>1, <2>2, <2>3, <2>4, GivenUp
<1> QED BY <1>2, <1>6, <1>9 DEF Moved

\* The body of the response is cancelled.
uncoupled(l) == [l EXCEPT !.cancelled = TRUE, !.active = FALSE]

LEMMA StreamCancelled ==
    ASSUME NEW b, NEW n \in Nat, NEW r, NEW l, NEW s, NEW t, NEW xs, NEW ys, NEW k,
           Typed(b, n, l, xs, s, t), Guarded(b, n, r, l, xs, s, t),
           l.pc # "idle", ~l.cancelled, k = l.attempt, Move(xs, ys, k),
           ys[k] = cancelledBy(b, l, xs[k]),
           NEW l1, l1 = uncoupled(l)
    PROVE  l1 \in LoginState /\ Guarded(b, n, r, l1, ys, s, t) /\ Follows(xs[k], ys[k])
<1>0. /\ l \in LoginState /\ b \in Coordinator /\ k \in 1..2 /\ xs[k] \in Relay
      /\ RelayOK(b, xs[k]) /\ Held(n, xs[k], l, k)
  <2>1. l \in LoginState /\ b \in Coordinator /\ k \in 1..2 /\ xs[k] \in Relay
    BY DEF Typed, Move
  <2> QED BY <2>1 DEF Guarded, RelaysOK
<1>1. /\ l1 \in LoginState /\ l1.aborted = l.aborted /\ l1.cancelled /\ l1.ask = l.ask
      /\ l1.attempt = l.attempt /\ l1.pc = l.pc /\ ~l1.active
  BY <1>0 DEF LoginState, uncoupled
<1>2. /\ Moved(b, xs[k], ys[k]) /\ (ys[k].wait = "none" <=> xs[k].wait = "none")
      /\ ys[k].acked = xs[k].acked /\ (xs[k].cancelling => ys[k].cancelling)
      /\ l.active /\ ~l.cancelled => ys[k].row # "pending" \/ ys[k].late \/ ys[k].cancelling
      /\ ~l.active => ys[k] = xs[k]
  BY <1>0, CancelledByRelay
<1>3. Held(n, ys[k], l1, k)
  <2>1. CASE l.active
    BY <1>2, <2>1 DEF Held
  <2>2. CASE ~l.active
    BY <1>0, <1>2, <2>2 DEF Held
  <2> QED BY <2>1, <2>2
<1>4. ys[k] = xs[k] \/ asking(l)
  BY <1>2 DEF Guarded, AskingOK
<1>5. Guarded(b, n, r, l1, ys, s, t)
  <2>1. l1.pc \in {l.pc, "over"} /\ (l1.active => l.active) /\ (l.aborted => l1.aborted)
    BY <1>1
  <2> QED BY <1>1, <1>2, <1>3, <1>4, <2>1, GivenUp
<1> QED BY <1>1, <1>2, <1>5 DEF Moved

-----------------------------------------------------------------------------
(* The page.                                                               *)

LEMMA PageEnds ==
    ASSUME NEW t \in TabState, NEW result \in {None, "signed", "failed", "overlapping", "left"}
    PROVE  /\ closed(t, result) \in TabState /\ closed(t, result).pc = "over"
           /\ closed(t, result).challenge = t.challenge /\ closed(t, result).phase = t.phase
           /\ closed(t, result).answer = t.answer /\ closed(t, result).result = result
           /\ thrown(t, result) \in TabState
           /\ thrown(t, result).challenge = t.challenge /\ thrown(t, result).phase = t.phase
           /\ thrown(t, result).answer = t.answer /\ thrown(t, result).result = result
<1>1. /\ closed(t, result) \in TabState /\ closed(t, result).pc = "over"
      /\ closed(t, result).challenge = t.challenge /\ closed(t, result).phase = t.phase
      /\ closed(t, result).answer = t.answer /\ closed(t, result).result = result
  BY DEF closed, TabState
<1>2. CASE t.phase = "submitting"
  <2>1. thrown(t, result) = [t EXCEPT !.pc = "closing", !.result = result]
    BY <1>2 DEF thrown
  <2>2. /\ thrown(t, result) \in TabState
        /\ thrown(t, result).challenge = t.challenge /\ thrown(t, result).phase = t.phase
        /\ thrown(t, result).answer = t.answer /\ thrown(t, result).result = result
    BY <2>1 DEF TabState
  <2> QED BY <1>1, <2>2
<1>3. CASE t.phase # "submitting"
  <2>1. thrown(t, result) = closed(t, result)
    BY <1>3 DEF thrown
  <2> QED BY <1>1, <2>1
<1> QED BY <1>2, <1>3

\* A page that goes on or ends with the challenge it has.
LEMMA PageGoes ==
    ASSUME NEW b, NEW n, NEW r, NEW l, NEW s, NEW t, NEW xs, NEW t1,
           Guarded(b, n, r, l, xs, s, t),
           t1.challenge = t.challenge, t1.phase # "none" => t.phase # "none",
           t1.phase \in {"submitting", "accepted", "refused"} => t1.answer \in Answer,
           t1.result = "overlapping" => xs[1].acked # None
    PROVE  Guarded(b, n, r, l, xs, s, t1)
  BY DEF Guarded, PageOK, TabOK

\* It reads that it is signed in, or that the login failed.
LEMMA OutcomeRead ==
    ASSUME NEW b, NEW n \in Nat, NEW r, NEW l, NEW s, NEW t, NEW xs,
           Typed(b, n, l, xs, s, t), Guarded(b, n, r, l, xs, s, t), s # <<>>,
           NEW result \in {"signed", "failed"}, NEW t1, t1 = thrown(t, result)
    PROVE  t1 \in TabState /\ Tail(s) \in Seq(Event) /\ Guarded(b, n, r, l, xs, Tail(s), t1)
<1>1. t \in TabState /\ s \in Seq(Event)
  BY DEF Typed
<1>2. Tail(s) \in Seq(Event) /\ Guarded(b, n, r, l, xs, Tail(s), t)
  BY <1>1, ReadPage DEF Guarded
<1>3. /\ t1 \in TabState /\ t1.challenge = t.challenge /\ t1.phase = t.phase
      /\ t1.answer = t.answer /\ t1.result = result
  BY <1>1, PageEnds
<1>4. t1.phase \in {"submitting", "accepted", "refused"} => t1.answer \in Answer
  BY <1>3 DEF Guarded, PageOK, TabOK
<1> QED BY <1>2, <1>3, <1>4, PageGoes

\* It reads a challenge, while it still shows one or not.
LEMMA ChallengeRead ==
    ASSUME NEW b, NEW n \in Nat, NEW r \in Guardian, NEW l, NEW s, NEW t, NEW xs,
           Typed(b, n, l, xs, s, t), Guarded(b, n, r, l, xs, s, t), s # <<>>,
           Head(s).type = "captcha",
           NEW t1, t1 = IF t.challenge # None THEN thrown(t, "overlapping")
                        ELSE [t EXCEPT !.challenge = Head(s).challenge, !.phase = "asking"]
    PROVE  t1 \in TabState /\ Tail(s) \in Seq(Event) /\ Guarded(b, n, r, l, xs, Tail(s), t1)
<1> DEFINE c == Head(s).challenge
<1>1. t \in TabState /\ s \in Seq(Event) /\ l \in LoginState
  BY DEF Typed
<1>2. /\ Tail(s) \in Seq(Event) /\ Guarded(b, n, r, l, xs, Tail(s), t)
      /\ Head(s) \in Event /\ asked(r, c, xs)
      /\ t.challenge # None => t.challenge[2] < c[2]
      /\ \A i \in 1..Len(Tail(s)) : asks(Tail(s), i) => c[2] < Tail(s)[i].challenge[2]
  BY <1>1, ReadPage DEF Guarded
<1>3. c \in Challenge \cup {None}
  BY <1>2 DEF Event
<1> HIDE DEF c
<1>4. CASE t.challenge # None
  <2>1. /\ t1 \in TabState /\ t1.challenge = t.challenge /\ t1.phase = t.phase
        /\ t1.answer = t.answer /\ t1.result = "overlapping"
    BY <1>1, <1>4, PageEnds
  <2>2. t1.phase \in {"submitting", "accepted", "refused"} => t1.answer \in Answer
    BY <2>1 DEF Guarded, PageOK, TabOK
  <2>3. xs[1].acked # None
    <3>1. PICK j \in 1..2 : t.challenge = <<r, j>> /\ xs[j].wait # "none"
      BY <1>4 DEF Guarded, PageOK, TabOK, asked
    <3>2. PICK k \in 1..2 : c = <<r, k>> /\ xs[k].wait # "none"
      BY <1>2 DEF asked
    <3>3. j < k
      BY <1>2, <1>4, <3>1, <3>2
    <3>4. j = 1 /\ k = 2
      BY <3>3
    <3>5. ~unopened(l, 2)
      BY <3>2, <3>4, Opened DEF Guarded
    <3>6. l.attempt = 2
      BY <1>1, <3>5 DEF unopened, LoginState
    <3> QED BY <3>1, <3>4, <3>6 DEF Guarded, AskingOK
  <2> QED BY <1>2, <2>1, <2>2, <2>3, PageGoes
<1>5. CASE t.challenge = None
  <2>1. t1 = [t EXCEPT !.challenge = c, !.phase = "asking"]
    BY <1>5 DEF c
  <2>2. /\ t1 \in TabState /\ t1.challenge = c /\ t1.phase = "asking"
        /\ t1.answer = t.answer /\ t1.result = t.result
    BY <1>1, <1>3, <2>1 DEF TabState
  <2>3. TabOK(r, Tail(s), t1, xs)
    <3>1. t1.challenge # None => asked(r, t1.challenge, xs)
      BY <1>2, <2>2
    <3>2. t1.phase # "none" => t1.challenge # None
      <4>1. c # None
        <5>1. PICK k \in 1..2 : c = <<r, k>> /\ xs[k].wait # "none"
          BY <1>2 DEF asked
        <5> QED BY <5>1, NoneAssumption DEF Challenge
      <4> QED BY <2>2, <4>1
    <3>3. t1.result = "overlapping" => xs[1].acked # None
      BY <2>2 DEF Guarded, PageOK, TabOK
    <3> QED BY <1>2, <2>2, <3>1, <3>2, <3>3 DEF TabOK
  <2> QED BY <1>2, <2>2, <2>3 DEF Guarded, PageOK
<1> QED BY <1>4, <1>5

LEMMA AnswerTyped ==
    ASSUME NEW b, NEW n, NEW r, NEW l, NEW s, NEW t \in TabState, NEW xs, NEW a \in Answer,
           Guarded(b, n, r, l, xs, s, t), t.phase = "asking",
           NEW t1, t1 = [t EXCEPT !.phase = "submitting", !.answer = a]
    PROVE  t1 \in TabState /\ Guarded(b, n, r, l, xs, s, t1)
<1>1. /\ t1 \in TabState /\ t1.challenge = t.challenge /\ t1.phase = "submitting"
      /\ t1.answer = a /\ t1.result = t.result
  BY DEF TabState
<1>2. t1.result = "overlapping" => xs[1].acked # None
  BY <1>1 DEF Guarded, PageOK, TabOK
<1>3. /\ t1.challenge = t.challenge /\ (t1.phase # "none" => t.phase # "none")
      /\ t1.phase \in {"submitting", "accepted", "refused"} => t1.answer \in Answer
  BY <1>1
<1> QED BY <1>1, <1>2, <1>3, PageGoes

heard(t) ==
    IF t.pc = "closing" THEN closed(t, t.result)
    ELSE IF t.phase = "refused" THEN closed(t, "failed")
    ELSE [t EXCEPT !.challenge = None, !.phase = "none", !.answer = None]

LEMMA AnswerHeard ==
    ASSUME NEW b, NEW n, NEW r, NEW l, NEW s, NEW t \in TabState, NEW xs,
           Guarded(b, n, r, l, xs, s, t)
    PROVE  heard(t) \in TabState /\ Guarded(b, n, r, l, xs, s, heard(t))
<1>0. t.result = "overlapping" => xs[1].acked # None
  BY DEF Guarded, PageOK, TabOK
<1>1. CASE t.pc = "closing" \/ t.phase = "refused"
  <2>1. \E result \in {None, "signed", "failed", "overlapping", "left"} :
            /\ heard(t) = closed(t, result)
            /\ result \in {"failed", t.result}
    BY <1>1 DEF TabState, heard
  <2>2. PICK result \in {None, "signed", "failed", "overlapping", "left"} :
            /\ heard(t) = closed(t, result)
            /\ result \in {"failed", t.result}
    BY <2>1
  <2>3. /\ closed(t, result) \in TabState
        /\ closed(t, result).challenge = t.challenge /\ closed(t, result).phase = t.phase
        /\ closed(t, result).answer = t.answer /\ closed(t, result).result = result
    BY PageEnds
  <2>4. /\ heard(t) \in TabState
        /\ heard(t).challenge = t.challenge /\ heard(t).phase = t.phase
        /\ heard(t).answer = t.answer /\ heard(t).result = result
    BY <2>2, <2>3
  <2>5. heard(t).phase \in {"submitting", "accepted", "refused"} => heard(t).answer \in Answer
    BY <2>4 DEF Guarded, PageOK, TabOK
  <2>6. heard(t).result = "overlapping" => xs[1].acked # None
    BY <1>0, <2>2, <2>4
  <2> QED BY <2>4, <2>5, <2>6, PageGoes
<1>2. CASE ~(t.pc = "closing" \/ t.phase = "refused")
  <2>1. heard(t) = [t EXCEPT !.challenge = None, !.phase = "none", !.answer = None]
    BY <1>2 DEF heard
  <2>2. /\ heard(t) \in TabState /\ heard(t).challenge = None /\ heard(t).phase = "none"
        /\ heard(t).answer = None /\ heard(t).result = t.result
    BY <2>1 DEF TabState
  <2> QED BY <1>0, <2>2 DEF Guarded, PageOK, TabOK
<1> QED BY <1>1, <1>2

LEMMA PageLeft ==
    ASSUME NEW b, NEW n, NEW r, NEW l, NEW s, NEW t \in TabState, NEW xs,
           Guarded(b, n, r, l, xs, s, t), NEW t1, t1 = closed(t, "left")
    PROVE  t1 \in TabState /\ Guarded(b, n, r, l, xs, s, t1)
<1>1. /\ t1 \in TabState /\ t1.challenge = t.challenge /\ t1.phase = t.phase
      /\ t1.answer = t.answer /\ t1.result = "left"
  BY PageEnds
<1>2. t1.phase \in {"submitting", "accepted", "refused"} => t1.answer \in Answer
  BY <1>1 DEF Guarded, PageOK, TabOK
<1> QED BY <1>1, <1>2, PageGoes

\* The answer comes to the coordinator, and its outcome to the page or not.
answering(t, c) == t.phase = "submitting" /\ t.challenge = c
solved(b, x, skewed, t) ==
    IF canAnswer(b, x, skewed) THEN answered(b, x, t.answer) ELSE x
outcome(t, phase) == [t EXCEPT !.phase = phase]

LEMMA AnswerSolved ==
    ASSUME NEW b, NEW n \in Nat, NEW n1 \in {n, n + 1}, NEW r \in Guardian, NEW l, NEW s, NEW t,
           NEW xs, NEW ys, NEW k, Typed(b, n, l, xs, s, t), Guarded(b, n, r, l, xs, s, t),
           answering(t, <<r, k>>), Move(xs, ys, k),
           NEW skewed,
           ys[k] = solved(b, xs[k], skewed, t),
           NEW phase \in {"accepted", "refused"}, NEW t1, t1 = outcome(t, phase)
    PROVE  t1 \in TabState /\ Guarded(b, n1, r, l, ys, s, t1) /\ Follows(xs[k], ys[k])
<1>0. /\ b \in Coordinator /\ k \in 1..2 /\ xs[k] \in Relay /\ RelayOK(b, xs[k])
      /\ t \in TabState /\ Typed(b, n, l, xs, s, t)
  <2>1. b \in Coordinator /\ k \in 1..2 /\ xs[k] \in Relay /\ t \in TabState
    BY DEF Typed, Move
  <2> QED BY <2>1 DEF Guarded, RelaysOK
<1>1. t.answer \in Answer /\ asked(r, t.challenge, xs)
  <2>1. t.challenge # None
    BY <1>0, NoneAssumption DEF Challenge, answering
  <2> QED BY <2>1 DEF Guarded, PageOK, TabOK, answering
<1>2. xs[k].wait # "none" /\ ~unopened(l, k)
  <2>1. xs[k].wait # "none"
    BY <1>0, <1>1 DEF asked, answering
  <2> QED BY <1>0, <2>1, Opened DEF Guarded
<1>3. /\ Moved(b, xs[k], ys[k]) /\ Same(xs[k], ys[k]) /\ Keeps(xs[k], ys[k])
      /\ xs[k].wait = "none" <=> ys[k].wait = "none"
  <2>1. CASE canAnswer(b, xs[k], skewed)
    <3>1. xs[k].row = "pending" /\ ys[k] = answered(b, xs[k], t.answer)
      BY <2>1 DEF canAnswer, solved
    <3> QED BY <1>0, <1>1, <3>1, AnsweredRelay
  <2>2. CASE ~canAnswer(b, xs[k], skewed)
    <3>1. ys[k] = xs[k]
      BY <2>2 DEF solved
    <3> QED BY <1>0, <3>1 DEF Moved, Same, Keeps, Follows
  <2> QED BY <2>1, <2>2
<1>4. Guarded(b, n, r, l, ys, s, t)
  BY <1>0, <1>2, <1>3, RelayKeeps
<1>5. Guarded(b, n1, r, l, ys, s, t)
  BY <1>4, OnlyFaults
<1>6. /\ t1 \in TabState /\ t1.challenge = t.challenge /\ t1.phase = phase
      /\ t1.answer = t.answer /\ t1.result = t.result
  BY <1>0 DEF TabState, outcome
<1>7. t1.result = "overlapping" => ys[1].acked # None
  BY <1>5, <1>6 DEF Guarded, PageOK, TabOK
<1>8. Guarded(b, n1, r, l, ys, s, t1)
  BY <1>1, <1>5, <1>6, <1>7, PageGoes DEF answering
<1> QED BY <1>3, <1>6, <1>8 DEF Moved
-----------------------------------------------------------------------------
(* A step of one login, in the state of all of them.                       *)

State ==
    /\ scenario \in Scenario
    /\ login \in [Login -> LoginState]
    /\ relay \in [Challenge -> Relay]
    /\ stream \in [Login -> Seq(Event)]
    /\ tab \in [Login -> TabState]
    /\ faults \in 0..scenario.faults

\* Only the login r moves, and it begins only where it may.
Alone(r) ==
    /\ login' \in [Login -> LoginState] /\ stream' \in [Login -> Seq(Event)]
    /\ tab' \in [Login -> TabState]
    /\ \A q \in Login : q # r =>
          login'[q] = login[q] /\ stream'[q] = stream[q] /\ tab'[q] = tab[q]
    /\ ~ended(login'[r]) =>
          ~ended(login[r]) \/ scenario.overlap \/ \A q \in Login : ended(login[q])

Bounded ==
    /\ scenario' = scenario
    /\ faults' \in {faults, faults + 1} /\ faults' <= scenario.faults

GuardianStep(r) ==
    /\ Alone(r) /\ Bounded
    /\ relay' \in [Challenge -> Relay]
    /\ \E k \in 1..2 :
          /\ \A c \in Challenge : c # <<r, k>> => relay'[c] = relay[c]
          /\ Follows(relay[<<r, k>>], relay'[<<r, k>>])
    /\ Guarded(coordinator, faults', r, login'[r], relays(r)', stream'[r], tab'[r])

StudentStep(r) ==
    /\ Alone(r) /\ Bounded
    /\ relay' = relay
    /\ Plain(login'[r], stream'[r], tab'[r])

LEMMA GuardianTyped ==
    ASSUME State, NEW r \in Guardian
    PROVE  /\ Typed(coordinator, faults, login[r], relays(r), stream[r], tab[r])
           /\ r \in Login /\ faults \in Nat
           /\ \A k \in 1..2 : <<r, k>> \in Challenge /\ relays(r)[k] = relay[<<r, k>>]
<1>1. scenario.coordinator \in Coordinator /\ scenario.faults \in Nat
  BY SignInAssumption DEF State
<1>2. r \in Login
  BY DEF Login
<1>3. \A k \in 1..2 : <<r, k>> \in Challenge
  BY DEF Challenge
<1>4. relays(r) \in [1..2 -> Relay] /\ \A k \in 1..2 : relays(r)[k] = relay[<<r, k>>]
  BY <1>3 DEF State, relays
<1>5. faults \in Nat
  BY <1>1 DEF State
<1> QED BY <1>1, <1>2, <1>3, <1>4, <1>5 DEF State, Typed, coordinator

\* The relays of another login are others.
LEMMA OtherRelays ==
    ASSUME NEW r \in Guardian, NEW q \in Guardian, q # r, NEW k \in 1..2,
           \A c \in Challenge : c # <<r, k>> => relay'[c] = relay[c]
    PROVE  relays(q)' = relays(q)
<1>1. \A j \in 1..2 : relay'[<<q, j>>] = relay[<<q, j>>]
  BY DEF Challenge
<1> QED BY <1>1 DEF relays

LEMMA GuardianStepKeeps ==
    ASSUME State, LoginsOK, NEW r \in Guardian, GuardianStep(r)
    PROVE  State' /\ LoginsOK'
<1>0. PICK k \in 1..2 :
          /\ \A c \in Challenge : c # <<r, k>> => relay'[c] = relay[c]
          /\ Follows(relay[<<r, k>>], relay'[<<r, k>>])
  BY DEF GuardianStep
<1>1. scenario' = scenario /\ coordinator' = coordinator /\ faults' \in {faults, faults + 1}
  BY DEF GuardianStep, Bounded, coordinator
<1>2. faults' \in 0..scenario'.faults
  BY SignInAssumption DEF GuardianStep, Bounded, State
<1>3. State'
  BY <1>1, <1>2 DEF State, GuardianStep, Alone
<1>4. ASSUME NEW q \in Guardian PROVE GuardianOK(q)'
  <2>1. CASE q = r
    BY <1>1, <2>1 DEF GuardianStep, GuardianOK
  <2>2. CASE q # r
    <3>1. login'[q] = login[q] /\ stream'[q] = stream[q] /\ tab'[q] = tab[q]
      BY <2>2 DEF GuardianStep, Alone, Login
    <3>2. relays(q)' = relays(q)
      BY <1>0, <2>2, OtherRelays
    <3>3. faults \in Nat
      BY GuardianTyped
    <3>4. Guarded(coordinator, faults', q, login[q], relays(q), stream[q], tab[q])
      BY <1>1, <3>3, OnlyFaults DEF LoginsOK, GuardianOK
    <3> QED BY <1>1, <3>1, <3>2, <3>4 DEF GuardianOK
  <2> QED BY <2>1, <2>2
<1>5. ASSUME NEW q \in Student PROVE StudentOK(q)'
  <2>1. q # r /\ q \in Login
    BY SignInAssumption DEF Login
  <2>2. login'[q] = login[q] /\ stream'[q] = stream[q] /\ tab'[q] = tab[q]
    BY <2>1 DEF GuardianStep, Alone
  <2> QED BY <2>2 DEF LoginsOK, StudentOK
<1> QED BY <1>3, <1>4, <1>5 DEF LoginsOK

\* What the relays do not see: no relay moves, and no guardian but for faults.
LEMMA StudentStepKeeps ==
    ASSUME State, LoginsOK, NEW r \in Student, StudentStep(r)
    PROVE  State' /\ LoginsOK'
<1>1. scenario' = scenario /\ coordinator' = coordinator /\ faults' \in {faults, faults + 1}
  BY DEF StudentStep, Bounded, coordinator
<1>2. faults' \in 0..scenario'.faults
  BY SignInAssumption DEF StudentStep, Bounded, State
<1>3. State'
  BY <1>1, <1>2 DEF State, StudentStep, Alone
<1>4. ASSUME NEW q \in Guardian PROVE GuardianOK(q)'
  <2>1. q # r /\ q \in Login
    BY SignInAssumption DEF Login
  <2>2. login'[q] = login[q] /\ stream'[q] = stream[q] /\ tab'[q] = tab[q]
    BY <2>1 DEF StudentStep, Alone
  <2>3. relays(q)' = relays(q)
    BY DEF StudentStep, relays
  <2>4. faults \in Nat
    BY GuardianTyped
  <2>5. Guarded(coordinator, faults', q, login[q], relays(q), stream[q], tab[q])
    BY <1>1, <2>4, OnlyFaults DEF LoginsOK, GuardianOK
  <2> QED BY <1>1, <2>2, <2>3, <2>5 DEF GuardianOK
<1>5. ASSUME NEW q \in Student PROVE StudentOK(q)'
  <2>1. CASE q = r
    BY <2>1 DEF StudentStep, StudentOK
  <2>2. CASE q # r
    <3>1. login'[q] = login[q] /\ stream'[q] = stream[q] /\ tab'[q] = tab[q]
      BY <2>2 DEF StudentStep, Alone, Login
    <3> QED BY <3>1 DEF LoginsOK, StudentOK
  <2> QED BY <2>1, <2>2
<1> QED BY <1>3, <1>4, <1>5 DEF LoginsOK

LEMMA LoneLogin ==
    ASSUME State, NEW r \in Login, NEW l1 \in LoginState, NEW s1 \in Seq(Event),
           NEW t1 \in TabState, login' = [login EXCEPT ![r] = l1],
           stream' = [stream EXCEPT ![r] = s1], tab' = [tab EXCEPT ![r] = t1],
           ~ended(l1) => ~ended(login[r]) \/ scenario.overlap \/ \A q \in Login : ended(login[q])
    PROVE  Alone(r) /\ login'[r] = l1 /\ stream'[r] = s1 /\ tab'[r] = t1
<1>1. login' \in [Login -> LoginState] /\ stream' \in [Login -> Seq(Event)]
      /\ tab' \in [Login -> TabState]
  BY DEF State
<1>2. login'[r] = l1 /\ stream'[r] = s1 /\ tab'[r] = t1
  BY DEF State
<1>3. \A q \in Login : q # r =>
         login'[q] = login[q] /\ stream'[q] = stream[q] /\ tab'[q] = tab[q]
  BY DEF State
<1> QED BY <1>1, <1>2, <1>3 DEF Alone

\* What is left alone is set to what it is.
LEMMA Unmoved ==
    ASSUME State, NEW r \in Login
    PROVE  /\ login = [login EXCEPT ![r] = login[r]]
           /\ stream = [stream EXCEPT ![r] = stream[r]]
           /\ tab = [tab EXCEPT ![r] = tab[r]]
           /\ login[r] \in LoginState /\ stream[r] \in Seq(Event) /\ tab[r] \in TabState
<1>1. login = [login EXCEPT ![r] = login[r]] /\ login[r] \in LoginState
  BY DEF State
<1>2. stream = [stream EXCEPT ![r] = stream[r]] /\ stream[r] \in Seq(Event)
  BY DEF State
<1>3. tab = [tab EXCEPT ![r] = tab[r]] /\ tab[r] \in TabState
  BY DEF State
<1> QED BY <1>1, <1>2, <1>3

LEMMA LoneRelay ==
    ASSUME State, NEW r \in Guardian, NEW k \in 1..2, NEW y \in Relay,
           relay' = [relay EXCEPT ![<<r, k>>] = y]
    PROVE  /\ relay' \in [Challenge -> Relay] /\ relay'[<<r, k>>] = y
           /\ \A c \in Challenge : c # <<r, k>> => relay'[c] = relay[c]
           /\ Move(relays(r), relays(r)', k) /\ relays(r)'[k] = y
<1>1. <<r, k>> \in Challenge
  BY GuardianTyped
<1>2. relay' \in [Challenge -> Relay] /\ relay'[<<r, k>>] = y
      /\ \A c \in Challenge : c # <<r, k>> => relay'[c] = relay[c]
  BY <1>1 DEF State
<1>3. \A j \in 1..2 : <<r, j>> \in Challenge /\ (j # k => <<r, j>> # <<r, k>>)
  BY GuardianTyped
<1>4. \A j \in 1..2 : relays(r)[j] = relay[<<r, j>>] /\ relays(r)'[j] = relay'[<<r, j>>]
  BY DEF relays
<1>5. relays(r)' \in [1..2 -> Relay]
  BY <1>2, <1>3 DEF relays
<1> QED BY <1>2, <1>3, <1>4, <1>5 DEF Move

LEMMA GuardianStays ==
    ASSUME State, NEW r \in Guardian, NEW l1 \in LoginState, NEW s1 \in Seq(Event),
           NEW t1 \in TabState, login' = [login EXCEPT ![r] = l1],
           stream' = [stream EXCEPT ![r] = s1], tab' = [tab EXCEPT ![r] = t1],
           ~ended(l1) => ~ended(login[r]) \/ scenario.overlap \/ \A q \in Login : ended(login[q]),
           relay' = relay, Bounded,
           Guarded(coordinator, faults', r, l1, relays(r), s1, t1)
    PROVE  GuardianStep(r)
<1>1. r \in Login
  BY GuardianTyped
<1>2. Alone(r) /\ login'[r] = l1 /\ stream'[r] = s1 /\ tab'[r] = t1
  BY <1>1, LoneLogin
<1>3. relays(r)' = relays(r)
  BY DEF relays
<1>4. relay' \in [Challenge -> Relay] /\ Follows(relay[<<r, 1>>], relay'[<<r, 1>>])
  BY DEF State, Follows
<1> QED BY <1>2, <1>3, <1>4 DEF GuardianStep

LEMMA GuardianMoves ==
    ASSUME State, NEW r \in Guardian, NEW l1 \in LoginState, NEW s1 \in Seq(Event),
           NEW t1 \in TabState, login' = [login EXCEPT ![r] = l1],
           stream' = [stream EXCEPT ![r] = s1], tab' = [tab EXCEPT ![r] = t1],
           ~ended(l1) => ~ended(login[r]) \/ scenario.overlap \/ \A q \in Login : ended(login[q]),
           NEW k \in 1..2, NEW y \in Relay, relay' = [relay EXCEPT ![<<r, k>>] = y],
           Follows(relays(r)[k], y), Bounded,
           Guarded(coordinator, faults', r, l1, relays(r)', s1, t1)
    PROVE  GuardianStep(r)
<1>1. r \in Login /\ relays(r)[k] = relay[<<r, k>>]
  BY GuardianTyped
<1>2. Alone(r) /\ login'[r] = l1 /\ stream'[r] = s1 /\ tab'[r] = t1
  BY <1>1, LoneLogin
<1>3. /\ relay' \in [Challenge -> Relay] /\ relay'[<<r, k>>] = y
      /\ \A c \in Challenge : c # <<r, k>> => relay'[c] = relay[c]
  <2>1. <<r, k>> \in Challenge
    BY GuardianTyped
  <2> QED BY <2>1 DEF State
<1> QED BY <1>1, <1>2, <1>3 DEF GuardianStep

\* The page is told that the login is done or failed, unless it left.
LEMMA Told ==
    ASSUME State, NEW r \in Guardian, NEW type \in {"done", "error"},
           stream' = sent(r, type, None)
    PROVE  \E s1 \in Seq(Event) :
              /\ stream' = [stream EXCEPT ![r] = s1]
              /\ \A b, n, l, t, xs : Guarded(b, n, r, l, xs, stream[r], t)
                                     => Guarded(b, n, r, l, xs, s1, t)
<1> DEFINE e == [type |-> type, challenge |-> None]
<1>0. r \in Login
  BY GuardianTyped
<1>1. stream[r] \in Seq(Event) /\ stream = [stream EXCEPT ![r] = stream[r]]
  BY <1>0, Unmoved
<1>2. e \in Event /\ e.type # "captcha"
  BY DEF Event
<1>3. CASE login[r].cancelled
  <2>1. stream' = [stream EXCEPT ![r] = stream[r]]
    BY <1>1, <1>3 DEF sent
  <2> QED BY <1>1, <2>1
<1>4. CASE ~login[r].cancelled
  <2>1. stream' = [stream EXCEPT ![r] = Append(stream[r], e)]
    BY <1>0, <1>4 DEF sent, State
  <2> HIDE DEF e
  <2>2. /\ Append(stream[r], e) \in Seq(Event)
        /\ \A b, n, l, t, xs : Guarded(b, n, r, l, xs, stream[r], t)
                               => Guarded(b, n, r, l, xs, Append(stream[r], e), t)
    <3>1. Append(stream[r], e) \in Seq(Event)
      BY <1>1, <1>2
    <3>2. ASSUME NEW b, NEW n, NEW l, NEW t, NEW xs, Guarded(b, n, r, l, xs, stream[r], t)
          PROVE  Guarded(b, n, r, l, xs, Append(stream[r], e), t)
      BY <1>1, <1>2, <3>2, SentPage DEF Guarded
    <3> QED BY <3>1, <3>2
  <2> QED BY <2>1, <2>2
<1> QED BY <1>3, <1>4

\* The steps of a guardian's login that leave its relays alone.
LEMMA DoStart ==
    ASSUME State, NEW r \in Guardian, GuardianOK(r), StartSignIn(r)
    PROVE  GuardianStep(r) /\ UNCHANGED <<kind, browserVars>>
<1> DEFINE l1 == [login[r] EXCEPT !.pc = "challenge", !.attempt = 1]
           t1 == [tab[r] EXCEPT !.pc = "reading"]
<1>1. /\ Typed(coordinator, faults, login[r], relays(r), stream[r], tab[r])
      /\ r \in Login /\ faults \in Nat
  BY GuardianTyped
<1>2. l1 \in LoginState /\ t1 \in TabState
      /\ Guarded(coordinator, faults, r, l1, relays(r), stream[r], t1)
  <2>1. login[r].pc = "idle"
    BY DEF StartSignIn
  <2> QED BY <1>1, <2>1, GuardianStarts DEF GuardianOK
<1>3. /\ login' = [login EXCEPT ![r] = l1] /\ tab' = [tab EXCEPT ![r] = t1]
      /\ relay' = relay /\ UNCHANGED <<kind, browserVars>> /\ stream' = stream
      /\ faults' = faults /\ scenario' = scenario
  <2>1. r \notin Student
    BY SignInAssumption
  <2>2. login' = [login EXCEPT ![r].pc = "challenge", ![r].attempt = 1]
    BY DEF StartSignIn
  <2>3. login' = [login EXCEPT ![r] = l1]
    BY <1>1, <2>2 DEF State, LoginState
  <2> QED BY <2>3 DEF StartSignIn
<1>4. scenario.overlap \/ \A q \in Login : ended(login[q])
  BY DEF StartSignIn, ended
<1>5. Bounded
  BY <1>1, <1>3, SignInAssumption DEF Bounded, State
<1>6. stream' = [stream EXCEPT ![r] = stream[r]] /\ stream[r] \in Seq(Event)
  BY <1>1, <1>3, Unmoved
<1> HIDE DEF l1, t1
<1> QED BY <1>2, <1>3, <1>4, <1>5, <1>6, GuardianStays

\* A step of the request alone.
LEMMA RequestStep ==
    ASSUME State, NEW r \in Guardian, NEW l1 \in LoginState, NEW s1 \in Seq(Event),
           login' = [login EXCEPT ![r] = l1], stream' = [stream EXCEPT ![r] = s1],
           tab' = tab, relay' = relay, Bounded, ~ended(l1) => ~ended(login[r]),
           Guarded(coordinator, faults', r, l1, relays(r), s1, tab[r])
    PROVE  GuardianStep(r)
<1>1. r \in Login
  BY GuardianTyped
<1>2. tab' = [tab EXCEPT ![r] = tab[r]] /\ tab[r] \in TabState
  BY <1>1, Unmoved
<1> QED BY <1>2, GuardianStays

LEMMA NoFault ==
    ASSUME State, faults' = faults, scenario' = scenario
    PROVE  Bounded
  BY SignInAssumption DEF Bounded, State

LEMMA OneFault ==
    ASSUME State, fault, scenario' = scenario
    PROVE  Bounded
<1>1. scenario.faults \in Nat /\ faults \in Nat
  BY SignInAssumption DEF State
<1> QED BY <1>1 DEF Bounded, fault

LEMMA DoChallenge ==
    ASSUME State, NEW r \in Guardian, GuardianOK(r), GetChallenge(r)
    PROVE  GuardianStep(r)
<1>1. /\ Typed(coordinator, faults, login[r], relays(r), stream[r], tab[r])
      /\ r \in Login /\ faults \in Nat
  BY GuardianTyped
<1>2. /\ login[r].pc = "challenge" /\ stream' = stream /\ tab' = tab /\ relay' = relay
      /\ faults' = faults /\ scenario' = scenario
  BY DEF GetChallenge
<1>3. \E l1 : /\ login' = [login EXCEPT ![r] = l1]
              /\ \/ l1 = [login[r] EXCEPT !.pc = "ocr"]
                 \/ l1 = [login[r] EXCEPT !.pc = "human", !.ask = "preparing"]
  <2>1. \/ login' = [login EXCEPT ![r].pc = "ocr"]
        \/ login' = [login EXCEPT ![r].pc = "human", ![r].ask = "preparing"]
    BY DEF GetChallenge
  <2> QED BY <2>1, <1>1 DEF State
<1>4. PICK l1 : /\ login' = [login EXCEPT ![r] = l1]
                /\ \/ l1 = [login[r] EXCEPT !.pc = "ocr"]
                   \/ l1 = [login[r] EXCEPT !.pc = "human", !.ask = "preparing"]
  BY <1>3
<1>5. l1 \in LoginState /\ Guarded(coordinator, faults, r, l1, relays(r), stream[r], tab[r])
  BY <1>1, <1>2, <1>4, GuardianChallenged DEF GuardianOK
<1>6. ~ended(login[r])
  BY <1>2 DEF ended
<1>7. stream' = [stream EXCEPT ![r] = stream[r]] /\ stream[r] \in Seq(Event) /\ Bounded
  BY <1>1, <1>2, Unmoved, NoFault
<1> QED BY <1>2, <1>4, <1>5, <1>6, <1>7, RequestStep

LEMMA DoRecognise ==
    ASSUME State, NEW r \in Guardian, GuardianOK(r), Recognise(r)
    PROVE  GuardianStep(r)
<1>1. /\ Typed(coordinator, faults, login[r], relays(r), stream[r], tab[r])
      /\ r \in Login /\ faults \in Nat
  BY GuardianTyped
<1>2. /\ login[r].pc = "ocr" /\ stream' = stream /\ tab' = tab /\ relay' = relay
      /\ faults' = faults /\ scenario' = scenario
  BY DEF Recognise
<1>3. \E l1 : /\ login' = [login EXCEPT ![r] = l1]
              /\ \/ l1 = answeredBy(login[r], "ocr")
                 \/ l1 = [login[r] EXCEPT !.pc = "human", !.ask = "preparing"]
  <2>1. \/ login' = [login EXCEPT ![r] = answeredBy(login[r], "ocr")]
        \/ login' = [login EXCEPT ![r].pc = "human", ![r].ask = "preparing"]
    BY <1>1 DEF Recognise, State
  <2> QED BY <2>1, <1>1 DEF State
<1>4. PICK l1 : /\ login' = [login EXCEPT ![r] = l1]
                /\ \/ l1 = answeredBy(login[r], "ocr")
                   \/ l1 = [login[r] EXCEPT !.pc = "human", !.ask = "preparing"]
  BY <1>3
<1>5. l1 \in LoginState /\ Guarded(coordinator, faults, r, l1, relays(r), stream[r], tab[r])
  BY <1>1, <1>2, <1>4, GuardianChallenged, GuardianRead DEF GuardianOK
<1>6. ~ended(login[r])
  BY <1>2 DEF ended
<1>7. stream' = [stream EXCEPT ![r] = stream[r]] /\ stream[r] \in Seq(Event) /\ Bounded
  BY <1>1, <1>2, Unmoved, NoFault
<1> QED BY <1>2, <1>4, <1>5, <1>6, <1>7, RequestStep

LEMMA LoginEnds ==
    ASSUME State, NEW r \in Guardian, GuardianOK(r),
           login[r].pc \in {"authenticating", "finishing"},
           NEW result \in {"session", "error", "cancelled"}, NEW type \in {"done", "error"},
           login' = [login EXCEPT ![r] = endedWith(login[r], result)],
           stream' = sent(r, type, None), tab' = tab, relay' = relay,
           faults' = faults, scenario' = scenario
    PROVE  GuardianStep(r)
<1>1. /\ Typed(coordinator, faults, login[r], relays(r), stream[r], tab[r])
      /\ r \in Login /\ faults \in Nat
  BY GuardianTyped
<1>2. PICK l1 : l1 = endedWith(login[r], result)
  OBVIOUS
<1>3. l1 \in LoginState /\ Guarded(coordinator, faults, r, l1, relays(r), stream[r], tab[r])
  BY <1>1, <1>2, GuardianEnds DEF GuardianOK
<1>4. PICK s1 \in Seq(Event) :
          /\ stream' = [stream EXCEPT ![r] = s1]
          /\ Guarded(coordinator, faults, r, l1, relays(r), s1, tab[r])
  BY <1>3, Told
<1>5. ~ended(login[r]) /\ Bounded /\ login' = [login EXCEPT ![r] = l1]
  BY <1>2, NoFault DEF ended
<1> QED BY <1>3, <1>4, <1>5, RequestStep

LEMMA DoAuthenticate ==
    ASSUME State, NEW r \in Guardian, GuardianOK(r), Authenticate(r)
    PROVE  GuardianStep(r)
<1>1. /\ Typed(coordinator, faults, login[r], relays(r), stream[r], tab[r])
      /\ r \in Login /\ faults \in Nat
  BY GuardianTyped
<1>2. /\ login[r].pc = "authenticating" /\ tab' = tab /\ relay' = relay
      /\ faults' = faults /\ scenario' = scenario
  BY DEF Authenticate
<1>3. CASE FailLogin(r)
  <2>1. PICK result \in {"session", "error", "cancelled"} :
            login' = [login EXCEPT ![r] = endedWith(login[r], result)]
    BY <1>3 DEF FailLogin, FailLoginAs, endedWith
  <2>2. stream' = sent(r, "error", None)
    BY <1>3 DEF FailLogin, FailLoginAs
  <2> QED BY <1>2, <2>1, <2>2, LoginEnds
<1>4. CASE ~FailLogin(r)
  <2>1. /\ stream' = stream
        /\ \/ login' = [login EXCEPT ![r].pc = "finishing"]
           \/ /\ login[r].attempt = 1
              /\ login' = [login EXCEPT ![r].pc = "challenge", ![r].attempt = 2]
    BY <1>4 DEF Authenticate
  <2>2. \E l1 : /\ login' = [login EXCEPT ![r] = l1]
                /\ \/ l1 = [login[r] EXCEPT !.pc = "finishing"]
                   \/ /\ login[r].attempt = 1
                      /\ l1 = [login[r] EXCEPT !.pc = "challenge", !.attempt = 2]
    BY <1>1, <2>1 DEF State
  <2>3. PICK l1 : /\ login' = [login EXCEPT ![r] = l1]
                  /\ \/ l1 = [login[r] EXCEPT !.pc = "finishing"]
                     \/ /\ login[r].attempt = 1
                        /\ l1 = [login[r] EXCEPT !.pc = "challenge", !.attempt = 2]
    BY <2>2
  <2>4. l1 \in LoginState /\ Guarded(coordinator, faults, r, l1, relays(r), stream[r], tab[r])
    BY <1>1, <1>2, <2>3, GuardianAuthenticated DEF GuardianOK
  <2>5. ~ended(login[r])
    BY <1>2 DEF ended
  <2>6. stream' = [stream EXCEPT ![r] = stream[r]] /\ stream[r] \in Seq(Event) /\ Bounded
    BY <1>1, <1>2, <2>1, Unmoved, NoFault
  <2> QED BY <1>2, <2>3, <2>4, <2>5, <2>6, RequestStep
<1> QED BY <1>3, <1>4

LEMMA DoFinish ==
    ASSUME State, NEW r \in Guardian, GuardianOK(r), Finish(r)
    PROVE  GuardianStep(r)
<1>1. r \in Login
  BY GuardianTyped
<1>2. /\ login[r].pc = "finishing" /\ tab' = tab /\ relay' = relay
      /\ faults' = faults /\ scenario' = scenario
  BY DEF Finish
<1>3. \E result \in {"session", "error", "cancelled"}, type \in {"done", "error"} :
          /\ login' = [login EXCEPT ![r] = endedWith(login[r], result)]
          /\ stream' = sent(r, type, None)
  <2>1. CASE login[r].aborted
    <3>1. FailLogin(r)
      BY <2>1 DEF Finish
    <3> QED BY <3>1 DEF FailLogin, FailLoginAs, endedWith
  <2>2. CASE ~login[r].aborted
    <3>1. login' = [login EXCEPT ![r].pc = "over", ![r].result = "session"]
          /\ stream' = sent(r, "done", None)
      BY <2>2 DEF Finish
    <3>2. login' = [login EXCEPT ![r] = endedWith(login[r], "session")]
      BY <1>1, <3>1 DEF State, endedWith
    <3> QED BY <3>1, <3>2
  <2> QED BY <2>1, <2>2
<1> QED BY <1>2, <1>3, LoginEnds

LEMMA DoAskEnds ==
    ASSUME State, NEW r \in Guardian, GuardianOK(r), AskEnds(r)
    PROVE  GuardianStep(r)
<1>1. /\ Typed(coordinator, faults, login[r], relays(r), stream[r], tab[r])
      /\ r \in Login /\ faults \in Nat
  BY GuardianTyped
<1>2. /\ login[r].ask = "waiting" /\ stream' = stream /\ tab' = tab /\ relay' = relay
      /\ faults' = faults /\ scenario' = scenario
  BY DEF AskEnds
<1>3. relays(r)[login[r].attempt] = relay[challenge(r)]
  <2>1. login[r].attempt \in 1..2
    BY <1>2 DEF GuardianOK, Guarded, AskingOK
  <2> QED BY <2>1, GuardianTyped DEF challenge
<1>5. stream' = [stream EXCEPT ![r] = stream[r]] /\ stream[r] \in Seq(Event) /\ Bounded
  BY <1>1, <1>2, Unmoved, NoFault
<1>4. CASE relay[challenge(r)].got \in Failure
  <2>1. PICK l1 : l1 = [login[r] EXCEPT !.ask = "cancelling"]
    OBVIOUS
  <2>2. login' = [login EXCEPT ![r] = l1]
    BY <1>4, <2>1 DEF AskEnds
  <2>3. l1 \in LoginState /\ Guarded(coordinator, faults, r, l1, relays(r), stream[r], tab[r])
    BY <1>1, <1>2, <1>3, <1>4, <2>1, AskGivenUp DEF GuardianOK
  <2>4. l1.pc = login[r].pc
    BY <1>1, <2>1 DEF Typed, LoginState
  <2> QED BY <1>2, <1>5, <2>2, <2>3, <2>4, RequestStep DEF ended
<1>6. CASE relay[challenge(r)].got \notin Failure
  <2>1. PICK l1 : l1 = answeredAsk(login[r])
    OBVIOUS
  <2>2. login' = [login EXCEPT ![r] = l1] /\ relay[challenge(r)].got # None
    BY <1>6, <2>1 DEF AskEnds, answeredAsk
  <2>3. /\ l1 \in LoginState /\ Guarded(coordinator, faults, r, l1, relays(r), stream[r], tab[r])
        /\ l1.pc = login[r].pc \/ login[r].pc = "human"
    BY <1>1, <1>2, <1>3, <1>6, <2>1, <2>2, AskAnswered DEF GuardianOK
  <2> QED BY <1>2, <1>5, <2>2, <2>3, RequestStep DEF ended
<1> QED BY <1>4, <1>6

LEMMA AskThrowsAs ==
    ASSUME State, NEW r \in Guardian, AskThrows(r)
    PROVE  /\ login' = [login EXCEPT ![r] = thrownAsk(login[r])]
           /\ thrownAsk(login[r]) \in LoginState
           /\ ~ended(thrownAsk(login[r])) => ~ended(login[r])
           /\ \E s1 \in Seq(Event) :
                 /\ stream' = [stream EXCEPT ![r] = s1]
                 /\ \A b, n, l, t, xs : Guarded(b, n, r, l, xs, stream[r], t)
                                        => Guarded(b, n, r, l, xs, s1, t)
<1>1. r \in Login
  BY GuardianTyped
<1>2. /\ login[r] \in LoginState /\ stream[r] \in Seq(Event)
      /\ stream = [stream EXCEPT ![r] = stream[r]]
  BY <1>1, Unmoved
<1>3. /\ thrownAsk(login[r]) \in LoginState
      /\ ~ended(thrownAsk(login[r])) => ~ended(login[r])
  BY <1>2, ThrownAsk DEF ended
<1>4. login' = [login EXCEPT ![r] = thrownAsk(login[r])]
  BY DEF AskThrows, FailLoginAs, thrownAsk
<1>5. stream' = stream \/ stream' = sent(r, "error", None)
  BY DEF AskThrows, FailLoginAs
<1> QED BY <1>2, <1>3, <1>4, <1>5, Told

-----------------------------------------------------------------------------
(* The steps of a guardian's login with its relays.                        *)

LEMMA DoPrepare ==
    ASSUME State, NEW r \in Guardian, GuardianOK(r), PrepareRelay(r)
    PROVE  GuardianStep(r)
<1>1. /\ Typed(coordinator, faults, login[r], relays(r), stream[r], tab[r])
      /\ r \in Login /\ faults \in Nat
      /\ \A k \in 1..2 : <<r, k>> \in Challenge /\ relays(r)[k] = relay[<<r, k>>]
  BY GuardianTyped
<1>2. /\ login[r].ask = "preparing" /\ tab' = tab /\ scenario' = scenario
  BY DEF PrepareRelay
<1>3. Guarded(coordinator, faults, r, login[r], relays(r), stream[r], tab[r])
  BY DEF GuardianOK
<1>4. CASE faults' = faults
  <2>0. PICK k \in 1..2 : k = login[r].attempt
    BY <1>2, <1>3 DEF Guarded, AskingOK
  <2>1. PICK l1 : l1 = preparedAsk(login[r])
    OBVIOUS
  <2>2. /\ relay' = [relay EXCEPT ![<<r, k>>] = prepared(relay[<<r, k>>])]
        /\ login' = [login EXCEPT ![r].ask = "prepared", ![r].active = TRUE]
        /\ stream' = stream
    <3>1. ~fault
      BY <1>1, <1>4 DEF fault
    <3> QED BY <1>1, <2>0, <3>1 DEF PrepareRelay, challenge, State
  <2>3. login' = [login EXCEPT ![r] = l1]
    BY <1>1, <2>1, <2>2 DEF State, LoginState, preparedAsk
  <2>4. relays(r)[k] = NoRelay /\ coordinator \in Coordinator
    BY <1>1, <1>2, <1>3, <2>0 DEF Guarded, AskingOK, unopened, Typed
  <2>5. PICK y : y = prepared(relays(r)[k])
    OBVIOUS
  <2>6. y \in Relay
    BY <2>4, <2>5, PreparedRelay
  <2>7. relay' = [relay EXCEPT ![<<r, k>>] = y]
    BY <1>1, <2>2, <2>5
  <2>8. Move(relays(r), relays(r)', k) /\ relays(r)'[k] = y
    BY <2>6, <2>7, LoneRelay
  <2>9. /\ l1 \in LoginState /\ Follows(relays(r)[k], y)
        /\ Guarded(coordinator, faults, r, l1, relays(r)', stream[r], tab[r])
    BY <1>1, <1>2, <1>3, <2>0, <2>1, <2>5, <2>8, AskPrepared
  <2>10. /\ stream' = [stream EXCEPT ![r] = stream[r]] /\ stream[r] \in Seq(Event) /\ Bounded
         /\ tab' = [tab EXCEPT ![r] = tab[r]] /\ tab[r] \in TabState
    BY <1>1, <1>2, <1>4, <2>2, Unmoved, NoFault
  <2>11. ~ended(l1) => ~ended(login[r])
    BY <1>1, <2>1 DEF ended, Typed, LoginState, preparedAsk
  <2> QED BY <1>4, <2>3, <2>6, <2>7, <2>9, <2>10, <2>11, GuardianMoves
<1>5. CASE faults' # faults
  <2>1. fault /\ AskThrows(r) /\ relay' = relay
    BY <1>5 DEF PrepareRelay
  <2>2. /\ login' = [login EXCEPT ![r] = thrownAsk(login[r])]
        /\ thrownAsk(login[r]) \in LoginState
        /\ ~ended(thrownAsk(login[r])) => ~ended(login[r])
        /\ \E s1 \in Seq(Event) :
              /\ stream' = [stream EXCEPT ![r] = s1]
              /\ \A b, n, l, t, xs : Guarded(b, n, r, l, xs, stream[r], t)
                                     => Guarded(b, n, r, l, xs, s1, t)
    BY <2>1, AskThrowsAs
  <2>3. faults' = faults + 1 /\ Bounded
    BY <1>2, <2>1, OneFault DEF fault
  <2>4. \A k \in 1..2 : Held(faults + 1, relays(r)[k], thrownAsk(login[r]), k)
    BY <1>1 DEF Held
  <2>5. Guarded(coordinator, faults', r, thrownAsk(login[r]), relays(r), stream[r], tab[r])
    BY <1>1, <1>2, <1>3, <2>3, <2>4, AskThrown
  <2> QED BY <1>2, <2>1, <2>2, <2>3, <2>5, RequestStep
<1> QED BY <1>4, <1>5

LEMMA DoAsk ==
    ASSUME State, NEW r \in Guardian, GuardianOK(r), AskPerson(r)
    PROVE  GuardianStep(r)
<1>1. /\ Typed(coordinator, faults, login[r], relays(r), stream[r], tab[r])
      /\ r \in Login /\ faults \in Nat
      /\ \A k \in 1..2 : <<r, k>> \in Challenge /\ relays(r)[k] = relay[<<r, k>>]
  BY GuardianTyped
<1>2. /\ login[r].ask = "prepared" /\ tab' = tab /\ scenario' = scenario /\ faults' = faults
  BY DEF AskPerson
<1>3. Guarded(coordinator, faults, r, login[r], relays(r), stream[r], tab[r])
  BY DEF GuardianOK
<1>4. CASE login[r].cancelled \/ login[r].aborted
  <2>1. PICK l1 : l1 = [login[r] EXCEPT !.ask = "cancelling"]
    OBVIOUS
  <2>2. login' = [login EXCEPT ![r] = l1] /\ relay' = relay /\ stream' = stream
    BY <1>1, <1>4, <2>1 DEF AskPerson, State
  <2>3. l1 \in LoginState /\ Guarded(coordinator, faults, r, l1, relays(r), stream[r], tab[r])
    BY <1>1, <1>2, <1>3, <1>4, <2>1, AskGivenUp
  <2>4. l1.pc = login[r].pc
    BY <1>1, <2>1 DEF Typed, LoginState
  <2>5. stream' = [stream EXCEPT ![r] = stream[r]] /\ stream[r] \in Seq(Event) /\ Bounded
    BY <1>1, <1>2, <2>2, Unmoved, NoFault
  <2> QED BY <1>2, <2>2, <2>3, <2>4, <2>5, RequestStep DEF ended
<1>5. CASE ~(login[r].cancelled \/ login[r].aborted)
  <2>0. PICK k \in 1..2 : k = login[r].attempt
    BY <1>2, <1>3 DEF Guarded, AskingOK
  <2>1. PICK l1 : l1 = waitingAsk(login[r])
    OBVIOUS
  <2>2. /\ login' = [login EXCEPT ![r] = l1]
        /\ relay' = [relay EXCEPT ![<<r, k>>] = waitedFor(coordinator, relay[<<r, k>>])]
        /\ stream' = [stream EXCEPT ![r] = challenged(stream[r], r, k)]
    BY <1>1, <1>5, <2>0, <2>1
       DEF AskPerson, State, sent, challenge, waitingAsk, waitedFor, captcha, challenged
  <2>3. PICK s1 : s1 = challenged(stream[r], r, k)
    OBVIOUS
  <2>4. PICK y : y = waitedFor(coordinator, relays(r)[k])
    OBVIOUS
  <2>5. y \in Relay
    <3>1. PICK f \in BOOLEAN : f = FALSE
      OBVIOUS
    <3>2. coordinator \in Coordinator /\ relays(r)[k] \in Relay /\ RelayOK(coordinator, relays(r)[k])
          /\ relays(r)[k].wait = "none"
      BY <1>1, <1>2, <1>3, <2>0 DEF Typed, Guarded, RelaysOK, AskingOK
    <3>3. y = waited(coordinator, relays(r)[k], f)
      BY <2>4, <3>1 DEF waitedFor
    <3>4. Moved(coordinator, relays(r)[k], y)
      BY <3>1, <3>2, <3>3, WaitedRelay
    <3> QED BY <3>4 DEF Moved
  <2>6. relay' = [relay EXCEPT ![<<r, k>>] = y]
    BY <1>1, <2>2, <2>4
  <2>7. Move(relays(r), relays(r)', k) /\ relays(r)'[k] = y
    BY <2>5, <2>6, LoneRelay
  <2>8. /\ l1 \in LoginState /\ s1 \in Seq(Event) /\ Follows(relays(r)[k], y)
        /\ Guarded(coordinator, faults, r, l1, relays(r)', s1, tab[r])
    BY <1>1, <1>2, <1>3, <2>0, <2>1, <2>3, <2>4, <2>7, AskSent
  <2>9. Bounded /\ tab' = [tab EXCEPT ![r] = tab[r]] /\ tab[r] \in TabState
    BY <1>1, <1>2, Unmoved, NoFault
  <2>10. l1.pc = login[r].pc
    BY <1>1, <2>1 DEF Typed, LoginState, waitingAsk
  <2>11. stream' = [stream EXCEPT ![r] = s1]
    BY <2>2, <2>3
  <2> QED BY <1>2, <2>2, <2>5, <2>6, <2>8, <2>9, <2>10, <2>11, GuardianMoves DEF ended
<1> QED BY <1>4, <1>5

LEMMA DoWait ==
    ASSUME State, NEW r \in Guardian, GuardianOK(r), WaitStep(r)
    PROVE  GuardianStep(r)
<1>1. /\ Typed(coordinator, faults, login[r], relays(r), stream[r], tab[r])
      /\ r \in Login /\ faults \in Nat
      /\ \A k \in 1..2 : <<r, k>> \in Challenge /\ relays(r)[k] = relay[<<r, k>>]
  BY GuardianTyped
<1>2. /\ login[r].ask = "waiting" /\ tab' = tab /\ scenario' = scenario /\ faults' = faults
      /\ login' = login /\ stream' = stream
  BY DEF WaitStep
<1>3. Guarded(coordinator, faults, r, login[r], relays(r), stream[r], tab[r])
  BY DEF GuardianOK
<1>4. PICK k \in 1..2 : k = login[r].attempt
  BY <1>2, <1>3 DEF Guarded, AskingOK
<1>5. PICK y : y = waitedOn(coordinator, relays(r)[k])
  OBVIOUS
<1>6. relay' = [relay EXCEPT ![<<r, k>>] = y]
  <2>1. challenge(r) = <<r, k>> /\ relays(r)[k] = relay[<<r, k>>]
    BY <1>1, <1>4 DEF challenge
  <2>2. relay' = [relay EXCEPT ![challenge(r)] = waitedOn(coordinator, relay[challenge(r)])]
    BY DEF WaitStep, waitedOn
  <2> QED BY <1>5, <2>1, <2>2
<1>7. /\ Moved(coordinator, relays(r)[k], y) /\ Same(relays(r)[k], y)
      /\ Keeps(relays(r)[k], y) /\ (relays(r)[k].wait = "none" <=> y.wait = "none")
  <2>1. coordinator \in Coordinator /\ relays(r)[k] \in Relay /\ RelayOK(coordinator, relays(r)[k])
    BY <1>1, <1>3, <1>4 DEF Typed, Guarded, RelaysOK
  <2> QED BY <1>5, <2>1, WaitedOnRelay
<1>8. y \in Relay /\ Follows(relays(r)[k], y)
  BY <1>7 DEF Moved
<1>9. Move(relays(r), relays(r)', k) /\ relays(r)'[k] = y
  BY <1>6, <1>8, LoneRelay
<1>10. ~unopened(login[r], k)
  <2>1. login[r].pc \notin {"challenge", "ocr"}
    BY <1>2, <1>3 DEF Guarded, AskingOK
  <2> QED BY <1>2, <1>4, <2>1 DEF unopened
<1>11. Guarded(coordinator, faults, r, login[r], relays(r)', stream[r], tab[r])
  BY <1>1, <1>3, <1>7, <1>9, <1>10, RelayKeeps
<1>12. /\ stream' = [stream EXCEPT ![r] = stream[r]] /\ stream[r] \in Seq(Event) /\ Bounded
       /\ tab' = [tab EXCEPT ![r] = tab[r]] /\ tab[r] \in TabState
       /\ login' = [login EXCEPT ![r] = login[r]] /\ login[r] \in LoginState
  BY <1>1, <1>2, Unmoved, NoFault
<1>13. ~ended(login[r]) => ~ended(login[r])
  OBVIOUS
<1> QED BY <1>2, <1>6, <1>8, <1>11, <1>12, <1>13, GuardianMoves

\* onCaptchaNeeded gives up, with or without a call of cancel().
LEMMA DoCancelAsk ==
    ASSUME State, NEW r \in Guardian, GuardianOK(r), CancelAsk(r)
    PROVE  GuardianStep(r)
<1>1. /\ Typed(coordinator, faults, login[r], relays(r), stream[r], tab[r])
      /\ r \in Login /\ faults \in Nat
      /\ \A k \in 1..2 : <<r, k>> \in Challenge /\ relays(r)[k] = relay[<<r, k>>]
  BY GuardianTyped
<1>2. /\ login[r].ask = "cancelling" /\ tab' = tab /\ scenario' = scenario /\ AskThrows(r)
  BY DEF CancelAsk
<1>3. Guarded(coordinator, faults, r, login[r], relays(r), stream[r], tab[r])
  BY DEF GuardianOK
<1>4. /\ login' = [login EXCEPT ![r] = thrownAsk(login[r])]
      /\ thrownAsk(login[r]) \in LoginState
      /\ ~ended(thrownAsk(login[r])) => ~ended(login[r])
      /\ \E s1 \in Seq(Event) :
            /\ stream' = [stream EXCEPT ![r] = s1]
            /\ \A b, n, l, t, xs : Guarded(b, n, r, l, xs, stream[r], t)
                                   => Guarded(b, n, r, l, xs, s1, t)
  BY <1>2, AskThrowsAs
<1>5. tab' = [tab EXCEPT ![r] = tab[r]] /\ tab[r] \in TabState
  BY <1>1, <1>2, Unmoved
<1>6. CASE faults' = faults
  <2>0. PICK k \in 1..2 : k = login[r].attempt
    BY <1>2, <1>3 DEF Guarded, AskingOK
  <2>1. PICK y : y = IF login[r].active THEN cancelled(coordinator, relays(r)[k]) ELSE relays(r)[k]
    OBVIOUS
  <2>2. relay' = [relay EXCEPT ![<<r, k>>] = y]
    <3>1. ~fault
      BY <1>1, <1>6 DEF fault
    <3>2. challenge(r) = <<r, k>> /\ relays(r)[k] = relay[<<r, k>>]
      BY <1>1, <2>0 DEF challenge
    <3>3. relay' = [relay EXCEPT ![challenge(r)] =
                IF login[r].active THEN cancelled(coordinator, relay[challenge(r)])
                ELSE relay[challenge(r)]]
      BY <3>1 DEF CancelAsk
    <3> QED BY <2>1, <3>2, <3>3
  <2>3. y \in Relay
    <3>1. coordinator \in Coordinator /\ relays(r)[k] \in Relay /\ RelayOK(coordinator, relays(r)[k])
      BY <1>1, <1>3, <2>0 DEF Typed, Guarded, RelaysOK
    <3>2. cancelled(coordinator, relays(r)[k]) \in Relay
      BY <3>1, CancelledRelay DEF Moved
    <3> QED BY <2>1, <3>1, <3>2
  <2>4. Move(relays(r), relays(r)', k) /\ relays(r)'[k] = y
    BY <2>2, <2>3, LoneRelay
  <2>5. /\ Follows(relays(r)[k], y)
        /\ Guarded(coordinator, faults, r, thrownAsk(login[r]), relays(r)', stream[r], tab[r])
    BY <1>1, <1>2, <1>3, <2>0, <2>1, <2>4, AskCancelled
  <2>6. PICK s1 \in Seq(Event) :
            /\ stream' = [stream EXCEPT ![r] = s1]
            /\ Guarded(coordinator, faults, r, thrownAsk(login[r]), relays(r)', s1, tab[r])
    BY <1>4, <2>5
  <2>7. Bounded
    BY <1>2, <1>6, NoFault
  <2> QED BY <1>4, <1>5, <1>6, <2>2, <2>3, <2>5, <2>6, <2>7, GuardianMoves
<1>7. CASE faults' # faults
  <2>1. fault /\ relay' = relay
    BY <1>7 DEF CancelAsk
  <2>2. faults' = faults + 1 /\ Bounded
    BY <1>2, <2>1, OneFault DEF fault
  <2>3. \A k \in 1..2 : Held(faults + 1, relays(r)[k], thrownAsk(login[r]), k)
    BY <1>1 DEF Held
  <2>4. Guarded(coordinator, faults', r, thrownAsk(login[r]), relays(r), stream[r], tab[r])
    BY <1>1, <1>2, <1>3, <2>2, <2>3, AskThrown
  <2> QED BY <1>2, <1>4, <2>1, <2>2, <2>4, RequestStep
<1> QED BY <1>6, <1>7

\* The request is aborted, or its stream is cancelled.
LEMMA DoAbort ==
    ASSUME State, NEW r \in Guardian, GuardianOK(r), RequestAborts(r)
    PROVE  GuardianStep(r) /\ UNCHANGED <<kind, browserVars>>
<1>1. /\ Typed(coordinator, faults, login[r], relays(r), stream[r], tab[r])
      /\ r \in Login /\ faults \in Nat
      /\ \A k \in 1..2 : <<r, k>> \in Challenge /\ relays(r)[k] = relay[<<r, k>>]
  BY GuardianTyped
<1>2. /\ ~ended(login[r]) /\ tab' = tab /\ scenario' = scenario /\ faults' = faults
      /\ stream' = stream
  BY DEF RequestAborts, ended
<1>3. Guarded(coordinator, faults, r, login[r], relays(r), stream[r], tab[r])
  BY DEF GuardianOK
<1>4. UNCHANGED <<kind, browserVars>>
  BY <1>3 DEF RequestAborts, Guarded, AskingOK
<1>5. PICK k \in 1..2 : k = login[r].attempt
  BY <1>2, <1>3 DEF Guarded, AskingOK, ended
<1>6. PICK x : x = cancelledBy(coordinator, login[r], relays(r)[k])
  OBVIOUS
<1>7. PICK y : y = IF login[r].ask = "waiting" THEN abortHeard(coordinator, x) ELSE x
  OBVIOUS
<1>8. PICK l1 : l1 = abortedLogin(login[r])
  OBVIOUS
<1>9. relay' = [relay EXCEPT ![<<r, k>>] = y]
  <2>1. challenge(r) = <<r, k>> /\ relays(r)[k] = relay[<<r, k>>]
    BY <1>1, <1>5 DEF challenge
  <2>2. relayCancelled(r) = x
    BY <1>6, <2>1 DEF relayCancelled, cancelledBy, cancelling
  <2>3. r \notin Student
    BY SignInAssumption
  <2>4. relay' = [relay EXCEPT ![challenge(r)] =
            IF login[r].ask = "waiting"
            THEN abortHeard(coordinator, relayCancelled(r)) ELSE relayCancelled(r)]
    BY <2>3 DEF RequestAborts
  <2> QED BY <1>7, <2>1, <2>2, <2>4
<1>10. login' = [login EXCEPT ![r] = l1]
  BY <1>8 DEF RequestAborts, abortedLogin, abandoned
<1>11. y \in Relay
  <2>1. coordinator \in Coordinator /\ relays(r)[k] \in Relay /\ RelayOK(coordinator, relays(r)[k])
    BY <1>1, <1>3, <1>5 DEF Typed, Guarded, RelaysOK
  <2>2. Moved(coordinator, relays(r)[k], x)
    BY <1>6, <2>1, CancelledByRelay
  <2>3. x \in Relay /\ RelayOK(coordinator, x)
    BY <2>2 DEF Moved
  <2>4. abortHeard(coordinator, x) \in Relay
    BY <2>1, <2>3, AbortHeardRelay DEF Moved
  <2> QED BY <1>7, <2>3, <2>4
<1>12. Move(relays(r), relays(r)', k) /\ relays(r)'[k] = y
  BY <1>9, <1>11, LoneRelay
<1>13. /\ l1 \in LoginState /\ Follows(relays(r)[k], y)
       /\ Guarded(coordinator, faults, r, l1, relays(r)', stream[r], tab[r])
  <2>1. login[r].pc # "idle"
    BY <1>2 DEF ended
  <2> QED BY <1>1, <1>3, <1>5, <1>6, <1>7, <1>8, <1>12, <2>1, RequestAborted
<1>14. /\ stream' = [stream EXCEPT ![r] = stream[r]] /\ stream[r] \in Seq(Event) /\ Bounded
       /\ tab' = [tab EXCEPT ![r] = tab[r]] /\ tab[r] \in TabState
  BY <1>1, <1>2, Unmoved, NoFault
<1> QED BY <1>2, <1>4, <1>9, <1>10, <1>11, <1>13, <1>14, GuardianMoves

LEMMA DoCancelStream ==
    ASSUME State, NEW r \in Guardian, GuardianOK(r), StreamCancels(r)
    PROVE  GuardianStep(r)
<1>1. /\ Typed(coordinator, faults, login[r], relays(r), stream[r], tab[r])
      /\ r \in Login /\ faults \in Nat
      /\ \A k \in 1..2 : <<r, k>> \in Challenge /\ relays(r)[k] = relay[<<r, k>>]
  BY GuardianTyped
<1>2. /\ ~ended(login[r]) /\ tab' = tab /\ scenario' = scenario /\ faults' = faults
      /\ stream' = stream /\ ~login[r].cancelled
  BY DEF StreamCancels, ended
<1>3. Guarded(coordinator, faults, r, login[r], relays(r), stream[r], tab[r])
  BY DEF GuardianOK
<1>4. login[r].pc # "idle"
  BY <1>2 DEF ended
<1>5. PICK k \in 1..2 : k = login[r].attempt
  BY <1>3, <1>4 DEF Guarded, AskingOK
<1>6. PICK y : y = cancelledBy(coordinator, login[r], relays(r)[k])
  OBVIOUS
<1>7. PICK l1 : l1 = uncoupled(login[r])
  OBVIOUS
<1>8. relay' = [relay EXCEPT ![<<r, k>>] = y]
  <2>1. challenge(r) = <<r, k>> /\ relays(r)[k] = relay[<<r, k>>]
    BY <1>1, <1>5 DEF challenge
  <2>2. relayCancelled(r) = y
    BY <1>6, <2>1 DEF relayCancelled, cancelledBy, cancelling
  <2>3. r \notin Student
    BY SignInAssumption
  <2>4. relay' = [relay EXCEPT ![challenge(r)] = relayCancelled(r)]
    BY <2>3 DEF StreamCancels
  <2> QED BY <2>1, <2>2, <2>4
<1>9. login' = [login EXCEPT ![r] = l1]
  <2>1. login' = [login EXCEPT ![r].cancelled = TRUE, ![r].active = FALSE]
    BY DEF StreamCancels
  <2> QED BY <1>1, <1>7, <2>1 DEF uncoupled, State, LoginState
<1>10. y \in Relay
  <2>1. coordinator \in Coordinator /\ relays(r)[k] \in Relay /\ RelayOK(coordinator, relays(r)[k])
    BY <1>1, <1>3, <1>5 DEF Typed, Guarded, RelaysOK
  <2> QED BY <1>6, <2>1, CancelledByRelay DEF Moved
<1>11. Move(relays(r), relays(r)', k) /\ relays(r)'[k] = y
  BY <1>8, <1>10, LoneRelay
<1>12. /\ l1 \in LoginState /\ Follows(relays(r)[k], y)
       /\ Guarded(coordinator, faults, r, l1, relays(r)', stream[r], tab[r])
  BY <1>1, <1>2, <1>3, <1>4, <1>5, <1>6, <1>7, <1>11, StreamCancelled
<1>13. /\ stream' = [stream EXCEPT ![r] = stream[r]] /\ stream[r] \in Seq(Event) /\ Bounded
       /\ tab' = [tab EXCEPT ![r] = tab[r]] /\ tab[r] \in TabState
  BY <1>1, <1>2, Unmoved, NoFault
<1> QED BY <1>2, <1>8, <1>9, <1>10, <1>12, <1>13, GuardianMoves

LEMMA RelayStep ==
    ASSUME State, NEW r \in Guardian, NEW k \in 1..2, NEW y \in Relay,
           relay' = [relay EXCEPT ![<<r, k>>] = y],
           login' = login, stream' = stream, tab' = tab, Bounded, Follows(relays(r)[k], y),
           Guarded(coordinator, faults', r, login[r], relays(r)', stream[r], tab[r])
    PROVE  GuardianStep(r)
<1>1. r \in Login
  BY GuardianTyped
<1>2. /\ stream' = [stream EXCEPT ![r] = stream[r]] /\ stream[r] \in Seq(Event)
      /\ tab' = [tab EXCEPT ![r] = tab[r]] /\ tab[r] \in TabState
      /\ login' = [login EXCEPT ![r] = login[r]] /\ login[r] \in LoginState
      /\ ~ended(login[r]) => ~ended(login[r])
  BY <1>1, Unmoved
<1> QED BY <1>2, GuardianMoves

LEMMA DoCancelLands ==
    ASSUME State, NEW r \in Guardian, GuardianOK(r), NEW k \in 1..2, CancelLands(<<r, k>>)
    PROVE  GuardianStep(r)
<1>1. /\ Typed(coordinator, faults, login[r], relays(r), stream[r], tab[r])
      /\ r \in Login /\ faults \in Nat
      /\ relays(r)[k] = relay[<<r, k>>]
  BY GuardianTyped
<1>2. /\ relays(r)[k].cancelling /\ tab' = tab /\ scenario' = scenario
      /\ stream' = stream /\ login' = login
  BY <1>1 DEF CancelLands
<1>3. Guarded(coordinator, faults, r, login[r], relays(r), stream[r], tab[r])
  BY DEF GuardianOK
<1>4. PICK x : x = landed(relays(r)[k])
  OBVIOUS
<1>5. \/ relay' = [relay EXCEPT ![<<r, k>>] = cancelled(coordinator, x)] /\ faults' = faults
      \/ relay' = [relay EXCEPT ![<<r, k>>] = x] /\ fault
  BY <1>1, <1>4 DEF CancelLands, landed
<1>6. /\ coordinator \in Coordinator /\ relays(r)[k] \in Relay
      /\ RelayOK(coordinator, relays(r)[k])
  BY <1>1, <1>3 DEF Typed, Guarded, RelaysOK
<1>7. /\ Moved(coordinator, relays(r)[k], x) /\ x.aborted = relays(r)[k].aborted
      /\ x.wait = relays(r)[k].wait /\ x \in Relay /\ RelayOK(coordinator, x)
      /\ Follows(relays(r)[k], x)
  BY <1>4, <1>6, CancellingRelay DEF Moved
<1>8. CASE /\ relay' = [relay EXCEPT ![<<r, k>>] = cancelled(coordinator, x)]
           /\ faults' = faults
  <2>1. PICK y : y = cancelled(coordinator, x)
    OBVIOUS
  <2>2. y \in Relay /\ relay' = [relay EXCEPT ![<<r, k>>] = y]
    BY <1>6, <1>7, <1>8, <2>1, CancelledRelay DEF Moved
  <2>3. Move(relays(r), relays(r)', k) /\ relays(r)'[k] = y
    BY <2>2, LoneRelay
  <2>4. /\ Follows(relays(r)[k], y)
        /\ Guarded(coordinator, faults, r, login[r], relays(r)', stream[r], tab[r])
    BY <1>1, <1>2, <1>3, <1>4, <2>1, <2>3, CancelLanded
  <2>5. Bounded
    BY <1>2, <1>8, NoFault
  <2> QED BY <1>2, <1>8, <2>2, <2>4, <2>5, RelayStep
<1>9. CASE relay' = [relay EXCEPT ![<<r, k>>] = x] /\ fault
  <2>0. x \in Relay /\ relay' = [relay EXCEPT ![<<r, k>>] = x]
    BY <1>7, <1>9
  <2>1. Move(relays(r), relays(r)', k) /\ relays(r)'[k] = x
    BY <2>0, LoneRelay
  <2>2. ~unopened(login[r], k)
    BY <1>2, <1>3, Opened DEF Guarded
  <2>3. Guarded(coordinator, faults + 1, r, login[r], relays(r)', stream[r], tab[r])
    BY <1>1, <1>2, <1>3, <1>7, <2>1, <2>2, RelayFaults
  <2>4. Bounded /\ faults' = faults + 1
    BY <1>2, <1>9, OneFault DEF fault
  <2> QED BY <1>2, <1>7, <1>9, <2>3, <2>4, RelayStep
<1> QED BY <1>5, <1>8, <1>9

WaitedAlike(x, y) == x.wait = "none" <=> y.wait = "none"

LEMMA RelayGoes ==
    ASSUME State, NEW r \in Guardian, GuardianOK(r), NEW k \in 1..2, NEW y \in Relay,
           relay' = [relay EXCEPT ![<<r, k>>] = y], login' = login, stream' = stream,
           tab' = tab, scenario' = scenario, faults' = faults,
           ~unopened(login[r], k), Moved(coordinator, relays(r)[k], y), Same(relays(r)[k], y),
           Keeps(relays(r)[k], y), WaitedAlike(relays(r)[k], y)
    PROVE  GuardianStep(r)
<1>1. /\ Typed(coordinator, faults, login[r], relays(r), stream[r], tab[r])
      /\ r \in Login /\ faults \in Nat
  BY GuardianTyped
<1>2. Guarded(coordinator, faults, r, login[r], relays(r), stream[r], tab[r])
  BY DEF GuardianOK
<1>3. Follows(relays(r)[k], y)
  BY DEF Moved
<1>4. Move(relays(r), relays(r)', k) /\ relays(r)'[k] = y
  BY LoneRelay
<1>5. Guarded(coordinator, faults, r, login[r], relays(r)', stream[r], tab[r])
  BY <1>1, <1>2, <1>4, RelayKeeps DEF WaitedAlike
<1> QED BY <1>3, <1>5, NoFault, RelayStep

LEMMA RelayFails ==
    ASSUME State, NEW r \in Guardian, GuardianOK(r), NEW k \in 1..2, NEW y \in Relay,
           relay' = [relay EXCEPT ![<<r, k>>] = y], login' = login, stream' = stream,
           tab' = tab, scenario' = scenario, faults' = faults + 1, Bounded,
           ~unopened(login[r], k), Moved(coordinator, relays(r)[k], y), Same(relays(r)[k], y),
           WaitedAlike(relays(r)[k], y)
    PROVE  GuardianStep(r)
<1>1. /\ Typed(coordinator, faults, login[r], relays(r), stream[r], tab[r])
      /\ r \in Login /\ faults \in Nat
  BY GuardianTyped
<1>2. Guarded(coordinator, faults, r, login[r], relays(r), stream[r], tab[r])
  BY DEF GuardianOK
<1>3. Follows(relays(r)[k], y)
  BY DEF Moved
<1>4. Move(relays(r), relays(r)', k) /\ relays(r)'[k] = y
  BY LoneRelay
<1>5. Guarded(coordinator, faults + 1, r, login[r], relays(r)', stream[r], tab[r])
  BY <1>1, <1>2, <1>4, RelayFaults DEF Same, WaitedAlike
<1> QED BY <1>3, <1>5, RelayStep

\* The relay of a challenge that was opened, and what it satisfies.
LEMMA RelayOpened ==
    ASSUME State, NEW r \in Guardian, GuardianOK(r), NEW k \in 1..2,
           \/ relay[<<r, k>>].row # "absent"
           \/ relay[<<r, k>>].wait # "none"
    PROVE  /\ coordinator \in Coordinator /\ relays(r)[k] = relay[<<r, k>>]
           /\ relays(r)[k] \in Relay /\ RelayOK(coordinator, relays(r)[k])
           /\ ~unopened(login[r], k)
<1>1. /\ Typed(coordinator, faults, login[r], relays(r), stream[r], tab[r])
      /\ relays(r)[k] = relay[<<r, k>>]
  BY GuardianTyped
<1>2. Guarded(coordinator, faults, r, login[r], relays(r), stream[r], tab[r])
  BY DEF GuardianOK
<1>3. ~unopened(login[r], k)
  BY <1>1, <1>2, Opened DEF Guarded
<1> QED BY <1>1, <1>2, <1>3 DEF Typed, Guarded, RelaysOK

LEMMA DoTime ==
    ASSUME State, NEW r \in Guardian, GuardianOK(r), NEW k \in 1..2,
           TimeRunsOut(<<r, k>>) \/ Expire(<<r, k>>) \/ ObjectRestarts(<<r, k>>)
    PROVE  GuardianStep(r)
<1>1. CASE TimeRunsOut(<<r, k>>)
  <2>1. PICK y : y = late(coordinator, relay[<<r, k>>])
    OBVIOUS
  <2>2. /\ relay' = [relay EXCEPT ![<<r, k>>] = y] /\ relay[<<r, k>>].row # "absent"
        /\ login' = login /\ stream' = stream /\ tab' = tab /\ scenario' = scenario /\ faults' = faults
    BY <1>1, <2>1 DEF TimeRunsOut
  <2>3. /\ coordinator \in Coordinator /\ relays(r)[k] = relay[<<r, k>>]
        /\ relays(r)[k] \in Relay /\ RelayOK(coordinator, relays(r)[k])
        /\ ~unopened(login[r], k)
    BY <2>2, RelayOpened
  <2>4. /\ Moved(coordinator, relays(r)[k], y) /\ Same(relays(r)[k], y)
        /\ Keeps(relays(r)[k], y) /\ WaitedAlike(relays(r)[k], y)
    BY <2>1, <2>2, <2>3, LateRelay DEF WaitedAlike
  <2>5. y \in Relay
    BY <2>4 DEF Moved
  <2> QED BY <2>2, <2>3, <2>4, <2>5, RelayGoes
<1>2. CASE Expire(<<r, k>>)
  <2>1. PICK y : y = IF coordinator = "durable" THEN alarmed(relay[<<r, k>>])
                     ELSE expired(relay[<<r, k>>])
    OBVIOUS
  <2>2. /\ relay' = [relay EXCEPT ![<<r, k>>] = y] /\ relay[<<r, k>>].row # "absent"
        /\ coordinator # "local"
        /\ login' = login /\ stream' = stream /\ tab' = tab /\ scenario' = scenario /\ faults' = faults
    BY <1>2, <2>1 DEF Expire
  <2>3. /\ coordinator \in Coordinator /\ relays(r)[k] = relay[<<r, k>>]
        /\ relays(r)[k] \in Relay /\ RelayOK(coordinator, relays(r)[k])
        /\ ~unopened(login[r], k)
    BY <2>2, RelayOpened
  <2>4. /\ Moved(coordinator, relays(r)[k], y) /\ Same(relays(r)[k], y)
        /\ Keeps(relays(r)[k], y) /\ WaitedAlike(relays(r)[k], y)
    <3>1. CASE coordinator = "durable"
      <4>1. y = alarmed(relays(r)[k])
        BY <2>1, <2>3, <3>1
      <4> QED BY <2>2, <2>3, <3>1, <4>1, AlarmedRelay DEF WaitedAlike
    <3>2. CASE coordinator # "durable"
      <4>1. y = expired(relays(r)[k]) /\ coordinator = "redis"
        BY <2>1, <2>2, <2>3, <3>2 DEF Coordinator
      <4> QED BY <2>2, <2>3, <4>1, ExpiredRelay DEF WaitedAlike
    <3> QED BY <3>1, <3>2
  <2>5. y \in Relay
    BY <2>4 DEF Moved
  <2> QED BY <2>2, <2>3, <2>4, <2>5, RelayGoes
<1>3. CASE ObjectRestarts(<<r, k>>)
  <2>1. PICK y : y = settled(relay[<<r, k>>], "failed")
    OBVIOUS
  <2>2. /\ relay' = [relay EXCEPT ![<<r, k>>] = y] /\ relay[<<r, k>>].wait = "blocked"
        /\ login' = login /\ stream' = stream /\ tab' = tab /\ scenario' = scenario /\ fault
    BY <1>3, <2>1 DEF ObjectRestarts
  <2>3. /\ coordinator \in Coordinator /\ relays(r)[k] = relay[<<r, k>>]
        /\ relays(r)[k] \in Relay /\ RelayOK(coordinator, relays(r)[k])
        /\ ~unopened(login[r], k)
    BY <2>2, RelayOpened
  <2>4. /\ Moved(coordinator, relays(r)[k], y) /\ Same(relays(r)[k], y)
        /\ WaitedAlike(relays(r)[k], y)
    BY <2>1, <2>2, <2>3, RestartedRelay DEF WaitedAlike
  <2>5. y \in Relay
    BY <2>4 DEF Moved
  <2>6. faults' = faults + 1 /\ Bounded
    BY <2>2, OneFault DEF fault
  <2> QED BY <2>2, <2>3, <2>4, <2>5, <2>6, RelayFails
<1> QED BY <1>1, <1>2, <1>3

-----------------------------------------------------------------------------
(* The page of a guardian.                                                 *)

LEMMA PageStep ==
    ASSUME State, NEW r \in Guardian, NEW t1 \in TabState, NEW s1 \in Seq(Event),
           stream' = [stream EXCEPT ![r] = s1], tab' = [tab EXCEPT ![r] = t1],
           login' = login, relay' = relay, scenario' = scenario, faults' = faults,
           Guarded(coordinator, faults, r, login[r], relays(r), s1, t1)
    PROVE  GuardianStep(r)
<1>1. r \in Login
  BY GuardianTyped
<1>2. /\ login' = [login EXCEPT ![r] = login[r]] /\ login[r] \in LoginState
      /\ ~ended(login[r]) => ~ended(login[r])
  BY <1>1, Unmoved
<1> QED BY <1>2, NoFault, GuardianStays

LEMMA DoRead ==
    ASSUME State, NEW r \in Guardian, GuardianOK(r), ReadEvent(r)
    PROVE  GuardianStep(r)
<1>1. /\ Typed(coordinator, faults, login[r], relays(r), stream[r], tab[r])
      /\ r \in Login /\ faults \in Nat
  BY GuardianTyped
<1>2. Guarded(coordinator, faults, r, login[r], relays(r), stream[r], tab[r])
  BY DEF GuardianOK
<1>3. /\ stream[r] # <<>> /\ stream' = [stream EXCEPT ![r] = Tail(stream[r])]
      /\ login' = login /\ relay' = relay /\ scenario' = scenario /\ faults' = faults
  BY <1>1 DEF ReadEvent, State
<1>4. Head(stream[r]) \in Event
  BY <1>1, <1>2, <1>3, ReadPage DEF Typed, Guarded
<1>5. Head(stream[r]).type \in {"captcha", "done", "error"}
  BY <1>4 DEF Event
<1>6. CASE Head(stream[r]).type = "captcha"
  <2>1. PICK t1 : t1 = IF tab[r].challenge # None THEN thrown(tab[r], "overlapping")
                       ELSE [tab[r] EXCEPT !.challenge = Head(stream[r]).challenge,
                                           !.phase = "asking"]
    OBVIOUS
  <2>2. tab' = [tab EXCEPT ![r] = t1]
    BY <1>6, <2>1 DEF ReadEvent
  <2>3. /\ t1 \in TabState /\ Tail(stream[r]) \in Seq(Event)
        /\ Guarded(coordinator, faults, r, login[r], relays(r), Tail(stream[r]), t1)
    BY <1>1, <1>2, <1>3, <1>6, <2>1, ChallengeRead
  <2> QED BY <1>3, <2>2, <2>3, PageStep
<1>7. CASE Head(stream[r]).type # "captcha"
  <2>1. PICK result \in {"signed", "failed"} : tab' = [tab EXCEPT ![r] = thrown(tab[r], result)]
    BY <1>5, <1>7 DEF ReadEvent
  <2>2. PICK t1 : t1 = thrown(tab[r], result)
    OBVIOUS
  <2>3. /\ t1 \in TabState /\ Tail(stream[r]) \in Seq(Event)
        /\ Guarded(coordinator, faults, r, login[r], relays(r), Tail(stream[r]), t1)
    BY <1>1, <1>2, <1>3, <2>2, OutcomeRead
  <2> QED BY <1>3, <2>1, <2>2, <2>3, PageStep
<1> QED BY <1>6, <1>7

LEMMA DoPage ==
    ASSUME State, NEW r \in Guardian, GuardianOK(r),
           \/ HearOutcome(r)
           \/ Leave(r)
           \/ \E a \in Answer : TypeAnswer(r, a)
    PROVE  GuardianStep(r)
<1>1. /\ Typed(coordinator, faults, login[r], relays(r), stream[r], tab[r])
      /\ r \in Login /\ faults \in Nat
  BY GuardianTyped
<1>2. Guarded(coordinator, faults, r, login[r], relays(r), stream[r], tab[r])
  BY DEF GuardianOK
<1>3. tab[r] \in TabState
  BY <1>1 DEF Typed
<1>4. /\ stream' = stream /\ login' = login /\ relay' = relay /\ scenario' = scenario
      /\ faults' = faults
  BY DEF HearOutcome, Leave, TypeAnswer
<1>5. \E t1 \in TabState :
          /\ tab' = [tab EXCEPT ![r] = t1]
          /\ Guarded(coordinator, faults, r, login[r], relays(r), stream[r], t1)
  <2>1. CASE HearOutcome(r)
    <3>1. tab' = [tab EXCEPT ![r] = heard(tab[r])]
      BY <2>1 DEF HearOutcome, heard
    <3> QED BY <1>2, <1>3, <3>1, AnswerHeard
  <2>2. CASE Leave(r)
    <3>1. PICK t1 : t1 = closed(tab[r], "left")
      OBVIOUS
    <3>2. tab' = [tab EXCEPT ![r] = t1]
      BY <1>1, <2>2, <3>1 DEF Leave, State
    <3> QED BY <1>2, <1>3, <3>1, <3>2, PageLeft
  <2>3. CASE \E a \in Answer : TypeAnswer(r, a)
    <3>1. PICK a \in Answer : TypeAnswer(r, a)
      BY <2>3
    <3>2. PICK t1 : t1 = [tab[r] EXCEPT !.phase = "submitting", !.answer = a]
      OBVIOUS
    <3>3. tab' = [tab EXCEPT ![r] = t1] /\ tab[r].phase = "asking"
      BY <1>1, <3>1, <3>2 DEF TypeAnswer, State
    <3> QED BY <1>2, <1>3, <3>2, <3>3, AnswerTyped
  <2> QED BY <2>1, <2>2, <2>3
<1>6. stream' = [stream EXCEPT ![r] = stream[r]] /\ stream[r] \in Seq(Event)
  BY <1>1, <1>4, Unmoved
<1> QED BY <1>4, <1>5, <1>6, PageStep

\* The answer that was typed comes to the coordinator.
LEMMA DoSolve ==
    ASSUME State, NEW r \in Guardian, GuardianOK(r), SolveCaptcha(r)
    PROVE  GuardianStep(r)
<1>1. /\ Typed(coordinator, faults, login[r], relays(r), stream[r], tab[r])
      /\ r \in Login /\ faults \in Nat
      /\ \A k \in 1..2 : <<r, k>> \in Challenge /\ relays(r)[k] = relay[<<r, k>>]
  BY GuardianTyped
<1>2. Guarded(coordinator, faults, r, login[r], relays(r), stream[r], tab[r])
  BY DEF GuardianOK
<1>3. /\ tab[r].phase = "submitting" /\ stream' = stream /\ login' = login /\ scenario' = scenario
  BY DEF SolveCaptcha
<1>4. tab[r] \in TabState /\ tab[r].challenge # None /\ tab[r].answer \in Answer
  BY <1>1, <1>2, <1>3 DEF Typed, Guarded, PageOK, TabOK
<1>5. PICK k \in 1..2 : tab[r].challenge = <<r, k>> /\ relays(r)[k].wait # "none"
  BY <1>2, <1>4 DEF Guarded, PageOK, TabOK, asked
<1>7. PICK y : y = solved(coordinator, relays(r)[k], scenario.skewed, tab[r])
  OBVIOUS
<1>8. relay' = [relay EXCEPT ![<<r, k>>] = y]
  BY <1>1, <1>5, <1>7 DEF SolveCaptcha, solved
<1>9. PICK phase \in {"accepted", "refused"} : tab' = [tab EXCEPT ![r].phase = phase]
  BY DEF SolveCaptcha
<1>10. faults' \in {faults, faults + 1} /\ Bounded
  <2>1. faults' = faults \/ fault
    BY DEF SolveCaptcha
  <2> QED BY <1>3, <2>1, NoFault, OneFault DEF fault
<1>11. PICK t1 : t1 = outcome(tab[r], phase)
  OBVIOUS
<1>12. tab' = [tab EXCEPT ![r] = t1]
  BY <1>1, <1>9, <1>11 DEF State, outcome
<1>13. y \in Relay
  <2>1. coordinator \in Coordinator /\ relays(r)[k] \in Relay /\ RelayOK(coordinator, relays(r)[k])
    BY <1>1, <1>2 DEF Typed, Guarded, RelaysOK
  <2>2. relays(r)[k].row = "pending" =>
            answered(coordinator, relays(r)[k], tab[r].answer) \in Relay
    BY <1>4, <2>1, AnsweredRelay DEF Moved
  <2> QED BY <1>7, <2>1, <2>2 DEF solved, canAnswer
<1>14. Move(relays(r), relays(r)', k) /\ relays(r)'[k] = y
  BY <1>8, <1>13, LoneRelay
<1>15. /\ t1 \in TabState /\ Follows(relays(r)[k], y)
       /\ Guarded(coordinator, faults', r, login[r], relays(r)', stream[r], t1)
  <2>1. PICK skewed, t, n1 :
            /\ skewed = scenario.skewed /\ t = tab[r] /\ n1 = faults'
            /\ n1 \in {faults, faults + 1}
    BY <1>10
  <2>2. /\ Typed(coordinator, faults, login[r], relays(r), stream[r], t)
        /\ Guarded(coordinator, faults, r, login[r], relays(r), stream[r], t)
        /\ answering(t, <<r, k>>)
        /\ relays(r)'[k] = solved(coordinator, relays(r)[k], skewed, t)
        /\ t1 = outcome(t, phase) /\ Move(relays(r), relays(r)', k)
        /\ faults \in Nat /\ n1 \in {faults, faults + 1}
    BY <1>1, <1>2, <1>3, <1>5, <1>7, <1>11, <1>14, <2>1 DEF answering
  <2>3. /\ t1 \in TabState /\ Follows(relays(r)[k], relays(r)'[k])
        /\ Guarded(coordinator, n1, r, login[r], relays(r)', stream[r], t1)
    BY <2>2, AnswerSolved
  <2> QED BY <1>14, <2>1, <2>3
<1>16. /\ stream' = [stream EXCEPT ![r] = stream[r]] /\ stream[r] \in Seq(Event)
       /\ login' = [login EXCEPT ![r] = login[r]] /\ login[r] \in LoginState
       /\ ~ended(login[r]) => ~ended(login[r])
  BY <1>1, <1>3, Unmoved
<1> QED BY <1>8, <1>10, <1>12, <1>13, <1>15, <1>16, GuardianMoves

\* Every step of a guardian's login, which drives no browser.
LEMMA GuardianSteps ==
    ASSUME State, NEW r \in Guardian, GuardianOK(r),
           \/ StartSignIn(r) \/ ServerStep(r) \/ TabStep(r)
           \/ RequestAborts(r) \/ StreamCancels(r) \/ Leave(r)
           \/ \E a \in Answer : TypeAnswer(r, a)
    PROVE  GuardianStep(r) /\ UNCHANGED <<kind, browserVars>>
<1>1. ~Automate(r) /\ ~AutomationEnds(r)
  BY DEF GuardianOK, Guarded, AskingOK, Automate, AutomationEnds
<1>2. CASE StartSignIn(r) \/ RequestAborts(r)
  BY <1>2, DoStart, DoAbort
<1>3. CASE \/ GetChallenge(r) \/ Recognise(r) \/ PrepareRelay(r) \/ AskPerson(r)
           \/ WaitStep(r) \/ AskEnds(r) \/ CancelAsk(r) \/ Authenticate(r) \/ Finish(r)
  <2>1. GuardianStep(r)
    BY <1>3, DoChallenge, DoRecognise, DoPrepare, DoAsk, DoWait, DoAskEnds, DoCancelAsk,
       DoAuthenticate, DoFinish
  <2>2. UNCHANGED <<kind, browserVars>>
    BY <1>3 DEF GetChallenge, Recognise, PrepareRelay, AskPerson, WaitStep, AskEnds, CancelAsk,
                Authenticate, Finish
  <2> QED BY <2>1, <2>2
<1>4. CASE \/ ReadEvent(r) \/ SolveCaptcha(r) \/ HearOutcome(r) \/ Leave(r) \/ StreamCancels(r)
           \/ \E a \in Answer : TypeAnswer(r, a)
  <2>1. GuardianStep(r)
    BY <1>4, DoRead, DoSolve, DoPage, DoCancelStream
  <2>2. UNCHANGED <<kind, browserVars>>
    BY <1>4 DEF ReadEvent, SolveCaptcha, HearOutcome, Leave, StreamCancels, TypeAnswer
  <2> QED BY <2>1, <2>2
<1> QED BY <1>1, <1>2, <1>3, <1>4 DEF ServerStep, TabStep

-----------------------------------------------------------------------------
(* The steps of the others.                                                *)

LEMMA StudentStays ==
    ASSUME State, NEW r \in Student, NEW l1 \in LoginState, NEW s1 \in Seq(Event),
           NEW t1 \in TabState, login' = [login EXCEPT ![r] = l1],
           stream' = [stream EXCEPT ![r] = s1], tab' = [tab EXCEPT ![r] = t1],
           ~ended(l1) => ~ended(login[r]) \/ scenario.overlap \/ \A q \in Login : ended(login[q]),
           relay' = relay, scenario' = scenario, faults' = faults, Plain(l1, s1, t1)
    PROVE  StudentStep(r)
<1>1. r \in Login
  BY DEF Login
<1>2. Alone(r) /\ login'[r] = l1 /\ stream'[r] = s1 /\ tab'[r] = t1
  BY <1>1, LoneLogin
<1> QED BY <1>2, NoFault DEF StudentStep

LEMMA StudentTold ==
    ASSUME State, NEW r \in Student, StudentOK(r), NEW type \in {"done", "error"},
           stream' = sent(r, type, None)
    PROVE  \E s1 \in Seq(Event) :
              /\ stream' = [stream EXCEPT ![r] = s1]
              /\ \A i \in 1..Len(s1) : ~asks(s1, i)
<1> DEFINE e == [type |-> type, challenge |-> None]
<1>0. r \in Login
  BY DEF Login
<1>1. stream[r] \in Seq(Event) /\ stream = [stream EXCEPT ![r] = stream[r]]
      /\ \A i \in 1..Len(stream[r]) : ~asks(stream[r], i)
  BY <1>0, Unmoved DEF StudentOK, Plain
<1>2. e \in Event /\ e.type # "captcha"
  BY DEF Event
<1>3. CASE login[r].cancelled
  BY <1>1, <1>3 DEF sent
<1>4. CASE ~login[r].cancelled
  <2>1. stream' = [stream EXCEPT ![r] = Append(stream[r], e)]
    BY <1>0, <1>4 DEF sent, State
  <2> HIDE DEF e
  <2>2. PICK s : s = stream[r]
    OBVIOUS
  <2>3. PICK s1 : s1 = Append(s, e)
    OBVIOUS
  <2>4. /\ s1 \in Seq(Event) /\ Len(s1) = Len(s) + 1 /\ Len(s) \in Nat
        /\ \A i \in 1..Len(s) : s1[i] = s[i]
        /\ s1[Len(s) + 1] = e
    BY <1>1, <1>2, <2>2, <2>3
  <2>5. \A i \in 1..Len(s1) : ~asks(s1, i)
    BY <1>1, <1>2, <2>2, <2>4 DEF asks
  <2> QED BY <2>1, <2>2, <2>3, <2>4, <2>5
<1> QED BY <1>3, <1>4

\* A step of the request of a student.
LEMMA StudentGoes ==
    ASSUME State, NEW r \in Student, StudentOK(r), NEW l1 \in LoginState, NEW s1 \in Seq(Event),
           login' = [login EXCEPT ![r] = l1], stream' = [stream EXCEPT ![r] = s1],
           \A i \in 1..Len(s1) : ~asks(s1, i),
           tab' = tab, relay' = relay, scenario' = scenario, faults' = faults,
           ~ended(l1) => ~ended(login[r]),
           l1.pc \in {"idle", "browsing", "finishing", "over"},
           l1.ask = login[r].ask, l1.active => login[r].active
    PROVE  StudentStep(r)
<1>1. r \in Login
  BY DEF Login
<1>2. tab' = [tab EXCEPT ![r] = tab[r]] /\ tab[r] \in TabState
  BY <1>1, Unmoved
<1>3. Plain(l1, s1, tab[r])
  BY DEF StudentOK, Plain
<1> QED BY <1>2, <1>3, StudentStays

LEMMA StudentStarts ==
    ASSUME State, NEW r \in Student, StudentOK(r), StartSignIn(r)
    PROVE  StudentStep(r) /\ Begin(r) /\ login'[r].pc = "browsing"
<1>1. r \in Login /\ r \notin Guardian
  BY SignInAssumption DEF Login
<1>2. /\ login[r] \in LoginState /\ tab[r] \in TabState /\ stream[r] \in Seq(Event)
      /\ stream = [stream EXCEPT ![r] = stream[r]]
  BY <1>1, Unmoved
<1>3. PICK l1 : l1 = [login[r] EXCEPT !.pc = "browsing"]
  OBVIOUS
<1>4. PICK t1 : t1 = [tab[r] EXCEPT !.pc = "reading"]
  OBVIOUS
<1>5. /\ login' = [login EXCEPT ![r] = l1] /\ tab' = [tab EXCEPT ![r] = t1] /\ Begin(r)
      /\ relay' = relay /\ stream' = stream /\ scenario' = scenario /\ faults' = faults
      /\ scenario.overlap \/ \A q \in Login : ended(login[q])
  BY <1>1, <1>3, <1>4 DEF StartSignIn, State, ended
<1>6. /\ l1 \in LoginState /\ l1.pc = "browsing" /\ l1.ask = login[r].ask
      /\ l1.active = login[r].active
  BY <1>2, <1>3 DEF LoginState
<1>7. t1 \in TabState /\ t1.challenge = tab[r].challenge /\ t1.phase = tab[r].phase
  BY <1>2, <1>4 DEF TabState
<1>8. Plain(l1, stream[r], t1)
  BY <1>6, <1>7 DEF StudentOK, Plain
<1>9. StudentStep(r)
  BY <1>2, <1>5, <1>6, <1>7, <1>8, StudentStays
<1>10. login'[r] = l1
  BY <1>1, <1>5 DEF State
<1> QED BY <1>5, <1>6, <1>9, <1>10

LEMMA StudentFails ==
    ASSUME State, NEW r \in Student, StudentOK(r), ~ended(login[r]),
           NEW result \in {"session", "error", "cancelled"}, NEW type \in {"done", "error"},
           login' = [login EXCEPT ![r] = endedWith(login[r], result)],
           stream' = sent(r, type, None), tab' = tab, relay' = relay,
           faults' = faults, scenario' = scenario
    PROVE  StudentStep(r)
<1>1. r \in Login
  BY DEF Login
<1>2. login[r] \in LoginState
  BY <1>1, Unmoved
<1>3. PICK l1 : l1 = endedWith(login[r], result)
  OBVIOUS
<1>4. l1 \in LoginState /\ l1.pc = "over" /\ l1.ask = login[r].ask /\ l1.active = login[r].active
  BY <1>2, <1>3 DEF endedWith, LoginState
<1>5. PICK s1 \in Seq(Event) :
          /\ stream' = [stream EXCEPT ![r] = s1]
          /\ \A i \in 1..Len(s1) : ~asks(s1, i)
  BY StudentTold
<1> QED BY <1>3, <1>4, <1>5, StudentGoes DEF ended

LEMMA StudentEnds ==
    ASSUME State, NEW r \in Student, StudentOK(r), AutomationEnds(r) \/ Finish(r)
    PROVE  StudentStep(r)
<1>1. r \in Login
  BY DEF Login
<1>2. /\ login[r].pc \in {"browsing", "finishing"} /\ tab' = tab /\ relay' = relay
      /\ faults' = faults /\ scenario' = scenario
  BY DEF AutomationEnds, Finish
<1>3. login[r] \in LoginState /\ stream[r] \in Seq(Event) /\ ~ended(login[r])
  BY <1>1, <1>2, Unmoved DEF ended
<1>4. CASE FailLogin(r)
  <2>1. PICK result \in {"session", "error", "cancelled"} :
            login' = [login EXCEPT ![r] = endedWith(login[r], result)]
    BY <1>4 DEF FailLogin, FailLoginAs, endedWith
  <2>2. stream' = sent(r, "error", None)
    BY <1>4 DEF FailLogin, FailLoginAs
  <2> QED BY <1>2, <1>3, <2>1, <2>2, StudentFails
<1>5. CASE Finish(r) /\ ~FailLogin(r)
  <2>1. login' = [login EXCEPT ![r].pc = "over", ![r].result = "session"]
        /\ stream' = sent(r, "done", None)
    BY <1>5 DEF Finish
  <2>2. login' = [login EXCEPT ![r] = endedWith(login[r], "session")]
    BY <1>1, <2>1 DEF State, endedWith
  <2> QED BY <1>2, <1>3, <2>1, <2>2, StudentFails
<1>6. CASE AutomationEnds(r) /\ ~FailLogin(r)
  <2>1. PICK l1 : l1 = [login[r] EXCEPT !.pc = "finishing"]
    OBVIOUS
  <2>2. login' = [login EXCEPT ![r] = l1] /\ stream' = stream
    BY <1>1, <1>6, <2>1 DEF AutomationEnds, State
  <2>3. /\ l1 \in LoginState /\ l1.pc = "finishing" /\ l1.ask = login[r].ask
        /\ l1.active = login[r].active
    BY <1>3, <2>1 DEF LoginState
  <2>4. stream' = [stream EXCEPT ![r] = stream[r]] /\ \A i \in 1..Len(stream[r]) : ~asks(stream[r], i)
    BY <1>1, <2>2, Unmoved DEF StudentOK, Plain
  <2> QED BY <1>2, <1>3, <2>2, <2>3, <2>4, StudentGoes
<1> QED BY <1>4, <1>5, <1>6

LEMMA StudentCancels ==
    ASSUME State, NEW r \in Student, StudentOK(r), RequestAborts(r) \/ StreamCancels(r)
    PROVE  StudentStep(r)
<1>1. r \in Login
  BY DEF Login
<1>2. /\ ~ended(login[r]) /\ login[r].pc \notin awaitsSignal /\ tab' = tab /\ relay' = relay
      /\ faults' = faults /\ scenario' = scenario /\ stream' = stream
  BY DEF RequestAborts, StreamCancels, ended, StudentOK, Plain, awaitsSignal
<1>3. login[r] \in LoginState
  BY <1>1, Unmoved
<1>4. \E l1 \in LoginState :
          /\ login' = [login EXCEPT ![r] = l1]
          /\ l1.pc = login[r].pc /\ l1.ask = login[r].ask
          /\ l1.active => login[r].active
  <2>1. CASE RequestAborts(r)
    <3>1. PICK l1 : l1 = abandoned(login[r])
      OBVIOUS
    <3>2. login' = [login EXCEPT ![r] = l1]
      BY <1>2, <2>1, <3>1 DEF RequestAborts, abandoned
    <3>3. /\ l1 \in LoginState /\ l1.pc = login[r].pc /\ l1.ask = login[r].ask
          /\ l1.active => login[r].active
      BY <1>3, <3>1 DEF abandoned, LoginState
    <3> QED BY <3>2, <3>3
  <2>2. CASE StreamCancels(r)
    <3>1. PICK l1 : l1 = uncoupled(login[r])
      OBVIOUS
    <3>2. login' = [login EXCEPT ![r] = l1]
      BY <1>1, <2>2, <3>1 DEF StreamCancels, uncoupled, State
    <3>3. /\ l1 \in LoginState /\ l1.pc = login[r].pc /\ l1.ask = login[r].ask
          /\ l1.active => login[r].active
      BY <1>3, <3>1 DEF uncoupled, LoginState
    <3> QED BY <3>2, <3>3
  <2> QED BY <2>1, <2>2
<1>5. /\ stream' = [stream EXCEPT ![r] = stream[r]] /\ stream[r] \in Seq(Event)
      /\ \A i \in 1..Len(stream[r]) : ~asks(stream[r], i)
  BY <1>1, <1>2, Unmoved DEF StudentOK, Plain
<1>6. login[r].pc \in {"idle", "browsing", "finishing", "over"}
  BY DEF StudentOK, Plain
<1> QED BY <1>2, <1>4, <1>5, <1>6, StudentGoes

LEMMA StudentReads ==
    ASSUME State, NEW r \in Student, StudentOK(r), ReadEvent(r) \/ Leave(r)
    PROVE  StudentStep(r)
<1>1. r \in Login
  BY DEF Login
<1>2. /\ login' = login /\ relay' = relay /\ faults' = faults /\ scenario' = scenario
  BY DEF ReadEvent, Leave
<1>3. /\ tab[r] \in TabState /\ stream[r] \in Seq(Event) /\ login[r] \in LoginState
      /\ login = [login EXCEPT ![r] = login[r]] /\ stream = [stream EXCEPT ![r] = stream[r]]
  BY <1>1, Unmoved
<1>4. /\ \A i \in 1..Len(stream[r]) : ~asks(stream[r], i)
      /\ tab[r].challenge = None /\ tab[r].phase = "none"
  BY DEF StudentOK, Plain
<1>5. \E result \in {None, "signed", "failed", "overlapping", "left"} :
          tab' = [tab EXCEPT ![r] = closed(tab[r], result)]
  <2>1. CASE Leave(r)
    BY <1>1, <2>1 DEF Leave, State
  <2>2. CASE ReadEvent(r)
    <3>1. stream[r] # <<>> /\ Head(stream[r]) = stream[r][1] /\ 1 \in 1..Len(stream[r])
          /\ stream[r][1] \in Event
      BY <1>3, <2>2 DEF ReadEvent
    <3>2. Head(stream[r]).type \in {"done", "error"}
      BY <1>4, <3>1 DEF asks, Event
    <3>3. \E result \in {"signed", "failed"} : tab' = [tab EXCEPT ![r] = thrown(tab[r], result)]
      BY <2>2, <3>2 DEF ReadEvent
    <3> QED BY <1>4, <3>3 DEF thrown
  <2> QED BY <2>1, <2>2
<1>6. PICK result \in {None, "signed", "failed", "overlapping", "left"} :
          tab' = [tab EXCEPT ![r] = closed(tab[r], result)]
  BY <1>5
<1>7. PICK t1 : t1 = closed(tab[r], result)
  OBVIOUS
<1>8. t1 \in TabState /\ t1.challenge = None /\ t1.phase = "none"
  BY <1>3, <1>4, <1>7, PageEnds
<1>9. \E s1 \in Seq(Event) :
          /\ stream' = [stream EXCEPT ![r] = s1]
          /\ \A i \in 1..Len(s1) : ~asks(s1, i)
  <2>1. CASE Leave(r)
    BY <1>3, <1>4, <2>1 DEF Leave
  <2>2. CASE ReadEvent(r)
    <3>1. stream' = [stream EXCEPT ![r] = Tail(stream[r])] /\ stream[r] # <<>>
      BY <1>1, <2>2 DEF ReadEvent, State
    <3>2. PICK s : s = stream[r]
      OBVIOUS
    <3>3. PICK s1 : s1 = Tail(s)
      OBVIOUS
    <3>4. /\ s1 \in Seq(Event) /\ Len(s1) = Len(s) - 1 /\ Len(s) \in Nat
          /\ \A i \in 1..Len(s1) : s1[i] = s[i + 1]
      BY <1>3, <3>1, <3>2, <3>3
    <3>5. \A i \in 1..Len(s1) : ~asks(s1, i)
      BY <1>4, <3>2, <3>4 DEF asks
    <3> QED BY <3>1, <3>2, <3>3, <3>4, <3>5
  <2> QED BY <2>1, <2>2
<1>10. PICK s1 \in Seq(Event) :
          /\ stream' = [stream EXCEPT ![r] = s1]
          /\ \A i \in 1..Len(s1) : ~asks(s1, i)
  BY <1>9
<1>11. Plain(login[r], s1, t1)
  BY <1>8, <1>10 DEF StudentOK, Plain
<1>12. ~ended(login[r]) => ~ended(login[r])
  OBVIOUS
<1> QED BY <1>2, <1>3, <1>6, <1>7, <1>8, <1>10, <1>11, <1>12, StudentStays

\* What no student's login does.
LEMMA StudentNever ==
    ASSUME NEW r \in Student, StudentOK(r)
    PROVE  /\ ~GetChallenge(r) /\ ~Recognise(r) /\ ~PrepareRelay(r) /\ ~AskPerson(r)
           /\ ~WaitStep(r) /\ ~AskEnds(r) /\ ~CancelAsk(r) /\ ~Authenticate(r)
           /\ ~SolveCaptcha(r) /\ ~HearOutcome(r)
  BY DEF StudentOK, Plain, GetChallenge, Recognise, PrepareRelay, AskPerson, WaitStep, AskEnds,
         CancelAsk, Authenticate, SolveCaptcha, HearOutcome

\* No login moves.
LEMMA OthersStay ==
    ASSUME State, LoginsOK, UNCHANGED <<login, relay, stream, tab>>, Bounded
    PROVE  State' /\ LoginsOK'
<1>1. scenario' = scenario /\ coordinator' = coordinator /\ faults' \in {faults, faults + 1}
  BY DEF Bounded, coordinator
<1>2. faults' \in 0..scenario'.faults
  BY SignInAssumption DEF Bounded, State
<1>3. State'
  BY <1>1, <1>2 DEF State
<1>4. ASSUME NEW q \in Guardian PROVE GuardianOK(q)'
  <2>1. relays(q)' = relays(q)
    BY DEF relays
  <2>2. faults \in Nat
    BY GuardianTyped
  <2>3. Guarded(coordinator, faults', q, login[q], relays(q), stream[q], tab[q])
    BY <1>1, <2>2, OnlyFaults DEF LoginsOK, GuardianOK
  <2> QED BY <1>1, <2>1, <2>3 DEF GuardianOK
<1>5. ASSUME NEW q \in Student PROVE StudentOK(q)'
  BY DEF LoginsOK, StudentOK
<1> QED BY <1>3, <1>4, <1>5 DEF LoginsOK

-----------------------------------------------------------------------------
(* The three coordinators implement the one-shot answer.                   *)

LEMMA OneShotStep ==
    ASSUME State, NEW r \in Guardian, GuardianStep(r)
    PROVE  Relays!Next \/ UNCHANGED Relays!vars
<1>1. PICK k \in 1..2 :
          /\ \A c \in Challenge : c # <<r, k>> => relay'[c] = relay[c]
          /\ Follows(relay[<<r, k>>], relay'[<<r, k>>])
  BY DEF GuardianStep
<1>2. PICK c \in Challenge : c = <<r, k>>
  BY GuardianTyped
<1> DEFINE acked0 == [d \in Challenge |-> relay[d].acked]
           got0 == [d \in Challenge |-> relay[d].got]
<1>3. PICK acked1, got1 : /\ acked1 = [d \in Challenge |-> relay'[d].acked]
                          /\ got1 = [d \in Challenge |-> relay'[d].got]
  OBVIOUS
<1>4. /\ acked1 = [acked0 EXCEPT ![c] = acked1[c]] /\ got1 = [got0 EXCEPT ![c] = got1[c]]
      /\ acked0[c] # None => acked1[c] = acked0[c]
      /\ got0[c] # None => got1[c] = got0[c]
      /\ acked1[c] # acked0[c] => acked1[c] \in Answer
      /\ got1[c] # got0[c] => got1[c] \in Failure \/ (got1[c] = acked1[c] /\ acked1[c] # None)
      /\ got1[c] # got0[c] /\ got1[c] \in Failure => acked1[c] = acked0[c]
  <2>1. /\ acked1 = [acked0 EXCEPT ![c] = acked1[c]] /\ got1 = [got0 EXCEPT ![c] = got1[c]]
    BY <1>1, <1>2, <1>3
  <2>2. /\ acked0[c] = relay[c].acked /\ acked1[c] = relay'[c].acked
        /\ got0[c] = relay[c].got /\ got1[c] = relay'[c].got
    BY <1>3
  <2> HIDE DEF acked0, got0
  <2> QED BY <1>1, <1>2, <2>1, <2>2 DEF Follows
<1>5. UNCHANGED Relays!vars <=> acked1 = acked0 /\ got1 = got0
  BY <1>3 DEF Relays!vars
<1>6. ASSUME NEW a \in Answer, acked0[c] = None, acked1 = [acked0 EXCEPT ![c] = a]
      PROVE  Relays!Acknowledge(c, a)
  BY <1>3, <1>6 DEF Relays!Acknowledge
<1>7. ASSUME got0[c] = None, acked1[c] # None, got1 = [got0 EXCEPT ![c] = acked1[c]]
      PROVE  Relays!Deliver(c)
  BY <1>3, <1>7 DEF Relays!Deliver
<1>8. ASSUME NEW f \in Failure, got0[c] = None, got1 = [got0 EXCEPT ![c] = f]
      PROVE  Relays!GiveUp(c)
  BY <1>3, <1>8 DEF Relays!GiveUp
<1>e. /\ acked1[c] = acked0[c] => acked1 = acked0
      /\ got1[c] = got0[c] => got1 = got0
  BY <1>1, <1>2, <1>3
<1>9. /\ acked1 = acked0 <=> [d \in Challenge |-> relay[d].acked]' = [d \in Challenge |-> relay[d].acked]
      /\ got1 = got0 <=> [d \in Challenge |-> relay[d].got]' = [d \in Challenge |-> relay[d].got]
  BY <1>3
<1> HIDE DEF acked0, got0
<1>10. CASE acked1[c] # acked0[c]
  <2>1. Relays!Acknowledge(c, acked1[c]) /\ acked1[c] \in Answer
    BY <1>4, <1>6, <1>10
  <2>2. got1 = got0 \/ Relays!Deliver(c)
    BY <1>4, <1>e, <1>7, <1>10
  <2> QED BY <1>9, <2>1, <2>2 DEF Relays!Next
<1>11. CASE acked1[c] = acked0[c] /\ got1[c] # got0[c]
  <2>1. acked1 = acked0
    BY <1>e, <1>11
  <2>2. Relays!Deliver(c) \/ Relays!GiveUp(c)
    BY <1>4, <1>7, <1>8, <1>11
  <2> QED BY <1>9, <2>1, <2>2 DEF Relays!Next
<1>12. CASE acked1[c] = acked0[c] /\ got1[c] = got0[c]
  <2>1. acked1 = acked0 /\ got1 = got0
    BY <1>e, <1>12
  <2> QED BY <1>5, <2>1
<1> QED BY <1>10, <1>11, <1>12

-----------------------------------------------------------------------------
(* The browsers.                                                           *)

\* What a step of the automation of l leaves of the others.
Drive(l) ==
    /\ BrowserTypeOK' /\ kind' = kind
    /\ \A q \in Student : q # l => auto'[q] = auto[q]
    /\ \A b \in Browser : browser[b] # "none" => browser'[b] # "none"
    /\ cache'.entry # NoBrowser => browser'[cache'.entry] # "none"
    /\ kind = "cloudflare" => cache'.entry = NoBrowser

Has(l, b) == cache.entry = b \/ (auto[l].pc # "over" /\ auto[l].using = b)

\* A browser that l launches, uses or finds is used or cached afterwards.
Handled(l) ==
    \A b \in Browser :
        browser'[b] = "live" /\ (browser[b] # "live" \/ Has(l, b)) => Has(l, b)'

Quiet ==
    /\ cache'.entry = cache.entry
    /\ \A b \in Browser : browser[b] # "none" /\ browser'[b] = "live" => browser[b] = "live"

\* No other login of the account has a browser.
Single(l) == ~scenario.overlap => \A q \in Student : q # l => ~busy(q)

LEMMA OneLoginKept ==
    ASSUME OneLogin, NEW r \in Login, Alone(r), scenario' = scenario
    PROVE  OneLogin'
<1> SUFFICES ASSUME ~scenario.overlap, NEW p \in Login, NEW q \in Login,
                    ~ended(login'[p]), ~ended(login'[q])
             PROVE  p = q
  BY DEF OneLogin, ended
<1>1. \A d \in Login : d # r => login'[d] = login[d]
  BY DEF Alone
<1>2. ~ended(login'[r]) => ~ended(login[r]) \/ \A d \in Login : ended(login[d])
  BY DEF Alone
<1>3. CASE p = r /\ q # r
  BY <1>1, <1>2, <1>3 DEF OneLogin
<1>4. CASE p # r /\ q = r
  BY <1>1, <1>2, <1>4 DEF OneLogin
<1>5. CASE p # r /\ q # r
  BY <1>1, <1>5 DEF OneLogin
<1> QED BY <1>3, <1>4, <1>5

LEMMA Alones ==
    ASSUME OneLogin, BrowsersOK, NEW l \in Student, ~ended(login[l])
    PROVE  Single(l)
<1> SUFFICES ASSUME ~scenario.overlap, NEW q \in Student, q # l, busy(q) PROVE FALSE
  BY DEF Single
<1>1. ~ended(login[q])
  BY DEF BrowsersOK, AutomationOK, ended
<1> QED BY <1>1 DEF OneLogin, Login

\* The logins that do not take the step.
LEMMA OtherAutomation ==
    ASSUME BrowserTypeOK, BrowsersOK, NEW l, Drive(l), Quiet \/ Single(l), scenario' = scenario,
           NEW q \in Student, q # l, login'[q].pc = login[q].pc
    PROVE  AutomationOK(q)'
<1>1. AutomationOK(q) /\ auto'[q] = auto[q] /\ kind' = kind
  BY DEF BrowsersOK, Drive
<1>2. auto[q].using \in Browser \cup {NoBrowser} /\ auto[q].cached \in Browser \cup {NoBrowser}
  BY DEF BrowserTypeOK, Automation
<1>3. /\ auto[q].using # NoBrowser => busy(q) /\ browser'[auto[q].using] # "none"
      /\ auto[q].cached # NoBrowser => browser'[auto[q].cached] # "none"
  BY <1>1, <1>2 DEF AutomationOK, Drive
<1>4. CASE Single(l) /\ ~scenario.overlap
  <2>1. ~busy(q)
    BY <1>4 DEF Single
  <2> QED BY <1>1, <1>3, <2>1 DEF AutomationOK, busy
<1>5. CASE scenario.overlap
  BY <1>1, <1>3, <1>5 DEF AutomationOK, busy
<1>6. CASE Quiet
  <2>1. cache'.entry = cache.entry /\ cache.entry \in Browser \cup {NoBrowser}
    BY <1>6 DEF Quiet, BrowserTypeOK
  <2>2. auto[q].using # NoBrowser => browser[auto[q].using] # "none"
    BY <1>1 DEF AutomationOK
  <2>3. cache.entry # NoBrowser => browser[cache.entry] # "none"
    BY DEF BrowsersOK
  <2>4. live(auto[q].using)' => live(auto[q].using)
    BY <1>1, <1>2, <1>6, <2>2 DEF live, Quiet
  <2>5. live(cache.entry)' => live(cache.entry)
    BY <1>6, <2>1, <2>3 DEF live, Quiet
  <2> QED BY <1>1, <1>3, <2>1, <2>4, <2>5 DEF AutomationOK, busy
<1> QED BY <1>4, <1>5, <1>6

LEMMA BrowsersKeep ==
    ASSUME BrowserTypeOK, BrowsersOK, NEW l \in Student, Drive(l), Quiet \/ Single(l),
           scenario' = scenario, \A q \in Student : q # l => login'[q].pc = login[q].pc,
           AutomationOK(l)', apart => Handled(l)
    PROVE  BrowserTypeOK' /\ BrowsersOK'
<1>1. \A q \in Student : AutomationOK(q)'
  BY OtherAutomation
<1>2. apart' <=> apart
  BY DEF apart, Drive
<1>3. ASSUME apart PROVE NoBrowserOrphaned'
  <2> SUFFICES ASSUME NEW b \in Browser, live(b)' PROVE driving(b)' \/ cache'.entry = b
    BY DEF NoBrowserOrphaned, orphaned
  <2>1. browser'[b] = "live" /\ b # NoBrowser
    BY DEF live
  <2>2. CASE browser[b] # "live" \/ Has(l, b)
    <3>1. Has(l, b)'
      BY <1>3, <2>1, <2>2 DEF Handled
    <3> QED BY <3>1 DEF Has, driving
  <2>3. CASE browser[b] = "live" /\ ~Has(l, b)
    <3>1. driving(b)
      BY <1>3, <2>1, <2>3 DEF BrowsersOK, NoBrowserOrphaned, orphaned, live, Has
    <3>2. PICK q \in Student : auto[q].pc # "over" /\ auto[q].using = b
      BY <3>1 DEF driving
    <3>3. q # l
      BY <2>3, <3>2 DEF Has
    <3>4. auto'[q] = auto[q]
      BY <3>3 DEF Drive
    <3> QED BY <3>2, <3>4 DEF driving
  <2> QED BY <2>2, <2>3
<1> QED BY <1>1, <1>2, <1>3 DEF BrowsersOK, Drive

\* Closing browsers, and evicting the cached one.
LEMMA Closed ==
    ASSUME BrowserTypeOK, BrowsersOK, NEW b \in Browser \cup {NoBrowser}, Close({b})
    PROVE  /\ browser' \in [Browser -> {"none", "live", "closed"}]
           /\ cache' \in [entry: Browser \cup {NoBrowser}, closed: BOOLEAN]
           /\ Quiet
           /\ b # NoBrowser => browser'[b] = "closed"
           /\ \A a \in Browser : browser[a] # "none" => browser'[a] # "none"
           /\ \A a \in Browser : a # b => browser'[a] = browser[a]
           /\ cache'.entry # NoBrowser => browser'[cache'.entry] # "none"
<1>1. browser' = shut({b} \ {NoBrowser}) /\ cache' = cacheAfter({b} \ {NoBrowser})
  BY DEF Close
<1>2. /\ cache' \in [entry: Browser \cup {NoBrowser}, closed: BOOLEAN]
      /\ cache'.entry = cache.entry
  BY <1>1 DEF cacheAfter, BrowserTypeOK
<1>3. /\ browser' \in [Browser -> {"none", "live", "closed"}]
      /\ \A a \in Browser : browser'[a] = IF a = b /\ b # NoBrowser THEN "closed" ELSE browser[a]
  BY <1>1 DEF shut, BrowserTypeOK
<1>4. cache.entry # NoBrowser => browser[cache.entry] # "none"
  BY DEF BrowsersOK
<1>5. cache.entry \in Browser \cup {NoBrowser}
  BY DEF BrowserTypeOK
<1>6. \A a \in Browser : a # NoBrowser
  BY BrowserAssumption DEF Browser, NoBrowser
<1> QED BY <1>2, <1>3, <1>4, <1>5, <1>6 DEF Quiet

LEMMA Evicted ==
    ASSUME BrowserTypeOK, BrowsersOK, EvictCachedSession({})
    PROVE  /\ browser' \in [Browser -> {"none", "live", "closed"}]
           /\ cache' \in [entry: Browser \cup {NoBrowser}, closed: BOOLEAN]
           /\ cache'.entry = NoBrowser
           /\ cache.entry # NoBrowser => browser'[cache.entry] = "closed"
           /\ \A a \in Browser : browser[a] # "none" => browser'[a] # "none"
           /\ \A a \in Browser : a # cache.entry => browser'[a] = browser[a]
<1>1. browser' = shut({cache.entry} \ {NoBrowser}) /\ cache' = [entry |-> NoBrowser, closed |-> FALSE]
  BY DEF EvictCachedSession
<1>2. cache' \in [entry: Browser \cup {NoBrowser}, closed: BOOLEAN] /\ cache'.entry = NoBrowser
  BY <1>1
<1>3. \A a \in Browser : a # NoBrowser
  BY BrowserAssumption DEF Browser, NoBrowser
<1>4. /\ browser' \in [Browser -> {"none", "live", "closed"}]
      /\ \A a \in Browser : browser'[a] = IF a = cache.entry THEN "closed" ELSE browser[a]
  BY <1>1, <1>3 DEF shut, BrowserTypeOK
<1>5. cache.entry \in Browser \cup {NoBrowser}
  BY DEF BrowserTypeOK
<1> QED BY <1>2, <1>4, <1>5

\* What the automation of l keeps, whether its attempt goes on or fails.
LEMMA Onward ==
    ASSUME BrowserTypeOK, BrowsersOK, NEW l \in Student, Drive(l), scenario' = scenario,
           busy(l) => login'[l].pc = "browsing", cache'.entry = cache.entry,
           \A b \in Browser : browser'[b] = "live" => browser[b] = "live",
           auto'[l].using = auto[l].using, auto'[l].reusing = auto[l].reusing,
           auto'[l].attempt = auto[l].attempt, auto'[l].cached = auto[l].cached,
           \/ auto'[l].pc = auto[l].pc /\ (auto[l].pc = "launching" => auto'[l].launching)
           \/ auto[l].pc \in {"launching", "flow"} /\ auto'[l].pc = "failing"
    PROVE  Quiet /\ AutomationOK(l)' /\ Handled(l)
<1>1. AutomationOK(l) /\ kind' = kind
  BY DEF BrowsersOK, Drive
<1>2. /\ auto[l].using \in Browser \cup {NoBrowser} /\ cache.entry \in Browser \cup {NoBrowser}
      /\ auto[l].cached \in Browser \cup {NoBrowser}
  BY DEF BrowserTypeOK, Automation
<1>3. Quiet
  BY DEF Quiet
<1>4. /\ auto[l].using # NoBrowser => browser'[auto[l].using] # "none"
      /\ auto[l].cached # NoBrowser => browser'[auto[l].cached] # "none"
      /\ live(auto[l].using)' => live(auto[l].using)
      /\ live(cache.entry)' => live(cache.entry)
  BY <1>1, <1>2 DEF AutomationOK, Drive, live
<1>5. busy(l)' <=> busy(l)
  BY DEF busy
<1>6. AutomationOK(l)'
  BY <1>1, <1>4, <1>5 DEF AutomationOK, busy
<1>7. Handled(l)
  BY <1>1 DEF Handled, Has
<1> QED BY <1>3, <1>6, <1>7

\* A login that is over leaves its browser to the cache or closed.
LEMMA Finished ==
    ASSUME NEW l \in Student, auto'[l].pc = "over", auto'[l].using = NoBrowser,
           auto'[l].cached = NoBrowser, ~auto'[l].reusing
    PROVE  AutomationOK(l)'
  BY DEF AutomationOK, busy, live

LEMMA Over ==
    ASSUME NEW x \in Automation, NEW result \in {"signed", "failed"}
    PROVE  /\ over(x, result) \in Automation /\ over(x, result).pc = "over"
           /\ over(x, result).using = NoBrowser /\ over(x, result).cached = NoBrowser
           /\ ~over(x, result).reusing
<1>1. PICK n : n = NoAutomation
  OBVIOUS
<1>2. n \in Automation /\ n.using = NoBrowser /\ n.cached = NoBrowser /\ ~n.reusing
  <2>1. /\ NoBrowser \in Browser \cup {NoBrowser} /\ "studenthub" \in Place /\ 0 \in 0..2
    BY DEF Place
  <2> QED BY <1>1, <2>1 DEF NoAutomation, Automation
<1>3. PICK f, g \in BOOLEAN : f = x.found /\ g = x.launching
  BY DEF Automation
<1>4. over(x, result) = [n EXCEPT !.pc = "over", !.result = result, !.found = f, !.launching = g]
  BY <1>1, <1>3 DEF over
<1> HIDE DEF NoAutomation
<1> QED BY <1>2, <1>3, <1>4 DEF Automation

LEMMA AutomationTyped ==
    ASSUME BrowserTypeOK, NEW l \in Student
    PROVE  /\ auto[l] \in Automation
           /\ auto[l].using \in Browser \cup {NoBrowser}
           /\ cache.entry \in Browser \cup {NoBrowser}
           /\ \A b \in Browser : b # NoBrowser
<1>1. auto[l] \in Automation
  BY DEF BrowserTypeOK
<1>2. \A b \in Browser : b # NoBrowser
  BY BrowserAssumption DEF Browser, NoBrowser
<1> QED BY <1>1, <1>2 DEF BrowserTypeOK, Automation

LEMMA AutoSet ==
    ASSUME BrowserTypeOK, NEW l \in Student, NEW x1 \in Automation,
           auto' = [auto EXCEPT ![l] = x1], kind' = kind,
           browser' \in [Browser -> {"none", "live", "closed"}],
           cache' \in [entry: Browser \cup {NoBrowser}, closed: BOOLEAN],
           \A a \in Browser : browser[a] # "none" => browser'[a] # "none",
           cache'.entry # NoBrowser => browser'[cache'.entry] # "none",
           kind = "cloudflare" => cache'.entry = NoBrowser
    PROVE  Drive(l) /\ auto'[l] = x1
<1>1. auto' \in [Student -> Automation] /\ auto'[l] = x1
      /\ \A q \in Student : q # l => auto'[q] = auto[q]
  BY DEF BrowserTypeOK
<1>2. BrowserTypeOK'
  BY <1>1 DEF BrowserTypeOK
<1> QED BY <1>1, <1>2 DEF Drive

\* The same, where no browser changes.
LEMMA AutoSetOnly ==
    ASSUME BrowserTypeOK, BrowsersOK, NEW l \in Student, NEW x1 \in Automation,
           auto' = [auto EXCEPT ![l] = x1], kind' = kind, browser' = browser, cache' = cache
    PROVE  Drive(l) /\ auto'[l] = x1
<1>1. /\ browser' \in [Browser -> {"none", "live", "closed"}]
      /\ cache' \in [entry: Browser \cup {NoBrowser}, closed: BOOLEAN]
  BY DEF BrowserTypeOK
<1>2. /\ \A a \in Browser : browser[a] # "none" => browser'[a] # "none"
      /\ cache'.entry # NoBrowser => browser'[cache'.entry] # "none"
      /\ kind = "cloudflare" => cache'.entry = NoBrowser
  BY DEF BrowsersOK
<1> QED BY <1>1, <1>2, AutoSet

LEMMA DoBegin ==
    ASSUME BrowserTypeOK, BrowsersOK, NEW l \in Student, scenario' = scenario, Single(l),
           login'[l].pc = "browsing", Begin(l)
    PROVE  Drive(l) /\ AutomationOK(l)' /\ Handled(l)
<1>1. /\ auto[l] \in Automation /\ cache.entry \in Browser \cup {NoBrowser}
      /\ \A b \in Browser : b # NoBrowser
  BY AutomationTyped
<1>2. PICK x1 : x1 = [auto[l] EXCEPT !.pc = "start"]
  OBVIOUS
<1>3. auto' = [auto EXCEPT ![l] = x1] /\ kind' = kind /\ auto[l].pc = "idle"
  BY <1>2 DEF Begin, BrowserTypeOK
<1>4. /\ x1 \in Automation /\ x1.pc = "start" /\ x1.using = auto[l].using
      /\ x1.reusing = auto[l].reusing /\ x1.attempt = auto[l].attempt
      /\ x1.cached = auto[l].cached
  BY <1>1, <1>2 DEF Automation
<1>5. /\ auto[l].using = NoBrowser /\ auto[l].attempt \in 0..1
      /\ kind = "cloudflare" => ~auto[l].reusing
  BY <1>3 DEF BrowsersOK, AutomationOK, busy
<1>6. /\ Drive(l) /\ auto'[l] = x1
      /\ \/ browser' = browser /\ cache' = cache
         \/ cache.entry # NoBrowser /\ EvictCachedSession({})
  <2>1. CASE browser' = browser /\ cache' = cache
    BY <1>3, <1>4, <2>1, AutoSetOnly
  <2>2. CASE cache.entry # NoBrowser /\ EvictCachedSession({})
    BY <1>3, <1>4, <2>2, Evicted, AutoSet
  <2> QED BY <2>1, <2>2 DEF Begin
<1>a. auto[l].cached # NoBrowser => browser'[auto[l].cached] # "none"
  BY <1>1, <1>6 DEF Drive, BrowsersOK, AutomationOK, Automation
<1>7. AutomationOK(l)'
  BY <1>3, <1>4, <1>5, <1>6, <1>a DEF AutomationOK, busy, live
<1>8. Handled(l)
  <2> SUFFICES ASSUME NEW b \in Browser, browser'[b] = "live",
                      browser[b] # "live" \/ Has(l, b)
               PROVE  Has(l, b)'
    BY DEF Handled
  <2>1. CASE browser' = browser /\ cache' = cache
    BY <1>1, <1>4, <1>5, <1>6, <2>1 DEF Has
  <2>2. CASE cache.entry # NoBrowser /\ EvictCachedSession({})
    <3>1. b # cache.entry /\ browser'[b] = browser[b]
      BY <2>2, Evicted
    <3> QED BY <1>1, <1>5, <3>1 DEF Has
  <2> QED BY <1>6, <2>1, <2>2
<1> QED BY <1>6, <1>7, <1>8

LEMMA DoStartAttempt ==
    ASSUME BrowserTypeOK, BrowsersOK, NEW l \in Student, scenario' = scenario,
           login'[l].pc = "browsing", StartAttempt(l)
    PROVE  Drive(l) /\ Quiet /\ AutomationOK(l)' /\ (apart => Handled(l))
<1>1. /\ auto[l] \in Automation /\ cache.entry \in Browser \cup {NoBrowser}
      /\ \A b \in Browser : b # NoBrowser
  BY AutomationTyped
<1>2. auto[l].pc = "start" /\ browser' = browser /\ cache' = cache /\ kind' = kind
  BY DEF StartAttempt
<1>3. AutomationOK(l) /\ auto[l].attempt \in 0..1
  BY <1>2 DEF BrowsersOK, AutomationOK
<1>4. PICK again \in BOOLEAN : again <=> reusable
  OBVIOUS
<1>5. again => cache.entry # NoBrowser /\ kind # "cloudflare"
  BY <1>4 DEF reusable, BrowsersOK
<1>6. kind = "local" /\ ~again => ~live(cache.entry)
  BY <1>4 DEF reusable, live
<1>7. PICK x1 \in Automation :
          /\ auto' = [auto EXCEPT ![l] = x1]
          /\ x1.reusing <=> again
          /\ x1.using = IF again THEN cache.entry ELSE NoBrowser
          /\ x1.cached = cache.entry
          /\ x1.pc \in {"failing", "flow", "launching"}
          /\ x1.pc = "launching" => ~again /\ x1.launching
  <2>f. auto[l].found \in BOOLEAN
    BY <1>1 DEF Automation
  <2>e. auto[l].attempt + 1 \in 0..2
    BY <1>3
  <2>a. PICK n \in 0..2, u \in Browser \cup {NoBrowser}, p \in Place :
              /\ n = auto[l].attempt + 1 /\ u = (IF again THEN cache.entry ELSE NoBrowser)
              /\ p = "studenthub"
    BY <1>1, <2>e DEF Place
  <2>b. PICK g, f, c \in BOOLEAN :
              g = ~again /\ f = (IF kind = "patchright" THEN FALSE ELSE auto[l].found) /\ c = FALSE
    BY <2>f
  <2>c. PICK z : z = [auto[l] EXCEPT !.attempt = n, !.cached = cache.entry, !.using = u, !.place = p]
    OBVIOUS
  <2>d. z \in Automation /\ z.using = u /\ z.cached = cache.entry
    BY <1>1, <2>a, <2>c DEF Automation
  <2>1. PICK y : y = [z EXCEPT !.reusing = again, !.late = c, !.launching = g, !.found = f]
    OBVIOUS
  <2>2. y \in Automation /\ (y.reusing <=> again) /\ (y.launching <=> ~again)
        /\ y.using = (IF again THEN cache.entry ELSE NoBrowser) /\ y.cached = cache.entry
    <3>1. y \in Automation /\ y.using = u /\ y.cached = cache.entry
      <4>1. again \in BOOLEAN /\ c \in BOOLEAN /\ g \in BOOLEAN /\ f \in BOOLEAN
        BY <1>4, <2>b
      <4> QED BY <2>d, <2>1, <4>1 DEF Automation
    <3>2. y.reusing = again /\ y.launching = g
      BY <2>d, <2>1 DEF Automation
    <3> QED BY <2>a, <2>b, <3>1, <3>2
  <2>3. PICK x1 : x1 = IF auto[l].aborted THEN [y EXCEPT !.pc = "failing", !.error = "late"]
                       ELSE [y EXCEPT !.pc = IF again THEN "flow" ELSE "launching"]
    OBVIOUS
  <2>4. auto' = [auto EXCEPT ![l] = x1]
    <3>1. again = reusable
      BY <1>4 DEF reusable, live
    <3>2. y = [auto[l] EXCEPT !.attempt = n, !.cached = cache.entry, !.using = u, !.place = p,
                              !.reusing = again, !.late = c, !.launching = g, !.found = f]
      BY <1>1, <2>c, <2>1 DEF Automation
    <3>3. y = [auto[l] EXCEPT !.attempt = n, !.reusing = again, !.cached = cache.entry,
                       !.using = u, !.place = p, !.late = c, !.launching = g, !.found = f]
      BY <1>1, <3>2 DEF Automation
    <3>4. y = [auto[l] EXCEPT !.attempt = @ + 1, !.reusing = reusable, !.cached = cache.entry,
                       !.using = IF reusable THEN cache.entry ELSE NoBrowser,
                       !.place = "studenthub", !.late = FALSE, !.launching = ~reusable,
                       !.found = IF kind = "patchright" THEN FALSE ELSE @]
      BY <2>a, <2>b, <3>1, <3>3
    <3> QED BY <2>3, <3>1, <3>4 DEF StartAttempt
  <2>5. /\ x1 \in Automation /\ (x1.reusing <=> again)
        /\ x1.using = (IF again THEN cache.entry ELSE NoBrowser) /\ x1.cached = cache.entry
        /\ x1.pc \in {"failing", "flow", "launching"}
        /\ x1.pc = "launching" => ~again /\ x1.launching
    BY <2>2, <2>3 DEF Automation
  <2> QED BY <2>4, <2>5
<1>8. Drive(l) /\ auto'[l] = x1
  BY <1>2, <1>7, AutoSetOnly
<1>9. Quiet
  BY <1>2 DEF Quiet
<1>10. AutomationOK(l)'
  <2>1. /\ x1.using # NoBrowser => browser[x1.using] # "none"
        /\ x1.cached # NoBrowser => browser[x1.cached] # "none"
    BY <1>5, <1>7 DEF BrowsersOK
  <2> QED BY <1>2, <1>5, <1>6, <1>7, <1>8, <2>1 DEF AutomationOK, busy, live
<1>11. ASSUME apart PROVE Handled(l)
  <2> SUFFICES ASSUME NEW b \in Browser, browser[b] = "live", Has(l, b) PROVE Has(l, b)'
    BY <1>2 DEF Handled
  <2>1. auto[l].using # b
    BY <1>1, <1>2, <1>3, <1>11 DEF AutomationOK, apart, live
  <2> QED BY <1>2, <2>1 DEF Has
<1> QED BY <1>8, <1>9, <1>10, <1>11


-----------------------------------------------------------------------------
(* What the automation of a login does to the browsers.                    *)

Advances(l) == Drive(l) /\ (Quiet \/ Single(l)) /\ AutomationOK(l)' /\ (apart => Handled(l))

\* It goes on, or its attempt fails.
Goes(x, y) ==
    /\ y \in Automation /\ y.using = x.using /\ y.cached = x.cached
    /\ y.reusing = x.reusing /\ y.attempt = x.attempt
    /\ \/ y.pc = x.pc /\ (x.pc = "launching" => y.launching)
       \/ x.pc \in {"launching", "flow"} /\ y.pc = "failing"

LEMMA GoesOn ==
    ASSUME BrowserTypeOK, BrowsersOK, NEW l \in Student, scenario' = scenario,
           busy(l) => login'[l].pc = "browsing", NEW y, Goes(auto[l], y),
           auto' = [auto EXCEPT ![l] = y], kind' = kind,
           (browser' = browser /\ cache' = cache) \/ Close({auto[l].using})
    PROVE  Advances(l)
<1>1. y \in Automation /\ auto[l].using \in Browser \cup {NoBrowser}
  BY AutomationTyped DEF Goes
<1>2. /\ Drive(l) /\ auto'[l] = y /\ cache'.entry = cache.entry
      /\ \A b \in Browser : browser'[b] = "live" => browser[b] = "live"
  <2>1. CASE browser' = browser /\ cache' = cache
    BY <1>1, <2>1, AutoSetOnly
  <2>2. CASE Close({auto[l].using})
    <3>1. /\ browser' \in [Browser -> {"none", "live", "closed"}]
          /\ cache' \in [entry: Browser \cup {NoBrowser}, closed: BOOLEAN]
          /\ Quiet
          /\ \A a \in Browser : browser[a] # "none" => browser'[a] # "none"
          /\ cache'.entry # NoBrowser => browser'[cache'.entry] # "none"
      BY <1>1, <2>2, Closed
    <3>2. cache'.entry = cache.entry
      BY <3>1 DEF Quiet
    <3>3. kind = "cloudflare" => cache'.entry = NoBrowser
      BY <3>2 DEF BrowsersOK
    <3>4. Drive(l) /\ auto'[l] = y
      BY <1>1, <3>1, <3>3, AutoSet
    <3>5. ASSUME NEW b \in Browser, browser'[b] = "live" PROVE browser[b] = "live"
      BY <1>1, <2>2, <3>5 DEF Close, shut
    <3> QED BY <3>2, <3>4, <3>5
  <2> QED BY <2>1, <2>2
<1>3. /\ auto'[l].using = auto[l].using /\ auto'[l].reusing = auto[l].reusing
      /\ auto'[l].attempt = auto[l].attempt /\ auto'[l].cached = auto[l].cached
      /\ \/ auto'[l].pc = auto[l].pc /\ (auto[l].pc = "launching" => auto'[l].launching)
         \/ auto[l].pc \in {"launching", "flow"} /\ auto'[l].pc = "failing"
  BY <1>2 DEF Goes
<1> QED BY <1>2, <1>3, Onward DEF Advances

\* Failures, and places, of the flow.
LEMMA FlowGoesOn ==
    ASSUME NEW x \in Automation, x.pc = "flow", NEW place \in Place,
           NEW error \in {"hard", "other", "late"}
    PROVE  /\ Goes(x, [x EXCEPT !.place = place])
           /\ Goes(x, [x EXCEPT !.place = place, !.found = TRUE])
           /\ Goes(x, [x EXCEPT !.pc = "failing", !.error = error])
<1>1. PICK y : y = [x EXCEPT !.place = place]
  OBVIOUS
<1>2. Goes(x, y)
  BY <1>1 DEF Goes, Automation
<1>3. PICK z : z = [y EXCEPT !.found = TRUE]
  OBVIOUS
<1>4. Goes(x, z) /\ z = [x EXCEPT !.place = place, !.found = TRUE]
  BY <1>1, <1>2, <1>3 DEF Goes, Automation
<1>5. PICK w : w = [x EXCEPT !.pc = "failing", !.error = error]
  OBVIOUS
<1>6. Goes(x, w)
  BY <1>5 DEF Goes, Automation
<1> QED BY <1>1, <1>2, <1>4, <1>5, <1>6

LEMMA DoFlow ==
    ASSUME BrowserTypeOK, BrowsersOK, NEW l \in Student, scenario' = scenario,
           login'[l].pc = "browsing", FlowStep(l) \/ FlowBreaks(l)
    PROVE  Advances(l)
<1>1. auto[l] \in Automation /\ auto \in [Student -> Automation]
  BY DEF BrowserTypeOK
<1>2. auto[l].pc = "flow" /\ kind' = kind /\ browser' = browser /\ cache' = cache
  BY DEF FlowStep, FlowBreaks
<1>3. PICK x : x = auto[l]
  OBVIOUS
<1>4. \/ \E place \in Place : auto' = [auto EXCEPT ![l] = [x EXCEPT !.place = place]]
      \/ \E place \in Place : auto' = [auto EXCEPT ![l] = [x EXCEPT !.place = place, !.found = TRUE]]
      \/ \E error \in {"hard", "other"} :
            auto' = [auto EXCEPT ![l] = [x EXCEPT !.pc = "failing", !.error = error]]
  <2>1. ASSUME NEW place, FlowGoes(l, place)
        PROVE  auto' = [auto EXCEPT ![l] = [x EXCEPT !.place = place]]
    BY <1>1, <1>3, <2>1 DEF FlowGoes
  <2>2. ASSUME NEW error, FlowFails(l, error)
        PROVE  auto' = [auto EXCEPT ![l] = [x EXCEPT !.pc = "failing", !.error = error]]
    BY <1>1, <1>3, <2>2 DEF FlowFails
  <2>3. ASSUME NEW place, auto' = [auto EXCEPT ![l].place = place, ![l].found = TRUE]
        PROVE  auto' = [auto EXCEPT ![l] = [x EXCEPT !.place = place, !.found = TRUE]]
    BY <1>1, <1>3, <2>3
  <2>4. \/ \E place \in Place : FlowGoes(l, place)
        \/ \E place \in Place : auto' = [auto EXCEPT ![l].place = place, ![l].found = TRUE]
        \/ \E error \in {"hard", "other"} : FlowFails(l, error)
    BY DEF FlowStep, FlowBreaks, OpenStudentHub, ChooseAccount, TypeEmail, TypePassword,
           PickTile, CaptureToken, ConnectCanvas, Place
  <2> QED BY <2>1, <2>2, <2>3, <2>4
<1>5. \E y : Goes(x, y) /\ auto' = [auto EXCEPT ![l] = y]
  <2>1. x \in Automation /\ x.pc = "flow"
    BY <1>1, <1>2, <1>3
  <2>2. \A place \in Place :
          /\ Goes(x, [x EXCEPT !.place = place])
          /\ Goes(x, [x EXCEPT !.place = place, !.found = TRUE])
    BY <2>1, FlowGoesOn
  <2>3. \A error \in {"hard", "other"} : Goes(x, [x EXCEPT !.pc = "failing", !.error = error])
    <3>1. "popup" \in Place
      BY DEF Place
    <3> QED BY <2>1, <3>1, FlowGoesOn
  <2> QED BY <1>4, <2>2, <2>3
<1> QED BY <1>2, <1>3, <1>5, GoesOn

LEMMA Interrupted ==
    ASSUME NEW x \in Automation, NEW y, \/ y = [interruptedFlow(x) EXCEPT !.late = TRUE]
                                        \/ y = [interruptedFlow(x) EXCEPT !.aborted = TRUE]
    PROVE  Goes(x, y)
<1>1. PICK z : z = interruptedFlow(x)
  OBVIOUS
<1>2. Goes(x, z) /\ z \in Automation
  <2>1. CASE x.pc \in {"launching", "flow"} /\ (x.pc = "flow" => x.place # "done")
    BY <1>1, <2>1 DEF Goes, interruptedFlow, Automation
  <2>2. CASE ~(x.pc \in {"launching", "flow"} /\ (x.pc = "flow" => x.place # "done"))
    BY <1>1, <2>2 DEF Goes, interruptedFlow, Automation
  <2> QED BY <2>1, <2>2
<1>3. CASE y = [z EXCEPT !.late = TRUE]
  BY <1>2, <1>3 DEF Goes, Automation
<1>4. CASE y = [z EXCEPT !.aborted = TRUE]
  BY <1>2, <1>4 DEF Goes, Automation
<1> QED BY <1>1, <1>3, <1>4

LEMMA DoInterrupt ==
    ASSUME BrowserTypeOK, BrowsersOK, NEW l \in Student, scenario' = scenario,
           login'[l].pc = "browsing", Deadline(l) \/ CallerAborts(l)
    PROVE  Advances(l)
<1>1. auto[l] \in Automation /\ kind' = kind
  BY DEF BrowserTypeOK, Deadline, CallerAborts
<1>2. (browser' = browser /\ cache' = cache) \/ Close({auto[l].using})
  BY DEF Deadline, CallerAborts
<1>3. PICK y : /\ auto' = [auto EXCEPT ![l] = y]
               /\ \/ y = [interruptedFlow(auto[l]) EXCEPT !.late = TRUE]
                  \/ y = [interruptedFlow(auto[l]) EXCEPT !.aborted = TRUE]
  BY DEF Deadline, CallerAborts
<1>4. Goes(auto[l], y)
  BY <1>1, <1>3, Interrupted
<1> QED BY <1>1, <1>2, <1>3, <1>4, GoesOn

LEMMA DoLaunchFails ==
    ASSUME BrowserTypeOK, BrowsersOK, NEW l \in Student, scenario' = scenario,
           login' = login, LaunchFails(l)
    PROVE  Advances(l)
<1>1. auto[l] \in Automation /\ kind' = kind /\ browser' = browser /\ cache' = cache
  BY DEF BrowserTypeOK, LaunchFails
<1>2. busy(l) => login'[l].pc = "browsing"
  BY DEF BrowsersOK, AutomationOK
<1>3. PICK x : x = auto[l]
  OBVIOUS
<1>4. PICK y : y = [x EXCEPT !.launching = FALSE,
                     !.pc = IF @ = "launching" THEN "failing" ELSE @,
                     !.error = IF x.pc = "launching" THEN "other" ELSE @]
  OBVIOUS
<1>5. auto' = [auto EXCEPT ![l] = y]
  BY <1>3, <1>4 DEF LaunchFails, BrowserTypeOK
<1>6. Goes(x, y)
  <2>1. CASE x.pc = "launching"
    <3>1. y = [x EXCEPT !.launching = FALSE, !.pc = "failing", !.error = "other"]
      BY <1>1, <1>3, <1>4, <2>1
    <3> QED BY <1>1, <1>3, <2>1, <3>1 DEF Goes, Automation
  <2>2. CASE x.pc # "launching"
    <3>1. y = [x EXCEPT !.launching = FALSE]
      BY <1>1, <1>3, <1>4, <2>2 DEF Automation
    <3> QED BY <1>1, <1>3, <2>2, <3>1 DEF Goes, Automation
  <2> QED BY <2>1, <2>2
<1> QED BY <1>1, <1>2, <1>3, <1>5, <1>6, GoesOn

LEMMA DoLaunch ==
    ASSUME BrowserTypeOK, BrowsersOK, NEW l \in Student, scenario' = scenario,
           login' = login, NEW b \in Browser, LaunchEnds(l, b)
    PROVE  Advances(l)
<1>1. /\ auto[l] \in Automation /\ cache.entry \in Browser \cup {NoBrowser}
      /\ \A a \in Browser : a # NoBrowser
  BY AutomationTyped
<1>2. /\ browser[b] = "none" /\ kind' = kind /\ cache' = cache
      /\ browser \in [Browser -> {"none", "live", "closed"}] /\ auto[l].launching
      /\ cache' \in [entry: Browser \cup {NoBrowser}, closed: BOOLEAN]
  BY DEF LaunchEnds, BrowserTypeOK
<1>3. /\ AutomationOK(l)
      /\ cache.entry # NoBrowser => browser[cache.entry] # "none"
      /\ kind = "cloudflare" => cache.entry = NoBrowser
  BY DEF BrowsersOK
<1>4. PICK y \in Automation, state \in {"live", "closed"} :
          /\ auto' = [auto EXCEPT ![l] = y] /\ browser' = [browser EXCEPT ![b] = state]
          /\ y.cached = auto[l].cached /\ y.reusing = auto[l].reusing
          /\ y.attempt = auto[l].attempt
          /\ \/ /\ auto[l].pc = "launching" /\ y.pc = "flow" /\ y.using = b /\ state = "live"
             \/ /\ auto[l].pc # "launching" /\ y.pc = auto[l].pc /\ y.using = auto[l].using
                /\ state = "closed"
  <2>1. CASE auto[l].pc = "launching"
    <3>1. PICK y : y = [auto[l] EXCEPT !.pc = "flow", !.using = b, !.launching = FALSE]
      OBVIOUS
    <3>2. auto' = [auto EXCEPT ![l] = y] /\ browser' = [browser EXCEPT ![b] = "live"]
      BY <2>1, <3>1 DEF LaunchEnds, BrowserTypeOK
    <3>3. y \in Automation /\ y.pc = "flow" /\ y.using = b /\ y.cached = auto[l].cached
          /\ y.reusing = auto[l].reusing /\ y.attempt = auto[l].attempt
      BY <1>1, <3>1 DEF Automation
    <3> QED BY <2>1, <3>2, <3>3
  <2>2. CASE auto[l].pc # "launching"
    <3>1. PICK y : y = [auto[l] EXCEPT !.launching = FALSE]
      OBVIOUS
    <3>2. auto' = [auto EXCEPT ![l] = y] /\ browser' = [browser EXCEPT ![b] = "closed"]
      BY <2>2, <3>1 DEF LaunchEnds, BrowserTypeOK
    <3>3. y \in Automation /\ y.pc = auto[l].pc /\ y.using = auto[l].using
          /\ y.cached = auto[l].cached
          /\ y.reusing = auto[l].reusing /\ y.attempt = auto[l].attempt
      BY <1>1, <3>1 DEF Automation
    <3> QED BY <2>2, <3>2, <3>3
  <2> QED BY <2>1, <2>2
<1>5. /\ browser' \in [Browser -> {"none", "live", "closed"}] /\ browser'[b] = state
      /\ \A a \in Browser : a # b => browser'[a] = browser[a]
      /\ \A a \in Browser : browser[a] # "none" => a # b
  BY <1>2, <1>4
<1>6. Drive(l) /\ auto'[l] = y
  <2>1. /\ \A a \in Browser : browser[a] # "none" => browser'[a] # "none"
        /\ cache'.entry # NoBrowser => browser'[cache'.entry] # "none"
        /\ kind = "cloudflare" => cache'.entry = NoBrowser
    BY <1>1, <1>2, <1>3, <1>5
  <2>2. auto' = [auto EXCEPT ![l] = y] /\ kind' = kind
    BY <1>2, <1>4
  <2> QED BY <1>2, <1>5, <2>1, <2>2, AutoSet
<1>7. Quiet
  BY <1>2, <1>5 DEF Quiet
<1>8. busy(l) => login'[l].pc = "browsing"
  BY <1>3 DEF AutomationOK
<1>9. /\ auto[l].using \in Browser \cup {NoBrowser} /\ auto[l].cached \in Browser \cup {NoBrowser}
  BY <1>1 DEF Automation
<1>10. /\ auto[l].cached # NoBrowser => browser'[auto[l].cached] # "none"
       /\ auto[l].using # NoBrowser => browser'[auto[l].using] # "none"
       /\ cache.entry # NoBrowser => browser'[cache.entry] = browser[cache.entry]
       /\ auto[l].using # NoBrowser => browser'[auto[l].using] = browser[auto[l].using]
  BY <1>1, <1>3, <1>5, <1>9 DEF AutomationOK
<1>11. AutomationOK(l)'
  <2>1. CASE auto[l].pc = "launching"
    <3>1. /\ y.pc = "flow" /\ y.using = b /\ browser'[b] = "live" /\ b # NoBrowser
          /\ ~y.reusing /\ y.cached = auto[l].cached
      BY <1>1, <1>3, <1>4, <1>5, <2>1 DEF AutomationOK
    <3>2. kind = "local" /\ ~scenario.overlap => ~live(cache.entry)'
      BY <1>2, <1>3, <1>4, <1>10, <2>1 DEF AutomationOK, live
    <3>3. login'[l].pc = "browsing"
      BY <1>8, <2>1 DEF busy
    <3> QED BY <1>2, <1>6, <1>10, <3>1, <3>2, <3>3 DEF AutomationOK, busy
  <2>2. CASE auto[l].pc # "launching"
    <3>1. /\ y.pc = auto[l].pc /\ y.using = auto[l].using /\ y.cached = auto[l].cached
          /\ y.reusing = auto[l].reusing /\ y.attempt = auto[l].attempt
      BY <1>4, <2>2
    <3>2. live(cache.entry)' => live(cache.entry)
      BY <1>2, <1>10 DEF live
    <3>4. live(auto[l].using)' => live(auto[l].using)
      BY <1>6, <1>10, <3>1 DEF live
    <3> QED BY <1>2, <1>3, <1>6, <1>8, <1>10, <2>2, <3>1, <3>2, <3>4 DEF AutomationOK, busy
  <2> QED BY <2>1, <2>2
<1>12. Handled(l)
  <2> SUFFICES ASSUME NEW a \in Browser, browser'[a] = "live", browser[a] # "live" \/ Has(l, a)
               PROVE  Has(l, a)'
    BY DEF Handled
  <2>1. CASE auto[l].pc = "launching"
    <3>1. auto[l].using = NoBrowser /\ y.using = b /\ y.pc = "flow"
      BY <1>3, <1>4, <2>1 DEF AutomationOK
    <3> QED BY <1>1, <1>2, <1>5, <1>6, <3>1 DEF Has
  <2>2. CASE auto[l].pc # "launching"
    <3>1. y.pc = auto[l].pc /\ y.using = auto[l].using /\ state = "closed"
      BY <1>4, <2>2
    <3>2. Has(l, a)
      BY <1>5, <3>1
    <3> QED BY <1>2, <1>6, <3>1, <3>2 DEF Has
  <2> QED BY <2>1, <2>2
<1> QED BY <1>6, <1>7, <1>11, <1>12 DEF Advances

\* The end of a login whose browser was closed, or stays where it was.
LEMMA OverClosed ==
    ASSUME BrowserTypeOK, BrowsersOK, NEW l \in Student, scenario' = scenario,
           NEW x1 \in Automation, auto' = [auto EXCEPT ![l] = x1], kind' = kind,
           x1.pc = "over", x1.using = NoBrowser, x1.cached = NoBrowser, ~x1.reusing,
           Close({auto[l].using})
    PROVE  Advances(l)
<1>1. /\ auto[l].using \in Browser \cup {NoBrowser} /\ \A a \in Browser : a # NoBrowser
  BY AutomationTyped
<1>2. /\ browser' \in [Browser -> {"none", "live", "closed"}]
      /\ cache' \in [entry: Browser \cup {NoBrowser}, closed: BOOLEAN]
      /\ Quiet
      /\ auto[l].using # NoBrowser => browser'[auto[l].using] = "closed"
      /\ \A a \in Browser : browser[a] # "none" => browser'[a] # "none"
      /\ \A a \in Browser : a # auto[l].using => browser'[a] = browser[a]
      /\ cache'.entry # NoBrowser => browser'[cache'.entry] # "none"
  BY <1>1, Closed
<1>3. cache'.entry = cache.entry /\ (kind = "cloudflare" => cache'.entry = NoBrowser)
  BY <1>2 DEF Quiet, BrowsersOK
<1>4. Drive(l) /\ auto'[l] = x1
  BY <1>2, <1>3, AutoSet
<1>5. AutomationOK(l)'
  BY <1>4, Finished
<1>6. Handled(l)
  <2> SUFFICES ASSUME NEW a \in Browser, browser'[a] = "live", browser[a] # "live" \/ Has(l, a)
               PROVE  Has(l, a)'
    BY DEF Handled
  <2>1. a # auto[l].using /\ browser'[a] = browser[a]
    BY <1>1, <1>2
  <2> QED BY <1>3, <2>1 DEF Has
<1> QED BY <1>2, <1>4, <1>5, <1>6 DEF Advances

\* A login that reused the cached browser and evicts it.
LEMMA EvictedAdvances ==
    ASSUME BrowserTypeOK, BrowsersOK, NEW l \in Student, scenario' = scenario, Single(l),
           NEW x1 \in Automation, auto' = [auto EXCEPT ![l] = x1], kind' = kind,
           EvictCachedSession({}), auto[l].pc \in {"flow", "failing"}, auto[l].reusing,
           login'[l].pc = "browsing",
           \/ x1.pc = "over" /\ x1.using = NoBrowser /\ x1.cached = NoBrowser /\ ~x1.reusing
           \/ /\ x1.pc = "start" /\ x1.using = auto[l].using /\ x1.cached = auto[l].cached
              /\ x1.reusing = auto[l].reusing /\ x1.attempt = auto[l].attempt
              /\ x1.attempt \in 0..1
    PROVE  Advances(l)
<1>1. /\ auto[l] \in Automation /\ auto[l].using \in Browser \cup {NoBrowser}
      /\ cache.entry \in Browser \cup {NoBrowser}
      /\ \A a \in Browser : a # NoBrowser
  BY AutomationTyped
<1>2. /\ browser' \in [Browser -> {"none", "live", "closed"}]
      /\ cache' \in [entry: Browser \cup {NoBrowser}, closed: BOOLEAN]
      /\ cache'.entry = NoBrowser
      /\ cache.entry # NoBrowser => browser'[cache.entry] = "closed"
      /\ \A a \in Browser : browser[a] # "none" => browser'[a] # "none"
      /\ \A a \in Browser : a # cache.entry => browser'[a] = browser[a]
  BY Evicted
<1>3. AutomationOK(l) /\ kind # "cloudflare"
  BY DEF BrowsersOK, AutomationOK
<1>4. /\ cache'.entry # NoBrowser => browser'[cache'.entry] # "none"
      /\ kind = "cloudflare" => cache'.entry = NoBrowser
  BY <1>2
<1>5. Drive(l) /\ auto'[l] = x1
  BY <1>2, <1>4, AutoSet
<1>6. apart => auto[l].using = cache.entry
  BY <1>3 DEF apart, AutomationOK
<1>7. auto[l].cached \in Browser \cup {NoBrowser}
  BY <1>1 DEF Automation
<1>8. /\ auto[l].using # NoBrowser => browser'[auto[l].using] # "none"
      /\ auto[l].cached # NoBrowser => browser'[auto[l].cached] # "none"
      /\ apart /\ auto[l].using # NoBrowser => browser'[auto[l].using] = "closed"
  BY <1>1, <1>2, <1>3, <1>6, <1>7 DEF AutomationOK
<1>9. AutomationOK(l)'
  <2>1. CASE x1.pc = "over" /\ x1.using = NoBrowser /\ x1.cached = NoBrowser /\ ~x1.reusing
    BY <1>5, <2>1, Finished
  <2>2. CASE /\ x1.pc = "start" /\ x1.using = auto[l].using /\ x1.cached = auto[l].cached
             /\ x1.reusing = auto[l].reusing /\ x1.attempt \in 0..1
    <3>2. kind = "local" /\ ~scenario.overlap => ~live(auto[l].using)'
      BY <1>5, <1>8, <2>2 DEF apart, live
    <3> QED BY <1>3, <1>5, <1>8, <2>2, <3>2 DEF AutomationOK, busy
  <2> QED BY <2>1, <2>2
<1>10. ASSUME apart PROVE Handled(l)
  <2> SUFFICES ASSUME NEW a \in Browser, browser'[a] = "live", browser[a] # "live" \/ Has(l, a)
               PROVE  FALSE
    BY DEF Handled
  <2>1. a # cache.entry /\ browser'[a] = browser[a]
    BY <1>1, <1>2
  <2>2. Has(l, a) /\ auto[l].using = cache.entry
    BY <1>6, <1>10, <2>1
  <2> QED BY <2>1, <2>2 DEF Has
<1> QED BY <1>5, <1>9, <1>10 DEF Advances

LEMMA DoFail ==
    ASSUME BrowserTypeOK, BrowsersOK, NEW l \in Student, scenario' = scenario, Single(l),
           login'[l].pc = "browsing", FailAttempt(l)
    PROVE  Advances(l)
<1>1. auto[l] \in Automation
  BY AutomationTyped
<1>2. auto[l].pc = "failing" /\ kind' = kind
  BY DEF FailAttempt
<1>3. PICK x1 \in Automation :
          /\ auto' = [auto EXCEPT ![l] = x1]
          /\ \/ x1.pc = "over" /\ x1.using = NoBrowser /\ x1.cached = NoBrowser /\ ~x1.reusing
             \/ /\ x1.pc = "start" /\ x1.using = auto[l].using /\ x1.cached = auto[l].cached
                /\ x1.reusing = auto[l].reusing /\ x1.attempt = auto[l].attempt
                /\ x1.attempt \in 0..1 /\ auto[l].reusing
  <2>1. CASE \E result \in {"signed", "failed"} : auto' = [auto EXCEPT ![l] = over(auto[l], result)]
    <3>1. PICK result \in {"signed", "failed"} : auto' = [auto EXCEPT ![l] = over(auto[l], result)]
      BY <2>1
    <3> QED BY <1>1, <3>1, Over
  <2>2. CASE /\ auto' = [auto EXCEPT ![l] = [auto[l] EXCEPT !.pc = "start"]]
             /\ retried(auto[l]) /\ auto[l].attempt < 2
    <3>1. PICK y : y = [auto[l] EXCEPT !.pc = "start"]
      OBVIOUS
    <3>2. /\ y \in Automation /\ y.pc = "start" /\ y.using = auto[l].using
          /\ y.cached = auto[l].cached /\ y.attempt = auto[l].attempt
      BY <1>1, <3>1 DEF Automation
    <3>3. y.reusing = auto[l].reusing
      BY <1>1, <3>1 DEF Automation
    <3>4. auto[l].attempt \in 0..1 /\ auto[l].reusing
      BY <1>1, <2>2 DEF Automation, retried
    <3> QED BY <2>2, <3>1, <3>2, <3>3, <3>4
  <2>3. \/ \E result \in {"signed", "failed"} : auto' = [auto EXCEPT ![l] = over(auto[l], result)]
        \/ /\ auto' = [auto EXCEPT ![l] = [auto[l] EXCEPT !.pc = "start"]]
           /\ retried(auto[l]) /\ auto[l].attempt < 2
    BY DEF FailAttempt
  <2> QED BY <2>1, <2>2, <2>3
<1>4. CASE auto[l].reusing
  BY <1>2, <1>3, <1>4, EvictedAdvances DEF FailAttempt
<1>5. CASE ~auto[l].reusing
  <2>1. Close({auto[l].using})
    BY <1>5 DEF FailAttempt
  <2> QED BY <1>2, <1>3, <1>5, <2>1, OverClosed
<1> QED BY <1>4, <1>5

LEMMA DoKeepBrowser ==
    ASSUME BrowserTypeOK, BrowsersOK, NEW l \in Student, scenario' = scenario, Single(l),
           login'[l].pc = "browsing", auto[l].pc = "flow", kind' = kind, kind # "patchright",
           KeepBrowser(l)
    PROVE  Advances(l)
<1>1. /\ auto[l] \in Automation /\ auto[l].using \in Browser \cup {NoBrowser}
      /\ cache.entry \in Browser \cup {NoBrowser}
      /\ \A a \in Browser : a # NoBrowser
  BY AutomationTyped
<1>2. PICK x1 \in Automation :
          /\ auto' = [auto EXCEPT ![l] = x1]
          /\ x1.pc = "over" /\ x1.using = NoBrowser /\ x1.cached = NoBrowser /\ ~x1.reusing
  <2>1. PICK result \in {"signed", "failed"} : auto' = [auto EXCEPT ![l] = over(auto[l], result)]
    BY DEF KeepBrowser
  <2> QED BY <1>1, <2>1, Over
<1>3. CASE kind = "cloudflare"
  <2>1. Close({auto[l].using})
    BY <1>3 DEF KeepBrowser
  <2> QED BY <1>2, <2>1, OverClosed
<1>4. CASE kind # "cloudflare"
  <2>1. browser' = browser /\ cache' = [entry |-> auto[l].using, closed |-> FALSE] /\ kind = "local"
    BY <1>4 DEF KeepBrowser, BrowserTypeOK, Kind
  <2>2. AutomationOK(l)
    BY DEF BrowsersOK
  <2>3. cache' \in [entry: Browser \cup {NoBrowser}, closed: BOOLEAN]
        /\ cache'.entry = auto[l].using
    BY <1>1, <2>1
  <2>4. /\ browser' \in [Browser -> {"none", "live", "closed"}]
        /\ \A a \in Browser : browser[a] # "none" => browser'[a] # "none"
        /\ cache'.entry # NoBrowser => browser'[cache'.entry] # "none"
        /\ kind = "cloudflare" => cache'.entry = NoBrowser
    BY <2>1, <2>2, <2>3 DEF BrowserTypeOK, AutomationOK
  <2>5. Drive(l) /\ auto'[l] = x1
    BY <1>2, <2>3, <2>4, AutoSet
  <2>6. AutomationOK(l)'
    BY <1>2, <2>5, Finished
  <2>7. ASSUME apart PROVE Handled(l)
    <3> SUFFICES ASSUME NEW a \in Browser, browser[a] = "live", Has(l, a) PROVE auto[l].using = a
      BY <2>1, <2>3 DEF Handled, Has
    <3>1. cache.entry = a => auto[l].using = cache.entry
      BY <1>1, <2>1, <2>2, <2>7 DEF AutomationOK, apart, live
    <3> QED BY <3>1 DEF Has
  <2> QED BY <2>5, <2>6, <2>7 DEF Advances
<1> QED BY <1>3, <1>4

LEMMA DoKeepContext ==
    ASSUME BrowserTypeOK, BrowsersOK, NEW l \in Student, scenario' = scenario, Single(l),
           login'[l].pc = "browsing", auto[l].pc = "flow", kind' = kind, kind = "patchright",
           KeepContext(l)
    PROVE  Advances(l)
<1>1. /\ auto[l] \in Automation /\ auto[l].using \in Browser \cup {NoBrowser}
      /\ \A a \in Browser : a # NoBrowser
  BY AutomationTyped
<1>2. AutomationOK(l) /\ auto[l].cached \in Browser \cup {NoBrowser} /\ ~apart
  BY <1>1 DEF BrowsersOK, Automation, apart
<1>3. ASSUME NEW result \in {"signed", "failed"}, auto' = [auto EXCEPT ![l] = over(auto[l], result)]
      PROVE  \E x1 \in Automation :
                 /\ auto' = [auto EXCEPT ![l] = x1]
                 /\ x1.pc = "over" /\ x1.using = NoBrowser /\ x1.cached = NoBrowser /\ ~x1.reusing
  BY <1>1, <1>3, Over
<1>4. CASE auto[l].found
  <2>1. PICK x1 \in Automation :
            /\ auto' = [auto EXCEPT ![l] = x1]
            /\ x1.pc = "over" /\ x1.using = NoBrowser /\ x1.cached = NoBrowser /\ ~x1.reusing
    BY <1>3, <1>4 DEF KeepContext
  <2>2. PICK entry \in Browser \cup {NoBrowser} :
            /\ entry = IF auto[l].cached # NoBrowser THEN auto[l].cached ELSE auto[l].using
            /\ cache' = [entry |-> entry, closed |-> FALSE] /\ browser' = browser
    BY <1>1, <1>2, <1>4 DEF KeepContext
  <2>3. cache' \in [entry: Browser \cup {NoBrowser}, closed: BOOLEAN] /\ cache'.entry = entry
    BY <2>2
  <2>4. /\ browser' \in [Browser -> {"none", "live", "closed"}]
        /\ \A a \in Browser : browser[a] # "none" => browser'[a] # "none"
        /\ cache'.entry # NoBrowser => browser'[cache'.entry] # "none"
        /\ kind = "cloudflare" => cache'.entry = NoBrowser
    BY <1>2, <2>2, <2>3 DEF BrowserTypeOK, AutomationOK
  <2>5. Drive(l) /\ auto'[l] = x1
    BY <2>1, <2>3, <2>4, AutoSet
  <2>6. AutomationOK(l)'
    BY <2>1, <2>5, Finished
  <2> QED BY <1>2, <2>5, <2>6 DEF Advances
<1>5. CASE ~auto[l].found /\ auto[l].reusing
  <2>1. EvictCachedSession({})
    BY <1>5 DEF KeepContext
  <2>2. CASE auto[l].attempt = 2
    <3>1. auto' = [auto EXCEPT ![l] = over(auto[l], "failed")]
      BY <1>5, <2>2 DEF KeepContext
    <3> QED BY <1>3, <1>5, <2>1, <3>1, EvictedAdvances
  <2>3. CASE auto[l].attempt # 2
    <3>1. PICK y : y = [auto[l] EXCEPT !.pc = "start"]
      OBVIOUS
    <3>2. auto' = [auto EXCEPT ![l] = y]
      BY <1>5, <2>3, <3>1 DEF KeepContext
    <3>3. /\ y \in Automation /\ y.pc = "start" /\ y.using = auto[l].using
          /\ y.cached = auto[l].cached /\ y.attempt = auto[l].attempt
      BY <1>1, <3>1 DEF Automation
    <3>4. y.reusing = auto[l].reusing
      BY <1>1, <3>1 DEF Automation
    <3>5. y.attempt \in 0..1
      BY <1>1, <2>3, <3>3 DEF Automation
    <3> QED BY <1>5, <2>1, <3>2, <3>3, <3>4, <3>5, EvictedAdvances
  <2> QED BY <2>2, <2>3
<1>6. CASE ~auto[l].found /\ ~auto[l].reusing
  <2>1. Close({auto[l].using}) /\ auto' = [auto EXCEPT ![l] = over(auto[l], "failed")]
    BY <1>6 DEF KeepContext
  <2> QED BY <1>3, <2>1, OverClosed
<1> QED BY <1>4, <1>5, <1>6

LEMMA DoEndFlow ==
    ASSUME BrowserTypeOK, BrowsersOK, NEW l \in Student, scenario' = scenario, Single(l),
           login'[l].pc = "browsing", EndFlow(l)
    PROVE  Advances(l)
<1>1. auto[l] \in Automation /\ auto[l].pc = "flow" /\ kind' = kind
  BY DEF EndFlow, BrowserTypeOK
<1>2. CASE FlowFails(l, "late") /\ browser' = browser /\ cache' = cache
  <2>1. PICK y : y = [auto[l] EXCEPT !.pc = "failing", !.error = "late"]
    OBVIOUS
  <2>2. auto' = [auto EXCEPT ![l] = y]
    BY <1>2, <2>1 DEF FlowFails, BrowserTypeOK
  <2>3. Goes(auto[l], y)
    BY <1>1, <2>1 DEF Goes, Automation
  <2> QED BY <1>1, <1>2, <2>2, <2>3, GoesOn
<1>3. CASE IF kind = "patchright" THEN KeepContext(l) ELSE KeepBrowser(l)
  BY <1>1, <1>3, DoKeepBrowser, DoKeepContext
<1> QED BY <1>2, <1>3 DEF EndFlow

LEMMA DoAutomate ==
    ASSUME BrowserTypeOK, BrowsersOK, OneLogin, NEW l \in Student, scenario' = scenario,
           login' = login, login[l].pc = "browsing", AutomationNext(l)
    PROVE  Advances(l)
<1>1. Single(l) /\ login'[l].pc = "browsing"
  BY Alones DEF ended
<1>2. CASE StartAttempt(l)
  BY <1>1, <1>2, DoStartAttempt DEF Advances
<1>3. CASE FlowStep(l) \/ FlowBreaks(l)
  BY <1>1, <1>3, DoFlow
<1>4. CASE Deadline(l)
  BY <1>1, <1>4, DoInterrupt
<1>5. CASE EndFlow(l)
  BY <1>1, <1>5, DoEndFlow
<1>6. CASE FailAttempt(l)
  BY <1>1, <1>6, DoFail
<1> QED BY <1>2, <1>3, <1>4, <1>5, <1>6 DEF AutomationNext

LEMMA DoCrash ==
    ASSUME BrowserTypeOK, BrowsersOK, NEW b \in Browser, BrowserCrashes(b),
           login' = login, scenario' = scenario
    PROVE  BrowserTypeOK' /\ BrowsersOK'
<1>1. /\ browser' \in [Browser -> {"none", "live", "closed"}]
      /\ cache' \in [entry: Browser \cup {NoBrowser}, closed: BOOLEAN]
      /\ Quiet
      /\ \A a \in Browser : browser[a] # "none" => browser'[a] # "none"
      /\ \A a \in Browser : a # b => browser'[a] = browser[a]
      /\ browser'[b] = "closed"
      /\ cache'.entry # NoBrowser => browser'[cache'.entry] # "none"
  <2>1. Close({b}) /\ b \in Browser \cup {NoBrowser} /\ b # NoBrowser
    BY DEF BrowserCrashes, live
  <2> QED BY <2>1, Closed
<1>2. auto' = auto /\ kind' = kind /\ cache'.entry = cache.entry
  BY <1>1 DEF BrowserCrashes, Quiet
<1>3. BrowserTypeOK'
  BY <1>1, <1>2 DEF BrowserTypeOK
<1>5. cache'.entry # NoBrowser => browser'[cache'.entry] # "none"
  BY <1>1
<1>6. kind' = "cloudflare" => cache'.entry = NoBrowser
  BY <1>2 DEF BrowsersOK
<1>7. ASSUME NEW q \in Student PROVE AutomationOK(q)'
  <2>1. AutomationOK(q) /\ auto'[q] = auto[q]
    BY <1>2 DEF BrowsersOK
  <2>2. /\ auto[q].using \in Browser \cup {NoBrowser} /\ auto[q].cached \in Browser \cup {NoBrowser}
    BY DEF BrowserTypeOK, Automation
  <2>3. /\ auto[q].using # NoBrowser => busy(q) /\ browser'[auto[q].using] # "none"
        /\ auto[q].cached # NoBrowser => browser'[auto[q].cached] # "none"
    BY <1>1, <2>1, <2>2 DEF AutomationOK
  <2>4. live(auto[q].using)' => live(auto[q].using)
    BY <1>2, <2>1, <1>1, <2>2 DEF live
  <2>5. live(cache.entry)' => live(cache.entry)
    BY <1>1, <1>2 DEF live, BrowserTypeOK
  <2> QED BY <1>2, <2>1, <2>3, <2>4, <2>5 DEF AutomationOK, busy
<1>8. apart' => NoBrowserOrphaned'
  <2> SUFFICES ASSUME apart, NEW a \in Browser, browser'[a] = "live", a # NoBrowser
               PROVE  driving(a)' \/ cache'.entry = a
    BY <1>2 DEF apart, NoBrowserOrphaned, orphaned, live
  <2>1. browser[a] = "live"
    BY <1>1
  <2>2. driving(a) \/ cache.entry = a
    BY <2>1 DEF BrowsersOK, NoBrowserOrphaned, orphaned, live
  <2> QED BY <1>2, <2>2 DEF driving
<1> QED BY <1>3, <1>5, <1>6, <1>7, <1>8 DEF BrowsersOK

\* Browsers stay, and what a login drives it still waits for.
LEMMA BrowsersStay ==
    ASSUME BrowserTypeOK, BrowsersOK, UNCHANGED <<kind, browserVars>>, scenario' = scenario,
           \A l \in Student : busy(l) => login'[l].pc = "browsing"
    PROVE  BrowserTypeOK' /\ BrowsersOK'
<1>1. kind' = kind /\ browser' = browser /\ cache' = cache /\ auto' = auto
  BY DEF browserVars
<1>2. BrowserTypeOK'
  BY <1>1 DEF BrowserTypeOK
<1>3. ASSUME NEW l \in Student PROVE AutomationOK(l)'
  <2>1. AutomationOK(l) /\ (busy(l) => login'[l].pc = "browsing")
    BY DEF BrowsersOK
  <2> QED BY <1>1, <2>1 DEF AutomationOK, busy, live
<1>4. apart' => NoBrowserOrphaned'
  BY <1>1 DEF BrowsersOK, apart, NoBrowserOrphaned, orphaned, driving, live
<1> QED BY <1>1, <1>2, <1>3, <1>4 DEF BrowsersOK

LEMMA AdvancesKeeps ==
    ASSUME BrowserTypeOK, BrowsersOK, NEW l \in Student, Advances(l), scenario' = scenario,
           \A q \in Student : q # l => login'[q].pc = login[q].pc
    PROVE  BrowserTypeOK' /\ BrowsersOK'
  BY BrowsersKeep DEF Advances

-----------------------------------------------------------------------------
(* The steps of all logins.                                                *)

LEMMA Typing == TypeOK <=> State /\ BrowserTypeOK
  BY DEF TypeOK, State, LoginState, TabState

LEMMA StudentMoves ==
    ASSUME State, NEW r \in Student, StudentOK(r),
           \/ StartSignIn(r) \/ ServerStep(r) \/ TabStep(r)
           \/ RequestAborts(r) \/ StreamCancels(r) \/ Leave(r)
    PROVE  StudentStep(r) \/ Automate(r)
<1>1. ServerStep(r) \/ TabStep(r) =>
          Automate(r) \/ AutomationEnds(r) \/ Finish(r) \/ ReadEvent(r)
  BY StudentNever DEF ServerStep, TabStep
<1> QED BY <1>1, StudentStarts, StudentEnds, StudentCancels, StudentReads

LEMMA StudentDrives ==
    ASSUME State, LoginsOK, BrowserTypeOK, BrowsersOK, OneLogin, NEW r \in Student,
           StudentStep(r), \/ StartSignIn(r) \/ ServerStep(r) \/ TabStep(r)
                           \/ RequestAborts(r) \/ StreamCancels(r) \/ Leave(r)
    PROVE  BrowserTypeOK' /\ BrowsersOK'
<1>1. StudentOK(r) /\ scenario' = scenario /\ r \in Login
  BY DEF LoginsOK, StudentStep, Bounded, Login
<1>2. \A q \in Student : q # r => login'[q] = login[q]
  BY DEF StudentStep, Alone, Login
<1>3. \A q \in Student : q # r => login'[q].pc = login[q].pc
  BY <1>2
<1>4. \A q \in Student : busy(q) => login[q].pc = "browsing"
  BY DEF BrowsersOK, AutomationOK
<1>5. CASE StartSignIn(r)
  <2>1. Begin(r) /\ login'[r].pc = "browsing"
    BY <1>1, <1>5, StudentStarts
  <2>2. Single(r)
    <3>1. ~scenario.overlap => \A q \in Login : login[q].pc \in {"idle", "over"}
      BY <1>5 DEF StartSignIn
    <3> QED BY <1>4, <3>1 DEF Single, Login
  <2>3. Advances(r)
    BY <1>1, <2>1, <2>2, DoBegin DEF Advances
  <2> QED BY <1>1, <1>3, <2>3, AdvancesKeeps
<1>6. CASE Automate(r)
  <2>1. login' = login /\ login[r].pc = "browsing" /\ AutomationNext(r)
    BY <1>6 DEF Automate, signInVars
  <2>2. Advances(r)
    BY <1>1, <2>1, DoAutomate
  <2> QED BY <1>1, <1>3, <2>2, AdvancesKeeps
<1>7. CASE RequestAborts(r) /\ login[r].pc = "browsing"
  <2>1. CallerAborts(r)
    BY <1>7 DEF RequestAborts
  <2>2. login'[r].pc = "browsing"
    BY <1>1, <1>7 DEF RequestAborts, State, LoginState, awaitsSignal
  <2>3. Advances(r)
    BY <1>1, <2>1, <2>2, DoInterrupt
  <2> QED BY <1>1, <1>3, <2>3, AdvancesKeeps
<1>8. CASE \/ AutomationEnds(r) \/ Finish(r) \/ ReadEvent(r) \/ StreamCancels(r) \/ Leave(r)
           \/ (RequestAborts(r) /\ login[r].pc # "browsing")
  <2>1. UNCHANGED <<kind, browserVars>>
    BY <1>8 DEF AutomationEnds, Finish, ReadEvent, StreamCancels, Leave, RequestAborts
  <2>2. busy(r) => login'[r].pc = "browsing"
    <3>1. CASE AutomationEnds(r)
      BY <3>1 DEF AutomationEnds, busy
    <3>2. CASE Finish(r) \/ (RequestAborts(r) /\ login[r].pc # "browsing")
      BY <1>4, <3>2 DEF Finish
    <3>3. CASE ReadEvent(r) \/ Leave(r)
      BY <1>4, <3>3 DEF ReadEvent, Leave
    <3>4. CASE StreamCancels(r)
      BY <1>1, <1>4, <3>4 DEF StreamCancels, State, LoginState
    <3> QED BY <1>8, <3>1, <3>2, <3>3, <3>4
  <2>3. \A q \in Student : busy(q) => login'[q].pc = "browsing"
    BY <1>2, <1>4, <2>2
  <2> QED BY <1>1, <2>1, <2>3, BrowsersStay
<1>9. ServerStep(r) \/ TabStep(r) =>
          Automate(r) \/ AutomationEnds(r) \/ Finish(r) \/ ReadEvent(r)
  BY <1>1, StudentNever DEF ServerStep, TabStep
<1> QED BY <1>5, <1>6, <1>7, <1>8, <1>9

\* What the logins see of any step.
Stay == UNCHANGED <<login, relay, stream, tab>> /\ Bounded

LEMMA AutomateStays ==
    ASSUME State, NEW r, Automate(r) \/ Launch(r)
    PROVE  Stay
<1>1. UNCHANGED <<login, relay, stream, tab>> /\ faults' = faults /\ scenario' = scenario
  BY DEF Automate, Launch, signInVars
<1> QED BY <1>1, NoFault DEF Stay

\* A step is one of a guardian's login, one of a student's, or of browsers only.
Moves ==
    \/ \E r \in Guardian : GuardianStep(r) /\ UNCHANGED <<kind, browserVars>>
    \/ \E r \in Student :
          /\ StudentStep(r)
          /\ \/ StartSignIn(r) \/ ServerStep(r) \/ TabStep(r)
             \/ RequestAborts(r) \/ StreamCancels(r) \/ Leave(r)
    \/ \E r \in Student : Stay /\ (Automate(r) \/ Launch(r) \/ LaunchFault(r))
    \/ \E b \in Browser : Stay /\ Crash(b)

LEMMA NextMoves ==
    ASSUME State, LoginsOK, Next
    PROVE  Moves
<1>0. /\ \A r \in Guardian : GuardianOK(r)
      /\ \A r \in Student : StudentOK(r)
      /\ scenario.logins \subseteq Guardian \cup Student
  BY SignInAssumption DEF LoginsOK, State
<1>1. ASSUME NEW r \in scenario.logins, \/ StartSignIn(r) \/ ServerStep(r) \/ TabStep(r)
                                        \/ RequestAborts(r) \/ StreamCancels(r) \/ Leave(r)
      PROVE  Moves
  <2>1. CASE r \in Guardian
    BY <1>0, <1>1, <2>1, GuardianSteps DEF Moves
  <2>2. CASE r \in Student
    <3>1. StudentStep(r) \/ Automate(r)
      BY <1>0, <1>1, <2>2, StudentMoves
    <3>2. Automate(r) => Stay
      BY AutomateStays
    <3> QED BY <1>1, <2>2, <3>1, <3>2 DEF Moves
  <2> QED BY <1>0, <2>1, <2>2
<1>2. ASSUME NEW r \in Guardian, NEW a \in Answer, TypeAnswer(r, a) PROVE Moves
  BY <1>0, <1>2, GuardianSteps DEF Moves
<1>3. ASSUME NEW c \in Challenge, CancelLands(c) \/ TimeRunsOut(c) \/ Expire(c) \/ ObjectRestarts(c)
      PROVE  Moves
  <2>1. PICK r \in Guardian, k \in 1..2 : c = <<r, k>>
    BY DEF Challenge
  <2>2. GuardianStep(r)
    BY <1>0, <1>3, <2>1, DoCancelLands, DoTime
  <2>3. UNCHANGED <<kind, browserVars>>
    BY <1>3 DEF CancelLands, TimeRunsOut, Expire, ObjectRestarts
  <2> QED BY <2>2, <2>3 DEF Moves
<1>4. ASSUME NEW b \in Browser, Crash(b) PROVE Moves
  <2>1. UNCHANGED <<login, relay, stream, tab>> /\ Bounded
    BY <1>4, OneFault DEF Crash
  <2> QED BY <1>4, <2>1 DEF Moves, Stay
<1>5. ASSUME NEW r \in Student, Launch(r) \/ LaunchFault(r) PROVE Moves
  <2>1. CASE Launch(r)
    BY <2>1, AutomateStays DEF Moves
  <2>2. CASE LaunchFault(r)
    <3>1. UNCHANGED <<login, relay, stream, tab>> /\ Bounded
      BY <2>2, OneFault DEF LaunchFault
    <3> QED BY <2>2, <3>1 DEF Moves, Stay
  <2> QED BY <1>5, <2>1, <2>2
<1> QED BY <1>1, <1>2, <1>3, <1>4, <1>5 DEF Next

LEMMA MovesKeep ==
    ASSUME TypeOK, LoginsOK, OneLogin, BrowsersOK, Moves
    PROVE  TypeOK' /\ LoginsOK' /\ OneLogin' /\ BrowsersOK'
<1>0. State /\ BrowserTypeOK
  BY Typing
<1>1. (State /\ BrowserTypeOK)' => TypeOK'
  BY Typing, PTL
<1>2. ASSUME NEW r \in Guardian, GuardianStep(r), UNCHANGED <<kind, browserVars>>
      PROVE  State' /\ LoginsOK' /\ OneLogin' /\ BrowserTypeOK' /\ BrowsersOK'
  <2>1. State' /\ LoginsOK'
    BY <1>0, <1>2, GuardianStepKeeps
  <2>2. Alone(r) /\ scenario' = scenario /\ r \in Login
    BY <1>2 DEF GuardianStep, Bounded, Login
  <2>3. OneLogin'
    BY <2>2, OneLoginKept
  <2>4. \A l \in Student : l # r /\ l \in Login
    BY SignInAssumption DEF Login
  <2>5. \A l \in Student : busy(l) => login'[l].pc = "browsing"
    BY <2>2, <2>4 DEF Alone, BrowsersOK, AutomationOK
  <2> QED BY <1>0, <1>2, <2>1, <2>2, <2>3, <2>5, BrowsersStay
<1>3. ASSUME NEW r \in Student, StudentStep(r),
             \/ StartSignIn(r) \/ ServerStep(r) \/ TabStep(r)
             \/ RequestAborts(r) \/ StreamCancels(r) \/ Leave(r)
      PROVE  State' /\ LoginsOK' /\ OneLogin' /\ BrowserTypeOK' /\ BrowsersOK'
  <2>1. State' /\ LoginsOK'
    BY <1>0, <1>3, StudentStepKeeps
  <2>2. Alone(r) /\ scenario' = scenario /\ r \in Login
    BY <1>3 DEF StudentStep, Bounded, Login
  <2>3. OneLogin'
    BY <2>2, OneLoginKept
  <2> QED BY <1>0, <1>3, <2>1, <2>3, StudentDrives
<1>4. ASSUME Stay PROVE State' /\ LoginsOK' /\ OneLogin'
  <2>1. State' /\ LoginsOK'
    BY <1>0, <1>4, OthersStay DEF Stay
  <2>2. login' = login /\ scenario' = scenario
    BY <1>4 DEF Stay, Bounded
  <2> QED BY <2>1, <2>2 DEF OneLogin
<1>5. ASSUME NEW r \in Student, Stay, Automate(r) \/ Launch(r) \/ LaunchFault(r)
      PROVE  BrowserTypeOK' /\ BrowsersOK'
  <2>1. login' = login /\ scenario' = scenario
    BY <1>5 DEF Stay, Bounded
  <2>2. Advances(r)
    <3>1. CASE Automate(r)
      BY <1>0, <2>1, <3>1, DoAutomate DEF Automate
    <3>2. CASE Launch(r)
      BY <1>0, <2>1, <3>2, DoLaunch DEF Launch
    <3>3. CASE LaunchFault(r)
      BY <1>0, <2>1, <3>3, DoLaunchFails DEF LaunchFault
    <3> QED BY <1>5, <3>1, <3>2, <3>3
  <2> QED BY <1>0, <2>1, <2>2, AdvancesKeeps
<1>6. ASSUME NEW b \in Browser, Stay, Crash(b)
      PROVE  BrowserTypeOK' /\ BrowsersOK'
  BY <1>0, <1>6, DoCrash DEF Crash, Stay, Bounded
<1> QED BY <1>1, <1>2, <1>3, <1>4, <1>5, <1>6 DEF Moves

-----------------------------------------------------------------------------
(* The first state.                                                        *)

LEMMA NoRelayTyped == NoRelay \in Relay
  BY DEF NoRelay, Relay

LEMMA NoLoginTyped == NoLogin \in LoginState /\ NoTab \in TabState
  BY DEF NoLogin, LoginState, NoTab, TabState

LEMMA NoRelayOK ==
    ASSUME NEW b, NEW n \in Nat, NEW l, NEW k
    PROVE  RelayOK(b, NoRelay) /\ Kept(n, NoRelay, l) /\ Held(n, NoRelay, l, k) /\ Meant(NoRelay, l)
  BY RelayAssumption DEF NoRelay, RelayOK, Kept, Held, Meant

LEMMA GuardedFirst ==
    ASSUME NEW b, NEW r, NEW xs, \A k \in 1..2 : xs[k] = NoRelay
    PROVE  Guarded(b, 0, r, NoLogin, xs, <<>>, NoTab)
<1>1. AskingOK(NoLogin, xs)
  BY DEF AskingOK, NoLogin, asking, unopened
<1>2. RelaysOK(b, 0, NoLogin, xs)
  BY NoRelayOK DEF RelaysOK
<1>3. PageOK(r, <<>>, NoTab, xs)
  BY NoneAssumption DEF PageOK, StreamOK, TabOK, NoTab
<1> QED BY <1>1, <1>2, <1>3 DEF Guarded

LEMMA Starts ==
    ASSUME Init
    PROVE  TypeOK /\ LoginsOK /\ OneLogin /\ BrowsersOK
<1>1. /\ scenario \in Scenario /\ scenario.faults \in Nat /\ scenario.coordinator \in Coordinator
      /\ kind \in Kind /\ faults = 0
  BY SignInAssumption DEF Init
<1>2. /\ login \in [Login -> LoginState] /\ tab \in [Login -> TabState]
      /\ \A r \in Login : login[r] = NoLogin /\ tab[r] = NoTab /\ stream[r] = <<>>
  BY NoLoginTyped DEF Init
<1>3. stream \in [Login -> Seq(Event)]
  BY DEF Init
<1>4. /\ relay \in [Challenge -> Relay] /\ \A c \in Challenge : relay[c] = NoRelay
  BY NoRelayTyped DEF Init
<1>5. State
  BY <1>1, <1>2, <1>3, <1>4 DEF State
<1>6. /\ NoAutomation \in Automation /\ NoAutomation.using = NoBrowser
      /\ NoAutomation.cached = NoBrowser /\ NoAutomation.pc = "idle" /\ NoAutomation.attempt = 0
      /\ ~NoAutomation.reusing
  <2>1. NoBrowser \in Browser \cup {NoBrowser} /\ "studenthub" \in Place /\ 0 \in 0..2
    BY DEF Place
  <2> QED BY <2>1 DEF NoAutomation, Automation
<1>7. /\ \A b \in Browser : browser[b] = "none"
      /\ browser \in [Browser -> {"none", "live", "closed"}]
      /\ cache \in [entry: Browser \cup {NoBrowser}, closed: BOOLEAN]
      /\ cache.entry = NoBrowser
  BY DEF Init, BrowserInit
<1>8. auto \in [Student -> Automation] /\ \A l \in Student : auto[l] = NoAutomation
  BY <1>6 DEF Init, BrowserInit
<1>9. BrowserTypeOK
  BY <1>1, <1>7, <1>8 DEF BrowserTypeOK
<1>10. \A r \in Guardian : GuardianOK(r)
  <2> SUFFICES ASSUME NEW r \in Guardian PROVE GuardianOK(r)
    OBVIOUS
  <2>1. \A k \in 1..2 : relays(r)[k] = NoRelay
    BY <1>4 DEF relays, Challenge
  <2>2. r \in Login
    BY DEF Login
  <2> QED BY <1>1, <1>2, <2>1, <2>2, GuardedFirst DEF GuardianOK
<1>11. \A r \in Student : StudentOK(r)
  <2> SUFFICES ASSUME NEW r \in Student PROVE Plain(NoLogin, <<>>, NoTab)
    BY <1>2 DEF StudentOK, Login
  <2> QED BY DEF Plain, NoLogin, NoTab
<1>12. OneLogin
  BY <1>2 DEF OneLogin, ended, NoLogin
<1>13. BrowsersOK
  <2>1. NoBrowserOrphaned
    BY <1>7 DEF NoBrowserOrphaned, orphaned, live
  <2>2. ASSUME NEW l \in Student PROVE AutomationOK(l)
    BY <1>6, <1>8 DEF AutomationOK, busy
  <2> QED BY <1>7, <2>1, <2>2 DEF BrowsersOK
<1> QED BY <1>5, <1>9, <1>10, <1>11, <1>12, <1>13, Typing DEF LoginsOK

-----------------------------------------------------------------------------
(* The theorems.                                                           *)

LEMMA SignInStep ==
    ASSUME IInv, [Next]_vars
    PROVE  IInv'
<1>1. CASE Next
  BY <1>1, NextMoves, MovesKeep, Typing DEF IInv
<1>2. CASE UNCHANGED vars
  <2>1. State /\ BrowserTypeOK
    BY Typing DEF IInv
  <2>2. /\ UNCHANGED <<login, relay, stream, tab>> /\ scenario' = scenario /\ faults' = faults
        /\ UNCHANGED <<kind, browserVars>>
    BY <1>2 DEF vars, signInVars
  <2>3. Bounded
    BY <2>1, <2>2, NoFault
  <2>4. State' /\ LoginsOK'
    BY <2>1, <2>2, <2>3, OthersStay DEF IInv
  <2>5. BrowserTypeOK' /\ BrowsersOK'
    BY <2>1, <2>2, BrowsersStay DEF IInv, BrowsersOK, AutomationOK
  <2>6. OneLogin'
    BY <2>2 DEF IInv, OneLogin
  <2>7. (State /\ BrowserTypeOK)' => TypeOK'
    BY Typing, PTL
  <2> QED BY <2>4, <2>5, <2>6, <2>7 DEF IInv
<1> QED BY <1>1, <1>2

(* The strengthening that the theorems below follow from holds in every    *)
(* reachable state, for any numbers of logins, browsers and faults: the    *)
(* logins of importSession with the relay of each challenge, the page, and *)
(* the browsers of the Google sign-in.                                     *)
THEOREM InductiveInvariant == Spec => []IInv
<1>1. Init => IInv
  BY Starts DEF IInv
<1>2. IInv /\ [Next]_vars => IInv'
  BY SignInStep
<1> QED BY <1>1, <1>2, PTL DEF Spec

(* The state of the sign-in route, its relays, pages and browsers has its  *)
(* type.                                                                   *)
THEOREM TypeCorrect == Spec => []TypeOK
<1>1. IInv => TypeOK
  BY DEF IInv
<1> QED BY <1>1, InductiveInvariant, PTL

LEMMA Heard ==
    ASSUME IInv
    PROVE  AnswersHeard
<1>1. \A r \in Guardian : GuardianOK(r)
  BY DEF IInv, LoginsOK
<1>2. State
  BY Typing DEF IInv
<1>3. AcceptedAnswerUsed
  <2> SUFFICES ASSUME NEW c \in Challenge, relay[c].acked # None, relay[c].wait = "over",
                      ~relay[c].lapsed, ~login[c[1]].aborted, ~login[c[1]].cancelled, ~(faults > 0)
               PROVE  relay[c].got = relay[c].acked
    BY DEF AcceptedAnswerUsed
  <2>1. PICK r \in Guardian, k \in 1..2 : c = <<r, k>>
    BY DEF Challenge
  <2>2. c[1] = r
    BY <2>1
  <2>3. RelayOK(coordinator, relay[c]) /\ Kept(faults, relay[c], login[c[1]])
    BY <1>1, <1>2, <2>1, <2>2, GuardianTyped DEF GuardianOK, Guarded, RelaysOK
  <2> QED BY <2>3 DEF RelayOK, Kept, Excused
<1>4. OverlapOnlyUnheard
  <2> SUFFICES ASSUME NEW r \in Guardian, tab[r].result = "overlapping"
               PROVE  relay[<<r, 1>>].acked # None
    BY DEF OverlapOnlyUnheard
  <2>1. relays(r)[1].acked # None
    BY <1>1 DEF GuardianOK, Guarded, PageOK, TabOK
  <2>2. \A k \in 1..2 : relays(r)[k] = relay[<<r, k>>]
    BY <1>2, GuardianTyped
  <2> QED BY <2>1, <2>2
<1> QED BY <1>3, <1>4 DEF AnswersHeard

LEMMA Left ==
    ASSUME IInv
    PROVE  NothingStaysOpen
<1>1. \A r \in Guardian : GuardianOK(r)
  BY DEF IInv, LoginsOK
<1>2. State
  BY Typing DEF IInv
<1>3. RelayReleased
  <2> SUFFICES ASSUME faults = 0, NEW c \in Challenge, login[c[1]].ask = "none",
                      relay[c].row = "pending", ~relay[c].late
               PROVE  relay[c].cancelling
    BY DEF RelayReleased
  <2>1. PICK r \in Guardian, k \in 1..2 : c = <<r, k>>
    BY DEF Challenge
  <2>2. c[1] = r
    BY <2>1
  <2>3. Held(faults, relay[c], login[c[1]], k)
    BY <1>1, <1>2, <2>1, <2>2, GuardianTyped DEF GuardianOK, Guarded, RelaysOK
  <2> QED BY <2>3 DEF Held, asking
<1>4. BrowsersAccounted
  BY DEF IInv, BrowsersOK, BrowsersAccounted, apart
<1> QED BY <1>3, <1>4 DEF NothingStaysOpen

(* A code that CaptchaRelay acknowledged is what wait() hands the login,   *)
(* whichever deadline passes meanwhile, and readUetSessionStream takes two *)
(* challenges for overlapping only past an acknowledged code.              *)
THEOREM CodesAreHeard == Spec => []AnswersHeard
<1>1. IInv => AnswersHeard
  BY Heard
<1> QED BY <1>1, InductiveInvariant, PTL

(* However a sign-in ends, its relay is cancelled or is being, and the     *)
(* browsers it launched are cached, in use or closed.                      *)
THEOREM NothingLeftOpen == Spec => []NothingStaysOpen
<1>1. IInv => NothingStaysOpen
  BY Left
<1> QED BY <1>1, InductiveInvariant, PTL

LEMMA RelaysStutter ==
    ASSUME relay' = relay
    PROVE  UNCHANGED Relays!vars
  BY DEF Relays!vars

(* The relay in one process, in a Durable Object and at Redis, with what   *)
(* the route, the adapter and the page do with it, implement the one-shot  *)
(* answer: one code is acknowledged, and the login gets that one or none.  *)
THEOREM RelaysAreOneShot == Spec => ImplementsOneShot
<1>1. Init => Relays!Init
  BY DEF Init, Relays!Init, NoRelay
<1>2. IInv /\ [Next]_vars => Relays!Next \/ UNCHANGED Relays!vars
  <2> SUFFICES ASSUME IInv, [Next]_vars
               PROVE  Relays!Next \/ UNCHANGED Relays!vars
    OBVIOUS
  <2>1. State /\ LoginsOK
    BY Typing DEF IInv
  <2>2. CASE UNCHANGED vars
    BY <2>2, RelaysStutter DEF vars, signInVars
  <2>3. CASE Moves
    <3>1. (\E r \in Guardian : GuardianStep(r)) \/ relay' = relay
      BY <2>3 DEF Moves, StudentStep, Stay
    <3> QED BY <2>1, <3>1, OneShotStep, RelaysStutter
  <2> QED BY <2>1, <2>2, <2>3, NextMoves
<1> QED BY <1>1, <1>2, InductiveInvariant, PTL DEF Spec, ImplementsOneShot, Relays!Spec
==============================================================================
