---------------------------- MODULE CaptchaRelay ----------------------------
(***************************************************************************)
(* The relay of verification codes: a login prepares a challenge and waits *)
(* for its answer, which comes in by another request, possibly at another  *)
(* replica.  The three coordinators of apps/worker/src: "local" keeps the  *)
(* relays in one process, "durable" in a Durable Object for each, "redis"  *)
(* in a key and a list that the waiting replica polls.                     *)
(*                                                                         *)
(* Operators on the record of one challenge, by the coordinator b; the     *)
(* actions that use them are in UetSignIn.                                 *)
(***************************************************************************)
EXTENDS Naturals

CONSTANTS
    None,
    Answer      \* What people and the OCR solver may type.

Failure == {"cancelled", "timeout", "not_found", "failed"}

ASSUME RelayAssumption == None \notin Answer \cup Failure /\ Answer \cap Failure = {}

Coordinator == {"local", "durable", "redis"}

(* row: the state of the relay where it is stored, absent when deleted.    *)
(* late: its timeout is over.  popped, signal: the list of Redis.          *)
(* wait: how far wait() is.  result: what the object returned.             *)
(* cancelling: a cancel() nobody waits for is on its way.  lapsed: its     *)
(* time was over while it held an answer nobody had fetched.               *)
Relay ==
    [row: {"absent", "pending", "answered"}, answer: Answer \cup {None},
     late: BOOLEAN, signal: {"none", "answered", "cancelled"},
     popped: {"none", "answered", "cancelled"},
     wait: {"none", "calling", "blocked", "returned", "reading", "rereading", "over"},
     result: Answer \cup Failure \cup {None}, aborted: BOOLEAN, cancelling: BOOLEAN, lapsed: BOOLEAN,
     acked: Answer \cup {None}, got: Answer \cup Failure \cup {None}]

NoRelay ==
    [row |-> "absent", answer |-> None, late |-> FALSE, signal |-> "none",
     popped |-> "none", wait |-> "none", result |-> None, aborted |-> FALSE,
     cancelling |-> FALSE, lapsed |-> FALSE, acked |-> None, got |-> None]

\* wait() settles with v; the relay is left as x.
settled(x, v) == [x EXCEPT !.wait = "over", !.got = v]

lapse(x) == [x EXCEPT !.lapsed = @ \/ x.row = "answered"]

deleted(x) == [x EXCEPT !.row = "absent", !.answer = None]

\* cleanup of the Redis coordinator.
cleaned(x) == [deleted(x) EXCEPT !.signal = "none"]

prepared(x) == [x EXCEPT !.row = "pending"]

\* The wait() of a Durable Object ends: the object forgets the relay.
returned(x, v) == [deleted(x) EXCEPT !.wait = "returned", !.result = v]

(* The relay was answered, cancelled or ran out while wait() was blocked   *)
(* in the process or in the object.                                        *)
woken(b, x, v) == IF b = "local" THEN settled(deleted(x), v) ELSE returned(x, v)

-----------------------------------------------------------------------------
(* answer().  A skewed replica may take a relay for alive that is late.    *)
canAnswer(b, x, skewed) ==
    /\ x.row = "pending"
    /\ b # "local" => ~x.late \/ (b = "redis" /\ skewed)

\* Mutant: an answer nobody waits for is accepted and not kept.
answeredUnkept(b, x, a) ==
    LET y == [x EXCEPT !.acked = a] IN
    IF b # "redis" /\ x.wait = "blocked" THEN woken(b, y, a) ELSE y

answered(b, x, a) ==
    LET y == [x EXCEPT !.acked = a] IN
    IF b # "redis" /\ x.wait = "blocked" THEN woken(b, y, a)
    ELSE [y EXCEPT !.row = "answered", !.answer = a,
                   !.signal = IF b = "redis" THEN "answered" ELSE @]

(* cancel().  The local one also forgets an answer nobody waited for; the  *)
(* script of Redis refuses a late relay.                                   *)
cancelled(b, x) ==
    IF b = "local"
    THEN IF x.row = "absent" THEN x
         ELSE IF x.wait = "blocked" THEN woken(b, x, "cancelled") ELSE deleted(x)
    ELSE IF x.row # "pending" \/ (b = "redis" /\ x.late) THEN x
         ELSE IF b = "redis" THEN [deleted(x) EXCEPT !.signal = "cancelled"]
         ELSE IF x.wait = "blocked" THEN woken(b, x, "cancelled") ELSE deleted(x)

-----------------------------------------------------------------------------
(* wait(), with a signal that was aborted or not.                          *)
waited(b, x, aborted) ==
    CASE b = "local" ->
            IF x.row = "absent" THEN settled(x, "not_found")
            ELSE IF x.row = "answered" THEN settled(deleted(x), x.answer)
            ELSE IF aborted THEN settled(deleted(x), "cancelled")
            ELSE [x EXCEPT !.wait = "blocked"]
      [] b = "durable" ->
            IF aborted THEN settled(cancelled(b, x), "cancelled")
            ELSE [x EXCEPT !.wait = "calling"]
      [] b = "redis" ->
            IF aborted THEN settled(cleaned(cancelled(b, x)), "cancelled")
            ELSE [x EXCEPT !.wait = "reading"]

\* The wait() of the Durable Object itself.
objectWaited(x) ==
    IF x.row = "absent" THEN returned(x, "not_found")
    ELSE IF x.late THEN returned(lapse(x), "timeout")
    ELSE IF x.row = "answered" THEN returned(x, x.answer)
    ELSE [x EXCEPT !.wait = "blocked"]

\* The first read of the loop of the Redis coordinator.
read(x) ==
    IF x.row = "absent" THEN settled(x, "not_found")
    ELSE IF x.row = "answered" THEN settled(cleaned(x), x.answer)
    ELSE IF x.late THEN settled(cleaned(x), "timeout")
    ELSE [x EXCEPT !.wait = "blocked"]

\* BLPOP ends, with the signal if there is one; or the signal was aborted.
unblocked(x) ==
    IF x.aborted THEN settled(cleaned(x), "cancelled")
    ELSE [x EXCEPT !.wait = "rereading", !.popped = x.signal, !.signal = "none"]

\* The second read, after BLPOP.
reread(x) ==
    LET y == [x EXCEPT !.popped = "none"] IN
    IF x.row = "absent"
    THEN settled(y, IF x.popped = "cancelled" THEN "cancelled"
                    ELSE IF x.late THEN "timeout" ELSE "not_found")
    ELSE IF x.row = "answered" THEN settled(cleaned(y), x.answer)
    ELSE IF x.late THEN settled(cleaned(y), "timeout")
    ELSE [y EXCEPT !.wait = "reading"]

(* The listener that wait() added to the signal: the local one cancels in  *)
(* place, the others send a cancel() and do not wait for it.               *)
waiting(x) == x.wait \notin {"none", "over"}

\* Mutant: the listener stays on after wait() has settled.
abortHeardTwice(b, x) ==
    IF b = "local" THEN cancelled(b, x)
    ELSE IF b = "durable" THEN [settled(x, "cancelled") EXCEPT !.cancelling = TRUE]
    ELSE [x EXCEPT !.aborted = TRUE, !.cancelling = TRUE]

abortHeard(b, x) ==
    IF ~waiting(x) THEN x
    ELSE IF b = "local" THEN cancelled(b, x)
    ELSE IF b = "durable" THEN [settled(x, "cancelled") EXCEPT !.cancelling = TRUE]
    ELSE [x EXCEPT !.aborted = TRUE, !.cancelling = TRUE]

-----------------------------------------------------------------------------
(* Time.  The timer of the local coordinator rejects at once; the alarm of *)
(* the object and the expiry of the Redis key come some time later.        *)
\* Mutant: the relay of one process has no timer.
lateWithoutTimer(b, x) == [x EXCEPT !.late = TRUE]

late(b, x) ==
    LET y == [x EXCEPT !.late = TRUE] IN
    IF b # "local" \/ x.row = "absent" THEN y
    ELSE IF x.wait = "blocked" THEN woken(b, y, "timeout") ELSE deleted(lapse(y))

alarmed(x) ==
    IF x.wait = "blocked" THEN woken("durable", x, "timeout") ELSE deleted(lapse(x))

expired(x) == cleaned(lapse(x))

=============================================================================
