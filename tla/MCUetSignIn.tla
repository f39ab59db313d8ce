----------------------------- MODULE MCUetSignIn -----------------------------
(* Small instances of UetSignIn for TLC.                                   *)
EXTENDS UetSignIn

CONSTANTS g1, s1, s2

NoOne == [coordinator |-> "local", kind |-> "local", logins |-> {},
          overlap |-> FALSE, ocr |-> FALSE, skewed |-> FALSE, faults |-> 1]

(* A guardian behind each coordinator, two sign-ins of a student with each *)
(* kind of browser, one after the other, and two beside each other.        *)
Scenarios ==
    {[NoOne EXCEPT !.logins = {g1}, !.coordinator = c, !.ocr = o, !.skewed = c = "redis"] :
        c \in Coordinator, o \in BOOLEAN}
      \cup
    {[NoOne EXCEPT !.logins = {s1, s2}, !.kind = k] : k \in Kind}
      \cup
    {[NoOne EXCEPT !.logins = {s1, s2}, !.kind = k, !.overlap = TRUE, !.faults = 0] :
        k \in {"local", "cloudflare"}}

\* Sign-ins with Patchright, one after the other, and a context that closes.
Contexts == {[NoOne EXCEPT !.logins = {s1, s2}, !.kind = "patchright"]}
=============================================================================
