---------------------------- MODULE OneShotAnswer ----------------------------
(***************************************************************************)
(* What a relay of verification codes promises, wherever it keeps its      *)
(* state: at most one answer of a challenge is acknowledged, and the login *)
(* that raised the challenge gets that answer, once, or none at all.       *)
(***************************************************************************)
CONSTANTS Challenge, Answer, Failure, None

VARIABLES
    acked,  \* The answer whose sender was told that it is accepted.
    got     \* What the waiting login got: an answer, or a failure.

vars == <<acked, got>>

Init ==
    /\ acked = [c \in Challenge |-> None]
    /\ got = [c \in Challenge |-> None]

Acknowledge(c, a) ==
    /\ acked[c] = None
    /\ acked' = [acked EXCEPT ![c] = a]

Deliver(c) ==
    /\ got[c] = None
    /\ acked'[c] # None
    /\ got' = [got EXCEPT ![c] = acked'[c]]

GiveUp(c) ==
    /\ got[c] = None
    /\ \E f \in Failure : got' = [got EXCEPT ![c] = f]

\* An answer may reach a login that is already waiting as it is acknowledged.
Next ==
    \E c \in Challenge :
        \/ \E a \in Answer : Acknowledge(c, a) /\ (UNCHANGED got \/ Deliver(c))
        \/ UNCHANGED acked /\ (Deliver(c) \/ GiveUp(c))

Spec == Init /\ [][Next]_vars
=============================================================================
