------------------------------ MODULE ApiAccess ------------------------------
(***************************************************************************)
(* Who may use the API: students by its own tokens (ApiSessions), students *)
(* by a browser that signs them in elsewhere (AutomationBackend), and the  *)
(* admin (AdminSignIn).  The three share the process and nothing else that *)
(* changes: every scenario runs one of them.                               *)
(***************************************************************************)
EXTENDS ApiSessions, AutomationBackend, AdminSignIn

CONSTANT Scenario

VARIABLE part    \* What the scenario runs.

accessVars == <<part, sessionVars, backendVars, adminVars>>

ASSUME AccessAssumption ==
    \A s \in Scenario :
        /\ s.part \in {"sessions", "imports", "admin"}
        /\ s.access \in Deployment /\ s.backend \in Backend /\ s.admin \in AdminSetting

AccessTypeOK == SessionTypeOK /\ BackendTypeOK /\ AdminTypeOK

Init ==
    /\ \E s \in Scenario :
          part = s.part /\ access = s.access /\ backend = s.backend /\ admin = s.admin
    /\ SessionInit /\ BackendInit /\ AdminInit

Sessions == part = "sessions" /\ SessionNext /\ UNCHANGED <<part, backendVars, adminVars>>
Imports == part = "imports" /\ BackendNext /\ UNCHANGED <<part, sessionVars, adminVars>>
Admin == part = "admin" /\ AdminNext /\ UNCHANGED <<part, sessionVars, backendVars>>

Next == Sessions \/ Imports \/ Admin

Spec == Init /\ [][Next]_accessVars

(* What each part does by itself goes on, to its end.                      *)
Progress ==
    \/ part = "sessions" /\ SessionProgress /\ UNCHANGED <<part, backendVars, adminVars>>
    \/ part = "imports" /\ BackendProgress /\ UNCHANGED <<part, sessionVars, adminVars>>

FairSpec == Spec /\ WF_accessVars(Progress)

-----------------------------------------------------------------------------
(* Everybody who asked is answered, every host is free again, and no login *)
(* stays shut by a claim whose job was never stored: there are requests    *)
(* only for a while, and then there are none.                              *)
AccessEnds ==
    <>[](part = "admin" \/ (/\ \A q \in Slot : slot[q].op = "none"
                            /\ \A i \in Import : import[i].at \in {"arrived", "ended"}
                            /\ \A h \in Host : host[h].at = "idle"
                            /\ claim # None => job[claim].stored))
=============================================================================
