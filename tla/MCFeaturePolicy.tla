--------------------------- MODULE MCFeaturePolicy ---------------------------
(* Small instances of FeaturePolicy for TLC.                               *)
EXTENDS FeaturePolicy

CONSTANTS q1, c1, a1, a2

Anywhere == {"durable", "distributed", "memory"}
KillSwitch == [emptyPolicy EXCEPT !.globalOff = TRUE]
Overrides ==
    {[emptyPolicy EXCEPT !.globalLimit = 1, !.universityLimit = 4],
     [emptyPolicy EXCEPT !.globalOff = TRUE, !.universityLimit = 1],
     [emptyPolicy EXCEPT !.universityOff = TRUE, !.globalLimit = 4]}

(* A request, or a browser, around the publications of one administrator,  *)
(* then two administrators, and many policies, on one process.             *)
Scenarios ==
    [deployment: Anywhere, actors: {{q1, a1}}, policies: {{emptyPolicy, KillSwitch}},
     revisions: {2}, faults: {1}]
      \cup
    [deployment: Anywhere, actors: {{c1, a1}}, policies: {{emptyPolicy, KillSwitch}},
     revisions: {1}, faults: {1}]
      \cup
    [deployment: {"memory"}, actors: {{a1, a2}}, policies: {{emptyPolicy, KillSwitch}},
     revisions: {3}, faults: {1}]
      \cup
    [deployment: {"memory"}, actors: {{a1}}, policies: {Overrides},
     revisions: {2}, faults: {0}]
=============================================================================
