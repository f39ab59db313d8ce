-------------------------- MODULE MCAutomationJob --------------------------
(* Small instances of AutomationJob for TLC.                               *)
EXTENDS AutomationJob, TLC

\* Workers are interchangeable, and so are the requests that wait.
Symmetry == Permutations(Worker) \cup Permutations(Caller)
=============================================================================
