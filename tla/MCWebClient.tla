----------------------------- MODULE MCWebClient -----------------------------
(* Small instances of WebClient for TLC.                                   *)
EXTENDS WebClient, TLC

CONSTANTS v1, v2, u1, r1, r2, bulk

none == [what \in Budget |-> 0]

tab(accounts, requests, policies, creds, acts) ==
    [accounts |-> accounts, requests |-> requests, policies |-> policies, creds |-> creds,
     withoutGrant |-> {}, budget |-> acts,
     sole |-> requests = {r1} /\ acts.signIns = 0]

Scenarios == {
    \* Requests that join a reconnection, switches and a sign-out.
    tab(<<v1, v2>>, {r1, r2}, {"safe"}, None,
        [none EXCEPT !.asks = 2, !.switches = 1, !.removals = 1]),
    tab(<<v1>>, {r1, r2}, {"safe"}, None, [none EXCEPT !.asks = 2, !.cancels = 2, !.faults = 1]),
    \* One request, and everything else.
    tab(<<v1, v2>>, {r1}, {"safe"}, None,
        [none EXCEPT !.asks = 2, !.cancels = 1, !.switches = 2, !.removals = 1, !.faults = 1]),
    \* A sign-in while requests are out.
    tab(<<v1, u1>>, {r1, r2}, {"safe"}, None,
        [none EXCEPT !.asks = 2, !.signIns = 1, !.switches = 1, !.faults = 1]),
    \* Two sign-outs, and the gate.
    tab(<<u1, v1>>, {r1, r2}, {"never"}, u1,
        [none EXCEPT !.asks = 2, !.switches = 1, !.removals = 2]),
    \* The bulk page and another request of its account.
    tab(<<v1>>, {r1, bulk}, {"safe"}, None,
        [none EXCEPT !.asks = 1, !.runs = 1, !.cancels = 1]),
    tab(<<v1, v2>>, {bulk}, {}, None,
        [none EXCEPT !.runs = 2, !.cancels = 1, !.switches = 1]),
    \* Another tab.
    tab(<<v1, u1>>, {r1, bulk}, {"safe"}, u1,
        [none EXCEPT !.asks = 1, !.runs = 1, !.otherTab = 1]),
    [tab(<<v1, v2>>, {r1, r2}, {"safe"}, None,
        [none EXCEPT !.asks = 2, !.otherTab = 1, !.removals = 1]) EXCEPT
            !.withoutGrant = {v1}]}

LateScenario == {tab(<<v1>>, {r1, r2}, {"safe"}, None, [none EXCEPT !.asks = 2])}
=============================================================================
