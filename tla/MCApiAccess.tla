----------------------------- MODULE MCApiAccess -----------------------------
(* Small instances of ApiAccess for TLC.                                   *)
EXTENDS ApiAccess, TLC

CONSTANTS q1, q2, i1, i2, s1, s2, h1, h2, p1, p2, p3, b1, b2

\* Two tabs of one browser, and one of another.
Tabs == (p1 :> b1) @@ (p2 :> b1) @@ (p3 :> b2)

idle == [part |-> "none",
         access |-> [mode |-> "memory", kinds |-> {}, slots |-> {}, time |-> 0,
                     faults |-> 0, requests |-> 0],
         backend |-> [imports |-> {}, settlers |-> {}, hosts |-> {}, mishaps |-> 0],
         admin |-> [durable |-> FALSE, methods |-> {}, pages |-> {}, time |-> 0, losses |-> 0]]

sessions(mode, kind, time, failing, asked) ==
    [idle EXCEPT !.part = "sessions",
        !.access = [mode |-> mode, kinds |-> {kind}, slots |-> {q1, q2},
                    time |-> time, faults |-> failing, requests |-> asked]]

imports(asking, settling, hosts, failing) ==
    [idle EXCEPT !.part = "imports",
        !.backend = [imports |-> asking, settlers |-> settling, hosts |-> hosts,
                     mishaps |-> failing]]

signIns(pages, method, durable, losing) ==
    [idle EXCEPT !.part = "admin",
        !.admin = [durable |-> durable, methods |-> {method}, pages |-> pages, time |-> 2,
                   losses |-> losing]]

Relogin == sessions("distributed", "vnu", 2, 0, 4)
TwoHosts == imports({i1}, {s1}, {h1, h2}, 0)

Scenarios == {
    sessions("distributed", "uet", 3, 0, 4),
    sessions("distributed", "vnu", 2, 0, 3),
    sessions("distributed", "vnu", 2, 1, 2),
    sessions("memory", "uet", 3, 0, 3),
    sessions("cloudflare", "vnu", 2, 1, 3),
    imports({i1, i2}, {}, {h1}, 1),
    imports({i1, i2}, {s1}, {h1}, 0),
    imports({i1}, {s1, s2}, {h1, h2}, 1),
    signIns({p1, p3}, "password", TRUE, 1),
    signIns({p1, p2}, "oauth", FALSE, 0)}

Relogins == {Relogin}
Answers == {TwoHosts}
=============================================================================
