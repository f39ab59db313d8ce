---------------------------- MODULE MCApiReplica ----------------------------
(* Small instances of ApiReplica for TLC.                                  *)
EXTENDS ApiReplica, TLC

CONSTANTS n1, n2, old, new, edited, m1, m2, other, q1, q2

\* "new" brings one more migration, "edited" has changed the first.
Sources == (old :> <<m1>>) @@ (new :> <<m1, m2>>) @@ (edited :> <<other>>)

Deps == {"postgres", "redis"}
Resources == {"policy", "browsers", "redis", "postgres"}

deployment(a, b, upgrades, failing, dying, signalled) ==
    [replicas |-> {n1, n2}, releases |-> (n1 :> a) @@ (n2 :> b), upgrades |-> upgrades,
     urls |-> Deps, probed |-> {}, queries |-> {}, faults |-> failing, deaths |-> dying, outages |-> 0,
     signals |-> signalled, requests |-> 0]

single(probes, asks, failing, changing, signalled, made) ==
    [deployment(new, new, {}, failing, 0, signalled) EXCEPT
        !.replicas = {n1}, !.probed = probes, !.queries = asks, !.outages = changing,
        !.requests = made]

Scenarios == {
    deployment(new, new, {}, 1, 1, 0),
    [deployment(old, new, {new}, 0, 0, 2) EXCEPT !.requests = 1],
    deployment(old, edited, {}, 0, 1, 0),
    single({}, {q1}, 1, 0, 2, 2),
    single({"redis"}, {q1, q2}, 0, 2, 1, 0),
    [single({"redis"}, {q1}, 0, 1, 1, 0) EXCEPT !.urls = {}]}
=============================================================================
