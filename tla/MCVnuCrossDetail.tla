-------------------------- MODULE MCVnuCrossDetail --------------------------
(* Small instances of VnuCrossDetail for TLC.                              *)
EXTENDS VnuCrossDetail, TLC

CONSTANTS r1, r2, r3

\* The requests to the portal of r1, and those of an "id" and of a "batch".
Probes == ({r1} \X {1} \X (0..3)) \cup ({r1} \X {2} \X (0..2)) \cup {<<r2, 1, 0>>, <<r2, 1, 3>>}
Permits == {<<r1, 1>>, <<r1, 2>>}
Details == {<<r2, 1>>, <<r2, 2>>, <<r3, 1>>}

requests(a, b, c, kept, failing, cancelled, end) ==
    [kind |-> (r1 :> a) @@ (r2 :> b) @@ (r3 :> c), stores |-> kept,
     faults |-> failing, cancels |-> cancelled, until |-> end]

both == {"durable", "redis"}

\* Who presents what: r2 both rows of r1, r3 the first of them once more.
Presents == (r1 :> <<[permit |-> <<r1, 1>>, bound |-> FALSE]>>)
         @@ (r2 :> <<[permit |-> <<r1, 1>>, bound |-> TRUE],
                     [permit |-> <<r1, 2>>, bound |-> TRUE]>>)
         @@ (r3 :> <<[permit |-> <<r1, 1>>, bound |-> TRUE]>>)

Scenarios == {
    requests("code", "absent", "absent", both, 1, 1, 1),
    requests("code", "absent", "absent", both, 1, 0, 2),
    requests("code", "id", "absent", both, 0, 0, 1),
    requests("bulk", "absent", "absent", both, 0, 0, 1),
    requests("bulk", "id", "absent", both, 0, 0, 0),
    requests("id", "batch", "absent", both, 1, 1, 1),
    requests("id", "batch", "detail", both, 0, 0, 2)}
=============================================================================
