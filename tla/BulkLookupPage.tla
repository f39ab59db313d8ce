--------------------------- MODULE BulkLookupPage ---------------------------
(***************************************************************************)
(* The bulk look-up of the page: the targets of a run are asked for in     *)
(* chunks, one request after the other; a run that stops keeps the targets *)
(* it has not done for a retry. What the page shows, what it would export  *)
(* and what is left are kept apart, as in the component.                   *)
(*                                                                         *)
(* A target is its position in the text of the page.                       *)
(***************************************************************************)
EXTENDS VnuReconnect

CONSTANTS
    MaxTargets,  \* Bound: the targets of a text.
    ChunkMax     \* The targets of one request.

ASSUME PageAssumption == MaxTargets \in Nat /\ ChunkMax \in Nat \ {0}

VARIABLES page

Item == [target: 1..MaxTargets, by: Account]
NoModel == [status |-> "none", count |-> 0]

PageTypeOK ==
    page \in [at: {"idle", "running"}, total: 0..MaxTargets,
              items: Seq(Item), exported: Seq(Item),
              pending: Seq(1..MaxTargets), left: Seq(1..MaxTargets),
              model: [status: {"none", "partial", "complete"}, count: Nat]]

EmptyPage == [at |-> "idle", total |-> 0, items |-> <<>>, exported |-> <<>>,
              pending |-> <<>>, left |-> <<>>, model |-> NoModel]

-----------------------------------------------------------------------------
retrying == page.left # <<>>

(* run: a retry goes on with what is left, another run begins afresh.      *)
runStarted(n) ==
    IF retrying
    THEN [page EXCEPT !.at = "running", !.pending = page.left,
                      !.model.status = IF @ = "none" THEN @ ELSE "partial"]
    ELSE [EmptyPage EXCEPT !.at = "running", !.total = n, !.pending = [i \in 1..n |-> i]]

chunkLength == IF Len(page.pending) < ChunkMax THEN Len(page.pending) ELSE ChunkMax

(* onProgress: the items of a chunk are shown and copied for the export.   *)
withChunk(by) ==
    LET items == [i \in 1..chunkLength |-> [target |-> page.pending[i], by |-> by]]
        exported == page.exported \o items
    IN  [page EXCEPT !.items = @ \o items, !.exported = exported,
                     !.pending = SubSeq(@, chunkLength + 1, Len(@)),
                     !.model = [status |-> "partial", count |-> Len(exported)]]

\* Mutant: what is left starts behind the chunk that has failed.
runSettledBehind(p) ==
    [p EXCEPT !.at = "idle", !.pending = <<>>,
              !.left = SubSeq(p.pending, chunkLength + 1, Len(p.pending)),
              !.model.status = IF @ = "none" THEN @
                               ELSE IF p.pending = <<>> THEN "complete" ELSE "partial"]

(* The end of a run, whatever it was: done, failed or cancelled.           *)
runSettled(p) ==
    [p EXCEPT !.at = "idle", !.pending = <<>>, !.left = p.pending,
              !.model.status = IF @ = "none" THEN @
                               ELSE IF p.pending = <<>> THEN "complete" ELSE "partial"]
=============================================================================
