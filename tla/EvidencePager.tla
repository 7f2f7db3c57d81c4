--------------------------- MODULE EvidencePager ---------------------------
(***************************************************************************)
(* app/agents/evidence.py: a client of GET /analyses/{id}/evidence (or     *)
(* /flows) that follows next_cursor until it is null, with any limit per   *)
(* page.  A signed cursor binds the client to its filters and to the       *)
(* snapshot of its first page; Sizes gives the bytes of the records of     *)
(* that analysis that match the filters, in their stored order.            *)
(*                                                                         *)
(* A request reads the database four times (analysis_ref, manifest, count, *)
(* rows), each in a transaction of its own, so each read is an action.     *)
(***************************************************************************)
EXTENDS CaseStore

CONSTANTS
  Pagers,
  Sizes,        \* sizes of the matching records of an analysis
  PageBytes,    \* _MAX_RESPONSE_BYTES
  MaxLimit      \* largest `limit` of a request

ASSUME PagerAssumption ==
  /\ Sizes \in [Analyses -> Seq(Nat)]
  /\ PageBytes \in Nat
  /\ MaxLimit \in Nat \ {0}

VARIABLE pager

(* The local state of a client and of the request it has open; `snapshot`  *)
(* is empty before the first page, `got` the records received so far, and  *)
(* `purges`, history, the deletions before the client began.               *)
NewPager(a) == [pc |-> "idle", of |-> a, snapshot |-> <<>>, offset |-> 0, total |-> 0, got |-> <<>>,
                purges |-> 0]

PagerInit == pager \in [Pagers -> {NewPager(a) : a \in Analyses}]

Smaller(m, n) == IF m <= n THEN m ELSE n
Larger(m, n)  == IF m >= n THEN m ELSE n

HasSnapshot(p) == pager[p].snapshot # <<>> /\ Stored(pager[p].of, pager[p].snapshot[1])
Inventory(p)   == Len(Sizes[pager[p].of])

(* Bytes of the first n rows of a page, and how many of them fit.          *)
PageSize(sz, offset, n) ==
  LET bytes[k \in Nat] == IF k = 0 THEN 0 ELSE bytes[k - 1] + sz[offset + k] IN bytes[n]
Fit(sz, offset, n) == Cardinality({k \in 1..n : PageSize(sz, offset, k) <= PageBytes})

Update(p, rec) == pager' = [pager EXCEPT ![p] = rec]

Purges(p) == purges[CaseOf[pager[p].of]]

(* scoped_analysis -> analysis_ref: 404 without the row of the analysis.   *)
AskPage(p) ==
  /\ pager[p].pc \in {"idle", "cursor"}
  /\ Update(p, [pager[p] EXCEPT !.pc = IF Present(pager[p].of) THEN "manifest" ELSE "refused",
                                !.purges = IF pager[p].pc = "idle" THEN Purges(p) ELSE @])
  /\ UNCHANGED storeVars

(* manifest(): the snapshot of the cursor (404 when it is gone), else the  *)
(* newest; an analysis without any is loaded and captured now.             *)
ReadManifest(p) ==
  LET a == pager[p].of IN
  /\ pager[p].pc = "manifest"
  /\ Update(p, IF pager[p].snapshot # <<>>
               THEN [pager[p] EXCEPT !.pc = IF HasSnapshot(p) THEN "count" ELSE "refused"]
               ELSE IF snapshots[a] # <<>>
                    THEN [pager[p] EXCEPT !.pc = "count", !.snapshot = <<NewestSnapshot(a)>>]
                    ELSE [pager[p] EXCEPT !.pc = "legacy"])
  /\ UNCHANGED storeVars

LoadLegacy(p) ==
  LET a == pager[p].of IN
  /\ pager[p].pc = "legacy"
  /\ Update(p, IF Present(a)
               THEN [pager[p] EXCEPT !.pc = "capture", !.snapshot = <<ContentOf(analyses[a])>>]
               ELSE [pager[p] EXCEPT !.pc = "refused"])
  /\ UNCHANGED storeVars

CaptureLegacy(p) ==
  /\ pager[p].pc = "capture"
  /\ Capture(pager[p].of, pager[p].snapshot[1])
  /\ Update(p, [pager[p] EXCEPT !.pc = "count"])
  /\ UNCHANGED <<clock, cases, analyses, ingest, regen, purges>>

(* _page(): the count of the matching records ...                          *)
CountRows(p) ==
  /\ pager[p].pc = "count"
  /\ Update(p, [pager[p] EXCEPT !.pc = "rows", !.total = IF HasSnapshot(p) THEN Inventory(p) ELSE 0])
  /\ UNCHANGED storeVars

(* ... and the rows from the offset on, which query() cuts at PageBytes.   *)
(* A first record that does not fit is refused (413); the page carries a   *)
(* cursor while records are left.                                          *)
Page(p, n) == [i \in 1..n |-> <<pager[p].snapshot[1], pager[p].offset + i>>]

Answer(p, n) ==
  [pager[p] EXCEPT !.got = @ \o Page(p, n),
                   !.offset = @ + n,
                   !.pc = IF pager[p].offset + n < pager[p].total THEN "cursor" ELSE "done"]

Readable(p, limit) ==
  IF HasSnapshot(p) THEN Smaller(limit, Larger(Inventory(p), pager[p].offset) - pager[p].offset) ELSE 0
Fitting(p, limit) == Fit(Sizes[pager[p].of], pager[p].offset, Readable(p, limit))

ReadRows(p) ==
  \E limit \in 1..MaxLimit :
    /\ pager[p].pc = "rows"
    /\ Update(p, IF Readable(p, limit) > 0 /\ Fitting(p, limit) = 0
                 THEN [pager[p] EXCEPT !.pc = "refused"]
                 ELSE Answer(p, Fitting(p, limit)))
    /\ UNCHANGED storeVars

(* Both reads of _page() give up after three seconds (503).                *)
TimeBudgetExceeded(p) ==
  /\ pager[p].pc \in {"count", "rows"}
  /\ Update(p, [pager[p] EXCEPT !.pc = "refused"])
  /\ UNCHANGED storeVars

PagerStep(p) ==
  \/ AskPage(p) \/ ReadManifest(p) \/ LoadLegacy(p) \/ CaptureLegacy(p)
  \/ CountRows(p) \/ ReadRows(p) \/ TimeBudgetExceeded(p)

PagerTypeOK ==
  pager \in [Pagers -> [pc : {"idle", "manifest", "legacy", "capture", "count", "rows",
                              "cursor", "done", "refused"},
                        of : Analyses,
                        snapshot : Seq(Snapshot),
                        offset : Nat, total : Nat, purges : Nat,
                        got : Seq(Snapshot \X Nat)]]
-----------------------------------------------------------------------------
(* What a client has received is the first `offset` records of one         *)
(* snapshot, each once and in order, however many snapshots were taken     *)
(* between its pages and wherever the size limit cut them.                 *)
PagesInOrder ==
  \A p \in Pagers :
    pager[p].offset > 0 =>
      pager[p].got = [i \in 1..pager[p].offset |-> <<pager[p].snapshot[1], i>>]

(* A client whose cursor became null has the complete inventory of its     *)
(* snapshot, unless its case was deleted since it began: the count and the *)
(* rows of a page are two reads, and a deletion between them makes the     *)
(* page look like the last one.                                            *)
CompleteUnlessPurged ==
  \A p \in Pagers :
    pager[p].pc = "done" /\ pager[p].purges = Purges(p) => Len(pager[p].got) = Inventory(p)

(* A client that follows the cursors of the evidence API gets one snapshot *)
(* whole: in order, and to its end (evidence.py:314-368).                  *)
PagesWhole == PagesInOrder /\ CompleteUnlessPurged

(* Following cursors comes to an end: a page or an error, and never the    *)
(* same page again and again.                                              *)
PagingEnds == \A p \in Pagers : pager[p].pc = "cursor" ~> pager[p].pc \in {"done", "refused"}
=============================================================================
