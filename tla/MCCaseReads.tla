---------------------------- MODULE MCCaseReads ----------------------------
(***************************************************************************)
(* CaseReads and CaseBook for TLC, one question in each behaviour          *)
(* (`focus`).                                                              *)
(*                                                                         *)
(* CaseReads: one case with two analyses, one of them older than the       *)
(* evidence tables and with two report jobs, a client of the evidence      *)
(* pages, one of the feed and a request for the PDF.  Readers meet only    *)
(* through the store, so a behaviour has readers of one kind.  The second  *)
(* report job only matters to the pages, whose snapshots two jobs that     *)
(* overlap can repeat; time does not, as no snapshot shows it.             *)
(*                                                                         *)
(* CaseBook ("records"): two analysts and the other writers; a budget      *)
(* gives each behaviour one interplay: form and form, form and run, note   *)
(* and note, two cases, drafts, and a database cleared under a run.        *)
(***************************************************************************)
EXTENDS CaseReads, CaseBook, TLC

CONSTANTS a1, a2, c1, r1, r2, ann, bob

OneCase  == a1 :> c1 @@ a2 :> c1
Rewrites == r1 :> a1 @@ r2 :> a1
Records  == a1 :> <<1, 2, 1>> @@ a2 :> <<1, 3>>
Iocs     == a1 :> {1, 2, 3} @@ a2 :> {3, 4}

Acts(a, b) == ann :> a @@ bob :> b

MCBudgets ==
  {[clicks |-> Acts(3, 1), runs |-> 0, posts |-> 0, sends |-> 0, clears |-> 0],
   [clicks |-> Acts(1, 1), runs |-> 1, posts |-> 0, sends |-> 0, clears |-> 0],
   [clicks |-> Acts(1, 1), runs |-> 0, posts |-> 1, sends |-> 0, clears |-> 0],
   [clicks |-> Acts(4, 0), runs |-> 0, posts |-> 1, sends |-> 0, clears |-> 0],
   [clicks |-> Acts(2, 0), runs |-> 0, posts |-> 0, sends |-> 2, clears |-> 0],
   [clicks |-> Acts(0, 0), runs |-> 1, posts |-> 2, sends |-> 0, clears |-> 1]}

VARIABLE focus

InRecords == focus = "records"

MCInit ==
  /\ Init /\ BookInit
  /\ focus \in {"pages", "feed", "cache", "records"}
  /\ focus = "records" => \A p \in Pagers : pager[p] = NewPager(a1)
  /\ focus # "records" => budget.clicks = Acts(0, 0)

ReadsNext ==
  /\ ~InRecords
  /\ Next
  /\ focus = "pages" => UNCHANGED clock
  /\ focus # "pages" => UNCHANGED pager /\ regen'[r2] = regen[r2]
  /\ focus # "feed"  => UNCHANGED feed
  /\ focus # "cache" => UNCHANGED cacheVars
  /\ UNCHANGED <<bookVars, focus>>

RecordsNext == InRecords /\ BookNext /\ UNCHANGED <<vars, focus>>

MCNext == ReadsNext \/ RecordsNext

MCVars == <<vars, bookVars, focus>>

(* The fairness of each, in its own behaviours; that of a reader which is  *)
(* never begun asks for nothing.                                           *)
MCSpec ==
  /\ MCInit /\ [][MCNext]_MCVars
  /\ \A p \in Pagers :
       WF_MCVars(focus = "pages" /\ pager[p].pc # "idle" /\ PagerStep(p)
                 /\ UNCHANGED <<feed, cacheVars, bookVars, focus>>)
  /\ \A r \in Readers :
       WF_MCVars(focus = "cache" /\ ReaderStep(r) /\ UNCHANGED <<pager, feed, bookVars, focus>>)
  /\ \A c \in Cases :
       WF_MCVars(focus = "cache" /\ GcReports(c) /\ UNCHANGED <<pager, feed, bookVars, focus>>)
  /\ WF_MCVars(InRecords /\ SweepOrphans /\ UNCHANGED <<vars, focus>>)

(* Everything that waits for a reader or for the sweep comes to its end:   *)
(* pages, the PDFs of deleted cases, and records written for deleted       *)
(* cases.                                                                  *)
ReadersSettle == PagingEnds /\ DeletedReportsGo /\ OrphansSwept
=============================================================================
