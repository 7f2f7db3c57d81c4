------------------------------ MODULE CaseProofs ------------------------------
(***************************************************************************)
(* What a client of the evidence pages, and one of the indicator feed, is  *)
(* promised, for any number of clients, analyses, report jobs, deletions,  *)
(* record sizes, indicators and limits; and what analysts are promised of  *)
(* the records of their cases, for any number of sessions, cases, notes,   *)
(* tags and drafts, whoever else writes.                                   *)
(***************************************************************************)
EXTENDS CaseReads, CaseBook, FiniteSetTheorems, SequenceTheorems, WellFoundedInduction, TLAPS

-----------------------------------------------------------------------------
(* Pages and feed.                                                         *)

(* Only the parts of the state that paging depends on need their types.    *)
StoreRowsOK ==
  /\ clock \in Nat
  /\ analyses \in [Analyses -> Row]
  /\ snapshots \in [Analyses -> Seq(Snapshot)]
  /\ ingest \in [Analyses -> [pc : {"new", "stamped", "saved"}, at : Nat]]
  /\ regen \in [ReportJobs -> [pc : {"new", "loaded", "done"}, row : Row]]
  /\ purges \in [Cases -> Nat]

(* A client has no record before it has a snapshot, and keeps that one.    *)
OneSnapshot(p) ==
  /\ pager[p].pc \in {"idle", "legacy"} => pager[p].snapshot = <<>>
  /\ pager[p].pc \in {"capture", "count", "rows", "cursor", "done"} => pager[p].snapshot # <<>>
  /\ pager[p].snapshot = <<>> => pager[p].offset = 0

ReceivedInOrder(p) ==
  /\ Len(pager[p].got) = pager[p].offset
  /\ \A i \in 1..pager[p].offset : pager[p].got[i] = <<pager[p].snapshot[1], i>>

(* While its case has not been deleted, the snapshot of a client is there, *)
(* and what it takes for the total is the size of the inventory.           *)
Undeleted(p) == pager[p].purges = Purges(p)

SnapshotKept(p) ==
  /\ pager[p].pc # "idle" => pager[p].purges <= Purges(p)
  /\ /\ pager[p].pc \notin {"idle", "capture", "refused"}
     /\ pager[p].snapshot # <<>>
     /\ Undeleted(p)
     => HasSnapshot(p)

InventoryKept(p) ==
  /\ pager[p].offset <= Inventory(p)
  /\ pager[p].pc = "rows" /\ Undeleted(p) => pager[p].total = Inventory(p)
  /\ pager[p].pc = "done" /\ Undeleted(p) => pager[p].offset = Inventory(p)

PagerOK(p) == OneSnapshot(p) /\ ReceivedInOrder(p) /\ SnapshotKept(p) /\ InventoryKept(p)

PagingInv == StoreRowsOK /\ PagerTypeOK /\ \A p \in Pagers : PagerOK(p)
-----------------------------------------------------------------------------
(* The helpers.                                                            *)

(* A row yields contents that a snapshot can have.                         *)
LEMMA ContentType == ASSUME NEW row \in Row PROVE ContentOf(row) \in Snapshot
  BY DEF ContentOf, Snapshot, Row

(* A snapshot that is stored after the step.                               *)
StoredAfter(a, s) == \E i \in 1..Len(snapshots'[a]) : snapshots'[a][i] = s

(* A function on 1..n is a sequence of length n.                           *)
LEMMA FunctionIsSeq ==
  ASSUME NEW S, NEW n \in Nat, NEW f \in [1..n -> S]
  PROVE  f \in Seq(S) /\ Len(f) = n
  <1>1. f \in Seq(S)  OBVIOUS
  <1>2. DOMAIN f = 1..n  OBVIOUS
  <1>3. Len(f) \in Nat /\ DOMAIN f = 1..Len(f)  BY <1>1, LenProperties
  <1> QED  BY <1>2, <1>3

(* The newest snapshot of an analysis that has one.                        *)
LEMMA NewestIsStored ==
  ASSUME NEW a \in Analyses, snapshots[a] \in Seq(Snapshot),
         Len(snapshots[a]) \in 1..Len(snapshots[a])
  PROVE  NewestSnapshot(a) \in Snapshot /\ Stored(a, NewestSnapshot(a))
  <1> DEFINE n == Len(snapshots[a])
  <1>1. n \in 1..n  OBVIOUS
  <1>2. snapshots[a][n] \in Snapshot  BY ElementOfSeq, <1>1
  <1> HIDE DEF n
  <1>3. \E i \in 1..n : snapshots[a][i] = snapshots[a][n]  BY <1>1
  <1>4. NewestSnapshot(a) = snapshots[a][n]  BY DEF NewestSnapshot, n
  <1>5. Stored(a, snapshots[a][n])  BY <1>3 DEF Stored, n
  <1> QED  BY <1>2, <1>4, <1>5

(* Capturing keeps the type and every snapshot, and stores the new one.    *)
LEMMA CaptureStores ==
  ASSUME StoreRowsOK, NEW a \in Analyses, NEW s \in Snapshot, Capture(a, s)
  PROVE  /\ snapshots' \in [Analyses -> Seq(Snapshot)]
         /\ \A b \in Analyses : \A t : Stored(b, t) => Stored(b, t)'
         /\ StoredAfter(a, s)
  <1>1. CASE Stored(a, s)
    <2>1. snapshots' = snapshots  BY <1>1 DEF Capture, StoreRowsOK
    <2> QED  BY <1>1, <2>1 DEF StoreRowsOK, Stored, StoredAfter
  <1>2. CASE ~Stored(a, s)
    <2>1. snapshots' = [snapshots EXCEPT ![a] = Append(snapshots[a], s)]
      BY <1>2 DEF Capture
    <2>2. snapshots[a] \in Seq(Snapshot)  BY DEF StoreRowsOK
    <2>3. Append(snapshots[a], s) \in Seq(Snapshot)  BY <2>2
    <2>4. snapshots' \in [Analyses -> Seq(Snapshot)]  BY <2>1, <2>3 DEF StoreRowsOK
    <2>5. snapshots'[a] = Append(snapshots[a], s) /\ \A b \in Analyses \ {a} : snapshots'[b] = snapshots[b]
      BY <2>1 DEF StoreRowsOK
    <2>6. Len(snapshots'[a]) = Len(snapshots[a]) + 1 /\ snapshots'[a][Len(snapshots[a]) + 1] = s
          /\ \A i \in 1..Len(snapshots[a]) : snapshots'[a][i] = snapshots[a][i]
      BY <2>2, <2>5
    <2>7. StoredAfter(a, s)  BY <2>2, <2>6 DEF StoredAfter
    <2>8. ASSUME NEW b \in Analyses, NEW t, Stored(b, t)  PROVE Stored(b, t)'
      <3>1. CASE b = a  BY <2>2, <2>6, <2>8, <3>1 DEF Stored
      <3>2. CASE b # a  BY <2>5, <2>8, <3>2 DEF Stored
      <3> QED  BY <3>1, <3>2
    <2> QED  BY <2>4, <2>7, <2>8
  <1> QED  BY <1>1, <1>2

(* A page never holds more than the rows read for it.                      *)
LEMMA FitBound ==
  ASSUME NEW sz, NEW offset, NEW n \in Nat
  PROVE  Fit(sz, offset, n) \in Nat /\ Fit(sz, offset, n) <= n
  <1> DEFINE fitting == {k \in 1..n : PageSize(sz, offset, k) <= PageBytes}
  <1>1. IsFiniteSet(1..n) /\ Cardinality(1..n) = n  BY FS_Interval
  <1>2. fitting \subseteq 1..n  OBVIOUS
  <1> HIDE DEF fitting
  <1>3. IsFiniteSet(fitting) /\ Cardinality(fitting) <= Cardinality(1..n)
    BY <1>1, <1>2, FS_Subset
  <1>4. Cardinality(fitting) \in Nat  BY <1>3, FS_CardinalityType
  <1>5. Fit(sz, offset, n) = Cardinality(fitting)  BY DEF Fit, fitting
  <1> QED  BY <1>1, <1>3, <1>4, <1>5

(* Nor does it reach past the inventory.                                   *)
LEMMA PageWithinInventory ==
  ASSUME StoreAssumption, PagerAssumption, PagerTypeOK,
         NEW p \in Pagers, InventoryKept(p), NEW limit \in 1..MaxLimit
  PROVE  /\ Fitting(p, limit) \in Nat
         /\ pager[p].offset + Fitting(p, limit) <= Inventory(p)
  <1>1. pager[p].offset \in Nat /\ pager[p].of \in Analyses  BY DEF PagerTypeOK
  <1>2. Inventory(p) \in Nat  BY <1>1 DEF Inventory, PagerAssumption
  <1>3. pager[p].offset <= Inventory(p)  BY DEF InventoryKept
  <1>4. limit \in Nat  BY DEF PagerAssumption
  <1>5. Readable(p, limit) \in Nat /\ pager[p].offset + Readable(p, limit) <= Inventory(p)
    BY <1>1, <1>2, <1>3, <1>4 DEF Readable, Smaller, Larger
  <1>6. Fitting(p, limit) \in Nat /\ Fitting(p, limit) <= Readable(p, limit)
    BY <1>5, FitBound DEF Fitting
  <1> QED  BY <1>1, <1>2, <1>5, <1>6
-----------------------------------------------------------------------------
(* The writers: types, snapshots and the count of deletions.               *)

(* A snapshot goes only with a deletion that is counted.                   *)
SnapshotsKept ==
  /\ \A c \in Cases : purges[c] <= purges'[c]
  /\ \A a \in Analyses : \A s :
       Stored(a, s) /\ purges'[CaseOf[a]] = purges[CaseOf[a]] => Stored(a, s)'

LEMMA SaveKeeps ==
  ASSUME StoreAssumption, StoreRowsOK, NEW a \in Analyses, NEW row \in Row, SaveAnalysis(a, row),
         UNCHANGED <<clock, purges>>
  PROVE  /\ analyses' \in [Analyses -> Row]
         /\ snapshots' \in [Analyses -> Seq(Snapshot)]
         /\ SnapshotsKept
  <1>1. ContentOf(row) \in Snapshot  BY ContentType
  <1>2. analyses' \in [Analyses -> Row]  BY DEF SaveAnalysis, StoreRowsOK
  <1>3. /\ snapshots' \in [Analyses -> Seq(Snapshot)]
        /\ \A b \in Analyses : \A t : Stored(b, t) => Stored(b, t)'
    BY <1>1, CaptureStores DEF SaveAnalysis
  <1> QED  BY <1>2, <1>3 DEF SnapshotsKept, StoreRowsOK

LEMMA StoreSame ==
  ASSUME StoreRowsOK, UNCHANGED <<snapshots, purges>>
  PROVE  SnapshotsKept
  BY DEF SnapshotsKept, Stored, StoreRowsOK

LEMMA RowTypes ==
  ASSUME StoreAssumption
  PROVE  /\ NoAnalysis \in Row
         /\ \A t \in Nat : Fresh(t) \in Row
         /\ \A row \in Row, j \in ReportJobs, ok \in BOOLEAN : Rewritten(row, j, ok) \in Row
  <1>1. NoAnalysis \in Row /\ \A t \in Nat : Fresh(t) \in Row
    BY DEF NoAnalysis, Fresh, Row
  <1>2. ASSUME NEW row \in Row, NEW j \in ReportJobs, NEW ok \in BOOLEAN
        PROVE  Rewritten(row, j, ok) \in Row
    <2>1. CASE ok
      <3>1. Rewritten(row, j, ok) = [row EXCEPT !.llm = row.llm + 1, !.text = j]
        BY <2>1 DEF Rewritten
      <3>2. row.llm + 1 \in Nat /\ j \in ReportJobs \cup {NoJob}  BY DEF Row
      <3> HIDE DEF Row
      <3> QED  BY <3>1, <3>2 DEF Row
    <2>2. CASE ~ok
      <3>1. Rewritten(row, j, ok) = [row EXCEPT !.failed = @ + 1]  BY <2>2 DEF Rewritten
      <3> QED  BY <3>1 DEF Row
    <2> QED  BY <2>1, <2>2
  <1> QED  BY <1>1, <1>2

LEMMA StoreStep ==
  ASSUME StoreAssumption, StoreRowsOK, StoreNext
  PROVE  StoreRowsOK' /\ SnapshotsKept
  <1>1. CASE Tick
    <2>1. StoreRowsOK'  BY <1>1 DEF Tick, StoreRowsOK
    <2>2. UNCHANGED <<snapshots, purges>>  BY <1>1 DEF Tick
    <2> QED  BY <2>1, <2>2, StoreSame
  <1>2. ASSUME NEW a \in Analyses, StampAnalysis(a)  PROVE StoreRowsOK' /\ SnapshotsKept
    <2>1. StoreRowsOK'  BY <1>2 DEF StampAnalysis, StoreRowsOK
    <2>2. UNCHANGED <<snapshots, purges>>  BY <1>2 DEF StampAnalysis
    <2> QED  BY <2>1, <2>2, StoreSame
  <1>3. ASSUME NEW a \in Analyses, PersistAnalysis(a)  PROVE StoreRowsOK' /\ SnapshotsKept
    <2>1. ingest[a].at \in Nat  BY DEF StoreRowsOK
    <2>2. Fresh(ingest[a].at) \in Row  BY <2>1, RowTypes
    <2>3. SaveAnalysis(a, Fresh(ingest[a].at)) /\ UNCHANGED <<clock, purges>>
      BY <1>3 DEF PersistAnalysis
    <2>4. /\ analyses' \in [Analyses -> Row]
          /\ snapshots' \in [Analyses -> Seq(Snapshot)]
          /\ SnapshotsKept
      BY <2>2, <2>3, SaveKeeps
    <2>5. /\ ingest' \in [Analyses -> [pc : {"new", "stamped", "saved"}, at : Nat]]
          /\ UNCHANGED <<clock, regen, purges>>
      BY <1>3, ZenonT(30) DEF PersistAnalysis, StoreRowsOK
    <2> QED  BY <2>4, <2>5 DEF StoreRowsOK
  <1>4. ASSUME NEW j \in ReportJobs, LoadForReport(j)  PROVE StoreRowsOK' /\ SnapshotsKept
    <2>1. analyses[ReportOf[j]] \in Row  BY DEF StoreRowsOK, StoreAssumption
    <2>2. regen' \in [ReportJobs -> [pc : {"new", "loaded", "done"}, row : Row]]
      BY <1>4, <2>1, RowTypes DEF LoadForReport, StoreRowsOK
    <2>3. UNCHANGED <<clock, analyses, snapshots, ingest, purges>>  BY <1>4 DEF LoadForReport
    <2> QED  BY <2>2, <2>3, StoreSame DEF StoreRowsOK
  <1>5. ASSUME NEW j \in ReportJobs, SaveReport(j)  PROVE StoreRowsOK' /\ SnapshotsKept
    <2>1. PICK ok \in BOOLEAN : SaveAnalysis(ReportOf[j], Rewritten(regen[j].row, j, ok))
      BY <1>5 DEF SaveReport
    <2>2. regen[j].row \in Row /\ ReportOf[j] \in Analyses  BY DEF StoreRowsOK, StoreAssumption
    <2>3. Rewritten(regen[j].row, j, ok) \in Row  BY <2>2, RowTypes
    <2>4. UNCHANGED <<clock, purges>>  BY <1>5 DEF SaveReport
    <2>5. /\ analyses' \in [Analyses -> Row]
          /\ snapshots' \in [Analyses -> Seq(Snapshot)]
          /\ SnapshotsKept
      BY <2>1, <2>2, <2>3, <2>4, SaveKeeps
    <2>6. /\ regen' \in [ReportJobs -> [pc : {"new", "loaded", "done"}, row : Row]]
          /\ UNCHANGED <<clock, ingest, purges>>
      BY <1>5 DEF SaveReport, StoreRowsOK
    <2> QED  BY <2>5, <2>6 DEF StoreRowsOK
  <1>6. ASSUME NEW c \in Cases, DeleteCase(c)  PROVE StoreRowsOK' /\ SnapshotsKept
    <2>1. /\ analyses' \in [Analyses -> Row]
          /\ snapshots' \in [Analyses -> Seq(Snapshot)]
      BY <1>6, RowTypes DEF DeleteCase, StoreRowsOK
    <2>2. /\ purges' \in [Cases -> Nat]
          /\ purges'[c] = purges[c] + 1
          /\ \A d \in Cases \ {c} : purges'[d] = purges[d]
      BY <1>6 DEF DeleteCase, StoreRowsOK
    <2>3. \A a \in Analyses : CaseOf[a] # c => snapshots'[a] = snapshots[a]
      BY <1>6 DEF DeleteCase
    <2>4. \A a \in Analyses : purges'[CaseOf[a]] = purges[CaseOf[a]] => CaseOf[a] # c
      BY <2>2 DEF StoreRowsOK
    <2>5. \A a \in Analyses : \A s :
            Stored(a, s) /\ purges'[CaseOf[a]] = purges[CaseOf[a]] => Stored(a, s)'
      BY <2>3, <2>4 DEF Stored
    <2>6. ASSUME NEW d \in Cases  PROVE purges[d] <= purges'[d]
      <3>1. purges[d] \in Nat /\ purges[c] \in Nat  BY DEF StoreRowsOK
      <3>2. CASE d = c  BY <2>2, <3>1, <3>2
      <3>3. CASE d # c  BY <2>2, <3>1, <3>3
      <3> QED  BY <3>2, <3>3
    <2>7. UNCHANGED <<clock, ingest, regen>>  BY <1>6 DEF DeleteCase
    <2> QED  BY <2>1, <2>2, <2>5, <2>6, <2>7 DEF StoreRowsOK, SnapshotsKept
  <1>7. CASE GcOrphans
    <2>1. analyses' \in [Analyses -> Row]  BY <1>7, RowTypes DEF GcOrphans, StoreRowsOK
    <2>2. purges' \in [Cases -> Nat] /\ \A d \in Cases : purges[d] <= purges'[d]
      BY <1>7 DEF GcOrphans, StoreRowsOK
    <2>3. UNCHANGED <<clock, snapshots, ingest, regen>>  BY <1>7 DEF GcOrphans
    <2>4. \A a \in Analyses : \A s : Stored(a, s) => Stored(a, s)'  BY <2>3 DEF Stored
    <2> QED  BY <2>1, <2>2, <2>3, <2>4 DEF StoreRowsOK, SnapshotsKept
  <1> QED  BY <1>1, <1>2, <1>3, <1>4, <1>5, <1>6, <1>7 DEF StoreNext
-----------------------------------------------------------------------------
(* The clients.                                                            *)

(* A client that does not move may only lose its snapshot to a deletion    *)
(* that it can see in `purges`.                                            *)
LEMMA ClientKept ==
  ASSUME StoreAssumption, PagingInv, StoreRowsOK', SnapshotsKept,
         NEW p \in Pagers, pager'[p] = pager[p]
  PROVE  PagerOK(p)'
  <1>1. pager[p].of \in Analyses /\ pager[p].purges \in Nat  BY DEF PagingInv, PagerTypeOK
  <1>2. CaseOf[pager[p].of] \in Cases  BY <1>1 DEF StoreAssumption
  <1>3. Purges(p) \in Nat /\ Purges(p)' \in Nat /\ Purges(p) <= Purges(p)'
    BY <1>2 DEF Purges, SnapshotsKept, PagingInv, StoreRowsOK
  <1>4. PagerOK(p)  BY DEF PagingInv
  <1>5. pager[p].pc # "idle" /\ Undeleted(p)' => Undeleted(p) /\ Purges(p)' = Purges(p)
    BY <1>1, <1>3, <1>4 DEF Undeleted, PagerOK, SnapshotKept
  <1>6. Purges(p)' = Purges(p) /\ HasSnapshot(p) => HasSnapshot(p)'
    BY <1>1 DEF Purges, HasSnapshot, SnapshotsKept
  <1>7. Inventory(p)' = Inventory(p)  BY DEF Inventory
  <1>8. OneSnapshot(p)' /\ ReceivedInOrder(p)'
    BY <1>4 DEF PagerOK, OneSnapshot, ReceivedInOrder
  <1>9. SnapshotKept(p)'
    BY <1>1, <1>3, <1>4, <1>5, <1>6 DEF PagerOK, SnapshotKept
  <1>10. InventoryKept(p)'
    BY <1>4, <1>5, <1>7 DEF PagerOK, InventoryKept
  <1> QED  BY <1>8, <1>9, <1>10 DEF PagerOK

(* So a step of one client has to be looked at for that client only.       *)
PagerRecord ==
  [pc : {"idle", "manifest", "legacy", "capture", "count", "rows", "cursor", "done", "refused"},
   of : Analyses, snapshot : Seq(Snapshot), offset : Nat, total : Nat, purges : Nat,
   got : Seq(Snapshot \X Nat)]

LEMMA ClientStep ==
  ASSUME StoreAssumption, PagingInv, StoreRowsOK', SnapshotsKept,
         NEW p \in Pagers, NEW rec \in PagerRecord, Update(p, rec),
         PagerOK(p)'
  PROVE  PagingInv'
  <1>1. pager \in [Pagers -> PagerRecord]  BY DEF PagingInv, PagerTypeOK, PagerRecord
  <1>2. pager' \in [Pagers -> PagerRecord] /\ \A q \in Pagers \ {p} : pager'[q] = pager[q]
    BY <1>1 DEF Update
  <1>3. PagerTypeOK'  BY <1>2 DEF PagerTypeOK, PagerRecord
  <1>4. \A q \in Pagers \ {p} : PagerOK(q)'  BY <1>2, ClientKept
  <1> QED  BY <1>3, <1>4 DEF PagingInv

(* What every step of a client starts from.                                *)
LEMMA ClientFacts ==
  ASSUME StoreAssumption, PagerAssumption, PagingInv, NEW p \in Pagers
  PROVE  /\ pager[p] \in PagerRecord
         /\ pager[p].of \in Analyses /\ CaseOf[pager[p].of] \in Cases
         /\ Purges(p) \in Nat /\ Inventory(p) \in Nat
         /\ OneSnapshot(p) /\ ReceivedInOrder(p) /\ SnapshotKept(p) /\ InventoryKept(p)
         /\ snapshots \in [Analyses -> Seq(Snapshot)]
         /\ analyses \in [Analyses -> Row]
  <1>1. pager[p] \in PagerRecord  BY DEF PagingInv, PagerTypeOK, PagerRecord
  <1>2. pager[p].of \in Analyses  BY <1>1 DEF PagerRecord
  <1>3. CaseOf[pager[p].of] \in Cases  BY <1>2 DEF StoreAssumption
  <1>4. Purges(p) \in Nat  BY <1>3 DEF Purges, PagingInv, StoreRowsOK
  <1>5. Inventory(p) \in Nat  BY <1>2 DEF Inventory, PagerAssumption
  <1> QED  BY <1>1, <1>2, <1>3, <1>4, <1>5 DEF PagingInv, PagerOK, StoreRowsOK

LEMMA UpdatedRecord ==
  ASSUME PagingInv, NEW p \in Pagers, NEW rec, Update(p, rec)
  PROVE  pager'[p] = rec
  BY DEF PagingInv, PagerTypeOK, Update

LEMMA StoreUnmoved ==
  ASSUME PagingInv, UNCHANGED storeVars
  PROVE  /\ StoreRowsOK' /\ SnapshotsKept /\ purges' = purges /\ snapshots' = snapshots
  <1>1. UNCHANGED <<clock, cases, analyses, snapshots, ingest, regen, purges>>  BY DEF storeVars
  <1>2. StoreRowsOK'  BY <1>1 DEF PagingInv, StoreRowsOK
  <1>3. SnapshotsKept  BY <1>1, StoreSame DEF PagingInv
  <1> QED  BY <1>1, <1>2, <1>3

LEMMA AskPageKeeps ==
  ASSUME StoreAssumption, PagerAssumption, PagingInv, NEW p \in Pagers, AskPage(p)
  PROVE  PagingInv'
  <1> DEFINE rec == [pager[p] EXCEPT
                       !.pc = IF Present(pager[p].of) THEN "manifest" ELSE "refused",
                       !.purges = IF pager[p].pc = "idle" THEN Purges(p) ELSE pager[p].purges]
  <1>1. Update(p, rec) /\ pager[p].pc \in {"idle", "cursor"}  BY DEF AskPage
  <1>2. StoreRowsOK' /\ SnapshotsKept /\ purges' = purges /\ snapshots' = snapshots
    BY StoreUnmoved DEF AskPage
  <1>3. rec \in PagerRecord  BY ClientFacts, ZenonT(30) DEF PagerRecord
  <1>4. pager'[p] = rec  BY <1>1, UpdatedRecord
  <1>5. /\ rec.pc \in {"manifest", "refused"}
        /\ rec.of = pager[p].of /\ rec.snapshot = pager[p].snapshot /\ rec.offset = pager[p].offset
        /\ rec.got = pager[p].got
        /\ rec.purges = IF pager[p].pc = "idle" THEN Purges(p) ELSE pager[p].purges
    BY ClientFacts DEF PagerRecord
  <1> HIDE DEF rec
  <1>6. Purges(p)' = Purges(p) /\ Inventory(p)' = Inventory(p) /\ (HasSnapshot(p)' <=> HasSnapshot(p))
    BY <1>2, <1>4, <1>5 DEF Purges, Inventory, HasSnapshot, Stored
  <1>7. OneSnapshot(p)' /\ ReceivedInOrder(p)' /\ InventoryKept(p)'
    BY <1>1, <1>4, <1>5, <1>6, ClientFacts DEF OneSnapshot, ReceivedInOrder, InventoryKept
  <1>8. SnapshotKept(p)'
    <2>1. Purges(p) \in Nat /\ OneSnapshot(p) /\ SnapshotKept(p)  BY ClientFacts
    <2>2. CASE pager[p].pc = "idle"
      <3>1. pager'[p].snapshot = <<>> /\ pager'[p].purges = Purges(p)
        BY <1>4, <1>5, <2>1, <2>2 DEF OneSnapshot
      <3> QED  BY <1>6, <2>1, <3>1 DEF SnapshotKept
    <2>3. CASE pager[p].pc = "cursor"
      <3>1. pager'[p].purges = pager[p].purges /\ pager'[p].snapshot = pager[p].snapshot
        BY <1>4, <1>5, <2>3
      <3>2. Undeleted(p)' <=> Undeleted(p)  BY <1>6, <3>1 DEF Undeleted
      <3> QED  BY <1>6, <2>1, <2>3, <3>1, <3>2 DEF SnapshotKept
    <2> QED  BY <1>1, <2>2, <2>3
  <1>9. PagerOK(p)'  BY <1>7, <1>8 DEF PagerOK
  <1> QED  BY <1>1, <1>2, <1>3, <1>9, ClientStep

(* Steps that keep the pages received, the analysis and the deletions.     *)
LEMMA SameProgress ==
  ASSUME StoreAssumption, PagerAssumption, PagingInv, NEW p \in Pagers, NEW rec \in PagerRecord,
         Update(p, rec), StoreRowsOK', SnapshotsKept, purges' = purges,
         pager[p].pc # "idle",
         rec.pc \notin {"idle", "done"},
         rec.of = pager[p].of, rec.offset = pager[p].offset, rec.got = pager[p].got,
         rec.purges = pager[p].purges,
         rec.pc = "legacy" => rec.snapshot = <<>>,
         rec.pc \in {"capture", "count", "rows", "cursor"} => rec.snapshot # <<>>,
         pager[p].snapshot # <<>> => rec.snapshot = pager[p].snapshot,
         rec.pc \notin {"capture", "refused"} /\ rec.snapshot # <<>> /\ Undeleted(p)
           => StoredAfter(rec.of, rec.snapshot[1]),
         rec.pc = "rows" /\ Undeleted(p) => rec.total = Inventory(p)
  PROVE  PagingInv'
  <1>1. pager'[p] = rec  BY UpdatedRecord
  <1>2. Purges(p)' = Purges(p) /\ Inventory(p)' = Inventory(p) /\ (Undeleted(p)' <=> Undeleted(p))
    BY <1>1 DEF Purges, Inventory, Undeleted
  <1>3. OneSnapshot(p)'  BY <1>1, ClientFacts DEF OneSnapshot
  <1>4. ReceivedInOrder(p)'
    <2>1. pager[p].offset > 0 => rec.snapshot = pager[p].snapshot
      BY ClientFacts DEF OneSnapshot, PagerRecord
    <2>2. pager[p].offset \in Nat  BY ClientFacts DEF PagerRecord
    <2>3. ReceivedInOrder(p)  BY ClientFacts
    <2>4. pager'[p].offset = pager[p].offset /\ pager'[p].got = pager[p].got  BY <1>1
    <2>5. ASSUME NEW i \in 1..pager[p].offset  PROVE pager'[p].got[i] = <<pager'[p].snapshot[1], i>>
      BY <1>1, <2>1, <2>2, <2>3, <2>4 DEF ReceivedInOrder
    <2> QED  BY <2>3, <2>4, <2>5 DEF ReceivedInOrder
  <1>5. SnapshotKept(p)'
    <2>1. HasSnapshot(p)' <=> rec.snapshot # <<>> /\ StoredAfter(rec.of, rec.snapshot[1])
      BY <1>1 DEF HasSnapshot, Stored, StoredAfter
    <2> QED  BY <1>1, <1>2, <2>1, ClientFacts DEF SnapshotKept
  <1>6. InventoryKept(p)'  BY <1>1, <1>2, ClientFacts DEF InventoryKept
  <1>7. PagerOK(p)'  BY <1>3, <1>4, <1>5, <1>6 DEF PagerOK
  <1> QED  BY <1>7, ClientStep

LEMMA ReadManifestKeeps ==
  ASSUME StoreAssumption, PagerAssumption, PagingInv, NEW p \in Pagers, ReadManifest(p)
  PROVE  PagingInv'
  <1> DEFINE a == pager[p].of
  <1>1. StoreRowsOK' /\ SnapshotsKept /\ purges' = purges /\ snapshots' = snapshots
    BY StoreUnmoved DEF ReadManifest
  <1>2. \A s : StoredAfter(a, s) <=> Stored(a, s)  BY <1>1 DEF Stored, StoredAfter
  <1>3. pager[p] \in PagerRecord /\ pager[p].pc = "manifest" /\ a \in Analyses
    BY ClientFacts DEF ReadManifest
  <1>4. CASE pager[p].snapshot # <<>>
    <2> DEFINE rec == [pager[p] EXCEPT !.pc = IF HasSnapshot(p) THEN "count" ELSE "refused"]
    <2>1. Update(p, rec)  BY <1>4 DEF ReadManifest
    <2>2. rec \in PagerRecord  BY <1>3 DEF PagerRecord
    <2>3. /\ rec.pc = IF HasSnapshot(p) THEN "count" ELSE "refused"
          /\ rec.of = a /\ rec.offset = pager[p].offset /\ rec.got = pager[p].got
          /\ rec.purges = pager[p].purges /\ rec.snapshot = pager[p].snapshot
      BY <1>3 DEF PagerRecord
    <2> HIDE DEF rec
    <2>4. rec.pc = "count" => StoredAfter(rec.of, rec.snapshot[1])
      BY <1>2, <2>3 DEF HasSnapshot
    <2> QED  BY <1>1, <1>3, <1>4, <2>1, <2>2, <2>3, <2>4, SameProgress
  <1>5. CASE pager[p].snapshot = <<>> /\ snapshots[a] # <<>>
    <2> DEFINE rec == [pager[p] EXCEPT !.pc = "count", !.snapshot = <<NewestSnapshot(a)>>]
    <2>1. Update(p, rec)  BY <1>5 DEF ReadManifest
    <2>2. snapshots[a] \in Seq(Snapshot) /\ Len(snapshots[a]) \in 1..Len(snapshots[a])
      BY <1>3, <1>5, ClientFacts
    <2>3. NewestSnapshot(a) \in Snapshot /\ Stored(a, NewestSnapshot(a))
      <3>1. a \in Analyses  BY <1>3
      <3> HIDE DEF a, rec
      <3> QED  BY <2>2, <3>1, NewestIsStored
    <2>4. rec \in PagerRecord
      <3>1. <<NewestSnapshot(a)>> \in Seq(Snapshot)  BY <2>3
      <3> QED  BY <1>3, <3>1 DEF PagerRecord
    <2>5. /\ rec.pc = "count" /\ rec.of = a /\ rec.offset = pager[p].offset
          /\ rec.got = pager[p].got /\ rec.purges = pager[p].purges
          /\ rec.snapshot = <<NewestSnapshot(a)>>
      BY <1>3 DEF PagerRecord
    <2> HIDE DEF rec
    <2>6. rec.snapshot # <<>> /\ rec.snapshot[1] = NewestSnapshot(a)  BY <2>5
    <2>7. StoredAfter(rec.of, rec.snapshot[1])  BY <1>2, <2>3, <2>5, <2>6
    <2> QED  BY <1>1, <1>3, <1>5, <2>1, <2>4, <2>5, <2>6, <2>7, SameProgress
  <1>6. CASE pager[p].snapshot = <<>> /\ snapshots[a] = <<>>
    <2> DEFINE rec == [pager[p] EXCEPT !.pc = "legacy"]
    <2>1. Update(p, rec)  BY <1>6 DEF ReadManifest
    <2>2. rec \in PagerRecord  BY <1>3 DEF PagerRecord
    <2>3. /\ rec.pc = "legacy" /\ rec.of = a /\ rec.offset = pager[p].offset
          /\ rec.got = pager[p].got /\ rec.purges = pager[p].purges
          /\ rec.snapshot = <<>>
      BY <1>3, <1>6 DEF PagerRecord
    <2> HIDE DEF rec
    <2> QED  BY <1>1, <1>3, <1>6, <2>1, <2>2, <2>3, SameProgress
  <1> QED  BY <1>4, <1>5, <1>6

LEMMA LoadLegacyKeeps ==
  ASSUME StoreAssumption, PagerAssumption, PagingInv, NEW p \in Pagers, LoadLegacy(p)
  PROVE  PagingInv'
  <1> DEFINE a == pager[p].of
  <1>1. StoreRowsOK' /\ SnapshotsKept /\ purges' = purges
    BY StoreUnmoved DEF LoadLegacy
  <1>2. pager[p] \in PagerRecord /\ pager[p].pc = "legacy" /\ a \in Analyses
        /\ pager[p].snapshot = <<>>
    BY ClientFacts DEF LoadLegacy, OneSnapshot
  <1>3. CASE Present(a)
    <2> DEFINE rec == [pager[p] EXCEPT !.pc = "capture", !.snapshot = <<ContentOf(analyses[a])>>]
    <2>1. Update(p, rec)  BY <1>3 DEF LoadLegacy
    <2>2. ContentOf(analyses[a]) \in Snapshot  BY <1>2, ClientFacts, ContentType
    <2>3. rec \in PagerRecord
      <3>1. <<ContentOf(analyses[a])>> \in Seq(Snapshot)  BY <2>2
      <3> QED  BY <1>2, <3>1 DEF PagerRecord
    <2>4. /\ rec.pc = "capture" /\ rec.of = a /\ rec.offset = pager[p].offset
          /\ rec.got = pager[p].got /\ rec.purges = pager[p].purges
          /\ rec.snapshot # <<>>
      BY <1>2 DEF PagerRecord
    <2> HIDE DEF rec
    <2> QED  BY <1>1, <1>2, <2>1, <2>3, <2>4, SameProgress
  <1>4. CASE ~Present(a)
    <2> DEFINE rec == [pager[p] EXCEPT !.pc = "refused"]
    <2>1. Update(p, rec)  BY <1>4 DEF LoadLegacy
    <2>2. rec \in PagerRecord  BY <1>2 DEF PagerRecord
    <2>3. /\ rec.pc = "refused" /\ rec.of = a /\ rec.offset = pager[p].offset
          /\ rec.got = pager[p].got /\ rec.purges = pager[p].purges
      BY <1>2 DEF PagerRecord
    <2> HIDE DEF rec
    <2> QED  BY <1>1, <1>2, <2>1, <2>2, <2>3, SameProgress
  <1> QED  BY <1>3, <1>4

LEMMA CaptureLegacyKeeps ==
  ASSUME StoreAssumption, PagerAssumption, PagingInv, NEW p \in Pagers, CaptureLegacy(p)
  PROVE  PagingInv'
  <1> DEFINE a == pager[p].of
             s == pager[p].snapshot[1]
             rec == [pager[p] EXCEPT !.pc = "count"]
  <1>1. /\ pager[p].pc = "capture" /\ Capture(a, s) /\ Update(p, rec)
        /\ UNCHANGED <<clock, cases, analyses, ingest, regen, purges>>
    BY DEF CaptureLegacy
  <1>2. pager[p] \in PagerRecord /\ a \in Analyses /\ pager[p].snapshot # <<>>
    BY <1>1, ClientFacts DEF OneSnapshot
  <1>3. s \in Snapshot  BY <1>2 DEF PagerRecord
  <1>4. rec \in PagerRecord  BY <1>2 DEF PagerRecord
  <1>5. /\ rec.pc = "count" /\ rec.of = a /\ rec.offset = pager[p].offset
        /\ rec.got = pager[p].got /\ rec.purges = pager[p].purges
        /\ rec.snapshot = pager[p].snapshot
    BY <1>2 DEF PagerRecord
  <1>6. StoreRowsOK  BY DEF PagingInv
  <1> HIDE DEF rec, a, s
  <1>7. /\ snapshots' \in [Analyses -> Seq(Snapshot)]
        /\ \A b \in Analyses : \A t : Stored(b, t) => Stored(b, t)'
        /\ StoredAfter(a, s)
    BY <1>1, <1>2, <1>3, <1>6, CaptureStores
  <1>8. StoreRowsOK'  BY <1>1, <1>6, <1>7 DEF StoreRowsOK
  <1>9. SnapshotsKept  BY <1>1, <1>6, <1>7 DEF SnapshotsKept, StoreRowsOK
  <1>10. StoredAfter(rec.of, rec.snapshot[1])
    <2>1. rec.of = a /\ rec.snapshot[1] = s  BY <1>5 DEF s
    <2> QED  BY <1>7, <2>1
  <1>11. rec.of = pager[p].of  BY <1>5 DEF a
  <1> QED  BY <1>1, <1>2, <1>4, <1>5, <1>8, <1>9, <1>10, <1>11, SameProgress

LEMMA CountRowsKeeps ==
  ASSUME StoreAssumption, PagerAssumption, PagingInv, NEW p \in Pagers, CountRows(p)
  PROVE  PagingInv'
  <1> DEFINE rec == [pager[p] EXCEPT !.pc = "rows",
                                     !.total = IF HasSnapshot(p) THEN Inventory(p) ELSE 0]
  <1>1. StoreRowsOK' /\ SnapshotsKept /\ purges' = purges /\ snapshots' = snapshots
    BY StoreUnmoved DEF CountRows
  <1>2. Update(p, rec) /\ pager[p].pc = "count"  BY DEF CountRows
  <1>3. rec \in PagerRecord  BY ClientFacts DEF PagerRecord
  <1>4. /\ rec.pc = "rows" /\ rec.of = pager[p].of /\ rec.offset = pager[p].offset
        /\ rec.got = pager[p].got /\ rec.purges = pager[p].purges
        /\ rec.snapshot = pager[p].snapshot
        /\ rec.total = IF HasSnapshot(p) THEN Inventory(p) ELSE 0
    BY ClientFacts DEF PagerRecord
  <1> HIDE DEF rec
  <1>5. pager[p].snapshot # <<>> /\ (Undeleted(p) => HasSnapshot(p))
    BY <1>2, ClientFacts DEF OneSnapshot, SnapshotKept
  <1>6. HasSnapshot(p) => StoredAfter(rec.of, rec.snapshot[1])
    BY <1>1, <1>4 DEF HasSnapshot, Stored, StoredAfter
  <1> QED  BY <1>1, <1>2, <1>3, <1>4, <1>5, <1>6, SameProgress

LEMMA ReadRowsKeeps ==
  ASSUME StoreAssumption, PagerAssumption, PagingInv, NEW p \in Pagers, ReadRows(p)
  PROVE  PagingInv'
  <1>1. StoreRowsOK' /\ SnapshotsKept /\ purges' = purges /\ snapshots' = snapshots
    BY StoreUnmoved DEF ReadRows
  <1>2. pager[p] \in PagerRecord /\ pager[p].pc = "rows"  BY ClientFacts DEF ReadRows
  <1>3. pager[p].snapshot # <<>>  BY <1>2, ClientFacts DEF OneSnapshot
  <1>4. PICK limit \in 1..MaxLimit :
          Update(p, IF Readable(p, limit) > 0 /\ Fitting(p, limit) = 0
                    THEN [pager[p] EXCEPT !.pc = "refused"]
                    ELSE Answer(p, Fitting(p, limit)))
    BY DEF ReadRows
  <1>5. CASE Readable(p, limit) > 0 /\ Fitting(p, limit) = 0
    <2> DEFINE rec == [pager[p] EXCEPT !.pc = "refused"]
    <2>1. Update(p, rec)  BY <1>4, <1>5
    <2>2. rec \in PagerRecord  BY <1>2 DEF PagerRecord
    <2>3. /\ rec.pc = "refused" /\ rec.of = pager[p].of /\ rec.offset = pager[p].offset
          /\ rec.got = pager[p].got /\ rec.purges = pager[p].purges
          /\ rec.snapshot = pager[p].snapshot
      BY <1>2 DEF PagerRecord
    <2> HIDE DEF rec
    <2> QED  BY <1>1, <1>2, <2>1, <2>2, <2>3, SameProgress
  <1>6. CASE ~(Readable(p, limit) > 0 /\ Fitting(p, limit) = 0)
    <2> DEFINE n    == Fitting(p, limit)
               rec  == Answer(p, n)
               sent == Page(p, n)
    <2>1. Update(p, rec)  BY <1>4, <1>6
    <2>2. PagerTypeOK /\ InventoryKept(p)  BY ClientFacts DEF PagingInv
    <2>3. n \in Nat /\ pager[p].offset + n <= Inventory(p)  BY <2>2, PageWithinInventory
    <2>4. pager[p].offset \in Nat /\ Inventory(p) \in Nat /\ pager[p].total \in Nat
          /\ pager[p].snapshot[1] \in Snapshot /\ pager[p].got \in Seq(Snapshot \X Nat)
      BY <1>2, <1>3, ClientFacts DEF PagerRecord
    <2> HIDE DEF n
    <2>5. sent \in Seq(Snapshot \X Nat) /\ Len(sent) = n
          /\ \A i \in 1..n : sent[i] = <<pager[p].snapshot[1], pager[p].offset + i>>
      <3>1. sent = [i \in 1..n |-> <<pager[p].snapshot[1], pager[p].offset + i>>]  BY DEF Page
      <3>2. \A i \in 1..n : <<pager[p].snapshot[1], pager[p].offset + i>> \in Snapshot \X Nat
        BY <2>3, <2>4
      <3> HIDE DEF sent
      <3>3. sent \in [1..n -> Snapshot \X Nat]  BY <3>1, <3>2
      <3>4. sent \in Seq(Snapshot \X Nat) /\ Len(sent) = n  BY <2>3, <3>3, FunctionIsSeq
      <3>5. \A i \in 1..n : sent[i] = <<pager[p].snapshot[1], pager[p].offset + i>>  BY <3>1
      <3> QED  BY <3>4, <3>5
    <2> HIDE DEF sent
    <2>6. rec = [pager[p] EXCEPT !.got = pager[p].got \o sent,
                                 !.offset = pager[p].offset + n,
                                 !.pc = IF pager[p].offset + n < pager[p].total
                                        THEN "cursor" ELSE "done"]
      BY DEF Answer, sent
    <2>7. pager[p].got \o sent \in Seq(Snapshot \X Nat)  BY <2>4, <2>5
    <2> HIDE DEF rec
    <2>8. rec \in PagerRecord
      <3>1. pager[p].offset + n \in Nat  BY <2>3, <2>4
      <3> DEFINE S == Seq(Snapshot \X Nat)
      <3>2. pager[p].got \o sent \in S  BY <2>7
      <3>3. PagerRecord = [pc : {"idle", "manifest", "legacy", "capture", "count", "rows", "cursor",
                                "done", "refused"},
                           of : Analyses, snapshot : Seq(Snapshot), offset : Nat, total : Nat,
                           purges : Nat, got : S]
        BY DEF PagerRecord
      <3> HIDE DEF S
      <3> QED  BY <1>2, <2>6, <3>1, <3>2, <3>3
    <2>9. /\ rec.pc = IF pager[p].offset + n < pager[p].total THEN "cursor" ELSE "done"
          /\ rec.of = pager[p].of /\ rec.snapshot = pager[p].snapshot
          /\ rec.offset = pager[p].offset + n /\ rec.got = pager[p].got \o sent
          /\ rec.purges = pager[p].purges
      BY <1>2, <2>6 DEF PagerRecord
    <2>10. pager'[p] = rec  BY <2>1, UpdatedRecord
    <2>11. /\ Purges(p)' = Purges(p) /\ Inventory(p)' = Inventory(p)
           /\ (Undeleted(p)' <=> Undeleted(p)) /\ (HasSnapshot(p)' <=> HasSnapshot(p))
      BY <1>1, <2>9, <2>10 DEF Purges, Inventory, Undeleted, HasSnapshot, Stored
    <2>12. OneSnapshot(p)'  BY <1>3, <2>9, <2>10 DEF OneSnapshot
    <2>13. ReceivedInOrder(p)'
      <3> DEFINE got == pager[p].got
                 m   == pager[p].offset
      <3>1. /\ got \in Seq(Snapshot \X Nat) /\ m \in Nat /\ Len(got) = m
            /\ \A i \in 1..m : got[i] = <<pager[p].snapshot[1], i>>
        BY <2>4, ClientFacts DEF ReceivedInOrder
      <3> HIDE DEF got, m
      <3>2. Len(got \o sent) = m + n  BY <2>5, <3>1, ConcatProperties
      <3>3. ASSUME NEW i \in 1..(m + n)
            PROVE  (got \o sent)[i] = <<pager[p].snapshot[1], i>>
        <4>1. CASE i <= m
          <5>1. (got \o sent)[i] = got[i]  BY <2>3, <2>5, <3>1, <4>1
          <5> QED  BY <3>1, <4>1, <5>1
        <4>2. CASE ~(i <= m)
          <5>1. i - m \in 1..n  BY <2>3, <3>1, <4>2
          <5>2. (got \o sent)[i] = sent[i - m]  BY <2>3, <2>5, <3>1, <4>2, SMTT(30)
          <5>3. sent[i - m] = <<pager[p].snapshot[1], m + (i - m)>>  BY <2>5, <5>1 DEF m
          <5>4. m + (i - m) = i  BY <3>1
          <5> QED  BY <5>2, <5>3, <5>4
        <4> QED  BY <4>1, <4>2
      <3>4. /\ pager'[p].got = got \o sent /\ pager'[p].offset = m + n
            /\ pager'[p].snapshot = pager[p].snapshot
        BY <2>9, <2>10 DEF got, m
      <3> QED  BY <3>2, <3>3, <3>4 DEF ReceivedInOrder
    <2>14. SnapshotKept(p)'
      BY <1>2, <1>3, <2>9, <2>10, <2>11, ClientFacts DEF SnapshotKept
    <2>15. InventoryKept(p)'
      <3>1. rec.pc = "done" /\ Undeleted(p) => rec.offset = Inventory(p)
        <4>1. Undeleted(p) => pager[p].total = Inventory(p)  BY <1>2, <2>2 DEF InventoryKept
        <4>2. rec.pc = "done" => ~(pager[p].offset + n < pager[p].total)  BY <2>9
        <4>3. rec.offset = pager[p].offset + n  BY <2>9
        <4>4. pager[p].offset + n <= Inventory(p)  BY <2>3
        <4> DEFINE inv == Inventory(p)
                   off == pager[p].offset
                   tot == pager[p].total
        <4>5. off \in Nat /\ inv \in Nat /\ tot \in Nat /\ n \in Nat /\ off + n <= inv
          BY <2>3, <2>4, <4>4
        <4> HIDE DEF inv, off, tot
        <4>6. ~(off + n < tot) /\ tot = inv => off + n = inv  BY <4>5
        <4> QED  BY <4>1, <4>2, <4>3, <4>6 DEF inv, off, tot
      <3> QED  BY <2>3, <2>9, <2>10, <2>11, <3>1 DEF InventoryKept
    <2>16. PagerOK(p)'  BY <2>12, <2>13, <2>14, <2>15 DEF PagerOK
    <2> QED  BY <1>1, <2>1, <2>8, <2>16, ClientStep
  <1> QED  BY <1>5, <1>6

LEMMA TimeBudgetKeeps ==
  ASSUME StoreAssumption, PagerAssumption, PagingInv, NEW p \in Pagers, TimeBudgetExceeded(p)
  PROVE  PagingInv'
  <1> DEFINE rec == [pager[p] EXCEPT !.pc = "refused"]
  <1>1. StoreRowsOK' /\ SnapshotsKept /\ purges' = purges
    BY StoreUnmoved DEF TimeBudgetExceeded
  <1>2. Update(p, rec) /\ pager[p].pc \in {"count", "rows"}  BY DEF TimeBudgetExceeded
  <1>3. rec \in PagerRecord  BY ClientFacts DEF PagerRecord
  <1>4. /\ rec.pc = "refused" /\ rec.of = pager[p].of /\ rec.offset = pager[p].offset
        /\ rec.got = pager[p].got /\ rec.purges = pager[p].purges
        /\ rec.snapshot = pager[p].snapshot
    BY ClientFacts DEF PagerRecord
  <1> HIDE DEF rec
  <1> QED  BY <1>1, <1>2, <1>3, <1>4, SameProgress
-----------------------------------------------------------------------------
(* The theorems.                                                           *)

LEMMA PagingInit == ASSUME StoreAssumption, PagerAssumption, Init PROVE PagingInv
  <1>1. StoreRowsOK
    BY RowTypes DEF Init, StoreInit, StoreRowsOK, StoreAssumption
  <1>2. pager \in [Pagers -> {NewPager(a) : a \in Analyses}]  BY DEF Init, PagerInit
  <1>3. PagerTypeOK
    <2>1. \A a \in Analyses : NewPager(a) \in PagerRecord
      <3>1. <<>> \in Seq(Snapshot) /\ <<>> \in Seq(Snapshot \X Nat)  OBVIOUS
      <3> QED  BY <3>1 DEF NewPager, PagerRecord
    <2>2. pager \in [Pagers -> PagerRecord]  BY <1>2, <2>1
    <2> QED  BY <2>2 DEF PagerTypeOK, PagerRecord
  <1>4. ASSUME NEW p \in Pagers  PROVE PagerOK(p)
    <2>1. PICK a \in Analyses : pager[p] = NewPager(a)  BY <1>2
    <2>2. Inventory(p) \in Nat  BY <2>1 DEF NewPager, Inventory, PagerAssumption
    <2> QED  BY <2>1, <2>2 DEF NewPager, PagerOK, OneSnapshot, ReceivedInOrder, SnapshotKept, InventoryKept
  <1> QED  BY <1>1, <1>3, <1>4 DEF PagingInv

LEMMA OthersKeep ==
  ASSUME StoreAssumption, PagingInv, StoreRowsOK', SnapshotsKept, UNCHANGED pager
  PROVE  PagingInv'
  <1>1. PagerTypeOK'  BY DEF PagingInv, PagerTypeOK
  <1>2. \A p \in Pagers : PagerOK(p)'  BY ClientKept
  <1> QED  BY <1>1, <1>2 DEF PagingInv

(* The requests for reports and the feed write nothing that paging reads.  *)
LEMMA CacheLeavesStore == ASSUME CacheNext PROVE UNCHANGED storeVars
  BY DEF CacheNext, ReaderStep, LoadCase, LoadAnalyses, LookAtCache, WritePdf, PublishPdf, RenderFails, ServePdf,
         UnlinkPdf, GcReports

LEMMA PagingNext ==
  ASSUME StoreAssumption, PagerAssumption, PagingInv, [Next]_vars
  PROVE  PagingInv'
  <1>1. ASSUME UNCHANGED storeVars, UNCHANGED pager  PROVE PagingInv'
    <2>1. StoreRowsOK' /\ SnapshotsKept  BY <1>1, StoreUnmoved
    <2> QED  BY <1>1, <2>1, OthersKeep
  <1>2. CASE StoreNext /\ UNCHANGED <<pager, feed, cacheVars>>
    <2>1. StoreRowsOK  BY DEF PagingInv
    <2>2. StoreRowsOK' /\ SnapshotsKept  BY <1>2, <2>1, StoreStep
    <2> QED  BY <1>2, <2>2, OthersKeep
  <1>3. ASSUME NEW p \in Pagers, PagerStep(p)  PROVE PagingInv'
    BY <1>3, AskPageKeeps, ReadManifestKeeps, LoadLegacyKeeps, CaptureLegacyKeeps, CountRowsKeeps,
       ReadRowsKeeps, TimeBudgetKeeps DEF PagerStep
  <1>4. ASSUME NEW f \in FeedClients, FetchPage(f), UNCHANGED <<pager, cacheVars>>  PROVE PagingInv'
    <2>1. UNCHANGED storeVars  BY <1>4 DEF FetchPage
    <2> QED  BY <1>1, <1>4, <2>1
  <1>5. CASE CacheNext /\ UNCHANGED <<pager, feed>>
    BY <1>1, <1>5, CacheLeavesStore
  <1>6. CASE UNCHANGED vars
    <2>1. UNCHANGED <<storeVars, pager>>  BY <1>6 DEF vars
    <2> QED  BY <1>1, <2>1
  <1> QED  BY <1>2, <1>3, <1>4, <1>5, <1>6 DEF Next

THEOREM PagingInvariant == Spec => []PagingInv
  <1>1. Init => PagingInv  BY PagingInit, StoreAssumption, PagerAssumption
  <1>2. PagingInv /\ [Next]_vars => PagingInv'  BY PagingNext, StoreAssumption, PagerAssumption
  <1> QED  BY <1>1, <1>2, PTL DEF Spec

(* What a client has received is a prefix of its one snapshot, in order    *)
(* and without repetition, whatever is written or deleted between pages.   *)
THEOREM PagesComeInOrder == Spec => []PagesInOrder
  <1>1. PagingInv => PagesInOrder
    <2> SUFFICES ASSUME PagingInv, NEW p \in Pagers
                 PROVE  pager[p].got = [i \in 1..pager[p].offset |-> <<pager[p].snapshot[1], i>>]
      BY DEF PagesInOrder
    <2>1. pager[p].got \in Seq(Snapshot \X Nat) /\ pager[p].offset \in Nat
      BY DEF PagingInv, PagerTypeOK
    <2>2. ReceivedInOrder(p)  BY DEF PagingInv, PagerOK
    <2>3. pager[p].got = [i \in 1..pager[p].offset |-> pager[p].got[i]]
      BY <2>1, <2>2 DEF ReceivedInOrder
    <2> QED  BY <2>2, <2>3 DEF ReceivedInOrder
  <1> QED  BY <1>1, PagingInvariant, PTL

(* A client that followed its cursors to the end has every record of its   *)
(* snapshot, unless its case was deleted meanwhile.                        *)
THEOREM PagesAreComplete == Spec => []CompleteUnlessPurged
  <1>1. PagingInv => CompleteUnlessPurged
    BY DEF PagingInv, PagerOK, InventoryKept, ReceivedInOrder, CompleteUnlessPurged, Undeleted
  <1> QED  BY <1>1, PagingInvariant, PTL

(* So what the evidence API hands out is one snapshot, whole.              *)
THEOREM PagesAreWhole == Spec => []PagesWhole
  BY PagesComeInOrder, PagesAreComplete, PTL DEF PagesWhole

-----------------------------------------------------------------------------
(***************************************************************************)
(* The indicator feed                                                      *)
(***************************************************************************)
(* An analysis is always saved under the time it was stamped with, also by *)
(* a report job that loaded it before it was deleted.                      *)
TimesKnown ==
  /\ \A a \in Analyses :
       /\ ingest[a].at \in 1..clock
       /\ Present(a) => ingest[a].pc = "saved" /\ analyses[a].at = ingest[a].at
  /\ \A j \in ReportJobs : regen[j].pc = "loaded" =>
       ingest[ReportOf[j]].pc = "saved" /\ regen[j].row.at = ingest[ReportOf[j]].at

(* The feed as it is.                                                      *)
Sighted == {<<i, LastSeen(i)>> : i \in Seen}

(* While nothing is deleted: what was in the feed is still there, and no   *)
(* further up; what the client has not received and has not moved is below *)
(* its cursor; and of a feed that did not move it has all above the cursor.*)
StartKept(f) ==
  \A i \in Indicators, t \in Nat : <<i, t>> \in feed[f].start => i \in Seen /\ t <= LastSeen(i)

NoneMissed(f) ==
  \A i \in Indicators : Unmoved(f, i) =>
    i \in feed[f].got \/ (feed[f].pc = "cursor" /\ Rank(i) > feed[f].offset)

AllAbove(f) ==
  feed[f].start = Sighted =>
    IF feed[f].pc = "cursor"
    THEN /\ feed[f].got = {i \in Seen : Rank(i) <= feed[f].offset}
         /\ feed[f].rows = feed[f].offset /\ feed[f].offset <= FeedSize
    ELSE feed[f].got = Seen /\ feed[f].rows = FeedSize

FeedOK(f) ==
  /\ feed[f].pc = "idle" => feed[f].offset = 0 /\ feed[f].got = {} /\ feed[f].rows = 0
  /\ \A c \in Cases : feed[f].purges[c] <= purges[c]
  /\ \A i \in Indicators, t, u \in Nat : <<i, t>> \in feed[f].start /\ <<i, u>> \in feed[f].start => t = u
  /\ feed[f].pc # "idle" /\ feed[f].purges = purges => StartKept(f) /\ NoneMissed(f) /\ AllAbove(f)

FeedInv == TimesKnown /\ FeedTypeOK /\ \A f \in FeedClients : FeedOK(f)
-----------------------------------------------------------------------------
(* What is stored keeps its time, unless a deletion shows.                 *)
FeedGrows == purges' = purges => \A a \in Analyses : Present(a) => analyses'[a].at = analyses[a].at

LEMMA FeedStore ==
  ASSUME StoreAssumption, StoreRowsOK, TimesKnown, StoreNext
  PROVE  TimesKnown' /\ FeedGrows
  <1>0. /\ clock \in Nat /\ analyses \in [Analyses -> Row]
        /\ \A a \in Analyses : analyses[a].at \in Nat /\ ingest[a].at \in Nat
        /\ \A j \in ReportJobs : ReportOf[j] \in Analyses
    BY DEF StoreRowsOK, Row, StoreAssumption
  <1>1. CASE Tick
    BY <1>0, <1>1 DEF Tick, TimesKnown, FeedGrows, Present
  <1>2. ASSUME NEW a \in Analyses, StampAnalysis(a)  PROVE TimesKnown' /\ FeedGrows
    <2>1. /\ ingest[a].pc = "new" /\ UNCHANGED <<clock, analyses, regen, purges>>
          /\ ingest' = [ingest EXCEPT ![a] = [pc |-> "stamped", at |-> clock]]
      BY <1>2 DEF StampAnalysis
    <2>2. ingest'[a].at = clock /\ \A b \in Analyses \ {a} : ingest'[b] = ingest[b]
      BY <2>1 DEF StoreRowsOK
    <2>3. clock \in 1..clock
      BY <1>0 DEF TimesKnown
    <2> QED  BY <1>0, <2>1, <2>2, <2>3 DEF TimesKnown, FeedGrows, Present
  <1>3. ASSUME NEW a \in Analyses, PersistAnalysis(a)  PROVE TimesKnown' /\ FeedGrows
    <2>1. /\ ingest[a].pc = "stamped" /\ UNCHANGED <<clock, regen, purges>>
          /\ ingest' = [ingest EXCEPT ![a].pc = "saved"]
          /\ analyses' = [analyses EXCEPT ![a] = Fresh(ingest[a].at)]
      BY <1>3 DEF PersistAnalysis, SaveAnalysis
    <2>2. /\ ingest'[a].at = ingest[a].at /\ ingest'[a].pc = "saved"
          /\ \A b \in Analyses \ {a} : ingest'[b] = ingest[b]
      BY <2>1 DEF StoreRowsOK
    <2>3. analyses'[a].at = ingest[a].at /\ \A b \in Analyses \ {a} : analyses'[b] = analyses[b]
      BY <1>0, <2>1 DEF Fresh
    <2> QED  BY <1>0, <2>1, <2>2, <2>3 DEF TimesKnown, FeedGrows, Present
  <1>4. ASSUME NEW j \in ReportJobs, LoadForReport(j)  PROVE TimesKnown' /\ FeedGrows
    <2> DEFINE a == ReportOf[j]
    <2>1. /\ UNCHANGED <<clock, analyses, ingest, purges>>
          /\ regen' = [regen EXCEPT ![j] = IF Present(a) THEN [pc |-> "loaded", row |-> analyses[a]]
                                           ELSE [pc |-> "done", row |-> NoAnalysis]]
      BY <1>4 DEF LoadForReport
    <2>2. /\ regen'[j].pc = "loaded" => Present(a) /\ regen'[j].row = analyses[a]
          /\ \A k \in ReportJobs \ {j} : regen'[k] = regen[k]
      BY <2>1 DEF StoreRowsOK
    <2> QED  BY <1>0, <2>1, <2>2 DEF TimesKnown, FeedGrows, Present
  <1>5. ASSUME NEW j \in ReportJobs, SaveReport(j)  PROVE TimesKnown' /\ FeedGrows
    <2>1. PICK a \in Analyses : a = ReportOf[j]  BY <1>0
    <2>2. PICK ok \in BOOLEAN : analyses' = [analyses EXCEPT ![a] = Rewritten(regen[j].row, j, ok)]
      BY <1>5, <2>1 DEF SaveReport, SaveAnalysis
    <2>3. /\ regen[j].pc = "loaded" /\ UNCHANGED <<clock, ingest, purges>>
          /\ regen' = [regen EXCEPT ![j].pc = "done"]
      BY <1>5 DEF SaveReport
    <2>4. regen[j].row \in Row /\ regen'[j].pc = "done" /\ \A k \in ReportJobs \ {j} : regen'[k] = regen[k]
      BY <2>3 DEF StoreRowsOK
    <2>5. Rewritten(regen[j].row, j, ok).at = regen[j].row.at
      BY <2>4 DEF Rewritten, Row
    <2>6. analyses'[a].at = ingest[a].at /\ \A b \in Analyses \ {a} : analyses'[b] = analyses[b]
      BY <1>0, <2>1, <2>2, <2>3, <2>5 DEF TimesKnown
    <2>7. ingest[a].pc = "saved"  BY <2>1, <2>3 DEF TimesKnown
    <2> QED  BY <1>0, <2>1, <2>3, <2>4, <2>6, <2>7 DEF TimesKnown, FeedGrows, Present
  <1>6. ASSUME \A a \in Analyses : analyses'[a] = analyses[a] \/ analyses'[a] = NoAnalysis,
               UNCHANGED <<clock, ingest, regen>>, purges' # purges
        PROVE  TimesKnown' /\ FeedGrows
    BY <1>0, <1>6 DEF TimesKnown, FeedGrows, Present, NoAnalysis
  <1>7. ASSUME NEW c \in Cases, DeleteCase(c)  PROVE TimesKnown' /\ FeedGrows
    <2>1. purges'[c] = purges[c] + 1 /\ purges[c] \in Nat
      BY <1>7 DEF DeleteCase, StoreRowsOK
    <2>2. purges' # purges  BY <2>1
    <2> QED  BY <1>6, <1>7, <2>2 DEF DeleteCase
  <1>8. CASE GcOrphans
    <2>1. PICK a \in Orphans : TRUE  BY <1>8 DEF GcOrphans
    <2>2. a \in Analyses /\ CaseOf[a] \in Cases  BY DEF Orphans, StoreAssumption
    <2>3. purges'[CaseOf[a]] = purges[CaseOf[a]] + 1 /\ purges[CaseOf[a]] \in Nat
      BY <1>8, <2>1, <2>2 DEF GcOrphans, StoreRowsOK
    <2>4. purges' # purges  BY <2>3
    <2> QED  BY <1>6, <1>8, <2>4 DEF GcOrphans
  <1> QED  BY <1>1, <1>2, <1>3, <1>4, <1>5, <1>7, <1>8 DEF StoreNext

-----------------------------------------------------------------------------
(* The order of the feed.                                                  *)

(* The least-number principle, for a set.                                  *)
LEMMA LeastNumber ==
  ASSUME NEW T, T \subseteq Nat, T # {}
  PROVE  \E x \in T : \A y \in T : x <= y
  <1>1. PICK x \in T : \A y \in T : ~(<<y, x>> \in OpToRel(<, Nat))
    BY NatLessThanWellFounded, WFMin, Zenon
  <1>2. \A y \in T : ~(y < x)  BY <1>1 DEF OpToRel
  <1> QED  BY <1>2

(* An indicator in the feed was last seen when one of its analyses was.    *)
LEMMA LastSeenIs ==
  ASSUME StoreRowsOK, TimesKnown, NEW i \in Seen
  PROVE  /\ LastSeen(i) \in Nat
         /\ \E a \in SightingsOf(i) : analyses[a].at = LastSeen(i)
         /\ \A a \in SightingsOf(i) : analyses[a].at <= LastSeen(i)
  <1> DEFINE S == SightingsOf(i)
             T == {t \in Nat : \A a \in S : analyses[a].at <= t}
             times == {analyses[a].at : a \in S}
  <1>1. S # {} /\ \A a \in S : analyses[a].at \in Nat /\ analyses[a].at >= 1 /\ analyses[a].at <= clock
    BY DEF Seen, SightingsOf, StoreRowsOK, TimesKnown, Present
  <1>2. clock \in T  BY <1>1 DEF StoreRowsOK
  <1>3. PICK m \in T : \A t \in T : m <= t
    <2>1. T \subseteq Nat /\ T # {}  BY <1>2
    <2> HIDE DEF T
    <2> QED  BY <2>1, LeastNumber
  <1>4. \E a \in S : analyses[a].at = m
    <2> SUFFICES ASSUME \A a \in S : analyses[a].at # m PROVE FALSE  OBVIOUS
    <2>1. m >= 1 /\ m \in Nat  BY <1>1, <1>3
    <2>2. \A a \in S : analyses[a].at <= m - 1  BY <1>1, <1>3, <2>1
    <2>3. m - 1 \in T  BY <2>1, <2>2
    <2> QED  BY <1>3, <2>1, <2>3
  <1>5. m \in times /\ \A a \in S : analyses[a].at <= m  BY <1>3, <1>4
  <1>6. LastSeen(i) = CHOOSE t \in times : \A a \in S : analyses[a].at <= t
    BY DEF LastSeen, Newest
  <1>7. LastSeen(i) \in times /\ \A a \in S : analyses[a].at <= LastSeen(i)
    <2> HIDE DEF times, S
    <2> QED  BY <1>5, <1>6
  <1> QED  BY <1>1, <1>7

LEMMA SeenTypes ==
  ASSUME StoreRowsOK, TimesKnown
  PROVE  /\ Seen \subseteq Indicators /\ IsFiniteSet(Seen)
         /\ \A i \in Seen : i \in Nat /\ LastSeen(i) \in Nat
         /\ FeedSize \in Nat
  <1>1. Seen \subseteq Indicators  BY DEF Seen
  <1>2. IsFiniteSet(Seen)  BY <1>1, FeedAssumption, FS_Subset
  <1>3. \A i \in Seen : i \in Nat /\ LastSeen(i) \in Nat
    BY <1>1, FeedAssumption, LastSeenIs
  <1> QED  BY <1>1, <1>2, <1>3, FS_CardinalityType DEF FeedSize

Above(i) == {k \in Seen : Before(k, i)}

(* Rank numbers the feed: each place has one indicator.                    *)
LEMMA RanksNumber ==
  ASSUME StoreRowsOK, TimesKnown
  PROVE  /\ \A i \in Seen : Rank(i) \in 1..FeedSize
         /\ \A i, k \in Seen : Rank(i) = Rank(k) => i = k
         /\ \A n \in 1..FeedSize : \E i \in Seen : Rank(i) = n
  <1>1. /\ IsFiniteSet(Seen) /\ FeedSize \in Nat /\ FeedSize = Cardinality(Seen)
        /\ \A i \in Seen : i \in Nat /\ LastSeen(i) \in Nat
    BY SeenTypes DEF FeedSize
  <1>2. ASSUME NEW i
        PROVE  IsFiniteSet(Above(i)) /\ Cardinality(Above(i)) \in Nat /\ Rank(i) = Cardinality(Above(i)) + 1
    <2>1. Above(i) \subseteq Seen  BY DEF Above
    <2> QED  BY <1>1, <2>1, FS_Subset, FS_CardinalityType DEF Rank, Above
  <1>3. ASSUME NEW i \in Seen PROVE Rank(i) \in 1..FeedSize
    <2>1. i \notin Above(i)  BY <1>1 DEF Above, Before
    <2>2. Above(i) \cup {i} \subseteq Seen  BY DEF Above
    <2>a. IsFiniteSet(Above(i)) /\ Rank(i) = Cardinality(Above(i)) + 1  BY <1>2
    <2>3. Cardinality(Above(i) \cup {i}) = Rank(i)  BY <2>a, <2>1, FS_AddElement
    <2>4. Rank(i) <= FeedSize  BY <1>1, <2>2, <2>3, FS_Subset
    <2> QED  BY <1>1, <1>2, <2>4
  <1>4. ASSUME NEW i \in Seen, NEW k \in Seen, Before(k, i) PROVE Rank(k) < Rank(i)
    <2>1. k \notin Above(k) /\ k \in Above(i)  BY <1>1, <1>4 DEF Above, Before
    <2>2. Above(k) \cup {k} \subseteq Above(i)
      BY <1>1, <1>4, <2>1 DEF Above, Before
    <2>a. IsFiniteSet(Above(k)) /\ Rank(k) = Cardinality(Above(k)) + 1  BY <1>2
    <2>3. Cardinality(Above(k) \cup {k}) = Rank(k)  BY <2>a, <2>1, FS_AddElement
    <2>4. Rank(k) <= Cardinality(Above(i))  BY <1>2, <2>2, <2>3, FS_Subset
    <2> QED  BY <1>2, <2>4
  <1>5. ASSUME NEW i \in Seen, NEW k \in Seen, Rank(i) = Rank(k) PROVE i = k
    <2>1. i # k => Before(i, k) \/ Before(k, i)  BY <1>1 DEF Before
    <2>2. Rank(i) \in Nat /\ Rank(k) \in Nat  BY <1>2
    <2> QED  BY <1>4, <1>5, <2>1, <2>2
  <1>6. \A n \in 1..FeedSize : \E i \in Seen : Rank(i) = n
    <2> DEFINE rank == [i \in Seen |-> Rank(i)]
    <2>1. IsFiniteSet(1..FeedSize) /\ Cardinality(1..FeedSize) = FeedSize
      BY <1>1, FS_Interval
    <2>2. rank \in Injection(Seen, 1..FeedSize)
      BY <1>3, <1>5 DEF Injection, IsInjective
    <2>3. rank \in Surjection(Seen, 1..FeedSize)
      <3> HIDE DEF rank
      <3> QED  BY <1>1, <2>1, <2>2, FS_Injection
    <2> QED  BY <2>3 DEF Surjection
  <1> QED  BY <1>3, <1>5, <1>6

LEMMA RowsOfRanks ==
  ASSUME StoreRowsOK, TimesKnown
  PROVE  /\ \A n \in 1..FeedSize : RowAt(n) \in Seen /\ Rank(RowAt(n)) = n
         /\ \A i \in Seen : RowAt(Rank(i)) = i
  <1>1. ASSUME NEW n \in 1..FeedSize PROVE RowAt(n) \in Seen /\ Rank(RowAt(n)) = n
    <2>1. \E i \in Seen : Rank(i) = n  BY RanksNumber
    <2> QED  BY <2>1 DEF RowAt
  <1>2. ASSUME NEW i \in Seen PROVE RowAt(Rank(i)) = i
    <2>1. Rank(i) \in 1..FeedSize  BY RanksNumber
    <2> QED  BY <1>1, <2>1, RanksNumber
  <1> QED  BY <1>1, <1>2

(* A page is the part of the feed between two ranks.                       *)
LEMMA PageIs ==
  ASSUME StoreRowsOK, TimesKnown, NEW offset \in Nat
  PROVE  LET rows == {RowAt(n) : n \in (offset + 1)..PageEnd(offset)} IN
         /\ PageEnd(offset) \in Nat /\ PageEnd(offset) <= FeedSize
         /\ rows = {i \in Seen : Rank(i) > offset /\ Rank(i) <= PageEnd(offset)}
         /\ Cardinality(rows) = IF offset <= PageEnd(offset) THEN PageEnd(offset) - offset ELSE 0
  <1> DEFINE last == PageEnd(offset)
             places == (offset + 1)..last
             rows == {RowAt(n) : n \in places}
  <1>1. last \in Nat /\ last <= FeedSize /\ FeedSize \in Nat
    BY SeenTypes, FeedAssumption DEF PageEnd
  <1> HIDE DEF last
  <1>2. \A n \in places : n \in 1..FeedSize  BY <1>1
  <1>3. \A i \in Seen : Rank(i) \in Nat /\ Rank(i) >= 1  BY RanksNumber
  <1>4. rows = {i \in Seen : Rank(i) > offset /\ Rank(i) <= last}
    <2>1. ASSUME NEW n \in places PROVE RowAt(n) \in {i \in Seen : Rank(i) > offset /\ Rank(i) <= last}
      <3>1. RowAt(n) \in Seen /\ Rank(RowAt(n)) = n  BY <1>2, RowsOfRanks
      <3> QED  BY <1>1, <3>1
    <2>2. ASSUME NEW i \in Seen, Rank(i) > offset, Rank(i) <= last PROVE i \in rows
      <3>1. Rank(i) \in places /\ RowAt(Rank(i)) = i  BY <1>1, <1>3, <2>2, RowsOfRanks
      <3> QED  BY <3>1
    <2> QED  BY <2>1, <2>2
  <1>5. Cardinality(rows) = Cardinality(places) /\ IsFiniteSet(places)
    <2>1. IsFiniteSet(places)  BY <1>1, FS_Interval
    <2> DEFINE g == [n \in places |-> RowAt(n)]
    <2>2. g \in Surjection(places, rows)  BY DEF Surjection
    <2>3. \A n, m \in places : g[n] = g[m] => n = m  BY <1>2, RowsOfRanks
    <2>4. g \in Injection(places, rows)  BY <2>3 DEF Injection, IsInjective
    <2> HIDE DEF g, rows, places
    <2> QED  BY <2>1, <2>2, <2>4, FS_Surjection
  <1>6. Cardinality(places) = IF offset <= last THEN last - offset ELSE 0
    <2>1. Cardinality(places) = IF offset + 1 > last THEN 0 ELSE last - (offset + 1) + 1
      BY <1>1, FS_Interval
    <2> QED  BY <1>1, <2>1
  <1> QED  BY <1>1, <1>4, <1>5, <1>6 DEF last

(* What is known of the feed in a state, and in the next.                  *)
FeedFacts ==
  /\ Seen \subseteq Indicators /\ FeedSize \in Nat
  /\ \A i \in Seen :
       /\ i \in Nat /\ LastSeen(i) \in Nat
       /\ \E a \in SightingsOf(i) : analyses[a].at = LastSeen(i)
       /\ \A a \in SightingsOf(i) : analyses[a].at <= LastSeen(i)
       /\ IsFiniteSet(Above(i)) /\ Cardinality(Above(i)) \in Nat /\ Rank(i) = Cardinality(Above(i)) + 1

LEMMA FactsHold == StoreRowsOK /\ TimesKnown => FeedFacts
  <1> SUFFICES ASSUME StoreRowsOK, TimesKnown PROVE FeedFacts  OBVIOUS
  <1>1. ASSUME NEW i \in Seen
        PROVE  IsFiniteSet(Above(i)) /\ Cardinality(Above(i)) \in Nat /\ Rank(i) = Cardinality(Above(i)) + 1
    <2>1. Above(i) \subseteq Seen /\ IsFiniteSet(Seen)  BY SeenTypes DEF Above
    <2> QED  BY <2>1, FS_Subset, FS_CardinalityType DEF Rank, Above
  <1> QED  BY <1>1, SeenTypes, LastSeenIs DEF FeedFacts

LEMMA FactsHoldNext == (StoreRowsOK /\ TimesKnown => FeedFacts)'
  BY FactsHold, PTL

(* Without deletions indicators only move up, and one that does not can    *)
(* only be pushed down.                                                    *)
LEMMA FeedLater ==
  ASSUME FeedFacts, FeedFacts', \A a \in Analyses : Present(a) => analyses'[a].at = analyses[a].at
  PROVE  /\ \A i \in Seen : i \in Seen' /\ LastSeen(i) <= LastSeen(i)'
         /\ \A i \in Seen : LastSeen(i)' = LastSeen(i) => Rank(i) <= Rank(i)'
         /\ Seen' = Seen /\ (\A i \in Seen : LastSeen(i)' = LastSeen(i)) =>
              FeedSize' = FeedSize /\ \A i \in Seen : Rank(i)' = Rank(i)
  <1>1. ASSUME NEW i \in Seen PROVE i \in Seen' /\ LastSeen(i) <= LastSeen(i)'
    <2>1. PICK a \in SightingsOf(i) : analyses[a].at = LastSeen(i)  BY DEF FeedFacts
    <2>2. a \in SightingsOf(i)' /\ analyses'[a].at = LastSeen(i)
      BY <2>1 DEF SightingsOf, Present
    <2>3. i \in Seen'  BY <2>2 DEF Seen
    <2>4. analyses'[a].at <= LastSeen(i)'  BY <2>2, <2>3 DEF FeedFacts
    <2> QED  BY <2>2, <2>3, <2>4
  <1>2. ASSUME NEW i \in Seen, LastSeen(i)' = LastSeen(i) PROVE Rank(i) <= Rank(i)'
    <2>1. i \in Seen'  BY <1>1
    <2>2. ASSUME NEW k \in Above(i) PROVE k \in Above(i)'
      <3>1. k \in Seen /\ Before(k, i)  BY <2>2 DEF Above
      <3>2. k \in Seen' /\ LastSeen(k) <= LastSeen(k)'  BY <1>1, <3>1
      <3>3. /\ LastSeen(k) \in Nat /\ LastSeen(i) \in Nat /\ LastSeen(k)' \in Nat
        BY <3>1, <3>2 DEF FeedFacts
      <3>4. Before(k, i)'  BY <1>2, <3>1, <3>2, <3>3 DEF Before
      <3> QED  BY <3>2, <3>4 DEF Above
    <2>3. /\ IsFiniteSet(Above(i)') /\ Cardinality(Above(i)') \in Nat /\ Rank(i)' = Cardinality(Above(i)') + 1
          /\ Cardinality(Above(i)) \in Nat /\ Rank(i) = Cardinality(Above(i)) + 1
      BY <2>1 DEF FeedFacts
    <2>4. Above(i) \in SUBSET (Above(i)')  BY <2>2
    <2>5. Cardinality(Above(i)) <= Cardinality(Above(i)')  BY <2>3, <2>4, FS_Subset
    <2> QED  BY <2>3, <2>5
  <1>3. ASSUME Seen' = Seen, \A i \in Seen : LastSeen(i)' = LastSeen(i)
        PROVE  FeedSize' = FeedSize /\ \A i \in Seen : Rank(i)' = Rank(i)
    <2>1. FeedSize' = FeedSize  BY <1>3 DEF FeedSize
    <2>2. ASSUME NEW i \in Seen PROVE Rank(i)' = Rank(i)
      <3>1. \A k \in Seen : Before(k, i)' <=> Before(k, i)  BY <1>3 DEF Before
      <3>2. {k \in Seen' : Before(k, i)'} = {k \in Seen : Before(k, i)}
        <4> HIDE DEF Before, Seen
        <4> QED  BY <1>3, <3>1
      <3> QED  BY <3>2 DEF Rank
    <2> QED  BY <2>1, <2>2
  <1> QED  BY <1>1, <1>2, <1>3

-----------------------------------------------------------------------------
(* The clients of the feed.                                                *)
LEMMA FeedClientTypes ==
  ASSUME FeedTypeOK, NEW f \in FeedClients
  PROVE  /\ feed[f].pc \in {"idle", "cursor", "done"} /\ feed[f].offset \in Nat /\ feed[f].rows \in Nat
         /\ feed[f].got \subseteq Indicators /\ feed[f].start \subseteq Indicators \X Nat
         /\ feed[f].purges \in [Cases -> Nat]
  BY DEF FeedTypeOK

(* A client that does not move.                                            *)
LEMMA FeedClientKept ==
  ASSUME StoreRowsOK, StoreRowsOK', FeedFacts, FeedFacts', FeedGrows, \A c \in Cases : purges[c] <= purges'[c],
         FeedTypeOK, NEW f \in FeedClients, FeedOK(f), feed' = feed
  PROVE  FeedOK(f)'
  <1>1. \A c \in Cases : feed[f].purges[c] \in Nat /\ purges[c] \in Nat /\ purges'[c] \in Nat
    BY FeedClientTypes DEF StoreRowsOK
  <1>2. \A c \in Cases : feed[f].purges[c] <= purges'[c]
    BY <1>1 DEF FeedOK
  <1>3. ASSUME feed[f].pc # "idle", feed[f].purges = purges'
        PROVE  StartKept(f)' /\ NoneMissed(f)' /\ AllAbove(f)'
    <2>1. purges' = purges
      <3>1. \A c \in Cases : purges'[c] = purges[c]  BY <1>1, <1>3 DEF FeedOK
      <3> QED  BY <3>1 DEF StoreRowsOK
    <2>2. StartKept(f) /\ NoneMissed(f) /\ AllAbove(f)  BY <1>3, <2>1 DEF FeedOK
    <2>3. /\ \A i \in Seen : i \in Seen' /\ LastSeen(i) <= LastSeen(i)'
          /\ \A i \in Seen : LastSeen(i)' = LastSeen(i) => Rank(i) <= Rank(i)'
          /\ Seen' = Seen /\ (\A i \in Seen : LastSeen(i)' = LastSeen(i)) =>
               FeedSize' = FeedSize /\ \A i \in Seen : Rank(i)' = Rank(i)
      BY <2>1, FeedLater DEF FeedGrows
    <2>4. /\ Seen \subseteq Indicators /\ Seen' \subseteq Indicators
          /\ \A i \in Seen : LastSeen(i) \in Nat /\ Rank(i) \in Nat
          /\ \A i \in Seen' : LastSeen(i)' \in Nat /\ Rank(i)' \in Nat
      BY DEF FeedFacts
    <2>5. StartKept(f)'
      <3> SUFFICES ASSUME NEW i \in Indicators, NEW t \in Nat, <<i, t>> \in feed[f].start
                   PROVE  i \in Seen' /\ t <= LastSeen(i)'
        BY DEF StartKept
      <3>1. i \in Seen /\ t <= LastSeen(i)  BY <2>2 DEF StartKept
      <3>2. i \in Seen' /\ LastSeen(i) <= LastSeen(i)'  BY <2>3, <3>1
      <3> QED  BY <2>4, <3>1, <3>2
    <2>6. ASSUME NEW i \in Indicators, i \in Seen', <<i, LastSeen(i)'>> \in feed[f].start
          PROVE  i \in Seen /\ LastSeen(i)' = LastSeen(i)
      <3>1. LastSeen(i)' \in Nat  BY <2>4, <2>6
      <3>2. i \in Seen /\ LastSeen(i)' <= LastSeen(i)  BY <2>2, <2>6, <3>1 DEF StartKept
      <3>3. LastSeen(i) <= LastSeen(i)' /\ LastSeen(i) \in Nat  BY <2>3, <2>4, <3>2
      <3> QED  BY <3>1, <3>2, <3>3
    <2>7. NoneMissed(f)'
      <3> SUFFICES ASSUME NEW i \in Indicators, Unmoved(f, i)'
                   PROVE  i \in feed[f].got \/ (feed[f].pc = "cursor" /\ Rank(i)' > feed[f].offset)
        BY DEF NoneMissed
      <3>1. i \in Seen' /\ <<i, LastSeen(i)'>> \in feed[f].start  BY DEF Unmoved
      <3>2. i \in Seen /\ LastSeen(i)' = LastSeen(i)  BY <2>6, <3>1
      <3>3. i \in feed[f].got \/ (feed[f].pc = "cursor" /\ Rank(i) > feed[f].offset)
        BY <2>2, <3>1, <3>2 DEF NoneMissed, Unmoved
      <3>4. Rank(i) <= Rank(i)' /\ Rank(i) \in Nat /\ Rank(i)' \in Nat /\ feed[f].offset \in Nat
        BY <2>3, <2>4, <3>1, <3>2, FeedClientTypes
      <3> QED  BY <3>3, <3>4
    <2>8. AllAbove(f)'
      <3> SUFFICES ASSUME feed[f].start = Sighted' PROVE AllAbove(f)'  BY DEF AllAbove
      <3>1. \A i \in Seen' : i \in Indicators /\ <<i, LastSeen(i)'>> \in feed[f].start
        BY <2>4 DEF Sighted
      <3>2. Seen' = Seen /\ \A i \in Seen : LastSeen(i)' = LastSeen(i)  BY <2>3, <2>6, <3>1
      <3>3. FeedSize' = FeedSize /\ \A i \in Seen : Rank(i)' = Rank(i)  BY <2>3, <3>2
      <3>4. Sighted' = Sighted
        <4> HIDE DEF Seen, LastSeen
        <4> QED  BY <3>2 DEF Sighted
      <3>5. {i \in Seen' : Rank(i)' <= feed[f].offset} = {i \in Seen : Rank(i) <= feed[f].offset}
        <4> HIDE DEF Seen, Rank
        <4> QED  BY <3>2, <3>3
      <3> QED  BY <2>2, <3>2, <3>3, <3>4, <3>5 DEF AllAbove
    <2> QED  BY <2>5, <2>7, <2>8
  <1> QED  BY <1>2, <1>3 DEF FeedOK

(* A page is fetched.                                                      *)
LEMMA FetchKeeps ==
  ASSUME StoreRowsOK, TimesKnown, FeedTypeOK, NEW f \in FeedClients, \A g \in FeedClients : FeedOK(g), FetchPage(f)
  PROVE  FeedTypeOK' /\ \A g \in FeedClients : FeedOK(g)'
  <1> DEFINE client == feed[f]
             last   == PageEnd(client.offset)
             rows   == {RowAt(n) : n \in (client.offset + 1)..last}
             next   == NextCursor(client.offset, Cardinality(rows))
             rec    == [pc |-> next.pc, offset |-> next.offset,
                        got |-> client.got \cup rows, rows |-> client.rows + Cardinality(rows),
                        start |-> IF client.pc = "idle" THEN {<<i, LastSeen(i)>> : i \in Seen} ELSE client.start,
                        purges |-> IF client.pc = "idle" THEN purges ELSE client.purges]
  <1>1. client.pc \in {"idle", "cursor"} /\ feed' = [feed EXCEPT ![f] = rec] /\ UNCHANGED storeVars
    BY DEF FetchPage
  <1>2. /\ client.offset \in Nat /\ client.rows \in Nat /\ client.got \subseteq Indicators
        /\ client.start \subseteq Indicators \X Nat /\ client.purges \in [Cases -> Nat]
        /\ FeedLimit \in Nat \ {0}
    BY FeedClientTypes, FeedAssumption
  <1>3. /\ last \in Nat /\ last <= FeedSize
        /\ rows = {i \in Seen : Rank(i) > client.offset /\ Rank(i) <= last}
        /\ Cardinality(rows) = IF client.offset <= last THEN last - client.offset ELSE 0
    BY <1>2, PageIs
  <1>4. /\ Seen \subseteq Indicators /\ FeedSize \in Nat /\ \A i \in Seen : LastSeen(i) \in Nat
        /\ \A i \in Seen : Rank(i) \in Nat /\ Rank(i) >= 1 /\ Rank(i) <= FeedSize
    BY SeenTypes, RanksNumber
  <1>5. last = IF client.offset + FeedLimit <= FeedSize THEN client.offset + FeedLimit ELSE FeedSize
    BY DEF PageEnd
  <1>6. /\ next.offset = client.offset + Cardinality(rows)
        /\ next.pc = IF Cardinality(rows) = FeedLimit THEN "cursor" ELSE "done"
    BY DEF NextCursor
  <1> HIDE DEF last, rows, next
  <1>7. Cardinality(rows) \in Nat  BY <1>2, <1>3
  (* Either the page is full, or it is the last.                           *)
  <1>8. \/ next.pc = "cursor" /\ last = client.offset + FeedLimit /\ next.offset = last
        \/ next.pc = "done" /\ last = FeedSize
    BY <1>2, <1>3, <1>4, <1>5, <1>6, <1>7
  <1>9. /\ Seen' = Seen /\ FeedSize' = FeedSize /\ purges' = purges /\ Sighted' = Sighted
        /\ \A i : LastSeen(i)' = LastSeen(i) /\ Rank(i)' = Rank(i)
    BY <1>1 DEF storeVars, Seen, FeedSize, Sighted, LastSeen, Newest, Rank, Before, SightingsOf, Present
  <1>10. FeedTypeOK'
    <2>1. rows \subseteq Indicators  BY <1>3, <1>4
    <2>2. {<<i, LastSeen(i)>> : i \in Seen} \subseteq Indicators \X Nat  BY <1>4
    <2>3. purges \in [Cases -> Nat]  BY DEF StoreRowsOK
    <2>4. next.offset \in Nat /\ next.pc \in {"idle", "cursor", "done"}  BY <1>2, <1>6, <1>7
    <2>5. /\ client.got \cup rows \in SUBSET Indicators /\ client.rows + Cardinality(rows) \in Nat
          /\ (IF client.pc = "idle" THEN {<<i, LastSeen(i)>> : i \in Seen} ELSE client.start)
               \in SUBSET (Indicators \X Nat)
          /\ (IF client.pc = "idle" THEN purges ELSE client.purges) \in [Cases -> Nat]
      BY <1>2, <1>7, <2>1, <2>2, <2>3
    <2>6. rec \in [pc : {"idle", "cursor", "done"}, offset : Nat, got : SUBSET Indicators, rows : Nat,
                   start : SUBSET (Indicators \X Nat), purges : [Cases -> Nat]]
      BY <2>4, <2>5
    <2> HIDE DEF rec
    <2> QED  BY <1>1, <2>6 DEF FeedTypeOK
  <1>11. ASSUME NEW g \in FeedClients, g # f PROVE FeedOK(g)'
    <2>1. feed'[g] = feed[g]  BY <1>1, <1>11 DEF FeedTypeOK
    <2> QED  BY <1>9, <2>1 DEF FeedOK, StartKept, NoneMissed, Unmoved, AllAbove
  <1>12. FeedOK(f)'
    <2>1. feed'[f] = rec  BY <1>1 DEF FeedTypeOK
    <2>2. /\ rec.pc = next.pc /\ rec.offset = next.offset /\ rec.got = client.got \cup rows
          /\ rec.rows = client.rows + Cardinality(rows)
          /\ rec.start = IF client.pc = "idle" THEN Sighted ELSE client.start
          /\ rec.purges = IF client.pc = "idle" THEN purges ELSE client.purges
      BY DEF Sighted
    <2> HIDE DEF rec
    <2>3. FeedOK(f)  OBVIOUS
    <2>4. \A c \in Cases : rec.purges[c] <= purges[c]
      BY <2>2, <2>3 DEF FeedOK, StoreRowsOK
    <2>5. \A i \in Indicators, t, u \in Nat : <<i, t>> \in rec.start /\ <<i, u>> \in rec.start => t = u
      BY <2>2, <2>3 DEF FeedOK, Sighted
    <2>6. ASSUME rec.purges = purges
          PROVE  StartKept(f)' /\ NoneMissed(f)' /\ AllAbove(f)'
      <3>1. client.pc = "cursor" => StartKept(f) /\ NoneMissed(f) /\ AllAbove(f)
        BY <2>2, <2>3, <2>6 DEF FeedOK
      <3>2. client.pc = "idle" => client.offset = 0 /\ client.got = {} /\ client.rows = 0
        BY <2>3 DEF FeedOK
      <3>3. \A i \in Indicators, t \in Nat : <<i, t>> \in rec.start => i \in Seen /\ t <= LastSeen(i)
        <4>1. CASE client.pc = "idle"
          BY <1>4, <2>2, <4>1 DEF Sighted
        <4>2. CASE client.pc = "cursor"
          BY <2>2, <3>1, <4>2 DEF StartKept
        <4> QED  BY <1>1, <4>1, <4>2
      <3>4. StartKept(f)'
        BY <1>9, <2>1, <3>3 DEF StartKept
      <3>5. ASSUME NEW i \in Seen, <<i, LastSeen(i)>> \in rec.start
            PROVE  i \in rec.got \/ (rec.pc = "cursor" /\ Rank(i) > rec.offset)
        <4>1. i \in client.got \/ Rank(i) > client.offset
          <5>1. CASE client.pc = "idle"
            BY <1>4, <3>2, <5>1
          <5>2. CASE client.pc = "cursor"
            BY <1>4, <2>2, <3>1, <3>5, <5>2 DEF NoneMissed, Unmoved
          <5> QED  BY <1>1, <5>1, <5>2
        <4>2. i \in client.got \/ i \in rows \/ Rank(i) > last
          BY <1>2, <1>3, <1>4, <4>1
        <4>3. CASE Rank(i) > last
          <5>1. last # FeedSize  BY <1>3, <1>4, <4>3
          <5> QED  BY <1>8, <2>2, <4>3, <5>1
        <4> QED  BY <2>2, <4>2, <4>3
      <3>6. NoneMissed(f)'
        BY <1>9, <2>1, <3>5 DEF NoneMissed, Unmoved
      <3>7. ASSUME rec.start = Sighted
            PROVE  IF rec.pc = "cursor"
                   THEN /\ rec.got = {i \in Seen : Rank(i) <= rec.offset}
                        /\ rec.rows = rec.offset /\ rec.offset <= FeedSize
                   ELSE rec.got = Seen /\ rec.rows = FeedSize
        <4>1. /\ client.got = {i \in Seen : Rank(i) <= client.offset}
              /\ client.rows = client.offset /\ client.offset <= FeedSize
          <5>1. CASE client.pc = "idle"
            <6>1. {i \in Seen : Rank(i) <= 0} = {}  BY <1>4
            <6> QED  BY <1>4, <3>2, <5>1, <6>1
          <5>2. CASE client.pc = "cursor"
            BY <2>2, <3>1, <3>7, <5>2 DEF AllAbove
          <5> QED  BY <1>1, <5>1, <5>2
        <4>2. client.offset <= last
          BY <1>2, <1>4, <1>5, <4>1
        <4>3. rec.got = {i \in Seen : Rank(i) <= last} /\ rec.rows = last
          <5>1. rec.rows = last  BY <1>2, <1>3, <2>2, <4>1, <4>2
          <5>2. \A i \in Seen : Rank(i) <= client.offset \/ (Rank(i) > client.offset /\ Rank(i) <= last)
                                 <=> Rank(i) <= last
            BY <1>2, <1>3, <1>4, <4>2
          <5>3. rec.got = {i \in Seen : Rank(i) <= client.offset}
                            \cup {i \in Seen : Rank(i) > client.offset /\ Rank(i) <= last}
            BY <1>3, <2>2, <4>1
          <5> QED  BY <5>1, <5>2, <5>3
        <4>4. CASE next.pc = "cursor"
          BY <1>3, <1>8, <2>2, <4>3, <4>4
        <4>5. CASE next.pc = "done"
          <5>1. last = FeedSize  BY <1>8, <4>5
          <5>2. {i \in Seen : Rank(i) <= FeedSize} = Seen  BY <1>4
          <5> QED  BY <2>2, <4>3, <4>5, <5>1, <5>2
        <4> QED  BY <1>8, <4>4, <4>5
      <3>8. AllAbove(f)'
        BY <1>9, <2>1, <3>7 DEF AllAbove
      <3> QED  BY <3>4, <3>6, <3>8
    <2>7. rec.pc # "idle"  BY <1>8, <2>2
    <2> QED  BY <1>9, <2>1, <2>4, <2>5, <2>6, <2>7 DEF FeedOK
  <1> QED  BY <1>10, <1>11, <1>12

LEMMA FeedStart == Init => FeedInv
  <1> SUFFICES ASSUME Init PROVE FeedInv  OBVIOUS
  <1>1. TimesKnown
    BY StoreAssumption DEF Init, StoreInit, TimesKnown, Present, Fresh, NoAnalysis
  <1>2. feed = [f \in FeedClients |-> NewClient] /\ purges \in [Cases -> Nat]
    BY DEF Init, FeedInit, StoreInit
  <1>3. FeedTypeOK
    BY <1>2 DEF FeedTypeOK, NewClient
  <1>4. \A f \in FeedClients : FeedOK(f)
    BY <1>2 DEF FeedOK, NewClient
  <1> QED  BY <1>1, <1>3, <1>4 DEF FeedInv

LEMMA PagerLeavesFeed ==
  ASSUME NEW p \in Pagers, PagerStep(p)
  PROVE  UNCHANGED <<clock, analyses, ingest, regen, purges>>
  BY DEF PagerStep, AskPage, ReadManifest, LoadLegacy, CaptureLegacy, CountRows, ReadRows, TimeBudgetExceeded, storeVars

LEMMA FeedNext == PagingInv /\ PagingInv' /\ FeedInv /\ [Next]_vars => FeedInv'
  <1> SUFFICES ASSUME PagingInv, PagingInv', FeedInv, [Next]_vars PROVE FeedInv'  OBVIOUS
  <1>0. StoreRowsOK /\ StoreRowsOK' /\ TimesKnown /\ FeedTypeOK /\ (\A f \in FeedClients : FeedOK(f)) /\ FeedFacts
    BY FactsHold DEF PagingInv, FeedInv
  <1>1. ASSUME feed' = feed, TimesKnown', FeedGrows, \A c \in Cases : purges[c] <= purges'[c]
        PROVE  FeedInv'
    <2>1. FeedFacts'  BY <1>0, <1>1, FactsHoldNext
    <2>2. \A f \in FeedClients : FeedOK(f)'  BY <1>0, <1>1, <2>1, FeedClientKept
    <2>3. FeedTypeOK'  BY <1>0, <1>1 DEF FeedTypeOK
    <2> QED  BY <1>1, <2>2, <2>3 DEF FeedInv
  <1>2. ASSUME feed' = feed, UNCHANGED <<clock, analyses, ingest, regen, purges>>
        PROVE  FeedInv'
    <2>1. TimesKnown' /\ FeedGrows  BY <1>0, <1>2 DEF TimesKnown, FeedGrows, Present
    <2>2. \A c \in Cases : purges[c] <= purges'[c]  BY <1>0, <1>2 DEF StoreRowsOK
    <2> QED  BY <1>1, <1>2, <2>1, <2>2
  <1>3. CASE StoreNext /\ UNCHANGED <<pager, feed, cacheVars>>
    <2>1. TimesKnown' /\ FeedGrows  BY <1>0, <1>3, FeedStore, StoreAssumption
    <2>2. \A c \in Cases : purges[c] <= purges'[c]  BY <1>0, <1>3, StoreStep, StoreAssumption DEF SnapshotsKept
    <2> QED  BY <1>1, <1>3, <2>1, <2>2
  <1>4. CASE (\E p \in Pagers : PagerStep(p)) /\ UNCHANGED <<feed, cacheVars>>
    BY <1>2, <1>4, PagerLeavesFeed
  <1>5. ASSUME NEW f \in FeedClients, FetchPage(f) PROVE FeedInv'
    <2>1. FeedTypeOK' /\ \A g \in FeedClients : FeedOK(g)'  BY <1>0, <1>5, FetchKeeps
    <2>2. TimesKnown'  BY <1>0, <1>5 DEF FetchPage, storeVars, TimesKnown, Present
    <2> QED  BY <2>1, <2>2 DEF FeedInv
  <1>6. CASE CacheNext /\ UNCHANGED <<pager, feed>>
    BY <1>2, <1>6, CacheLeavesStore DEF storeVars
  <1>7. CASE UNCHANGED vars
    BY <1>2, <1>7 DEF vars, storeVars
  <1> QED  BY <1>3, <1>4, <1>5, <1>6, <1>7 DEF Next

THEOREM FeedInvariant == Spec => []FeedInv
  BY PagingInvariant, FeedStart, FeedNext, PTL DEF Spec

(* A client that reads the feed to its end misses only what was sighted    *)
(* again, and will come again, unless something was deleted; a feed that   *)
(* did not move comes whole and each row once (feed.py:46-90).             *)
THEOREM FeedIsHonest == Spec => []FeedHonest
  <1>1. FeedInv => FeedMissesOnlyResighted
    BY DEF FeedInv, FeedOK, NoneMissed, FeedMissesOnlyResighted, Finished
  <1>2. FeedInv => QuietFeedExact
    BY DEF FeedInv, FeedOK, AllAbove, QuietFeedExact, Finished, Sighted
  <1> QED  BY <1>1, <1>2, FeedInvariant, PTL DEF FeedHonest

-----------------------------------------------------------------------------
(* The records and the Cases page.                                         *)

LEMMA RecordFacts ==
  BookRowsOK => /\ Len(records) \in Nat /\ 1 \in 1..Len(records) /\ DOMAIN records = 1..Len(records)
                /\ \A c \in 1..Len(records) : records[c] \in RecordRow
                /\ Live \subseteq 1..Len(records)
                /\ \A c \in 1..Len(records) : c \in Live <=> records[c].live
<1> SUFFICES ASSUME BookRowsOK
             PROVE  /\ Len(records) \in Nat /\ 1 \in 1..Len(records) /\ DOMAIN records = 1..Len(records)
                    /\ \A c \in 1..Len(records) : records[c] \in RecordRow
                    /\ Live \subseteq 1..Len(records)
                    /\ \A c \in 1..Len(records) : c \in Live <=> records[c].live
  OBVIOUS
<1>1. records \in Seq(RecordRow) /\ records # <<>>
  BY DEF BookRowsOK
<1>2. Len(records) \in Nat /\ DOMAIN records = 1..Len(records) /\ Len(records) # 0
  BY <1>1, LenProperties, EmptySeq
<1>3. \A c \in 1..Len(records) : records[c] \in RecordRow
  BY <1>1, ElementOfSeq
<1>4. 1 \in 1..Len(records)
  BY <1>2
<1> QED BY <1>2, <1>3, <1>4 DEF Live

(* What a writer `a` does to the others: those that read a case written    *)
(* are touched, and a case does not come back.                             *)
SameFor(c) ==
  c \in Live /\ records'[c].title = records[c].title /\ records'[c].status = records[c].status
  /\ TagsOf(c)' = TagsOf(c)

Disturbs(a) ==
  /\ touched' \subseteq Actors
  /\ \A s \in Sessions \ {a} :
       s \notin touched' =>
         s \notin touched /\ \A c \in 1..Len(records) : Working(s, c) /\ c \in Live' => SameFor(c)

Stores(a) ==
  BookRowsOK' /\ DraftOnFile' /\ Len(records) <= Len(records') /\ Disturbs(a)

LEMMA QuietStores ==
  ASSUME BookRowsOK, DraftOnFile, touched \subseteq Actors, NEW a, UNCHANGED bookRows,
         touched' = touched \/ touched' = touched \ {a}
  PROVE  Stores(a)
<1>1. UNCHANGED <<records, labels, vocabulary, notes, serial, retried>>
  BY DEF bookRows
<1>2. BookRowsOK' /\ DraftOnFile'
  BY <1>1 DEF BookRowsOK, DraftOnFile
<1>3. \A c : TagsOf(c)' = TagsOf(c)
  BY <1>1 DEF TagsOf
<1>4. Live' = Live
  BY <1>1 DEF Live
<1> QED BY <1>1, <1>2, <1>3, <1>4, RecordFacts DEF Stores, Disturbs, SameFor

(* A note is added or removed.                                             *)
LEMMA AddNoteStores ==
  ASSUME BookRowsOK, DraftOnFile, touched \subseteq Actors, NEW a, NEW c \in 1..Len(records),
         NEW by \in {"analyst", "client", "agent"}, AddNote(c, by), UNCHANGED <<records, labels, vocabulary, touched>>,
         retried' \in BOOLEAN, IF by = "agent" THEN c = 1 /\ ~retried /\ retried' ELSE retried' = retried
  PROVE  Stores(a)
<1> DEFINE note == [id |-> serial + 1, case |-> c, by |-> by, made |-> serial + 1]
<1>1. notes' = notes \cup {note} /\ serial' = serial + 1 /\ serial \in Nat /\ Len(records) \in Nat
  BY RecordFacts DEF AddNote, NoteId, BookRowsOK
<1>2. NoteOK(note) /\ note.case = c /\ note.made = serial' /\ note.by = by
  BY <1>1 DEF NoteOK, NoteRow
<1> HIDE DEF note
<1>3. BookRowsOK'
  <2>1. \A n \in notes' : NoteOK(n) /\ n.case \in 1..Len(records) /\ n.made <= serial'
    <3> SUFFICES ASSUME NEW n \in notes'  PROVE NoteOK(n) /\ n.case \in 1..Len(records) /\ n.made <= serial'
      OBVIOUS
    <3>1. CASE n = note
      BY <1>1, <1>2, <3>1
    <3>2. CASE n \in notes
      <4>1. NoteOK(n) /\ n.case \in 1..Len(records) /\ n.made <= serial /\ n.made \in Nat
        BY <3>2 DEF BookRowsOK, NoteOK, NoteRow
      <4> QED BY <1>1, <4>1
    <3> QED BY <1>1, <3>1, <3>2
  <2> QED BY <1>1, <2>1 DEF BookRowsOK
<1>4. DraftOnFile'
  BY <1>1, <1>2 DEF DraftOnFile
<1>5. Live' = Live /\ \A d : TagsOf(d)' = TagsOf(d)
  BY DEF Live, TagsOf
<1> QED BY <1>1, <1>3, <1>4, <1>5 DEF Stores, Disturbs, SameFor

LEMMA DropNotesStores ==
  ASSUME BookRowsOK, DraftOnFile, touched \subseteq Actors, NEW a, notes' \subseteq notes,
         UNCHANGED <<records, labels, vocabulary, serial, retried, touched>>
  PROVE  Stores(a)
<1>1. BookRowsOK' /\ DraftOnFile'
  BY DEF BookRowsOK, DraftOnFile
<1>2. Live' = Live /\ \A d : TagsOf(d)' = TagsOf(d)
  BY DEF Live, TagsOf
<1> QED BY <1>1, <1>2, RecordFacts DEF Stores, Disturbs, SameFor

(* update_case() of an object with a title.                                *)
LEMMA UpdateStores ==
  ASSUME BookRowsOK, DraftOnFile, touched \subseteq Actors, NEW a \in Actors, NEW c \in 1..Len(records),
         NEW copy \in CaseCopy, copy.title \in Titles, UpdateCase(a, c, copy)
  PROVE  /\ Stores(a)
         /\ Len(records') = Len(records) /\ Live' = Live
         /\ c \in Live => KnowsRow(copy, records'[c]) /\ TagsOf(c)' = copy.tags
<1> DEFINE row == IF ~records[c].live THEN records[c]
                  ELSE [records[c] EXCEPT !.title = copy.title, !.status = copy.status, !.closed = copy.closed]
<1>0. /\ Len(records) \in Nat /\ records[c] \in RecordRow /\ records \in Seq(RecordRow)
      /\ DOMAIN records = 1..Len(records)
  BY RecordFacts DEF BookRowsOK
<1>1. /\ records' = [records EXCEPT ![c] = row]
      /\ labels' = Retagged(c, copy.tags) /\ vocabulary' = vocabulary \cup copy.tags
      /\ Touch(a, {c}) /\ UNCHANGED <<notes, serial, retried>>
  BY DEF UpdateCase
<1>2. /\ row \in RecordRow /\ row.live = records[c].live
      /\ records[c].live => KnowsRow(copy, row)
  BY <1>0 DEF RecordRow, CaseCopy, KnowsRow
<1> HIDE DEF row
<1>3. /\ records' \in Seq(RecordRow) /\ Len(records') = Len(records)
      /\ \A d \in 1..Len(records) : records'[d] = IF d = c THEN row ELSE records[d]
  BY <1>0, <1>1, <1>2, ExceptSeq
<1>4. records' # <<>>
  BY <1>0, <1>3, EmptySeq, RecordFacts
<1>5. copy.tags \in SUBSET Tags
  BY DEF CaseCopy
<1>6. labels' \subseteq (1..Len(records')) \X Tags /\ vocabulary' \subseteq Tags
  BY <1>1, <1>3, <1>5 DEF Retagged, BookRowsOK
<1>7. BookRowsOK' /\ DraftOnFile'
  BY <1>1, <1>3, <1>4, <1>6 DEF BookRowsOK, DraftOnFile
<1>8. DOMAIN records' = DOMAIN records
  BY <1>0, <1>3, LenProperties
<1>9. Live' = Live
  BY <1>0, <1>2, <1>3, <1>8 DEF Live
<1>10. TagsOf(c)' = copy.tags /\ \A d \in 1..Len(records) : d # c => TagsOf(d)' = TagsOf(d)
  BY <1>1, <1>5 DEF TagsOf, Retagged
<1>11. \A d \in 1..Len(records) : d # c /\ d \in Live => SameFor(d)
  BY <1>3, <1>10 DEF SameFor
<1>12. Disturbs(a)
  <2>1. touched' = (touched \ {a}) \cup {b \in Actors \ {a} : Working(b, c)}
    BY <1>1 DEF Touch
  <2>2. touched' \subseteq Actors
    BY <2>1
  <2>3. ASSUME NEW s \in Sessions \ {a}, s \notin touched'
        PROVE  s \notin touched /\ ~Working(s, c)
    BY <2>1, <2>3 DEF Actors
  <2> QED BY <1>9, <1>11, <2>2, <2>3 DEF Disturbs
<1>13. c \in Live => KnowsRow(copy, records'[c])
  BY <1>2, <1>3, RecordFacts
<1> QED BY <1>0, <1>3, <1>7, <1>9, <1>10, <1>12, <1>13 DEF Stores

LEMMA CreateStores ==
  ASSUME BookRowsOK, DraftOnFile, touched \subseteq Actors, NEW a,
         NEW copy \in CaseCopy, copy.title \in Titles, CreateCase(copy)
  PROVE  /\ Stores(a)
         /\ \A c \in Live : c \in Live' /\ records'[c] = records[c] /\ TagsOf(c)' = TagsOf(c)
<1> DEFINE row == [live |-> TRUE, title |-> copy.title, status |-> copy.status, closed |-> FALSE]
           new == Len(records) + 1
<1>0. /\ Len(records) \in Nat /\ records \in Seq(RecordRow) /\ DOMAIN records = 1..Len(records)
  BY RecordFacts DEF BookRowsOK
<1>1. /\ records' = Append(records, row) /\ labels' = labels \cup {<<new, t>> : t \in copy.tags}
      /\ vocabulary' = vocabulary \cup copy.tags /\ UNCHANGED <<notes, serial, retried, touched>>
  BY DEF CreateCase
<1>2. row \in RecordRow
  BY DEF RecordRow, CaseCopy
<1> HIDE DEF row
<1>3. /\ records' \in Seq(RecordRow) /\ Len(records') = Len(records) + 1
      /\ \A d \in 1..Len(records) : records'[d] = records[d]
  BY <1>0, <1>1, <1>2, AppendProperties
<1>4. records' # <<>> /\ Len(records') \in Nat
  BY <1>0, <1>3, EmptySeq
<1>5. copy.tags \in SUBSET Tags
  BY DEF CaseCopy
<1>6. labels' \subseteq (1..Len(records')) \X Tags /\ vocabulary' \subseteq Tags
  <2>1. 1..Len(records) \subseteq 1..Len(records') /\ new \in 1..Len(records')
    BY <1>0, <1>3
  <2> HIDE DEF new
  <2> QED BY <1>1, <1>5, <2>1 DEF BookRowsOK
<1>7. \A n \in notes : n.case \in 1..Len(records')
  BY <1>0, <1>3 DEF BookRowsOK
<1>8. BookRowsOK' /\ DraftOnFile'
  BY <1>1, <1>3, <1>4, <1>6, <1>7 DEF BookRowsOK, DraftOnFile
<1>9. \A d \in 1..Len(records) : TagsOf(d)' = TagsOf(d)
  <2>1. \A d \in 1..Len(records) : d # new
    BY <1>0
  <2> HIDE DEF new
  <2> QED BY <1>1, <2>1 DEF TagsOf
<1>10. \A d \in 1..Len(records) : d \in Live' => d \in Live
  BY <1>0, <1>3 DEF Live
<1>11. \A d \in Live : d \in Live' /\ d \in 1..Len(records)
  <2>1. DOMAIN records' = 1..(Len(records) + 1)
    BY <1>3, LenProperties
  <2> QED BY <1>0, <1>3, <2>1 DEF Live
<1> QED BY <1>0, <1>1, <1>3, <1>4, <1>8, <1>9, <1>10, <1>11 DEF Stores, Disturbs, SameFor

(* The deletion of a case takes its notes, its tags and the key of its     *)
(* draft.                                                                  *)
LEMMA EraseStores ==
  ASSUME BookRowsOK, DraftOnFile, touched \subseteq Actors, NEW a \in Actors, NEW c \in 1..Len(records), EraseCase(a, c)
  PROVE  Stores(a) /\ Len(records') = Len(records) /\ Live' = Live \ {c}
<1> DEFINE row == [records[c] EXCEPT !.live = FALSE]
<1>0. /\ Len(records) \in Nat /\ records[c] \in RecordRow /\ records \in Seq(RecordRow)
      /\ DOMAIN records = 1..Len(records)
  BY RecordFacts DEF BookRowsOK
<1>1. /\ records' = [records EXCEPT ![c] = row]
      /\ labels' = Retagged(c, {}) /\ notes' = notes \ NotesOf(c) /\ retried' = (retried /\ c # 1)
      /\ Touch(a, {c}) /\ UNCHANGED <<vocabulary, serial>>
  BY DEF EraseCase
<1>2. row \in RecordRow /\ row.live = FALSE
  BY <1>0 DEF RecordRow
<1> HIDE DEF row
<1>3. /\ records' \in Seq(RecordRow) /\ Len(records') = Len(records)
      /\ \A d \in 1..Len(records) : records'[d] = IF d = c THEN row ELSE records[d]
  BY <1>0, <1>1, <1>2, ExceptSeq
<1>4. records' # <<>> /\ DOMAIN records' = 1..Len(records)
  BY <1>0, <1>3, EmptySeq, RecordFacts, LenProperties
<1>5. labels' \subseteq labels /\ \A d \in 1..Len(records) : d # c => TagsOf(d)' = TagsOf(d)
  BY <1>1 DEF Retagged, TagsOf
<1>6. BookRowsOK'
  <2>1. notes' \subseteq notes
    BY <1>1
  <2> QED BY <1>1, <1>3, <1>4, <1>5, <2>1 DEF BookRowsOK
<1>7. DraftOnFile'
  BY <1>1 DEF DraftOnFile, NotesOf
<1>8. Live' = Live \ {c}
  BY <1>0, <1>2, <1>3, <1>4 DEF Live
<1>9. \A d \in 1..Len(records) : d # c /\ d \in Live => SameFor(d)
  BY <1>3, <1>5 DEF SameFor
<1>10. Disturbs(a)
  <2>1. touched' = (touched \ {a}) \cup {b \in Actors \ {a} : Working(b, c)}
    BY <1>1 DEF Touch
  <2>2. touched' \subseteq Actors
    BY <2>1
  <2>3. ASSUME NEW s \in Sessions \ {a}, s \notin touched'
        PROVE  s \notin touched /\ ~Working(s, c)
    BY <2>1, <2>3 DEF Actors
  <2> QED BY <1>8, <1>9, <2>2, <2>3 DEF Disturbs
<1> QED BY <1>0, <1>3, <1>6, <1>7, <1>8, <1>10 DEF Stores

LEMMA ClearStores ==
  ASSUME BookRowsOK, DraftOnFile, touched \subseteq Actors, NEW a, ClearAll
  PROVE  Stores(a) /\ Len(records') = Len(records)
<1>0. /\ Len(records) \in Nat /\ records \in Seq(RecordRow) /\ DOMAIN records = 1..Len(records)
      /\ \A c \in 1..Len(records) : records[c] \in RecordRow
      /\ 1 \in 1..Len(records)
  BY RecordFacts DEF BookRowsOK
<1>1. /\ records' = [c \in 1..Len(records) |-> [records[c] EXCEPT !.live = FALSE]]
      /\ labels' = {} /\ vocabulary' = {} /\ notes' = {} /\ retried' = FALSE /\ serial' = serial
      /\ touched' = touched \cup {b \in Actors : \E c \in Live : Working(b, c)}
  BY <1>0 DEF ClearAll
<1>2. \A c \in 1..Len(records) : [records[c] EXCEPT !.live = FALSE] \in RecordRow
  BY <1>0 DEF RecordRow
<1> DEFINE n == Len(records)
<1>3. n \in Nat /\ records' \in [1..n -> RecordRow]
  BY <1>0, <1>1, <1>2
<1>4. \A c \in 1..n : ~records'[c].live
  BY <1>0, <1>1 DEF RecordRow
<1> HIDE DEF n
<1>5. records' \in Seq(RecordRow)
  BY <1>3, SeqDef
<1>6. Len(records') = n /\ DOMAIN records' = 1..n
  BY <1>3, <1>5, LenProperties
<1>7. records' # <<>> /\ n # 0
  <2>1. n # 0
    BY <1>0 DEF n
  <2> QED BY <1>5, <1>6, <2>1, EmptySeq
<1>8. BookRowsOK' /\ DraftOnFile'
  BY <1>1, <1>5, <1>7 DEF BookRowsOK, DraftOnFile
<1>9. Live' = {}
  BY <1>4, <1>6 DEF Live
<1> QED BY <1>0, <1>1, <1>6, <1>8, <1>9 DEF Stores, Disturbs, n

LEMMA SweepStores ==
  ASSUME BookRowsOK, DraftOnFile, touched \subseteq Actors, NEW a, SweepOrphans
  PROVE  Stores(a) /\ Len(records') = Len(records)
<1>1. /\ notes' \subseteq notes /\ labels' = labels \ OrphanLabels
      /\ UNCHANGED <<records, vocabulary, serial, retried, touched>>
  BY DEF SweepOrphans
<1>2. BookRowsOK' /\ DraftOnFile'
  BY <1>1 DEF BookRowsOK, DraftOnFile
<1>3. Live' = Live /\ \A c \in Live : TagsOf(c)' = TagsOf(c)
  BY <1>1 DEF Live, TagsOf, OrphanLabels
<1> QED BY <1>1, <1>2, <1>3, RecordFacts DEF Stores, Disturbs, SameFor

-----------------------------------------------------------------------------
(* The pages.                                                              *)

LEMMA PageGrows ==
  ASSUME NEW p, NEW C \in Nat, NEW D \in Nat, C <= D, PageOK(p, C)
  PROVE  PageOK(p, D)
<1>1. 1..C \subseteq 1..D
  OBVIOUS
<1> QED BY <1>1 DEF PageOK

(* What a page writes has its types.                                       *)
LEMMA FormTypes ==
  ASSUME NEW p, NEW C, PageOK(p, C)
  PROVE  /\ Form(p) \in CaseCopy /\ Chosen(p) \in SUBSET Tags
         /\ Form(p).title = Held(p.typed.title, p.copy.title)
         /\ Form(p).status = Held(p.typed.status, p.copy.status)
         /\ "title" \notin p.edited => Form(p).title = p.copy.title
         /\ "status" \notin p.edited => Form(p).status = p.copy.status
         /\ "tags" \notin p.edited => Form(p).tags = p.copy.tags
<1> DEFINE title == Held(p.typed.title, p.copy.title)
           status == Held(p.typed.status, p.copy.status)
           tags == Chosen(p) \cup (IF p.typed.new = NoEdit THEN {} ELSE {p.typed.new})
<1>1. p \in PageState
  BY DEF PageOK
<1>2. p.copy \in CaseCopy /\ p.typed \in TypedForm
  BY <1>1 DEF PageState
<1>3. title \in Titles \cup {Blank} /\ status \in Statuses /\ p.copy.closed \in BOOLEAN
  BY <1>2 DEF Held, CaseCopy, TypedForm
<1>4. Chosen(p) \in SUBSET Tags
  BY <1>2 DEF Chosen, Held, CaseCopy, TypedForm
<1>5. tags \in SUBSET Tags
  BY <1>2, <1>4 DEF TypedForm
<1>6. /\ "title" \notin p.edited => title = p.copy.title
      /\ "status" \notin p.edited => status = p.copy.status
      /\ "tags" \notin p.edited => tags = p.copy.tags
  BY DEF PageOK, Held, Chosen
<1>7. Form(p) = [title |-> title, status |-> status, closed |-> p.copy.closed, tags |-> tags]
  BY DEF Form
<1> HIDE DEF title, status, tags
<1>8. /\ Form(p) \in CaseCopy /\ Form(p).title = title /\ Form(p).status = status /\ Form(p).tags = tags
  BY <1>3, <1>5, <1>7 DEF CaseCopy
<1> QED BY <1>4, <1>6, <1>8 DEF title, status

(* A click or an edit begins a pass.                                       *)
LEMMA PressPage ==
  ASSUME NEW C \in Nat, NEW s \in Sessions, PagesOK, C = Len(records), Press(s)
  PROVE  \E p : Begin(s, p) /\ PageOK(p, C)
<1> DEFINE p == page[s]
<1>0. p \in PageState /\ PageOK(p, C) /\ p.note \in NoteRow
  BY DEF PagesOK, PageState
<1>1. ASSUME NEW b \in Buttons(p), Begin(s, [p EXCEPT !.click = b])
      PROVE  PageOK([p EXCEPT !.click = b], C)
  <2>1. /\ b \in {"new", "save", "cancel", "edit", "delete", "note", "back", "reopen", "close"}
        /\ b \in {"close", "reopen"} => p.view = "detail"
    BY <1>0, <1>1 DEF Buttons, PageState
  <2>2. p.view = "detail" => OfCase(p)
    BY DEF OfCase
  <2> HIDE DEF p
  <2> QED BY <1>0, <2>1, <2>2 DEF PageOK, PageState, OfCase
<1>2. ASSUME NEW n \in p.seen, p.view = "detail"
      PROVE  PageOK([p EXCEPT !.click = "delnote", !.note = n], C)
  <2>1. NoteOK(n) /\ n \in NoteRow
    BY <1>0 DEF PageOK, NoteOK
  <2> DEFINE q == [p EXCEPT !.click = "delnote", !.note = n]
  <2> HIDE DEF p
  <2>2. /\ q \in PageState /\ q.click = "delnote" /\ q.note = n /\ q.view = p.view /\ q.case = p.case /\ q.pc = p.pc
        /\ q.fresh = p.fresh /\ q.copy = p.copy /\ q.typed = p.typed /\ q.seen = p.seen /\ q.listed = p.listed
        /\ q.confirm = p.confirm /\ q.warned = p.warned /\ q.edited = p.edited
    BY <1>0, <2>1 DEF PageState
  <2> HIDE DEF q
  <2>3. PageOK(q, C)
    BY <1>0, <2>1, <2>2 DEF PageOK, OfCase
  <2> QED BY <2>3 DEF q
<1>3. ASSUME NEW c \in p.listed, p.view = "list", p.pc = "shown"
      PROVE  PageOK([p EXCEPT !.view = "detail", !.case = c], C)
  <2>1. c \in 1..C /\ c \in Nat
    BY <1>0 DEF PageOK
  <2> DEFINE q == [p EXCEPT !.view = "detail", !.case = c]
  <2> HIDE DEF p
  <2>2. /\ q \in PageState /\ q.view = "detail" /\ q.case = c /\ q.pc = "shown" /\ q.click = p.click /\ q.note = p.note
        /\ q.fresh = p.fresh /\ q.copy = p.copy /\ q.typed = p.typed /\ q.seen = p.seen /\ q.listed = p.listed
        /\ q.confirm = p.confirm /\ q.warned = p.warned /\ q.edited = p.edited
    BY <1>0, <1>3, <2>1 DEF PageState
  <2> HIDE DEF q
  <2>3. PageOK(q, C)
    BY <1>0, <1>3, <2>1, <2>2 DEF PageOK, OfCase
  <2> QED BY <2>3 DEF q
<1>4. CASE \E b \in Buttons(p) : Begin(s, [p EXCEPT !.click = b])
  BY <1>1, <1>4
<1>5. CASE \E n \in p.seen : p.view = "detail" /\ Begin(s, [p EXCEPT !.click = "delnote", !.note = n])
  BY <1>2, <1>5
<1>6. CASE \E c \in p.listed : p.view = "list" /\ Begin(s, [p EXCEPT !.view = "detail", !.case = c])
  <2>1. p.pc = "shown"
    BY <1>6 DEF Begin
  <2> QED BY <1>3, <1>6, <2>1
<1> QED BY <1>4, <1>5, <1>6 DEF Press

LEMMA EditedPage ==
  ASSUME NEW p, NEW C, PageOK(p, C), NEW w \in TypedForm, NEW e \in SUBSET {"title", "status", "tags"},
         "title" \notin e => w.title = NoEdit, "status" \notin e => w.status = NoEdit,
         "tags" \notin e => w.tags = NoEdit /\ w.new = NoEdit
  PROVE  PageOK([p EXCEPT !.typed = w, !.edited = e], C)
<1> DEFINE q == [p EXCEPT !.typed = w, !.edited = e]
<1>1. p \in PageState
  BY DEF PageOK
<1>2. /\ q \in PageState /\ q.typed = w /\ q.edited = e /\ q.view = p.view /\ q.case = p.case /\ q.pc = p.pc
      /\ q.fresh = p.fresh /\ q.copy = p.copy /\ q.seen = p.seen /\ q.listed = p.listed /\ q.click = p.click
      /\ q.confirm = p.confirm /\ q.warned = p.warned /\ q.note = p.note
  BY <1>1 DEF PageState
<1> HIDE DEF q
<1>3. PageOK(q, C)
  BY <1>2 DEF PageOK, OfCase
<1> QED BY <1>3 DEF q

LEMMA TypePage ==
  ASSUME NEW C \in Nat, NEW s \in Sessions, PagesOK, C = Len(records), Type(s)
  PROVE  \E p : Begin(s, p) /\ PageOK(p, C)
<1> DEFINE p == page[s]
<1>0. p \in PageState /\ PageOK(p, C) /\ p.typed \in TypedForm /\ p.edited \in SUBSET {"title", "status", "tags"}
      /\ p.offered \in SUBSET Tags
  BY DEF PagesOK, PageState
<1>1. ASSUME NEW t \in Titles \cup {Blank}
      PROVE  PageOK([p EXCEPT !.typed.title = t, !.edited = @ \cup {"title"}], C)
  <2> DEFINE w == [p.typed EXCEPT !.title = t]
             e == p.edited \cup {"title"}
             q == [p EXCEPT !.typed = w, !.edited = e]
  <2>1. w \in TypedForm /\ w.status = p.typed.status /\ w.tags = p.typed.tags /\ w.new = p.typed.new
    BY <1>0 DEF TypedForm
  <2>2. e \in SUBSET {"title", "status", "tags"} /\ "title" \in e /\ \A f \in p.edited : f \in e
    BY <1>0
  <2>3. [p EXCEPT !.typed.title = t, !.edited = @ \cup {"title"}] = q
    BY <1>0 DEF PageState
  <2> HIDE DEF p, w, e
  <2>4. PageOK(q, C)
    <3>1. /\ "title" \notin e => w.title = NoEdit
          /\ "status" \notin e => w.status = NoEdit
          /\ "tags" \notin e => w.tags = NoEdit /\ w.new = NoEdit
      BY <1>0, <2>1, <2>2 DEF PageOK
    <3> QED BY <1>0, <2>1, <2>2, <3>1, EditedPage
  <2> QED BY <2>3, <2>4
<1>2. ASSUME NEW st \in Statuses
      PROVE  PageOK([p EXCEPT !.typed.status = st, !.edited = @ \cup {"status"}], C)
  <2> DEFINE w == [p.typed EXCEPT !.status = st]
             e == p.edited \cup {"status"}
             q == [p EXCEPT !.typed = w, !.edited = e]
  <2>1. w \in TypedForm /\ w.title = p.typed.title /\ w.tags = p.typed.tags /\ w.new = p.typed.new
    BY <1>0 DEF TypedForm
  <2>2. e \in SUBSET {"title", "status", "tags"} /\ "status" \in e /\ \A f \in p.edited : f \in e
    BY <1>0
  <2>3. [p EXCEPT !.typed.status = st, !.edited = @ \cup {"status"}] = q
    BY <1>0 DEF PageState
  <2> HIDE DEF p, w, e
  <2>4. PageOK(q, C)
    <3>1. /\ "title" \notin e => w.title = NoEdit
          /\ "status" \notin e => w.status = NoEdit
          /\ "tags" \notin e => w.tags = NoEdit /\ w.new = NoEdit
      BY <1>0, <2>1, <2>2 DEF PageOK
    <3> QED BY <1>0, <2>1, <2>2, <3>1, EditedPage
  <2> QED BY <2>3, <2>4
<1>3. ASSUME NEW g \in SUBSET p.offered
      PROVE  PageOK([p EXCEPT !.typed.tags = g, !.edited = @ \cup {"tags"}], C)
  <2> DEFINE w == [p.typed EXCEPT !.tags = g]
             e == p.edited \cup {"tags"}
             q == [p EXCEPT !.typed = w, !.edited = e]
  <2>1. w \in TypedForm /\ w.title = p.typed.title /\ w.status = p.typed.status
    BY <1>0 DEF TypedForm
  <2>2. e \in SUBSET {"title", "status", "tags"} /\ "tags" \in e /\ \A f \in p.edited : f \in e
    BY <1>0
  <2>3. [p EXCEPT !.typed.tags = g, !.edited = @ \cup {"tags"}] = q
    BY <1>0 DEF PageState
  <2> HIDE DEF p, w, e
  <2>4. PageOK(q, C)
    <3>1. /\ "title" \notin e => w.title = NoEdit
          /\ "status" \notin e => w.status = NoEdit
          /\ "tags" \notin e => w.tags = NoEdit /\ w.new = NoEdit
      BY <1>0, <2>1, <2>2 DEF PageOK
    <3> QED BY <1>0, <2>1, <2>2, <3>1, EditedPage
  <2> QED BY <2>3, <2>4
<1>4. ASSUME NEW t \in Tags
      PROVE  PageOK([p EXCEPT !.typed.new = t, !.edited = @ \cup {"tags"}], C)
  <2> DEFINE w == [p.typed EXCEPT !.new = t]
             e == p.edited \cup {"tags"}
             q == [p EXCEPT !.typed = w, !.edited = e]
  <2>1. w \in TypedForm /\ w.title = p.typed.title /\ w.status = p.typed.status
    BY <1>0 DEF TypedForm
  <2>2. e \in SUBSET {"title", "status", "tags"} /\ "tags" \in e /\ \A f \in p.edited : f \in e
    BY <1>0
  <2>3. [p EXCEPT !.typed.new = t, !.edited = @ \cup {"tags"}] = q
    BY <1>0 DEF PageState
  <2> HIDE DEF p, w, e
  <2>4. PageOK(q, C)
    <3>1. /\ "title" \notin e => w.title = NoEdit
          /\ "status" \notin e => w.status = NoEdit
          /\ "tags" \notin e => w.tags = NoEdit /\ w.new = NoEdit
      BY <1>0, <2>1, <2>2 DEF PageOK
    <3> QED BY <1>0, <2>1, <2>2, <3>1, EditedPage
  <2> QED BY <2>3, <2>4
<1> QED BY <1>1, <1>2, <1>3, <1>4 DEF Type

LEMMA FilterPage ==
  ASSUME NEW C \in Nat, NEW s \in Sessions, PagesOK, C = Len(records), Filter(s)
  PROVE  \E p : Begin(s, p) /\ PageOK(p, C)
<1> DEFINE p == page[s]
<1>0. p \in PageState /\ PageOK(p, C) /\ p.filter \in [status : Statuses \cup {"all"}, tags : SUBSET Tags]
      /\ p.offered \in SUBSET Tags
  BY DEF PagesOK, PageState
<1>1. ASSUME NEW st \in Statuses \cup {"all"}
      PROVE  PageOK([p EXCEPT !.filter.status = st], C)
  <2> DEFINE w == [p.filter EXCEPT !.status = st]
             q == [p EXCEPT !.filter = w]
  <2>1. w \in [status : Statuses \cup {"all"}, tags : SUBSET Tags]
    BY <1>0
  <2>2. [p EXCEPT !.filter.status = st] = q
    BY <1>0 DEF PageState
  <2> HIDE DEF p, w
  <2>3. PageOK(q, C)
    BY <1>0, <2>1 DEF PageOK, PageState, OfCase
  <2> QED BY <2>2, <2>3
<1>2. ASSUME NEW g \in SUBSET p.offered
      PROVE  PageOK([p EXCEPT !.filter.tags = g], C)
  <2> DEFINE w == [p.filter EXCEPT !.tags = g]
             q == [p EXCEPT !.filter = w]
  <2>1. w \in [status : Statuses \cup {"all"}, tags : SUBSET Tags]
    BY <1>0
  <2>2. [p EXCEPT !.filter.tags = g] = q
    BY <1>0 DEF PageState
  <2> HIDE DEF p, w
  <2>3. PageOK(q, C)
    BY <1>0, <2>1 DEF PageOK, PageState, OfCase
  <2> QED BY <2>2, <2>3
<1> QED BY <1>1, <1>2 DEF Filter

(* The rest of a pass.                                                     *)
LEMMA BegunPage ==
  ASSUME NEW p, NEW C, PageOK(p, C)
  PROVE  PageOK([p EXCEPT !.pc = "begun"], C)
<1> QED BY DEF PageOK, PageState, OfCase

LEMMA GoesPage ==
  ASSUME NEW s \in Sessions, NEW C, PageOK(page[s], C), page \in [Sessions -> PageState],
         NEW view \in {"list", "detail", "edit", "new"}, Goes(s, view)
  PROVE  /\ page' \in [Sessions -> PageState] /\ PageOK(page'[s], C) /\ page'[s].pc = "begun"
         /\ \A x \in Sessions \ {s} : page'[x] = page[x]
<1> DEFINE q == [page[s] EXCEPT !.view = view, !.click = "none", !.pc = "begun", !.note = NoNote,
                                !.typed = Untouched, !.edited = {}]
<1>1. page' = [page EXCEPT ![s] = q]
  BY DEF Goes
<1>2. NoNote \in NoteRow /\ NoteOK(NoNote)
  BY DEF NoNote, NoteRow, NoteOK
<1>3. Untouched \in TypedForm /\ Untouched.title = NoEdit /\ Untouched.status = NoEdit /\ Untouched.tags = NoEdit
      /\ Untouched.new = NoEdit
  BY DEF Untouched, TypedForm
<1>4. {} \in SUBSET {"title", "status", "tags"}
  OBVIOUS
<1>5. page[s] \in PageState
  OBVIOUS
<1>6. /\ q \in PageState /\ q.view = view /\ q.click = "none" /\ q.pc = "begun" /\ q.note = NoNote
      /\ q.typed = Untouched /\ q.edited = {} /\ q.case = page[s].case /\ q.seen = page[s].seen
      /\ q.listed = page[s].listed /\ q.confirm = page[s].confirm /\ q.warned = page[s].warned
  BY <1>2, <1>3, <1>5 DEF PageState
<1> HIDE DEF q
<1>7. PageOK(q, C)
  BY <1>2, <1>3, <1>6 DEF PageOK
<1> QED BY <1>1, <1>6, <1>7

LEMMA StaysPage ==
  ASSUME NEW s \in Sessions, NEW C, PageOK(page[s], C), page \in [Sessions -> PageState], Stays(s)
  PROVE  /\ page' \in [Sessions -> PageState] /\ PageOK(page'[s], C) /\ page'[s].pc = "shown"
         /\ \A x \in Sessions \ {s} : page'[x] = page[x]
<1> DEFINE q == [page[s] EXCEPT !.click = "none", !.pc = "shown", !.note = NoNote]
<1>1. page' = [page EXCEPT ![s] = q]
  BY DEF Stays
<1>2. NoNote \in NoteRow /\ NoteOK(NoNote)
  BY DEF NoNote, NoteRow, NoteOK
<1>5. page[s] \in PageState
  OBVIOUS
<1>6. /\ q \in PageState /\ q.view = page[s].view /\ q.click = "none" /\ q.pc = "shown" /\ q.note = NoNote
      /\ q.typed = page[s].typed /\ q.edited = page[s].edited /\ q.case = page[s].case /\ q.seen = page[s].seen
      /\ q.listed = page[s].listed /\ q.confirm = page[s].confirm /\ q.warned = page[s].warned
  BY <1>2, <1>5 DEF PageState
<1> HIDE DEF q
<1>7. PageOK(q, C)
  BY <1>2, <1>6 DEF PageOK
<1> QED BY <1>1, <1>6, <1>7

(* What the end of a pass does.                                            *)
Views == {"list", "detail", "edit", "new"}

Rests(s) == (Stays(s) \/ \E view \in Views : Goes(s, view)) /\ Quiet

Notes(s) ==
  /\ AddNote(page[s].case, "analyst") /\ Goes(s, "detail")
  /\ UNCHANGED <<records, labels, vocabulary, retried, touched>>

Drops(s) ==
  /\ DeleteNote(page[s].note.id) /\ Goes(s, "detail")
  /\ UNCHANGED <<records, labels, vocabulary, serial, retried, touched>>

Rewrites(s, copy) ==
  /\ copy \in CaseCopy /\ copy.title \in Titles
  /\ Writes(s, copy, "detail")
  /\ "title" \notin Asked(page[s]) => copy.title = page[s].copy.title
  /\ "status" \notin Asked(page[s]) => copy.status = page[s].copy.status
  /\ "tags" \notin Asked(page[s]) => copy.tags = page[s].copy.tags

Creates(s) == Form(page[s]).title \in Titles /\ CreateCase(Form(page[s])) /\ Goes(s, "list")

Erases(s) == page[s].confirm = page[s].case /\ EraseCase(s, page[s].case) /\ Goes(s, "list")

Warned(p) == [p EXCEPT !.confirm = p.case, !.warned = @ \cup {p.case}, !.click = "none", !.pc = "shown"]

Warns(s) == page' = [page EXCEPT ![s] = Warned(page[s])] /\ Quiet

LEMMA ActCases ==
  ASSUME NEW s \in Sessions, NEW C, PageOK(page[s], C), Act(s)
  PROVE  /\ page[s].pc = "read" /\ UNCHANGED <<upkeep, post, draft, budget>>
         /\ \/ Rests(s)
            \/ page[s].click = "note" /\ Notes(s)
            \/ page[s].click = "delnote" /\ Drops(s)
            \/ \E copy : Rewrites(s, copy)
            \/ page[s].click = "save" /\ Creates(s)
            \/ page[s].click = "delete" /\ (Erases(s) \/ Warns(s))
<1> DEFINE p == page[s]
<1>0. p \in PageState /\ p.copy \in CaseCopy
  BY DEF PageOK, PageState
<1>1. p.pc = "read" /\ UNCHANGED <<upkeep, post, draft, budget>>
  BY DEF Act
<1>a. "list" \in Views /\ "detail" \in Views /\ "edit" \in Views /\ "new" \in Views
  BY DEF Views
<1>2. CASE p.click = "note"
  BY <1>2 DEF Act, Notes
<1>3. CASE p.click = "delnote"
  <2>1. CASE \E n \in p.seen : n.id = p.note.id
    BY <1>3, <2>1 DEF Act, Drops
  <2>2. CASE ~\E n \in p.seen : n.id = p.note.id
    BY <1>3, <2>2 DEF Act, Rests
  <2> QED BY <1>3, <2>1, <2>2
<1>4. CASE p.click = "close"
  <2>1. CASE p.copy.status # "closed"
    <3>1. Writes(s, Closed(p.copy), "detail")
      BY <1>4, <2>1 DEF Act
    <3>2. Closed(p.copy) \in CaseCopy /\ Closed(p.copy).title = p.copy.title /\ Closed(p.copy).tags = p.copy.tags
      BY <1>0 DEF Closed, CaseCopy, Statuses
    <3>3. p.copy.title \in Titles
      BY <1>1, <1>4 DEF PageOK
    <3>4. Asked(p) = {"status"}
      BY <1>4 DEF Asked
    <3>5. Rewrites(s, Closed(p.copy))
      BY <3>1, <3>2, <3>3, <3>4 DEF Rewrites
    <3> QED BY <1>1, <3>5
  <2>2. CASE p.copy.status = "closed"
    BY <1>4, <2>2 DEF Act, Rests
  <2> QED BY <1>1, <2>1, <2>2
<1>5. CASE p.click = "reopen"
  <2>1. CASE p.copy.status = "closed"
    <3>1. Writes(s, Reopened(p.copy), "detail")
      BY <1>5, <2>1 DEF Act
    <3>2. Reopened(p.copy) \in CaseCopy /\ Reopened(p.copy).title = p.copy.title /\ Reopened(p.copy).tags = p.copy.tags
      BY <1>0 DEF Reopened, CaseCopy, Statuses
    <3>3. p.copy.title \in Titles
      BY <1>1, <1>5 DEF PageOK
    <3>4. Asked(p) = {"status"}
      BY <1>5 DEF Asked
    <3>5. Rewrites(s, Reopened(p.copy))
      BY <3>1, <3>2, <3>3, <3>4 DEF Rewrites
    <3> QED BY <1>1, <3>5
  <2>2. CASE p.copy.status # "closed"
    BY <1>5, <2>2 DEF Act, Rests
  <2> QED BY <1>1, <2>1, <2>2
<1>6. CASE p.click = "save"
  <2>0. Save(s)
    BY <1>6 DEF Act
  <2>1. CASE Form(p).title \notin Titles
    BY <1>1, <2>0, <2>1 DEF Save, Rests, Quiet
  <2>2. CASE Form(p).title \in Titles /\ p.view = "edit"
    <3>1. Writes(s, Form(p), "detail")
      BY <2>0, <2>2 DEF Save
    <3>2. Asked(p) = p.edited
      BY <1>6 DEF Asked
    <3>3. Rewrites(s, Form(p))
      BY <2>2, <3>1, <3>2, FormTypes DEF Rewrites
    <3> QED BY <1>1, <3>3
  <2>3. CASE Form(p).title \in Titles /\ p.view # "edit"
    BY <1>1, <1>6, <2>0, <2>3 DEF Save, Creates
  <2> QED BY <1>1, <1>6, <2>1, <2>2, <2>3
<1>7. CASE p.click = "delete"
  <2>0. Remove(s)
    BY <1>7 DEF Act
  <2>1. CASE Confirmed(p)
    BY <1>1, <1>7, <2>0, <2>1 DEF Remove, Confirmed, Erases
  <2>2. CASE ~Confirmed(p)
    BY <1>1, <1>7, <2>0, <2>2 DEF Remove, Confirmed, Warns, Warned, Quiet
  <2> QED BY <1>1, <1>7, <2>1, <2>2
<1>8. CASE p.click \in {"edit", "new", "back"}
  BY <1>a, <1>8 DEF Act, Rests
<1>9. CASE p.click = "cancel"
  <2>1. Goes(s, IF p.view = "edit" THEN "detail" ELSE "list") /\ Quiet
    BY <1>9 DEF Act
  <2> QED BY <1>1, <1>a, <2>1 DEF Rests
<1>10. CASE p.click = "none"
  BY <1>10 DEF Act, Rests
<1>11. p.click \in {"none", "new", "save", "cancel", "edit", "delete", "note", "delnote", "back", "reopen", "close"}
  BY <1>0 DEF PageState
<1> QED BY <1>1, <1>2, <1>3, <1>4, <1>5, <1>6, <1>7, <1>8, <1>9, <1>10, <1>11

LEMMA WarnedPage ==
  ASSUME NEW p, NEW C \in Nat, PageOK(p, C)
  PROVE  PageOK(Warned(p), C) /\ Warned(p).pc = "shown"
<1>1. p \in PageState /\ p.warned \in SUBSET Nat /\ p.case \in Nat
  BY DEF PageOK, PageState
<1> DEFINE w == p.warned \cup {p.case}
           q == [p EXCEPT !.confirm = p.case, !.warned = w, !.click = "none", !.pc = "shown"]
<1>2. w \in SUBSET Nat /\ p.case \in w
  BY <1>1
<1>3. Warned(p) = q
  BY DEF Warned
<1> HIDE DEF w
<1>4. /\ q \in PageState /\ q.confirm = p.case /\ q.warned = w /\ q.click = "none" /\ q.pc = "shown"
      /\ q.view = p.view /\ q.case = p.case /\ q.seen = p.seen /\ q.listed = p.listed /\ q.note = p.note
      /\ q.typed = p.typed /\ q.edited = p.edited
  BY <1>1, <1>2 DEF PageState
<1> HIDE DEF q
<1>5. PageOK(q, C)
  BY <1>2, <1>4 DEF PageOK, OfCase
<1> QED BY <1>3, <1>4, <1>5

(* What was read is current, for one session.                              *)
CurrentFor(s) ==
  LET p == page[s] IN
  OfCase(p) /\ p.case \in Live =>
    /\ p.pc = "row"  => KnowsRow(p.fresh, records[p.case])
    /\ p.pc = "read" => KnowsRow(p.copy, records[p.case]) /\ p.copy.tags = TagsOf(p.case)

(* A step of a session: its page, and what others find.                    *)
Moves(s) ==
  /\ Stores(s)
  /\ page' \in [Sessions -> PageState] /\ PageOK(page'[s], Len(records'))
  /\ \A x \in Sessions \ {s} : page'[x] = page[x]
  /\ s \notin touched' => CurrentFor(s)'

LEMMA OthersCurrent ==
  ASSUME BookRowsOK, PagesOK, ReadIsCurrent, NEW a, Disturbs(a),
         NEW x \in Sessions \ {a}, page'[x] = page[x], x \notin touched', x # "upkeep"
  PROVE  CurrentFor(x)'
<1> DEFINE p == page[x]
<1>1. CurrentFor(x) /\ x \notin touched
  BY DEF Disturbs, ReadIsCurrent, CurrentFor
<1>2. p.case \in 1..Len(records)
  BY DEF PagesOK, PageOK
<1>3. p.pc \in {"row", "read"} => Working(x, p.case)
  BY DEF Working
<1>4. p.pc \in {"row", "read"} /\ p.case \in Live' => SameFor(p.case)
  BY <1>2, <1>3 DEF Disturbs
<1>5. CASE p.pc \in {"row", "read"} /\ p.case \in Live'
  BY <1>1, <1>4, <1>5 DEF CurrentFor, SameFor, KnowsRow
<1>6. CASE ~(p.pc \in {"row", "read"} /\ p.case \in Live')
  BY <1>6 DEF CurrentFor
<1> QED BY <1>5, <1>6

LEMMA ReadRowMoves ==
  ASSUME BookInv, NEW s \in Sessions, ReadRow(s)
  PROVE  Moves(s)
<1> DEFINE p == page[s]
<1>0. /\ p \in PageState /\ PageOK(p, Len(records)) /\ page \in [Sessions -> PageState]
      /\ BookRowsOK /\ DraftOnFile /\ touched \subseteq Actors
      /\ Len(records) \in Nat
  BY RecordFacts DEF BookInv, PagesOK
<1>1. p.pc = "begun" /\ touched' = touched \ {s} /\ UNCHANGED <<bookRows, upkeep, post>>
  BY DEF ReadRow
<1>2. Stores(s)
  BY <1>0, <1>1, QuietStores
<1>3. records' = records /\ Live' = Live
  BY <1>1 DEF bookRows, Live
<1>4. CASE ~OfCase(p)
  <2> DEFINE q == [p EXCEPT !.pc = "row", !.fresh = NoCase]
  <2>1. page' = [page EXCEPT ![s] = q]
    BY <1>4 DEF ReadRow
  <2>2. NoCase \in CaseCopy
    BY DEF NoCase, CaseCopy, Statuses
  <2>3. /\ q \in PageState /\ q.pc = "row" /\ q.view = p.view /\ q.case = p.case /\ q.seen = p.seen
        /\ q.listed = p.listed /\ q.note = p.note /\ q.click = p.click
        /\ q.confirm = p.confirm /\ q.warned = p.warned /\ q.typed = p.typed /\ q.edited = p.edited
    BY <1>0, <2>2 DEF PageState
  <2> HIDE DEF q, p
  <2>4. ~OfCase(q) /\ PageOK(q, Len(records))
    BY <1>0, <1>4, <2>3 DEF PageOK, OfCase
  <2>5. page' \in [Sessions -> PageState] /\ page'[s] = q /\ \A x \in Sessions \ {s} : page'[x] = page[x]
    BY <1>0, <2>1, <2>3
  <2> QED BY <1>2, <1>3, <2>4, <2>5 DEF Moves, CurrentFor
<1>5. CASE OfCase(p) /\ p.case \in Live
  <2> DEFINE f == RowCase(records[p.case])
             q == [p EXCEPT !.pc = "row", !.fresh = f]
  <2>1. page' = [page EXCEPT ![s] = q]
    BY <1>5 DEF ReadRow
  <2>2. f \in CaseCopy /\ KnowsRow(f, records[p.case]) /\ f.title \in Titles
    BY <1>0, <1>5, RecordFacts DEF RowCase, CaseCopy, RecordRow, KnowsRow
  <2> HIDE DEF f
  <2>3. /\ q \in PageState /\ q.pc = "row" /\ q.view = p.view /\ q.case = p.case /\ q.seen = p.seen
        /\ q.listed = p.listed /\ q.note = p.note /\ q.click = p.click /\ q.fresh = f
        /\ q.confirm = p.confirm /\ q.warned = p.warned /\ q.typed = p.typed /\ q.edited = p.edited
    BY <1>0, <2>2 DEF PageState
  <2> HIDE DEF q
  <2>4. PageOK(q, Len(records))
    BY <1>0, <1>5, <2>2, <2>3 DEF PageOK, OfCase
  <2>5. page' \in [Sessions -> PageState] /\ page'[s] = q /\ \A x \in Sessions \ {s} : page'[x] = page[x]
    BY <1>0, <2>1, <2>3
  <2>6. CurrentFor(s)'
    BY <1>3, <2>2, <2>3, <2>5 DEF CurrentFor
  <2> QED BY <1>2, <1>3, <2>4, <2>5, <2>6 DEF Moves
<1>6. CASE OfCase(p) /\ p.case \notin Live
  <2> DEFINE q == [p EXCEPT !.view = "list", !.click = "none"]
  <2>1. page' = [page EXCEPT ![s] = q]
    BY <1>6 DEF ReadRow
  <2>3. /\ q \in PageState /\ q.pc = "begun" /\ q.view = "list" /\ q.case = p.case /\ q.seen = p.seen
        /\ q.listed = p.listed /\ q.note = p.note /\ q.click = "none"
        /\ q.confirm = p.confirm /\ q.warned = p.warned /\ q.typed = p.typed /\ q.edited = p.edited
    BY <1>0, <1>1 DEF PageState
  <2> HIDE DEF q
  <2>4. PageOK(q, Len(records))
    BY <1>0, <2>3 DEF PageOK, OfCase
  <2>5. page' \in [Sessions -> PageState] /\ page'[s] = q /\ \A x \in Sessions \ {s} : page'[x] = page[x]
    BY <1>0, <2>1, <2>3
  <2>6. CurrentFor(s)'
    BY <2>3, <2>5 DEF CurrentFor
  <2> QED BY <1>2, <1>3, <2>4, <2>5, <2>6 DEF Moves
<1> QED BY <1>4, <1>5, <1>6

LEMMA ReadTagsMoves ==
  ASSUME BookInv, NEW s \in Sessions, ReadTags(s)
  PROVE  Moves(s)
<1> DEFINE p == page[s]
           fresh == IF OfCase(p) THEN [p.fresh EXCEPT !.tags = TagsOf(p.case)] ELSE NoCase
           tags == IF vocabulary = p.offered THEN p.filter.tags ELSE {}
           seen == IF OfCase(p) THEN NotesOf(p.case) ELSE {}
           filter == IF p.view = "list" THEN [p.filter EXCEPT !.tags = tags] ELSE NoFilter
           listed == IF p.view = "list" THEN Listed([p.filter EXCEPT !.tags = tags]) ELSE {}
           title == Kept(p.typed.title, p.copy.title, p.copy.title = fresh.title)
           status == Kept(p.typed.status, p.copy.status, p.copy.status = fresh.status)
           chosen == Kept(p.typed.tags, p.copy.tags, p.copy.tags = fresh.tags /\ p.offered = vocabulary)
           typed == [p.typed EXCEPT !.title = title, !.status = status, !.tags = chosen]
           q == [p EXCEPT !.pc = "read", !.copy = fresh, !.fresh = NoCase, !.offered = vocabulary,
                          !.seen = seen, !.filter = filter, !.listed = listed, !.typed = typed]
<1>0. /\ p \in PageState /\ PageOK(p, Len(records)) /\ page \in [Sessions -> PageState]
      /\ BookRowsOK /\ DraftOnFile /\ touched \subseteq Actors
      /\ Len(records) \in Nat /\ vocabulary \in SUBSET Tags
  BY RecordFacts DEF BookInv, PagesOK, BookRowsOK
<1>a. /\ p.fresh \in CaseCopy /\ p.copy \in CaseCopy /\ p.typed \in TypedForm
      /\ p.filter \in [status : Statuses \cup {"all"}, tags : SUBSET Tags]
  BY <1>0 DEF PageState
<1>1. p.pc = "row" /\ touched' = touched /\ UNCHANGED <<bookRows, upkeep, post>>
  BY DEF ReadTags
<1>2. Stores(s)
  BY <1>0, <1>1, QuietStores
<1>3. records' = records /\ labels' = labels
  BY <1>1 DEF bookRows
<1>4. page' = [page EXCEPT ![s] = q]
  BY DEF ReadTags
<1>5. NoCase \in CaseCopy
  BY DEF NoCase, CaseCopy, Statuses
<1>6. TagsOf(p.case) \in SUBSET Tags
  BY DEF TagsOf
<1>7. /\ fresh \in CaseCopy
      /\ OfCase(p) => fresh.title = p.fresh.title /\ fresh.status = p.fresh.status /\ fresh.tags = TagsOf(p.case)
  BY <1>a, <1>5, <1>6 DEF CaseCopy
<1>8. seen \in SUBSET NoteRow /\ \A n \in seen : NoteOK(n)
  BY <1>0 DEF NotesOf, BookRowsOK, NoteOK
<1>9. filter \in [status : Statuses \cup {"all"}, tags : SUBSET Tags]
  BY <1>a DEF NoFilter
<1>10. listed \subseteq 1..Len(records)
  <2>1. \A f : Listed(f) \subseteq Live
    BY DEF Listed
  <2> QED BY <1>0, <2>1, RecordFacts
<1>11. listed \in SUBSET Nat
  <2> DEFINE n == Len(records)
  <2> HIDE DEF listed
  <2>1. listed \subseteq 1..n
    BY <1>10
  <2>2. n \in Nat
    BY <1>0
  <2> HIDE DEF n
  <2>3. 1..n \subseteq Nat
    BY <2>2
  <2> QED BY <2>1, <2>3
<1>12. /\ typed \in TypedForm
       /\ p.typed.title = NoEdit => typed.title = NoEdit
       /\ p.typed.status = NoEdit => typed.status = NoEdit
       /\ p.typed.tags = NoEdit => typed.tags = NoEdit
       /\ typed.new = p.typed.new
  BY <1>a DEF Kept, TypedForm
<1> HIDE DEF p, fresh, tags, seen, filter, listed, title, status, chosen, typed
<1>13. /\ q \in PageState /\ q.pc = "read" /\ q.view = p.view /\ q.case = p.case /\ q.seen = seen
       /\ q.listed = listed /\ q.note = p.note /\ q.click = p.click /\ q.copy = fresh
       /\ q.confirm = p.confirm /\ q.warned = p.warned /\ q.typed = typed /\ q.edited = p.edited
  BY <1>0, <1>5, <1>7, <1>8, <1>9, <1>11, <1>12 DEF PageState
<1> HIDE DEF q
<1>14. OfCase(q) <=> OfCase(p)
  BY <1>13 DEF OfCase
<1>15. PageOK(q, Len(records))
  BY <1>0, <1>1, <1>7, <1>8, <1>10, <1>12, <1>13, <1>14 DEF PageOK
<1>16. page' \in [Sessions -> PageState] /\ page'[s] = q /\ \A x \in Sessions \ {s} : page'[x] = page[x]
  BY <1>0, <1>4, <1>13
<1>17. ASSUME s \notin touched', OfCase(q), q.case \in Live'
       PROVE  KnowsRow(q.copy, records'[q.case]) /\ q.copy.tags = {t \in Tags : <<q.case, t>> \in labels'}
  <2>1. q.case \in Live /\ s \notin touched
    BY <1>1, <1>3, <1>17 DEF Live
  <2>2. KnowsRow(p.fresh, records[p.case])
    BY <1>1, <1>13, <1>14, <1>17, <2>1 DEF BookInv, ReadIsCurrent, p
  <2> QED BY <1>3, <1>7, <1>13, <1>14, <1>17, <2>2 DEF KnowsRow, TagsOf
<1>18. s \notin touched' => CurrentFor(s)'
  BY <1>13, <1>16, <1>17 DEF CurrentFor, TagsOf
<1> QED BY <1>2, <1>3, <1>15, <1>16, <1>18 DEF Moves

LEMMA BeginMoves ==
  ASSUME BookInv, NEW s \in Sessions, NEW p, Begin(s, p), PageOK(p, Len(records))
  PROVE  Moves(s)
<1> DEFINE q == [p EXCEPT !.pc = "begun"]
<1>0. /\ page \in [Sessions -> PageState] /\ p \in PageState
      /\ BookRowsOK /\ DraftOnFile /\ touched \subseteq Actors
  BY DEF BookInv, PagesOK, PageOK
<1>1. page' = [page EXCEPT ![s] = q] /\ touched' = touched \ {s} /\ UNCHANGED bookRows
  BY DEF Begin
<1>2. Stores(s) /\ records' = records
  BY <1>0, <1>1, QuietStores DEF bookRows
<1>3. PageOK(q, Len(records))
  BY BegunPage
<1>4. q \in PageState /\ q.pc = "begun"
  BY <1>0 DEF PageState
<1> HIDE DEF q
<1>5. page' \in [Sessions -> PageState] /\ page'[s] = q /\ \A x \in Sessions \ {s} : page'[x] = page[x]
  BY <1>0, <1>1, <1>4
<1>6. CurrentFor(s)'
  BY <1>4, <1>5 DEF CurrentFor
<1> QED BY <1>2, <1>3, <1>5, <1>6 DEF Moves

LEMMA ActMoves ==
  ASSUME BookInv, NEW s \in Sessions, Act(s)
  PROVE  Moves(s)
<1> DEFINE n == Len(records)
<1>0. /\ page \in [Sessions -> PageState] /\ PageOK(page[s], n) /\ page[s] \in PageState
      /\ BookRowsOK /\ DraftOnFile /\ touched \subseteq Actors
      /\ n \in Nat /\ page[s].case \in 1..n /\ s \in Actors
  BY RecordFacts DEF BookInv, PagesOK, PageOK, Actors
<1>1. ASSUME Stores(s), NEW view \in Views, Goes(s, view)
      PROVE  Moves(s)
  <2>1. /\ page' \in [Sessions -> PageState] /\ PageOK(page'[s], n) /\ page'[s].pc = "begun"
        /\ \A x \in Sessions \ {s} : page'[x] = page[x]
    BY <1>0, <1>1, GoesPage DEF Views
  <2>2. n <= Len(records') /\ Len(records') \in Nat
    BY <1>1, LenProperties DEF Stores, BookRowsOK
  <2>3. PageOK(page'[s], Len(records'))
    BY <1>0, <2>1, <2>2, PageGrows
  <2> QED BY <1>1, <2>1, <2>3 DEF Moves, CurrentFor
<1>2. CASE Rests(s)
  <2>1. Stores(s) /\ records' = records
    BY <1>0, <1>2, QuietStores DEF Rests, Quiet, bookRows
  <2>2. CASE Stays(s)
    <3>1. /\ page' \in [Sessions -> PageState] /\ PageOK(page'[s], n) /\ page'[s].pc = "shown"
          /\ \A x \in Sessions \ {s} : page'[x] = page[x]
      BY <1>0, <2>2, StaysPage
    <3> QED BY <2>1, <3>1 DEF Moves, CurrentFor
  <2>3. CASE \E view \in Views : Goes(s, view)
    BY <1>1, <2>1, <2>3
  <2> QED BY <1>2, <2>2, <2>3 DEF Rests
<1>a. "detail" \in Views /\ "list" \in Views
  BY DEF Views
<1>3. CASE Notes(s)
  <2>1. Stores(s)
    BY <1>0, <1>3, AddNoteStores DEF Notes, DraftOnFile
  <2> QED BY <1>1, <1>3, <1>a, <2>1 DEF Notes
<1>4. CASE Drops(s)
  <2>1. Stores(s)
    BY <1>0, <1>4, DropNotesStores DEF Drops, DeleteNote
  <2> QED BY <1>1, <1>4, <1>a, <2>1 DEF Drops
<1>5. CASE \E copy : Rewrites(s, copy)
  <2>1. PICK copy : Rewrites(s, copy)
    BY <1>5
  <2>2. /\ copy \in CaseCopy /\ copy.title \in Titles
        /\ UpdateCase(s, page[s].case, copy) /\ Goes(s, "detail")
    BY <2>1 DEF Rewrites, Writes
  <2>3. Stores(s)
    BY <1>0, <2>2, UpdateStores
  <2> QED BY <1>1, <1>a, <2>2, <2>3
<1>6. CASE Creates(s)
  <2>1. Form(page[s]) \in CaseCopy
    BY <1>0, FormTypes
  <2>2. Stores(s)
    BY <1>0, <1>6, <2>1, CreateStores DEF Creates
  <2> QED BY <1>1, <1>6, <1>a, <2>2 DEF Creates
<1>7. CASE Erases(s)
  <2>1. Stores(s)
    BY <1>0, <1>7, EraseStores DEF Erases
  <2> QED BY <1>1, <1>7, <1>a, <2>1 DEF Erases
<1>8. CASE Warns(s)
  <2>1. Stores(s) /\ records' = records
    BY <1>0, <1>8, QuietStores DEF Warns, Quiet, bookRows
  <2>2. PageOK(Warned(page[s]), n) /\ Warned(page[s]).pc = "shown"
    BY <1>0, WarnedPage
  <2>3. page' = [page EXCEPT ![s] = Warned(page[s])]
    BY <1>8 DEF Warns
  <2>4. Warned(page[s]) \in PageState
    BY <2>2 DEF PageOK
  <2>5. page' \in [Sessions -> PageState] /\ page'[s] = Warned(page[s]) /\ \A x \in Sessions \ {s} : page'[x] = page[x]
    BY <1>0, <2>3, <2>4
  <2> QED BY <2>1, <2>2, <2>5 DEF Moves, CurrentFor
<1> QED BY <1>0, <1>2, <1>3, <1>4, <1>5, <1>6, <1>7, <1>8, ActCases

-----------------------------------------------------------------------------
(* The invariant.                                                          *)

LEMMA UpkeepStays ==
  ASSUME UpkeepOK, UNCHANGED <<upkeep, post>>, Len(records) \in Nat, Len(records') \in Nat, Len(records) <= Len(records')
  PROVE  UpkeepOK'
<1> DEFINE m == Len(records)
           n == Len(records')
<1>1. 1..m \subseteq 1..n
  OBVIOUS
<1> HIDE DEF m, n
<1> QED BY <1>1 DEF UpkeepOK, m, n

LEMMA MovesKeep ==
  ASSUME BookInv, NEW s \in Sessions, Moves(s), UNCHANGED <<upkeep, post>>
  PROVE  BookInv'
<1>0. /\ BookRowsOK /\ PagesOK /\ ReadIsCurrent /\ UpkeepOK /\ Stores(s)
      /\ BookRowsOK' /\ DraftOnFile' /\ Len(records) <= Len(records') /\ Disturbs(s) /\ touched' \subseteq Actors
  BY DEF BookInv, Moves, Stores, Disturbs
<1>1. Len(records) \in Nat /\ Len(records') \in Nat
  BY <1>0, LenProperties DEF BookRowsOK
<1>2. UpkeepOK'
  BY <1>0, <1>1, UpkeepStays
<1>3. PagesOK'
  <2>1. \A x \in Sessions : PageOK(page'[x], Len(records'))
    <3> SUFFICES ASSUME NEW x \in Sessions  PROVE PageOK(page'[x], Len(records'))
      OBVIOUS
    <3>1. CASE x = s
      BY <3>1 DEF Moves
    <3>2. CASE x # s
      <4>1. PageOK(page[x], Len(records)) /\ page'[x] = page[x]
        BY <1>0, <3>2 DEF PagesOK, Moves
      <4> QED BY <1>0, <1>1, <4>1, PageGrows
    <3> QED BY <3>1, <3>2
  <2> QED BY <2>1 DEF PagesOK, Moves
<1>4. \A x \in Sessions : x \notin touched' => CurrentFor(x)'
  <2> SUFFICES ASSUME NEW x \in Sessions, x \notin touched'  PROVE CurrentFor(x)'
    OBVIOUS
  <2>1. CASE x = s
    BY <2>1 DEF Moves
  <2>2. CASE x # s
    <3>1. page'[x] = page[x] /\ x # "upkeep"
      BY <2>2, CaseBookAssumption DEF Moves
    <3> QED BY <1>0, <2>2, <3>1, OthersCurrent
  <2> QED BY <2>1, <2>2
<1>5. ReadIsCurrent'
  BY <1>4 DEF ReadIsCurrent, CurrentFor
<1> QED BY <1>0, <1>2, <1>3, <1>5 DEF BookInv

(* A writer that is not a session.                                         *)
LEMMA OutsiderKeeps ==
  ASSUME BookInv, Stores("upkeep"), UNCHANGED page, UpkeepOK'
  PROVE  BookInv'
<1>0. /\ BookRowsOK /\ PagesOK /\ ReadIsCurrent
      /\ BookRowsOK' /\ DraftOnFile' /\ Len(records) <= Len(records') /\ Disturbs("upkeep") /\ touched' \subseteq Actors
  BY DEF BookInv, Stores, Disturbs
<1>1. Len(records) \in Nat /\ Len(records') \in Nat
  BY <1>0, LenProperties DEF BookRowsOK
<1>3. PagesOK'
  BY <1>0, <1>1, PageGrows DEF PagesOK
<1>4. \A x \in Sessions : x \notin touched' => CurrentFor(x)'
  BY <1>0, OthersCurrent, CaseBookAssumption
<1>5. ReadIsCurrent'
  BY <1>4 DEF ReadIsCurrent, CurrentFor
<1> QED BY <1>0, <1>3, <1>5 DEF BookInv

LEMMA BookStarts == BookInit => BookInv
<1> SUFFICES ASSUME BookInit  PROVE BookInv
  OBVIOUS
<1>1. FirstCase \in RecordRow
  BY CaseBookAssumption DEF FirstCase, RecordRow, Statuses
<1>2. records = <<FirstCase>> /\ labels = {} /\ vocabulary = {} /\ notes = {FirstNote} /\ serial = 1 /\ retried = FALSE
  BY DEF BookInit
<1>3. FirstNote \in NoteRow /\ FirstNote.made = FirstNote.id /\ FirstNote.made = 1 /\ FirstNote.case = 1 /\ FirstNote.by = "client"
  BY DEF FirstNote, NoteRow
<1>4. records \in Seq(RecordRow) /\ Len(records) = 1 /\ records # <<>> /\ records[1] = FirstCase
  BY <1>1, <1>2
<1>a. NoteOK(FirstNote) /\ 1 \in 1..1
  BY <1>3 DEF NoteOK
<1>5. BookRowsOK
  <2>1. \A n \in notes : NoteOK(n) /\ n.case \in 1..Len(records) /\ n.made <= serial
    BY <1>2, <1>3, <1>4, <1>a
  <2> QED BY <1>2, <1>4, <2>1 DEF BookRowsOK
<1>6. DraftOnFile
  BY <1>2, <1>3 DEF DraftOnFile
<1>7. NoCase \in CaseCopy
  BY DEF NoCase, CaseCopy, Statuses
<1>8. RowCase(FirstCase) \in CaseCopy
  BY <1>1 DEF RowCase, RecordRow, CaseCopy
<1>9. Untouched \in TypedForm /\ Untouched.title = NoEdit /\ Untouched.status = NoEdit /\ Untouched.tags = NoEdit
      /\ Untouched.new = NoEdit
  BY DEF Untouched, TypedForm
<1>10. NoNote \in NoteRow /\ NoteOK(NoNote)
  BY DEF NoNote, NoteRow, NoteOK
<1>11. NoFilter \in [status : Statuses \cup {"all"}, tags : SUBSET Tags]
  BY DEF NoFilter
<1> DEFINE copy == RowCase(FirstCase)
           q == [view |-> "detail", case |-> 1, pc |-> "shown", click |-> "none", note |-> NoNote,
                 fresh |-> NoCase, copy |-> copy, typed |-> Untouched, offered |-> {}, seen |-> {FirstNote},
                 filter |-> NoFilter, listed |-> {}, confirm |-> 0, warned |-> {}, edited |-> {}]
<1>12. FirstPage = q
  BY DEF FirstPage
<1> HIDE DEF copy
<1>13. /\ q \in PageState /\ q.case = 1 /\ q.listed = {} /\ q.note = NoNote /\ q.seen = {FirstNote} /\ q.confirm = 0
       /\ q.typed = Untouched /\ q.click = "none" /\ q.pc = "shown"
  BY <1>3, <1>7, <1>8, <1>9, <1>10, <1>11 DEF PageState, copy
<1> HIDE DEF q
<1>14. PageOK(q, 1)
  BY <1>a, <1>9, <1>10, <1>13 DEF PageOK
<1>15. page = [s \in Sessions |-> q]
  BY <1>12 DEF BookInit
<1>16. PagesOK
  BY <1>4, <1>13, <1>14, <1>15 DEF PagesOK
<1>17. ReadIsCurrent
  BY <1>13, <1>15 DEF ReadIsCurrent
<1>18. UpkeepOK
  BY <1>7 DEF BookInit, UpkeepOK
<1>19. touched \subseteq Actors
  BY DEF BookInit
<1> QED BY <1>5, <1>6, <1>16, <1>17, <1>18, <1>19 DEF BookInv

LEMMA BookSteps == BookInv /\ [BookNext]_bookVars => BookInv'
<1> SUFFICES ASSUME BookInv, [BookNext]_bookVars  PROVE BookInv'
  OBVIOUS
<1>0. /\ BookRowsOK /\ DraftOnFile /\ PagesOK /\ UpkeepOK /\ touched \subseteq Actors
      /\ Len(records) \in Nat /\ Live \subseteq 1..Len(records)
  BY RecordFacts DEF BookInv
<1>a. "upkeep" \in Actors
  BY DEF Actors
<1>1. ASSUME Stores("upkeep"), UNCHANGED <<page, upkeep, post>>
      PROVE  BookInv'
  <2>1. Len(records') \in Nat /\ Len(records) <= Len(records')
    BY <1>1, LenProperties DEF Stores, BookRowsOK
  <2>2. UpkeepOK'
    BY <1>0, <1>1, <2>1, UpkeepStays
  <2> QED BY <1>1, <2>2, OutsiderKeeps
<1>2. ASSUME NEW s \in Sessions, Press(s) \/ Type(s) \/ Filter(s)
      PROVE  BookInv'
  <2>1. \E p : Begin(s, p) /\ PageOK(p, Len(records))
    BY <1>0, <1>2, PressPage, TypePage, FilterPage
  <2>2. Moves(s) /\ UNCHANGED <<upkeep, post>>
    BY <2>1, BeginMoves DEF Begin
  <2> QED BY <2>2, MovesKeep
<1>3. ASSUME NEW s \in Sessions, Pass(s)
      PROVE  BookInv'
  <2>1. Moves(s)
    BY <1>3, ReadRowMoves, ReadTagsMoves, ActMoves DEF Pass
  <2>2. UNCHANGED <<upkeep, post>>
    BY <1>3 DEF Pass, ReadRow, ReadTags, Act
  <2> QED BY <2>1, <2>2, MovesKeep
<1>4. ASSUME NEW c \in Live, NEW to \in {"open", "in_progress"}, UpkeepReads(c, to)
      PROVE  BookInv'
  <2> DEFINE copy == [RowCase(records[c]) EXCEPT !.tags = TagsOf(c)]
  <2>1. Stores("upkeep") /\ records' = records
    BY <1>0, <1>4, QuietStores DEF UpkeepReads, bookRows
  <2>2. records[c] \in RecordRow /\ c \in 1..Len(records)
    BY <1>0, RecordFacts
  <2>3. copy \in CaseCopy /\ copy.title \in Titles
    BY <2>2 DEF RowCase, RecordRow, CaseCopy, TagsOf
  <2>4. upkeep' = [pc |-> "read", case |-> c, copy |-> copy, to |-> to] /\ UNCHANGED <<page, post>>
    BY <1>4 DEF UpkeepReads
  <2> HIDE DEF copy
  <2>5. c \in Nat
    BY <1>0, <2>2
  <2>6. UpkeepOK'
    BY <1>0, <2>1, <2>2, <2>3, <2>4, <2>5 DEF UpkeepOK
  <2> QED BY <2>1, <2>4, <2>6, OutsiderKeeps
<1>5. CASE UpkeepWrites
  <2>1. upkeep.pc = "read" /\ upkeep' = [upkeep EXCEPT !.pc = "idle"] /\ UNCHANGED <<page, post>>
    BY <1>5 DEF UpkeepWrites
  <2>2. upkeep.case \in 1..Len(records) /\ upkeep.copy \in CaseCopy /\ upkeep.copy.title \in Titles
        /\ upkeep.to \in {"open", "in_progress"}
    BY <1>0, <2>1 DEF UpkeepOK
  <2> DEFINE copy == [upkeep.copy EXCEPT !.status = upkeep.to]
  <2>3. copy \in CaseCopy /\ copy.title \in Titles
    BY <2>2 DEF CaseCopy, Statuses
  <2>4. Quiet \/ UpdateCase("upkeep", upkeep.case, copy)
    BY <1>5 DEF UpkeepWrites
  <2> HIDE DEF copy
  <2>5. Stores("upkeep")
    BY <1>0, <1>a, <2>2, <2>3, <2>4, QuietStores, UpdateStores DEF Quiet
  <2>6. UpkeepOK'
    <3>1. /\ upkeep' \in [pc : {"idle", "read"}, case : Nat, copy : CaseCopy, to : {"open", "in_progress"}]
          /\ upkeep'.pc = "idle"
      BY <1>0, <2>1 DEF UpkeepOK
    <3>2. post.pc = "found" => post.case \in 1..Len(records')
      <4> DEFINE m == Len(records)
                 n == Len(records')
      <4>1. m \in Nat /\ n \in Nat /\ m <= n
        BY <1>0, <2>5, LenProperties DEF Stores, BookRowsOK
      <4>2. 1..m \subseteq 1..n
        BY <4>1
      <4>3. post.pc = "found" => post.case \in 1..m
        BY <1>0 DEF UpkeepOK
      <4> QED BY <4>2, <4>3
    <3> QED BY <1>0, <2>1, <3>1, <3>2 DEF UpkeepOK
  <2> QED BY <2>1, <2>5, <2>6, OutsiderKeeps
<1>6. CASE CreateRecord
  <2>1. PICK t \in Titles, g \in SUBSET Tags : CreateCase([title |-> t, status |-> "open", closed |-> FALSE, tags |-> g])
    BY <1>6 DEF CreateRecord
  <2> DEFINE copy == [title |-> t, status |-> "open", closed |-> FALSE, tags |-> g]
  <2>2. copy \in CaseCopy /\ copy.title \in Titles /\ CreateCase(copy)
    BY <2>1 DEF CaseCopy, Statuses
  <2> HIDE DEF copy
  <2>3. Stores("upkeep")
    BY <1>0, <2>2, CreateStores
  <2> QED BY <1>1, <1>6, <2>3 DEF CreateRecord
<1>7. ASSUME NEW c \in Live, PostNote(c)
      PROVE  BookInv'
  <2>1. Stores("upkeep") /\ records' = records
    BY <1>0, <1>7, QuietStores DEF PostNote, bookRows
  <2>2. c \in 1..Len(records) /\ c \in Nat
    BY <1>0
  <2>3. UpkeepOK'
    BY <1>0, <1>7, <2>1, <2>2 DEF UpkeepOK, PostNote
  <2> QED BY <1>7, <2>1, <2>3, OutsiderKeeps DEF PostNote
<1>8. CASE InsertNote
  <2>1. post.case \in 1..Len(records)
    BY <1>0, <1>8 DEF InsertNote, UpkeepOK
  <2>2. Stores("upkeep")
    BY <1>0, <1>8, <2>1, AddNoteStores DEF InsertNote, DraftOnFile
  <2>3. UpkeepOK'
    BY <1>0, <1>8 DEF InsertNote, UpkeepOK
  <2> QED BY <1>8, <2>2, <2>3, OutsiderKeeps DEF InsertNote
<1>9. ASSUME NEW q \in Requests, SendDraft(q)
      PROVE  BookInv'
  <2>1. Stores("upkeep")
    BY <1>0, <1>9, QuietStores DEF SendDraft
  <2> QED BY <1>1, <1>9, <2>1 DEF SendDraft
<1>10. ASSUME NEW q \in Requests, AppendDraft(q)
       PROVE  BookInv'
  <2>1. CASE Appends
    <3>1. 1 \in 1..Len(records)
      BY <1>0, RecordFacts
    <3>2. Stores("upkeep")
      BY <1>0, <1>10, <2>1, <3>1, AddNoteStores DEF AppendDraft, Appends
    <3> QED BY <1>1, <1>10, <3>2 DEF AppendDraft
  <2>2. CASE ~Appends
    <3>1. UNCHANGED bookRows /\ touched' = touched
      BY <1>0, <1>10, <2>2 DEF AppendDraft, Appends, DraftOnFile, bookRows
    <3>2. Stores("upkeep")
      BY <1>0, <3>1, QuietStores
    <3> QED BY <1>1, <1>10, <3>2 DEF AppendDraft
  <2> QED BY <2>1, <2>2
<1>11. CASE ClearAll
  <2>1. Stores("upkeep")
    BY <1>0, <1>11, ClearStores
  <2> QED BY <1>1, <1>11, <2>1 DEF ClearAll
<1>12. CASE SweepOrphans
  <2>1. Stores("upkeep")
    BY <1>0, <1>12, SweepStores
  <2> QED BY <1>1, <1>12, <2>1 DEF SweepOrphans
<1>13. CASE UNCHANGED bookVars
  <2>1. Stores("upkeep")
    BY <1>0, <1>13, QuietStores DEF bookVars
  <2> QED BY <1>1, <1>13, <2>1 DEF bookVars
<1> QED BY <1>2, <1>3, <1>4, <1>5, <1>6, <1>7, <1>8, <1>9, <1>10, <1>11, <1>12, <1>13 DEF BookNext

THEOREM BookInvariant == BookSpec => []BookInv
<1> QED BY BookStarts, BookSteps, PTL DEF BookSpec

(* The rows refer to each other, and the draft that an agent sends more    *)
(* than once is one note, whoever deletes and clears meanwhile.            *)
THEOREM RecordsStayConsistent == BookSpec => []RecordsConsistent
<1>1. BookInv => RecordsConsistent
  <2> SUFFICES ASSUME BookInv  PROVE RecordsConsistent
    OBVIOUS
  <2>0. BookRowsOK /\ DraftOnFile /\ PagesOK
    BY DEF BookInv
  <2>1. \A c \in DOMAIN records : records[c].title \in Titles /\ records[c].status \in Statuses
    BY <2>0, RecordFacts DEF RecordRow
  <2>2. \A l \in labels : l[1] \in DOMAIN records /\ l[2] \in Tags
    BY <2>0, RecordFacts DEF BookRowsOK
  <2>3. \A n \in notes : n.case \in DOMAIN records /\ n.made <= serial
    BY <2>0, RecordFacts DEF BookRowsOK
  <2>4. \A s \in Sessions : page[s].case \in DOMAIN records /\ page[s].pc \in {"shown", "begun", "row", "read"}
    BY <2>0, RecordFacts DEF PagesOK, PageOK, PageState
  <2>5. BookTypeOK
    BY <2>1, <2>2, <2>3, <2>4 DEF BookTypeOK, BookInv
  <2> DEFINE drafts == {n \in notes : n.by = "agent"}
  <2>6. \A m, n \in drafts : m = n
    BY <2>0 DEF DraftOnFile
  <2>7. Cardinality(drafts) <= 1
    <3> HIDE DEF drafts
    <3>1. CASE drafts = {}
      BY <3>1, FS_EmptySet
    <3>2. CASE drafts # {}
      <4>1. PICK n \in drafts : drafts = {n}
        BY <2>6, <3>2
      <4> QED BY <4>1, FS_Singleton
    <3> QED BY <3>1, <3>2
  <2> QED BY <2>5, <2>7 DEF RecordsConsistent, DraftAppendedOnce
<1> QED BY <1>1, BookInvariant, PTL

-----------------------------------------------------------------------------
(* What a click does.                                                      *)

LEMMA ActedIsAct ==
  ASSUME BookInv, BookNext, NEW s \in Sessions, Acted(s)
  PROVE  Act(s)
<1>0. /\ page[s].pc = "read" /\ page'[s] # page[s]
      /\ BookRowsOK /\ PagesOK
  BY DEF Acted, BookInv
<1>1. ASSUME NEW x \in Sessions, x # s, Moves(x)
      PROVE  FALSE
  BY <1>0, <1>1 DEF Moves
<1>2. ASSUME NEW x \in Sessions, Press(x) \/ Type(x) \/ Filter(x)
      PROVE  FALSE
  <2>1. PICK p : Begin(x, p) /\ PageOK(p, Len(records))
    BY <1>0, <1>2, RecordFacts, PressPage, TypePage, FilterPage
  <2>2. page[x].pc = "shown"
    BY <2>1 DEF Begin
  <2> QED BY <1>0, <1>1, <2>1, <2>2, BeginMoves
<1>3. ASSUME NEW x \in Sessions, Pass(x)
      PROVE  Act(s)
  <2>1. Moves(x)
    BY <1>3, ReadRowMoves, ReadTagsMoves, ActMoves DEF Pass
  <2>2. x = s
    BY <1>1, <2>1
  <2> QED BY <1>0, <1>3, <2>2 DEF Pass, ReadRow, ReadTags
<1> QED
  BY <1>0, <1>2, <1>3 DEF BookNext, UpkeepReads, UpkeepWrites, CreateRecord, PostNote, InsertNote, SendDraft, AppendDraft,
                          ClearAll, SweepOrphans

LEMMA ActFacts ==
  ASSUME BookInv, NEW s \in Sessions, Act(s)
  PROVE  /\ BookRowsOK /\ DraftOnFile /\ touched \subseteq Actors /\ s \in Actors
         /\ PageOK(page[s], Len(records)) /\ page[s].pc = "read"
         /\ page[s].case \in 1..Len(records) /\ Len(records) \in Nat
         /\ NoteOK(page[s].note) /\ page[s].confirm \in page[s].warned \cup {0}
<1>1. BookRowsOK /\ DraftOnFile /\ touched \subseteq Actors /\ PageOK(page[s], Len(records)) /\ Len(records) \in Nat
  BY RecordFacts DEF BookInv, PagesOK
<1>2. page[s].pc = "read"
  BY DEF Act
<1> QED BY <1>1, <1>2 DEF PageOK, Actors

(* What the end of a pass does to a case that is there before and after.   *)
LEMMA KeepsUnasked ==
  ASSUME BookInv, NEW s \in Sessions, Act(s), OfCase(page[s]), s \notin touched, page[s].case \in Live \cap Live'
  PROVE  /\ \A f \in {"title", "status"} \ Asked(page[s]) : records'[page[s].case][f] = records[page[s].case][f]
         /\ "tags" \notin Asked(page[s]) =>
              {t \in Tags : <<page[s].case, t>> \in labels'} = {t \in Tags : <<page[s].case, t>> \in labels}
<1> DEFINE p == page[s]
           c == p.case
<1>0. KnowsRow(p.copy, records[c]) /\ p.copy.tags = TagsOf(c)
  BY ActFacts DEF BookInv, ReadIsCurrent
<1>1. CASE Rests(s) \/ Notes(s) \/ Drops(s) \/ Warns(s)
  BY <1>1 DEF Rests, Notes, Drops, Warns, Quiet, bookRows
<1>2. CASE \E copy : Rewrites(s, copy)
  <2>1. PICK copy : Rewrites(s, copy)
    BY <1>2
  <2>2. copy \in CaseCopy /\ copy.title \in Titles /\ UpdateCase(s, c, copy)
    BY <2>1 DEF Rewrites, Writes
  <2>3. c \in 1..Len(records) /\ c \in Live
    BY ActFacts
  <2>4. KnowsRow(copy, records'[c]) /\ {t \in Tags : <<c, t>> \in labels'} = copy.tags
    <3> HIDE DEF c
    <3>1. PICK d : d = c
      OBVIOUS
    <3>2. KnowsRow(copy, records'[d]) /\ TagsOf(d)' = copy.tags
      BY <2>2, <2>3, <3>1, ActFacts, UpdateStores
    <3> QED BY <3>1, <3>2 DEF TagsOf
  <2> QED BY <1>0, <2>1, <2>4 DEF Rewrites, KnowsRow, TagsOf
<1>3. CASE Creates(s)
  <2>1. Form(p) \in CaseCopy /\ Form(p).title \in Titles /\ CreateCase(Form(p))
    BY <1>3, ActFacts, FormTypes DEF Creates
  <2>2. \A d \in Live : records'[d] = records[d] /\ TagsOf(d)' = TagsOf(d)
    BY <2>1, ActFacts, CreateStores
  <2> QED BY <2>2 DEF TagsOf
<1>4. CASE Erases(s)
  <2>1. Live' = Live \ {c}
    BY <1>4, ActFacts, EraseStores DEF Erases
  <2> QED BY <2>1
<1> QED BY <1>1, <1>2, <1>3, <1>4, ActFacts, ActCases

LEMMA ActStaysOnCase ==
  ASSUME BookInv, NEW s \in Sessions, Act(s)
  PROVE  page'[s].case = page[s].case
<1>0. page \in [Sessions -> PageState] /\ page[s] \in PageState
  BY DEF BookInv, PagesOK
<1>1. ASSUME NEW view, Goes(s, view)  PROVE page'[s].case = page[s].case
  BY <1>0, <1>1 DEF Goes, PageState
<1>2. CASE Stays(s)
  BY <1>0, <1>2 DEF Stays, PageState
<1>3. CASE Warns(s)
  BY <1>0, <1>3 DEF Warns, Warned, PageState
<1>4. Stays(s) \/ Warns(s) \/ \E view : Goes(s, view)
  BY ActFacts, ActCases DEF Rests, Notes, Drops, Rewrites, Writes, Creates, Erases
<1> QED BY <1>1, <1>2, <1>3, <1>4

LEMMA DropsOneNote ==
  ASSUME BookInv, NEW s \in Sessions, Act(s), page[s].click = "delnote", NEW n \in notes \ notes'
  PROVE  n.made = page[s].note.made
<1>1. CASE Rests(s) \/ \E copy : Rewrites(s, copy)
  BY <1>1 DEF Rests, Quiet, bookRows, Rewrites, Writes, UpdateCase
<1>2. CASE Drops(s)
  <2>1. n.id = page[s].note.id
    BY <1>2 DEF Drops, DeleteNote
  <2>2. n.made = n.id /\ page[s].note.made = page[s].note.id
    BY ActFacts DEF BookInv, BookRowsOK, NoteOK
  <2> QED BY <2>1, <2>2
<1> QED BY <1>1, <1>2, ActFacts, ActCases

LEMMA DeletesWarned ==
  ASSUME BookInv, NEW s \in Sessions, Act(s), NEW c \in Live \ Live'
  PROVE  c \in page[s].warned
<1>1. CASE Rests(s) \/ Notes(s) \/ Drops(s) \/ Warns(s)
  BY <1>1 DEF Rests, Notes, Drops, Warns, Quiet, bookRows, Live
<1>2. CASE \E copy : Rewrites(s, copy)
  <2>1. PICK copy : copy \in CaseCopy /\ copy.title \in Titles /\ UpdateCase(s, page[s].case, copy)
    BY <1>2 DEF Rewrites, Writes
  <2>2. Live' = Live
    BY <2>1, ActFacts, UpdateStores
  <2> QED BY <2>2
<1>3. CASE Creates(s)
  <2>1. Form(page[s]) \in CaseCopy /\ Form(page[s]).title \in Titles /\ CreateCase(Form(page[s]))
    BY <1>3, ActFacts, FormTypes DEF Creates
  <2>2. \A d \in Live : d \in Live'
    BY <2>1, ActFacts, CreateStores
  <2> QED BY <2>2
<1>4. CASE Erases(s)
  <2>1. Live' = Live \ {page[s].case} /\ page[s].confirm = page[s].case
    BY <1>4, ActFacts, EraseStores DEF Erases
  <2>2. page[s].case # 0
    BY ActFacts
  <2> QED BY <2>1, <2>2, ActFacts
<1> QED BY <1>1, <1>2, <1>3, <1>4, ActFacts, ActCases

(* A click on the Cases page does what the analyst meant: a pass that was  *)
(* not disturbed changes only the fields that were edited, "Delete" below  *)
(* a note removes that note and no other, and no case goes that the        *)
(* analyst was not asked about.                                            *)
THEOREM ClicksDoWhatIsMeant == BookSpec => CaseEditsMeant
<1>1. BookInv /\ [BookNext]_bookVars =>
        [\A s \in Sessions :
           LET p == page[s] IN
           Acted(s) /\ OfCase(p) /\ s \notin touched /\ p.case \in Live \cap Live' =>
             /\ \A f \in {"title", "status"} \ Asked(p) : records'[p.case][f] = records[p.case][f]
             /\ "tags" \notin Asked(p) => TagsOf(p.case)' = TagsOf(p.case)]_bookVars
  <2> SUFFICES ASSUME BookInv, BookNext, NEW s \in Sessions, Acted(s), OfCase(page[s]), s \notin touched,
                      page[s].case \in Live \cap Live'
               PROVE  /\ \A f \in {"title", "status"} \ Asked(page[s]) :
                           records'[page[s].case][f] = records[page[s].case][f]
                      /\ "tags" \notin Asked(page[s]) => TagsOf(page[s].case)' = TagsOf(page[s].case)
    OBVIOUS
  <2>1. Act(s) /\ page'[s].case = page[s].case
    BY ActedIsAct, ActStaysOnCase
  <2> QED BY <2>1, KeepsUnasked DEF TagsOf
<1>2. BookInv /\ [BookNext]_bookVars =>
        [\A s \in Sessions :
           Acted(s) /\ page[s].click = "delnote" =>
             \A n \in notes \ notes' : n.made = page[s].note.made]_bookVars
  BY ActedIsAct, DropsOneNote
<1>3. BookInv /\ [BookNext]_bookVars =>
        [\A s \in Sessions : \A c \in Live \ Live' :
           Acted(s) => c \in page[s].warned]_bookVars
  BY ActedIsAct, DeletesWarned
<1>4. BookSpec => OnlyAskedChanges
  BY <1>1, BookInvariant, PTL DEF BookSpec, OnlyAskedChanges
<1>5. BookSpec => DeletesNoteMeant
  BY <1>2, BookInvariant, PTL DEF BookSpec, DeletesNoteMeant
<1>6. BookSpec => DeletedWhenWarned
  BY <1>3, BookInvariant, PTL DEF BookSpec, DeletedWhenWarned
<1> QED BY <1>4, <1>5, <1>6 DEF CaseEditsMeant
=============================================================================
