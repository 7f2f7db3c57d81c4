----------------------------- MODULE CaseStore -----------------------------
(***************************************************************************)
(* The cases, analyses and evidence snapshots of the case database, as the *)
(* parts of the program that read them meet them: EvidencePager, IocFeed   *)
(* and ReportCache extend this module and CaseReads composes them.         *)
(*                                                                         *)
(* Writers are the pipeline worker (_persist_analysis and the agent        *)
(* broker: an analysis is stamped first and saved later), the report job   *)
(* (_run_llm_report_job: it loads an analysis, asks the model for minutes  *)
(* and saves the copy it loaded), the deletion of a case and the sweep of  *)
(* orphaned rows.  Which of them may run when, and the fate of their jobs, *)
(* is JobQueue's and AgentSpool's matter; here they meet in every order.   *)
(*                                                                         *)
(* A row of `analyses` keeps its timestamp, the contents its manifest      *)
(* depends on (how many report runs added a stage, how many a warning) and *)
(* the report text, named by the report job that wrote it.  The `iocs` of  *)
(* an analysis are rewritten with it and never differ, so they are a       *)
(* constant (IocsOf) of IocFeed.                                           *)
(***************************************************************************)
EXTENDS Naturals, Sequences, FiniteSets

CONSTANTS
  Cases, Analyses,
  CaseOf,       \* the case of an analysis
  Legacy,       \* analyses saved before evidence snapshots existed
  ReportJobs,
  ReportOf,     \* the analysis a report job rewrites
  NoJob,        \* the author of the report text of a fresh analysis
  MaxTime       \* bound on the clock

ASSUME StoreAssumption ==
  /\ CaseOf \in [Analyses -> Cases]
  /\ Legacy \subseteq Analyses
  /\ ReportOf \in [ReportJobs -> Analyses]
  /\ NoJob \notin ReportJobs
  /\ MaxTime \in Nat \ {0}

VARIABLES
  clock,
  cases,      \* the rows of `cases`
  analyses,   \* the rows of `analyses`, NoAnalysis where there is none
  snapshots,  \* the snapshots of each analysis, in the order of insertion
  ingest,     \* the worker that makes each analysis
  regen,      \* each report job, with the copy it loaded
  purges      \* history: how often rows of each case were deleted

storeVars == <<clock, cases, analyses, snapshots, ingest, regen, purges>>

NoAnalysis == [at |-> 0, llm |-> 0, failed |-> 0, text |-> NoJob]
Fresh(t)   == [at |-> t, llm |-> 0, failed |-> 0, text |-> NoJob]
Row        == [at : Nat, llm : Nat, failed : Nat, text : ReportJobs \cup {NoJob}]
Snapshot   == [llm : Nat, failed : Nat]

Present(a)     == analyses[a].at > 0
AnalysesOf(c)  == {a \in Analyses : Present(a) /\ CaseOf[a] = c}
Stored(a, s)   == \E i \in 1..Len(snapshots[a]) : snapshots[a][i] = s
NewestSnapshot(a) == snapshots[a][Len(snapshots[a])]

(* The snapshot id is a digest of the manifest and the evidence.           *)
ContentOf(row) == [llm |-> row.llm, failed |-> row.failed]

StoreInit ==
  /\ clock = 1
  /\ cases = Cases
  /\ analyses = [a \in Analyses |-> IF a \in Legacy THEN Fresh(1) ELSE NoAnalysis]
  /\ snapshots = [a \in Analyses |-> <<>>]
  /\ ingest = [a \in Analyses |-> [pc |-> IF a \in Legacy THEN "saved" ELSE "new", at |-> 1]]
  /\ regen = [j \in ReportJobs |-> [pc |-> "new", row |-> NoAnalysis]]
  /\ purges = [c \in Cases |-> 0]

(* Mutant: a snapshot replaces the ones before it.                         *)
CaptureReplacing(a, s) == snapshots' = [snapshots EXCEPT ![a] = <<s>>]

(* EvidenceService.capture: a snapshot is inserted unless this analysis    *)
(* has one with the same digest.                                           *)
Capture(a, s) ==
  snapshots' = [snapshots EXCEPT ![a] = IF Stored(a, s) THEN @ ELSE Append(@, s)]

(* CaseRepository.save_analysis: one transaction; whether the case still   *)
(* exists is not asked.                                                    *)
SaveAnalysis(a, row) ==
  /\ analyses' = [analyses EXCEPT ![a] = row]
  /\ Capture(a, ContentOf(row))

Tick ==
  /\ clock < MaxTime
  /\ clock' = clock + 1
  /\ UNCHANGED <<cases, analyses, snapshots, ingest, regen, purges>>

(* The Analysis object is made, with analyzed_at = now ...                 *)
StampAnalysis(a) ==
  /\ ingest[a].pc = "new"
  /\ ingest' = [ingest EXCEPT ![a] = [pc |-> "stamped", at |-> clock]]
  /\ UNCHANGED <<clock, cases, analyses, snapshots, regen, purges>>

(* ... and saved.                                                          *)
PersistAnalysis(a) ==
  /\ ingest[a].pc = "stamped"
  /\ ingest' = [ingest EXCEPT ![a].pc = "saved"]
  /\ SaveAnalysis(a, Fresh(ingest[a].at))
  /\ UNCHANGED <<clock, cases, regen, purges>>

(* _run_llm_report_job loads the analysis (it fails if there is none) ...  *)
LoadForReport(j) ==
  /\ regen[j].pc = "new"
  /\ regen' = [regen EXCEPT ![j] = IF Present(ReportOf[j])
                                   THEN [pc |-> "loaded", row |-> analyses[ReportOf[j]]]
                                   ELSE [pc |-> "done", row |-> NoAnalysis]]
  /\ UNCHANGED <<clock, cases, analyses, snapshots, ingest, purges>>

(* ... and saves its copy with the new text and one more stage, or with    *)
(* the old text and one more warning when the model failed.  analyzed_at   *)
(* stays what it was.                                                      *)
Rewritten(row, j, ok) ==
  IF ok THEN [row EXCEPT !.llm = @ + 1, !.text = j] ELSE [row EXCEPT !.failed = @ + 1]

SaveReport(j) ==
  /\ regen[j].pc = "loaded"
  /\ \E ok \in BOOLEAN : SaveAnalysis(ReportOf[j], Rewritten(regen[j].row, j, ok))
  /\ regen' = [regen EXCEPT ![j].pc = "done"]
  /\ UNCHANGED <<clock, cases, ingest, purges>>

(* CaseRepository.delete_case: one transaction over all the tables.  The   *)
(* Cases page calls it at any time; DELETE /cases looks at the jobs first, *)
(* with the gaps JobQueue shows.                                           *)
DeleteCase(c) ==
  /\ c \in cases
  /\ cases' = cases \ {c}
  /\ analyses' = [a \in Analyses |-> IF CaseOf[a] = c THEN NoAnalysis ELSE analyses[a]]
  /\ snapshots' = [a \in Analyses |-> IF CaseOf[a] = c THEN <<>> ELSE snapshots[a]]
  /\ purges' = [purges EXCEPT ![c] = @ + 1]
  /\ UNCHANGED <<clock, ingest, regen>>

(* The sweep removes analyses whose case is gone, but not their snapshots. *)
Orphans == {a \in Analyses : Present(a) /\ CaseOf[a] \notin cases}

GcOrphans ==
  /\ Orphans # {}
  /\ analyses' = [a \in Analyses |-> IF a \in Orphans THEN NoAnalysis ELSE analyses[a]]
  /\ purges' = [c \in Cases |-> IF \E a \in Orphans : CaseOf[a] = c THEN purges[c] + 1 ELSE purges[c]]
  /\ UNCHANGED <<clock, cases, snapshots, ingest, regen>>

StoreNext ==
  \/ Tick
  \/ \E a \in Analyses : StampAnalysis(a) \/ PersistAnalysis(a)
  \/ \E j \in ReportJobs : LoadForReport(j) \/ SaveReport(j)
  \/ \E c \in Cases : DeleteCase(c)
  \/ GcOrphans

StoreTypeOK ==
  /\ clock \in 1..MaxTime
  /\ cases \subseteq Cases
  /\ analyses \in [Analyses -> Row]
  /\ snapshots \in [Analyses -> Seq(Snapshot)]
  /\ ingest \in [Analyses -> [pc : {"new", "stamped", "saved"}, at : 1..MaxTime]]
  /\ regen \in [ReportJobs -> [pc : {"new", "loaded", "done"}, row : Row]]
  /\ purges \in [Cases -> Nat]
=============================================================================
