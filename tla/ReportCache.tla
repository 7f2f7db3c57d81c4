---------------------------- MODULE ReportCache ----------------------------
(***************************************************************************)
(* GET /cases/{id}/report.pdf: build_case_report_response of               *)
(* app/api/routers/cases.py, also behind the workbench and the agent       *)
(* routes.  One file per case is the cache; it is fresh while its mtime is *)
(* not older than analyzed_at of the newest analysis.  Requests run in     *)
(* threads of two processes that share the directory, so a request may     *)
(* stop between loading the case, looking at the file, rendering (seconds) *)
(* into a temporary file and renaming it into place.                       *)
(***************************************************************************)
EXTENDS CaseStore

CONSTANT Readers   \* requests; each may be made again and again

VARIABLES
  pdf,        \* the cached file of each case
  reader,
  unlinked    \* cases whose deletion has removed the file

cacheVars == <<pdf, reader, unlinked>>

(* A file: when it was written and what it shows (an analysis and the text *)
(* of its report).                                                         *)
Nothing == [at |-> 0, text |-> NoJob]
NoPdf   == [mtime |-> 0, shows |-> Nothing]
Shown(row) == [at |-> row.at, text |-> row.text]

IdleReader == [pc |-> "idle", of |-> CHOOSE c \in Cases : TRUE, latest |-> Nothing, draft |-> NoPdf, served |-> NoPdf]

CacheInit ==
  /\ pdf = [c \in Cases |-> NoPdf]
  /\ reader = [r \in Readers |-> IdleReader]
  /\ unlinked = {}

(* max(case.analyses, key=sort_timestamp)                                  *)
Latest(c) == CHOOSE a \in AnalysesOf(c) : \A b \in AnalysesOf(c) : analyses[b].at <= analyses[a].at

(* get_case: the row of the case (404 without it), then its analyses.      *)
LoadCase(r, c) ==
  /\ reader[r].pc \in {"idle", "served", "refused"}
  /\ c \in cases
  /\ reader' = [reader EXCEPT ![r] = [IdleReader EXCEPT !.pc = "loading", !.of = c]]
  /\ UNCHANGED <<pdf, unlinked, storeVars>>

LoadAnalyses(r) ==
  LET c == reader[r].of IN
  /\ reader[r].pc = "loading"
  /\ reader' = [reader EXCEPT ![r].pc = "loaded",
       ![r].latest = IF AnalysesOf(c) = {} THEN Nothing ELSE Shown(analyses[Latest(c)])]
  /\ UNCHANGED <<pdf, unlinked, storeVars>>

(* Without analysis any file is fresh; without either there is a 404.      *)
CacheFresh(r) == pdf[reader[r].of].mtime > 0 /\ pdf[reader[r].of].mtime >= reader[r].latest.at

LookAtCache(r) ==
  /\ reader[r].pc = "loaded"
  /\ reader' = [reader EXCEPT ![r].pc = IF CacheFresh(r) THEN "serve"
                                        ELSE IF reader[r].latest = Nothing THEN "refused" ELSE "render"]
  /\ UNCHANGED <<pdf, unlinked, storeVars>>

(* The PDF is written beside the cache, which fixes its mtime, ...          *)
WritePdf(r) ==
  /\ reader[r].pc = "render"
  /\ reader' = [reader EXCEPT ![r].pc = "publish",
                              ![r].draft = [mtime |-> clock, shows |-> reader[r].latest]]
  /\ UNCHANGED <<pdf, unlinked, storeVars>>

(* ... and renamed over it.                                                *)
PublishPdf(r) ==
  /\ reader[r].pc = "publish"
  /\ pdf' = [pdf EXCEPT ![reader[r].of] = reader[r].draft]
  /\ reader' = [reader EXCEPT ![r].pc = "serve", ![r].draft = NoPdf]
  /\ UNCHANGED <<unlinked, storeVars>>

(* No rendering libraries, WeasyPrint fails, or the disk is full; then the *)
(* temporary file is removed.                                              *)
RenderFails(r) ==
  /\ reader[r].pc \in {"render", "publish"}
  /\ reader' = [reader EXCEPT ![r].pc = "refused", ![r].draft = NoPdf]
  /\ UNCHANGED <<pdf, unlinked, storeVars>>

(* FileResponse opens the file when the response is sent.                  *)
ServePdf(r) ==
  LET file == pdf[reader[r].of] IN
  /\ reader[r].pc = "serve"
  /\ reader' = [reader EXCEPT ![r].pc = IF file = NoPdf THEN "refused" ELSE "served", ![r].served = file]
  /\ UNCHANGED <<pdf, unlinked, storeVars>>

(* DELETE /cases unlinks the file after its transaction, best effort.      *)
UnlinkPdf(c) ==
  /\ c \notin cases /\ c \notin unlinked
  /\ unlinked' = unlinked \cup {c}
  /\ pdf' = [pdf EXCEPT ![c] = NoPdf]
  /\ UNCHANGED <<reader, storeVars>>

(* Mutant: the sweep only looks at files of cases it can find.             *)
GcReportsOfCases(c) ==
  /\ c \in cases
  /\ pdf[c] # NoPdf
  /\ pdf' = [pdf EXCEPT ![c] = NoPdf]
  /\ UNCHANGED <<reader, unlinked, storeVars>>

(* The sweep removes files older than the retention time; any age counts.  *)
GcReports(c) ==
  /\ pdf[c] # NoPdf
  /\ pdf' = [pdf EXCEPT ![c] = NoPdf]
  /\ UNCHANGED <<reader, unlinked, storeVars>>

ReaderStep(r) ==
  \/ LoadAnalyses(r) \/ LookAtCache(r) \/ WritePdf(r) \/ PublishPdf(r)
  \/ RenderFails(r) \/ ServePdf(r)

CacheNext ==
  \/ \E r \in Readers : ReaderStep(r) \/ \E c \in Cases : LoadCase(r, c)
  \/ \E c \in Cases : UnlinkPdf(c) \/ GcReports(c)

Shows == [at : Nat, text : ReportJobs \cup {NoJob}]
Pdf   == [mtime : Nat, shows : Shows]
CacheTypeOK ==
  /\ pdf \in [Cases -> Pdf]
  /\ reader \in [Readers -> [pc : {"idle", "loading", "loaded", "render", "publish", "serve",
                                   "served", "refused"},
                             of : Cases, latest : Shows, draft : Pdf, served : Pdf]]
  /\ unlinked \subseteq Cases
-----------------------------------------------------------------------------
(* The PDF of a deleted case does not stay: whoever published it late, the *)
(* sweep removes it.                                                       *)
DeletedReportsGo == \A c \in Cases : <>[](c \notin cases => pdf[c] = NoPdf)

=============================================================================
