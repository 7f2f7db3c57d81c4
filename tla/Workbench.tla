----------------------------- MODULE Workbench -----------------------------
(***************************************************************************)
(* One Streamlit session of the workbench: app/main.py, ui/cases_tab.py    *)
(* and ui/background_analysis.py over the case database and the job table. *)
(*                                                                         *)
(* Streamlit runs the whole script again after every click, after every    *)
(* st.rerun() and, for the progress fragment, every two seconds.  A click  *)
(* asks for a pass; the passes run one at a time and workers finish jobs   *)
(* between them.  A pass that restores an analysis before it reaches a     *)
(* button starts over, and the click on that button is lost: buttons below *)
(* the progress panel act only when Steady holds.                          *)
(*                                                                         *)
(* The evidence of an analysis is abstracted to the captures it was read   *)
(* from, and a report to the captures it is about.  Rows are numbered in   *)
(* the order they are made, which is the order of sort_timestamp.          *)
(***************************************************************************)
EXTENDS Naturals, Sequences, FiniteSets, SequencesExt

CONSTANTS
  Captures, Flowing,                 \* captures, and those with any flow
  Uploads,                           \* batches that may be uploaded
  MaxCases, MaxAnalyses, MaxRuns,    \* bounds on rows
  MaxClicks                          \* bound on clicks and browser reloads

ASSUME WorkbenchAssumption ==
  /\ Flowing \subseteq Captures
  /\ \A u \in Uploads : u \in Seq(Captures) /\ u # <<>>
  /\ {MaxCases, MaxAnalyses, MaxRuns, MaxClicks} \subseteq Nat

VARIABLES
  cases,      \* status of each case row, in order of creation
  analyses,   \* rows of analyses
  runs,       \* jobs of one click, with its _run_id
  session,    \* st.session_state
  pass,       \* whether a pass is due
  clicks

rows  == <<cases, analyses, runs>>
vars  == <<rows, session, pass, clicks>>

Rows    == 1 .. MaxAnalyses

Fresh == [paths |-> <<>>, uploader |-> <<>>, features |-> {}, report |-> {}, derived |-> {},
          marker |-> 0, ids |-> <<>>, view |-> "list", selected |-> 0, run |-> 0, loaded |-> FALSE]

Init ==
  /\ cases = <<>> /\ analyses = <<>> /\ runs = <<>>
  /\ session = Fresh
  /\ pass = TRUE /\ clicks = 0

-----------------------------------------------------------------------------
(* Restoring saved analyses.                                               *)

DataOf(as)   == UNION {analyses[a].of : a \in Range(as)}
ReportOf(as) == UNION {analyses[a].report : a \in Range(as)}

(* Mutant: without a reset what was derived from the last capture stays.   *)
DerivedKept(s, as) ==
  LET flows == DataOf(as) \cap Flowing IN IF flows = {} THEN s.derived ELSE flows

(* flow_asymmetry and port_anomalies are computed if there are flows.      *)
(* Restoring one analysis resets them first; restoring a batch does not.   *)
Derived(s, as) ==
  LET flows == DataOf(as) \cap Flowing
  IN  IF flows = {} /\ Len(as) > 1 THEN s.derived ELSE flows

Ids(s, as) == as

Report(s, as) == ReportOf(as)

(* restored_analysis_id: the newest of the analyses.                       *)
Marker(s, as) == Max(Range(as))

(* restore_analyses_to_session(), and _restore_analysis_to_session() for   *)
(* one.                                                                    *)
Restored(s, as) ==
  [s EXCEPT !.features = DataOf(as), !.report = Report(s, as), !.derived = Derived(s, as),
            !.paths = [i \in DOMAIN as |-> analyses[as[i]].path],
            !.marker = Marker(s, as), !.ids = Ids(s, as)]

-----------------------------------------------------------------------------
(* What a pass does, from top to bottom.                                   *)

(* Jobs of a deleted case have no row.                                     *)
Found(r)    == runs[r].case \in DOMAIN cases /\ cases[runs[r].case] # "deleted"
Running(r)  == \E i \in DOMAIN runs[r].jobs : runs[r].jobs[i] = "active"

Finished(r) == Found(r) /\ \A i \in DOMAIN runs[r].jobs : runs[r].jobs[i] = "done"

(* find_recoverable_background_run(): the newest run with an active job,   *)
(* else the newest run.                                                    *)
Recoverable ==
  LET found  == {r \in DOMAIN runs : Found(r)}
      active == {r \in found : Running(r)}
  IN  IF active # {} THEN Max(active) ELSE IF found # {} THEN Max(found) ELSE 0

Recovered(s) ==
  IF s.run = 0 /\ s.features = {} THEN [s EXCEPT !.run = Recoverable, !.loaded = FALSE] ELSE s

(* The uploader keeps its files, and every pass makes them the source.     *)
Sourced(s) == IF s.uploader = <<>> THEN s ELSE [s EXCEPT !.paths = s.uploader]

(* render_background_progress() finds a finished run not yet restored.     *)
Restores(s) == s.run # 0 /\ ~s.loaded /\ Finished(s.run)

RestoreRun(s) ==
  /\ Restores(s)
  /\ session' = [Restored(s, runs[s.run].results) EXCEPT !.loaded = TRUE]
  /\ LET c == runs[s.run].case
     IN  cases' = IF cases[c] = "in_progress" THEN [cases EXCEPT ![c] = "open"] ELSE cases

(* The detail view shows the newest analysis of its case.                  *)
Viewed(s)   == s.view = "detail" /\ cases[s.selected] # "deleted"
OfCase(c)   == {a \in DOMAIN analyses : analyses[a].case = c}
Outdated(s) == Viewed(s) /\ OfCase(s.selected) # {} /\ s.marker # Max(OfCase(s.selected))

(* One pass of the script, up to its end or its st.rerun().                *)
Rerun ==
  LET s == Sourced(Recovered(session))
  IN  /\ pass
      /\ \/ /\ RestoreRun(s)
            /\ pass' = TRUE
         \/ /\ ~Restores(s) /\ Outdated(s)
            /\ session' = Restored(s, <<Max(OfCase(s.selected))>>)
            /\ pass' = TRUE
            /\ UNCHANGED cases
         \/ /\ ~Restores(s) /\ ~Outdated(s)
            /\ session' = s
            /\ pass' = FALSE
            /\ UNCHANGED cases
      /\ UNCHANGED <<analyses, runs, clicks>>

(* The progress fragment alone, every two seconds.                         *)
Tick ==
  /\ ~pass
  /\ RestoreRun(session)
  /\ pass' = TRUE
  /\ UNCHANGED <<analyses, runs, clicks>>

-----------------------------------------------------------------------------
(* Clicks.                                                                 *)

Steady  == ~pass /\ ~Restores(session) /\ ~Outdated(session)
Counted == clicks < MaxClicks /\ clicks' = clicks + 1 /\ pass' = TRUE
Click   == Steady /\ Counted

(* Any widget; the pass may find a newer analysis of the case on display.  *)
Interact ==
  /\ ~pass /\ Outdated(session)
  /\ pass' = TRUE
  /\ UNCHANGED <<rows, session, clicks>>

Upload(u) ==
  /\ session.uploader # u
  /\ Click
  /\ session' = [session EXCEPT !.uploader = u]
  /\ UNCHANGED rows

(* Taking the files out of the uploader leaves the last source.            *)
ClearUploader ==
  /\ session.uploader # <<>>
  /\ Click
  /\ session' = [session EXCEPT !.uploader = <<>>]
  /\ UNCHANGED rows

(* submit_background_analysis() deletes its case if nothing was queued.    *)
CaseAfter(k) == IF k = 0 THEN "deleted" ELSE "in_progress"

NewRun(c, ids, k, kind) ==
  [case |-> c, kind |-> kind, of |-> ids, jobs |-> [i \in 1 .. k |-> "active"], results |-> [i \in 1 .. k |-> 0]]

(* Mutant: the flag of the run before stays.                               *)
AttachedOnly(s, r) == [s EXCEPT !.run = r]

Attach(s, r) == [s EXCEPT !.run = r, !.loaded = FALSE]

(* "Extract & Analyze".  The queue is shared and may be full after k of    *)
(* the jobs: then those stay, and the run is not attached.                 *)
Start(k) ==
  LET all  == session.paths
      case == Len(cases) + 1
      run  == NewRun(case, SubSeq(all, 1, k), k, "pcap")
  IN  /\ ~pass /\ Counted /\ all # <<>> /\ k <= Len(all)
      /\ Len(cases) < MaxCases /\ Len(runs) < MaxRuns
      /\ cases' = Append(cases, CaseAfter(k))
      /\ runs' = IF k = 0 THEN runs ELSE Append(runs, run)
      /\ session' = IF k = Len(all) THEN Attach(session, Len(runs) + 1) ELSE session
      /\ UNCHANGED analyses

(* "Re-run Report".  Without a restored analysis the code falls back to    *)
(* the run inside the session that queued runs have replaced; left out.    *)
RerunReport(k) ==
  LET ids  == session.ids
      case == analyses[ids[1]].case
      run  == NewRun(case, SubSeq(ids, 1, k), k, "report")
  IN  /\ ids # <<>> /\ k <= Len(ids)
      /\ \A i \in DOMAIN ids : cases[analyses[ids[i]].case] # "deleted"
      /\ Len(runs) < MaxRuns
      /\ Click
      /\ runs' = IF k = 0 THEN runs ELSE Append(runs, run)
      /\ IF k = Len(ids)
         THEN /\ session' = Attach([session EXCEPT !.report = {}], Len(runs) + 1)
              /\ cases' = [cases EXCEPT ![case] = "in_progress"]
         ELSE UNCHANGED <<session, cases>>
      /\ UNCHANGED analyses

Open(c) ==
  /\ session.view = "list" /\ cases[c] # "deleted"
  /\ Click
  /\ session' = [session EXCEPT !.view = "detail", !.selected = c]
  /\ UNCHANGED rows

Back ==
  /\ session.view = "detail"
  /\ Click
  /\ session' = [session EXCEPT !.view = "list"]
  /\ UNCHANGED rows

(* "Load into Dashboard" on an analysis of the case.                       *)
Load(a) ==
  /\ Viewed(session) /\ analyses[a].case = session.selected /\ session.marker # a
  /\ Click
  /\ session' = Restored(session, <<a>>)
  /\ UNCHANGED rows

Saved(s, a) == [s EXCEPT !.marker = a]

Current(c) ==
  [case |-> c, of |-> session.features, report |-> session.report,
   path |-> IF session.paths = <<>> THEN "none" ELSE session.paths[1]]

(* "Save Current Analysis to New Case".                                    *)
QuickSave ==
  LET case == Len(cases) + 1
  IN  /\ session.view = "list" /\ session.features # {}
      /\ Len(cases) < MaxCases /\ Len(analyses) < MaxAnalyses
      /\ Click
      /\ cases' = Append(cases, "open")
      /\ analyses' = Append(analyses, Current(case))
      /\ session' = [Saved(session, Len(analyses) + 1) EXCEPT !.view = "detail", !.selected = case]
      /\ UNCHANGED runs

(* "Add Current Analysis".                                                 *)
AddCurrent ==
  /\ Viewed(session) /\ session.features # {}
  /\ Len(analyses) < MaxAnalyses
  /\ Click
  /\ analyses' = Append(analyses, Current(session.selected))
  /\ session' = Saved(session, Len(analyses) + 1)
  /\ UNCHANGED <<cases, runs>>

Toggled(status) == IF status = "closed" THEN "open" ELSE "closed"

CloseOrReopen ==
  /\ Viewed(session)
  /\ Click
  /\ cases' = [cases EXCEPT ![session.selected] = Toggled(@)]
  /\ UNCHANGED <<analyses, runs, session>>

(* The second click on "Delete Case".                                      *)
Delete ==
  /\ Viewed(session)
  /\ Click
  /\ cases' = [cases EXCEPT ![session.selected] = "deleted"]
  /\ session' = [session EXCEPT !.view = "list"]
  /\ UNCHANGED <<analyses, runs>>

(* A browser reload: a new session, with nothing in its state.             *)
Reload ==
  /\ Counted
  /\ session' = Fresh
  /\ UNCHANGED rows

-----------------------------------------------------------------------------
(* The worker processes; queued and running are one here, JobQueue tells   *)
(* them apart.                                                             *)

Job(r, i, kind) == Found(r) /\ runs[r].kind = kind /\ runs[r].jobs[i] = "active"

Completed(r, i, a) == [runs EXCEPT ![r].jobs[i] = "done", ![r].results[i] = a]

(* The report may be missing: LLM disabled, or it failed.                  *)
AnalysisEnds(r, i, reported) ==
  LET p == runs[r].of[i]
  IN  /\ Job(r, i, "pcap")
      /\ Len(analyses) < MaxAnalyses
      /\ analyses' = Append(analyses, [case |-> runs[r].case, of |-> {p}, path |-> p,
                                       report |-> IF reported THEN {p} ELSE {}])
      /\ runs' = Completed(r, i, Len(analyses) + 1)
      /\ UNCHANGED <<cases, session, pass, clicks>>

(* A blank answer leaves the report there was.                             *)
ReportEnds(r, i, reported) ==
  LET a == runs[r].of[i]
  IN  /\ Job(r, i, "report")
      /\ analyses' = IF reported THEN [analyses EXCEPT ![a].report = analyses[a].of] ELSE analyses
      /\ runs' = Completed(r, i, a)
      /\ UNCHANGED <<cases, session, pass, clicks>>

Fails(r, i) ==
  /\ Job(r, i, runs[r].kind)
  /\ runs' = [runs EXCEPT ![r].jobs[i] = "failed"]
  /\ UNCHANGED <<cases, analyses, session, pass, clicks>>

Works(r, i) ==
  \/ Fails(r, i)
  \/ \E reported \in BOOLEAN : AnalysisEnds(r, i, reported) \/ ReportEnds(r, i, reported)

Clicks ==
  \/ Interact \/ ClearUploader \/ Back \/ QuickSave \/ AddCurrent \/ CloseOrReopen \/ Delete \/ Reload
  \/ \E u \in Uploads : Upload(u)
  \/ \E k \in 0 .. Len(session.paths) : Start(k)
  \/ \E k \in 0 .. Len(session.ids) : RerunReport(k)
  \/ \E c \in DOMAIN cases : Open(c)
  \/ \E a \in DOMAIN analyses : Load(a)

Workers == \E r \in DOMAIN runs : \E i \in DOMAIN runs[r].jobs : Works(r, i)

Next == Rerun \/ Tick \/ Clicks \/ Workers

Spec == Init /\ [][Next]_vars

(* A pass that is due runs, the fragment comes round, and a worker ends    *)
(* what it has begun (JobQueue has the conditions).                        *)
FairSpec == Spec /\ WF_vars(Rerun \/ Tick) /\ WF_vars(Workers)

-----------------------------------------------------------------------------
(* Properties.                                                             *)

(* The type invariant: rows refer to rows that exist.                      *)
TypeOK ==
  /\ cases \in Seq({"open", "in_progress", "closed", "deleted"})
  /\ \A a \in DOMAIN analyses :
       /\ analyses[a].case \in DOMAIN cases
       /\ analyses[a].of # {} /\ analyses[a].of \subseteq Captures
  /\ \A r \in DOMAIN runs :
       /\ runs[r].case \in DOMAIN cases
       /\ \A i \in DOMAIN runs[r].jobs :
            (runs[r].jobs[i] = "done") = (runs[r].results[i] \in DOMAIN analyses)
  /\ session.marker \in {0} \cup DOMAIN analyses
  /\ session.run \in {0} \cup DOMAIN runs
  /\ session.view = "detail" => session.selected \in DOMAIN cases
  /\ pass \in BOOLEAN

(* What the dashboard shows is the evidence of the analysis its marker     *)
(* names, or of the batch that one belongs to: a marker that names         *)
(* something else would keep the detail view from ever restoring its case. *)
MarkerHonest ==
  session.marker # 0 =>
    \/ session.features = DataOf(<<session.marker>>)
    \/ session.marker \in Range(session.ids) /\ session.features = DataOf(session.ids)

(* The report on display, and the report saved with an analysis, is about  *)
(* the captures displayed or saved with it, whatever was restored, saved   *)
(* or regenerated before.                                                  *)
ReportOfShown ==
  /\ session.report \subseteq session.features
  /\ \A a \in DOMAIN analyses : analyses[a].report \subseteq analyses[a].of

(* A report that is regenerated is about the captures on display, also     *)
(* after the display was saved under a new id (restored_analysis_ids keeps *)
(* the old ones).                                                          *)
RegeneratesShown == session.ids # <<>> => DataOf(session.ids) = session.features

(* Flow asymmetry and port anomalies shown are those of captures shown,    *)
(* but for a batch without any flow, which leaves what was there before.   *)
DerivedFromShown ==
  \/ session.derived \subseteq session.features
  \/ session.features \cap Flowing = {} /\ Len(session.ids) > 1

(* Features, marker, report and derived views on display are those of one  *)
(* analysis, or of one batch (main.py, cases_tab.py).                      *)
ShownIsOneAnalysis == TypeOK /\ MarkerHonest /\ ReportOfShown /\ RegeneratesShown /\ DerivedFromShown

(* Saving the display leaves nothing to restore: the detail view that      *)
(* follows must not replace live results by what was saved of them         *)
(* (TestDetailViewAutoRestoreGuard).                                       *)
SavingKeepsDisplay == [][(QuickSave \/ AddCurrent) => ~Outdated(session)']_vars

(* The session and its jobs move a case from "in progress" to "open" only  *)
(* when some run of it is complete, all of its files analysed.  An analyst *)
(* may set any status in the Edit Case form (cases_tab.py:711-722), which  *)
(* is a step of CaseBook and none of this module.                          *)
OpenedWhenComplete ==
  [][\A c \in DOMAIN cases :
       cases[c] = "in_progress" /\ cases'[c] = "open" =>
         \E r \in DOMAIN runs : runs[r].case = c /\ \A i \in DOMAIN runs[r].jobs : runs[r].jobs[i] = "done"]_vars

(* A case that is in progress has jobs: a run the queue refused altogether *)
(* leaves no case behind.                                                  *)
InProgressHasJobs ==
  \A c \in DOMAIN cases : cases[c] = "in_progress" => \E r \in DOMAIN runs : runs[r].case = c

(* A run the session is attached to reaches the display once all its jobs  *)
(* are done, unless one fails, or the analyst moves on to another run or   *)
(* deletes its case.                                                       *)
FinishedRunsShown ==
  \A r \in 1 .. MaxRuns :
    (r \in DOMAIN runs /\ session.run = r /\ ~Finished(r)) ~>
      \/ session.run # r \/ ~Found(r) \/ "failed" \in Range(runs[r].jobs)
      \/ Finished(r) /\ session.features = DataOf(runs[r].results)

(* A run of background jobs keeps its case in progress until all its jobs  *)
(* are done, and then reaches the display of a session that still follows  *)
(* it, which saving does not undo (background_analysis.py, cases_tab.py).  *)
RunsReachTheirCase == []InProgressHasJobs /\ OpenedWhenComplete /\ SavingKeepsDisplay /\ FinishedRunsShown

-----------------------------------------------------------------------------
(***************************************************************************)
(* The inductive invariant behind ShownIsOneAnalysis.                      *)
(***************************************************************************)
CaseStatus  == {"open", "in_progress", "closed", "deleted"}
AnalysisRow == [case : Nat, of : SUBSET Captures, path : Captures, report : SUBSET Captures]
RunRow      == [case : Nat, kind : {"pcap", "report"}, of : Seq(Captures) \cup Seq(Nat),
                jobs : Seq({"active", "done", "failed"}), results : Seq(Nat)]
SessionState ==
  [paths : Seq(Captures), uploader : Seq(Captures), features : SUBSET Captures, report : SUBSET Captures,
   derived : SUBSET Captures, marker : Nat, ids : Seq(Nat), view : {"list", "detail"}, selected : Nat,
   run : Nat, loaded : BOOLEAN]

(* What refers to a row refers to one of those there are: A analyses, C    *)
(* cases, R runs.                                                          *)
AnalysisOK(a, C) == a.case \in 1..C /\ a.of # {} /\ a.report \subseteq a.of

RunOK(r, A, C) ==
  /\ r.case \in 1..C
  /\ r.jobs # <<>> /\ Len(r.of) = Len(r.jobs) /\ Len(r.results) = Len(r.jobs)
  /\ \A i \in 1..Len(r.jobs) :
       /\ r.of[i] \in IF r.kind = "pcap" THEN Captures ELSE 1..A
       /\ r.results[i] \in IF r.jobs[i] = "done" THEN 1..A ELSE {0}

RowsOK ==
  /\ cases \in Seq(CaseStatus) /\ analyses \in Seq(AnalysisRow) /\ runs \in Seq(RunRow)
  /\ \A a \in 1..Len(analyses) : AnalysisOK(analyses[a], Len(cases))
  /\ \A r \in 1..Len(runs) : RunOK(runs[r], Len(analyses), Len(cases))

DataIn(rs, as) == UNION {rs[as[i]].of : i \in 1..Len(as)}

(* A session with data on display has a source to start from or to save    *)
(* under; what it shows is bound to its marker and ids as the properties   *)
(* say.                                                                    *)
SessionOK(s, rs, C, R) ==
  /\ s \in SessionState
  /\ s.marker \in 0..Len(rs) /\ s.run \in 0..R
  /\ s.view = "detail" => s.selected \in 1..C
  /\ \A i \in 1..Len(s.ids) : s.ids[i] \in 1..Len(rs)
  /\ s.features # {} => s.paths # <<>>
  /\ s.report \subseteq s.features
  /\ s.ids # <<>> => DataIn(rs, s.ids) = s.features
  /\ \/ s.marker = 0 \/ s.features = rs[s.marker].of
     \/ s.ids # <<>> /\ \E i \in 1..Len(s.ids) : s.marker = s.ids[i]
  /\ \/ s.derived \subseteq s.features
     \/ s.features \cap Flowing = {} /\ Len(s.ids) > 1

WorkbenchInv ==
  RowsOK /\ InProgressHasJobs /\ pass \in BOOLEAN /\ SessionOK(session, analyses, Len(cases), Len(runs))
=============================================================================
