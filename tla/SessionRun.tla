----------------------------- MODULE SessionRun -----------------------------
(***************************************************************************)
(* The run a Streamlit session does itself: app/main.py when `run_active`  *)
(* is set and the session has no background run, with the trackers of      *)
(* app/pipeline/state.py.                                                  *)
(*                                                                         *)
(* A pass is one execution of the page's script.  Streamlit ends a pass    *)
(* for the next one wherever the script touches the page or the session:   *)
(* a click falls between two steps here, its callback runs first in the    *)
(* new pass, and the run, still active, begins again from its first file.  *)
(* What a pass left in the session stays there.                            *)
(*                                                                         *)
(* A stage is one step: the threads of the runner's stages (PipelineRun)   *)
(* do not end a pass, and main waits for them.                             *)
(***************************************************************************)
EXTENDS Naturals, Sequences, FiniteSets

CONSTANTS
  Captured,   \* the lists of captures a user may choose
  Pipelines,  \* the phases the settings enable, in the order they start
  MaxClicks   \* bound on what the user does

PhaseNames == {"count", "parse", "zeek", "dns", "tls", "beacon", "carve", "yara", "osint"}
OnData     == {"dns", "tls", "beacon"}   \* started only if there is input

Files == UNION {{c[i] : i \in DOMAIN c} : c \in Captured}

ASSUME SessionAssumption ==
  /\ <<>> \in Captured /\ Captured \subseteq Seq(Files)
  /\ \A p \in Pipelines : p \in Seq(PhaseNames) /\ p # <<>>
  /\ MaxClicks \in Nat

VARIABLES
  source,     \* __pcap_paths
  pipeline,   \* the phases enabled now
  active,     \* run_active
  background, \* whether the session has a background run
  skip, done, \* the skip_ and done_ flags
  step,       \* where the pass is
  pass,       \* number of the pass
  left,       \* captures not processed yet
  ahead,      \* phases of the current one not processed yet
  buttons,    \* the Skip buttons of the page
  got,        \* what the phases of the current capture gave
  results,    \* PCAPResult of each capture
  overall,    \* done_phases of the tracker
  shown,      \* what the tabs show: the pass each part is from
  text,       \* the report of this pass
  report, llmStatus,
  late,       \* history: a click between the report's end and the run's
  clicks

flags       == <<skip, done>>
work        == <<left, ahead, got, results>>
sessionVars ==
  <<source, pipeline, active, background, flags, step, pass, work, buttons, overall, shown,
    text, report, llmStatus, late, clicks>>

Parts   == {"osint", "names", "correlations", "views", "attack", "yara"}
Nothing == [features |-> 0, evidence |-> {}, part |-> [x \in Parts |-> 0]]

SessionInit ==
  /\ source \in Captured /\ pipeline \in Pipelines
  /\ active = FALSE /\ background = FALSE
  /\ skip = {} /\ done = {}
  /\ step = "idle" /\ pass = 0
  /\ left = <<>> /\ ahead = <<>> /\ got = {} /\ results = <<>>
  /\ buttons = {} /\ overall = 0
  /\ shown = Nothing
  /\ text = 0 /\ report = 0 /\ llmStatus = "none"
  /\ late = FALSE
  /\ clicks = 0

-----------------------------------------------------------------------------

(* The script runs again.  A run without a capture dies of a TypeError in  *)
(* every pass, outside of the tabs' own error handling.                    *)
Rerun ==
  /\ step' = IF active' /\ ~background' /\ source' # <<>> THEN "files" ELSE "idle"
  /\ pass' = pass + 1
  /\ left' = source' /\ ahead' = pipeline'
  /\ got' = {} /\ results' = <<>>
  /\ buttons' = {} /\ overall' = 0 /\ text' = 0

(* What a session with a background run does is Workbench's.               *)
UserActs ==
  /\ ~background
  /\ clicks < MaxClicks /\ clicks' = clicks + 1
  /\ late' = (late \/ step \in {"report", "end"})
  /\ UNCHANGED shown

(* Any widget, the uploader and the settings among them.  A session keeps  *)
(* its last captures when the uploader is emptied.                         *)
Change ==
  /\ UserActs
  /\ source' \in {source} \cup (Captured \ {<<>>}) /\ pipeline' \in Pipelines
  /\ source = source' \/ pipeline = pipeline'
  /\ UNCHANGED <<active, background, flags, report, llmStatus>>
  /\ Rerun

(* The callback of next_phase()'s button.                                  *)
Skip(p) ==
  /\ UserActs
  /\ p \in buttons /\ skip' = skip \cup {p}
  /\ UNCHANGED <<source, pipeline, active, background, done, report, llmStatus>>
  /\ Rerun

(* Re-run Report, in a session that has restored no analysis: the flags of *)
(* the report are cleared, those of the other phases are not.              *)
ReRunReport ==
  /\ UserActs
  /\ active' = TRUE
  /\ skip' = skip \ {"llm"} /\ done' = done \ {"llm"}
  /\ report' = 0 /\ llmStatus' = "none"
  /\ UNCHANGED <<source, pipeline, background>>
  /\ Rerun

(* Extract & Analyze: a background run takes the place of this one, for    *)
(* the rest of the session.                                                *)
Extract ==
  /\ UserActs
  /\ source # <<>>
  /\ active' = FALSE /\ background' = TRUE
  /\ UNCHANGED <<source, pipeline, flags, report, llmStatus>>
  /\ Rerun

-----------------------------------------------------------------------------

(* PhaseHandle.done(): the stage and the runner both call it.  A flag left *)
(* by an earlier pass or capture keeps the phase from being counted.       *)
CountedIn(p) == overall' = overall + IF p \in done THEN 0 ELSE 1

(* The handles the runner gets swallow what the page raises in them: then  *)
(* the phase is neither flagged nor counted, and the stage goes on.        *)
Unreported(p) == p \notin {"yara", "osint"} /\ UNCHANGED <<done, overall>>

(* Each capture of a batch has a tracker of its own.                       *)
NewTracker == overall' = 0

NextCapture(result) ==
  /\ results' = Append(results, result)
  /\ left' = Tail(left) /\ ahead' = pipeline
  /\ got' = {}
  /\ step' = IF Len(left) = 1 THEN "features" ELSE "files"

Failed == [file |-> Head(left), ok |-> FALSE, gave |-> {}]

(* _run_single_pcap_pipeline() stops at the first exception.               *)
(* The button of a phase has one key, which a pass may use only once: each *)
(* capture of a batch fails at the first phase an earlier one has begun.   *)
PhaseFails ==
  /\ step = "files" /\ ahead # <<>>
  /\ NextCapture(Failed)
  /\ buttons' = buttons \cup {Head(ahead)}
  /\ NewTracker
  /\ UNCHANGED <<source, pipeline, active, background, flags, pass, shown, text, report, llmStatus, late, clicks>>

(* A skipped phase returns at once, and what it would give is empty.  YARA *)
(* matches go to the session without waiting for the rest.                 *)
PhaseEnds ==
  /\ step = "files" /\ ahead # <<>> /\ Head(ahead) \notin buttons
  /\ LET p == Head(ahead) IN
       /\ buttons' = buttons \cup {p}
       /\ \/ done' = done \cup {p} /\ CountedIn(p)
          \/ Unreported(p)
       /\ got' = IF p \in skip THEN got ELSE got \cup {p}
       /\ shown' = IF p = "yara" THEN [shown EXCEPT !.part["yara"] = pass] ELSE shown
  /\ ahead' = Tail(ahead)
  /\ UNCHANGED <<source, pipeline, active, background, skip, step, pass, left, results, text,
                 report, llmStatus, late, clicks>>

PhaseHasNoInput ==
  /\ step = "files" /\ ahead # <<>> /\ Head(ahead) \in OnData
  /\ ahead' = Tail(ahead)
  /\ UNCHANGED <<source, pipeline, active, background, flags, step, pass, left, got, results, buttons,
                 overall, shown, text, report, llmStatus, late, clicks>>

CaptureEnds ==
  /\ step = "files" /\ ahead = <<>>
  /\ NextCapture([file |-> Head(left), ok |-> TRUE, gave |-> got])
  /\ NewTracker
  /\ UNCHANGED <<source, pipeline, active, background, flags, pass, buttons, shown, text, report, llmStatus,
                 late, clicks>>

-----------------------------------------------------------------------------
(* What the pass found: that of its captures that did not fail.            *)
Found ==
  UNION {{<<results[i].file, p>> : p \in results[i].gave} : i \in {j \in DOMAIN results : results[j].ok}}

Put(x, n) == shown' = [shown EXCEPT !.part[x] = n]

(* One assignment to the session after the other.                          *)
StoreFeatures ==
  /\ step = "features"
  /\ shown' = [shown EXCEPT !.features = pass, !.evidence = Found]
  /\ step' = "osint"

StoreOsint == step = "osint" /\ Put("osint", pass) /\ step' = "names"

(* Mutant: the names of an earlier pass are kept, as its views are.        *)
NamesKept == step = "names" /\ UNCHANGED shown /\ step' = "correlations"

StoreNames == step = "names" /\ Put("names", pass) /\ step' = "correlations"

(* An exception leaves the correlations and the flow views of an earlier   *)
(* pass, and so does a capture without flows leave the views.              *)
Correlate ==
  /\ step = "correlations"
  /\ \/ Put("correlations", pass) /\ step' = "views"
     \/ UNCHANGED shown /\ step' = "attack"

StoreViews ==
  /\ step = "views"
  /\ Put("views", pass) \/ UNCHANGED shown
  /\ step' = "attack"

(* A mapping that fails is taken down.                                     *)
MapAttack ==
  /\ step = "attack"
  /\ \E n \in {0, pass} : Put("attack", n)
  /\ step' = "llm"

Store ==
  /\ StoreFeatures \/ StoreOsint \/ StoreNames \/ Correlate \/ StoreViews \/ MapAttack
  /\ UNCHANGED <<source, pipeline, active, background, flags, pass, work, buttons, overall, text, report,
                 llmStatus, late, clicks>>

-----------------------------------------------------------------------------
(* A report that exists is kept; a skipped one is none; a call that fails  *)
(* leaves a notice in its place, and one may come back empty.              *)
WriteText ==
  /\ step = "llm"
  /\ buttons' = buttons \cup {"llm"}
  /\ \/ /\ "llm" \in done
        /\ text' = report
        /\ UNCHANGED <<done, llmStatus>>
     \/ /\ "llm" \notin done /\ "llm" \in skip
        /\ text' = 0 /\ llmStatus' = "skipped"
        /\ done' = done \cup {"llm"}
     \/ /\ "llm" \notin done /\ "llm" \notin skip
        /\ text' \in {0, pass}
        /\ llmStatus' = IF text' = 0 THEN llmStatus ELSE "generated"
        /\ done' = done \cup {"llm"}
  /\ step' = "report"
  /\ UNCHANGED <<source, pipeline, active, background, skip, pass, work, overall, shown, report, late, clicks>>

StoreReport ==
  /\ step = "report"
  /\ report' = text
  /\ step' = "end"
  /\ UNCHANGED <<source, pipeline, active, background, flags, pass, work, buttons, overall, shown, text,
                 llmStatus, late, clicks>>

(* end_run()                                                               *)
Ended == active' = FALSE

EndRun ==
  /\ step = "end"
  /\ Ended
  /\ step' = "idle"
  /\ UNCHANGED <<source, pipeline, background, flags, pass, work, buttons, overall, shown, text, report,
                 llmStatus, late, clicks>>

ScriptStep ==
  \/ PhaseFails \/ PhaseEnds \/ PhaseHasNoInput \/ CaptureEnds
  \/ Store \/ WriteText \/ StoreReport \/ EndRun

UserStep == Change \/ ReRunReport \/ Extract \/ \E p \in buttons : Skip(p)

SessionNext == ScriptStep \/ UserStep

SessionSpec == SessionInit /\ [][SessionNext]_sessionVars /\ WF_sessionVars(ScriptStep)

-----------------------------------------------------------------------------
Steps ==
  {"idle", "files", "features", "osint", "names", "correlations", "views", "attack", "llm",
   "report", "end"}

SessionTypeOK ==
  /\ source \in Captured /\ pipeline \in Pipelines
  /\ {active, background, late} \subseteq BOOLEAN
  /\ skip \cup done \cup buttons \subseteq PhaseNames \cup {"llm"}
  /\ step \in Steps /\ clicks \in 0..MaxClicks /\ pass \in 0..clicks
  /\ Len(left) + Len(results) <= Len(source) /\ Len(ahead) <= Len(pipeline)
  /\ got \subseteq PhaseNames /\ overall \in Nat
  /\ shown.features \in 0..pass /\ shown.part \in [Parts -> 0..pass]
  /\ text \in 0..pass /\ report \in 0..pass /\ llmStatus \in {"none", "skipped", "generated"}

(* A pass whose evidence is complete in the session, until something else  *)
(* is begun.                                                               *)
Whole ==
  \/ step \in {"llm", "report", "end"}
  \/ step = "idle" /\ ~active /\ ~background

(* However often clicks cut passes short, what a run that is over shows is *)
(* of one pass: features, indicators, names (of hosts and of JA3 clients)  *)
(* and technique map.  Correlations and flow views may be older, for they are  *)
(* kept when they fail; YARA matches only if that pass had no YARA phase   *)
(* or did not get to it.                                                   *)
ShownOfOnePass ==
  Whole =>
    /\ \A x \in {"osint", "names"} : shown.part[x] = shown.features
    /\ shown.part["attack"] \in {0, shown.features}
    /\ (\E e \in shown.evidence : e[2] = "yara") => shown.part["yara"] = shown.features

(* A phase the user skips while a run is under way, even after it has      *)
(* ended, gives nothing to what the run shows.                             *)
SkipsHonoured ==
  step \in {"llm", "report", "end"} => \A e \in shown.evidence : e[2] \notin skip

(* The overall progress counts no phase twice, though stage and runner     *)
(* both end it, nor one that was not begun in this pass.                   *)
OverallWithin == overall <= Cardinality(buttons) /\ overall <= Len(pipeline)

(* A run that is over shows a report on the evidence it shows, or none;    *)
(* and it has one if it says so.  Only a click between the moment the      *)
(* report counts as done and the end of the run may lose or outdate it.    *)
ReportOnShown ==
  step = "idle" /\ ~active /\ ~background /\ ~late =>
    /\ report \in {0, shown.features}
    /\ llmStatus = "generated" => report # 0

(* What a run in the session shows when it is over is what one pass of it  *)
(* found, with the phases skipped left out and a report on nothing else    *)
(* (main.py, state.py).                                                    *)
SessionShowsOneRun == SessionTypeOK /\ ShownOfOnePass /\ SkipsHonoured /\ OverallWithin /\ ReportOnShown

(* A run that has a capture ends, or gives way to a background run.        *)
SessionRunEnds == (active /\ source # <<>>) ~> (~active \/ background \/ source = <<>>)

-----------------------------------------------------------------------------
(***************************************************************************)
(* The inductive invariant behind SessionShowsOneRun.                      *)
(***************************************************************************)
Results == [file : Files, ok : BOOLEAN, gave : SUBSET PhaseNames]

AfterNames    == {"correlations", "views", "attack", "llm", "report", "end"}
AfterOsint    == {"names"} \cup AfterNames
AfterFeatures == {"osint"} \cup AfterOsint

SessionTyped ==
  /\ SessionTypeOK
  /\ left \in Seq(Files) /\ ahead \in Seq(PhaseNames) /\ results \in Seq(Results)
  /\ shown \in [features : Nat, evidence : SUBSET (Files \X PhaseNames), part : [Parts -> Nat]]
  /\ step = "files" => left # <<>>
  /\ step # "idle" => active /\ ~background

(* Of its phases a pass counts those it has begun and has not before it.   *)
PhasesCounted == overall <= Cardinality(buttons) /\ overall + Len(ahead) <= Len(pipeline)

(* What this pass found so far.                                            *)
Given == got \cup UNION {results[i].gave : i \in DOMAIN results}

GivenFresh == Given \cap skip = {} /\ ("yara" \in Given => shown.part["yara"] = pass)

(* What is shown is replaced piece by piece.                               *)
ShownSoFar ==
  /\ step \in AfterFeatures =>
       shown.features = pass /\ \A e \in shown.evidence : e[2] \notin skip /\ (e[2] = "yara" => shown.part["yara"] = pass)
  /\ step \in AfterOsint => shown.part["osint"] = pass
  /\ step \in AfterNames => shown.part["names"] = pass
  /\ step \in {"llm", "report", "end"} => shown.part["attack"] \in {0, pass}

(* A run begins without a report; at its end there is one of this pass or  *)
(* none.                                                                   *)
ReportSoFar ==
  ~late =>
    /\ active /\ step \notin {"report", "end"} => "llm" \notin done /\ llmStatus # "generated" /\ report = 0
    /\ step = "report" => text \in {0, pass} /\ (llmStatus = "generated" => text # 0)
    /\ step = "end" => report \in {0, pass} /\ (llmStatus = "generated" => report # 0)

SessionInv ==
  SessionTyped /\ PhasesCounted /\ GivenFresh /\ ShownSoFar /\ ReportSoFar /\ ShownOfOnePass /\ ReportOnShown
=============================================================================
