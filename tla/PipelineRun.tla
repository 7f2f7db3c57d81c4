---------------------------- MODULE PipelineRun ----------------------------
(***************************************************************************)
(* One pcap job: run_pipeline() of app/pipeline/runner.py with its stage   *)
(* threads, the progress handles of pipeline/progress.py, the carving      *)
(* child and its watchdog, and the stages of api/queue.py that follow.     *)
(*                                                                         *)
(* Every progress event and heartbeat is a write to the job row.  It may   *)
(* raise in whatever thread reports it: a fault.  A stage that fails on    *)
(* its own is no fault; it may happen whenever the code provides for it.   *)
(* Main runs between joins, so an action of main is all it does up to the  *)
(* next one; an action of a stage thread is what it does between two       *)
(* writes that others can observe.                                         *)
(***************************************************************************)
EXTENDS Naturals, Sequences, FiniteSets

CONSTANTS
  Options,        \* PipelineOptions and worker options a job may come with
  Captures,       \* what captures hold: flows, zeek logs, HTTP bodies
  ToolSets,       \* the programs a host may have
  MaxFaults       \* bound on failing writes

Parsers   == {"pyshark", "zeek"}
Analyses  == {"dns", "tls", "beacon", "carve"}
Threads   == Parsers \cup Analyses
Stages    == Threads \cup {"count", "yara", "yara_skipped", "osint", "llm"}
OptionNames == {"count", "pyshark", "zeek", "carve", "yara", "osint", "keys", "llm"}

ASSUME RunAssumption ==
  /\ \A o \in Options : o \in [OptionNames -> BOOLEAN]
  /\ Captures \subseteq [flows : BOOLEAN, logs : BOOLEAN, bodies : BOOLEAN]
  /\ ToolSets \subseteq SUBSET {"tshark", "zeek"}
  /\ MaxFaults \in Nat

VARIABLES
  opts, capture, tools,
  main,       \* where the worker is
  thread,     \* the stage threads
  closed,     \* phases whose handle is done (_CallbackPhaseHandle._done)
  counted,    \* progress_done of the row
  features,   \* parsed features: any flows, and whether they are lists yet
  draft,      \* what the parser is about to return
  tables,     \* whether zeek_tables has any
  outcomes,   \* what the analyses left for main
  child, timer, \* the carving tshark and its watchdog
  stagesRun, warnings,
  faults

input   == <<opts, capture, tools>>
carving == <<child, timer>>
parsing == <<features, draft, tables>>
lists   == <<stagesRun, warnings>>
vars    == <<input, main, thread, closed, counted, parsing, outcomes, carving, lists, faults>>

NoFlows == [flows |-> FALSE, sets |-> FALSE]

Init ==
  /\ opts \in Options /\ capture \in Captures /\ tools \in ToolSets
  /\ main = "count"
  /\ thread = [s \in Threads |-> "none"]
  /\ closed = {} /\ counted = 0
  /\ features = NoFlows /\ draft = NoFlows /\ tables = FALSE
  /\ outcomes = [s \in Analyses |-> "none"]
  /\ child = "none" /\ timer = "off"
  /\ stagesRun = <<>> /\ warnings = <<>>
  /\ faults = 0

-----------------------------------------------------------------------------
Raises      == faults < MaxFaults /\ faults' = faults + 1
Main(pc)    == main' = pc
Go(s, pc)   == thread' = [thread EXCEPT ![s] = pc]
Ran(s)      == stagesRun' = Append(stagesRun, s)
Warn(w)     == warnings' = Append(warnings, w)

(* PhaseHandle.done: reports once, though the stage and the runner call it.*)
(* The row counts up to its total of ten.                                  *)
CountedOnce(s) == counted' = IF s \in closed \/ counted = 10 THEN counted ELSE counted + 1

Done(s) == closed' = closed \cup {s} /\ CountedOnce(s) /\ UNCHANGED faults

(* The handle is done even if its report raises.                           *)
DoneRaises(s) == s \notin closed /\ closed' = closed \cup {s} /\ UNCHANGED counted /\ Raises

(* Stage 1.  The row is lost with the job when a write raises, so what was *)
(* reported before does not matter.                                        *)
CountPackets ==
  /\ main = "count"
  /\ \/ /\ ~opts["count"]
        /\ Main("open")
        /\ UNCHANGED <<closed, counted, lists, faults>>
     \/ /\ opts["count"]
        /\ Main("open") /\ Done("count")
        /\ \/ Ran("count") /\ UNCHANGED warnings
           \/ Warn("count") /\ UNCHANGED stagesRun
     \/ /\ opts["count"] /\ Raises
        /\ Main("failed")
        /\ UNCHANGED <<closed, counted, lists>>
  /\ UNCHANGED <<input, thread, parsing, outcomes, carving>>

(* Handles are made by main, then the threads start together.              *)
Start(S, from, to, else) ==
  /\ main = from
  /\ \/ /\ Main(IF S = {} THEN else ELSE to)
        /\ thread' = [s \in Threads |-> IF s \in S THEN "run" ELSE thread[s]]
        /\ UNCHANGED faults
     \/ /\ S # {} /\ Raises
        /\ Main("failed")
        /\ UNCHANGED thread
  /\ UNCHANGED <<input, closed, counted, parsing, outcomes, carving, lists>>

StartParsers == Start({s \in Parsers : opts[s]}, "open", "parsing", "fan")

-----------------------------------------------------------------------------
(* parse_pcap_pyshark().  Without tshark it returns at once, and the       *)
(* artifacts are still sets.  A write that raises inside the loop is       *)
(* logged, and what was read so far counts as all there is.  (The loop has *)
(* no time limit and reads the child's errors only afterwards: a tshark    *)
(* that stops without ending would keep the job for good, and is left out.)*)
ParserReads ==
  /\ thread["pyshark"] = "run"
  /\ \/ /\ "tshark" \notin tools
        /\ features' = [flows |-> FALSE, sets |-> TRUE]
        /\ Go("pyshark", "record")
        /\ UNCHANGED <<draft, faults>>
     \/ /\ "tshark" \in tools
        /\ \/ draft' = [NoFlows EXCEPT !.flows = capture.flows] /\ UNCHANGED faults
           \/ /\ Raises
              /\ \E some \in BOOLEAN : draft' = [NoFlows EXCEPT !.flows = some /\ capture.flows]
        /\ Go("pyshark", "close")
        /\ UNCHANGED features
  /\ UNCHANGED <<input, main, closed, counted, tables, outcomes, carving, lists>>

ParserCloses ==
  /\ thread["pyshark"] = "close"
  /\ \/ Done("pyshark") /\ features' = draft /\ Go("pyshark", "record") /\ UNCHANGED warnings
     \/ DoneRaises("pyshark") /\ Warn("pyshark") /\ Go("pyshark", "ended") /\ UNCHANGED features
  /\ UNCHANGED <<input, main, draft, tables, outcomes, carving, stagesRun>>

(* _run_pyshark() after the parse                                          *)
ParserRecords ==
  /\ thread["pyshark"] = "record"
  /\ IF features.flows THEN UNCHANGED warnings ELSE Warn("no_data")
  /\ Ran("pyshark")
  /\ Go("pyshark", "finish")
  /\ UNCHANGED <<input, main, closed, counted, parsing, outcomes, carving, faults>>

ParserFinishes ==
  /\ thread["pyshark"] = "finish"
  /\ \/ Done("pyshark") /\ UNCHANGED warnings
     \/ DoneRaises("pyshark") /\ Warn("pyshark")
  /\ Go("pyshark", "ended")
  /\ UNCHANGED <<input, main, parsing, outcomes, carving, stagesRun>>

-----------------------------------------------------------------------------
(* run_zeek() and _run_zeek()                                              *)

ZeekFails == Go("zeek", "finish") /\ Warn("zeek")

ZeekRuns ==
  /\ thread["zeek"] = "run"
  /\ \/ ZeekFails /\ UNCHANGED faults
     \/ ZeekFails /\ Raises
     \/ "zeek" \in tools /\ Go("zeek", "close") /\ UNCHANGED <<warnings, faults>>
  /\ UNCHANGED <<input, main, closed, counted, parsing, outcomes, carving, stagesRun>>

ZeekCloses ==
  /\ thread["zeek"] = "close"
  /\ \/ Done("zeek") /\ Go("zeek", "record") /\ UNCHANGED warnings
     \/ DoneRaises("zeek") /\ ZeekFails
  /\ UNCHANGED <<input, main, parsing, outcomes, carving, stagesRun>>

ZeekRecords ==
  /\ thread["zeek"] = "record"
  /\ IF capture.logs THEN Ran("zeek") /\ UNCHANGED warnings
                     ELSE Warn("no_logs") /\ UNCHANGED stagesRun
  /\ tables' = capture.logs
  /\ Go("zeek", "finish")
  /\ UNCHANGED <<input, main, closed, counted, features, draft, outcomes, carving, faults>>

(* Nothing catches the last report of a thread.                            *)
ZeekFinishes ==
  /\ thread["zeek"] = "finish"
  /\ \/ Done("zeek") /\ Go("zeek", "ended")
     \/ DoneRaises("zeek") /\ Go("zeek", "raised")
  /\ UNCHANGED <<input, main, parsing, outcomes, carving, lists>>

-----------------------------------------------------------------------------
(* Leaving a pool waits for its threads; the first exception is re-raised. *)

Joined(S) == \A s \in S : thread[s] \in {"none", "ended", "raised"}

Join(S, from, to) ==
  /\ main = from /\ Joined(S)
  /\ \/ Main(to) /\ (\A s \in S : thread[s] # "raised") /\ UNCHANGED faults
     \/ Main("failed") /\ (\E s \in S : thread[s] = "raised") /\ UNCHANGED faults
     \/ Main("failed") /\ Raises
  /\ UNCHANGED <<input, thread, closed, counted, parsing, outcomes, carving, lists>>

JoinParsers == Join(Parsers, "parsing", "fan")

StartAnalyses ==
  Start({s \in Analyses : CASE s \in {"dns", "tls"} -> tables
                            [] s = "beacon"         -> features.flows
                            [] s = "carve"          -> opts["carve"]},
        "fan", "analysing", "assemble")

JoinAnalyses == Join(Analyses, "analysing", "assemble")

-----------------------------------------------------------------------------

(* A worker writes only its own entry of outcomes.                         *)
Leave(s, what) == outcomes' = [outcomes EXCEPT ![s] = what] /\ UNCHANGED lists

(* Mutant: the failure is logged and leaves no outcome.                    *)
FailQuietly(s) == UNCHANGED <<outcomes, lists>>

Fail(s) == Leave(s, "warning")

(* analyze_dns() and analyze_certificates() report their end themselves.   *)
(* A certificate extraction cut by its watchdog counts as one without any. *)
Analyse(s) ==
  /\ s \in {"dns", "tls"} /\ thread[s] = "run"
  /\ \/ Done(s) /\ Leave(s, "result") /\ Go(s, "ended")
     \/ DoneRaises(s) /\ Fail(s) /\ Go(s, "ended")
     \/ Fail(s) /\ Go(s, "finish") /\ UNCHANGED <<closed, counted, faults>>
     \/ Fail(s) /\ Go(s, "finish") /\ Raises /\ UNCHANGED <<closed, counted>>
  /\ UNCHANGED <<input, main, parsing, carving>>

RankBeacons ==
  /\ thread["beacon"] = "run"
  /\ \/ Leave("beacon", "result") /\ UNCHANGED faults
     \/ Fail("beacon") /\ UNCHANGED faults
     \/ Fail("beacon") /\ Raises
  /\ Go("beacon", "finish")
  /\ UNCHANGED <<input, main, closed, counted, parsing, carving>>

(* The report of a success raises into the handler, which keeps the result *)
(* and finds the handle done; the report of a failure raises out of it.    *)
AnalysisFinishes(s) ==
  /\ thread[s] = "finish"
  /\ \/ Done(s) /\ Go(s, "ended")
     \/ DoneRaises(s) /\ Go(s, IF outcomes[s] = "result" THEN "ended" ELSE "raised")
  /\ UNCHANGED <<input, main, parsing, outcomes, carving, lists>>

-----------------------------------------------------------------------------
(* carve_http_payloads(): main reads the child's output under a watchdog.  *)

(* Mutant: the watchdog is made and not started.                           *)
ArmedNot == "off"

Armed == "armed"

CarveStarts ==
  /\ thread["carve"] = "run"
  /\ \/ /\ "tshark" \notin tools
        /\ Done("carve") \/ DoneRaises("carve")
        /\ Fail("carve") /\ Go("carve", "ended")
        /\ UNCHANGED carving
     \/ /\ "tshark" \in tools
        /\ Raises /\ Fail("carve") /\ Go("carve", "finish")
        /\ UNCHANGED <<carving, closed, counted>>
     \/ /\ "tshark" \in tools
        /\ child' = "running" /\ timer' = Armed /\ Go("carve", "read")
        /\ UNCHANGED <<closed, counted, outcomes, lists, faults>>
  /\ UNCHANGED <<input, main, parsing>>

ChildExits ==
  /\ child = "running"
  /\ child' = "exited"
  /\ UNCHANGED <<input, main, thread, closed, counted, parsing, outcomes, timer, lists, faults>>

(* _kill(): the mark first, then the child.                                *)
WatchdogFires ==
  /\ timer = "armed"
  /\ timer' = "fired"
  /\ UNCHANGED <<input, main, thread, closed, counted, parsing, outcomes, child, lists, faults>>

WatchdogKills ==
  /\ timer = "fired" /\ child = "running"
  /\ child' = "killed"
  /\ UNCHANGED <<input, main, thread, closed, counted, parsing, outcomes, timer, lists, faults>>

Cancelled == IF timer = "armed" THEN "off" ELSE timer

(* A report raises while bodies are read: the child is killed and reaped.  *)
CarveRaises ==
  /\ thread["carve"] = "read"
  /\ Raises
  /\ child' = IF child = "running" THEN "killed" ELSE child
  /\ timer' = Cancelled
  /\ Fail("carve") /\ Go("carve", "finish")
  /\ UNCHANGED <<input, main, closed, counted, parsing>>

(* End of output, wait(), cancel().                                        *)
CarveReaps ==
  /\ thread["carve"] = "read" /\ child # "running"
  /\ timer' = Cancelled
  /\ Go("carve", "check")
  /\ UNCHANGED <<input, main, closed, counted, parsing, outcomes, child, lists, faults>>

CarveChecks ==
  /\ thread["carve"] = "check"
  /\ \/ Done("carve") /\ IF timer = "fired" THEN Fail("carve") ELSE Leave("carve", "result")
     \/ DoneRaises("carve") /\ Fail("carve")
  /\ Go("carve", "ended")
  /\ UNCHANGED <<input, main, parsing, carving>>

-----------------------------------------------------------------------------
Carved == outcomes["carve"] = "result" /\ capture.bodies

(* The analyses with such an outcome, in canonical order.                  *)
AddIf(list, s, what) == IF outcomes[s] = what THEN Append(list, s) ELSE list

AddAll(list, what) ==
  AddIf(AddIf(AddIf(AddIf(list, "dns", what), "tls", what), "beacon", what), "carve", what)

(* After the join, in canonical order.  Hashes of carved bodies are added  *)
(* to a list; there is none if the artifacts are still sets.               *)
Assemble ==
  /\ main = "assemble"
  /\ IF Carved /\ features.sets
     THEN Main("failed") /\ UNCHANGED lists
     ELSE /\ Main("yara")
          /\ stagesRun' = AddAll(stagesRun, "result")
          /\ warnings' = AddAll(warnings, "warning")
  /\ UNCHANGED <<input, thread, closed, counted, parsing, outcomes, carving, faults>>

(* _run_yara_stage, _run_osint_stage, _run_llm_stage                       *)
Worker(from, to) ==
  /\ main = from
  /\ \/ Main(to) /\ UNCHANGED faults
     \/ Main("failed") /\ Raises
  /\ UNCHANGED <<input, thread, parsing, outcomes, carving>>

ScanYara ==
  /\ Worker("yara", "osint")
  /\ closed' = closed \cup {"yara"} /\ CountedOnce("yara")
  /\ \/ opts["yara"] /\ Carved /\ Ran("yara") /\ UNCHANGED warnings
     \/ opts["yara"] /\ Carved /\ Warn("yara") /\ UNCHANGED stagesRun
     \/ ~(opts["yara"] /\ Carved) /\ Ran("yara_skipped") /\ UNCHANGED warnings

EnrichOsint ==
  /\ Worker("osint", "llm")
  /\ \/ ~opts["osint"] /\ UNCHANGED <<closed, counted, lists>>
     \/ /\ opts["osint"]
        /\ closed' = closed \cup {"osint"} /\ CountedOnce("osint")
        /\ \/ opts["keys"] /\ Ran("osint") /\ UNCHANGED warnings
           \/ Warn("osint") /\ UNCHANGED stagesRun

(* A report may come back empty, which is neither a success nor a failure. *)
WriteReport ==
  /\ Worker("llm", "persist")
  /\ \/ ~opts["llm"] /\ UNCHANGED <<closed, counted, lists>>
     \/ /\ opts["llm"]
        /\ closed' = closed \cup {"llm"} /\ CountedOnce("llm")
        /\ \/ opts["keys"] /\ Ran("llm") /\ UNCHANGED warnings
           \/ opts["keys"] /\ UNCHANGED lists
           \/ Warn("llm") /\ UNCHANGED stagesRun

(* _persist_analysis: sets are no JSON.                                    *)
Persist ==
  /\ main = "persist"
  /\ \/ ~features.sets /\ Main("complete") /\ UNCHANGED <<warnings, faults>>
     \/ features.sets /\ Main("failed") /\ Warn("persistence") /\ UNCHANGED faults
     \/ Raises /\ Main("failed") /\ Warn("persistence")
  /\ UNCHANGED <<input, thread, closed, counted, parsing, outcomes, carving, stagesRun>>

(* complete_job sets progress_done to the total.                           *)
Complete ==
  /\ main = "complete"
  /\ \/ Main("done") /\ UNCHANGED faults
     \/ Main("failed") /\ Raises
  /\ UNCHANGED <<input, thread, closed, counted, parsing, outcomes, carving, lists>>

MainStep ==
  \/ CountPackets \/ StartParsers \/ JoinParsers \/ StartAnalyses \/ JoinAnalyses
  \/ Assemble \/ ScanYara \/ EnrichOsint \/ WriteReport \/ Persist \/ Complete

ThreadStep(s) ==
  \/ s = "pyshark" /\ (ParserReads \/ ParserCloses \/ ParserRecords \/ ParserFinishes)
  \/ s = "zeek" /\ (ZeekRuns \/ ZeekCloses \/ ZeekRecords \/ ZeekFinishes)
  \/ s = "beacon" /\ RankBeacons
  \/ s = "carve" /\ (CarveStarts \/ CarveRaises \/ CarveReaps \/ CarveChecks)
  \/ s \in Analyses /\ (Analyse(s) \/ AnalysisFinishes(s))

Watchdog == WatchdogFires \/ WatchdogKills

Next ==
  \/ MainStep
  \/ \E s \in Threads : ThreadStep(s)
  \/ Watchdog \/ ChildExits

Spec == Init /\ [][Next]_vars

(* Threads run and timers fire; a child need not exit.                     *)
Fairness ==
  /\ WF_vars(MainStep) /\ WF_vars(Watchdog)
  /\ \A s \in Threads : WF_vars(ThreadStep(s))

FairSpec == Spec /\ Fairness

-----------------------------------------------------------------------------
MainPcs   == {"count", "open", "parsing", "fan", "analysing", "assemble", "yara", "osint", "llm",
              "persist", "complete", "done", "failed"}
ThreadPcs == {"none", "run", "close", "record", "read", "check", "finish", "ended", "raised"}

TypeOK ==
  /\ opts \in Options /\ capture \in Captures /\ tools \in ToolSets
  /\ main \in MainPcs /\ thread \in [Threads -> ThreadPcs]
  /\ closed \subseteq Stages /\ counted \in 0..10
  /\ features \in [flows : BOOLEAN, sets : BOOLEAN] /\ draft \in [flows : BOOLEAN, sets : BOOLEAN]
  /\ tables \in BOOLEAN
  /\ outcomes \in [Analyses -> {"none", "result", "warning"}]
  /\ child \in {"none", "running", "exited", "killed"} /\ timer \in {"off", "armed", "fired"}
  /\ stagesRun \in Seq(Stages) /\ warnings \in Seq(Stages \cup {"no_data", "no_logs", "persistence"})
  /\ faults \in 0..MaxFaults

Due(s) ==
  CASE s \in {"dns", "tls"} -> tables
    [] s = "beacon"         -> features.flows
    [] OTHER                -> opts[s]

Occurs(list, x) == Cardinality({i \in DOMAIN list : list[i] = x})

Mentions(s) ==
  Occurs(stagesRun, s) + Occurs(warnings, s) + IF s = "zeek" THEN Occurs(warnings, "no_logs") ELSE 0

(* However its threads interleave and its reports fail, an analysis that   *)
(* is saved says of each stage it was due to run, and of no other, that it *)
(* ran or that it failed.  Only a parser that returned without reporting   *)
(* may be said to have done both, if its report then failed; and only an   *)
(* empty report leaves no trace of its stage.                              *)
StagesAccounted ==
  main \in {"persist", "complete", "done"} =>
    \A s \in Threads \cup {"count", "osint", "llm"} :
      \/ Mentions(s) = IF Due(s) THEN 1 ELSE 0
      \/ s = "pyshark" /\ Mentions(s) = 2 /\ features.sets /\ faults > 0
      \/ s = "llm" /\ Mentions(s) = 0 /\ opts["keys"]

(* The four analyses are listed in canonical order whoever ends first.     *)
Place == [dns |-> 1, tls |-> 2, beacon |-> 3, carve |-> 4]

AnalysesInOrder ==
  \A i, j \in DOMAIN stagesRun :
    i < j /\ stagesRun[i] \in Analyses /\ stagesRun[j] \in Analyses => Place[stagesRun[i]] < Place[stagesRun[j]]

(* Each phase adds one to progress_done though its stage and the runner    *)
(* both end it; a report that failed is not counted.                       *)
ProgressExact ==
  /\ counted <= Cardinality(closed)
  /\ faults = 0 => counted = Cardinality(closed)

(* Bodies are passed on only if tshark came to its end by itself, however  *)
(* the watchdog, the reader and the child meet.                            *)
CarveComplete == outcomes["carve"] = "result" => child = "exited"

(* When a run goes on to its later stages, or ends, no thread of it is     *)
(* still at work on the capture.                                           *)
NothingLeftRunning ==
  main \notin {"parsing", "analysing"} =>
    child # "running" /\ \A s \in Threads : thread[s] \in {"none", "ended", "raised"}

(* A job fails only by a failing write, or for want of tshark.             *)
FailuresTolerated == main = "failed" => faults > 0 \/ (features.sets /\ "tshark" \notin tools)

(* A saved analysis accounts for what its run did, none of it by a thread  *)
(* that is still at work or a tool that was cut short, and only failing    *)
(* writes and a missing tshark fail the run (queue.py, runner.py,          *)
(* carve.py).                                                              *)
RunAccounted ==
  /\ TypeOK /\ StagesAccounted /\ AnalysesInOrder /\ ProgressExact
  /\ CarveComplete /\ NothingLeftRunning /\ FailuresTolerated

(* A run that has begun ends although the carving tshark may hang.         *)
RunEnds == main # "count" ~> main \in {"done", "failed"}

-----------------------------------------------------------------------------
(***************************************************************************)
(* The inductive invariant behind RunAccounted.                            *)
(***************************************************************************)
AtRest    == {"none", "ended", "raised"}
BeforeRun == {"count", "open"}
BeforeAnalyses == BeforeRun \cup {"parsing", "fan"}
Early    == BeforeAnalyses \cup {"analysing", "assemble"}

PcsOf(s) ==
  CASE s = "pyshark" -> {"none", "run", "close", "record", "finish", "ended"}
    [] s = "zeek"    -> {"none", "run", "close", "record", "finish", "ended", "raised"}
    [] s = "carve"   -> {"none", "run", "read", "check", "finish", "ended", "raised"}
    [] OTHER         -> {"none", "run", "finish", "ended", "raised"}

(* Main waits for the threads that work; those were started that were due. *)
ThreadsInPlace ==
  /\ \A s \in Threads : thread[s] \in PcsOf(s)
  /\ \A s \in Threads : thread[s] = "raised" => faults > 0
  /\ \A s \in Parsers : thread[s] \notin AtRest => main = "parsing"
  /\ \A s \in Analyses : thread[s] \notin AtRest => main = "analysing"
  /\ main \in BeforeRun => \A s \in Parsers : thread[s] = "none"
  /\ main \notin BeforeRun \cup {"failed"} => \A s \in Parsers : thread[s] = "none" <=> ~Due(s)
  /\ main \in BeforeAnalyses => \A s \in Analyses : thread[s] = "none"
  /\ main \notin BeforeAnalyses \cup {"failed"} => \A s \in Analyses : thread[s] = "none" <=> ~Due(s)

(* An analysis leaves its outcome before it reports its end.               *)
OutcomesLeft == \A s \in Analyses : outcomes[s] = "none" <=> thread[s] \in {"none", "run", "read", "check"}

(* Artifacts stay sets only for want of tshark; a parse that came to an    *)
(* end has reported it or returned before.                                 *)
ParseKnown ==
  /\ ~draft.sets
  /\ features.sets => "tshark" \notin tools
  /\ thread["pyshark"] \in {"record", "finish"} => "pyshark" \in closed \/ features.sets

(* Only the reader of a child leaves it running, and a killed child has    *)
(* left the mark of its watchdog.                                          *)
ChildInHand ==
  /\ child = "running" => thread["carve"] = "read"
  /\ thread["carve"] \in {"read", "check"} => child # "none" /\ (child = "killed" => timer = "fired")

(* How often a stage may be listed by now.                                 *)
Allowed(s) ==
  LET Once(b) == IF b THEN {1} ELSE {0} IN
  CASE s = "count"    -> Once(main # "count" /\ Due(s))
    [] s = "pyshark"  -> Once(thread[s] \in {"finish", "ended"})
                         \cup {n \in {2} : thread[s] = "ended" /\ features.sets /\ faults > 0}
    [] s = "zeek"     -> Once(thread[s] \in {"finish", "ended", "raised"})
    [] s \in Analyses -> Once(main \notin Early /\ outcomes[s] # "none")
    [] s = "osint"    -> Once(main \notin Early \cup {"yara", "osint"} /\ Due(s))
    [] s = "llm"      -> Once(main \notin Early \cup {"yara", "osint", "llm"} /\ Due(s))
                         \cup {n \in {0} : opts["keys"]}

Listed == Threads \cup {"count", "osint", "llm"}

ListsKnown ==
  /\ main # "failed" => \A s \in Listed : Mentions(s) \in Allowed(s)
  /\ main \in Early => \A i \in DOMAIN stagesRun : stagesRun[i] \notin Analyses

RunInv ==
  /\ TypeOK /\ "yara_skipped" \notin closed
  /\ ThreadsInPlace /\ OutcomesLeft /\ ParseKnown /\ ChildInHand /\ CarveComplete
  /\ ListsKnown /\ AnalysesInOrder /\ ProgressExact /\ FailuresTolerated
=============================================================================
