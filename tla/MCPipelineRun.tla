--------------------------- MODULE MCPipelineRun ---------------------------
(***************************************************************************)
(* PipelineRun and SessionRun for TLC, one of them in each behaviour       *)
(* (`focus`).                                                              *)
(*                                                                         *)
(* PipelineRun ("job"): jobs with every stage on, with one parser only,    *)
(* without keys, and with nothing on; captures with and without flows,     *)
(* logs and bodies; hosts with and without tshark and Zeek.                *)
(*                                                                         *)
(* SessionRun ("session"): one capture, another one, or both; settings     *)
(* with and without YARA.  The first thing the user does is to ask for the *)
(* run; with one capture, another click may follow when it is over.        *)
(***************************************************************************)
EXTENDS PipelineRun, SessionRun

CONSTANTS x, y

All(off) == [n \in OptionNames |-> n \notin off]

MCOptions  == {All({}), All({"count", "zeek", "osint"}), All({"pyshark", "yara", "keys"}),
               All({"carve", "keys", "llm"}), All(OptionNames)}
MCCaptures == {[flows |-> f, logs |-> l, bodies |-> f] : f \in BOOLEAN, l \in BOOLEAN}
MCToolSets == {{}, {"tshark"}, {"tshark", "zeek"}}

MCCaptured  == {<<>>, <<x>>, <<x, y>>}
MCPipelines == {<<"parse", "beacon", "osint">>, <<"yara", "osint">>}

VARIABLE focus

MCInit ==
  /\ Init /\ SessionInit
  /\ focus \in {"job", "session"}
  /\ focus = "job" => source = <<>> /\ pipeline = CHOOSE p \in Pipelines : TRUE
  /\ focus = "session" => opts = All({}) /\ capture = [flows |-> TRUE, logs |-> TRUE, bodies |-> TRUE] /\ tools = {}

FewClicks ==
  /\ clicks = 0 => active'
  /\ clicks' = 3 /\ clicks = 2 => step = "idle" /\ Len(source) = 1

MCNext ==
  \/ focus = "job" /\ Next /\ UNCHANGED <<sessionVars, focus>>
  \/ focus = "session" /\ SessionNext /\ FewClicks /\ UNCHANGED <<vars, focus>>

MCVars == <<vars, sessionVars, focus>>

Job(A) == focus = "job" /\ A /\ UNCHANGED <<sessionVars, focus>>

MCSpec ==
  /\ MCInit /\ [][MCNext]_MCVars
  /\ WF_MCVars(Job(MainStep)) /\ WF_MCVars(Job(Watchdog))
  /\ \A s \in Threads : WF_MCVars(Job(ThreadStep(s)))
  /\ WF_MCVars(focus = "session" /\ ScriptStep /\ UNCHANGED <<vars, focus>>)

(* Runs end, those of the job runner and those in the session.             *)
RunsEnd == RunEnds /\ SessionRunEnds
=============================================================================
