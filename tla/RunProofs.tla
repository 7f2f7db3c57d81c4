------------------------------ MODULE RunProofs ------------------------------
(***************************************************************************)
(* What is proved of the runs of the pipeline: first of a job with its     *)
(* threads, for any options, captures, tools and number of failing writes; *)
(* then of the run a session does itself.                                  *)
(***************************************************************************)
EXTENDS PipelineRun, SessionRun, FiniteSetTheorems, SequenceTheorems, TLAPS

-----------------------------------------------------------------------------
(* How often something is in a list.                                       *)

LEMMA OccursEmpty == \A x : Occurs(<<>>, x) = 0
<1> SUFFICES ASSUME NEW x  PROVE Occurs(<<>>, x) = 0
  OBVIOUS
<1>1. {i \in DOMAIN <<>> : (<<>>)[i] = x} = {}
  OBVIOUS
<1> QED BY <1>1, FS_EmptySet DEF Occurs

LEMMA OccursFinite ==
  ASSUME NEW S, NEW list \in Seq(S), NEW x
  PROVE  IsFiniteSet({i \in DOMAIN list : list[i] = x}) /\ Occurs(list, x) \in Nat
<1>1. Len(list) \in Nat /\ DOMAIN list = 1..Len(list)
  BY LenProperties
<1>2. IsFiniteSet(1..Len(list))
  BY <1>1, FS_Interval
<1>3. IsFiniteSet({i \in DOMAIN list : list[i] = x})
  BY <1>1, <1>2, FS_Subset
<1> QED BY <1>3, FS_CardinalityType DEF Occurs

LEMMA OccursAppend ==
  ASSUME NEW S, NEW list \in Seq(S), NEW e \in S, NEW x
  PROVE  Occurs(Append(list, e), x) = Occurs(list, x) + IF e = x THEN 1 ELSE 0
<1> DEFINE n   == Len(list)
           new == Append(list, e)
           old == {i \in DOMAIN list : list[i] = x}
           all == {i \in DOMAIN new : new[i] = x}
<1>1. n \in Nat /\ DOMAIN list = 1..n
  BY LenProperties
<1>2. /\ new \in Seq(S) /\ Len(new) = n + 1 /\ new[n + 1] = e
      /\ \A i \in 1..n : new[i] = list[i]
  BY AppendProperties
<1>3. DOMAIN new = 1..(n + 1)
  BY <1>2, LenProperties
<1>4. IsFiniteSet(old) /\ Cardinality(old) \in Nat
  BY OccursFinite DEF Occurs
<1>a. n + 1 \notin old
  BY <1>1
<1> HIDE DEF n, new
<1>5. all = IF e = x THEN old \cup {n + 1} ELSE old
  BY <1>1, <1>2, <1>3
<1> HIDE DEF old, all
<1>6. Cardinality(all) = Cardinality(old) + IF e = x THEN 1 ELSE 0
  <2>1. CASE e = x
    BY <1>4, <1>5, <1>a, <2>1, FS_AddElement
  <2>2. CASE e # x
    BY <1>4, <1>5, <2>2
  <2> QED BY <2>1, <2>2
<1> QED BY <1>6 DEF Occurs, old, all, new

LEMMA OccursNot ==
  ASSUME NEW S, NEW list \in Seq(S), NEW x, Occurs(list, x) = 0
  PROVE  \A i \in DOMAIN list : list[i] # x
<1> DEFINE at == {i \in DOMAIN list : list[i] = x}
<1>1. IsFiniteSet(at) /\ Cardinality(at) = 0
  BY OccursFinite DEF Occurs
<1>2. at = {}
  BY <1>1, FS_EmptySet
<1> QED BY <1>2

Warnings == Stages \cup {"no_data", "no_logs", "persistence"}

ListsOK == stagesRun \in Seq(Stages) /\ warnings \in Seq(Warnings)

LEMMA MentionsCount == ASSUME ListsOK  PROVE \A x : Mentions(x) \in Nat
<1>1. stagesRun \in Seq(Stages) /\ warnings \in Seq(Warnings)
  BY DEF ListsOK
<1>2. \A x : Occurs(stagesRun, x) \in Nat /\ Occurs(warnings, x) \in Nat
  BY <1>1, OccursFinite
<1> QED BY <1>2 DEF Mentions

LEMMA RanMentions ==
  ASSUME ListsOK, NEW x \in Stages, Ran(x), UNCHANGED warnings
  PROVE  /\ stagesRun' \in Seq(Stages)
         /\ \A s : Mentions(s)' = Mentions(s) + IF s = x THEN 1 ELSE 0
<1>1. stagesRun \in Seq(Stages) /\ warnings \in Seq(Warnings)
  BY DEF ListsOK
<1>2. stagesRun' = Append(stagesRun, x)
  BY DEF Ran
<1>3. \A s : Occurs(stagesRun', s) = Occurs(stagesRun, s) + IF s = x THEN 1 ELSE 0
  BY <1>1, <1>2, OccursAppend
<1>4. \A s : Occurs(stagesRun, s) \in Nat /\ Occurs(warnings, s) \in Nat
  BY <1>1, OccursFinite
<1>5. stagesRun' \in Seq(Stages)
  BY <1>1, <1>2, AppendProperties
<1> QED BY <1>3, <1>4, <1>5 DEF Mentions

LEMMA WarnMentions ==
  ASSUME ListsOK, NEW w \in Warnings, Warn(w), UNCHANGED stagesRun
  PROVE  /\ warnings' \in Seq(Warnings)
         /\ \A s \in Listed : Mentions(s)' = Mentions(s) + IF s = w \/ (s = "zeek" /\ w = "no_logs") THEN 1 ELSE 0
<1>1. stagesRun \in Seq(Stages) /\ warnings \in Seq(Warnings)
  BY DEF ListsOK
<1>2. warnings' = Append(warnings, w)
  BY DEF Warn
<1>3. \A s : Occurs(warnings', s) = Occurs(warnings, s) + IF s = w THEN 1 ELSE 0
  BY <1>1, <1>2, OccursAppend
<1>4. \A s : Occurs(stagesRun, s) \in Nat /\ Occurs(warnings, s) \in Nat
  BY <1>1, OccursFinite
<1>5. warnings' \in Seq(Warnings)
  BY <1>1, <1>2, AppendProperties
<1>6. "no_logs" \notin Listed
  BY DEF Listed, Threads, Parsers, Analyses
<1> QED BY <1>3, <1>4, <1>5, <1>6 DEF Mentions

-----------------------------------------------------------------------------
(* Threads, analyses, parser and child.                                    *)

(* The types of all but the lists.                                         *)
StateOK ==
  /\ opts \in [OptionNames -> BOOLEAN] /\ capture \in [flows : BOOLEAN, logs : BOOLEAN, bodies : BOOLEAN]
  /\ main \in MainPcs
  /\ thread \in [Threads -> ThreadPcs]
  /\ closed \subseteq Stages \ {"yara_skipped"} /\ counted \in 0..10
  /\ features \in [flows : BOOLEAN, sets : BOOLEAN] /\ draft \in [flows : BOOLEAN, sets : BOOLEAN]
  /\ tables \in BOOLEAN
  /\ outcomes \in [Analyses -> {"none", "result", "warning"}]
  /\ child \in {"none", "running", "exited", "killed"} /\ timer \in {"off", "armed", "fired"}
  /\ faults \in 0..MaxFaults

WorkInv ==
  /\ StateOK /\ opts \in Options /\ capture \in Captures /\ tools \in ToolSets
  /\ ThreadsInPlace /\ OutcomesLeft /\ ParseKnown /\ ChildInHand /\ CarveComplete /\ FailuresTolerated

LEMMA ThreadNames ==
  /\ \A s \in Threads : s \in Stages \ {"yara_skipped"}
  /\ \A s : s \in Threads <=> s \in {"pyshark", "zeek", "dns", "tls", "beacon", "carve"}
  /\ \A s \in Threads : PcsOf(s) \subseteq ThreadPcs
  /\ \A s \in Parsers : s \in OptionNames
<1> QED BY DEF Threads, Parsers, Analyses, Stages, PcsOf, ThreadPcs, OptionNames

LEMMA FaultsCount ==
  ASSUME faults \in 0..MaxFaults, Raises \/ UNCHANGED faults
  PROVE  faults' \in 0..MaxFaults /\ faults <= faults' /\ (Raises => faults' > 0)
<1> QED BY RunAssumption DEF Raises

LEMMA DoneCloses ==
  ASSUME StateOK, NEW s \in Stages \ {"yara_skipped"}, Done(s) \/ DoneRaises(s)
  PROVE  /\ closed' = closed \cup {s} /\ closed' \subseteq Stages \ {"yara_skipped"} /\ counted' \in 0..10
         /\ faults' \in 0..MaxFaults /\ faults <= faults'
         /\ DoneRaises(s) => faults' > 0 /\ s \notin closed
<1>1. closed' = closed \cup {s} /\ (Raises \/ UNCHANGED faults) /\ (DoneRaises(s) => Raises /\ s \notin closed)
  BY DEF Done, DoneRaises
<1>2. counted' \in 0..10
  BY DEF Done, DoneRaises, CountedOnce, StateOK
<1> QED BY <1>1, <1>2, FaultsCount DEF StateOK

(* A stage thread that works takes a step.                                 *)
LEMMA ThreadMoves ==
  ASSUME WorkInv, NEW s \in Threads, NEW pc \in PcsOf(s) \ {"none"}, thread[s] \notin AtRest, Go(s, pc),
         UNCHANGED <<input, main>>, UNCHANGED <<features, tables>> \/ s \in Parsers,
         faults' \in 0..MaxFaults, faults <= faults', pc = "raised" => faults' > 0
  PROVE  /\ thread' \in [Threads -> ThreadPcs] /\ ThreadsInPlace'
         /\ thread'[s] = pc /\ \A x \in Threads : x # s => thread'[x] = thread[x]
<1>1. /\ thread' = [thread EXCEPT ![s] = pc] /\ thread \in [Threads -> ThreadPcs] /\ pc \in ThreadPcs
      /\ faults \in Nat /\ faults' \in Nat /\ main \in MainPcs
  BY ThreadNames, RunAssumption DEF Go, WorkInv, StateOK
<1>2. thread' \in [Threads -> ThreadPcs] /\ thread'[s] = pc /\ \A x \in Threads : x # s => thread'[x] = thread[x]
  BY <1>1
<1>3. Parsers \cap Analyses = {} /\ Threads = Parsers \cup Analyses
  BY DEF Parsers, Analyses, Threads
<1>4. main \in {"parsing", "analysing"} /\ (s \in Parsers => main = "parsing") /\ (s \in Analyses => main = "analysing")
  BY <1>3 DEF WorkInv, ThreadsInPlace
<1>5. \A x \in Parsers : Due(x)' = Due(x)
  BY DEF Due, Parsers, input
<1>6. UNCHANGED <<features, tables>> => \A x \in Analyses : Due(x)' = Due(x)
  BY DEF Due, Analyses, input
<1>7. /\ \A x \in Threads : thread'[x] \in PcsOf(x)
      /\ \A x \in Threads : thread'[x] = "raised" => faults' > 0
  BY <1>1, <1>2 DEF WorkInv, ThreadsInPlace
<1>8. /\ \A x \in Parsers : thread'[x] \notin AtRest => main' = "parsing"
      /\ \A x \in Analyses : thread'[x] \notin AtRest => main' = "analysing"
  BY <1>2, <1>3, <1>4 DEF WorkInv, ThreadsInPlace
<1>9. \A x \in Threads : thread'[x] = "none" <=> thread[x] = "none"
  BY <1>2 DEF AtRest
<1>10. /\ main' \in BeforeRun => \A x \in Parsers : thread'[x] = "none"
       /\ main' \notin BeforeRun \cup {"failed"} => \A x \in Parsers : thread'[x] = "none" <=> ~Due(x)'
  BY <1>3, <1>5, <1>9 DEF WorkInv, ThreadsInPlace
<1>11. /\ main' \in BeforeAnalyses => \A x \in Analyses : thread'[x] = "none"
       /\ main' \notin BeforeAnalyses \cup {"failed"} => \A x \in Analyses : thread'[x] = "none" <=> ~Due(x)'
  <2>1. CASE s \in Analyses
    BY <1>3, <1>6, <1>9, <2>1 DEF WorkInv, ThreadsInPlace
  <2>2. CASE s \in Parsers
    BY <1>3, <1>4, <1>9, <2>2 DEF WorkInv, ThreadsInPlace, BeforeAnalyses
  <2> QED BY <1>3, <2>1, <2>2
<1> QED BY <1>2, <1>7, <1>8, <1>10, <1>11 DEF ThreadsInPlace

LEMMA AtWork ==
  ASSUME WorkInv, NEW s \in Threads, thread[s] \notin AtRest
  PROVE  main \in {"parsing", "analysing"} /\ main # "failed"
<1> QED BY DEF WorkInv, ThreadsInPlace, Threads

LEMMA ParserWorks ==
  ASSUME WorkInv, ParserReads \/ ParserCloses \/ ParserRecords \/ ParserFinishes
  PROVE  WorkInv'
<1> DEFINE s == "pyshark"
<1>0. s \in Threads /\ s \in Parsers /\ s \in Stages \ {"yara_skipped"} /\ s \notin Analyses
      /\ PcsOf(s) = {"none", "run", "close", "record", "finish", "ended"}
  BY DEF Threads, Parsers, Analyses, Stages, PcsOf
<1>1. thread[s] \in {"run", "close", "record", "finish"}
  BY DEF ParserReads, ParserCloses, ParserRecords, ParserFinishes
<1>2. main' = main /\ main # "failed" /\ thread[s] \notin AtRest
  BY <1>0, <1>1, AtWork DEF AtRest, ParserReads, ParserCloses, ParserRecords, ParserFinishes
<1>3. UNCHANGED <<input, tables, outcomes, carving>>
  BY DEF ParserReads, ParserCloses, ParserRecords, ParserFinishes, parsing
<1>4. /\ StateOK /\ ThreadsInPlace /\ OutcomesLeft /\ ParseKnown /\ ChildInHand /\ CarveComplete
      /\ faults \in 0..MaxFaults
  BY DEF WorkInv, StateOK
<1>5. PICK pc \in {"close", "record", "finish", "ended"} : Go(s, pc)
  BY DEF ParserReads, ParserCloses, ParserRecords, ParserFinishes
<1>6. /\ features' \in [flows : BOOLEAN, sets : BOOLEAN] /\ draft' \in [flows : BOOLEAN, sets : BOOLEAN] /\ ~draft'.sets
      /\ features'.sets => "tshark" \notin tools
      /\ closed' \subseteq Stages \ {"yara_skipped"} /\ counted' \in 0..10
      /\ faults' \in 0..MaxFaults /\ faults <= faults'
      /\ pc \in {"record", "finish"} => "pyshark" \in closed' \/ features'.sets
  <2>1. CASE ParserReads
    <3>1. closed' = closed /\ counted' = counted /\ (Raises \/ UNCHANGED faults)
      BY <2>1 DEF ParserReads
    <3>2. faults' \in 0..MaxFaults /\ faults <= faults'
      BY <1>4, <3>1, FaultsCount
    <3>3. /\ features' \in [flows : BOOLEAN, sets : BOOLEAN] /\ draft' \in [flows : BOOLEAN, sets : BOOLEAN] /\ ~draft'.sets
          /\ features'.sets => "tshark" \notin tools
      <4>1. CASE "tshark" \notin tools
        <5>1. features' = [flows |-> FALSE, sets |-> TRUE] /\ draft' = draft
          BY <2>1, <4>1 DEF ParserReads
        <5>2. draft \in [flows : BOOLEAN, sets : BOOLEAN] /\ ~draft.sets
          BY <1>4 DEF StateOK, ParseKnown
        <5>3. features' \in [flows : BOOLEAN, sets : BOOLEAN]
          BY <5>1
        <5> QED BY <4>1, <5>1, <5>2, <5>3
      <4>2. CASE "tshark" \in tools
        <5>1. \E b \in BOOLEAN : draft' = [flows |-> b, sets |-> FALSE]
          BY <1>4, <2>1, <4>2 DEF ParserReads, StateOK, NoFlows
        <5>2. features' = features
          BY <2>1, <4>2 DEF ParserReads
        <5> QED BY <1>4, <5>1, <5>2 DEF StateOK, ParseKnown
      <4> QED BY <4>1, <4>2
    <3>4. pc \in {"record", "finish"} => features'.sets
      <4>1. CASE "tshark" \notin tools
        BY <2>1, <4>1 DEF ParserReads
      <4>2. CASE "tshark" \in tools
        <5>1. Go(s, "close")
          BY <2>1, <4>2 DEF ParserReads
        <5>2. pc = "close"
          BY <1>0, <1>4, <1>5, <5>1 DEF Go, StateOK
        <5> QED BY <5>2
      <4> QED BY <4>1, <4>2
    <3> QED BY <1>4, <3>1, <3>2, <3>3, <3>4 DEF StateOK
  <2>2. CASE ParserCloses
    <3>1. Done(s) \/ DoneRaises(s)
      BY <2>2 DEF ParserCloses
    <3>2. features' \in {features, draft} /\ draft' = draft
      BY <2>2 DEF ParserCloses
    <3> QED BY <1>0, <1>4, <3>1, <3>2, DoneCloses DEF StateOK, ParseKnown
  <2>3. CASE ParserRecords
    BY <1>4, <2>3 DEF ParserRecords, StateOK, ParseKnown, parsing
  <2>4. CASE ParserFinishes
    <3>1. Done(s) \/ DoneRaises(s)
      BY <2>4 DEF ParserFinishes
    <3>2. UNCHANGED <<features, draft>>
      BY <2>4 DEF ParserFinishes, parsing
    <3> QED BY <1>0, <1>4, <3>1, <3>2, DoneCloses DEF StateOK, ParseKnown
  <2> QED BY <2>1, <2>2, <2>3, <2>4
<1>7. /\ thread' \in [Threads -> ThreadPcs] /\ ThreadsInPlace'
      /\ thread'[s] = pc /\ \A x \in Threads : x # s => thread'[x] = thread[x]
  BY <1>0, <1>2, <1>3, <1>5, <1>6, ThreadMoves
<1>8. StateOK'
  BY <1>2, <1>3, <1>4, <1>6, <1>7 DEF StateOK, input, carving
<1>9. OutcomesLeft' /\ ChildInHand' /\ CarveComplete'
  BY <1>0, <1>3, <1>4, <1>7 DEF OutcomesLeft, ChildInHand, CarveComplete, carving, Threads, Analyses
<1>10. ParseKnown'
  BY <1>3, <1>6, <1>7 DEF ParseKnown, input
<1> QED BY <1>2, <1>3, <1>7, <1>8, <1>9, <1>10 DEF WorkInv, FailuresTolerated, input

LEMMA ZeekWorks ==
  ASSUME WorkInv, ZeekRuns \/ ZeekCloses \/ ZeekRecords \/ ZeekFinishes
  PROVE  WorkInv'
<1> DEFINE s == "zeek"
<1>0. s \in Threads /\ s \in Parsers /\ s \in Stages \ {"yara_skipped"} /\ s \notin Analyses /\ s # "pyshark"
      /\ PcsOf(s) = {"none", "run", "close", "record", "finish", "ended", "raised"}
  BY DEF Threads, Parsers, Analyses, Stages, PcsOf
<1>1. thread[s] \in {"run", "close", "record", "finish"}
  BY DEF ZeekRuns, ZeekCloses, ZeekRecords, ZeekFinishes
<1>2. main' = main /\ main # "failed" /\ thread[s] \notin AtRest
  BY <1>0, <1>1, AtWork DEF AtRest, ZeekRuns, ZeekCloses, ZeekRecords, ZeekFinishes
<1>3. UNCHANGED <<input, features, draft, outcomes, carving>>
  BY DEF ZeekRuns, ZeekCloses, ZeekRecords, ZeekFinishes, parsing
<1>4. /\ StateOK /\ ThreadsInPlace /\ OutcomesLeft /\ ParseKnown /\ ChildInHand /\ CarveComplete
      /\ faults \in 0..MaxFaults
  BY DEF WorkInv, StateOK
<1>5. \E pc \in {"close", "record", "finish", "ended", "raised"} : Go(s, pc) /\ (pc = "raised" => DoneRaises(s))
  BY DEF ZeekRuns, ZeekCloses, ZeekRecords, ZeekFinishes, ZeekFails
<1>6. /\ tables' \in BOOLEAN /\ closed \subseteq closed'
      /\ closed' \subseteq Stages \ {"yara_skipped"} /\ counted' \in 0..10
      /\ faults' \in 0..MaxFaults /\ faults <= faults' /\ (DoneRaises(s) => faults' > 0)
  <2>1. CASE ZeekRuns
    <3>1. UNCHANGED <<closed, counted, tables>> /\ (Raises \/ UNCHANGED faults)
      BY <2>1 DEF ZeekRuns, parsing
    <3> QED BY <1>4, <3>1, FaultsCount DEF StateOK, DoneRaises
  <2>2. CASE ZeekCloses \/ ZeekFinishes
    <3>1. (Done(s) \/ DoneRaises(s)) /\ tables' = tables
      BY <2>2 DEF ZeekCloses, ZeekFinishes, parsing
    <3> QED BY <1>0, <1>4, <3>1, DoneCloses DEF StateOK
  <2>3. CASE ZeekRecords
    BY <1>4, <2>3 DEF ZeekRecords, StateOK, DoneRaises, Raises
  <2> QED BY <2>1, <2>2, <2>3
<1>a. PICK pc \in {"close", "record", "finish", "ended", "raised"} : Go(s, pc) /\ (pc = "raised" => faults' > 0)
  BY <1>5, <1>6
<1>7. /\ thread' \in [Threads -> ThreadPcs] /\ ThreadsInPlace'
      /\ \A x \in Threads : x # s => thread'[x] = thread[x]
  BY <1>0, <1>2, <1>3, <1>6, <1>a, ThreadMoves
<1>8. StateOK'
  BY <1>2, <1>3, <1>4, <1>6, <1>7 DEF StateOK, input, carving
<1>9. OutcomesLeft' /\ ChildInHand' /\ CarveComplete'
  BY <1>0, <1>3, <1>4, <1>7 DEF OutcomesLeft, ChildInHand, CarveComplete, carving, Threads, Analyses
<1>10. ParseKnown'
  BY <1>0, <1>3, <1>4, <1>6, <1>7 DEF ParseKnown, input, Threads, Parsers
<1> QED BY <1>2, <1>3, <1>7, <1>8, <1>9, <1>10 DEF WorkInv, FailuresTolerated, input

LEMMA AnalysisWorks ==
  ASSUME WorkInv, NEW s \in Analyses, Analyse(s) \/ (s = "beacon" /\ RankBeacons) \/ AnalysisFinishes(s)
  PROVE  WorkInv'
<1>0. s \in Threads /\ s \notin Parsers /\ s \in Stages \ {"yara_skipped"}
      /\ {"run", "finish", "ended", "raised"} \subseteq PcsOf(s)
  BY DEF Threads, Parsers, Analyses, Stages, PcsOf
<1>1. thread[s] \in {"run", "finish"} /\ (thread[s] = "run" => s # "carve")
  BY DEF Analyse, RankBeacons, AnalysisFinishes
<1>2. main' = main /\ main # "failed" /\ thread[s] \notin AtRest
  BY <1>0, <1>1, AtWork DEF AtRest, Analyse, RankBeacons, AnalysisFinishes
<1>3. UNCHANGED <<input, features, draft, tables, carving>>
  BY DEF Analyse, RankBeacons, AnalysisFinishes, parsing
<1>4. /\ StateOK /\ ThreadsInPlace /\ OutcomesLeft /\ ParseKnown /\ ChildInHand /\ CarveComplete
      /\ faults \in 0..MaxFaults
  BY DEF WorkInv, StateOK
<1>5. /\ closed \subseteq closed' /\ closed' \subseteq Stages \ {"yara_skipped"} /\ counted' \in 0..10
      /\ faults' \in 0..MaxFaults /\ faults <= faults' /\ (DoneRaises(s) => faults' > 0)
  <2>1. CASE Done(s) \/ DoneRaises(s)
    BY <1>0, <1>4, <2>1, DoneCloses
  <2>2. CASE UNCHANGED <<closed, counted>> /\ (Raises \/ UNCHANGED faults)
    BY <1>4, <2>2, FaultsCount DEF StateOK, DoneRaises
  <2> QED BY <2>1, <2>2 DEF Analyse, RankBeacons, AnalysisFinishes
<1>6. \E pc \in {"finish", "ended", "raised"} : Go(s, pc) /\ (pc = "raised" => faults' > 0)
  BY <1>5 DEF Analyse, RankBeacons, AnalysisFinishes
<1>a. PICK pc \in {"finish", "ended", "raised"} : Go(s, pc) /\ (pc = "raised" => faults' > 0)
  BY <1>6
<1>7. /\ thread' \in [Threads -> ThreadPcs] /\ ThreadsInPlace'
      /\ thread'[s] = pc /\ \A x \in Threads : x # s => thread'[x] = thread[x]
  BY <1>0, <1>2, <1>3, <1>5, <1>a, ThreadMoves
<1>8. /\ outcomes' \in [Analyses -> {"none", "result", "warning"}]
      /\ outcomes'[s] # "none" /\ \A x \in Analyses : x # s => outcomes'[x] = outcomes[x]
      /\ s = "carve" => outcomes' = outcomes
  <2>1. CASE AnalysisFinishes(s)
    <3>1. thread[s] = "finish" /\ outcomes' = outcomes
      BY <2>1 DEF AnalysisFinishes
    <3> QED BY <1>4, <3>1 DEF StateOK, OutcomesLeft
  <2>2. CASE ~AnalysisFinishes(s)
    <3>1. \E what \in {"result", "warning"} : outcomes' = [outcomes EXCEPT ![s] = what]
      BY <2>2 DEF Analyse, RankBeacons, Leave, Fail
    <3>2. s # "carve"
      BY <2>2 DEF Analyse
    <3> QED BY <1>4, <3>1, <3>2 DEF StateOK
  <2> QED BY <2>1, <2>2
<1>9. StateOK'
  BY <1>2, <1>3, <1>4, <1>5, <1>7, <1>8 DEF StateOK, input, carving
<1>10. OutcomesLeft'
  BY <1>4, <1>7, <1>8 DEF OutcomesLeft, Threads
<1>11. CarveComplete'
  <2>1. outcomes'["carve"] = outcomes["carve"]
    BY <1>8 DEF Analyses
  <2> QED BY <1>3, <1>4, <2>1 DEF CarveComplete, carving
<1>12. ChildInHand'
  <2>1. CASE s = "carve"
    <3>1. thread["carve"] = "finish"
      BY <1>1, <2>1
    <3> QED BY <1>3, <1>4, <1>7, <2>1, <3>1 DEF ChildInHand, carving
  <2>2. CASE s # "carve"
    BY <1>3, <1>4, <1>7, <2>2 DEF ChildInHand, carving, Threads, Analyses
  <2> QED BY <2>1, <2>2
<1>13. ParseKnown'
  <2>1. thread'["pyshark"] = thread["pyshark"]
    BY <1>0, <1>7 DEF Threads, Parsers
  <2> QED BY <1>3, <1>4, <1>5, <2>1 DEF ParseKnown, input
<1> QED BY <1>2, <1>3, <1>7, <1>9, <1>10, <1>11, <1>12, <1>13 DEF WorkInv, FailuresTolerated, input

LEMMA CarveWorks ==
  ASSUME WorkInv, CarveStarts \/ CarveRaises \/ CarveReaps \/ CarveChecks
  PROVE  WorkInv'
<1> DEFINE s == "carve"
<1>0. s \in Threads /\ s \notin Parsers /\ s \in Analyses /\ s \in Stages \ {"yara_skipped"}
      /\ {"run", "read", "check", "finish", "ended"} \subseteq PcsOf(s)
  BY DEF Threads, Parsers, Analyses, Stages, PcsOf
<1>1. thread[s] \in {"run", "read", "check"}
  BY DEF CarveStarts, CarveRaises, CarveReaps, CarveChecks
<1>2. main' = main /\ main # "failed" /\ thread[s] \notin AtRest
  BY <1>0, <1>1, AtWork DEF AtRest, CarveStarts, CarveRaises, CarveReaps, CarveChecks
<1>3. UNCHANGED <<input, features, draft, tables>>
  BY DEF CarveStarts, CarveRaises, CarveReaps, CarveChecks, parsing
<1>4. /\ StateOK /\ ThreadsInPlace /\ OutcomesLeft /\ ParseKnown /\ ChildInHand /\ CarveComplete
      /\ faults \in 0..MaxFaults
  BY DEF WorkInv, StateOK
<1>5. /\ closed \subseteq closed' /\ closed' \subseteq Stages \ {"yara_skipped"} /\ counted' \in 0..10
      /\ faults' \in 0..MaxFaults /\ faults <= faults'
  <2>1. CASE Done(s) \/ DoneRaises(s)
    BY <1>0, <1>4, <2>1, DoneCloses
  <2>2. CASE UNCHANGED <<closed, counted>> /\ (Raises \/ UNCHANGED faults)
    BY <1>4, <2>2, FaultsCount DEF StateOK
  <2> QED BY <2>1, <2>2 DEF CarveStarts, CarveRaises, CarveReaps, CarveChecks
<1>6. PICK pc \in {"read", "check", "finish", "ended"} :
        /\ Go(s, pc)
        /\ \/ pc = "read" /\ child' = "running" /\ timer' = "armed" /\ outcomes' = outcomes
           \/ pc = "check" /\ child # "running" /\ child' = child /\ timer' = Cancelled /\ outcomes' = outcomes
                /\ thread[s] = "read"
           \/ /\ pc \in {"finish", "ended"} /\ outcomes' = [outcomes EXCEPT ![s] = "warning"]
              /\ \/ UNCHANGED carving /\ thread[s] # "read"
                 \/ child' = (IF child = "running" THEN "killed" ELSE child) /\ timer' = Cancelled
           \/ /\ pc = "ended" /\ outcomes' = [outcomes EXCEPT ![s] = "result"] /\ UNCHANGED carving
              /\ thread[s] = "check" /\ timer # "fired"
  BY DEF CarveStarts, CarveRaises, CarveReaps, CarveChecks, Leave, Fail, Armed, carving
<1>7. /\ thread' \in [Threads -> ThreadPcs] /\ ThreadsInPlace'
      /\ thread'[s] = pc /\ \A x \in Threads : x # s => thread'[x] = thread[x]
  BY <1>0, <1>2, <1>3, <1>5, <1>6, ThreadMoves
<1>8. /\ outcomes' \in [Analyses -> {"none", "result", "warning"}]
      /\ outcomes'[s] = "none" <=> pc \in {"read", "check"}
      /\ \A x \in Analyses : x # s => outcomes'[x] = outcomes[x]
      /\ outcomes'[s] = "result" => child' = "exited"
      /\ child' \in {"none", "running", "exited", "killed"} /\ timer' \in {"off", "armed", "fired"}
      /\ child' = "running" => pc = "read"
      /\ pc \in {"read", "check"} => child' # "none" /\ (child' = "killed" => timer' = "fired")
  <2>1. /\ outcomes \in [Analyses -> {"none", "result", "warning"}] /\ outcomes[s] = "none"
        /\ child \in {"none", "running", "exited", "killed"} /\ timer \in {"off", "armed", "fired"}
        /\ child = "running" => thread[s] = "read"
        /\ thread[s] \in {"read", "check"} => child # "none" /\ (child = "killed" => timer = "fired")
    BY <1>0, <1>1, <1>4 DEF StateOK, OutcomesLeft, ChildInHand
  <2> QED BY <1>0, <1>6, <2>1 DEF Cancelled, carving
<1>9. StateOK'
  BY <1>2, <1>3, <1>4, <1>5, <1>7, <1>8 DEF StateOK, input
<1>10. OutcomesLeft' /\ CarveComplete' /\ ChildInHand'
  BY <1>4, <1>7, <1>8 DEF OutcomesLeft, Threads, CarveComplete, ChildInHand
<1>13. ParseKnown'
  <2>1. thread'["pyshark"] = thread["pyshark"]
    BY <1>0, <1>7 DEF Threads, Parsers
  <2> QED BY <1>3, <1>4, <1>5, <2>1 DEF ParseKnown, input
<1> QED BY <1>2, <1>3, <1>7, <1>9, <1>10, <1>13 DEF WorkInv, FailuresTolerated, input

(* What main may take for granted of the threads when it moves on itself.  *)
LEMMA MainMoves ==
  ASSUME WorkInv, NEW pc \in MainPcs \ {"parsing", "analysing"}, Main(pc), main # "failed",
         UNCHANGED <<input, thread, parsing, outcomes, carving>>,
         main = "parsing" => Joined(Parsers), main = "analysing" => Joined(Analyses),
         pc = "failed" \/ ((main \in BeforeRun <=> pc \in BeforeRun) /\ (main \in BeforeAnalyses <=> pc \in BeforeAnalyses)),
         pc = "failed" => faults' > 0 \/ (features.sets /\ "tshark" \notin tools),
         closed \subseteq closed', closed' \subseteq Stages \ {"yara_skipped"}, counted' \in 0..10,
         faults' \in 0..MaxFaults, faults <= faults'
  PROVE  WorkInv'
<1>1. StateOK'
  BY DEF Main, WorkInv, StateOK, input, parsing, carving
<1>2. \A s \in Threads : Due(s)' = Due(s)
  BY DEF Due, input, parsing
<1>3. main' = pc /\ thread' = thread /\ faults \in Nat /\ faults' \in Nat /\ Threads = Parsers \cup Analyses
  BY RunAssumption DEF Main, WorkInv, StateOK, Threads
<1>4. \A s \in Threads : thread[s] \in AtRest
  BY <1>3 DEF WorkInv, ThreadsInPlace, Joined, AtRest
<1>a. "failed" \notin BeforeRun \cup BeforeAnalyses
  BY DEF BeforeRun, BeforeAnalyses
<1>5. ThreadsInPlace'
  BY <1>2, <1>3, <1>4, <1>a DEF WorkInv, ThreadsInPlace
<1>6. OutcomesLeft' /\ CarveComplete' /\ ChildInHand'
  BY <1>3 DEF WorkInv, OutcomesLeft, CarveComplete, ChildInHand, carving
<1>7. ParseKnown'
  BY <1>3 DEF WorkInv, ParseKnown, input, parsing
<1>8. FailuresTolerated'
  BY <1>3 DEF FailuresTolerated, input, parsing
<1> QED BY <1>1, <1>5, <1>6, <1>7, <1>8 DEF WorkInv, input

LEMMA StartWorks ==
  ASSUME WorkInv, StartParsers \/ StartAnalyses
  PROVE  WorkInv'
<1> DEFINE P == IF StartParsers THEN Parsers ELSE Analyses
           S == {s \in P : Due(s)}
<1>1. /\ StateOK /\ ThreadsInPlace /\ OutcomesLeft /\ ParseKnown /\ ChildInHand /\ CarveComplete
      /\ faults \in 0..MaxFaults
  BY DEF WorkInv, StateOK
<1>2. \/ StartParsers /\ main = "open" /\ Start(S, "open", "parsing", "fan")
      \/ ~StartParsers /\ main = "fan" /\ Start(S, "fan", "analysing", "assemble")
  <2>1. CASE StartParsers
    <3>1. {s \in Parsers : opts[s]} = {s \in Parsers : Due(s)}
      BY DEF Due, Parsers
    <3> QED BY <2>1, <3>1 DEF StartParsers, Start
  <2>2. CASE ~StartParsers
    <3>1. {s \in Analyses : CASE s \in {"dns", "tls"} -> tables
                              [] s = "beacon"         -> features.flows
                              [] s = "carve"          -> opts["carve"]} = {s \in Analyses : Due(s)}
      BY DEF Due, Analyses
    <3> QED BY <2>2, <3>1 DEF StartAnalyses, Start
  <2> QED BY <2>1, <2>2
<1>3. UNCHANGED <<input, closed, counted, parsing, outcomes, carving, lists>>
  BY <1>2 DEF Start
<1>4. CASE main' = "failed"
  <2>1. Main("failed") /\ UNCHANGED thread /\ Raises
    BY <1>2, <1>4 DEF Start, Main
  <2>2. faults' \in 0..MaxFaults /\ faults <= faults' /\ faults' > 0
    BY <1>1, <2>1, FaultsCount
  <2>3. "failed" \in MainPcs \ {"parsing", "analysing"} /\ main \notin {"failed", "parsing", "analysing"}
    BY <1>2 DEF MainPcs
  <2> QED BY <1>1, <1>3, <2>1, <2>2, <2>3, MainMoves DEF StateOK
<1>5. CASE main' # "failed"
  <2>1. /\ main' = IF S = {} THEN (IF StartParsers THEN "fan" ELSE "assemble")
                             ELSE (IF StartParsers THEN "parsing" ELSE "analysing")
        /\ thread' = [s \in Threads |-> IF s \in S THEN "run" ELSE thread[s]]
        /\ faults' = faults
    BY <1>2, <1>5 DEF Start, Main
  <2>2. Threads = Parsers \cup Analyses /\ Parsers \cap Analyses = {} /\ "pyshark" \in Threads /\ "carve" \in Threads
    BY DEF Threads, Parsers, Analyses
  <2>3. \A s \in Threads : thread'[s] = IF s \in S THEN "run" ELSE thread[s]
    BY <2>1
  <2>4. \A s \in Threads : thread[s] \in AtRest
    BY <1>1, <1>2, <2>2 DEF ThreadsInPlace
  <2>5. \A s \in P : thread[s] = "none"
    BY <1>1, <1>2 DEF ThreadsInPlace, BeforeRun, BeforeAnalyses
  <2>6. \A s \in Threads : Due(s)' = Due(s)
    BY <1>3 DEF Due, input, parsing
  <2>7. \A s \in Threads : "run" \in PcsOf(s) /\ "run" \in ThreadPcs
    BY DEF PcsOf, ThreadPcs
  <2>8. thread' \in [Threads -> ThreadPcs]
    BY <1>1, <2>1, <2>7 DEF StateOK
  <2>9. StateOK'
    BY <1>1, <1>3, <2>1, <2>8 DEF StateOK, input, parsing, carving, MainPcs
  <2>10. ThreadsInPlace'
    <3>1. /\ \A s \in Threads : thread'[s] \in PcsOf(s)
          /\ \A s \in Threads : thread'[s] = "raised" => faults' > 0
      BY <1>1, <2>1, <2>3, <2>7 DEF ThreadsInPlace
    <3>2. /\ \A s \in Parsers : thread'[s] \notin AtRest => main' = "parsing"
          /\ \A s \in Analyses : thread'[s] \notin AtRest => main' = "analysing"
      BY <2>1, <2>2, <2>3, <2>4
    <3>3. main' \notin BeforeRun /\ (main' \in BeforeAnalyses <=> StartParsers)
      BY <2>1 DEF BeforeRun, BeforeAnalyses
    <3>4. \A s \in P : thread'[s] = "none" <=> ~Due(s)'
      BY <2>2, <2>3, <2>5, <2>6
    <3>5. ~StartParsers => \A s \in Parsers : thread'[s] = "none" <=> ~Due(s)'
      BY <1>1, <1>2, <2>2, <2>3, <2>6 DEF ThreadsInPlace, BeforeRun
    <3>6. StartParsers => \A s \in Analyses : thread'[s] = "none"
      BY <1>1, <1>2, <2>2, <2>3 DEF ThreadsInPlace, BeforeRun, BeforeAnalyses
    <3> QED BY <3>1, <3>2, <3>3, <3>4, <3>5, <3>6 DEF ThreadsInPlace
  <2>11. OutcomesLeft' /\ CarveComplete' /\ ChildInHand' /\ ParseKnown'
    <3>1. \A s \in Threads : thread'[s] = thread[s] \/ (thread'[s] = "run" /\ thread[s] = "none")
      BY <2>2, <2>3, <2>5
    <3> QED BY <1>1, <1>3, <2>2, <3>1
            DEF OutcomesLeft, CarveComplete, ChildInHand, ParseKnown, input, parsing, carving, AtRest
  <2>12. FailuresTolerated'
    BY <1>5 DEF FailuresTolerated
  <2> QED BY <1>3, <2>9, <2>10, <2>11, <2>12 DEF WorkInv, input
<1> QED BY <1>4, <1>5

LEMMA PhaseCloses ==
  ASSUME StateOK, NEW s \in Stages \ {"yara_skipped"}, closed' = closed \cup {s}, CountedOnce(s)
  PROVE  closed' \subseteq Stages \ {"yara_skipped"} /\ counted' \in 0..10
<1> QED BY DEF StateOK, CountedOnce

LEMMA MainWorks ==
  ASSUME WorkInv, MainStep
  PROVE  WorkInv'
<1>1. /\ StateOK /\ ThreadsInPlace /\ ParseKnown /\ main \in MainPcs
      /\ faults \in 0..MaxFaults /\ closed \subseteq Stages \ {"yara_skipped"} /\ counted \in 0..10
  BY DEF WorkInv, StateOK
<1>2. CASE StartParsers \/ StartAnalyses
  BY <1>2, StartWorks
<1>3. CASE CountPackets
  <2>1. PICK pc \in {"open", "failed"} : Main(pc) /\ (pc = "failed" => Raises)
    BY <1>3 DEF CountPackets
  <2>2. /\ UNCHANGED <<closed, counted>> \/ Done("count")
        /\ Raises \/ UNCHANGED faults
    BY <1>3 DEF CountPackets, Done
  <2>3. "count" \in Stages \ {"yara_skipped"}
    BY DEF Stages
  <2>4. closed \subseteq closed' /\ closed' \subseteq Stages \ {"yara_skipped"} /\ counted' \in 0..10
    BY <1>1, <2>2, <2>3, DoneCloses
  <2> QED BY <1>1, <1>3, <2>1, <2>2, <2>4, FaultsCount, MainMoves DEF CountPackets, MainPcs, BeforeRun, BeforeAnalyses
<1>4. CASE JoinParsers \/ JoinAnalyses
  <2>1. PICK pc \in {"fan", "assemble", "failed"} :
          /\ Main(pc) /\ ((main = "parsing" /\ pc # "assemble") \/ (main = "analysing" /\ pc # "fan"))
          /\ pc = "failed" => Raises \/ (UNCHANGED faults /\ \E s \in Threads : thread[s] = "raised")
    <3>1. CASE JoinParsers
      <4>1. Main("fan") \/ (Main("failed") /\ (Raises \/ (UNCHANGED faults /\ \E s \in Parsers : thread[s] = "raised")))
        BY <3>1 DEF JoinParsers, Join
      <4>2. main = "parsing"
        BY <3>1 DEF JoinParsers, Join
      <4>3. \A s \in Parsers : s \in Threads
        BY DEF Threads
      <4> QED BY <4>1, <4>2, <4>3
    <3>2. CASE JoinAnalyses
      <4>1. Main("assemble") \/ (Main("failed") /\ (Raises \/ (UNCHANGED faults /\ \E s \in Analyses : thread[s] = "raised")))
        BY <3>2 DEF JoinAnalyses, Join
      <4>2. main = "analysing"
        BY <3>2 DEF JoinAnalyses, Join
      <4>3. \A s \in Analyses : s \in Threads
        BY DEF Threads
      <4> QED BY <4>1, <4>2, <4>3
    <3> QED BY <1>4, <3>1, <3>2
  <2>2. Raises \/ UNCHANGED faults
    BY <1>4 DEF JoinParsers, JoinAnalyses, Join
  <2>3. (\E s \in Threads : thread[s] = "raised") => faults > 0
    BY <1>1 DEF ThreadsInPlace
  <2>4. faults' \in 0..MaxFaults /\ faults <= faults' /\ (pc = "failed" => faults' > 0)
    BY <1>1, <2>1, <2>2, <2>3, FaultsCount
  <2>5. (main = "parsing" => Joined(Parsers)) /\ (main = "analysing" => Joined(Analyses))
    BY <1>4 DEF JoinParsers, JoinAnalyses, Join
  <2>6. UNCHANGED <<input, thread, closed, counted, parsing, outcomes, carving>>
    BY <1>4 DEF JoinParsers, JoinAnalyses, Join
  <2> QED BY <1>1, <2>1, <2>4, <2>5, <2>6, MainMoves DEF MainPcs, BeforeRun, BeforeAnalyses
<1>5. CASE Assemble
  <2>1. PICK pc \in {"yara", "failed"} : Main(pc) /\ (pc = "failed" => features.sets)
    BY <1>5 DEF Assemble
  <2>2. pc = "failed" => features.sets /\ "tshark" \notin tools
    BY <1>1, <2>1 DEF ParseKnown
  <2>3. main = "assemble" /\ UNCHANGED <<input, thread, closed, counted, parsing, outcomes, carving, faults>>
    BY <1>5 DEF Assemble
  <2> QED BY <1>1, <2>1, <2>2, <2>3, FaultsCount, MainMoves DEF MainPcs, BeforeRun, BeforeAnalyses
<1>6. CASE ScanYara \/ EnrichOsint \/ WriteReport
  <2>1. PICK pc \in {"osint", "llm", "persist", "failed"} :
          Main(pc) /\ (Raises \/ UNCHANGED faults) /\ (pc = "failed" => Raises)
    BY <1>6 DEF ScanYara, EnrichOsint, WriteReport, Worker
  <2>2. main \in {"yara", "osint", "llm"} /\ UNCHANGED <<input, thread, parsing, outcomes, carving>>
    BY <1>6 DEF ScanYara, EnrichOsint, WriteReport, Worker
  <2>3. \/ UNCHANGED <<closed, counted>>
        \/ \E s \in {"yara", "osint", "llm"} : closed' = closed \cup {s} /\ CountedOnce(s)
    BY <1>6 DEF ScanYara, EnrichOsint, WriteReport
  <2>4. {"yara", "osint", "llm"} \subseteq Stages \ {"yara_skipped"}
    BY DEF Stages
  <2>5. closed \subseteq closed' /\ closed' \subseteq Stages \ {"yara_skipped"} /\ counted' \in 0..10
    BY <1>1, <2>3, <2>4, PhaseCloses
  <2> QED BY <1>1, <2>1, <2>2, <2>5, FaultsCount, MainMoves DEF MainPcs, BeforeRun, BeforeAnalyses
<1>7. CASE Persist \/ Complete
  <2>1. PICK pc \in {"complete", "done", "failed"} :
          Main(pc) /\ (Raises \/ UNCHANGED faults) /\ (pc = "failed" => Raises \/ features.sets)
    BY <1>7 DEF Persist, Complete
  <2>2. pc = "failed" => Raises \/ (features.sets /\ "tshark" \notin tools)
    BY <1>1, <2>1 DEF ParseKnown
  <2>3. main \in {"persist", "complete"} /\ UNCHANGED <<input, thread, closed, counted, parsing, outcomes, carving>>
    BY <1>7 DEF Persist, Complete
  <2> QED BY <1>1, <2>1, <2>2, <2>3, FaultsCount, MainMoves DEF MainPcs, BeforeRun, BeforeAnalyses
<1> QED BY <1>2, <1>3, <1>4, <1>5, <1>6, <1>7 DEF MainStep

LEMMA ChildWorks ==
  ASSUME WorkInv, Watchdog \/ ChildExits
  PROVE  WorkInv'
<1>1. UNCHANGED <<input, main, thread, closed, counted, parsing, outcomes, lists, faults>>
  BY DEF Watchdog, WatchdogFires, WatchdogKills, ChildExits
<1>2. /\ StateOK /\ ThreadsInPlace /\ OutcomesLeft /\ ParseKnown /\ ChildInHand /\ CarveComplete /\ FailuresTolerated
  BY DEF WorkInv
<1>3. \/ child = "running" /\ child' \in {"exited", "killed"} /\ timer' = timer /\ (child' = "killed" => timer = "fired")
      \/ child' = child /\ timer' = "fired"
  BY DEF Watchdog, WatchdogFires, WatchdogKills, ChildExits
<1>4. thread["carve"] = "read" => outcomes["carve"] = "none"
  BY <1>2 DEF OutcomesLeft, Analyses
<1>5. StateOK'
  BY <1>1, <1>2, <1>3 DEF StateOK, input, parsing
<1>6. ThreadsInPlace' /\ OutcomesLeft'
  <2>1. \A s \in Threads : Due(s)' = Due(s)
    BY <1>1 DEF Due, input, parsing
  <2>2. Threads = Parsers \cup Analyses
    BY DEF Threads
  <2> QED BY <1>1, <1>2, <2>1, <2>2 DEF ThreadsInPlace, OutcomesLeft
<1>7. ParseKnown' /\ FailuresTolerated'
  BY <1>1, <1>2 DEF ParseKnown, FailuresTolerated, input, parsing
<1>8. ChildInHand' /\ CarveComplete'
  BY <1>1, <1>2, <1>3, <1>4 DEF ChildInHand, CarveComplete
<1> QED BY <1>1, <1>2, <1>5, <1>6, <1>7, <1>8 DEF WorkInv, input

(* Every step of a run leaves its threads, parser and child in order.      *)
LEMMA StepWorks ==
  ASSUME WorkInv, [Next]_vars
  PROVE  WorkInv'
<1>1. CASE MainStep
  BY <1>1, MainWorks
<1>2. CASE Watchdog \/ ChildExits
  BY <1>2, ChildWorks
<1>3. ASSUME NEW s \in Threads, ThreadStep(s)
      PROVE  WorkInv'
  <2>1. "beacon" \in Analyses /\ "carve" \in Analyses
    BY DEF Analyses
  <2> QED BY <1>3, <2>1, ParserWorks, ZeekWorks, AnalysisWorks, CarveWorks DEF ThreadStep
<1>4. CASE UNCHANGED vars
  <2>1. \A s \in Threads : Due(s)' = Due(s)
    BY <1>4 DEF Due, vars, input, parsing
  <2>2. Threads = Parsers \cup Analyses
    BY DEF Threads
  <2>3. ThreadsInPlace'
    BY <1>4, <2>1, <2>2 DEF WorkInv, ThreadsInPlace, vars
  <2> QED BY <1>4, <2>3 DEF WorkInv, StateOK, OutcomesLeft, ParseKnown, ChildInHand, CarveComplete, FailuresTolerated,
                       vars, input, parsing, carving
<1> QED BY <1>1, <1>2, <1>3, <1>4 DEF Next

-----------------------------------------------------------------------------
(* Progress.                                                               *)

TenStages == {"pyshark", "zeek", "dns", "tls", "beacon", "carve", "count", "yara", "osint", "llm"}

LEMMA TenStagesCount ==
  /\ Stages \ {"yara_skipped"} = TenStages
  /\ \A S : S \subseteq TenStages => IsFiniteSet(S) /\ Cardinality(S) \in 0..10
<1>1. Stages \ {"yara_skipped"} = TenStages
  BY DEF Stages, Threads, Parsers, Analyses, TenStages
<1>2. IsFiniteSet(TenStages) /\ Cardinality(TenStages) <= 10
  <2> DEFINE f == <<"pyshark", "zeek", "dns", "tls", "beacon", "carve", "count", "yara", "osint", "llm">>
  <2>1. f \in [1..10 -> TenStages]
    BY DEF TenStages
  <2>2. ASSUME NEW s \in TenStages  PROVE \E i \in 1..10 : f[i] = s
    <3>1. s \in {f[1], f[2], f[3], f[4], f[5], f[6], f[7], f[8], f[9], f[10]}
      BY DEF TenStages
    <3> QED BY <3>1
  <2>3. ExistsSurjection(1..10, TenStages)
    BY <2>1, <2>2, Zenon DEF ExistsSurjection, Surjection
  <2> QED BY <2>3, FS_NatSurjection, FS_SurjCardinalityBound
<1>3. ASSUME NEW S, S \subseteq TenStages
      PROVE  IsFiniteSet(S) /\ Cardinality(S) \in 0..10
  <2>1. IsFiniteSet(S) /\ Cardinality(S) <= Cardinality(TenStages)
    BY <1>2, <1>3, FS_Subset
  <2>2. Cardinality(S) \in Nat /\ Cardinality(TenStages) \in Nat
    BY <1>2, <2>1, FS_CardinalityType
  <2> QED BY <1>2, <2>1, <2>2
<1> QED BY <1>1, <1>3

(* A step ends at most one phase; it counts it unless its report fails.    *)
PhaseStep ==
  \/ UNCHANGED <<closed, counted>>
  \/ \E s \in TenStages :
       closed' = closed \cup {s} /\ (CountedOnce(s) \/ (s \notin closed /\ UNCHANGED counted /\ Raises))

LEMMA ProgressSteps ==
  ASSUME WorkInv, ProgressExact, PhaseStep, Raises \/ UNCHANGED faults
  PROVE  ProgressExact'
<1>1. closed \subseteq TenStages /\ counted \in 0..10 /\ faults \in 0..MaxFaults /\ MaxFaults \in Nat
  BY TenStagesCount, RunAssumption DEF WorkInv, StateOK
<1>2. faults' \in Nat /\ (faults' = 0 => faults = 0) /\ (Raises => faults' > 0)
  BY <1>1 DEF Raises
<1>3. CASE UNCHANGED <<closed, counted>>
  BY <1>2, <1>3 DEF ProgressExact
<1>4. ASSUME NEW s \in TenStages, closed' = closed \cup {s},
             CountedOnce(s) \/ (s \notin closed /\ UNCHANGED counted /\ Raises)
      PROVE  ProgressExact'
  <2>1. IsFiniteSet(closed) /\ Cardinality(closed) \in 0..10 /\ Cardinality(closed') \in 0..10
    BY <1>1, <1>4, TenStagesCount
  <2>2. Cardinality(closed') = IF s \in closed THEN Cardinality(closed) ELSE Cardinality(closed) + 1
    BY <1>4, <2>1, FS_AddElement
  <2>3. counted <= Cardinality(closed) /\ (faults = 0 => counted = Cardinality(closed))
    BY DEF ProgressExact
  <2>4. CASE CountedOnce(s)
    BY <1>1, <1>2, <2>1, <2>2, <2>3, <2>4 DEF CountedOnce, ProgressExact
  <2>5. CASE s \notin closed /\ UNCHANGED counted /\ Raises
    BY <1>1, <1>2, <2>1, <2>2, <2>3, <2>5 DEF ProgressExact
  <2> QED BY <1>4, <2>4, <2>5
<1> QED BY <1>3, <1>4 DEF PhaseStep

LEMMA PhaseSteps ==
  ASSUME WorkInv, [Next]_vars
  PROVE  PhaseStep /\ (Raises \/ UNCHANGED faults)
<1>1. Threads \subseteq TenStages /\ "count" \in TenStages /\ {"yara", "osint", "llm"} \subseteq TenStages
  BY DEF TenStages, Threads, Parsers, Analyses
<1>2. ASSUME NEW s \in TenStages, Done(s) \/ DoneRaises(s)
      PROVE  PhaseStep /\ (Raises \/ UNCHANGED faults)
  BY <1>2 DEF PhaseStep, Done, DoneRaises
<1>3. CASE CountPackets
  BY <1>1, <1>2, <1>3 DEF CountPackets, PhaseStep
<1>4. CASE StartParsers \/ StartAnalyses \/ JoinParsers \/ JoinAnalyses \/ Assemble \/ Persist \/ Complete
  BY <1>4 DEF StartParsers, StartAnalyses, Start, JoinParsers, JoinAnalyses, Join, Assemble, Persist, Complete, PhaseStep
<1>5. CASE ScanYara \/ EnrichOsint \/ WriteReport
  <2>1. Raises \/ UNCHANGED faults
    BY <1>5 DEF ScanYara, EnrichOsint, WriteReport, Worker
  <2>2. \/ UNCHANGED <<closed, counted>>
        \/ \E s \in {"yara", "osint", "llm"} : closed' = closed \cup {s} /\ CountedOnce(s)
    BY <1>5 DEF ScanYara, EnrichOsint, WriteReport
  <2> QED BY <1>1, <2>1, <2>2 DEF PhaseStep
<1>6. ASSUME NEW s \in Threads, ThreadStep(s)
      PROVE  PhaseStep /\ (Raises \/ UNCHANGED faults)
  <2>1. \/ UNCHANGED <<closed, counted>> /\ (Raises \/ UNCHANGED faults)
        \/ Done(s) \/ DoneRaises(s)
    <3>1. CASE s = "pyshark" /\ (ParserReads \/ ParserCloses \/ ParserRecords \/ ParserFinishes)
      BY <3>1 DEF ParserReads, ParserCloses, ParserRecords, ParserFinishes
    <3>2. CASE s = "zeek" /\ (ZeekRuns \/ ZeekCloses \/ ZeekRecords \/ ZeekFinishes)
      BY <3>2 DEF ZeekRuns, ZeekCloses, ZeekRecords, ZeekFinishes
    <3>3. CASE (s = "beacon" /\ RankBeacons) \/ (s \in Analyses /\ (Analyse(s) \/ AnalysisFinishes(s)))
      BY <3>3 DEF RankBeacons, Analyse, AnalysisFinishes
    <3>4. CASE s = "carve" /\ (CarveStarts \/ CarveRaises \/ CarveReaps \/ CarveChecks)
      BY <3>4 DEF CarveStarts, CarveRaises, CarveReaps, CarveChecks
    <3> QED BY <1>6, <3>1, <3>2, <3>3, <3>4 DEF ThreadStep
  <2> QED BY <1>1, <1>2, <2>1 DEF PhaseStep
<1>7. CASE Watchdog \/ ChildExits \/ UNCHANGED vars
  BY <1>7 DEF Watchdog, WatchdogFires, WatchdogKills, ChildExits, vars, PhaseStep
<1> QED BY <1>3, <1>4, <1>5, <1>6, <1>7 DEF Next, MainStep

-----------------------------------------------------------------------------
(* The stages that are listed, and the order of the analyses.              *)

Ordered(list, k) ==
  /\ \A i, j \in DOMAIN list :
       i < j /\ list[i] \in Analyses /\ list[j] \in Analyses => Place[list[i]] < Place[list[j]]
  /\ \A i \in DOMAIN list : list[i] \in Analyses => Place[list[i]] < k

NoAnalyses == \A i \in DOMAIN stagesRun : stagesRun[i] \notin Analyses

LEMMA PlacesOf ==
  /\ Place["dns"] = 1 /\ Place["tls"] = 2 /\ Place["beacon"] = 3 /\ Place["carve"] = 4
  /\ \A s \in Analyses : Place[s] \in 1..4
<1>1. Place["dns"] = 1 /\ Place["tls"] = 2 /\ Place["beacon"] = 3 /\ Place["carve"] = 4
  BY DEF Place
<1> QED BY <1>1 DEF Analyses

LEMMA OrderedIs ==
  ASSUME NEW list \in Seq(Stages)
  PROVE  /\ (\A i \in DOMAIN list : list[i] \notin Analyses) <=> Ordered(list, 1)
         /\ (\A i, j \in DOMAIN list :
               i < j /\ list[i] \in Analyses /\ list[j] \in Analyses => Place[list[i]] < Place[list[j]]) <=> Ordered(list, 5)
         /\ Ordered(list, 1) => Ordered(list, 5)
<1>1. \A s \in Analyses : Place[s] \in Nat /\ ~(Place[s] < 1) /\ Place[s] < 5
  BY PlacesOf
<1> QED BY <1>1 DEF Ordered

LEMMA OrderedAppend ==
  ASSUME NEW list \in Seq(Stages), NEW k \in 1..5, Ordered(list, k), NEW s \in Stages, s \in Analyses => Place[s] = k
  PROVE  Append(list, s) \in Seq(Stages) /\ Ordered(Append(list, s), IF s \in Analyses THEN k + 1 ELSE k)
<1> DEFINE n   == Len(list)
           new == Append(list, s)
<1>1. n \in Nat /\ DOMAIN list = 1..n
  BY LenProperties
<1>2. /\ new \in Seq(Stages) /\ Len(new) = n + 1 /\ new[n + 1] = s
      /\ \A i \in 1..n : new[i] = list[i]
  BY AppendProperties
<1>3. DOMAIN new = 1..(n + 1)
  BY <1>2, LenProperties
<1>4. \A x \in Analyses : Place[x] \in Nat
  BY PlacesOf
<1> HIDE DEF n, new
<1>5. \A i, j \in DOMAIN list :
        i < j /\ list[i] \in Analyses /\ list[j] \in Analyses => Place[list[i]] < Place[list[j]]
  BY DEF Ordered
<1>6. \A i \in DOMAIN list : list[i] \in Analyses => Place[list[i]] < k
  BY DEF Ordered
<1>7. ASSUME NEW i \in DOMAIN new, NEW j \in DOMAIN new, i < j, new[i] \in Analyses, new[j] \in Analyses
      PROVE  Place[new[i]] < Place[new[j]]
  <2>1. i \in 1..n /\ new[i] = list[i]
    BY <1>1, <1>2, <1>3, <1>7
  <2>2. CASE j \in 1..n
    BY <1>1, <1>2, <1>5, <1>7, <2>1, <2>2
  <2>3. CASE j = n + 1
    BY <1>1, <1>2, <1>6, <1>7, <2>1, <2>3
  <2> QED BY <1>1, <1>3, <2>2, <2>3
<1>8. ASSUME NEW i \in DOMAIN new, new[i] \in Analyses
      PROVE  Place[new[i]] < (IF s \in Analyses THEN k + 1 ELSE k)
  <2>1. CASE i \in 1..n
    BY <1>1, <1>2, <1>4, <1>6, <1>8, <2>1
  <2>2. CASE i = n + 1
    BY <1>2, <1>8, <2>2
  <2> QED BY <1>1, <1>3, <2>1, <2>2
<1>9. Ordered(new, IF s \in Analyses THEN k + 1 ELSE k)
  BY <1>7, <1>8 DEF Ordered
<1> QED BY <1>2, <1>9 DEF new

LEMMA AddIfAdds ==
  ASSUME NEW S, NEW list \in Seq(S), NEW s \in S, NEW what
  PROVE  /\ AddIf(list, s, what) \in Seq(S)
         /\ \A x : Occurs(AddIf(list, s, what), x) = Occurs(list, x) + IF s = x /\ outcomes[s] = what THEN 1 ELSE 0
<1>1. CASE outcomes[s] = what
  <2>1. AddIf(list, s, what) = Append(list, s)
    BY <1>1 DEF AddIf
  <2> QED BY <1>1, <2>1, OccursAppend, AppendProperties
<1>2. CASE outcomes[s] # what
  <2>1. AddIf(list, s, what) = list /\ \A x : Occurs(list, x) \in Nat
    BY <1>2, OccursFinite DEF AddIf
  <2> QED BY <1>2, <2>1
<1> QED BY <1>1, <1>2

LEMMA AddIfOrders ==
  ASSUME NEW list \in Seq(Stages), NEW s \in Analyses, Ordered(list, Place[s]), NEW what
  PROVE  Ordered(AddIf(list, s, what), Place[s] + 1)
<1>1. Place[s] \in 1..4 /\ s \in Stages /\ \A x \in Analyses : Place[x] \in Nat
  BY PlacesOf DEF Stages, Threads
<1>2. Ordered(list, Place[s] + 1)
  BY <1>1 DEF Ordered
<1>3. Ordered(Append(list, s), Place[s] + 1)
  BY <1>1, OrderedAppend
<1> QED BY <1>2, <1>3 DEF AddIf

LEMMA AddAllAdds ==
  ASSUME NEW S, Analyses \subseteq S, NEW list \in Seq(S), NEW what
  PROVE  /\ AddAll(list, what) \in Seq(S)
         /\ \A x : Occurs(AddAll(list, what), x) = Occurs(list, x) + IF x \in Analyses /\ outcomes[x] = what THEN 1 ELSE 0
<1> DEFINE a == AddIf(list, "dns", what)
           b == AddIf(a, "tls", what)
           c == AddIf(b, "beacon", what)
           d == AddIf(c, "carve", what)
<1>0. {"dns", "tls", "beacon", "carve"} \subseteq S /\ AddAll(list, what) = d
  BY DEF Analyses, AddAll
<1>1. a \in Seq(S) /\ \A x : Occurs(a, x) = Occurs(list, x) + IF "dns" = x /\ outcomes["dns"] = what THEN 1 ELSE 0
  BY <1>0, AddIfAdds
<1> HIDE DEF a
<1>2. b \in Seq(S) /\ \A x : Occurs(b, x) = Occurs(a, x) + IF "tls" = x /\ outcomes["tls"] = what THEN 1 ELSE 0
  BY <1>0, <1>1, AddIfAdds
<1> HIDE DEF b
<1>3. c \in Seq(S) /\ \A x : Occurs(c, x) = Occurs(b, x) + IF "beacon" = x /\ outcomes["beacon"] = what THEN 1 ELSE 0
  BY <1>0, <1>2, AddIfAdds
<1> HIDE DEF c
<1>4. d \in Seq(S) /\ \A x : Occurs(d, x) = Occurs(c, x) + IF "carve" = x /\ outcomes["carve"] = what THEN 1 ELSE 0
  BY <1>0, <1>3, AddIfAdds
<1> HIDE DEF d
<1>5. \A x : Occurs(list, x) \in Nat
  BY OccursFinite
<1>6. ASSUME NEW x
      PROVE  Occurs(d, x) = Occurs(list, x) + IF x \in Analyses /\ outcomes[x] = what THEN 1 ELSE 0
  <2>1. Occurs(list, x) \in Nat
    BY <1>5
  <2>2. Occurs(a, x) = Occurs(list, x) + IF "dns" = x /\ outcomes["dns"] = what THEN 1 ELSE 0
    BY <1>1
  <2>3. Occurs(b, x) = Occurs(a, x) + IF "tls" = x /\ outcomes["tls"] = what THEN 1 ELSE 0
    BY <1>2
  <2>4. Occurs(c, x) = Occurs(b, x) + IF "beacon" = x /\ outcomes["beacon"] = what THEN 1 ELSE 0
    BY <1>3
  <2>5. Occurs(d, x) = Occurs(c, x) + IF "carve" = x /\ outcomes["carve"] = what THEN 1 ELSE 0
    BY <1>4
  <2>6. CASE x \in Analyses
    BY <2>1, <2>2, <2>3, <2>4, <2>5, <2>6 DEF Analyses
  <2>7. CASE x \notin Analyses
    <3>1. x # "dns" /\ x # "tls" /\ x # "beacon" /\ x # "carve"
      BY <2>7 DEF Analyses
    <3> QED BY <2>1, <2>2, <2>3, <2>4, <2>5, <2>7, <3>1
  <2> QED BY <2>6, <2>7
<1> QED BY <1>0, <1>4, <1>6

LEMMA AddAllOrders ==
  ASSUME NEW list \in Seq(Stages), Ordered(list, 1), NEW what
  PROVE  Ordered(AddAll(list, what), 5)
<1> DEFINE a == AddIf(list, "dns", what)
           b == AddIf(a, "tls", what)
           c == AddIf(b, "beacon", what)
<1>0. "dns" \in Analyses /\ "tls" \in Analyses /\ "beacon" \in Analyses /\ "carve" \in Analyses /\ Analyses \subseteq Stages
  BY DEF Analyses, Stages, Threads
<1>1. a \in Seq(Stages) /\ b \in Seq(Stages) /\ c \in Seq(Stages)
  <2>1. a \in Seq(Stages)
    BY <1>0, AddIfAdds
  <2>2. b \in Seq(Stages)
    BY <1>0, <2>1, AddIfAdds
  <2> QED BY <1>0, <2>1, <2>2, AddIfAdds
<1>2. Ordered(a, 2)
  BY <1>0, PlacesOf, AddIfOrders
<1>3. Ordered(b, 3)
  BY <1>0, <1>1, <1>2, PlacesOf, AddIfOrders
<1>4. Ordered(c, 4)
  BY <1>0, <1>1, <1>3, PlacesOf, AddIfOrders
<1> QED BY <1>0, <1>1, <1>4, PlacesOf, AddIfOrders DEF AddAll

ListsInv == ListsOK /\ ListsKnown /\ AnalysesInOrder

(* The cases of Allowed, one by one.                                       *)
AllowedOf ==
  /\ Allowed("count") = IF main # "count" /\ opts["count"] THEN {1} ELSE {0}
  /\ Allowed("pyshark") = (IF thread["pyshark"] \in {"finish", "ended"} THEN {1} ELSE {0})
                          \cup {n \in {2} : thread["pyshark"] = "ended" /\ features.sets /\ faults > 0}
  /\ Allowed("zeek") = IF thread["zeek"] \in {"finish", "ended", "raised"} THEN {1} ELSE {0}
  /\ \A s \in Analyses : Allowed(s) = IF main \notin Early /\ outcomes[s] # "none" THEN {1} ELSE {0}
  /\ Allowed("osint") = IF main \notin Early \cup {"yara", "osint"} /\ opts["osint"] THEN {1} ELSE {0}
  /\ Allowed("llm") = (IF main \notin Early \cup {"yara", "osint", "llm"} /\ opts["llm"] THEN {1} ELSE {0})
                      \cup {n \in {0} : opts["keys"]}

LEMMA AllowedIs == AllowedOf /\ AllowedOf'
<1>1. AllowedOf
  BY DEF AllowedOf, Allowed, Due, Analyses
<1>2. AllowedOf'
  BY DEF AllowedOf, Allowed, Due, Analyses
<1> QED BY <1>1, <1>2

LEMMA ListedNames ==
  /\ \A s : s \in Listed <=> s \in Analyses \/ s \in {"pyshark", "zeek", "count", "osint", "llm"}
  /\ \A s \in Analyses : s \notin {"pyshark", "zeek", "count", "osint", "llm"}
  /\ Listed \subseteq Stages /\ Analyses \subseteq Stages /\ "yara" \in Stages \ Listed /\ "yara_skipped" \in Stages \ Listed
  /\ "persistence" \in Warnings \ Listed /\ "no_data" \in Warnings \ Listed /\ "no_logs" \in Warnings \ Listed
  /\ Stages \subseteq Warnings
<1> QED BY DEF Listed, Threads, Parsers, Analyses, Stages, Warnings

LEMMA OrderOf ==
  ASSUME ListsOK
  PROVE  (NoAnalyses <=> Ordered(stagesRun, 1)) /\ (AnalysesInOrder <=> Ordered(stagesRun, 5))
<1> QED BY OrderedIs DEF ListsOK, NoAnalyses, AnalysesInOrder

(* Listing what is no analysis leaves their order as it is.                *)
LEMMA RanOrders ==
  ASSUME ListsOK, AnalysesInOrder, NEW x \in Stages \ Analyses, Ran(x)
  PROVE  AnalysesInOrder' /\ (NoAnalyses => NoAnalyses')
<1> DEFINE new == Append(stagesRun, x)
<1>1. stagesRun' = new /\ new \in Seq(Stages) /\ stagesRun \in Seq(Stages)
  BY AppendProperties DEF Ran, ListsOK
<1>2. Ordered(new, 5) /\ (NoAnalyses => Ordered(new, 1))
  <2>1. Ordered(stagesRun, 5) /\ (NoAnalyses => Ordered(stagesRun, 1))
    BY OrderOf
  <2> QED BY <1>1, <2>1, OrderedAppend
<1> HIDE DEF new
<1>3. /\ \A i, j \in DOMAIN new :
           i < j /\ new[i] \in Analyses /\ new[j] \in Analyses => Place[new[i]] < Place[new[j]]
      /\ NoAnalyses => \A i \in DOMAIN new : new[i] \notin Analyses
  BY <1>1, <1>2, OrderedIs
<1> QED BY <1>1, <1>3 DEF AnalysesInOrder, NoAnalyses

LEMMA OneMoreOrders ==
  ASSUME ListsOK, AnalysesInOrder,
         \/ UNCHANGED lists
         \/ \E x \in Stages \ Analyses : Ran(x) /\ UNCHANGED warnings
         \/ \E w \in Warnings : Warn(w) /\ UNCHANGED stagesRun
  PROVE  ListsOK' /\ AnalysesInOrder'
<1>1. CASE UNCHANGED lists
  BY <1>1 DEF ListsOK, AnalysesInOrder, lists
<1>2. ASSUME NEW x \in Stages \ Analyses, Ran(x), UNCHANGED warnings
      PROVE  ListsOK' /\ AnalysesInOrder'
  BY <1>2, RanMentions, RanOrders DEF ListsOK
<1>3. ASSUME NEW w \in Warnings, Warn(w), UNCHANGED stagesRun
      PROVE  ListsOK' /\ AnalysesInOrder'
  <2>1. ListsOK'
    BY <1>3, WarnMentions DEF ListsOK
  <2>2. AnalysesInOrder'
    BY <1>3 DEF AnalysesInOrder
  <2> QED BY <2>1, <2>2
<1> QED BY <1>1, <1>2, <1>3

(* A step that lists nothing.                                              *)
LEMMA ListsStay ==
  ASSUME ListsInv, UNCHANGED lists, main' \in Early => main \in Early,
         main' # "failed" => main # "failed" /\ \A s \in Listed : Allowed(s) \subseteq Allowed(s)'
  PROVE  ListsInv'
<1>1. stagesRun' = stagesRun /\ warnings' = warnings
  BY DEF lists
<1>2. \A s : Mentions(s)' = Mentions(s)
  BY <1>1 DEF Mentions, Occurs
<1>3. ListsOK' /\ AnalysesInOrder'
  BY <1>1 DEF ListsInv, ListsOK, AnalysesInOrder
<1>4. ListsKnown'
  BY <1>1, <1>2 DEF ListsInv, ListsKnown
<1> QED BY <1>3, <1>4 DEF ListsInv

(* A step of a parser, which may list that parser and nothing else.        *)
LEMMA ListsGrow ==
  ASSUME WorkInv, ListsInv, ListsOK', AnalysesInOrder', NoAnalyses => NoAnalyses',
         UNCHANGED <<input, main>>, main = "parsing", NEW s \in {"pyshark", "zeek"},
         Mentions(s)' \in Allowed(s)', \A x \in Listed \ {s} : Mentions(x)' = Mentions(x),
         \A x \in {"pyshark", "zeek"} \ {s} : Allowed(x) \subseteq Allowed(x)'
  PROVE  ListsInv'
<1>1. main \in Early /\ main # "failed" /\ main' = main /\ UNCHANGED opts
  BY DEF Early, BeforeAnalyses, input
<1>2. \A x \in Analyses \cup {"count", "osint", "llm"} : Allowed(x)' = Allowed(x)
  BY <1>1, AllowedIs DEF AllowedOf
<1>3. \A x \in Listed : Mentions(x) \in Allowed(x)
  BY <1>1 DEF ListsInv, ListsKnown
<1>4. \A x \in Listed : Mentions(x)' \in Allowed(x)'
  BY <1>2, <1>3, ListedNames
<1>5. NoAnalyses
  BY <1>1 DEF ListsInv, ListsKnown, NoAnalyses
<1>6. ListsKnown'
  BY <1>4, <1>5 DEF ListsKnown, NoAnalyses
<1> QED BY <1>6 DEF ListsInv

LEMMA ParserLists ==
  ASSUME WorkInv, ListsInv, ParserReads \/ ParserCloses \/ ParserRecords \/ ParserFinishes
  PROVE  ListsInv'
<1> DEFINE s == "pyshark"
<1>0. s \in Threads /\ s \in Parsers /\ s \in Listed /\ s \in Stages /\ s \in Stages \ Analyses
  BY DEF Threads, Parsers, Analyses, Listed, Stages
<1>1. thread[s] \in {"run", "close", "record", "finish"}
  BY DEF ParserReads, ParserCloses, ParserRecords, ParserFinishes
<1>2. main = "parsing" /\ UNCHANGED <<input, main>> /\ thread \in [Threads -> ThreadPcs] /\ faults \in 0..MaxFaults
      /\ faults \in Nat
  <2>1. thread[s] \notin AtRest
    BY <1>1 DEF AtRest
  <2> QED BY <1>0, <2>1, RunAssumption
          DEF WorkInv, StateOK, ThreadsInPlace, ParserReads, ParserCloses, ParserRecords, ParserFinishes
<1>3. ListsOK /\ AnalysesInOrder /\ Mentions(s) \in Allowed(s)
  BY <1>0, <1>2 DEF ListsInv, ListsKnown
<1>4. thread[s] # "finish" => Mentions(s) = 0
  BY <1>1, <1>3, AllowedIs DEF AllowedOf
<1>5. \A pc : Go(s, pc) => thread'[s] = pc /\ thread'["zeek"] = thread["zeek"]
  BY <1>0, <1>2 DEF Go, Threads, Parsers
<1>6. thread'["zeek"] = thread["zeek"]
  BY <1>5 DEF ParserReads, ParserCloses, ParserRecords, ParserFinishes
<1>7. \A x \in {"pyshark", "zeek"} \ {s} : Allowed(x) \subseteq Allowed(x)'
  BY <1>6, AllowedIs DEF AllowedOf
<1>8. /\ ListsOK' /\ AnalysesInOrder' /\ (NoAnalyses => NoAnalyses')
      /\ Mentions(s)' \in Allowed(s)' /\ \A x \in Listed \ {s} : Mentions(x)' = Mentions(x)
  <2>1. ASSUME UNCHANGED lists
        PROVE  /\ ListsOK' /\ AnalysesInOrder' /\ (NoAnalyses => NoAnalyses')
               /\ \A x : Mentions(x)' = Mentions(x)
    BY <1>3, <2>1 DEF lists, ListsOK, AnalysesInOrder, NoAnalyses, Mentions, Occurs
  <2>2. ASSUME Warn(s), UNCHANGED stagesRun
        PROVE  /\ ListsOK' /\ AnalysesInOrder' /\ (NoAnalyses => NoAnalyses')
               /\ Mentions(s)' = Mentions(s) + 1 /\ \A x \in Listed \ {s} : Mentions(x)' = Mentions(x)
    <3>1. warnings' \in Seq(Warnings) /\ \A x \in Listed :
            Mentions(x)' = Mentions(x) + IF x = s \/ (x = "zeek" /\ s = "no_logs") THEN 1 ELSE 0
      BY <1>0, <1>3, <2>2, WarnMentions, ListedNames
    <3>2. \A x : Mentions(x) \in Nat
      BY <1>3, MentionsCount
    <3>3. AnalysesInOrder' /\ (NoAnalyses => NoAnalyses')
      BY <1>3, <2>2 DEF AnalysesInOrder, NoAnalyses
    <3> QED BY <1>0, <1>3, <2>2, <3>1, <3>2, <3>3 DEF ListsOK
  <2>3. CASE ParserReads
    <3>1. UNCHANGED lists /\ thread[s] = "run" /\ thread'[s] \in {"record", "close"}
      BY <1>5, <2>3 DEF ParserReads
    <3> QED BY <1>4, <2>1, <3>1, AllowedIs DEF AllowedOf
  <2>4. CASE ParserCloses
    <3>1. CASE Done(s) /\ Go(s, "record") /\ UNCHANGED <<stagesRun, warnings>>
      BY <1>4, <1>5, <2>1, <2>4, <3>1, AllowedIs DEF AllowedOf, lists, ParserCloses
    <3>2. CASE DoneRaises(s) /\ Warn(s) /\ Go(s, "ended") /\ UNCHANGED stagesRun
      BY <1>4, <1>5, <2>2, <2>4, <3>2, AllowedIs DEF AllowedOf, ParserCloses
    <3> QED BY <2>4, <3>1, <3>2 DEF ParserCloses
  <2>5. CASE ParserRecords
    <3>1. thread[s] = "record" /\ Ran(s) /\ thread'[s] = "finish" /\ (UNCHANGED warnings \/ Warn("no_data"))
      BY <1>5, <2>5 DEF ParserRecords
    <3>2. stagesRun \in Seq(Stages) /\ warnings \in Seq(Warnings) /\ stagesRun' = Append(stagesRun, s)
      BY <1>3, <3>1 DEF ListsOK, Ran
    <3>3. \A x : Occurs(stagesRun', x) = Occurs(stagesRun, x) + IF s = x THEN 1 ELSE 0
      BY <1>0, <3>2, OccursAppend
    <3>4. warnings' \in Seq(Warnings) /\ \A x \in Listed \cup {"no_logs"} : Occurs(warnings', x) = Occurs(warnings, x)
      <4>1. CASE UNCHANGED warnings
        BY <3>2, <4>1
      <4>2. CASE Warn("no_data")
        <5>1. warnings' = Append(warnings, "no_data") /\ "no_data" \in Warnings /\ "no_data" \notin Listed \cup {"no_logs"}
          BY <4>2, ListedNames DEF Warn
        <5>2. \A x : Occurs(warnings', x) = Occurs(warnings, x) + IF "no_data" = x THEN 1 ELSE 0
          BY <3>2, <5>1, OccursAppend
        <5>3. \A x : Occurs(warnings, x) \in Nat
          BY <3>2, OccursFinite
        <5>4. warnings' \in Seq(Warnings)
          BY <3>2, <5>1, AppendProperties
        <5> QED BY <5>1, <5>2, <5>3, <5>4
      <4> QED BY <3>1, <4>1, <4>2
    <3>5. \A x : Occurs(stagesRun, x) \in Nat /\ Occurs(warnings, x) \in Nat
      BY <3>2, OccursFinite
    <3>6. Mentions(s)' = Mentions(s) + 1 /\ \A x \in Listed \ {s} : Mentions(x)' = Mentions(x)
      BY <1>0, <3>3, <3>4, <3>5 DEF Mentions
    <3>7. Mentions(s)' \in Allowed(s)'
      BY <1>4, <3>1, <3>6, AllowedIs DEF AllowedOf
    <3>8. ListsOK' /\ AnalysesInOrder' /\ (NoAnalyses => NoAnalyses')
      <4>1. stagesRun' \in Seq(Stages)
        BY <1>0, <3>2, AppendProperties
      <4> QED BY <1>0, <1>3, <3>1, <3>4, <4>1, RanOrders DEF ListsOK
    <3> QED BY <3>6, <3>7, <3>8
  <2>6. CASE ParserFinishes
    <3>1. thread[s] = "finish" /\ thread'[s] = "ended"
      BY <1>5, <2>6 DEF ParserFinishes
    <3>2. Mentions(s) = 1
      BY <1>3, <3>1, AllowedIs DEF AllowedOf
    <3>3. CASE Done(s) /\ UNCHANGED <<stagesRun, warnings>>
      BY <2>1, <3>1, <3>2, <3>3, AllowedIs DEF AllowedOf, lists
    <3>4. CASE DoneRaises(s) /\ Warn(s) /\ UNCHANGED stagesRun
      <4>1. features'.sets /\ faults' > 0
        BY <1>2, <2>6, <3>1, <3>4 DEF WorkInv, ParseKnown, ParserFinishes, parsing, DoneRaises, Raises
      <4> QED BY <2>2, <3>1, <3>2, <3>4, <4>1, AllowedIs DEF AllowedOf
    <3> QED BY <2>6, <3>3, <3>4 DEF ParserFinishes
  <2> QED BY <2>3, <2>4, <2>5, <2>6
<1> QED BY <1>2, <1>7, <1>8, ListsGrow

LEMMA ZeekLists ==
  ASSUME WorkInv, ListsInv, ZeekRuns \/ ZeekCloses \/ ZeekRecords \/ ZeekFinishes
  PROVE  ListsInv'
<1> DEFINE s == "zeek"
<1>0. s \in Threads /\ s \in Parsers /\ s \in Listed /\ s \in Stages /\ s \in Stages \ Analyses
  BY DEF Threads, Parsers, Analyses, Listed, Stages
<1>1. thread[s] \in {"run", "close", "record", "finish"}
  BY DEF ZeekRuns, ZeekCloses, ZeekRecords, ZeekFinishes
<1>2. main = "parsing" /\ UNCHANGED <<input, main, features>> /\ thread \in [Threads -> ThreadPcs]
      /\ faults \in 0..MaxFaults /\ faults \in Nat
  <2>1. thread[s] \notin AtRest
    BY <1>1 DEF AtRest
  <2> QED BY <1>0, <2>1, RunAssumption
          DEF WorkInv, StateOK, ThreadsInPlace, ZeekRuns, ZeekCloses, ZeekRecords, ZeekFinishes, parsing
<1>3. ListsOK /\ AnalysesInOrder /\ Mentions(s) \in Allowed(s)
  BY <1>0, <1>2 DEF ListsInv, ListsKnown
<1>4. Mentions(s) = IF thread[s] = "finish" THEN 1 ELSE 0
  BY <1>1, <1>3, AllowedIs DEF AllowedOf
<1>5. \A pc : Go(s, pc) => thread'[s] = pc /\ thread'["pyshark"] = thread["pyshark"]
  BY <1>0, <1>2 DEF Go, Threads, Parsers
<1>6. thread'["pyshark"] = thread["pyshark"] /\ (faults > 0 => faults' > 0)
  <2>1. Raises \/ UNCHANGED faults
    BY DEF ZeekRuns, ZeekCloses, ZeekRecords, ZeekFinishes, Done, DoneRaises
  <2>2. faults > 0 => faults' > 0
    BY <1>2, <2>1 DEF Raises
  <2> QED BY <1>5, <2>2 DEF ZeekRuns, ZeekFails, ZeekCloses, ZeekRecords, ZeekFinishes
<1>7. \A x \in {"pyshark", "zeek"} \ {s} : Allowed(x) \subseteq Allowed(x)'
  BY <1>2, <1>6, AllowedIs DEF AllowedOf
<1>8. \/ UNCHANGED lists /\ (thread[s] = "finish" <=> thread'[s] \in {"finish", "ended", "raised"})
      \/ /\ thread[s] # "finish" /\ thread'[s] = "finish"
         /\ \/ Ran(s) /\ UNCHANGED warnings
            \/ \E w \in {s, "no_logs"} : Warn(w) /\ UNCHANGED stagesRun
  <2>1. CASE ZeekRuns
    BY <1>5, <2>1 DEF ZeekRuns, ZeekFails, lists
  <2>2. CASE ZeekCloses
    BY <1>5, <2>2 DEF ZeekCloses, ZeekFails, lists
  <2>3. CASE ZeekRecords
    BY <1>5, <2>3 DEF ZeekRecords
  <2>4. CASE ZeekFinishes
    BY <1>5, <2>4 DEF ZeekFinishes
  <2> QED BY <2>1, <2>2, <2>3, <2>4
<1>9. \A x : Mentions(x) \in Nat
  BY <1>3, MentionsCount
<1>10. /\ ListsOK' /\ AnalysesInOrder' /\ (NoAnalyses => NoAnalyses')
       /\ Mentions(s)' \in Allowed(s)' /\ \A x \in Listed \ {s} : Mentions(x)' = Mentions(x)
  <2>1. CASE UNCHANGED lists /\ (thread[s] = "finish" <=> thread'[s] \in {"finish", "ended", "raised"})
    <3>1. /\ ListsOK' /\ AnalysesInOrder' /\ (NoAnalyses => NoAnalyses')
          /\ \A x : Mentions(x)' = Mentions(x)
      BY <1>3, <2>1 DEF lists, ListsOK, AnalysesInOrder, NoAnalyses, Mentions, Occurs
    <3> QED BY <1>4, <2>1, <3>1, AllowedIs DEF AllowedOf
  <2>2. CASE thread[s] # "finish" /\ thread'[s] = "finish" /\ Ran(s) /\ UNCHANGED warnings
    <3>1. stagesRun' \in Seq(Stages) /\ \A x : Mentions(x)' = Mentions(x) + IF x = s THEN 1 ELSE 0
      BY <1>0, <1>3, <2>2, RanMentions
    <3>2. AnalysesInOrder' /\ (NoAnalyses => NoAnalyses')
      BY <1>0, <1>3, <2>2, RanOrders
    <3> QED BY <1>3, <1>4, <1>9, <2>2, <3>1, <3>2, AllowedIs DEF AllowedOf, ListsOK
  <2>3. ASSUME thread[s] # "finish", thread'[s] = "finish", NEW w \in {s, "no_logs"}, Warn(w), UNCHANGED stagesRun
        PROVE  /\ ListsOK' /\ AnalysesInOrder' /\ (NoAnalyses => NoAnalyses')
               /\ Mentions(s)' \in Allowed(s)' /\ \A x \in Listed \ {s} : Mentions(x)' = Mentions(x)
    <3>1. warnings' \in Seq(Warnings) /\ \A x \in Listed : Mentions(x)' = Mentions(x) + IF x = s THEN 1 ELSE 0
      <4>1. w \in Warnings
        BY <1>0, ListedNames
      <4>2. "no_logs" \notin Listed
        BY ListedNames
      <4> QED BY <1>3, <2>3, <4>1, <4>2, WarnMentions
    <3>2. AnalysesInOrder' /\ (NoAnalyses => NoAnalyses')
      BY <1>3, <2>3 DEF AnalysesInOrder, NoAnalyses
    <3> QED BY <1>0, <1>3, <1>4, <1>9, <2>3, <3>1, <3>2, AllowedIs DEF AllowedOf, ListsOK
  <2> QED BY <1>8, <2>1, <2>2, <2>3
<1> QED BY <1>2, <1>7, <1>10, ListsGrow

(* The analyses, the watchdog and the child list nothing.                  *)
LEMMA OtherLists ==
  ASSUME WorkInv, ListsInv,
         \/ \E s \in Analyses : ThreadStep(s)
         \/ Watchdog \/ ChildExits \/ UNCHANGED vars
  PROVE  ListsInv'
<1>1. /\ UNCHANGED <<opts, main, lists, features>>
      /\ faults > 0 => faults' > 0
      /\ thread'["pyshark"] = thread["pyshark"] /\ thread'["zeek"] = thread["zeek"]
      /\ main = "analysing" \/ outcomes' = outcomes
  <2>0. faults \in Nat /\ faults \in 0..MaxFaults /\ thread \in [Threads -> ThreadPcs] /\ ThreadsInPlace /\ StateOK
    BY RunAssumption DEF WorkInv, StateOK
  <2>1. ASSUME NEW s \in Analyses, ThreadStep(s)
        PROVE  /\ UNCHANGED <<opts, main, lists, features>>
               /\ faults > 0 => faults' > 0
               /\ thread'["pyshark"] = thread["pyshark"] /\ thread'["zeek"] = thread["zeek"]
               /\ main = "analysing" \/ outcomes' = outcomes
    <3>0. s \in Threads /\ "pyshark" \in Threads /\ "zeek" \in Threads /\ s # "pyshark" /\ s # "zeek"
      BY DEF Threads, Parsers, Analyses
    <3>1. \/ s = "beacon" /\ RankBeacons
          \/ s = "carve" /\ (CarveStarts \/ CarveRaises \/ CarveReaps \/ CarveChecks)
          \/ Analyse(s) \/ AnalysisFinishes(s)
      BY <2>1, <3>0 DEF ThreadStep
    <3>2. UNCHANGED <<opts, main, lists, features>> /\ thread[s] \notin AtRest /\ \E pc \in ThreadPcs : Go(s, pc)
      <4>1. CASE s = "beacon" /\ RankBeacons
        BY <4>1 DEF RankBeacons, Leave, Fail, input, parsing, AtRest, ThreadPcs
      <4>2. CASE s = "carve" /\ (CarveStarts \/ CarveRaises \/ CarveReaps \/ CarveChecks)
        BY <4>2 DEF CarveStarts, CarveRaises, CarveReaps, CarveChecks, Leave, Fail, input, parsing, AtRest, ThreadPcs
      <4>3. CASE Analyse(s)
        BY <4>3 DEF Analyse, Leave, Fail, input, parsing, AtRest, ThreadPcs
      <4>4. CASE AnalysisFinishes(s)
        BY <4>4 DEF AnalysisFinishes, input, parsing, AtRest, ThreadPcs
      <4> QED BY <3>1, <4>1, <4>2, <4>3, <4>4
    <3>3. main = "analysing"
      BY <2>0, <3>2 DEF ThreadsInPlace
    <3>4. thread'["pyshark"] = thread["pyshark"] /\ thread'["zeek"] = thread["zeek"]
      BY <2>0, <3>0, <3>2 DEF Go
    <3>5. Raises \/ UNCHANGED faults
      BY PhaseSteps, <2>1, <3>0 DEF Next
    <3> QED BY <2>0, <3>2, <3>3, <3>4, <3>5 DEF Raises
  <2>2. CASE Watchdog \/ ChildExits \/ UNCHANGED vars
    BY <2>2 DEF Watchdog, WatchdogFires, WatchdogKills, ChildExits, vars, input, parsing
  <2> QED BY <2>1, <2>2
<1>2. main = "analysing" => main \in Early
  BY DEF Early
<1>3. \A s \in Listed : Allowed(s) \subseteq Allowed(s)'
  <2>1. \A s \in {"count", "osint", "llm", "zeek", "pyshark"} : Allowed(s) \subseteq Allowed(s)'
    BY <1>1, AllowedIs DEF AllowedOf
  <2>2. \A s \in Analyses : Allowed(s) \subseteq Allowed(s)'
    BY <1>1, <1>2, AllowedIs DEF AllowedOf
  <2> QED BY <2>1, <2>2, ListedNames
<1> QED BY <1>1, <1>3, ListsStay

(* A step of main between its joins: what it lists it may list.            *)
LEMMA MainLists ==
  ASSUME WorkInv, ListsInv, MainStep
  PROVE  ListsInv'
<1>0. /\ ListsOK /\ AnalysesInOrder /\ StateOK /\ ThreadsInPlace /\ main \in MainPcs
      /\ opts \in [OptionNames -> BOOLEAN] /\ thread \in [Threads -> ThreadPcs]
      /\ outcomes \in [Analyses -> {"none", "result", "warning"}]
      /\ \A x : Mentions(x) \in Nat
  BY MentionsCount DEF ListsInv, WorkInv, StateOK
<1>1. CASE StartParsers \/ StartAnalyses \/ JoinParsers \/ JoinAnalyses
  <2>1. UNCHANGED <<opts, lists, outcomes, features>> /\ main \in {"open", "fan", "parsing", "analysing"}
        /\ main' \in {"parsing", "fan", "analysing", "assemble", "failed"}
    BY <1>1 DEF StartParsers, StartAnalyses, Start, JoinParsers, JoinAnalyses, Join, Main, input, parsing
  <2>2. \A s \in {"pyshark", "zeek"} : thread'[s] = thread[s] \/ (thread[s] = "none" /\ thread'[s] = "run")
    <3>1. CASE JoinParsers \/ JoinAnalyses
      BY <3>1 DEF JoinParsers, JoinAnalyses, Join
    <3>2. CASE StartParsers
      <4>1. \A s \in Parsers : thread[s] = "none"
        BY <1>0, <3>2 DEF StartParsers, Start, ThreadsInPlace, BeforeRun
      <4> QED BY <3>2, <4>1 DEF StartParsers, Start, Threads, Parsers
    <3>3. CASE StartAnalyses
      BY <3>3 DEF StartAnalyses, Start, Threads, Parsers, Analyses
    <3> QED BY <1>1, <3>1, <3>2, <3>3
  <2>3. main' # "failed" => faults' = faults
    BY <1>1 DEF StartParsers, StartAnalyses, Start, JoinParsers, JoinAnalyses, Join, Main
  <2>4. main' # "failed" => \A s \in {"pyshark", "zeek", "count", "osint", "llm"} : Allowed(s) \subseteq Allowed(s)'
    BY <2>1, <2>2, <2>3, AllowedIs DEF AllowedOf, Early, BeforeAnalyses, BeforeRun
  <2>5. main' # "failed" => \A s \in Analyses : Allowed(s) \subseteq Allowed(s)'
    BY <2>1, AllowedIs DEF AllowedOf, Early, BeforeAnalyses, BeforeRun
  <2> QED BY <2>1, <2>4, <2>5, ListedNames, ListsStay DEF Early, BeforeAnalyses, BeforeRun
<1>2. ASSUME UNCHANGED <<opts, thread, outcomes, features, faults>>, main' \in MainPcs, main' # "failed",
             ListsOK', AnalysesInOrder', NoAnalyses => NoAnalyses', main # "failed",
             main' \in Early => main \in Early,
             \A s \in Listed : Mentions(s)' \in Allowed(s)'
      PROVE  ListsInv'
  BY <1>2 DEF ListsInv, ListsKnown, NoAnalyses
<1>3. CASE CountPackets
  <2>1. main = "count" /\ main' \in {"open", "failed"} /\ UNCHANGED <<opts, thread, outcomes, features>>
    BY <1>3 DEF CountPackets, Main, input, parsing
  <2>2. CASE main' = "failed"
    <3>1. UNCHANGED lists
      BY <1>3, <2>2 DEF CountPackets, Main
    <3> QED BY <2>2, <3>1, ListsStay DEF Early, BeforeAnalyses, BeforeRun
  <2>3. CASE main' # "failed"
    <3>1. faults' = faults
      BY <1>3, <2>3 DEF CountPackets, Main, Done
    <3>2. \A s \in Listed : Mentions(s) \in Allowed(s)
      BY <2>1 DEF ListsInv, ListsKnown
    <3>3. /\ \A s \in Listed \ {"count"} : Allowed(s)' = Allowed(s)
          /\ Allowed("count") = {0} /\ Allowed("count")' = IF opts["count"] THEN {1} ELSE {0}
      <4>1. \A s \in Analyses : Allowed(s)' = Allowed(s)
        BY <2>1, <2>3, AllowedIs DEF AllowedOf, Early, BeforeAnalyses, BeforeRun
      <4>2. \A s \in {"pyshark", "zeek", "osint", "llm"} : Allowed(s)' = Allowed(s)
        BY <2>1, <2>3, <3>1, AllowedIs DEF AllowedOf, Early, BeforeAnalyses, BeforeRun
      <4>3. Allowed("count") = {0} /\ Allowed("count")' = IF opts["count"] THEN {1} ELSE {0}
        BY <2>1, <2>3, AllowedIs DEF AllowedOf
      <4> QED BY <4>1, <4>2, <4>3, ListedNames
    <3>4. "count" \in Listed /\ "count" \in Stages \ Analyses /\ "count" \in Warnings /\ Mentions("count") = 0
      BY <3>2, <3>3 DEF Listed, Stages, Analyses, Threads, Parsers, Warnings
    <3>5. CASE ~opts["count"]
      <4>1. UNCHANGED lists
        BY <1>3, <3>5 DEF CountPackets
      <4>2. \A s \in Listed : Allowed(s) \subseteq Allowed(s)'
        BY <3>3, <3>5
      <4> QED BY <2>1, <2>3, <4>1, <4>2, ListsStay DEF Early, BeforeAnalyses, BeforeRun
    <3>6. CASE opts["count"] /\ Ran("count") /\ UNCHANGED warnings
      <4>1. ListsOK' /\ AnalysesInOrder' /\ (NoAnalyses => NoAnalyses')
            /\ \A s : Mentions(s)' = Mentions(s) + IF s = "count" THEN 1 ELSE 0
        BY <1>0, <3>4, <3>6, RanMentions, RanOrders DEF ListsOK
      <4>2. \A s \in Listed : Mentions(s)' \in Allowed(s)'
        BY <1>0, <3>2, <3>3, <3>4, <3>6, <4>1
      <4> QED BY <1>2, <2>1, <2>3, <3>1, <4>1, <4>2 DEF MainPcs, Early, BeforeAnalyses, BeforeRun
    <3>7. CASE opts["count"] /\ Warn("count") /\ UNCHANGED stagesRun
      <4>1. ListsOK' /\ \A s \in Listed : Mentions(s)' = Mentions(s) + IF s = "count" THEN 1 ELSE 0
        BY <1>0, <3>4, <3>7, WarnMentions DEF ListsOK
      <4>2. AnalysesInOrder' /\ (NoAnalyses => NoAnalyses')
        BY <1>0, <3>7 DEF AnalysesInOrder, NoAnalyses
      <4>3. \A s \in Listed : Mentions(s)' \in Allowed(s)'
        BY <1>0, <3>2, <3>3, <3>4, <3>7, <4>1
      <4> QED BY <1>2, <2>1, <2>3, <3>1, <4>1, <4>2, <4>3 DEF MainPcs, Early, BeforeAnalyses, BeforeRun
    <3> QED BY <1>3, <2>3, <3>5, <3>6, <3>7 DEF CountPackets, Main
  <2> QED BY <2>2, <2>3
<1>4. CASE Assemble
  <2>1. main = "assemble" /\ UNCHANGED <<opts, thread, outcomes, features, faults>>
    BY <1>4 DEF Assemble, input, parsing
  <2>2. NoAnalyses /\ \A s \in Listed : Mentions(s) \in Allowed(s)
    BY <2>1 DEF ListsInv, ListsKnown, NoAnalyses, Early
  <2>3. CASE main' = "failed"
    <3>1. UNCHANGED lists
      BY <1>4, <2>3 DEF Assemble, Main
    <3> QED BY <2>3, <3>1, ListsStay DEF Early, BeforeAnalyses, BeforeRun
  <2>4. CASE main' # "failed"
    <3>1. main' = "yara" /\ stagesRun' = AddAll(stagesRun, "result") /\ warnings' = AddAll(warnings, "warning")
      BY <1>4, <2>4 DEF Assemble, Main
    <3>2. stagesRun \in Seq(Stages) /\ warnings \in Seq(Warnings) /\ Analyses \subseteq Stages /\ Analyses \subseteq Warnings
      BY <1>0, ListedNames DEF ListsOK
    <3>3. /\ stagesRun' \in Seq(Stages)
          /\ \A x : Occurs(stagesRun', x) = Occurs(stagesRun, x) + IF x \in Analyses /\ outcomes[x] = "result" THEN 1 ELSE 0
      BY <3>1, <3>2, AddAllAdds
    <3>4. /\ warnings' \in Seq(Warnings)
          /\ \A x : Occurs(warnings', x) = Occurs(warnings, x) + IF x \in Analyses /\ outcomes[x] = "warning" THEN 1 ELSE 0
      BY <3>1, <3>2, AddAllAdds
    <3>5. AnalysesInOrder'
      <4> DEFINE new == AddAll(stagesRun, "result")
      <4>1. Ordered(new, 5) /\ new \in Seq(Stages) /\ stagesRun' = new
        BY <1>0, <2>2, <3>1, <3>2, <3>3, OrderOf, AddAllOrders
      <4> HIDE DEF new
      <4>2. \A i, j \in DOMAIN new :
              i < j /\ new[i] \in Analyses /\ new[j] \in Analyses => Place[new[i]] < Place[new[j]]
        BY <4>1, OrderedIs
      <4> QED BY <4>1, <4>2 DEF AnalysesInOrder
    <3>6. \A x \in Listed : Occurs(stagesRun, x) \in Nat /\ Occurs(warnings, x) \in Nat /\ Occurs(warnings, "no_logs") \in Nat
      BY <3>2, OccursFinite
    <3>7. "no_logs" \notin Analyses /\ "zeek" \notin Analyses
      BY DEF Analyses
    <3>8. \A s \in Listed : Mentions(s)' = Mentions(s) + IF s \in Analyses /\ outcomes[s] # "none" THEN 1 ELSE 0
      <4>1. \A s \in Analyses : outcomes[s] \in {"none", "result", "warning"}
        BY <1>0
      <4> QED BY <3>3, <3>4, <3>6, <3>7, <4>1 DEF Mentions
    <3>9. \A s \in Listed : Mentions(s)' \in Allowed(s)'
      <4>1. \A s \in Analyses : Allowed(s) = {0} /\ Allowed(s)' = IF outcomes[s] # "none" THEN {1} ELSE {0}
        BY <2>1, <3>1, AllowedIs DEF AllowedOf, Early, BeforeAnalyses, BeforeRun
      <4>2. \A s \in {"pyshark", "zeek", "count", "osint", "llm"} : Allowed(s)' = Allowed(s)
        BY <2>1, <3>1, AllowedIs DEF AllowedOf, Early, BeforeAnalyses, BeforeRun
      <4>3. ASSUME NEW s \in Analyses  PROVE Mentions(s)' \in Allowed(s)'
        BY <1>0, <2>2, <3>8, <4>1, <4>3, ListedNames
      <4>4. ASSUME NEW s \in {"pyshark", "zeek", "count", "osint", "llm"}  PROVE Mentions(s)' \in Allowed(s)'
        BY <1>0, <2>2, <3>8, <4>2, <4>4, ListedNames
      <4> QED BY <4>3, <4>4, ListedNames
    <3>10. ListsKnown'
      BY <3>1, <3>9 DEF ListsKnown, Early, BeforeAnalyses, BeforeRun
    <3> QED BY <3>3, <3>4, <3>5, <3>10 DEF ListsInv, ListsOK
  <2> QED BY <2>3, <2>4
<1>5. CASE ScanYara \/ EnrichOsint \/ WriteReport \/ Persist \/ Complete
  <2>1. /\ UNCHANGED <<opts, thread, outcomes, features>>
        /\ main \in {"yara", "osint", "llm", "persist", "complete"}
        /\ main' \in {"osint", "llm", "persist", "complete", "done", "failed"}
        /\ main' # "failed" => faults' = faults
    BY <1>5 DEF ScanYara, EnrichOsint, WriteReport, Worker, Persist, Complete, Main, input, parsing
  <2>2. "failed" \notin Early /\ main \notin Early /\ main' \notin Early /\ main' \in MainPcs
    BY <2>1 DEF Early, BeforeAnalyses, BeforeRun, MainPcs
  <2>3. \A s \in Listed : Mentions(s) \in Allowed(s)
    BY <2>1 DEF ListsInv, ListsKnown
  <2>4. \/ UNCHANGED lists
        \/ \E x \in {"yara", "yara_skipped", "osint", "llm"} : Ran(x) /\ UNCHANGED warnings
        \/ \E w \in {"yara", "osint", "llm", "persistence"} : Warn(w) /\ UNCHANGED stagesRun
    <3>1. CASE ScanYara
      BY <3>1 DEF ScanYara
    <3>2. CASE EnrichOsint
      BY <3>2 DEF EnrichOsint
    <3>3. CASE WriteReport
      BY <3>3 DEF WriteReport
    <3>4. CASE Persist
      BY <3>4 DEF Persist, lists
    <3>5. CASE Complete
      BY <3>5 DEF Complete
    <3> QED BY <1>5, <3>1, <3>2, <3>3, <3>4, <3>5
  <2>5. {"yara", "yara_skipped", "osint", "llm"} \subseteq Stages \ Analyses /\ {"yara", "osint", "llm", "persistence"} \subseteq Warnings
    BY DEF Stages, Analyses, Threads, Parsers, Warnings
  <2>6. ListsOK' /\ AnalysesInOrder'
    BY <1>0, <2>4, <2>5, OneMoreOrders
  <2>7. CASE main' = "failed"
    BY <2>2, <2>6, <2>7 DEF ListsInv, ListsKnown
  <2>8. CASE main' # "failed"
    <3>1. \A s \in Analyses \cup {"pyshark", "zeek", "count"} : Allowed(s)' = Allowed(s)
      <4>1. \A s \in Analyses : Allowed(s)' = Allowed(s)
        BY <2>1, <2>2, <2>8, AllowedIs DEF AllowedOf
      <4>2. \A s \in {"pyshark", "zeek", "count"} : Allowed(s)' = Allowed(s)
        <5>1. UNCHANGED <<opts, thread, features, faults>> /\ main # "count" /\ main' # "count"
          BY <2>1, <2>8
        <5>2. Allowed("pyshark")' = Allowed("pyshark")
          BY <5>1, AllowedIs DEF AllowedOf
        <5>3. Allowed("zeek")' = Allowed("zeek") /\ Allowed("count")' = Allowed("count")
          BY <5>1, AllowedIs DEF AllowedOf
        <5> QED BY <5>2, <5>3
      <4> QED BY <4>1, <4>2
    <3>2. ASSUME NEW x \in Stages, Ran(x), UNCHANGED warnings
          PROVE  \A s \in Listed : Mentions(s)' = IF s = x THEN Mentions(s) + 1 ELSE Mentions(s)
      <4>1. \A s : Mentions(s)' = Mentions(s) + IF s = x THEN 1 ELSE 0
        BY <1>0, <3>2, RanMentions
      <4> QED BY <1>0, <4>1
    <3>3. ASSUME NEW w \in Warnings, w # "no_logs", Warn(w), UNCHANGED stagesRun
          PROVE  \A s \in Listed : Mentions(s)' = IF s = w THEN Mentions(s) + 1 ELSE Mentions(s)
      <4>1. \A s \in Listed : Mentions(s)' = Mentions(s) + IF s = w \/ (s = "zeek" /\ w = "no_logs") THEN 1 ELSE 0
        BY <1>0, <3>3, WarnMentions
      <4> QED BY <1>0, <3>3, <4>1
    <3>4. ASSUME UNCHANGED lists
          PROVE  \A s : Mentions(s)' = Mentions(s)
      BY <3>4 DEF lists, Mentions, Occurs
    <3>5. \A s \in Listed : Mentions(s)' \in Allowed(s)'
      <4>1. CASE ScanYara
        <5>1. main = "yara" /\ main' = "osint"
          BY <2>8, <4>1 DEF ScanYara, Worker, Main
        <5>2. \A s \in {"osint", "llm"} : Allowed(s)' = Allowed(s)
          BY <2>1, <5>1, AllowedIs DEF AllowedOf
        <5>3. \A s \in Listed : Mentions(s)' = Mentions(s)
          <6>1. CASE \E x \in {"yara", "yara_skipped"} : Ran(x) /\ UNCHANGED warnings
            BY <2>5, <3>2, <6>1, ListedNames
          <6>2. CASE Warn("yara") /\ UNCHANGED stagesRun
            BY <2>5, <3>3, <6>2, ListedNames
          <6> QED BY <4>1, <6>1, <6>2 DEF ScanYara
        <5> QED BY <2>3, <3>1, <5>2, <5>3, ListedNames
      <4>2. CASE EnrichOsint
        <5>1. main = "osint" /\ main' = "llm"
          BY <2>8, <4>2 DEF EnrichOsint, Worker, Main
        <5>2. /\ Allowed("llm")' = Allowed("llm")
              /\ Allowed("osint") = {0} /\ Allowed("osint")' = IF opts["osint"] THEN {1} ELSE {0}
          BY <2>1, <2>2, <5>1, AllowedIs DEF AllowedOf
        <5>3. \A s \in Listed : Mentions(s)' = IF s = "osint" /\ opts["osint"] THEN Mentions(s) + 1 ELSE Mentions(s)
          <6>1. CASE opts["osint"] /\ Ran("osint") /\ UNCHANGED warnings
            BY <2>5, <3>2, <6>1
          <6>2. CASE opts["osint"] /\ Warn("osint") /\ UNCHANGED stagesRun
            BY <2>5, <3>3, <6>2
          <6>3. CASE ~opts["osint"] /\ UNCHANGED lists
            BY <3>4, <6>3
          <6> QED BY <4>2, <6>1, <6>2, <6>3 DEF EnrichOsint
        <5>4. \A s \in Listed \ {"osint"} : Mentions(s)' \in Allowed(s)'
          BY <2>3, <3>1, <5>2, <5>3, ListedNames
        <5>5. Mentions("osint")' \in Allowed("osint")'
          BY <1>0, <2>3, <5>2, <5>3, ListedNames
        <5> QED BY <5>4, <5>5
      <4>3. CASE WriteReport
        <5>1. main = "llm" /\ main' = "persist"
          BY <2>8, <4>3 DEF WriteReport, Worker, Main
        <5>2. /\ Allowed("osint")' = Allowed("osint") /\ Allowed("llm") \subseteq {0} \cup {n \in {0} : opts["keys"]}
              /\ Allowed("llm")' = (IF opts["llm"] THEN {1} ELSE {0}) \cup {n \in {0} : opts["keys"]}
          BY <2>1, <2>2, <5>1, AllowedIs DEF AllowedOf
        <5>3. /\ \A s \in Listed \ {"llm"} : Mentions(s)' = Mentions(s)
              /\ \/ Mentions("llm")' = Mentions("llm") + 1 /\ opts["llm"]
                 \/ Mentions("llm")' = Mentions("llm") /\ (opts["llm"] => opts["keys"])
          <6>1. CASE opts["llm"] /\ Ran("llm") /\ UNCHANGED warnings
            BY <2>5, <3>2, <6>1, ListedNames
          <6>2. CASE opts["llm"] /\ Warn("llm") /\ UNCHANGED stagesRun
            BY <2>5, <3>3, <6>2, ListedNames
          <6>3. CASE (opts["llm"] => opts["keys"]) /\ UNCHANGED lists
            BY <3>4, <6>3
          <6> QED BY <4>3, <6>1, <6>2, <6>3 DEF WriteReport
        <5>4. \A s \in Listed \ {"llm"} : Mentions(s)' \in Allowed(s)'
          BY <2>3, <3>1, <5>2, <5>3, ListedNames
        <5>5. Mentions("llm")' \in Allowed("llm")'
          BY <1>0, <2>3, <5>2, <5>3, ListedNames
        <5> QED BY <5>4, <5>5
      <4>4. CASE Persist \/ Complete
        <5>1. main \in {"persist", "complete"} /\ main' \in {"complete", "done"} /\ UNCHANGED lists
          BY <2>8, <4>4 DEF Persist, Complete, Main, lists
        <5>a. UNCHANGED opts /\ main \notin Early \cup {"yara", "osint", "llm"} /\ main' \notin Early \cup {"yara", "osint", "llm"}
          BY <2>1, <2>2, <5>1
        <5>b. Allowed("osint")' = Allowed("osint")
          BY <5>a, AllowedIs DEF AllowedOf
        <5>c. Allowed("llm")' = Allowed("llm")
          BY <5>a, AllowedIs DEF AllowedOf
        <5>2. \A s \in {"osint", "llm"} : Allowed(s)' = Allowed(s)
          BY <5>b, <5>c
        <5> QED BY <2>3, <3>1, <3>4, <5>1, <5>2, ListedNames
      <4> QED BY <1>5, <4>1, <4>2, <4>3, <4>4
    <3> QED BY <2>2, <2>6, <3>5 DEF ListsInv, ListsKnown
  <2> QED BY <2>7, <2>8
<1> QED BY <1>1, <1>3, <1>4, <1>5 DEF MainStep

-----------------------------------------------------------------------------
(* The theorems.                                                           *)

LEMMA RunParts ==
  /\ RunInv <=> WorkInv /\ ListsInv /\ ProgressExact
  /\ RunInv' <=> WorkInv' /\ ListsInv' /\ ProgressExact'
<1>1. \A S : S \subseteq Stages \ {"yara_skipped"} <=> S \subseteq Stages /\ "yara_skipped" \notin S
  OBVIOUS
<1>2. RunInv <=> WorkInv /\ ListsInv /\ ProgressExact
  BY <1>1, RunAssumption DEF RunInv, TypeOK, WorkInv, StateOK, ListsInv, ListsOK, Warnings
<1>3. RunInv' <=> WorkInv' /\ ListsInv' /\ ProgressExact'
  BY <1>1, RunAssumption DEF RunInv, TypeOK, WorkInv, StateOK, ListsInv, ListsOK, Warnings
<1> QED BY <1>2, <1>3

LEMMA RunStarts ==
  ASSUME Init
  PROVE  RunInv
<1>1. /\ main = "count" /\ thread = [s \in Threads |-> "none"] /\ closed = {} /\ counted = 0
      /\ features = NoFlows /\ draft = NoFlows /\ tables = FALSE /\ outcomes = [s \in Analyses |-> "none"]
      /\ child = "none" /\ timer = "off" /\ stagesRun = <<>> /\ warnings = <<>> /\ faults = 0
      /\ opts \in Options /\ capture \in Captures /\ tools \in ToolSets
  BY DEF Init
<1>2. /\ TypeOK /\ "yara_skipped" \notin closed
  <2>1. thread \in [Threads -> ThreadPcs] /\ outcomes \in [Analyses -> {"none", "result", "warning"}]
    BY <1>1 DEF ThreadPcs
  <2>2. features \in [flows : BOOLEAN, sets : BOOLEAN] /\ draft \in [flows : BOOLEAN, sets : BOOLEAN]
    BY <1>1 DEF NoFlows
  <2>3. stagesRun \in Seq(Stages) /\ warnings \in Seq(Stages \cup {"no_data", "no_logs", "persistence"})
    BY <1>1
  <2>4. main \in MainPcs
    BY <1>1 DEF MainPcs
  <2>5. closed \subseteq Stages /\ "yara_skipped" \notin closed /\ tables \in BOOLEAN
    BY <1>1
  <2>6. counted \in 0..10 /\ faults \in 0..MaxFaults
    BY <1>1, RunAssumption
  <2> QED BY <1>1, <2>1, <2>2, <2>3, <2>4, <2>5, <2>6 DEF TypeOK
<1>3. \A s \in Threads : thread[s] = "none" /\ "none" \in PcsOf(s)
  BY <1>1 DEF PcsOf
<1>4. Threads = Parsers \cup Analyses /\ "pyshark" \in Threads /\ "carve" \in Threads
      /\ main \in BeforeRun /\ main \in BeforeAnalyses /\ main \in Early
  BY <1>1 DEF Threads, Parsers, Analyses, BeforeRun, BeforeAnalyses, Early
<1>5. ThreadsInPlace
  BY <1>1, <1>3, <1>4 DEF ThreadsInPlace, AtRest
<1>6. OutcomesLeft /\ ParseKnown /\ ChildInHand /\ CarveComplete
  BY <1>1, <1>3, <1>4 DEF OutcomesLeft, ParseKnown, ChildInHand, CarveComplete, NoFlows, Analyses
<1>7. \A s \in Listed : Mentions(s) = 0
  BY <1>1, OccursEmpty DEF Mentions
<1>8. \A s \in Listed : 0 \in Allowed(s)
  <2>1. \A s \in Analyses : 0 \in Allowed(s)
    BY <1>1, <1>4, AllowedIs DEF AllowedOf
  <2>2. \A s \in {"pyshark", "zeek"} : 0 \in Allowed(s)
    BY <1>3, <1>4, AllowedIs DEF AllowedOf, Threads, Parsers
  <2>3. \A s \in {"count", "osint", "llm"} : 0 \in Allowed(s)
    BY <1>1, <1>4, AllowedIs DEF AllowedOf
  <2> QED BY <2>1, <2>2, <2>3, ListedNames
<1>9. ListsKnown /\ AnalysesInOrder
  BY <1>1, <1>7, <1>8 DEF ListsKnown, AnalysesInOrder
<1>10. ProgressExact
  BY <1>1, FS_EmptySet DEF ProgressExact
<1>11. FailuresTolerated
  BY <1>1 DEF FailuresTolerated
<1> QED BY <1>2, <1>5, <1>6, <1>9, <1>10, <1>11 DEF RunInv

LEMMA RunSteps ==
  ASSUME RunInv, [Next]_vars
  PROVE  RunInv'
<1>1. WorkInv /\ ListsInv /\ ProgressExact
  BY RunParts
<1>2. WorkInv'
  BY <1>1, StepWorks
<1>3. ProgressExact'
  BY <1>1, PhaseSteps, ProgressSteps
<1>4. ListsInv'
  <2>1. CASE MainStep
    BY <1>1, <2>1, MainLists
  <2>2. CASE Watchdog \/ ChildExits \/ UNCHANGED vars \/ \E s \in Analyses : ThreadStep(s)
    BY <1>1, <2>2, OtherLists
  <2>3. ASSUME NEW s \in Parsers, ThreadStep(s)
        PROVE  ListsInv'
    <3>1. s \in {"pyshark", "zeek"} /\ s \notin Analyses
      BY DEF Parsers, Analyses
    <3>2. CASE s = "pyshark"
      BY <1>1, <2>3, <3>1, <3>2, ParserLists DEF ThreadStep
    <3>3. CASE s = "zeek"
      BY <1>1, <2>3, <3>1, <3>3, ZeekLists DEF ThreadStep
    <3> QED BY <3>1, <3>2, <3>3
  <2>4. Threads = Parsers \cup Analyses
    BY DEF Threads
  <2> QED BY <2>1, <2>2, <2>3, <2>4 DEF Next
<1> QED BY <1>2, <1>3, <1>4, RunParts

(* For any options, captures, tools and number of failing writes: threads  *)
(* are where main expects them, a child is in the hands of its reader, and *)
(* of every stage is listed what has been said of it so far (runner.py).   *)
THEOREM RunInvariant == Spec => []RunInv
<1>1. Init => RunInv
  BY RunStarts
<1>2. RunInv /\ [Next]_vars => RunInv'
  BY RunSteps
<1> QED BY <1>1, <1>2, PTL DEF Spec

(* What is saved of a run accounts for it: each stage that was due is      *)
(* listed as run or as failed, and no other; the analyses stand in order;  *)
(* progress counts each phase once; nothing of the run is left at work, no *)
(* cut extraction passes for a whole one, and it failed for a reason       *)
(* (runner.py, carve.py, queue.py).                                        *)
THEOREM RunIsAccounted == Spec => []RunAccounted
<1>1. ASSUME RunInv  PROVE RunAccounted
  <2>1. /\ TypeOK /\ ThreadsInPlace /\ OutcomesLeft /\ ParseKnown /\ ChildInHand /\ CarveComplete
        /\ ListsKnown /\ AnalysesInOrder /\ ProgressExact /\ FailuresTolerated
    BY <1>1 DEF RunInv
  <2>2. Threads = Parsers \cup Analyses /\ "carve" \in Threads /\ Listed = Threads \cup {"count", "osint", "llm"}
    BY DEF Threads, Parsers, Analyses, Listed
  <2>3. main \notin {"parsing", "analysing"} => \A s \in Threads : thread[s] \in AtRest
    BY <2>1, <2>2 DEF ThreadsInPlace
  <2>4. NothingLeftRunning
    BY <2>1, <2>2, <2>3 DEF NothingLeftRunning, ChildInHand, AtRest
  <2>5. ASSUME main \in {"persist", "complete", "done"}, NEW s \in Listed
        PROVE  \/ Mentions(s) = IF Due(s) THEN 1 ELSE 0
               \/ s = "pyshark" /\ Mentions(s) = 2 /\ features.sets /\ faults > 0
               \/ s = "llm" /\ Mentions(s) = 0 /\ opts["keys"]
    <3>1. Mentions(s) \in Allowed(s)
      BY <2>1, <2>5 DEF ListsKnown
    <3>2. main \notin Early /\ main \notin BeforeRun /\ main \notin BeforeAnalyses /\ main # "failed"
      BY <2>5 DEF Early, BeforeAnalyses, BeforeRun
    <3>3. CASE s \in Analyses
      <4>1. thread[s] \in AtRest /\ (thread[s] = "none" <=> ~Due(s))
        BY <2>1, <2>2, <2>3, <2>5, <3>2, <3>3 DEF ThreadsInPlace
      <4>2. outcomes[s] = "none" <=> ~Due(s)
        BY <2>1, <3>3, <4>1 DEF OutcomesLeft, AtRest
      <4>3. Allowed(s) = IF outcomes[s] # "none" THEN {1} ELSE {0}
        BY <3>2, <3>3, AllowedIs DEF AllowedOf
      <4> QED BY <3>1, <4>2, <4>3
    <3>4. CASE s \in Parsers
      <4>1. thread[s] \in AtRest /\ (thread[s] = "none" <=> ~Due(s)) /\ thread[s] \in PcsOf(s)
        BY <2>1, <2>2, <2>3, <2>5, <3>2, <3>4 DEF ThreadsInPlace
      <4>2. CASE s = "pyshark"
        <5>1. thread[s] \in {"none", "ended"}
          BY <4>1, <4>2 DEF AtRest, PcsOf
        <5> QED BY <3>1, <4>1, <4>2, <5>1, AllowedIs DEF AllowedOf
      <4>3. CASE s = "zeek"
        BY <3>1, <4>1, <4>3, AllowedIs DEF AllowedOf, AtRest
      <4> QED BY <3>4, <4>2, <4>3 DEF Parsers
    <3>5. CASE s \in {"count", "osint", "llm"}
      <4>1. Due(s) = opts[s]
        BY <3>5 DEF Due
      <4>2. main \notin {"yara", "osint", "llm", "count"}
        BY <2>5
      <4>3. CASE s \in {"count", "osint"}
        BY <3>1, <3>2, <4>1, <4>2, <4>3, AllowedIs DEF AllowedOf
      <4>4. CASE s = "llm"
        BY <3>1, <3>2, <4>1, <4>2, <4>4, AllowedIs DEF AllowedOf
      <4> QED BY <3>5, <4>3, <4>4
    <3> QED BY <2>2, <3>3, <3>4, <3>5
  <2>6. StagesAccounted
    BY <2>2, <2>5 DEF StagesAccounted
  <2> QED BY <2>1, <2>4, <2>6 DEF RunAccounted
<1>2. RunInv => RunAccounted
  BY <1>1
<1> QED BY <1>2, RunInvariant, PTL

-----------------------------------------------------------------------------
(***************************************************************************)
(* The second part: the run of a session, for any captures, settings and   *)
(* number of clicks.                                                       *)
(***************************************************************************)

OnePass ==
  /\ \A x \in {"osint", "names"} : shown.part[x] = shown.features
  /\ shown.part["attack"] \in {0, shown.features}
  /\ (\E e \in shown.evidence : e[2] = "yara") => shown.part["yara"] = shown.features

ReportHonest == report \in {0, shown.features} /\ (llmStatus = "generated" => report # 0)

SessionKept ==
  /\ source \in Captured /\ pipeline \in Pipelines
  /\ active \in BOOLEAN /\ background \in BOOLEAN /\ late \in BOOLEAN
  /\ skip \subseteq PhaseNames \cup {"llm"} /\ done \subseteq PhaseNames \cup {"llm"}
  /\ buttons \subseteq PhaseNames \cup {"llm"} /\ got \subseteq PhaseNames
  /\ step \in Steps /\ clicks \in 0..MaxClicks /\ pass \in 0..clicks
  /\ Len(left) + Len(results) <= Len(source) /\ Len(ahead) <= Len(pipeline) /\ overall \in Nat
  /\ shown.features \in 0..pass /\ shown.part \in [Parts -> 0..pass]
  /\ text \in 0..pass /\ report \in 0..pass /\ llmStatus \in {"none", "skipped", "generated"}
  /\ left \in Seq(Files) /\ ahead \in Seq(PhaseNames) /\ results \in Seq(Results)
  /\ shown \in [features : Nat, evidence : SUBSET (Files \X PhaseNames), part : [Parts -> Nat]]
  /\ step = "files" => left # <<>>
  /\ step # "idle" => active /\ ~background

LEMMA SessionTypes ==
  /\ SessionTyped <=> SessionKept
  /\ SessionTyped' <=> SessionKept'
<1> QED BY DEF SessionTyped, SessionTypeOK, SessionKept

LEMMA SessionPasses ==
  ASSUME SessionKept
  PROVE  /\ clicks \in Nat /\ pass \in Nat /\ MaxClicks \in Nat
         /\ source \in Seq(Files) /\ pipeline \in Seq(PhaseNames) /\ pipeline # <<>>
         /\ \A s \in Seq(Files) : Len(s) \in Nat /\ (s = <<>> <=> Len(s) = 0)
         /\ Len(pipeline) \in Nat /\ Len(ahead) \in Nat /\ Len(left) \in Nat /\ Len(results) \in Nat
         /\ IsFiniteSet(buttons) /\ Cardinality(buttons) \in Nat
<1>1. clicks \in Nat /\ pass \in Nat /\ MaxClicks \in Nat
  BY SessionAssumption DEF SessionKept
<1>2. source \in Seq(Files) /\ pipeline \in Seq(PhaseNames) /\ pipeline # <<>>
  BY SessionAssumption DEF SessionKept
<1>3. \A s \in Seq(Files) : Len(s) \in Nat /\ (s = <<>> <=> Len(s) = 0)
  BY EmptySeq, LenProperties
<1>4. Len(pipeline) \in Nat /\ Len(ahead) \in Nat /\ Len(left) \in Nat /\ Len(results) \in Nat
  BY <1>2, LenProperties DEF SessionKept
<1>5. IsFiniteSet(buttons) /\ Cardinality(buttons) \in Nat
  <2>1. IsFiniteSet(PhaseNames \cup {"llm"})
    <3> DEFINE f == <<"count", "parse", "zeek", "dns", "tls", "beacon", "carve", "yara", "osint", "llm">>
    <3>1. f \in [1..10 -> PhaseNames \cup {"llm"}]
      BY DEF PhaseNames
    <3>2. ASSUME NEW s \in PhaseNames \cup {"llm"}  PROVE \E i \in 1..10 : f[i] = s
      <4>1. s \in {f[1], f[2], f[3], f[4], f[5], f[6], f[7], f[8], f[9], f[10]}
        BY DEF PhaseNames
      <4> QED BY <4>1
    <3>3. ExistsSurjection(1..10, PhaseNames \cup {"llm"})
      BY <3>1, <3>2, Zenon DEF ExistsSurjection, Surjection
    <3> QED BY <3>3, FS_NatSurjection
  <2> QED BY <2>1, FS_Subset, FS_CardinalityType DEF SessionKept
<1> QED BY <1>1, <1>2, <1>3, <1>4, <1>5

LEMMA SessionNames ==
  /\ {"idle", "files"} \cap AfterFeatures = {} /\ "features" \notin AfterFeatures
  /\ AfterNames \subseteq AfterOsint /\ AfterOsint \subseteq AfterFeatures /\ {"llm", "report", "end"} \subseteq AfterNames
  /\ AfterFeatures \subseteq Steps /\ {"idle", "files", "features"} \subseteq Steps
  /\ {"osint", "names", "correlations", "views", "attack", "yara"} = Parts
<1> QED BY DEF AfterFeatures, AfterOsint, AfterNames, Steps, Parts

(* The script begins again.                                                *)
LEMMA RerunKeeps ==
  ASSUME SessionInv, UserActs, Rerun, source' \in Captured, pipeline' \in Pipelines,
         active' \in BOOLEAN, background' \in BOOLEAN,
         skip' \subseteq PhaseNames \cup {"llm"}, done' \subseteq PhaseNames \cup {"llm"},
         report' \in 0..pass, llmStatus' \in {"none", "skipped", "generated"},
         ~late' /\ active' => "llm" \notin done' /\ llmStatus' # "generated" /\ report' = 0,
         ~active' /\ ~background' => ~active /\ UNCHANGED <<report, llmStatus>>
  PROVE  SessionInv'
<1>1. SessionKept /\ ShownOfOnePass /\ ReportOnShown
  BY SessionTypes DEF SessionInv
<1>2. /\ step' = (IF active' /\ ~background' /\ source' # <<>> THEN "files" ELSE "idle")
      /\ pass' = pass + 1 /\ left' = source' /\ ahead' = pipeline' /\ got' = {} /\ results' = <<>>
      /\ buttons' = {} /\ overall' = 0 /\ text' = 0
      /\ clicks' = clicks + 1 /\ clicks < MaxClicks /\ late' = (late \/ step \in {"report", "end"}) /\ shown' = shown /\ ~background
  BY DEF UserActs, Rerun
<1>3. clicks \in Nat /\ pass \in Nat /\ MaxClicks \in Nat /\ pass <= clicks
  BY <1>1, SessionPasses DEF SessionKept
<1>4. source' \in Seq(Files) /\ pipeline' \in Seq(PhaseNames) /\ Len(source') \in Nat /\ Len(pipeline') \in Nat
  BY SessionAssumption, LenProperties
<1>5. SessionKept'
  <2>1. shown'.features \in 0..pass' /\ shown'.part \in [Parts -> 0..pass']
        /\ shown' \in [features : Nat, evidence : SUBSET (Files \X PhaseNames), part : [Parts -> Nat]]
    <3>1. shown.features \in 0..pass /\ shown.part \in [Parts -> 0..pass] /\ 0..pass \subseteq 0..(pass + 1)
      BY <1>1, <1>3 DEF SessionKept
    <3>2. shown.part \in [Parts -> 0..(pass + 1)]
      BY <3>1
    <3> QED BY <1>1, <1>2, <3>1, <3>2 DEF SessionKept
  <2>2. late' \in BOOLEAN /\ step' \in Steps /\ clicks' \in 0..MaxClicks /\ pass' \in 0..clicks' /\ report' \in 0..pass' /\ text' \in 0..pass'
    BY <1>1, <1>2, <1>3, SessionNames DEF SessionKept
  <2>3. results' \in Seq(Results) /\ Len(results') = 0 /\ left' \in Seq(Files) /\ ahead' \in Seq(PhaseNames)
    BY <1>2, <1>4, EmptySeq
  <2>4. (step' = "files" => left' # <<>>) /\ (step' # "idle" => active' /\ ~background')
    BY <1>2
  <2> QED BY <1>2, <1>4, <2>1, <2>2, <2>3, <2>4 DEF SessionKept
<1>6. PhasesCounted'
  BY <1>2, <1>4, FS_EmptySet DEF PhasesCounted
<1>7. GivenFresh'
  <2>1. Given' = {}
    BY <1>2 DEF Given
  <2> QED BY <2>1 DEF GivenFresh
<1>8. ShownSoFar'
  BY <1>2, SessionNames DEF ShownSoFar
<1>9. ReportSoFar'
  BY <1>2 DEF ReportSoFar
<1>10. ~active' /\ ~background' => step = "idle"
  BY <1>1 DEF SessionKept
<1>11. ShownOfOnePass'
  <2>1. step' \notin {"llm", "report", "end"}
    BY <1>2
  <2>2. ~active' /\ ~background' => OnePass
    BY <1>1, <1>2, <1>10 DEF ShownOfOnePass, Whole, OnePass
  <2> QED BY <1>2, <2>1, <2>2 DEF ShownOfOnePass, Whole, OnePass
<1>12. ReportOnShown'
  BY <1>1, <1>2, <1>10 DEF ReportOnShown
<1> QED BY <1>5, <1>6, <1>7, <1>8, <1>9, <1>11, <1>12, SessionTypes DEF SessionInv

LEMMA UserSteps ==
  ASSUME SessionInv, UserStep
  PROVE  SessionInv'
<1>1. SessionKept /\ ReportSoFar
  BY SessionTypes DEF SessionInv
<1>2. CASE Change
  <2>1. source' \in Captured /\ pipeline' \in Pipelines /\ UNCHANGED <<active, background, skip, done, report, llmStatus>> /\ UserActs /\ Rerun
    BY <1>1, <1>2 DEF Change, SessionKept, flags
  <2>2. ~late' /\ active' => "llm" \notin done' /\ llmStatus' # "generated" /\ report' = 0
    BY <1>1, <2>1 DEF ReportSoFar, UserActs
  <2> QED BY <1>1, <2>1, <2>2, RerunKeeps DEF SessionKept
<1>3. ASSUME NEW p \in buttons, Skip(p)
      PROVE  SessionInv'
  <2>1. UNCHANGED <<source, pipeline, active, background, done, report, llmStatus>> /\ UserActs /\ Rerun /\ skip' = skip \cup {p}
    BY <1>3 DEF Skip
  <2>2. ~late' /\ active' => "llm" \notin done' /\ llmStatus' # "generated" /\ report' = 0
    BY <1>1, <2>1 DEF ReportSoFar, UserActs
  <2> QED BY <1>1, <2>1, <2>2, RerunKeeps DEF SessionKept
<1>4. CASE ReRunReport
  <2>1. UNCHANGED <<source, pipeline, background>> /\ UserActs /\ Rerun /\ skip' = skip \ {"llm"} /\ done' = done \ {"llm"}
        /\ active' = TRUE /\ report' = 0 /\ llmStatus' = "none"
    BY <1>4 DEF ReRunReport
  <2> QED BY <1>1, <2>1, RerunKeeps, SessionPasses DEF SessionKept
<1>5. CASE Extract
  <2>1. UNCHANGED <<source, pipeline, skip, done, report, llmStatus>> /\ UserActs /\ Rerun /\ active' = FALSE /\ background' = TRUE
    BY <1>5 DEF Extract, flags
  <2> QED BY <1>1, <2>1, RerunKeeps DEF SessionKept
<1> QED BY <1>2, <1>3, <1>4, <1>5 DEF UserStep

LEMMA GivenIs ==
  /\ \A p : p \in Given <=> p \in got \/ \E i \in DOMAIN results : p \in results[i].gave
  /\ \A e \in Found : \E i \in DOMAIN results : e[2] \in results[i].gave
<1>1. \A p : p \in Given <=> p \in got \/ \E i \in DOMAIN results : p \in results[i].gave
  BY DEF Given
<1>2. ASSUME NEW e \in Found  PROVE \E i \in DOMAIN results : e[2] \in results[i].gave
  BY DEF Found
<1> QED BY <1>1, <1>2

(* A button more, or none.                                                 *)
LEMMA ButtonsGrow ==
  ASSUME SessionKept, NEW b \in PhaseNames \cup {"llm"}, buttons' = buttons \cup {b}
  PROVE  /\ buttons' \subseteq PhaseNames \cup {"llm"} /\ Cardinality(buttons') \in Nat
         /\ Cardinality(buttons') = IF b \in buttons THEN Cardinality(buttons) ELSE Cardinality(buttons) + 1
<1>1. IsFiniteSet(buttons) /\ Cardinality(buttons) \in Nat
  BY SessionPasses
<1>2. Cardinality(buttons') = IF b \in buttons THEN Cardinality(buttons) ELSE Cardinality(buttons) + 1
  BY <1>1, FS_AddElement
<1> QED BY <1>1, <1>2 DEF SessionKept

LEMMA CaptureSteps ==
  ASSUME SessionInv, PhaseFails \/ CaptureEnds
  PROVE  SessionInv'
<1>1. SessionKept /\ PhasesCounted /\ GivenFresh /\ ReportSoFar
  BY SessionTypes DEF SessionInv
<1>2. PICK result : /\ NextCapture(result) /\ NewTracker /\ step = "files"
                    /\ result = Failed \/ result = [file |-> Head(left), ok |-> TRUE, gave |-> got]
                    /\ buttons' = buttons \/ \E b \in PhaseNames : buttons' = buttons \cup {b}
                    /\ UNCHANGED <<source, pipeline, active, background, skip, done, pass, shown, text, report, llmStatus, late, clicks>>
  <2>1. CASE PhaseFails
    <3>1. Head(ahead) \in PhaseNames
      BY <1>1, <2>1 DEF PhaseFails, SessionKept
    <3> QED BY <2>1, <3>1 DEF PhaseFails, flags
  <2>2. CASE CaptureEnds
    BY <2>2 DEF CaptureEnds, flags
  <2> QED BY <2>1, <2>2
<1>3. /\ results' = Append(results, result) /\ left' = Tail(left) /\ ahead' = pipeline /\ got' = {} /\ overall' = 0
      /\ step' = IF Len(left) = 1 THEN "features" ELSE "files"
  BY <1>2 DEF NextCapture, NewTracker
<1>4. left \in Seq(Files) /\ left # <<>> /\ pipeline \in Seq(PhaseNames) /\ results \in Seq(Results) /\ Len(left) \in Nat \ {0}
      /\ Len(results) \in Nat /\ Len(pipeline) \in Nat /\ Len(source) \in Nat
  BY <1>1, <1>2, SessionPasses, LenProperties DEF SessionKept
<1>5. result \in Results /\ result.gave \subseteq got
  <2>1. Head(left) \in Files
    BY <1>4
  <2>2. got \subseteq PhaseNames
    BY <1>1 DEF SessionKept
  <2>3. CASE result = Failed
    BY <2>1, <2>3 DEF Failed, Results
  <2>4. CASE result = [file |-> Head(left), ok |-> TRUE, gave |-> got]
    BY <2>1, <2>2, <2>4 DEF Results
  <2> QED BY <1>2, <2>3, <2>4
<1>6. /\ left' \in Seq(Files) /\ Len(left') = Len(left) - 1
      /\ results' \in Seq(Results) /\ Len(results') = Len(results) + 1
      /\ \A i \in DOMAIN results' : (i \in DOMAIN results /\ results'[i] = results[i]) \/ results'[i] = result
  <2>1. left' \in Seq(Files) /\ Len(left') = Len(left) - 1
    BY <1>3, <1>4, HeadTailProperties
  <2>2. /\ results' \in Seq(Results) /\ Len(results') = Len(results) + 1 /\ results'[Len(results) + 1] = result
        /\ \A i \in 1..Len(results) : results'[i] = results[i]
    BY <1>3, <1>4, <1>5, AppendProperties
  <2>3. DOMAIN results = 1..Len(results) /\ DOMAIN results' = 1..(Len(results) + 1)
    BY <1>4, <2>2, LenProperties
  <2> QED BY <1>4, <2>1, <2>2, <2>3
<1>7. SessionKept'
  <2>1. Len(left') + Len(results') <= Len(source') /\ Len(ahead') <= Len(pipeline') /\ overall' \in Nat
    BY <1>1, <1>2, <1>3, <1>4, <1>6 DEF SessionKept
  <2>2. step' \in Steps /\ (step' = "files" => left' # <<>>) /\ (step' # "idle" => active' /\ ~background')
    <3>1. step' = "files" => Len(left') # 0
      BY <1>3, <1>4, <1>6
    <3>2. left' # <<>> \/ Len(left') = 0
      BY <1>6, EmptySeq
    <3> QED BY <1>1, <1>2, <1>3, <3>1, <3>2, SessionNames DEF SessionKept
  <2>3. buttons' \subseteq PhaseNames \cup {"llm"} /\ got' \subseteq PhaseNames /\ ahead' \in Seq(PhaseNames)
    BY <1>1, <1>2, <1>3, <1>4 DEF SessionKept
  <2> QED BY <1>1, <1>2, <1>6, <2>1, <2>2, <2>3 DEF SessionKept
<1>8. PhasesCounted'
  <2>1. Cardinality(buttons') \in Nat
    BY <1>1, <1>2, ButtonsGrow, SessionPasses
  <2> QED BY <1>2, <1>3, <1>4, <2>1 DEF PhasesCounted
<1>9. GivenFresh'
  <2>1. \A p \in Given' : p \in Given
    <3>1. ASSUME NEW p \in Given'  PROVE p \in Given
      <4>1. PICK i \in DOMAIN results' : p \in results'[i].gave
        BY <1>3, <3>1 DEF Given
      <4>2. p \in got \/ \E j \in DOMAIN results : p \in results[j].gave
        BY <1>5, <1>6, <4>1
      <4> QED BY <4>2, GivenIs
    <3> QED BY <3>1
  <2> QED BY <1>1, <1>2, <2>1 DEF GivenFresh
<1>10. ShownSoFar' /\ ReportSoFar'
  <2>1. step' \in {"files", "features"}
    BY <1>3
  <2> QED BY <1>1, <1>2, <2>1, SessionNames DEF ShownSoFar, ReportSoFar
<1>11. ShownOfOnePass' /\ ReportOnShown'
  BY <1>3 DEF ShownOfOnePass, Whole, ReportOnShown
<1> QED BY <1>7, <1>8, <1>9, <1>10, <1>11, SessionTypes DEF SessionInv

(* A part of what is shown is replaced, or kept.                           *)
LEMMA PutKeeps ==
  ASSUME SessionKept, NEW x \in Parts, NEW n \in 0..pass, Put(x, n)
  PROVE  /\ shown'.features = shown.features /\ shown'.evidence = shown.evidence /\ shown'.part \in [Parts -> 0..pass]
         /\ shown' \in [features : Nat, evidence : SUBSET (Files \X PhaseNames), part : [Parts -> Nat]]
         /\ shown'.part[x] = n /\ \A y \in Parts : y # x => shown'.part[y] = shown.part[y]
<1>1. /\ shown \in [features : Nat, evidence : SUBSET (Files \X PhaseNames), part : [Parts -> Nat]]
      /\ shown.part \in [Parts -> 0..pass] /\ pass \in Nat
  BY SessionPasses DEF SessionKept
<1>2. /\ shown'.part = [shown.part EXCEPT ![x] = n] /\ shown'.features = shown.features /\ shown'.evidence = shown.evidence
      /\ shown' = [features |-> shown.features, evidence |-> shown.evidence, part |-> shown'.part]
  BY <1>1 DEF Put
<1>3. shown'.part \in [Parts -> 0..pass] /\ shown'.part[x] = n /\ \A y \in Parts : y # x => shown'.part[y] = shown.part[y]
  BY <1>1, <1>2
<1>4. shown'.part \in [Parts -> Nat]
  BY <1>1, <1>3
<1> QED BY <1>1, <1>2, <1>3, <1>4

LEMMA WithinCapture ==
  ASSUME SessionInv, PhaseEnds \/ PhaseHasNoInput
  PROVE  SessionInv'
<1>1. SessionKept /\ PhasesCounted /\ GivenFresh /\ ReportSoFar
  BY SessionTypes DEF SessionInv
<1>2. /\ step = "files" /\ ahead # <<>> /\ ahead' = Tail(ahead) /\ step' = step
      /\ UNCHANGED <<source, pipeline, active, background, skip, pass, left, results, text, report, llmStatus, late, clicks>>
  BY DEF PhaseEnds, PhaseHasNoInput, flags
<1>3. /\ ahead \in Seq(PhaseNames) /\ Head(ahead) \in PhaseNames /\ ahead' \in Seq(PhaseNames)
      /\ Len(ahead) \in Nat /\ Len(ahead') \in Nat /\ Len(ahead') = Len(ahead) - 1
  BY <1>1, <1>2, HeadTailProperties, LenProperties DEF SessionKept
<1>4. /\ Len(pipeline) \in Nat /\ Cardinality(buttons) \in Nat /\ overall \in Nat /\ pass \in Nat
      /\ overall <= Cardinality(buttons) /\ overall + Len(ahead) <= Len(pipeline) /\ Len(ahead) <= Len(pipeline)
  BY <1>1, SessionPasses DEF SessionKept, PhasesCounted
<1>5. CASE PhaseHasNoInput
  <2>1. UNCHANGED <<skip, done, got, buttons, overall, shown>>
    BY <1>5 DEF PhaseHasNoInput, flags
  <2>2. SessionKept'
    <3>1. Len(ahead') <= Len(pipeline')
      BY <1>2, <1>3, <1>4
    <3> QED BY <1>1, <1>2, <1>3, <2>1, <3>1 DEF SessionKept
  <2>3. PhasesCounted'
    BY <1>2, <1>3, <1>4, <2>1 DEF PhasesCounted
  <2>4. GivenFresh' /\ ShownSoFar' /\ ReportSoFar' /\ ShownOfOnePass' /\ ReportOnShown'
    BY <1>1, <1>2, <2>1, SessionNames DEF GivenFresh, Given, ShownSoFar, ReportSoFar, ShownOfOnePass, Whole, ReportOnShown
  <2> QED BY <2>2, <2>3, <2>4, SessionTypes DEF SessionInv
<1>6. CASE PhaseEnds
  <2> DEFINE p == Head(ahead)
  <2>1. /\ buttons' = buttons \cup {p} /\ p \notin buttons
        /\ done' \in {done, done \cup {p}} /\ overall' \in {overall, overall + 1}
        /\ got' = (IF p \in skip THEN got ELSE got \cup {p})
        /\ shown' = (IF p = "yara" THEN [shown EXCEPT !.part["yara"] = pass] ELSE shown)
    BY <1>4, <1>6 DEF PhaseEnds, CountedIn, Unreported
  <2>2. buttons' \subseteq PhaseNames \cup {"llm"} /\ Cardinality(buttons') \in Nat /\ Cardinality(buttons') = Cardinality(buttons) + 1
    BY <1>1, <1>3, <2>1, ButtonsGrow
  <2>3. /\ shown'.features = shown.features /\ shown'.part \in [Parts -> 0..pass]
        /\ shown' \in [features : Nat, evidence : SUBSET (Files \X PhaseNames), part : [Parts -> Nat]]
        /\ shown'.part["yara"] = IF p = "yara" THEN pass ELSE shown.part["yara"]
    <3>1. /\ shown \in [features : Nat, evidence : SUBSET (Files \X PhaseNames), part : [Parts -> Nat]]
          /\ shown.part \in [Parts -> 0..pass] /\ "yara" \in Parts /\ pass \in 0..pass
      BY <1>1, <1>4, SessionNames DEF SessionKept
    <3>2. CASE p = "yara"
      BY <1>1, <2>1, <3>1, <3>2, PutKeeps DEF Put
    <3>3. CASE p # "yara"
      BY <2>1, <3>1, <3>3
    <3> QED BY <3>2, <3>3
  <2>4. SessionKept'
    <3>1. done' \subseteq PhaseNames \cup {"llm"} /\ got' \subseteq PhaseNames /\ overall' \in Nat /\ Len(ahead') <= Len(pipeline')
      <4>1. done \subseteq PhaseNames \cup {"llm"} /\ got \subseteq PhaseNames
        BY <1>1 DEF SessionKept
      <4>2. done' \subseteq PhaseNames \cup {"llm"} /\ got' \subseteq PhaseNames
        BY <1>3, <2>1, <4>1
      <4> QED BY <1>2, <1>3, <1>4, <2>1, <4>2
    <3>2. shown'.features \in 0..pass
      BY <1>1, <2>3 DEF SessionKept
    <3> QED BY <1>1, <1>2, <1>3, <2>2, <2>3, <3>1, <3>2 DEF SessionKept
  <2>5. PhasesCounted'
    BY <1>2, <1>3, <1>4, <2>1, <2>2 DEF PhasesCounted
  <2>6. GivenFresh'
    <3>1. \A q \in Given' : q \in Given \/ (q = p /\ p \notin skip)
      BY <1>2, <2>1 DEF Given
    <3> QED BY <1>1, <1>2, <2>3, <3>1 DEF GivenFresh
  <2>7. p # "llm"
    BY <1>3 DEF PhaseNames
  <2>8. ShownSoFar' /\ ShownOfOnePass' /\ ReportOnShown'
    BY <1>2, SessionNames DEF ShownSoFar, ShownOfOnePass, Whole, ReportOnShown
  <2>9. ReportSoFar'
    BY <1>1, <1>2, <2>1, <2>7 DEF ReportSoFar
  <2> QED BY <2>4, <2>5, <2>6, <2>8, <2>9, SessionTypes DEF SessionInv
<1> QED BY <1>5, <1>6

LEMMA StoreSteps ==
  ASSUME SessionInv, Store
  PROVE  SessionInv'
<1>1. SessionKept /\ PhasesCounted /\ GivenFresh /\ ShownSoFar /\ ReportSoFar
  BY SessionTypes DEF SessionInv
<1>2. /\ UNCHANGED <<source, pipeline, active, background, skip, done, pass, left, ahead, got, results, buttons, overall, text,
                     report, llmStatus, late, clicks>>
      /\ step # "idle" /\ active /\ ~background
      /\ StoreFeatures \/ StoreOsint \/ StoreNames \/ Correlate \/ StoreViews \/ MapAttack
  <2>1. step # "idle"
    BY DEF Store, StoreFeatures, StoreOsint, StoreNames, Correlate, StoreViews, MapAttack
  <2> QED BY <1>1, <2>1 DEF Store, flags, work, SessionKept
<1>3. pass \in Nat /\ pass \in 0..pass /\ 0 \in 0..pass
  BY <1>1, SessionPasses
<1>4. UNCHANGED shown \/ \E x \in Parts, n \in 0..pass : Put(x, n) \/ StoreFeatures
  <2>1. {"osint", "names", "correlations", "views", "attack"} \subseteq Parts /\ {0, pass} \subseteq 0..pass
    BY <1>3 DEF Parts
  <2>2. CASE StoreFeatures \/ StoreOsint \/ StoreNames
    BY <1>3, <2>1, <2>2 DEF StoreOsint, StoreNames
  <2>3. CASE Correlate \/ StoreViews
    BY <1>3, <2>1, <2>3 DEF Correlate, StoreViews
  <2>4. CASE MapAttack
    BY <1>3, <2>1, <2>4 DEF MapAttack
  <2> QED BY <1>2, <2>2, <2>3, <2>4
<1>5. CASE StoreFeatures
  <2>1. step = "features" /\ step' = "osint" /\ shown' = [shown EXCEPT !.features = pass, !.evidence = Found]
    BY <1>5 DEF StoreFeatures
  <2>2. Found \subseteq Files \X PhaseNames
    <3>1. \A i \in DOMAIN results : results[i] \in Results
      BY <1>1 DEF SessionKept
    <3> QED BY <3>1 DEF Found, Results
  <2>3. /\ shown \in [features : Nat, evidence : SUBSET (Files \X PhaseNames), part : [Parts -> Nat]]
        /\ shown.part \in [Parts -> 0..pass]
    BY <1>1 DEF SessionKept
  <2>4. /\ shown'.features = pass /\ shown'.evidence = Found /\ shown'.part = shown.part
        /\ shown' = [features |-> pass, evidence |-> Found, part |-> shown.part]
    BY <2>1, <2>3
  <2>5. shown' \in [features : Nat, evidence : SUBSET (Files \X PhaseNames), part : [Parts -> Nat]]
    BY <1>3, <2>2, <2>3, <2>4
  <2>6. SessionKept'
    <3>1. shown'.features \in 0..pass' /\ shown'.part \in [Parts -> 0..pass']
      BY <1>2, <1>3, <2>3, <2>4
    <3>2. step' \in Steps /\ step' # "files"
      BY <2>1 DEF Steps
    <3> QED BY <1>1, <1>2, <2>5, <3>1, <3>2 DEF SessionKept
  <2>7. \A e \in shown'.evidence : e[2] \in Given
    BY <2>4, GivenIs
  <2>8. ShownSoFar'
    <3>1. "osint" \notin AfterOsint /\ "osint" \notin AfterNames /\ "osint" \notin {"llm", "report", "end"}
      BY DEF AfterOsint, AfterNames
    <3>2. \A e \in shown'.evidence : e[2] \notin skip' /\ (e[2] = "yara" => shown'.part["yara"] = pass')
      BY <1>1, <1>2, <2>4, <2>7 DEF GivenFresh
    <3> QED BY <1>2, <2>1, <2>4, <3>1, <3>2 DEF ShownSoFar
  <2>9. PhasesCounted' /\ GivenFresh' /\ ReportSoFar'
    BY <1>1, <1>2, <2>1, <2>4 DEF PhasesCounted, GivenFresh, Given, ReportSoFar
  <2>10. ShownOfOnePass' /\ ReportOnShown'
    BY <2>1 DEF ShownOfOnePass, Whole, ReportOnShown
  <2> QED BY <2>6, <2>8, <2>9, <2>10, SessionTypes DEF SessionInv
<1>6. CASE ~StoreFeatures
  <2>1. /\ shown'.features = shown.features /\ shown'.evidence = shown.evidence /\ shown'.part \in [Parts -> 0..pass]
        /\ shown' \in [features : Nat, evidence : SUBSET (Files \X PhaseNames), part : [Parts -> Nat]]
    <3>1. CASE UNCHANGED shown
      BY <1>1, <3>1 DEF SessionKept
    <3>2. ASSUME NEW x \in Parts, NEW n \in 0..pass, Put(x, n)
          PROVE  /\ shown'.features = shown.features /\ shown'.evidence = shown.evidence /\ shown'.part \in [Parts -> 0..pass]
                 /\ shown' \in [features : Nat, evidence : SUBSET (Files \X PhaseNames), part : [Parts -> Nat]]
      BY <1>1, <3>2, PutKeeps
    <3> QED BY <1>4, <1>6, <3>1, <3>2
  <2>2. \/ step = "osint" /\ step' = "names" /\ Put("osint", pass)
        \/ step = "names" /\ step' = "correlations" /\ Put("names", pass)
        \/ step = "correlations" /\ step' \in {"views", "attack"} /\ (Put("correlations", pass) \/ UNCHANGED shown)
        \/ step = "views" /\ step' = "attack" /\ (Put("views", pass) \/ UNCHANGED shown)
        \/ step = "attack" /\ step' = "llm" /\ (Put("attack", 0) \/ Put("attack", pass))
    <3>1. CASE StoreOsint \/ StoreNames
      BY <3>1 DEF StoreOsint, StoreNames
    <3>2. CASE Correlate
      BY <3>2 DEF Correlate
    <3>3. CASE StoreViews
      BY <3>3 DEF StoreViews
    <3>4. CASE MapAttack
      BY <3>4 DEF MapAttack
    <3> QED BY <1>2, <1>6, <3>1, <3>2, <3>3, <3>4
  <2>3. \A x \in Parts, n \in 0..pass : Put(x, n) =>
          shown'.part[x] = n /\ \A y \in Parts : y # x => shown'.part[y] = shown.part[y]
    BY <1>1, PutKeeps
  <2>4. {"osint", "names", "correlations", "views", "attack", "yara"} = Parts
    BY SessionNames
  <2>5. /\ shown'.part["yara"] = shown.part["yara"]
        /\ shown'.part["osint"] = IF step = "osint" THEN pass ELSE shown.part["osint"]
        /\ shown'.part["names"] = IF step = "names" THEN pass ELSE shown.part["names"]
        /\ step = "attack" => shown'.part["attack"] \in {0, pass}
    BY <1>3, <2>2, <2>3, <2>4
  <2>6. step \in AfterFeatures /\ step' \in AfterOsint /\ (step' \in AfterNames <=> step # "osint")
        /\ (step \in AfterOsint <=> step # "osint") /\ (step \in AfterNames <=> step \notin {"osint", "names"})
        /\ (step' \in {"llm", "report", "end"} <=> step = "attack") /\ step' # "files" /\ step' # "idle" /\ step' # "features"
    BY <2>2 DEF AfterFeatures, AfterOsint, AfterNames
  <2>7. shown.features = pass /\ (step # "osint" => shown.part["osint"] = pass)
        /\ (step \notin {"osint", "names"} => shown.part["names"] = pass)
        /\ \A e \in shown.evidence : e[2] \notin skip /\ (e[2] = "yara" => shown.part["yara"] = pass)
    BY <1>1, <2>6 DEF ShownSoFar
  <2>8. SessionKept'
    <3>1. step' \in Steps
      BY <2>6, SessionNames
    <3>2. shown'.features \in 0..pass'
      BY <1>2, <1>3, <2>1, <2>7
    <3> QED BY <1>1, <1>2, <2>1, <2>6, <3>1, <3>2 DEF SessionKept
  <2>9. PhasesCounted' /\ GivenFresh'
    BY <1>1, <1>2, <2>5 DEF PhasesCounted, GivenFresh, Given
  <2>10. ShownSoFar'
    BY <1>2, <2>1, <2>5, <2>6, <2>7 DEF ShownSoFar
  <2>11. ReportSoFar' /\ ReportOnShown'
    BY <1>1, <1>2, <2>2 DEF ReportSoFar, ReportOnShown
  <2>12. ShownOfOnePass'
    BY <1>2, <2>1, <2>2, <2>5, <2>7 DEF ShownOfOnePass, Whole
  <2> QED BY <2>8, <2>9, <2>10, <2>11, <2>12, SessionTypes DEF SessionInv
<1> QED BY <1>5, <1>6

LEMMA ReportSteps ==
  ASSUME SessionInv, WriteText \/ StoreReport \/ EndRun
  PROVE  SessionInv'
<1>1. SessionKept /\ PhasesCounted /\ GivenFresh /\ ShownSoFar /\ ReportSoFar /\ ShownOfOnePass
  BY SessionTypes DEF SessionInv
<1>2. UNCHANGED <<source, pipeline, background, skip, pass, left, ahead, got, results, overall, shown, late, clicks>>
  BY DEF WriteText, StoreReport, EndRun, flags, work
<1>3. /\ \/ step = "llm" /\ step' = "report"
         \/ step = "report" /\ step' = "end"
         \/ step = "end" /\ step' = "idle"
      /\ step \in {"llm", "report", "end"} /\ step' \in {"report", "end", "idle"}
      /\ active' = (step' # "idle") /\ active /\ ~background
  BY <1>1 DEF WriteText, StoreReport, EndRun, Ended, SessionKept
<1>4. /\ shown.features = pass /\ pass \in 0..pass /\ pass \in Nat
      /\ \A e \in shown.evidence : e[2] \notin skip /\ (e[2] = "yara" => shown.part["yara"] = pass)
      /\ shown.part["osint"] = pass /\ shown.part["names"] = pass /\ shown.part["attack"] \in {0, pass}
  BY <1>1, <1>3, SessionNames, SessionPasses DEF ShownSoFar
<1>5. ShownSoFar' /\ ShownOfOnePass'
  BY <1>2, <1>3, <1>4, SessionNames DEF ShownSoFar, ShownOfOnePass, Whole
<1>6. GivenFresh'
  BY <1>1, <1>2 DEF GivenFresh, Given
<1>7. step' \in Steps /\ step' # "files"
  BY <1>3 DEF Steps
<1>8. CASE WriteText
  <2>1. /\ step = "llm" /\ step' = "report" /\ UNCHANGED <<active, report>> /\ buttons' = buttons \cup {"llm"}
        /\ done' \in {done, done \cup {"llm"}} /\ text' \in {0, pass, report}
        /\ llmStatus' \in {"none", "skipped", "generated"}
        /\ "llm" \notin done => text' \in {0, pass} /\ (llmStatus' = "generated" => text' # 0 \/ llmStatus = "generated")
    BY <1>1, <1>8 DEF WriteText, SessionKept
  <2>2. buttons' \subseteq PhaseNames \cup {"llm"} /\ Cardinality(buttons') \in Nat /\ Cardinality(buttons') >= Cardinality(buttons)
    <3>1. Cardinality(buttons) \in Nat
      BY <1>1, SessionPasses
    <3>2. "llm" \in PhaseNames \cup {"llm"}
      OBVIOUS
    <3> QED BY <1>1, <2>1, <3>1, <3>2, ButtonsGrow
  <2>3. SessionKept'
    <3>1. done' \subseteq PhaseNames \cup {"llm"} /\ text' \in 0..pass'
      BY <1>1, <1>2, <1>4, <2>1 DEF SessionKept
    <3> QED BY <1>1, <1>2, <1>3, <1>7, <2>1, <2>2, <3>1 DEF SessionKept
  <2>4. PhasesCounted'
    <3>1. overall \in Nat /\ Cardinality(buttons) \in Nat
      BY <1>1, SessionPasses DEF SessionKept
    <3> QED BY <1>1, <1>2, <2>2, <3>1 DEF PhasesCounted
  <2>5. ReportSoFar' /\ ReportOnShown'
    BY <1>1, <1>2, <1>3, <2>1 DEF ReportSoFar, ReportOnShown
  <2> QED BY <1>5, <1>6, <2>3, <2>4, <2>5, SessionTypes DEF SessionInv
<1>9. CASE StoreReport \/ EndRun
  <2>1. /\ UNCHANGED <<done, buttons, text, llmStatus>>
        /\ (step = "report" /\ step' = "end" /\ report' = text) \/ (step = "end" /\ step' = "idle" /\ report' = report)
    BY <1>9 DEF StoreReport, EndRun, flags
  <2>2. SessionKept'
    BY <1>1, <1>2, <1>3, <1>7, <2>1 DEF SessionKept
  <2>3. PhasesCounted'
    BY <1>1, <1>2, <2>1 DEF PhasesCounted
  <2>4. ReportSoFar' /\ ReportOnShown'
    BY <1>1, <1>2, <1>3, <1>4, <2>1 DEF ReportSoFar, ReportOnShown
  <2> QED BY <1>5, <1>6, <2>2, <2>3, <2>4, SessionTypes DEF SessionInv
<1> QED BY <1>8, <1>9

LEMMA SessionStarts ==
  ASSUME SessionInit
  PROVE  SessionInv
<1>1. /\ source \in Captured /\ pipeline \in Pipelines /\ active = FALSE /\ background = FALSE
      /\ skip = {} /\ done = {} /\ step = "idle" /\ pass = 0 /\ left = <<>> /\ ahead = <<>> /\ got = {} /\ results = <<>>
      /\ buttons = {} /\ overall = 0 /\ shown = Nothing /\ text = 0 /\ report = 0 /\ llmStatus = "none" /\ late = FALSE /\ clicks = 0
  BY DEF SessionInit
<1>2. shown.features = 0 /\ shown.evidence = {} /\ shown.part = [x \in Parts |-> 0]
      /\ shown = [features |-> 0, evidence |-> {}, part |-> [x \in Parts |-> 0]]
  BY <1>1 DEF Nothing
<1>3. [x \in Parts |-> 0] \in [Parts -> 0..0] /\ [x \in Parts |-> 0] \in [Parts -> Nat]
  OBVIOUS
<1>4. Len(source) \in Nat /\ Len(pipeline) \in Nat /\ MaxClicks \in Nat
  BY <1>1, SessionAssumption, LenProperties
<1>5. left \in Seq(Files) /\ ahead \in Seq(PhaseNames) /\ results \in Seq(Results) /\ Len(left) = 0 /\ Len(ahead) = 0 /\ Len(results) = 0
  BY <1>1, EmptySeq
<1>6. shown \in [features : Nat, evidence : SUBSET (Files \X PhaseNames), part : [Parts -> Nat]]
  BY <1>2, <1>3
<1>7. SessionKept
  <2>1. shown.features \in 0..pass /\ shown.part \in [Parts -> 0..pass]
    BY <1>1, <1>2, <1>3
  <2>2. Len(left) + Len(results) <= Len(source) /\ Len(ahead) <= Len(pipeline) /\ overall \in Nat /\ clicks \in 0..MaxClicks
        /\ pass \in 0..clicks /\ text \in 0..pass /\ report \in 0..pass
    BY <1>1, <1>4, <1>5
  <2>3. /\ active \in BOOLEAN /\ background \in BOOLEAN /\ late \in BOOLEAN
        /\ step \in Steps /\ step # "files" /\ llmStatus \in {"none", "skipped", "generated"}
    BY <1>1 DEF Steps
  <2>4. /\ skip \subseteq PhaseNames \cup {"llm"} /\ done \subseteq PhaseNames \cup {"llm"}
        /\ buttons \subseteq PhaseNames \cup {"llm"} /\ got \subseteq PhaseNames
    BY <1>1
  <2> QED BY <1>1, <1>5, <1>6, <2>1, <2>2, <2>3, <2>4 DEF SessionKept
<1>8. PhasesCounted
  BY <1>1, <1>4, <1>5, FS_EmptySet DEF PhasesCounted
<1>9. GivenFresh
  <2>1. Given = {}
    BY <1>1 DEF Given
  <2> QED BY <2>1 DEF GivenFresh
<1>10. ShownSoFar /\ ReportSoFar
  BY <1>1, SessionNames DEF ShownSoFar, ReportSoFar
<1>11. ShownOfOnePass
  <2>1. \A x \in {"osint", "names", "attack"} : shown.part[x] = 0
    BY <1>2, SessionNames
  <2> QED BY <1>2, <2>1 DEF ShownOfOnePass
<1>12. ReportOnShown
  BY <1>1 DEF ReportOnShown
<1> QED BY <1>7, <1>8, <1>9, <1>10, <1>11, <1>12, SessionTypes DEF SessionInv

(* For any captures, settings and number of clicks: what a pass has found, *)
(* begun and put in place of what the session shows, at each of its steps  *)
(* (main.py, state.py).                                                    *)
THEOREM SessionInvariant == SessionSpec => []SessionInv
<1>1. SessionInit => SessionInv
  BY SessionStarts
<1>2. SessionInv /\ [SessionNext]_sessionVars => SessionInv'
  <2> SUFFICES ASSUME SessionInv, [SessionNext]_sessionVars  PROVE SessionInv'
    OBVIOUS
  <2>1. CASE ScriptStep
    BY <2>1, CaptureSteps, WithinCapture, StoreSteps, ReportSteps DEF ScriptStep
  <2>2. CASE UserStep
    BY <2>2, UserSteps
  <2>3. CASE UNCHANGED sessionVars
    <3>1. SessionKept /\ PhasesCounted /\ GivenFresh /\ ShownSoFar /\ ReportSoFar /\ ShownOfOnePass /\ ReportOnShown
      BY SessionTypes DEF SessionInv
    <3>2. UNCHANGED <<source, pipeline, active, background, skip, done, step, pass, left, ahead, got, results, buttons, overall,
                      shown, text, report, llmStatus, late, clicks>>
      BY <2>3 DEF sessionVars, flags, work
    <3>3. SessionKept'
      BY <3>1, <3>2 DEF SessionKept
    <3>4. PhasesCounted' /\ GivenFresh' /\ ShownSoFar' /\ ReportSoFar' /\ ShownOfOnePass' /\ ReportOnShown'
      BY <3>1, <3>2 DEF PhasesCounted, GivenFresh, Given, ShownSoFar, ReportSoFar, ShownOfOnePass, Whole, ReportOnShown
    <3> QED BY <3>3, <3>4, SessionTypes DEF SessionInv
  <2> QED BY <2>1, <2>2, <2>3 DEF SessionNext
<1> QED BY <1>1, <1>2, PTL DEF SessionSpec

(* What a run in the session shows when it is over is what one pass of it  *)
(* found, without the phases that were skipped and with a report on        *)
(* nothing else, however many clicks cut passes short (main.py, state.py). *)
THEOREM SessionIsOneRun == SessionSpec => []SessionShowsOneRun
<1>1. ASSUME SessionInv  PROVE SessionShowsOneRun
  <2>1. SessionTypeOK /\ SessionKept /\ PhasesCounted /\ ShownSoFar /\ ShownOfOnePass /\ ReportOnShown
    BY <1>1, SessionTypes DEF SessionInv, SessionTyped
  <2>2. SkipsHonoured
    BY <2>1, SessionNames DEF ShownSoFar, SkipsHonoured
  <2>3. OverallWithin
    BY <2>1, SessionPasses DEF PhasesCounted, OverallWithin, SessionKept
  <2> QED BY <2>1, <2>2, <2>3 DEF SessionShowsOneRun
<1>2. SessionInv => SessionShowsOneRun
  BY <1>1
<1> QED BY <1>2, SessionInvariant, PTL
=============================================================================
