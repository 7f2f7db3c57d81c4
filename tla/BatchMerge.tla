---------------------------- MODULE BatchMerge -----------------------------
(***************************************************************************)
(* Saved analyses opened in the workbench, one or several together         *)
(* (app/ui/cases_tab.py, restore_analyses_to_session): several are merged  *)
(* and correlated by app/pipeline/batch.py.                                *)
(*                                                                         *)
(* An analysis is saved by a worker from a capture of Captures.  Zeek's    *)
(* logs stay on disk until the sweep takes them.                           *)
(***************************************************************************)
EXTENDS Detections

CONSTANTS
  Captures,               \* captures a worker may have analysed
  MaxSaved,               \* bound on the analyses saved
  DnsKinds,               \* dga, tunneling, fast_flux
  MAX_RESULTS,            \* detections kept of each kind (50, 20, 20)
  MAX_COMMON_INDICATORS,  \* shared indicators listed (100)
  MAX_BEACON_CANDIDATES   \* beacons of a batch (50)

ASSUME BatchAssumption ==
  /\ {MaxSaved, MAX_COMMON_INDICATORS, MAX_BEACON_CANDIDATES} \subseteq Nat
  /\ MAX_RESULTS \in [DnsKinds -> Nat]

(* What a worker has of a capture: providers are asked of its indicators.  *)
CaptureTypeOK(c) ==
  /\ c.packets \in Nat /\ c.zeek \in BOOLEAN
  /\ \A xs \in {c.flows, c.ssl, c.carved, c.rules} : IsSequence(xs)
  /\ \A f \in Entries(c.flows) : FlowTypeOK(f)
  /\ IsFiniteSet(c.indicators) /\ c.indicators \subseteq Int \X Int /\ DOMAIN c.osint \subseteq c.indicators
  /\ \/ c.dns.kind \in {"none", "error"}
     \/ /\ c.dns.kind = "ran"
        /\ \A k \in DnsKinds : /\ IsSequence(c.dns.found[k])
                               /\ \A d \in Entries(c.dns.found[k]) : d.score \in Nat /\ d.hit \in BOOLEAN

ASSUME CapturesAssumption == \A c \in Captures : CaptureTypeOK(c)

VARIABLES
  saved,   \* analyses of the case, in the order they were saved
  swept,   \* those whose run directory is gone
  opened,  \* indices of the analyses on display
  view     \* st.session_state

batchVars == <<saved, swept, opened, view>>

-----------------------------------------------------------------------------
(* analyze_dns(): the alerts count every detection, the list is cut.       *)
DnsOf(found) ==
  [kind   |-> "ran",
   alerts |-> [k \in DnsKinds |-> CountIn(found[k], LAMBDA d : d.hit)],
   found  |-> [k \in DnsKinds |-> FirstOf(ByScore(found[k]), MAX_RESULTS[k])]]

Analysed(c) ==
  LET dns  == IF c.dns.kind = "ran" THEN DnsOf(c.dns.found) ELSE c.dns
      yara == ScanCarved(c.carved, c.rules)
  IN  [name |-> c.name, packets |-> c.packets, flows |-> c.flows, indicators |-> c.indicators,
       osint |-> c.osint, report |-> c.report, ssl |-> c.ssl, zeek |-> c.zeek, carved |-> c.carved, rules |-> Rules(c.rules), dns |-> dns,
       beacons |-> RankBeaconing(c.flows), yara |-> yara,
       metrics |-> BuildCaptureMetrics([packets |-> c.packets, flows |-> c.flows, zeek |-> c.zeek,
                                        dns |-> dns, yara |-> yara])]

-----------------------------------------------------------------------------
(* correlate_results(): the captures each indicator is in, by position.    *)
FilesOf(rs, x) == {i \in DOMAIN rs : x \in rs[i].indicators}
Indicators(rs) == UNION {rs[i].indicators : i \in DOMAIN rs}
Shared(rs) == {x \in Indicators(rs) : Cardinality(FilesOf(rs, x)) > 1}

(* An indicator is <<type, value>>.  Shared ones are collected by type and *)
(* in the order of the captures, then sorted by the number of captures.    *)
Collected(rs, x, y) ==
  \/ x[1] < y[1]
  \/ x[1] = y[1] /\ Lowest(FilesOf(rs, x)) < Lowest(FilesOf(rs, y))
  \/ x[1] = y[1] /\ Lowest(FilesOf(rs, x)) = Lowest(FilesOf(rs, y)) /\ x[2] < y[2]

(* Mutant: cut as collected.                                               *)
CommonAsCollected(rs) ==
  FirstOf(Listing(Shared(rs), LAMBDA x, y : Collected(rs, x, y)), MAX_COMMON_INDICATORS)

Common(rs) ==
  LET count(x)     == Cardinality(FilesOf(rs, x))
      before(x, y) == count(x) > count(y) \/ (count(x) = count(y) /\ Collected(rs, x, y))
  IN  FirstOf(Listing(Shared(rs), before), MAX_COMMON_INDICATORS)

(* Lists one after the other                                               *)
Joined(lists) ==
  LET upto[i \in 0..Len(lists)] == IF i = 0 THEN <<>> ELSE upto[i - 1] \o lists[i]
  IN  upto[Len(lists)]

AllFlows(rs) == Joined([i \in DOMAIN rs |-> rs[i].flows])

(* A time of zero is no time.                                              *)
TimeRange(rs) ==
  LET range == <<Earliest(AllFlows(rs)), Latest(AllFlows(rs))>>
  IN  IF {Missing, 0} \intersect {range[1], range[2]} = {} THEN range ELSE <<Missing, Missing>>

(* merge_osint(): a later answer of a provider replaces an earlier one.    *)
MergeOsint(rs) ==
  LET asked       == UNION {DOMAIN rs[i].osint : i \in DOMAIN rs}
      told(x, p)  == {i \in DOMAIN rs : x \in DOMAIN rs[i].osint /\ p \in DOMAIN rs[i].osint[x]}
      providers(x) == UNION {DOMAIN rs[i].osint[x] : i \in {i \in DOMAIN rs : x \in DOMAIN rs[i].osint}}
  IN  [x \in asked |-> [p \in providers(x) |-> rs[Highest(told(x, p))].osint[x][p]]]

MergeBeacons(rs) == FirstOf(ByScore(Joined([i \in DOMAIN rs |-> rs[i].beacons])), MAX_BEACON_CANDIDATES)

Found(r, k) == IF r.dns.kind = "ran" THEN r.dns.found[k] ELSE <<>>

(* aggregate_dns_analysis(): a result, whatever the captures have.         *)
AggregateDns(rs) ==
  LET all(k) == Joined([i \in DOMAIN rs |-> Found(rs[i], k)])
  IN  [kind   |-> "ran",
       alerts |-> [k \in DnsKinds |-> CountIn(all(k), LAMBDA d : d.hit)],
       found  |-> [k \in DnsKinds |-> FirstOf(ByScore(all(k)), MAX_RESULTS[k])]]

(* _merge_yara_results() collects the key "matches" of each scan, which no *)
(* scan has: what is shown of the merged result reads "matched".           *)
MergeYara(rs) ==
  LET scans == {i \in DOMAIN rs : rs[i].yara.kind # "none"}
  IN  IF scans = {} THEN NoYara ELSE [kind |-> "per_file", files |-> scans]

(* The alert the dashboard shows                                           *)
YaraMatched(yara) == IF yara.kind = "scanned" THEN yara.matched ELSE 0

(* extract_ja3_from_multiple_runs()                                        *)
Ja3OfAll(rs, gone) ==
  LET rows == Joined([i \in DOMAIN rs |-> Ja3Rows(rs[i].ssl, gone[i])])
  IN  AnalyzeJa3(IF Cardinality({i \in DOMAIN rs : rs[i].zeek}) > 1 THEN Distinct(rows) ELSE rows)

Reports(rs) ==
  Joined([i \in DOMAIN rs |-> IF rs[i].report = "" THEN <<>> ELSE <<<<rs[i].name, rs[i].report>>>>])

-----------------------------------------------------------------------------
(* restore_analyses_to_session() of one analysis and of several            *)
RestoredOne(r, gone) ==
  [page |-> "single", packets |-> r.packets, flows |-> r.flows, indicators |-> r.indicators,
   shared |-> {}, common |-> <<>>, range |-> <<Earliest(r.flows), Latest(r.flows)>>,
   osint |-> r.osint, dns |-> r.dns, beacons |-> r.beacons, yara |-> r.yara,
   ja3 |-> AnalyzeJa3(Ja3Rows(r.ssl, gone)), reports |-> Reports(<<r>>), metrics |-> r.metrics]

Merged(rs, gone) ==
  LET all == [packets |-> Total([i \in DOMAIN rs |-> rs[i].packets]), flows |-> AllFlows(rs), dns |-> AggregateDns(rs),
              zeek |-> \E i \in DOMAIN rs : rs[i].zeek, yara |-> MergeYara(rs)]
  IN  [page |-> "merged", packets |-> all.packets, flows |-> all.flows, indicators |-> Indicators(rs),
       shared |-> Shared(rs), common |-> Common(rs), range |-> TimeRange(rs),
       osint |-> MergeOsint(rs), dns |-> all.dns, beacons |-> MergeBeacons(rs), yara |-> all.yara,
       ja3 |-> Ja3OfAll(rs, gone), reports |-> Reports(rs), metrics |-> BuildCaptureMetrics(all)]

NoView == [page |-> "none"]
Chosen(ids) == [i \in DOMAIN ids |-> saved[ids[i]]]

BatchInit == saved = <<>> /\ swept = {} /\ opened = <<>> /\ view = NoView

SaveAnalysis(c) ==
  /\ Len(saved) < MaxSaved
  /\ saved' = Append(saved, Analysed(c))
  /\ UNCHANGED <<swept, opened, view>>

(* The sweep takes run directories by age.                                 *)
SweepRun ==
  /\ Cardinality(swept) < Len(saved)
  /\ swept' = swept \union {Cardinality(swept) + 1}
  /\ UNCHANGED <<saved, opened, view>>

Restore(ids) ==
  /\ ids # <<>>
  /\ opened' = ids
  /\ view' = IF Len(ids) = 1 THEN RestoredOne(saved[ids[1]], ids[1] \in swept)
             ELSE Merged(Chosen(ids), [i \in DOMAIN ids |-> ids[i] \in swept])
  /\ UNCHANGED <<saved, swept>>

(* Those of a case, in either order of their completion                    *)
Selections ==
  LET upward == {ids \in UNION {[1..n -> DOMAIN saved] : n \in 1..Len(saved)} :
                   \A i, j \in DOMAIN ids : i < j => ids[i] < ids[j]}
  IN  upward \union {[i \in DOMAIN ids |-> ids[Len(ids) + 1 - i]] : ids \in upward}

BatchNext ==
  \/ \E c \in Captures : SaveAnalysis(c)
  \/ SweepRun
  \/ \E ids \in Selections : Restore(ids)

-----------------------------------------------------------------------------
Files == Chosen(opened)
OnDisplay == view.page \in {"single", "merged"}

(* Cross-file indicators are exactly those of two or more of the opened    *)
(* captures, and none that the cut list leaves out is in more captures     *)
(* than one it shows (batch.py:184-229).                                   *)
MostSharedListed ==
  view.page = "merged" =>
    LET shown  == {view.common[i] : i \in DOMAIN view.common}
        in(x)  == Cardinality({i \in DOMAIN Files : x \in Files[i].indicators})
    IN  /\ \A x \in view.indicators : x \in view.shared <=> in(x) >= 2
        /\ shown \subseteq view.shared /\ Cardinality(shown) = Len(view.common)
        /\ \A x \in shown, y \in view.shared \ shown : in(x) >= in(y)

(* The time range of what is opened holds every flow of it and is no wider *)
(* (batch.py:167-180), and so says the metrics bar (visibility.py:65-68).  *)
RangeTight ==
  OnDisplay =>
    LET flows == {f \in UNION {{Files[i].flows[j] : j \in DOMAIN Files[i].flows} : i \in DOMAIN Files} :
                    FlowStart(f) # Missing}
    IN  /\ view.range = <<view.metrics.first_seen, view.metrics.last_seen>>
        /\ flows # {} => /\ \A f \in flows : view.range[1] <= FlowStart(f) /\ FlowEnd(f) <= view.range[2]
                         /\ \E f \in flows : view.range[1] = FlowStart(f)
                         /\ \E f \in flows : view.range[2] = FlowEnd(f)

(* Of the DNS detections of all opened captures the strongest are shown,   *)
(* though each capture's list was cut before (batch.py:386-398).           *)
StrongestDetectionsShown ==
  OnDisplay /\ view.dns.kind = "ran" =>
    \A k \in DnsKinds :
      \A i \in DOMAIN Files : \A d \in {Found(Files[i], k)[j] : j \in DOMAIN Found(Files[i], k)} :
        LET stronger == {n \in DOMAIN view.dns.found[k] : view.dns.found[k][n].score >= d.score}
        IN  \/ d \in {view.dns.found[k][n] : n \in stronger}
            \/ Cardinality(stronger) = MAX_RESULTS[k]

(* The alerts of a batch are those of its captures, as long as no          *)
(* capture's own list was cut (batch.py:399-403).                          *)
AlertsAddUp ==
  view.page = "merged" =>
    \A k \in DnsKinds :
      (\A i \in DOMAIN Files : Len(Found(Files[i], k)) < MAX_RESULTS[k]) =>
        view.dns.alerts[k] =
          Total([i \in DOMAIN Files |-> IF Files[i].dns.kind = "ran" THEN Files[i].dns.alerts[k] ELSE 0])

(* A verdict some capture has is shown, unless a later capture of the      *)
(* batch has another of the same provider (batch.py:290-303).              *)
VerdictsKept ==
  OnDisplay =>
    \A i \in DOMAIN Files : \A x \in DOMAIN Files[i].osint : \A p \in DOMAIN Files[i].osint[x] :
      \/ view.osint[x][p] = Files[i].osint[x][p]
      \/ \E j \in DOMAIN Files : /\ j > i /\ x \in DOMAIN Files[j].osint /\ p \in DOMAIN Files[j].osint[x]
                                 /\ view.osint[x][p] = Files[j].osint[x][p]

(* "batch results reflect all files rather than only the last ssl.log":    *)
(* a malware fingerprint of any log still on disk when it was opened is    *)
(* shown (ja3.py:404-434).                                                 *)
MalwareOfEveryLogShown ==
  OnDisplay => \A i \in DOMAIN opened :
    opened[i] \notin swept =>
      \A j \in DOMAIN saved[opened[i]].ssl :
        IsMalware(saved[opened[i]].ssl[j]) => saved[opened[i]].ssl[j] \in view.ja3.malware

(* Each report stands under the name of its own capture                    *)
(* (cases_tab.py:270-274).                                                 *)
ReportsUnderTheirNames ==
  OnDisplay =>
    LET shown == {view.reports[n] : n \in DOMAIN view.reports}
    IN  shown = {<<Files[i].name, Files[i].report>> : i \in {i \in DOMAIN Files : Files[i].report # ""}}

(* A detector named as a gap left nothing in any opened analysis           *)
(* (visibility.py:73-87).                                                  *)
GapsAreReal ==
  OnDisplay =>
    /\ "dns"  \in view.metrics.gaps => \A i \in DOMAIN Files : Files[i].dns.kind # "ran"
    /\ "yara" \in view.metrics.gaps => \A i \in DOMAIN Files : Files[i].yara.kind = "none"
    /\ "zeek" \in view.metrics.gaps => \A i \in DOMAIN Files : ~Files[i].zeek

(* A payload with the sign of a malware rule is told as critical, whatever *)
(* milder rules it matches too; it is not counted twice                    *)
(* (yara_scan.py:105-127, 384-460).                                        *)
WorstRuleDecides ==
  view.page = "single" /\ view.yara.kind = "scanned" =>
    LET bad == {i \in DOMAIN Files[1].carved :
                  /\ Files[1].carved[i].readable
                  /\ \E r \in Files[1].rules : r.tag = "malware" /\ r.finds \in Files[1].carved[i].signs}
    IN  view.yara.by_severity["critical"] = Cardinality(bad)

(* README.md:196, "Merged Dashboard - Aggregated results": payloads that   *)
(* YARA matched in a capture are alerts of the batch it is opened in.      *)
YaraMatchesAggregated ==
  OnDisplay => ((\E i \in DOMAIN Files : YaraMatched(Files[i].yara) > 0) => YaraMatched(view.yara) > 0)

(* No view without analyses; it is of what is opened.                      *)
BatchTypeOK ==
  /\ swept \subseteq DOMAIN saved
  /\ Len(opened) <= Len(saved) /\ {opened[i] : i \in DOMAIN opened} \subseteq DOMAIN saved
  /\ OnDisplay => /\ view.packets \in Nat /\ view.metrics.parsed \in Nat
                  /\ DOMAIN view.osint \subseteq view.indicators

(* A batch that is opened shows of its captures what they have in common,  *)
(* the strongest, every malware and every report, and no gap that is none  *)
(* (batch.py, cases_tab.py, visibility.py).                                *)
BatchHonest ==
  /\ BatchTypeOK /\ MostSharedListed /\ RangeTight /\ StrongestDetectionsShown /\ AlertsAddUp /\ VerdictsKept
  /\ MalwareOfEveryLogShown /\ ReportsUnderTheirNames /\ GapsAreReal /\ WorstRuleDecides
=============================================================================
