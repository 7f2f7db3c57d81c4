---------------------------- MODULE Detections -----------------------------
(***************************************************************************)
(* What an analysis saves of one capture besides its flows and DNS:        *)
(* payloads matched by YARA rules (app/pipeline/yara_scan.py), TLS         *)
(* fingerprints of Zeek's ssl.log (pipeline/ja3.py), beacons               *)
(* (pipeline/beacon.py) and the metrics that say which detectors ran       *)
(* (analysis/visibility.py).                                               *)
(*                                                                         *)
(* Rule files, payloads, fingerprints and flows are records of what the    *)
(* code tells apart.  A score counts ten-thousandths.                      *)
(***************************************************************************)
EXTENDS Integers, Sequences, FiniteSets

CONSTANTS
  KnownMalware,   \* fingerprints KNOWN_JA3_FINGERPRINTS marks as malware
  INFRA_ALLOWLIST,
  TopBeacons,     \* beacons an analysis keeps (20)
  BulkSamples,    \* samples of a flow that may be a download (200)
  BulkSize        \* mean size of its packets (500)

Missing == -1   \* of a time or a number that is missing

ASSUME DetectionsAssumption == {TopBeacons, BulkSamples, BulkSize} \subseteq Nat /\ "" \notin KnownMalware

-----------------------------------------------------------------------------
Entries(xs) == {xs[i] : i \in DOMAIN xs}
IsSequence(xs) == xs \in Seq(Entries(xs))

(* A flow that the parser has counted: times are positive, and it has the  *)
(* first and the last or, of an older version, neither.                    *)
FlowTypeOK(f) ==
  /\ f.count \in Nat /\ f.bytes \in Nat \union {Missing} /\ f.regular \in 0..100
  /\ f.times \in Seq(Nat \ {0}) /\ f.lens \in Seq(Nat)
  /\ {f.first, f.last} \subseteq Nat \ {0} \/ {f.first, f.last} = {Missing}

(* Number of positions of a sequence                                       *)
CountIn(xs, Is(_)) == Cardinality({i \in DOMAIN xs : Is(xs[i])})

Total(ns) ==
  LET sum[i \in 0..Len(ns)] == IF i = 0 THEN 0 ELSE sum[i - 1] + ns[i]
  IN  sum[Len(ns)]

Lesser(a, b) == IF a < b THEN a ELSE b
FirstOf(xs, n) == SubSeq(xs, 1, Lesser(n, Len(xs)))

Lowest(S)  == CHOOSE x \in S : \A y \in S : x <= y
Highest(S) == CHOOSE x \in S : \A y \in S : x >= y

(* A finite set in a strict order                                          *)
Listing(S, Before(_, _)) ==
  LET placed == {<<Cardinality({y \in S : Before(y, x)}) + 1, x>> : x \in S}
  IN  [k \in 1..Cardinality(S) |-> (CHOOSE p \in placed : p[1] = k)[2]]

(* What stands at some positions of a sequence                             *)
Picked(xs, at) ==
  LET order == Listing(at, LAMBDA i, j : i < j) IN [k \in DOMAIN order |-> xs[order[k]]]

(* Python's stable sort by falling score                                   *)
ByScore(xs) ==
  LET ahead(j, i) == xs[j].score > xs[i].score \/ (xs[j].score = xs[i].score /\ j < i)
      order       == Listing(DOMAIN xs, ahead)
  IN  [k \in DOMAIN order |-> xs[order[k]]]

-----------------------------------------------------------------------------
(* YARA.  Files are compiled under their stem: of two with the same one    *)
(* the one read later stays.  One file with an error leaves no rules.      *)
RuleFiles(files) ==
  {files[i] : i \in {i \in DOMAIN files : \A j \in DOMAIN files : j > i => files[j].stem # files[i].stem}}

Rules(files) ==
  IF \A f \in RuleFiles(files) : f.compiles THEN RuleFiles(files) ELSE {}

(* A file that is gone, empty, too large or out of time is an error and    *)
(* has no matches.                                                         *)
Tags(payload, rules) ==
  IF payload.readable THEN {r.tag : r \in {r \in rules : r.finds \in payload.signs}} ELSE {}

SeverityOf(tags) ==
  IF tags = {} THEN "clean"
  ELSE IF "malware" \in tags THEN "critical"
  ELSE IF "suspicious" \in tags THEN "high"
  ELSE IF "pup" \in tags THEN "medium"
  ELSE "low"

Severities == {"critical", "high", "medium", "low", "clean"}

NoYara == [kind |-> "none"]

(* scan_carved(): without payloads the stage does not run, without rules   *)
(* it ends with an error.                                                  *)
ScanCarved(carved, files) ==
  LET rules == Rules(files)
      found == [i \in DOMAIN carved |-> Tags(carved[i], rules)]
  IN  IF carved = <<>> THEN NoYara
      ELSE IF rules = {} THEN [kind |-> "error", matched |-> 0]
      ELSE [kind        |-> "scanned",
            matched     |-> CountIn(found, LAMBDA t : t # {}),
            errors      |-> CountIn(carved, LAMBDA p : ~p.readable),
            by_severity |-> [s \in Severities |-> CountIn(found, LAMBDA t : SeverityOf(t) = s)]]

-----------------------------------------------------------------------------
(* extract_ja3_from_zeek(): sessions of ssl.log with a fingerprint of the  *)
(* client or of the server; those of a log that is gone are not there.     *)
Ja3Rows(log, gone) ==
  IF gone THEN <<>> ELSE Picked(log, {i \in DOMAIN log : log[i].ja3 # "" \/ log[i].ja3s # ""})

IsMalware(row) == row.ja3 \in KnownMalware

AnalyzeJa3(rows) ==
  [sessions |-> Len(rows),
   unique   |-> Cardinality({rows[i].ja3 : i \in DOMAIN rows}),
   malware  |-> {rows[i] : i \in {i \in DOMAIN rows : IsMalware(rows[i])}}]

NoJa3 == [sessions |-> 0, unique |-> 0, malware |-> {}]

Distinct(rows) == Picked(rows, {i \in DOMAIN rows : \A j \in 1..(i - 1) : rows[j] # rows[i]})

-----------------------------------------------------------------------------
(* rank_beaconing(): the better of two statistics of the sampled times (an *)
(* input, in hundredths), times a factor for each way the flow looks       *)
(* harmless.                                                               *)
BENIGN_SERVICE_PORTS ==
  [p \in {53, 80, 123, 443, 993, 995, 1883, 5060, 5061, 5223, 5228, 5353, 8883} |->
     IF p = 80 THEN 30 ELSE IF p \in {1883, 8883, 5060, 5061} THEN 20 ELSE 15]
BENIGN_PERIODIC_PROTOS == {"icmp", "ntp", "ssdp", "mdns", "igmp"}

Score(flow) ==
  LET port  == IF flow.dport \in DOMAIN BENIGN_SERVICE_PORTS THEN BENIGN_SERVICE_PORTS[flow.dport] ELSE 100
      infra == IF {flow.src, flow.dst} \cap INFRA_ALLOWLIST # {} THEN 10 ELSE 100
      proto == IF flow.proto \in BENIGN_PERIODIC_PROTOS THEN 15 ELSE 100
      bulk  == IF (/\ flow.lens # <<>> /\ Len(flow.times) > BulkSamples
                /\ Total(flow.lens) > BulkSize * Len(flow.lens)) THEN 25 ELSE 100
  IN  (((flow.regular * port * infra) \div 100) * proto * bulk) \div 10000

Candidates(flows) ==
  LET times == Picked(flows, {i \in DOMAIN flows : Len(flows[i].times) >= 4})
  IN  [i \in DOMAIN times |-> [src |-> times[i].src, dst |-> times[i].dst, pkts |-> times[i].count,
                               score |-> Score(times[i])]]

RankBeaconing(flows) == FirstOf(ByScore(Candidates(flows)), TopBeacons)

-----------------------------------------------------------------------------
(* build_capture_metrics()                                                 *)
FlowStart(f) == IF f.first # Missing \/ f.times = <<>> THEN f.first ELSE Lowest({f.times[i] : i \in DOMAIN f.times})
FlowEnd(f)   == IF f.last # Missing \/ f.times = <<>> THEN f.last ELSE Highest({f.times[i] : i \in DOMAIN f.times})
Starts(flows) == {FlowStart(flows[i]) : i \in DOMAIN flows} \ {Missing}
Ends(flows)   == {FlowEnd(flows[i]) : i \in DOMAIN flows} \ {Missing}

Earliest(flows) == IF Starts(flows) = {} THEN Missing ELSE Lowest(Starts(flows))
Latest(flows)   == IF Ends(flows) = {} THEN Missing ELSE Highest(Ends(flows))

Detectors == {"zeek", "dns", "yara", "osint"}

(* The worker always has a dict of OSINT answers, filled or not.           *)
DetectorStatus(s) ==
  [d \in Detectors |->
     CASE d = "zeek"  -> IF s.zeek THEN "available" ELSE "unavailable"
       [] d = "dns"   -> IF s.dns.kind \in {"none", "error"} THEN "partial" ELSE "available"
       [] d = "yara"  -> IF s.yara.kind = "none" THEN "unavailable" ELSE "available"
       [] d = "osint" -> "available"]

BuildCaptureMetrics(s) ==
  LET parsed == Total([i \in DOMAIN s.flows |-> s.flows[i].count])
  IN  [parsed     |-> parsed,
       bytes      |-> Total([i \in DOMAIN s.flows |-> IF s.flows[i].bytes = Missing THEN 0 ELSE s.flows[i].bytes]),
       sampled    |-> CountIn(s.flows, LAMBDA f : f.count > Len(f.times)),
       first_seen |-> Earliest(s.flows),
       last_seen  |-> Latest(s.flows),
       incomplete |-> s.packets > 0 /\ parsed < s.packets,
       detectors  |-> DetectorStatus(s),
       gaps       |-> {d \in Detectors : DetectorStatus(s)[d] # "available"}]
=============================================================================
