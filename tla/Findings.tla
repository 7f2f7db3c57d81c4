------------------------------ MODULE Findings ------------------------------
(***************************************************************************)
(* What an analysis concludes from all its detectors together: a verdict   *)
(* on each address and name (app/analysis/correlation.py) and a severity   *)
(* of the whole from ATT&CK techniques (threat_intel/attack_mapping.py).   *)
(* The flow table and the DNS log are those of FlowRules and DnsRules;     *)
(* what OSINT and YARA say arrives as clues, and rank_beaconing()          *)
(* (pipeline/beacon.py) scores the flows anew for every packet more.       *)
(*                                                                         *)
(* Scores are hundredths, products ten-thousandths.                        *)
(***************************************************************************)
EXTENDS FlowRules, DnsRules

CONSTANTS
  Public,    \* addresses of flows that are public
  MAX_FLOWS, \* flows whose ports are looked at (1000)
  Clues,     \* clues there may be: on an indicator, of a kind, of an amount
  MaxMixed   \* bound on steps of different kinds, unless they are clues and one train

Kinds == {"reputation", "engines", "greynoise", "abuse", "vulns", "ports", "beacon", "yara_high", "yara_critical"}

ASSUME FindingsAssumption ==
  /\ \A c \in Clues : /\ c.kind \in Kinds /\ c.amount \in Nat \ {0}
                      /\ c.kind \in {"abuse", "beacon"} => c.amount <= 100  \* a percentage, a score
  /\ \A t \in Trains : t.len > 0
  /\ MaxMixed \in Nat

VARIABLES evidence  \* the strongest clue of each kind on each indicator

vars == <<flowVars, dnsVars, evidence>>

Init == FlowInit /\ DnsInit /\ evidence = {}

Mixed == Len(wire) + Len(log) + Cardinality(evidence) < MaxMixed

(* The scores of beacons, each the best of a destination, are of the flows *)
(* as they are now: regular packets raise them, irregular ones lower them, *)
(* and the ranking keeps only the best.  Any ranking may follow a packet.  *)
Reranked ==
  \E ranked \in SUBSET {c \in Clues : c.kind = "beacon" /\ c.on \in {flows'[i].dst : i \in DOMAIN flows'}} :
    /\ \A c, d \in ranked : c.on = d.on => c = d
    /\ ranked = {} \/ Mixed
    /\ evidence' = {d \in evidence : d.kind # "beacon"} \cup ranked

Learn(c) ==
  /\ c.kind # "beacon"
  /\ \A d \in evidence : d.on = c.on /\ d.kind = c.kind => d.amount < c.amount
  /\ evidence' = {d \in evidence : d.on # c.on \/ d.kind # c.kind} \cup {c}

Next ==
  \/ (Mixed \/ (log = <<>> /\ evidence = {})) /\ FlowNext /\ Reranked /\ UNCHANGED dnsVars
  \/ (Mixed \/ (wire = <<>> /\ evidence = {})) /\ DnsNext /\ UNCHANGED <<flowVars, evidence>>
  \/ (Mixed \/ (Len(wire) <= 1 /\ log = <<>>)) /\ (\E c \in Clues : Learn(c)) /\ UNCHANGED <<flowVars, dnsVars>>

Spec == Init /\ [][Next]_vars

-----------------------------------------------------------------------------
Amount(es, on, kind) == LET own == {c.amount : c \in {d \in es : d.on = on /\ d.kind = kind}}
                        IN  IF own = {} THEN 0 ELSE Max(own)

SIGNAL_WEIGHTS ==
  [vt_detections |-> 20, greynoise_malicious |-> 10, abuseipdb |-> 8, beacon_score |-> 18,
   dga_domain |-> 12, dns_tunneling |-> 10, flow_asymmetry |-> 4, shodan_vulns |-> 10, shodan_exposure |-> 4]
SignalNames ==
  {"vt_detections", "greynoise_malicious", "abuseipdb", "beacon_score", "dga_domain",
   "dns_tunneling", "flow_asymmetry", "shodan_vulns", "shodan_exposure"}
Tier1 == {"vt_detections", "greynoise_malicious"}
Tier2 == {"beacon_score", "flow_asymmetry", "dns_tunneling", "dga_domain"}

BestOf(results) == IF results = {} THEN 0 ELSE Smaller(Max({r.score : r \in results}), 100)
AsymmetryOf(fs, ip) == BestOf({r \in Uploads(fs) : r.dst = ip})

(* _collect_ip_signals(): the score of each signal, 0 for none.  Nothing   *)
(* comes of certificates and files: the alerts of the TLS stage are        *)
(* counters, and the results of YARA name no address.                      *)
IpSignals(fs, es, ip) ==
  [vt_detections       |-> Smaller(Amount(es, ip, "reputation"), 100),
   greynoise_malicious |-> IF Amount(es, ip, "greynoise") > 0 THEN 100 ELSE 0,
   abuseipdb           |-> Amount(es, ip, "abuse"),
   shodan_vulns        |-> IF Amount(es, ip, "vulns") > 0 THEN Smaller(30 + 10 * Amount(es, ip, "vulns"), 100) ELSE 0,
   shodan_exposure     |-> IF Amount(es, ip, "ports") >= 10 THEN Smaller((Amount(es, ip, "ports") * 100) \div 30, 80) ELSE 0,
   beacon_score        |-> IF Amount(es, ip, "beacon") > 50 THEN Amount(es, ip, "beacon") ELSE 0,
   flow_asymmetry      |-> IF AsymmetryOf(fs, ip) > 30 THEN AsymmetryOf(fs, ip) ELSE 0,
   dga_domain          |-> 0,
   dns_tunneling       |-> 0]

(* _collect_domain_signals(): a tunnel counts for its base domain only.    *)
DomainSignals(bs, es, name) ==
  [vt_detections       |-> Smaller(Amount(es, name, "engines"), 100),
   dga_domain          |-> IF Dga(name).confirmed /\ name \in {d.domain : d \in DgaDetections(bs)} THEN Smaller(DgaSum(DgaParts(name)), 100) ELSE 0,
   dns_tunneling       |-> BestOf({t \in TunnelDetections(bs) : t.domain = name /\ t.score >= 50}),
   greynoise_malicious |-> 0, abuseipdb |-> 0, shodan_vulns |-> 0, shodan_exposure |-> 0,
   beacon_score        |-> 0, flow_asymmetry |-> 0]

Weighed(s, score) == Smaller((score * SIGNAL_WEIGHTS[s] * 5) \div 2, 9500)

(* The product of what each signal leaves                                  *)
Left(signals, s, product) == (product * (10000 - Weighed(s, signals[s]))) \div 10000

Complement(signals) ==
  LET reputation == Left(signals, "abuseipdb", Left(signals, "greynoise_malicious", Left(signals, "vt_detections", 10000)))
      shodan     == Left(signals, "shodan_exposure", Left(signals, "shodan_vulns", reputation))
      names      == Left(signals, "dns_tunneling", Left(signals, "dga_domain", shodan))
  IN  10000 - Left(signals, "flow_asymmetry", Left(signals, "beacon_score", names))

(* Mutant: the floor takes the place of the score.                         *)
FlooredAt(signals, composite) ==
  IF signals.vt_detections >= 50 THEN 5500
  ELSE IF signals.greynoise_malicious >= 50 THEN 4000 ELSE composite

Floored(signals, composite) ==
  Larger(composite, IF signals.vt_detections >= 50 THEN 5500
                    ELSE IF signals.greynoise_malicious >= 50 THEN 4000 ELSE 0)

(* _compute_composite()                                                    *)
Composite(signals) ==
  LET floored == Floored(signals, Complement(signals))
  IN  IF \E s \in Tier1 \cup Tier2 : signals[s] > 0 THEN floored ELSE Smaller(floored, 4500)

Verdict(composite) ==
  IF composite >= 7500 THEN 3 ELSE IF composite >= 5500 THEN 2 ELSE IF composite >= 3500 THEN 1 ELSE 0

(* correlate_indicators(): public addresses of the flows, names of the log *)
Ips == {flows[i].src : i \in DOMAIN flows} \cup {flows[i].dst : i \in DOMAIN flows}
Correlations ==
  {[on |-> x, signals |-> IpSignals(flows, evidence, x)] : x \in Ips \cap Public}
    \cup {[on |-> x, signals |-> DomainSignals(log, evidence, x)] : x \in Queried(log)}
Signalled(r) == {s \in SignalNames : r.signals[s] > 0}

-----------------------------------------------------------------------------
Technique(id, tactic, confidence) == [id |-> id, tactic |-> tactic, confidence |-> confidence]

BeaconTechniques(score) ==
  IF score < 70 THEN {}
  ELSE {Technique(id, "command-and-control", Smaller(score, 100)) : id \in {"T1071.001", "T1571", "T1573"}}

Confirmed(results) == Cardinality({r \in results : r.score >= 50})

DnsTechniques(bs) ==
  LET dga     == Cardinality({x \in Queried(bs) : Dga(x).confirmed /\ Dga(x).listed})
      tunnels == Confirmed(Tunnels(bs))
      flux    == Confirmed(FastFlux(bs))
  IN  (IF dga = 0 THEN {} ELSE {Technique("T1568.002", "command-and-control", Smaller(50 + 10 * dga, 100))})
      \cup (IF tunnels = 0 THEN {}
            ELSE {Technique("T1071.004", "command-and-control", Smaller(60 + 10 * tunnels, 100)),
                  Technique("T1048.003", "exfiltration", Smaller(60 + 10 * tunnels, 100))})
      \cup (IF flux = 0 THEN {} ELSE {Technique("T1568.001", "command-and-control", Smaller(50 + 15 * flux, 100))})

YaraTechniques(kinds) ==
  (IF "yara_critical" \notin kinds THEN {}
   ELSE {Technique("T1059", "execution", 90), Technique("T1027", "defense-evasion", 90), Technique("T1055", "defense-evasion", 90)})
  \cup (IF "yara_high" \notin kinds THEN {}
        ELSE {Technique("T1027", "defense-evasion", 75), Technique("T1105", "command-and-control", 75)})

(* All that was sent to an address, whoever sent it and wherever it is.    *)
To(fs, dst)     == {i \in DOMAIN fs : fs[i].dst = dst}
SentTo(fs, dst) == SumFunction([i \in To(fs, dst) |-> IF fs[i].bytes # 0 THEN fs[i].bytes ELSE fs[i].count * 800])

TransferTechniques(fs) ==
  LET big == {d \in {fs[i].dst : i \in DOMAIN fs} : SentTo(fs, d) >= 10000000}
  IN  {Technique(id, "exfiltration", Smaller(50 + SentTo(fs, d) \div 1000000, 90)) : id \in {"T1048", "T1041"}, d \in big}

PortTechniques(fs) ==
  IF \E i \in DOMAIN fs : i <= MAX_FLOWS /\ fs[i].dport \in C2_COMMON_PORTS THEN {Technique("T1571", "command-and-control", 70)} ELSE {}

(* _deduplicate_techniques()                                               *)
Deduplicated(ts) ==
  {[t EXCEPT !.confidence = Max({u.confidence : u \in {v \in ts : v.id = t.id /\ v.tactic = t.tactic}})] : t \in ts}

(* map_analysis()                                                          *)
Techniques(fs, bs, es) ==
  Deduplicated((UNION {BeaconTechniques(c.amount) : c \in {d \in es : d.kind = "beacon"}})
               \cup DnsTechniques(bs) \cup YaraTechniques({c.kind : c \in es})
               \cup TransferTechniques(fs) \cup PortTechniques(fs))

(* _calculate_severity()                                                   *)
Severity(ts) ==
  LET impact == \E t \in ts : t.tactic \in {"exfiltration", "impact", "command-and-control"}
      most   == IF ts = {} THEN 0 ELSE Max({t.confidence : t \in ts})
  IN  IF impact /\ most >= 80 THEN 3
      ELSE IF impact \/ most >= 70 THEN 2
      ELSE IF Cardinality(ts) >= 3 \/ most >= 50 THEN 1
      ELSE 0

-----------------------------------------------------------------------------
(* Whatever OSINT and YARA add on top of what is known of an indicator of  *)
(* the same packets, in whatever order, its verdict never gets milder,     *)
(* though floors and a cap cut into the formula.                           *)
EvidenceNeverLowersVerdict ==
  [][UNCHANGED <<wire, log>> =>
       \A x \in Ips \cap Public :
         Verdict(Composite(IpSignals(flows', evidence', x))) >= Verdict(Composite(IpSignals(flows, evidence, x)))]_vars

(* No one signal, strong as it may be, makes an indicator critical.        *)
CriticalNeedsTwoSignals ==
  \A r \in Correlations : Verdict(Composite(r.signals)) = 3 => Cardinality(Signalled(r)) > 1

(* A tunnel that the DNS rules confirm reaches the verdict of its domain   *)
(* if the domain itself was asked for in lower case; else nothing does.    *)
(* No result of a lower score takes its place in a list that is cut.       *)
TunnelsCorrelated ==
  LET confirmed == {t \in Tunnels(log) : t.score >= 50}
  IN  Cardinality(confirmed) <= MAX_TUNNELING_RESULTS =>
        \A t \in confirmed :
          t.domain \in Queried(log) <=>
            \E r \in Correlations : r.on = t.domain /\ "dns_tunneling" \in Signalled(r)

(* No beacon is ranked lower than it was.                                  *)
BeaconsHold == \A c \in evidence : c.kind = "beacon" => Amount(evidence', c.on, "beacon") >= c.amount

(* More clues, stronger ones and more packets make a capture look no less  *)
(* severe, unless the packets made a beacon less regular: that alone may   *)
(* (rank_beaconing()).  A technique matched twice keeps the better match.  *)
SeverityNeverFalls ==
  [][UNCHANGED log /\ BeaconsHold =>
       Severity(Techniques(flows', log', evidence')) >= Severity(Techniques(flows, log, evidence))]_vars

(* One entry for each technique and tactic, as confident as the most       *)
(* confident match.                                                        *)
TypeOK ==
  /\ FlowTypeOK
  /\ log \in Seq(Batches) /\ Len(log) <= MaxBatches
  /\ evidence \subseteq Clues /\ \A c, d \in evidence : c.on = d.on /\ c.kind = d.kind => c = d
  /\ \A t, u \in Techniques(flows, log, evidence) : t.id = u.id /\ t.tactic = u.tactic => t = u

(* Verdicts follow the evidence: more of it never makes an indicator look  *)
(* milder, nor a capture whose beacons keep their scores; one signal alone *)
(* is never critical, and a confirmed tunnel counts for its domain         *)
(* (correlation.py, attack_mapping.py).                                    *)
VerdictsSound ==
  /\ [](TypeOK /\ CriticalNeedsTwoSignals /\ TunnelsCorrelated)
  /\ EvidenceNeverLowersVerdict /\ SeverityNeverFalls
=============================================================================
